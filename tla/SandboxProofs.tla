--------------------------- MODULE SandboxProofs ----------------------------
(* The shells and the tools of the sandbox: for each an invariant that its own *)
(* steps keep, and that gives what the agent is promised of its answers.  The *)
(* theorems for the composed system are in RuntimeProofs.                    *)
EXTENDS Shells, SandboxTools, FileTools, SandboxServices, NestedConversations,
        SequenceTheorems, FiniteSetTheorems, TLAPS

-----------------------------------------------------------------------------
(* Sequences                                                                 *)

\* The numbers from 1 up: the pages and cells of a tool that has left none out.
UpTo(n) == [i \in 1..n |-> i]

\* One number more.
LEMMA OneMore ==
  ASSUME NEW n \in Nat
  PROVE  /\ UpTo(n) \in Seq(Nat) /\ Len(UpTo(n)) = n /\ Append(UpTo(n), n + 1) = UpTo(n + 1)
         /\ UpTo(0) = <<>>
<1>1. UpTo(n) \in Seq(Nat) /\ Len(UpTo(n)) = n
  BY DEF UpTo
<1>2. UpTo(n + 1) \in Seq(Nat) /\ Len(UpTo(n + 1)) = n + 1
  BY DEF UpTo
<1> DEFINE u == Append(UpTo(n), n + 1)
<1>3. u \in Seq(Nat) /\ Len(u) = n + 1 /\ u[n + 1] = n + 1 /\ \A i \in 1..n : u[i] = UpTo(n)[i]
  BY <1>1, AppendProperties
<1>4. \A i \in 1..(n + 1) : u[i] = UpTo(n + 1)[i]
  <2> SUFFICES ASSUME NEW i \in 1..(n + 1) PROVE u[i] = UpTo(n + 1)[i]
    OBVIOUS
  <2>1. UpTo(n + 1)[i] = i
    BY DEF UpTo
  <2>2. CASE i = n + 1
    BY <1>3, <2>1, <2>2
  <2>3. CASE i # n + 1
    <3>1. i \in 1..n
      BY <2>3
    <3>2. UpTo(n)[i] = i
      BY <3>1 DEF UpTo
    <3> QED BY <1>3, <2>1, <3>1, <3>2
  <2> QED BY <2>2, <2>3
<1> HIDE DEF u
<1>5. u = UpTo(n + 1)
  BY <1>2, <1>3, <1>4, SeqEqual
<1>6. UpTo(0) = <<>>
  <2>1. UpTo(0) \in Seq(Nat) /\ Len(UpTo(0)) = 0
    BY DEF UpTo
  <2> QED BY <2>1, EmptySeq
<1> QED BY <1>1, <1>5, <1>6 DEF u

\* What is left of a sequence when its head is taken.
LEMMA HeadTaken ==
  ASSUME NEW S, NEW s \in Seq(S), s # <<>>
  PROVE  /\ Head(s) \in S /\ Tail(s) \in Seq(S) /\ Head(s) = s[1] /\ 1 \in DOMAIN s
         /\ Len(Tail(s)) = Len(s) - 1 /\ Len(s) \in Nat /\ DOMAIN s = 1..Len(s)
         /\ DOMAIN Tail(s) = 1..Len(Tail(s)) /\ Len(Tail(s)) \in Nat
         /\ \A i \in 1..Len(Tail(s)) : Tail(s)[i] = s[i + 1]
<1>1. /\ Head(s) \in S /\ Tail(s) \in Seq(S) /\ Len(Tail(s)) = Len(s) - 1
      /\ \A i \in 1..Len(Tail(s)) : Tail(s)[i] = s[i + 1]
  BY HeadTailProperties
<1>2. Len(s) \in Nat /\ DOMAIN s = 1..Len(s) /\ Len(s) # 0 /\ Head(s) = s[1]
  BY EmptySeq, LenProperties
<1>3. DOMAIN Tail(s) = 1..Len(Tail(s)) /\ Len(Tail(s)) \in Nat
  BY <1>1, LenProperties
<1> QED BY <1>1, <1>2, <1>3

\* What a sequence becomes when an element is put behind it.
LEMMA PutBehind ==
  ASSUME NEW S, NEW s \in Seq(S), NEW e \in S
  PROVE  /\ Append(s, e) \in Seq(S) /\ Len(s) \in Nat /\ Len(Append(s, e)) = Len(s) + 1
         /\ \A i \in 1..Len(s) : Append(s, e)[i] = s[i]
         /\ Append(s, e)[Len(s) + 1] = e
  BY AppendProperties, LenProperties

-----------------------------------------------------------------------------
(* The command line: a line that was written is read once, in order, whichever *)
(* of pipe and buffer holds it.                                              *)

\* The kinds of values the command line's variables hold.
CliTypeOK ==
  /\ printed \in Seq(Nat) /\ pipe \in Seq(Nat) /\ buffer \in Seq(Nat) /\ output \in Seq(Nat)
  /\ child \in {"none", "runs", "stubborn", "ended"} /\ heir \in BOOLEAN
  /\ at \in {"idle", "poll", "select", "drain"} /\ lineRead \in {"unbound", "some", "empty"}

\* No line is lost on its way from the command through pipe and buffer to the output.
CliWay ==
  /\ output \o (buffer \o pipe) = printed
  /\ (at # "idle" => child # "none")
  /\ (lineRead = "unbound" => output = <<>>)
  /\ (lineRead = "empty" => (buffer = <<>> /\ pipe = <<>> /\ child = "ended" /\ heir = FALSE))
  /\ ((at = "idle" /\ answer \in {"exit", "timeout"}) => lineRead # "some")

\* The inductive invariant of the command line.
CliInv == CliTypeOK /\ CliWay

\* A sequence is its first element before the rest.
LEMMA HeadThenTail ==
  ASSUME NEW s \in Seq(Nat), s # <<>>
  PROVE  /\ Head(s) \in Nat /\ Tail(s) \in Seq(Nat) /\ <<Head(s)>> \in Seq(Nat)
         /\ s = <<Head(s)>> \o Tail(s)
<1>1. Head(s) \in Nat /\ Tail(s) \in Seq(Nat) /\ <<Head(s)>> \in Seq(Nat)
  BY HeadTailProperties
<1>2. /\ Len(s) \in Nat /\ Len(s) > 0 /\ Len(Tail(s)) = Len(s) - 1
      /\ \A i \in 1..Len(Tail(s)) : Tail(s)[i] = s[i + 1]
      /\ Head(s) = s[1]
  BY HeadTailProperties, EmptySeq, LenProperties
<1> DEFINE h == <<Head(s)>>
           w == Tail(s)
<1>3. /\ Len(h \o w) = Len(h) + Len(w)
      /\ \A i \in 1..(Len(h) + Len(w)) : (h \o w)[i] = IF i <= Len(h) THEN h[i] ELSE w[i - Len(h)]
      /\ h \o w \in Seq(Nat)
  BY <1>1, ConcatProperties
<1>4. Len(h) = 1 /\ h[1] = Head(s)
  OBVIOUS
<1>5. h \in Seq(Nat) /\ w \in Seq(Nat) /\ Len(w) = Len(s) - 1
      /\ \A i \in 1..Len(w) : w[i] = s[i + 1]
  BY <1>1, <1>2
<1> HIDE DEF h, w
<1>6. Len(h \o w) = Len(s)
  BY <1>2, <1>3, <1>4, <1>5
<1>7. ASSUME NEW i \in 1..Len(s) PROVE (h \o w)[i] = s[i]
  <2>1. CASE i = 1
    BY <2>1, <1>2, <1>3, <1>4, <1>5
  <2>2. CASE i # 1
    <3>1. i - 1 \in 1..Len(w) /\ i \in 1..(Len(h) + Len(w)) /\ ~(i <= Len(h)) /\ i - Len(h) = i - 1
      BY <2>2, <1>2, <1>4, <1>5
    <3>2. (h \o w)[i] = w[i - 1]
      BY <3>1, <1>3
    <3>3. w[i - 1] = s[(i - 1) + 1] /\ (i - 1) + 1 = i
      BY <3>1, <1>5
    <3> QED BY <3>2, <3>3
  <2> QED BY <2>1, <2>2
<1>8. s = h \o w
  BY <1>3, <1>6, <1>7, SeqEqual
<1> QED BY <1>1, <1>8 DEF h, w

\* Concatenation of lines is associative.
LEMMA LinesJoin ==
  ASSUME NEW s \in Seq(Nat), NEW t \in Seq(Nat), NEW u \in Seq(Nat)
  PROVE  (s \o t) \o u = s \o (t \o u)
  BY ConcatAssociative

\* A line appended is a sequence of one joined on.
LEMMA LineAppended ==
  ASSUME NEW s \in Seq(Nat), NEW n \in Nat
  PROVE  <<n>> \in Seq(Nat) /\ Append(s, n) = s \o <<n>> /\ Append(s, n) \in Seq(Nat)
<1>1. Append(s, n) \in Seq(Nat)
  BY AppendProperties, Zenon
<1>2. Append(s, n) = s \o <<n>>
  BY AppendIsConcat, Zenon
<1> QED BY <1>1, <1>2

\* Reading a line moves it from the head of what is left to the end of what was read.
LEMMA MovesLine ==
  ASSUME NEW o \in Seq(Nat), NEW s \in Seq(Nat), NEW t \in Seq(Nat), s # <<>>
  PROVE  /\ Append(o, Head(s)) \in Seq(Nat) /\ Tail(s) \in Seq(Nat)
         /\ Append(o, Head(s)) \o (Tail(s) \o t) = o \o (s \o t)
<1>1. Head(s) \in Nat /\ Tail(s) \in Seq(Nat) /\ <<Head(s)>> \in Seq(Nat)
  BY HeadThenTail
<1>2. Append(o, Head(s)) = o \o <<Head(s)>>
  BY <1>1, AppendIsConcat
<1>3. s = <<Head(s)>> \o Tail(s)
  BY HeadThenTail
<1> DEFINE h == <<Head(s)>>
           w == Tail(s)
<1>4. h \in Seq(Nat) /\ w \in Seq(Nat) /\ s = h \o w /\ Append(o, Head(s)) = o \o h
  BY <1>1, <1>2, <1>3
<1> HIDE DEF h, w
<1>5. w \o t \in Seq(Nat)
  BY <1>4, ConcatProperties
<1>6. (o \o h) \o (w \o t) = o \o (h \o (w \o t))
  <2>1. h \in Seq(Nat) /\ w \o t \in Seq(Nat)
    BY <1>4, <1>5
  <2> QED BY <2>1, LinesJoin, Zenon
<1>7. (h \o w) \o t = h \o (w \o t)
  <2>1. h \in Seq(Nat) /\ w \in Seq(Nat)
    BY <1>4
  <2> QED BY <2>1, LinesJoin, Zenon
<1>8. o \o h \in Seq(Nat)
  BY <1>4, ConcatProperties
<1> QED BY <1>4, <1>6, <1>7, <1>8 DEF w

\* No line is printed yet.
LEMMA CliStarts == CliInit => CliInv
<1> SUFFICES ASSUME CliInit PROVE CliInv
  OBVIOUS
<1>1. <<>> \in Seq(Nat) /\ (<<>> \o (<<>> \o <<>>)) = <<>>
  BY EmptySeq, ConcatEmptySeq
<1>2. CliTypeOK
  BY <1>1 DEF CliInit, CliTypeOK
<1>3. CliWay
  BY <1>1 DEF CliInit, CliWay, NoAnswer
<1> QED BY <1>2, <1>3 DEF CliInv

\* The steps that leave the lines where they are.
LEMMA CliQuietSteps ==
  ASSUME CliInv, CliConnects \/ CliCloses \/ RunRefused \/ Ends \/ HeirEnds
                 \/ CliPolls \/ TimesOut \/ SelectTimesOut \/ (at = "drain" /\ lineRead # "some" /\ Returns)
  PROVE  CliInv'
<1> USE DEF CliInv
<1>1. CASE CliConnects \/ CliCloses
  <2>1. UNCHANGED <<processVars, buffer, at, lineRead, output, timedOut, answer>>
    BY <1>1 DEF CliConnects, CliCloses
  <2> QED BY <2>1 DEF CliTypeOK, CliWay, processVars
<1>2. CASE RunRefused
  <2>1. UNCHANGED <<processVars, buffer, at, lineRead, output>> /\ answer' = "refused"
    BY <1>2 DEF RunRefused
  <2> QED BY <2>1 DEF CliTypeOK, CliWay, processVars
<1>3. CASE Ends
  <2>1. UNCHANGED <<heir, printed, pipe, buffer, at, lineRead, output, answer>> /\ child' = "ended"
    BY <1>3 DEF Ends
  <2> QED BY <2>1 DEF CliTypeOK, CliWay
<1>4. CASE HeirEnds
  <2>1. UNCHANGED <<child, printed, pipe, buffer, at, lineRead, output, answer>> /\ heir' = FALSE
    BY <1>4 DEF HeirEnds
  <2> QED BY <2>1 DEF CliTypeOK, CliWay
<1>5. CASE CliPolls
  <2>1. /\ UNCHANGED <<child, heir, printed, pipe, buffer, lineRead, output, answer>>
        /\ at # "idle" /\ at' \in {"select", "drain"}
    BY <1>5 DEF CliPolls, processVars
  <2> QED BY <2>1 DEF CliTypeOK, CliWay
<1>6. CASE TimesOut
  <2>1. /\ UNCHANGED <<printed, pipe, buffer, lineRead, output, answer>>
        /\ at # "idle" /\ at' = "drain" /\ Alive
        /\ (child' = "ended" /\ heir' = FALSE) \/ UNCHANGED <<child, heir>>
    BY <1>6 DEF TimesOut
  <2> QED BY <2>1 DEF CliTypeOK, CliWay, Alive
<1>7. CASE SelectTimesOut
  <2>1. /\ UNCHANGED <<child, heir, printed, pipe, buffer, lineRead, output, answer>>
        /\ at # "idle" /\ at' = "poll"
    BY <1>7 DEF SelectTimesOut, processVars
  <2> QED BY <2>1 DEF CliTypeOK, CliWay
<1>8. CASE at = "drain" /\ lineRead # "some" /\ Returns
  <2>1. /\ UNCHANGED <<child, heir, printed, pipe, buffer, lineRead, output>>
        /\ lineRead # "some" /\ at' = "idle"
    BY <1>8 DEF Returns, processVars
  <2> QED BY <2>1 DEF CliTypeOK, CliWay
<1> QED BY <1>1, <1>2, <1>3, <1>4, <1>5, <1>6, <1>7, <1>8

\* A new command starts with nothing on its way.
LEMMA CliRunStarts ==
  ASSUME CliInv, RunStarts PROVE CliInv'
<1>1. <<>> \in Seq(Nat) /\ (<<>> \o (<<>> \o <<>>)) = <<>>
  BY EmptySeq, ConcatEmptySeq
<1>2. CliTypeOK'
  BY <1>1 DEF CliInv, RunStarts, CliTypeOK
<1>3. CliWay'
  BY <1>1 DEF RunStarts, CliWay, NoAnswer
<1> QED BY <1>2, <1>3 DEF CliInv

\* A printed line goes to the end of the pipe.
LEMMA CliPrints ==
  ASSUME CliInv, Prints PROVE CliInv'
<1>1. PICK n \in Nat : n = Len(printed) + 1
  BY LenProperties DEF CliInv, CliTypeOK
<1>2. /\ printed' = Append(printed, n) /\ pipe' = Append(pipe, n)
      /\ UNCHANGED <<child, heir, buffer, at, lineRead, output, answer>>
  BY <1>1 DEF Prints
<1>3. /\ printed \in Seq(Nat) /\ pipe \in Seq(Nat) /\ buffer \in Seq(Nat) /\ output \in Seq(Nat)
      /\ output \o (buffer \o pipe) = printed
  BY DEF CliInv, CliTypeOK, CliWay
<1>4. /\ <<n>> \in Seq(Nat) /\ Append(printed, n) = printed \o <<n>> /\ Append(pipe, n) = pipe \o <<n>>
      /\ Append(printed, n) \in Seq(Nat) /\ Append(pipe, n) \in Seq(Nat)
  BY <1>1, <1>3, LineAppended
<1> DEFINE x == <<n>>
<1>5. x \in Seq(Nat) /\ Append(printed, n) = printed \o x /\ Append(pipe, n) = pipe \o x
  BY <1>4
<1> HIDE DEF x
<1>6. buffer \o pipe \in Seq(Nat)
  BY <1>3, ConcatProperties
<1>7. (output \o (buffer \o pipe)) \o x = output \o ((buffer \o pipe) \o x)
  <2>1. output \in Seq(Nat) /\ buffer \o pipe \in Seq(Nat) /\ x \in Seq(Nat)
    BY <1>3, <1>5, <1>6
  <2> QED BY <2>1, LinesJoin, Zenon
<1>8. (buffer \o pipe) \o x = buffer \o (pipe \o x)
  <2>1. buffer \in Seq(Nat) /\ pipe \in Seq(Nat) /\ x \in Seq(Nat)
    BY <1>3, <1>5
  <2> QED BY <2>1, LinesJoin, Zenon
<1>9. output' \o (buffer' \o pipe') = printed'
  BY <1>2, <1>3, <1>5, <1>7, <1>8
<1>10. CliTypeOK'
  BY <1>2, <1>4 DEF CliInv, CliTypeOK
<1>11. lineRead # "empty"
  BY DEF CliInv, CliWay, Prints, Alive
<1>12. CliWay'
  BY <1>2, <1>9, <1>11 DEF CliInv, CliWay
<1> QED BY <1>10, <1>12 DEF CliInv

\* A line read moves to the output; an empty one says that nothing is left and nobody prints.
LEMMA CliReads ==
  ASSUME CliInv, at \in {"select", "drain"}, ReadsLine, at' \in {"poll", "drain"},
         UNCHANGED <<child, heir, printed, answer>>
  PROVE  CliInv'
<1>1. /\ printed \in Seq(Nat) /\ pipe \in Seq(Nat) /\ buffer \in Seq(Nat) /\ output \in Seq(Nat)
      /\ output \o (buffer \o pipe) = printed /\ child # "none"
      /\ child \in {"none", "runs", "stubborn", "ended"} /\ heir \in BOOLEAN
  BY DEF CliInv, CliTypeOK, CliWay
<1>2. CASE buffer # <<>>
  <2>1. /\ lineRead' = "some" /\ output' = Append(output, Head(buffer)) /\ buffer' = Tail(buffer)
        /\ pipe' = pipe
    BY <1>2 DEF ReadsLine
  <2>2. /\ Append(output, Head(buffer)) \in Seq(Nat) /\ Tail(buffer) \in Seq(Nat)
        /\ Append(output, Head(buffer)) \o (Tail(buffer) \o pipe) = output \o (buffer \o pipe)
    BY <1>1, <1>2, MovesLine
  <2>3. CliTypeOK'
    BY <1>1, <2>1, <2>2 DEF CliTypeOK
  <2>4. output' \o (buffer' \o pipe') = printed'
    BY <1>1, <2>1, <2>2
  <2>5. CliWay'
    BY <1>1, <2>1, <2>4 DEF CliWay
  <2> QED BY <2>3, <2>5 DEF CliInv
<1>3. CASE buffer = <<>> /\ pipe # <<>>
  <2>1. /\ lineRead' = "some" /\ output' = Append(output, Head(pipe)) /\ buffer' = Tail(pipe)
        /\ pipe' = <<>>
    BY <1>3 DEF ReadsLine
  <2>2. <<>> \in Seq(Nat) /\ buffer \o pipe = pipe /\ pipe \o <<>> = pipe
    BY <1>1, <1>3, EmptySeq, ConcatEmptySeq
  <2>3. /\ Append(output, Head(pipe)) \in Seq(Nat) /\ Tail(pipe) \in Seq(Nat)
        /\ Append(output, Head(pipe)) \o (Tail(pipe) \o <<>>) = output \o (pipe \o <<>>)
    <3>1. pipe \in Seq(Nat) /\ <<>> \in Seq(Nat) /\ pipe # <<>> /\ output \in Seq(Nat)
      BY <1>1, <1>3, <2>2
    <3> QED BY <3>1, MovesLine, Zenon
  <2>4. CliTypeOK'
    BY <1>1, <2>1, <2>2, <2>3 DEF CliTypeOK
  <2>5. output' \o (buffer' \o pipe') = printed'
    BY <1>1, <2>1, <2>2, <2>3
  <2>6. CliWay'
    BY <1>1, <2>1, <2>5 DEF CliWay
  <2> QED BY <2>4, <2>6 DEF CliInv
<1>4. CASE buffer = <<>> /\ pipe = <<>>
  <2>1. lineRead' = "empty" /\ UNCHANGED <<output, buffer, pipe>>
    BY <1>4 DEF ReadsLine
  <2>2. child = "ended" /\ heir = FALSE
    BY <1>1, <1>4 DEF ReadsLine, CanRead, EndOfFile, Alive
  <2>3. CliTypeOK'
    BY <1>1, <2>1 DEF CliTypeOK
  <2>4. CliWay'
    BY <1>1, <1>4, <2>1, <2>2 DEF CliWay
  <2> QED BY <2>3, <2>4 DEF CliInv
<1> QED BY <1>2, <1>3, <1>4

\* Every step of the command line keeps its invariant.
LEMMA CliSteps == CliInv /\ CliNext => CliInv'
<1> SUFFICES ASSUME CliInv, CliNext PROVE CliInv'
  OBVIOUS
<1>1. CASE RunStarts
  BY <1>1, CliRunStarts
<1>2. CASE Prints
  BY <1>2, CliPrints
<1>3. CASE SelectReads
  <2>1. /\ at \in {"select", "drain"} /\ ReadsLine /\ at' \in {"poll", "drain"}
        /\ UNCHANGED <<child, heir, printed, answer>>
    BY <1>3 DEF SelectReads
  <2> QED BY <2>1, CliReads
<1>4. CASE Drains
  <2>1. CASE lineRead = "some"
    <3>1. /\ at \in {"select", "drain"} /\ ReadsLine /\ at' \in {"poll", "drain"}
          /\ UNCHANGED <<child, heir, printed, answer>>
      BY <1>4, <2>1 DEF Drains
    <3> QED BY <3>1, CliReads
  <2>2. CASE lineRead # "some"
    <3>1. at = "drain" /\ lineRead # "some" /\ Returns
      BY <1>4, <2>2 DEF Drains
    <3> QED BY <3>1, CliQuietSteps
  <2> QED BY <2>1, <2>2
<1>5. CASE CliConnects \/ CliCloses \/ RunRefused \/ Ends \/ HeirEnds
           \/ CliPolls \/ TimesOut \/ SelectTimesOut
  BY <1>5, CliQuietSteps
<1> QED BY <1>1, <1>2, <1>3, <1>4, <1>5 DEF CliNext

\* Nothing else touches the command line.
LEMMA CliFrame == CliInv /\ UNCHANGED cliVars => CliInv'
  BY DEF CliInv, CliTypeOK, CliWay, cliVars, processVars

\* What is answered is whole or nothing.
LEMMA CliWhole == CliInv => CliOutputWhole
<1> SUFFICES ASSUME CliInv, at = "idle", answer \in {"exit", "timeout"}
             PROVE  \/ lineRead = "unbound" /\ output = <<>>
                    \/ child = "ended" /\ ~heir /\ output = printed
  BY DEF CliOutputWhole
<1>1. CASE lineRead = "unbound"
  BY <1>1 DEF CliInv, CliWay
<1>2. CASE lineRead = "empty"
  <2>1. buffer = <<>> /\ pipe = <<>> /\ child = "ended" /\ ~heir /\ output \o (buffer \o pipe) = printed
    BY <1>2 DEF CliInv, CliWay
  <2>2. output \in Seq(Nat)
    BY DEF CliInv, CliTypeOK
  <2>3. (<<>> \o <<>>) = <<>> /\ output \o <<>> = output
    BY <2>2, EmptySeq, ConcatEmptySeq
  <2> QED BY <2>1, <2>3
<1>3. lineRead \in {"unbound", "empty"}
  BY DEF CliInv, CliTypeOK, CliWay
<1> QED BY <1>1, <1>2, <1>3

-----------------------------------------------------------------------------
(* BashSession: the last prompt is that of the command the session waits for. *)

\* A line of keys typed into the pane.
Keys == [n : Nat \ {0}, mode : {"run", "input"}]

\* A call of execute.
BashCalls == [n : Nat, mode : Modes \cup {"none"}, blocking : BOOLEAN, timeout : BOOLEAN, count : Nat]

\* The kinds of values of the bash part.
BashTypeOK ==
  /\ bash \in [prev : {"none", "completed"} \cup TimedOut, closed : BOOLEAN, calls : Nat,
               awaits : Nat, call : BashCalls]
  /\ term \in [prompts : Seq(Nat), atEnd : BOOLEAN, unread : Seq(Keys), job : Nat]
  /\ seen \in [own : BOOLEAN, fed : BOOLEAN, raced : BOOLEAN]
  /\ (term.atEnd = TRUE <=> term.job = 0)
  /\ (bash.closed = TRUE => bash.call = NoCall)

\* No command is among the keys that are unread.
NoRunUnread == \A i \in DOMAIN term.unread : term.unread[i].mode # "run"

\* The command has been typed and bash has not read it.
Typed ==
  /\ term.job = 0 /\ bash.awaits # 0 /\ bash.call.n = bash.awaits
  /\ \E i \in DOMAIN term.unread : term.unread[i].n = bash.awaits
  /\ \A i \in DOMAIN term.unread : term.unread[i].mode = "run" =>
       i = Len(term.unread) /\ term.unread[i].n = bash.awaits
  /\ Len(term.prompts) <= bash.call.count

\* It runs, and no prompt has been added.
Runs ==
  /\ term.job # 0 /\ term.job = bash.awaits /\ NoRunUnread
  /\ (bash.call # NoCall => Len(term.prompts) <= bash.call.count)
  /\ (bash.call = NoCall => bash.prev \in TimedOut)

\* It has ended, and its prompt is the last one.
AtPrompt ==
  /\ term.job = 0 /\ NoRunUnread
  /\ term.prompts # <<>> /\ Last(term.prompts) = bash.awaits

\* What the session knows of the command it waits for, unless input went to the prompt.
BashKnows == seen.raced = TRUE \/ bash.closed = TRUE \/ Typed \/ Runs \/ AtPrompt

\* The inductive invariant of the bash part.
BashInv == BashTypeOK /\ AnswersOwnCommand /\ BashKnows

\* At first the shell shows its prompt.
LEMMA BashStarts == BashInit => BashInv
<1> SUFFICES ASSUME BashInit PROVE BashInv
  OBVIOUS
<1>1. <<0>> \in Seq(Nat) /\ <<>> \in Seq(Keys) /\ Len(<<0>>) = 1 /\ <<0>>[1] = 0 /\ <<0>> # <<>>
  OBVIOUS
<1>2. BashTypeOK
  <2>1. NoCall \in BashCalls
    BY DEF NoCall, BashCalls
  <2> QED BY <1>1, <2>1 DEF BashInit, BashTypeOK
<1>3. AnswersOwnCommand
  BY DEF BashInit, AnswersOwnCommand
<1>4. AtPrompt
  <2>1. term.prompts = <<0>> /\ term.unread = <<>> /\ term.job = 0 /\ bash.awaits = 0
    BY DEF BashInit
  <2>2. Last(term.prompts) = 0
    BY <1>1, <2>1 DEF Last
  <2> QED BY <1>1, <2>1, <2>2 DEF AtPrompt, NoRunUnread
<1> QED BY <1>2, <1>3, <1>4 DEF BashInv, BashKnows

\* bash starts the command that was typed, unless it takes left input for one.
LEMMA ShellReadsKeeps ==
  ASSUME BashInv, ShellReads PROVE BashInv'
<1>1. /\ bash \in [prev : {"none", "completed"} \cup TimedOut, closed : BOOLEAN, calls : Nat,
                   awaits : Nat, call : BashCalls]
      /\ term \in [prompts : Seq(Nat), atEnd : BOOLEAN, unread : Seq(Keys), job : Nat]
      /\ seen \in [own : BOOLEAN, fed : BOOLEAN, raced : BOOLEAN]
      /\ term.job = 0 /\ term.unread # <<>>
  BY DEF BashInv, BashTypeOK, ShellReads
<1>2. PICK k \in Keys, rest \in Seq(Keys) :
        /\ k = Head(term.unread) /\ rest = Tail(term.unread) /\ k = term.unread[1]
        /\ 1 \in DOMAIN term.unread /\ Len(rest) = Len(term.unread) - 1
        /\ Len(term.unread) \in Nat
  <2>1. term.unread \in Seq(Keys) /\ term.unread # <<>>
    BY <1>1
  <2> QED BY <2>1, HeadTaken
<1>3. /\ term' = [term EXCEPT !.job = k.n, !.unread = rest, !.atEnd = FALSE]
      /\ seen' = [seen EXCEPT !.raced = seen.raced \/ k.mode = "input"] /\ bash' = bash
  BY <1>2 DEF ShellReads
<1>4. /\ term'.job = k.n /\ term'.unread = rest /\ term'.atEnd = FALSE
      /\ term'.prompts = term.prompts
  BY <1>1, <1>3
<1>5. seen'.own = seen.own /\ seen'.fed = seen.fed /\ seen'.raced = (seen.raced \/ k.mode = "input")
  BY <1>1, <1>3
<1>6. k.n \in Nat /\ k.n # 0 /\ k.mode \in {"run", "input"}
  BY <1>2 DEF Keys
<1>7. AnswersOwnCommand'
  BY <1>5 DEF BashInv, AnswersOwnCommand
<1>8. BashTypeOK'
  <2>1. term' \in [prompts : Seq(Nat), atEnd : BOOLEAN, unread : Seq(Keys), job : Nat]
    BY <1>1, <1>3, <1>6
  <2>2. seen' \in [own : BOOLEAN, fed : BOOLEAN, raced : BOOLEAN]
    BY <1>1, <1>3
  <2>3. (bash'.closed = TRUE) => (bash'.call = NoCall)
    BY <1>3 DEF BashInv, BashTypeOK
  <2>4. (term'.atEnd = TRUE) <=> (term'.job = 0)
    BY <1>4, <1>6
  <2> QED BY <1>1, <1>3, <2>1, <2>2, <2>3, <2>4 DEF BashTypeOK
<1>9. CASE seen.raced = TRUE \/ bash.closed = TRUE \/ k.mode = "input"
  BY <1>3, <1>5, <1>7, <1>8, <1>9 DEF BashInv, BashKnows
<1>10. CASE k.mode = "run" /\ seen.raced # TRUE /\ bash.closed # TRUE
  <2>1. Typed
    <3>1. ~NoRunUnread
      BY <1>2, <1>10 DEF NoRunUnread
    <3> QED BY <1>10, <3>1 DEF BashInv, BashKnows, Runs, AtPrompt
  <2>2. 1 = Len(term.unread) /\ k.n = bash.awaits
    BY <1>2, <1>10, <2>1 DEF Typed
  <2>3. rest = <<>>
    BY <1>2, <2>2, EmptySeq, LenProperties
  <2>4. bash.call # NoCall /\ Len(term.prompts) <= bash.call.count
    BY <2>1 DEF Typed, NoCall
  <2>5. Runs'
    BY <1>3, <1>4, <1>6, <2>2, <2>3, <2>4 DEF Runs, NoRunUnread
  <2> QED BY <1>7, <1>8, <2>5 DEF BashInv, BashKnows
<1> QED BY <1>6, <1>9, <1>10

\* The process reads a key: no command is among the keys while one runs.
LEMMA ProcessReadsKeeps ==
  ASSUME BashInv, ProcessReads PROVE BashInv'
<1>1. /\ term \in [prompts : Seq(Nat), atEnd : BOOLEAN, unread : Seq(Keys), job : Nat]
      /\ term.job # 0 /\ term.unread # <<>>
  BY DEF BashInv, BashTypeOK, ProcessReads
<1>2. PICK rest \in Seq(Keys) :
        /\ rest = Tail(term.unread) /\ Len(rest) = Len(term.unread) - 1
        /\ Len(term.unread) \in Nat /\ DOMAIN term.unread = 1..Len(term.unread)
        /\ DOMAIN rest = 1..Len(rest) /\ Len(rest) \in Nat
        /\ \A i \in 1..Len(rest) : rest[i] = term.unread[i + 1]
  <2>1. term.unread \in Seq(Keys) /\ term.unread # <<>>
    BY <1>1
  <2> DEFINE w == Tail(term.unread)
  <2>2. /\ w \in Seq(Keys) /\ Len(w) = Len(term.unread) - 1
        /\ Len(term.unread) \in Nat /\ DOMAIN term.unread = 1..Len(term.unread)
        /\ DOMAIN w = 1..Len(w) /\ Len(w) \in Nat
        /\ \A i \in 1..Len(w) : w[i] = term.unread[i + 1]
    BY <2>1, HeadTaken
  <2>3. w = Tail(term.unread)
    OBVIOUS
  <2> HIDE DEF w
  <2> QED BY <2>2, <2>3
<1>3. term' = [term EXCEPT !.unread = rest] /\ bash' = bash /\ seen' = seen
  BY <1>2 DEF ProcessReads
<1>4. /\ term'.job = term.job /\ term'.unread = rest /\ term'.atEnd = term.atEnd
      /\ term'.prompts = term.prompts
      /\ term' \in [prompts : Seq(Nat), atEnd : BOOLEAN, unread : Seq(Keys), job : Nat]
  BY <1>1, <1>3
<1>5. BashTypeOK' /\ AnswersOwnCommand'
  BY <1>3, <1>4 DEF BashInv, BashTypeOK, AnswersOwnCommand
<1>6. CASE Runs
  <2>1. \A i \in 1..Len(rest) : i + 1 \in DOMAIN term.unread
    BY <1>2
  <2>2. \A i \in DOMAIN rest : rest[i].mode # "run"
    <3> SUFFICES ASSUME NEW i \in 1..Len(rest) PROVE rest[i].mode # "run"
      BY <1>2
    <3>1. rest[i] = term.unread[i + 1] /\ i + 1 \in DOMAIN term.unread
      BY <1>2, <2>1
    <3> QED BY <1>6, <3>1 DEF Runs, NoRunUnread
  <2>3. Runs'
    BY <1>3, <1>4, <1>6, <2>2 DEF Runs, NoRunUnread
  <2> QED BY <1>5, <2>3 DEF BashInv, BashKnows
<1>7. CASE seen.raced = TRUE \/ bash.closed = TRUE
  BY <1>3, <1>5, <1>7 DEF BashInv, BashKnows
<1> QED BY <1>1, <1>6, <1>7 DEF BashInv, BashKnows, Typed, AtPrompt

\* The command ends: its prompt is the last.
LEMMA CommandEndsKeeps ==
  ASSUME BashInv, CommandEnds PROVE BashInv'
<1>1. /\ term \in [prompts : Seq(Nat), atEnd : BOOLEAN, unread : Seq(Keys), job : Nat]
      /\ term.job # 0 /\ term.prompts \in Seq(Nat) /\ term.job \in Nat
  BY DEF BashInv, BashTypeOK, CommandEnds
<1>2. PICK p \in Seq(Nat) : p = Append(term.prompts, term.job)
  BY <1>1, AppendProperties
<1>3. p # <<>> /\ Len(p) = Len(term.prompts) + 1 /\ p[Len(term.prompts) + 1] = term.job
  BY <1>1, <1>2, AppendProperties
<1>4. Last(p) = term.job
  BY <1>3 DEF Last
<1>5. term' = [term EXCEPT !.prompts = p, !.atEnd = TRUE, !.job = 0] /\ bash' = bash /\ seen' = seen
  BY <1>2 DEF CommandEnds
<1>6. /\ term'.job = 0 /\ term'.unread = term.unread /\ term'.atEnd = TRUE /\ term'.prompts = p
      /\ term' \in [prompts : Seq(Nat), atEnd : BOOLEAN, unread : Seq(Keys), job : Nat]
  BY <1>1, <1>5
<1>7. BashTypeOK' /\ AnswersOwnCommand'
  BY <1>5, <1>6 DEF BashInv, BashTypeOK, AnswersOwnCommand
<1>8. CASE Runs
  <2>1. AtPrompt'
    BY <1>3, <1>4, <1>5, <1>6, <1>8 DEF Runs, AtPrompt, NoRunUnread
  <2> QED BY <1>7, <2>1 DEF BashInv, BashKnows
<1>9. CASE seen.raced = TRUE \/ bash.closed = TRUE
  BY <1>5, <1>7, <1>9 DEF BashInv, BashKnows
<1> QED BY <1>1, <1>8, <1>9 DEF BashInv, BashKnows, Typed, AtPrompt

\* A prompt that scrolls away makes the capture shorter.
LEMMA OutputScrollsKeeps ==
  ASSUME BashInv, OutputScrolls PROVE BashInv'
<1>1. /\ term \in [prompts : Seq(Nat), atEnd : BOOLEAN, unread : Seq(Keys), job : Nat]
      /\ term.job # 0 /\ term.prompts \in Seq(Nat) /\ term.prompts # <<>>
  BY DEF BashInv, BashTypeOK, OutputScrolls
<1>2. PICK p \in Seq(Nat) : p = Tail(term.prompts) /\ Len(p) = Len(term.prompts) - 1
  BY <1>1, HeadTailProperties
<1>3. term' = [term EXCEPT !.prompts = p] /\ bash' = bash /\ seen' = seen
  BY <1>2 DEF OutputScrolls
<1>4. /\ term'.job = term.job /\ term'.unread = term.unread /\ term'.atEnd = term.atEnd
      /\ term'.prompts = p
      /\ term' \in [prompts : Seq(Nat), atEnd : BOOLEAN, unread : Seq(Keys), job : Nat]
  BY <1>1, <1>3
<1>5. BashTypeOK' /\ AnswersOwnCommand'
  BY <1>3, <1>4 DEF BashInv, BashTypeOK, AnswersOwnCommand
<1>6. CASE Runs
  <2>1. PICK l \in Nat, c \in Nat : l = Len(term.prompts) /\ c = bash.call.count
    BY <1>1, LenProperties DEF BashInv, BashTypeOK, BashCalls
  <2>2. l <= c => Len(p) <= c
    BY <1>2, <2>1
  <2>3. Runs'
    BY <1>3, <1>4, <1>6, <2>1, <2>2 DEF Runs, NoRunUnread
  <2> QED BY <1>5, <2>3 DEF BashInv, BashKnows
<1>7. CASE seen.raced = TRUE \/ bash.closed = TRUE
  BY <1>3, <1>5, <1>7 DEF BashInv, BashKnows
<1> QED BY <1>1, <1>6, <1>7 DEF BashInv, BashKnows, Typed, AtPrompt

\* A call that types nothing.
LEMMA BashRefusesKeeps ==
  ASSUME BashInv, BashRefuses PROVE BashInv'
<1>1. PICK m \in Nat : m = bash.calls + 1
  BY DEF BashInv, BashTypeOK
<1>2. bash' = [bash EXCEPT !.calls = m] /\ term' = term /\ seen' = seen
  BY <1>1 DEF BashRefuses
<1>3. bash \in [prev : {"none", "completed"} \cup TimedOut, closed : BOOLEAN, calls : Nat,
                awaits : Nat, call : BashCalls]
  BY DEF BashInv, BashTypeOK
<1>4. /\ bash'.prev = bash.prev /\ bash'.closed = bash.closed /\ bash'.awaits = bash.awaits
      /\ bash'.call = bash.call
      /\ bash' \in [prev : {"none", "completed"} \cup TimedOut, closed : BOOLEAN, calls : Nat,
                    awaits : Nat, call : BashCalls]
  BY <1>2, <1>3
<1>5. BashTypeOK' /\ AnswersOwnCommand'
  BY <1>2, <1>4 DEF BashInv, BashTypeOK, AnswersOwnCommand
<1>6. Typed => Typed'
  BY <1>2, <1>4 DEF Typed
<1>7. Runs => Runs'
  BY <1>2, <1>4 DEF Runs, NoRunUnread
<1>8. AtPrompt => AtPrompt'
  BY <1>2, <1>4 DEF AtPrompt, NoRunUnread
<1> QED BY <1>2, <1>4, <1>5, <1>6, <1>7, <1>8 DEF BashInv, BashKnows

\* After close no call is answered.
LEMMA BashClosesKeeps ==
  ASSUME BashInv, BashCloses PROVE BashInv'
<1>1. bash' = [bash EXCEPT !.closed = TRUE, !.call = NoCall] /\ term' = term /\ seen' = seen
  BY DEF BashCloses
<1>2. bash \in [prev : {"none", "completed"} \cup TimedOut, closed : BOOLEAN, calls : Nat,
                awaits : Nat, call : BashCalls]
  BY DEF BashInv, BashTypeOK
<1>3. NoCall \in BashCalls
  BY DEF NoCall, BashCalls
<1>4. /\ bash'.closed = TRUE /\ bash'.call = NoCall
      /\ bash' \in [prev : {"none", "completed"} \cup TimedOut, closed : BOOLEAN, calls : Nat,
                    awaits : Nat, call : BashCalls]
  BY <1>1, <1>2, <1>3
<1> QED BY <1>1, <1>4 DEF BashInv, BashTypeOK, AnswersOwnCommand, BashKnows

\* A poll times out while the command runs, never before or after.
LEMMA PollTimesOutKeeps ==
  ASSUME BashInv, NEW status \in TimedOut, PollTimesOut(status) PROVE BashInv'
<1>1. /\ bash' = [bash EXCEPT !.prev = status, !.call = NoCall] /\ term' = term /\ seen' = seen
      /\ term.atEnd # TRUE
  BY DEF PollTimesOut, ShowsCompletion
<1>2. /\ bash \in [prev : {"none", "completed"} \cup TimedOut, closed : BOOLEAN, calls : Nat,
                   awaits : Nat, call : BashCalls]
      /\ term.job # 0
  BY <1>1 DEF BashInv, BashTypeOK
<1>3. NoCall \in BashCalls
  BY DEF NoCall, BashCalls
<1>4. /\ bash'.prev = status /\ bash'.closed = bash.closed /\ bash'.awaits = bash.awaits
      /\ bash'.call = NoCall
      /\ bash' \in [prev : {"none", "completed"} \cup TimedOut, closed : BOOLEAN, calls : Nat,
                    awaits : Nat, call : BashCalls]
  BY <1>1, <1>2, <1>3
<1>5. BashTypeOK' /\ AnswersOwnCommand'
  BY <1>1, <1>4 DEF BashInv, BashTypeOK, AnswersOwnCommand
<1>6. Runs => Runs'
  BY <1>1, <1>4 DEF Runs, NoRunUnread
<1> QED BY <1>1, <1>2, <1>4, <1>5, <1>6 DEF BashInv, BashKnows, Typed, AtPrompt

\* The last prompt is the awaited command's, or the keys had not been read.
LEMMA CompletedKeeps ==
  ASSUME BashInv, Completed PROVE BashInv'
<1>1. /\ bash \in [prev : {"none", "completed"} \cup TimedOut, closed : BOOLEAN, calls : Nat,
                   awaits : Nat, call : BashCalls]
      /\ term \in [prompts : Seq(Nat), atEnd : BOOLEAN, unread : Seq(Keys), job : Nat]
      /\ seen \in [own : BOOLEAN, fed : BOOLEAN, raced : BOOLEAN]
      /\ bash.call # NoCall /\ ShowsCompletion /\ term.prompts # <<>> /\ term.prompts \in Seq(Nat)
  BY DEF BashInv, BashTypeOK, Completed
<1>2. NoCall \in BashCalls
  BY DEF NoCall, BashCalls
<1>3. bash' = [bash EXCEPT !.prev = "completed", !.call = NoCall]
  BY DEF Completed
<1>4. /\ bash'.prev = "completed" /\ bash'.closed = bash.closed /\ bash'.awaits = bash.awaits
      /\ bash'.call = NoCall
      /\ bash' \in [prev : {"none", "completed"} \cup TimedOut, closed : BOOLEAN, calls : Nat,
                    awaits : Nat, call : BashCalls]
  BY <1>1, <1>2, <1>3
<1>5. PICK z \in Nat : z = Last(term.prompts)
  <2>1. Len(term.prompts) \in 1..Len(term.prompts) /\ \A i \in 1..Len(term.prompts) : term.prompts[i] \in Nat
    BY <1>1, EmptySeq, LenProperties, ElementOfSeq
  <2> QED BY <2>1 DEF Last
<1>6. /\ term' \in [prompts : Seq(Nat), atEnd : BOOLEAN, unread : Seq(Keys), job : Nat]
      /\ term'.job = term.job /\ term'.atEnd = term.atEnd /\ term'.unread = term.unread
      /\ term'.prompts # <<>> /\ Last(term'.prompts) = z
  <2>1. <<z>> \in Seq(Nat) /\ <<z>> # <<>> /\ Len(<<z>>) = 1 /\ <<z>>[1] = z
    OBVIOUS
  <2>2. Last(<<z>>) = z
    BY <2>1 DEF Last
  <2>3. term' = [term EXCEPT !.prompts = <<z>>] \/ term' = term
    BY <1>5 DEF Completed, Cleared
  <2> QED BY <1>1, <1>5, <2>1, <2>2, <2>3
<1>7. PICK own \in BOOLEAN, raced \in BOOLEAN :
        /\ own = (bash.call.mode = "input" \/ Last(term.prompts) = bash.awaits)
        /\ raced = (seen.raced \/ Unread(bash.call.n))
  BY <1>1
<1>8. seen' = [seen EXCEPT !.own = own, !.raced = raced]
  BY <1>7 DEF Completed
<1>9. /\ seen' \in [own : BOOLEAN, fed : BOOLEAN, raced : BOOLEAN]
      /\ seen'.own = own /\ seen'.raced = raced /\ seen'.fed = seen.fed
  BY <1>1, <1>8
<1>10. BashTypeOK'
  BY <1>4, <1>6, <1>9 DEF BashInv, BashTypeOK
<1>11. CASE raced = TRUE
  BY <1>9, <1>10, <1>11 DEF BashInv, AnswersOwnCommand, BashKnows
<1>12. CASE raced # TRUE
  <2>1. seen.raced # TRUE /\ ~Unread(bash.call.n)
    BY <1>7, <1>12
  <2>2. seen.fed # TRUE
    BY <2>1 DEF BashInv, AnswersOwnCommand
  <2>3. bash.closed = TRUE \/ AtPrompt
    <3>1. ~Typed
      BY <2>1 DEF Typed, Unread
    <3>2. ASSUME Runs PROVE FALSE
      <4>1. term.atEnd # TRUE /\ Len(term.prompts) <= bash.call.count
        BY <1>1, <3>2 DEF Runs, BashInv, BashTypeOK
      <4>2. Len(term.prompts) > bash.call.count /\ Len(term.prompts) \in Nat /\ bash.call.count \in Nat
        BY <1>1, <4>1, LenProperties DEF ShowsCompletion, BashCalls
      <4> QED BY <4>1, <4>2
    <3> QED BY <2>1, <3>1, <3>2 DEF BashInv, BashKnows
  <2>4. CASE bash.closed = TRUE
    <3>1. FALSE
      BY <1>1, <2>4 DEF BashInv, BashTypeOK
    <3> QED BY <3>1
  <2>5. CASE AtPrompt
    <3>1. own = TRUE
      BY <1>7, <2>5 DEF AtPrompt
    <3>2. AtPrompt'
      BY <1>4, <1>5, <1>6, <2>5 DEF AtPrompt, NoRunUnread
    <3> QED BY <1>9, <1>10, <2>2, <3>1, <3>2 DEF BashInv, AnswersOwnCommand, BashKnows
  <2> QED BY <2>3, <2>4, <2>5
<1> QED BY <1>11, <1>12

\* A command is typed at an idle prompt; input and log requests leave what is known.
LEMMA ExecuteKeeps ==
  ASSUME BashInv, NEW mode \in Modes, NEW blocking \in BOOLEAN, NEW timeout \in BOOLEAN,
         Execute(mode, blocking, timeout)
  PROVE  BashInv'
<1>1. /\ bash \in [prev : {"none", "completed"} \cup TimedOut, closed : BOOLEAN, calls : Nat,
                   awaits : Nat, call : BashCalls]
      /\ term \in [prompts : Seq(Nat), atEnd : BOOLEAN, unread : Seq(Keys), job : Nat]
      /\ seen \in [own : BOOLEAN, fed : BOOLEAN, raced : BOOLEAN]
      /\ bash.call = NoCall /\ bash.closed # TRUE /\ term.unread \in Seq(Keys)
  BY DEF BashInv, BashTypeOK, Execute, Idle
<1>2. PICK n \in Nat \ {0} : n = bash.calls + 1
  BY <1>1
<1>3. PICK l \in Nat : l = Len(term.prompts)
  BY <1>1, LenProperties
<1>4. PICK c \in BashCalls : c = [n |-> n, mode |-> mode, blocking |-> blocking,
                                  timeout |-> timeout, count |-> l]
  BY DEF BashCalls
<1>5. PICK a \in Nat : a = IF mode = "run" THEN n ELSE bash.awaits
  BY <1>1
<1>6. bash' = [bash EXCEPT !.calls = n, !.awaits = a, !.call = c]
  BY <1>2, <1>3, <1>4, <1>5 DEF Execute
<1>7. /\ bash'.prev = bash.prev /\ bash'.closed = bash.closed /\ bash'.awaits = a /\ bash'.call = c
      /\ bash' \in [prev : {"none", "completed"} \cup TimedOut, closed : BOOLEAN, calls : Nat,
                    awaits : Nat, call : BashCalls]
  BY <1>1, <1>6
<1>8. PICK fed \in BOOLEAN : fed = (seen.fed \/ (mode = "run" /\ term.job # 0))
  BY <1>1
<1>9. seen' = [seen EXCEPT !.fed = fed]
  BY <1>8 DEF Execute
<1>10. /\ seen' \in [own : BOOLEAN, fed : BOOLEAN, raced : BOOLEAN]
       /\ seen'.own = seen.own /\ seen'.raced = seen.raced /\ seen'.fed = fed
  BY <1>1, <1>9
<1>11. c.n = n /\ c.count = l /\ c # NoCall
  BY <1>4 DEF NoCall
<1>12. PICK u \in Seq(Keys) :
         u = IF mode = "logs" THEN term.unread ELSE Append(term.unread, [n |-> n, mode |-> mode])
  <2>1. CASE mode = "logs"
    BY <1>1, <2>1
  <2>2. CASE mode # "logs"
    <3>1. [n |-> n, mode |-> mode] \in Keys
      BY <2>2 DEF Keys, Modes
    <3>2. Append(term.unread, [n |-> n, mode |-> mode]) \in Seq(Keys)
      BY <1>1, <3>1, AppendProperties
    <3> QED BY <2>2, <3>2
  <2> QED BY <2>1, <2>2
<1>13. term' = [term EXCEPT !.unread = u]
  <2>1. CASE mode = "logs"
    <3>1. term' = term /\ u = term.unread
      BY <1>12, <2>1 DEF Execute
    <3> QED BY <1>1, <3>1
  <2>2. CASE mode # "logs"
    BY <1>2, <1>12, <2>2 DEF Execute
  <2> QED BY <2>1, <2>2
<1>14. /\ term' \in [prompts : Seq(Nat), atEnd : BOOLEAN, unread : Seq(Keys), job : Nat]
       /\ term'.unread = u /\ term'.prompts = term.prompts /\ term'.job = term.job
       /\ term'.atEnd = term.atEnd
  BY <1>1, <1>13
<1>15. BashTypeOK'
  <2>1. bash'.closed # TRUE
    BY <1>1, <1>7
  <2>2. (term'.atEnd = TRUE) <=> (term'.job = 0)
    BY <1>14 DEF BashInv, BashTypeOK
  <2> QED BY <1>7, <1>10, <1>14, <2>1, <2>2 DEF BashTypeOK
<1>16. CASE seen.raced = TRUE
  BY <1>10, <1>15, <1>16 DEF BashInv, AnswersOwnCommand, BashKnows
<1>17. CASE seen.raced # TRUE
  <2>1. ~Typed
    BY <1>1 DEF Typed, NoCall
  <2>2. Runs \/ AtPrompt
    BY <1>1, <1>17, <2>1 DEF BashInv, BashKnows
  <2>3. seen.own = TRUE /\ seen.fed # TRUE
    BY <1>1, <1>17 DEF BashInv, AnswersOwnCommand
  <2>4. ASSUME mode = "run" PROVE term.job = 0
    <3>1. bash.prev \notin TimedOut \/ term.atEnd = TRUE
      BY <1>1, <2>4 DEF Execute, PreviousStillRunning
    <3>2. CASE Runs
      BY <1>1, <3>1, <3>2 DEF Runs, BashInv, BashTypeOK
    <3>3. CASE AtPrompt
      BY <3>3 DEF AtPrompt
    <3> QED BY <2>2, <3>2, <3>3
  <2>5. fed # TRUE
    BY <1>8, <2>3, <2>4
  <2>6. AnswersOwnCommand'
    BY <1>10, <2>3, <2>5 DEF AnswersOwnCommand
  <2>7. NoRunUnread
    BY <2>2 DEF Runs, AtPrompt
  <2>8. CASE mode = "run"
    <3>1. PICK k \in Keys : k = [n |-> n, mode |-> mode]
      BY <2>8 DEF Keys
    <3>2. u = Append(term.unread, k) /\ k.n = n
      BY <1>12, <2>8, <3>1
    <3>3. /\ Len(u) = Len(term.unread) + 1 /\ Len(term.unread) \in Nat
          /\ \A i \in 1..Len(term.unread) : u[i] = term.unread[i]
          /\ u[Len(term.unread) + 1] = k /\ DOMAIN u = 1..Len(u)
          /\ DOMAIN term.unread = 1..Len(term.unread)
      BY <1>1, <3>2, AppendProperties, LenProperties
    <3>4. Len(u) \in DOMAIN u /\ u[Len(u)].n = n
      BY <3>2, <3>3
    <3>5. \A i \in DOMAIN u : i = Len(u) \/ u[i].mode # "run"
      BY <2>7, <3>3 DEF NoRunUnread
    <3>6. a = n
      BY <1>5, <2>8
    <3>7. Typed'
      BY <1>2, <1>3, <1>7, <1>11, <1>14, <2>4, <2>8, <3>4, <3>5, <3>6 DEF Typed
    <3> QED BY <1>15, <2>6, <3>7 DEF BashInv, BashKnows
  <2>9. CASE mode # "run"
    <3>1. a = bash.awaits
      BY <1>5, <2>9
    <3>2. \A i \in DOMAIN u : u[i].mode # "run"
      <4>1. CASE mode = "logs"
        BY <1>12, <2>7, <4>1 DEF NoRunUnread
      <4>2. CASE mode # "logs"
        <5>1. PICK k \in Keys : k = [n |-> n, mode |-> mode]
          BY <2>9, <4>2 DEF Keys, Modes
        <5>2. u = Append(term.unread, k) /\ k.mode # "run"
          BY <1>12, <2>9, <4>2, <5>1
        <5>3. /\ Len(u) = Len(term.unread) + 1 /\ Len(term.unread) \in Nat
              /\ \A i \in 1..Len(term.unread) : u[i] = term.unread[i]
              /\ u[Len(term.unread) + 1] = k /\ DOMAIN u = 1..Len(u)
              /\ DOMAIN term.unread = 1..Len(term.unread)
          BY <1>1, <5>2, AppendProperties, LenProperties
        <5> QED BY <2>7, <5>2, <5>3 DEF NoRunUnread
      <4> QED BY <4>1, <4>2
    <3>3. Runs => Runs'
      BY <1>3, <1>7, <1>11, <1>14, <3>1, <3>2 DEF Runs, NoRunUnread
    <3>4. AtPrompt => AtPrompt'
      BY <1>7, <1>14, <3>1, <3>2 DEF AtPrompt, NoRunUnread
    <3> QED BY <1>15, <2>2, <2>6, <3>3, <3>4 DEF BashInv, BashKnows
  <2> QED BY <2>8, <2>9
<1> QED BY <1>16, <1>17

\* Every step of the agent's shell keeps its invariant, and nothing else touches it.
LEMMA BashSteps == BashInv /\ BashNext => BashInv'
  BY ShellReadsKeeps, ProcessReadsKeeps, CommandEndsKeeps, OutputScrollsKeeps, BashRefusesKeeps,
     BashClosesKeeps, PollTimesOutKeeps, CompletedKeeps, ExecuteKeeps DEF BashNext

\* A step of another part keeps the invariant.
LEMMA BashFrame == BashInv /\ UNCHANGED bashVars => BashInv'
  BY DEF BashInv, BashTypeOK, AnswersOwnCommand, BashKnows, Typed, Runs, AtPrompt, NoRunUnread, bashVars

-----------------------------------------------------------------------------
(* PowershellSession: what was shown of a job, and what is yet to be shown.  *)

\* The calls, the jobs and how a job ended for the agent.
PsCallKind == {"none", "monitor", "check"}
JobKinds == {"absent", "running"} \cup Ended
PsRecords == [active : Nat, last : Nat, closed : BOOLEAN, calls : Nat,
              call : [on : Nat, kind : PsCallKind, from : Nat, latest : Nat]]
JobRecords == [state : JobKinds, lines : Nat]
Ways == {"open", "reaped", "stopped", "background", "ended", "lost"}
ShownRecords == [lines : Nat, how : Ways]

\* The kinds of values of the PowerShell part.
PsTypeOK ==
  /\ ps \in PsRecords
  /\ jobs \in [JobIds -> JobRecords]
  /\ shown \in [JobIds -> ShownRecords]

\* A job that is not started has nothing to show; what an end was told by is over.
JobsTold ==
  \A j \in JobIds :
    /\ (j > ps.calls => (/\ shown[j].how = "open" /\ shown[j].lines = 0
                       /\ jobs[j].lines = 0 /\ jobs[j].state = "absent"))
    /\ (shown[j].how \in {"open", "lost", "ended"} => shown[j].lines <= jobs[j].lines)
    /\ (shown[j].how = "ended" => (shown[j].lines = jobs[j].lines /\ jobs[j].state = "absent"))

\* The active job, and what was shown of it.
ActiveTold ==
  /\ (ps.closed = TRUE => ps.active = 0)
  /\ (ps.active # 0 => (/\ ps.active \in JobIds /\ ps.active <= ps.calls
                        /\ shown[ps.active].how = "open"
                        /\ (ps.call.on = 0 => ps.last = shown[ps.active].lines)))

\* The job that is waited for, shown up to where the wait began.
WaitTold ==
  /\ (ps.call.on = 0 => ps.call = NoWait)
  /\ (ps.call.on # 0 => (/\ ps.call.on \in JobIds /\ ps.call.on <= ps.calls
                         /\ shown[ps.call.on].how = "open"
                         /\ ps.call.from = shown[ps.call.on].lines
                         /\ ps.call.from <= ps.call.latest
                         /\ ps.call.latest <= jobs[ps.call.on].lines
                         /\ (ps.active = ps.call.on \/ ps.closed = TRUE)))

\* The inductive invariant of the PowerShell part.
PsInv == PsTypeOK /\ JobsTold /\ ActiveTold /\ WaitTold

\* At first there is no job.
LEMMA PsStarts == PsInit => PsInv
<1> SUFFICES ASSUME PsInit PROVE PsInv
  OBVIOUS
<1>1. PsTypeOK
  <2>1. NoWait \in [on : Nat, kind : PsCallKind, from : Nat, latest : Nat]
    BY DEF NoWait, PsCallKind
  <2>2. ps \in [active : Nat, last : Nat, closed : BOOLEAN, calls : Nat,
                call : [on : Nat, kind : PsCallKind, from : Nat, latest : Nat]]
    BY <2>1 DEF PsInit
  <2>3. jobs \in [JobIds -> [state : JobKinds, lines : Nat]]
    BY DEF PsInit, JobKinds
  <2>4. shown \in [JobIds -> [lines : Nat, how : Ways]]
    BY DEF PsInit, Ways
  <2> QED BY <2>2, <2>3, <2>4 DEF PsTypeOK, PsRecords, JobRecords, ShownRecords
<1>2. JobsTold
  <2> SUFFICES ASSUME NEW j \in JobIds
               PROVE  /\ shown[j].how = "open" /\ shown[j].lines = 0 /\ jobs[j].lines = 0
                      /\ jobs[j].state = "absent"
    BY DEF JobsTold
  <2> QED BY DEF PsInit
<1>3. ActiveTold /\ WaitTold
  BY DEF PsInit, ActiveTold, WaitTold, NoWait
<1> QED BY <1>1, <1>2, <1>3 DEF PsInv

\* A job prints, ends or is lost: nothing that was shown changes.
LEMMA JobsMove ==
  ASSUME PsInv, NEW j \in JobIds, JobPrints(j) \/ JobEnds(j) \/ JobLost(j)
  PROVE  PsInv'
<1>1. PICK e \in JobRecords :
        /\ jobs' = [jobs EXCEPT ![j] = e] /\ ps' = ps /\ shown' = shown
        /\ jobs[j].lines <= e.lines /\ jobs[j].state = "running"
  <2>1. jobs[j] \in JobRecords /\ jobs \in [JobIds -> JobRecords]
    BY DEF PsInv, PsTypeOK
  <2>2. CASE JobPrints(j)
    <3>1. PICK e : e = [jobs[j] EXCEPT !.lines = jobs[j].lines + 1]
      OBVIOUS
    <3>2. e \in JobRecords /\ e.lines = jobs[j].lines + 1
      BY <2>1, <3>1 DEF JobRecords
    <3>3. jobs' = [jobs EXCEPT ![j] = e]
      BY <2>1, <2>2, <3>1 DEF JobPrints
    <3>4. jobs[j].lines <= e.lines
      BY <2>1, <3>2 DEF JobRecords
    <3> QED BY <2>2, <3>2, <3>3, <3>4 DEF JobPrints
  <2>3. CASE JobEnds(j)
    <3>1. PICK s \in {"completed", "failed"} : jobs' = [jobs EXCEPT ![j].state = s]
      BY <2>3 DEF JobEnds
    <3>2. PICK e : e = [jobs[j] EXCEPT !.state = s]
      OBVIOUS
    <3>3. e \in JobRecords /\ e.lines = jobs[j].lines
      BY <2>1, <3>1, <3>2 DEF JobRecords, JobKinds, Ended
    <3>4. jobs' = [jobs EXCEPT ![j] = e]
      BY <2>1, <3>1, <3>2
    <3>5. jobs[j].lines <= e.lines
      BY <2>1, <3>3 DEF JobRecords
    <3> QED BY <2>3, <3>3, <3>4, <3>5 DEF JobEnds
  <2>4. CASE JobLost(j)
    <3>1. PICK e : e = [jobs[j] EXCEPT !.state = "absent"]
      OBVIOUS
    <3>2. e \in JobRecords /\ e.lines = jobs[j].lines
      BY <2>1, <3>1 DEF JobRecords, JobKinds
    <3>3. jobs' = [jobs EXCEPT ![j] = e]
      BY <2>1, <2>4, <3>1 DEF JobLost, RemoveJob
    <3>4. jobs[j].lines <= e.lines
      BY <2>1, <3>2 DEF JobRecords
    <3> QED BY <2>4, <3>2, <3>3, <3>4 DEF JobLost
  <2> QED BY <2>2, <2>3, <2>4
<1>2. jobs \in [JobIds -> JobRecords] /\ shown \in [JobIds -> ShownRecords]
  BY DEF PsInv, PsTypeOK
<1>3. \A i \in JobIds : /\ jobs'[i] = (IF i = j THEN e ELSE jobs[i])
                        /\ jobs[i].lines \in Nat /\ jobs'[i].lines \in Nat /\ shown[i].lines \in Nat
                        /\ jobs[i].lines <= jobs'[i].lines
  BY <1>1, <1>2 DEF JobRecords, ShownRecords
<1>4. PsTypeOK'
  BY <1>1, <1>2 DEF PsInv, PsTypeOK
<1>5. JobsTold'
  <2> SUFFICES ASSUME NEW i \in JobIds
               PROVE  /\ (i > ps'.calls => (/\ shown'[i].how = "open" /\ shown'[i].lines = 0
                                            /\ jobs'[i].lines = 0 /\ jobs'[i].state = "absent"))
                      /\ (shown'[i].how \in {"open", "lost", "ended"} =>
                            shown'[i].lines <= jobs'[i].lines)
                      /\ (shown'[i].how = "ended" =>
                            (shown'[i].lines = jobs'[i].lines /\ jobs'[i].state = "absent"))
    BY DEF JobsTold
  <2>1. /\ (i > ps.calls => (/\ shown[i].how = "open" /\ shown[i].lines = 0
                             /\ jobs[i].lines = 0 /\ jobs[i].state = "absent"))
        /\ (shown[i].how \in {"open", "lost", "ended"} => shown[i].lines <= jobs[i].lines)
        /\ (shown[i].how = "ended" => (shown[i].lines = jobs[i].lines /\ jobs[i].state = "absent"))
    BY DEF PsInv, JobsTold
  <2>2. CASE i = j
    <3>1. ~(i > ps.calls) /\ shown[i].how # "ended"
      BY <1>1, <2>1, <2>2
    <3>2. PICK a \in Nat, b \in Nat, c \in Nat :
            a = shown[i].lines /\ b = jobs[i].lines /\ c = jobs'[i].lines /\ b <= c
      BY <1>3
    <3> QED BY <1>1, <2>1, <3>1, <3>2
  <2>3. CASE i # j
    BY <1>1, <1>3, <2>1, <2>3
  <2> QED BY <2>2, <2>3
<1>6. ActiveTold'
  BY <1>1 DEF PsInv, ActiveTold
<1>7. WaitTold'
  <2>1. CASE ps.call.on = 0
    BY <1>1, <2>1 DEF PsInv, WaitTold
  <2>2. CASE ps.call.on # 0
    <3>1. PICK o \in JobIds : o = ps.call.on
      BY <2>2 DEF PsInv, WaitTold
    <3>2. PICK a \in Nat, b \in Nat, c \in Nat :
            a = ps.call.latest /\ b = jobs[o].lines /\ c = jobs'[o].lines /\ b <= c
      BY <1>3 DEF PsInv, PsTypeOK, PsRecords
    <3>3. a <= b
      BY <2>2, <3>1, <3>2 DEF PsInv, WaitTold
    <3>4. a <= c
      BY <3>2, <3>3
    <3> QED BY <1>1, <2>2, <3>1, <3>2, <3>4 DEF PsInv, WaitTold
  <2> QED BY <2>1, <2>2
<1> QED BY <1>4, <1>5, <1>6, <1>7 DEF PsInv

\* An answer about a job that was open: what it leaves of the history.
LEMMA AnswerTold ==
  ASSUME PsInv, NEW k \in JobIds, NEW n \in Nat, NEW how \in Ways,
         k <= ps.calls, shown[k].how = "open", Shows(k, n, how),
         ps' \in PsRecords, ps.calls <= ps'.calls,
         jobs' = jobs \/ jobs' = [jobs EXCEPT ![k].state = "absent"],
         how \in {"open", "lost", "ended"} => shown[k].lines + n <= jobs[k].lines,
         how = "ended" => (shown[k].lines + n = jobs[k].lines /\ jobs' = [jobs EXCEPT ![k].state = "absent"])
  PROVE  /\ PsTypeOK' /\ JobsTold'
         /\ shown'[k].lines = shown[k].lines + n /\ shown'[k].how = how
         /\ \A i \in JobIds : /\ jobs'[i].lines = jobs[i].lines /\ shown[i].lines \in Nat
                              /\ jobs[i].lines \in Nat /\ (i # k => shown'[i] = shown[i])
<1>1. jobs \in [JobIds -> JobRecords] /\ shown \in [JobIds -> ShownRecords]
  BY DEF PsInv, PsTypeOK
<1>2. PICK m \in Nat : m = shown[k].lines + n
  BY <1>1 DEF ShownRecords
<1>3. PICK d \in ShownRecords : d = [lines |-> m, how |-> how]
  BY DEF ShownRecords
<1>4. shown' = [shown EXCEPT ![k] = d]
  BY <1>2, <1>3 DEF Shows
<1>5. PICK e \in JobRecords : jobs' = [jobs EXCEPT ![k] = e] /\ e.lines = jobs[k].lines
                              /\ (e = jobs[k] \/ e.state = "absent")
                              /\ (how = "ended" => e.state = "absent")
  <2>1. CASE jobs' = [jobs EXCEPT ![k].state = "absent"]
    <3>1. PICK e : e = [jobs[k] EXCEPT !.state = "absent"]
      OBVIOUS
    <3>2. e \in JobRecords /\ e.lines = jobs[k].lines /\ e.state = "absent"
      BY <1>1, <3>1 DEF JobRecords, JobKinds
    <3>3. jobs' = [jobs EXCEPT ![k] = e]
      BY <1>1, <2>1, <3>1
    <3> QED BY <3>2, <3>3
  <2>2. CASE jobs' = jobs /\ how # "ended"
    <3>1. jobs[k] \in JobRecords /\ jobs' = [jobs EXCEPT ![k] = jobs[k]]
      BY <1>1, <2>2
    <3> QED BY <2>2, <3>1
  <2> QED BY <2>1, <2>2
<1>6. \A i \in JobIds : /\ jobs'[i] = (IF i = k THEN e ELSE jobs[i])
                        /\ shown'[i] = (IF i = k THEN d ELSE shown[i])
  BY <1>1, <1>4, <1>5
<1>7. \A i \in JobIds : /\ jobs'[i].lines = jobs[i].lines /\ shown[i].lines \in Nat
                        /\ jobs[i].lines \in Nat /\ (i # k => shown'[i] = shown[i])
  BY <1>1, <1>5, <1>6 DEF JobRecords, ShownRecords
<1>8. PsTypeOK'
  BY <1>1, <1>3, <1>4, <1>5 DEF PsTypeOK
<1>9. d.lines = m /\ d.how = how
  BY <1>3
<1>10. JobsTold'
  <2> SUFFICES ASSUME NEW i \in JobIds
               PROVE  /\ (i > ps'.calls => (/\ shown'[i].how = "open" /\ shown'[i].lines = 0
                                            /\ jobs'[i].lines = 0 /\ jobs'[i].state = "absent"))
                      /\ (shown'[i].how \in {"open", "lost", "ended"} =>
                            shown'[i].lines <= jobs'[i].lines)
                      /\ (shown'[i].how = "ended" =>
                            (shown'[i].lines = jobs'[i].lines /\ jobs'[i].state = "absent"))
    BY DEF JobsTold
  <2>1. PICK c \in Nat, f \in Nat : c = ps.calls /\ f = ps'.calls /\ c <= f
    BY DEF PsInv, PsTypeOK, PsRecords
  <2>2. i \in Nat /\ (i > f => i > c)
    BY <2>1, PowershellAssumption DEF JobIds
  <2>3. /\ (i > c => (/\ shown[i].how = "open" /\ shown[i].lines = 0
                      /\ jobs[i].lines = 0 /\ jobs[i].state = "absent"))
        /\ (shown[i].how \in {"open", "lost", "ended"} => shown[i].lines <= jobs[i].lines)
        /\ (shown[i].how = "ended" => (shown[i].lines = jobs[i].lines /\ jobs[i].state = "absent"))
    BY <2>1 DEF PsInv, JobsTold
  <2>4. CASE i = k
    <3>1. ~(i > f)
      BY <2>1, <2>2, <2>4
    <3>2. shown'[i] = d /\ jobs'[i] = e
      BY <1>6, <2>4
    <3> QED BY <1>2, <1>5, <1>9, <2>1, <2>4, <3>1, <3>2
  <2>5. CASE i # k
    <3>1. shown'[i] = shown[i] /\ jobs'[i] = jobs[i]
      BY <1>6, <2>5
    <3> QED BY <2>1, <2>2, <2>3, <3>1
  <2> QED BY <2>4, <2>5
<1> QED BY <1>2, <1>6, <1>7, <1>8, <1>9, <1>10

\* A step that tells nothing, and at most removes a job.
LEMMA NothingTold ==
  ASSUME PsInv, shown' = shown, ps' \in PsRecords, ps.calls <= ps'.calls,
         jobs' = jobs \/ (\E k \in JobIds : jobs' = [jobs EXCEPT ![k].state = "absent"])
  PROVE  /\ PsTypeOK' /\ JobsTold'
         /\ \A i \in JobIds : /\ jobs'[i].lines = jobs[i].lines /\ shown[i].lines \in Nat
                              /\ jobs[i].lines \in Nat
<1>1. jobs \in [JobIds -> JobRecords] /\ shown \in [JobIds -> ShownRecords]
  BY DEF PsInv, PsTypeOK
<1>2. /\ jobs' \in [JobIds -> JobRecords]
      /\ \A i \in JobIds : /\ jobs'[i].lines = jobs[i].lines
                           /\ (jobs[i].state = "absent" => jobs'[i].state = "absent")
  <2>1. CASE jobs' = jobs
    BY <1>1, <2>1
  <2>2. CASE \E k \in JobIds : jobs' = [jobs EXCEPT ![k].state = "absent"]
    <3>1. PICK k \in JobIds : jobs' = [jobs EXCEPT ![k].state = "absent"]
      BY <2>2
    <3>2. PICK e : e = [jobs[k] EXCEPT !.state = "absent"]
      OBVIOUS
    <3>3. e \in JobRecords /\ e.lines = jobs[k].lines /\ e.state = "absent"
      BY <1>1, <3>2 DEF JobRecords, JobKinds
    <3>4. jobs' = [jobs EXCEPT ![k] = e]
      BY <1>1, <3>1, <3>2
    <3> QED BY <1>1, <3>3, <3>4
  <2> QED BY <2>1, <2>2
<1>3. \A i \in JobIds : shown[i].lines \in Nat /\ jobs[i].lines \in Nat
  BY <1>1 DEF JobRecords, ShownRecords
<1>4. PsTypeOK'
  BY <1>1, <1>2 DEF PsTypeOK
<1>5. JobsTold'
  <2> SUFFICES ASSUME NEW i \in JobIds
               PROVE  /\ (i > ps'.calls => (/\ shown'[i].how = "open" /\ shown'[i].lines = 0
                                            /\ jobs'[i].lines = 0 /\ jobs'[i].state = "absent"))
                      /\ (shown'[i].how \in {"open", "lost", "ended"} =>
                            shown'[i].lines <= jobs'[i].lines)
                      /\ (shown'[i].how = "ended" =>
                            (shown'[i].lines = jobs'[i].lines /\ jobs'[i].state = "absent"))
    BY DEF JobsTold
  <2>1. PICK c \in Nat, f \in Nat : c = ps.calls /\ f = ps'.calls /\ c <= f
    BY DEF PsInv, PsTypeOK, PsRecords
  <2>2. i \in Nat /\ (i > f => i > c)
    BY <2>1, PowershellAssumption DEF JobIds
  <2>3. /\ (i > c => (/\ shown[i].how = "open" /\ shown[i].lines = 0
                      /\ jobs[i].lines = 0 /\ jobs[i].state = "absent"))
        /\ (shown[i].how \in {"open", "lost", "ended"} => shown[i].lines <= jobs[i].lines)
        /\ (shown[i].how = "ended" => (shown[i].lines = jobs[i].lines /\ jobs[i].state = "absent"))
    BY <2>1 DEF PsInv, JobsTold
  <2> QED BY <1>2, <2>1, <2>2, <2>3
<1> QED BY <1>2, <1>3, <1>4, <1>5

\* What the wait and the active job say, in the numbers of a state.
LEMMA PsFacts ==
  ASSUME PsInv
  PROVE  /\ ps \in PsRecords /\ ps.calls \in Nat /\ ps.last \in Nat
         /\ ps.call.from \in Nat /\ ps.call.latest \in Nat /\ ps.call.on \in Nat
         /\ (ps.call = NoWait => ps.call.on = 0)
         /\ NoWait \in [on : Nat, kind : PsCallKind, from : Nat, latest : Nat]
         /\ \A i \in JobIds : shown[i].lines \in Nat /\ jobs[i].lines \in Nat /\ i \in Nat
  BY PowershellAssumption DEF PsInv, PsTypeOK, PsRecords, JobRecords, ShownRecords, NoWait, PsCallKind, JobIds

\* The calls that end the following of the active job between two waits.
LEMMA ReapsKeep ==
  ASSUME PsInv, ReapsEnded \/ ReapsLost \/ StopsActive
  PROVE  PsInv'
<1>1. PsReady /\ ps.active # 0 /\ ps.call = NoWait /\ ps.call.on = 0
  BY PsFacts DEF ReapsEnded, ReapsLost, StopsActive, PsReady
<1>2. PICK k \in JobIds : k = ps.active
  BY <1>1 DEF PsInv, ActiveTold
<1>3. k <= ps.calls /\ shown[k].how = "open" /\ shown[k].lines <= jobs[k].lines
  BY <1>1, <1>2 DEF PsInv, ActiveTold, JobsTold
<1>4. PICK m \in Nat, l \in Nat : m = ps.calls + 1 /\ l \in {0, ps.last}
                                  /\ ps' = [ps EXCEPT !.calls = m, !.active = 0, !.last = l]
  <2>1. ps.calls \in Nat /\ ps.last \in Nat /\ ps \in PsRecords
    BY PsFacts
  <2> DEFINE m0 == ps.calls + 1
  <2>4. m0 \in Nat /\ 0 \in Nat /\ m0 = ps.calls + 1
    BY <2>1
  <2> HIDE DEF m0
  <2>2. CASE ReapsEnded \/ ReapsLost
    <3>1. ps' = [ps EXCEPT !.calls = m0, !.active = 0, !.last = 0]
      BY <2>2, <2>4 DEF ReapsEnded, ReapsLost
    <3> QED BY <2>4, <3>1
  <2>3. CASE StopsActive
    <3>1. ps' = [ps EXCEPT !.calls = m0, !.active = 0]
      BY <2>3, <2>4 DEF StopsActive
    <3>2. ps' = [ps EXCEPT !.calls = m0, !.active = 0, !.last = ps.last]
      BY <2>1, <3>1 DEF PsRecords
    <3> QED BY <2>1, <2>4, <3>2
  <2> QED BY <2>2, <2>3
<1>5. /\ ps' \in PsRecords /\ ps'.active = 0 /\ ps'.call = ps.call /\ ps'.closed = ps.closed
      /\ ps'.calls = m /\ ps.calls <= m
  <2>1. ps.calls \in Nat /\ ps \in PsRecords
    BY PsFacts
  <2>2. ps.calls <= m
    BY <1>4, <2>1
  <2> QED BY <1>4, <2>1, <2>2 DEF PsRecords
<1>6. PICK n \in Nat, how \in {"reaped", "stopped", "lost"} :
        /\ Shows(k, n, how) /\ (how = "lost" => n = 0)
        /\ (jobs' = jobs \/ jobs' = [jobs EXCEPT ![k].state = "absent"])
  <2>1. jobs[k].lines \in Nat /\ jobs[k].lines - 0 = jobs[k].lines
    BY PsFacts
  <2> QED BY <1>2, <2>1 DEF ReapsEnded, ReapsLost, StopsActive, Fresh, RemoveJob
<1>7. /\ how \in Ways /\ how # "ended"
      /\ (how \in {"open", "lost", "ended"} => shown[k].lines + n <= jobs[k].lines)
  <2>1. shown[k].lines \in Nat
    BY PsFacts
  <2> QED BY <1>3, <1>6, <2>1 DEF Ways
<1>8. PsTypeOK' /\ JobsTold'
  BY <1>3, <1>5, <1>6, <1>7, AnswerTold
<1>9. ActiveTold' /\ WaitTold'
  BY <1>1, <1>5 DEF PsInv, ActiveTold, WaitTold
<1> QED BY <1>8, <1>9 DEF PsInv

\* A call that is turned away shows what is new.
LEMMA TurnedAwayKeeps ==
  ASSUME PsInv, TurnedAway
  PROVE  PsInv'
<1>1. PsReady /\ ps.active # 0 /\ ps.call = NoWait /\ ps.call.on = 0
  BY PsFacts DEF TurnedAway, PsReady
<1>2. PICK k \in JobIds : k = ps.active
  BY <1>1 DEF PsInv, ActiveTold
<1>3. PICK b \in Nat, l \in Nat : /\ b = jobs[k].lines /\ l = ps.last /\ l = shown[k].lines
                                  /\ l <= b /\ k <= ps.calls /\ shown[k].how = "open"
  <2>1. jobs[k].lines \in Nat /\ ps.last \in Nat
    BY PsFacts
  <2> QED BY <1>1, <1>2, <2>1 DEF PsInv, ActiveTold, JobsTold
<1>4. PICK m \in Nat, n \in Nat : m = ps.calls + 1 /\ n = b - l /\ l + n = b
  <2>1. ps.calls \in Nat /\ b - l \in Nat
    BY <1>3, PsFacts
  <2> QED BY <1>3, <2>1
<1>5. /\ Shows(k, n, "open") /\ jobs' = jobs
      /\ ps' = [ps EXCEPT !.calls = m, !.last = b]
  BY <1>2, <1>3, <1>4 DEF TurnedAway, Fresh
<1>6. /\ ps' \in PsRecords /\ ps'.active = ps.active /\ ps'.call = ps.call /\ ps'.closed = ps.closed
      /\ ps'.calls = m /\ ps.calls <= m /\ ps'.last = b
  <2>1. ps.calls \in Nat /\ ps \in PsRecords
    BY PsFacts
  <2>2. ps.calls <= m
    BY <1>4, <2>1
  <2> QED BY <1>5, <2>1, <2>2 DEF PsRecords
<1>7. "open" \in Ways /\ shown[k].lines + n <= jobs[k].lines
  BY <1>3, <1>4 DEF Ways
<1>8. PsTypeOK' /\ JobsTold' /\ shown'[k].lines = b /\ shown'[k].how = "open"
  <2>1. PsTypeOK' /\ JobsTold' /\ shown'[k].lines = shown[k].lines + n /\ shown'[k].how = "open"
    BY <1>3, <1>5, <1>6, <1>7, AnswerTold
  <2> QED BY <1>3, <1>4, <2>1
<1>9. k <= ps'.calls
  <2>1. k \in Nat /\ ps.calls \in Nat
    BY PsFacts
  <2> QED BY <1>3, <1>6, <2>1
<1>10. ActiveTold' /\ WaitTold'
  BY <1>1, <1>2, <1>6, <1>8, <1>9 DEF PsInv, ActiveTold, WaitTold
<1> QED BY <1>8, <1>10 DEF PsInv

\* The waits that end: with the job, with its loss, or at the timeout.
LEMMA WaitsKeep ==
  ASSUME PsInv, WaitSeesEnd \/ WaitSeesLost \/ WaitTimesOut
  PROVE  PsInv'
<1>1. ps.call.on # 0
  BY DEF WaitSeesEnd, WaitSeesLost, WaitTimesOut
<1>2. PICK k \in JobIds : k = ps.call.on
  BY <1>1 DEF PsInv, WaitTold
<1>3. PICK b \in Nat, f \in Nat, t \in Nat :
        /\ b = jobs[k].lines /\ f = ps.call.from /\ t = ps.call.latest /\ f = shown[k].lines
        /\ f <= t /\ t <= b /\ k <= ps.calls /\ shown[k].how = "open"
        /\ (ps.active = k \/ ps.closed = TRUE)
  <2>1. jobs[k].lines \in Nat /\ ps.call.from \in Nat /\ ps.call.latest \in Nat
    BY PsFacts
  <2> QED BY <1>1, <1>2, <2>1 DEF PsInv, WaitTold
<1>4. ps \in PsRecords /\ NoWait \in [on : Nat, kind : PsCallKind, from : Nat, latest : Nat] /\ ps.calls \in Nat
  BY PsFacts
<1>5. NoWait.on = 0
  BY DEF NoWait
<1>6. CASE WaitTimesOut
  <2>1. PICK n \in Nat : n = t - f /\ f + n = t
    <3>1. t - f \in Nat /\ f + (t - f) = t
      BY <1>3
    <3> QED BY <3>1
  <2>2. Shows(k, n, "open") /\ jobs' = jobs /\ ps' = [ps EXCEPT !.last = t, !.call = NoWait]
    BY <1>2, <1>3, <1>6, <2>1 DEF WaitTimesOut
  <2>3. /\ ps' \in PsRecords /\ ps'.active = ps.active /\ ps'.call = NoWait /\ ps'.closed = ps.closed
        /\ ps'.calls = ps.calls /\ ps'.last = t
    BY <1>4, <2>2 DEF PsRecords
  <2>4. "open" \in Ways /\ shown[k].lines + n <= jobs[k].lines /\ ps.calls <= ps'.calls
    BY <1>3, <1>4, <2>1, <2>3 DEF Ways
  <2>5. PsTypeOK' /\ JobsTold' /\ shown'[k].lines = t /\ shown'[k].how = "open"
    <3>1. PsTypeOK' /\ JobsTold' /\ shown'[k].lines = shown[k].lines + n /\ shown'[k].how = "open"
      BY <1>3, <2>2, <2>3, <2>4, AnswerTold
    <3> QED BY <1>3, <2>1, <3>1
  <2>6. ActiveTold'
    <3>1. CASE ps.closed = TRUE
      BY <2>3, <3>1 DEF PsInv, ActiveTold
    <3>2. CASE ps.closed # TRUE
      BY <1>3, <2>3, <2>5, <3>2 DEF ActiveTold
    <3> QED BY <3>1, <3>2
  <2>7. WaitTold'
    BY <1>5, <2>3 DEF WaitTold
  <2> QED BY <2>5, <2>6, <2>7 DEF PsInv
<1>7. CASE WaitSeesEnd \/ WaitSeesLost
  <2>1. ps' = [ps EXCEPT !.active = 0, !.last = 0, !.call = NoWait]
    BY <1>7 DEF WaitSeesEnd, WaitSeesLost
  <2>2. ps' \in PsRecords /\ ps'.active = 0 /\ ps'.call = NoWait /\ ps'.calls = ps.calls
    BY <1>4, <2>1 DEF PsRecords
  <2>3. PICK n \in Nat, how \in {"ended", "lost"} :
          /\ Shows(k, n, how) /\ f + n <= b /\ (how = "ended" => f + n = b)
          /\ (jobs' = jobs \/ jobs' = [jobs EXCEPT ![k].state = "absent"])
          /\ (how = "ended" => jobs' = [jobs EXCEPT ![k].state = "absent"])
    <3>1. t - f \in Nat /\ b - f \in Nat /\ f + (b - f) = b /\ f + (t - f) <= b
      BY <1>3
    <3>2. CASE WaitSeesEnd
      <4>1. Shows(k, b - f, "ended") /\ jobs' = [jobs EXCEPT ![k].state = "absent"]
        BY <1>2, <1>3, <3>2 DEF WaitSeesEnd, Fresh, RemoveJob
      <4> QED BY <1>3, <3>1, <4>1
    <3>3. CASE WaitSeesLost
      <4>1. Shows(k, t - f, "lost") /\ jobs' = jobs
        BY <1>2, <1>3, <3>3 DEF WaitSeesLost
      <4> QED BY <3>1, <4>1
    <3> QED BY <1>7, <3>2, <3>3
  <2>4. /\ how \in Ways /\ ps.calls <= ps'.calls
        /\ (how \in {"open", "lost", "ended"} => shown[k].lines + n <= jobs[k].lines)
        /\ (how = "ended" => (shown[k].lines + n = jobs[k].lines
                              /\ jobs' = [jobs EXCEPT ![k].state = "absent"]))
    BY <1>3, <1>4, <2>2, <2>3 DEF Ways
  <2>5. PsTypeOK' /\ JobsTold'
    BY <1>3, <2>2, <2>3, <2>4, AnswerTold
  <2>6. ActiveTold' /\ WaitTold'
    BY <1>5, <2>2 DEF ActiveTold, WaitTold
  <2> QED BY <2>5, <2>6 DEF PsInv
<1> QED BY <1>6, <1>7

\* The steps after which nothing more was shown.
LEMMA QuietCallsKeep ==
  ASSUME PsInv, ChecksActive \/ NoJobStarted \/ StartFails \/ Polls \/ PsCloses
  PROVE  PsInv'
<1>1. /\ ps \in PsRecords /\ ps.calls \in Nat /\ ps.last \in Nat /\ ps.calls + 1 \in Nat
      /\ ps.calls <= ps.calls + 1 /\ ps.call.on \in Nat
      /\ \A i \in JobIds : shown[i].lines \in Nat /\ jobs[i].lines \in Nat /\ i \in Nat
  <2>1. ps \in PsRecords /\ ps.calls \in Nat /\ ps.last \in Nat /\ ps.call.on \in Nat
    BY PsFacts
  <2> QED BY <2>1, PsFacts
<1>2. CASE ChecksActive
  <2>1. PsReady /\ ps.active # 0 /\ ps.call = NoWait /\ ps.call.on = 0 /\ ps.closed # TRUE
    BY <1>2, PsFacts DEF ChecksActive, PsReady
  <2>2. PICK k \in JobIds : k = ps.active
    BY <2>1 DEF PsInv, ActiveTold
  <2>3. k <= ps.calls /\ shown[k].how = "open" /\ ps.last = shown[k].lines /\ shown[k].lines <= jobs[k].lines
    BY <2>1, <2>2 DEF PsInv, ActiveTold, JobsTold
  <2>4. PICK c \in [on : Nat, kind : PsCallKind, from : Nat, latest : Nat] :
          c = [on |-> k, kind |-> "check", from |-> ps.last, latest |-> ps.last]
    BY <1>1 DEF PsCallKind
  <2>5. ps' = [ps EXCEPT !.calls = ps.calls + 1, !.call = c] /\ jobs' = jobs /\ shown' = shown
    BY <1>2, <2>2, <2>4 DEF ChecksActive
  <2>6. /\ ps' \in PsRecords /\ ps'.active = k /\ ps'.call = c /\ ps'.closed = ps.closed
        /\ ps'.calls = ps.calls + 1 /\ ps'.last = ps.last
    BY <1>1, <2>2, <2>5 DEF PsRecords
  <2>7. PsTypeOK' /\ JobsTold'
    BY <1>1, <2>5, <2>6, NothingTold
  <2>8. k # 0 /\ k <= ps.calls + 1 /\ ps.last <= ps.last /\ ps.last <= jobs[k].lines
    BY <1>1, <2>1, <2>2, <2>3
  <2>9. c.on = k /\ c.from = ps.last /\ c.latest = ps.last
    BY <2>4
  <2>10. ActiveTold' /\ WaitTold'
    BY <2>1, <2>3, <2>5, <2>6, <2>8, <2>9 DEF ActiveTold, WaitTold
  <2> QED BY <2>7, <2>10 DEF PsInv
<1>3. CASE NoJobStarted \/ StartFails
  <2>1. ps.call = NoWait /\ ps.call.on = 0 /\ ps.active = 0 /\ jobs' = jobs /\ shown' = shown
    BY <1>3, PsFacts DEF NoJobStarted, StartFails, PsReady
  <2>2. /\ ps' \in PsRecords /\ ps'.active = ps.active /\ ps'.call = ps.call /\ ps'.closed = ps.closed
        /\ ps'.calls = ps.calls + 1
    BY <1>1, <1>3 DEF NoJobStarted, StartFails, PsRecords
  <2>3. PsTypeOK' /\ JobsTold'
    BY <1>1, <2>1, <2>2, NothingTold
  <2>4. ActiveTold' /\ WaitTold'
    BY <2>1, <2>2 DEF PsInv, ActiveTold, WaitTold
  <2> QED BY <2>3, <2>4 DEF PsInv
<1>4. CASE Polls
  <2>1. ps.call.on # 0
    BY <1>4 DEF Polls
  <2>2. PICK k \in JobIds : k = ps.call.on
    BY <2>1 DEF PsInv, WaitTold
  <2>3. PICK b \in Nat : b = jobs[k].lines
    BY <1>1
  <2>4. PICK c : c = [ps.call EXCEPT !.latest = b]
    OBVIOUS
  <2>5. /\ c \in [on : Nat, kind : PsCallKind, from : Nat, latest : Nat]
        /\ c.on = k /\ c.from = ps.call.from /\ c.latest = b
    BY <1>1, <2>2, <2>4 DEF PsRecords
  <2>6. ps' = [ps EXCEPT !.call = c] /\ jobs' = jobs /\ shown' = shown
    BY <1>1, <1>4, <2>2, <2>3, <2>4 DEF Polls, PsRecords
  <2>7. /\ ps' \in PsRecords /\ ps'.active = ps.active /\ ps'.call = c /\ ps'.closed = ps.closed
        /\ ps'.calls = ps.calls /\ ps'.last = ps.last
    BY <1>1, <2>5, <2>6 DEF PsRecords
  <2>8. PsTypeOK' /\ JobsTold'
    <3>1. ps.calls <= ps'.calls
      BY <1>1, <2>7
    <3> QED BY <2>6, <2>7, <3>1, NothingTold
  <2>9. PICK f \in Nat, t \in Nat : f = ps.call.from /\ t = ps.call.latest /\ f <= t /\ t <= b
    <3>1. ps.call.from \in Nat /\ ps.call.latest \in Nat
      BY PsFacts
    <3> QED BY <2>1, <2>2, <2>3, <3>1 DEF PsInv, WaitTold
  <2>10. f <= b /\ b <= b
    BY <2>9
  <2>11. ActiveTold'
    BY <2>1, <2>2, <2>5, <2>6, <2>7 DEF PsInv, ActiveTold
  <2>12. WaitTold'
    BY <2>1, <2>2, <2>3, <2>5, <2>6, <2>7, <2>9, <2>10 DEF PsInv, WaitTold
  <2> QED BY <2>8, <2>11, <2>12 DEF PsInv
<1>5. CASE PsCloses
  <2>1. ps' = [ps EXCEPT !.closed = TRUE, !.active = 0, !.last = 0] /\ shown' = shown
    BY <1>5 DEF PsCloses
  <2>2. jobs' = jobs \/ (\E k \in JobIds : jobs' = [jobs EXCEPT ![k].state = "absent"])
    <3>1. CASE ps.active = 0
      BY <1>5, <3>1 DEF PsCloses
    <3>2. CASE ps.active # 0
      <4>1. ps.active \in JobIds
        BY <3>2 DEF PsInv, ActiveTold
      <4>2. jobs' = [jobs EXCEPT ![ps.active].state = "absent"]
        BY <1>5, <3>2 DEF PsCloses, RemoveJob
      <4> QED BY <4>1, <4>2
    <3> QED BY <3>1, <3>2
  <2>3. /\ ps' \in PsRecords /\ ps'.active = 0 /\ ps'.call = ps.call /\ ps'.closed = TRUE
        /\ ps'.calls = ps.calls
    BY <1>1, <2>1 DEF PsRecords
  <2>4. ps.calls <= ps'.calls
    BY <1>1, <2>3
  <2>5. /\ PsTypeOK' /\ JobsTold'
        /\ \A i \in JobIds : jobs'[i].lines = jobs[i].lines
    BY <2>1, <2>2, <2>3, <2>4, NothingTold
  <2>6. ActiveTold' /\ WaitTold'
    BY <2>1, <2>3, <2>5 DEF PsInv, ActiveTold, WaitTold
  <2> QED BY <2>5, <2>6 DEF PsInv
<1> QED BY <1>2, <1>3, <1>4, <1>5

\* A call starts a job that no call had started.
LEMMA StartsKeep ==
  ASSUME PsInv, StartsBackground \/ StartsJob
  PROVE  PsInv'
<1>1. PsReady /\ ps.active = 0 /\ ps.call = NoWait /\ ps.call.on = 0 /\ ps.calls < MaxPsCalls
  BY PsFacts DEF StartsBackground, StartsJob, PsReady
<1>2. ps \in PsRecords /\ ps.calls \in Nat
  BY PsFacts
<1>3. PICK k \in JobIds : k = ps.calls + 1
  BY <1>1, <1>2, PowershellAssumption DEF JobIds
<1>4. k > ps.calls /\ ps.calls <= k /\ k \in Nat /\ k # 0 /\ k <= k
  BY <1>2, <1>3
<1>5. jobs \in [JobIds -> JobRecords] /\ shown \in [JobIds -> ShownRecords]
  BY DEF PsInv, PsTypeOK
<1>6. shown[k].how = "open" /\ shown[k].lines = 0 /\ jobs[k].lines = 0
  BY <1>4 DEF PsInv, JobsTold
<1>7. PICK e \in JobRecords : e = [jobs[k] EXCEPT !.state = "running"] /\ e.lines = 0
  <2>1. PICK e : e = [jobs[k] EXCEPT !.state = "running"]
    OBVIOUS
  <2>2. jobs[k] \in JobRecords
    BY <1>5
  <2>3. e \in JobRecords /\ e.lines = jobs[k].lines
    BY <2>1, <2>2 DEF JobRecords, JobKinds
  <2> QED BY <1>6, <2>1, <2>3
<1>8. jobs' = [jobs EXCEPT ![k] = e]
  <2>1. jobs' = [jobs EXCEPT ![k].state = "running"]
    BY <1>3 DEF StartsBackground, StartsJob
  <2> QED BY <1>5, <1>7, <2>1
<1>9. PICK d \in ShownRecords : /\ shown' = [shown EXCEPT ![k] = d] /\ d.lines = 0
                                /\ d.how \in {"open", "background"}
                                /\ (StartsJob => d.how = "open")
  <2>1. CASE StartsBackground
    <3>1. PICK d : d = [shown[k] EXCEPT !.how = "background"]
      OBVIOUS
    <3>2. d \in ShownRecords /\ d.lines = 0 /\ d.how = "background"
      BY <1>5, <1>6, <3>1 DEF ShownRecords, Ways
    <3>3. shown' = [shown EXCEPT ![k] = d]
      BY <1>3, <1>5, <2>1, <3>1 DEF StartsBackground
    <3>4. ps.active = 0 /\ (StartsJob => shown' = shown)
      BY <1>1 DEF StartsJob
    <3>5. ASSUME StartsJob PROVE FALSE
      BY <1>5, <1>6, <3>2, <3>3, <3>4, <3>5
    <3> QED BY <3>2, <3>3, <3>5
  <2>2. CASE StartsJob
    <3>1. shown[k] \in ShownRecords /\ shown' = [shown EXCEPT ![k] = shown[k]]
      BY <1>5, <2>2 DEF StartsJob
    <3> QED BY <1>6, <3>1
  <2> QED BY <2>1, <2>2
<1>10. \A i \in JobIds : /\ jobs'[i] = (IF i = k THEN e ELSE jobs[i])
                         /\ shown'[i] = (IF i = k THEN d ELSE shown[i])
  BY <1>5, <1>8, <1>9
<1>11. ps' \in PsRecords /\ ps'.calls = k /\ ps'.closed = ps.closed /\ ps.closed # TRUE
  <2>1. CASE StartsBackground
    <3>1. ps' = [ps EXCEPT !.calls = k, !.last = 0]
      BY <1>3, <2>1 DEF StartsBackground
    <3> QED BY <1>1, <1>2, <1>4, <3>1 DEF PsRecords, PsReady
  <2>2. CASE StartsJob
    <3>1. PICK c \in [on : Nat, kind : PsCallKind, from : Nat, latest : Nat] :
            c = [on |-> k, kind |-> "monitor", from |-> 0, latest |-> 0]
      BY <1>4 DEF PsCallKind
    <3>2. ps' = [ps EXCEPT !.calls = k, !.active = k, !.last = 0, !.call = c]
      BY <1>3, <2>2, <3>1 DEF StartsJob
    <3> QED BY <1>1, <1>2, <1>4, <3>2 DEF PsRecords, PsReady
  <2> QED BY <2>1, <2>2
<1>12. PsTypeOK'
  BY <1>5, <1>8, <1>9, <1>11 DEF PsTypeOK
<1>13. JobsTold'
  <2> SUFFICES ASSUME NEW i \in JobIds
               PROVE  /\ (i > ps'.calls => (/\ shown'[i].how = "open" /\ shown'[i].lines = 0
                                            /\ jobs'[i].lines = 0 /\ jobs'[i].state = "absent"))
                      /\ (shown'[i].how \in {"open", "lost", "ended"} =>
                            shown'[i].lines <= jobs'[i].lines)
                      /\ (shown'[i].how = "ended" =>
                            (shown'[i].lines = jobs'[i].lines /\ jobs'[i].state = "absent"))
    BY DEF JobsTold
  <2>1. CASE i = k
    <3>1. ~(i > ps'.calls) /\ shown'[i] = d /\ jobs'[i] = e
      BY <1>4, <1>10, <1>11, <2>1
    <3>2. 0 <= 0
      OBVIOUS
    <3> QED BY <1>7, <1>9, <3>1, <3>2
  <2>2. CASE i # k
    <3>1. i \in Nat /\ (i > k => i > ps.calls)
      BY <1>2, <1>3, PowershellAssumption DEF JobIds
    <3>2. shown'[i] = shown[i] /\ jobs'[i] = jobs[i]
      BY <1>10, <2>2
    <3> QED BY <1>11, <3>1, <3>2 DEF PsInv, JobsTold
  <2> QED BY <2>1, <2>2
<1>14. CASE StartsBackground
  <2>1. ps'.active = 0 /\ ps'.call = ps.call
    BY <1>1, <1>2, <1>14 DEF StartsBackground, PsRecords
  <2>2. ActiveTold' /\ WaitTold'
    BY <1>1, <2>1 DEF ActiveTold, WaitTold
  <2> QED BY <1>12, <1>13, <2>2 DEF PsInv
<1>15. CASE StartsJob
  <2>1. PICK c : c = [on |-> k, kind |-> "monitor", from |-> 0, latest |-> 0]
    OBVIOUS
  <2>2. ps'.active = k /\ ps'.call = c
    <3>1. ps' = [ps EXCEPT !.calls = k, !.active = k, !.last = 0, !.call = c]
      BY <1>3, <1>15, <2>1 DEF StartsJob
    <3> QED BY <1>2, <3>1 DEF PsRecords
  <2>3. c.on = k /\ c.from = 0 /\ c.latest = 0 /\ 0 <= 0
    BY <2>1
  <2>4. shown'[k] = d /\ jobs'[k] = e /\ d.how = "open"
    BY <1>9, <1>10, <1>15
  <2>5. ActiveTold' /\ WaitTold'
    BY <1>4, <1>7, <1>9, <1>11, <2>2, <2>3, <2>4 DEF ActiveTold, WaitTold
  <2> QED BY <1>12, <1>13, <2>5 DEF PsInv
<1> QED BY <1>14, <1>15

\* Every step of the PowerShell session keeps its invariant, nothing else touches it, and the
\* invariant says what the property asks.
LEMMA PsSteps == PsInv /\ PsNext => PsInv'
  BY JobsMove, ReapsKeep, TurnedAwayKeeps, WaitsKeep, QuietCallsKeep, StartsKeep DEF PsNext

\* A step of another part keeps the invariant.
LEMMA PsFrame == PsInv /\ UNCHANGED psVars => PsInv'
  BY DEF PsInv, PsTypeOK, JobsTold, ActiveTold, WaitTold, psVars

\* The invariant gives what the run checks.
LEMMA PsTells == PsInv => FollowedJobShownOnce
  BY DEF PsInv, JobsTold, FollowedJobShownOnce

-----------------------------------------------------------------------------
(* The browser: the pipe holds the actions after the ones its page was led   *)
(* through.                                                                  *)

\* What the action server knows of the browser, and what the browser answers.
BrowserStates == {"none", "starting", "ready", "failed", "closed"}
BrowserAnswer == [id : Nat, page : Seq(Nat)]

\* The kinds of values of the browser part.
BrowserTypeOK ==
  /\ browserEnv \in BrowserStates /\ browserProc \in {"off", "up", "dead"} /\ pipeOpen \in BOOLEAN
  /\ toBrowser \in Seq(Nat) /\ toAgent \in Seq(BrowserAnswer) /\ asked \in Nat /\ asking \in Nat
  /\ pageOf \in Seq(Nat)

\* What is left in the pipe of a living process are the actions after those its page was led
\* through, behind the questions whether it is there.
PipeInOrder ==
  /\ pageOf = UpTo(Len(pageOf)) /\ Len(pageOf) <= asked /\ asked - Len(pageOf) <= Len(toBrowser)
  /\ \A i \in 1..Len(toBrowser) :
       toBrowser[i] = IF Len(toBrowser) - i < asked - Len(pageOf) THEN asked - (Len(toBrowser) - i) ELSE IsAlive

\* Before it is ready nothing was asked.
NothingAsked == asked = 0 /\ \A i \in 1..Len(toBrowser) : toBrowser[i] = IsAlive

\* An answer on its way shows the page that the actions up to its own led to.
OwnPages == \A i \in 1..Len(toAgent) : toAgent[i].id = IsAlive \/ toAgent[i].page = UpTo(toAgent[i].id)

\* The inductive invariant of the browser part.
BrowserInv ==
  /\ BrowserTypeOK /\ OwnPages
  /\ (browserProc = "up" => PipeInOrder)
  /\ (browserEnv \in {"none", "starting"} => NothingAsked)
  /\ (browserEnv \in {"starting", "ready"} => pipeOpen = TRUE)
  /\ (shownPage.ask > 0 => shownPage.page = UpTo(shownPage.ask))

\* At first there is no browser.
LEMMA BrowserStarts == BrowserInit => BrowserInv
<1> SUFFICES ASSUME BrowserInit PROVE BrowserInv
  OBVIOUS
<1>1. <<>> \in Seq(Nat) /\ <<>> \in Seq(BrowserAnswer) /\ Len(<<>>) = 0
  BY EmptySeq
<1>2. BrowserTypeOK
  BY <1>1 DEF BrowserInit, BrowserTypeOK, BrowserStates
<1>3. OwnPages /\ NothingAsked
  BY <1>1 DEF BrowserInit, OwnPages, NothingAsked
<1>4. browserProc = "off" /\ browserEnv = "none" /\ shownPage.ask = 0
  BY DEF BrowserInit, Nothing
<1> QED BY <1>2, <1>3, <1>4 DEF BrowserInv

\* A closed pipe is empty.
LEMMA ClosesTyped ==
  ASSUME BrowserInv, CloseProcess
  PROVE  /\ browserProc' \in {"off", "dead"} /\ pipeOpen' \in BOOLEAN /\ toBrowser' \in Seq(Nat)
         /\ toAgent' \in Seq(BrowserAnswer) /\ OwnPages'
         /\ ((\A i \in 1..Len(toBrowser) : toBrowser[i] = IsAlive) =>
               (\A i \in 1..Len(toBrowser') : toBrowser'[i] = IsAlive))
<1>1. <<>> \in Seq(Nat) /\ <<>> \in Seq(BrowserAnswer) /\ Len(<<>>) = 0
  BY EmptySeq
<1>2. CASE browserProc = "up"
  <2>1. browserProc' = "off" /\ pipeOpen' = FALSE /\ toBrowser' = <<>> /\ toAgent' = <<>>
    BY <1>2 DEF CloseProcess
  <2>2. OwnPages'
    BY <1>1, <2>1 DEF OwnPages
  <2>3. Len(toBrowser') = 0
    BY <1>1, <2>1
  <2>4. \A i \in 1..Len(toBrowser') : toBrowser'[i] = IsAlive
    BY <2>3
  <2>5. toBrowser' \in Seq(Nat) /\ toAgent' \in Seq(BrowserAnswer)
    BY <1>1, <2>1
  <2> QED BY <2>1, <2>2, <2>4, <2>5
<1>3. CASE browserProc # "up"
  BY <1>3 DEF BrowserInv, BrowserTypeOK, CloseProcess, OwnPages
<1> QED BY <1>2, <1>3

\* Starting the process, which is asked whether it is alive.
LEMMA StartsBrowserKeeps ==
  ASSUME BrowserInv, StartsBrowser PROVE BrowserInv'
<1>1. BrowserTypeOK /\ OwnPages /\ NothingAsked
  BY DEF BrowserInv, StartsBrowser
<1>2. CASE pipeOpen = TRUE
  <2>1. PICK b \in Seq(Nat) : /\ b = Append(toBrowser, IsAlive) /\ Len(b) = Len(toBrowser) + 1
                              /\ Len(toBrowser) \in Nat
                              /\ \A i \in 1..Len(toBrowser) : b[i] = toBrowser[i]
                              /\ b[Len(toBrowser) + 1] = IsAlive
    <3>1. toBrowser \in Seq(Nat) /\ IsAlive \in Nat
      BY <1>1 DEF BrowserTypeOK, IsAlive
    <3> QED BY <3>1, PutBehind
  <2>2. /\ toBrowser' = b /\ browserEnv' = "starting" /\ browserProc' = "up" /\ pageOf' = <<>>
        /\ UNCHANGED <<pipeOpen, toAgent, asked, asking, shownPage>>
    BY <1>2, <2>1 DEF StartsBrowser
  <2>3. \A i \in 1..Len(b) : b[i] = IsAlive
    <3> SUFFICES ASSUME NEW i \in 1..Len(b) PROVE b[i] = IsAlive
      OBVIOUS
    <3>1. i \in 1..Len(toBrowser) \/ i = Len(toBrowser) + 1
      BY <2>1
    <3> QED BY <1>1, <2>1, <3>1 DEF NothingAsked
  <2>4. <<>> \in Seq(Nat) /\ Len(<<>>) = 0 /\ <<>> = UpTo(0)
    BY OneMore, EmptySeq
  <2>5. NothingAsked'
    BY <1>1, <2>2, <2>3 DEF NothingAsked
  <2>6. PipeInOrder'
    <3>1. asked' = 0 /\ Len(pageOf') = 0 /\ pageOf' = UpTo(0)
      BY <1>1, <2>2, <2>4 DEF NothingAsked
    <3>2. Len(b) \in Nat /\ \A i \in 1..Len(b) : ~(Len(b) - i < 0 - 0)
      BY <2>1
    <3> QED BY <2>2, <2>3, <3>1, <3>2 DEF PipeInOrder
  <2>7. BrowserTypeOK'
    BY <1>1, <2>2, <2>4 DEF BrowserTypeOK, BrowserStates
  <2>8. OwnPages'
    BY <1>1, <2>2 DEF OwnPages
  <2> QED BY <1>2, <2>2, <2>5, <2>6, <2>7, <2>8 DEF BrowserInv
<1>3. CASE pipeOpen # TRUE
  <2>1. /\ browserEnv' = "failed" /\ pageOf' = <<>>
        /\ UNCHANGED <<browserProc, toBrowser, pipeOpen, toAgent, asked, asking, shownPage>>
    BY <1>3 DEF StartsBrowser
  <2>2. BrowserTypeOK' /\ OwnPages'
    BY <1>1, <2>1, EmptySeq DEF BrowserTypeOK, BrowserStates, OwnPages
  <2>3. browserProc' = "up" => PipeInOrder'
    <3> SUFFICES ASSUME browserProc = "up" PROVE PipeInOrder'
      BY <2>1
    <3>1. PipeInOrder /\ asked = 0
      BY <1>1 DEF BrowserInv, NothingAsked
    <3>2. pageOf = UpTo(Len(pageOf)) /\ Len(pageOf) <= 0 /\ Len(pageOf) \in Nat
      BY <1>1, <3>1, LenProperties DEF PipeInOrder, BrowserTypeOK
    <3>3. pageOf = <<>>
      BY <3>2, OneMore
    <3> QED BY <2>1, <3>1, <3>3 DEF PipeInOrder
  <2> QED BY <2>1, <2>2, <2>3 DEF BrowserInv
<1> QED BY <1>2, <1>3

\* The answer that it is.
LEMMA SeesAliveKeeps ==
  ASSUME BrowserInv, SeesAlive PROVE BrowserInv'
<1>1. BrowserTypeOK /\ OwnPages /\ toAgent \in Seq(BrowserAnswer) /\ toAgent # <<>>
  BY DEF BrowserInv, BrowserTypeOK, SeesAlive
<1>2. PICK t \in Seq(BrowserAnswer) :
        /\ t = Tail(toAgent) /\ Len(t) \in Nat /\ Len(t) = Len(toAgent) - 1
        /\ Len(toAgent) \in Nat /\ \A i \in 1..Len(t) : t[i] = toAgent[i + 1]
  <2>1. /\ Tail(toAgent) \in Seq(BrowserAnswer) /\ Len(Tail(toAgent)) = Len(toAgent) - 1
        /\ Len(Tail(toAgent)) \in Nat /\ Len(toAgent) \in Nat
        /\ \A i \in 1..Len(Tail(toAgent)) : Tail(toAgent)[i] = toAgent[i + 1]
    BY <1>1, HeadTaken
  <2> QED BY <2>1
<1>3. /\ browserEnv = "starting" /\ browserEnv' = "ready" /\ toAgent' = t
      /\ UNCHANGED <<browserProc, pipeOpen, toBrowser, browserTry, asked, asking, pageOf, shownPage>>
  BY <1>2 DEF SeesAlive
<1>4. BrowserTypeOK'
  BY <1>1, <1>2, <1>3 DEF BrowserTypeOK, BrowserStates
<1>5. OwnPages'
  <2> SUFFICES ASSUME NEW i \in 1..Len(t) PROVE t[i].id = IsAlive \/ t[i].page = UpTo(t[i].id)
    BY <1>3 DEF OwnPages
  <2>1. i + 1 \in 1..Len(toAgent)
    BY <1>2
  <2> QED BY <1>1, <1>2, <2>1 DEF OwnPages
<1>6. browserProc' = "up" => PipeInOrder'
  BY <1>3 DEF BrowserInv, PipeInOrder
<1> QED BY <1>3, <1>4, <1>5, <1>6 DEF BrowserInv

\* Giving up on it, and closing it.
LEMMA BrowserClosesKeep ==
  ASSUME BrowserInv, NotAlive \/ CloseBrowser PROVE BrowserInv'
<1>1. /\ CloseProcess /\ UNCHANGED <<asked, asking, pageOf, shownPage>>
      /\ browserEnv' \in {"none", "failed", "closed"}
      /\ (browserEnv' = "none" => browserEnv = "starting")
  BY DEF NotAlive, CloseBrowser
<1>2. /\ browserProc' \in {"off", "dead"} /\ pipeOpen' \in BOOLEAN /\ toBrowser' \in Seq(Nat)
      /\ toAgent' \in Seq(BrowserAnswer) /\ OwnPages'
      /\ ((\A i \in 1..Len(toBrowser) : toBrowser[i] = IsAlive) =>
            (\A i \in 1..Len(toBrowser') : toBrowser'[i] = IsAlive))
  BY <1>1, ClosesTyped
<1>3. BrowserTypeOK'
  BY <1>1, <1>2 DEF BrowserInv, BrowserTypeOK, BrowserStates
<1>4. browserEnv' \in {"none", "starting"} => NothingAsked'
  BY <1>1, <1>2 DEF BrowserInv, NothingAsked
<1> QED BY <1>1, <1>2, <1>3, <1>4 DEF BrowserInv

\* The process takes the next request: a page leads through every action in order.
LEMMA BrowserServesKeeps ==
  ASSUME BrowserInv, BrowserServes PROVE BrowserInv'
<1>1. /\ BrowserTypeOK /\ OwnPages /\ PipeInOrder /\ toBrowser \in Seq(Nat) /\ toBrowser # <<>>
      /\ pageOf \in Seq(Nat) /\ toAgent \in Seq(BrowserAnswer) /\ browserProc = "up"
  BY DEF BrowserInv, BrowserTypeOK, BrowserServes
<1>2. PICK n \in Nat, t \in Seq(Nat), l \in Nat, p \in Nat, a \in Nat :
        /\ n = Head(toBrowser) /\ t = Tail(toBrowser) /\ n = toBrowser[1]
        /\ l = Len(toBrowser) /\ l # 0 /\ Len(t) = l - 1
        /\ \A i \in 1..(l - 1) : t[i] = toBrowser[i + 1]
        /\ p = Len(pageOf) /\ a = asked
  <2>1. /\ Head(toBrowser) \in Nat /\ Tail(toBrowser) \in Seq(Nat) /\ Head(toBrowser) = toBrowser[1]
        /\ Len(toBrowser) \in Nat /\ Len(toBrowser) # 0 /\ Len(Tail(toBrowser)) = Len(toBrowser) - 1
        /\ \A i \in 1..Len(Tail(toBrowser)) : Tail(toBrowser)[i] = toBrowser[i + 1]
    BY <1>1, HeadTaken, EmptySeq
  <2>2. Len(pageOf) \in Nat /\ asked \in Nat
    BY <1>1, LenProperties DEF BrowserTypeOK
  <2> QED BY <2>1, <2>2
<1>3. /\ pageOf = UpTo(p) /\ p <= a /\ a - p <= l
      /\ \A i \in 1..l : toBrowser[i] = IF l - i < a - p THEN a - (l - i) ELSE IsAlive
  BY <1>1, <1>2 DEF PipeInOrder
<1>4. n = IF l - 1 < a - p THEN a - (l - 1) ELSE 0
  <2>1. 1 \in 1..l
    BY <1>2
  <2> QED BY <1>2, <1>3, <2>1 DEF IsAlive
<1>5. /\ toBrowser' = t /\ UNCHANGED <<browserEnv, browserProc, pipeOpen, asked, asking, shownPage>>
  BY <1>2 DEF BrowserServes
<1>6. \A m \in BrowserAnswer :
        (m.id = IsAlive \/ m.page = UpTo(m.id)) /\ toAgent' = Append(toAgent, m) =>
          OwnPages' /\ toAgent' \in Seq(BrowserAnswer)
  <2> SUFFICES ASSUME NEW m \in BrowserAnswer, m.id = IsAlive \/ m.page = UpTo(m.id),
                      toAgent' = Append(toAgent, m)
               PROVE  OwnPages' /\ toAgent' \in Seq(BrowserAnswer)
    OBVIOUS
  <2>1. PICK g \in Seq(BrowserAnswer) :
          /\ g = Append(toAgent, m) /\ Len(toAgent) \in Nat /\ Len(g) = Len(toAgent) + 1
          /\ \A i \in 1..Len(toAgent) : g[i] = toAgent[i]
          /\ g[Len(toAgent) + 1] = m
    BY <1>1, PutBehind
  <2>2. \A i \in 1..Len(g) : g[i].id = IsAlive \/ g[i].page = UpTo(g[i].id)
    <3> SUFFICES ASSUME NEW i \in 1..Len(g) PROVE g[i].id = IsAlive \/ g[i].page = UpTo(g[i].id)
      OBVIOUS
    <3>1. i \in 1..Len(toAgent) \/ i = Len(toAgent) + 1
      BY <2>1
    <3> QED BY <1>1, <2>1, <3>1 DEF OwnPages
  <2> QED BY <2>1, <2>2 DEF OwnPages
<1>7. CASE n = IsAlive
  <2>1. ~(l - 1 < a - p)
    BY <1>2, <1>3, <1>4, <1>7 DEF IsAlive
  <2>2. PICK m \in BrowserAnswer : m = [id |-> IsAlive, page |-> <<>>]
    BY EmptySeq DEF BrowserAnswer, IsAlive
  <2>3. toAgent' = Append(toAgent, m) /\ pageOf' = pageOf /\ m.id = IsAlive
    BY <1>2, <1>7, <2>2 DEF BrowserServes
  <2>4. OwnPages' /\ toAgent' \in Seq(BrowserAnswer)
    BY <1>6, <2>3
  <2>5. \A i \in 1..(l - 1) :
          t[i] = IF (l - 1) - i < a - p THEN a - ((l - 1) - i) ELSE IsAlive
    <3> SUFFICES ASSUME NEW i \in 1..(l - 1)
                 PROVE  t[i] = IF (l - 1) - i < a - p THEN a - ((l - 1) - i) ELSE IsAlive
      OBVIOUS
    <3>1. i + 1 \in 1..l /\ l - (i + 1) = (l - 1) - i
      BY <1>2
    <3> QED BY <1>2, <1>3, <3>1
  <2>6. a - p <= l - 1
    BY <1>2, <2>1
  <2>7. PipeInOrder'
    BY <1>2, <1>3, <1>5, <2>3, <2>5, <2>6 DEF PipeInOrder
  <2>8. BrowserTypeOK'
    BY <1>1, <1>5, <2>3, <2>4 DEF BrowserTypeOK
  <2>9. NothingAsked => NothingAsked'
    <3> SUFFICES ASSUME NothingAsked PROVE \A i \in 1..(l - 1) : t[i] = IsAlive
      BY <1>2, <1>5 DEF NothingAsked
    <3>1. \A i \in 1..(l - 1) : i + 1 \in 1..l
      BY <1>2
    <3> QED BY <1>2, <3>1 DEF NothingAsked
  <2> QED BY <1>5, <2>4, <2>7, <2>8, <2>9 DEF BrowserInv
<1>8. CASE n # IsAlive
  <2>1. l = a - p /\ n = p + 1
    BY <1>2, <1>3, <1>4, <1>8 DEF IsAlive
  <2>2. PICK g \in Seq(Nat) : g = Append(pageOf, n) /\ g = UpTo(n) /\ Len(g) = n
    <3>1. Append(UpTo(p), p + 1) = UpTo(p + 1) /\ p + 1 \in Nat
      <4>1. p \in Nat
        BY <1>2
      <4>2. Append(UpTo(p), p + 1) = UpTo(p + 1)
        BY <4>1, OneMore
      <4> QED BY <4>1, <4>2
    <3>2. UpTo(p + 1) \in Seq(Nat) /\ Len(UpTo(p + 1)) = p + 1
      BY <3>1, OneMore
    <3> QED BY <1>3, <2>1, <3>1, <3>2
  <2>3. PICK m \in BrowserAnswer : m = [id |-> n, page |-> g] /\ m.page = UpTo(m.id)
    <3>1. PICK m : m = [id |-> n, page |-> g]
      OBVIOUS
    <3>2. m \in BrowserAnswer /\ m.id = n /\ m.page = g
      BY <3>1 DEF BrowserAnswer
    <3> QED BY <2>2, <3>1, <3>2
  <2>4. pageOf' = g /\ toAgent' = Append(toAgent, m)
    BY <1>2, <1>8, <2>2, <2>3 DEF BrowserServes
  <2>5. OwnPages' /\ toAgent' \in Seq(BrowserAnswer)
    BY <1>6, <2>3, <2>4
  <2>6. \A i \in 1..(l - 1) :
          t[i] = IF (l - 1) - i < a - n THEN a - ((l - 1) - i) ELSE IsAlive
    <3> SUFFICES ASSUME NEW i \in 1..(l - 1)
                 PROVE  t[i] = IF (l - 1) - i < a - n THEN a - ((l - 1) - i) ELSE IsAlive
      OBVIOUS
    <3>1. i + 1 \in 1..l /\ l - (i + 1) = (l - 1) - i /\ l - (i + 1) < a - p /\ (l - 1) - i < a - n
      BY <1>2, <2>1
    <3> QED BY <1>2, <1>3, <3>1
  <2>7. a - n <= l - 1 /\ n <= a
    BY <1>2, <2>1
  <2>8. PipeInOrder'
    BY <1>2, <1>5, <2>2, <2>4, <2>6, <2>7 DEF PipeInOrder
  <2>9. BrowserTypeOK'
    BY <1>1, <1>5, <2>4, <2>5 DEF BrowserTypeOK
  <2>10. ~NothingAsked
    <3>1. 1 \in 1..l
      BY <1>2
    <3> QED BY <1>2, <1>8, <3>1 DEF NothingAsked
  <2>11. browserEnv \notin {"none", "starting"}
    BY <2>10 DEF BrowserInv
  <2> QED BY <1>5, <2>5, <2>8, <2>9, <2>11 DEF BrowserInv
<1> QED BY <1>7, <1>8

\* The process dies with what it was working on.
LEMMA BrowserDiesKeeps ==
  ASSUME BrowserInv, BrowserDies PROVE BrowserInv'
<1>1. toBrowser \in Seq(Nat) /\ BrowserTypeOK
  BY DEF BrowserInv, BrowserTypeOK
<1>2. /\ browserProc' = "dead"
      /\ UNCHANGED <<browserEnv, pipeOpen, toAgent, browserTry, asked, asking, pageOf, shownPage>>
      /\ toBrowser' = toBrowser \/ (toBrowser # <<>> /\ toBrowser' = Tail(toBrowser))
  BY DEF BrowserDies
<1>3. toBrowser' \in Seq(Nat) /\ (NothingAsked => NothingAsked')
  <2>1. CASE toBrowser' = toBrowser
    BY <1>1, <1>2, <2>1 DEF NothingAsked
  <2>2. CASE toBrowser # <<>> /\ toBrowser' = Tail(toBrowser)
    <3>1. PICK t \in Seq(Nat) :
            /\ t = Tail(toBrowser) /\ Len(t) = Len(toBrowser) - 1 /\ Len(toBrowser) \in Nat
            /\ \A i \in 1..Len(t) : t[i] = toBrowser[i + 1]
      BY <1>1, <2>2, HeadTaken
    <3>2. \A i \in 1..Len(t) : i + 1 \in 1..Len(toBrowser)
      BY <3>1
    <3> QED BY <1>2, <2>2, <3>1, <3>2 DEF NothingAsked
  <2> QED BY <1>2, <2>1, <2>2
<1>4. BrowserTypeOK' /\ OwnPages'
  BY <1>1, <1>2, <1>3 DEF BrowserInv, BrowserTypeOK, OwnPages
<1> QED BY <1>2, <1>3, <1>4 DEF BrowserInv

\* An action is sent.
LEMMA StepSendsKeeps ==
  ASSUME BrowserInv, StepSends PROVE BrowserInv'
<1>1. PICK a \in Nat, l \in Nat, p \in Nat : a = asked /\ l = Len(toBrowser) /\ p = Len(pageOf)
  BY LenProperties DEF BrowserInv, BrowserTypeOK
<1>2. PICK b \in Seq(Nat) : /\ b = Append(toBrowser, a + 1) /\ Len(b) = l + 1
                            /\ \A i \in 1..l : b[i] = toBrowser[i]
                            /\ b[l + 1] = a + 1
  <2>1. toBrowser \in Seq(Nat) /\ a + 1 \in Nat
    BY <1>1 DEF BrowserInv, BrowserTypeOK
  <2>2. /\ Append(toBrowser, a + 1) \in Seq(Nat) /\ Len(Append(toBrowser, a + 1)) = Len(toBrowser) + 1
        /\ \A i \in 1..Len(toBrowser) : Append(toBrowser, a + 1)[i] = toBrowser[i]
        /\ Append(toBrowser, a + 1)[Len(toBrowser) + 1] = a + 1
    BY <2>1, PutBehind
  <2> QED BY <1>1, <2>2
<1>3. /\ browserEnv = "ready" /\ asked' = a + 1 /\ asking' = a + 1 /\ toBrowser' = b
      /\ UNCHANGED <<browserEnv, browserProc, pipeOpen, toAgent, pageOf, shownPage>>
  BY <1>1, <1>2 DEF StepSends
<1>4. a + 1 \in Nat
  BY <1>1
<1>5. BrowserTypeOK' /\ OwnPages'
  BY <1>2, <1>3, <1>4 DEF BrowserInv, BrowserTypeOK, OwnPages
<1>6. browserProc' = "up" => PipeInOrder'
  <2> SUFFICES ASSUME browserProc = "up" PROVE PipeInOrder'
    BY <1>3
  <2>1. /\ pageOf = UpTo(p) /\ p <= a /\ a - p <= l
        /\ \A i \in 1..l : toBrowser[i] = IF l - i < a - p THEN a - (l - i) ELSE IsAlive
    BY <1>1 DEF BrowserInv, PipeInOrder
  <2>2. \A i \in 1..(l + 1) :
          b[i] = IF (l + 1) - i < (a + 1) - p THEN (a + 1) - ((l + 1) - i) ELSE IsAlive
    <3> SUFFICES ASSUME NEW i \in 1..(l + 1)
                 PROVE  b[i] = IF (l + 1) - i < (a + 1) - p THEN (a + 1) - ((l + 1) - i) ELSE IsAlive
      OBVIOUS
    <3>1. CASE i = l + 1
      BY <1>1, <1>2, <2>1, <3>1
    <3>2. CASE i # l + 1
      <4>1. i \in 1..l
        BY <1>1, <3>2
      <4> QED BY <1>1, <1>2, <2>1, <4>1
    <3> QED BY <3>1, <3>2
  <2>3. p <= a + 1 /\ (a + 1) - p <= l + 1
    BY <1>1, <2>1
  <2> QED BY <1>1, <1>2, <1>3, <2>1, <2>2, <2>3 DEF PipeInOrder
<1> QED BY <1>3, <1>5, <1>6 DEF BrowserInv

\* An answer is read: it is for this action or is passed over.
LEMMA StepReceivesKeeps ==
  ASSUME BrowserInv, StepReceives PROVE BrowserInv'
<1>1. BrowserTypeOK /\ OwnPages /\ toAgent \in Seq(BrowserAnswer) /\ toAgent # <<>>
  BY DEF BrowserInv, BrowserTypeOK, StepReceives
<1>2. PICK m \in BrowserAnswer, t \in Seq(BrowserAnswer) :
        /\ m = Head(toAgent) /\ m = toAgent[1] /\ t = Tail(toAgent) /\ Len(t) \in Nat
        /\ Len(t) = Len(toAgent) - 1 /\ Len(toAgent) \in Nat
        /\ \A i \in 1..Len(t) : t[i] = toAgent[i + 1]
  <2>1. /\ Tail(toAgent) \in Seq(BrowserAnswer) /\ Len(Tail(toAgent)) = Len(toAgent) - 1
        /\ Len(Tail(toAgent)) \in Nat /\ Len(toAgent) \in Nat
        /\ Head(toAgent) \in BrowserAnswer /\ Head(toAgent) = toAgent[1]
        /\ \A i \in 1..Len(Tail(toAgent)) : Tail(toAgent)[i] = toAgent[i + 1]
    BY <1>1, HeadTaken
  <2> QED BY <2>1
<1>3. /\ toAgent' = t /\ asking > 0 /\ asking \in Nat
      /\ UNCHANGED <<browserEnv, browserProc, pipeOpen, toBrowser, browserTry, asked, pageOf>>
  BY <1>1, <1>2 DEF StepReceives, BrowserTypeOK
<1>4. OwnPages'
  <2> SUFFICES ASSUME NEW i \in 1..Len(t) PROVE t[i].id = IsAlive \/ t[i].page = UpTo(t[i].id)
    BY <1>3 DEF OwnPages
  <2>1. i + 1 \in 1..Len(toAgent)
    BY <1>2
  <2> QED BY <1>1, <1>2, <2>1 DEF OwnPages
<1>5. browserProc' = "up" => PipeInOrder'
  BY <1>3 DEF BrowserInv, PipeInOrder
<1>6. browserEnv' \in {"none", "starting"} => NothingAsked'
  BY <1>3 DEF BrowserInv, NothingAsked
<1>7. CASE m.id = asking
  <2>1. shownPage' = [ask |-> asking, page |-> m.page] /\ asking' = 0
    BY <1>2, <1>7 DEF StepReceives
  <2>2. 1 \in 1..Len(toAgent)
    BY <1>2
  <2>3. m.page = UpTo(asking)
    BY <1>1, <1>2, <1>3, <1>7, <2>2 DEF OwnPages, IsAlive
  <2>4. BrowserTypeOK'
    BY <1>1, <1>2, <1>3, <2>1 DEF BrowserTypeOK
  <2> QED BY <1>3, <1>4, <1>5, <1>6, <2>1, <2>3, <2>4 DEF BrowserInv
<1>8. CASE m.id # asking
  <2>1. UNCHANGED <<shownPage, asking>>
    BY <1>2, <1>8 DEF StepReceives
  <2>2. BrowserTypeOK'
    BY <1>1, <1>2, <1>3, <2>1 DEF BrowserTypeOK
  <2> QED BY <1>3, <1>4, <1>5, <1>6, <2>1, <2>2 DEF BrowserInv
<1> QED BY <1>7, <1>8

\* The action is given up on; its answer stays in the pipe.
LEMMA StepTimesOutKeeps ==
  ASSUME BrowserInv, StepTimesOut PROVE BrowserInv'
  BY DEF BrowserInv, StepTimesOut, BrowserTypeOK, OwnPages, PipeInOrder, NothingAsked

\* Every step of the browser part keeps the invariant.
LEMMA BrowserSteps == BrowserInv /\ BrowserNext => BrowserInv'
  BY StartsBrowserKeeps, SeesAliveKeeps, BrowserClosesKeep, BrowserServesKeeps, BrowserDiesKeeps,
     StepSendsKeeps, StepReceivesKeeps, StepTimesOutKeeps DEF BrowserNext

\* So does a step of another part.
LEMMA BrowserFrame == BrowserInv /\ UNCHANGED browserVars => BrowserInv'
  BY DEF BrowserInv, BrowserTypeOK, OwnPages, PipeInOrder, NothingAsked, browserVars

\* The invariant gives what the run checks.
LEMMA BrowserTells == BrowserInv => BrowserAnswers
  BY DEF BrowserInv, BrowserAnswers, ShowsOwnPage, ReadyIsReachable, UpTo

-----------------------------------------------------------------------------
(* The Jupyter kernel: what a cell has printed is gathered, on its way, or lost *)
(* with a connection.                                                        *)

\* What a cell sends, and what the agent is answered.
KernelMsg == [cell : Nat \ {0}, what : {"print", "error", "reply"}, nth : Nat]
KernelAnswer == [cell : Nat, how : {"none", "refused", "timeout", "done"}, outputs : Seq(KernelMsg)]

\* The kinds of values of the kernel part.
CellTypeOK ==
  /\ socket \in {"none", "up", "lost"} /\ kernelQueue \in Seq(Nat) /\ ranCells \in Seq(Nat)
  /\ runningCell \in [cell : Nat, prints : Nat]
  /\ ioChannel \in Seq(KernelMsg) /\ shellChannel \in Seq(KernelMsg) /\ gathered \in Seq(KernelMsg)
  /\ waitingFor \in Nat /\ cellsSent \in Nat /\ drops \in Nat
  /\ cellAnswer \in KernelAnswer

\* The kernel takes the cells in the order they were sent, and is asked for none twice.
KernelInOrder ==
  /\ ranCells = UpTo(Len(ranCells)) /\ Len(ranCells) + Len(kernelQueue) = cellsSent
  /\ \A i \in 1..Len(kernelQueue) : kernelQueue[i] = Len(ranCells) + i
  /\ (runningCell # NoCell => runningCell.cell = Len(ranCells) /\ runningCell.cell > 0)
  /\ (waitingFor > 0 => waitingFor = cellsSent)

\* A cell the kernel took and has done with.
CellEnded(c) == c <= Len(ranCells) /\ runningCell.cell # c

\* What is on the way was sent by a cell that the kernel took; an error or a reply by one
\* that has ended.
FromTaken ==
  /\ \A i \in 1..Len(ioChannel) : ioChannel[i].cell <= Len(ranCells)
  /\ \A i \in 1..Len(ioChannel) : ioChannel[i].what # "print" => CellEnded(ioChannel[i].cell)
  /\ \A i \in 1..Len(shellChannel) : shellChannel[i].what = "reply" /\ CellEnded(shellChannel[i].cell)

\* A cell that was answered, but for a timeout, has ended.
DoneHasEnded == cellAnswer.how = "done" => cellAnswer.cell > 0 /\ CellEnded(cellAnswer.cell)

\* What is gathered of cell w and then what is on the way of it are in the order printed.
Increasing(g, io, w) ==
  /\ \A i, j \in 1..Len(g) : i < j => g[i].nth < g[j].nth
  /\ \A i \in 1..Len(g), j \in 1..Len(io) : io[j].cell = w => g[i].nth < io[j].nth
  /\ \A i, j \in 1..Len(io) : (i < j /\ io[i].cell = w /\ io[j].cell = w) => io[i].nth < io[j].nth

\* None of it goes beyond the n-th.
Below(g, io, w, n) ==
  /\ \A i \in 1..Len(g) : g[i].nth <= n
  /\ \A j \in 1..Len(io) : io[j].cell = w => io[j].nth <= n

\* The first t messages of cell w, the later ones at the end of what is on the way.
Numbered(g, io, w, t) ==
  /\ Len(g) <= t /\ t - Len(g) <= Len(io)
  /\ \A i \in 1..Len(g) : g[i].nth = i
  /\ \A j \in 1..Len(io) : (io[j].cell = w) <=> (Len(io) - j < t - Len(g))
  /\ \A j \in 1..Len(io) : io[j].cell = w => io[j].nth = t - (Len(io) - j)

\* What is gathered is of the cell that is waited for.
OwnOnly == \A i \in 1..Len(gathered) : gathered[i].cell = waitingFor

\* What is gathered and on the way of the cell that is waited for, in the order printed.
OutputOrdered ==
  waitingFor > 0 =>
    /\ OwnOnly /\ Increasing(gathered, ioChannel, waitingFor)
    /\ (runningCell.cell = waitingFor => Below(gathered, ioChannel, waitingFor, runningCell.prints))
    /\ (waitingFor > Len(ranCells) => gathered = <<>>)

\* Without a lost connection none of it is missing.
OutputWhole ==
  (waitingFor > 0 /\ drops = 0) =>
    \E t \in Nat : /\ Numbered(gathered, ioChannel, waitingFor, t)
                   /\ (runningCell.cell = waitingFor => t = runningCell.prints)
                   /\ (waitingFor > Len(ranCells) => t = 0)

\* While no connection was lost, there is one from the first cell on.
KernelConnected == (socket = "none" => cellsSent = 0) /\ (socket = "lost" => drops > 0)

\* The inductive invariant of the kernel part.
JupyterInv ==
  /\ CellTypeOK /\ KernelInOrder /\ FromTaken /\ DoneHasEnded
  /\ OutputOrdered /\ OutputWhole /\ KernelConnected /\ OwnOutput

\* A message that is put behind keeps the order, if it is of another cell or goes on.
LEMMA SentInOrder ==
  ASSUME NEW g \in Seq(KernelMsg), NEW io \in Seq(KernelMsg), NEW w \in Nat, NEW n \in Nat,
         NEW m \in KernelMsg, Increasing(g, io, w), m.cell = w => Below(g, io, w, n) /\ n < m.nth
  PROVE  Increasing(g, Append(io, m), w) /\ (m.cell = w => Below(g, Append(io, m), w, m.nth))
<1>1. PICK a \in Seq(KernelMsg), l \in Nat :
        /\ a = Append(io, m) /\ l = Len(io) /\ Len(a) = l + 1
        /\ \A i \in 1..l : a[i] = io[i]
        /\ a[l + 1] = m
  <2>1. /\ Append(io, m) \in Seq(KernelMsg) /\ Len(io) \in Nat /\ Len(Append(io, m)) = Len(io) + 1
        /\ \A i \in 1..Len(io) : Append(io, m)[i] = io[i]
        /\ Append(io, m)[Len(io) + 1] = m
    BY PutBehind
  <2> QED BY <2>1
<1>2. PICK k \in Nat : k = Len(g)
  BY LenProperties
<1>3. \A i \in 1..k : g[i].nth \in Nat
  <2>1. \A i \in 1..Len(g) : g[i] \in KernelMsg
    BY ElementOfSeq
  <2> QED BY <1>2, <2>1 DEF KernelMsg
<1>4. m.nth \in Nat /\ \A j \in 1..l : io[j].nth \in Nat
  <2>1. \A i \in 1..Len(io) : io[i] \in KernelMsg
    BY ElementOfSeq
  <2> QED BY <1>1, <2>1 DEF KernelMsg
<1>5. \A j \in 1..(l + 1) : j \in 1..l \/ j = l + 1
  BY <1>1
<1>6. \A i \in 1..k, j \in 1..Len(a) : a[j].cell = w => g[i].nth < a[j].nth
  <2> SUFFICES ASSUME NEW i \in 1..k, NEW j \in 1..(l + 1), a[j].cell = w PROVE g[i].nth < a[j].nth
    BY <1>1
  <2>1. CASE j \in 1..l
    BY <1>1, <1>2, <2>1 DEF Increasing
  <2>2. CASE j = l + 1
    <3>1. a[j] = m /\ g[i].nth <= n /\ n < m.nth
      BY <1>1, <1>2, <2>2 DEF Below
    <3> QED BY <1>3, <1>4, <3>1
  <2> QED BY <1>5, <2>1, <2>2
<1>7. \A i, j \in 1..Len(a) : (i < j /\ a[i].cell = w /\ a[j].cell = w) => a[i].nth < a[j].nth
  <2> SUFFICES ASSUME NEW i \in 1..(l + 1), NEW j \in 1..(l + 1), i < j, a[i].cell = w, a[j].cell = w
               PROVE  a[i].nth < a[j].nth
    BY <1>1
  <2>1. i \in 1..l
    BY <1>1
  <2>2. CASE j \in 1..l
    BY <1>1, <2>1, <2>2 DEF Increasing
  <2>3. CASE j = l + 1
    <3>1. a[j] = m /\ a[i] = io[i] /\ io[i].nth <= n /\ n < m.nth
      BY <1>1, <2>1, <2>3 DEF Below
    <3> QED BY <1>4, <2>1, <3>1
  <2> QED BY <1>5, <2>2, <2>3
<1>8. Increasing(g, a, w)
  BY <1>2, <1>6, <1>7 DEF Increasing
<1>9. m.cell = w => Below(g, a, w, m.nth)
  <2> SUFFICES ASSUME m.cell = w PROVE Below(g, a, w, m.nth)
    OBVIOUS
  <2>1. \A i \in 1..k : g[i].nth <= m.nth
    <3>1. \A i \in 1..k : g[i].nth <= n
      BY <1>2 DEF Below
    <3> QED BY <1>3, <1>4, <3>1
  <2>2. \A j \in 1..(l + 1) : a[j].cell = w => a[j].nth <= m.nth
    <3>1. \A j \in 1..l : io[j].cell = w => io[j].nth <= n
      BY <1>1 DEF Below
    <3> QED BY <1>1, <1>4, <1>5, <3>1
  <2> QED BY <1>1, <1>2, <2>1, <2>2 DEF Below
<1> QED BY <1>1, <1>8, <1>9

\* A message of another cell that is read changes nothing; one of this cell is gathered.
LEMMA ReadInOrder ==
  ASSUME NEW g \in Seq(KernelMsg), NEW io \in Seq(KernelMsg), NEW w \in Nat, NEW n \in Nat,
         io # <<>>, Increasing(g, io, w)
  PROVE  /\ Increasing(g, Tail(io), w)
         /\ (Below(g, io, w, n) => Below(g, Tail(io), w, n))
         /\ (Head(io).cell = w => /\ Increasing(Append(g, Head(io)), Tail(io), w)
                                  /\ (Below(g, io, w, n) => Below(Append(g, Head(io)), Tail(io), w, n)))
<1>1. PICK m \in KernelMsg, t \in Seq(KernelMsg), l \in Nat :
        /\ m = Head(io) /\ m = io[1] /\ t = Tail(io) /\ l = Len(t) /\ Len(io) = l + 1
        /\ \A i \in 1..l : t[i] = io[i + 1]
  <2>1. /\ Head(io) \in KernelMsg /\ Head(io) = io[1] /\ Tail(io) \in Seq(KernelMsg)
        /\ Len(Tail(io)) \in Nat /\ Len(io) \in Nat /\ Len(Tail(io)) = Len(io) - 1
        /\ \A i \in 1..Len(Tail(io)) : Tail(io)[i] = io[i + 1]
    BY HeadTaken
  <2>2. Len(io) = Len(Tail(io)) + 1
    BY <2>1
  <2> QED BY <2>1, <2>2
<1>2. PICK a \in Seq(KernelMsg), k \in Nat :
        /\ a = Append(g, m) /\ k = Len(g) /\ Len(a) = k + 1
        /\ \A i \in 1..k : a[i] = g[i]
        /\ a[k + 1] = m
  <2>1. /\ Append(g, m) \in Seq(KernelMsg) /\ Len(g) \in Nat /\ Len(Append(g, m)) = Len(g) + 1
        /\ \A i \in 1..Len(g) : Append(g, m)[i] = g[i]
        /\ Append(g, m)[Len(g) + 1] = m
    BY PutBehind
  <2> QED BY <2>1
<1>3. 1 \in 1..(l + 1) /\ \A i \in 1..l : i + 1 \in 1..(l + 1) /\ 1 < i + 1
  BY <1>1
<1>4. \A i \in 1..(k + 1) : i \in 1..k \/ i = k + 1
  BY <1>2
<1>5. \A i \in 1..k, j \in 1..l : t[j].cell = w => g[i].nth < t[j].nth
  BY <1>1, <1>2, <1>3 DEF Increasing
<1>6. \A i, j \in 1..l : (i < j /\ t[i].cell = w /\ t[j].cell = w) => t[i].nth < t[j].nth
  <2> SUFFICES ASSUME NEW i \in 1..l, NEW j \in 1..l, i < j, t[i].cell = w, t[j].cell = w
               PROVE  t[i].nth < t[j].nth
    OBVIOUS
  <2>1. i + 1 < j + 1 /\ i + 1 \in 1..(l + 1) /\ j + 1 \in 1..(l + 1)
    BY <1>3
  <2>2. t[i] = io[i + 1] /\ t[j] = io[j + 1]
    BY <1>1
  <2> QED BY <1>1, <2>1, <2>2 DEF Increasing
<1>7. Increasing(g, t, w)
  BY <1>1, <1>2, <1>5, <1>6 DEF Increasing
<1>8. Below(g, io, w, n) => Below(g, t, w, n)
  BY <1>1, <1>3 DEF Below
<1>9. ASSUME m.cell = w PROVE Increasing(a, t, w)
  <2>1. \A i, j \in 1..(k + 1) : i < j => a[i].nth < a[j].nth
    <3> SUFFICES ASSUME NEW i \in 1..(k + 1), NEW j \in 1..(k + 1), i < j PROVE a[i].nth < a[j].nth
      OBVIOUS
    <3>1. i \in 1..k
      BY <1>2
    <3>2. CASE j \in 1..k
      BY <1>2, <3>1, <3>2 DEF Increasing
    <3>3. CASE j = k + 1
      BY <1>1, <1>2, <1>3, <1>9, <3>1, <3>3 DEF Increasing
    <3> QED BY <1>4, <3>2, <3>3
  <2>2. \A i \in 1..(k + 1), j \in 1..l : t[j].cell = w => a[i].nth < t[j].nth
    <3> SUFFICES ASSUME NEW i \in 1..(k + 1), NEW j \in 1..l, t[j].cell = w PROVE a[i].nth < t[j].nth
      OBVIOUS
    <3>1. CASE i \in 1..k
      BY <1>2, <1>5, <3>1
    <3>2. CASE i = k + 1
      <4>1. a[i] = io[1] /\ t[j] = io[j + 1] /\ io[1].cell = w
        BY <1>1, <1>2, <1>9, <3>2
      <4> QED BY <1>1, <1>3, <4>1 DEF Increasing
    <3> QED BY <1>4, <3>1, <3>2
  <2> QED BY <1>1, <1>2, <1>6, <2>1, <2>2 DEF Increasing
<1>10. ASSUME m.cell = w, Below(g, io, w, n) PROVE Below(a, t, w, n)
  <2>1. m.nth <= n
    BY <1>1, <1>3, <1>10 DEF Below
  <2>2. \A i \in 1..(k + 1) : a[i].nth <= n
    BY <1>2, <1>4, <1>10, <2>1 DEF Below
  <2>3. \A j \in 1..l : t[j].cell = w => t[j].nth <= n
    BY <1>1, <1>3, <1>10 DEF Below
  <2> QED BY <1>1, <1>2, <2>2, <2>3 DEF Below
<1> QED BY <1>1, <1>2, <1>7, <1>8, <1>9, <1>10

\* A message of another cell can only come behind none of this one; the next of this one
\* has the next number.
LEMMA SentNumbered ==
  ASSUME NEW g \in Seq(KernelMsg), NEW io \in Seq(KernelMsg), NEW w \in Nat, NEW t \in Nat,
         NEW m \in KernelMsg, Numbered(g, io, w, t)
  PROVE  /\ ((m.cell = w /\ m.nth = t + 1) => Numbered(g, Append(io, m), w, t + 1))
         /\ ((m.cell # w /\ t = 0) => Numbered(g, Append(io, m), w, 0))
<1>1. PICK a \in Seq(KernelMsg), l \in Nat, k \in Nat :
        /\ a = Append(io, m) /\ l = Len(io) /\ Len(a) = l + 1 /\ k = Len(g)
        /\ \A i \in 1..l : a[i] = io[i]
        /\ a[l + 1] = m
  <2>1. /\ Append(io, m) \in Seq(KernelMsg) /\ Len(io) \in Nat /\ Len(Append(io, m)) = Len(io) + 1
        /\ \A i \in 1..Len(io) : Append(io, m)[i] = io[i]
        /\ Append(io, m)[Len(io) + 1] = m
    BY PutBehind
  <2>2. Len(g) \in Nat
    BY LenProperties
  <2> QED BY <2>1, <2>2
<1>2. \A j \in 1..(l + 1) : j \in 1..l \/ j = l + 1
  BY <1>1
<1>3. /\ k <= t /\ t - k <= l
      /\ \A i \in 1..k : g[i].nth = i
      /\ \A j \in 1..l : (a[j].cell = w) <=> (l - j < t - k)
      /\ \A j \in 1..l : a[j].cell = w => a[j].nth = t - (l - j)
  BY <1>1 DEF Numbered
<1>4. ASSUME m.cell = w, m.nth = t + 1 PROVE Numbered(g, a, w, t + 1)
  <2>1. k <= t + 1 /\ (t + 1) - k <= l + 1
    BY <1>1, <1>3
  <2>2. \A j \in 1..(l + 1) : (a[j].cell = w) <=> ((l + 1) - j < (t + 1) - k)
    <3> SUFFICES ASSUME NEW j \in 1..(l + 1) PROVE (a[j].cell = w) <=> ((l + 1) - j < (t + 1) - k)
      OBVIOUS
    <3>1. CASE j \in 1..l
      <4>1. ((l + 1) - j < (t + 1) - k) <=> (l - j < t - k)
        BY <1>1, <3>1
      <4> QED BY <1>3, <3>1, <4>1
    <3>2. CASE j = l + 1
      <4>1. (l + 1) - j < (t + 1) - k
        BY <1>1, <1>3, <3>2
      <4> QED BY <1>1, <1>4, <3>2, <4>1
    <3> QED BY <1>2, <3>1, <3>2
  <2>3. \A j \in 1..(l + 1) : a[j].cell = w => a[j].nth = (t + 1) - ((l + 1) - j)
    <3> SUFFICES ASSUME NEW j \in 1..(l + 1), a[j].cell = w PROVE a[j].nth = (t + 1) - ((l + 1) - j)
      OBVIOUS
    <3>1. CASE j \in 1..l
      <4>1. (t + 1) - ((l + 1) - j) = t - (l - j)
        BY <1>1, <3>1
      <4> QED BY <1>3, <3>1, <4>1
    <3>2. CASE j = l + 1
      <4>1. (t + 1) - ((l + 1) - j) = t + 1
        BY <1>1, <3>2
      <4> QED BY <1>1, <1>4, <3>2, <4>1
    <3> QED BY <1>2, <3>1, <3>2
  <2> QED BY <1>1, <1>3, <2>1, <2>2, <2>3 DEF Numbered
<1>5. ASSUME m.cell # w, t = 0 PROVE Numbered(g, a, w, 0)
  <2>1. k = 0
    BY <1>1, <1>3, <1>5
  <2>2. \A j \in 1..(l + 1) : a[j].cell # w
    <3>1. \A j \in 1..l : ~(l - j < 0 - 0)
      BY <1>1
    <3> QED BY <1>1, <1>2, <1>3, <1>5, <2>1, <3>1
  <2>3. \A j \in 1..(l + 1) : ~((l + 1) - j < 0 - 0)
    BY <1>1
  <2>4. 0 <= 0 /\ 0 - 0 <= l + 1 /\ \A i \in 1..0 : g[i].nth = i
    BY <1>1
  <2> QED BY <1>1, <2>1, <2>2, <2>3, <2>4 DEF Numbered
<1> QED BY <1>1, <1>4, <1>5

\* What is read of another cell changes nothing; of this one it has the next number.
LEMMA ReadNumbered ==
  ASSUME NEW g \in Seq(KernelMsg), NEW io \in Seq(KernelMsg), NEW w \in Nat, NEW t \in Nat,
         io # <<>>, Numbered(g, io, w, t)
  PROVE  /\ (Head(io).cell # w => Numbered(g, Tail(io), w, t))
         /\ (Head(io).cell = w => /\ Head(io).nth = Len(g) + 1
                                  /\ Numbered(Append(g, Head(io)), Tail(io), w, t))
<1>1. PICK m \in KernelMsg, r \in Seq(KernelMsg), l \in Nat :
        /\ m = Head(io) /\ m = io[1] /\ r = Tail(io) /\ l = Len(r) /\ Len(io) = l + 1
        /\ \A i \in 1..l : r[i] = io[i + 1]
  <2>1. /\ Head(io) \in KernelMsg /\ Head(io) = io[1] /\ Tail(io) \in Seq(KernelMsg)
        /\ Len(Tail(io)) \in Nat /\ Len(io) \in Nat /\ Len(Tail(io)) = Len(io) - 1
        /\ \A i \in 1..Len(Tail(io)) : Tail(io)[i] = io[i + 1]
    BY HeadTaken
  <2>2. Len(io) = Len(Tail(io)) + 1
    BY <2>1
  <2> QED BY <2>1, <2>2
<1>2. PICK a \in Seq(KernelMsg), k \in Nat :
        /\ a = Append(g, m) /\ k = Len(g) /\ Len(a) = k + 1
        /\ \A i \in 1..k : a[i] = g[i]
        /\ a[k + 1] = m
  <2>1. /\ Append(g, m) \in Seq(KernelMsg) /\ Len(g) \in Nat /\ Len(Append(g, m)) = Len(g) + 1
        /\ \A i \in 1..Len(g) : Append(g, m)[i] = g[i]
        /\ Append(g, m)[Len(g) + 1] = m
    BY PutBehind
  <2> QED BY <2>1
<1>3. /\ k <= t /\ t - k <= l + 1
      /\ \A i \in 1..k : g[i].nth = i
      /\ \A j \in 1..(l + 1) : (io[j].cell = w) <=> ((l + 1) - j < t - k)
      /\ \A j \in 1..(l + 1) : io[j].cell = w => io[j].nth = t - ((l + 1) - j)
  BY <1>1, <1>2 DEF Numbered
<1>4. 1 \in 1..(l + 1) /\ (l + 1) - 1 = l /\ \A j \in 1..l : j + 1 \in 1..(l + 1) /\ (l + 1) - (j + 1) = l - j
  BY <1>1
<1>5. \A j \in 1..l : (r[j].cell = w) <=> (l - j < t - k)
  BY <1>1, <1>3, <1>4
<1>6. \A j \in 1..l : r[j].cell = w => r[j].nth = t - (l - j)
  BY <1>1, <1>3, <1>4
<1>7. ASSUME m.cell # w PROVE Numbered(g, r, w, t)
  <2>1. ~(l < t - k)
    BY <1>1, <1>3, <1>4, <1>7
  <2>2. t - k <= l
    BY <1>1, <1>2, <2>1
  <2> QED BY <1>1, <1>2, <1>3, <1>5, <1>6, <2>2 DEF Numbered
<1>8. ASSUME m.cell = w PROVE m.nth = k + 1 /\ Numbered(a, r, w, t)
  <2>1. l < t - k /\ m.nth = t - l
    BY <1>1, <1>3, <1>4, <1>8
  <2>2. t = k + l + 1 /\ m.nth = k + 1
    <3>1. k <= t /\ t - k <= l + 1 /\ l < t - k
      BY <1>3, <2>1
    <3>2. t = k + l + 1
      <4>1. k \in Nat /\ l \in Nat /\ t \in Nat
        BY <1>1, <1>2
      <4> QED BY <3>1, <4>1
    <3>3. t - l = k + 1
      BY <1>1, <1>2, <3>2
    <3> QED BY <2>1, <3>2, <3>3
  <2>3. \A i \in 1..(k + 1) : a[i].nth = i
    <3>1. \A i \in 1..(k + 1) : i \in 1..k \/ i = k + 1
      BY <1>2
    <3> QED BY <1>2, <1>3, <2>2, <3>1
  <2>4. \A j \in 1..l : (r[j].cell = w) <=> (l - j < t - (k + 1))
    <3>1. \A j \in 1..l : (l - j < t - k) /\ (l - j < t - (k + 1))
      BY <1>1, <1>2, <2>2
    <3> QED BY <1>5, <3>1
  <2>5. k + 1 <= t /\ t - (k + 1) <= l
    BY <1>1, <1>2, <2>2
  <2> QED BY <1>1, <1>2, <1>6, <2>2, <2>3, <2>4, <2>5 DEF Numbered
<1> QED BY <1>1, <1>2, <1>7, <1>8

\* Of a cell the kernel has not taken nothing is on the way.
LEMMA NothingOfIt ==
  ASSUME NEW io \in Seq(KernelMsg), NEW w \in Nat, \A i \in 1..Len(io) : io[i].cell # w
  PROVE  /\ <<>> \in Seq(KernelMsg) /\ Len(<<>>) = 0
         /\ Increasing(<<>>, io, w) /\ Below(<<>>, io, w, 0) /\ Numbered(<<>>, io, w, 0)
<1>1. <<>> \in Seq(KernelMsg) /\ Len(<<>>) = 0 /\ Len(io) \in Nat
  BY EmptySeq, LenProperties
<1>2. \A j \in 1..Len(io) : ~(Len(io) - j < 0 - 0)
  BY <1>1
<1>3. 0 - 0 <= Len(io)
  BY <1>1
<1> QED BY <1>1, <1>2, <1>3 DEF Increasing, Below, Numbered

\* An answer that shows what was gathered of its cell, in order and without a gap.
LEMMA AnswerOwn ==
  ASSUME NEW o \in Seq(KernelMsg), NEW w \in Nat, NEW how \in {"none", "refused", "timeout", "done"},
         \A i \in 1..Len(o) : o[i].cell = w,
         \A i, j \in 1..Len(o) : i < j => o[i].nth < o[j].nth,
         drops' = 0 => \A i \in 1..Len(o) : o[i].nth = i,
         cellAnswer' = Answer(w, how, o)
  PROVE  /\ OwnOutput' /\ cellAnswer' \in KernelAnswer /\ cellAnswer'.how = how
         /\ cellAnswer'.cell = w
<1>1. cellAnswer' \in KernelAnswer /\ cellAnswer'.outputs = o /\ cellAnswer'.cell = w /\ cellAnswer'.how = how
  BY DEF Answer, KernelAnswer
<1>2. DOMAIN o = 1..Len(o)
  BY LenProperties
<1> QED BY <1>1, <1>2 DEF OwnOutput

\* Nothing is shown when a connection was refused or the time was up.
LEMMA AnswerEmpty ==
  ASSUME NEW w \in Nat, NEW how \in {"none", "refused", "timeout", "done"},
         cellAnswer' = Answer(w, how, <<>>)
  PROVE  /\ OwnOutput' /\ cellAnswer' \in KernelAnswer /\ cellAnswer'.how = how
         /\ cellAnswer'.cell = w
<1>1. <<>> \in Seq(KernelMsg) /\ Len(<<>>) = 0
  BY EmptySeq
<1>2. \A i \in 1..Len(<<>>) : FALSE
  BY <1>1
<1> QED BY <1>1, <1>2, AnswerOwn

\* At first no cell was sent.
LEMMA JupyterStarts == JupyterInit => JupyterInv
<1> SUFFICES ASSUME JupyterInit PROVE JupyterInv
  OBVIOUS
<1>1. <<>> \in Seq(Nat) /\ <<>> \in Seq(KernelMsg) /\ Len(<<>>) = 0
  BY EmptySeq
<1>2. CellTypeOK
  <2>1. NoCell \in [cell : Nat, prints : Nat]
    BY DEF NoCell
  <2>2. cellAnswer \in KernelAnswer
    BY <1>1 DEF JupyterInit, Answer, KernelAnswer
  <2> QED BY <1>1, <2>1, <2>2 DEF JupyterInit, CellTypeOK
<1>3. KernelInOrder
  <2>1. UpTo(0) = <<>>
    BY OneMore
  <2> QED BY <1>1, <2>1 DEF JupyterInit, KernelInOrder
<1>4. FromTaken /\ DoneHasEnded /\ OutputOrdered /\ OutputWhole /\ KernelConnected
  BY <1>1 DEF JupyterInit, FromTaken, DoneHasEnded, OutputOrdered, OutputWhole, KernelConnected, Answer
<1>5. OwnOutput
  BY DEF JupyterInit, OwnOutput, Answer
<1> QED BY <1>2, <1>3, <1>4, <1>5 DEF JupyterInv

\* Connecting, a refusal, and the heartbeat that connects again.
LEMMA ConnectsKeep ==
  ASSUME JupyterInv, Connects \/ ConnectRefused \/ HeartbeatReconnects PROVE JupyterInv'
<1>1. /\ UNCHANGED <<kernelQueue, runningCell, ioChannel, shellChannel, ranCells, waitingFor, gathered, cellsSent>>
      /\ socket' = socket \/ socket' = "up"
  BY DEF Connects, ConnectRefused, HeartbeatReconnects, kernelVars
<1>2. drops \in Nat /\ drops' \in Nat /\ (drops' = drops \/ (waitingFor = 0 /\ drops' > 0))
  BY DEF JupyterInv, CellTypeOK, Connects, ConnectRefused, HeartbeatReconnects
<1>3. cellAnswer' = cellAnswer \/ cellAnswer' = Answer(0, "refused", <<>>)
  BY DEF Connects, ConnectRefused, HeartbeatReconnects
<1>4. OwnOutput' /\ cellAnswer' \in KernelAnswer /\ DoneHasEnded'
  <2>1. CASE cellAnswer' = cellAnswer
    <3>1. drops' = 0 => drops = 0
      BY <1>2
    <3> QED BY <1>1, <2>1, <3>1 DEF JupyterInv, OwnOutput, CellTypeOK, DoneHasEnded, CellEnded
  <2>2. CASE cellAnswer' = Answer(0, "refused", <<>>)
    <3>1. OwnOutput' /\ cellAnswer' \in KernelAnswer /\ cellAnswer'.how = "refused"
      BY <2>2, AnswerEmpty
    <3> QED BY <3>1 DEF DoneHasEnded
  <2> QED BY <1>3, <2>1, <2>2
<1>5. CellTypeOK'
  BY <1>1, <1>2, <1>4 DEF JupyterInv, CellTypeOK
<1>6. KernelInOrder' /\ FromTaken' /\ OutputOrdered'
  BY <1>1 DEF JupyterInv, KernelInOrder, FromTaken, CellEnded, OutputOrdered, OwnOnly
<1>7. OutputWhole'
  BY <1>1, <1>2 DEF JupyterInv, OutputWhole
<1>8. KernelConnected'
  BY <1>1, <1>2 DEF JupyterInv, KernelConnected, Connects, ConnectRefused, HeartbeatReconnects
<1> QED BY <1>4, <1>5, <1>6, <1>7, <1>8 DEF JupyterInv

\* A cell is sent: it has a number no message carries.
LEMMA SendsCellKeeps ==
  ASSUME JupyterInv, SendsCell PROVE JupyterInv'
<1>1. /\ CellTypeOK /\ KernelInOrder /\ FromTaken /\ ioChannel \in Seq(KernelMsg) /\ kernelQueue \in Seq(Nat)
      /\ ranCells \in Seq(Nat)
  BY DEF JupyterInv, CellTypeOK
<1>2. PICK c \in Nat, r \in Nat, k \in Nat : c = cellsSent /\ r = Len(ranCells) /\ k = Len(kernelQueue)
  BY <1>1, LenProperties DEF CellTypeOK
<1>3. r + k = c /\ c + 1 \in Nat /\ c + 1 > r /\ c + 1 > 0
  BY <1>1, <1>2 DEF KernelInOrder
<1>4. PICK q \in Seq(Nat) :
        /\ q = Append(kernelQueue, c + 1) /\ Len(q) = k + 1
        /\ \A i \in 1..k : q[i] = kernelQueue[i]
        /\ q[k + 1] = c + 1
  <2>1. /\ Append(kernelQueue, c + 1) \in Seq(Nat) /\ Len(Append(kernelQueue, c + 1)) = Len(kernelQueue) + 1
        /\ \A i \in 1..Len(kernelQueue) : Append(kernelQueue, c + 1)[i] = kernelQueue[i]
        /\ Append(kernelQueue, c + 1)[Len(kernelQueue) + 1] = c + 1
    BY <1>1, <1>3, PutBehind
  <2> QED BY <1>2, <2>1
<1>5. /\ socket = "up" /\ cellsSent' = c + 1 /\ waitingFor' = c + 1 /\ gathered' = <<>> /\ kernelQueue' = q
      /\ UNCHANGED <<socket, runningCell, ioChannel, shellChannel, ranCells, cellAnswer, drops>>
  BY <1>2, <1>4 DEF SendsCell
<1>6. CellTypeOK'
  <2>1. <<>> \in Seq(KernelMsg)
    BY EmptySeq
  <2> QED BY <1>1, <1>3, <1>4, <1>5, <2>1 DEF CellTypeOK
<1>7. KernelInOrder'
  <2>1. \A i \in 1..(k + 1) : q[i] = r + i
    <3> SUFFICES ASSUME NEW i \in 1..(k + 1) PROVE q[i] = r + i
      OBVIOUS
    <3>1. CASE i \in 1..k
      BY <1>1, <1>2, <1>4, <3>1 DEF KernelInOrder
    <3>2. CASE i = k + 1
      <4>1. r + (k + 1) = c + 1
        BY <1>2, <1>3
      <4> QED BY <1>4, <3>2, <4>1
    <3>3. i \in 1..k \/ i = k + 1
      BY <1>2
    <3> QED BY <3>1, <3>2, <3>3
  <2>2. r + (k + 1) = c + 1
    BY <1>2, <1>3
  <2> QED BY <1>1, <1>2, <1>4, <1>5, <2>1, <2>2 DEF KernelInOrder
<1>8. FromTaken' /\ DoneHasEnded' /\ OwnOutput' /\ KernelConnected'
  BY <1>5 DEF JupyterInv, FromTaken, DoneHasEnded, CellEnded, OwnOutput, KernelConnected
<1>9. runningCell.cell # c + 1 /\ \A i \in 1..Len(ioChannel) : ioChannel[i].cell # c + 1
  <2>1. runningCell.cell # c + 1
    <3>1. CASE runningCell = NoCell
      <4>1. runningCell.cell = 0
        BY <3>1 DEF NoCell
      <4> QED BY <1>3, <4>1
    <3>2. CASE runningCell # NoCell
      <4>1. runningCell.cell = r
        BY <1>1, <1>2, <3>2 DEF KernelInOrder
      <4> QED BY <1>2, <1>3, <4>1
    <3> QED BY <3>1, <3>2
  <2>2. \A i \in 1..Len(ioChannel) : ioChannel[i].cell # c + 1
    <3> SUFFICES ASSUME NEW i \in 1..Len(ioChannel) PROVE ioChannel[i].cell # c + 1
      OBVIOUS
    <3>1. ioChannel[i].cell <= r
      BY <1>1, <1>2 DEF FromTaken
    <3> QED BY <1>2, <1>3, <3>1
  <2> QED BY <2>1, <2>2
<1>10. Increasing(<<>>, ioChannel, c + 1) /\ Numbered(<<>>, ioChannel, c + 1, 0) /\ Len(<<>>) = 0
  BY <1>1, <1>3, <1>9, NothingOfIt
<1>11. OutputOrdered'
  BY <1>5, <1>9, <1>10 DEF OutputOrdered, OwnOnly
<1>12. OutputWhole'
  BY <1>5, <1>9, <1>10 DEF OutputWhole
<1> QED BY <1>6, <1>7, <1>8, <1>11, <1>12 DEF JupyterInv

\* The connection is lost with what was on it.
LEMMA SocketLostKeeps ==
  ASSUME JupyterInv, SocketLost PROVE JupyterInv'
<1>1. /\ drops' = drops + 1 /\ socket' = "lost" /\ ioChannel' = <<>> /\ shellChannel' = <<>>
      /\ UNCHANGED <<kernelQueue, runningCell, ranCells, waitingFor, gathered, cellAnswer, cellsSent>>
  BY DEF SocketLost
<1>2. drops' \in Nat /\ drops' > 0
  BY <1>1 DEF JupyterInv, CellTypeOK
<1>3. <<>> \in Seq(KernelMsg) /\ Len(<<>>) = 0
  BY EmptySeq
<1>4. CellTypeOK'
  BY <1>1, <1>2, <1>3 DEF JupyterInv, CellTypeOK
<1>5. KernelInOrder' /\ DoneHasEnded'
  BY <1>1 DEF JupyterInv, KernelInOrder, DoneHasEnded, CellEnded
<1>6. FromTaken'
  BY <1>1, <1>3 DEF FromTaken
<1>7. OutputOrdered'
  BY <1>1, <1>3 DEF JupyterInv, OutputOrdered, OwnOnly, Increasing, Below
<1>8. OutputWhole' /\ KernelConnected' /\ OwnOutput'
  BY <1>1, <1>2 DEF JupyterInv, OutputWhole, KernelConnected, OwnOutput
<1> QED BY <1>4, <1>5, <1>6, <1>7, <1>8 DEF JupyterInv

\* What is left of a channel was on it before.
LEMMA ChannelsRead ==
  ASSUME CellTypeOK, FromTaken, UNCHANGED <<runningCell, ranCells>>,
         \/ ioChannel # <<>> /\ ioChannel' = Tail(ioChannel) /\ UNCHANGED shellChannel
         \/ shellChannel # <<>> /\ shellChannel' = Tail(shellChannel) /\ UNCHANGED ioChannel
  PROVE  FromTaken' /\ ioChannel' \in Seq(KernelMsg) /\ shellChannel' \in Seq(KernelMsg)
<1>1. ioChannel \in Seq(KernelMsg) /\ shellChannel \in Seq(KernelMsg)
  BY DEF CellTypeOK
<1>2. ASSUME NEW s \in Seq(KernelMsg), s # <<>>
      PROVE  /\ Tail(s) \in Seq(KernelMsg)
             /\ \A i \in 1..Len(Tail(s)) : i + 1 \in 1..Len(s) /\ Tail(s)[i] = s[i + 1]
  <2>1. /\ Tail(s) \in Seq(KernelMsg) /\ Len(Tail(s)) = Len(s) - 1 /\ Len(s) \in Nat
        /\ \A i \in 1..Len(Tail(s)) : Tail(s)[i] = s[i + 1]
    BY <1>2, HeadTaken
  <2>2. \A i \in 1..Len(Tail(s)) : i + 1 \in 1..Len(s)
    BY <2>1
  <2> QED BY <2>1, <2>2
<1>3. CASE ioChannel # <<>> /\ ioChannel' = Tail(ioChannel) /\ UNCHANGED shellChannel
  <2>1. /\ ioChannel' \in Seq(KernelMsg)
        /\ \A i \in 1..Len(ioChannel') : i + 1 \in 1..Len(ioChannel) /\ ioChannel'[i] = ioChannel[i + 1]
    BY <1>1, <1>2, <1>3
  <2> QED BY <1>1, <1>3, <2>1 DEF FromTaken, CellEnded
<1>4. CASE shellChannel # <<>> /\ shellChannel' = Tail(shellChannel) /\ UNCHANGED ioChannel
  <2>1. /\ shellChannel' \in Seq(KernelMsg)
        /\ \A i \in 1..Len(shellChannel') : i + 1 \in 1..Len(shellChannel) /\ shellChannel'[i] = shellChannel[i + 1]
    BY <1>1, <1>2, <1>4
  <2> QED BY <1>1, <1>4, <2>1 DEF FromTaken, CellEnded
<1> QED BY <1>3, <1>4

\* What a cell printed: it is gathered, or it is another cell's.
LEMMA ReadsOutputKeeps ==
  ASSUME JupyterInv, waitingFor > 0, socket = "up", ioChannel # <<>>, Takes(Head(ioChannel)),
         ioChannel' = Tail(ioChannel),
         UNCHANGED <<shellChannel, socket, kernelQueue, runningCell, ranCells, cellsSent, drops>>
  PROVE  JupyterInv'
<1>1. /\ CellTypeOK /\ KernelInOrder /\ FromTaken /\ ioChannel \in Seq(KernelMsg)
      /\ gathered \in Seq(KernelMsg) /\ OwnOnly /\ Increasing(gathered, ioChannel, waitingFor)
  BY DEF JupyterInv, CellTypeOK, OutputOrdered
<1>2. PICK w \in Nat : w = waitingFor
  BY <1>1 DEF CellTypeOK
<1>3. PICK m \in KernelMsg : m = Head(ioChannel) /\ m = ioChannel[1] /\ 1 \in 1..Len(ioChannel)
  <2>1. Head(ioChannel) \in KernelMsg /\ Head(ioChannel) = ioChannel[1] /\ 1 \in DOMAIN ioChannel /\ DOMAIN ioChannel = 1..Len(ioChannel)
    BY <1>1, HeadTaken
  <2> QED BY <2>1
<1>4. FromTaken' /\ ioChannel' \in Seq(KernelMsg) /\ shellChannel' \in Seq(KernelMsg)
  BY <1>1, ChannelsRead
<1>5. PICK p \in Nat : p = runningCell.prints
  BY <1>1 DEF CellTypeOK
<1>6. /\ Increasing(gathered, ioChannel', w)
      /\ (Below(gathered, ioChannel, w, p) => Below(gathered, ioChannel', w, p))
      /\ (m.cell = w => /\ Increasing(Append(gathered, m), ioChannel', w)
                        /\ (Below(gathered, ioChannel, w, p) => Below(Append(gathered, m), ioChannel', w, p)))
  <2>1. /\ Increasing(gathered, Tail(ioChannel), w)
        /\ (Below(gathered, ioChannel, w, p) => Below(gathered, Tail(ioChannel), w, p))
        /\ (Head(ioChannel).cell = w =>
              /\ Increasing(Append(gathered, Head(ioChannel)), Tail(ioChannel), w)
              /\ (Below(gathered, ioChannel, w, p) => Below(Append(gathered, Head(ioChannel)), Tail(ioChannel), w, p)))
    BY <1>1, <1>2, ReadInOrder
  <2> QED BY <1>3, <2>1
<1>7. \A t \in Nat : Numbered(gathered, ioChannel, w, t) =>
        /\ (m.cell # w => Numbered(gathered, ioChannel', w, t))
        /\ (m.cell = w => /\ m.nth = Len(gathered) + 1
                          /\ Numbered(Append(gathered, m), ioChannel', w, t))
  <2> SUFFICES ASSUME NEW t \in Nat, Numbered(gathered, ioChannel, w, t)
               PROVE  /\ (m.cell # w => Numbered(gathered, ioChannel', w, t))
                      /\ (m.cell = w => /\ m.nth = Len(gathered) + 1
                                        /\ Numbered(Append(gathered, m), ioChannel', w, t))
    OBVIOUS
  <2>1. /\ (Head(ioChannel).cell # w => Numbered(gathered, Tail(ioChannel), w, t))
        /\ (Head(ioChannel).cell = w =>
              /\ Head(ioChannel).nth = Len(gathered) + 1
              /\ Numbered(Append(gathered, Head(ioChannel)), Tail(ioChannel), w, t))
    BY <1>1, ReadNumbered
  <2> QED BY <1>3, <2>1
<1>8. KernelInOrder' /\ KernelConnected'
  <2>1. waitingFor' = waitingFor \/ waitingFor' = 0
    BY DEF Takes, AnswersCell
  <2> QED BY <1>1, <2>1 DEF JupyterInv, KernelInOrder, KernelConnected
<1>9. CASE m.cell # w
  <2>1. UNCHANGED <<waitingFor, gathered, cellAnswer>>
    BY <1>2, <1>3, <1>9 DEF Takes
  <2>2. CellTypeOK'
    BY <1>1, <1>4, <2>1 DEF CellTypeOK
  <2>3. DoneHasEnded' /\ OwnOutput'
    BY <2>1 DEF JupyterInv, DoneHasEnded, CellEnded, OwnOutput
  <2>4. OutputOrdered'
    BY <1>1, <1>2, <1>5, <1>6, <2>1 DEF JupyterInv, OutputOrdered, OwnOnly
  <2>5. OutputWhole'
    BY <1>2, <1>7, <1>9, <2>1 DEF JupyterInv, OutputWhole
  <2> QED BY <1>4, <1>8, <2>2, <2>3, <2>4, <2>5 DEF JupyterInv
<1>10. CASE m.cell = w
  <2>1. w <= Len(ranCells) /\ Len(ranCells) \in Nat
    BY <1>1, <1>3, <1>10, LenProperties DEF FromTaken, CellTypeOK
  <2>2. PICK a \in Seq(KernelMsg), k \in Nat :
          /\ a = Append(gathered, m) /\ k = Len(gathered) /\ Len(a) = k + 1
          /\ \A i \in 1..k : a[i] = gathered[i]
          /\ a[k + 1] = m
    <3>1. /\ Append(gathered, m) \in Seq(KernelMsg) /\ Len(gathered) \in Nat
          /\ Len(Append(gathered, m)) = Len(gathered) + 1
          /\ \A i \in 1..Len(gathered) : Append(gathered, m)[i] = gathered[i]
          /\ Append(gathered, m)[Len(gathered) + 1] = m
      BY <1>1, PutBehind
    <3> QED BY <3>1
  <2>3. \A i \in 1..(k + 1) : a[i].cell = w
    <3>1. \A i \in 1..(k + 1) : i \in 1..k \/ i = k + 1
      BY <2>2
    <3> QED BY <1>1, <1>2, <1>10, <2>2, <3>1 DEF OwnOnly
  <2>4. CASE m.what = "print"
    <3>1. gathered' = a /\ UNCHANGED <<waitingFor, cellAnswer>>
      BY <1>2, <1>3, <1>10, <2>2, <2>4 DEF Takes
    <3>2. CellTypeOK'
      BY <1>1, <1>4, <2>2, <3>1 DEF CellTypeOK
    <3>3. DoneHasEnded' /\ OwnOutput'
      BY <3>1 DEF JupyterInv, DoneHasEnded, CellEnded, OwnOutput
    <3>4. Increasing(a, ioChannel', w)
      BY <1>6, <1>10, <2>2
    <3>5. runningCell.cell = w => Below(a, ioChannel', w, p)
      BY <1>2, <1>5, <1>6, <1>10, <2>2 DEF JupyterInv, OutputOrdered
    <3>6. ~(w > Len(ranCells))
      BY <1>2, <2>1
    <3>7. OutputOrdered'
      BY <1>2, <1>5, <2>2, <2>3, <3>1, <3>4, <3>5, <3>6 DEF OutputOrdered, OwnOnly
    <3>8. OutputWhole'
      BY <1>2, <1>7, <1>10, <2>2, <3>1 DEF JupyterInv, OutputWhole
    <3> QED BY <1>4, <1>8, <3>2, <3>3, <3>7, <3>8 DEF JupyterInv
  <2>5. CASE m.what # "print"
    <3>1. PICK o \in Seq(KernelMsg) : /\ o = (IF m.what = "error" THEN a ELSE gathered)
                                      /\ (o = a \/ o = gathered)
      BY <1>1, <2>2
    <3>2. cellAnswer' = Answer(w, "done", o) /\ waitingFor' = 0 /\ gathered' = <<>>
      BY <1>2, <1>3, <1>10, <2>2, <2>5, <3>1 DEF Takes, AnswersCell
    <3>3. \A i \in 1..Len(o) : o[i].cell = w
      BY <1>1, <1>2, <2>2, <2>3, <3>1 DEF OwnOnly
    <3>4. \A i, j \in 1..Len(o) : i < j => o[i].nth < o[j].nth
      BY <1>6, <1>10, <2>2, <3>1 DEF Increasing
    <3>5. drops' = 0 => \A i \in 1..Len(o) : o[i].nth = i
      <4> SUFFICES ASSUME drops = 0 PROVE \A i \in 1..Len(o) : o[i].nth = i
        OBVIOUS
      <4>1. PICK t \in Nat : Numbered(gathered, ioChannel, w, t)
        BY <1>2 DEF JupyterInv, OutputWhole
      <4>2. Numbered(a, ioChannel', w, t)
        BY <1>7, <1>10, <2>2, <4>1
      <4> QED BY <3>1, <4>1, <4>2 DEF Numbered
    <3>6. OwnOutput' /\ cellAnswer' \in KernelAnswer /\ cellAnswer'.cell = w
      BY <3>2, <3>3, <3>4, <3>5, AnswerOwn
    <3>7. CellEnded(w)
      BY <1>1, <1>3, <1>10, <2>5 DEF FromTaken
    <3>8. DoneHasEnded'
      BY <1>2, <3>6, <3>7 DEF DoneHasEnded, CellEnded
    <3>9. CellTypeOK'
      BY <1>1, <1>4, <3>2, <3>6, EmptySeq DEF CellTypeOK
    <3>10. OutputOrdered' /\ OutputWhole'
      BY <3>2 DEF OutputOrdered, OutputWhole
    <3> QED BY <1>4, <1>8, <3>6, <3>8, <3>9, <3>10 DEF JupyterInv
  <2> QED BY <2>4, <2>5
<1> QED BY <1>9, <1>10

\* The reply: what was gathered by then is shown.
LEMMA ReadsReplyKeeps ==
  ASSUME JupyterInv, waitingFor > 0, socket = "up", shellChannel # <<>>, Takes(Head(shellChannel)),
         shellChannel' = Tail(shellChannel),
         UNCHANGED <<ioChannel, socket, kernelQueue, runningCell, ranCells, cellsSent, drops>>
  PROVE  JupyterInv'
<1>1. /\ CellTypeOK /\ KernelInOrder /\ FromTaken /\ shellChannel \in Seq(KernelMsg)
      /\ gathered \in Seq(KernelMsg) /\ OwnOnly /\ Increasing(gathered, ioChannel, waitingFor)
  BY DEF JupyterInv, CellTypeOK, OutputOrdered
<1>2. PICK w \in Nat : w = waitingFor
  BY <1>1 DEF CellTypeOK
<1>3. PICK m \in KernelMsg : m = Head(shellChannel) /\ m = shellChannel[1] /\ 1 \in 1..Len(shellChannel)
  <2>1. Head(shellChannel) \in KernelMsg /\ Head(shellChannel) = shellChannel[1] /\ 1 \in DOMAIN shellChannel /\ DOMAIN shellChannel = 1..Len(shellChannel)
    BY <1>1, HeadTaken
  <2> QED BY <2>1
<1>4. FromTaken' /\ ioChannel' \in Seq(KernelMsg) /\ shellChannel' \in Seq(KernelMsg)
  BY <1>1, ChannelsRead
<1>5. m.what = "reply" /\ CellEnded(m.cell)
  BY <1>1, <1>3 DEF FromTaken
<1>6. KernelInOrder' /\ KernelConnected'
  <2>1. waitingFor' = waitingFor \/ waitingFor' = 0
    BY DEF Takes, AnswersCell
  <2> QED BY <1>1, <2>1 DEF JupyterInv, KernelInOrder, KernelConnected
<1>7. CASE m.cell # w
  <2>1. UNCHANGED <<waitingFor, gathered, cellAnswer>>
    BY <1>2, <1>3, <1>7 DEF Takes
  <2>2. CellTypeOK'
    BY <1>1, <1>4, <2>1 DEF CellTypeOK
  <2>3. DoneHasEnded' /\ OwnOutput' /\ OutputOrdered' /\ OutputWhole'
    BY <2>1 DEF JupyterInv, DoneHasEnded, CellEnded, OwnOutput, OutputOrdered, OwnOnly, OutputWhole
  <2> QED BY <1>4, <1>6, <2>2, <2>3 DEF JupyterInv
<1>8. CASE m.cell = w
  <2>1. cellAnswer' = Answer(w, "done", gathered) /\ waitingFor' = 0 /\ gathered' = <<>>
    BY <1>2, <1>3, <1>5, <1>8 DEF Takes, AnswersCell
  <2>2. drops' = 0 => \A i \in 1..Len(gathered) : gathered[i].nth = i
    BY <1>2 DEF JupyterInv, OutputWhole, Numbered
  <2>3. OwnOutput' /\ cellAnswer' \in KernelAnswer /\ cellAnswer'.cell = w
    <3>1. /\ \A i \in 1..Len(gathered) : gathered[i].cell = w
          /\ \A i, j \in 1..Len(gathered) : i < j => gathered[i].nth < gathered[j].nth
      BY <1>1, <1>2 DEF OwnOnly, Increasing
    <3> QED BY <1>1, <2>1, <2>2, <3>1, AnswerOwn
  <2>4. DoneHasEnded'
    BY <1>2, <1>5, <1>8, <2>3 DEF DoneHasEnded, CellEnded
  <2>5. CellTypeOK'
    BY <1>1, <1>4, <2>1, <2>3, EmptySeq DEF CellTypeOK
  <2>6. OutputOrdered' /\ OutputWhole'
    BY <2>1 DEF OutputOrdered, OutputWhole
  <2> QED BY <1>4, <1>6, <2>3, <2>4, <2>5, <2>6 DEF JupyterInv
<1> QED BY <1>7, <1>8

\* A message is read from either channel.
LEMMA ReadsMessageKeeps ==
  ASSUME JupyterInv, ReadsMessage PROVE JupyterInv'
<1>1. CASE ioChannel # <<>> /\ Takes(Head(ioChannel)) /\ ioChannel' = Tail(ioChannel) /\ UNCHANGED shellChannel
  BY <1>1, ReadsOutputKeeps DEF ReadsMessage
<1>2. CASE shellChannel # <<>> /\ Takes(Head(shellChannel)) /\ shellChannel' = Tail(shellChannel) /\ UNCHANGED ioChannel
  BY <1>2, ReadsReplyKeeps DEF ReadsMessage
<1> QED BY <1>1, <1>2 DEF ReadsMessage

\* What is put on a channel is of a cell the kernel took, a reply or an error of an ended one.
LEMMA ChannelsGrow ==
  ASSUME CellTypeOK, FromTaken, UNCHANGED ranCells,
         runningCell'.cell = runningCell.cell \/ runningCell'.cell = 0,
         NEW m \in KernelMsg, NEW r \in KernelMsg,
         \/ ioChannel' = ioChannel
         \/ /\ ioChannel' = Append(ioChannel, m) /\ m.cell <= Len(ranCells)
            /\ m.what # "print" => runningCell'.cell # m.cell,
         \/ shellChannel' = shellChannel
         \/ /\ shellChannel' = Append(shellChannel, r) /\ r.cell <= Len(ranCells)
            /\ r.what = "reply" /\ runningCell'.cell # r.cell
  PROVE  FromTaken' /\ ioChannel' \in Seq(KernelMsg) /\ shellChannel' \in Seq(KernelMsg)
<1>1. ioChannel \in Seq(KernelMsg) /\ shellChannel \in Seq(KernelMsg)
  BY DEF CellTypeOK
<1>2. ASSUME NEW s \in Seq(KernelMsg), NEW e \in KernelMsg
      PROVE  /\ Append(s, e) \in Seq(KernelMsg)
             /\ \A i \in 1..Len(Append(s, e)) : (i \in 1..Len(s) /\ Append(s, e)[i] = s[i]) \/ Append(s, e)[i] = e
  <2>1. /\ Append(s, e) \in Seq(KernelMsg) /\ Len(s) \in Nat /\ Len(Append(s, e)) = Len(s) + 1
        /\ \A i \in 1..Len(s) : Append(s, e)[i] = s[i]
        /\ Append(s, e)[Len(s) + 1] = e
    BY PutBehind
  <2>2. \A i \in 1..(Len(s) + 1) : i \in 1..Len(s) \/ i = Len(s) + 1
    BY <2>1
  <2> QED BY <2>1, <2>2
<1>3. /\ \A i \in 1..Len(ioChannel) : ioChannel[i].cell # 0
      /\ \A i \in 1..Len(shellChannel) : shellChannel[i].cell # 0
  <2>1. /\ \A i \in 1..Len(ioChannel) : ioChannel[i] \in KernelMsg
        /\ \A i \in 1..Len(shellChannel) : shellChannel[i] \in KernelMsg
    BY <1>1, ElementOfSeq
  <2> QED BY <2>1 DEF KernelMsg
<1>4. /\ ioChannel' \in Seq(KernelMsg)
      /\ \A i \in 1..Len(ioChannel') : /\ ioChannel'[i].cell <= Len(ranCells)
                                       /\ ioChannel'[i].what # "print" => runningCell'.cell # ioChannel'[i].cell
  <2>1. CASE ioChannel' = ioChannel
    BY <1>1, <1>3, <2>1 DEF FromTaken, CellEnded
  <2>2. CASE ioChannel' = Append(ioChannel, m) /\ m.cell <= Len(ranCells) /\ (m.what # "print" => runningCell'.cell # m.cell)
    <3>1. /\ ioChannel' \in Seq(KernelMsg)
          /\ \A i \in 1..Len(ioChannel') : (i \in 1..Len(ioChannel) /\ ioChannel'[i] = ioChannel[i]) \/ ioChannel'[i] = m
      BY <1>1, <1>2, <2>2
    <3> QED BY <1>3, <2>2, <3>1 DEF FromTaken, CellEnded
  <2> QED BY <2>1, <2>2
<1>5. /\ shellChannel' \in Seq(KernelMsg)
      /\ \A i \in 1..Len(shellChannel') : /\ shellChannel'[i].what = "reply" /\ shellChannel'[i].cell <= Len(ranCells)
                                          /\ runningCell'.cell # shellChannel'[i].cell
  <2>1. CASE shellChannel' = shellChannel
    BY <1>1, <1>3, <2>1 DEF FromTaken, CellEnded
  <2>2. CASE shellChannel' = Append(shellChannel, r) /\ r.cell <= Len(ranCells) /\ r.what = "reply" /\ runningCell'.cell # r.cell
    <3>1. /\ shellChannel' \in Seq(KernelMsg)
          /\ \A i \in 1..Len(shellChannel') : (i \in 1..Len(shellChannel) /\ shellChannel'[i] = shellChannel[i]) \/ shellChannel'[i] = r
      BY <1>1, <1>2, <2>2
    <3> QED BY <1>3, <2>2, <3>1 DEF FromTaken, CellEnded
  <2> QED BY <2>1, <2>2
<1> QED BY <1>4, <1>5 DEF FromTaken, CellEnded

\* The next output of the cell that runs.
LEMMA OutputGrows ==
  ASSUME JupyterInv, runningCell # NoCell, waitingFor > 0,
         NEW m \in KernelMsg, m.cell = runningCell.cell, m.nth = runningCell.prints + 1,
         ioChannel' = Append(ioChannel, m)
  PROVE  /\ Increasing(gathered, ioChannel', waitingFor)
         /\ (runningCell.cell = waitingFor => Below(gathered, ioChannel', waitingFor, runningCell.prints + 1))
         /\ (drops = 0 => \E t \in Nat : /\ Numbered(gathered, ioChannel', waitingFor, t)
                                         /\ (runningCell.cell = waitingFor => t = runningCell.prints + 1)
                                         /\ (waitingFor > Len(ranCells) => t = 0))
<1>1. /\ ioChannel \in Seq(KernelMsg) /\ gathered \in Seq(KernelMsg) /\ waitingFor \in Nat
      /\ Increasing(gathered, ioChannel, waitingFor)
      /\ (runningCell.cell = waitingFor => Below(gathered, ioChannel, waitingFor, runningCell.prints))
  BY DEF JupyterInv, CellTypeOK, OutputOrdered
<1>2. PICK p \in Nat, r \in Nat, w \in Nat : p = runningCell.prints /\ r = Len(ranCells) /\ w = waitingFor
  BY LenProperties DEF JupyterInv, CellTypeOK
<1>3. /\ runningCell.cell = r /\ w >= r /\ p + 1 \in Nat /\ p < p + 1
  <2>1. PICK k \in Nat : k = Len(kernelQueue)
    BY LenProperties DEF JupyterInv, CellTypeOK
  <2>2. runningCell.cell = r /\ w = r + k
    BY <1>2, <2>1 DEF JupyterInv, KernelInOrder
  <2>3. w >= r /\ p + 1 \in Nat /\ p < p + 1
    BY <1>2, <2>1, <2>2
  <2> QED BY <2>2, <2>3
<1>4. m.nth = p + 1 /\ m.cell = r
  BY <1>2, <1>3
<1>5. Increasing(gathered, Append(ioChannel, m), w) /\ (m.cell = w => Below(gathered, Append(ioChannel, m), w, m.nth))
  <2>1. m.cell = w => Below(gathered, ioChannel, w, p) /\ p < m.nth
    BY <1>1, <1>2, <1>3, <1>4
  <2> QED BY <1>1, <1>2, <2>1, SentInOrder
<1>6. ASSUME drops = 0
      PROVE  \E t \in Nat : /\ Numbered(gathered, ioChannel', w, t)
                            /\ (runningCell.cell = w => t = p + 1)
                            /\ (w > r => t = 0)
  <2>1. PICK t \in Nat : /\ Numbered(gathered, ioChannel, w, t) /\ (runningCell.cell = w => t = p)
                         /\ (w > r => t = 0)
    BY <1>2, <1>6 DEF JupyterInv, OutputWhole
  <2>2. /\ ((m.cell = w /\ m.nth = t + 1) => Numbered(gathered, Append(ioChannel, m), w, t + 1))
        /\ ((m.cell # w /\ t = 0) => Numbered(gathered, Append(ioChannel, m), w, 0))
    BY <1>1, <2>1, SentNumbered
  <2>3. CASE w = r
    <3>1. Numbered(gathered, ioChannel', w, p + 1)
      BY <1>3, <1>4, <2>1, <2>2, <2>3
    <3>2. ~(w > r)
      BY <1>2, <2>3
    <3> QED BY <1>3, <3>1, <3>2
  <2>4. CASE w # r
    <3>1. w > r
      BY <1>2, <1>3, <2>4
    <3>2. t = 0
      BY <2>1, <3>1
    <3>3. Numbered(gathered, ioChannel', w, 0)
      BY <1>4, <2>2, <2>4, <3>2
    <3> QED BY <1>3, <2>4, <3>3
  <2> QED BY <2>3, <2>4
<1> QED BY <1>2, <1>3, <1>4, <1>5, <1>6

\* No connection was lost: the kernel is heard.
LEMMA Heard ==
  ASSUME JupyterInv, waitingFor > 0, drops = 0
  PROVE  socket = "up"
  BY DEF JupyterInv, CellTypeOK, KernelInOrder, KernelConnected

\* What the kernel emits is put behind what is on the way.
LEMMA EmitsBehind ==
  ASSUME NEW s \in Seq(KernelMsg), NEW e \in KernelMsg
  PROVE  s \o <<e>> = Append(s, e) /\ s \o <<>> = s
  BY AppendIsConcat, ConcatEmptySeq

\* The cell prints.
LEMMA KernelPrintsKeeps ==
  ASSUME JupyterInv, KernelPrints PROVE JupyterInv'
<1>1. PICK c \in Nat, p \in Nat : c = runningCell.cell /\ p = runningCell.prints
  BY DEF JupyterInv, CellTypeOK
<1>2. PICK m \in KernelMsg : m = Msg(c, "print", p + 1) /\ m.cell = c /\ m.what = "print" /\ m.nth = p + 1
  <2>1. c > 0 /\ p + 1 \in Nat
    BY <1>1 DEF JupyterInv, KernelInOrder, KernelPrints
  <2>2. PICK m : m = [cell |-> c, what |-> "print", nth |-> p + 1]
    OBVIOUS
  <2> QED BY <2>1, <2>2 DEF Msg, KernelMsg
<1>3. /\ runningCell # NoCell /\ runningCell' = [runningCell EXCEPT !.prints = p + 1]
      /\ Emits(<<m>>, <<>>)
      /\ UNCHANGED <<kernelQueue, ranCells, socket, waitingFor, gathered, cellAnswer, cellsSent, drops>>
  BY <1>1, <1>2 DEF KernelPrints, clientVars
<1>4. /\ runningCell' \in [cell : Nat, prints : Nat] /\ runningCell'.cell = c /\ runningCell'.prints = p + 1
  BY <1>1, <1>3 DEF JupyterInv, CellTypeOK
<1>5. /\ shellChannel' = shellChannel
      /\ (socket = "up" => ioChannel' = Append(ioChannel, m))
      /\ (socket # "up" => ioChannel' = ioChannel)
  BY <1>3, EmitsBehind DEF Emits, JupyterInv, CellTypeOK
<1>6. c = Len(ranCells) /\ Len(ranCells) \in Nat
  BY <1>1, <1>3, LenProperties DEF JupyterInv, KernelInOrder, CellTypeOK
<1>7. FromTaken' /\ ioChannel' \in Seq(KernelMsg) /\ shellChannel' \in Seq(KernelMsg)
  <2>1. m.cell <= Len(ranCells)
    BY <1>2, <1>6
  <2>2. runningCell'.cell = runningCell.cell
    BY <1>1, <1>4
  <2> QED BY <1>2, <1>3, <1>5, <2>1, <2>2, ChannelsGrow DEF JupyterInv
<1>8. CellTypeOK'
  BY <1>3, <1>4, <1>7 DEF JupyterInv, CellTypeOK
<1>9. KernelInOrder' /\ DoneHasEnded' /\ KernelConnected' /\ OwnOutput'
  <2>1. c > 0
    BY <1>1, <1>3 DEF JupyterInv, KernelInOrder
  <2> QED BY <1>1, <1>3, <1>4, <1>6, <2>1 DEF JupyterInv, KernelInOrder, DoneHasEnded, CellEnded, KernelConnected, OwnOutput
<1>10. ASSUME waitingFor > 0, socket = "up" PROVE OutputOrdered' /\ OutputWhole'
  <2>1. /\ Increasing(gathered, ioChannel', waitingFor)
        /\ (c = waitingFor => Below(gathered, ioChannel', waitingFor, p + 1))
        /\ (drops = 0 => \E t \in Nat : /\ Numbered(gathered, ioChannel', waitingFor, t)
                                        /\ (c = waitingFor => t = p + 1)
                                        /\ (waitingFor > Len(ranCells) => t = 0))
    BY <1>1, <1>2, <1>3, <1>5, <1>10, OutputGrows
  <2> QED BY <1>3, <1>4, <1>10, <2>1 DEF JupyterInv, OutputOrdered, OutputWhole, OwnOnly
<1>11. ASSUME waitingFor > 0, socket # "up" PROVE OutputOrdered' /\ OutputWhole'
  <2>1. drops # 0
    BY <1>11, Heard
  <2>2. c = waitingFor => Below(gathered, ioChannel, waitingFor, p + 1)
    <3> SUFFICES ASSUME c = waitingFor PROVE Below(gathered, ioChannel, waitingFor, p + 1)
      OBVIOUS
    <3>1. Below(gathered, ioChannel, waitingFor, p)
      BY <1>1, <1>11 DEF JupyterInv, OutputOrdered
    <3>2. /\ \A i \in 1..Len(gathered) : gathered[i] \in KernelMsg
          /\ \A i \in 1..Len(ioChannel) : ioChannel[i] \in KernelMsg
      BY ElementOfSeq DEF JupyterInv, CellTypeOK
    <3>3. \A n \in Nat : n <= p => n <= p + 1
      BY <1>1
    <3> QED BY <3>1, <3>2, <3>3 DEF Below, KernelMsg
  <2> QED BY <1>3, <1>4, <1>1, <1>5, <1>11, <2>1, <2>2 DEF JupyterInv, OutputOrdered, OutputWhole, OwnOnly
<1>12. ~(waitingFor > 0) => OutputOrdered' /\ OutputWhole'
  BY <1>3 DEF OutputOrdered, OutputWhole
<1> QED BY <1>7, <1>8, <1>9, <1>10, <1>11, <1>12 DEF JupyterInv

\* The cell ends, with an error or without.
LEMMA KernelEndsKeeps ==
  ASSUME JupyterInv, NEW raised \in BOOLEAN, KernelEnds(raised) PROVE JupyterInv'
<1>1. PICK c \in Nat, p \in Nat : c = runningCell.cell /\ p = runningCell.prints
  BY DEF JupyterInv, CellTypeOK
<1>2. runningCell # NoCell /\ c > 0 /\ c = Len(ranCells) /\ Len(ranCells) \in Nat /\ p + 1 \in Nat /\ 0 \in Nat
  BY <1>1, LenProperties DEF JupyterInv, KernelInOrder, CellTypeOK, KernelEnds
<1>3. PICK m \in KernelMsg : m = Msg(c, "error", p + 1) /\ m.cell = c /\ m.what = "error" /\ m.nth = p + 1
  <2>1. PICK e : e = [cell |-> c, what |-> "error", nth |-> p + 1]
    OBVIOUS
  <2> QED BY <1>2, <2>1 DEF Msg, KernelMsg
<1>4. PICK r \in KernelMsg : r = Msg(c, "reply", 0) /\ r.cell = c /\ r.what = "reply"
  <2>1. PICK e : e = [cell |-> c, what |-> "reply", nth |-> 0]
    OBVIOUS
  <2> QED BY <1>2, <2>1 DEF Msg, KernelMsg
<1>5. /\ runningCell' = NoCell /\ Emits(IF raised THEN <<m>> ELSE <<>>, <<r>>)
      /\ UNCHANGED <<kernelQueue, ranCells, socket, waitingFor, gathered, cellAnswer, cellsSent, drops>>
  BY <1>1, <1>3, <1>4 DEF KernelEnds, clientVars
<1>6. runningCell' \in [cell : Nat, prints : Nat] /\ runningCell'.cell = 0
  BY <1>5 DEF NoCell
<1>7. /\ (shellChannel' = shellChannel \/ shellChannel' = Append(shellChannel, r))
      /\ (ioChannel' = ioChannel \/ (socket = "up" /\ ioChannel' = Append(ioChannel, m)))
  <2>1. ioChannel \in Seq(KernelMsg) /\ shellChannel \in Seq(KernelMsg)
    BY DEF JupyterInv, CellTypeOK
  <2>2. ioChannel \o <<m>> = Append(ioChannel, m) /\ ioChannel \o <<>> = ioChannel
    BY <2>1, EmitsBehind
  <2>3. shellChannel \o <<r>> = Append(shellChannel, r)
    BY <2>1, EmitsBehind
  <2> QED BY <1>5, <2>2, <2>3 DEF Emits
<1>8. FromTaken' /\ ioChannel' \in Seq(KernelMsg) /\ shellChannel' \in Seq(KernelMsg)
  <2>1. m.cell <= Len(ranCells) /\ r.cell <= Len(ranCells) /\ m.cell # 0 /\ r.cell # 0
    BY <1>2, <1>3, <1>4
  <2> QED BY <1>4, <1>5, <1>6, <1>7, <2>1, ChannelsGrow DEF JupyterInv
<1>9. CellTypeOK'
  BY <1>5, <1>6, <1>8 DEF JupyterInv, CellTypeOK
<1>10. KernelInOrder' /\ DoneHasEnded' /\ KernelConnected' /\ OwnOutput'
  <2>1. cellAnswer.how = "done" => cellAnswer.cell > 0 /\ cellAnswer.cell # 0 /\ cellAnswer.cell <= Len(ranCells)
    BY DEF JupyterInv, DoneHasEnded, CellEnded
  <2>2. DoneHasEnded'
    BY <1>5, <1>6, <2>1 DEF DoneHasEnded, CellEnded
  <2> QED BY <1>5, <2>2 DEF JupyterInv, KernelInOrder, KernelConnected, OwnOutput
<1>11. ASSUME waitingFor > 0 PROVE OutputOrdered' /\ OutputWhole'
  <2>1. runningCell'.cell # waitingFor
    BY <1>6, <1>11
  <2>2. /\ Increasing(gathered, ioChannel', waitingFor)
        /\ (drops = 0 => \E t \in Nat : /\ Numbered(gathered, ioChannel', waitingFor, t)
                                        /\ (waitingFor > Len(ranCells) => t = 0))
    <3>1. CASE ioChannel' = Append(ioChannel, m)
      BY <1>1, <1>2, <1>3, <1>11, <3>1, OutputGrows
    <3>2. CASE ioChannel' = ioChannel
      BY <1>11, <3>2 DEF JupyterInv, OutputOrdered, OutputWhole
    <3> QED BY <1>7, <3>1, <3>2
  <2> QED BY <1>5, <1>11, <2>1, <2>2 DEF JupyterInv, OutputOrdered, OutputWhole, OwnOnly
<1>12. ~(waitingFor > 0) => OutputOrdered' /\ OutputWhole'
  BY <1>5 DEF OutputOrdered, OutputWhole
<1> QED BY <1>8, <1>9, <1>10, <1>11, <1>12 DEF JupyterInv

\* The time is up: the kernel is interrupted.
LEMMA CellTimesOutKeeps ==
  ASSUME JupyterInv, CellTimesOut PROVE JupyterInv'
<1>1. PICK w \in Nat : w = waitingFor
  BY DEF JupyterInv, CellTypeOK
<1>2. /\ waitingFor' = 0 /\ gathered' = <<>> /\ cellAnswer' = Answer(w, "timeout", <<>>)
      /\ UNCHANGED <<socket, kernelQueue, ranCells, cellsSent, drops>>
  BY <1>1 DEF CellTimesOut, AnswersCell
<1>3. OwnOutput' /\ cellAnswer' \in KernelAnswer /\ cellAnswer'.how = "timeout"
  BY <1>2, AnswerEmpty
<1>4. /\ FromTaken' /\ ioChannel' \in Seq(KernelMsg) /\ shellChannel' \in Seq(KernelMsg)
      /\ runningCell' \in [cell : Nat, prints : Nat]
      /\ (runningCell' = runningCell \/ runningCell' = NoCell)
  <2>1. CASE UNCHANGED <<runningCell, ioChannel, shellChannel>>
    BY <1>2, <2>1 DEF JupyterInv, FromTaken, CellEnded, CellTypeOK
  <2>2. CASE /\ runningCell # NoCell /\ runningCell' = NoCell
             /\ IF socket = "up" THEN /\ ioChannel' = Append(ioChannel, Msg(runningCell.cell, "error", 0))
                                      /\ shellChannel' = Append(shellChannel, Msg(runningCell.cell, "reply", 0))
                ELSE UNCHANGED <<ioChannel, shellChannel>>
    <3>1. PICK c \in Nat : c = runningCell.cell
      BY DEF JupyterInv, CellTypeOK
    <3>2. c > 0 /\ c = Len(ranCells) /\ Len(ranCells) \in Nat /\ 0 \in Nat
      BY <2>2, <3>1, LenProperties DEF JupyterInv, KernelInOrder, CellTypeOK
    <3>3. PICK m \in KernelMsg : m = Msg(c, "error", 0) /\ m.cell = c /\ m.what = "error"
      <4>1. PICK e : e = [cell |-> c, what |-> "error", nth |-> 0]
        OBVIOUS
      <4> QED BY <3>2, <4>1 DEF Msg, KernelMsg
    <3>4. PICK r \in KernelMsg : r = Msg(c, "reply", 0) /\ r.cell = c /\ r.what = "reply"
      <4>1. PICK e : e = [cell |-> c, what |-> "reply", nth |-> 0]
        OBVIOUS
      <4> QED BY <3>2, <4>1 DEF Msg, KernelMsg
    <3>5. runningCell' \in [cell : Nat, prints : Nat] /\ runningCell'.cell = 0
      BY <2>2 DEF NoCell
    <3>6. /\ (shellChannel' = shellChannel \/ shellChannel' = Append(shellChannel, r))
          /\ (ioChannel' = ioChannel \/ ioChannel' = Append(ioChannel, m))
      BY <2>2, <3>1, <3>3, <3>4
    <3>7. m.cell <= Len(ranCells) /\ r.cell <= Len(ranCells) /\ m.cell # 0 /\ r.cell # 0
      BY <3>2, <3>3, <3>4
    <3>8. FromTaken' /\ ioChannel' \in Seq(KernelMsg) /\ shellChannel' \in Seq(KernelMsg)
      BY <1>2, <3>4, <3>5, <3>6, <3>7, ChannelsGrow DEF JupyterInv
    <3> QED BY <2>2, <3>5, <3>8
  <2> QED BY <2>1, <2>2 DEF CellTimesOut
<1>5. CellTypeOK'
  BY <1>2, <1>3, <1>4, EmptySeq DEF JupyterInv, CellTypeOK
<1>6. KernelInOrder' /\ KernelConnected' /\ DoneHasEnded' /\ OutputOrdered' /\ OutputWhole'
  BY <1>2, <1>3, <1>4 DEF JupyterInv, KernelInOrder, KernelConnected, DoneHasEnded, OutputOrdered, OutputWhole
<1> QED BY <1>3, <1>4, <1>5, <1>6 DEF JupyterInv

\* The kernel takes the next cell.
LEMMA KernelTakesKeeps ==
  ASSUME JupyterInv, KernelTakes PROVE JupyterInv'
<1>1. /\ CellTypeOK /\ KernelInOrder /\ FromTaken /\ kernelQueue \in Seq(Nat) /\ ranCells \in Seq(Nat)
      /\ kernelQueue # <<>> /\ ioChannel \in Seq(KernelMsg)
  BY DEF JupyterInv, CellTypeOK, KernelTakes
<1>2. PICK h \in Nat, q \in Seq(Nat), r \in Nat, l \in Nat, s \in Nat :
        /\ h = Head(kernelQueue) /\ h = kernelQueue[1] /\ q = Tail(kernelQueue) /\ r = Len(ranCells)
        /\ l = Len(q) /\ Len(kernelQueue) = l + 1 /\ s = cellsSent
        /\ \A i \in 1..l : q[i] = kernelQueue[i + 1]
  <2>1. /\ Head(kernelQueue) \in Nat /\ Head(kernelQueue) = kernelQueue[1] /\ Tail(kernelQueue) \in Seq(Nat)
        /\ Len(Tail(kernelQueue)) \in Nat /\ Len(kernelQueue) \in Nat
        /\ Len(Tail(kernelQueue)) = Len(kernelQueue) - 1
        /\ \A i \in 1..Len(Tail(kernelQueue)) : Tail(kernelQueue)[i] = kernelQueue[i + 1]
    BY <1>1, HeadTaken
  <2>2. Len(kernelQueue) = Len(Tail(kernelQueue)) + 1
    BY <2>1
  <2>3. Len(ranCells) \in Nat /\ cellsSent \in Nat
    BY <1>1, LenProperties DEF CellTypeOK
  <2> QED BY <2>1, <2>2, <2>3
<1>3. /\ r + (l + 1) = s /\ \A i \in 1..(l + 1) : kernelQueue[i] = r + i
      /\ ranCells = UpTo(r)
  BY <1>1, <1>2 DEF KernelInOrder
<1>4. h = r + 1 /\ r + 1 \in Nat /\ r + 1 > 0 /\ s > r /\ (r + 1) + l = s
  <2>1. 1 \in 1..(l + 1)
    BY <1>2
  <2>2. h = r + 1
    BY <1>2, <1>3, <2>1
  <2>3. r + 1 \in Nat /\ r + 1 > 0 /\ s > r /\ (r + 1) + l = s
    <3>1. r \in Nat /\ l \in Nat /\ s \in Nat /\ r + (l + 1) = s
      BY <1>2, <1>3
    <3> QED BY <3>1
  <2> QED BY <2>2, <2>3
<1>5. PICK x \in Seq(Nat) : x = Append(ranCells, h) /\ x = UpTo(r + 1) /\ Len(x) = r + 1
  <2>1. Append(UpTo(r), r + 1) = UpTo(r + 1)
    BY <1>2, OneMore
  <2>2. UpTo(r + 1) \in Seq(Nat) /\ Len(UpTo(r + 1)) = r + 1
    BY <1>4, OneMore
  <2> QED BY <1>3, <1>4, <2>1, <2>2
<1>6. PICK e \in [cell : Nat, prints : Nat] : e = [cell |-> h, prints |-> 0] /\ e.cell = h /\ e.prints = 0
  <2>1. PICK e : e = [cell |-> h, prints |-> 0]
    OBVIOUS
  <2>2. e \in [cell : Nat, prints : Nat] /\ e.cell = h /\ e.prints = 0
    BY <1>2, <2>1
  <2> QED BY <2>1, <2>2
<1>7. /\ runningCell' = e /\ kernelQueue' = q /\ ranCells' = x
      /\ UNCHANGED <<ioChannel, shellChannel, socket, waitingFor, gathered, cellAnswer, cellsSent, drops>>
  BY <1>2, <1>5, <1>6 DEF KernelTakes, clientVars
<1>8. CellTypeOK'
  BY <1>1, <1>2, <1>5, <1>6, <1>7 DEF CellTypeOK
<1>9. KernelInOrder'
  <2>1. \A i \in 1..l : q[i] = (r + 1) + i
    <3> SUFFICES ASSUME NEW i \in 1..l PROVE q[i] = (r + 1) + i
      OBVIOUS
    <3>1. i + 1 \in 1..(l + 1) /\ r + (i + 1) = (r + 1) + i
      BY <1>2
    <3> QED BY <1>2, <1>3, <3>1
  <2>2. Len(ranCells') = r + 1 /\ Len(kernelQueue') = l /\ cellsSent' = s /\ runningCell'.cell = r + 1
    BY <1>2, <1>4, <1>5, <1>6, <1>7
  <2>3. waitingFor' > 0 => waitingFor' = cellsSent'
    BY <1>1, <1>7 DEF KernelInOrder
  <2> QED BY <1>4, <1>5, <1>7, <2>1, <2>2, <2>3 DEF KernelInOrder
<1>10. \A c \in Nat : c <= r => c <= r + 1 /\ r + 1 # c
  BY <1>2
<1>11. Len(ranCells') = r + 1 /\ runningCell'.cell = r + 1
  BY <1>4, <1>5, <1>6, <1>7
<1>12. FromTaken'
  <2>1. /\ \A i \in 1..Len(ioChannel) : ioChannel[i] \in KernelMsg
        /\ \A i \in 1..Len(shellChannel) : shellChannel[i] \in KernelMsg
    BY ElementOfSeq DEF JupyterInv, CellTypeOK
  <2>2. /\ \A i \in 1..Len(ioChannel) : ioChannel[i].cell \in Nat
        /\ \A i \in 1..Len(shellChannel) : shellChannel[i].cell \in Nat
    BY <2>1 DEF KernelMsg
  <2> QED BY <1>1, <1>2, <1>7, <1>10, <1>11, <2>2 DEF FromTaken, CellEnded
<1>13. DoneHasEnded'
  <2>1. cellAnswer.cell \in Nat
    BY <1>1 DEF CellTypeOK, KernelAnswer
  <2> QED BY <1>2, <1>7, <1>10, <1>11, <2>1 DEF JupyterInv, DoneHasEnded, CellEnded
<1>14. ASSUME waitingFor > 0 PROVE OutputOrdered' /\ OutputWhole'
  <2>1. waitingFor = s
    BY <1>1, <1>2, <1>14 DEF KernelInOrder
  <2>2. gathered = <<>> /\ Increasing(gathered, ioChannel, s) /\ OwnOnly
    BY <1>2, <1>4, <1>14, <2>1 DEF JupyterInv, OutputOrdered
  <2>3. \A i \in 1..Len(ioChannel) : ioChannel[i].cell # s
    <3> SUFFICES ASSUME NEW i \in 1..Len(ioChannel) PROVE ioChannel[i].cell # s
      OBVIOUS
    <3>1. ioChannel[i].cell <= r
      BY <1>1, <1>2 DEF FromTaken
    <3> QED BY <1>2, <1>4, <3>1
  <2>4. Below(<<>>, ioChannel, s, 0) /\ Numbered(<<>>, ioChannel, s, 0)
    BY <1>1, <1>2, <2>3, NothingOfIt
  <2>5. runningCell'.prints = 0
    BY <1>6, <1>7
  <2>6. OutputOrdered'
    BY <1>7, <2>1, <2>2, <2>4, <2>5 DEF OutputOrdered, OwnOnly
  <2>7. OutputWhole'
    BY <1>7, <2>1, <2>2, <2>4, <2>5 DEF OutputWhole
  <2> QED BY <2>6, <2>7
<1>15. ~(waitingFor > 0) => OutputOrdered' /\ OutputWhole'
  BY <1>7 DEF OutputOrdered, OutputWhole
<1>16. KernelConnected' /\ OwnOutput'
  BY <1>7 DEF JupyterInv, KernelConnected, OwnOutput
<1> QED BY <1>8, <1>9, <1>12, <1>13, <1>14, <1>15, <1>16 DEF JupyterInv

\* Every step of the kernel part keeps the invariant.
LEMMA JupyterSteps == JupyterInv /\ JupyterNext => JupyterInv'
  BY ConnectsKeep, SendsCellKeeps, ReadsMessageKeeps, CellTimesOutKeeps, SocketLostKeeps,
     KernelTakesKeeps, KernelPrintsKeeps, KernelEndsKeeps DEF JupyterNext

\* So does a step of another part.
LEMMA JupyterFrame == JupyterInv /\ UNCHANGED jupyterVars => JupyterInv'
  BY DEF JupyterInv, CellTypeOK, KernelInOrder, FromTaken, CellEnded, DoneHasEnded, OutputOrdered, OwnOnly,
         OutputWhole, KernelConnected, OwnOutput, jupyterVars

\* The invariant gives what the run checks.
LEMMA JupyterTells == JupyterInv => CellsAnswered
<1> SUFFICES ASSUME JupyterInv PROVE CellsAnswered
  OBVIOUS
<1>1. PICK r \in Nat : r = Len(ranCells) /\ ranCells = UpTo(r)
  BY LenProperties DEF JupyterInv, CellTypeOK, KernelInOrder
<1>2. CellsOnce
  BY <1>1 DEF CellsOnce, UpTo
<1>3. EndsFirst
  <2> SUFFICES ASSUME cellAnswer.how = "done"
               PROVE  /\ runningCell.cell # cellAnswer.cell
                      /\ \A i \in DOMAIN kernelQueue : kernelQueue[i] # cellAnswer.cell
    BY DEF EndsFirst
  <2>1. PICK c \in Nat : c = cellAnswer.cell
    BY DEF JupyterInv, CellTypeOK, KernelAnswer
  <2>2. c <= r /\ runningCell.cell # c
    BY <1>1, <2>1 DEF JupyterInv, DoneHasEnded, CellEnded
  <2>3. DOMAIN kernelQueue = 1..Len(kernelQueue) /\ Len(kernelQueue) \in Nat
    BY LenProperties DEF JupyterInv, CellTypeOK
  <2>4. \A i \in 1..Len(kernelQueue) : kernelQueue[i] = r + i
    BY <1>1 DEF JupyterInv, KernelInOrder
  <2>5. \A i \in 1..Len(kernelQueue) : r + i # c
    BY <1>1, <2>1, <2>2, <2>3
  <2> QED BY <2>1, <2>2, <2>3, <2>4, <2>5
<1> QED BY <1>2, <1>3 DEF JupyterInv, CellsAnswered

-----------------------------------------------------------------------------
(* The window on a file.                                                     *)

\* The lines a window shows, of a file this long, and how many it was asked for.
Windows == [from : Int, to : Int, of : Int, width : Int]

\* What a window printed around or from a line is.
GoodWindow(w, line) ==
  /\ 1 <= w.from /\ w.from <= w.to /\ w.to <= w.of /\ w.to - w.from <= w.width + 1
  /\ (w.width > 1 => line \in (w.from - 1)..w.to)

\* Opened whole at the top and scrolled down: at the end, or all seen and the line within reach.
SeenFromTop ==
  /\ fileLen >= 1 /\ window.of = fileLen /\ window.to >= 1 /\ window.to <= fileLen
  /\ (1..window.to) \ seenLines \subseteq {fileLen - Window}
  /\ (window.to = fileLen => curLine + 2 * Window >= fileLen)
  /\ (window.to # fileLen => ((1..window.to) \subseteq seenLines /\ curLine + Window - 1 <= window.to))

\* The kinds of values of the window part.
WindowTypeOK ==
  /\ fileLen \in Nat /\ curLine \in Int /\ curLine >= 1 /\ window \in Windows /\ fromTop \in BOOLEAN

\* The inductive invariant of the window part.
WindowInv ==
  /\ WindowTypeOK
  /\ (window # NoWindow => GoodWindow(window, curLine))
  /\ (fromTop = TRUE => SeenFromTop)

\* At first no window is open.
LEMMA WindowStarts == WindowInit => WindowInv
<1> SUFFICES ASSUME WindowInit PROVE WindowInv
  OBVIOUS
<1>1. fileLen \in Nat
  BY WindowAssumption DEF WindowInit
<1>2. NoWindow \in Windows
  BY DEF NoWindow, Windows
<1>3. curLine = 1 /\ window = NoWindow /\ fromTop = FALSE
  BY DEF WindowInit
<1>4. WindowTypeOK
  <2>1. curLine \in Int /\ curLine >= 1
    BY <1>3
  <2>2. window \in Windows /\ fromTop \in BOOLEAN
    BY <1>2, <1>3
  <2> QED BY <1>1, <2>1, <2>2 DEF WindowTypeOK
<1> QED BY <1>3, <1>4 DEF WindowInv

\* What _print_window shows of a file.
LEMMA ShowsWindow ==
  ASSUME NEW line \in Int, NEW width \in Int, NEW scrolling \in BOOLEAN,
         fileLen \in Nat, 1 <= line, line <= fileLen, width >= 1
  PROVE  LET w == ShownWindow(line, width, scrolling)
         IN  /\ w \in Windows /\ w.of = fileLen /\ w.width = width /\ GoodWindow(w, line)
<1> DEFINE half == Larger(1, width \div 2)
           from0 == IF scrolling THEN line ELSE Larger(1, line - half)
           to0 == IF scrolling THEN Smaller(fileLen, line + width) ELSE Smaller(fileLen, line + half)
           to == IF from0 = 1 THEN Smaller(fileLen, width) ELSE to0
           from == IF to = fileLen THEN Larger(1, to - width + 1) ELSE from0
           w == ShownWindow(line, width, scrolling)
<1>1. w = [from |-> from, to |-> to, of |-> fileLen, width |-> width]
  BY DEF ShownWindow
<1>2. PICK d \in Int : d = width \div 2 /\ 2 * d <= width /\ width < 2 * d + 2 /\ d >= 0
  <2>1. width \div 2 \in Int /\ 2 * (width \div 2) <= width /\ width < 2 * (width \div 2) + 2 /\ width \div 2 >= 0
    OBVIOUS
  <2> QED BY <2>1
<1>3. PICK h \in Int : h = half /\ h >= 1 /\ (width > 1 => 2 * h <= width) /\ (width = 1 => h = 1)
  BY <1>2 DEF Larger
<1>4. PICK f \in Int : f = from0 /\ f = IF scrolling THEN line ELSE IF 1 < line - h THEN line - h ELSE 1
  BY <1>3 DEF Larger
<1>5. PICK s \in Int : /\ s = to0
                       /\ s = IF scrolling THEN (IF fileLen < line + width THEN fileLen ELSE line + width)
                              ELSE (IF fileLen < line + h THEN fileLen ELSE line + h)
  BY <1>3 DEF Smaller
<1>6. PICK t \in Int : t = to /\ t = IF f = 1 THEN (IF fileLen < width THEN fileLen ELSE width) ELSE s
  BY <1>4, <1>5 DEF Smaller
<1>7. PICK g \in Int : g = from /\ g = IF t = fileLen THEN (IF 1 < t - width + 1 THEN t - width + 1 ELSE 1) ELSE f
  BY <1>4, <1>6 DEF Larger
<1>8. w = [from |-> g, to |-> t, of |-> fileLen, width |-> width]
  BY <1>1, <1>6, <1>7
<1> HIDE DEF half, from0, to0, to, from, w
<1>9. w \in Windows /\ w.from = g /\ w.to = t /\ w.of = fileLen /\ w.width = width
  BY <1>8 DEF Windows
<1>10. 1 <= g /\ g <= t /\ t <= fileLen
  BY <1>3, <1>4, <1>5, <1>6, <1>7
<1>11. t - g <= width + 1
  BY <1>3, <1>4, <1>5, <1>6, <1>7
<1>12. width > 1 => (g - 1 <= line /\ line <= t)
  BY <1>3, <1>4, <1>5, <1>6, <1>7
<1>13. GoodWindow(w, line)
  BY <1>9, <1>10, <1>11, <1>12 DEF GoodWindow
<1> QED BY <1>9, <1>13 DEF w

\* A line that was asked for is clamped into the file.
LEMMA ClampsInto ==
  ASSUME NEW n \in Int, NEW high \in Nat, high >= 1
  PROVE  /\ Clamp(n, 1, high) \in Int /\ 1 <= Clamp(n, 1, high) /\ Clamp(n, 1, high) <= high
         /\ ((n >= 1 /\ n <= high) => Clamp(n, 1, high) = n)
         /\ (n > high => Clamp(n, 1, high) = high)
  BY DEF Clamp, Larger, Smaller

\* The window that scrolling shows.
LEMMA ScrollsTo ==
  ASSUME NEW line \in Int, fileLen \in Nat, 1 <= line, line <= fileLen
  PROVE  LET w == ShownWindow(line, Window, TRUE)
         IN  /\ (line # 1 => (/\ w.to = IF fileLen < line + Window THEN fileLen ELSE line + Window
                              /\ (w.to # fileLen => w.from = line)))
             /\ (line = 1 => (/\ w.to = IF fileLen < Window THEN fileLen ELSE Window
                              /\ (w.to # fileLen => w.from = 1)))
             /\ (w.to = fileLen => w.from = IF 1 < fileLen - Window + 1 THEN fileLen - Window + 1 ELSE 1)
  BY WindowAssumption DEF ShownWindow, Larger, Smaller

\* Opening a file around a line or at its top.
LEMMA OpenFileKeeps ==
  ASSUME WindowInv, NEW line \in Nat, NEW context \in Contexts, OpenFile(line, context)
  PROVE  WindowInv'
<1>1. fileLen' = fileLen /\ fileLen \in Nat /\ fileLen > 0 /\ context \in Int /\ context >= 1
  BY WindowAssumption DEF OpenFile, WindowMoves, WindowInv, WindowTypeOK
<1>2. CASE line \notin 1..fileLen
  BY <1>1, <1>2 DEF OpenFile, WindowInv, WindowTypeOK
<1>3. CASE line \in 1..fileLen
  <2>1. line \in Int /\ 1 <= line /\ line <= fileLen
    BY <1>1, <1>3
  <2> DEFINE w == ShownWindow(line, context, FALSE)
  <2>2. w \in Windows /\ w.of = fileLen /\ w.width = context /\ GoodWindow(w, line)
    BY <1>1, <2>1, ShowsWindow
  <2>3. /\ curLine' = line /\ window' = w /\ fromTop' = (line = 1 /\ context = Window)
        /\ seenLines' = (IF fromTop' THEN window'.from..window'.to ELSE {})
    BY <1>3 DEF OpenFile
  <2>4. ASSUME line = 1, context = Window
        PROVE  /\ w.from = 1 /\ w.to = IF fileLen < Window THEN fileLen ELSE Window
    BY <1>1, <2>4, WindowAssumption DEF ShownWindow, Larger, Smaller
  <2> HIDE DEF w
  <2>5. WindowTypeOK'
    BY <1>1, <2>1, <2>2, <2>3 DEF WindowTypeOK
  <2>6. fromTop' = TRUE => SeenFromTop'
    <3> SUFFICES ASSUME line = 1, context = Window PROVE SeenFromTop'
      BY <2>3
    <3>1. fromTop' = TRUE /\ seenLines' = 1..w.to
      BY <2>3, <2>4
    <3>2. PICK t \in Int : t = w.to /\ t = IF fileLen < Window THEN fileLen ELSE Window
      BY <1>1, <2>4, WindowAssumption
    <3>3. (1..t) \ seenLines' = {} /\ (1..t) \subseteq seenLines'
      BY <3>1, <3>2
    <3>4. /\ fileLen >= 1 /\ t >= 1 /\ t <= fileLen
          /\ (t = fileLen => 1 + 2 * Window >= fileLen) /\ (t # fileLen => 1 + Window - 1 <= t)
      BY <1>1, <3>2, WindowAssumption
    <3> QED BY <1>1, <2>2, <2>3, <3>2, <3>3, <3>4 DEF SeenFromTop
  <2> QED BY <2>2, <2>3, <2>5, <2>6 DEF WindowInv
<1> QED BY <1>2, <1>3

\* Going to a line.
LEMMA GotoLineKeeps ==
  ASSUME WindowInv, NEW line \in Nat, GotoLine(line)
  PROVE  WindowInv'
<1>1. fileLen' = fileLen /\ fileLen \in Nat /\ line \in 1..fileLen /\ fromTop' = FALSE
  BY DEF GotoLine, WindowMoves, WindowInv, WindowTypeOK
<1>2. line \in Int /\ 1 <= line /\ line <= fileLen /\ Window \in Int /\ Window >= 1
  BY <1>1, WindowAssumption
<1> DEFINE w == ShownWindow(line, Window, FALSE)
<1>3. w \in Windows /\ GoodWindow(w, line)
  BY <1>1, <1>2, ShowsWindow
<1>4. curLine' = line /\ window' = w
  BY DEF GotoLine, PrintsWindow
<1> HIDE DEF w
<1> QED BY <1>1, <1>2, <1>3, <1>4 DEF WindowInv, WindowTypeOK

\* Scrolling up.
LEMMA ScrollUpKeeps ==
  ASSUME WindowInv, ScrollUp
  PROVE  WindowInv'
<1>1. fileLen' = fileLen /\ fileLen \in Nat /\ fileLen >= 1 /\ fromTop' = FALSE /\ curLine \in Int
  BY DEF ScrollUp, WindowMoves, WindowInv, WindowTypeOK
<1>2. PICK line \in Int : line = Clamp(curLine - Window, 1, fileLen) /\ 1 <= line /\ line <= fileLen
  <2>1. curLine - Window \in Int
    BY <1>1, WindowAssumption
  <2> QED BY <1>1, <2>1, ClampsInto
<1>3. Window \in Int /\ Window >= 1
  BY WindowAssumption
<1> DEFINE w == ShownWindow(line, Window, TRUE)
<1>4. w \in Windows /\ GoodWindow(w, line)
  BY <1>1, <1>2, <1>3, ShowsWindow
<1>5. curLine' = line /\ window' = w
  BY <1>2 DEF ScrollUp, PrintsWindow
<1> HIDE DEF w
<1> QED BY <1>1, <1>2, <1>4, <1>5 DEF WindowInv, WindowTypeOK

\* Scrolling down.
LEMMA ScrollDownKeeps ==
  ASSUME WindowInv, ScrollDown
  PROVE  WindowInv'
<1>1. /\ fileLen' = fileLen /\ fileLen \in Nat /\ fileLen >= 1 /\ fromTop' = fromTop
      /\ curLine \in Int /\ curLine >= 1 /\ fromTop \in BOOLEAN /\ window \in Windows
  BY DEF ScrollDown, WindowMoves, WindowInv, WindowTypeOK
<1>2. Window \in Int /\ Window >= 1
  BY WindowAssumption
<1>3. PICK line \in Int : /\ line = Clamp(curLine + Window, 1, fileLen) /\ 1 <= line /\ line <= fileLen
                          /\ line = IF fileLen < curLine + Window THEN fileLen ELSE curLine + Window
  <2>1. curLine + Window \in Int /\ curLine + Window >= 1
    BY <1>1, <1>2
  <2>2. /\ Clamp(curLine + Window, 1, fileLen) \in Int /\ 1 <= Clamp(curLine + Window, 1, fileLen)
        /\ Clamp(curLine + Window, 1, fileLen) <= fileLen
        /\ (curLine + Window <= fileLen => Clamp(curLine + Window, 1, fileLen) = curLine + Window)
        /\ (curLine + Window > fileLen => Clamp(curLine + Window, 1, fileLen) = fileLen)
    BY <1>1, <2>1, ClampsInto
  <2> QED BY <1>1, <1>2, <2>2
<1> DEFINE w == ShownWindow(line, Window, TRUE)
<1>4. w \in Windows /\ GoodWindow(w, line) /\ w.of = fileLen
  BY <1>1, <1>2, <1>3, ShowsWindow
<1>5. /\ (line # 1 => (/\ w.to = IF fileLen < line + Window THEN fileLen ELSE line + Window
                       /\ (w.to # fileLen => w.from = line)))
      /\ (line = 1 => (/\ w.to = IF fileLen < Window THEN fileLen ELSE Window
                       /\ (w.to # fileLen => w.from = 1)))
      /\ (w.to = fileLen => w.from = IF 1 < fileLen - Window + 1 THEN fileLen - Window + 1 ELSE 1)
  BY <1>1, <1>3, ScrollsTo
<1>6. /\ curLine' = line /\ window' = w
      /\ (fromTop = TRUE => seenLines' = seenLines \cup (w.from..w.to))
  <2>1. PrintsWindow(line, Window, TRUE)
    BY <1>3 DEF ScrollDown
  <2>2. /\ curLine' = line /\ window' = w
        /\ seenLines' = (IF fromTop' THEN (IF fromTop THEN seenLines ELSE {}) \cup (window'.from..window'.to) ELSE {})
    BY <2>1 DEF PrintsWindow
  <2> QED BY <1>1, <2>2
<1> HIDE DEF w
<1>7. WindowTypeOK'
  BY <1>1, <1>3, <1>4, <1>6 DEF WindowTypeOK
<1>8. fromTop' = TRUE => SeenFromTop'
  <2> SUFFICES ASSUME fromTop = TRUE PROVE SeenFromTop'
    BY <1>1
  <2>1. SeenFromTop /\ seenLines' = seenLines \cup (w.from..w.to)
    BY <1>6 DEF WindowInv
  <2>2. PICK o \in Int, f \in Int, t \in Int : o = window.to /\ f = w.from /\ t = w.to
    BY <1>1, <1>4 DEF Windows
  <2>3. /\ o >= 1 /\ o <= fileLen /\ (1..o) \ seenLines \subseteq {fileLen - Window}
        /\ (o = fileLen => curLine + 2 * Window >= fileLen)
        /\ (o # fileLen => ((1..o) \subseteq seenLines /\ curLine + Window - 1 <= o))
    BY <2>1, <2>2 DEF SeenFromTop
  <2>4. t >= 1 /\ t <= fileLen /\ f >= 1 /\ f <= t
    BY <1>4, <2>2 DEF GoodWindow
  <2>5. t = fileLen => line + 2 * Window >= fileLen
    BY <1>1, <1>2, <1>3, <1>5, <2>2
  <2>6. o = fileLen => t = fileLen
    BY <1>1, <1>2, <1>3, <1>5, <2>2, <2>3
  <2>7. t # fileLen => line + Window - 1 <= t
    BY <1>1, <1>2, <1>3, <1>5, <2>2
  <2>8. ASSUME NEW x \in 1..t, x \notin seenLines' PROVE t = fileLen /\ x = fileLen - Window
    <3>1. x \in Int /\ x >= 1 /\ x <= t /\ x \notin seenLines /\ x < f
      <4>1. x \in Int /\ x >= 1 /\ x <= t
        BY <2>4, <2>8
      <4>2. x \notin seenLines /\ x \notin f..t
        BY <2>1, <2>2, <2>8
      <4> QED BY <4>1, <4>2
    <3>2. CASE o = fileLen
      <4>1. x \in 1..o
        BY <2>4, <3>1, <3>2
      <4> QED BY <2>3, <2>6, <3>1, <3>2, <4>1
    <3>3. CASE o # fileLen
      <4>1. x > o
        <5>1. ~(x \in 1..o)
          BY <2>3, <3>1, <3>3
        <5> QED BY <3>1, <5>1
      <4>2. line <= o + 1
        BY <1>1, <1>2, <1>3, <2>3, <3>3
      <4>3. line # 1
        BY <1>1, <1>2, <1>3, <2>3, <3>3
      <4>4. CASE t # fileLen
        BY <1>5, <2>2, <3>1, <4>1, <4>2, <4>3, <4>4
      <4>5. CASE t = fileLen
        <5>1. f = IF 1 < fileLen - Window + 1 THEN fileLen - Window + 1 ELSE 1
          BY <1>5, <2>2, <4>5
        <5>2. fileLen <= line + Window
          BY <1>1, <1>2, <1>3, <1>5, <2>2, <4>3, <4>5
        <5> QED BY <1>1, <1>2, <3>1, <4>1, <4>2, <4>5, <5>1, <5>2
      <4> QED BY <4>4, <4>5
    <3> QED BY <3>2, <3>3
  <2> QED BY <1>1, <1>4, <1>6, <2>2, <2>4, <2>5, <2>7, <2>8 DEF SeenFromTop
<1> QED BY <1>4, <1>6, <1>7, <1>8 DEF WindowInv

\* The file changes under the window.
LEMMA FileChangesKeeps ==
  ASSUME WindowInv, NEW n \in 0..MaxFileLen, FileChanges(n)
  PROVE  WindowInv'
<1>1. n \in Nat
  BY WindowAssumption
<1>2. fileLen' = n /\ fromTop' = FALSE /\ UNCHANGED <<curFile, curLine, window>>
  BY DEF FileChanges
<1> QED BY <1>1, <1>2 DEF WindowInv, WindowTypeOK

\* Every step of the window part keeps the invariant.
LEMMA WindowSteps == WindowInv /\ WindowNext => WindowInv'
<1> SUFFICES ASSUME WindowInv, WindowNext PROVE WindowInv'
  OBVIOUS
<1>1. \A line \in 1..(MaxFileLen + 1) : line \in Nat
  BY WindowAssumption
<1>2. CASE \E line \in 1..(MaxFileLen + 1) : GotoLine(line)
  BY <1>1, <1>2, GotoLineKeeps
<1>3. CASE \E line \in 1..(MaxFileLen + 1), context \in Contexts : OpenFile(line, context)
  BY <1>1, <1>3, OpenFileKeeps
<1>4. CASE ScrollDown \/ ScrollUp
  BY <1>4, ScrollDownKeeps, ScrollUpKeeps
<1>5. CASE \E n \in 0..MaxFileLen : FileChanges(n)
  BY <1>5, FileChangesKeeps
<1> QED BY <1>2, <1>3, <1>4, <1>5 DEF WindowNext

\* So does a step of another part.
LEMMA WindowFrame == WindowInv /\ UNCHANGED windowVars => WindowInv'
  BY DEF WindowInv, WindowTypeOK, GoodWindow, SeenFromTop, windowVars

\* The invariant gives what the run checks.
LEMMA WindowTells == WindowInv => WindowKept
  BY DEF WindowInv, WindowKept, MissesOneAtMost, HoldsLine, GoodWindow, SeenFromTop

-----------------------------------------------------------------------------
(* Edits drafted by a model.                                                 *)

\* A content of a file, and what the agent is told of its edit.
EditNames == EditFiles \cup {"none"}
Edits == [file : EditNames, ver : Nat, clean : BOOLEAN, created : BOOLEAN]
EditAnswers == [how : {"none", "raised", "lint", "error", "edited"}, edit : Edits]

\* The kinds of values of the editing part.
EditTypeOK ==
  /\ autoLint \in BOOLEAN /\ editDisk \in [EditFiles -> Nat]
  /\ editStep \in {"idle", "read", "draft", "updated", "correct"}
  /\ editing \in Edits /\ lintError \in Edits /\ editAnswer \in EditAnswers
  /\ retryNum \in 0..CorrectNum /\ draftsLeft \in Nat /\ modelCalls \in Nat /\ versions \in Nat
  /\ writeLost \in BOOLEAN

\* The content is what the disk holds of its file.
OnDisk(e) == e.file \in EditFiles /\ editDisk[e.file] = e.ver

\* What the rounds of corrections before this one may have asked the model, and all of them.
AskedUpTo(r) == r * (DraftTries + 1)

\* The edit, and the errors a correction is about, are on the disk as far as is known.
EditOnDisk ==
  /\ (editStep # "idle" => (editing.file \in EditFiles /\ editAnswer.how = "none"))
  /\ ((editStep = "correct" \/ (editStep # "idle" /\ retryNum > 0)) => (writeLost = TRUE \/ OnDisk(lintError)))
  /\ (editAnswer.how \in {"edited", "lint"} => (writeLost = TRUE \/ OnDisk(editAnswer.edit)))

\* How often the model was asked, at each step.
CallsCounted ==
  /\ (editStep = "idle" => modelCalls <= AskedUpTo(CorrectNum) + DraftTries)
  /\ (editStep = "read" => modelCalls <= AskedUpTo(retryNum))
  /\ (editStep = "draft" => (/\ draftsLeft >= 1 /\ draftsLeft <= DraftTries
                             /\ modelCalls + draftsLeft <= AskedUpTo(retryNum) + DraftTries))
  /\ (editStep \in {"updated", "correct"} => modelCalls <= AskedUpTo(retryNum) + DraftTries)

\* The inductive invariant of the editing part.
EditInv == EditTypeOK /\ EditOnDisk /\ DoneIsClean /\ CallsCounted

\* The rounds add up.
LEMMA RoundsAdd ==
  ASSUME NEW r \in Nat, r <= CorrectNum
  PROVE  /\ AskedUpTo(r) \in Nat /\ AskedUpTo(CorrectNum) \in Nat /\ AskedUpTo(r) <= AskedUpTo(CorrectNum) /\ AskedUpTo(0) = 0
         /\ AskedUpTo(r + 1) = AskedUpTo(r) + DraftTries + 1
         /\ (r + 1 <= CorrectNum => AskedUpTo(r + 1) <= AskedUpTo(CorrectNum))
         /\ AskedUpTo(CorrectNum) + DraftTries = DraftTries * (CorrectNum + 1) + CorrectNum
<1>1. DraftTries \in Nat /\ CorrectNum \in Nat
  BY DraftAssumption
<1> DEFINE m == DraftTries + 1
<1>2. m \in Nat /\ m = DraftTries + 1
  BY <1>1
<1> HIDE DEF m
<1>3. \A x, y \in Nat : x * y \in Nat
  OBVIOUS
<1>4. \A x, y, z \in Nat : x <= y => x * z <= y * z
  <2> SUFFICES ASSUME NEW x \in Nat, NEW y \in Nat, NEW z \in Nat, x <= y PROVE x * z <= y * z
    OBVIOUS
  <2>1. PICK k \in Nat : k = y - x /\ y = x + k
    <3>1. y - x \in Nat /\ y = x + (y - x)
      OBVIOUS
    <3> QED BY <3>1
  <2>2. (x + k) * z = x * z + k * z /\ k * z \in Nat /\ x * z \in Nat
    OBVIOUS
  <2>3. PICK p \in Nat, q \in Nat : p = x * z /\ q = k * z /\ (x + k) * z = p + q
    BY <2>2
  <2> QED BY <2>1, <2>3
<1>5. (r + 1) * m = r * m + m /\ 0 * m = 0
  BY <1>2
<1>6. CorrectNum * (DraftTries + 1) + DraftTries = DraftTries * (CorrectNum + 1) + CorrectNum
  BY <1>1
<1>7. AskedUpTo(r) = r * m /\ AskedUpTo(CorrectNum) = CorrectNum * m /\ AskedUpTo(r + 1) = (r + 1) * m /\ AskedUpTo(0) = 0 * m
  BY <1>2 DEF AskedUpTo
<1>8. r * m \in Nat /\ CorrectNum * m \in Nat /\ r * m <= CorrectNum * m
  BY <1>1, <1>2, <1>3, <1>4
<1>9. r + 1 <= CorrectNum => (r + 1) * m <= CorrectNum * m
  <2>1. r + 1 \in Nat
    OBVIOUS
  <2> QED BY <1>1, <1>2, <1>4, <2>1
<1>10. (r + 1) * m = r * m + DraftTries + 1
  <2>1. PICK p \in Nat : p = r * m
    BY <1>8
  <2>2. p + m = p + DraftTries + 1
    BY <1>1, <1>2
  <2> QED BY <1>5, <2>1, <2>2
<1>11. AskedUpTo(CorrectNum) + DraftTries = DraftTries * (CorrectNum + 1) + CorrectNum
  BY <1>6 DEF AskedUpTo
<1> QED BY <1>5, <1>7, <1>8, <1>9, <1>10, <1>11

\* Records of edits and of answers.
LEMMA EditFields ==
  ASSUME NEW f \in EditNames
  PROVE  /\ EditOf(f) \in Edits /\ EditOf(f).file = f /\ NoEdit \in Edits
         /\ \A h \in {"none", "raised", "lint", "error", "edited"}, e \in Edits :
              Told(h, e) \in EditAnswers /\ Told(h, e).how = h /\ Told(h, e).edit = e
  BY DEF EditOf, Edits, EditNames, NoEdit, Told, EditAnswers

\* At first no edit is under way.
LEMMA EditStarts == EditInit => EditInv
<1> SUFFICES ASSUME EditInit PROVE EditInv
  OBVIOUS
<1>1. NoEdit \in Edits
  BY DEF NoEdit, EditOf, Edits, EditNames
<1>2. Told("none", NoEdit) \in EditAnswers /\ Told("none", NoEdit).how = "none"
  BY <1>1 DEF Told, EditAnswers
<1>3. 0 \in 0..CorrectNum /\ 0 <= CorrectNum /\ CorrectNum \in Nat /\ DraftTries \in Nat
  BY DraftAssumption
<1>4. EditTypeOK
  <2>1. editDisk \in [EditFiles -> Nat]
    <3>1. editDisk \in [EditFiles -> {0, 1}]
      BY DEF EditInit
    <3> QED BY <3>1
  <2> QED BY <1>1, <1>2, <1>3, <2>1 DEF EditInit, EditTypeOK
<1>5. CallsCounted
  <2>1. AskedUpTo(CorrectNum) \in Nat
    BY <1>3, RoundsAdd
  <2> QED BY <1>3, <2>1 DEF EditInit, CallsCounted
<1>6. EditOnDisk /\ DoneIsClean
  BY <1>2 DEF EditInit, EditOnDisk, DoneIsClean
<1> QED BY <1>4, <1>5, <1>6 DEF EditInv

\* The numbers of the round the edit is in.
LEMMA EditNumbers ==
  ASSUME EditInv
  PROVE  /\ retryNum \in Nat /\ retryNum <= CorrectNum /\ modelCalls \in Nat /\ draftsLeft \in Nat
         /\ DraftTries \in Nat /\ DraftTries >= 1 /\ CorrectNum \in Nat
         /\ AskedUpTo(retryNum) \in Nat /\ AskedUpTo(CorrectNum) \in Nat
         /\ AskedUpTo(retryNum) <= AskedUpTo(CorrectNum)
<1>1. /\ retryNum \in Nat /\ retryNum <= CorrectNum /\ modelCalls \in Nat /\ draftsLeft \in Nat
      /\ DraftTries \in Nat /\ DraftTries >= 1 /\ CorrectNum \in Nat
  BY DraftAssumption DEF EditInv, EditTypeOK
<1> QED BY <1>1, RoundsAdd

\* An edit that ends without a new answer on the disk.
LEMMA EditEndsKeeps ==
  ASSUME EditInv, NEW how \in {"raised", "lint", "error"}, NEW e \in Edits,
         EditEnds(how, e), how = "lint" => (e = lintError /\ (writeLost = TRUE \/ OnDisk(lintError))),
         UNCHANGED <<autoLint, editDisk, editing, retryNum, lintError, writeLost>>,
         draftsLeft' \in Nat, versions' \in Nat, modelCalls' \in Nat,
         modelCalls' <= AskedUpTo(CorrectNum) + DraftTries
  PROVE  EditInv'
<1>1. editStep' = "idle" /\ editAnswer' = Told(how, e)
  BY DEF EditEnds
<1>2. Told(how, e) \in EditAnswers /\ Told(how, e).how = how /\ Told(how, e).edit = e
  BY DEF Told, EditAnswers
<1>3. EditTypeOK'
  BY <1>1, <1>2 DEF EditInv, EditTypeOK
<1>4. EditOnDisk'
  BY <1>1, <1>2 DEF EditOnDisk, OnDisk
<1>5. DoneIsClean' /\ CallsCounted'
  BY <1>1, <1>2 DEF DoneIsClean, CallsCounted
<1> QED BY <1>3, <1>4, <1>5 DEF EditInv

\* The agent asks for an edit.
LEMMA AgentEditsKeeps ==
  ASSUME EditInv, NEW f \in EditFiles, AgentEdits(f)
  PROVE  EditInv'
<1>1. EditOf(f) \in Edits /\ EditOf(f).file = f /\ NoEdit \in Edits
  BY DEF EditOf, Edits, EditNames, NoEdit
<1>2. Told("none", NoEdit) \in EditAnswers /\ Told("none", NoEdit).how = "none"
  BY <1>1 DEF Told, EditAnswers
<1>3. 0 \in 0..CorrectNum /\ 0 <= CorrectNum /\ CorrectNum \in Nat
  BY DraftAssumption
<1>4. AskedUpTo(0) = 0
  BY <1>3, RoundsAdd
<1>5. /\ editStep' = "read" /\ editing' = EditOf(f) /\ retryNum' = 0 /\ lintError' = NoEdit
      /\ writeLost' = FALSE /\ modelCalls' = 0 /\ editAnswer' = Told("none", NoEdit)
      /\ UNCHANGED <<autoLint, editDisk, draftsLeft, versions>>
  BY DEF AgentEdits
<1>6. EditTypeOK'
  BY <1>1, <1>2, <1>3, <1>5 DEF EditInv, EditTypeOK
<1>7. EditOnDisk' /\ DoneIsClean'
  BY <1>1, <1>2, <1>5 DEF EditOnDisk, DoneIsClean
<1>8. CallsCounted'
  BY <1>4, <1>5 DEF CallsCounted
<1> QED BY <1>6, <1>7, <1>8 DEF EditInv

\* A new content of the file that is edited.
LEMMA NewContentIs ==
  ASSUME EditInv, editStep # "idle", NEW clean \in BOOLEAN, NewContent(clean)
  PROVE  /\ editing' \in Edits /\ editing'.file = editing.file /\ editing.file \in EditFiles
         /\ editing'.ver = versions + 1 /\ versions + 1 \in Nat /\ versions' = versions + 1
         /\ editing'.created = (editDisk[editing.file] = 0)
<1>1. PICK v \in Nat, c \in BOOLEAN : v = versions + 1 /\ c = (editDisk[editing.file] = 0)
  <2>1. versions + 1 \in Nat
    BY DEF EditInv, EditTypeOK
  <2>2. (editDisk[editing.file] = 0) \in BOOLEAN
    OBVIOUS
  <2> QED BY <2>1, <2>2
<1>2. editing' = [editing EXCEPT !.ver = v, !.clean = clean, !.created = c] /\ versions' = v
  BY <1>1 DEF NewContent
<1>3. editing \in Edits /\ editing.file \in EditFiles
  BY DEF EditInv, EditTypeOK, EditOnDisk
<1> QED BY <1>1, <1>2, <1>3 DEF Edits

\* A file that is not there is made from the draft as it is.
LEMMA CreatesFileKeeps ==
  ASSUME EditInv, NEW clean \in BOOLEAN, NEW written \in BOOLEAN, CreatesFile(clean, written)
  PROVE  EditInv'
<1>1. /\ editStep = "read" /\ editDisk[editing.file] = 0 /\ NewContent(clean)
      /\ UNCHANGED <<autoLint, retryNum, draftsLeft, lintError, writeLost, modelCalls, agentEdits>>
  BY DEF CreatesFile
<1>2. /\ editing' \in Edits /\ editing'.file = editing.file /\ editing.file \in EditFiles
      /\ editing'.ver = versions + 1 /\ versions + 1 \in Nat /\ versions' = versions + 1
      /\ editing'.created = (editDisk[editing.file] = 0)
  <2>1. editStep # "idle"
    BY <1>1
  <2> QED BY <1>1, <2>1, NewContentIs
<1>3. modelCalls \in Nat /\ modelCalls <= AskedUpTo(CorrectNum) + DraftTries
  <2>1. modelCalls <= AskedUpTo(retryNum)
    BY <1>1 DEF EditInv, CallsCounted
  <2> QED BY <2>1, EditNumbers
<1>4. CASE written = TRUE
  <2>1. /\ editStep' = "idle" /\ editAnswer' = Told("edited", editing')
        /\ editDisk' = [editDisk EXCEPT ![editing.file] = versions + 1]
    BY <1>4 DEF CreatesFile, EditEnds
  <2>2. /\ editAnswer' \in EditAnswers /\ editAnswer'.how = "edited" /\ editAnswer'.edit = editing'
    BY <1>2, <2>1 DEF Told, EditAnswers
  <2>3. editDisk' \in [EditFiles -> Nat] /\ editDisk'[editing.file] = versions + 1
    BY <1>2, <2>1 DEF EditInv, EditTypeOK
  <2>4. EditTypeOK'
    BY <1>1, <1>2, <2>1, <2>2, <2>3 DEF EditInv, EditTypeOK
  <2>5. OnDisk(editAnswer.edit)'
    BY <1>2, <2>2, <2>3 DEF OnDisk
  <2>6. EditOnDisk'
    BY <2>1, <2>5 DEF EditOnDisk
  <2>7. DoneIsClean'
    BY <1>1, <1>2, <2>2 DEF DoneIsClean
  <2>8. CallsCounted'
    BY <1>1, <1>3, <2>1 DEF CallsCounted
  <2> QED BY <2>4, <2>6, <2>7, <2>8 DEF EditInv
<1>5. CASE written # TRUE
  <2>1. EditEnds("error", NoEdit) /\ editDisk' = editDisk
    BY <1>5 DEF CreatesFile
  <2>2. /\ editStep' = "idle" /\ editAnswer' = Told("error", NoEdit) /\ NoEdit \in Edits
    BY <2>1 DEF EditEnds, NoEdit, EditOf, Edits, EditNames
  <2>3. editAnswer' \in EditAnswers /\ editAnswer'.how = "error"
    BY <2>2 DEF Told, EditAnswers
  <2>4. EditTypeOK'
    BY <1>1, <1>2, <2>1, <2>2, <2>3 DEF EditInv, EditTypeOK
  <2>5. EditOnDisk' /\ DoneIsClean'
    BY <2>2, <2>3 DEF EditOnDisk, DoneIsClean
  <2>6. CallsCounted'
    BY <1>1, <1>3, <2>2 DEF CallsCounted
  <2> QED BY <2>4, <2>5, <2>6 DEF EditInv
<1> QED BY <1>4, <1>5

\* Reading the file or the draft raises, the range is wrong, no draft can be read.
LEMMA EditErrorsKeep ==
  ASSUME EditInv, EditFails \/ BadRange \/ (DraftUnreadable /\ draftsLeft = 1)
  PROVE  EditInv'
<1>1. /\ retryNum \in Nat /\ retryNum <= CorrectNum /\ modelCalls \in Nat /\ draftsLeft \in Nat
      /\ DraftTries \in Nat /\ DraftTries >= 1 /\ CorrectNum \in Nat
      /\ AskedUpTo(retryNum) \in Nat /\ AskedUpTo(CorrectNum) \in Nat
      /\ AskedUpTo(retryNum) <= AskedUpTo(CorrectNum)
  BY EditNumbers
<1>2. NoEdit \in Edits /\ lintError \in Edits /\ versions \in Nat
  BY DEF NoEdit, EditOf, Edits, EditNames, EditInv, EditTypeOK
<1>3. CASE EditFails
  <2>1. /\ editStep \in {"read", "draft"}
        /\ UNCHANGED <<autoLint, editDisk, editing, retryNum, draftsLeft, lintError, writeLost, modelCalls, versions>>
    BY <1>3 DEF EditFails
  <2>2. modelCalls <= AskedUpTo(CorrectNum) + DraftTries
    <3>1. modelCalls <= AskedUpTo(retryNum) + DraftTries
      BY <1>1, <2>1 DEF EditInv, CallsCounted
    <3> QED BY <1>1, <3>1
  <2>3. PICK how \in {"raised", "lint"}, e \in Edits :
          EditEnds(how, e) /\ (how = "lint" => (retryNum # 0 /\ e = lintError))
    BY <1>2, <1>3 DEF EditFails, EditRaises
  <2>4. how = "lint" => (e = lintError /\ (writeLost = TRUE \/ OnDisk(lintError)))
    BY <1>1, <2>1, <2>3 DEF EditInv, EditOnDisk
  <2>5. draftsLeft' \in Nat /\ versions' \in Nat /\ modelCalls' \in Nat /\ modelCalls' <= AskedUpTo(CorrectNum) + DraftTries
    BY <1>1, <1>2, <2>1, <2>2
  <2> QED BY <2>1, <2>3, <2>4, <2>5, EditEndsKeeps
<1>4. CASE BadRange
  <2>1. /\ editStep = "read" /\ EditEnds("error", NoEdit)
        /\ UNCHANGED <<autoLint, editDisk, editing, retryNum, draftsLeft, lintError, writeLost, modelCalls, versions>>
    BY <1>4 DEF BadRange
  <2>2. modelCalls <= AskedUpTo(CorrectNum) + DraftTries
    <3>1. modelCalls <= AskedUpTo(retryNum)
      BY <2>1 DEF EditInv, CallsCounted
    <3> QED BY <1>1, <3>1
  <2>3. draftsLeft' \in Nat /\ versions' \in Nat /\ modelCalls' \in Nat /\ modelCalls' <= AskedUpTo(CorrectNum) + DraftTries
    BY <1>1, <1>2, <2>1, <2>2
  <2> QED BY <1>2, <2>1, <2>3, EditEndsKeeps
<1>5. CASE DraftUnreadable /\ draftsLeft = 1
  <2>1. /\ editStep = "draft" /\ EditEnds("error", NoEdit) /\ modelCalls' = modelCalls + 1
        /\ draftsLeft' = draftsLeft - 1
        /\ UNCHANGED <<autoLint, editDisk, editing, retryNum, lintError, writeLost, versions>>
    BY <1>5 DEF DraftUnreadable
  <2>2. modelCalls + 1 <= AskedUpTo(CorrectNum) + DraftTries
    <3>1. modelCalls + draftsLeft <= AskedUpTo(retryNum) + DraftTries
      BY <2>1 DEF EditInv, CallsCounted
    <3> QED BY <1>1, <1>5, <3>1
  <2>3. draftsLeft' \in Nat /\ versions' \in Nat /\ modelCalls' \in Nat /\ modelCalls' <= AskedUpTo(CorrectNum) + DraftTries
    BY <1>1, <1>2, <1>5, <2>1, <2>2
  <2> QED BY <1>2, <2>1, <2>3, EditEndsKeeps
<1> QED BY <1>3, <1>4, <1>5

\* The steps between the reading of a file and the writing of its new content.
LEMMA DraftsKeep ==
  ASSUME EditInv, \/ AsksDraft \/ (DraftUnreadable /\ draftsLeft # 1)
                  \/ \E clean \in BOOLEAN : AppendsLines(clean) \/ DraftComes(clean)
  PROVE  EditInv'
<1>1. /\ retryNum \in Nat /\ retryNum <= CorrectNum /\ modelCalls \in Nat /\ draftsLeft \in Nat
      /\ DraftTries \in Nat /\ DraftTries >= 1 /\ CorrectNum \in Nat
      /\ AskedUpTo(retryNum) \in Nat /\ AskedUpTo(CorrectNum) \in Nat
      /\ AskedUpTo(retryNum) <= AskedUpTo(CorrectNum)
  BY EditNumbers
<1>2. /\ editStep \in {"read", "draft"} /\ editStep' \in {"draft", "updated"}
      /\ UNCHANGED <<autoLint, editDisk, retryNum, lintError, writeLost, editAnswer>>
  BY DEF AsksDraft, DraftUnreadable, AppendsLines, DraftComes
<1>3. editing' \in Edits /\ editing'.file = editing.file /\ versions' \in Nat
  <2>1. CASE AsksDraft \/ DraftUnreadable
    BY <2>1 DEF AsksDraft, DraftUnreadable, EditInv, EditTypeOK
  <2>2. CASE \E clean \in BOOLEAN : AppendsLines(clean) \/ DraftComes(clean)
    <3>1. PICK clean \in BOOLEAN : NewContent(clean)
      BY <2>2 DEF AppendsLines, DraftComes
    <3>2. editStep # "idle"
      BY <1>2
    <3> QED BY <3>1, <3>2, NewContentIs
  <2> QED BY <2>1, <2>2
<1>4. modelCalls' \in Nat /\ draftsLeft' \in Nat /\ CallsCounted'
  <2>1. CASE AsksDraft
    <3>1. editStep = "read" /\ editStep' = "draft" /\ draftsLeft' = DraftTries /\ modelCalls' = modelCalls
      BY <2>1 DEF AsksDraft
    <3>2. modelCalls <= AskedUpTo(retryNum)
      BY <3>1 DEF EditInv, CallsCounted
    <3>3. modelCalls + DraftTries <= AskedUpTo(retryNum) + DraftTries /\ DraftTries <= DraftTries
      BY <1>1, <3>2
    <3> QED BY <1>1, <1>2, <3>1, <3>3 DEF CallsCounted
  <2>2. CASE DraftUnreadable /\ draftsLeft # 1
    <3>1. editStep = "draft" /\ editStep' = "draft" /\ draftsLeft' = draftsLeft - 1 /\ modelCalls' = modelCalls + 1
      BY <2>2 DEF DraftUnreadable
    <3>2. draftsLeft >= 1 /\ draftsLeft <= DraftTries /\ modelCalls + draftsLeft <= AskedUpTo(retryNum) + DraftTries
      BY <3>1 DEF EditInv, CallsCounted
    <3>3. /\ draftsLeft - 1 >= 1 /\ draftsLeft - 1 <= DraftTries /\ draftsLeft - 1 \in Nat
          /\ (modelCalls + 1) + (draftsLeft - 1) <= AskedUpTo(retryNum) + DraftTries
      BY <1>1, <2>2, <3>2
    <3>4. draftsLeft' \in Nat /\ modelCalls' \in Nat
      BY <1>1, <3>1, <3>3
    <3> QED BY <1>2, <3>1, <3>3, <3>4 DEF CallsCounted
  <2>3. CASE \E clean \in BOOLEAN : AppendsLines(clean)
    <3>1. editStep = "read" /\ editStep' = "updated" /\ draftsLeft' = draftsLeft /\ modelCalls' = modelCalls
      BY <2>3 DEF AppendsLines
    <3>2. modelCalls <= AskedUpTo(retryNum)
      BY <3>1 DEF EditInv, CallsCounted
    <3>3. modelCalls <= AskedUpTo(retryNum) + DraftTries
      BY <1>1, <3>2
    <3> QED BY <1>1, <1>2, <3>1, <3>3 DEF CallsCounted
  <2>4. CASE \E clean \in BOOLEAN : DraftComes(clean)
    <3>1. editStep = "draft" /\ editStep' = "updated" /\ draftsLeft' = draftsLeft /\ modelCalls' = modelCalls + 1
      BY <2>4 DEF DraftComes
    <3>2. draftsLeft >= 1 /\ modelCalls + draftsLeft <= AskedUpTo(retryNum) + DraftTries
      BY <3>1 DEF EditInv, CallsCounted
    <3>3. modelCalls + 1 <= AskedUpTo(retryNum) + DraftTries
      BY <1>1, <3>2
    <3> QED BY <1>1, <1>2, <3>1, <3>3 DEF CallsCounted
  <2> QED BY <2>1, <2>2, <2>3, <2>4
<1>5. EditTypeOK'
  BY <1>2, <1>3, <1>4 DEF EditInv, EditTypeOK
<1>6. EditOnDisk'
  <2>1. editing.file \in EditFiles /\ editAnswer.how = "none"
        /\ (retryNum > 0 => (writeLost = TRUE \/ OnDisk(lintError)))
    BY <1>2 DEF EditInv, EditOnDisk
  <2> QED BY <1>2, <1>3, <2>1 DEF EditOnDisk, OnDisk
<1>7. DoneIsClean'
  <2>1. editAnswer.how = "none"
    BY <1>2 DEF EditInv, EditOnDisk
  <2> QED BY <1>2, <2>1 DEF DoneIsClean
<1> QED BY <1>4, <1>5, <1>6, <1>7 DEF EditInv

\* The updated content is written, and linted if asked for.
LEMMA WritesUpdatedKeeps ==
  ASSUME EditInv, NEW done \in BOOLEAN, WritesUpdated(done)
  PROVE  EditInv'
<1>1. /\ editStep = "updated" /\ WritesDraft(done)
      /\ UNCHANGED <<autoLint, editing, retryNum, draftsLeft, modelCalls, agentEdits, versions>>
  BY DEF WritesUpdated
<1>2. /\ editing \in Edits /\ editing.file \in EditFiles /\ editing.ver \in Nat
      /\ editAnswer.how = "none" /\ editDisk \in [EditFiles -> Nat] /\ writeLost \in BOOLEAN
  BY <1>1 DEF EditInv, EditTypeOK, EditOnDisk, Edits
<1>3. /\ editDisk' \in [EditFiles -> Nat] /\ writeLost' \in BOOLEAN
      /\ (writeLost' = TRUE \/ editDisk'[editing.file] = editing.ver)
  <2>1. CASE done = TRUE
    <3>1. editDisk' = [editDisk EXCEPT ![editing.file] = editing.ver] /\ writeLost' = writeLost
      BY <1>1, <2>1 DEF WritesDraft
    <3> QED BY <1>2, <3>1
  <2>2. CASE done # TRUE
    <3>1. writeLost' = TRUE /\ editDisk' = editDisk
      BY <1>1, <2>2 DEF WritesDraft
    <3> QED BY <1>2, <3>1
  <2> QED BY <2>1, <2>2
<1>4. /\ modelCalls <= AskedUpTo(retryNum) + DraftTries
      /\ modelCalls <= AskedUpTo(CorrectNum) + DraftTries
  <2>1. modelCalls <= AskedUpTo(retryNum) + DraftTries
    BY <1>1 DEF EditInv, CallsCounted
  <2> QED BY <2>1, EditNumbers
<1>5. CASE autoLint /\ ~editing.clean
  <2>1. editStep' = "correct" /\ lintError' = editing /\ editAnswer' = editAnswer
    BY <1>5 DEF WritesUpdated
  <2>2. EditTypeOK'
    BY <1>1, <1>2, <1>3, <2>1 DEF EditInv, EditTypeOK
  <2>3. EditOnDisk'
    BY <1>1, <1>2, <1>3, <2>1 DEF EditOnDisk, OnDisk
  <2>4. DoneIsClean' /\ CallsCounted'
    BY <1>1, <1>2, <1>4, <2>1 DEF DoneIsClean, CallsCounted
  <2> QED BY <2>2, <2>3, <2>4 DEF EditInv
<1>6. CASE ~(autoLint /\ ~editing.clean)
  <2>1. editStep' = "idle" /\ editAnswer' = Told("edited", editing) /\ lintError' = lintError
    BY <1>6 DEF WritesUpdated, EditEnds
  <2>2. editAnswer' \in EditAnswers /\ editAnswer'.how = "edited" /\ editAnswer'.edit = editing
    BY <1>2, <2>1 DEF Told, EditAnswers
  <2>3. EditTypeOK'
    BY <1>1, <1>2, <1>3, <2>1, <2>2 DEF EditInv, EditTypeOK
  <2>4. EditOnDisk'
    BY <1>1, <1>2, <1>3, <2>1, <2>2 DEF EditOnDisk, OnDisk
  <2>5. DoneIsClean'
    BY <1>1, <1>6, <2>2 DEF DoneIsClean
  <2>6. CallsCounted'
    BY <1>1, <1>4, <2>1 DEF CallsCounted
  <2> QED BY <2>3, <2>4, <2>5, <2>6 DEF EditInv
<1> QED BY <1>5, <1>6

\* A correction is asked of the model, or the last error is told.
LEMMA CorrectsKeeps ==
  ASSUME EditInv, NEW f \in EditFiles, Corrects(f)
  PROVE  EditInv'
<1>1. /\ retryNum \in Nat /\ retryNum <= CorrectNum /\ modelCalls \in Nat
      /\ DraftTries \in Nat /\ CorrectNum \in Nat /\ AskedUpTo(retryNum) \in Nat
  BY EditNumbers
<1>2. /\ editStep = "correct" /\ retryNum + 1 <= CorrectNum /\ modelCalls' = modelCalls + 1
      /\ retryNum' = retryNum + 1 /\ editStep' = "read" /\ editing' = EditOf(f)
      /\ UNCHANGED <<autoLint, editDisk, draftsLeft, lintError, writeLost, editAnswer, agentEdits, versions>>
  BY DEF Corrects
<1>3. EditOf(f) \in Edits /\ EditOf(f).file = f
  BY DEF EditOf, Edits, EditNames
<1>4. modelCalls <= AskedUpTo(retryNum) + DraftTries /\ AskedUpTo(retryNum + 1) = AskedUpTo(retryNum) + DraftTries + 1
  <2>1. AskedUpTo(retryNum + 1) = AskedUpTo(retryNum) + DraftTries + 1
    BY <1>1, RoundsAdd
  <2> QED BY <1>2, <2>1 DEF EditInv, CallsCounted
<1>5. modelCalls + 1 <= AskedUpTo(retryNum + 1) /\ modelCalls + 1 \in Nat /\ retryNum + 1 \in 0..CorrectNum
  BY <1>1, <1>2, <1>4
<1>6. EditTypeOK'
  BY <1>2, <1>3, <1>5 DEF EditInv, EditTypeOK
<1>7. EditOnDisk'
  BY <1>2, <1>3 DEF EditInv, EditOnDisk, OnDisk
<1>8. DoneIsClean'
  BY <1>2 DEF EditInv, EditOnDisk, DoneIsClean
<1>9. CallsCounted'
  BY <1>2, <1>5 DEF CallsCounted
<1> QED BY <1>6, <1>7, <1>8, <1>9 DEF EditInv

\* The corrections end with the error they are about.
LEMMA CorrectionsEnd ==
  ASSUME EditInv, TooManyCorrections \/ NoCorrection
  PROVE  EditInv'
<1>1. /\ retryNum \in Nat /\ retryNum <= CorrectNum /\ modelCalls \in Nat /\ draftsLeft \in Nat
      /\ DraftTries \in Nat /\ CorrectNum \in Nat /\ AskedUpTo(retryNum) \in Nat /\ AskedUpTo(CorrectNum) \in Nat
      /\ AskedUpTo(retryNum) <= AskedUpTo(CorrectNum)
  BY EditNumbers
<1>2. /\ editStep = "correct" /\ EditEnds("lint", lintError)
      /\ UNCHANGED <<autoLint, editDisk, editing, retryNum, draftsLeft, lintError, writeLost, versions>>
  BY DEF TooManyCorrections, NoCorrection
<1>3. writeLost = TRUE \/ OnDisk(lintError)
  BY <1>2 DEF EditInv, EditOnDisk
<1>4. lintError \in Edits /\ versions' \in Nat /\ draftsLeft' \in Nat
  BY <1>1, <1>2 DEF EditInv, EditTypeOK
<1>5. modelCalls' \in Nat /\ modelCalls' <= AskedUpTo(CorrectNum) + DraftTries
  <2>1. modelCalls <= AskedUpTo(retryNum) + DraftTries
    BY <1>2 DEF EditInv, CallsCounted
  <2>2. CASE TooManyCorrections
    <3>1. modelCalls' = modelCalls
      BY <2>2 DEF TooManyCorrections
    <3> QED BY <1>1, <2>1, <3>1
  <2>3. CASE NoCorrection
    <3>1. modelCalls' = modelCalls + 1 /\ retryNum + 1 <= CorrectNum
      BY <2>3 DEF NoCorrection
    <3>2. AskedUpTo(retryNum + 1) = AskedUpTo(retryNum) + DraftTries + 1 /\ AskedUpTo(retryNum + 1) <= AskedUpTo(CorrectNum)
      BY <1>1, <3>1, RoundsAdd
    <3> QED BY <1>1, <2>1, <3>1, <3>2
  <2> QED BY <2>2, <2>3
<1> QED BY <1>2, <1>3, <1>4, <1>5, EditEndsKeeps

\* Every step of the editing part keeps the invariant.
LEMMA EditSteps == EditInv /\ EditNext => EditInv'
<1> SUFFICES ASSUME EditInv, EditNext PROVE EditInv'
  OBVIOUS
<1>1. CASE \E f \in EditFiles : AgentEdits(f) \/ Corrects(f)
  BY <1>1, AgentEditsKeeps, CorrectsKeeps
<1>2. CASE \E clean \in BOOLEAN : \E written \in BOOLEAN : CreatesFile(clean, written)
  BY <1>2, CreatesFileKeeps
<1>3. CASE \E done \in BOOLEAN : WritesUpdated(done)
  BY <1>3, WritesUpdatedKeeps
<1>4. CASE EditFails \/ BadRange \/ (DraftUnreadable /\ draftsLeft = 1)
  BY <1>4, EditErrorsKeep
<1>5. CASE \/ AsksDraft \/ (DraftUnreadable /\ draftsLeft # 1)
           \/ \E clean \in BOOLEAN : AppendsLines(clean) \/ DraftComes(clean)
  BY <1>5, DraftsKeep
<1>6. CASE TooManyCorrections \/ NoCorrection
  BY <1>6, CorrectionsEnd
<1> QED BY <1>1, <1>2, <1>3, <1>4, <1>5, <1>6 DEF EditNext

\* So does a step of another part.
LEMMA EditFrame == EditInv /\ UNCHANGED editVars => EditInv'
  BY DEF EditInv, EditTypeOK, EditOnDisk, OnDisk, DoneIsClean, CallsCounted, editVars

\* The invariant gives what the run checks.
LEMMA EditTells == EditInv => EditsTold
<1> SUFFICES ASSUME EditInv PROVE EditsTold
  OBVIOUS
<1>1. ToldIsOnDisk
  BY DEF EditInv, EditOnDisk, OnDisk, ToldIsOnDisk
<1>2. CallsOfModel
  <2>1. /\ retryNum \in Nat /\ retryNum <= CorrectNum /\ modelCalls \in Nat /\ draftsLeft \in Nat
        /\ DraftTries \in Nat /\ CorrectNum \in Nat /\ AskedUpTo(retryNum) \in Nat /\ AskedUpTo(CorrectNum) \in Nat
        /\ AskedUpTo(retryNum) <= AskedUpTo(CorrectNum)
    BY EditNumbers
  <2>2. AskedUpTo(CorrectNum) + DraftTries = DraftTries * (CorrectNum + 1) + CorrectNum
    BY <2>1, RoundsAdd
  <2>3. modelCalls <= AskedUpTo(CorrectNum) + DraftTries
    <3>1. editStep \in {"idle", "read", "draft", "updated", "correct"}
      BY DEF EditInv, EditTypeOK
    <3> QED BY <2>1, <3>1 DEF EditInv, CallsCounted
  <2> QED BY <2>2, <2>3 DEF CallsOfModel
<1> QED BY <1>1, <1>2 DEF EditInv, EditsTold

-----------------------------------------------------------------------------
(* What is ranked by a number: the first so many of a finite set.             *)

\* The members of a sequence.
Among(s) == {s[i] : i \in DOMAIN s}

\* How many are not after one, in an order by numbers: it tells them apart.
LEMMA RanksDiffer ==
  ASSUME NEW S, IsFiniteSet(S), NEW f, \A x \in S : f[x] \in Int, \A x, y \in S : f[x] = f[y] => x = y
  PROVE  /\ \A b \in S : Cardinality({x \in S : f[x] <= f[b]}) \in 1..Cardinality(S)
         /\ \A b, c \in S : Cardinality({x \in S : f[x] <= f[b]}) = Cardinality({x \in S : f[x] <= f[c]}) => b = c
<1> DEFINE E(b) == {x \in S : f[x] <= f[b]}
<1>1. \A b \in S : E(b) \subseteq S /\ b \in E(b)
  OBVIOUS
<1>2. ASSUME NEW b \in S PROVE IsFiniteSet(E(b)) /\ Cardinality(E(b)) \in 1..Cardinality(S)
  <2>1. E(b) \in SUBSET S
    BY <1>1
  <2>2. IsFiniteSet(E(b)) /\ Cardinality(E(b)) <= Cardinality(S)
    BY <2>1, FS_Subset
  <2>3. Cardinality(E(b)) \in Nat /\ Cardinality(S) \in Nat
    BY <2>2, FS_CardinalityType
  <2>4. Cardinality(E(b)) # 0
    BY <1>1, <2>2, FS_EmptySet
  <2> HIDE DEF E
  <2> QED BY <2>2, <2>3, <2>4
<1>3. ASSUME NEW b \in S, NEW c \in S, f[b] < f[c] PROVE Cardinality(E(b)) # Cardinality(E(c))
  <2>1. E(b) \in SUBSET E(c)
    <3> SUFFICES ASSUME NEW x \in S, f[x] <= f[b] PROVE f[x] <= f[c]
      OBVIOUS
    <3> QED BY <1>3
  <2>2. c \in E(c) /\ c \notin E(b)
    BY <1>3
  <2>3. E(b) # E(c)
    BY <2>2
  <2> HIDE DEF E
  <2> QED BY <1>2, <2>1, <2>3, FS_Subset
<1>4. ASSUME NEW b \in S, NEW c \in S, Cardinality(E(b)) = Cardinality(E(c)) PROVE b = c
  <2>1. ~(f[b] < f[c]) /\ ~(f[c] < f[b])
    BY <1>3, <1>4
  <2>2. f[b] = f[c]
    BY <2>1
  <2> QED BY <2>2
<1> QED BY <1>2, <1>4

\* The first n of a finite set in an order: a list of its members, and no more than the
\* others are not in it.
LEMMA FirstOnes ==
  ASSUME NEW S, IsFiniteSet(S), NEW f, \A x \in S : f[x] \in Int, \A x, y \in S : f[x] = f[y] => x = y,
         NEW n \in Int, n <= Cardinality(S), NEW v, DOMAIN v = 1..n, v = [i \in 1..n |-> v[i]],
         \A i \in 1..n : (\E b \in S : Cardinality({x \in S : f[x] <= f[b]}) = i)
                            => v[i] \in S /\ Cardinality({x \in S : f[x] <= f[v[i]]}) = i
  PROVE  /\ v \in Seq(S) /\ IsFiniteSet(S \ Among(v))
         /\ Cardinality(S \ Among(v)) <= Cardinality(S) - n
<1> DEFINE r == [b \in S |-> Cardinality({x \in S : f[x] <= f[b]})]
           N == Cardinality(S)
<1>1. N \in Nat
  BY FS_CardinalityType
<1>2. r \in [S -> 1..N] /\ \A b, c \in S : r[b] = r[c] => b = c
  BY RanksDiffer
<1>3. \A i \in 1..n : (\E b \in S : r[b] = i) => v[i] \in S /\ r[v[i]] = i
  OBVIOUS
<1> HIDE DEF r, N
<1>4. r \in Injection(S, 1..N)
  BY <1>2 DEF Injection, IsInjective
<1>5. IsFiniteSet(1..N) /\ Cardinality(1..N) = N
  BY <1>1, FS_Interval
<1>6. r \in Surjection(S, 1..N)
  BY <1>4, <1>5, FS_Injection DEF N
<1>7. \A i \in 1..n : v[i] \in S /\ r[v[i]] = i
  <2> TAKE i \in 1..n
  <2>1. i \in 1..N
    BY <1>1 DEF N
  <2>2. \E b \in S : r[b] = i
    BY <2>1, <1>6 DEF Surjection
  <2> QED BY <2>2, <1>3
<1>8. v \in Seq(S)
  <2>1. CASE n >= 0
    <3>1. v \in [1..n -> S] /\ n \in Nat
      BY <1>7, <2>1
    <3> QED BY <3>1, SeqDef
  <2>2. CASE n < 0
    <3>1. 1..n = {} /\ 1..0 = {}
      BY <2>2
    <3>2. v \in [1..0 -> S] /\ 0 \in Nat
      BY <3>1, <1>7
    <3> QED BY <3>2, SeqDef
  <2> QED BY <2>1, <2>2
<1> DEFINE T == S \ Among(v)
<1>9. \A b \in T : r[b] \in 1..N /\ ~(r[b] <= n)
  <2> SUFFICES ASSUME NEW b \in S, b \notin Among(v), r[b] <= n PROVE FALSE
    BY <1>2
  <2>1. r[b] \in 1..n
    BY <1>2, <1>1
  <2>2. v[r[b]] = b
    BY <2>1, <1>7, <1>2
  <2> QED BY <2>1, <2>2 DEF Among
<1>10. CASE n >= 0
  <2> DEFINE g == [b \in T |-> r[b]]
             I == (n + 1)..N
  <2>1. \A b \in T : r[b] \in I
    BY <1>9, <1>10, <1>1
  <2>2. g \in [T -> I] /\ \A b, c \in T : g[b] = g[c] => b = c
    BY <2>1, <1>2
  <2>3. IsFiniteSet(I) /\ Cardinality(I) = N - n
    <3>1. n + 1 \in Int /\ N \in Int /\ n <= N
      BY <1>1 DEF N
    <3>2. IsFiniteSet(I) /\ Cardinality(I) = IF n + 1 > N THEN 0 ELSE N - (n + 1) + 1
      BY <3>1, FS_Interval
    <3> HIDE DEF I
    <3> QED BY <3>1, <3>2
  <2> HIDE DEF g, I, T
  <2>4. g \in Injection(T, I)
    BY <2>2 DEF Injection, IsInjective
  <2>5. IsFiniteSet(T) /\ Cardinality(T) <= Cardinality(I)
    BY <2>4, <2>3, FS_Injection
  <2> QED BY <2>5, <2>3, <1>8 DEF T, N
<1>11. CASE n < 0
  <2>1. T \in SUBSET S
    OBVIOUS
  <2>2. IsFiniteSet(T) /\ Cardinality(T) <= Cardinality(S)
    BY <2>1, FS_Subset
  <2>3. Cardinality(T) \in Nat
    BY <2>2, FS_CardinalityType
  <2> HIDE DEF T
  <2>4. Cardinality(T) <= N - n
    BY <2>2, <2>3, <1>1, <1>11 DEF N
  <2> QED BY <2>2, <2>4, <1>8 DEF T, N
<1> QED BY <1>10, <1>11

-----------------------------------------------------------------------------
(* Sandbox services: what runs is on the books, and the limit is kept as far  *)
(* as the count of a request can see.                                         *)

\* What can have become of a sandbox, and what a request can be doing.
WorldStates == {"none", "booting", "up", "paused", "exited", "gone"}
SandboxReqs ==
  {r \in [op : {"none", "start", "resume"}, box : {0} \cup Boxes, todo : Seq(Boxes), seen : SUBSET Boxes,
          kept : SUBSET Boxes, stage : {"none", "pausing", "commit", "spawned", "waiting"}] :
     r.op = "resume" \/ r.stage \in {"commit", "spawned", "waiting"} => r.box \in Boxes}

\* The kinds of values of the services.
SandboxTypeOK ==
  /\ service \in {"docker", "remote", "process"} /\ world \in [Boxes -> WorldStates]
  /\ known \subseteq Boxes /\ leaked \subseteq Boxes /\ sandboxReq \in [SandboxRequests -> SandboxReqs]

\* What a request saw has been started; of a remote service, what of it runs is on the books.
SeenWas(q, w, kn, lk) ==
  \A b \in sandboxReq[q].seen : w[b] # "none" /\ (service = "remote" /\ w[b] \in Running => b \in kn \cup lk)

\* What runs of the sandboxes that a request saw and will not pause.
Spared(req, w, lk) == {b \in req.seen \ (req.kept \cup lk \cup Among(req.todo)) : w[b] \in Running}

\* The inductive invariant of the services.
SandboxInv ==
  /\ SandboxTypeOK /\ EveryRunningIsListed
  /\ \A q \in SandboxRequests :
       /\ SeenWas(q, world, known, leaked)
       /\ service # "process" /\ sandboxReq[q].stage = "pausing" =>
            Cardinality(Spared(sandboxReq[q], world, leaked)) <= MaxSandboxes - 1

\* Sandboxes are finitely many, and of fewer there are not more.
LEMMA FewerBoxes ==
  ASSUME NEW S, NEW T, S \subseteq T, T \subseteq Boxes
  PROVE  IsFiniteSet(T) /\ Cardinality(S) <= Cardinality(T) /\ Cardinality(S) \in Nat /\ Cardinality(T) \in Nat
<1>1. IsFiniteSet(Boxes)
  BY SandboxAssumption, FS_Interval DEF Boxes
<1>2. T \in SUBSET Boxes
  OBVIOUS
<1>3. IsFiniteSet(T)
  BY <1>1, <1>2, FS_Subset
<1>4. S \in SUBSET T
  OBVIOUS
<1>5. IsFiniteSet(S) /\ Cardinality(S) <= Cardinality(T)
  BY <1>3, <1>4, FS_Subset
<1> QED BY <1>3, <1>5, FS_CardinalityType

\* An idle request has seen nothing.
LEMMA NoReqSound == NoReq \in SandboxReqs /\ NoReq.seen = {} /\ NoReq.stage = "none" /\ NoReq.box = 0 /\ NoReq.kept = {}
<1>1. <<>> \in Seq(Boxes)
  OBVIOUS
<1> QED BY <1>1 DEF NoReq, SandboxReqs

\* The invariant of the services holds at first.
LEMMA SandboxStarts == SandboxInit => SandboxInv
<1> SUFFICES ASSUME SandboxInit PROVE SandboxInv
  OBVIOUS
<1>1. SandboxTypeOK
  BY NoReqSound DEF SandboxInit, SandboxTypeOK, WorldStates
<1>2. \A q \in SandboxRequests : sandboxReq[q].seen = {} /\ sandboxReq[q].stage = "none"
  BY NoReqSound DEF SandboxInit
<1>3. EveryRunningIsListed
  BY DEF SandboxInit, EveryRunningIsListed, Running
<1> QED BY <1>1, <1>2, <1>3 DEF SandboxInv, SeenWas

\* A step keeps what the limit counts if nothing that a request saw begins to run that it
\* has not kept or that is not leaked, and the request does not begin to count.
LEMMA SparedShrinks ==
  ASSUME NEW old \in SandboxReqs, NEW new \in SandboxReqs, NEW w, NEW w2, NEW lk, NEW lk2,
         Cardinality(Spared(old, w, lk)) <= MaxSandboxes - 1, Spared(new, w2, lk2) \subseteq Spared(old, w, lk)
  PROVE  Cardinality(Spared(new, w2, lk2)) <= MaxSandboxes - 1
<1> DEFINE S == Spared(new, w2, lk2)
           T == Spared(old, w, lk)
<1>1. T \subseteq Boxes
  BY DEF Spared, SandboxReqs
<1> HIDE DEF S, T
<1>2. S \subseteq T
  BY DEF S, T
<1>3. Cardinality(S) <= Cardinality(T) /\ Cardinality(S) \in Nat /\ Cardinality(T) \in Nat
  BY <1>1, <1>2, FewerBoxes
<1>4. Cardinality(T) <= MaxSandboxes - 1
  BY DEF T
<1>5. Cardinality(S) <= MaxSandboxes - 1
  BY <1>3, <1>4, SandboxAssumption
<1> QED BY <1>5 DEF S

\* How a request goes on: it ends, or it keeps what it saw and leaves to others only what
\* does not run, is leaked or could not be paused.
GoesOn(old, new, w, lk) ==
  \/ new.seen = {} /\ new.stage # "pausing"
  \/ /\ new.seen = old.seen /\ old.kept \subseteq new.kept /\ (new.stage = "pausing" => old.stage = "pausing")
     /\ \A b \in old.seen : service # "process" /\ b \in Among(old.todo) /\ b \notin Among(new.todo) =>
          b \in new.kept \cup lk \/ w[b] \notin Running

\* What of the sandboxes is on the books.
OnTheBooks(b, kn, lk, rq) ==
  \/ service = "docker" \/ b \in kn \cup lk
  \/ \E q \in SandboxRequests : rq[q].box = b /\ rq[q].stage \in {"commit", "spawned"}

\* A sandbox that begins to run had not been started, or was resumed: those who count keep it.
LEMMA SandboxFrameStep ==
  ASSUME SandboxInv, service' = service, world' \in [Boxes -> WorldStates], known' \subseteq Boxes, leaked' \subseteq Boxes,
         sandboxReq' \in [SandboxRequests -> SandboxReqs], leaked \subseteq leaked',
         \A b \in Boxes : world'[b] \in Running => OnTheBooks(b, known', leaked', sandboxReq'),
         \A b \in Boxes : world[b] # "none" => world'[b] # "none",
         \A b \in Boxes : world'[b] \in Running /\ world[b] \notin Running =>
            \/ world[b] = "none"
            \/ /\ service = "remote" => b \in known' \cup leaked'
               /\ \A q \in SandboxRequests : sandboxReq'[q].stage = "pausing" => b \in sandboxReq'[q].kept,
         \A b \in Boxes : service = "remote" /\ world'[b] \in Running /\ b \in known \cup leaked => b \in known' \cup leaked',
         \A q \in SandboxRequests : GoesOn(sandboxReq[q], sandboxReq'[q], world', leaked')
  PROVE  SandboxInv'
<1>1. ASSUME NEW q \in SandboxRequests PROVE SeenWas(q, world, known, leaked)'
  <2> SUFFICES ASSUME NEW b \in sandboxReq'[q].seen
      PROVE world'[b] # "none" /\ (service = "remote" /\ world'[b] \in Running => b \in known' \cup leaked')
    BY DEF SeenWas
  <2>1. b \in sandboxReq[q].seen
    BY DEF GoesOn
  <2>2. b \in Boxes
    BY <2>1 DEF SandboxInv, SandboxTypeOK, SandboxReqs
  <2>3. world[b] # "none" /\ (service = "remote" /\ world[b] \in Running => b \in known \cup leaked)
    BY <2>1 DEF SandboxInv, SeenWas
  <2> QED BY <2>2, <2>3
<1>2. ASSUME NEW q \in SandboxRequests, service' # "process", sandboxReq'[q].stage = "pausing"
      PROVE  Cardinality(Spared(sandboxReq'[q], world', leaked')) <= MaxSandboxes - 1
  <2> DEFINE old == sandboxReq[q]
             new == sandboxReq'[q]
  <2>2. old \in SandboxReqs /\ new \in SandboxReqs
    BY DEF SandboxInv, SandboxTypeOK
  <2>6. CASE new.seen = {}
    <3>1. Spared(new, world', leaked') = {}
      BY <2>6 DEF Spared
    <3>2. Cardinality({}) = 0
      BY FS_EmptySet
    <3>3. 0 <= MaxSandboxes - 1
      BY SandboxAssumption
    <3> QED BY <3>1, <3>2, <3>3
  <2>7. CASE new.seen # {}
    <3>1. /\ new.seen = old.seen /\ old.kept \subseteq new.kept /\ old.stage = "pausing"
          /\ \A b \in old.seen : service # "process" /\ b \in Among(old.todo) /\ b \notin Among(new.todo) =>
               b \in new.kept \cup leaked' \/ world'[b] \notin Running
      BY <1>2, <2>7 DEF GoesOn
    <3>3. Cardinality(Spared(old, world, leaked)) <= MaxSandboxes - 1
      BY <1>2, <3>1 DEF SandboxInv
    <3>4. Spared(new, world', leaked') \subseteq Spared(old, world, leaked)
      <4> SUFFICES ASSUME NEW b \in new.seen, b \notin new.kept, b \notin leaked', b \notin Among(new.todo), world'[b] \in Running
          PROVE  b \in old.seen /\ b \notin old.kept /\ b \notin leaked /\ b \notin Among(old.todo) /\ world[b] \in Running
        BY DEF Spared
      <4>1. b \in Boxes /\ world[b] # "none"
        BY <3>1, <2>2 DEF SandboxInv, SeenWas, SandboxReqs
      <4>2. world[b] \in Running
        BY <4>1, <1>2
      <4> QED BY <3>1, <4>2, <1>2
    <3> HIDE DEF old, new
    <3>5. Cardinality(Spared(new, world', leaked')) <= MaxSandboxes - 1
      BY <2>2, <3>3, <3>4, SparedShrinks
    <3> QED BY <3>5 DEF new
  <2> QED BY <2>6, <2>7
<1>3. EveryRunningIsListed'
  <2> SUFFICES ASSUME NEW b \in Boxes, world'[b] \in Running
      PROVE  \/ Listed(b)' \/ b \in leaked'
             \/ \E q \in SandboxRequests : sandboxReq'[q].box = b /\ sandboxReq'[q].stage \in {"commit", "spawned"}
    BY DEF EveryRunningIsListed
  <2>1. OnTheBooks(b, known', leaked', sandboxReq')
    OBVIOUS
  <2> QED BY <2>1 DEF OnTheBooks, Listed, Running
<1>4. SandboxTypeOK'
  BY DEF SandboxInv, SandboxTypeOK
<1> QED BY <1>1, <1>2, <1>3, <1>4 DEF SandboxInv

\* What runs is on the books.
LEMMA RunsOnTheBooks ==
  ASSUME SandboxInv, NEW b \in Boxes, world[b] \in Running
  PROVE  OnTheBooks(b, known, leaked, sandboxReq)
<1>1. \/ Listed(b) \/ b \in leaked
      \/ \E q \in SandboxRequests : sandboxReq[q].box = b /\ sandboxReq[q].stage \in {"commit", "spawned"}
  BY DEF SandboxInv, EveryRunningIsListed
<1> QED BY <1>1 DEF OnTheBooks, Listed

\* A request that is not changed goes on, and one that ends does.
LEMMA SameGoesOn ==
  ASSUME NEW q \in SandboxRequests, NEW w, NEW lk
  PROVE  GoesOn(sandboxReq[q], sandboxReq[q], w, lk) /\ GoesOn(sandboxReq[q], NoReq, w, lk)
BY NoReqSound DEF GoesOn

\* One request goes on.
LEMMA OneGoesOn ==
  ASSUME SandboxInv, NEW q \in SandboxRequests, NEW new \in SandboxReqs, NEW w, NEW lk,
         GoesOn(sandboxReq[q], new, w, lk), sandboxReq' = [sandboxReq EXCEPT ![q] = new]
  PROVE  /\ sandboxReq' \in [SandboxRequests -> SandboxReqs] /\ sandboxReq'[q] = new
         /\ \A r \in SandboxRequests : r # q => sandboxReq'[r] = sandboxReq[r]
         /\ \A r \in SandboxRequests : GoesOn(sandboxReq[r], sandboxReq'[r], w, lk)
<1>1. sandboxReq \in [SandboxRequests -> SandboxReqs]
  BY DEF SandboxInv, SandboxTypeOK
<1>2. sandboxReq'[q] = new /\ \A r \in SandboxRequests : r # q => sandboxReq'[r] = sandboxReq[r]
  BY <1>1
<1>3. \A r \in SandboxRequests : GoesOn(sandboxReq[r], sandboxReq'[r], w, lk)
  <2> TAKE r \in SandboxRequests
  <2>1. CASE r = q
    BY <2>1, <1>2
  <2>2. CASE r # q
    BY <2>2, <1>2, SameGoesOn
  <2> QED BY <2>1, <2>2
<1> QED BY <1>1, <1>2, <1>3

\* A step that leaves the requests alone, and lets nothing begin to run, keeps the invariant
\* if what it takes off the books does not run.
LEMMA BoxStep ==
  ASSUME SandboxInv, service' = service, sandboxReq' = sandboxReq, leaked \subseteq leaked', leaked' \subseteq Boxes,
         known' \subseteq Boxes, NEW b \in Boxes, NEW s \in WorldStates \ {"none"},
         world' = [world EXCEPT ![b] = s] \/ world' = world, s \in Running => world[b] \in Running,
         \A x \in Boxes : world'[x] \in Running /\ x \in known \cup leaked => x \in known' \cup leaked'
  PROVE  SandboxInv'
<1>1. world \in [Boxes -> WorldStates] /\ sandboxReq \in [SandboxRequests -> SandboxReqs]
  BY DEF SandboxInv, SandboxTypeOK
<1>2. world' \in [Boxes -> WorldStates] /\ \A x \in Boxes : (x # b => world'[x] = world[x]) /\ world'[b] \in {s, world[b]}
  BY <1>1
<1>3. \A x \in Boxes : (world[x] # "none" => world'[x] # "none") /\ (world'[x] \in Running => world[x] \in Running)
  BY <1>2
<1>4. ASSUME NEW x \in Boxes, world'[x] \in Running PROVE OnTheBooks(x, known', leaked', sandboxReq')
  <2>1. OnTheBooks(x, known, leaked, sandboxReq)
    BY <1>3, <1>4, RunsOnTheBooks
  <2> QED BY <2>1, <1>4 DEF OnTheBooks
<1>5. \A q \in SandboxRequests : GoesOn(sandboxReq[q], sandboxReq'[q], world', leaked')
  BY SameGoesOn
<1> QED BY <1>1, <1>2, <1>3, <1>4, <1>5, SandboxFrameStep

\* The rest of a list of sandboxes.
LEMMA RestOfTodo ==
  ASSUME NEW s \in Seq(Boxes), s # <<>>
  PROVE  /\ Head(s) \in Boxes /\ Tail(s) \in Seq(Boxes) /\ Among(s) \subseteq Boxes
         /\ Among(s) = {Head(s)} \cup Among(Tail(s))
<1>1. Head(s) = s[1] /\ s[1] \in Boxes /\ Tail(s) \in Seq(Boxes) /\ Len(Tail(s)) = Len(s) - 1 /\ Len(s) \in Nat \ {0}
      /\ \A i \in 1..Len(Tail(s)) : Tail(s)[i] = s[i + 1]
  BY HeadTailProperties
<1>2. DOMAIN s = 1..Len(s) /\ DOMAIN Tail(s) = 1..(Len(s) - 1)
  BY <1>1
<1>3. ASSUME NEW i \in DOMAIN s PROVE s[i] \in {Head(s)} \cup Among(Tail(s)) /\ s[i] \in Boxes
  <2>1. CASE i = 1
    BY <2>1, <1>1
  <2>2. CASE i # 1
    <3>1. i - 1 \in 1..Len(Tail(s)) /\ i - 1 \in DOMAIN Tail(s) /\ (i - 1) + 1 = i
      BY <2>2, <1>1, <1>2
    <3>2. Tail(s)[i - 1] = s[i]
      BY <3>1, <1>1
    <3> QED BY <3>1, <3>2 DEF Among
  <2> QED BY <2>1, <2>2
<1>4. ASSUME NEW i \in DOMAIN Tail(s) PROVE Tail(s)[i] \in Among(s)
  <2>1. Tail(s)[i] = s[i + 1] /\ i + 1 \in DOMAIN s
    BY <1>1, <1>2
  <2> QED BY <2>1 DEF Among
<1>5. s[1] \in Among(s)
  BY <1>1, <1>2 DEF Among
<1> QED BY <1>1, <1>3, <1>4, <1>5 DEF Among

\* A request of the user arrives.
LEMMA ArrivesKeeps == ASSUME SandboxInv, NEW q \in SandboxRequests, Arrives(q) PROVE SandboxInv'
<1> DEFINE counted == {x \in Boxes : StatusRunning(x)}
<1>1. PICK op \in {"start", "resume"}, b \in {0} \cup Boxes :
        /\ (b = 0) <=> (op = "start")
        /\ sandboxReq' = [sandboxReq EXCEPT ![q] =
               [op |-> op, box |-> b, seen |-> counted, kept |-> {},
                todo  |-> IF service = "process" THEN <<>> ELSE ToPause(counted), stage |-> "pausing"]]
  BY DEF Arrives
<1>2. UNCHANGED <<service, world, known, port, portHolder, leaked>> /\ sandboxReq[q] = NoReq
  BY DEF Arrives
<1>3. /\ ToPause(counted) \in Seq(counted) /\ IsFiniteSet(counted)
      /\ Cardinality(counted \ Among(ToPause(counted))) <= MaxSandboxes - 1
  <2>1. PICK f : f = [x \in Boxes |-> x]
    OBVIOUS
  <2>2. counted \subseteq Boxes
    OBVIOUS
  <2> HIDE DEF counted
  <2>3. IsFiniteSet(counted) /\ Cardinality(counted) \in Nat
    BY <2>2, FewerBoxes
  <2>4. (\A x \in counted : f[x] \in Int) /\ (\A x, y \in counted : f[x] = f[y] => x = y)
    BY <2>1, <2>2, SandboxAssumption DEF Boxes
  <2>5. \A x \in counted : Elders(x, counted) = {y \in counted : f[y] <= f[x]}
    BY <2>1, <2>2 DEF Elders
  <2>6. PICK n \in Int : n = Cardinality(counted) - (MaxSandboxes - 1)
    BY <2>3, SandboxAssumption
  <2>7. n <= Cardinality(counted)
    BY <2>6, <2>3, SandboxAssumption
  <2>8. PICK v : v = ToPause(counted)
    OBVIOUS
  <2>9. v = [i \in 1..n |-> CHOOSE x \in counted : Cardinality(Elders(x, counted)) = i]
    BY <2>8, <2>6 DEF ToPause
  <2>10. DOMAIN v = 1..n /\ v = [i \in 1..n |-> v[i]]
    BY <2>9
  <2>11. ASSUME NEW i \in 1..n, \E c \in counted : Cardinality({y \in counted : f[y] <= f[c]}) = i
         PROVE  v[i] \in counted /\ Cardinality({y \in counted : f[y] <= f[v[i]]}) = i
    <3>1. PICK c \in counted : Cardinality({y \in counted : f[y] <= f[c]}) = i
      BY <2>11
    <3>2. Cardinality(Elders(c, counted)) = i
      BY <3>1, <2>5
    <3>3. v[i] \in counted /\ Cardinality(Elders(v[i], counted)) = i
      BY <3>2, <2>9
    <3> QED BY <3>3, <2>5
  <2>12. \A i \in 1..n : (\E c \in counted : Cardinality({x \in counted : f[x] <= f[c]}) = i)
                            => v[i] \in counted /\ Cardinality({x \in counted : f[x] <= f[v[i]]}) = i
    BY <2>11
  <2>14. IsFiniteSet(counted)
    BY <2>3
  <2>15. \A x \in counted : f[x] \in Int
    BY <2>4
  <2>16. \A x, y \in counted : f[x] = f[y] => x = y
    BY <2>4
  <2>17. DOMAIN v = 1..n
    BY <2>10
  <2>18. v = [i \in 1..n |-> v[i]]
    BY <2>10
  <2>19. v \in Seq(counted) /\ Cardinality(counted \ Among(v)) <= Cardinality(counted) - n
    BY ONLY <2>14, <2>15, <2>16, <2>7, <2>17, <2>18, <2>12, FirstOnes, n \in Int
  <2>13. Cardinality(counted) - n = MaxSandboxes - 1
    BY <2>6, <2>3, SandboxAssumption
  <2> QED BY <2>3, <2>19, <2>13, <2>8
<1> DEFINE new == sandboxReq'[q]
<1>4. counted \subseteq Boxes
  OBVIOUS
<1>5. ToPause(counted) \in Seq(Boxes)
  BY <1>3, <1>4, SeqMonotonic
<1>6. ASSUME NEW x \in counted PROVE world[x] # "none" /\ (service = "remote" /\ world[x] \in Running => x \in known)
  BY <1>6 DEF StatusRunning, ContainerRunning, RuntimeRunning, ProcessRunning, Running, SandboxInv, SandboxTypeOK
<1> HIDE DEF counted
<1>7. /\ new.seen = counted /\ new.kept = {} /\ new.stage = "pausing"
      /\ service # "process" => new.todo = ToPause(counted)
      /\ new \in SandboxReqs
  <2>0. <<>> \in Seq(Boxes)
    OBVIOUS
  <2>1. op = "resume" => b \in Boxes
    BY <1>1
  <2>2. new = [op |-> op, box |-> b, seen |-> counted, kept |-> {},
               todo  |-> IF service = "process" THEN <<>> ELSE ToPause(counted), stage |-> "pausing"]
    BY <1>1 DEF SandboxInv, SandboxTypeOK
  <2> HIDE DEF new
  <2> QED BY <1>4, <1>5, <2>0, <2>1, <2>2 DEF SandboxReqs
<1>8. \A r \in SandboxRequests : r # q => sandboxReq'[r] = sandboxReq[r]
  BY <1>1 DEF SandboxInv, SandboxTypeOK
<1>9. SandboxTypeOK'
  BY <1>1, <1>2, <1>7 DEF SandboxInv, SandboxTypeOK
<1>10. EveryRunningIsListed'
  <2>1. \A x \in Boxes : Listed(x)' = Listed(x)
    BY <1>2 DEF Listed
  <2> QED BY <2>1, <1>2, <1>8, NoReqSound DEF SandboxInv, EveryRunningIsListed
<1>11. ASSUME service # "process" PROVE Cardinality(Spared(new, world', leaked')) <= MaxSandboxes - 1
  <2>1. Spared(new, world', leaked') \subseteq counted \ Among(ToPause(counted))
    BY <1>7, <1>11 DEF Spared
  <2>2. counted \ Among(ToPause(counted)) \subseteq Boxes
    BY <1>4
  <2>3. PICK T : T = counted \ Among(ToPause(counted))
    OBVIOUS
  <2>4. PICK S : S = Spared(new, world', leaked')
    OBVIOUS
  <2>5. Cardinality(S) <= Cardinality(T) /\ Cardinality(S) \in Nat /\ Cardinality(T) \in Nat
    BY <2>1, <2>2, <2>3, <2>4, FewerBoxes
  <2>6. Cardinality(T) <= MaxSandboxes - 1
    BY <1>3, <2>3
  <2>7. Cardinality(S) <= MaxSandboxes - 1
    BY <2>5, <2>6, SandboxAssumption
  <2> QED BY <2>7, <2>4
<1>12. \A r \in SandboxRequests : SeenWas(r, world, known, leaked)'
  BY <1>2, <1>6, <1>7, <1>8 DEF SandboxInv, SeenWas
<1>13. \A r \in SandboxRequests : service' # "process" /\ sandboxReq'[r].stage = "pausing" =>
            Cardinality(Spared(sandboxReq'[r], world', leaked')) <= MaxSandboxes - 1
  BY <1>2, <1>8, <1>11 DEF SandboxInv
<1> QED BY <1>9, <1>10, <1>12, <1>13 DEF SandboxInv

\* One of the old sandboxes is paused, or could not be.
LEMMA PausesOldKeeps == ASSUME SandboxInv, NEW q \in SandboxRequests, PausesOld(q) PROVE SandboxInv'
<1> DEFINE old == sandboxReq[q]
           b == Head(old.todo)
<1>1. old \in SandboxReqs /\ old.stage = "pausing" /\ old.todo \in Seq(Boxes) /\ old.todo # <<>> /\ old.seen \subseteq Boxes
  BY DEF PausesOld, SandboxInv, SandboxTypeOK, SandboxReqs
<1>2. b \in Boxes /\ Tail(old.todo) \in Seq(Boxes) /\ Among(old.todo) = {b} \cup Among(Tail(old.todo))
  BY <1>1, RestOfTodo
<1>3. UNCHANGED <<service, known, leaked>> /\ known \subseteq Boxes /\ leaked \subseteq Boxes /\ world \in [Boxes -> WorldStates]
  BY DEF PausesOld, SandboxInv, SandboxTypeOK
<1>4. CASE Becomes(b, Paused(b)) /\ sandboxReq' = [sandboxReq EXCEPT ![q].todo = Tail(@)]
  <2>1. PICK new : new = [old EXCEPT !.todo = Tail(@)]
    OBVIOUS
  <2>2. new \in SandboxReqs /\ new.seen = old.seen /\ new.kept = old.kept /\ new.todo = Tail(old.todo) /\ new.stage = old.stage
        /\ new.box = old.box
    BY <2>1, <1>1, <1>2 DEF SandboxReqs
  <2>3. sandboxReq' = [sandboxReq EXCEPT ![q] = new]
    BY <1>4, <2>1
  <2>4. /\ world' \in [Boxes -> WorldStates] /\ \A x \in Boxes : x # b => world'[x] = world[x]
        /\ world'[b] = Paused(b)
    BY <1>2, <1>3, <1>4 DEF Becomes, Paused, WorldStates
  <2>5. \A x \in Boxes : (world[x] # "none" => world'[x] # "none") /\ (world'[x] \in Running => world[x] \in Running)
    BY <2>4 DEF Paused, Running
  <2>6. world'[b] \in Running => ~Listed(b)
    BY <2>4 DEF Paused, Running
  <2>7. b \in old.seen /\ service # "process" => b \in leaked \/ world'[b] \notin Running
    BY <2>5, <2>6, <1>2, <1>3 DEF Listed, SandboxInv, SandboxTypeOK, SeenWas, Running
  <2>8. GoesOn(old, new, world', leaked')
    BY <2>2, <2>7, <1>1, <1>2, <1>3 DEF GoesOn
  <2> HIDE DEF b
  <2>9. /\ sandboxReq' \in [SandboxRequests -> SandboxReqs] /\ sandboxReq'[q] = new
        /\ \A r \in SandboxRequests : r # q => sandboxReq'[r] = sandboxReq[r]
        /\ \A r \in SandboxRequests : GoesOn(sandboxReq[r], sandboxReq'[r], world', leaked')
    BY <2>2, <2>3, <2>8, OneGoesOn
  <2>10. \A r \in SandboxRequests : sandboxReq'[r].box = sandboxReq[r].box /\ sandboxReq'[r].stage = sandboxReq[r].stage
    BY <2>2, <2>9
  <2>11. ASSUME NEW x \in Boxes, world'[x] \in Running PROVE OnTheBooks(x, known', leaked', sandboxReq')
    <3>1. OnTheBooks(x, known, leaked, sandboxReq)
      BY <2>5, <2>11, RunsOnTheBooks
    <3> QED BY <3>1, <2>10, <1>3 DEF OnTheBooks
  <2> QED BY <1>3, <2>4, <2>5, <2>9, <2>11, SandboxFrameStep
<1>5. CASE sandboxReq' = [sandboxReq EXCEPT ![q].todo = Tail(@), ![q].kept = @ \cup {b}] /\ UNCHANGED world
  <2>1. PICK new : new = [old EXCEPT !.todo = Tail(@), !.kept = @ \cup {b}]
    OBVIOUS
  <2>2. new \in SandboxReqs /\ new.seen = old.seen /\ new.kept = old.kept \cup {b} /\ new.todo = Tail(old.todo) /\ new.stage = old.stage
        /\ new.box = old.box
    BY <2>1, <1>1, <1>2 DEF SandboxReqs
  <2>3. sandboxReq' = [sandboxReq EXCEPT ![q] = new]
    BY <1>5, <2>1 DEF SandboxInv, SandboxTypeOK
  <2>8. GoesOn(old, new, world', leaked')
    BY <2>2, <1>1, <1>2 DEF GoesOn
  <2> HIDE DEF b
  <2>9. /\ sandboxReq' \in [SandboxRequests -> SandboxReqs] /\ sandboxReq'[q] = new
        /\ \A r \in SandboxRequests : r # q => sandboxReq'[r] = sandboxReq[r]
        /\ \A r \in SandboxRequests : GoesOn(sandboxReq[r], sandboxReq'[r], world', leaked')
    BY <2>2, <2>3, <2>8, OneGoesOn
  <2>10. \A r \in SandboxRequests : sandboxReq'[r].box = sandboxReq[r].box /\ sandboxReq'[r].stage = sandboxReq[r].stage
    BY <2>2, <2>9
  <2>11. ASSUME NEW x \in Boxes, world'[x] \in Running PROVE OnTheBooks(x, known', leaked', sandboxReq')
    <3>1. OnTheBooks(x, known, leaked, sandboxReq)
      BY <1>5, <2>11, RunsOnTheBooks
    <3> QED BY <3>1, <2>10, <1>3 DEF OnTheBooks
  <2> QED BY <1>3, <1>5, <2>9, <2>11, SandboxFrameStep
<1> QED BY <1>4, <1>5 DEF PausesOld

\* A container is started, or is not.
LEMMA StartsContainerKeeps == ASSUME SandboxInv, NEW q \in SandboxRequests, StartsContainer(q) PROVE SandboxInv'
<1>1. UNCHANGED <<service, known, leaked>> /\ service = "docker" /\ known \subseteq Boxes /\ leaked \subseteq Boxes
      /\ world \in [Boxes -> WorldStates] /\ sandboxReq' = [sandboxReq EXCEPT ![q] = NoReq]
  BY DEF StartsContainer, Finish, SandboxInv, SandboxTypeOK
<1>2. /\ sandboxReq' \in [SandboxRequests -> SandboxReqs]
      /\ \A r \in SandboxRequests : GoesOn(sandboxReq[r], sandboxReq'[r], world', leaked')
  BY <1>1, NoReqSound, SameGoesOn, OneGoesOn
<1>3. (\E b \in Boxes : world[b] = "none" /\ world' = [world EXCEPT ![b] = "booting"]) \/ world' = world
  BY DEF StartsContainer, NextBox, Becomes
<1>4. world' \in [Boxes -> WorldStates] /\ \A x \in Boxes : world'[x] = world[x] \/ (world[x] = "none" /\ world'[x] = "booting")
  BY <1>1, <1>3 DEF WorldStates
<1> QED BY <1>1, <1>2, <1>4, SandboxFrameStep DEF OnTheBooks

\* A runtime is started, with its row not yet committed, or fails to.
LEMMA StartsRuntimeKeeps == ASSUME SandboxInv, NEW q \in SandboxRequests, StartsRuntime(q) PROVE SandboxInv'
<1> DEFINE old == sandboxReq[q]
<1>1. UNCHANGED service /\ service = "remote" /\ known \subseteq Boxes /\ leaked \subseteq Boxes
      /\ world \in [Boxes -> WorldStates] /\ old \in SandboxReqs /\ old.stage = "pausing" /\ old.op = "start"
  BY DEF StartsRuntime, Acts, SandboxInv, SandboxTypeOK
<1>2. PICK b \in Boxes : world[b] = "none" /\
        (\/ /\ Becomes(b, "booting")
            /\ sandboxReq' = [sandboxReq EXCEPT ![q].stage = "commit", ![q].box = b]
            /\ UNCHANGED <<known, leaked>>
         \/ /\ \E started, keepsRow \in BOOLEAN :
                /\ Becomes(b, IF started THEN "booting" ELSE "gone")
                /\ known' = known \cup IF keepsRow THEN {b} ELSE {}
                /\ leaked' = leaked \cup IF started /\ ~keepsRow THEN {b} ELSE {}
            /\ Finish(q))
  BY DEF StartsRuntime, NextBox
<1>3. CASE /\ Becomes(b, "booting")
           /\ sandboxReq' = [sandboxReq EXCEPT ![q].stage = "commit", ![q].box = b]
           /\ UNCHANGED <<known, leaked>>
  <2>1. PICK new : new = [old EXCEPT !.stage = "commit", !.box = b]
    OBVIOUS
  <2>2. new \in SandboxReqs /\ new.seen = old.seen /\ new.kept = old.kept /\ new.todo = old.todo /\ new.stage = "commit" /\ new.box = b
    BY <2>1, <1>1 DEF SandboxReqs
  <2>3. sandboxReq' = [sandboxReq EXCEPT ![q] = new]
    BY <1>3, <2>1 DEF SandboxInv, SandboxTypeOK
  <2>4. GoesOn(old, new, world', leaked')
    BY <2>2 DEF GoesOn
  <2>5. /\ sandboxReq' \in [SandboxRequests -> SandboxReqs] /\ sandboxReq'[q] = new
        /\ \A r \in SandboxRequests : r # q => sandboxReq'[r] = sandboxReq[r]
        /\ \A r \in SandboxRequests : GoesOn(sandboxReq[r], sandboxReq'[r], world', leaked')
    BY <2>2, <2>3, <2>4, OneGoesOn
  <2>6. world' \in [Boxes -> WorldStates] /\ world'[b] = "booting" /\ \A x \in Boxes : x # b => world'[x] = world[x]
    BY <1>1, <1>3 DEF WorldStates, Becomes
  <2>7. ASSUME NEW x \in Boxes, world'[x] \in Running PROVE OnTheBooks(x, known', leaked', sandboxReq')
    <3>1. CASE x = b
      BY <3>1, <2>2, <2>5 DEF OnTheBooks
    <3>2. CASE x # b
      <4>1. OnTheBooks(x, known, leaked, sandboxReq)
        BY <2>6, <2>7, <3>2, RunsOnTheBooks
      <4> QED BY <4>1, <2>5, <1>1, <1>3 DEF OnTheBooks
    <3> QED BY <3>1, <3>2
  <2> QED BY <1>1, <1>2, <1>3, <2>5, <2>6, <2>7, SandboxFrameStep
<1>4. CASE /\ \E started, keepsRow \in BOOLEAN :
                /\ Becomes(b, IF started THEN "booting" ELSE "gone")
                /\ known' = known \cup IF keepsRow THEN {b} ELSE {}
                /\ leaked' = leaked \cup IF started /\ ~keepsRow THEN {b} ELSE {}
           /\ Finish(q)
  <2>1. PICK started, keepsRow \in BOOLEAN :
                /\ Becomes(b, IF started THEN "booting" ELSE "gone")
                /\ known' = known \cup IF keepsRow THEN {b} ELSE {}
                /\ leaked' = leaked \cup IF started /\ ~keepsRow THEN {b} ELSE {}
    BY <1>4
  <2>2. sandboxReq' = [sandboxReq EXCEPT ![q] = NoReq]
    BY <1>4 DEF Finish
  <2>3. /\ sandboxReq' \in [SandboxRequests -> SandboxReqs] /\ sandboxReq'[q] = NoReq
        /\ \A r \in SandboxRequests : r # q => sandboxReq'[r] = sandboxReq[r]
        /\ \A r \in SandboxRequests : GoesOn(sandboxReq[r], sandboxReq'[r], world', leaked')
    BY <2>2, NoReqSound, SameGoesOn, OneGoesOn
  <2>4. world' \in [Boxes -> WorldStates] /\ world'[b] \in {"booting", "gone"} /\ (\A x \in Boxes : x # b => world'[x] = world[x])
        /\ (world'[b] = "booting" => started)
    BY <1>1, <2>1 DEF WorldStates, Becomes
  <2>5. known \subseteq known' /\ leaked \subseteq leaked' /\ known' \subseteq Boxes /\ leaked' \subseteq Boxes
        /\ (started => b \in known' \cup leaked')
    BY <1>1, <2>1
  <2>6. ASSUME NEW x \in Boxes, world'[x] \in Running PROVE OnTheBooks(x, known', leaked', sandboxReq')
    <3>1. CASE x = b
      BY <3>1, <2>4, <2>5, <2>6 DEF OnTheBooks, Running
    <3>2. CASE x # b
      <4>1. OnTheBooks(x, known, leaked, sandboxReq)
        BY <2>4, <2>6, <3>2, RunsOnTheBooks
      <4> QED BY <4>1, <2>3, <2>5, <1>1 DEF OnTheBooks
    <3> QED BY <3>1, <3>2
  <2> QED BY <1>1, <1>2, <2>3, <2>4, <2>5, <2>6, SandboxFrameStep
<1> QED BY <1>2, <1>3, <1>4

\* The row of a request is committed when the request ends.
LEMMA CommitsKeeps == ASSUME SandboxInv, NEW q \in SandboxRequests, Commits(q) PROVE SandboxInv'
<1>1. UNCHANGED <<service, world, leaked>> /\ known \subseteq Boxes /\ leaked \subseteq Boxes
      /\ world \in [Boxes -> WorldStates] /\ sandboxReq' = [sandboxReq EXCEPT ![q] = NoReq]
      /\ sandboxReq[q].box \in Boxes /\ known' = known \cup {sandboxReq[q].box}
  BY DEF Commits, Finish, SandboxInv, SandboxTypeOK, SandboxReqs
<1>2. /\ sandboxReq' \in [SandboxRequests -> SandboxReqs]
      /\ \A r \in SandboxRequests : r # q => sandboxReq'[r] = sandboxReq[r]
      /\ \A r \in SandboxRequests : GoesOn(sandboxReq[r], sandboxReq'[r], world', leaked')
  BY <1>1, NoReqSound, SameGoesOn, OneGoesOn
<1>3. ASSUME NEW x \in Boxes, world'[x] \in Running PROVE OnTheBooks(x, known', leaked', sandboxReq')
  <2>1. OnTheBooks(x, known, leaked, sandboxReq)
    BY <1>1, <1>3, RunsOnTheBooks
  <2> QED BY <2>1, <1>1, <1>2 DEF OnTheBooks
<1>4. known' \subseteq Boxes
  BY <1>1
<1> QED BY <1>1, <1>2, <1>3, <1>4, SandboxFrameStep

\* A process is spawned.
LEMMA SpawnsKeeps == ASSUME SandboxInv, NEW q \in SandboxRequests, Spawns(q) PROVE SandboxInv'
<1> DEFINE old == sandboxReq[q]
<1>1. UNCHANGED <<service, known, leaked>> /\ service = "process" /\ known \subseteq Boxes /\ leaked \subseteq Boxes
      /\ world \in [Boxes -> WorldStates] /\ old \in SandboxReqs /\ old.stage = "pausing"
  BY DEF Spawns, Acts, SandboxInv, SandboxTypeOK
<1>2. PICK b \in Boxes : world[b] = "none" /\ Becomes(b, "booting")
           /\ sandboxReq' = [sandboxReq EXCEPT ![q].stage = "spawned", ![q].box = b]
  BY DEF Spawns, NextBox
<1>3. PICK new : new = [old EXCEPT !.stage = "spawned", !.box = b]
  OBVIOUS
<1>4. new \in SandboxReqs /\ new.seen = old.seen /\ new.kept = old.kept /\ new.todo = old.todo /\ new.stage = "spawned" /\ new.box = b
  BY <1>1, <1>3 DEF SandboxReqs
<1>5. sandboxReq' = [sandboxReq EXCEPT ![q] = new]
  BY <1>2, <1>3 DEF SandboxInv, SandboxTypeOK
<1>6. GoesOn(old, new, world', leaked')
  BY <1>4 DEF GoesOn
<1>7. /\ sandboxReq' \in [SandboxRequests -> SandboxReqs] /\ sandboxReq'[q] = new
      /\ \A r \in SandboxRequests : r # q => sandboxReq'[r] = sandboxReq[r]
      /\ \A r \in SandboxRequests : GoesOn(sandboxReq[r], sandboxReq'[r], world', leaked')
  BY <1>4, <1>5, <1>6, OneGoesOn
<1>8. world' \in [Boxes -> WorldStates] /\ world'[b] = "booting" /\ \A x \in Boxes : x # b => world'[x] = world[x]
  BY <1>1, <1>2 DEF WorldStates, Becomes
<1>9. ASSUME NEW x \in Boxes, world'[x] \in Running PROVE OnTheBooks(x, known', leaked', sandboxReq')
  <2>1. CASE x = b
    BY <2>1, <1>4, <1>7 DEF OnTheBooks
  <2>2. CASE x # b
    <3>1. OnTheBooks(x, known, leaked, sandboxReq)
      BY <1>8, <1>9, <2>2, RunsOnTheBooks
    <3> QED BY <3>1, <1>7, <1>1 DEF OnTheBooks
  <2> QED BY <2>1, <2>2
<1> QED BY <1>1, <1>2, <1>7, <1>8, <1>9, SandboxFrameStep

\* A process is registered, or has exited.
LEMMA RegistersKeeps == ASSUME SandboxInv, NEW q \in SandboxRequests, Registers(q) PROVE SandboxInv'
<1> DEFINE old == sandboxReq[q]
           b == old.box
<1>1. UNCHANGED <<service, world, leaked>> /\ known \subseteq Boxes /\ leaked \subseteq Boxes
      /\ world \in [Boxes -> WorldStates] /\ old \in SandboxReqs /\ old.stage = "spawned" /\ b \in Boxes
  BY DEF Registers, SandboxInv, SandboxTypeOK, SandboxReqs
<1>2. PICK new : new = IF world[b] = "gone" THEN NoReq ELSE [old EXCEPT !.stage = "waiting"]
  OBVIOUS
<1>3. new \in SandboxReqs /\ GoesOn(old, new, world', leaked')
  BY <1>1, <1>2, NoReqSound DEF SandboxReqs, GoesOn
<1>4. sandboxReq' = [sandboxReq EXCEPT ![q] = new] /\ known \subseteq known' /\ known' \subseteq Boxes
      /\ (world[b] = "gone" \/ b \in known')
  BY <1>1, <1>2 DEF Registers, Finish, Moves
<1>5. /\ sandboxReq' \in [SandboxRequests -> SandboxReqs]
      /\ \A r \in SandboxRequests : r # q => sandboxReq'[r] = sandboxReq[r]
      /\ \A r \in SandboxRequests : GoesOn(sandboxReq[r], sandboxReq'[r], world', leaked')
  BY <1>3, <1>4, OneGoesOn
<1>6. ASSUME NEW x \in Boxes, world'[x] \in Running PROVE OnTheBooks(x, known', leaked', sandboxReq')
  <2>1. OnTheBooks(x, known, leaked, sandboxReq)
    BY <1>1, <1>6, RunsOnTheBooks
  <2> QED BY <2>1, <1>1, <1>4, <1>5, <1>6 DEF OnTheBooks, Running
<1> QED BY <1>1, <1>4, <1>5, <1>6, SandboxFrameStep

\* The process of a request answers.
LEMMA SeesReadyKeeps == ASSUME SandboxInv, NEW q \in SandboxRequests, SeesReady(q) PROVE SandboxInv'
<1>1. UNCHANGED <<service, world, known, leaked>> /\ known \subseteq Boxes /\ leaked \subseteq Boxes
      /\ world \in [Boxes -> WorldStates] /\ sandboxReq' = [sandboxReq EXCEPT ![q] = NoReq] /\ sandboxReq[q].stage = "waiting"
  BY DEF SeesReady, Finish, SandboxInv, SandboxTypeOK
<1>2. /\ sandboxReq' \in [SandboxRequests -> SandboxReqs]
      /\ \A r \in SandboxRequests : r # q => sandboxReq'[r] = sandboxReq[r]
      /\ \A r \in SandboxRequests : GoesOn(sandboxReq[r], sandboxReq'[r], world', leaked')
  BY <1>1, NoReqSound, SameGoesOn, OneGoesOn
<1>3. ASSUME NEW x \in Boxes, world'[x] \in Running PROVE OnTheBooks(x, known', leaked', sandboxReq')
  <2>1. OnTheBooks(x, known, leaked, sandboxReq)
    BY <1>1, <1>3, RunsOnTheBooks
  <2> QED BY <2>1, <1>1, <1>2 DEF OnTheBooks
<1> QED BY <1>1, <1>2, <1>3, SandboxFrameStep

\* A process that did not answer in time is deleted.
LEMMA GivesUpKeeps == ASSUME SandboxInv, NEW q \in SandboxRequests, GivesUp(q) PROVE SandboxInv'
<1> DEFINE b == sandboxReq[q].box
<1>1. UNCHANGED <<service, leaked>> /\ known \subseteq Boxes /\ leaked \subseteq Boxes /\ b \in Boxes
      /\ world \in [Boxes -> WorldStates] /\ sandboxReq' = [sandboxReq EXCEPT ![q] = NoReq] /\ sandboxReq[q].stage = "waiting"
  BY DEF GivesUp, Finish, SandboxInv, SandboxTypeOK, SandboxReqs
<1>2. /\ sandboxReq' \in [SandboxRequests -> SandboxReqs]
      /\ \A r \in SandboxRequests : r # q => sandboxReq'[r] = sandboxReq[r]
      /\ \A r \in SandboxRequests : GoesOn(sandboxReq[r], sandboxReq'[r], world', leaked')
  BY <1>1, NoReqSound, SameGoesOn, OneGoesOn
<1>3. \/ world' = [world EXCEPT ![b] = "gone"] /\ known' = known \ {b}
      \/ world' = world /\ known' = known
  BY DEF GivesUp, Terminates, Becomes
<1> HIDE DEF b
<1>4. world' \in [Boxes -> WorldStates] /\ known' \subseteq Boxes /\ \A x \in Boxes :
        \/ x = b /\ world'[x] = "gone"
        \/ world'[x] = world[x] /\ (x \in known => x \in known')
  BY <1>1, <1>3 DEF WorldStates
<1>5. ASSUME NEW x \in Boxes, world'[x] \in Running PROVE OnTheBooks(x, known', leaked', sandboxReq')
  <2>1. world'[x] = world[x] /\ (x \in known => x \in known')
    BY <1>4, <1>5 DEF Running
  <2>2. OnTheBooks(x, known, leaked, sandboxReq)
    BY <2>1, <1>5, RunsOnTheBooks
  <2> QED BY <2>1, <2>2, <1>1, <1>2 DEF OnTheBooks
<1>6. \A x \in Boxes : world[x] # "none" => world'[x] # "none"
  BY <1>4
<1>7. \A x \in Boxes : world'[x] \in Running => world'[x] = world[x] /\ (x \in known => x \in known')
  BY <1>4 DEF Running
<1> QED BY <1>1, <1>2, <1>4, <1>5, <1>6, <1>7, SandboxFrameStep

\* A sandbox is resumed: the requests that count keep it.
LEMMA ResumesKeeps == ASSUME SandboxInv, NEW q \in SandboxRequests, ResumesSandbox(q) PROVE SandboxInv'
<1> DEFINE b == sandboxReq[q].box
<1>1. UNCHANGED <<service, known, leaked>> /\ known \subseteq Boxes /\ leaked \subseteq Boxes /\ b \in Boxes
      /\ world \in [Boxes -> WorldStates] /\ sandboxReq[q].stage = "pausing"
      /\ sandboxReq \in [SandboxRequests -> SandboxReqs]
  BY DEF ResumesSandbox, Acts, SandboxInv, SandboxTypeOK, SandboxReqs
<1>2. CASE Finish(q) /\ UNCHANGED world
  <2>1. sandboxReq' = [sandboxReq EXCEPT ![q] = NoReq]
    BY <1>2 DEF Finish
  <2>2. /\ sandboxReq' \in [SandboxRequests -> SandboxReqs]
        /\ \A r \in SandboxRequests : r # q => sandboxReq'[r] = sandboxReq[r]
        /\ \A r \in SandboxRequests : GoesOn(sandboxReq[r], sandboxReq'[r], world', leaked')
    BY <2>1, NoReqSound, SameGoesOn, OneGoesOn
  <2>3. ASSUME NEW x \in Boxes, world'[x] \in Running PROVE OnTheBooks(x, known', leaked', sandboxReq')
    <3>1. OnTheBooks(x, known, leaked, sandboxReq)
      BY <1>2, <2>3, RunsOnTheBooks
    <3> QED BY <3>1, <1>1, <2>2 DEF OnTheBooks
  <2> QED BY <1>1, <1>2, <2>2, <2>3, SandboxFrameStep
<1>3. CASE /\ Listed(b) /\ world[b] \in {"paused", "exited"}
           /\ Becomes(b, Resumed(b))
           /\ sandboxReq' = [r \in SandboxRequests |->
                 IF r = q THEN NoReq ELSE [sandboxReq[r] EXCEPT !.kept = @ \cup {b}]]
  <2> HIDE DEF b
  <2>1. /\ world' \in [Boxes -> WorldStates] /\ (\A x \in Boxes : x # b => world'[x] = world[x])
        /\ world'[b] \in Running /\ world[b] # "none"
    BY <1>1, <1>3 DEF Becomes, Resumed, WorldStates, Running
  <2>2. sandboxReq'[q] = NoReq
    BY <1>3
  <2>3. ASSUME NEW r \in SandboxRequests, r # q
        PROVE  /\ sandboxReq'[r] \in SandboxReqs /\ sandboxReq'[r].kept = sandboxReq[r].kept \cup {b}
               /\ sandboxReq'[r].seen = sandboxReq[r].seen /\ sandboxReq'[r].todo = sandboxReq[r].todo
               /\ sandboxReq'[r].stage = sandboxReq[r].stage /\ sandboxReq'[r].box = sandboxReq[r].box
    <3>1. PICK o \in SandboxReqs : o = sandboxReq[r]
      BY <1>1
    <3>2. sandboxReq'[r] = [o EXCEPT !.kept = @ \cup {b}]
      BY <1>3, <2>3, <3>1
    <3>3. PICK n : n = [o EXCEPT !.kept = @ \cup {b}]
      OBVIOUS
    <3>4. o.kept \cup {b} \in SUBSET Boxes
      BY <3>1, <1>1 DEF SandboxReqs
    <3>5. n \in SandboxReqs /\ n.kept = o.kept \cup {b} /\ n.seen = o.seen /\ n.todo = o.todo /\ n.stage = o.stage /\ n.box = o.box
      BY <3>3, <3>4 DEF SandboxReqs
    <3> QED BY <3>1, <3>2, <3>3, <3>5
  <2>4. \A r \in SandboxRequests : sandboxReq'[r] \in SandboxReqs /\ GoesOn(sandboxReq[r], sandboxReq'[r], world', leaked')
    <3> TAKE r \in SandboxRequests
    <3>1. CASE r = q
      BY <3>1, <2>2, NoReqSound, SameGoesOn
    <3>2. CASE r # q
      BY <3>2, <2>3 DEF GoesOn
    <3> QED BY <3>1, <3>2
  <2>5. sandboxReq' \in [SandboxRequests -> SandboxReqs]
    BY <1>3, <2>4
  <2>6. service = "docker" \/ b \in known'
    BY <1>1, <1>3 DEF Listed
  <2>7. ASSUME NEW x \in Boxes, world'[x] \in Running PROVE OnTheBooks(x, known', leaked', sandboxReq')
    <3>1. CASE x = b
      BY <3>1, <2>6 DEF OnTheBooks
    <3>2. CASE x # b
      <4>1. OnTheBooks(x, known, leaked, sandboxReq)
        BY <2>1, <2>7, <3>2, RunsOnTheBooks
      <4> QED BY <4>1, <2>3, <1>1 DEF OnTheBooks
    <3> QED BY <3>1, <3>2
  <2>8. \A r \in SandboxRequests : sandboxReq'[r].stage = "pausing" => b \in sandboxReq'[r].kept
    BY <2>2, <2>3, NoReqSound
  <2>9. \A x \in Boxes : world'[x] \in Running /\ world[x] \notin Running => x = b
    BY <2>1
  <2>10. \A x \in Boxes : world[x] # "none" => world'[x] # "none"
    BY <2>1 DEF Running
  <2> QED BY <1>1, <2>1, <2>4, <2>5, <2>6, <2>7, <2>8, <2>9, <2>10, SandboxFrameStep
<1> QED BY <1>2, <1>3 DEF ResumesSandbox

\* What users, deaths and boots do to one sandbox.
LEMMA BoxActionsKeep ==
  ASSUME SandboxInv, NEW b \in Boxes,
         Pauses(b) \/ DeletesContainer(b) \/ DeletesRuntime(b) \/ DeletesProcess(b) \/ Boots(b) \/ SandboxDies(b)
  PROVE  SandboxInv'
<1>1. known \subseteq Boxes /\ leaked \subseteq Boxes /\ world \in [Boxes -> WorldStates]
      /\ {"gone", "exited", "paused", "up"} \subseteq WorldStates \ {"none"}
  BY DEF SandboxInv, SandboxTypeOK, WorldStates
<1>2. CASE Pauses(b)
  <2>1. UNCHANGED <<service, known, leaked, sandboxReq>> /\ world' = [world EXCEPT ![b] = "paused"] /\ "paused" \notin Running
    BY <1>2 DEF Pauses, Becomes, Paused, Running
  <2> QED BY <1>1, <2>1, BoxStep
<1>3. CASE DeletesContainer(b)
  <2>1. UNCHANGED <<service, known, leaked, sandboxReq>> /\ "gone" \notin Running /\ "exited" \notin Running
        /\ (world' = [world EXCEPT ![b] = "gone"] \/ world' = [world EXCEPT ![b] = "exited"])
    BY <1>3 DEF DeletesContainer, Becomes, Running
  <2>2. CASE world' = [world EXCEPT ![b] = "gone"]
    BY <1>1, <2>1, <2>2, BoxStep
  <2>3. CASE world' = [world EXCEPT ![b] = "exited"]
    BY <1>1, <2>1, <2>3, BoxStep
  <2> QED BY <2>1, <2>2, <2>3
<1>4. CASE DeletesRuntime(b)
  <2>1. UNCHANGED <<service, sandboxReq>> /\ "gone" \notin Running /\ "gone" \in WorldStates \ {"none"}
        /\ leaked \subseteq leaked' /\ leaked' \subseteq Boxes /\ known' \subseteq Boxes
        /\ (world' = [world EXCEPT ![b] = "gone"] \/ world' = world)
        /\ \A x \in Boxes : world'[x] \in Running /\ x \in known \cup leaked => x \in known' \cup leaked'
    BY <1>1, <1>4 DEF DeletesRuntime, Becomes, Running
  <2> QED BY <2>1, BoxStep
<1>5. CASE DeletesProcess(b)
  <2>1. UNCHANGED <<service, sandboxReq, leaked>> /\ "gone" \notin Running /\ "gone" \in WorldStates \ {"none"}
        /\ known' = known \ {b} /\ world' = [world EXCEPT ![b] = "gone"] /\ world'[b] = "gone"
    BY <1>1, <1>5 DEF DeletesProcess, Terminates, Becomes, Running
  <2>2. \A x \in Boxes : world'[x] \in Running /\ x \in known \cup leaked => x \in known' \cup leaked'
    BY <2>1
  <2>3. known' \subseteq Boxes /\ leaked' \subseteq Boxes /\ leaked \subseteq leaked'
    BY <1>1, <2>1
  <2> QED BY <2>1, <2>2, <2>3, BoxStep
<1>6. CASE Boots(b)
  <2>1. UNCHANGED <<service, known, leaked, sandboxReq>> /\ world[b] \in Running
        /\ (world' = [world EXCEPT ![b] = "up"] \/ world' = [world EXCEPT ![b] = "gone"]) /\ "gone" \notin Running
    BY <1>6 DEF Boots, Becomes, Running
  <2>2. CASE world' = [world EXCEPT ![b] = "up"]
    BY <1>1, <2>1, <2>2, BoxStep
  <2>3. CASE world' = [world EXCEPT ![b] = "gone"]
    BY <1>1, <2>1, <2>3, BoxStep
  <2> QED BY <2>1, <2>2, <2>3
<1>7. CASE SandboxDies(b)
  <2>1. UNCHANGED <<service, known, leaked, sandboxReq>> /\ "gone" \notin Running /\ "exited" \notin Running
        /\ (world' = [world EXCEPT ![b] = "gone"] \/ world' = [world EXCEPT ![b] = "exited"])
    BY <1>7 DEF SandboxDies, Becomes, Running
  <2>2. CASE world' = [world EXCEPT ![b] = "gone"]
    BY <1>1, <2>1, <2>2, BoxStep
  <2>3. CASE world' = [world EXCEPT ![b] = "exited"]
    BY <1>1, <2>1, <2>3, BoxStep
  <2> QED BY <2>1, <2>2, <2>3
<1> QED BY <1>2, <1>3, <1>4, <1>5, <1>6, <1>7

\* Every step of the services keeps their invariant.
LEMMA SandboxSteps == SandboxInv /\ SandboxNext => SandboxInv'
<1> SUFFICES ASSUME SandboxInv, SandboxNext PROVE SandboxInv'
  OBVIOUS
<1>1. CASE \E q \in SandboxRequests :
             \/ Arrives(q) \/ PausesOld(q) \/ StartsContainer(q) \/ StartsRuntime(q) \/ Commits(q)
             \/ Spawns(q) \/ Registers(q) \/ SeesReady(q) \/ GivesUp(q) \/ ResumesSandbox(q)
  BY <1>1, ArrivesKeeps, PausesOldKeeps, StartsContainerKeeps, StartsRuntimeKeeps, CommitsKeeps, SpawnsKeeps,
     RegistersKeeps, SeesReadyKeeps, GivesUpKeeps, ResumesKeeps
<1>2. CASE \E b \in Boxes :
             \/ Pauses(b) \/ DeletesContainer(b) \/ DeletesRuntime(b) \/ DeletesProcess(b)
             \/ Boots(b) \/ SandboxDies(b)
  BY <1>2, BoxActionsKeep
<1> QED BY <1>1, <1>2 DEF SandboxNext

\* A step of another part leaves it alone.
LEMMA SandboxFrame == SandboxInv /\ UNCHANGED sandboxVars => SandboxInv'
<1> SUFFICES ASSUME SandboxInv, UNCHANGED sandboxVars PROVE SandboxInv'
  OBVIOUS
<1>1. UNCHANGED <<service, world, known, leaked, sandboxReq>>
  BY DEF sandboxVars
<1>2. /\ known' \subseteq Boxes /\ leaked' \subseteq Boxes /\ world' \in [Boxes -> WorldStates]
      /\ sandboxReq' \in [SandboxRequests -> SandboxReqs]
  BY <1>1 DEF SandboxInv, SandboxTypeOK
<1>3. \A x \in Boxes : world'[x] \in Running => OnTheBooks(x, known', leaked', sandboxReq')
  BY <1>1, RunsOnTheBooks DEF OnTheBooks
<1>4. \A r \in SandboxRequests : GoesOn(sandboxReq[r], sandboxReq'[r], world', leaked')
  BY <1>1, SameGoesOn
<1> QED BY <1>1, <1>2, <1>3, <1>4, SandboxFrameStep

\* What it tells: what runs is accounted for, and the limit is kept as far as a count can see.
LEMMA SandboxTells == SandboxInv => SandboxesTracked
<1> SUFFICES ASSUME SandboxInv PROVE SandboxesTracked
  OBVIOUS
<1>1. ASSUME service # "process", NEW q \in SandboxRequests, sandboxReq[q].stage = "pausing", sandboxReq[q].todo = <<>>
      PROVE  Cardinality({b \in sandboxReq[q].seen \ (sandboxReq[q].kept \cup leaked) : world[b] \in Running}) <= MaxSandboxes - 1
  <2>1. Among(sandboxReq[q].todo) = {}
    BY <1>1 DEF Among
  <2>2. Spared(sandboxReq[q], world, leaked) = {b \in sandboxReq[q].seen \ (sandboxReq[q].kept \cup leaked) : world[b] \in Running}
    BY <2>1 DEF Spared
  <2>3. Cardinality(Spared(sandboxReq[q], world, leaked)) <= MaxSandboxes - 1
    BY <1>1 DEF SandboxInv
  <2> QED BY <2>2, <2>3
<1> QED BY <1>1 DEF SandboxesTracked, LimitKept, SandboxInv

-----------------------------------------------------------------------------
(* Nested conversations: the books of the manager and the containers agree.   *)

\* The rest of a list of conversations to close.
LEMMA RestOfVictims ==
  ASSUME NEW s \in Seq(NestedConvs), s # <<>>
  PROVE  /\ Head(s) \in NestedConvs /\ Tail(s) \in Seq(NestedConvs)
         /\ Among(s) = {Head(s)} \cup Among(Tail(s))
<1>1. Head(s) = s[1] /\ s[1] \in NestedConvs /\ Tail(s) \in Seq(NestedConvs) /\ Len(Tail(s)) = Len(s) - 1 /\ Len(s) \in Nat \ {0}
      /\ \A i \in 1..Len(Tail(s)) : Tail(s)[i] = s[i + 1]
  BY HeadTailProperties
<1>2. DOMAIN s = 1..Len(s) /\ DOMAIN Tail(s) = 1..(Len(s) - 1)
  BY <1>1
<1>3. ASSUME NEW i \in DOMAIN s PROVE s[i] \in {Head(s)} \cup Among(Tail(s))
  <2>1. CASE i = 1
    BY <2>1, <1>1
  <2>2. CASE i # 1
    <3>1. i - 1 \in 1..Len(Tail(s)) /\ i - 1 \in DOMAIN Tail(s) /\ (i - 1) + 1 = i
      BY <2>2, <1>1, <1>2
    <3>2. Tail(s)[i - 1] = s[i]
      BY <3>1, <1>1
    <3> QED BY <3>1, <3>2 DEF Among
  <2> QED BY <2>1, <2>2
<1>4. ASSUME NEW i \in DOMAIN Tail(s) PROVE Tail(s)[i] \in Among(s)
  <2>1. Tail(s)[i] = s[i + 1] /\ i + 1 \in DOMAIN s
    BY <1>1, <1>2
  <2> QED BY <2>1 DEF Among
<1>5. s[1] \in Among(s)
  BY <1>1, <1>2 DEF Among
<1> QED BY <1>1, <1>3, <1>4, <1>5 DEF Among

\* What a container, a request and a task can be.
NestStates == [state : {"none", "running", "exited"}, gen : 0..2, served : BOOLEAN]
NestAsks ==
  {r \in [at : {"idle", "evict", "build", "init", "answer", "done"}, sid : NestedConvs \cup {0}, victims : Seq(NestedConvs),
          alone : BOOLEAN] : r.at # "idle" => r.sid \in NestedConvs}
NestTasks == [by : NestedRequests, sid : NestedConvs, gen : 1..2, step : Nat]

\* The kinds of values of the manager; conversations were not updated at the same time.
NestedTypeOK ==
  /\ nestedBoxes \in [NestedConvs -> NestStates] /\ nestedAsk \in [NestedRequests -> NestAsks]
  /\ \A p \in NestedRequests : nestedAsk[p].at = "idle" => nestedAsk[p].alone
  /\ startingIds \subseteq NestedConvs /\ nestedTasks \subseteq NestTasks
  /\ recency \in [NestedConvs -> 1..Cardinality(NestedConvs)] /\ IsInjective(recency)

\* A start that has not got to its container yet.
InProgress(p) == nestedAsk[p].at \in {"evict", "build", "init"}
Builds(p) == nestedAsk[p].at \in {"build", "init"}

\* A start past the limit is booked as starting, unless something ended it from outside.
StartsAreBooked == \A p \in NestedRequests : Builds(p) => nestedAsk[p].sid \in startingIds \cup spoiled
\* Two starts of one conversation, or a start and the task of another, have met.
MeetingsSpoil ==
  \A p \in NestedRequests : InProgress(p) =>
    /\ \A q \in NestedRequests : InProgress(q) /\ nestedAsk[q].sid = nestedAsk[p].sid => q = p \/ nestedAsk[p].sid \in spoiled
    /\ \A k \in nestedTasks : k.sid = nestedAsk[p].sid => nestedAsk[p].sid \in spoiled
\* A start whose conversation runs before it gets there has met another.
RunningSpoils == \A p \in NestedRequests : InProgress(p) /\ nestedAsk[p].sid \in Boxed => nestedAsk[p].sid \in spoiled
\* While no two starts have been in progress at once the limit leaves room for the one that is.
RoomIsLeft ==
  (\A p \in NestedRequests : nestedAsk[p].alone) =>
    /\ \A p, q \in NestedRequests : InProgress(p) /\ InProgress(q) => p = q
    /\ \A p \in NestedRequests :
         /\ nestedAsk[p].at = "evict" => Cardinality(Boxed \ Among(nestedAsk[p].victims)) <= MaxNested - 1
         /\ Builds(p) => Cardinality(Boxed) <= MaxNested - 1
    /\ Cardinality(Boxed) <= MaxNested

\* The inductive invariant of the manager.
NestedInv ==
  /\ NestedTypeOK /\ RunningMeansServed /\ StartingMeansAtWork
  /\ StartsAreBooked /\ MeetingsSpoil /\ RunningSpoils /\ RoomIsLeft

\* Conversations are finitely many, and of fewer there are not more.
LEMMA FewerConvs ==
  ASSUME NEW S, NEW T, S \subseteq T, T \subseteq NestedConvs
  PROVE  IsFiniteSet(T) /\ Cardinality(S) <= Cardinality(T) /\ Cardinality(S) \in Nat /\ Cardinality(T) \in Nat
<1>1. T \in SUBSET NestedConvs /\ S \in SUBSET T
  OBVIOUS
<1>2. IsFiniteSet(T)
  BY <1>1, MaxNestedAssumption, FS_Subset
<1>3. IsFiniteSet(S) /\ Cardinality(S) <= Cardinality(T)
  BY <1>1, <1>2, FS_Subset
<1> QED BY <1>2, <1>3, FS_CardinalityType

\* The conversations that run are conversations.
LEMMA BoxedThere == Boxed \subseteq NestedConvs /\ IsFiniteSet(Boxed) /\ Cardinality(Boxed) \in Nat
<1>1. Boxed \subseteq NestedConvs
  BY DEF Boxed
<1> QED BY <1>1, FewerConvs

\* An idle request.
LEMMA NestedIdleSound ==
  NestedIdle \in NestAsks /\ NestedIdle.at = "idle" /\ NestedIdle.alone = TRUE /\ NestedIdle.victims = <<>>
<1>1. <<>> \in Seq(NestedConvs)
  OBVIOUS
<1> QED BY <1>1 DEF NestedIdle, NestAsks

\* The invariant of the manager holds at first.
LEMMA NestedStarts == NestedInit => NestedInv
<1> SUFFICES ASSUME NestedInit PROVE NestedInv
  OBVIOUS
<1>1. /\ \A p \in NestedRequests : nestedAsk[p] = NestedIdle
      /\ \A s \in NestedConvs : nestedBoxes[s] = NoNest
      /\ startingIds = {} /\ nestedTasks = {}
  BY DEF NestedInit
<1>2. NestedTypeOK
  BY <1>1, NestedIdleSound DEF NestedInit, NestedTypeOK, NestStates, NoNest
<1>3. Boxed = {}
  BY <1>1 DEF Boxed, NoNest
<1>4. \A p \in NestedRequests : ~InProgress(p) /\ ~Builds(p) /\ nestedAsk[p].at # "evict"
  BY <1>1, NestedIdleSound DEF InProgress, Builds
<1>5. RunningMeansServed /\ StartingMeansAtWork
  BY <1>1, <1>3 DEF RunningMeansServed, StartingMeansAtWork
<1>6. StartsAreBooked /\ MeetingsSpoil /\ RunningSpoils
  BY <1>4 DEF StartsAreBooked, MeetingsSpoil, RunningSpoils
<1>7. Cardinality(Boxed) = 0
  BY <1>3, FS_EmptySet
<1>8. RoomIsLeft
  BY <1>4, <1>7, MaxNestedAssumption DEF RoomIsLeft
<1> QED BY <1>2, <1>5, <1>6, <1>8 DEF NestedInv

\* A start that gets to its container, fails or gives up.
Leaves(p, s) == Builds(p) /\ ~InProgress(p)' /\ nestedAsk[p].sid = s

\* What every step but the arrival of a request does.
LEMMA NestedStep ==
  ASSUME NestedInv, NestedTypeOK', StartingMeansAtWork', spoiled \subseteq spoiled',
         \A q \in NestedRequests :
            /\ nestedAsk'[q].sid = nestedAsk[q].sid /\ nestedAsk'[q].alone = nestedAsk[q].alone
            /\ InProgress(q)' => InProgress(q)
            /\ nestedAsk'[q].at = "evict" => 
                 nestedAsk[q].at = "evict"
                 /\ (Boxed' \subseteq Boxed => Boxed' \ Among(nestedAsk'[q].victims) \subseteq Boxed \ Among(nestedAsk[q].victims))
            /\ Builds(q)' => Builds(q) \/ (nestedAsk[q].at = "evict" /\ nestedAsk[q].victims = <<>> /\ nestedAsk[q].sid \in startingIds'),
         \A k \in nestedTasks' : (\E j \in nestedTasks : j.sid = k.sid) \/ (\E p \in NestedRequests : Leaves(p, k.sid)),
         \A s \in startingIds \ startingIds' :
            s \in spoiled' \/ (\E k \in nestedTasks : k.sid = s) \/ (\E p \in NestedRequests : Leaves(p, s)),
         \A s \in Boxed' \ startingIds' : nestedBoxes'[s].served \/ s \in spoiled'
            \/ (s \in Boxed \ startingIds /\ (nestedBoxes[s].served => nestedBoxes'[s].served)),
         Boxed' \subseteq Boxed \/ \E p \in NestedRequests : Leaves(p, nestedAsk[p].sid) /\ Boxed' \subseteq Boxed \cup {nestedAsk[p].sid}
  PROVE  NestedInv'
<1>1. RunningMeansServed'
  BY DEF NestedInv, RunningMeansServed
<1>2. ASSUME NEW p \in NestedRequests, NEW q \in NestedRequests, Leaves(q, nestedAsk[p].sid), InProgress(p)'
      PROVE  nestedAsk[p].sid \in spoiled'
  <2>1. InProgress(p) /\ InProgress(q) /\ nestedAsk[q].sid = nestedAsk[p].sid /\ q # p
    BY <1>2 DEF Leaves, InProgress, Builds
  <2> QED BY <2>1 DEF NestedInv, MeetingsSpoil
<1>3. StartsAreBooked'
  <2> SUFFICES ASSUME NEW p \in NestedRequests, Builds(p)' PROVE nestedAsk[p].sid \in startingIds' \cup spoiled'
    BY DEF StartsAreBooked
  <2>1. InProgress(p)' /\ InProgress(p)
    BY DEF InProgress, Builds
  <2>2. CASE nestedAsk[p].sid \in startingIds'
    BY <2>2
  <2>3. CASE nestedAsk[p].sid \notin startingIds'
    <3>1. nestedAsk[p].sid \in startingIds \cup spoiled
      BY <2>3 DEF NestedInv, StartsAreBooked
    <3>2. ASSUME NEW k \in nestedTasks, k.sid = nestedAsk[p].sid PROVE nestedAsk[p].sid \in spoiled
      BY <3>2, <2>1 DEF NestedInv, MeetingsSpoil
    <3> QED BY <3>1, <3>2, <2>1, <2>3, <1>2
  <2> QED BY <2>2, <2>3
<1>4. MeetingsSpoil'
  <2> SUFFICES ASSUME NEW p \in NestedRequests, InProgress(p)'
      PROVE  /\ \A q \in NestedRequests : InProgress(q)' /\ nestedAsk[q].sid = nestedAsk[p].sid => q = p \/ nestedAsk[p].sid \in spoiled'
             /\ \A k \in nestedTasks' : k.sid = nestedAsk[p].sid => nestedAsk[p].sid \in spoiled'
    BY DEF MeetingsSpoil
  <2>1. InProgress(p)
    OBVIOUS
  <2>2. ASSUME NEW q \in NestedRequests, InProgress(q)', nestedAsk[q].sid = nestedAsk[p].sid
        PROVE  q = p \/ nestedAsk[p].sid \in spoiled'
    BY <2>1, <2>2 DEF NestedInv, MeetingsSpoil
  <2>3. ASSUME NEW k \in nestedTasks', k.sid = nestedAsk[p].sid PROVE nestedAsk[p].sid \in spoiled'
    <3>1. CASE \E j \in nestedTasks : j.sid = k.sid
      BY <3>1, <2>1, <2>3 DEF NestedInv, MeetingsSpoil
    <3>2. CASE \E r \in NestedRequests : Leaves(r, k.sid)
      BY <3>2, <2>3, <1>2
    <3> QED BY <3>1, <3>2
  <2> QED BY <2>2, <2>3
<1>5. RunningSpoils'
  <2> SUFFICES ASSUME NEW p \in NestedRequests, InProgress(p)', nestedAsk[p].sid \in Boxed'
      PROVE  nestedAsk[p].sid \in spoiled'
    BY DEF RunningSpoils
  <2>1. CASE nestedAsk[p].sid \in Boxed
    BY <2>1 DEF NestedInv, RunningSpoils
  <2>2. CASE nestedAsk[p].sid \notin Boxed
    <3>1. PICK r \in NestedRequests : Leaves(r, nestedAsk[r].sid) /\ Boxed' \subseteq Boxed \cup {nestedAsk[r].sid}
      BY <2>2
    <3>2. Leaves(r, nestedAsk[p].sid)
      BY <3>1, <2>2 DEF Leaves
    <3> QED BY <3>2, <1>2
  <2> QED BY <2>1, <2>2
<1>6. RoomIsLeft'
  <2> SUFFICES ASSUME \A p \in NestedRequests : nestedAsk[p].alone
      PROVE  /\ \A p, q \in NestedRequests : InProgress(p)' /\ InProgress(q)' => p = q
             /\ \A p \in NestedRequests :
                  /\ nestedAsk'[p].at = "evict" => Cardinality(Boxed' \ Among(nestedAsk'[p].victims)) <= MaxNested - 1
                  /\ Builds(p)' => Cardinality(Boxed') <= MaxNested - 1
             /\ Cardinality(Boxed') <= MaxNested
    BY DEF RoomIsLeft
  <2>1. /\ \A p, q \in NestedRequests : InProgress(p) /\ InProgress(q) => p = q
        /\ \A p \in NestedRequests :
             /\ nestedAsk[p].at = "evict" => Cardinality(Boxed \ Among(nestedAsk[p].victims)) <= MaxNested - 1
             /\ Builds(p) => Cardinality(Boxed) <= MaxNested - 1
        /\ Cardinality(Boxed) <= MaxNested
    BY DEF NestedInv, RoomIsLeft
  <2>2. \A p, q \in NestedRequests : InProgress(p)' /\ InProgress(q)' => p = q
    BY <2>1
  <2>3. PICK B : B = Boxed
    OBVIOUS
  <2>4. PICK C : C = Boxed'
    OBVIOUS
  <2>5. B \subseteq NestedConvs /\ C \subseteq NestedConvs
    BY <2>3, <2>4 DEF Boxed
  <2>9. ASSUME NEW p \in NestedRequests, InProgress(p)' PROVE C \subseteq B
    <3> SUFFICES ASSUME ~(C \subseteq B) PROVE FALSE
      OBVIOUS
    <3>1. PICK r \in NestedRequests : Leaves(r, nestedAsk[r].sid)
      BY <2>3, <2>4
    <3>2. InProgress(r) /\ ~InProgress(r)'
      BY <3>1 DEF Leaves, InProgress, Builds
    <3> QED BY <3>2, <2>9, <2>1
  <2>6. ASSUME NEW p \in NestedRequests, nestedAsk'[p].at = "evict"
        PROVE  Cardinality(C \ Among(nestedAsk'[p].victims)) <= MaxNested - 1
    <3>0. C \subseteq B
      BY <2>6, <2>9 DEF InProgress
    <3>1. PICK S : S = C \ Among(nestedAsk'[p].victims)
      OBVIOUS
    <3>2. PICK T : T = B \ Among(nestedAsk[p].victims)
      OBVIOUS
    <3>3. S \subseteq T /\ T \subseteq NestedConvs /\ Cardinality(T) <= MaxNested - 1
      BY <2>6, <3>0, <2>1, <2>3, <2>4, <2>5, <3>1, <3>2
    <3>4. Cardinality(S) <= Cardinality(T) /\ Cardinality(S) \in Nat /\ Cardinality(T) \in Nat
      BY <3>3, FewerConvs
    <3>5. Cardinality(S) <= MaxNested - 1
      BY <3>3, <3>4, MaxNestedAssumption
    <3> QED BY <3>1, <3>5
  <2>7. ASSUME NEW p \in NestedRequests, Builds(p)' PROVE Cardinality(C) <= MaxNested - 1
    <3>1. InProgress(p)'
      BY <2>7 DEF InProgress, Builds
    <3>2. C \subseteq B
      BY <3>1, <2>9
    <3>3. Cardinality(B) <= MaxNested - 1
      <4>1. CASE Builds(p)
        BY <4>1, <2>1, <2>3
      <4>2. CASE nestedAsk[p].at = "evict" /\ nestedAsk[p].victims = <<>>
        <5>1. Among(nestedAsk[p].victims) = {}
          BY <4>2 DEF Among
        <5>2. B \ Among(nestedAsk[p].victims) = B
          BY <5>1
        <5> QED BY <5>2, <4>2, <2>1, <2>3
      <4> QED BY <4>1, <4>2, <2>7
    <3>4. Cardinality(C) <= Cardinality(B) /\ Cardinality(C) \in Nat /\ Cardinality(B) \in Nat
      BY <3>2, <2>5, FewerConvs
    <3> QED BY <3>3, <3>4, MaxNestedAssumption
  <2>8. Cardinality(C) <= MaxNested
    <3>1. CASE C \subseteq B
      <4>1. Cardinality(C) <= Cardinality(B) /\ Cardinality(C) \in Nat /\ Cardinality(B) \in Nat
        BY <3>1, <2>5, FewerConvs
      <4>2. Cardinality(B) <= MaxNested
        BY <2>1, <2>3
      <4> QED BY <4>1, <4>2, MaxNestedAssumption
    <3>2. CASE ~(C \subseteq B)
      <4>1. PICK r \in NestedRequests : Leaves(r, nestedAsk[r].sid) /\ C \subseteq B \cup {nestedAsk[r].sid}
        BY <3>2, <2>3, <2>4
      <4>2. Cardinality(B) <= MaxNested - 1
        BY <4>1, <2>1, <2>3 DEF Leaves
      <4>3. PICK e : e = nestedAsk[r].sid
        OBVIOUS
      <4>4. e \in NestedConvs
        BY <3>2, <4>1, <4>3, <2>5
      <4>5. IsFiniteSet(B) /\ Cardinality(B) \in Nat
        BY <2>5, FewerConvs
      <4>6. Cardinality(B \cup {e}) = IF e \in B THEN Cardinality(B) ELSE Cardinality(B) + 1
        BY <4>5, FS_AddElement
      <4>7. B \cup {e} \subseteq NestedConvs /\ C \subseteq B \cup {e}
        BY <2>5, <4>4, <4>1, <4>3
      <4>8. Cardinality(C) <= Cardinality(B \cup {e}) /\ Cardinality(C) \in Nat /\ Cardinality(B \cup {e}) \in Nat
        BY <4>7, FewerConvs
      <4> QED BY <4>2, <4>5, <4>6, <4>8, MaxNestedAssumption
    <3> QED BY <3>1, <3>2
  <2> QED BY <2>2, <2>4, <2>6, <2>7, <2>8
<1> QED BY <1>1, <1>3, <1>4, <1>5, <1>6 DEF NestedInv

\* A conversation to start is nobody's: what a request is doing is about a conversation.
LEMMA AskedFor ==
  ASSUME NestedInv, NEW p \in NestedRequests, nestedAsk[p].at # "idle"
  PROVE  nestedAsk[p] \in NestAsks /\ nestedAsk[p].sid \in NestedConvs /\ nestedAsk[p].victims \in Seq(NestedConvs)
BY DEF NestedInv, NestedTypeOK, NestAsks

\* One request moves on.
LEMMA OneMoves ==
  ASSUME NestedInv, NEW p \in NestedRequests, nestedAsk[p].at # "idle", NEW a \in {"evict", "build", "init", "answer", "done"},
         NEW v \in Seq(NestedConvs), nestedAsk' = [nestedAsk EXCEPT ![p] = [nestedAsk[p] EXCEPT !.at = a, !.victims = v]]
  PROVE  /\ nestedAsk' \in [NestedRequests -> NestAsks]
         /\ \A q \in NestedRequests : nestedAsk'[q].at = "idle" => nestedAsk'[q].alone
         /\ \A q \in NestedRequests : q # p => nestedAsk'[q] = nestedAsk[q]
         /\ nestedAsk'[p].at = a /\ nestedAsk'[p].victims = v
         /\ \A q \in NestedRequests : nestedAsk'[q].sid = nestedAsk[q].sid /\ nestedAsk'[q].alone = nestedAsk[q].alone
<1>1. PICK o \in NestAsks : o = nestedAsk[p]
  BY DEF NestedInv, NestedTypeOK
<1>2. PICK n : n = [o EXCEPT !.at = a, !.victims = v]
  OBVIOUS
<1>3. n \in NestAsks /\ n.at = a /\ n.victims = v /\ n.sid = o.sid /\ n.alone = o.alone
  BY <1>1, <1>2 DEF NestAsks
<1>4. nestedAsk' = [nestedAsk EXCEPT ![p] = n] /\ nestedAsk \in [NestedRequests -> NestAsks]
      /\ \A q \in NestedRequests : nestedAsk[q].at = "idle" => nestedAsk[q].alone
  BY <1>1, <1>2 DEF NestedInv, NestedTypeOK
<1>5. nestedAsk'[p] = n /\ \A q \in NestedRequests : q # p => nestedAsk'[q] = nestedAsk[q]
  BY <1>4
<1> QED BY <1>1, <1>3, <1>4, <1>5

\* A move leaves the list of conversations to close.
LEMMA MoveMoves ==
  ASSUME NestedInv, NEW p \in NestedRequests, NEW a, Move(p, a)
  PROVE  nestedAsk' = [nestedAsk EXCEPT ![p] = [nestedAsk[p] EXCEPT !.at = a, !.victims = nestedAsk[p].victims]]
<1>1. PICK o \in NestAsks : o = nestedAsk[p]
  BY DEF NestedInv, NestedTypeOK
<1>2. PICK n : n = [o EXCEPT !.at = a]
  OBVIOUS
<1>3. n = [o EXCEPT !.at = a, !.victims = o.victims]
  BY <1>1, <1>2 DEF NestAsks
<1>4. nestedAsk' = [nestedAsk EXCEPT ![p] = n]
  BY <1>1, <1>2 DEF Move
<1> QED BY <1>1, <1>3, <1>4

\* A container that is stopped.
LEMMA StopsBox ==
  ASSUME NestedInv, NEW s \in NestedConvs, nestedBoxes' = BoxStopped(s)
  PROVE  /\ nestedBoxes' \in [NestedConvs -> NestStates] /\ Boxed' = Boxed \ {s}
         /\ \A t \in Boxed' : nestedBoxes'[t] = nestedBoxes[t]
<1>1. nestedBoxes \in [NestedConvs -> NestStates]
  BY DEF NestedInv, NestedTypeOK
<1>2. CASE nestedBoxes[s].state = "none"
  BY <1>1, <1>2 DEF BoxStopped, Boxed
<1>3. CASE nestedBoxes[s].state # "none"
  <2>1. PICK o \in NestStates : o = nestedBoxes[s]
    BY <1>1
  <2>2. PICK n : n = [o EXCEPT !.state = "exited", !.served = FALSE]
    OBVIOUS
  <2>3. n \in NestStates /\ n.state = "exited"
    BY <2>1, <2>2 DEF NestStates
  <2>4. nestedBoxes' = [nestedBoxes EXCEPT ![s] = n]
    BY <1>3, <2>1, <2>2, <1>1 DEF BoxStopped
  <2>5. nestedBoxes'[s] = n /\ \A t \in NestedConvs : t # s => nestedBoxes'[t] = nestedBoxes[t]
    BY <1>1, <2>4
  <2> QED BY <1>1, <2>3, <2>4, <2>5 DEF Boxed
<1> QED BY <1>2, <1>3

\* While the containers, their servers and the requests stay as they are.
LEMMA SameBoxed == ASSUME UNCHANGED nestedBoxes PROVE Boxed' = Boxed
BY DEF Boxed

\* The next of the conversations is closed.
LEMMA EvictsKeeps == ASSUME NestedInv, NEW p \in NestedRequests, Evicts(p) PROVE NestedInv'
<1> DEFINE v == nestedAsk[p].victims
<1>1. nestedAsk[p].at = "evict" /\ v # <<>> /\ nestedBoxes' = BoxStopped(Head(v))
      /\ nestedAsk' = [nestedAsk EXCEPT ![p].victims = Tail(@)]
      /\ UNCHANGED <<startingIds, nestedTasks, recency, nestedFaults, spoiled>>
  BY DEF Evicts
<1>2. nestedAsk[p] \in NestAsks /\ v \in Seq(NestedConvs)
  BY <1>1, AskedFor
<1>3. Head(v) \in NestedConvs /\ Tail(v) \in Seq(NestedConvs) /\ Among(v) = {Head(v)} \cup Among(Tail(v))
  BY <1>1, <1>2, RestOfVictims
<1>4. nestedAsk' = [nestedAsk EXCEPT ![p] = [nestedAsk[p] EXCEPT !.at = "evict", !.victims = Tail(v)]]
  <2>1. PICK o \in NestAsks : o = nestedAsk[p]
    BY <1>2
  <2>2. PICK n : n = [o EXCEPT !.victims = Tail(o.victims)]
    OBVIOUS
  <2>3. n = [o EXCEPT !.at = "evict", !.victims = Tail(o.victims)]
    BY <1>1, <2>1, <2>2 DEF NestAsks
  <2>4. nestedAsk' = [nestedAsk EXCEPT ![p] = n]
    BY <1>1, <2>1, <2>2 DEF NestedInv, NestedTypeOK
  <2> QED BY <2>1, <2>3, <2>4
<1>5. /\ nestedAsk' \in [NestedRequests -> NestAsks]
      /\ \A q \in NestedRequests : nestedAsk'[q].at = "idle" => nestedAsk'[q].alone
      /\ \A q \in NestedRequests : q # p => nestedAsk'[q] = nestedAsk[q]
      /\ nestedAsk'[p].at = "evict" /\ nestedAsk'[p].victims = Tail(v)
      /\ \A q \in NestedRequests : nestedAsk'[q].sid = nestedAsk[q].sid /\ nestedAsk'[q].alone = nestedAsk[q].alone
  BY <1>1, <1>3, <1>4, OneMoves
<1>6. /\ nestedBoxes' \in [NestedConvs -> NestStates] /\ Boxed' = Boxed \ {Head(v)}
      /\ \A t \in Boxed' : nestedBoxes'[t] = nestedBoxes[t]
  BY <1>1, <1>3, StopsBox
<1> HIDE DEF v
<1>7. NestedTypeOK'
  BY <1>1, <1>5, <1>6 DEF NestedInv, NestedTypeOK
<1>8. \A q \in NestedRequests : nestedAsk'[q].at = nestedAsk[q].at
  BY <1>1, <1>5
<1>9. StartingMeansAtWork'
  BY <1>1, <1>5, <1>8 DEF NestedInv, StartingMeansAtWork
<1>10. \A q \in NestedRequests :
         /\ InProgress(q)' = InProgress(q) /\ Builds(q)' = Builds(q)
         /\ nestedAsk'[q].at = "evict" => nestedAsk[q].at = "evict" /\ Boxed' \ Among(nestedAsk'[q].victims) \subseteq Boxed \ Among(nestedAsk[q].victims)
  BY <1>3, <1>5, <1>6, <1>8 DEF InProgress, Builds, v
<1> QED BY <1>1, <1>5, <1>6, <1>7, <1>9, <1>10, NestedStep

\* A step of one request that leaves the containers alone.
LEMMA MovesKeep ==
  ASSUME NestedInv, NEW p \in NestedRequests, NEW a \in {"build", "init", "answer", "done"}, Move(p, a),
         nestedAsk[p].at # "idle", UNCHANGED <<nestedBoxes, nestedTasks, recency, spoiled>>,
         \/ a = "build" /\ nestedAsk[p].at = "evict" /\ nestedAsk[p].victims = <<>> /\ startingIds' = startingIds \cup {nestedAsk[p].sid}
         \/ a = "init" /\ nestedAsk[p].at = "build" /\ startingIds' = startingIds
         \/ a = "done" /\ Builds(p) /\ startingIds' = startingIds \ {nestedAsk[p].sid}
         \/ a = "done" /\ nestedAsk[p].at = "answer" /\ startingIds' = startingIds
  PROVE  NestedInv'
<1> DEFINE s == nestedAsk[p].sid
<1>1. nestedAsk[p] \in NestAsks /\ s \in NestedConvs /\ nestedAsk[p].victims \in Seq(NestedConvs)
  BY AskedFor
<1>2. nestedAsk' = [nestedAsk EXCEPT ![p] = [nestedAsk[p] EXCEPT !.at = a, !.victims = nestedAsk[p].victims]]
  BY MoveMoves
<1>3. /\ nestedAsk' \in [NestedRequests -> NestAsks]
      /\ \A q \in NestedRequests : nestedAsk'[q].at = "idle" => nestedAsk'[q].alone
      /\ \A q \in NestedRequests : q # p => nestedAsk'[q] = nestedAsk[q]
      /\ nestedAsk'[p].at = a /\ nestedAsk'[p].victims = nestedAsk[p].victims
      /\ \A q \in NestedRequests : nestedAsk'[q].sid = nestedAsk[q].sid /\ nestedAsk'[q].alone = nestedAsk[q].alone
  BY <1>1, <1>2, OneMoves
<1>4. Boxed' = Boxed
  BY SameBoxed
<1>5. startingIds' \subseteq NestedConvs
  BY <1>1 DEF NestedInv, NestedTypeOK
<1>6. NestedTypeOK'
  BY <1>3, <1>5 DEF NestedInv, NestedTypeOK
<1>7. \A q \in NestedRequests :
         /\ InProgress(q)' => InProgress(q)
         /\ nestedAsk'[q].at = "evict" => nestedAsk[q].at = "evict" /\ nestedAsk'[q].victims = nestedAsk[q].victims
         /\ Builds(q)' => Builds(q) \/ (nestedAsk[q].at = "evict" /\ nestedAsk[q].victims = <<>> /\ nestedAsk[q].sid \in startingIds')
  BY <1>3 DEF InProgress, Builds
<1>8. StartingMeansAtWork'
  <2> SUFFICES ASSUME NEW t \in startingIds'
      PROVE (\E k \in nestedTasks : k.sid = t) \/ (\E q \in NestedRequests : nestedAsk'[q].sid = t /\ nestedAsk'[q].at \in {"build", "init"})
    BY DEF StartingMeansAtWork
  <2>1. CASE t = s /\ a = "build"
    BY <2>1, <1>3
  <2>2. CASE ~(t = s /\ a = "build")
    <3>1. t \in startingIds
      BY <2>2
    <3>2. (\E k \in nestedTasks : k.sid = t) \/ (\E q \in NestedRequests : nestedAsk[q].sid = t /\ nestedAsk[q].at \in {"build", "init"})
      BY <3>1 DEF NestedInv, StartingMeansAtWork
    <3>3. ASSUME NEW q \in NestedRequests, nestedAsk[q].sid = t, nestedAsk[q].at \in {"build", "init"}
          PROVE  nestedAsk'[q].sid = t /\ nestedAsk'[q].at \in {"build", "init"}
      <4>1. CASE q # p
        BY <4>1, <3>3, <1>3
      <4>2. CASE q = p
        BY <4>2, <3>3, <1>3, <2>2 DEF Builds
      <4> QED BY <4>1, <4>2
    <3> QED BY <3>2, <3>3
  <2> QED BY <2>1, <2>2
<1>9. startingIds \subseteq startingIds' \/ (Leaves(p, s) /\ startingIds' = startingIds \ {s})
  BY <1>3 DEF Leaves, InProgress
<1>10. \A t \in startingIds \ startingIds' : \E q \in NestedRequests : Leaves(q, t)
  BY <1>9
<1>11. \A t \in Boxed' \ startingIds' : nestedBoxes'[t].served \/ t \in spoiled'
            \/ (t \in Boxed \ startingIds /\ (nestedBoxes[t].served => nestedBoxes'[t].served))
  <2> SUFFICES ASSUME NEW t \in Boxed, t \in startingIds, t \notin startingIds' PROVE t \in spoiled
    BY <1>4
  <2>1. t = s /\ Builds(p)
    BY <1>9 DEF Leaves
  <2> QED BY <2>1 DEF NestedInv, RunningSpoils, Builds, InProgress
<1> QED BY <1>3, <1>4, <1>6, <1>7, <1>8, <1>10, <1>11, NestedStep

\* The container of a conversation that was there is started again.
LEMMA ExistingKeeps == ASSUME NestedInv, NEW p \in NestedRequests, ExistingBox(p) PROVE NestedInv'
<1> DEFINE s == nestedAsk[p].sid
<1>1. nestedAsk[p].at = "build" /\ nestedBoxes' = [nestedBoxes EXCEPT ![s].state = "running"]
      /\ spoiled' = spoiled \cup {s} /\ startingIds' = startingIds \ {s} /\ Move(p, "answer")
      /\ UNCHANGED <<nestedTasks, recency, nestedFaults>>
  BY DEF ExistingBox
<1>2. nestedAsk[p] \in NestAsks /\ s \in NestedConvs /\ nestedAsk[p].victims \in Seq(NestedConvs)
  BY <1>1, AskedFor
<1>3. nestedAsk' = [nestedAsk EXCEPT ![p] = [nestedAsk[p] EXCEPT !.at = "answer", !.victims = nestedAsk[p].victims]]
  BY <1>1, MoveMoves
<1>4. /\ nestedAsk' \in [NestedRequests -> NestAsks]
      /\ \A q \in NestedRequests : nestedAsk'[q].at = "idle" => nestedAsk'[q].alone
      /\ \A q \in NestedRequests : q # p => nestedAsk'[q] = nestedAsk[q]
      /\ nestedAsk'[p].at = "answer"
      /\ \A q \in NestedRequests : nestedAsk'[q].sid = nestedAsk[q].sid /\ nestedAsk'[q].alone = nestedAsk[q].alone
  BY <1>1, <1>2, <1>3, OneMoves
<1>5. nestedBoxes \in [NestedConvs -> NestStates]
  BY DEF NestedInv, NestedTypeOK
<1> HIDE DEF s
<1>6. /\ nestedBoxes' \in [NestedConvs -> NestStates] /\ Boxed' = Boxed \cup {s}
      /\ \A t \in NestedConvs : t # s => nestedBoxes'[t] = nestedBoxes[t]
  <2>1. PICK o \in NestStates : o = nestedBoxes[s]
    BY <1>2, <1>5
  <2>2. PICK n : n = [o EXCEPT !.state = "running"]
    OBVIOUS
  <2>3. n \in NestStates /\ n.state = "running"
    BY <2>1, <2>2 DEF NestStates
  <2>4. nestedBoxes' = [nestedBoxes EXCEPT ![s] = n]
    BY <1>1, <2>1, <2>2
  <2>5. nestedBoxes'[s] = n /\ \A t \in NestedConvs : t # s => nestedBoxes'[t] = nestedBoxes[t]
    BY <1>2, <1>5, <2>4
  <2> QED BY <1>2, <1>5, <2>3, <2>4, <2>5 DEF Boxed
<1>7. NestedTypeOK'
  BY <1>1, <1>4, <1>6 DEF NestedInv, NestedTypeOK
<1>8. Leaves(p, s)
  BY <1>1, <1>4 DEF Leaves, Builds, InProgress, s
<1>9. StartingMeansAtWork'
  <2> SUFFICES ASSUME NEW t \in startingIds, t # s
      PROVE (\E k \in nestedTasks : k.sid = t) \/ (\E q \in NestedRequests : nestedAsk'[q].sid = t /\ nestedAsk'[q].at \in {"build", "init"})
    BY <1>1 DEF StartingMeansAtWork
  <2>2. (\E k \in nestedTasks : k.sid = t) \/ (\E q \in NestedRequests : nestedAsk[q].sid = t /\ nestedAsk[q].at \in {"build", "init"})
    BY DEF NestedInv, StartingMeansAtWork
  <2> QED BY <2>2, <1>4 DEF s
<1>10. \A q \in NestedRequests :
         /\ InProgress(q)' => InProgress(q) /\ q # p
         /\ Builds(q)' => Builds(q)
  BY <1>4 DEF InProgress, Builds
<1>11. ASSUME NEW q \in NestedRequests, nestedAsk'[q].at = "evict"
       PROVE  nestedAsk[q].at = "evict" /\ nestedAsk'[q].victims = nestedAsk[q].victims
  BY <1>4, <1>11
<1>12. Boxed' \subseteq Boxed \/ (Leaves(p, s) /\ Boxed' \subseteq Boxed \cup {s})
  BY <1>6, <1>8
<1>13. \A t \in startingIds \ startingIds' : t \in spoiled'
  BY <1>1
<1>14. \A t \in Boxed' \ startingIds' : nestedBoxes'[t].served \/ t \in spoiled'
            \/ (t \in Boxed \ startingIds /\ (nestedBoxes[t].served => nestedBoxes'[t].served))
  BY <1>1, <1>6 DEF Boxed
<1>15. \A q \in NestedRequests : nestedAsk'[q].at = "evict" =>
         nestedAsk[q].at = "evict"
         /\ (Boxed' \subseteq Boxed => Boxed' \ Among(nestedAsk'[q].victims) \subseteq Boxed \ Among(nestedAsk[q].victims))
  BY <1>11
<1>16. spoiled \subseteq spoiled'
  BY <1>1
<1> QED BY <1>1, <1>4, <1>7, <1>8, <1>9, <1>10, <1>12, <1>13, <1>14, <1>15, <1>16, NestedStep DEF s

\* The container of a conversation is made.
LEMMA InitsKeeps == ASSUME NestedInv, NEW p \in NestedRequests, InitsBox(p) PROVE NestedInv'
<1> DEFINE s == nestedAsk[p].sid
<1>1. PICK gen \in {1, 2} : nestedAsk[p].at = "init"
      /\ nestedBoxes' = [nestedBoxes EXCEPT ![s] = [state |-> "running", gen |-> gen, served |-> FALSE]]
      /\ nestedTasks' = nestedTasks \cup {[by |-> p, sid |-> s, gen |-> gen, step |-> 1]}
      /\ spoiled' = (IF nestedBoxes[s].state # "none" THEN spoiled \cup {s} ELSE spoiled)
      /\ Move(p, "answer") /\ UNCHANGED <<startingIds, recency, nestedFaults>>
  BY DEF InitsBox
<1>2. nestedAsk[p] \in NestAsks /\ s \in NestedConvs /\ nestedAsk[p].victims \in Seq(NestedConvs)
  BY <1>1, AskedFor
<1>3. nestedAsk' = [nestedAsk EXCEPT ![p] = [nestedAsk[p] EXCEPT !.at = "answer", !.victims = nestedAsk[p].victims]]
  BY <1>1, MoveMoves
<1>4. /\ nestedAsk' \in [NestedRequests -> NestAsks]
      /\ \A q \in NestedRequests : nestedAsk'[q].at = "idle" => nestedAsk'[q].alone
      /\ \A q \in NestedRequests : q # p => nestedAsk'[q] = nestedAsk[q]
      /\ nestedAsk'[p].at = "answer"
      /\ \A q \in NestedRequests : nestedAsk'[q].sid = nestedAsk[q].sid /\ nestedAsk'[q].alone = nestedAsk[q].alone
  BY <1>1, <1>2, <1>3, OneMoves
<1>5. nestedBoxes \in [NestedConvs -> NestStates]
  BY DEF NestedInv, NestedTypeOK
<1>6. Leaves(p, s)
  BY <1>1, <1>4 DEF Leaves, Builds, InProgress
<1>7. s \in startingIds \cup spoiled
  BY <1>1 DEF NestedInv, StartsAreBooked, Builds
<1> HIDE DEF s
<1>8. [state |-> "running", gen |-> gen, served |-> FALSE] \in NestStates
  BY <1>1 DEF NestStates
<1>9. nestedBoxes' \in [NestedConvs -> NestStates] /\ Boxed' = Boxed \cup {s}
      /\ \A t \in NestedConvs : t # s => nestedBoxes'[t] = nestedBoxes[t]
  BY <1>1, <1>2, <1>5, <1>8 DEF Boxed
<1>10. PICK k0 : k0 = [by |-> p, sid |-> s, gen |-> gen, step |-> 1]
  OBVIOUS
<1>11. k0 \in NestTasks /\ k0.sid = s /\ nestedTasks' = nestedTasks \cup {k0}
  BY <1>1, <1>2, <1>10 DEF NestTasks
<1>12. spoiled \subseteq spoiled'
  BY <1>1
<1>13. NestedTypeOK'
  BY <1>1, <1>4, <1>9, <1>11 DEF NestedInv, NestedTypeOK
<1>14. StartingMeansAtWork'
  <2> SUFFICES ASSUME NEW t \in startingIds
      PROVE (\E k \in nestedTasks' : k.sid = t) \/ (\E q \in NestedRequests : nestedAsk'[q].sid = t /\ nestedAsk'[q].at \in {"build", "init"})
    BY <1>1 DEF StartingMeansAtWork
  <2>1. CASE t = s
    BY <2>1, <1>11
  <2>2. CASE t # s
    <3>1. (\E k \in nestedTasks : k.sid = t) \/ (\E q \in NestedRequests : nestedAsk[q].sid = t /\ nestedAsk[q].at \in {"build", "init"})
      BY DEF NestedInv, StartingMeansAtWork
    <3> QED BY <3>1, <2>2, <1>4, <1>11 DEF s
  <2> QED BY <2>1, <2>2
<1>15. \A q \in NestedRequests :
         /\ InProgress(q)' => InProgress(q) /\ q # p
         /\ Builds(q)' => Builds(q)
         /\ nestedAsk'[q].at = "evict" => nestedAsk[q].at = "evict" /\ nestedAsk'[q].victims = nestedAsk[q].victims
  BY <1>4 DEF InProgress, Builds
<1>16. \A q \in NestedRequests : nestedAsk'[q].at = "evict" =>
         nestedAsk[q].at = "evict"
         /\ (Boxed' \subseteq Boxed => Boxed' \ Among(nestedAsk'[q].victims) \subseteq Boxed \ Among(nestedAsk[q].victims))
  BY <1>15
<1>17. Boxed' \subseteq Boxed \/ (Leaves(p, s) /\ Boxed' \subseteq Boxed \cup {s})
  BY <1>6, <1>9
<1>18. \A t \in Boxed' \ startingIds' : nestedBoxes'[t].served \/ t \in spoiled'
            \/ (t \in Boxed \ startingIds /\ (nestedBoxes[t].served => nestedBoxes'[t].served))
  BY <1>1, <1>7, <1>9, <1>12 DEF Boxed
<1>19. \A k \in nestedTasks' : (\E j \in nestedTasks : j.sid = k.sid) \/ (\E q \in NestedRequests : Leaves(q, k.sid))
  BY <1>6, <1>11
<1>20. \A t \in startingIds \ startingIds' : FALSE
  BY <1>1
<1> QED BY <1>4, <1>12, <1>13, <1>14, <1>15, <1>16, <1>17, <1>18, <1>19, <1>20, NestedStep DEF s

\* A step of the world or of a task: the requests stay, and nothing begins to run.
LEMMA TasksStep ==
  ASSUME NestedInv, NestedTypeOK', StartingMeansAtWork', spoiled \subseteq spoiled', UNCHANGED nestedAsk, Boxed' \subseteq Boxed,
         \A k \in nestedTasks' : \E j \in nestedTasks : j.sid = k.sid,
         \A s \in startingIds \ startingIds' : \E k \in nestedTasks : k.sid = s,
         \A s \in Boxed' \ startingIds' : nestedBoxes'[s].served \/ s \in spoiled'
            \/ (s \in Boxed \ startingIds /\ (nestedBoxes[s].served => nestedBoxes'[s].served))
  PROVE  NestedInv'
<1>1. \A q \in NestedRequests :
         /\ InProgress(q)' => InProgress(q)
         /\ Builds(q)' => Builds(q)
         /\ nestedAsk'[q].at = "evict" => nestedAsk[q].at = "evict"
              /\ (Boxed' \subseteq Boxed => Boxed' \ Among(nestedAsk'[q].victims) \subseteq Boxed \ Among(nestedAsk[q].victims))
  BY DEF InProgress, Builds
<1> QED BY <1>1, NestedStep

\* The last one updated takes the last place, those after it move up one.
LEMMA LastPlace ==
  ASSUME NestedTypeOK, NEW s \in NestedConvs
  PROVE  UpdatedNow(s) \in [NestedConvs -> 1..Cardinality(NestedConvs)] /\ IsInjective(UpdatedNow(s))
<1>1. PICK N : N = Cardinality(NestedConvs)
  OBVIOUS
<1>2. PICK f : f = recency
  OBVIOUS
<1>3. N \in Nat /\ f \in [NestedConvs -> 1..N] /\ \A t, u \in NestedConvs : f[t] = f[u] => t = u
  BY <1>1, <1>2, MaxNestedAssumption, FS_CardinalityType DEF NestedTypeOK, IsInjective
<1>4. PICK g : g = UpdatedNow(s)
  OBVIOUS
<1>5. g = [t \in NestedConvs |-> IF t = s THEN N ELSE IF f[t] > f[s] THEN f[t] - 1 ELSE f[t]]
  BY <1>1, <1>2, <1>4 DEF UpdatedNow
<1>6. ASSUME NEW t \in NestedConvs PROVE g[t] \in 1..N
  <2>1. f[t] \in 1..N /\ f[s] \in 1..N
    BY <1>3
  <2>2. N \in 1..N
    BY <2>1, <1>3
  <2>3. f[t] > f[s] => f[t] - 1 \in 1..N
    BY <2>1, <1>3
  <2> QED BY <1>5, <2>1, <2>2, <2>3
<1>7. ASSUME NEW t \in NestedConvs, NEW u \in NestedConvs, g[t] = g[u] PROVE t = u
  <2>1. f[t] \in 1..N /\ f[s] \in 1..N /\ f[u] \in 1..N /\ (f[t] = f[u] => t = u) /\ (f[t] = f[s] => t = s) /\ (f[u] = f[s] => u = s)
    BY <1>3
  <2>2. /\ g[t] = IF t = s THEN N ELSE IF f[t] > f[s] THEN f[t] - 1 ELSE f[t]
        /\ g[u] = IF u = s THEN N ELSE IF f[u] > f[s] THEN f[u] - 1 ELSE f[u]
    BY <1>5
  <2>3. PICK x \in Int, y \in Int, z \in Int : x = f[t] /\ y = f[u] /\ z = f[s]
    BY <2>1
  <2>4. x \in 1..N /\ y \in 1..N /\ z \in 1..N
    BY <2>1, <2>3
  <2>5. CASE t = s /\ u # s
    <3>1. N = IF y > z THEN y - 1 ELSE y
      BY <2>5, <1>7, <2>2, <2>3
    <3>2. y # z
      BY <2>5, <2>1, <2>3
    <3> QED BY <3>1, <3>2, <2>4, <1>3
  <2>6. CASE t # s /\ u = s
    <3>1. N = IF x > z THEN x - 1 ELSE x
      BY <2>6, <1>7, <2>2, <2>3
    <3>2. x # z
      BY <2>6, <2>1, <2>3
    <3> QED BY <3>1, <3>2, <2>4, <1>3
  <2>7. CASE t # s /\ u # s
    <3>1. (IF x > z THEN x - 1 ELSE x) = (IF y > z THEN y - 1 ELSE y)
      BY <2>7, <1>7, <2>2, <2>3
    <3>2. x # z /\ y # z
      BY <2>7, <2>1, <2>3
    <3>3. x = y
      BY <3>1, <3>2
    <3> QED BY <3>3, <2>1, <2>3
  <2> QED BY <2>5, <2>6, <2>7
<1>8. g \in [NestedConvs -> 1..N]
  BY <1>5, <1>6
<1>9. IsInjective(g)
  BY <1>7, <1>8 DEF IsInjective
<1> QED BY <1>1, <1>4, <1>8, <1>9

\* A task goes on, ends or fails.
LEMMA PostsKeep == ASSUME NestedInv, NEW k \in nestedTasks, NestedPost(k) \/ NestedPostFails(k) PROVE NestedInv'
<1>1. k \in NestTasks /\ k.sid \in NestedConvs /\ UNCHANGED nestedAsk /\ nestedTasks \subseteq NestTasks
      /\ nestedBoxes \in [NestedConvs -> NestStates]
  BY DEF NestedInv, NestedTypeOK, NestTasks, NestedPost, NestedPostFails
<1>2. CASE NestedPost(k) /\ k.step < Len(Posts)
  <2>1. nestedTasks' = (nestedTasks \ {k}) \cup {[k EXCEPT !.step = @ + 1]}
        /\ UNCHANGED <<nestedBoxes, startingIds, recency, nestedFaults, spoiled>>
    BY <1>2 DEF NestedPost
  <2>2. PICK n : n = [k EXCEPT !.step = @ + 1]
    OBVIOUS
  <2>3. n \in NestTasks /\ n.sid = k.sid
    BY <2>2, <1>1 DEF NestTasks
  <2>4. nestedTasks' = (nestedTasks \ {k}) \cup {n}
    BY <2>1, <2>2
  <2>5. NestedTypeOK'
    BY <2>1, <2>3, <2>4, <1>1 DEF NestedInv, NestedTypeOK
  <2>6. \A t : (\E j \in nestedTasks : j.sid = t) => \E j \in nestedTasks' : j.sid = t
    BY <2>3, <2>4
  <2>7. StartingMeansAtWork'
    BY <2>1, <2>6, <1>1 DEF NestedInv, StartingMeansAtWork
  <2>8. Boxed' = Boxed
    BY <2>1, SameBoxed
  <2>9. \A j \in nestedTasks' : \E i \in nestedTasks : i.sid = j.sid
    BY <2>3, <2>4
  <2> QED BY <1>1, <2>1, <2>5, <2>7, <2>8, <2>9, TasksStep
<1>3. CASE TaskEnds(k) /\ (NestedPost(k) \/ NestedPostFails(k))
  <2>1. nestedTasks' = nestedTasks \ {k} /\ startingIds' = startingIds \ {k.sid} /\ UNCHANGED nestedAsk
    BY <1>1, <1>3 DEF TaskEnds
  <2>2. StartingMeansAtWork'
    <3> SUFFICES ASSUME NEW t \in startingIds, t # k.sid
        PROVE (\E j \in nestedTasks' : j.sid = t) \/ (\E q \in NestedRequests : nestedAsk'[q].sid = t /\ nestedAsk'[q].at \in {"build", "init"})
      BY <2>1 DEF StartingMeansAtWork
    <3>1. (\E j \in nestedTasks : j.sid = t) \/ (\E q \in NestedRequests : nestedAsk[q].sid = t /\ nestedAsk[q].at \in {"build", "init"})
      BY DEF NestedInv, StartingMeansAtWork
    <3> QED BY <3>1, <2>1
  <2>3. nestedTasks' \subseteq NestTasks /\ startingIds' \subseteq NestedConvs
    BY <2>1, <1>1 DEF NestedInv, NestedTypeOK
  <2>4. \A t \in startingIds \ startingIds' : \E j \in nestedTasks : j.sid = t
    BY <2>1
  <2>5. CASE NestedPostFails(k)
    <3>1. spoiled' = spoiled \cup {k.sid} /\ UNCHANGED <<nestedBoxes, recency>>
      BY <2>5 DEF NestedPostFails
    <3>2. NestedTypeOK'
      BY <2>1, <2>3, <3>1 DEF NestedInv, NestedTypeOK
    <3>3. Boxed' = Boxed
      BY <3>1, SameBoxed
    <3> QED BY <2>1, <2>2, <2>4, <3>1, <3>2, <3>3, TasksStep
  <2>6. CASE NestedPost(k) /\ ~(k.step < Len(Posts))
    <3>1. nestedBoxes' = [nestedBoxes EXCEPT ![k.sid].served = TRUE] /\ recency' = UpdatedNow(k.sid) /\ UNCHANGED spoiled
      BY <2>6 DEF NestedPost
    <3>2. PICK o \in NestStates : o = nestedBoxes[k.sid]
      BY <1>1
    <3>3. PICK n : n = [o EXCEPT !.served = TRUE]
      OBVIOUS
    <3>4. n \in NestStates /\ n.served = TRUE /\ n.state = o.state
      BY <3>2, <3>3 DEF NestStates
    <3>5. nestedBoxes' = [nestedBoxes EXCEPT ![k.sid] = n]
      BY <3>1, <3>2, <3>3
    <3>6. nestedBoxes' \in [NestedConvs -> NestStates] /\ nestedBoxes'[k.sid] = n /\ \A t \in NestedConvs : t # k.sid => nestedBoxes'[t] = nestedBoxes[t]
      BY <1>1, <3>4, <3>5
    <3>7. Boxed' = Boxed
      BY <3>2, <3>4, <3>6 DEF Boxed
    <3>8. recency' \in [NestedConvs -> 1..Cardinality(NestedConvs)] /\ IsInjective(recency')
      BY <3>1, <1>1, LastPlace DEF NestedInv
    <3>9. NestedTypeOK'
      BY <2>1, <2>3, <3>6, <3>8 DEF NestedInv, NestedTypeOK
    <3>10. \A t \in Boxed' \ startingIds' : nestedBoxes'[t].served
            \/ (t \in Boxed \ startingIds /\ (nestedBoxes[t].served => nestedBoxes'[t].served))
      BY <2>1, <3>4, <3>6, <3>7 DEF Boxed
    <3> QED BY <2>1, <2>2, <2>4, <3>1, <3>7, <3>9, <3>10, TasksStep
  <2>7. CASE NestedPost(k) /\ k.step < Len(Posts)
    BY <2>7, <1>2
  <2> QED BY <1>3, <2>5, <2>6, <2>7
<1> QED BY <1>2, <1>3 DEF NestedPost, NestedPostFails

\* A container is closed, or dies.
LEMMA StopsKeep == ASSUME NestedInv, NEW s \in NestedConvs, CloseNested(s) \/ BoxDies(s) PROVE NestedInv'
<1>1. nestedBoxes' = BoxStopped(s) /\ UNCHANGED <<nestedAsk, startingIds, nestedTasks, recency, spoiled>>
  BY DEF CloseNested, BoxDies
<1>2. nestedBoxes' \in [NestedConvs -> NestStates] /\ Boxed' = Boxed \ {s} /\ \A t \in Boxed' : nestedBoxes'[t] = nestedBoxes[t]
  BY <1>1, StopsBox
<1>3. NestedTypeOK'
  BY <1>1, <1>2 DEF NestedInv, NestedTypeOK
<1>4. StartingMeansAtWork'
  BY <1>1 DEF NestedInv, StartingMeansAtWork
<1> QED BY <1>1, <1>2, <1>3, <1>4, TasksStep

\* The conversations to close are the first of those that run, and leave room for one.
LEMMA VictimsLeaveRoom ==
  ASSUME NestedInv
  PROVE  Victims \in Seq(NestedConvs) /\ Cardinality(Boxed \ Among(Victims)) <= MaxNested - 1
<1>1. PICK S : S = Boxed
  OBVIOUS
<1>2. PICK f : f = recency
  OBVIOUS
<1>3. S \subseteq NestedConvs /\ IsFiniteSet(S) /\ Cardinality(S) \in Nat
  BY <1>1, BoxedThere
<1>4. (\A x \in S : f[x] \in Int) /\ (\A x, y \in S : f[x] = f[y] => x = y)
  <2>1. Cardinality(NestedConvs) \in Nat
    BY MaxNestedAssumption, FS_CardinalityType
  <2>2. recency \in [NestedConvs -> 1..Cardinality(NestedConvs)] /\ IsInjective(recency)
    BY DEF NestedInv, NestedTypeOK
  <2> QED BY <2>1, <2>2, <1>2, <1>3 DEF IsInjective
<1>5. \A x \in S : NotAfter(x) = {y \in S : f[y] <= f[x]}
  BY <1>1, <1>2 DEF NotAfter
<1>6. PICK n \in Int : n = Cardinality(S) - MaxNested + 1
  BY <1>3, MaxNestedAssumption
<1>7. n <= Cardinality(S)
  BY <1>6, <1>3, MaxNestedAssumption
<1>8. PICK v : v = Victims
  OBVIOUS
<1>9. v = [i \in 1..n |-> CHOOSE x \in S : Cardinality(NotAfter(x)) = i]
  BY <1>1, <1>6, <1>8 DEF Victims
<1>10. ASSUME NEW i \in 1..n, \E c \in S : Cardinality({y \in S : f[y] <= f[c]}) = i
       PROVE  v[i] \in S /\ Cardinality({y \in S : f[y] <= f[v[i]]}) = i
  <2>1. PICK c \in S : Cardinality({y \in S : f[y] <= f[c]}) = i
    BY <1>10
  <2>2. Cardinality(NotAfter(c)) = i
    BY <2>1, <1>5
  <2>3. v[i] \in S /\ Cardinality(NotAfter(v[i])) = i
    BY <2>2, <1>9
  <2> QED BY <2>3, <1>5
<1>11. \A i \in 1..n : (\E b \in S : Cardinality({x \in S : f[x] <= f[b]}) = i)
                            => v[i] \in S /\ Cardinality({x \in S : f[x] <= f[v[i]]}) = i
  BY <1>10
<1>12. IsFiniteSet(S)
  BY <1>3
<1>13. \A x \in S : f[x] \in Int
  BY <1>4
<1>14. \A x, y \in S : f[x] = f[y] => x = y
  BY <1>4
<1>15. DOMAIN v = 1..n
  BY <1>9
<1>16. v = [i \in 1..n |-> v[i]]
  BY <1>9
<1>17. v \in Seq(S) /\ Cardinality(S \ Among(v)) <= Cardinality(S) - n
  BY ONLY <1>7, <1>11, <1>12, <1>13, <1>14, <1>15, <1>16, FirstOnes, n \in Int
<1>18. v \in Seq(NestedConvs)
  BY <1>3, <1>17, SeqMonotonic
<1>19. Cardinality(S) - n = MaxNested - 1
  BY <1>3, <1>6, MaxNestedAssumption
<1> QED BY <1>1, <1>8, <1>17, <1>18, <1>19

\* A request arrives: from its look-up to the limit nothing else happens.
LEMMA NestedStartKeeps == ASSUME NestedInv, NEW p \in NestedRequests, NEW s \in NestedConvs, NestedStart(p, s) PROVE NestedInv'
<1>1. nestedAsk[p].at = "idle" /\ UNCHANGED <<nestedBoxes, nestedTasks, recency, nestedFaults>>
      /\ nestedAsk \in [NestedRequests -> NestAsks] /\ startingIds \subseteq NestedConvs
  BY DEF NestedStart, NestedInv, NestedTypeOK
<1>2. Boxed' = Boxed /\ ~InProgress(p) /\ nestedAsk[p].alone
  BY <1>1, SameBoxed DEF InProgress, NestedInv, NestedTypeOK
<1>3. CASE s \in Boxed
  <2>1. PICK n : n = [NestedIdle EXCEPT !.at = "answer", !.sid = s]
    OBVIOUS
  <2>2. n \in NestAsks /\ n.at = "answer" /\ n.alone = TRUE /\ n.sid = s
    BY <2>1, NestedIdleSound DEF NestAsks
  <2>3. nestedAsk' = [nestedAsk EXCEPT ![p] = n] /\ UNCHANGED <<startingIds, spoiled>>
    BY <1>3, <2>1 DEF NestedStart
  <2>4. nestedAsk' \in [NestedRequests -> NestAsks] /\ nestedAsk'[p] = n /\ \A q \in NestedRequests : q # p => nestedAsk'[q] = nestedAsk[q]
    BY <1>1, <2>2, <2>3
  <2>5. NestedTypeOK'
    BY <1>1, <2>2, <2>3, <2>4 DEF NestedInv, NestedTypeOK
  <2>6. \A q \in NestedRequests : (InProgress(q)' => InProgress(q) /\ q # p) /\ (Builds(q)' => Builds(q) /\ q # p)
    BY <2>2, <2>4 DEF InProgress, Builds
  <2>7. RunningMeansServed'
    BY <1>1, <1>2, <2>3 DEF NestedInv, RunningMeansServed
  <2>8. StartingMeansAtWork'
    BY <1>1, <2>3, <2>4 DEF NestedInv, StartingMeansAtWork
  <2>9. StartsAreBooked' /\ MeetingsSpoil' /\ RunningSpoils'
    BY <1>1, <1>2, <2>3, <2>4, <2>6 DEF NestedInv, StartsAreBooked, MeetingsSpoil, RunningSpoils
  <2>10. RoomIsLeft'
    <3>1. (\A q \in NestedRequests : nestedAsk'[q].alone) => \A q \in NestedRequests : nestedAsk[q].alone
      BY <1>2, <2>4
    <3>2. \A q \in NestedRequests : nestedAsk'[q].at = "evict" => nestedAsk[q].at = "evict" /\ nestedAsk'[q].victims = nestedAsk[q].victims
      BY <2>2, <2>4
    <3> QED BY <1>2, <2>6, <3>1, <3>2 DEF NestedInv, RoomIsLeft
  <2> QED BY <2>5, <2>7, <2>8, <2>9, <2>10 DEF NestedInv
<1>4. CASE s \notin Boxed
  <2> DEFINE full == Cardinality(Boxed) >= MaxNested
  <2>1. PICK n : n = [at |-> IF full THEN "evict" ELSE "build", sid |-> s, alone |-> ~Others(p),
                      victims |-> IF full THEN Victims ELSE <<>>]
    OBVIOUS
  <2>2. /\ nestedAsk' = [nestedAsk EXCEPT ![p] = n]
        /\ startingIds' = (IF full THEN startingIds ELSE startingIds \cup {s})
        /\ spoiled' = (IF Met(p, s) THEN spoiled \cup {s} ELSE spoiled)
    BY <1>4, <2>1 DEF NestedStart
  <2>3. Victims \in Seq(NestedConvs) /\ Cardinality(Boxed \ Among(Victims)) <= MaxNested - 1 /\ <<>> \in Seq(NestedConvs)
    BY VictimsLeaveRoom
  <2>4. n \in NestAsks /\ n.sid = s /\ (n.alone <=> ~Others(p)) /\ n.at \in {"evict", "build"}
        /\ (n.at = "evict" => full /\ n.victims = Victims) /\ (n.at = "build" => ~full)
    BY <2>1, <2>3 DEF NestAsks, Others
  <2>5. nestedAsk' \in [NestedRequests -> NestAsks] /\ nestedAsk'[p] = n /\ \A q \in NestedRequests : q # p => nestedAsk'[q] = nestedAsk[q]
    BY <1>1, <2>2, <2>4
  <2>6. startingIds' \subseteq NestedConvs /\ startingIds \subseteq startingIds' /\ spoiled \subseteq spoiled' /\ (n.at = "build" => s \in startingIds')
    BY <1>1, <2>2, <2>4
  <2>7. NestedTypeOK'
    BY <1>1, <2>4, <2>5, <2>6 DEF NestedInv, NestedTypeOK
  <2>8. RunningMeansServed'
    BY <1>1, <1>2, <2>6 DEF NestedInv, RunningMeansServed
  <2>9. ASSUME NEW q \in NestedRequests, q # p
        PROVE  InProgress(q)' = InProgress(q) /\ Builds(q)' = Builds(q)
    BY <2>5, <2>9 DEF InProgress, Builds
  <2>10. StartingMeansAtWork'
    <3> SUFFICES ASSUME NEW t \in startingIds'
        PROVE (\E k \in nestedTasks : k.sid = t) \/ (\E q \in NestedRequests : nestedAsk'[q].sid = t /\ nestedAsk'[q].at \in {"build", "init"})
      BY <1>1 DEF StartingMeansAtWork
    <3>1. CASE t \in startingIds
      <4>1. (\E k \in nestedTasks : k.sid = t) \/ (\E q \in NestedRequests : nestedAsk[q].sid = t /\ nestedAsk[q].at \in {"build", "init"})
        BY <3>1 DEF NestedInv, StartingMeansAtWork
      <4> QED BY <4>1, <2>5, <1>1
    <3>2. CASE t \notin startingIds
      <4>1. t = s /\ ~full
        BY <3>2, <2>2
      <4>2. n.at = "build"
        BY <4>1, <2>4
      <4> QED BY <4>1, <4>2, <2>4, <2>5
    <3> QED BY <3>1, <3>2
  <2>11. StartsAreBooked'
    <3> SUFFICES ASSUME NEW q \in NestedRequests, Builds(q)' PROVE nestedAsk'[q].sid \in startingIds' \cup spoiled'
      BY DEF StartsAreBooked
    <3>1. CASE q = p
      BY <3>1, <2>4, <2>5, <2>6 DEF Builds
    <3>2. CASE q # p
      BY <3>2, <2>5, <2>6, <2>9 DEF NestedInv, StartsAreBooked
    <3> QED BY <3>1, <3>2
  <2>12. ASSUME NEW q \in NestedRequests, q # p, InProgress(q), nestedAsk[q].sid = s PROVE s \in spoiled'
    <3>1. Met(p, s)
      BY <2>12 DEF Met, InProgress
    <3> QED BY <3>1, <2>2
  <2>13. ASSUME NEW k \in nestedTasks, k.sid = s PROVE s \in spoiled'
    <3>1. Met(p, s)
      BY <2>13 DEF Met
    <3> QED BY <3>1, <2>2
  <2>14. MeetingsSpoil'
    <3> SUFFICES ASSUME NEW q \in NestedRequests, InProgress(q)'
        PROVE  /\ \A r \in NestedRequests : InProgress(r)' /\ nestedAsk'[r].sid = nestedAsk'[q].sid => r = q \/ nestedAsk'[q].sid \in spoiled'
               /\ \A k \in nestedTasks : k.sid = nestedAsk'[q].sid => nestedAsk'[q].sid \in spoiled'
      BY <1>1 DEF MeetingsSpoil
    <3>1. CASE q = p
      BY <3>1, <2>4, <2>5, <2>9, <2>12, <2>13
    <3>2. CASE q # p
      <4>1. InProgress(q) /\ nestedAsk'[q] = nestedAsk[q]
        BY <3>2, <2>5, <2>9
      <4>2. ASSUME NEW r \in NestedRequests, InProgress(r)', nestedAsk'[r].sid = nestedAsk[q].sid, r # q
            PROVE  nestedAsk[q].sid \in spoiled'
        <5>1. CASE r = p
          BY <5>1, <4>1, <4>2, <3>2, <2>4, <2>5, <2>12
        <5>2. CASE r # p
          BY <5>2, <4>1, <4>2, <2>5, <2>6, <2>9 DEF NestedInv, MeetingsSpoil
        <5> QED BY <5>1, <5>2
      <4>3. \A k \in nestedTasks : k.sid = nestedAsk[q].sid => nestedAsk[q].sid \in spoiled'
        BY <4>1, <2>6 DEF NestedInv, MeetingsSpoil
      <4> QED BY <4>1, <4>2, <4>3
    <3> QED BY <3>1, <3>2
  <2>15. RunningSpoils'
    <3> SUFFICES ASSUME NEW q \in NestedRequests, InProgress(q)', nestedAsk'[q].sid \in Boxed PROVE nestedAsk'[q].sid \in spoiled'
      BY <1>2 DEF RunningSpoils
    <3>1. q # p
      BY <1>4, <2>4, <2>5
    <3> QED BY <3>1, <2>5, <2>6, <2>9 DEF NestedInv, RunningSpoils
  <2>16. RoomIsLeft'
    <3> SUFFICES ASSUME \A q \in NestedRequests : nestedAsk'[q].alone
        PROVE  /\ \A q, r \in NestedRequests : InProgress(q)' /\ InProgress(r)' => q = r
               /\ \A q \in NestedRequests :
                    /\ nestedAsk'[q].at = "evict" => Cardinality(Boxed \ Among(nestedAsk'[q].victims)) <= MaxNested - 1
                    /\ Builds(q)' => Cardinality(Boxed) <= MaxNested - 1
               /\ Cardinality(Boxed) <= MaxNested
      BY <1>2 DEF RoomIsLeft
    <3>1. \A q \in NestedRequests : nestedAsk[q].alone
      BY <1>2, <2>5
    <3>2. Cardinality(Boxed) <= MaxNested
      BY <3>1 DEF NestedInv, RoomIsLeft
    <3>3. ~Others(p)
      BY <2>4, <2>5
    <3>4. \A q \in NestedRequests : q # p => ~InProgress(q)' /\ ~Builds(q)' /\ nestedAsk'[q].at # "evict"
      BY <3>3, <2>5, <2>9 DEF Others, InProgress, Builds
    <3>5. nestedAsk'[p].at = "evict" => Cardinality(Boxed \ Among(nestedAsk'[p].victims)) <= MaxNested - 1
      BY <2>3, <2>4, <2>5
    <3>6. Builds(p)' => Cardinality(Boxed) <= MaxNested - 1
      <4> SUFFICES ASSUME Builds(p)' PROVE Cardinality(Boxed) <= MaxNested - 1
        OBVIOUS
      <4>1. ~full
        BY <2>4, <2>5 DEF Builds
      <4> QED BY <4>1, BoxedThere, MaxNestedAssumption
    <3> QED BY <3>2, <3>4, <3>5, <3>6
  <2> QED BY <2>7, <2>8, <2>10, <2>11, <2>14, <2>15, <2>16 DEF NestedInv
<1> QED BY <1>3, <1>4

\* Every step of the manager keeps its invariant.
LEMMA NestedSteps == NestedInv /\ NestedNext => NestedInv'
<1> SUFFICES ASSUME NestedInv, NestedNext PROVE NestedInv'
  OBVIOUS
<1>1. CASE \E p \in NestedRequests : \E s \in NestedConvs : NestedStart(p, s)
  BY <1>1, NestedStartKeeps
<1>2. CASE \E p \in NestedRequests : Evicts(p) \/ ExistingBox(p) \/ InitsBox(p)
  BY <1>2, EvictsKeeps, ExistingKeeps, InitsKeeps
<1>3. ASSUME NEW p \in NestedRequests, Evicted(p) PROVE NestedInv'
  <2>1. /\ Move(p, "build") /\ nestedAsk[p].at = "evict" /\ nestedAsk[p].victims = <<>> /\ startingIds' = startingIds \cup {nestedAsk[p].sid}
        /\ UNCHANGED <<nestedBoxes, nestedTasks, recency, spoiled>>
    BY <1>3 DEF Evicted
  <2> QED BY <2>1, MovesKeep
<1>4. ASSUME NEW p \in NestedRequests, NoExistingBox(p) PROVE NestedInv'
  <2>1. /\ Move(p, "init") /\ nestedAsk[p].at = "build" /\ startingIds' = startingIds
        /\ UNCHANGED <<nestedBoxes, nestedTasks, recency, spoiled>>
    BY <1>4 DEF NoExistingBox
  <2> QED BY <2>1, MovesKeep
<1>5. ASSUME NEW p \in NestedRequests, StartRaises(p) PROVE NestedInv'
  <2>1. /\ Move(p, "done") /\ Builds(p) /\ nestedAsk[p].at # "idle" /\ startingIds' = startingIds \ {nestedAsk[p].sid}
        /\ UNCHANGED <<nestedBoxes, nestedTasks, recency, spoiled>>
    BY <1>5 DEF StartRaises, Builds
  <2> QED BY <2>1, MovesKeep
<1>6. ASSUME NEW p \in NestedRequests, NestedAnswers(p) PROVE NestedInv'
  <2>1. /\ Move(p, "done") /\ nestedAsk[p].at = "answer" /\ startingIds' = startingIds
        /\ UNCHANGED <<nestedBoxes, nestedTasks, recency, spoiled>>
    BY <1>6 DEF NestedAnswers
  <2> QED BY <2>1, MovesKeep
<1>7. CASE \E k \in nestedTasks : NestedPost(k) \/ NestedPostFails(k)
  BY <1>7, PostsKeep
<1>8. CASE \E s \in NestedConvs : CloseNested(s) \/ BoxDies(s)
  BY <1>8, StopsKeep
<1> QED BY <1>1, <1>2, <1>3, <1>4, <1>5, <1>6, <1>7, <1>8 DEF NestedNext

\* A step of another part leaves it alone.
LEMMA NestedFrame == NestedInv /\ UNCHANGED nestedVars => NestedInv'
<1> SUFFICES ASSUME NestedInv, UNCHANGED nestedVars PROVE NestedInv'
  OBVIOUS
<1>1. UNCHANGED <<nestedBoxes, nestedAsk, startingIds, nestedTasks, recency, spoiled>>
  BY DEF nestedVars
<1>2. NestedTypeOK'
  BY <1>1 DEF NestedInv, NestedTypeOK
<1>3. StartingMeansAtWork'
  BY <1>1 DEF NestedInv, StartingMeansAtWork
<1>4. Boxed' = Boxed
  BY <1>1, SameBoxed
<1> QED BY <1>1, <1>2, <1>3, <1>4, TasksStep

\* What it tells: the books of the manager and the containers agree.
LEMMA NestedTells == NestedInv => NestedBooks
<1> SUFFICES ASSUME NestedInv PROVE NestedBooks
  OBVIOUS
<1>1. ASSUME Cardinality(Boxed) > MaxNested PROVE \E p \in NestedRequests : nestedAsk[p].sid \in NestedConvs /\ ~nestedAsk[p].alone
  <2>1. Cardinality(Boxed) \in Nat
    BY BoxedThere
  <2>2. ~(Cardinality(Boxed) <= MaxNested)
    BY <1>1, <2>1, MaxNestedAssumption
  <2>3. PICK p \in NestedRequests : ~nestedAsk[p].alone
    BY <2>2 DEF NestedInv, RoomIsLeft
  <2>4. nestedAsk[p].at # "idle"
    BY <2>3 DEF NestedInv, NestedTypeOK
  <2> QED BY <2>3, <2>4, AskedFor
<1> QED BY <1>1 DEF NestedBooks, NestedWithinLimit, NestedInv
=============================================================================
