--------------------------- MODULE LoopDetection ---------------------------
(* The stuck detector and what the controller does about a loop: before each *)
(* step it looks for repetitions after the last user message, stops the agent *)
(* with an error when it finds one, and remembers where the loop began; a    *)
(* recovery action of the user cuts the history there.  The agent reads its  *)
(* history through a view that is cached by the history's length.            *)
EXTENDS Naturals, Sequences, FiniteSets
CONSTANTS Palettes,      \* for each kind of agent, the (action, observation) pairs it produces
          MaxLoopEvents, \* bound: events of a history before a step
          MaxUserTurns   \* bound: messages and recovery actions of the user

VARIABLES
    stepKinds,     \* the palette of this agent
    past,          \* state.history
    loopState,     \* agent state
    awaited,       \* the observations still to come for the pending action
    analysis,      \* stuck_analysis.loop_start_idx, or NoLoop
    cached,        \* state._view, whose length is _history_checksum
    seen,          \* history: the view the last step was given, and the history it stood for
    cut,           \* history: a recovery has cut this history
    turns, ids
loopVars == <<stepKinds, past, loopState, awaited, analysis, cached, seen, cut, turns, ids>>

NoLoop == 1000
\* An event: its type, what the detector compares (k), and what only == compares (v).
Ev(t, k, v) == [t |-> t, k |-> k, v |-> v]
Numbered(es) == [i \in 1..Len(es) |-> [e |-> es[i], id |-> ids + i]]
AddsTo(h, es) == h \o Numbered(es)
IsAction(x) == x.e.t \in {"act", "msg", "recall", "recovery", "user"}
IsUser(x) == x.e.t = "user"

LoopInit ==
    /\ stepKinds \in Palettes
    /\ past = <<>> /\ loopState = "await" /\ awaited = <<>> /\ analysis = NoLoop
    /\ cached = <<>> /\ seen = [view |-> <<>>, of |-> <<>>]
    /\ cut = FALSE /\ turns = 0 /\ ids = 0

-----------------------------------------------------------------------------
(* StuckDetector.is_stuck, interactive mode *)

UserPlaces(h) == {i \in DOMAIN h : IsUser(h[i])}
LastUser(h) == IF UserPlaces(h) = {} THEN 0 ELSE CHOOSE i \in UserPlaces(h) : \A j \in UserPlaces(h) : j <= i
\* filtered_history; null events never enter a history.
SinceUser(h) == SubSeq(h, LastUser(h) + 1, Len(h))

NewestActions(f) == SelectSeq(f, IsAction)
NewestObservations(f) == SelectSeq(f, LAMBDA x : ~IsAction(x))
\* The n-th event from the end.
Back(s, n) == s[Len(s) + 1 - n]
\* _eq_no_pid
EqNoPid(x, y) == x.e.t = y.e.t /\ x.e.k = y.e.k
FirstEqual(f, x) == CHOOSE i \in DOMAIN f : f[i].e = x.e /\ \A j \in 1..(i - 1) : f[j].e # x.e

MutRepeatsObservation(a, o) ==
    /\ Len(a) >= 4 /\ Len(o) >= 4
    /\ \A n \in 2..4 : Back(a, 1).e = Back(a, n).e /\ EqNoPid(Back(o, 1), Back(o, n))
RepeatsObservation(a, o) ==
    /\ Len(a) >= 4 /\ Len(o) >= 4
    /\ \A n \in 2..4 : EqNoPid(Back(a, 1), Back(a, n)) /\ EqNoPid(Back(o, 1), Back(o, n))
\* Three errors of any text, or three times the same syntax error.
RepeatsError(a, o) ==
    /\ Len(a) >= 3 /\ Len(o) >= 3
    /\ \A n \in 2..3 : EqNoPid(Back(a, 1), Back(a, n))
    /\ \/ \A n \in 1..3 : Back(o, n).e.t = "err"
       \/ \A n \in 1..3 : Back(o, n).e = Back(o, 1).e /\ Back(o, 1).e.t = "syntax"
\* Where the last three agent messages begin, if they are equal and nothing was observed between.
AgentMessages(f) == {i \in DOMAIN f : f[i].e.t = "msg"}
Monologues(f) ==
    {i \in AgentMessages(f) :
        LET rest == {j \in AgentMessages(f) : j >= i}
        IN /\ Cardinality(rest) = 3 /\ \A j \in rest : f[j].e = f[i].e
           /\ \A j \in i..Len(f) : (\E k \in rest : j < k) => IsAction(f[j])}
Alternates(a, o) ==
    /\ Len(a) >= 6 /\ Len(o) >= 6
    /\ \A n \in 1..4 : EqNoPid(Back(a, n), Back(a, n + 2)) /\ EqNoPid(Back(o, n), Back(o, n + 2))

\* The index (from 0) in the history where the loop starts, or NoLoop.  The
\* actions compared are the last four, or as many as there are.
FindLoop(h) ==
    LET f == SinceUser(h)
        a == NewestActions(f)
        o == NewestObservations(f)
        At(i) == LastUser(h) + i - 1
        Oldest(n) == At(FirstEqual(f, Back(a, IF Len(a) < n THEN Len(a) ELSE n)))
    IN  IF Len(f) < 3 THEN NoLoop
        ELSE IF RepeatsObservation(a, o) \/ RepeatsError(a, o) THEN Oldest(4)
        ELSE IF Monologues(f) # {} THEN At(CHOOSE i \in Monologues(f) : TRUE)
        ELSE IF Alternates(a, o) THEN Oldest(6)
        ELSE NoLoop
\* Fewer than three events return before the old analysis is cleared.
Analysed(h) == IF Len(SinceUser(h)) < 3 THEN analysis ELSE FindLoop(h)

\* state.view: rebuilt only when the length of the history has changed.
CachedView(h) == IF Len(h) = Len(cached) THEN cached ELSE h

-----------------------------------------------------------------------------
LoopMayStep == loopState = "running" /\ awaited = <<>>

StepStops ==
    /\ LoopMayStep /\ FindLoop(past) # NoLoop
    /\ analysis' = FindLoop(past) /\ loopState' = "error"
    /\ UNCHANGED <<stepKinds, past, awaited, cached, seen, cut, turns, ids>>

\* The agent reads the view and answers with an action or a message.
StepActs ==
    /\ LoopMayStep /\ FindLoop(past) = NoLoop /\ Len(past) < MaxLoopEvents
    /\ analysis' = Analysed(past)
    /\ cached' = CachedView(past) /\ seen' = [view |-> CachedView(past), of |-> past]
    /\ \/ \E s \in stepKinds :
            /\ past' = AddsTo(past, <<s.act>>) /\ awaited' = <<s.obs>>
            /\ ids' = ids + 1 /\ UNCHANGED loopState
       \/ \E wait \in BOOLEAN :
            /\ past' = AddsTo(past, <<Ev("msg", 1, 0)>>)
            /\ loopState' = (IF wait THEN "await" ELSE "running")
            /\ ids' = ids + 1 /\ UNCHANGED awaited
    /\ UNCHANGED <<stepKinds, cut, turns>>

Observes ==
    /\ awaited # <<>> /\ past' = AddsTo(past, awaited) /\ awaited' = <<>> /\ ids' = ids + Len(awaited)
    /\ UNCHANGED <<stepKinds, loopState, analysis, cached, seen, cut, turns>>

\* A message starts the agent once its recall is answered.
UserSpeaks ==
    /\ awaited = <<>> /\ turns < MaxUserTurns /\ turns' = turns + 1
    /\ past' = AddsTo(past, <<Ev("user", 1, 0), Ev("recall", 1, 0)>>) /\ ids' = ids + 2
    /\ loopState' = "running" /\ awaited' = <<Ev("recalled", 1, 0)>>
    /\ UNCHANGED <<stepKinds, analysis, cached, seen, cut>>

\* _truncate_memory_to_point
Truncated(h) == IF analysis >= Len(h) THEN h ELSE SubSeq(h, 1, analysis)

\* LoopRecoveryAction, itself an event of the history: 1 cuts the history and waits,
\* 2 cuts it and handles the last user message again, 3 stops the agent.
Recovers(option) ==
    LET h == AddsTo(past, <<Ev("recovery", option, 0)>>)
        known == analysis # NoLoop
        again == option = 2 /\ UserPlaces(h) # {}
        kept == Truncated(h)
    IN  /\ awaited = <<>> /\ turns < MaxUserTurns /\ turns' = turns + 1 /\ turns > 0
        /\ UNCHANGED <<stepKinds, analysis, cached, seen>>
        /\ IF ~known THEN /\ past' = h /\ ids' = ids + 1
                          /\ UNCHANGED <<loopState, awaited, cut>>
           ELSE IF option = 3 THEN /\ past' = h /\ ids' = ids + 1 /\ loopState' = "stopped"
                                   /\ UNCHANGED <<awaited, cut>>
           ELSE /\ past' = kept /\ cut' = TRUE /\ ids' = ids + 1
                /\ loopState' = (IF again THEN "running" ELSE "await")
                /\ awaited' = <<Ev("note", option, 0)>>
                              \o (IF again THEN <<Ev("recall", 1, 0), Ev("recalled", 1, 0)>> ELSE <<>>)

LoopNext ==
    \/ StepStops \/ StepActs \/ Observes \/ UserSpeaks
    \/ \E option \in 1..3 : Recovers(option)

LoopSpec == LoopInit /\ [][LoopNext]_loopVars

-----------------------------------------------------------------------------
StepsOf(h) == LET f == SinceUser(h) IN [a |-> NewestActions(f), o |-> NewestObservations(f)]
\* The newest m actions repeat with period p, and so do their observations.
Repeats(h, p, m) ==
    LET s == StepsOf(h)
    IN /\ Len(s.a) >= m /\ Len(s.o) >= m
       /\ \A n \in 1..(m - p) : EqNoPid(Back(s.a, n), Back(s.a, n + p)) /\ EqNoPid(Back(s.o, n), Back(s.o, n + p))

\* Whatever the agent does, it is stopped after the fourth identical step and
\* after the third round of an alternation: a history in which it has begun one
\* more step is never reached, even when the steps differ in what the comparison
\* ignores, and whatever came before them.
LoopEnds == awaited = <<>> /\ loopState = "running" => ~Repeats(past, 1, 5) /\ ~Repeats(past, 2, 7)

\* While the agent stands in the error of a loop, the remembered start is an event
\* after the last user message and not after the third action from the end: a
\* recovery removes the whole repetition and never the user's message.
StartKnown ==
    loopState = "error" =>
        /\ analysis >= LastUser(past) /\ analysis + 1 \in DOMAIN past
        /\ IsAction(past[analysis + 1])
        /\ Cardinality({i \in (analysis + 1)..Len(past) : IsAction(past[i])}) >= 3

\* The view given to the agent is the one of its history, unless a recovery cut
\* that history: the cache goes by the length alone, and a history cut and grown
\* again to the same length is not seen.
ViewCurrent == ~cut => seen.view = seen.of

\* Loops are found, located, and the agent does not act on a stale history.
LoopsBroken == LoopEnds /\ StartKnown /\ ViewCurrent
=============================================================================
