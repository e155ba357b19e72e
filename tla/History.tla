------------------------------- MODULE History -------------------------------
(* What the model is told: the history of a conversation, the view that      *)
(* condensations leave of it (View), the condensers that write them, and the *)
(* messages made of the view (ConversationMemory), while users speak, the    *)
(* agent acts and the model's context overflows.                             *)
EXTENDS Integers, Sequences, SequencesExt, FiniteSets, FiniteSetsExt

CONSTANTS
    CondenserConfigs,   \* pipelines: sequences of condensers
    MaxHistory,         \* bound: events in the history
    MaxUserMessages     \* bound: messages of the user

VARIABLES
    hist,        \* state.history; an event's id is its place
    calls,       \* tool calls in each answer of the model
    pending,     \* controller._pending_action: its id, or -u for the recall of
                 \* message u that is not in the history yet, 0 for none,
                 \* and Stopped when only a message starts the agent again
    queue,       \* agent.pending_actions: calls of the last answer still to emit
    condensers,  \* the pipeline the agent was made with
    raised       \* the condenser raised in the last step that used it

historyVars == <<hist, calls, pending, queue, condensers, raised>>

\* A condenser: its class, max_size (or attention window) and keep_first.
Condenser(kind, size, keep) == [kind |-> kind, size |-> size, keep |-> keep]

\* What the constructors accept: keep_first is below half of max_size.
ASSUME CondenserAssumption ==
    \A p \in CondenserConfigs : \A i \in DOMAIN p :
        p[i].kind \in {"amortized", "summarizing", "structured", "attention"} =>
            p[i].keep < p[i].size \div 2

Event(id, kind, resp, nth, cause) ==
    [id |-> id, kind |-> kind, resp |-> resp, nth |-> nth, cause |-> cause,
     forgotten |-> {}, offset |-> -1]
NewEvent(kind, resp, nth, cause) == Event(Len(hist) + 1, kind, resp, nth, cause)

ToolActions == {"run", "browse"}
Observations == {"ran", "browsed", "recalled", "error", "summary", "masked"}
\* Summaries and masked observations are AgentCondensationObservations that
\* never were in the stream: their id is -1.
Condensed == {"summary", "masked"}
Masked == Event(-1, "masked", 0, 0, 0)

(* View.from_events *)
ForgottenIn(h) ==
    UNION {IF h[i].kind = "condensation" THEN h[i].forgotten \cup {i}
           ELSE IF h[i].kind = "request" THEN {i} ELSE {} : i \in DOMAIN h}

Summaries(h) == {i \in DOMAIN h : h[i].kind = "condensation" /\ h[i].offset >= 0}

Unhandled(h) ==
    \E i \in DOMAIN h :
        /\ h[i].kind = "request"
        /\ \A j \in i + 1..Len(h) : h[j].kind # "condensation"

ViewOf(h) ==
    LET kept == SelectSeq(h, LAMBDA e : e.id \notin ForgottenIn(h))
        last == h[Max(Summaries(h))].offset
        at   == IF last < Len(kept) THEN last ELSE Len(kept)
    IN  [events  |-> IF Summaries(h) = {} THEN kept
                     ELSE InsertAt(kept, at + 1, Event(-1, "summary", 0, 0, 0)),
         request |-> Unhandled(h)]

(* The condensers. A result is a view, a condensation or an exception.       *)
AView(events) == [is |-> "view", view |-> [events |-> events, request |-> FALSE]]
Same(v) == [is |-> "view", view |-> v]
Forget(ids, offset) == [is |-> "condensation", ids |-> ids, offset |-> offset]
Raise == [is |-> "raise"]
Span(S) == Min(S)..Max(S)

Ids(s) == {s[i].id : i \in DOMAIN s}
FirstN(s, n) == SubSeq(s, 1, Min({n, Len(s)}))
\* s[-n:] in Python, where -0 is the beginning.
LastN(s, n) == IF n = 0 \/ n >= Len(s) THEN s ELSE SubSeq(s, Len(s) - n + 1, Len(s))

TooLong(c, v) == Len(v.events) > c.size \/ v.request

\* AmortizedForgettingCondenser; an event is forgotten with the range it is in.
Amortized(c, v) ==
    LET keep == Ids(FirstN(v.events, c.keep))
                    \cup Ids(LastN(v.events, c.size \div 2 - Len(FirstN(v.events, c.keep))))
        drop == Ids(v.events) \ keep
    IN  IF ~TooLong(c, v) THEN Same(v)
        ELSE IF drop = {} THEN Raise ELSE Forget(Span(drop), -1)

\* LLMSummarizingCondenser
Summarizing(c, v) ==
    LET tail == c.size \div 2 - Len(FirstN(v.events, c.keep)) - 1
        mid  == SubSeq(v.events, c.keep + 1, IF tail = 0 THEN 0 ELSE Len(v.events) - tail)
        drop == Ids(SelectSeq(mid, LAMBDA e : e.kind \notin Condensed))
    IN  IF ~TooLong(c, v) THEN Same(v)
        ELSE IF Len(v.events) <= c.keep \/ drop = {} THEN Raise
        ELSE Forget(Span(drop), c.keep)
\* A summarizer whose keep_first and summary fill half of max_size: its tail is
\* empty, and so is the slice it would forget of a view longer than keep_first.
NoTail(c) == c.kind \in {"summarizing", "structured"} /\ c.keep = c.size \div 2 - 1
\* A summary that cannot be parsed is an empty one.
StructuredSummary(c, v) == Summarizing(c, v)

\* LLMAttentionCondenser: the model names events, some perhaps twice, and the
\* last ones of the view fill the places it leaves.
Attention(c, v) ==
    LET head == Ids(FirstN(v.events, c.keep))
        room == c.size \div 2 - Len(FirstN(v.events, c.keep))
        forget(kept, places) ==
            LET rest == SelectSeq(v.events, LAMBDA e : e.id \notin kept)
                fill == IF places = 0 THEN {} ELSE Ids(LastN(rest, places))
            IN  Forget(Ids(v.events) \ (head \cup kept \cup fill), -1)
    IN  IF ~TooLong(c, v) THEN {Same(v)}
        ELSE {forget({}, room)}
                \cup {forget(kept, Min({places, room - Cardinality(kept)})) :
                        kept \in {S \in SUBSET (Ids(v.events) \ head) : Cardinality(S) \in 1..room},
                        places \in 0..room - 1}

\* ConversationWindowCondenser: what the conversation began with, and the
\* later half of the rest from its first event that is not an observation.
Essential(s) ==
    LET first(P(_)) == IF \E i \in DOMAIN s : P(s[i])
                       THEN {Min({i \in DOMAIN s : P(s[i])})} ELSE {}
        users   == first(LAMBDA e : e.kind = "user")
        recalls == first(LAMBDA e : e.kind = "recall" /\ \E u \in users : e.cause = s[u].id)
        answers == first(LAMBDA e : e.kind \in Observations /\ \E r \in recalls : e.cause = s[r].id)
    IN  first(LAMBDA e : e.kind = "system") \cup users \cup recalls \cup answers

\* Mutant: all that is not essential is kept, not half of it.
MutKeepsAll(s) == Len(s) - Cardinality(Essential(s))

RecentToKeep(s) == Max({1, (Len(s) - Cardinality(Essential(s))) \div 2})

Window(c, v) ==
    LET s     == v.events
        start == Max({0, Len(s) - RecentToKeep(s)})
        valid == {i \in start + 1..Len(s) : s[i].kind \notin Observations}
        keep  == {s[i].id : i \in Essential(s)}
                    \cup (IF valid = {} THEN {} ELSE {s[i].id : i \in Min(valid)..Len(s)})
    IN  IF ~v.request THEN Same(v)
        ELSE IF \A i \in DOMAIN s : s[i].kind # "user" THEN Forget({}, -1)
        ELSE Forget(Ids(s) \ keep, -1)

\* RecentEventsCondenser, NoOpCondenser, and the two that mask observations.
Recent(c, v) ==
    LET head == FirstN(v.events, c.keep)
    IN  AView(head \o LastN(v.events, Max({0, c.size - Len(head)})))
MaskObservations(c, v) ==
    AView([i \in DOMAIN v.events |->
              IF v.events[i].kind \in Observations /\ i <= Len(v.events) - c.size
              THEN Masked ELSE v.events[i]])
MaskBrowser(c, v) ==
    LET later(i) == {j \in i + 1..Len(v.events) : v.events[j].kind = "browsed"}
    IN  AView([i \in DOMAIN v.events |->
                  IF v.events[i].kind = "browsed" /\ Cardinality(later(i)) >= c.size
                  THEN Masked ELSE v.events[i]])

Results(c, v) ==
    CASE c.kind = "amortized"   -> {Amortized(c, v)}
      [] c.kind = "summarizing" -> {Summarizing(c, v)}
      [] c.kind = "structured"  -> {StructuredSummary(c, v)}
      [] c.kind = "attention"   -> Attention(c, v)
      [] c.kind = "window"      -> {Window(c, v)}
      [] c.kind = "recent"      -> {Recent(c, v)}
      [] c.kind = "masking"     -> {MaskObservations(c, v)}
      [] c.kind = "browser"     -> {MaskBrowser(c, v)}
      [] c.kind = "noop"        -> {Same(v)}

\* CondenserPipeline.condense: the first condensation ends it.
Condense(v) ==
    LET through[i \in 0..Len(condensers)] ==
            IF i = 0 THEN {Same(v)}
            ELSE UNION {IF r.is = "view" THEN Results(condensers[i], r.view) ELSE {r} :
                          r \in through[i - 1]}
    IN  through[Len(condensers)]

(* ConversationMemory.process_events *)
EnsureSystem(s) ==
    IF \E i \in DOMAIN s : s[i].kind = "system" THEN s
    ELSE InsertAt(s, 1, Event(-1, "system", 0, 0, 0))
EnsureInitialUser(s) ==
    IF Len(s) = 1 \/ s[2].kind # "user"
    THEN InsertAt(s, 2, hist[Min({i \in DOMAIN hist : hist[i].kind = "user"})])
    ELSE s

CallsOf(r) == {<<r, n>> : n \in 1..calls[r]}
CallMessage(r) == [role |-> "assistant", of |-> r, calls |-> CallsOf(r)]
ToolResult(c) == [role |-> "tool", of |-> c, calls |-> {}]
Plain(role, e) == [role |-> role, of |-> e.id, calls |-> {}]

\* _process_action: actions with a tool call are sent with its result.
FromAction(e) ==
    CASE e.kind \in {"system", "user"} -> <<Plain(e.kind, e)>>
      [] e.kind = "say" -> <<Plain("assistant", e)>>
      [] OTHER -> <<>>
\* _process_observation: so are the results; the others are told by the user.
FromObservation(e) ==
    IF e.kind \in Observations /\ e.resp = 0 THEN <<Plain("user", e)>> ELSE <<>>

\* Mutant: an answer's calls are complete when one of them has its result.
MutSomeResult(r, results) == CallsOf(r) \cap results # {}

\* All the calls of a pending answer have their results.
Complete(r, results) == CallsOf(r) \subseteq results

\* One event: what it adds, and the answers whose calls it completes.
ProcessEvent(a, e) ==
    LET open    == IF e.kind \in ToolActions /\ ~Contains(a.open, e.resp)
                   THEN Append(a.open, e.resp) ELSE a.open
        results == IF e.kind \in Observations /\ e.resp # 0
                   THEN a.results \cup {<<e.resp, e.nth>>} ELSE a.results
        done    == SelectSeq(open, LAMBDA r : Complete(r, results))
        group(r) == <<CallMessage(r)>> \o [n \in 1..calls[r] |-> ToolResult(<<r, n>>)]
    IN  [messages |-> a.messages \o FromAction(e) \o FromObservation(e)
                       \o FlattenSeq([i \in DOMAIN done |-> group(done[i])]),
         open     |-> SelectSeq(open, LAMBDA r : ~Contains(done, r)),
         results  |-> results \ UNION {CallsOf(done[i]) : i \in DOMAIN done}]

ProcessEvents(s) ==
    LET upTo[i \in 0..Len(s)] ==
            IF i = 0 THEN [messages |-> <<>>, open |-> <<>>, results |-> {}]
            ELSE ProcessEvent(upTo[i - 1], s[i])
    IN  upTo[Len(s)].messages

\* _filter_unmatched_tool_calls
FilterUnmatched(m) ==
    LET asked    == UNION {m[i].calls : i \in DOMAIN m}
        answered == {m[i].of : i \in {j \in DOMAIN m : m[j].role = "tool"}}
        kept     == SelectSeq(m, LAMBDA x : IF x.role = "tool" THEN x.of \in asked
                                 ELSE x.calls = {} \/ x.calls \cap answered # {})
    IN  [i \in DOMAIN kept |-> [kept[i] EXCEPT !.calls = @ \cap answered]]

PromptEvents(s) == EnsureInitialUser(EnsureSystem(s))
Messages(s) == FilterUnmatched(ProcessEvents(PromptEvents(s)))

-----------------------------------------------------------------------------
HistoryInit ==
    /\ hist = <<Event(1, "system", 0, 0, 0), Event(2, "user", 0, 0, 0)>>
    /\ calls = <<>>
    /\ pending = -2
    /\ queue = <<>>
    /\ condensers \in CondenserConfigs
    /\ raised = FALSE

Stopped == -1

Room == Len(hist) < MaxHistory
Adds(e) == Room /\ hist' = Append(hist, e)
Users == {i \in DOMAIN hist : hist[i].kind = "user"}
Unrecalled == {u \in Users : \A j \in DOMAIN hist : hist[j].cause # u}
Unanswered == {i \in DOMAIN hist :
                 /\ hist[i].kind \in ToolActions \cup {"recall"}
                 /\ \A j \in DOMAIN hist : hist[j].cause # i}

\* The controller makes the recall of a message its pending action, whatever
\* was pending before.
UserSays ==
    /\ Cardinality(Users) < MaxUserMessages
    /\ Adds(NewEvent("user", 0, 0, 0))
    /\ pending' = -(Len(hist) + 1)
    /\ UNCHANGED <<calls, queue, condensers, raised>>

\* The recall, added to the stream, comes back.
Recalls ==
    \E u \in Unrecalled :
        /\ \A w \in Unrecalled : u <= w
        /\ Adds(NewEvent("recall", 0, 0, u))
        /\ pending' = IF pending = -u THEN Len(hist) + 1 ELSE pending
        /\ UNCHANGED <<calls, queue, condensers, raised>>

\* An action is answered; the pending one no longer is.
AnswerTo(a) ==
    CASE hist[a].kind = "recall" -> "recalled"
      [] hist[a].kind = "run"    -> "ran"
      [] hist[a].kind = "browse" -> "browsed"
Observe ==
    \E a \in Unanswered :
        /\ Adds(NewEvent(AnswerTo(a), hist[a].resp, hist[a].nth, a))
        /\ pending' = IF pending = a THEN 0 ELSE pending
        /\ UNCHANGED <<calls, queue, condensers, raised>>

\* The agent is stopped: a pending action without a result gets an error for
\* one, and the calls still queued are forgotten. A recall has no tool call,
\* and any observation without one counts as its result.
Reset ==
    /\ pending # Stopped
    /\ LET resp == IF pending > 0 THEN hist[pending].resp ELSE 0
           nth  == IF pending > 0 THEN hist[pending].nth ELSE 0
           found == \E i \in DOMAIN hist : /\ hist[i].kind \in Observations
                                           /\ hist[i].resp = resp /\ hist[i].nth = nth
       IN  IF pending = 0 \/ found THEN hist' = hist
           ELSE Adds(NewEvent("error", resp, nth, pending))
    /\ pending' = Stopped
    /\ queue' = <<>>
    /\ UNCHANGED <<calls, condensers, raised>>

\* CodeActAgent.step
MayStep == pending = 0 /\ Room
StepQueued ==
    /\ MayStep /\ queue # <<>>
    /\ Adds(NewEvent(Head(queue), Len(calls), calls[Len(calls)] - Len(queue) + 1, 0))
    /\ pending' = Len(hist) + 1
    /\ queue' = Tail(queue)
    /\ UNCHANGED <<calls, condensers, raised>>

StepCondenses ==
    /\ MayStep /\ queue = <<>>
    /\ \E r \in Condense(ViewOf(hist)) :
        \/ /\ r.is = "condensation"
           /\ Adds([NewEvent("condensation", 0, 0, 0) EXCEPT
                      !.forgotten = r.ids, !.offset = r.offset])
           /\ raised' = FALSE
        \/ /\ r.is = "raise"
           /\ raised' = TRUE /\ hist' = hist
    /\ UNCHANGED <<calls, pending, queue, condensers>>

\* The model answers the messages: with one or two calls, with words, with a
\* request to condense, or not at all because they exceed its context.
AskedModel == MayStep /\ queue = <<>> /\ \E r \in Condense(ViewOf(hist)) : r.is = "view"
StepCalls ==
    /\ AskedModel
    /\ \E kinds \in {<<"run">>, <<"browse">>, <<"run", "run">>} :
        /\ Adds(NewEvent(kinds[1], Len(calls) + 1, 1, 0))
        /\ calls' = Append(calls, Len(kinds))
        /\ queue' = Tail(kinds)
    /\ pending' = Len(hist) + 1
    /\ raised' = FALSE
    /\ UNCHANGED condensers
StepSays ==
    /\ AskedModel
    /\ \E kind \in {"say", "request"} : Adds(NewEvent(kind, 0, 0, 0))
    /\ raised' = FALSE
    /\ UNCHANGED <<calls, pending, queue, condensers>>

HistoryNext ==
    \/ UserSays \/ Recalls \/ Observe \/ Reset
    \/ StepQueued \/ StepCondenses \/ StepCalls \/ StepSays

HistorySpec == HistoryInit /\ [][HistoryNext]_historyVars

-----------------------------------------------------------------------------
Views == {r.view.events : r \in {x \in Condense(ViewOf(hist)) : x.is = "view"}}

\* What the model is sent is a conversation its interface accepts, whatever
\* the condensers forgot and wherever the agent was stopped: the system message
\* and then a message of the user come first; after an answer's calls come
\* exactly their results; and an answer is sent if and only if the view still
\* has one of its actions and the results of all its calls (process_events,
\* _filter_unmatched_tool_calls). Views that repeat events are excluded:
\* RecentEventsCondenser makes them of a short history.
PromptWellFormed ==
    \A s \in Views : (\A i, j \in DOMAIN s : s[i].id = s[j].id => i = j \/ s[i].id = -1) =>
        LET m == Messages(s)
            asked == {i \in DOMAIN m : m[i].calls # {}}
        IN  /\ m[1].role = "system" /\ m[2].role = "user"
            /\ \A i \in asked : \A n \in 1..calls[m[i].of] :
                  i + n <= Len(m) /\ m[i + n] = ToolResult(<<m[i].of, n>>)
            /\ \A i, j \in asked : m[i].of = m[j].of => i = j
            /\ Cardinality({i \in DOMAIN m : m[i].role = "tool"})
                 = Cardinality(UNION {m[i].calls : i \in asked})
            /\ {m[i].of : i \in asked} =
                 {r \in DOMAIN calls :
                    /\ \E i \in DOMAIN s : s[i].kind \in ToolActions /\ s[i].resp = r
                    /\ \A c \in CallsOf(r) : \E i \in DOMAIN s :
                          s[i].kind \in Observations /\ <<s[i].resp, s[i].nth>> = c}

\* A condensation makes room: the view after it is shorter, except where the
\* conversation window finds no user message or at most one event it may
\* forget besides the essential ones (a summary is not in the history and
\* cannot be forgotten); and a condenser raises only for a request on a view
\* that is not too long, or because it is a summarizer that keep_first leaves no
\* tail (NoTail), which its constructor accepts: that one raises as soon as the
\* history outgrows it, so no step of a pipeline of it alone ever condenses
\* (get_condensation, View.from_events).
CondensationMakesRoom ==
    [][LET v == ViewOf(hist)
           spare == {i \in DOMAIN v.events \ Essential(v.events) : v.events[i].id # -1}
       IN
        /\ Len(hist') > Len(hist) /\ hist'[Len(hist')].kind = "condensation" =>
              \/ Len(ViewOf(hist').events) < Len(v.events)
              \/ /\ v.request
                 /\ Cardinality(spare) <= 1 \/ "user" \notin {v.events[i].kind : i \in DOMAIN v.events}
        /\ raised' /\ ~raised =>
              \/ v.request /\ \A i \in DOMAIN condensers : Len(v.events) <= condensers[i].size
              \/ \E i \in DOMAIN condensers : NoTail(condensers[i])
        /\ hist' # hist /\ hist'[Len(hist')].kind = "condensation" =>
              \E i \in DOMAIN condensers : ~NoTail(condensers[i])
      ]_historyVars
=============================================================================
