------------------------------ MODULE ToolCalls ------------------------------
(* How the tool calls of a model reach the agent.  A model with function     *)
(* calling answers with calls; for one without, the whole history is turned  *)
(* into text before the request and, with the answer, parsed back after it.  *)
(* The calls of an answer are checked together and then run one by one.      *)
EXTENDS Naturals, FiniteSets, Sequences, SequencesExt
CONSTANTS MaxMessages,     \* bound: messages of a history
          MaxModelChanges  \* bound: changes of the model in the settings

VARIABLES
    native,        \* is_function_calling_active of the model in use
    messages,      \* the history as messages with tool calls
    pendingCalls,  \* pending_actions of the agent
    stepError,     \* what the last step raised
    callsRun,      \* history: the calls that were run
    modelChanges
toolVars == <<native, messages, pendingCalls, stepError, callsRun, modelChanges>>

\* A parameter: its name, and whether its value is as declared, of a wrong type, or
\* holds the text of a closing tag.
P(n, v) == [name |-> n, value |-> v]
\* A word or a tag of a text.
T(n) == P(n, "tag")
Words == <<T("words")>>
Call(tool, params) == [tool |-> tool, params |-> params]
Required == [bash |-> {"command"}, edit |-> {"command", "path"}]
Allowed == [bash |-> {"command", "timeout"}, edit |-> {"command", "path"}]
Known(call) == call.tool \in DOMAIN Required
Named(call) == {p.name : p \in ToSet(call.params)}

Msg(role, text, calls) == [role |-> role, text |-> text, calls |-> calls]
ToolInit ==
    /\ native \in BOOLEAN /\ messages = <<Msg("system", Words, <<>>), Msg("user", Words, <<>>)>>
    /\ pendingCalls = <<>> /\ stepError = "none" /\ callsRun = <<>> /\ modelChanges = 0

-----------------------------------------------------------------------------
(* Text: a sequence of words and tags *)

OpenTag(tool) == P(tool, "open")
IsOpen(t) == t.value = "open"
\* A value that holds a closing tag ends the function there.
ParamText(p) == IF p.value = "closing" THEN <<T("cut"), T("end")>> ELSE <<p>>
ParamsText(ps) == FlattenSeq([i \in DOMAIN ps |-> ParamText(ps[i])])
CallText(call) == <<OpenTag(call.tool)>> \o ParamsText(call.params) \o <<T("end")>>

\* What is added to the system message and around the first message of the user.
ToolsText == T("tools")
Example == T("example")
Suffix == T("suffix")
\* convert_fncall_messages_to_non_fncall_messages, by message.
Convertible(m) == m.role = "assistant" => Len(m.calls) <= 1
ToText(m, first) ==
    CASE m.role = "system" -> Msg("system", Append(m.text, ToolsText), <<>>)
      [] m.role = "user" -> Msg("user", IF first THEN <<Example>> \o m.text \o <<Suffix>> ELSE m.text, <<>>)
      [] m.role = "tool" -> Msg("user", <<T("result")>> \o m.text, <<>>)
      [] m.role = "assistant" ->
            Msg("assistant", IF m.calls = <<>> THEN m.text ELSE m.text \o CallText(m.calls[1]), <<>>)

Opens(text) == {i \in DOMAIN text : IsOpen(text[i])}
EndsAfter(text, i) == {j \in DOMAIN text : j > i /\ text[j] = T("end")}
Least(S) == CHOOSE x \in S : \A y \in S : x <= y
\* The stop word is not part of an answer.
FixStopword(text) == IF Cardinality(Opens(text)) = 1 THEN Append(text, T("end")) ELSE text
Matches(text) == Opens(text) # {} /\ EndsAfter(text, Least(Opens(text))) # {}
Parsed(text) ==
    LET i == Least(Opens(text))
        j == Least(EndsAfter(text, i))
    IN  Call(text[i].name, SelectSeq(SubSeq(text, i + 1, j - 1), LAMBDA t : t.value \notin {"tag", "open"}))
\* _extract_and_validate_params
ParamsValid(call) ==
    /\ \A p \in ToSet(call.params) : p.name \in Allowed[call.tool] /\ p.value # "badtype"
    /\ Required[call.tool] \subseteq Named(call)
Refused(text) == LET t == FixStopword(text) IN Matches(t) /\ ~(Known(Parsed(t)) /\ ParamsValid(Parsed(t)))

MutAssistantBack(text) ==
    LET t == FixStopword(text)
    IN  IF Matches(t) THEN Msg("assistant", text, <<Parsed(t)>>) ELSE Msg("assistant", text, <<>>)
AssistantBack(text) ==
    LET t == FixStopword(text)
    IN  IF Matches(t) THEN Msg("assistant", SubSeq(t, 1, Least(Opens(t)) - 1), <<Parsed(t)>>)
        ELSE Msg("assistant", text, <<>>)
\* convert_non_fncall_messages_to_fncall_messages, by message.  A user's text that
\* looks like a result becomes one.
Without(text, marks) == SelectSeq(text, LAMBDA t : t \notin marks)
TextBack(m, first) ==
    CASE m.role = "system" -> Msg("system", Without(m.text, {ToolsText}), <<>>)
      [] m.role = "assistant" -> AssistantBack(m.text)
      [] m.role = "user" ->
            LET text == IF first THEN Without(m.text, {Example, Suffix}) ELSE m.text
            IN  IF T("result") \in ToSet(text) THEN Msg("tool", Without(text, {T("result")}), <<>>)
                ELSE Msg("user", text, <<>>)

-----------------------------------------------------------------------------
(* The agent *)

\* response_to_actions: every call of an answer, or none.
Accepted(call) ==
    /\ Known(call) /\ Required[call.tool] \subseteq Named(call)
    /\ call.tool = "edit" => Named(call) \subseteq Allowed[call.tool]
Asking == pendingCalls = <<>> /\ Last(messages).role # "assistant" /\ Len(messages) < MaxMessages
Takes(m) ==
    IF \A c \in ToSet(m.calls) : Accepted(c)
    THEN /\ messages' = Append(messages, m) /\ pendingCalls' = m.calls /\ stepError' = "none"
    ELSE /\ messages' = Append(messages, Msg("user", Words, <<>>)) /\ stepError' = "answer"
         /\ UNCHANGED pendingCalls

NativeAnswers == { <<>>, <<Call("bash", <<P("command", "ok")>>)>>,
                   <<Call("bash", <<P("command", "closing")>>)>>,
                   <<Call("bash", <<P("command", "ok"), P("odd", "ok")>>)>>,
                   <<Call("bash", <<P("command", "ok")>>), Call("edit", <<P("command", "ok"), P("path", "ok")>>)>>,
                   <<Call("bash", <<P("command", "ok")>>), Call("gone", <<>>)>> }
AnswersNatively ==
    /\ native /\ Asking /\ \E calls \in NativeAnswers : Takes(Msg("assistant", Words, calls))
    /\ UNCHANGED <<native, callsRun, modelChanges>>

\* Answers in text: words, a call that the stop word cut, one in full and more after
\* it, a call in a value, unknown tools and wrong or missing parameters.
TextAnswers == { Words, <<T("words"), OpenTag("bash"), P("command", "ok")>>,
                 <<OpenTag("edit"), P("path", "ok"), P("command", "ok"), T("end"), T("words")>>,
                 <<T("words"), OpenTag("bash"), P("command", "ok"), T("end"), OpenTag("edit"), P("path", "ok"), T("end")>>,
                 <<OpenTag("bash"), P("command", "ok"), OpenTag("edit")>>, <<OpenTag("gone")>>, <<OpenTag("edit"), P("path", "ok")>>,
                 <<OpenTag("bash"), P("command", "ok"), P("timeout", "badtype")>> }
IsFirstUser(i) == messages[i].role = "user" /\ \A j \in 1..(i - 1) : messages[j].role \notin {"user", "tool"}
\* A message of the history that cannot be written, or not be read back.
Unwritable == {i \in DOMAIN messages : ~Convertible(messages[i])}
Unreadable == {i \in DOMAIN messages : /\ messages[i].role = "assistant"
                                       /\ Refused(ToText(messages[i], FALSE).text)}
AnswersInText ==
    /\ ~native /\ Asking /\ Unwritable = {} /\ Unreadable = {}
    /\ \E text \in TextAnswers :
          IF Refused(text) THEN /\ messages' = Append(messages, Msg("user", Words, <<>>))
                                /\ stepError' = "answer" /\ UNCHANGED pendingCalls
          ELSE Takes(AssistantBack(text))
    /\ UNCHANGED <<native, callsRun, modelChanges>>
\* The history itself is refused: the agent stops with an error, or is told of it as
\* if it were its answer, at every step.
HistoryRefused ==
    /\ ~native /\ Asking /\ Unwritable \cup Unreadable # {}
    /\ stepError' = (IF Unwritable # {} THEN "conversion" ELSE "history")
    /\ messages' = (IF Unwritable # {} THEN messages ELSE Append(messages, Msg("user", Words, <<>>)))
    /\ UNCHANGED <<native, pendingCalls, callsRun, modelChanges>>

RunsCall ==
    /\ pendingCalls # <<>> /\ Len(messages) < MaxMessages
    /\ pendingCalls' = Tail(pendingCalls) /\ callsRun' = Append(callsRun, Head(pendingCalls))
    /\ messages' = Append(messages, Msg("tool", Words, <<>>))
    /\ UNCHANGED <<native, stepError, modelChanges>>
UserWritesText(text) ==
    /\ pendingCalls = <<>> /\ Len(messages) < MaxMessages
    /\ messages' = Append(messages, Msg("user", text, <<>>))
    /\ UNCHANGED <<native, pendingCalls, stepError, callsRun, modelChanges>>
ChangesModel ==
    /\ modelChanges < MaxModelChanges /\ modelChanges' = modelChanges + 1 /\ native' = ~native
    /\ pendingCalls = <<>> /\ UNCHANGED <<messages, pendingCalls, stepError, callsRun>>

ToolNext ==
    \/ AnswersNatively \/ AnswersInText \/ HistoryRefused \/ RunsCall \/ ChangesModel
    \/ \E text \in {Words, <<T("result")>>} : UserWritesText(text)

-----------------------------------------------------------------------------
\* With one model the history can always be sent: what was parsed from an answer is
\* written and read back as it was, and nothing is lost but for a user's text that
\* looks like a result.
ReadsBack ==
    modelChanges = 0 /\ ~native => \A i \in DOMAIN messages :
        \/ TextBack(ToText(messages[i], IsFirstUser(i)), IsFirstUser(i)) = messages[i]
        \/ messages[i].role = "user" /\ T("result") \in ToSet(messages[i].text)
\* A history is refused only after the model was changed for one without function
\* calling, and by an answer of the old one: several calls, a value that holds a
\* closing tag, or a parameter that the tool does not have.
RefusedAfterChange ==
    stepError \in {"conversion", "history"} => \E m \in ToSet(messages) :
        /\ modelChanges > 0 /\ m.role = "assistant"
        /\ \/ Len(m.calls) > 1
           \/ \E c \in ToSet(m.calls), p \in UNION {ToSet(x.params) : x \in ToSet(m.calls)} :
                p.value = "closing" \/ p.name \notin Allowed[c.tool]
\* No call of an answer runs unless all of them were accepted, and each runs once.
CallsOnce ==
    callsRun \o pendingCalls = FlattenSeq([i \in DOMAIN messages |->
                                  IF messages[i].role = "assistant" THEN messages[i].calls ELSE <<>>])

\* From the model's answer to the agent and back into the next prompt.
ToolCallsKept == ReadsBack /\ RefusedAfterChange /\ CallsOnce
=============================================================================
