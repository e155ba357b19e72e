------------------------------- MODULE FileTools ------------------------------
(* The tools an agent works on files with.  First, runtime/plugins/           *)
(* agent_skills/file_ops: the window on a file that an agent moves with       *)
(* open_file, goto_line, scroll_down and scroll_up, kept in the globals of    *)
(* the module while the file may change behind it.  Then runtime/utils/       *)
(* edit.py: an edit that a second model carries out.  Its draft is linted; a  *)
(* draft with errors is written all the same and the model is asked to        *)
(* correct it, in a further edit of whatever file it names.  The two share    *)
(* no state.                                                                  *)
EXTENDS Naturals, Integers

CONSTANTS
    Window,        \* WINDOW, 100 in the code
    Contexts,      \* values of context_lines
    MaxFileLen, MaxMoves   \* bounds

ASSUME WindowAssumption == Window \in Nat \ {0} /\ Contexts \subseteq Nat \ {0} /\ MaxFileLen \in Nat

VARIABLES
    fileLen,       \* lines of the file, 0 when there is none
    curFile,       \* CURRENT_FILE is set
    curLine,       \* CURRENT_LINE
    window,        \* lines shown by the latest call: [from, to, of, width], or NoWindow
    fromTop,       \* history: opened whole at line 1 and only scrolled down since
    seenLines,     \* history: lines shown since
    moves
windowVars == <<fileLen, curFile, curLine, window, fromTop, seenLines, moves>>

NoWindow == [from |-> 0, to |-> 0, of |-> 0, width |-> 0]
Larger(a, b) == IF a < b THEN b ELSE a
Smaller(a, b) == IF a < b THEN a ELSE b
Clamp(n, low, high) == Larger(low, Smaller(n, high))

WindowInit ==
    /\ fileLen \in 0..MaxFileLen /\ curFile = FALSE /\ curLine = 1 /\ window = NoWindow
    /\ fromTop = FALSE /\ seenLines = {} /\ moves = 0

\* _print_window: around the line, or from it on when scrolling; pushed back into the
\* file at both ends.
ShownWindow(line, width, scrolling) ==
    LET half == Larger(1, width \div 2)
        from0 == IF scrolling THEN line ELSE Larger(1, line - half)
        to0 == IF scrolling THEN Smaller(fileLen, line + width) ELSE Smaller(fileLen, line + half)
        to == IF from0 = 1 THEN Smaller(fileLen, width) ELSE to0
        from == IF to = fileLen THEN Larger(1, to - width + 1) ELSE from0
    IN  [from |-> from, to |-> to, of |-> fileLen, width |-> width]
PrintsWindow(line, width, scrolling) ==
    /\ curLine' = line /\ window' = ShownWindow(line, width, scrolling)
    /\ seenLines' = (IF fromTop' THEN (IF fromTop THEN seenLines ELSE {}) \cup (window'.from..window'.to) ELSE {})
WindowMoves == moves < MaxMoves /\ moves' = moves + 1 /\ UNCHANGED fileLen

\* A wrong line number leaves the file open all the same.
OpenFile(line, context) ==
    /\ WindowMoves /\ fileLen > 0 /\ curFile' = TRUE
    /\ IF line \notin 1..fileLen THEN fromTop' = FALSE /\ seenLines' = {} /\ UNCHANGED <<curLine, window>>
       ELSE /\ fromTop' = (line = 1 /\ context = Window)
            /\ curLine' = line /\ window' = ShownWindow(line, context, FALSE)
            /\ seenLines' = (IF fromTop' THEN window'.from..window'.to ELSE {})
GotoLine(line) ==
    /\ WindowMoves /\ curFile /\ fileLen > 0 /\ line \in 1..fileLen /\ fromTop' = FALSE
    /\ PrintsWindow(line, Window, FALSE) /\ UNCHANGED curFile
MutScrollDown ==
    /\ WindowMoves /\ curFile /\ fileLen > 0 /\ UNCHANGED <<curFile, fromTop>>
    /\ PrintsWindow(Clamp(window.to + Window, 1, fileLen), Window, TRUE)
ScrollDown ==
    /\ WindowMoves /\ curFile /\ fileLen > 0 /\ UNCHANGED <<curFile, fromTop>>
    /\ PrintsWindow(Clamp(curLine + Window, 1, fileLen), Window, TRUE)
ScrollUp ==
    /\ WindowMoves /\ curFile /\ fileLen > 0 /\ UNCHANGED curFile /\ fromTop' = FALSE
    /\ PrintsWindow(Clamp(curLine - Window, 1, fileLen), Window, TRUE)
\* The file is edited, or removed, by something else.
FileChanges(n) ==
    /\ moves < MaxMoves /\ moves' = moves + 1 /\ n # fileLen /\ fileLen' = n
    /\ fromTop' = FALSE /\ seenLines' = {} /\ UNCHANGED <<curFile, curLine, window>>

WindowNext ==
    \/ \E line \in 1..(MaxFileLen + 1) : GotoLine(line) \/ \E context \in Contexts : OpenFile(line, context)
    \/ ScrollDown \/ ScrollUp \/ \E n \in 0..MaxFileLen : FileChanges(n)

-----------------------------------------------------------------------------
\* Scrolling down from the top shows every line but, when the file ends exactly one window
\* after the line that was scrolled to, the one before the last window.
MissesOneAtMost == fromTop => (1..window.to) \ seenLines \subseteq {window.of - Window}
\* A window lies in the file, is not wider than asked for by more than a line and, of more
\* than one line, holds the line that was asked for or begins right below it, however much
\* shorter the file has become.
HoldsLine ==
    window # NoWindow =>
        /\ 1 <= window.from /\ window.from <= window.to /\ window.to <= window.of
        /\ window.to - window.from <= window.width + 1
        /\ window.width > 1 => curLine \in (window.from - 1)..window.to
\* The window shows what the agent asked to see, but for one line.
WindowKept == MissesOneAtMost /\ HoldsLine

-----------------------------------------------------------------------------
\* The edit that a second model drafts.

CONSTANTS
    EditFiles,
    DraftTries,    \* num_retries of get_new_file_contents
    CorrectNum,    \* correct_num of the draft editor's configuration
    MaxEdits       \* bound: edits of the agent

ASSUME DraftAssumption == DraftTries \in Nat \ {0} /\ CorrectNum \in Nat

VARIABLES
    autoLint,      \* enable_auto_lint
    editDisk,      \* the version of each file, 0 when there is none
    editStep,      \* "idle", "read", "draft", "updated" or "correct"
    editing,       \* the edit: [file, ver, clean, created], its new content
    retryNum, draftsLeft,
    lintError,     \* the edit whose errors a correction is about
    writeLost,     \* history: the edits of this action whose write failed, and no one saw
    editAnswer,    \* [how, edit]
    modelCalls,    \* history: calls of the model for this action
    agentEdits, versions
editVars == <<autoLint, editDisk, editStep, editing, retryNum, draftsLeft, lintError, writeLost, editAnswer, modelCalls,
              agentEdits, versions>>

EditOf(f) == [file |-> f, ver |-> 0, clean |-> TRUE, created |-> FALSE]
NoEdit == EditOf("none")
Told(how, e) == [how |-> how, edit |-> e]

EditInit ==
    /\ autoLint \in BOOLEAN /\ editDisk \in [EditFiles -> {0, 1}]
    /\ editStep = "idle" /\ editing = NoEdit /\ retryNum = 0 /\ draftsLeft = 0 /\ lintError = NoEdit
    /\ writeLost = FALSE /\ editAnswer = Told("none", NoEdit) /\ modelCalls = 0 /\ agentEdits = 0 /\ versions = 1

-----------------------------------------------------------------------------
EditEnds(how, e) == editStep' = "idle" /\ editAnswer' = Told(how, e)
\* An error that is raised ends the action, or the correction it is raised in: then the
\* answer is the error the correction was about.
EditRaises == IF retryNum = 0 THEN EditEnds("raised", NoEdit) ELSE EditEnds("lint", lintError)

AgentEdits(f) ==
    /\ editStep = "idle" /\ agentEdits < MaxEdits /\ agentEdits' = agentEdits + 1 /\ editStep' = "read"
    /\ editing' = EditOf(f) /\ retryNum' = 0 /\ lintError' = NoEdit
    /\ writeLost' = FALSE /\ modelCalls' = 0 /\ editAnswer' = Told("none", NoEdit)
    /\ UNCHANGED <<autoLint, editDisk, draftsLeft, versions>>

\* New content, with or without errors of the linter; unlike the others the content of a
\* file that was not there is not linted, and its write is looked at.
NewContent(clean) ==
    /\ versions' = versions + 1
    /\ editing' = [editing EXCEPT !.ver = versions + 1, !.clean = clean, !.created = (editDisk[editing.file] = 0)]
CreatesFile(clean, written) ==
    /\ editStep = "read" /\ editDisk[editing.file] = 0 /\ NewContent(clean)
    /\ IF written THEN EditEnds("edited", editing') /\ editDisk' = [editDisk EXCEPT ![editing.file] = versions + 1]
       ELSE EditEnds("error", NoEdit) /\ UNCHANGED editDisk
    /\ UNCHANGED <<autoLint, retryNum, draftsLeft, lintError, writeLost, modelCalls, agentEdits>>
EditFails ==
    /\ editStep \in {"read", "draft"} /\ EditRaises
    /\ UNCHANGED <<autoLint, editDisk, editing, retryNum, draftsLeft, lintError, writeLost, modelCalls, agentEdits, versions>>
BadRange ==
    /\ editStep = "read" /\ editDisk[editing.file] > 0 /\ EditEnds("error", NoEdit)
    /\ UNCHANGED <<autoLint, editDisk, editing, retryNum, draftsLeft, lintError, writeLost, modelCalls, agentEdits, versions>>
AppendsLines(clean) ==
    /\ editStep = "read" /\ editDisk[editing.file] > 0 /\ NewContent(clean) /\ editStep' = "updated"
    /\ UNCHANGED <<autoLint, editDisk, retryNum, draftsLeft, lintError, writeLost, editAnswer, modelCalls, agentEdits>>
AsksDraft ==
    /\ editStep = "read" /\ editDisk[editing.file] > 0 /\ editStep' = "draft" /\ draftsLeft' = DraftTries
    /\ UNCHANGED <<autoLint, editDisk, editing, retryNum, lintError, writeLost, editAnswer, modelCalls, agentEdits, versions>>
DraftComes(clean) ==
    /\ editStep = "draft" /\ modelCalls' = modelCalls + 1 /\ NewContent(clean) /\ editStep' = "updated"
    /\ UNCHANGED <<autoLint, editDisk, retryNum, draftsLeft, lintError, writeLost, editAnswer, agentEdits>>
DraftUnreadable ==
    /\ editStep = "draft" /\ modelCalls' = modelCalls + 1 /\ draftsLeft' = draftsLeft - 1
    /\ IF draftsLeft = 1 THEN EditEnds("error", NoEdit) ELSE UNCHANGED <<editStep, editAnswer>>
    /\ UNCHANGED <<autoLint, editDisk, editing, retryNum, lintError, writeLost, agentEdits, versions>>

\* The write: what becomes of it is not looked at.
WritesDraft(done) ==
    IF done THEN editDisk' = [editDisk EXCEPT ![editing.file] = editing.ver] /\ UNCHANGED writeLost
    ELSE writeLost' = TRUE /\ UNCHANGED editDisk
MutWritesUpdated(done) ==
    /\ editStep = "updated" /\ WritesDraft(done)
    /\ IF autoLint /\ ~editing.clean /\ retryNum = 0 THEN editStep' = "correct" /\ lintError' = editing /\ UNCHANGED editAnswer
       ELSE EditEnds("edited", editing) /\ UNCHANGED lintError
    /\ UNCHANGED <<autoLint, editing, retryNum, draftsLeft, modelCalls, agentEdits, versions>>
WritesUpdated(done) ==
    /\ editStep = "updated" /\ WritesDraft(done)
    /\ IF autoLint /\ ~editing.clean THEN editStep' = "correct" /\ lintError' = editing /\ UNCHANGED editAnswer
       ELSE EditEnds("edited", editing) /\ UNCHANGED lintError
    /\ UNCHANGED <<autoLint, editing, retryNum, draftsLeft, modelCalls, agentEdits, versions>>

\* correct_edit: another edit, or the error as it is when the model answers anything else.
TooManyCorrections ==
    /\ editStep = "correct" /\ CorrectNum < retryNum + 1 /\ EditEnds("lint", lintError)
    /\ UNCHANGED <<autoLint, editDisk, editing, retryNum, draftsLeft, lintError, writeLost, modelCalls, agentEdits, versions>>
Corrects(f) ==
    /\ editStep = "correct" /\ retryNum + 1 <= CorrectNum /\ modelCalls' = modelCalls + 1
    /\ retryNum' = retryNum + 1 /\ editStep' = "read" /\ editing' = EditOf(f)
    /\ UNCHANGED <<autoLint, editDisk, draftsLeft, lintError, writeLost, editAnswer, agentEdits, versions>>
NoCorrection ==
    /\ editStep = "correct" /\ retryNum + 1 <= CorrectNum /\ modelCalls' = modelCalls + 1 /\ EditEnds("lint", lintError)
    /\ UNCHANGED <<autoLint, editDisk, editing, retryNum, draftsLeft, lintError, writeLost, agentEdits, versions>>

EditNext ==
    \/ \E f \in EditFiles : AgentEdits(f) \/ Corrects(f)
    \/ \E clean \in BOOLEAN : AppendsLines(clean) \/ DraftComes(clean) \/ \E written \in BOOLEAN : CreatesFile(clean, written)
    \/ EditFails \/ BadRange \/ AsksDraft \/ DraftUnreadable \/ \E done \in BOOLEAN : WritesUpdated(done)
    \/ TooManyCorrections \/ NoCorrection

-----------------------------------------------------------------------------
\* What the agent is told of is on the disk unless a write failed: the edit, and of an edit
\* with lint errors the content with the errors, which the answer calls attempted.
ToldIsOnDisk ==
    editAnswer.how \in {"edited", "lint"} /\ ~writeLost => editDisk[editAnswer.edit.file] = editAnswer.edit.ver
\* With linting on, an edit that is answered as done has no errors, however many
\* corrections it took, unless it made the file.
DoneIsClean == editAnswer.how = "edited" /\ autoLint => editAnswer.edit.clean \/ editAnswer.edit.created
\* Corrections do not go on for ever: the model is asked a bounded number of times.
CallsOfModel == modelCalls <= DraftTries * (CorrectNum + 1) + CorrectNum
\* The answer to an edit can be relied on, and comes.
EditsTold == ToldIsOnDisk /\ DoneIsClean /\ CallsOfModel
=============================================================================
