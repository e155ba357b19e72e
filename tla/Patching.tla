------------------------------ MODULE Patching ------------------------------
(* How the resolver applies a patch: the formats patch.py reads, what        *)
(* apply_diff makes of the changes, and apply_patch's treatment of files     *)
(* that are created, deleted or renamed.  An edit is a script of lines that  *)
(* are kept, deleted and added; diff (external) writes it in one of the      *)
(* formats, and what is parsed and applied is compared with the new file.    *)
EXTENDS Integers, Sequences, FiniteSets, SequencesExt
CONSTANTS
    PatchLines,      \* what a line can hold
    MaxScript        \* lines of a script (bound)

VARIABLES
    patchAt,       \* how far the patch is
    script,        \* the edit
    format,        \* how it is written
    fileOp,        \* what happens to the file as a whole
    parsed,        \* the changes parse_diff finds
    written        \* the file that is written, at which path
patchVars == <<patchAt, script, format, fileOp, parsed, written>>

Formats == {"unified", "context", "normal", "ed", "rcs"}
Entry == [kind : {"keep", "del", "add"}, line : PatchLines]
\* diff writes the deleted lines of a block before the added ones.
Normalized(s) == \A i \in 1..(Len(s) - 1) : s[i].kind = "add" => s[i + 1].kind # "del"
Scripts == {s \in UNION {[1..n -> Entry] : n \in 1..MaxScript} : Normalized(s)}
AllOf(s, kind) == \A i \in DOMAIN s : s[i].kind = kind

LinesOf(s, kinds) == LET t == SelectSeq(s, LAMBDA e : e.kind \in kinds) IN [i \in DOMAIN t |-> t[i].line]
OldFile(s) == LinesOf(s, {"keep", "del"})
NewFile(s) == LinesOf(s, {"keep", "add"})

PatchInit ==
    /\ patchAt = "start" /\ script = <<>> /\ format = "unified" /\ fileOp = "edit"
    /\ parsed = <<>> /\ written = [path |-> "none", lines |-> <<>>]

-----------------------------------------------------------------------------
(* The formats as diff writes them *)

\* The hunks: the changed lines with `context` lines around them.
Near(s, context) == {i \in DOMAIN s : \E j \in DOMAIN s : s[j].kind # "keep" /\ i <= j + context /\ j <= i + context}
Hunk(s, a, b) ==
    LET body == SubSeq(s, a, b)
        before == SubSeq(s, 1, a - 1)
        oldLen == Len(OldFile(body))
        newLen == Len(NewFile(body)) IN
    [old |-> Len(OldFile(before)) + (IF oldLen = 0 THEN 0 ELSE 1), oldLen |-> oldLen,
     new |-> Len(NewFile(before)) + (IF newLen = 0 THEN 0 ELSE 1), newLen |-> newLen, body |-> body]
Hunks(s, context) ==
    LET near == Near(s, context)
        starts == SelectSeq([i \in DOMAIN s |-> i], LAMBDA i : i \in near /\ i - 1 \notin near)
        ends == SelectSeq([i \in DOMAIN s |-> i], LAMBDA i : i \in near /\ i + 1 \notin near) IN
    [n \in DOMAIN starts |-> Hunk(s, starts[n], ends[n])]

-----------------------------------------------------------------------------
(* The parsers: a Change is a line of the old file, of the new one, or of both *)

Change(old, new, line) == [old |-> old, new |-> new, line |-> line]
Nowhere == -1000    \* None; no place in a file, and no miscounted one
NoText == 0
\* The parser or apply_diff raises.
Unparsed == <<Change(Nowhere, Nowhere, NoText)>>
Unapplied == <<NoText>>
Counted(n, len) == n # len \/ n = 0

\* parse_unified_diff: r and i count the lines of the hunk in the old and new file.
UnifiedStep(h, acc, e) ==
    CASE e.kind = "del" /\ Counted(acc.r, h.oldLen) ->
           [acc EXCEPT !.out = Append(@, Change(h.old + acc.r, Nowhere, e.line)), !.r = @ + 1]
      [] e.kind = "add" /\ Counted(acc.i, h.newLen) ->
           [acc EXCEPT !.out = Append(@, Change(Nowhere, h.new + acc.i, e.line)), !.i = @ + 1]
      [] e.kind = "keep" ->
           [acc EXCEPT !.out = Append(@, Change(h.old + acc.r, h.new + acc.i, e.line)), !.r = @ + 1, !.i = @ + 1]
      [] OTHER -> acc
HunkChanges(h, Step(_, _, _)) ==
    FoldLeft(LAMBDA acc, e : Step(h, acc, e), [out |-> <<>>, r |-> 0, i |-> 0], h.body).out
ParseUnified(s) == FlattenSeq([n \in DOMAIN Hunks(s, 1) |-> HunkChanges(Hunks(s, 1)[n], UnifiedStep)])

\* parse_default_diff: a range of one line is written without its end, and counts as
\* none; the first line is taken in any case.
DefaultStep(h, acc, e) ==
    LET oldLen == IF h.oldLen > 1 THEN h.oldLen ELSE 0
        newLen == IF h.newLen > 1 THEN h.newLen ELSE 0 IN
    CASE e.kind = "del" /\ Counted(acc.r, oldLen) ->
           [acc EXCEPT !.out = Append(@, Change(h.old + acc.r, Nowhere, e.line)), !.r = @ + 1]
      [] e.kind = "add" /\ Counted(acc.i, newLen) ->
           [acc EXCEPT !.out = Append(@, Change(Nowhere, h.new + acc.i, e.line)), !.i = @ + 1]
      [] OTHER -> acc
ParseDefault(s) == FlattenSeq([n \in DOMAIN Hunks(s, 0) |-> HunkChanges(Hunks(s, 0)[n], DefaultStep)])

\* parse_ed_diff: r and i run over all hunks, which an ed script lists from the end and
\* which are turned round; a deleted line has no text.  For a replacement the number of
\* deleted lines is added for its first line and forgotten for the others.
EdHunk(acc, h) ==
    LET dels == [k \in 1..h.oldLen |-> Change(h.old + k - 1, Nowhere, NoText)]
        adds == LinesOf(h.body, {"add"})
        r == acc.r + h.oldLen
        at(m) == IF h.oldLen = 0 THEN h.old - r + acc.i + m
                 ELSE h.old + acc.i + 2 * (m - 1) + (IF m = 1 THEN h.oldLen ELSE 0) - r
    IN [out |-> acc.out \o dels \o [m \in DOMAIN adds |-> Change(Nowhere, at(m), adds[m])],
        r |-> r, i |-> acc.i + Len(adds)]
ParseEd(s) == FoldLeft(EdHunk, [out |-> <<>>, r |-> 0, i |-> 0], Hunks(s, 0)).out

\* parse_rcs_ed_diff: an "a" command counts from the line before, in the old file.
RcsHunk(acc, h) ==
    LET dels == [k \in 1..h.oldLen |-> Change(h.old + k - 1, Nowhere, NoText)]
        size == acc.size - h.oldLen
        from == h.old + (IF h.oldLen = 0 THEN 0 ELSE h.oldLen - 1) + size + 1
        adds == LinesOf(h.body, {"add"})
    IN [out |-> acc.out \o dels \o [m \in DOMAIN adds |-> Change(Nowhere, from + m - 1, adds[m])],
        size |-> size + Len(adds)]
ParseRcs(s) == FoldLeft(RcsHunk, [out |-> <<>>, size |-> 0], Hunks(s, 0)).out

\* parse_context_diff.  The old and the new lines of a hunk stand in two parts, a part
\* without changes is left out; a replaced line is marked in both.
InReplacement(body, i) ==
    \E a, b \in DOMAIN body : /\ body[a].kind = "del" /\ body[b].kind = "add" /\ i \in a..b
                             /\ \A x \in a..b : body[x].kind # "keep"
Marked(body, i) == [mark |-> IF body[i].kind = "keep" THEN "keep" ELSE IF InReplacement(body, i) THEN "both" ELSE body[i].kind,
                    line |-> body[i].line]
Part(body, kind) ==
    LET own == SelectSeq([i \in DOMAIN body |-> i], LAMBDA i : body[i].kind \in {"keep", kind}) IN
    IF \E i \in DOMAIN body : body[i].kind = kind THEN [n \in DOMAIN own |-> Marked(body, own[n])] ELSE <<>>
OnePart(h, part) ==
    LET step(acc, e) ==
            [out |-> Append(acc.out, Change(IF e.mark = "add" THEN Nowhere ELSE h.old + acc.j,
                                            IF e.mark = "del" THEN Nowhere ELSE h.new + acc.k, e.line)),
             j |-> acc.j + (IF e.mark = "add" THEN 0 ELSE 1), k |-> acc.k + (IF e.mark = "del" THEN 0 ELSE 1)]
    IN FoldLeft(step, [out |-> <<>>, j |-> 0, k |-> 0], part).out
\* Both parts are read side by side, until one of them is at its end.
BothParts(h, olds, news) ==
    LET f[p \in 1..(Len(olds) + 1), q \in 1..(Len(news) + 1)] ==
            IF p > Len(olds) \/ q > Len(news) THEN <<>>
            ELSE IF olds[p].mark = "keep" /\ news[q].mark = "keep"
            THEN <<Change(h.old + p - 1, h.new + q - 1, olds[p].line)>> \o f[p + 1, q + 1]
            ELSE IF olds[p].mark # "keep" THEN <<Change(h.old + p - 1, Nowhere, olds[p].line)>> \o f[p + 1, q]
            ELSE <<Change(Nowhere, h.new + q - 1, news[q].line)>> \o f[p, q + 1]
    IN f[1, 1]
ContextHunk(h) ==
    LET olds == Part(h.body, "del")
        news == Part(h.body, "add") IN
    IF news = <<>> THEN OnePart(h, olds) ELSE IF olds = <<>> THEN OnePart(h, news) ELSE BothParts(h, olds, news)
\* A range of at most one line is written without its end, which is then not a number.
ContextReadable(hs) == \A n \in DOMAIN hs : hs[n].oldLen > 1 /\ hs[n].newLen > 1
ParseContext(s) ==
    LET hs == Hunks(s, 1) IN
    IF ContextReadable(hs) THEN FlattenSeq([n \in DOMAIN hs |-> ContextHunk(hs[n])]) ELSE Unparsed

\* parse_diff: the first format whose hunks are found.
ParseDiff(s, f) ==
    CASE f = "unified" -> ParseUnified(s) [] f = "context" -> ParseContext(s) [] f = "normal" -> ParseDefault(s)
      [] f = "ed" -> ParseEd(s) [] OTHER -> ParseRcs(s)

-----------------------------------------------------------------------------
(* apply_diff *)

\* The source has the lines that the patch deletes and those around them.
SourceMatches(changes, lines) ==
    \A n \in DOMAIN changes : LET c == changes[n] IN
        c.old # Nowhere /\ c.line # NoText => c.old <= Len(lines) /\ lines[c.old] = c.line
\* list.insert: at most at the end, and before 0 counted from the end.
Place(at, len) == LET p == IF at < 1 THEN at + len ELSE at IN IF p < 1 THEN 1 ELSE IF p > len + 1 THEN len + 1 ELSE p
MutApplyOne(acc, c) ==
    IF c.new = Nowhere THEN [acc EXCEPT !.lines = RemoveAt(@, c.old - acc.r), !.r = @ + 1]
    ELSE IF c.old = Nowhere THEN [acc EXCEPT !.lines = InsertAt(@, Place(c.new, Len(@)), c.line), !.i = @ + 1]
    ELSE acc
\* A deleted line is found by what was deleted and inserted before it, an inserted one
\* by its number in the new file.
ApplyOne(acc, c) ==
    IF c.new = Nowhere THEN [acc EXCEPT !.lines = RemoveAt(@, c.old - acc.r + acc.i), !.r = @ + 1]
    ELSE IF c.old = Nowhere THEN [acc EXCEPT !.lines = InsertAt(@, Place(c.new, Len(@)), c.line), !.i = @ + 1]
    ELSE acc
ApplyDiff(changes, lines) ==
    IF changes = Unparsed \/ ~SourceMatches(changes, lines) THEN Unapplied
    ELSE FoldLeft(ApplyOne, [lines |-> lines, r |-> 0, i |-> 0], changes).lines

-----------------------------------------------------------------------------
(* apply_patch, one file *)

PatchGiven(s, f, op) ==
    /\ patchAt = "start" /\ patchAt' = "given" /\ script' = s /\ format' = f /\ fileOp' = op
    /\ (op # "edit" => f = "unified") /\ (op = "edit" => ~AllOf(s, "keep"))
    /\ (op = "create" => AllOf(s, "add")) /\ (op = "delete" => AllOf(s, "del"))
    /\ UNCHANGED <<parsed, written>>
Parses ==
    /\ patchAt = "given" /\ patchAt' = "parsed"
    /\ parsed' = (IF AllOf(script, "keep") THEN <<>> ELSE ParseDiff(script, format))
    /\ UNCHANGED <<script, format, fileOp, written>>
\* A deleted file is removed; a renamed one is moved, and its changes are passed over.
RemovesFile ==
    /\ patchAt = "parsed" /\ fileOp = "delete" /\ patchAt' = "done"
    /\ written' = [path |-> "none", lines |-> <<>>] /\ UNCHANGED <<script, format, fileOp, parsed>>
RenamesFile ==
    /\ patchAt = "parsed" /\ fileOp = "rename" /\ patchAt' = "done"
    /\ written' = [path |-> "moved", lines |-> OldFile(script)] /\ UNCHANGED <<script, format, fileOp, parsed>>
WritesFile ==
    LET lines == ApplyDiff(parsed, OldFile(script)) IN
    /\ patchAt = "parsed" /\ fileOp \in {"edit", "create"} /\ patchAt' = "done"
    /\ written' = (IF lines = Unapplied THEN [path |-> "error", lines |-> <<>>] ELSE [path |-> "here", lines |-> lines])
    /\ UNCHANGED <<script, format, fileOp, parsed>>

PatchNext ==
    \/ patchAt = "start" /\ \E s \in Scripts : \E f \in Formats, op \in {"edit", "create", "delete", "rename"} : PatchGiven(s, f, op)
    \/ Parses \/ RemovesFile \/ RenamesFile \/ WritesFile

-----------------------------------------------------------------------------
Wanted ==
    CASE fileOp = "delete" -> [path |-> "none", lines |-> <<>>]
      [] fileOp = "rename" -> [path |-> "moved", lines |-> NewFile(script)]
      [] OTHER -> [path |-> "here", lines |-> NewFile(script)]
\* The parts of a context hunk end together.
EndsInContext(h) == Last(h.body).kind = "keep" \/ Part(h.body, "del") = <<>> \/ Part(h.body, "add") = <<>>
\* An ed command that replaces by one line, or one line by two.
SimpleCommand(h) == h.oldLen = 0 \/ h.newLen <= 1 \/ (h.oldLen = 1 /\ h.newLen = 2)
\* A patch as git writes it, and one in the normal or the RCS format, makes the new file
\* of the old one; a context patch if its ranges have two lines and its hunks end in
\* context, an ed script if it replaces by single lines.  A renamed file loses what was
\* changed in it, and only that.
PatchApplied ==
    patchAt = "done" =>
        \/ written = Wanted
        \/ fileOp = "rename" /\ OldFile(script) # NewFile(script) /\ written = [path |-> "moved", lines |-> OldFile(script)]
        \/ format = "context" /\ ~(ContextReadable(Hunks(script, 1)) /\ \A n \in DOMAIN Hunks(script, 1) : EndsInContext(Hunks(script, 1)[n]))
        \/ format = "ed" /\ ~\A n \in DOMAIN Hunks(script, 0) : SimpleCommand(Hunks(script, 0)[n])
=============================================================================
