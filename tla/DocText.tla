------------------------------ MODULE DocText ------------------------------
(***************************************************************************)
(* The body of one Google Doc as write_markdown replaces it and            *)
(* docs_document_to_markdown reads it back (connectors/google/docs.py, the *)
(* Docs half of core/markdown.py).  A Doc is a sequence of UTF-16 code     *)
(* units, which is what Docs indices count; a paragraph keeps its heading  *)
(* level in the newline that ends it.  A body is a sequence of lines, each *)
(* a heading level and a text; a text is a sequence of characters, those   *)
(* in Wide taking two units.                                               *)
(***************************************************************************)
EXTENDS Naturals, Sequences, SequencesExt

CONSTANTS Writers,    \* who writes the Doc: the lock holder, and lock-free calls
          Bodies,     \* the bodies a page can have, as rendered from its blocks
          Typed,      \* the paragraphs a user may leave at the end of the Doc
          Wide,       \* characters outside the Basic Multilingual Plane
          Allowed,    \* what else may happen: "type", "lost"
          MaxWrites, MaxEdits   \* bounds on the writes begun, and on edits and lost answers

Low   == "low"        \* the second unit of a wide character
Break == "\n"
Null  == <<>>         \* no body asked for, or one the user has written over

DocTextConstants == \A b \in Bodies : Len(b) > 0 /\ \A i \in DOMAIN b :
                                b[i].level \in 0..3 /\ Break \notin {b[i].text[j] : j \in DOMAIN b[i].text}

VARIABLES doc,     \* the Doc: a sequence of [c, level]
          w,       \* [Writers -> [pc, md, end, calm]]; calm: the Doc is as it was read
          shown,   \* the body of the last write that was answered
          calm,    \* ... and whether the Doc was still as that write had read it
          writes, edits

vars == <<doc, w, shown, calm, writes, edits>>

Unit(c)   == [c |-> c, level |-> 0]
End(l)    == [c |-> Break, level |-> l]
Units(text) == FlattenSeq([i \in DOMAIN text |->
                  IF text[i] \in Wide THEN <<Unit(text[i]), Unit(Low)>> ELSE <<Unit(text[i])>>])

Init == /\ doc = <<End(0)>>
        /\ w = [i \in Writers |-> [pc |-> "idle", md |-> Null, end |-> 0, calm |-> FALSE]]
        /\ shown = Null /\ calm = FALSE /\ writes = 0 /\ edits = 0

-----------------------------------------------------------------------------
(* What Docs does with the requests                                        *)

Inherited(d) == SelectSeq(d, LAMBDA u : u.c = Break)[1].level
Inserted(d, md) ==    \* insertText at index 1: new paragraphs copy the one there
    FlattenSeq([i \in DOMAIN md |-> Units(md[i].text) \o <<End(Inherited(d))>>]) \o d

ParagraphStart(d, q) ==     \* index of the first unit of the paragraph d[q] ends
    LET breaks == {k \in 1..(q - 1) : d[k].c = Break}
    IN  IF breaks = {} THEN 1 ELSE 1 + CHOOSE k \in breaks : \A j \in breaks : j <= k
Styled(d, from, to, level) ==   \* updateParagraphStyle over [from, to)
    [q \in DOMAIN d |->
        IF d[q].c = Break /\ ParagraphStart(d, q) < to /\ from <= q
        THEN [d[q] EXCEPT !.level = level] ELSE d[q]]

-----------------------------------------------------------------------------
(* write_markdown                                                          *)

ClearOffByOne(end) == IF end <= 2 THEN 1 ELSE end - 2   \* mutant: one unit stays
Cleared(end) == IF end <= 2 THEN 1 ELSE end - 1         \* deletes [1, Cleared)

ParaLen(line) == Len(line.text) + 1           \* len(t) + 1: code points

Index(md, i) == FoldLeft(LAMBDA idx, line : idx + ParaLen(line), 1, SubSeq(md, 1, i - 1))

Headings(md) == {i \in DOMAIN md : md[i].level > 0}

Rendered(d, end, md) ==     \* the requests of one batchUpdate, in their order
    FoldLeft(LAMBDA acc, i :
                IF i \in Headings(md)
                THEN Styled(acc, Index(md, i), Index(md, i) + ParaLen(md[i]), md[i].level)
                ELSE acc,
             Inserted(SubSeq(d, Cleared(end), Len(d)), md),
             [i \in DOMAIN md |-> i])
Valid(d, end) == Cleared(end) <= Len(d)   \* the last newline cannot be deleted

Get(i, md) ==
    /\ w[i].pc = "idle" /\ writes < MaxWrites
    /\ w' = [w EXCEPT ![i] = [pc |-> "update", md |-> md, end |-> Len(doc) + 1, calm |-> TRUE]]
    /\ writes' = writes + 1
    /\ UNCHANGED <<doc, shown, calm, edits>>

Disturbed == [j \in Writers |-> [w[j] EXCEPT !.calm = FALSE]]

Update(i) ==
    /\ w[i].pc = "update" /\ Valid(doc, w[i].end)
    /\ doc' = Rendered(doc, w[i].end, w[i].md)
    /\ shown' = w[i].md /\ calm' = w[i].calm
    /\ w' = [Disturbed EXCEPT ![i].pc = "idle"]
    /\ UNCHANGED <<writes, edits>>

UpdateRefused(i) ==       \* a range past the end: 400, and nothing is applied
    /\ w[i].pc = "update" /\ ~Valid(doc, w[i].end)
    /\ w' = [w EXCEPT ![i].pc = "idle"]
    /\ UNCHANGED <<doc, shown, calm, writes, edits>>

AnswerLost(i) ==          \* applied, but execute() saw a transport error: it retries
    /\ "lost" \in Allowed /\ edits < MaxEdits
    /\ w[i].pc = "update" /\ Valid(doc, w[i].end)
    /\ doc' = Rendered(doc, w[i].end, w[i].md)
    /\ w' = Disturbed /\ shown' = Null
    /\ edits' = edits + 1
    /\ UNCHANGED <<calm, writes>>

Type ==                   \* the user puts another paragraph in the last one's place
    /\ "type" \in Allowed /\ edits < MaxEdits
    /\ \E line \in Typed :
         doc' = SubSeq(doc, 1, ParagraphStart(doc, Len(doc)) - 1)
                  \o Units(line.text) \o <<End(line.level)>>
    /\ w' = Disturbed /\ shown' = Null
    /\ edits' = edits + 1
    /\ UNCHANGED <<calm, writes>>

-----------------------------------------------------------------------------
(* docs_document_to_markdown                                               *)

Breaks(d) == {q \in DOMAIN d : d[q].c = Break}
Paragraphs(d) ==
    LET ends == SetToSortSeq(Breaks(d), LAMBDA a, b : a < b)
    IN  [k \in DOMAIN ends |->
           [level |-> d[ends[k]].level,
            text  |-> [j \in 1..(ends[k] - ParagraphStart(d, ends[k])) |->
                         d[ParagraphStart(d, ends[k]) + j - 1].c]]]
Blank(line) == line.level = 0 /\ line.text = <<>>
Stripped(lines) ==        \* strip("\n")
    LET full == {k \in DOMAIN lines : ~Blank(lines[k])}
        first == CHOOSE k \in full : \A j \in full : k <= j
        last  == CHOOSE k \in full : \A j \in full : j <= k
    IN  IF full = {} THEN <<>> ELSE SubSeq(lines, first, last)
ReadBack(d) == Stripped(Paragraphs(d))

AsUnits(md) == [k \in DOMAIN md |->
                  [md[k] EXCEPT !.text = [j \in DOMAIN Units(@) |-> Units(@)[j].c]]]

-----------------------------------------------------------------------------
(* What a write promises                                                   *)

TypeOK == /\ \A k \in DOMAIN doc : doc[k].level \in 0..3 /\ (doc[k].c # Break => doc[k].level = 0)
          /\ w \in [Writers -> [pc : {"idle", "update"}, md : Bodies \cup {Null}, end : Nat,
                            calm : BOOLEAN]]
          /\ calm \in BOOLEAN /\ shown \in Bodies \cup {Null}
          /\ writes \in 0..MaxWrites /\ edits \in 0..MaxEdits

\* "Replace the entire Doc body with content rendered from markdown": a write that
\* finds the Doc as it read it leaves exactly its body, every heading in its place
\* and nothing of what earlier mishaps left there.
WriteReplaces == shown # Null /\ calm => ReadBack(doc) = Stripped(AsUnits(shown))

\* The same of every write that was answered, the retried ones included ("execute
\* retries the request ... so a burst self-throttles instead of failing").
EntireBody == shown # Null => ReadBack(doc) = Stripped(AsUnits(shown))

-----------------------------------------------------------------------------
Write == \E i \in Writers : \/ \E md \in Bodies : Get(i, md)
                            \/ Update(i) \/ UpdateRefused(i) \/ AnswerLost(i)
Next == Write \/ Type
Spec == Init /\ [][Next]_vars
=============================================================================
