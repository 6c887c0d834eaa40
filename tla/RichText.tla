------------------------------ MODULE RichText ------------------------------
(***************************************************************************)
(* Inline Markdown (core/markdown.py): Notion's rich text to Markdown, and *)
(* back by peeling the markers.  A text is a sequence of characters; a     *)
(* span is a text, the annotations on it and its link.                     *)
(***************************************************************************)
EXTENDS Naturals, Sequences, SequencesExt, FiniteSets

CONSTANTS Pieces,     \* what is typed into Markdown, a piece at a time
          Spans,      \* the spans a user of Notion may write
          MaxLen, MaxSpans   \* bounds

NoLink == <<>>
Mark == [bold |-> <<"*", "*">>, strikethrough |-> <<"~", "~">>,
         italic |-> <<"_">>, code |-> <<"tick">>]
Annotations == DOMAIN Mark

VARIABLES md,      \* the Markdown, while pc is "typing" or "md"
          spans,   \* the rich_text array
          pc, trips

vars == <<md, spans, pc, trips>>

-----------------------------------------------------------------------------
(* rich_text_to_md                                                         *)

Around(mark, s) == mark \o s \o mark
Nested == <<"code", "strikethrough", "italic", "bold">>     \* inner to outer
SpanToMd(span) ==
    LET marked == FoldLeft(LAMBDA s, a : IF a \in span.ann THEN Around(Mark[a], s) ELSE s,
                           span.text, Nested)
    IN  IF span.link = NoLink THEN marked
        ELSE <<"[">> \o marked \o <<"]", "(">> \o span.link \o <<")">>
RichTextToMd(ss) == FlattenSeq([k \in 1..Len(ss) |-> SpanToMd(ss[k])])

-----------------------------------------------------------------------------
(* md_to_rich_text                                                         *)

At(s, mark, i)      == i + Len(mark) - 1 <= Len(s) /\ SubSeq(s, i, i + Len(mark) - 1) = mark
Found(s, mark, i)   == {j \in i..(Len(s) + 1 - Len(mark)) : At(s, mark, j)}
First(S)            == CHOOSE i \in S : \A j \in S : i <= j
Span(s, ann, link)  == [text |-> s, ann |-> ann, link |-> link]

\* [text](url): the shortest text that is not empty, and a url without ")".
Links(s, i) == {j \in Found(s, <<"]", "(">>, i + 2) : Found(s, <<")">>, j + 2) # {}}
IsLink(s, i, link) == link = NoLink /\ At(s, <<"[">>, i) /\ Links(s, i) # {}
TextEnd(s, i) == First(Links(s, i))
UrlEnd(s, i)  == First(Found(s, <<")">>, TextEnd(s, i) + 2))

Peeled == <<"bold", "strikethrough", "italic", "code">>     \* as the parser looks for them
Past(end, mark)  == end                                     \* mutant: the marker is read again
After(end, mark) == end + Len(mark)
Opens(s, i, ann) == {a \in Annotations \ ann :
                       At(s, Mark[a], i) /\ Found(s, Mark[a], i + Len(Mark[a])) # {}}

RECURSIVE ParseInline(_, _, _, _, _)
ParseInline(s, i, buf, ann, link) ==
    LET flushed == IF buf = <<>> THEN <<>> ELSE <<Span(buf, ann, link)>>
    IN  IF i > Len(s) THEN flushed
        ELSE IF IsLink(s, i, link)
        THEN flushed
             \o ParseInline(SubSeq(s, i + 1, TextEnd(s, i) - 1), 1, <<>>, ann,
                            SubSeq(s, TextEnd(s, i) + 2, UrlEnd(s, i) - 1))
             \o ParseInline(s, UrlEnd(s, i) + 1, <<>>, ann, link)
        ELSE IF Opens(s, i, ann) # {}
        THEN LET a     == SelectSeq(Peeled, LAMBDA x : x \in Opens(s, i, ann))[1]
                 end   == First(Found(s, Mark[a], i + Len(Mark[a])))
                 inner == SubSeq(s, i + Len(Mark[a]), end - 1)
             IN  flushed
                 \o (IF a = "code" THEN <<Span(inner, ann \cup {a}, link)>>
                                   ELSE ParseInline(inner, 1, <<>>, ann \cup {a}, link))
                 \o ParseInline(s, After(end, Mark[a]), <<>>, ann, link)
        ELSE ParseInline(s, i + 1, Append(buf, s[i]), ann, link)

MdToRichText(s) == LET ss == ParseInline(s, 1, <<>>, {}, NoLink)
                   IN  IF ss = <<>> THEN <<Span(<<>>, {}, NoLink)>> ELSE ss

-----------------------------------------------------------------------------
(* Back and forth, from what is typed as Markdown or written in Notion     *)

Init == md = <<>> /\ spans = <<>> /\ pc = "typing" /\ trips = 0

Type == /\ pc = "typing" /\ spans = <<>>
        /\ \E p \in Pieces : Len(md \o p) <= MaxLen /\ md' = md \o p
        /\ UNCHANGED <<spans, pc, trips>>

WriteSpan == /\ pc = "typing" /\ md = <<>> /\ Len(spans) < MaxSpans
             /\ \E span \in Spans : spans' = Append(spans, span)
             /\ UNCHANGED <<md, pc, trips>>

ToNotion == /\ pc = "md" \/ (pc = "typing" /\ md # <<>>)
            /\ trips < 2
            /\ spans' = MdToRichText(md) /\ pc' = "spans"
            /\ UNCHANGED <<md, trips>>

ToMd == /\ pc = "spans" \/ (pc = "typing" /\ spans # <<>>)
        /\ md' = RichTextToMd(spans) /\ pc' = "md" /\ trips' = trips + 1
        /\ UNCHANGED spans

Next == Type \/ WriteSpan \/ ToNotion \/ ToMd
Spec == Init /\ [][Next]_vars

-----------------------------------------------------------------------------
(* What is promised                                                        *)

Markup   == {"*", "~", "_", "tick", "[", "]", "(", ")"}
Again(s) == RichTextToMd(MdToRichText(s))

\* No character of the markup is left in a text where it stands against a marker
\* or another span: "a_b" alone is clear, "_" beside a span or in bold is not.
Clear(ss) == \A k \in 1..Len(ss) :
                LET text  == ss[k].text
                    alone == ss[k].ann = {} /\ ss[k].link = NoLink
                IN  /\ text = <<>> => alone /\ Len(ss) = 1
                    /\ text # <<>> => /\ (alone /\ k = 1) \/ text[1] \notin Markup
                                      /\ (alone /\ k = Len(ss)) \/ Last(text) \notin Markup

\* "Converting the same content back and forth must land on the identical
\* canonical Markdown": what a conversion rendered comes back from the next, whatever
\* was typed or written, if its spans are clear.
RoundTripStable == [][pc' = "md" /\ spans # <<>> /\ Clear(spans) => Again(md') = md']_vars

\* The same of every text, as the module's docstring has it: "a hard requirement".
\* The code does not keep it: an empty mark vanishes, and what it kept apart is read
\* as one marker.
AlwaysStable == [][pc' = "md" /\ spans # <<>> => Again(md') = md']_vars

Shown(ss) == FlattenSeq([k \in 1..Len(ss) |->
                [c \in 1..Len(ss[k].text) |-> <<ss[k].text[c], ss[k].ann, ss[k].link>>]])
Letters(ss) == \A k \in 1..Len(ss) : \A c \in 1..Len(ss[k].text) : ss[k].text[c] \notin Markup

\* What a user wrote in Notion without a character of the markup comes back with the
\* annotations and the link it had, whatever stands beside it: the markers two
\* neighbouring spans put side by side are never paired across the spans.
SpansSurvive == [][pc = "md" /\ trips >= 1 /\ Letters(spans) => Shown(spans') = Shown(spans)]_vars
=============================================================================
