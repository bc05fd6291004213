------------------------------ MODULE Sections -------------------------------
(***************************************************************************)
(* The documents of tpt-rag-core/src/parser.rs that have sections: a       *)
(* Markdown text with its headings and the edges of its code blocks, and   *)
(* the pages of a PDF.  pulldown_cmark is outside: a Markdown source is    *)
(* the sequence of events that it reports.                                 *)
(***************************************************************************)
EXTENDS Chunker

Document(text, headings, boundaries) ==
    [text |-> text, headings |-> headings, boundaries |-> boundaries]
Plain(text) == Document(text, <<>>, <<>>)

(***************************************************************************)
(* Markdown.  The state of the loop is what it has written, the headings   *)
(* that enclose the current place (outermost first), and the heading that  *)
(* is being read, a sequence of none or one.                               *)
(***************************************************************************)
Reading == [out |-> <<>>, headings |-> <<>>, boundaries |-> <<>>,
            outline |-> <<>>, open |-> <<>>]

\* The outline under which a heading of this level comes.
Above(outline, level) ==
    LET outer == {n \in 0..Len(outline) : n = 0 \/ outline[n].level < level}
    IN  SubSeq(outline, 1, Max(outer))

Newline(s) == [s EXCEPT !.out = Append(@, "\n")]

CloseHeading(s, h) ==
    LET outline == Append(Above(s.outline, h.level),
                          [level |-> h.level, title |-> Trim(h.title)])
        path    == [i \in DOMAIN outline |-> outline[i].title]
    IN  [s EXCEPT !.outline = outline, !.open = <<>>,
                  !.headings = Append(@, [offset |-> h.offset, path |-> path])]

Event(s, e) ==
    CASE e.event = "heading" ->
            [s EXCEPT !.open = <<[level |-> e.level, offset |-> Len(s.out), title |-> <<>>]>>]
      [] e.event = "end of heading" ->
            Newline(IF s.open = <<>> THEN s ELSE CloseHeading(s, s.open[1]))
      [] e.event = "text" ->
            [s EXCEPT !.out = @ \o e.text,
                      !.open = [i \in DOMAIN @ |-> [@[i] EXCEPT !.title = @ \o e.text]]]
      [] e.event = "code" -> [s EXCEPT !.boundaries = Append(@, Len(s.out))]
      [] e.event = "end of code" ->
            LET n == Newline(s) IN [n EXCEPT !.boundaries = Append(@, Len(n.out))]
      [] OTHER -> Newline(s)      \* a break, or the end of a paragraph or an item

\* The start is trimmed, so every offset moves back by what was removed.
markdown_document(events) ==
    LET s         == FoldLeft(Event, Reading, events)
        leading   == TrimRange(s.out, 0, Len(s.out))[1]
        moved(at) == Max({0, at - leading})
    IN  Document(Trim(s.out),
                 [i \in DOMAIN s.headings |-> [s.headings[i] EXCEPT !.offset = moved(@)]],
                 [i \in DOMAIN s.boundaries |-> moved(s.boundaries[i])])

(***************************************************************************)
(* A section for each page of a PDF that has text.                         *)
(***************************************************************************)
document_from_pages(pages) ==
    LET add(d, n) ==
            LET page == Trim(pages[n])
                text == IF d.text = <<>> THEN <<>> ELSE d.text \o <<"\n", "\n">>
            IN  IF page = <<>> THEN d
                ELSE [d EXCEPT !.headings = Append(@, [offset |-> Len(text), path |-> <<n>>]),
                               !.text = text \o page]
    IN  FoldLeftDomain(add, Plain(<<>>), pages)

NoSection == <<>>

\* Mutant: a chunk that begins with a heading has the section before it.
section_at_before(document, offset) ==
    LET above == {i \in DOMAIN document.headings : document.headings[i].offset < offset}
    IN  IF above = {} THEN NoSection ELSE document.headings[Max(above)].path

\* The path of the last heading at or before the offset.
section_at(document, offset) ==
    LET above == {i \in DOMAIN document.headings : document.headings[i].offset <= offset}
    IN  IF above = {} THEN NoSection ELSE document.headings[Max(above)].path

\* Where headings and boundaries are.
Offsets(document) ==
    {document.headings[i].offset : i \in DOMAIN document.headings}
      \cup {document.boundaries[i] : i \in DOMAIN document.boundaries}

\* Mutant: what is before the first heading is no section.
SectionStartsAtHeadings(document) ==
    IF Offsets(document) = {} THEN <<0>> ELSE Sorted(Offsets(document))

\* Where chunk_document cuts: at the start, each heading and each boundary.
SectionStarts(document) == Sorted({0} \cup Offsets(document))
=============================================================================
