------------------------------- MODULE Formats -------------------------------
(***************************************************************************)
(* The text that tpt-rag-core/src/parser.rs reads out of files that are    *)
(* not prose: CSV tables, JSON values, HTML trees and Word documents.  The *)
(* libraries that read JSON, HTML and zip archives are outside: a JSON     *)
(* value and an HTML page are trees, whose nodes are numbered so that a    *)
(* child comes after its parent, and a Word document is its list of tags.  *)
(***************************************************************************)
EXTENDS Chunker

Join(parts, separator) ==
    FoldLeft(LAMBDA acc, i : acc \o (IF i = 1 THEN <<>> ELSE separator) \o parts[i],
             <<>>, [i \in DOMAIN parts |-> i])

(***************************************************************************)
(* CSV.  `skip` holds when the last character was the first of two quotes  *)
(* inside a quoted field: the second is part of the escape.                *)
(***************************************************************************)
EndCell(s) == [s EXCEPT !.row = Append(@, s.cell), !.cell = <<>>]
EndRow(s) == [s EXCEPT !.rows = Append(@, s.row), !.row = <<>>]

CsvChar(s, ch, next) ==
    CASE s.skip -> [s EXCEPT !.skip = FALSE]
      [] ~s.skip /\ s.in_quotes /\ ch = "\"" /\ next = "\"" ->
            [s EXCEPT !.cell = Append(@, ch), !.skip = TRUE]
      [] ~s.skip /\ ch = "\"" /\ ~(s.in_quotes /\ next = "\"") ->
            [s EXCEPT !.in_quotes = ~@]
      [] ~s.skip /\ ~s.in_quotes /\ ch = "," -> EndCell(s)
      [] ~s.skip /\ ~s.in_quotes /\ ch = "\r" -> s
      [] ~s.skip /\ ~s.in_quotes /\ ch = "\n" -> EndRow(EndCell(s))
      [] OTHER -> [s EXCEPT !.cell = Append(@, ch)]

parse_csv(text) ==
    LET start == [rows |-> <<>>, row |-> <<>>, cell |-> <<>>,
                  in_quotes |-> FALSE, skip |-> FALSE]
        read(s, i) == CsvChar(s, text[i], IF i < Len(text) THEN text[i + 1] ELSE "")
        last == FoldLeftDomain(read, start, text)
    IN  IF last.cell = <<>> /\ last.row = <<>> THEN last.rows
        ELSE EndRow(EndCell(last)).rows

\* One line per row below the header: every cell with the name of its column.
CsvLine(header, row) ==
    LET filled  == SelectSeq([i \in DOMAIN row |-> i], LAMBDA i : ~IsBlank(row[i]))
        name(i) == IF i \in DOMAIN header THEN Trim(header[i]) ELSE <<>>
        cell(i) == IF name(i) = <<>> THEN Trim(row[i])
                   ELSE name(i) \o <<":", " ">> \o Trim(row[i])
    IN  Join([k \in DOMAIN filled |-> cell(filled[k])], <<";", " ">>)

CsvLines(table) ==
    LET rows  == SelectSeq(table, LAMBDA row : \E i \in DOMAIN row : ~IsBlank(row[i]))
        lines == [i \in 1..Len(rows) - 1 |-> CsvLine(rows[1], rows[i + 1])]
    IN  IF rows = <<>> THEN <<>>
        ELSE Join(SelectSeq(lines, LAMBDA line : line # <<>>), <<"\n">>)

CsvText(file) == CsvLines(parse_csv(file))

(***************************************************************************)
(* JSON.  A node is [node, keys, children, text]; a "null" has no line.    *)
(***************************************************************************)
JsonPath(prefix, parent, k) ==
    CASE parent.node = "array" -> prefix \o <<"[", ToString(k - 1), "]">>
      [] prefix = <<>> -> parent.keys[k]
      [] OTHER -> prefix \o <<".">> \o parent.keys[k]

flatten_json(tree) ==
    LET lines[n \in DOMAIN tree, prefix \in Seq(STRING)] ==
            LET v == tree[n]
            IN  CASE v.node = "null" -> <<>>
                  [] v.node = "leaf" -> <<prefix \o <<":", " ">> \o v.text>>
                  [] OTHER -> FoldLeftDomain(LAMBDA acc, k :
                        acc \o lines[v.children[k], JsonPath(prefix, v, k)], <<>>, v.children)
    IN  lines[1, <<>>]

JsonText(tree) == Join(flatten_json(tree), <<"\n">>)

(***************************************************************************)
(* HTML.  A node is [node, tag, children, text]; "other" is a comment, a   *)
(* doctype or the like.                                                    *)
(***************************************************************************)
SKIPPED_HTML_TAGS == {"script", "style", "noscript"}
block_tags == {"p", "div", "br", "h1", "h2", "h3", "h4", "h5", "h6", "li", "tr"}

extract_text_from_html(tree) ==
    LET under(texts, n) ==
            FoldLeft(LAMBDA acc, child : acc \o texts[child], <<>>, tree[n].children)
        text[n \in DOMAIN tree] ==
            CASE tree[n].node = "text" ->
                    IF IsBlank(tree[n].text) THEN <<>> ELSE Append(Trim(tree[n].text), " ")
              [] tree[n].node = "element" ->
                    IF tree[n].tag \in SKIPPED_HTML_TAGS THEN <<>>
                    ELSE (IF tree[n].tag \in block_tags THEN <<"\n">> ELSE <<>>)
                         \o under(text, n)
              [] tree[n].node = "document" -> under(text, n)
              [] OTHER -> <<>>
    IN  Trim(text[1])


DocxTag(s, tag) ==
    LET out  == s.out \o (IF s.in_text THEN tag.before ELSE <<>>)
        mark == CASE tag.name = "w:tab" -> <<"\t">>
                  [] tag.name \in {"w:br", "w:cr", "/w:p"} -> <<"\n">>
                  [] OTHER -> <<>>
    IN  [out |-> out \o mark,
         in_text |-> \/ tag.name = "w:t" /\ ~tag.closed
                     \/ s.in_text /\ tag.name # "/w:t"]

\* The whitespace at the end of each line goes, and that around the text.
TrimLines(text) ==
    LET dropped(i) == /\ text[i] # "\n" /\ IsWhite(text[i])
                      /\ \E j \in i..Len(text) :
                            /\ \A k \in i..j : IsWhite(text[k])
                            /\ j = Len(text) \/ text[j] = "\n"
        kept == SelectSeq([i \in DOMAIN text |-> i], LAMBDA i : ~dropped(i))
    IN  Trim([k \in DOMAIN kept |-> text[kept[k]]])

docx_body_text(tags) ==
    TrimLines(FoldLeft(DocxTag, [out |-> <<>>, in_text |-> FALSE], tags).out)
=============================================================================
