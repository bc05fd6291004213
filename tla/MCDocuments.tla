----------------------------- MODULE MCDocuments -----------------------------
(***************************************************************************)
(* Documents for TLC: short files of every format.  Each block of a        *)
(* Markdown file and each page of a PDF has a letter of its own, which     *)
(* tells where a chunk's text comes from.                                  *)
(***************************************************************************)
EXTENDS Documents, TLC, FiniteSets

File(call, ext, body, words, origin) ==
    [call |-> call, ext |-> ext, size |-> 1, body |-> body, words |-> words,
     origin |-> origin, caveat |-> "none"]
NoOrigin == [c \in {} |-> 0]
Flatten(seqs) == FoldLeft(LAMBDA acc, s : acc \o s, <<>>, seqs)
SeqsUpTo(S, n) == UNION {[1..k -> S] : k \in 0..n}

(***************************************************************************)
(* Texts: every text of four characters, and words with ends of sentences. *)
(***************************************************************************)
Spaced(words) == Join(words, <<" ">>)
TextsUpTo(chars, words) ==
    SeqsUpTo({"a", ".", "!", " "}, chars)
      \cup {Spaced(w) : w \in SeqsUpTo({<<"a">>, <<"!">>, <<"b", "b", ".", ")">>}, words)}
      \cup {Spaced(w) : w \in [1..words + 1 -> {<<"a">>, <<"b", "b", ".", ")">>}]}
      \cup {Spaced(<< <<"d", "r", ".">>, <<"b", "b", ".">>, <<"a">>, <<"b">> >>),
            Spaced(<< <<"B", "~", "a">>, <<"b", "b", "b", "b", "b">>, <<"a", ")">> >>)}
TextCalls(chars, words) ==
    {File(call, "", t, WordsOf(t), NoOrigin) :
        call \in {"add_text", "semantic"}, t \in TextsUpTo(chars, words)}

(***************************************************************************)
(* Markdown: up to n blocks.                                               *)
(***************************************************************************)
Text(t) == [event |-> "text", text |-> t]
E(event) == [event |-> event]
Block(kind, level, texts) == [kind |-> kind, level |-> level, texts |-> texts]
Blocks(c) ==
    {Block("heading", 1, << <<c>> >>), Block("heading", 2, << <<c, " ">>, <<c>> >>),
     Block("heading", 1, <<>>),
     Block("paragraph", 0, << <<c, " ", c, "!">>, <<c>> >>), Block("item", 0, << <<c>> >>),
     Block("nested", 0, << <<c>>, <<c>> >>),
     Block("code", 0, << <<c, "\n">> >>), Block("code", 0, << <<" ", c, " ", c, "\n">> >>),
     Block("code", 0, <<>>)}

EventsOf(b) ==
    LET texts == [i \in DOMAIN b.texts |-> Text(b.texts[i])]
    IN  CASE b.kind = "heading" ->
                <<[event |-> "heading", level |-> b.level]>> \o texts \o <<E("end of heading")>>
          [] b.kind = "code" -> <<E("code")>> \o texts \o <<E("end of code")>>
          [] b.kind = "paragraph" ->
                <<texts[1], E("break")>> \o Tail(texts) \o <<E("end of paragraph")>>
          [] b.kind = "item" -> texts \o <<E("end of item")>>
          [] b.kind = "nested" -> texts \o <<E("end of item"), E("end of item")>>

\* What each block is under, told from the blocks.
PathAt(blocks, k) ==
    LET encloses(j) == /\ blocks[j].kind = "heading"
                       /\ \A i \in j + 1..k : blocks[i].kind = "heading"
                                                  => blocks[i].level > blocks[j].level
        above == SelectSeq([j \in 1..k |-> j], encloses)
    IN  [i \in DOMAIN above |-> Trim(Flatten(blocks[above[i]].texts))]
RegionAt(blocks, k) == Cardinality({j \in 1..k :
    blocks[j].kind \in {"heading", "code"} \/ (j > 1 /\ blocks[j - 1].kind = "code")})

Letter == <<"a", "b", "d">>
Origins(places) ==
    [c \in {Letter[k] : k \in DOMAIN places} |->
        places[CHOOSE k \in DOMAIN places : Letter[k] = c]]

MarkdownFile(blocks) ==
    LET words(b) == WordsOf(IF b.kind \in {"paragraph", "nested"} THEN Join(b.texts, <<" ">>)
                            ELSE Flatten(b.texts))
        file == File("add_document", "MD",
                     Flatten([k \in DOMAIN blocks |-> EventsOf(blocks[k])]),
                     Flatten([k \in DOMAIN blocks |-> words(blocks[k])]),
                     Origins([k \in DOMAIN blocks |->
                        [section |-> PathAt(blocks, k), region |-> RegionAt(blocks, k)]]))
    IN  IF \E k \in DOMAIN blocks : blocks[k].kind = "nested"
          THEN [file EXCEPT !.caveat = "word ends"] ELSE file
MarkdownFiles(n) ==
    {MarkdownFile(blocks) : blocks \in
        UNION {{b \in [1..k -> UNION {Blocks(c) : c \in Range(Letter)}] :
                    \A i \in 1..k : b[i] \in Blocks(Letter[i])} : k \in 1..n}}

PdfFiles ==
    LET pages(c) == {<<>>, <<c>>, <<" ", c, " ", c, c>>}
    IN  {File("add_document", "pdf", p, WordsOf(Join(p, <<" ">>)),
              Origins([k \in 1..3 |-> [section |-> <<k>>, region |-> k]])) :
            p \in pages("a") \X pages("b") \X pages("d")}

(***************************************************************************)
(* Tables, as a program would write them.  A reader sees each cell of a    *)
(* row under the name of its column, and the rows one after the other.     *)
(***************************************************************************)
Quoted(cell) ==
    <<"\"">> \o Flatten([i \in DOMAIN cell |->
        IF cell[i] = "\"" THEN <<"\"", "\"">> ELSE <<cell[i]>>]) \o <<"\"">>
WriteCell(cell) ==
    IF \E i \in DOMAIN cell : cell[i] \in {",", "\"", "\n"} THEN Quoted(cell) ELSE cell
WriteRow(row) == Join([i \in DOMAIN row |-> WriteCell(row[i])], <<",">>)
Cells == {<<>>, <<"a">>, <<"b", ",", "\n", " ", "b">>, <<"\"", "a">>}
Rows == {<<c>> : c \in Cells} \cup Cells \X Cells
WriteTable(table) == Join([i \in DOMAIN table |-> WriteRow(table[i])], <<"\r", "\n">>)

Filled(row) == {i \in DOMAIN row : WordsOf(row[i]) # <<>>}
Marked(words, mark) == Append(Front(words), Append(Last(words), mark))
Seen(names, row, i) ==
    LET name == IF i \in DOMAIN names \cap Filled(names) THEN Marked(WordsOf(names[i]), ":")
                ELSE <<>>
        cell == WordsOf(row[i])
    IN  name \o IF \E j \in Filled(row) : j > i THEN Marked(cell, ";") ELSE cell
SeenRow(names, row) ==
    Flatten([i \in DOMAIN row |-> IF i \in Filled(row) THEN Seen(names, row, i) ELSE <<>>])
SeenTable(table) ==
    LET rows == SelectSeq(table, LAMBDA row : Filled(row) # {})
    IN  Flatten([k \in DOMAIN rows |-> IF k = 1 THEN <<>> ELSE SeenRow(rows[1], rows[k])])

CsvFiles ==
    {File("add_document", "csv", WriteTable(t) \o end, SeenTable(t), NoOrigin) :
        t \in SeqsUpTo(Rows, 2), end \in {<<>>, <<"\n">>}}

\* Tables without names, read as parser.rs:230 says.
Bars(row) == Flatten([i \in DOMAIN row |-> (IF i = 1 THEN <<>> ELSE << <<"|">> >>) \o <<row[i]>>])
TablesOfValues ==
    {[File("add_document", "csv", WriteTable(t), Flatten([k \in DOMAIN t |-> Bars(t[k])]), NoOrigin)
        EXCEPT !.caveat = "no names"] :
        t \in UNION {[1..n -> {<< <<"a">>, <<"b">> >>, << <<"d">>, <<"a">> >>}] : n \in 1..3}}

(***************************************************************************)
(* Pages, values and Word documents.                                       *)
(***************************************************************************)
Node(node, tag, children, text) ==
    [node |-> node, tag |-> tag, keys |-> tag, children |-> children, text |-> text]
HtmlFile(outer, inner) ==
    File("add_document", "html",
         << Node("document", "", <<2, 5, 6>>, <<>>), Node("element", outer, <<3>>, <<>>),
            Node("element", inner, <<4>>, <<>>), Node("text", "", <<>>, <<" ", "a", "\n">>),
            Node("other", "", <<>>, <<"b">>), Node("text", "", <<>>, <<"d">>) >>,
         (IF {outer, inner} \cap {"script", "style"} = {} THEN << <<"a">> >> ELSE <<>>)
            \o << <<"d">> >>, NoOrigin)
TagInAWord ==
    [File("add_document", "html",
          << Node("document", "", <<2, 3>>, <<>>), Node("text", "", <<>>, <<"a">>),
             Node("element", "em", <<4>>, <<>>), Node("text", "", <<>>, <<"b">>) >>,
          << <<"a", "b">> >>, NoOrigin) EXCEPT !.caveat = "word ends"]
HtmlFiles == {HtmlFile(t, u) : t, u \in {"p", "em", "script", "style"}} \cup {TagInAWord}

JsonFiles ==
    LET leaf == Node("leaf", <<>>, <<>>, <<"d">>)
        null == Node("null", <<>>, <<>>, <<>>)
    IN  {File("add_document", "json", << leaf >>, << <<":">>, <<"d">> >>, NoOrigin),
         File("add_document", "json",
              << Node("object", << <<"a">>, <<"b">> >>, <<2, 3>>, <<>>), leaf,
                 Node("array", <<>>, <<4, 5, 6>>, <<>>), null, leaf,
                 Node("object", << <<"n">> >>, <<7>>, <<>>), leaf >>,
              << <<"a", ":">>, <<"d">>, <<"b", "[", "1", "]", ":">>, <<"d">>,
                 <<"b", "[", "2", "]", ".", "n", ":">>, <<"d">> >>, NoOrigin),
         File("add_document", "json",
              << Node("array", <<>>, <<2, 3>>, <<>>),
                 Node("array", <<>>, <<4>>, <<>>), Node("object", <<>>, <<>>, <<>>), leaf >>,
              << <<"[", "0", "]", "[", "0", "]", ":">>, <<"d">> >>, NoOrigin)}

Tag(before, name, closed) == [before |-> before, name |-> name, closed |-> closed]
Items == {"run", "gap", "tab", "br", "end", "empty", "style"}
TagsOf(item) ==
    CASE item = "run"   -> <<Tag(<<"\n">>, "w:t", FALSE), Tag(<<"a">>, "/w:t", FALSE)>>
      [] item = "gap"   -> <<Tag(<<>>, "w:t", FALSE), Tag(<<" ", "b">>, "/w:t", FALSE)>>
      [] item = "tab"   -> <<Tag(<<" ">>, "w:tab", TRUE)>>
      [] item = "br"    -> <<Tag(<<>>, "w:br", TRUE)>>
      [] item = "end"   -> <<Tag(<<>>, "/w:p", FALSE)>>
      [] item = "empty" -> <<Tag(<<>>, "w:t", TRUE)>>
      [] item = "style" -> <<Tag(<<"d">>, "w:rPr", FALSE)>>
SeenItem(item) ==
    CASE item = "run" -> <<"a">> [] item = "gap" -> <<" ", "b">>
      [] item \in {"tab", "br", "end"} -> <<" ">> [] OTHER -> <<>>
DocxFiles ==
    {File("add_document", "docx", Flatten([i \in DOMAIN d |-> TagsOf(d[i])]),
          WordsOf(Flatten([i \in DOMAIN d |-> SeenItem(d[i])])), NoOrigin) :
        d \in SeqsUpTo(Items, 3)}

(***************************************************************************)
(* Batches.                                                                *)
(***************************************************************************)
TextFile(ext, body, words) == File("add_document", ext, body, words, NoOrigin)
Good == TextFile("txt", <<"BOM", "a", " ", "invalid">>, << <<"a">>, <<"?">> >>)
Bad == {TextFile("exe", <<"a">>, <<>>), TextFile("txt", <<" ">>, <<>>),
        TextFile("json", Malformed, <<>>), TextFile("py", <<>>, <<>>),
        [Good EXCEPT !.size = 9], [Good EXCEPT !.size = Missing],
        [TextFile("log", <<"b">>, << <<"b">> >>) EXCEPT !.size = 9]}
CustomLog == <<[format |-> "custom", extensions |-> {"log"}]>>

Folder ==
    << [Good EXCEPT !.call = "add_directory"],
       [TextFile("exe", <<"a">>, <<>>) EXCEPT !.call = "add_directory"],
       [TextFile("txt", <<" ">>, <<>>) EXCEPT !.call = "add_directory"], Good >>
Pages ==
    {[f EXCEPT !.call = "plan", !.ext = "markdown"] : f \in MarkdownFiles(1)}
      \cup {[f EXCEPT !.call = "plan"] : f \in HtmlFiles}
      \cup {[Good EXCEPT !.call = "plan", !.ext = kind,
                         !.body = <<"a", "\n">>, !.words = << <<"a">> >>] :
               kind \in {"text", "odt"}}

Single(S) == {<<file>> : file \in S}
EveryFile ==
    Single(MarkdownFiles(3) \cup PdfFiles \cup CsvFiles \cup TablesOfValues \cup HtmlFiles
             \cup JsonFiles \cup DocxFiles \cup TextCalls(4, 4) \cup Pages)
      \cup {Folder}
      \cup {<<Good, bad, Good>> : bad \in Bad} \cup {<<b, c>> : b, c \in Bad}
SomeFiles == Single(MarkdownFiles(2))
SomeTables == Single(TablesOfValues)

Config(window, overlap, min) ==
    [window_size |-> window, overlap |-> overlap, min_chunk_size |-> min, graph |-> 1,
     model |-> "tokens"]
EveryConfig == {Config(3, 1, 1), Config(2, 0, 0), Config(3, 2, 2), Config(2, 1, 3),
                [Config(4, 3, 0) EXCEPT !.model = "texts"], Config(1, 0, 1),
                Config(0, 0, 0), Config(2, 2, 1), [Config(1, 0, 1) EXCEPT !.graph = 0],
                [Config(1, 0, 1) EXCEPT !.model = "other"],
                [Config(1, 0, 1) EXCEPT !.model = "empty"]}
SmallVocabulary ==
    << <<"[PAD]">>, <<"[UNK]">>, <<"[CLS]">>, <<"[SEP]">>, <<"b">>, <<"a">>, <<"##", "b">>,
       <<"##", "b", "b">>, <<".">>, <<"!">>, <<"d">>, <<"##", "a">> >>
OneConfig == {Config(2, 1, 1)}
=============================================================================
