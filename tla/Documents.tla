------------------------------ MODULE Documents ------------------------------
(***************************************************************************)
(* From files to chunks: add_document, add_directory and add_text of       *)
(* tpt-rag-core/src/raglite.rs with the parser and the chunker they call,  *)
(* up to the vectors that `ingest` has of them, and the same for the pages *)
(* of the browser engine (`plan` of tpt-rag-wasm/src/engine.rs).           *)
(*                                                                         *)
(* A call is the record of                                                 *)
(*    call    "add_document" for a file that is named, "add_directory" for *)
(*            one that is found in a folder or by a pattern, "add_text",   *)
(*            "plan", or "semantic" (SemanticChunker, which the library    *)
(*            offers its users and does not use),                          *)
(*    ext     the extension of the file, or the kind of the page,          *)
(*    size    its size, or Missing if it cannot be read,                   *)
(*    body    what is in it: characters; the events, pages, tree or tags   *)
(*            that a library finds in it; or Malformed,                    *)
(* and of what the properties compare with:                                *)
(*    words   the words that a reader sees in it,                          *)
(*    caveat  "word ends" if it has a block inside an item of a tight list *)
(*            or a tag inside a word, "no names" for a table without a row *)
(*            of names, "none" for the others,                             *)
(*    origin  for each letter, the place it comes from.                    *)
(***************************************************************************)
EXTENDS Sections, Formats, Encoding

CONSTANTS
    Batches,         \* lists of calls, as ingest_files goes through them
    Configs,         \* chunk configurations
    Registered,      \* parsers that a program has registered, the last first
    MAX_FILE_BYTES,  \* largest file that is read
    Missing, Malformed

\* Sizes are usize (ChunkConfig, RagConfig); a model has outputs of some kind.
ASSUME ConfigsAssumption ==
    \A c \in Configs : /\ {c.window_size, c.overlap, c.min_chunk_size, c.graph} \subseteq Nat
                       /\ c.model \in OutputKinds

VARIABLES
    config,     \* RagConfig: window_size, overlap, min_chunk_size, graph (the least of
                \* m, ef_construction and ef_search) and the output of its model
    todo,       \* the calls that are left; the first is being served
    pc,
    document,   \* what the parser returned
    sections,   \* the section starts that chunk_document has yet to take
    start,      \* Chunker::chunk: the word at which the next chunk starts
    chunks,     \* the chunks so far: [from, to, section]
    vectors,    \* what embed_batch returned for the chunks of the last call
    report      \* IngestReport: "added" or the error, for each file

vars == <<config, todo, pc, document, sections, start, chunks, vectors, report>>

Init ==
    /\ config \in Configs
    /\ todo \in Batches
    /\ pc = "open"
    /\ document = Plain(<<>>)
    /\ sections = <<>> /\ start = 0 /\ chunks = <<>> /\ vectors = <<>> /\ report = <<>>

(***************************************************************************)
(* Parsing.                                                                *)
(***************************************************************************)
SOURCE_EXTENSIONS == {"rs", "py", "log"}        \* three of many

builtin_parsers ==
    << [format |-> "text", extensions |-> {"txt"}],
       [format |-> "markdown", extensions |-> {"md", "markdown", "mdown"}],
       [format |-> "html", extensions |-> {"html", "htm"}],
       [format |-> "csv", extensions |-> {"csv"}],
       [format |-> "json", extensions |-> {"json"}],
       [format |-> "docx", extensions |-> {"docx"}],
       [format |-> "source", extensions |-> SOURCE_EXTENSIONS],
       [format |-> "pdf", extensions |-> {"pdf"}] >>

\* One extension in capitals stands for all.
to_lowercase(ext) == IF ext = "MD" THEN "md" ELSE ext

\* The place of the parser for an extension, 0 if there is none.
parsers == Registered \o builtin_parsers
for_path(ext) == SelectInSeq(parsers, LAMBDA p : to_lowercase(ext) \in p.extensions)

\* A byte order mark goes; a byte that is no UTF-8 becomes a character.
read_text(body) ==
    LET text == IF body # <<>> /\ body[1] = "BOM" THEN Tail(body) ELSE body
    IN  ReplaceAll(text, "invalid", "?")

PlainTextParser(body) == Plain(read_text(body))
SourceParser(body) == Plain(read_text(body))
MarkdownParser(body) == markdown_document(body)
HtmlParser(body) == Plain(extract_text_from_html(body))
CsvParser(body) == Plain(CsvText(read_text(body)))
JsonParser(body) == Plain(JsonText(body))
DocxParser(body) == Plain(docx_body_text(body))
PdfParser(body) == document_from_pages(body)

Parsed(format, body) ==
    CASE format = "text"     -> PlainTextParser(body)
      [] format = "source"   -> SourceParser(body)
      [] format = "markdown" -> MarkdownParser(body)
      [] format = "html"     -> HtmlParser(body)
      [] format = "csv"      -> CsvParser(body)
      [] format = "json"     -> JsonParser(body)
      [] format = "docx"     -> DocxParser(body)
      [] format = "pdf"      -> PdfParser(body)
      [] format = "custom"   -> Plain(body)

\* A page of the browser, by its kind.
PageKinds == {"text", "markdown", "html"}
parse_content(kind, content) ==
    CASE kind = "text"     -> Plain(content)
      [] kind = "markdown" -> markdown_document(content)
      [] kind = "html"     -> Plain(extract_text_from_html(content))

Format(file) == parsers[for_path(file.ext)].format

\* The error that a file ends in before its text is known, or "none".  The
\* built-in parsers look at the size first; a PDF library that panics is
\* caught (PdfParser).
ParseError(file) ==
    IF for_path(file.ext) = 0 THEN "UnsupportedFormat"
    ELSE IF file.size = Missing THEN "Io"
    ELSE IF file.size > MAX_FILE_BYTES /\ Format(file) # "custom" THEN "TooLarge"
    ELSE IF file.body = Malformed THEN "Io"
    ELSE "none"

\* The types of the source: a list of calls; add_text and SemanticChunker take a text, and
\* what a parser returns has a text and offsets.  The mark of a piece is no character.
IsText(text) == text \in Seq(STRING) /\ \A i \in DOMAIN text : text[i] # "##"
IsDocument(d) == IsText(d.text) /\ Offsets(d) \subseteq Nat /\ IsFiniteSet(Offsets(d))

HasItsTypes(c) ==
    /\ c.call \in {"add_text", "semantic"} => IsText(c.body)
    /\ c.call = "plan" /\ c.ext \in PageKinds => IsDocument(parse_content(c.ext, c.body))
    /\ c.call \in {"add_document", "add_directory"} /\ ParseError(c) = "none"
          => IsDocument(Parsed(Format(c), c.body))

ASSUME BatchesAssumption ==
    \A batch \in Batches : batch \in Seq(Range(batch)) /\ \A c \in Range(batch) : HasItsTypes(c)

\* collect_files and add_glob leave out what no parser reads.
collect_files(calls) ==
    At(calls, {i \in DOMAIN calls : calls[i].call = "add_directory" => for_path(calls[i].ext) # 0})

\* RagConfig::validate, Chunker::new
ConfigWorks == /\ config.graph > 0
               /\ config.window_size > 0 /\ config.overlap < config.window_size

\* The model is loaded and the chunker made when the database is opened; then
\* the calls come.
Open ==
    /\ pc = "open"
    /\ pc' = IF ConfigWorks /\ from_loaded(config.model) THEN "call" ELSE "refused"
    /\ todo' = collect_files(todo)
    /\ UNCHANGED <<config, document, sections, start, chunks, vectors, report>>

Answered(outcome, embedded) ==
    /\ report' = Append(report, outcome)
    /\ vectors' = embedded
    /\ todo' = Tail(todo)
    /\ pc' = "call"
    /\ UNCHANGED <<config, document, sections, start, chunks>>

Call(names) == pc = "call" /\ todo # <<>> /\ todo[1].call \in names
AddsFile == Call({"add_document", "add_directory"})

\* add_document fails before it has changed anything, and ingest_files goes on.
Fails ==
    /\ AddsFile
    /\ ParseError(todo[1]) # "none"
    /\ Answered(ParseError(todo[1]), vectors)

HasNoText ==
    /\ AddsFile
    /\ ParseError(todo[1]) = "none"
    /\ IsBlank(Parsed(Format(todo[1]), todo[1].body).text)
    /\ Answered("EmptyDocument", vectors)

Chunking(d) ==
    /\ document' = d
    /\ sections' = SectionStarts(d)
    /\ chunks' = <<>>
    /\ start' = 0
    /\ vectors' = <<>>
    /\ pc' = "sections"
    /\ UNCHANGED <<config, todo, report>>

Parses ==
    /\ AddsFile
    /\ ParseError(todo[1]) = "none"
    /\ LET d == Parsed(Format(todo[1]), todo[1].body)
       IN  ~IsBlank(d.text) /\ Chunking(d)

Plan ==
    /\ Call({"plan"})
    /\ IF todo[1].ext \notin PageKinds THEN Answered("UnsupportedFormat", vectors)
       ELSE LET d == parse_content(todo[1].ext, todo[1].body)
            IN  IF IsBlank(d.text) THEN Answered("EmptyDocument", vectors) ELSE Chunking(d)

AddText ==
    /\ Call({"add_text"})
    /\ IF IsBlank(todo[1].body) THEN Answered("added", vectors)
       ELSE Chunking(Plain(todo[1].body))

(***************************************************************************)
(* Chunking: chunk_document goes through the sections, Chunker::chunk      *)
(* through the windows of one.                                             *)
(***************************************************************************)
Chunk(from, to) == [from |-> from, to |-> to, section |-> section_at(document, from)]

SectionEnd == IF Len(sections) > 1 THEN sections[2] ELSE Len(document.text)
Section == Slice(document.text, sections[1], SectionEnd)
Spans == word_spans(Section)

TakesSection == pc = "sections" /\ sections # <<>>
InText == sections[1] <= SectionEnd /\ SectionEnd <= Len(document.text)

\* &document.text[start..end] with a range that is not in the text.
Panics ==
    /\ TakesSection
    /\ ~InText
    /\ pc' = "panicked"
    /\ UNCHANGED <<config, todo, document, sections, start, chunks, vectors, report>>

\* No more words than a window: the section is one chunk, with all its
\* whitespace, or none if it has no words.
WholeSection ==
    /\ TakesSection
    /\ InText
    /\ Len(Spans) <= config.window_size
    /\ chunks' = IF Spans = <<>> THEN chunks
                 ELSE Append(chunks, Chunk(sections[1], SectionEnd))
    /\ sections' = Tail(sections)
    /\ UNCHANGED <<config, todo, pc, document, start, vectors, report>>

SplitSection ==
    /\ TakesSection
    /\ InText
    /\ Len(Spans) > config.window_size
    /\ start' = 0
    /\ pc' = "window"
    /\ UNCHANGED <<config, todo, document, sections, chunks, vectors, report>>

\* The word after the last of the chunk that starts at word `start`.
WindowEnd ==
    LET words  == WordsOf(Section)
        window == SubSeq(words, start + 1, Min({start + config.window_size, Len(words)}))
    IN  start + find_sentence_boundary(window, config.min_chunk_size)

\* Mutant: nothing makes a window move on when the overlap is too long.
NextStartStalls(last) == Max({0, last - config.overlap})

NextStart(last) ==
    LET next == Max({0, last - config.overlap})
    IN  IF next > start THEN next ELSE start + 1

Window ==
    /\ pc = "window"
    /\ LET last == WindowEnd
       IN  /\ chunks' = Append(chunks, Chunk(sections[1] + Spans[start + 1][1],
                                             sections[1] + Spans[last][2]))
           /\ IF last >= Len(Spans)
                THEN pc' = "sections" /\ sections' = Tail(sections) /\ start' = 0
                ELSE start' = NextStart(last) /\ UNCHANGED <<pc, sections>>
    /\ UNCHANGED <<config, todo, document, vectors, report>>

Semantic ==
    /\ Call({"semantic"})
    /\ document' = Plain(todo[1].body)
    /\ LET ranges == SemanticChunks(todo[1].body, config.min_chunk_size)
       IN  chunks' = [k \in DOMAIN ranges |->
                         [from |-> ranges[k][1], to |-> ranges[k][2], section |-> NoSection]]
    /\ pc' = "sections"
    /\ sections' = <<>>
    /\ vectors' = <<>>
    /\ UNCHANGED <<config, todo, start, report>>

ChunkText(k) == Slice(document.text, chunks[k].from, chunks[k].to)

\* The chunks go to `ingest`, which has them embedded before it writes.  The model
\* or the store may fail, and ingest_files goes to its next file.
Ingest ==
    /\ pc = "sections"
    /\ sections = <<>>
    /\ todo[1].call \notin {"semantic", "plan"}
    /\ \/ Answered("added", embed_batch(config.model, [k \in DOMAIN chunks |-> ChunkText(k)]))
       \/ Answered("Ingest", <<>>)

\* A page and the library's user get their chunks.
HandOver ==
    /\ pc = "sections"
    /\ sections = <<>>
    /\ todo[1].call \in {"semantic", "plan"}
    /\ Answered("added", <<>>)

\* The calls are over, or the program is.
Ends == pc \in {"refused", "panicked"} \/ (pc = "call" /\ todo = <<>>)
Ended == Ends /\ UNCHANGED vars

Next ==
    \/ Open \/ Fails \/ HasNoText \/ Parses \/ Plan \/ AddText \/ Semantic
    \/ Panics \/ WholeSection \/ SplitSection \/ Window \/ Ingest
    \/ HandOver \/ Ended

Spec == Init /\ [][Next]_vars

(***************************************************************************)
(* Properties.                                                             *)
(***************************************************************************)
Chunked == pc = "sections" /\ sections = <<>>

\* Nothing of a text is lost: every character that is not whitespace is in a
\* chunk, whatever the window, the overlap and the sentences are
\* (Chunker::chunk, chunk_document, SemanticChunker::chunk).
ChunksCoverTheText ==
    Chunked => \A i \in DOMAIN document.text : IsWhite(document.text[i]) \/
        \E k \in DOMAIN chunks : chunks[k].from < i /\ i <= chunks[k].to

\* A chunk has text of one section only, not of two pages nor of prose and
\* code, and its section is the path of headings, or the page, that its text
\* is under (chunk_document, section_at, and the offsets that
\* markdown_document and document_from_pages give them).
ChunksKeepToTheirSection ==
    Chunked => \A k \in DOMAIN chunks :
        LET letters == {document.text[i] : i \in chunks[k].from + 1..chunks[k].to}
            places  == {todo[1].origin[c] : c \in letters \cap DOMAIN todo[1].origin}
        IN  \A p, q \in places : p = q /\ p.section = chunks[k].section


\* parser.rs:230: "Without a header row, cells are joined with ` | `."  The
\* program takes the first row for the names, whatever it has (CsvParser).
CellsWithoutNamesAreJoined ==
    Chunked /\ todo[1].caveat = "no names" => WordsOf(document.text) = todo[1].words

\* A window begins after the one before it, also when that ended early at a
\* sentence and the overlap is longer, and no later than that one ended, so
\* that chunking comes to an end and leaves no word out (Chunker::chunk).
WindowsMoveOn ==
    [][pc = "window" /\ pc' = "window" => start < start' /\ start' <= WindowEnd]_vars

\* The letters of a text, of words as the vocabulary knows them, and of tokens.
LetterOf(c) == IF IsWhite(c) \/ is_combining_mark(c) THEN <<>> ELSE <<Lowercase(c)>>
LettersOf(text) == Flat([i \in DOMAIN text |-> LetterOf(text[i])])
Readable(words) ==
    Flat([i \in DOMAIN words |->
            IF wordpiece(words[i]) = <<unk_id>> THEN <<"[UNK]">> ELSE words[i]])
SpelledToken(id) ==
    LET token == Vocabulary[id + 1] IN IF token[1] = "##" THEN Tail(token) ELSE token
Spelled(ids) == Flat([i \in DOMAIN ids |-> SpelledToken(ids[i])])

ReadsItsChunk(k) ==
    LET words  == basic_tokenize(ChunkText(k))
        states == vectors[k].unit
        tokens == states[1].of
        body   == Tail(Front(tokens))
        places == IF config.model = "tokens" THEN 0..Len(tokens) - 1 ELSE {"text"}
    IN  /\ Flat(words) = LettersOf(ChunkText(k))
        /\ {states[i] : i \in DOMAIN states} = {[of |-> tokens, at |-> p] : p \in places}
        /\ IsPrefix(Spelled(body), Readable(words))
        /\ Len(body) < MAX_SEQ_LEN - 2 => Spelled(body) = Readable(words)

\* What a vector is made from is the words of its chunk, in order, in lower case, up to
\* the limit of the model, and nothing of the other texts of its batch or of the padding
\* (basic_tokenize, wordpiece, encode, pad_batch, pool_output, embed_batch).
VectorsReadTheirChunk ==
    vectors # <<>> =>
        DOMAIN vectors = DOMAIN chunks /\ \A k \in DOMAIN chunks : ReadsItsChunk(k)

OfType(score, type) ==
    LET part == At(score, {i \in DOMAIN score : score[i][2] = type})
    IN  [i \in DOMAIN part |-> part[i][1]]

\* `first` and `second` are [CLS] query [SEP] and passage [SEP], as far as they are read.
ReadAlone(first, second, query, passage) ==
    /\ Head(first) = cls_id /\ Last(first) = sep_id /\ Last(second) = sep_id
    /\ IsPrefix(Tail(Front(first)), query) /\ IsPrefix(Front(second), passage)
    /\ Len(first) + Len(second) = Min({MAX_SEQ_LEN, Len(query) + Len(passage) + 3})
    /\ Len(first) < Len(query) + 2 => Len(first) >= Len(second)
    /\ Len(second) < Len(passage) + 1 => Len(second) + 1 >= Len(first)

ScoresReadAlone(texts, scores) ==
    \A k \in DOMAIN texts :
        ReadAlone(OfType(scores[k], 0), OfType(scores[k], 1), word_ids(texts[1]), word_ids(texts[k]))

\* A passage is scored by its own tokens and the query's: as much of both as fits, none
\* of the one cut below the other, each with its type, and nothing of the other passages
\* (encode_pair, score_batch).
PassagesAreReadAlone ==
    vectors # <<>> =>
        LET texts == [k \in DOMAIN chunks |-> ChunkText(k)]
        IN  ScoresReadAlone(texts, score_batch(texts[1], texts))

\* chunker.rs:280: "The offsets are moved back into the whole document, so
\* `text[start..end]` still gives each chunk."
EveryDocumentIsChunked == pc # "panicked"
=============================================================================
