------------------------------ MODULE Chunker --------------------------------
(***************************************************************************)
(* The pure functions of tpt-rag-core/src/chunker.rs.  A text is a         *)
(* sequence of characters, each a string of length one, so an offset is an *)
(* index from 0; a character of several bytes is one character here.       *)
(* Chunks and words are ranges <<from, to>> of a text, `to` excluded.      *)
(***************************************************************************)
EXTENDS Lists, SequencesExt

Slice(text, from, to) == SubSeq(text, from + 1, to)

IsWhite(c) == c \in {" ", "\t", "\r", "\n"}
IsBlank(text) == \A i \in DOMAIN text : IsWhite(text[i])

\* The range that is left of from..to without the whitespace at its start,
\* then without that at its end.
TrimRange(text, from, to) ==
    LET kept == {i \in from + 1..to : ~IsWhite(text[i])}
    IN  IF kept = {} THEN <<to, to>> ELSE <<Min(kept) - 1, Max(kept)>>

Trim(text) ==
    LET range == TrimRange(text, 0, Len(text)) IN Slice(text, range[1], range[2])

\* The ranges of the words, in order.
WordStarts(text) ==
    {i \in DOMAIN text : ~IsWhite(text[i]) /\ (i = 1 \/ IsWhite(text[i - 1]))}
WordEnd(text, start) ==
    Min({i \in start..Len(text) : i = Len(text) \/ IsWhite(text[i + 1])})

word_spans(text) ==
    LET starts == Sorted(WordStarts(text))
    IN  [k \in DOMAIN starts |-> <<starts[k] - 1, WordEnd(text, starts[k])>>]

WordsOf(text) ==
    LET spans == word_spans(text)
    IN  [k \in DOMAIN spans |-> Slice(text, spans[k][1], spans[k][2])]

(***************************************************************************)
(* Where sentences end.                                                    *)
(***************************************************************************)

\* Two words stand for the list of known abbreviations, and two marks for
\* those that may close a sentence.
ABBREVIATIONS == {<<"d", "r">>, <<"n", "o">>}
Closers == {")", "\""}
Letters == {"a", "b", "d", "n", "o", "r"}

is_abbreviation(core) ==
    \/ \E i \in DOMAIN core : core[i] = "."
    \/ core \in ABBREVIATIONS
    \/ Len(core) = 1 /\ core[1] \in Letters

ends_sentence(token) ==
    LET last == Max({0} \cup {i \in DOMAIN token : token[i] \notin Closers})
    IN  /\ last > 0
        /\ \/ token[last] \in {"!", "?"}
           \/ /\ token[last] = "."
              /\ last > 1
              /\ ~is_abbreviation(Slice(token, 0, last - 1))

\* How many of the words to take: to the last end of a sentence that is at
\* least min_size words in, or all.
find_sentence_boundary(words, min_size) ==
    LET ends == {i \in DOMAIN words : i > min_size /\ ends_sentence(words[i])}
    IN  IF ends = {} THEN Len(words) ELSE Max(ends)

(***************************************************************************)
(* SemanticChunker: sentences, merged until a chunk has min_size words.    *)
(***************************************************************************)

WordUpTo(text, i) ==
    LET space == Max({0} \cup {j \in 1..i : IsWhite(text[j])})
    IN  Slice(text, space, i)

EndsHere(text, i) ==
    /\ text[i] \in {".", "!", "?"}
    /\ i < Len(text)
    /\ IsWhite(text[i + 1])
    /\ ends_sentence(WordUpTo(text, i))

SentenceRanges(text) ==
    LET cuts   == Sorted({i \in DOMAIN text : EndsHere(text, i)})
        bounds == <<0>> \o cuts \o <<Len(text)>>
    IN  [k \in 1..Len(cuts) + 1 |-> TrimRange(text, bounds[k], bounds[k + 1])]

split_sentences(text) ==
    LET ranges == SentenceRanges(text)
    IN  At(ranges, {k \in DOMAIN ranges : ranges[k][1] < ranges[k][2]})

word_count(text, range) == Len(word_spans(Slice(text, range[1], range[2])))

\* The chunks so far, and the next sentence.
Merged(text, min_size, chunks, s) ==
    IF word_count(text, Last(chunks)) + word_count(text, s) < min_size
      THEN Append(Front(chunks), <<Last(chunks)[1], s[2]>>)
      ELSE Append(chunks, s)

\* merge_all(...)[n]: the chunks when n sentences have followed the first.
merge_all(text, min_size, sentences) ==
    LET f[n \in 0..Len(sentences) - 1] ==
            IF n = 0 THEN <<sentences[1]>>
            ELSE Merged(text, min_size, f[n - 1], sentences[n + 1])
    IN  f

SemanticChunks(text, min_size) ==
    LET sentences == split_sentences(text)
    IN  IF sentences = <<>> THEN <<>>
        ELSE merge_all(text, min_size, sentences)[Len(sentences) - 1]
=============================================================================
