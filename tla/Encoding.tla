------------------------------- MODULE Encoding -------------------------------
(***************************************************************************)
(* What a model reads of a text: the tokens of tokenizer.rs, and the       *)
(* batches of embedding.rs and reranker.rs, sorted, padded and flattened   *)
(* on their way to the ONNX runtime and taken apart when they return.      *)
(*                                                                         *)
(* A character is a string, as in Chunker; texts are in decomposed form,   *)
(* with one accent and one capital.  A token is a sequence of characters,  *)
(* the special ones of one.  A model's numbers are not computed: the       *)
(* state it has for a place is the record of the tokens it attended to and *)
(* the place, and stands for `hidden` numbers.                             *)
(***************************************************************************)
EXTENDS Chunker

CONSTANTS
    Vocabulary,        \* the lines of vocab.txt
    MAX_SEQ_LEN,       \* 512
    MAX_WORD_CHARS,    \* 100
    BATCH_SIZE         \* DEFAULT_BATCH_SIZE, 32

\* A line is a token, of one character at least.  An encoded text has room for two special
\* tokens, a pair for three, and a batch for a text.
ASSUME EncodingAssumption ==
    /\ Vocabulary \in Seq(Seq(STRING) \ {<<>>})
    /\ MAX_SEQ_LEN \in Nat /\ MAX_SEQ_LEN >= 3
    /\ BATCH_SIZE \in Nat \ {0}

Upto(s, n) == SubSeq(s, 1, Min({n, Len(s)}))
AtLeast0(n) == Max({0, n})

(***************************************************************************)
(* Tokens.  An id is the number of a line, from 0; of two equal lines the  *)
(* last counts.                                                            *)
(***************************************************************************)
Lines(token) == {i \in DOMAIN Vocabulary : Vocabulary[i] = token}
Known(token) == Lines(token) # {}
Id(token) == Max(Lines(token)) - 1

from_vocab == \A token \in {<<"[UNK]">>, <<"[CLS]">>, <<"[SEP]">>} : Known(token)
unk_id == Id(<<"[UNK]">>)
cls_id == Id(<<"[CLS]">>)
sep_id == Id(<<"[SEP]">>)
pad_id == IF Known(<<"[PAD]">>) THEN Id(<<"[PAD]">>) ELSE 0

is_combining_mark(c) == c = "~"
is_punctuation(c) == c \in {".", "!", "?", ")", "\"", ",", ":", "[", "]"}
Lowercase(c) == IF c = "B" THEN "b" ELSE c

flush(s) == IF s.current = <<>> THEN s
            ELSE [words |-> Append(s.words, s.current), current |-> <<>>]

ReadChar(s, c) ==
    IF is_combining_mark(c) THEN s
    ELSE IF IsWhite(c) THEN flush(s)
    ELSE IF is_punctuation(c) THEN [flush(s) EXCEPT !.words = Append(@, <<c>>)]
    ELSE [s EXCEPT !.current = Append(@, Lowercase(c))]

\* read(text)[n]: the words, and the one that is being read, after n characters.
read(text) ==
    LET f[n \in 0..Len(text)] == IF n = 0 THEN [words |-> <<>>, current |-> <<>>]
                                 ELSE ReadChar(f[n - 1], text[n])
    IN  f
basic_tokenize(text) == flush(read(text)[Len(text)]).words

\* The longest piece of a word from a place; -1 if there is none.
Piece(word, from, to) == (IF from > 0 THEN <<"##">> ELSE <<>>) \o Slice(word, from, to)
PieceEnds(word, from) == {to \in from + 1..Len(word) : Known(Piece(word, from, to))}
TakePiece(word, s) ==
    IF s.start \notin 0..Len(word) - 1 THEN s
    ELSE IF PieceEnds(word, s.start) = {} THEN [s EXCEPT !.start = -1]
    ELSE LET end == Max(PieceEnds(word, s.start))
         IN  [start |-> end, pieces |-> Append(s.pieces, Id(Piece(word, s.start, end)))]

\* split(word)[n]: where the next piece starts, and the pieces before it, after n turns.
split(word) ==
    LET f[n \in 0..Len(word)] == IF n = 0 THEN [start |-> 0, pieces |-> <<>>]
                                 ELSE TakePiece(word, f[n - 1])
    IN  f
wordpiece(word) ==
    LET s == split(word)[Len(word)]
    IN  IF Len(word) > MAX_WORD_CHARS \/ s.start = -1 THEN <<unk_id>> ELSE s.pieces

word_ids(text) ==
    LET words == basic_tokenize(text) IN Flat([i \in DOMAIN words |-> wordpiece(words[i])])

encode(text, max_len) == <<cls_id>> \o Upto(word_ids(text), AtLeast0(max_len - 2)) \o <<sep_id>>

\* Mutant: it is always the query that is cut.
CutFirst(a, b, budget) == [a |-> Upto(a, AtLeast0(budget - Len(b))), b |-> Upto(b, budget)]

\* A token at a time from the longer one.
Pop(s, budget) ==
    IF Len(s.a) + Len(s.b) <= budget THEN s
    ELSE IF Len(s.a) >= Len(s.b) THEN [s EXCEPT !.a = Front(@)]
    ELSE [s EXCEPT !.b = Front(@)]

\* pops(a, b, budget)[n]: what is left of them after n turns.
pops(a, b, budget) ==
    LET f[n \in 0..Len(a) + Len(b)] == IF n = 0 THEN [a |-> a, b |-> b] ELSE Pop(f[n - 1], budget)
    IN  f
Cut(a, b, budget) == pops(a, b, budget)[Len(a) + Len(b)]

encode_pair(first, second, max_len) ==
    LET s == Cut(word_ids(first), word_ids(second), AtLeast0(max_len - 3))
    IN  [ids |-> <<cls_id>> \o s.a \o <<sep_id>> \o s.b \o <<sep_id>>,
         types |-> [i \in 1..Len(s.a) + 2 |-> 0] \o [i \in 1..Len(s.b) + 1 |-> 1]]

(***************************************************************************)
(* Batches: rows of one length, one after the other.                       *)
(***************************************************************************)
Longest(seqs) == Max({0} \cup {Len(seqs[i]) : i \in DOMAIN seqs})
Padded(seqs, filler) ==
    LET n == Longest(seqs)
    IN  Flat([i \in DOMAIN seqs |-> seqs[i] \o [j \in 1..n - Len(seqs[i]) |-> filler]])
Ones(seqs) == [i \in DOMAIN seqs |-> [j \in DOMAIN seqs[i] |-> 1]]

pad_batch(seqs) ==
    [ids |-> Padded(seqs, pad_id), mask |-> Padded(Ones(seqs), 0), seq_len |-> Longest(seqs)]

\* The runtime: row r (from 0) of a batch attends to the tokens that its mask marks.
Attended(tokens, mask, r, n) ==
    At([i \in 1..n |-> tokens[r * n + i]], {i \in 1..n : mask[r * n + i] = 1})

\* A model has an output for each token, for each text, or neither.
OutputKinds == {"tokens", "texts", "other", "empty"}
Session(kind, ids, mask, rows, n) ==
    LET state(r, place) == [of |-> Attended(ids, mask, r, n), at |-> place]
    IN  CASE kind = "tokens" ->
                [shape |-> <<rows, n, 1>>,
                 data |-> Flat([r \in 1..rows |-> [i \in 1..n |-> state(r - 1, i - 1)]])]
          [] kind = "texts" ->
                [shape |-> <<rows, 1>>, data |-> [i \in 1..rows |-> state(i - 1, "text")]]
          [] kind = "other" -> [shape |-> <<rows>>, data |-> <<>>]
          [] kind = "empty" -> [shape |-> <<rows, 0>>, data |-> <<>>]

\* A mean is the sequence of what it is taken of; a list of vectors, or an error.
pool_output(output, rows, seq_len, mask) ==
    LET shape == output.shape
        fits  == /\ Len(shape) \in {2, 3}
                 /\ shape[1] = rows
                 /\ Len(shape) = 3 => shape[2] = seq_len
                 /\ Len(output.data) >= rows * Last(shape) * (IF Len(shape) = 3 THEN seq_len ELSE 1)
        pooled(r) == IF Len(shape) = 3 THEN Attended(output.data, mask, r, seq_len)
                     ELSE Slice(output.data, r * shape[2], (r + 1) * shape[2])
    IN  IF fits THEN [vectors |-> [r \in 1..rows |-> pooled(r - 1)]]
                ELSE [error |-> "Onnx"]

normalize(vector) == [unit |-> vector]

Failed(answer) == "error" \in DOMAIN answer

run_batch(kind, texts) ==
    LET batch  == pad_batch(Flat([i \in DOMAIN texts |-> <<encode(texts[i], MAX_SEQ_LEN)>>]))
        rows   == Len(texts)
        output == Session(kind, batch.ids, batch.mask, rows, batch.seq_len)
        pooled == pool_output(output, rows, batch.seq_len, batch.mask)
    IN  IF texts = <<>> THEN [vectors |-> <<>>]
        ELSE IF Failed(pooled) THEN pooled
        ELSE [vectors |-> [r \in 1..rows |-> normalize(pooled.vectors[r])]]

Groups(order) ==
    [g \in 1..(Len(order) + BATCH_SIZE - 1) \div BATCH_SIZE |->
        SubSeq(order, (g - 1) * BATCH_SIZE + 1, Min({g * BATCH_SIZE, Len(order)}))]

\* The sort is stable.
ByLength(texts) ==
    InOrder(DOMAIN texts,
            {p \in (DOMAIN texts) \X (DOMAIN texts) :
                \/ Len(texts[p[1]]) < Len(texts[p[2]])
                \/ Len(texts[p[1]]) = Len(texts[p[2]]) /\ p[1] < p[2]})

\* Mutant: the vectors stay in the order of the batches.
embed_batch_sorted(kind, texts) ==
    LET run(group) == run_batch(kind, [i \in DOMAIN group |-> texts[group[i]]]).vectors
        groups == Groups(ByLength(texts))
    IN  Flat([g \in DOMAIN groups |-> run(groups[g])])

\* Each vector goes to the place of its text.
Stored(kind, texts, results, group) ==
    LET vectors == run_batch(kind, [i \in DOMAIN group |-> texts[group[i]]]).vectors
    IN  [i \in DOMAIN texts |-> IF \E at \in DOMAIN group : group[at] = i
                                  THEN vectors[CHOOSE at \in DOMAIN group : group[at] = i]
                                  ELSE results[i]]

\* stored(kind, texts)[n]: the vectors of the first n groups.
stored(kind, texts) ==
    LET groups == Groups(ByLength(texts))
        f[n \in 0..Len(groups)] == IF n = 0 THEN [i \in DOMAIN texts |-> <<>>]
                                   ELSE Stored(kind, texts, f[n - 1], groups[n])
    IN  f
embed_batch(kind, texts) == stored(kind, texts)[Len(Groups(ByLength(texts)))]

\* EmbeddingModel::new: the model must give a vector of some length for a text.
Probe == <<"a">>
from_loaded(kind) ==
    LET probe == run_batch(kind, <<Probe>>)
    IN  from_vocab /\ ~Failed(probe) /\ Head(probe.vectors).unit # <<>>

(***************************************************************************)
(* Pairs.  A logit stands for the tokens and types the model attended to.  *)
(***************************************************************************)
score_batch(query, passages) ==
    LET pairs == Flat([i \in DOMAIN passages |-> <<encode_pair(query, passages[i], MAX_SEQ_LEN)>>])
        batch == pad_batch([i \in DOMAIN pairs |-> pairs[i].ids])
        types == Padded([i \in DOMAIN pairs |-> pairs[i].types], 0)
        typed == [i \in DOMAIN batch.ids |-> <<batch.ids[i], types[i]>>]
    IN  [r \in DOMAIN passages |-> Attended(typed, batch.mask, r - 1, batch.seq_len)]
=============================================================================
