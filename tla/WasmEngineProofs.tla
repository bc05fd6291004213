-------------------------- MODULE WasmEngineProofs --------------------------
(***************************************************************************)
(* EInv of WasmEngine is inductive, and the properties of the engine       *)
(* follow from it, for every choice of the constants.                      *)
(***************************************************************************)
EXTENDS WasmEngine, SequenceTheorems, FiniteSetTheorems, TLAPS

\* A function on 1..n is a list of n elements.
LEMMA ListOf ==
    ASSUME NEW S, NEW n \in Nat, NEW f, f \in [1..n -> S]
    PROVE  f \in Seq(S) /\ Len(f) = n /\ DOMAIN f = 1..n
OBVIOUS

\* The chunks planned for a content are a list of texts.
LEMMA PlannedType ==
    ASSUME NEW c \in Contents
    PROVE  /\ ChunkCount[c] \in Nat
           /\ Planned(c) \in Seq(Texts)
           /\ Len(Planned(c)) = ChunkCount[c]
           /\ DOMAIN Planned(c) = 1..ChunkCount[c]
<1>1. ChunkCount[c] \in Nat
    BY CountAssumption
<1>2. \A i \in 1..ChunkCount[c] : <<c, i>> \in Texts
    BY DEF Texts
<1>3. Planned(c) \in Seq(Texts)
    BY <1>1, <1>2, IsASeq DEF Planned
<1> QED BY <1>1, <1>3 DEF Planned

\* What is posted for a text is a list of counts.
LEMMA PostedType ==
    ASSUME NEW t \in Terms, NEW x \in Texts
    PROVE  Posted(t, x) \in Seq(Nat)
BY TermAssumption DEF Posted

\* Marking the chunks of a source keeps their number and their texts.
LEMMA MarkedType ==
    ASSUME chunks \in Seq(Chunk), NEW s \in Sources
    PROVE  /\ Marked(s) \in Seq(Chunk)
           /\ Len(Marked(s)) = Len(chunks)
           /\ \A id \in DOMAIN chunks :
                /\ Marked(s)[id].text = chunks[id].text
                /\ Marked(s)[id].live <=> chunks[id].live /\ id \notin Held(s)
<1>1. Len(chunks) \in Nat /\ DOMAIN chunks = 1..Len(chunks)
    OBVIOUS
<1>2. \A id \in 1..Len(chunks) : chunks[id] \in Chunk
    OBVIOUS
<1>3. \A id \in 1..Len(chunks) : Marked(s)[id] \in Chunk
    BY <1>1, <1>2 DEF Marked, Chunk
<1>4. Marked(s) = [id \in 1..Len(chunks) |-> Marked(s)[id]]
    BY <1>1 DEF Marked
<1>5. Marked(s) \in Seq(Chunk)
    BY <1>1, <1>3, <1>4, IsASeq
<1>6. Len(Marked(s)) = Len(chunks)
    BY <1>1, <1>4
<1>7. \A id \in DOMAIN chunks :
        /\ Marked(s)[id].text = chunks[id].text
        /\ Marked(s)[id].live <=> chunks[id].live /\ id \notin Held(s)
    BY <1>1, <1>2 DEF Marked, Held, IsLive, Chunk
<1> QED BY <1>5, <1>6, <1>7

\* A new engine has empty lists.
LEMMA EmptyAgrees ==
    ASSUME chunks' = <<>>, vectors' = <<>>, deleted' = {}, lengths' = <<>>,
           postings' = [t \in Terms |-> <<>>]
    PROVE  /\ chunks' \in Seq(Chunk) /\ vectors' \in Seq(Texts)
           /\ deleted' \subseteq DOMAIN vectors' /\ lengths' \in Seq(Nat)
           /\ DOMAIN postings' = Terms
           /\ \A t \in Terms : postings'[t] \in Seq(Seq(Nat))
           /\ Agree(chunks', vectors', deleted')
           /\ KeywordsAgree'
BY DEF Agree, KeywordsAgree

\* A page begins with empty lists and no bytes.
LEMMA InitKeeps == WasmInit => EInv
<1> SUFFICES ASSUME WasmInit PROVE EInv
    OBVIOUS
<1>1. WasmTypeOK
    BY DEF WasmInit, Empty, WasmTypeOK
<1>2. VectorsAgree /\ KeywordsAgree
    BY DEF WasmInit, Empty, VectorsAgree, KeywordsAgree, Agree
<1> QED BY <1>1, <1>2 DEF EInv, WasmInit

\* A new engine has empty lists, and the bytes of the page stay.
LEMMA NewKeeps == ASSUME EInv, New PROVE EInv'
<1>1. WasmTypeOK' /\ VectorsAgree' /\ KeywordsAgree'
    BY EmptyAgrees DEF EInv, New, WasmTypeOK, VectorsAgree
<1> QED BY <1>1 DEF EInv, New, Right, Live, Posted

\* Each list grows by one element for each chunk, in the same order.
LEMMA AddKeeps ==
    ASSUME EInv, NEW s \in Sources, NEW c \in Contents, Add(s, c)
    PROVE  EInv'
<1> DEFINE n == Len(chunks)
           k == ChunkCount[c]
           new == [i \in 1..k |-> [text |-> Planned(c)[i], source |-> s, live |-> TRUE]]
           measured == [i \in 1..k |-> LengthOf[Planned(c)[i]]]
           posted(t) == [i \in 1..k |-> Posted(t, Planned(c)[i])]
<1>1. /\ n \in Nat /\ k \in Nat
      /\ chunks \in Seq(Chunk) /\ vectors \in Seq(Texts) /\ lengths \in Seq(Nat)
      /\ Len(chunks) = n /\ Len(vectors) = n /\ Len(lengths) = n
      /\ \A t \in Terms : postings[t] \in Seq(Seq(Nat)) /\ Len(postings[t]) = n
    BY PlannedType DEF EInv, WasmTypeOK, VectorsAgree, KeywordsAgree, Agree
<1>2. /\ Planned(c) \in Seq(Texts) /\ Len(Planned(c)) = k
      /\ \A i \in 1..k : Planned(c)[i] \in Texts
    BY PlannedType
<1>3. new \in Seq(Chunk) /\ Len(new) = k
    <2>1. \A i \in 1..k : [text |-> Planned(c)[i], source |-> s, live |-> TRUE] \in Chunk
        BY <1>2 DEF Chunk
    <2>2. new \in [1..k -> Chunk]
        BY <2>1
    <2> HIDE DEF new, k
    <2> QED BY <1>1, <2>2, ListOf
<1>4. measured \in Seq(Nat) /\ Len(measured) = k
    <2>1. measured \in [1..k -> Nat]
        BY <1>2, TermAssumption
    <2> HIDE DEF measured, k
    <2> QED BY <1>1, <2>1, ListOf
<1>5. \A t \in Terms : posted(t) \in Seq(Seq(Nat)) /\ Len(posted(t)) = k
    <2> SUFFICES ASSUME NEW t \in Terms
                 PROVE  posted(t) \in Seq(Seq(Nat)) /\ Len(posted(t)) = k
        OBVIOUS
    <2>1. \A i \in 1..k : Posted(t, Planned(c)[i]) \in Seq(Nat)
        BY <1>2, PostedType
    <2>2. posted(t) \in [1..k -> Seq(Nat)]
        BY <2>1
    <2> HIDE DEF posted, k
    <2> QED BY <1>1, <2>2, ListOf
<1>6. /\ Marked(s) \in Seq(Chunk) /\ Len(Marked(s)) = n
      /\ \A id \in 1..n :
            /\ Marked(s)[id].text = chunks[id].text
            /\ Marked(s)[id].live <=> chunks[id].live /\ id \notin Held(s)
    BY <1>1, MarkedType
<1>7. /\ chunks' = Marked(s) \o new
      /\ vectors' = vectors \o Planned(c)
      /\ lengths' = lengths \o measured
      /\ postings' = [t \in Terms |-> postings[t] \o posted(t)]
      /\ deleted' = deleted \cup (Held(s) \cap DOMAIN vectors)
      /\ UNCHANGED <<saved, promised>>
    BY DEF Add, Hidden
<1> HIDE DEF n, k, new, measured, posted
<1>8. /\ chunks' \in Seq(Chunk) /\ Len(chunks') = n + k
      /\ \A id \in 1..(n + k) :
            chunks'[id] = IF id <= n THEN Marked(s)[id] ELSE new[id - n]
    <2>1. n \in Nat /\ k \in Nat /\ Marked(s) \in Seq(Chunk) /\ Len(Marked(s)) = n
        BY <1>1, <1>6
    <2>2. Marked(s) \o new \in Seq(Chunk) /\ Len(Marked(s) \o new) = n + k
        BY <2>1, <1>3, ConcatProperties
    <2>3. \A id \in 1..(n + k) :
            (Marked(s) \o new)[id] = IF id <= n THEN Marked(s)[id] ELSE new[id - n]
        BY <2>1, <1>3, ConcatProperties
    <2>4. chunks' = Marked(s) \o new
        BY <1>7
    <2> QED BY <2>2, <2>3, <2>4, Zenon
<1>9. /\ vectors' \in Seq(Texts) /\ Len(vectors') = n + k
      /\ \A id \in 1..(n + k) :
            vectors'[id] = IF id <= n THEN vectors[id] ELSE Planned(c)[id - n]
    <2>1. n \in Nat /\ k \in Nat /\ vectors \in Seq(Texts) /\ Len(vectors) = n
        BY <1>1
    <2>2. vectors \o Planned(c) \in Seq(Texts) /\ Len(vectors \o Planned(c)) = n + k
        BY <2>1, <1>2, ConcatProperties
    <2>3. \A id \in 1..(n + k) :
            (vectors \o Planned(c))[id] = IF id <= n THEN vectors[id] ELSE Planned(c)[id - n]
        BY <2>1, <1>2, ConcatProperties
    <2>4. vectors' = vectors \o Planned(c)
        BY <1>7
    <2> QED BY <2>2, <2>3, <2>4, Zenon
<1>10. /\ lengths' \in Seq(Nat) /\ Len(lengths') = n + k
      /\ \A id \in 1..(n + k) :
            lengths'[id] = IF id <= n THEN lengths[id] ELSE measured[id - n]
    <2>1. n \in Nat /\ k \in Nat /\ lengths \in Seq(Nat) /\ Len(lengths) = n
        BY <1>1
    <2>2. lengths \o measured \in Seq(Nat) /\ Len(lengths \o measured) = n + k
        BY <2>1, <1>4, ConcatProperties
    <2>3. \A id \in 1..(n + k) :
            (lengths \o measured)[id] = IF id <= n THEN lengths[id] ELSE measured[id - n]
        BY <2>1, <1>4, ConcatProperties
    <2>4. lengths' = lengths \o measured
        BY <1>7
    <2> QED BY <2>2, <2>3, <2>4, Zenon
<1>11. ASSUME NEW t \in Terms
       PROVE  /\ postings'[t] \in Seq(Seq(Nat)) /\ Len(postings'[t]) = n + k
              /\ \A id \in 1..(n + k) :
                    postings'[t][id] = IF id <= n THEN postings[t][id] ELSE posted(t)[id - n]
    <2>0. posted(t) \in Seq(Seq(Nat)) /\ Len(posted(t)) = k
        BY <1>5
    <2>1. n \in Nat /\ k \in Nat /\ postings[t] \in Seq(Seq(Nat)) /\ Len(postings[t]) = n
        BY <1>1
    <2>2. postings[t] \o posted(t) \in Seq(Seq(Nat)) /\ Len(postings[t] \o posted(t)) = n + k
        BY <2>1, <2>0, ConcatProperties
    <2>3. \A id \in 1..(n + k) :
            (postings[t] \o posted(t))[id] = IF id <= n THEN postings[t][id] ELSE posted(t)[id - n]
        BY <2>1, <2>0, ConcatProperties
    <2>4. postings'[t] = postings[t] \o posted(t)
        BY <1>7
    <2> QED BY <2>2, <2>3, <2>4, Zenon
<1>12. ASSUME NEW id \in (n + 1)..(n + k)
       PROVE  /\ id \in 1..(n + k) /\ ~(id <= n) /\ id - n \in 1..k
              /\ new[id - n] =
                    [text |-> Planned(c)[id - n], source |-> s, live |-> TRUE]
              /\ measured[id - n] = LengthOf[Planned(c)[id - n]]
              /\ \A t \in Terms : posted(t)[id - n] = Posted(t, Planned(c)[id - n])
    <2>1. id \in 1..(n + k) /\ ~(id <= n) /\ id - n \in 1..k
        BY <1>1
    <2> QED BY <2>1 DEF new, measured, posted
<1>13. WasmTypeOK'
    <2>1. DOMAIN vectors = 1..n /\ DOMAIN vectors' = 1..(n + k)
        BY <1>1, <1>9
    <2>2. deleted' \subseteq 1..(n + k)
        BY <1>1, <1>7, <2>1 DEF EInv, WasmTypeOK
    <2> QED BY <1>7, <1>8, <1>9, <1>10, <1>11, <2>1, <2>2 DEF EInv, WasmTypeOK
<1>14. VectorsAgree'
    <2>1. ASSUME NEW id \in 1..(n + k)
          PROVE  /\ vectors'[id] = chunks'[id].text
                 /\ id \in deleted' <=> ~chunks'[id].live
        <3>1. CASE id <= n
            <4>1. id \in 1..n /\ id \in DOMAIN chunks /\ id \in DOMAIN vectors
                BY <1>1, <3>1
            <4>2. chunks'[id] = Marked(s)[id] /\ vectors'[id] = vectors[id]
                BY <1>8, <1>9, <3>1
            <4>3. /\ chunks'[id].text = chunks[id].text
                  /\ chunks'[id].live <=> chunks[id].live /\ id \notin Held(s)
                BY <1>6, <4>1, <4>2
            <4>4. vectors[id] = chunks[id].text /\ (id \in deleted <=> ~chunks[id].live)
                BY <4>1 DEF EInv, VectorsAgree, Agree
            <4>5. id \in deleted' <=> id \in deleted \/ id \in Held(s)
                BY <1>7, <4>1
            <4> QED BY <4>2, <4>3, <4>4, <4>5
        <3>2. CASE ~(id <= n)
            <4>1. id \in (n + 1)..(n + k) /\ id \notin DOMAIN vectors
                BY <1>1, <3>2
            <4>2. id \notin deleted'
                BY <1>7, <4>1 DEF EInv, WasmTypeOK
            <4>3. chunks'[id] = new[id - n] /\ vectors'[id] = Planned(c)[id - n]
                BY <1>8, <1>9, <3>2
            <4>4. new[id - n] = [text |-> Planned(c)[id - n], source |-> s, live |-> TRUE]
                BY <1>12, <4>1
            <4> QED BY <4>2, <4>3, <4>4
        <3> QED BY <3>1, <3>2
    <2>2. DOMAIN chunks' = 1..(n + k)
        BY <1>1, <1>8
    <2> QED BY <1>7, <1>8, <1>9, <2>1, <2>2 DEF EInv, VectorsAgree, Agree
<1>15. KeywordsAgree'
    <2>1. ASSUME NEW id \in 1..(n + k), chunks'[id].live
          PROVE  /\ lengths'[id] = LengthOf[chunks'[id].text]
                 /\ \A t \in Terms : postings'[t][id] = Posted(t, chunks'[id].text)
        <3>1. CASE id <= n
            <4>1. id \in 1..n /\ id \in DOMAIN chunks
                BY <1>1, <3>1
            <4>2. chunks[id].live /\ chunks'[id].text = chunks[id].text
                BY <1>6, <1>8, <2>1, <3>1, <4>1
            <4> QED BY <1>10, <1>11, <3>1, <4>1, <4>2 DEF EInv, KeywordsAgree, IsLive
        <3>2. CASE ~(id <= n)
            <4>1. id \in (n + 1)..(n + k)
                BY <1>1, <3>2
            <4>2. chunks'[id] = new[id - n] /\ lengths'[id] = measured[id - n]
                BY <1>8, <1>10, <3>2
            <4>3. /\ new[id - n] = [text |-> Planned(c)[id - n], source |-> s, live |-> TRUE]
                  /\ measured[id - n] = LengthOf[Planned(c)[id - n]]
                  /\ \A t \in Terms : posted(t)[id - n] = Posted(t, Planned(c)[id - n])
                BY <1>12, <4>1
            <4>4. \A t \in Terms : postings'[t][id] = posted(t)[id - n]
                BY <1>11, <3>2
            <4>5. chunks'[id].text = Planned(c)[id - n]
                BY <4>2, <4>3
            <4> QED BY <4>2, <4>3, <4>4, <4>5
        <3> QED BY <3>1, <3>2
    <2>2. DOMAIN chunks' = 1..(n + k)
        BY <1>1, <1>8
    <2> QED BY <1>8, <1>10, <1>11, <2>1, <2>2 DEF KeywordsAgree, IsLive
<1> QED BY <1>7, <1>13, <1>14, <1>15 DEF EInv, Right, Live, Posted

\* Removed chunks keep their places in every list.
LEMMA DeleteKeeps ==
    ASSUME EInv, NEW s \in Sources, Delete(s)
    PROVE  EInv'
<1>1. /\ chunks' = Marked(s)
      /\ deleted' = deleted \cup (Held(s) \cap DOMAIN vectors)
      /\ UNCHANGED <<vectors, postings, lengths, saved, promised>>
    BY DEF Delete, Hidden
<1>2. /\ chunks \in Seq(Chunk)
      /\ DOMAIN chunks = DOMAIN vectors
    BY DEF EInv, WasmTypeOK, VectorsAgree, Agree
<1>3. /\ chunks' \in Seq(Chunk) /\ Len(chunks') = Len(chunks)
      /\ DOMAIN chunks' = DOMAIN chunks
      /\ \A id \in DOMAIN chunks :
            /\ chunks'[id].text = chunks[id].text
            /\ chunks'[id].live <=> chunks[id].live /\ id \notin Held(s)
    BY <1>1, <1>2, MarkedType
<1>4. WasmTypeOK'
    BY <1>1, <1>2, <1>3 DEF EInv, WasmTypeOK
<1>5. VectorsAgree'
    BY <1>1, <1>2, <1>3 DEF EInv, VectorsAgree, Agree
<1>6. KeywordsAgree'
    BY <1>1, <1>3 DEF EInv, KeywordsAgree, IsLive
<1> QED BY <1>1, <1>4, <1>5, <1>6 DEF EInv, Right, Live, Posted

\* The answers of an engine whose lists agree are those its chunks ask for.
LEMMA AnswersAreRight ==
    ASSUME EInv
    PROVE  Answers = Right(chunks)
<1>1. {id \in DOMAIN chunks : IsLive(id)} = Live(chunks)
    BY DEF IsLive, Live
<1>2. {<<id, vectors[id]>> : id \in DOMAIN vectors \ deleted} =
      {<<id, chunks[id].text>> : id \in Live(chunks)}
    <2>1. DOMAIN vectors = DOMAIN chunks
        BY DEF EInv, WasmTypeOK, VectorsAgree, Agree
    <2>2. DOMAIN vectors \ deleted = Live(chunks)
        BY <2>1 DEF EInv, VectorsAgree, Agree, Live
    <2>3. \A id \in Live(chunks) : vectors[id] = chunks[id].text
        BY DEF EInv, VectorsAgree, Agree, Live
    <2> QED BY <2>2, <2>3
<1>3. [id \in Live(chunks) |->
         [length |-> lengths[id], counts |-> [t \in Terms |-> postings[t][id]]]] =
      [id \in Live(chunks) |->
         [length |-> LengthOf[chunks[id].text],
          counts |-> [t \in Terms |-> Posted(t, chunks[id].text)]]]
    <2>1. ASSUME NEW id \in Live(chunks)
          PROVE  /\ lengths[id] = LengthOf[chunks[id].text]
                 /\ [t \in Terms |-> postings[t][id]] =
                        [t \in Terms |-> Posted(t, chunks[id].text)]
        BY DEF EInv, KeywordsAgree, IsLive, Live
    <2> QED BY <2>1
<1> QED BY <1>1, <1>2, <1>3 DEF Answers, Right

\* The bytes of an export agree as the lists do, and its answers are theirs.
LEMMA ExportKeeps == ASSUME EInv, Export PROVE EInv'
<1> USE DEF Export, engine
<1>1. /\ saved'.chunks = chunks /\ saved'.vectors = vectors /\ saved'.deleted = deleted
      /\ UNCHANGED <<chunks, vectors, deleted, postings, lengths>>
    OBVIOUS
<1>2. WasmTypeOK'
    BY <1>1 DEF EInv, WasmTypeOK
<1>3. VectorsAgree' /\ KeywordsAgree'
    BY <1>1 DEF EInv, VectorsAgree, KeywordsAgree, IsLive
<1>4. promised' = Right(saved'.chunks)
    BY <1>1, AnswersAreRight
<1> QED BY <1>2, <1>3, <1>4 DEF EInv, Right, Live, Posted

\* The lists that import makes from the chunks agree with them.
LEMMA ImportKeeps == ASSUME EInv, Import PROVE EInv'
<1>1. /\ chunks' = saved.chunks /\ vectors' = saved.vectors /\ deleted' = saved.deleted
      /\ lengths' = LengthsOf(saved.chunks) /\ postings' = PostingsOf(saved.chunks)
      /\ UNCHANGED <<saved, promised>> /\ saved # None
    BY DEF Import, Importable
<1>2. /\ chunks' \in Seq(Chunk) /\ Len(chunks') \in Nat
      /\ DOMAIN chunks' = 1..Len(chunks')
      /\ \A id \in DOMAIN chunks' : chunks'[id].text \in Texts
    <2>1. chunks' \in Seq(Chunk)
        BY <1>1 DEF EInv, WasmTypeOK
    <2>2. Len(chunks') \in Nat /\ DOMAIN chunks' = 1..Len(chunks')
        BY <2>1
    <2>3. \A id \in DOMAIN chunks' : chunks'[id] \in Chunk
        BY <2>1, <2>2
    <2> QED BY <2>1, <2>2, <2>3 DEF Chunk
<1>3. /\ lengths' = [id \in 1..Len(chunks') |-> LengthOf[chunks'[id].text]]
      /\ \A id \in DOMAIN chunks' : LengthOf[chunks'[id].text] \in Nat
    BY <1>1, <1>2, TermAssumption DEF LengthsOf
<1>4. lengths' \in Seq(Nat) /\ Len(lengths') = Len(chunks')
    BY <1>2, <1>3, IsASeq
<1>5. ASSUME NEW t \in Terms
      PROVE  /\ postings'[t] \in Seq(Seq(Nat)) /\ Len(postings'[t]) = Len(chunks')
             /\ \A id \in DOMAIN chunks' :
                    chunks'[id].live => postings'[t][id] = Posted(t, chunks'[id].text)
    <2> DEFINE p(id) == IF chunks'[id].live THEN Posted(t, chunks'[id].text) ELSE <<>>
    <2>1. postings'[t] = [id \in 1..Len(chunks') |-> p(id)]
        BY <1>1, <1>2 DEF PostingsOf
    <2>2. \A id \in 1..Len(chunks') : p(id) \in Seq(Nat)
        BY <1>2, PostedType
    <2>3. \A id \in DOMAIN chunks' :
            chunks'[id].live => postings'[t][id] = Posted(t, chunks'[id].text)
        BY <1>2, <2>1
    <2> HIDE DEF p
    <2>4. postings'[t] \in Seq(Seq(Nat)) /\ Len(postings'[t]) = Len(chunks')
        BY <1>2, <2>1, <2>2, IsASeq
    <2> QED BY <2>3, <2>4
<1>6. WasmTypeOK'
    <2>1. DOMAIN postings' = Terms
        BY <1>1 DEF PostingsOf
    <2> QED BY <1>1, <1>2, <1>4, <1>5, <2>1 DEF EInv, WasmTypeOK
<1>7. VectorsAgree'
    BY <1>1 DEF EInv, VectorsAgree
<1>8. KeywordsAgree'
    BY <1>2, <1>3, <1>4, <1>5 DEF KeywordsAgree, IsLive
<1> QED BY <1>1, <1>6, <1>7, <1>8 DEF EInv, Right, Live, Posted

(***************************************************************************)
(* The theorems.                                                           *)
(***************************************************************************)
\* EInv is inductive.
THEOREM Inductive == EInv /\ [WasmNext]_wasmVars => EInv'
<1> SUFFICES ASSUME EInv, [WasmNext]_wasmVars PROVE EInv'
    OBVIOUS
<1>1. CASE UNCHANGED wasmVars
    <2>1. WasmTypeOK'
        BY <1>1 DEF wasmVars, EInv, WasmTypeOK
    <2>2. VectorsAgree' /\ KeywordsAgree'
        BY <1>1 DEF wasmVars, EInv, VectorsAgree, KeywordsAgree, IsLive
    <2> QED BY <1>1, <2>1, <2>2 DEF wasmVars, EInv, Right, Live, Posted
<1>2. CASE WasmNext
    BY <1>2, AddKeeps, DeleteKeeps, NewKeeps, ExportKeeps, ImportKeeps DEF WasmNext
<1> QED BY <1>1, <1>2

\* The invariant holds in every reachable state.
THEOREM Invariance == WasmSpec => []EInv
BY InitKeeps, Inductive, PTL DEF WasmSpec

\* query finds every live chunk under the vector of its text, and no other.
THEOREM QueryIsRight == WasmSpec => []VectorsAgree
<1>1. EInv => VectorsAgree
    BY DEF EInv
<1> QED BY <1>1, Invariance, PTL

\* keyword reads of every live chunk what its text has.
THEOREM KeywordIsRight == WasmSpec => []KeywordsAgree
<1>1. EInv => KeywordsAgree
    BY DEF EInv
<1> QED BY <1>1, Invariance, PTL

\* Loading an export gives the answers of the engine that wrote it.
THEOREM ImportIsFaithful == WasmSpec => ImportAnswersAlike
<1> DEFINE RightAnswers == Answers = Right(chunks)
<1>1. EInv => RightAnswers
    BY AnswersAreRight
<1>2. EInv /\ RightAnswers' => (Import => Answers' = promised)
    BY DEF EInv, Import, Importable, Right, Live, Posted
<1> HIDE DEF RightAnswers
<1>3. EInv /\ RightAnswers' => [Import => Answers' = promised]_wasmVars
    BY <1>2
<1> QED BY <1>1, <1>3, Invariance, PTL DEF ImportAnswersAlike

(***************************************************************************)
(* WasmEngine implements PageStore.  What BagOf counts are the places in   *)
(* the list at which a live chunk of one source has one text.              *)
(***************************************************************************)

\* The places of the live chunks of source s with text x.
Places(cs, s, x) ==
    {id \in DOMAIN cs : cs[id] = [text |-> x, source |-> s, live |-> TRUE]}

\* List ds is list cs but for source z, which has each text of d once and no
\* other.
ReplacedIn(cs, ds, z, d) ==
    \A s \in Sources, x \in Texts :
        /\ s # z => Places(ds, s, x) = Places(cs, s, x)
        /\ s = z /\ x \in d => \E id : Places(ds, s, x) = {id}
        /\ s = z /\ x \notin d => Places(ds, s, x) = {}

\* The chunks of content c.
Document(c) == {<<c, i>> : i \in 1..ChunkCount[c]}

\* Two live chunks are one when their texts and sources are.
LEMMA SameChunk ==
    ASSUME NEW x, NEW y, NEW s, NEW z
    PROVE  [text |-> y, source |-> z, live |-> TRUE] =
           [text |-> x, source |-> s, live |-> TRUE] <=> s = z /\ x = y
OBVIOUS

\* A list's bag gives every text of every source a number.
LEMMA BagType ==
    ASSUME NEW cs \in Seq(Chunk)
    PROVE  /\ BagOf(cs) \in Bags
           /\ \A s \in Sources, x \in Texts :
                BagOf(cs)[s][x] = Cardinality(Places(cs, s, x))
<1>1. ASSUME NEW s \in Sources, NEW x \in Texts
      PROVE  Cardinality(Places(cs, s, x)) \in Nat
    <2>1. Len(cs) \in Nat /\ DOMAIN cs = 1..Len(cs)
        OBVIOUS
    <2>2. IsFiniteSet(1..Len(cs))
        BY <2>1, FS_Interval
    <2>3. Places(cs, s, x) \in SUBSET (1..Len(cs))
        BY <2>1 DEF Places
    <2> QED BY <2>2, <2>3, FS_Subset, FS_CardinalityType
<1>2. BagOf(cs) = [s \in Sources |-> [x \in Texts |-> Cardinality(Places(cs, s, x))]]
    BY DEF BagOf, Places
<1> QED BY <1>1, <1>2 DEF Bags

\* Such a list has the bag that a replacement leaves.
LEMMA ReplacedBag ==
    ASSUME NEW cs \in Seq(Chunk), NEW ds \in Seq(Chunk), NEW z \in Sources, NEW d,
           ReplacedIn(cs, ds, z, d)
    PROVE  BagOf(ds) =
             [BagOf(cs) EXCEPT ![z] = [x \in Texts |-> IF x \in d THEN 1 ELSE 0]]
<1>1. ASSUME NEW s \in Sources, NEW x \in Texts
      PROVE  BagOf(ds)[s][x] =
                IF s = z THEN IF x \in d THEN 1 ELSE 0 ELSE BagOf(cs)[s][x]
    <2>1. CASE s = z /\ x \in d
        <3>1. PICK id : Places(ds, s, x) = {id}
            BY <2>1 DEF ReplacedIn
        <3>2. Cardinality(Places(ds, s, x)) = 1
            BY <3>1, FS_Singleton
        <3> QED BY <2>1, <3>2, BagType
    <2>2. CASE s = z /\ x \notin d
        <3>1. Places(ds, s, x) = {}
            BY <2>2 DEF ReplacedIn
        <3>2. Cardinality(Places(ds, s, x)) = 0
            BY <3>1, FS_EmptySet
        <3> QED BY <2>2, <3>2, BagType
    <2>3. CASE s # z
        BY <2>3, BagType DEF ReplacedIn
    <2> QED BY <2>1, <2>2, <2>3
<1> QED BY <1>1, BagType DEF Bags

\* Marking the chunks of a source leaves no live one of it, and the others in
\* their places.
LEMMA MarkedPlaces ==
    ASSUME chunks \in Seq(Chunk), NEW z \in Sources, NEW s \in Sources, NEW x \in Texts
    PROVE  /\ s # z => Places(Marked(z), s, x) = Places(chunks, s, x)
           /\ s = z => Places(Marked(z), s, x) = {}
<1>1. \A id \in DOMAIN chunks : chunks[id] \in Chunk
    OBVIOUS
<1>2. ASSUME NEW id \in DOMAIN chunks
      PROVE  Marked(z)[id] = [text |-> x, source |-> s, live |-> TRUE] <=>
                s # z /\ chunks[id] = [text |-> x, source |-> s, live |-> TRUE]
    <2>1. CASE id \in Held(z)
        <3>1. chunks[id].source = z /\ Marked(z)[id].live = FALSE
            BY <2>1 DEF Marked, Held
        <3> QED BY <3>1
    <2>2. CASE id \notin Held(z)
        <3>1. Marked(z)[id] = chunks[id]
            BY <2>2 DEF Marked
        <3>2. ~(chunks[id].live /\ chunks[id].source = z)
            BY <2>2 DEF Held, IsLive
        <3> QED BY <3>1, <3>2
    <2> QED BY <2>1, <2>2
<1>3. DOMAIN Marked(z) = DOMAIN chunks
    BY DEF Marked
<1> QED BY <1>2, <1>3 DEF Places

\* add puts the chunks of the content behind the marked list.
LEMMA AddedChunks ==
    ASSUME EInv, NEW z \in Sources, NEW c \in Contents, Add(z, c)
    PROVE  LET n == Len(chunks)
               k == ChunkCount[c]
           IN  /\ n \in Nat /\ k \in Nat /\ DOMAIN Marked(z) = 1..n
               /\ DOMAIN chunks' = 1..(n + k)
               /\ \A id \in 1..n : chunks'[id] = Marked(z)[id]
               /\ \A id \in (n + 1)..(n + k) :
                    /\ id - n \in 1..k
                    /\ chunks'[id] = [text |-> <<c, id - n>>, source |-> z, live |-> TRUE]
<1> DEFINE n == Len(chunks)
           k == ChunkCount[c]
           new == [i \in 1..k |-> [text |-> Planned(c)[i], source |-> z, live |-> TRUE]]
<1>1. /\ n \in Nat /\ k \in Nat /\ chunks' = Marked(z) \o new
      /\ Marked(z) \in Seq(Chunk) /\ Len(Marked(z)) = n
    BY PlannedType, MarkedType DEF EInv, WasmTypeOK, Add
<1>2. ASSUME NEW i \in 1..k
      PROVE  /\ new[i] = [text |-> <<c, i>>, source |-> z, live |-> TRUE]
             /\ new[i] \in Chunk
    <2>1. Planned(c)[i] = <<c, i>> /\ <<c, i>> \in Texts
        BY DEF Planned, Texts
    <2>2. new[i] = [text |-> <<c, i>>, source |-> z, live |-> TRUE]
        BY <2>1
    <2> QED BY <2>1, <2>2 DEF Chunk
<1>3. new \in [1..k -> Chunk]
    BY <1>2
<1> HIDE DEF n, k, new
<1>4. new \in Seq(Chunk) /\ Len(new) = k
    BY <1>1, <1>3, ListOf
<1>5. /\ Len(Marked(z) \o new) = n + k
      /\ \A id \in 1..(n + k) :
            (Marked(z) \o new)[id] = IF id <= n THEN Marked(z)[id] ELSE new[id - n]
    BY <1>1, <1>4, ConcatProperties
<1>6. DOMAIN chunks' = 1..(n + k) /\ DOMAIN Marked(z) = 1..n
    BY <1>1, <1>4, <1>5, ConcatProperties
<1>7. ASSUME NEW id \in 1..n
      PROVE  chunks'[id] = Marked(z)[id]
    BY <1>1, <1>5
<1>8. ASSUME NEW id \in (n + 1)..(n + k)
      PROVE  /\ id - n \in 1..k
             /\ chunks'[id] = [text |-> <<c, id - n>>, source |-> z, live |-> TRUE]
    <2>1. id \in 1..(n + k) /\ ~(id <= n) /\ id - n \in 1..k
        BY <1>1
    <2> QED BY <1>1, <1>2, <1>5, <2>1
<1> QED BY <1>1, <1>6, <1>7, <1>8 DEF n, k

\* add puts the document in the place of what its source had.
LEMMA AddReplaces ==
    ASSUME EInv, EInv', NEW z \in Sources, NEW c \in Contents, Add(z, c)
    PROVE  Page!Next
<1> DEFINE n == Len(chunks)
           k == ChunkCount[c]
<1>1. chunks \in Seq(Chunk) /\ chunks' \in Seq(Chunk)
    BY DEF EInv, WasmTypeOK
<1>2. /\ n \in Nat /\ k \in Nat /\ DOMAIN Marked(z) = 1..n
      /\ DOMAIN chunks' = 1..(n + k)
      /\ \A id \in 1..n : chunks'[id] = Marked(z)[id]
      /\ \A id \in (n + 1)..(n + k) :
            /\ id - n \in 1..k
            /\ chunks'[id] = [text |-> <<c, id - n>>, source |-> z, live |-> TRUE]
    BY AddedChunks
<1> HIDE DEF n, k
<1>3. DOMAIN chunks' = (1..n) \cup ((n + 1)..(n + k))
    BY <1>2
<1>4. ASSUME NEW s \in Sources, NEW x \in Texts
      PROVE  Places(chunks', s, x) = Places(Marked(z), s, x) \cup
                {id \in (n + 1)..(n + k) : s = z /\ x = <<c, id - n>>}
    <2> DEFINE y == [text |-> x, source |-> s, live |-> TRUE]
    <2>1. ASSUME NEW id \in (n + 1)..(n + k)
          PROVE  chunks'[id] = y <=> s = z /\ x = <<c, id - n>>
        <3>1. chunks'[id] = [text |-> <<c, id - n>>, source |-> z, live |-> TRUE]
            BY <1>2
        <3> QED BY <3>1, SameChunk
    <2>2. \A id \in 1..n : chunks'[id] = y <=> Marked(z)[id] = y
        BY <1>2
    <2>3. /\ Places(chunks', s, x) = {id \in DOMAIN chunks' : chunks'[id] = y}
          /\ Places(Marked(z), s, x) = {id \in 1..n : Marked(z)[id] = y}
        BY <1>2 DEF Places
    <2> HIDE DEF y
    <2> QED BY <1>3, <2>1, <2>2, <2>3
<1>5. ASSUME NEW s \in Sources, NEW x \in Texts
      PROVE  /\ s # z => Places(chunks', s, x) = Places(chunks, s, x)
             /\ s = z /\ x \in Document(c) => \E id : Places(chunks', s, x) = {id}
             /\ s = z /\ x \notin Document(c) => Places(chunks', s, x) = {}
    <2>0. /\ s # z => Places(Marked(z), s, x) = Places(chunks, s, x)
          /\ s = z => Places(Marked(z), s, x) = {}
        BY <1>1, MarkedPlaces
    <2>1. CASE s # z
        BY <1>4, <2>0, <2>1
    <2>2. CASE s = z /\ x \in Document(c)
        <3>1. PICK i \in 1..k : x = <<c, i>>
            BY <2>2 DEF Document, k
        <3>2. n + i \in (n + 1)..(n + k) /\ (n + i) - n = i
            BY <1>2, <3>1
        <3>3. \A id \in (n + 1)..(n + k) : x = <<c, id - n>> <=> id = n + i
            BY <1>2, <3>1
        <3>4. Places(chunks', s, x) = {n + i}
            BY <1>4, <2>0, <2>2, <3>2, <3>3
        <3> QED BY <2>2, <3>4
    <2>3. CASE s = z /\ x \notin Document(c)
        <3>1. \A id \in (n + 1)..(n + k) : x # <<c, id - n>>
            BY <1>2, <2>3 DEF Document, k
        <3> QED BY <1>4, <2>0, <2>3, <3>1
    <2> QED BY <2>1, <2>2, <2>3
<1>6. BagOf(chunks') = [BagOf(chunks) EXCEPT ![z] =
                          [x \in Texts |-> IF x \in Document(c) THEN 1 ELSE 0]]
    <2>1. ReplacedIn(chunks, chunks', z, Document(c))
        BY <1>5 DEF ReplacedIn
    <2> QED BY <1>1, <2>1, ReplacedBag
<1>7. UNCHANGED saved
    BY DEF Add
<1>8. Page!Replace(z, Document(c))
    BY <1>6, <1>7 DEF Page!Replace, Page!Held!Replace
<1> QED BY <1>8 DEF Page!Next, Document

\* delete leaves its source with no chunks.
LEMMA DeleteReplaces ==
    ASSUME EInv, EInv', NEW z \in Sources, Delete(z)
    PROVE  Page!Next
<1>1. chunks \in Seq(Chunk) /\ chunks' \in Seq(Chunk) /\ chunks' = Marked(z) /\ UNCHANGED saved
    BY DEF EInv, WasmTypeOK, Delete
<1>2. BagOf(chunks') = [BagOf(chunks) EXCEPT ![z] =
                          [x \in Texts |-> IF x \in {} THEN 1 ELSE 0]]
    <2>1. ReplacedIn(chunks, chunks', z, {})
        BY <1>1, MarkedPlaces DEF ReplacedIn
    <2> QED BY <1>1, <2>1, ReplacedBag
<1>3. Page!Replace(z, {})
    BY <1>1, <1>2 DEF Page!Replace, Page!Held!Replace
<1> QED BY <1>3 DEF Page!Next

\* A new engine has no chunks.
LEMMA EmptyBag == BagOf(<<>>) = Page!Empty
<1>1. DOMAIN <<>> = {} /\ Cardinality({}) = 0
    BY FS_EmptySet
<1>2. \A s \in Sources, x \in Texts :
        Cardinality({id \in DOMAIN <<>> :
                        <<>>[id] = [text |-> x, source |-> s, live |-> TRUE]}) = 0
    BY <1>1
<1> QED BY <1>2 DEF BagOf, Page!Empty

\* Each call of the page is a step of PageStore.
LEMMA StepOfPage == EInv /\ EInv' /\ [WasmNext]_wasmVars => [Page!Next]_(Page!vars)
<1> SUFFICES ASSUME EInv, EInv', [WasmNext]_wasmVars
             PROVE  Page!Next \/ UNCHANGED <<chunks, saved>>
    BY DEF Page!vars
<1>1. ASSUME NEW s \in Sources, NEW c \in Contents, Add(s, c) PROVE Page!Next
    BY <1>1, AddReplaces
<1>2. ASSUME NEW s \in Sources, Delete(s) PROVE Page!Next
    BY <1>2, DeleteReplaces
<1>3. BagOf(chunks') # None
    BY BagType, NoneAssumption DEF EInv, WasmTypeOK
<1>4. CASE New
    <2>1. BagOf(chunks') = Page!Empty /\ UNCHANGED saved
        BY <1>4, EmptyBag DEF New
    <2> QED BY <1>3, <2>1 DEF Page!Next, Page!Restore
<1>5. CASE Export
    <2>1. saved' \in Bytes /\ saved'.chunks = chunks /\ UNCHANGED chunks
        BY <1>5 DEF Export, engine, Bytes, EInv, WasmTypeOK
    <2>2. saved' # None
        BY <2>1, NoneAssumption
    <2> QED BY <2>1, <2>2 DEF Page!Next, Page!Keep
<1>6. CASE Import
    <2>1. saved # None /\ chunks' = saved.chunks /\ UNCHANGED saved
        BY <1>6 DEF Import, Importable
    <2> QED BY <1>3, <2>1 DEF Page!Next, Page!Restore
<1>7. CASE UNCHANGED wasmVars
    BY <1>7 DEF wasmVars
<1> QED BY <1>1, <1>2, <1>4, <1>5, <1>6, <1>7 DEF WasmNext

\* A page's chunks change by whole documents, can be kept at any time, and are
\* again what they were when the kept bytes are loaded.
THEOREM ImplementsPage == WasmSpec => ImplementsPageStore
<1>1. WasmInit => Page!Init
    BY EmptyBag DEF WasmInit, Empty, Page!Init
<1> QED BY <1>1, StepOfPage, Invariance, PTL DEF WasmSpec, ImplementsPageStore, Page!Spec
=============================================================================
