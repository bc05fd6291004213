----------------------------- MODULE ServeProofs -----------------------------
(***************************************************************************)
(* What the answers of a database are worth, for any texts, tables,        *)
(* requests and limits.  How far the three stores agree after every write, *)
(* failed write, failed rebuild, crash and reopen is DbInv; an answer is   *)
(* one that they give; and what the calls promise follows from the two.    *)
(***************************************************************************)
EXTENDS Serve, ListsProofs

(* Calls. *)

LEMMA QueriesAreCalls ==
    ASSUME NEW body, body # NotAnObject => IsQuery(body)
    PROVE  IsCallOf(json_object(body, HttpQuery(body)))
<1> DEFINE c == json_object(body, HttpQuery(body))
           top_k == Field(body, "top_k", 5)
           its(mode) == CASE mode = "hybrid" -> {"alpha"} [] mode = "rerank" -> {"rerank_top_n"}
                          [] mode = "diverse" -> {"relevance_weight"} [] OTHER -> {}
<1>1. IsCallOf(Refuse(400))
  BY DEF IsCallOf, Refuse
<1>2. CASE c = Refuse(400)
  BY <1>1, <1>2
<1>3. CASE c # Refuse(400)
  <2>1. body # NotAnObject /\ c = HttpQuery(body) /\ IsQuery(body)
    BY <1>3 DEF json_object
  <2>2. /\ ~AnyWrong(body, {"text", "top_k", "tags", "source_prefix", "since", "mode"}
                                \cup its(Field(body, "mode", "vector")))
        /\ Field(body, "mode", "vector") \in {"vector", "hybrid", "rerank", "diverse"}
    BY <1>3, <2>1 DEF HttpQuery
  <2>3. \A name : ~Absent(body, name) => name \in DOMAIN body /\ body[name] # Null
    BY DEF Absent
  <2>4. top_k \in Nat
    BY <2>1, <2>2, <2>3 DEF AnyWrong, Field, IsQuery, HasType
  <2> HIDE DEF top_k
  <2>5. CASE IsFiltered(body)
    <3>1. c = [op |-> "query_filtered", top_k |-> top_k, filter |-> QueryFilter(body)]
      BY <1>3, <2>1, <2>5 DEF HttpQuery, top_k
    <3> QED BY <2>4, <3>1 DEF IsCallOf
  <2>6. CASE ~IsFiltered(body)
    <3>1. CASE Field(body, "mode", "vector") = "vector"
      <4>1. c = [op |-> "query", top_k |-> top_k]
        BY <1>3, <2>1, <2>6, <3>1 DEF HttpQuery, top_k
      <4> QED BY <2>4, <4>1 DEF IsCallOf
    <3>2. CASE Field(body, "mode", "vector") = "hybrid"
      <4>1. c = [op |-> "query_hybrid", top_k |-> top_k, alpha |-> Field(body, "alpha", 1)]
        BY <1>3, <2>1, <2>6, <3>2 DEF HttpQuery, top_k
      <4>2. Field(body, "alpha", 1) \in Weights
        BY <2>1, <2>2, <2>3, <3>2 DEF AnyWrong, Field, IsQuery, HasType, Weights
      <4> QED BY <2>4, <4>1, <4>2 DEF IsCallOf
    <3>3. CASE Field(body, "mode", "vector") = "rerank"
      <4>1. c = [op |-> "query_reranked", top_k |-> top_k, n |-> Field(body, "rerank_top_n", 20)]
        BY <1>3, <2>1, <2>6, <3>3 DEF HttpQuery, top_k
      <4>2. Field(body, "rerank_top_n", 20) \in Nat
        BY <2>1, <2>2, <2>3, <3>3 DEF AnyWrong, Field, IsQuery, HasType
      <4> QED BY <2>4, <4>1, <4>2 DEF IsCallOf
    <3>4. CASE Field(body, "mode", "vector") = "diverse"
      <4>1. c = [op |-> "query_diverse", top_k |-> top_k,
                 weight |-> Field(body, "relevance_weight", 1)]
        BY <1>3, <2>1, <2>6, <3>4 DEF HttpQuery, top_k
      <4>2. Field(body, "relevance_weight", 1) \in Weights
        BY <2>1, <2>2, <2>3, <3>4 DEF AnyWrong, Field, IsQuery, HasType, Weights
      <4> QED BY <2>4, <4>1, <4>2 DEF IsCallOf
    <3> QED BY <2>2, <3>1, <3>2, <3>3, <3>4
  <2> QED BY <2>5, <2>6
<1> QED BY <1>2, <1>3

LEMMA TextsAreCalls ==
    ASSUME NEW body, body # NotAnObject => IsWrite(body)
    PROVE  IsCallOf(json_object(body, HttpText(body)))
<1> DEFINE c == json_object(body, HttpText(body))
<1>1. IsCallOf(Refuse(400))
  BY DEF IsCallOf, Refuse
<1>2. CASE c # Refuse(400)
  <2>1. body # NotAnObject /\ c = HttpText(body) /\ IsWrite(body)
    BY <1>2 DEF json_object
  <2>2. ~Absent(body, "text") /\ ~AnyWrong(body, {"text", "source", "tags"})
    BY <1>2, <2>1 DEF HttpText
  <2>3. \A name : ~Absent(body, name) => name \in DOMAIN body /\ body[name] # Null
    BY DEF Absent
  <2>4. body.text \in Seq(Texts)
    BY <2>1, <2>2, <2>3 DEF AnyWrong, IsWrite, HasType
  <2>5. Field(body, "source", "inline") \in Sources
    <3>1. CASE Absent(body, "source")
      <4>1. "inline" \in Sources
        BY RequestsAssumption
      <4> QED BY <3>1, <4>1, Zenon DEF Field
    <3>2. CASE ~Absent(body, "source")
      <4>1. body["source"] # Wrong /\ body["source"] # Null /\ "source" \in DOMAIN body
        BY <2>2, <2>3, <3>2 DEF AnyWrong
      <4>2. HasType(body, "source", Sources)
        BY <2>1 DEF IsWrite
      <4>3. body["source"] \in Sources
        BY <4>1, <4>2, Zenon DEF HasType
      <4> QED BY <3>2, <4>3, Zenon DEF Field
    <3> QED BY <3>1, <3>2
  <2>6. Field(body, "tags", {}) \in SUBSET Tags
    <3>1. CASE Absent(body, "tags")
      BY <3>1, Zenon DEF Field
    <3>2. CASE ~Absent(body, "tags")
      <4>1. body["tags"] # Wrong /\ body["tags"] # Null /\ "tags" \in DOMAIN body
        BY <2>2, <2>3, <3>2 DEF AnyWrong
      <4>2. HasType(body, "tags", SUBSET Tags)
        BY <2>1 DEF IsWrite
      <4>3. body["tags"] \in SUBSET Tags
        BY <4>1, <4>2, Zenon DEF HasType
      <4> QED BY <3>2, <4>3, Zenon DEF Field
    <3> QED BY <3>1, <3>2
  <2>7. c = [op |-> "add", w |-> [how |-> "add_text", texts |-> body.text, created |-> 1,
                               source |-> Field(body, "source", "inline"),
                               tags |-> Field(body, "tags", {})]]
    BY <1>2, <2>1 DEF HttpText
  <2> QED BY <2>4, <2>5, <2>6, <2>7 DEF IsCallOf, Written
<1> QED BY <1>1, <1>2

LEMMA OthersAreCalls ==
    ASSUME NEW c, c.op \notin ModelCalls \cup {"neighbors", "add"} PROVE IsCallOf(c)
BY DEF IsCallOf, ModelCalls

LEMMA RoutesAreCalls ==
    ASSUME NEW method, NEW path, NEW body,
           body # NotAnObject => (path = "/query" => IsQuery(body)) /\ (path = "/text" => IsWrite(body))
    PROVE  IsCallOf(handle(method, path, body))
<1> DEFINE c == handle(method, path, body)
<1>1. CASE <<method, path>> = <<"POST", "/query">>
  <2>1. c = json_object(body, HttpQuery(body))
    BY <1>1 DEF handle
  <2> QED BY <1>1, <2>1, QueriesAreCalls
<1>2. CASE <<method, path>> = <<"POST", "/text">>
  <2>1. c = json_object(body, HttpText(body))
    BY <1>2 DEF handle
  <2> QED BY <1>2, <2>1, TextsAreCalls
<1>3. CASE <<method, path>> = <<"POST", "/delete">>
  <2>1. c = json_object(body, HttpDelete(body))
    BY <1>3 DEF handle
  <2>2. c.op \in {"refuse", "delete"}
    BY <2>1 DEF json_object, HttpDelete, Refuse
  <2> QED BY <2>2, OthersAreCalls DEF ModelCalls
<1>4. CASE <<method, path>> \notin {<<"POST", "/query">>, <<"POST", "/text">>, <<"POST", "/delete">>}
  <2>1. c.op \in {"refuse", "health", "stats"}
    BY <1>4 DEF handle, Refuse
  <2> QED BY <2>1, OthersAreCalls DEF ModelCalls
<1> QED BY <1>1, <1>2, <1>3, <1>4

LEMMA CommandsAreCalls ==
    ASSUME NEW o, IsCommand(o) PROVE IsCallOf(CliCall(o))
<1> DEFINE c == CliCall(o)
<1>1. CASE c.op \notin ModelCalls \cup {"neighbors", "add"}
  BY <1>1, OthersAreCalls
<1>2. CASE c.op \in ModelCalls \cup {"neighbors", "add"}
  <2>1. ~BadOptions(o) /\ o.command \in {"query", "eval", "stats", "doctor", "synth", "delete", "rebuild"}
    BY <1>2 DEF CliCall, Refuse, ModelCalls
  <2>2. ~AnyWrong(o, {"top_k", "hybrid", "diverse", "rerank", "since", "per_source"})
    BY <2>1 DEF BadOptions
  <2>3. \A name : ~Absent(o, name) => name \in DOMAIN o /\ o[name] # Null
    BY DEF Absent
  <2>4. Field(o, "top_k", 5) \in Nat
    BY <2>2, <2>3 DEF AnyWrong, Field, IsCommand, HasType
  <2>5. /\ Given(o, "hybrid") => o.hybrid \in Weights
        /\ Given(o, "diverse") => o.diverse \in Weights
        /\ Given(o, "rerank") => o.rerank \in Nat
    BY <2>2, <2>3 DEF AnyWrong, Given, IsCommand, HasType
  <2>6. CASE o.command = "query"
    <3>1. c = QueryCommand(o)
      BY <2>1, <2>6 DEF CliCall
    <3> QED BY <1>2, <2>4, <2>5, <3>1 DEF QueryCommand, IsCallOf, Refuse, ModelCalls
  <2>7. CASE o.command = "eval"
    <3>1. c = EvalCommand(o)
      BY <2>1, <2>7 DEF CliCall
    <3> QED BY <2>4, <2>5, <3>1 DEF EvalCommand, IsCallOf
  <2>8. CASE o.command \in {"stats", "doctor", "synth", "delete", "rebuild"}
    <3>1. c.op \in {"stats", "check", "eval_cases", "delete", "rebuild", "refuse"}
      BY <2>1, <2>8 DEF CliCall, StatsCommand, DoctorCommand, SynthCommand, DeleteCommand,
                        RebuildCommand, Refuse
    <3> QED BY <1>2, <3>1 DEF ModelCalls
  <2> QED BY <2>1, <2>6, <2>7, <2>8
<1> QED BY <1>1, <1>2

LEMMA RequestsAreCalls ==
    ASSUME NEW r, host \in Hosts, r \in Requests[host] PROVE IsCallOf(CallOf(r))
<1>1. CASE host = "http"
  <2>1. r \in HttpRequests /\ CallOf(r) = HttpCall(r)
    BY <1>1 DEF CallOf, Requests
  <2>2. IsCallOf(handle(r.method, r.path, r.body))
    BY <2>1, RequestsAssumption, RoutesAreCalls
  <2>3. IsCallOf(Refuse(413))
    BY OthersAreCalls DEF Refuse, ModelCalls
  <2> QED BY <2>1, <2>2, <2>3 DEF HttpCall
<1>2. CASE host = "mcp"
  <2>1. r \in McpLines /\ CallOf(r) = McpCall(r)
    BY <1>2 DEF CallOf, Requests
  <2>2. IsCallOf([op |-> "health"])
    BY OthersAreCalls DEF ModelCalls
  <2>3. ASSUME IsCall(r) PROVE IsCallOf(call_tool(r.name, r.arguments))
    <3>1. CASE r.name = "raglite_query"
      <4>1. call_tool(r.name, r.arguments) = handle("POST", "/query", r.arguments)
        BY <3>1 DEF call_tool
      <4> QED BY <2>1, <3>1, <4>1, RequestsAssumption, RoutesAreCalls
    <3>2. CASE r.name = "raglite_add_text"
      <4>1. call_tool(r.name, r.arguments) = handle("POST", "/text", r.arguments)
        BY <3>2 DEF call_tool
      <4> QED BY <2>1, <3>2, <4>1, RequestsAssumption, RoutesAreCalls
    <3>3. CASE r.name = "raglite_delete"
      <4>1. call_tool(r.name, r.arguments) = handle("POST", "/delete", r.arguments)
        BY <3>3 DEF call_tool
      <4> QED BY <4>1, RoutesAreCalls
    <3>4. CASE r.name = "raglite_stats"
      <4>1. call_tool(r.name, r.arguments) = handle("GET", "/stats", NotAnObject)
        BY <3>4 DEF call_tool
      <4> QED BY <4>1, RoutesAreCalls
    <3> QED BY <2>3, <3>1, <3>2, <3>3, <3>4 DEF IsCall, Tools
  <2> QED BY <2>1, <2>2, <2>3 DEF McpCall
<1>3. CASE host = "cli"
  BY <1>3, RequestsAssumption, CommandsAreCalls DEF CallOf, Requests
<1>4. CASE host = "library"
  BY <1>4, RequestsAssumption DEF CallOf, Requests
<1> QED BY <1>1, <1>2, <1>3, <1>4 DEF Hosts

(* The stores agree. *)

Indexes == {ix \in [vectors : Seq(Texts), removed : SUBSET Nat] :
                \A x \in ix.removed : x < Len(ix.vectors)}

\* Row ids grow, and no two rows have one vector.
Numbered(table, next) ==
    /\ \A i \in DOMAIN table : table[i].id < next
    /\ \A i, j \in DOMAIN table : i < j => table[i].id < table[j].id
    /\ \A i, j \in DOMAIN table : i # j => table[i].vector_id # table[j].vector_id

\* Each row has a vector.
Within(table, ix) == \A i \in DOMAIN table : table[i].vector_id < Len(ix.vectors)

\* The vector of a row, where the index has one, is that of its text, and a search may find it.
Tells(table, ix) ==
    \A i \in DOMAIN table : table[i].vector_id < Len(ix.vectors) =>
        /\ table[i].vector_id \notin ix.removed
        /\ ix.vectors[table[i].vector_id + 1] = table[i].text

\* The ids of the rows are those of the index, whatever vectors it has besides.
InStep == faults \subseteq {"lost"}

\* A file that the next open may take for current tells the truth of the rows, and it has no
\* id that is still to be given out.
FileInv ==
    ("file" \in recorded /\ "shadowed" \notin faults) =>
        Tells(rows, file) /\ Len(file.vectors) <= Len(index.vectors)

DbInv ==
    /\ rows \in Seq(Rows) /\ next_id \in Nat /\ index \in Indexes /\ file \in Indexes
    /\ faults \subseteq {"lost", "remapped", "shadowed"}
    /\ Numbered(rows, next_id)
    /\ fts = Indexed(rows)
    /\ Within(rows, index)
    /\ InStep => Tells(rows, index)
    /\ faults = {} => Visible(index) \subseteq VectorIds(rows)
    /\ "remapped" \in faults => "index" \notin recorded
    /\ FileInv

LEMMA InitOk == Init => DbInv
<1> SUFFICES ASSUME Init PROVE DbInv
  OBVIOUS
<1>1. /\ rows \in Seq(Rows) /\ next_id = Len(rows) + 1
      /\ \A i \in DOMAIN rows : rows[i].id = i /\ rows[i].vector_id = i - 1
  BY OldRowsAssumption DEF Init
<1>2. /\ index = [vectors |-> [i \in DOMAIN rows |-> rows[i].text], removed |-> {}]
      /\ file = index /\ faults = {} /\ fts = Indexed(rows)
  BY DEF Init, IndexOf
<1>3. \A i \in DOMAIN rows : rows[i] \in Rows /\ rows[i].text \in Texts
  <2>1. \A i \in DOMAIN rows : rows[i] \in Rows
    BY <1>1
  <2> QED BY <2>1 DEF Rows
<1>4. index.vectors \in Seq(Texts) /\ Len(index.vectors) = Len(rows) /\ index.removed = {}
  <2> DEFINE vs == [i \in 1..Len(rows) |-> rows[i].text]
  <2>1. vs \in [1..Len(rows) -> Texts] /\ Len(rows) \in Nat
    BY <1>1, <1>3
  <2>2. vs \in Seq(Texts) /\ Len(vs) = Len(rows)
    BY <2>1
  <2>3. DOMAIN rows = 1..Len(rows)
    BY <1>1
  <2>4. index.vectors = vs /\ index.removed = {}
    BY <1>2, <2>3
  <2> QED BY <2>2, <2>4
<1>5. index \in Indexes
  BY <1>2, <1>4 DEF Indexes
<1>6. Numbered(rows, next_id) /\ Within(rows, index) /\ Tells(rows, index)
  BY <1>1, <1>2, <1>4 DEF Numbered, Within, Tells
<1>7. FileInv
  <2>1. Len(index.vectors) \in Nat
    BY <1>4
  <2> QED BY <1>2, <1>6, <2>1 DEF FileInv
<1>8. Visible(index) \subseteq VectorIds(rows)
  <2>1. DOMAIN index.vectors = DOMAIN rows
    BY <1>2
  <2>2. ASSUME NEW i \in DOMAIN rows PROVE i - 1 \in VectorIds(rows)
    BY <1>1 DEF VectorIds
  <2>3. Ids(index) \subseteq VectorIds(rows)
    BY <2>1, <2>2 DEF Ids
  <2> QED BY <2>3 DEF Visible
<1> QED BY <1>1, <1>2, <1>5, <1>6, <1>7, <1>8 DEF DbInv

\* What stays of the table and of the keywords when the vectors `gone` go.
Stays(kept, words, gone) ==
    \E at :
        /\ kept \in Seq(Rows) /\ DOMAIN at = DOMAIN kept
        /\ \A k \in DOMAIN kept : at[k] \in DOMAIN rows /\ kept[k] = rows[at[k]]
        /\ \A i, j \in DOMAIN kept : i < j => at[i] < at[j]
        /\ \A k \in DOMAIN kept : kept[k].vector_id \notin gone
        /\ \A i \in DOMAIN rows : rows[i].vector_id \in gone \/ \E k \in DOMAIN kept : at[k] = i
        /\ gone \subseteq VectorIds(rows)
        /\ words = Indexed(kept)

LEMMA AllStay == DbInv => Stays(rows, fts, {})
<1> SUFFICES ASSUME DbInv PROVE Stays(rows, fts, {})
  OBVIOUS
<1> DEFINE at == [i \in DOMAIN rows |-> i]
<1>1. /\ rows \in Seq(Rows) /\ DOMAIN at = DOMAIN rows
      /\ \A k \in DOMAIN rows : at[k] \in DOMAIN rows /\ rows[k] = rows[at[k]]
      /\ \A i, j \in DOMAIN rows : i < j => at[i] < at[j]
      /\ \A i \in DOMAIN rows : \E k \in DOMAIN rows : at[k] = i
      /\ fts = Indexed(rows)
  BY DEF DbInv
<1> HIDE DEF at
<1> QED BY <1>1 DEF Stays

VectorsOf(source) == {r.vector_id : r \in {q \in ToSet(rows) : q.source = source}}

LEMMA OthersStay ==
    ASSUME DbInv, NEW source
    PROVE  Stays(delete_source_rows(source).rows, delete_source_rows(source).fts, VectorsOf(source))
<1> DEFINE n == Len(rows)
           others == Others(source)
           its == DOMAIN rows \ others
           kept == At(rows, others)
           old == At(rows, its)
           gone == VectorsOf(source)
<1>1. rows \in Seq(Rows) /\ n \in Nat /\ DOMAIN rows = 1..n /\ Numbered(rows, next_id)
  BY DEF DbInv
<1>16. \A i \in 1..n : rows[i] \in Rows
  BY <1>1
<1>2. others \in SUBSET (1..n) /\ its \in SUBSET (1..n) /\ \A i \in 1..n : i \in others <=> rows[i].source # source
  BY <1>1 DEF Others
<1>3. gone = {rows[i].vector_id : i \in its}
  BY <1>1, <1>2 DEF VectorsOf, ToSet
<1>4. delete_source_rows(source) = [rows |-> kept, fts |-> fts \ Indexed(old)]
  BY DEF delete_source_rows
<1>5. \E at : Keeps(rows, others, kept, at)
  BY <1>1, <1>2, AtKeeps
<1>6. \E at : Keeps(rows, its, old, at)
  BY <1>1, <1>2, AtKeeps
<1> HIDE DEF n, others, its, kept, old, gone
<1>7. PICK at : Keeps(rows, others, kept, at)
  BY <1>5
<1>8. PICK from : Keeps(rows, its, old, from)
  BY <1>6
<1>9. /\ Cardinality(others) \in Nat /\ DOMAIN at = 1..Cardinality(others) /\ DOMAIN kept = DOMAIN at
      /\ \A k \in DOMAIN kept : at[k] \in others /\ kept[k] = rows[at[k]]
      /\ \A x \in others : \E k \in DOMAIN kept : at[k] = x
      /\ \A i, j \in DOMAIN kept : i < j => at[i] < at[j]
  BY <1>7 DEF Keeps
<1>10. kept \in Seq(Rows)
  <2>1. \A k \in DOMAIN kept : kept[k] \in Rows
    BY <1>2, <1>9, <1>16
  <2>2. kept = [k \in 1..Cardinality(others) |-> kept[k]]
    BY <1>9, <1>7 DEF Keeps, kept, At
  <2> QED BY <1>9, <2>1, <2>2
<1>11. \A k \in DOMAIN kept : at[k] \in DOMAIN rows /\ kept[k].vector_id \notin gone
  <2>1. \A i, j \in 1..n : i # j => rows[i].vector_id # rows[j].vector_id
    BY <1>1 DEF Numbered
  <2>2. \A i \in others : i \notin its
    BY DEF its
  <2>3. \A i \in others : rows[i].vector_id \notin gone
    <3> SUFFICES ASSUME NEW i \in others, NEW j \in its, rows[i].vector_id = rows[j].vector_id
                 PROVE  FALSE
      BY <1>3
    <3>1. i \in 1..n /\ j \in 1..n /\ i # j
      BY <1>2, <2>2
    <3> QED BY <2>1, <3>1
  <2> QED BY <1>1, <1>2, <1>9, <2>3
<1>12. \A i \in DOMAIN rows : rows[i].vector_id \in gone \/ \E k \in DOMAIN kept : at[k] = i
  BY <1>3, <1>9 DEF its
<1>13. gone \subseteq VectorIds(rows)
  BY <1>1, <1>2, <1>3 DEF VectorIds
<1>14. fts \ Indexed(old) = Indexed(kept)
  <2>1. Indexed(old) = {<<rows[i].id, rows[i].text>> : i \in its}
    BY <1>8 DEF Keeps, Indexed
  <2>2. Indexed(kept) = {<<rows[i].id, rows[i].text>> : i \in others}
    BY <1>9 DEF Indexed
  <2>3. fts = {<<rows[i].id, rows[i].text>> : i \in DOMAIN rows}
    BY DEF DbInv, Indexed
  <2>4. \A i, j \in DOMAIN rows : i # j => rows[i].id # rows[j].id
    <3>1. \A i \in DOMAIN rows : rows[i] \in Rows
      BY <1>1
    <3>2. \A i \in DOMAIN rows : rows[i].id \in Nat
      BY <3>1 DEF Rows
    <3> QED BY <1>1, <3>2 DEF Numbered
  <2>5. others \subseteq DOMAIN rows /\ its = DOMAIN rows \ others
    BY <1>1, <1>2 DEF its
  <2>6. \A i \in its, j \in others : <<rows[i].id, rows[i].text>> # <<rows[j].id, rows[j].text>>
    BY <2>4, <2>5
  <2> QED BY <2>1, <2>2, <2>3, <2>5, <2>6
<1>15. Stays(kept, fts \ Indexed(old), gone)
  BY <1>9, <1>10, <1>11, <1>12, <1>13, <1>14 DEF Stays
<1> QED BY <1>4, <1>15 DEF gone

LEMMA JoinedIs ==
    ASSUME NEW S, NEW s \in Seq(S), NEW t \in Seq(S)
    PROVE  /\ s \o t \in Seq(S) /\ Len(s \o t) = Len(s) + Len(t)
           /\ DOMAIN (s \o t) = 1..Len(s) + Len(t)
           /\ \A i \in 1..Len(s) : (s \o t)[i] = s[i]
           /\ \A i \in 1..Len(t) : (s \o t)[Len(s) + i] = t[i]
OBVIOUS

LEMMA RowsHaveFields ==
    ASSUME NEW table \in Seq(Rows), NEW i \in DOMAIN table
    PROVE  /\ table[i] \in Rows /\ table[i].id \in Nat /\ table[i].vector_id \in Nat
           /\ table[i].text \in Texts /\ table[i].created \in Nat /\ table[i].start \in Nat
<1>1. table[i] \in Rows
  OBVIOUS
<1> QED BY <1>1 DEF Rows

\* What a write adds: n rows with the next ids and vectors.
AreNext(new, w) ==
    /\ new \in Seq(Rows) /\ Len(new) = Len(w.texts)
    /\ \A i \in 1..Len(new) : /\ new[i].id = next_id + i - 1
                              /\ new[i].vector_id = Len(index.vectors) + i - 1
                              /\ new[i].text = w.texts[i]

LEMMA NewRowsAreNext ==
    ASSUME DbInv, NEW w \in Written PROVE AreNext(NewRows(w), w)
<1> DEFINE n == Len(w.texts)
           v == Len(index.vectors)
           new == NewRows(w)
           row(i) == [id |-> next_id + i - 1, vector_id |-> v + i - 1, text |-> w.texts[i],
                      source |-> w.source, tags |-> w.tags, created |-> w.created, start |-> i]
<1>1. /\ w.texts \in Seq(Texts) /\ w.source \in Sources /\ w.tags \in SUBSET Tags
      /\ w.created \in Nat /\ n \in Nat /\ DOMAIN w.texts = 1..n
  BY DEF Written
<1>2. next_id \in Nat /\ v \in Nat
  BY DEF DbInv, Indexes
<1>3. new = [i \in 1..n |-> row(i)]
  BY <1>1 DEF NewRows
<1>4. \A i \in 1..n : w.texts[i] \in Texts
  BY <1>1
<1> HIDE DEF n, v, new
<1>5. ASSUME NEW i \in 1..n PROVE row(i) \in Rows
  <2>1. next_id + i - 1 \in Nat /\ v + i - 1 \in Nat /\ i \in Nat
    BY <1>1, <1>2
  <2> QED BY <1>1, <1>4, <2>1 DEF Rows
<1>6. \A i \in 1..n : /\ new[i].id = next_id + i - 1 /\ new[i].vector_id = v + i - 1
                      /\ new[i].text = w.texts[i]
  BY <1>3
<1>7. new \in [1..n -> Rows]
  BY <1>3, <1>5
<1>8. new \in Seq(Rows) /\ Len(new) = n
  BY <1>1, <1>7
<1>9. new = NewRows(w) /\ n = Len(w.texts) /\ v = Len(index.vectors)
  BY DEF n, v, new
<1> QED BY <1>6, <1>8, <1>9 DEF AreNext

\* The end of a write, once the rows and the index are known to agree.
LEMMA FlushKeeps ==
    ASSUME DbInv, NEW ok, flush_if_due(ok), index' \in Indexes, faults' = faults,
           InStep => Tells(rows', index'),
           Tells(rows, file) /\ Len(file.vectors) <= Len(index.vectors) => Tells(rows', file),
           Len(index.vectors) <= Len(index'.vectors)
    PROVE  file' \in Indexes /\ ("remapped" \in faults' => "index" \notin recorded') /\ FileInv'
<1>1. /\ file \in Indexes /\ index \in Indexes /\ FileInv
      /\ "remapped" \in faults => "index" \notin recorded
  BY DEF DbInv
<1>2. /\ Len(file.vectors) \in Nat /\ Len(index.vectors) \in Nat /\ Len(index'.vectors) \in Nat
  BY <1>1 DEF Indexes
<1>3. CASE file' = file /\ recorded' = recorded
  BY <1>1, <1>2, <1>3 DEF FileInv
<1>4. CASE file' = index' /\ recorded' = RecordedAfterFlush
  <2>1. "index" \notin recorded => recorded' = {}
    BY <1>4 DEF RecordedAfterFlush
  <2>2. ASSUME "index" \in recorded, "shadowed" \notin faults PROVE Tells(rows', index')
    <3>1. InStep
      BY <1>1, <2>2 DEF DbInv, InStep
    <3> QED BY <3>1
  <2> QED BY <1>1, <1>2, <1>4, <2>1, <2>2 DEF FileInv
<1> QED BY <1>3, <1>4 DEF flush_if_due

LEMMA IngestKeeps ==
    ASSUME DbInv, NEW w \in Written, NEW ok, Ingest(w, ok) PROVE DbInv'
<1> DEFINE n == Len(w.texts)
           v == Len(index.vectors)
           new == NewRows(w)
<1>1. PICK kept, words, gone :
        /\ Stays(kept, words, gone)
        /\ rows' = kept \o new /\ fts' = words \cup Indexed(new)
        /\ next_id' = next_id + n /\ faults' = faults
        /\ index' = [vectors |-> index.vectors \o w.texts, removed |-> index.removed \cup gone]
  <2>1. CASE w.how = "add_document"
    <3>1. Stays(delete_source_rows(w.source).rows, delete_source_rows(w.source).fts, VectorsOf(w.source))
      BY OthersStay
    <3> QED BY <2>1, <3>1 DEF Ingest, VectorsOf
  <2>2. CASE w.how # "add_document"
    BY <2>2, AllStay DEF Ingest
  <2> QED BY <2>1, <2>2
<1>2. PICK at :
        /\ kept \in Seq(Rows) /\ DOMAIN at = DOMAIN kept
        /\ \A k \in DOMAIN kept : at[k] \in DOMAIN rows /\ kept[k] = rows[at[k]]
        /\ \A i, j \in DOMAIN kept : i < j => at[i] < at[j]
        /\ \A k \in DOMAIN kept : kept[k].vector_id \notin gone
        /\ \A i \in DOMAIN rows : rows[i].vector_id \in gone \/ \E k \in DOMAIN kept : at[k] = i
        /\ gone \subseteq VectorIds(rows)
        /\ words = Indexed(kept)
  BY <1>1 DEF Stays
<1>3. /\ rows \in Seq(Rows) /\ next_id \in Nat /\ index \in Indexes /\ file \in Indexes
      /\ Numbered(rows, next_id) /\ Within(rows, index)
      /\ InStep => Tells(rows, index)
      /\ faults = {} => Visible(index) \subseteq VectorIds(rows)
  BY DEF DbInv
<1>4. /\ index.vectors \in Seq(Texts) /\ v \in Nat /\ index.removed \in SUBSET Nat
      /\ w.texts \in Seq(Texts) /\ n \in Nat
  BY <1>3 DEF Indexes, Written
<1>5. /\ index'.vectors \in Seq(Texts) /\ Len(index'.vectors) = v + n
      /\ \A i \in 1..v : index'.vectors[i] = index.vectors[i]
      /\ \A i \in 1..n : index'.vectors[v + i] = w.texts[i]
      /\ index'.removed = index.removed \cup gone
  <2>1. index'.vectors = index.vectors \o w.texts /\ index'.removed = index.removed \cup gone
    BY <1>1
  <2>2. n = Len(w.texts) /\ v = Len(index.vectors)
    BY DEF n, v
  <2> HIDE DEF n, v
  <2> DEFINE vs == index.vectors
             ts == w.texts
  <2>3. vs \in Seq(Texts) /\ ts \in Seq(Texts)
    BY <1>4
  <2>4. index'.vectors = vs \o ts /\ v = Len(vs) /\ n = Len(ts)
    BY <2>1, <2>2
  <2> HIDE DEF vs, ts
  <2>5. /\ vs \o ts \in Seq(Texts) /\ Len(vs \o ts) = Len(vs) + Len(ts)
        /\ \A i \in 1..Len(vs) : (vs \o ts)[i] = vs[i]
        /\ \A i \in 1..Len(ts) : (vs \o ts)[Len(vs) + i] = ts[i]
    BY <2>3, JoinedIs
  <2>6. vs = index.vectors /\ ts = w.texts
    BY DEF vs, ts
  <2> QED BY <2>1, <2>4, <2>5, <2>6
<1>6. /\ new \in Seq(Rows) /\ Len(new) = n
      /\ \A i \in 1..n : /\ new[i].id = next_id + i - 1 /\ new[i].vector_id = v + i - 1
                         /\ new[i].text = w.texts[i]
  BY NewRowsAreNext DEF AreNext
<1> HIDE DEF n, v, new
<1> DEFINE m == Len(kept)
<1>7. /\ m \in Nat /\ DOMAIN kept = 1..m /\ rows' \in Seq(Rows) /\ DOMAIN rows' = 1..m + n
      /\ \A k \in 1..m : rows'[k] = kept[k]
      /\ \A i \in 1..n : rows'[m + i] = new[i]
  <2>1. m \in Nat /\ DOMAIN kept = 1..m
    BY <1>2
  <2> HIDE DEF m
  <2>2. kept \in Seq(Rows) /\ Len(kept) = m
    BY <1>2 DEF m
  <2>3. /\ kept \o new \in Seq(Rows) /\ DOMAIN (kept \o new) = 1..Len(kept) + Len(new)
        /\ \A i \in 1..Len(kept) : (kept \o new)[i] = kept[i]
        /\ \A i \in 1..Len(new) : (kept \o new)[Len(kept) + i] = new[i]
    <3>1. kept \in Seq(Rows) /\ new \in Seq(Rows)
      BY <1>2, <1>6
    <3> QED BY <3>1, JoinedIs
  <2> QED BY <1>1, <1>6, <2>1, <2>2, <2>3
<1> HIDE DEF m
<1>8. gone \in SUBSET Nat /\ \A x \in gone : x < v
  <2>1. \A i \in DOMAIN rows : rows[i].vector_id \in Nat /\ rows[i].vector_id < v
    BY <1>3, RowsHaveFields DEF Within, v
  <2> QED BY <1>2, <2>1 DEF VectorIds
<1>9. ASSUME NEW k \in 1..m
      PROVE  /\ kept[k].id \in Nat /\ kept[k].id < next_id
             /\ kept[k].vector_id \in Nat /\ kept[k].vector_id < v
             /\ InStep => /\ kept[k].vector_id \notin index'.removed
                          /\ index.vectors[kept[k].vector_id + 1] = kept[k].text
  <2>1. at[k] \in DOMAIN rows /\ kept[k] = rows[at[k]] /\ kept[k].vector_id \notin gone
    BY <1>2, <1>7
  <2>2. rows[at[k]].id \in Nat /\ rows[at[k]].vector_id \in Nat
    BY <1>3, <2>1, RowsHaveFields
  <2>3. kept[k].vector_id < v
    BY <1>3, <2>1 DEF Within, v
  <2>4. InStep => /\ kept[k].vector_id \notin index.removed
                  /\ index.vectors[kept[k].vector_id + 1] = kept[k].text
    BY <1>3, <2>1, <2>3 DEF Tells, v
  <2> QED BY <1>3, <1>5, <2>1, <2>2, <2>3, <2>4 DEF Numbered
<1>10. \A i \in 1..n : /\ rows'[m + i].id = next_id + i - 1
                       /\ rows'[m + i].vector_id = v + i - 1
                       /\ rows'[m + i].text = w.texts[i]
  BY <1>6, <1>7
<1>11. ASSUME NEW k \in 1..m + n PROVE k \in 1..m \/ \E i \in 1..n : k = m + i
  <2>1. k > m => k - m \in 1..n /\ k = m + (k - m)
    BY <1>4, <1>7
  <2> QED BY <1>7, <2>1
<1>12. Numbered(rows', next_id')
  <2>1. \A k \in 1..m + n : rows'[k].id < next_id'
    <3>1. \A k \in 1..m : rows'[k].id < next_id'
      BY <1>1, <1>3, <1>4, <1>7, <1>9
    <3>2. ASSUME NEW i \in 1..n PROVE rows'[m + i].id < next_id'
      <4>1. next_id + i - 1 < next_id + n
        BY <1>3, <1>4
      <4> QED BY <1>1, <1>10, <4>1
    <3> QED BY <1>11, <3>1, <3>2
  <2>2. ASSUME NEW j \in 1..m + n, NEW k \in 1..m + n, j < k
        PROVE  rows'[j].id < rows'[k].id /\ rows'[j].vector_id # rows'[k].vector_id
    <3>1. CASE k \in 1..m
      <4>1. j \in 1..m /\ at[j] < at[k] /\ at[j] \in DOMAIN rows /\ at[k] \in DOMAIN rows
        BY <1>2, <1>7, <2>2, <3>1
      <4>2. at[j] \in Int /\ at[k] \in Int
        BY <1>3, <4>1
      <4>3. rows'[j] = rows[at[j]] /\ rows'[k] = rows[at[k]]
        BY <1>2, <1>7, <3>1, <4>1
      <4> QED BY <1>3, <4>1, <4>2, <4>3 DEF Numbered
    <3>2. CASE \E i \in 1..n : k = m + i
      <4>1. PICK i \in 1..n : k = m + i
        BY <3>2
      <4>2. CASE j \in 1..m
        <5>1. rows'[j] = kept[j] /\ rows'[k].id = next_id + i - 1 /\ rows'[k].vector_id = v + i - 1
          BY <1>7, <1>10, <4>1, <4>2
        <5>2. /\ kept[j].id \in Nat /\ kept[j].id < next_id
              /\ kept[j].vector_id \in Nat /\ kept[j].vector_id < v
          BY <1>9, <4>2
        <5>3. kept[j].id < next_id + i - 1 /\ kept[j].vector_id # v + i - 1
          BY <1>3, <1>4, <5>2
        <5> QED BY <5>1, <5>3
      <4>3. CASE \E h \in 1..n : j = m + h
        <5>1. PICK h \in 1..n : j = m + h
          BY <4>3
        <5>2. h < i
          BY <1>4, <1>7, <2>2, <4>1, <5>1
        <5>3. next_id + h - 1 < next_id + i - 1 /\ v + h - 1 # v + i - 1
          BY <1>3, <1>4, <5>2
        <5> QED BY <1>10, <4>1, <5>1, <5>3
      <4> QED BY <1>11, <4>2, <4>3
    <3> QED BY <1>11, <3>1, <3>2
  <2>3. \A j, k \in 1..m + n : j # k => rows'[j].vector_id # rows'[k].vector_id
    <3>1. \A j, k \in 1..m + n : j < k \/ k < j \/ j = k
      BY <1>4, <1>7
    <3> QED BY <2>2, <3>1
  <2> QED BY <1>7, <2>1, <2>2, <2>3 DEF Numbered
<1>13. Within(rows', index') /\ (InStep => Tells(rows', index'))
  <2>1. ASSUME NEW k \in 1..m
        PROVE  /\ rows'[k].vector_id < Len(index'.vectors)
               /\ InStep => /\ rows'[k].vector_id \notin index'.removed
                            /\ index'.vectors[rows'[k].vector_id + 1] = rows'[k].text
    <3>1. kept[k].vector_id + 1 \in 1..v
      BY <1>4, <1>9
    <3>2. kept[k].vector_id < v + n
      BY <1>4, <1>9
    <3>3. rows'[k] = kept[k] /\ Len(index'.vectors) = v + n
      BY <1>5, <1>7
    <3>4. index'.vectors[kept[k].vector_id + 1] = index.vectors[kept[k].vector_id + 1]
      BY <1>5, <3>1
    <3> QED BY <1>9, <3>2, <3>3, <3>4
  <2>2. ASSUME NEW i \in 1..n
        PROVE  /\ rows'[m + i].vector_id < Len(index'.vectors)
               /\ rows'[m + i].vector_id \notin index'.removed
               /\ index'.vectors[rows'[m + i].vector_id + 1] = rows'[m + i].text
    <3>1. rows'[m + i] = new[i] /\ new[i].vector_id = v + i - 1 /\ new[i].text = w.texts[i]
      BY <1>6, <1>7
    <3>2. v + i - 1 < v + n /\ v + i - 1 + 1 = v + i
      BY <1>4
    <3>3. v + i - 1 \notin gone
      BY <1>4, <1>8
    <3>4. v + i - 1 \notin index.removed
      <4>1. \A x \in index.removed : x < v
        BY <1>3 DEF Indexes, v
      <4> QED BY <1>4, <4>1
    <3> QED BY <1>5, <3>1, <3>2, <3>3, <3>4
  <2>3. \A k \in 1..m + n :
            /\ rows'[k].vector_id < Len(index'.vectors)
            /\ InStep => /\ rows'[k].vector_id \notin index'.removed
                         /\ index'.vectors[rows'[k].vector_id + 1] = rows'[k].text
    BY <1>11, <2>1, <2>2
  <2> QED BY <1>7, <2>3 DEF Within, Tells
<1>14. faults' = {} => Visible(index') \subseteq VectorIds(rows')
  <2> SUFFICES ASSUME faults' = {}, NEW x \in Visible(index') PROVE x \in VectorIds(rows')
    OBVIOUS
  <2>1. PICK i \in 1..v + n : x = i - 1 /\ x \notin index.removed /\ x \notin gone
    BY <1>4, <1>5 DEF Visible, Ids
  <2>2. \A k \in 1..m + n : rows'[k].vector_id \in VectorIds(rows')
    BY <1>7 DEF VectorIds
  <2>3. CASE i <= v
    <3>1. x \in Visible(index)
      <4>1. DOMAIN index.vectors = 1..v
        BY <1>4 DEF v
      <4>2. i \in 1..v
        BY <1>4, <2>3
      <4> QED BY <2>1, <4>1, <4>2 DEF Visible, Ids
    <3>2. PICK j \in DOMAIN rows : x = rows[j].vector_id
      BY <1>1, <1>3, <3>1 DEF VectorIds
    <3>3. PICK k \in 1..m : at[k] = j
      BY <1>2, <1>7, <2>1, <3>2
    <3>4. rows'[k].vector_id = x /\ k \in 1..m + n
      BY <1>2, <1>4, <1>7, <3>2, <3>3
    <3> QED BY <2>2, <3>4
  <2>4. CASE i > v
    <3>1. i - v \in 1..n /\ m + (i - v) \in 1..m + n /\ v + (i - v) - 1 = x
      BY <1>4, <1>7, <2>1, <2>4
    <3>2. rows'[m + (i - v)].vector_id = x
      BY <1>6, <1>7, <3>1
    <3> QED BY <2>2, <3>1, <3>2
  <2> QED BY <1>4, <2>1, <2>3, <2>4
<1>15. fts' = Indexed(rows')
  <2>1. fts' = Indexed(kept) \cup Indexed(new)
    BY <1>1, <1>2
  <2>2. DOMAIN new = 1..n
    BY <1>6
  <2>3. \A k \in 1..m : k \in 1..m + n
    BY <1>4, <1>7
  <2>4. \A i \in 1..n : m + i \in 1..m + n
    BY <1>4, <1>7
  <2>5. Indexed(kept) \subseteq Indexed(rows') /\ Indexed(new) \subseteq Indexed(rows')
    BY <1>7, <2>2, <2>3, <2>4 DEF Indexed
  <2>6. Indexed(rows') \subseteq Indexed(kept) \cup Indexed(new)
    <3>1. ASSUME NEW k \in 1..m + n
          PROVE  <<rows'[k].id, rows'[k].text>> \in Indexed(kept) \cup Indexed(new)
      <4>1. CASE k \in 1..m
        BY <1>7, <4>1 DEF Indexed
      <4>2. CASE \E i \in 1..n : k = m + i
        BY <1>7, <2>2, <4>2 DEF Indexed
      <4> QED BY <1>11, <4>1, <4>2
    <3> QED BY <1>7, <3>1 DEF Indexed
  <2> QED BY <2>1, <2>5, <2>6
<1>16. index' \in Indexes
  <2>1. \A x \in index.removed \cup gone : x \in Nat /\ x < v
    BY <1>3, <1>8 DEF Indexes, v
  <2>2. \A x \in index'.removed : x \in Nat /\ x < v + n
    BY <1>4, <1>5, <2>1
  <2>3. index' \in [vectors : Seq(Texts), removed : SUBSET Nat]
    BY <1>1, <1>4, <1>5, <1>8
  <2> QED BY <1>5, <2>2, <2>3 DEF Indexes
\* The file has no vector of a new row, if it has none the index does not have.
<1>17. ASSUME Tells(rows, file), Len(file.vectors) <= v PROVE Tells(rows', file)
  <2> DEFINE l == Len(file.vectors)
  <2>1. l \in Nat
    BY <1>3 DEF Indexes
  <2>2. ASSUME NEW k \in 1..m, rows'[k].vector_id < l
        PROVE  /\ rows'[k].vector_id \notin file.removed
               /\ file.vectors[rows'[k].vector_id + 1] = rows'[k].text
    <3>1. rows'[k] = rows[at[k]] /\ at[k] \in DOMAIN rows
      BY <1>2, <1>7
    <3> QED BY <1>17, <2>2, <3>1 DEF Tells
  <2>3. \A i \in 1..n : ~(rows'[m + i].vector_id < l)
    <3> HIDE DEF l
    <3>1. \A i \in 1..n : ~(v + i - 1 < l)
      BY <1>4, <1>17, <2>1 DEF l
    <3> QED BY <1>10, <3>1
  <2> QED BY <1>7, <1>11, <2>2, <2>3 DEF Tells
<1>18. file' \in Indexes /\ ("remapped" \in faults' => "index" \notin recorded') /\ FileInv'
  <2>1. flush_if_due(ok)
    BY DEF Ingest
  <2>2. Len(index.vectors) <= Len(index'.vectors)
    BY <1>4, <1>5 DEF v
  <2> QED BY <1>1, <1>13, <1>16, <1>17, <2>1, <2>2, FlushKeeps DEF v
<1>19. next_id' \in Nat
  BY <1>1, <1>3, <1>4
<1> QED BY <1>1, <1>7, <1>12, <1>13, <1>14, <1>15, <1>16, <1>18, <1>19 DEF DbInv, InStep

LEMMA IngestFailsKeeps ==
    ASSUME DbInv, NEW w \in Written, IngestFails(w) PROVE DbInv'
<1> DEFINE n == Len(w.texts)
           v == Len(index.vectors)
           vs == index.vectors
           ts == w.texts
           hidden == {v + i - 1 : i \in DOMAIN w.texts}
<1>1. /\ rows' = rows /\ next_id' = next_id /\ fts' = fts /\ file' = file
      /\ recorded' = recorded /\ faults' = faults
      /\ index' = [vectors |-> vs \o ts, removed |-> index.removed \cup hidden]
  BY DEF IngestFails
<1>2. /\ rows \in Seq(Rows) /\ next_id \in Nat /\ index \in Indexes /\ file \in Indexes
      /\ Numbered(rows, next_id) /\ Within(rows, index)
      /\ InStep => Tells(rows, index)
      /\ faults = {} => Visible(index) \subseteq VectorIds(rows)
      /\ "remapped" \in faults => "index" \notin recorded
      /\ FileInv /\ fts = Indexed(rows)
  BY DEF DbInv
<1>3. /\ vs \in Seq(Texts) /\ v \in Nat /\ index.removed \in SUBSET Nat
      /\ ts \in Seq(Texts) /\ n \in Nat
      /\ \A x \in index.removed : x < v
  BY <1>2 DEF Indexes, Written
<1>4. hidden = {v + i - 1 : i \in 1..n} /\ v = Len(vs) /\ n = Len(ts)
  <2>1. DOMAIN w.texts = 1..n
    BY <1>3
  <2> QED BY <2>1
<1>5. \A x \in hidden : x \in Nat /\ v <= x /\ x < v + n
  <2>1. v \in Nat /\ n \in Nat
    BY <1>3
  <2> HIDE DEF n, v
  <2>2. \A i \in 1..n : v + i - 1 \in Nat /\ v <= v + i - 1 /\ v + i - 1 < v + n
    BY <2>1
  <2> QED BY <1>4, <2>2
<1>6. vs = index.vectors /\ DOMAIN index.vectors = 1..v
  BY <1>3
<1> HIDE DEF n, v, vs, ts, hidden
<1>7. /\ index'.vectors \in Seq(Texts) /\ Len(index'.vectors) = v + n
      /\ \A i \in 1..v : index'.vectors[i] = vs[i]
      /\ index'.removed = index.removed \cup hidden
  <2>1. /\ vs \o ts \in Seq(Texts) /\ Len(vs \o ts) = Len(vs) + Len(ts)
        /\ \A i \in 1..Len(vs) : (vs \o ts)[i] = vs[i]
    BY <1>3, JoinedIs
  <2> QED BY <1>1, <1>4, <2>1
<1>8. index' \in Indexes
  <2>1. \A x \in index'.removed : x \in Nat /\ x < v + n
    BY <1>3, <1>5, <1>7
  <2>2. index' \in [vectors : Seq(Texts), removed : SUBSET Nat]
    BY <1>1, <1>3, <1>5, <1>7
  <2> QED BY <1>7, <2>1, <2>2 DEF Indexes
<1>9. FileInv'
  <2>1. Len(file.vectors) \in Nat
    BY <1>2 DEF Indexes
  <2>2. Len(file.vectors) <= v => Len(file.vectors) <= v + n
    BY <1>3, <2>1
  <2> QED BY <1>1, <1>2, <1>4, <1>6, <1>7, <2>2 DEF FileInv, Tells
<1>10. Within(rows, index') /\ (InStep => Tells(rows, index'))
  <2> SUFFICES ASSUME NEW i \in DOMAIN rows
               PROVE  /\ rows[i].vector_id < v + n
                      /\ InStep => /\ rows[i].vector_id \notin index.removed \cup hidden
                                   /\ index'.vectors[rows[i].vector_id + 1] = rows[i].text
    BY <1>7 DEF Within, Tells
  <2>4. rows[i].vector_id < v
    BY <1>2, <1>4, <1>6 DEF Within
  <2>1. InStep => /\ rows[i].vector_id \notin index.removed
                  /\ vs[rows[i].vector_id + 1] = rows[i].text
    BY <1>2, <1>4, <1>6, <2>4 DEF Tells
  <2>2. rows[i].vector_id \in Nat
    BY <1>2, RowsHaveFields
  <2> DEFINE x == rows[i].vector_id
  <2> HIDE DEF x
  <2>3. x \in Nat /\ x < v => x < v + n /\ x \notin hidden /\ x + 1 \in 1..v
    BY <1>3, <1>5
  <2> QED BY <1>7, <2>1, <2>2, <2>3, <2>4 DEF x
<1>11. Visible(index') \subseteq Visible(index)
  <2> SUFFICES ASSUME NEW x \in Visible(index') PROVE x \in Visible(index)
    OBVIOUS
  <2>1. PICK i \in 1..v + n : x = i - 1 /\ x \notin index.removed /\ x \notin hidden
    BY <1>3, <1>7 DEF Visible, Ids
  <2>2. i \in 1..v
    <3>1. i > v => i - v \in 1..n /\ v + (i - v) - 1 = x
      BY <1>3, <2>1
    <3>2. ~(i > v)
      BY <1>4, <2>1, <3>1
    <3> QED BY <1>3, <3>2
  <2> QED BY <1>6, <2>1, <2>2 DEF Visible, Ids
<1> QED BY <1>1, <1>2, <1>8, <1>9, <1>10, <1>11 DEF DbInv, InStep

LEMMA DeleteKeeps ==
    ASSUME DbInv, NEW source, NEW ok, Delete(source, ok) PROVE DbInv'
<1>1. PICK kept, words, gone :
        /\ Stays(kept, words, gone)
        /\ rows' = kept /\ fts' = words /\ next_id' = next_id /\ faults' = faults
        /\ index' = [index EXCEPT !.removed = @ \cup gone]
  <2>1. Stays(delete_source_rows(source).rows, delete_source_rows(source).fts, VectorsOf(source))
    BY OthersStay
  <2> QED BY <2>1 DEF Delete, VectorsOf
<1>2. PICK at :
        /\ kept \in Seq(Rows) /\ DOMAIN at = DOMAIN kept
        /\ \A k \in DOMAIN kept : at[k] \in DOMAIN rows /\ kept[k] = rows[at[k]]
        /\ \A i, j \in DOMAIN kept : i < j => at[i] < at[j]
        /\ \A k \in DOMAIN kept : kept[k].vector_id \notin gone
        /\ \A i \in DOMAIN rows : rows[i].vector_id \in gone \/ \E k \in DOMAIN kept : at[k] = i
        /\ gone \subseteq VectorIds(rows)
        /\ words = Indexed(kept)
  BY <1>1 DEF Stays
<1>3. /\ rows \in Seq(Rows) /\ next_id \in Nat /\ index \in Indexes /\ file \in Indexes
      /\ Numbered(rows, next_id) /\ Within(rows, index)
      /\ InStep => Tells(rows, index)
      /\ faults = {} => Visible(index) \subseteq VectorIds(rows)
  BY DEF DbInv
<1>4. index'.vectors = index.vectors /\ index'.removed = index.removed \cup gone
  BY <1>1, <1>3 DEF Indexes
<1>5. \A x \in gone : x \in Nat /\ x < Len(index.vectors)
  <2>1. \A i \in DOMAIN rows : rows[i].vector_id \in Nat /\ rows[i].vector_id < Len(index.vectors)
    BY <1>3, RowsHaveFields DEF Within
  <2> QED BY <1>2, <2>1 DEF VectorIds
<1>6. index' \in Indexes
  <2>1. \A x \in index'.removed : x \in Nat /\ x < Len(index'.vectors)
    BY <1>3, <1>4, <1>5 DEF Indexes
  <2>2. index' \in [vectors : Seq(Texts), removed : SUBSET Nat]
    BY <1>1, <1>3, <2>1 DEF Indexes
  <2> QED BY <2>1, <2>2 DEF Indexes
<1>8. Numbered(kept, next_id)
  <2>1. \A k \in DOMAIN kept : at[k] \in DOMAIN rows /\ at[k] \in Int /\ kept[k] = rows[at[k]]
    BY <1>2, <1>3
  <2>2. \A i, j \in DOMAIN kept : i # j => at[i] # at[j]
    <3>1. \A i, j \in DOMAIN kept : i < j \/ j < i \/ i = j
      BY <1>2
    <3> QED BY <1>2, <2>1, <3>1
  <2> QED BY <1>2, <1>3, <2>1, <2>2 DEF Numbered
<1>9. Within(kept, index') /\ (InStep => Tells(kept, index'))
  BY <1>2, <1>3, <1>4 DEF Within, Tells
<1>7. file' \in Indexes /\ ("remapped" \in faults' => "index" \notin recorded') /\ FileInv'
  <2>1. flush_if_due(ok)
    BY DEF Delete
  <2>2. Tells(rows, file) => Tells(rows', file)
    BY <1>1, <1>2 DEF Tells
  <2>3. Len(index.vectors) <= Len(index'.vectors)
    <3>1. Len(index.vectors) \in Nat
      BY <1>3 DEF Indexes
    <3> QED BY <1>4, <3>1
  <2> QED BY <1>1, <1>6, <1>9, <2>1, <2>2, <2>3, FlushKeeps
<1>10. faults' = {} => Visible(index') \subseteq VectorIds(rows')
  <2> SUFFICES ASSUME faults' = {}, NEW x \in Visible(index') PROVE x \in VectorIds(kept)
    BY <1>1
  <2>1. x \in Visible(index) /\ x \notin gone
    BY <1>4 DEF Visible, Ids
  <2>2. PICK i \in DOMAIN rows : x = rows[i].vector_id
    BY <1>1, <1>3, <2>1 DEF VectorIds
  <2>3. PICK k \in DOMAIN kept : at[k] = i
    BY <1>2, <2>1, <2>2
  <2> QED BY <1>2, <2>2, <2>3 DEF VectorIds
<1> QED BY <1>1, <1>2, <1>3, <1>6, <1>7, <1>8, <1>9, <1>10 DEF DbInv, InStep

\* What a rebuild makes of the rows, and of the vectors.
LEMMA RebuiltIs ==
    ASSUME DbInv
    PROVE  /\ Renumbered(rows) \in Seq(Rows) /\ Numbered(Renumbered(rows), next_id)
           /\ Indexed(Renumbered(rows)) = fts
           /\ IndexOf(rows) \in Indexes /\ Len(IndexOf(rows).vectors) = Len(rows)
           /\ Within(Renumbered(rows), IndexOf(rows)) /\ Tells(Renumbered(rows), IndexOf(rows))
           /\ Visible(IndexOf(rows)) \subseteq VectorIds(Renumbered(rows))
<1> DEFINE n == Len(rows)
           vs == [i \in 1..n |-> rows[i].text]
           new == Renumbered(rows)
           ix == IndexOf(rows)
<1>1. /\ rows \in Seq(Rows) /\ next_id \in Nat /\ n \in Nat /\ DOMAIN rows = 1..n
      /\ Numbered(rows, next_id) /\ fts = Indexed(rows)
  BY DEF DbInv
<1>2. /\ new = [i \in 1..n |-> [rows[i] EXCEPT !.vector_id = i - 1]]
      /\ ix = [vectors |-> vs, removed |-> {}]
  BY <1>1 DEF Renumbered, IndexOf
<1>3. \A i \in 1..n : rows[i] \in Rows /\ rows[i].text \in Texts
  BY <1>1, RowsHaveFields
<1> HIDE DEF n, new, ix
<1>4. vs \in Seq(Texts) /\ Len(vs) = n /\ DOMAIN vs = 1..n /\ \A i \in 1..n : vs[i] = rows[i].text
  BY <1>1, <1>3
<1>5. ASSUME NEW i \in 1..n
      PROVE  /\ new[i] \in Rows /\ new[i].vector_id = i - 1
             /\ new[i].id = rows[i].id /\ new[i].text = rows[i].text
  <2>1. rows[i] \in Rows /\ i - 1 \in Nat
    BY <1>1, <1>3
  <2>2. new[i] = [rows[i] EXCEPT !.vector_id = i - 1]
    BY <1>2
  <2> QED BY <2>1, <2>2 DEF Rows
<1>6. new \in Seq(Rows) /\ DOMAIN new = 1..n
  <2>1. DOMAIN new = 1..n /\ \A i \in 1..n : new[i] \in Rows
    BY <1>2, <1>5
  <2>2. new = [i \in 1..n |-> new[i]]
    BY <1>2
  <2> QED BY <1>1, <2>1, <2>2
<1> HIDE DEF vs
<1>7. ix.vectors = vs /\ ix.removed = {} /\ ix \in Indexes
  BY <1>2, <1>4 DEF Indexes
<1>8. Numbered(new, next_id)
  <2>1. \A i \in 1..n : new[i].id = rows[i].id /\ new[i].vector_id = i - 1
    BY <1>5
  <2>2. \A i, j \in 1..n : i # j => i - 1 # j - 1
    BY <1>1
  <2>3. /\ \A i \in 1..n : rows[i].id < next_id
        /\ \A i, j \in 1..n : i < j => rows[i].id < rows[j].id
    BY <1>1 DEF Numbered
  <2>4. \A i, j \in 1..n : i # j => new[i].vector_id # new[j].vector_id
    BY <2>1, <2>2
  <2> QED BY <1>6, <2>1, <2>3, <2>4 DEF Numbered
<1>9. Within(new, ix) /\ Tells(new, ix)
  <2>1. \A i \in 1..n : i - 1 < n /\ (i - 1) + 1 = i
    BY <1>1
  <2>2. Len(ix.vectors) = n /\ \A i \in 1..n : ix.vectors[i] = rows[i].text
    BY <1>4, <1>7
  <2>3. \A i \in 1..n : new[i].vector_id = i - 1 /\ new[i].text = rows[i].text
    BY <1>5
  <2>4. \A i \in 1..n : /\ new[i].vector_id < Len(ix.vectors)
                        /\ ix.vectors[new[i].vector_id + 1] = new[i].text
    BY <2>1, <2>2, <2>3
  <2> QED BY <1>6, <1>7, <2>4 DEF Within, Tells
<1>10. Visible(ix) \subseteq VectorIds(new)
  BY <1>4, <1>5, <1>6, <1>7 DEF Visible, Ids, VectorIds
<1>11. fts = Indexed(new)
  BY <1>1, <1>5, <1>6 DEF Indexed
<1> QED BY <1>4, <1>6, <1>7, <1>8, <1>9, <1>10, <1>11 DEF n, new, ix

\* Rows of different vectors are no more than there are vectors.
LEMMA NoMoreRows == ASSUME DbInv PROVE Len(rows) <= Len(index.vectors)
<1> DEFINE n == Len(rows)
           l == Len(index.vectors)
           f == [i \in 1..n |-> rows[i].vector_id + 1]
<1>1. n \in Nat /\ l \in Nat /\ DOMAIN rows = 1..n
  BY DEF DbInv, Indexes
<1>2. \A i \in 1..n : rows[i].vector_id \in Nat /\ rows[i].vector_id < l
  BY <1>1, RowsHaveFields DEF DbInv, Within
<1>3. \A i, j \in 1..n : i # j => rows[i].vector_id # rows[j].vector_id
  BY <1>1 DEF DbInv, Numbered
<1> HIDE DEF n, l
<1>4. f \in [1..n -> 1..l]
  BY <1>1, <1>2
<1>5. \A i, j \in 1..n : f[i] = f[j] => i = j
  BY <1>2, <1>3
<1> HIDE DEF f
<1>6. f \in Injection(1..n, 1..l)
  BY <1>4, <1>5 DEF Injection, IsInjective
<1>7. /\ IsFiniteSet(1..n) /\ Cardinality(1..n) = n
      /\ IsFiniteSet(1..l) /\ Cardinality(1..l) = l
  BY <1>1, FS_Interval
<1>8. Cardinality(1..n) <= Cardinality(1..l)
  BY <1>6, <1>7, FS_Injection
<1> QED BY <1>7, <1>8 DEF n, l

LEMMA RebuildKeeps == ASSUME DbInv, Rebuild PROVE DbInv'
<1>1. /\ rows' = Renumbered(rows) /\ index' = IndexOf(rows) /\ file' = index'
      /\ faults' = {} /\ next_id' = next_id /\ fts' = fts
  BY DEF Rebuild
<1>2. Len(index'.vectors) \in Nat /\ next_id \in Nat
  BY <1>1, RebuiltIs DEF Indexes, DbInv
<1> QED BY <1>1, <1>2, RebuiltIs DEF DbInv, FileInv

LEMMA RebuildFailsToRemapKeeps == ASSUME DbInv, RebuildFailsToRemap PROVE DbInv'
<1>1. /\ file' = IndexOf(rows) /\ recorded' = recorded \ {"file"}
      /\ UNCHANGED <<rows, next_id, fts, index, faults>>
  BY DEF RebuildFailsToRemap
<1>2. FileInv' /\ file' \in Indexes
  BY <1>1, RebuiltIs DEF FileInv
<1> QED BY <1>1, <1>2 DEF DbInv, Numbered, Within, Tells, InStep, Visible, Ids, VectorIds, Indexed

\* The handle's index has room for the new ids, and is no longer the recorded one.
LEMMA RebuildFailsToRecordKeeps == ASSUME DbInv, RebuildFailsToRecord PROVE DbInv'
<1>1. /\ rows' = Renumbered(rows) /\ file' = IndexOf(rows) /\ recorded' = {"file"}
      /\ faults' = {"remapped"} /\ UNCHANGED <<next_id, fts, index>>
  BY DEF RebuildFailsToRecord
<1>2. Len(file'.vectors) <= Len(index'.vectors)
  BY <1>1, NoMoreRows, RebuiltIs
<1>3. Within(rows', index')
  <2>1. \A i \in DOMAIN rows' : rows'[i].vector_id < Len(file'.vectors)
    BY <1>1, RebuiltIs DEF Within
  <2>2. \A i \in DOMAIN rows' : rows'[i].vector_id \in Nat
    BY <1>1, RebuiltIs, RowsHaveFields
  <2>3. Len(file'.vectors) \in Nat /\ Len(index'.vectors) \in Nat
    BY <1>1, RebuiltIs DEF DbInv, Indexes
  <2> QED BY <1>2, <2>1, <2>2, <2>3 DEF Within
<1>4. FileInv'
  BY <1>1, <1>2, RebuiltIs DEF FileInv
<1>5. ~InStep' /\ faults' # {} /\ "index" \notin recorded'
  BY <1>1 DEF InStep
<1>6. next_id \in Nat /\ index \in Indexes
  BY DEF DbInv
<1> QED BY <1>1, <1>3, <1>4, <1>5, <1>6, RebuiltIs DEF DbInv

LEMMA OpenCurrentKeeps ==
    ASSUME DbInv, NEW disk \in Indexes, OpenCurrent(disk), file' = disk, Within(rows, disk),
           "shadowed" \notin faults => Tells(rows, disk)
    PROVE  DbInv'
<1>1. /\ index' = disk /\ file' = disk /\ UNCHANGED <<rows, next_id, fts>>
      /\ faults' = (faults \cap {"shadowed"})
                      \cup (IF Visible(disk) = VectorIds(rows) THEN {} ELSE {"lost"})
  BY DEF OpenCurrent
<1>2. /\ "shadowed" \in faults' <=> "shadowed" \in faults
      /\ "remapped" \notin faults'
      /\ faults' = {} => Visible(disk) = VectorIds(rows)
  BY <1>1
<1>3. InStep' => Tells(rows', index')
  <2>1. InStep' => "shadowed" \notin faults
    BY <1>2 DEF InStep
  <2> QED BY <1>1, <2>1
<1>4. FileInv'
  <2>1. Len(disk.vectors) \in Nat
    BY DEF Indexes
  <2> QED BY <1>1, <1>2, <2>1 DEF FileInv
<1>5. /\ rows \in Seq(Rows) /\ next_id \in Nat /\ Numbered(rows, next_id) /\ fts = Indexed(rows)
  BY DEF DbInv
<1> QED BY <1>1, <1>2, <1>3, <1>4, <1>5 DEF DbInv

LEMMA OpenFreshKeeps ==
    ASSUME DbInv, NEW disk \in Indexes, NEW same_epoch, OpenFresh(disk, same_epoch), file' = disk,
           rows = <<>>
    PROVE  DbInv'
<1>1. /\ index' = NoIndex /\ UNCHANGED <<rows, next_id, fts>> /\ DOMAIN rows = {}
      /\ recorded' = IF same_epoch THEN {"file"} ELSE {}
      /\ faults' = IF same_epoch /\ disk.vectors # <<>> THEN {"shadowed"} ELSE {}
  BY DEF OpenFresh
<1>2. NoIndex \in Indexes /\ NoIndex.vectors = <<>> /\ Len(NoIndex.vectors) = 0 /\ Visible(NoIndex) = {}
  BY DEF NoIndex, Indexes, Visible, Ids
<1>3. FileInv'
  <2>1. "file" \in recorded' /\ "shadowed" \notin faults' => disk.vectors = <<>>
    BY <1>1
  <2>2. disk.vectors = <<>> => Len(disk.vectors) = 0
    OBVIOUS
  <2> QED BY <1>1, <1>2, <2>1, <2>2 DEF FileInv, Tells
<1>4. /\ rows \in Seq(Rows) /\ next_id \in Nat /\ Numbered(rows, next_id) /\ fts = Indexed(rows)
  BY DEF DbInv
<1>5. "remapped" \notin faults'
  BY <1>1
<1> QED BY <1>1, <1>2, <1>3, <1>4, <1>5 DEF DbInv, Within, Tells

LEMMA ReopenKeeps ==
    ASSUME DbInv, NEW disk, NEW same_epoch, Reopen(disk, same_epoch),
           \/ disk = file /\ same_epoch = ("file" \in recorded)
           \/ disk = index /\ same_epoch = ("index" \in recorded)
    PROVE  DbInv'
<1>1. disk \in Indexes
  BY DEF DbInv
<1>2. PICK readable \in BOOLEAN :
        IF index_is_current(disk, same_epoch, readable)
        THEN OpenCurrent(disk) /\ file' = disk
        ELSE IF rows = <<>> THEN OpenFresh(disk, same_epoch) /\ file' = disk
        ELSE Rebuild
  BY DEF Reopen
<1>3. CASE index_is_current(disk, same_epoch, readable)
  <2>1. Within(rows, disk) /\ same_epoch
    BY <1>3 DEF index_is_current, Within, VectorIds
  <2>2. ASSUME "shadowed" \notin faults PROVE Tells(rows, disk)
    <3>1. CASE disk = file /\ "file" \in recorded
      BY <2>2, <3>1 DEF DbInv, FileInv
    <3>2. CASE disk = index /\ "index" \in recorded
      <4>1. InStep
        BY <2>2, <3>2 DEF DbInv, InStep
      <4> QED BY <3>2, <4>1 DEF DbInv
    <3> QED BY <2>1, <3>1, <3>2
  <2> QED BY <1>1, <1>2, <1>3, <2>1, <2>2, OpenCurrentKeeps
<1>4. CASE ~index_is_current(disk, same_epoch, readable) /\ rows = <<>>
  BY <1>1, <1>2, <1>4, OpenFreshKeeps
<1>5. CASE ~index_is_current(disk, same_epoch, readable) /\ rows # <<>>
  BY <1>2, <1>5, RebuildKeeps
<1> QED BY <1>3, <1>4, <1>5

(* An answer is one that the stores give. *)

\* The answers that a property is about: all but those of eval_cases.
Checked == Reads \ {"eval_cases"}

ServeInv ==
    /\ DbInv
    /\ host \in Hosts
    /\ request # None => request \in Requests[host]
    /\ Answered(Checked) => reply.results \in Results(Asked)

\* While the stores stay, so does what they answer.
LEMMA ResultsStay ==
    ASSUME UNCHANGED db, NEW c, c.op \in Checked PROVE Results(c)' = Results(c)
<1> USE DEF db
<1>1. ASSUME NEW s PROVE resolve(s)' = resolve(s)
  BY DEF resolve, VectorIds, SelectInSeq
<1>2. ASSUME NEW k PROVE query(k)' = query(k)
  BY <1>1 DEF query
<1>3. ASSUME NEW k, NEW f PROVE query_filtered(k, f)' = query_filtered(k, f)
  BY <1>2 DEF query_filtered
<1>4. ASSUME NEW k, NEW w PROVE query_diverse(k, w)' = query_diverse(k, w)
  BY <1>1 DEF query_diverse
<1>5. ASSUME NEW k, NEW n PROVE query_reranked(k, n)' = query_reranked(k, n)
  BY <1>2 DEF query_reranked
<1>6. ASSUME NEW id, NEW n PROVE neighbors(id, n)' = neighbors(id, n)
  BY DEF neighbors, get_neighbors, SelectInSeq, neighbor_rows, Siblings
<1>7. check' = check /\ stats' = stats
  BY DEF check, VectorIds, stats
<1>8. ASSUME NEW k PROVE bm25_search(k)' = bm25_search(k)
  BY DEF bm25_search, Bm25Matches, OrdersBy
<1>9. ASSUME NEW k, NEW w PROVE query_hybrid(k, w)' = query_hybrid(k, w)
  BY <1>1, <1>8 DEF query_hybrid
<1> QED BY <1>2, <1>3, <1>4, <1>5, <1>6, <1>7, <1>9 DEF Results, Checked, Reads, ModelCalls

LEMMA DbStays == ASSUME DbInv, UNCHANGED db PROVE DbInv'
BY DEF db, DbInv, Numbered, Within, Tells, InStep, FileInv, Visible, Ids, VectorIds, Indexed

\* What a request is answered with.
LEMMA RequestsAreKept ==
    ASSUME NEW r \in Requests[host], NEW status, NEW results, Replies(r, status, results)
    PROVE  /\ host' = host /\ request' = r /\ request' \in Requests[host']
           /\ reply'.status = status /\ reply'.results = results
           /\ Asked' = IF r = None THEN [op |-> "none"] ELSE CallOf(r)
BY DEF Replies, Asked, CallOf

LEMMA OpensOk == Opens => ServeInv
<1> SUFFICES ASSUME Opens PROVE ServeInv
  OBVIOUS
<1>1. host \in Hosts /\ request = None /\ Asked = [op |-> "none"]
  BY DEF Opens, Asked
<1>2. ~Answered(Checked)
  BY <1>1 DEF Answered, Checked, Reads, ModelCalls
<1> QED BY <1>1, <1>2, InitOk DEF Opens, ServeInv

LEMMA ServeStep == ServeInv /\ [Next]_vars => ServeInv'
<1> SUFFICES ASSUME ServeInv, [Next]_vars PROVE ServeInv'
  OBVIOUS
<1>1. DbInv /\ host \in Hosts
  BY DEF ServeInv
\* A request that is answered with nothing, or that is no question.
<1>2. ASSUME NEW r \in Requests[host], NEW status, NEW results, Replies(r, status, results),
             status # 200 \/ CallOf(r).op \notin Checked, DbInv'
      PROVE  ServeInv'
  <2>1. /\ host' = host /\ request' \in Requests[host'] /\ reply'.status = status
        /\ Asked' = IF r = None THEN [op |-> "none"] ELSE CallOf(r)
    BY <1>2, RequestsAreKept
  <2>2. ~Answered(Checked)'
    BY <1>2, <2>1 DEF Answered, Checked, Reads, ModelCalls
  <2> QED BY <1>1, <1>2, <2>1, <2>2 DEF ServeInv
\* No request.
<1>3. ASSUME request' = None, host' \in Hosts, DbInv' PROVE ServeInv'
  <2>1. ~Answered(Checked)'
    BY <1>3 DEF Answered, Asked, Checked, Reads, ModelCalls
  <2> QED BY <1>3, <2>1 DEF ServeInv
<1>4. CASE UNCHANGED vars
  <2>1. /\ UNCHANGED db /\ host' = host /\ request' = request /\ reply' = reply
    BY <1>4 DEF vars, db
  <2>2. Asked' = Asked
    BY <2>1 DEF Asked, CallOf
  <2>3. Answered(Checked)' => Answered(Checked) /\ Results(Asked)' = Results(Asked)
    BY <2>1, <2>2, ResultsStay DEF Answered
  <2> QED BY <1>1, <2>1, <2>2, <2>3, DbStays DEF ServeInv
<1>5. CASE Answers
  <2>6. PICK r \in Requests[host] :
            /\ Asks(Reads, r) /\ UNCHANGED db
            /\ \E results \in Results(CallOf(r)) : Replies(r, 200, results)
    BY <1>5 DEF Answers
  <2>1. PICK results \in Results(CallOf(r)) : Replies(r, 200, results)
    BY <2>6
  <2>2. DbInv'
    BY <1>1, <2>6, DbStays
  <2>3. CASE CallOf(r).op \in Checked
    <3>5. \A c : UNCHANGED db /\ c.op \in Checked => Results(c)' = Results(c)
      BY ResultsStay
    <3>1. PICK c : c = CallOf(r) /\ c.op \in Checked /\ Results(c)' = Results(c)
      BY <2>6, <2>3, <3>5
    <3>2. /\ host' = host /\ request' \in Requests[host'] /\ request' = r
          /\ reply'.results = results /\ Asked' = IF r = None THEN [op |-> "none"] ELSE CallOf(r)
      BY <2>1, RequestsAreKept
    <3>3. CallOf(r)' = CallOf(r)
      BY <3>2 DEF CallOf
    <3>4. Answered(Checked)' => r # None
      BY <3>2 DEF Answered, Checked, Reads, ModelCalls
    <3> QED BY <1>1, <2>1, <2>2, <3>1, <3>2, <3>3, <3>4 DEF ServeInv
  <2>4. CASE CallOf(r).op \notin Checked
    BY <1>2, <2>1, <2>2, <2>4
  <2> QED BY <2>3, <2>4
<1>6. CASE CallFails \/ Refuses \/ AddsNothing
  <2>1. PICK r \in Requests[host] :
            /\ UNCHANGED db
            /\ \E status, results : /\ Replies(r, status, results)
                                    /\ status # 200 \/ CallOf(r).op \notin Checked
    BY <1>6 DEF CallFails, Refuses, AddsNothing, Asks, Checked, Reads, ModelCalls
  <2> QED BY <1>1, <1>2, <2>1, DbStays
<1>7. CASE Adds
  <2>1. PICK r \in Requests[host], ok \in BOOLEAN :
            /\ CallOf(r).op = "add" /\ Ingest(CallOf(r).w, ok)
            /\ Replies(r, IF ok THEN 200 ELSE 500, <<>>)
    BY <1>7 DEF Adds, Asks
  <2>2. CallOf(r).w \in Written
    BY <1>1, <2>1, RequestsAreCalls DEF IsCallOf
  <2> QED BY <1>1, <1>2, <2>1, <2>2, IngestKeeps DEF Checked, Reads, ModelCalls
<1>8. CASE AddFails
  <2>1. PICK r \in Requests[host] :
            /\ CallOf(r).op = "add" /\ IngestFails(CallOf(r).w) /\ Replies(r, 500, <<>>)
    BY <1>8 DEF AddFails, Asks
  <2>2. CallOf(r).w \in Written
    BY <1>1, <2>1, RequestsAreCalls DEF IsCallOf
  <2> QED BY <1>1, <1>2, <2>1, <2>2, IngestFailsKeeps
<1>9. CASE Deletes
  <2>1. PICK r \in Requests[host], ok \in BOOLEAN :
            /\ CallOf(r).op = "delete" /\ Delete(CallOf(r).source, ok)
            /\ Replies(r, IF ok THEN 200 ELSE 500, <<>>)
    BY <1>9 DEF Deletes, Asks
  <2> QED BY <1>1, <1>2, <2>1, DeleteKeeps DEF Checked, Reads, ModelCalls
<1>10. CASE Rebuilds
  <2>1. PICK r \in Requests[host] : CallOf(r).op = "rebuild" /\ Rebuild /\ Replies(r, 200, <<>>)
    BY <1>10 DEF Rebuilds, Asks
  <2> QED BY <1>1, <1>2, <2>1, RebuildKeeps DEF Checked, Reads, ModelCalls
<1>13. CASE RebuildStops
  <2>1. PICK r \in Requests[host] :
            (RebuildFailsToRemap \/ RebuildFailsToRecord) /\ Replies(r, 500, <<>>)
    BY <1>13 DEF RebuildStops
  <2>2. DbInv'
    BY <1>1, <2>1, RebuildFailsToRemapKeeps, RebuildFailsToRecordKeeps
  <2> QED BY <1>2, <2>1, <2>2
<1>11. CASE Waits
  BY <1>1, <1>3, <1>11, DbStays DEF Waits
<1>12. CASE Restarts \/ Crashes \/ Ends
  <2>1. NextProcess /\ (Reopen(index, "index" \in recorded) \/ Reopen(file, "file" \in recorded))
    BY <1>12 DEF Restarts, Crashes, Ends, CloseAndOpen, CrashAndOpen
  <2> QED BY <1>1, <1>3, <2>1, ReopenKeeps DEF NextProcess
<1> QED BY <1>4, <1>5, <1>6, <1>7, <1>8, <1>9, <1>10, <1>11, <1>12, <1>13 DEF Next

\* After every write, failed write, failed rebuild, crash and open: the keywords are those of
\* the rows, each row has a vector, and it is that of its text unless the rows have moved to
\* other ids or a file was left aside; a file at the recorded epoch tells no lie of the rows;
\* and what was answered is what the stores give. The invariant of the calls of raglite.rs
\* behind serve.rs, mcp.rs and the command line.
THEOREM Invariance == Spec => []ServeInv
BY OpensOk, ServeStep, PTL DEF Spec

-----------------------------------------------------------------------------
(* What an answer is worth follows from the two. *)

(* Parts of sequences. *)

LEMMA TruncateIs ==
    ASSUME NEW S, NEW s \in Seq(S), NEW n \in Nat
    PROVE  /\ Truncate(s, n) \in Seq(S)
           /\ Len(Truncate(s, n)) = IF n < Len(s) THEN n ELSE Len(s)
           /\ DOMAIN Truncate(s, n) = 1..Len(Truncate(s, n))
           /\ \A i \in DOMAIN Truncate(s, n) : i \in DOMAIN s /\ Truncate(s, n)[i] = s[i]
<1> DEFINE m == IF n < Len(s) THEN n ELSE Len(s)
<1>1. m \in Nat /\ m <= Len(s) /\ Truncate(s, n) = SubSeq(s, 1, m)
  BY DEF Truncate
<1> HIDE DEF m
<1>2. SubSeq(s, 1, m) \in Seq(S) /\ Len(SubSeq(s, 1, m)) = m /\ \A i \in 1..m : SubSeq(s, 1, m)[i] = s[i]
  BY <1>1
<1> QED BY <1>1, <1>2 DEF m

(* The nearest vectors. *)

\* What a search for the k nearest gives.
Nearest(ix, k, ids) ==
    /\ ids \in Seq(Visible(ix)) /\ Len(ids) <= k
    /\ \A i, j \in DOMAIN ids : i < j => <<ids[i], ids[j]>> \in Nearer(ix)
    /\ \A x \in Visible(ix) :
           \/ \E i \in DOMAIN ids : ids[i] = x
           \/ Len(ids) = k /\ \A i \in DOMAIN ids : <<ids[i], x>> \in Nearer(ix)

LEMMA IdsAre ==
    ASSUME NEW ix \in Indexes
    PROVE  /\ Ids(ix) = {x \in Nat : x < Len(ix.vectors)} /\ IsFiniteSet(Ids(ix))
           /\ \A x \in Ids(ix) : /\ x \in Nat /\ x < Len(ix.vectors)
                                 /\ ix.vectors[x + 1] \in Texts /\ Similarity(ix, x) \in Int
<1> DEFINE n == Len(ix.vectors)
<1>1. ix.vectors \in Seq(Texts) /\ n \in Nat /\ DOMAIN ix.vectors = 1..n
  BY DEF Indexes
<1> HIDE DEF n
<1>2. Ids(ix) = {x \in Nat : x < n}
  <2>1. Ids(ix) = {i - 1 : i \in 1..n}
    BY <1>1 DEF Ids
  <2>2. \A x \in Nat : x < n => x + 1 \in 1..n /\ (x + 1) - 1 = x
    BY <1>1
  <2>3. \A i \in 1..n : i - 1 \in Nat /\ i - 1 < n
    BY <1>1
  <2>4. {x \in Nat : x < n} \subseteq {i - 1 : i \in 1..n}
    BY <2>2
  <2>5. {i - 1 : i \in 1..n} \subseteq {x \in Nat : x < n}
    BY <2>3
  <2> QED BY <2>1, <2>4, <2>5
<1>3. IsFiniteSet(Ids(ix))
  <2>1. IsFiniteSet(0..n) /\ Ids(ix) \subseteq 0..n
    BY <1>1, <1>2, FS_Interval
  <2> QED BY <2>1, FS_Subset
<1>4. ASSUME NEW x \in Ids(ix)
      PROVE  x \in Nat /\ x < n /\ ix.vectors[x + 1] \in Texts /\ Similarity(ix, x) \in Int
  <2>1. x \in Nat /\ x < n /\ x + 1 \in 1..n
    BY <1>1, <1>2
  <2>2. ix.vectors[x + 1] \in Texts
    BY <1>1, <2>1
  <2> QED BY <2>1, <2>2, TextsAssumption DEF Similarity
<1> QED BY <1>2, <1>3, <1>4 DEF n

LEMMA NearerOrders == ASSUME NEW ix \in Indexes PROVE Orders(Ids(ix), Nearer(ix))
<1>1. IsFiniteSet(Ids(ix)) /\ \A x \in Ids(ix) : x \in Nat /\ Similarity(ix, x) \in Int
  BY IdsAre
<1>2. \A x, y \in Ids(ix) : <<x, y>> \in Nearer(ix) <=>
          \/ Similarity(ix, x) > Similarity(ix, y)
          \/ Similarity(ix, x) = Similarity(ix, y) /\ x < y
  BY DEF Nearer
<1>3. \A x \in Ids(ix) : <<x, x>> \notin Nearer(ix)
  BY <1>1, <1>2
<1>4. \A x, y \in Ids(ix) : x # y => <<x, y>> \in Nearer(ix) \/ <<y, x>> \in Nearer(ix)
  BY <1>1, <1>2
<1>5. \A x, y, z \in Ids(ix) :
          <<x, y>> \in Nearer(ix) /\ <<y, z>> \in Nearer(ix) => <<x, z>> \in Nearer(ix)
  BY <1>1, <1>2
<1> QED BY <1>1, <1>3, <1>4, <1>5 DEF Orders

LEMMA SearchIs ==
    ASSUME NEW ix \in Indexes, NEW k \in Nat PROVE Nearest(ix, k, search(ix, k))
<1> DEFINE all == ByDistance(ix)
           n == Cardinality(Ids(ix))
           places == {i \in DOMAIN all : all[i] \notin ix.removed}
           live == Unremoved(ix, all)
           ids == search(ix, k)
<1>1. Enumerates(Ids(ix), Nearer(ix), all) /\ n \in Nat
  BY NearerOrders, InOrderLists DEF ByDistance
<1>2. live = At(all, places) /\ ids = Truncate(live, k)
  BY DEF Unremoved, search
<1> HIDE DEF all, n, places, live, ids
<1>3. /\ all \in Seq(Ids(ix)) /\ DOMAIN all = 1..n
      /\ \A x \in Ids(ix) : \E i \in DOMAIN all : all[i] = x
      /\ \A i, j \in DOMAIN all : i < j => <<all[i], all[j]>> \in Nearer(ix)
  BY <1>1 DEF Enumerates, n
<1>4. places \in SUBSET (DOMAIN all)
  BY DEF places
<1>5. PICK at : Keeps(all, places, live, at)
  BY <1>2, <1>3, <1>4, AtIs
<1>6. live \in Seq(Ids(ix))
  BY <1>2, <1>3, <1>4, AtIs
<1>7. /\ DOMAIN at = DOMAIN live
      /\ \A i \in DOMAIN live : at[i] \in places /\ live[i] = all[at[i]]
      /\ \A x \in places : \E i \in DOMAIN live : at[i] = x
      /\ \A i, j \in DOMAIN live : i < j => at[i] < at[j]
  BY <1>5 DEF Keeps
<1>8. \A i \in DOMAIN live : live[i] \in Visible(ix)
  <2>1. \A i \in DOMAIN all : all[i] \in Ids(ix)
    BY <1>1, <1>3 DEF Enumerates, n
  <2>2. \A i \in places : i \in DOMAIN all /\ all[i] \notin ix.removed
    BY DEF places
  <2> QED BY <1>7, <2>1, <2>2 DEF Visible
<1>9. \A x \in Visible(ix) : \E i \in DOMAIN live : live[i] = x
  BY <1>3, <1>7 DEF places, Visible
<1>10. \A i, j \in DOMAIN live : i < j => <<live[i], live[j]>> \in Nearer(ix)
  BY <1>3, <1>4, <1>7
<1>11. live \in Seq(Visible(ix)) /\ Len(live) \in Nat /\ DOMAIN live = 1..Len(live)
  BY <1>6, <1>8
<1>12. /\ ids \in Seq(Visible(ix)) /\ Len(ids) = IF k < Len(live) THEN k ELSE Len(live)
       /\ DOMAIN ids = 1..Len(ids) /\ \A i \in DOMAIN ids : i \in DOMAIN live /\ ids[i] = live[i]
  BY <1>2, <1>11, TruncateIs
<1>13. \A i, j \in DOMAIN ids : i < j => <<ids[i], ids[j]>> \in Nearer(ix)
  BY <1>10, <1>12
<1>14. ASSUME NEW x \in Visible(ix)
       PROVE  \/ \E i \in DOMAIN ids : ids[i] = x
              \/ Len(ids) = k /\ \A i \in DOMAIN ids : <<ids[i], x>> \in Nearer(ix)
  <2>1. PICK j \in DOMAIN live : live[j] = x
    BY <1>9
  <2>2. CASE j \in DOMAIN ids
    BY <1>12, <2>1, <2>2
  <2>3. CASE j \notin DOMAIN ids
    <3>1. Len(ids) = k /\ \A i \in DOMAIN ids : i < j
      <4> DEFINE l == Len(live)
                 m == Len(ids)
      <4>1. l \in Nat /\ j \in 1..l /\ m = (IF k < l THEN k ELSE l) /\ j \notin 1..m
        BY <1>11, <1>12, <2>1, <2>3
      <4>2. DOMAIN ids = 1..m
        BY <1>12
      <4> HIDE DEF l, m
      <4>3. m = k /\ \A i \in 1..m : i < j
        BY <4>1
      <4> QED BY <4>2, <4>3 DEF m
    <3> QED BY <1>10, <1>12, <2>1, <3>1
  <2> QED BY <2>2, <2>3
<1>15. Len(ids) <= k
  BY <1>11, <1>12
<1>16. Nearest(ix, k, ids)
  BY <1>12, <1>13, <1>14, <1>15 DEF Nearest
<1> QED BY <1>16 DEF ids


(* The rows of ids. *)

Hits(S) == [row : ToSet(rows), score : S]

\* What resolve makes of scored ids: `from` says where each hit was.
Resolves(S, scored, hits) ==
    \E from :
        /\ hits \in Seq(Hits(S)) /\ DOMAIN from = DOMAIN hits /\ Len(hits) <= Len(scored)
        /\ \A i \in DOMAIN hits : /\ from[i] \in DOMAIN scored
                                  /\ hits[i].row \in ToSet(rows)
                                  /\ hits[i].row.vector_id = scored[from[i]].id
                                  /\ hits[i].score = scored[from[i]].score
        /\ \A i, j \in DOMAIN hits : i < j => from[i] < from[j]
        /\ \A x \in DOMAIN scored :
               scored[x].id \in VectorIds(rows) => \E i \in DOMAIN hits : from[i] = x
        /\ (\A x \in DOMAIN scored : scored[x].id \in VectorIds(rows)) => Len(hits) = Len(scored)

\* The first place with a property is one with it.
LEMMA FirstPlace ==
    ASSUME NEW I \in SUBSET Nat, I # {} PROVE Min(I) \in I /\ \A i \in I : Min(I) <= i
<1>1. \E n \in I : \A m \in I : n <= m
  <2> DEFINE R == OpToRel(<, Nat)
  <2>1. IsWellFoundedOn(R, Nat)
    BY NatLessThanWellFounded
  <2>2. \A m, n \in Nat : m < n => <<m, n>> \in R
    BY DEF OpToRel
  <2> HIDE DEF R
  <2>3. PICK n \in I : \A m \in I : ~(<<m, n>> \in R)
    BY <2>1, WFMin
  <2>4. ASSUME NEW m \in I PROVE n <= m
    <3>1. ~(<<m, n>> \in R) /\ m \in Nat /\ n \in Nat
      BY <2>3
    <3>2. ~(m < n)
      BY <2>2, <3>1, Zenon
    <3> QED BY <3>1, <3>2
  <2> QED BY <2>4
<1> QED BY <1>1 DEF Min

RowOf(id) == rows[SelectInSeq(rows, LAMBDA r : r.vector_id = id)]

LEMMA RowOfIs ==
    ASSUME rows \in Seq(Rows), NEW id \in VectorIds(rows)
    PROVE  RowOf(id) \in ToSet(rows) /\ RowOf(id).vector_id = id
<1> DEFINE I == {i \in 1..Len(rows) : rows[i].vector_id = id}
<1>1. Len(rows) \in Nat /\ DOMAIN rows = 1..Len(rows)
  OBVIOUS
<1>2. I \in SUBSET Nat /\ I # {}
  BY <1>1 DEF VectorIds
<1>3. RowOf(id) = rows[Min(I)]
  BY <1>2 DEF RowOf, SelectInSeq
<1>4. Min(I) \in I
  BY <1>2, FirstPlace
<1> QED BY <1>1, <1>3, <1>4 DEF ToSet

LEMMA ResolveIs ==
    ASSUME rows \in Seq(Rows), NEW X, NEW S, NEW scored \in Seq([id : X, score : S])
    PROVE  Resolves(S, scored, resolve(scored))
<1> DEFINE places == {i \in DOMAIN scored : scored[i].id \in VectorIds(rows)}
           stored == At(scored, places)
           hits == resolve(scored)
<1>1. hits = [i \in DOMAIN stored |-> [row |-> RowOf(stored[i].id), score |-> stored[i].score]]
  BY DEF resolve, RowOf
<1>2. places \in SUBSET (DOMAIN scored)
  OBVIOUS
<1>3. PICK from : Keeps(scored, places, stored, from)
  BY <1>2, AtIs
<1>4. stored \in Seq([id : X, score : S]) /\ Len(stored) = Cardinality(places)
  BY <1>2, AtIs
<1>5. /\ Len(scored) \in Nat /\ DOMAIN scored = 1..Len(scored)
      /\ \A i \in DOMAIN scored : scored[i] \in [id : X, score : S]
  <2> DEFINE E == [id : X, score : S]
  <2> HIDE DEF E
  <2>1. ASSUME NEW s \in Seq(E)
        PROVE  Len(s) \in Nat /\ DOMAIN s = 1..Len(s) /\ \A i \in DOMAIN s : s[i] \in E
    BY <2>1
  <2> QED BY <2>1 DEF E
<1>6. \A i \in places : i \in DOMAIN scored /\ scored[i].id \in VectorIds(rows)
  OBVIOUS
<1>7. \A x \in DOMAIN scored : scored[x].id \in VectorIds(rows) => x \in places
  OBVIOUS
<1> HIDE DEF places, stored, hits
<1>8. /\ DOMAIN from = DOMAIN stored
      /\ \A i \in DOMAIN stored : from[i] \in places /\ stored[i] = scored[from[i]]
      /\ \A x \in places : \E i \in DOMAIN stored : from[i] = x
      /\ \A i, j \in DOMAIN stored : i < j => from[i] < from[j]
  BY <1>3 DEF Keeps
<1>9. DOMAIN hits = DOMAIN stored
  BY <1>1
<1>10. ASSUME NEW i \in DOMAIN hits
       PROVE  /\ from[i] \in DOMAIN scored /\ hits[i] \in Hits(S)
              /\ hits[i].row \in ToSet(rows) /\ hits[i].row.vector_id = scored[from[i]].id
              /\ hits[i].score = scored[from[i]].score
  <2>1. from[i] \in places /\ stored[i] = scored[from[i]]
    BY <1>8, <1>9
  <2>2. from[i] \in DOMAIN scored /\ scored[from[i]].id \in VectorIds(rows)
    BY <1>6, <2>1
  <2>3. hits[i] = [row |-> RowOf(stored[i].id), score |-> stored[i].score]
    BY <1>1, <1>9
  <2>4. RowOf(stored[i].id) \in ToSet(rows) /\ RowOf(stored[i].id).vector_id = stored[i].id
    BY <2>1, <2>2, RowOfIs
  <2>5. stored[i].score \in S
    BY <1>5, <2>1, <2>2
  <2> QED BY <2>1, <2>2, <2>3, <2>4, <2>5 DEF Hits
<1>11. hits \in Seq(Hits(S)) /\ Len(hits) = Len(stored)
  <2>1. DOMAIN hits = 1..Len(stored) /\ Len(stored) \in Nat
    BY <1>4, <1>9
  <2>2. hits = [i \in DOMAIN hits |-> hits[i]]
    BY <1>1
  <2>3. hits \in [1..Len(stored) -> Hits(S)]
    BY <1>10, <2>1, <2>2
  <2> QED BY <2>1, <2>3
<1>12. IsFiniteSet(DOMAIN scored) /\ Cardinality(DOMAIN scored) = Len(scored)
  <2> DEFINE n == Len(scored)
  <2>1. n \in Nat /\ DOMAIN scored = 1..n
    BY <1>5
  <2> HIDE DEF n
  <2>2. IsFiniteSet(1..n) /\ Cardinality(1..n) = n
    BY <2>1, FS_Interval
  <2> QED BY <2>1, <2>2 DEF n
<1>13. Cardinality(places) <= Len(scored)
  BY <1>2, <1>12, PartsAreFinite
<1>14. ASSUME \A x \in DOMAIN scored : scored[x].id \in VectorIds(rows)
       PROVE  Len(hits) = Len(scored)
  <2>1. places = DOMAIN scored
    BY <1>2, <1>7, <1>14
  <2> QED BY <1>4, <1>11, <1>12, <2>1
<1>15. \A x \in DOMAIN scored : scored[x].id \in VectorIds(rows) => \E i \in DOMAIN hits : from[i] = x
  BY <1>7, <1>8, <1>9
<1>16. \A i, j \in DOMAIN hits : i < j => from[i] < from[j]
  BY <1>8, <1>9
<1>17. DOMAIN from = DOMAIN hits /\ Len(hits) <= Len(scored)
  BY <1>4, <1>8, <1>9, <1>11, <1>13
<1>18. Resolves(S, scored, hits)
  BY <1>10, <1>11, <1>14, <1>15, <1>16, <1>17 DEF Resolves
<1> QED BY <1>18 DEF hits


\* A row of the table has its own vector, and while the ids are in step a search may find it.
LEMMA RowsAre ==
    ASSUME DbInv, NEW r \in ToSet(rows)
    PROVE  /\ r \in Rows /\ r.id \in Nat /\ r.vector_id \in Nat /\ r.created \in Nat
           /\ r.text.similarity \in Int /\ r.text.keywords \in Nat /\ r.text.cross \in Int
           /\ r.vector_id \in VectorIds(rows)
           /\ \A q \in ToSet(rows) : q.vector_id = r.vector_id => q = r
           /\ InStep => /\ r.vector_id \in Visible(index)
                        /\ Similarity(index, r.vector_id) = r.text.similarity
<1>1. PICK i \in DOMAIN rows : rows[i] = r
  BY DEF ToSet
<1>2. /\ rows \in Seq(Rows) /\ index \in Indexes /\ Numbered(rows, next_id) /\ Within(rows, index)
      /\ InStep => Tells(rows, index)
  BY DEF DbInv
<1>3. /\ r \in Rows /\ r.id \in Nat /\ r.vector_id \in Nat /\ r.created \in Nat /\ r.text \in Texts
  BY <1>1, <1>2, RowsHaveFields
<1>4. /\ r.text.similarity \in Int /\ r.text.keywords \in Nat /\ r.text.cross \in Int
  BY <1>3, TextsAssumption
<1>5. /\ r.vector_id < Len(index.vectors)
      /\ InStep => /\ r.vector_id \notin index.removed
                   /\ index.vectors[r.vector_id + 1] = r.text
  BY <1>1, <1>2 DEF Within, Tells
<1>6. InStep => r.vector_id \in Visible(index)
  BY <1>2, <1>3, <1>5, IdsAre DEF Visible
<1>7. InStep => Similarity(index, r.vector_id) = r.text.similarity
  BY <1>5 DEF Similarity
<1>8. r.vector_id \in VectorIds(rows)
  BY <1>1 DEF VectorIds
<1>9. ASSUME NEW q \in ToSet(rows), q.vector_id = r.vector_id PROVE q = r
  <2>1. PICK j \in DOMAIN rows : rows[j] = q
    BY DEF ToSet
  <2> QED BY <1>1, <1>2, <1>9, <2>1 DEF Numbered
<1> QED BY <1>3, <1>4, <1>6, <1>7, <1>8, <1>9

\* What a query for k chunks gives; in what order, while the ids are in step.
Queried(k, hits) ==
    /\ hits \in Seq(Hits(Int)) /\ Len(hits) <= k
    /\ \A i \in DOMAIN hits : hits[i].row \in ToSet(rows)
    /\ \A i, j \in DOMAIN hits :
           i < j => /\ hits[i].row # hits[j].row
                    /\ InStep => hits[i].row.text.similarity >= hits[j].row.text.similarity
    /\ faults = {} => \A r \in ToSet(rows) :
           \/ \E i \in DOMAIN hits : hits[i].row = r
           \/ Len(hits) = k /\ \A i \in DOMAIN hits : hits[i].row.text.similarity >= r.text.similarity

LEMMA QueryIs == ASSUME DbInv, NEW k \in Nat PROVE Queried(k, query(k))
<1> DEFINE ids == search(index, k)
           scored == Scored(index, ids)
           hits == query(k)
           live == Visible(index)
<1>1. index \in Indexes /\ rows \in Seq(Rows) /\ (faults = {} => live \subseteq VectorIds(rows))
  BY DEF DbInv
<1>2. Nearest(index, k, ids)
  BY <1>1, SearchIs
<1>3. scored = [i \in DOMAIN ids |-> [id |-> ids[i], score |-> Similarity(index, ids[i])]]
  BY DEF Scored
<1>4. hits = resolve(scored)
  BY DEF query
<1> HIDE DEF ids, scored, hits, live
<1>5. /\ ids \in Seq(live) /\ Len(ids) <= k
      /\ \A i, j \in DOMAIN ids : i < j => <<ids[i], ids[j]>> \in Nearer(index)
      /\ \A x \in live : \/ \E i \in DOMAIN ids : ids[i] = x
                         \/ Len(ids) = k /\ \A i \in DOMAIN ids : <<ids[i], x>> \in Nearer(index)
  BY <1>2 DEF Nearest, live
<1>6. /\ Len(ids) \in Nat /\ DOMAIN ids = 1..Len(ids) /\ \A i \in DOMAIN ids : ids[i] \in live
  BY <1>5
<1>7. live \subseteq Ids(index) /\ \A x \in live : x \in Nat /\ Similarity(index, x) \in Int
  BY <1>1, IdsAre DEF live, Visible
<1>8. scored \in Seq([id : Nat, score : Int]) /\ Len(scored) = Len(ids)
  <2>1. \A i \in DOMAIN ids : [id |-> ids[i], score |-> Similarity(index, ids[i])] \in [id : Nat, score : Int]
    BY <1>6, <1>7
  <2> DEFINE E == [id : Nat, score : Int]
  <2> HIDE DEF E
  <2>2. scored \in [1..Len(ids) -> E]
    BY <1>3, <1>6, <2>1 DEF E
  <2>3. scored \in Seq(E) /\ Len(scored) = Len(ids)
    BY <1>6, <2>2
  <2> QED BY <2>3 DEF E
<1>9. Resolves(Int, scored, hits)
  BY <1>1, <1>4, <1>8, ResolveIs
<1>10. PICK from :
        /\ hits \in Seq(Hits(Int)) /\ DOMAIN from = DOMAIN hits /\ Len(hits) <= Len(scored)
        /\ \A i \in DOMAIN hits : /\ from[i] \in DOMAIN scored
                                  /\ hits[i].row \in ToSet(rows)
                                  /\ hits[i].row.vector_id = scored[from[i]].id
        /\ \A i, j \in DOMAIN hits : i < j => from[i] < from[j]
        /\ \A x \in DOMAIN scored :
               scored[x].id \in VectorIds(rows) => \E i \in DOMAIN hits : from[i] = x
        /\ (\A x \in DOMAIN scored : scored[x].id \in VectorIds(rows)) => Len(hits) = Len(scored)
  BY <1>9 DEF Resolves
<1>11. /\ DOMAIN scored = DOMAIN ids /\ \A x \in DOMAIN ids : scored[x].id = ids[x]
  BY <1>3
<1>12. \A i \in DOMAIN hits : from[i] \in DOMAIN ids /\ hits[i].row.vector_id = ids[from[i]]
  BY <1>10, <1>11
<1>13. \A x, y \in live : <<x, y>> \in Nearer(index) =>
           x # y /\ Similarity(index, x) >= Similarity(index, y)
  BY <1>7 DEF Nearer
<1>14. \A r \in ToSet(rows) : /\ \A q \in ToSet(rows) : q.vector_id = r.vector_id => q = r
                              /\ InStep => /\ r.vector_id \in live
                                           /\ Similarity(index, r.vector_id) = r.text.similarity
  BY RowsAre DEF live
<1>19. faults = {} => InStep
  BY DEF InStep
<1>20. \A i \in DOMAIN hits : hits[i].row.vector_id \in live
  BY <1>6, <1>12
<1>15. ASSUME NEW i \in DOMAIN hits, NEW j \in DOMAIN hits, i < j
       PROVE  /\ hits[i].row # hits[j].row
              /\ InStep => hits[i].row.text.similarity >= hits[j].row.text.similarity
  <2> DEFINE x == hits[i].row.vector_id
             y == hits[j].row.vector_id
  <2>1. <<x, y>> \in Nearer(index)
    BY <1>5, <1>10, <1>12, <1>15
  <2>2. x \in live /\ y \in live
    BY <1>20
  <2>3. x # y /\ Similarity(index, x) >= Similarity(index, y)
    BY <1>13, <2>1, <2>2
  <2> QED BY <1>10, <1>14, <2>3
<1>16. ASSUME faults = {}, NEW r \in ToSet(rows)
       PROVE  \/ \E i \in DOMAIN hits : hits[i].row = r
              \/ Len(hits) = k /\ \A i \in DOMAIN hits : hits[i].row.text.similarity >= r.text.similarity
  <2>1. CASE \E x \in DOMAIN ids : ids[x] = r.vector_id
    <3>1. PICK x \in DOMAIN ids : ids[x] = r.vector_id
      BY <2>1
    <3>2. r.vector_id \in VectorIds(rows)
      BY RowsAre
    <3>3. PICK i \in DOMAIN hits : from[i] = x
      BY <1>10, <1>11, <3>1, <3>2
    <3>4. hits[i].row = r
      BY <1>10, <1>12, <1>14, <3>1, <3>3
    <3> QED BY <3>4
  <2>2. CASE Len(ids) = k /\ \A x \in DOMAIN ids : <<ids[x], r.vector_id>> \in Nearer(index)
    <3>1. Len(hits) = k
      BY <1>1, <1>6, <1>8, <1>10, <1>11, <1>16, <2>2
    <3>2. ASSUME NEW i \in DOMAIN hits PROVE hits[i].row.text.similarity >= r.text.similarity
      <4>1. /\ hits[i].row \in ToSet(rows) /\ from[i] \in DOMAIN ids
            /\ hits[i].row.vector_id = ids[from[i]]
        BY <1>10, <1>12
      <4>2. <<hits[i].row.vector_id, r.vector_id>> \in Nearer(index)
        BY <2>2, <4>1
      <4> QED BY <1>13, <1>14, <1>16, <1>19, <4>1, <4>2
    <3> QED BY <3>1, <3>2
  <2> QED BY <1>5, <1>14, <1>16, <1>19, <2>1, <2>2
<1>17. Len(hits) <= k
  <2>1. hits \in Seq(Hits(Int))
    BY <1>10
  <2>2. Len(hits) \in Nat
    BY <2>1
  <2>3. Len(hits) <= Len(ids) /\ Len(ids) <= k /\ Len(ids) \in Nat
    BY <1>5, <1>6, <1>8, <1>10
  <2> DEFINE l == Len(hits)
             m == Len(ids)
  <2> HIDE DEF l, m
  <2>4. l <= m /\ m <= k /\ m \in Nat /\ l \in Nat => l <= k
    OBVIOUS
  <2> QED BY <2>2, <2>3, <2>4 DEF l, m
<1>18. Queried(k, hits)
  BY <1>10, <1>15, <1>16, <1>17 DEF Queried
<1> QED BY <1>18 DEF hits


LEMMA TableIsFinite ==
    ASSUME DbInv PROVE IsFiniteSet(ToSet(rows)) /\ Cardinality(fts) = Len(rows)
<1> DEFINE n == Len(rows)
           f == [i \in 1..n |-> <<rows[i].id, rows[i].text>>]
           g == [i \in 1..n |-> rows[i]]
<1>1. rows \in Seq(Rows) /\ Numbered(rows, next_id) /\ fts = Indexed(rows)
  BY DEF DbInv
<1>2. n \in Nat /\ DOMAIN rows = 1..n /\ \A i \in 1..n : rows[i].id \in Nat
  BY <1>1, RowsHaveFields
<1>3. IsFiniteSet(1..n) /\ Cardinality(1..n) = n
  <2>1. n \in Nat
    BY <1>2
  <2> HIDE DEF n
  <2> QED BY <2>1, FS_Interval
<1>4. \A i, j \in 1..n : i # j => rows[i].id # rows[j].id
  BY <1>1, <1>2 DEF Numbered
<1>5. fts = {f[i] : i \in 1..n}
  BY <1>1, <1>2 DEF Indexed
<1>6. f \in [1..n -> fts] /\ \A x \in fts : \E i \in 1..n : f[i] = x
  BY <1>5
<1>7. \A i, j \in 1..n : i # j => f[i] # f[j]
  BY <1>4
<1>8. g \in Surjection(1..n, ToSet(rows))
  BY <1>2 DEF Surjection, ToSet
<1>9. IsFiniteSet(ToSet(rows))
  BY <1>3, <1>8, FS_Surjection
<1> HIDE DEF f
<1>10. f \in Bijection(1..n, fts)
  BY <1>6, <1>7 DEF Bijection, Injection, IsInjective, Surjection
<1>11. Cardinality(fts) = n
  BY <1>3, <1>10, FS_Bijection DEF ExistsBijection
<1> QED BY <1>9, <1>11

\* Distinct rows and one more are at least so many.
LEMMA OneMore ==
    ASSUME NEW Q, IsFiniteSet(Q), NEW n \in Nat, NEW s, NEW r \in Q,
           \A i \in 1..n : s[i] \in Q /\ s[i] # r,
           \A i, j \in 1..n : i < j => s[i] # s[j]
    PROVE  Cardinality(Q) > n
<1> DEFINE f == [i \in 1..n + 1 |-> IF i <= n THEN s[i] ELSE r]
<1>1. n + 1 \in Nat /\ IsFiniteSet(1..n + 1) /\ Cardinality(1..n + 1) = n + 1
  BY FS_Interval
<1>2. f \in [1..n + 1 -> Q]
  OBVIOUS
<1>3. ASSUME NEW i \in 1..n + 1, NEW j \in 1..n + 1, f[i] = f[j] PROVE i = j
  BY <1>3
<1> HIDE DEF f
<1>4. f \in Injection(1..n + 1, Q)
  BY <1>2, <1>3 DEF Injection, IsInjective
<1>5. Cardinality(1..n + 1) <= Cardinality(Q) /\ Cardinality(Q) \in Nat
  BY <1>4, FS_Injection, FS_CardinalityType
<1> QED BY <1>1, <1>5

AsNear(r) == {q \in ToSet(rows) : q.text.similarity >= r.text.similarity}

LEMMA FilteredIs ==
    ASSUME DbInv, NEW k \in Nat, NEW filter
    PROVE  /\ \A i \in DOMAIN query_filtered(k, filter) :
                  /\ query_filtered(k, filter)[i].row \in ToSet(rows)
                  /\ matches(filter, query_filtered(k, filter)[i].row)
           /\ faults = {} => \A r \in ToSet(rows) : matches(filter, r) =>
                  \/ \E i \in DOMAIN query_filtered(k, filter) : query_filtered(k, filter)[i].row = r
                  \/ Cardinality(AsNear(r)) > Larger(k * FILTER_FACTOR, FILTER_LEAST)
                  \/ /\ Len(query_filtered(k, filter)) = k
                     /\ \A i \in DOMAIN query_filtered(k, filter) :
                            query_filtered(k, filter)[i].row.text.similarity >= r.text.similarity
<1> DEFINE n == Larger(k * FILTER_FACTOR, FILTER_LEAST)
           pool == query(n)
           places == {i \in DOMAIN pool : matches(filter, pool[i].row)}
           good == At(pool, places)
           results == query_filtered(k, filter)
<1>1. n \in Nat
  <2>1. FILTER_FACTOR \in Nat /\ FILTER_LEAST \in Nat
    BY NumbersAssumption
  <2>2. k * FILTER_FACTOR \in Nat
    BY <2>1
  <2> QED BY <2>1, <2>2 DEF Larger
<1>2. CASE k = 0
  <2>1. results = <<>>
    BY <1>2 DEF query_filtered
  <2>2. Len(<<>>) = 0 /\ DOMAIN <<>> = {}
    OBVIOUS
  <2> HIDE DEF results, n
  <2> QED BY <1>2, <2>1, <2>2 DEF results
<1>3. CASE k # 0
  <2>1. results = Truncate(good, k)
    BY <1>3 DEF query_filtered, Matching
  <2>2. Queried(n, pool)
    BY <1>1, QueryIs
  <2>3. places \in SUBSET (DOMAIN pool)
    OBVIOUS
  <2>4. \A i \in DOMAIN pool : i \in places <=> matches(filter, pool[i].row)
    OBVIOUS
  <2> HIDE DEF n, pool, places, good, results
  <2>5. /\ pool \in Seq(Hits(Int)) /\ \A i \in DOMAIN pool : pool[i].row \in ToSet(rows)
        /\ \A i, j \in DOMAIN pool :
               i < j => /\ pool[i].row # pool[j].row
                        /\ InStep => pool[i].row.text.similarity >= pool[j].row.text.similarity
        /\ faults = {} => \A r \in ToSet(rows) :
               \/ \E i \in DOMAIN pool : pool[i].row = r
               \/ Len(pool) = n /\ \A i \in DOMAIN pool : pool[i].row.text.similarity >= r.text.similarity
    BY <2>2 DEF Queried
  <2>6. PICK at : Keeps(pool, places, good, at)
    BY <2>3, <2>5, AtIs DEF good
  <2>7. good \in Seq(Hits(Int))
    BY <2>3, <2>5, AtIs DEF good
  <2>8. /\ DOMAIN at = DOMAIN good
        /\ \A i \in DOMAIN good : at[i] \in places /\ good[i] = pool[at[i]]
        /\ \A x \in places : \E i \in DOMAIN good : at[i] = x
        /\ \A i, j \in DOMAIN good : i < j => at[i] < at[j]
    BY <2>6 DEF Keeps
  <2>9. /\ DOMAIN results = 1..Len(results) /\ Len(results) = IF k < Len(good) THEN k ELSE Len(good)
        /\ \A i \in DOMAIN results : i \in DOMAIN good /\ results[i] = good[i]
    BY <2>1, <2>7, TruncateIs
  <2>10. ASSUME NEW i \in DOMAIN results
         PROVE  results[i].row \in ToSet(rows) /\ matches(filter, results[i].row)
    <3>1. results[i] = pool[at[i]] /\ at[i] \in places
      BY <2>8, <2>9
    <3> QED BY <2>3, <2>4, <2>5, <3>1
  <2>11. ASSUME faults = {}, NEW r \in ToSet(rows), matches(filter, r)
         PROVE  \/ \E i \in DOMAIN results : results[i].row = r
                \/ Cardinality(AsNear(r)) > n
                \/ /\ Len(results) = k
                   /\ \A i \in DOMAIN results : results[i].row.text.similarity >= r.text.similarity
    <3>3. InStep
      BY <2>11 DEF InStep
    <3>1. CASE \E x \in DOMAIN pool : pool[x].row = r
      <4>1. PICK x \in DOMAIN pool : pool[x].row = r
        BY <3>1
      <4>2. x \in places
        BY <2>4, <2>11, <4>1
      <4>3. PICK j \in DOMAIN good : at[j] = x
        BY <2>8, <4>2
      <4>4. good[j].row = r
        BY <2>8, <4>1, <4>3
      <4>5. CASE j \in DOMAIN results
        BY <2>9, <4>4, <4>5
      <4>6. CASE j \notin DOMAIN results
        <5> DEFINE l == Len(good)
                   m == Len(results)
        <5>1. l \in Nat /\ j \in 1..l /\ DOMAIN good = 1..l
          BY <2>7
        <5>2. DOMAIN results = 1..m /\ m = (IF k < l THEN k ELSE l)
          BY <2>9
        <5> HIDE DEF l, m
        <5>3. m = k /\ \A i \in DOMAIN results : i < j
          BY <4>6, <5>1, <5>2
        <5>4. ASSUME NEW i \in DOMAIN results
              PROVE  results[i].row.text.similarity >= r.text.similarity
          <6>1. i \in DOMAIN good /\ i < j /\ results[i] = pool[at[i]]
            BY <2>8, <2>9, <5>3
          <6>2. at[i] < x /\ at[i] \in DOMAIN pool
            BY <2>3, <2>8, <4>3, <6>1
          <6> QED BY <2>5, <3>3, <4>1, <6>1, <6>2
        <5> QED BY <5>3, <5>4 DEF m
      <4> QED BY <4>5, <4>6
    <3>2. CASE ~\E x \in DOMAIN pool : pool[x].row = r
      <4>1. Len(pool) = n /\ \A i \in DOMAIN pool : pool[i].row.text.similarity >= r.text.similarity
        BY <2>5, <2>11, <3>2
      <4> DEFINE s == [i \in DOMAIN pool |-> pool[i].row]
                 Q == AsNear(r)
      <4>2. DOMAIN pool = 1..n
        BY <2>5, <4>1
      <4>3. r.text.similarity \in Int
        BY RowsAre
      <4>4. r \in Q
        BY <4>3 DEF AsNear
      <4>5. \A i \in 1..n : s[i] \in Q /\ s[i] # r
        BY <2>5, <3>2, <4>1, <4>2 DEF AsNear
      <4>6. \A i, j \in 1..n : i < j => s[i] # s[j]
        BY <2>5, <4>2
      <4>7. IsFiniteSet(Q)
        <5>1. Q \subseteq ToSet(rows)
          BY DEF AsNear
        <5> QED BY <5>1, TableIsFinite, FS_Subset
      <4> HIDE DEF s, Q
      <4>8. Cardinality(Q) > n
        BY <1>1, <4>4, <4>5, <4>6, <4>7, OneMore DEF n
      <4> QED BY <4>8 DEF Q
    <3> QED BY <3>1, <3>2
  <2> QED BY <2>10, <2>11 DEF results, n
<1> QED BY <1>2, <1>3


(* The properties. *)

LEMMA AskedIs ==
    ASSUME ServeInv, Answered(Checked)
    PROVE  /\ request # None /\ request \in Requests[host]
           /\ Asked = CallOf(request) /\ IsCallOf(Asked) /\ reply.results \in Results(Asked)
<1>1. Asked.op \in Checked
  BY DEF Answered
<1>2. request # None
  BY <1>1 DEF Asked, Checked, Reads, ModelCalls
<1>3. Asked = CallOf(request) /\ request \in Requests[host] /\ host \in Hosts
  BY <1>2 DEF Asked, ServeInv
<1> QED BY <1>2, <1>3, RequestsAreCalls DEF ServeInv

\* check finds the vector ids below the length of the index, and as many rows in the keyword
\* table as chunks.
LEMMA KeywordsHold == ServeInv => KeywordsAreTheChunks
<1> SUFFICES ASSUME ServeInv PROVE KeywordsAreTheChunks
  OBVIOUS
<1>1. DbInv /\ fts = Indexed(rows)
  BY DEF ServeInv, DbInv
<1>2. ASSUME Answered({"check"})
      PROVE  /\ reply.results.vector_ids /\ reply.results.full_text
             /\ "remapped" \in faults => ~reply.results.epoch
  <2>1. Asked.op = "check" /\ Answered(Checked)
    BY <1>2 DEF Answered, Checked, Reads
  <2>2. reply.results = check
    BY <2>1, AskedIs DEF Results
  <2>3. \A id \in VectorIds(rows) : id < Len(index.vectors)
    BY <1>1 DEF DbInv, Within, VectorIds
  <2>4. Cardinality(fts) = Len(rows)
    BY <1>1, TableIsFinite
  <2>5. "remapped" \in faults => "index" \notin recorded
    BY <1>1 DEF DbInv
  <2>6. /\ check.epoch = ("index" \in recorded)
        /\ check.vector_ids = (\A id \in VectorIds(rows) : id < Len(index.vectors))
        /\ check.full_text = (Cardinality(fts) = Len(rows))
    BY DEF check
  <2> QED BY <2>2, <2>3, <2>4, <2>5, <2>6, Zenon
<1> QED BY <1>1, <1>2 DEF KeywordsAreTheChunks

LEMMA ShortAnswersHold == ServeInv => ShortAnswersAreComplete
<1> SUFFICES ASSUME ServeInv, Answered({"query", "query_filtered"}), faults = {}
             PROVE  /\ RowsIn(reply.results) \subseteq Wanted(Asked)
                    /\ \A r \in Wanted(Asked) \ RowsIn(reply.results) :
                           \/ Cardinality(AsNear(r)) > PoolSize(Asked)
                           \/ /\ Len(reply.results) = Asked.top_k
                              /\ \A q \in RowsIn(reply.results) : q.text.similarity >= r.text.similarity
  BY DEF ShortAnswersAreComplete, AsNear
<1> DEFINE c == Asked
           results == reply.results
<1>1. DbInv
  BY DEF ServeInv
<1>2. c.op \in {"query", "query_filtered"} /\ Answered(Checked)
  BY DEF Answered, Checked, Reads, ModelCalls
<1>3. c.top_k \in Nat /\ results \in Results(c)
  BY <1>2, AskedIs DEF IsCallOf
<1> HIDE DEF c, results
<1>4. /\ \A i \in DOMAIN results : results[i].row \in Wanted(c)
      /\ \A r \in Wanted(c) :
             \/ \E i \in DOMAIN results : results[i].row = r
             \/ Cardinality(AsNear(r)) > PoolSize(c)
             \/ /\ Len(results) = c.top_k
                /\ \A i \in DOMAIN results : results[i].row.text.similarity >= r.text.similarity
  <2>1. CASE c.op = "query"
    <3>1. results = query(c.top_k) /\ \A r : r \in Wanted(c) <=> r \in ToSet(rows)
      BY <1>3, <2>1 DEF Results, Wanted
    <3>2. Queried(c.top_k, results)
      BY <1>1, <1>3, <3>1, QueryIs
    <3> QED BY <3>1, <3>2 DEF Queried
  <2>2. CASE c.op = "query_filtered"
    <3>1. /\ results = query_filtered(c.top_k, c.filter)
          /\ \A r : r \in Wanted(c) <=> r \in ToSet(rows) /\ matches(c.filter, r)
          /\ PoolSize(c) = Larger(c.top_k * FILTER_FACTOR, FILTER_LEAST)
      BY <1>3, <2>2 DEF Results, Wanted, PoolSize
    <3> QED BY <1>1, <1>3, <3>1, FilteredIs
  <2> QED BY <1>2, <2>1, <2>2
<1>5. \A q : q \in RowsIn(results) <=> \E i \in DOMAIN results : results[i].row = q
  BY DEF RowsIn
<1> QED BY <1>4, <1>5 DEF c, results

(* What a query of the HTTP server asks for. *)

LEMMA HttpQueryIs ==
    ASSUME NEW r \in HttpRequests, HttpCall(r).op \in ModelCalls
    PROVE  HttpCall(r) = HttpQuery(r.body)
<1>1. HttpCall(r) = handle(r.method, r.path, r.body)
  BY DEF HttpCall, Refuse, ModelCalls
<1>2. CASE <<r.method, r.path>> = <<"POST", "/query">>
  <2>1. HttpCall(r) = json_object(r.body, HttpQuery(r.body))
    BY <1>1, <1>2 DEF handle
  <2> QED BY <2>1 DEF json_object, Refuse, ModelCalls
<1>3. CASE <<r.method, r.path>> = <<"POST", "/text">>
  <2>1. HttpCall(r) = json_object(r.body, HttpText(r.body))
    BY <1>1, <1>3 DEF handle
  <2> QED BY <2>1 DEF json_object, HttpText, Refuse, ModelCalls
<1>4. CASE <<r.method, r.path>> = <<"POST", "/delete">>
  <2>1. HttpCall(r) = json_object(r.body, HttpDelete(r.body))
    BY <1>1, <1>4 DEF handle
  <2> QED BY <2>1 DEF json_object, HttpDelete, Refuse, ModelCalls
<1>5. CASE <<r.method, r.path>> \notin {<<"POST", "/query">>, <<"POST", "/text">>, <<"POST", "/delete">>}
  <2>1. HttpCall(r).op \in {"refuse", "health", "stats"}
    BY <1>1, <1>5 DEF handle, Refuse
  <2> QED BY <2>1 DEF ModelCalls
<1> QED BY <1>2, <1>3, <1>4, <1>5

LEMMA FiltersAreKept ==
    ASSUME NEW body, HttpQuery(body).op \in ModelCalls
    PROVE  \/ /\ HttpQuery(body).op = "query_filtered"
              /\ HttpQuery(body).filter = QueryFilter(body)
           \/ /\ HttpQuery(body).op \in ModelCalls \ {"query_filtered"} /\ ~IsFiltered(body)
<1> DEFINE c == HttpQuery(body)
<1>1. c # Refuse(400)
  BY DEF Refuse, ModelCalls
<1>2. CASE IsFiltered(body)
  <2>1. c = [op |-> "query_filtered", top_k |-> Field(body, "top_k", 5), filter |-> QueryFilter(body)]
    BY <1>1, <1>2 DEF HttpQuery
  <2> QED BY <2>1
<1>3. CASE ~IsFiltered(body)
  <2>1. Field(body, "mode", "vector") \in {"vector", "hybrid", "rerank", "diverse"}
    BY <1>1 DEF HttpQuery
  <2>2. c.op \in {"query", "query_hybrid", "query_reranked", "query_diverse"}
    BY <1>1, <1>3, <2>1 DEF HttpQuery
  <2> QED BY <1>3, <2>2 DEF ModelCalls
<1> QED BY <1>2, <1>3

\* Every row passes a filter that asks for nothing.
LEMMA NoFilterMatches ==
    ASSUME DbInv, NEW body, ~IsFiltered(body), NEW r \in ToSet(rows)
    PROVE  matches(QueryFilter(body), r)
<1>1. Field(body, "tags", {}) = {} /\ Absent(body, "source_prefix") /\ Absent(body, "since")
  BY DEF IsFiltered
<1>2. QueryFilter(body) = [tags |-> {}, source |-> "any", since |-> 0]
  BY <1>1 DEF QueryFilter, Field
<1>3. r.created \in Nat
  BY RowsAre
<1> QED BY <1>2, <1>3 DEF matches


(* A diverse query. *)

\* A best place is one of the places.
LEMMA BestPlaceIs ==
    ASSUME NEW ix \in Indexes, NEW remaining \in Seq(Ids(ix)), NEW chosen \in Seq(Ids(ix)),
           NEW weight \in {NaN} \cup (0..2), remaining # <<>>
    PROVE  BestPlace(ix, remaining, chosen, weight) \in DOMAIN remaining
<1> DEFINE n == Len(remaining)
           score(i) == weight * Similarity(ix, remaining[i])
                           - (2 - weight) * Redundancy(ix, chosen, remaining[i])
           better == {p \in (1..n) \X (1..n) :
                        \/ score(p[1]) > score(p[2])
                        \/ score(p[1]) = score(p[2]) /\ p[1] < p[2]}
<1>1. n \in Nat /\ DOMAIN remaining = 1..n /\ n # 0
  OBVIOUS
<1>2. CASE weight = NaN
  BY <1>1, <1>2 DEF BestPlace
<1>3. CASE weight # NaN
  <2>1. \A i \in 1..n : Similarity(ix, remaining[i]) \in Int
    <3>1. \A i \in 1..n : remaining[i] \in Ids(ix)
      BY <1>1
    <3> QED BY <3>1, IdsAre
  <2>2. \A i \in 1..n : Redundancy(ix, chosen, remaining[i]) \in Int
    <3> SUFFICES ASSUME NEW id PROVE Redundancy(ix, chosen, id) \in Int
      OBVIOUS
    <3> DEFINE D == {0} \cup {Dot(ix.vectors[id + 1], ix.vectors[chosen[i] + 1]) : i \in DOMAIN chosen}
    <3>1. D \subseteq {0, 4} /\ 0 \in D
      BY DEF Dot
    <3>2. Redundancy(ix, chosen, id) = Max(D)
      BY DEF Redundancy
    <3> HIDE DEF D
    <3>3. \E x \in D : \A y \in D : x >= y
      BY <3>1
    <3>4. Max(D) \in D
      BY <3>3 DEF Max
    <3>5. Max(D) \in {0, 4}
      BY <3>1, <3>4
    <3>6. Max(D) \in Int
      BY <3>5
    <3> QED BY <3>2, <3>6
  <2>3. \A i \in 1..n : score(i) \in Int
    <3>1. weight \in Int /\ 2 - weight \in Int
      BY <1>3
    <3>2. \A u, v \in Int : weight * u - (2 - weight) * v \in Int
      BY <3>1
    <3> QED BY <2>1, <2>2, <3>2
  <2>4. BestPlace(ix, remaining, chosen, weight) =
            CHOOSE i \in 1..n : \A j \in 1..n : score(j) < score(i) \/ (score(j) = score(i) /\ i <= j)
    BY <1>1, <1>3 DEF BestPlace
  <2> HIDE DEF score
  <2>5. \A i, j \in 1..n : <<i, j>> \in better <=> score(i) > score(j) \/ (score(i) = score(j) /\ i < j)
    OBVIOUS
  <2> HIDE DEF better
  <2>6. Orders(1..n, better)
    <3>1. IsFiniteSet(1..n)
      BY <1>1, FS_Interval
    <3>2. /\ \A x \in 1..n : <<x, x>> \notin better
          /\ \A x, y \in 1..n : x # y => <<x, y>> \in better \/ <<y, x>> \in better
      BY <2>3, <2>5
    <3>3. \A x, y, z \in 1..n : <<x, y>> \in better /\ <<y, z>> \in better => <<x, z>> \in better
      BY <2>3, <2>5
    <3> QED BY <3>1, <3>2, <3>3 DEF Orders
  <2> DEFINE list == InOrder(1..n, better)
  <2>7. Cardinality(1..n) = n
    BY <1>1, FS_Interval
  <2>8. Enumerates(1..n, better, list)
    BY <2>6, InOrderLists
  <2> HIDE DEF list
  <2>13. /\ list \in [1..n -> 1..n] /\ \A x \in 1..n : \E k \in 1..n : list[k] = x
         /\ \A i, j \in 1..n : i < j => <<list[i], list[j]>> \in better
    BY <2>7, <2>8 DEF Enumerates
  <2> HIDE DEF n
  <2>14. 1 \in 1..n
    BY <1>1
  <2>9. /\ list[1] \in 1..n /\ \A x \in 1..n : \E k \in 1..n : list[k] = x
        /\ \A j \in 1..n : 1 < j => <<list[1], list[j]>> \in better
    BY <2>13, <2>14
  <2>10. ASSUME NEW x \in 1..n PROVE x = list[1] \/ <<list[1], x>> \in better
    <3>1. PICK k \in 1..n : list[k] = x
      BY <2>9
    <3>2. k = 1 \/ 1 < k
      BY <1>1
    <3> QED BY <2>9, <3>1, <3>2
  <2>11. ASSUME NEW j \in 1..n
         PROVE  score(j) < score(list[1]) \/ (score(j) = score(list[1]) /\ list[1] <= j)
    <3>3. score(j) \in Int /\ score(list[1]) \in Int
      <4>1. \A x \in 1..n : score(x) \in Int
        BY <2>3 DEF n
      <4> QED BY <2>9, <4>1
    <3>4. j \in Int /\ list[1] \in Int
      <4>1. n \in Nat
        BY <1>1
      <4>2. list[1] \in 1..n
        BY <2>9
      <4> QED BY <4>1, <4>2
    <3>1. score(j) \in Int /\ score(list[1]) \in Int /\ j \in Int /\ list[1] \in Int
      BY <3>3, <3>4
    <3>2. j = list[1] \/ score(list[1]) > score(j) \/ (score(list[1]) = score(j) /\ list[1] < j)
      BY <2>5, <2>9, <2>10
    <3> QED BY <3>1, <3>2
  <2>12. \E i \in 1..n : \A j \in 1..n : score(j) < score(i) \/ (score(j) = score(i) /\ i <= j)
    BY <2>9, <2>11
  <2> QED BY <1>1, <2>4, <2>12
<1> QED BY <1>2, <1>3

\* What remains and what is chosen, of candidates that are all different.
Differ(s) == \A i, j \in DOMAIN s : i # j => s[i] # s[j]
Picking(ix) ==
    {s \in [remaining : Seq(Ids(ix)), chosen : Seq(Ids(ix))] :
        /\ Differ(s.remaining) /\ Differ(s.chosen)
        /\ \A i \in DOMAIN s.remaining, j \in DOMAIN s.chosen : s.remaining[i] # s.chosen[j]}

LEMMA PickKeeps ==
    ASSUME NEW ix \in Indexes, NEW s \in Picking(ix), NEW weight \in Weights
    PROVE  Pick(ix, s, weight) \in Picking(ix)
<1> DEFINE w == Clamp(weight)
           m == s.remaining
           c == s.chosen
           best == BestPlace(ix, m, c, w)
           n == Len(m)
           m2 == swap_remove(m, best)
           c2 == Append(c, m[best])
<1>1. /\ m \in Seq(Ids(ix)) /\ c \in Seq(Ids(ix)) /\ Differ(m) /\ Differ(c)
      /\ \A i \in DOMAIN m, j \in DOMAIN c : m[i] # c[j]
  BY DEF Picking
<1>2. CASE m = <<>>
  BY <1>2 DEF Pick
<1>3. CASE m # <<>>
  <2>1. w \in {NaN} \cup (0..2)
    BY NumbersAssumption DEF Clamp, Weights
  <2>2. Pick(ix, s, weight) = [remaining |-> m2, chosen |-> c2]
    BY <1>3 DEF Pick
  <2> HIDE DEF m, c, w
  <2>3. best \in DOMAIN m
    BY <1>1, <1>3, <2>1, BestPlaceIs
  <2> HIDE DEF best
  <2>4. n \in Nat /\ n # 0 /\ DOMAIN m = 1..n /\ \A i \in 1..n : m[i] \in Ids(ix)
    BY <1>1, <1>3
  <2>5. m2 = [j \in 1..n - 1 |-> IF j = best THEN m[n] ELSE m[j]]
    BY DEF swap_remove
  <2> HIDE DEF n, m2
  <2>6. n - 1 \in Nat /\ n \in 1..n /\ \A j \in 1..n - 1 : j \in 1..n /\ j # n
    BY <2>4
  <2>7. m2 \in [1..n - 1 -> Ids(ix)]
    BY <2>4, <2>5, <2>6
  <2>8. m2 \in Seq(Ids(ix)) /\ DOMAIN m2 = 1..n - 1
    BY <2>6, <2>7
  <2>9. \A j \in 1..n - 1 : \E i \in 1..n : i # best /\ m2[j] = m[i] /\ i = IF j = best THEN n ELSE j
    BY <2>4, <2>5, <2>6
  <2>10. Differ(m2)
    BY SMTT(30), <1>1, <2>4, <2>6, <2>8, <2>9 DEF Differ
  <2>11. m[best] \in Ids(ix)
    BY <2>3, <2>4
  <2>12. /\ c2 \in Seq(Ids(ix)) /\ DOMAIN c2 = 1..Len(c) + 1 /\ Len(c) \in Nat /\ DOMAIN c = 1..Len(c)
         /\ \A i \in 1..Len(c) : c2[i] = c[i]
         /\ c2[Len(c) + 1] = m[best]
    BY <1>1, <2>11
  <2> HIDE DEF c2
  <2>13. Differ(c2)
    BY <1>1, <2>3, <2>12 DEF Differ
  <2>14. ASSUME NEW j \in DOMAIN m2, NEW i \in DOMAIN c2 PROVE m2[j] # c2[i]
    <3>1. PICK x \in 1..n : x # best /\ m2[j] = m[x]
      BY <2>8, <2>9
    <3>2. CASE i \in 1..Len(c)
      BY <1>1, <2>4, <2>12, <3>1, <3>2
    <3>3. CASE i \notin 1..Len(c)
      <4>1. c2[i] = m[best]
        BY <2>12, <3>3
      <4> QED BY <1>1, <2>3, <2>4, <3>1, <4>1 DEF Differ
    <3> QED BY <3>2, <3>3
  <2>15. [remaining |-> m2, chosen |-> c2] \in Picking(ix)
    <3>1. [remaining |-> m2, chosen |-> c2] \in [remaining : Seq(Ids(ix)), chosen : Seq(Ids(ix))]
      BY <2>8, <2>12
    <3> QED BY <2>10, <2>13, <2>14, <3>1 DEF Picking
  <2> QED BY <2>2, <2>15
<1> QED BY <1>2, <1>3

\* The picks are candidates, each at most once.
LEMMA DiversifyIs ==
    ASSUME NEW ix \in Indexes, NEW candidates \in Seq(Ids(ix)), Differ(candidates),
           NEW k \in Nat, NEW weight \in Weights
    PROVE  diversify(ix, candidates, k, weight) \in Seq(Ids(ix)) /\ Differ(diversify(ix, candidates, k, weight))
<1> DEFINE V == Picking(ix)
           a == [remaining |-> candidates, chosen |-> <<>>]
           G == [n \in 1..k |-> [s \in V |-> Pick(ix, s, weight)]]
           step(f) == [n \in 0..k |-> IF n = 0 THEN a ELSE Pick(ix, f[n - 1], weight)]
           picked == CHOOSE f : f = step(f)
<1>1. a \in V
  <2>1. <<>> \in Seq(Ids(ix)) /\ DOMAIN <<>> = {}
    OBVIOUS
  <2> QED BY <2>1 DEF Picking, Differ
<1>2. G \in [1..k -> [V -> V]]
  BY PickKeeps
<1>3. diversify(ix, candidates, k, weight) = picked[k].chosen
  BY DEF diversify
<1> HIDE DEF a, G
<1>4. PICK f : Follows(k, V, a, G, f)
  BY <1>1, <1>2, Recursion
<1>5. f \in [0..k -> V] /\ f[0] = a /\ \A n \in 1..k : f[n] = G[n][f[n - 1]]
  BY <1>4 DEF Follows
<1>6. \A n \in 1..k : f[n] = Pick(ix, f[n - 1], weight)
  BY <1>5 DEF G
<1> HIDE DEF V
<1>7. f = step(f)
  BY <1>5, <1>6
<1>8. picked = step(picked)
  BY <1>7
<1> HIDE DEF picked
<1>9. picked[0] = a /\ \A n \in 1..k : picked[n] = Pick(ix, picked[n - 1], weight)
  BY <1>8
<1> DEFINE S == {n \in 0..k : picked[n] \in V}
<1>10. 0..k \subseteq S
  <2>1. 0 \in S
    BY <1>1, <1>9
  <2>2. ASSUME NEW n \in 1..k, n - 1 \in S PROVE n \in S
    BY <1>9, <2>2, PickKeeps DEF V
  <2> HIDE DEF S
  <2> QED BY <2>1, <2>2, Induction
<1>11. picked[k] \in V
  BY <1>10
<1> QED BY <1>3, <1>11 DEF V, Picking


(* A reranked query. *)

LEMMA QuotientIs ==
    ASSUME NEW x \in Nat, NEW m \in Nat \ {0}
    PROVE  x \div m \in Nat /\ (x \div m) * m <= x /\ x < (x \div m) * m + m
OBVIOUS

LEMMA TimesIs ==
    ASSUME NEW a \in Int, NEW b \in Int, NEW m \in Nat
    PROVE  a * m \in Int /\ b * m \in Int /\ (a <= b => a * m <= b * m) /\ (a * m < b * m => a < b)
OBVIOUS

LEMMA NextTimesIs == ASSUME NEW a \in Int, NEW m \in Nat PROVE (a + 1) * m = a * m + m /\ (a - 1) * m = a * m - m
OBVIOUS

\* The batches have each place of the pool, and no other.
LEMMA BatchesAreThePool ==
    ASSUME NEW S, NEW pool \in Seq(S)
    PROVE  /\ \A b \in DOMAIN Batches(pool) : \A i \in DOMAIN Batches(pool)[b] :
                  Place(b, i) \in DOMAIN pool /\ Batches(pool)[b][i] = pool[Place(b, i)]
           /\ \A p \in DOMAIN pool :
                  \E b \in DOMAIN Batches(pool) : \E i \in DOMAIN Batches(pool)[b] : Place(b, i) = p
<1> DEFINE n == Len(pool)
           m == RERANK_BATCH
           last == (n + m - 1) \div m
           upto(b) == IF b * m < n THEN b * m ELSE n
           batch(b) == SubSeq(pool, (b - 1) * m + 1, upto(b))
<1>1. n \in Nat /\ m \in Nat \ {0} /\ DOMAIN pool = 1..n
  BY NumbersAssumption
<1>2. Batches(pool) = [b \in 1..last |-> batch(b)]
  BY DEF Batches
<1> HIDE DEF n, m
<1>3. last \in Nat /\ last * m <= n + m - 1 /\ n + m - 1 < last * m + m /\ last * m \in Int
  <2>1. n + m - 1 \in Nat
    BY <1>1
  <2> QED BY <1>1, <2>1, QuotientIs
<1> HIDE DEF last
<1>4. ASSUME NEW b \in 1..last
      PROVE  /\ (b - 1) * m \in Nat /\ b * m = (b - 1) * m + m
             /\ (b - 1) * m < n /\ upto(b) \in Nat /\ upto(b) <= n
  <2>1. b \in Int /\ b - 1 \in Int /\ last \in Int /\ 0 <= b - 1 /\ b <= last /\ m \in Nat
    BY <1>1, <1>3
  <2>2. b * m \in Int /\ (b - 1) * m = b * m - m
    BY <2>1, NextTimesIs, TimesIs
  <2>3. 0 * m <= (b - 1) * m /\ (b - 1) * m \in Int
    BY <2>1, TimesIs
  <2>4. 0 * m = 0
    BY <1>1
  <2>5. b * m <= last * m
    BY <2>1, TimesIs
  <2>6. (b - 1) * m < n
    BY <1>1, <1>3, <2>2, <2>5
  <2>7. upto(b) \in Nat /\ upto(b) <= n
    BY <1>1, <2>2, <2>3, <2>4
  <2> HIDE DEF upto
  <2> QED BY <1>1, <2>2, <2>3, <2>4, <2>6, <2>7
<1>5. ASSUME NEW b \in 1..last
      PROVE  /\ DOMAIN batch(b) = 1..upto(b) - (b - 1) * m
             /\ \A i \in 1..upto(b) - (b - 1) * m :
                    (b - 1) * m + i \in 1..n /\ batch(b)[i] = pool[(b - 1) * m + i]
  <2> DEFINE first == (b - 1) * m
             to == upto(b)
  <2>1. first \in Nat /\ to \in Nat /\ to <= n /\ first < n /\ (to = n \/ to = first + m)
    BY <1>4
  <2> HIDE DEF first, to
  <2>2. \A i \in first + 1..to : pool[i] \in S
    BY <1>1, <2>1
  <2>3. /\ SubSeq(pool, first + 1, to) \in Seq(S)
        /\ Len(SubSeq(pool, first + 1, to)) = to - first
        /\ \A i \in 1..to - first : SubSeq(pool, first + 1, to)[i] = pool[first + i]
    BY <1>1, <2>1, <2>2
  <2>4. \A i \in 1..to - first : first + i \in 1..n
    BY <1>1, <2>1
  <2>5. DOMAIN SubSeq(pool, first + 1, to) = 1..to - first
    BY <2>3
  <2> QED BY <2>3, <2>4, <2>5 DEF first, to
<1> HIDE DEF batch
<1>6. ASSUME NEW b \in DOMAIN Batches(pool), NEW i \in DOMAIN Batches(pool)[b]
      PROVE  Place(b, i) \in DOMAIN pool /\ Batches(pool)[b][i] = pool[Place(b, i)]
  <2>1. b \in 1..last /\ Batches(pool)[b] = batch(b)
    BY <1>2
  <2>2. Place(b, i) = (b - 1) * m + i
    BY DEF Place, m
  <2> QED BY <1>1, <1>5, <2>1, <2>2
<1>7. ASSUME NEW p \in DOMAIN pool
      PROVE  \E b \in DOMAIN Batches(pool) : \E i \in DOMAIN Batches(pool)[b] : Place(b, i) = p
  <2> DEFINE d == (p - 1) \div m
             b == d + 1
             i == p - d * m
  <2>1. p \in 1..n /\ p - 1 \in Nat
    BY <1>1
  <2>10. d \in Nat /\ d * m <= p - 1 /\ p - 1 < d * m + m
    BY <1>1, <2>1, QuotientIs
  <2>11. d * m \in Int
    <3>1. d \in Int /\ m \in Nat
      BY <1>1, <2>10
    <3> HIDE DEF d
    <3> QED BY <3>1, TimesIs
  <2>2. d \in Nat /\ d * m <= p - 1 /\ p - 1 < d * m + m /\ d * m \in Int
    BY <2>10, <2>11
  <2> HIDE DEF d
  <2>3. b \in Int /\ b - 1 = d /\ b * m = d * m + m
    BY <1>1, <2>2, NextTimesIs
  <2>4. b \in 1..last
    <3>1. d * m < last * m
      BY <1>1, <1>3, <2>1, <2>2
    <3>2. d < last
      BY <1>1, <1>3, <2>2, <3>1, TimesIs
    <3> QED BY <1>3, <2>2, <3>2
  <2>5. i \in 1..upto(b) - (b - 1) * m
    BY <1>1, <2>1, <2>2, <2>3
  <2>6. (b - 1) * m + i = p
    BY <2>1, <2>2, <2>3
  <2> HIDE DEF b, i
  <2>7. b \in DOMAIN Batches(pool) /\ Batches(pool)[b] = batch(b)
    BY <1>2, <2>4
  <2>8. i \in DOMAIN Batches(pool)[b]
    BY <1>5, <2>4, <2>5, <2>7
  <2>9. Place(b, i) = p
    BY <2>6 DEF Place, m
  <2> QED BY <2>7, <2>8, <2>9
<1> QED BY <1>6, <1>7

\* The scores are those of the texts, one for each place.
LEMMA ScoresAre ==
    ASSUME NEW pool \in Seq(Hits(Int))
    PROVE  Scores(pool) = {[place |-> p, score |-> pool[p].row.text.cross] : p \in DOMAIN pool}
<1> DEFINE batches == Batches(pool)
           mark(p) == [place |-> p, score |-> pool[p].row.text.cross]
           of(b) == {[place |-> Place(b, i), score |-> batches[b][i].row.text.cross] : i \in DOMAIN batches[b]}
<1>1. /\ \A b \in DOMAIN batches : \A i \in DOMAIN batches[b] :
             Place(b, i) \in DOMAIN pool /\ batches[b][i] = pool[Place(b, i)]
      /\ \A p \in DOMAIN pool :
             \E b \in DOMAIN batches : \E i \in DOMAIN batches[b] : Place(b, i) = p
  BY BatchesAreThePool
<1>2. Scores(pool) = UNION {of(b) : b \in DOMAIN batches}
  BY DEF Scores
<1> HIDE DEF batches
<1>3. \A b \in DOMAIN batches : of(b) = {mark(Place(b, i)) : i \in DOMAIN batches[b]}
  BY <1>1
<1>4. \A s : s \in Scores(pool) <=> \E b \in DOMAIN batches : \E i \in DOMAIN batches[b] : s = mark(Place(b, i))
  <2> HIDE DEF mark, of
  <2>1. \A s : s \in Scores(pool) <=> \E b \in DOMAIN batches : s \in of(b)
    BY <1>2
  <2> QED BY <1>3, <2>1
<1> HIDE DEF mark
<1>5. \A s : s \in Scores(pool) <=> \E p \in DOMAIN pool : s = mark(p)
  BY <1>1, <1>4
<1>6. Scores(pool) = {mark(p) : p \in DOMAIN pool}
  BY <1>5
<1> QED BY <1>6 DEF mark


\* What reranking the pool for its k best gives.
Reranked(k, pool, best) ==
    /\ DOMAIN best = 1..Len(best)
    /\ \A i \in DOMAIN best : /\ best[i].place \in DOMAIN pool
                              /\ best[i].score = pool[best[i].place].row.text.cross
    /\ \A i, j \in DOMAIN best : i < j => best[i].place # best[j].place
    /\ \A p \in DOMAIN pool :
           \/ \E i \in DOMAIN best : best[i].place = p
           \/ \A i \in DOMAIN best : pool[p].row.text.cross <= best[i].score

LEMMA RerankIs ==
    ASSUME NEW pool \in Seq(Hits(Int)), NEW k \in Nat,
           \A p \in DOMAIN pool : pool[p].row.text.cross \in Int
    PROVE  Reranked(k, pool, rerank(pool, k))
<1> DEFINE scores == Scores(pool)
           better == Better(scores)
           list == InOrder(scores, better)
           best == rerank(pool, k)
           n == Len(pool)
           mark(p) == [place |-> p, score |-> pool[p].row.text.cross]
           f == [p \in 1..n |-> mark(p)]
<1>1. scores = {mark(p) : p \in DOMAIN pool} /\ n \in Nat /\ DOMAIN pool = 1..n
  BY ScoresAre
<1>2. best = Truncate(list, k)
  BY DEF rerank
<1> HIDE DEF scores, n
<1>3. /\ \A s \in scores : s.place \in 1..n /\ s.score = pool[s.place].row.text.cross /\ s.score \in Int
                           /\ s = mark(s.place)
      /\ \A p \in 1..n : mark(p) \in scores
  BY <1>1
<1>4. IsFiniteSet(scores)
  <2>1. f \in [1..n -> scores]
    BY <1>3
  <2>2. \A s \in scores : \E p \in 1..n : f[p] = s
    BY <1>1
  <2> HIDE DEF f
  <2>3. f \in Surjection(1..n, scores)
    BY <2>1, <2>2 DEF Surjection
  <2>4. IsFiniteSet(1..n)
    BY <1>1, FS_Interval
  <2> QED BY <2>3, <2>4, FS_Surjection
<1>5. \A s, t \in scores : <<s, t>> \in better <=>
          s.score > t.score \/ (s.score = t.score /\ s.place < t.place)
  BY DEF Better
<1> HIDE DEF better
<1>6. \A s, t \in scores : s # t => s.place # t.place
  BY <1>3
<1> HIDE DEF mark
<1>7. \A s \in scores : s.place \in Int /\ s.score \in Int
  BY <1>1, <1>3
<1>8. Orders(scores, better)
  <2>1. \A s \in scores : <<s, s>> \notin better
    BY <1>5, <1>7
  <2>2. \A s, t \in scores : s # t => <<s, t>> \in better \/ <<t, s>> \in better
    <3> SUFFICES ASSUME NEW s \in scores, NEW t \in scores, s # t
                 PROVE  <<s, t>> \in better \/ <<t, s>> \in better
      OBVIOUS
    <3>1. s.place # t.place
      BY <1>6
    <3> QED BY <1>5, <1>7, <3>1
  <2>3. \A s, t, u \in scores : <<s, t>> \in better /\ <<t, u>> \in better => <<s, u>> \in better
    <3> SUFFICES ASSUME NEW s \in scores, NEW t \in scores, NEW u \in scores,
                        <<s, t>> \in better, <<t, u>> \in better
                 PROVE  <<s, u>> \in better
      OBVIOUS
    <3>1. /\ s.score > t.score \/ (s.score = t.score /\ s.place < t.place)
          /\ t.score > u.score \/ (t.score = u.score /\ t.place < u.place)
      BY <1>5
    <3>2. s.score > u.score \/ (s.score = u.score /\ s.place < u.place)
      BY <1>7, <3>1
    <3> QED BY <1>5, <3>2
  <2> QED BY <1>4, <2>1, <2>2, <2>3 DEF Orders
<1>9. Enumerates(scores, better, list) /\ Cardinality(scores) \in Nat
  BY <1>8, InOrderLists
<1> DEFINE c == Cardinality(scores)
<1> HIDE DEF list, best
<1>10. /\ list \in Seq(scores) /\ DOMAIN list = 1..c /\ Len(list) = c
       /\ \A s \in scores : \E i \in 1..c : list[i] = s
       /\ \A i, j \in 1..c : i < j => <<list[i], list[j]>> \in better
  BY <1>9 DEF Enumerates
<1>11. /\ best \in Seq(scores) /\ DOMAIN best = 1..Len(best)
       /\ Len(best) = IF k < c THEN k ELSE c
       /\ \A i \in DOMAIN best : i \in 1..c /\ best[i] = list[i]
  BY <1>2, <1>10, TruncateIs
<1>12. \A i \in DOMAIN best : best[i] \in scores
  BY <1>11
<1>13. \A i \in DOMAIN best : /\ best[i].place \in DOMAIN pool
                              /\ best[i].score = pool[best[i].place].row.text.cross
  BY <1>1, <1>3, <1>12
<1>14. ASSUME NEW i \in DOMAIN best, NEW j \in DOMAIN best, i < j
       PROVE  best[i].place # best[j].place
  <2>1. <<best[i], best[j]>> \in better
    BY <1>10, <1>11, <1>14
  <2>2. <<best[i], best[i]>> \notin better /\ best[i] # best[j]
    BY <1>8, <1>12, <2>1 DEF Orders
  <2> QED BY <1>6, <1>12, <2>2
<1>15. ASSUME NEW p \in DOMAIN pool
       PROVE  \/ \E i \in DOMAIN best : best[i].place = p
              \/ \A i \in DOMAIN best : pool[p].row.text.cross <= best[i].score
  <2>1. mark(p) \in scores /\ mark(p).place = p /\ mark(p).score = pool[p].row.text.cross
    BY <1>1, <1>3 DEF mark
  <2>2. PICK j \in 1..c : list[j] = mark(p)
    BY <1>10, <2>1
  <2>3. CASE j \in DOMAIN best
    BY <1>11, <2>1, <2>2, <2>3
  <2>4. CASE j \notin DOMAIN best
    <3>1. \A i \in DOMAIN best : i < j
      <4> DEFINE l == Len(best)
      <4>1. j \in 1..c /\ DOMAIN best = 1..l /\ l = (IF k < c THEN k ELSE c) /\ c \in Nat
        BY <1>9, <1>11
      <4> HIDE DEF c, l
      <4> QED BY <2>4, <4>1
    <3>2. ASSUME NEW i \in DOMAIN best PROVE pool[p].row.text.cross <= best[i].score
      <4>1. <<best[i], mark(p)>> \in better
        BY <1>10, <1>11, <2>2, <3>1
      <4>2. best[i].score > mark(p).score \/ best[i].score = mark(p).score
        BY <1>5, <1>12, <2>1, <4>1
      <4>3. best[i].score \in Int /\ mark(p).score \in Int
        BY <1>7, <1>12, <2>1
      <4> QED BY <2>1, <4>2, <4>3
    <3> QED BY <3>2
  <2> QED BY <2>3, <2>4
<1>16. Reranked(k, pool, best)
  BY <1>11, <1>13, <1>14, <1>15 DEF Reranked
<1> QED BY <1>16 DEF best


\* The hits are rows of the table.
AreRows(hits) == \A i \in DOMAIN hits : hits[i].row \in ToSet(rows)
\* No row is there twice.
RowsDiffer(hits) == \A i, j \in DOMAIN hits : i # j => hits[i].row # hits[j].row

LEMMA DiverseIs ==
    ASSUME DbInv, NEW k \in Nat, NEW weight \in Weights
    PROVE  AreRows(query_diverse(k, weight)) /\ RowsDiffer(query_diverse(k, weight))
<1> DEFINE n == Larger(k * DIVERSE_FACTOR, DIVERSE_LEAST)
           near == search(index, n)
           ids == diversify(index, near, k, weight)
           scored == Scored(index, ids)
           hits == query_diverse(k, weight)
<1>1. index \in Indexes /\ rows \in Seq(Rows)
  BY DEF DbInv
<1>2. n \in Nat
  <2>1. DIVERSE_FACTOR \in Nat /\ DIVERSE_LEAST \in Nat
    BY NumbersAssumption
  <2>2. k * DIVERSE_FACTOR \in Nat
    BY <2>1
  <2> QED BY <2>1, <2>2 DEF Larger
<1> HIDE DEF n
<1>3. Nearest(index, n, near)
  BY <1>1, <1>2, SearchIs
<1>4. hits = resolve(scored) /\ scored = [i \in DOMAIN ids |-> [id |-> ids[i], score |-> Similarity(index, ids[i])]]
  BY DEF query_diverse, Scored, n
<1>5. near \in Seq(Ids(index)) /\ Differ(near)
  <2> HIDE DEF near
  <2>1. /\ near \in Seq(Visible(index)) /\ \A i, j \in DOMAIN near : i < j => <<near[i], near[j]>> \in Nearer(index)
    BY <1>3 DEF Nearest
  <2>2. near \in Seq(Ids(index))
    <3>1. Visible(index) \subseteq Ids(index)
      BY DEF Visible
    <3> QED BY <2>1, <3>1, SeqOfMore
  <2>3. Len(near) \in Nat /\ DOMAIN near = 1..Len(near) /\ \A i \in DOMAIN near : near[i] \in Ids(index)
    BY <2>2
  <2>4. \A x \in Ids(index) : <<x, x>> \notin Nearer(index)
    BY <1>1, NearerOrders DEF Orders
  <2>5. ASSUME NEW i \in DOMAIN near, NEW j \in DOMAIN near, i # j PROVE near[i] # near[j]
    <3>1. i < j \/ j < i
      BY <2>3, <2>5
    <3> QED BY <2>1, <2>3, <2>4, <3>1
  <2> QED BY <2>2, <2>5 DEF Differ
<1> HIDE DEF near
<1>6. ids \in Seq(Ids(index)) /\ Differ(ids)
  BY <1>1, <1>5, DiversifyIs
<1> HIDE DEF ids, scored, hits
<1>7. scored \in Seq([id : Nat, score : Int])
  <2> DEFINE E == [id : Nat, score : Int]
  <2>1. DOMAIN ids = 1..Len(ids) /\ Len(ids) \in Nat /\ \A i \in DOMAIN ids : ids[i] \in Ids(index)
    BY <1>6
  <2>2. \A i \in DOMAIN ids : [id |-> ids[i], score |-> Similarity(index, ids[i])] \in E
    BY <1>1, <2>1, IdsAre
  <2> HIDE DEF E
  <2>3. scored \in [1..Len(ids) -> E]
    BY <1>4, <2>1, <2>2
  <2>4. scored \in Seq(E)
    BY <2>1, <2>3
  <2> QED BY <2>4 DEF E
<1>8. Resolves(Int, scored, hits)
  BY <1>1, <1>4, <1>7, ResolveIs
<1>9. PICK from :
        /\ hits \in Seq(Hits(Int)) /\ DOMAIN from = DOMAIN hits
        /\ \A i \in DOMAIN hits : /\ from[i] \in DOMAIN scored
                                  /\ hits[i].row \in ToSet(rows)
                                  /\ hits[i].row.vector_id = scored[from[i]].id
        /\ \A i, j \in DOMAIN hits : i < j => from[i] < from[j]
  BY <1>8 DEF Resolves
<1>10. DOMAIN scored = DOMAIN ids /\ (\A x \in DOMAIN ids : scored[x].id = ids[x]) /\ DOMAIN ids \subseteq Int
  BY <1>4, <1>6
<1>11. ASSUME NEW i \in DOMAIN hits, NEW j \in DOMAIN hits, i # j PROVE hits[i].row # hits[j].row
  <2>1. i < j \/ j < i
    BY <1>9, <1>11
  <2>2. from[i] # from[j] /\ from[i] \in DOMAIN ids /\ from[j] \in DOMAIN ids
    BY <1>9, <1>10, <2>1
  <2>3. ids[from[i]] # ids[from[j]]
    BY <1>6, <2>2 DEF Differ
  <2> QED BY <1>9, <1>10, <2>2, <2>3
<1>12. AreRows(hits) /\ RowsDiffer(hits)
  BY <1>9, <1>11 DEF AreRows, RowsDiffer
<1> QED BY <1>12 DEF hits

LEMMA RerankedIs ==
    ASSUME DbInv, NEW k \in Nat, NEW n \in Nat
    PROVE  /\ AreRows(query_reranked(k, n)) /\ RowsDiffer(query_reranked(k, n))
           /\ \A i \in DOMAIN query_reranked(k, n) :
                  LET hit == query_reranked(k, n)[i]
                  IN  /\ hit.score = hit.row.text.cross
                      /\ \A h \in ToSet(query(Larger(n, k))) :
                             \/ \E j \in DOMAIN query_reranked(k, n) : query_reranked(k, n)[j].row = h.row
                             \/ h.row.text.cross <= hit.score
<1> DEFINE pool == query(Larger(n, k))
           best == rerank(pool, k)
           hits == query_reranked(k, n)
<1>1. Queried(Larger(n, k), pool)
  BY QueryIs DEF Larger
<1>2. hits = [i \in DOMAIN best |-> [row |-> pool[best[i].place].row, score |-> best[i].score]]
  BY DEF query_reranked
<1> HIDE DEF pool, hits
<1>3. /\ pool \in Seq(Hits(Int)) /\ \A p \in DOMAIN pool : pool[p].row \in ToSet(rows)
      /\ \A i, j \in DOMAIN pool : i < j => pool[i].row # pool[j].row
  BY <1>1 DEF Queried
<1>4. \A p \in DOMAIN pool : pool[p].row.text.cross \in Int
  BY <1>3, RowsAre
<1>5. Reranked(k, pool, best)
  BY <1>3, <1>4, RerankIs
<1> HIDE DEF best
<1>6. DOMAIN hits = DOMAIN best /\ DOMAIN pool \subseteq Int
  BY <1>2, <1>3
<1>7. ASSUME NEW i \in DOMAIN hits
      PROVE  /\ best[i].place \in DOMAIN pool /\ hits[i].row = pool[best[i].place].row
             /\ hits[i].score = best[i].score /\ hits[i].score = hits[i].row.text.cross
  BY <1>2, <1>5, <1>6 DEF Reranked
<1>8. AreRows(hits)
  BY <1>3, <1>7 DEF AreRows
<1>9. ASSUME NEW i \in DOMAIN hits, NEW j \in DOMAIN hits, i # j PROVE hits[i].row # hits[j].row
  <2>1. DOMAIN best = 1..Len(best)
    BY <1>5 DEF Reranked
  <2>2. i < j \/ j < i
    BY <1>6, <1>9, <2>1
  <2>3. best[i].place # best[j].place
    BY <1>5, <1>6, <2>2 DEF Reranked
  <2>4. best[i].place < best[j].place \/ best[j].place < best[i].place
    BY <1>6, <1>7, <2>3
  <2> QED BY <1>3, <1>7, <2>4
<1>10. ASSUME NEW i \in DOMAIN hits, NEW h \in ToSet(pool)
       PROVE  (\E j \in DOMAIN hits : hits[j].row = h.row) \/ h.row.text.cross <= hits[i].score
  <2>1. PICK p \in DOMAIN pool : pool[p] = h
    BY DEF ToSet
  <2>2. CASE \E j \in DOMAIN best : best[j].place = p
    BY <1>6, <1>7, <2>1, <2>2
  <2>3. CASE \A j \in DOMAIN best : pool[p].row.text.cross <= best[j].score
    BY <1>6, <1>7, <2>1, <2>3
  <2> QED BY <1>5, <2>2, <2>3 DEF Reranked
<1> QED BY <1>7, <1>8, <1>9, <1>10 DEF hits, pool, RowsDiffer


(* The fusion of two rankings. *)

\* A function that gives no member of a finite set twice gives each.
LEMMA EachIsThere ==
    ASSUME NEW S, IsFiniteSet(S), NEW s \in [1..Cardinality(S) -> S],
           \A i, j \in DOMAIN s : i < j => s[i] # s[j]
    PROVE  /\ Cardinality(S) \in Nat /\ s \in Seq(S) /\ Len(s) = Cardinality(S)
           /\ \A x \in S : \E i \in DOMAIN s : s[i] = x
<1> DEFINE n == Cardinality(S)
<1>1. n \in Nat
  BY FS_CardinalityType
<1> HIDE DEF n
<1>2. s \in [1..n -> S]
  BY DEF n
<1>3. ASSUME NEW i \in 1..n, NEW j \in 1..n, s[i] = s[j] PROVE i = j
  <2>1. ~(i < j) /\ ~(j < i)
    BY <1>2, <1>3
  <2> QED BY <1>1, <2>1
<1>4. s \in Injection(1..n, S)
  BY <1>2, <1>3 DEF Injection, IsInjective
<1>5. IsFiniteSet(1..n) /\ Cardinality(1..n) = n
  BY <1>1, FS_Interval
<1>6. s \in Surjection(1..n, S)
  BY <1>4, <1>5, FS_Injection DEF n
<1>7. s \in Seq(S) /\ Len(s) = n
  BY <1>1, <1>2
<1> QED BY <1>1, <1>2, <1>6, <1>7 DEF Surjection, n

\* A ranking has x before y, or is full without x.
Favours(list, k, x, y) ==
    /\ \A j \in DOMAIN list : list[j] = y => \E i \in DOMAIN list : i < j /\ list[i] = x
    /\ (\E i \in DOMAIN list : list[i] = x) \/ Len(list) = k

LEMMA NearFavours ==
    ASSUME DbInv, InStep, NEW k \in Nat, NEW q \in ToSet(rows), NEW r \in ToSet(rows),
           q.text.similarity > r.text.similarity
    PROVE  Favours(search(index, k), k, q.vector_id, r.vector_id)
<1> DEFINE ids == search(index, k)
           x == q.vector_id
           y == r.vector_id
<1>1. index \in Indexes
  BY DEF DbInv
<1>2. Nearest(index, k, ids)
  BY <1>1, SearchIs
<1>3. /\ x \in Visible(index) /\ y \in Visible(index)
      /\ Similarity(index, x) = q.text.similarity /\ Similarity(index, y) = r.text.similarity
      /\ q.text.similarity \in Int /\ r.text.similarity \in Int
  BY RowsAre
<1> HIDE DEF ids, x, y
<1>4. /\ ids \in Seq(Visible(index))
      /\ \A i, j \in DOMAIN ids : i < j => <<ids[i], ids[j]>> \in Nearer(index)
      /\ \/ \E i \in DOMAIN ids : ids[i] = x
         \/ Len(ids) = k /\ \A i \in DOMAIN ids : <<ids[i], x>> \in Nearer(index)
  BY <1>2, <1>3 DEF Nearest
<1>5. <<y, x>> \notin Nearer(index) /\ x # y
  BY <1>3 DEF Nearer
<1>6. ASSUME NEW j \in DOMAIN ids, ids[j] = y PROVE \E i \in DOMAIN ids : i < j /\ ids[i] = x
  <2>1. PICK i \in DOMAIN ids : ids[i] = x
    BY <1>4, <1>5, <1>6
  <2>2. ~(j < i) /\ i # j
    BY <1>4, <1>5, <1>6, <2>1
  <2>3. i \in Int /\ j \in Int
    BY <1>4
  <2>4. i < j
    BY <2>2, <2>3
  <2> QED BY <2>1, <2>4
<1>7. (\E i \in DOMAIN ids : ids[i] = x) \/ Len(ids) = k
  BY <1>4
<1>8. Favours(ids, k, x, y)
  BY <1>6, <1>7 DEF Favours
<1> QED BY <1>8 DEF ids, x, y

\* A list of ids without repetition.
LEMMA NearIs ==
    ASSUME DbInv, NEW k \in Nat
    PROVE  search(index, k) \in Seq(Nat) /\ Differ(search(index, k))
<1> DEFINE ids == search(index, k)
<1>1. index \in Indexes
  BY DEF DbInv
<1>2. Nearest(index, k, ids)
  BY <1>1, SearchIs
<1> HIDE DEF ids
<1>3. /\ ids \in Seq(Visible(index))
      /\ \A i, j \in DOMAIN ids : i < j => <<ids[i], ids[j]>> \in Nearer(index)
  BY <1>2 DEF Nearest
<1>4. Visible(index) \subseteq Ids(index) /\ Visible(index) \subseteq Nat
  BY <1>1, IdsAre DEF Visible
<1>5. ids \in Seq(Nat)
  BY <1>3, <1>4, SeqOfMore
<1>6. \A i \in DOMAIN ids : i \in Int /\ ids[i] \in Ids(index)
  <2>1. \A i \in DOMAIN ids : ids[i] \in Visible(index)
    BY <1>3
  <2>2. DOMAIN ids \subseteq Int
    BY <1>3
  <2> QED BY <1>4, <2>1, <2>2
<1>7. \A x \in Ids(index) : <<x, x>> \notin Nearer(index)
  BY <1>1, NearerOrders DEF Orders
<1>8. ASSUME NEW i \in DOMAIN ids, NEW j \in DOMAIN ids, i # j PROVE ids[i] # ids[j]
  <2>1. i < j \/ j < i
    BY <1>6, <1>8
  <2> QED BY <1>3, <1>6, <1>7, <2>1
<1>9. ids \in Seq(Nat) /\ Differ(ids)
  BY <1>5, <1>8 DEF Differ
<1> QED BY <1>9 DEF ids

LEMMA WordsAre ==
    ASSUME DbInv, NEW k \in Nat, NEW words \in bm25_search(k)
    PROVE  /\ words \in Seq(Nat) /\ Differ(words)
           /\ \A q, r \in ToSet(rows) : q.text.keywords > r.text.keywords =>
                  Favours(words, k, q.vector_id, r.vector_id)
<1> DEFINE M == Bm25Matches
           c == Cardinality(M)
<1>1. PICK t \in [1..c -> M] :
        /\ words = Truncate([i \in DOMAIN t |-> t[i].vector_id], k)
        /\ \A i, j \in DOMAIN t : i < j => t[i] # t[j] /\ ~(t[j].text.keywords > t[i].text.keywords)
  BY DEF bm25_search, OrdersBy
<1> DEFINE ids == [i \in DOMAIN t |-> t[i].vector_id]
<1>2. M \subseteq ToSet(rows)
  BY DEF Bm25Matches, ToSet
<1>3. \A r \in ToSet(rows) : r.text.keywords > 0 => r \in M
  BY DEF Bm25Matches, DbInv, Indexed, ToSet
<1>4. IsFiniteSet(M)
  BY <1>2, TableIsFinite, FS_Subset
<1> HIDE DEF M
<1>14. words = Truncate(ids, k)
  BY <1>1
<1>15. \A i, j \in DOMAIN t : i < j => t[i] # t[j]
  BY <1>1
<1>5. c \in Nat /\ DOMAIN t = 1..c /\ \A x \in M : \E i \in DOMAIN t : t[i] = x
  BY <1>4, <1>15, EachIsThere
<1>6. \A r \in ToSet(rows) : /\ r.vector_id \in Nat /\ r.text.keywords \in Nat
                             /\ \A q \in ToSet(rows) : q.vector_id = r.vector_id => q = r
  BY RowsAre
<1> HIDE DEF c
<1>7. \A i \in 1..c : t[i] \in ToSet(rows) /\ ids[i] = t[i].vector_id /\ ids[i] \in Nat
  BY <1>1, <1>2, <1>5, <1>6
<1>8. ids \in [1..c -> Nat]
  BY <1>5, <1>7
<1> HIDE DEF ids
<1>9. ids \in Seq(Nat) /\ DOMAIN ids = 1..c /\ Len(ids) = c
  BY <1>5, <1>8
<1>10. /\ words \in Seq(Nat) /\ Len(words) = (IF k < c THEN k ELSE c) /\ DOMAIN words = 1..Len(words)
       /\ \A i \in DOMAIN words : i \in 1..c /\ words[i] = ids[i]
  <2>1. /\ Truncate(ids, k) \in Seq(Nat)
        /\ Len(Truncate(ids, k)) = IF k < Len(ids) THEN k ELSE Len(ids)
        /\ DOMAIN Truncate(ids, k) = 1..Len(Truncate(ids, k))
        /\ \A i \in DOMAIN Truncate(ids, k) : i \in DOMAIN ids /\ Truncate(ids, k)[i] = ids[i]
    BY <1>9, TruncateIs
  <2> QED BY <1>9, <1>14, <2>1
<1>11. ASSUME NEW i \in 1..c, NEW j \in 1..c, i # j PROVE ids[i] # ids[j]
  <2>1. i < j \/ j < i
    BY <1>5, <1>11
  <2>2. t[i] # t[j]
    BY <1>1, <1>5, <2>1
  <2> QED BY <1>6, <1>7, <2>2
<1>12. Differ(words)
  BY <1>10, <1>11 DEF Differ
<1>13. ASSUME NEW q \in ToSet(rows), NEW r \in ToSet(rows), q.text.keywords > r.text.keywords
       PROVE  Favours(words, k, q.vector_id, r.vector_id)
  <2>1. q \in M
    BY <1>3, <1>6, <1>13
  <2>2. PICK i \in 1..c : t[i] = q
    BY <1>5, <2>1
  <2>3. ASSUME NEW j \in DOMAIN words, words[j] = r.vector_id PROVE i < j /\ i \in DOMAIN words
    <3>1. j \in 1..c /\ t[j] = r
      BY <1>6, <1>7, <1>10, <2>3
    <3>6. q.text.keywords \in Nat /\ r.text.keywords \in Nat
      BY <1>6
    <3>7. i # j
      BY <1>13, <2>2, <3>1, <3>6
    <3>8. j < i => ~(t[i].text.keywords > t[j].text.keywords)
      BY <1>1, <1>5, <3>1
    <3>2. ~(j < i) /\ i # j
      BY <1>13, <2>2, <3>1, <3>7, <3>8
    <3>3. i < j
      BY <1>5, <3>1, <3>2
    <3>4. Len(words) \in Nat
      BY <1>10
    <3>5. i \in 1..Len(words)
      BY <1>5, <1>10, <3>3, <3>4
    <3> QED BY <1>10, <3>3, <3>5
  <2>4. i \in DOMAIN words => words[i] = q.vector_id
    BY <1>7, <1>10, <2>2
  <2>5. i \in DOMAIN words \/ Len(words) = k
    BY <1>5, <1>10
  <2> QED BY <2>3, <2>4, <2>5 DEF Favours
<1> QED BY <1>10, <1>12, <1>13


LEMMA ProductsAre ==
    ASSUME NEW m \in Nat \ {0}, NEW d \in Nat \ {0}, NEW e \in Nat \ {0}
    PROVE  m * d \in Nat \ {0} /\ m * e \in Nat \ {0} /\ (m * d) * e = (m * e) * d
OBVIOUS

\* What is divided is a multiple of each denominator.
LEMMA WholeIs ==
    ASSUME NEW ranks \in Nat
    PROVE  /\ Whole(ranks) \in Nat \ {0}
           /\ \A at \in 1..ranks : \E m \in Nat \ {0} : Whole(ranks) = m * (RRF_K + at)
<1> DEFINE V == Nat \ {0}
           G == [n \in 1..ranks |-> [p \in V |-> p * (RRF_K + n)]]
           step(f) == [n \in 0..ranks |-> IF n = 0 THEN 1 ELSE f[n - 1] * (RRF_K + n)]
           product == CHOOSE f : f = step(f)
<1>1. RRF_K \in Nat
  BY NumbersAssumption
<1>2. \A n \in 1..ranks : RRF_K + n \in V
  BY <1>1
<1>3. ASSUME NEW p \in V, NEW n \in 1..ranks PROVE p * (RRF_K + n) \in V
  BY <1>2, ProductsAre
<1>4. G \in [1..ranks -> [V -> V]] /\ 1 \in V
  BY <1>3
<1>5. Whole(ranks) = product[ranks]
  BY DEF Whole
<1> HIDE DEF G, V
<1>6. PICK f : Follows(ranks, V, 1, G, f)
  BY <1>4, Recursion
<1>7. f \in [0..ranks -> V] /\ f[0] = 1 /\ \A n \in 1..ranks : f[n] = G[n][f[n - 1]]
  BY <1>6 DEF Follows
<1>8. ASSUME NEW n \in 1..ranks PROVE f[n] = f[n - 1] * (RRF_K + n)
  <2>1. n - 1 \in 0..ranks
    OBVIOUS
  <2>2. f[n - 1] \in V /\ f[n] = G[n][f[n - 1]]
    BY <1>7, <2>1
  <2> QED BY <2>2 DEF G
<1>9. f = step(f)
  BY <1>7, <1>8
<1>10. product = step(product)
  BY <1>9
<1> HIDE DEF product
<1>11. product[0] = 1 /\ \A n \in 1..ranks : product[n] = product[n - 1] * (RRF_K + n)
  BY <1>10
<1> DEFINE S == {n \in 0..ranks : /\ product[n] \in V
                                  /\ \A at \in 1..n : \E m \in V : product[n] = m * (RRF_K + at)}
<1>12. 0 \in S
  BY <1>4, <1>11
<1>13. ASSUME NEW n \in 1..ranks, n - 1 \in S PROVE n \in S
  <2>1. product[n - 1] \in V /\ product[n] = product[n - 1] * (RRF_K + n)
    BY <1>11, <1>13
  <2>2. product[n] \in V
    BY <1>3, <2>1
  <2>3. ASSUME NEW at \in 1..n PROVE \E m \in V : product[n] = m * (RRF_K + at)
    <3>1. CASE at = n
      BY <2>1, <3>1
    <3>2. CASE at # n
      <4>1. at \in 1..n - 1 /\ at \in 1..ranks
        BY <3>2
      <4>2. PICK m \in V : product[n - 1] = m * (RRF_K + at)
        BY <1>13, <4>1
      <4>3. m * (RRF_K + n) \in V
        BY <1>3
      <4> DEFINE d == RRF_K + at
                 e == RRF_K + n
      <4>4. m \in Nat \ {0} /\ d \in Nat \ {0} /\ e \in Nat \ {0}
        BY <1>2, <4>1 DEF V
      <4> HIDE DEF d, e
      <4>5. (m * d) * e = (m * e) * d
        BY <4>4, ProductsAre
      <4>6. product[n] = (m * e) * d
        BY <2>1, <4>2, <4>5 DEF d, e
      <4> QED BY <4>3, <4>6 DEF d, e
    <3> QED BY <3>1, <3>2
  <2> QED BY <2>2, <2>3
<1> HIDE DEF S
<1>14. 0..ranks \subseteq S
  BY <1>12, <1>13, Induction
<1>15. ranks \in S
  BY <1>14
<1> QED BY <1>5, <1>15 DEF S, V

\* The place of an id, or 0.
PlaceOf(list, x) == SelectInSeq(list, LAMBDA y : y = x)

LEMMA PlaceInList ==
    ASSUME NEW list \in Seq(Nat), Differ(list), NEW x
    PROVE  /\ \A i \in DOMAIN list : list[i] = x => PlaceOf(list, x) = i
           /\ (\A i \in DOMAIN list : list[i] # x) => PlaceOf(list, x) = 0
<1> DEFINE I == {i \in 1..Len(list) : list[i] = x}
<1>1. PlaceOf(list, x) = IF I # {} THEN Min(I) ELSE 0
  BY DEF PlaceOf, SelectInSeq
<1>2. DOMAIN list = 1..Len(list) /\ Len(list) \in Nat
  OBVIOUS
<1>3. ASSUME NEW i \in DOMAIN list, list[i] = x PROVE PlaceOf(list, x) = i
  <2>1. I = {i}
    BY <1>2, <1>3 DEF Differ
  <2>2. I \in SUBSET Nat /\ I # {}
    BY <1>2, <2>1
  <2>3. Min(I) \in I
    BY <2>2, FirstPlace
  <2> QED BY <1>1, <2>1, <2>2, <2>3
<1> QED BY <1>1, <1>2, <1>3

LEMMA SmallerQuotient ==
    ASSUME NEW m \in Nat \ {0}, NEW n \in Nat \ {0}, NEW d \in Nat \ {0}, NEW e \in Nat \ {0},
           m * d = n * e, d < e
    PROVE  n < m
<1> SUFFICES ASSUME m <= n PROVE FALSE
  OBVIOUS
<1>1. m * d <= n * d
  OBVIOUS
<1>2. n * d < n * e
  OBVIOUS
<1> QED BY <1>1, <1>2

LEMMA ExactQuotient ==
    ASSUME NEW m \in Nat \ {0}, NEW d \in Nat \ {0}, NEW w, w = m * d PROVE w \div d = m
OBVIOUS

\* What a ranking of some weight gives to the fusion.
Shares(weight, list, whole) ==
    /\ \A x : Share(weight, list, x, whole) \in Nat
    /\ \A x : (\A i \in DOMAIN list : list[i] # x) => Share(weight, list, x, whole) = 0
    /\ weight = 0 => \A x : Share(weight, list, x, whole) = 0
    /\ weight # 0 => \A i \in DOMAIN list : Share(weight, list, list[i], whole) > 0
    /\ weight # 0 => \A i, j \in DOMAIN list : i < j =>
           Share(weight, list, list[i], whole) > Share(weight, list, list[j], whole)

LEMMA SharesAre ==
    ASSUME NEW weight \in 0..2, NEW list \in Seq(Nat), Differ(list), NEW ranks \in Nat, Len(list) <= ranks
    PROVE  Shares(weight, list, Whole(ranks))
<1> DEFINE w == Whole(ranks)
           place(x) == PlaceOf(list, x)
           part(i) == w \div (RRF_K + i)
           share(x) == Share(weight, list, x, w)
<1>1. RRF_K \in Nat /\ Len(list) \in Nat /\ DOMAIN list = 1..Len(list)
  BY NumbersAssumption
<1>2. /\ \A x : \A i \in DOMAIN list : list[i] = x => place(x) = i
      /\ \A x : (\A i \in DOMAIN list : list[i] # x) => place(x) = 0
  BY PlaceInList
<1>3. \A x : share(x) = IF place(x) = 0 THEN 0 ELSE weight * part(place(x))
  BY DEF Share, PlaceOf
<1> HIDE DEF place
<1>4. ASSUME NEW i \in DOMAIN list
      PROVE  /\ RRF_K + i \in Nat \ {0}
             /\ \E m \in Nat \ {0} : w = m * (RRF_K + i) /\ part(i) = m
  <2>1. i \in 1..ranks /\ RRF_K + i \in Nat \ {0}
    BY <1>1
  <2>2. PICK m \in Nat \ {0} : w = m * (RRF_K + i)
    BY <2>1, WholeIs
  <2> HIDE DEF w
  <2>3. w \div (RRF_K + i) = m
    BY <2>1, <2>2, ExactQuotient
  <2> QED BY <2>1, <2>2, <2>3
<1> HIDE DEF w
<1>5. ASSUME NEW i \in DOMAIN list, NEW j \in DOMAIN list, i < j PROVE part(i) > part(j)
  <2>1. PICK m \in Nat \ {0} : w = m * (RRF_K + i) /\ part(i) = m
    BY <1>4
  <2>2. PICK n \in Nat \ {0} : w = n * (RRF_K + j) /\ part(j) = n
    BY <1>4
  <2> DEFINE d == RRF_K + i
             e == RRF_K + j
  <2>3. d \in Nat \ {0} /\ e \in Nat \ {0} /\ d < e
    <3>1. i \in Nat /\ j \in Nat
      BY <1>1
    <3> QED BY <1>1, <1>4, <1>5, <3>1
  <2> HIDE DEF part, d, e
  <2>4. m * d = n * e
    BY <2>1, <2>2 DEF d, e
  <2>5. n < m
    BY <2>3, <2>4, SmallerQuotient
  <2> QED BY <2>1, <2>2, <2>5
<1>6. ASSUME NEW i \in DOMAIN list PROVE part(i) \in Nat /\ part(i) > 0 /\ i # 0
  <2>1. PICK m \in Nat \ {0} : part(i) = m
    BY <1>4
  <2> HIDE DEF part
  <2> QED BY <1>1, <2>1
<1> HIDE DEF part, share
<1>7. \A i \in DOMAIN list : share(list[i]) = weight * part(i)
  BY <1>2, <1>3, <1>6
<1>8. \A x : share(x) = 0 \/ \E i \in DOMAIN list : share(x) = weight * part(i)
  BY <1>2, <1>3
<1>9. \A x : share(x) \in Nat
  <2>1. \A i \in DOMAIN list : weight * part(i) \in Nat
    <3>1. \A n \in Nat : weight * n \in Nat
      OBVIOUS
    <3> QED BY <1>6, <3>1
  <2> QED BY <1>8, <2>1
<1>10. \A x : (\A i \in DOMAIN list : list[i] # x) => share(x) = 0
  BY <1>2, <1>3
<1>11. weight = 0 => \A x : share(x) = 0
  <2>1. \A n \in Nat : 0 * n = 0
    OBVIOUS
  <2> QED BY <1>6, <1>8, <2>1
<1>12. weight # 0 => \A i \in DOMAIN list : share(list[i]) > 0
  <2>1. \A n \in Nat : weight # 0 /\ n > 0 => weight * n > 0
    OBVIOUS
  <2> QED BY <1>6, <1>7, <2>1
<1>13. weight # 0 => \A i, j \in DOMAIN list : i < j => share(list[i]) > share(list[j])
  <2>1. \A m, n \in Nat : weight # 0 /\ m > n => weight * m > weight * n
    OBVIOUS
  <2> QED BY <1>5, <1>6, <1>7, <2>1
<1> QED BY <1>9, <1>10, <1>11, <1>12, <1>13 DEF Shares, share, w


LEMMA FavouredShares ==
    ASSUME NEW weight, NEW list, NEW whole, NEW k, NEW x, NEW y,
           Shares(weight, list, whole), Favours(list, k, x, y)
    PROVE  /\ Share(weight, list, x, whole) >= Share(weight, list, y, whole)
           /\ weight # 0 /\ (\E i \in DOMAIN list : list[i] = y) =>
                  Share(weight, list, x, whole) > Share(weight, list, y, whole)
           /\ weight # 0 => Share(weight, list, x, whole) > 0 \/ Len(list) = k
<1> DEFINE sx == Share(weight, list, x, whole)
           sy == Share(weight, list, y, whole)
<1>1. sx \in Nat /\ sy \in Nat
  BY DEF Shares
<1>2. CASE weight = 0
  <2>1. sx = 0 /\ sy = 0
    BY <1>2 DEF Shares
  <2> QED BY <1>2, <2>1
<1>3. CASE weight # 0
  <2>1. sx > 0 \/ Len(list) = k
    BY <1>3 DEF Shares, Favours
  <2>2. CASE \E i \in DOMAIN list : list[i] = y
    <3>1. PICK j \in DOMAIN list : list[j] = y
      BY <2>2
    <3>2. PICK i \in DOMAIN list : i < j /\ list[i] = x
      BY <3>1 DEF Favours
    <3>3. sx > sy
      BY <1>3, <3>1, <3>2 DEF Shares
    <3> HIDE DEF sx, sy
    <3>4. sx >= sy
      BY <1>1, <3>3
    <3> QED BY <2>1, <3>3, <3>4 DEF sx, sy
  <2>3. CASE ~\E i \in DOMAIN list : list[i] = y
    <3>1. sy = 0
      BY <2>3 DEF Shares
    <3> HIDE DEF sx, sy
    <3>2. sx >= sy
      BY <1>1, <3>1
    <3> QED BY <2>1, <2>3, <3>2 DEF sx, sy
  <2> QED BY <2>2, <2>3
<1> QED BY <1>2, <1>3

\* The score of an id in the fusion of two rankings.
Fused(alpha, near, words, x, whole) == Share(alpha, near, x, whole) + Share(2 - alpha, words, x, whole)

\* Favoured by both rankings, x has the higher score, or y has none and a full ranking has
\* scores only.
LEMMA FavouredScores ==
    ASSUME NEW alpha \in 0..2, NEW near, NEW words, NEW whole, NEW k, NEW x, NEW y,
           Shares(alpha, near, whole), Shares(2 - alpha, words, whole),
           Favours(near, k, x, y), Favours(words, k, x, y),
           \/ \E i \in DOMAIN near : near[i] = y
           \/ \E i \in DOMAIN words : words[i] = y
    PROVE  \/ Fused(alpha, near, words, x, whole) > Fused(alpha, near, words, y, whole)
           \/ /\ Fused(alpha, near, words, y, whole) = 0
              /\ \E list \in {near, words} : /\ Len(list) = k
                                             /\ \A i \in DOMAIN list : Fused(alpha, near, words, list[i], whole) > 0
<1> DEFINE nx == Share(alpha, near, x, whole)
           ny == Share(alpha, near, y, whole)
           wx == Share(2 - alpha, words, x, whole)
           wy == Share(2 - alpha, words, y, whole)
           both(z) == Fused(alpha, near, words, z, whole)
<1>1. nx \in Nat /\ ny \in Nat /\ wx \in Nat /\ wy \in Nat
  BY DEF Shares
<1>2. /\ nx >= ny /\ wx >= wy
      /\ alpha # 0 /\ (\E i \in DOMAIN near : near[i] = y) => nx > ny
      /\ 2 - alpha # 0 /\ (\E i \in DOMAIN words : words[i] = y) => wx > wy
      /\ alpha # 0 => nx > 0 \/ Len(near) = k
      /\ 2 - alpha # 0 => wx > 0 \/ Len(words) = k
  BY FavouredShares
<1>3. both(x) = nx + wx /\ both(y) = ny + wy
  BY DEF Fused
<1>4. alpha # 0 => \A i \in DOMAIN near : both(near[i]) > 0
  <2> SUFFICES ASSUME alpha # 0, NEW i \in DOMAIN near PROVE both(near[i]) > 0
    OBVIOUS
  <2> DEFINE a == Share(alpha, near, near[i], whole)
             b == Share(2 - alpha, words, near[i], whole)
  <2>1. a \in Nat /\ b \in Nat /\ a > 0 /\ both(near[i]) = a + b
    BY DEF Shares, Fused
  <2> HIDE DEF a, b, both
  <2> QED BY <2>1
<1>5. 2 - alpha # 0 => \A i \in DOMAIN words : both(words[i]) > 0
  <2> SUFFICES ASSUME 2 - alpha # 0, NEW i \in DOMAIN words PROVE both(words[i]) > 0
    OBVIOUS
  <2> DEFINE a == Share(alpha, near, words[i], whole)
             b == Share(2 - alpha, words, words[i], whole)
  <2>1. a \in Nat /\ b \in Nat /\ b > 0 /\ both(words[i]) = a + b
    BY DEF Shares, Fused
  <2> HIDE DEF a, b, both
  <2> QED BY <2>1
<1>6. (alpha = 0 => ny = 0) /\ (2 - alpha = 0 => wy = 0)
  BY DEF Shares
<1>7. /\ (~\E i \in DOMAIN near : near[i] = y) => ny = 0
      /\ (~\E i \in DOMAIN words : words[i] = y) => wy = 0
  BY DEF Shares
<1> HIDE DEF nx, ny, wx, wy, both
<1>8. CASE nx > ny \/ wx > wy
  <2>1. nx + wx > ny + wy
    BY <1>1, <1>2, <1>8
  <2> QED BY <1>3, <2>1 DEF both
<1>9. CASE ~(nx > ny \/ wx > wy)
  <2>1. CASE alpha = 0
    <3>1. ~\E i \in DOMAIN words : words[i] = y
      BY <1>2, <1>9, <2>1
    <3>2. ny = 0 /\ wy = 0 /\ ~(wx > 0)
      BY <1>6, <1>7, <1>9, <2>1, <3>1
    <3>3. Len(words) = k /\ \A i \in DOMAIN words : both(words[i]) > 0
      BY <1>2, <1>5, <2>1, <3>2
    <3> QED BY <1>3, <3>2, <3>3 DEF both
  <2>2. CASE alpha = 2
    <3>1. ~\E i \in DOMAIN near : near[i] = y
      BY <1>2, <1>9, <2>2
    <3>2. ny = 0 /\ wy = 0 /\ ~(nx > 0)
      BY <1>6, <1>7, <1>9, <2>2, <3>1
    <3>3. Len(near) = k /\ \A i \in DOMAIN near : both(near[i]) > 0
      BY <1>2, <1>4, <2>2, <3>2
    <3> QED BY <1>3, <3>2, <3>3 DEF both
  <2>3. CASE alpha = 1
    BY <1>2, <1>9, <2>3
  <2> QED BY <2>1, <2>2, <2>3
<1> QED BY <1>8, <1>9

\* The first n of a list differ, and each has a place in s before j.
AreBefore(list, n, s, j) ==
    /\ \A i, h \in 1..n : i # h => list[i] # list[h]
    /\ \A i \in 1..n : \E p \in 1..j - 1 : s[p] = list[i]

\* Those that are all before a place are fewer than it says.
LEMMA FewerThanThePlace ==
    ASSUME NEW n \in Nat, NEW list, NEW s, NEW j \in Nat \ {0}, AreBefore(list, n, s, j)
    PROVE  n < j
<1> DEFINE f == [i \in 1..n |-> CHOOSE p \in 1..j - 1 : s[p] = list[i]]
<1>1. \A i \in 1..n : f[i] \in 1..j - 1 /\ s[f[i]] = list[i]
  BY DEF AreBefore
<1>2. f \in [1..n -> 1..j - 1]
  BY <1>1
<1> HIDE DEF f
<1>7. ASSUME NEW a \in 1..n, NEW b \in 1..n, f[a] = f[b] PROVE a = b
  <2>1. list[a] = list[b]
    BY <1>1, <1>7
  <2> QED BY <2>1 DEF AreBefore
<1>3. f \in Injection(1..n, 1..j - 1)
  BY <1>2, <1>7 DEF Injection, IsInjective
<1>4. j - 1 \in Nat
  OBVIOUS
<1>5. /\ IsFiniteSet(1..n) /\ Cardinality(1..n) = n
      /\ IsFiniteSet(1..j - 1) /\ Cardinality(1..j - 1) = j - 1
  <2>1. \A m \in Nat : IsFiniteSet(1..m) /\ Cardinality(1..m) = m
    <3> SUFFICES ASSUME NEW m \in Nat PROVE IsFiniteSet(1..m) /\ Cardinality(1..m) = m
      OBVIOUS
    <3> QED BY FS_Interval
  <2> QED BY <1>4, <2>1
<1>6. n <= j - 1
  BY <1>3, <1>5, FS_Injection
<1> QED BY <1>4, <1>6


\* The hits are rows, and while the ids are in step a row that is better for both rankings
\* than a hit is before it.
LEMMA HybridIs ==
    ASSUME DbInv, NEW k \in Nat, NEW weight \in Weights, NEW hits \in query_hybrid(k, weight)
    PROVE  /\ AreRows(hits)
           /\ InStep => \A j \in DOMAIN hits : \A q \in ToSet(rows) :
                  /\ q.text.similarity > hits[j].row.text.similarity
                  /\ q.text.keywords > hits[j].row.text.keywords
                  => \E i \in 1..j - 1 : hits[i].row = q
<1> DEFINE near == search(index, 2 * k)
           alpha == IF weight = NaN THEN 1 ELSE Clamp(weight)
<1>1. rows \in Seq(Rows) /\ 2 * k \in Nat
  BY DEF DbInv
<1>2. CASE k = 0
  <2>1. hits = <<>> /\ DOMAIN <<>> = {}
    BY <1>2 DEF query_hybrid
  <2> QED BY <2>1 DEF AreRows
<1>3. CASE k # 0
  <2>1. alpha \in 0..2 /\ 2 - alpha \in 0..2
    <3>1. alpha \in 0..2
      BY NumbersAssumption DEF Clamp, Weights
    <3> HIDE DEF alpha
    <3> QED BY <3>1
  <2>2. PICK words \in bm25_search(2 * k) : \E fused \in Fusions(near, words, alpha) :
            hits = resolve(Truncate(fused, k))
    BY <1>3 DEF query_hybrid
  <2>3. PICK fused \in Fusions(near, words, alpha) : hits = resolve(Truncate(fused, k))
    BY <2>2
  <2> HIDE DEF alpha
  <2>4. near \in Seq(Nat) /\ Differ(near) /\ words \in Seq(Nat) /\ Differ(words)
    BY <1>1, NearIs, WordsAre
  <2>5. \A q, r \in ToSet(rows) :
            /\ InStep /\ q.text.similarity > r.text.similarity
                   => Favours(near, 2 * k, q.vector_id, r.vector_id)
            /\ q.text.keywords > r.text.keywords => Favours(words, 2 * k, q.vector_id, r.vector_id)
    BY <1>1, NearFavours, WordsAre
  <2> HIDE DEF near
  <2> DEFINE ranks == Larger(Len(near), Len(words))
             whole == Whole(ranks)
             score(x) == Fused(alpha, near, words, x, whole)
             X == ToSet(near) \cup ToSet(words)
             n == Cardinality(X)
  <2>6. ranks \in Nat /\ Len(near) <= ranks /\ Len(words) <= ranks
    BY <2>4 DEF Larger
  <2>7. Shares(alpha, near, whole) /\ Shares(2 - alpha, words, whole)
    BY <2>1, <2>4, <2>6, SharesAre
  <2>8. PICK s \in [1..n -> X] :
            /\ \A i, j \in DOMAIN s : i < j => s[i] # s[j] /\ ~(score(s[j]) > score(s[i]))
            /\ fused = [i \in DOMAIN s |-> [id |-> s[i], score |-> score(s[i])]]
    BY DEF Fusions, OrdersBy, Fused
  <2> HIDE DEF whole
  <2>9. IsFiniteSet(X)
    <3>1. \A list \in Seq(Nat) : IsFiniteSet(ToSet(list))
      <4> SUFFICES ASSUME NEW list \in Seq(Nat) PROVE IsFiniteSet(ToSet(list))
        OBVIOUS
      <4>1. Len(list) \in Nat /\ list \in Surjection(1..Len(list), ToSet(list))
        BY DEF Surjection, ToSet
      <4> DEFINE l == Len(list)
      <4> HIDE DEF l
      <4>2. l \in Nat => IsFiniteSet(1..l)
        BY FS_Interval
      <4> QED BY <4>1, <4>2, FS_Surjection DEF l
    <3> QED BY <2>4, <3>1, FS_Union
  <2>10. /\ \A x : x \in X <=> \/ \E i \in DOMAIN near : near[i] = x
                               \/ \E i \in DOMAIN words : words[i] = x
    BY DEF ToSet
  <2>11. \A x \in X : score(x) \in Nat
    <3> SUFFICES ASSUME NEW x \in X PROVE score(x) \in Nat
      OBVIOUS
    <3>1. Share(alpha, near, x, whole) \in Nat /\ Share(2 - alpha, words, x, whole) \in Nat
      BY <2>7 DEF Shares
    <3> QED BY <3>1 DEF Fused
  <2> HIDE DEF X, score
  <2>12. n \in Nat /\ s \in Seq(X) /\ Len(s) = n /\ DOMAIN s = 1..n /\ \A x \in X : \E i \in DOMAIN s : s[i] = x
    <3>1. \A i, j \in DOMAIN s : i < j => s[i] # s[j]
      BY <2>8
    <3>2. n \in Nat /\ s \in Seq(X) /\ Len(s) = n /\ \A x \in X : \E i \in DOMAIN s : s[i] = x
      BY <2>8, <2>9, <3>1, EachIsThere, ZenonT(60)
    <3>3. DOMAIN s = 1..n
      BY <2>8, Zenon
    <3> QED BY <3>2, <3>3
  <2> HIDE DEF n
  <2> DEFINE E == [id : X, score : Nat]
  <2>13. fused \in Seq(E) /\ DOMAIN fused = 1..n /\ \A i \in 1..n : fused[i].id = s[i]
    <3>1. \A i \in 1..n : [id |-> s[i], score |-> score(s[i])] \in E
      BY <2>8, <2>11, <2>12
    <3> HIDE DEF E
    <3>2. fused \in [1..n -> E]
      BY <2>8, <2>12, <3>1
    <3>3. fused \in Seq(E)
      BY <2>12, <3>2
    <3> QED BY <2>8, <2>12, <3>2, <3>3
  <2> DEFINE cut == Truncate(fused, k)
  <2>14. cut \in Seq(E) /\ DOMAIN cut = 1..Len(cut) /\ Len(cut) \in Nat /\ Len(cut) <= k
         /\ \A i \in DOMAIN cut : i \in 1..n /\ cut[i] = fused[i]
    <3> HIDE DEF E
    <3>1. /\ cut \in Seq(E) /\ DOMAIN cut = 1..Len(cut)
          /\ Len(cut) = IF k < Len(fused) THEN k ELSE Len(fused)
          /\ \A i \in DOMAIN cut : i \in DOMAIN fused /\ cut[i] = fused[i]
      BY <2>13, TruncateIs
    <3>2. Len(fused) \in Nat
      BY <2>13
    <3>3. Len(cut) \in Nat /\ Len(cut) <= k
      BY <3>1, <3>2
    <3> QED BY <2>13, <3>1, <3>3
  <2> HIDE DEF cut
  <2>15. Resolves(Nat, cut, hits)
    BY <1>1, <2>3, <2>14, ResolveIs DEF cut
  <2>16. PICK from :
        /\ hits \in Seq(Hits(Nat)) /\ DOMAIN from = DOMAIN hits
        /\ \A i \in DOMAIN hits : /\ from[i] \in DOMAIN cut
                                  /\ hits[i].row \in ToSet(rows)
                                  /\ hits[i].row.vector_id = cut[from[i]].id
        /\ \A i, j \in DOMAIN hits : i < j => from[i] < from[j]
        /\ \A x \in DOMAIN cut : cut[x].id \in VectorIds(rows) => \E i \in DOMAIN hits : from[i] = x
    BY <2>15 DEF Resolves
  <2>17. DOMAIN hits = 1..Len(hits) /\ Len(hits) \in Nat
    BY <2>16
  <2>18. \A i \in DOMAIN hits : /\ from[i] \in 1..n /\ from[i] \in 1..k
                                /\ hits[i].row.vector_id = s[from[i]]
    <3> SUFFICES ASSUME NEW i \in DOMAIN hits
                 PROVE  from[i] \in 1..n /\ from[i] \in 1..k /\ hits[i].row.vector_id = s[from[i]]
      OBVIOUS
    <3>3. from[i] \in DOMAIN cut /\ hits[i].row.vector_id = cut[from[i]].id
      BY <2>16
    <3>1. from[i] \in DOMAIN cut /\ from[i] \in 1..n /\ hits[i].row.vector_id = s[from[i]]
      BY <2>13, <2>14, <3>3
    <3>2. from[i] \in 1..k
      BY <2>14, <3>1
    <3> QED BY <3>1, <3>2
  <2>19. ASSUME InStep, NEW j \in DOMAIN hits, NEW q \in ToSet(rows),
                q.text.similarity > hits[j].row.text.similarity,
                q.text.keywords > hits[j].row.text.keywords
         PROVE  \E i \in 1..j - 1 : hits[i].row = q
    <3> DEFINE r == hits[j].row
               x == q.vector_id
               y == r.vector_id
               a == from[j]
    <3>1. r \in ToSet(rows)
      BY <2>16
    <3>2. q.text.similarity \in Int /\ r.text.similarity \in Int
      BY <3>1, RowsAre
    <3>3. x # y /\ x \in VectorIds(rows) /\ \A p \in ToSet(rows) : p.vector_id = x => p = q
      <4>1. x = y => q = r
        BY <3>1, RowsAre
      <4>2. q # r
        BY <2>19, <3>2
      <4> QED BY <4>1, <4>2, RowsAre
    <3>4. a \in 1..n /\ a \in 1..k /\ a \in DOMAIN cut /\ s[a] = y
      BY <2>16, <2>18
    <3>5. Favours(near, 2 * k, x, y) /\ Favours(words, 2 * k, x, y)
      BY <2>5, <2>19, <3>1
    <3> HIDE DEF x, y, a
    <3>6. y \in X /\ ((\E l \in DOMAIN near : near[l] = y) \/ (\E l \in DOMAIN words : words[l] = y))
      BY <2>8, <2>10, <2>12, <3>4
    <3>14. x \in X
      BY <2>10, <3>5, <3>6 DEF Favours
    <3>15. PICK b \in 1..n : s[b] = x
      BY <2>12, <3>14
    <3>16. b < a
      <4> SUFFICES ASSUME ~(b < a) PROVE FALSE
        OBVIOUS
      <4>1. a < b
        BY <2>12, <3>3, <3>4, <3>15
      <4>2. ~(score(x) > score(y))
        BY <2>8, <2>12, <3>4, <3>15, <4>1
      <4>3. /\ score(y) = 0
            /\ \E list \in {near, words} : Len(list) = 2 * k /\ \A l \in DOMAIN list : score(list[l]) > 0
        BY <2>1, <2>7, <3>5, <3>6, <4>2, FavouredScores DEF score
      <4>4. PICK list \in {near, words} : Len(list) = 2 * k /\ \A l \in DOMAIN list : score(list[l]) > 0
        BY <4>3
      <4>5. list \in Seq(Nat) /\ Differ(list) /\ DOMAIN list = 1..2 * k /\ \A l \in DOMAIN list : list[l] \in X
        BY <2>4, <2>10, <4>4
      <4>6. ASSUME NEW l \in 1..2 * k PROVE \E p \in 1..a - 1 : s[p] = list[l]
        <5>1. list[l] \in X /\ score(list[l]) > 0
          BY <4>4, <4>5
        <5>2. PICK p \in 1..n : s[p] = list[l]
          BY <2>12, <5>1
        <5>3. p # a
          BY <3>4, <4>3, <5>1, <5>2
        <5>4. ~(a < p)
          BY <2>8, <2>12, <3>4, <4>3, <5>1, <5>2
        <5>5. p \in 1..a - 1
          BY <2>12, <3>4, <5>3, <5>4
        <5> QED BY <5>2, <5>5
      <4> DEFINE m == 2 * k
      <4>7. \A c, d \in 1..m : c # d => list[c] # list[d]
        BY <4>5 DEF Differ
      <4>8. a \in Nat \ {0} /\ a <= k /\ m \in Nat
        BY <1>1, <3>4
      <4>9. \A l \in 1..m : \E p \in 1..a - 1 : s[p] = list[l]
        BY <4>6
      <4> HIDE DEF m
      <4>10. AreBefore(list, m, s, a)
        BY <4>7, <4>9 DEF AreBefore
      <4>11. m < a
        BY <4>8, <4>10, FewerThanThePlace
      <4>12. 2 * k < a
        BY <4>11 DEF m
      <4> QED BY <4>8, <4>12
    <3>17. b \in DOMAIN cut /\ cut[b].id = x
      <4>1. b \in DOMAIN cut
        BY <2>12, <2>14, <3>4, <3>16
      <4> QED BY <2>13, <2>14, <3>15, <4>1
    <3>18. PICK i \in DOMAIN hits : from[i] = b
      BY <2>16, <3>3, <3>17
    <3>19. hits[i].row = q
      BY <2>16, <3>3, <3>17, <3>18
    <3>20. i < j
      <4>1. ~(j < i) /\ i # j
        BY <2>12, <2>16, <3>4, <3>15, <3>16, <3>18 DEF a
      <4> QED BY <2>17, <4>1
    <3> QED BY <2>17, <3>19, <3>20
  <2>20. AreRows(hits)
    BY <2>16 DEF AreRows
  <2> QED BY <2>19, <2>20
<1> QED BY <1>2, <1>3

(* The properties of the answers. *)

LEMMA HybridHold == ServeInv => HybridContradictsNeither
<1> SUFFICES ASSUME ServeInv, Answered({"query_hybrid"}), InStep, NEW j \in DOMAIN reply.results,
                    NEW q \in ToSet(rows),
                    q.text.similarity > reply.results[j].row.text.similarity,
                    q.text.keywords > reply.results[j].row.text.keywords
             PROVE  \E i \in 1..j - 1 : reply.results[i].row = q
  BY DEF HybridContradictsNeither, InStep
<1>1. DbInv /\ Asked.op = "query_hybrid" /\ Answered(Checked)
  BY DEF ServeInv, Answered, Checked, Reads, ModelCalls
<1>2. /\ Asked.top_k \in Nat /\ Asked.alpha \in Weights
      /\ reply.results \in query_hybrid(Asked.top_k, Asked.alpha)
  BY <1>1, AskedIs DEF IsCallOf, Results
<1> DEFINE k == Asked.top_k
           weight == Asked.alpha
           hits == reply.results
<1> HIDE DEF k, weight, hits
<1> QED BY <1>1, <1>2, HybridIs DEF k, weight, hits

LEMMA PicksHold == ServeInv => PicksAreTheirOwn
<1> SUFFICES ASSUME ServeInv PROVE PicksAreTheirOwn
  OBVIOUS
<1> DEFINE c == Asked
           rs == reply.results
<1>1. ASSUME Answered({"query_diverse"}) PROVE RowsDiffer(rs)
  <2>1. DbInv /\ c.op = "query_diverse" /\ Answered(Checked)
    BY <1>1 DEF ServeInv, Answered, Checked, Reads, ModelCalls
  <2>2. c.top_k \in Nat /\ c.weight \in Weights /\ rs = query_diverse(c.top_k, c.weight)
    BY <2>1, AskedIs DEF IsCallOf, Results
  <2> HIDE DEF c, rs
  <2> QED BY <2>1, <2>2, DiverseIs
<1>2. ASSUME Answered({"query_reranked"})
      PROVE  /\ RowsDiffer(rs)
             /\ \A i \in DOMAIN rs :
                    /\ rs[i].score = rs[i].row.text.cross
                    /\ \A h \in ToSet(query(Larger(c.n, c.top_k))) :
                           h.row \in RowsIn(rs) \/ h.row.text.cross <= rs[i].score
  <2>1. DbInv /\ c.op = "query_reranked" /\ Answered(Checked)
    BY <1>2 DEF ServeInv, Answered, Checked, Reads, ModelCalls
  <2>2. c.top_k \in Nat /\ c.n \in Nat /\ rs = query_reranked(c.top_k, c.n)
    BY <2>1, AskedIs DEF IsCallOf, Results
  <2> HIDE DEF c, rs
  <2>3. /\ RowsDiffer(rs)
        /\ \A i \in DOMAIN rs :
               /\ rs[i].score = rs[i].row.text.cross
               /\ \A h \in ToSet(query(Larger(c.n, c.top_k))) :
                      (\E j \in DOMAIN rs : rs[j].row = h.row) \/ h.row.text.cross <= rs[i].score
    BY <2>1, <2>2, RerankedIs
  <2>4. \A q : q \in RowsIn(rs) <=> \E j \in DOMAIN rs : rs[j].row = q
    BY DEF RowsIn
  <2> QED BY <2>3, <2>4
<1>3. Answered({"query_diverse", "query_reranked"}) =>
          Answered({"query_diverse"}) \/ Answered({"query_reranked"})
  BY DEF Answered
<1>4. Answered({"query_diverse", "query_reranked"}) => RowsDiffer(rs)
  BY <1>1, <1>2, <1>3
<1> QED BY <1>2, <1>4 DEF PicksAreTheirOwn, RowsDiffer

LEMMA HttpKeepsHold == ServeInv => HttpKeepsTheFilter
<1> SUFFICES ASSUME ServeInv, host = "http", Answered(ModelCalls)
             PROVE  \A h \in RowsIn(reply.results) : matches(QueryFilter(request.body), h)
  BY DEF HttpKeepsTheFilter, KeepsTheFilter
<1> DEFINE c == Asked
           rs == reply.results
           body == request.body
<1>1. DbInv /\ c.op \in ModelCalls /\ Answered(Checked)
  BY DEF ServeInv, Answered, Checked, Reads, ModelCalls
<1>2. /\ request \in HttpRequests /\ c = HttpCall(request) /\ IsCallOf(c) /\ rs \in Results(c)
  BY <1>1, AskedIs DEF Requests, CallOf
<1>3. c = HttpQuery(body)
  BY <1>1, <1>2, HttpQueryIs
<1>4. \/ c.op = "query_filtered" /\ c.filter = QueryFilter(body)
      \/ c.op \in ModelCalls \ {"query_filtered"} /\ ~IsFiltered(body)
  BY <1>1, <1>3, FiltersAreKept
<1> HIDE DEF c, rs, body
<1>5. c.top_k \in Nat
  BY <1>1, <1>2 DEF IsCallOf, ModelCalls
<1>6. CASE c.op = "query_filtered"
  <2>1. rs = query_filtered(c.top_k, c.filter) /\ c.filter = QueryFilter(body)
    BY <1>2, <1>4, <1>6 DEF Results
  <2>2. \A i \in DOMAIN rs : matches(QueryFilter(body), rs[i].row)
    BY <1>1, <1>5, <2>1, FilteredIs
  <2> QED BY <2>2 DEF RowsIn, rs, body
<1>7. CASE c.op # "query_filtered"
  <2>1. AreRows(rs)
    <3>1. CASE c.op = "query"
      <4>1. rs = query(c.top_k)
        BY <1>2, <3>1 DEF Results
      <4> QED BY <1>1, <1>5, <4>1, QueryIs DEF Queried, AreRows
    <3>2. CASE c.op = "query_diverse"
      <4>1. rs = query_diverse(c.top_k, c.weight) /\ c.weight \in Weights
        BY <1>2, <3>2 DEF Results, IsCallOf
      <4> QED BY <1>1, <1>5, <4>1, DiverseIs
    <3>3. CASE c.op = "query_hybrid"
      <4>1. rs \in query_hybrid(c.top_k, c.alpha) /\ c.alpha \in Weights
        BY <1>2, <3>3 DEF Results, IsCallOf
      <4> QED BY <1>1, <1>5, <4>1, HybridIs
    <3>4. CASE c.op = "query_reranked"
      <4>1. rs = query_reranked(c.top_k, c.n) /\ c.n \in Nat
        BY <1>2, <3>4 DEF Results, IsCallOf
      <4> QED BY <1>1, <1>5, <4>1, RerankedIs
    <3> QED BY <1>1, <1>7, <3>1, <3>2, <3>3, <3>4 DEF ModelCalls
  <2>2. ~IsFiltered(body)
    BY <1>4, <1>7
  <2>3. \A i \in DOMAIN rs : matches(QueryFilter(body), rs[i].row)
    BY <1>1, <2>1, <2>2, NoFilterMatches DEF AreRows
  <2> QED BY <2>3 DEF RowsIn, rs, body
<1> QED BY <1>6, <1>7

(* The neighbours of a chunk. *)

\* Rows are in one order, since no two have one id.
LEMMA PrecedesOrders ==
    ASSUME DbInv
    PROVE  /\ \A q, r \in ToSet(rows) : q.id = r.id => q = r
           /\ \A q \in ToSet(rows) : q.start \in Nat /\ q.id \in Nat /\ ~Precedes(q, q)
           /\ \A q, r \in ToSet(rows) : q # r => Precedes(q, r) \/ Precedes(r, q)
           /\ \A p, q, r \in ToSet(rows) : Precedes(p, q) /\ Precedes(q, r) => Precedes(p, r)
<1>1. rows \in Seq(Rows) /\ Numbered(rows, next_id)
  BY DEF DbInv
<1>2. DOMAIN rows = 1..Len(rows) /\ Len(rows) \in Nat
  BY <1>1
<1>3. ASSUME NEW q \in ToSet(rows) PROVE q.start \in Nat /\ q.id \in Nat
  <2>1. PICK i \in DOMAIN rows : rows[i] = q
    BY DEF ToSet
  <2> QED BY <1>1, <2>1, RowsHaveFields
<1>4. ASSUME NEW q \in ToSet(rows), NEW r \in ToSet(rows), q.id = r.id PROVE q = r
  <2>1. PICK i \in DOMAIN rows : rows[i] = q
    BY DEF ToSet
  <2>2. PICK j \in DOMAIN rows : rows[j] = r
    BY DEF ToSet
  <2>3. ~(i < j) /\ ~(j < i)
    <3>1. q.id \in Nat /\ r.id \in Nat
      BY <1>3
    <3>2. (i < j => q.id < r.id) /\ (j < i => r.id < q.id)
      BY <1>1, <2>1, <2>2 DEF Numbered
    <3> QED BY <1>4, <3>1, <3>2
  <2>4. i = j
    BY <1>2, <2>3
  <2> QED BY <2>1, <2>2, <2>4
<1>5. ASSUME NEW q \in ToSet(rows) PROVE ~Precedes(q, q)
  BY <1>3 DEF Precedes
<1>6. ASSUME NEW q \in ToSet(rows), NEW r \in ToSet(rows), q # r
      PROVE  Precedes(q, r) \/ Precedes(r, q)
  <2>1. q.id # r.id
    BY <1>4, <1>6
  <2>2. q.start \in Nat /\ q.id \in Nat /\ r.start \in Nat /\ r.id \in Nat
    BY <1>3
  <2> QED BY <2>1, <2>2 DEF Precedes
<1>7. ASSUME NEW p \in ToSet(rows), NEW q \in ToSet(rows), NEW r \in ToSet(rows),
             Precedes(p, q), Precedes(q, r)
      PROVE  Precedes(p, r)
  <2>1. /\ p.start \in Nat /\ p.id \in Nat /\ q.start \in Nat /\ q.id \in Nat
        /\ r.start \in Nat /\ r.id \in Nat
    BY <1>3
  <2> QED BY <1>7, <2>1 DEF Precedes
<1> QED BY <1>3, <1>4, <1>5, <1>6, <1>7

\* From self outward, q is before r.
IsNearer(q, r, following) == IF following THEN Precedes(q, r) ELSE Precedes(r, q)

\* The k nearest siblings on one side of self.
AreNearest(self, k, following, ns) ==
    /\ ns \in Seq(ToSet(rows)) /\ Len(ns) <= k
    /\ \A i \in DOMAIN ns : ns[i] \in Siblings(self, following)
    /\ \A i, j \in DOMAIN ns : i < j => IsNearer(ns[i], ns[j], following)
    /\ \A x \in Siblings(self, following) :
           \/ \E i \in DOMAIN ns : ns[i] = x
           \/ Len(ns) = k /\ \A i \in DOMAIN ns : IsNearer(ns[i], x, following)

LEMMA NeighborRowsAre ==
    ASSUME DbInv, NEW self \in ToSet(rows), NEW k \in Nat, NEW following \in BOOLEAN
    PROVE  AreNearest(self, k, following, neighbor_rows(self, k, following))
<1> DEFINE S == Siblings(self, following)
           before == Outward(S, following)
           list == InOrder(S, before)
           ns == neighbor_rows(self, k, following)
           c == Cardinality(S)
<1>1. S \subseteq ToSet(rows) /\ IsFiniteSet(ToSet(rows))
  BY TableIsFinite DEF Siblings
<1>2. IsFiniteSet(S)
  BY <1>1, FS_Subset
<1>3. ns = Truncate(list, k)
  BY DEF neighbor_rows
<1>4. \A x, y \in S : <<x, y>> \in before <=> IsNearer(x, y, following)
  BY DEF Outward, IsNearer
<1> HIDE DEF S, before, ns
<1>5. /\ \A x \in S : ~IsNearer(x, x, following)
      /\ \A x, y \in S : x # y => IsNearer(x, y, following) \/ IsNearer(y, x, following)
      /\ \A x, y, z \in S : IsNearer(x, y, following) /\ IsNearer(y, z, following) => IsNearer(x, z, following)
  <2>1. /\ \A q \in ToSet(rows) : ~Precedes(q, q)
        /\ \A q, r \in ToSet(rows) : q # r => Precedes(q, r) \/ Precedes(r, q)
        /\ \A p, q, r \in ToSet(rows) : Precedes(p, q) /\ Precedes(q, r) => Precedes(p, r)
    BY PrecedesOrders
  <2> QED BY <1>1, <2>1, Zenon DEF IsNearer
<1>6. Orders(S, before)
  BY <1>2, <1>4, <1>5 DEF Orders
<1>7. Enumerates(S, before, list) /\ c \in Nat
  BY <1>6, InOrderLists
<1> HIDE DEF list, c
<1>8. /\ list \in Seq(S) /\ Len(list) = c /\ DOMAIN list = 1..c
      /\ \A x \in S : \E i \in 1..c : list[i] = x
      /\ \A i, j \in 1..c : i < j => IsNearer(list[i], list[j], following)
  <2>1. /\ list \in [1..c -> S] /\ \A x \in S : \E i \in 1..c : list[i] = x
        /\ \A i, j \in 1..c : i < j => <<list[i], list[j]>> \in before
    BY <1>7 DEF Enumerates, c
  <2>2. list \in Seq(S) /\ Len(list) = c /\ DOMAIN list = 1..c
    BY <1>7, <2>1
  <2>3. \A i \in 1..c : list[i] \in S
    BY <2>1
  <2> QED BY <1>4, <2>1, <2>2, <2>3
<1>9. /\ ns \in Seq(S) /\ Len(ns) = (IF k < c THEN k ELSE c) /\ DOMAIN ns = 1..Len(ns)
      /\ \A i \in DOMAIN ns : i \in 1..c /\ ns[i] = list[i]
  BY <1>3, <1>8, TruncateIs
<1>10. ns \in Seq(ToSet(rows)) /\ \A i \in DOMAIN ns : ns[i] \in S
  <2>1. ns \in Seq(ToSet(rows))
    BY <1>1, <1>9, SeqOfMore
  <2> QED BY <1>9, <2>1
<1>11. \A i, j \in DOMAIN ns : i < j => IsNearer(ns[i], ns[j], following)
  BY <1>8, <1>9
<1>12. ASSUME NEW x \in S
       PROVE  \/ \E i \in DOMAIN ns : ns[i] = x
              \/ Len(ns) = k /\ \A i \in DOMAIN ns : IsNearer(ns[i], x, following)
  <2>1. PICK j \in 1..c : list[j] = x
    BY <1>8
  <2>2. CASE j \in DOMAIN ns
    BY <1>9, <2>1, <2>2
  <2>3. CASE j \notin DOMAIN ns
    <3>1. Len(ns) = k /\ \A i \in DOMAIN ns : i < j
      <4> DEFINE m == Len(ns)
      <4>1. j \in 1..c /\ DOMAIN ns = 1..m /\ m = (IF k < c THEN k ELSE c) /\ c \in Nat
        BY <1>7, <1>9
      <4> HIDE DEF m
      <4>2. m = k /\ \A i \in DOMAIN ns : i < j
        BY <2>3, <4>1
      <4> QED BY <4>2 DEF m
    <3> QED BY <1>8, <1>9, <2>1, <3>1
  <2> QED BY <2>2, <2>3
<1>13. Len(ns) <= k
  BY <1>7, <1>9
<1>14. AreNearest(self, k, following, ns)
  BY <1>10, <1>11, <1>12, <1>13 DEF AreNearest, S
<1> QED BY <1>14 DEF ns

\* A list without repetition has as many members as places.
LEMMA MembersAre ==
    ASSUME NEW S, NEW s \in Seq(S), \A i, j \in DOMAIN s : i < j => s[i] # s[j]
    PROVE  Cardinality(ToSet(s)) = Len(s)
<1> DEFINE n == Len(s)
<1>1. n \in Nat /\ DOMAIN s = 1..n /\ s \in [1..n -> S]
  OBVIOUS
<1>2. ToSet(s) = {s[i] : i \in 1..n}
  BY <1>1 DEF ToSet
<1> HIDE DEF n
<1>3. \A i, j \in 1..n : s[i] = s[j] => i = j
  <2> SUFFICES ASSUME NEW i \in 1..n, NEW j \in 1..n, i # j PROVE s[i] # s[j]
    OBVIOUS
  <2>1. i < j \/ j < i
    BY <1>1
  <2> QED BY <1>1, <2>1
<1>4. s \in [1..n -> ToSet(s)]
  BY <1>1, <1>2
<1>5. s \in Bijection(1..n, ToSet(s))
  BY <1>2, <1>3, <1>4 DEF Bijection, Injection, IsInjective, Surjection
<1>6. IsFiniteSet(1..n) /\ Cardinality(1..n) = n
  BY <1>1, FS_Interval
<1>7. Cardinality(ToSet(s)) = n
  BY <1>5, <1>6, FS_Bijection DEF ExistsBijection
<1> QED BY <1>7 DEF n

\* The two sides of a chunk: those before it, the nearest first, and those after it.
\* Between the farthest found on either side no sibling is missing.
Surround(found, all, self, k) ==
    /\ \A r \in all : (\E p, q \in found : Precedes(p, r) /\ Precedes(r, q)) => r \in found
    /\ \A r \in all \ found :
           Cardinality({q \in found : IF Precedes(r, self) THEN Precedes(q, self)
                                      ELSE Precedes(self, q)}) = k

LEMMA SidesAre ==
    ASSUME DbInv, NEW self \in ToSet(rows), self.start # NoOffset, NEW k \in Nat,
           NEW before, AreNearest(self, k, FALSE, before),
           NEW after, AreNearest(self, k, TRUE, after),
           NEW found, found = ToSet(before) \cup ToSet(after) \cup {self},
           NEW all, all = {r \in ToSet(rows) : r.source = self.source /\ r.start # NoOffset}
    PROVE  Surround(found, all, self, k)
<1>1. /\ \A q \in ToSet(rows) : ~Precedes(q, q)
      /\ \A q, r \in ToSet(rows) : q # r => Precedes(q, r) \/ Precedes(r, q)
      /\ \A p, q, r \in ToSet(rows) : Precedes(p, q) /\ Precedes(q, r) => Precedes(p, r)
  BY PrecedesOrders
<1> DEFINE B == ToSet(before)
           A == ToSet(after)
<1>2. /\ \A q \in B : \E i \in DOMAIN before : before[i] = q
      /\ \A q \in A : \E i \in DOMAIN after : after[i] = q
      /\ \A i \in DOMAIN before : before[i] \in B
      /\ \A i \in DOMAIN after : after[i] \in A
  BY DEF ToSet
<1>3. /\ \A q \in B : q \in ToSet(rows) /\ Precedes(q, self)
      /\ \A q \in A : q \in ToSet(rows) /\ Precedes(self, q)
  <2>1. /\ \A q \in Siblings(self, FALSE) : q \in ToSet(rows) /\ Precedes(q, self)
        /\ \A q \in Siblings(self, TRUE) : q \in ToSet(rows) /\ Precedes(self, q)
    BY DEF Siblings
  <2> HIDE DEF A, B
  <2> QED BY <1>2, <2>1 DEF AreNearest
<1>4. /\ Cardinality(B) = Len(before) /\ Cardinality(A) = Len(after)
  <2>1. ASSUME NEW f \in BOOLEAN, NEW ns, AreNearest(self, k, f, ns)
        PROVE  Cardinality(ToSet(ns)) = Len(ns)
    <3>1. ns \in Seq(ToSet(rows)) /\ \A i, j \in DOMAIN ns : i < j => IsNearer(ns[i], ns[j], f)
      BY <2>1 DEF AreNearest
    <3>2. \A i \in DOMAIN ns : ns[i] \in ToSet(rows)
      BY <3>1
    <3>3. \A i, j \in DOMAIN ns : i < j => ns[i] # ns[j]
      BY <1>1, <3>1, <3>2 DEF IsNearer
    <3> QED BY <3>1, <3>3, MembersAre
  <2> QED BY <2>1
<1>5. ASSUME NEW r \in all, Precedes(r, self), r \notin B
      PROVE  Cardinality(B) = k /\ \A q \in B : Precedes(r, q)
  <2>1. r \in Siblings(self, FALSE)
    BY <1>5 DEF Siblings
  <2>2. Len(before) = k /\ \A i \in DOMAIN before : IsNearer(before[i], r, FALSE)
    BY <1>2, <1>5, <2>1 DEF AreNearest
  <2> QED BY <1>2, <1>4, <2>2 DEF IsNearer
<1>6. ASSUME NEW r \in all, Precedes(self, r), r \notin A
      PROVE  Cardinality(A) = k /\ \A q \in A : Precedes(q, r)
  <2>1. r \in Siblings(self, TRUE)
    BY <1>6 DEF Siblings
  <2>2. Len(after) = k /\ \A i \in DOMAIN after : IsNearer(after[i], r, TRUE)
    BY <1>2, <1>6, <2>1 DEF AreNearest
  <2> QED BY <1>2, <1>4, <2>2 DEF IsNearer
<1> HIDE DEF A, B
<1>7. \A q : q \in found <=> q \in B \/ q \in A \/ q = self
  BY DEF A, B
<1>8. ASSUME NEW r \in all, r \notin found
      PROVE  r \in ToSet(rows) /\ (Precedes(r, self) \/ Precedes(self, r)) /\ r \notin A /\ r \notin B
  BY <1>1, <1>7, <1>8
<1>9. ASSUME NEW r \in all, NEW p \in found, NEW q \in found, Precedes(p, r), Precedes(r, q)
      PROVE  r \in found
  <2> SUFFICES ASSUME r \notin found PROVE FALSE
    OBVIOUS
  <2>1. CASE Precedes(r, self)
    <3>1. \A x \in found : Precedes(r, x)
      BY <1>1, <1>3, <1>5, <1>7, <1>8, <2>1
    <3>2. Precedes(r, p) /\ p \in ToSet(rows) /\ r \in ToSet(rows)
      BY <1>3, <1>7, <1>8, <3>1
    <3> QED BY <1>1, <1>9, <3>2
  <2>2. CASE Precedes(self, r)
    <3>1. \A x \in found : Precedes(x, r)
      BY <1>1, <1>3, <1>6, <1>7, <1>8, <2>2
    <3>2. Precedes(q, r) /\ q \in ToSet(rows) /\ r \in ToSet(rows)
      BY <1>3, <1>7, <1>8, <3>1
    <3> QED BY <1>1, <1>9, <3>2
  <2> QED BY <1>8, <2>1, <2>2
<1>10. /\ {q \in found : Precedes(q, self)} = B
       /\ {q \in found : Precedes(self, q)} = A
  <2>1. \A q \in found : Precedes(q, self) <=> q \in B
    BY <1>1, <1>3, <1>7
  <2>2. \A q \in found : Precedes(self, q) <=> q \in A
    BY <1>1, <1>3, <1>7
  <2> QED BY <1>7, <2>1, <2>2
<1>11. ASSUME NEW r \in all \ found
       PROVE  Cardinality({q \in found : IF Precedes(r, self) THEN Precedes(q, self)
                                         ELSE Precedes(self, q)}) = k
  <2>1. CASE Precedes(r, self)
    <3>1. {q \in found : IF Precedes(r, self) THEN Precedes(q, self) ELSE Precedes(self, q)} = B
      BY <1>10, <2>1
    <3> QED BY <1>5, <1>8, <2>1, <3>1
  <2>2. CASE ~Precedes(r, self)
    <3>1. {q \in found : IF Precedes(r, self) THEN Precedes(q, self) ELSE Precedes(self, q)} = A
      BY <1>10, <2>2
    <3> QED BY <1>6, <1>8, <2>2, <3>1
  <2> QED BY <2>1, <2>2
<1> QED BY <1>9, <1>11 DEF Surround

\* The row with an id, and where it is.
PlaceOfId(id) == SelectInSeq(rows, LAMBDA r : r.id = id)

LEMMA PlaceOfIdIs ==
    ASSUME rows \in Seq(Rows), NEW id, PlaceOfId(id) # 0
    PROVE  PlaceOfId(id) \in DOMAIN rows /\ rows[PlaceOfId(id)].id = id
<1> DEFINE I == {i \in 1..Len(rows) : rows[i].id = id}
<1>1. Len(rows) \in Nat /\ DOMAIN rows = 1..Len(rows)
  OBVIOUS
<1>2. PlaceOfId(id) = IF I # {} THEN Min(I) ELSE 0
  BY DEF PlaceOfId, SelectInSeq
<1>3. I \in SUBSET Nat /\ I # {}
  BY <1>1, <1>2
<1>4. Min(I) \in I
  BY <1>3, FirstPlace
<1> QED BY <1>1, <1>2, <1>3, <1>4

LEMMA AroundIs ==
    ASSUME DbInv, NEW self \in ToSet(rows), NEW k \in Nat,
           NEW before, AreNearest(self, k, FALSE, before),
           NEW after, AreNearest(self, k, TRUE, after),
           NEW rs, rs = Reverse(before) \o after
    PROVE  /\ ToSet(rs) = ToSet(before) \cup ToSet(after)
           /\ \A i, j \in DOMAIN rs : i < j => Precedes(rs[i], rs[j])
<1> DEFINE b == Len(before)
           a == Len(after)
           back == Reverse(before)
<1>1. /\ before \in Seq(ToSet(rows)) /\ b \in Nat /\ DOMAIN before = 1..b
      /\ after \in Seq(ToSet(rows)) /\ a \in Nat /\ DOMAIN after = 1..a
  BY DEF AreNearest
<1>2. /\ back \in Seq(ToSet(rows)) /\ Len(back) = b
      /\ \A i \in 1..b : b - i + 1 \in 1..b /\ back[i] = before[b - i + 1]
  <2> HIDE DEF b
  <2>1. back = [i \in 1..b |-> before[(b - i) + 1]]
    BY DEF Reverse, b
  <2> HIDE DEF back
  <2>2. \A i \in 1..b : b - i + 1 \in 1..b /\ back[i] = before[b - i + 1]
    BY <1>1, <2>1
  <2>3. \A i \in 1..b : back[i] \in ToSet(rows)
    BY <1>1, <2>2
  <2>4. back \in [1..b -> ToSet(rows)]
    BY <2>1, <2>3
  <2>5. back \in Seq(ToSet(rows)) /\ Len(back) = b
    BY <1>1, <2>4
  <2> QED BY <2>2, <2>5
<1> HIDE DEF back
<1>3. /\ Len(rs) = b + a /\ DOMAIN rs = 1..b + a
      /\ \A i \in 1..b : rs[i] = back[i]
      /\ \A i \in 1..a : rs[b + i] = after[i]
  <2>1. rs = back \o after
    BY DEF back
  <2>2. /\ Len(back \o after) = Len(back) + Len(after)
        /\ DOMAIN (back \o after) = 1..Len(back) + Len(after)
        /\ \A i \in 1..Len(back) : (back \o after)[i] = back[i]
        /\ \A i \in 1..Len(after) : (back \o after)[Len(back) + i] = after[i]
    <3> DEFINE S == ToSet(rows)
    <3>1. back \in Seq(S) /\ after \in Seq(S)
      BY <1>1, <1>2
    <3> HIDE DEF S
    <3> QED BY <3>1, JoinedIs
  <2> QED BY <1>2, <2>1, <2>2
<1> HIDE DEF a, b
<1>4. \A i \in 1..b : b - i + 1 \in 1..b /\ rs[i] = before[b - i + 1]
  BY <1>2, <1>3
<1>5. \A i \in 1..b + a : i \notin 1..b => i - b \in 1..a /\ rs[i] = after[i - b]
  <2> SUFFICES ASSUME NEW i \in 1..b + a, i \notin 1..b PROVE i - b \in 1..a /\ rs[i] = after[i - b]
    OBVIOUS
  <2>1. i - b \in 1..a /\ b + (i - b) = i
    BY <1>1
  <2> QED BY <1>3, <2>1
<1>6. ASSUME NEW q PROVE q \in ToSet(rs) <=> q \in ToSet(before) \cup ToSet(after)
  <2>1. /\ q \in ToSet(rs) <=> \E i \in 1..b + a : rs[i] = q
        /\ q \in ToSet(before) <=> \E i \in 1..b : before[i] = q
        /\ q \in ToSet(after) <=> \E i \in 1..a : after[i] = q
    BY <1>1, <1>3 DEF ToSet
  <2>2. ASSUME NEW i \in 1..b, before[i] = q PROVE \E j \in 1..b + a : rs[j] = q
    <3>1. b - i + 1 \in 1..b /\ b - i + 1 \in 1..b + a /\ b - (b - i + 1) + 1 = i
      BY <1>1
    <3> QED BY <1>4, <2>2, <3>1
  <2>3. ASSUME NEW i \in 1..a, after[i] = q PROVE \E j \in 1..b + a : rs[j] = q
    <3>1. b + i \in 1..b + a
      BY <1>1
    <3> QED BY <1>3, <2>3, <3>1
  <2>4. ASSUME NEW i \in 1..b + a, rs[i] = q
        PROVE  (\E j \in 1..b : before[j] = q) \/ (\E j \in 1..a : after[j] = q)
    BY <1>4, <1>5, <2>4
  <2> QED BY <2>1, <2>2, <2>3, <2>4
<1>7. ASSUME NEW i \in 1..b + a, NEW j \in 1..b + a, i < j PROVE Precedes(rs[i], rs[j])
  <2>1. /\ \A x, y \in 1..b : x < y => Precedes(before[y], before[x])
        /\ \A x, y \in 1..a : x < y => Precedes(after[x], after[y])
    BY <1>1 DEF AreNearest, IsNearer
  <2>2. /\ \A x \in 1..b : before[x] \in ToSet(rows) /\ Precedes(before[x], self)
        /\ \A x \in 1..a : after[x] \in ToSet(rows) /\ Precedes(self, after[x])
    <3>1. /\ \A q \in Siblings(self, FALSE) : q \in ToSet(rows) /\ Precedes(q, self)
          /\ \A q \in Siblings(self, TRUE) : q \in ToSet(rows) /\ Precedes(self, q)
      BY DEF Siblings
    <3> QED BY <1>1, <3>1 DEF AreNearest
  <2>3. CASE i \in 1..b /\ j \in 1..b
    <3>1. b - j + 1 < b - i + 1
      BY <1>1, <1>7
    <3> QED BY <1>4, <2>1, <2>3, <3>1
  <2>4. CASE i \in 1..b /\ j \notin 1..b
    <3>1. /\ rs[i] \in ToSet(rows) /\ Precedes(rs[i], self)
          /\ rs[j] \in ToSet(rows) /\ Precedes(self, rs[j])
      BY <1>4, <1>5, <2>2, <2>4
    <3> QED BY <3>1, PrecedesOrders
  <2>5. CASE i \notin 1..b /\ j \notin 1..b
    <3>1. i - b < j - b
      BY <1>1, <1>7
    <3> QED BY <1>5, <2>1, <2>5, <3>1
  <2>6. ~(i \notin 1..b /\ j \in 1..b)
    BY <1>1, <1>7
  <2> QED BY <2>3, <2>4, <2>5, <2>6
<1> QED BY <1>3, <1>6, <1>7

LEMMA NeighborsHold == ServeInv => NeighborsSurroundTheChunk
<1> SUFFICES ASSUME ServeInv, Answered({"neighbors"}), reply.results # <<>>
             PROVE  NeighborsSurroundTheChunk
  BY DEF NeighborsSurroundTheChunk
<1> DEFINE id == Asked.id
           k == Asked.radius
           rs == reply.results
           self == CHOOSE r \in ToSet(rows) : r.id = Asked.id
           place == PlaceOfId(id)
           before == neighbor_rows(self, k, FALSE)
           after == neighbor_rows(self, k, TRUE)
           all == {r \in ToSet(rows) : r.source = self.source /\ r.start # NoOffset}
           found == ToSet(rs) \cup {self}
<1>1. DbInv /\ rows \in Seq(Rows) /\ Asked.op = "neighbors" /\ Answered(Checked)
  BY DEF ServeInv, DbInv, Answered, Checked, Reads, ModelCalls
<1>2. k \in Nat /\ rs = get_neighbors(id, k)
  BY <1>1, AskedIs DEF IsCallOf, Results, neighbors
<1>3. get_neighbors(id, k) =
        IF place = 0 \/ rows[place].start = NoOffset THEN <<>>
        ELSE Reverse(neighbor_rows(rows[place], k, FALSE)) \o neighbor_rows(rows[place], k, TRUE)
  BY DEF get_neighbors, PlaceOfId
<1>4. place # 0 /\ rows[place].start # NoOffset
  BY <1>2, <1>3
<1>5. place \in DOMAIN rows /\ rows[place].id = id
  BY <1>1, <1>4, PlaceOfIdIs
<1> HIDE DEF place
<1>6. self = rows[place] /\ self \in ToSet(rows)
  <2>1. rows[place] \in ToSet(rows)
    BY <1>5 DEF ToSet
  <2>2. \A r \in ToSet(rows) : r.id = id => r = rows[place]
    BY <1>1, <1>5, <2>1, PrecedesOrders
  <2> QED BY <1>5, <2>1, <2>2
<1>7. rs = Reverse(before) \o after /\ self.start # NoOffset
  BY <1>2, <1>3, <1>4, <1>6
<1> HIDE DEF self, rs, k
<1>8. AreNearest(self, k, FALSE, before) /\ AreNearest(self, k, TRUE, after)
  BY <1>1, <1>2, <1>6, NeighborRowsAre
<1> HIDE DEF before, after
<1>9. /\ ToSet(rs) = ToSet(before) \cup ToSet(after)
      /\ \A i, j \in DOMAIN rs : i < j => Precedes(rs[i], rs[j])
  BY <1>1, <1>2, <1>6, <1>7, <1>8, AroundIs
<1>10. found = ToSet(before) \cup ToSet(after) \cup {self}
  BY <1>9
<1> HIDE DEF found, all
<1>11. Surround(found, all, self, k)
  BY <1>1, <1>2, <1>6, <1>7, <1>8, <1>10, SidesAre DEF all
<1> QED BY <1>9, <1>11 DEF NeighborsSurroundTheChunk, Surround, found, all, self, rs, k

(* What changes the chunks. *)

\* A line that is carried out as a write is a call with an id, and has one answer.
LEMMA CallsAreAnswered ==
    ASSUME NEW line, McpCall(line).op \in {"add", "delete", "rebuild"}, NEW status
    PROVE  handle_line(line, status) = Response(line.id, 0, status # 200)
<1>1. IsCall(line)
  BY DEF McpCall
<1> QED BY <1>1 DEF handle_line, IsCall

LEMMA WritesAreAnswered ==
    ASSUME NEW r, CallOf(r).op \in {"add", "delete", "rebuild"}, NEW status \in {200, 500},
           Replies(r, status, <<>>)
    PROVE  /\ reply'.status \in {200, 500}
           /\ host = "mcp" => /\ Len(reply'.lines) = 1
                              /\ reply'.lines[1].id = request'.id
                              /\ reply'.lines[1].isError = (reply'.status # 200)
<1>1. /\ request' = r
      /\ reply' = [status |-> status, results |-> <<>>,
                   lines |-> IF host = "mcp" THEN handle_line(r, status) ELSE <<>>]
  BY DEF Replies
<1>2. ASSUME host = "mcp"
      PROVE  reply'.lines = <<[id |-> r.id, error |-> 0, isError |-> status # 200]>>
  <2>1. CallOf(r) = McpCall(r)
    BY <1>2 DEF CallOf
  <2>2. handle_line(r, status) = Response(r.id, 0, status # 200)
    BY <2>1, CallsAreAnswered
  <2> QED BY <1>1, <1>2, <2>2 DEF Response
<1>3. reply'.status = status
  BY <1>1
<1>4. ASSUME host = "mcp"
      PROVE  /\ Len(reply'.lines) = 1 /\ reply'.lines[1].id = request'.id
             /\ reply'.lines[1].isError = (reply'.status # 200)
  <2> DEFINE line == [id |-> r.id, error |-> 0, isError |-> status # 200]
  <2>1. line.id = r.id /\ line.isError = (status # 200)
    OBVIOUS
  <2>2. reply'.lines = <<line>>
    BY <1>2, <1>4
  <2> HIDE DEF line
  <2>3. Len(<<line>>) = 1 /\ <<line>>[1] = line
    OBVIOUS
  <2> QED BY <1>1, <1>3, <2>1, <2>2, <2>3
<1> QED BY <1>3, <1>4

LEMMA WriteStep ==
    ASSUME [Next]_vars, rows' # rows, request' # None
    PROVE  /\ reply'.status \in {200, 500}
           /\ host = "mcp" => /\ Len(reply'.lines) = 1
                              /\ reply'.lines[1].id = request'.id
                              /\ reply'.lines[1].isError = (reply'.status # 200)
<1>1. Next
  BY DEF vars
<1>2. ~Answers /\ ~CallFails /\ ~Refuses /\ ~AddsNothing /\ ~Waits
  BY DEF Answers, CallFails, Refuses, AddsNothing, Waits, db
<1>3. ~AddFails
  BY DEF AddFails, IngestFails
<1>4. ~Restarts /\ ~Crashes /\ ~Ends
  BY DEF Restarts, Crashes, Ends, NextProcess
<1>5. CASE Adds
  <2>1. PICK r \in Requests[host], ok \in BOOLEAN :
            CallOf(r).op = "add" /\ Replies(r, IF ok THEN 200 ELSE 500, <<>>)
    BY <1>5 DEF Adds, Asks
  <2>2. (IF ok THEN 200 ELSE 500) \in {200, 500}
    OBVIOUS
  <2> QED BY <2>1, <2>2, WritesAreAnswered
<1>6. CASE Deletes
  <2>1. PICK r \in Requests[host], ok \in BOOLEAN :
            CallOf(r).op = "delete" /\ Replies(r, IF ok THEN 200 ELSE 500, <<>>)
    BY <1>6 DEF Deletes, Asks
  <2>2. (IF ok THEN 200 ELSE 500) \in {200, 500}
    OBVIOUS
  <2> QED BY <2>1, <2>2, WritesAreAnswered
<1>7. CASE Rebuilds
  <2>1. PICK r \in Requests[host] : CallOf(r).op = "rebuild" /\ Replies(r, 200, <<>>)
    BY <1>7 DEF Rebuilds, Asks
  <2> QED BY <2>1, WritesAreAnswered
<1>8. CASE RebuildStops
  <2>1. PICK r \in Requests[host] : CallOf(r).op = "rebuild" /\ Replies(r, 500, <<>>)
    BY <1>8 DEF RebuildStops, Asks
  <2> QED BY <2>1, WritesAreAnswered
<1> QED BY <1>1, <1>2, <1>3, <1>4, <1>5, <1>6, <1>7, <1>8 DEF Next

-----------------------------------------------------------------------------
\* The keyword table has the text of each chunk and nothing else, and doctor's checks of the
\* ids and of that table hold, whatever was written, deleted and rebuilt, and whenever the
\* process ended or a call failed; its check of the epoch fails after half a rebuild.
\* (metadata.rs insert_row, delete_source_rows; raglite.rs check)
THEOREM KeywordsStay == Spec => []KeywordsAreTheChunks
BY Invariance, KeywordsHold, PTL

\* Where none of the three incidents has struck the index, a query that comes up short has
\* left out no chunk, and a full one none that is nearer, however many vectors were removed
\* or hidden before. (raglite.rs query, query_filtered)
THEOREM ShortAnswers == Spec => []ShortAnswersAreComplete
BY Invariance, ShortAnswersHold, PTL

\* A hybrid answer has every chunk that both rankings prefer to one of its own, before it,
\* for any weights and any order of the ties, also with vectors that a crash left without
\* rows, as long as the rows have the ids of the index. (raglite.rs query_hybrid)
THEOREM HybridAnswers == Spec => []HybridContradictsNeither
BY Invariance, HybridHold, PTL

\* A diverse answer repeats no chunk, and a reranked one has the best of the pool with the
\* scores of their own texts, for any number of batches. (hnsw.rs diversify; reranker.rs rerank)
THEOREM Picks == Spec => []PicksAreTheirOwn
BY Invariance, PicksHold, PTL

\* The HTTP server answers a query with a filter with chunks that match it, or not at all.
\* (serve.rs query)
THEOREM FiltersHold == Spec => []HttpKeepsTheFilter
BY Invariance, HttpKeepsHold, PTL

\* The neighbours of a chunk are the nearest of its source on both sides, in order and
\* without gaps, in tables of any version. (metadata.rs get_neighbors)
THEOREM Neighbors == Spec => []NeighborsSurroundTheChunk
BY Invariance, NeighborsHold, PTL

\* The chunks change only for a request that is accepted, and an MCP client is told so once,
\* under the id it gave. (serve.rs handle; mcp.rs handle_line)
THEOREM Writes == Spec => OnlyAcceptedRequestsWrite
<1>1. [Next]_vars =>
        [(rows' # rows /\ request' # None) =>
            /\ reply'.status \in {200, 500}
            /\ host = "mcp" => /\ Len(reply'.lines) = 1
                               /\ reply'.lines[1].id = request'.id
                               /\ reply'.lines[1].isError = (reply'.status # 200)]_vars
  BY WriteStep
<1> QED BY <1>1, PTL DEF Spec, OnlyAcceptedRequestsWrite
=============================================================================
