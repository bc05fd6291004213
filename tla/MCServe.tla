------------------------------ MODULE MCServe -------------------------------
(***************************************************************************)
(* Four texts about one query: a and b are near-duplicates, b and d tell   *)
(* the vectors, the keywords and the cross-encoder apart, d points away    *)
(* from the query.  Sentences repeat a word, and c has none long enough.   *)
(***************************************************************************)
EXTENDS Serve

Word(lower) == [lower |-> lower, usable |-> TRUE]
Short == [lower |-> "the", usable |-> FALSE]
Sentence == <<Word("red"), Short, Word("storm"), Word("red"), Word("moons"), Word("dozen")>>
Text(similarity, group, keywords, cross, sentences) ==
    [similarity |-> similarity, group |-> group, keywords |-> keywords, cross |-> cross,
     sentences |-> sentences]

a == Text(4, 1, 0, 1, << <<Short>>, Sentence>>)
b == Text(3, 1, 2, 4, <<Sentence, <<Short, Short>> >>)
c == Text(1, 2, 1, 3, << <<Short, Word("moons")>> >>)
d == Text(-2, 3, 3, 2, <<Sentence>>)

SomeTexts == {a, b, c, d}

Add(how, source, texts, tags, created) ==
    [how |-> how, source |-> source, texts |-> texts, tags |-> tags, created |-> created]
SomeWrites == {Add("add_document", "s", <<a, b>>, {"x"}, 2),
               Add("add_document", "s", <<d>>, {}, 2), Add("add_text", "t", <<b, c>>, {}, 1)}

Row(id, text, source, tags, start) ==
    [id |-> id, vector_id |-> id - 1, text |-> text, source |-> source, tags |-> tags,
     created |-> 1, start |-> start]
SomeRows == {<<>>,
             <<Row(1, c, "s", {}, NoOffset), Row(2, a, "s", {"x"}, 1), Row(3, b, "s", {}, 2),
               Row(4, d, "s", {"x"}, 3), Row(5, b, "t", {"x"}, 1)>>}

Filters == {[tags |-> {"x"}, source |-> "any", since |-> 0],
            [tags |-> {}, source |-> "s", since |-> 2]}
SomeCalls ==
    [op : {"add"}, w : SomeWrites]
    \cup [op : {"delete"}, source : {"s"}]
    \cup [op : {"query"}, top_k : {0, 1, 2, 4}]
    \cup [op : {"query_filtered"}, top_k : {1, 2}, filter : Filters]
    \cup [op : {"query_diverse"}, top_k : {2, 3}, weight : {-1, 1, 3, NaN}]
    \cup [op : {"query_hybrid"}, top_k : {1, 3}, alpha : {0, 1, NaN}]
    \cup [op : {"query_reranked"}, top_k : {0, 2}, n : {3}]
    \cup [op : {"neighbors"}, id : {1, 3, 4}, radius : {1, 2}]
    \cup [op : {"eval_cases"}, per_source : {1}]
    \cup {[op |-> "check"], [op |-> "rebuild"]}

-----------------------------------------------------------------------------
Http(method, path, body) == [method |-> method, path |-> path, size |-> 1, body |-> body]
SomeHttp ==
    {Http("GET", "/health", NotAnObject), Http("GET", "/stats", NotAnObject),
     Http("POST", "/query", NotAnObject), Http("GET", "/query", NotAnObject),
     Http("POST", "/stats", NotAnObject), Http("GET", "/", NotAnObject),
     [method |-> "POST", path |-> "/text", size |-> MAX_BODY_BYTES + 1, body |-> NotAnObject]}
    \cup {Http("POST", "/query", body) : body \in
            {[text |-> "q"], [top_k |-> 1], [text |-> "q", top_k |-> MAX_TOP_K + 1],
             [text |-> "q", tags |-> {"x"}, mode |-> Null], [text |-> "q", tags |-> Wrong],
             [text |-> "q", source_prefix |-> "t", mode |-> "hybrid"],
             [text |-> "q", mode |-> "hybrid", alpha |-> Wrong],
             [text |-> "q", mode |-> "hybrid", top_k |-> 2],
             [text |-> "q", mode |-> "rerank", rerank_top_n |-> 1],
             [text |-> "q", mode |-> "diverse", relevance_weight |-> 0],
             [text |-> "q", mode |-> "fuzzy"]}}
    \cup {Http("POST", "/text", body) : body \in
            {[text |-> <<b, c>>, source |-> "t"], [text |-> <<>>], [text |-> <<c>>, tags |-> Wrong]}}
    \cup {Http("POST", "/delete", body) : body \in {[source |-> "t"], [source |-> Wrong]}}

Line(json, id, method, name, arguments) ==
    [json |-> json, id |-> id, method |-> method, name |-> name, arguments |-> arguments]
SomeLines ==
    {Line("garbage", None, Wrong, Wrong, Null), Line("array", None, Wrong, Wrong, Null),
     Line("object", 1, Wrong, Wrong, Null), Line("object", 1, "initialize", Wrong, Null),
     Line("object", 1, "prompts/list", Wrong, Null), Line("object", 1, "tools/call", "shell", Null)}
    \cup {Line("object", id, "tools/call", "raglite_add_text", arguments) :
            id \in {None, 1, Null}, arguments \in {[text |-> <<b, c>>, source |-> "t"], NotAnObject}}
    \cup {Line("object", id, "tools/call", "raglite_delete", [source |-> "s"]) : id \in {None, 2}}
    \cup {Line("object", 3, "tools/call", "raglite_query", [text |-> "q", mode |-> "hybrid"]),
          Line("object", 3, "tools/call", "raglite_stats", Null)}

Query(options) == options @@ [command |-> "query", question |-> "q"]
SomeCommands ==
    {Query([top_k |-> 2]), Query([tags |-> {"x"}]), Query([tags |-> {"x"}, rerank |-> 3]),
     Query([diverse |-> 1, tags |-> {"x"}]), Query([diverse |-> NaN]), Query([diverse |-> 0]),
     Query([hybrid |-> 1]), Query([hybrid |-> Wrong]), Query([rerank |-> 3, hybrid |-> 1]),
     [command |-> "query"], [command |-> "eval", hybrid |-> 1, top_k |-> 1], [command |-> "eval"],
     [command |-> "eval", rerank |-> 2], [command |-> "stats"], [command |-> "doctor"],
     [command |-> "synth", per_source |-> 2], [command |-> "delete", source |-> "t"],
     [command |-> "delete"], [command |-> "rebuild"], [command |-> "search"]}

FilteredHybrid == {Query([hybrid |-> 1, tags |-> {"x"}])}
Nothing == {}
=============================================================================
