------------------------------- MODULE Serve --------------------------------
(***************************************************************************)
(* The programs that put a database before its users: the HTTP server, the *)
(* MCP server and the command line (bin/raglite/serve.rs, mcp.rs,          *)
(* raglite.rs), and a program that uses the library itself.  Each turns a  *)
(* request into at most one call of the engine, or refuses it.  Requests   *)
(* are handled one at a time.  The process may end between two requests,   *)
(* with or without writing the index, and the next one may be of another   *)
(* program.                                                                *)
(***************************************************************************)
EXTENDS Search

CONSTANTS
    HttpRequests,     \* [method, path, size, body]
    McpLines,         \* [json, id, method, name, arguments]
    Commands,         \* command lines, as the record of their options
    Calls,            \* calls of the library
    MAX_TOP_K,        \* 1000
    MAX_BODY_BYTES,   \* 1 MB
    NotAnObject,      \* a body that is not JSON, or is no object
    Null, Wrong,      \* JSON null, and a value of another type than is asked for
    None              \* no request, no id

\* What is asked for has the type it should have, or is recognised as Wrong.
HasType(body, name, S) == name \in DOMAIN body => body[name] \in {Null, Wrong} \/ body[name] \in S

Weights == Int \cup {NaN}

IsQuery(body) ==
    /\ HasType(body, "top_k", Nat) /\ HasType(body, "rerank_top_n", Nat)
    /\ HasType(body, "alpha", Weights) /\ HasType(body, "relevance_weight", Weights)

IsWrite(body) ==
    /\ HasType(body, "text", Seq(Texts))
    /\ HasType(body, "source", Sources) /\ HasType(body, "tags", SUBSET Tags)

IsCommand(o) ==
    /\ HasType(o, "top_k", Nat) /\ HasType(o, "rerank", Nat)
    /\ HasType(o, "hybrid", Weights) /\ HasType(o, "diverse", Weights)

Written == [how : {"add_document", "add_text"}, texts : Seq(Texts), source : Sources,
            tags : SUBSET Tags, created : Nat]

\* A call of the engine.
IsCallOf(c) ==
    /\ c.op \in {"query", "query_filtered", "query_diverse", "query_hybrid", "query_reranked"} =>
            c.top_k \in Nat
    /\ c.op = "query_diverse" => c.weight \in Weights
    /\ c.op = "query_hybrid" => c.alpha \in Weights
    /\ c.op = "query_reranked" => c.n \in Nat
    /\ c.op = "neighbors" => c.radius \in Nat
    /\ c.op = "add" => c.w \in Written

ASSUME RequestsAssumption ==
    /\ \A r \in HttpRequests : r.body # NotAnObject =>
            (r.path = "/query" => IsQuery(r.body)) /\ (r.path = "/text" => IsWrite(r.body))
    /\ \A line \in McpLines : line.arguments # NotAnObject =>
            /\ line.name = "raglite_query" => IsQuery(line.arguments)
            /\ line.name = "raglite_add_text" => IsWrite(line.arguments)
    /\ \A o \in Commands : IsCommand(o)
    /\ \A c \in Calls : IsCallOf(c)
    /\ Null # Wrong /\ "inline" \in Sources

VARIABLES host, request, reply

vars == <<rows, next_id, fts, index, file, recorded, unflushed, faults, host, request, reply>>

Hosts == {"http", "mcp", "cli", "library"}
Requests == [http |-> HttpRequests, mcp |-> McpLines, cli |-> Commands, library |-> Calls]

-----------------------------------------------------------------------------
(* The fields of a JSON body, or of a command's options. *)
Absent(body, name) == name \notin DOMAIN body \/ body[name] = Null
Field(body, name, default) == IF Absent(body, name) THEN default ELSE body[name]
AnyWrong(body, names) == \E name \in names : ~Absent(body, name) /\ body[name] = Wrong

QueryFilter(body) ==
    [tags |-> Field(body, "tags", {}), source |-> Field(body, "source_prefix", "any"),
     since |-> Field(body, "since", 0)]
IsFiltered(body) ==
    Field(body, "tags", {}) # {} \/ ~Absent(body, "source_prefix") \/ ~Absent(body, "since")

Refuse(status) == [op |-> "refuse", status |-> status]

\* Mutant: a filter is dropped where the mode has no use for it.
HttpQueryAnyFilter(body) ==
    IF Absent(body, "text") \/ AnyWrong(body, DOMAIN body) THEN Refuse(400)
    ELSE IF Field(body, "mode", "vector") = "hybrid"
    THEN [op |-> "query_hybrid", top_k |-> Field(body, "top_k", 5), alpha |-> 1]
    ELSE [op |-> "query_filtered", top_k |-> Field(body, "top_k", 5), filter |-> QueryFilter(body)]

HttpQuery(body) ==
    LET top_k    == Field(body, "top_k", 5)
        mode     == Field(body, "mode", "vector")
        searches ==
            CASE mode = "vector"  -> [op |-> "query", top_k |-> top_k]
              [] mode = "hybrid"  -> [op |-> "query_hybrid", top_k |-> top_k,
                                      alpha |-> Field(body, "alpha", 1)]
              [] mode = "rerank"  -> [op |-> "query_reranked", top_k |-> top_k,
                                      n |-> Field(body, "rerank_top_n", 20)]
              [] mode = "diverse" -> [op |-> "query_diverse", top_k |-> top_k,
                                      weight |-> Field(body, "relevance_weight", 1)]
        its(name) == CASE mode = "hybrid" -> {"alpha"} [] mode = "rerank" -> {"rerank_top_n"}
                       [] mode = "diverse" -> {"relevance_weight"} [] OTHER -> {}
    IN  IF \/ Absent(body, "text")
           \/ AnyWrong(body, {"text", "top_k", "tags", "source_prefix", "since", "mode"} \cup its(mode))
           \/ top_k > MAX_TOP_K
           \/ mode \notin {"vector", "hybrid", "rerank", "diverse"}
           \/ (mode # "vector" /\ IsFiltered(body))
        THEN Refuse(400)
        ELSE IF IsFiltered(body)
        THEN [op |-> "query_filtered", top_k |-> top_k, filter |-> QueryFilter(body)]
        ELSE searches

HttpText(body) ==
    IF Absent(body, "text") \/ AnyWrong(body, {"text", "source", "tags"}) THEN Refuse(400)
    ELSE [op |-> "add", w |-> [how |-> "add_text", texts |-> body.text, created |-> 1,
                               source |-> Field(body, "source", "inline"),
                               tags |-> Field(body, "tags", {})]]

HttpDelete(body) ==
    IF Absent(body, "source") \/ AnyWrong(body, {"source"}) THEN Refuse(400)
    ELSE [op |-> "delete", source |-> body.source]

json_object(body, call) == IF body = NotAnObject THEN Refuse(400) ELSE call

\* What a route asks of the engine.
handle(method, path, body) ==
    LET route == <<method, path>>
        posts == {"/query", "/text", "/delete"}
    IN  CASE route = <<"GET", "/health">>  -> [op |-> "health"]
          [] route = <<"GET", "/stats">>   -> [op |-> "stats"]
          [] route = <<"POST", "/query">>  -> json_object(body, HttpQuery(body))
          [] route = <<"POST", "/text">>   -> json_object(body, HttpText(body))
          [] route = <<"POST", "/delete">> -> json_object(body, HttpDelete(body))
          [] path \in posts /\ method # "POST" -> Refuse(405)
          [] path \in {"/health", "/stats"} /\ method # "GET" -> Refuse(405)
          [] OTHER -> Refuse(404)

HttpCall(r) == IF r.size > MAX_BODY_BYTES THEN Refuse(413) ELSE handle(r.method, r.path, r.body)

-----------------------------------------------------------------------------
(* One line of an MCP client.  A line that calls no tool asks nothing of the engine. *)
Tools == {"raglite_query", "raglite_add_text", "raglite_delete", "raglite_stats"}

\* Mutant: a notification is carried out, and only its reply is left out.
IsCallWithoutId(line) ==
    /\ line.json = "object"
    /\ line.method = "tools/call"
    /\ line.name \in Tools

IsCall(line) ==
    /\ line.json = "object"
    /\ line.id # None
    /\ line.method = "tools/call"
    /\ line.name \in Tools

call_tool(name, arguments) ==
    CASE name = "raglite_query"    -> handle("POST", "/query", arguments)
      [] name = "raglite_add_text" -> handle("POST", "/text", arguments)
      [] name = "raglite_delete"   -> handle("POST", "/delete", arguments)
      [] name = "raglite_stats"    -> handle("GET", "/stats", NotAnObject)

McpCall(line) == IF IsCall(line) THEN call_tool(line.name, line.arguments) ELSE [op |-> "health"]

Response(id, error, isError) == <<[id |-> id, error |-> error, isError |-> isError]>>

\* The lines written in answer, given the status of the tool's call.
handle_line(line, status) ==
    CASE line.json = "garbage" -> Response(Null, -32700, FALSE)
      [] line.json = "array"   -> Response(Null, -32600, FALSE)
      [] line.json = "object"  ->
            IF line.id = None THEN <<>>
            ELSE IF IsCall(line) THEN Response(line.id, 0, status # 200)
            ELSE Response(line.id, CASE line.method = Wrong        -> -32600
                                     [] line.method = "tools/call" -> -32602
                                     [] line.method \in {"initialize", "ping", "tools/list"} -> 0
                                     [] OTHER                      -> -32601, FALSE)

-----------------------------------------------------------------------------
(* The command line: one command of one process. *)
Given(o, name) == ~Absent(o, name)

\* Options that no command line may have.
BadOptions(o) ==
    \/ AnyWrong(o, {"top_k", "hybrid", "diverse", "rerank", "since", "per_source"})
    \/ (Given(o, "diverse") /\ o.diverse \notin 0..2)

QueryCommand(o) ==
    LET top_k == Field(o, "top_k", 5)
    IN  IF ~Given(o, "question") THEN Refuse(1)
        ELSE IF Given(o, "diverse")
        THEN IF IsFiltered(o) \/ Given(o, "hybrid") \/ Given(o, "rerank") THEN Refuse(1)
             ELSE [op |-> "query_diverse", top_k |-> top_k, weight |-> o.diverse]
        ELSE IF Given(o, "rerank")
        THEN IF IsFiltered(o) THEN Refuse(1)
             ELSE [op |-> "query_reranked", top_k |-> top_k, n |-> o.rerank]
        ELSE IF Given(o, "hybrid")
        THEN [op |-> "query_hybrid", top_k |-> top_k, alpha |-> o.hybrid]
        ELSE IF IsFiltered(o)
        THEN [op |-> "query_filtered", top_k |-> top_k, filter |-> QueryFilter(o)]
        ELSE [op |-> "query", top_k |-> top_k]

\* Each case is a query call of its own; a case is found by the source of a result.
EvalCommand(o) ==
    LET k == Field(o, "top_k", 5)
    IN  IF Given(o, "rerank") THEN [op |-> "query_reranked", top_k |-> k, n |-> o.rerank]
        ELSE IF Given(o, "hybrid") THEN [op |-> "query_hybrid", top_k |-> k, alpha |-> o.hybrid]
        ELSE [op |-> "query", top_k |-> k]

StatsCommand(o) == [op |-> "stats"]
DoctorCommand(o) == [op |-> "check"]
SynthCommand(o) == [op |-> "eval_cases", per_source |-> Field(o, "per_source", 5)]
RebuildCommand(o) == [op |-> "rebuild"]
DeleteCommand(o) ==
    IF Given(o, "source") THEN [op |-> "delete", source |-> o.source] ELSE Refuse(1)

CliCall(o) ==
    LET known == {"query", "eval", "stats", "doctor", "synth", "delete", "rebuild"}
    IN  IF o.command \notin known THEN Refuse(2)
        ELSE IF BadOptions(o) THEN Refuse(1)
        ELSE CASE o.command = "query"   -> QueryCommand(o)
               [] o.command = "eval"    -> EvalCommand(o)
               [] o.command = "stats"   -> StatsCommand(o)
               [] o.command = "doctor"  -> DoctorCommand(o)
               [] o.command = "synth"   -> SynthCommand(o)
               [] o.command = "delete"  -> DeleteCommand(o)
               [] o.command = "rebuild" -> RebuildCommand(o)

CallOf(r) ==
    CASE host = "http" -> HttpCall(r)
      [] host = "mcp"  -> McpCall(r)
      [] host = "cli"  -> CliCall(r)
      [] host = "library" -> r

-----------------------------------------------------------------------------
(* The calls of the engine, and their replies. *)
ModelCalls == {"query", "query_filtered", "query_diverse", "query_hybrid", "query_reranked"}
Reads == ModelCalls \cup {"neighbors", "eval_cases", "stats", "check", "health"}

Results(c) ==
    CASE c.op = "query"          -> {query(c.top_k)}
      [] c.op = "query_filtered" -> {query_filtered(c.top_k, c.filter)}
      [] c.op = "query_diverse"  -> {query_diverse(c.top_k, c.weight)}
      [] c.op = "query_hybrid"   -> query_hybrid(c.top_k, c.alpha)
      [] c.op = "query_reranked" -> {query_reranked(c.top_k, c.n)}
      [] c.op = "neighbors"      -> {neighbors(c.id, c.radius)}
      [] c.op = "eval_cases"     -> {eval_cases(c.per_source)}
      [] c.op = "stats"          -> {stats}
      [] c.op = "check"          -> {check}
      [] c.op = "health"         -> {<<>>}

NoReply == [status |-> 0, results |-> <<>>, lines |-> <<>>]

Replies(r, status, results) ==
    /\ request' = r
    /\ reply' = [status |-> status, results |-> results,
                 lines |-> IF host = "mcp" THEN handle_line(r, status) ELSE <<>>]
    /\ UNCHANGED host

Asks(ops, r) == request = None /\ r \in Requests[host] /\ CallOf(r).op \in ops

Answers == \E r \in Requests[host] :
    /\ Asks(Reads, r)
    /\ \E results \in Results(CallOf(r)) : Replies(r, 200, results)
    /\ UNCHANGED db

\* A call that has nothing to look up.
IsEmpty(c) ==
    \/ c.op \in ModelCalls \ {"query_reranked"} /\ c.top_k = 0
    \/ c.op = "add" /\ c.w.texts = <<>>

\* The embedding or the database fails before anything has changed; or there is no
\* cross-encoder, which is looked for before anything else.
CallFails == \E r \in Requests[host] :
    /\ Asks((Reads \ {"health"}) \cup {"add", "delete", "rebuild"}, r)
    /\ ~IsEmpty(CallOf(r))
    /\ Replies(r, 500, <<>>)
    /\ UNCHANGED db

Refuses == \E r \in Requests[host] :
    /\ Asks({"refuse"}, r)
    /\ Replies(r, CallOf(r).status, <<>>)
    /\ UNCHANGED db

Adds == \E r \in Requests[host], ok \in BOOLEAN :
    /\ Asks({"add"}, r) /\ CallOf(r).w.texts # <<>>
    /\ Ingest(CallOf(r).w, ok)
    /\ Replies(r, IF ok THEN 200 ELSE 500, <<>>)

AddsNothing == \E r \in Requests[host] :
    /\ Asks({"add"}, r) /\ CallOf(r).w.texts = <<>>
    /\ Replies(r, 200, <<>>)
    /\ UNCHANGED db

AddFails == \E r \in Requests[host] :
    /\ Asks({"add"}, r) /\ CallOf(r).w.texts # <<>>
    /\ IngestFails(CallOf(r).w)
    /\ Replies(r, 500, <<>>)

Deletes == \E r \in Requests[host], ok \in BOOLEAN :
    /\ Asks({"delete"}, r)
    /\ Delete(CallOf(r).source, ok)
    /\ Replies(r, IF ok THEN 200 ELSE 500, <<>>)

Rebuilds == \E r \in Requests[host] :
    /\ Asks({"rebuild"}, r)
    /\ Rebuild
    /\ Replies(r, 200, <<>>)

RebuildStops == \E r \in Requests[host] :
    /\ Asks({"rebuild"}, r)
    /\ RebuildFailsToRemap \/ RebuildFailsToRecord
    /\ Replies(r, 500, <<>>)

\* A server waits for the next request; a command's process ends.
Waits ==
    /\ request # None /\ host # "cli"
    /\ request' = None /\ reply' = NoReply
    /\ UNCHANGED <<host, db>>

NextProcess == host' \in Hosts /\ request' = None /\ reply' = NoReply
Restarts == (request = None) /\ NextProcess /\ CloseAndOpen
Crashes == NextProcess /\ CrashAndOpen
Ends == host = "cli" /\ request # None /\ NextProcess /\ CloseAndOpen

Opens == Init /\ host \in Hosts /\ request = None /\ reply = NoReply

Next ==
    \/ Answers \/ CallFails \/ Refuses
    \/ Adds \/ AddsNothing \/ AddFails \/ Deletes \/ Rebuilds \/ RebuildStops
    \/ Waits \/ Restarts \/ Crashes \/ Ends

Spec == Opens /\ [][Next]_vars

-----------------------------------------------------------------------------
(* What an answer is worth. *)
Asked == IF request = None THEN [op |-> "none"] ELSE CallOf(request)
Answered(ops) == Asked.op \in ops /\ reply.status = 200
RowsIn(results) == {results[i].row : i \in DOMAIN results}

Wanted(c) == {r \in ToSet(rows) : c.op = "query_filtered" => matches(c.filter, r)}
PoolSize(c) == IF c.op = "query" THEN c.top_k ELSE Larger(c.top_k * FILTER_FACTOR, FILTER_LEAST)

\* An answer shorter than asked for leaves out no chunk, and a full one none that is nearer:
\* query, and query_filtered as far as its pool reaches.  The removed vectors and the filter
\* cost no result, whatever was written, rebuilt, failed or crashed before, but for three
\* incidents: a crash has left vectors without rows ("lost"), rebuild_index has failed after
\* it moved the rows to the new ids ("remapped", until the next open), or an open without
\* rows could not read a file at the recorded epoch and left it there ("shadowed").
\* (raglite.rs query, query_filtered, rebuild_index, open_with_config; hnsw.rs search)
ShortAnswersAreComplete ==
    LET c == Asked
        nearer(r) == Cardinality({q \in ToSet(rows) : q.text.similarity >= r.text.similarity})
    IN  (Answered({"query", "query_filtered"}) /\ faults = {}) =>
            /\ RowsIn(reply.results) \subseteq Wanted(c)
            /\ \A r \in Wanted(c) \ RowsIn(reply.results) :
                    \/ nearer(r) > PoolSize(c)
                    \/ /\ Len(reply.results) = c.top_k
                       /\ \A q \in RowsIn(reply.results) : q.text.similarity >= r.text.similarity

\* Before a chunk of the answer is every chunk that is better than it for the vectors and
\* for the keywords: the fusion contradicts neither ranking, and leaves out none that both
\* prefer, whatever the weights, and also where a crash has left vectors without rows; not
\* where the rows have the ids of another index ("remapped", "shadowed").
\* (raglite.rs query_hybrid, rebuild_index; metadata.rs bm25_search)
HybridContradictsNeither ==
    (Answered({"query_hybrid"}) /\ faults \subseteq {"lost"}) =>
        \A j \in DOMAIN reply.results : \A q \in ToSet(rows) :
            LET r == reply.results[j].row
            IN  (q.text.similarity > r.text.similarity /\ q.text.keywords > r.text.keywords) =>
                    \E i \in 1..j - 1 : reply.results[i].row = q

\* The reranked answer is the best of the pool by the cross-encoder, each chunk with the
\* score of its own text; the diverse answer repeats no chunk.
\* (reranker.rs rerank; raglite.rs query_reranked; hnsw.rs diversify)
PicksAreTheirOwn ==
    LET rs == reply.results
    IN  /\ Answered({"query_diverse", "query_reranked"}) =>
                \A i, j \in DOMAIN rs : i # j => rs[i].row # rs[j].row
        /\ Answered({"query_reranked"}) =>
                \A i \in DOMAIN rs :
                    /\ rs[i].score = rs[i].row.text.cross
                    /\ \A h \in ToSet(query(Larger(Asked.n, Asked.top_k))) :
                            h.row \in RowsIn(rs) \/ h.row.text.cross <= rs[i].score

\* The neighbours of a chunk and the chunk itself are a stretch of its source without gaps,
\* in order, that ends early only where the source does.
\* (metadata.rs get_neighbors, neighbor_rows)
NeighborsSurroundTheChunk ==
    Answered({"neighbors"}) /\ reply.results # <<>> =>
        LET rs    == reply.results
            self  == CHOOSE r \in ToSet(rows) : r.id = Asked.id
            all   == {r \in ToSet(rows) : r.source = self.source /\ r.start # NoOffset}
            found == ToSet(rs) \cup {self}
        IN  /\ \A i, j \in DOMAIN rs : i < j => Precedes(rs[i], rs[j])
            /\ \A r \in all : (\E p, q \in found : Precedes(p, r) /\ Precedes(r, q)) => r \in found
            /\ \A r \in all \ found :
                    Cardinality({q \in found : IF Precedes(r, self) THEN Precedes(q, self)
                                               ELSE Precedes(self, q)}) = Asked.radius

\* The keyword table is that of the chunk table, through every write, so a keyword search
\* finds each chunk, and `doctor` finds the vector ids and the full-text index in order; its
\* check of the epoch is the one that tells of rows that have moved to other ids.
\* (metadata.rs insert_row, delete_source_rows, fts_row_count; raglite.rs check)
KeywordsAreTheChunks ==
    /\ fts = Indexed(rows)
    /\ Answered({"check"}) => /\ reply.results.vector_ids /\ reply.results.full_text
                              /\ "remapped" \in faults => ~reply.results.epoch

\* A request that is refused, and a notification, changes nothing; and an MCP line that has
\* an id is answered once, under that id, as an error when the tool failed.
\* (serve.rs handle; mcp.rs handle_line, call_tool)
OnlyAcceptedRequestsWrite ==
    [][(rows' # rows /\ request' # None) =>
            /\ reply'.status \in {200, 500}
            /\ host = "mcp" => /\ Len(reply'.lines) = 1
                               /\ reply'.lines[1].id = request'.id
                               /\ reply'.lines[1].isError = (reply'.status # 200)]_vars

\* A query that names a filter is refused or answers with chunks that match it.
\* (bin/raglite.rs query; serve.rs query)
KeepsTheFilter(r) ==
    LET asked == IF host = "http" THEN r.body ELSE r
    IN  \A h \in RowsIn(reply.results) : matches(QueryFilter(asked), h)

HttpKeepsTheFilter ==
    (host = "http" /\ Answered(ModelCalls)) => KeepsTheFilter(request)

\* The same of the command line, as its usage says.
CommandKeepsTheFilter ==
    (host = "cli" /\ Answered(ModelCalls)) => KeepsTheFilter(request)
=============================================================================
