------------------------------- MODULE CBinding -------------------------------
(***************************************************************************)
(* The C interface (tpt-rag-ffi/src/lib.rs): what each entry point does    *)
(* with its arguments, the error of the calling thread and the memory it   *)
(* hands to the caller.  Threads call at any time, each with a handle of   *)
(* its own, as the README of the interface asks; a program frees what it   *)
(* was given once, in any thread, and gives each query a fresh pair of     *)
(* output variables.                                                       *)
(*                                                                         *)
(* Abstractions.  The engine answers a call in any way that the type of    *)
(* its functions allows: it succeeds, with any number of results, returns  *)
(* an error or panics (its own modules say which of them when).  The text  *)
(* of an error is the call and the reason that it names.                   *)
(***************************************************************************)
EXTENDS Naturals, Sequences, FiniteSets

CONSTANTS
    Threads,      \* threads of the C program
    EngineErrors, \* the errors of the engine that are looked at, of RagErrors
    MaxResults,   \* bound: results of a query
    MaxCalls,     \* bound: calls, of all threads
    Null          \* the null pointer, and nothing

ASSUME CBindingAssumption == MaxResults \in Nat /\ MaxCalls \in Nat

\* An address for every array that can be out at a time.
Addresses == Threads

VARIABLES
    handle,      \* handle[t]: the thread's handle, or Null
    LAST_ERROR,  \* LAST_ERROR[t]: the text for the thread, or NoError
    call,        \* call[t]: the call that the thread is in, or Idle
    returned,    \* returned[t]: the thread's last call, why it failed or Null, and the code
    arrays,      \* arrays[a]: the length of the array of results at a; 0: no array
    strings,     \* the strings of results that are allocated
    out,         \* out[t]: the thread's output variables
    calls        \* the calls begun

cVars == <<handle, LAST_ERROR, call, returned, arrays, strings, out, calls>>

-----------------------------------------------------------------------------
(* The entry points, and the arguments that each looks at, in its order.               *)

Arguments ==
    [tpt_rag_create |-> <<"path">>,
     tpt_rag_create_with_config |-> <<"path", "config", "model_path">>,
     tpt_rag_add_file |-> <<"handle", "file path">>,
     tpt_rag_add_text |-> <<"handle", "text">>,
     tpt_rag_query |-> <<"handle", "output", "query">>,
     tpt_rag_query_hybrid |-> <<"handle", "output", "query">>,
     tpt_rag_query_reranked |-> <<"handle", "output", "query">>,
     tpt_rag_delete_document |-> <<"handle", "source">>,
     tpt_rag_flush |-> <<"handle">>]

Operations == DOMAIN Arguments
Creates == {"tpt_rag_create", "tpt_rag_create_with_config"}
Queries == {"tpt_rag_query", "tpt_rag_query_hybrid", "tpt_rag_query_reranked"}

RagErrors == {"Io", "Sqlite", "Onnx", "EmptyDocument", "UnsupportedFormat", "Model",
              "Serialization", "Hnsw", "InvalidConfig", "TooLarge", "SchemaTooNew"}

ASSUME EngineErrorsAssumption == EngineErrors \subseteq RagErrors

Refusals(op) == {Arguments[op][i] : i \in 1..Len(Arguments[op])}

ASSUME NullAssumption ==
    Null \notin Addresses \cup Operations \cup RagErrors \cup {"panic"}
                \cup UNION {Refusals(op) : op \in Operations}

\* map_error and guard: the code for a failure.
Code(op, why) ==
    IF why = Null THEN "Ok" ELSE
    CASE why \in {"Io", "Sqlite", "Onnx"} -> why
      [] why = "EmptyDocument" -> "EmptyDoc"
      [] why = "UnsupportedFormat" -> "Unsupported"
      [] why \in {"InvalidConfig", "TooLarge"} -> "InvalidArg"
      [] why \in Refusals(op) -> "InvalidArg"
      [] OTHER -> "Internal"

Message(op, why) == [call |-> op, reason |-> why]
NoError == Message(Null, Null)
Idle == [op |-> Null, bad |-> Null]

CInit ==
    /\ handle = [t \in Threads |-> Null]
    /\ LAST_ERROR = [t \in Threads |-> NoError]
    /\ call = [t \in Threads |-> Idle]
    /\ returned = [t \in Threads |-> [op |-> Null, why |-> Null, code |-> "Ok"]]
    /\ arrays = [a \in Addresses |-> 0]
    /\ strings = {}
    /\ out = [t \in Threads |-> [results |-> Null, count |-> 0]]
    /\ calls = 0

clear_last_error(t) == LAST_ERROR' = [LAST_ERROR EXCEPT ![t] = NoError]

\* Mutant: the error is kept for the process.
set_for_all(t, message) == LAST_ERROR' = [u \in Threads |-> message]

set_last_error(t, message) == LAST_ERROR' = [LAST_ERROR EXCEPT ![t] = message]

\* The first argument, of those the entry point looks at, that is null or not UTF-8.
\* A null model_path is one to leave out.
FirstBad(op, bad) ==
    IF bad = {} THEN Null
    ELSE Arguments[op][CHOOSE i \in 1..Len(Arguments[op]) :
             /\ Arguments[op][i] \in bad
             /\ \A j \in 1..(i - 1) : Arguments[op][j] \notin bad]

Returns(t, op, why) ==
    /\ call' = [call EXCEPT ![t] = Idle]
    /\ returned' = [returned EXCEPT ![t] = [op |-> op, why |-> why, code |-> Code(op, why)]]

\* A call begins: the guard clears the error of the thread.  A thread that has a handle
\* opens no other, and a null handle is one of the bad arguments.
Begin(t, op, bad) ==
    /\ call[t] = Idle /\ calls < MaxCalls
    /\ op \in Creates => handle[t] = Null
    /\ op \in Queries => out[t].results = Null
    /\ "handle" \in Refusals(op) => (handle[t] = Null <=> "handle" \in bad)
    /\ call' = [call EXCEPT ![t] = [op |-> op, bad |-> FirstBad(op, bad)]]
    /\ clear_last_error(t)
    /\ calls' = calls + 1
    /\ UNCHANGED <<handle, returned, arrays, strings, out>>

\* invalid_arg, and what the functions that create do instead.
Refuse(t) ==
    /\ call[t] # Idle /\ call[t].bad # Null
    /\ set_last_error(t, Message(call[t].op, call[t].bad))
    /\ Returns(t, call[t].op, call[t].bad)
    /\ UNCHANGED <<handle, arrays, strings, out, calls>>

\* map_error, or the guard's answer to a panic.  What is there to write is not written.
Fail(t, why) ==
    /\ call[t] # Idle /\ call[t].bad = Null
    /\ why \in EngineErrors \cup {"panic"}
    /\ set_last_error(t, Message(call[t].op, why))
    /\ Returns(t, call[t].op, why)
    /\ UNCHANGED <<handle, arrays, strings, out, calls>>

Succeed(t) ==
    /\ call[t] # Idle /\ call[t].bad = Null /\ call[t].op \notin Queries
    /\ handle' = IF call[t].op \in Creates THEN [handle EXCEPT ![t] = t] ELSE handle
    /\ Returns(t, call[t].op, Null)
    /\ UNCHANGED <<LAST_ERROR, arrays, strings, out, calls>>

StringsOf(a, n) == {a} \X (1..n) \X {"text", "source", "tags"}

write_results(t, n) ==
    IF n = 0
    THEN /\ out' = [out EXCEPT ![t] = [results |-> Null, count |-> 0]]
         /\ UNCHANGED <<arrays, strings>>
    ELSE \E a \in {b \in Addresses : arrays[b] = 0} :
             /\ arrays' = [arrays EXCEPT ![a] = n]
             /\ strings' = strings \cup StringsOf(a, n)
             /\ out' = [out EXCEPT ![t] = [results |-> a, count |-> n]]

Answer(t) ==
    /\ call[t] # Idle /\ call[t].bad = Null /\ call[t].op \in Queries
    /\ \E n \in 0..MaxResults : write_results(t, n)
    /\ Returns(t, call[t].op, Null)
    /\ UNCHANGED <<handle, LAST_ERROR, calls>>

\* Mutant: only the array is freed.
free_array(u) ==
    /\ arrays' = IF out[u].results = Null THEN arrays ELSE [arrays EXCEPT ![out[u].results] = 0]
    /\ UNCHANGED strings

free(u) ==
    IF out[u].results = Null \/ out[u].count = 0 THEN UNCHANGED <<arrays, strings>>
    ELSE /\ arrays' = [arrays EXCEPT ![out[u].results] = 0]
         /\ strings' = strings \ StringsOf(out[u].results, out[u].count)

\* Any thread frees the results of a thread that is in no call, and clears the error of
\* its own last call by that.
tpt_rag_free_results(t, u) ==
    /\ call[t] = Idle /\ call[u] = Idle /\ calls < MaxCalls
    /\ free(u)
    /\ out' = [out EXCEPT ![u] = [results |-> Null, count |-> 0]]
    /\ clear_last_error(t)
    /\ Returns(t, "tpt_rag_free_results", Null)
    /\ calls' = calls + 1
    /\ UNCHANGED handle

\* Null is accepted.  The results stay the caller's.
tpt_rag_destroy(t) ==
    /\ call[t] = Idle /\ calls < MaxCalls
    /\ handle' = [handle EXCEPT ![t] = Null]
    /\ clear_last_error(t)
    /\ Returns(t, "tpt_rag_destroy", Null)
    /\ calls' = calls + 1
    /\ UNCHANGED <<arrays, strings, out>>

CNext == \E t \in Threads :
    \/ \E op \in Operations : \E bad \in SUBSET Refusals(op) : Begin(t, op, bad)
    \/ Refuse(t) \/ (\E why \in EngineErrors \cup {"panic"} : Fail(t, why))
    \/ Succeed(t) \/ Answer(t)
    \/ (\E u \in Threads : tpt_rag_free_results(t, u))
    \/ tpt_rag_destroy(t)

CSpec == CInit /\ [][CNext]_cVars

-----------------------------------------------------------------------------
(* Properties. *)

CTypeOK ==
    /\ handle \in [Threads -> Threads \cup {Null}]
    /\ DOMAIN LAST_ERROR = Threads /\ DOMAIN returned = Threads
    /\ DOMAIN call = Threads
    /\ \A t \in Threads : call[t] = Idle \/ call[t].op \in Operations
    /\ arrays \in [Addresses -> 0..MaxResults]
    /\ strings \subseteq Addresses \X (1..MaxResults) \X {"text", "source", "tags"}
    /\ out \in [Threads -> [results : Addresses \cup {Null}, count : 0..MaxResults]]
    /\ calls \in 0..MaxCalls

\* Between its calls a thread reads the error of its own last call, if that failed and
\* whatever the other threads do, and null if it did not (LAST_ERROR, guard, map_error,
\* invalid_arg): a code other than TptRagOk and a text belong together.
ErrorsBelongToTheirCalls ==
    \A t \in Threads : call[t] = Idle =>
        /\ returned[t].code = "Ok" <=> LAST_ERROR[t] = NoError
        /\ LAST_ERROR[t] # NoError => LAST_ERROR[t] = Message(returned[t].op, returned[t].why)

\* What is allocated is what the callers hold: every array of results is in one pair of
\* output variables, with its length, and its strings, and no others, are there until it is
\* freed (write_results, tpt_rag_free_results).  So a program that frees each pair once
\* leaks nothing and frees nothing twice, failed and empty queries among them.
EveryArrayHasOneOwner ==
    /\ \A a \in Addresses : arrays[a] # 0 =>
          \E t \in Threads : out[t] = [results |-> a, count |-> arrays[a]]
    /\ \A t \in Threads :
          /\ out[t].results # Null => /\ out[t].count = arrays[out[t].results]
                                      /\ out[t].count > 0
          /\ \A u \in Threads \ {t} : out[t].results # Null => out[t].results # out[u].results
    /\ strings = UNION {StringsOf(a, arrays[a]) : a \in Addresses}
=============================================================================
