--------------------------- MODULE ProcessesProofs ----------------------------
(***************************************************************************)
(* What holds of the programs and processes around the engine, for any     *)
(* number of threads, results, sources, calls, openers and pulls.          *)
(*                                                                         *)
(* C programs: the types, that each thread reads the error of its own last *)
(* call, and that what is allocated is what the callers hold.  Python      *)
(* programs: the types, that the two locks never wait for each other, and  *)
(* that a query sees only what whole calls left.                           *)
(*                                                                         *)
(* Processes that open a folder: MInv is inductive.  Tables and columns    *)
(* only grow, so what an opener has seen stays true; that the version is   *)
(* that of the schema holds because a step and its version are one         *)
(* transaction.                                                            *)
(*                                                                         *)
(* Processes that pull the models, stopped anywhere: a file under its real *)
(* name that is not whole is one that two pulls wrote at once and that one *)
(* of them has, or had, open.                                              *)
(***************************************************************************)
EXTENDS CBinding, PythonBinding, Migrations, ModelFiles, TLAPS

(* The C interface. *)

\* A call has cleared the error of its thread, and a query has variables to fill.
CallsStartClear ==
    \A t \in Threads : call[t] # Idle =>
        /\ LAST_ERROR[t] = NoError
        /\ call[t].op \in Queries => out[t].results = Null

CInv == CTypeOK /\ CallsStartClear /\ ErrorsBelongToTheirCalls /\ EveryArrayHasOneOwner

\* Only success has the code Ok (map_error).
LEMMA CodeOfFailure == ASSUME NEW op, NEW why PROVE Code(op, why) = "Ok" <=> why = Null
BY DEF Code

\* The strings of two arrays are not the same, and an array of no results has none.
LEMMA StringsAreApart ==
    ASSUME NEW a, NEW b, NEW m \in Nat, NEW n \in Nat, a # b
    PROVE  StringsOf(a, m) \cap StringsOf(b, n) = {} /\ StringsOf(a, 0) = {}
BY DEF StringsOf

LEMMA CInitOk == CInit => CInv
<1> SUFFICES ASSUME CInit PROVE CInv
  OBVIOUS
<1>1. CTypeOK
  BY CBindingAssumption DEF CInit, CTypeOK
<1>2. CallsStartClear /\ ErrorsBelongToTheirCalls
  BY DEF CInit, CallsStartClear, ErrorsBelongToTheirCalls
<1>3. EveryArrayHasOneOwner
  BY DEF CInit, EveryArrayHasOneOwner, StringsOf
<1> QED BY <1>1, <1>2, <1>3 DEF CInv

\* Between calls and in them a thread's error is its own: a step of one thread leaves the
\* errors, calls and codes of the others alone.
LEMMA ErrorsStep ==
    CTypeOK /\ CallsStartClear /\ ErrorsBelongToTheirCalls /\ [CNext]_cVars
        => ErrorsBelongToTheirCalls' /\ \A t \in Threads : call'[t] # Idle => LAST_ERROR'[t] = NoError
<1> SUFFICES ASSUME CTypeOK, CallsStartClear, ErrorsBelongToTheirCalls, [CNext]_cVars
             PROVE  /\ ErrorsBelongToTheirCalls'
                    /\ \A t \in Threads : call'[t] # Idle => LAST_ERROR'[t] = NoError
  OBVIOUS
<1> USE DEF CallsStartClear, ErrorsBelongToTheirCalls
<1>1. ASSUME NEW t \in Threads, NEW op \in Operations, NEW bad, Begin(t, op, bad)
      PROVE  /\ ErrorsBelongToTheirCalls'
             /\ \A u \in Threads : call'[u] # Idle => LAST_ERROR'[u] = NoError
  <2>1. call'[t] # Idle /\ LAST_ERROR'[t] = NoError
    BY <1>1, NullAssumption DEF Begin, CTypeOK, Idle, clear_last_error
  <2>2. \A u \in Threads \ {t} : call'[u] = call[u] /\ LAST_ERROR'[u] = LAST_ERROR[u]
    BY <1>1 DEF Begin, CTypeOK, clear_last_error
  <2> QED BY <1>1, <2>1, <2>2 DEF Begin
<1>2. ASSUME NEW t \in Threads, NEW op, NEW why, Returns(t, op, why),
             why # Null => op # Null,
             \A u \in Threads : LAST_ERROR'[u] = IF u # t THEN LAST_ERROR[u]
                                               ELSE IF why = Null THEN NoError ELSE Message(op, why)
      PROVE  /\ ErrorsBelongToTheirCalls'
             /\ \A u \in Threads : call'[u] # Idle => LAST_ERROR'[u] = NoError
  <2>1. /\ call'[t] = Idle
        /\ returned'[t] = [op |-> op, why |-> why, code |-> Code(op, why)]
        /\ LAST_ERROR'[t] = IF why = Null THEN NoError ELSE Message(op, why)
    BY <1>2 DEF Returns, CTypeOK
  <2>2. why # Null => Message(op, why) # NoError
    BY DEF Message, NoError
  <2>3. \A u \in Threads \ {t} : /\ call'[u] = call[u] /\ returned'[u] = returned[u]
                                 /\ LAST_ERROR'[u] = LAST_ERROR[u]
    BY <1>2 DEF Returns, CTypeOK
  <2> QED BY <2>1, <2>2, <2>3, CodeOfFailure
<1>3. ASSUME NEW t \in Threads, Refuse(t) \/ \E why \in EngineErrors \cup {"panic"} : Fail(t, why)
      PROVE  /\ ErrorsBelongToTheirCalls'
             /\ \A u \in Threads : call'[u] # Idle => LAST_ERROR'[u] = NoError
  <2>1. call[t] # Idle /\ call[t].op # Null
    BY <1>3, NullAssumption DEF Refuse, Fail, CTypeOK
  <2>2. \A why \in EngineErrors \cup {"panic"} : why # Null
    BY NullAssumption, EngineErrorsAssumption
  <2> QED BY <1>2, <1>3, <2>1, <2>2 DEF Refuse, Fail, set_last_error, CTypeOK
<1>4. ASSUME NEW t \in Threads, Succeed(t) \/ Answer(t)
      PROVE  /\ ErrorsBelongToTheirCalls'
             /\ \A u \in Threads : call'[u] # Idle => LAST_ERROR'[u] = NoError
  <2>1. LAST_ERROR' = LAST_ERROR /\ LAST_ERROR[t] = NoError /\ Returns(t, call[t].op, Null)
    BY <1>4 DEF Succeed, Answer
  <2> QED BY <1>2, <2>1
<1>5. ASSUME NEW t \in Threads,
             (\E u \in Threads : tpt_rag_free_results(t, u)) \/ tpt_rag_destroy(t)
      PROVE  /\ ErrorsBelongToTheirCalls'
             /\ \A u \in Threads : call'[u] # Idle => LAST_ERROR'[u] = NoError
  BY <1>2, <1>5 DEF tpt_rag_free_results, tpt_rag_destroy, clear_last_error, CTypeOK
<1>6. CASE UNCHANGED cVars
  BY <1>6 DEF cVars
<1> QED BY <1>1, <1>3, <1>4, <1>5, <1>6 DEF CNext

\* A query's results are an array that nobody holds, in variables that hold none.
LEMMA WriteResultsOk ==
    ASSUME CTypeOK, EveryArrayHasOneOwner, NEW t \in Threads, NEW n \in 0..MaxResults,
           out[t].results = Null, write_results(t, n)
    PROVE  /\ EveryArrayHasOneOwner'
           /\ arrays' \in [Addresses -> 0..MaxResults]
           /\ strings' \subseteq Addresses \X (1..MaxResults) \X {"text", "source", "tags"}
           /\ out' \in [Threads -> [results : Addresses \cup {Null}, count : 0..MaxResults]]
           /\ \A u \in Threads \ {t} : out'[u] = out[u]
<1>1. CASE n = 0
  <2>1. /\ arrays' = arrays /\ strings' = strings
        /\ out' = [out EXCEPT ![t] = [results |-> Null, count |-> 0]]
    BY <1>1 DEF write_results
  <2>2. \A u \in Threads : out'[u] = IF u = t THEN [results |-> Null, count |-> 0] ELSE out[u]
    BY <2>1 DEF CTypeOK
  <2>3. EveryArrayHasOneOwner'
    BY <2>1, <2>2, CBindingAssumption, NullAssumption DEF EveryArrayHasOneOwner, CTypeOK
  <2> QED BY <2>1, <2>2, <2>3, CBindingAssumption DEF CTypeOK
<1>2. CASE n # 0
  <2>1. PICK a \in Addresses :
          /\ arrays[a] = 0
          /\ arrays' = [arrays EXCEPT ![a] = n]
          /\ strings' = strings \cup StringsOf(a, n)
          /\ out' = [out EXCEPT ![t] = [results |-> a, count |-> n]]
    BY <1>2 DEF write_results
  <2>2. a # Null /\ n \in Nat /\ n > 0
    BY <1>2, NullAssumption, CBindingAssumption
  <2>3. \A u \in Threads : out'[u] = IF u = t THEN [results |-> a, count |-> n] ELSE out[u]
    BY <2>1 DEF CTypeOK
  <2>4. \A b \in Addresses : arrays'[b] = IF b = a THEN n ELSE arrays[b]
    BY <2>1 DEF CTypeOK
  <2>5. \A u \in Threads : out[u].results # a
    BY <2>1, <2>2 DEF EveryArrayHasOneOwner, CTypeOK
  <2>6. \A b \in Addresses : arrays'[b] # 0 =>
          \E u \in Threads : out'[u] = [results |-> b, count |-> arrays'[b]]
    <3> SUFFICES ASSUME NEW b \in Addresses, arrays'[b] # 0
                 PROVE  \E u \in Threads : out'[u] = [results |-> b, count |-> arrays'[b]]
      OBVIOUS
    <3>1. CASE b = a
      BY <2>3, <2>4, <3>1
    <3>2. CASE b # a
      <4>1. PICK u \in Threads : out[u] = [results |-> b, count |-> arrays[b]]
        BY <2>4, <3>2 DEF EveryArrayHasOneOwner
      <4>2. u # t
        BY <4>1, NullAssumption
      <4> QED BY <2>3, <2>4, <3>2, <4>1, <4>2
    <3> QED BY <3>1, <3>2
  <2>7. \A u \in Threads :
          /\ out'[u].results # Null => /\ out'[u].count = arrays'[out'[u].results]
                                       /\ out'[u].count > 0
          /\ \A v \in Threads \ {u} : out'[u].results # Null => out'[u].results # out'[v].results
    BY <2>2, <2>3, <2>4, <2>5 DEF EveryArrayHasOneOwner, CTypeOK
  <2>8. strings' = UNION {StringsOf(b, arrays'[b]) : b \in Addresses}
    <3>1. StringsOf(a, arrays[a]) = {}
      BY <2>1 DEF StringsOf
    <3>2. \A x : x \in strings <=> \E b \in Addresses : x \in StringsOf(b, arrays[b])
      BY DEF EveryArrayHasOneOwner
    <3> QED BY <2>1, <2>4, <3>1, <3>2
  <2>9. StringsOf(a, n) \subseteq Addresses \X (1..MaxResults) \X {"text", "source", "tags"}
    BY <2>2, CBindingAssumption DEF StringsOf
  <2>10. EveryArrayHasOneOwner'
    BY <2>6, <2>7, <2>8 DEF EveryArrayHasOneOwner
  <2> QED BY <2>1, <2>3, <2>9, <2>10 DEF CTypeOK
<1> QED BY <1>1, <1>2

\* What is freed is one pair's array with its strings.
LEMMA FreeOk ==
    ASSUME CTypeOK, EveryArrayHasOneOwner, NEW t \in Threads, NEW u \in Threads,
           tpt_rag_free_results(t, u)
    PROVE  /\ EveryArrayHasOneOwner'
           /\ arrays' \in [Addresses -> 0..MaxResults]
           /\ strings' \subseteq Addresses \X (1..MaxResults) \X {"text", "source", "tags"}
           /\ out' \in [Threads -> [results : Addresses \cup {Null}, count : 0..MaxResults]]
<1>1. \A v \in Threads : out'[v] = IF v = u THEN [results |-> Null, count |-> 0] ELSE out[v]
  BY DEF tpt_rag_free_results, CTypeOK
<1>2. out' \in [Threads -> [results : Addresses \cup {Null}, count : 0..MaxResults]]
  BY CBindingAssumption DEF tpt_rag_free_results, CTypeOK
<1>3. CASE out[u].results = Null
  <2>1. arrays' = arrays /\ strings' = strings
    BY <1>3 DEF tpt_rag_free_results, free
  <2> QED BY <1>1, <1>2, <1>3, <2>1, NullAssumption DEF EveryArrayHasOneOwner, CTypeOK
<1>4. CASE out[u].results # Null
  <2> DEFINE a == out[u].results
  <2>1. a \in Addresses /\ out[u].count = arrays[a] /\ out[u].count > 0
    BY <1>4 DEF EveryArrayHasOneOwner, CTypeOK
  <2>2. arrays' = [arrays EXCEPT ![a] = 0] /\ strings' = strings \ StringsOf(a, arrays[a])
    BY <1>4, <2>1 DEF tpt_rag_free_results, free
  <2>3. \A b \in Addresses : arrays'[b] = IF b = a THEN 0 ELSE arrays[b]
    BY <2>1, <2>2 DEF CTypeOK
  <2>4. \A v \in Threads \ {u} : out[v].results # a
    BY <1>4 DEF EveryArrayHasOneOwner
  <2>5. \A b \in Addresses : arrays'[b] # 0 =>
          \E v \in Threads : out'[v] = [results |-> b, count |-> arrays'[b]]
    <3> SUFFICES ASSUME NEW b \in Addresses, arrays'[b] # 0
                 PROVE  \E v \in Threads : out'[v] = [results |-> b, count |-> arrays'[b]]
      OBVIOUS
    <3>1. b # a /\ arrays'[b] = arrays[b]
      BY <2>3
    <3>2. PICK v \in Threads : out[v] = [results |-> b, count |-> arrays[b]]
      BY <3>1 DEF EveryArrayHasOneOwner
    <3>3. v # u
      BY <3>1, <3>2
    <3> QED BY <1>1, <3>1, <3>2, <3>3
  <2>6. \A v \in Threads :
          /\ out'[v].results # Null => /\ out'[v].count = arrays'[out'[v].results]
                                       /\ out'[v].count > 0
          /\ \A w \in Threads \ {v} : out'[v].results # Null => out'[v].results # out'[w].results
    BY <1>1, <2>3, <2>4 DEF EveryArrayHasOneOwner, CTypeOK
  <2>7. strings' = UNION {StringsOf(b, arrays'[b]) : b \in Addresses}
    <3>1. \A x : x \in strings <=> \E b \in Addresses : x \in StringsOf(b, arrays[b])
      BY DEF EveryArrayHasOneOwner
    <3>2. \A b \in Addresses : b # a => StringsOf(b, arrays[b]) \cap StringsOf(a, arrays[a]) = {}
      BY <2>1, StringsAreApart, SMTT(30) DEF CTypeOK
    <3>3. StringsOf(a, 0) = {}
      BY DEF StringsOf
    <3> QED BY <2>2, <2>3, <3>1, <3>2, <3>3
  <2>8. EveryArrayHasOneOwner'
    BY <2>5, <2>6, <2>7 DEF EveryArrayHasOneOwner
  <2> QED BY <1>2, <2>1, <2>2, <2>8, CBindingAssumption DEF CTypeOK
<1> QED BY <1>3, <1>4

\* Every step of the C interface keeps the invariant.
LEMMA CStep == CInv /\ [CNext]_cVars => CInv'
<1> SUFFICES ASSUME CInv, [CNext]_cVars PROVE CInv'
  OBVIOUS
<1> CTypeOK /\ EveryArrayHasOneOwner
  BY DEF CInv
<1>1. ErrorsBelongToTheirCalls' /\ \A t \in Threads : call'[t] # Idle => LAST_ERROR'[t] = NoError
  BY ErrorsStep DEF CInv
<1> DEFINE Memory == /\ EveryArrayHasOneOwner
                     /\ arrays \in [Addresses -> 0..MaxResults]
                     /\ strings \subseteq Addresses \X (1..MaxResults) \X {"text", "source", "tags"}
                     /\ out \in [Threads -> [results : Addresses \cup {Null}, count : 0..MaxResults]]
           Calls == /\ handle \in [Threads -> Threads \cup {Null}]
                    /\ DOMAIN LAST_ERROR = Threads /\ DOMAIN returned = Threads
                    /\ DOMAIN call = Threads
                    /\ \A t \in Threads : call[t] = Idle \/ call[t].op \in Operations
                    /\ calls \in 0..MaxCalls
           Filling == \A t \in Threads :
                        call[t] # Idle => (call[t].op \in Queries => out[t].results = Null)
<1> HIDE DEF Memory, Calls, Filling
<1>2. Memory /\ Calls /\ Filling
  BY DEF Memory, Calls, Filling, CInv, CTypeOK, CallsStartClear
<1>3. ASSUME UNCHANGED <<arrays, strings, out>> PROVE Memory'
  BY <1>2, <1>3 DEF Memory, EveryArrayHasOneOwner
<1>4. ASSUME NEW t \in Threads, NEW op \in Operations, NEW bad, Begin(t, op, bad)
      PROVE  Memory' /\ Calls' /\ Filling'
  <2>1. Memory'
    BY <1>3, <1>4 DEF Begin
  <2>2. call' = [call EXCEPT ![t] = [op |-> op, bad |-> FirstBad(op, bad)]] /\ out' = out
    BY <1>4 DEF Begin
  <2>3. /\ call'[t].op = op /\ (op \in Queries => out'[t].results = Null)
        /\ \A u \in Threads \ {t} : call'[u] = call[u]
    BY <1>2, <1>4, <2>2 DEF Begin, Calls
  <2>4. Calls'
    BY <1>2, <1>4, <2>2, <2>3, CBindingAssumption DEF Begin, clear_last_error, Calls
  <2>5. Filling'
    BY <1>2, <2>2, <2>3 DEF Filling
  <2> QED BY <2>1, <2>4, <2>5
<1>5. ASSUME NEW t \in Threads, NEW op, NEW why, Returns(t, op, why),
             DOMAIN LAST_ERROR' = Threads, handle' \in [Threads -> Threads \cup {Null}],
             calls' \in 0..MaxCalls
      PROVE  Calls' /\ \A u \in Threads : call'[u] = IF u = t THEN Idle ELSE call[u]
  BY <1>2, <1>5 DEF Returns, Calls
<1>6. ASSUME NEW t \in Threads,
             \/ Refuse(t) \/ \E why \in EngineErrors \cup {"panic"} : Fail(t, why)
             \/ Succeed(t) \/ tpt_rag_destroy(t)
      PROVE  Memory' /\ Calls' /\ Filling'
  <2>1. Memory'
    BY <1>3, <1>6 DEF Refuse, Fail, Succeed, tpt_rag_destroy
  <2>2. /\ DOMAIN LAST_ERROR' = Threads /\ handle' \in [Threads -> Threads \cup {Null}]
        /\ calls' \in 0..MaxCalls /\ out' = out
        /\ \E op, why : Returns(t, op, why)
    BY <1>2, <1>6, CBindingAssumption
       DEF Refuse, Fail, Succeed, tpt_rag_destroy, set_last_error, clear_last_error, Calls
  <2>3. Calls' /\ \A u \in Threads : call'[u] = IF u = t THEN Idle ELSE call[u]
    BY <1>5, <2>2
  <2> QED BY <1>2, <2>1, <2>2, <2>3 DEF Filling
<1>7. ASSUME NEW t \in Threads, Answer(t)
      PROVE  Memory' /\ Calls' /\ Filling'
  <2>1. out[t].results = Null
    BY <1>2, <1>7 DEF Answer, Filling
  <2>2. Memory' /\ \A u \in Threads \ {t} : out'[u] = out[u]
    BY <1>7, <2>1, WriteResultsOk DEF Answer, Memory
  <2>3. Calls' /\ \A u \in Threads : call'[u] = IF u = t THEN Idle ELSE call[u]
    BY <1>2, <1>5, <1>7 DEF Answer, Calls
  <2> QED BY <1>2, <2>2, <2>3 DEF Filling
<1>8. ASSUME NEW t \in Threads, NEW u \in Threads, tpt_rag_free_results(t, u)
      PROVE  Memory' /\ Calls' /\ Filling'
  <2>1. Memory'
    BY <1>8, FreeOk DEF Memory
  <2>2. Calls' /\ \A v \in Threads : call'[v] = IF v = t THEN Idle ELSE call[v]
    BY <1>2, <1>5, <1>8, CBindingAssumption DEF tpt_rag_free_results, clear_last_error, Calls
  <2>3. \A v \in Threads : call'[v] # Idle => out'[v] = out[v]
    BY <1>8, <2>2 DEF tpt_rag_free_results, CTypeOK
  <2> QED BY <1>2, <2>1, <2>2, <2>3 DEF Filling
<1>9. ASSUME UNCHANGED cVars PROVE Memory' /\ Calls' /\ Filling'
  BY <1>2, <1>3, <1>9 DEF cVars, Calls, Filling
<1>10. Memory' /\ Calls' /\ Filling'
  BY <1>4, <1>6, <1>7, <1>8, <1>9 DEF CNext
<1> QED BY <1>1, <1>10 DEF Memory, Calls, Filling, CInv, CTypeOK, CallsStartClear

THEOREM CSpecOk == CSpec => []CInv
BY CInitOk, CStep, PTL DEF CSpec

\* Each thread reads the error of its own last call, whatever the others do.
THEOREM ErrorsAreTheThreads == CSpec => []ErrorsBelongToTheirCalls
<1>1. CInv => ErrorsBelongToTheirCalls
  BY DEF CInv
<1> QED BY <1>1, CSpecOk, PTL

\* Nothing that the interface allocates is lost or held twice.
THEOREM MemoryIsTheCallers == CSpec => []EveryArrayHasOneOwner
<1>1. CInv => EveryArrayHasOneOwner
  BY DEF CInv
<1> QED BY <1>1, CSpecOk, PTL

-----------------------------------------------------------------------------
(* The Python interface. *)

\* Only a thread in the engine has the mutex, and what is in the database between calls,
\* or while a call that adds nothing is in the engine, is what a call left.
HolderIsInTheEngine == \A t \in PyThreads : inner = t <=> at[t] = "engine"
Adding(t) == at[t] = "engine" /\ does[t] = "add_files"
WholeBetweenCalls == (\A t \in PyThreads : ~Adding(t)) => docs \in whole

PyInv == PyTypeOK /\ HolderIsInTheEngine /\ WholeBetweenCalls /\ QueriesSeeWholeCalls

\* Types: every step of the Python interface keeps them.
LEMMA PyTypesStep == PyTypeOK /\ [PyNext]_pyVars => PyTypeOK'
<1> SUFFICES ASSUME PyTypeOK, [PyNext]_pyVars PROVE PyTypeOK'
  OBVIOUS
<1> USE DEF PyTypeOK, Stages, Heavy, Light
<1>1. ASSUME NEW t \in PyThreads, TakeInterpreter(t) PROVE PyTypeOK'
  BY <1>1 DEF TakeInterpreter
<1>2. ASSUME NEW t \in PyThreads, LetInterpreterGo(t) PROVE PyTypeOK'
  BY <1>2 DEF LetInterpreterGo
<1>3. ASSUME NEW t \in PyThreads, NEW op \in Heavy \cup Light, NEW given \in SUBSET PySources,
             BeginPy(t, op, given)
      PROVE PyTypeOK'
  BY <1>3 DEF BeginPy, Goes
<1>4. ASSUME NEW t \in PyThreads, Lock(t) PROVE PyTypeOK'
  BY <1>4 DEF Lock, Goes, Ends
<1>5. ASSUME NEW t \in PyThreads, AddOne(t) PROVE PyTypeOK'
  BY <1>5 DEF AddOne
<1>6. ASSUME NEW t \in PyThreads, NEW end, NEW saw, NEW rest \in SUBSET PySources,
             Unlock(t, end, saw, rest), poisoned' \in BOOLEAN
      PROVE PyTypeOK'
  BY <1>6 DEF Unlock, Goes, Ends
<1>7. ASSUME NEW t \in PyThreads, EndWell(t) \/ EndInError(t) \/ EndInPanic(t) PROVE PyTypeOK'
  <2>1. docs \in SUBSET PySources /\ docs \ sources[t] \in SUBSET PySources
    OBVIOUS
  <2> QED BY <1>6, <1>7, <2>1 DEF EndWell, EndInError, EndInPanic
<1>8. ASSUME NEW t \in PyThreads, Return(t) PROVE PyTypeOK'
  BY <1>8 DEF Return, Goes
<1>9. CASE UNCHANGED pyVars
  BY <1>9 DEF pyVars
<1> QED BY <1>1, <1>2, <1>3, <1>4, <1>5, <1>7, <1>8, <1>9 DEF PyNext

LEMMA PyInitOk == PyInit => PyInv
<1> SUFFICES ASSUME PyInit PROVE PyInv
  OBVIOUS
<1>1. PyTypeOK
  BY DEF PyInit, PyTypeOK, Stages
<1>2. HolderIsInTheEngine
  BY PythonBindingAssumption DEF PyInit, HolderIsInTheEngine
<1>3. WholeBetweenCalls /\ QueriesSeeWholeCalls
  BY DEF PyInit, WholeBetweenCalls, QueriesSeeWholeCalls
<1> QED BY <1>1, <1>2, <1>3 DEF PyInv

\* A step that leaves the database, what was whole and the answers alone, and lets no call
\* that adds out of the engine.
LEMMA QuietStep ==
  ASSUME PyInv, PyTypeOK', HolderIsInTheEngine', UNCHANGED <<docs, whole, answer>>,
         \A t \in PyThreads : Adding(t) => Adding(t)'
  PROVE  PyInv'
BY DEF PyInv, WholeBetweenCalls, QueriesSeeWholeCalls

\* Taking the mutex: nobody had it, and the thread is in the engine then, unless a panic
\* poisoned the mutex.
LEMMA LockOk == ASSUME PyInv, PyTypeOK', NEW t \in PyThreads, Lock(t) PROVE PyInv'
<1>1. HolderIsInTheEngine'
  BY PythonBindingAssumption DEF PyInv, PyTypeOK, HolderIsInTheEngine, Lock, Goes
<1>2. CASE poisoned
  <2>1. \A u \in PyThreads : answer'[u].end = "done" /\ answer'[u].saw # {} => answer'[u] = answer[u]
    BY <1>2 DEF PyInv, PyTypeOK, Lock, Ends
  <2>2. QueriesSeeWholeCalls'
    BY <1>2, <2>1 DEF PyInv, QueriesSeeWholeCalls, Lock
  <2>3. \A u \in PyThreads : Adding(u) => Adding(u)'
    BY <1>2 DEF PyInv, PyTypeOK, Lock, Goes, Adding
  <2>4. WholeBetweenCalls'
    BY <1>2, <2>3 DEF PyInv, WholeBetweenCalls, Lock
  <2> QED BY <1>1, <2>2, <2>4 DEF PyInv
<1>3. CASE ~poisoned
  BY <1>1, <1>3, QuietStep DEF PyInv, PyTypeOK, Lock, Goes, Adding
<1> QED BY <1>2, <1>3

\* A document is added by the one thread in the engine, which goes on there.
LEMMA AddOneOk == ASSUME PyInv, PyTypeOK', NEW t \in PyThreads, AddOne(t) PROVE PyInv'
<1>1. Adding(t)' /\ HolderIsInTheEngine'
  BY DEF PyInv, HolderIsInTheEngine, AddOne, Adding
<1>2. WholeBetweenCalls' /\ QueriesSeeWholeCalls'
  BY <1>1 DEF PyInv, WholeBetweenCalls, QueriesSeeWholeCalls, AddOne
<1> QED BY <1>1, <1>2 DEF PyInv

\* A call ends: the mutex is free, what is in the database then is what a call left, and
\* what the call saw, if it adds nothing, was whole before.
LEMMA UnlockOk ==
  ASSUME PyInv, PyTypeOK', NEW t \in PyThreads, NEW end, NEW saw, NEW rest,
         at[t] = "engine", Unlock(t, end, saw, rest),
         end = "done" /\ saw # {} => saw \in whole
  PROVE  PyInv'
<1>1. HolderIsInTheEngine'
  BY PythonBindingAssumption DEF PyInv, PyTypeOK, HolderIsInTheEngine, Unlock, Goes
<1>2. WholeBetweenCalls'
  BY DEF WholeBetweenCalls, Unlock
<1>3. \A u \in PyThreads : answer'[u] = IF u = t THEN [end |-> end, saw |-> saw] ELSE answer[u]
  BY DEF PyInv, PyTypeOK, Unlock, Ends
<1>4. whole \subseteq whole'
  BY DEF Unlock
<1>5. QueriesSeeWholeCalls'
  BY <1>3, <1>4 DEF PyInv, QueriesSeeWholeCalls
<1> QED BY <1>1, <1>2, <1>5 DEF PyInv

LEMMA EndWellOk == ASSUME PyInv, PyTypeOK', NEW t \in PyThreads, EndWell(t) PROVE PyInv'
<1>1. CASE does[t] = "add_files"
  BY <1>1, UnlockOk DEF EndWell
<1>2. CASE does[t] # "add_files"
  <2>1. \A u \in PyThreads : ~Adding(u)
    BY <1>2 DEF PyInv, HolderIsInTheEngine, EndWell, Adding
  <2>2. docs \in whole
    BY <2>1 DEF PyInv, WholeBetweenCalls
  <2> QED BY <2>2, UnlockOk DEF EndWell
<1> QED BY <1>1, <1>2

\* Every step of the Python interface keeps the invariant.
LEMMA PyStep == PyInv /\ [PyNext]_pyVars => PyInv'
<1> SUFFICES ASSUME PyInv, [PyNext]_pyVars PROVE PyInv'
  OBVIOUS
<1> PyTypeOK'
  BY PyTypesStep DEF PyInv
<1>1. ASSUME NEW t \in PyThreads, TakeInterpreter(t) \/ LetInterpreterGo(t) PROVE PyInv'
  BY <1>1, QuietStep
     DEF TakeInterpreter, LetInterpreterGo, PyInv, HolderIsInTheEngine, Adding
<1>2. ASSUME NEW t \in PyThreads, NEW op, NEW given, BeginPy(t, op, given) PROVE PyInv'
  <2>1. HolderIsInTheEngine' /\ \A u \in PyThreads : Adding(u) => Adding(u)'
    BY <1>2 DEF BeginPy, Goes, PyInv, PyTypeOK, HolderIsInTheEngine, Adding
  <2> QED BY <1>2, <2>1, QuietStep DEF BeginPy
<1>3. ASSUME NEW t \in PyThreads, Return(t) PROVE PyInv'
  <2>1. HolderIsInTheEngine' /\ \A u \in PyThreads : Adding(u) => Adding(u)'
    BY <1>3 DEF Return, Goes, PyInv, PyTypeOK, HolderIsInTheEngine, Adding
  <2> QED BY <1>3, <2>1, QuietStep DEF Return
<1>4. ASSUME NEW t \in PyThreads, EndInError(t) \/ EndInPanic(t) PROVE PyInv'
  BY <1>4, UnlockOk DEF EndInError, EndInPanic
<1>5. CASE UNCHANGED pyVars
  BY <1>5, QuietStep DEF pyVars, PyInv, HolderIsInTheEngine, Adding
<1> QED BY <1>1, <1>2, <1>3, <1>4, <1>5, LockOk, AddOneOk, EndWellOk DEF PyNext

THEOREM PySpecOk == PySpec => []PyInv
BY PyInitOk, PyStep, PTL DEF PySpec

\* No two threads wait for each other's lock, and none for its own, for any number of
\* Python threads: the mutex is let go before the interpreter is asked for.
THEOREM NoCircle == PySpec => []NobodyWaitsInACircle
<1>1. PyInv => NobodyWaitsInACircle
  BY PythonBindingAssumption
     DEF PyInv, PyTypeOK, HolderIsInTheEngine, NobodyWaitsInACircle, Waits
<1> QED BY <1>1, PySpecOk, PTL

\* A query answers from what whole calls left, for any number of Python threads: the mutex
\* is held for all the files of an add_files call.
THEOREM WholeCallsAreSeen == PySpec => []QueriesSeeWholeCalls
<1>1. PyInv => QueriesSeeWholeCalls
  BY DEF PyInv
<1> QED BY <1>1, PySpecOk, PTL

-----------------------------------------------------------------------------
(* The migrations. *)

\* Every database a library left behind is at the version it says.
LEMMA InitOk == MigrationsInit => MInv
<1> SUFFICES ASSUME MigrationsInit PROVE MInv
    OBVIOUS
<1>1. MigrationsTypeOK /\ VersionIsTrue /\ SchemaIsThere
    <2>1. CASE version = Unrecorded
        <3>1. /\ tables \in {{}, {"meta"}, {"chunks"}, {"chunks", "meta"}} /\ columns = {}
              /\ pc = [p \in Openers |-> "closed"] /\ current = [p \in Openers |-> 0]
              /\ reverted = FALSE
            BY <2>1, OpenersAssumption DEF MigrationsInit, LATEST_SCHEMA_VERSION
        <3>2. CurrentVersion \in {0, 1} /\ (CurrentVersion = 1 <=> "chunks" \in tables)
            BY <2>1 DEF CurrentVersion
        <3>3. VersionIsTrue
            BY <3>1, <3>2 DEF VersionIsTrue, TablesAt, ColumnsAt
        <3>4. SchemaIsThere
            BY <2>1, <3>1 DEF SchemaIsThere
        <3>5. MigrationsTypeOK
            <4>1. reverted \in BOOLEAN
                BY <3>1, Zenon
            <4> QED BY <2>1, <3>1, <4>1 DEF MigrationsTypeOK, LATEST_SCHEMA_VERSION
        <3> QED BY <3>3, <3>4, <3>5
    <2>2. CASE version # Unrecorded
        <3>1. PICK v \in 1..5 : tables = TablesAt(v) /\ columns = ColumnsAt(v) /\ version = v
            BY <2>2 DEF MigrationsInit, LATEST_SCHEMA_VERSION
        <3>2. VersionIsTrue /\ SchemaIsThere
            BY <2>2, <3>1 DEF VersionIsTrue, SchemaIsThere, CurrentVersion
        <3>3. MigrationsTypeOK
            <4>1. /\ tables \subseteq {"meta", "chunks", "documents"}
                  /\ columns \subseteq {"offsets", "section"}
                BY <3>1 DEF TablesAt, ColumnsAt
            <4>2. /\ pc = [p \in Openers |-> "closed"] /\ current = [p \in Openers |-> 0]
                  /\ reverted = FALSE
                BY DEF MigrationsInit
            <4>3. reverted \in BOOLEAN
                BY <4>2, Zenon
            <4> QED BY <3>1, <4>1, <4>2, <4>3 DEF MigrationsTypeOK, LATEST_SCHEMA_VERSION
        <3> QED BY <3>2, <3>3
    <2> QED BY <2>1, <2>2
<1>2. OpenersAreRight
    BY DEF MigrationsInit, OpenersAreRight
<1> QED BY <1>1, <1>2 DEF MInv

\* Creating table meta takes nothing away.
LEMMA CreateMetaOk == ASSUME MInv, NEW p \in Openers, CreateMeta(p) PROVE MInv'
BY OpenersAssumption
   DEF CreateMeta, MInv, MigrationsTypeOK, VersionIsTrue, SchemaIsThere, OpenersAreRight,
       CurrentVersion, TablesAt, ColumnsAt, LATEST_SCHEMA_VERSION

\* An opener that goes on has seen a version whose schema is there.
LEMMA ReadRecordOk == ASSUME MInv, NEW p \in Openers, ReadRecord(p) PROVE MInv'
BY OpenersAssumption
   DEF ReadRecord, MInv, MigrationsTypeOK, VersionIsTrue, SchemaIsThere, OpenersAreRight,
       CurrentVersion, TablesAt, ColumnsAt, LATEST_SCHEMA_VERSION

\* Nothing is known yet without a record.
LEMMA NoRecordOk == ASSUME MInv, NEW p \in Openers, NoRecord(p) PROVE MInv'
BY OpenersAssumption
   DEF NoRecord, MInv, MigrationsTypeOK, VersionIsTrue, SchemaIsThere, OpenersAreRight,
       CurrentVersion, TablesAt, ColumnsAt, LATEST_SCHEMA_VERSION

\* The tables tell no more than what is there.
LEMMA LookForTablesOk == ASSUME MInv, NEW p \in Openers, LookForTables(p) PROVE MInv'
BY OpenersAssumption
   DEF LookForTables, MInv, MigrationsTypeOK, VersionIsTrue, SchemaIsThere, OpenersAreRight,
       CurrentVersion, TablesAt, ColumnsAt, LATEST_SCHEMA_VERSION

\* A step adds what its version has, and records the version.
LEMMA MigrateOk == ASSUME MInv, NEW p \in Openers, Migrate(p) PROVE MInv'
<1> DEFINE v == current[p] + 1
<1>1. /\ v \in 1..4 /\ pc[p] = "migrate" /\ Applies(v)
      /\ version' = v /\ pc' = pc /\ current' = [current EXCEPT ![p] = v]
      /\ reverted' = (reverted \/ CurrentVersion > v)
    BY DEF MInv, MigrationsTypeOK, OpenersAreRight, Migrate, LATEST_SCHEMA_VERSION
<1>2. tables' = tables \cup TablesAt(v)
    <2>1. "meta" \in tables /\ TablesAt(v - 1) \subseteq tables
        BY <1>1 DEF MInv, MigrationsTypeOK, OpenersAreRight
    <2> QED BY <1>1, <2>1 DEF Migrate, TablesAt
<1>3. columns' = columns \cup ColumnsAt(v)
    <2>1. ColumnsAt(v - 1) \subseteq columns
        BY <1>1 DEF MInv, MigrationsTypeOK, OpenersAreRight
    <2> QED BY <1>1, <2>1 DEF Migrate, ColumnsAt
<1>4. CurrentVersion' = v /\ version # Unrecorded => version <= 4
    BY <1>1, OpenersAssumption DEF MInv, OpenersAreRight, CurrentVersion, LATEST_SCHEMA_VERSION
<1>5. CurrentVersion \in 0..5
    BY DEF MInv, MigrationsTypeOK, CurrentVersion, LATEST_SCHEMA_VERSION
<1> HIDE DEF v
<1>6. MigrationsTypeOK'
    BY <1>1, <1>2, <1>3 DEF MInv, MigrationsTypeOK, TablesAt, ColumnsAt, LATEST_SCHEMA_VERSION
<1>7. VersionIsTrue'
    <2> SUFFICES ASSUME ~reverted'
                 PROVE  /\ tables' \ {"meta"} = TablesAt(v) \ {"meta"}
                        /\ columns' = ColumnsAt(v)
        BY <1>1, OpenersAssumption DEF VersionIsTrue, CurrentVersion
    <2>1. ~reverted /\ CurrentVersion <= v
        <3>1. ~reverted /\ ~(CurrentVersion > v)
            BY <1>1, Zenon
        <3> QED BY <1>1, <1>5, <3>1
    <2>2. tables \ {"meta"} = TablesAt(CurrentVersion) \ {"meta"} /\ columns = ColumnsAt(CurrentVersion)
        BY <2>1 DEF MInv, VersionIsTrue
    <2>3. TablesAt(CurrentVersion) \subseteq TablesAt(v) /\ ColumnsAt(CurrentVersion) \subseteq ColumnsAt(v)
        BY <1>1, <1>5, <2>1 DEF TablesAt, ColumnsAt
    <2> QED BY <1>2, <1>3, <2>2, <2>3
<1>8. SchemaIsThere'
    BY <1>1, <1>2, <1>3, OpenersAssumption DEF SchemaIsThere
<1>9. OpenersAreRight'
    <2> SUFFICES ASSUME NEW q \in Openers
                 PROVE  /\ pc[q] # "closed" => "meta" \in tables'
                        /\ pc[q] \in {"migrate", "open"} =>
                            /\ current'[q] <= 4
                            /\ TablesAt(current'[q]) \subseteq tables'
                            /\ ColumnsAt(current'[q]) \subseteq columns'
                        /\ pc[q] = "open" => current'[q] = 4
        BY <1>1, OpenersAssumption DEF OpenersAreRight, LATEST_SCHEMA_VERSION
    <2>1. CASE q = p
        BY <1>1, <1>2, <1>3, <2>1 DEF MInv, MigrationsTypeOK, OpenersAreRight
    <2>2. CASE q # p
        <3>1. current'[q] = current[q]
            BY <1>1, <2>2 DEF MInv, MigrationsTypeOK
        <3> QED BY <1>2, <1>3, <3>1 DEF MInv, OpenersAreRight, LATEST_SCHEMA_VERSION
    <2> QED BY <2>1, <2>2
<1> QED BY <1>6, <1>7, <1>8, <1>9 DEF MInv

\* An opener is done when its version is the latest.
LEMMA OpenedOk == ASSUME MInv, NEW p \in Openers, Opened(p) PROVE MInv'
BY OpenersAssumption
   DEF Opened, MInv, MigrationsTypeOK, VersionIsTrue, SchemaIsThere, OpenersAreRight,
       CurrentVersion, TablesAt, ColumnsAt, LATEST_SCHEMA_VERSION

\* A process that stops leaves the database as it is.
LEMMA StopOk == ASSUME MInv, NEW p \in Openers, Stop(p) PROVE MInv'
BY OpenersAssumption
   DEF Stop, MInv, MigrationsTypeOK, VersionIsTrue, SchemaIsThere, OpenersAreRight,
       CurrentVersion, TablesAt, ColumnsAt, LATEST_SCHEMA_VERSION

-----------------------------------------------------------------------------
\* The invariant is inductive.
THEOREM Inductive == MInv /\ [MigrationsNext]_migrationsVars => MInv'
<1> SUFFICES ASSUME MInv, [MigrationsNext]_migrationsVars PROVE MInv'
    OBVIOUS
<1>1. CASE MigrationsNext
    <2> PICK p \in Openers :
            \/ CreateMeta(p) \/ ReadRecord(p) \/ NoRecord(p) \/ LookForTables(p)
            \/ Migrate(p) \/ Opened(p) \/ Stop(p)
        BY <1>1 DEF MigrationsNext
    <2> QED BY CreateMetaOk, ReadRecordOk, NoRecordOk, LookForTablesOk, MigrateOk, OpenedOk, StopOk
<1>2. CASE UNCHANGED migrationsVars
    BY <1>2 DEF migrationsVars, MInv, MigrationsTypeOK, VersionIsTrue, SchemaIsThere, OpenersAreRight, CurrentVersion
<1> QED BY <1>1, <1>2

\* The invariant holds in every reachable state.
THEOREM Invariance == MigrationsSpec => []MInv
BY InitOk, Inductive, PTL DEF MigrationsSpec

\* A store that opened has the whole schema, whoever else opened the folder.
THEOREM OpenMeansComplete == MigrationsSpec => []OpenIsComplete
<1>1. MInv => OpenIsComplete
    BY DEF MInv, MigrationsTypeOK, OpenersAreRight, OpenIsComplete, LATEST_SCHEMA_VERSION
<1> QED BY <1>1, Invariance, PTL

\* After any failure of a step the version is that of the schema there is.
THEOREM VersionAgrees == MigrationsSpec => []VersionIsTrue
<1>1. MInv => VersionIsTrue
    BY DEF MInv
<1> QED BY <1>1, Invariance, PTL

-----------------------------------------------------------------------------
(* The files of the models. *)

Writing == {"first", "second"}
Torn(i) == data[i] \notin {Pinned, Other}

\* Only a pull that writes, or ended while it did, has an inode open: one of its file, and
\* one that is being written anew.
InodesAreOfTheirFile ==
    /\ \A f \in ModelFile :
         /\ name[f] # NoFile => name[f][1] = f
         /\ temporary[f] # NoFile => temporary[f][1] = f /\ temporary[f] # name[f]
    /\ \A p \in Pulls :
         /\ pull[p].step \in Writing => open[p] # NoFile /\ open[p][1] = File(p)
         /\ pull[p].step \notin Writing \cup {"failed", "stopped"} => open[p] = NoFile
         /\ open[p] # NoFile => data[open[p]] \in SUBSET Halves

\* A pull about to write the second half finds the first there, unless the file was emptied
\* by another, which then still has it open.
LastWriterFinishes ==
    \A p \in Pulls : pull[p].step = "second" =>
        \/ "first" \in data[open[p]]
        \/ \E q \in Pulls : open[q] = open[p] /\ pull[q].step # "second"

\* A pull on its way to the rename has a temporary file that is whole or open.
HalvesAreOpen ==
    \A p \in Pulls :
        (/\ pull[p].step \in Writing \cup {"rename"}
         /\ temporary[File(p)] # NoFile
         /\ Torn(temporary[File(p)]))
        => \E q \in Pulls : open[q] = temporary[File(p)]

\* A pull that has always been alone renames what it wrote.
OneAtATime ==
    ~together => \A p \in Pulls : Runs(p) =>
        /\ \A q \in Pulls : Runs(q) => q = p
        /\ pull[p].step \in Writing => open[p] = temporary[File(p)]
        /\ pull[p].step = "second" => "first" \in data[open[p]]
        /\ pull[p].step = "rename" /\ temporary[File(p)] # NoFile =>
              data[temporary[File(p)]] = Pinned

FilesInv ==
    /\ FilesTypeOK
    /\ InodesAreOfTheirFile
    /\ LastWriterFinishes
    /\ HalvesAreOpen
    /\ OneAtATime
    /\ DownloadsAreWhole

-----------------------------------------------------------------------------
LEMMA FilesAreNamed == FilesTypeOK => \A p \in Pulls : File(p) \in ModelFile
BY DEF FilesTypeOK, File, ModelFile

\* A half more never tears what was whole, and a second half after a first makes it whole.
LEMMA HalvesAddUp ==
    ASSUME NEW d \in SUBSET Halves, NEW h \in Halves
    PROVE  /\ (d \ Other) \cup {h} = d \cup {h}
           /\ d \cup {h} \in SUBSET Halves
           /\ d = Pinned => d \cup {h} = Pinned
           /\ "first" \in d /\ h = "second" => d \cup {h} = Pinned
           /\ d # Other
<1>1. (d \ Other) \cup {h} = d \cup {h} /\ d # Other
  BY DEF Halves, Other
<1>2. d \cup {h} \in SUBSET Halves /\ (d = Pinned => d \cup {h} = Pinned)
  BY DEF Halves, Pinned
<1>3. "first" \in d /\ h = "second" => d \cup {h} = Pinned
  BY DEF Halves, Pinned
<1> QED BY <1>1, <1>2, <1>3

LEMMA FilesInitOk == FilesInit => FilesInv
<1> SUFFICES ASSUME FilesInit PROVE FilesInv
  OBVIOUS
<1>1. PICK holds \in [ModelFile -> {NoFile, Pinned, Other}], left \in SUBSET ModelFile :
          /\ name = [f \in ModelFile |-> IF holds[f] = NoFile THEN NoFile ELSE <<f, 0>>]
          /\ temporary = [f \in ModelFile |-> IF f \in left THEN <<f, 1>> ELSE NoFile]
          /\ data = [i \in Inodes |->
                       IF i[2] = 0 /\ holds[i[1]] # NoFile THEN holds[i[1]]
                       ELSE IF i[2] = 1 /\ i[1] \in left THEN {"first"} ELSE {}]
  BY DEF FilesInit
<1>2. \A f \in ModelFile : <<f, 0>> \in Inodes /\ <<f, 1>> \in Inodes /\ <<f, 0>> # <<f, 1>>
  BY ModelFilesAssumption DEF Inodes
<1>3. /\ pull = [p \in Pulls |-> [step |-> "ready", at |-> 1]]
      /\ open = [p \in Pulls |-> NoFile] /\ together = FALSE
  BY DEF FilesInit
<1>4. FilesTypeOK
  <2>1. data \in [Inodes -> FileContents]
    <3>1. Pinned \in FileContents /\ Other \in FileContents /\ {"first"} \in FileContents /\ {} \in FileContents
      BY DEF Pinned, Other, FileContents, Halves
    <3>2. \A i \in Inodes : i[1] \in ModelFile
      BY DEF Inodes
    <3> QED BY <1>1, <3>1, <3>2
  <2>2. name \in [ModelFile -> Inodes \cup {NoFile}] /\ temporary \in [ModelFile -> Inodes \cup {NoFile}]
    BY <1>1, <1>2
  <2>3. pull \in [Pulls -> [step : {"ready"}, at : 1..3]] /\ open \in [Pulls -> Inodes \cup {NoFile}]
    BY <1>3
  <2> QED BY <1>3, <2>1, <2>2, <2>3 DEF FilesTypeOK, Over
<1>5. InodesAreOfTheirFile
  BY <1>1, <1>2, <1>3, ModelFilesAssumption DEF InodesAreOfTheirFile, Writing
<1>6. LastWriterFinishes /\ HalvesAreOpen /\ OneAtATime
  BY <1>3 DEF LastWriterFinishes, HalvesAreOpen, OneAtATime, Runs, Over, Writing
<1>7. DownloadsAreWhole
  BY <1>1, <1>2 DEF DownloadsAreWhole
<1> QED BY <1>4, <1>5, <1>6, <1>7 DEF FilesInv

-----------------------------------------------------------------------------
\* A step that only moves a pull, to where it writes nothing, keeps all.
LEMMA MovesKeep ==
    ASSUME FilesInv, NEW p \in Pulls, FilesTypeOK',
           UNCHANGED <<name, temporary, data, open>>,
           \A q \in Pulls \ {p} : pull'[q] = pull[q],
           pull'[p].step \notin Writing \cup {"rename"},
           open[p] # NoFile => pull'[p].step \in {"failed", "stopped"},
           together => together',
           Runs(p) \/ (~together' => \A q \in Pulls : ~Runs(q))
    PROVE  FilesInv'
<1> USE DEF FilesInv, Writing
<1>1. \A q \in Pulls : pull'[q].step \in Writing \cup {"rename"} =>
          q # p /\ pull'[q] = pull[q] /\ File(q)' = File(q)
  BY DEF File
<1>2. InodesAreOfTheirFile'
  <2>1. \A f \in ModelFile :
           /\ name'[f] # NoFile => name'[f][1] = f
           /\ temporary'[f] # NoFile => temporary'[f][1] = f /\ temporary'[f] # name'[f]
    BY DEF InodesAreOfTheirFile
  <2>2. ASSUME NEW q \in Pulls
        PROVE  /\ pull'[q].step \in Writing => open'[q] # NoFile /\ open'[q][1] = File(q)'
               /\ pull'[q].step \notin Writing \cup {"failed", "stopped"} => open'[q] = NoFile
               /\ open'[q] # NoFile => data'[open'[q]] \in SUBSET Halves
    <3>1. CASE q = p
      BY <3>1 DEF InodesAreOfTheirFile
    <3>2. CASE q # p
      BY <3>2, <1>1 DEF InodesAreOfTheirFile
    <3> QED BY <3>1, <3>2
  <2> QED BY <2>1, <2>2 DEF InodesAreOfTheirFile
<1>3. LastWriterFinishes'
  <2> SUFFICES ASSUME NEW q \in Pulls, pull'[q].step = "second"
               PROVE  \/ "first" \in data[open[q]]
                      \/ \E r \in Pulls : open[r] = open[q] /\ pull'[r].step # "second"
    BY DEF LastWriterFinishes
  <2>1. pull[q].step = "second"
    BY <1>1
  <2>2. \A r \in Pulls : pull[r].step # "second" => pull'[r].step # "second"
    BY <1>1
  <2> QED BY <2>1, <2>2 DEF LastWriterFinishes
<1>4. HalvesAreOpen'
  BY <1>1 DEF HalvesAreOpen, Torn
<1>5. OneAtATime'
  <2> SUFFICES ASSUME ~together', NEW q \in Pulls, Runs(q)'
               PROVE  /\ \A r \in Pulls : Runs(r)' => r = q
                      /\ pull'[q].step \in Writing => open[q] = temporary[File(q)']
                      /\ pull'[q].step = "second" => "first" \in data[open[q]]
                      /\ pull'[q].step = "rename" /\ temporary[File(q)'] # NoFile =>
                            data[temporary[File(q)']] = Pinned
    BY DEF OneAtATime
  <2>1. ~together /\ \A r \in Pulls : Runs(r) => r = p
    BY DEF OneAtATime
  <2>2. \A r \in Pulls : Runs(r)' => r = p
    BY <2>1 DEF Runs
  <2> QED BY <2>2, <1>1
<1>6. DownloadsAreWhole'
  BY DEF DownloadsAreWhole
<1> QED BY <1>2, <1>3, <1>4, <1>5, <1>6

LEMMA MoveSteps ==
    ASSUME FilesInv, NEW p \in Pulls,
           Start(p) \/ Keep(p) \/ Download(p) \/ WriteFails(p) \/ Stops(p)
    PROVE  FilesInv'
<1> USE DEF FilesInv, Writing
<1>1. CASE Start(p)
  <2>1. FilesTypeOK' /\ (\A q \in Pulls \ {p} : pull'[q] = pull[q]) /\ pull'[p].step = "check"
    BY <1>1 DEF Start, To, FilesTypeOK, Over
  <2>2. open[p] = NoFile
    BY <1>1 DEF Start, IsAt, InodesAreOfTheirFile
  <2>3. (together => together') /\ (~together' => \A q \in Pulls : ~Runs(q))
    BY <1>1 DEF Start
  <2> QED BY <1>1, <2>1, <2>2, <2>3, MovesKeep DEF Start
<1>2. CASE Keep(p)
  <2>1. FilesTypeOK' /\ (\A q \in Pulls \ {p} : pull'[q] = pull[q])
        /\ pull'[p].step \in {"done", "check"}
    BY <1>2 DEF Keep, Past, FilesTypeOK, Over
  <2>2. open[p] = NoFile /\ Runs(p)
    BY <1>2 DEF Keep, IsAt, InodesAreOfTheirFile, Runs, Over
  <2> QED BY <1>2, <2>1, <2>2, MovesKeep DEF Keep
<1>3. CASE Download(p)
  <2>0. Runs(p) /\ open[p] = NoFile
    BY <1>3 DEF Download, IsAt, InodesAreOfTheirFile, Runs, Over
  <2>1. FilesTypeOK' /\ (\A q \in Pulls \ {p} : pull'[q] = pull[q])
        /\ pull'[p].step \in {"write", "failed"}
    BY <1>3 DEF Download, To, FilesTypeOK, Over
  <2> QED BY <1>3, <2>0, <2>1, MovesKeep DEF Download
<1>4. CASE WriteFails(p)
  <2>1. FilesTypeOK' /\ (\A q \in Pulls \ {p} : pull'[q] = pull[q]) /\ pull'[p].step = "failed"
    BY <1>4 DEF WriteFails, To, FilesTypeOK, Over
  <2>2. Runs(p)
    BY <1>4 DEF WriteFails, Runs, Over
  <2> QED BY <1>4, <2>1, <2>2, MovesKeep DEF WriteFails
<1>5. CASE Stops(p)
  <2>1. FilesTypeOK' /\ (\A q \in Pulls \ {p} : pull'[q] = pull[q]) /\ pull'[p].step = "stopped"
    BY <1>5 DEF Stops, To, FilesTypeOK, Over
  <2> QED BY <1>5, <2>1, MovesKeep DEF Stops
<1> QED BY <1>1, <1>2, <1>3, <1>4, <1>5

-----------------------------------------------------------------------------
\* A temporary file that is made or emptied is open, and is none of the real ones.
LEMMA CreateStep ==
    ASSUME FilesInv, NEW p \in Pulls, Create(p)
    PROVE  FilesInv'
<1> USE DEF FilesInv, Writing
<1> DEFINE f == File(p)
<1>1. PICK i \in IF temporary[f] = NoFile THEN NewInode(f) ELSE {temporary[f]} :
          /\ temporary' = [temporary EXCEPT ![f] = i]
          /\ data' = [data EXCEPT ![i] = {}]
          /\ open' = [open EXCEPT ![p] = i]
  BY DEF Create
<1>2. f \in ModelFile
  BY FilesAreNamed
<1>3. i \in Inodes /\ i # NoFile /\ i[1] = f /\ \A g \in ModelFile : name[g] # i
  <2>1. CASE temporary[f] = NoFile
    <3>1. i \in Unused(f)
      BY <1>1, <2>1 DEF NewInode
    <3>2. i \in Inodes /\ i[1] = f
      BY <3>1, <1>2 DEF Unused, Inodes
    <3> QED BY <3>1, <3>2, ModelFilesAssumption DEF Unused, Named
  <2>2. CASE temporary[f] # NoFile
    BY <1>1, <1>2, <2>2, ModelFilesAssumption DEF InodesAreOfTheirFile, FilesTypeOK
  <2> QED BY <2>1, <2>2
<1>4. \A g \in ModelFile : g # f => temporary[g] # i /\ temporary'[g] = temporary[g]
  BY <1>1, <1>2, <1>3 DEF InodesAreOfTheirFile, FilesTypeOK
<1>5. temporary'[f] = i /\ data'[i] = {} /\ open'[p] = i /\ name' = name /\ together' = together
  BY <1>1, <1>2, <1>3 DEF Create, FilesTypeOK
<1>6. /\ pull[p].step = "write" /\ open[p] = NoFile /\ pull'[p].step = "first" /\ File(p)' = f
      /\ \A q \in Pulls \ {p} : pull'[q] = pull[q] /\ open'[q] = open[q] /\ File(q)' = File(q)
  BY <1>1 DEF Create, To, IsAt, FilesTypeOK, InodesAreOfTheirFile, File
<1>7. \A j \in Inodes \ {i} : data'[j] = data[j]
  BY <1>1 DEF FilesTypeOK
<1>8. FilesTypeOK'
  <2>1. data' \in [Inodes -> FileContents]
    BY <1>1, <1>3 DEF FilesTypeOK, FileContents, Halves
  <2>2. pull' \in [Pulls -> [step : Over \cup {"check", "write", "first", "second", "rename"},
                             at : 1..3]]
    BY DEF Create, To, FilesTypeOK
  <2> QED BY <1>1, <1>3, <2>1, <2>2 DEF FilesTypeOK, Create
<1>9. InodesAreOfTheirFile'
  <2>1. ASSUME NEW g \in ModelFile
        PROVE  /\ name'[g] # NoFile => name'[g][1] = g
               /\ temporary'[g] # NoFile => temporary'[g][1] = g /\ temporary'[g] # name'[g]
    BY <1>3, <1>4, <1>5 DEF InodesAreOfTheirFile
  <2>2. ASSUME NEW q \in Pulls
        PROVE  /\ pull'[q].step \in Writing => open'[q] # NoFile /\ open'[q][1] = File(q)'
               /\ pull'[q].step \notin Writing \cup {"failed", "stopped"} => open'[q] = NoFile
               /\ open'[q] # NoFile => data'[open'[q]] \in SUBSET Halves
    <3>1. CASE q = p
      BY <3>1, <1>3, <1>5, <1>6
    <3>2. CASE q # p
      BY <3>2, <1>5, <1>6, <1>7 DEF InodesAreOfTheirFile, FilesTypeOK
    <3> QED BY <3>1, <3>2
  <2> QED BY <2>1, <2>2 DEF InodesAreOfTheirFile
<1>10. LastWriterFinishes'
  <2> SUFFICES ASSUME NEW q \in Pulls, pull'[q].step = "second"
               PROVE  \/ "first" \in data'[open'[q]]
                      \/ \E r \in Pulls : open'[r] = open'[q] /\ pull'[r].step # "second"
    BY DEF LastWriterFinishes
  <2>1. q # p /\ pull[q].step = "second" /\ open'[q] = open[q] /\ open[q] \in Inodes
    BY <1>6 DEF InodesAreOfTheirFile, FilesTypeOK
  <2>2. CASE open[q] = i
    BY <2>1, <2>2, <1>5, <1>6
  <2>3. CASE open[q] # i
    <3>1. data'[open[q]] = data[open[q]]
      BY <2>1, <2>3, <1>7
    <3>2. \A r \in Pulls : open[r] = open[q] => r # p
      BY <2>1, <1>6, ModelFilesAssumption
    <3> QED BY <2>1, <3>1, <3>2, <1>6 DEF LastWriterFinishes
  <2> QED BY <2>2, <2>3
<1>11. HalvesAreOpen'
  <2> SUFFICES ASSUME NEW q \in Pulls, pull'[q].step \in Writing \cup {"rename"},
                      temporary'[File(q)'] # NoFile, Torn(temporary[File(q)])'
               PROVE  \E r \in Pulls : open'[r] = temporary'[File(q)']
    BY DEF HalvesAreOpen
  <2>1. CASE File(q)' = f
    BY <2>1, <1>5
  <2>2. CASE File(q)' # f
    <3>1. q # p /\ File(q)' = File(q) /\ File(q) \in ModelFile
      BY <2>2, <1>6, FilesAreNamed
    <3>2. /\ temporary'[File(q)] = temporary[File(q)]
          /\ temporary[File(q)] \in Inodes \ {i}
      BY <3>1, <2>2, <1>4 DEF FilesTypeOK
    <3>3. Torn(temporary[File(q)])
      BY <3>1, <3>2, <1>7 DEF Torn
    <3>4. PICK r \in Pulls : open[r] = temporary[File(q)]
      BY <3>1, <3>2, <3>3, <1>6 DEF HalvesAreOpen
    <3>5. r # p
      BY <3>4, <3>1, <3>2, <1>6
    <3> QED BY <3>1, <3>2, <3>4, <3>5, <1>6
  <2> QED BY <2>1, <2>2
<1>12. OneAtATime'
  <2> SUFFICES ASSUME ~together', NEW q \in Pulls, Runs(q)'
               PROVE  /\ \A r \in Pulls : Runs(r)' => r = q
                      /\ pull'[q].step \in Writing => open'[q] = temporary'[File(q)']
                      /\ pull'[q].step \notin {"second", "rename"}
    BY DEF OneAtATime
  <2>1. \A r \in Pulls : Runs(r) => r = p
    BY <1>5, <1>6 DEF OneAtATime, Runs, Over
  <2>2. \A r \in Pulls : Runs(r)' => r = p
    BY <2>1, <1>6 DEF Runs
  <2> QED BY <2>2, <1>5, <1>6
<1>13. DownloadsAreWhole'
  <2> SUFFICES ASSUME NEW g \in ModelFile, name'[g] # NoFile,
                      data'[name'[g]] \notin {Pinned, Other}
               PROVE  together' /\ \E r \in Pulls : open'[r] = name'[g]
    BY DEF DownloadsAreWhole
  <2>1. name[g] \in Inodes \ {i} /\ data'[name[g]] = data[name[g]]
    BY <1>3, <1>5, <1>7 DEF FilesTypeOK
  <2>2. together /\ \E r \in Pulls : open[r] = name[g]
    BY <2>1, <1>5 DEF DownloadsAreWhole
  <2> QED BY <2>1, <2>2, <1>5, <1>6
<1> QED BY <1>8, <1>9, <1>10, <1>11, <1>12, <1>13

-----------------------------------------------------------------------------
\* A half written tears nothing, and the last that writes a file leaves it whole.
LEMMA WriteStep ==
    ASSUME FilesInv, NEW p \in Pulls, Write(p, "first", "second") \/ Write(p, "second", "rename")
    PROVE  FilesInv'
<1> USE DEF FilesInv, Writing
<1> DEFINE i == open[p]
<1>1. PICK half \in Halves :
          /\ Write(p, half, IF half = "first" THEN "second" ELSE "rename")
          /\ pull[p].step = half
  BY DEF Write, IsAt, Halves
<1> DEFINE next == IF half = "first" THEN "second" ELSE "rename"
<1>2. i \in Inodes /\ i # NoFile /\ i[1] = File(p) /\ data[i] \in SUBSET Halves
  BY <1>1 DEF InodesAreOfTheirFile, FilesTypeOK, Halves
<1>3. /\ name' = name /\ temporary' = temporary /\ together' = together
      /\ pull'[p].step = next /\ File(p)' = File(p)
      /\ open'[p] = IF half = "second" THEN NoFile ELSE i
      /\ \A q \in Pulls \ {p} : pull'[q] = pull[q] /\ open'[q] = open[q] /\ File(q)' = File(q)
  BY <1>1 DEF Write, To, FilesTypeOK, File
<1>4. /\ data'[i] = data[i] \cup {half} /\ data'[i] \in SUBSET Halves
      /\ data[i] = Pinned => data'[i] = Pinned
      /\ "first" \in data[i] /\ half = "second" => data'[i] = Pinned
      /\ data[i] # Other
  <2>1. data'[i] = (data[i] \ Other) \cup {half}
    BY <1>1, <1>2 DEF Write, FilesTypeOK
  <2> QED BY <2>1, <1>2, HalvesAddUp
<1>5. \A j \in Inodes \ {i} : data'[j] = data[j]
  BY <1>1 DEF Write, FilesTypeOK
<1>6. \A j \in Inodes : Torn(j)' => Torn(j)
  BY <1>4, <1>5 DEF Torn
<1>7. ASSUME NEW j \in Inodes, Torn(j)', \E q \in Pulls : open[q] = j
      PROVE  \E q \in Pulls : open'[q] = j
  <2>1. CASE i = j /\ half = "second"
    <3>1. "first" \notin data[i]
      BY <2>1, <1>4, <1>7 DEF Torn
    <3>2. PICK q \in Pulls : open[q] = i /\ pull[q].step # "second"
      BY <2>1, <3>1, <1>1 DEF LastWriterFinishes
    <3>3. q # p
      BY <2>1, <3>2, <1>1
    <3> QED BY <2>1, <3>2, <3>3, <1>3
  <2>2. CASE i = j /\ half # "second"
    BY <2>2, <1>3
  <2>3. CASE i # j
    BY <2>3, <1>7, <1>3
  <2> QED BY <2>1, <2>2, <2>3
<1>8. FilesTypeOK'
  <2>1. data' \in [Inodes -> FileContents]
    <3>1. data'[i] \in FileContents
      BY <1>4 DEF FileContents
    <3>2. data' = [data EXCEPT ![i] = data'[i]]
      BY <1>1, <1>2 DEF Write, FilesTypeOK
    <3> QED BY <3>1, <3>2, <1>2 DEF FilesTypeOK
  <2>2. pull' \in [Pulls -> [step : Over \cup {"check", "write", "first", "second", "rename"},
                             at : 1..3]]
    BY <1>1 DEF Write, To, FilesTypeOK
  <2>3. open' \in [Pulls -> Inodes \cup {NoFile}]
    BY <1>1 DEF Write, FilesTypeOK
  <2> QED BY <1>3, <2>1, <2>2, <2>3 DEF FilesTypeOK
<1>9. InodesAreOfTheirFile'
  <2>1. \A g \in ModelFile :
          /\ name'[g] # NoFile => name'[g][1] = g
          /\ temporary'[g] # NoFile => temporary'[g][1] = g /\ temporary'[g] # name'[g]
    BY <1>3 DEF InodesAreOfTheirFile
  <2>2. ASSUME NEW q \in Pulls
        PROVE  /\ pull'[q].step \in Writing => open'[q] # NoFile /\ open'[q][1] = File(q)'
               /\ pull'[q].step \notin Writing \cup {"failed", "stopped"} => open'[q] = NoFile
               /\ open'[q] # NoFile => data'[open'[q]] \in SUBSET Halves
    <3>1. CASE q = p
      BY <3>1, <1>2, <1>3, <1>4 DEF Halves
    <3>2. CASE q # p
      <4>1. open[q] # NoFile => data'[open[q]] \in SUBSET Halves
        BY <1>4, <1>5 DEF InodesAreOfTheirFile, FilesTypeOK
      <4> QED BY <3>2, <4>1, <1>3 DEF InodesAreOfTheirFile
    <3> QED BY <3>1, <3>2
  <2> QED BY <2>1, <2>2 DEF InodesAreOfTheirFile
<1>10. LastWriterFinishes'
  <2> SUFFICES ASSUME NEW q \in Pulls, pull'[q].step = "second",
                      ~ "first" \in data'[open'[q]]
               PROVE  \E r \in Pulls : open'[r] = open'[q] /\ pull'[r].step # "second"
    BY DEF LastWriterFinishes
  <2>1. q # p
    BY <1>3, <1>4
  <2>2. open'[q] = open[q] /\ open[q] \in Inodes /\ pull[q].step = "second"
    BY <2>1, <1>3 DEF InodesAreOfTheirFile, FilesTypeOK
  <2>3. "first" \notin data[open[q]]
    BY <2>2, <1>4, <1>5
  <2>4. PICK r \in Pulls : open[r] = open[q] /\ pull[r].step # "second"
    BY <2>2, <2>3 DEF LastWriterFinishes
  <2>5. r # p
    <3>1. r = p => half = "first" /\ open[q] = i
      BY <2>4, <1>1 DEF Halves
    <3> QED BY <3>1, <2>2, <1>4
  <2> QED BY <2>2, <2>4, <2>5, <1>3
<1>11. HalvesAreOpen'
  <2> SUFFICES ASSUME NEW q \in Pulls, pull'[q].step \in Writing \cup {"rename"},
                      temporary'[File(q)'] # NoFile, Torn(temporary[File(q)])'
               PROVE  \E r \in Pulls : open'[r] = temporary'[File(q)']
    BY DEF HalvesAreOpen
  <2>1. File(q)' = File(q) /\ pull[q].step \in Writing \cup {"rename"} /\ File(q) \in ModelFile
    BY <1>1, <1>3, FilesAreNamed DEF Halves
  <2>2. temporary[File(q)] \in Inodes
    BY <2>1, <1>3 DEF FilesTypeOK
  <2>3. Torn(temporary[File(q)]) /\ data'[temporary[File(q)]] \notin {Pinned, Other}
    BY <2>1, <2>2, <1>3, <1>6 DEF Torn
  <2>4. \E r \in Pulls : open[r] = temporary[File(q)]
    BY <2>1, <2>3, <1>3 DEF HalvesAreOpen
  <2> QED BY <2>1, <2>2, <2>3, <2>4, <1>3, <1>7 DEF Torn
<1>12. OneAtATime'
  <2> SUFFICES ASSUME ~together', NEW q \in Pulls, Runs(q)'
               PROVE  /\ \A r \in Pulls : Runs(r)' => r = q
                      /\ pull'[q].step \in Writing => open'[q] = temporary'[File(q)']
                      /\ pull'[q].step = "second" => "first" \in data'[open'[q]]
                      /\ pull'[q].step = "rename" /\ temporary'[File(q)'] # NoFile =>
                            data'[temporary'[File(q)']] = Pinned
    BY DEF OneAtATime
  <2>1. ~together /\ Runs(p)
    BY <1>1, <1>3 DEF Runs, Over, Halves
  <2>2. /\ \A r \in Pulls : Runs(r) => r = p
        /\ i = temporary[File(p)]
        /\ half = "second" => "first" \in data[i]
    BY <2>1, <1>1 DEF OneAtATime, Halves
  <2>3. \A r \in Pulls : Runs(r)' => r = p
    BY <2>2, <1>3 DEF Runs
  <2> QED BY <2>2, <2>3, <1>3, <1>4 DEF Halves
<1>13. DownloadsAreWhole'
  <2> SUFFICES ASSUME NEW g \in ModelFile, name'[g] # NoFile,
                      data'[name'[g]] \notin {Pinned, Other}
               PROVE  together' /\ \E r \in Pulls : open'[r] = name'[g]
    BY DEF DownloadsAreWhole
  <2>1. name[g] \in Inodes /\ Torn(name[g])
    BY <1>3, <1>6 DEF FilesTypeOK, Torn
  <2>2. together /\ \E r \in Pulls : open[r] = name[g]
    BY <2>1, <1>3 DEF DownloadsAreWhole, Torn
  <2> QED BY <2>1, <2>2, <1>3, <1>7 DEF Torn
<1> QED BY <1>8, <1>9, <1>10, <1>11, <1>12, <1>13

-----------------------------------------------------------------------------
\* What is renamed is whole, or open.
LEMMA RenameStep ==
    ASSUME FilesInv, NEW p \in Pulls, Rename(p)
    PROVE  FilesInv'
<1> USE DEF FilesInv, Writing
<1> DEFINE f == File(p)  j == temporary[f]
<1>1. f \in ModelFile /\ j \in Inodes /\ j # NoFile /\ j[1] = f
  BY FilesAreNamed DEF Rename, FilesTypeOK, InodesAreOfTheirFile
<1>2. /\ name' = [name EXCEPT ![f] = j] /\ temporary' = [temporary EXCEPT ![f] = NoFile]
      /\ data' = data /\ open' = open /\ together' = together
  BY DEF Rename
<1>3. name'[f] = j /\ temporary'[f] = NoFile
      /\ \A g \in ModelFile \ {f} : name'[g] = name[g] /\ temporary'[g] = temporary[g]
  BY <1>1, <1>2 DEF FilesTypeOK
<1>4. pull[p].step = "rename" /\ open[p] = NoFile
  BY DEF Rename, IsAt, InodesAreOfTheirFile
<1>5. /\ pull'[p].step \in {"done", "check"}
      /\ \A q \in Pulls \ {p} : pull'[q] = pull[q] /\ File(q)' = File(q)
  BY DEF Rename, Past, FilesTypeOK, File
<1>6. FilesTypeOK'
  <2>1. pull' \in [Pulls -> [step : Over \cup {"check", "write", "first", "second", "rename"},
                             at : 1..3]]
    BY DEF Rename, Past, FilesTypeOK, Over
  <2> QED BY <1>1, <1>2, <2>1 DEF FilesTypeOK
<1>7. InodesAreOfTheirFile'
  <2>1. ASSUME NEW g \in ModelFile
        PROVE  /\ name'[g] # NoFile => name'[g][1] = g
               /\ temporary'[g] # NoFile => temporary'[g][1] = g /\ temporary'[g] # name'[g]
    BY <1>1, <1>3 DEF InodesAreOfTheirFile
  <2>2. ASSUME NEW q \in Pulls
        PROVE  /\ pull'[q].step \in Writing => open'[q] # NoFile /\ open'[q][1] = File(q)'
               /\ pull'[q].step \notin Writing \cup {"failed", "stopped"} => open'[q] = NoFile
               /\ open'[q] # NoFile => data'[open'[q]] \in SUBSET Halves
    BY <1>2, <1>4, <1>5 DEF InodesAreOfTheirFile
  <2> QED BY <2>1, <2>2 DEF InodesAreOfTheirFile
<1>8. LastWriterFinishes'
  <2>1. \A q \in Pulls : pull'[q].step = "second" <=> pull[q].step = "second"
    BY <1>4, <1>5
  <2> QED BY <2>1, <1>2 DEF LastWriterFinishes
<1>9. HalvesAreOpen'
  <2> SUFFICES ASSUME NEW q \in Pulls, pull'[q].step \in Writing \cup {"rename"},
                      temporary'[File(q)'] # NoFile, Torn(temporary[File(q)])'
               PROVE  \E r \in Pulls : open'[r] = temporary'[File(q)']
    BY DEF HalvesAreOpen
  <2>1. pull[q] = pull'[q] /\ File(q)' = File(q) /\ File(q) \in ModelFile
    BY <1>5, FilesAreNamed
  <2>2. temporary'[File(q)] = temporary[File(q)]
    BY <2>1, <1>3
  <2> QED BY <2>1, <2>2, <1>2 DEF HalvesAreOpen, Torn
<1>10. OneAtATime'
  <2> SUFFICES ASSUME ~together', NEW q \in Pulls, Runs(q)'
               PROVE  q = p
    BY <1>5 DEF OneAtATime
  <2> QED BY <1>2, <1>4, <1>5 DEF OneAtATime, Runs, Over
<1>11. DownloadsAreWhole'
  <2> SUFFICES ASSUME NEW g \in ModelFile, name'[g] # NoFile,
                      data'[name'[g]] \notin {Pinned, Other}
               PROVE  together' /\ \E r \in Pulls : open'[r] = name'[g]
    BY DEF DownloadsAreWhole
  <2>1. CASE g = f
    <3>1. Torn(j)
      BY <2>1, <1>2, <1>3 DEF Torn
    <3>2. together
      BY <3>1, <1>1, <1>4 DEF OneAtATime, Torn, Runs, Over
    <3>3. \E r \in Pulls : open[r] = j
      BY <3>1, <1>1, <1>4 DEF HalvesAreOpen
    <3> QED BY <2>1, <3>2, <3>3, <1>2, <1>3
  <2>2. CASE g # f
    BY <2>2, <1>2, <1>3 DEF DownloadsAreWhole
  <2> QED BY <2>1, <2>2
<1> QED BY <1>6, <1>7, <1>8, <1>9, <1>10, <1>11

-----------------------------------------------------------------------------
\* The invariant holds in every state that pulls can bring about.
THEOREM FilesInvariance == FilesSpec => []FilesInv
<1>1. FilesInit => FilesInv
  BY FilesInitOk
<1>2. FilesInv /\ [FilesNext]_filesVars => FilesInv'
  <2> SUFFICES ASSUME FilesInv, [FilesNext]_filesVars PROVE FilesInv'
    OBVIOUS
  <2>1. CASE UNCHANGED filesVars
    BY <2>1 DEF filesVars, FilesInv, FilesTypeOK, InodesAreOfTheirFile, LastWriterFinishes,
                HalvesAreOpen, OneAtATime, DownloadsAreWhole, Torn, Runs, File
  <2>2. CASE FilesNext
    BY <2>2, MoveSteps, CreateStep, WriteStep, RenameStep DEF FilesNext
  <2> QED BY <2>1, <2>2
<1> QED BY <1>1, <1>2, PTL DEF FilesSpec

\* The folder of models is as its type says, for any number of pulls.
THEOREM FilesSpecOk == FilesSpec => []FilesTypeOK
BY FilesInvariance, PTL DEF FilesInv

\* A file under its real name that is not whole was written by pulls that ran together, and
\* one of them has it open or had it when it ended (fetch of bin/raglite/models.rs).
THEOREM OnlyConcurrentPullsTear == FilesSpec => []DownloadsAreWhole
BY FilesInvariance, PTL DEF FilesInv

-----------------------------------------------------------------------------
(* What a pull leaves behind. *)

\* A pull has seen to its k-th file.
Passed(p, k) == k < pull[p].at \/ IsAt(p, "done")

\* What a pull has seen to is there and is of no other version, and neither is anything
\* that waits for its rename.
PassedAreHere ==
    /\ \A f \in ModelFile : temporary[f] # NoFile => data[temporary[f]] # Other
    /\ \A p \in Pulls, k \in 1..3 : Passed(p, k) =>
          /\ name[FilesInOrder[k]] # NoFile
          /\ data[name[FilesInOrder[k]]] # Other

LEMMA OrderIsOfFiles == \A k \in 1..3 : FilesInOrder[k] \in ModelFile
BY DEF ModelFile

LEMMA PassedInitOk == FilesInit => PassedAreHere
<1> SUFFICES ASSUME FilesInit PROVE PassedAreHere
  OBVIOUS
<1>1. \A f \in ModelFile : temporary[f] # NoFile => data[temporary[f]] # Other
  <2>1. PICK holds \in [ModelFile -> {NoFile, Pinned, Other}], left \in SUBSET ModelFile :
          /\ temporary = [f \in ModelFile |-> IF f \in left THEN <<f, 1>> ELSE NoFile]
          /\ data = [i \in Inodes |->
                       IF i[2] = 0 /\ holds[i[1]] # NoFile THEN holds[i[1]]
                       ELSE IF i[2] = 1 /\ i[1] \in left THEN {"first"} ELSE {}]
    BY DEF FilesInit
  <2>2. \A f \in ModelFile : <<f, 1>> \in Inodes
    BY ModelFilesAssumption DEF Inodes
  <2>3. ASSUME NEW f \in left
        PROVE  data[<<f, 1>>] = {"first"}
    <3> DEFINE i == <<f, 1>>
    <3>1. i \in Inodes /\ i[1] = f /\ i[2] = 1
      BY <2>2
    <3> HIDE DEF i
    <3> QED BY <2>1, <3>1 DEF i
  <2>4. {"first"} # Other
    BY DEF Other
  <2> SUFFICES ASSUME NEW f \in ModelFile, temporary[f] # NoFile PROVE data[temporary[f]] # Other
    OBVIOUS
  <2>5. f \in left /\ temporary[f] = <<f, 1>>
    BY <2>1
  <2> QED BY <2>3, <2>4, <2>5
<1>2. \A p \in Pulls, k \in 1..3 : ~Passed(p, k)
  BY DEF FilesInit, Passed, IsAt
<1> QED BY <1>1, <1>2 DEF PassedAreHere

\* A step that passes no file keeps what it says of files when it puts no other version
\* anywhere and takes no name away.
LEMMA PassedKeeps ==
    ASSUME FilesInv, PassedAreHere,
           \A q \in Pulls, k \in 1..3 : Passed(q, k)' => Passed(q, k),
           name' = name,
           \A i \in Inodes : data'[i] # data[i] => data'[i] # Other,
           \A f \in ModelFile : temporary'[f] # NoFile =>
              temporary'[f] = temporary[f] \/ data'[temporary'[f]] # Other
    PROVE  PassedAreHere'
<1>1. ASSUME NEW f \in ModelFile, temporary'[f] # NoFile
      PROVE  data'[temporary'[f]] # Other
  <2>1. CASE temporary'[f] = temporary[f]
    <3>1. temporary[f] \in Inodes /\ data[temporary[f]] # Other
      BY <1>1, <2>1 DEF PassedAreHere, FilesInv, FilesTypeOK
    <3> QED BY <2>1, <3>1
  <2> QED BY <1>1, <2>1
<1>2. ASSUME NEW q \in Pulls, NEW k \in 1..3, Passed(q, k)'
      PROVE  /\ name'[FilesInOrder[k]] # NoFile
             /\ data'[name'[FilesInOrder[k]]] # Other
  <2>1. Passed(q, k) /\ FilesInOrder[k] \in ModelFile
    BY <1>2, OrderIsOfFiles
  <2>2. /\ name[FilesInOrder[k]] \in Inodes
        /\ data[name[FilesInOrder[k]]] # Other
    BY <2>1 DEF PassedAreHere, FilesInv, FilesTypeOK
  <2>3. name[FilesInOrder[k]] # NoFile
    BY <2>1 DEF PassedAreHere
  <2> QED BY <2>2, <2>3
<1> QED BY <1>1, <1>2 DEF PassedAreHere

\* A pull passes a file by finding it right, or by giving it a name.
LEMMA PassedGrows ==
    ASSUME FilesInv, NEW p \in Pulls, Past(p), pull[p].step # "done"
    PROVE  \A q \in Pulls, k \in 1..3 :
              Passed(q, k)' => Passed(q, k) \/ FilesInOrder[k] = File(p)
<1> SUFFICES ASSUME NEW q \in Pulls, NEW k \in 1..3, Passed(q, k)'
             PROVE  Passed(q, k) \/ FilesInOrder[k] = File(p)
  OBVIOUS
<1>1. CASE q # p
  BY <1>1 DEF Past, Passed, IsAt, FilesInv, FilesTypeOK
<1>2. CASE q = p
  <2>1. pull[p].at \in 1..3
    BY DEF FilesInv, FilesTypeOK
  <2>2. pull'[p] = IF pull[p].at = 3 THEN [step |-> "done", at |-> 3]
                   ELSE [step |-> "check", at |-> pull[p].at + 1]
    BY DEF Past, FilesInv, FilesTypeOK
  <2>3. k < pull[p].at \/ k = pull[p].at
    BY <1>2, <2>1, <2>2 DEF Passed, IsAt
  <2> QED BY <1>2, <2>3 DEF Passed, File
<1> QED BY <1>1, <1>2

LEMMA PassedStep ==
    ASSUME FilesInv, FilesInv', PassedAreHere, NEW p \in Pulls,
           \/ Start(p) \/ Keep(p) \/ Download(p) \/ Create(p)
           \/ Write(p, "first", "second") \/ Write(p, "second", "rename")
           \/ Rename(p) \/ WriteFails(p) \/ Stops(p)
    PROVE  PassedAreHere'
<1>0. pull \in [Pulls -> [step : Over \cup {"check", "write", "first", "second", "rename"},
                          at : 1..3]]
  BY DEF FilesInv, FilesTypeOK
<1>1. ASSUME NEW next, next # "done", To(p, next)
      PROVE  \A q \in Pulls, k \in 1..3 : Passed(q, k)' => Passed(q, k)
  BY <1>0, <1>1 DEF To, Passed, IsAt
<1>2. CASE Start(p) \/ Download(p) \/ WriteFails(p) \/ Stops(p)
  <2>1. /\ \A q \in Pulls, k \in 1..3 : Passed(q, k)' => Passed(q, k)
        /\ UNCHANGED <<name, temporary, data>>
    BY <1>1, <1>2 DEF Start, Download, WriteFails, Stops
  <2> QED BY <2>1, PassedKeeps
<1>3. CASE Create(p)
  <2>1. \A q \in Pulls, k \in 1..3 : Passed(q, k)' => Passed(q, k)
    BY <1>1, <1>3 DEF Create
  <2>2. PICK i : /\ temporary' = [temporary EXCEPT ![File(p)] = i]
                 /\ data' = [data EXCEPT ![i] = {}]
                 /\ name' = name
    BY <1>3 DEF Create
  <2>3. /\ \A j \in Inodes : data'[j] # data[j] => data'[j] # Other
        /\ i \in Inodes => data'[i] # Other
    BY <2>2 DEF Other, FilesInv, FilesTypeOK
  <2>4. ASSUME NEW f \in ModelFile, temporary'[f] # NoFile, temporary'[f] # temporary[f]
        PROVE  data'[temporary'[f]] # Other
    <3>1. temporary'[f] = i /\ temporary'[f] \in Inodes
      BY <2>2, <2>4 DEF FilesInv, FilesTypeOK
    <3> QED BY <2>3, <3>1
  <2> QED BY <2>1, <2>2, <2>3, <2>4, PassedKeeps
<1>4. CASE Write(p, "first", "second") \/ Write(p, "second", "rename")
  <2>1. \A q \in Pulls, k \in 1..3 : Passed(q, k)' => Passed(q, k)
    BY <1>1, <1>4 DEF Write
  <2>2. PICK half \in Halves : data' = [data EXCEPT ![open[p]] = (@ \ Other) \cup {half}]
    BY <1>4 DEF Write, Halves
  <2>3. \A j \in Inodes : data'[j] # data[j] => data'[j] # Other
    BY <2>2 DEF Halves, Other, FilesInv, FilesTypeOK
  <2>4. UNCHANGED <<name, temporary>>
    BY <1>4 DEF Write
  <2> QED BY <2>1, <2>3, <2>4, PassedKeeps
<1>5. CASE Keep(p)
  <2>1. UNCHANGED <<name, temporary, data>> /\ Past(p) /\ pull[p].step # "done"
    BY <1>5 DEF Keep, IsAt
  <2>2. name[File(p)] # NoFile /\ data[name[File(p)]] # Other
    BY <1>5 DEF Keep, Matches, Pinned, Halves, Other
  <2>3. \A q \in Pulls, k \in 1..3 :
          Passed(q, k)' => Passed(q, k) \/ FilesInOrder[k] = File(p)
    BY <2>1, PassedGrows
  <2> QED BY <2>1, <2>2, <2>3 DEF PassedAreHere
<1>6. CASE Rename(p)
  <2>1. Past(p) /\ pull[p].step # "done" /\ data' = data /\ temporary[File(p)] # NoFile
    BY <1>6 DEF Rename, IsAt
  <2>2. File(p) \in ModelFile
    BY FilesAreNamed DEF FilesInv
  <2>3. /\ name'[File(p)] = temporary[File(p)] /\ temporary'[File(p)] = NoFile
        /\ \A g \in ModelFile \ {File(p)} :
              name'[g] = name[g] /\ temporary'[g] = temporary[g]
    BY <1>6, <2>2 DEF Rename, FilesInv, FilesTypeOK
  <2>4. data[temporary[File(p)]] # Other
    BY <2>1, <2>2 DEF PassedAreHere
  <2>5. \A f \in ModelFile : temporary'[f] # NoFile => data'[temporary'[f]] # Other
    BY <2>1, <2>3 DEF PassedAreHere
  <2>6. ASSUME NEW q \in Pulls, NEW k \in 1..3, Passed(q, k)'
        PROVE  /\ name'[FilesInOrder[k]] # NoFile
               /\ data'[name'[FilesInOrder[k]]] # Other
    <3>1. CASE FilesInOrder[k] = File(p)
      BY <2>1, <2>3, <2>4, <3>1
    <3>2. CASE FilesInOrder[k] # File(p)
      <4>1. Passed(q, k)
        BY <2>1, <2>6, <3>2, PassedGrows
      <4>2. name'[FilesInOrder[k]] = name[FilesInOrder[k]]
        BY <2>3, <3>2, OrderIsOfFiles
      <4> QED BY <2>1, <4>1, <4>2 DEF PassedAreHere
    <3> QED BY <3>1, <3>2
  <2> QED BY <2>5, <2>6 DEF PassedAreHere
<1> QED BY <1>2, <1>3, <1>4, <1>5, <1>6

\* What a pull has seen to stays there, whatever other pulls do.
THEOREM PassedStays == FilesSpec => []PassedAreHere
<1>1. FilesInv /\ FilesInv' /\ PassedAreHere /\ [FilesNext]_filesVars => PassedAreHere'
  <2> SUFFICES ASSUME FilesInv, FilesInv', PassedAreHere, [FilesNext]_filesVars
               PROVE  PassedAreHere'
    OBVIOUS
  <2>1. CASE UNCHANGED filesVars
    BY <2>1 DEF filesVars, PassedAreHere, Passed, IsAt
  <2>2. CASE FilesNext
    BY <2>2, PassedStep DEF FilesNext
  <2> QED BY <2>1, <2>2
<1> QED BY <1>1, PassedInitOk, FilesInvariance, PTL DEF FilesSpec

\* After a pull that reported no error an open that looks in its folder gets the pinned
\* model, vocabulary and reranker, unless another pull was cut off in one of them.
\* (models.rs pull, fetch; raglite.rs find_model, find_reranker; embedding.rs load_model)
THEOREM PullsServeOpens == FilesSpec => []PulledModelsOpen
<1>1. FilesInv /\ PassedAreHere => PulledModelsOpen
  <2> SUFFICES ASSUME FilesInv, PassedAreHere, NEW p \in Pulls, IsAt(p, "done"),
                      \A q \in Pulls, f \in ModelFile : open[q] # name[f],
                      NEW places \in Places
               PROVE  /\ LooksThere(places.model, places) =>
                            model_at_open(places) = [file |-> Pinned, vocab |-> Pinned]
                      /\ LooksThere(places.reranker, places) =>
                            reranker_at_open(places) = [file |-> Pinned, vocab |-> Pinned]
    BY DEF PulledModelsOpen
  <2>1. ASSUME NEW k \in 1..3
        PROVE  /\ name[FilesInOrder[k]] # NoFile
               /\ data[name[FilesInOrder[k]]] = Pinned
    <3>1. name[FilesInOrder[k]] # NoFile /\ data[name[FilesInOrder[k]]] # Other
      BY DEF PassedAreHere, Passed
    <3>2. data[name[FilesInOrder[k]]] \in {Pinned, Other}
      BY <3>1, OrderIsOfFiles DEF FilesInv, DownloadsAreWhole
    <3> QED BY <3>1, <3>2
  <2>2. /\ name["model"] # NoFile /\ data[name["model"]] = Pinned
        /\ name["vocab"] # NoFile /\ data[name["vocab"]] = Pinned
        /\ name["reranker"] # NoFile /\ data[name["reranker"]] = Pinned
    <3>1. /\ FilesInOrder[1] = "model" /\ FilesInOrder[2] = "vocab"
          /\ FilesInOrder[3] = "reranker"
      BY DEF FilesInOrder
    <3>2. 1 \in 1..3 /\ 2 \in 1..3 /\ 3 \in 1..3
      OBVIOUS
    <3> QED BY <2>1, <3>1, <3>2
  <2>3. ASSUME LooksThere(places.model, places)
        PROVE  model_at_open(places) = [file |-> Pinned, vocab |-> Pinned]
    <3>1. find_model(places) = "pulled"
      BY <2>2, <2>3 DEF find_model, find, LooksThere
    <3> QED BY <2>2, <3>1 DEF model_at_open, load_model
  <2>4. ASSUME LooksThere(places.reranker, places)
        PROVE  reranker_at_open(places) = [file |-> Pinned, vocab |-> Pinned]
    <3>1. find_reranker(places) = "pulled"
      BY <2>2, <2>4 DEF find_reranker, find, LooksThere
    <3> QED BY <2>2, <3>1 DEF reranker_at_open, load_model
  <2> QED BY <2>3, <2>4
<1> QED BY <1>1, FilesInvariance, PassedStays, PTL
=============================================================================
