----------------------------- MODULE PythonBinding -----------------------------
(***************************************************************************)
(* The Python interface (tpt-rag-py/src/lib.rs): one RAGLite object that   *)
(* any number of Python threads call.  Two locks are in play, the          *)
(* interpreter's and the mutex around the engine.  A heavy call lets the   *)
(* interpreter go before it waits for the mutex; stats and check keep it.  *)
(*                                                                         *)
(* Abstractions.  The database is the set of sources that it holds.  The   *)
(* engine answers as it may: with success, an error or a panic (its own    *)
(* modules say which of them when); a call that adds may have stored its   *)
(* chunks when it fails.                                                   *)
(***************************************************************************)
EXTENDS Naturals, FiniteSets

CONSTANTS
    PyThreads,    \* Python threads
    PySources,    \* what can be added
    MaxPyCalls,   \* bound: calls, of all threads
    Nobody        \* no thread, no call

ASSUME PythonBindingAssumption == MaxPyCalls \in Nat /\ Nobody \notin PyThreads

VARIABLES
    interpreter,  \* the thread that has the interpreter's lock, or Nobody
    inner,        \* the thread that has the mutex, or Nobody
    poisoned,     \* whether the mutex is poisoned
    docs,         \* the sources in the database
    at,           \* at[t]: where the thread is
    does,         \* does[t]: the call that the thread is in, or Nobody
    sources,      \* sources[t]: what the call has still to add, or is to delete
    answer,       \* answer[t]: how the thread's last call ended, and what it saw
    whole,        \* what has been in the database when no call was in the engine
    pyCalls       \* the calls begun

pyVars == <<interpreter, inner, poisoned, docs, at, does, sources, answer, whole, pyCalls>>

\* Calls that let the interpreter go: add_files, add_text and the other calls that add; the
\* queries; delete_document; flush, which __exit__ calls, and rebuild_index.
Heavy == {"add_files", "query", "delete_document", "flush"}
Light == {"stats", "check"}

\* out: in Python code, with the interpreter or waiting for it.  lock: waits for the mutex.
\* engine: has the mutex.  back: is done, and waits for the interpreter.
Stages == {"out", "lock", "engine", "back"}

PyInit ==
    /\ interpreter = Nobody /\ inner = Nobody /\ poisoned = FALSE
    /\ docs = {}
    /\ at = [t \in PyThreads |-> "out"]
    /\ does = [t \in PyThreads |-> Nobody]
    /\ sources = [t \in PyThreads |-> {}]
    /\ answer = [t \in PyThreads |-> [end |-> "none", saw |-> {}]]
    /\ whole = {{}}
    /\ pyCalls = 0

Goes(t, place) == at' = [at EXCEPT ![t] = place]
Ends(t, end, saw) == answer' = [answer EXCEPT ![t] = [end |-> end, saw |-> saw]]

\* The interpreter goes from thread to thread between their calls and instructions.
TakeInterpreter(t) ==
    /\ interpreter = Nobody /\ at[t] = "out"
    /\ pyCalls < MaxPyCalls
    /\ interpreter' = t
    /\ UNCHANGED <<inner, poisoned, docs, at, does, sources, answer, whole, pyCalls>>

LetInterpreterGo(t) ==
    /\ interpreter = t /\ at[t] = "out"
    /\ interpreter' = Nobody
    /\ UNCHANGED <<inner, poisoned, docs, at, does, sources, answer, whole, pyCalls>>

\* A heavy call lets the interpreter go (detach); a light one keeps it.
BeginPy(t, op, given) ==
    /\ interpreter = t /\ at[t] = "out" /\ pyCalls < MaxPyCalls
    /\ op \in Heavy \cup Light
    /\ given # {} <=> op \in {"add_files", "delete_document"}
    /\ interpreter' = IF op \in Heavy THEN Nobody ELSE t
    /\ Goes(t, "lock")
    /\ does' = [does EXCEPT ![t] = op]
    /\ sources' = [sources EXCEPT ![t] = given]
    /\ pyCalls' = pyCalls + 1
    /\ UNCHANGED <<inner, poisoned, docs, answer, whole>>

\* lock and lock_py.  A mutex that is poisoned is given back with an error.
Lock(t) ==
    /\ at[t] = "lock" /\ inner = Nobody
    /\ IF poisoned
       THEN /\ Ends(t, IF does[t] \in Light THEN "RuntimeError" ELSE "RAGLiteError", {})
            /\ Goes(t, "back")
            /\ UNCHANGED inner
       ELSE /\ inner' = t
            /\ Goes(t, "engine")
            /\ UNCHANGED answer
    /\ UNCHANGED <<interpreter, poisoned, docs, does, sources, whole, pyCalls>>

\* Mutant: the mutex is taken for each file.
AddOneAndUnlock(t) ==
    /\ at[t] = "engine" /\ does[t] = "add_files"
    /\ \E d \in sources[t] :
          /\ docs' = docs \cup {d}
          /\ sources' = [sources EXCEPT ![t] = @ \ {d}]
          /\ IF sources[t] = {d} THEN UNCHANGED <<inner, at>>
             ELSE inner' = Nobody /\ Goes(t, "lock")
    /\ UNCHANGED <<interpreter, poisoned, does, answer, whole, pyCalls>>

\* One document of add_files, or the text of add_text.  The call goes on to the next one,
\* or ends in an error, as it may after the chunks were stored.
AddOne(t) ==
    /\ at[t] = "engine" /\ does[t] = "add_files"
    /\ \E d \in sources[t] :
          /\ docs' = docs \cup {d}
          /\ sources' = [sources EXCEPT ![t] = @ \ {d}]
    /\ UNCHANGED <<interpreter, inner, poisoned, at, does, answer, whole, pyCalls>>

\* Mutant: the guard is kept until the thread has the interpreter.
KeepGuard(t, end, saw, rest) ==
    /\ Ends(t, end, saw)
    /\ docs' = rest
    /\ whole' = whole \cup {rest}
    /\ Goes(t, "back")
    /\ sources' = [sources EXCEPT ![t] = {}]
    /\ UNCHANGED <<inner, interpreter, does, pyCalls>>

\* The closure ends and with it the guard: the mutex is free before the thread waits for
\* the interpreter.
Unlock(t, end, saw, rest) ==
    /\ Ends(t, end, saw)
    /\ docs' = rest
    /\ whole' = whole \cup {rest}
    /\ inner' = Nobody
    /\ Goes(t, "back")
    /\ sources' = [sources EXCEPT ![t] = {}]
    /\ UNCHANGED <<interpreter, does, pyCalls>>

EndWell(t) ==
    /\ at[t] = "engine"
    /\ does[t] = "add_files" => sources[t] = {}
    /\ Unlock(t, "done", IF does[t] \in {"add_files", "flush"} THEN {} ELSE docs,
              IF does[t] = "delete_document" THEN docs \ sources[t] ELSE docs)
    /\ UNCHANGED poisoned

\* An error of any class (to_py_err).
EndInError(t) ==
    /\ at[t] = "engine"
    /\ Unlock(t, "error", {}, docs)
    /\ UNCHANGED poisoned

\* The guard is dropped by the unwinding, and poisons the mutex.
EndInPanic(t) ==
    /\ at[t] = "engine"
    /\ Unlock(t, "PanicException", {}, docs)
    /\ poisoned' = TRUE

\* A heavy call waits for the interpreter, a light one has it.
Return(t) ==
    /\ at[t] = "back" /\ interpreter \in {Nobody, t}
    /\ interpreter' = t
    /\ Goes(t, "out")
    /\ does' = [does EXCEPT ![t] = Nobody]
    /\ UNCHANGED <<inner, poisoned, docs, sources, answer, whole, pyCalls>>

PyNext == \E t \in PyThreads :
    \/ TakeInterpreter(t) \/ LetInterpreterGo(t)
    \/ (\E op \in Heavy \cup Light, given \in SUBSET PySources : BeginPy(t, op, given))
    \/ Lock(t) \/ AddOne(t) \/ EndWell(t)
    \/ EndInError(t) \/ EndInPanic(t) \/ Return(t)

PySpec == PyInit /\ [][PyNext]_pyVars

-----------------------------------------------------------------------------
(* Properties. *)

PyTypeOK ==
    /\ interpreter \in PyThreads \cup {Nobody} /\ inner \in PyThreads \cup {Nobody}
    /\ poisoned \in BOOLEAN /\ docs \subseteq PySources
    /\ at \in [PyThreads -> Stages]
    /\ does \in [PyThreads -> Heavy \cup Light \cup {Nobody}]
    /\ sources \in [PyThreads -> SUBSET PySources]
    /\ DOMAIN answer = PyThreads /\ whole \subseteq SUBSET PySources /\ pyCalls \in Nat

Waits(t, u) ==
    \/ at[t] = "lock" /\ inner = u
    \/ at[t] = "back" /\ interpreter = u /\ u # t

\* No thread waits for a thread that waits for it, or for itself: the mutex is never held by
\* a thread that wants the interpreter, so that the calls that keep the interpreter while
\* they wait for the mutex (stats, check) get it in the end (detach, lock, lock_py).
NobodyWaitsInACircle == \A t, u \in PyThreads : ~(Waits(t, u) /\ Waits(u, t))

\* "Calls run one at a time" (README.md:335): a query sees the database as it was when no
\* call was in it, and never some of the files of an add_files call that goes on.
QueriesSeeWholeCalls ==
    \A t \in PyThreads : answer[t].end = "done" /\ answer[t].saw # {} => answer[t].saw \in whole

\* "The lock is released during the engine's work, so other Python threads keep running"
\* (README.md:423): while a call of one thread is in the engine no other thread waits for
\* the mutex with the interpreter's lock.
OtherThreadsKeepRunning ==
    \A t, u \in PyThreads :
        at[t] = "engine" /\ does[t] \in Heavy => ~(interpreter = u /\ at[u] = "lock")
=============================================================================
