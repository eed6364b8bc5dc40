----------------------------- MODULE RefineBatch -----------------------------
(***************************************************************************)
(* The parallel refinement at the end of main of src/src/main.rs: the      *)
(* functions are refined in chunks of scoped threads, one thread per       *)
(* function; the handles of a chunk are joined in order before the next    *)
(* chunk is spawned, and the texts are printed in the order of the         *)
(* functions.  A thread calls refine_pseudo_code of src/src/llm_refine.rs, *)
(* which asks a remote service.                                            *)
(***************************************************************************)
EXTENDS Integers, Sequences, FiniteSets

CONSTANTS
    N,              \* pending_refinements.len()
    Parallelism     \* available_parallelism(), clamped to 1..4

ASSUME BatchAssumption == N \in Nat /\ Parallelism \in 1..4

Fns == 1..N

VARIABLES
    stage,          \* "check", "raw", "chunk", "join", "done"
    chunk,          \* functions spawned in chunks so far; the next is chunk + 1
    worker,         \* per function "none", "running", "refined", "kept", "dead"
    joined,         \* functions whose handles have been joined
    results,        \* results_by_index: per function "none", "raw", "refined"
    output          \* all_output

refineVars == <<stage, chunk, worker, joined, results, output>>

RInit ==
    /\ stage = "check"
    /\ chunk = 0
    /\ worker = [i \in Fns |-> "none"]
    /\ joined = 0
    /\ results = [i \in Fns |-> "none"]
    /\ output = <<>>

MaxWorkers == IF Parallelism <= N THEN Parallelism ELSE N

ChunkEnd == IF chunk + MaxWorkers <= N THEN chunk + MaxWorkers ELSE N

\* Faulty variant: a missing result is taken for a refined one.
BugTexts == [i \in Fns |-> [fn |-> i, kind |-> IF results[i] = "raw" THEN "raw" ELSE "refined"]]

\* unwrap_or_else: a function without a result is printed as it was.
Texts == [i \in Fns |-> [fn |-> i, kind |-> IF results[i] = "refined" THEN "refined" ELSE "raw"]]

-----------------------------------------------------------------------------
\* is_llm_available: without an API key the pseudo-code is printed as it is.
Unavailable ==
    /\ stage = "check"
    /\ stage' = "raw"
    /\ UNCHANGED <<chunk, worker, joined, results, output>>

Available ==
    /\ stage = "check"
    /\ stage' = "chunk"
    /\ UNCHANGED <<chunk, worker, joined, results, output>>

\* Spawn a thread for each function of the next chunk.
SpawnChunk ==
    /\ stage = "chunk"
    /\ chunk < N
    /\ worker' = [i \in Fns |-> IF i \in (chunk + 1)..ChunkEnd THEN "running" ELSE worker[i]]
    /\ chunk' = ChunkEnd
    /\ stage' = "join"
    /\ UNCHANGED <<joined, results, output>>

\* A thread ends: with the service's text, with the pseudo-code after an
\* error (no answer in time, a bad status, no code block) or a caught panic,
\* or by a panic outside catch_unwind.
Answer(i) ==
    /\ worker[i] = "running"
    /\ worker' = [worker EXCEPT ![i] = "refined"]
    /\ UNCHANGED <<stage, chunk, joined, results, output>>

Fail(i) ==
    /\ worker[i] = "running"
    /\ worker' = [worker EXCEPT ![i] = "kept"]
    /\ UNCHANGED <<stage, chunk, joined, results, output>>

Die(i) ==
    /\ worker[i] = "running"
    /\ worker' = [worker EXCEPT ![i] = "dead"]
    /\ UNCHANGED <<stage, chunk, joined, results, output>>

\* Faulty variant: a thread that died is waited for.
BugJoin ==
    /\ stage = "join"
    /\ joined < chunk
    /\ worker[joined + 1] \in {"refined", "kept"}
    /\ joined' = joined + 1
    /\ results' = [results EXCEPT ![joined + 1] =
                      IF worker[joined + 1] = "refined" THEN "refined" ELSE "raw"]
    /\ UNCHANGED <<stage, chunk, worker, output>>

\* The next handle in order is joined; a dead thread leaves no result.
Join ==
    /\ stage = "join"
    /\ joined < chunk
    /\ worker[joined + 1] # "running"
    /\ joined' = joined + 1
    /\ results' = [results EXCEPT ![joined + 1] =
                      CASE worker[joined + 1] = "refined" -> "refined"
                        [] worker[joined + 1] = "kept" -> "raw"
                        [] OTHER -> "none"]
    /\ UNCHANGED <<stage, chunk, worker, output>>

\* Faulty variant: the next chunk does not wait for the handles of this one.
BugChunkDone ==
    /\ stage = "join"
    /\ stage' = "chunk"
    /\ UNCHANGED <<chunk, worker, joined, results, output>>

ChunkDone ==
    /\ stage = "join"
    /\ joined = chunk
    /\ stage' = "chunk"
    /\ UNCHANGED <<chunk, worker, joined, results, output>>

PrintAll ==
    /\ \/ stage = "chunk" /\ chunk = N
       \/ stage = "raw"
    /\ output' = Texts
    /\ stage' = "done"
    /\ UNCHANGED <<chunk, worker, joined, results>>

Main == Unavailable \/ Available \/ SpawnChunk \/ Join \/ ChunkDone \/ PrintAll

Thread(i) == Answer(i) \/ Fail(i) \/ Die(i)

RNext == Main \/ \E i \in Fns : Thread(i)

\* The main thread runs, and every thread ends: the request has a timeout.
RSpec ==
    /\ RInit
    /\ [][RNext]_refineVars
    /\ WF_refineVars(Main)
    /\ \A i \in Fns : WF_refineVars(Thread(i))

-----------------------------------------------------------------------------
(* Properties *)

\* Every variable has the shape its Rust counterpart has.
RTypeOK ==
    /\ stage \in {"check", "raw", "chunk", "join", "done"}
    /\ chunk \in 0..N
    /\ worker \in [Fns -> {"none", "running", "refined", "kept", "dead"}]
    /\ joined \in 0..N
    /\ results \in [Fns -> {"none", "raw", "refined"}]
    /\ output \in Seq([fn : Fns, kind : {"raw", "refined"}])

\* No more requests are under way than the machine's parallelism allows, the
\* next chunk included.
BoundedRequests ==
    Cardinality({i \in Fns : worker[i] = "running"}) <= Parallelism

\* The text a function ends up with is decided when its thread ends.
TextOf(i) ==
    CASE stage \in {"raw", "done"} /\ worker[i] = "none" -> "raw"
      [] worker[i] = "refined" -> "refined"
      [] worker[i] \in {"kept", "dead"} -> "raw"
      [] OTHER -> "open"

Batch == INSTANCE OrderedBatch WITH text <- [i \in Fns |-> TextOf(i)], printed <- output

\* The threads, chunks and joins implement the promise of OrderedBatch: one
\* text per function, the service's exactly if it answered, printed once and
\* in order.
ImplementsBatch == Batch!BatchSpec

\* Once it is settled whether the service is asked, the output is printed in
\* the end, whatever becomes of the threads.
Printed == stage \in {"chunk", "raw"} ~> stage = "done"

=============================================================================
