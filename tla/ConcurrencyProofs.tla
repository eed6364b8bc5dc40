-------------------------- MODULE ConcurrencyProofs --------------------------
(***************************************************************************)
(* Proofs about the two parts of the program that run concurrently: the    *)
(* call of an external tool (ExternalTool), for any tool, any pipe         *)
(* capacity and every interleaving of the caller, the two readers, the     *)
(* tool and its helper; and the parallel refinement (RefineBatch), for any *)
(* number of functions and threads, which implements OrderedBatch.         *)
(***************************************************************************)
EXTENDS ExternalTool, RefineBatch, FiniteSetTheorems, SequenceTheorems, TLAPS

-----------------------------------------------------------------------------
(* Types *)

\* The types hold before the tool is started.
LEMMA InitTypes == Init => TypeOK
BY PlansAssumption, PipeAssumption DEF Init, TypeOK, IsPlan

\* Every step keeps the types.
LEMMA StepTypes == TypeOK /\ [Next]_vars => TypeOK'
<1> SUFFICES ASSUME TypeOK, [Next]_vars PROVE TypeOK'
  OBVIOUS
<1> USE PipeAssumption DEF toolVars, readerVars, callerVars
<1>1. CASE Spawn \/ SpawnFails
  BY <1>1 DEF TypeOK, Spawn, SpawnFails
<1>2. CASE WaitDone \/ Reap
  BY <1>2 DEF TypeOK, WaitDone, Reap, EndWait
<1>3. CASE WaitTimeout \/ WaitFails
  BY <1>3 DEF TypeOK, WaitTimeout, WaitFails, EndWait
<1>4. CASE Kill
  BY <1>4 DEF TypeOK, Kill
<1>5. CASE JoinStdout \/ JoinStderr
  BY <1>5 DEF TypeOK, JoinStdout, JoinStderr
<1>6. ASSUME NEW s \in Streams, Reader(s) \/ ReadFails(s) PROVE TypeOK'
  <2>1. CASE Read(s)
    <3>1. pipe[s] \in 0..PipeSize /\ pipe[s] > 0 /\ got[s] \in Nat
      BY <2>1, <1>6 DEF TypeOK, Read
    <3>2. pipe[s] - 1 \in 0..PipeSize /\ got[s] + 1 \in Nat
      BY <3>1
    <3>3. pipe' \in [Streams -> 0..PipeSize]
      BY <2>1, <1>6, <3>2 DEF TypeOK, Read
    <3>4. got' \in [Streams -> Nat]
      BY <2>1, <1>6, <3>2 DEF TypeOK, Read
    <3> QED BY <2>1, <3>3, <3>4 DEF TypeOK, Read
  <2>2. CASE ReadEof(s) \/ ReadFails(s)
    <3>1. reader' \in [Streams -> {"off", "reading", "done", "failed"}]
      BY <2>2 DEF TypeOK, ReadEof, ReadFails
    <3>2. UNCHANGED <<plan, toolVars, callerVars, pipe, got>>
      BY <2>2 DEF ReadEof, ReadFails
    <3> QED BY <3>1, <3>2 DEF TypeOK
  <2> QED BY <1>6, <2>1, <2>2 DEF Reader
<1>7. CASE Write
  <2>1. todo # <<>> /\ todo \in Seq(Streams)
    BY <1>7 DEF Write, TypeOK
  <2>2. Head(todo) \in Streams /\ todo' \in Seq(Streams)
    BY <2>1, <1>7 DEF Write
  <2>3. pipe' \in [Streams -> 0..PipeSize]
    <3> DEFINE s == Head(todo)
    <3>1. CASE UNCHANGED pipe
      BY <3>1 DEF TypeOK
    <3>2. CASE pipe[s] < PipeSize /\ pipe' = [pipe EXCEPT ![s] = @ + 1]
      <4>1. s \in Streams
        BY <2>2
      <4> HIDE DEF s
      <4>2. pipe[s] \in 0..PipeSize
        BY <4>1 DEF TypeOK
      <4>3. pipe[s] + 1 \in 0..PipeSize
        BY <4>2, <3>2
      <4> QED BY <4>1, <4>3, <3>2 DEF TypeOK
    <3> QED BY <1>7, <3>1, <3>2 DEF Write
  <2> QED BY <1>7, <2>2, <2>3 DEF TypeOK, Write
<1>8. CASE BrokenPipe \/ Exit \/ HelperExit
  <2>1. CASE BrokenPipe
    BY <2>1 DEF TypeOK, BrokenPipe
  <2>2. CASE Exit
    BY <2>2 DEF TypeOK, Exit
  <2>3. CASE HelperExit
    BY <2>3 DEF TypeOK, HelperExit
  <2> QED BY <1>8, <2>1, <2>2, <2>3
<1>9. CASE UNCHANGED vars
  BY <1>9 DEF TypeOK, vars
<1> QED BY <1>1, <1>2, <1>3, <1>4, <1>5, <1>6, <1>7, <1>8, <1>9
        DEF Next, Caller, Tool, Failure

\* Every variable keeps its type.
THEOREM TypeCorrect == Spec => []TypeOK
BY InitTypes, StepTypes, PTL DEF Spec

-----------------------------------------------------------------------------
(* Where the calling thread is tells how far the tool and the readers are  *)

\* Until the wait is over it has no answer; before the tool is started nothing
\* runs; an answer other than an error means that the tool was reaped; a
\* reader that is done saw an empty pipe that no tool holds any more; how the
\* tool ended is reported only when both readers were joined.
Progress ==
    /\ caller \in {"spawn", "wait", "kill", "reap"} => waited = "none" /\ result = "none"
    /\ caller = "spawn" => child = "none" /\ \A s \in Streams : reader[s] = "off"
    /\ waited \in {"ok", "timeout"} => child = "reaped"
    /\ \A s \in Streams : reader[s] = "done" => pipe[s] = 0 /\ child \in {"zombie", "reaped"}
    /\ caller \in {"join stdout", "join stderr"} => plan.capture /\ result = "none"
    /\ caller = "join stderr" => reader["stdout"] = "done"
    /\ (plan.capture /\ result \in {"ok", "timeout", "wait error"})
            => \A s \in Streams : reader[s] = "done"

\* Progress holds before the tool is started.
LEMMA InitProgress == Init => Progress
BY DEF Init, Progress

\* Every step keeps Progress.
LEMMA StepProgress == TypeOK /\ Progress /\ [Next]_vars => Progress'
<1> SUFFICES ASSUME TypeOK, Progress, [Next]_vars PROVE Progress'
  OBVIOUS
<1> USE DEF toolVars, readerVars, callerVars, Streams
<1>1. CASE Spawn
  BY <1>1 DEF TypeOK, Progress, Spawn
<1>2. CASE SpawnFails
  BY <1>2 DEF TypeOK, Progress, SpawnFails
<1>3. CASE WaitDone
  BY <1>3 DEF TypeOK, Progress, WaitDone, EndWait
<1>4. CASE WaitTimeout
  BY <1>4 DEF TypeOK, Progress, WaitTimeout
<1>5. CASE WaitFails
  BY <1>5 DEF TypeOK, Progress, WaitFails, EndWait
<1>6. CASE Kill
  BY <1>6 DEF TypeOK, Progress, Kill
<1>7. CASE Reap
  BY <1>7 DEF TypeOK, Progress, Reap, EndWait
<1>8. CASE JoinStdout
  BY <1>8 DEF TypeOK, Progress, JoinStdout
<1>9. CASE JoinStderr
  BY <1>9 DEF TypeOK, Progress, JoinStderr
<1>10. ASSUME NEW s \in Streams, Read(s) PROVE Progress'
  BY <1>10 DEF TypeOK, Progress, Read
<1>11. ASSUME NEW s \in Streams, ReadEof(s) PROVE Progress'
  BY <1>11 DEF TypeOK, Progress, ReadEof
<1>12. ASSUME NEW s \in Streams, ReadFails(s) PROVE Progress'
  BY <1>12 DEF TypeOK, Progress, ReadFails
<1>13. CASE Write
  BY <1>13 DEF TypeOK, Progress, Write
<1>14. CASE BrokenPipe \/ Exit
  BY <1>14 DEF TypeOK, Progress, BrokenPipe, Exit
<1>15. CASE HelperExit
  BY <1>15 DEF TypeOK, Progress, HelperExit
<1>16. CASE UNCHANGED vars
  BY <1>16 DEF Progress, vars
<1> QED BY <1>1, <1>2, <1>3, <1>4, <1>5, <1>6, <1>7, <1>8, <1>9, <1>10, <1>11, <1>12,
           <1>13, <1>14, <1>15, <1>16 DEF Next, Caller, Reader, Tool, Failure

\* No timeout leaves the tool behind: it is killed and reaped before the call
\* returns.
THEOREM ToolReaped == Spec => []NoToolLeftBehind
<1>1. Progress => NoToolLeftBehind
  BY DEF Progress, NoToolLeftBehind
<1> QED BY InitTypes, StepTypes, InitProgress, StepProgress, <1>1, PTL DEF Spec

\* How the tool ended is reported only after both pipes are drained.
THEOREM Drained == Spec => []ErrorAfterDrain
<1>1. Progress => ErrorAfterDrain
  BY DEF Progress, ErrorAfterDrain
<1> QED BY InitTypes, StepTypes, InitProgress, StepProgress, <1>1, PTL DEF Spec

-----------------------------------------------------------------------------
(* No chunk is lost between the tool and the readers                       *)

\* The positions of plan.writes that the tool has written on stream s.
Written(s) == {i \in 1..(Len(plan.writes) - Len(todo)) : plan.writes[i] = s}

\* What the tool has still to write is the end of its plan, a tool that ended
\* by itself wrote everything, and each captured chunk is in the pipe or with
\* the reader.
Account ==
    /\ Len(todo) <= Len(plan.writes)
    /\ \A i \in 1..Len(todo) : todo[i] = plan.writes[Len(plan.writes) - Len(todo) + i]
    /\ status = "exit" => todo = <<>>
    /\ plan.capture => \A s \in Streams : got[s] + pipe[s] = Cardinality(Written(s))

\* Nothing is lost before anything is written.
LEMMA InitAccount == Init => Account
<1> SUFFICES ASSUME Init PROVE Account
  OBVIOUS
<1>1. todo = plan.writes /\ plan.writes \in Seq(Streams) /\ status = "none"
  BY PlansAssumption DEF Init, IsPlan
<1>2. ASSUME NEW s \in Streams PROVE Written(s) = {}
  BY <1>1 DEF Written
<1>3. ASSUME NEW s \in Streams PROVE got[s] + pipe[s] = Cardinality(Written(s))
  BY <1>2, <1>3, FS_EmptySet DEF Init
<1> QED BY <1>1, <1>3 DEF Account

\* A step that moves no chunk and leaves how the tool ended alone.
LEMMA AccountStutter ==
  ASSUME Account, UNCHANGED <<plan, todo, pipe, got>>,
         status' = "exit" => (status = "exit" \/ todo = <<>>)
  PROVE  Account'
<1>1. \A s : Written(s)' = Written(s)
  BY DEF Written
<1> QED BY <1>1 DEF Account

\* A read moves bytes from the pipe to the buffer of its thread.
LEMMA ReadAccount ==
  ASSUME TypeOK, Account, NEW s \in Streams, Read(s)
  PROVE  Account'
<1> USE DEF toolVars, callerVars
<1>1. UNCHANGED <<plan, todo, status>>
  BY DEF Read
<1>2. \A r : Written(r)' = Written(r)
  BY <1>1 DEF Written
<1>3. ASSUME NEW r \in Streams PROVE got'[r] + pipe'[r] = got[r] + pipe[r]
  <2>1. got[r] \in Nat /\ pipe[r] \in Int
    <3>1. got[r] \in Nat /\ pipe[r] \in 0..PipeSize
      BY <1>3 DEF TypeOK
    <3> QED BY <3>1, PipeAssumption
  <2>2. CASE r = s
    <3>1. got'[r] = got[r] + 1 /\ pipe'[r] = pipe[r] - 1
      BY <2>2, <1>3 DEF Read, TypeOK
    <3> QED BY <2>1, <3>1
  <2>3. CASE r # s
    BY <2>3, <1>3 DEF Read, TypeOK
  <2> QED BY <2>2, <2>3
<1> QED BY <1>1, <1>2, <1>3 DEF Account

\* A write of the tool moves bytes into the pipe.
LEMMA WriteAccount ==
  ASSUME TypeOK, Account, Write
  PROVE  Account'
<1> USE DEF callerVars
<1> DEFINE W == plan.writes
           k == Len(W) - Len(todo)
           h == Head(todo)
<1>1. /\ todo \in Seq(Streams) /\ todo # <<>> /\ todo' = Tail(todo)
      /\ W \in Seq(Streams) /\ UNCHANGED <<plan, got>>
      /\ UNCHANGED status
  BY DEF TypeOK, IsPlan, Write
<1>2. /\ Len(todo) \in Nat /\ Len(todo) > 0 /\ Len(W) \in Nat
      /\ Len(todo') = Len(todo) - 1 /\ h = todo[1] /\ h \in Streams
      /\ \A i \in 1..Len(todo') : todo'[i] = todo[i + 1]
  BY <1>1
<1>3. /\ k \in Nat /\ (Len(W) - Len(todo))' = k + 1 /\ h = W[k + 1]
  BY <1>1, <1>2 DEF Account
<1>4. \A i \in 1..Len(todo') : todo'[i] = W[Len(W) - Len(todo') + i]
  <2> SUFFICES ASSUME NEW i \in 1..Len(todo') PROVE todo'[i] = W[Len(W) - Len(todo') + i]
    OBVIOUS
  <2>1. todo'[i] = todo[i + 1] /\ i + 1 \in 1..Len(todo)
    BY <1>2
  <2>2. todo[i + 1] = W[Len(W) - Len(todo) + (i + 1)]
    BY <2>1 DEF Account
  <2>3. Len(W) - Len(todo) + (i + 1) = Len(W) - Len(todo') + i
    <3> HIDE DEF W
    <3> QED BY <1>2
  <2> QED BY <2>1, <2>2, <2>3
<1>5. ASSUME NEW s \in Streams, plan.capture
      PROVE  got'[s] + pipe'[s] = Cardinality(Written(s))'
  <2>1. /\ pipe' = [pipe EXCEPT ![h] = @ + 1]
        /\ pipe \in [Streams -> 0..PipeSize] /\ got \in [Streams -> Nat]
    BY <1>5 DEF Write, TypeOK
  <2>2. IsFiniteSet(Written(s)) /\ Written(s) \subseteq 1..k
    <3>1. IsFiniteSet(1..k)
      BY <1>3, FS_Interval
    <3>2. Written(s) \subseteq 1..k
      BY DEF Written
    <3> QED BY <3>1, <3>2, FS_Subset
  <2>3. got[s] + pipe[s] = Cardinality(Written(s))
    BY <1>5 DEF Account
  <2>4. Written(s)' = {i \in 1..(k + 1) : W[i] = s}
    BY <1>1, <1>3 DEF Written
  <2>5. Written(s) = {i \in 1..k : W[i] = s}
    BY DEF Written
  <2> HIDE DEF k, W, h
  <2>6. CASE s = h
    <3>1. Written(s)' = Written(s) \cup {k + 1} /\ k + 1 \notin Written(s)
      BY <2>6, <2>4, <2>5, <2>2, <1>3
    <3>2. Cardinality(Written(s)') = Cardinality(Written(s)) + 1
      BY <3>1, <2>2, FS_AddElement
    <3>3. pipe'[s] = pipe[s] + 1 /\ got'[s] = got[s] /\ pipe[s] \in Int /\ got[s] \in Nat
      BY <2>1, <2>6, <1>1, <1>5, PipeAssumption
    <3> QED BY <3>2, <3>3, <2>3
  <2>7. CASE s # h
    <3>1. Written(s)' = Written(s)
      BY <2>7, <2>4, <2>5, <1>3
    <3>2. pipe'[s] = pipe[s] /\ got'[s] = got[s]
      BY <2>1, <2>7, <1>1, <1>5
    <3> QED BY <3>1, <3>2, <2>3
  <2> QED BY <2>6, <2>7
<1>6. status' # "exit"
  BY <1>1 DEF Account
<1> QED BY <1>1, <1>2, <1>3, <1>4, <1>5, <1>6 DEF Account

\* Every step keeps account of the bytes.
LEMMA StepAccount == TypeOK /\ Account /\ [Next]_vars => Account'
<1> SUFFICES ASSUME TypeOK, Account, [Next]_vars PROVE Account'
  OBVIOUS
<1> USE DEF toolVars, readerVars, callerVars
<1>1. CASE Caller
  <2>1. UNCHANGED <<plan, todo, pipe, got>>
    BY <1>1 DEF Caller, Spawn, WaitDone, WaitTimeout, Kill, Reap, JoinStdout, JoinStderr
  <2>2. status' \in {status, "signal"}
    BY <1>1 DEF Caller, Spawn, WaitDone, WaitTimeout, Kill, Reap, JoinStdout, JoinStderr
  <2> QED BY <2>1, <2>2, AccountStutter
<1>2. ASSUME NEW s \in Streams, Reader(s) PROVE Account'
  <2>1. CASE ReadEof(s)
    BY <2>1, AccountStutter DEF ReadEof
  <2> QED BY <2>1, <1>2, ReadAccount DEF Reader
<1>3. CASE BrokenPipe
  BY <1>3, AccountStutter DEF BrokenPipe
<1>4. CASE Exit
  BY <1>4, AccountStutter DEF Exit
<1>5. CASE Failure
  BY <1>5, AccountStutter DEF Failure, SpawnFails, WaitFails, ReadFails
<1>6. CASE HelperExit
  BY <1>6, AccountStutter DEF HelperExit
<1>7. CASE UNCHANGED vars
  BY <1>7, AccountStutter DEF vars
<1> QED BY <1>1, <1>2, <1>3, <1>4, <1>5, <1>6, <1>7, WriteAccount DEF Next, Tool

\* A call that succeeds returns everything the tool wrote, on both streams.
THEOREM NothingLost == Spec => []OutputIsComplete
<1>1. TypeOK /\ Progress /\ Account => OutputIsComplete
  <2> SUFFICES ASSUME TypeOK, Progress, Account, plan.capture, result = "ok",
                      NEW s \in Streams
               PROVE  reader[s] = "done" /\ (status = "exit" => got[s] = Planned(s))
    BY DEF OutputIsComplete
  <2>1. reader[s] = "done" /\ pipe[s] = 0
    BY DEF Progress
  <2>2. ASSUME status = "exit" PROVE got[s] = Planned(s)
    <3>1. got[s] + pipe[s] = Cardinality(Written(s)) /\ todo = <<>>
      BY <2>2 DEF Account
    <3>2. Written(s) = {i \in DOMAIN plan.writes : plan.writes[i] = s}
      <4>1. plan.writes \in Seq(Streams)
        BY DEF TypeOK, IsPlan
      <4>2. DOMAIN plan.writes = 1..Len(plan.writes) /\ Len(plan.writes) \in Nat
        BY <4>1
      <4>3. Len(plan.writes) - Len(todo) = Len(plan.writes)
        BY <3>1, <4>2
      <4> QED BY <4>2, <4>3 DEF Written
    <3>3. got[s] \in Nat
      BY DEF TypeOK
    <3> QED BY <2>1, <3>1, <3>2, <3>3 DEF Planned
  <2> QED BY <2>1, <2>2
<1> QED BY InitTypes, StepTypes, InitProgress, StepProgress, InitAccount, StepAccount,
           <1>1, PTL DEF Spec

-----------------------------------------------------------------------------
(* The parallel refinement *)

\* How far the main thread is: a chunk is joined before the next is spawned.
ChunkProgress ==
    /\ joined <= chunk
    /\ chunk - joined <= Parallelism
    /\ stage \in {"check", "raw"} => chunk = 0
    /\ stage \in {"chunk", "done"} => joined = chunk
    /\ stage = "done" => chunk \in {0, N}

\* A function has a thread exactly if its chunk was spawned, and the thread
\* has ended if its handle was joined.
ThreadsFollow ==
    \A i \in Fns : /\ worker[i] = "none" <=> i > chunk
                   /\ i <= joined => worker[i] # "running"

\* A stored result is the text of the thread that was joined.
ResultsFollow ==
    \A i \in Fns :
        results[i] = IF i > joined \/ worker[i] = "dead" THEN "none"
                     ELSE IF worker[i] = "refined" THEN "refined" ELSE "raw"

Unprinted == stage # "done" => output = <<>>

BatchInv == RTypeOK /\ ChunkProgress /\ ThreadsFollow /\ ResultsFollow /\ Unprinted

\* The chunk about to be spawned is not empty, fits the bound and ends at N.
LEMMA ChunkBounds ==
    ASSUME chunk \in 0..N, chunk < N
    PROVE  ChunkEnd \in (chunk + 1)..N /\ ChunkEnd - chunk <= Parallelism
  BY BatchAssumption DEF ChunkEnd, MaxWorkers

\* The initial state satisfies the invariant.
LEMMA InitBatchInv == RInit => BatchInv
  BY BatchAssumption
     DEF RInit, BatchInv, RTypeOK, ChunkProgress, ThreadsFollow, ResultsFollow, Unprinted, Fns

\* What is printed is a sequence of texts.
LEMMA TextsType == Texts \in Seq([fn : Fns, kind : {"raw", "refined"}])
  <1>1. Texts \in [1..N -> [fn : Fns, kind : {"raw", "refined"}]]
    BY DEF Texts, Fns
  <1>2. N \in Nat
    BY BatchAssumption
  <1> QED
    BY <1>1, <1>2, SeqDef, Zenon

\* Every step preserves the invariant.
LEMMA StepBatchInv == BatchInv /\ [RNext]_refineVars => BatchInv'
  <1> SUFFICES ASSUME BatchInv, [RNext]_refineVars PROVE BatchInv'
    OBVIOUS
  <1> USE BatchAssumption DEF BatchInv, RTypeOK, ChunkProgress, ThreadsFollow, ResultsFollow,
                              Unprinted, Fns
  <1>1. CASE Unavailable
    BY <1>1 DEF Unavailable
  <1>2. CASE Available
    BY <1>2 DEF Available
  <1>3. CASE SpawnChunk
    <2>1. ChunkEnd \in (chunk + 1)..N /\ ChunkEnd - chunk <= Parallelism
      BY <1>3, ChunkBounds DEF SpawnChunk
    <2>2. RTypeOK' /\ ChunkProgress'
      BY <1>3, <2>1 DEF SpawnChunk
    <2>3. ThreadsFollow' /\ ResultsFollow' /\ Unprinted'
      BY <1>3, <2>1 DEF SpawnChunk
    <2> QED
      BY <2>2, <2>3
  <1>4. CASE Join
    <2>1. joined + 1 \in Fns /\ joined + 1 <= chunk
      BY <1>4 DEF Join
    <2>2. results' \in [Fns -> {"none", "raw", "refined"}]
      BY <1>4, <2>1 DEF Join
    <2>3. RTypeOK' /\ ChunkProgress' /\ ThreadsFollow' /\ Unprinted'
      BY <1>4, <2>1, <2>2 DEF Join
    <2>4. ResultsFollow'
      BY <1>4, <2>1 DEF Join
    <2> QED
      BY <2>3, <2>4
  <1>5. CASE ChunkDone
    BY <1>5 DEF ChunkDone
  <1>6. CASE PrintAll
    BY <1>6, TextsType DEF PrintAll
  <1>7. ASSUME NEW i \in Fns, Thread(i) PROVE BatchInv'
    <2>1. PICK w \in {"refined", "kept", "dead"} :
             /\ worker' = [worker EXCEPT ![i] = w]
             /\ UNCHANGED <<stage, chunk, joined, results, output>>
      BY <1>7 DEF Thread, Answer, Fail, Die
    <2>2. i > joined /\ i <= chunk
      BY <1>7 DEF Thread, Answer, Fail, Die
    <2>3. RTypeOK' /\ ChunkProgress' /\ Unprinted'
      BY <2>1
    <2>4. ThreadsFollow' /\ ResultsFollow'
      BY <2>1, <2>2
    <2> QED
      BY <2>3, <2>4
  <1>8. CASE UNCHANGED refineVars
    BY <1>8 DEF refineVars
  <1> QED
    BY <1>1, <1>2, <1>3, <1>4, <1>5, <1>6, <1>7, <1>8 DEF RNext, Main

\* The invariant holds in every reachable state.
THEOREM BatchInvariant == RSpec => []BatchInv
  BY InitBatchInv, StepBatchInv, PTL DEF RSpec

\* Type correctness, for any number of functions and threads.
THEOREM RefineTypeCorrect == RSpec => []RTypeOK
  <1>1. BatchInv => RTypeOK
    BY DEF BatchInv
  <1> QED
    BY <1>1, BatchInvariant, PTL

\* However many functions there are, no more than Parallelism requests are
\* under way: the running threads are those of one chunk.
THEOREM RequestsBounded == RSpec => []BoundedRequests
  <1>1. BatchInv => BoundedRequests
    <2> SUFFICES ASSUME BatchInv PROVE BoundedRequests
      OBVIOUS
    <2> DEFINE Running == {i \in Fns : worker[i] = "running"}
    <2>1. joined \in Int /\ chunk \in Int /\ joined <= chunk
          /\ chunk - joined <= Parallelism
      BY BatchAssumption DEF BatchInv, RTypeOK, ChunkProgress
    <2>2. Running \in SUBSET ((joined + 1)..chunk)
      BY BatchAssumption DEF BatchInv, RTypeOK, ThreadsFollow, Fns
    <2>3. /\ IsFiniteSet((joined + 1)..chunk)
          /\ Cardinality((joined + 1)..chunk) =
                IF joined + 1 > chunk THEN 0 ELSE chunk - (joined + 1) + 1
      BY <2>1, FS_Interval
    <2>4. /\ IsFiniteSet(Running)
          /\ Cardinality(Running) <= Cardinality((joined + 1)..chunk)
      BY <2>2, <2>3, FS_Subset
    <2>5. Cardinality(Running) \in Nat
      BY <2>4, FS_CardinalityType
    <2>6. Cardinality(Running) <= Parallelism
      BY <2>1, <2>3, <2>4, <2>5, BatchAssumption
    <2> QED
      BY <2>6 DEF BoundedRequests
  <1> QED
    BY <1>1, BatchInvariant, PTL

-----------------------------------------------------------------------------
\* A step of the threads or of the main thread is a step of OrderedBatch.
LEMMA StepImplements ==
    ASSUME BatchInv, BatchInv', [RNext]_refineVars
    PROVE  [Batch!Decide \/ Batch!Publish]_(Batch!batchVars)
  <1> USE BatchAssumption DEF Fns
  <1>t. [i \in Fns |-> TextOf(i)]' \in [1..N -> {"open", "raw", "refined"}]
    BY DEF TextOf
  <1>1. ASSUME UNCHANGED output,
               \A i \in Fns : TextOf(i) # "open" => TextOf(i)' = TextOf(i)
        PROVE  Batch!Decide
    BY <1>1, <1>t DEF Batch!Decide
  <1>2. CASE Unavailable
    <2>1. \A i \in Fns : TextOf(i) = "open"
      BY <1>2 DEF Unavailable, BatchInv, RTypeOK, ChunkProgress, ThreadsFollow, TextOf
    <2> QED
      BY <1>2, <1>1, <2>1 DEF Unavailable
  <1>3. CASE Available \/ ChunkDone \/ Join
    <2>1. worker' = worker /\ output' = output
          /\ stage \notin {"raw", "done"} /\ stage' \notin {"raw", "done"}
      BY <1>3 DEF Available, ChunkDone, Join
    <2>2. \A i \in Fns : TextOf(i)' = TextOf(i)
      BY <2>1 DEF TextOf
    <2> QED
      BY <1>1, <2>1, <2>2
  <1>4. CASE SpawnChunk
    <2>1. \A i \in Fns : TextOf(i) # "open" => TextOf(i)' = TextOf(i)
      BY <1>4 DEF SpawnChunk, BatchInv, RTypeOK, ThreadsFollow, TextOf
    <2> QED
      BY <1>4, <1>1, <2>1 DEF SpawnChunk
  <1>5. ASSUME NEW i \in Fns, Thread(i) PROVE Batch!Decide
    <2>1. \A j \in Fns : TextOf(j) # "open" => TextOf(j)' = TextOf(j)
      BY <1>5 DEF Thread, Answer, Fail, Die, BatchInv, RTypeOK, TextOf
    <2> QED
      BY <1>5, <1>1, <2>1 DEF Thread, Answer, Fail, Die
  <1>6. CASE PrintAll
    <2>1. \A i \in Fns : TextOf(i) = IF results[i] = "refined" THEN "refined" ELSE "raw"
      BY <1>6 DEF PrintAll, BatchInv, RTypeOK, ChunkProgress, ThreadsFollow, ResultsFollow, TextOf
    <2>2. \A i \in Fns : TextOf(i)' = TextOf(i)
      BY <1>6 DEF PrintAll, BatchInv, RTypeOK, ChunkProgress, ThreadsFollow, TextOf
    <2>3. output = <<>>
      BY <1>6 DEF PrintAll, BatchInv, Unprinted
    <2>4. output' = [i \in 1..N |-> [fn |-> i, kind |-> TextOf(i)]]
      BY <1>6, <2>1 DEF PrintAll, Texts
    <2>5. [i \in Fns |-> TextOf(i)]' = [i \in Fns |-> TextOf(i)]
      BY <2>2
    <2> QED
      BY <2>1, <2>3, <2>4, <2>5 DEF Batch!Publish
  <1>7. CASE UNCHANGED refineVars
    <2>1. [i \in Fns |-> TextOf(i)]' = [i \in Fns |-> TextOf(i)]
      BY <1>7 DEF refineVars, TextOf
    <2> QED
      BY <1>7, <2>1 DEF refineVars, Batch!batchVars
  <1> QED
    BY <1>2, <1>1, <1>3, <1>4, <1>5, <1>6, <1>7 DEF RNext, Main

\* The parallel refinement keeps the promise of OrderedBatch: every function
\* is printed once, in order, refined exactly if the service answered for it.
THEOREM Refinement == RSpec => ImplementsBatch
  <1>1. RInit => Batch!BatchInit
    BY BatchAssumption DEF RInit, Batch!BatchInit, TextOf, Fns
  <1>2. BatchInv /\ BatchInv' /\ [RNext]_refineVars => [Batch!Decide \/ Batch!Publish]_(Batch!batchVars)
    BY StepImplements
  <1> QED
    BY <1>1, <1>2, BatchInvariant, PTL DEF RSpec, ImplementsBatch, Batch!BatchSpec

=============================================================================
