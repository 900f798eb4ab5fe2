---------------------------- MODULE Concurrency ----------------------------
(***************************************************************************)
(* MULTI_TASK and TASK_REDUCE of src/util/concurrency.cxx and              *)
(* include/util/concurrency.hpp: one caller, which cuts the items 0..n-1   *)
(* into ranges, starts a thread for each, and waits for them in order.  A  *)
(* thread's work on its range is one step between its start and its end,   *)
(* for only the set of items that run at the same time matters.            *)
(***************************************************************************)
EXTENDS Integers, Sequences, SequencesExt, FiniteSets

CONSTANT Calls  \* [kind, threads, n, bits]: see below

(* kind "MULTI" is MULTI_TASK, whose threads write to memory of the caller; *)
(* kind "REDUCE" is TASK_REDUCE, whose threads return a result each.  With  *)
(* `bits` the result starts as `BitString out(end - start)`, as in          *)
(* AHE::decrypt and Base::expand, else as an empty vector, as in            *)
(* AHE::encrypt and AHE::receive.                                           *)
ASSUME ConcurrencyAssumption ==
  \A c \in Calls :
    /\ c.kind \in {"MULTI", "REDUCE"} /\ c.bits \in BOOLEAN
    /\ c.threads \in Nat \ {0} /\ c.n \in Nat

VARIABLES
  call,
  pc,       \* "start", "wait", "returned" or "failed"
  started,  \* threads that the caller has started
  thread,   \* thread[t]: "none", "running", "done" or "threw"
  joined,   \* threads that the caller has waited for
  count,    \* count[i]: how often item i was worked on
  results,  \* results[t]: the items in the result of thread t, in order
  out       \* the combined result

vars == <<call, pc, started, thread, joined, count, results, out>>

-----------------------------------------------------------------------------
THREAD_COUNT == call.threads
n == call.n
Items == 0..(n - 1)

\* Whether the caller does all of the work itself.
Inline == call.kind = "REDUCE" /\ n < 8 * THREAD_COUNT

\* The threads to be started, by thread_id.
Workers ==
  IF Inline THEN {0}
  ELSE IF call.kind = "MULTI" /\ n < THREAD_COUNT THEN 0..(n - 1)
  ELSE 0..(THREAD_COUNT - 1)

Chunk == (n + THREAD_COUNT - 1) \div THREAD_COUNT

SmallerOf(a, b) == IF a < b THEN a ELSE b

FaultyFirst(t) == t * Chunk + 1

first(t) ==
  IF call.kind = "MULTI" /\ n < THREAD_COUNT THEN t ELSE t * Chunk

FaultyLast(t) ==
  IF Inline THEN n
  ELSE IF call.kind = "MULTI" /\ n < THREAD_COUNT THEN t + 1
  ELSE SmallerOf(first(t) + Chunk + 1, n)

last(t) ==
  IF Inline THEN n
  ELSE IF call.kind = "MULTI" /\ n < THREAD_COUNT THEN t + 1
  ELSE SmallerOf(first(t) + Chunk, n)

\* The items of `for (size_t i = start; i < end; i++)`.
ItemsOf(t) == first(t)..(last(t) - 1)

\* The size of `BitString out(end - start)` wraps around when end < start.
Wraps(t) == call.kind = "REDUCE" /\ call.bits /\ last(t) < first(t)

Init ==
  /\ call \in Calls
  /\ pc = "start" /\ started = 0 /\ joined = 0
  /\ thread = [t \in Workers |-> "none"]
  /\ count = [i \in Items |-> 0]
  /\ results = [t \in Workers |-> <<>>]
  /\ out = <<>>

FaultyStartThread ==
  /\ pc = "start"
  /\ IF started + 1 < Cardinality(Workers)
     THEN /\ thread' = [thread EXCEPT ![started] = "running"]
          /\ started' = started + 1
          /\ UNCHANGED pc
     ELSE pc' = "wait" /\ UNCHANGED <<thread, started>>
  /\ UNCHANGED <<call, joined, count, results, out>>

\* The caller starts the next thread; those before may be running or done.
\* (With one worker only, that of Inline, the caller is that thread itself.)
StartThread ==
  /\ pc = "start"
  /\ IF started < Cardinality(Workers)
     THEN /\ thread' = [thread EXCEPT ![started] = "running"]
          /\ started' = started + 1
          /\ UNCHANGED pc
     ELSE pc' = "wait" /\ UNCHANGED <<thread, started>>
  /\ UNCHANGED <<call, joined, count, results, out>>

\* A thread comes to the end of its range.  A bit string whose size has wrapped
\* has no bytes for its bits: what is done with it fails, at the latest when the
\* caller combines the results.
FinishThread(t) ==
  /\ thread[t] = "running"
  /\ thread' = [thread EXCEPT ![t] = IF Wraps(t) THEN "threw" ELSE "done"]
  /\ LET mine == ItemsOf(t) IN
     /\ count' = [i \in Items |-> IF i \in mine THEN count[i] + 1 ELSE count[i]]
     /\ results' = [results EXCEPT ![t] = [k \in 1..Cardinality(mine) |-> first(t) + k - 1]]
  /\ UNCHANGED <<call, pc, started, joined, out>>

\* join() or get() of the threads in the order of their start.
FaultyJoinThread ==
  /\ pc = "wait" /\ joined < Cardinality(Workers)
  /\ joined' = joined + 1
  /\ UNCHANGED <<call, pc, started, thread, count, results, out>>

JoinThread ==
  /\ pc = "wait" /\ joined < Cardinality(Workers)
  /\ thread[joined] \in {"done", "threw"}
  /\ joined' = joined + 1
  /\ UNCHANGED <<call, pc, started, thread, count, results, out>>

\* All are there: combine the results, or just return.
FaultyCombined ==
  FoldLeft(LAMBDA all, r : r \o all, <<>>, [t \in 1..Cardinality(Workers) |-> results[t - 1]])

Combined == FoldLeft(\o, <<>>, [t \in 1..Cardinality(Workers) |-> results[t - 1]])

Return ==
  /\ pc = "wait" /\ joined = Cardinality(Workers)
  /\ IF \E t \in Workers : thread[t] = "threw"
     THEN pc' = "failed" /\ UNCHANGED out
     ELSE pc' = "returned" /\ out' = IF call.kind = "REDUCE" THEN Combined ELSE <<>>
  /\ UNCHANGED <<call, started, thread, joined, count, results>>

Stop == pc \in {"returned", "failed"} /\ UNCHANGED vars

Next ==
  \/ StartThread \/ (\E t \in Workers : FinishThread(t))
  \/ JoinThread \/ Return \/ Stop

\* The caller and each thread it has started get to run.
Spec ==
  /\ Init /\ [][Next]_vars
  /\ WF_vars(StartThread) /\ WF_vars(JoinThread) /\ WF_vars(Return)
  /\ WF_vars(\E t \in Workers : FinishThread(t))

-----------------------------------------------------------------------------
\* When the call returns, each item was worked on once, and no thread is left
\* that still holds references to the caller's variables.
AllDone ==
  pc = "returned" =>
    /\ \A i \in Items : count[i] = 1
    /\ \A t \in Workers : thread[t] = "done"

\* The combined result has the items in their order, in whatever order the
\* threads come to their end.
InOrder ==
  pc = "returned" /\ call.kind = "REDUCE" => out = [i \in 1..n |-> i - 1]

\* A range never begins behind the end, so that no size wraps and the call returns
\* normally, for (T - 1)^2 items or more.  (With fewer it may happen, from eleven
\* threads on: the smallest such call is the one of 11 threads and 89 items.)
NeverReversed == pc = "failed" => n < (THREAD_COUNT - 1) * (THREAD_COUNT - 1)
=============================================================================
