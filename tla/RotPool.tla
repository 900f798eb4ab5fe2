------------------------------ MODULE RotPool ------------------------------
(***************************************************************************)
(* The ownership of random OTs inside one process: the ROT::Base cursors   *)
(* `first` and `last` over the shared `results` vector, and reserve(),     *)
(* which splits a range off into another object "to give to a threaded     *)
(* process" (include/pkg/rot.hpp).                                         *)
(*                                                                         *)
(* Both parties of the protocol run the same program on their main object: *)
(* run, transfers and reserves, in this order.  An object that was      *)
(* reserved is given to a worker thread, which transfers with it at any    *)
(* time; threads of the two parties are not synchronised.                  *)
(*                                                                         *)
(* Operators named Faulty<...> are seeded faults (see module Rot).         *)
(***************************************************************************)
EXTENDS Naturals, Sequences

CONSTANTS
  Parties,     \* the ROT::Sender's process and the ROT::Receiver's
  Main,        \* the object the process constructs
  Workers,     \* the objects it may reserve for worker threads
  Programs     \* sequences of calls on Main, [op, n, to]; both parties run one

Handles == Workers \cup {Main}

ASSUME MainAssumption == Main \notin Workers

Calls == [op : {"run", "transfer", "reserve"}, n : Nat, to : Workers]

\* main.cxx calls run() once on each object, before any other use of it, and
\* each reserve() makes a new object.
ASSUME ProgramsAssumption ==
  \A prog \in Programs :
    /\ prog \in Seq(Calls)
    /\ \A i \in DOMAIN prog : prog[i].op = "run" => i = 1
    /\ \A i, j \in DOMAIN prog :
         /\ prog[i].op = "reserve" /\ prog[j].op = "reserve"
         /\ prog[i].to = prog[j].to
         => i = j

VARIABLES
  program, \* the calls that the code above the pools makes
  pc,      \* pc[p] calls of it that p's main thread has completed
  failed,  \* failed[p]: an exception ended the main thread
  size,    \* results->size()
  first,   \* first[p][h], *first of object h
  last,    \* last[p][h], *last of object h
  start,   \* start[p][h], where h's range began (history)
  spent,   \* spent[p], the OTs that get() has returned (history)
  twice    \* twice[p], those it has returned again (history)

poolVars == <<program, pc, failed, size, first, last, start, spent, twice>>

Remaining(p, h) == last[p][h] - first[p][h]

PoolInit ==
  /\ program \in Programs
  /\ pc = [p \in Parties |-> 0]
  /\ failed = [p \in Parties |-> FALSE]
  /\ size = [p \in Parties |-> 0]
  /\ first = [p \in Parties |-> [h \in Handles |-> 0]]
  /\ last = [p \in Parties |-> [h \in Handles |-> 0]]
  /\ start = [p \in Parties |-> [h \in Handles |-> 0]]
  /\ spent = [p \in Parties |-> {}]
  /\ twice = [p \in Parties |-> {}]

\* The next call of p's main thread is `op`.
AtCall(p, op) ==
  /\ ~failed[p]
  /\ pc[p] < Len(program)
  /\ program[pc[p] + 1].op = op

Call(p) == program[pc[p] + 1]

Return(p) == pc' = [pc EXCEPT ![p] = @ + 1]

\* n gets in a row on object h: OTs first .. first + n - 1.
Granted(p, h, n) == first[p][h]..(first[p][h] + n - 1)

FaultyTake(p, h, n) ==
  /\ first' = [first EXCEPT ![p][h] = first[p][h] + (IF n = 0 THEN 0 ELSE 1)]
  /\ spent' = [spent EXCEPT ![p] = spent[p] \cup Granted(p, h, n)]
  /\ twice' = [twice EXCEPT ![p] = twice[p] \cup (spent[p] \cap Granted(p, h, n))]
  /\ UNCHANGED <<program, failed, size, last, start>>

Take(p, h, n) ==
  /\ first' = [first EXCEPT ![p][h] = first[p][h] + n]
  /\ spent' = [spent EXCEPT ![p] = spent[p] \cup Granted(p, h, n)]
  /\ twice' = [twice EXCEPT ![p] = twice[p] \cup (spent[p] \cap Granted(p, h, n))]
  /\ UNCHANGED <<program, failed, size, last, start>>

\* run(n): append n results and make the object own the whole vector.
Run(p) ==
  /\ AtCall(p, "run")
  /\ size' = [size EXCEPT ![p] = size[p] + Call(p).n]
  /\ first' = [first EXCEPT ![p][Main] = 0]
  /\ last' = [last EXCEPT ![p][Main] = size[p] + Call(p).n]
  /\ Return(p)
  /\ UNCHANGED <<program, failed, start, spent, twice>>

\* transfer of n messages: all of them, or the exception before the first.
Transfer(p) ==
  /\ AtCall(p, "transfer")
  /\ Call(p).n <= Remaining(p, Main)
  /\ Take(p, Main, Call(p).n)
  /\ Return(p)

\* reserve(n): the range [first, first + n) goes to a new object.
FaultyFirstAfterReserve(f, n) == f
FaultyBackAfterReserve(f, n) == f - n
FirstAfterReserve(f, n) == f + n

FaultyReservedLast(f, n) == f + n - 1
ReservedLast(f, n) == f + n

Reserve(p) ==
  /\ AtCall(p, "reserve")
  /\ Call(p).n <= Remaining(p, Main)
  /\ LET f == first[p][Main]
         n == Call(p).n
         w == Call(p).to
     IN  /\ first' = [first EXCEPT ![p][Main] = FirstAfterReserve(f, n), ![p][w] = f]
         /\ last' = [last EXCEPT ![p][w] = ReservedLast(f, n)]
         /\ start' = [start EXCEPT ![p][w] = f]
  /\ Return(p)
  /\ UNCHANGED <<program, failed, size, spent, twice>>

\* Both throw when the pool is too small, and leave it as it is.
Refuse(p) ==
  /\ AtCall(p, "transfer") \/ AtCall(p, "reserve")
  /\ Call(p).n > Remaining(p, Main)
  /\ failed' = [failed EXCEPT ![p] = TRUE]
  /\ UNCHANGED <<program, pc, size, first, last, start, spent, twice>>

\* A worker thread transfers with the object it was given; a transfer of more
\* than it holds throws and takes nothing.
FaultyWork(p, w) ==
  /\ Remaining(p, w) > 0
  /\ \E n \in 1..Remaining(p, Main) : Take(p, Main, n)
  /\ UNCHANGED pc

Work(p, w) ==
  /\ \E n \in 1..Remaining(p, w) : Take(p, w, n)
  /\ UNCHANGED pc

Finished(p) ==
  /\ failed[p] \/ pc[p] = Len(program)
  /\ \A w \in Workers : Remaining(p, w) = 0

PoolStop == (\A p \in Parties : Finished(p)) /\ UNCHANGED poolVars

PoolNext ==
  \/ \E p \in Parties :
       \/ Run(p) \/ Transfer(p) \/ Reserve(p) \/ Refuse(p)
       \/ \E w \in Workers : Work(p, w)
  \/ PoolStop

PoolSpec == PoolInit /\ [][PoolNext]_poolVars

-----------------------------------------------------------------------------
TypeOK ==
  /\ program \in Programs
  /\ pc \in [Parties -> 0..Len(program)]
  /\ failed \in [Parties -> BOOLEAN]
  /\ size \in [Parties -> Nat]
  /\ first \in [Parties -> [Handles -> Nat]]
  /\ last \in [Parties -> [Handles -> Nat]]
  /\ start \in [Parties -> [Handles -> Nat]]
  /\ spent \in [Parties -> SUBSET Nat]
  /\ twice \in [Parties -> SUBSET Nat]

\* No random OT is handed out twice, whatever the threads do: a pad that is
\* used for two messages gives both away.
NoReuse == \A p \in Parties : twice[p] = {}

\* An OT that was handed out never becomes available again, and the objects of
\* one process never come to share one.
Owned(p, h) == first[p][h]..(last[p][h] - 1)

Disjoint ==
  \A p \in Parties :
    /\ \A g, h \in Handles : g # h => Owned(p, g) \cap Owned(p, h) = {}
    /\ \A h \in Handles : Owned(p, h) \cap spent[p] = {}
    /\ \A h \in Handles : Owned(p, h) \subseteq 0..(size[p] - 1)

\* The two parties mean the same random OT by the same use of the same object,
\* although their threads are not synchronised: equal progress on an object is
\* an equal cursor.  A difference would pair a message with the wrong pad.
Mirrored ==
  \A p, q \in Parties :
    /\ pc[p] = pc[q] => first[p][Main] = first[q][Main] /\ last[p][Main] = last[q][Main]
    /\ \A w \in Workers :
         last[p][w] > 0 /\ last[q][w] > 0 =>
           start[p][w] = start[q][w] /\ last[p][w] = last[q][w]

\* No OT is lost: whatever was generated is still owned by an object or was
\* handed out (test_pcg.cxx, PCGNumOTs, expects none left at the end).
Accounted ==
  \A p \in Parties :
    0..(size[p] - 1) = spent[p] \cup UNION {Owned(p, h) : h \in Handles}
=============================================================================
