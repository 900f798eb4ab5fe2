------------------------------ MODULE Session ------------------------------
(***************************************************************************)
(* One run of the protocol as its two processes see it: every byte that    *)
(* PCG::Sender::online and PCG::Receiver::online (src/pkg/pcg.cxx) write   *)
(* and read through the channel, with the subprotocols they call, and      *)
(* every random OT that these take from the pools that main.cxx fills.     *)
(*                                                                         *)
(* What the code does between two I/O calls is local, so a party is its    *)
(* script: the sequence of blocking operations of the functions it calls.  *)
(* The operators below that build the scripts carry the functions' names.  *)
(* A byte on the wire is <<tag, i>>, the i-th byte of the message tag: the *)
(* contents are the matter of modules EqTest, Pprf, Ahe and Pcg.           *)
(***************************************************************************)
EXTENDS Tcp, Integers, FiniteSets, SequencesExt, FiniteSetsExt

CONSTANTS
  KeyBits,     \* LAMBDA, the bits of a key (128 in the code)
  PointBytes,  \* REccPoint::size
  ParamSet,    \* parameters to run: [tp, pb, td, db, k, threshold]
  MaxCrashes   \* processes that may die, or never be started (0 or 1)

\* Below a threshold of 2 the sizes of the equality test stay at 2 for ever, and
\* a block of one element leaves its PRF no level.
ASSUME SessionAssumption ==
  /\ KeyBits \in Nat \ {0} /\ KeyBits % 8 = 0 /\ PointBytes \in Nat \ {0}
  /\ MaxCrashes \in 0..1
  /\ \A P \in ParamSet :
       /\ P.tp \in Nat \ {0} /\ P.td \in Nat \ {0} /\ P.db \in Nat \ {0} /\ P.k \in Nat \ {0}
       /\ P.pb \in Nat \ {0, 1} /\ P.threshold \in Nat \ {0, 1}

VARIABLES
  params,   \* the parameters, the same on both sides
  pc,       \* pc[p]: operations of its script that p has completed
  moved,    \* moved[p]: how far it is in the current one: bytes done, or for a
            \* run() of the OT extension 1 once it has its connection
  pool,     \* pool[p][d]: OTs left to p for direction d
  crashes   \* processes that died

vars == <<tcpVars, params, pc, moved, pool, crashes>>

-----------------------------------------------------------------------------
\* The pools: "sr" serves OTs sent by PCG::Sender, "rs" those it receives.
Directions == {"sr", "rs"}

nBytes(bits) == (bits + 7) \div 8

\* (size_t) ceil(log2(n))
CeilLog2(n) == CHOOSE d \in 0..n : 2^d >= n /\ (d = 0 \/ 2^(d - 1) < n)

Sum(widths) == FoldLeft(+, 0, widths)
Times(n, x) == [i \in 1..n |-> x]

Write(tag, n) == <<[op |-> "write", tag |-> tag, n |-> n, dir |-> ""]>>
Read(tag, n) == <<[op |-> "read", tag |-> tag, n |-> n, dir |-> ""]>>
Check(dir, n) == <<[op |-> "check", tag |-> "", n |-> n, dir |-> dir]>>
Get(dir, n) == <<[op |-> "get", tag |-> "", n |-> n, dir |-> dir]>>
Rot(dir, n) == <<[op |-> "rot", tag |-> "", n |-> n, dir |-> dir]>>

\* A condition on data that a function throws without.
Ensure(holds) ==
  <<[op |-> IF holds THEN "pass" ELSE "throw", tag |-> "", n |-> 1, dir |-> ""]>>

\* ROT::Sender::transfer and ROT::Receiver::transfer of Len(widths) messages.
SendTransfer(dir, tag, widths) ==
  LET n == Len(widths)
  IN  Check(dir, n) \o Read(<<tag, "swap">>, nBytes(n)) \o Get(dir, n) \o
      Write(<<tag, "out">>, nBytes(2 * Sum(widths)))

FaultyReceiveTransfer(dir, tag, widths) ==
  LET n == Len(widths)
  IN  Check(dir, n) \o Get(dir, n) \o Write(<<tag, "swap">>, nBytes(n)) \o
      Read(<<tag, "out">>, 2 * nBytes(Sum(widths)))

FaultyLateGet(dir, tag, widths) ==
  LET n == Len(widths)
  IN  Check(dir, n) \o Write(<<tag, "swap">>, nBytes(n)) \o
      Read(<<tag, "out">>, nBytes(2 * Sum(widths))) \o Get(dir, n)

ReceiveTransfer(dir, tag, widths) ==
  LET n == Len(widths)
  IN  Check(dir, n) \o Get(dir, n) \o Write(<<tag, "swap">>, nBytes(n)) \o
      Read(<<tag, "out">>, nBytes(2 * Sum(widths)))

Transfer(sends, dir, tag, widths) ==
  IF sends THEN SendTransfer(dir, tag, widths) ELSE ReceiveTransfer(dir, tag, widths)

\* The sizes j of the loop `for (j = length; j > threshold; j = ceil(log2(j + 1)))`.
Reductions(length, threshold) ==
  LET from[j \in 0..length] ==
        IF j <= threshold THEN <<>> ELSE <<j>> \o from[CeilLog2(j + 1)]
  IN  from[length]

\* What is left of `length` behind that loop.
ReducedLength(length, threshold) ==
  LET sizes == Reductions(length, threshold)
  IN  IF sizes = <<>> THEN length ELSE CeilLog2(Last(sizes) + 1)

\* EqTest::numOTs
FaultyEqTestNumOTs(length, threshold, tests) ==
  tests * Sum(Reductions(length, threshold)) + (2^threshold - 1) * tests

FaultyNoReductionOTs(length, threshold, tests) == (2^threshold - 2) * tests

EqTestNumOTs(length, threshold, tests) ==
  tests * Sum(Reductions(length, threshold)) + (2^threshold - 2) * tests

\* Swapping one message: Alice writes first and Bob reads first.
Exchange(sends, tag, n) ==
  IF sends THEN Write(<<tag, "alice">>, n) \o Read(<<tag, "bob">>, n)
           ELSE Read(<<tag, "alice">>, n) \o Write(<<tag, "bob">>, n)

\* EqTest::run, with the sizeReduction and productSharing of either side.  When
\* the reduced strings are shorter than the threshold, reduced[t][l] is out of
\* range at both: "threshold error", before alpha and beta are swapped.
EqTestRun(sends, length, threshold, tests) ==
  LET sizes == Reductions(length, threshold)
      cross == 2^threshold - 2
  IN  FlattenSeq([i \in DOMAIN sizes |->
        Transfer(sends, "sr", <<"reduce", i>>, Times(tests * sizes[i], CeilLog2(sizes[i] + 1)))]) \o
      Transfer(sends, "sr", "product", Times(tests * cross, 1)) \o
      FlattenSeq([i \in DOMAIN sizes |->
        Exchange(sends, <<"xy", i>>, nBytes(tests * sizes[i]))]) \o
      Ensure(ReducedLength(length, threshold) >= threshold) \o
      Exchange(sends, "alphabeta", nBytes(tests * cross + tests))

\* AHE::send and AHE::receive
AheSend(tag, n, compress) ==
  (IF compress THEN Write(<<tag, "key">>, KeyBits \div 8) ELSE <<>>) \o
  Write(<<tag, "points">>, PointBytes * n * (IF compress THEN 1 ELSE 2))

AheReceive(tag, n, compress) ==
  (IF compress THEN Read(<<tag, "key">>, KeyBits \div 8) ELSE <<>>) \o
  Read(<<tag, "points">>, PointBytes * n * (IF compress THEN 1 ELSE 2))

\* The messages of PPRF::send and BitPPRF::send: levels, then the leaves.
PprfWidths(n, outsize, domainsize) ==
  FlattenSeq(Times(n, Append(Times(CeilLog2(domainsize), KeyBits), outsize)))

BitPprfWidths(n, domainsize) ==
  FlattenSeq(Times(n, Append(Times(CeilLog2(domainsize) - 1, KeyBits), 2)))

\* PPRF::send looks at the size of the payload.
PprfSend(dir, tag, n, payload, outsize, domainsize) ==
  Ensure(payload = outsize) \o SendTransfer(dir, tag, PprfWidths(n, outsize, domainsize))

\* PPRF::receive takes its last choice from the one before it, by an index that
\* is out of range for a domain of one, which has no levels.
PprfReceive(dir, tag, n, outsize, domainsize) ==
  Ensure(CeilLog2(domainsize) > 0) \o
  ReceiveTransfer(dir, tag, PprfWidths(n, outsize, domainsize))

errorBits(P) == CeilLog2(P.pb)

SenderOnline(P) ==
  EqTestRun(TRUE, errorBits(P), P.threshold, P.tp) \o
  AheSend("enc_s0", P.k, TRUE) \o
  AheReceive("enc_s1", P.k, TRUE) \o
  AheSend("enc_eXas0", P.tp, FALSE) \o
  AheReceive("enc_eXas1", P.tp, FALSE) \o
  SendTransfer("sr", "eXas_eoe", BitPprfWidths(P.tp, P.pb)) \o
  ReceiveTransfer("rs", "eXas", BitPprfWidths(P.tp, P.pb)) \o
  PprfSend("sr", "eXs", P.td, P.k, P.k, P.db)

FaultyReceiverOnline(P) ==
  EqTestRun(FALSE, errorBits(P), P.threshold, P.tp) \o
  AheSend("enc_s1", P.k, TRUE) \o
  AheReceive("enc_s0", P.k, TRUE) \o
  AheReceive("enc_eXas0", P.tp, FALSE) \o
  AheSend("enc_eXas1", P.tp, FALSE) \o
  ReceiveTransfer("sr", "eXas_eoe", BitPprfWidths(P.tp, P.pb)) \o
  SendTransfer("rs", "eXas", BitPprfWidths(P.tp, P.pb)) \o
  PprfReceive("sr", "eXs", P.td, P.k, P.db)

ReceiverOnline(P) ==
  EqTestRun(FALSE, errorBits(P), P.threshold, P.tp) \o
  AheReceive("enc_s0", P.k, TRUE) \o
  AheSend("enc_s1", P.k, TRUE) \o
  AheReceive("enc_eXas0", P.tp, FALSE) \o
  AheSend("enc_eXas1", P.tp, FALSE) \o
  ReceiveTransfer("sr", "eXas_eoe", BitPprfWidths(P.tp, P.pb)) \o
  SendTransfer("rs", "eXas", BitPprfWidths(P.tp, P.pb)) \o
  PprfReceive("sr", "eXs", P.td, P.k, P.db)

\* Sender::numOTs and Receiver::numOTs: OTs sent, OTs received.
SenderNumOTs(P) ==
  [sent |-> P.td * (CeilLog2(P.db) + 1) + P.tp * CeilLog2(P.pb)
              + EqTestNumOTs(errorBits(P), P.threshold, P.tp),
   received |-> P.tp * CeilLog2(P.pb)]

ReceiverNumOTs(P) ==
  [sent |-> P.tp * CeilLog2(P.pb),
   received |-> P.td * (CeilLog2(P.db) + 1) + P.tp * CeilLog2(P.pb)
              + EqTestNumOTs(errorBits(P), P.threshold, P.tp)]

\* run() and runBoth() of main.cxx after the join.
Script(p, P) ==
  IF p = Alice
  THEN Rot("sr", SenderNumOTs(P).sent) \o Rot("rs", SenderNumOTs(P).received) \o
       SenderOnline(P)
  ELSE Rot("sr", ReceiverNumOTs(P).received) \o Rot("rs", ReceiverNumOTs(P).sent) \o
       ReceiverOnline(P)

ScriptOf == [P \in ParamSet |-> [p \in Parties |-> Script(p, P)]]

-----------------------------------------------------------------------------
script(p) == ScriptOf[params][p]

\* p's next operation is `op`.
At(p, op) ==
  /\ link[p] = "open"
  /\ pc[p] < Len(script(p))
  /\ script(p)[pc[p] + 1].op = op

Op(p) == script(p)[pc[p] + 1]

Init ==
  /\ TcpInit
  /\ params \in ParamSet
  /\ pc = [p \in Parties |-> 0]
  /\ moved = [p \in Parties |-> 0]
  /\ pool = [p \in Parties |-> [d \in Directions |-> 0]]
  /\ crashes = 0

\* One byte of the current operation is done; the operation, when it was the last.
MoveByte(p) ==
  IF moved[p] + 1 = Op(p).n
  THEN pc' = [pc EXCEPT ![p] = @ + 1] /\ moved' = [moved EXCEPT ![p] = 0]
  ELSE moved' = [moved EXCEPT ![p] = @ + 1] /\ UNCHANGED pc

Step(p) == pc' = [pc EXCEPT ![p] = @ + 1] /\ UNCHANGED moved

Fail(p) == link' = [link EXCEPT ![p] = "failed"]

\* The join of module Tcp.
Joining(p) ==
  /\ Construct(p) \/ Join(p)
  /\ UNCHANGED <<params, pc, moved, pool, crashes>>

\* The run() of either side first opens a connection of its own, asioConnect: one
\* waits in its accept and the other tries until that one is there, neither with
\* a timeout.
RotConnect ==
  /\ \A p \in Parties : At(p, "rot") /\ moved[p] = 0
  /\ Op(Alice).dir = Op(Bob).dir
  /\ moved' = [p \in Parties |-> 1]
  /\ UNCHANGED <<tcpVars, params, pc, pool, crashes>>

\* The OT extension, an external protocol of both over that connection, after
\* which each fills its pool.
RotRun ==
  /\ \A p \in Parties : At(p, "rot") /\ moved[p] = 1
  /\ Op(Alice).dir = Op(Bob).dir /\ Op(Alice).n = Op(Bob).n
  /\ pool' = [p \in Parties |-> [pool[p] EXCEPT ![Op(p).dir] = Op(p).n]]
  /\ pc' = [p \in Parties |-> pc[p] + 1]
  /\ moved' = [p \in Parties |-> 0]
  /\ UNCHANGED <<tcpVars, params, crashes>>

\* A condition on data is looked at.
LocalCheck(p) ==
  /\ \/ At(p, "pass") /\ Step(p) /\ UNCHANGED link
     \/ At(p, "throw") /\ Fail(p) /\ UNCHANGED <<pc, moved>>
  /\ UNCHANGED <<connected, accepted, slept, stream, params, pool, crashes>>

\* `remaining` is looked at before any I/O of a transfer.
CheckPool(p) ==
  /\ At(p, "check")
  /\ IF Op(p).n > pool[p][Op(p).dir]
     THEN Fail(p) /\ UNCHANGED <<pc, moved>>
     ELSE Step(p) /\ UNCHANGED link
  /\ UNCHANGED <<connected, accepted, slept, stream, params, pool, crashes>>

\* The gets of one transfer.
GetOTs(p) ==
  /\ At(p, "get")
  /\ pool' = [pool EXCEPT ![p][Op(p).dir] = @ - Op(p).n]
  /\ Step(p)
  /\ UNCHANGED <<tcpVars, params, crashes>>

\* The kernel has room for one more byte from p.
Room(p) == Len(stream[p]) < Cap

\* TCP::write: blocks while the buffer is full.  An error, which is what a
\* write to a peer that is gone ends in, is not looked at.
WriteByte(p) ==
  /\ At(p, "write")
  /\ \/ /\ Gone(Peer(p)) /\ UNCHANGED stream
     \/ /\ ~Gone(Peer(p)) /\ Room(p)
        /\ stream' = [stream EXCEPT ![p] = Append(@, <<Op(p).tag, moved[p] + 1>>)]
  /\ MoveByte(p)
  /\ UNCHANGED <<link, connected, accepted, slept, params, pool, crashes>>

\* TCP::read: blocks until a byte is there.
ReadByte(p) ==
  /\ At(p, "read")
  /\ stream[Peer(p)] # <<>>
  /\ stream' = [stream EXCEPT ![Peer(p)] = Tail(@)]
  /\ MoveByte(p)
  /\ UNCHANGED <<link, connected, accepted, slept, params, pool, crashes>>

\* boost::asio::read without an error code throws at the end of the stream.
FaultyPeerLost(p) ==
  /\ Gone(Peer(p))
  /\ At(p, "read") /\ stream[Peer(p)] = <<>>
  /\ pc' = [pc EXCEPT ![p] = @ + 1] /\ moved' = [moved EXCEPT ![p] = 0]
  /\ UNCHANGED <<tcpVars, params, pool, crashes>>

PeerLost(p) ==
  /\ Gone(Peer(p))
  /\ At(p, "read") /\ stream[Peer(p)] = <<>>
  /\ Fail(p)
  /\ UNCHANGED <<connected, accepted, slept, stream, params, pc, moved, pool, crashes>>

\* sync_wait throws when the peer goes away in the middle of the extension.
RotLost(p) ==
  /\ Gone(Peer(p))
  /\ At(p, "rot") /\ moved[p] = 1
  /\ Fail(p)
  /\ UNCHANGED <<connected, accepted, slept, stream, params, pc, moved, pool, crashes>>

\* What the missing timeout of asioConnect comes to: the other process died
\* behind the join and before the connection of this run(), so p waits for ever.
LeftAtRot(p) == At(p, "rot") /\ moved[p] = 0 /\ link[Peer(p)] = "failed"

\* channel.reset() in run(), the end of the lambda in runBoth(): the sockets
\* close; what was written stays readable for the peer.
Close(p) ==
  /\ link[p] = "open"
  /\ pc[p] = Len(script(p))
  /\ link' = [link EXCEPT ![p] = "closed"]
  /\ UNCHANGED <<connected, accepted, slept, stream, params, pc, moved, pool, crashes>>

\* The process dies, at any point; at "down" it is one that is never started.  An
\* exception of init() or prepare(), which come before run(), is one such end.
Crash(p) ==
  /\ crashes < MaxCrashes
  /\ ~Gone(p)
  /\ crashes' = crashes + 1
  /\ Fail(p)
  /\ UNCHANGED <<connected, accepted, slept, stream, params, pc, moved, pool>>

Stopped(p) == Gone(p) \/ LeftWaiting(p) \/ LeftAtRot(p)

Stop == (\A p \in Parties : Stopped(p)) /\ UNCHANGED vars

Proceed(p) ==
  \/ Joining(p) \/ LocalCheck(p) \/ CheckPool(p) \/ GetOTs(p)
  \/ WriteByte(p) \/ ReadByte(p) \/ PeerLost(p) \/ RotLost(p) \/ Close(p)

Next == RotConnect \/ RotRun \/ (\E p \in Parties : Proceed(p) \/ Crash(p)) \/ Stop

\* Two processes, or the two threads of runBoth, that run whenever they are not
\* blocked.  Nothing is assumed of crashes.
Spec ==
  /\ Init /\ [][Next]_vars
  /\ WF_vars(RotConnect) /\ WF_vars(RotRun) /\ \A p \in Parties : WF_vars(Proceed(p))

-----------------------------------------------------------------------------
\* The next operation of p that reads, from where p is.
NextRead(p) ==
  LET later == {i \in (pc[p] + 1)..Len(script(p)) : script(p)[i].op = "read"}
  IN  IF later = {} THEN 0 ELSE Min(later)

\* The first byte waiting for p is always the byte that p's next read is going
\* to take: no message is ever read as part of another, although the stream has
\* no frames and both sides compute every length on their own.
FramesAligned ==
  \A p \in Parties : stream[Peer(p)] # <<>> =>
    LET i == NextRead(p)
    IN  /\ i # 0
        /\ Head(stream[Peer(p)]) =
             <<script(p)[i].tag, IF i = pc[p] + 1 THEN moved[p] + 1 ELSE 1>>

\* A party that comes to the end leaves no random OT over on either side
\* (PCGNumOTs in test/test_pcg.cxx), and no unread byte of its peer.
NothingLeftOver ==
  \A p \in Parties : link[p] = "closed" =>
    /\ \A d \in Directions : pool[p][d] = 0
    /\ stream[Peer(p)] = <<>>

\* The parameters that the protocol is good for: the reduction of the equality
\* test does not end below its threshold, and a dual block has several positions.
Suited(P) == ReducedLength(errorBits(P), P.threshold) >= P.threshold /\ P.db > 1

\* With these, and without a crash, nothing is thrown: no "out of random ots", no
\* timeout of the join, no end of stream, in any interleaving.  With others the
\* error of the one party is never missed by the other: neither ends normally.
NoException ==
  /\ Suited(params) /\ crashes = 0 => \A p \in Parties : link[p] # "failed"
  /\ ~Suited(params) => \A p \in Parties : link[p] # "closed"

\* A party that ends normally has heard everything its peer had to say; a
\* write may be lost without notice, so this rests on the reads.
ClosedHeardAll ==
  \A p \in Parties : link[p] = "closed" =>
    \A i \in (pc[Peer(p)] + 1)..Len(script(Peer(p))) : script(Peer(p))[i].op # "write"

\* Both parties stop: the two never wait for each other, whatever the buffers
\* hold, and when one fails the other does not wait for it, with two exceptions: a
\* party in the accept of join() or in the asioConnect of run(), whose peer died
\* before it got there.  A party that is past its accept comes out of the join too,
\* by the timeout, and one that has lost its peer in the extension or in the
\* protocol is told.
BothStop == <>[](\A p \in Parties : Stopped(p))

\* When the sender of a transfer takes its random OTs, the receiver has taken
\* just those, in number and so in position, and none of a later transfer:
\* the two never pair the halves of different OTs.
SameOTs ==
  /\ At(Alice, "get") /\ Op(Alice).dir = "sr" =>
       pool[Bob]["sr"] = pool[Alice]["sr"] - Op(Alice).n
  /\ At(Bob, "get") /\ Op(Bob).dir = "rs" =>
       pool[Alice]["rs"] = pool[Bob]["rs"] - Op(Bob).n
=============================================================================
