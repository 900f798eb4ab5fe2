-------------------------------- MODULE Rot --------------------------------
(***************************************************************************)
(* ROT::Sender and ROT::Receiver (src/pkg/rot.cxx, include/pkg/rot.hpp):   *)
(* two pools of precomputed random OTs, each with its own cursor, that are *)
(* turned into chosen-message OTs by `transfer`.                           *)
(*                                                                         *)
(* The pool filled by run() is external (libOTe): OT i gives the sender    *)
(* two random blocks and the receiver a random choice bit b[i] and the     *)
(* block it selects.  Bits are symbolic (module Gf2): a block is a         *)
(* sequence of unknowns, so a delivery that is right here is right for     *)
(* every value of the pads and of the messages.                            *)
(*                                                                         *)
(* A channel is a flat sequence of bits in each direction, as the TCP      *)
(* stream is; the padding of each message to whole bytes, the same on both *)
(* sides, is left out.                                                     *)
(*                                                                         *)
(* An operator Faulty<Name> is a seeded fault: what <Name> would be after  *)
(* a plausible slip.  Nothing here uses it; with it in place of <Name> one *)
(* of the properties below fails (PROJECT.json, "mutants").                *)
(***************************************************************************)
EXTENDS Naturals, Sequences, SequencesExt, Gf2

CONSTANTS
  NumOTs,       \* random OTs that run() put in each pool
  ElementSize,  \* Base::DEFAULT_ELEMENT_SIZE, the bits of one random block
  MaxCalls,     \* transfers made with the pools, at most
  Shapes        \* [form, widths] of a call; both parties know it

ASSUME SizesAssumption == NumOTs \in Nat /\ ElementSize \in Nat /\ MaxCalls \in Nat

ASSUME ShapesAssumption ==
  \A s \in Shapes :
    /\ s.form \in {"bits", "same", "mixed"}
    /\ s.widths \in Seq(Nat \ {0})
    /\ s.form = "bits" => \A k \in DOMAIN s.widths : s.widths[k] = 1
    /\ s.form = "same" => \A j, k \in DOMAIN s.widths : s.widths[j] = s.widths[k]

VARIABLES
  plan,        \* the calls that the protocol above makes, in order
  b,           \* the receiver's random choice bits
  sfirst,      \* *first of the sender's pool; *last is NumOTs
  rfirst,      \* *first of the receiver's pool; *last is NumOTs
  sstate,      \* "ready" or "failed" (an exception left transfer)
  rstate,      \* "ready", "waiting" for the answer, or "failed"
  sdone,       \* calls the sender completed
  choices,     \* the choices of the receiver's current call
  reserved,    \* the random OTs the receiver took for it
  delivered,   \* what each of the receiver's completed calls returned
  chosen,      \* the choices of those calls (history)
  toSender, toReceiver

vars == <<plan, b, sfirst, rfirst, sstate, rstate, sdone, choices, reserved,
          delivered, chosen, toSender, toReceiver>>

-----------------------------------------------------------------------------
\* The sender's input for branch c of transfer k of a call.
Message(call, k, c, width) == [p \in 1..width |-> {<<"m", call, k, c, p>>}]

\* get(size): the block of OT i, branch m, cut or stretched to `size` bits.
\* BitString::aes maps the whole block to fresh pseudorandom bits.
Block(i, m, size) ==
  [p \in 1..size |-> {<<(IF size > ElementSize THEN "aes" ELSE "r"), i, m, p>>}]

PoolRemaining(first) == NumOTs - first

\* The check both transfers make before any I/O.
Enough(n, first) == n <= PoolRemaining(first)

\* What the receiver sends: does the random choice differ from the real one?
Swap(bit, choice) == (bit + choice) % 2

\* The branch of the random OT that pads message c.
FaultyPadBranch(c, swap) == c
PadBranch(c, swap) == (c + swap) % 2

\* The cursor after the gets of a call.
FaultyAdvance(first, n) == first + 1
Advance(first, n) == first + n

\* The bits before transfer k's pair in the multi-bit layout.
Offset(widths, k) == 2 * FoldLeft(+, 0, SubSeq(widths, 1, k - 1))

\* The sender's `outgoing`: m0 then m1 of each transfer, or for single-bit
\* messages all of the m0 and then all of the m1.
Layout(form, m0, m1) ==
  IF form = "bits"
  THEN FlattenSeq(m0) \o FlattenSeq(m1)
  ELSE FlattenSeq([k \in DOMAIN m0 |-> m0[k] \o m1[k]])

\* The receiver's slice of `incoming` for transfer k and its choice.  With one
\* size for all, the code steps j by 2 * mbits instead of summing the sizes; a
\* step of mbits is right for the first transfer of a call only.
FaultySlice(form, incoming, widths, k, c) ==
  LET n == Len(widths)
      w == widths[k]
      from == CASE form = "bits"  -> c * n + (k - 1)
                [] form = "same"  -> (k - 1) * w + c * w
                [] form = "mixed" -> Offset(widths, k) + c * w
  IN  SubSeq(incoming, from + 1, from + w)

Slice(form, incoming, widths, k, c) ==
  LET n == Len(widths)
      w == widths[k]
      from == CASE form = "bits"  -> c * n + (k - 1)
                [] form = "same"  -> (k - 1) * 2 * w + c * w
                [] form = "mixed" -> Offset(widths, k) + c * w
  IN  SubSeq(incoming, from + 1, from + w)

-----------------------------------------------------------------------------
Init ==
  /\ plan \in [1..MaxCalls -> Shapes]
  /\ b \in [0..(NumOTs - 1) -> {0, 1}]
  /\ sfirst = 0 /\ rfirst = 0
  /\ sstate = "ready" /\ rstate = "ready"
  /\ sdone = 0
  /\ choices = <<>> /\ reserved = <<>>
  /\ delivered = <<>> /\ chosen = <<>>
  /\ toSender = <<>> /\ toReceiver = <<>>

receiverCall == Len(delivered) + 1
senderCall == sdone + 1

\* Receiver::transfer up to its channel->write: take an OT per choice, in
\* order, and send which of them have to be swapped.
ReceiverAsk ==
  /\ rstate = "ready"
  /\ receiverCall <= MaxCalls
  /\ LET widths == plan[receiverCall].widths
         n == Len(widths)
     IN  /\ Enough(n, rfirst)
         /\ choices' \in [1..n -> {0, 1}]
         /\ reserved' = [k \in 1..n |->
              [bit |-> b[rfirst + k - 1],
               mb |-> Block(rfirst + k - 1, b[rfirst + k - 1], widths[k])]]
         /\ toSender' = toSender \o
              [k \in 1..n |-> Swap(reserved'[k].bit, choices'[k])]
         /\ rfirst' = rfirst + n
  /\ rstate' = "waiting"
  /\ UNCHANGED <<plan, b, sfirst, sstate, sdone, delivered, chosen, toReceiver>>

ReceiverOutOfOTs ==
  /\ rstate = "ready"
  /\ receiverCall <= MaxCalls
  /\ ~Enough(Len(plan[receiverCall].widths), rfirst)
  /\ rstate' = "failed"
  /\ UNCHANGED <<plan, b, sfirst, rfirst, sstate, sdone, choices, reserved,
                 delivered, chosen, toSender, toReceiver>>

FaultySenderEnough(n) == n < PoolRemaining(sfirst)
SenderEnough(n) == Enough(n, sfirst)

\* Sender::transfer: the read blocks until the swap bits are there.
SenderTransfer ==
  /\ sstate = "ready"
  /\ senderCall <= MaxCalls
  /\ LET shape == plan[senderCall]
         n == Len(shape.widths)
         w == shape.widths
         swap == SubSeq(toSender, 1, n)
         Masked(k, c) ==
           XorSeq(Message(senderCall, k, c, w[k]),
                  Block(sfirst + k - 1, PadBranch(c, swap[k]), w[k]))
     IN  /\ SenderEnough(n)
         /\ Len(toSender) >= n
         /\ toSender' = SubSeq(toSender, n + 1, Len(toSender))
         /\ sfirst' = Advance(sfirst, n)
         /\ toReceiver' = toReceiver \o
              Layout(shape.form, [k \in 1..n |-> Masked(k, 0)],
                                 [k \in 1..n |-> Masked(k, 1)])
  /\ sdone' = sdone + 1
  /\ UNCHANGED <<plan, b, rfirst, sstate, rstate, choices, reserved, delivered, chosen>>

SenderOutOfOTs ==
  /\ sstate = "ready"
  /\ senderCall <= MaxCalls
  /\ ~SenderEnough(Len(plan[senderCall].widths))
  /\ sstate' = "failed"
  /\ UNCHANGED <<plan, b, sfirst, rfirst, rstate, sdone, choices, reserved,
                 delivered, chosen, toSender, toReceiver>>

\* Receiver::transfer from its channel->read on.
ReceiverOpen ==
  /\ rstate = "waiting"
  /\ LET shape == plan[receiverCall]
         n == Len(shape.widths)
         total == Offset(shape.widths, n + 1)
         incoming == SubSeq(toReceiver, 1, total)
     IN  /\ Len(toReceiver) >= total
         /\ toReceiver' = SubSeq(toReceiver, total + 1, Len(toReceiver))
         /\ delivered' = Append(delivered, [k \in 1..n |->
              XorSeq(Slice(shape.form, incoming, shape.widths, k, choices[k]),
                     reserved[k].mb)])
  /\ chosen' = Append(chosen, choices)
  /\ choices' = <<>> /\ reserved' = <<>>
  /\ rstate' = "ready"
  /\ UNCHANGED <<plan, b, sfirst, rfirst, sstate, sdone, toSender>>

Stopped(state, call) == state = "failed" \/ (state = "ready" /\ call > MaxCalls)

Stop ==
  /\ Stopped(rstate, receiverCall)
  /\ Stopped(sstate, senderCall)
  /\ UNCHANGED vars

SenderNext == SenderTransfer \/ SenderOutOfOTs
ReceiverNext == ReceiverAsk \/ ReceiverOutOfOTs \/ ReceiverOpen

Next == SenderNext \/ ReceiverNext \/ Stop

\* Each party is a thread of its own that runs until it blocks or returns.
Spec == Init /\ [][Next]_vars /\ WF_vars(SenderNext) /\ WF_vars(ReceiverNext)

-----------------------------------------------------------------------------
\* A call returns, for each transfer, the sender's message of the chosen
\* branch: the swap bits, the order in which both cursors advance and the
\* layout of `outgoing` all agree (Sender::transfer against the three
\* Receiver::transfer overloads).
ChosenMessage ==
  \A i \in DOMAIN delivered : \A k \in DOMAIN delivered[i] :
    delivered[i][k] = Message(i, k, chosen[i][k], plan[i].widths[k])

\* Between calls the two pools stand at the same OT and the channel is empty:
\* a byte or an OT left over would shift every later call.
PoolsAligned ==
  (rstate = "ready" /\ sdone = Len(delivered)) =>
    /\ sfirst = rfirst
    /\ toSender = <<>> /\ toReceiver = <<>>

\* Both parties come to the end of the plan, or both throw in the same call:
\* both check `remaining` before any I/O of the call, so the receiver is never
\* left waiting for the answer of a sender that threw.
BothStop ==
  <>[]/\ Stopped(rstate, receiverCall) /\ Stopped(sstate, senderCall)
      /\ (rstate = "failed") <=> (sstate = "failed")
      /\ sdone = Len(delivered)

\* The ideal transfers that the pools implement: a call happens when the
\* receiver opens the answer, and is refused when the receiver throws.
Ideal == INSTANCE ObliviousTransfer WITH
  Total <- NumOTs,
  left <- IF rstate = "waiting" THEN NumOTs - rfirst + Len(choices)
                                ELSE NumOTs - rfirst,
  refused <- rstate = "failed"

\* Every behaviour of the two pools and the channel is one of the ideal
\* transfers, and the transfers it promises do happen.
ImplementsIdeal == Ideal!Spec
=============================================================================
