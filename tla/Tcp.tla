-------------------------------- MODULE Tcp --------------------------------
(***************************************************************************)
(* The channel between the two parties, class TCP of                       *)
(* include/util/defines.hpp.  Each party listens from its constructor on,  *)
(* and join() makes two connections: it connects its `client` socket to    *)
(* the other party and accepts the other's connection on `server`.  All    *)
(* that a party writes goes out on `client`, all that it reads comes in on *)
(* `server`, so the two directions are two separate byte streams.          *)
(***************************************************************************)
EXTENDS Naturals, Sequences

CONSTANTS
  Alice, Bob,     \* the process of PCG::Sender and that of PCG::Receiver
  Cap,            \* bytes the kernel buffers in one direction
  COMM_SLEEP,     \* wait between two attempts to connect
  COMM_TIMEOUT    \* waiting longer than this is to be given up

Parties == {Alice, Bob}
Peer(p) == IF p = Alice THEN Bob ELSE Alice

ASSUME TcpAssumption ==
  /\ Alice # Bob
  /\ Cap \in Nat \ {0}
  /\ COMM_SLEEP \in Nat \ {0} /\ COMM_TIMEOUT \in Nat

VARIABLES
  link,       \* link[p]: where p is between its start and its end
  connected,  \* local variables of p's join()
  accepted,
  slept,
  stream      \* stream[p]: bytes written by p that its peer has not read

tcpVars == <<link, connected, accepted, slept, stream>>

(* "down"       the process has not made its channel                       *)
(* "connecting" at the top of join()'s loop                                *)
(* "accepting"  blocked in acceptor.accept                                 *)
(* "open"       joined; the protocol runs                                  *)
(* "closed"     the channel was destroyed at the end of the protocol       *)
(* "failed"     an exception or a crash ended the process                  *)
LinkStates == {"down", "connecting", "accepting", "open", "closed", "failed"}

Listening(p) == link[p] \in {"connecting", "accepting", "open"}
Gone(p) == link[p] \in {"closed", "failed"}

TcpInit ==
  /\ link = [p \in Parties |-> "down"]
  /\ connected = [p \in Parties |-> FALSE]
  /\ accepted = [p \in Parties |-> FALSE]
  /\ slept = [p \in Parties |-> 0]
  /\ stream = [p \in Parties |-> <<>>]

\* The constructor opens the acceptor; join() is called next.
Construct(p) ==
  /\ link[p] = "down"
  /\ link' = [link EXCEPT ![p] = "connecting"]
  /\ UNCHANGED <<connected, accepted, slept, stream>>

\* After the connect of one turn of the loop: accept if that is not done yet,
\* else the loop's condition decides.
AfterConnect(isConnected, isAccepted) ==
  IF ~isAccepted THEN "accepting"
  ELSE IF isConnected THEN "open" ELSE "connecting"

Connect(p) ==
  /\ link[p] = "connecting"
  /\ ~connected[p]
  /\ Listening(Peer(p))
  /\ connected' = [connected EXCEPT ![p] = TRUE]
  /\ link' = [link EXCEPT ![p] = AfterConnect(TRUE, accepted[p])]
  /\ UNCHANGED <<accepted, slept, stream>>

FaultyConnectRefused(p) ==
  /\ link[p] = "connecting"
  /\ ~connected[p]
  /\ ~Listening(Peer(p))
  /\ link' = [link EXCEPT ![p] = AfterConnect(FALSE, accepted[p])]
  /\ UNCHANGED <<connected, accepted, slept, stream>>

\* boost::asio::connect threw: sleep, or give up when that was done enough.
ConnectRefused(p) ==
  /\ link[p] = "connecting"
  /\ ~connected[p]
  /\ ~Listening(Peer(p))
  /\ IF slept[p] > COMM_TIMEOUT
     THEN /\ link' = [link EXCEPT ![p] = "failed"]
          /\ UNCHANGED slept
     ELSE /\ link' = [link EXCEPT ![p] = AfterConnect(FALSE, accepted[p])]
          /\ slept' = [slept EXCEPT ![p] = @ + COMM_SLEEP]
  /\ UNCHANGED <<connected, accepted, stream>>

\* acceptor.accept returns once the peer has connected; there is no timeout,
\* and its error code is not looked at.
AfterAccept(isConnected) == IF isConnected THEN "open" ELSE "connecting"

Accept(p) ==
  /\ link[p] = "accepting"
  /\ connected[Peer(p)]
  /\ accepted' = [accepted EXCEPT ![p] = TRUE]
  /\ link' = [link EXCEPT ![p] = AfterAccept(connected[p])]
  /\ UNCHANGED <<connected, slept, stream>>

Join(p) == Connect(p) \/ ConnectRefused(p) \/ Accept(p)

\* What the missing timeout of accept comes to: the other process died before it
\* connected (or was never started), and p waits in accept for ever.
LeftWaiting(p) ==
  /\ link[p] = "accepting"
  /\ link[Peer(p)] = "failed" /\ ~connected[Peer(p)]
=============================================================================
