--------------------------- MODULE PacketChannel ---------------------------
(***************************************************************************)
(* What the packet protocol between the host and the terminal              *)
(* (jerq/src/mux/proto) promises psend's callers and the receiver's        *)
(* function: each channel delivers, in each direction, the packets given   *)
(* to it once each and in the order they were given, and a buffer becomes  *)
(* free only when the packet that was in it has been delivered.  Lines,    *)
(* sequence numbers, acknowledgements and timeouts do not appear here.     *)
(***************************************************************************)
EXTENDS Naturals, Sequences

CONSTANTS Ends,         \* the host and the terminal
          Channels,
          Other(_),     \* the end at the other side
          Buffers       \* packets a channel holds in one direction

VARIABLES sent,         \* number of packets given to psend
          got,          \* numbers of the packets delivered, in order
          credit        \* number of free buffers

channelVars == <<sent, got, credit>>

ChannelInit ==
  /\ sent = [e \in Ends |-> [c \in Channels |-> 0]]
  /\ got = [e \in Ends |-> [c \in Channels |-> <<>>]]
  /\ credit = [e \in Ends |-> [c \in Channels |-> Buffers]]

Give(e, c) ==
  /\ credit[e][c] > 0
  /\ credit' = [credit EXCEPT ![e][c] = @ - 1]
  /\ sent' = [sent EXCEPT ![e][c] = @ + 1]
  /\ UNCHANGED got

Deliver(e, c) ==
  LET n == Len(got[e][c]) + 1
  IN  /\ n <= sent[Other(e)][c]
      /\ got' = [got EXCEPT ![e][c] = Append(@, n)]
      /\ UNCHANGED <<sent, credit>>

\* Some of the packets delivered give their buffers back.
GiveBack(e, c) ==
  /\ \E k \in 1..Buffers :
        /\ credit[e][c] + k + (sent[e][c] - Len(got[Other(e)][c])) <= Buffers
        /\ credit' = [credit EXCEPT ![e][c] = @ + k]
  /\ UNCHANGED <<sent, got>>

ChannelNext ==
  \E e \in Ends, c \in Channels : Give(e, c) \/ Deliver(e, c) \/ GiveBack(e, c)

ChannelFairness ==
  \A e \in Ends, c \in Channels :
     WF_channelVars(Deliver(e, c)) /\ WF_channelVars(GiveBack(e, c))

ChannelSafety == ChannelInit /\ [][ChannelNext]_channelVars
ChannelSpec == ChannelSafety /\ ChannelFairness
=============================================================================
