---------------------------- MODULE PacketProto ----------------------------
(***************************************************************************)
(* The packet protocol between the mux program on the host and the         *)
(* terminal: jerq/src/mux/proto (psend.c, precv.c, ptimeout.c, pinit.c).   *)
(* Both ends run the same code.  Every channel has, at each end, two       *)
(* packet buffers (a window of two), sequence numbers modulo four, and     *)
(* timers that ptimeout counts down.  The line between the ends keeps the  *)
(* order of frames, but loses, damages and truncates them.                 *)
(*                                                                         *)
(* A packet's data is its number among the packets of its channel; the     *)
(* check sum is taken to find all damage.  Control data (one byte that     *)
(* rides on an acknowledgement) is a number, 0 when there is none.         *)
(***************************************************************************)
EXTENDS Naturals, Sequences, FiniteSets

CONSTANTS NChannels,    \* channels in use: 0 .. NChannels-1
          Pxtimeout,    \* transmit timeout, in scans of ptimeout
          Prtimeout,    \* receive timeout, in scans of ptimeout
          CData,        \* the control data receivers return
          MaxMsgs,      \* bound: packets each end sends on a channel
          MaxFlight     \* bound: frames on the lines when a timer runs out

Ends == {"host", "term"}
Other(e) == IF e = "host" THEN "term" ELSE "host"
NPCBUFS == 2
SEQMOD == 4
Channels == 0..(NChannels - 1)
Bufs == 0..(NPCBUFS - 1)
Seqs == 0..(SEQMOD - 1)

ASSUME PacketConstantsOK ==
  /\ NChannels \in Nat \ {0}
  /\ Pxtimeout \in Nat \ {0} /\ Prtimeout \in Nat \ {0}
  /\ CData \subseteq Nat /\ 0 \in CData
  /\ MaxMsgs \in [Ends -> Nat] /\ MaxFlight \in Nat

VARIABLES
  pconvs,     \* the conversations of each end
  line,       \* the frames on their way from each end
  precvpkt,   \* the receiver: whether it is inside a packet, and its timer
  Ptflag,     \* whether the alarm is set
  trouble,    \* whether the line loses frames and receivers refuse packets
  sent,       \* history: number of packets psend has taken
  got         \* history: the packets given to the receiver's function

packetVars == <<pconvs, line, precvpkt, Ptflag, trouble, sent, got>>

Pktstate == [state : {"NULL", "WAIT", "OK"}, timo : 0..Pxtimeout,
             seq : Seqs, data : Nat]
Pchannel == [pkts : [Bufs -> Pktstate], nextpkt : Bufs, cdata : [Seqs -> CData],
             rseq : Seqs, xseq : Seqs, freepkts : 0..NPCBUFS]
Frame == [kind : {"data", "ack", "nak", "stub"}, chan : Channels, seq : Seqs,
          data : Nat]

PacketTypeOK ==
  /\ pconvs \in [Ends -> [Channels -> Pchannel]]
  /\ line \in [Ends -> Seq(Frame)]
  /\ precvpkt \in [Ends -> [inside : BOOLEAN, timo : 0..Prtimeout]]
  /\ Ptflag \in [Ends -> BOOLEAN]
  /\ trouble \in BOOLEAN
  /\ sent \in [Ends -> [Channels -> Nat]]
  /\ got \in [Ends -> [Channels -> Seq(Nat)]]

pinit ==
  [pkts |-> [i \in Bufs |-> [state |-> "NULL", timo |-> 0, seq |-> 0, data |-> 0]],
   nextpkt |-> 0, cdata |-> [s \in Seqs |-> 0], rseq |-> 0, xseq |-> 0,
   freepkts |-> NPCBUFS]

PacketInit ==
  /\ pconvs = [e \in Ends |-> [c \in Channels |-> pinit]]
  /\ line = [e \in Ends |-> <<>>]
  /\ precvpkt = [e \in Ends |-> [inside |-> FALSE, timo |-> 0]]
  /\ Ptflag = [e \in Ends |-> FALSE]
  /\ trouble \in BOOLEAN
  /\ sent = [e \in Ends |-> [c \in Channels |-> 0]]
  /\ got = [e \in Ends |-> [c \in Channels |-> <<>>]]

-----------------------------------------------------------------------------
(* Buffers.  Scans of a channel's buffers begin at nextpkt and go round.   *)

Nth(p, k) == (p.nextpkt + k) % NPCBUFS
Free(p) == {i \in Bufs : p.pkts[i].state # "WAIT"}
FirstFree(p) ==
  Nth(p, CHOOSE k \in Bufs : /\ Nth(p, k) \in Free(p)
                             /\ \A j \in 0..(k - 1) : Nth(p, j) \notin Free(p))

DataFrame(c, pkt) ==
  [kind |-> "data", chan |-> c, seq |-> pkt.seq, data |-> pkt.data]
Flight == Len(line["host"]) + Len(line["term"])

NextSeq(s) == (s + 1) % SEQMOD

-----------------------------------------------------------------------------
(* psend                                                                   *)

psend(e, c) ==
  LET p == pconvs[e][c]
      pkt == [state |-> "WAIT", timo |-> Pxtimeout, seq |-> p.xseq,
              data |-> sent[e][c] + 1]
  IN  /\ Free(p) # {}
      /\ pconvs' = [pconvs EXCEPT ![e][c] = [p EXCEPT
           !.pkts[FirstFree(p)] = pkt,
           !.freepkts = Cardinality(Free(p)) - 1,
           !.xseq = NextSeq(@)]]
      /\ Ptflag' = [Ptflag EXCEPT ![e] = TRUE]
      /\ line' = [line EXCEPT ![e] = Append(@, DataFrame(c, pkt))]
      /\ sent' = [sent EXCEPT ![e][c] = @ + 1]
      /\ UNCHANGED <<precvpkt, trouble, got>>

\* Every buffer waits for its acknowledgement: psend returns -1.
psendFull(e, c) ==
  /\ Free(pconvs[e][c]) = {}
  /\ pconvs' = [pconvs EXCEPT ![e][c].freepkts = 0]
  /\ UNCHANGED <<line, precvpkt, Ptflag, trouble, sent, got>>

-----------------------------------------------------------------------------
(* precv: one frame.  The line takes a frame away whole (lost, or damaged  *)
(* in a way the check sum or the header shows) or cuts it short.           *)

Lose(e) ==
  /\ trouble /\ line[e] # <<>>
  /\ line' = [line EXCEPT ![e] = Tail(@)]
  /\ UNCHANGED <<pconvs, precvpkt, Ptflag, trouble, sent, got>>

Truncate(e) ==
  /\ trouble /\ line[e] # <<>> /\ Head(line[e]).kind # "stub"
  /\ line' = [line EXCEPT ![e][1].kind = "stub"]
  /\ UNCHANGED <<pconvs, precvpkt, Ptflag, trouble, sent, got>>

\* The frame at e's receiver, when it is not in the middle of another one.
Arrived(e, kinds) ==
  /\ line[Other(e)] # <<>> /\ ~precvpkt[e].inside
  /\ Head(line[Other(e)]).kind \in kinds
Incoming(e) == Head(line[Other(e)])

\* The packet complete, Timo is zero, but the alarm has been set for it.
EndPacket(e) == Ptflag' = [Ptflag EXCEPT ![e] = TRUE] /\ UNCHANGED precvpkt

\* Reply, and the frame it answers taken from the line.
Reply(e, kind, cd) ==
  line' = [line EXCEPT ![Other(e)] = Tail(@),
                       ![e] = Append(@, [kind |-> kind, chan |-> Incoming(e).chan,
                                         seq |-> Incoming(e).seq, data |-> cd])]

\* The packet expected next: the receiver's function takes it, and may
\* return control data.
Accept(e, cd) ==
  LET f == Incoming(e)
      p == pconvs[e][f.chan]
  IN  /\ Arrived(e, {"data"}) /\ f.seq = p.rseq
      /\ got' = [got EXCEPT ![e][f.chan] = Append(@, f.data)]
      /\ pconvs' = [pconvs EXCEPT ![e][f.chan] =
             [p EXCEPT !.rseq = NextSeq(@), !.cdata[f.seq] = cd]]
      /\ Reply(e, "ack", cd)
      /\ EndPacket(e)
      /\ UNCHANGED <<trouble, sent>>

\* The receiver's function refuses it ("busy").
Refuse(e) ==
  /\ Flight < MaxFlight
  /\ Arrived(e, {"data"}) /\ Incoming(e).seq = pconvs[e][Incoming(e).chan].rseq
  /\ Reply(e, "nak", 0)
  /\ EndPacket(e)
  /\ UNCHANGED <<pconvs, trouble, sent, got>>

\* Mutant: every packet out of sequence is taken for a retransmission.
Retry_Always(p, seq) == TRUE

\* One of the last NPCBUFS packets accepted.
Retry(p, seq) == \E k \in 1..NPCBUFS : seq = (p.rseq + SEQMOD - k) % SEQMOD

\* Not the one expected: acknowledged again if it is a retransmission.
OutOfOrder(e) ==
  LET f == Incoming(e)
      p == pconvs[e][f.chan]
  IN  /\ Arrived(e, {"data"}) /\ f.seq # p.rseq
      /\ IF Retry(p, f.seq) THEN Reply(e, "ack", p.cdata[f.seq])
                            ELSE Reply(e, "nak", 0)
      /\ EndPacket(e)
      /\ UNCHANGED <<pconvs, trouble, sent, got>>

\* Control's scan of the buffers for the NPCBUFS sequence numbers that end with seq:
\* how far it goes, and the waiting packets it finds.  Its step for the k-th number:
ScanStep(p, seq, k, s) ==
  LET i == Nth(p, s.at)
  IN  IF (seq + SEQMOD - NPCBUFS + k) % SEQMOD # p.pkts[i].seq THEN s
      ELSE [at |-> s.at + 1,
            hit |-> IF p.pkts[i].state = "WAIT" THEN Append(s.hit, i) ELSE s.hit]
\* All of it: NPCBUFS steps.
Scan(p, seq) == ScanStep(p, seq, 2, ScanStep(p, seq, 1, [at |-> 0, hit |-> <<>>]))
Hits(s) == {s.hit[k] : k \in 1..Len(s.hit)}

\* Mutant: one buffer is counted free however many are.
Released_CountOne(p, s) ==
  [p EXCEPT !.pkts = [i \in Bufs |-> IF i \notin Hits(s) THEN @[i]
                        ELSE [@[i] EXCEPT !.state = "OK", !.timo = 0]],
            !.nextpkt = Nth(p, s.at), !.freepkts = @ + 1]
Released(p, s) ==
  [p EXCEPT !.pkts = [i \in Bufs |-> IF i \notin Hits(s) THEN @[i]
                        ELSE [@[i] EXCEPT !.state = "OK", !.timo = 0]],
            !.nextpkt = Nth(p, s.at), !.freepkts = @ + Len(s.hit)]

\* Control, for an ACK: this and all lesser sequenced packets are ok.
Acked(e) ==
  LET f == Incoming(e)
      s == Scan(pconvs[e][f.chan], f.seq)
  IN  /\ Arrived(e, {"ack"})
      /\ line' = [line EXCEPT ![Other(e)] = Tail(@)]
      /\ IF Hits(s) = {} THEN UNCHANGED pconvs
         ELSE pconvs' = [pconvs EXCEPT ![e][f.chan] = Released(@, s)]
      /\ EndPacket(e)
      /\ UNCHANGED <<trouble, sent, got>>

\* Control, for a NAK: this and all lesser sequenced packets are sent again.
Naked(e) ==
  LET f == Incoming(e)
      p == pconvs[e][f.chan]
      hit == Scan(p, f.seq).hit
  IN  /\ Arrived(e, {"nak"})
      /\ pconvs' = [pconvs EXCEPT ![e][f.chan].pkts = [i \in Bufs |->
             IF i \in Hits(Scan(p, f.seq))
             THEN [@[i] EXCEPT !.timo = Pxtimeout] ELSE @[i]]]
      /\ line' = [line EXCEPT ![Other(e)] = Tail(@),
             ![e] = @ \o [k \in 1..Len(hit) |-> DataFrame(f.chan, p.pkts[hit[k]])]]
      /\ EndPacket(e)
      /\ UNCHANGED <<trouble, sent, got>>

\* A frame cut short leaves the receiver inside a packet; the bytes of the
\* next one complete it, its check sum is wrong, and what is left of the
\* next one may again look like the beginning of a packet.
Swallow(e) ==
  /\ line[Other(e)] # <<>>
  /\ line' = [line EXCEPT ![Other(e)] = Tail(@)]
  /\ Ptflag' = [Ptflag EXCEPT ![e] = TRUE]
  /\ \/ /\ Arrived(e, {"stub"})
        /\ precvpkt' = [precvpkt EXCEPT ![e] = [inside |-> TRUE, timo |-> Prtimeout]]
     \/ /\ precvpkt[e].inside
        /\ \E r \in {[inside |-> FALSE, timo |-> 0], precvpkt[e],
                    [inside |-> TRUE, timo |-> Prtimeout]} :
              /\ trouble \/ ~r.inside
              /\ precvpkt' = [precvpkt EXCEPT ![e] = r]
  /\ UNCHANGED <<pconvs, trouble, sent, got>>

-----------------------------------------------------------------------------
(* ptimeout: one scan.  Buffers are visited channel by channel; the first  *)
(* whose time is out is sent again, and the scan ends there                *)
(* (MAXTIMORETRYS is 1).                                                   *)

\* A timer was running when the scan came to it.
AlarmAgain(e) ==
  \/ precvpkt[e].timo > 0
  \/ \E c \in Channels, i \in Bufs : pconvs[e][c].pkts[i].timo > 0

ptimeout(e) ==
  LET At(n) == [chan |-> n \div NPCBUFS,
                buf |-> Nth(pconvs[e][n \div NPCBUFS], n % NPCBUFS)]
      Timo(n) == pconvs[e][At(n).chan].pkts[At(n).buf].timo
      Places == 0..(NChannels * NPCBUFS - 1)
      Out == {n \in Places : Timo(n) = 1}
      Last == IF Out = {} THEN NChannels * NPCBUFS
              ELSE CHOOSE n \in Out : \A m \in Out : n <= m
      Seen(c, i) == \E n \in Places : /\ n < Last /\ Timo(n) > 0
                                      /\ At(n) = [chan |-> c, buf |-> i]
      Hit(c, i) == Out # {} /\ At(Last) = [chan |-> c, buf |-> i]
      Left(c, i) == IF Hit(c, i) THEN Pxtimeout
                    ELSE IF Seen(c, i) THEN pconvs[e][c].pkts[i].timo - 1
                    ELSE pconvs[e][c].pkts[i].timo
  IN  /\ Ptflag[e]
      /\ pconvs' = [pconvs EXCEPT ![e] = [c \in Channels |-> [pconvs[e][c] EXCEPT
             !.pkts = [i \in Bufs |-> [@[i] EXCEPT !.timo = Left(c, i)]]]]]
      /\ IF Out = {} THEN UNCHANGED line
         ELSE /\ Flight < MaxFlight
              /\ line' = [line EXCEPT ![e] = Append(@, DataFrame(At(Last).chan,
                       pconvs[e][At(Last).chan].pkts[At(Last).buf]))]
      /\ precvpkt' = [precvpkt EXCEPT ![e] =
             IF @.timo = 0 THEN @
             ELSE [inside |-> @.inside /\ @.timo > 1, timo |-> @.timo - 1]]
      /\ Ptflag' = [Ptflag EXCEPT ![e] = AlarmAgain(e)]
      /\ UNCHANGED <<trouble, sent, got>>

-----------------------------------------------------------------------------
Receive(e) ==
  \/ \E cd \in CData : Accept(e, cd)
  \/ trouble /\ Refuse(e)
  \/ OutOfOrder(e) \/ Acked(e) \/ Naked(e) \/ Swallow(e)

Transmit(e) ==
  \E c \in Channels : sent[e][c] < MaxMsgs[e] /\ (psend(e, c) \/ psendFull(e, c))

Calm == trouble /\ trouble' = FALSE
        /\ UNCHANGED <<pconvs, line, precvpkt, Ptflag, sent, got>>

PacketNext ==
  \/ \E e \in Ends : \/ Transmit(e) \/ Receive(e) \/ ptimeout(e)
                     \/ Lose(e) \/ Truncate(e)
  \/ Calm

PacketSpec == PacketInit /\ [][PacketNext]_packetVars

(* The line moves and the alarm comes; the trouble is over one day.        *)
PacketFairness ==
  /\ \A e \in Ends : WF_packetVars(Receive(e)) /\ WF_packetVars(ptimeout(e))
  /\ WF_packetVars(Calm)
FairPacketSpec == PacketSpec /\ PacketFairness

-----------------------------------------------------------------------------
(* Properties                                                              *)

\* freepkts, which mux reads to decide whether a layer may send, is the
\* number of buffers that do not wait, whatever was lost or repeated.
FreeExact ==
  \A e \in Ends, c \in Channels :
     pconvs[e][c].freepkts = Cardinality(Free(pconvs[e][c]))

\* Each channel is the channel of PacketChannel: exactly once, in order, a
\* buffer free only after delivery, and everything delivered eventually.
Channel == INSTANCE PacketChannel WITH
  Buffers <- NPCBUFS,
  credit <- [e \in Ends |-> [c \in Channels |-> pconvs[e][c].freepkts]]
IsChannel == Channel!ChannelSpec
=============================================================================
