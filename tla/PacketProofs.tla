---------------------------- MODULE PacketProofs ----------------------------
(***************************************************************************)
(* For any number of channels, any timeouts and any control data, the      *)
(* packet protocol is type correct, and freepkts is at every moment the    *)
(* number of packet buffers that do not wait for an acknowledgement; and,  *)
(* in the second part, it implements the channel of PacketChannel.         *)
(*                                                                         *)
(* The first argument is local to a conversation: Good is kept by changes  *)
(* that psend, Control and ptimeout make to one, and every action changes  *)
(* the conversations of one end only.                                      *)
(***************************************************************************)
EXTENDS PacketProto, FiniteSetTheorems, WellFoundedInduction, SequenceTheorems, Integers, TLAPS

USE PacketConstantsOK DEF PacketConstantsOK

-----------------------------------------------------------------------------
(* One conversation.                                                       *)

Good(p) == p \in Pchannel /\ p.freepkts = Cardinality(Free(p))
Waits(p, i) == IF p.pkts[i].state = "WAIT" THEN 1 ELSE 0

\* The scans of the two buffers.
LEMMA TwoBuffers ==
  /\ NPCBUFS = 2 /\ Bufs = {0, 1} /\ SEQMOD = 4 /\ Seqs = {0, 1, 2, 3}
  /\ \A s \in Seqs : NextSeq(s) \in Seqs
  /\ \A p \in Pchannel : /\ Nth(p, 0) = p.nextpkt /\ Nth(p, 0) \in Bufs
                         /\ Nth(p, 1) = 1 - p.nextpkt /\ Nth(p, 1) \in Bufs
                         /\ Nth(p, 2) = p.nextpkt
BY DEF NPCBUFS, Bufs, SEQMOD, Seqs, NextSeq, Nth, Pchannel

\* The number of buffers that do not wait, as a sum over the two of them.
LEMMA FreeCounted ==
  ASSUME NEW p
  PROVE  Cardinality(Free(p)) = 2 - Waits(p, 0) - Waits(p, 1)
<1>0. /\ Cardinality({}) = 0 /\ Cardinality({0}) = 1 /\ Cardinality({1}) = 1
      /\ IsFiniteSet({0})
  BY FS_EmptySet, FS_Singleton
<1>1. Cardinality({0, 1}) = 2
  <2>1. {0, 1} = {0} \cup {1} /\ 1 \notin {0}
    OBVIOUS
  <2> QED  BY <1>0, <2>1, FS_AddElement
<1>2. Free(p) = {i \in {0, 1} : p.pkts[i].state # "WAIT"}
  BY TwoBuffers DEF Free
<1>3. CASE p.pkts[0].state = "WAIT" /\ p.pkts[1].state = "WAIT"
  <2>1. Free(p) = {}  BY <1>2, <1>3
  <2> QED  BY <1>0, <1>3, <2>1 DEF Waits
<1>4. CASE p.pkts[0].state = "WAIT" /\ p.pkts[1].state # "WAIT"
  <2>1. Free(p) = {1}  BY <1>2, <1>4
  <2> QED  BY <1>0, <1>4, <2>1 DEF Waits
<1>5. CASE p.pkts[0].state # "WAIT" /\ p.pkts[1].state = "WAIT"
  <2>1. Free(p) = {0}  BY <1>2, <1>5
  <2> QED  BY <1>0, <1>5, <2>1 DEF Waits
<1>6. CASE p.pkts[0].state # "WAIT" /\ p.pkts[1].state # "WAIT"
  <2>1. Free(p) = {0, 1}  BY <1>2, <1>6
  <2> QED  BY <1>1, <1>6, <2>1 DEF Waits
<1> QED  BY <1>3, <1>4, <1>5, <1>6

\* When a buffer is free, the scan from nextpkt ends at a free one.
LEMMA FirstFreeIsFree ==
  ASSUME NEW p \in Pchannel, Free(p) # {}
  PROVE  FirstFree(p) \in Free(p) /\ FirstFree(p) \in Bufs
<1> DEFINE First(k) == /\ Nth(p, k) \in Free(p)
                       /\ \A j \in 0..(k - 1) : Nth(p, j) \notin Free(p)
<1>1. Free(p) \subseteq {0, 1} /\ {Nth(p, 0), Nth(p, 1)} = {0, 1}
  BY TwoBuffers DEF Free, Pchannel
<1>2. \E k \in Bufs : First(k)
  <2>1. CASE Nth(p, 0) \in Free(p)
    <3>1. 0..(0 - 1) = {}  OBVIOUS
    <3> QED  BY <2>1, <3>1, TwoBuffers
  <2>2. CASE Nth(p, 0) \notin Free(p)
    <3>1. Nth(p, 1) \in Free(p)  BY <1>1, <2>2
    <3>2. 0..(1 - 1) = {0}  OBVIOUS
    <3> QED  BY <2>2, <3>1, <3>2, TwoBuffers
  <2> QED  BY <2>1, <2>2
<1>3. First(CHOOSE k \in Bufs : First(k))
  BY <1>2
<1> QED  BY <1>1, <1>3, TwoBuffers DEF FirstFree

\* psend: the packet goes into the first free buffer, which waits now.
LEMMA SentGood ==
  ASSUME NEW p, Good(p), Free(p) # {},
         NEW pkt \in Pktstate, pkt.state = "WAIT"
  PROVE  Good([p EXCEPT !.pkts[FirstFree(p)] = pkt,
                        !.freepkts = Cardinality(Free(p)) - 1,
                        !.xseq = NextSeq(@)])
<1> DEFINE f == FirstFree(p)
           q == [p EXCEPT !.pkts[f] = pkt, !.freepkts = Cardinality(Free(p)) - 1,
                          !.xseq = NextSeq(@)]
<1>1. f \in {0, 1} /\ Waits(p, f) = 0 /\ p \in Pchannel
  BY FirstFreeIsFree, TwoBuffers DEF Good, Free, Waits
<1> HIDE DEF f
<1>2. /\ q.freepkts = Cardinality(Free(p)) - 1
      /\ \A i \in {0, 1} : Waits(q, i) = IF i = f THEN 1 ELSE Waits(p, i)
  BY <1>1, TwoBuffers DEF Waits, Pchannel
<1>3. /\ Waits(p, 0) \in {0, 1} /\ Waits(p, 1) \in {0, 1}
      /\ Waits(q, 0) \in {0, 1} /\ Waits(q, 1) \in {0, 1}
  BY DEF Waits
<1>4. Cardinality(Free(q)) = Cardinality(Free(p)) - 1
  BY <1>1, <1>2, <1>3, FreeCounted
<1>5. Cardinality(Free(p)) - 1 \in 0..NPCBUFS
  BY <1>1, <1>3, FreeCounted, TwoBuffers
<1>6. q \in Pchannel
  BY <1>1, <1>5, TwoBuffers DEF Pchannel
<1> QED  BY <1>2, <1>4, <1>6 DEF Good, f

-----------------------------------------------------------------------------
(* Control.                                                                *)

\* The scan finds at most two packets, both waiting, and no packet twice:
\* after it found one, it looks at the other.
LEMMA ScanFinds ==
  ASSUME NEW p \in Pchannel, NEW seq \in Seqs
  PROVE  LET s == Scan(p, seq)
         IN  /\ s.at \in 0..2
             /\ s.hit \in Seq(Bufs) /\ Len(s.hit) \in 0..2
             /\ \A k \in 1..Len(s.hit) : Waits(p, s.hit[k]) = 1
             /\ Len(s.hit) = 2 => s.hit[1] # s.hit[2]
<1> DEFINE z == [at |-> 0, hit |-> <<>>]
           a == ScanStep(p, seq, 1, z)
           s == ScanStep(p, seq, 2, a)
           i == Nth(p, 0)
           j == Nth(p, 1)
<1>1. i \in Bufs /\ j \in Bufs /\ i # j
  BY TwoBuffers DEF Pchannel
<1>2. ASSUME NEW k, NEW r, r.at \in {0, 1}, r.hit \in Seq(Bufs)
      PROVE  LET n == ScanStep(p, seq, k, r)
             IN  \/ n.at \in {r.at, r.at + 1} /\ n.hit = r.hit
                 \/ /\ Waits(p, Nth(p, r.at)) = 1
                    /\ n.at = r.at + 1 /\ n.hit = Append(r.hit, Nth(p, r.at))
  BY DEF ScanStep, Waits
<1>3. z.at = 0 /\ z.hit \in Seq(Bufs) /\ Len(z.hit) = 0
  OBVIOUS
<1> HIDE DEF z
<1>4. /\ a.at \in {0, 1} /\ a.hit \in Seq(Bufs)
      /\ \/ Len(a.hit) = 0
         \/ Len(a.hit) = 1 /\ a.hit[1] = i /\ Waits(p, i) = 1 /\ a.at = 1
  <2>1. z.at \in {0, 1}
    BY <1>3
  <2>2. \/ a.at \in {z.at, z.at + 1} /\ a.hit = z.hit
        \/ /\ Waits(p, Nth(p, z.at)) = 1
           /\ a.at = z.at + 1 /\ a.hit = Append(z.hit, Nth(p, z.at))
    BY <1>2, <1>3, <2>1
  <2> HIDE DEF a
  <2>3. CASE a.at \in {z.at, z.at + 1} /\ a.hit = z.hit
    BY <1>3, <2>3
  <2>4. CASE /\ Waits(p, Nth(p, z.at)) = 1
             /\ a.at = z.at + 1 /\ a.hit = Append(z.hit, Nth(p, z.at))
    BY <1>1, <1>3, <2>4
  <2> QED  BY <2>2, <2>3, <2>4
<1> HIDE DEF a
<1>5. \/ s.at \in {a.at, a.at + 1} /\ s.hit = a.hit
      \/ /\ Waits(p, Nth(p, a.at)) = 1
         /\ s.at = a.at + 1 /\ s.hit = Append(a.hit, Nth(p, a.at))
  BY <1>2, <1>4
<1>6. Scan(p, seq) = s
  BY DEF Scan, a, z
<1> HIDE DEF s
<1>7. CASE s.at \in {a.at, a.at + 1} /\ s.hit = a.hit
  BY <1>4, <1>6, <1>7
<1>8. CASE /\ Waits(p, Nth(p, a.at)) = 1
           /\ s.at = a.at + 1 /\ s.hit = Append(a.hit, Nth(p, a.at))
  <2>1. Nth(p, a.at) \in Bufs
    BY <1>1, <1>4
  <2>2. CASE Len(a.hit) = 0
    <3>1. Len(s.hit) = 1 /\ s.hit[1] = Nth(p, a.at) /\ s.hit \in Seq(Bufs)
      BY <1>4, <1>8, <2>1, <2>2
    <3> QED  BY <1>4, <1>6, <1>8, <3>1
  <2>3. CASE Len(a.hit) = 1 /\ a.hit[1] = i /\ Waits(p, i) = 1 /\ a.at = 1
    <3>1. /\ Len(s.hit) = 2 /\ s.hit[1] = i /\ s.hit[2] = j
          /\ s.hit \in Seq(Bufs)
      BY <1>4, <1>8, <2>1, <2>3
    <3> QED  BY <1>1, <1>4, <1>6, <1>8, <2>3, <3>1
  <2> QED  BY <1>4, <2>2, <2>3
<1> QED  BY <1>5, <1>7, <1>8

\* An ACK frees exactly the buffers it counts.
LEMMA ReleasedGood ==
  ASSUME NEW p, Good(p), NEW seq \in Seqs
  PROVE  Good(Released(p, Scan(p, seq)))
<1> DEFINE s == Scan(p, seq)
           q == Released(p, s)
<1>1. p \in Pchannel
  BY DEF Good
<1>2. /\ s.at \in 0..2 /\ s.hit \in Seq(Bufs) /\ Len(s.hit) \in 0..2
      /\ \A k \in 1..Len(s.hit) : Waits(p, s.hit[k]) = 1
      /\ Len(s.hit) = 2 => s.hit[1] # s.hit[2]
  BY <1>1, ScanFinds
<1> HIDE DEF s
<1>3. \A i \in {0, 1} : Waits(q, i) = IF i \in Hits(s) THEN 0 ELSE Waits(p, i)
  BY <1>1, TwoBuffers DEF Released, Waits, Pchannel
<1>4. /\ Hits(s) \subseteq {0, 1}
      /\ \A i \in Hits(s) : Waits(p, i) = 1
  BY <1>2, TwoBuffers DEF Hits
<1>5. Waits(p, 0) \in {0, 1} /\ Waits(p, 1) \in {0, 1}
  BY DEF Waits
<1>6. Waits(q, 0) + Waits(q, 1) = Waits(p, 0) + Waits(p, 1) - Len(s.hit)
  <2>1. CASE Len(s.hit) = 0
    <3>1. Hits(s) = {}  BY <2>1 DEF Hits
    <3> QED  BY <1>3, <1>5, <2>1, <3>1
  <2>2. CASE Len(s.hit) = 1
    <3>1. Hits(s) = {s.hit[1]}  BY <2>2 DEF Hits
    <3> QED  BY <1>3, <1>4, <1>5, <2>2, <3>1
  <2>3. CASE Len(s.hit) = 2
    <3>1. Hits(s) = {s.hit[1], s.hit[2]}  BY <2>3 DEF Hits
    <3>2. Hits(s) = {0, 1}  BY <1>2, <1>4, <2>3, <3>1
    <3> QED  BY <1>3, <1>4, <1>5, <2>3, <3>2
  <2> QED  BY <1>2, <2>1, <2>2, <2>3
<1>7. q.freepkts = p.freepkts + Len(s.hit)
  BY <1>1 DEF Released, Pchannel
<1>8. p.freepkts = 2 - Waits(p, 0) - Waits(p, 1)
  BY FreeCounted DEF Good
<1>9. /\ q.freepkts = Cardinality(Free(q)) /\ q.freepkts \in 0..NPCBUFS
  <2>1. q.freepkts = 2 - Waits(q, 0) - Waits(q, 1)
    BY <1>2, <1>3, <1>5, <1>6, <1>7, <1>8
  <2>2. Waits(q, 0) \in {0, 1} /\ Waits(q, 1) \in {0, 1}
    BY DEF Waits
  <2> QED  BY <2>1, <2>2, FreeCounted, TwoBuffers
<1>10. q \in Pchannel
  <2>1. Nth(p, s.at) \in Bufs
    BY <1>1, <1>2, TwoBuffers
  <2>2. \A i \in Bufs : /\ p.pkts[i] \in Pktstate
                         /\ [p.pkts[i] EXCEPT !.state = "OK", !.timo = 0] \in Pktstate
    <3>1. \A x \in Pktstate : [x EXCEPT !.state = "OK", !.timo = 0] \in Pktstate
      <4>1. "OK" \in {"NULL", "WAIT", "OK"} /\ 0 \in 0..Pxtimeout
        OBVIOUS
      <4> QED  BY <4>1 DEF Pktstate
    <3>2. \A i \in Bufs : p.pkts[i] \in Pktstate
      BY <1>1 DEF Pchannel
    <3> QED  BY <3>1, <3>2
  <2>3. q.pkts \in [Bufs -> Pktstate]
    BY <1>1, <2>2 DEF Released, Pchannel
  <2> QED  BY <1>1, <1>9, <2>1, <2>3 DEF Released, Pchannel
<1> QED  BY <1>9, <1>10 DEF Good, s

\* A change of timers alone frees nothing.
LEMMA TimersGood ==
  ASSUME NEW p, Good(p), NEW T \in [Bufs -> 0..Pxtimeout]
  PROVE  Good([p EXCEPT !.pkts = [i \in Bufs |-> [@[i] EXCEPT !.timo = T[i]]]])
<1> DEFINE q == [p EXCEPT !.pkts = [i \in Bufs |-> [@[i] EXCEPT !.timo = T[i]]]]
<1>1. p \in Pchannel
  BY DEF Good
<1>2. q \in Pchannel /\ q.freepkts = p.freepkts
  <2>1. \A i \in Bufs : [p.pkts[i] EXCEPT !.timo = T[i]] \in Pktstate
    BY <1>1 DEF Pchannel, Pktstate
  <2>2. [i \in Bufs |-> [p.pkts[i] EXCEPT !.timo = T[i]]] \in [Bufs -> Pktstate]
    BY <2>1
  <2> QED  BY <1>1, <2>2 DEF Pchannel
<1>3. \A i \in Bufs : q.pkts[i].state = p.pkts[i].state
  BY <1>1 DEF Pchannel, Pktstate
<1>4. Free(q) = Free(p)
  BY <1>3 DEF Free
<1> QED  BY <1>2, <1>4 DEF Good

-----------------------------------------------------------------------------
(* The inductive invariant.                                                *)

PacketIInv == PacketTypeOK /\ FreeExact

\* It is: every conversation is good, and the rest is well typed.
ConvsGood(P) == /\ P \in [Ends -> [Channels -> Pchannel]]
                /\ \A e \in Ends, c \in Channels : Good(P[e][c])
RestTypeOK == /\ line \in [Ends -> Seq(Frame)]
              /\ precvpkt \in [Ends -> [inside : BOOLEAN, timo : 0..Prtimeout]]
              /\ Ptflag \in [Ends -> BOOLEAN]
              /\ trouble \in BOOLEAN
              /\ sent \in [Ends -> [Channels -> Nat]]
              /\ got \in [Ends -> [Channels -> Seq(Nat)]]

LEMMA IInvParts ==
  /\ PacketIInv <=> ConvsGood(pconvs) /\ RestTypeOK
  /\ PacketIInv' <=> ConvsGood(pconvs') /\ RestTypeOK'
<1>1. PacketIInv <=> ConvsGood(pconvs) /\ RestTypeOK
  BY DEF PacketIInv, PacketTypeOK, FreeExact, ConvsGood, RestTypeOK, Good
<1>2. PacketIInv' <=> ConvsGood(pconvs') /\ RestTypeOK'
  BY DEF PacketIInv, PacketTypeOK, FreeExact, ConvsGood, RestTypeOK, Good
<1> QED  BY <1>1, <1>2

\* One conversation changed for a good one.
LEMMA OneChanged ==
  ASSUME NEW P, ConvsGood(P), NEW e \in Ends, NEW c \in Channels, NEW q, Good(q)
  PROVE  ConvsGood([P EXCEPT ![e][c] = q])
BY DEF ConvsGood, Good

LEMMA FrameTypes ==
  ASSUME RestTypeOK, NEW e \in Ends
  PROVE  /\ Other(e) \in Ends /\ Other(e) # e
         /\ line[e] \in Seq(Frame) /\ line[Other(e)] \in Seq(Frame)
         /\ line[e] # <<>> => Head(line[e]) \in Frame /\ Tail(line[e]) \in Seq(Frame)
         /\ line[Other(e)] # <<>> => /\ Incoming(e) \in Frame
                                     /\ Incoming(e).chan \in Channels
                                     /\ Incoming(e).seq \in Seqs
                                     /\ Incoming(e).data \in Nat
                                     /\ Tail(line[Other(e)]) \in Seq(Frame)
<1>1. Other(e) \in Ends /\ Other(e) # e
  BY DEF Other, Ends
<1>2. \A x \in Ends : line[x] \in Seq(Frame)
  BY DEF RestTypeOK
<1>3. \A s \in Seq(Frame) : s # <<>> => Head(s) \in Frame /\ Tail(s) \in Seq(Frame)
  OBVIOUS
<1>4. \A f \in Frame : f.chan \in Channels /\ f.seq \in Seqs /\ f.data \in Nat
  BY DEF Frame
<1> QED  BY <1>1, <1>2, <1>3, <1>4 DEF Incoming

\* A packet of a buffer makes a frame.
LEMMA DataFrameType ==
  ASSUME NEW c \in Channels, NEW pkt \in Pktstate
  PROVE  DataFrame(c, pkt) \in Frame
BY DEF DataFrame, Frame, Pktstate

\* What Reply leaves on the lines.
LEMMA ReplyTypes ==
  ASSUME RestTypeOK, NEW e \in Ends, line[Other(e)] # <<>>,
         NEW kind \in {"ack", "nak"}, NEW cd \in Nat, Reply(e, kind, cd)
  PROVE  line' \in [Ends -> Seq(Frame)]
<1> DEFINE r == [kind |-> kind, chan |-> Incoming(e).chan,
                 seq |-> Incoming(e).seq, data |-> cd]
<1>1. r \in Frame
  BY FrameTypes DEF Frame
<1>2. line \in [Ends -> Seq(Frame)] /\ Tail(line[Other(e)]) \in Seq(Frame)
  BY FrameTypes DEF RestTypeOK
<1>3. line' = [line EXCEPT ![Other(e)] = Tail(@), ![e] = Append(@, r)]
  BY DEF Reply
<1> HIDE DEF r
<1> DEFINE L == [line EXCEPT ![Other(e)] = Tail(@)]
<1>4. L \in [Ends -> Seq(Frame)] /\ line' = [L EXCEPT ![e] = Append(@, r)]
  <2>1. Other(e) # e /\ e \in Ends
    BY FrameTypes
  <2>2. L \in [Ends -> Seq(Frame)]
    BY <1>2
  <2>3. line' = [L EXCEPT ![e] = Append(@, r)]
    BY <1>2, <1>3, <2>1
  <2> QED  BY <2>2, <2>3
<1> HIDE DEF L
<1>5. Append(L[e], r) \in Seq(Frame)
  BY <1>1, <1>4
<1> QED  BY <1>4, <1>5

LEMMA EndPacketTypes ==
  ASSUME RestTypeOK, NEW e \in Ends, EndPacket(e)
  PROVE  /\ Ptflag' \in [Ends -> BOOLEAN]
         /\ precvpkt' \in [Ends -> [inside : BOOLEAN, timo : 0..Prtimeout]]
BY DEF RestTypeOK, EndPacket

LEMMA Initial == PacketInit => PacketIInv
<1> SUFFICES ASSUME PacketInit PROVE PacketIInv
  OBVIOUS
<1>1. Good(pinit)
  <2>1. pinit \in Pchannel
    BY TwoBuffers DEF pinit, Pchannel, Pktstate
  <2>2. Waits(pinit, 0) = 0 /\ Waits(pinit, 1) = 0 /\ pinit.freepkts = 2
    BY TwoBuffers DEF pinit, Waits
  <2> QED  BY <2>1, <2>2, FreeCounted DEF Good
<1>2. ConvsGood(pconvs)
  BY <1>1 DEF PacketInit, ConvsGood, Good
<1>3. RestTypeOK
  BY DEF PacketInit, RestTypeOK
<1> QED  BY <1>2, <1>3, IInvParts

-----------------------------------------------------------------------------
(* One lemma for each action.                                              *)

LEMMA PsendStep ==
  ASSUME PacketIInv, NEW e \in Ends, NEW c \in Channels, psend(e, c)
  PROVE  PacketIInv'
<1> DEFINE p == pconvs[e][c]
           pkt == [state |-> "WAIT", timo |-> Pxtimeout, seq |-> p.xseq,
                   data |-> sent[e][c] + 1]
           q == [p EXCEPT !.pkts[FirstFree(p)] = pkt,
                          !.freepkts = Cardinality(Free(p)) - 1,
                          !.xseq = NextSeq(@)]
<1>1. ConvsGood(pconvs) /\ RestTypeOK
  BY IInvParts
<1>2. Good(p) /\ p \in Pchannel /\ Free(p) # {}
  BY <1>1 DEF ConvsGood, Good, psend
<1>3. pkt \in Pktstate /\ pkt.state = "WAIT"
  <2>1. p.xseq \in Seqs
    BY <1>2 DEF Pchannel
  <2>2. sent[e][c] + 1 \in Nat
    BY <1>1 DEF RestTypeOK
  <2>3. Pxtimeout \in 0..Pxtimeout
    OBVIOUS
  <2> QED  BY <2>1, <2>2, <2>3 DEF Pktstate
<1>4. pconvs' = [pconvs EXCEPT ![e][c] = q]
  BY <1>1 DEF psend, ConvsGood
<1>5. /\ Ptflag' = [Ptflag EXCEPT ![e] = TRUE]
      /\ line' = [line EXCEPT ![e] = Append(@, DataFrame(c, pkt))]
      /\ sent' = [sent EXCEPT ![e][c] = @ + 1]
      /\ UNCHANGED <<precvpkt, trouble, got>>
  BY DEF psend
<1> HIDE DEF pkt
<1>6. Good(q)
  BY <1>2, <1>3, SentGood
<1> HIDE DEF p, q
<1>7. ConvsGood(pconvs')
  BY <1>1, <1>4, <1>6, OneChanged
<1>8. RestTypeOK'
  <2>1. DataFrame(c, pkt) \in Frame
    BY <1>3, DataFrameType
  <2> QED  BY <1>1, <1>5, <2>1 DEF RestTypeOK
<1> QED  BY <1>7, <1>8, IInvParts

\* A psend that finds no buffer leaves the counter at zero, which it was.
LEMMA PsendFullStep ==
  ASSUME PacketIInv, NEW e \in Ends, NEW c \in Channels, psendFull(e, c)
  PROVE  PacketIInv'
<1> DEFINE p == pconvs[e][c]
           q == [p EXCEPT !.freepkts = 0]
<1>1. ConvsGood(pconvs) /\ RestTypeOK
  BY IInvParts
<1>2. Good(p) /\ p \in Pchannel /\ Free(p) = {}
  BY <1>1 DEF ConvsGood, Good, psendFull
<1>3. pconvs' = [pconvs EXCEPT ![e][c] = q]
  BY <1>1 DEF psendFull, ConvsGood
<1>4. UNCHANGED <<line, precvpkt, Ptflag, trouble, sent, got>>
  BY DEF psendFull
<1>5. Good(q)
  <2>1. q = p
    BY <1>2, FS_EmptySet DEF Good, Pchannel
  <2> QED  BY <1>2, <2>1
<1> HIDE DEF p, q
<1>6. ConvsGood(pconvs')
  BY <1>1, <1>3, <1>5, OneChanged
<1>7. RestTypeOK'
  BY <1>1, <1>4 DEF RestTypeOK
<1> QED  BY <1>6, <1>7, IInvParts

\* The line, and the end of the trouble, touch no conversation.
LEMMA LineSteps ==
  ASSUME PacketIInv, NEW e \in Ends, Lose(e) \/ Truncate(e) \/ Calm
  PROVE  PacketIInv'
<1>1. ConvsGood(pconvs) /\ RestTypeOK
  BY IInvParts
<1>2. pconvs' = pconvs
  BY DEF Lose, Truncate, Calm
<1>3. RestTypeOK'
  <2>1. CASE Lose(e)
    <3>1. Tail(line[e]) \in Seq(Frame)
      BY <1>1, <2>1, FrameTypes DEF Lose
    <3> QED  BY <1>1, <2>1, <3>1 DEF Lose, RestTypeOK
  <2>2. CASE Truncate(e)
    <3>1. line[e] \in Seq(Frame) /\ line[e] # <<>>
      BY <1>1, <2>2, FrameTypes DEF Truncate
    <3>2. [line[e][1] EXCEPT !.kind = "stub"] \in Frame
      <4>1. line[e][1] \in Frame
        BY <3>1
      <4> QED  BY <4>1 DEF Frame
    <3> DEFINE cut == [line[e] EXCEPT ![1] = [line[e][1] EXCEPT !.kind = "stub"]]
    <3>3. cut \in Seq(Frame)
      BY <3>1, <3>2
    <3>4. line' = [line EXCEPT ![e] = cut]
      BY <2>2 DEF Truncate
    <3> HIDE DEF cut
    <3> QED  BY <1>1, <2>2, <3>3, <3>4 DEF Truncate, RestTypeOK
  <2>3. CASE Calm
    BY <1>1, <2>3 DEF Calm, RestTypeOK
  <2> QED  BY <2>1, <2>2, <2>3
<1> QED  BY <1>1, <1>2, <1>3, IInvParts

LEMMA AcceptStep ==
  ASSUME PacketIInv, NEW e \in Ends, NEW cd \in CData, Accept(e, cd)
  PROVE  PacketIInv'
<1> DEFINE f == Incoming(e)
           p == pconvs[e][f.chan]
           q == [p EXCEPT !.rseq = NextSeq(@), !.cdata[f.seq] = cd]
<1>1. ConvsGood(pconvs) /\ RestTypeOK
  BY IInvParts
<1>2. /\ line[Other(e)] # <<>>
      /\ f.chan \in Channels /\ f.seq \in Seqs /\ f.data \in Nat
  BY <1>1, FrameTypes DEF Accept, Arrived
<1>3. Good(p) /\ p \in Pchannel
  BY <1>1, <1>2 DEF ConvsGood, Good
<1>4. /\ got' = [got EXCEPT ![e][f.chan] = Append(@, f.data)]
      /\ Reply(e, "ack", cd) /\ EndPacket(e) /\ UNCHANGED <<trouble, sent>>
  BY DEF Accept
<1>5. pconvs' = [pconvs EXCEPT ![e][f.chan] = q]
  BY <1>1, <1>2 DEF Accept, ConvsGood
<1>6. Good(q)
  <2>1. q \in Pchannel /\ q.freepkts = p.freepkts /\ q.pkts = p.pkts
    BY <1>2, <1>3, TwoBuffers DEF Pchannel
  <2>2. Free(q) = Free(p)
    BY <2>1 DEF Free
  <2> QED  BY <1>3, <2>1, <2>2 DEF Good
<1> HIDE DEF f, p, q
<1>7. ConvsGood(pconvs')
  BY <1>1, <1>2, <1>5, <1>6, OneChanged
<1>8. RestTypeOK'
  <2>1. line' \in [Ends -> Seq(Frame)]
    BY <1>1, <1>2, <1>4, ReplyTypes
  <2>2. got' \in [Ends -> [Channels -> Seq(Nat)]]
    <3>1. Append(got[e][f.chan], f.data) \in Seq(Nat)
      BY <1>1, <1>2 DEF RestTypeOK
    <3> QED  BY <1>1, <1>2, <1>4, <3>1 DEF RestTypeOK
  <2> QED  BY <1>1, <1>4, <2>1, <2>2, EndPacketTypes DEF RestTypeOK
<1> QED  BY <1>7, <1>8, IInvParts

\* A packet refused or out of order is answered, and that is all.
LEMMA AnswerSteps ==
  ASSUME PacketIInv, NEW e \in Ends, Refuse(e) \/ OutOfOrder(e)
  PROVE  PacketIInv'
<1>1. ConvsGood(pconvs) /\ RestTypeOK
  BY IInvParts
<1>2. line[Other(e)] # <<>> /\ Incoming(e).chan \in Channels /\ Incoming(e).seq \in Seqs
  BY <1>1, FrameTypes DEF Refuse, OutOfOrder, Arrived
<1>3. pconvs' = pconvs /\ EndPacket(e) /\ UNCHANGED <<trouble, sent, got>>
  BY DEF Refuse, OutOfOrder
<1>4. \E kind \in {"ack", "nak"}, cd \in Nat : Reply(e, kind, cd)
  <2>1. pconvs[e][Incoming(e).chan].cdata[Incoming(e).seq] \in Nat
    <3>1. pconvs[e][Incoming(e).chan] \in Pchannel
      BY <1>1, <1>2 DEF ConvsGood
    <3>2. pconvs[e][Incoming(e).chan].cdata \in [Seqs -> CData]
      BY <3>1 DEF Pchannel
    <3> QED  BY <1>2, <3>2
  <2> QED  BY <2>1 DEF Refuse, OutOfOrder
<1>5. line' \in [Ends -> Seq(Frame)]
  BY <1>1, <1>2, <1>4, ReplyTypes
<1>6. RestTypeOK'
  BY <1>1, <1>3, <1>5, EndPacketTypes DEF RestTypeOK
<1> QED  BY <1>1, <1>3, <1>6, IInvParts

LEMMA AckedStep ==
  ASSUME PacketIInv, NEW e \in Ends, Acked(e)
  PROVE  PacketIInv'
<1> DEFINE f == Incoming(e)
           p == pconvs[e][f.chan]
           q == Released(p, Scan(p, f.seq))
<1>1. ConvsGood(pconvs) /\ RestTypeOK
  BY IInvParts
<1>2. /\ f.chan \in Channels /\ f.seq \in Seqs
      /\ Other(e) \in Ends /\ Tail(line[Other(e)]) \in Seq(Frame)
  BY <1>1, FrameTypes DEF Acked, Arrived
<1>3. Good(p)
  BY <1>1, <1>2 DEF ConvsGood
<1>4. /\ line' = [line EXCEPT ![Other(e)] = Tail(@)]
      /\ EndPacket(e) /\ UNCHANGED <<trouble, sent, got>>
  BY DEF Acked
<1>5. pconvs' = pconvs \/ pconvs' = [pconvs EXCEPT ![e][f.chan] = q]
  BY DEF Acked
<1>6. Good(q)
  BY <1>2, <1>3, ReleasedGood
<1> HIDE DEF f, p, q
<1>7. ConvsGood(pconvs')
  BY <1>1, <1>2, <1>5, <1>6, OneChanged
<1>8. RestTypeOK'
  BY <1>1, <1>2, <1>4, EndPacketTypes DEF RestTypeOK
<1> QED  BY <1>7, <1>8, IInvParts

LEMMA NakedStep ==
  ASSUME PacketIInv, NEW e \in Ends, Naked(e)
  PROVE  PacketIInv'
<1> DEFINE f == Incoming(e)
           p == pconvs[e][f.chan]
           s == Scan(p, f.seq)
           T == [i \in Bufs |-> IF i \in Hits(s) THEN Pxtimeout ELSE p.pkts[i].timo]
           q == [p EXCEPT !.pkts = [i \in Bufs |-> [@[i] EXCEPT !.timo = T[i]]]]
           again == [k \in 1..Len(s.hit) |-> DataFrame(f.chan, p.pkts[s.hit[k]])]
<1>1. ConvsGood(pconvs) /\ RestTypeOK
  BY IInvParts
<1>2. /\ f.chan \in Channels /\ f.seq \in Seqs
      /\ Other(e) \in Ends /\ Other(e) # e /\ Tail(line[Other(e)]) \in Seq(Frame)
  BY <1>1, FrameTypes DEF Naked, Arrived
<1>3. Good(p) /\ p \in Pchannel
  BY <1>1, <1>2 DEF ConvsGood, Good
<1>4. \A i \in Bufs : p.pkts[i] \in Pktstate
  BY <1>3 DEF Pchannel
<1>5. pconvs' = [pconvs EXCEPT ![e][f.chan] = q]
  <2>1. [i \in Bufs |-> [p.pkts[i] EXCEPT !.timo = T[i]]] =
        [i \in Bufs |-> IF i \in Hits(s) THEN [p.pkts[i] EXCEPT !.timo = Pxtimeout]
                                         ELSE p.pkts[i]]
    BY <1>4 DEF Pktstate
  <2> QED  BY <1>1, <1>2, <2>1 DEF Naked, ConvsGood
<1>6. Good(q)
  <2>1. T \in [Bufs -> 0..Pxtimeout]
    BY <1>4 DEF Pktstate
  <2> HIDE DEF T
  <2> QED  BY <1>3, <2>1, TimersGood
<1>7. again \in Seq(Frame)
  <2>1. Len(s.hit) \in Nat /\ s.hit \in Seq(Bufs)
    BY <1>2, <1>3, ScanFinds
  <2>2. \A k \in 1..Len(s.hit) : DataFrame(f.chan, p.pkts[s.hit[k]]) \in Frame
    BY <1>2, <1>4, <2>1, DataFrameType
  <2> QED  BY <2>1, <2>2
<1>8. /\ line' = [line EXCEPT ![Other(e)] = Tail(@), ![e] = @ \o again]
      /\ EndPacket(e) /\ UNCHANGED <<trouble, sent, got>>
  BY DEF Naked
<1> HIDE DEF f, p, q, s, again
<1>9. ConvsGood(pconvs')
  BY <1>1, <1>2, <1>5, <1>6, OneChanged
<1>10. RestTypeOK'
  <2> DEFINE L == [line EXCEPT ![Other(e)] = Tail(@)]
  <2>1. L \in [Ends -> Seq(Frame)]
    BY <1>1, <1>2 DEF RestTypeOK
  <2>2. line' = [L EXCEPT ![e] = @ \o again]
    BY <1>1, <1>2, <1>8 DEF RestTypeOK
  <2> HIDE DEF L
  <2>3. L[e] \o again \in Seq(Frame)
    BY <1>7, <2>1
  <2>4. line' \in [Ends -> Seq(Frame)]
    BY <2>1, <2>2, <2>3
  <2> QED  BY <1>1, <1>8, <2>4, EndPacketTypes DEF RestTypeOK
<1> QED  BY <1>9, <1>10, IInvParts

LEMMA SwallowStep ==
  ASSUME PacketIInv, NEW e \in Ends, Swallow(e)
  PROVE  PacketIInv'
<1>1. ConvsGood(pconvs) /\ RestTypeOK
  BY IInvParts
<1>2. Other(e) \in Ends /\ Tail(line[Other(e)]) \in Seq(Frame)
  BY <1>1, FrameTypes DEF Swallow
<1>3. precvpkt' \in [Ends -> [inside : BOOLEAN, timo : 0..Prtimeout]]
  <2>1. \E r \in [inside : BOOLEAN, timo : 0..Prtimeout] :
           precvpkt' = [precvpkt EXCEPT ![e] = r]
    <3>1. /\ [inside |-> TRUE, timo |-> Prtimeout] \in [inside : BOOLEAN, timo : 0..Prtimeout]
          /\ [inside |-> FALSE, timo |-> 0] \in [inside : BOOLEAN, timo : 0..Prtimeout]
          /\ precvpkt[e] \in [inside : BOOLEAN, timo : 0..Prtimeout]
      BY <1>1 DEF RestTypeOK
    <3> QED  BY <3>1 DEF Swallow
  <2> QED  BY <1>1, <2>1 DEF RestTypeOK
<1>4. RestTypeOK'
  BY <1>1, <1>2, <1>3 DEF Swallow, RestTypeOK
<1>5. pconvs' = pconvs
  BY DEF Swallow
<1> QED  BY <1>1, <1>4, <1>5, IInvParts

\* The scan of ptimeout that finds timers at their end has a first one.
LEMMA LeastNumber ==
  ASSUME NEW S \in SUBSET Nat, S # {}
  PROVE  \E n \in S : \A m \in S : n <= m
<1> DEFINE R == OpToRel(<, Nat)
<1>1. IsWellFoundedOn(R, Nat)
  BY NatLessThanWellFounded
<1>2. \A x, y \in Nat : x < y => <<x, y>> \in R
  BY DEF OpToRel
<1> HIDE DEF R
<1>3. PICK x \in S : \A y \in S : ~(<<y, x>> \in R)
  BY <1>1, WFMin
<1>4. ASSUME NEW y \in S PROVE x <= y
  <2>1. ~(y < x)
    BY <1>2, <1>3
  <2> QED  BY <2>1
<1> QED  BY <1>4

LEMMA PtimeoutStep ==
  ASSUME PacketIInv, NEW e \in Ends, ptimeout(e)
  PROVE  PacketIInv'
<1> DEFINE At(n) == [chan |-> n \div NPCBUFS,
                     buf |-> Nth(pconvs[e][n \div NPCBUFS], n % NPCBUFS)]
           Timo(n) == pconvs[e][At(n).chan].pkts[At(n).buf].timo
           Places == 0..(NChannels * NPCBUFS - 1)
           Out == {n \in Places : Timo(n) = 1}
           Last == IF Out = {} THEN NChannels * NPCBUFS
                   ELSE CHOOSE n \in Out : \A m \in Out : n <= m
           Seen(c, i) == \E n \in Places : /\ n < Last /\ Timo(n) > 0
                                           /\ At(n) = [chan |-> c, buf |-> i]
           Hit(c, i) == Out # {} /\ At(Last) = [chan |-> c, buf |-> i]
           Left(c, i) == IF Hit(c, i) THEN Pxtimeout
                         ELSE IF Seen(c, i) THEN pconvs[e][c].pkts[i].timo - 1
                         ELSE pconvs[e][c].pkts[i].timo
           q(c) == [pconvs[e][c] EXCEPT
                      !.pkts = [i \in Bufs |-> [@[i] EXCEPT !.timo = Left(c, i)]]]
<1>1. ConvsGood(pconvs) /\ RestTypeOK
  BY IInvParts
<1>2. \A c \in Channels : /\ Good(pconvs[e][c]) /\ pconvs[e][c] \in Pchannel
                          /\ \A i \in Bufs : pconvs[e][c].pkts[i] \in Pktstate
  BY <1>1 DEF ConvsGood, Good, Pchannel
<1>3. /\ pconvs' = [pconvs EXCEPT ![e] = [c \in Channels |-> q(c)]]
      /\ \/ line' = line
         \/ /\ Out # {}
            /\ line' = [line EXCEPT ![e] = Append(@, DataFrame(At(Last).chan,
                    pconvs[e][At(Last).chan].pkts[At(Last).buf]))]
      /\ precvpkt' = [precvpkt EXCEPT ![e] =
             IF @.timo = 0 THEN @
             ELSE [inside |-> @.inside /\ @.timo > 1, timo |-> @.timo - 1]]
      /\ Ptflag' = [Ptflag EXCEPT ![e] = AlarmAgain(e)]
      /\ UNCHANGED <<trouble, sent, got>>
  <2>1. pconvs' = [pconvs EXCEPT ![e] = [c \in Channels |-> q(c)]]
    BY DEF ptimeout
  <2>2. \/ line' = line
        \/ /\ Out # {}
           /\ line' = [line EXCEPT ![e] = Append(@, DataFrame(At(Last).chan,
                   pconvs[e][At(Last).chan].pkts[At(Last).buf]))]
    BY DEF ptimeout
  <2>3. precvpkt' = [precvpkt EXCEPT ![e] =
             IF @.timo = 0 THEN @
             ELSE [inside |-> @.inside /\ @.timo > 1, timo |-> @.timo - 1]]
    BY DEF ptimeout
  <2>4. Ptflag' = [Ptflag EXCEPT ![e] = AlarmAgain(e)] /\ UNCHANGED <<trouble, sent, got>>
    BY DEF ptimeout
  <2> QED  BY <2>1, <2>2, <2>3, <2>4
<1>4. \A n \in Places : At(n).chan \in Channels /\ At(n).buf \in Bufs
  <2>1. ASSUME NEW n \in Places
        PROVE  n \div NPCBUFS \in Channels /\ n % NPCBUFS \in {0, 1}
    BY TwoBuffers DEF Channels
  <2> QED  BY <1>2, <2>1, TwoBuffers
<1>5. Out # {} => Last \in Places
  <2>1. Out \subseteq Nat
    BY TwoBuffers
  <2> HIDE DEF Timo
  <2>2. Out # {} => \E n \in Out : \A m \in Out : n <= m
    BY <2>1, LeastNumber
  <2> QED  BY <2>2
<1>6. \A c \in Channels, i \in Bufs : Left(c, i) \in 0..Pxtimeout
  <2> SUFFICES ASSUME NEW c \in Channels, NEW i \in Bufs
               PROVE  Left(c, i) \in 0..Pxtimeout
    OBVIOUS
  <2>1. pconvs[e][c].pkts[i].timo \in 0..Pxtimeout
    BY <1>2 DEF Pktstate
  <2>2. Seen(c, i) => pconvs[e][c].pkts[i].timo > 0
    OBVIOUS
  <2> HIDE DEF Seen, Hit
  <2> QED  BY <2>1, <2>2
<1>7. \A c \in Channels : Good(q(c))
  <2> SUFFICES ASSUME NEW c \in Channels PROVE Good(q(c))
    OBVIOUS
  <2> DEFINE T == [i \in Bufs |-> Left(c, i)]
  <2>1. T \in [Bufs -> 0..Pxtimeout] /\ \A i \in Bufs : T[i] = Left(c, i)
    BY <1>6
  <2> HIDE DEF T, Left
  <2>2. q(c) = [pconvs[e][c] EXCEPT
                  !.pkts = [i \in Bufs |-> [@[i] EXCEPT !.timo = T[i]]]]
    BY <2>1
  <2> HIDE DEF q
  <2> QED  BY <1>2, <2>1, <2>2, TimersGood
<1>8. Out # {} => DataFrame(At(Last).chan,
                            pconvs[e][At(Last).chan].pkts[At(Last).buf]) \in Frame
  <2> HIDE DEF Places, Out, Last, At
  <2> QED  BY <1>2, <1>4, <1>5, DataFrameType
<1> HIDE DEF q, Out, Last, At
<1>9. ConvsGood(pconvs')
  BY <1>1, <1>3, <1>7 DEF ConvsGood, Good
<1>10. RestTypeOK'
  <2>1. line' \in [Ends -> Seq(Frame)]
    <3> DEFINE frame == DataFrame(At(Last).chan,
                            pconvs[e][At(Last).chan].pkts[At(Last).buf])
    <3>1. \/ line' = line
          \/ frame \in Frame /\ line' = [line EXCEPT ![e] = Append(@, frame)]
      BY <1>3, <1>8
    <3> HIDE DEF frame
    <3>2. line \in [Ends -> Seq(Frame)]
      BY <1>1 DEF RestTypeOK
    <3>3. frame \in Frame => Append(line[e], frame) \in Seq(Frame)
      BY <3>2
    <3> QED  BY <3>1, <3>2, <3>3
  <2>2. precvpkt' \in [Ends -> [inside : BOOLEAN, timo : 0..Prtimeout]]
    <3>1. precvpkt[e] \in [inside : BOOLEAN, timo : 0..Prtimeout]
      BY <1>1 DEF RestTypeOK
    <3>2. CASE precvpkt[e].timo = 0
      BY <1>1, <1>3, <3>1, <3>2 DEF RestTypeOK
    <3>3. CASE precvpkt[e].timo # 0
      <4>1. precvpkt[e].timo - 1 \in 0..Prtimeout
        BY <3>1, <3>3
      <4>2. (precvpkt[e].inside /\ precvpkt[e].timo > 1) \in BOOLEAN
        OBVIOUS
      <4> QED  BY <1>1, <1>3, <3>3, <4>1, <4>2 DEF RestTypeOK
    <3> QED  BY <3>2, <3>3
  <2>3. Ptflag' \in [Ends -> BOOLEAN]
    BY <1>1, <1>3 DEF RestTypeOK, AlarmAgain
  <2> QED  BY <1>1, <1>3, <2>1, <2>2, <2>3 DEF RestTypeOK
<1> QED  BY <1>9, <1>10, IInvParts

-----------------------------------------------------------------------------
(* The theorems.                                                           *)

LEMMA Step == PacketIInv /\ [PacketNext]_packetVars => PacketIInv'
<1> SUFFICES ASSUME PacketIInv, [PacketNext]_packetVars PROVE PacketIInv'
  OBVIOUS
<1>1. ASSUME NEW e \in Ends, Transmit(e) PROVE PacketIInv'
  BY <1>1, PsendStep, PsendFullStep DEF Transmit
<1>2. ASSUME NEW e \in Ends, Receive(e) PROVE PacketIInv'
  BY <1>2, AcceptStep, AnswerSteps, AckedStep, NakedStep, SwallowStep DEF Receive
<1>3. ASSUME NEW e \in Ends, ptimeout(e) PROVE PacketIInv'
  BY <1>3, PtimeoutStep
<1>4. ASSUME NEW e \in Ends, Lose(e) \/ Truncate(e) \/ Calm PROVE PacketIInv'
  BY <1>4, LineSteps
<1>5. CASE Calm
  BY <1>4, <1>5 DEF Ends
<1>6. CASE UNCHANGED packetVars
  <2>1. pconvs' = pconvs /\ RestTypeOK' = RestTypeOK
    BY <1>6 DEF packetVars, RestTypeOK
  <2> QED  BY <2>1, IInvParts
<1> QED  BY <1>1, <1>2, <1>3, <1>4, <1>5, <1>6 DEF PacketNext

LEMMA Invariance == PacketSpec => []PacketIInv
BY Initial, Step, PTL DEF PacketSpec

\* The variables of both ends stay in their types: no sequence number, buffer
\* index or counter of the protocol leaves its range.
THEOREM TypeCorrect == PacketSpec => []PacketTypeOK
<1>1. PacketIInv => PacketTypeOK
  BY DEF PacketIInv
<1> QED  BY <1>1, Invariance, PTL

\* freepkts counts the buffers of psend and Control that do not wait, after
\* every loss, repetition and refusal.
THEOREM FreeCounterExact == PacketSpec => []FreeExact
<1>1. PacketIInv => FreeExact
  BY DEF PacketIInv
<1> QED  BY <1>1, Invariance, PTL

-----------------------------------------------------------------------------
(***************************************************************************)
(* The packet protocol implements the channel of PacketChannel: whatever   *)
(* the line loses, cuts short or delays and however often packets and      *)
(* acknowledgements are repeated, each channel delivers what psend was     *)
(* given once each and in order, and a packet buffer becomes free only     *)
(* after its packet has been delivered.                                    *)
(*                                                                         *)
(* Sequence numbers count modulo four and the window is two.  The argument *)
(* is that of everything on the line, and everything the two ends          *)
(* remember, the sequence number determines the packet: data frames lie    *)
(* within two of what the receiver expects, acknowledgements within two of *)
(* what the sender knows to be delivered, because the line keeps the order *)
(* of frames and nobody sends anything older than what he knows.           *)
(***************************************************************************)
HIDE PacketConstantsOK

\* The sequence number of the n-th packet, and the last packet up to the
\* R-th whose sequence number is q.
Seqnum(n) == (n + 3) % SEQMOD
AckNum(q, R) == R - ((R + 3 - q) % SEQMOD)

\* The packets that wait for an acknowledgement.
Unacked(p) == Waits(p, 0) + Waits(p, 1)

\* What a sender that has taken S packets remembers: those that wait are the
\* last ones, in the order in which Control and psend visit the buffers.
SenderOK(p, S) ==
  /\ p.xseq = S % SEQMOD
  /\ Unacked(p) <= S
  /\ LET a == p.pkts[Nth(p, 0)]
         b == p.pkts[Nth(p, 1)]
     IN  /\ b.state = "WAIT" => a.state = "WAIT" /\ b.data = S /\ b.seq = Seqnum(S)
         /\ a.state = "WAIT" => a.data = S - Unacked(p) + 1 /\ a.seq = Seqnum(a.data)

\* Only a packet that waits has a timer.
Timers(p) == \A i \in Bufs : p.pkts[i].timo > 0 => p.pkts[i].state = "WAIT"

IsData(x, c) == x.kind = "data" /\ x.chan = c
IsAck(x, c) == x.kind = "ack" /\ x.chan = c

\* The data frames of channel c on line l, when S packets have been sent and
\* R received: none is older than what its successors allow.
DataOK(l, c, S, R) ==
  \A i \in 1..Len(l) : IsData(l[i], c) =>
     /\ l[i].data \in 1..S /\ l[i].seq = Seqnum(l[i].data) /\ R <= l[i].data + 1
     /\ \A j \in 1..Len(l) : i < j /\ IsData(l[j], c) => l[i].data <= l[j].data + 1

\* The acknowledgements, when the sender knows that A have been delivered.
AcksOK(l, c, A, R) ==
  \A i \in 1..Len(l) : IsAck(l[i], c) =>
     /\ AckNum(l[i].seq, R) >= 1 /\ A <= AckNum(l[i].seq, R) + 1
     /\ \A j \in 1..Len(l) : i < j /\ IsAck(l[j], c) =>
           AckNum(l[i].seq, R) <= AckNum(l[j].seq, R) + 1

\* One direction of a channel: sender p, the receiver's rseq, the lines that
\* carry data and acknowledgements, the packets sent and got.
DirectionOK(p, rseq, data, acks, c, S, g) ==
  /\ SenderOK(p, S) /\ Timers(p)
  /\ S - Unacked(p) <= Len(g) /\ Len(g) <= S
  /\ g = [k \in 1..Len(g) |-> k]
  /\ rseq = Len(g) % SEQMOD
  /\ DataOK(data, c, S, Len(g))
  /\ AcksOK(acks, c, S - Unacked(p), Len(g))

Direction(e, c) ==
  DirectionOK(pconvs[e][c], pconvs[Other(e)][c].rseq, line[e], line[Other(e)], c,
              sent[e][c], got[Other(e)][c])
DirectionsOK == \A e \in Ends, c \in Channels : Direction(e, c)

-----------------------------------------------------------------------------
(* Numbers modulo four.                                                    *)

LEMMA SeqNumbers ==
  /\ \A n \in Nat : /\ Seqnum(n) \in Seqs /\ n % SEQMOD \in Seqs
                    /\ Seqnum(n + 1) = n % SEQMOD
                    /\ NextSeq(n % SEQMOD) = (n + 1) % SEQMOD
  /\ \A m, n \in Nat : /\ m <= n + 3 /\ n <= m + 3 /\ Seqnum(m) = Seqnum(n) => m = n
BY DEF Seqnum, NextSeq, SEQMOD, Seqs

LEMMA AckNumbers ==
  ASSUME NEW R \in Nat, NEW q \in Seqs
  PROVE  /\ AckNum(q, R) \in Int /\ R - 3 <= AckNum(q, R) /\ AckNum(q, R) <= R
         /\ AckNum(q, R) >= 1 => AckNum(q, R) \in Nat /\ Seqnum(AckNum(q, R)) = q
         /\ AckNum(q, R) >= R - 2 => AckNum(q, R + 1) = AckNum(q, R)
         /\ \A n \in Nat : n <= R /\ R - 3 <= n /\ Seqnum(n) = q => AckNum(q, R) = n
BY DEF AckNum, Seqnum, SEQMOD, Seqs

-----------------------------------------------------------------------------
(* Lines.                                                                  *)

\* A frame lost, or cut short: it is neither data nor an acknowledgement.
Cut(l) == [l EXCEPT ![1] = [l[1] EXCEPT !.kind = "stub"]]
Damaged(l) == IF l = <<>> THEN {l} ELSE {l, Tail(l), Cut(l)}

LEMMA DamageKeepsOrder ==
  ASSUME NEW l \in Seq(Frame), NEW m \in Damaged(l)
  PROVE  /\ m \in Seq(Frame)
         /\ \A c, S, R : DataOK(l, c, S, R) => DataOK(m, c, S, R)
         /\ \A c, A, R : AcksOK(l, c, A, R) => AcksOK(m, c, A, R)
<1>1. CASE m = l
  BY <1>1
<1>2. CASE l # <<>> /\ m = Tail(l)
  <2>1. /\ Len(l) \in Nat \ {0} /\ Len(m) = Len(l) - 1 /\ m \in Seq(Frame)
        /\ \A i \in 1..Len(m) : i + 1 \in 1..Len(l) /\ m[i] = l[i + 1]
    BY <1>2
  <2>2. \A i, j \in 1..Len(m) : i < j => i + 1 < j + 1
    BY <2>1
  <2>3. ASSUME NEW c, NEW S, NEW R, DataOK(l, c, S, R) PROVE DataOK(m, c, S, R)
    BY <2>1, <2>2, <2>3 DEF DataOK
  <2>4. ASSUME NEW c, NEW A, NEW R, AcksOK(l, c, A, R) PROVE AcksOK(m, c, A, R)
    BY <2>1, <2>2, <2>4 DEF AcksOK
  <2> QED  BY <2>1, <2>3, <2>4
<1>3. CASE l # <<>> /\ m = Cut(l)
  <2>1. /\ l[1] \in Frame /\ Len(l) \in Nat \ {0}
        /\ [l[1] EXCEPT !.kind = "stub"] \in Frame
        /\ [l[1] EXCEPT !.kind = "stub"].kind = "stub"
    <3>1. \A x \in Frame : /\ [x EXCEPT !.kind = "stub"] \in Frame
                           /\ [x EXCEPT !.kind = "stub"].kind = "stub"
      BY DEF Frame
    <3>2. l[1] \in Frame /\ Len(l) \in Nat \ {0}
      BY <1>3
    <3> QED  BY <3>1, <3>2
  <2>2. /\ Len(m) = Len(l) /\ m \in Seq(Frame) /\ m[1].kind = "stub"
        /\ \A i \in 1..Len(l) : i # 1 => m[i] = l[i]
    <3> DEFINE x == [l[1] EXCEPT !.kind = "stub"]
    <3> HIDE DEF x
    <3>1. x \in Frame /\ x.kind = "stub" /\ m = [l EXCEPT ![1] = x] /\ 1 \in 1..Len(l)
      <4>1. x \in Frame /\ x.kind = "stub"
        BY <2>1 DEF x
      <4>2. m = [l EXCEPT ![1] = x]
        BY <1>3 DEF Cut, x
      <4>3. 1 \in 1..Len(l)
        BY <2>1
      <4> QED  BY <4>1, <4>2, <4>3
    <3>2. /\ m \in Seq(Frame) /\ Len(m) = Len(l)
          /\ \A j \in 1..Len(l) : m[j] = IF j = 1 THEN x ELSE l[j]
      BY <3>1, ExceptSeq
    <3> QED  BY <3>1, <3>2
  <2>3. \A c : ~IsData(m[1], c) /\ ~IsAck(m[1], c)
    BY <2>2 DEF IsData, IsAck
  <2>4. ASSUME NEW c, NEW S, NEW R, DataOK(l, c, S, R) PROVE DataOK(m, c, S, R)
    BY <2>2, <2>3, <2>4 DEF DataOK
  <2>5. ASSUME NEW c, NEW A, NEW R, AcksOK(l, c, A, R) PROVE AcksOK(m, c, A, R)
    BY <2>2, <2>3, <2>5 DEF AcksOK
  <2> QED  BY <2>2, <2>4, <2>5
<1> QED  BY <1>1, <1>2, <1>3 DEF Damaged

\* Frames put at the end of a line: data frames must be as new as all that
\* has been sent, acknowledgements as all that has been received.
NewData(x, c, S, R) ==
  IsData(x, c) => /\ x.data \in 1..S /\ x.seq = Seqnum(x.data)
                  /\ R <= x.data + 1 /\ S <= x.data + 1
NewAck(x, c, A, R) ==
  IsAck(x, c) => /\ AckNum(x.seq, R) >= 1 /\ A <= AckNum(x.seq, R) + 1
                 /\ R <= AckNum(x.seq, R) + 1

LEMMA JoinedData ==
  ASSUME NEW l \in Seq(Frame), NEW t \in Seq(Frame),
         NEW c, NEW S \in Nat, NEW R \in Nat, DataOK(l, c, S, R),
         \A k \in 1..Len(t) : NewData(t[k], c, S, R)
  PROVE  l \o t \in Seq(Frame) /\ DataOK(l \o t, c, S, R)
<1> DEFINE m == l \o t
<1>1. /\ m \in Seq(Frame) /\ Len(m) = Len(l) + Len(t)
      /\ Len(l) \in Nat /\ Len(t) \in Nat
      /\ \A i \in 1..Len(m) : /\ i <= Len(l) => i \in 1..Len(l) /\ m[i] = l[i]
                              /\ i > Len(l) => i - Len(l) \in 1..Len(t) /\ m[i] = t[i - Len(l)]
      /\ \A i \in 1..Len(m) : m[i].data \in Nat
  <2>1. /\ m \in Seq(Frame) /\ Len(m) = Len(l) + Len(t)
        /\ \A i \in 1..Len(m) : m[i] = IF i <= Len(l) THEN l[i] ELSE t[i - Len(l)]
    BY ConcatProperties
  <2> HIDE DEF m
  <2>2. \A i \in 1..Len(m) : m[i] \in Frame
    BY <2>1
  <2> QED  BY <2>1, <2>2 DEF Frame
<1> HIDE DEF m
<1>2. ASSUME NEW i \in 1..Len(m), IsData(m[i], c)
      PROVE  /\ m[i].data \in 1..S /\ m[i].seq = Seqnum(m[i].data)
             /\ R <= m[i].data + 1
             /\ i > Len(l) => S <= m[i].data + 1
  <2>1. CASE i <= Len(l)
    <3>1. i \in 1..Len(l) /\ m[i] = l[i]
      BY <1>1, <2>1
    <3> QED  BY <1>1, <1>2, <2>1, <3>1 DEF DataOK
  <2>2. CASE i > Len(l)
    <3>1. i - Len(l) \in 1..Len(t) /\ m[i] = t[i - Len(l)]
      BY <1>1, <2>2
    <3>2. NewData(m[i], c, S, R)
      BY <3>1
    <3> QED  BY <1>2, <3>2 DEF NewData
  <2> QED  BY <1>1, <2>1, <2>2
<1>3. ASSUME NEW i \in 1..Len(m), IsData(m[i], c),
             NEW j \in 1..Len(m), i < j, IsData(m[j], c)
      PROVE  m[i].data <= m[j].data + 1
  <2>1. CASE j > Len(l)
    <3>1. m[i].data \in 1..S /\ S <= m[j].data + 1 /\ m[j].data \in Nat
      BY <1>1, <1>2, <1>3, <2>1
    <3> QED  BY <3>1
  <2>2. CASE j <= Len(l)
    <3>1. i \in 1..Len(l) /\ m[i] = l[i] /\ j \in 1..Len(l) /\ m[j] = l[j]
      BY <1>1, <1>3, <2>2
    <3> QED  BY <1>3, <3>1 DEF DataOK
  <2> QED  BY <1>1, <2>1, <2>2
<1>4. DataOK(m, c, S, R)
  BY <1>2, <1>3 DEF DataOK
<1> QED  BY <1>1, <1>4 DEF m

LEMMA JoinedAcks ==
  ASSUME NEW l \in Seq(Frame), NEW t \in Seq(Frame),
         NEW c, NEW A \in Int, NEW R \in Nat, AcksOK(l, c, A, R),
         \A k \in 1..Len(t) : NewAck(t[k], c, A, R)
  PROVE  l \o t \in Seq(Frame) /\ AcksOK(l \o t, c, A, R)
<1> DEFINE m == l \o t
           n(i) == AckNum(m[i].seq, R)
<1>1. /\ m \in Seq(Frame) /\ Len(m) = Len(l) + Len(t)
      /\ Len(l) \in Nat /\ Len(t) \in Nat
      /\ \A i \in 1..Len(m) : /\ i <= Len(l) => i \in 1..Len(l) /\ m[i] = l[i]
                              /\ i > Len(l) => i - Len(l) \in 1..Len(t) /\ m[i] = t[i - Len(l)]
      /\ \A i \in 1..Len(m) : m[i].seq \in Seqs
  <2>1. /\ m \in Seq(Frame) /\ Len(m) = Len(l) + Len(t)
        /\ \A i \in 1..Len(m) : m[i] = IF i <= Len(l) THEN l[i] ELSE t[i - Len(l)]
    BY ConcatProperties
  <2> HIDE DEF m
  <2>2. \A i \in 1..Len(m) : m[i] \in Frame
    BY <2>1
  <2> QED  BY <2>1, <2>2 DEF Frame
<1> HIDE DEF m
<1>2. \A i \in 1..Len(m) : n(i) \in Int /\ n(i) <= R
  BY <1>1, AckNumbers
<1>3. ASSUME NEW i \in 1..Len(m), IsAck(m[i], c)
      PROVE  n(i) >= 1 /\ A <= n(i) + 1 /\ (i > Len(l) => R <= n(i) + 1)
  <2>1. CASE i <= Len(l)
    <3>1. i \in 1..Len(l) /\ m[i] = l[i]
      BY <1>1, <2>1
    <3> QED  BY <1>1, <1>3, <2>1, <3>1 DEF AcksOK
  <2>2. CASE i > Len(l)
    <3>1. i - Len(l) \in 1..Len(t) /\ m[i] = t[i - Len(l)]
      BY <1>1, <2>2
    <3>2. NewAck(m[i], c, A, R)
      BY <3>1
    <3> QED  BY <1>3, <3>2 DEF NewAck
  <2> QED  BY <1>1, <2>1, <2>2
<1>4. ASSUME NEW i \in 1..Len(m), IsAck(m[i], c),
             NEW j \in 1..Len(m), i < j, IsAck(m[j], c)
      PROVE  n(i) <= n(j) + 1
  <2>1. CASE j > Len(l)
    <3>1. n(i) \in Int /\ n(j) \in Int /\ n(i) <= R /\ R <= n(j) + 1
      BY <1>1, <1>2, <1>3, <1>4, <2>1
    <3> HIDE DEF n
    <3> QED  BY <3>1
  <2>2. CASE j <= Len(l)
    <3>1. i \in 1..Len(l) /\ m[i] = l[i] /\ j \in 1..Len(l) /\ m[j] = l[j]
      BY <1>1, <1>4, <2>2
    <3> QED  BY <1>4, <3>1 DEF AcksOK
  <2> QED  BY <1>1, <2>1, <2>2
<1>5. AcksOK(m, c, A, R)
  BY <1>3, <1>4 DEF AcksOK
<1> QED  BY <1>1, <1>5 DEF m

LEMMA AppendJoins ==
  ASSUME NEW l \in Seq(Frame), NEW x \in Frame
  PROVE  Append(l, x) = l \o <<x>> /\ <<x>> \in Seq(Frame) /\ Len(<<x>>) = 1 /\ <<x>>[1] = x
OBVIOUS

-----------------------------------------------------------------------------
(* What the sender remembers.                                              *)

LEMMA WaitingCounted ==
  ASSUME NEW p \in Pchannel
  PROVE  /\ Unacked(p) = Waits(p, Nth(p, 0)) + Waits(p, Nth(p, 1))
         /\ \A i : Waits(p, i) \in {0, 1} /\ (Waits(p, i) = 1 <=> p.pkts[i].state = "WAIT")
         /\ Unacked(p) \in 0..2
         /\ Cardinality(Free(p)) = 2 - Unacked(p)
<1>1. \A i : Waits(p, i) \in {0, 1} /\ (Waits(p, i) = 1 <=> p.pkts[i].state = "WAIT")
  BY DEF Waits
<1>2. \/ Nth(p, 0) = 0 /\ Nth(p, 1) = 1
      \/ Nth(p, 0) = 1 /\ Nth(p, 1) = 0
  BY TwoBuffers DEF Pchannel
<1>3. Waits(p, 0) \in {0, 1} /\ Waits(p, 1) \in {0, 1}
  BY <1>1
<1>4. Unacked(p) = Waits(p, Nth(p, 0)) + Waits(p, Nth(p, 1))
  BY <1>2, <1>3 DEF Unacked
<1> QED  BY <1>1, <1>3, <1>4, FreeCounted DEF Unacked

\* psend takes the buffer Control will visit first, if it is free.
LEMMA FirstFreeOrder ==
  ASSUME NEW p \in Pchannel, Free(p) # {}
  PROVE  FirstFree(p) = IF Nth(p, 0) \in Free(p) THEN Nth(p, 0) ELSE Nth(p, 1)
<1> DEFINE First(k) == /\ Nth(p, k) \in Free(p)
                       /\ \A j \in 0..(k - 1) : Nth(p, j) \notin Free(p)
<1>1. Free(p) \subseteq {0, 1} /\ {Nth(p, 0), Nth(p, 1)} = {0, 1}
  BY TwoBuffers DEF Free, Pchannel
<1>2. FirstFree(p) = Nth(p, CHOOSE k \in Bufs : First(k))
  BY DEF FirstFree
<1>3. First(0) <=> Nth(p, 0) \in Free(p)
  <2>1. 0..(0 - 1) = {}
    OBVIOUS
  <2> QED  BY <2>1
<1>4. First(1) <=> Nth(p, 1) \in Free(p) /\ Nth(p, 0) \notin Free(p)
  <2>1. 0..(1 - 1) = {0}
    OBVIOUS
  <2> QED  BY <2>1
<1>5. First(0) \/ First(1)
  BY <1>1, <1>3, <1>4
<1> HIDE DEF First
<1>6. First(CHOOSE k \in Bufs : First(k)) /\ (CHOOSE k \in Bufs : First(k)) \in {0, 1}
  BY <1>5, TwoBuffers
<1> QED  BY <1>2, <1>3, <1>4, <1>6

LEMMA SentSender ==
  ASSUME NEW p \in Pchannel, NEW S \in Nat, SenderOK(p, S), Free(p) # {},
         NEW pkt \in Pktstate, pkt.state = "WAIT", pkt.seq = p.xseq, pkt.data = S + 1,
         NEW n
  PROVE  LET q == [p EXCEPT !.pkts[FirstFree(p)] = pkt, !.freepkts = n,
                            !.xseq = NextSeq(@)]
         IN  SenderOK(q, S + 1) /\ Unacked(q) = Unacked(p) + 1
<1> DEFINE f == FirstFree(p)
           q == [p EXCEPT !.pkts[f] = pkt, !.freepkts = n, !.xseq = NextSeq(@)]
           a == Nth(p, 0)
           b == Nth(p, 1)
<1>1. a \in Bufs /\ b \in Bufs /\ a # b /\ Bufs = {0, 1}
  BY TwoBuffers DEF Pchannel
<1>2. f = IF Waits(p, a) = 0 THEN a ELSE b
  BY <1>1, FirstFreeOrder DEF Free, Waits
<1>3. f \in Bufs /\ Waits(p, f) = 0
  BY FirstFreeIsFree DEF Free, Waits
<1> HIDE DEF f
<1>4. /\ q.nextpkt = p.nextpkt /\ q.xseq = NextSeq(p.xseq)
      /\ q.pkts = [p.pkts EXCEPT ![f] = pkt]
  BY DEF Pchannel
<1>5. Nth(q, 0) = a /\ Nth(q, 1) = b
  BY <1>4 DEF Nth
<1> HIDE DEF q
<1>6. q.pkts[f] = pkt /\ \A i \in Bufs : i # f => q.pkts[i] = p.pkts[i]
  BY <1>3, <1>4 DEF Pchannel
<1>7. Waits(q, f) = 1 /\ \A i \in Bufs : i # f => Waits(q, i) = Waits(p, i)
  BY <1>6 DEF Waits
<1>8. Waits(p, a) \in {0, 1} /\ Waits(p, b) \in {0, 1}
  BY DEF Waits
<1>9. /\ Unacked(p) = Waits(p, a) + Waits(p, b)
      /\ Unacked(q) = Waits(q, a) + Waits(q, b)
  <2>1. Unacked(p) = Waits(p, a) + Waits(p, b)
    BY WaitingCounted
  <2>2. Unacked(q) = Waits(q, a) + Waits(q, b)
    <3>1. \/ a = 0 /\ b = 1
          \/ a = 1 /\ b = 0
      BY <1>1
    <3>2. Waits(q, 0) \in {0, 1} /\ Waits(q, 1) \in {0, 1}
      BY DEF Waits
    <3> QED  BY <3>1, <3>2 DEF Unacked
  <2> QED  BY <2>1, <2>2
<1>10. Unacked(q) = Unacked(p) + 1 /\ Unacked(p) \in {0, 1}
  BY <1>1, <1>2, <1>3, <1>7, <1>8, <1>9
<1>11. q.xseq = (S + 1) % SEQMOD /\ pkt.seq = Seqnum(S + 1)
  BY <1>4, SeqNumbers DEF SenderOK
<1>12. SenderOK(q, S + 1)
  <2>1. Unacked(q) <= S + 1
    BY <1>10 DEF SenderOK
  <2>2. CASE f = a
    <3>1. Waits(p, a) = 0 /\ Waits(p, b) = 0
      BY <1>1, <1>2, <1>3, <1>8, <2>2 DEF SenderOK, Waits
    <3>2. /\ q.pkts[a] = pkt /\ q.pkts[b].state # "WAIT" /\ Unacked(q) = 1
      BY <1>1, <1>6, <1>9, <1>10, <2>2, <3>1 DEF Waits
    <3> QED  BY <1>5, <1>11, <2>1, <3>2 DEF SenderOK
  <2>3. CASE f = b
    <3>1. Waits(p, a) = 1 /\ Waits(p, b) = 0
      BY <1>1, <1>2, <1>3, <1>8, <2>3
    <3>2. /\ q.pkts[b] = pkt /\ q.pkts[a] = p.pkts[a] /\ Unacked(q) = 2 /\ Unacked(p) = 1
          /\ p.pkts[a].state = "WAIT"
      BY <1>1, <1>6, <1>9, <1>10, <2>3, <3>1 DEF Waits
    <3> QED  BY <1>5, <1>11, <2>1, <3>2 DEF SenderOK
  <2> QED  BY <1>2, <2>2, <2>3
<1> QED  BY <1>10, <1>12 DEF f, q

\* Control looks for the packet before the n-th, then for the n-th.
LooksFor(n, k) == IF k = 1 THEN n - 1 ELSE n

\* From s to r it looked for packet m in buffer i.
Looked(p, i, m, s, r) ==
  /\ Seqnum(m) # p.pkts[i].seq => r = s
  /\ Seqnum(m) = p.pkts[i].seq /\ p.pkts[i].state = "WAIT"
     => /\ r.at = s.at + 1 /\ r.hit \in Seq(Bufs)
        /\ Len(r.hit) = Len(s.hit) + 1 /\ Hits(r) = Hits(s) \cup {i}

LEMMA ScanNumbers ==
  ASSUME NEW p, NEW n \in Nat, NEW k \in {1, 2}, NEW s,
         Nth(p, s.at) \in Bufs, s.hit \in Seq(Bufs)
  PROVE  Looked(p, Nth(p, s.at), LooksFor(n, k), s, ScanStep(p, Seqnum(n), k, s))
<1> DEFINE i == Nth(p, s.at)
           m == LooksFor(n, k)
           r == ScanStep(p, Seqnum(n), k, s)
<1>1. (Seqnum(n) + SEQMOD - NPCBUFS + k) % SEQMOD = Seqnum(m)
  <2>1. CASE k = 1
    BY <2>1, TwoBuffers DEF Seqnum, LooksFor
  <2>2. CASE k = 2
    BY <2>2, TwoBuffers DEF Seqnum, LooksFor
  <2> QED  BY <2>1, <2>2
<1>2. Seqnum(m) # p.pkts[i].seq => r = s
  BY <1>1 DEF ScanStep
<1>3. ASSUME Seqnum(m) = p.pkts[i].seq, p.pkts[i].state = "WAIT"
      PROVE  /\ r.at = s.at + 1 /\ r.hit \in Seq(Bufs)
             /\ Len(r.hit) = Len(s.hit) + 1 /\ Hits(r) = Hits(s) \cup {i}
  <2> DEFINE h == s.hit
  <2>1. r.at = s.at + 1 /\ r.hit = Append(h, i)
    BY <1>1, <1>3 DEF ScanStep
  <2>2. h \in Seq(Bufs)
    OBVIOUS
  <2> HIDE DEF h
  <2>3. /\ Append(h, i) \in Seq(Bufs) /\ Len(Append(h, i)) = Len(h) + 1
        /\ Append(h, i)[Len(h) + 1] = i
        /\ \A j \in 1..Len(h) : Append(h, i)[j] = h[j]
    BY <2>2
  <2>4. /\ r.hit \in Seq(Bufs) /\ Len(r.hit) = Len(h) + 1
        /\ r.hit[Len(h) + 1] = i
        /\ \A j \in 1..Len(h) : r.hit[j] = h[j]
    BY <2>1, <2>3, Zenon
  <2> DEFINE g == r.hit
  <2>5. {g[j] : j \in 1..Len(g)} = {h[j] : j \in 1..Len(h)} \cup {i}
    <3>1. /\ Len(g) = Len(h) + 1 /\ g[Len(h) + 1] = i
          /\ \A j \in 1..Len(h) : g[j] = h[j]
      BY <2>4
    <3> HIDE DEF g
    <3>2. 1..Len(g) = 1..Len(h) \cup {Len(h) + 1}
      BY <2>2, <3>1
    <3> QED  BY <3>1, <3>2
  <2>6. Hits(r) = Hits(s) \cup {i}
    BY <2>5 DEF Hits, h
  <2> HIDE DEF g
  <2>7. r.at = s.at + 1
    BY <2>1
  <2>8. r.hit \in Seq(Bufs) /\ Len(r.hit) = Len(s.hit) + 1
    BY <2>4 DEF h
  <2> QED  BY <2>6, <2>7, <2>8
<1> HIDE DEF r, i, m
<1>4. Looked(p, i, m, s, r)
  BY <1>2, <1>3, Zenon DEF Looked
<1> QED  BY <1>4 DEF r, i, m

\* An acknowledgement of the n-th packet, not older than the last but one
\* known to be delivered, hits exactly the packets up to the n-th.
LEMMA AckHits ==
  ASSUME NEW p \in Pchannel, NEW S \in Nat, SenderOK(p, S),
         NEW n \in Nat, 1 <= n, S - Unacked(p) <= n + 1, n <= S,
         NEW A, A = S - Unacked(p)
  PROVE  LET s == Scan(p, Seqnum(n))
         IN  \/ n <= A /\ Len(s.hit) = 0 /\ Hits(s) = {}
             \/ n = A + 1 /\ s.at = 1 /\ Len(s.hit) = 1 /\ Hits(s) = {Nth(p, 0)}
             \/ n = A + 2 /\ s.at = 2 /\ Len(s.hit) = 2 /\ Hits(s) = {Nth(p, 0), Nth(p, 1)}
<1> DEFINE a == Nth(p, 0)
           b == Nth(p, 1)
           z == [at |-> 0, hit |-> <<>>]
           s1 == ScanStep(p, Seqnum(n), 1, z)
           s == ScanStep(p, Seqnum(n), 2, s1)
<1>1. /\ a \in Bufs /\ b \in Bufs /\ a # b /\ Seqnum(n) \in Seqs
      /\ Unacked(p) \in 0..2 /\ Unacked(p) = Waits(p, a) + Waits(p, b)
      /\ \A i : Waits(p, i) \in {0, 1} /\ (Waits(p, i) = 1 <=> p.pkts[i].state = "WAIT")
  BY TwoBuffers, SeqNumbers, WaitingCounted DEF Pchannel
<1>2. Scan(p, Seqnum(n)) = s
  BY DEF Scan
<1>3. /\ s.hit \in Seq(Bufs) /\ Len(s.hit) \in 0..2
      /\ \A k \in 1..Len(s.hit) : Waits(p, s.hit[k]) = 1
  BY <1>1, <1>2, ScanFinds
<1>4. z.at = 0 /\ z.hit \in Seq(Bufs) /\ Len(z.hit) = 0 /\ Hits(z) = {} /\ a = Nth(p, z.at)
  BY DEF Hits
<1> HIDE DEF z
<1>5. Looked(p, a, n - 1, z, s1)
  <2>1. Looked(p, Nth(p, z.at), LooksFor(n, 1), z, s1)
    BY <1>1, <1>4, ScanNumbers
  <2> HIDE DEF s1, a
  <2> QED  BY <1>4, <2>1 DEF LooksFor
<1> HIDE DEF s1
<1>6. ASSUME NEW i \in Bufs, i = Nth(p, s1.at), s1.hit \in Seq(Bufs)
      PROVE  Looked(p, i, n, s1, s)
  <2>1. Looked(p, Nth(p, s1.at), LooksFor(n, 2), s1, s)
    BY <1>6, ScanNumbers
  <2> HIDE DEF s
  <2> QED  BY <1>6, <2>1 DEF LooksFor
<1> HIDE DEF s
<1>7. CASE Unacked(p) = 0
  <2>1. \A i \in Bufs : Waits(p, i) = 0
    BY <1>1, <1>7, TwoBuffers DEF Unacked
  <2>2. Len(s.hit) = 0
    BY <1>3, <2>1
  <2> QED  BY <1>2, <1>7, <2>2 DEF Hits
<1>8. CASE Unacked(p) > 0
  <2>1. p.pkts[a].state = "WAIT" /\ p.pkts[a].data = A + 1 /\ p.pkts[a].seq = Seqnum(A + 1)
    BY <1>1, <1>8 DEF SenderOK
  <2>2. A \in Nat /\ A + 1 <= S /\ S <= A + 2
    BY <1>1, <1>8 DEF SenderOK
  <2> HIDE DEF a, b
  <2>3. CASE n = A + 2
    <3>1. p.pkts[b].state = "WAIT" /\ p.pkts[b].seq = Seqnum(n)
      BY <1>1, <2>1, <2>2, <2>3 DEF SenderOK, a, b
    <3>2. s1.at = 1 /\ s1.hit \in Seq(Bufs) /\ Len(s1.hit) = 1 /\ Hits(s1) = {a}
      <4>1. n - 1 = A + 1
        BY <2>2, <2>3
      <4> QED  BY <1>4, <1>5, <2>1, <4>1 DEF Looked
    <3>3. b = Nth(p, s1.at)
      BY <3>2 DEF b
    <3>4. s.at = s1.at + 1 /\ Len(s.hit) = Len(s1.hit) + 1 /\ Hits(s) = Hits(s1) \cup {b}
      BY <1>1, <1>6, <3>1, <3>2, <3>3 DEF Looked
    <3>5. s.at = 2 /\ Len(s.hit) = 2 /\ Hits(s) = {a, b}
      BY <3>2, <3>4
    <3> QED  BY <1>2, <2>3, <3>5 DEF a, b
  <2>4. CASE n # A + 2
    <3>1. Seqnum(n - 1) # Seqnum(A + 1)
      <4> DEFINE m == n - 1
                 r == A + 1
      <4>1. m \in Nat /\ r \in Nat /\ m # r /\ m <= r + 3 /\ r <= m + 3
        BY <2>2, <2>4
      <4> HIDE DEF m, r
      <4>2. Seqnum(m) # Seqnum(r)
        BY <4>1, SeqNumbers
      <4> QED  BY <4>2 DEF m, r
    <3>2. s1 = z
      BY <1>5, <2>1, <3>1 DEF Looked
    <3>3. CASE n = A + 1
      <4>1. s.at = s1.at + 1 /\ Len(s.hit) = Len(s1.hit) + 1 /\ Hits(s) = Hits(s1) \cup {a}
        BY <1>1, <1>4, <1>6, <2>1, <3>2, <3>3 DEF Looked
      <4>2. s.at = 1 /\ Len(s.hit) = 1 /\ Hits(s) = {a}
        BY <1>4, <3>2, <4>1
      <4> QED  BY <1>2, <3>3, <4>2 DEF a
    <3>4. CASE n <= A
      <4>1. Seqnum(n) # Seqnum(A + 1)
        <5> DEFINE r == A + 1
        <5>1. r \in Nat /\ n # r /\ n <= r + 3 /\ r <= n + 3
          BY <2>2, <3>4
        <5> HIDE DEF r
        <5>2. Seqnum(n) # Seqnum(r)
          BY <5>1, SeqNumbers
        <5> QED  BY <5>2 DEF r
      <4>2. s = z
        BY <1>1, <1>4, <1>6, <2>1, <3>2, <4>1 DEF Looked
      <4> QED  BY <1>2, <1>4, <3>4, <4>2
    <3> QED  BY <2>2, <2>4, <3>3, <3>4
  <2> QED  BY <2>3, <2>4
<1> QED  BY <1>1, <1>7, <1>8

\* So an acknowledgement moves what the sender knows to be delivered to the
\* n-th packet, and the buffers stay in the order they are visited.
LEMMA AckedSender ==
  ASSUME NEW p \in Pchannel, NEW S \in Nat, SenderOK(p, S),
         NEW n \in Nat, 1 <= n, S - Unacked(p) <= n + 1, n <= S,
         Hits(Scan(p, Seqnum(n))) # {}
  PROVE  LET q == Released(p, Scan(p, Seqnum(n)))
         IN  SenderOK(q, S) /\ S - Unacked(q) = n /\ Unacked(q) < Unacked(p)
<1> DEFINE A == S - Unacked(p)
           s == Scan(p, Seqnum(n))
           q == Released(p, s)
           a == Nth(p, 0)
           b == Nth(p, 1)
<1> SUFFICES SenderOK(q, S) /\ S - Unacked(q) = n /\ Unacked(q) < Unacked(p)
  OBVIOUS
<1>1. \/ n = A + 1 /\ s.at = 1 /\ Hits(s) = {a}
      \/ n = A + 2 /\ s.at = 2 /\ Hits(s) = {a, b}
  BY AckHits
<1>2. /\ Hits(s) \subseteq Bufs /\ s.at \in {1, 2}
      /\ \A i \in Hits(s) : Waits(p, i) = 1
      /\ Seqnum(n) \in Seqs
  <2>1. Seqnum(n) \in Seqs
    BY SeqNumbers
  <2>2. /\ s.hit \in Seq(Bufs) /\ \A k \in 1..Len(s.hit) : Waits(p, s.hit[k]) = 1
    BY <2>1, ScanFinds
  <2>3. Hits(s) \subseteq Bufs /\ \A i \in Hits(s) : Waits(p, i) = 1
    BY <2>2 DEF Hits
  <2> QED  BY <1>1, <2>1, <2>3
<1> HIDE DEF s
<1>3. /\ a \in Bufs /\ b \in Bufs /\ a # b /\ Bufs = {0, 1}
      /\ a = p.nextpkt /\ b = 1 - p.nextpkt
  BY TwoBuffers DEF Pchannel
<1>4. /\ q.xseq = p.xseq /\ q.nextpkt = Nth(p, s.at)
      /\ \A i \in Bufs : IF i \in Hits(s) THEN q.pkts[i].state = "OK"
                                          ELSE q.pkts[i] = p.pkts[i]
  <2>1. \A x \in Pktstate : [x EXCEPT !.state = "OK", !.timo = 0].state = "OK"
    BY DEF Pktstate
  <2>2. \A i \in Bufs : p.pkts[i] \in Pktstate
    BY DEF Pchannel
  <2>3. q.xseq = p.xseq /\ q.nextpkt = Nth(p, s.at)
    BY DEF Released, Pchannel
  <2>4. q.pkts = [i \in Bufs |-> IF i \notin Hits(s) THEN p.pkts[i]
                                 ELSE [p.pkts[i] EXCEPT !.state = "OK", !.timo = 0]]
    BY DEF Released, Pchannel
  <2> HIDE DEF q
  <2>5. ASSUME NEW i \in Bufs
        PROVE  IF i \in Hits(s) THEN q.pkts[i].state = "OK" ELSE q.pkts[i] = p.pkts[i]
    <3>1. CASE i \notin Hits(s)
      BY <2>4, <3>1
    <3>2. CASE i \in Hits(s)
      <4>1. q.pkts[i] = [p.pkts[i] EXCEPT !.state = "OK", !.timo = 0]
        BY <2>4, <3>2
      <4>2. p.pkts[i] \in Pktstate
        BY <2>2
      <4> QED  BY <2>1, <3>2, <4>1, <4>2
    <3> QED  BY <3>1, <3>2
  <2> QED  BY <2>3, <2>5
<1>5. \A i \in Bufs : Waits(q, i) = IF i \in Hits(s) THEN 0 ELSE Waits(p, i)
  BY <1>4 DEF Waits
<1>6. /\ Unacked(p) = Waits(p, a) + Waits(p, b) /\ Unacked(q) = Waits(q, a) + Waits(q, b)
      /\ Waits(p, a) \in {0, 1} /\ Waits(p, b) \in {0, 1} /\ Unacked(p) \in 0..2
      /\ \A i : Waits(q, i) \in {0, 1} /\ (Waits(q, i) = 1 <=> q.pkts[i].state = "WAIT")
      /\ \A i : Waits(p, i) = 1 <=> p.pkts[i].state = "WAIT"
  <2>1. \A i : Waits(q, i) \in {0, 1} /\ (Waits(q, i) = 1 <=> q.pkts[i].state = "WAIT")
    BY DEF Waits
  <2>2. Unacked(q) = Waits(q, a) + Waits(q, b)
    <3>1. Unacked(q) = Waits(q, 0) + Waits(q, 1)
      BY DEF Unacked
    <3>2. Waits(q, 0) \in {0, 1} /\ Waits(q, 1) \in {0, 1}
      BY <2>1
    <3> HIDE DEF a, b
    <3>3. (a = 0 /\ b = 1) \/ (a = 1 /\ b = 0)
      BY <1>3
    <3> HIDE DEF q
    <3> QED  BY <3>1, <3>2, <3>3
  <2> QED  BY <2>1, <2>2, WaitingCounted
<1> HIDE DEF q
<1>7. q.xseq = S % SEQMOD
  BY <1>4 DEF SenderOK
<1>8. CASE n = A + 1 /\ s.at = 1 /\ Hits(s) = {a}
  <2>1. Nth(q, 0) = b /\ Nth(q, 1) = a
    <3>1. q.nextpkt = 1 - p.nextpkt /\ p.nextpkt \in {0, 1}
      BY <1>3, <1>4, <1>8 DEF Pchannel
    <3> QED  BY <1>3, <3>1 DEF Nth, NPCBUFS
  <2> HIDE DEF a, b
  <2>2. /\ q.pkts[a].state # "WAIT" /\ q.pkts[b] = p.pkts[b]
        /\ Waits(p, a) = 1 /\ Waits(q, a) = 0 /\ Waits(q, b) = Waits(p, b)
    BY <1>2, <1>3, <1>4, <1>5, <1>8
  <2>3. Unacked(q) = Unacked(p) - 1 /\ Unacked(q) \in {0, 1}
    BY <1>6, <2>2
  <2>4. S - Unacked(q) = n /\ Unacked(q) < Unacked(p) /\ Unacked(q) <= S
    BY <1>6, <1>8, <2>3 DEF SenderOK
  <2>5. q.pkts[b].state = "WAIT" =>
          /\ q.pkts[b].data = S - Unacked(q) + 1 /\ q.pkts[b].seq = Seqnum(q.pkts[b].data)
    <3>1. SUFFICES ASSUME q.pkts[b].state = "WAIT"
                   PROVE  /\ q.pkts[b].data = S - Unacked(q) + 1
                          /\ q.pkts[b].seq = Seqnum(q.pkts[b].data)
      OBVIOUS
    <3>2. p.pkts[b].data = S /\ p.pkts[b].seq = Seqnum(S)
      BY <2>2, <3>1 DEF SenderOK, b
    <3>3. Unacked(q) = 1
      BY <1>6, <2>2, <3>1
    <3> QED  BY <2>2, <3>2, <3>3
  <2>6. SenderOK(q, S)
    BY <1>7, <2>1, <2>2, <2>4, <2>5 DEF SenderOK
  <2> QED  BY <2>4, <2>6
<1>9. CASE n = A + 2 /\ s.at = 2 /\ Hits(s) = {a, b}
  <2>1. Waits(p, a) = 1 /\ Waits(p, b) = 1 /\ Waits(q, a) = 0 /\ Waits(q, b) = 0
    BY <1>2, <1>3, <1>5, <1>9
  <2>2. Unacked(p) = 2 /\ Unacked(q) = 0
    BY <1>6, <2>1
  <2>3. \A i \in Bufs : q.pkts[i].state # "WAIT"
    BY <1>3, <1>4, <1>9
  <2>4. Nth(q, 0) \in Bufs /\ Nth(q, 1) \in Bufs
    <3>1. q.nextpkt \in Bufs
      <4>1. Nth(p, 2) \in Bufs
        BY TwoBuffers DEF Pchannel
      <4> QED  BY <1>4, <1>9, <4>1
    <3> QED  BY <3>1, TwoBuffers DEF Nth
  <2>5. SenderOK(q, S)
    BY <1>7, <2>2, <2>3, <2>4 DEF SenderOK
  <2> QED  BY <1>9, <2>2, <2>5
<1> QED  BY <1>1, <1>8, <1>9

\* The order is a matter of the packets and of nextpkt alone.
LEMMA SameSender ==
  ASSUME NEW p \in Pchannel, NEW q \in Pchannel, NEW S, SenderOK(p, S),
         q.xseq = p.xseq, q.nextpkt = p.nextpkt,
         \A i \in Bufs : /\ q.pkts[i].state = p.pkts[i].state
                         /\ q.pkts[i].data = p.pkts[i].data
                         /\ q.pkts[i].seq = p.pkts[i].seq
  PROVE  SenderOK(q, S) /\ Unacked(q) = Unacked(p)
<1>1. Nth(q, 0) = Nth(p, 0) /\ Nth(q, 1) = Nth(p, 1)
  BY DEF Nth
<1>2. Nth(p, 0) \in Bufs /\ Nth(p, 1) \in Bufs /\ Bufs = {0, 1}
  BY TwoBuffers
<1>3. Unacked(q) = Unacked(p)
  BY <1>2 DEF Unacked, Waits
<1> QED  BY <1>1, <1>2, <1>3 DEF SenderOK

-----------------------------------------------------------------------------
(* One direction of a channel.                                             *)

LEMMA DirectionNumbers ==
  ASSUME NEW p \in Pchannel, NEW S \in Nat, NEW g \in Seq(Nat), NEW rseq,
         NEW data, NEW acks, NEW c, DirectionOK(p, rseq, data, acks, c, S, g)
  PROVE  /\ Len(g) \in Nat /\ S - Unacked(p) \in Nat /\ Unacked(p) \in 0..2
         /\ S - Unacked(p) <= Len(g) /\ Len(g) <= S /\ S <= Len(g) + 2
<1>1. Unacked(p) \in 0..2 /\ Unacked(p) <= S /\ Len(g) \in Nat
  BY WaitingCounted DEF DirectionOK, SenderOK
<1> QED  BY <1>1 DEF DirectionOK

\* A packet that waits is as new as all that has been sent.
LEMMA WaitingIsNew ==
  ASSUME NEW p \in Pchannel, NEW S \in Nat, NEW g \in Seq(Nat), NEW rseq,
         NEW data, NEW acks, NEW c, DirectionOK(p, rseq, data, acks, c, S, g),
         NEW i \in Bufs, p.pkts[i].state = "WAIT", NEW d
  PROVE  NewData(DataFrame(d, p.pkts[i]), c, S, Len(g))
<1> DEFINE a == Nth(p, 0)
           b == Nth(p, 1)
           R == Len(g)
           u == Unacked(p)
<1>1. /\ R \in Nat /\ u \in 0..2 /\ u <= S /\ R <= S /\ S - u <= R
  BY DirectionNumbers DEF DirectionOK, SenderOK
<1>2. (i = a \/ i = b) /\ Waits(p, i) = 1 /\ u = Waits(p, a) + Waits(p, b)
      /\ \A j : Waits(p, j) \in {0, 1} /\ (Waits(p, j) = 1 <=> p.pkts[j].state = "WAIT")
  BY WaitingCounted, TwoBuffers DEF Waits, Pchannel
<1>3. p.pkts[i].data \in {S, S - u + 1} /\ u > 0 /\ p.pkts[i].seq = Seqnum(p.pkts[i].data)
  <2>1. SenderOK(p, S)
    BY DEF DirectionOK
  <2>2. CASE i = a
    BY <1>2, <2>1, <2>2 DEF SenderOK
  <2>3. CASE i = b
    <3>1. p.pkts[i].data = S /\ p.pkts[i].seq = Seqnum(S)
      BY <2>1, <2>3 DEF SenderOK
    <3> QED  BY <1>2, <2>3, <3>1
  <2> QED  BY <1>2, <2>2, <2>3
<1> DEFINE n == p.pkts[i].data
<1>4. n \in 1..S /\ R <= n + 1 /\ S <= n + 1
  <2> HIDE DEF n, u, R
  <2>1. n \in {S, S - u + 1} /\ u > 0
    BY <1>3 DEF n, u
  <2> QED  BY <1>1, <2>1
<1>5. /\ DataFrame(d, p.pkts[i]).data = n
      /\ DataFrame(d, p.pkts[i]).seq = p.pkts[i].seq
      /\ DataFrame(d, p.pkts[i]).chan = d
  BY DEF DataFrame
<1> QED  BY <1>3, <1>4, <1>5 DEF NewData, IsData

\* A data frame at the head of the line: within two of what is expected.
LEMMA FrameNumber ==
  ASSUME NEW p \in Pchannel, NEW S \in Nat, NEW g \in Seq(Nat), NEW rseq,
         NEW data \in Seq(Frame), NEW acks, NEW c,
         DirectionOK(p, rseq, data, acks, c, S, g),
         data # <<>>, IsData(data[1], c)
  PROVE  /\ data[1].data \in 1..S /\ data[1].seq = Seqnum(data[1].data)
         /\ Len(g) <= data[1].data + 1 /\ data[1].data <= Len(g) + 2
         /\ rseq = Len(g) % SEQMOD
<1> DEFINE R == Len(g)
           n == data[1].data
<1>1. R \in Nat /\ R <= S /\ S <= R + 2
  BY DirectionNumbers
<1>2. n \in 1..S /\ data[1].seq = Seqnum(n) /\ R <= n + 1 /\ rseq = R % SEQMOD
  <2>1. 1 \in 1..Len(data)
    OBVIOUS
  <2> QED  BY <2>1 DEF DirectionOK, DataOK
<1> HIDE DEF R, n
<1>3. n <= R + 2
  BY <1>1, <1>2
<1> QED  BY <1>2, <1>3 DEF R, n

\* The frame expected is the next packet; a retransmission is one of the
\* last two that were got.
LEMMA NextNumber ==
  ASSUME NEW n \in Nat, NEW R \in Nat, R <= n + 1, n <= R + 2, Seqnum(n) = R % SEQMOD
  PROVE  n = R + 1
BY DEF Seqnum, SEQMOD

LEMMA OldNumber ==
  ASSUME NEW n \in Nat, NEW R \in Nat, R <= n + 1, n <= R + 2,
         \E k \in 1..NPCBUFS : Seqnum(n) = ((R % SEQMOD) + SEQMOD - k) % SEQMOD
  PROVE  n = R \/ n = R - 1
<1>1. CASE Seqnum(n) = ((R % SEQMOD) + SEQMOD - 1) % SEQMOD
  <2>1. ((R % SEQMOD) + SEQMOD - 1) % SEQMOD = Seqnum(R)
    BY DEF SEQMOD, Seqnum
  <2>2. n <= R + 3 /\ R <= n + 3
    OBVIOUS
  <2> QED  BY <1>1, <2>1, <2>2, SeqNumbers
<1>2. CASE Seqnum(n) = ((R % SEQMOD) + SEQMOD - 2) % SEQMOD
  BY <1>2 DEF Seqnum, SEQMOD
<1>3. 1..NPCBUFS = {1, 2}
  BY TwoBuffers
<1> QED  BY <1>1, <1>2, <1>3

\* An acknowledgement at the head of the line, of the n-th packet.
LEMMA AckNumber ==
  ASSUME NEW p \in Pchannel, NEW S \in Nat, NEW g \in Seq(Nat), NEW rseq,
         NEW data, NEW acks \in Seq(Frame), NEW c,
         DirectionOK(p, rseq, data, acks, c, S, g),
         acks # <<>>, IsAck(acks[1], c)
  PROVE  LET n == AckNum(acks[1].seq, Len(g))
         IN  /\ n \in Nat /\ 1 <= n /\ n <= Len(g) /\ S - Unacked(p) <= n + 1
             /\ acks[1].seq = Seqnum(n)
             /\ AcksOK(Tail(acks), c, n, Len(g))
<1> DEFINE R == Len(g)
           n == AckNum(acks[1].seq, R)
<1>1. R \in Nat /\ acks[1].seq \in Seqs
  <2>1. acks[1] \in Frame
    OBVIOUS
  <2> QED  BY <2>1 DEF Frame
<1>2. n >= 1 /\ S - Unacked(p) <= n + 1 /\ 1 \in 1..Len(acks)
  <2>1. 1 \in 1..Len(acks)
    OBVIOUS
  <2> QED  BY <2>1 DEF DirectionOK, AcksOK
<1>3. n \in Nat /\ n <= R /\ acks[1].seq = Seqnum(n)
  BY <1>1, <1>2, AckNumbers
<1>4. AcksOK(Tail(acks), c, n, R)
  <2>1. /\ Len(acks) \in Nat /\ Len(Tail(acks)) = Len(acks) - 1
        /\ \A i \in 1..Len(Tail(acks)) : i + 1 \in 1..Len(acks) /\ Tail(acks)[i] = acks[i + 1]
    OBVIOUS
  <2> HIDE DEF R
  <2>2. AcksOK(acks, c, S - Unacked(p), R)
    BY DEF DirectionOK, R
  <2> DEFINE m == Tail(acks)
  <2>3. \A i \in 1..Len(m) : IsAck(m[i], c) =>
           /\ AckNum(m[i].seq, R) >= 1 /\ n <= AckNum(m[i].seq, R) + 1
           /\ \A j \in 1..Len(m) : i < j /\ IsAck(m[j], c) =>
                 AckNum(m[i].seq, R) <= AckNum(m[j].seq, R) + 1
    <3> SUFFICES ASSUME NEW i \in 1..Len(m), IsAck(m[i], c)
                 PROVE  /\ AckNum(m[i].seq, R) >= 1 /\ n <= AckNum(m[i].seq, R) + 1
                        /\ \A j \in 1..Len(m) : i < j /\ IsAck(m[j], c) =>
                              AckNum(m[i].seq, R) <= AckNum(m[j].seq, R) + 1
      OBVIOUS
    <3>1. i + 1 \in 1..Len(acks) /\ m[i] = acks[i + 1] /\ 1 < i + 1
      BY <2>1
    <3>2. AckNum(m[i].seq, R) >= 1 /\ n <= AckNum(m[i].seq, R) + 1
      BY <1>2, <2>2, <3>1 DEF AcksOK
    <3>3. ASSUME NEW j \in 1..Len(m), i < j, IsAck(m[j], c)
          PROVE  AckNum(m[i].seq, R) <= AckNum(m[j].seq, R) + 1
      <4>1. j + 1 \in 1..Len(acks) /\ m[j] = acks[j + 1] /\ i + 1 < j + 1
        BY <2>1, <3>3
      <4> QED  BY <2>2, <3>1, <3>3, <4>1 DEF AcksOK
    <3> QED  BY <3>2, <3>3
  <2> HIDE DEF m, n
  <2>4. AcksOK(m, c, n, R)
    BY <2>3 DEF AcksOK
  <2> QED  BY <2>4 DEF m
<1> QED  BY <1>2, <1>3, <1>4

-----------------------------------------------------------------------------
(* What the actions of an end do to a direction.                           *)

\* Packet pkt put in the first free buffer of p.
Loaded(p, pkt, n) ==
  [p EXCEPT !.pkts[FirstFree(p)] = pkt, !.freepkts = n, !.xseq = NextSeq(@)]

LEMMA PacketSent ==
  ASSUME NEW p \in Pchannel, NEW S \in Nat, NEW g \in Seq(Nat), NEW rseq,
         NEW data \in Seq(Frame), NEW acks, NEW c \in Channels,
         DirectionOK(p, rseq, data, acks, c, S, g), Free(p) # {},
         NEW pkt \in Pktstate, pkt.state = "WAIT", pkt.seq = p.xseq, pkt.data = S + 1,
         NEW n
  PROVE  LET q == Loaded(p, pkt, n)
         IN  /\ DirectionOK(q, rseq, Append(data, DataFrame(c, pkt)), acks, c, S + 1, g)
             /\ Unacked(q) = Unacked(p) + 1
<1> DEFINE q == [p EXCEPT !.pkts[FirstFree(p)] = pkt, !.freepkts = n,
                          !.xseq = NextSeq(@)]
           x == DataFrame(c, pkt)
           R == Len(g)
<1> SUFFICES /\ DirectionOK(q, rseq, Append(data, x), acks, c, S + 1, g)
             /\ Unacked(q) = Unacked(p) + 1
  BY DEF Loaded
<1>1. SenderOK(p, S)
  BY DEF DirectionOK
<1>2. SenderOK(q, S + 1) /\ Unacked(q) = Unacked(p) + 1
  BY <1>1, SentSender
<1>3. Timers(q)
  <2>1. FirstFree(p) \in Bufs
    BY FirstFreeIsFree
  <2>2. q.pkts = [p.pkts EXCEPT ![FirstFree(p)] = pkt]
    BY DEF Pchannel
  <2> HIDE DEF q
  <2>3. \A i \in Bufs : q.pkts[i] = IF i = FirstFree(p) THEN pkt ELSE p.pkts[i]
    BY <2>1, <2>2 DEF Pchannel
  <2> QED  BY <2>3 DEF Timers, DirectionOK
<1> HIDE DEF q
<1>4. R \in Nat /\ R <= S
  BY DirectionNumbers
<1>5. DataOK(data, c, S + 1, R)
  <2>1. DataOK(data, c, S, R) /\ \A k \in 1..S : k \in 1..(S + 1)
    BY DEF DirectionOK
  <2> QED  BY <2>1 DEF DataOK
<1>6. x \in Frame /\ NewData(x, c, S + 1, R)
  <2>1. x \in Frame
    BY DataFrameType
  <2>2. x.data = S + 1 /\ x.seq = Seqnum(S + 1)
    <3>1. x.data = S + 1 /\ x.seq = p.xseq
      BY DEF DataFrame
    <3> QED  BY <1>1, <3>1, SeqNumbers DEF SenderOK
  <2> HIDE DEF x, R
  <2> QED  BY <1>4, <2>1, <2>2 DEF NewData
<1> HIDE DEF x, R
<1> DEFINE T == S + 1
<1>t. T \in Nat
  OBVIOUS
<1> HIDE DEF T
<1>7. DataOK(Append(data, x), c, T, R)
  <2>1. Append(data, x) = data \o <<x>> /\ <<x>> \in Seq(Frame) /\ Len(<<x>>) = 1 /\ <<x>>[1] = x
    BY <1>6, AppendJoins
  <2>2. \A k \in 1..Len(<<x>>) : NewData(<<x>>[k], c, T, R)
    <3>1. 1..Len(<<x>>) = {1}
      BY <2>1
    <3> QED  BY <1>6, <2>1, <3>1 DEF T
  <2>3. DataOK(data \o <<x>>, c, T, R)
    BY <1>t, <1>4, <1>5, <2>1, <2>2, JoinedData DEF T
  <2> QED  BY <2>1, <2>3
<1>8. T - Unacked(q) = S - Unacked(p) /\ R <= T
  <2>1. R <= S /\ Unacked(p) \in 0..2
    BY DirectionNumbers DEF R
  <2>2. Unacked(q) = Unacked(p) + 1
    BY <1>2
  <2> DEFINE u == Unacked(p)
             v == Unacked(q)
  <2>3. u \in Nat /\ v = u + 1 /\ R \in Nat /\ R <= S
    BY <1>4, <2>1, <2>2
  <2> HIDE DEF u, v
  <2>4. T - v = S - u /\ R <= T
    BY <2>3 DEF T
  <2> QED  BY <2>4 DEF u, v
<1>9. SenderOK(q, T)
  BY <1>2 DEF T
<1>10. DirectionOK(q, rseq, Append(data, x), acks, c, T, g)
  BY <1>3, <1>7, <1>8, <1>9 DEF DirectionOK, R
<1> QED  BY <1>2, <1>10 DEF T

LEMMA PacketTaken ==
  ASSUME NEW p \in Pchannel, NEW S \in Nat, NEW g \in Seq(Nat), NEW rseq,
         NEW data \in Seq(Frame), NEW acks \in Seq(Frame), NEW c,
         DirectionOK(p, rseq, data, acks, c, S, g),
         data # <<>>, IsData(data[1], c), data[1].seq = rseq,
         NEW x \in Frame, x.seq = rseq
  PROVE  /\ data[1].data = Len(g) + 1 /\ Len(g) + 1 <= S
         /\ DirectionOK(p, NextSeq(rseq), Tail(data), Append(acks, x), c, S,
                        Append(g, data[1].data))
<1> DEFINE R == Len(g)
           A == S - Unacked(p)
           h == Append(g, data[1].data)
<1>1. /\ R \in Nat /\ R <= S /\ S <= R + 2 /\ A \in Nat /\ A <= R /\ S <= A + 2
  <2>1. /\ R \in Nat /\ A \in Nat /\ Unacked(p) \in 0..2
        /\ A <= R /\ R <= S /\ S <= R + 2
    BY DirectionNumbers, Zenon
  <2> QED  BY <2>1
<1>2. data[1].data = R + 1 /\ R + 1 <= S /\ rseq = Seqnum(R + 1)
  <2>1. data[1].data \in 1..S /\ data[1].seq = Seqnum(data[1].data)
    BY FrameNumber
  <2>2. R <= data[1].data + 1 /\ data[1].data <= R + 2 /\ rseq = R % SEQMOD
    BY FrameNumber
  <2> DEFINE n == data[1].data
  <2>3. n = R + 1
    <3>1. n \in 1..S /\ rseq = Seqnum(n)
      BY <2>1, Zenon
    <3>2. R <= n + 1 /\ n <= R + 2 /\ rseq = R % SEQMOD
      BY <2>2
    <3> HIDE DEF n, R
    <3>3. n \in Nat /\ R \in Nat /\ Seqnum(n) = R % SEQMOD
      BY <1>1, <3>1, <3>2
    <3> QED  BY <3>2, <3>3, NextNumber
  <2> QED  BY <1>1, <2>1, <2>3
<1>3. h \in Seq(Nat) /\ Len(h) = R + 1 /\ h = [k \in 1..(R + 1) |-> k]
  <2>1. g = [k \in 1..R |-> k]
    BY DEF DirectionOK
  <2>2. /\ h \in Seq(Nat) /\ Len(h) = R + 1
        /\ \A k \in 1..(R + 1) : h[k] = IF k = R + 1 THEN R + 1 ELSE g[k]
    BY <1>1, <1>2
  <2> HIDE DEF h, R
  <2>3. \A k \in 1..(R + 1) : h[k] = k
    <3>1. \A k \in 1..R : g[k] = k
      BY <2>1
    <3> SUFFICES ASSUME NEW k \in 1..(R + 1) PROVE h[k] = k
      OBVIOUS
    <3>2. CASE k = R + 1
      BY <2>2, <3>2
    <3>3. CASE k # R + 1
      <4>1. k \in 1..R /\ h[k] = g[k]
        BY <1>1, <2>2, <3>3
      <4> QED  BY <3>1, <4>1
    <3> QED  BY <3>2, <3>3
  <2>4. DOMAIN h = 1..(R + 1) /\ h = [k \in DOMAIN h |-> h[k]]
    BY <2>2
  <2> QED  BY <2>2, <2>3, <2>4
<1>4. NextSeq(rseq) = (R + 1) % SEQMOD
  BY <1>1, SeqNumbers DEF DirectionOK
<1>5. DataOK(Tail(data), c, S, R + 1)
  <2>1. /\ Len(data) \in Nat /\ Len(Tail(data)) = Len(data) - 1 /\ 1 \in 1..Len(data)
        /\ \A i \in 1..Len(Tail(data)) : i + 1 \in 1..Len(data) /\ Tail(data)[i] = data[i + 1]
    OBVIOUS
  <2> DEFINE m == Tail(data)
  <2>2. DataOK(data, c, S, R)
    BY DEF DirectionOK
  <2> HIDE DEF R, m
  <2>3. ASSUME NEW i \in 1..Len(m), IsData(m[i], c)
        PROVE  /\ m[i].data \in 1..S /\ m[i].seq = Seqnum(m[i].data) /\ R + 1 <= m[i].data + 1
               /\ \A j \in 1..Len(m) : i < j /\ IsData(m[j], c) => m[i].data <= m[j].data + 1
    <3>1. i + 1 \in 1..Len(data) /\ m[i] = data[i + 1] /\ 1 < i + 1
      BY <2>1 DEF m
    <3>2. m[i].data \in 1..S /\ m[i].seq = Seqnum(m[i].data)
      BY <2>2, <2>3, <3>1 DEF DataOK
    <3>3. R + 1 <= m[i].data + 1
      BY <1>2, <2>1, <2>2, <2>3, <3>1 DEF DataOK
    <3>4. ASSUME NEW j \in 1..Len(m), i < j, IsData(m[j], c)
          PROVE  m[i].data <= m[j].data + 1
      <4>1. j + 1 \in 1..Len(data) /\ m[j] = data[j + 1] /\ i + 1 < j + 1
        BY <2>1, <3>4 DEF m
      <4> QED  BY <2>2, <2>3, <3>1, <3>4, <4>1 DEF DataOK
    <3> QED  BY <3>2, <3>3, <3>4
  <2>4. DataOK(m, c, S, R + 1)
    BY <2>3 DEF DataOK
  <2> QED  BY <2>4 DEF m
<1>6. AcksOK(acks, c, A, R + 1)
  <2>1. \A i \in 1..Len(acks) : acks[i].seq \in Seqs
    <3>1. \A i \in 1..Len(acks) : acks[i] \in Frame
      OBVIOUS
    <3> QED  BY <3>1 DEF Frame
  <2>2. AcksOK(acks, c, A, R)
    BY DEF DirectionOK
  <2> HIDE DEF A, R
  <2>3. \A i \in 1..Len(acks) : IsAck(acks[i], c) =>
           AckNum(acks[i].seq, R + 1) = AckNum(acks[i].seq, R)
    <3> SUFFICES ASSUME NEW i \in 1..Len(acks), IsAck(acks[i], c)
                 PROVE  AckNum(acks[i].seq, R + 1) = AckNum(acks[i].seq, R)
      OBVIOUS
    <3>1. A <= AckNum(acks[i].seq, R) + 1
      BY <2>2 DEF AcksOK
    <3>2. AckNum(acks[i].seq, R) \in Int
      BY <1>1, <2>1, AckNumbers
    <3>3. AckNum(acks[i].seq, R) >= R - 2
      BY <1>1, <1>2, <3>1, <3>2
    <3> QED  BY <1>1, <2>1, <3>3, AckNumbers
  <2> QED  BY <2>2, <2>3 DEF AcksOK
<1>7. AcksOK(Append(acks, x), c, A, R + 1)
  <2>1. NewAck(x, c, A, R + 1)
    <3>1. AckNum(x.seq, R + 1) = R + 1
      <4>1. R + 1 \in Nat /\ x.seq \in Seqs /\ Seqnum(R + 1) = x.seq
        BY <1>1, <1>2 DEF Frame
      <4> DEFINE n == R + 1
      <4>2. n \in Nat /\ n <= n /\ n - 3 <= n
        BY <4>1
      <4> HIDE DEF n
      <4>3. AckNum(x.seq, n) = n
        BY <4>1, <4>2, AckNumbers DEF n
      <4> QED  BY <4>3 DEF n
    <3> HIDE DEF A, R
    <3> QED  BY <1>1, <3>1 DEF NewAck
  <2>2. Append(acks, x) = acks \o <<x>> /\ <<x>> \in Seq(Frame) /\ Len(<<x>>) = 1 /\ <<x>>[1] = x
    BY AppendJoins
  <2> HIDE DEF A, R
  <2>3. \A k \in 1..Len(<<x>>) : NewAck(<<x>>[k], c, A, R + 1)
    <3>1. 1..Len(<<x>>) = {1}
      BY <2>2
    <3> QED  BY <2>1, <2>2, <3>1
  <2>4. AcksOK(acks \o <<x>>, c, A, R + 1)
    <3>1. A \in Int /\ R + 1 \in Nat
      BY <1>1
    <3> QED  BY <1>6, <2>2, <2>3, <3>1, JoinedAcks
  <2> QED  BY <2>2, <2>4
<1>8. DirectionOK(p, NextSeq(rseq), Tail(data), Append(acks, x), c, S, h)
  <2>1. SenderOK(p, S) /\ Timers(p)
    BY DEF DirectionOK
  <2>2. S - Unacked(p) <= R + 1
    BY <1>1
  <2> HIDE DEF h, R
  <2> QED  BY <1>2, <1>3, <1>4, <1>5, <1>7, <2>1, <2>2 DEF DirectionOK
<1> QED  BY <1>2, <1>8

LEMMA PacketsAcked ==
  ASSUME NEW p \in Pchannel, NEW S \in Nat, NEW g \in Seq(Nat), NEW rseq,
         NEW data, NEW acks \in Seq(Frame), NEW c,
         DirectionOK(p, rseq, data, acks, c, S, g),
         acks # <<>>, IsAck(acks[1], c), Hits(Scan(p, acks[1].seq)) # {}
  PROVE  LET q == Released(p, Scan(p, acks[1].seq))
         IN  /\ DirectionOK(q, rseq, data, Tail(acks), c, S, g)
             /\ Unacked(q) < Unacked(p)
<1> DEFINE n == AckNum(acks[1].seq, Len(g))
           s == Scan(p, acks[1].seq)
           q == Released(p, s)
<1> SUFFICES DirectionOK(q, rseq, data, Tail(acks), c, S, g) /\ Unacked(q) < Unacked(p)
  OBVIOUS
<1>1. /\ n \in Nat /\ 1 <= n /\ n <= Len(g) /\ S - Unacked(p) <= n + 1
      /\ acks[1].seq = Seqnum(n) /\ AcksOK(Tail(acks), c, n, Len(g))
  BY AckNumber
<1>2. n <= S /\ SenderOK(p, S) /\ Timers(p)
  BY <1>1, DirectionNumbers DEF DirectionOK
<1> HIDE DEF n
<1>3. SenderOK(q, S) /\ S - Unacked(q) = n /\ Unacked(q) < Unacked(p)
  BY <1>1, <1>2, AckedSender
<1>4. Timers(q)
  <2> HIDE DEF s
  <2>1. q.pkts = [i \in Bufs |-> IF i \notin Hits(s) THEN p.pkts[i]
                                 ELSE [p.pkts[i] EXCEPT !.state = "OK", !.timo = 0]]
    BY DEF Released, Pchannel
  <2>2. \A y \in Pktstate : [y EXCEPT !.state = "OK", !.timo = 0].timo = 0
    BY DEF Pktstate
  <2>3. \A i \in Bufs : p.pkts[i] \in Pktstate
    BY DEF Pchannel
  <2> HIDE DEF q
  <2>4. \A i \in Bufs : q.pkts[i].timo > 0 => i \notin Hits(s) /\ q.pkts[i] = p.pkts[i]
    <3> SUFFICES ASSUME NEW i \in Bufs, i \in Hits(s) PROVE ~(q.pkts[i].timo > 0)
      BY <2>1
    <3>1. q.pkts[i].timo = 0
      BY <2>1, <2>2, <2>3
    <3> QED  BY <3>1
  <2> QED  BY <1>2, <2>4 DEF Timers
<1> HIDE DEF q
<1> QED  BY <1>1, <1>3, <1>4 DEF DirectionOK

\* Everything else: timers, what the receiver keeps for the next answers, and
\* frames that are lost, cut short or repeated.
LEMMA DirectionMoves ==
  ASSUME NEW p \in Pchannel, NEW q \in Pchannel, NEW S \in Nat, NEW g \in Seq(Nat),
         NEW rseq, NEW data, NEW acks, NEW c,
         DirectionOK(p, rseq, data, acks, c, S, g),
         q.xseq = p.xseq, q.nextpkt = p.nextpkt, Timers(q),
         \A i \in Bufs : /\ q.pkts[i].state = p.pkts[i].state
                         /\ q.pkts[i].data = p.pkts[i].data
                         /\ q.pkts[i].seq = p.pkts[i].seq,
         NEW d, DataOK(d, c, S, Len(g)),
         NEW a, AcksOK(a, c, S - Unacked(p), Len(g))
  PROVE  DirectionOK(q, rseq, d, a, c, S, g) /\ Unacked(q) = Unacked(p)
<1>1. SenderOK(q, S) /\ Unacked(q) = Unacked(p)
  BY SameSender DEF DirectionOK
<1> QED  BY <1>1 DEF DirectionOK

-----------------------------------------------------------------------------
(* The directions of all channels.                                         *)

\* What direction (x, c) asks of the line that carries its data, and of the
\* one that carries its acknowledgements.
DataFor(l, x, c) == DataOK(l, c, sent[x][c], Len(got[Other(x)][c]))
AcksFor(l, x, c) ==
  AcksOK(l, c, sent[x][c] - Unacked(pconvs[x][c]), Len(got[Other(x)][c]))
FitsData(f, x, c) == NewData(f, c, sent[x][c], Len(got[Other(x)][c]))
FitsAck(f, x, c) ==
  NewAck(f, c, sent[x][c] - Unacked(pconvs[x][c]), Len(got[Other(x)][c]))

SameConv(p, q) ==
  /\ q.xseq = p.xseq /\ q.nextpkt = p.nextpkt /\ Timers(q)
  /\ \A i \in Bufs : /\ q.pkts[i].state = p.pkts[i].state
                     /\ q.pkts[i].data = p.pkts[i].data
                     /\ q.pkts[i].seq = p.pkts[i].seq

LEMMA TheEnds ==
  ASSUME NEW e \in Ends
  PROVE  /\ Other(e) \in Ends /\ Other(e) # e /\ Other(Other(e)) = e
         /\ \A x \in Ends : x = e \/ x = Other(e)
BY DEF Ends, Other

LEMMA DirectionTypes ==
  ASSUME PacketIInv, NEW x \in Ends, NEW c \in Channels
  PROVE  /\ pconvs[x][c] \in Pchannel /\ Good(pconvs[x][c])
         /\ pconvs[Other(x)][c] \in Pchannel
         /\ sent[x][c] \in Nat /\ got[Other(x)][c] \in Seq(Nat)
         /\ line[x] \in Seq(Frame) /\ line[Other(x)] \in Seq(Frame)
<1>1. ConvsGood(pconvs) /\ RestTypeOK
  BY IInvParts
<1>2. Other(x) \in Ends
  BY TheEnds
<1> QED  BY <1>1, <1>2 DEF ConvsGood, RestTypeOK, Good

LEMMA DirectionNow ==
  ASSUME PacketIInv, DirectionsOK, NEW x \in Ends, NEW c \in Channels
  PROVE  /\ Direction(x, c) /\ Timers(pconvs[x][c])
         /\ DataFor(line[x], x, c) /\ AcksFor(line[Other(x)], x, c)
         /\ Len(got[Other(x)][c]) \in Nat
         /\ sent[x][c] - Unacked(pconvs[x][c]) \in Nat
<1>1. Direction(x, c)
  BY DEF DirectionsOK
<1>2. /\ Len(got[Other(x)][c]) \in Nat
      /\ sent[x][c] - Unacked(pconvs[x][c]) \in Nat
  BY <1>1, DirectionTypes, DirectionNumbers DEF Direction
<1> QED  BY <1>1, <1>2 DEF Direction, DirectionOK, DataFor, AcksFor

\* End e puts frames on its line and takes the first from the other, or one
\* is damaged there.
LEMMA LinesMove ==
  ASSUME PacketIInv, DirectionsOK, NEW e \in Ends, NEW c \in Channels,
         NEW t \in Seq(Frame), NEW d \in Damaged(line[Other(e)])
  PROVE  /\ DataFor(d, Other(e), c) /\ AcksFor(d, e, c)
         /\ (\A k \in 1..Len(t) : FitsData(t[k], e, c)) => DataFor(line[e] \o t, e, c)
         /\ (\A k \in 1..Len(t) : FitsAck(t[k], Other(e), c))
            => AcksFor(line[e] \o t, Other(e), c)
<1> DEFINE o == Other(e)
<1>1. o \in Ends /\ Other(o) = e
  BY TheEnds
<1> HIDE DEF o
<1>2. /\ DataFor(line[o], o, c) /\ AcksFor(line[o], e, c)
      /\ DataFor(line[e], e, c) /\ AcksFor(line[e], o, c)
  BY <1>1, DirectionNow DEF o
<1>3. line[e] \in Seq(Frame) /\ line[o] \in Seq(Frame)
  BY <1>1, DirectionTypes
<1>4. DataFor(d, o, c) /\ AcksFor(d, e, c)
  BY <1>2, <1>3, DamageKeepsOrder DEF DataFor, AcksFor, o
<1>5. ASSUME \A k \in 1..Len(t) : FitsData(t[k], e, c)
      PROVE  DataFor(line[e] \o t, e, c)
  <2>1. sent[e][c] \in Nat /\ Len(got[Other(e)][c]) \in Nat
    BY DirectionTypes, DirectionNow
  <2> QED  BY <1>2, <1>3, <1>5, <2>1, JoinedData DEF DataFor, FitsData
<1>6. ASSUME \A k \in 1..Len(t) : FitsAck(t[k], o, c)
      PROVE  AcksFor(line[e] \o t, o, c)
  <2> DEFINE A == sent[o][c] - Unacked(pconvs[o][c])
  <2>1. A \in Nat /\ Len(got[Other(o)][c]) \in Nat
    BY <1>1, DirectionTypes, DirectionNow
  <2>2. AcksOK(line[e], c, A, Len(got[Other(o)][c]))
    BY <1>2 DEF AcksFor
  <2>3. \A k \in 1..Len(t) : NewAck(t[k], c, A, Len(got[Other(o)][c]))
    BY <1>6 DEF FitsAck
  <2> HIDE DEF A
  <2>4. A \in Int
    BY <2>1
  <2>5. AcksOK(line[e] \o t, c, A, Len(got[Other(o)][c]))
    BY <1>3, <2>1, <2>2, <2>3, <2>4, JoinedAcks
  <2> QED  BY <2>5 DEF AcksFor, A
<1> QED  BY <1>4, <1>5, <1>6 DEF o

LEMMA DirectionKept ==
  ASSUME PacketIInv, PacketIInv', DirectionsOK, NEW x \in Ends, NEW c \in Channels,
         SameConv(pconvs[x][c], pconvs'[x][c]),
         pconvs'[Other(x)][c].rseq = pconvs[Other(x)][c].rseq,
         sent'[x][c] = sent[x][c], got'[Other(x)][c] = got[Other(x)][c],
         DataFor(line'[x], x, c), AcksFor(line'[Other(x)], x, c)
  PROVE  Direction(x, c)' /\ Unacked(pconvs'[x][c]) = Unacked(pconvs[x][c])
<1> DEFINE p == pconvs[x][c]
           q == pconvs'[x][c]
           S == sent[x][c]
           g == got[Other(x)][c]
           r == pconvs[Other(x)][c].rseq
<1>1. p \in Pchannel /\ S \in Nat /\ g \in Seq(Nat)
  BY DirectionTypes
<1>2. q \in Pchannel
  <2>1. ConvsGood(pconvs')
    BY IInvParts
  <2> QED  BY <2>1 DEF ConvsGood
<1>3. DirectionOK(p, r, line[x], line[Other(x)], c, S, g)
  BY DEF DirectionsOK, Direction
<1>4. /\ SameConv(p, q)
      /\ DataOK(line'[x], c, S, Len(g)) /\ AcksOK(line'[Other(x)], c, S - Unacked(p), Len(g))
  BY DEF DataFor, AcksFor
<1>5. /\ pconvs'[Other(x)][c].rseq = r /\ sent'[x][c] = S /\ got'[Other(x)][c] = g
  OBVIOUS
<1>6. SUFFICES DirectionOK(q, r, line'[x], line'[Other(x)], c, S, g) /\ Unacked(q) = Unacked(p)
  BY <1>5 DEF Direction
<1> HIDE DEF p, q, S, g, r
<1>7. /\ q.xseq = p.xseq /\ q.nextpkt = p.nextpkt /\ Timers(q)
      /\ \A i \in Bufs : /\ q.pkts[i].state = p.pkts[i].state
                         /\ q.pkts[i].data = p.pkts[i].data
                         /\ q.pkts[i].seq = p.pkts[i].seq
  BY <1>4 DEF SameConv
<1> QED  BY <1>1, <1>2, <1>3, <1>4, <1>7, DirectionMoves

\* The packets counted by the conversations: what the channel sees as credit.
SameCount(x, c) == Unacked(pconvs'[x][c]) = Unacked(pconvs[x][c])

\* A step that sends nothing new, takes nothing and frees nothing.
Quiet == /\ UNCHANGED <<sent, got>>
         /\ \A x \in Ends, c \in Channels : SameCount(x, c)

LEMMA ConvKept ==
  ASSUME PacketIInv, DirectionsOK, NEW x \in Ends, NEW c \in Channels,
         pconvs'[x][c] = pconvs[x][c]
  PROVE  SameConv(pconvs[x][c], pconvs'[x][c])
BY DirectionNow DEF SameConv

LEMMA QuietStep ==
  ASSUME PacketIInv, PacketIInv', DirectionsOK, NEW e \in Ends, NEW t \in Seq(Frame),
         line'[e] = line[e] \o t, line'[Other(e)] \in Damaged(line[Other(e)]),
         \A k \in 1..Len(t), c \in Channels :
            FitsData(t[k], e, c) /\ FitsAck(t[k], Other(e), c),
         \A x \in Ends, c \in Channels : /\ SameConv(pconvs[x][c], pconvs'[x][c])
                                         /\ pconvs'[x][c].rseq = pconvs[x][c].rseq,
         UNCHANGED <<sent, got>>
  PROVE  DirectionsOK' /\ Quiet
<1>1. ASSUME NEW x \in Ends, NEW c \in Channels
      PROVE  Direction(x, c)' /\ SameCount(x, c)
  <2>1. /\ DataFor(line'[e], e, c) /\ AcksFor(line'[e], Other(e), c)
        /\ DataFor(line'[Other(e)], Other(e), c) /\ AcksFor(line'[Other(e)], e, c)
    BY LinesMove
  <2>2. DataFor(line'[x], x, c) /\ AcksFor(line'[Other(x)], x, c) /\ Other(x) \in Ends
    BY <2>1, TheEnds
  <2>3. /\ SameConv(pconvs[x][c], pconvs'[x][c])
        /\ pconvs'[Other(x)][c].rseq = pconvs[Other(x)][c].rseq
        /\ sent'[x][c] = sent[x][c] /\ got'[Other(x)][c] = got[Other(x)][c]
    BY <2>2
  <2> QED  BY <2>2, <2>3, DirectionKept DEF SameCount
<1>2. DirectionsOK'
  BY <1>1 DEF DirectionsOK
<1> QED  BY <1>1, <1>2 DEF Quiet

\* A frame that is not for the direction fits.
LEMMA OtherFrameFits ==
  ASSUME NEW f, NEW x, NEW c
  PROVE  /\ ~IsData(f, c) => FitsData(f, x, c)
         /\ ~IsAck(f, c) => FitsAck(f, x, c)
BY DEF FitsData, FitsAck, NewData, NewAck

\* One frame, or none, put on the line.
LEMMA OneFrame ==
  /\ \A l \in Seq(Frame) : l \o <<>> = l
  /\ <<>> \in Seq(Frame) /\ 1..Len(<<>>) = {}
  /\ \A f \in Frame : <<f>> \in Seq(Frame) /\ 1..Len(<<f>>) = {1} /\ <<f>>[1] = f
<1>1. \A l \in Seq(Frame) : l \o <<>> = l
  BY ConcatEmptySeq
<1>2. <<>> \in Seq(Frame) /\ 1..Len(<<>>) = {}
  OBVIOUS
<1>3. ASSUME NEW f \in Frame
      PROVE  <<f>> \in Seq(Frame) /\ 1..Len(<<f>>) = {1} /\ <<f>>[1] = f
  <2>1. <<f>> \in Seq(Frame) /\ Len(<<f>>) = 1 /\ <<f>>[1] = f
    OBVIOUS
  <2> QED  BY <2>1
<1> QED  BY <1>1, <1>2, <1>3

LEMMA LineStepsKeep ==
  ASSUME PacketIInv, PacketIInv', DirectionsOK, NEW e \in Ends,
         Lose(e) \/ Truncate(e) \/ Calm \/ Swallow(Other(e))
  PROVE  DirectionsOK' /\ Quiet
<1> DEFINE o == Other(e)
<1>1. o \in Ends /\ Other(o) = e /\ o # e
  BY TheEnds
<1>2. line[o] \in Seq(Frame) /\ line[e] \in Seq(Frame) /\ line \in [Ends -> Seq(Frame)]
  BY <1>1, IInvParts DEF RestTypeOK
<1>3. pconvs' = pconvs /\ UNCHANGED <<sent, got>>
  BY DEF Lose, Truncate, Calm, Swallow
<1>4. line'[o] = line[o] /\ line'[e] \in Damaged(line[e])
  <2>1. CASE Lose(e)
    BY <1>1, <1>2, <2>1 DEF Lose, Damaged
  <2>2. CASE Swallow(o)
    BY <1>1, <1>2, <2>2 DEF Swallow, Damaged
  <2>3. CASE Calm
    BY <1>1, <1>2, <2>3 DEF Calm, Damaged
  <2>4. CASE Truncate(e)
    <3>1. line[e] # <<>> /\ line' = [line EXCEPT ![e] = Cut(line[e])]
      BY <1>2, <2>4 DEF Truncate, Cut
    <3> QED  BY <1>1, <1>2, <3>1 DEF Damaged
  <2> QED  BY <2>1, <2>2, <2>3, <2>4
<1> HIDE DEF o
<1>5. \A x \in Ends, c \in Channels : SameConv(pconvs[x][c], pconvs'[x][c])
  BY <1>3, ConvKept
<1>6. line'[o] = line[o] \o <<>> /\ line'[Other(o)] \in Damaged(line[Other(o)])
  BY <1>1, <1>2, <1>4, OneFrame
<1>7. \A k \in 1..Len(<<>>), c \in Channels :
         FitsData(<<>>[k], o, c) /\ FitsAck(<<>>[k], Other(o), c)
  BY OneFrame
<1>8. <<>> \in Seq(Frame)
  BY OneFrame
<1> QED  BY <1>1, <1>3, <1>5, <1>6, <1>7, <1>8, QuietStep

LEMMA PsendFullKeeps ==
  ASSUME PacketIInv, PacketIInv', DirectionsOK, NEW e \in Ends, NEW d \in Channels,
         psendFull(e, d)
  PROVE  DirectionsOK' /\ Quiet
<1>1. ConvsGood(pconvs) /\ line \in [Ends -> Seq(Frame)]
  BY IInvParts DEF RestTypeOK
<1>2. /\ UNCHANGED <<line, sent, got>>
      /\ pconvs' = [pconvs EXCEPT ![e][d] = [pconvs[e][d] EXCEPT !.freepkts = 0]]
  BY <1>1 DEF psendFull, ConvsGood
<1>3. ASSUME NEW x \in Ends, NEW c \in Channels
      PROVE  /\ SameConv(pconvs[x][c], pconvs'[x][c])
             /\ pconvs'[x][c].rseq = pconvs[x][c].rseq
  <2>1. CASE x = e /\ c = d
    <3> DEFINE p == pconvs[x][c]
    <3>1. p \in Pchannel /\ Timers(p)
      BY DirectionTypes, DirectionNow
    <3>2. pconvs'[x][c] = [p EXCEPT !.freepkts = 0]
      BY <1>1, <1>2, <2>1 DEF ConvsGood
    <3> HIDE DEF p
    <3>3. /\ [p EXCEPT !.freepkts = 0].pkts = p.pkts
          /\ [p EXCEPT !.freepkts = 0].xseq = p.xseq
          /\ [p EXCEPT !.freepkts = 0].rseq = p.rseq
          /\ [p EXCEPT !.freepkts = 0].nextpkt = p.nextpkt
      BY <3>1 DEF Pchannel
    <3>4. SameConv(p, pconvs'[x][c]) /\ pconvs'[x][c].rseq = p.rseq
      BY <3>1, <3>2, <3>3 DEF SameConv, Timers
    <3> QED  BY <3>4 DEF p
  <2>2. CASE ~(x = e /\ c = d)
    <3>1. pconvs'[x][c] = pconvs[x][c]
      BY <1>1, <1>2, <2>2 DEF ConvsGood
    <3> QED  BY <3>1, ConvKept
  <2> QED  BY <2>1, <2>2
<1>4. line'[e] = line[e] \o <<>> /\ line'[Other(e)] \in Damaged(line[Other(e)])
  BY <1>1, <1>2, TheEnds, OneFrame DEF Damaged
<1>5. \A k \in 1..Len(<<>>), c \in Channels :
         FitsData(<<>>[k], e, c) /\ FitsAck(<<>>[k], Other(e), c)
  BY OneFrame
<1>6. <<>> \in Seq(Frame)
  BY OneFrame
<1> QED  BY <1>2, <1>3, <1>4, <1>5, <1>6, QuietStep

\* A retransmission is acknowledged with its own number.
LEMMA RepeatedAckFits ==
  ASSUME NEW p \in Pchannel, NEW S \in Nat, NEW g \in Seq(Nat), NEW rseq,
         NEW data \in Seq(Frame), NEW acks, NEW c,
         DirectionOK(p, rseq, data, acks, c, S, g),
         data # <<>>, IsData(data[1], c),
         \E k \in 1..NPCBUFS : data[1].seq = (rseq + SEQMOD - k) % SEQMOD,
         NEW x, x.seq = data[1].seq
  PROVE  NewAck(x, c, S - Unacked(p), Len(g))
<1> DEFINE n == data[1].data
           R == Len(g)
           A == S - Unacked(p)
           q == data[1].seq
<1>1. R \in Nat /\ A \in Nat /\ A <= R
  BY DirectionNumbers
<1>2. n \in 1..S /\ q = Seqnum(n)
  BY FrameNumber
<1>3. R <= n + 1 /\ n <= R + 2 /\ rseq = R % SEQMOD
  BY FrameNumber
<1>4. (\E k \in 1..NPCBUFS : q = (rseq + SEQMOD - k) % SEQMOD) /\ x.seq = q
  OBVIOUS
<1> HIDE DEF n, R, A, q
<1>5. n \in Nat /\ n >= 1
  BY <1>2
<1>6. \E k \in 1..NPCBUFS : Seqnum(n) = ((R % SEQMOD) + SEQMOD - k) % SEQMOD
  BY <1>2, <1>3, <1>4
<1>7. n = R \/ n = R - 1
  BY <1>1, <1>3, <1>5, <1>6, OldNumber
<1>8. AckNum(q, R) = n
  <2>1. n <= R /\ R - 3 <= n
    BY <1>1, <1>5, <1>7
  <2>2. q \in Seqs
    BY <1>2, <1>5, SeqNumbers
  <2> QED  BY <1>1, <1>2, <1>5, <2>1, <2>2, AckNumbers
<1>9. NewAck(x, c, A, R)
  BY <1>1, <1>3, <1>4, <1>5, <1>8 DEF NewAck
<1> QED  BY <1>9 DEF A, R

LEMMA ReplyLines ==
  ASSUME PacketIInv, NEW e \in Ends, line[Other(e)] # <<>>,
         NEW kind \in {"ack", "nak"}, NEW cd \in Nat, Reply(e, kind, cd)
  PROVE  LET r == [kind |-> kind, chan |-> Incoming(e).chan,
                   seq |-> Incoming(e).seq, data |-> cd]
         IN  /\ r \in Frame /\ r.kind = kind /\ r.chan = Incoming(e).chan
             /\ r.seq = Incoming(e).seq
             /\ line'[e] = line[e] \o <<r>> /\ line'[e] = Append(line[e], r)
             /\ line'[Other(e)] = Tail(line[Other(e)])
             /\ line'[Other(e)] \in Damaged(line[Other(e)])
<1> DEFINE r == [kind |-> kind, chan |-> Incoming(e).chan,
                 seq |-> Incoming(e).seq, data |-> cd]
           o == Other(e)
<1>1. o \in Ends /\ o # e
  BY TheEnds
<1>2. line \in [Ends -> Seq(Frame)] /\ RestTypeOK
  BY IInvParts DEF RestTypeOK
<1>3. r \in Frame /\ r.kind = kind /\ r.chan = Incoming(e).chan /\ r.seq = Incoming(e).seq
  <2>1. r \in Frame
    BY <1>2, FrameTypes DEF Frame
  <2> QED  BY <2>1
<1>4. line' = [line EXCEPT ![o] = Tail(@), ![e] = Append(@, r)]
  BY DEF Reply
<1> HIDE DEF r, o
<1>5. line'[e] = Append(line[e], r) /\ line'[o] = Tail(line[o])
  BY <1>1, <1>2, <1>4
<1>6. line[e] \in Seq(Frame)
  BY <1>2
<1>7. line'[e] = line[e] \o <<r>>
  BY <1>3, <1>5, <1>6, AppendJoins
<1>8. line'[o] \in Damaged(line[o])
  BY <1>5 DEF Damaged, o
<1> QED  BY <1>3, <1>5, <1>7, <1>8 DEF r, o

LEMMA AnswersKeep ==
  ASSUME PacketIInv, PacketIInv', DirectionsOK, NEW e \in Ends,
         Refuse(e) \/ OutOfOrder(e)
  PROVE  DirectionsOK' /\ Quiet
<1> DEFINE o == Other(e)
           f == Incoming(e)
<1>1. o \in Ends /\ Other(o) = e /\ o # e
  BY TheEnds
<1>2. ConvsGood(pconvs) /\ RestTypeOK
  BY IInvParts
<1>3. /\ line[o] # <<>> /\ f.chan \in Channels /\ f.seq \in Seqs
      /\ line[o] \in Seq(Frame) /\ f = line[o][1] /\ f.kind = "data"
  <2>1. line[o] # <<>> /\ f.kind = "data"
    BY DEF Refuse, OutOfOrder, Arrived, Incoming
  <2> QED  BY <1>2, <2>1, FrameTypes DEF Incoming
<1>4. pconvs' = pconvs /\ UNCHANGED <<sent, got>>
  BY DEF Refuse, OutOfOrder
<1>5. pconvs[e][f.chan].cdata[f.seq] \in Nat
  <2> HIDE DEF f
  <2> DEFINE p == pconvs[e][f.chan]
  <2>1. p \in Pchannel
    BY <1>2, <1>3 DEF ConvsGood
  <2> HIDE DEF p
  <2>2. p.cdata \in [Seqs -> CData]
    BY <2>1 DEF Pchannel
  <2>3. \A s \in Seqs : p.cdata[s] \in Nat
    BY <2>2, PacketConstantsOK
  <2> QED  BY <1>3, <2>3 DEF p
<1>6. PICK kind \in {"ack", "nak"}, cd \in Nat :
        /\ Reply(e, kind, cd)
        /\ kind = "ack" => Retry(pconvs[e][f.chan], f.seq)
  BY <1>5 DEF Refuse, OutOfOrder
<1> DEFINE r == [kind |-> kind, chan |-> f.chan, seq |-> f.seq, data |-> cd]
<1>7. /\ r \in Frame /\ r.kind = kind /\ r.chan = f.chan /\ r.seq = f.seq
      /\ line'[e] = line[e] \o <<r>> /\ line'[o] \in Damaged(line[o])
  BY <1>3, <1>6, ReplyLines
<1> HIDE DEF r
<1>8. ASSUME NEW c \in Channels
      PROVE  FitsData(r, e, c) /\ FitsAck(r, o, c)
  <2>1. FitsData(r, e, c)
    BY <1>7, OtherFrameFits DEF IsData
  <2>2. CASE ~IsAck(r, c)
    BY <2>1, <2>2, OtherFrameFits
  <2>3. CASE IsAck(r, c)
    <3>1. f.chan = c /\ kind = "ack"
      BY <1>7, <2>3 DEF IsAck
    <3>2. IsData(line[o][1], c)
      BY <1>3, <3>1 DEF IsData
    <3>3. \E k \in 1..NPCBUFS : line[o][1].seq = (pconvs[e][c].rseq + SEQMOD - k) % SEQMOD
      BY <1>3, <1>6, <3>1 DEF Retry
    <3>4. /\ pconvs[o][c] \in Pchannel /\ sent[o][c] \in Nat /\ got[e][c] \in Seq(Nat)
          /\ DirectionOK(pconvs[o][c], pconvs[e][c].rseq, line[o], line[e], c,
                         sent[o][c], got[e][c])
      BY <1>1, DirectionTypes, DirectionNow DEF Direction
    <3>5. r.seq = line[o][1].seq
      BY <1>3, <1>7
    <3> HIDE DEF o, f
    <3>6. NewAck(r, c, sent[o][c] - Unacked(pconvs[o][c]), Len(got[e][c]))
      BY <1>3, <3>2, <3>3, <3>4, <3>5, RepeatedAckFits
    <3> QED  BY <1>1, <2>1, <3>6 DEF FitsAck
  <2> QED  BY <2>2, <2>3
<1>9. \A k \in 1..Len(<<r>>), c \in Channels :
         FitsData(<<r>>[k], e, c) /\ FitsAck(<<r>>[k], Other(e), c)
  BY <1>7, <1>8, OneFrame
<1>10. <<r>> \in Seq(Frame)
  BY <1>7, OneFrame
<1>11. \A x \in Ends, c \in Channels : /\ SameConv(pconvs[x][c], pconvs'[x][c])
                                       /\ pconvs'[x][c].rseq = pconvs[x][c].rseq
  BY <1>4, ConvKept
<1> QED  BY <1>4, <1>7, <1>9, <1>10, <1>11, QuietStep

\* A conversation in which only timers changed, and no timer was started
\* for a buffer that does not wait.
LEMMA TimersKept ==
  ASSUME NEW p \in Pchannel, NEW T \in [Bufs -> 0..Pxtimeout],
         \A i \in Bufs : T[i] > 0 => p.pkts[i].state = "WAIT"
  PROVE  LET q == [p EXCEPT !.pkts = [i \in Bufs |-> [@[i] EXCEPT !.timo = T[i]]]]
         IN  SameConv(p, q) /\ q.rseq = p.rseq
<1> DEFINE q == [p EXCEPT !.pkts = [i \in Bufs |-> [@[i] EXCEPT !.timo = T[i]]]]
<1>1. \A i \in Bufs : p.pkts[i] \in Pktstate
  BY DEF Pchannel
<1>2. /\ q.xseq = p.xseq /\ q.nextpkt = p.nextpkt /\ q.rseq = p.rseq
      /\ q.pkts = [i \in Bufs |-> [p.pkts[i] EXCEPT !.timo = T[i]]]
  BY DEF Pchannel
<1>3. \A y \in Pktstate : \A n : /\ [y EXCEPT !.timo = n].state = y.state
                                /\ [y EXCEPT !.timo = n].seq = y.seq
                                /\ [y EXCEPT !.timo = n].data = y.data
                                /\ [y EXCEPT !.timo = n].timo = n
  BY DEF Pktstate
<1> HIDE DEF q
<1>4. \A i \in Bufs : /\ q.pkts[i].state = p.pkts[i].state
                      /\ q.pkts[i].seq = p.pkts[i].seq
                      /\ q.pkts[i].data = p.pkts[i].data
                      /\ q.pkts[i].timo = T[i]
  <2> SUFFICES ASSUME NEW i \in Bufs
               PROVE  /\ q.pkts[i].state = p.pkts[i].state
                      /\ q.pkts[i].seq = p.pkts[i].seq
                      /\ q.pkts[i].data = p.pkts[i].data
                      /\ q.pkts[i].timo = T[i]
    OBVIOUS
  <2>1. q.pkts[i] = [p.pkts[i] EXCEPT !.timo = T[i]]
    BY <1>2
  <2> QED  BY <1>1, <1>3, <2>1
<1>5. SameConv(p, q)
  BY <1>2, <1>4 DEF SameConv, Timers
<1> QED  BY <1>2, <1>5 DEF q

\* A packet that waits may be sent again at any time.
LEMMA AgainFits ==
  ASSUME PacketIInv, DirectionsOK, NEW e \in Ends, NEW d \in Channels,
         NEW i \in Bufs, pconvs[e][d].pkts[i].state = "WAIT", NEW c \in Channels
  PROVE  LET f == DataFrame(d, pconvs[e][d].pkts[i])
         IN  f \in Frame /\ FitsData(f, e, c) /\ FitsAck(f, Other(e), c)
<1> DEFINE p == pconvs[e][d]
           f == DataFrame(d, p.pkts[i])
<1>1. p \in Pchannel /\ sent[e][d] \in Nat /\ got[Other(e)][d] \in Seq(Nat)
  BY DirectionTypes
<1>2. f \in Frame
  <2>1. p.pkts[i] \in Pktstate
    BY <1>1 DEF Pchannel
  <2> QED  BY <2>1, DataFrameType
<1>3. f.chan = d /\ f.kind = "data"
  BY DEF DataFrame
<1>4. FitsAck(f, Other(e), c)
  BY <1>3, OtherFrameFits DEF IsAck
<1>5. FitsData(f, e, c)
  <2>1. CASE c # d
    BY <1>3, <2>1, OtherFrameFits DEF IsData
  <2>2. CASE c = d
    <3>1. DirectionOK(p, pconvs[Other(e)][d].rseq, line[e], line[Other(e)], d,
                      sent[e][d], got[Other(e)][d])
      BY DirectionNow DEF Direction
    <3>2. p.pkts[i].state = "WAIT"
      OBVIOUS
    <3> HIDE DEF p
    <3>3. NewData(f, d, sent[e][d], Len(got[Other(e)][d]))
      BY <1>1, <3>1, <3>2, WaitingIsNew
    <3> QED  BY <2>2, <3>3 DEF FitsData
  <2> QED  BY <2>1, <2>2
<1> QED  BY <1>2, <1>4, <1>5

LEMMA NakedKeeps ==
  ASSUME PacketIInv, PacketIInv', DirectionsOK, NEW e \in Ends, Naked(e)
  PROVE  DirectionsOK' /\ Quiet
<1> DEFINE f == Incoming(e)
           d == f.chan
           o == Other(e)
           p == pconvs[e][d]
           s == Scan(p, f.seq)
           T == [i \in Bufs |-> IF i \in Hits(s) THEN Pxtimeout ELSE p.pkts[i].timo]
           q == [p EXCEPT !.pkts = [i \in Bufs |-> [@[i] EXCEPT !.timo = T[i]]]]
           again == [k \in 1..Len(s.hit) |-> DataFrame(d, p.pkts[s.hit[k]])]
<1>1. ConvsGood(pconvs) /\ RestTypeOK /\ o \in Ends /\ o # e /\ Other(o) = e
  BY IInvParts, TheEnds
<1>2. d \in Channels /\ f.seq \in Seqs
  BY <1>1, FrameTypes DEF Naked, Arrived
<1>3. p \in Pchannel /\ Timers(p)
  BY <1>2, DirectionTypes, DirectionNow
<1>4. \A i \in Bufs : p.pkts[i] \in Pktstate
  BY <1>3 DEF Pchannel
<1>5. pconvs' = [pconvs EXCEPT ![e][d] = q]
  <2>1. [i \in Bufs |-> [p.pkts[i] EXCEPT !.timo = T[i]]] =
        [i \in Bufs |-> IF i \in Hits(s) THEN [p.pkts[i] EXCEPT !.timo = Pxtimeout]
                                         ELSE p.pkts[i]]
    BY <1>4 DEF Pktstate
  <2> QED  BY <1>1, <1>2, <2>1 DEF Naked, ConvsGood
<1>6. /\ s.hit \in Seq(Bufs) /\ Len(s.hit) \in Nat
      /\ \A k \in 1..Len(s.hit) : Waits(p, s.hit[k]) = 1
  BY <1>2, <1>3, ScanFinds
<1>7. \A k \in 1..Len(s.hit) : s.hit[k] \in Bufs /\ p.pkts[s.hit[k]].state = "WAIT"
  <2>1. \A i : Waits(p, i) = 1 => p.pkts[i].state = "WAIT"
    BY DEF Waits
  <2>2. \A k \in 1..Len(s.hit) : s.hit[k] \in Bufs
    BY <1>6
  <2> HIDE DEF p, s
  <2> QED  BY <1>6, <2>1, <2>2
<1>8. T \in [Bufs -> 0..Pxtimeout] /\ \A i \in Bufs : T[i] > 0 => p.pkts[i].state = "WAIT"
  <2>1. \A i \in Bufs : p.pkts[i].timo \in 0..Pxtimeout
    BY <1>4 DEF Pktstate
  <2>2. \A i \in Hits(s) : p.pkts[i].state = "WAIT"
    BY <1>7 DEF Hits
  <2>3. Pxtimeout \in 0..Pxtimeout
    BY PacketConstantsOK
  <2>4. \A i \in Bufs : p.pkts[i].timo > 0 => p.pkts[i].state = "WAIT"
    BY <1>3 DEF Timers
  <2> HIDE DEF p, s
  <2> QED  BY <2>1, <2>2, <2>3, <2>4
<1>9. SameConv(p, q) /\ q.rseq = p.rseq
  <2> HIDE DEF T, p
  <2> QED  BY <1>3, <1>8, TimersKept
<1>10. /\ line'[e] = line[e] \o again /\ line'[o] \in Damaged(line[o])
       /\ UNCHANGED <<sent, got>>
  <2>1. line' = [line EXCEPT ![o] = Tail(@), ![e] = @ \o again]
    BY DEF Naked
  <2>2. line \in [Ends -> Seq(Frame)]
    BY <1>1 DEF RestTypeOK
  <2> HIDE DEF again, o
  <2>3. line'[e] = line[e] \o again /\ line'[o] = Tail(line[o])
    BY <1>1, <2>1, <2>2
  <2>4. UNCHANGED <<sent, got>>
    BY DEF Naked
  <2>5. line'[o] = Tail(line[o])
    BY <2>3
  <2>6. line[o] # <<>>
    BY DEF Naked, Arrived, o
  <2>7. line'[o] \in Damaged(line[o])
    BY <2>5, <2>6 DEF Damaged
  <2> QED  BY <2>3, <2>4, <2>7
<1>11. /\ again \in Seq(Frame) /\ Len(again) = Len(s.hit)
       /\ \A k \in 1..Len(s.hit) : again[k] = DataFrame(d, p.pkts[s.hit[k]])
  <2>1. \A k \in 1..Len(s.hit) : DataFrame(d, p.pkts[s.hit[k]]) \in Frame
    BY <1>2, <1>4, <1>7, DataFrameType
  <2>2. Len(s.hit) \in Nat
    BY <1>6
  <2> DEFINE m == Len(s.hit)
             D(k) == DataFrame(d, p.pkts[s.hit[k]])
  <2>3. m \in Nat /\ (\A k \in 1..m : D(k) \in Frame) /\ again = [k \in 1..m |-> D(k)]
    BY <2>1, <2>2
  <2> HIDE DEF m, D, again
  <2>4. again \in Seq(Frame) /\ Len(again) = m /\ \A k \in 1..m : again[k] = D(k)
    BY <2>3
  <2> QED  BY <2>4 DEF m, D
<1> HIDE DEF again, s, q
<1>12. \A k \in 1..Len(again), c \in Channels :
          FitsData(again[k], e, c) /\ FitsAck(again[k], Other(e), c)
  <2> SUFFICES ASSUME NEW k \in 1..Len(again), NEW c \in Channels
               PROVE  FitsData(again[k], e, c) /\ FitsAck(again[k], Other(e), c)
    OBVIOUS
  <2> DEFINE i == s.hit[k]
  <2>1. i \in Bufs /\ pconvs[e][d].pkts[i].state = "WAIT"
    BY <1>7, <1>11
  <2>2. again[k] = DataFrame(d, pconvs[e][d].pkts[i])
    BY <1>11
  <2> HIDE DEF i, d
  <2> QED  BY <1>2, <2>1, <2>2, AgainFits
<1>13. \A x \in Ends, c \in Channels : /\ SameConv(pconvs[x][c], pconvs'[x][c])
                                       /\ pconvs'[x][c].rseq = pconvs[x][c].rseq
  <2> SUFFICES ASSUME NEW x \in Ends, NEW c \in Channels
               PROVE  /\ SameConv(pconvs[x][c], pconvs'[x][c])
                      /\ pconvs'[x][c].rseq = pconvs[x][c].rseq
    OBVIOUS
  <2> HIDE DEF f, d
  <2>1. CASE x = e /\ c = d
    <3>1. pconvs'[x][c] = q
      BY <1>1, <1>2, <1>5, <2>1 DEF ConvsGood
    <3> QED  BY <1>9, <2>1, <3>1
  <2>2. CASE ~(x = e /\ c = d)
    <3>1. pconvs'[x][c] = pconvs[x][c]
      BY <1>1, <1>2, <1>5, <2>2 DEF ConvsGood
    <3> QED  BY <3>1, ConvKept
  <2> QED  BY <2>1, <2>2
<1> HIDE DEF f, d, p, T
<1> QED  BY <1>10, <1>11, <1>12, <1>13, QuietStep DEF o

\* What ptimeout does: timers run, and one packet whose time is out is sent.
LEMMA PtimeoutDoes ==
  ASSUME PacketIInv, DirectionsOK, NEW e \in Ends, ptimeout(e)
  PROVE  /\ UNCHANGED <<sent, got>> /\ line'[Other(e)] = line[Other(e)]
         /\ \A x \in Ends, c \in Channels : /\ SameConv(pconvs[x][c], pconvs'[x][c])
                                            /\ pconvs'[x][c].rseq = pconvs[x][c].rseq
         /\ \/ line'[e] = line[e]
            \/ \E d \in Channels, i \in Bufs :
                  /\ pconvs[e][d].pkts[i].state = "WAIT"
                  /\ line'[e] = Append(line[e], DataFrame(d, pconvs[e][d].pkts[i]))
<1> DEFINE At(n) == [chan |-> n \div NPCBUFS,
                     buf |-> Nth(pconvs[e][n \div NPCBUFS], n % NPCBUFS)]
           Timo(n) == pconvs[e][At(n).chan].pkts[At(n).buf].timo
           Places == 0..(NChannels * NPCBUFS - 1)
           Out == {n \in Places : Timo(n) = 1}
           Last == IF Out = {} THEN NChannels * NPCBUFS
                   ELSE CHOOSE n \in Out : \A m \in Out : n <= m
           Seen(c, i) == \E n \in Places : /\ n < Last /\ Timo(n) > 0
                                           /\ At(n) = [chan |-> c, buf |-> i]
           Hit(c, i) == Out # {} /\ At(Last) = [chan |-> c, buf |-> i]
           Left(c, i) == IF Hit(c, i) THEN Pxtimeout
                         ELSE IF Seen(c, i) THEN pconvs[e][c].pkts[i].timo - 1
                         ELSE pconvs[e][c].pkts[i].timo
           q(c) == [pconvs[e][c] EXCEPT
                      !.pkts = [i \in Bufs |-> [@[i] EXCEPT !.timo = Left(c, i)]]]
<1>1. ConvsGood(pconvs) /\ RestTypeOK
  BY IInvParts
<1>2. \A c \in Channels : /\ pconvs[e][c] \in Pchannel /\ Timers(pconvs[e][c])
                          /\ \A i \in Bufs : pconvs[e][c].pkts[i].timo \in 0..Pxtimeout
  <2>1. \A c \in Channels : pconvs[e][c] \in Pchannel /\ Timers(pconvs[e][c])
    BY DirectionTypes, DirectionNow
  <2> QED  BY <2>1 DEF Pchannel, Pktstate
<1>3. /\ pconvs' = [pconvs EXCEPT ![e] = [c \in Channels |-> q(c)]]
      /\ UNCHANGED <<sent, got>>
  BY DEF ptimeout
<1>4. \/ line' = line
      \/ /\ Out # {}
         /\ line' = [line EXCEPT ![e] = Append(@, DataFrame(At(Last).chan,
                 pconvs[e][At(Last).chan].pkts[At(Last).buf]))]
  BY DEF ptimeout
<1>5. \A n \in Places : At(n).chan \in Channels /\ At(n).buf \in Bufs
  <2>1. ASSUME NEW n \in Places
        PROVE  n \div NPCBUFS \in Channels /\ n % NPCBUFS \in {0, 1}
    BY TwoBuffers, PacketConstantsOK DEF Channels
  <2> QED  BY <1>2, <2>1, TwoBuffers
<1>6. Out # {} => Last \in Places /\ Timo(Last) = 1
  <2>1. Out \subseteq Nat
    BY TwoBuffers
  <2> HIDE DEF Timo
  <2>2. Out # {} => \E n \in Out : \A m \in Out : n <= m
    BY <2>1, LeastNumber
  <2> QED  BY <2>2
<1> HIDE DEF Places, Out, Last, At
<1>7. Out # {} => /\ At(Last).chan \in Channels /\ At(Last).buf \in Bufs
                  /\ pconvs[e][At(Last).chan].pkts[At(Last).buf].timo = 1
  BY <1>5, <1>6
<1>8. \/ line'[e] = line[e]
      \/ \E d \in Channels, i \in Bufs :
            /\ pconvs[e][d].pkts[i].state = "WAIT"
            /\ line'[e] = Append(line[e], DataFrame(d, pconvs[e][d].pkts[i]))
  <2>1. CASE line' = line
    BY <2>1
  <2>2. CASE /\ Out # {}
             /\ line' = [line EXCEPT ![e] = Append(@, DataFrame(At(Last).chan,
                     pconvs[e][At(Last).chan].pkts[At(Last).buf]))]
    <3> DEFINE d == At(Last).chan
               i == At(Last).buf
    <3>1. d \in Channels /\ i \in Bufs /\ pconvs[e][d].pkts[i].timo = 1
      BY <1>7, <2>2
    <3>2. line'[e] = Append(line[e], DataFrame(d, pconvs[e][d].pkts[i]))
      BY <1>1, <2>2 DEF RestTypeOK
    <3> HIDE DEF d, i
    <3>3. pconvs[e][d].pkts[i].state = "WAIT"
      <4>1. pconvs[e][d].pkts[i].timo > 0
        BY <3>1
      <4> QED  BY <1>2, <3>1, <4>1 DEF Timers
    <3> QED  BY <3>1, <3>2, <3>3
  <2> QED  BY <1>4, <2>1, <2>2
<1>9. line'[Other(e)] = line[Other(e)]
  BY <1>1, <1>4, TheEnds DEF RestTypeOK
<1>10. ASSUME NEW c \in Channels
       PROVE  SameConv(pconvs[e][c], q(c)) /\ q(c).rseq = pconvs[e][c].rseq
  <2> DEFINE p == pconvs[e][c]
             T == [i \in Bufs |-> Left(c, i)]
  <2>1. \A i \in Bufs : /\ Left(c, i) \in 0..Pxtimeout
                        /\ Left(c, i) > 0 => p.pkts[i].timo > 0
    <3> SUFFICES ASSUME NEW i \in Bufs
                 PROVE  /\ Left(c, i) \in 0..Pxtimeout
                        /\ Left(c, i) > 0 => p.pkts[i].timo > 0
      OBVIOUS
    <3>1. p.pkts[i].timo \in 0..Pxtimeout
      BY <1>2
    <3>2. Seen(c, i) => p.pkts[i].timo > 0
      OBVIOUS
    <3>3. Hit(c, i) => p.pkts[i].timo > 0
      <4> SUFFICES ASSUME Hit(c, i) PROVE p.pkts[i].timo > 0
        OBVIOUS
      <4>1. At(Last).chan = c /\ At(Last).buf = i /\ Out # {}
        OBVIOUS
      <4>2. p.pkts[i].timo = 1
        BY <1>7, <4>1
      <4> QED  BY <4>2
    <3> HIDE DEF Seen, Hit, p
    <3>4. Left(c, i) = IF Hit(c, i) THEN Pxtimeout
                       ELSE IF Seen(c, i) THEN p.pkts[i].timo - 1 ELSE p.pkts[i].timo
      BY DEF p
    <3> HIDE DEF Left
    <3> QED  BY <3>1, <3>2, <3>3, <3>4, PacketConstantsOK
  <2> HIDE DEF Left
  <2>2. T \in [Bufs -> 0..Pxtimeout] /\ \A i \in Bufs : T[i] = Left(c, i)
    BY <2>1
  <2>3. \A i \in Bufs : T[i] > 0 => p.pkts[i].state = "WAIT"
    BY <1>2, <2>1, <2>2 DEF Timers
  <2>4. q(c) = [p EXCEPT !.pkts = [i \in Bufs |-> [@[i] EXCEPT !.timo = T[i]]]]
    BY <2>2
  <2>5. p \in Pchannel
    BY <1>2
  <2> HIDE DEF T, p, q
  <2>6. SameConv(p, q(c)) /\ q(c).rseq = p.rseq
    BY <2>2, <2>3, <2>4, <2>5, TimersKept
  <2> QED  BY <2>6 DEF p
<1> HIDE DEF q
<1>11. ASSUME NEW x \in Ends, NEW c \in Channels
       PROVE  /\ SameConv(pconvs[x][c], pconvs'[x][c])
              /\ pconvs'[x][c].rseq = pconvs[x][c].rseq
  <2>1. CASE x = e
    <3>1. pconvs'[x][c] = q(c)
      BY <1>1, <1>3, <2>1 DEF ConvsGood
    <3> QED  BY <1>10, <2>1, <3>1
  <2>2. CASE x # e
    <3>1. pconvs'[x][c] = pconvs[x][c]
      BY <1>1, <1>3, <2>2 DEF ConvsGood
    <3> QED  BY <3>1, ConvKept
  <2> QED  BY <2>1, <2>2
<1> QED  BY <1>3, <1>8, <1>9, <1>11

LEMMA PtimeoutKeeps ==
  ASSUME PacketIInv, PacketIInv', DirectionsOK, NEW e \in Ends, ptimeout(e)
  PROVE  DirectionsOK' /\ Quiet
<1>1. /\ UNCHANGED <<sent, got>> /\ line'[Other(e)] \in Damaged(line[Other(e)])
      /\ \A x \in Ends, c \in Channels : /\ SameConv(pconvs[x][c], pconvs'[x][c])
                                         /\ pconvs'[x][c].rseq = pconvs[x][c].rseq
  BY PtimeoutDoes DEF Damaged
<1>2. line[e] \in Seq(Frame)
  BY IInvParts DEF RestTypeOK
<1>3. CASE line'[e] = line[e]
  <2>1. line'[e] = line[e] \o <<>> /\ <<>> \in Seq(Frame)
    BY <1>2, <1>3, OneFrame
  <2>2. \A k \in 1..Len(<<>>), c \in Channels :
           FitsData(<<>>[k], e, c) /\ FitsAck(<<>>[k], Other(e), c)
    BY OneFrame
  <2> QED  BY <1>1, <2>1, <2>2, QuietStep
<1>4. ASSUME NEW d \in Channels, NEW i \in Bufs, pconvs[e][d].pkts[i].state = "WAIT",
             line'[e] = Append(line[e], DataFrame(d, pconvs[e][d].pkts[i]))
      PROVE  DirectionsOK' /\ Quiet
  <2> DEFINE f == DataFrame(d, pconvs[e][d].pkts[i])
  <2>1. \A c \in Channels : f \in Frame /\ FitsData(f, e, c) /\ FitsAck(f, Other(e), c)
    BY <1>4, AgainFits
  <2>2. line'[e] = Append(line[e], f)
    BY <1>4
  <2> HIDE DEF f
  <2>3. f \in Frame
    BY <2>1
  <2>4. line'[e] = line[e] \o <<f>> /\ <<f>> \in Seq(Frame)
    BY <1>2, <2>2, <2>3, AppendJoins
  <2>5. \A k \in 1..Len(<<f>>), c \in Channels :
           FitsData(<<f>>[k], e, c) /\ FitsAck(<<f>>[k], Other(e), c)
    BY <2>1, <2>3, OneFrame
  <2> QED  BY <1>1, <2>4, <2>5, QuietStep
<1> QED  BY <1>3, <1>4, PtimeoutDoes

\* The three steps that the channel sees.
Sends(e, d) ==
  /\ sent' = [sent EXCEPT ![e][d] = @ + 1] /\ got' = got
  /\ Unacked(pconvs'[e][d]) = Unacked(pconvs[e][d]) + 1
  /\ \A x \in Ends, c \in Channels : x # e \/ c # d => SameCount(x, c)

Delivers(e, d) ==
  /\ Len(got[e][d]) + 1 <= sent[Other(e)][d]
  /\ got' = [got EXCEPT ![e][d] = Append(@, Len(got[e][d]) + 1)] /\ sent' = sent
  /\ \A x \in Ends, c \in Channels : SameCount(x, c)

Frees(e, d) ==
  /\ Unacked(pconvs'[e][d]) < Unacked(pconvs[e][d]) /\ UNCHANGED <<sent, got>>
  /\ \A x \in Ends, c \in Channels : x # e \/ c # d => SameCount(x, c)

LEMMA PsendKeeps ==
  ASSUME PacketIInv, PacketIInv', DirectionsOK, NEW e \in Ends, NEW d \in Channels,
         psend(e, d)
  PROVE  DirectionsOK' /\ Sends(e, d)
<1> DEFINE o == Other(e)
           p == pconvs[e][d]
           pkt == [state |-> "WAIT", timo |-> Pxtimeout, seq |-> p.xseq,
                   data |-> sent[e][d] + 1]
           n == Cardinality(Free(p)) - 1
           q == Loaded(p, pkt, n)
           f == DataFrame(d, pkt)
<1>1. ConvsGood(pconvs) /\ RestTypeOK /\ o \in Ends /\ o # e /\ Other(o) = e
  BY IInvParts, TheEnds
<1>2. p \in Pchannel /\ Free(p) # {} /\ sent[e][d] \in Nat /\ got[o][d] \in Seq(Nat)
  BY DirectionTypes DEF psend
<1>3. /\ pkt \in Pktstate /\ pkt.state = "WAIT" /\ pkt.seq = p.xseq
      /\ pkt.data = sent[e][d] + 1
  <2>1. p.xseq \in Seqs /\ sent[e][d] + 1 \in Nat /\ Pxtimeout \in 0..Pxtimeout
    BY <1>2, PacketConstantsOK DEF Pchannel
  <2> QED  BY <2>1 DEF Pktstate
<1>4. pconvs' = [pconvs EXCEPT ![e][d] = q]
  BY <1>1 DEF psend, ConvsGood, Loaded
<1>5. /\ line' = [line EXCEPT ![e] = Append(@, f)]
      /\ sent' = [sent EXCEPT ![e][d] = @ + 1] /\ got' = got
  BY DEF psend
<1>6. f \in Frame /\ f.chan = d /\ f.kind = "data"
  BY <1>3, DataFrameType DEF DataFrame
<1> HIDE DEF f, pkt
<1>7. /\ line'[e] = Append(line[e], f) /\ line'[o] = line[o]
      /\ line[e] \in Seq(Frame) /\ line[o] \in Seq(Frame)
  BY <1>1, <1>5 DEF RestTypeOK
<1>8. line'[e] = line[e] \o <<f>> /\ line'[o] \in Damaged(line[o])
  BY <1>6, <1>7, AppendJoins DEF Damaged
<1>9. /\ \A x \in Ends, c \in Channels : x # e \/ c # d => pconvs'[x][c] = pconvs[x][c]
      /\ pconvs'[e][d] = q
  BY <1>1, <1>4 DEF ConvsGood
<1>10. q.rseq = p.rseq
  BY <1>2 DEF Pchannel, Loaded
<1>11. \A x \in Ends, c \in Channels : pconvs'[x][c].rseq = pconvs[x][c].rseq
  BY <1>9, <1>10
<1> DEFINE g == got[o][d]
           r == pconvs[o][d].rseq
           S == sent[e][d]
<1>12. /\ DirectionOK(q, r, line'[e], line[o], d, S + 1, g)
       /\ Unacked(q) = Unacked(p) + 1
  <2> DEFINE l == line[e]
  <2>1. DirectionOK(p, r, l, line[o], d, S, g)
    BY DirectionNow DEF Direction
  <2>2. S \in Nat /\ g \in Seq(Nat) /\ pkt.data = S + 1 /\ l \in Seq(Frame)
    BY <1>2, <1>3, <1>7
  <2> HIDE DEF g, r, S, n, p, o, l
  <2>3. /\ DirectionOK(q, r, Append(l, DataFrame(d, pkt)), line[o], d, S + 1, g)
        /\ Unacked(q) = Unacked(p) + 1
    <3> HIDE DEF q
    <3>1. /\ p \in Pchannel /\ Free(p) # {}
          /\ pkt \in Pktstate /\ pkt.state = "WAIT" /\ pkt.seq = p.xseq
      BY <1>2, <1>3
    <3> DEFINE m == line[o]
    <3>2. DirectionOK(p, r, l, m, d, S, g)
      BY <2>1
    <3> HIDE DEF m
    <3>3. /\ DirectionOK(Loaded(p, pkt, n), r, Append(l, DataFrame(d, pkt)), m, d,
                         S + 1, g)
          /\ Unacked(Loaded(p, pkt, n)) = Unacked(p) + 1
      BY <3>1, <3>2, <2>2, PacketSent
    <3> QED  BY <3>3 DEF q, m
  <2>4. line'[e] = Append(l, DataFrame(d, pkt))
    BY <1>7 DEF f, l
  <2> HIDE DEF q
  <2> QED  BY <2>3, <2>4, Zenon
<1> HIDE DEF q
<1>13. sent'[e][d] = S + 1 /\ \A x \in Ends, c \in Channels :
                                 x # e \/ c # d => sent'[x][c] = sent[x][c]
  BY <1>1, <1>5 DEF RestTypeOK
<1>14. Direction(e, d)' /\ Unacked(pconvs'[e][d]) = Unacked(p) + 1
  <2>1. DirectionOK(pconvs'[e][d], pconvs'[o][d].rseq, line'[e], line'[o], d,
                    sent'[e][d], got'[o][d])
    BY <1>1, <1>5, <1>7, <1>9, <1>11, <1>12, <1>13
  <2> QED  BY <1>9, <1>12, <2>1 DEF Direction
<1>15. ASSUME NEW x \in Ends, NEW c \in Channels, x # e \/ c # d
       PROVE  Direction(x, c)' /\ SameCount(x, c)
  <2>1. /\ <<f>> \in Seq(Frame) /\ 1..Len(<<f>>) = {1} /\ <<f>>[1] = f
    BY <1>6, OneFrame
  <2>2. DataFor(line'[o], o, c) /\ AcksFor(line'[o], e, c)
    BY <1>8, <2>1, LinesMove
  <2>3. AcksFor(line'[e], o, c)
    <3>1. FitsAck(f, o, c)
      BY <1>6, OtherFrameFits DEF IsAck
    <3>2. \A k \in 1..Len(<<f>>) : FitsAck(<<f>>[k], Other(e), c)
      BY <2>1, <3>1
    <3>3. AcksFor(line[e] \o <<f>>, Other(e), c)
      BY <1>8, <2>1, <3>2, LinesMove
    <3> QED  BY <1>8, <3>3
  <2>4. c # d => DataFor(line'[e], e, c)
    <3> SUFFICES ASSUME c # d PROVE DataFor(line'[e], e, c)
      OBVIOUS
    <3>1. FitsData(f, e, c)
      BY <1>6, OtherFrameFits DEF IsData
    <3>2. \A k \in 1..Len(<<f>>) : FitsData(<<f>>[k], e, c)
      BY <2>1, <3>1
    <3>3. DataFor(line[e] \o <<f>>, e, c)
      BY <1>8, <2>1, <3>2, LinesMove
    <3> QED  BY <1>8, <3>3
  <2>5. DataFor(line'[x], x, c) /\ AcksFor(line'[Other(x)], x, c) /\ Other(x) \in Ends
    <3>1. CASE x = e
      BY <1>15, <2>2, <2>4, <3>1, TheEnds
    <3>2. CASE x = o
      BY <1>1, <2>2, <2>3, <3>2
    <3> QED  BY <3>1, <3>2, TheEnds
  <2>6. SameConv(pconvs[x][c], pconvs'[x][c])
    BY <1>9, <1>15, ConvKept
  <2>7. /\ pconvs'[Other(x)][c].rseq = pconvs[Other(x)][c].rseq
        /\ sent'[x][c] = sent[x][c] /\ got'[Other(x)][c] = got[Other(x)][c]
    BY <1>5, <1>11, <1>13, <1>15, <2>5
  <2> QED  BY <2>5, <2>6, <2>7, DirectionKept DEF SameCount
<1>16. DirectionsOK'
  BY <1>14, <1>15 DEF DirectionsOK
<1>17. Sends(e, d)
  BY <1>5, <1>14, <1>15 DEF Sends
<1> QED  BY <1>16, <1>17

LEMMA AcceptKeeps ==
  ASSUME PacketIInv, PacketIInv', DirectionsOK, NEW e \in Ends, NEW cd \in CData,
         Accept(e, cd), NEW d \in Channels, d = Incoming(e).chan
  PROVE  DirectionsOK' /\ Delivers(e, d)
<1> DEFINE o == Other(e)
           f == Incoming(e)
           p == pconvs[e][d]
           q == [p EXCEPT !.rseq = NextSeq(@), !.cdata[f.seq] = cd]
           x == [kind |-> "ack", chan |-> f.chan, seq |-> f.seq, data |-> cd]
<1>1. ConvsGood(pconvs) /\ RestTypeOK /\ o \in Ends /\ o # e /\ Other(o) = e
  BY IInvParts, TheEnds
<1>2. /\ line[o] # <<>> /\ f.chan = d /\ f.seq \in Seqs /\ f \in Frame
      /\ line[o] \in Seq(Frame) /\ f = line[o][1] /\ f.kind = "data" /\ f.seq = p.rseq
  <2>1. line[o] # <<>> /\ f.kind = "data" /\ f.seq = p.rseq
    BY DEF Accept, Arrived, Incoming
  <2>2. line[o] \in Seq(Frame)
    BY <1>1 DEF RestTypeOK
  <2> QED  BY <1>1, <2>1, <2>2, FrameTypes DEF Incoming
<1>3. /\ pconvs' = [pconvs EXCEPT ![e][d] = q] /\ Reply(e, "ack", cd)
      /\ got' = [got EXCEPT ![e][d] = Append(@, f.data)] /\ sent' = sent
  BY DEF Accept
<1>4. cd \in Nat
  BY PacketConstantsOK
<1>5. /\ x \in Frame /\ x.kind = "ack" /\ x.chan = d /\ x.seq = f.seq
      /\ line'[e] = line[e] \o <<x>> /\ line'[o] \in Damaged(line[o])
  BY <1>2, <1>3, <1>4, ReplyLines
<1>6. line'[e] = Append(line[e], x)
  BY <1>2, <1>3, <1>4, ReplyLines
<1>7. line'[o] = Tail(line[o])
  BY <1>2, <1>3, <1>4, ReplyLines
<1> HIDE DEF x
<1>8. p \in Pchannel /\ Timers(p)
  BY <1>2, DirectionTypes, DirectionNow
<1>9. SameConv(p, q) /\ q.rseq = NextSeq(p.rseq)
  <2> HIDE DEF p, f
  <2>1. /\ q.pkts = p.pkts /\ q.xseq = p.xseq /\ q.nextpkt = p.nextpkt
        /\ q.rseq = NextSeq(p.rseq)
    BY <1>8 DEF Pchannel
  <2> HIDE DEF q
  <2> QED  BY <1>8, <2>1 DEF SameConv, Timers
<1>10. /\ \A z \in Ends, c \in Channels : z # e \/ c # d => pconvs'[z][c] = pconvs[z][c]
       /\ pconvs'[e][d] = q
  <2> HIDE DEF q
  <2> QED  BY <1>1, <1>2, <1>3 DEF ConvsGood
<1>11. \A z \in Ends, c \in Channels : SameConv(pconvs[z][c], pconvs'[z][c])
  <2> SUFFICES ASSUME NEW z \in Ends, NEW c \in Channels
               PROVE  SameConv(pconvs[z][c], pconvs'[z][c])
    OBVIOUS
  <2> HIDE DEF q
  <2>1. CASE z = e /\ c = d
    BY <1>9, <1>10, <1>2, <2>1 DEF p
  <2>2. CASE z # e \/ c # d
    BY <1>10, <2>2, ConvKept
  <2> QED  BY <2>1, <2>2
<1>12. /\ DirectionOK(pconvs[o][d], p.rseq, line[o], line[e], d, sent[o][d], got[e][d])
       /\ pconvs[o][d] \in Pchannel /\ sent[o][d] \in Nat /\ got[e][d] \in Seq(Nat)
  <2> QED  BY <1>1, <1>2, DirectionTypes, DirectionNow DEF Direction
<1>13. /\ DirectionOK(pconvs[o][d], NextSeq(p.rseq), Tail(line[o]), Append(line[e], x), d,
                      sent[o][d], Append(got[e][d], line[o][1].data))
       /\ line[o][1].data = Len(got[e][d]) + 1 /\ Len(got[e][d]) + 1 <= sent[o][d]
  <2>1. IsData(line[o][1], d) /\ line[o][1].seq = p.rseq /\ x.seq = p.rseq
    BY <1>2, <1>5 DEF IsData
  <2>2. line[o] \in Seq(Frame) /\ line[e] \in Seq(Frame) /\ line[o] # <<>> /\ x \in Frame
    BY <1>1, <1>2, <1>5 DEF RestTypeOK
  <2> DEFINE P == pconvs[o][d]
             S == sent[o][d]
             g == got[e][d]
             r == p.rseq
             data == line[o]
             acks == line[e]
             D == Len(g) + 1
  <2>3. /\ P \in Pchannel /\ S \in Nat /\ g \in Seq(Nat) /\ data \in Seq(Frame)
        /\ acks \in Seq(Frame) /\ DirectionOK(P, r, data, acks, d, S, g) /\ data # <<>>
        /\ IsData(data[1], d) /\ data[1].seq = r /\ x \in Frame /\ x.seq = r
    BY <1>12, <2>1, <2>2
  <2> HIDE DEF P, S, g, r, data, acks
  <2>4. /\ data[1].data = Len(g) + 1 /\ Len(g) + 1 <= S
        /\ DirectionOK(P, NextSeq(r), Tail(data), Append(acks, x), d, S,
                       Append(g, data[1].data))
    BY <2>3, PacketTaken
  <2> QED  BY <2>4 DEF P, S, g, r, data, acks
<1> HIDE DEF q
<1>14. /\ got'[e][d] = Append(got[e][d], f.data)
       /\ \A z \in Ends, c \in Channels : z # e \/ c # d => got'[z][c] = got[z][c]
       /\ got' = [got EXCEPT ![e][d] = Append(@, Len(got[e][d]) + 1)]
  <2>1. f.data = Len(got[e][d]) + 1
    BY <1>2, <1>13
  <2>2. got \in [Ends -> [Channels -> Seq(Nat)]]
    BY <1>1 DEF RestTypeOK
  <2> HIDE DEF f
  <2> QED  BY <1>2, <1>3, <2>1, <2>2
<1>15. Direction(o, d)' /\ SameCount(o, d)
  <2>1. pconvs'[o][d] = pconvs[o][d]
    BY <1>1, <1>2, <1>10
  <2>2. pconvs'[e][d].rseq = NextSeq(p.rseq)
    BY <1>9, <1>10
  <2>3. got'[e][d] = Append(got[e][d], line[o][1].data)
    BY <1>2, <1>14
  <2>4. DirectionOK(pconvs'[o][d], pconvs'[e][d].rseq, line'[o], line'[e], d, sent'[o][d],
                    got'[e][d])
    <3> HIDE DEF p, o
    <3> QED  BY <1>3, <1>6, <1>7, <1>13, <2>1, <2>2, <2>3, Zenon
  <2> HIDE DEF o
  <2> QED  BY <1>1, <2>1, <2>4 DEF Direction, SameCount
<1>16. ASSUME NEW z \in Ends, NEW c \in Channels, z # o \/ c # d
       PROVE  Direction(z, c)' /\ SameCount(z, c)
  <2>1. /\ <<x>> \in Seq(Frame) /\ 1..Len(<<x>>) = {1} /\ <<x>>[1] = x
    BY <1>5, OneFrame
  <2>2. DataFor(line'[o], o, c) /\ AcksFor(line'[o], e, c)
    BY <1>5, <2>1, LinesMove
  <2>3. DataFor(line'[e], e, c)
    <3>1. FitsData(x, e, c)
      BY <1>5, OtherFrameFits DEF IsData
    <3>2. \A k \in 1..Len(<<x>>) : FitsData(<<x>>[k], e, c)
      BY <2>1, <3>1
    <3>3. DataFor(line[e] \o <<x>>, e, c)
      BY <1>5, <2>1, <3>2, LinesMove
    <3> QED  BY <1>5, <3>3
  <2>4. c # d => AcksFor(line'[e], o, c)
    <3> SUFFICES ASSUME c # d PROVE AcksFor(line'[e], o, c)
      OBVIOUS
    <3>1. FitsAck(x, o, c)
      BY <1>5, OtherFrameFits DEF IsAck
    <3>2. \A k \in 1..Len(<<x>>) : FitsAck(<<x>>[k], Other(e), c)
      BY <2>1, <3>1
    <3>3. AcksFor(line[e] \o <<x>>, Other(e), c)
      BY <1>5, <2>1, <3>2, LinesMove
    <3> QED  BY <1>5, <3>3
  <2>5. DataFor(line'[z], z, c) /\ AcksFor(line'[Other(z)], z, c) /\ Other(z) \in Ends
    <3>1. CASE z = e
      BY <2>2, <2>3, <3>1, TheEnds
    <3>2. CASE z = o
      BY <1>1, <1>16, <2>2, <2>4, <3>2
    <3> QED  BY <3>1, <3>2, TheEnds
  <2>6. pconvs'[Other(z)][c].rseq = pconvs[Other(z)][c].rseq
    <3>1. Other(z) # e \/ c # d
      BY <1>16, TheEnds
    <3> QED  BY <1>10, <2>5, <3>1
  <2>7. sent'[z][c] = sent[z][c] /\ got'[Other(z)][c] = got[Other(z)][c]
    <3>1. Other(z) # e \/ c # d
      BY <1>16, TheEnds
    <3> QED  BY <1>3, <1>14, <2>5, <3>1
  <2>8. SameConv(pconvs[z][c], pconvs'[z][c])
    BY <1>11
  <2> QED  BY <2>5, <2>6, <2>7, <2>8, DirectionKept DEF SameCount
<1>17. \A z \in Ends, c \in Channels : Direction(z, c)' /\ SameCount(z, c)
  <2> QED  BY <1>15, <1>16
<1>18. Delivers(e, d)
  BY <1>3, <1>13, <1>14, <1>17 DEF Delivers
<1> QED  BY <1>2, <1>17, <1>18 DEF DirectionsOK

LEMMA AckedKeeps ==
  ASSUME PacketIInv, PacketIInv', DirectionsOK, NEW e \in Ends, Acked(e),
         NEW d \in Channels, d = Incoming(e).chan
  PROVE  DirectionsOK' /\ (Quiet \/ Frees(e, d))
<1> DEFINE o == Other(e)
           f == Incoming(e)
           p == pconvs[e][d]
           s == Scan(p, f.seq)
           q == Released(p, s)
<1>1. ConvsGood(pconvs) /\ RestTypeOK /\ o \in Ends /\ o # e /\ Other(o) = e
  BY IInvParts, TheEnds
<1>2. /\ line[o] # <<>> /\ f.chan = d /\ line[o] \in Seq(Frame) /\ line[e] \in Seq(Frame)
      /\ f = line[o][1] /\ f.kind = "ack"
  <2>1. line[o] # <<>> /\ f.kind = "ack"
    BY DEF Acked, Arrived, Incoming
  <2>2. line[o] \in Seq(Frame) /\ line[e] \in Seq(Frame)
    BY <1>1 DEF RestTypeOK
  <2> QED  BY <1>1, <2>1, <2>2, FrameTypes DEF Incoming
<1>3. /\ line' = [line EXCEPT ![o] = Tail(@)] /\ UNCHANGED <<sent, got>>
      /\ IF Hits(s) = {} THEN pconvs' = pconvs
                         ELSE pconvs' = [pconvs EXCEPT ![e][d] = Released(@, s)]
  BY <1>2 DEF Acked
<1>4. line'[o] = Tail(line[o]) /\ line'[e] = line[e]
  BY <1>1, <1>3 DEF RestTypeOK
<1>5. line'[o] \in Damaged(line[o])
  BY <1>2, <1>4 DEF Damaged
<1>6. line'[e] = line[e] \o <<>> /\ <<>> \in Seq(Frame)
  BY <1>2, <1>4, OneFrame
<1>7. \A k \in 1..Len(<<>>), c \in Channels :
         FitsData(<<>>[k], e, c) /\ FitsAck(<<>>[k], Other(e), c)
  BY OneFrame
<1>8. CASE Hits(s) = {}
  <2>1. \A x \in Ends, c \in Channels : /\ SameConv(pconvs[x][c], pconvs'[x][c])
                                        /\ pconvs'[x][c].rseq = pconvs[x][c].rseq
    BY <1>3, <1>8, ConvKept
  <2> QED  BY <1>3, <1>5, <1>6, <1>7, <2>1, QuietStep
<1>9. CASE Hits(s) # {}
  <2>1. /\ \A x \in Ends, c \in Channels : x # e \/ c # d => pconvs'[x][c] = pconvs[x][c]
        /\ pconvs'[e][d] = q
    <3>1. pconvs' = [pconvs EXCEPT ![e][d] = q]
      BY <1>1, <1>3, <1>9 DEF ConvsGood
    <3> HIDE DEF q
    <3> QED  BY <1>1, <3>1 DEF ConvsGood
  <2>2. q.rseq = p.rseq
    <3>1. p \in Pchannel
      BY DirectionTypes
    <3> HIDE DEF p, s
    <3> QED  BY <3>1 DEF Pchannel, Released
  <2>3. \A x \in Ends, c \in Channels : pconvs'[x][c].rseq = pconvs[x][c].rseq
    <3> HIDE DEF q
    <3> QED  BY <2>1, <2>2
  <2>4. /\ DirectionOK(q, pconvs[o][d].rseq, line[e], Tail(line[o]), d, sent[e][d],
                       got[o][d])
        /\ Unacked(q) < Unacked(p)
    <3> DEFINE S == sent[e][d]
               g == got[o][d]
               r == pconvs[o][d].rseq
               data == line[e]
               acks == line[o]
    <3>1. /\ p \in Pchannel /\ S \in Nat /\ g \in Seq(Nat) /\ acks \in Seq(Frame)
          /\ DirectionOK(p, r, data, acks, d, S, g)
      BY <1>1, DirectionTypes, DirectionNow DEF Direction
    <3>2. acks # <<>> /\ IsAck(acks[1], d) /\ Hits(Scan(p, acks[1].seq)) # {}
      BY <1>2, <1>9 DEF IsAck
    <3>3. q = Released(p, Scan(p, acks[1].seq))
      BY <1>2
    <3> HIDE DEF S, g, r, data, acks, p, q
    <3>4. /\ DirectionOK(q, r, data, Tail(acks), d, S, g)
          /\ Unacked(q) < Unacked(p)
      BY <3>1, <3>2, <3>3, PacketsAcked
    <3> QED  BY <3>4 DEF S, g, r, data, acks
  <2> HIDE DEF q
  <2>5. Direction(e, d)' /\ Unacked(pconvs'[e][d]) < Unacked(pconvs[e][d])
    <3>1. pconvs'[o][d].rseq = pconvs[o][d].rseq
      BY <1>1, <2>3
    <3> HIDE DEF o
    <3>2. DirectionOK(pconvs'[e][d], pconvs'[o][d].rseq, line'[e], line'[o], d,
                      sent'[e][d], got'[o][d])
      BY <1>3, <1>4, <2>1, <2>4, <3>1, Zenon
    <3> QED  BY <2>1, <2>4, <3>2 DEF Direction, o
  <2>6. ASSUME NEW x \in Ends, NEW c \in Channels, x # e \/ c # d
        PROVE  Direction(x, c)' /\ SameCount(x, c)
    <3>1. /\ DataFor(line'[o], o, c) /\ AcksFor(line'[o], e, c)
          /\ DataFor(line'[e], e, c) /\ AcksFor(line'[e], o, c)
      <4>1. /\ DataFor(line'[o], o, c) /\ AcksFor(line'[o], e, c)
            /\ DataFor(line[e] \o <<>>, e, c) /\ AcksFor(line[e] \o <<>>, o, c)
        BY <1>5, <1>6, <1>7, LinesMove
      <4> QED  BY <1>6, <4>1
    <3>2. DataFor(line'[x], x, c) /\ AcksFor(line'[Other(x)], x, c) /\ Other(x) \in Ends
      <4>1. CASE x = e
        BY <3>1, <4>1, TheEnds
      <4>2. CASE x = o
        BY <1>1, <3>1, <4>2
      <4> QED  BY <4>1, <4>2, TheEnds
    <3>3. SameConv(pconvs[x][c], pconvs'[x][c])
      BY <2>1, <2>6, ConvKept
    <3>4. /\ pconvs'[Other(x)][c].rseq = pconvs[Other(x)][c].rseq
          /\ sent'[x][c] = sent[x][c] /\ got'[Other(x)][c] = got[Other(x)][c]
      BY <1>3, <2>3, <3>2
    <3> QED  BY <3>2, <3>3, <3>4, DirectionKept DEF SameCount
  <2>7. DirectionsOK'
    BY <2>5, <2>6 DEF DirectionsOK
  <2>8. Frees(e, d)
    BY <1>3, <2>5, <2>6 DEF Frees
  <2> QED  BY <2>7, <2>8
<1> QED  BY <1>8, <1>9

-----------------------------------------------------------------------------
(* The invariant, and what each step is for the channel.                   *)

LEMMA DirectionsInit == PacketInit => DirectionsOK
<1> SUFFICES ASSUME PacketInit, NEW e \in Ends, NEW c \in Channels
             PROVE  Direction(e, c)
  BY DEF DirectionsOK
<1>1. Other(e) \in Ends
  BY TheEnds
<1>2. /\ pconvs[e][c] = pinit /\ pconvs[Other(e)][c] = pinit
      /\ line[e] = <<>> /\ line[Other(e)] = <<>>
      /\ sent[e][c] = 0 /\ got[Other(e)][c] = <<>>
  BY <1>1 DEF PacketInit
<1>3. /\ pinit.xseq = 0 /\ pinit.rseq = 0 /\ pinit.nextpkt = 0
      /\ \A i \in Bufs : pinit.pkts[i].timo = 0 /\ pinit.pkts[i].state = "NULL"
  BY DEF pinit
<1> HIDE DEF pinit
<1>4. SenderOK(pinit, 0) /\ Unacked(pinit) = 0
  <2>1. Nth(pinit, 0) = 0 /\ Nth(pinit, 1) = 1
    BY <1>3, TwoBuffers DEF Nth
  <2>2. pinit.pkts[0].state = "NULL" /\ pinit.pkts[1].state = "NULL"
    BY <1>3, TwoBuffers
  <2>3. Unacked(pinit) = 0
    BY <2>2 DEF Unacked, Waits
  <2>4. pinit.xseq = 0 % SEQMOD
    BY <1>3 DEF SEQMOD
  <2> QED  BY <2>1, <2>2, <2>3, <2>4 DEF SenderOK
<1>5. Timers(pinit)
  BY <1>3 DEF Timers
<1>6. /\ Len(<<>>) = 0 /\ 0 = 0 % SEQMOD /\ 1..0 = {}
  BY DEF SEQMOD
<1>7. DataOK(<<>>, c, 0, 0) /\ AcksOK(<<>>, c, 0, 0)
  BY <1>6 DEF DataOK, AcksOK
<1>8. <<>> = [k \in 1..Len(<<>>) |-> k]
  BY <1>6
<1>9. DirectionOK(pinit, 0, <<>>, <<>>, c, 0, <<>>)
  BY <1>4, <1>5, <1>6, <1>7, <1>8 DEF DirectionOK
<1> QED  BY <1>2, <1>3, <1>9 DEF Direction

ChannelStep ==
  \/ Quiet
  \/ \E e \in Ends, d \in Channels : Sends(e, d) \/ Delivers(e, d) \/ Frees(e, d)

LEMMA DirectionsStep ==
  ASSUME PacketIInv, PacketIInv', DirectionsOK, [PacketNext]_packetVars
  PROVE  DirectionsOK' /\ ChannelStep
<1>1. ASSUME NEW e \in Ends, Transmit(e) PROVE DirectionsOK' /\ ChannelStep
  BY <1>1, PsendKeeps, PsendFullKeeps DEF Transmit, ChannelStep
<1>2. ASSUME NEW e \in Ends, Receive(e) PROVE DirectionsOK' /\ ChannelStep
  <2>1. RestTypeOK /\ Other(e) \in Ends /\ Other(Other(e)) = e
    BY IInvParts, TheEnds
  <2>2. CASE \E cd \in CData : Accept(e, cd)
    <3>1. PICK cd \in CData : Accept(e, cd)
      BY <2>2
    <3>2. Incoming(e).chan \in Channels
      BY <2>1, <3>1, FrameTypes DEF Accept, Arrived, Incoming
    <3>3. PICK d \in Channels : d = Incoming(e).chan
      BY <3>2
    <3> QED  BY <3>1, <3>3, AcceptKeeps DEF ChannelStep
  <2>3. CASE Refuse(e) \/ OutOfOrder(e)
    BY <2>3, AnswersKeep DEF ChannelStep
  <2>4. CASE Acked(e)
    <3>1. Incoming(e).chan \in Channels
      BY <2>1, <2>4, FrameTypes DEF Acked, Arrived, Incoming
    <3>2. PICK d \in Channels : d = Incoming(e).chan
      BY <3>1
    <3> QED  BY <2>4, <3>2, AckedKeeps DEF ChannelStep
  <2>5. CASE Naked(e)
    BY <2>5, NakedKeeps DEF ChannelStep
  <2>6. CASE Swallow(e)
    <3>1. Swallow(Other(Other(e)))
      BY <2>1, <2>6
    <3> QED  BY <2>1, <3>1, LineStepsKeep DEF ChannelStep
  <2> QED  BY <1>2, <2>2, <2>3, <2>4, <2>5, <2>6 DEF Receive
<1>3. ASSUME NEW e \in Ends, ptimeout(e) PROVE DirectionsOK' /\ ChannelStep
  BY <1>3, PtimeoutKeeps DEF ChannelStep
<1>4. ASSUME NEW e \in Ends, Lose(e) \/ Truncate(e) \/ Calm
      PROVE  DirectionsOK' /\ ChannelStep
  BY <1>4, LineStepsKeep DEF ChannelStep
<1>5. CASE Calm
  BY <1>4, <1>5 DEF Ends
<1>6. CASE UNCHANGED packetVars
  <2>1. UNCHANGED <<pconvs, line, sent, got>>
    BY <1>6 DEF packetVars
  <2> QED  BY <2>1 DEF DirectionsOK, Direction, ChannelStep, Quiet, SameCount
<1> QED  BY <1>1, <1>2, <1>3, <1>4, <1>5, <1>6 DEF PacketNext

\* Whatever happened on the line, in each direction of each channel the frames
\* and what both ends remember still determine every packet by its sequence
\* number, and what was delivered are the packets sent, once each, in order.
THEOREM SequenceNumbersSuffice == PacketSpec => []DirectionsOK
<1>1. PacketIInv /\ PacketIInv' /\ DirectionsOK /\ [PacketNext]_packetVars => DirectionsOK'
  BY DirectionsStep
<1> QED  BY <1>1, DirectionsInit, Invariance, PTL DEF PacketSpec

\* What the receiver's functions of a channel were given: packets 1, 2, ...,
\* none twice, none missing, none that psend did not take.
DeliveredInOrder ==
  \A e \in Ends, c \in Channels :
     /\ got[Other(e)][c] = [k \in 1..Len(got[Other(e)][c]) |-> k]
     /\ Len(got[Other(e)][c]) <= sent[e][c]

THEOREM ExactlyOnceInOrder == PacketSpec => []DeliveredInOrder
<1>1. DirectionsOK => DeliveredInOrder
  BY DEF DirectionsOK, Direction, DirectionOK, DeliveredInOrder
<1> QED  BY <1>1, SequenceNumbersSuffice, PTL

-----------------------------------------------------------------------------
(* The protocol implements PacketChannel.                                  *)

CreditOf(P) == [e \in Ends |-> [c \in Channels |-> P[e][c].freepkts]]

LEMMA Credit ==
  ASSUME NEW P, ConvsGood(P), NEW e \in Ends, NEW c \in Channels
  PROVE  /\ Unacked(P[e][c]) \in 0..2
         /\ CreditOf(P)[e][c] = 2 - Unacked(P[e][c])
<1>1. P[e][c] \in Pchannel /\ P[e][c].freepkts = Cardinality(Free(P[e][c]))
  BY DEF ConvsGood, Good
<1>2. CreditOf(P)[e][c] = P[e][c].freepkts
  BY DEF CreditOf
<1> QED  BY <1>1, <1>2, WaitingCounted

\* The counters of one conversation changed by k, the others left alone.
LEMMA CreditMoves ==
  ASSUME NEW P, NEW Q, ConvsGood(P), ConvsGood(Q), NEW e \in Ends, NEW d \in Channels,
         NEW k \in Int, Unacked(Q[e][d]) = Unacked(P[e][d]) - k,
         \A x \in Ends, c \in Channels :
            x # e \/ c # d => Unacked(Q[x][c]) = Unacked(P[x][c])
  PROVE  CreditOf(Q) = [CreditOf(P) EXCEPT ![e][d] = @ + k]
<1>1. /\ CreditOf(P) = [x \in Ends |-> [c \in Channels |-> CreditOf(P)[x][c]]]
      /\ CreditOf(Q) = [x \in Ends |-> [c \in Channels |-> CreditOf(Q)[x][c]]]
  BY DEF CreditOf
<1>2. \A x \in Ends, c \in Channels :
         CreditOf(Q)[x][c] = IF x = e /\ c = d THEN CreditOf(P)[x][c] + k
                                               ELSE CreditOf(P)[x][c]
  <2> SUFFICES ASSUME NEW x \in Ends, NEW c \in Channels
               PROVE  CreditOf(Q)[x][c] = IF x = e /\ c = d THEN CreditOf(P)[x][c] + k
                                                           ELSE CreditOf(P)[x][c]
    OBVIOUS
  <2> DEFINE u == Unacked(P[x][c])
             v == Unacked(Q[x][c])
  <2>1. /\ u \in 0..2 /\ CreditOf(P)[x][c] = 2 - u
        /\ v \in 0..2 /\ CreditOf(Q)[x][c] = 2 - v
    BY Credit
  <2>2. v = IF x = e /\ c = d THEN u - k ELSE u
    OBVIOUS
  <2> HIDE DEF u, v
  <2> QED  BY <2>1, <2>2
<1> HIDE DEF CreditOf
<1> DEFINE A == CreditOf(P)
           B == CreditOf(Q)
<1>3. /\ A = [x \in Ends |-> [c \in Channels |-> A[x][c]]]
      /\ B = [x \in Ends |-> [c \in Channels |-> B[x][c]]]
      /\ \A x \in Ends, c \in Channels :
            B[x][c] = IF x = e /\ c = d THEN A[x][c] + k ELSE A[x][c]
  BY <1>1, <1>2, Zenon
<1> HIDE DEF A, B
<1>4. B = [A EXCEPT ![e][d] = @ + k]
  <2>1. [A EXCEPT ![e][d] = @ + k] =
        [x \in Ends |-> [c \in Channels |->
            IF x = e /\ c = d THEN A[x][c] + k ELSE A[x][c]]]
    <3> DEFINE G == [A[e] EXCEPT ![d] = @ + k]
    <3>1. \A x \in Ends : A[x] = [c \in Channels |-> A[x][c]]
      BY <1>3
    <3>2. G = [c \in Channels |-> IF c = d THEN A[e][c] + k ELSE A[e][c]]
      BY <3>1
    <3>3. [A EXCEPT ![e][d] = @ + k] = [A EXCEPT ![e] = G]
      OBVIOUS
    <3> HIDE DEF G
    <3>4. [A EXCEPT ![e] = G] = [x \in Ends |-> IF x = e THEN G ELSE A[x]]
      BY <1>3
    <3>5. \A x \in Ends : (IF x = e THEN G ELSE A[x]) =
             [c \in Channels |-> IF x = e /\ c = d THEN A[x][c] + k ELSE A[x][c]]
      BY <3>1, <3>2
    <3> QED  BY <3>3, <3>4, <3>5
  <2>2. B = [x \in Ends |-> [c \in Channels |->
                 IF x = e /\ c = d THEN A[x][c] + k ELSE A[x][c]]]
    BY <1>3
  <2> QED  BY <2>1, <2>2
<1> QED  BY <1>4 DEF A, B

LEMMA ChannelFirst == PacketInit => Channel!ChannelInit
<1> SUFFICES ASSUME PacketInit PROVE Channel!ChannelInit
  OBVIOUS
<1>1. [e \in Ends |-> [c \in Channels |-> pconvs[e][c].freepkts]] =
      [e \in Ends |-> [c \in Channels |-> NPCBUFS]]
  <2>1. \A e \in Ends, c \in Channels : pconvs[e][c].freepkts = NPCBUFS
    BY DEF PacketInit, pinit
  <2> QED  BY <2>1
<1> QED  BY <1>1 DEF PacketInit, Channel!ChannelInit

LEMMA ChannelSteps ==
  ASSUME PacketIInv, PacketIInv', DirectionsOK, DirectionsOK', ChannelStep
  PROVE  [Channel!ChannelNext]_(Channel!channelVars)
<1>1. ConvsGood(pconvs) /\ ConvsGood(pconvs') /\ RestTypeOK
  BY IInvParts
<1>2. \A e \in Ends : Other(e) \in Ends
  BY TheEnds
<1>3. CASE Quiet
  <2>1. \A x \in Ends, c \in Channels : CreditOf(pconvs')[x][c] = CreditOf(pconvs)[x][c]
    BY <1>1, <1>3, Credit DEF Quiet, SameCount
  <2>2. CreditOf(pconvs') = CreditOf(pconvs)
    BY <2>1 DEF CreditOf
  <2> QED  BY <1>3, <2>2 DEF CreditOf, Quiet, Channel!channelVars
<1>4. ASSUME NEW e \in Ends, NEW d \in Channels, Sends(e, d)
      PROVE  Channel!ChannelNext
  <2>1. Unacked(pconvs'[e][d]) = Unacked(pconvs[e][d]) - (-1)
    <3>1. Unacked(pconvs[e][d]) \in 0..2
      BY <1>1, Credit
    <3> QED  BY <1>4, <3>1 DEF Sends
  <2>2. CreditOf(pconvs') = [CreditOf(pconvs) EXCEPT ![e][d] = @ + (-1)]
    BY <1>1, <1>4, <2>1, CreditMoves DEF Sends, SameCount
  <2>3. CreditOf(pconvs)[e][d] > 0 /\ CreditOf(pconvs)[e][d] \in Nat
    <3> DEFINE u == Unacked(pconvs[e][d])
               v == Unacked(pconvs'[e][d])
    <3>1. u \in 0..2 /\ v \in 0..2 /\ v = u + 1 /\ CreditOf(pconvs)[e][d] = 2 - u
      BY <1>1, <1>4, Credit DEF Sends
    <3> HIDE DEF u, v
    <3> QED  BY <3>1
  <2>4. CreditOf(pconvs') = [CreditOf(pconvs) EXCEPT ![e][d] = @ - 1]
    <3> DEFINE n == CreditOf(pconvs)[e][d]
    <3>1. n + (-1) = n - 1
      BY <2>3
    <3> QED  BY <2>2, <3>1, Zenon
  <2>5. Channel!Give(e, d)
    BY <1>4, <2>3, <2>4 DEF Channel!Give, CreditOf, Sends
  <2> QED  BY <2>5 DEF Channel!ChannelNext
<1>5. ASSUME NEW e \in Ends, NEW d \in Channels, Delivers(e, d)
      PROVE  Channel!ChannelNext
  <2>1. \A x \in Ends, c \in Channels : CreditOf(pconvs')[x][c] = CreditOf(pconvs)[x][c]
    BY <1>1, <1>5, Credit DEF Delivers, SameCount
  <2>2. CreditOf(pconvs') = CreditOf(pconvs)
    BY <2>1 DEF CreditOf
  <2>3. Channel!Deliver(e, d)
    BY <1>5, <2>2 DEF Channel!Deliver, CreditOf, Delivers
  <2> QED  BY <2>3 DEF Channel!ChannelNext
<1>6. ASSUME NEW e \in Ends, NEW d \in Channels, Frees(e, d)
      PROVE  Channel!ChannelNext
  <2> DEFINE u == Unacked(pconvs[e][d])
             v == Unacked(pconvs'[e][d])
             R == Len(got[Other(e)][d])
             S == sent[e][d]
             k == u - v
             n == CreditOf(pconvs)[e][d]
  <2>1. u \in 0..2 /\ v \in 0..2 /\ v < u /\ n = 2 - u
    BY <1>1, <1>6, Credit DEF Frees
  <2>2. S - v <= R /\ R \in Nat /\ S \in Nat
    <3>1. Direction(e, d)'
      BY DEF DirectionsOK
    <3>2. sent' = sent /\ got' = got /\ S \in Nat /\ got[Other(e)][d] \in Seq(Nat)
      BY <1>1, <1>2, <1>6 DEF Frees, RestTypeOK
    <3>3. sent'[e][d] - v <= Len(got'[Other(e)][d])
      BY <3>1 DEF Direction, DirectionOK
    <3> QED  BY <3>2, <3>3
  <2>3. v = u - k /\ k \in 1..NPCBUFS /\ n + k + (S - R) <= NPCBUFS
    <3> HIDE DEF u, v, R, S, n
    <3> QED  BY <2>1, <2>2 DEF NPCBUFS
  <2> HIDE DEF k
  <2>4. CreditOf(pconvs') = [CreditOf(pconvs) EXCEPT ![e][d] = @ + k]
    <3>1. k \in Int
      BY <2>3 DEF NPCBUFS
    <3> QED  BY <1>1, <1>6, <2>3, <3>1, CreditMoves DEF Frees, SameCount
  <2>5. Channel!GiveBack(e, d)
    BY <1>6, <2>3, <2>4 DEF Channel!GiveBack, CreditOf, Frees
  <2> QED  BY <2>5 DEF Channel!ChannelNext
<1> QED  BY <1>3, <1>4, <1>5, <1>6 DEF ChannelStep

\* Every behaviour of the protocol, whatever the line does, is one of the
\* channel: packets taken by psend are delivered once each and in order, and
\* a buffer is free again only after its packet has been delivered.
THEOREM ImplementsChannel == PacketSpec => Channel!ChannelSafety
<1>1. /\ PacketIInv /\ PacketIInv' /\ DirectionsOK /\ DirectionsOK'
      /\ [PacketNext]_packetVars
      => [Channel!ChannelNext]_(Channel!channelVars)
  BY DirectionsStep, ChannelSteps
<1> QED  BY <1>1, ChannelFirst, Invariance, SequenceNumbersSuffice, PTL
         DEF PacketSpec, Channel!ChannelSafety
=============================================================================
