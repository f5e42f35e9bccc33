------------------------------ MODULE MuxProofs ------------------------------
(***************************************************************************)
(* Theorems about MuxLayer: the text of a layer that mux reads always      *)
(* finds a packet buffer, the layer's buffer in the terminal does not      *)
(* overflow, and below them the packets are those of PacketChannel: mux    *)
(* takes no step on the line that PacketProto's invariants do not survive. *)
(***************************************************************************)
EXTENDS MuxLayer, PacketProofs

\* What the ends do to the line, with or without mux's limits.
WireStep ==
  \/ \E e \in Ends :
        \/ \E c \in Channels : psend(e, c) \/ psendFull(e, c)
        \/ \E cd \in CData : Accept(e, cd)
        \/ Refuse(e) \/ OutOfOrder(e) \/ Acked(e) \/ Naked(e)
        \/ ptimeout(e) \/ Lose(e)
  \/ UNCHANGED packetVars

LEMMA WireKeeps ==
  ASSUME PacketIInv, DirectionsOK, WireStep
  PROVE  PacketIInv' /\ DirectionsOK' /\ ChannelStep
<1>1. ASSUME NEW e \in Ends, NEW c \in Channels, psend(e, c) \/ psendFull(e, c)
      PROVE  PacketIInv' /\ DirectionsOK' /\ ChannelStep
  <2>1. PacketIInv'
    BY <1>1, PsendStep, PsendFullStep
  <2> QED  BY <1>1, <2>1, PsendKeeps, PsendFullKeeps DEF ChannelStep
<1>2. ASSUME NEW e \in Ends, NEW cd \in CData, Accept(e, cd)
      PROVE  PacketIInv' /\ DirectionsOK' /\ ChannelStep
  <2>1. PacketIInv'
    BY <1>2, AcceptStep
  <2>2. Incoming(e).chan \in Channels
    BY <1>2, IInvParts, TheEnds, FrameTypes DEF Accept, Arrived, Incoming
  <2>3. PICK d \in Channels : d = Incoming(e).chan
    BY <2>2
  <2> QED  BY <1>2, <2>1, <2>3, AcceptKeeps DEF ChannelStep
<1>3. ASSUME NEW e \in Ends, Refuse(e) \/ OutOfOrder(e)
      PROVE  PacketIInv' /\ DirectionsOK' /\ ChannelStep
  <2>1. PacketIInv'
    BY <1>3, AnswerSteps
  <2> QED  BY <1>3, <2>1, AnswersKeep DEF ChannelStep
<1>4. ASSUME NEW e \in Ends, Acked(e)
      PROVE  PacketIInv' /\ DirectionsOK' /\ ChannelStep
  <2>1. PacketIInv'
    BY <1>4, AckedStep
  <2>2. Incoming(e).chan \in Channels
    BY <1>4, IInvParts, TheEnds, FrameTypes DEF Acked, Arrived, Incoming
  <2>3. PICK d \in Channels : d = Incoming(e).chan
    BY <2>2
  <2> QED  BY <1>4, <2>1, <2>3, AckedKeeps DEF ChannelStep
<1>5. ASSUME NEW e \in Ends, Naked(e)
      PROVE  PacketIInv' /\ DirectionsOK' /\ ChannelStep
  <2>1. PacketIInv'
    BY <1>5, NakedStep
  <2> QED  BY <1>5, <2>1, NakedKeeps DEF ChannelStep
<1>6. ASSUME NEW e \in Ends, ptimeout(e)
      PROVE  PacketIInv' /\ DirectionsOK' /\ ChannelStep
  <2>1. PacketIInv'
    BY <1>6, PtimeoutStep
  <2> QED  BY <1>6, <2>1, PtimeoutKeeps DEF ChannelStep
<1>7. ASSUME NEW e \in Ends, Lose(e)
      PROVE  PacketIInv' /\ DirectionsOK' /\ ChannelStep
  <2>1. PacketIInv'
    BY <1>7, LineSteps
  <2> QED  BY <1>7, <2>1, LineStepsKeep DEF ChannelStep
<1>8. CASE UNCHANGED packetVars
  <2>1. PacketIInv'
    BY <1>8, Step
  <2>2. UNCHANGED <<pconvs, line, sent, got>>
    BY <1>8 DEF packetVars
  <2> QED  BY <2>1, <2>2 DEF DirectionsOK, Direction, ChannelStep, Quiet, SameCount
<1> QED  BY <1>1, <1>2, <1>3, <1>4, <1>5, <1>6, <1>7, <1>8 DEF WireStep

-----------------------------------------------------------------------------
(* What the ends do to the layer's buffers at the host.                    *)

LEMMA TheLayer ==
  /\ Layer \in Channels /\ 0 \in CData /\ UNBLK \in CData
  /\ "host" \in Ends /\ "term" \in Ends /\ Other("term") = "host"
  /\ MaxMsgs["host"] \in Nat
BY MuxConstantsOK, PacketConstantsOK DEF Layer, Channels, UNBLK, Ends, Other

HasRoom(p) == Unacked(p) <= 1

LEMMA Room ==
  ASSUME NEW P, ConvsGood(P), NEW e \in Ends, NEW c \in Channels
  PROVE  /\ HasRoom(P[e][c]) <=> Free(P[e][c]) # {}
         /\ HasRoom(P[e][c]) <=> P[e][c].freepkts >= 1
<1> DEFINE p == P[e][c]
<1>1. p \in Pchannel /\ p.freepkts = Cardinality(Free(p))
  BY DEF ConvsGood, Good
<1> HIDE DEF p
<1>2. Unacked(p) \in 0..2 /\ p.freepkts = 2 - Unacked(p)
  BY <1>1, WaitingCounted
<1>3. Free(p) # {} <=> \E i \in Bufs : p.pkts[i].state # "WAIT"
  BY DEF Free
<1>4. HasRoom(p) <=> Waits(p, 0) = 0 \/ Waits(p, 1) = 0
  BY DEF HasRoom, Unacked, Waits
<1>5. Free(p) # {} <=> Waits(p, 0) = 0 \/ Waits(p, 1) = 0
  BY <1>3, TwoBuffers DEF Waits
<1> QED  BY <1>2, <1>4, <1>5 DEF HasRoom, p

\* Only psend at the host takes a buffer of the layer away.
LEMMA RoomKept ==
  ASSUME PacketIInv, PacketIInv', ChannelStep,
         sent'["host"][Layer] = sent["host"][Layer], HasRoom(pconvs["host"][Layer])
  PROVE  HasRoom(pconvs'["host"][Layer])
<1> DEFINE p == pconvs["host"][Layer]
           q == pconvs'["host"][Layer]
<1>1. Unacked(p) \in 0..2 /\ Unacked(q) \in 0..2
  BY IInvParts, Credit, TheLayer
<1>2. Unacked(q) = Unacked(p) \/ Unacked(q) < Unacked(p)
  <2>1. CASE Quiet
    BY <2>1, TheLayer DEF Quiet, SameCount
  <2>2. ASSUME NEW e \in Ends, NEW d \in Channels, Sends(e, d)
        PROVE  Unacked(q) = Unacked(p)
    <3>1. e # "host" \/ d # Layer
      <4>1. sent \in [Ends -> [Channels -> Nat]]
        BY IInvParts DEF RestTypeOK
      <4> QED  BY <2>2, <4>1, TheLayer DEF Sends
    <3> QED  BY <2>2, <3>1, TheLayer DEF Sends, SameCount
  <2>3. ASSUME NEW e \in Ends, NEW d \in Channels, Delivers(e, d)
        PROVE  Unacked(q) = Unacked(p)
    BY <2>3, TheLayer DEF Delivers, SameCount
  <2>4. ASSUME NEW e \in Ends, NEW d \in Channels, Frees(e, d)
        PROVE  Unacked(q) = Unacked(p) \/ Unacked(q) < Unacked(p)
    BY <2>4, TheLayer DEF Frees, SameCount
  <2> QED  BY <2>1, <2>2, <2>3, <2>4 DEF ChannelStep
<1> HIDE DEF p, q
<1>3. HasRoom(p) => HasRoom(q)
  BY <1>1, <1>2 DEF HasRoom
<1> QED  BY <1>3 DEF p, q

-----------------------------------------------------------------------------
(* The invariant.                                                          *)

LayerTypeOK ==
  /\ enabled \in BOOLEAN
  /\ nchars \in 0..CBUF
  /\ user \in 0..NPCBUFS
  /\ at \in {"run", "muxublk", "Psend"}

\* A packet on its way has been sent, and mux sends no more than it has: its
\* size is known.
MuxIInv ==
  /\ PacketIInv /\ DirectionsOK
  /\ sent["host"][Layer] <= MaxMsgs["host"]
  /\ LayerTypeOK
  /\ enabled => HasRoom(pconvs["host"][Layer])

LEMMA MuxInitial == MuxInit => MuxIInv
<1> SUFFICES ASSUME MuxInit PROVE MuxIInv
  OBVIOUS
<1>1. PacketInit /\ PacketIInv /\ DirectionsOK
  BY Initial, DirectionsInit DEF MuxInit
<1>2. sent["host"][Layer] = 0 /\ pconvs["host"][Layer] = pinit
  BY <1>1, TheLayer DEF PacketInit
<1>3. HasRoom(pconvs["host"][Layer])
  <2>1. pinit.pkts[0].state = "NULL" /\ pinit.pkts[1].state = "NULL"
    BY TwoBuffers DEF pinit
  <2> QED  BY <1>2, <2>1 DEF HasRoom, Unacked, Waits
<1>4. LayerTypeOK
  BY DEF MuxInit, LayerTypeOK, CBUF, NPCBUFS
<1> QED  BY <1>1, <1>2, <1>3, <1>4, TheLayer DEF MuxIInv

-----------------------------------------------------------------------------
(* The steps.                                                              *)

\* What a step does above the line: the layer's variables keep their types,
\* and mux reads on only as unblock says, or as before.
Above ==
  /\ LayerTypeOK'
  /\ sent'["host"][Layer] <= MaxMsgs["host"]
  /\ \/ enabled' = FALSE
     \/ enabled' = (pconvs'["host"][Layer].freepkts >= 1)
     \/ enabled' = enabled /\ sent'["host"][Layer] = sent["host"][Layer]

\* The packet that arrives has been sent, and its size is known.
LEMMA Arrives ==
  ASSUME MuxIInv, Arrived("term", {"data"})
  PROVE  PacketSize[Incoming("term").data] \in 1..2
<1> DEFINE l == line["host"]
           f == Incoming("term")
           S == sent["host"][Layer]
<1>1. PacketIInv /\ DirectionsOK /\ S \in Nat /\ l \in Seq(Frame)
  BY TheLayer, DirectionTypes DEF MuxIInv
<1>2. l # <<>> /\ f.kind = "data" /\ f = l[1]
  BY TheLayer DEF Arrived, Incoming
<1>3. f.chan = Layer
  <2>1. f.chan \in Channels
    BY <1>1, <1>2, IInvParts, TheLayer, FrameTypes DEF Incoming
  <2> QED  BY <2>1, MuxConstantsOK DEF Channels, Layer
<1>4. DataOK(l, Layer, S, Len(got["term"][Layer]))
  <2>1. DataFor(l, "host", Layer) /\ Other("host") = "term"
    BY <1>1, TheLayer, DirectionNow DEF Other
  <2> QED  BY <2>1 DEF DataFor
<1>5. f.data \in 1..S
  <2>1. 1 \in 1..Len(l) /\ IsData(l[1], Layer)
    BY <1>1, <1>2, <1>3 DEF IsData
  <2> HIDE DEF l, f, S
  <2>2. l[1].data \in 1..S
    BY <1>4, <2>1 DEF DataOK
  <2> QED  BY <1>2, <2>2
<1>6. f.data \in 1..MaxMsgs["host"]
  BY <1>1, <1>5, TheLayer DEF MuxIInv
<1> QED  BY <1>6, MuxConstantsOK

LEMMA HostSteps ==
  ASSUME MuxIInv, sendchars \/ receive \/ creceive
  PROVE  WireStep /\ Above
<1>1. /\ LayerTypeOK /\ sent["host"][Layer] \in Nat
      /\ sent["host"][Layer] <= MaxMsgs["host"]
      /\ sent \in [Ends -> [Channels -> Nat]]
  BY IInvParts, TheLayer DEF MuxIInv, RestTypeOK
<1>2. CASE sendchars
  <2>1. UNCHANGED <<nchars, user, at>> /\ sent["host"][Layer] < MaxMsgs["host"]
    BY <1>2 DEF sendchars
  <2>2. CASE psend("host", Layer) /\ unblock
    <3>1. sent'["host"][Layer] = sent["host"][Layer] + 1
      BY <1>1, <2>2, TheLayer DEF psend
    <3> QED  BY <1>1, <2>1, <2>2, <3>1, TheLayer DEF WireStep, Above, LayerTypeOK, unblock
  <2>3. CASE psendFull("host", Layer) /\ enabled' = FALSE
    <3>1. sent' = sent
      BY <2>3 DEF psendFull
    <3> QED  BY <1>1, <2>1, <2>3, <3>1, TheLayer DEF WireStep, Above, LayerTypeOK
  <2> QED  BY <1>2, <2>2, <2>3 DEF sendchars
<1>3. CASE receive
  <2>1. Accept("host", 0) /\ unblock /\ UNCHANGED <<nchars, user, at>> /\ sent' = sent
    BY <1>3 DEF receive, Accept
  <2> QED  BY <1>1, <2>1, TheLayer DEF WireStep, Above, LayerTypeOK, unblock
<1>4. CASE creceive
  <2>1. /\ Acked("host") /\ (unblock \/ enabled' = enabled)
        /\ UNCHANGED <<nchars, user, at>> /\ sent' = sent
    BY <1>4 DEF creceive, Acked
  <2>2. WireStep
    BY <2>1, TheLayer DEF WireStep
  <2>3. LayerTypeOK'
    <3>1. CASE unblock
      BY <1>1, <2>1, <3>1 DEF LayerTypeOK, unblock
    <3>2. CASE enabled' = enabled
      BY <1>1, <2>1, <3>2 DEF LayerTypeOK
    <3> QED  BY <2>1, <3>1, <3>2
  <2>4. unblock \/ enabled' = enabled => Above
    BY <1>1, <2>1, <2>3 DEF Above, unblock
  <2> QED  BY <2>1, <2>2, <2>4
<1> QED  BY <1>2, <1>3, <1>4

LEMMA TermSteps ==
  ASSUME MuxIInv, recvchars \/ Program
  PROVE  WireStep /\ Above
<1>1. /\ LayerTypeOK /\ sent["host"][Layer] \in Nat
      /\ sent["host"][Layer] <= MaxMsgs["host"]
      /\ sent \in [Ends -> [Channels -> Nat]]
  BY IInvParts, TheLayer DEF MuxIInv, RestTypeOK
<1>2. CASE recvchars
  <2> DEFINE n == nchars + PacketSize[Incoming("term").data]
  <2>1. n \in Nat
    BY <1>1, <1>2, Arrives DEF recvchars, LayerTypeOK
  <2>2. UNCHANGED <<enabled, at>>
    BY <1>2 DEF recvchars
  <2> HIDE DEF n
  <2>3. \/ Refuse("term") /\ UNCHANGED <<nchars, user>>
        \/ /\ n <= CBUF /\ nchars' = n /\ user' \in {user, Owed}
           /\ Accept("term", 0) \/ Accept("term", UNBLK)
    BY <1>2 DEF recvchars, Fits, n
  <2>4. LayerTypeOK'
    <3>1. user' \in 0..NPCBUFS
      BY <1>1, <2>3 DEF LayerTypeOK, Owed, NPCBUFS
    <3>2. nchars' \in 0..CBUF
      BY <1>1, <2>1, <2>3 DEF LayerTypeOK, CBUF
    <3> QED  BY <1>1, <2>2, <3>1, <3>2 DEF LayerTypeOK
  <2>5. WireStep /\ sent' = sent
    BY <2>3, TheLayer DEF WireStep, Refuse, Accept
  <2> QED  BY <1>1, <2>2, <2>4, <2>5 DEF Above
<1>3. CASE getchar \/ muxublk
  <2>1. UNCHANGED packetVars /\ enabled' = enabled
    BY <1>3 DEF getchar, muxublk
  <2>2. sent' = sent
    BY <2>1 DEF packetVars
  <2>3. LayerTypeOK'
    BY <1>1, <1>3 DEF LayerTypeOK, getchar, muxublk, CBUF, NPCBUFS
  <2> QED  BY <1>1, <2>1, <2>2, <2>3 DEF WireStep, Above
<1>4. CASE Psend
  <2>1. /\ UNCHANGED <<enabled, nchars, user>> /\ at' \in {at, "muxublk"}
        /\ psend("term", Layer) \/ psendFull("term", Layer)
    BY <1>4 DEF Psend
  <2>2. sent'["host"][Layer] = sent["host"][Layer]
    BY <1>1, <2>1, TheLayer DEF psend, psendFull
  <2>3. LayerTypeOK'
    BY <1>1, <2>1 DEF LayerTypeOK
  <2> QED  BY <1>1, <2>1, <2>2, <2>3, TheLayer DEF WireStep, Above
<1> QED  BY <1>2, <1>3, <1>4 DEF Program

\* The steps that only one end, the line or a timer knows of.
LEMMA OtherSteps ==
  ASSUME MuxIInv, UNCHANGED muxOnly, NEW e \in Ends,
         \/ OutOfOrder(e) \/ Naked(e) \/ Acked(e) \/ ptimeout(e) \/ Lose(e)
         \/ UNCHANGED packetVars
  PROVE  WireStep /\ Above
<1>1. sent' = sent
  BY DEF OutOfOrder, Naked, Acked, ptimeout, Lose, packetVars
<1>2. LayerTypeOK' /\ enabled' = enabled
  BY DEF MuxIInv, LayerTypeOK, muxOnly
<1>3. WireStep
  BY DEF WireStep
<1> QED  BY <1>1, <1>2, <1>3 DEF Above, MuxIInv

LEMMA MuxStep == MuxIInv /\ [MuxNext]_muxVars => MuxIInv' /\ ChannelStep
<1> SUFFICES ASSUME MuxIInv, [MuxNext]_muxVars PROVE MuxIInv' /\ ChannelStep
  OBVIOUS
<1>1. WireStep /\ Above
  <2>1. CASE sendchars \/ receive \/ creceive
    BY <2>1, HostSteps
  <2>2. CASE recvchars \/ Program
    BY <2>2, TermSteps
  <2>3. CASE HostReceives /\ ~receive /\ ~creceive
    BY <2>3, OtherSteps, TheLayer DEF HostReceives
  <2>4. CASE TermReceives /\ ~recvchars
    BY <2>4, OtherSteps, TheLayer DEF TermReceives
  <2>5. CASE (\E e \in Ends : Times(e)) \/ Line
    BY <2>5, OtherSteps DEF Times, Line
  <2>6. CASE UNCHANGED muxVars
    BY <2>6, OtherSteps, TheLayer DEF muxVars
  <2> QED  BY <2>1, <2>2, <2>3, <2>4, <2>5, <2>6 DEF MuxNext
<1>2. PacketIInv' /\ DirectionsOK' /\ ChannelStep
  BY <1>1, WireKeeps DEF MuxIInv
<1>3. enabled' => HasRoom(pconvs'["host"][Layer])
  <2>1. CASE enabled' = (pconvs'["host"][Layer].freepkts >= 1)
    BY <1>2, <2>1, IInvParts, Room, TheLayer
  <2>2. CASE enabled' = enabled /\ sent'["host"][Layer] = sent["host"][Layer]
    BY <1>2, <2>2, RoomKept DEF MuxIInv
  <2> QED  BY <1>1, <2>1, <2>2 DEF Above
<1> QED  BY <1>1, <1>2, <1>3 DEF MuxIInv, Above

LEMMA MuxInvariance == MuxSpec => []MuxIInv
BY MuxInitial, MuxStep, PTL DEF MuxSpec

\* The variables of both ends and of the layer keep their types; above all,
\* the layer's buffer in the terminal never holds more than there is room for.
THEOREM MuxTypeCorrect == MuxSpec => []MuxTypeOK
<1>1. MuxIInv => MuxTypeOK
  BY DEF MuxIInv, MuxTypeOK, LayerTypeOK, PacketIInv
<1> QED  BY <1>1, MuxInvariance, PTL

\* mux never reads text of the layer that psend has no buffer for.
THEOREM TextNeverLost == MuxSpec => []TextIsSent
<1>1. MuxIInv => TextIsSent
  BY IInvParts, Room, TheLayer DEF MuxIInv, TextIsSent
<1> QED  BY <1>1, MuxInvariance, PTL

\* What the layer's processes write reaches the terminal once and in order,
\* and so do the terminal's packets: the line under mux is PacketChannel.
THEOREM MuxImplementsChannel == MuxSpec => Channel!ChannelSafety
<1>1. MuxIInv /\ MuxIInv' /\ [MuxNext]_muxVars
      => [Channel!ChannelNext]_(Channel!channelVars)
  BY MuxStep, ChannelSteps DEF MuxIInv
<1>2. MuxInit => Channel!ChannelInit
  BY ChannelFirst DEF MuxInit
<1> QED  BY <1>1, <1>2, MuxInvariance, PTL DEF MuxSpec, Channel!ChannelSafety
=============================================================================
