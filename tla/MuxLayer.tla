------------------------------ MODULE MuxLayer ------------------------------
(***************************************************************************)
(* The output of one layer: the mux program (jerq/src/mux/mux.c) reads     *)
(* what the layer's processes write and sends it over the packet protocol; *)
(* the terminal (mux/term/demux.c, boot.c, control.c) puts it into the     *)
(* layer's buffer, from which the layer's program reads.  A layer whose    *)
(* packets fill its window is not read (enabled is false) until the        *)
(* terminal says C_UNBLK, as control data of an acknowledgement when the   *)
(* buffer has room, or else in a packet of its own when the program has    *)
(* read everything.                                                        *)
(*                                                                         *)
(* Characters are counted in units of CBSIZE.  Left out: keyboard input,   *)
(* making and deleting layers, ioctls (psend_hold), scrolling (BLOCKED),   *)
(* frames cut short (the line loses them whole).                           *)
(***************************************************************************)
EXTENDS PacketProto

CONSTANT PacketSize     \* the size of each packet of the layer, in units

Layer == 0              \* the layer's channel
UNBLK == 1              \* C_UNBLK as control data
CBSIZE == 1
CBUF == 3               \* sizeof(p->cbuf)

ASSUME MuxConstantsOK ==
  /\ NChannels = 1 /\ CData = {0, UNBLK}
  /\ PacketSize \in [1..MaxMsgs["host"] -> 1..2]

VARIABLES
  enabled,    \* mux reads the layer's file descriptor
  nchars,     \* units in the layer's buffer
  user,       \* pconvs[l].user: packets whose C_UNBLK is still to come
  at          \* of the layer's program: "run", "muxublk", "Psend"

muxOnly == <<enabled, nchars, user, at>>
muxVars == <<packetVars, muxOnly>>

MuxTypeOK ==
  /\ PacketTypeOK
  /\ enabled \in BOOLEAN
  /\ nchars \in 0..CBUF
  /\ user \in 0..NPCBUFS
  /\ at \in {"run", "muxublk", "Psend"}

MuxInit ==
  /\ PacketInit
  /\ enabled = TRUE /\ nchars = 0 /\ user = 0 /\ at = "run"

\* Mutant: unblock does not look for a free buffer.
unblock_Always == enabled' = TRUE

\* unblock, when it finds the conversation as the step leaves it.
unblock == enabled' = (pconvs'["host"][Layer].freepkts >= 1)

-----------------------------------------------------------------------------
(* The host                                                                *)

\* scan finds the layer's output; unpack and sendchars pass it on.
sendchars ==
  /\ enabled /\ sent["host"][Layer] < MaxMsgs["host"]
  /\ IF Free(pconvs["host"][Layer]) # {} THEN psend("host", Layer) /\ unblock
     ELSE psendFull("host", Layer) /\ enabled' = FALSE    \* the text is lost
  /\ UNCHANGED <<nchars, user, at>>

\* receive: a packet with C_UNBLK.
receive == Accept("host", 0) /\ unblock /\ UNCHANGED <<nchars, user, at>>

\* creceive: C_UNBLK on an acknowledgement that acknowledges something.
creceive ==
  /\ Acked("host")
  /\ IF Incoming("host").data = UNBLK /\ pconvs' # pconvs
     THEN unblock ELSE UNCHANGED enabled
  /\ UNCHANGED <<nchars, user, at>>

-----------------------------------------------------------------------------
(* The terminal                                                            *)

\* Mutant: the room taken by what is already there is forgotten.
Fits_Empty(n) == nchars <= CBUF
Fits(n) == n <= CBUF

\* One more packet whose C_UNBLK is to come.
Owed == IF user < NPCBUFS THEN user + 1 ELSE NPCBUFS

recvchars ==
  /\ Arrived("term", {"data"})
  /\ LET n == nchars + PacketSize[Incoming("term").data]
     IN  \/ ~Fits(n) /\ Refuse("term") /\ UNCHANGED <<nchars, user>>
         \/ /\ Fits(n) /\ n > CBSIZE /\ Accept("term", 0)
            /\ nchars' = n /\ user' = Owed
         \/ /\ Fits(n) /\ n <= CBSIZE /\ Accept("term", UNBLK)
            /\ nchars' = n /\ UNCHANGED user
  /\ UNCHANGED <<enabled, at>>

\* Mutant: getchar leaves muxublk to others.
getchar_Silent ==
  /\ at = "run" /\ nchars > 0
  /\ nchars' = nchars - 1
  /\ UNCHANGED <<packetVars, enabled, user, at>>

\* getchar: the last character read, the host may send again.
getchar ==
  /\ at = "run" /\ nchars > 0
  /\ nchars' = nchars - 1
  /\ at' = IF nchars' = 0 THEN "muxublk" ELSE at
  /\ UNCHANGED <<packetVars, enabled, user>>

muxublk ==
  /\ at = "muxublk"
  /\ IF user > 0 THEN user' = user - 1 /\ at' = "Psend"
                 ELSE at' = "run" /\ UNCHANGED user
  /\ UNCHANGED <<packetVars, enabled, nchars>>

\* Psend gives the processor away until psend has a buffer.
Psend ==
  /\ at = "Psend"
  /\ \/ psend("term", Layer) /\ at' = "muxublk"
     \/ psendFull("term", Layer) /\ UNCHANGED at
  /\ UNCHANGED <<enabled, nchars, user>>

-----------------------------------------------------------------------------
Line == (\E e \in Ends : Lose(e)) /\ UNCHANGED muxOnly

HostReceives ==
  \/ receive \/ creceive
  \/ OutOfOrder("host") /\ UNCHANGED muxOnly
  \/ Naked("host") /\ UNCHANGED muxOnly
TermReceives ==
  \/ recvchars
  \/ OutOfOrder("term") /\ UNCHANGED muxOnly
  \/ Acked("term") /\ UNCHANGED muxOnly
  \/ Naked("term") /\ UNCHANGED muxOnly
Times(e) == ptimeout(e) /\ UNCHANGED muxOnly
Program == getchar \/ muxublk \/ Psend

MuxNext ==
  \/ sendchars \/ HostReceives \/ TermReceives \/ Program
  \/ \E e \in Ends : Times(e)
  \/ Line

MuxSpec == MuxInit /\ [][MuxNext]_muxVars
(* Both ends read what the line brings; the layer's program reads on.      *)
MuxFairness ==
  WF_muxVars(HostReceives) /\ WF_muxVars(TermReceives) /\ WF_muxVars(Program)
FairMuxSpec == MuxSpec /\ MuxFairness

-----------------------------------------------------------------------------
(* Properties                                                              *)

\* mux reads a layer only when psend has a buffer for what it reads: the
\* text that sendchars could not send would be lost.
TextIsSent == enabled => Free(pconvs["host"][Layer]) # {}

\* When everything sent has been delivered and acknowledged and the layer's
\* program has read all of it, mux reads the layer.
Idle ==
  /\ line = [e \in Ends |-> <<>>] /\ at = "run" /\ nchars = 0
  /\ \A e \in Ends : Free(pconvs[e][Layer]) = Bufs
IdleLayerIsRead == Idle => enabled

\* On such a line a layer that mux has stopped reading is read again.
ResumesOnCleanLine == ~trouble => (~enabled ~> enabled)
=============================================================================
