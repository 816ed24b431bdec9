-------------------------------- MODULE Link --------------------------------
(***************************************************************************)
(* One direction of a connection, end to end: the write loop of one        *)
(* process, the network, and the read loop of another.  The sender is      *)
(* MessageWriter, the receiver MessageReader; the network moves units from *)
(* the send buffer of the one to the stream of the other, and either end   *)
(* may find the connection ended on its own.                               *)
(*                                                                         *)
(* The payload of a message (get_msg_payload) is a header of two words,    *)
(* m_msg_size and m_msg_flags, and a body of m_msg_size units; read() is   *)
(* told of a size word alone.                                              *)
(***************************************************************************)
EXTENDS Integers, Sequences

CONSTANTS
  Messages,   (* the messages the sender queues                            *)
  MHead, Null,
  Buffers,    (* the messages the receiver has memory for                  *)
  Blank,
  SizeLen,    (* units of a word                                           *)
  BodyLen,    (* m_size of the messages                                    *)
  SendLen,    (* units the send buffer takes                               *)
  MaxIntr     (* bound: interrupted calls at each end                      *)

ASSUME LinkAssumption ==
  /\ MHead \notin Messages /\ Null \notin Messages \cup Buffers \cup {MHead}
  /\ Buffers # {} /\ SizeLen \in Nat \ {0} /\ BodyLen \in Nat /\ SendLen \in Nat \ {0}
  /\ MaxIntr \in Nat
  /\ Blank \notin Nat \X Nat

HeaderLen == 2 * SizeLen
PayloadLen == HeaderLen + BodyLen

VARIABLES
  q, writer, room, broken, spc, sstatus, out, closing, freed, wire, pushed,
  reported, sintrs, inits,                       (* the sender's end       *)
  arrived, consumed, eof, reader, mem, slot, received, rpc, rstatus, rintrs

sender == <<q, writer, room, broken, spc, sstatus, out, closing, freed, wire,
            pushed, reported, sintrs, inits>>
receiver == <<arrived, consumed, eof, reader, mem, slot, received, rpc, rstatus, rintrs>>
vars == <<sender, receiver>>

(* The frames of the stream are the payloads the sender has begun to send. *)
FramesBegun == (Len(wire) + PayloadLen - 1) \div PayloadLen
Frames == [f \in 1 .. FramesBegun |-> BodyLen]
Stream == [i \in 1 .. FramesBegun * PayloadLen |->
             <<1 + ((i - 1) \div PayloadLen), 1 + ((i - 1) % PayloadLen)>>]

W == INSTANCE MessageWriter WITH
       BufferLen <- SendLen, MaxInits <- 1, pc <- spc, status <- sstatus, intrs <- sintrs

R == INSTANCE MessageReader WITH
       Messages <- Buffers, BodySizes <- {BodyLen}, MaxBody <- BodyLen, ExtraLen <- SizeLen,
       MaxFrames <- 1, frames <- Frames, stream <- Stream, pc <- rpc, status <- rstatus, intrs <- rintrs

Init == W!Init /\ R!Init

SendMsg(m) == W!SendMsg(m) /\ UNCHANGED receiver
SenderEnters == W!EnterLoop /\ UNCHANGED receiver
Write == W!Write /\ UNCHANGED receiver
SenderLoses == W!PeerResets /\ UNCHANGED receiver

(* The network carries units of the send buffer over.                      *)
Transfer ==
  /\ ~eof
  /\ W!PeerReads
  /\ arrived' = arrived + (room' - room)
  /\ UNCHANGED <<consumed, eof, reader, mem, slot, received, rpc, rstatus, rintrs>>

ReceiverEnters == UNCHANGED sender /\ R!EnterLoop
Read == UNCHANGED sender /\ R!Read
ReceiverLoses == UNCHANGED sender /\ R!PeerEnds

Next ==
  \/ \E m \in Messages : SendMsg(m)
  \/ SenderEnters \/ Write \/ SenderLoses
  \/ Transfer
  \/ ReceiverEnters \/ Read \/ ReceiverLoses

Spec == Init /\ [][Next]_vars

(* A loop that has been entered is run, and the network carries what it    *)
(* holds.  Not assumed are that it loses the connection, ever, and that    *)
(* either end gets to its loop, or to it again: with an open connection    *)
(* process() does not return, and it may wait in select() or turn round in *)
(* the loop over the connections with no bit set.                          *)
FairSpec == Spec /\ WF_vars(Write) /\ WF_vars(Transfer) /\ WF_vars(Read)

-----------------------------------------------------------------------------
(* The types of both ends, which their own runs check, and a network that  *)
(* makes nothing up.                                                       *)
TypeOK == W!TypeOK /\ R!TypeOK /\ arrived \in 0 .. Len(wire)

(* What the receiver's peer is taken to send is what the writer does send: *)
(* unit by unit the wire is the stream of frames, and frame f is the f-th  *)
(* message queued, however sends were split and interrupted.               *)
WireIsStream ==
  \A i \in DOMAIN wire :
    LET unit == Stream[i] IN wire[i] = <<pushed[unit[1]], unit[2]>>

(* The two ends do not agree on where a frame ends, the size counting      *)
(* neither word of the header: the receiver never takes the last word of   *)
(* the body, and never mistakes it for the size of another frame.          *)
TailNeverRead == consumed <= PayloadLen - SizeLen

(* Seen from the receiver, the sender and the network are a peer that      *)
(* sends one frame: what MessageReader shows of read() holds here.         *)
SenderIsPeer == R!Spec

(* Once the receiver has found something to read the first message is      *)
(* delivered, unless one end loses the connection: neither loop is left    *)
(* half way, when the buffer is full or empty, so that one run of each is  *)
(* enough.                                                                 *)
BegunIsDelivered == rpc = "loop" ~> (received # <<>> \/ broken \/ eof)

(* Seen from the two users all this is a Channel: a unit in the hands of   *)
(* the receiver's user is one that is on the wire, or nobody sent.         *)
Sent(u) == IF u = Blank THEN Blank ELSE wire[(u[1] - 1) * PayloadLen + u[2]]
Inbox == [k \in DOMAIN received |-> [i \in 1 .. BodyLen |-> Sent(mem[received[k]][i])]]

C == INSTANCE Channel WITH queued <- pushed, inbox <- Inbox, Skip <- SizeLen

(* Nothing reaches the receiver's user but, once, the units behind the     *)
(* first word of the first message queued, all of them sent by then, and   *)
(* empty deliveries behind it; and what was delivered is not touched again,*)
(* however sends and receives are cut and interrupted and whichever end    *)
(* loses the connection.                                                   *)
ImplementsChannel == C!Spec

(* "a pointer to the message that is now complete"                         *)
(* (c_message-tcp.h:88-89): the body of the message delivered, which its   *)
(* user finds behind the header, is the body of the message sent.          *)
BodyArrives ==
  received # <<>> =>
    \A j \in 1 .. BodyLen : mem[received[1]][HeaderLen + j] = <<1, HeaderLen + j>>
=============================================================================
