--------------------------- MODULE MessageReader ---------------------------
(***************************************************************************)
(* message_socket_reader (c_message-tcp.cpp) with what it works between:   *)
(* the stream of bytes that arrives from the peer, the message buffers of  *)
(* the caller, and the read loop of process().                             *)
(*                                                                         *)
(* The peer sends frames; a unit of the stream is <<frame, index>>.  A      *)
(* frame is a size word, the units that word counts, and ExtraLen units it *)
(* does not count: the frames of this library's own writer have two header *)
(* words, of which the size counts neither (module Link puts the two ends  *)
(* together).  The network cuts the stream anywhere.                       *)
(***************************************************************************)
EXTENDS SocketResults, Integers, SequencesExt

CONSTANTS
  Messages,    (* the messages alloc_msg has memory for                    *)
  Null,
  Blank,       (* what a buffer holds where nothing was read into it       *)
  SizeLen,     (* units of the size word                                   *)
  BodySizes,   (* the sizes the peer's frames name                         *)
  MaxBody,     (* the size of body a message has memory for                *)
  ExtraLen,    (* units of a frame behind those its size counts            *)
  MaxFrames,   (* bound: frames the peer sends                             *)
  MaxIntr      (* bound: receives interrupted by a signal                  *)

ASSUME ReaderAssumption ==
  /\ Null \notin Messages /\ Messages # {}
  /\ SizeLen \in Nat \ {0} /\ MaxBody \in Nat /\ BodySizes \subseteq 0 .. MaxBody
  /\ ExtraLen \in Nat /\ MaxFrames \in Nat /\ MaxIntr \in Nat

VARIABLES
  frames,     (* body sizes of the frames the peer has put on the stream   *)
  stream,     (* the units of these frames                                 *)
  arrived,    (* units that have arrived here                              *)
  consumed,   (* units recv() has handed out                               *)
  eof,        (* the peer or the network has ended the connection          *)
  reader,     (* m_msg (m_data points into it), the counts and m_state     *)
  mem,        (* the payload buffer of every message                       *)
  slot,       (* m_message_read, the message offered to read()             *)
  received,   (* the messages read() delivered, in order                   *)
  pc,         (* "idle", or in the read "loop" of process()                *)
  status,     (* what the last read() returned                             *)
  intrs       (* interrupted receives so far                               *)

peer == <<frames, stream, arrived, eof>>
vars == <<peer, consumed, reader, mem, slot, received, pc, status, intrs>>

FrameUnits(f, n) == [i \in 1 .. SizeLen + n + ExtraLen |-> <<f, i>>]

(* A payload buffer: the header's two words and the largest body.          *)
BufferLen == 2 * SizeLen + MaxBody

Init ==
  /\ frames = <<>> /\ stream = <<>> /\ arrived = 0 /\ consumed = 0 /\ eof = FALSE
  /\ reader = [msg |-> Null, bytesRead |-> 0, toRead |-> 0, state |-> "size"]
  /\ mem = [m \in Messages |-> [i \in 1 .. BufferLen |-> Blank]]
  /\ slot = Null /\ received = <<>>
  /\ pc = "idle" /\ status = 0 /\ intrs = 0

PeerSends ==
  /\ Len(frames) < MaxFrames
  /\ \E n \in BodySizes :
       /\ frames' = Append(frames, n)
       /\ stream' = stream \o FrameUnits(Len(frames) + 1, n)
  /\ UNCHANGED <<arrived, eof, consumed, reader, mem, slot, received, pc, status, intrs>>

Arrive ==
  /\ ~eof
  /\ arrived' \in arrived + 1 .. Len(stream)
  /\ UNCHANGED <<frames, stream, eof, consumed, reader, mem, slot, received, pc, status, intrs>>

PeerEnds ==
  /\ ~eof
  /\ eof' = TRUE
  /\ UNCHANGED <<frames, stream, arrived, consumed, reader, mem, slot, received, pc, status, intrs>>

(* process(): select() reports the socket readable, or has done so before: *)
(* the loop over the connections comes back to this one, its bit still set *)
(* in the set of descriptors.                                              *)
EnterLoop ==
  /\ pc = "idle"
  /\ arrived > 0 \/ eof
  /\ pc' = "loop"
  /\ UNCHANGED <<peer, consumed, reader, mem, slot, received, status, intrs>>

-----------------------------------------------------------------------------
(* m_message_read, or what alloc_msg gives when there is none: a message   *)
(* never used before, NULL when memory is out.                             *)
Offered ==
  IF slot # Null THEN {slot}
  ELSE LET unused == Messages \ (ToSet(received) \cup {reader.msg})
       IN  IF unused = {} THEN {Null} ELSE unused

(* Faulty variant: behind a message that is complete the next one begins.  *)
BegunAgain(m) ==
  IF reader.msg # Null /\ reader.bytesRead # reader.toRead THEN reader
  ELSE [msg |-> m, bytesRead |-> 0, toRead |-> SizeLen, state |-> "size"]

(* The reader once read() has begun its first message.  It begins no       *)
(* other: nothing but init() resets m_msg.                                 *)
Begun(m) ==
  IF reader.msg # Null THEN reader
  ELSE [msg |-> m, bytesRead |-> 0, toRead |-> SizeLen, state |-> "size"]

(* Faulty variant: the length given to recv() is not reduced.              *)
RemainingAll(r) == r.toRead

(* The length read() gives to recv().                                      *)
Remaining(r) == r.toRead - r.bytesRead

(* The ways the loop over recv() can end.  A length of zero returns zero,  *)
(* or EAGAIN when nothing is there to read.                                *)
RecvLoops(r) ==
  LET need  == Remaining(r)
      ready == arrived - consumed
      Ends(units, ns) == {[got |-> k, last |-> n] : k \in units, n \in ns}
  IN  IF need = 0
      THEN Ends({0}, IF ready = 0 /\ ~eof THEN {"zero", "again"} ELSE {"zero"})
      ELSE (IF need <= ready THEN Ends({need}, {"all"})
            ELSE Ends({ready}, IF eof THEN {"zero", "error"} ELSE {"again"}))
           \cup (IF intrs < MaxIntr
                 THEN Ends({k \in 0 .. ready : k < need}, {"intr"}) ELSE {})

(* Faulty variant: every call of read() stores from where m_data points.   *)
StoredInFront(buffer, r, s) ==
  [i \in DOMAIN buffer |-> IF i \in 1 .. s.got THEN stream[consumed + i] ELSE buffer[i]]

(* The buffer with the units received stored behind those read before.     *)
Stored(buffer, r, s) ==
  [i \in DOMAIN buffer |->
     IF i \in r.bytesRead + 1 .. r.bytesRead + s.got
     THEN stream[consumed + i - r.bytesRead] ELSE buffer[i]]

(* The value of the first word of a buffer.                                *)
SizeWord(buffer) ==
  LET IsWordOf(f) == \A i \in 1 .. SizeLen : buffer[i] = <<f, i>>
  IN  IF \E f \in DOMAIN frames : IsWordOf(f)
      THEN frames[CHOOSE f \in DOMAIN frames : IsWordOf(f)] ELSE 0

(* Faulty variant: the count of units read stays in a local variable.      *)
AdvancedNot(r, s) == r

(* m_bytes_read after the loop over recv(); an error leaves it.            *)
Advanced(r, s) ==
  IF IsError(s.last) THEN r ELSE [r EXCEPT !.bytesRead = @ + s.got]

(* Faulty variant: the body is read behind the size word.                  *)
SizedBehind(r, buffer) ==
  IF r.state = "size" /\ r.bytesRead = r.toRead
  THEN [r EXCEPT !.state = "body", !.toRead = SizeWord(buffer)] ELSE r

(* The size word is complete: the body replaces it in the buffer.          *)
Sized(r, buffer) ==
  IF r.state = "size" /\ r.bytesRead = r.toRead
  THEN [r EXCEPT !.state = "body", !.toRead = SizeWord(buffer), !.bytesRead = 0]
  ELSE r

(* Faulty variant: the caller's pointer survives the delivery.             *)
KeptAfter(m, delivered) == m

(* What is left in the caller's m_message_read.                            *)
LeftAfter(m, delivered) == IF delivered THEN Null ELSE m

(* Faulty variant: any result but zero is taken for progress.              *)
GoesOnUnlessZero(st) == st # 0

(* The condition of the read loop.                                         *)
GoesOn(st) == st > 0

(* One turn of the read loop: alloc_msg if need be, read(), the push to    *)
(* the received messages, the end of the loop when read() returned -1.     *)
Read ==
  /\ pc = "loop"
  /\ \E m \in Offered :
     LET r == Begun(m) IN \E s \in RecvLoops(r) :
       LET buffer    == Stored(mem[r.msg], r, s)
           next      == IF IsError(s.last) THEN r ELSE Sized(Advanced(r, s), buffer)
           delivered == ~IsError(s.last) /\ next.bytesRead = next.toRead
       IN  /\ mem' = [mem EXCEPT ![r.msg] = buffer]
           /\ consumed' = consumed + s.got
           /\ intrs' = intrs + (IF s.last = "intr" THEN 1 ELSE 0)
           /\ reader' = next
           /\ slot' = LeftAfter(m, delivered)
           /\ received' = IF delivered /\ m # Null THEN Append(received, m) ELSE received
           /\ status' = IF IsError(s.last) THEN -1 ELSE IF s.last = "zero" THEN 0 ELSE 1
  /\ pc' = IF GoesOn(status') THEN "loop" ELSE "idle"
  /\ UNCHANGED peer

Next == PeerSends \/ Arrive \/ PeerEnds \/ EnterLoop \/ Read

Spec == Init /\ [][Next]_vars

(* A loop that has been entered is run.                                    *)
LoopFairness == WF_vars(Read)

(* Nothing is assumed of the peer, which may be silent for ever.           *)
FairSpec == Spec /\ LoopFairness

-----------------------------------------------------------------------------
(* The counts stay within the buffer through partial and interrupted       *)
(* receives.                                                               *)
TypeOK ==
  /\ frames \in Seq(BodySizes) /\ arrived \in 0 .. Len(stream) /\ consumed \in 0 .. arrived
  /\ reader.msg \in Messages \cup {Null} /\ reader.state \in {"size", "body"}
  /\ reader.toRead \in 0 .. BufferLen /\ reader.bytesRead \in 0 .. reader.toRead
  /\ slot \in Messages \cup {Null} /\ received \in Seq(Messages)
  /\ status \in {-1, 0, 1}

(* The buffer holds the units behind the size word, as many as it counts.  *)
HoldsBody(m, f) == \A i \in 1 .. frames[f] : mem[m][i] = <<f, SizeLen + i>>

(* The first message delivered holds what follows the first frame's size   *)
(* word, as much as that counts and in order, however the stream was cut,  *)
(* and the reader, which keeps pointing into it, never writes to it again. *)
FirstDeliveredWhole == received # <<>> => frames # <<>> /\ HoldsBody(received[1], 1)

(* While the connection lasts no unit is lost or read twice: what recv()   *)
(* has handed out is what the reader counts, in the size word or behind    *)
(* it.  (read() does drop the units that arrive together with the end.)    *)
NoUnitLost ==
  ~eof =>
    consumed = reader.bytesRead + (IF reader.state = "body" THEN SizeLen ELSE 0)

(* A message once delivered is the user's: it is not delivered again and   *)
(* not offered to read() again.                                            *)
DeliveredOnce == IsInjective(received) /\ slot \notin ToSet(received)

(* As long as no message has been delivered, however the receives are cut, *)
(* interrupted and found empty, -1 means that the connection has ended     *)
(* (c_message-tcp.h:92).  (After a delivery read() receives a length of    *)
(* zero: it delivers again, or returns -1 on a healthy connection.)        *)
HealthyUntilDelivered == status = -1 => eof \/ received # <<>>

(* The one thing that keeps process() in the read loop is a silent peer:   *)
(* with units left to take, or the connection ended, the loop gets on, and *)
(* through a complete message, an error and the end of the stream it gets  *)
(* out.  ("0 -> socket has no more data", c_message-tcp.h:93, would end it *)
(* there too, but with no more data read() returns 1 and the loop repeats  *)
(* a call that changes nothing.)                                           *)
ReadLoopEndsOrWaits == pc = "loop" ~> pc = "idle" \/ (consumed = arrived /\ ~eof)
=============================================================================
