--------------------------- MODULE MessageWriter ---------------------------
(***************************************************************************)
(* message_socket_writer (c_message-tcp.cpp) with what it works between:   *)
(* the connection's send queue, filled by send_msg, the kernel's send      *)
(* buffer, drained by the peer, and the write loop of process().           *)
(*                                                                         *)
(* The program is single threaded: send_msg runs between two calls of      *)
(* process(); the peer and the network act at any time, hence between any  *)
(* two calls of write() in one loop.                                       *)
(***************************************************************************)
EXTENDS MessageList, SocketResults, SequencesExt

CONSTANTS
  PayloadLen,   (* units of a payload, header included                     *)
  BufferLen,    (* units the kernel's send buffer takes                    *)
  MaxIntr,      (* bound: sends interrupted by a signal                    *)
  MaxInits      (* bound: connections this object serves in turn           *)

ASSUME WriterAssumption ==
  /\ PayloadLen \in Nat \ {0} /\ BufferLen \in Nat \ {0}
  /\ MaxIntr \in Nat /\ MaxInits \in Nat \ {0}

VARIABLES
  q,         (* m_message_queue                                            *)
  writer,    (* m_current_msg, the message m_data points into, the counts  *)
  room,      (* free units of the send buffer                              *)
  broken,    (* the peer or the network has ended the connection           *)
  pc,        (* "idle", or in the write "loop" of process()                *)
  status,    (* what the last write() on this connection returned          *)
  out,       (* what the last write() left in its argument                 *)
  closing,   (* STATUS_CLOSE_IMMEDIATELY                                   *)
  freed,     (* messages given to free_msg                                 *)
  wire,      (* history: the units <<message, index>> sent                 *)
  pushed,    (* history: messages queued on this connection                *)
  reported,  (* history: the messages write() said it has written          *)
  intrs,     (* interrupted sends so far                                   *)
  inits      (* connections served so far                                  *)

conn == <<q, writer, closing>>
history == <<wire, pushed, reported>>
vars == <<conn, history, room, broken, pc, status, out, freed, intrs, inits>>

(* Memory the allocator zeroed: init() leaves m_current_msg as it finds it. *)
FreshWriter == [cur |-> Null, data |-> Null, written |-> 0, toWrite |-> 0]

Init ==
  /\ q = EmptyQueue /\ writer = FreshWriter /\ closing = FALSE
  /\ room = BufferLen /\ broken = FALSE
  /\ pc = "idle" /\ status = 0 /\ out = Null /\ freed = {}
  /\ wire = <<>> /\ pushed = <<>> /\ reported = {}
  /\ intrs = 0 /\ inits = 1

(* The connection object serves another connection: s_init initialises the *)
(* queue and calls init(), which resets the written count alone.           *)
ServeNext ==
  /\ pc = "idle" /\ inits < MaxInits
  /\ q' = EmptyQueue
  /\ writer' = [writer EXCEPT !.written = 0]
  /\ closing' = FALSE
  /\ room' = BufferLen /\ broken' = FALSE
  /\ wire' = <<>> /\ pushed' = <<>> /\ reported' = {}
  /\ inits' = inits + 1 /\ status' = 0
  /\ UNCHANGED <<pc, out, freed, intrs>>

(* send_msg on a connected connection.  Each message is sent at most once. *)
SendMsg(m) ==
  /\ pc = "idle"
  /\ m \notin ToSet(pushed) \cup freed
  /\ q' = Push(q, m)
  /\ pushed' = Append(pushed, m)
  /\ UNCHANGED <<writer, closing, wire, reported, room, broken, pc, status,
                 out, freed, intrs, inits>>

(* process(): select() reports the socket writable.  It was put in the     *)
(* write set because its queue was not empty.  Or it has done so before,   *)
(* and the loop over the connections comes back to this one, whose bit is  *)
(* still set, after write() has returned 0.                                *)
EnterLoop ==
  /\ pc = "idle" /\ ~closing
  /\ (q.size > 0 /\ (room > 0 \/ broken)) \/ reported # {}
  /\ pc' = "loop"
  /\ UNCHANGED <<conn, history, room, broken, status, out, freed, intrs, inits>>

-----------------------------------------------------------------------------
(* The writer once write() has looked for a message to begin with.         *)
Loaded ==
  IF writer.cur # Null \/ Peek(q) = Null THEN writer
  ELSE [cur |-> Peek(q), data |-> Peek(q), written |-> 0, toWrite |-> PayloadLen]

(* Faulty variant: the length given to send() is that of the payload.      *)
RemainingAll(w) == w.toWrite

(* The length write() gives to send().                                     *)
Remaining(w) == w.toWrite - w.written

(* The ways the loop over send() can end: the units accepted, and the last *)
(* send's result.  A length of zero is sent at once and returns zero.      *)
SendLoops(w) ==
  LET r    == Remaining(w)
      some == {k \in 0 .. room : k < r}
      Ends(units, n) == {[sent |-> k, last |-> n] : k \in units}
  IN  IF w.cur = Null THEN Ends({0}, "none")
      ELSE IF r = 0 THEN Ends({0}, "zero")
      ELSE (IF ~broken /\ r <= room THEN Ends({r}, "all") ELSE {})
           \cup (IF ~broken /\ room < r THEN Ends({room}, "again") ELSE {})
           \cup (IF broken THEN Ends(some, "error") ELSE {})
           \cup (IF intrs < MaxIntr THEN Ends(some, "intr") ELSE {})

(* Faulty variant: a full buffer ends the message.                         *)
FinishedWhenFull(s) == s.last \in {"all", "again"}

Finished(s) == s.last = "all"

(* Faulty variant: the count of units written stays in a local variable.   *)
AdvancedNot(w, s) == w

(* m_bytes_written after the loop over send().                             *)
Advanced(w, s) == [w EXCEPT !.written = @ + s.sent]

(* Faulty variant: the writer looks at the queue for the next message.     *)
PoppedAndReset(w) == [w EXCEPT !.cur = Null]

(* m_current_msg becomes what pop() returns, the message just written.     *)
Popped(w) == [w EXCEPT !.cur = Peek(q)]

WriteStatus(s) ==
  IF s.last = "none" THEN 0
  ELSE IF IsError(s.last) THEN -1
  ELSE IF Finished(s) /\ Pop(q).size = 0 THEN 0
  ELSE 1

(* One turn of the write loop: write(), free_msg when it returned 1 and a  *)
(* message, the end of the loop when it did not return 1.                  *)
Write ==
  /\ pc = "loop"
  /\ LET w == Loaded IN \E s \in SendLoops(w) :
       /\ wire' = wire \o [i \in 1 .. s.sent |-> <<w.data, w.written + i>>]
       /\ room' = room - s.sent
       /\ intrs' = intrs + (IF s.last = "intr" THEN 1 ELSE 0)
       /\ status' = WriteStatus(s)
       /\ IF Finished(s)
          THEN /\ writer' = Popped(Advanced(w, s))
               /\ q' = Pop(q)
               /\ out' = Peek(q)
               /\ reported' = reported \cup {Peek(q)}
          ELSE /\ writer' = Advanced(w, s)
               /\ out' = Null
               /\ UNCHANGED <<q, reported>>
  /\ freed' = IF status' > 0 /\ out' # Null THEN freed \cup {out'} ELSE freed
  /\ pc' = IF status' > 0 THEN "loop" ELSE "idle"
  /\ closing' = (closing \/ status' < 0)
  /\ UNCHANGED <<pushed, broken, inits>>

PeerReads ==
  /\ room' \in room + 1 .. BufferLen
  /\ UNCHANGED <<conn, history, broken, pc, status, out, freed, intrs, inits>>

PeerResets ==
  /\ ~broken
  /\ broken' = TRUE
  /\ UNCHANGED <<conn, history, room, pc, status, out, freed, intrs, inits>>

Next ==
  \/ \E m \in Messages : SendMsg(m)
  \/ EnterLoop \/ Write \/ ServeNext
  \/ PeerReads \/ PeerResets

Spec == Init /\ [][Next]_vars

(* A loop that has been entered is run.                                    *)
LoopFairness == WF_vars(Write)
(* The peer reads what arrives, in the end.                                *)
PeerFairness == WF_vars(PeerReads)

FairSpec == Spec /\ LoopFairness /\ PeerFairness

-----------------------------------------------------------------------------
Units(m) == [i \in 1 .. PayloadLen |-> <<m, i>>]

(* The counts of the writer stay within the payload and those of the       *)
(* socket within its buffer, through partial and interrupted sends.        *)
TypeOK ==
  /\ q \in QueueType
  /\ writer.cur \in Nodes \cup {Null} /\ writer.data \in Messages \cup {Null}
  /\ writer.written \in 0 .. writer.toWrite /\ writer.toWrite \in {0, PayloadLen}
  /\ room \in 0 .. BufferLen
  /\ status \in {-1, 0, 1} /\ out \in Nodes \cup {Null}
  /\ freed \subseteq Messages

(* What the peer receives begins with the payload of one message, in       *)
(* order, nothing left out and nothing sent twice, however the sends were  *)
(* split and interrupted.                                                  *)
WireIsOnePayload ==
  wire # <<>> => \E m \in Messages : wire = SubSeq(Units(m), 1, Len(wire))

OnTheWire(m) ==
  \E n \in 0 .. Len(wire) - PayloadLen : SubSeq(wire, n + 1, n + PayloadLen) = Units(m)

(* A message write() reports as written, and that the loop then frees, is  *)
(* the first one queued on this connection and wholly on the wire: the     *)
(* front of the queue at the pop is the message peek() chose many calls    *)
(* ago.  This is for the first connection the object serves.               *)
ReportedIsWritten ==
  inits = 1 => \A m \in reported : m = pushed[1] /\ OnTheWire(m)

(* The same for every connection the object serves: what                   *)
(* c_message-tcp.h:36-38 says of the pointer write() hands back.           *)
WrittenOnEveryConnection == \A m \in reported : OnTheWire(m)

(* The loop frees a message while m_current_msg and m_data still point at  *)
(* it: on the first connection, no unit of a freed message is sent.        *)
NoSendAfterFree ==
  [][inits = 1 => \A i \in DOMAIN wire' \ DOMAIN wire : wire'[i][1] \notin freed]_vars

(* As long as no message has been reported written, through partial,       *)
(* interrupted and blocked sends, -1 means what c_message-tcp.h:41 says,   *)
(* that the connection is lost.  (The write() after the first message      *)
(* sends a length of zero and returns -1 whatever the connection is like.) *)
HealthyUntilReported == status = -1 => broken \/ reported # {}

(* process() gets out of the write loop.  Without PeerFairness it need not:*)
(* a full buffer makes write() return 1 instead of 0 ("socket cannot be    *)
(* written to anymore", c_message-tcp.h:42), and the loop then repeats a   *)
(* call that changes nothing, a stuttering step of this specification.     *)
WriteLoopEnds == pc = "loop" ~> pc = "idle"
=============================================================================
