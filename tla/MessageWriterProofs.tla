------------------------ MODULE MessageWriterProofs ------------------------
(***************************************************************************)
(* What MessageWriter guarantees for every set of messages, length of a    *)
(* payload and size of the send buffer, and any number of interrupts and   *)
(* connections.                                                            *)
(*                                                                         *)
(* The counts say how far the payload is, the last unit is written exactly *)
(* when a message has been reported, and on the first connection the       *)
(* message being written is the first one queued, which                    *)
(* MessageListProofs shows to stay at the front of the queue.              *)
(***************************************************************************)
EXTENDS MessageWriter, MessageListProofs, SequenceTheorems

(* The send queue, and that the loop runs only while it is not empty or  *)
(* when it has run before. *)
QueueShape ==
  /\ q \in QueueType /\ pushed \in Seq(Messages)
  /\ pushed = <<>> => Untouched(q) /\ q.size = 0
  /\ pushed # <<>> => Pinned(q, pushed[1])
  /\ reported # {} => pushed # <<>>
  /\ pc = "loop" => q.size # 0 \/ reported # {}

(* The record of the writer: no message and no counts, or a message. *)
WriterType(w) ==
  /\ w \in [cur: Messages \cup {Null}, data: Messages \cup {Null},
            written: Nat, toWrite: Nat]
  /\ w.cur = Null => w.written = 0 /\ w.toWrite = 0
  /\ w.cur # Null => w.data \in Messages /\ w.toWrite = PayloadLen /\ w.written <= PayloadLen

(* The counts of the rest. *)
SocketType ==
  /\ room \in 0 .. BufferLen /\ status \in {-1, 0, 1}
  /\ out \in Nodes \cup {Null} /\ freed \subseteq Messages
  /\ inits \in Nat \ {0} /\ intrs \in Nat

(* The wire holds what the count says of the payload m_data points at. *)
WireShape ==
  /\ wire \in Seq(Messages \X Nat) /\ Len(wire) = writer.written
  /\ \A i \in 1 .. writer.written : wire[i] = <<writer.data, i>>

(* Reported exactly when written; on the first connection, of the message *)
(* queued first. *)
ReportShape ==
  /\ reported # {} <=> (writer.cur # Null /\ writer.written = PayloadLen)
  /\ status = -1 => broken \/ reported # {}
  /\ inits = 1 =>
       /\ freed \subseteq reported
       /\ writer.cur # Null =>
            /\ pushed # <<>> /\ writer.data = pushed[1]
            /\ reported \subseteq {pushed[1]}

WriterInv ==
  QueueShape /\ WriterType(writer) /\ SocketType /\ WireShape /\ ReportShape

-----------------------------------------------------------------------------
(* What the loop over send() may have done: never more than the rest of    *)
(* the payload or the room of the buffer, all of it only as the last       *)
(* result says, and an error on a healthy socket only for no rest at all.  *)
LEMMA SendLoopsShape ==
  ASSUME NEW w, WriterType(w), w.cur # Null, room \in Nat, NEW s \in SendLoops(w)
  PROVE  /\ s.sent \in 0 .. w.toWrite - w.written /\ s.sent <= room
         /\ s.last = "all" => s.sent = w.toWrite - w.written /\ s.sent # 0
         /\ s.last # "all" => (w.written = w.toWrite \/ s.sent < w.toWrite - w.written)
         /\ s.last \in {"zero", "all", "again", "error", "intr"}
         /\ s.last = "zero" => w.written = w.toWrite
         /\ s.last = "error" => broken
  <1> DEFINE r == w.toWrite - w.written
             some == {k \in 0 .. room : k < r}
  <1>1. r \in Nat
    BY WriterAssumption DEF WriterType
  <1>2. \A k \in some : r # 0 => k \in Nat /\ k < r /\ k <= room
    BY <1>1
  <1>3. CASE r = 0
    <2>1. s = [sent |-> 0, last |-> "zero"]
      BY <1>3 DEF SendLoops, Remaining
    <2>2. QED
      BY <1>1, <1>3, <2>1 DEF WriterType
  <1>4. CASE r # 0
    <2>1. \/ ~broken /\ r <= room /\ s = [sent |-> r, last |-> "all"]
          \/ ~broken /\ room < r /\ s = [sent |-> room, last |-> "again"]
          \/ broken /\ \E k \in some : s = [sent |-> k, last |-> "error"]
          \/ \E k \in some : s = [sent |-> k, last |-> "intr"]
      BY <1>4 DEF SendLoops, Remaining
    <2>2. QED
      <3> HIDE DEF some
      <3>1. CASE ~broken /\ r <= room /\ s = [sent |-> r, last |-> "all"]
        BY <1>1, <1>4, <3>1
      <3>2. CASE ~broken /\ room < r /\ s = [sent |-> room, last |-> "again"]
        BY <1>1, <1>4, <3>2
      <3>3. CASE broken /\ \E k \in some : s = [sent |-> k, last |-> "error"]
        BY <1>1, <1>2, <1>4, <3>3
      <3>4. CASE \E k \in some : s = [sent |-> k, last |-> "intr"]
        BY <1>1, <1>2, <1>4, <3>4
      <3>5. QED
        BY <2>1, <3>1, <3>2, <3>3, <3>4
  <1>5. QED
    BY <1>3, <1>4

(* In the loop write() always has a message; where it begins one, it is    *)
(* the first one queued, and until it is reported that is in front.        *)
LEMMA LoadedShape ==
  ASSUME WriterInv, pc = "loop"
  PROVE  /\ WriterType(Loaded) /\ Loaded.cur # Null
         /\ Loaded.written = writer.written
         /\ pushed # <<>> /\ pushed[1] \in Messages
         /\ reported = {} => Peek(q) = pushed[1]
         /\ inits = 1 => Loaded.data = pushed[1]
         /\ writer.cur # Null => Loaded = writer
  <1>1. /\ pushed # <<>> /\ pushed[1] \in Messages
        /\ reported = {} => Peek(q) = pushed[1] /\ Peek(q) # Null
    BY NodesDistinct DEF WriterInv, QueueShape, Pinned, Peek
  <1>2. CASE writer.cur # Null
    BY <1>1, <1>2 DEF Loaded, WriterInv, ReportShape
  <1>3. CASE writer.cur = Null
    <2>1. Loaded = [cur |-> pushed[1], data |-> pushed[1], written |-> 0,
                    toWrite |-> PayloadLen]
      BY <1>1, <1>3 DEF Loaded, WriterInv, ReportShape
    <2>2. QED
      BY <1>1, <1>3, <2>1, WriterAssumption, NodesDistinct DEF WriterInv, WriterType
  <1>4. QED
    BY <1>2, <1>3

(* A wire with the units of a message is the beginning of its payload.     *)
LEMMA UnitsAre ==
  ASSUME NEW m \in Messages, NEW s \in Seq(Messages \X Nat), Len(s) \in 1 .. PayloadLen,
         \A i \in 1 .. Len(s) : s[i] = <<m, i>>
  PROVE  s = SubSeq(Units(m), 1, Len(s))
  <1> DEFINE n == Len(s)
             part == SubSeq(Units(m), 1, n)
  <1>1. n \in 1 .. PayloadLen /\ PayloadLen \in Nat /\ \A i \in 1 .. n : s[i] = <<m, i>>
    BY WriterAssumption
  <1> HIDE DEF n
  <1>2. \A i \in 1 .. n : Units(m)[i] = <<m, i>> /\ <<m, i>> \in Messages \X Nat
    BY <1>1 DEF Units
  <1>3. /\ part \in Seq(Messages \X Nat) /\ Len(part) = n
        /\ \A i \in 1 .. n : part[i] = <<m, i>>
    <2>1. 1 \in Int /\ n \in Int /\ 1 <= n /\ n - 1 + 1 = n
      BY <1>1
    <2>2. \A i \in 1 .. n : Units(m)[i] \in Messages \X Nat
      BY <1>2
    <2>3. /\ part \in Seq(Messages \X Nat) /\ Len(part) = n
          /\ \A i \in 1 .. n : part[i] = Units(m)[1 + i - 1]
      BY <2>1, <2>2, SubSeqProperties
    <2>4. \A i \in 1 .. n : 1 + i - 1 = i
      BY <2>1
    <2> HIDE DEF part
    <2>5. QED
      BY <1>2, <2>3, <2>4
  <1>4. part = s
    <2> HIDE DEF part
    <2> QED
      BY <1>1, <1>3, SeqEqual DEF n
  <1>5. QED
    BY <1>4 DEF n

-----------------------------------------------------------------------------
LEMMA InitShape == Init => WriterInv
  <1> SUFFICES ASSUME Init PROVE WriterInv
    OBVIOUS
  <1>1. QueueShape
    BY EmptyShape DEF Init, QueueShape
  <1>2. WriterType(writer)
    BY DEF Init, FreshWriter, WriterType
  <1>3. SocketType
    BY WriterAssumption DEF Init, SocketType
  <1>4. WireShape
    BY DEF Init, FreshWriter, WireShape
  <1>5. ReportShape
    BY DEF Init, FreshWriter, ReportShape
  <1>6. QED
    BY <1>1, <1>2, <1>3, <1>4, <1>5 DEF WriterInv

LEMMA SendMsgKeeps ==
  ASSUME WriterInv, NEW m \in Messages, SendMsg(m)
  PROVE  WriterInv'
  <1> USE DEF WriterInv
  <1>1. /\ pushed' # <<>> /\ pushed' \in Seq(Messages)
        /\ pushed'[1] = IF pushed = <<>> THEN m ELSE pushed[1]
        /\ pushed # <<>> => pushed[1] \in Messages
    BY DEF SendMsg, QueueShape
  <1>2. Pinned(q', pushed'[1])
    <2>1. CASE pushed = <<>>
      BY <1>1, <2>1, FirstPush DEF SendMsg, QueueShape
    <2>2. CASE pushed # <<>>
      BY <1>1, <2>2, LaterPush DEF SendMsg, QueueShape
    <2>3. QED
      BY <2>1, <2>2
  <1>3. QueueShape'
    BY <1>1, <1>2, PushBackType DEF SendMsg, QueueShape
  <1>4. WriterType(writer') /\ SocketType' /\ WireShape'
    BY DEF SendMsg, WriterType, SocketType, WireShape
  <1>5. ReportShape'
    BY <1>1 DEF SendMsg, ReportShape
  <1>6. QED
    BY <1>3, <1>4, <1>5 DEF WriterType

LEMMA ServeNextKeeps ==
  ASSUME WriterInv, ServeNext
  PROVE  WriterInv'
  <1> USE DEF WriterInv
  <1>1. QueueShape'
    BY EmptyShape DEF ServeNext, QueueShape
  <1>2. /\ writer' \in [cur: Messages \cup {Null}, data: Messages \cup {Null},
                        written: Nat, toWrite: Nat]
        /\ writer'.cur = writer.cur /\ writer'.data = writer.data
        /\ writer'.written = 0 /\ writer'.toWrite = writer.toWrite
    BY DEF ServeNext, WriterType
  <1>3. WriterType(writer')
    BY <1>2, WriterAssumption DEF WriterType
  <1>4. SocketType'
    BY WriterAssumption DEF ServeNext, SocketType
  <1>5. WireShape'
    BY <1>2 DEF ServeNext, WireShape
  <1>6. ReportShape'
    BY <1>2, WriterAssumption DEF ServeNext, ReportShape, SocketType
  <1>7. QED
    BY <1>1, <1>3, <1>4, <1>5, <1>6 DEF WriterType

(* One turn of the write loop: the units sent continue the payload, and a  *)
(* message is reported with its last unit.                                 *)
LEMMA WriteKeeps ==
  ASSUME WriterInv, Write
  PROVE  /\ WriterInv'
         /\ inits = 1 => \A i \in DOMAIN wire' \ DOMAIN wire : wire'[i][1] \notin freed
  <1> DEFINE w == Loaded
  <1>1. /\ WriterType(w) /\ w.cur # Null /\ w.written = writer.written
        /\ pushed # <<>> /\ pushed[1] \in Messages
        /\ reported = {} => Peek(q) = pushed[1]
        /\ inits = 1 => w.data = pushed[1]
        /\ writer.cur # Null => w = writer
    BY LoadedShape DEF Write
  <1>2. PICK s \in SendLoops(w) :
          /\ wire' = wire \o [i \in 1 .. s.sent |-> <<w.data, w.written + i>>]
          /\ room' = room - s.sent
          /\ intrs' = intrs + (IF s.last = "intr" THEN 1 ELSE 0)
          /\ status' = WriteStatus(s)
          /\ IF Finished(s)
             THEN /\ writer' = Popped(Advanced(w, s))
                  /\ q' = Pop(q)
                  /\ out' = Peek(q)
                  /\ reported' = reported \cup {Peek(q)}
             ELSE /\ writer' = Advanced(w, s)
                  /\ out' = Null
                  /\ UNCHANGED <<q, reported>>
    BY DEF Write
  <1>3. /\ freed' = IF status' > 0 /\ out' # Null THEN freed \cup {out'} ELSE freed
        /\ pc' = IF status' > 0 THEN "loop" ELSE "idle"
        /\ pushed' = pushed /\ broken' = broken /\ inits' = inits /\ pc = "loop"
    BY DEF Write
  <1> HIDE DEF w
  <1>4. room \in Nat
    BY WriterAssumption DEF WriterInv, SocketType
  <1>5. /\ s.sent \in 0 .. w.toWrite - w.written /\ s.sent <= room
        /\ s.last = "all" => s.sent = w.toWrite - w.written /\ s.sent # 0
        /\ s.last # "all" => (w.written = w.toWrite \/ s.sent < w.toWrite - w.written)
        /\ s.last \in {"zero", "all", "again", "error", "intr"}
        /\ s.last = "zero" => w.written = w.toWrite
        /\ s.last = "error" => broken
    BY <1>1, <1>2, <1>4, SendLoopsShape
  <1>6. /\ w.data \in Messages /\ w.toWrite = PayloadLen
        /\ w.written \in Nat /\ w.written <= PayloadLen /\ PayloadLen \in Nat
        /\ s.sent \in Nat /\ w.written + s.sent <= PayloadLen
    BY <1>1, <1>5, WriterAssumption DEF WriterType
  <1>6a. Finished(s) => reported = {} /\ Peek(q) = pushed[1]
    <2>1. Finished(s) => w.written # PayloadLen
      BY <1>5, <1>6 DEF Finished
    <2>2. reported # {} => w.written = PayloadLen
      BY <1>1 DEF WriterInv, ReportShape
    <2>3. QED
      BY <1>1, <2>1, <2>2
  <1>7. /\ writer'.data = w.data /\ writer'.written = w.written + s.sent
        /\ writer'.cur \in Messages /\ writer'.toWrite = PayloadLen
        /\ writer' \in [cur: Messages \cup {Null}, data: Messages \cup {Null},
                        written: Nat, toWrite: Nat]
    <2>1. w \in [cur: Messages \cup {Null}, data: Messages \cup {Null},
                written: Nat, toWrite: Nat] /\ w.cur \in Messages
      BY <1>1 DEF WriterType
    <2>2. writer' = [w EXCEPT !.written = w.written + s.sent]
          \/ writer' = [w EXCEPT !.written = w.written + s.sent, !.cur = pushed[1]]
      <3>1. CASE Finished(s)
        BY <1>2, <1>6a, <2>1, <3>1 DEF Popped, Advanced
      <3>2. CASE ~Finished(s)
        BY <1>2, <3>2 DEF Advanced
      <3>3. QED
        BY <3>1, <3>2
    <2>3. w.written + s.sent \in Nat /\ pushed[1] \in Messages
      BY <1>1, <1>6
    <2>4. CASE writer' = [w EXCEPT !.written = w.written + s.sent]
      BY <1>6, <2>1, <2>3, <2>4
    <2>5. CASE writer' = [w EXCEPT !.written = w.written + s.sent, !.cur = pushed[1]]
      BY <1>6, <2>1, <2>3, <2>5
    <2>6. QED
      BY <2>2, <2>4, <2>5
  <1>8. WriterType(writer') /\ writer'.cur # Null
    BY <1>6, <1>7, NodesDistinct DEF WriterType
  <1>9. status' \in {-1, 0, 1} /\ (status' > 0 => (Finished(s) => Pop(q).size # 0))
    BY <1>2 DEF WriteStatus
  <1>10. QueueShape'
    <2>1. q \in QueueType /\ pushed \in Seq(Messages) /\ Pinned(q, pushed[1])
      BY <1>1, <1>3 DEF WriterInv, QueueShape
    <2>2. q' \in QueueType /\ Pinned(q', pushed[1])
      BY <1>1, <1>2, <2>1, PopType, PopKeepsFront
    <2>3. q'.size # 0 \/ reported' # {}
      BY <1>2, <1>3 DEF WriterInv, QueueShape
    <2>4. QED
      BY <1>1, <1>3, <2>1, <2>2, <2>3 DEF QueueShape
  <1>11. SocketType'
    <2>1. out' \in Messages \cup {Null}
      BY <1>1, <1>2, <1>6a
    <2>2. freed' \subseteq Messages
      BY <1>3, <2>1 DEF WriterInv, SocketType
    <2>3. room' \in 0 .. BufferLen
      BY <1>2, <1>4, <1>5, <1>6, WriterAssumption, SMTT(30) DEF WriterInv, SocketType
    <2>4. intrs' \in Nat
      BY <1>2 DEF WriterInv, SocketType
    <2>5. QED
      BY <1>3, <1>9, <2>1, <2>2, <2>3, <2>4 DEF WriterInv, SocketType, Nodes
  <1>12. /\ wire' \in Seq(Messages \X Nat) /\ Len(wire') = w.written + s.sent
         /\ \A i \in 1 .. w.written + s.sent :
              wire'[i] = IF i <= w.written THEN wire[i] ELSE <<w.data, i>>
    <2> DEFINE units == [i \in 1 .. s.sent |-> <<w.data, w.written + i>>]
    <2>1. units \in Seq(Messages \X Nat) /\ Len(units) = s.sent
      BY <1>6, SMTT(30)
    <2>2. wire \in Seq(Messages \X Nat) /\ Len(wire) = w.written /\ wire' = wire \o units
      BY <1>1, <1>2 DEF WriterInv, WireShape
    <2>3. /\ wire' \in Seq(Messages \X Nat) /\ Len(wire') = w.written + s.sent
          /\ \A i \in 1 .. w.written + s.sent :
               wire'[i] = IF i <= w.written THEN wire[i] ELSE units[i - w.written]
      <3> HIDE DEF units
      <3> QED
        <4>1. /\ wire \o units \in Seq(Messages \X Nat)
              /\ Len(wire \o units) = Len(wire) + Len(units)
              /\ \A i \in 1 .. Len(wire) + Len(units) :
                   (wire \o units)[i] =
                     IF i <= Len(wire) THEN wire[i] ELSE units[i - Len(wire)]
          BY <2>1, <2>2, ConcatProperties
        <4>2. QED
          BY <2>1, <2>2, <4>1
    <2>4. \A i \in 1 .. w.written + s.sent :
            ~(i <= w.written) => units[i - w.written] = <<w.data, i>>
      BY <1>6
    <2>5. QED
      <3> HIDE DEF units
      <3> QED
        BY <2>3, <2>4
  <1>13. \A i \in 1 .. w.written : wire[i] = <<w.data, i>>
    <2>1. CASE writer.cur # Null
      BY <1>1, <2>1 DEF WriterInv, WireShape
    <2>2. CASE writer.cur = Null
      BY <1>1, <2>2 DEF WriterInv, WriterType
    <2>3. QED
      BY <2>1, <2>2
  <1>14. WireShape'
    BY <1>6, <1>7, <1>12, <1>13 DEF WireShape
  <1>15. reported # {} <=> w.written = PayloadLen
    BY <1>1, WriterAssumption DEF WriterInv, ReportShape, WriterType
  <1>16. inits = 1 => freed \subseteq reported /\ reported \subseteq {pushed[1]}
    BY <1>1, <1>15, WriterAssumption DEF WriterInv, ReportShape, WriterType
  <1>17. ReportShape'
    <2>1. reported' # {} <=> writer'.written = PayloadLen
      <3>1. CASE Finished(s)
        <4>1. reported' # {}
          BY <1>2, <3>1
        <4>2. s.sent = w.toWrite - w.written
          BY <1>5, <3>1 DEF Finished
        <4>3. QED
          BY <1>6, <1>7, <4>1, <4>2
      <3>2. CASE ~Finished(s)
        BY <1>2, <1>5, <1>6, <1>7, <1>15, <3>2 DEF Finished
      <3>3. QED
        BY <3>1, <3>2
    <2>2. status' = -1 => broken' \/ reported' # {}
      BY <1>2, <1>3, <1>5, <1>6, <1>15 DEF WriteStatus, IsError, Finished
    <2>3. inits = 1 => freed' \subseteq reported' /\ reported' \subseteq {pushed[1]}
      BY <1>1, <1>2, <1>3, <1>6a, <1>16
    <2>4. QED
      BY <1>1, <1>3, <1>7, <1>8, <2>1, <2>2, <2>3 DEF ReportShape
  <1>18. WriterInv'
    BY <1>8, <1>10, <1>11, <1>14, <1>17 DEF WriterInv, WriterType
  <1>19. inits = 1 => \A i \in DOMAIN wire' \ DOMAIN wire : wire'[i][1] \notin freed
    <2> SUFFICES ASSUME inits = 1, NEW i \in DOMAIN wire' \ DOMAIN wire
                 PROVE  freed = {}
      OBVIOUS
    <2>1. DOMAIN wire = 1 .. w.written /\ DOMAIN wire' = 1 .. w.written + s.sent
      BY <1>1, <1>12 DEF WriterInv, WireShape
    <2>2. w.written # PayloadLen
      BY <1>6, <2>1
    <2>3. QED
      BY <1>15, <1>16, <2>2
  <1>20. QED
    BY <1>18, <1>19

LEMMA StepKeeps == WriterInv /\ [Next]_vars => WriterInv'
  <1> SUFFICES ASSUME WriterInv, [Next]_vars PROVE WriterInv'
    OBVIOUS
  <1>1. ASSUME NEW m \in Messages, SendMsg(m)
        PROVE  WriterInv'
    BY <1>1, SendMsgKeeps
  <1>2. CASE EnterLoop
    <2>1. /\ UNCHANGED <<q, writer, wire, pushed, reported, room, broken, status, out, freed, intrs, inits>>
          /\ q.size # 0 \/ reported # {}
      BY <1>2 DEF EnterLoop, conn, history, WriterInv, QueueShape, QueueType
    <2>2. QueueShape' /\ WriterType(writer)'
      BY <2>1 DEF WriterInv, QueueShape, QueueType, WriterType
    <2>3. SocketType' /\ WireShape' /\ ReportShape'
      BY <2>1 DEF WriterInv, SocketType, WireShape, ReportShape
    <2> QED
      BY <2>2, <2>3 DEF WriterInv
  <1>3. CASE Write
    BY <1>3, WriteKeeps
  <1>4. CASE ServeNext
    BY <1>4, ServeNextKeeps
  <1>5. CASE PeerReads
    <2>1. room' \in 0 .. BufferLen
      BY <1>5, WriterAssumption DEF PeerReads, WriterInv, SocketType
    <2>2. QED
      BY <1>5, <2>1 DEF PeerReads, conn, history, WriterInv, QueueShape, WriterType,
                        SocketType, WireShape, ReportShape
  <1>6. CASE PeerResets
    BY <1>6 DEF PeerResets, conn, history, WriterInv, QueueShape, WriterType,
                SocketType, WireShape, ReportShape
  <1>7. CASE UNCHANGED vars
    BY <1>7 DEF vars, conn, history, WriterInv, QueueShape, WriterType,
                SocketType, WireShape, ReportShape
  <1>8. QED
    BY <1>1, <1>2, <1>3, <1>4, <1>5, <1>6, <1>7 DEF Next

LEMMA AlwaysWriterInv == Spec => []WriterInv
  BY InitShape, StepKeeps, PTL DEF Spec

-----------------------------------------------------------------------------
(* The counts stay within payload and buffer, what the peer receives is    *)
(* the beginning of one payload, and until a message has been reported an  *)
(* error is an error of the connection.                                    *)
THEOREM PayloadCorrect == Spec => [](TypeOK /\ WireIsOnePayload /\ HealthyUntilReported)
<1>1. WriterInv => TypeOK
  BY DEF WriterInv, QueueShape, WriterType, SocketType, TypeOK, Nodes
<1>2. WriterInv => WireIsOnePayload
  <2> SUFFICES ASSUME WriterInv, wire # <<>>
               PROVE  wire = SubSeq(Units(writer.data), 1, Len(wire)) /\ writer.data \in Messages
    BY DEF WireIsOnePayload
  <2>1. /\ wire \in Seq(Messages \X Nat) /\ Len(wire) = writer.written
        /\ \A i \in 1 .. Len(wire) : wire[i] = <<writer.data, i>>
    BY DEF WriterInv, WireShape
  <2>2. writer.data \in Messages /\ Len(wire) \in 1 .. PayloadLen /\ PayloadLen \in Nat
    BY <2>1, WriterAssumption DEF WriterInv, WriterType
  <2>3. QED
    BY <2>1, <2>2, UnitsAre
<1>3. WriterInv => HealthyUntilReported
  BY DEF WriterInv, ReportShape, HealthyUntilReported
<1>4. QED
  BY <1>1, <1>2, <1>3, InitShape, StepKeeps, PTL DEF Spec

(* On the first connection, what is reported written is the message queued *)
(* first, and all of it is on the wire.                                    *)
THEOREM ReportCorrect == Spec => []ReportedIsWritten
<1>1. WriterInv => ReportedIsWritten
  <2> SUFFICES ASSUME WriterInv, inits = 1, NEW m \in reported
               PROVE  m = pushed[1] /\ OnTheWire(m)
    BY DEF ReportedIsWritten
  <2>1. /\ m = pushed[1] /\ writer.data = m /\ m \in Messages
        /\ writer.written = PayloadLen
    BY DEF WriterInv, ReportShape, WriterType
  <2>2. /\ wire \in Seq(Messages \X Nat) /\ Len(wire) = PayloadLen /\ PayloadLen \in Nat
        /\ \A i \in 1 .. PayloadLen : wire[i] = <<m, i>>
    BY <2>1, WriterAssumption DEF WriterInv, WireShape
  <2> DEFINE part == SubSeq(wire, 1, PayloadLen)
  <2>3. /\ part \in Seq(Messages \X Nat) /\ Len(part) = PayloadLen
        /\ \A i \in 1 .. PayloadLen : part[i] = <<m, i>>
    BY <2>1, <2>2, SubSeqProperties
  <2>4. /\ Units(m) \in Seq(Messages \X Nat) /\ Len(Units(m)) = PayloadLen
        /\ \A i \in 1 .. PayloadLen : Units(m)[i] = <<m, i>>
    BY <2>1, <2>2 DEF Units
  <2>5. part = Units(m)
    <3> HIDE DEF part
    <3> QED
      BY <2>3, <2>4, SeqEqual
  <2>6. 0 \in 0 .. Len(wire) - PayloadLen /\ SubSeq(wire, 0 + 1, 0 + PayloadLen) = Units(m)
    BY <2>2, <2>5
  <2>7. QED
    BY <2>1, <2>6 DEF OnTheWire
<1>2. QED
  BY <1>1, InitShape, StepKeeps, PTL DEF Spec

(* On the first connection, no unit of a message the loop has freed is     *)
(* sent, although m_current_msg and m_data point at it.                    *)
THEOREM FreeCorrect == Spec => NoSendAfterFree
<1> DEFINE Step == inits = 1 => \A i \in DOMAIN wire' \ DOMAIN wire : wire'[i][1] \notin freed
<1>1. ASSUME WriterInv, [Next]_vars
      PROVE  [Step]_vars
  <2>1. CASE Write
    BY <1>1, <2>1, WriteKeeps
  <2>2. CASE wire' = wire
    BY <2>2
  <2>3. CASE ServeNext
    BY <2>3 DEF ServeNext
  <2>4. QED
    BY <1>1, <2>1, <2>2, <2>3
    DEF Next, SendMsg, EnterLoop, PeerReads, PeerResets, history, vars
<1>2. QED
  BY <1>1, InitShape, StepKeeps, PTL DEF Spec, NoSendAfterFree
=============================================================================
