------------------------ MODULE MessageReaderProofs ------------------------
(***************************************************************************)
(* What MessageReader guarantees for every set of messages, length of the  *)
(* size word, sizes of bodies, and number of frames and interrupts.        *)
(*                                                                         *)
(* The invariant ties four things together: where in the stream the reader *)
(* is, what it counts, what its buffer holds, and whether a message has    *)
(* been delivered.  Where the stream has ended, read() may have dropped    *)
(* units, but then there are no others.                                    *)
(***************************************************************************)
EXTENDS MessageReader, SequenceTheorems, TLAPS

Units == Nat \X Nat

(* The stream begins with the first frame, which later ones leave alone.   *)
StreamShape ==
  /\ frames \in Seq(BodySizes) /\ stream \in Seq(Units)
  /\ arrived \in 0 .. Len(stream) /\ consumed \in 0 .. arrived
  /\ frames = <<>> => stream = <<>>
  /\ frames # <<>> =>
       /\ Len(stream) >= SizeLen + frames[1]
       /\ \A i \in 1 .. SizeLen + frames[1] : stream[i] = <<1, i>>

ReaderType(r) ==
  r \in [msg: Messages \cup {Null}, bytesRead: Nat, toRead: Nat, state: {"size", "body"}]

(* Units of the stream in front of those the buffer holds.                 *)
Offset(r) == IF r.state = "body" THEN SizeLen ELSE 0

(* A reader that has begun a message, between two calls of recv().         *)
Holding(r) ==
  /\ ReaderType(r) /\ r.msg \in Messages
  /\ r.state = "size" => r.toRead = SizeLen /\ r.bytesRead < SizeLen /\ received = <<>>
  /\ r.state = "body" => frames # <<>> /\ r.toRead = frames[1] /\ r.bytesRead <= r.toRead
  /\ r.bytesRead = r.toRead => received # <<>>
  /\ received # <<>> => r.state = "body" /\ r.bytesRead = r.toRead /\ received[1] = r.msg
  /\ consumed = r.bytesRead + Offset(r) \/ (eof /\ consumed = arrived)
  /\ \A i \in 1 .. r.bytesRead : mem[r.msg][i] = <<1, i + Offset(r)>>

ReaderShape ==
  \/ /\ reader = [msg |-> Null, bytesRead |-> 0, toRead |-> 0, state |-> "size"]
     /\ consumed = 0 /\ received = <<>>
  \/ /\ Holding(reader)
     /\ received = <<>> => slot = reader.msg

(* What the caller of read() holds. *)
UserShape ==
  /\ mem \in [Messages -> [1 .. BufferLen -> Units \cup {Blank}]]
  /\ received \in Seq(Messages) /\ slot \in Messages \cup {Null}
  /\ DeliveredOnce
  /\ status \in {-1, 0, 1} /\ HealthyUntilDelivered

ReaderInv == StreamShape /\ ReaderShape /\ UserShape

-----------------------------------------------------------------------------
(* The offered message is nobody else's, and until the first delivery it   *)
(* is the one the reader works on.                                         *)
LEMMA OfferedShape ==
  ASSUME ReaderInv, NEW m \in Offered
  PROVE  /\ m \in Messages \cup {Null} /\ m \notin ToSet(received)
         /\ Holding(Begun(m))
         /\ received = <<>> => m = Begun(m).msg
  <1>1. /\ received \in Seq(Messages) /\ slot \in Messages \cup {Null}
        /\ slot \notin ToSet(received)
    BY DEF ReaderInv, UserShape, DeliveredOnce
  <1>2. Null \notin ToSet(received)
    BY <1>1, ReaderAssumption DEF ToSet
  <1>3. m \in Messages \cup {Null} /\ m \notin ToSet(received)
    BY <1>1, <1>2 DEF Offered
  <1>4. CASE reader = [msg |-> Null, bytesRead |-> 0, toRead |-> 0, state |-> "size"]
             /\ consumed = 0 /\ received = <<>>
    <2>1. ToSet(received) = {} /\ reader.msg = Null
      BY <1>4 DEF ToSet
    <2>2. m \in Messages
      BY <1>1, <2>1, ReaderAssumption DEF Offered
    <2>3. Begun(m) = [msg |-> m, bytesRead |-> 0, toRead |-> SizeLen, state |-> "size"]
      BY <2>1 DEF Begun
    <2>4. Holding(Begun(m))
      BY <1>4, <2>2, <2>3, ReaderAssumption DEF Holding, ReaderType, Offset
    <2>5. QED
      BY <1>3, <2>3, <2>4
  <1>5. CASE Holding(reader) /\ (received = <<>> => slot = reader.msg)
    <2>1. Begun(m) = reader /\ reader.msg # Null
      BY <1>5, ReaderAssumption DEF Begun, Holding
    <2>2. received = <<>> => m = reader.msg
      BY <1>5, <2>1 DEF Offered
    <2>3. QED
      BY <1>3, <1>5, <2>1, <2>2
  <1>6. QED
    BY <1>4, <1>5 DEF ReaderInv, ReaderShape

(* What the loop over recv() may have done: never more than was asked for  *)
(* or has arrived; and where it ends with an error, nothing was asked for  *)
(* or the connection has ended and everything was taken.                   *)
LEMMA RecvLoopsShape ==
  ASSUME NEW r, Remaining(r) \in Nat, arrived - consumed \in Nat, NEW s \in RecvLoops(r)
  PROVE  /\ s.got \in 0 .. Remaining(r) /\ s.got <= arrived - consumed
         /\ s.last \in {"zero", "again", "all", "error", "intr"}
         /\ IsError(s.last) => Remaining(r) = 0 \/ (eof /\ s.got = arrived - consumed)
  <1> DEFINE need == Remaining(r)
             ready == arrived - consumed
             some == {k \in 0 .. ready : k < need}
  <1>1. need \in Nat /\ ready \in Nat
    OBVIOUS
  <1>2. \A k \in some : need # 0 => k \in Nat /\ k <= need /\ k <= ready
    BY <1>1
  <1>3. CASE need = 0
    <2>1. s = [got |-> 0, last |-> "zero"] \/ s = [got |-> 0, last |-> "again"]
      BY <1>3 DEF RecvLoops
    <2>2. QED
      BY <1>1, <1>3, <2>1
  <1>4. CASE need # 0
    <2>1. \/ need <= ready /\ s = [got |-> need, last |-> "all"]
          \/ eof /\ need > ready
             /\ (s = [got |-> ready, last |-> "zero"] \/ s = [got |-> ready, last |-> "error"])
          \/ need > ready /\ s = [got |-> ready, last |-> "again"]
          \/ \E k \in some : s = [got |-> k, last |-> "intr"]
      BY <1>1, <1>4 DEF RecvLoops
    <2> HIDE DEF need, ready, some
    <2>2. CASE need <= ready /\ s = [got |-> need, last |-> "all"]
      BY <1>1, <2>2 DEF IsError, need, ready
    <2>3. CASE eof /\ need > ready
             /\ (s = [got |-> ready, last |-> "zero"] \/ s = [got |-> ready, last |-> "error"])
      BY <1>1, <2>3 DEF IsError, need, ready
    <2>4. CASE need > ready /\ s = [got |-> ready, last |-> "again"]
      BY <1>1, <2>4 DEF IsError, need, ready
    <2>5. CASE \E k \in some : s = [got |-> k, last |-> "intr"]
      BY <1>1, <1>2, <1>4, <2>5 DEF IsError, need, ready
    <2>6. QED
      BY <2>1, <2>2, <2>3, <2>4, <2>5
  <1>5. QED
    BY <1>3, <1>4

(* The loop over recv() continues what the buffer holds: the units it      *)
(* stores are those of the first frame, behind the ones read before.       *)
LEMMA StoredShape ==
  ASSUME ReaderInv, NEW r, Holding(r), NEW s \in RecvLoops(r)
  PROVE  /\ s.got \in 0 .. r.toRead - r.bytesRead /\ s.got <= arrived - consumed
         /\ Stored(mem[r.msg], r, s) \in [1 .. BufferLen -> Units \cup {Blank}]
         /\ \A i \in 1 .. r.bytesRead + s.got :
              Stored(mem[r.msg], r, s)[i] = <<1, i + Offset(r)>>
  <1>1. /\ r.bytesRead \in Nat /\ r.toRead \in Nat /\ r.bytesRead <= r.toRead
        /\ Offset(r) \in Nat /\ r.msg \in Messages
        /\ r.toRead <= BufferLen /\ BufferLen \in Nat
        /\ frames # <<>> => frames[1] \in Nat /\ Offset(r) + r.toRead <= SizeLen + frames[1]
    <2>1. frames # <<>> => frames[1] \in 0 .. MaxBody
      <3>1. frames # <<>> => frames[1] \in BodySizes
        BY DEF ReaderInv, StreamShape
      <3>2. QED
        BY <3>1, ReaderAssumption
    <2>2. SizeLen \in Nat /\ MaxBody \in Nat
      BY ReaderAssumption
    <2>3. r.state \in {"size", "body"} /\ r.bytesRead \in Nat /\ r.toRead \in Nat
      BY DEF Holding, ReaderType
    <2>4. QED
      BY <2>1, <2>2, <2>3 DEF Holding, Offset, BufferLen
  <1>2. /\ stream \in Seq(Units) /\ Len(stream) \in Nat
        /\ arrived \in Nat /\ arrived <= Len(stream)
        /\ consumed \in Nat /\ consumed <= arrived
    BY DEF ReaderInv, StreamShape
  <1>3. Remaining(r) = r.toRead - r.bytesRead /\ Remaining(r) \in Nat
        /\ arrived - consumed \in Nat
    BY <1>1, <1>2 DEF Remaining
  <1>4. s.got \in 0 .. r.toRead - r.bytesRead /\ s.got <= arrived - consumed
    BY <1>3, RecvLoopsShape
  <1>5. mem[r.msg] \in [1 .. BufferLen -> Units \cup {Blank}]
    BY <1>1 DEF ReaderInv, UserShape
  <1>6. \A i \in 1 .. s.got : stream[consumed + i] \in Units
    BY <1>2, <1>4, ElementOfSeq
  <1>7. \A i \in 1 .. BufferLen :
          Stored(mem[r.msg], r, s)[i] =
            IF i \in r.bytesRead + 1 .. r.bytesRead + s.got
            THEN stream[consumed + i - r.bytesRead] ELSE mem[r.msg][i]
    BY <1>5 DEF Stored
  <1>8. \A i \in r.bytesRead + 1 .. r.bytesRead + s.got :
          stream[consumed + i - r.bytesRead] \in Units
    <2> SUFFICES ASSUME NEW i \in r.bytesRead + 1 .. r.bytesRead + s.got
                 PROVE  stream[consumed + i - r.bytesRead] \in Units
      OBVIOUS
    <2>1. i - r.bytesRead \in 1 .. s.got
      BY <1>1, <1>4
    <2>2. consumed + (i - r.bytesRead) = consumed + i - r.bytesRead
      BY <1>1, <1>2, <1>4
    <2>3. QED
      BY <1>6, <2>1, <2>2
  <1>9. Stored(mem[r.msg], r, s) \in [1 .. BufferLen -> Units \cup {Blank}]
    BY <1>5, <1>8 DEF Stored
  <1>10. \A i \in 1 .. r.bytesRead : mem[r.msg][i] = <<1, i + Offset(r)>>
    BY DEF Holding
  <1>11. \A i \in 1 .. r.bytesRead + s.got :
           Stored(mem[r.msg], r, s)[i] = <<1, i + Offset(r)>>
    <2> SUFFICES ASSUME NEW i \in 1 .. r.bytesRead + s.got
                 PROVE  Stored(mem[r.msg], r, s)[i] = <<1, i + Offset(r)>>
      OBVIOUS
    <2>1. i \in 1 .. BufferLen
      BY <1>1, <1>4
    <2>2. CASE i <= r.bytesRead
      <3>1. i \notin r.bytesRead + 1 .. r.bytesRead + s.got /\ i \in 1 .. r.bytesRead
        BY <1>1, <1>4, <2>2
      <3>2. Stored(mem[r.msg], r, s)[i] = mem[r.msg][i]
        BY <1>7, <2>1, <3>1
      <3>3. QED
        BY <1>10, <3>1, <3>2
    <2>3. CASE i > r.bytesRead
      <3>1. consumed = r.bytesRead + Offset(r) /\ stream # <<>>
        BY <1>1, <1>2, <1>4, <2>3, SMTT(30) DEF Holding
      <3>2. frames # <<>>
        BY <3>1 DEF ReaderInv, StreamShape
      <3>3. i + Offset(r) \in 1 .. SizeLen + frames[1]
        <4>1. i \in Nat /\ i >= 1 /\ i <= r.toRead
          BY <1>1, <1>4
        <4>2. frames[1] \in Nat /\ Offset(r) + r.toRead <= SizeLen + frames[1] /\ SizeLen \in Nat
          BY <1>1, <3>2, ReaderAssumption
        <4>3. QED
          BY <1>1, <4>1, <4>2
      <3>4. consumed + i - r.bytesRead = i + Offset(r)
        BY <1>1, <1>4, <3>1
      <3>5. stream[i + Offset(r)] = <<1, i + Offset(r)>>
        BY <3>2, <3>3 DEF ReaderInv, StreamShape
      <3>6. QED
        BY <1>1, <1>4, <1>7, <2>1, <2>3, <3>4, <3>5, SMTT(30)
    <2>4. QED
      BY <1>1, <1>4, <2>2, <2>3
  <1>12. QED
    BY <1>4, <1>9, <1>11

(* The size word of the first frame, once the buffer holds it.             *)
LEMMA SizeWordShape ==
  ASSUME NEW buffer, frames # <<>>, frames \in Seq(BodySizes),
         \A i \in 1 .. SizeLen : buffer[i] = <<1, i>>
  PROVE  SizeWord(buffer) = frames[1]
  <1> DEFINE IsWordOf(f) == \A i \in 1 .. SizeLen : buffer[i] = <<f, i>>
  <1>1. 1 \in 1 .. SizeLen /\ 1 \in DOMAIN frames
    BY ReaderAssumption
  <1>2. IsWordOf(1)
    OBVIOUS
  <1>3. \A f \in DOMAIN frames : IsWordOf(f) => f = 1
    BY <1>1
  <1> HIDE DEF IsWordOf
  <1>4. (CHOOSE f \in DOMAIN frames : IsWordOf(f)) = 1
    BY <1>1, <1>2, <1>3
  <1>5. SizeWord(buffer) = frames[CHOOSE f \in DOMAIN frames : IsWordOf(f)]
    BY <1>1, <1>2 DEF SizeWord, IsWordOf
  <1>6. QED
    BY <1>4, <1>5

(* The reader after recv(): further in the same part of the frame, or at   *)
(* the beginning of the body, unless there was an error.                   *)
NextReader(r, s) ==
  IF IsError(s.last) THEN r ELSE Sized(Advanced(r, s), Stored(mem[r.msg], r, s))

Delivers(r, s) == ~IsError(s.last) /\ NextReader(r, s).bytesRead = NextReader(r, s).toRead

LEMMA NextReaderShape ==
  ASSUME ReaderInv, NEW r, Holding(r), NEW s \in RecvLoops(r)
  PROVE  \/ /\ IsError(s.last) /\ NextReader(r, s) = r
            /\ (s.got = 0 /\ received # <<>>) \/ (eof /\ consumed + s.got = arrived)
         \/ /\ ~IsError(s.last) /\ r.state = "size" /\ r.bytesRead + s.got = SizeLen
            /\ frames # <<>>
            /\ NextReader(r, s) = [r EXCEPT !.state = "body", !.toRead = frames[1], !.bytesRead = 0]
         \/ /\ ~IsError(s.last)
            /\ r.state = "size" => r.bytesRead + s.got < SizeLen
            /\ NextReader(r, s) = [r EXCEPT !.bytesRead = r.bytesRead + s.got]
  <1> DEFINE b == Stored(mem[r.msg], r, s)
  <1>1. /\ s.got \in 0 .. r.toRead - r.bytesRead /\ s.got <= arrived - consumed
        /\ \A i \in 1 .. r.bytesRead + s.got : b[i] = <<1, i + Offset(r)>>
    BY StoredShape
  <1>2. /\ r.bytesRead \in Nat /\ r.toRead \in Nat /\ r.state \in {"size", "body"}
        /\ r.bytesRead <= r.toRead
        /\ arrived \in Nat /\ consumed \in Nat /\ consumed <= arrived
        /\ SizeLen \in Nat \ {0}
    BY ReaderAssumption DEF Holding, ReaderType, ReaderInv, StreamShape
  <1>3. IsError(s.last) => Remaining(r) = 0 \/ (eof /\ s.got = arrived - consumed)
    BY <1>1, <1>2, RecvLoopsShape DEF Remaining
  <1> HIDE DEF b
  <1>4. CASE IsError(s.last)
    <2>1. NextReader(r, s) = r
      BY <1>4 DEF NextReader
    <2>2. Remaining(r) = 0 => s.got = 0 /\ received # <<>>
      BY <1>1, <1>2 DEF Remaining, Holding
    <2>3. QED
      BY <1>1, <1>2, <1>3, <1>4, <2>1, <2>2
  <1>5. CASE ~IsError(s.last) /\ r.state = "size" /\ r.bytesRead + s.got = SizeLen
    <2>1. r.toRead = SizeLen /\ r.bytesRead < SizeLen /\ s.got # 0 /\ ReaderType(r)
      BY <1>1, <1>2, <1>5 DEF Holding
    <2>2. frames # <<>> /\ frames \in Seq(BodySizes)
      BY <1>1, <1>2, <2>1 DEF ReaderInv, StreamShape
    <2>3. \A i \in 1 .. SizeLen : b[i] = <<1, i>>
      BY <1>1, <1>5 DEF Offset
    <2>4. SizeWord(b) = frames[1]
      BY <2>2, <2>3, SizeWordShape
    <2>5. NextReader(r, s) = Sized([r EXCEPT !.bytesRead = r.bytesRead + s.got], b)
      BY <1>5 DEF NextReader, Advanced, b
    <2>6. [r EXCEPT !.bytesRead = r.bytesRead + s.got].bytesRead = SizeLen
      BY <1>5, <2>1 DEF ReaderType
    <2>7. NextReader(r, s) = [r EXCEPT !.state = "body", !.toRead = frames[1], !.bytesRead = 0]
      BY <1>5, <2>1, <2>4, <2>5, <2>6 DEF Sized, ReaderType
    <2>8. QED
      BY <1>5, <2>2, <2>7
  <1>6. CASE ~IsError(s.last) /\ ~(r.state = "size" /\ r.bytesRead + s.got = SizeLen)
    <2>1. r.state = "size" => r.toRead = SizeLen /\ r.bytesRead + s.got < SizeLen
      BY <1>1, <1>2, <1>6 DEF Holding
    <2>2. NextReader(r, s) = Sized([r EXCEPT !.bytesRead = r.bytesRead + s.got], b)
      BY <1>6 DEF NextReader, Advanced, b
    <2>3. NextReader(r, s) = [r EXCEPT !.bytesRead = r.bytesRead + s.got]
      BY <1>2, <2>1, <2>2 DEF Sized, Holding, ReaderType
    <2>4. QED
      BY <1>6, <2>1, <2>3
  <1>7. QED
    BY <1>4, <1>5, <1>6

-----------------------------------------------------------------------------
(* One turn of the read loop. *)
LEMMA ReadKeeps == ReaderInv /\ Read => ReaderInv'
  <1> SUFFICES ASSUME ReaderInv, Read PROVE ReaderInv'
    OBVIOUS
  <1>1. PICK m \in Offered : \E s \in RecvLoops(Begun(m)) :
          /\ mem' = [mem EXCEPT ![Begun(m).msg] = Stored(mem[Begun(m).msg], Begun(m), s)]
          /\ consumed' = consumed + s.got
          /\ reader' = NextReader(Begun(m), s)
          /\ slot' = LeftAfter(m, Delivers(Begun(m), s))
          /\ received' = IF Delivers(Begun(m), s) /\ m # Null THEN Append(received, m) ELSE received
          /\ status' = IF IsError(s.last) THEN -1 ELSE IF s.last = "zero" THEN 0 ELSE 1
    BY ZenonT(30) DEF Read, NextReader, Delivers
  <1> DEFINE r == Begun(m)
  <1>2. PICK s \in RecvLoops(r) :
          /\ mem' = [mem EXCEPT ![r.msg] = Stored(mem[r.msg], r, s)]
          /\ consumed' = consumed + s.got
          /\ reader' = NextReader(r, s)
          /\ slot' = IF Delivers(r, s) THEN Null ELSE m
          /\ received' = IF Delivers(r, s) /\ m # Null THEN Append(received, m) ELSE received
          /\ status' = IF IsError(s.last) THEN -1 ELSE IF s.last = "zero" THEN 0 ELSE 1
    BY <1>1 DEF LeftAfter
  <1>3. /\ m \in Messages \cup {Null} /\ m \notin ToSet(received)
        /\ Holding(r) /\ (received = <<>> => m = r.msg)
    BY OfferedShape
  <1>4. UNCHANGED <<frames, stream, arrived, eof>>
    BY DEF Read, peer
  <1> HIDE DEF r
  <1>5. /\ s.got \in 0 .. r.toRead - r.bytesRead /\ s.got <= arrived - consumed
        /\ Stored(mem[r.msg], r, s) \in [1 .. BufferLen -> Units \cup {Blank}]
        /\ \A i \in 1 .. r.bytesRead + s.got :
             Stored(mem[r.msg], r, s)[i] = <<1, i + Offset(r)>>
    BY <1>3, StoredShape
  <1>6. /\ r.msg \in Messages /\ r.msg # Null /\ ReaderType(r)
        /\ r.bytesRead \in Nat /\ r.toRead \in Nat /\ r.bytesRead <= r.toRead
        /\ arrived \in Nat /\ consumed \in Nat /\ consumed <= arrived
        /\ SizeLen \in Nat \ {0}
    BY <1>3, ReaderAssumption DEF Holding, ReaderType, ReaderInv, StreamShape
  <1>7. mem' \in [Messages -> [1 .. BufferLen -> Units \cup {Blank}]]
        /\ mem'[r.msg] = Stored(mem[r.msg], r, s)
    BY <1>2, <1>5, <1>6 DEF ReaderInv, UserShape
  <1>8. StreamShape'
    BY <1>2, <1>4, <1>5, <1>6, SMTT(30) DEF ReaderInv, StreamShape
  <1>9. received \in Seq(Messages) /\ slot \notin ToSet(received) /\ IsInjective(received)
    BY DEF ReaderInv, UserShape, DeliveredOnce
  <1>10. /\ received' \in Seq(Messages) /\ IsInjective(received')
         /\ slot' \in Messages \cup {Null} /\ slot' \notin ToSet(received')
         /\ received # <<>> => received' # <<>> /\ received'[1] = received[1]
         /\ received = <<>> /\ Delivers(r, s) => received' # <<>> /\ received'[1] = r.msg
         /\ received = <<>> /\ ~Delivers(r, s) => received' = <<>> /\ slot' = r.msg
    <2>1. Null \notin ToSet(received')
      <3>1. received' \in Seq(Messages)
        BY <1>2, <1>3, <1>9
      <3>2. QED
        BY <3>1, ReaderAssumption DEF ToSet
    <2>2. CASE Delivers(r, s) /\ m # Null
      <3>1. /\ received' = Append(received, m) /\ m \in Messages /\ slot' = Null
        BY <1>2, <1>3, <2>2
      <3>2. /\ received' \in Seq(Messages) /\ Len(received') = Len(received) + 1
            /\ \A i \in 1 .. Len(received) : received'[i] = received[i] /\ received[i] # m
            /\ received'[Len(received) + 1] = m
        BY <1>3, <1>9, <3>1 DEF ToSet
      <3>3. IsInjective(received')
        BY <1>9, <3>2 DEF IsInjective
      <3>4. received # <<>> => received' # <<>> /\ received'[1] = received[1]
        BY <1>9, <3>2
      <3>5. received = <<>> => received' # <<>> /\ received'[1] = r.msg
        BY <1>3, <3>1
      <3>6. QED
        BY <2>1, <2>2, <3>1, <3>2, <3>3, <3>4, <3>5
    <2>3. CASE ~(Delivers(r, s) /\ m # Null)
      <3>1. received' = received
        BY <1>2, <2>3
      <3>2. slot' = m \/ slot' = Null
        BY <1>2
      <3>3. slot' \in Messages \cup {Null} /\ slot' \notin ToSet(received')
        BY <1>3, <2>1, <3>1, <3>2
      <3>4. received = <<>> => ~Delivers(r, s) /\ slot' = r.msg
        BY <1>2, <1>3, <1>6, <2>3
      <3>5. QED
        BY <1>9, <3>1, <3>3, <3>4
    <2>4. QED
      BY <2>2, <2>3
  <1>11. \/ /\ IsError(s.last) /\ NextReader(r, s) = r
            /\ (s.got = 0 /\ received # <<>>) \/ (eof /\ consumed + s.got = arrived)
         \/ /\ ~IsError(s.last) /\ r.state = "size" /\ r.bytesRead + s.got = SizeLen
            /\ frames # <<>>
            /\ NextReader(r, s) = [r EXCEPT !.state = "body", !.toRead = frames[1], !.bytesRead = 0]
         \/ /\ ~IsError(s.last)
            /\ r.state = "size" => r.bytesRead + s.got < SizeLen
            /\ NextReader(r, s) = [r EXCEPT !.bytesRead = r.bytesRead + s.got]
    BY <1>3, NextReaderShape
  <1>12. received # <<>> => s.got = 0 /\ r.state = "body" /\ r.bytesRead = r.toRead
    BY <1>3, <1>5, <1>6 DEF Holding
  <1>13. consumed = r.bytesRead + Offset(r) \/ (eof /\ consumed = arrived /\ s.got = 0)
    BY <1>3, <1>5, <1>6 DEF Holding
  <1>14. Holding(reader)'
    <2>1. CASE IsError(s.last) /\ NextReader(r, s) = r
               /\ ((s.got = 0 /\ received # <<>>) \/ (eof /\ consumed + s.got = arrived))
      <3>1. reader' = r /\ ~Delivers(r, s)
        BY <1>2, <2>1 DEF Delivers
      <3>2. received' = received
        BY <1>2, <3>1
      <3>3. consumed' = r.bytesRead + Offset(r) \/ (eof' /\ consumed' = arrived')
        BY <1>2, <1>3, <1>4, <1>6, <2>1 DEF Holding
      <3>4. \A i \in 1 .. r.bytesRead : mem'[r.msg][i] = <<1, i + Offset(r)>>
        BY <1>5, <1>6, <1>7
      <3>5. QED
        BY <1>3, <1>4, <3>1, <3>2, <3>3, <3>4 DEF Holding, ReaderType, Offset
    <2>2. CASE ~IsError(s.last) /\ r.state = "size" /\ r.bytesRead + s.got = SizeLen
               /\ frames # <<>>
               /\ NextReader(r, s) = [r EXCEPT !.state = "body", !.toRead = frames[1], !.bytesRead = 0]
      <3>1. frames[1] \in Nat
        <4>1. frames[1] \in BodySizes
          BY <2>2 DEF ReaderInv, StreamShape
        <4>2. frames[1] \in 0 .. MaxBody /\ MaxBody \in Nat
          BY <4>1, ReaderAssumption
        <4>3. QED
          BY <4>2
      <3>2. ReaderType(reader') /\ reader'.msg = r.msg /\ reader'.state = "body"
            /\ reader'.toRead = frames[1] /\ reader'.bytesRead = 0
        <4>1. reader' = [r EXCEPT !.state = "body", !.toRead = frames[1], !.bytesRead = 0]
          BY <1>2, <2>2
        <4>2. r \in [msg: Messages \cup {Null}, bytesRead: Nat, toRead: Nat,
                    state: {"size", "body"}]
          BY <1>6 DEF ReaderType
        <4>3. QED
          BY <3>1, <4>1, <4>2 DEF ReaderType
      <3>3. received = <<>> /\ (Delivers(r, s) <=> frames[1] = 0)
        BY <1>2, <1>12, <2>2, <3>2 DEF Delivers
      <3>4. consumed' = SizeLen \/ (eof' /\ consumed' = arrived')
        BY <1>2, <1>4, <1>6, <1>13, <2>2 DEF Offset
      <3>5. received' # <<>> => frames[1] = 0 /\ received'[1] = r.msg
        BY <1>10, <3>3
      <3>6. frames[1] = 0 => received' # <<>>
        BY <1>10, <3>3
      <3>7. QED
        BY <1>4, <1>6, <2>2, <3>1, <3>2, <3>4, <3>5, <3>6 DEF Holding, ReaderType, Offset
    <2>3. CASE ~IsError(s.last) /\ (r.state = "size" => r.bytesRead + s.got < SizeLen)
               /\ NextReader(r, s) = [r EXCEPT !.bytesRead = r.bytesRead + s.got]
      <3>1. r.bytesRead + s.got \in Nat /\ r.bytesRead + s.got <= r.toRead
        BY <1>5, <1>6
      <3>2. ReaderType(reader') /\ reader'.msg = r.msg /\ reader'.state = r.state
            /\ reader'.toRead = r.toRead /\ reader'.bytesRead = r.bytesRead + s.got
        BY <1>2, <1>6, <2>3, <3>1 DEF ReaderType
      <3>3. Delivers(r, s) <=> r.bytesRead + s.got = r.toRead
        BY <1>2, <2>3, <3>2 DEF Delivers
      <3>4. consumed' = r.bytesRead + s.got + Offset(r) \/ (eof' /\ consumed' = arrived')
        BY <1>2, <1>4, <1>5, <1>6, <1>13, SMTT(30) DEF Offset
      <3>5. r.state = "size" => r.toRead = SizeLen /\ received = <<>> /\ ~Delivers(r, s)
        BY <1>3, <1>6, <2>3, <3>3 DEF Holding
      <3>6. r.state = "size" => received' = <<>>
        BY <1>10, <3>5
      <3>7. r.bytesRead + s.got = r.toRead => received' # <<>>
        BY <1>10, <3>3
      <3>8. received' # <<>> => r.state = "body" /\ r.bytesRead + s.got = r.toRead
                                /\ received'[1] = r.msg
        <4>1. CASE received = <<>>
          BY <1>6, <1>10, <3>3, <3>6, <4>1 DEF ReaderType
        <4>2. CASE received # <<>>
          BY <1>3, <1>6, <1>10, <1>12, <4>2 DEF Holding
        <4>3. QED
          BY <4>1, <4>2
      <3>9. \A i \in 1 .. r.bytesRead + s.got : mem'[r.msg][i] = <<1, i + Offset(r)>>
        BY <1>5, <1>7
      <3>10. r.state = "body" => frames' # <<>> /\ r.toRead = frames'[1]
        BY <1>3, <1>4 DEF Holding
      <3>11. Offset(reader') = Offset(r)
        BY <3>2 DEF Offset
      <3> HIDE DEF Offset
      <3>12. QED
        BY <1>6, <2>3, <3>1, <3>2, <3>4, <3>5, <3>6, <3>7, <3>8, <3>9, <3>10, <3>11 DEF Holding
    <2>4. QED
      BY <1>11, <2>1, <2>2, <2>3
  <1>15. reader'.msg = r.msg
    BY <1>2, <1>6, <1>11 DEF ReaderType
  <1>16. ReaderShape'
    <2>1. received' = <<>> => slot' = reader'.msg
      BY <1>10, <1>15
    <2>2. QED
      BY <1>14, <2>1 DEF ReaderShape
  <1>17. UserShape'
    <2>1. status' = -1 => eof' \/ received' # <<>>
      BY <1>2, <1>4, <1>10, <1>11
    <2>2. QED
      BY <1>2, <1>7, <1>10, <2>1 DEF UserShape, DeliveredOnce, HealthyUntilDelivered, BufferLen
  <1>18. QED
    BY <1>8, <1>16, <1>17 DEF ReaderInv

LEMMA InitShape == Init => ReaderInv
  <1> SUFFICES ASSUME Init PROVE ReaderInv
    OBVIOUS
  <1>1. StreamShape
    BY DEF Init, StreamShape
  <1>2. ReaderShape
    BY DEF Init, ReaderShape
  <1>3. IsInjective(received) /\ slot \notin ToSet(received)
    BY DEF Init, IsInjective, ToSet
  <1>4. UserShape
    BY <1>3 DEF Init, UserShape, DeliveredOnce, HealthyUntilDelivered
  <1>5. QED
    BY <1>1, <1>2, <1>4 DEF ReaderInv

(* Another frame of the peer leaves the first as it is. *)
LEMMA PeerSendsKeeps == ReaderInv /\ PeerSends => ReaderInv'
  <1> SUFFICES ASSUME ReaderInv, PeerSends PROVE ReaderInv'
    OBVIOUS
  <1>1. PICK n \in BodySizes : /\ frames' = Append(frames, n)
                              /\ stream' = stream \o FrameUnits(Len(frames) + 1, n)
    BY DEF PeerSends
  <1>2. n \in Nat /\ SizeLen \in Nat /\ ExtraLen \in Nat
    <2>1. n \in 0 .. MaxBody
      BY ReaderAssumption
    <2>2. QED
      BY <2>1, ReaderAssumption
  <1>3. /\ frames \in Seq(BodySizes) /\ stream \in Seq(Units)
        /\ Len(frames) \in Nat /\ Len(stream) \in Nat
    BY DEF ReaderInv, StreamShape
  <1> DEFINE new == FrameUnits(Len(frames) + 1, n)
  <1>4. /\ new \in Seq(Units) /\ Len(new) = SizeLen + n + ExtraLen
        /\ \A i \in 1 .. SizeLen + n + ExtraLen : new[i] = <<Len(frames) + 1, i>>
    BY <1>2, <1>3 DEF FrameUnits, Units
  <1> HIDE DEF new
  <1>5. /\ stream' \in Seq(Units) /\ Len(stream') = Len(stream) + Len(new)
        /\ \A i \in 1 .. Len(stream) + Len(new) :
             stream'[i] = IF i <= Len(stream) THEN stream[i] ELSE new[i - Len(stream)]
    <2>1. stream' = stream \o new
      BY <1>1 DEF new
    <2>2. QED
      BY <1>3, <1>4, <2>1, ConcatProperties
  <1>6. /\ frames' \in Seq(BodySizes) /\ frames' # <<>>
        /\ frames # <<>> => frames'[1] = frames[1]
        /\ frames = <<>> => frames'[1] = n
    BY <1>1, <1>3
  <1>7. /\ Len(stream') >= SizeLen + frames'[1]
        /\ \A i \in 1 .. SizeLen + frames'[1] : stream'[i] = <<1, i>>
    <2>1. CASE frames = <<>>
      <3>1. Len(frames) = 0 /\ Len(stream) = 0
        BY <2>1 DEF ReaderInv, StreamShape
      <3>2. \A i \in 1 .. SizeLen + n : stream'[i] = new[i] /\ new[i] = <<1, i>>
        BY <1>2, <1>4, <1>5, <3>1
      <3>3. QED
        BY <1>2, <1>4, <1>5, <1>6, <2>1, <3>1, <3>2
    <2>2. CASE frames # <<>>
      <3>1. /\ Len(stream) >= SizeLen + frames[1] /\ frames[1] \in BodySizes
            /\ \A i \in 1 .. SizeLen + frames[1] : stream[i] = <<1, i>>
        BY <2>2 DEF ReaderInv, StreamShape
      <3>2. frames[1] \in 0 .. MaxBody /\ MaxBody \in Nat
        BY <3>1, ReaderAssumption
      <3>3. Len(new) \in Nat
        BY <1>2, <1>4
      <3>4. \A i \in 1 .. SizeLen + frames[1] : stream'[i] = stream[i]
        BY <1>2, <1>3, <1>5, <3>1, <3>2, <3>3, SMTT(30)
      <3>5. \A i \in 1 .. SizeLen + frames[1] : stream'[i] = <<1, i>>
        BY <3>1, <3>4
      <3>6. Len(stream') >= SizeLen + frames[1]
        BY <1>2, <1>3, <1>5, <3>1, <3>2, <3>3
      <3>7. QED
        BY <1>6, <2>2, <3>5, <3>6
    <2>3. QED
      BY <2>1, <2>2
  <1>8. StreamShape'
    <2>1. UNCHANGED arrived /\ UNCHANGED consumed /\ arrived \in 0 .. Len(stream)
          /\ consumed \in 0 .. arrived
      BY DEF PeerSends, ReaderInv, StreamShape
    <2>2. Len(stream) <= Len(stream') /\ Len(stream') \in Nat
      BY <1>2, <1>3, <1>4, <1>5
    <2>3. arrived' \in 0 .. Len(stream') /\ consumed' \in 0 .. arrived'
      BY <1>3, <2>1, <2>2
    <2>4. QED
      BY <1>5, <1>6, <1>7, <2>3 DEF StreamShape
  <1>9. ReaderShape'
    <2>1. CASE reader = [msg |-> Null, bytesRead |-> 0, toRead |-> 0, state |-> "size"]
               /\ consumed = 0 /\ received = <<>>
      BY <2>1 DEF PeerSends, ReaderShape
    <2>2. CASE Holding(reader) /\ (received = <<>> => slot = reader.msg)
      <3>1. UNCHANGED reader /\ UNCHANGED received /\ UNCHANGED slot /\ UNCHANGED mem
            /\ UNCHANGED consumed /\ UNCHANGED arrived /\ UNCHANGED eof
        BY DEF PeerSends
      <3>2. Holding(reader)'
        BY <1>6, <2>2, <3>1 DEF Holding, ReaderType, Offset
      <3>3. QED
        BY <2>2, <3>1, <3>2 DEF ReaderShape
    <2>3. QED
      BY <2>1, <2>2 DEF ReaderInv, ReaderShape
  <1>10. UserShape'
    BY DEF PeerSends, ReaderInv, UserShape, DeliveredOnce, HealthyUntilDelivered, BufferLen
  <1>11. QED
    BY <1>8, <1>9, <1>10 DEF ReaderInv

LEMMA StepKeeps == ReaderInv /\ [Next]_vars => ReaderInv'
  <1> SUFFICES ASSUME ReaderInv, [Next]_vars PROVE ReaderInv'
    OBVIOUS
  <1> USE DEF ReaderInv
  <1>1. CASE PeerSends
    BY <1>1, PeerSendsKeeps
  <1>2. CASE Arrive
    <2>1. /\ ~eof /\ arrived' \in arrived + 1 .. Len(stream)
          /\ UNCHANGED frames /\ UNCHANGED stream /\ UNCHANGED eof /\ UNCHANGED consumed
          /\ UNCHANGED reader /\ UNCHANGED mem /\ UNCHANGED slot /\ UNCHANGED received
          /\ UNCHANGED status
      BY <1>2 DEF Arrive
    <2>2. StreamShape'
      BY <2>1 DEF StreamShape
    <2>3. ReaderShape'
      BY <2>1 DEF ReaderShape, Holding, ReaderType, Offset
    <2>4. UserShape'
      BY <2>1 DEF UserShape, DeliveredOnce, HealthyUntilDelivered, BufferLen
    <2>5. QED
      BY <2>2, <2>3, <2>4
  <1>3. CASE PeerEnds
    <2>1. /\ eof' = TRUE /\ UNCHANGED arrived
          /\ UNCHANGED frames /\ UNCHANGED stream /\ UNCHANGED consumed
          /\ UNCHANGED reader /\ UNCHANGED mem /\ UNCHANGED slot /\ UNCHANGED received
          /\ UNCHANGED status
      BY <1>3 DEF PeerEnds
    <2>2. StreamShape'
      BY <2>1 DEF StreamShape
    <2>3. ReaderShape'
      BY <2>1 DEF ReaderShape, Holding, ReaderType, Offset
    <2>4. UserShape'
      BY <2>1 DEF UserShape, DeliveredOnce, HealthyUntilDelivered, BufferLen
    <2>5. QED
      BY <2>2, <2>3, <2>4
  <1>4. CASE EnterLoop \/ UNCHANGED vars
    <2>1. /\ UNCHANGED eof /\ UNCHANGED arrived
          /\ UNCHANGED frames /\ UNCHANGED stream /\ UNCHANGED consumed
          /\ UNCHANGED reader /\ UNCHANGED mem /\ UNCHANGED slot /\ UNCHANGED received
          /\ UNCHANGED status
      BY <1>4 DEF EnterLoop, vars, peer
    <2>2. StreamShape'
      BY <2>1 DEF StreamShape
    <2>3. ReaderShape'
      BY <2>1 DEF ReaderShape, Holding, ReaderType, Offset
    <2>4. UserShape'
      BY <2>1 DEF UserShape, DeliveredOnce, HealthyUntilDelivered, BufferLen
    <2>5. QED
      BY <2>2, <2>3, <2>4
  <1>5. CASE Read
    BY <1>5, ReadKeeps
  <1>6. QED
    BY <1>1, <1>2, <1>3, <1>4, <1>5 DEF Next

-----------------------------------------------------------------------------
(* recv() hands out no unit behind those the first size word counts.       *)
ReadBound == reader.msg # Null => consumed <= Offset(reader) + reader.toRead

LEMMA BoundKeeps == ReaderInv /\ ReadBound /\ [Next]_vars => ReadBound'
  <1> SUFFICES ASSUME ReaderInv, ReadBound, [Next]_vars PROVE ReadBound'
    OBVIOUS
  <1>1. CASE Read
    <2>1. PICK m \in Offered : \E s \in RecvLoops(Begun(m)) :
            consumed' = consumed + s.got /\ reader' = NextReader(Begun(m), s)
      BY <1>1, Zenon DEF Read, NextReader
    <2> DEFINE r == Begun(m)
    <2>2. PICK s \in RecvLoops(r) : consumed' = consumed + s.got /\ reader' = NextReader(r, s)
      BY <2>1
    <2>3. Holding(r)
      BY OfferedShape
    <2>4. consumed <= Offset(r) + r.toRead
      <3>1. CASE reader.msg # Null
        BY <3>1 DEF Begun, ReadBound
      <3>2. CASE reader.msg = Null
        BY <2>3, <3>2, ReaderAssumption
        DEF ReaderInv, ReaderShape, Holding, ReaderType, Offset, StreamShape
      <3>3. QED
        BY <3>1, <3>2
    <2> HIDE DEF r
    <2>5. /\ r.toRead \in Nat /\ r.bytesRead \in Nat /\ Offset(r) \in Nat
          /\ consumed \in Nat /\ SizeLen \in Nat
          /\ consumed = r.bytesRead + Offset(r) \/ (eof /\ consumed = arrived)
          /\ r.state = "size" => r.toRead = SizeLen /\ Offset(r) = 0
      BY <2>3, ReaderAssumption DEF Holding, ReaderType, Offset, ReaderInv, StreamShape
    <2>6. s.got \in Nat /\ s.got <= r.toRead - r.bytesRead /\ s.got <= arrived - consumed
      BY <2>3, StoredShape
    <2>7. consumed + s.got <= Offset(r) + r.toRead
      BY <2>4, <2>5, <2>6
    <2>8. CASE r.state = "size" /\ frames # <<>>
               /\ NextReader(r, s) = [r EXCEPT !.state = "body", !.toRead = frames[1], !.bytesRead = 0]
      <3>1. reader'.toRead = frames[1] /\ reader'.state = "body" /\ frames[1] \in Nat
        BY <2>2, <2>3, <2>8, ReaderAssumption DEF Holding, ReaderType, ReaderInv, StreamShape
      <3>2. consumed' <= SizeLen /\ consumed' \in Nat
        BY <2>2, <2>5, <2>6, <2>7, <2>8
      <3>3. Offset(reader)' = SizeLen
        BY <3>1 DEF Offset
      <3>4. consumed' <= Offset(reader)' + reader'.toRead
        BY <2>5, <3>1, <3>2, <3>3
      <3>5. QED
        BY <3>4 DEF ReadBound
    <2>9. CASE NextReader(r, s) = r \/ NextReader(r, s) = [r EXCEPT !.bytesRead = r.bytesRead + s.got]
      <3>1. reader'.toRead = r.toRead /\ reader'.state = r.state
        BY <2>2, <2>3, <2>9 DEF Holding, ReaderType
      <3>2. QED
        BY <2>2, <2>7, <3>1 DEF ReadBound, Offset
    <2>10. QED
      BY <2>3, <2>8, <2>9, NextReaderShape
  <1>2. CASE UNCHANGED consumed /\ UNCHANGED reader
    BY <1>2 DEF ReadBound, Offset
  <1>3. QED
    BY <1>1, <1>2 DEF Next, PeerSends, Arrive, PeerEnds, EnterLoop, vars

BlankBuffer == [i \in 1 .. BufferLen |-> Blank]

(* What the buffer holds has been handed out, and nothing was ever read    *)
(* into the other messages: the reader begins one and stays with it.       *)
Sealed ==
  /\ reader.msg # Null => Offset(reader) + reader.bytesRead <= consumed
  /\ \A m \in Messages \ {reader.msg} : mem[m] = BlankBuffer

LEMMA SealedKeeps == ReaderInv /\ Sealed /\ [Next]_vars => Sealed'
  <1> SUFFICES ASSUME ReaderInv, Sealed, [Next]_vars PROVE Sealed'
    OBVIOUS
  <1>1. CASE Read
    <2>1. PICK m \in Offered : \E s \in RecvLoops(Begun(m)) :
            /\ mem' = [mem EXCEPT ![Begun(m).msg] = Stored(mem[Begun(m).msg], Begun(m), s)]
            /\ consumed' = consumed + s.got /\ reader' = NextReader(Begun(m), s)
      BY <1>1, Zenon DEF Read, NextReader
    <2> DEFINE r == Begun(m)
    <2>2. PICK s \in RecvLoops(r) :
            /\ mem' = [mem EXCEPT ![r.msg] = Stored(mem[r.msg], r, s)]
            /\ consumed' = consumed + s.got /\ reader' = NextReader(r, s)
      BY <2>1
    <2>3. Holding(r)
      BY OfferedShape
    <2>4. /\ Offset(r) + r.bytesRead <= consumed
          /\ \A b \in Messages \ {r.msg} : mem[b] = BlankBuffer
      <3>1. CASE reader.msg # Null
        BY <3>1 DEF Begun, Sealed
      <3>2. CASE reader.msg = Null
        <4>1. r = [msg |-> m, bytesRead |-> 0, toRead |-> SizeLen, state |-> "size"]
          BY <3>2 DEF Begun
        <4>2. Offset(r) = 0 /\ r.bytesRead = 0 /\ consumed \in Nat
          BY <4>1 DEF Offset, ReaderInv, StreamShape
        <4>3. \A b \in Messages : b # reader.msg
          BY <3>2, ReaderAssumption
        <4>4. \A b \in Messages \ {r.msg} : mem[b] = BlankBuffer
          BY <4>3 DEF Sealed
        <4>5. QED
          BY <4>2, <4>4
      <3>3. QED
        BY <3>1, <3>2
    <2> HIDE DEF r
    <2>5. /\ r.toRead \in Nat /\ r.bytesRead \in Nat /\ Offset(r) \in Nat /\ ReaderType(r)
          /\ consumed \in Nat /\ SizeLen \in Nat
          /\ r.state = "size" => Offset(r) = 0
      BY <2>3, ReaderAssumption DEF Holding, ReaderType, Offset, ReaderInv, StreamShape
    <2>6. s.got \in Nat
      BY <2>3, <2>5, StoredShape
    <2>7. /\ Offset(r) + r.bytesRead + s.got <= consumed'
          /\ Offset(r) + (r.bytesRead + s.got) <= consumed'
          /\ Offset(r) + r.bytesRead <= consumed'
      <3>1. consumed' = consumed + s.got
        BY <2>2
      <3>2. QED
        BY <2>4, <2>5, <2>6, <3>1
    <2>8. reader'.msg = r.msg /\ Offset(reader') + reader'.bytesRead <= consumed'
      <3>1. CASE NextReader(r, s) = r
        BY <2>2, <2>5, <2>6, <2>7, <3>1
      <3>2. CASE /\ r.state = "size" /\ r.bytesRead + s.got = SizeLen
                 /\ NextReader(r, s) = [r EXCEPT !.state = "body", !.toRead = frames[1],
                                                 !.bytesRead = 0]
        <4>1. reader'.msg = r.msg /\ reader'.state = "body" /\ reader'.bytesRead = 0
          BY <2>2, <2>5, <3>2 DEF ReaderType
        <4>2. Offset(reader') = SizeLen
          BY <4>1 DEF Offset
        <4>3. QED
          BY <2>5, <2>6, <2>7, <3>2, <4>1, <4>2
      <3>3. CASE NextReader(r, s) = [r EXCEPT !.bytesRead = r.bytesRead + s.got]
        <4>1. /\ reader'.msg = r.msg /\ reader'.state = r.state
              /\ reader'.bytesRead = r.bytesRead + s.got
          BY <2>2, <2>5, <3>3 DEF ReaderType
        <4>2. Offset(reader') = Offset(r)
          BY <4>1 DEF Offset
        <4>3. QED
          BY <2>7, <4>1, <4>2
      <3>4. QED
        BY <2>3, <3>1, <3>2, <3>3, NextReaderShape
    <2>9. \A b \in Messages \ {r.msg} : mem'[b] = mem[b]
      BY <2>2 DEF ReaderInv, UserShape
    <2>10. QED
      BY <2>4, <2>8, <2>9 DEF Sealed, Offset, BlankBuffer, BufferLen
  <1>2. CASE UNCHANGED consumed /\ UNCHANGED reader /\ UNCHANGED mem
    BY <1>2 DEF Sealed, Offset, BlankBuffer, BufferLen
  <1>3. QED
    BY <1>1, <1>2 DEF Next, PeerSends, Arrive, PeerEnds, EnterLoop, vars

(* One step delivers one message at most. *)
LEMMA ReceivedGrows ==
  ASSUME ReaderInv, [Next]_vars
  PROVE  received' = received \/ \E m \in Messages : received' = Append(received, m)
  <1>1. CASE Read
    <2>1. PICK m \in Offered : \E d \in BOOLEAN :
            received' = IF d /\ m # Null THEN Append(received, m) ELSE received
      BY <1>1, Zenon DEF Read
    <2>2. m \in Messages \cup {Null}
      BY OfferedShape
    <2>3. QED
      BY <2>1, <2>2
  <1>2. CASE UNCHANGED received
    BY <1>2
  <1>3. QED
    BY <1>1, <1>2 DEF Next, PeerSends, Arrive, PeerEnds, EnterLoop, vars

LEMMA AlwaysReaderInv == Spec => [](ReaderInv /\ ReadBound /\ Sealed)
  <1>1. Init => ReadBound /\ Sealed
    BY DEF Init, ReadBound, Sealed, BlankBuffer
  <1>2. QED
    BY <1>1, InitShape, StepKeeps, BoundKeeps, SealedKeeps, PTL DEF Spec

-----------------------------------------------------------------------------
(* The counts stay within the buffer, no unit is lost or read twice while  *)
(* the connection lasts, and until a message has been delivered an error   *)
(* is the end of the connection.                                           *)
THEOREM CountsCorrect == Spec => [](TypeOK /\ NoUnitLost /\ HealthyUntilDelivered)
<1>1. ReaderInv => TypeOK
  <2> SUFFICES ASSUME ReaderInv PROVE TypeOK
    OBVIOUS
  <2>1. SizeLen \in Nat /\ MaxBody \in Nat
        /\ (frames # <<>> => frames[1] \in 0 .. MaxBody)
    <3>1. frames # <<>> => frames[1] \in BodySizes
      BY DEF ReaderInv, StreamShape
    <3>2. QED
      BY <3>1, ReaderAssumption
  <2>2. /\ reader.msg \in Messages \cup {Null} /\ reader.state \in {"size", "body"}
        /\ reader.toRead \in 0 .. BufferLen /\ reader.bytesRead \in 0 .. reader.toRead
    <3>1. CASE reader = [msg |-> Null, bytesRead |-> 0, toRead |-> 0, state |-> "size"]
      BY <2>1, <3>1 DEF BufferLen
    <3>2. CASE Holding(reader)
      BY <2>1, <3>2 DEF Holding, ReaderType, BufferLen
    <3>3. QED
      BY <3>1, <3>2 DEF ReaderInv, ReaderShape
  <2>3. QED
    BY <2>2 DEF ReaderInv, StreamShape, UserShape, TypeOK
<1>2. ReaderInv => NoUnitLost
  <2> SUFFICES ASSUME ReaderInv, ~eof
               PROVE  consumed = reader.bytesRead + (IF reader.state = "body" THEN SizeLen ELSE 0)
    BY DEF NoUnitLost
  <2>1. CASE reader = [msg |-> Null, bytesRead |-> 0, toRead |-> 0, state |-> "size"]
             /\ consumed = 0
    BY <2>1
  <2>2. CASE Holding(reader)
    BY <2>2 DEF Holding, Offset
  <2>3. QED
    BY <2>1, <2>2 DEF ReaderInv, ReaderShape
<1>3. ReaderInv => HealthyUntilDelivered
  BY DEF ReaderInv, UserShape
<1>4. QED
  BY <1>1, <1>2, <1>3, InitShape, StepKeeps, PTL DEF Spec

(* The first message delivered holds the body of the first frame and stays *)
(* as it is, and no message is delivered or offered again.                 *)
THEOREM DeliveryCorrect == Spec => [](FirstDeliveredWhole /\ DeliveredOnce)
<1>1. ReaderInv => FirstDeliveredWhole
  <2> SUFFICES ASSUME ReaderInv, received # <<>>
               PROVE  frames # <<>> /\ HoldsBody(received[1], 1)
    BY DEF FirstDeliveredWhole
  <2>1. Holding(reader)
    BY DEF ReaderInv, ReaderShape
  <2>2. /\ frames # <<>> /\ received[1] = reader.msg /\ reader.bytesRead = frames[1]
        /\ \A i \in 1 .. reader.bytesRead : mem[reader.msg][i] = <<1, i + SizeLen>>
    BY <2>1 DEF Holding, Offset
  <2>3. \A i \in 1 .. frames[1] : i + SizeLen = SizeLen + i
    BY ReaderAssumption
  <2>4. QED
    BY <2>2, <2>3 DEF HoldsBody
<1>2. ReaderInv => DeliveredOnce
  BY DEF ReaderInv, UserShape
<1>3. QED
  BY <1>1, <1>2, InitShape, StepKeeps, PTL DEF Spec
=============================================================================
