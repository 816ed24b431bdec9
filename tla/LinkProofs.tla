----------------------------- MODULE LinkProofs -----------------------------
(***************************************************************************)
(* What holds end to end, for every number of messages, length of a body   *)
(* and of a word, and size of the send buffer.  Each end behaves as its    *)
(* own module says, so the invariants proved there hold of the link; what  *)
(* is left to prove is how the two ends fit together.                      *)
(***************************************************************************)
EXTENDS Link, SequenceTheorems, TLAPS

WP == INSTANCE MessageWriterProofs WITH
        BufferLen <- SendLen, MaxInits <- 1, pc <- spc, status <- sstatus, intrs <- sintrs

RP == INSTANCE MessageReaderProofs WITH
        Messages <- Buffers, BodySizes <- {BodyLen}, MaxBody <- BodyLen, ExtraLen <- SizeLen,
        MaxFrames <- 1, frames <- Frames, stream <- Stream, pc <- rpc, status <- rstatus,
        intrs <- rintrs

LEMMA Lengths ==
  /\ PayloadLen \in Nat \ {0} /\ PayloadLen = SizeLen + BodyLen + SizeLen
  /\ SizeLen \in Nat \ {0} /\ BodyLen \in Nat /\ SendLen \in Nat \ {0}
  BY LinkAssumption DEF PayloadLen, HeaderLen

LEMMA SenderAssumptions == WP!WriterAssumption /\ WP!NodesDistinct
  BY LinkAssumption, Lengths DEF WP!WriterAssumption, WP!NodesDistinct

LEMMA ReceiverAssumptions == RP!ReaderAssumption
  BY LinkAssumption DEF RP!ReaderAssumption

-----------------------------------------------------------------------------
(* The two instances of MessageWriter and MessageReader, the link's and    *)
(* the proofs', are the same.                                              *)
LEMMA SameQueue ==
  /\ W!EmptyQueue = WP!EmptyQueue
  /\ \A x, m : W!Push(x, m) = WP!Push(x, m)
  /\ \A x : W!Peek(x) = WP!Peek(x) /\ W!Pop(x) = WP!Pop(x)
  BY DEF W!EmptyQueue, WP!EmptyQueue, W!Sized, WP!Sized, W!Nodes, WP!Nodes,
         W!Push, WP!Push, W!PushBack, WP!PushBack, W!Peek, WP!Peek,
         W!Pop, WP!Pop, W!PopFront, WP!PopFront

LEMMA SameLoop ==
  /\ W!Loaded = WP!Loaded
  /\ \A w : W!SendLoops(w) = WP!SendLoops(w)
  /\ \A s : W!WriteStatus(s) = WP!WriteStatus(s) /\ W!Finished(s) = WP!Finished(s)
  /\ \A w, s : W!Advanced(w, s) = WP!Advanced(w, s)
  /\ \A w : W!Popped(w) = WP!Popped(w)
  <1>1. \A w : W!SendLoops(w) = WP!SendLoops(w)
    BY DEF W!SendLoops, WP!SendLoops, W!Remaining, WP!Remaining
  <1>2. \A s : W!Finished(s) = WP!Finished(s)
    BY DEF W!Finished, WP!Finished
  <1>3. \A s : W!WriteStatus(s) = WP!WriteStatus(s)
    BY <1>2, SameQueue DEF W!WriteStatus, WP!WriteStatus, W!IsError, WP!IsError
  <1>4. W!Loaded = WP!Loaded /\ \A w : W!Popped(w) = WP!Popped(w)
    BY SameQueue DEF W!Loaded, WP!Loaded, W!Popped, WP!Popped
  <1>5. \A w, s : W!Advanced(w, s) = WP!Advanced(w, s)
    BY DEF W!Advanced, WP!Advanced
  <1>6. QED
    BY <1>1, <1>2, <1>3, <1>4, <1>5

LEMMA SameWriter ==
  /\ W!Init => WP!Init
  /\ \A m \in Messages : W!SendMsg(m) => WP!SendMsg(m)
  /\ W!EnterLoop => WP!EnterLoop
  /\ W!Write => WP!Write
  /\ W!PeerReads => WP!PeerReads
  /\ W!PeerResets => WP!PeerResets
  <1>1. W!Init => WP!Init
    BY SameQueue DEF W!Init, WP!Init, W!FreshWriter, WP!FreshWriter
  <1>2. W!PeerReads => WP!PeerReads
    BY DEF W!PeerReads, WP!PeerReads, W!conn, WP!conn, W!history, WP!history
  <1>3. W!PeerResets => WP!PeerResets
    BY DEF W!PeerResets, WP!PeerResets, W!conn, WP!conn, W!history, WP!history
  <1>4. W!EnterLoop => WP!EnterLoop
    BY DEF W!EnterLoop, WP!EnterLoop, W!conn, WP!conn, W!history, WP!history
  <1>5. ASSUME NEW m \in Messages, W!SendMsg(m) PROVE WP!SendMsg(m)
    BY <1>5, SameQueue DEF W!SendMsg, WP!SendMsg, W!ToSet, WP!ToSet
  <1>6. W!Write => WP!Write
    BY SameQueue, SameLoop, Zenon DEF W!Write, WP!Write
  <1>7. QED
    BY <1>1, <1>2, <1>3, <1>4, <1>5, <1>6

LEMMA SameRead ==
  /\ R!Offered = RP!Offered
  /\ \A m : R!Begun(m) = RP!Begun(m)
  /\ \A r : R!RecvLoops(r) = RP!RecvLoops(r)
  /\ \A b, r, s : R!Stored(b, r, s) = RP!Stored(b, r, s)
  /\ \A r, s : R!Advanced(r, s) = RP!Advanced(r, s)
  /\ \A r, b : R!Sized(r, b) = RP!Sized(r, b)
  /\ \A m, d : R!LeftAfter(m, d) = RP!LeftAfter(m, d)
  /\ \A t : R!GoesOn(t) = RP!GoesOn(t) /\ R!IsError(t) = RP!IsError(t)
  <1>1. R!Offered = RP!Offered
    BY DEF R!Offered, RP!Offered, R!ToSet, RP!ToSet
  <1>2. \A m : R!Begun(m) = RP!Begun(m)
    BY DEF R!Begun, RP!Begun
  <1>3. \A r : R!RecvLoops(r) = RP!RecvLoops(r)
    BY DEF R!RecvLoops, RP!RecvLoops, R!Remaining, RP!Remaining
  <1>4. \A b, r, s : R!Stored(b, r, s) = RP!Stored(b, r, s)
    BY DEF R!Stored, RP!Stored
  <1>5. \A t : R!GoesOn(t) = RP!GoesOn(t) /\ R!IsError(t) = RP!IsError(t)
    BY DEF R!GoesOn, RP!GoesOn, R!IsError, RP!IsError
  <1>6. \A r, s : R!Advanced(r, s) = RP!Advanced(r, s)
    BY <1>5 DEF R!Advanced, RP!Advanced
  <1>7. \A b : R!SizeWord(b) = RP!SizeWord(b)
    BY DEF R!SizeWord, RP!SizeWord
  <1>8. \A r, b : R!Sized(r, b) = RP!Sized(r, b)
    BY <1>7 DEF R!Sized, RP!Sized
  <1>9. \A m, d : R!LeftAfter(m, d) = RP!LeftAfter(m, d)
    BY DEF R!LeftAfter, RP!LeftAfter
  <1>10. QED
    BY <1>1, <1>2, <1>3, <1>4, <1>5, <1>6, <1>8, <1>9

LEMMA SameReader ==
  /\ R!Init => RP!Init
  /\ [R!Next]_(R!vars) => [RP!Next]_(RP!vars)
  <1>1. R!Init => RP!Init
    BY DEF R!Init, RP!Init, R!BufferLen, RP!BufferLen
  <1>2. R!PeerSends => RP!PeerSends
    BY DEF R!PeerSends, RP!PeerSends, R!FrameUnits, RP!FrameUnits
  <1>3. R!Arrive => RP!Arrive
    BY DEF R!Arrive, RP!Arrive
  <1>4. R!PeerEnds => RP!PeerEnds
    BY DEF R!PeerEnds, RP!PeerEnds
  <1>5. R!EnterLoop => RP!EnterLoop
    BY DEF R!EnterLoop, RP!EnterLoop, R!peer, RP!peer
  <1>6. R!Read => RP!Read
    <2> SUFFICES ASSUME R!Read PROVE RP!Read
      OBVIOUS
    <2>1. PICK m \in R!Offered : \E s \in R!RecvLoops(R!Begun(m)) :
            LET r         == R!Begun(m)
                buffer    == R!Stored(mem[r.msg], r, s)
                next      == IF R!IsError(s.last) THEN r ELSE R!Sized(R!Advanced(r, s), buffer)
                delivered == ~R!IsError(s.last) /\ next.bytesRead = next.toRead
            IN  /\ mem' = [mem EXCEPT ![r.msg] = buffer]
                /\ consumed' = consumed + s.got
                /\ rintrs' = rintrs + (IF s.last = "intr" THEN 1 ELSE 0)
                /\ reader' = next
                /\ slot' = R!LeftAfter(m, delivered)
                /\ received' = IF delivered /\ m # Null THEN Append(received, m) ELSE received
                /\ rstatus' = IF R!IsError(s.last) THEN -1 ELSE IF s.last = "zero" THEN 0 ELSE 1
      BY DEF R!Read
    <2>2. PICK s \in R!RecvLoops(R!Begun(m)) :
            LET r         == R!Begun(m)
                buffer    == R!Stored(mem[r.msg], r, s)
                next      == IF R!IsError(s.last) THEN r ELSE R!Sized(R!Advanced(r, s), buffer)
                delivered == ~R!IsError(s.last) /\ next.bytesRead = next.toRead
            IN  /\ mem' = [mem EXCEPT ![r.msg] = buffer]
                /\ consumed' = consumed + s.got
                /\ rintrs' = rintrs + (IF s.last = "intr" THEN 1 ELSE 0)
                /\ reader' = next
                /\ slot' = R!LeftAfter(m, delivered)
                /\ received' = IF delivered /\ m # Null THEN Append(received, m) ELSE received
                /\ rstatus' = IF R!IsError(s.last) THEN -1 ELSE IF s.last = "zero" THEN 0 ELSE 1
      BY <2>1
    <2> DEFINE r == R!Begun(m)
               buffer == R!Stored(mem[r.msg], r, s)
               next == IF R!IsError(s.last) THEN r ELSE R!Sized(R!Advanced(r, s), buffer)
    <2>3. r = RP!Begun(m) /\ buffer = RP!Stored(mem[r.msg], r, s)
      BY SameRead
    <2>4. next = IF RP!IsError(s.last) THEN r ELSE RP!Sized(RP!Advanced(r, s), buffer)
      BY SameRead
    <2>5. m \in RP!Offered /\ s \in RP!RecvLoops(r)
      BY SameRead
    <2>6. /\ rpc = "loop" /\ rpc' = IF RP!GoesOn(rstatus') THEN "loop" ELSE "idle"
          /\ UNCHANGED RP!peer
      BY SameRead DEF R!Read, R!peer, RP!peer
    <2>7. LET delivered == ~RP!IsError(s.last) /\ next.bytesRead = next.toRead
          IN  /\ mem' = [mem EXCEPT ![r.msg] = buffer]
              /\ consumed' = consumed + s.got
              /\ rintrs' = rintrs + (IF s.last = "intr" THEN 1 ELSE 0)
              /\ reader' = next
              /\ slot' = RP!LeftAfter(m, delivered)
              /\ received' = IF delivered /\ m # Null THEN Append(received, m) ELSE received
              /\ rstatus' = IF RP!IsError(s.last) THEN -1 ELSE IF s.last = "zero" THEN 0 ELSE 1
      BY <2>2, SameRead, Zenon
    <2> HIDE DEF r, buffer, next
    <2>8. QED
      BY <2>3, <2>4, <2>5, <2>6, <2>7, Zenon DEF RP!Read
  <1>7. UNCHANGED R!vars => UNCHANGED RP!vars
    BY DEF R!vars, RP!vars, R!peer, RP!peer
  <1>8. QED
    BY <1>2, <1>3, <1>4, <1>5, <1>6, <1>7, <1>1 DEF R!Next, RP!Next

-----------------------------------------------------------------------------
(* The sender's end is a writer on its first connection.                   *)
LEMMA SenderStep == [Next]_vars => [WP!Next]_(WP!vars) /\ inits' = inits
  <1> SUFFICES ASSUME [Next]_vars PROVE [WP!Next]_(WP!vars) /\ inits' = inits
    OBVIOUS
  <1>1. CASE UNCHANGED sender
    BY <1>1 DEF sender, WP!vars, WP!conn, WP!history
  <1>2. ASSUME NEW m \in Messages, SendMsg(m) PROVE WP!Next /\ inits' = inits
    <2>1. WP!SendMsg(m) /\ inits' = inits
      BY <1>2, SameWriter DEF SendMsg, W!SendMsg
    <2>2. QED
      BY <2>1 DEF WP!Next
  <1>3. CASE SenderEnters
    BY <1>3, SameWriter DEF SenderEnters, WP!Next, W!EnterLoop
  <1>4. CASE Write
    BY <1>4, SameWriter DEF Write, WP!Next, W!Write
  <1>5. CASE SenderLoses
    BY <1>5, SameWriter DEF SenderLoses, WP!Next, W!PeerResets
  <1>6. CASE Transfer
    BY <1>6, SameWriter DEF Transfer, WP!Next, W!PeerReads
  <1>7. CASE ReceiverEnters \/ Read \/ ReceiverLoses \/ UNCHANGED vars
    BY <1>1, <1>7 DEF ReceiverEnters, Read, ReceiverLoses, vars
  <1>8. QED
    BY <1>2, <1>3, <1>4, <1>5, <1>6, <1>7 DEF Next

(* What is in the send buffer or has arrived is what was sent.             *)
SenderInv ==
  WP!WriterInv /\ inits = 1 /\ arrived \in Nat /\ arrived + SendLen = Len(wire) + room

LEMMA WireMoves ==
  ASSUME WP!WriterInv, W!Write
  PROVE  \E n \in Nat : room' = room - n /\ Len(wire') = Len(wire) + n
  <1>1. WP!Write
    BY SameWriter
  <1>2. PICK s \in WP!SendLoops(WP!Loaded) :
          /\ wire' = wire \o [i \in 1 .. s.sent |-> <<WP!Loaded.data, WP!Loaded.written + i>>]
          /\ room' = room - s.sent
    BY <1>1 DEF WP!Write
  <1>3. spc = "loop"
    BY <1>1 DEF WP!Write
  <1>4. WP!WriterType(WP!Loaded) /\ WP!Loaded.cur # Null
    BY <1>3, WP!LoadedShape, SenderAssumptions
  <1>5. room \in Nat /\ wire \in Seq(Messages \X Nat)
    BY Lengths DEF WP!WriterInv, WP!SocketType, WP!WireShape
  <1>6. s.sent \in Nat
    BY <1>4, <1>5, WP!SendLoopsShape, SenderAssumptions
  <1>7. Len(wire') = Len(wire) + s.sent
    BY <1>2, <1>5, <1>6
  <1>8. QED
    BY <1>2, <1>6, <1>7

LEMMA SenderKeeps == SenderInv /\ [Next]_vars => SenderInv'
  <1> SUFFICES ASSUME SenderInv, [Next]_vars PROVE SenderInv'
    OBVIOUS
  <1>1. WP!WriterInv' /\ inits' = 1
    BY SenderStep, WP!StepKeeps, SenderAssumptions DEF SenderInv
  <1>2. /\ room \in Int /\ Len(wire) \in Int /\ SendLen \in Int /\ arrived \in Nat
        /\ arrived = Len(wire) + room - SendLen
    <2>1. room \in 0 .. SendLen /\ wire \in Seq(Messages \X Nat)
      BY DEF SenderInv, WP!WriterInv, WP!SocketType, WP!WireShape
    <2>2. Len(wire) \in Nat /\ arrived \in Nat /\ arrived + SendLen = Len(wire) + room
      BY <2>1 DEF SenderInv
    <2>3. QED
      BY <2>1, <2>2, Lengths
  <1>3. CASE arrived' = arrived /\ wire' = wire /\ room' = room
    BY <1>1, <1>3 DEF SenderInv
  <1>4. CASE Write
    <2>1. PICK n \in Nat : room' = room - n /\ Len(wire') = Len(wire) + n
      BY <1>4, WireMoves DEF Write, SenderInv
    <2>2. arrived' = arrived
      BY <1>4 DEF Write, receiver
    <2>3. QED
      BY <1>1, <1>2, <2>1, <2>2 DEF SenderInv
  <1>5. CASE Transfer
    <2>1. wire' = wire /\ room' \in Int /\ room' > room /\ arrived' = arrived + (room' - room)
      BY <1>2, <1>5, Lengths DEF Transfer, W!PeerReads, W!history
    <2>2. QED
      BY <1>1, <1>2, <2>1 DEF SenderInv
  <1>6. QED
    BY <1>3, <1>4, <1>5 DEF Next, SendMsg, SenderEnters, SenderLoses, ReceiverEnters, Read,
         ReceiverLoses, W!SendMsg, W!EnterLoop, W!PeerResets, W!conn, W!history,
         R!EnterLoop, R!Read, R!PeerEnds, R!peer, vars, sender, receiver

LEMMA SenderInit == Init => SenderInv
  <1> SUFFICES ASSUME Init PROVE SenderInv
    OBVIOUS
  <1>1. WP!WriterInv
    BY SameWriter, WP!InitShape, SenderAssumptions DEF Init
  <1>2. inits = 1 /\ room = SendLen /\ wire = <<>> /\ arrived = 0
    BY DEF Init, W!Init, R!Init
  <1>3. QED
    BY <1>1, <1>2, Lengths DEF SenderInv

(* One payload is begun at most, and the wire holds its beginning.         *)
WireOk ==
  /\ wire \in Seq(Messages \X Nat) /\ Len(wire) \in 0 .. PayloadLen
  /\ arrived \in 0 .. Len(wire)
  /\ \A i \in 1 .. Len(wire) : wire[i] = <<pushed[1], i>>

LEMMA WireShape == SenderInv => WireOk
  <1> SUFFICES ASSUME SenderInv PROVE WireOk
    OBVIOUS
  <1>1. /\ wire \in Seq(Messages \X Nat) /\ Len(wire) = writer.written
        /\ \A i \in 1 .. Len(wire) : wire[i] = <<writer.data, i>>
    BY DEF SenderInv, WP!WriterInv, WP!WireShape
  <1>2. Len(wire) \in 0 .. PayloadLen
    BY <1>1, Lengths DEF SenderInv, WP!WriterInv, WP!WriterType
  <1>3. wire # <<>> => writer.cur # Null
    BY <1>1 DEF SenderInv, WP!WriterInv, WP!WriterType
  <1>4. wire # <<>> => writer.data = pushed[1]
    BY <1>3 DEF SenderInv, WP!WriterInv, WP!ReportShape
  <1>5. \A i \in 1 .. Len(wire) : wire[i] = <<pushed[1], i>>
    BY <1>1, <1>4
  <1>6. room \in 0 .. SendLen /\ arrived \in Nat /\ arrived + SendLen = Len(wire) + room
    BY DEF SenderInv, WP!WriterInv, WP!SocketType
  <1>7. arrived \in 0 .. Len(wire)
    BY <1>2, <1>6, Lengths
  <1>8. QED
    BY <1>1, <1>2, <1>5, <1>7 DEF WireOk

LEMMA Quotients ==
  ASSUME NEW p \in Nat \ {0}
  PROVE  /\ (0 + p - 1) \div p = 0
         /\ \A n \in 1 .. p : (n + p - 1) \div p = 1
         /\ \A i \in 1 .. p : (i - 1) \div p = 0 /\ (i - 1) % p = i - 1
  <1>1. (0 + p - 1) \div p = 0
    OBVIOUS
  <1>2. \A n \in 1 .. p : (n + p - 1) \div p = 1
    OBVIOUS
  <1>3. ASSUME NEW i \in 1 .. p PROVE (i - 1) \div p = 0 /\ (i - 1) % p = i - 1
    OBVIOUS
  <1>4. QED
    BY <1>1, <1>2, <1>3

(* The receiver's stream is empty, or one frame.                           *)
StreamOk ==
  /\ Len(wire) = 0 => Frames = <<>> /\ Stream = <<>>
  /\ Len(wire) # 0 => /\ Frames = <<BodyLen>>
                      /\ Stream = [i \in 1 .. PayloadLen |-> <<1, i>>]

LEMMA StreamShape == WireOk => StreamOk
  <1> SUFFICES ASSUME Len(wire) \in 0 .. PayloadLen PROVE StreamOk
    BY DEF WireOk
  <1>1. CASE Len(wire) = 0
    <2>1. FramesBegun = 0
      BY <1>1, Quotients, Lengths DEF FramesBegun
    <2>2. 0 * PayloadLen = 0
      BY Lengths
    <2>3. Frames = <<>> /\ Stream = <<>>
      BY <2>1, <2>2 DEF Frames, Stream
    <2>4. QED
      BY <1>1, <2>3 DEF StreamOk
  <1>2. CASE Len(wire) # 0
    <2>1. Len(wire) \in 1 .. PayloadLen
      BY <1>2, Lengths
    <2>2. FramesBegun = 1
      BY <2>1, Quotients, Lengths DEF FramesBegun
    <2>3. 1 * PayloadLen = PayloadLen
      BY Lengths
    <2>4. Frames = <<BodyLen>>
      BY <2>2 DEF Frames
    <2>5. \A i \in 1 .. PayloadLen :
            1 + ((i - 1) \div PayloadLen) = 1 /\ 1 + ((i - 1) % PayloadLen) = i
      BY Quotients, Lengths
    <2>6. Stream = [i \in 1 .. PayloadLen |-> <<1, i>>]
      BY <2>2, <2>3, <2>5 DEF Stream
    <2>7. QED
      BY <1>2, <2>4, <2>6 DEF StreamOk
  <1>3. QED
    BY <1>1, <1>2

LEMMA ShapesNext ==
  /\ SenderInv => WireOk /\ StreamOk
  /\ SenderInv' => WireOk' /\ StreamOk'
  BY WireShape, StreamShape, PTL

-----------------------------------------------------------------------------
(* The receiver's end is a reader whose peer sends one frame.              *)
LEMMA ReceiverInit == Init => R!Init
  BY DEF Init

LEMMA StreamKept ==
  ASSUME wire' = wire PROVE Frames' = Frames /\ Stream' = Stream
  BY DEF Frames, Stream, FramesBegun

LEMMA FrameBegun ==
  ASSUME SenderInv, SenderInv', Write
  PROVE  R!PeerSends \/ UNCHANGED R!vars
  <1>1. /\ Len(wire) \in 0 .. PayloadLen /\ Len(wire') \in 0 .. PayloadLen
        /\ StreamOk /\ StreamOk'
    BY ShapesNext DEF WireOk
  <1>2. PICK n \in Nat : Len(wire') = Len(wire) + n
    BY WireMoves DEF Write, SenderInv
  <1>3. UNCHANGED receiver
    BY DEF Write
  <1>4. CASE Len(wire) = 0 /\ Len(wire') # 0
    <2>1. Frames = <<>> /\ Stream = <<>>
      BY <1>1, <1>4 DEF StreamOk
    <2>2. Frames' = <<BodyLen>> /\ Stream' = [i \in 1 .. PayloadLen |-> <<1, i>>]
      BY <1>1, <1>4 DEF StreamOk
    <2>3. Len(Frames) < 1 /\ Len(Frames) + 1 = 1 /\ Frames' = Append(Frames, BodyLen)
      BY <2>1, <2>2
    <2>4. Stream' = R!FrameUnits(1, BodyLen)
      BY <2>2, Lengths DEF R!FrameUnits
    <2>5. R!FrameUnits(1, BodyLen) \in Seq(Nat \X Nat)
      BY Lengths DEF R!FrameUnits
    <2>6. Stream' = Stream \o R!FrameUnits(Len(Frames) + 1, BodyLen)
      BY <2>1, <2>3, <2>4, <2>5
    <2>7. QED
      BY <1>3, <2>3, <2>6 DEF R!PeerSends, receiver
  <1>5. CASE ~(Len(wire) = 0 /\ Len(wire') # 0)
    <2>1. Len(wire) = 0 <=> Len(wire') = 0
      BY <1>1, <1>2, <1>5
    <2>2. Frames' = Frames /\ Stream' = Stream
      BY <1>1, <2>1 DEF StreamOk
    <2>3. QED
      BY <1>3, <2>2 DEF R!vars, R!peer, receiver
  <1>6. QED
    BY <1>4, <1>5

LEMMA ReceiverStep == SenderInv /\ SenderInv' /\ [Next]_vars => [R!Next]_(R!vars)
  <1> SUFFICES ASSUME SenderInv, SenderInv', [Next]_vars PROVE [R!Next]_(R!vars)
    OBVIOUS
  <1>1. CASE Write
    BY <1>1, FrameBegun DEF R!Next
  <1>2. CASE Transfer
    <2>1. wire' = wire /\ Frames' = Frames /\ Stream' = Stream
      BY <1>2, StreamKept DEF Transfer, W!PeerReads, W!history
    <2>2. /\ ~eof /\ room' > room /\ room \in Int /\ room' \in Int
          /\ arrived' = arrived + (room' - room) /\ arrived \in Nat
          /\ UNCHANGED <<consumed, eof, reader, mem, slot, received, rpc, rstatus, rintrs>>
      BY <1>2, Lengths DEF Transfer, W!PeerReads, SenderInv, WP!WriterInv, WP!SocketType
    <2>3. arrived' \in 0 .. Len(wire) /\ Len(wire) \in 0 .. PayloadLen
      BY <2>1, ShapesNext DEF WireOk
    <2>4. Len(wire) # 0
      BY <2>2, <2>3
    <2>5. Len(Stream) = PayloadLen
      BY <2>3, <2>4, ShapesNext, Lengths DEF StreamOk
    <2>6. arrived' \in arrived + 1 .. Len(Stream)
      <3>1. arrived \in Nat /\ arrived' \in Int /\ arrived' >= arrived + 1
        <4>1. \A a, b, c \in Int : b > a => c + (b - a) \in Int /\ c + (b - a) >= c + 1
          OBVIOUS
        <4>2. arrived \in Int
          BY <2>2
        <4>3. /\ arrived + (room' - room) \in Int
              /\ arrived + (room' - room) >= arrived + 1
          BY <2>2, <4>1, <4>2
        <4>4. QED
          BY <2>2, <4>3
      <3>2. arrived' <= PayloadLen
        BY <2>1, <2>3, <3>1, Lengths
      <3>3. QED
        BY <2>5, <3>1, <3>2, Lengths
    <2>7. R!Arrive
      BY <2>1, <2>2, <2>6 DEF R!Arrive
    <2>8. QED
      BY <2>7 DEF R!Next
  <1>3. CASE \/ \E m \in Messages : SendMsg(m)
             \/ SenderEnters \/ SenderLoses \/ UNCHANGED vars
    <2>1. wire' = wire /\ UNCHANGED receiver
      BY <1>3 DEF SendMsg, W!SendMsg, SenderEnters, W!EnterLoop, SenderLoses, W!PeerResets,
                  W!history, vars, sender
    <2>2. QED
      BY <2>1, StreamKept DEF R!vars, R!peer, receiver
  <1>4. CASE ReceiverEnters \/ Read \/ ReceiverLoses
    BY <1>4 DEF ReceiverEnters, Read, ReceiverLoses, R!Next
  <1>5. QED
    BY <1>1, <1>2, <1>3, <1>4 DEF Next

(* Whatever the sender does and however the network carries it, the        *)
(* receiver sees a peer that sends one frame: what MessageReader shows of  *)
(* read() holds of it.                                                     *)
THEOREM ReceiverCorrect == Spec => SenderIsPeer
  <1>1. QED
    BY ReceiverInit, SenderInit, SenderKeeps, ReceiverStep, PTL DEF Spec, SenderIsPeer, R!Spec

-----------------------------------------------------------------------------
(* The types of the two instances are the same as well.                    *)
LEMMA SameTypes == (WP!TypeOK => W!TypeOK) /\ (RP!TypeOK => R!TypeOK)
  <1>1. WP!TypeOK => W!TypeOK
    BY DEF WP!TypeOK, W!TypeOK, WP!QueueType, W!QueueType, WP!Nodes, W!Nodes
  <1>2. RP!TypeOK => R!TypeOK
    BY DEF RP!TypeOK, R!TypeOK, RP!BufferLen, R!BufferLen
  <1>3. QED
    BY <1>1, <1>2

LEMMA WireFits == SenderInv => WireIsStream
  <1> SUFFICES ASSUME SenderInv, NEW i \in DOMAIN wire
               PROVE  wire[i] = <<pushed[Stream[i][1]], Stream[i][2]>>
    BY DEF WireIsStream
  <1>1. /\ wire \in Seq(Messages \X Nat) /\ Len(wire) \in 0 .. PayloadLen
        /\ \A j \in 1 .. Len(wire) : wire[j] = <<pushed[1], j>>
    BY ShapesNext DEF WireOk
  <1>2. i \in 1 .. Len(wire) /\ Len(wire) # 0 /\ i \in 1 .. PayloadLen
    BY <1>1, Lengths
  <1>3. Stream[i] = <<1, i>>
    BY <1>2, ShapesNext DEF StreamOk
  <1>4. QED
    BY <1>1, <1>2, <1>3

LEMMA TailLeft ==
  ASSUME SenderInv, RP!ReaderInv, RP!ReadBound
  PROVE  TailNeverRead
  <1>1. PayloadLen - SizeLen = SizeLen + BodyLen /\ SizeLen \in Nat /\ BodyLen \in Nat
    BY Lengths
  <1>2. CASE reader.msg = Null
    <2>1. Null \notin Buffers
      BY LinkAssumption
    <2>2. consumed = 0
      BY <1>2, <2>1 DEF RP!ReaderInv, RP!ReaderShape, RP!Holding
    <2>3. QED
      BY <1>1, <2>2 DEF TailNeverRead
  <1>3. CASE reader.msg # Null
    <2>1. consumed <= RP!Offset(reader) + reader.toRead /\ RP!Holding(reader)
      BY <1>3 DEF RP!ReadBound, RP!ReaderInv, RP!ReaderShape
    <2>2. consumed \in Nat
      BY DEF RP!ReaderInv, RP!StreamShape
    <2>3. CASE reader.state = "size"
      BY <1>1, <2>1, <2>2, <2>3 DEF RP!Holding, RP!Offset, TailNeverRead
    <2>4. CASE reader.state = "body"
      <3>1. reader.toRead = Frames[1] /\ Frames # <<>> /\ RP!Offset(reader) = SizeLen
        BY <2>1, <2>4 DEF RP!Holding, RP!Offset
      <3>2. Frames[1] = BodyLen
        BY <3>1, ShapesNext DEF StreamOk
      <3>3. QED
        BY <1>1, <2>1, <2>2, <3>1, <3>2 DEF TailNeverRead
    <2>5. QED
      BY <2>1, <2>3, <2>4 DEF RP!Holding, RP!ReaderType
  <1>4. QED
    BY <1>2, <1>3

(* Unit by unit the wire is the stream the receiver takes it for, and the  *)
(* receiver never takes the last word of the payload, which its size does  *)
(* not count, for the beginning of another.                                *)
THEOREM EndsMeet == Spec => [](TypeOK /\ WireIsStream /\ TailNeverRead)
  <1>1. Spec => []SenderInv
    BY SenderInit, SenderKeeps, PTL DEF Spec
  <1>2. Spec => WP!Spec
    <2>1. Init => WP!Init
      BY SameWriter DEF Init
    <2>2. QED
      BY <2>1, SenderStep, PTL DEF Spec, WP!Spec
  <1>3. Spec => RP!Spec
    BY ReceiverCorrect, SameReader, PTL DEF SenderIsPeer, R!Spec, RP!Spec
  <1>4. WP!Spec => []WP!TypeOK
    BY WP!PayloadCorrect, SenderAssumptions, PTL
  <1>5. RP!Spec => []RP!TypeOK
    BY RP!CountsCorrect, ReceiverAssumptions, PTL
  <1>6. RP!Spec => [](RP!ReaderInv /\ RP!ReadBound)
    BY RP!AlwaysReaderInv, ReceiverAssumptions, PTL
  <1>7. SenderInv /\ WP!TypeOK /\ RP!TypeOK => TypeOK
    BY SameTypes, ShapesNext DEF TypeOK, WireOk
  <1>8. SenderInv /\ RP!ReaderInv /\ RP!ReadBound => TailNeverRead
    BY TailLeft
  <1>9. QED
    BY <1>1, <1>2, <1>3, <1>4, <1>5, <1>6, <1>7, <1>8, WireFits, PTL

-----------------------------------------------------------------------------
(* The invariant of both ends. *)
LinkInv == SenderInv /\ RP!ReaderInv /\ RP!Sealed

LEMMA AlwaysLinkInv == Spec => []LinkInv
  <1>1. Spec => []SenderInv
    BY SenderInit, SenderKeeps, PTL DEF Spec
  <1>2. Spec => RP!Spec
    BY ReceiverCorrect, SameReader, PTL DEF SenderIsPeer, R!Spec, RP!Spec
  <1>3. RP!Spec => [](RP!ReaderInv /\ RP!Sealed)
    BY RP!AlwaysReaderInv, ReceiverAssumptions, PTL
  <1>4. QED
    BY <1>1, <1>2, <1>3, PTL DEF LinkInv

(* What the receiver's user finds in the messages delivered.               *)
InboxOk ==
  /\ received \in Seq(Buffers)
  /\ received # <<>> => pushed # <<>>
  /\ Inbox = [k \in 1 .. Len(received) |->
                IF k = 1 THEN C!Content(pushed[1]) ELSE C!Nothing]

(* What is reported written is the first message queued.                   *)
ReportedOk ==
  /\ pushed \in Seq(Messages)
  /\ reported # {} => pushed # <<>> /\ reported = {pushed[1]}

LEMMA ReportedShape == SenderInv => ReportedOk
  BY DEF SenderInv, ReportedOk, WP!WriterInv, WP!QueueShape, WP!ReportShape

LEMMA InboxShape == LinkInv => InboxOk
  <1> SUFFICES ASSUME LinkInv PROVE InboxOk
    OBVIOUS
  <1>1. /\ received \in Seq(Buffers)
        /\ \A k, l \in DOMAIN received : received[k] = received[l] => k = l
    BY DEF LinkInv, RP!ReaderInv, RP!UserShape, RP!DeliveredOnce, RP!IsInjective
  <1>2. DOMAIN received = 1 .. Len(received) /\ Len(received) \in Nat
    BY <1>1
  <1>3. CASE received = <<>>
    <2>1. Inbox = [k \in 1 .. Len(received) |->
                     IF k = 1 THEN C!Content(pushed[1]) ELSE C!Nothing]
      BY <1>3 DEF Inbox
    <2>2. QED
      BY <1>1, <1>3, <2>1 DEF InboxOk
  <1>4. CASE received # <<>>
    <2>1. RP!Holding(reader)
      BY <1>4 DEF LinkInv, RP!ReaderInv, RP!ReaderShape
    <2>2. /\ reader.state = "body" /\ reader.msg = received[1] /\ reader.msg \in Buffers
          /\ Frames # <<>> /\ reader.bytesRead = Frames[1]
      BY <1>4, <2>1 DEF RP!Holding
    <2>3. Len(wire) # 0 /\ reader.bytesRead = BodyLen /\ RP!Offset(reader) = SizeLen
      BY <2>2, ShapesNext DEF LinkInv, StreamOk, RP!Offset
    <2>4. SizeLen + BodyLen <= Len(wire)
      <3>1. SizeLen + BodyLen <= consumed
        BY <2>2, <2>3, LinkAssumption DEF LinkInv, RP!Sealed
      <3>2. consumed \in Nat /\ arrived \in Nat /\ consumed <= arrived
        BY DEF LinkInv, RP!ReaderInv, RP!StreamShape
      <3>3. arrived <= Len(wire) /\ Len(wire) \in Nat
        BY <3>2, ShapesNext, Lengths DEF LinkInv, WireOk
      <3>4. QED
        BY <3>1, <3>2, <3>3, Lengths
    <2>5. pushed # <<>>
      BY <2>3 DEF LinkInv, SenderInv, WP!WriterInv, WP!WriterType, WP!WireShape, WP!ReportShape
    <2>6. \A i \in 1 .. BodyLen : Sent(mem[received[1]][i]) = <<pushed[1], SizeLen + i>>
      <3> SUFFICES ASSUME NEW i \in 1 .. BodyLen
                   PROVE  Sent(mem[received[1]][i]) = <<pushed[1], SizeLen + i>>
        OBVIOUS
      <3>1. mem[received[1]][i] = <<1, i + SizeLen>>
        BY <2>1, <2>2, <2>3 DEF RP!Holding
      <3>2. i + SizeLen = SizeLen + i /\ i + SizeLen \in Nat /\ SizeLen + i \in 1 .. Len(wire)
        BY <2>4, Lengths, ShapesNext DEF LinkInv, WireOk
      <3>3. <<1, i + SizeLen>> # Blank
        BY <3>2, LinkAssumption
      <3>4. (1 - 1) * PayloadLen + (i + SizeLen) = SizeLen + i
        BY <3>2, Lengths
      <3>5. Sent(<<1, i + SizeLen>>) = wire[SizeLen + i]
        BY <3>3, <3>4 DEF Sent
      <3>6. wire[SizeLen + i] = <<pushed[1], SizeLen + i>>
        BY <3>2, ShapesNext DEF LinkInv, WireOk
      <3>7. QED
        BY <3>1, <3>5, <3>6
    <2>7. \A k \in 2 .. Len(received), i \in 1 .. BodyLen : Sent(mem[received[k]][i]) = Blank
      <3> SUFFICES ASSUME NEW k \in 2 .. Len(received), NEW i \in 1 .. BodyLen
                   PROVE  Sent(mem[received[k]][i]) = Blank
        OBVIOUS
      <3>1. received[k] \in Buffers /\ received[k] # received[1]
        BY <1>1, <1>2
      <3>2. mem[received[k]] = RP!BlankBuffer
        BY <2>2, <3>1 DEF LinkInv, RP!Sealed
      <3>3. i \in 1 .. RP!BufferLen
        BY Lengths DEF RP!BufferLen
      <3>4. QED
        BY <3>2, <3>3 DEF Sent, RP!BlankBuffer
    <2>8. \A k \in 1 .. Len(received) :
            [i \in 1 .. BodyLen |-> Sent(mem[received[k]][i])]
              = IF k = 1 THEN C!Content(pushed[1]) ELSE C!Nothing
      <3> SUFFICES ASSUME NEW k \in 1 .. Len(received)
                   PROVE  [i \in 1 .. BodyLen |-> Sent(mem[received[k]][i])]
                            = IF k = 1 THEN C!Content(pushed[1]) ELSE C!Nothing
        OBVIOUS
      <3>1. CASE k = 1
        BY <2>6, <3>1 DEF C!Content
      <3>2. CASE k # 1
        BY <1>2, <2>7, <3>2 DEF C!Nothing
      <3>3. QED
        BY <3>1, <3>2
    <2>9. QED
      BY <1>1, <1>2, <2>5, <2>8 DEF InboxOk, Inbox
  <1>5. QED
    BY <1>3, <1>4

LEMMA InboxNext ==
  /\ LinkInv => InboxOk /\ ReportedOk
  /\ LinkInv' => InboxOk' /\ ReportedOk'
  <1>1. LinkInv => InboxOk /\ ReportedOk
    BY InboxShape, ReportedShape DEF LinkInv
  <1>2. QED
    BY <1>1, PTL

LEMMA SameInbox ==
  ASSUME InboxOk, InboxOk', received' = received, received # <<>> => pushed'[1] = pushed[1]
  PROVE  Inbox' = Inbox
  <1>1. CASE received = <<>>
    BY <1>1 DEF Inbox
  <1>2. CASE received # <<>>
    BY <1>2 DEF InboxOk
  <1>3. QED
    BY <1>1, <1>2

(* A delivery is the one of the first message, or an empty one.            *)
LEMMA DeliveryStep ==
  ASSUME InboxOk, InboxOk', UNCHANGED pushed, UNCHANGED reported,
         NEW b \in Buffers, received' = Append(received, b)
  PROVE  C!Deliver \/ C!DeliverEmpty
  <1> DEFINE new == IF received = <<>> THEN C!Content(pushed[1]) ELSE C!Nothing
             Is(k) == IF k = 1 THEN C!Content(pushed[1]) ELSE C!Nothing
  <1>1. Len(received') = Len(received) + 1 /\ Len(received) \in Nat /\ received' # <<>>
    BY DEF InboxOk
  <1>2. Inbox = [k \in 1 .. Len(received) |-> Is(k)]
    BY DEF InboxOk
  <1>3. Inbox' = [k \in 1 .. Len(received) + 1 |-> Is(k)]
    BY <1>1 DEF InboxOk
  <1> HIDE DEF Is
  <1>4. Inbox' = Append(Inbox, Is(Len(received) + 1))
    BY <1>1, <1>2, <1>3
  <1>5. pushed # <<>>
    BY <1>1 DEF InboxOk
  <1>6. CASE received = <<>>
    <2>1. Len(received) = 0 /\ Inbox = <<>>
      BY <1>2, <1>6
    <2>2. Inbox' = <<Is(1)>>
      BY <1>4, <2>1
    <2>3. QED
      BY <1>5, <2>1, <2>2 DEF C!Deliver, Is
  <1>7. CASE received # <<>>
    <2>1. Len(received) # 0 /\ Len(received) + 1 # 1
      BY <1>1, <1>7 DEF InboxOk
    <2>2. Inbox # <<>>
      BY <1>1, <1>2, <2>1
    <2>3. QED
      BY <1>4, <2>1, <2>2 DEF C!DeliverEmpty, Is
  <1>8. QED
    BY <1>6, <1>7

LEMMA ChannelStep == LinkInv /\ LinkInv' /\ [Next]_vars => [C!Next]_(C!vars)
  <1> SUFFICES ASSUME LinkInv, LinkInv', [Next]_vars PROVE [C!Next]_(C!vars)
    OBVIOUS
  <1>1. InboxOk /\ InboxOk' /\ ReportedOk /\ ReportedOk'
    BY InboxNext
  <1>2. ASSUME NEW m \in Messages, SendMsg(m) PROVE C!Next
    <2>1. /\ pushed' = Append(pushed, m) /\ reported' = reported /\ received' = received
      BY <1>2 DEF SendMsg, W!SendMsg, receiver
    <2>2. received # <<>> => pushed'[1] = pushed[1]
      BY <1>1, <2>1 DEF InboxOk, ReportedOk
    <2>3. Inbox' = Inbox
      BY <1>1, <2>1, <2>2, SameInbox
    <2>4. C!Queue(m)
      BY <2>1, <2>3 DEF C!Queue
    <2>5. QED
      BY <2>4 DEF C!Next
  <1>3. CASE Write
    <2>1. pushed' = pushed /\ received' = received /\ reported \subseteq reported'
      BY <1>3, Zenon DEF Write, W!Write, receiver
    <2>2. Inbox' = Inbox
      BY <1>1, <2>1, SameInbox
    <2>3. CASE reported' = reported
      BY <2>1, <2>2, <2>3 DEF C!vars
    <2>4. CASE reported' # reported
      <3>1. pushed # <<>> /\ reported' = {pushed[1]} /\ reported = {}
        BY <1>1, <2>1, <2>4 DEF ReportedOk
      <3>2. QED
        BY <2>1, <2>2, <3>1 DEF C!Report, C!Next
    <2>5. QED
      BY <2>3, <2>4
  <1>4. CASE Read
    <2>1. UNCHANGED pushed /\ UNCHANGED reported
      BY <1>4 DEF Read, sender
    <2>2. [RP!Next]_(RP!vars)
      BY <1>4, SameReader DEF Read, R!Next
    <2>3. received' = received \/ \E b \in Buffers : received' = Append(received, b)
      BY <2>2, RP!ReceivedGrows, ReceiverAssumptions DEF LinkInv
    <2>4. CASE received' = received
      <3>1. Inbox' = Inbox
        BY <1>1, <2>1, <2>4, SameInbox
      <3>2. QED
        BY <2>1, <3>1 DEF C!vars
    <2>5. CASE \E b \in Buffers : received' = Append(received, b)
      BY <1>1, <2>1, <2>5, DeliveryStep DEF C!Next
    <2>6. QED
      BY <2>3, <2>4, <2>5
  <1>5. CASE SenderEnters \/ SenderLoses \/ Transfer \/ ReceiverEnters \/ ReceiverLoses
             \/ UNCHANGED vars
    <2>1. pushed' = pushed /\ reported' = reported /\ received' = received
      BY <1>5 DEF SenderEnters, SenderLoses, Transfer, ReceiverEnters, ReceiverLoses,
           W!EnterLoop, W!PeerReads, W!PeerResets, W!history, R!EnterLoop, R!PeerEnds,
           vars, sender, receiver
    <2>2. Inbox' = Inbox
      BY <1>1, <2>1, SameInbox
    <2>3. QED
      BY <2>1, <2>2 DEF C!vars
  <1>6. QED
    BY <1>2, <1>3, <1>4, <1>5 DEF Next

(* However sends and receives are cut and interrupted, and whichever end   *)
(* loses the connection: writer, network and reader together are the       *)
(* Channel, which delivers the first message queued, less its first word,  *)
(* once and after it was sent, and empty messages behind it.               *)
THEOREM RefinesChannel == Spec => ImplementsChannel
  <1>1. Init => C!Init
    <2> SUFFICES ASSUME Init PROVE C!Init
      OBVIOUS
    <2>1. pushed = <<>> /\ reported = {} /\ received = <<>>
      BY DEF Init, W!Init, R!Init
    <2>2. QED
      BY <2>1 DEF C!Init, Inbox
  <1>2. QED
    BY <1>1, AlwaysLinkInv, ChannelStep, PTL DEF Spec, ImplementsChannel, C!Spec

=============================================================================
