-------------------------- MODULE SocketTcpProofs --------------------------
(***************************************************************************)
(* Proofs about SocketTcp: its types, that the lists of connection objects *)
(* partition the pool, that each connection on its way to be secured has   *)
(* its own socket and is watched, that no step for one connection touches  *)
(* another, and what each array needs in order not to be written past its  *)
(* end, for every number of objects, descriptors, addresses and calls.     *)
(***************************************************************************)
EXTENDS SocketTcp, FiniteSetTheorems, SequenceTheorems, TLAPS

-----------------------------------------------------------------------------
(* Stacks.                                                                 *)

LEMMA TopPopped ==
  ASSUME NEW S, NEW s \in Seq(S), s # <<>>
  PROVE  /\ Popped(s) \in Seq(S)
         /\ Top(s) \in S
         /\ Elements(s) = Elements(Popped(s)) \cup {Top(s)}
         /\ Once(s) => Once(Popped(s)) /\ Top(s) \notin Elements(Popped(s))
<1> DEFINE n == Len(s)
<1>1. n \in Nat /\ n > 0 /\ DOMAIN s = 1 .. n
  OBVIOUS
<1>2. /\ Popped(s) \in Seq(S)
      /\ DOMAIN Popped(s) = 1 .. n - 1
      /\ \A i \in 1 .. n - 1 : Popped(s)[i] = s[i]
  BY <1>1 DEF Popped
<1>3. Top(s) \in S
  BY <1>1 DEF Top
<1>4. Elements(s) = Elements(Popped(s)) \cup {Top(s)}
  BY <1>1, <1>2 DEF Elements, Top
<1>5. Once(s) => Once(Popped(s)) /\ Top(s) \notin Elements(Popped(s))
  BY <1>1, <1>2 DEF Elements, Top, Once
<1> QED
  BY <1>2, <1>3, <1>4, <1>5

LEMMA PoppedLength ==
  ASSUME NEW S, NEW s \in Seq(S), s # <<>>
  PROVE  Len(s) \in Nat \ {0} /\ Len(Popped(s)) = Len(s) - 1
<1> DEFINE n == Len(s) - 1
<1>1. n \in Nat /\ Len(s) = n + 1 /\ \A i \in 1 .. n : s[i] \in S
  OBVIOUS
<1> HIDE DEF n
<1>2. Len(SubSeq(s, 1, n)) = n
  <2>1. 1 \in Int /\ n \in Int
    BY <1>1
  <2>2. Len(SubSeq(s, 1, n)) = IF 1 <= n THEN n - 1 + 1 ELSE 0
    BY <1>1, <2>1, SubSeqProperties
  <2> QED
    BY <1>1, <2>2
<1> QED
  BY <1>1, <1>2 DEF Popped, n

LEMMA Appended ==
  ASSUME NEW S, NEW s \in Seq(S), NEW e \in S
  PROVE  /\ Append(s, e) \in Seq(S)
         /\ Elements(Append(s, e)) = Elements(s) \cup {e}
         /\ Once(s) /\ e \notin Elements(s) => Once(Append(s, e))
<1>1. /\ Append(s, e) \in Seq(S)
      /\ Len(s) \in Nat /\ DOMAIN s = 1 .. Len(s)
      /\ DOMAIN Append(s, e) = 1 .. Len(s) + 1
      /\ \A i \in 1 .. Len(s) : Append(s, e)[i] = s[i]
      /\ Append(s, e)[Len(s) + 1] = e
  OBVIOUS
<1>2. Elements(Append(s, e)) = Elements(s) \cup {e}
  BY <1>1 DEF Elements
<1>3. Once(s) /\ e \notin Elements(s) => Once(Append(s, e))
  BY <1>1 DEF Elements, Once
<1> QED
  BY <1>1, <1>2, <1>3

LEMMA EmptyList == Elements(<<>>) = {} /\ Once(<<>>)
  BY DEF Elements, Once

-----------------------------------------------------------------------------
(* Descriptors.                                                            *)

LEMMA OpenedType ==
  ASSUME NEW t \in [Fds -> Descriptors], NEW f \in Fds, NEW k \in SocketKinds, NEW c \in Conns
  PROVE  Opened(t, f, k, c) \in [Fds -> Descriptors]
  BY DEF Opened, Descriptors

LEMMA CloseType ==
  ASSUME NEW t \in [Fds -> Descriptors], NEW f
  PROVE  CloseFd(t, f) \in [Fds -> Descriptors]
  BY DEF CloseFd, Descriptors

(* What s_create_socket leaves is a table and a handle.                    *)
LEMMA CreateType ==
  ASSUME NEW t \in [Fds -> Descriptors], NEW c \in Conns, NEW o \in Options, NEW b \in BOOLEAN,
         NEW r \in CreateOutcomes(t, c, o, b)
  PROVE  r.fds \in [Fds -> Descriptors] /\ r.handle \in Handles /\ r.handle \in HandleValues
<1>0. Handles \subseteq HandleValues
  BY DEF HandleValues
<1> SUFFICES r.fds \in [Fds -> Descriptors] /\ r.handle \in Handles
  BY <1>0
<1>1. EstablishedKind(o) \in SocketKinds
  BY DEF EstablishedKind, SocketKinds
<1>2. \A f \in ClosedFds(t) : f \in Fds /\ Opened(t, f, EstablishedKind(o), c) \in [Fds -> Descriptors]
  BY <1>1, OpenedType DEF ClosedFds
<1>3. CASE r \in CreateResolved(t, c, o)
  BY <1>2, <1>3 DEF CreateResolved, Outcome, Handles
<1>4. CASE r \in CreateUnresolved(t, c)
  <2>1. 0 \in Fds
    BY DescriptorAssumption DEF Fds
  <2>2. CloseFd(t, 0) \in [Fds -> Descriptors]
    BY CloseType
  <2> QED
    BY <1>4, <2>1, <2>2 DEF CreateUnresolved, Outcome, Handles
<1> QED
  BY <1>3, <1>4 DEF CreateOutcomes

-----------------------------------------------------------------------------
(* Filing: the object on top of the pool goes to the secure list or back.  *)

Inv == TypeOK /\ PoolConserved

LEMMA FiledKeeps ==
  ASSUME TypeOK, PoolConserved, free # <<>>, NEW ok \in BOOLEAN, Filed(Top(free), ok), open' = open
  PROVE  PoolConserved' /\ free' \in Seq(Pool) /\ secure' \in Seq(Pool)
<1> DEFINE c == Top(free)
           rest == Popped(free)
<1>1. free \in Seq(Pool) /\ secure \in Seq(Pool)
  BY DEF TypeOK
<1>2. /\ rest \in Seq(Pool) /\ c \in Pool
      /\ Elements(free) = Elements(rest) \cup {c}
      /\ Once(rest) /\ c \notin Elements(rest)
  BY <1>1, TopPopped DEF PoolConserved
<1>3. c \notin Elements(secure) /\ c \notin Elements(open)
  BY <1>2 DEF PoolConserved
<1>4. CASE ok
  <2>1. free' = rest /\ secure' = Append(secure, c)
    BY <1>4 DEF Filed
  <2>2. /\ Append(secure, c) \in Seq(Pool)
        /\ Elements(Append(secure, c)) = Elements(secure) \cup {c}
        /\ Once(Append(secure, c))
    BY <1>1, <1>2, <1>3, Appended DEF PoolConserved
  <2> HIDE DEF c, rest
  <2>3. Elements(free') = Elements(rest) /\ Elements(secure') = Elements(secure) \cup {c}
    BY <2>1, <2>2
  <2> QED
    BY <1>2, <1>3, <2>1, <2>2, <2>3 DEF PoolConserved
<1>5. CASE ~ok
  <2>1. free' = Append(rest, c) /\ secure' = secure
    BY <1>5 DEF Filed
  <2>2. /\ Append(rest, c) \in Seq(Pool)
        /\ Elements(Append(rest, c)) = Elements(free)
        /\ Once(Append(rest, c))
    BY <1>2, Appended
  <2> HIDE DEF c, rest
  <2>3. Elements(free') = Elements(free)
    BY <2>1, <2>2
  <2> QED
    BY <1>1, <2>1, <2>2, <2>3 DEF PoolConserved
<1> QED
  BY <1>4, <1>5

LEMMA SameLists ==
  ASSUME PoolConserved, UNCHANGED lists
  PROVE  PoolConserved'
  BY DEF PoolConserved, lists

-----------------------------------------------------------------------------
LEMMA InitInv == Init => Inv
<1> SUFFICES ASSUME Init PROVE Inv
  OBVIOUS
<1>1. IsFiniteSet(Pool)
  BY TcpAssumption, FS_Subset DEF Pool
<1>2. Cardinality(Pool) \in Nat
  BY <1>1, FS_CardinalityType
<1>3. free \in Seq(Pool) /\ Once(free) /\ Elements(free) = Pool
  BY <1>2 DEF Init
<1>4. fds \in [Fds -> Descriptors]
  BY DescriptorAssumption DEF Init, Descriptors, Fds
<1>5. TypeOK
  <2>1. /\ backlog \in [Fds -> 0 .. MaxBacklog] /\ asked \in Nat
        /\ toDisconnect \in 0 .. DisconnectCap /\ opens \in 0 .. MaxOpens
        /\ failed \in 0 .. FailedCap /\ left \in 0 .. FailedCap
    BY TcpAssumption DEF Init
  <2>2. handle \in [Conns -> HandleValues]
    BY DEF Init, HandleValues, Handles
  <2>3. secure \in Seq(Pool) /\ open \in Seq(Pool) /\ toConnect \in Seq(Addresses)
    BY DEF Init
  <2>4. ready \in BOOLEAN /\ pc = "idle" /\ fault = "none"
    BY DEF Init
  <2> QED
    BY <1>3, <1>4, <2>1, <2>2, <2>3, <2>4 DEF TypeOK
<1>6. PoolConserved
  BY <1>3, EmptyList DEF Init, PoolConserved
<1> QED
  BY <1>5, <1>6 DEF Inv

Faults == {"null", "connect", "disconnect", "failed", "secure", "set"}

LEMMA FaultInv ==
  ASSUME Inv, NEW at \in Faults, Fault(at)
  PROVE  Inv'
<1>1. TypeOK'
  BY DEF Inv, Fault, Faults, TypeOK, kernel, objects, lists, requests, report
<1>2. PoolConserved'
  BY SameLists DEF Inv, Fault
<1> QED
  BY <1>1, <1>2 DEF Inv

LEMMA NextInv == Inv /\ [Next]_vars => Inv'
<1> SUFFICES ASSUME Inv, [Next]_vars PROVE Inv'
  OBVIOUS
<1> USE DEF Inv
<1>1. CASE Open
  <2> DEFINE o == [listen |-> TRUE, noblock |-> TRUE]
  <2>1. PICK b \in BOOLEAN : \E r \in CreateOutcomes(fds, Server, o, b) :
          fds' = r.fds /\ handle' = [handle EXCEPT ![Server] = r.handle]
    BY <1>1 DEF Open
  <2>2. PICK r \in CreateOutcomes(fds, Server, o, b) :
          fds' = r.fds /\ handle' = [handle EXCEPT ![Server] = r.handle]
    BY <2>1
  <2>3. o \in Options
    BY DEF Options
  <2> HIDE DEF o
  <2>4. r.fds \in [Fds -> Descriptors] /\ r.handle \in HandleValues
    BY <2>2, <2>3, CreateType, TcpAssumption DEF TypeOK
  <2>5. opens' \in 0 .. MaxOpens
    BY <1>1, TcpAssumption DEF Open, TypeOK
  <2>6. UNCHANGED <<backlog, lists, requests, report, ready, fault>> /\ pc' = "idle"
    BY <1>1 DEF Open
  <2>7. TypeOK'
    BY <2>2, <2>4, <2>5, <2>6 DEF TypeOK, lists, requests, report
  <2> QED
    BY <2>6, <2>7, SameLists
<1>2. CASE Close
  <2>1. TypeOK'
    BY <1>2 DEF Close, TypeOK, kernel, objects, lists, requests, report
  <2> QED
    BY <1>2, <2>1, SameLists DEF Close
<1>3. ASSUME NEW a \in Addresses, Connect(a) PROVE Inv'
  <2>1. CASE Len(toConnect) < RequestCap
    <3>1. Append(toConnect, a) \in Seq(Addresses) /\ asked + 1 \in Nat
      BY DEF TypeOK
    <3>2. TypeOK'
      BY <1>3, <2>1, <3>1 DEF Connect, TypeOK, kernel, objects, lists, report
    <3> QED
      BY <1>3, <2>1, <3>2, SameLists DEF Connect
  <2>2. CASE ~(Len(toConnect) < RequestCap)
    BY <1>3, <2>2, FaultInv DEF Connect, Faults
  <2> QED
    BY <2>1, <2>2
<1>4. CASE Disconnect
  <2>1. CASE toDisconnect < DisconnectCap
    <3>1. toDisconnect + 1 \in 0 .. DisconnectCap
      BY <2>1, TcpAssumption DEF TypeOK
    <3>2. TypeOK'
      BY <1>4, <2>1, <3>1 DEF Disconnect, TypeOK, kernel, objects, lists, report
    <3> QED
      BY <1>4, <2>1, <3>2, SameLists DEF Disconnect
  <2>2. CASE ~(toDisconnect < DisconnectCap)
    BY <1>4, <2>2, FaultInv DEF Disconnect, Faults
  <2> QED
    BY <2>1, <2>2
<1>5. CASE EnterProcess
  <2>1. TypeOK'
    BY <1>5 DEF EnterProcess, TypeOK, kernel, objects, lists
  <2> QED
    BY <1>5, <2>1, SameLists DEF EnterProcess
<1>6. CASE ConnectNext
  <2> DEFINE a == Top(toConnect)
             c == Top(free)
             o == [listen |-> FALSE, noblock |-> TRUE]
  <2>1. PICK r \in CreateOutcomes(fds, c, o, a \notin Unresolved) :
          \/ Fault("secure")
          \/ r.result # 0 /\ failed >= FailedCap /\ Fault("failed")
          \/ /\ r.result # 0 => ~(failed >= FailedCap)
             /\ fds' = r.fds
             /\ handle' = [handle EXCEPT ![c] = r.handle]
             /\ Filed(c, r.result = 0)
             /\ failed' = IF r.result = 0 THEN failed ELSE failed + 1
             /\ toConnect' = Popped(toConnect)
             /\ UNCHANGED <<backlog, open, toDisconnect, asked, left, ready, pc, fault, opens>>
    BY <1>6 DEF ConnectNext
  <2>2. CASE Fault("secure") \/ Fault("failed")
    BY <2>2, FaultInv DEF Faults
  <2>3. CASE ~Fault("secure") /\ ~Fault("failed")
    <3>1. a \in Addresses /\ Popped(toConnect) \in Seq(Addresses)
      BY <1>6, TopPopped DEF ConnectNext, TypeOK
    <3>2. c \in Conns
      BY <1>6, TopPopped DEF ConnectNext, TypeOK, Pool
    <3>3. o \in Options
      BY DEF Options
    <3> HIDE DEF a, o
    <3>4. r.fds \in [Fds -> Descriptors] /\ r.handle \in HandleValues
      BY <2>1, <3>2, <3>3, CreateType DEF TypeOK
    <3>5. PoolConserved' /\ free' \in Seq(Pool) /\ secure' \in Seq(Pool)
      BY <1>6, <2>1, <2>3, FiledKeeps DEF ConnectNext
    <3>6. failed' \in 0 .. FailedCap
      BY <2>1, <2>3, TcpAssumption DEF TypeOK
    <3> HIDE DEF c
    <3>7. TypeOK'
      BY <2>1, <2>3, <3>1, <3>4, <3>5, <3>6 DEF TypeOK
    <3> QED
      BY <3>5, <3>7
  <2> QED
    BY <2>2, <2>3
<1>7. CASE ConnectDropped \/ ConnectTaken
  <2>1. Popped(toConnect) \in Seq(Addresses)
    BY <1>7, TopPopped DEF ConnectDropped, ConnectTaken, TypeOK
  <2>2. /\ UNCHANGED <<kernel, objects, lists, toDisconnect, asked, report, ready, pc, fault, opens>>
        /\ toConnect' = Popped(toConnect)
    BY <1>7 DEF ConnectDropped, ConnectTaken
  <2>3. TypeOK'
    BY <2>1, <2>2 DEF TypeOK, kernel, objects, lists, report
  <2> QED
    BY <2>2, <2>3, SameLists
<1>8. CASE ConnectFaults \/ SelectFaults
  BY <1>8, FaultInv DEF ConnectFaults, SelectFaults, Faults
<1>9. CASE ConnectsDone
  <2>1. TypeOK'
    BY <1>9 DEF ConnectsDone, TypeOK, kernel, objects, lists, requests, report
  <2> QED
    BY <1>9, <2>1, SameLists DEF ConnectsDone
<1>10. CASE Select
  <2> DEFINE h == handle[Server]
             blind == h = InvalidSocket \/ \E f \in Selected : fds[f] = Closed
  <2>1. ready' \in BOOLEAN
    <3>1. ready' \in IF blind THEN {FALSE}
                     ELSE IF fds[h].kind = "listening" THEN {backlog[h] > 0} ELSE BOOLEAN
      BY <1>10, Zenon DEF Select
    <3> HIDE DEF h, blind
    <3>2. CASE blind
      BY <3>1, <3>2, Zenon
    <3>3. CASE ~blind /\ fds[h].kind = "listening"
      <4>1. ready' = (backlog[h] > 0)
        BY <3>1, <3>3, Zenon
      <4>2. (backlog[h] > 0) \in BOOLEAN
        OBVIOUS
      <4> QED
        BY <4>1, <4>2, Zenon
    <3>4. CASE ~blind /\ fds[h].kind # "listening"
      BY <3>1, <3>4, Zenon
    <3> QED
      BY <3>2, <3>3, <3>4
  <2>2. TypeOK'
    BY <1>10, <2>1 DEF Select, TypeOK, kernel, objects, lists, requests, report
  <2> QED
    BY <1>10, <2>2, SameLists DEF Select
<1>11. CASE Accept
  <2> DEFINE h == handle[Server]
             c == Top(free)
  <2>1. CanAccept(h)
    BY <1>11 DEF Accept
  <2>2. \/ Fault("secure")
        \/ /\ backlog' = [backlog EXCEPT ![h] = @ - 1]
           /\ pc' = "open"
           /\ UNCHANGED <<open, requests, report, ready, fault, opens>>
           /\ \/ UNCHANGED <<fds, objects, free, secure>>
              \/ /\ free # <<>> /\ Filed(c, TRUE)
                 /\ \E f \in NewFds(fds) : /\ fds' = Opened(fds, f, "connected", c)
                                           /\ handle' = [handle EXCEPT ![c] = f]
    BY <1>11 DEF Accept
  <2>3. backlog' = [backlog EXCEPT ![h] = @ - 1] => backlog' \in [Fds -> 0 .. MaxBacklog]
    <3>1. SUFFICES ASSUME backlog' = [backlog EXCEPT ![h] = @ - 1], NEW g \in Fds
                   PROVE  backlog'[g] \in 0 .. MaxBacklog
      BY DEF TypeOK
    <3> QED
      BY <2>1, <3>1, TcpAssumption DEF CanAccept, TypeOK
  <2> HIDE DEF h
  <2>5. CASE Fault("secure")
    BY <2>5, FaultInv DEF Faults
  <2>6. CASE ~Fault("secure") /\ UNCHANGED <<fds, objects, free, secure>>
    <3>1. TypeOK'
      BY <2>2, <2>3, <2>6 DEF TypeOK, objects, requests, report
    <3> QED
      BY <2>2, <2>6, <3>1 DEF PoolConserved
  <2>7. CASE ~Fault("secure") /\ ~UNCHANGED <<fds, objects, free, secure>>
    <3>0. free # <<>> /\ Filed(c, TRUE)
      BY <2>2, <2>7, Zenon
    <3>6. PICK f \in NewFds(fds) : /\ fds' = Opened(fds, f, "connected", c)
                                  /\ handle' = [handle EXCEPT ![c] = f]
      BY <2>2, <2>7, Zenon
    <3>7. f \in Fds
      BY DEF NewFds, ClosedFds
    <3>1. c \in Conns
      BY <3>0, TopPopped DEF TypeOK, Pool
    <3>2. "connected" \in SocketKinds
      BY DEF SocketKinds
    <3>3. Opened(fds, f, "connected", c) \in [Fds -> Descriptors]
      BY <3>1, <3>2, <3>7, OpenedType DEF TypeOK
    <3>8. PoolConserved' /\ free' \in Seq(Pool) /\ secure' \in Seq(Pool)
      BY <2>2, <2>7, <3>0, FiledKeeps
    <3> HIDE DEF c
    <3>5. TypeOK'
      BY <2>2, <2>3, <2>7, <3>3, <3>6, <3>7, <3>8 DEF TypeOK, requests, report, HandleValues, Handles
    <3> QED
      BY <3>5, <3>8
  <2> QED
    BY <2>5, <2>6, <2>7
<1>12. CASE AcceptNothing
  <2>1. TypeOK'
    BY <1>12 DEF AcceptNothing, TypeOK, kernel, objects, lists, requests, report
  <2> QED
    BY <1>12, <2>1, SameLists DEF AcceptNothing
<1>13. CASE LoopOverOpen
  <2>1. failed' \in 0 .. FailedCap /\ left' \in 0 .. FailedCap
    BY <1>13, TcpAssumption DEF LoopOverOpen
  <2>2. UNCHANGED <<kernel, objects, lists, requests, fault, opens>> /\ pc' = "idle" /\ ready' = FALSE
    BY <1>13 DEF LoopOverOpen
  <2>3. TypeOK'
    BY <2>1, <2>2 DEF TypeOK, kernel, objects, lists, requests
  <2> QED
    BY <2>2, <2>3, SameLists
<1>14. CASE PeerConnects
  <2>1. PICK g \in Fds : backlog[g] < MaxBacklog /\ backlog' = [backlog EXCEPT ![g] = @ + 1]
    BY <1>14 DEF PeerConnects
  <2>2. backlog' \in [Fds -> 0 .. MaxBacklog]
    BY <2>1, TcpAssumption DEF TypeOK
  <2>3. TypeOK'
    BY <1>14, <2>2 DEF PeerConnects, TypeOK, objects, lists, requests, report
  <2> QED
    BY <1>14, <2>3, SameLists DEF PeerConnects
<1>15. CASE PeerGivesUp
  <2>1. PICK g \in Fds : backlog[g] > 0 /\ backlog' = [backlog EXCEPT ![g] = @ - 1]
    BY <1>15 DEF PeerGivesUp
  <2>2. backlog' \in [Fds -> 0 .. MaxBacklog]
    BY <2>1, TcpAssumption DEF TypeOK
  <2>3. TypeOK'
    BY <1>15, <2>2 DEF PeerGivesUp, TypeOK, objects, lists, requests, report
  <2> QED
    BY <1>15, <2>3, SameLists DEF PeerGivesUp
<1>16. CASE UNCHANGED vars
  <2>1. TypeOK'
    BY <1>16 DEF vars, TypeOK, kernel, objects, lists, requests, report
  <2> QED
    BY <1>16, <2>1, SameLists DEF vars
<1> QED
  BY <1>1, <1>2, <1>3, <1>4, <1>5, <1>6, <1>7, <1>8, <1>9, <1>10, <1>11, <1>12,
     <1>13, <1>14, <1>15, <1>16 DEF Next, Process

-----------------------------------------------------------------------------
(* The types hold for every number of objects, descriptors and addresses.  *)
THEOREM TypeCorrect == Spec => []TypeOK
  BY InitInv, NextInv, PTL DEF Spec, Inv

(* No order of connects, failures, accepts, repeated open() calls and      *)
(* faults loses a connection object or uses one twice.                     *)
THEOREM PoolCorrect == Spec => []PoolConserved
  BY InitInv, NextInv, PTL DEF Spec, Inv

-----------------------------------------------------------------------------
(* Sockets.  A step opens or closes descriptors for one connection object  *)
(* at most, and an unresolved name closes descriptor 0 for whoever had it. *)

SInv == SecureOwnSocket /\ SecureIsWatched /\ DOMAIN status = Conns

(* What the invariant asks of an object on the secure list.                *)
Secured(c) ==
  /\ Owned(fds, c) \ {0} = {handle[c]} \ {0}
  /\ "secure" \in status[c] /\ ("recv" \in status[c]) # ("send" \in status[c])

LEMMA OpenedOwned ==
  ASSUME NEW t \in [Fds -> Descriptors], NEW f \in ClosedFds(t), NEW k, NEW c \in Conns
  PROVE  /\ Owned(Opened(t, f, k, c), c) = Owned(t, c) \cup {f}
         /\ \A d \in Conns \ {c} : Owned(Opened(t, f, k, c), d) = Owned(t, d)
<1>1. f \in Fds /\ t[f].owner = World
  BY DEF ClosedFds, Closed
<1>2. \A g \in Fds : Opened(t, f, k, c)[g] = IF g = f THEN [kind |-> k, owner |-> c] ELSE t[g]
  BY <1>1 DEF Opened
<1> QED
  BY <1>1, <1>2, DescriptorAssumption DEF Owned

LEMMA ClosedOwned ==
  ASSUME NEW t \in [Fds -> Descriptors], NEW d \in Conns, NEW f
  PROVE  Owned(CloseFd(t, f), d) = Owned(t, d) \ {f}
<1>1. \A g \in Fds : CloseFd(t, f)[g] = IF g = f THEN Closed ELSE t[g]
  BY DEF CloseFd
<1>2. Closed.owner = World
  BY DEF Closed
<1> QED
  BY <1>1, <1>2, DescriptorAssumption DEF Owned

(* What one call of s_create_socket leaves to the other objects, and to    *)
(* the one it is for if that had no socket.                                *)
LEMMA CreateOwned ==
  ASSUME NEW t \in [Fds -> Descriptors], NEW c \in Conns, NEW o, NEW b \in BOOLEAN,
         NEW r \in CreateOutcomes(t, c, o, b)
  PROVE  /\ \A d \in Conns \ {c} : Owned(r.fds, d) \in {Owned(t, d), Owned(t, d) \ {0}}
         /\ Owned(t, c) = {} => /\ r.result = 0 => Owned(r.fds, c) \ {0} = {r.handle} \ {0}
                                /\ r.result # 0 => Owned(r.fds, c) = {}
<1>1. CASE r \in CreateResolved(t, c, o)
  <2>1. CASE \E f \in ClosedFds(t) :
               r = Outcome(Opened(t, f, EstablishedKind(o), c), f, EstablishedStatus(o), 0)
    <3>1. PICK f \in ClosedFds(t) :
               r = Outcome(Opened(t, f, EstablishedKind(o), c), f, EstablishedStatus(o), 0)
      BY <2>1
    <3>2. r.fds = Opened(t, f, EstablishedKind(o), c) /\ r.handle = f /\ r.result = 0
      BY <3>1 DEF Outcome
    <3> QED
      BY <3>2, OpenedOwned
  <2>2. CASE r.fds = t /\ r.result = -1
    BY <2>2
  <2> QED
    BY <1>1, <2>1, <2>2 DEF CreateResolved, Outcome
<1>2. CASE r \in CreateUnresolved(t, c)
  <2>1. CASE r.fds = CloseFd(t, 0) /\ r.result = -1
    BY <2>1, ClosedOwned
  <2>2. CASE r.fds = t /\ r.handle = 0 /\ r.result = 0
    BY <2>2
  <2> QED
    BY <1>2, <2>1, <2>2 DEF CreateUnresolved, Outcome
<1> QED
  BY <1>1, <1>2 DEF CreateOutcomes

(* A step that touches one object, and leaves that one as its list asks.   *)
LEMMA OneObject ==
  ASSUME Inv, SInv, NEW c \in Conns, DOMAIN status' = DOMAIN status,
         \A d \in Conns \ {c} : /\ handle'[d] = handle[d] /\ status'[d] = status[d]
                                /\ Owned(fds', d) \in {Owned(fds, d), Owned(fds, d) \ {0}},
         Elements(secure') \subseteq Elements(secure) \cup {c},
         Elements(free') \subseteq Elements(free) \cup {c},
         c \in Elements(secure') => Secured(c)',
         c \in Elements(free') => Owned(fds', c) = {}
  PROVE  SInv'
<1>1. Elements(secure) \subseteq Conns /\ Elements(free) \subseteq Conns
  BY DEF Inv, PoolConserved, Pool
<1>2. ASSUME NEW d \in Elements(secure') PROVE Secured(d)'
  <2>1. CASE d = c
    BY <1>2, <2>1
  <2>2. CASE d # c
    <3>1. d \in Elements(secure) /\ d \in Conns \ {c}
      BY <1>1, <1>2, <2>2
    <3> QED
      BY <3>1 DEF SInv, SecureOwnSocket, SecureIsWatched, Secured
  <2> QED
    BY <2>1, <2>2
<1>3. ASSUME NEW d \in Elements(free') PROVE Owned(fds', d) = {}
  BY <1>1, <1>3 DEF SInv, SecureOwnSocket
<1> QED
  BY <1>2, <1>3 DEF SInv, SecureOwnSocket, SecureIsWatched, Secured

(* What filing does to the two lists.                                      *)
LEMMA FiledElements ==
  ASSUME Inv, free # <<>>, NEW ok \in BOOLEAN, Filed(Top(free), ok)
  PROVE  /\ Top(free) \in Pool /\ Top(free) \in Elements(free) /\ Top(free) \notin Elements(secure)
         /\ Elements(free') \subseteq Elements(free)
         /\ Elements(secure') \subseteq Elements(secure) \cup {Top(free)}
         /\ ok => Top(free) \notin Elements(free')
         /\ ~ok => Top(free) \notin Elements(secure')
<1> DEFINE c == Top(free)
           rest == Popped(free)
<1>1. free \in Seq(Pool) /\ secure \in Seq(Pool)
  BY DEF Inv, TypeOK
<1>2. /\ rest \in Seq(Pool) /\ c \in Pool
      /\ Elements(free) = Elements(rest) \cup {c}
      /\ c \notin Elements(rest)
  BY <1>1, TopPopped DEF Inv, PoolConserved
<1>3. c \notin Elements(secure)
  BY <1>2 DEF Inv, PoolConserved
<1>4. CASE ok
  <2>1. free' = rest /\ secure' = Append(secure, c)
    BY <1>4 DEF Filed
  <2>2. Elements(Append(secure, c)) = Elements(secure) \cup {c}
    BY <1>1, <1>2, Appended
  <2> HIDE DEF c, rest
  <2>3. Elements(free') = Elements(rest) /\ Elements(secure') = Elements(secure) \cup {c}
    BY <2>1, <2>2
  <2> QED
    BY <1>2, <1>3, <1>4, <2>3 DEF c
<1>5. CASE ~ok
  <2>1. free' = Append(rest, c) /\ secure' = secure
    BY <1>5 DEF Filed
  <2>2. Elements(Append(rest, c)) = Elements(rest) \cup {c}
    BY <1>2, Appended
  <2> HIDE DEF c, rest
  <2>3. Elements(free') = Elements(free) /\ Elements(secure') = Elements(secure)
    BY <1>2, <2>1, <2>2
  <2> QED
    BY <1>2, <1>3, <1>5, <2>3 DEF c
<1> QED
  BY <1>4, <1>5

LEMMA SameSockets ==
  ASSUME SInv, UNCHANGED <<fds, handle, status, free, secure>>
  PROVE  SInv'
  BY DEF SInv, SecureOwnSocket, SecureIsWatched

LEMMA NextSInv ==
  ASSUME Inv, SInv, [Next]_vars
  PROVE  SInv'
<1>0. fds \in [Fds -> Descriptors] /\ handle \in [Conns -> HandleValues] /\ DOMAIN status = Conns
  BY DEF Inv, TypeOK, SInv
<1>1. CASE Open
  <2> DEFINE o == [listen |-> TRUE, noblock |-> TRUE]
  <2>0. PICK b \in BOOLEAN : \E r \in CreateOutcomes(fds, Server, o, b) :
          /\ fds' = r.fds
          /\ handle' = [handle EXCEPT ![Server] = r.handle]
          /\ status' = [status EXCEPT ![Server] = {r.status} \ {"none"}]
    BY <1>1 DEF Open
  <2>1. PICK r \in CreateOutcomes(fds, Server, o, b) :
          /\ fds' = r.fds
          /\ handle' = [handle EXCEPT ![Server] = r.handle]
          /\ status' = [status EXCEPT ![Server] = {r.status} \ {"none"}]
    BY <2>0
  <2> HIDE DEF o
  <2>2. Server \in Conns /\ Server \notin Elements(secure) /\ Server \notin Elements(free)
    BY TcpAssumption DEF Inv, PoolConserved, Pool
  <2>3. \A d \in Conns \ {Server} : Owned(fds', d) \in {Owned(fds, d), Owned(fds, d) \ {0}}
    BY <1>0, <2>1, <2>2, CreateOwned
  <2>4. secure' = secure /\ free' = free
    BY <1>1 DEF Open, lists
  <2> QED
    BY <1>0, <2>1, <2>2, <2>3, <2>4, OneObject
<1>2. CASE ConnectNext
  <2> DEFINE a == Top(toConnect)
             o == [listen |-> FALSE, noblock |-> TRUE]
  <2>1. PICK c \in Pool : c = Top(free)
    BY <1>2, TopPopped DEF ConnectNext, Inv, TypeOK
  <2>2. PICK r \in CreateOutcomes(fds, c, o, a \notin Unresolved) :
          \/ Fault("secure") \/ Fault("failed")
          \/ /\ fds' = r.fds
             /\ handle' = [handle EXCEPT ![c] = r.handle]
             /\ status' = [status EXCEPT ![c] = FlagsAfter(r)]
             /\ Filed(c, r.result = 0)
    BY <1>2, <2>1 DEF ConnectNext
  <2>3. CASE Fault("secure") \/ Fault("failed")
    BY <2>3, SameSockets DEF Fault, kernel, objects, lists
  <2>4. CASE ~Fault("secure") /\ ~Fault("failed")
    <3>1. /\ fds' = r.fds
          /\ handle' = [handle EXCEPT ![c] = r.handle]
          /\ status' = [status EXCEPT ![c] = FlagsAfter(r)]
          /\ Filed(c, r.result = 0)
      BY <2>2, <2>4, Zenon
    <3>2. /\ c \in Elements(free) /\ c \notin Elements(secure)
          /\ Elements(free') \subseteq Elements(free)
          /\ Elements(secure') \subseteq Elements(secure) \cup {c}
          /\ r.result = 0 => c \notin Elements(free')
          /\ r.result # 0 => c \notin Elements(secure')
      BY <1>2, <2>1, <3>1, FiledElements DEF ConnectNext
    <3>3. c \in Conns /\ Owned(fds, c) = {}
      BY <3>2 DEF Pool, SInv, SecureOwnSocket
    <3>4. (a \notin Unresolved) \in BOOLEAN
      OBVIOUS
    <3> HIDE DEF a, o
    <3>5. /\ \A d \in Conns \ {c} : Owned(fds', d) \in {Owned(fds, d), Owned(fds, d) \ {0}}
          /\ r.result = 0 => Owned(fds', c) \ {0} = {r.handle} \ {0}
          /\ r.result # 0 => Owned(fds', c) = {}
      BY <1>0, <2>2, <3>1, <3>3, <3>4, CreateOwned
    <3>6. r.result = 0 => Secured(c)'
      BY <1>0, <3>1, <3>3, <3>5 DEF Secured, FlagsAfter, ConnectFlags
    <3>7. /\ DOMAIN status' = DOMAIN status
          /\ \A d \in Conns \ {c} : handle'[d] = handle[d] /\ status'[d] = status[d]
      BY <1>0, <3>1
    <3> QED
      BY <3>2, <3>3, <3>5, <3>6, <3>7, OneObject
  <2> QED
    BY <2>3, <2>4
<1>3. CASE Accept
  <2> DEFINE Taken(c) == /\ \E f \in NewFds(fds) : /\ fds' = Opened(fds, f, "connected", c)
                                                   /\ handle' = [handle EXCEPT ![c] = f]
                         /\ status' = [status EXCEPT ![c] = AcceptFlags]
                         /\ Filed(c, TRUE)
  <2>1. \/ UNCHANGED <<fds, handle, status, free, secure>>
        \/ free # <<>> /\ Taken(Top(free))
    BY <1>3 DEF Accept, Fault, kernel, objects, lists
  <2>2. CASE UNCHANGED <<fds, handle, status, free, secure>>
    BY <2>2, SameSockets
  <2>3. CASE free # <<>> /\ Taken(Top(free))
    <3>1. PICK c \in Pool : c = Top(free)
      BY <2>3, TopPopped DEF Inv, TypeOK
    <3>2. /\ c \in Elements(free) /\ c \notin Elements(free')
          /\ Elements(free') \subseteq Elements(free)
          /\ Elements(secure') \subseteq Elements(secure) \cup {c}
      BY <2>3, <3>1, FiledElements
    <3>3. c \in Conns /\ Owned(fds, c) = {}
      BY <3>2 DEF Pool, SInv, SecureOwnSocket
    <3>5. PICK g \in ClosedFds(fds) : /\ fds' = Opened(fds, g, "connected", c)
                                     /\ handle' = [handle EXCEPT ![c] = g]
      BY <2>3, <3>1 DEF NewFds
    <3>6. /\ Owned(fds', c) = {g}
          /\ \A d \in Conns \ {c} : Owned(fds', d) = Owned(fds, d)
      BY <1>0, <2>3, <3>1, <3>3, <3>5, OpenedOwned
    <3>7. /\ handle' = [handle EXCEPT ![c] = g]
          /\ status' = [status EXCEPT ![c] = AcceptFlags]
      BY <2>3, <3>1, <3>5
    <3>8. Secured(c)'
      BY <1>0, <3>3, <3>6, <3>7 DEF Secured, AcceptFlags
    <3>9. /\ DOMAIN status' = DOMAIN status
          /\ \A d \in Conns \ {c} : handle'[d] = handle[d] /\ status'[d] = status[d]
      BY <1>0, <3>7
    <3> QED
      BY <3>2, <3>3, <3>6, <3>8, <3>9, OneObject
  <2> QED
    BY <2>1, <2>2, <2>3
<1>4. CASE ~Open /\ ~ConnectNext /\ ~Accept
  <2>1. UNCHANGED <<fds, handle, status, free, secure>>
    BY <1>4 DEF Next, Process, Close, Connect, Disconnect, EnterProcess, ConnectDropped,
       ConnectTaken, ConnectFaults, ConnectsDone, Select, SelectFaults, AcceptNothing, LoopOverOpen, PeerConnects,
       PeerGivesUp, Fault, vars, kernel, objects, lists
  <2> QED
    BY <2>1, SameSockets
<1> QED
  BY <1>1, <1>2, <1>3, <1>4

LEMMA InitSInv == Init => SInv
<1>1. Init => secure = <<>> /\ \A f \in Fds : fds[f].owner = World
  BY DEF Init, Closed
<1>2. Init => Elements(free) \subseteq Conns
  BY DEF Init, Pool
<1>3. Init => DOMAIN status = Conns
  BY DEF Init
<1>4. \A c \in Conns : World # c
  BY DescriptorAssumption
<1> QED
  BY <1>1, <1>2, <1>3, <1>4, EmptyList DEF SInv, SecureOwnSocket, SecureIsWatched, Owned

(* Every connection to be secured has its own socket, descriptor 0 apart,  *)
(* and is watched in one direction, whatever fails and whoever accepts.    *)
THEOREM SocketsCorrect == Spec => [](SecureOwnSocket /\ SecureIsWatched)
<1>1. Inv /\ SInv /\ [Next]_vars => SInv'
  BY NextSInv
<1> QED
  BY <1>1, InitSInv, InitInv, NextInv, PTL DEF Spec, SInv

-----------------------------------------------------------------------------
(* The other connections.  The object a step touches comes from the pool,    *)
(* and the descriptors it opens or closes were closed before.              *)

(* Of a table u that comes after t.                                        *)
SocketsKept(t, u) == \A f \in Fds \ {0} : IsSocket(t, f) => u[f] = t[f]

Kept ==
  /\ \A c \in Elements(secure) :
       c \in Elements(secure') /\ handle'[c] = handle[c] /\ status'[c] = status[c]
  /\ SocketsKept(fds, fds')

LEMMA OpenedKeeps ==
  ASSUME NEW t \in [Fds -> Descriptors], NEW g \in ClosedFds(t), NEW k, NEW c
  PROVE  SocketsKept(t, Opened(t, g, k, c))
<1> SUFFICES ASSUME NEW f \in Fds, IsSocket(t, f) PROVE Opened(t, g, k, c)[f] = t[f]
  BY DEF SocketsKept
<1>1. f # g
  BY DEF IsSocket, ClosedFds, Closed, SocketKinds
<1> QED
  BY <1>1 DEF Opened

(* s_create_socket leaves every open socket alone but that of descriptor 0.*)
LEMMA CreateKeeps ==
  ASSUME NEW t \in [Fds -> Descriptors], NEW c \in Conns, NEW o, NEW b \in BOOLEAN,
         NEW r \in CreateOutcomes(t, c, o, b)
  PROVE  SocketsKept(t, r.fds)
<1>0. SocketsKept(t, t)
  BY DEF SocketsKept
<1>1. CASE r \in CreateResolved(t, c, o)
  <2>1. r.fds = t \/ \E g \in ClosedFds(t) : r.fds = Opened(t, g, EstablishedKind(o), c)
    BY <1>1 DEF CreateResolved, Outcome
  <2> QED
    BY <1>0, <2>1, OpenedKeeps
<1>2. CASE r \in CreateUnresolved(t, c)
  <2>1. r.fds = t \/ r.fds = CloseFd(t, 0)
    BY <1>2 DEF CreateUnresolved, Outcome
  <2> QED
    BY <1>0, <2>1 DEF CloseFd, SocketsKept
<1> QED
  BY <1>1, <1>2 DEF CreateOutcomes

LEMMA FiledGrows ==
  ASSUME Inv, free # <<>>, NEW ok \in BOOLEAN, Filed(Top(free), ok)
  PROVE  Elements(secure) \subseteq Elements(secure')
<1>1. free \in Seq(Pool) /\ secure \in Seq(Pool)
  BY DEF Inv, TypeOK
<1>2. PICK c \in Pool : c = Top(free)
  BY <1>1, TopPopped
<1>3. secure' = secure \/ secure' = Append(secure, c)
  BY <1>2 DEF Filed
<1>4. Elements(Append(secure, c)) = Elements(secure) \cup {c}
  BY <1>1, Appended
<1> QED
  BY <1>3, <1>4

(* A step that touches one object, which is not on the secure list.        *)
LEMMA OthersKept ==
  ASSUME Inv, NEW c \in Conns \ Elements(secure),
         \A d \in Conns \ {c} : handle'[d] = handle[d] /\ status'[d] = status[d],
         Elements(secure) \subseteq Elements(secure'),
         SocketsKept(fds, fds')
  PROVE  Kept
<1>1. Elements(secure) \subseteq Conns
  BY DEF Inv, PoolConserved, Pool
<1> QED
  BY <1>1 DEF Kept

LEMMA NextKept ==
  ASSUME Inv, SInv, [Next]_vars
  PROVE  Kept
<1>0. fds \in [Fds -> Descriptors] /\ handle \in [Conns -> HandleValues] /\ DOMAIN status = Conns
  BY DEF Inv, TypeOK, SInv
<1>1. CASE Open
  <2> DEFINE o == [listen |-> TRUE, noblock |-> TRUE]
  <2>0. PICK b \in BOOLEAN : \E r \in CreateOutcomes(fds, Server, o, b) :
          /\ fds' = r.fds
          /\ handle' = [handle EXCEPT ![Server] = r.handle]
          /\ status' = [status EXCEPT ![Server] = {r.status} \ {"none"}]
    BY <1>1 DEF Open
  <2>1. PICK r \in CreateOutcomes(fds, Server, o, b) :
          /\ fds' = r.fds
          /\ handle' = [handle EXCEPT ![Server] = r.handle]
          /\ status' = [status EXCEPT ![Server] = {r.status} \ {"none"}]
    BY <2>0
  <2> HIDE DEF o
  <2>2. Server \in Conns \ Elements(secure)
    BY TcpAssumption DEF Inv, PoolConserved, Pool
  <2>3. SocketsKept(fds, fds')
    BY <1>0, <2>1, <2>2, CreateKeeps
  <2>4. \A d \in Conns \ {Server} : handle'[d] = handle[d] /\ status'[d] = status[d]
    BY <1>0, <2>1
  <2>5. secure' = secure
    BY <1>1 DEF Open, lists
  <2> QED
    BY <2>2, <2>3, <2>4, <2>5, OthersKept
<1>2. CASE ConnectNext
  <2> DEFINE a == Top(toConnect)
             o == [listen |-> FALSE, noblock |-> TRUE]
  <2>1. PICK c \in Pool : c = Top(free)
    BY <1>2, TopPopped DEF ConnectNext, Inv, TypeOK
  <2>2. PICK r \in CreateOutcomes(fds, c, o, a \notin Unresolved) :
          \/ Fault("secure") \/ Fault("failed")
          \/ /\ fds' = r.fds
             /\ handle' = [handle EXCEPT ![c] = r.handle]
             /\ status' = [status EXCEPT ![c] = FlagsAfter(r)]
             /\ Filed(c, r.result = 0)
    BY <1>2, <2>1 DEF ConnectNext
  <2>3. CASE Fault("secure") \/ Fault("failed")
    BY <2>3 DEF Fault, kernel, objects, lists, Kept, SocketsKept
  <2>4. CASE ~Fault("secure") /\ ~Fault("failed")
    <3>1. /\ fds' = r.fds
          /\ handle' = [handle EXCEPT ![c] = r.handle]
          /\ status' = [status EXCEPT ![c] = FlagsAfter(r)]
          /\ Filed(c, r.result = 0)
      BY <2>2, <2>4, Zenon
    <3>2. c \in Conns \ Elements(secure) /\ Elements(secure) \subseteq Elements(secure')
      BY <1>2, <2>1, <3>1, FiledElements, FiledGrows DEF ConnectNext, Pool
    <3>3. (a \notin Unresolved) \in BOOLEAN
      OBVIOUS
    <3> HIDE DEF a, o
    <3>4. SocketsKept(fds, fds')
      BY <1>0, <3>1, <3>2, <3>3, CreateKeeps
    <3>5. \A d \in Conns \ {c} : handle'[d] = handle[d] /\ status'[d] = status[d]
      BY <1>0, <3>1
    <3> QED
      BY <3>2, <3>4, <3>5, OthersKept
  <2> QED
    BY <2>3, <2>4
<1>3. CASE Accept
  <2> DEFINE Taken(c) == /\ \E f \in NewFds(fds) : /\ fds' = Opened(fds, f, "connected", c)
                                                   /\ handle' = [handle EXCEPT ![c] = f]
                         /\ status' = [status EXCEPT ![c] = AcceptFlags]
                         /\ Filed(c, TRUE)
  <2>1. \/ UNCHANGED <<fds, handle, status, free, secure>>
        \/ free # <<>> /\ Taken(Top(free))
    BY <1>3 DEF Accept, Fault, kernel, objects, lists
  <2>2. CASE UNCHANGED <<fds, handle, status, free, secure>>
    BY <2>2 DEF Kept, SocketsKept
  <2>3. CASE free # <<>> /\ Taken(Top(free))
    <3>1. PICK c \in Pool : c = Top(free)
      BY <2>3, TopPopped DEF Inv, TypeOK
    <3>2. c \in Conns \ Elements(secure) /\ Elements(secure) \subseteq Elements(secure')
      BY <2>3, <3>1, FiledElements, FiledGrows DEF Pool
    <3>3. PICK g \in ClosedFds(fds) : /\ fds' = Opened(fds, g, "connected", c)
                                     /\ handle' = [handle EXCEPT ![c] = g]
      BY <2>3, <3>1 DEF NewFds
    <3>4. status' = [status EXCEPT ![c] = AcceptFlags]
      BY <2>3, <3>1
    <3>5. \A d \in Conns \ {c} : handle'[d] = handle[d] /\ status'[d] = status[d]
      BY <1>0, <3>3, <3>4
    <3>6. SocketsKept(fds, fds')
      BY <1>0, <3>3, OpenedKeeps
    <3> QED
      BY <3>2, <3>5, <3>6, OthersKept
  <2> QED
    BY <2>1, <2>2, <2>3
<1>4. CASE ~Open /\ ~ConnectNext /\ ~Accept
  <2>1. UNCHANGED <<fds, handle, status, free, secure>>
    BY <1>4 DEF Next, Process, Close, Connect, Disconnect, EnterProcess, ConnectDropped,
       ConnectTaken, ConnectFaults, ConnectsDone, Select, SelectFaults, AcceptNothing, LoopOverOpen, PeerConnects,
       PeerGivesUp, Fault, vars, kernel, objects, lists
  <2> QED
    BY <2>1 DEF Kept, SocketsKept
<1> QED
  BY <1>1, <1>2, <1>3, <1>4

(* A socket of a connection object is a socket.                            *)
LEMMA OwnedIsSocket ==
  ASSUME NEW t \in [Fds -> Descriptors], NEW c \in Conns, NEW f \in Owned(t, c)
  PROVE  IsSocket(t, f)
<1>1. f \in Fds /\ t[f].owner = c /\ t[f] \in Descriptors
  BY DEF Owned
<1> QED
  BY <1>1, DescriptorAssumption DEF IsSocket, Descriptors, Closed

LEMMA KeptUntouched ==
  ASSUME Inv, Kept, NEW c \in Elements(secure)
  PROVE  /\ c \in Elements(secure') \cup Elements(open')
         /\ handle'[c] = handle[c] /\ status'[c] = status[c]
         /\ \A f \in Owned(fds, c) \ {0} : fds'[f] = fds[f]
<1>1. c \in Conns /\ fds \in [Fds -> Descriptors]
  BY DEF Inv, TypeOK, PoolConserved, Pool
<1>2. ASSUME NEW f \in Owned(fds, c) \ {0} PROVE fds'[f] = fds[f]
  <2>1. IsSocket(fds, f) /\ f \in Fds \ {0}
    BY <1>1, <1>2, OwnedIsSocket DEF Owned
  <2> QED
    BY <2>1 DEF Kept, SocketsKept
<1> QED
  BY <1>2 DEF Kept

(* No step of the user, of process() or of a peer takes a connection off   *)
(* the secure list, changes it there, or closes its socket.                *)
THEOREM OthersUntouchedCorrect == Spec => OthersUntouched
<1>1. Spec => [](Inv /\ SInv)
  BY InitSInv, InitInv, NextInv, NextSInv, PTL DEF Spec
<1>2. Inv /\ SInv /\ [Next]_vars =>
        [pc' # "closed" =>
           \A c \in Elements(secure) :
             /\ c \in Elements(secure') \cup Elements(open')
             /\ handle'[c] = handle[c] /\ status'[c] = status[c]
             /\ \A f \in Owned(fds, c) \ {0} : fds'[f] = fds[f]]_vars
  BY NextKept, KeptUntouched
<1> QED
  BY <1>1, <1>2, PTL DEF Spec, OthersUntouched

-----------------------------------------------------------------------------
(* Faults.  Each array is written where a bound is not looked at:          *)
(*   m_to_connect holds what was asked for since process() emptied it;     *)
(*   failed_connections grows as m_to_connect shrinks;                     *)
(*   the secure list never holds the object on top of the pool;            *)
(*   a handle is a descriptor, but for the server's before open().         *)

FaultStops == fault # "none" => pc = "fault"

RequestsFit ==
  /\ pc \in {"idle", "closed"} => Len(toConnect) <= asked /\ Len(toConnect) <= RequestCap
  /\ pc = "connect" => failed + Len(toConnect) <= left + RequestCap
  /\ pc \in {"select", "accept", "open"} => toConnect = <<>>

HandlesFit ==
  /\ \A c \in Pool : handle[c] \in Handles
  /\ opens > 0 => handle[Server] \in Handles

FInv == Inv /\ FaultStops /\ RequestsFit /\ HandlesFit /\ ArraysHold

LEMMA SecureFits ==
  ASSUME Inv, free # <<>>, Cardinality(Pool) <= ArrayCap
  PROVE  Len(secure) < ArrayCap
<1> DEFINE c == Top(free)
           n == Len(secure)
           rest == Pool \ {c}
<1>0. free \in Seq(Pool) /\ secure \in Seq(Pool)
  BY DEF Inv, TypeOK
<1>1. c \in Pool /\ c \in Elements(free)
  <2>1. c \in Pool /\ Elements(free) = Elements(Popped(free)) \cup {c}
    BY <1>0, TopPopped, Zenon
  <2> QED
    BY <2>1
<1>2. n \in Nat /\ DOMAIN secure = 1 .. n /\ \A i \in 1 .. n : secure[i] \in rest
  <2>1. n \in Nat /\ DOMAIN secure = 1 .. n /\ \A i \in 1 .. n : secure[i] \in Pool
    BY <1>0
  <2>2. c \notin Elements(secure)
    BY <1>1 DEF Inv, PoolConserved
  <2>3. \A i \in 1 .. n : secure[i] # c
    BY <2>1, <2>2 DEF Elements
  <2> QED
    BY <2>1, <2>3
<1>3. secure \in Injection(1 .. n, rest)
  <2>1. secure \in [1 .. n -> rest]
    BY <1>2 DEF Inv, TypeOK
  <2> QED
    BY <1>2, <2>1 DEF Injection, IsInjective, Inv, PoolConserved, Once
<1>4. IsFiniteSet(Pool)
  BY TcpAssumption, FS_Subset DEF Pool
<1>5. IsFiniteSet(rest) /\ Cardinality(rest) = Cardinality(Pool) - 1 /\ Cardinality(Pool) \in Nat
  BY <1>1, <1>4, FS_RemoveElement, FS_CardinalityType
<1>6. Cardinality(1 .. n) <= Cardinality(rest)
  BY <1>3, <1>5, FS_Injection
<1>7. Cardinality(1 .. n) = n
  <2> HIDE DEF n
  <2>1. 1 \in Int /\ n \in Int /\ n >= 0
    BY <1>2
  <2>2. Cardinality(1 .. n) = IF 1 > n THEN 0 ELSE n - 1 + 1
    BY <2>1, FS_Interval
  <2> QED
    BY <2>1, <2>2
<1> QED
  BY <1>2, <1>5, <1>6, <1>7, TcpAssumption

(* A fault of a cause the arrays allow.                                    *)
LEMMA FaultFInv ==
  ASSUME FInv, NEW at \in Faults, Fault(at), fault = "none",
         at = "secure" => Cardinality(Pool) > ArrayCap,
         at = "connect" => asked >= RequestCap,
         at = "failed" => left + RequestCap > FailedCap,
         at = "set" => opens = 0 \/ MaxFd >= SetSize
  PROVE  FaultStops' /\ RequestsFit' /\ HandlesFit' /\ ArraysHold'
  BY DEF FInv, Fault, FaultStops, RequestsFit, HandlesFit, ArraysHold, report, requests, objects

(* A step that causes no fault and changes no count ArraysHold speaks of,  *)
(* or follows none.                                                        *)
LEMMA NoFault ==
  ASSUME FInv, pc # "fault", fault' = fault
  PROVE  FaultStops' /\ ArraysHold'
  BY DEF FInv, FaultStops, ArraysHold

(* The open list has nothing but objects of the pool, nor has the secure.  *)
LEMMA SelectedFits ==
  ASSUME FInv, NEW f \in Selected, f >= SetSize
  PROVE  opens = 0 \/ MaxFd >= SetSize
<1>1. Elements(secure) \subseteq Pool /\ Elements(open) \subseteq Pool
  BY DEF FInv, Inv, PoolConserved
<1>2. PICK c \in Pool \cup {Server} : f = handle[c]
  BY <1>1 DEF Selected, Watched
<1>3. CASE handle[c] \in Handles
  BY <1>2, <1>3, DescriptorAssumption, TcpAssumption DEF Handles, Fds, InvalidSocket
<1>4. CASE handle[c] \notin Handles
  <2>1. c = Server /\ ~(opens > 0)
    BY <1>2, <1>4 DEF FInv, HandlesFit
  <2>2. opens \in Nat
    BY TcpAssumption DEF FInv, Inv, TypeOK
  <2> QED
    BY <2>1, <2>2
<1> QED
  BY <1>3, <1>4

LEMMA HandlesSame ==
  ASSUME HandlesFit, UNCHANGED <<handle, opens>>
  PROVE  HandlesFit'
  BY DEF HandlesFit

LEMMA NextFInv ==
  ASSUME FInv, [Next]_vars
  PROVE  FInv'
<1>1. Inv'
  BY NextInv DEF FInv
<1> SUFFICES FaultStops' /\ RequestsFit' /\ HandlesFit' /\ ArraysHold'
  BY <1>1 DEF FInv
<1>2. /\ toConnect \in Seq(Addresses) /\ asked \in Nat
      /\ failed \in 0 .. FailedCap /\ left \in 0 .. FailedCap
      /\ Server \notin Pool /\ DOMAIN handle = Conns /\ opens \in Nat
      /\ FailedCap \in Nat /\ RequestCap \in Nat
  BY TcpAssumption DEF FInv, Inv, TypeOK, Pool
<1>3. pc # "fault" => fault = "none"
  BY DEF FInv, FaultStops
<1>4. FaultStops /\ RequestsFit /\ HandlesFit /\ ArraysHold /\ Inv
  BY DEF FInv
<1>5. CASE Open
  <2> DEFINE o == [listen |-> TRUE, noblock |-> TRUE]
  <2>1. PICK b \in BOOLEAN : \E r \in CreateOutcomes(fds, Server, o, b) :
          handle' = [handle EXCEPT ![Server] = r.handle]
    BY <1>5 DEF Open
  <2>2. PICK r \in CreateOutcomes(fds, Server, o, b) :
          handle' = [handle EXCEPT ![Server] = r.handle]
    BY <2>1
  <2>3. o \in Options
    BY DEF Options
  <2> HIDE DEF o
  <2>4. r.handle \in Handles /\ Server \in Conns
    BY <1>4, <2>2, <2>3, CreateType, TcpAssumption DEF Inv, TypeOK
  <2>5. HandlesFit'
    BY <1>2, <1>4, <2>2, <2>4 DEF HandlesFit, Pool
  <2>6. pc # "fault" /\ fault' = fault /\ RequestsFit'
    BY <1>2, <1>4, <1>5 DEF Open, Idle, RequestsFit, requests
  <2> QED
    BY <2>5, <2>6, NoFault
<1>6. CASE Close
  <2>1. pc # "fault" /\ fault' = fault /\ RequestsFit'
    BY <1>4, <1>6 DEF Close, Idle, RequestsFit, requests
  <2>2. HandlesFit'
    BY <1>4, <1>6, HandlesSame DEF Close, objects
  <2> QED
    BY <2>1, <2>2, NoFault
<1>7. ASSUME NEW a \in Addresses, Connect(a)
      PROVE  FaultStops' /\ RequestsFit' /\ HandlesFit' /\ ArraysHold'
  <2>1. pc \in {"idle", "closed"}
    BY <1>7 DEF Connect, Idle
  <2>2. CASE Len(toConnect) < RequestCap
    <3>1. /\ toConnect' = Append(toConnect, a) /\ asked' = asked + 1
          /\ pc' = "idle" /\ fault' = fault /\ UNCHANGED <<handle, opens>>
      BY <1>7, <2>2 DEF Connect, objects
    <3>2. RequestsFit'
      BY <1>2, <1>4, <2>1, <2>2, <3>1 DEF RequestsFit
    <3> QED
      BY <1>4, <2>1, <3>1, <3>2, NoFault, HandlesSame
  <2>3. CASE ~(Len(toConnect) < RequestCap)
    <3>1. Fault("connect")
      BY <1>7, <2>3 DEF Connect
    <3>2. asked >= RequestCap
      BY <1>2, <1>4, <2>1, <2>3 DEF RequestsFit
    <3> QED
      BY <1>3, <2>1, <3>1, <3>2, FaultFInv DEF Faults
  <2> QED
    BY <2>2, <2>3
<1>8. CASE Disconnect
  <2>1. pc \in {"idle", "closed"}
    BY <1>8 DEF Disconnect, Idle
  <2>2. CASE toDisconnect < DisconnectCap
    <3>1. /\ UNCHANGED <<toConnect, asked, fault, handle, opens>> /\ pc' = "idle"
      BY <1>8, <2>2 DEF Disconnect, objects
    <3>2. RequestsFit'
      BY <1>4, <2>1, <3>1 DEF RequestsFit
    <3> QED
      BY <1>4, <2>1, <3>1, <3>2, NoFault, HandlesSame
  <2>3. CASE ~(toDisconnect < DisconnectCap)
    <3>1. Fault("disconnect")
      BY <1>8, <2>3 DEF Disconnect
    <3> QED
      BY <1>3, <2>1, <3>1, FaultFInv DEF Faults
  <2> QED
    BY <2>2, <2>3
<1>9. CASE EnterProcess
  <2>1. /\ pc \in {"idle", "closed"} /\ pc' = "connect" /\ fault' = fault
        /\ UNCHANGED <<toConnect, handle, opens>>
        /\ left' = failed' /\ failed' \in 0 .. FailedCap
    BY <1>9 DEF EnterProcess, Idle, objects
  <2>2. RequestsFit'
    BY <1>2, <1>4, <2>1 DEF RequestsFit
  <2> QED
    BY <1>4, <2>1, <2>2, NoFault, HandlesSame
<1>10. CASE ConnectNext
  <2> DEFINE a == Top(toConnect)
             o == [listen |-> FALSE, noblock |-> TRUE]
  <2>1. PICK c \in Pool : c = Top(free)
    BY <1>4, <1>10, TopPopped DEF ConnectNext, Inv, TypeOK
  <2>2. PICK r \in CreateOutcomes(fds, c, o, a \notin Unresolved) :
          \/ Len(secure) >= ArrayCap /\ Fault("secure")
          \/ failed >= FailedCap /\ Fault("failed")
          \/ /\ handle' = [handle EXCEPT ![c] = r.handle]
             /\ failed' \in {failed, failed + 1}
             /\ toConnect' = Popped(toConnect)
             /\ UNCHANGED <<asked, left, pc, fault, opens>>
    BY <1>10, <2>1 DEF ConnectNext
  <2>3. pc = "connect" /\ toConnect # <<>> /\ free # <<>>
    BY <1>10 DEF ConnectNext
  <2>4. Len(toConnect) \in Nat \ {0} /\ failed + Len(toConnect) <= left + RequestCap
    BY <1>2, <1>4, <2>3 DEF RequestsFit
  <2>5. CASE Len(secure) >= ArrayCap /\ Fault("secure")
    <3>1. Cardinality(Pool) > ArrayCap
      <4>1. Cardinality(Pool) \in Nat /\ Len(secure) \in Nat /\ ArrayCap \in Nat
        <5>1. IsFiniteSet(Pool)
          BY TcpAssumption, FS_Subset DEF Pool
        <5> QED
          BY <1>4, <5>1, FS_CardinalityType, TcpAssumption DEF Inv, TypeOK
      <4>2. ~(Cardinality(Pool) <= ArrayCap)
        BY <1>4, <2>3, <2>5, <4>1, SecureFits
      <4> QED
        BY <4>1, <4>2
    <3> QED
      BY <1>3, <2>3, <2>5, <3>1, FaultFInv DEF Faults
  <2>6. CASE failed >= FailedCap /\ Fault("failed")
    <3>1. left + RequestCap > FailedCap
      BY <1>2, <2>4, <2>6
    <3> QED
      BY <1>3, <2>3, <2>6, <3>1, FaultFInv DEF Faults
  <2>7. CASE /\ handle' = [handle EXCEPT ![c] = r.handle]
             /\ failed' \in {failed, failed + 1}
             /\ toConnect' = Popped(toConnect)
             /\ UNCHANGED <<asked, left, pc, fault, opens>>
    <3>1. o \in Options /\ c \in Conns /\ (a \notin Unresolved) \in BOOLEAN
      BY <2>1 DEF Options, Pool
    <3> HIDE DEF a, o
    <3>2. r.handle \in Handles
      BY <1>4, <3>1, CreateType DEF Inv, TypeOK
    <3>3. HandlesFit'
      BY <1>2, <1>4, <2>1, <2>7, <3>1, <3>2 DEF HandlesFit
    <3>4. Len(Popped(toConnect)) = Len(toConnect) - 1
      BY <1>2, <2>3, PoppedLength
    <3>5. RequestsFit'
      BY <1>2, <2>3, <2>4, <2>7, <3>4 DEF RequestsFit
    <3> QED
      BY <2>3, <2>7, <3>3, <3>5, NoFault
  <2> QED
    BY <2>2, <2>5, <2>6, <2>7
<1>11. CASE ConnectDropped \/ ConnectTaken
  <2>1. /\ pc = "connect" /\ toConnect # <<>> /\ toConnect' = Popped(toConnect)
        /\ UNCHANGED <<handle, failed, left, pc, fault, opens>>
    BY <1>11 DEF ConnectDropped, ConnectTaken, objects, report
  <2>2. Len(Popped(toConnect)) = Len(toConnect) - 1 /\ Len(toConnect) \in Nat
    BY <1>2, <2>1, PoppedLength
  <2>3. RequestsFit'
    BY <1>2, <1>4, <2>1, <2>2 DEF RequestsFit
  <2> QED
    BY <1>4, <2>1, <2>3, NoFault, HandlesSame
<1>12. CASE ConnectFaults
  BY <1>3, <1>12, FaultFInv DEF ConnectFaults, Faults
<1>13. CASE SelectFaults
  <2>1. opens = 0 \/ MaxFd >= SetSize
    BY <1>13, SelectedFits DEF SelectFaults
  <2> QED
    BY <1>3, <1>13, <2>1, FaultFInv DEF SelectFaults, Faults
<1>14. CASE ConnectsDone \/ Select \/ AcceptNothing \/ LoopOverOpen
  <2>1. /\ pc \in {"connect", "select", "accept", "open"}
        /\ pc' \in {"select", "accept", "open", "idle"}
        /\ fault' = fault /\ UNCHANGED <<toConnect, asked, handle, opens>>
        /\ toConnect = <<>>
    BY <1>4, <1>14 DEF ConnectsDone, Select, AcceptNothing, LoopOverOpen, RequestsFit, requests, objects
  <2>2. RequestsFit'
    BY <1>2, <2>1 DEF RequestsFit
  <2> QED
    BY <1>4, <2>1, <2>2, NoFault, HandlesSame
<1>15. CASE Accept
  <2>1. \/ free # <<>> /\ Len(secure) >= ArrayCap /\ Fault("secure")
        \/ /\ pc' = "open" /\ UNCHANGED <<requests, fault, opens>>
           /\ \/ handle' = handle
              \/ free # <<>> /\ \E f \in NewFds(fds) : handle' = [handle EXCEPT ![Top(free)] = f]
    BY <1>15 DEF Accept, objects
  <2>2. pc = "accept"
    BY <1>15 DEF Accept
  <2>3. CASE free # <<>> /\ Len(secure) >= ArrayCap /\ Fault("secure")
    <3>1. Cardinality(Pool) > ArrayCap
      <4>1. Cardinality(Pool) \in Nat /\ Len(secure) \in Nat /\ ArrayCap \in Nat
        <5>1. IsFiniteSet(Pool)
          BY TcpAssumption, FS_Subset DEF Pool
        <5> QED
          BY <1>4, <5>1, FS_CardinalityType, TcpAssumption DEF Inv, TypeOK
      <4>2. ~(Cardinality(Pool) <= ArrayCap)
        BY <1>4, <2>3, <4>1, SecureFits
      <4> QED
        BY <4>1, <4>2
    <3> QED
      BY <1>3, <2>2, <2>3, <3>1, FaultFInv DEF Faults
  <2>4. CASE /\ pc' = "open" /\ UNCHANGED <<requests, fault, opens>>
             /\ \/ handle' = handle
                \/ free # <<>> /\ \E f \in NewFds(fds) : handle' = [handle EXCEPT ![Top(free)] = f]
    <3>1. RequestsFit'
      BY <1>4, <2>2, <2>4 DEF RequestsFit, requests
    <3>2. HandlesFit'
      <4>1. CASE handle' = handle
        BY <1>4, <2>4, <4>1, HandlesSame
      <4>2. CASE free # <<>> /\ \E f \in NewFds(fds) : handle' = [handle EXCEPT ![Top(free)] = f]
        <5>1. PICK c \in Pool : c = Top(free)
          BY <1>4, <4>2, TopPopped DEF Inv, TypeOK
        <5>2. PICK f \in Fds : handle' = [handle EXCEPT ![c] = f]
          BY <4>2, <5>1 DEF NewFds, ClosedFds
        <5> QED
          BY <1>2, <1>4, <2>4, <5>1, <5>2 DEF HandlesFit, Handles, Pool
      <4> QED
        BY <2>4, <4>1, <4>2
    <3> QED
      BY <2>2, <2>4, <3>1, <3>2, NoFault
  <2> QED
    BY <2>1, <2>3, <2>4
<1>16. CASE PeerConnects \/ PeerGivesUp \/ UNCHANGED vars
  BY <1>4, <1>16 DEF PeerConnects, PeerGivesUp, vars, FaultStops, RequestsFit, HandlesFit,
     ArraysHold, requests, report, objects
<1> QED
  BY <1>5, <1>6, <1>7, <1>8, <1>9, <1>10, <1>11, <1>12, <1>13, <1>14, <1>15, <1>16 DEF Next, Process

LEMMA InitFInv == Init => FInv
<1> SUFFICES ASSUME Init PROVE FInv
  OBVIOUS
<1>1. \A c \in Pool : handle[c] = InvalidSocket
  BY DEF Init, Pool
<1>2. HandlesFit
  BY <1>1 DEF Init, HandlesFit, Handles
<1>3. FaultStops /\ RequestsFit /\ ArraysHold
  BY TcpAssumption DEF Init, FaultStops, RequestsFit, ArraysHold
<1> QED
  BY <1>2, <1>3, InitInv DEF FInv

(* Whatever the number of objects, requests and descriptors and the sizes  *)
(* of the arrays, a write past the end of one means that it was too small  *)
(* for what ArraysHold names: no order of calls, failures and accepts      *)
(* needs more room than that.                                              *)
THEOREM FaultsCorrect == Spec => []ArraysHold
<1>1. FInv /\ [Next]_vars => FInv'
  BY NextFInv
<1> QED
  BY <1>1, InitFInv, PTL DEF Spec, FInv
=============================================================================
