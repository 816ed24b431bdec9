------------------------- MODULE CreateSocketProofs -------------------------
(***************************************************************************)
(* What s_create_socket guarantees for every number of connections,        *)
(* descriptors and addresses, and every order of failures and of what      *)
(* other threads do between its system calls: which descriptors a          *)
(* connection owns is known at each system call.                           *)
(***************************************************************************)
EXTENDS CreateSocket, TLAPS

(* The system calls between socket() and the test of the handle.           *)
Making == {"reuseport", "reuseaddr", "establish"}

CallType ==
  /\ pc \in Making \cup {"idle", "socket", "check"}
  /\ call \in [conn: Conns, opt: Options, count: Nat, left: Nat,
               handle: Handles, status: Statuses]
  /\ call.left <= call.count

(* The descriptors of the connection in progress, and its handle: NULL     *)
(* before the first address is tried, -1 between two addresses.            *)
InProgress ==
  /\ pc # "idle" => result[conn] = -1
  /\ pc = "socket" =>
       Owned(fds, conn) = {} /\ mine = IF call.left = call.count THEN 0 ELSE InvalidSocket
  /\ pc \in Making => call.left > 0 /\ mine \in Fds /\ Owned(fds, conn) = {mine}
  /\ pc = "check" =>
       IF call.count = 0 THEN mine = 0 /\ Owned(fds, conn) = {}
       ELSE \/ mine = InvalidSocket /\ Owned(fds, conn) = {}
            \/ mine \in Fds /\ Owned(fds, conn) = {mine}

(* The other connections, and all of them between two calls. *)
AtRest ==
  \A c \in Conns : (pc = "idle" \/ c # conn) /\ result[c] = -1 => Owned(fds, c) = {}

CreateInv == TypeOK /\ CallType /\ InProgress /\ AtRest /\ SuccessOwnsHandle

-----------------------------------------------------------------------------
LEMMA HandlesAreIntegers ==
  Fds \subseteq Nat /\ 0 \in Fds /\ InvalidSocket = -1 /\ InvalidSocket \notin Fds
  BY DescriptorAssumption DEF Fds, InvalidSocket

LEMMA OpenedShape ==
  ASSUME NEW t \in [Fds -> Descriptors], NEW f \in Fds, NEW k, NEW o \in Conns \cup {World},
         [kind |-> k, owner |-> o] \in Descriptors,
         t[f] = Closed \/ t[f].owner = o
  PROVE  /\ Opened(t, f, k, o) \in [Fds -> Descriptors]
         /\ Owned(Opened(t, f, k, o), o) = Owned(t, o) \cup {f}
         /\ \A c \in Conns \ {o} : Owned(Opened(t, f, k, o), c) = Owned(t, c)
         /\ \A g \in Fds \ {f} : Opened(t, f, k, o)[g] = t[g]
  <1> DEFINE u == Opened(t, f, k, o)
  <1>1. /\ u \in [Fds -> Descriptors] /\ u[f].owner = o
        /\ \A g \in Fds \ {f} : u[g] = t[g]
    BY DEF Opened
  <1>2. t[f].owner \in {World, o}
    BY DEF Closed
  <1> HIDE DEF u
  <1>3. Owned(u, o) = Owned(t, o) \cup {f}
    BY <1>1 DEF Owned
  <1>4. \A c \in Conns \ {o} : Owned(u, c) = Owned(t, c)
    BY <1>1, <1>2, DescriptorAssumption DEF Owned
  <1>5. QED
    BY <1>1, <1>3, <1>4 DEF u

LEMMA ClosedShape ==
  ASSUME NEW t \in [Fds -> Descriptors], NEW f
  PROVE  /\ CloseFd(t, f) \in [Fds -> Descriptors]
         /\ \A c \in Conns : Owned(CloseFd(t, f), c) = Owned(t, c) \ {f}
         /\ \A g \in Fds \ {f} : CloseFd(t, f)[g] = t[g]
  <1>1. CloseFd(t, f) \in [Fds -> Descriptors]
    BY DEF CloseFd, Descriptors
  <1>2. \A g \in Fds : CloseFd(t, f)[g] = IF g = f THEN Closed ELSE t[g]
    BY DEF CloseFd
  <1>3. \A c \in Conns : Owned(CloseFd(t, f), c) = Owned(t, c) \ {f}
    BY <1>2, DescriptorAssumption DEF Owned, Closed
  <1>4. QED
    BY <1>1, <1>2, <1>3

(* A step that leaves a connection's descriptors, handle and result alone  *)
(* outside of a call keeps what is known of it.                            *)
LEMMA WorldKeeps ==
  ASSUME CreateInv, WorldOpens \/ WorldCloses
  PROVE  CreateInv'
  <1>1. /\ fds' \in [Fds -> Descriptors]
        /\ \A c \in Conns : Owned(fds', c) = Owned(fds, c)
    <2>1. CASE WorldOpens
      <3>1. PICK f \in NewFds(fds), k \in {"file", "connected"} : fds' = Opened(fds, f, k, World)
        BY <2>1 DEF WorldOpens
      <3>2. f \in Fds /\ fds[f] = Closed /\ [kind |-> k, owner |-> World] \in Descriptors
        BY DEF NewFds, ClosedFds, Descriptors
      <3>3. QED
        BY <3>1, <3>2, OpenedShape, DescriptorAssumption DEF CreateInv, TypeOK
    <2>2. CASE WorldCloses
      <3>1. PICK f \in Owned(fds, World) \ ClosedFds(fds) : fds' = CloseFd(fds, f)
        BY <2>2 DEF WorldCloses
      <3>2. \A c \in Conns : f \notin Owned(fds, c)
        BY DescriptorAssumption DEF Owned
      <3>3. /\ fds' \in [Fds -> Descriptors]
            /\ \A c \in Conns : Owned(fds', c) = Owned(fds, c) \ {f}
        BY <3>1, ClosedShape DEF CreateInv, TypeOK
      <3>4. QED
        BY <3>2, <3>3
    <2>3. QED
      BY <2>1, <2>2
  <1>2. /\ UNCHANGED handle /\ UNCHANGED status /\ UNCHANGED result
        /\ UNCHANGED pc /\ UNCHANGED call
    BY DEF WorldOpens, WorldCloses
  <1>3. conn \in Conns
    BY DEF CreateInv, CallType, conn
  <1>4. TypeOK' /\ CallType'
    BY <1>1, <1>2 DEF CreateInv, TypeOK, CallType
  <1>5. conn' = conn /\ mine' = mine /\ Owned(fds', conn) = Owned(fds, conn)
    BY <1>1, <1>2, <1>3 DEF conn, mine
  <1>6. InProgress'
    BY <1>2, <1>5 DEF CreateInv, InProgress
  <1>7. AtRest'
    BY <1>1, <1>2, <1>5 DEF CreateInv, AtRest
  <1>8. SuccessOwnsHandle'
    BY <1>2, <1>5 DEF CreateInv, SuccessOwnsHandle
  <1>9. QED
    BY <1>4, <1>6, <1>7, <1>8 DEF CreateInv

(* A step inside a call, which ends with the handle h and n addresses left.*)
LEMMA ContinueKeeps ==
  ASSUME CreateInv, pc # "idle",
         pc' \in Making \cup {"socket", "check"},
         UNCHANGED result, status' \in [Conns -> Statuses],
         NEW n \in Nat, n <= call.left, call' = [call EXCEPT !.left = n],
         NEW h \in Handles, handle' = [handle EXCEPT ![conn] = h],
         fds' \in [Fds -> Descriptors],
         \A c \in Conns \ {conn} : Owned(fds', c) = Owned(fds, c),
         pc' = "socket" =>
           Owned(fds', conn) = {} /\ h = IF n = call.count THEN 0 ELSE InvalidSocket,
         pc' \in Making => n > 0 /\ h \in Fds /\ Owned(fds', conn) = {h},
         pc' = "check" =>
           IF call.count = 0 THEN h = 0 /\ Owned(fds', conn) = {}
           ELSE \/ h = InvalidSocket /\ Owned(fds', conn) = {}
                \/ h \in Fds /\ Owned(fds', conn) = {h}
  PROVE  CreateInv'
  <1>1. /\ conn \in Conns /\ handle \in [Conns -> Handles] /\ result \in [Conns -> {0, -1}]
        /\ call \in [conn: Conns, opt: Options, count: Nat, left: Nat,
                     handle: Handles, status: Statuses]
        /\ call.left <= call.count
    BY DEF CreateInv, TypeOK, CallType, conn
  <1>2. /\ conn' = conn /\ mine' = h /\ call'.count = call.count /\ call'.left = n
        /\ call'.left <= call'.count
        /\ call' \in [conn: Conns, opt: Options, count: Nat, left: Nat,
                      handle: Handles, status: Statuses]
    BY <1>1 DEF conn, mine
  <1>3. TypeOK' /\ CallType'
    BY <1>1, <1>2 DEF TypeOK, CallType
  <1>4. pc' # "idle" /\ result'[conn] = -1
    BY DEF CreateInv, InProgress, Making
  <1>5. InProgress'
    BY <1>2, <1>4 DEF InProgress
  <1>6. AtRest'
    BY <1>2, <1>4 DEF CreateInv, AtRest
  <1>7. SuccessOwnsHandle'
    BY <1>4 DEF SuccessOwnsHandle
  <1>8. QED
    BY <1>3, <1>5, <1>6, <1>7 DEF CreateInv

(* The return of r with the handle h. *)
LEMMA ReturnKeeps ==
  ASSUME CreateInv, pc # "idle",
         NEW r \in {0, -1}, NEW h \in Handles, Return(r, h),
         fds' \in [Fds -> Descriptors],
         \A c \in Conns \ {conn} : Owned(fds', c) \subseteq Owned(fds, c),
         r = -1 => Owned(fds', conn) = {},
         r = 0 /\ call.count > 0 => Owned(fds', conn) = {h}
  PROVE  CreateInv'
  <1>1. /\ conn \in Conns /\ handle \in [Conns -> Handles] /\ result \in [Conns -> {0, -1}]
        /\ status \in [Conns -> Statuses]
        /\ call \in [conn: Conns, opt: Options, count: Nat, left: Nat,
                     handle: Handles, status: Statuses]
    BY DEF CreateInv, TypeOK, CallType, conn
  <1>2. /\ pc' = "idle" /\ handle' = [handle EXCEPT ![conn] = h]
        /\ result' = [result EXCEPT ![conn] = r] /\ UNCHANGED status
        /\ call' = [call EXCEPT !.left = 0, !.handle = InvalidSocket, !.status = "none"]
    BY DEF Return, SetHandle
  <1>3. "none" \in Statuses /\ InvalidSocket \in Handles
    BY DEF Statuses, Handles
  <1>4. /\ conn' = conn /\ mine' = h /\ call'.count = call.count /\ call'.left = 0
        /\ call' \in [conn: Conns, opt: Options, count: Nat, left: Nat,
                      handle: Handles, status: Statuses]
    BY <1>1, <1>2, <1>3 DEF conn, mine
  <1>5. TypeOK' /\ CallType'
    BY <1>1, <1>2, <1>4 DEF TypeOK, CallType
  <1>6. InProgress'
    BY <1>2 DEF InProgress, Making
  <1>7. AtRest'
    BY <1>1, <1>2 DEF CreateInv, AtRest
  <1>8. SuccessOwnsHandle'
    BY <1>1, <1>2, <1>4 DEF SuccessOwnsHandle
  <1>9. QED
    BY <1>5, <1>6, <1>7, <1>8 DEF CreateInv

(* A system call that closes the socket in progress, and what it leaves.   *)
LEMMA CloseMine ==
  ASSUME CreateInv, pc \in Making, fds' = CloseFd(fds, mine)
  PROVE  /\ fds' \in [Fds -> Descriptors] /\ Owned(fds', conn) = {}
         /\ \A c \in Conns \ {conn} : Owned(fds', c) = Owned(fds, c)
         /\ mine \in Fds /\ mine \in Handles
  <1>1. /\ fds \in [Fds -> Descriptors] /\ conn \in Conns
        /\ mine \in Fds /\ Owned(fds, conn) = {mine}
    BY DEF CreateInv, TypeOK, CallType, InProgress, conn
  <1>2. /\ fds' \in [Fds -> Descriptors]
        /\ \A c \in Conns : Owned(fds', c) = Owned(fds, c) \ {mine}
    BY <1>1, ClosedShape
  <1>3. \A c \in Conns \ {conn} : mine \notin Owned(fds, c)
    BY <1>1 DEF Owned
  <1>4. QED
    BY <1>1, <1>2, <1>3 DEF Handles

LEMMA ResolveKeeps ==
  ASSUME CreateInv, NEW c \in Conns, NEW o \in Requests, Resolve(c, o)
  PROVE  CreateInv'
  <1>1. PICK n \in AddrCounts :
          call' = [conn |-> c, opt |-> o, count |-> n, left |-> n,
                   handle |-> handle[c], status |-> status[c]]
    BY DEF Resolve
  <1>2. /\ pc = "idle" /\ pc' = "socket" /\ result[c] = -1
        /\ handle' = [handle EXCEPT ![c] = 0] /\ status' = [status EXCEPT ![c] = "none"]
        /\ UNCHANGED fds /\ UNCHANGED result
    BY DEF Resolve
  <1>3. n \in Nat /\ o \in Options /\ 0 \in Handles /\ "none" \in Statuses
    BY CreateAssumption, HandlesAreIntegers DEF Handles, Statuses
  <1>4. TypeOK'
    BY <1>2, <1>3 DEF CreateInv, TypeOK
  <1>5. CallType'
    BY <1>1, <1>2, <1>3 DEF CreateInv, TypeOK, CallType, Making
  <1>6. conn' = c /\ mine' = 0 /\ call'.left = n /\ call'.count = n
    BY <1>1, <1>2 DEF conn, mine, CreateInv, TypeOK
  <1>7. Owned(fds', c) = {} /\ result'[c] = -1
    BY <1>2 DEF CreateInv, AtRest
  <1>8. InProgress'
    BY <1>2, <1>6, <1>7 DEF InProgress, Making
  <1>9. AtRest' /\ SuccessOwnsHandle'
    BY <1>2 DEF CreateInv, AtRest, SuccessOwnsHandle
  <1>10. QED
    BY <1>4, <1>5, <1>8, <1>9 DEF CreateInv

LEMMA StepKeeps == CreateInv /\ Step => CreateInv'
  <1> SUFFICES ASSUME CreateInv, Step PROVE CreateInv'
    OBVIOUS
  <1>1. /\ conn \in Conns /\ handle \in [Conns -> Handles] /\ mine \in Handles
        /\ fds \in [Fds -> Descriptors] /\ status \in [Conns -> Statuses]
        /\ call \in [conn: Conns, opt: Options, count: Nat, left: Nat,
                     handle: Handles, status: Statuses]
        /\ call.left \in Nat /\ call.count \in Nat /\ call.left <= call.count
    BY DEF CreateInv, TypeOK, CallType, conn, mine
  <1>2. handle = [handle EXCEPT ![conn] = mine] /\ call = [call EXCEPT !.left = call.left]
    BY <1>1 DEF mine
  <1>3. InvalidSocket \in Handles /\ InvalidSocket \notin Fds /\ Fds \subseteq Handles
    BY HandlesAreIntegers DEF Handles
  <1>4. /\ pc = "socket" =>
             Owned(fds, conn) = {} /\ mine = IF call.left = call.count THEN 0 ELSE InvalidSocket
        /\ pc \in Making => call.left > 0 /\ mine \in Fds /\ Owned(fds, conn) = {mine}
        /\ pc = "check" =>
             IF call.count = 0 THEN mine = 0 /\ Owned(fds, conn) = {}
             ELSE \/ mine = InvalidSocket /\ Owned(fds, conn) = {}
                  \/ mine \in Fds /\ Owned(fds, conn) = {mine}
    BY DEF CreateInv, InProgress
  <1>5. ASSUME pc # "idle", TryNext, call.left > 0, UNCHANGED status,
               fds' \in [Fds -> Descriptors], Owned(fds', conn) = {},
               \A c \in Conns \ {conn} : Owned(fds', c) = Owned(fds, c)
        PROVE  CreateInv'
    <2>1. /\ handle' = [handle EXCEPT ![conn] = InvalidSocket]
          /\ call' = [call EXCEPT !.left = call.left - 1]
          /\ pc' = "socket" /\ UNCHANGED result
      BY <1>5 DEF TryNext, SetHandle
    <2>2. call.left - 1 \in Nat /\ call.left - 1 <= call.left /\ call.left - 1 # call.count
      BY <1>1, <1>5
    <2>3. pc' \in Making \cup {"socket", "check"} /\ pc' \notin Making /\ pc' # "check"
      BY <2>1 DEF Making
    <2>4. QED
      BY <1>1, <1>3, <1>5, <2>1, <2>2, <2>3, ContinueKeeps
  <1>6. CASE OutOfAddresses
    <2>1. /\ pc = "socket" /\ pc' = "check" /\ call.left = 0
          /\ UNCHANGED fds /\ UNCHANGED handle /\ UNCHANGED status /\ UNCHANGED result
          /\ UNCHANGED call
      BY <1>6 DEF OutOfAddresses, shared
    <2>2. pc' \in Making \cup {"socket", "check"} /\ pc' \notin Making
      BY <2>1 DEF Making
    <2>3. IF call.count = 0 THEN mine = 0 /\ Owned(fds', conn) = {}
          ELSE mine = InvalidSocket /\ Owned(fds', conn) = {}
      BY <1>4, <2>1
    <2>4. QED
      BY <1>1, <1>2, <2>1, <2>2, <2>3, ContinueKeeps
  <1>7. CASE Socket
    <2>1. PICK f \in NewFds(fds) : /\ fds' = Opened(fds, f, "unbound", conn)
                                  /\ handle' = [handle EXCEPT ![conn] = f]
      BY <1>7 DEF Socket, SetHandle
    <2>2. /\ pc = "socket" /\ pc' = "reuseport" /\ call.left > 0
          /\ UNCHANGED status /\ UNCHANGED result /\ UNCHANGED call
      BY <1>7 DEF Socket
    <2>3. f \in Fds /\ fds[f] = Closed
      BY DEF NewFds, ClosedFds
    <2>4. [kind |-> "unbound", owner |-> conn] \in Descriptors
      BY <1>1 DEF Descriptors, SocketKinds
    <2>5. /\ fds' \in [Fds -> Descriptors] /\ Owned(fds', conn) = {f}
          /\ \A c \in Conns \ {conn} : Owned(fds', c) = Owned(fds, c)
      BY <1>1, <1>4, <2>1, <2>2, <2>3, <2>4, OpenedShape
    <2>6. pc' \in Making \cup {"socket", "check"} /\ pc' # "socket" /\ pc' # "check"
      BY <2>2 DEF Making
    <2>7. f \in Handles /\ call.left <= call.left /\ pc # "idle"
      BY <1>1, <1>3, <2>2, <2>3
    <2>8. QED
      BY <1>1, <1>2, <2>1, <2>2, <2>3, <2>5, <2>6, <2>7, ContinueKeeps
  <1>8. CASE SocketFails
    <2>1. /\ pc = "socket" /\ call.left > 0 /\ TryNext /\ UNCHANGED fds /\ UNCHANGED status
      BY <1>8 DEF SocketFails
    <2>2. QED
      BY <1>1, <1>4, <1>5, <2>1
  <1>9. ASSUME pc \in Making, pc' \in Making, UNCHANGED <<shared, call>>
        PROVE  CreateInv'
    <2>1. /\ UNCHANGED fds /\ UNCHANGED handle /\ UNCHANGED status /\ UNCHANGED result
          /\ UNCHANGED call
      BY <1>9 DEF shared
    <2>2. pc # "idle" /\ pc' \in Making \cup {"socket", "check"} /\ pc' # "socket" /\ pc' # "check"
      BY <1>9 DEF Making
    <2>3. QED
      BY <1>1, <1>2, <1>4, <1>9, <2>1, <2>2, ContinueKeeps
  <1>10. ASSUME pc \in Making, fds' = CloseFd(fds, mine), NEW h \in Handles, Return(-1, h)
         PROVE  CreateInv'
    <2>1. pc # "idle" /\ -1 \in {0, -1}
      BY <1>10 DEF Making
    <2>2. /\ fds' \in [Fds -> Descriptors] /\ Owned(fds', conn) = {}
          /\ \A c \in Conns \ {conn} : Owned(fds', c) \subseteq Owned(fds, c)
      BY <1>10, CloseMine
    <2>3. QED
      BY <1>10, <2>1, <2>2, ReturnKeeps
  <1>11. CASE ReusePort
    <2>1. pc \in Making /\ "reuseaddr" \in Making
      BY <1>11 DEF ReusePort, Making
    <2>2. QED
      BY <1>1, <1>9, <1>10, <1>11, <2>1 DEF ReusePort
  <1>12. CASE ReuseAddr
    <2>1. pc \in Making /\ "establish" \in Making
      BY <1>12 DEF ReuseAddr, Making
    <2>2. QED
      BY <1>3, <1>9, <1>10, <1>12, <2>1 DEF ReuseAddr
  <1>13. CASE BindFails \/ ConnectFails
    <2>1. /\ pc = "establish" /\ fds' = CloseFd(fds, mine) /\ TryNext /\ UNCHANGED status
      BY <1>13 DEF BindFails, ConnectFails
    <2>2. pc \in Making /\ pc # "idle"
      BY <2>1 DEF Making
    <2>3. call.left > 0
      BY <1>4, <2>2
    <2>4. /\ fds' \in [Fds -> Descriptors] /\ Owned(fds', conn) = {}
          /\ \A c \in Conns \ {conn} : Owned(fds', c) = Owned(fds, c)
      BY <2>1, <2>2, CloseMine
    <2>5. QED
      BY <1>5, <2>1, <2>2, <2>3, <2>4
  <1>14. CASE ListenFails
    <2>1. pc \in Making
      BY <1>14 DEF ListenFails, Making
    <2>2. QED
      BY <1>3, <1>10, <1>14, <2>1 DEF ListenFails
  <1>15. CASE Establish
    <2>1. /\ pc = "establish" /\ pc' = "check"
          /\ fds' = Opened(fds, mine, EstablishedKind(call.opt), conn)
          /\ status' = [status EXCEPT ![conn] = EstablishedStatus(call.opt)]
          /\ UNCHANGED handle /\ UNCHANGED result /\ UNCHANGED call
      BY <1>15 DEF Establish, SetStatus
    <2>2. call.count > 0 /\ mine \in Fds /\ Owned(fds, conn) = {mine}
      BY <1>1, <1>4, <2>1 DEF Making
    <2>3. /\ EstablishedKind(call.opt) \in SocketKinds
          /\ EstablishedStatus(call.opt) \in Statuses
      BY DEF EstablishedKind, EstablishedStatus, SocketKinds, Statuses
    <2>4. status' \in [Conns -> Statuses]
      BY <1>1, <2>1, <2>3
    <2>5. [kind |-> EstablishedKind(call.opt), owner |-> conn] \in Descriptors
      BY <1>1, <2>3 DEF Descriptors
    <2>6. fds[mine].owner = conn
      BY <2>2 DEF Owned
    <2>7. /\ fds' \in [Fds -> Descriptors] /\ Owned(fds', conn) = {mine}
          /\ \A c \in Conns \ {conn} : Owned(fds', c) = Owned(fds, c)
      BY <1>1, <2>1, <2>2, <2>5, <2>6, OpenedShape
    <2>8. pc' \in Making \cup {"socket", "check"} /\ pc' # "socket" /\ pc' \notin Making
      BY <2>1 DEF Making
    <2>9. QED
      BY <1>1, <1>2, <2>1, <2>2, <2>4, <2>7, <2>8, ContinueKeeps
  <1>16. ASSUME pc = "check", NEW h \in Handles, Return(-1, h), fds' = CloseFd(fds, mine)
         PROVE  CreateInv'
    <2>1. /\ fds' \in [Fds -> Descriptors]
          /\ \A c \in Conns : Owned(fds', c) = Owned(fds, c) \ {mine}
      BY <1>1, <1>16, ClosedShape
    <2>2. Owned(fds, conn) \subseteq {mine}
      BY <1>4, <1>16
    <2>3. /\ Owned(fds', conn) = {}
          /\ \A c \in Conns \ {conn} : Owned(fds', c) \subseteq Owned(fds, c)
      BY <1>1, <2>1, <2>2
    <2>4. pc # "idle" /\ -1 \in {0, -1}
      BY <1>16
    <2>5. QED
      BY <1>16, <2>1, <2>3, <2>4, ReturnKeeps
  <1>17. CASE NoSocket
    BY <1>3, <1>16, <1>17 DEF NoSocket
  <1>18. CASE GetSockName
    <2>1. /\ pc = "check" /\ IsSocket(fds, mine) /\ Return(0, mine) /\ UNCHANGED fds
      BY <1>18 DEF GetSockName
    <2>2. call.count > 0 => Owned(fds', conn) = {mine}
      BY <1>3, <1>4, <2>1 DEF IsSocket
    <2>3. pc # "idle" /\ 0 \in {0, -1} /\ 0 # -1
      BY <2>1
    <2>4. QED
      BY <1>1, <2>1, <2>2, <2>3, ReturnKeeps
  <1>19. CASE GetSockNameFails
    BY <1>1, <1>16, <1>19 DEF GetSockNameFails
  <1>20. QED
    BY <1>6, <1>7, <1>8, <1>11, <1>12, <1>13, <1>14, <1>15, <1>17, <1>18, <1>19 DEF Step

LEMMA InitShape == Init => CreateInv
  <1> SUFFICES ASSUME Init PROVE CreateInv
    OBVIOUS
  <1>1. PICK stdin \in {Closed} \cup [kind: {"file", "connected"}, owner: {World}] :
          fds = [f \in Fds |-> IF f = 0 THEN stdin ELSE Closed]
    BY DEF Init
  <1>2. Closed \in Descriptors /\ stdin \in Descriptors
    BY DEF Descriptors
  <1>3. stdin.owner = World /\ Closed.owner = World
    BY DEF Closed
  <1>4. fds \in [Fds -> Descriptors] /\ \A f \in Fds : fds[f].owner = World
    BY <1>1, <1>2, <1>3
  <1>5. \A c \in Conns : Owned(fds, c) = {}
    BY <1>4, DescriptorAssumption DEF Owned
  <1>6. /\ pc = "idle" /\ handle = [c \in Conns |-> InvalidSocket]
        /\ status = [c \in Conns |-> "none"] /\ result = [c \in Conns |-> -1]
        /\ call \in [conn: Conns, opt: Requests, count: {0}, left: {0},
                     handle: {InvalidSocket}, status: {"none"}]
    BY DEF Init
  <1>7. InvalidSocket \in Handles /\ "none" \in Statuses /\ Requests \subseteq Options
    BY CreateAssumption DEF Handles, Statuses
  <1>8. TypeOK
    BY <1>4, <1>6, <1>7 DEF TypeOK
  <1>9. call \in [conn: Conns, opt: Options, count: Nat, left: Nat,
                  handle: Handles, status: Statuses] /\ call.left <= call.count
    BY <1>6, <1>7
  <1>10. CallType
    BY <1>6, <1>9 DEF CallType
  <1>11. InProgress /\ AtRest
    BY <1>5, <1>6 DEF InProgress, AtRest, Making
  <1>12. SuccessOwnsHandle
    BY <1>6 DEF SuccessOwnsHandle
  <1>13. QED
    BY <1>8, <1>10, <1>11, <1>12 DEF CreateInv

LEMMA NextKeeps == CreateInv /\ [Next]_vars => CreateInv'
  <1> SUFFICES ASSUME CreateInv, [Next]_vars PROVE CreateInv'
    OBVIOUS
  <1>1. CASE \E c \in Conns, o \in Requests : Resolve(c, o)
    BY <1>1, ResolveKeeps
  <1>2. CASE Step
    BY <1>2, StepKeeps
  <1>3. CASE WorldOpens \/ WorldCloses
    BY <1>3, WorldKeeps
  <1>4. CASE UNCHANGED vars
    BY <1>4 DEF vars, shared, CreateInv, TypeOK, CallType, InProgress, AtRest,
                SuccessOwnsHandle, conn, mine, Owned
  <1>5. QED
    BY <1>1, <1>2, <1>3, <1>4 DEF Next

LEMMA AlwaysCreateInv == Spec => []CreateInv
  <1>1. QED
    BY InitShape, NextKeeps, PTL DEF Spec

(* Whatever system calls fail, on whatever addresses, a call that fails    *)
(* leaves no socket of its connection open, and one that succeeds on a     *)
(* name that resolves leaves exactly the socket its handle names.          *)
THEOREM DescriptorsCorrect == Spec => [](TypeOK /\ FailureClosesAll /\ SuccessOwnsHandle)
  <1>1. CreateInv => TypeOK /\ FailureClosesAll /\ SuccessOwnsHandle
    BY DEF CreateInv, AtRest, FailureClosesAll
  <1>2. QED
    BY <1>1, AlwaysCreateInv, PTL

-----------------------------------------------------------------------------
(* What a system call of s_create_socket does to the table.                *)
LEMMA StepTouches ==
  ASSUME CreateInv, Step
  PROVE  \/ UNCHANGED fds
         \/ pc \in Making \cup {"check"} /\ fds' = CloseFd(fds, mine)
         \/ \E f \in NewFds(fds) : fds' = Opened(fds, f, "unbound", conn)
         \/ pc \in Making /\ fds' = Opened(fds, mine, EstablishedKind(call.opt), conn)
  <1>1. CASE OutOfAddresses \/ SocketFails \/ GetSockName
    BY <1>1 DEF OutOfAddresses, SocketFails, GetSockName, shared
  <1>2. CASE Socket
    BY <1>2 DEF Socket
  <1>3. CASE ReusePort \/ ReuseAddr
    BY <1>3 DEF ReusePort, ReuseAddr, Making, shared
  <1>4. CASE BindFails \/ ListenFails \/ ConnectFails
    BY <1>4 DEF BindFails, ListenFails, ConnectFails, Making
  <1>5. CASE Establish
    BY <1>5 DEF Establish, Making
  <1>6. CASE NoSocket \/ GetSockNameFails
    BY <1>6 DEF NoSocket, GetSockNameFails
  <1>7. QED
    BY <1>1, <1>2, <1>3, <1>4, <1>5, <1>6 DEF Step

LEMMA StepKeepsForeign ==
  ASSUME CreateInv, Step, call.count > 0,
         NEW f \in Fds, fds[f] # Closed, fds[f].owner # conn
  PROVE  fds'[f] = fds[f]
  <1>1. fds \in [Fds -> Descriptors] /\ conn \in Conns
    BY DEF CreateInv, TypeOK, CallType, conn
  <1>2. f \notin Owned(fds, conn)
    BY DEF Owned
  <1>3. pc \in Making \cup {"check"} => f # mine
    BY <1>2, HandlesAreIntegers DEF CreateInv, InProgress
  <1>4. CASE UNCHANGED fds
    BY <1>4
  <1>5. CASE pc \in Making \cup {"check"} /\ fds' = CloseFd(fds, mine)
    BY <1>3, <1>5 DEF CloseFd
  <1>6. CASE \E g \in NewFds(fds) : fds' = Opened(fds, g, "unbound", conn)
    <2>1. PICK g \in NewFds(fds) : fds' = Opened(fds, g, "unbound", conn)
      BY <1>6
    <2>2. fds[g] = Closed /\ g # f
      BY DEF NewFds, ClosedFds
    <2>3. QED
      BY <1>1, <2>1, <2>2 DEF Opened
  <1>7. CASE pc \in Making /\ fds' = Opened(fds, mine, EstablishedKind(call.opt), conn)
    BY <1>1, <1>3, <1>7 DEF Opened
  <1>8. QED
    BY <1>4, <1>5, <1>6, <1>7, StepTouches

(* A call on a name that resolves touches no descriptor of anyone else,    *)
(* though other threads take and give back numbers between its steps.      *)
THEOREM ForeignCorrect == Spec => ForeignFdsKept
  <1>1. CreateInv /\ [Next]_vars =>
          [Step /\ call.count > 0 =>
             \A f \in Fds : fds[f] # Closed /\ fds[f].owner # conn => fds'[f] = fds[f]]_vars
    BY StepKeepsForeign
  <1>2. QED
    BY <1>1, AlwaysCreateInv, PTL DEF Spec, ForeignFdsKept

-----------------------------------------------------------------------------
(* What the step that returns finds: the options and the addresses are     *)
(* those of a request, and the status and the socket are those of an       *)
(* address on which everything succeeded, if there was one.                *)
AtReturn ==
  /\ pc # "idle" => call.opt \in Requests /\ call.count \in AddrCounts
  /\ pc \in Making \cup {"socket"} => status[conn] = "none"
  /\ pc = "check" =>
       IF call.count = 0 \/ mine = InvalidSocket THEN status[conn] = "none"
       ELSE /\ status[conn] = EstablishedStatus(call.opt)
            /\ fds[mine] = [kind |-> EstablishedKind(call.opt), owner |-> conn]

LEMMA Typed ==
  ASSUME CreateInv
  PROVE  /\ fds \in [Fds -> Descriptors] /\ handle \in [Conns -> Handles]
         /\ status \in [Conns -> Statuses] /\ result \in [Conns -> {0, -1}]
         /\ conn \in Conns /\ mine \in Handles /\ mine = handle[conn]
         /\ call \in [conn: Conns, opt: Options, count: Nat, left: Nat,
                      handle: Handles, status: Statuses]
         /\ call.left \in Nat /\ call.count \in Nat /\ call.left <= call.count
         /\ pc # "idle" => result[conn] = -1
         /\ pc \in Making => call.count > 0 /\ mine \in Fds /\ Owned(fds, conn) = {mine}
         /\ Owned(fds, conn) \subseteq {mine} \/ pc = "idle"
  <1>1. /\ fds \in [Fds -> Descriptors] /\ handle \in [Conns -> Handles]
        /\ status \in [Conns -> Statuses] /\ result \in [Conns -> {0, -1}]
        /\ conn \in Conns /\ mine \in Handles /\ mine = handle[conn]
        /\ call \in [conn: Conns, opt: Options, count: Nat, left: Nat,
                     handle: Handles, status: Statuses]
        /\ call.left \in Nat /\ call.count \in Nat /\ call.left <= call.count
    BY DEF CreateInv, TypeOK, CallType, conn, mine
  <1>2. pc \in Making => call.count > 0 /\ mine \in Fds /\ Owned(fds, conn) = {mine}
    BY <1>1 DEF CreateInv, InProgress
  <1>3. pc # "idle" => result[conn] = -1
    BY DEF CreateInv, InProgress
  <1>4. pc \in Making \cup {"idle", "socket", "check"}
    BY DEF CreateInv, CallType
  <1>5. Owned(fds, conn) \subseteq {mine} \/ pc = "idle"
    BY <1>2, <1>4 DEF CreateInv, InProgress
  <1>6. QED
    BY <1>1, <1>2, <1>3, <1>5

LEMMA WorldKeepsAtReturn ==
  ASSUME CreateInv, AtReturn, WorldOpens \/ WorldCloses
  PROVE  AtReturn'
  <1>1. /\ UNCHANGED handle /\ UNCHANGED status /\ UNCHANGED pc /\ UNCHANGED call
    BY DEF WorldOpens, WorldCloses
  <1>2. conn' = conn /\ mine' = mine
    BY <1>1 DEF conn, mine
  <1>3. ASSUME mine \in Fds, fds[mine].owner = conn PROVE fds'[mine] = fds[mine]
    <2>1. CASE WorldOpens
      <3>1. PICK f \in NewFds(fds), k \in {"file", "connected"} : fds' = Opened(fds, f, k, World)
        BY <2>1 DEF WorldOpens
      <3>2. f # mine
        BY <1>3, Typed, DescriptorAssumption DEF NewFds, ClosedFds, Closed
      <3>3. QED
        BY <1>3, <3>1, <3>2, Typed DEF Opened
    <2>2. CASE WorldCloses
      <3>1. PICK f \in Owned(fds, World) : fds' = CloseFd(fds, f)
        BY <2>2 DEF WorldCloses
      <3>2. f # mine
        BY <1>3, Typed, DescriptorAssumption DEF Owned
      <3>3. QED
        BY <1>3, <3>1, <3>2, Typed DEF CloseFd
    <2>3. QED
      BY <2>1, <2>2
  <1>4. pc = "check" /\ call.count # 0 /\ mine # InvalidSocket =>
          mine \in Fds /\ fds[mine].owner = conn
    BY DEF CreateInv, InProgress, Owned
  <1>5. QED
    BY <1>1, <1>2, <1>3, <1>4 DEF AtReturn

LEMMA StepKeepsAtReturn ==
  ASSUME CreateInv, AtReturn, Step
  PROVE  AtReturn'
  <1>1. ASSUME pc' = "idle" PROVE AtReturn'
    BY <1>1 DEF AtReturn, Making
  <1>2. ASSUME pc \in Making \cup {"socket"}, pc' \in Making \cup {"socket"},
               UNCHANGED status, conn' = conn, call'.opt = call.opt, call'.count = call.count
        PROVE  AtReturn'
    BY <1>2 DEF AtReturn, Making
  <1>3. ASSUME pc \in Making \cup {"socket"}, TryNext, UNCHANGED status PROVE AtReturn'
    <2>1. pc' = "socket" /\ call' = [call EXCEPT !.left = call.left - 1]
      BY <1>3 DEF TryNext
    <2>2. conn' = conn /\ call'.opt = call.opt /\ call'.count = call.count
      BY <2>1, Typed DEF conn
    <2>3. QED
      BY <1>2, <1>3, <2>1, <2>2
  <1>4. CASE OutOfAddresses
    <2>1. /\ pc = "socket" /\ pc' = "check" /\ call.left = 0
          /\ UNCHANGED handle /\ UNCHANGED status /\ UNCHANGED call
      BY <1>4 DEF OutOfAddresses, shared
    <2>2. conn' = conn /\ mine' = mine
      BY <2>1 DEF conn, mine
    <2>3. call.count = 0 \/ mine = InvalidSocket
      BY <2>1, Typed DEF CreateInv, InProgress
    <2>4. QED
      BY <2>1, <2>2, <2>3 DEF AtReturn, Making
  <1>5. CASE Socket
    <2>1. pc = "socket" /\ pc' = "reuseport" /\ UNCHANGED status /\ UNCHANGED call
      BY <1>5 DEF Socket
    <2>2. QED
      BY <1>2, <2>1 DEF Making, conn
  <1>6. CASE SocketFails
    BY <1>3, <1>6 DEF SocketFails
  <1>7. CASE ReusePort \/ ReuseAddr
    BY <1>1, <1>2, <1>7 DEF ReusePort, ReuseAddr, Return, shared, Making, conn
  <1>8. CASE BindFails \/ ConnectFails
    BY <1>3, <1>8 DEF BindFails, ConnectFails, Making
  <1>9. CASE ListenFails \/ NoSocket \/ GetSockName \/ GetSockNameFails
    BY <1>1, <1>9 DEF ListenFails, NoSocket, GetSockName, GetSockNameFails, Return
  <1>10. CASE Establish
    <2>1. /\ pc = "establish" /\ pc' = "check"
          /\ fds' = Opened(fds, mine, EstablishedKind(call.opt), conn)
          /\ status' = [status EXCEPT ![conn] = EstablishedStatus(call.opt)]
          /\ UNCHANGED handle /\ UNCHANGED call
      BY <1>10 DEF Establish, SetStatus
    <2>2. conn' = conn /\ mine' = mine /\ mine \in Fds /\ pc \in Making
      BY <2>1, Typed DEF conn, mine, Making
    <2>3. /\ status'[conn] = EstablishedStatus(call.opt)
          /\ fds'[mine] = [kind |-> EstablishedKind(call.opt), owner |-> conn]
      BY <2>1, <2>2, Typed DEF Opened
    <2>4. call.count # 0 /\ mine # InvalidSocket
      BY <2>2, Typed, HandlesAreIntegers
    <2>5. QED
      BY <2>1, <2>2, <2>3, <2>4 DEF AtReturn, Making
  <1>11. QED
    BY <1>4, <1>5, <1>6, <1>7, <1>8, <1>9, <1>10 DEF Step

LEMMA NextKeepsAtReturn == CreateInv /\ AtReturn /\ [Next]_vars => AtReturn'
  <1> SUFFICES ASSUME CreateInv, AtReturn, [Next]_vars PROVE AtReturn'
    OBVIOUS
  <1>1. CASE \E c \in Conns, o \in Requests : Resolve(c, o)
    <2>1. PICK c \in Conns, o \in Requests : Resolve(c, o)
      BY <1>1
    <2>2. PICK n \in AddrCounts :
            call' = [conn |-> c, opt |-> o, count |-> n, left |-> n,
                     handle |-> handle[c], status |-> status[c]]
      BY <2>1 DEF Resolve
    <2>3. pc' = "socket" /\ status' = [status EXCEPT ![c] = "none"]
      BY <2>1 DEF Resolve
    <2>4. conn' = c /\ call'.opt = o /\ call'.count = n /\ status'[c] = "none"
      BY <2>2, <2>3, Typed DEF conn
    <2>5. QED
      BY <2>3, <2>4 DEF AtReturn
  <1>2. CASE Step
    BY <1>2, StepKeepsAtReturn
  <1>3. CASE WorldOpens \/ WorldCloses
    BY <1>3, WorldKeepsAtReturn
  <1>4. CASE UNCHANGED vars
    BY <1>4 DEF vars, shared, AtReturn, conn, mine
  <1>5. QED
    BY <1>1, <1>2, <1>3, <1>4 DEF Next

-----------------------------------------------------------------------------
(* What the abstract specification sees. *)
SeenFds    == [f \in Fds |-> IF Busy(fds[f].owner) THEN Closed ELSE fds[f]]
SeenHandle == [c \in Conns |-> IF Busy(c) THEN call.handle ELSE handle[c]]
SeenStatus == [c \in Conns |-> IF Busy(c) THEN call.status ELSE status[c]]

LEMMA SameOutcomes ==
  \A t, c, o, b : Atomic!CreateOutcomes(t, c, o, b) = CreateOutcomes(t, c, o, b)
  BY DEF Atomic!CreateOutcomes, Atomic!CreateResolved, Atomic!CreateUnresolved, Atomic!Outcome,
         Atomic!Opened, Atomic!EstablishedKind, Atomic!EstablishedStatus, Atomic!ClosedFds,
         Atomic!CloseFd, Atomic!IsSocket, Atomic!InvalidSocket, Atomic!Fds, Atomic!Closed,
         Atomic!SocketKinds,
         CreateOutcomes, CreateResolved, CreateUnresolved, Outcome,
         Opened, EstablishedKind, EstablishedStatus, ClosedFds,
         CloseFd, IsSocket, InvalidSocket, Fds, Closed, SocketKinds

(* A step to pc = "idle" by one of the outcomes is the abstract Create.    *)
LEMMA ReturnIsCreate ==
  ASSUME CreateInv, AtReturn, pc # "idle", pc' = "idle",
         NEW r, r \in CreateOutcomes(SeenFds, conn, call.opt, call.count > 0),
         fds' \in [Fds -> Descriptors], r.fds = fds', r.status = status[conn], UNCHANGED status,
         handle' = [handle EXCEPT ![conn] = r.handle],
         result' = [result EXCEPT ![conn] = r.result]
  PROVE  Atomic!Next
  <1>1. ~Busy(conn)' /\ \A c : ~Busy(c)'
    BY DEF Busy
  <1>2. SeenFds' = fds'
    BY <1>1 DEF SeenFds, Busy
  <1>3. SeenHandle' = [SeenHandle EXCEPT ![conn] = r.handle]
    BY Typed DEF SeenHandle, Busy
  <1>4. SeenStatus' = [SeenStatus EXCEPT ![conn] = r.status]
    BY Typed DEF SeenStatus, Busy
  <1>5. conn \in Conns /\ call.opt \in Requests /\ call.count \in AddrCounts /\ result[conn] = -1
    BY Typed DEF AtReturn
  <1>6. r \in Atomic!CreateOutcomes(SeenFds, conn, call.opt, call.count > 0)
    BY SameOutcomes
  <1>7. (call.count > 0) \in {n > 0 : n \in AddrCounts}
    BY <1>5
  <1>8. PICK c \in Conns, o \in Requests : c = conn /\ o = call.opt
    BY <1>5
  <1>9. Atomic!Create(c, o)
    BY <1>2, <1>3, <1>4, <1>5, <1>6, <1>7, <1>8
       DEF Atomic!Create, SeenFds, SeenHandle, SeenStatus
  <1>10. QED
    BY <1>9 DEF Atomic!Next

LEMMA StepRefines ==
  ASSUME CreateInv, AtReturn, Step
  PROVE  Atomic!Next \/ UNCHANGED <<SeenFds, SeenHandle, SeenStatus, result>>
  <1> DEFINE Same == UNCHANGED <<SeenFds, SeenHandle, SeenStatus, result>>
             Hidden(d) == d = Closed \/ d.owner = conn
             OnlyMine == \A f \in Fds : fds'[f] = fds[f] \/ (Hidden(fds[f]) /\ Hidden(fds'[f]))
  <1> HIDE DEF OnlyMine
  <1>1. /\ fds \in [Fds -> Descriptors] /\ handle \in [Conns -> Handles]
        /\ status \in [Conns -> Statuses] /\ result \in [Conns -> {0, -1}]
        /\ conn \in Conns /\ mine \in Handles
        /\ call \in [conn: Conns, opt: Options, count: Nat, left: Nat,
                     handle: Handles, status: Statuses]
    BY Typed
  <1>2. fds' \in [Fds -> Descriptors]
    BY StepKeeps DEF CreateInv, TypeOK
  <1>3. pc # "idle"
    BY DEF Step, OutOfAddresses, Socket, SocketFails, ReusePort, ReuseAddr, BindFails,
           ListenFails, ConnectFails, Establish, NoSocket, GetSockName, GetSockNameFails
  (* A step inside the call, which ends with the handle h and the status t. *)
  <1>4. ASSUME pc' # "idle", UNCHANGED result,
               OnlyMine,
               NEW h \in Handles, handle' = [handle EXCEPT ![conn] = h],
               NEW t \in Statuses, status' = [status EXCEPT ![conn] = t],
               NEW n \in Int, call' = [call EXCEPT !.left = n]
        PROVE  Same
    <2>1. conn' = conn /\ call'.handle = call.handle /\ call'.status = call.status
      BY <1>1, <1>4 DEF conn
    <2>2. \A c : Busy(c)' <=> Busy(c)
      BY <1>3, <1>4, <2>1 DEF Busy
    <2>3. SeenHandle' = SeenHandle /\ SeenStatus' = SeenStatus
      BY <1>1, <1>3, <1>4, <2>1, <2>2 DEF SeenHandle, SeenStatus, Busy
    <2>4. ASSUME NEW f \in Fds
          PROVE  (IF Busy(fds'[f].owner) THEN Closed ELSE fds'[f])
                   = IF Busy(fds[f].owner) THEN Closed ELSE fds[f]
      BY <1>3, <1>4 DEF Busy, OnlyMine
    <2>5. SeenFds' = SeenFds
      BY <2>1, <2>2, <2>4 DEF SeenFds, Busy
    <2>6. QED
      BY <1>4, <2>3, <2>5
  <1>5. /\ handle = [handle EXCEPT ![conn] = mine] /\ mine \in Handles
        /\ status = [status EXCEPT ![conn] = status[conn]] /\ status[conn] \in Statuses
        /\ call = [call EXCEPT !.left = call.left]
        /\ call.left \in Int /\ call.left - 1 \in Int
        /\ InvalidSocket \in Handles /\ Fds \subseteq Handles
    BY <1>1, Typed DEF mine, Handles
  <1>6. pc \in Making => /\ mine \in Fds /\ fds[mine].owner = conn
                         /\ call.count > 0 /\ status[conn] = "none"
                         /\ Owned(fds, conn) \subseteq {mine}
    BY Typed DEF AtReturn, Owned
  <1>7. ASSUME pc \in Making, fds' = CloseFd(fds, mine)
        PROVE  OnlyMine
    <2>1. SUFFICES ASSUME NEW f \in Fds
                   PROVE  fds'[f] = fds[f] \/ (Hidden(fds[f]) /\ Hidden(fds'[f]))
      BY DEF OnlyMine
    <2>2. fds'[f] = IF f = mine THEN Closed ELSE fds[f]
      BY <1>7 DEF CloseFd
    <2>3. CASE f = mine
      BY <1>6, <1>7, <2>2, <2>3
    <2>4. CASE f # mine
      BY <2>2, <2>4
    <2>5. QED
      BY <2>3, <2>4
  (* A return that closes the socket in progress. *)
  <1>8. ASSUME Owned(fds, conn) \subseteq {mine}, fds' = CloseFd(fds, mine),
               mine \in Fds => fds[mine].owner = conn
        PROVE  fds' = SeenFds /\ (mine \in Fds => mine \in ClosedFds(SeenFds))
    <2>1. \A f \in Fds : fds'[f] = IF fds[f].owner = conn THEN Closed ELSE fds[f]
      BY <1>8 DEF CloseFd, Owned
    <2>2. fds' = SeenFds
      BY <1>2, <1>3, <2>1 DEF SeenFds, Busy
    <2>3. QED
      BY <1>8, <2>2 DEF ClosedFds, CloseFd
  <1>9. ASSUME pc \in Making, fds' = CloseFd(fds, mine), NEW h \in {mine, InvalidSocket}, Return(-1, h)
        PROVE  Atomic!Next
    <2>1. fds' = SeenFds /\ h \in ClosedFds(SeenFds) \cup {InvalidSocket}
      BY <1>6, <1>8, <1>9
    <2> DEFINE r == Outcome(SeenFds, h, "none", -1)
    <2>2. r \in CreateOutcomes(SeenFds, conn, call.opt, call.count > 0)
      BY <1>6, <1>9, <2>1 DEF CreateOutcomes, CreateResolved
    <2>3. r.fds = SeenFds /\ r.handle = h /\ r.status = "none" /\ r.result = -1
      BY DEF Outcome
    <2>4. /\ pc' = "idle" /\ handle' = [handle EXCEPT ![conn] = h]
          /\ result' = [result EXCEPT ![conn] = -1] /\ UNCHANGED status
      BY <1>9 DEF Return, SetHandle
    <2>5. PICK q : q = r
      OBVIOUS
    <2> HIDE DEF r
    <2>6. QED
      BY <1>2, <1>3, <1>6, <1>9, <2>1, <2>2, <2>3, <2>4, <2>5, ReturnIsCreate
  <1>10. CASE OutOfAddresses
    <2>1. /\ pc' = "check" /\ UNCHANGED fds /\ UNCHANGED handle /\ UNCHANGED status
          /\ UNCHANGED result /\ UNCHANGED call
      BY <1>10 DEF OutOfAddresses, shared
    <2>2. OnlyMine
      BY <2>1 DEF OnlyMine
    <2>3. QED
      BY <1>4, <1>5, <2>1, <2>2
  <1>11. CASE Socket
    <2>1. PICK f \in NewFds(fds) : /\ fds' = Opened(fds, f, "unbound", conn)
                                  /\ handle' = [handle EXCEPT ![conn] = f]
      BY <1>11 DEF Socket, SetHandle
    <2>2. pc' = "reuseport" /\ UNCHANGED status /\ UNCHANGED result /\ UNCHANGED call
      BY <1>11 DEF Socket
    <2>3. f \in Fds /\ fds[f] = Closed
      BY DEF NewFds, ClosedFds
    <2>4. fds'[f].owner = conn /\ \A g \in Fds \ {f} : fds'[g] = fds[g]
      BY <1>1, <2>1, <2>3 DEF Opened
    <2>5. OnlyMine /\ f \in Handles
      BY <1>5, <2>3, <2>4 DEF OnlyMine
    <2>6. QED
      BY <1>4, <1>5, <2>1, <2>2, <2>5
  <1>12. CASE SocketFails
    <2>1. /\ handle' = [handle EXCEPT ![conn] = InvalidSocket] /\ pc' = "socket"
          /\ call' = [call EXCEPT !.left = call.left - 1]
          /\ UNCHANGED fds /\ UNCHANGED status /\ UNCHANGED result
      BY <1>12 DEF SocketFails, TryNext, SetHandle
    <2>2. OnlyMine
      BY <2>1 DEF OnlyMine
    <2>3. QED
      BY <1>4, <1>5, <2>1, <2>2
  <1>13. CASE BindFails \/ ConnectFails
    <2>1. /\ handle' = [handle EXCEPT ![conn] = InvalidSocket] /\ pc' = "socket"
          /\ call' = [call EXCEPT !.left = call.left - 1]
          /\ UNCHANGED status /\ UNCHANGED result
      BY <1>13 DEF BindFails, ConnectFails, TryNext, SetHandle
    <2>2. pc \in Making /\ fds' = CloseFd(fds, mine)
      BY <1>13 DEF BindFails, ConnectFails, Making
    <2>3. QED
      BY <1>4, <1>5, <1>7, <2>1, <2>2
  <1>14. CASE ReusePort \/ ReuseAddr
    <2>1. pc \in Making
      BY <1>14 DEF ReusePort, ReuseAddr, Making
    <2>2. CASE pc' \in Making /\ UNCHANGED <<shared, call>>
      <3>1. /\ pc' # "idle" /\ UNCHANGED fds /\ UNCHANGED handle /\ UNCHANGED status
            /\ UNCHANGED result /\ UNCHANGED call
        BY <2>2 DEF shared, Making
      <3>2. OnlyMine
        BY <3>1 DEF OnlyMine
      <3>3. QED
        BY <1>4, <1>5, <3>1, <3>2
    <2>3. CASE fds' = CloseFd(fds, mine) /\ (Return(-1, mine) \/ Return(-1, InvalidSocket))
      BY <1>9, <2>1, <2>3
    <2>4. QED
      BY <1>14, <2>2, <2>3 DEF ReusePort, ReuseAddr, Making
  <1>15. CASE ListenFails
    BY <1>9, <1>15 DEF ListenFails, Making
  <1>16. CASE Establish
    <2>1. /\ pc = "establish" /\ pc' = "check"
          /\ fds' = Opened(fds, mine, EstablishedKind(call.opt), conn)
          /\ status' = [status EXCEPT ![conn] = EstablishedStatus(call.opt)]
          /\ UNCHANGED handle /\ UNCHANGED result /\ UNCHANGED call
      BY <1>16 DEF Establish, SetStatus
    <2>2. mine \in Fds /\ fds[mine].owner = conn
      BY <1>6, <2>1 DEF Making
    <2>3. fds'[mine].owner = conn /\ \A g \in Fds \ {mine} : fds'[g] = fds[g]
      BY <1>1, <2>1, <2>2 DEF Opened
    <2>4. pc' # "idle"
      BY <2>1
    <2> DEFINE t == EstablishedStatus(call.opt)
    <2>5. status' = [status EXCEPT ![conn] = t] /\ t \in Statuses
      BY <2>1 DEF EstablishedStatus, EstablishedKind, Statuses
    <2> HIDE DEF t
    <2>6. OnlyMine
      BY <2>2, <2>3 DEF OnlyMine
    <2>7. QED
      BY <1>4, <1>5, <2>1, <2>4, <2>5, <2>6
  (* At the test of the handle: what an address, or none, has left. *)
  <1>17. ASSUME pc = "check", call.count = 0
         PROVE  mine = 0 /\ Owned(fds, conn) = {} /\ status[conn] = "none" /\ SeenFds = fds
    <2>1. mine = 0 /\ Owned(fds, conn) = {} /\ status[conn] = "none"
      BY <1>17 DEF CreateInv, InProgress, AtReturn
    <2>2. \A f \in Fds : ~Busy(fds[f].owner)
      BY <2>1 DEF Busy, Owned
    <2>3. SeenFds = fds
      BY <1>1, <2>2 DEF SeenFds
    <2>4. QED
      BY <2>1, <2>3
  <1>18. ASSUME pc = "check", call.count > 0
         PROVE  /\ Owned(fds, conn) \subseteq {mine}
                /\ mine \in Fds => /\ fds[mine] = [kind |-> EstablishedKind(call.opt), owner |-> conn]
                                   /\ status[conn] = EstablishedStatus(call.opt)
                /\ mine \notin Fds => mine = InvalidSocket /\ status[conn] = "none"
    <2>1. call.count # 0
      BY <1>18
    <2>2. \/ mine = InvalidSocket /\ Owned(fds, conn) = {}
          \/ mine \in Fds /\ Owned(fds, conn) = {mine}
      BY <1>18, <2>1 DEF CreateInv, InProgress
    <2>3. IF mine = InvalidSocket THEN status[conn] = "none"
          ELSE /\ status[conn] = EstablishedStatus(call.opt)
               /\ fds[mine] = [kind |-> EstablishedKind(call.opt), owner |-> conn]
      BY <1>18, <2>1 DEF AtReturn
    <2>4. QED
      BY <2>2, <2>3, HandlesAreIntegers
  <1>19. call.count = 0 \/ call.count > 0
    BY <1>1
  (* A return of res with the table as it is seen after it. *)
  <1>20. ASSUME NEW res \in {0, -1}, pc = "check", Return(res, mine),
                Outcome(fds', mine, status[conn], res)
                  \in CreateOutcomes(SeenFds, conn, call.opt, call.count > 0)
         PROVE  Atomic!Next
    <2> DEFINE r == Outcome(fds', mine, status[conn], res)
    <2>1. r.fds = fds' /\ r.handle = mine /\ r.status = status[conn] /\ r.result = res
      BY DEF Outcome
    <2>2. /\ pc' = "idle" /\ handle' = [handle EXCEPT ![conn] = mine]
          /\ result' = [result EXCEPT ![conn] = res] /\ UNCHANGED status
      BY <1>20 DEF Return, SetHandle
    <2>3. r \in CreateOutcomes(SeenFds, conn, call.opt, call.count > 0)
      BY <1>20
    <2>4. PICK q : q = r
      OBVIOUS
    <2> HIDE DEF r
    <2>5. QED
      BY <1>2, <1>3, <2>1, <2>2, <2>3, <2>4, ReturnIsCreate
  <1>21. CASE NoSocket \/ GetSockNameFails
    <2>1. /\ pc = "check" /\ fds' = CloseFd(fds, mine) /\ Return(-1, mine)
      BY <1>21 DEF NoSocket, GetSockNameFails
    <2>2. CASE call.count = 0
      <3>1. fds' = CloseFd(SeenFds, 0) /\ mine = 0 /\ status[conn] = "none" /\ ~(call.count > 0)
        BY <1>17, <2>1, <2>2
      <3>2. Outcome(fds', mine, status[conn], -1)
              \in CreateOutcomes(SeenFds, conn, call.opt, call.count > 0)
        BY <3>1 DEF CreateOutcomes, CreateUnresolved
      <3>3. QED
        BY <1>20, <2>1, <3>2
    <2>3. CASE call.count > 0
      <3>1. fds' = SeenFds /\ (mine \in Fds => mine \in ClosedFds(SeenFds))
        BY <1>8, <1>18, <2>1, <2>3
      <3>2. \/ mine \in ClosedFds(SeenFds) /\ status[conn] = EstablishedStatus(call.opt)
            \/ mine = InvalidSocket /\ status[conn] = "none"
        BY <1>18, <2>1, <2>3, <3>1
      <3>3. Outcome(fds', mine, status[conn], -1) \in CreateResolved(SeenFds, conn, call.opt)
        BY <3>1, <3>2 DEF CreateResolved
      <3>4. Outcome(fds', mine, status[conn], -1)
              \in CreateOutcomes(SeenFds, conn, call.opt, call.count > 0)
        BY <2>3, <3>3 DEF CreateOutcomes
      <3>5. QED
        BY <1>20, <2>1, <3>4
    <2>4. QED
      BY <1>19, <2>2, <2>3
  <1>22. CASE GetSockName
    <2>1. pc = "check" /\ IsSocket(fds, mine) /\ Return(0, mine) /\ UNCHANGED fds
      BY <1>22 DEF GetSockName
    <2>2. CASE call.count = 0
      <3>1. /\ fds' = SeenFds /\ mine = 0 /\ status[conn] = "none" /\ ~(call.count > 0)
            /\ IsSocket(SeenFds, 0)
        BY <1>17, <2>1, <2>2
      <3>2. Outcome(fds', mine, status[conn], 0)
              \in CreateOutcomes(SeenFds, conn, call.opt, call.count > 0)
        BY <3>1 DEF CreateOutcomes, CreateUnresolved
      <3>3. QED
        BY <1>20, <2>1, <3>2
    <2>3. CASE call.count > 0
      <3>1. /\ mine \in Fds /\ status[conn] = EstablishedStatus(call.opt)
            /\ fds[mine] = [kind |-> EstablishedKind(call.opt), owner |-> conn]
            /\ Owned(fds, conn) \subseteq {mine}
        BY <1>18, <2>1, <2>3 DEF IsSocket
      <3>2. \A f \in Fds : SeenFds[f] = IF f = mine THEN Closed ELSE fds[f]
        BY <1>3, <3>1 DEF SeenFds, Busy, Owned
      <3>3. mine \in ClosedFds(SeenFds)
        BY <3>1, <3>2 DEF ClosedFds
      <3>4. fds = [f \in Fds |-> IF f = mine THEN [kind |-> EstablishedKind(call.opt), owner |-> conn]
                                 ELSE SeenFds[f]]
        BY <1>1, <3>1, <3>2
      <3>5. fds = Opened(SeenFds, mine, EstablishedKind(call.opt), conn)
        BY <3>3, <3>4 DEF Opened, SeenFds
      <3>6. Outcome(fds', mine, status[conn], 0) \in CreateResolved(SeenFds, conn, call.opt)
        BY <2>1, <3>1, <3>3, <3>5 DEF CreateResolved
      <3>7. Outcome(fds', mine, status[conn], 0)
              \in CreateOutcomes(SeenFds, conn, call.opt, call.count > 0)
        BY <2>3, <3>6 DEF CreateOutcomes
      <3>8. QED
        BY <1>20, <2>1, <3>7
    <2>4. QED
      BY <1>19, <2>2, <2>3
  <1>23. QED
    BY <1>10, <1>11, <1>12, <1>13, <1>14, <1>15, <1>16, <1>21, <1>22 DEF Step

LEMMA ResolveRefines ==
  ASSUME CreateInv, NEW c \in Conns, NEW o \in Requests, Resolve(c, o)
  PROVE  UNCHANGED <<SeenFds, SeenHandle, SeenStatus, result>>
  <1>1. PICK n \in AddrCounts :
          call' = [conn |-> c, opt |-> o, count |-> n, left |-> n,
                   handle |-> handle[c], status |-> status[c]]
    BY DEF Resolve
  <1>2. /\ pc = "idle" /\ pc' = "socket" /\ result[c] = -1
        /\ handle' = [handle EXCEPT ![c] = 0] /\ status' = [status EXCEPT ![c] = "none"]
        /\ UNCHANGED fds /\ UNCHANGED result
    BY DEF Resolve
  <1>3. /\ \A k : ~Busy(k)
        /\ \A k : Busy(k)' <=> k = c
        /\ call'.handle = handle[c] /\ call'.status = status[c]
    BY <1>1, <1>2 DEF Busy, conn
  <1>4. Owned(fds, c) = {}
    BY <1>2 DEF CreateInv, AtRest
  <1>5. \A f \in Fds : fds[f].owner # c
    BY <1>4 DEF Owned
  <1>6. SeenFds' = SeenFds
    BY <1>2, <1>3, <1>5 DEF SeenFds, Busy
  <1>7. SeenHandle' = SeenHandle /\ SeenStatus' = SeenStatus
    BY <1>2, <1>3, Typed DEF SeenHandle, SeenStatus, Busy
  <1>8. QED
    BY <1>2, <1>6, <1>7

LEMMA WorldRefines ==
  ASSUME CreateInv, WorldOpens \/ WorldCloses
  PROVE  Atomic!Next
  <1>1. /\ UNCHANGED handle /\ UNCHANGED status /\ UNCHANGED result
        /\ UNCHANGED pc /\ UNCHANGED call
    BY DEF WorldOpens, WorldCloses
  <1>2. /\ fds \in [Fds -> Descriptors] /\ fds' \in [Fds -> Descriptors] /\ conn \in Conns
    BY Typed, WorldKeeps DEF CreateInv, TypeOK
  <1>3. \A k : Busy(k)' <=> Busy(k)
    BY <1>1 DEF Busy, conn
  <1>4. ~Busy(World) /\ Closed.owner = World
    BY <1>2, DescriptorAssumption DEF Busy, Closed
  <1>5. SeenHandle' = SeenHandle /\ SeenStatus' = SeenStatus
    BY <1>1, <1>3 DEF SeenHandle, SeenStatus, Busy, conn
  <1>6. CASE WorldOpens
    <2>1. PICK f \in NewFds(fds), k \in {"file", "connected"} : fds' = Opened(fds, f, k, World)
      BY <1>6 DEF WorldOpens
    <2>2. f \in Fds /\ fds[f] = Closed
      BY DEF NewFds, ClosedFds
    <2>3. f \in Atomic!ClosedFds(SeenFds)
      BY <2>2 DEF Atomic!ClosedFds, Atomic!Closed, Atomic!Fds, SeenFds, Closed, Fds
    <2>4. \A g \in Fds : fds'[g] = IF g = f THEN [kind |-> k, owner |-> World] ELSE fds[g]
      BY <1>2, <2>1, <2>2 DEF Opened
    <2>5. \A g \in Fds : (IF Busy(fds'[g].owner) THEN Closed ELSE fds'[g])
                           = IF g = f THEN [kind |-> k, owner |-> World] ELSE SeenFds[g]
      BY <1>4, <2>4 DEF SeenFds
    <2>6. SeenFds' = [SeenFds EXCEPT ![f] = [kind |-> k, owner |-> World]]
      BY <1>3, <2>2, <2>5 DEF SeenFds
    <2>7. Atomic!WorldOpens
      BY <1>1, <1>5, <2>3, <2>6
         DEF Atomic!WorldOpens, Atomic!Opened, SeenFds, SeenHandle, SeenStatus
    <2>8. QED
      BY <2>7 DEF Atomic!Next
  <1>7. CASE WorldCloses
    <2>1. PICK f \in Owned(fds, World) \ ClosedFds(fds) : fds' = CloseFd(fds, f)
      BY <1>7 DEF WorldCloses
    <2>2. f \in Fds /\ fds[f].owner = World /\ fds[f] # Closed
      BY DEF Owned, ClosedFds
    <2>3. SeenFds[f] = fds[f]
      BY <1>4, <2>2 DEF SeenFds
    <2>4. f \in Atomic!Owned(SeenFds, World) \ Atomic!ClosedFds(SeenFds)
      BY <2>2, <2>3 DEF Atomic!Owned, Atomic!ClosedFds, Atomic!Closed, Atomic!Fds, Closed, Fds
    <2>5. \A g \in Fds : fds'[g] = IF g = f THEN Closed ELSE fds[g]
      BY <2>1 DEF CloseFd
    <2>6. \A g \in Fds : (IF Busy(fds'[g].owner) THEN Closed ELSE fds'[g])
                           = IF g = f THEN Closed ELSE SeenFds[g]
      BY <1>4, <2>5 DEF SeenFds
    <2>7. SeenFds' = [g \in Fds |-> IF g = f THEN Closed ELSE SeenFds[g]]
      BY <1>3, <2>6 DEF SeenFds
    <2>8. Atomic!WorldCloses
      BY <1>1, <1>5, <2>4, <2>7
         DEF Atomic!WorldCloses, Atomic!CloseFd, Atomic!Closed, Atomic!Fds, Closed, Fds,
             SeenFds, SeenHandle, SeenStatus
    <2>9. QED
      BY <2>8 DEF Atomic!Next
  <1>8. QED
    BY <1>6, <1>7

(* The system calls of s_create_socket, with failures anywhere and other   *)
(* threads in between, are one atomic call of SocketCreation.              *)
THEOREM AtomicCorrect == Spec => CreateIsAtomic
  <1>1. Init => Atomic!Init /\ AtReturn
    <2> SUFFICES ASSUME Init PROVE Atomic!Init /\ AtReturn
      OBVIOUS
    <2>1. pc = "idle" /\ \A k : ~Busy(k)
      BY DEF Init, Busy
    <2>2. CreateInv
      BY InitShape
    <2>3. SeenFds = fds /\ SeenHandle = handle /\ SeenStatus = status
      BY <2>1, <2>2, Typed DEF SeenFds, SeenHandle, SeenStatus
    <2>4. Atomic!Init
      BY <2>3 DEF Init, Atomic!Init, Atomic!Fds, Atomic!Closed, Atomic!InvalidSocket,
                  Fds, Closed, InvalidSocket, SeenFds, SeenHandle, SeenStatus
    <2>5. QED
      BY <2>1, <2>4 DEF AtReturn, Making
  <1>2. CreateInv /\ AtReturn /\ [Next]_vars => [Atomic!Next]_(Atomic!vars)
    <2> SUFFICES ASSUME CreateInv, AtReturn, [Next]_vars PROVE [Atomic!Next]_(Atomic!vars)
      OBVIOUS
    <2>1. ASSUME UNCHANGED <<SeenFds, SeenHandle, SeenStatus, result>>
          PROVE  UNCHANGED Atomic!vars
      BY <2>1 DEF Atomic!vars, SeenFds, SeenHandle, SeenStatus
    <2>2. CASE \E c \in Conns, o \in Requests : Resolve(c, o)
      BY <2>1, <2>2, ResolveRefines
    <2>3. CASE Step
      BY <2>1, <2>3, StepRefines
    <2>4. CASE WorldOpens \/ WorldCloses
      BY <2>4, WorldRefines
    <2>5. CASE UNCHANGED vars
      <3>1. UNCHANGED fds /\ UNCHANGED handle /\ UNCHANGED status /\ UNCHANGED result
            /\ UNCHANGED pc /\ UNCHANGED call
        BY <2>5 DEF vars, shared
      <3>2. UNCHANGED <<SeenFds, SeenHandle, SeenStatus, result>>
        BY <3>1 DEF SeenFds, SeenHandle, SeenStatus, Busy, conn
      <3>3. QED
        BY <2>1, <3>2
    <2>6. QED
      BY <2>2, <2>3, <2>4, <2>5 DEF Next
  <1>3. QED
    BY <1>1, <1>2, InitShape, NextKeeps, NextKeepsAtReturn, PTL
       DEF Spec, CreateIsAtomic, Atomic!Spec
=============================================================================
