---------------------------- MODULE CreateSocket ----------------------------
(***************************************************************************)
(* s_create_socket (c_socket-tcp.cpp), one step per system call; any of    *)
(* them may fail.  Other threads of the process open and close descriptors *)
(* between the steps.                                                      *)
(***************************************************************************)
EXTENDS SocketDescriptors

CONSTANTS Requests,   (* the options the callers pass                      *)
          AddrCounts  (* addresses a name may resolve to; 0 for an error   *)

ASSUME CreateAssumption == Requests \subseteq Options /\ AddrCounts \subseteq Nat

VARIABLES
  fds,      (* the descriptors of the process                              *)
  handle,   (* m_handle of every connection object                         *)
  status,   (* m_status of every connection object                         *)
  result,   (* what the last call for it returned                          *)
  pc,       (* the next system call of the call in progress, or "idle"     *)
  call      (* its connection, options and addresses; history: m_handle    *)
            (* and m_status before it                                      *)

shared == <<fds, handle, status, result>>
vars == <<shared, pc, call>>

Init ==
  /\ fds \in {[f \in Fds |-> IF f = 0 THEN stdin ELSE Closed] :
                stdin \in {Closed} \cup [kind: {"file", "connected"}, owner: {World}]}
  /\ handle = [c \in Conns |-> InvalidSocket]
  /\ status = [c \in Conns |-> "none"]
  /\ result = [c \in Conns |-> -1]
  /\ pc = "idle"
  /\ call \in [conn: Conns, opt: Requests, count: {0}, left: {0}, handle: {InvalidSocket}, status: {"none"}]

conn == call.conn
mine == handle[conn]

SetHandle(h) == handle' = [handle EXCEPT ![conn] = h]
SetStatus(s) == status' = [status EXCEPT ![conn] = s]

(* return r, with m_handle left as h.                                      *)
Return(r, h) ==
  /\ SetHandle(h)
  /\ result' = [result EXCEPT ![conn] = r]
  /\ pc' = "idle"
  /\ call' = [call EXCEPT !.left = 0, !.handle = InvalidSocket, !.status = "none"]
  /\ UNCHANGED status

(* The first lines, and the resolver: it finds n addresses, or fails.      *)
Resolve(c, o) ==
  /\ pc = "idle"
  /\ result[c] = -1
  /\ handle' = [handle EXCEPT ![c] = 0]
  /\ status' = [status EXCEPT ![c] = "none"]
  /\ \E n \in AddrCounts :
       call' = [conn |-> c, opt |-> o, count |-> n, left |-> n, handle |-> handle[c], status |-> status[c]]
  /\ pc' = "socket"
  /\ UNCHANGED <<fds, result>>

(* Faulty variant: the handle keeps the number of the socket closed.       *)
TryNextStale ==
  /\ call' = [call EXCEPT !.left = @ - 1]
  /\ pc' = "socket"
  /\ UNCHANGED <<handle, result>>

(* On to the next address, with the handle -1.                             *)
TryNext ==
  /\ SetHandle(InvalidSocket)
  /\ call' = [call EXCEPT !.left = @ - 1]
  /\ pc' = "socket"
  /\ UNCHANGED result

OutOfAddresses ==
  /\ pc = "socket" /\ call.left = 0
  /\ pc' = "check"
  /\ UNCHANGED <<shared, call>>

Socket ==
  /\ pc = "socket" /\ call.left > 0
  /\ \E f \in NewFds(fds) :
       /\ fds' = Opened(fds, f, "unbound", conn)
       /\ SetHandle(f)
  /\ pc' = "reuseport"
  /\ UNCHANGED <<status, result, call>>

(* No descriptor is free, or socket() fails for another reason.            *)
SocketFails ==
  /\ pc = "socket" /\ call.left > 0
  /\ TryNext
  /\ UNCHANGED <<fds, status>>

ReusePort ==
  /\ pc = "reuseport"
  /\ \/ pc' = "reuseaddr" /\ UNCHANGED <<shared, call>>
     \/ fds' = CloseFd(fds, mine) /\ Return(-1, mine)

ReuseAddr ==
  /\ pc = "reuseaddr"
  /\ \/ pc' = "establish" /\ UNCHANGED <<shared, call>>
     \/ fds' = CloseFd(fds, mine) /\ Return(-1, InvalidSocket)

(* Faulty variant: bind() fails and the socket stays open.                 *)
BindFailsOpen ==
  /\ pc = "establish" /\ ~call.opt.listen
  /\ TryNext
  /\ UNCHANGED <<fds, status>>

BindFails ==
  /\ pc = "establish" /\ ~call.opt.listen
  /\ fds' = CloseFd(fds, mine)
  /\ TryNext
  /\ UNCHANGED status

ListenFails ==
  /\ pc = "establish" /\ ~call.opt.listen
  /\ fds' = CloseFd(fds, mine)
  /\ Return(-1, InvalidSocket)

(* A blocking connect() that fails; a non-blocking one is not looked at.   *)
ConnectFails ==
  /\ pc = "establish" /\ call.opt.listen /\ ~call.opt.noblock
  /\ fds' = CloseFd(fds, mine)
  /\ TryNext
  /\ UNCHANGED status

Establish ==
  /\ pc = "establish"
  /\ fds' = Opened(fds, mine, EstablishedKind(call.opt), conn)
  /\ SetStatus(EstablishedStatus(call.opt))
  /\ pc' = "check"
  /\ UNCHANGED <<handle, result, call>>

NoSocket ==
  /\ pc = "check" /\ mine = InvalidSocket
  /\ fds' = CloseFd(fds, mine)
  /\ Return(-1, InvalidSocket)

GetSockName ==
  /\ pc = "check" /\ IsSocket(fds, mine)
  /\ Return(0, mine)
  /\ UNCHANGED fds

(* Faulty variant: the socket stays open.                                  *)
GetSockNameFailsOpen ==
  /\ pc = "check" /\ mine # InvalidSocket
  /\ Return(-1, mine)
  /\ UNCHANGED fds

GetSockNameFails ==
  /\ pc = "check" /\ mine # InvalidSocket
  /\ fds' = CloseFd(fds, mine)
  /\ Return(-1, mine)

-----------------------------------------------------------------------------
WorldOpens ==
  /\ \E f \in NewFds(fds), k \in {"file", "connected"} : fds' = Opened(fds, f, k, World)
  /\ UNCHANGED <<handle, status, result, pc, call>>

WorldCloses ==
  /\ \E f \in Owned(fds, World) \ ClosedFds(fds) : fds' = CloseFd(fds, f)
  /\ UNCHANGED <<handle, status, result, pc, call>>

Step ==
  \/ OutOfAddresses \/ Socket \/ SocketFails
  \/ ReusePort \/ ReuseAddr
  \/ BindFails \/ ListenFails \/ ConnectFails \/ Establish
  \/ NoSocket \/ GetSockName \/ GetSockNameFails

Next ==
  \/ \E c \in Conns, o \in Requests : Resolve(c, o)
  \/ Step
  \/ WorldOpens \/ WorldCloses

Spec == Init /\ [][Next]_vars

-----------------------------------------------------------------------------
TypeOK ==
  /\ fds \in [Fds -> Descriptors]
  /\ handle \in [Conns -> Handles]
  /\ status \in [Conns -> Statuses]
  /\ result \in [Conns -> {0, -1}]

(* Whichever call fails, and however many addresses were tried before: no  *)
(* socket of a connection that was not created stays open.                 *)
FailureClosesAll ==
  pc = "idle" => \A c \in Conns : result[c] = -1 => Owned(fds, c) = {}

(* A call that succeeds on a name that resolves leaves the connection with *)
(* exactly one socket, the one its handle names: those made for earlier    *)
(* addresses, and in earlier calls that failed, are closed.                *)
SuccessOwnsHandle ==
  pc = "idle" /\ result[conn] = 0 /\ call.count > 0 => Owned(fds, conn) = {mine}

(* A call for a name that resolves never closes a descriptor that another  *)
(* part of the process or another connection opened, whoever reuses the    *)
(* numbers of the sockets it closes.                                       *)
ForeignFdsKept ==
  [][Step /\ call.count > 0 =>
       \A f \in Fds : fds[f] # Closed /\ fds[f].owner # conn => fds'[f] = fds[f]]_vars

(* A resolver failure is ERROR_RESOLVING_ADDRESS (c_socket-tcp.cpp:99): the*)
(* call that meets one does not succeed.                                   *)
ResolveErrorFails ==
  pc = "idle" /\ result[conn] = 0 => call.count > 0

(* The system calls together are one call of SocketCreation, which takes   *)
(* place at the return: before it, the socket in the making is not there.  *)
Busy(c) == pc # "idle" /\ c = conn
Atomic == INSTANCE SocketCreation WITH
  fds    <- [f \in Fds |-> IF Busy(fds[f].owner) THEN Closed ELSE fds[f]],
  handle <- [c \in Conns |-> IF Busy(c) THEN call.handle ELSE handle[c]],
  status <- [c \in Conns |-> IF Busy(c) THEN call.status ELSE status[c]]
CreateIsAtomic == Atomic!Spec
=============================================================================
