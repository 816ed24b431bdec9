----------------------------- MODULE SocketTcp -----------------------------
(***************************************************************************)
(* socket_tcp_t (c_socket-tcp.cpp): the pool of connection objects, the    *)
(* lists of connect and disconnect requests, and process(), which connects *)
(* and accepts.  s_create_socket is one step, as CreateSocket shows; peers *)
(* act between any two steps of process().                                 *)
(*                                                                         *)
(* No code of the library gives the lists their arrays, the pool its       *)
(* objects or the lists of connections, which have no constructor, their   *)
(* m_len of 0: the model begins where something has done so, and the sizes *)
(* are constants.  m_handle of the server is what the memory held.         *)
(***************************************************************************)
EXTENDS SocketDescriptors, Sequences, FiniteSets

CONSTANTS
  Server,        (* m_server_socket; the other Conns are the pool          *)
  Addresses,     (* the address_t objects of the user                      *)
  NullAddresses, (* those whose m_conn is NULL                             *)
  TakenAddresses,(* those whose m_conn already has an m_address            *)
  Unresolved,    (* those s_get_socket_info does not resolve: no IPv4      *)
  ArrayCap,      (* room in the array of each connections_t                *)
  RequestCap,    (* room in the array of m_to_connect                      *)
  DisconnectCap, (* room in the array of m_to_disconnect                   *)
  FailedCap,     (* room in the array of the caller's failed_connections   *)
  SetSize,       (* FD_SETSIZE, the descriptors an fd_set has room for     *)
  MaxBacklog,    (* bound: peers waiting at a listening socket             *)
  MaxOpens       (* bound: calls of open()                                 *)

ASSUME TcpAssumption ==
  /\ Server \in Conns /\ IsFiniteSet(Conns)
  /\ NullAddresses \subseteq Addresses /\ TakenAddresses \subseteq Addresses
  /\ Unresolved \subseteq Addresses
  /\ ArrayCap \in Nat /\ RequestCap \in Nat /\ DisconnectCap \in Nat
  /\ FailedCap \in Nat /\ SetSize \in Nat
  /\ MaxBacklog \in Nat /\ MaxOpens \in Nat

Pool == Conns \ {Server}

(* The addresses process() goes on to connect.                             *)
Fresh == Addresses \ (NullAddresses \cup TakenAddresses)

(* A handle, or what m_handle of the server holds before open() sets it:   *)
(* any number, SetSize standing for those no fd_set has room for.          *)
HandleValues == Handles \cup {SetSize}

VARIABLES
  fds,          (* the descriptors of the process                          *)
  backlog,      (* peers waiting at each descriptor                        *)
  handle,       (* m_handle                                                *)
  status,       (* m_status, the set of its flags                          *)
  free,         (* m_free_connections                                      *)
  secure,       (* m_secure_connections                                    *)
  open,         (* m_open_connections                                      *)
  toConnect,    (* m_to_connect                                            *)
  toDisconnect, (* m_len of m_to_disconnect, which nothing reads           *)
  failed,       (* m_len of failed_connections, the caller's               *)
  left,         (* what it was when process() was entered                  *)
  ready,        (* select() reported the server socket readable            *)
  pc,           (* "idle", "closed" by close(), a phase of process(), or   *)
                (* "fault"                                                 *)
  fault,        (* what was written past: an array, an fd_set, or NULL     *)
  asked,        (* connect() calls since process() was last entered        *)
  opens         (* open() calls                                            *)

kernel == <<fds, backlog>>
objects == <<handle, status>>
lists == <<free, secure, open>>
requests == <<toConnect, toDisconnect, asked>>
report == <<failed, left>>
vars == <<kernel, objects, lists, requests, report, ready, pc, fault, opens>>

(* A list is used from its end, as a stack.                                *)
Top(s) == s[Len(s)]
Popped(s) == SubSeq(s, 1, Len(s) - 1)

Elements(s) == {s[i] : i \in DOMAIN s}
Once(s) == \A i, j \in DOMAIN s : s[i] = s[j] => i = j

Init ==
  /\ fds \in {[f \in Fds |-> IF f = 0 THEN stdin ELSE Closed] :
                stdin \in {Closed, [kind |-> "file", owner |-> World]}}
  /\ backlog = [f \in Fds |-> 0]
  /\ handle \in {[c \in Conns |-> IF c = Server THEN h ELSE InvalidSocket] : h \in HandleValues}
  /\ status = [c \in Conns |-> {}]
  /\ free \in {s \in [1 .. Cardinality(Pool) -> Pool] : Once(s) /\ Elements(s) = Pool}
  /\ secure = <<>> /\ open = <<>>
  /\ toConnect = <<>> /\ toDisconnect = 0 /\ asked = 0
  /\ failed = 0 /\ left = 0 /\ ready = FALSE /\ pc = "idle" /\ fault = "none"
  /\ opens = 0

(* A write past the end of an array, or through NULL: the program stops.   *)
Fault(at) ==
  /\ pc' = "fault" /\ fault' = at
  /\ UNCHANGED <<kernel, objects, lists, requests, report, ready, opens>>

(* The user has the control.                                               *)
Idle == pc \in {"idle", "closed"}

-----------------------------------------------------------------------------
(* open(): s_create_socket for the local host, which may not resolve; its  *)
(* result is not looked at and a socket of an earlier open() is forgotten. *)
Open ==
  /\ Idle /\ opens < MaxOpens
  /\ \E resolved \in BOOLEAN :
     \E r \in CreateOutcomes(fds, Server, [listen |-> TRUE, noblock |-> TRUE], resolved) :
       /\ fds' = r.fds
       /\ handle' = [handle EXCEPT ![Server] = r.handle]
       /\ status' = [status EXCEPT ![Server] = {r.status} \ {"none"}]
  /\ opens' = opens + 1
  /\ pc' = "idle"
  /\ UNCHANGED <<backlog, lists, requests, report, ready, fault>>

(* close() has no statements.                                              *)
Close ==
  /\ Idle
  /\ pc' = "closed"
  /\ UNCHANGED <<kernel, objects, lists, requests, report, ready, fault, opens>>

(* push_address does not look at m_max.                                    *)
Connect(a) ==
  /\ Idle
  /\ IF Len(toConnect) < RequestCap
     THEN /\ toConnect' = Append(toConnect, a)
          /\ asked' = asked + 1
          /\ pc' = "idle"
          /\ UNCHANGED <<kernel, objects, lists, toDisconnect, report, ready, fault, opens>>
     ELSE Fault("connect")

(* Nothing takes an address off m_to_disconnect again.                     *)
Disconnect ==
  /\ Idle
  /\ IF toDisconnect < DisconnectCap
     THEN /\ toDisconnect' = toDisconnect + 1
          /\ pc' = "idle"
          /\ UNCHANGED <<kernel, objects, lists, toConnect, asked, report, ready, fault, opens>>
     ELSE Fault("disconnect")

(* The caller hands over its lists, emptied or not.                        *)
EnterProcess ==
  /\ Idle
  /\ pc' = "connect"
  /\ asked' = 0
  /\ failed' \in 0 .. FailedCap /\ left' = failed'
  /\ UNCHANGED <<kernel, objects, lists, toConnect, toDisconnect, ready, fault, opens>>

-----------------------------------------------------------------------------
ConnectFlags == {"connect", "secure", "send", "connecting"}
AcceptFlags == {"accept", "secure", "recv"}

(* What s_create_socket stores in m_status.                                *)
Flags(r) == {r.status} \ {"none"}

(* Faulty variant: the flags are stored before s_create_socket is called.  *)
FlagsBefore(r) == Flags(r)

(* m_status after one turn of the connect loop.                            *)
FlagsAfter(r) == IF r.result = 0 THEN ConnectFlags ELSE Flags(r)

(* Faulty variant: a request there is no connection object for stays.      *)
ConnectDroppedNot ==
  /\ pc = "connect" /\ toConnect # <<>> /\ free = <<>>
  /\ Top(toConnect) \in Fresh
  /\ UNCHANGED vars

(* A request there is no connection object for is dropped silently.        *)
ConnectDropped ==
  /\ pc = "connect" /\ toConnect # <<>> /\ free = <<>>
  /\ Top(toConnect) \in Fresh
  /\ toConnect' = Popped(toConnect)
  /\ UNCHANGED <<kernel, objects, lists, toDisconnect, asked, report, ready, pc, fault, opens>>

(* So is one whose connection has an address already.                      *)
ConnectTaken ==
  /\ pc = "connect" /\ toConnect # <<>>
  /\ Top(toConnect) \in TakenAddresses \ NullAddresses
  /\ toConnect' = Popped(toConnect)
  /\ UNCHANGED <<kernel, objects, lists, toDisconnect, asked, report, ready, pc, fault, opens>>

(* process() reads m_conn->m_address before anything has set m_conn.       *)
ConnectFaults ==
  /\ pc = "connect" /\ toConnect # <<>>
  /\ Top(toConnect) \in NullAddresses
  /\ Fault("null")

(* Faulty variant: the object of a failed connect is pushed to both lists. *)
FiledTwice(c, ok) ==
  /\ secure' = Append(secure, c)
  /\ free' = IF ok THEN Popped(free) ELSE Append(Popped(free), c)

(* Faulty variant: the result of s_create_socket is not looked at.         *)
FiledAlways(c, ok) ==
  /\ secure' = Append(secure, c)
  /\ free' = Popped(free)

(* Faulty variant: the object goes where the last of the list is.          *)
FiledOver(c, ok) ==
  /\ secure' = IF ok THEN Append(IF secure = <<>> THEN <<>> ELSE Popped(secure), c) ELSE secure
  /\ free' = IF ok THEN Popped(free) ELSE Append(Popped(free), c)

(* The object popped from the pool goes on the secure list, or back.       *)
Filed(c, ok) ==
  /\ secure' = IF ok THEN Append(secure, c) ELSE secure
  /\ free' = IF ok THEN Popped(free) ELSE Append(Popped(free), c)

(* One turn of the connect loop with an object in the pool.                *)
ConnectNext ==
  /\ pc = "connect" /\ toConnect # <<>> /\ free # <<>>
  /\ Top(toConnect) \in Fresh
  /\ LET c == Top(free)
     IN  \E r \in CreateOutcomes(fds, c, [listen |-> FALSE, noblock |-> TRUE],
                                 Top(toConnect) \notin Unresolved) :
           IF r.result = 0 /\ Len(secure) >= ArrayCap THEN Fault("secure")
           ELSE IF r.result # 0 /\ failed >= FailedCap THEN Fault("failed")
           ELSE /\ fds' = r.fds
                /\ handle' = [handle EXCEPT ![c] = r.handle]
                /\ status' = [status EXCEPT ![c] = FlagsAfter(r)]
                /\ Filed(c, r.result = 0)
                /\ failed' = IF r.result = 0 THEN failed ELSE failed + 1
                /\ toConnect' = Popped(toConnect)
                /\ UNCHANGED <<backlog, open, toDisconnect, asked, left, ready, pc, fault, opens>>

(* Faulty variant: requests may be left for the next process().            *)
ConnectsDoneEarly ==
  /\ pc = "connect"
  /\ pc' = "select"
  /\ UNCHANGED <<kernel, objects, lists, requests, report, ready, fault, opens>>

ConnectsDone ==
  /\ pc = "connect" /\ toConnect = <<>>
  /\ pc' = "select"
  /\ UNCHANGED <<kernel, objects, lists, requests, report, ready, fault, opens>>

(* The descriptors of the sets given to select().                          *)
Watched == {c \in Elements(secure) : {"recv", "send"} \cap status[c] # {}}
Selected == {handle[c] : c \in {Server} \cup Watched \cup Elements(open)} \ {InvalidSocket}

(* FD_SET writes past the set for a number the set has no room for.        *)
SelectFaults ==
  /\ pc = "select"
  /\ \E f \in Selected : f >= SetSize
  /\ Fault("set")

(* select() fails when one of them is closed.  A listening socket is       *)
(* readable when a peer waits; one that connects may be at any time.       *)
Select ==
  /\ pc = "select"
  /\ \A f \in Selected : f < SetSize
  /\ LET h == handle[Server]
     IN  ready' \in IF h = InvalidSocket \/ \E f \in Selected : fds[f] = Closed THEN {FALSE}
                    ELSE IF fds[h].kind = "listening" THEN {backlog[h] > 0}
                    ELSE BOOLEAN
  /\ pc' = "accept"
  /\ UNCHANGED <<kernel, objects, lists, requests, report, fault, opens>>

(* Faulty variant: the peer select() saw is taken to wait still.           *)
CanAcceptAlways(h) == fds[h].kind = "listening" /\ NewFds(fds) # {}

(* accept() has a peer and a descriptor to give.                           *)
CanAccept(h) == fds[h].kind = "listening" /\ backlog[h] > 0 /\ NewFds(fds) # {}

(* What the server socket's handle names is not looked at: it may be the   *)
(* socket of another connection.  Without an object in the pool the peer's *)
(* socket is closed again.                                                 *)
Accept ==
  /\ pc = "accept" /\ ready
  /\ LET h == handle[Server] IN
     /\ CanAccept(h)
     /\ IF free # <<>> /\ Len(secure) >= ArrayCap
        THEN Fault("secure")
        ELSE /\ backlog' = [backlog EXCEPT ![h] = @ - 1]
             /\ IF free = <<>>
                THEN UNCHANGED <<fds, objects, free, secure>>
                ELSE \E f \in NewFds(fds) : LET c == Top(free) IN
                     /\ fds' = Opened(fds, f, "connected", c)
                     /\ handle' = [handle EXCEPT ![c] = f]
                     /\ status' = [status EXCEPT ![c] = AcceptFlags]
                     /\ Filed(c, TRUE)
             /\ pc' = "open"
             /\ UNCHANGED <<open, requests, report, ready, fault, opens>>

AcceptNothing ==
  /\ pc = "accept"
  /\ ready => ~CanAccept(handle[Server])
  /\ pc' = "open"
  /\ UNCHANGED <<kernel, objects, lists, requests, report, ready, fault, opens>>

(* The two loops over the open connections.  Neither moves on to the next  *)
(* connection: with one to look at they do not end.  On return the caller  *)
(* has its lists back.                                                     *)
LoopOverOpen ==
  /\ pc = "open"
  /\ open = <<>>
  /\ pc' = "idle"
  /\ ready' = FALSE
  /\ failed' = 0 /\ left' = 0
  /\ UNCHANGED <<kernel, objects, lists, requests, fault, opens>>

-----------------------------------------------------------------------------
(* A peer connects to a listening socket, or gives up waiting.             *)
PeerConnects ==
  /\ \E f \in Fds : /\ fds[f].kind = "listening" /\ backlog[f] < MaxBacklog
                    /\ backlog' = [backlog EXCEPT ![f] = @ + 1]
  /\ UNCHANGED <<fds, objects, lists, requests, report, ready, pc, fault, opens>>

PeerGivesUp ==
  /\ \E f \in Fds : backlog[f] > 0 /\ backlog' = [backlog EXCEPT ![f] = @ - 1]
  /\ UNCHANGED <<fds, objects, lists, requests, report, ready, pc, fault, opens>>

Process ==
  \/ ConnectNext \/ ConnectDropped \/ ConnectTaken \/ ConnectFaults \/ ConnectsDone
  \/ Select \/ SelectFaults \/ Accept \/ AcceptNothing \/ LoopOverOpen

Next ==
  \/ Open \/ Close
  \/ (\E a \in Addresses : Connect(a)) \/ Disconnect
  \/ EnterProcess \/ Process
  \/ PeerConnects \/ PeerGivesUp

Spec == Init /\ [][Next]_vars

(* A process() that has been entered is run.                               *)
FairSpec == Spec /\ WF_vars(Process)

-----------------------------------------------------------------------------
TypeOK ==
  /\ fds \in [Fds -> Descriptors] /\ backlog \in [Fds -> 0 .. MaxBacklog]
  /\ handle \in [Conns -> HandleValues]
  /\ free \in Seq(Pool) /\ secure \in Seq(Pool) /\ open \in Seq(Pool)
  /\ toConnect \in Seq(Addresses) /\ toDisconnect \in 0 .. DisconnectCap
  /\ failed \in 0 .. FailedCap /\ left \in 0 .. FailedCap
  /\ ready \in BOOLEAN /\ asked \in Nat /\ opens \in 0 .. MaxOpens
  /\ pc \in {"idle", "closed", "connect", "select", "accept", "open", "fault"}
  /\ fault \in {"none", "null", "connect", "disconnect", "failed", "secure", "set"}

(* Every connection object is in exactly one of the three lists, once: no  *)
(* order of connects, failures and accepts loses one or uses one twice.    *)
PoolConserved ==
  /\ Once(free) /\ Once(secure) /\ Once(open)
  /\ Elements(free) \cap Elements(secure) = {}
  /\ Elements(free) \cap Elements(open) = {}
  /\ Elements(secure) \cap Elements(open) = {}
  /\ Elements(free) \cup Elements(secure) \cup Elements(open) = Pool

(* A connection on its way to be secured has exactly the socket its handle *)
(* names, an object in the pool has none, whatever becomes of the server's *)
(* handle.  Descriptor 0 apart: a name that does not resolve closes it or  *)
(* takes it, whoever owns it.                                              *)
SecureOwnSocket ==
  /\ \A c \in Elements(secure) : Owned(fds, c) \ {0} = {handle[c]} \ {0}
  /\ \A c \in Elements(free) : Owned(fds, c) = {}

(* select() watches every connection to be secured in one direction: the   *)
(* flags that say so survive s_create_socket, which stores its own.        *)
SecureIsWatched ==
  \A c \in Elements(secure) : "secure" \in status[c] /\ ("recv" \in status[c]) # ("send" \in status[c])

(* What a call or a step of process() does for one connection touches no   *)
(* other: a connection to be secured is not overwritten, lost from its     *)
(* list (but to the open one) or deprived of its socket by a connect that  *)
(* fails, a peer accepted or an object used again.  This says nothing of   *)
(* close(), which ought to release them all and releases none              *)
(* (c_socket-tcp.cpp:451-452), nor of descriptor 0, which a name that does *)
(* not resolve closes.                                                     *)
OthersUntouched ==
  [][pc' # "closed" =>
       \A c \in Elements(secure) :
         /\ c \in Elements(secure') \cup Elements(open')
         /\ handle'[c] = handle[c] /\ status'[c] = status[c]
         /\ \A f \in Owned(fds, c) \ {0} : fds'[f] = fds[f]]_vars

(* What keeps the arrays from being written past their ends, none of which *)
(* looks at m_max.  The secure list has to have room for the pool;         *)
(* m_to_connect for the requests made since process() was last entered;    *)
(* failed_connections, on entry, for as many as that; and an fd_set for    *)
(* every descriptor, unless nobody has called open() yet, which is when    *)
(* the handle of the server is not initialised.  (Of m_to_disconnect,      *)
(* which is never drained, nothing of the kind is true.)                   *)
ArraysHold ==
  /\ fault = "secure" => Cardinality(Pool) > ArrayCap
  /\ fault = "connect" => asked >= RequestCap
  /\ fault = "failed" => left + RequestCap > FailedCap
  /\ fault = "set" => opens = 0 \/ MaxFd >= SetSize

(* process() returns, unless it faults: its connect loop ends whatever the *)
(* requests and however few the objects, and the loops over the open       *)
(* connections, which would not end, find none.                            *)
ProcessReturns == pc = "connect" ~> pc \in {"idle", "fault"}
=============================================================================
