--------------------------- MODULE SocketCreation ---------------------------
(***************************************************************************)
(* The abstract specification of s_create_socket: each call is one step,   *)
(* while the rest of the process opens and closes descriptors of its own.  *)
(***************************************************************************)
EXTENDS SocketDescriptors

CONSTANTS Requests,   (* the options the callers pass                      *)
          AddrCounts  (* addresses a name may resolve to; 0 for an error   *)

VARIABLES fds, handle, status, result

vars == <<fds, handle, status, result>>

Init ==
  /\ fds \in {[f \in Fds |-> IF f = 0 THEN stdin ELSE Closed] :
                stdin \in {Closed} \cup [kind: {"file", "connected"}, owner: {World}]}
  /\ handle = [c \in Conns |-> InvalidSocket]
  /\ status = [c \in Conns |-> "none"]
  /\ result = [c \in Conns |-> -1]

(* A connection object is given to s_create_socket again when it failed.   *)
Create(c, o) ==
  /\ result[c] = -1
  /\ \E resolved \in {n > 0 : n \in AddrCounts} :
     \E r \in CreateOutcomes(fds, c, o, resolved) :
       /\ fds' = r.fds
       /\ handle' = [handle EXCEPT ![c] = r.handle]
       /\ status' = [status EXCEPT ![c] = r.status]
       /\ result' = [result EXCEPT ![c] = r.result]

WorldOpens ==
  /\ \E f \in ClosedFds(fds), k \in {"file", "connected"} : fds' = Opened(fds, f, k, World)
  /\ UNCHANGED <<handle, status, result>>

WorldCloses ==
  /\ \E f \in Owned(fds, World) \ ClosedFds(fds) : fds' = CloseFd(fds, f)
  /\ UNCHANGED <<handle, status, result>>

Next ==
  \/ \E c \in Conns, o \in Requests : Create(c, o)
  \/ WorldOpens
  \/ WorldCloses

Spec == Init /\ [][Next]_vars
=============================================================================
