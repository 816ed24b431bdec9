------------------------- MODULE SocketDescriptors -------------------------
(***************************************************************************)
(* The process's table of descriptors, as c_socket-tcp.cpp uses it, and    *)
(* what one call of s_create_socket can do to it, seen as a whole.  Module *)
(* CreateSocket has the system calls one by one and implements this.       *)
(***************************************************************************)
EXTENDS Integers

CONSTANTS
  Conns,    (* the connection_t objects that own a socket                  *)
  World,    (* the rest of the process: standard streams, other files      *)
  MaxFd     (* bound: the largest descriptor, RLIMIT_NOFILE less one       *)

ASSUME DescriptorAssumption == World \notin Conns /\ MaxFd \in Nat

Fds == 0 .. MaxFd
InvalidSocket == -1
Handles == Fds \cup {InvalidSocket}

SocketKinds == {"unbound", "connecting", "connected", "listening"}
Closed == [kind |-> "closed", owner |-> World]
Descriptors == {Closed} \cup [kind: SocketKinds, owner: Conns]
               \cup [kind: {"file", "connected"}, owner: {World}]

ClosedFds(fds) == {f \in Fds : fds[f] = Closed}

(* Faulty variant: the table has no end.                                   *)
NewFdsUnlimited(fds) ==
  LET free == ClosedFds(fds) \cup {MaxFd + 1} IN {f \in free : \A g \in free : f <= g}

(* socket() and open() return the lowest free descriptor, if there is one. *)
NewFds(fds) == {f \in ClosedFds(fds) : \A g \in ClosedFds(fds) : f <= g}

Opened(fds, f, k, o) == [fds EXCEPT ![f] = [kind |-> k, owner |-> o]]

(* close() of a number that is no open descriptor, -1 too, does nothing.   *)
CloseFd(fds, f) == [g \in Fds |-> IF g = f THEN Closed ELSE fds[g]]

IsSocket(fds, f) == f \in Fds /\ fds[f].kind \in SocketKinds

Owned(fds, c) == {f \in Fds : fds[f].owner = c}

-----------------------------------------------------------------------------
(* CS_OPTION_LISTEN and CS_OPTION_NOBLOCK.                                 *)
Options == [listen: BOOLEAN, noblock: BOOLEAN]

(* The socket a call with options o makes: with CS_OPTION_LISTEN it        *)
(* connects, without it binds and listens.  m_status says "connected",     *)
(* "connecting" or, for a listening socket, nothing.                       *)
EstablishedKind(o) ==
  IF ~o.listen THEN "listening" ELSE IF o.noblock THEN "connecting" ELSE "connected"
EstablishedStatus(o) ==
  IF ~o.listen THEN "none" ELSE EstablishedKind(o)
Statuses == {"none", "connecting", "connected"}

Outcome(fds, h, st, res) == [fds |-> fds, handle |-> h, status |-> st, result |-> res]

(* s_create_socket for an address that resolves.  It opens one socket, or  *)
(* fails and leaves the table as it was; the handle is then -1 or the      *)
(* number of a socket already closed again.                                *)
CreateResolved(fds, c, o) ==
  {Outcome(Opened(fds, f, EstablishedKind(o), c), f, EstablishedStatus(o), 0) : f \in ClosedFds(fds)}
  \cup {Outcome(fds, f, EstablishedStatus(o), -1) : f \in ClosedFds(fds)}
  \cup {Outcome(fds, f, "none", -1) : f \in ClosedFds(fds) \cup {InvalidSocket}}

(* s_create_socket for an address that does not resolve: m_handle is still *)
(* the NULL of its first line, which is descriptor 0.  If that is a socket *)
(* the call succeeds on it, else it closes it.                             *)
CreateUnresolved(fds, c) ==
  {Outcome(CloseFd(fds, 0), 0, "none", -1)}
  \cup (IF IsSocket(fds, 0) THEN {Outcome(fds, 0, "none", 0)} ELSE {})

CreateOutcomes(fds, c, o, resolved) ==
  IF resolved THEN CreateResolved(fds, c, o) ELSE CreateUnresolved(fds, c)
=============================================================================
