----------------------------- MODULE SocketInit -----------------------------
(***************************************************************************)
(* nsock_init (c_socket.cpp) on Windows: the count s_initialized that      *)
(* attach() and release() keep for all sockets of the process, and the     *)
(* WinSock library they start and clean up.  On other platforms the count  *)
(* is kept and nothing hangs on it.                                        *)
(***************************************************************************)
EXTENDS Integers

CONSTANTS
  Sockets,     (* the socket_tcp_t objects                                 *)
  MaxCreates   (* bound: sockets created                                   *)

VARIABLES
  sockets,        (* those that exist                                      *)
  s_initialized,
  loaded,         (* WSAStartup() succeeded and WSACleanup() did not follow *)
  creates,        (* sockets created so far                                *)
  failed          (* history: a WSAStartup() has failed                    *)

vars == <<sockets, s_initialized, loaded, creates, failed>>

Init ==
  /\ sockets = {} /\ s_initialized = 0 /\ loaded = FALSE
  /\ creates = 0 /\ failed = FALSE

(* attach(): only a count of zero is increased, and starts the library.    *)
(* When that fails the count is "false" again; no one looks at the result. *)
Attach ==
  IF s_initialized = 0
  THEN \/ s_initialized' = 1 /\ loaded' = TRUE /\ UNCHANGED failed
       \/ s_initialized' = 0 /\ failed' = TRUE /\ UNCHANGED loaded
  ELSE UNCHANGED <<s_initialized, loaded, failed>>

(* release(): every call decreases the count, and cleans up at zero.  That *)
(* WSACleanup() fails is not modelled.                                     *)
Release ==
  /\ s_initialized' = s_initialized - 1
  /\ loaded' = (loaded /\ s_initialized' # 0)
  /\ UNCHANGED failed

(* gCreateTcpBasedSocket: the constructor attaches.                        *)
Create(s) ==
  /\ s \notin sockets /\ creates < MaxCreates
  /\ Attach
  /\ sockets' = sockets \cup {s}
  /\ creates' = creates + 1

(* gDestroyTcpBasedSocket: close() does nothing, the destructor releases.  *)
Destroy(s) ==
  /\ s \in sockets
  /\ Release
  /\ sockets' = sockets \ {s}
  /\ UNCHANGED creates

Next == \E s \in Sockets : Create(s) \/ Destroy(s)

Spec == Init /\ [][Next]_vars

-----------------------------------------------------------------------------
(* "If you execute this on Windows while some instance of Socket exists,   *)
(* you are toast" (c_socket.cpp:71-72): unless it failed to start, the     *)
(* library is there while a socket is.                                     *)
LoadedWhileUsed == sockets # {} /\ ~failed => loaded
=============================================================================
