--------------------------- MODULE SocketResults ---------------------------
(***************************************************************************)
(* How a loop over send() or recv() on a non-blocking socket ends, and     *)
(* is_error (c_message-tcp.cpp), which both directions apply to the result *)
(* of the last call:                                                       *)
(*   "all"    the last call moved the last unit that was asked for         *)
(*   "again"  EAGAIN: the kernel's buffer is full, or empty                *)
(*   "intr"   EINTR: a signal                                              *)
(*   "zero"   the call returned 0: end of stream, or a length of zero      *)
(*   "error"  any other errno                                              *)
(*   "none"   no call was made                                             *)
(***************************************************************************)

(* Faulty variant: a reset connection is taken for one to try again.       *)
IsErrorNeverFails(n) == n = "zero"

(* Faulty variant: errno is not compared with EAGAIN.                      *)
IsErrorAgain(n) == n \in {"zero", "error", "again"}

IsError(n) == n \in {"zero", "error"}
=============================================================================
