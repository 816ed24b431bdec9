------------------------------ MODULE Channel ------------------------------
(***************************************************************************)
(* What one direction of a connection amounts to for its two users: the    *)
(* one queues messages, learns that some were written, and finds in the    *)
(* other's hands what was delivered.  Module Link has the writer, the      *)
(* network and the reader between them, and implements this.               *)
(*                                                                         *)
(* It is less than a channel of messages.  One message per connection is   *)
(* written, and once delivered it is followed by empty ones; and the user  *)
(* finds not the message but the units of it behind the first word, which  *)
(* the reader has taken for all of the header.                             *)
(***************************************************************************)
EXTENDS Integers, Sequences

CONSTANTS
  Messages,
  Blank,      (* a unit nobody sent                                        *)
  Skip,       (* units of a payload that are not delivered                 *)
  BodyLen     (* units a delivery has                                      *)

VARIABLES
  queued,     (* the messages queued at one end, in order                  *)
  reported,   (* the messages this end is told are written                 *)
  inbox       (* the contents delivered at the other, in order             *)

vars == <<queued, reported, inbox>>

Content(m) == [i \in 1 .. BodyLen |-> <<m, Skip + i>>]
Nothing == [i \in 1 .. BodyLen |-> Blank]

Init == queued = <<>> /\ reported = {} /\ inbox = <<>>

Queue(m) ==
  /\ queued' = Append(queued, m)
  /\ UNCHANGED <<reported, inbox>>

Report ==
  /\ queued # <<>> /\ reported = {}
  /\ reported' = {queued[1]}
  /\ UNCHANGED <<queued, inbox>>

Deliver ==
  /\ queued # <<>> /\ inbox = <<>>
  /\ inbox' = <<Content(queued[1])>>
  /\ UNCHANGED <<queued, reported>>

DeliverEmpty ==
  /\ inbox # <<>>
  /\ inbox' = Append(inbox, Nothing)
  /\ UNCHANGED <<queued, reported>>

Next == (\E m \in Messages : Queue(m)) \/ Report \/ Deliver \/ DeliverEmpty

Spec == Init /\ [][Next]_vars
=============================================================================
