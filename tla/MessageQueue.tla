---------------------------- MODULE MessageQueue ----------------------------
(***************************************************************************)
(* One message_queue_t and its users: messages are constructed, pushed,    *)
(* popped and, once popped, constructed anew in the same memory.           *)
(***************************************************************************)
EXTENDS MessageList, Sequences

CONSTANTS
  InitialSizes,  (* what m_size may hold before the first call: zero where *)
                 (* init() ran; anything in the socket's receive queue,    *)
                 (* which nothing initialises                              *)
  MaxPushes      (* bound: pushes in one behaviour                         *)

ASSUME BoundsAssumption == InitialSizes \subseteq Nat /\ MaxPushes \in Nat

VARIABLES
  q,        (* the queue                                                   *)
  garbage,  (* what m_size held before the first call                      *)
  mine,     (* messages the users own: constructed and not queued          *)
  pushed,   (* history: the messages pushed, in order                      *)
  popped    (* history: the nodes pop() returned, in order                 *)

vars == <<q, garbage, mine, pushed, popped>>

Init ==
  /\ garbage \in InitialSizes
  /\ q = Sized(garbage, EmptyQueue)
  /\ mine = Messages
  /\ pushed = <<>>
  /\ popped = <<>>

(* alloc_msg places a new message in memory its last user gave back; the   *)
(* node's constructor links it to itself.                                  *)
AllocMsg(m) ==
  /\ m \in mine
  /\ q' = Cleared(q, m)
  /\ UNCHANGED <<garbage, mine, pushed, popped>>

PushMsg(m) ==
  /\ m \in mine
  /\ Len(pushed) < MaxPushes
  /\ q' = Push(q, m)
  /\ mine' = mine \ {m}
  /\ pushed' = Append(pushed, m)
  /\ UNCHANGED <<garbage, popped>>

(* pop() on an empty queue returns NULL and changes nothing.               *)
PopMsg ==
  /\ Peek(q) # Null
  /\ q' = Pop(q)
  /\ mine' = mine \cup ({Peek(q)} \ {MHead})
  /\ popped' = Append(popped, Peek(q))
  /\ UNCHANGED <<garbage, pushed>>

PopNone ==
  /\ Peek(q) = Null
  /\ q' = Pop(q)
  /\ UNCHANGED <<garbage, mine, pushed, popped>>

Next ==
  \/ \E m \in Messages : AllocMsg(m) \/ PushMsg(m)
  \/ PopMsg
  \/ PopNone

Spec == Init /\ [][Next]_vars

-----------------------------------------------------------------------------
(* Every link points at a node and the count never drops below zero.       *)
TypeOK ==
  /\ q \in QueueType
  /\ garbage \in Nat
  /\ mine \subseteq Messages
  /\ pushed \in Seq(Messages)
  /\ popped \in Seq(Nodes)

(* The sentinel is not a message: of the queue's own head node_to_msg      *)
(* would make a message out of the bytes behind the queue.  Whatever the   *)
(* order of pushes, pops and constructions, pop() returns it only for what *)
(* an uninitialised count claimed to be there, never on an initialised     *)
(* queue, and never again after a message.                                 *)
OnlyMessagesReturned ==
  \A i \in DOMAIN popped :
    popped[i] = MHead => i <= garbage /\ \A j \in 1 .. i : popped[j] = MHead

(* The oldest push determines the front: from the first push on, the front *)
(* link of the sentinel leads to the first message pushed, whatever was    *)
(* pushed, popped or constructed since.  For the first pop this is what a  *)
(* queue owes its users; that it outlives the first pop is why FifoOrder   *)
(* fails.                                                                  *)
FrontIsFirstPushed == pushed # <<>> => q.prev[MHead] = pushed[1]

(* What "queue the message up" promises: messages come out in the order    *)
(* they were pushed, each once (c_socket-tcp.cpp:786).                     *)
FifoOrder ==
  \A i \in DOMAIN popped : i \in DOMAIN pushed /\ popped[i] = pushed[i]
=============================================================================
