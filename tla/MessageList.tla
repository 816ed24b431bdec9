---------------------------- MODULE MessageList ----------------------------
(***************************************************************************)
(* The intrusive message list of c_message.h: message_node_t, the link     *)
(* node in front of every message, and message_queue_t, a count and a      *)
(* sentinel node.  A queue is the record of its count (m_size) and of the  *)
(* two link fields of EVERY node, because push_back and pop_front write    *)
(* through whatever the links happen to point at.                          *)
(*                                                                         *)
(* The operators are pure: the state machines that own a queue (a          *)
(* connection's send queue, the socket's receive queue) apply them.        *)
(***************************************************************************)
EXTENDS Integers

CONSTANTS
  Messages,   (* the messages, each with its message_node_t               *)
  MHead,      (* the sentinel node m_head of the queue                    *)
  Null        (* the null pointer                                         *)

ASSUME NodesDistinct == MHead \notin Messages /\ Null \notin Messages \cup {MHead}

Nodes == Messages \cup {MHead}

QueueType == [size: Nat, next: [Nodes -> Nodes], prev: [Nodes -> Nodes]]

(* The queue with the links of "list" and the count n.                     *)
Sized(n, list) == [size |-> n, next |-> list.next, prev |-> list.prev]

(* clear(), also what the constructor does: a node linked to itself.       *)
Cleared(q, n) ==
  [size |-> q.size, next |-> [q.next EXCEPT ![n] = n], prev |-> [q.prev EXCEPT ![n] = n]]

(* init(): count zero, sentinel cleared.  Every message not yet queued was *)
(* constructed, hence is linked to itself as well.                         *)
EmptyQueue == Sized(0, [next |-> [n \in Nodes |-> n], prev |-> [n \in Nodes |-> n]])

(* Faulty variants of push_back: the write to m_next is missing; the first *)
(* write is missing.                                                       *)
PushBackKeepsNext(q, m) ==
  LET prev == [q.prev EXCEPT ![q.next[MHead]] = m]
      next == [q.next EXCEPT ![prev[MHead]] = m]
  IN  [size |-> q.size,
       next |-> [next EXCEPT ![m] = next[MHead]],
       prev |-> [prev EXCEPT ![m] = prev[MHead]]]

PushBackKeepsPrev(q, m) ==
  LET next == [q.next EXCEPT ![q.prev[MHead]] = m]
  IN  [size |-> q.size,
       next |-> [next EXCEPT ![m] = next[MHead], ![MHead] = m],
       prev |-> [q.prev EXCEPT ![m] = q.prev[MHead]]]

(* push_back: the five assignments in their order.  The second one goes    *)
(* through m_prev as the first one left it.                                *)
PushBack(q, m) ==
  LET prev == [q.prev EXCEPT ![q.next[MHead]] = m]
      next == [q.next EXCEPT ![prev[MHead]] = m]
  IN  [size |-> q.size,
       next |-> [next EXCEPT ![m] = next[MHead], ![MHead] = m],
       prev |-> [prev EXCEPT ![m] = prev[MHead]]]

(* pop_front unlinks the node peek_front shows; its own links stay.        *)
PopFront(q) ==
  LET m    == q.prev[MHead]
      next == [q.next EXCEPT ![q.prev[m]] = q.next[m]]
  IN  [size |-> q.size,
       next |-> next,
       prev |-> [q.prev EXCEPT ![next[m]] = q.prev[m]]]

Push(q, m) == Sized(q.size + 1, PushBack(q, m))

Peek(q) == IF q.size = 0 THEN Null ELSE q.prev[MHead]

(* Faulty variant of pop(): the count is not tested.                       *)
PopUnchecked(q) == Sized(q.size - 1, PopFront(q))

(* The queue after pop(); the node that pop() returns is Peek(q).          *)
Pop(q) == IF q.size = 0 THEN q ELSE Sized(q.size - 1, PopFront(q))
=============================================================================
