------------------------- MODULE MessageListProofs -------------------------
(***************************************************************************)
(* What the operations of the message list do to its links, for every set  *)
(* of messages.  Before the first push the sentinel is linked to itself;   *)
(* from then on its m_prev is pinned to the first message pushed, because  *)
(* only a node linked to the sentinel could overwrite it and no node but   *)
(* that first message ever is.                                             *)
(***************************************************************************)
EXTENDS MessageList, TLAPS

(* The links before the first push. *)
Untouched(r) ==
  /\ r.next[MHead] = MHead
  /\ r.prev[MHead] = MHead
  /\ \A m \in Messages : r.next[m] = m /\ r.prev[m] = m

(* The links from the first push of "first" on. *)
Pinned(r, first) ==
  /\ r.prev[MHead] = first
  /\ r.next[MHead] \in Messages
  /\ \A m \in Messages : r.prev[m] \in Messages
  /\ \A m \in Messages : r.next[m] = MHead => m = first /\ r.prev[m] = m

LEMMA EmptyShape == EmptyQueue \in QueueType /\ EmptyQueue.size = 0 /\ Untouched(EmptyQueue)
  BY DEF EmptyQueue, Sized, QueueType, Untouched, Nodes

(* push_back keeps every link inside the list's nodes. *)
LEMMA PushBackType ==
  ASSUME NEW r \in QueueType, NEW m \in Messages
  PROVE  /\ PushBack(r, m) \in QueueType
         /\ Push(r, m) \in QueueType
         /\ Push(r, m).size = r.size + 1
  <1> DEFINE prev == [r.prev EXCEPT ![r.next[MHead]] = m]
             next == [r.next EXCEPT ![prev[MHead]] = m]
  <1>1. prev \in [Nodes -> Nodes]
    BY DEF QueueType, Nodes
  <1>2. next \in [Nodes -> Nodes]
    BY <1>1 DEF QueueType, Nodes
  <1>3. /\ [next EXCEPT ![m] = next[MHead], ![MHead] = m] \in [Nodes -> Nodes]
        /\ [prev EXCEPT ![m] = prev[MHead]] \in [Nodes -> Nodes]
    <2> HIDE DEF prev, next
    <2> QED
      BY <1>1, <1>2 DEF Nodes
  <1>4. PushBack(r, m) \in QueueType
    BY <1>3 DEF PushBack, QueueType
  <1>5. QED
    BY <1>4 DEF Push, Sized, QueueType

(* pop_front keeps every link inside the list's nodes. *)
LEMMA PopType ==
  ASSUME NEW r \in QueueType
  PROVE  /\ Pop(r) \in QueueType
         /\ Peek(r) \in Nodes \cup {Null}
         /\ Peek(r) = Null <=> r.size = 0
         /\ r.size # 0 => Pop(r).size = r.size - 1 /\ Peek(r) = r.prev[MHead]
  <1>1. r.prev[MHead] \in Nodes /\ r.prev[MHead] # Null
    BY NodesDistinct DEF QueueType, Nodes
  <1>2. PopFront(r) \in QueueType
    BY <1>1 DEF PopFront, QueueType, Nodes
  <1>3. QED
    BY <1>1, <1>2 DEF Pop, Peek, Sized, QueueType

(* What the first push leaves. *)
LEMMA FirstPush ==
  ASSUME NEW r \in QueueType, Untouched(r), NEW m \in Messages
  PROVE  Pinned(Push(r, m), m)
  <1> DEFINE prev == [r.prev EXCEPT ![MHead] = m]
             next == [r.next EXCEPT ![m] = m]
  <1>1. r.next \in [Nodes -> Nodes] /\ r.prev \in [Nodes -> Nodes] /\ m # MHead
    BY NodesDistinct DEF QueueType
  <1>2. PushBack(r, m) = [size |-> r.size,
                          next |-> [next EXCEPT ![m] = MHead, ![MHead] = m],
                          prev |-> [prev EXCEPT ![m] = m]]
    BY <1>1 DEF PushBack, Untouched, Nodes
  <1>3. /\ Push(r, m).next = [next EXCEPT ![m] = MHead, ![MHead] = m]
        /\ Push(r, m).prev = [prev EXCEPT ![m] = m]
    BY <1>2 DEF Push, Sized
  <1>4. QED
    BY <1>1, <1>3, NodesDistinct DEF Pinned, Untouched, Nodes

(* What a later push leaves. *)
LEMMA LaterPush ==
  ASSUME NEW r \in QueueType, NEW first \in Messages, Pinned(r, first), NEW m \in Messages
  PROVE  Pinned(Push(r, m), first)
  <1> DEFINE prev == [r.prev EXCEPT ![r.next[MHead]] = m]
             next == [r.next EXCEPT ![first] = m]
  <1>1. r.next \in [Nodes -> Nodes] /\ r.prev \in [Nodes -> Nodes] /\ MHead \notin Messages
    BY NodesDistinct DEF QueueType
  <1>2. prev[MHead] = first /\ next[MHead] = r.next[MHead]
    BY <1>1 DEF Pinned, Nodes
  <1>3. /\ Push(r, m).next = [next EXCEPT ![m] = r.next[MHead], ![MHead] = m]
        /\ Push(r, m).prev = [prev EXCEPT ![m] = first]
    BY <1>2 DEF Push, Sized, PushBack
  <1>4. QED
    BY <1>1, <1>3 DEF Pinned, Nodes

(* What a pop leaves: the front link where it was. *)
LEMMA PopKeepsFront ==
  ASSUME NEW r \in QueueType, NEW first \in Messages, Pinned(r, first)
  PROVE  Pinned(Pop(r), first)
  <1> DEFINE next == [r.next EXCEPT ![r.prev[first]] = r.next[first]]
  <1>1. r.next \in [Nodes -> Nodes] /\ r.prev \in [Nodes -> Nodes] /\ MHead \notin Messages
    BY NodesDistinct DEF QueueType
  <1>2. CASE r.size = 0
    BY <1>2 DEF Pop, Pinned
  <1>3. CASE r.size # 0
    <2>1. /\ Pop(r).next = next
          /\ Pop(r).prev = [r.prev EXCEPT ![next[first]] = r.prev[first]]
      BY <1>3 DEF Pop, Sized, PopFront, Pinned
    <2>2. r.prev[first] \in Messages /\ next[first] = r.next[first]
      BY <1>1 DEF Pinned, Nodes
    <2>3. r.next[first] = MHead => r.prev[first] = first
      BY DEF Pinned
    <2>4. QED
      BY <1>1, <2>1, <2>2, <2>3 DEF Pinned, Nodes
  <1>4. QED
    BY <1>2, <1>3

(* What a pop leaves of a list nothing was pushed on. *)
LEMMA PopUntouched ==
  ASSUME NEW r \in QueueType, Untouched(r)
  PROVE  Untouched(Pop(r))
  <1>1. PopFront(r).next = r.next /\ PopFront(r).prev = r.prev
    BY DEF PopFront, Untouched, QueueType, Nodes
  <1>2. QED
    BY <1>1 DEF Pop, Sized, Untouched

(* Construction of a message touches that message's own links only. *)
LEMMA ClearKeepsFront ==
  ASSUME NEW r \in QueueType, NEW m \in Messages
  PROVE  /\ Cleared(r, m) \in QueueType /\ Cleared(r, m).size = r.size
         /\ Untouched(r) => Untouched(Cleared(r, m))
         /\ \A first \in Messages : Pinned(r, first) => Pinned(Cleared(r, m), first)
  BY NodesDistinct DEF QueueType, Cleared, Untouched, Pinned, Nodes
=============================================================================
