------------------------- MODULE MessageQueueProofs -------------------------
(***************************************************************************)
(* What MessageQueue guarantees for every set of messages and every bound, *)
(* from what MessageListProofs shows of the links.                         *)
(***************************************************************************)
EXTENDS MessageQueue, MessageListProofs

(* The inductive invariant: the links, the count, and what came out before *)
(* the first push. *)
LinkShape ==
  /\ pushed = <<>> => Untouched(q)
  /\ pushed # <<>> => Pinned(q, pushed[1])

Counted ==
  /\ q.size = garbage + Len(pushed) - Len(popped)
  /\ pushed = <<>> => \A i \in DOMAIN popped : popped[i] = MHead

FrontInv == LinkShape /\ Counted /\ OnlyMessagesReturned

-----------------------------------------------------------------------------
(* Every link of the queue points at one of its nodes and the count stays  *)
(* a natural number, under any order of pushes, pops and constructions.    *)
THEOREM TypeCorrect == Spec => []TypeOK
<1>1. Init => TypeOK
  <2> SUFFICES ASSUME Init
               PROVE  TypeOK
    OBVIOUS
  <2>1. q = Sized(garbage, EmptyQueue)
    BY DEF Init
  <2>2. garbage \in Nat
    BY BoundsAssumption DEF Init
  <2>3. q \in QueueType
    BY <2>1, <2>2 DEF EmptyQueue, Sized, QueueType, Nodes
  <2>4. QED
    BY <2>2, <2>3 DEF Init, TypeOK
<1>2. TypeOK /\ [Next]_vars => TypeOK'
  <2> SUFFICES ASSUME TypeOK, [Next]_vars
               PROVE  TypeOK'
    OBVIOUS
  <2>1. ASSUME NEW m \in Messages, AllocMsg(m)
        PROVE  TypeOK'
    BY <2>1, ClearKeepsFront DEF AllocMsg, TypeOK
  <2>2. ASSUME NEW m \in Messages, PushMsg(m)
        PROVE  TypeOK'
    BY <2>2, PushBackType DEF PushMsg, TypeOK
  <2>3. CASE PopMsg
    <3>1. Peek(q) \in Nodes
      BY <2>3, PopType DEF PopMsg, TypeOK
    <3>2. /\ q' \in QueueType /\ garbage' \in Nat
          /\ popped' \in Seq(Nodes) /\ pushed' \in Seq(Messages)
      BY <2>3, <3>1, PopType DEF PopMsg, TypeOK
    <3>3. mine' \subseteq Messages
      BY <2>3, <3>1 DEF PopMsg, TypeOK, Nodes
    <3>4. QED
      BY <3>2, <3>3 DEF TypeOK
  <2>4. CASE PopNone
    BY <2>4, PopType DEF PopNone, TypeOK
  <2>5. CASE UNCHANGED vars
    BY <2>5 DEF vars, TypeOK
  <2>6. QED
    BY <2>1, <2>2, <2>3, <2>4, <2>5 DEF Next
<1>3. QED
  BY <1>1, <1>2, PTL DEF Spec

-----------------------------------------------------------------------------
(* The first message pushed stays at the front, and the sentinel comes out *)
(* for an uninitialised count and before the first push only.              *)
THEOREM FrontCorrect == Spec => [](FrontIsFirstPushed /\ OnlyMessagesReturned)
<1>1. Init => FrontInv
  BY BoundsAssumption
  DEF Init, FrontInv, LinkShape, Counted, Untouched, OnlyMessagesReturned,
      EmptyQueue, Sized, Nodes
<1>2. TypeOK /\ FrontInv /\ [Next]_vars => FrontInv'
  <2> SUFFICES ASSUME TypeOK, FrontInv, [Next]_vars
               PROVE  FrontInv'
    OBVIOUS
  <2> USE DEF FrontInv
  <2>0. q \in QueueType /\ (pushed # <<>> => pushed[1] \in Messages)
    BY DEF TypeOK
  <2>1. ASSUME NEW m \in Messages, AllocMsg(m)
        PROVE  FrontInv'
    <3>1. LinkShape'
      BY <2>0, <2>1, ClearKeepsFront DEF AllocMsg, LinkShape
    <3>2. Counted' /\ OnlyMessagesReturned'
      BY <2>1 DEF AllocMsg, Cleared, Counted, OnlyMessagesReturned
    <3>3. QED
      BY <3>1, <3>2
  <2>2. ASSUME NEW m \in Messages, PushMsg(m)
        PROVE  FrontInv'
    <3>1. pushed' # <<>> /\ pushed'[1] = IF pushed = <<>> THEN m ELSE pushed[1]
      BY <2>2 DEF PushMsg, TypeOK
    <3>2. Pinned(q', pushed'[1])
      <4>1. CASE pushed = <<>>
        BY <2>0, <2>2, <3>1, <4>1, FirstPush DEF PushMsg, LinkShape
      <4>2. CASE pushed # <<>>
        BY <2>0, <2>2, <3>1, <4>2, LaterPush DEF PushMsg, LinkShape
      <4>3. QED
        BY <4>1, <4>2
    <3>3. LinkShape'
      BY <3>1, <3>2 DEF LinkShape
    <3>5. q'.size = q.size + 1 /\ Len(pushed') = Len(pushed) + 1
      BY <2>2, PushBackType DEF PushMsg, TypeOK
    <3>6. Counted'
      BY <2>2, <3>1, <3>5 DEF PushMsg, Counted, TypeOK, QueueType
    <3>7. OnlyMessagesReturned'
      BY <2>2 DEF PushMsg, OnlyMessagesReturned
    <3>8. QED
      BY <3>3, <3>6, <3>7
  <2>3. CASE PopMsg
    <3>1. q.size # 0 /\ Peek(q) = q.prev[MHead]
      BY <2>3 DEF PopMsg, Peek
    <3>2. pushed # <<>> => Peek(q) \in Messages
      BY <2>0, <3>1 DEF LinkShape, Pinned
    <3>3. pushed = <<>> => Peek(q) = MHead
      BY <3>1 DEF LinkShape, Untouched
    <3>4. LinkShape'
      BY <2>0, <2>3, PopUntouched, PopKeepsFront DEF PopMsg, LinkShape
    <3>5. q'.size = q.size - 1 /\ popped' = Append(popped, Peek(q))
          /\ pushed' = pushed /\ garbage' = garbage /\ Peek(q) \in Nodes
      BY <2>3, <3>1, PopType DEF PopMsg, TypeOK
    <3>6. Counted'
      BY <3>3, <3>5 DEF Counted, TypeOK, QueueType
    <3>7. Peek(q) = MHead => pushed = <<>> /\ Len(popped) + 1 <= garbage
      BY <3>1, <3>2, NodesDistinct DEF Counted, TypeOK, QueueType
    <3>8. OnlyMessagesReturned'
      BY <3>5, <3>7 DEF OnlyMessagesReturned, Counted, TypeOK
    <3>9. QED
      BY <3>4, <3>6, <3>8
  <2>4. CASE PopNone
    <3>1. q.size = 0
      BY <2>4, PopType DEF PopNone, TypeOK
    <3>2. UNCHANGED vars
      BY <2>4, <3>1 DEF PopNone, Pop, vars
    <3>3. QED
      BY <3>2 DEF vars, LinkShape, Untouched, Pinned, Counted, OnlyMessagesReturned
  <2>5. CASE UNCHANGED vars
    BY <2>5 DEF vars, LinkShape, Untouched, Pinned, Counted, OnlyMessagesReturned
  <2>6. QED
    BY <2>1, <2>2, <2>3, <2>4, <2>5 DEF Next
<1>3. FrontInv => FrontIsFirstPushed /\ OnlyMessagesReturned
  BY DEF FrontInv, LinkShape, Pinned, FrontIsFirstPushed
<1>4. QED
  BY <1>1, <1>2, <1>3, TypeCorrect, PTL DEF Spec
=============================================================================
