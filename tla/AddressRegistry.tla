-------------------------- MODULE AddressRegistry --------------------------
(***************************************************************************)
(* address_registry_imp_t (c_address.cpp): a hash table of chains of       *)
(* address_t nodes.  A place is what the pointer p in the code points at,  *)
(* a bucket of the table or the m_next of a node; link holds what is       *)
(* stored there.                                                           *)
(*                                                                         *)
(* m_count and max_addresses are written or passed and never looked at.    *)
(***************************************************************************)
EXTENDS Integers

CONSTANTS
  Ids,       (* connection ids                                             *)
  Eps,       (* end points                                                 *)
  NoEp,
  Word,      (* bytes 8 to 11 of each id, as one number                    *)
  Size,      (* m_size, a power of two                                     *)
  Below,     (* pairs <<x, y>> of ids with x.compare(y) equal to -1        *)
  Nodes,     (* the memory the allocator has for nodes                     *)
  Null,
  Wild       (* what memory nobody cleared holds                           *)

Buckets == 0 .. Size - 1
Places == Buckets \cup Nodes

ASSUME RegistryAssumption ==
  /\ Size \in Nat \ {0} /\ Word \in [Ids -> Nat]
  /\ Null # Wild /\ {Null, Wild} \cap Places = {} /\ Buckets \cap Nodes = {}

VARIABLES
  link,      (* the pointer stored at each place                           *)
  entry,     (* m_id and m_ep of the nodes that are allocated              *)
  ret,       (* the last call and what it answered                         *)
  pc         (* "none": no registry exists, "up", or "fault"               *)

vars == <<link, entry, ret, pc>>

Answer(call, id, found, ep) == [call |-> call, id |-> id, found |-> found, ep |-> ep]
Entry(id, ep) == [id |-> id, ep |-> ep]
live == DOMAIN entry

Init ==
  /\ link = [p \in Places |-> Null]
  /\ entry = [n \in {} |-> Null]
  /\ ret = [call |-> "create"] /\ pc = "none"

(* hash_to_index: the mask m_size - 1 keeps the low bits.                  *)
HashToIndex(id) == Word[id] % Size

-----------------------------------------------------------------------------
(* Walks.  The places reached from p are the smallest set that holds p and *)
(* follows its links.                                                      *)
Follows(S) == \A x \in S : link[x] \in Nodes => link[x] \in S
Reach(p) == {x \in Places : \A S \in SUBSET Places : p \in S /\ Follows(S) => x \in S}

(* Where the loop "while (e != nullptr)" over the chain of bucket b stops, *)
(* when it breaks at a node of "stop": at the first place that holds such  *)
(* a node or no node.  None if the chain is a ring without such a node.    *)
StopsAt(b, stop) ==
  LET Ends(p) == link[p] \notin Nodes \ stop
  IN  {p \in Reach(b) : Ends(p) /\ \A q \in Reach(b) \ {p} : p \in Reach(q) => ~Ends(q)}

(* Faulty variant: the ids are not compared.                               *)
FindByHashFirst(id) == StopsAt(HashToIndex(id), Nodes)

(* find_by_hash, and the loop of remove(), which stops at the same node: a *)
(* node with the id.  A node that was freed stops it as well, by a fault.  *)
FindByHash(id) ==
  StopsAt(HashToIndex(id), {n \in Nodes : n \notin live \/ entry[n].id = id})

(* Faulty variant: every node goes to the front.                           *)
FrontOf(id) == {HashToIndex(id)}

(* add() of a node: in front of the first one whose compare() is -1.       *)
PlaceFor(id) ==
  StopsAt(HashToIndex(id), {n \in Nodes : n \notin live \/ <<entry[n].id, id>> \in Below})

(* Faulty variant: m_next is read after the place was overwritten.         *)
InsertedLate(h, p) == [link EXCEPT ![p] = h, ![h] = h]

Inserted(h, p) == [link EXCEPT ![p] = h, ![h] = link[p]]

(* Faulty variants: the chain is cut at the node; the place still holds    *)
(* the node; its m_next is kept.                                           *)
UnlinkedRest(p) == [link EXCEPT ![p] = Null, ![link[p]] = Null]
UnlinkedNot(p) == [link EXCEPT ![link[p]] = Null]
UnlinkedHalf(p) == [link EXCEPT ![p] = link[link[p]]]

Unlinked(p) == [link EXCEPT ![p] = link[link[p]], ![link[p]] = Null]

-----------------------------------------------------------------------------
Fault == pc' = "fault" /\ UNCHANGED <<link, entry, ret>>

(* create: the table comes from the allocator, which clears nothing.       *)
Create ==
  /\ pc = "none"
  /\ \E wild \in SUBSET Buckets :
       link' = [p \in Places |-> IF p \in wild THEN Wild ELSE Null]
  /\ ret' = [call |-> "create"] /\ pc' = "up"
  /\ UNCHANGED entry

(* The lookup every operation begins with follows a pointer that leads to  *)
(* no node.                                                                *)
LookupFaults(id) ==
  /\ pc = "up"
  /\ \E p \in FindByHash(id) : link[p] \notin live \cup {Null}
  /\ Fault

Known(id, p) == pc = "up" /\ p \in FindByHash(id) /\ link[p] \in live
Unknown(id) == pc = "up" /\ \E p \in FindByHash(id) : link[p] = Null

(* There is memory for the node: NULL from the allocator is not modelled.  *)
AddNew(id, ep) ==
  /\ Unknown(id)
  /\ \E h \in Nodes \ live, p \in PlaceFor(id) :
       /\ link' = Inserted(h, p)
       /\ entry' = [n \in live \cup {h} |-> IF n = h THEN Entry(id, ep) ELSE entry[n]]
  /\ ret' = Answer("add", id, TRUE, NoEp)
  /\ UNCHANGED pc

AddKnown(id) ==
  /\ \E p \in Places : Known(id, p)
  /\ ret' = Answer("add", id, FALSE, NoEp)
  /\ UNCHANGED <<link, entry, pc>>

Get(id) ==
  /\ \E p \in Places : Known(id, p) /\ ret' = Answer("get", id, TRUE, entry[link[p]].ep)
  /\ UNCHANGED <<link, entry, pc>>

Rem(id) ==
  /\ \E p \in Places :
       /\ Known(id, p)
       /\ link' = Unlinked(p)
       /\ entry' = [n \in live \ {link[p]} |-> entry[n]]
  /\ ret' = Answer("rem", id, TRUE, NoEp)
  /\ UNCHANGED pc

(* get() and rem() of an id that is not registered.                        *)
NotFound(id) ==
  /\ Unknown(id)
  /\ \E call \in {"get", "rem"} : ret' = Answer(call, id, FALSE, NoEp)
  /\ UNCHANGED <<link, entry, pc>>

(* Faulty variant: the loop ends before the last bucket.                   *)
InTableButLast == UNION {Reach(b) : b \in Buckets \ {Size - 1}}

(* Places the loop of destroy() over the table visits.                     *)
InTable == UNION {Reach(b) : b \in Buckets}

(* destroy: every node of every chain, the table and the object.  What the *)
(* freed memory holds is nobody's.                                         *)
Destroy ==
  /\ pc = "up"
  /\ \A p \in InTable : link[p] \in live \cup {Null}
  /\ entry' = [n \in live \ InTable |-> entry[n]]
  /\ link' = [p \in Places |-> Null]
  /\ ret' = [call |-> "destroy"] /\ pc' = "none"

DestroyFaults ==
  /\ pc = "up"
  /\ \E p \in InTable : link[p] \notin live \cup {Null}
  /\ Fault

Next ==
  \/ Create \/ Destroy \/ DestroyFaults
  \/ \E id \in Ids :
       \/ \E ep \in Eps : AddNew(id, ep)
       \/ AddKnown(id) \/ Get(id) \/ Rem(id) \/ NotFound(id) \/ LookupFaults(id)

Spec == Init /\ [][Next]_vars

-----------------------------------------------------------------------------
(* Types; a node that is not allocated links nowhere.                      *)
TypeOK ==
  /\ link \in [Places -> Nodes \cup {Null, Wild}]
  /\ live \subseteq Nodes /\ entry \in [live -> [id : Ids, ep : Eps]]
  /\ pc \in {"none", "up", "fault"}
  /\ \A n \in Nodes \ live : link[n] = Null

(* No operation leaves a pointer to freed memory, drops a node it has not  *)
(* freed, or hangs one node up twice: a link leads to an allocated node,   *)
(* and one link leads to each.                                             *)
LinkedOnce ==
  /\ \A p \in Places : link[p] \in Nodes => link[p] \in live
  /\ \A n \in live : \E p \in Places : link[p] = n /\ \A q \in Places : link[q] = n => q = p

(* Every registered id is in the chain its hash leads to, and registered   *)
(* once.                                                                   *)
ChainOfItsHash ==
  /\ \A n \in live : n \in Reach(HashToIndex(entry[n].id))
  /\ \A n, o \in live : entry[n].id = entry[o].id => n = o

(* A chain never becomes a ring: every lookup comes to an end, and so does *)
(* the walk of add(), each at one place.                                   *)
LookupsEnd ==
  \A id \in Ids :
    /\ \E p \in Places : FindByHash(id) = {p}
    /\ \E p \in Places : PlaceFor(id) = {p}

(* add() keeps each chain in the order of compare(), provided compare()    *)
(* answers -1 for less in an order that is total, or total but for ties.   *)
ChainSorted ==
  \A n \in live : link[n] \in live => <<entry[n].id, entry[link[n]].id>> \notin Below

(* What the registry dies of is a bucket of the table that was never       *)
(* cleared (c_address.cpp:71), not memory it freed itself.                 *)
OnlyWildFaults == pc = "fault" => \E b \in Buckets : link[b] = Wild

(* A registry that was destroyed has given all its nodes back.             *)
DestroyFreesAll == pc = "none" => live = {}

(* The map the chains stand for.                                           *)
Registered == {entry[n].id : n \in live}
EpOf(id) == entry[CHOOSE n \in live : entry[n].id = id].ep

Map == INSTANCE AddressMap WITH map <- [id \in Registered |-> EpOf(id)]

(* Seen from its user the registry is a map; a fault ends it.              *)
ImplementsMap == Map!Spec
=============================================================================
