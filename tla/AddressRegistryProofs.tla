----------------------- MODULE AddressRegistryProofs -----------------------
(***************************************************************************)
(* The registry implements a map, for every number of buckets, nodes and   *)
(* ids and every answer of compare().  A chain is described by the places  *)
(* reached from its bucket, the smallest set that follows the links; each  *)
(* fact about a chain is proved by showing a set that follows them.        *)
(***************************************************************************)
EXTENDS AddressRegistry, TLAPS

(* Garbage is in buckets only: the chain of a node ends with NULL.         *)
TameNodes == \A n \in Nodes : link[n] # Wild

Inv == TypeOK /\ LinkedOnce /\ ChainOfItsHash /\ DestroyFreesAll /\ TameNodes

-----------------------------------------------------------------------------
(* Chains.                                                                 *)

LEMMA NodesArePlaces ==
  /\ Nodes \subseteq Places /\ Buckets \subseteq Places /\ Buckets \cap Nodes = {}
  /\ Null \notin Places /\ Wild \notin Places /\ Null # Wild
  BY RegistryAssumption DEF Places

LEMMA IndexIsBucket ==
  ASSUME NEW id \in Ids
  PROVE  HashToIndex(id) \in Buckets
<1>1. Word[id] \in Nat /\ Size \in Nat /\ Size > 0
  BY RegistryAssumption
<1> QED
  BY <1>1 DEF HashToIndex, Buckets

(* The places reached from p follow the links, and are the fewest that do. *)
LEMMA ReachLeast ==
  ASSUME NEW p \in Places
  PROVE  /\ Reach(p) \subseteq Places /\ p \in Reach(p) /\ Follows(Reach(p))
         /\ \A S \in SUBSET Places : p \in S /\ Follows(S) => Reach(p) \subseteq S
<1>1. Reach(p) \subseteq Places /\ p \in Reach(p)
  BY DEF Reach
<1>2. \A S \in SUBSET Places : p \in S /\ Follows(S) => Reach(p) \subseteq S
  BY DEF Reach
<1>3. ASSUME NEW x \in Reach(p), link[x] \in Nodes PROVE link[x] \in Reach(p)
  <2>1. link[x] \in Places
    BY <1>3, NodesArePlaces
  <2>2. ASSUME NEW S \in SUBSET Places, p \in S, Follows(S) PROVE link[x] \in S
    BY <1>2, <1>3, <2>2 DEF Follows
  <2> QED
    BY <2>1, <2>2 DEF Reach
<1> QED
  BY <1>1, <1>2, <1>3 DEF Follows

LEMMA ReachTrans ==
  ASSUME NEW p \in Places, NEW x \in Reach(p)
  PROVE  Reach(x) \subseteq Reach(p)
  BY ReachLeast

(* Behind a place come the places behind its link.                         *)
LEMMA ReachStep ==
  ASSUME NEW p \in Places, NEW x \in Reach(p), x # p
  PROVE  link[p] \in Nodes /\ x \in Reach(link[p])
<1>1. CASE link[p] \in Nodes
  <2>1. link[p] \in Places
    BY <1>1, NodesArePlaces
  <2> DEFINE S == {p} \cup Reach(link[p])
  <2>2. S \in SUBSET Places /\ p \in S /\ Follows(S)
    BY <2>1, ReachLeast DEF Follows
  <2> QED
    BY <1>1, <2>2, ReachLeast
<1>2. CASE link[p] \notin Nodes
  <2>1. {p} \in SUBSET Places /\ Follows({p})
    BY <1>2 DEF Follows
  <2> QED
    BY <2>1, ReachLeast
<1> QED
  BY <1>1, <1>2

(* Of two places of a chain one comes behind the other.                    *)
LEMMA ReachLinear ==
  ASSUME NEW b \in Places, NEW p \in Reach(b), NEW q \in Reach(b)
  PROVE  p \in Reach(q) \/ q \in Reach(p)
<1> DEFINE S == {x \in Reach(b) : p \in Reach(x)} \cup Reach(p)
<1>0. p \in Places /\ Reach(b) \subseteq Places
  BY ReachLeast
<1>1. S \in SUBSET Places /\ b \in S
  BY <1>0, ReachLeast
<1>2. ASSUME NEW x \in S, link[x] \in Nodes PROVE link[x] \in S
  <2>1. CASE x \in Reach(p)
    BY <1>0, <1>2, <2>1, ReachLeast DEF Follows
  <2>2. CASE x \in Reach(b) /\ p \in Reach(x) /\ x # p
    <3>1. p \in Reach(link[x])
      BY <1>0, <2>2, ReachStep
    <3>2. link[x] \in Reach(b)
      BY <1>2, <2>2, ReachLeast DEF Follows
    <3> QED
      BY <3>1, <3>2
  <2>3. p \in Reach(p)
    BY <1>0, ReachLeast
  <2> QED
    BY <2>1, <2>2, <2>3
<1>3. Reach(b) \subseteq S
  BY <1>1, <1>2, ReachLeast DEF Follows
<1> QED
  BY <1>3

(* A place reached from another one is linked from a place before it.      *)
LEMMA ReachedByLink ==
  ASSUME NEW b \in Places, NEW n \in Reach(b), n # b
  PROVE  n \in Nodes /\ \E q \in Reach(b) \ {n} : link[q] = n
<1> DEFINE S == Reach(b) \ {n}
<1>1. S \in SUBSET Places /\ b \in S
  BY ReachLeast
<1>2. ~Follows(S)
  BY <1>1, ReachLeast
<1>3. PICK q \in S : link[q] \in Nodes /\ link[q] \notin S
  BY <1>2 DEF Follows
<1>4. link[q] \in Reach(b)
  BY <1>3, ReachLeast DEF Follows
<1> QED
  BY <1>3, <1>4

-----------------------------------------------------------------------------
(* Lookups.                                                                *)

(* find_by_hash returns the node with the id, and NULL only if there is    *)
(* none.                                                                   *)
LEMMA FindCorrect ==
  ASSUME Inv, NEW id \in Ids, NEW p \in FindByHash(id)
  PROVE  /\ p \in Reach(HashToIndex(id)) /\ p \in Places
         /\ link[p] \in Nodes => link[p] \in live /\ entry[link[p]].id = id
         /\ link[p] = Null => \A n \in live : entry[n].id # id
<1> DEFINE b == HashToIndex(id)
           stop == {n \in Nodes : n \notin live \/ entry[n].id = id}
           Ends(x) == link[x] \notin Nodes \ stop
<1>1. b \in Places
  BY IndexIsBucket, NodesArePlaces
<1>2. p \in Reach(b) /\ Ends(p) /\ \A q \in Reach(b) \ {p} : p \in Reach(q) => ~Ends(q)
  BY DEF FindByHash, StopsAt
<1>3. p \in Places
  BY <1>1, <1>2, ReachLeast
<1>4. ASSUME link[p] \in Nodes PROVE link[p] \in live /\ entry[link[p]].id = id
  BY <1>2, <1>3, <1>4 DEF Inv, LinkedOnce
<1>5. ASSUME link[p] = Null, NEW n \in live, entry[n].id = id PROVE FALSE
  <2>1. n \in Nodes /\ n \in Reach(b) /\ n # b
    BY <1>5, IndexIsBucket, NodesArePlaces DEF Inv, TypeOK, ChainOfItsHash
  <2>2. PICK q \in Reach(b) : link[q] = n
    BY <1>1, <2>1, ReachedByLink
  <2>3. q # p /\ Ends(q)
    BY <1>5, <2>1, <2>2, NodesArePlaces
  <2>4. q \in Reach(p)
    BY <1>1, <1>2, <2>2, <2>3, ReachLinear
  <2> QED
    BY <1>3, <1>5, <2>3, <2>4, ReachStep, NodesArePlaces
<1> QED
  BY <1>2, <1>3, <1>4, <1>5

(* Where a lookup came to the end of a chain, no place of it holds garbage. *)
LEMMA NoGarbageBehind ==
  ASSUME Inv, NEW id \in Ids, NEW e \in FindByHash(id), link[e] = Null,
         NEW p \in Reach(HashToIndex(id))
  PROVE  link[p] # Wild
<1>1. HashToIndex(id) \in Places /\ e \in Reach(HashToIndex(id)) /\ e \in Places
  BY FindCorrect, IndexIsBucket, NodesArePlaces
<1>2. p \in Places
  BY <1>1, ReachLeast
<1>3. p \in Reach(e) \/ e \in Reach(p)
  BY <1>1, ReachLinear
<1> QED
  BY <1>1, <1>2, <1>3, ReachStep, NodesArePlaces

-----------------------------------------------------------------------------
(* Hanging a fresh node up at any place of its chain keeps the invariant.  *)
LEMMA InsertKeeps ==
  ASSUME Inv, NEW id \in Ids, NEW ep \in Eps, \A n \in live : entry[n].id # id,
         NEW h \in Nodes \ live, NEW p \in Reach(HashToIndex(id)), link[p] # Wild,
         link' = Inserted(h, p), pc' = "up",
         entry' = [n \in live \cup {h} |-> IF n = h THEN Entry(id, ep) ELSE entry[n]]
  PROVE  Inv'
<1> DEFINE b == HashToIndex(id)
<1>1. /\ b \in Places /\ p \in Places /\ h \in Places /\ link \in [Places -> Nodes \cup {Null, Wild}]
      /\ live \subseteq Nodes /\ link[h] = Null /\ entry \in [live -> [id : Ids, ep : Eps]]
  BY IndexIsBucket, NodesArePlaces, ReachLeast DEF Inv, TypeOK
<1>2. \A q \in Places : link[q] # h
  BY <1>1 DEF Inv, LinkedOnce
<1>3. p # h
  BY <1>1, <1>2, ReachedByLink, IndexIsBucket, NodesArePlaces, ReachLeast
<1>4. /\ link' \in [Places -> Nodes \cup {Null, Wild}]
      /\ link'[p] = h /\ link'[h] = link[p]
      /\ \A q \in Places \ {p, h} : link'[q] = link[q]
  BY <1>1, <1>3 DEF Inserted
<1>5. live' = live \cup {h} /\ entry' \in [live' -> [id : Ids, ep : Eps]]
      /\ entry'[h].id = id /\ \A n \in live : entry'[n] = entry[n]
  BY <1>1 DEF live, Entry
<1>6. TypeOK'
  <2>1. ASSUME NEW n \in Nodes \ live' PROVE link'[n] = Null
    <3>1. n \in Nodes \ live /\ n # h /\ n \in Places
      BY <1>5, NodesArePlaces
    <3>2. n # p
      BY <1>1, <3>1, ReachedByLink, IndexIsBucket, NodesArePlaces DEF Inv, LinkedOnce
    <3> QED
      BY <1>4, <3>1, <3>2 DEF Inv, TypeOK
  <2> QED
    BY <1>1, <1>4, <1>5, <2>1 DEF TypeOK
<1>7. LinkedOnce'
  <2>1. \A q \in Places : link'[q] \in Nodes => link'[q] \in live'
    BY <1>1, <1>4, <1>5 DEF Inv, LinkedOnce
  <2>2. \A q \in Places : link'[q] = h => q = p
    BY <1>1, <1>2, <1>4
  <2>3. ASSUME NEW n \in live PROVE \E q \in Places : link'[q] = n /\ \A r \in Places : link'[r] = n => r = q
    <3>1. PICK q \in Places : link[q] = n /\ \A r \in Places : link[r] = n => r = q
      BY DEF Inv, LinkedOnce
    <3>2. n # h /\ q # h
      BY <1>1, <3>1, NodesArePlaces
    <3>3. CASE q = p
      BY <1>1, <1>4, <3>1, <3>2, <3>3
    <3>4. CASE q # p
      BY <1>1, <1>4, <3>1, <3>2, <3>4
    <3> QED
      BY <3>3, <3>4
  <2> QED
    BY <1>1, <1>4, <1>5, <2>1, <2>2, <2>3 DEF LinkedOnce
<1>8. ASSUME NEW S \in SUBSET Places, Follows(S)' PROVE Follows(S)
  BY <1>1, <1>4, <1>8, NodesArePlaces DEF Follows
<1>9. ChainOfItsHash'
  <2>1. ASSUME NEW n \in live PROVE (n \in Reach(HashToIndex(entry[n].id)))'
    <3>1. PICK c : c = HashToIndex(entry[n].id)
      OBVIOUS
    <3>2. n \in Reach(c) /\ n \in Places
      BY <1>1, <3>1, NodesArePlaces DEF Inv, ChainOfItsHash
    <3>3. n \in Reach(c)'
      BY <1>8, <3>2 DEF Reach
    <3> QED
      BY <1>5, <3>1, <3>3
  <2>2. (h \in Reach(HashToIndex(entry[h].id)))'
    <3>1. ASSUME NEW S \in SUBSET Places, b \in S, Follows(S)' PROVE h \in S
      BY <1>1, <1>4, <1>8, <3>1 DEF Follows, Reach
    <3>2. h \in Reach(b)'
      BY <1>1, <3>1 DEF Reach
    <3> QED
      BY <1>5, <3>2
  <2>3. \A n, o \in live' : entry'[n].id = entry'[o].id => n = o
    BY <1>5 DEF Inv, ChainOfItsHash
  <2> QED
    BY <1>5, <2>1, <2>2, <2>3 DEF ChainOfItsHash
<1>10. TameNodes'
  BY <1>4, NodesArePlaces DEF Inv, TameNodes
<1> QED
  BY <1>6, <1>7, <1>9, <1>10 DEF Inv, DestroyFreesAll

(* Unlinking a node at the place that holds it keeps the invariant.        *)
LEMMA UnlinkKeeps ==
  ASSUME Inv, NEW b \in Buckets, NEW p \in Reach(b), link[p] \in live,
         link' = Unlinked(p), pc' = "up",
         entry' = [n \in live \ {link[p]} |-> entry[n]]
  PROVE  Inv'
<1>0. PICK e \in live : e = link[p]
  OBVIOUS
<1>1. /\ b \in Places /\ p \in Places /\ link \in [Places -> Nodes \cup {Null, Wild}]
      /\ live \subseteq Nodes /\ e \in Nodes /\ e \in Places /\ entry \in [live -> [id : Ids, ep : Eps]]
  BY NodesArePlaces, ReachLeast DEF Inv, TypeOK
<1>2. \A q \in Places : link[q] = e => q = p
  BY <1>0, <1>1 DEF Inv, LinkedOnce
<1>3. p # e /\ link[e] # e
  <2>1. e \in Reach(b) /\ e # b
    BY <1>0, <1>1, ReachLeast, NodesArePlaces DEF Follows
  <2>2. PICK q \in Reach(b) \ {e} : link[q] = e
    BY <1>1, <2>1, ReachedByLink
  <2> QED
    BY <1>1, <1>2, <2>2, ReachLeast
<1>4. /\ link' \in [Places -> Nodes \cup {Null, Wild}]
      /\ link'[p] = link[e] /\ link'[e] = Null
      /\ \A q \in Places \ {p, e} : link'[q] = link[q]
  BY <1>0, <1>1, <1>3 DEF Unlinked
<1>5. live' = live \ {e} /\ entry' \in [live' -> [id : Ids, ep : Eps]]
      /\ \A n \in live' : entry'[n] = entry[n]
  BY <1>0, <1>1 DEF live
<1>6. TypeOK'
  <2>1. p \in Nodes => p \in live
    BY <1>0, <1>1, NodesArePlaces DEF Inv, TypeOK
  <2>2. \A n \in Nodes \ live' : link'[n] = Null
    BY <1>1, <1>4, <1>5, <2>1, NodesArePlaces DEF Inv, TypeOK
  <2> QED
    BY <1>1, <1>4, <1>5, <2>2 DEF TypeOK
<1>7. LinkedOnce'
  <2>1. \A q \in Places : link'[q] \in Nodes => link'[q] \in live'
    BY <1>1, <1>2, <1>3, <1>4, <1>5, NodesArePlaces DEF Inv, LinkedOnce
  <2>2. ASSUME NEW n \in live' PROVE \E q \in Places : link'[q] = n /\ \A r \in Places : link'[r] = n => r = q
    <3>1. n \in live /\ n # e /\ n # Null
      BY <1>1, <1>5, NodesArePlaces
    <3>2. PICK q \in Places : link[q] = n /\ \A r \in Places : link[r] = n => r = q
      BY <3>1 DEF Inv, LinkedOnce
    <3>3. CASE q = e
      BY <1>0, <1>1, <1>4, <3>1, <3>2, <3>3
    <3>4. CASE q # e
      BY <1>0, <1>1, <1>4, <3>1, <3>2, <3>4
    <3> QED
      BY <3>3, <3>4
  <2> QED
    BY <2>1, <2>2 DEF LinkedOnce
<1>8. ASSUME NEW n \in live' PROVE (n \in Reach(HashToIndex(entry[n].id)))'
  <2>0. PICK c : c = HashToIndex(entry[n].id)
    OBVIOUS
  <2>1. n \in live /\ n # e /\ n \in Places /\ entry'[n] = entry[n]
    BY <1>1, <1>5, NodesArePlaces
  <2>2. c \in Places /\ c # e /\ n \in Reach(c)
    <3>1. entry[n].id \in Ids
      BY <1>1, <2>1
    <3> QED
      BY <1>1, <2>0, <2>1, <3>1, IndexIsBucket, NodesArePlaces DEF Inv, ChainOfItsHash
  <2>3. ASSUME NEW S \in SUBSET Places, c \in S, Follows(S)' PROVE n \in S
    <3> DEFINE T == IF p \in S THEN S \cup {e} ELSE S \ {e}
    <3>1. T \in SUBSET Places /\ c \in T
      BY <1>1, <2>2, <2>3
    <3>2. ASSUME NEW x \in T, link[x] \in Nodes PROVE link[x] \in T
      <4>1. CASE x = p
        BY <1>0, <1>3, <3>2, <4>1
      <4>2. CASE x = e
        BY <1>3, <1>4, <2>3, <3>2, <4>2 DEF Follows
      <4>3. CASE x # p /\ x # e
        <5>1. x \in S /\ x \in Places /\ link'[x] = link[x] /\ link[x] # e
          BY <1>2, <1>4, <3>1, <3>2, <4>3
        <5> QED
          BY <2>3, <3>2, <5>1 DEF Follows
      <4> QED
        BY <4>1, <4>2, <4>3
    <3>3. n \in T
      BY <2>2, <3>1, <3>2, ReachLeast DEF Follows
    <3> QED
      BY <2>1, <3>3
  <2>4. n \in Reach(c)'
    BY <2>1, <2>3 DEF Reach
  <2> QED
    BY <2>0, <2>1, <2>4
<1>9. \A n, o \in live' : entry'[n].id = entry'[o].id => n = o
  BY <1>5 DEF Inv, ChainOfItsHash
<1>10. TameNodes'
  BY <1>1, <1>4, NodesArePlaces DEF Inv, TameNodes
<1> QED
  BY <1>6, <1>7, <1>8, <1>9, <1>10 DEF Inv, ChainOfItsHash, DestroyFreesAll

(* A registry that is destroyed had all its nodes in the table.            *)
LEMMA DestroyKeeps ==
  ASSUME Inv, Destroy
  PROVE  Inv' /\ live' = {}
<1>1. live \subseteq InTable
  <2>1. ASSUME NEW n \in live PROVE n \in InTable
    <3>1. entry[n].id \in Ids
      BY DEF Inv, TypeOK
    <3> QED
      BY <3>1, IndexIsBucket DEF Inv, ChainOfItsHash, InTable
  <2> QED
    BY <2>1
<1>2. live' = {}
  BY <1>1 DEF Destroy, live
<1>3. entry' \in [live' -> [id : Ids, ep : Eps]]
  BY <1>1, <1>2 DEF Destroy, live
<1>4. Inv'
  BY <1>2, <1>3, NodesArePlaces
  DEF Destroy, Inv, TypeOK, LinkedOnce, ChainOfItsHash, DestroyFreesAll, TameNodes
<1> QED
  BY <1>2, <1>4

LEMMA SameKeeps ==
  ASSUME Inv, link' = link, entry' = entry, pc' \in {pc, "fault"}
  PROVE  Inv'
<1>1. live' = live /\ \A p : Reach(p)' = Reach(p)
  BY DEF live, Reach, Follows
<1>2. pc' = "none" => pc = "none"
  OBVIOUS
<1> QED
  BY <1>1, <1>2 DEF Inv, TypeOK, LinkedOnce, ChainOfItsHash, DestroyFreesAll, TameNodes

LEMMA NextKeeps ==
  ASSUME Inv, [Next]_vars
  PROVE  Inv'
<1>1. CASE Create
  <2>1. live = {} /\ entry' = entry /\ live' = {}
    BY <1>1 DEF Create, Inv, DestroyFreesAll, live
  <2>2. link' \in [Places -> {Null, Wild}] /\ \A n \in Nodes : link'[n] = Null
    BY <1>1, NodesArePlaces DEF Create
  <2> QED
    BY <1>1, <2>1, <2>2, NodesArePlaces
    DEF Create, Inv, TypeOK, LinkedOnce, ChainOfItsHash, DestroyFreesAll, TameNodes
<1>2. CASE Destroy
  BY <1>2, DestroyKeeps
<1>3. CASE DestroyFaults
  BY <1>3, SameKeeps DEF DestroyFaults, Fault
<1>4. ASSUME NEW id \in Ids, NEW ep \in Eps, AddNew(id, ep) PROVE Inv'
  <2>1. \A n \in live : entry[n].id # id
    BY <1>4, FindCorrect DEF AddNew, Unknown
  <2>2. PICK h \in Nodes \ live, p \in PlaceFor(id) :
          /\ link' = Inserted(h, p)
          /\ entry' = [n \in live \cup {h} |-> IF n = h THEN Entry(id, ep) ELSE entry[n]]
    BY <1>4 DEF AddNew
  <2>3. p \in Reach(HashToIndex(id))
    BY DEF PlaceFor, StopsAt
  <2>4. link[p] # Wild
    BY <1>4, <2>3, NoGarbageBehind DEF AddNew, Unknown
  <2> QED
    BY <1>4, <2>1, <2>2, <2>3, <2>4, InsertKeeps DEF AddNew, Unknown
<1>5. ASSUME NEW id \in Ids, AddKnown(id) \/ Get(id) \/ NotFound(id) \/ LookupFaults(id) PROVE Inv'
  <2>1. link' = link /\ entry' = entry /\ pc' \in {pc, "fault"}
    BY <1>5 DEF AddKnown, Get, NotFound, LookupFaults, Fault
  <2> QED
    BY <2>1, SameKeeps
<1>6. ASSUME NEW id \in Ids, Rem(id) PROVE Inv'
  <2>1. PICK p \in Places :
          /\ Known(id, p)
          /\ link' = Unlinked(p)
          /\ entry' = [n \in live \ {link[p]} |-> entry[n]]
    BY <1>6 DEF Rem
  <2>2. p \in Reach(HashToIndex(id))
    BY <2>1, FindCorrect DEF Known
  <2> QED
    BY <1>6, <2>1, <2>2, IndexIsBucket, UnlinkKeeps DEF Rem, Known
<1>7. CASE UNCHANGED vars
  BY <1>7, SameKeeps DEF vars
<1> QED
  BY <1>1, <1>2, <1>3, <1>4, <1>5, <1>6, <1>7 DEF Next

LEMMA InitKeeps == Init => Inv
<1> SUFFICES ASSUME Init PROVE Inv
  OBVIOUS
<1>1. live = {} /\ entry \in [live -> [id : Ids, ep : Eps]]
  BY DEF Init, live
<1> QED
  BY <1>1, NodesArePlaces
  DEF Init, Inv, TypeOK, LinkedOnce, ChainOfItsHash, DestroyFreesAll, TameNodes

(* No node is lost, hung up twice or left behind by a pointer to it, every *)
(* node is in the chain of its hash, and destroy() gives all back.         *)
THEOREM ChainsCorrect == Spec => [](LinkedOnce /\ ChainOfItsHash /\ DestroyFreesAll)
  BY InitKeeps, NextKeeps, PTL DEF Spec, Inv

(* What a node holds, and that it is allocated at most once.               *)
THEOREM TypeCorrect == Spec => []TypeOK
  BY InitKeeps, NextKeeps, PTL DEF Spec, Inv

-----------------------------------------------------------------------------
(* What kills the registry is a bucket nobody cleared.                     *)
LEMMA WildKeeps ==
  ASSUME Inv, OnlyWildFaults, [Next]_vars
  PROVE  OnlyWildFaults'
<1>0. ASSUME NEW p \in Places, link[p] \notin live \cup {Null}, link' = link
      PROVE  \E b \in Buckets : link'[b] = Wild
  <2>1. link[p] = Wild
    BY <1>0 DEF Inv, TypeOK, LinkedOnce
  <2>2. p \in Buckets
    BY <2>1 DEF Places, Inv, TameNodes
  <2> QED
    BY <1>0, <2>1, <2>2
<1>1. CASE DestroyFaults
  <2>1. PICK p \in InTable : link[p] \notin live \cup {Null}
    BY <1>1 DEF DestroyFaults
  <2>2. p \in Places
    BY NodesArePlaces DEF InTable, Reach
  <2> QED
    BY <1>0, <1>1, <2>1, <2>2 DEF DestroyFaults, Fault, OnlyWildFaults
<1>2. ASSUME NEW id \in Ids, LookupFaults(id) PROVE OnlyWildFaults'
  <2>1. PICK p \in FindByHash(id) : link[p] \notin live \cup {Null}
    BY <1>2 DEF LookupFaults
  <2>2. p \in Places
    BY <2>1, FindCorrect
  <2> QED
    BY <1>0, <1>2, <2>1, <2>2 DEF LookupFaults, Fault, OnlyWildFaults
<1>3. CASE UNCHANGED vars
  BY <1>3 DEF vars, OnlyWildFaults
<1>4. CASE Next /\ ~DestroyFaults /\ \A id \in Ids : ~LookupFaults(id)
  <2>1. pc' # "fault"
    BY <1>4 DEF Next, Create, Destroy, AddNew, Unknown, AddKnown, Get, Rem, NotFound, Known
  <2> QED
    BY <2>1 DEF OnlyWildFaults
<1> QED
  BY <1>1, <1>2, <1>3, <1>4

(* The registry never follows a pointer to memory it has freed itself.     *)
THEOREM FaultsCorrect == Spec => []OnlyWildFaults
<1>1. Init => OnlyWildFaults
  BY DEF Init, OnlyWildFaults
<1>2. Inv /\ OnlyWildFaults /\ [Next]_vars => OnlyWildFaults'
  BY WildKeeps
<1> QED
  BY <1>1, <1>2, InitKeeps, NextKeeps, PTL DEF Spec

-----------------------------------------------------------------------------
(* The refinement.  The chains stand for the map of their entries.         *)

MapOf == [id \in Registered |-> EpOf(id)]

LEMMA EpOfNode ==
  ASSUME Inv, NEW n \in live
  PROVE  entry[n].id \in Registered /\ EpOf(entry[n].id) = entry[n].ep
  BY DEF Inv, ChainOfItsHash, Registered, EpOf

LEMMA EpOfNext ==
  ASSUME Inv', NEW n \in live', NEW i, i = entry'[n].id
  PROVE  EpOf(i)' = entry'[n].ep
  BY DEF Inv, ChainOfItsHash, EpOf

LEMMA SameMap ==
  ASSUME entry' = entry
  PROVE  MapOf' = MapOf
  BY DEF MapOf, Registered, EpOf, live

(* Each step is a step of the map or changes nothing the user sees.        *)
LEMMA StepRefines ==
  ASSUME Inv, [Next]_vars
  PROVE  [Map!Next]_(Map!vars)
<1>0. Inv'
  BY NextKeeps
<1>1. CASE Create \/ Destroy
  <2>1. live' = {}
    BY <1>1, DestroyKeeps DEF Create, Inv, DestroyFreesAll, live
  <2>2. MapOf' = Map!Empty
    BY <2>1 DEF MapOf, Registered, Map!Empty
  <2>3. Map!Clear("create") \/ Map!Clear("destroy")
    BY <1>1, <2>2 DEF Create, Destroy, Map!Clear, MapOf
  <2> QED
    BY <2>3 DEF Map!Next
<1>2. ASSUME DestroyFaults \/ UNCHANGED vars \/ \E id \in Ids : LookupFaults(id)
      PROVE  UNCHANGED Map!vars
  <2>1. entry' = entry /\ ret' = ret
    BY <1>2 DEF DestroyFaults, LookupFaults, Fault, vars
  <2> QED
    BY <2>1, SameMap DEF MapOf, Map!vars
<1>3. ASSUME NEW id \in Ids, NEW ep \in Eps, AddNew(id, ep) PROVE Map!Add(id, ep)
  <2>1. \A n \in live : entry[n].id # id
    BY <1>3, FindCorrect DEF AddNew, Unknown
  <2>2. id \notin Registered
    BY <2>1 DEF Registered
  <2>3. PICK h \in Nodes \ live :
          entry' = [n \in live \cup {h} |-> IF n = h THEN Entry(id, ep) ELSE entry[n]]
    BY <1>3 DEF AddNew
  <2>4. /\ live' = live \cup {h} /\ entry'[h].id = id /\ entry'[h].ep = ep
        /\ \A n \in live : entry'[n] = entry[n]
    BY <2>3 DEF live, Entry
  <2>5. Registered' = Registered \cup {id}
    BY <2>4 DEF Registered
  <2>6. EpOf(id)' = ep
    BY <1>0, <2>4, EpOfNext
  <2>7. ASSUME NEW i \in Registered PROVE EpOf(i)' = EpOf(i)
    <3>1. PICK n \in live : i = entry[n].id
      BY DEF Registered
    <3> QED
      BY <1>0, <2>4, <3>1, EpOfNode, EpOfNext
  <2>8. MapOf' = [i \in Registered \cup {id} |-> IF i = id THEN ep ELSE EpOf(i)]
    BY <2>2, <2>5, <2>6, <2>7 DEF MapOf
  <2>9. \A i \in Registered : MapOf[i] = EpOf(i)
    BY DEF MapOf
  <2>10. MapOf' = [i \in DOMAIN MapOf \cup {id} |-> IF i = id THEN ep ELSE MapOf[i]]
    BY <2>2, <2>8, <2>9 DEF MapOf
  <2> QED
    BY <1>3, <2>2, <2>10 DEF AddNew, Map!Add, Map!Answer, Answer, MapOf
<1>4. ASSUME NEW id \in Ids, NEW p \in FindByHash(id), link[p] \in live
      PROVE  id \in Registered /\ EpOf(id) = entry[link[p]].ep
  BY <1>4, FindCorrect, EpOfNode DEF Inv, TypeOK
<1>5. ASSUME NEW id \in Ids, AddKnown(id) PROVE \E ep \in Eps : Map!Add(id, ep)
  <2>1. id \in Registered /\ \E ep \in Eps : TRUE
    BY <1>4, <1>5 DEF AddKnown, Known, Inv, TypeOK
  <2>2. MapOf' = MapOf
    BY <1>5, SameMap DEF AddKnown
  <2> QED
    BY <1>5, <2>1, <2>2 DEF AddKnown, Map!Add, Map!Answer, Answer, MapOf
<1>6. ASSUME NEW id \in Ids, Get(id) PROVE Map!Get(id)
  <2>1. PICK p \in FindByHash(id) : link[p] \in live /\ ret' = Answer("get", id, TRUE, entry[link[p]].ep)
    BY <1>6 DEF Get, Known
  <2>2. id \in Registered /\ MapOf[id] = entry[link[p]].ep
    BY <1>4, <2>1 DEF MapOf
  <2>3. MapOf' = MapOf
    BY <1>6, SameMap DEF Get
  <2> QED
    BY <2>1, <2>2, <2>3 DEF Map!Get, Map!Answer, Answer, MapOf
<1>7. ASSUME NEW id \in Ids, NotFound(id) PROVE Map!Get(id) \/ Map!Rem(id)
  <2>1. id \notin Registered
    BY <1>7, FindCorrect DEF NotFound, Unknown, Registered
  <2>2. MapOf' = MapOf
    BY <1>7, SameMap DEF NotFound
  <2>3. MapOf = [i \in DOMAIN MapOf \ {id} |-> MapOf[i]]
    BY <2>1 DEF MapOf
  <2>4. DOMAIN MapOf = Registered
    BY DEF MapOf
  <2>5. (id \in DOMAIN MapOf) = FALSE
    BY <2>1, <2>4
  <2>6. CASE ret' = Answer("get", id, FALSE, NoEp)
    <3>1. ret' = Map!Answer("get", id, id \in DOMAIN MapOf, IF id \in DOMAIN MapOf THEN MapOf[id] ELSE NoEp)
      BY <2>5, <2>6 DEF Map!Answer, Answer
    <3> QED
      BY <2>2, <3>1 DEF Map!Get, MapOf
  <2>7. CASE ret' = Answer("rem", id, FALSE, NoEp)
    <3>1. ret' = Map!Answer("rem", id, id \in DOMAIN MapOf, NoEp)
      BY <2>5, <2>7 DEF Map!Answer, Answer
    <3>2. MapOf' = [i \in DOMAIN MapOf \ {id} |-> MapOf[i]]
      BY <2>2, <2>3
    <3> QED
      BY <3>1, <3>2 DEF Map!Rem, MapOf
  <2> QED
    BY <1>7, <2>6, <2>7 DEF NotFound
<1>8. ASSUME NEW id \in Ids, Rem(id) PROVE Map!Rem(id)
  <2>1. PICK p \in FindByHash(id) : /\ link[p] \in live
                                   /\ entry' = [n \in live \ {link[p]} |-> entry[n]]
    BY <1>8 DEF Rem, Known
  <2>2. id \in Registered /\ entry[link[p]].id = id
    BY <1>4, <2>1, FindCorrect DEF Inv, TypeOK
  <2>3. live' = live \ {link[p]} /\ \A n \in live' : entry'[n] = entry[n]
    BY <2>1 DEF live
  <2>4. Registered' = Registered \ {id}
    <3>1. ASSUME NEW n \in live, entry[n].id = id PROVE n = link[p]
      BY <2>1, <2>2, <3>1 DEF Inv, ChainOfItsHash
    <3>2. \A n \in live' : n \in live /\ n # link[p] /\ entry'[n].id = entry[n].id
      BY <2>3
    <3>3. \A i : i \in Registered' <=> \E n \in live' : i = entry[n].id
      BY <2>3 DEF Registered
    <3>4. ASSUME NEW i \in Registered' PROVE i \in Registered \ {id}
      BY <3>1, <3>2, <3>3 DEF Registered
    <3>5. ASSUME NEW i \in Registered \ {id} PROVE i \in Registered'
      BY <2>1, <2>2, <2>3, <3>3 DEF Registered
    <3> QED
      BY <3>4, <3>5
  <2>5. ASSUME NEW i \in Registered \ {id} PROVE EpOf(i)' = EpOf(i)
    <3>1. PICK n \in live' : i = entry[n].id
      BY <2>1, <2>2, <2>3 DEF Registered
    <3> QED
      BY <1>0, <2>3, <3>1, EpOfNode, EpOfNext
  <2>6. MapOf' = [i \in DOMAIN MapOf \ {id} |-> MapOf[i]]
    BY <2>4, <2>5 DEF MapOf
  <2> QED
    BY <1>8, <2>2, <2>6 DEF Rem, Map!Rem, Map!Answer, Answer, MapOf
<1> QED
  BY <1>1, <1>2, <1>3, <1>5, <1>6, <1>7, <1>8 DEF Next, Map!Next

(* The registry implements the map of AddressMap: what add, get and rem    *)
(* answer is what a map would, until a garbage bucket ends it.             *)
THEOREM RefinesMap == Spec => ImplementsMap
<1>1. Init => Map!Init
  <2> SUFFICES ASSUME Init PROVE Map!Init
    OBVIOUS
  <2>1. MapOf = Map!Empty
    BY DEF Init, MapOf, Registered, live, Map!Empty
  <2> QED
    BY <2>1 DEF Init, Map!Init, MapOf
<1>2. Inv /\ [Next]_vars => [Map!Next]_(Map!vars)
  BY StepRefines
<1> QED
  BY <1>1, <1>2, InitKeeps, NextKeeps, PTL DEF Spec, ImplementsMap, Map!Spec

-----------------------------------------------------------------------------
(* Lookups end.  No set of allocated nodes is such that all its links lead *)
(* back into it: a chain is no ring, and no chain is endless.              *)
NoRing == \A S \in SUBSET live : S # {} => \E n \in S : link[n] \notin S

(* The place of a new node is not in that node.                            *)
LEMMA PlaceIsOld ==
  ASSUME Inv, NEW id \in Ids, NEW p \in PlaceFor(id)
  PROVE  /\ p \in Reach(HashToIndex(id)) /\ p \in Places
         /\ \A h \in Nodes \ live : p # h
<1>1. p \in Reach(HashToIndex(id)) /\ HashToIndex(id) \in Places
  BY IndexIsBucket, NodesArePlaces DEF PlaceFor, StopsAt
<1>2. p \in Places
  BY <1>1, ReachLeast
<1>3. ASSUME NEW h \in Nodes \ live, p = h PROVE FALSE
  <2>1. h # HashToIndex(id)
    BY IndexIsBucket, NodesArePlaces
  <2>2. PICK q \in Reach(HashToIndex(id)) : link[q] = h
    BY <1>1, <1>3, <2>1, ReachedByLink
  <2>3. q \in Places
    BY <1>1, <2>2, ReachLeast
  <2> QED
    BY <2>2, <2>3 DEF Inv, LinkedOnce
<1> QED
  BY <1>1, <1>2, <1>3

LEMMA InsertNoRing ==
  ASSUME Inv, NoRing, NEW h \in Nodes \ live, NEW p \in Places, p # h,
         link' = Inserted(h, p), live' = live \cup {h}
  PROVE  NoRing'
<1>1. /\ h \in Places /\ live \subseteq Places /\ link \in [Places -> Nodes \cup {Null, Wild}]
      /\ \A q \in Places : link[q] # h
  BY NodesArePlaces DEF Inv, TypeOK, LinkedOnce
<1>2. /\ link'[p] = h /\ link'[h] = link[p]
      /\ \A q \in Places \ {p, h} : link'[q] = link[q]
  BY <1>1 DEF Inserted
<1>3. ASSUME NEW S \in SUBSET (live \cup {h}), S # {} PROVE \E n \in S : link'[n] \notin S
  <2> DEFINE T == S \ {h}
  <2>1. CASE T = {}
    BY <1>1, <1>2, <1>3, <2>1
  <2>2. CASE T # {}
    <3>1. PICK n \in T : link[n] \notin T
      BY <2>2 DEF NoRing
    <3>2. n \in Places /\ link[n] \notin S
      BY <1>1, <3>1
    <3>3. CASE n # p
      BY <1>2, <3>1, <3>2, <3>3
    <3>4. CASE n = p
      BY <1>2, <3>1, <3>2, <3>4
    <3> QED
      BY <3>3, <3>4
  <2> QED
    BY <2>1, <2>2
<1> QED
  BY <1>3 DEF NoRing

LEMMA UnlinkNoRing ==
  ASSUME Inv, NoRing, NEW p \in Places, link[p] \in live,
         link' = Unlinked(p), live' = live \ {link[p]}
  PROVE  NoRing'
<1>0. PICK e \in live : e = link[p]
  OBVIOUS
<1>1. /\ e \in Places /\ live \subseteq Places /\ link \in [Places -> Nodes \cup {Null, Wild}]
      /\ \A q \in Places : link[q] = e => q = p
  BY <1>0, NodesArePlaces DEF Inv, TypeOK, LinkedOnce
<1>2. p # e
  <2>1. \E n \in {e} : link[n] \notin {e}
    BY DEF NoRing
  <2> QED
    BY <1>0, <2>1
<1>3. link'[p] = link[e] /\ \A q \in Places \ {p, e} : link'[q] = link[q]
  BY <1>0, <1>1, <1>2 DEF Unlinked
<1>4. ASSUME NEW S \in SUBSET (live \ {e}), S # {} PROVE \E n \in S : link'[n] \notin S
  <2> DEFINE T == IF p \in S THEN S \cup {e} ELSE S
  <2>1. T \in SUBSET live /\ T # {}
    BY <1>4
  <2>2. PICK n \in T : link[n] \notin T
    BY <2>1 DEF NoRing
  <2>3. n # p
    BY <1>0, <2>2
  <2>4. CASE n = e
    BY <1>3, <1>4, <2>2, <2>4
  <2>5. CASE n # e
    BY <1>1, <1>3, <2>1, <2>2, <2>3, <2>5
  <2> QED
    BY <2>4, <2>5
<1> QED
  BY <1>0, <1>4 DEF NoRing

LEMMA NoRingKeeps ==
  ASSUME Inv, NoRing, [Next]_vars
  PROVE  NoRing'
<1>1. CASE Create \/ Destroy
  <2>1. live' = {}
    BY <1>1, DestroyKeeps DEF Create, Inv, DestroyFreesAll, live
  <2> QED
    BY <2>1 DEF NoRing
<1>2. ASSUME NEW id \in Ids, NEW ep \in Eps, AddNew(id, ep) PROVE NoRing'
  <2>1. PICK h \in Nodes \ live, p \in PlaceFor(id) :
          /\ link' = Inserted(h, p)
          /\ entry' = [n \in live \cup {h} |-> IF n = h THEN Entry(id, ep) ELSE entry[n]]
    BY <1>2 DEF AddNew
  <2>2. p \in Places /\ p # h
    BY <2>1, PlaceIsOld
  <2>3. live' = live \cup {h}
    BY <2>1 DEF live
  <2> QED
    BY <2>1, <2>2, <2>3, InsertNoRing
<1>3. ASSUME NEW id \in Ids, Rem(id) PROVE NoRing'
  <2>1. PICK p \in Places :
          /\ link[p] \in live /\ link' = Unlinked(p)
          /\ entry' = [n \in live \ {link[p]} |-> entry[n]]
    BY <1>3 DEF Rem, Known
  <2>2. live' = live \ {link[p]}
    BY <2>1 DEF live
  <2> QED
    BY <2>1, <2>2, UnlinkNoRing
<1>4. CASE link' = link /\ entry' = entry
  BY <1>4 DEF NoRing, live
<1> QED
  BY <1>1, <1>2, <1>3, <1>4
  DEF Next, AddKnown, Get, NotFound, LookupFaults, DestroyFaults, Fault, vars

(* A walk over the chain of a bucket stops at one place, whatever nodes it *)
(* is to stop at: the first of those that end it.                          *)
LEMMA WalkStops ==
  ASSUME Inv, NoRing, NEW b \in Buckets, NEW stop \in SUBSET Nodes, Nodes \ live \subseteq stop
  PROVE  \E p \in Places : StopsAt(b, stop) = {p}
<1> DEFINE Ends(x) == link[x] \notin Nodes \ stop
           Before(x, y) == y \in Reach(x) /\ x # y
           Clear == {x \in Reach(b) : \A q \in Reach(b) : Before(q, x) => ~Ends(q)}
<1>0. /\ b \in Places /\ b \notin Nodes /\ live \subseteq Nodes
      /\ Reach(b) \subseteq Places /\ b \in Reach(b) /\ Follows(Reach(b))
  BY NodesArePlaces, ReachLeast DEF Inv, TypeOK
<1>1. \E x \in Reach(b) : Ends(x)
  <2> SUFFICES ASSUME \A x \in Reach(b) : ~Ends(x) PROVE FALSE
    OBVIOUS
  <2> DEFINE S == Reach(b) \cap live
  <2>1. \A x \in Reach(b) : link[x] \in S
    BY <1>0 DEF Follows
  <2>2. S # {} /\ S \in SUBSET live
    BY <1>0, <2>1
  <2> QED
    BY <2>1, <2>2 DEF NoRing
<1>2. b \in Clear
  <2>1. ASSUME NEW q \in Reach(b), Before(q, b) PROVE FALSE
    BY <1>0, <2>1, ReachedByLink
  <2> QED
    BY <1>0, <2>1
<1>3. ASSUME NEW x \in Clear, ~Ends(x) PROVE link[x] \in Clear
  <2>1. link[x] \in Nodes /\ link[x] \in Reach(b) /\ x \in Places
    BY <1>0, <1>3 DEF Follows
  <2>2. ASSUME NEW q \in Reach(b), Before(q, link[x]), Ends(q) PROVE FALSE
    <3>1. PICK r \in Reach(q) \ {link[x]} : link[r] = link[x]
      BY <1>0, <2>1, <2>2, ReachedByLink
    <3>2. r \in Places /\ link[x] \in live
      BY <1>0, <2>1, <3>1, ReachLeast DEF Inv, LinkedOnce
    <3>3. r = x
      BY <2>1, <3>1, <3>2 DEF Inv, LinkedOnce
    <3>4. x \in Reach(q) /\ x # q
      BY <1>3, <2>2, <3>1, <3>3
    <3> QED
      BY <1>3, <2>2, <3>4
  <2> QED
    BY <2>1, <2>2
<1>4. PICK p \in Clear : Ends(p)
  <2> SUFFICES ASSUME \A x \in Clear : ~Ends(x) PROVE FALSE
    OBVIOUS
  <2>1. Clear \in SUBSET Places /\ Follows(Clear)
    BY <1>0, <1>3 DEF Follows
  <2>2. Reach(b) \subseteq Clear
    BY <1>0, <1>2, <2>1, ReachLeast
  <2> QED
    BY <1>1, <2>2
<1>5. p \in StopsAt(b, stop) /\ p \in Places
  BY <1>0, <1>4 DEF StopsAt
<1>6. ASSUME NEW q \in StopsAt(b, stop) PROVE q = p
  <2>1. /\ p \in Reach(b) /\ Ends(p) /\ \A r \in Reach(b) \ {p} : p \in Reach(r) => ~Ends(r)
        /\ q \in Reach(b) /\ Ends(q) /\ \A r \in Reach(b) \ {q} : q \in Reach(r) => ~Ends(r)
    BY <1>5 DEF StopsAt
  <2>2. p \in Reach(q) \/ q \in Reach(p)
    BY <1>0, <2>1, ReachLinear
  <2> QED
    BY <2>1, <2>2
<1> QED
  BY <1>5, <1>6

LEMMA InitNoRing == Init => NoRing
  BY DEF Init, NoRing, live

(* Every lookup comes to an end, at one place, and so does the walk that   *)
(* looks for the place of a new node, however many nodes a chain has.      *)
THEOREM LookupsCorrect == Spec => []LookupsEnd
<1>1. ASSUME Inv, NoRing, NEW id \in Ids
      PROVE  /\ \E p \in Places : FindByHash(id) = {p}
             /\ \E p \in Places : PlaceFor(id) = {p}
  <2>1. HashToIndex(id) \in Buckets
    BY IndexIsBucket
  <2> DEFINE byId == {n \in Nodes : n \notin live \/ entry[n].id = id}
             below == {n \in Nodes : n \notin live \/ <<entry[n].id, id>> \in Below}
  <2>2. /\ byId \in SUBSET Nodes /\ Nodes \ live \subseteq byId
        /\ below \in SUBSET Nodes /\ Nodes \ live \subseteq below
    OBVIOUS
  <2>3. PICK p \in Places : StopsAt(HashToIndex(id), byId) = {p}
    <3> HIDE DEF byId
    <3> QED
      BY <1>1, <2>1, <2>2, WalkStops
  <2>4. PICK q \in Places : StopsAt(HashToIndex(id), below) = {q}
    <3> HIDE DEF below
    <3> QED
      BY <1>1, <2>1, <2>2, WalkStops
  <2> QED
    BY <2>3, <2>4 DEF FindByHash, PlaceFor
<1>2. Inv /\ NoRing => LookupsEnd
  BY <1>1 DEF LookupsEnd
<1>3. Inv /\ NoRing /\ [Next]_vars => NoRing'
  BY NoRingKeeps
<1> QED
  BY <1>2, <1>3, InitKeeps, InitNoRing, NextKeeps, PTL DEF Spec

-----------------------------------------------------------------------------
(* Order.  What compare() has to answer: -1 never both ways, and of two    *)
(* ids one of which is below the other, a third is above the one or below  *)
(* the other.  Every total order is such.                                  *)
WeakOrder ==
  /\ \A x, y \in Ids : <<x, y>> \in Below => <<y, x>> \notin Below
  /\ \A x, y, z \in Ids : <<x, z>> \in Below => <<x, y>> \in Below \/ <<y, z>> \in Below

LEMMA SortedKeeps ==
  ASSUME WeakOrder, Inv, ChainSorted, [Next]_vars
  PROVE  ChainSorted'
<1>0. live \subseteq Places /\ \A n \in live : entry[n].id \in Ids
  BY NodesArePlaces DEF Inv, TypeOK
<1>1. CASE Create \/ Destroy
  <2>1. live' = {}
    BY <1>1, DestroyKeeps DEF Create, Inv, DestroyFreesAll, live
  <2> QED
    BY <2>1 DEF ChainSorted
<1>2. ASSUME NEW id \in Ids, NEW ep \in Eps, AddNew(id, ep) PROVE ChainSorted'
  <2>1. PICK h \in Nodes \ live, p \in PlaceFor(id) :
          /\ link' = Inserted(h, p)
          /\ entry' = [n \in live \cup {h} |-> IF n = h THEN Entry(id, ep) ELSE entry[n]]
    BY <1>2 DEF AddNew
  <2>2. p \in Places /\ p # h /\ p \in Reach(HashToIndex(id))
    BY <2>1, PlaceIsOld
  <2>3. /\ link'[p] = h /\ link'[h] = link[p] /\ h \in Places
        /\ \A q \in Places \ {p, h} : link'[q] = link[q] /\ link[q] # h
    BY <2>1, <2>2, NodesArePlaces DEF Inserted, Inv, TypeOK, LinkedOnce
  <2>4. /\ live' = live \cup {h} /\ entry'[h].id = id
        /\ \A n \in live : entry'[n] = entry[n]
    BY <2>1 DEF live, Entry
  <2>5. ASSUME link[p] \in live PROVE <<id, entry[link[p]].id>> \notin Below
    <3>1. <<entry[link[p]].id, id>> \in Below
      BY <2>5 DEF PlaceFor, StopsAt, Inv, TypeOK
    <3> QED
      BY <1>0, <2>5, <3>1 DEF WeakOrder
  <2>6. ASSUME p \in live PROVE <<entry[p].id, id>> \notin Below
    <3> DEFINE b == HashToIndex(id)
               stop == {n \in Nodes : n \notin live \/ <<entry[n].id, id>> \in Below}
    <3>1. b \in Places /\ p \in Reach(b) /\ p # b
      BY <2>2, <2>6, IndexIsBucket, NodesArePlaces DEF Inv, TypeOK
    <3>2. PICK q \in Reach(b) \ {p} : link[q] = p
      BY <3>1, ReachedByLink
    <3>3. q \in Places /\ p \in Reach(q)
      BY <2>6, <3>1, <3>2, ReachLeast DEF Follows, Inv, TypeOK
    <3>4. link[q] \in Nodes \ stop
      BY <3>2, <3>3 DEF PlaceFor, StopsAt
    <3> QED
      BY <2>6, <3>2, <3>4
  <2>7. ASSUME NEW n \in live', link'[n] \in live'
        PROVE  <<entry'[n].id, entry'[link'[n]].id>> \notin Below
    <3>1. CASE n = p
      BY <2>2, <2>3, <2>4, <2>6, <2>7, <3>1
    <3>2. CASE n = h
      <4>1. link[p] # h
        BY <2>1, <2>2 DEF Inv, LinkedOnce
      <4> QED
        BY <2>3, <2>4, <2>5, <2>7, <3>2, <4>1
    <3>3. CASE n # p /\ n # h
      <4>1. n \in live /\ link'[n] = link[n] /\ link[n] \in live
        BY <1>0, <2>3, <2>4, <2>7, <3>3
      <4> QED
        BY <2>4, <4>1 DEF ChainSorted
    <3> QED
      BY <3>1, <3>2, <3>3
  <2> QED
    BY <2>7 DEF ChainSorted
<1>3. ASSUME NEW id \in Ids, Rem(id) PROVE ChainSorted'
  <2>1. PICK p \in Places :
          /\ link[p] \in live /\ link' = Unlinked(p)
          /\ entry' = [n \in live \ {link[p]} |-> entry[n]]
    BY <1>3 DEF Rem, Known
  <2>2. PICK e \in live : e = link[p]
    BY <2>1
  <2>3. live' = live \ {e} /\ \A n \in live' : entry'[n] = entry[n]
    BY <2>1, <2>2 DEF live
  <2>4. \A q \in Places : q # e => link'[q] = IF q = p THEN link[e] ELSE link[q]
    BY <2>1, <2>2, <1>0 DEF Unlinked, Inv, TypeOK
  <2>5. ASSUME NEW n \in live', link'[n] \in live'
        PROVE  <<entry'[n].id, entry'[link'[n]].id>> \notin Below
    <3>1. n \in live /\ n # e /\ n \in Places
      BY <1>0, <2>3
    <3>2. CASE n = p
      <4>1. link'[n] = link[e] /\ link[e] \in live
        BY <2>3, <2>4, <2>5, <3>1, <3>2
      <4>2. <<entry[n].id, entry[e].id>> \notin Below /\ <<entry[e].id, entry[link[e]].id>> \notin Below
        BY <2>2, <3>1, <3>2, <4>1 DEF ChainSorted
      <4>3. <<entry[n].id, entry[link[e]].id>> \notin Below
        BY <1>0, <3>1, <4>1, <4>2 DEF WeakOrder
      <4> QED
        BY <2>3, <2>5, <4>1, <4>3
    <3>3. CASE n # p
      <4>1. link'[n] = link[n] /\ link[n] \in live
        BY <2>3, <2>4, <2>5, <3>1, <3>3
      <4> QED
        BY <2>3, <2>5, <3>1, <4>1 DEF ChainSorted
    <3> QED
      BY <3>2, <3>3
  <2> QED
    BY <2>5 DEF ChainSorted
<1>4. CASE link' = link /\ entry' = entry
  BY <1>4 DEF ChainSorted, live
<1> QED
  BY <1>1, <1>2, <1>3, <1>4
  DEF Next, AddKnown, Get, NotFound, LookupFaults, DestroyFaults, Fault, vars

(* If compare() is a weak order, every chain is kept in that order, the    *)
(* greatest id first, whatever is added and removed in between.            *)
THEOREM SortedCorrect ==
  ASSUME WeakOrder
  PROVE  Spec => []ChainSorted
<1>1. Init => ChainSorted
  BY DEF Init, ChainSorted, live
<1>2. Inv /\ ChainSorted /\ [Next]_vars => ChainSorted'
  BY SortedKeeps
<1> QED
  BY <1>1, <1>2, InitKeeps, NextKeeps, PTL DEF Spec
=============================================================================
