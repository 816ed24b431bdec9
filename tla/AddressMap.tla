----------------------------- MODULE AddressMap -----------------------------
(***************************************************************************)
(* What address_registry_t promises its user: a finite map from ids to end *)
(* points.  The user sees the results of add, get and rem.                 *)
(***************************************************************************)
CONSTANTS
  Ids,     (* address_id_t of connections                                  *)
  Eps,     (* address_id_t that are end points                             *)
  NoEp     (* what the caller's variable holds when get() does not set it  *)

VARIABLES
  map,     (* the registered end points                                    *)
  ret      (* the last call and what it answered                           *)

vars == <<map, ret>>

Empty == [i \in {} |-> NoEp]

Answer(call, id, found, ep) == [call |-> call, id |-> id, found |-> found, ep |-> ep]

Init == map = Empty /\ ret = [call |-> "create"]

(* Creation and destruction of a registry.                                 *)
Clear(call) == map' = Empty /\ ret' = [call |-> call]

Add(id, ep) ==
  /\ ret' = Answer("add", id, id \notin DOMAIN map, NoEp)
  /\ map' = IF id \in DOMAIN map THEN map
            ELSE [i \in DOMAIN map \cup {id} |-> IF i = id THEN ep ELSE map[i]]

Get(id) ==
  /\ ret' = Answer("get", id, id \in DOMAIN map, IF id \in DOMAIN map THEN map[id] ELSE NoEp)
  /\ UNCHANGED map

Rem(id) ==
  /\ ret' = Answer("rem", id, id \in DOMAIN map, NoEp)
  /\ map' = [i \in DOMAIN map \ {id} |-> map[i]]

Next ==
  \/ Clear("create") \/ Clear("destroy")
  \/ \E id \in Ids : Get(id) \/ Rem(id) \/ \E ep \in Eps : Add(id, ep)

Spec == Init /\ [][Next]_vars
=============================================================================
