---------------------------- MODULE AHostsCache ----------------------------
(***************************************************************************)
(* AHostsCache: a std::map from keys to iterators into a std::list kept in *)
(* the order of use, over key and answer buffers it mallocs and frees by   *)
(* hand.  The code is modelled down to those allocations: a list node, a   *)
(* key buffer and a data buffer each have an address, which is free to be  *)
(* given out again as soon as it is freed.                                 *)
(***************************************************************************)
EXTENDS Naturals, Sequences, FiniteSets

CONSTANTS
    Key,        \* names and types, by content
    Value,      \* answers, with the time and the TTL stored along
    Size,       \* the length of an answer
    Miss,       \* what get returns for an unknown key
    Capacity,   \* m_maxsize: CacheSize, set once before the first use
    Address     \* what malloc and new may return, for each kind of object

ASSUME CapacityAssumption ==
    /\ Capacity \in Nat
    /\ Miss \notin Value
    /\ Size \in [Value -> Nat]

VARIABLES
    index,  \* m_map: by key, the key's buffer and the iterator
    visit,  \* m_visit: the addresses of its nodes, front first
    node,   \* what the nodes of m_visit hold
    text,   \* the allocated key buffers
    bytes,  \* the allocated data buffers
    out,    \* what the last get returned
    alive   \* the cache has not been destroyed

vars == <<index, visit, node, text, bytes, out, alive>>

Partial(f, S, T) == DOMAIN f \subseteq S /\ f \in [DOMAIN f -> T]

Length == {Size[v] : v \in Value}

NodeRecord == [name : Address, data : Address, len : Length]
BufferRecord == [cap : Length, val : Value]

TypeOK ==
    /\ Partial(index, Key, [name : Address, at : Address])
    /\ visit \in Seq(Address)
    /\ Partial(node, Address, NodeRecord)
    /\ Partial(text, Address, Key)
    /\ Partial(bytes, Address, BufferRecord)
    /\ out \in Value \cup {Miss}
    /\ alive \in BOOLEAN

Nothing == [x \in {} |-> x]

Init ==
    /\ index = Nothing
    /\ visit = <<>>
    /\ node = Nothing
    /\ text = Nothing
    /\ bytes = Nothing
    /\ out = Miss
    /\ alive = TRUE

-----------------------------------------------------------------------------
(* free or erase for the addresses of S; malloc or new at address a; and   *)
(* one after the other, first without the free.                            *)
Free(f, S) == [a \in DOMAIN f \ S |-> f[a]]
Alloc(f, a, x) == [b \in DOMAIN f \cup {a} |-> IF b = a THEN x ELSE f[b]]
ReplaceLeaking(f, old, a, x) == Alloc(f, a, x)
Replace(f, old, a, x) == Alloc(Free(f, {old}), a, x)

(* list::erase(iterator) and list::push_front; the latter first as         *)
(* push_back.                                                              *)
Erase(s, n) ==
    LET p == CHOOSE i \in DOMAIN s : s[i] = n
    IN  [i \in 1 .. Len(s) - 1 |-> IF i < p THEN s[i] ELSE s[i + 1]]
PushBack(s, n) == s \o <<n>>
PushFront(s, n) == <<n>> \o s
Members(s) == {s[i] : i \in DOMAIN s}

(* What "while (m_map.size() >= m_maxsize)" leaves of the list.            *)
Kept(s) ==
    IF Cardinality(DOMAIN index) < Capacity THEN s
    ELSE SubSeq(s, 1, Len(s) + Capacity - 1 - Cardinality(DOMAIN index))

(* Whether an entry found keeps its data buffer: when the answer has the   *)
(* length of the last one; first when it fits in.                          *)
ReusesIfFits(e, v) == Size[v] <= e.len
Reuses(e, v) == e.len = Size[v]

(* The map after an entry has moved to node n; first as if the iterator    *)
(* stayed valid.                                                           *)
ReindexNot(k, n) == index
Reindex(k, n) == [index EXCEPT ![k].at = n]

(* Entry k moves to the front, to node n that holds e.                     *)
Move(k, n, e) ==
    /\ n \notin DOMAIN node \ {index[k].at}
    /\ node' = Replace(node, index[k].at, n, e)
    /\ visit' = PushFront(Erase(visit, index[k].at), n)
    /\ index' = Reindex(k, n)

(* AHostsCache::set for a key in the map.                                  *)
SetFound(k, v) ==
    LET e == node[index[k].at]
    IN  /\ k \in DOMAIN index
        /\ \/ /\ Reuses(e, v)
              /\ bytes' = [bytes EXCEPT ![e.data].val = v]
              /\ \E n \in Address : Move(k, n, e)
           \/ /\ ~Reuses(e, v)
              /\ \E n \in Address, b \in Address \ (DOMAIN bytes \ {e.data}) :
                   /\ bytes' = Replace(bytes, e.data, b,
                                       [cap |-> Size[v], val |-> v])
                   /\ Move(k, n, [e EXCEPT !.data = b, !.len = Size[v]])
        /\ UNCHANGED text

(* AHostsCache::set for a new key, making room for it first.               *)
SetNew(k, v) ==
    LET drop == Members(visit) \ Members(Kept(visit))
        names == {node[n].name : n \in drop}
        datas == {node[n].data : n \in drop}
        keys == {text[a] : a \in names}
    IN  /\ k \notin DOMAIN index
        /\ \E n \in Address \ (DOMAIN node \ drop),
              a \in Address \ (DOMAIN text \ names),
              b \in Address \ (DOMAIN bytes \ datas) :
             /\ text' = Alloc(Free(text, names), a, k)
             /\ bytes' = Alloc(Free(bytes, datas), b, [cap |-> Size[v], val |-> v])
             /\ node' = Alloc(Free(node, drop), n,
                              [name |-> a, data |-> b, len |-> Size[v]])
             /\ visit' = PushFront(Kept(visit), n)
             /\ index' = Alloc(Free(index, keys), k, [name |-> a, at |-> n])

Set(k, v) ==
    /\ alive
    /\ IF Capacity = 0 THEN UNCHANGED <<index, visit, node, text, bytes>>
       ELSE SetFound(k, v) \/ SetNew(k, v)
    /\ UNCHANGED <<out, alive>>

(* AHostsCache::get: the node moves to the front, as a new node.           *)
GetFound(k) ==
    /\ k \in DOMAIN index
    /\ \E n \in Address : Move(k, n, node[index[k].at])
    /\ out' = bytes[node[index[k].at].data].val
    /\ UNCHANGED <<text, bytes>>

GetMissed(k) ==
    /\ k \notin DOMAIN index
    /\ out' = Miss
    /\ UNCHANGED <<index, visit, node, text, bytes>>

Get(k) ==
    /\ alive
    /\ GetFound(k) \/ GetMissed(k)
    /\ UNCHANGED alive

(* AHostsCache::clear, called by the destructor: the buffers of every      *)
(* entry of the map, then the map and the list.                            *)
Destroy ==
    /\ alive
    /\ alive' = FALSE
    /\ text' = Free(text, {index[k].name : k \in DOMAIN index})
    /\ bytes' = Free(bytes, {node[index[k].at].data : k \in DOMAIN index})
    /\ index' = Nothing
    /\ visit' = <<>>
    /\ node' = Nothing
    /\ UNCHANGED out

Next ==
    \/ \E k \in Key, v \in Value : Set(k, v)
    \/ \E k \in Key : Get(k)
    \/ Destroy

Spec == Init /\ [][Next]_vars

-----------------------------------------------------------------------------
(* Every iterator of m_map points to the node of its key, every node is in *)
(* m_visit once, and map and node share the key's buffer, which is still   *)
(* allocated: erase, find and get never follow a dangling pointer.         *)
IndexMatchesList ==
    /\ \A k \in DOMAIN index :
         /\ index[k].at \in DOMAIN node
         /\ node[index[k].at].name = index[k].name
         /\ index[k].name \in DOMAIN text
         /\ text[index[k].name] = k
    /\ \A n \in DOMAIN node : \E k \in DOMAIN index : index[k].at = n
    /\ Members(visit) = DOMAIN node
    /\ \A i, j \in DOMAIN visit : visit[i] = visit[j] => i = j

(* The allocated buffers are those of the nodes, each the buffer of one:   *)
(* nothing is leaked, nothing freed twice or used after it was freed, also *)
(* when the cache has been destroyed.                                      *)
BuffersOwnedOnce ==
    /\ DOMAIN text = {node[n].name : n \in DOMAIN node}
    /\ DOMAIN bytes = {node[n].data : n \in DOMAIN node}
    /\ \A m, n \in DOMAIN node :
         m # n => node[m].name # node[n].name /\ node[m].data # node[n].data

(* Every answer fills the buffer it was copied to, and get copies all of   *)
(* it and no more: memcpy does not overflow a buffer kept for another      *)
(* answer, and no rest of that one is returned.                            *)
AnswersFit ==
    \A n \in DOMAIN node :
      node[n].data \in DOMAIN bytes =>
        /\ bytes[node[n].data].cap = node[n].len
        /\ Size[bytes[node[n].data].val] = node[n].len

(* The cache never holds more than CacheSize answers.                      *)
Bounded == Len(visit) <= Capacity

(* The promise.                                                            *)
Recent ==
    [i \in DOMAIN visit |->
       [key |-> text[node[visit[i]].name], val |-> bytes[node[visit[i]].data].val]]

Promise == INSTANCE Lru WITH recent <- Recent

IsLru == Promise!Spec
=============================================================================
