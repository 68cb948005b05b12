------------------------- MODULE AHostsCacheProofs -------------------------
(***************************************************************************)
(* Proofs about AHostsCache, for every set of keys and answers, every      *)
(* capacity and every way malloc gives out addresses.                      *)
(***************************************************************************)
EXTENDS AHostsCache, FiniteSetTheorems, FunctionTheorems, SequenceTheorems,
        TLAPS

Injective(s) == \A i, j \in DOMAIN s : s[i] = s[j] => i = j

-----------------------------------------------------------------------------
(* list::erase of a node that is in the list once.                         *)
LEMMA EraseLemma ==
    ASSUME NEW S, NEW s \in Seq(S), Injective(s), NEW n \in Members(s)
    PROVE  /\ Erase(s, n) \in Seq(S)
           /\ Len(Erase(s, n)) = Len(s) - 1
           /\ Injective(Erase(s, n))
           /\ Members(Erase(s, n)) = Members(s) \ {n}
<1> DEFINE p == CHOOSE i \in DOMAIN s : s[i] = n
           r == [i \in 1 .. Len(s) - 1 |-> IF i < p THEN s[i] ELSE s[i + 1]]
<1>1. p \in 1 .. Len(s) /\ s[p] = n
  BY DEF Members
<1>2. \A i \in 1 .. Len(s) : s[i] = n => i = p
  BY <1>1 DEF Injective
<1> HIDE DEF p
<1>3. /\ DOMAIN r = 1 .. Len(s) - 1
      /\ \A i \in 1 .. Len(s) - 1 : r[i] = IF i < p THEN s[i] ELSE s[i + 1]
  OBVIOUS
<1>4. r \in Seq(S) /\ Len(r) = Len(s) - 1
  <2>1. Len(s) \in Nat /\ Len(s) - 1 \in Nat
    BY <1>1
  <2>2. r \in [1 .. Len(s) - 1 -> S]
    BY <1>1
  <2> QED BY <2>1, <2>2
<1> HIDE DEF r
<1>5. Injective(r)
  BY <1>1, <1>3 DEF Injective
<1>6. Members(r) = Members(s) \ {n}
  <2>1. ASSUME NEW i \in 1 .. Len(s) - 1
        PROVE  r[i] \in Members(s) \ {n}
    BY <1>1, <1>2, <1>3 DEF Members
  <2>2. ASSUME NEW i \in 1 .. Len(s), s[i] # n
        PROVE  s[i] \in Members(r)
    <3>1. CASE i < p
      <4>1. i \in 1 .. Len(s) - 1 /\ r[i] = s[i]
        BY <1>1, <1>3, <3>1
      <4> QED BY <1>3, <4>1 DEF Members
    <3>2. CASE i > p
      <4>1. i - 1 \in 1 .. Len(s) - 1 /\ ~(i - 1 < p) /\ i - 1 + 1 = i
        BY <1>1, <3>2
      <4> QED BY <1>3, <4>1 DEF Members
    <3> QED BY <1>1, <2>2, <3>1, <3>2
  <2> QED BY <1>3, <2>1, <2>2 DEF Members
<1> QED BY <1>4, <1>5, <1>6 DEF Erase, p, r

(* list::push_front of a new node.                                         *)
LEMMA PushFrontLemma ==
    ASSUME NEW S, NEW s \in Seq(S), Injective(s), NEW n \in S,
           n \notin Members(s)
    PROVE  /\ PushFront(s, n) \in Seq(S)
           /\ Len(PushFront(s, n)) = Len(s) + 1
           /\ Injective(PushFront(s, n))
           /\ Members(PushFront(s, n)) = Members(s) \cup {n}
<1> DEFINE r == PushFront(s, n)
<1>1. /\ r \in Seq(S) /\ Len(r) = Len(s) + 1
      /\ \A i \in 1 .. Len(s) + 1 : r[i] = IF i = 1 THEN n ELSE s[i - 1]
  BY DEF PushFront
<1> HIDE DEF r
<1>2. DOMAIN r = 1 .. Len(s) + 1 /\ DOMAIN s = 1 .. Len(s) /\ Len(s) \in Nat
  BY <1>1
<1>3. Injective(r)
  <2>1. \A i \in 1 .. Len(s) + 1 : i # 1 => i - 1 \in DOMAIN s /\ r[i] = s[i - 1]
    BY <1>1, <1>2
  <2>2. \A i \in 1 .. Len(s) + 1 : i # 1 => r[i] # n
    BY <2>1 DEF Members
  <2>3. r[1] = n
    BY <1>1, <1>2
  <2>4. \A i, j \in 1 .. Len(s) + 1 : i # 1 /\ j # 1 /\ r[i] = r[j] => i = j
    BY <2>1, <1>2 DEF Injective
  <2> QED BY <1>2, <2>2, <2>3, <2>4 DEF Injective
<1>4. \A i \in 1 .. Len(s) : i + 1 \in 1 .. Len(s) + 1 /\ r[i + 1] = s[i]
  BY <1>1, <1>2
<1>5. 1 \in DOMAIN r /\ r[1] = n
  BY <1>1, <1>2
<1>6. Members(r) = Members(s) \cup {n}
  <2>1. \A i \in DOMAIN r : r[i] \in Members(s) \cup {n}
    BY <1>1, <1>2 DEF Members
  <2>2. \A i \in DOMAIN s : s[i] \in Members(r)
    BY <1>2, <1>4 DEF Members
  <2>3. n \in Members(r)
    BY <1>5 DEF Members
  <2> QED BY <2>1, <2>2, <2>3 DEF Members
<1> QED BY <1>1, <1>3, <1>6 DEF r

(* pop_back, until m nodes are left.                                       *)
LEMMA FrontLemma ==
    ASSUME NEW S, NEW s \in Seq(S), Injective(s), NEW m \in 0 .. Len(s)
    PROVE  /\ SubSeq(s, 1, m) \in Seq(S)
           /\ Len(SubSeq(s, 1, m)) = m
           /\ Injective(SubSeq(s, 1, m))
           /\ Members(SubSeq(s, 1, m)) \subseteq Members(s)
<1>1. /\ SubSeq(s, 1, m) \in Seq(S) /\ Len(SubSeq(s, 1, m)) = m
      /\ \A i \in 1 .. m : SubSeq(s, 1, m)[i] = s[i]
  OBVIOUS
<1>2. DOMAIN SubSeq(s, 1, m) = 1 .. m /\ DOMAIN s = 1 .. Len(s)
  BY <1>1
<1> QED BY <1>1, <1>2 DEF Injective, Members

(* A heap keeps its type when addresses are freed and one is given out.    *)
LEMMA AllocType ==
    ASSUME NEW D, NEW T, NEW f, Partial(f, D, T), NEW S, NEW a \in D, NEW x \in T
    PROVE  Partial(Alloc(Free(f, S), a, x), D, T)
BY DEF Alloc, Free, Partial

-----------------------------------------------------------------------------
(* The invariant.                                                          *)
Inv == TypeOK /\ IndexMatchesList /\ BuffersOwnedOnce /\ AnswersFit /\ Bounded

(* m_map and m_visit have the same size.                                   *)
LEMMA SizesAgree ==
    ASSUME TypeOK, IndexMatchesList
    PROVE  Cardinality(DOMAIN index) = Len(visit) /\ IsFiniteSet(DOMAIN index)
<1> DEFINE at == [k \in DOMAIN index |-> index[k].at]
           pos == [i \in 1 .. Len(visit) |-> visit[i]]
<1>1. Len(visit) \in Nat /\ DOMAIN visit = 1 .. Len(visit)
  BY DEF TypeOK
<1>2. pos \in Bijection(1 .. Len(visit), DOMAIN node)
  <2>1. pos \in [1 .. Len(visit) -> DOMAIN node]
    BY <1>1 DEF IndexMatchesList, Members
  <2>2. \A i, j \in 1 .. Len(visit) : pos[i] = pos[j] => i = j
    BY <1>1 DEF IndexMatchesList
  <2>3. \A n \in DOMAIN node : \E i \in 1 .. Len(visit) : pos[i] = n
    BY <1>1 DEF IndexMatchesList, Members
  <2> QED BY <2>1, <2>2, <2>3 DEF Bijection, Injection, Surjection,
        IsInjective
<1>3. at \in Bijection(DOMAIN index, DOMAIN node)
  <2>1. at \in [DOMAIN index -> DOMAIN node]
    BY DEF IndexMatchesList
  <2>2. \A k, l \in DOMAIN index : at[k] = at[l] => k = l
    BY DEF IndexMatchesList
  <2>3. \A n \in DOMAIN node : \E k \in DOMAIN index : at[k] = n
    BY DEF IndexMatchesList
  <2> QED BY <2>1, <2>2, <2>3 DEF Bijection, Injection, Surjection,
        IsInjective
<1> HIDE DEF at, pos
<1>4. IsFiniteSet(1 .. Len(visit)) /\ Cardinality(1 .. Len(visit)) = Len(visit)
  <2>1. 1 \in Int /\ Len(visit) \in Int
    BY <1>1
  <2>2. Cardinality(1 .. Len(visit)) =
          IF 1 > Len(visit) THEN 0 ELSE Len(visit) - 1 + 1
    BY <2>1, FS_Interval
  <2>3. IsFiniteSet(1 .. Len(visit))
    BY <2>1, FS_Interval
  <2> QED BY <1>1, <2>2, <2>3
<1>5. IsFiniteSet(DOMAIN node) /\ Cardinality(DOMAIN node) = Len(visit)
  BY <1>2, <1>4, FS_Bijection DEF ExistsBijection
<1>6. ExistsBijection(DOMAIN node, DOMAIN index)
  BY <1>3, Fun_ExistsBijSymmetric DEF ExistsBijection
<1> QED BY <1>5, <1>6, FS_Bijection

(* set and get of a known key: the entry moves from node o to a new node   *)
(* in front, and every other entry stays where it is.                      *)
Moved(o, n, e) ==
    /\ Partial(index', Key, [name : Address, at : Address])
    /\ visit' \in Seq(Address)
    /\ Partial(node', Address, NodeRecord)
    /\ IndexMatchesList'
    /\ Bounded'
    /\ o \in DOMAIN node
    /\ DOMAIN node' = (DOMAIN node \ {o}) \cup {n}
    /\ node'[n] = e
    /\ n \notin DOMAIN node \ {o}
    /\ \A m \in DOMAIN node \ {o} : node'[m] = node[m]

(* What Move does to a cache in order, wherever the new node comes from.   *)
LEMMA MoveLemma ==
    ASSUME Inv, NEW k \in DOMAIN index, NEW n \in Address, NEW e \in NodeRecord,
           NEW o, o = index[k].at, e.name = node[o].name,
           Move(k, n, e), text' = text
    PROVE  Moved(o, n, e)
<1>1. /\ o \in DOMAIN node /\ o \in Members(visit)
      /\ n \notin DOMAIN node \ {o}
  BY DEF Inv, IndexMatchesList, Move
<1>2. /\ node' = Alloc(Free(node, {o}), n, e)
      /\ visit' = PushFront(Erase(visit, o), n)
      /\ index' = [index EXCEPT ![k].at = n]
  BY DEF Move, Replace, Reindex
<1>3. /\ visit \in Seq(Address) /\ Injective(visit)
      /\ Members(visit) = DOMAIN node
  BY DEF Inv, TypeOK, IndexMatchesList, Injective
<1>4. /\ index \in [DOMAIN index -> [name : Address, at : Address]]
      /\ DOMAIN index \subseteq Key
  BY DEF Inv, TypeOK, Partial
<1>5. /\ DOMAIN node' = (DOMAIN node \ {o}) \cup {n}
      /\ node'[n] = e
      /\ \A m \in DOMAIN node \ {o} : node'[m] = node[m]
  BY <1>1, <1>2 DEF Alloc, Free
<1>6. Partial(node', Address, NodeRecord)
  <2>1. Partial(node, Address, NodeRecord)
    BY DEF Inv, TypeOK
  <2> QED BY <1>2, <2>1, AllocType
<1>7. LET r == Erase(visit, o)
      IN  /\ r \in Seq(Address) /\ Len(r) = Len(visit) - 1
          /\ Injective(r) /\ Members(r) = DOMAIN node \ {o}
  BY <1>1, <1>3, EraseLemma
<1>8. /\ visit' \in Seq(Address) /\ Len(visit') = Len(visit) - 1 + 1
      /\ Injective(visit') /\ Members(visit') = DOMAIN node'
  <2> DEFINE r == Erase(visit, o)
  <2>1. /\ r \in Seq(Address) /\ Injective(r) /\ n \notin Members(r)
        /\ Len(r) = Len(visit) - 1 /\ Members(r) = DOMAIN node \ {o}
    BY <1>1, <1>7
  <2>2. visit' = PushFront(r, n)
    BY <1>2
  <2> HIDE DEF r
  <2> QED BY <1>5, <2>1, <2>2, PushFrontLemma
<1>9. /\ Partial(index', Key, [name : Address, at : Address])
      /\ DOMAIN index' = DOMAIN index
      /\ index'[k].at = n /\ index'[k].name = index[k].name
      /\ \A l \in DOMAIN index : l # k => index'[l] = index[l]
  <2>1. /\ [index[k] EXCEPT !.at = n] \in [name : Address, at : Address]
        /\ [index[k] EXCEPT !.at = n].at = n
        /\ [index[k] EXCEPT !.at = n].name = index[k].name
    BY <1>4
  <2>2. index' = [index EXCEPT ![k] = [index[k] EXCEPT !.at = n]]
    BY <1>2
  <2> HIDE <1>2
  <2> QED BY <1>4, <2>1, <2>2 DEF Partial
<1>10. \A l \in DOMAIN index : l # k => index[l].at # o
  BY DEF Inv, IndexMatchesList
<1>11. IndexMatchesList'
  <2>1. ASSUME NEW l \in DOMAIN index'
        PROVE  /\ index'[l].at \in DOMAIN node'
               /\ node'[index'[l].at].name = index'[l].name
               /\ index'[l].name \in DOMAIN text'
               /\ text'[index'[l].name] = l
    <3>1. CASE l = k
      BY <1>5, <1>9, <3>1 DEF Inv, IndexMatchesList
    <3>2. CASE l # k
      <4>1. index[l].at \in DOMAIN node \ {o} /\ index'[l] = index[l]
        BY <1>9, <1>10, <3>2 DEF Inv, IndexMatchesList
      <4> QED BY <1>5, <1>9, <4>1 DEF Inv, IndexMatchesList
    <3> QED BY <3>1, <3>2
  <2>2. ASSUME NEW m \in DOMAIN node'
        PROVE  \E l \in DOMAIN index' : index'[l].at = m
    <3>1. CASE m = n
      BY <1>9, <3>1
    <3>2. CASE m # n
      <4>1. PICK l \in DOMAIN index : index[l].at = m
        BY <1>5, <3>2 DEF Inv, IndexMatchesList
      <4>2. l # k
        BY <1>5, <3>2, <4>1
      <4> QED BY <1>9, <4>1, <4>2
    <3> QED BY <3>1, <3>2
  <2>3. \A i, j \in DOMAIN visit' : visit'[i] = visit'[j] => i = j
    BY <1>8 DEF Injective
  <2> QED BY <1>8, <2>1, <2>2, <2>3 DEF IndexMatchesList
<1>12. Bounded'
  BY <1>3, <1>8 DEF Inv, Bounded
<1> QED BY <1>1, <1>5, <1>6, <1>8, <1>9, <1>11, <1>12 DEF Moved

(* An entry found has its buffers, and shares them with no other entry.    *)
LEMMA EntryOwns ==
    ASSUME Inv, NEW n \in DOMAIN node
    PROVE  /\ node[n] \in NodeRecord
           /\ node[n].name \in DOMAIN text
           /\ node[n].data \in DOMAIN bytes
           /\ bytes[node[n].data] \in BufferRecord
           /\ bytes[node[n].data].cap = node[n].len
           /\ Size[bytes[node[n].data].val] = node[n].len
           /\ \A m \in DOMAIN node \ {n} : /\ node[m].name # node[n].name
                                          /\ node[m].data # node[n].data
<1>1. node[n] \in NodeRecord
  BY DEF Inv, TypeOK, Partial
<1>2. node[n].name \in DOMAIN text /\ node[n].data \in DOMAIN bytes
  BY DEF Inv, BuffersOwnedOnce
<1>3. bytes[node[n].data] \in BufferRecord
  BY <1>2 DEF Inv, TypeOK, Partial
<1>4. \A m \in DOMAIN node \ {n} : /\ node[m].name # node[n].name
                                  /\ node[m].data # node[n].data
  BY DEF Inv, BuffersOwnedOnce
<1> QED BY <1>1, <1>2, <1>3, <1>4 DEF Inv, AnswersFit

(* get of a known key: only the node is new.                               *)
LEMMA GetFoundInv ==
    ASSUME Inv, NEW k \in Key, GetFound(k), alive' = alive
    PROVE  Inv'
<1>o. PICK o : o = index[k].at
  OBVIOUS
<1>e. PICK e : e = node[o]
  OBVIOUS
<1>1. /\ k \in DOMAIN index
      /\ text' = text /\ bytes' = bytes /\ out' = bytes[e.data].val
  BY <1>o, <1>e DEF GetFound
<1>2. PICK n \in Address : Move(k, n, e)
  BY <1>o, <1>e DEF GetFound
<1>3. o \in DOMAIN node
  BY <1>o, <1>1 DEF Inv, IndexMatchesList
<1>4. e \in NodeRecord /\ bytes[e.data] \in BufferRecord
  BY <1>e, <1>3, EntryOwns
<1>5. Moved(o, n, e)
  BY <1>o, <1>e, <1>1, <1>2, <1>4, MoveLemma
<1>6. TypeOK'
  BY <1>1, <1>4, <1>5 DEF Inv, TypeOK, BufferRecord, Moved
<1>7. BuffersOwnedOnce'
  <2>1. {node'[m].name : m \in DOMAIN node'} = {node[m].name : m \in DOMAIN node}
    BY <1>e, <1>3, <1>5 DEF Moved
  <2>2. {node'[m].data : m \in DOMAIN node'} = {node[m].data : m \in DOMAIN node}
    BY <1>e, <1>3, <1>5 DEF Moved
  <2>3. \A l, m \in DOMAIN node' : l # m =>
          node'[l].name # node'[m].name /\ node'[l].data # node'[m].data
    BY <1>e, <1>3, <1>5 DEF Moved, Inv, BuffersOwnedOnce
  <2> QED BY <1>1, <2>1, <2>2, <2>3 DEF Inv, BuffersOwnedOnce
<1>8. AnswersFit'
  BY <1>e, <1>1, <1>3, <1>5 DEF Moved, Inv, AnswersFit
<1> QED BY <1>5, <1>6, <1>7, <1>8 DEF Moved, Inv

(* set of a known key, with the buffer of the last answer or a new one.    *)
LEMMA SetFoundInv ==
    ASSUME Inv, NEW k \in Key, NEW v \in Value, SetFound(k, v), out' = out,
           alive' = alive
    PROVE  Inv'
<1>o. PICK o : o = index[k].at
  OBVIOUS
<1>e. PICK e : e = node[o]
  OBVIOUS
<1>1. k \in DOMAIN index /\ text' = text
  BY DEF SetFound
<1>2. o \in DOMAIN node
  BY <1>o, <1>1 DEF Inv, IndexMatchesList
<1>3. /\ e \in NodeRecord
      /\ e.name \in DOMAIN text /\ e.data \in DOMAIN bytes
      /\ bytes[e.data] \in BufferRecord
      /\ bytes[e.data].cap = e.len
      /\ \A m \in DOMAIN node \ {o} : node[m].name # e.name /\ node[m].data # e.data
  BY <1>e, <1>2, EntryOwns
<1>4. Size[v] \in Length /\ Size[v] \in Nat
  BY CapacityAssumption DEF Length
<1>5. CASE Reuses(e, v)
  <2>1. bytes' = [bytes EXCEPT ![e.data].val = v]
    BY <1>o, <1>e, <1>5 DEF SetFound
  <2>2. PICK n \in Address : Move(k, n, e)
    BY <1>o, <1>e, <1>5 DEF SetFound
  <2>3. Moved(o, n, e)
    BY <1>o, <1>e, <1>1, <1>3, <2>2, MoveLemma
  <2>4. /\ DOMAIN bytes' = DOMAIN bytes
        /\ Partial(bytes', Address, BufferRecord)
        /\ bytes'[e.data].cap = e.len /\ bytes'[e.data].val = v
        /\ \A b \in DOMAIN bytes \ {e.data} : bytes'[b] = bytes[b]
    BY <1>3, <2>1 DEF Inv, TypeOK, Partial, BufferRecord
  <2>5. TypeOK'
    BY <1>1, <2>3, <2>4 DEF Inv, TypeOK, Moved
  <2>6. BuffersOwnedOnce'
    <3>1. {node'[m].name : m \in DOMAIN node'} = {node[m].name : m \in DOMAIN node}
      BY <1>e, <1>2, <2>3 DEF Moved
    <3>2. {node'[m].data : m \in DOMAIN node'} = {node[m].data : m \in DOMAIN node}
      BY <1>e, <1>2, <2>3 DEF Moved
    <3>3. \A l, m \in DOMAIN node' : l # m =>
            node'[l].name # node'[m].name /\ node'[l].data # node'[m].data
      BY <1>3, <2>3 DEF Moved, Inv, BuffersOwnedOnce
    <3> QED BY <1>1, <2>4, <3>1, <3>2, <3>3 DEF Inv, BuffersOwnedOnce
  <2>7. AnswersFit'
    <3>1. e.len = Size[v]
      BY <1>5 DEF Reuses
    <3> QED BY <1>3, <2>3, <2>4, <3>1 DEF Moved, Inv, AnswersFit
  <2> QED BY <2>3, <2>5, <2>6, <2>7 DEF Moved, Inv
<1>6. CASE ~Reuses(e, v)
  <2>1. PICK n \in Address, b \in Address \ (DOMAIN bytes \ {e.data}) :
          /\ bytes' = Replace(bytes, e.data, b, [cap |-> Size[v], val |-> v])
          /\ Move(k, n, [e EXCEPT !.data = b, !.len = Size[v]])
    BY <1>o, <1>e, <1>6 DEF SetFound
  <2>2. PICK f : f = [e EXCEPT !.data = b, !.len = Size[v]]
    OBVIOUS
  <2>3. /\ f \in NodeRecord /\ f.name = e.name
        /\ f.data = b /\ f.len = Size[v]
    BY <1>3, <1>4, <2>2 DEF NodeRecord
  <2>4. Moved(o, n, f)
    <3>1. Move(k, n, f)
      BY <2>1, <2>2
    <3> QED BY <1>o, <1>e, <1>1, <2>3, <3>1, MoveLemma
  <2>5. PICK x : x = [cap |-> Size[v], val |-> v]
    OBVIOUS
  <2>6. x \in BufferRecord /\ x.cap = Size[v] /\ x.val = v
    BY <1>4, <2>5 DEF BufferRecord
  <2>7. bytes' = Alloc(Free(bytes, {e.data}), b, x)
    BY <2>1, <2>5 DEF Replace
  <2>8. /\ DOMAIN bytes' = (DOMAIN bytes \ {e.data}) \cup {b}
        /\ bytes'[b] = x
        /\ \A c \in DOMAIN bytes \ {e.data} : bytes'[c] = bytes[c]
    BY <2>1, <2>7 DEF Alloc, Free
  <2>9. TypeOK'
    <3>1. Partial(bytes, Address, BufferRecord)
      BY DEF Inv, TypeOK
    <3>2. Partial(bytes', Address, BufferRecord)
      BY <2>6, <2>7, <3>1, AllocType
    <3> QED BY <1>1, <2>4, <3>2 DEF Inv, TypeOK, Moved
  <2>10. BuffersOwnedOnce'
    <3>1. {node'[m].name : m \in DOMAIN node'} = {node[m].name : m \in DOMAIN node}
      BY <1>e, <1>2, <2>3, <2>4 DEF Moved
    <3>2. DOMAIN bytes' = {node'[m].data : m \in DOMAIN node'}
      <4>1. \A m \in DOMAIN node \ {o} : node[m].data \in DOMAIN bytes \ {e.data}
        BY <1>3 DEF Inv, BuffersOwnedOnce
      <4>2. \A c \in DOMAIN bytes \ {e.data} :
              \E m \in DOMAIN node \ {o} : node[m].data = c
        BY <1>e DEF Inv, BuffersOwnedOnce
      <4> QED BY <2>3, <2>4, <2>8, <4>1, <4>2 DEF Moved
    <3>3. \A l, m \in DOMAIN node' : l # m =>
            node'[l].name # node'[m].name /\ node'[l].data # node'[m].data
      BY <1>3, <2>1, <2>3, <2>4 DEF Moved, Inv, BuffersOwnedOnce
    <3> QED BY <1>1, <3>1, <3>2, <3>3 DEF Inv, BuffersOwnedOnce
  <2>11. AnswersFit'
    BY <1>3, <2>1, <2>3, <2>4, <2>6, <2>8 DEF Moved, Inv, AnswersFit, BuffersOwnedOnce
  <2> QED BY <2>4, <2>9, <2>10, <2>11 DEF Moved, Inv
<1> QED BY <1>5, <1>6

(* Making room leaves at least one place free.                             *)
LEMMA KeptLemma ==
    ASSUME Inv, Capacity # 0
    PROVE  /\ Kept(visit) \in Seq(Address)
           /\ Len(Kept(visit)) + 1 <= Capacity
           /\ Injective(Kept(visit))
           /\ Members(Kept(visit)) \subseteq DOMAIN node
<1>1. /\ visit \in Seq(Address) /\ Injective(visit)
      /\ Members(visit) = DOMAIN node
      /\ Len(visit) \in Nat /\ Len(visit) <= Capacity
  BY DEF Inv, TypeOK, IndexMatchesList, Injective, Bounded
<1>2. Cardinality(DOMAIN index) = Len(visit) /\ Capacity \in Nat
  BY SizesAgree, CapacityAssumption DEF Inv
<1>3. CASE Len(visit) < Capacity
  BY <1>1, <1>2, <1>3 DEF Kept
<1>4. CASE Len(visit) = Capacity
  <2>1. /\ Len(visit) + Capacity - 1 - Len(visit) = Capacity - 1
        /\ Capacity - 1 \in 0 .. Len(visit) /\ ~(Len(visit) < Capacity)
    BY <1>1, <1>2, <1>4
  <2>2. Kept(visit) = SubSeq(visit, 1, Capacity - 1)
    BY <1>2, <2>1 DEF Kept
  <2>3. Capacity - 1 + 1 <= Capacity
    BY <1>2
  <2> QED BY <1>1, <2>1, <2>2, <2>3, FrontLemma
<1> QED BY <1>1, <1>2, <1>3, <1>4

(* set of a new key: the entries used least recently go with all they own. *)
LEMMA SetNewInv ==
    ASSUME Inv, Capacity # 0, NEW k \in Key, NEW v \in Value, SetNew(k, v),
           out' = out, alive' = alive
    PROVE  Inv'
<1>r. PICK r : r = Kept(visit)
  OBVIOUS
<1>1. /\ r \in Seq(Address) /\ Len(r) + 1 <= Capacity /\ Injective(r)
      /\ Members(r) \subseteq DOMAIN node
  BY <1>r, KeptLemma
<1>2. Members(visit) = DOMAIN node
  BY DEF Inv, IndexMatchesList
<1>d. PICK drop : drop = Members(visit) \ Members(r)
  OBVIOUS
<1>3. DOMAIN node \ drop = Members(r) /\ drop \subseteq DOMAIN node
  BY <1>d, <1>1, <1>2
<1>n. PICK names : names = {node[m].name : m \in drop}
  OBVIOUS
<1>b. PICK datas : datas = {node[m].data : m \in drop}
  OBVIOUS
<1>k. PICK keys : keys = {text[c] : c \in names}
  OBVIOUS
<1>4. PICK n \in Address \ (DOMAIN node \ drop),
           a \in Address \ (DOMAIN text \ names),
           b \in Address \ (DOMAIN bytes \ datas) :
        /\ text' = Alloc(Free(text, names), a, k)
        /\ bytes' = Alloc(Free(bytes, datas), b, [cap |-> Size[v], val |-> v])
        /\ node' = Alloc(Free(node, drop), n,
                         [name |-> a, data |-> b, len |-> Size[v]])
        /\ visit' = PushFront(r, n)
        /\ index' = Alloc(Free(index, keys), k, [name |-> a, at |-> n])
  BY <1>r, <1>d, <1>n, <1>b, <1>k DEF SetNew
<1>e. PICK e : e = [name |-> a, data |-> b, len |-> Size[v]]
  OBVIOUS
<1>x. PICK x : x = [cap |-> Size[v], val |-> v]
  OBVIOUS
<1>i. PICK i : i = [name |-> a, at |-> n]
  OBVIOUS
<1>5. Size[v] \in Length /\ Size[v] \in Nat
  BY CapacityAssumption DEF Length
<1>6. /\ e \in NodeRecord /\ e.name = a /\ e.data = b /\ e.len = Size[v]
      /\ x \in BufferRecord /\ x.cap = Size[v] /\ x.val = v
      /\ i \in [name : Address, at : Address] /\ i.name = a /\ i.at = n
  BY <1>e, <1>x, <1>i, <1>4, <1>5 DEF NodeRecord, BufferRecord
<1>7. /\ text' = Alloc(Free(text, names), a, k)
      /\ bytes' = Alloc(Free(bytes, datas), b, x)
      /\ node' = Alloc(Free(node, drop), n, e)
      /\ index' = Alloc(Free(index, keys), k, i)
      /\ visit' = PushFront(r, n)
      /\ k \notin DOMAIN index
  BY <1>4, <1>e, <1>x, <1>i DEF SetNew
<1>8. /\ DOMAIN node' = Members(r) \cup {n} /\ n \notin Members(r)
      /\ node'[n] = e /\ \A m \in Members(r) : node'[m] = node[m]
  BY <1>3, <1>4, <1>7 DEF Alloc, Free
<1>9. /\ DOMAIN text' = (DOMAIN text \ names) \cup {a}
      /\ text'[a] = k /\ \A c \in DOMAIN text \ names : text'[c] = text[c]
  BY <1>4, <1>7 DEF Alloc, Free
<1>10. /\ DOMAIN bytes' = (DOMAIN bytes \ datas) \cup {b}
       /\ bytes'[b] = x /\ \A c \in DOMAIN bytes \ datas : bytes'[c] = bytes[c]
  BY <1>4, <1>7 DEF Alloc, Free
<1>11. /\ DOMAIN index' = (DOMAIN index \ keys) \cup {k}
       /\ index'[k] = i /\ \A l \in DOMAIN index \ keys : index'[l] = index[l]
  BY <1>7 DEF Alloc, Free
<1>12. /\ visit' \in Seq(Address) /\ Len(visit') = Len(r) + 1
       /\ Injective(visit') /\ Members(visit') = Members(r) \cup {n}
  BY <1>1, <1>4, <1>7, <1>8, PushFrontLemma
<1>13. Partial(node', Address, NodeRecord)
  <2>1. Partial(node, Address, NodeRecord)
    BY DEF Inv, TypeOK
  <2> QED BY <1>4, <1>6, <1>7, <2>1, AllocType
<1>14. Partial(bytes', Address, BufferRecord)
  <2>1. Partial(bytes, Address, BufferRecord)
    BY DEF Inv, TypeOK
  <2> QED BY <1>4, <1>6, <1>7, <2>1, AllocType
<1>15. Partial(text', Address, Key)
  <2>1. Partial(text, Address, Key)
    BY DEF Inv, TypeOK
  <2> QED BY <1>4, <1>7, <2>1, AllocType
<1>16. Partial(index', Key, [name : Address, at : Address])
  <2>1. Partial(index, Key, [name : Address, at : Address])
    BY DEF Inv, TypeOK
  <2> QED BY <1>6, <1>7, <2>1, AllocType
<1>17. TypeOK'
  BY <1>12, <1>13, <1>14, <1>15, <1>16 DEF Inv, TypeOK
<1>18. \A m \in Members(r) : /\ node[m].name \in DOMAIN text \ names
                            /\ node[m].data \in DOMAIN bytes \ datas
  BY <1>1, <1>3, <1>n, <1>b DEF Inv, BuffersOwnedOnce
<1>19. /\ \A c \in DOMAIN text \ names : \E m \in Members(r) : node[m].name = c
       /\ \A c \in DOMAIN bytes \ datas : \E m \in Members(r) : node[m].data = c
  BY <1>3, <1>n, <1>b DEF Inv, BuffersOwnedOnce
<1>20. \A l \in DOMAIN index : l \in keys <=> index[l].at \in drop
  <2>1. ASSUME NEW l \in DOMAIN index, index[l].at \in drop
        PROVE  l \in keys
    BY <2>1, <1>n, <1>k DEF Inv, IndexMatchesList
  <2>2. ASSUME NEW l \in DOMAIN index, l \in keys
        PROVE  index[l].at \in drop
    <3>1. PICK m \in drop : text[node[m].name] = l
      BY <2>2, <1>n, <1>k
    <3>2. PICK h \in DOMAIN index : index[h].at = m
      BY <1>3 DEF Inv, IndexMatchesList
    <3>3. h = l
      BY <3>1, <3>2 DEF Inv, IndexMatchesList
    <3> QED BY <3>2, <3>3
  <2> QED BY <2>1, <2>2
<1>21. IndexMatchesList'
  <2>1. ASSUME NEW l \in DOMAIN index'
        PROVE  /\ index'[l].at \in DOMAIN node'
               /\ node'[index'[l].at].name = index'[l].name
               /\ index'[l].name \in DOMAIN text'
               /\ text'[index'[l].name] = l
    <3>1. CASE l = k
      BY <1>6, <1>8, <1>9, <1>11, <3>1
    <3>2. CASE l # k
      <4>1. l \in DOMAIN index \ keys /\ index'[l] = index[l]
        BY <1>11, <3>2
      <4>2. index[l].at \in Members(r)
        BY <1>3, <1>20, <4>1 DEF Inv, IndexMatchesList
      <4>3. /\ node[index[l].at].name = index[l].name
            /\ text[index[l].name] = l
        BY <4>1 DEF Inv, IndexMatchesList
      <4>4. index[l].name \in DOMAIN text \ names
        BY <1>18, <4>2, <4>3
      <4>5. index[l].name # a
        BY <1>4, <4>4
      <4> QED BY <1>8, <1>9, <4>1, <4>2, <4>3, <4>4
    <3> QED BY <3>1, <3>2
  <2>2. ASSUME NEW m \in DOMAIN node'
        PROVE  \E l \in DOMAIN index' : index'[l].at = m
    <3>1. CASE m = n
      BY <1>6, <1>11, <3>1
    <3>2. CASE m \in Members(r)
      <4>1. PICK l \in DOMAIN index : index[l].at = m
        BY <1>1, <3>2 DEF Inv, IndexMatchesList
      <4>2. l \in DOMAIN index \ keys
        BY <1>3, <1>20, <3>2, <4>1
      <4> QED BY <1>11, <4>1, <4>2
    <3> QED BY <1>8, <3>1, <3>2
  <2>3. \A p, q \in DOMAIN visit' : visit'[p] = visit'[q] => p = q
    BY <1>12 DEF Injective
  <2> QED BY <1>8, <1>12, <2>1, <2>2, <2>3 DEF IndexMatchesList
<1>22. BuffersOwnedOnce'
  <2>1. DOMAIN text' = {node'[m].name : m \in DOMAIN node'}
    BY <1>6, <1>8, <1>9, <1>18, <1>19
  <2>2. DOMAIN bytes' = {node'[m].data : m \in DOMAIN node'}
    BY <1>6, <1>8, <1>10, <1>18, <1>19
  <2>3. \A m \in Members(r) : node[m].name # a /\ node[m].data # b
    BY <1>4, <1>18
  <2>4. \A l, m \in Members(r) : l # m =>
          node[l].name # node[m].name /\ node[l].data # node[m].data
    BY <1>1 DEF Inv, BuffersOwnedOnce
  <2>5. \A l, m \in DOMAIN node' : l # m =>
          node'[l].name # node'[m].name /\ node'[l].data # node'[m].data
    BY <1>6, <1>8, <2>3, <2>4
  <2> QED BY <2>1, <2>2, <2>5 DEF BuffersOwnedOnce
<1>23. AnswersFit'
  <2>1. ASSUME NEW m \in Members(r)
        PROVE  /\ bytes'[node'[m].data].cap = node'[m].len
               /\ Size[bytes'[node'[m].data].val] = node'[m].len
    BY <1>1, <1>8, <1>10, <1>18 DEF Inv, AnswersFit
  <2> QED BY <1>6, <1>8, <1>10, <2>1 DEF AnswersFit
<1>24. Bounded'
  BY <1>1, <1>12 DEF Bounded
<1> QED BY <1>17, <1>21, <1>22, <1>23, <1>24 DEF Inv

(* The destructor frees everything that is allocated.                      *)
LEMMA DestroyInv ==
    ASSUME Inv, Destroy
    PROVE  Inv'
<1>1. /\ index' = Nothing /\ visit' = <<>> /\ node' = Nothing
      /\ text' = Free(text, {index[k].name : k \in DOMAIN index})
      /\ bytes' = Free(bytes, {node[index[k].at].data : k \in DOMAIN index})
      /\ out' = out /\ alive' \in BOOLEAN
  BY DEF Destroy
<1>2. DOMAIN text \subseteq {index[k].name : k \in DOMAIN index}
  BY DEF Inv, IndexMatchesList, BuffersOwnedOnce
<1>3. DOMAIN bytes \subseteq {node[index[k].at].data : k \in DOMAIN index}
  BY DEF Inv, IndexMatchesList, BuffersOwnedOnce
<1>4. DOMAIN text' = {} /\ DOMAIN bytes' = {}
  BY <1>1, <1>2, <1>3 DEF Free
<1>5. DOMAIN Nothing = {}
  BY DEF Nothing
<1>6. text' \in [{} -> Key] /\ bytes' \in [{} -> BufferRecord]
  BY <1>1, <1>4 DEF Free
<1>7. /\ Nothing \in [{} -> NodeRecord]
      /\ Nothing \in [{} -> [name : Address, at : Address]]
  BY DEF Nothing
<1>8. visit' \in Seq(Address) /\ Len(visit') = 0 /\ DOMAIN visit' = {}
  BY <1>1
<1>9. TypeOK'
  BY <1>1, <1>4, <1>5, <1>6, <1>7, <1>8 DEF Inv, TypeOK, Partial
<1>10. IndexMatchesList' /\ BuffersOwnedOnce' /\ AnswersFit'
  BY <1>1, <1>4, <1>5, <1>8
     DEF IndexMatchesList, BuffersOwnedOnce, AnswersFit, Members
<1>11. Bounded'
  BY <1>8, CapacityAssumption DEF Bounded
<1> QED BY <1>9, <1>10, <1>11 DEF Inv

(* The invariant is inductive.                                             *)
LEMMA InvInit == Init => Inv
<1> SUFFICES ASSUME Init PROVE Inv
  OBVIOUS
<1>1. DOMAIN Nothing = {}
  BY DEF Nothing
<1>2. /\ Nothing \in [{} -> NodeRecord] /\ Nothing \in [{} -> Key]
      /\ Nothing \in [{} -> BufferRecord]
      /\ Nothing \in [{} -> [name : Address, at : Address]]
  BY DEF Nothing
<1>3. visit \in Seq(Address) /\ Len(visit) = 0 /\ DOMAIN visit = {}
  BY DEF Init
<1>4. TypeOK
  BY <1>1, <1>2, <1>3 DEF Init, TypeOK, Partial
<1>5. IndexMatchesList /\ BuffersOwnedOnce /\ AnswersFit
  BY <1>1, <1>3 DEF Init, IndexMatchesList, BuffersOwnedOnce, AnswersFit, Members
<1>6. Bounded
  BY <1>3, CapacityAssumption DEF Bounded
<1> QED BY <1>4, <1>5, <1>6 DEF Inv

LEMMA InvNext == Inv /\ [Next]_vars => Inv'
<1> SUFFICES ASSUME Inv, [Next]_vars PROVE Inv'
  OBVIOUS
<1>1. ASSUME NEW k \in Key, NEW v \in Value, Set(k, v) PROVE Inv'
  <2>1. out' = out /\ alive' = alive
    BY <1>1 DEF Set
  <2>2. CASE Capacity = 0
    BY <1>1, <2>1, <2>2 DEF Set, Inv, TypeOK, IndexMatchesList,
       BuffersOwnedOnce, AnswersFit, Bounded
  <2>3. CASE Capacity # 0
    <3>1. SetFound(k, v) \/ SetNew(k, v)
      BY <1>1, <2>3 DEF Set
    <3> QED BY <2>1, <2>3, <3>1, SetFoundInv, SetNewInv
  <2> QED BY <2>2, <2>3
<1>2. ASSUME NEW k \in Key, Get(k) PROVE Inv'
  <2>1. alive' = alive
    BY <1>2 DEF Get
  <2>2. CASE GetFound(k)
    BY <2>1, <2>2, GetFoundInv
  <2>3. CASE GetMissed(k)
    BY <2>1, <2>3 DEF GetMissed, Inv, TypeOK, IndexMatchesList,
       BuffersOwnedOnce, AnswersFit, Bounded
  <2> QED BY <1>2, <2>2, <2>3 DEF Get
<1>3. CASE Destroy
  BY <1>3, DestroyInv
<1>4. CASE UNCHANGED vars
  BY <1>4 DEF vars, Inv, TypeOK, IndexMatchesList, BuffersOwnedOnce,
     AnswersFit, Bounded
<1> QED BY <1>1, <1>2, <1>3, <1>4 DEF Next

LEMMA Invariance == Spec => []Inv
<1> QED BY InvInit, InvNext, PTL DEF Spec

-----------------------------------------------------------------------------
(* The state keeps its type.                                               *)
THEOREM TypeCorrect == Spec => []TypeOK
<1>1. Inv => TypeOK
  BY DEF Inv
<1> QED BY <1>1, Invariance, PTL

(* AHostsCache::set and get never follow a dangling iterator or key        *)
(* pointer, whatever addresses are reused.                                 *)
THEOREM IteratorsStayValid == Spec => []IndexMatchesList
<1>1. Inv => IndexMatchesList
  BY DEF Inv
<1> QED BY <1>1, Invariance, PTL

(* No buffer is leaked, shared, freed twice or used after it was freed.    *)
THEOREM NoLeakNoDoubleFree == Spec => []BuffersOwnedOnce
<1>1. Inv => BuffersOwnedOnce
  BY DEF Inv
<1> QED BY <1>1, Invariance, PTL

(* No answer overflows the buffer that set keeps or allocates for it, and  *)
(* get returns it whole.                                                   *)
THEOREM AnswersStayWhole == Spec => []AnswersFit
<1>1. Inv => AnswersFit
  BY DEF Inv
<1> QED BY <1>1, Invariance, PTL

(* The cache stays within CacheSize, whatever that is.                     *)
THEOREM CapacityKept == Spec => []Bounded
<1>1. Inv => Bounded
  BY DEF Inv
<1> QED BY <1>1, Invariance, PTL

-----------------------------------------------------------------------------
(* The cache as its reader sees it: AHostsCache implements Lru.            *)
ItemAt(n) == [key |-> text[node[n].name], val |-> bytes[node[n].data].val]
ItemAtNext(n) == [key |-> text'[node'[n].name], val |-> bytes'[node'[n].data].val]

LEMMA RecentIs ==
    ASSUME TypeOK
    PROVE  /\ DOMAIN visit = 1 .. Len(visit) /\ Len(visit) \in Nat
           /\ Recent \in Seq({ItemAt(n) : n \in Address})
           /\ Len(Recent) = Len(visit)
           /\ DOMAIN Recent = 1 .. Len(visit)
           /\ \A i \in 1 .. Len(visit) : Recent[i] = ItemAt(visit[i])
<1>1. DOMAIN visit = 1 .. Len(visit) /\ Len(visit) \in Nat
      /\ \A i \in 1 .. Len(visit) : visit[i] \in Address
  BY DEF TypeOK
<1>2. Recent = [i \in 1 .. Len(visit) |-> ItemAt(visit[i])]
  BY <1>1 DEF Recent, ItemAt
<1>3. \A i \in 1 .. Len(visit) : ItemAt(visit[i]) \in {ItemAt(n) : n \in Address}
  BY <1>1
<1> QED BY <1>1, <1>2, <1>3

LEMMA RecentIsNext ==
    ASSUME TypeOK'
    PROVE  /\ Recent' \in Seq({ItemAtNext(n) : n \in Address})
           /\ Len(Recent') = Len(visit')
           /\ DOMAIN Recent' = 1 .. Len(visit')
           /\ \A i \in 1 .. Len(visit') : Recent'[i] = ItemAtNext(visit'[i])
<1>1. DOMAIN visit' = 1 .. Len(visit') /\ Len(visit') \in Nat
      /\ \A i \in 1 .. Len(visit') : visit'[i] \in Address
  BY DEF TypeOK
<1>2. Recent' = [i \in 1 .. Len(visit') |-> ItemAtNext(visit'[i])]
  BY <1>1 DEF Recent, ItemAtNext
<1>3. \A i \in 1 .. Len(visit') :
        ItemAtNext(visit'[i]) \in {ItemAtNext(n) : n \in Address}
  BY <1>1
<1> QED BY <1>1, <1>2, <1>3

LEMMA PushFrontIs ==
    ASSUME NEW S, NEW s \in Seq(S), NEW n \in S
    PROVE  /\ <<n>> \o s \in Seq(S) /\ Len(<<n>> \o s) = Len(s) + 1
           /\ \A i \in 1 .. Len(s) + 1 :
                (<<n>> \o s)[i] = IF i = 1 THEN n ELSE s[i - 1]
OBVIOUS

LEMMA ConcatIs ==
    ASSUME NEW S, NEW s \in Seq(S), NEW t \in Seq(S)
    PROVE  /\ s \o t \in Seq(S) /\ Len(s \o t) = Len(s) + Len(t)
           /\ \A i \in 1 .. Len(s) + Len(t) :
                (s \o t)[i] = IF i <= Len(s) THEN s[i] ELSE t[i - Len(s)]
OBVIOUS

LEMMA SeqGrows ==
    ASSUME NEW S, NEW T, S \subseteq T, NEW s \in Seq(S)
    PROVE  s \in Seq(T)
<1>1. s \in [1 .. Len(s) -> S] /\ Len(s) \in Nat
  BY LenProperties
<1>2. s \in [1 .. Len(s) -> T]
  BY <1>1
<1> QED BY <1>1, <1>2

(* One element of s comes to the front, changed.                           *)
LEMMA ToFront ==
    ASSUME NEW S, NEW s \in Seq(S), NEW p \in 1 .. Len(s), NEW x \in S,
           NEW t \in Seq(S), Len(t) = Len(s), t[1] = x,
           \A i \in 2 .. Len(s) : t[i] = IF i - 1 < p THEN s[i - 1] ELSE s[i]
    PROVE  t = <<x>> \o SubSeq(s, 1, p - 1) \o SubSeq(s, p + 1, Len(s))
<1>0. /\ Len(s) \in Nat /\ p \in Int /\ p - 1 \in Int /\ p + 1 \in Int
      /\ \A i \in 1 .. Len(s) : s[i] \in S
  OBVIOUS
<1>1. PICK a : a = SubSeq(s, 1, p - 1)
  OBVIOUS
<1>2. PICK b : b = SubSeq(s, p + 1, Len(s))
  OBVIOUS
<1>3. /\ a \in Seq(S) /\ Len(a) = p - 1
      /\ \A i \in 1 .. p - 1 : a[i] = s[i]
  <2>1. \A i \in 1 .. p - 1 : s[i] \in S
    BY <1>0
  <2>2. /\ a \in Seq(S)
        /\ Len(a) = IF 1 <= p - 1 THEN p - 1 - 1 + 1 ELSE 0
        /\ \A i \in 1 .. p - 1 - 1 + 1 : a[i] = s[1 + i - 1]
    BY <1>0, <1>1, <2>1, SubSeqProperties
  <2> QED BY <1>0, <2>2
<1>4. /\ b \in Seq(S) /\ Len(b) = Len(s) - p
      /\ \A i \in 1 .. Len(s) - p : b[i] = s[p + i]
  <2>1. \A i \in p + 1 .. Len(s) : s[i] \in S
    BY <1>0
  <2>2. /\ b \in Seq(S)
        /\ Len(b) = IF p + 1 <= Len(s) THEN Len(s) - (p + 1) + 1 ELSE 0
        /\ \A i \in 1 .. Len(s) - (p + 1) + 1 : b[i] = s[p + 1 + i - 1]
    BY <1>0, <1>2, <2>1, SubSeqProperties
  <2>3. Len(s) - (p + 1) + 1 = Len(s) - p
    BY <1>0
  <2>4. \A i \in 1 .. Len(s) - p : p + 1 + i - 1 = p + i
    BY <1>0
  <2> QED BY <1>0, <2>2, <2>3, <2>4
<1>y. PICK y : y = <<x>> \o a
  OBVIOUS
<1>z. y \in Seq(S) /\ Len(y) = p /\ y[1] = x /\ \A i \in 2 .. p : y[i] = a[i - 1]
  <2>1. /\ y \in Seq(S) /\ Len(y) = Len(a) + 1
        /\ \A i \in 1 .. Len(a) + 1 : y[i] = IF i = 1 THEN x ELSE a[i - 1]
    BY <1>3, <1>y, PushFrontIs
  <2> QED BY <1>0, <1>3, <2>1
<1>5. PICK u : u = y \o b
  OBVIOUS
<1>6. /\ u \in Seq(S) /\ Len(u) = Len(s) /\ u[1] = x
      /\ \A i \in 2 .. p : u[i] = a[i - 1]
      /\ \A i \in p + 1 .. Len(s) : u[i] = b[i - p]
  <2>1. /\ u \in Seq(S) /\ Len(u) = Len(y) + Len(b)
        /\ \A i \in 1 .. Len(y) + Len(b) :
             u[i] = IF i <= Len(y) THEN y[i] ELSE b[i - Len(y)]
    BY <1>4, <1>z, <1>5, ConcatIs
  <2>2. p + Len(b) = Len(s)
    BY <1>0, <1>4
  <2> QED BY <1>0, <1>z, <2>1, <2>2
<1>7. ASSUME NEW i \in 1 .. Len(s)
      PROVE  t[i] = u[i]
  <2>1. CASE i = 1
    BY <1>6, <2>1
  <2>2. CASE i \in 2 .. p
    <3>1. i \in 2 .. Len(s) /\ i - 1 < p /\ i - 1 \in 1 .. p - 1
      BY <2>2
    <3> QED BY <1>3, <1>6, <2>2, <3>1
  <2>3. CASE i \in p + 1 .. Len(s)
    <3>1. /\ i \in 2 .. Len(s) /\ ~(i - 1 < p) /\ i - p \in 1 .. Len(s) - p
          /\ p + (i - p) = i
      BY <1>0, <2>3
    <3> QED BY <1>4, <1>6, <2>3, <3>1
  <2> QED BY <2>1, <2>2, <2>3
<1>9. t = u
  BY <1>6, <1>7, SeqEqual
<1> QED BY <1>1, <1>2, <1>y, <1>5, <1>9

(* Where an entry is in m_visit, and where it is after Move.               *)
LEMMA MoveOrder ==
    ASSUME Inv, NEW k \in DOMAIN index, NEW n \in Address, NEW e, Move(k, n, e)
    PROVE  \E p \in 1 .. Len(visit) :
             /\ visit[p] = index[k].at
             /\ \A i \in 1 .. Len(visit) : visit[i] = index[k].at => i = p
             /\ Len(visit') = Len(visit)
             /\ visit'[1] = n
             /\ \A i \in 2 .. Len(visit) :
                  visit'[i] = IF i - 1 < p THEN visit[i - 1] ELSE visit[i]
<1>o. PICK o : o = index[k].at
  OBVIOUS
<1>1. /\ DOMAIN visit = 1 .. Len(visit) /\ Len(visit) \in Nat
      /\ visit \in Seq(Address) /\ o \in Members(visit) /\ Injective(visit)
  BY <1>o DEF Inv, TypeOK, IndexMatchesList, Injective
<1>2. PICK p \in 1 .. Len(visit) :
        p = CHOOSE i \in DOMAIN visit : visit[i] = o
  BY <1>1 DEF Members
<1>3. visit[p] = o
  BY <1>1, <1>2 DEF Members
<1>4. \A i \in 1 .. Len(visit) : visit[i] = o => i = p
  BY <1>1, <1>3 DEF Injective
<1>5. PICK r : r = Erase(visit, o)
  OBVIOUS
<1>6. r = [i \in 1 .. Len(visit) - 1 |-> IF i < p THEN visit[i] ELSE visit[i + 1]]
  BY <1>2, <1>5 DEF Erase
<1>7. r \in Seq(Address) /\ Len(r) = Len(visit) - 1
  BY <1>1, <1>5, EraseLemma
<1>8. PICK y : y = <<n>> \o r
  OBVIOUS
<1>v. visit' = y
  BY <1>o, <1>5, <1>8 DEF Move, PushFront
<1>z. /\ Len(y) = Len(r) + 1
      /\ \A i \in 1 .. Len(r) + 1 : y[i] = IF i = 1 THEN n ELSE r[i - 1]
  BY <1>7, <1>8, PushFrontIs
<1>l. Len(r) + 1 = Len(visit) /\ 1 \in 1 .. Len(visit)
  BY <1>1, <1>7
<1>9. Len(visit') = Len(visit) /\ visit'[1] = n
  BY <1>v, <1>z, <1>l
<1>10. ASSUME NEW i \in 2 .. Len(visit)
       PROVE  visit'[i] = IF i - 1 < p THEN visit[i - 1] ELSE visit[i]
  <2>1. /\ i - 1 \in 1 .. Len(visit) - 1 /\ i - 1 + 1 = i
        /\ i \in 1 .. Len(visit) /\ i # 1
    BY <1>1
  <2>2. visit'[i] = r[i - 1]
    BY <1>v, <1>z, <1>l, <2>1
  <2> QED BY <1>6, <2>1, <2>2
<1> QED BY <1>o, <1>3, <1>4, <1>9, <1>10

(* A known key is used: it comes to the front of what the reader sees.     *)
LEMMA MoveIsUse ==
    ASSUME Inv, Inv', NEW k \in DOMAIN index, NEW n \in Address, NEW e, NEW v,
           Move(k, n, e), text' = text,
           node'[n] = e, e.name = node[index[k].at].name, bytes'[e.data].val = v,
           \A m \in DOMAIN node \ {index[k].at} :
             node'[m] = node[m] /\ bytes'[node[m].data] = bytes[node[m].data]
    PROVE  \E p \in DOMAIN Recent :
             /\ Recent[p] = ItemAt(index[k].at)
             /\ Recent[p].key = k
             /\ Promise!Use(p, v)
<1>o. PICK o : o = index[k].at
  OBVIOUS
<1>1. PICK p \in 1 .. Len(visit) :
        /\ visit[p] = o
        /\ \A i \in 1 .. Len(visit) : visit[i] = o => i = p
        /\ Len(visit') = Len(visit)
        /\ visit'[1] = n
        /\ \A i \in 2 .. Len(visit) :
             visit'[i] = IF i - 1 < p THEN visit[i - 1] ELSE visit[i]
  BY <1>o, MoveOrder
<1>2. /\ DOMAIN visit = 1 .. Len(visit) /\ Len(visit) \in Nat
      /\ Recent \in Seq({ItemAt(m) : m \in Address})
      /\ Len(Recent) = Len(visit) /\ DOMAIN Recent = 1 .. Len(visit)
      /\ \A i \in 1 .. Len(visit) : Recent[i] = ItemAt(visit[i])
  BY RecentIs DEF Inv
<1>3. /\ Recent' \in Seq({ItemAtNext(m) : m \in Address})
      /\ Len(Recent') = Len(visit')
      /\ \A i \in 1 .. Len(visit') : Recent'[i] = ItemAtNext(visit'[i])
  BY RecentIsNext DEF Inv
<1>4. \A m \in DOMAIN node \ {o} : ItemAtNext(m) = ItemAt(m)
  BY <1>o DEF ItemAt, ItemAtNext
<1>5. \A i \in 1 .. Len(visit) : i # p => visit[i] \in DOMAIN node \ {o}
  BY <1>1, <1>2 DEF Inv, IndexMatchesList, Members
<1>6. text[node[o].name] = k
  BY <1>o DEF Inv, IndexMatchesList
<1>7. PICK x : x = [Recent[p] EXCEPT !.val = v]
  OBVIOUS
<1>8. Recent[p] = ItemAt(o) /\ Recent[p].key = k
  BY <1>1, <1>2, <1>6 DEF ItemAt
<1>9. x = ItemAtNext(n)
  BY <1>o, <1>6, <1>7, <1>8 DEF ItemAt, ItemAtNext
<1>10. \A i \in 2 .. Len(visit) :
         Recent'[i] = IF i - 1 < p THEN Recent[i - 1] ELSE Recent[i]
  <2> SUFFICES ASSUME NEW i \in 2 .. Len(visit)
               PROVE  Recent'[i] = IF i - 1 < p THEN Recent[i - 1] ELSE Recent[i]
    OBVIOUS
  <2>1. i \in 1 .. Len(visit) /\ i - 1 \in 1 .. Len(visit)
    BY <1>2
  <2>2. Recent'[i] = ItemAtNext(visit'[i])
    BY <1>1, <1>3, <2>1
  <2>3. CASE i - 1 < p
    <3>1. visit'[i] = visit[i - 1] /\ i - 1 # p
      BY <1>1, <2>3
    <3> QED BY <1>2, <1>4, <1>5, <2>1, <2>2, <2>3, <3>1
  <2>4. CASE ~(i - 1 < p)
    <3>1. visit'[i] = visit[i] /\ i # p
      BY <1>1, <2>4
    <3> QED BY <1>2, <1>4, <1>5, <2>1, <2>2, <2>4, <3>1
  <2> QED BY <2>3, <2>4
<1>11. Recent'[1] = x
  BY <1>1, <1>2, <1>3, <1>9
<1>12. Recent' = <<x>> \o SubSeq(Recent, 1, p - 1)
                 \o SubSeq(Recent, p + 1, Len(Recent))
  <2>1. PICK R : R = {ItemAt(m) : m \in Address} \cup {ItemAtNext(m) : m \in Address}
    OBVIOUS
  <2>2. PICK q \in Seq(R) : q = Recent
    <3>1. PICK q \in Seq({ItemAt(m) : m \in Address}) : q = Recent
      BY <1>2
    <3> QED BY <2>1, <3>1, SeqGrows
  <2>3. PICK t \in Seq(R) : t = Recent'
    <3>1. PICK t \in Seq({ItemAtNext(m) : m \in Address}) : t = Recent'
      BY <1>3
    <3> QED BY <2>1, <3>1, SeqGrows
  <2>4. x \in R
    BY <1>9, <2>1
  <2>5. /\ p \in 1 .. Len(q) /\ Len(t) = Len(q) /\ t[1] = x
        /\ \A i \in 2 .. Len(q) : t[i] = IF i - 1 < p THEN q[i - 1] ELSE q[i]
    BY <1>1, <1>2, <1>3, <1>10, <1>11, <2>2, <2>3
  <2>6. t = <<x>> \o SubSeq(q, 1, p - 1) \o SubSeq(q, p + 1, Len(q))
    BY <2>4, <2>5, ToFront
  <2> QED BY <2>2, <2>3, <2>6
<1> QED BY <1>o, <1>2, <1>7, <1>8, <1>12 DEF Promise!Use

(* set of a known key, with its old buffer or a new one.                   *)
LEMMA SetFoundIsSet ==
    ASSUME Inv, Inv', NEW k \in Key, NEW v \in Value, SetFound(k, v), out' = out
    PROVE  Promise!Set(k, v)
<1>o. PICK o : o = index[k].at
  OBVIOUS
<1>e. PICK e : e = node[o]
  OBVIOUS
<1>1. k \in DOMAIN index /\ text' = text
  BY DEF SetFound
<1>2. o \in DOMAIN node
  BY <1>o, <1>1 DEF Inv, IndexMatchesList
<1>3. /\ e \in NodeRecord /\ e.data \in DOMAIN bytes
      /\ bytes[e.data] \in BufferRecord
      /\ \A m \in DOMAIN node \ {o} :
           node[m].data \in DOMAIN bytes /\ node[m].data # e.data
  <2>1. \A m \in DOMAIN node : node[m].data \in DOMAIN bytes
    BY DEF Inv, BuffersOwnedOnce
  <2> QED BY <1>e, <1>2, <2>1, EntryOwns
<1>4. PICK n, f :
        /\ n \in Address /\ Move(k, n, f)
        /\ f.name = e.name
        /\ bytes'[f.data].val = v
        /\ \A c \in DOMAIN bytes \ {e.data} : bytes'[c] = bytes[c]
  <2>1. CASE Reuses(e, v)
    <3>1. bytes' = [bytes EXCEPT ![e.data].val = v]
      BY <1>o, <1>e, <2>1 DEF SetFound
    <3>2. PICK n \in Address : Move(k, n, e)
      BY <1>o, <1>e, <2>1 DEF SetFound
    <3>3. /\ bytes'[e.data].val = v
          /\ \A c \in DOMAIN bytes \ {e.data} : bytes'[c] = bytes[c]
      BY <1>3, <3>1 DEF BufferRecord
    <3> QED BY <3>2, <3>3
  <2>2. CASE ~Reuses(e, v)
    <3>1. PICK n \in Address, b \in Address \ (DOMAIN bytes \ {e.data}) :
            /\ bytes' = Replace(bytes, e.data, b, [cap |-> Size[v], val |-> v])
            /\ Move(k, n, [e EXCEPT !.data = b, !.len = Size[v]])
      BY <1>o, <1>e, <2>2 DEF SetFound
    <3>2. PICK f : f = [e EXCEPT !.data = b, !.len = Size[v]]
      OBVIOUS
    <3>3. f.name = e.name /\ f.data = b
      BY <1>3, <3>2 DEF NodeRecord
    <3>4. Move(k, n, f)
      BY <3>1, <3>2
    <3>5. PICK x : x = [cap |-> Size[v], val |-> v]
      OBVIOUS
    <3>6. bytes' = Alloc(Free(bytes, {e.data}), b, x)
      BY <3>1, <3>5 DEF Replace
    <3>7. bytes'[b] = x /\ \A c \in DOMAIN bytes \ {e.data} : bytes'[c] = bytes[c]
      BY <3>1, <3>6 DEF Alloc, Free
    <3>8. bytes'[f.data].val = v
      BY <3>3, <3>5, <3>7
    <3> QED BY <3>3, <3>4, <3>7, <3>8
  <2> QED BY <2>1, <2>2
<1>5. /\ node'[n] = f
      /\ \A m \in DOMAIN node \ {o} : node'[m] = node[m]
  <2>1. node' = Alloc(Free(node, {o}), n, f) /\ n \notin DOMAIN node \ {o}
    BY <1>o, <1>4 DEF Move, Replace
  <2> QED BY <2>1 DEF Alloc, Free
<1>6. \A m \in DOMAIN node \ {index[k].at} :
        node'[m] = node[m] /\ bytes'[node[m].data] = bytes[node[m].data]
  BY <1>o, <1>3, <1>4, <1>5
<1>7. \E p \in DOMAIN Recent :
        /\ Recent[p] = ItemAt(index[k].at)
        /\ Recent[p].key = k
        /\ Promise!Use(p, v)
  <2>1. f.name = node[index[k].at].name
    BY <1>o, <1>e, <1>4
  <2> QED BY <1>1, <1>4, <1>5, <1>6, <2>1, MoveIsUse
<1> QED BY <1>7 DEF Promise!Set

(* get of a known key.                                                     *)
LEMMA GetFoundIsGet ==
    ASSUME Inv, Inv', NEW k \in Key, GetFound(k)
    PROVE  Promise!Get(k)
<1>o. PICK o : o = index[k].at
  OBVIOUS
<1>e. PICK e : e = node[o]
  OBVIOUS
<1>v. PICK v : v = bytes[e.data].val
  OBVIOUS
<1>1. k \in DOMAIN index /\ text' = text /\ bytes' = bytes /\ out' = v
  BY <1>o, <1>e, <1>v DEF GetFound
<1>2. PICK n \in Address : Move(k, n, e)
  BY <1>o, <1>e DEF GetFound
<1>3. /\ node'[n] = e
      /\ \A m \in DOMAIN node \ {o} : node'[m] = node[m]
  <2>1. node' = Alloc(Free(node, {o}), n, e) /\ n \notin DOMAIN node \ {o}
    BY <1>o, <1>2 DEF Move, Replace
  <2> QED BY <2>1 DEF Alloc, Free
<1>4. PICK p \in DOMAIN Recent :
        /\ Recent[p] = ItemAt(index[k].at)
        /\ Recent[p].key = k
        /\ Promise!Use(p, v)
  <2>1. /\ e.name = node[index[k].at].name /\ bytes'[e.data].val = v
        /\ \A m \in DOMAIN node \ {index[k].at} :
             node'[m] = node[m] /\ bytes'[node[m].data] = bytes[node[m].data]
    BY <1>o, <1>e, <1>v, <1>1, <1>3
  <2> QED BY <1>1, <1>2, <1>3, <2>1, MoveIsUse
<1>5. Recent[p].val = v
  BY <1>o, <1>e, <1>v, <1>4 DEF ItemAt
<1> QED BY <1>1, <1>4, <1>5 DEF Promise!Get

(* The reader sees the keys of m_map.                                      *)
LEMMA UnknownIsNew ==
    ASSUME Inv, NEW k, k \notin DOMAIN index
    PROVE  ~Promise!Known(k)
<1>1. ASSUME NEW i \in DOMAIN Recent
      PROVE  Recent[i].key # k
  <2>1. i \in DOMAIN visit /\ Recent[i] = ItemAt(visit[i])
    BY RecentIs DEF Inv
  <2>2. visit[i] \in DOMAIN node
    BY <2>1 DEF Inv, IndexMatchesList, Members
  <2>3. PICK l \in DOMAIN index : index[l].at = visit[i]
    BY <2>2 DEF Inv, IndexMatchesList
  <2>4. text[node[visit[i]].name] = l
    BY <2>3 DEF Inv, IndexMatchesList
  <2> QED BY <2>1, <2>4 DEF ItemAt
<1> QED BY <1>1 DEF Promise!Known

(* What making room leaves are the entries used last.                      *)
LEMMA KeptIsFront ==
    ASSUME Inv, Capacity # 0, NEW r, r = Kept(visit)
    PROVE  /\ r \in Seq(Address)
           /\ Len(r) <= Len(visit)
           /\ Len(r) + 1 =
                IF Len(visit) + 1 < Capacity THEN Len(visit) + 1 ELSE Capacity
           /\ \A i \in 1 .. Len(r) : r[i] = visit[i]
<1>1. visit \in Seq(Address) /\ Len(visit) \in Nat /\ Len(visit) <= Capacity
  BY DEF Inv, TypeOK, Bounded
<1>2. Cardinality(DOMAIN index) = Len(visit) /\ Capacity \in Nat
  BY SizesAgree, CapacityAssumption DEF Inv
<1>3. CASE Len(visit) < Capacity
  BY <1>1, <1>2, <1>3 DEF Kept
<1>4. CASE Len(visit) = Capacity
  <2>1. /\ Len(visit) + Capacity - 1 - Len(visit) = Capacity - 1
        /\ Capacity - 1 \in 0 .. Len(visit) /\ ~(Len(visit) < Capacity)
    BY <1>1, <1>2, <1>4
  <2>2. r = SubSeq(visit, 1, Capacity - 1)
    BY <1>2, <2>1 DEF Kept
  <2>3. /\ r \in Seq(Address) /\ Len(r) = Capacity - 1
        /\ \A i \in 1 .. Capacity - 1 : r[i] = visit[i]
    BY <1>1, <2>1, <2>2
  <2> QED BY <1>1, <1>2, <1>4, <2>1, <2>3
<1> QED BY <1>1, <1>2, <1>3, <1>4

(* What set does to the other entries when the key is new: nothing, but to *)
(* those that make room.                                                   *)
LEMMA SetNewKeeps ==
    ASSUME Inv, Capacity # 0, NEW k \in Key, NEW v \in Value, SetNew(k, v),
           NEW r, r = Kept(visit)
    PROVE  \E n \in Address :
             /\ visit' = <<n>> \o r
             /\ ItemAtNext(n) = [key |-> k, val |-> v]
             /\ \A m \in Members(r) : ItemAtNext(m) = ItemAt(m)
<1>1. Members(r) \subseteq DOMAIN node /\ Members(visit) = DOMAIN node
  BY KeptLemma DEF Inv, IndexMatchesList
<1>d. PICK drop : drop = Members(visit) \ Members(r)
  OBVIOUS
<1>2. DOMAIN node \ drop = Members(r) /\ drop \subseteq DOMAIN node
  BY <1>d, <1>1
<1>n. PICK names : names = {node[m].name : m \in drop}
  OBVIOUS
<1>b. PICK datas : datas = {node[m].data : m \in drop}
  OBVIOUS
<1>3. PICK n \in Address \ (DOMAIN node \ drop),
           a \in Address \ (DOMAIN text \ names),
           b \in Address \ (DOMAIN bytes \ datas) :
        /\ text' = Alloc(Free(text, names), a, k)
        /\ bytes' = Alloc(Free(bytes, datas), b, [cap |-> Size[v], val |-> v])
        /\ node' = Alloc(Free(node, drop), n,
                         [name |-> a, data |-> b, len |-> Size[v]])
        /\ visit' = PushFront(r, n)
  BY <1>d, <1>n, <1>b DEF SetNew
<1>e. PICK e : e = [name |-> a, data |-> b, len |-> Size[v]]
  OBVIOUS
<1>x. PICK x : x = [cap |-> Size[v], val |-> v]
  OBVIOUS
<1>4. e.name = a /\ e.data = b /\ x.val = v
  BY <1>e, <1>x
<1>5. /\ text' = Alloc(Free(text, names), a, k)
      /\ bytes' = Alloc(Free(bytes, datas), b, x)
      /\ node' = Alloc(Free(node, drop), n, e)
  BY <1>3, <1>e, <1>x
<1>6. node'[n] = e /\ \A m \in Members(r) : node'[m] = node[m]
  BY <1>2, <1>3, <1>5 DEF Alloc, Free
<1>7. text'[a] = k /\ \A c \in DOMAIN text \ names : text'[c] = text[c]
  BY <1>3, <1>5 DEF Alloc, Free
<1>8. bytes'[b] = x /\ \A c \in DOMAIN bytes \ datas : bytes'[c] = bytes[c]
  BY <1>3, <1>5 DEF Alloc, Free
<1>9. \A m \in Members(r) : /\ node[m].name \in DOMAIN text \ names
                            /\ node[m].data \in DOMAIN bytes \ datas
  BY <1>1, <1>2, <1>n, <1>b DEF Inv, BuffersOwnedOnce
<1>10. ItemAtNext(n) = [key |-> k, val |-> v]
  BY <1>4, <1>6, <1>7, <1>8 DEF ItemAtNext
<1>11. \A m \in Members(r) : ItemAtNext(m) = ItemAt(m)
  BY <1>6, <1>7, <1>8, <1>9 DEF ItemAt, ItemAtNext
<1>12. visit' = <<n>> \o r
  BY <1>3 DEF PushFront
<1> QED BY <1>10, <1>11, <1>12

(* set of a new key.                                                       *)
LEMMA SetNewIsSet ==
    ASSUME Inv, Inv', Capacity # 0, NEW k \in Key, NEW v \in Value,
           SetNew(k, v), out' = out
    PROVE  Promise!Set(k, v)
<1>r. PICK r : r = Kept(visit)
  OBVIOUS
<1>1. /\ r \in Seq(Address) /\ Len(r) <= Len(visit)
      /\ Len(r) + 1 =
           IF Len(visit) + 1 < Capacity THEN Len(visit) + 1 ELSE Capacity
      /\ \A i \in 1 .. Len(r) : r[i] = visit[i]
  BY <1>r, KeptIsFront
<1>2. PICK n \in Address :
        /\ visit' = <<n>> \o r
        /\ ItemAtNext(n) = [key |-> k, val |-> v]
        /\ \A m \in Members(r) : ItemAtNext(m) = ItemAt(m)
  BY <1>r, SetNewKeeps
<1>3. /\ Len(visit') = Len(r) + 1 /\ visit'[1] = n
      /\ \A i \in 2 .. Len(r) + 1 : visit'[i] = r[i - 1]
  <2>1. PICK y : y = <<n>> \o r
    OBVIOUS
  <2>2. /\ Len(y) = Len(r) + 1
        /\ \A i \in 1 .. Len(r) + 1 : y[i] = IF i = 1 THEN n ELSE r[i - 1]
    BY <1>1, <2>1, PushFrontIs
  <2>3. visit' = y /\ Len(r) \in Nat
    BY <1>1, <1>2, <2>1
  <2> QED BY <2>2, <2>3
<1>x. PICK x : x = [key |-> k, val |-> v]
  OBVIOUS
<1>R. PICK R : R = {ItemAt(m) : m \in Address} \cup {ItemAtNext(m) : m \in Address}
  OBVIOUS
<1>4. PICK q \in Seq(R) :
        /\ q = Recent /\ Len(q) = Len(visit)
        /\ \A i \in 1 .. Len(visit) : q[i] = ItemAt(visit[i])
  <2>1. PICK q \in Seq({ItemAt(m) : m \in Address}) : q = Recent
    BY RecentIs DEF Inv
  <2>2. q \in Seq(R)
    BY <1>R, <2>1, SeqGrows
  <2> QED BY <2>1, <2>2, RecentIs DEF Inv
<1>5. PICK t \in Seq(R) :
        /\ t = Recent' /\ Len(t) = Len(r) + 1
        /\ \A i \in 1 .. Len(r) + 1 : t[i] = ItemAtNext(visit'[i])
  <2>1. PICK t \in Seq({ItemAtNext(m) : m \in Address}) : t = Recent'
    BY RecentIsNext DEF Inv
  <2>2. t \in Seq(R)
    BY <1>R, <2>1, SeqGrows
  <2> QED BY <1>3, <2>1, <2>2, RecentIsNext DEF Inv
<1>6. Len(r) \in Nat /\ Len(visit) \in Nat
  BY <1>1 DEF Inv, TypeOK
<1>7. t[1] = x
  BY <1>2, <1>3, <1>5, <1>6, <1>x
<1>8. ASSUME NEW i \in 2 .. Len(r) + 1
      PROVE  t[i] = q[i - 1]
  <2>1. i \in 1 .. Len(r) + 1 /\ i - 1 \in 1 .. Len(r) /\ i - 1 \in 1 .. Len(visit)
    BY <1>1, <1>6
  <2>2. t[i] = ItemAtNext(r[i - 1]) /\ r[i - 1] = visit[i - 1]
    BY <1>1, <1>3, <1>5, <2>1
  <2>3. r[i - 1] \in Members(r)
    BY <1>1, <2>1 DEF Members
  <2> QED BY <1>2, <1>4, <2>1, <2>2, <2>3
<1>9. x \in R
  <2>1. ItemAtNext(n) \in R
    BY <1>R
  <2> QED BY <1>2, <1>x, <2>1
<1>10. PICK all : all = <<x>> \o q
  OBVIOUS
<1>11. /\ all \in Seq(R) /\ Len(all) = Len(visit) + 1
       /\ \A i \in 1 .. Len(visit) + 1 : all[i] = IF i = 1 THEN x ELSE q[i - 1]
  <2>1. /\ all \in Seq(R) /\ Len(all) = Len(q) + 1
        /\ \A i \in 1 .. Len(q) + 1 : all[i] = IF i = 1 THEN x ELSE q[i - 1]
    BY <1>9, <1>10, PushFrontIs
  <2> QED BY <1>4, <2>1
<1>12. PICK c : c = SubSeq(all, 1, Len(r) + 1)
  OBVIOUS
<1>13. /\ c \in Seq(R) /\ Len(c) = Len(r) + 1
       /\ \A i \in 1 .. Len(r) + 1 : c[i] = all[i]
  <2>1. Len(r) + 1 \in 0 .. Len(all)
    BY <1>1, <1>6, <1>11
  <2> QED BY <1>11, <1>12, <2>1
<1>14. ASSUME NEW i \in 1 .. Len(r) + 1
       PROVE  t[i] = c[i]
  <2>1. i \in 1 .. Len(visit) + 1
    BY <1>1, <1>6
  <2>2. c[i] = IF i = 1 THEN x ELSE q[i - 1]
    BY <1>11, <1>13, <2>1
  <2>3. i # 1 => i \in 2 .. Len(r) + 1
    BY <1>6
  <2> QED BY <1>7, <1>8, <2>2, <2>3
<1>15. t = c
  BY <1>5, <1>13, <1>14, SeqEqual
<1>16. Promise!Enter(x)
  <2>1. Len(r) + 1 = IF Len(all) < Capacity THEN Len(all) ELSE Capacity
    BY <1>1, <1>11
  <2>2. Recent' = SubSeq(all, 1, Len(r) + 1)
    BY <1>5, <1>12, <1>15
  <2>3. all = <<x>> \o Recent
    BY <1>4, <1>10
  <2> QED BY <2>1, <2>2, <2>3 DEF Promise!Enter
<1>17. ~Promise!Known(k)
  BY UnknownIsNew DEF SetNew
<1> QED BY <1>16, <1>17, <1>x DEF Promise!Set

(* A cache without room stays empty.                                       *)
LEMMA NoRoomIsSet ==
    ASSUME Inv, Capacity = 0, NEW k \in Key, NEW v \in Value,
           UNCHANGED <<index, visit, node, text, bytes, out>>
    PROVE  Promise!Set(k, v)
<1>1. Len(visit) = 0 /\ DOMAIN visit = {}
  <2>1. Len(visit) \in Nat /\ Len(visit) <= 0 /\ DOMAIN visit = 1 .. Len(visit)
    BY DEF Inv, TypeOK, Bounded
  <2> QED BY <2>1
<1>2. Recent = <<>> /\ Recent' = <<>>
  <2>1. Recent' = Recent
    BY DEF Recent
  <2>2. Recent = <<>>
    BY <1>1 DEF Recent
  <2> QED BY <2>1, <2>2
<1>3. ~Promise!Known(k)
  BY <1>2 DEF Promise!Known
<1>x. PICK x : x = [key |-> k, val |-> v]
  OBVIOUS
<1>4. Promise!Enter(x)
  <2>1. PICK all : all = <<x>> \o Recent
    OBVIOUS
  <2>2. all = <<x>>
    BY <1>2, <2>1
  <2>3. Len(all) = 1
    BY <2>2
  <2>4. SubSeq(all, 1, 0) = <<>>
    BY SubSeqEmpty
  <2> QED BY <1>2, <2>1, <2>3, <2>4 DEF Promise!Enter
<1> QED BY <1>3, <1>4, <1>x DEF Promise!Set

(* AHostsCache is a map of at most CacheSize answers that forgets the one  *)
(* unused for the longest time, and get returns the last one set.          *)
THEOREM IsAnLru == Spec => IsLru
<1>1. Init => Promise!Init
  <2>1. Init => Recent = <<>>
    BY DEF Init, Recent
  <2> QED BY <2>1 DEF Init, Promise!Init
<1>2. ASSUME Inv, Inv', [Next]_vars
      PROVE  [Promise!Next]_Promise!lvars
  <2>1. ASSUME NEW k \in Key, NEW v \in Value, Set(k, v)
        PROVE  Promise!Next
    <3>1. out' = out
      BY <2>1 DEF Set
    <3>2. Promise!Set(k, v)
      BY <1>2, <2>1, <3>1, SetFoundIsSet, SetNewIsSet, NoRoomIsSet DEF Set
    <3> QED BY <3>2 DEF Promise!Next
  <2>2. ASSUME NEW k \in Key, Get(k)
        PROVE  Promise!Next
    <3>1. CASE GetFound(k)
      <4>1. Promise!Get(k)
        BY <1>2, <3>1, GetFoundIsGet
      <4> QED BY <4>1 DEF Promise!Next
    <3>2. CASE GetMissed(k)
      <4>1. Recent' = Recent
        BY <3>2 DEF GetMissed, Recent
      <4>2. ~Promise!Known(k)
        BY <1>2, <3>2, UnknownIsNew DEF GetMissed
      <4>3. Promise!Get(k)
        BY <3>2, <4>1, <4>2 DEF GetMissed, Promise!Get
      <4> QED BY <4>3 DEF Promise!Next
    <3> QED BY <2>2, <3>1, <3>2 DEF Get
  <2>3. CASE Destroy
    <3>1. Recent' = <<>> /\ out' = out
      BY <2>3 DEF Destroy, Recent
    <3> QED BY <3>1 DEF Promise!Next, Promise!Forget
  <2>4. CASE UNCHANGED vars
    <3>1. Recent' = Recent /\ out' = out
      BY <2>4 DEF vars, Recent
    <3> QED BY <3>1 DEF Promise!lvars
  <2> QED BY <1>2, <2>1, <2>2, <2>3, <2>4 DEF Next
<1> QED BY <1>1, <1>2, Invariance, PTL DEF Spec, IsLru, Promise!Spec
=============================================================================
