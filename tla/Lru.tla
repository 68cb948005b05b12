-------------------------------- MODULE Lru --------------------------------
(***************************************************************************)
(* What AHostsCache promises: a map of at most Capacity keys that forgets  *)
(* the key it has not been asked for, nor told of, for the longest time.   *)
(***************************************************************************)
EXTENDS Naturals, Sequences

CONSTANTS Key, Value, Capacity, Miss

VARIABLES
    recent, \* the keys and their values, the one used last in front
    out     \* what the last get returned

lvars == <<recent, out>>

Init == recent = <<>> /\ out = Miss

(* The item in place i is used again: it comes to the front with value v.  *)
Use(i, v) ==
    recent' = <<[recent[i] EXCEPT !.val = v]>>
              \o SubSeq(recent, 1, i - 1) \o SubSeq(recent, i + 1, Len(recent))

(* A new item comes to the front; what is beyond Capacity is forgotten.    *)
Enter(item) ==
    LET all == <<item>> \o recent
    IN  recent' = SubSeq(all, 1, IF Len(all) < Capacity THEN Len(all) ELSE Capacity)

Known(k) == \E i \in DOMAIN recent : recent[i].key = k

Set(k, v) ==
    /\ \/ \E i \in DOMAIN recent : recent[i].key = k /\ Use(i, v)
       \/ ~Known(k) /\ Enter([key |-> k, val |-> v])
    /\ UNCHANGED out

Get(k) ==
    \/ ~Known(k) /\ out' = Miss /\ UNCHANGED recent
    \/ \E i \in DOMAIN recent :
         /\ recent[i].key = k
         /\ Use(i, recent[i].val)
         /\ out' = recent[i].val

Forget == recent' = <<>> /\ UNCHANGED out

Next ==
    \/ \E k \in Key, v \in Value : Set(k, v)
    \/ \E k \in Key : Get(k)
    \/ Forget

Spec == Init /\ [][Next]_lvars
=============================================================================
