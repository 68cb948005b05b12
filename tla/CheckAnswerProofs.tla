------------------------- MODULE CheckAnswerProofs -------------------------
(***************************************************************************)
(* Proofs about CheckAnswer, for every message and every set of names.     *)
(***************************************************************************)
EXTENDS CheckAnswer, TLAPS

(* What the map tells, a record has said ...                               *)
MapSound ==
    \A n \in DOMAIN ansmap :
      /\ ansmap[n] = Answered => IsAsked(n)
      /\ ansmap[n] # Answered =>
           \E i \in DOMAIN packet : /\ packet[i].kind = "cname"
                                    /\ packet[i].owner = n
                                    /\ packet[i].target = ansmap[n]

(* ... and what the records before pos have said, the map tells.           *)
MapComplete ==
    \A i \in DOMAIN packet : i < pos =>
      /\ packet[i].kind # "bad"
      /\ packet[i].kind = "asked" => /\ packet[i].owner \in DOMAIN ansmap
                                     /\ ansmap[packet[i].owner] = Answered
      /\ packet[i].kind = "cname" => packet[i].owner \in DOMAIN ansmap

SoaExact ==
    /\ soa => HasSoa
    /\ \A i \in DOMAIN packet : i < pos /\ packet[i].soa => soa

(* The walk stays among the names that the one asked for stands for.       *)
WalkInv ==
    status = "following" => pos = Len(packet) + 1 /\ StandsFor(cur)

Inv ==
    /\ TypeOK /\ MapSound /\ MapComplete /\ SoaExact /\ WalkInv
    /\ AcceptsOnlyComplete /\ RefusesOnlyBroken

(* The reference depends on the message alone.                             *)
LEMMA SameReference ==
    ASSUME UNCHANGED <<packet, question>>
    PROVE  /\ \A n : IsAsked(n)' <=> IsAsked(n)
           /\ \A n, m : Leads(n, m)' <=> Leads(n, m)
           /\ \A n : StandsFor(n)' <=> StandsFor(n)
           /\ HasSoa' <=> HasSoa
           /\ HasBad' <=> HasBad
<1>1. \A n : IsAsked(n)' <=> IsAsked(n)
  BY DEF IsAsked
<1>2. \A n, m : Leads(n, m)' <=> Leads(n, m)
  BY <1>1 DEF Leads
<1>3. \A S : Closed(S)' <=> Closed(S)
  BY <1>2 DEF Closed
<1>4. \A n : StandsFor(n)' <=> StandsFor(n)
  BY <1>3 DEF StandsFor
<1>5. (HasSoa' <=> HasSoa) /\ (HasBad' <=> HasBad)
  BY DEF HasSoa, HasBad
<1> QED BY <1>1, <1>2, <1>4, <1>5

LEMMA InitInv == Init => Inv
<1> SUFFICES ASSUME Init PROVE Inv
  OBVIOUS
<1>1. packet \in Seq(Record)
  BY NameAssumption DEF Init
<1>2. pos \in 1 .. Len(packet) + 1
  BY <1>1 DEF Init
<1>3. TypeOK
  BY <1>1, <1>2 DEF Init, TypeOK
<1>4. MapSound
  BY DEF Init, MapSound
<1>5. \A i \in DOMAIN packet : ~(i < pos)
  BY <1>1 DEF Init
<1> QED BY <1>3, <1>4, <1>5
        DEF Inv, Init, MapComplete, SoaExact, WalkInv, AcceptsOnlyComplete,
            RefusesOnlyBroken

LEMMA RefuseInv == ASSUME Inv, Refuse PROVE Inv'
<1>1. /\ UNCHANGED <<packet, question, pos, soa, ansmap, cur>>
      /\ status' = "done" /\ verdict' = FALSE /\ question = NoQuestion
  BY DEF Refuse, Return
<1>2. TypeOK'
  BY <1>1 DEF Inv, TypeOK
<1>3. MapSound' /\ MapComplete' /\ SoaExact'
  BY <1>1, SameReference DEF Inv, MapSound, MapComplete, SoaExact
<1> QED BY <1>1, <1>2, <1>3
        DEF Inv, WalkInv, AcceptsOnlyComplete, RefusesOnlyBroken

LEMMA CollectInv == ASSUME Inv, Collect PROVE Inv'
<1> DEFINE r == packet[pos]
<1>1. /\ packet \in Seq(Record) /\ pos \in DOMAIN packet /\ r \in Record
      /\ Len(packet) \in Nat /\ pos \in Nat
      /\ DOMAIN packet = 1 .. Len(packet)
  <2>1. packet \in Seq(Record) /\ pos \in 1 .. Len(packet) + 1
    BY DEF Inv, TypeOK
  <2>2. pos \in DOMAIN packet
    BY <2>1 DEF Collect
  <2> QED BY <2>1, <2>2
<1>2. UNCHANGED <<packet, question, cur>> /\ soa' = (soa \/ r.soa)
  BY DEF Collect
<1>3. SoaExact' \/ r.kind # "bad"
  <2>1. CASE r.kind = "bad"
    <3>1. pos' = pos
      BY <2>1 DEF Collect
    <3>2. soa' => HasSoa
      BY <1>1, <1>2 DEF Inv, SoaExact, HasSoa
    <3> QED BY <1>2, <3>1, <3>2, SameReference DEF Inv, SoaExact
  <2> QED BY <2>1
<1>4. CASE r.kind = "bad"
  <2>1. /\ UNCHANGED <<pos, ansmap>> /\ status' = "done" /\ verdict' = FALSE
    BY <1>4 DEF Collect, Return
  <2>2. soa' \in BOOLEAN
    BY <1>1, <1>2 DEF Inv, TypeOK, Record
  <2>3. TypeOK'
    BY <1>2, <2>1, <2>2 DEF Inv, TypeOK
  <2>4. MapSound' /\ MapComplete'
    BY <1>2, <2>1, SameReference DEF Inv, MapSound, MapComplete
  <2>5. HasBad'
    BY <1>1, <1>2, <1>4 DEF HasBad
  <2> QED BY <1>3, <1>4, <2>1, <2>3, <2>4, <2>5
          DEF Inv, WalkInv, AcceptsOnlyComplete, RefusesOnlyBroken
<1>5. CASE r.kind # "bad"
  <2>1. /\ ansmap' = Entered(ansmap, r) /\ pos' = pos + 1
        /\ status' = "collecting" /\ verdict' = verdict
    BY <1>5 DEF Collect
  <2>2. r.owner \in Name /\ r.target \in Name /\ r.soa \in BOOLEAN
    BY <1>1 DEF Record
  <2>3. TypeOK'
    <3>1. pos' \in 1 .. Len(packet') + 1
      BY <1>1, <1>2, <2>1
    <3>2. /\ DOMAIN ansmap' \subseteq Name
          /\ \A n \in DOMAIN ansmap' : ansmap'[n] \in Name \cup {Answered}
      BY <2>1, <2>2 DEF Inv, TypeOK, Entered, With
    <3>3. soa' \in BOOLEAN
      BY <1>2, <2>2 DEF Inv, TypeOK
    <3> QED BY <1>2, <2>1, <3>1, <3>2, <3>3 DEF Inv, TypeOK
  <2>4. MapSound'
    <3>1. \A n \in DOMAIN ansmap' :
            /\ ansmap'[n] = Answered => IsAsked(n)
            /\ ansmap'[n] # Answered =>
                 \E i \in DOMAIN packet : /\ packet[i].kind = "cname"
                                          /\ packet[i].owner = n
                                          /\ packet[i].target = ansmap'[n]
      <4>1. CASE r.kind = "asked"
        <5>1. ansmap' = With(ansmap, r.owner, Answered)
          BY <2>1, <4>1 DEF Entered
        <5>2. IsAsked(r.owner)
          BY <1>1, <4>1 DEF IsAsked
        <5> QED BY <5>1, <5>2 DEF With, Inv, MapSound
      <4>2. CASE r.kind = "cname" /\ r.owner \notin DOMAIN ansmap
        <5>1. ansmap' = With(ansmap, r.owner, r.target)
          BY <2>1, <4>2 DEF Entered
        <5>2. r.target # Answered
          BY <2>2, NameAssumption
        <5> QED BY <1>1, <4>2, <5>1, <5>2 DEF With, Inv, MapSound
      <4>3. CASE ~(r.kind = "asked") /\ ~(r.kind = "cname" /\ r.owner \notin DOMAIN ansmap)
        BY <2>1, <4>3 DEF Entered, Inv, MapSound
      <4> QED BY <4>1, <4>2, <4>3
    <3> QED BY <1>2, <3>1, SameReference DEF MapSound
  <2>5. MapComplete'
    <3>1. DOMAIN ansmap \subseteq DOMAIN ansmap'
      BY <2>1 DEF Entered, With
    <3>2. \A n \in DOMAIN ansmap : ansmap[n] = Answered => ansmap'[n] = Answered
      BY <2>1 DEF Entered, With
    <3>3. /\ r.kind = "asked" => /\ r.owner \in DOMAIN ansmap'
                                 /\ ansmap'[r.owner] = Answered
          /\ r.kind = "cname" => r.owner \in DOMAIN ansmap'
      BY <2>1 DEF Entered, With
    <3>4. \A i \in DOMAIN packet : i < pos' => i < pos \/ i = pos
      BY <1>1, <2>1
    <3> QED BY <1>2, <1>5, <3>1, <3>2, <3>3, <3>4 DEF Inv, MapComplete
  <2>6. SoaExact'
    <3>1. soa' => HasSoa
      BY <1>1, <1>2 DEF Inv, SoaExact, HasSoa
    <3>2. \A i \in DOMAIN packet : i < pos' => i < pos \/ i = pos
      BY <1>1, <2>1
    <3> QED BY <1>2, <3>1, <3>2, SameReference DEF Inv, SoaExact
  <2> QED BY <2>1, <2>3, <2>4, <2>5, <2>6
          DEF Inv, WalkInv, AcceptsOnlyComplete, RefusesOnlyBroken
<1> QED BY <1>4, <1>5

LEMMA CollectedInv == ASSUME Inv, Collected PROVE Inv'
<1>1. /\ UNCHANGED <<packet, question, pos, soa, ansmap, verdict>>
      /\ cur' = question /\ status' = "following" /\ pos = Len(packet) + 1
      /\ question \in Name
  BY DEF Collected, Inv, TypeOK
<1>2. TypeOK'
  BY <1>1 DEF Inv, TypeOK
<1>3. MapSound' /\ MapComplete' /\ SoaExact'
  BY <1>1, SameReference DEF Inv, MapSound, MapComplete, SoaExact
<1>4. StandsFor(cur')
  BY <1>1 DEF StandsFor
<1>5. StandsFor(cur)'
  BY <1>1, <1>4, SameReference
<1> QED BY <1>1, <1>2, <1>3, <1>5
        DEF Inv, WalkInv, AcceptsOnlyComplete, RefusesOnlyBroken

LEMMA FollowInv == ASSUME Inv, Follow PROVE Inv'
<1>1. UNCHANGED <<packet, question, pos, soa, ansmap>> /\ status = "following"
  BY DEF Follow
<1>2. /\ packet \in Seq(Record) /\ DOMAIN packet = 1 .. Len(packet)
      /\ pos = Len(packet) + 1 /\ StandsFor(cur) /\ cur \in Name
  BY <1>1 DEF Inv, TypeOK, WalkInv
<1>3. \A i \in DOMAIN packet : i < pos
  BY <1>2
<1>4. MapSound' /\ MapComplete' /\ SoaExact'
  BY <1>1, SameReference DEF Inv, MapSound, MapComplete, SoaExact
<1>5. CASE cur \notin DOMAIN ansmap
  <2>1. status' = "done" /\ verdict' = soa /\ cur' = cur
    BY <1>1, <1>5 DEF Follow, Return, Missing
  <2>2. TypeOK'
    BY <1>1, <2>1 DEF Inv, TypeOK
  <2>3. soa => HasSoa
    BY DEF Inv, SoaExact
  <2>4. ~soa => ~HasSoa
    BY <1>3 DEF Inv, SoaExact, HasSoa
  <2>5. ~IsAsked(cur) /\ \A m \in Name : ~Leads(cur, m)
    BY <1>3, <1>5 DEF IsAsked, Leads, Inv, MapComplete
  <2>6. AcceptsOnlyComplete'
    BY <1>1, <2>1, <2>3, SameReference DEF AcceptsOnlyComplete
  <2>7. RefusesOnlyBroken'
    BY <1>1, <1>2, <2>1, <2>4, <2>5, SameReference DEF RefusesOnlyBroken
  <2> QED BY <1>4, <2>1, <2>2, <2>6, <2>7 DEF Inv, WalkInv
<1>6. CASE cur \in DOMAIN ansmap /\ Final(ansmap, cur)
  <2>1. status' = "done" /\ verdict' = TRUE /\ cur' = cur
    BY <1>1, <1>6 DEF Follow, Return
  <2>2. TypeOK'
    BY <1>1, <2>1 DEF Inv, TypeOK
  <2>3. IsAsked(cur)
    BY <1>6 DEF Final, Inv, MapSound
  <2>4. AcceptsOnlyComplete'
    BY <1>1, <1>2, <2>3, SameReference DEF AcceptsOnlyComplete
  <2> QED BY <1>4, <2>1, <2>2, <2>4 DEF Inv, WalkInv, RefusesOnlyBroken
<1>7. CASE cur \in DOMAIN ansmap /\ ~Final(ansmap, cur)
  <2>1. status' = "following" /\ verdict' = verdict /\ cur' = ansmap[cur]
    BY <1>1, <1>7 DEF Follow, Target
  <2>2. cur' \in Name
    BY <1>7, <2>1 DEF Final, Inv, TypeOK
  <2>3. TypeOK'
    BY <1>1, <2>1, <2>2 DEF Inv, TypeOK
  <2>4. Leads(cur, cur')
    <3>1. ~IsAsked(cur)
      BY <1>3, <1>7 DEF IsAsked, Final, Inv, MapComplete
    <3> QED BY <1>7, <2>1, <3>1 DEF Leads, Final, Inv, MapSound
  <2>5. StandsFor(cur')
    BY <1>2, <2>2, <2>4 DEF StandsFor, Closed
  <2>6. StandsFor(cur)'
    BY <1>1, <2>5, SameReference
  <2> QED BY <1>1, <1>2, <1>4, <2>1, <2>3, <2>6
          DEF Inv, WalkInv, AcceptsOnlyComplete, RefusesOnlyBroken
<1> QED BY <1>5, <1>6, <1>7

LEMMA Invariant == Spec => []Inv
<1>1. Inv /\ [Next]_vars => Inv'
  <2> SUFFICES ASSUME Inv, [Next]_vars PROVE Inv'
    OBVIOUS
  <2>1. CASE UNCHANGED vars
    <3>1. UNCHANGED <<packet, question, pos, soa, ansmap, cur, status, verdict>>
      BY <2>1 DEF vars
    <3>2. TypeOK'
      BY <3>1 DEF Inv, TypeOK
    <3>3. MapSound' /\ MapComplete' /\ SoaExact' /\ WalkInv'
      BY <3>1, SameReference
         DEF Inv, MapSound, MapComplete, SoaExact, WalkInv
    <3>4. AcceptsOnlyComplete' /\ RefusesOnlyBroken'
      BY <3>1, SameReference DEF Inv, AcceptsOnlyComplete, RefusesOnlyBroken
    <3> QED BY <3>2, <3>3, <3>4 DEF Inv
  <2> QED BY <2>1, RefuseInv, CollectInv, CollectedInv, FollowInv DEF Next
<1> QED BY <1>1, InitInv, PTL DEF Spec

(* The map, the position and the name the walk has come to keep their      *)
(* types; in particular the mark for an answered name is never followed.   *)
THEOREM TypeCorrect == Spec => []TypeOK
<1>1. Inv => TypeOK
  BY DEF Inv
<1> QED BY <1>1, Invariant, PTL

(* Whatever records come in whatever order, an accepted answer has a SOA,  *)
(* or a chain from the name asked for to a record of the type asked for.   *)
THEOREM AcceptsSoundly == Spec => []AcceptsOnlyComplete
<1>1. Inv => AcceptsOnlyComplete
  BY DEF Inv
<1> QED BY <1>1, Invariant, PTL

(* Whatever records come in whatever order, a refused answer cannot be     *)
(* read, or its chain is broken and it has no SOA.                         *)
THEOREM RefusesSoundly == Spec => []RefusesOnlyBroken
<1>1. Inv => RefusesOnlyBroken
  BY DEF Inv
<1> QED BY <1>1, Invariant, PTL
=============================================================================
