------------------------- MODULE CachedAnswerProofs -------------------------
(***************************************************************************)
(* Proofs about CachedAnswer, for every width of the TTLs, every answer    *)
(* and every setting of the wall clock.                                    *)
(***************************************************************************)
EXTENDS CachedAnswer, WellFoundedInduction, TLAPS

(* A set of integers that is not empty and bounded below has a smallest    *)
(* element.                                                                *)
LEMMA SmallestLemma ==
    ASSUME NEW b \in Nat, NEW S \in SUBSET Int, S # {},
           \A x \in S : 0 - b <= x
    PROVE  /\ Smallest(S) \in S
           /\ \A y \in S : Smallest(S) <= y
<1> DEFINE T == {x + b : x \in S}
           R == {ss \in Nat \X Nat : ss[1] < ss[2]}
<1>1. T \subseteq Nat /\ T # {}
  <2>1. \A x \in S : x + b \in Nat
    OBVIOUS
  <2> QED BY <2>1
<1>2. IsWellFoundedOn(R, Nat)
  BY NatLessThanWellFounded DEF OpToRel
<1>3. PICK t \in T : \A u \in T : ~(u < t)
  <2>1. PICK t \in T : \A u \in T : ~(<<u, t>> \in R)
    <3> HIDE DEF T, R
    <3> QED BY <1>1, <1>2, WFMin
  <2> QED BY <1>1, <2>1
<1>4. PICK x \in S : t = x + b
  OBVIOUS
<1>5. \A y \in S : x <= y
  <2> SUFFICES ASSUME NEW y \in S PROVE x <= y
    OBVIOUS
  <2>1. y + b \in T
    OBVIOUS
  <2>2. ~(y + b < t)
    <3> HIDE DEF T
    <3> QED BY <1>3, <2>1
  <2>3. x \in Int /\ y \in Int /\ b \in Int
    OBVIOUS
  <2> QED BY <1>4, <2>2, <2>3
<1>6. \E z \in S : \A y \in S : z <= y
  BY <1>5
<1> QED BY <1>6 DEF Smallest

-----------------------------------------------------------------------------
(* One record.                                                             *)
LEMMA RecordFields ==
    ASSUME NEW p \in Seq(Record), NEW i \in DOMAIN p
    PROVE  /\ p[i] \in Record
           /\ p[i].ttl \in Int /\ 0 <= p[i].ttl /\ p[i].ttl <= 2 * IntMax + 1
           /\ p[i].minimum \in Int /\ 0 <= p[i].minimum
<1>1. p[i] \in Record
  OBVIOUS
<1> QED BY <1>1, TtlAssumption DEF Record, Ttl

LEMMA LeftType ==
    ASSUME NEW r \in Record, NEW d \in Nat
    PROVE  /\ Left(r, d) \in Ttl
           /\ r.rtype # "OPT" =>
                Left(r, d) <= 1 \/ Left(r, d) = r.ttl - d
BY TtlAssumption DEF Record, Ttl, Left, Expired

LEMMA AgedType ==
    ASSUME NEW p \in Seq(Record), NEW d \in Nat
    PROVE  /\ Aged(p, d) \in Seq(Record)
           /\ DOMAIN Aged(p, d) = DOMAIN p
           /\ \A i \in DOMAIN p :
                /\ Aged(p, d)[i].ttl = Left(p[i], d)
                /\ Aged(p, d)[i].rtype = p[i].rtype
                /\ Aged(p, d)[i].sec = p[i].sec
                /\ Decides(Aged(p, d)[i]) <=> Decides(p[i])
<1>1. \A i \in DOMAIN p : [p[i] EXCEPT !.ttl = Left(p[i], d)] \in Record
  BY RecordFields, LeftType DEF Record
<1>2. Aged(p, d) \in [1 .. Len(p) -> Record]
  BY <1>1 DEF Aged
<1>3. \A i \in DOMAIN p : p[i] \in Record
  BY RecordFields
<1> QED BY <1>2, <1>3 DEF Aged, Decides, Record

(* What one record lets the result be.                                     *)
LEMMA LimitsType ==
    ASSUME NEW r \in Record, NEW d \in Nat, NEW x \in Limits(r, d)
    PROVE  x \in Int /\ 0 - (IntMax + 1) <= x
<1>1. /\ IntMax \in Nat /\ SoaCap \in Nat
      /\ r.ttl \in Int /\ 0 <= r.ttl /\ r.ttl <= 2 * IntMax + 1
      /\ r.minimum \in Nat
  BY TtlAssumption DEF Record, Ttl
<1>2. CASE x = IF Expired(r, d) THEN 0 ELSE AsInt(r.ttl - d)
  BY <1>1, <1>2 DEF Expired, AsInt
<1>3. CASE x = Smallest({r.minimum, SoaCap})
  <2>1. {r.minimum, SoaCap} \in SUBSET Int /\ {r.minimum, SoaCap} # {}
    BY <1>1
  <2>2. \A y \in {r.minimum, SoaCap} : 0 - 0 <= y
    BY <1>1
  <2>3. x \in {r.minimum, SoaCap}
    BY <1>3, <2>1, <2>2, SmallestLemma
  <2> QED BY <1>1, <2>3
<1> QED BY <1>2, <1>3 DEF Limits

(* An expired record that decides: the last of them is the one that counts.*)
LEMMA LastExpired ==
    ASSUME NEW p \in Seq(Record), NEW d \in Nat, NEW i \in DOMAIN p,
           ~Counts(p, d, i)
    PROVE  \E j \in DOMAIN p :
             Counts(p, d, j) /\ Decides(p[j]) /\ Expired(p[j], d)
<1> DEFINE R == {j \in DOMAIN p : Decides(p[j]) /\ Expired(p[j], d)}
           S == {0 - j : j \in R}
<1>1. DOMAIN p = 1 .. Len(p) /\ Len(p) \in Nat
  OBVIOUS
<1>2. PICK k \in R : TRUE
  BY DEF Counts
<1>3. S \in SUBSET Int /\ S # {} /\ \A x \in S : 0 - Len(p) <= x
  BY <1>1, <1>2
<1>4. Smallest(S) \in S /\ \A y \in S : Smallest(S) <= y
  <2> HIDE DEF S
  <2> QED BY <1>1, <1>3, SmallestLemma
<1>5. PICK j \in R : Smallest(S) = 0 - j
  BY <1>4
<1>6. \A l \in R : l <= j
  <2> SUFFICES ASSUME NEW l \in R PROVE l <= j
    OBVIOUS
  <2>1. 0 - j <= 0 - l
    <3>1. 0 - l \in S
      OBVIOUS
    <3> HIDE DEF S, R
    <3> QED BY <1>4, <1>5, <3>1
  <2>2. l \in Int /\ j \in Int
    BY <1>1
  <2> HIDE DEF R
  <2> QED BY <2>1, <2>2
<1>7. Counts(p, d, j)
  BY <1>1, <1>6 DEF Counts
<1> QED BY <1>7

(* The result of manageTtl is an int, and no greater than the limits that  *)
(* count.                                                                  *)
LEMMA PacketTtlType ==
    ASSUME NEW p \in Seq(Record), NEW d \in Nat
    PROVE  /\ PacketTtl(p, d) \in Int /\ PacketTtl(p, d) <= IntMax
           /\ \A i \in DOMAIN p : Counts(p, d, i) =>
                \A x \in Limits(p[i], d) : PacketTtl(p, d) <= x
<1> DEFINE L == {IntMax} \cup UNION {Limits(p[i], d) :
                                       i \in {k \in DOMAIN p : Counts(p, d, k)}}
<1>1. IntMax \in Nat /\ DefaultTtl \in Int /\ DefaultTtl <= IntMax
  BY TtlAssumption
<1>2. L \in SUBSET Int /\ L # {} /\ \A x \in L : 0 - (IntMax + 1) <= x
  <2>1. ASSUME NEW i \in DOMAIN p, NEW x \in Limits(p[i], d)
        PROVE  x \in Int /\ 0 - (IntMax + 1) <= x
    BY <2>1, RecordFields, LimitsType
  <2> QED BY <1>1, <2>1
<1>3. Smallest(L) \in L /\ \A y \in L : Smallest(L) <= y
  <2>1. IntMax + 1 \in Nat
    BY <1>1
  <2> HIDE DEF L
  <2> QED BY <1>2, <2>1, SmallestLemma
<1>4. PacketTtl(p, d) = IF Smallest(L) = IntMax THEN DefaultTtl ELSE Smallest(L)
  BY DEF PacketTtl
<1>5. IntMax \in L
  OBVIOUS
<1>6. \A i \in DOMAIN p : Counts(p, d, i) => \A x \in Limits(p[i], d) : x \in L
  OBVIOUS
<1> HIDE DEF L
<1>7. Smallest(L) \in Int /\ Smallest(L) <= IntMax
  BY <1>2, <1>3, <1>5
<1>8. PacketTtl(p, d) \in Int /\ PacketTtl(p, d) <= Smallest(L)
  BY <1>1, <1>4, <1>7
<1>9. PacketTtl(p, d) <= IntMax
  BY <1>1, <1>7, <1>8
<1>10. ASSUME NEW x \in L PROVE PacketTtl(p, d) <= x
  <2>1. x \in Int /\ Smallest(L) <= x
    BY <1>2, <1>3
  <2> QED BY <1>7, <1>8, <2>1
<1> QED BY <1>6, <1>8, <1>9, <1>10

(* An answer is stored for no longer than any of its records that decide.  *)
LEMMA StoredWithinRecords ==
    ASSUME NEW p \in Seq(Record), PacketTtl(p, 0) >= 0,
           NEW i \in DOMAIN p, Decides(p[i])
    PROVE  PacketTtl(p, 0) <= Left(p[i], 0)
<1> DEFINE v == PacketTtl(p, 0)
<1>1. v \in Int /\ 0 <= v
  BY PacketTtlType
<1>2. p[i] \in Record /\ p[i].ttl \in Int /\ 0 <= p[i].ttl
  BY RecordFields
<1>3. \A j \in DOMAIN p :
        Counts(p, 0, j) /\ Decides(p[j]) /\ Expired(p[j], 0) => v <= 0
  <2> SUFFICES ASSUME NEW j \in DOMAIN p,
                      Counts(p, 0, j), Decides(p[j]), Expired(p[j], 0)
               PROVE  v <= 0
    OBVIOUS
  <2>1. 0 \in Limits(p[j], 0)
    BY DEF Limits
  <2> QED BY <2>1, PacketTtlType
<1>4. 0 <= Left(p[i], 0)
  BY <1>2 DEF Left, Expired
<1>5. CASE ~Counts(p, 0, i)
  <2>1. v <= 0
    BY <1>3, <1>5, LastExpired
  <2>2. Left(p[i], 0) \in Int
    BY <1>2 DEF Left, Expired
  <2> QED BY <1>1, <1>4, <2>1, <2>2
<1>6. CASE Counts(p, 0, i) /\ Expired(p[i], 0)
  <2>1. v <= 0
    BY <1>3, <1>6
  <2>2. Left(p[i], 0) \in Int
    BY <1>2 DEF Left, Expired
  <2> QED BY <1>1, <1>4, <2>1, <2>2
<1>7. CASE Counts(p, 0, i) /\ ~Expired(p[i], 0)
  <2>1. AsInt(p[i].ttl - 0) \in Limits(p[i], 0)
    BY <1>7 DEF Limits
  <2>2. v <= AsInt(p[i].ttl - 0)
    BY <1>7, <2>1, PacketTtlType
  <2>3. Left(p[i], 0) = p[i].ttl
    BY <1>2, <1>7 DEF Left
  <2>4. AsInt(p[i].ttl - 0) \in Int /\ AsInt(p[i].ttl - 0) <= p[i].ttl
    BY <1>2, TtlAssumption DEF AsInt
  <2> QED BY <1>1, <1>2, <2>2, <2>3, <2>4
<1> QED BY <1>5, <1>6, <1>7

-----------------------------------------------------------------------------
(* While the clock is not set, the TTL kept with the packet and the time   *)
(* since the last update add up to the age of the answer ...               *)
TtlAddsUp ==
    entry # NoEntry /\ ~jumped =>
      /\ entry.uptime <= now
      /\ \/ entry.ttl = 0
         \/ (now - entry.uptime) + (orig.ttl - entry.ttl) + slips = age

(* ... and so does every TTL in the packet.                                *)
PacketAddsUp ==
    entry # NoEntry =>
      /\ DOMAIN entry.pkt = DOMAIN orig.pkt
      /\ \A i \in DOMAIN entry.pkt :
           /\ entry.pkt[i].rtype = orig.pkt[i].rtype
           /\ ~jumped =>
                \/ entry.pkt[i].rtype = "OPT"
                \/ entry.pkt[i].ttl <= 1
                \/ entry.pkt[i].ttl + age =
                     orig.pkt[i].ttl + slips + (now - entry.uptime)

Inv == TypeOK /\ NoRecordOutlived /\ TtlAddsUp /\ PacketAddsUp

LEMMA InitInv == Init => Inv
<1> SUFFICES ASSUME Init PROVE Inv
  OBVIOUS
<1>1. <<>> \in Seq(Record)
  OBVIOUS
<1>2. TypeOK
  <2>1. 0 \in 0 .. IntMax /\ 0 \in 0 .. MaxAge /\ 0 \in 0 .. 0
    BY TtlAssumption
  <2>2. [ttl |-> 0, pkt |-> <<>>] \in [ttl : 0 .. IntMax, pkt : Seq(Record)]
    BY <1>1, <2>1
  <2>3. slips \in 0 .. age
    BY <2>1 DEF Init
  <2> QED BY <2>1, <2>2, <2>3 DEF Init, TypeOK
<1> QED BY <1>2 DEF Inv, Init, NoRecordOutlived, TtlAddsUp, PacketAddsUp

LEMMA AnswerInv ==
    ASSUME Inv, NEW p \in Packet, Answer(p)
    PROVE  Inv'
<1> DEFINE t == PacketTtl(p, 0)
<1>1. p \in Seq(Record)
  BY TtlAssumption
<1>2. t \in 0 .. IntMax
  BY <1>1, PacketTtlType, TtlAssumption DEF Answer
<1>3. /\ entry' = [uptime |-> now, ttl |-> t, pkt |-> Aged(p, 0)]
      /\ orig' = [ttl |-> t, pkt |-> p]
      /\ age' = 0 /\ slips' = 0 /\ jumped' = FALSE /\ now' = now
      /\ told' = "none"
  BY DEF Answer
<1>4. /\ Aged(p, 0) \in Seq(Record)
      /\ DOMAIN Aged(p, 0) = DOMAIN p
      /\ \A i \in DOMAIN p :
           /\ Aged(p, 0)[i].ttl = Left(p[i], 0)
           /\ Aged(p, 0)[i].rtype = p[i].rtype
           /\ Decides(Aged(p, 0)[i]) <=> Decides(p[i])
  BY <1>1, AgedType
<1>5. now \in 0 .. MaxTime /\ MaxAge \in Nat
  BY TtlAssumption DEF Inv, TypeOK
<1>6. TypeOK'
  <2> HIDE DEF t
  <2>1. entry' \in Entry
    BY <1>2, <1>3, <1>4, <1>5 DEF Entry
  <2>2. orig' \in [ttl : 0 .. IntMax, pkt : Seq(Record)]
    BY <1>1, <1>2, <1>3
  <2>3. now' \in 0 .. MaxTime /\ age' \in 0 .. MaxAge /\ slips' \in 0 .. age'
    BY <1>3, <1>5
  <2> QED BY <1>3, <2>1, <2>2, <2>3 DEF TypeOK
<1>7. NoRecordOutlived'
  <2>1. \A i \in DOMAIN p : Decides(p[i]) => t <= Left(p[i], 0)
    BY <1>1, <1>2, StoredWithinRecords
  <2> HIDE DEF t
  <2> QED BY <1>3, <1>4, <2>1 DEF NoRecordOutlived
<1>8. TtlAddsUp'
  <2> HIDE DEF t
  <2> QED BY <1>2, <1>3, <1>5 DEF TtlAddsUp
<1>9. PacketAddsUp'
  <2>1. ASSUME NEW i \in DOMAIN p
        PROVE  \/ p[i].rtype = "OPT"
               \/ Left(p[i], 0) <= 1
               \/ Left(p[i], 0) + 0 = p[i].ttl + 0 + (now - now)
    <3>1. p[i] \in Record /\ p[i].ttl \in Int /\ 0 \in Nat
      BY <1>1, RecordFields
    <3>2. p[i].rtype = "OPT" \/ Left(p[i], 0) <= 1 \/ Left(p[i], 0) = p[i].ttl - 0
      BY <3>1, LeftType
    <3> QED BY <1>5, <3>1, <3>2
  <2> HIDE DEF t
  <2> QED BY <1>3, <1>4, <2>1 DEF PacketAddsUp
<1> QED BY <1>6, <1>7, <1>8, <1>9 DEF Inv

(* What an update does to one record.                                      *)
LEMMA UpdateRecord ==
    ASSUME Inv, entry # NoEntry, NEW i \in DOMAIN entry.pkt
    PROVE  /\ Decides(entry.pkt[i]) =>
                Remaining(entry) <= Left(entry.pkt[i], Passed(entry))
           /\ ~jumped =>
                \/ entry.pkt[i].rtype = "OPT"
                \/ Left(entry.pkt[i], Passed(entry)) <= 1
                \/ Left(entry.pkt[i], Passed(entry)) + age =
                     orig.pkt[i].ttl + slips
<1> DEFINE r == entry.pkt[i]
<1>1. /\ now \in Int
      /\ entry.uptime \in Int /\ entry.ttl \in Int /\ 0 <= entry.ttl
      /\ entry.pkt \in Seq(Record) /\ age \in Int /\ slips \in Int
  BY TtlAssumption DEF Inv, TypeOK, Entry
<1>2. r \in Record /\ r.ttl \in Int /\ 0 <= r.ttl
  BY <1>1, RecordFields
<1>3. orig.pkt[i].ttl \in Int
  <2>1. orig.pkt \in Seq(Record) /\ i \in DOMAIN orig.pkt
    BY DEF Inv, TypeOK, PacketAddsUp
  <2> QED BY <2>1, RecordFields
<1>4. Decides(r) => entry.ttl <= r.ttl /\ r.rtype # "OPT"
  BY DEF Inv, NoRecordOutlived, Decides
<1>5. ~jumped => \/ r.rtype = "OPT"
                 \/ r.ttl <= 1
                 \/ r.ttl + age = orig.pkt[i].ttl + slips + (now - entry.uptime)
  BY DEF Inv, PacketAddsUp
<1>6. ~jumped => entry.uptime <= now
  BY DEF Inv, TtlAddsUp
<1> HIDE DEF r
<1>7. Decides(r) => Remaining(entry) <= Left(r, Passed(entry))
  BY <1>1, <1>2, <1>4 DEF Remaining, Away, Left, Expired, Passed
<1>8. ~jumped => \/ r.rtype = "OPT"
                 \/ Left(r, Passed(entry)) <= 1
                 \/ Left(r, Passed(entry)) + age = orig.pkt[i].ttl + slips
  <2> SUFFICES ASSUME ~jumped, r.rtype # "OPT", ~(Left(r, Passed(entry)) <= 1)
               PROVE  Left(r, Passed(entry)) + age = orig.pkt[i].ttl + slips
    OBVIOUS
  <2>1. /\ Left(r, Passed(entry)) = r.ttl - Passed(entry)
        /\ ~(r.ttl <= 1)
    BY DEF Left, Expired
  <2>2. Passed(entry) = now - entry.uptime
    BY <1>1, <1>6 DEF Passed
  <2>3. r.ttl + age = orig.pkt[i].ttl + slips + (now - entry.uptime)
    BY <1>5, <2>1
  <2> DEFINE o == orig.pkt[i].ttl
             e == now - entry.uptime
  <2>4. o \in Int /\ e \in Int
    BY <1>1, <1>3
  <2> HIDE DEF o, e
  <2>5. r.ttl + age = o + slips + e
    BY <2>3 DEF o, e
  <2>6. (r.ttl - e) + age = o + slips
    BY <1>1, <1>2, <2>4, <2>5
  <2> QED BY <2>1, <2>2, <2>6 DEF o, e
<1> QED BY <1>7, <1>8 DEF r

LEMMA UpdateInv ==
    ASSUME Inv, entry # NoEntry, Update, UNCHANGED <<orig, jumped>>,
           told' \in {"none", "request", "early"}
    PROVE  Inv'
<1>1. PICK l \in {0, 1} :
        /\ Slip(l)
        /\ entry' = [uptime |-> now + l, ttl |-> Remaining(entry),
                     pkt |-> Rewritten(entry)]
  BY DEF Update
<1>2. /\ now \in Int /\ 0 <= now /\ now <= MaxTime
      /\ entry.uptime \in Int
      /\ entry.ttl \in Int /\ 0 <= entry.ttl /\ entry.ttl <= IntMax
      /\ entry.pkt \in Seq(Record)
      /\ age \in Int /\ 0 <= age /\ age <= MaxAge
      /\ slips \in Int /\ 0 <= slips /\ slips <= age
      /\ orig.ttl \in Int /\ jumped \in BOOLEAN
      /\ IntMax \in Int /\ MaxTime \in Int /\ MaxAge \in Int
  BY TtlAssumption DEF Inv, TypeOK, Entry
<1>3. /\ now' = now + l /\ age' = age + l /\ slips' = slips + l
      /\ now' \in 0 .. MaxTime /\ age' \in 0 .. MaxAge /\ slips' \in 0 .. age'
  BY <1>1, <1>2 DEF Slip
<1>4. Remaining(entry) \in 0 .. IntMax
  BY <1>2 DEF Remaining, Away
<1>5. Passed(entry) \in Nat
  BY <1>2 DEF Passed
<1> DEFINE d == Passed(entry)
<1>6. /\ Rewritten(entry) \in Seq(Record)
      /\ DOMAIN Rewritten(entry) = DOMAIN entry.pkt
      /\ \A i \in DOMAIN entry.pkt :
           /\ Rewritten(entry)[i].ttl = Left(entry.pkt[i], d)
           /\ Rewritten(entry)[i].rtype = entry.pkt[i].rtype
           /\ Decides(Rewritten(entry)[i]) <=> Decides(entry.pkt[i])
  <2>1. PICK pkt \in Seq(Record), e \in Nat : pkt = entry.pkt /\ e = d
    BY <1>2, <1>5
  <2>2. /\ Aged(pkt, e) \in Seq(Record)
        /\ DOMAIN Aged(pkt, e) = DOMAIN pkt
        /\ \A i \in DOMAIN pkt :
             /\ Aged(pkt, e)[i].ttl = Left(pkt[i], e)
             /\ Aged(pkt, e)[i].rtype = pkt[i].rtype
             /\ Decides(Aged(pkt, e)[i]) <=> Decides(pkt[i])
    BY AgedType
  <2> QED BY <2>1, <2>2 DEF Rewritten
<1> HIDE DEF d
<1>7. TypeOK'
  <2>1. entry' \in Entry
    BY <1>1, <1>3, <1>4, <1>6 DEF Entry
  <2>2. orig' = orig /\ jumped' = jumped
    OBVIOUS
  <2> QED BY <1>3, <2>1, <2>2 DEF Inv, TypeOK
<1>8. \A i \in DOMAIN entry.pkt :
        Decides(entry.pkt[i]) => Remaining(entry) <= Left(entry.pkt[i], d)
  BY UpdateRecord DEF d
<1>9. NoRecordOutlived'
  BY <1>1, <1>6, <1>8 DEF NoRecordOutlived
<1>10. TtlAddsUp'
  <2> SUFFICES ASSUME ~jumped'
               PROVE  /\ entry'.uptime <= now'
                      /\ \/ entry'.ttl = 0
                         \/ (now' - entry'.uptime) + (orig'.ttl - entry'.ttl)
                              + slips' = age'
    BY DEF TtlAddsUp
  <2>1. entry'.uptime = now + l /\ entry'.ttl = Remaining(entry)
    BY <1>1
  <2>2. /\ entry.uptime <= now
        /\ \/ entry.ttl = 0
           \/ (now - entry.uptime) + (orig.ttl - entry.ttl) + slips = age
    BY DEF Inv, TtlAddsUp
  <2>3. \/ Remaining(entry) = 0
        \/ Remaining(entry) = entry.ttl - (now - entry.uptime) /\ entry.ttl # 0
    BY <1>2, <2>2 DEF Remaining, Away
  <2>4. orig'.ttl = orig.ttl
    OBVIOUS
  <2>5. (now + l) - (now + l) = 0
    BY <1>2
  <2>6. \/ Remaining(entry) = 0
        \/ (now + l) - (now + l) + (orig.ttl - Remaining(entry)) + (slips + l)
             = age + l
    <3> DEFINE x == Remaining(entry)
               o == orig.ttl
               e == now - entry.uptime
               t == entry.ttl
    <3>1. x \in Int /\ o \in Int /\ e \in Int /\ t \in Int /\ l \in Int
      BY <1>2, <1>4
    <3>2. x = 0 \/ (x = t - e /\ t # 0)
      BY <2>3
    <3>3. t = 0 \/ e + (o - t) + slips = age
      BY <2>2
    <3> HIDE DEF x, o, e, t
    <3>4. x = 0 \/ 0 + (o - x) + (slips + l) = age + l
      BY <1>2, <3>1, <3>2, <3>3
    <3> QED BY <2>5, <3>4 DEF x, o
  <2> QED BY <1>2, <1>3, <2>1, <2>4, <2>6
<1>11. PacketAddsUp'
  <2>1. \A i \in DOMAIN entry.pkt : ~jumped =>
          \/ entry.pkt[i].rtype = "OPT"
          \/ Left(entry.pkt[i], d) <= 1
          \/ Left(entry.pkt[i], d) + age = orig.pkt[i].ttl + slips
    BY UpdateRecord DEF d
  <2>2. DOMAIN entry.pkt = DOMAIN orig.pkt
    BY DEF Inv, PacketAddsUp
  <2>3. \A i \in DOMAIN entry.pkt : entry.pkt[i].rtype = orig.pkt[i].rtype
    BY DEF Inv, PacketAddsUp
  <2>4. \A i \in DOMAIN entry.pkt :
          Left(entry.pkt[i], d) \in Int /\ orig.pkt[i].ttl \in Int
    <3> SUFFICES ASSUME NEW i \in DOMAIN entry.pkt
                 PROVE  Left(entry.pkt[i], d) \in Int /\ orig.pkt[i].ttl \in Int
      OBVIOUS
    <3>1. orig.pkt \in Seq(Record) /\ i \in DOMAIN orig.pkt
      BY <2>2 DEF Inv, TypeOK
    <3>2. orig.pkt[i].ttl \in Int
      BY <3>1, RecordFields
    <3>3. entry.pkt[i] \in Record /\ entry.pkt[i].ttl \in Int
      BY <1>2, RecordFields
    <3>4. Left(entry.pkt[i], d) \in Int
      BY <1>5, <3>3 DEF Left, d
    <3> QED BY <3>2, <3>4
  <2>5. /\ entry'.pkt = Rewritten(entry) /\ entry'.uptime = now + l
        /\ orig' = orig /\ jumped' = jumped
    BY <1>1
  <2>6. ASSUME NEW i \in DOMAIN entry.pkt, ~jumped
        PROVE  \/ Rewritten(entry)[i].rtype = "OPT"
               \/ Rewritten(entry)[i].ttl <= 1
               \/ Rewritten(entry)[i].ttl + (age + l) =
                    orig.pkt[i].ttl + (slips + l) + ((now + l) - (now + l))
    <3> DEFINE o == orig.pkt[i].ttl
               x == Left(entry.pkt[i], d)
    <3>1. x \in Int /\ o \in Int
      BY <2>4
    <3>2. Rewritten(entry)[i].ttl = x
      BY <1>6
    <3>3. Rewritten(entry)[i].rtype = entry.pkt[i].rtype
      BY <1>6
    <3>4. entry.pkt[i].rtype = "OPT" \/ x <= 1 \/ x + age = o + slips
      BY <2>1, <2>6
    <3> HIDE DEF x, o
    <3>5. entry.pkt[i].rtype = "OPT" \/ x <= 1
            \/ x + (age + l) = o + (slips + l) + ((now + l) - (now + l))
      BY <1>2, <3>1, <3>4
    <3> QED BY <3>2, <3>3, <3>5 DEF o
  <2> QED BY <1>3, <1>6, <2>2, <2>3, <2>5, <2>6 DEF PacketAddsUp
<1> QED BY <1>7, <1>9, <1>10, <1>11 DEF Inv

(* While the entry and its history stay and time passes, or the clock is   *)
(* set, everything goes on adding up.                                      *)
LEMMA ClockInv ==
    ASSUME Inv, Tick \/ SetClock
    PROVE  Inv'
<1>1. UNCHANGED <<entry, orig, slips>> /\ told' = "none"
  BY DEF Tick, SetClock
<1>2. /\ now \in Int /\ age \in Int /\ 0 <= age /\ slips \in 0 .. age
      /\ MaxTime \in Int /\ MaxAge \in Int
      /\ entry # NoEntry => /\ entry.uptime \in Int /\ entry.ttl \in Int
                            /\ entry.pkt \in Seq(Record)
      /\ orig.ttl \in Int /\ orig.pkt \in Seq(Record)
      /\ slips \in Int
  BY TtlAssumption DEF Inv, TypeOK, Entry
<1>3. TypeOK'
  <2>1. now' \in 0 .. MaxTime /\ jumped' \in BOOLEAN
    <3>1. now \in 0 .. MaxTime /\ jumped \in BOOLEAN
      BY DEF Inv, TypeOK
    <3>2. CASE Tick
      <4>1. now' = now + 1 /\ now < MaxTime /\ jumped' = jumped
        BY <3>2 DEF Tick
      <4>2. now' \in 0 .. MaxTime
        BY <1>2, <3>1, <4>1
      <4> QED BY <3>1, <4>1, <4>2
    <3>3. CASE SetClock
      BY <3>3 DEF SetClock
    <3> QED BY <3>2, <3>3
  <2>2. age' \in 0 .. MaxAge /\ slips' \in 0 .. age'
    <3>1. age <= MaxAge
      BY <1>2 DEF Inv, TypeOK
    <3>2. age' = age \/ (age < MaxAge /\ age' = age + 1)
      BY DEF Tick, SetClock
    <3> QED BY <1>1, <1>2, <3>1, <3>2
  <2>3. entry' \in Entry \cup {NoEntry}
    BY <1>1 DEF Inv, TypeOK
  <2>4. orig' \in [ttl : 0 .. IntMax, pkt : Seq(Record)]
    BY <1>1 DEF Inv, TypeOK
  <2> QED BY <1>1, <2>1, <2>2, <2>3, <2>4 DEF TypeOK
<1>4. NoRecordOutlived'
  BY <1>1 DEF Inv, NoRecordOutlived
<1>5. jumped' \/ (~jumped /\ ~jumped' /\ now' = now + 1 /\ age' = age + 1)
        \/ (jumped /\ jumped')
  BY DEF Inv, TypeOK, Tick, SetClock
<1>6. TtlAddsUp'
  <2> SUFFICES ASSUME entry # NoEntry, ~jumped'
               PROVE  /\ entry.uptime <= now'
                      /\ \/ entry.ttl = 0
                         \/ (now' - entry.uptime) + (orig.ttl - entry.ttl)
                              + slips = age'
    BY <1>1 DEF TtlAddsUp
  <2>1. ~jumped /\ now' = now + 1 /\ age' = age + 1
    BY <1>5
  <2> DEFINE t == entry.ttl
             o == orig.ttl
             u == entry.uptime
  <2>2. t \in Int /\ o \in Int /\ u \in Int
    BY <1>2
  <2>3. u <= now /\ (t = 0 \/ (now - u) + (o - t) + slips = age)
    BY <2>1 DEF Inv, TtlAddsUp
  <2> HIDE DEF t, o, u
  <2>4. u <= now' /\ (t = 0 \/ (now' - u) + (o - t) + slips = age')
    BY <1>2, <2>1, <2>2, <2>3
  <2> QED BY <2>4 DEF t, o, u
<1>7. PacketAddsUp'
  <2> SUFFICES ASSUME entry # NoEntry PROVE PacketAddsUp'
    BY <1>1 DEF PacketAddsUp
  <2>1. DOMAIN entry.pkt = DOMAIN orig.pkt
    BY DEF Inv, PacketAddsUp
  <2>2. ASSUME NEW i \in DOMAIN entry.pkt
        PROVE  /\ entry.pkt[i].rtype = orig.pkt[i].rtype
               /\ ~jumped' =>
                    \/ entry.pkt[i].rtype = "OPT"
                    \/ entry.pkt[i].ttl <= 1
                    \/ entry.pkt[i].ttl + age' =
                         orig.pkt[i].ttl + slips + (now' - entry.uptime)
    <3>1. entry.pkt[i].ttl \in Int /\ orig.pkt[i].ttl \in Int
      BY <1>2, <2>1, RecordFields
    <3>2. entry.pkt[i].rtype = orig.pkt[i].rtype
      BY DEF Inv, PacketAddsUp
    <3>3. ~jumped =>
            \/ entry.pkt[i].rtype = "OPT"
            \/ entry.pkt[i].ttl <= 1
            \/ entry.pkt[i].ttl + age =
                 orig.pkt[i].ttl + slips + (now - entry.uptime)
      BY DEF Inv, PacketAddsUp
    <3> DEFINE x == entry.pkt[i].ttl
               o == orig.pkt[i].ttl
               u == entry.uptime
    <3>4. x \in Int /\ o \in Int /\ u \in Int
      BY <1>2, <3>1
    <3> HIDE DEF x, o, u
    <3>5. ASSUME now' = now + 1, age' = age + 1,
                 x + age = o + slips + (now - u)
          PROVE  x + age' = o + slips + (now' - u)
      BY <1>2, <3>4, <3>5
    <3>6. ASSUME ~jumped', entry.pkt[i].rtype # "OPT", ~(x <= 1)
          PROVE  x + age' = o + slips + (now' - u)
      <4>1. ~jumped /\ now' = now + 1 /\ age' = age + 1
        BY <1>5, <3>6
      <4>2. x + age = o + slips + (now - u)
        BY <3>3, <3>6, <4>1 DEF x, o, u
      <4> QED BY <3>5, <4>1, <4>2
    <3> QED BY <3>2, <3>6 DEF x, o, u
  <2> QED BY <1>1, <2>1, <2>2 DEF PacketAddsUp
<1> QED BY <1>3, <1>4, <1>6, <1>7 DEF Inv

LEMMA NextInv == Inv /\ [Next]_vars => Inv'
<1> SUFFICES ASSUME Inv, [Next]_vars PROVE Inv'
  OBVIOUS
<1>1. CASE \E p \in Packet : Answer(p)
  BY <1>1, AnswerInv
<1>2. CASE Hit
  <2>1. CASE Update
    BY <1>2, <2>1, UpdateInv DEF Hit
  <2>2. CASE NoUpdate
    BY <1>2, <2>2 DEF Hit, NoUpdate, Inv, TypeOK, NoRecordOutlived, TtlAddsUp,
                      PacketAddsUp
  <2> QED BY <1>2, <2>1, <2>2 DEF Hit
<1>3. CASE Drop \/ EarlyReturn
  BY <1>3 DEF Drop, EarlyReturn, Inv, TypeOK, NoRecordOutlived, TtlAddsUp, PacketAddsUp
<1>4. CASE Tick \/ SetClock
  BY <1>4, ClockInv
<1>5. CASE UNCHANGED vars
  BY <1>5 DEF vars, Inv, TypeOK, NoRecordOutlived, TtlAddsUp, PacketAddsUp
<1> QED BY <1>1, <1>2, <1>3, <1>4, <1>5 DEF Next

LEMMA Invariant == Spec => []Inv
<1>1. Init => Inv
  BY InitInv
<1>2. Inv /\ [Next]_vars => Inv'
  BY NextInv
<1> QED BY <1>1, <1>2, PTL DEF Spec

(* The clock, the entry's time and TTL, the packet and the history keep    *)
(* their types through every answer, hit and setting of the clock.         *)
THEOREM TypeCorrect == Spec => []TypeOK
<1>1. Inv => TypeOK
  BY DEF Inv
<1> QED BY <1>1, Invariant, PTL

(* Whatever is done to the clock, an entry is never valid for longer than  *)
(* any record in it that decides.                                          *)
THEOREM NoRecordOutlivedEver == Spec => []NoRecordOutlived
<1>1. Inv => NoRecordOutlived
  BY DEF Inv
<1> QED BY <1>1, Invariant, PTL

(* A hit by which request() replies.                                       *)
Serves == Hit /\ Usable(entry) /\ entry'.ttl > 0

(* As long as the clock is not set, request() serves no answer from the    *)
(* cache beyond its TTL, however it was updated in between.                *)
THEOREM NeverServedLate == Spec => ServedInTime
<1>1. Inv /\ [Next]_vars => [told' = "request" => jumped \/ age < orig.ttl + slips]_vars
  <2> SUFFICES ASSUME Inv, Next, told' = "request", ~jumped
               PROVE  age < orig.ttl + slips
    BY DEF vars
  <2> Serves
    BY DEF Next, Answer, EarlyReturn, Drop, Tick, SetClock, Serves, Hit
  <2>1. /\ now \in Int /\ age \in Int /\ slips \in Int /\ orig.ttl \in Int
        /\ entry.uptime \in Int /\ entry.ttl \in Int /\ 0 <= entry.ttl
    BY TtlAssumption DEF Inv, TypeOK, Entry, Serves, Hit
  <2>2. /\ entry.uptime <= now
        /\ \/ entry.ttl = 0
           \/ (now - entry.uptime) + (orig.ttl - entry.ttl) + slips = age
    BY DEF Inv, TtlAddsUp, Serves, Hit
  <2>3. entry'.ttl = Remaining(entry)
    <3>1. CASE Update
      BY <3>1 DEF Update
    <3>2. CASE NoUpdate
      BY <2>1, <3>2 DEF NoUpdate, Serves, Remaining, Away
    <3> QED BY <3>1, <3>2 DEF Serves, Hit
  <2>4. entry.ttl # 0 /\ now - entry.uptime < entry.ttl
    BY <2>1, <2>2, <2>3 DEF Remaining, Away, Serves
  <2> DEFINE o == orig.ttl
             e == now - entry.uptime
             t == entry.ttl
  <2>5. o \in Int /\ e \in Int /\ t \in Int /\ e < t /\ e + (o - t) + slips = age
    BY <2>1, <2>2, <2>4
  <2> HIDE DEF o, e, t
  <2>6. age < o + slips
    BY <2>1, <2>5
  <2> QED BY <2>6 DEF o
<1> QED BY <1>1, Invariant, PTL DEF Spec, ServedInTime

(* A hit keeps the records of the answer.                                  *)
LEMMA SameRecords ==
    ASSUME Inv, Hit
    PROVE  DOMAIN entry'.pkt = DOMAIN orig.pkt
<1>1. DOMAIN entry.pkt = DOMAIN orig.pkt
  BY DEF Inv, PacketAddsUp, Hit
<1>2. CASE Update
  BY <1>1, <1>2 DEF Update, Rewritten, Aged
<1>3. CASE NoUpdate
  BY <1>1, <1>3 DEF NoUpdate
<1> QED BY <1>2, <1>3 DEF Hit

(* As long as the clock is not set, the TTLs request() tells from the      *)
(* cache end no later than those of the server, but for expired records    *)
(* told as 1; and those an early return tells, by no more than the time    *)
(* for which nobody has brought the entry up to date.                      *)
THEOREM NeverToldLate == Spec => ToldInTime
<1> DEFINE Told ==
             \A i \in DOMAIN entry'.pkt :
               \/ orig.pkt[i].rtype = "OPT"
               \/ entry'.pkt[i].ttl <= 1
               \/ age + entry'.pkt[i].ttl <= orig.pkt[i].ttl + slips
           ToldEarly ==
             \A i \in DOMAIN entry'.pkt :
               \/ orig.pkt[i].rtype = "OPT"
               \/ entry'.pkt[i].ttl <= 1
               \/ age + entry'.pkt[i].ttl <=
                    orig.pkt[i].ttl + slips + (now - entry.uptime)
<1>1. ASSUME Inv, Serves, ~jumped PROVE Told
  <2> USE <1>1
  <2>1. /\ now \in Int /\ age \in Int /\ slips \in Int
        /\ entry.uptime \in Int
        /\ entry.pkt \in Seq(Record) /\ orig.pkt \in Seq(Record)
        /\ DOMAIN entry.pkt = DOMAIN orig.pkt
        /\ entry # NoEntry
    BY TtlAssumption DEF Inv, TypeOK, Entry, Serves, Hit, PacketAddsUp
  <2>2. CASE Update
    <3>1. Passed(entry) \in Nat
      BY <2>1 DEF Passed
    <3>2. PICK pkt \in Seq(Record), d \in Nat : pkt = entry.pkt /\ d = Passed(entry)
      BY <2>1, <3>1
    <3>3. entry'.pkt = Aged(pkt, d)
      BY <2>2, <3>2 DEF Update, Rewritten
    <3>4. /\ DOMAIN Aged(pkt, d) = DOMAIN pkt
          /\ \A i \in DOMAIN pkt : Aged(pkt, d)[i].ttl = Left(pkt[i], d)
      BY AgedType
    <3>5. ASSUME NEW i \in DOMAIN pkt
          PROVE  \/ orig.pkt[i].rtype = "OPT"
                 \/ Left(pkt[i], d) <= 1
                 \/ age + Left(pkt[i], d) <= orig.pkt[i].ttl + slips
      <4>1. orig.pkt[i].ttl \in Int
        BY <2>1, <3>2, RecordFields
      <4>2. Left(pkt[i], d) \in Int
        BY RecordFields, LeftType, TtlAssumption DEF Ttl
      <4>3. \/ pkt[i].rtype = "OPT"
            \/ Left(pkt[i], d) <= 1
            \/ Left(pkt[i], d) + age = orig.pkt[i].ttl + slips
        BY <2>1, <3>2, UpdateRecord
      <4>4. pkt[i].rtype = orig.pkt[i].rtype
        BY <2>1, <3>2 DEF Inv, PacketAddsUp
      <4> DEFINE x == Left(pkt[i], d)
                 o == orig.pkt[i].ttl
      <4> HIDE DEF x, o
      <4>5. x + age = o + slips => age + x <= o + slips
        BY <2>1, <4>1, <4>2 DEF x, o
      <4> QED BY <4>3, <4>4, <4>5 DEF x, o
    <3> QED BY <3>3, <3>4, <3>5
  <2>3. CASE NoUpdate
    <3>1. entry' = entry /\ entry.uptime = now
      BY <2>3 DEF NoUpdate, Serves
    <3>2. ASSUME NEW i \in DOMAIN entry.pkt
          PROVE  \/ orig.pkt[i].rtype = "OPT"
                 \/ entry.pkt[i].ttl <= 1
                 \/ age + entry.pkt[i].ttl <= orig.pkt[i].ttl + slips
      <4>1. orig.pkt[i].ttl \in Int /\ entry.pkt[i].ttl \in Int
        BY <2>1, RecordFields
      <4>2. \/ orig.pkt[i].rtype = "OPT"
            \/ entry.pkt[i].ttl <= 1
            \/ entry.pkt[i].ttl + age =
                 orig.pkt[i].ttl + slips + (now - entry.uptime)
        BY <2>1 DEF Inv, PacketAddsUp
      <4> DEFINE x == entry.pkt[i].ttl
                 o == orig.pkt[i].ttl
                 u == entry.uptime
      <4> HIDE DEF x, o, u
      <4>3. x + age = o + slips + (now - u) => age + x <= o + slips
        BY <2>1, <3>1, <4>1 DEF x, o, u
      <4> QED BY <4>2, <4>3 DEF x, o, u
    <3> QED BY <3>1, <3>2
  <2> QED BY <2>2, <2>3 DEF Serves, Hit
<1>2. ASSUME Inv, EarlyReturn, ~jumped PROVE ToldEarly
  <2>1. /\ entry # NoEntry /\ entry' = entry
        /\ now \in Int /\ age \in Int /\ slips \in Int /\ entry.uptime \in Int
        /\ entry.pkt \in Seq(Record) /\ orig.pkt \in Seq(Record)
        /\ DOMAIN entry.pkt = DOMAIN orig.pkt
    BY <1>2, TtlAssumption DEF Inv, TypeOK, Entry, EarlyReturn, PacketAddsUp
  <2>2. ASSUME NEW i \in DOMAIN entry.pkt
        PROVE  \/ orig.pkt[i].rtype = "OPT"
               \/ entry.pkt[i].ttl <= 1
               \/ age + entry.pkt[i].ttl <=
                    orig.pkt[i].ttl + slips + (now - entry.uptime)
    <3>1. orig.pkt[i].ttl \in Int /\ entry.pkt[i].ttl \in Int
      BY <2>1, RecordFields
    <3>2. \/ orig.pkt[i].rtype = "OPT"
          \/ entry.pkt[i].ttl <= 1
          \/ entry.pkt[i].ttl + age =
               orig.pkt[i].ttl + slips + (now - entry.uptime)
      BY <1>2, <2>1 DEF Inv, PacketAddsUp
    <3> DEFINE x == entry.pkt[i].ttl
               o == orig.pkt[i].ttl
               u == entry.uptime
    <3>3. /\ x \in Int /\ o \in Int /\ u \in Int
          /\ now \in Int /\ age \in Int /\ slips \in Int
      BY <2>1, <3>1
    <3> HIDE DEF x, o, u
    <3>4. x + age = o + slips + (now - u) => age + x <= o + slips + (now - u)
      BY <3>3
    <3> QED BY <3>2, <3>4 DEF x, o, u
  <2> QED BY <2>1, <2>2
<1> DEFINE InTime ==
             \A i \in DOMAIN entry'.pkt :
               \/ orig.pkt[i].rtype = "OPT"
               \/ entry'.pkt[i].ttl <= 1
               \/ age + entry'.pkt[i].ttl <= orig.pkt[i].ttl + slips + Unaged
<1>3. Inv /\ [Next]_vars => [told' # "none" /\ ~jumped => InTime]_vars
  <2> SUFFICES ASSUME Inv, Next, told' # "none", ~jumped PROVE InTime
    BY DEF vars
  <2>1. CASE Hit
    <3>1. Serves /\ told' = "request"
      BY <2>1 DEF Hit, Serves
    <3>2. Told
      BY <1>1, <3>1
    <3>3. Unaged = 0
      BY <3>1 DEF Unaged
    <3>4. ASSUME NEW i \in DOMAIN entry'.pkt
          PROVE  orig.pkt[i].ttl + slips + 0 = orig.pkt[i].ttl + slips
      <4>1. orig.pkt \in Seq(Record) /\ slips \in Int /\ i \in DOMAIN orig.pkt
        BY <2>1, <3>4, SameRecords, TtlAssumption DEF Inv, TypeOK
      <4> QED BY <4>1, RecordFields
    <3> QED BY <3>2, <3>3, <3>4
  <2>2. CASE EarlyReturn
    <3>1. ToldEarly
      BY <1>2, <2>2
    <3>2. Unaged = now - entry.uptime
      BY <2>2 DEF EarlyReturn, Unaged
    <3> QED BY <3>1, <3>2
  <2>3. Hit \/ EarlyReturn
    BY DEF Next, Answer, Drop, Tick, SetClock
  <2> QED BY <2>1, <2>2, <2>3
<1> QED BY <1>3, Invariant, PTL DEF Spec, ToldInTime

-----------------------------------------------------------------------------
(* No TTL that counts is negative as an int.                               *)
Fine(p) ==
    \A i \in DOMAIN p :
        Decides(p[i]) /\ ~Expired(p[i], 0) /\ Counts(p, 0, i) => p[i].ttl <= IntMax

EntryFine == entry # NoEntry => Fine(entry.pkt)

(* A record that has expired stays so: what it hides stays hidden.         *)
LEMMA AgedStaysFine ==
    ASSUME NEW p \in Seq(Record), NEW d \in Nat, Fine(p)
    PROVE  Fine(Aged(p, d))
<1> DEFINE q == Aged(p, d)
<1>1. /\ q \in Seq(Record) /\ DOMAIN q = DOMAIN p
      /\ \A i \in DOMAIN p : /\ q[i].ttl = Left(p[i], d)
                             /\ Decides(q[i]) <=> Decides(p[i])
  BY AgedType
<1> HIDE DEF q
<1>2. ASSUME NEW j \in DOMAIN p, Decides(p[j]), Expired(p[j], 0)
      PROVE  Expired(q[j], 0)
  <2>1. p[j].ttl \in Int /\ 0 <= p[j].ttl /\ p[j].ttl <= 1
    BY <1>2, RecordFields DEF Expired
  <2>2. q[j].ttl = 1
    BY <1>1, <1>2, <2>1 DEF Left, Expired, Decides
  <2> QED BY <2>2 DEF Expired
<1>3. ASSUME NEW i \in DOMAIN q, Decides(q[i]), ~Expired(q[i], 0), Counts(q, 0, i)
      PROVE  q[i].ttl <= IntMax
  <2>1. Decides(p[i]) /\ q[i].ttl = Left(p[i], d)
    BY <1>1, <1>3
  <2>2. ~Expired(p[i], 0)
    BY <1>1, <1>2, <1>3, <2>1
  <2>3. Counts(p, 0, i)
    BY <1>1, <1>2, <1>3 DEF Counts
  <2>4. p[i].ttl <= IntMax
    BY <1>1, <2>1, <2>2, <2>3 DEF Fine
  <2>5. p[i].ttl \in Int /\ 0 <= p[i].ttl
    BY <1>1, RecordFields
  <2>6. q[i].ttl = p[i].ttl - d \/ q[i].ttl = 1
    BY <2>1 DEF Left, Decides
  <2>7. q[i].ttl # 1
    BY <1>3 DEF Expired
  <2> QED BY <2>4, <2>5, <2>6, <2>7, TtlAssumption
<1> QED BY <1>3 DEF Fine, q

(* A packet that manageTtl accepts has none ...                            *)
LEMMA UsableIsFine ==
    ASSUME NEW p \in Seq(Record), PacketTtl(p, 0) >= 0
    PROVE  Fine(p)
<1> SUFFICES ASSUME NEW i \in DOMAIN p, Decides(p[i]), ~Expired(p[i], 0),
                    Counts(p, 0, i)
             PROVE  p[i].ttl <= IntMax
  BY DEF Fine
<1>1. AsInt(p[i].ttl - 0) \in Limits(p[i], 0)
  BY DEF Limits
<1>2. PacketTtl(p, 0) \in Int /\ PacketTtl(p, 0) <= AsInt(p[i].ttl - 0)
  BY <1>1, PacketTtlType
<1>3. p[i].ttl \in Int /\ p[i].ttl <= 2 * IntMax + 1
  BY RecordFields
<1> QED BY <1>2, <1>3, TtlAssumption DEF AsInt

(* ... and one that has none is accepted, at any age.                      *)
LEMMA FineIsUsable ==
    ASSUME NEW p \in Seq(Record), NEW d \in Nat, Fine(p)
    PROVE  PacketTtl(p, d) >= 0
<1> DEFINE L == {IntMax} \cup UNION {Limits(p[i], d) :
                                       i \in {k \in DOMAIN p : Counts(p, d, k)}}
<1>1. IntMax \in Nat /\ DefaultTtl \in Nat /\ SoaCap \in Nat
  BY TtlAssumption
<1>2. ASSUME NEW i \in DOMAIN p, Counts(p, d, i), NEW x \in Limits(p[i], d)
      PROVE  x \in Int /\ 0 <= x
  <2>1. /\ p[i] \in Record /\ p[i].ttl \in Int /\ 0 <= p[i].ttl
        /\ p[i].minimum \in Int /\ 0 <= p[i].minimum
    BY RecordFields
  <2>2. CASE Decides(p[i]) /\ x = IF Expired(p[i], d) THEN 0 ELSE AsInt(p[i].ttl - d)
    <3>1. CASE Expired(p[i], d)
      BY <2>2, <3>1
    <3>2. CASE ~Expired(p[i], d)
      <4>1. p[i].ttl > d /\ p[i].ttl > 1
        BY <2>1, <3>2 DEF Expired
      <4>2. ~Expired(p[i], 0)
        BY <2>1, <4>1 DEF Expired
      <4>3. Counts(p, 0, i)
        <5>1. ASSUME NEW j \in DOMAIN p, Expired(p[j], 0) PROVE Expired(p[j], d)
          <6>1. p[j].ttl \in Int /\ 0 <= p[j].ttl
            BY RecordFields
          <6> QED BY <5>1, <6>1 DEF Expired
        <5> QED BY <1>2, <5>1 DEF Counts
      <4>4. p[i].ttl <= IntMax
        BY <2>2, <4>2, <4>3 DEF Fine
      <4>5. AsInt(p[i].ttl - d) = p[i].ttl - d
        BY <1>1, <2>1, <4>4 DEF AsInt
      <4> QED BY <2>1, <2>2, <3>2, <4>1, <4>5
    <3> QED BY <3>1, <3>2
  <2>3. CASE x = Smallest({p[i].minimum, SoaCap})
    <3>1. \A y \in {p[i].minimum, SoaCap} : 0 - 0 <= y
      BY <1>1, <2>1
    <3>2. {p[i].minimum, SoaCap} \in SUBSET Int
      BY <1>1, <2>1
    <3>3. x \in {p[i].minimum, SoaCap}
      BY <2>3, <3>1, <3>2, SmallestLemma
    <3> QED BY <1>1, <2>1, <3>3
  <2> QED BY <1>2, <2>2, <2>3 DEF Limits
<1>3. L \in SUBSET Int /\ L # {} /\ \A x \in L : 0 - 0 <= x
  BY <1>1, <1>2
<1>4. Smallest(L) \in L
  <2>1. 0 \in Nat
    OBVIOUS
  <2> HIDE DEF L
  <2> QED BY <1>3, <2>1, SmallestLemma
<1>5. PacketTtl(p, d) = IF Smallest(L) = IntMax THEN DefaultTtl ELSE Smallest(L)
  BY DEF PacketTtl
<1>6. \A x \in L : x \in Int /\ 0 <= x
  BY <1>1, <1>2
<1> HIDE DEF L
<1>7. Smallest(L) \in Int /\ 0 <= Smallest(L)
  BY <1>4, <1>6
<1> QED BY <1>1, <1>5, <1>7

LEMMA EntryFineNext == TypeOK /\ EntryFine /\ [Next]_vars => EntryFine'
<1> SUFFICES ASSUME TypeOK, EntryFine, [Next]_vars PROVE EntryFine'
  OBVIOUS
<1>1. ASSUME NEW p \in Packet, Answer(p) PROVE EntryFine'
  <2>1. p \in Seq(Record) /\ PacketTtl(p, 0) >= 0 /\ entry'.pkt = Aged(p, 0)
    BY <1>1, TtlAssumption DEF Answer
  <2>2. Fine(p)
    BY <2>1, UsableIsFine
  <2>3. Fine(Aged(p, 0))
    BY <2>1, <2>2, AgedStaysFine
  <2> QED BY <2>1, <2>3 DEF EntryFine, Fine, Counts
<1>2. CASE Hit
  <2>1. CASE Update
    <3>1. /\ entry.pkt \in Seq(Record) /\ Passed(entry) \in Nat
          /\ Fine(entry.pkt)
      BY <1>2, TtlAssumption DEF Hit, TypeOK, Entry, EntryFine, Passed
    <3>2. PICK p \in Seq(Record), d \in Nat : p = entry.pkt /\ d = Passed(entry)
      BY <3>1
    <3>3. entry'.pkt = Aged(p, d)
      BY <2>1, <3>2 DEF Update, Rewritten
    <3>4. Fine(Aged(p, d))
      BY <3>1, <3>2, AgedStaysFine
    <3> QED BY <3>3, <3>4 DEF EntryFine, Fine, Counts
  <2>2. CASE NoUpdate
    BY <2>2 DEF NoUpdate, EntryFine, Fine, Counts
  <2> QED BY <1>2, <2>1, <2>2 DEF Hit
<1>3. CASE EarlyReturn \/ Drop \/ Tick \/ SetClock \/ UNCHANGED vars
  BY <1>3 DEF EarlyReturn, Drop, Tick, SetClock, vars, EntryFine, Fine, Counts
<1> QED BY <1>1, <1>2, <1>3 DEF Next

(* What the cache holds is accepted by manageTtl at any later age, through *)
(* any number of updates: no request finds an entry it can neither use nor *)
(* bring up to date.                                                       *)
THEOREM EntriesStayUsable == Spec => []StaysUsable
<1>1. Init => EntryFine
  BY DEF Init, EntryFine
<1>2. TypeOK /\ EntryFine => StaysUsable
  <2> SUFFICES ASSUME TypeOK, EntryFine, entry # NoEntry, NEW d \in 0 .. MaxTime
               PROVE  PacketTtl(entry.pkt, d) >= 0
    BY DEF StaysUsable
  <2>1. entry.pkt \in Seq(Record) /\ Fine(entry.pkt) /\ d \in Nat
    BY TtlAssumption DEF TypeOK, Entry, EntryFine
  <2> QED BY <2>1, FineIsUsable
<1> QED BY <1>1, <1>2, EntryFineNext, TypeCorrect, PTL DEF Spec
=============================================================================
