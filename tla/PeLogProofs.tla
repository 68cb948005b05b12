---------------------------- MODULE PeLogProofs ----------------------------
(***************************************************************************)
(* Proofs about PeLog, for every limit of the size and number of files, any*)
(* number of rotations, restarts, signals, and any time between them.      *)
(***************************************************************************)
EXTENDS PeLog, FiniteSetTheorems, SequenceTheorems, TLAPS

(* In the order of the names, each once.                                   *)
Ordered(s) == \A i, j \in DOMAIN s : i < j => Before(s[i], s[j])

-----------------------------------------------------------------------------
(* Lemmas about numbers, names and sequences of names.                     *)

(* A set of natural numbers that is not empty has a smallest element ...   *)
LEMMA SmallestNumber ==
    ASSUME NEW S \in SUBSET Nat, S # {}
    PROVE  \E m \in S : \A n \in S : m <= n
<1> DEFINE R == {ss \in Nat \X Nat : ss[1] < ss[2]}
<1>1. IsWellFoundedOn(R, Nat)
  BY NatLessThanWellFounded DEF OpToRel
<1>2. PICK m \in S : \A n \in S : ~(<<n, m>> \in R)
  <2> HIDE DEF R
  <2> QED BY <1>1, WFMin
<1>3. \A n \in S : m <= n
  <2> SUFFICES ASSUME NEW n \in S PROVE m <= n
    OBVIOUS
  <2>1. ~(<<n, m>> \in R)
    BY <1>2
  <2>2. n \in Nat /\ m \in Nat
    OBVIOUS
  <2>3. ~(n < m)
    BY <2>1, <2>2
  <2> QED BY <2>2, <2>3
<1> QED BY <1>3

(* ... and a largest one, if it is bounded.                                *)
LEMMA LargestNumber ==
    ASSUME NEW b \in Nat, NEW S \in SUBSET (0 .. b), S # {}
    PROVE  \E m \in S : \A n \in S : n <= m
<1> DEFINE T == {b - n : n \in S}
<1>1. T \in SUBSET Nat /\ T # {}
  <2>1. \A n \in S : b - n \in Nat
    OBVIOUS
  <2> QED BY <2>1
<1>2. PICK t \in T : \A u \in T : t <= u
  <2> HIDE DEF T
  <2> QED BY <1>1, SmallestNumber
<1>3. PICK m \in S : t = b - m
  OBVIOUS
<1>4. \A n \in S : n <= m
  <2> SUFFICES ASSUME NEW n \in S PROVE n <= m
    OBVIOUS
  <2>1. t <= b - n
    BY <1>2
  <2>2. m \in Int /\ n \in Int /\ b \in Int
    OBVIOUS
  <2> QED BY <1>3, <2>1, <2>2
<1> QED BY <1>4

LEMMA NameFields ==
    ASSUME NEW f \in Name
    PROVE  f = <<f[1], f[2]>> /\ f[1] \in 0 .. MaxTime /\ f[2] \in 0 .. MaxRotated
BY DEF Name

LEMMA BeforeTotal ==
    ASSUME NEW f \in Name, NEW g \in Name
    PROVE  /\ ~Before(f, f)
           /\ Before(f, g) => ~Before(g, f)
           /\ f # g => Before(f, g) \/ Before(g, f)
BY NameFields, LogAssumption DEF Before

LEMMA NameFinite == IsFiniteSet(Name)
<1>1. IsFiniteSet(0 .. MaxTime) /\ IsFiniteSet(0 .. MaxRotated)
  BY LogAssumption, FS_Interval
<1> QED BY <1>1, FS_Product DEF Name

(* Of names there is a last one.                                           *)
LEMMA LastName ==
    ASSUME NEW D \in SUBSET Name, D # {}
    PROVE  \E m \in D : \A f \in D \ {m} : Before(f, m)
<1> DEFINE T == {f[1] : f \in D}
<1>1. PICK t \in T : \A u \in T : u <= t
  <2>1. T \in SUBSET (0 .. MaxTime) /\ T # {}
    BY NameFields
  <2> HIDE DEF T
  <2> QED BY <2>1, LargestNumber, LogAssumption
<1> DEFINE I == {i \in 0 .. MaxRotated : <<t, i>> \in D}
<1>2. PICK i \in I : \A j \in I : j <= i
  <2>1. I \in SUBSET (0 .. MaxRotated)
    OBVIOUS
  <2>2. I # {}
    BY <1>1, NameFields
  <2> HIDE DEF I
  <2> QED BY <2>1, <2>2, LargestNumber, LogAssumption
<1>3. \A f \in D \ {<<t, i>>} : Before(f, <<t, i>>)
  <2> SUFFICES ASSUME NEW f \in D, f # <<t, i>> PROVE Before(f, <<t, i>>)
    OBVIOUS
  <2>1. f[1] <= t
    BY <1>1
  <2>2. f = <<f[1], f[2]>> /\ f[1] \in Int /\ f[2] \in 0 .. MaxRotated
    BY NameFields, LogAssumption
  <2>3. f[1] = t => f[2] \in I
    BY <2>2
  <2>4. t \in Int /\ i \in Int
    BY <1>1, <1>2, NameFields, LogAssumption
  <2>5. f[1] = t => f[2] <= i /\ f[2] # i
    BY <1>2, <2>2, <2>3
  <2>6. f[1] < t \/ (f[1] = t /\ f[2] < i)
    <3>1. f[2] \in Int
      BY <2>2, LogAssumption
    <3> QED BY <2>1, <2>2, <2>4, <2>5, <3>1
  <2> QED BY <2>6 DEF Before
<1> QED BY <1>2, <1>3

(* Any set of names can be listed in their order, by taking the last away  *)
(* until none is left.                                                     *)
LEMMA ListingExists ==
    ASSUME NEW D \in SUBSET Name
    PROVE  \E s \in [1 .. Cardinality(D) -> D] : Ordered(s)
<1> DEFINE Lists(T) == \E s \in [1 .. Cardinality(T) -> T] : Ordered(s)
           Bad == {T \in SUBSET Name : ~Lists(T)}
           Sizes == {Cardinality(T) : T \in Bad}
<1>1. \A T \in SUBSET Name : IsFiniteSet(T) /\ Cardinality(T) \in Nat
  BY NameFinite, FS_Subset, FS_CardinalityType
<1>2. SUFFICES ASSUME Bad # {} PROVE FALSE
  OBVIOUS
<1>3. PICK T \in Bad : \A U \in Bad : Cardinality(T) <= Cardinality(U)
  <2>1. Sizes \in SUBSET Nat /\ Sizes # {}
    BY <1>1, <1>2
  <2>2. PICK n \in Sizes : \A m \in Sizes : n <= m
    <3> HIDE DEF Sizes
    <3> QED BY <2>1, SmallestNumber
  <2> QED BY <2>2
<1>4. T \in SUBSET Name /\ ~Lists(T)
  OBVIOUS
<1>5. T # {}
  <2> SUFFICES ASSUME T = {} PROVE FALSE
    OBVIOUS
  <2>1. Cardinality(T) = 0
    BY FS_EmptySet
  <2> DEFINE none == [i \in 1 .. 0 |-> i]
  <2>2. none \in [1 .. 0 -> T] /\ Ordered(none)
    BY DEF Ordered
  <2> QED BY <1>4, <2>1, <2>2
<1>6. PICK m \in T : \A f \in T \ {m} : Before(f, m)
  BY <1>4, <1>5, LastName
<1> DEFINE U == T \ {m}
           n == Cardinality(T)
<1>7. n \in Nat \ {0} /\ Cardinality(U) = n - 1
  BY <1>1, <1>4, <1>5, FS_RemoveElement, FS_EmptySet
<1>8. PICK s \in [1 .. n - 1 -> U] : Ordered(s)
  <2>1. U \in SUBSET Name /\ ~(n <= n - 1)
    BY <1>4, <1>7
  <2>2. U \notin Bad
    <3> HIDE DEF Bad, U
    <3> QED BY <1>3, <1>7, <2>1
  <2>3. Lists(U)
    BY <2>1, <2>2
  <2> QED BY <1>7, <2>3
<1> DEFINE t == [i \in 1 .. n |-> IF i = n THEN m ELSE s[i]]
<1>9. t \in [1 .. n -> T]
  <2>1. \A i \in 1 .. n : i # n => i \in 1 .. n - 1
    BY <1>7
  <2> HIDE DEF n
  <2> QED BY <1>8, <2>1
<1>10. Ordered(t)
  <2> SUFFICES ASSUME NEW i \in 1 .. n, NEW j \in 1 .. n, i < j
               PROVE  Before(t[i], t[j])
    BY DEF Ordered
  <2>1. i \in 1 .. n - 1 /\ i # n
    BY <1>7
  <2>2. CASE j = n
    BY <1>6, <1>8, <2>1, <2>2
  <2>3. CASE j # n
    <3>1. j \in 1 .. n - 1
      BY <1>7, <2>3
    <3>2. Before(s[i], s[j])
      BY <1>8, <2>1, <3>1 DEF Ordered
    <3> QED BY <2>1, <2>3, <3>2
  <2> QED BY <2>2, <2>3
<1> QED BY <1>4, <1>9, <1>10

LEMMA OrderedIsInjective ==
    ASSUME NEW s \in Seq(Name), Ordered(s)
    PROVE  IsInjective(s)
<1> SUFFICES ASSUME NEW i \in DOMAIN s, NEW j \in DOMAIN s, s[i] = s[j], i # j
             PROVE  FALSE
  BY DEF IsInjective
<1>1. i < j \/ j < i
  OBVIOUS
<1>2. s[i] \in Name
  OBVIOUS
<1> QED BY <1>1, <1>2, BeforeTotal DEF Ordered

(* As many names as there are in a sequence, if none is there twice.       *)
LEMMA InjectiveCount ==
    ASSUME NEW s \in Seq(Name), IsInjective(s)
    PROVE  Cardinality(Range(s)) = Len(s)
<1>1. s \in Bijection(1 .. Len(s), Range(s))
  BY DEF Bijection, Injection, Surjection, IsInjective, Range
<1> QED BY <1>1, FS_CountingElements DEF ExistsBijection

(* What setrot finds is all the history files there are, in their order.   *)
LEMMA ScannedIs ==
    ASSUME DOMAIN disk \subseteq Name
    PROVE  /\ Scanned \in Seq(Name)
           /\ Ordered(Scanned)
           /\ Range(Scanned) = DOMAIN disk
<1>1. PICK D \in SUBSET Name : D = DOMAIN disk
  OBVIOUS
<1>2. IsFiniteSet(D) /\ Cardinality(D) \in Nat
  BY NameFinite, FS_Subset, FS_CardinalityType
<1>3. \E s \in [1 .. Cardinality(D) -> D] :
         \A i, j \in DOMAIN s : i < j => Before(s[i], s[j])
  BY ListingExists DEF Ordered
<1>4. PICK s : s = Scanned
  OBVIOUS
<1>5. s \in [1 .. Cardinality(D) -> D] /\ Ordered(s)
  BY <1>1, <1>3, <1>4 DEF Scanned, Listings, Ordered
<1>6. s \in Seq(Name) /\ Len(s) = Cardinality(D)
  BY <1>2, <1>5
<1>7. s \in Injection(1 .. Cardinality(D), D)
  BY <1>5, <1>6, OrderedIsInjective DEF Injection
<1>8. Cardinality(1 .. Cardinality(D)) = Cardinality(D)
  BY <1>2, FS_Interval
<1>9. s \in Surjection(1 .. Cardinality(D), D)
  BY <1>2, <1>7, <1>8, FS_Injection
<1>10. Range(s) = D
  BY <1>5, <1>9 DEF Surjection, Range
<1> QED BY <1>1, <1>4, <1>5, <1>6, <1>10

(* Of the files found the first ones go and the rest are kept.             *)
LEMMA SplitListing ==
    ASSUME NEW s \in Seq(Name), Ordered(s), NEW k \in 0 .. Len(s)
    PROVE  /\ SubSeq(s, k + 1, Len(s)) \in Seq(Name)
           /\ Len(SubSeq(s, k + 1, Len(s))) = Len(s) - k
           /\ Ordered(SubSeq(s, k + 1, Len(s)))
           /\ Range(SubSeq(s, 1, k)) \subseteq Range(s)
           /\ Range(SubSeq(s, k + 1, Len(s))) = Range(s) \ Range(SubSeq(s, 1, k))
           /\ \A f \in Range(SubSeq(s, 1, k)), g \in Range(SubSeq(s, k + 1, Len(s))) :
                Before(f, g)
<1> DEFINE a == SubSeq(s, 1, k)
           b == SubSeq(s, k + 1, Len(s))
<1>1. Len(s) \in Nat /\ k \in Nat /\ k <= Len(s)
  OBVIOUS
<1>2. a \in Seq(Name) /\ Len(a) = k /\ \A i \in 1 .. k : a[i] = s[i]
  OBVIOUS
<1>3. /\ b \in Seq(Name) /\ Len(b) = Len(s) - k
      /\ \A i \in 1 .. Len(s) - k : b[i] = s[i + k]
  OBVIOUS
<1> HIDE DEF a, b
<1>4. DOMAIN a = 1 .. k /\ DOMAIN b = 1 .. Len(s) - k /\ DOMAIN s = 1 .. Len(s)
  BY <1>2, <1>3
<1>5. Ordered(b)
  <2> SUFFICES ASSUME NEW i \in DOMAIN b, NEW j \in DOMAIN b, i < j
               PROVE  Before(b[i], b[j])
    BY DEF Ordered
  <2>1. i + k \in DOMAIN s /\ j + k \in DOMAIN s /\ i + k < j + k
    BY <1>1, <1>4
  <2> QED BY <1>3, <1>4, <2>1 DEF Ordered
<1>6. Range(a) = {s[i] : i \in 1 .. k}
  BY <1>2, <1>4 DEF Range
<1>7. Range(b) = {s[i] : i \in k + 1 .. Len(s)}
  <2>1. \A i \in k + 1 .. Len(s) : i - k \in 1 .. Len(s) - k /\ s[i] = b[i - k]
    BY <1>1, <1>3
  <2>2. \A i \in 1 .. Len(s) - k : i + k \in k + 1 .. Len(s) /\ b[i] = s[i + k]
    BY <1>1, <1>3
  <2> QED BY <1>4, <2>1, <2>2 DEF Range
<1>8. \A f \in Range(a), g \in Range(b) : Before(f, g)
  <2> SUFFICES ASSUME NEW f \in Range(a), NEW g \in Range(b)
               PROVE  Before(f, g)
    OBVIOUS
  <2>1. PICK i \in 1 .. k : f = s[i]
    BY <1>6
  <2>2. PICK j \in k + 1 .. Len(s) : g = s[j]
    BY <1>7
  <2>3. i \in DOMAIN s /\ j \in DOMAIN s /\ i < j
    BY <1>1, <1>4
  <2> QED BY <2>1, <2>2, <2>3 DEF Ordered
<1>9. Range(s) = Range(a) \cup Range(b)
  <2>1. \A i \in 1 .. Len(s) : i \in 1 .. k \/ i \in k + 1 .. Len(s)
    BY <1>1
  <2>2. \A i \in 1 .. k : i \in 1 .. Len(s)
    BY <1>1
  <2>3. \A i \in k + 1 .. Len(s) : i \in 1 .. Len(s)
    BY <1>1
  <2> QED BY <1>4, <1>6, <1>7, <2>1, <2>2, <2>3 DEF Range
<1>10. Range(a) \cap Range(b) = {}
  <2>1. Range(s) \subseteq Name
    BY <1>4 DEF Range
  <2>2. \A f \in Range(s) : ~Before(f, f)
    BY <2>1, BeforeTotal
  <2> QED BY <1>8, <1>9, <2>2
<1> QED BY <1>3, <1>5, <1>8, <1>9, <1>10 DEF a, b

(* Without its front a sequence of names is what was behind it.            *)
LEMMA TailIs ==
    ASSUME NEW s \in Seq(Name), IsInjective(s), s # <<>>
    PROVE  /\ Tail(s) \in Seq(Name)
           /\ Len(Tail(s)) = Len(s) - 1
           /\ IsInjective(Tail(s))
           /\ Head(s) \in Range(s)
           /\ Range(Tail(s)) = Range(s) \ {Head(s)}
           /\ Ordered(s) => /\ Ordered(Tail(s))
                            /\ \A f \in Range(Tail(s)) : Before(Head(s), f)
<1> DEFINE t == Tail(s)
<1>1. Len(s) \in Nat \ {0} /\ DOMAIN s = 1 .. Len(s) /\ Head(s) = s[1]
  OBVIOUS
<1>2. t \in Seq(Name) /\ Len(t) = Len(s) - 1 /\ \A i \in 1 .. Len(s) - 1 : t[i] = s[i + 1]
  OBVIOUS
<1> HIDE DEF t
<1>3. DOMAIN t = 1 .. Len(s) - 1
  BY <1>2
<1>4. \A i \in DOMAIN t : i + 1 \in DOMAIN s /\ i + 1 # 1 /\ t[i] = s[i + 1]
  BY <1>1, <1>2, <1>3
<1>5. \A i \in DOMAIN s \ {1} : i - 1 \in DOMAIN t /\ s[i] = t[i - 1]
  BY <1>1, <1>2, <1>3
<1>6. IsInjective(t)
  <2> SUFFICES ASSUME NEW i \in DOMAIN t, NEW j \in DOMAIN t, t[i] = t[j]
               PROVE  i = j
    BY DEF IsInjective
  <2>1. i + 1 = j + 1
    BY <1>4 DEF IsInjective
  <2> QED BY <1>3, <2>1
<1>7. Head(s) \in Range(s)
  BY <1>1 DEF Range
<1>8. Range(t) = Range(s) \ {Head(s)}
  <2>1. \A i \in DOMAIN t : t[i] \in Range(s) /\ t[i] # s[1]
    <3>1. 1 \in DOMAIN s
      BY <1>1
    <3> QED BY <1>4, <3>1 DEF Range, IsInjective
  <2>2. \A i \in DOMAIN s : s[i] # s[1] => s[i] \in Range(t)
    BY <1>5 DEF Range
  <2> QED BY <1>1, <2>1, <2>2 DEF Range
<1>9. ASSUME Ordered(s)
      PROVE  Ordered(t) /\ \A f \in Range(t) : Before(Head(s), f)
  <2>1. Ordered(t)
    <3> SUFFICES ASSUME NEW i \in DOMAIN t, NEW j \in DOMAIN t, i < j
                 PROVE  Before(t[i], t[j])
      BY DEF Ordered
    <3>1. i + 1 < j + 1
      BY <1>3
    <3> QED BY <1>4, <1>9, <3>1 DEF Ordered
  <2>2. \A i \in DOMAIN t : Before(s[1], t[i])
    <3> TAKE i \in DOMAIN t
    <3>1. 1 \in DOMAIN s /\ 1 < i + 1
      BY <1>1, <1>3
    <3> QED BY <1>4, <1>9, <3>1 DEF Ordered
  <2> QED BY <1>1, <2>1, <2>2 DEF Range
<1> QED BY <1>2, <1>6, <1>7, <1>8, <1>9 DEF t

(* With a new name at its back a sequence of names has one more.           *)
LEMMA AppendIs ==
    ASSUME NEW s \in Seq(Name), IsInjective(s), NEW f \in Name, f \notin Range(s)
    PROVE  /\ Append(s, f) \in Seq(Name)
           /\ Len(Append(s, f)) = Len(s) + 1
           /\ IsInjective(Append(s, f))
           /\ Range(Append(s, f)) = Range(s) \cup {f}
           /\ Ordered(s) /\ (\A g \in Range(s) : Before(g, f)) =>
                Ordered(Append(s, f))
<1> DEFINE t == Append(s, f)
<1>1. Len(s) \in Nat /\ DOMAIN s = 1 .. Len(s)
  OBVIOUS
<1>2. /\ t \in Seq(Name) /\ Len(t) = Len(s) + 1
      /\ t[Len(s) + 1] = f /\ \A i \in 1 .. Len(s) : t[i] = s[i]
  OBVIOUS
<1> HIDE DEF t
<1>3. DOMAIN t = 1 .. Len(s) + 1 /\ Len(s) + 1 \in DOMAIN t
  BY <1>1, <1>2
<1>4. \A i \in DOMAIN s : s[i] \in Range(s) /\ i \in DOMAIN t /\ t[i] = s[i] /\ i < Len(s) + 1
  BY <1>1, <1>2, <1>3 DEF Range
<1>5. \A i \in DOMAIN t : i \in DOMAIN s \/ i = Len(s) + 1
  BY <1>1, <1>3
<1>6. IsInjective(t)
  BY <1>2, <1>4, <1>5 DEF IsInjective
<1>7. Range(t) = Range(s) \cup {f}
  BY <1>2, <1>3, <1>4, <1>5 DEF Range
<1>8. ASSUME Ordered(s), \A g \in Range(s) : Before(g, f)
      PROVE  Ordered(t)
  <2> SUFFICES ASSUME NEW i \in DOMAIN t, NEW j \in DOMAIN t, i < j
               PROVE  Before(t[i], t[j])
    BY DEF Ordered
  <2>1. i \in DOMAIN s
    BY <1>1, <1>3
  <2> QED BY <1>2, <1>4, <1>5, <1>8, <2>1 DEF Ordered
<1> QED BY <1>2, <1>6, <1>7, <1>8 DEF t

-----------------------------------------------------------------------------
(* The inductive invariant.                                                *)

(* No rotation makes two files, none is named for a time to come, and as   *)
(* long as no name has been taken again in its second, names tell the age. *)
DiskInv ==
    /\ \A f, g \in DOMAIN disk : disk[f] = disk[g] => f = g
    /\ \A f \in DOMAIN disk : f[1] <= now
    /\ ~twice => \A f, g \in DOMAIN disk : Before(f, g) => disk[f] < disk[g]

KeptInv ==
    /\ left \subseteq DOMAIN disk
    /\ IsInjective(kept)
    /\ AllKept
    /\ ~twice => Ordered(kept)

(* At most one call has passed the lock, and only while it is locked.      *)
Inside == {"trim", "open", "print"}

LockInv ==
    /\ ~up => stack = <<>>
    /\ ~lock => \A i \in DOMAIN stack : stack[i].pc \notin Inside
    /\ \A i, j \in DOMAIN stack :
         stack[i].pc \in Inside /\ stack[j].pc \in Inside => i = j

(* fsize counts at least what is in the file, unless that should have been *)
(* removed; who rotates has closed it, and who prints has found room in it.*)
FileInv ==
    /\ up /\ stream = "file" /\ ~grown => cur <= fsize
    /\ \A i \in DOMAIN stack :
         /\ stack[i].pc \in {"trim", "open"} => stream = "stderr"
         /\ stack[i].pc = "open" => cur = Absent \/ grown
         /\ stack[i].pc = "print" /\ stream = "file" =>
              cur < MaxSize \/ cur = 0 \/ grown

Inv == TypeOK /\ DiskInv /\ KeptInv /\ LockInv /\ FileInv

(* Every second has more names than there can be rotations.                *)
LEMMA FreshIs ==
    ASSUME TypeOK, DiskInv, rotated < MaxRotated
    PROVE  /\ Fresh \in Name /\ Fresh[1] = now /\ Fresh \notin DOMAIN disk
           /\ \A i \in 0 .. Fresh[2] - 1 : <<now, i>> \in DOMAIN disk
<1> DEFINE Free1 == {i \in 0 .. MaxRotated : <<now, i>> \notin DOMAIN disk}
<1>1. now \in 0 .. MaxTime /\ rotated \in Nat /\ MaxRotated \in Nat
  BY LogAssumption DEF TypeOK
<1>2. Free1 # {}
  <2> SUFFICES ASSUME \A i \in 0 .. MaxRotated : <<now, i>> \in DOMAIN disk
               PROVE  FALSE
    OBVIOUS
  <2> DEFINE S == 0 .. MaxRotated
             T == 1 .. rotated
             g == [i \in S |-> disk[<<now, i>>]]
  <2>1. g \in [S -> T]
    BY DEF TypeOK
  <2>2. /\ IsFiniteSet(S) /\ Cardinality(S) = MaxRotated + 1
        /\ IsFiniteSet(T) /\ Cardinality(T) = rotated
    BY <1>1, FS_Interval
  <2>3. Cardinality(T) < Cardinality(S)
    BY <1>1, <2>2
  <2>4. \E i, j \in S : i # j /\ g[i] = g[j]
    <3> HIDE DEF S, T, g
    <3> QED BY <2>1, <2>2, <2>3, FS_PigeonHole
  <2>5. PICK i, j \in S : i # j /\ disk[<<now, i>>] = disk[<<now, j>>]
    BY <2>4
  <2>6. <<now, i>> = <<now, j>>
    BY <2>5 DEF DiskInv
  <2> QED BY <2>5, <2>6
<1>3. PICK m \in Free1 : \A n \in Free1 : m <= n
  <2>1. Free1 \in SUBSET Nat
    BY <1>1
  <2> HIDE DEF Free1
  <2> QED BY <1>2, <2>1, SmallestNumber
<1>4. m \in 0 .. MaxRotated /\ <<now, m>> \notin DOMAIN disk
  OBVIOUS
<1>5. \A i \in 0 .. m - 1 : <<now, i>> \in DOMAIN disk
  <2> SUFFICES ASSUME NEW i \in 0 .. m - 1, <<now, i>> \notin DOMAIN disk
               PROVE  FALSE
    OBVIOUS
  <2>1. i \in 0 .. MaxRotated /\ i < m
    BY <1>1, <1>4
  <2>2. i \in Free1
    BY <2>1
  <2>3. m <= i
    <3> HIDE DEF Free1
    <3> QED BY <1>3, <2>2
  <2> QED BY <1>1, <1>4, <2>1, <2>3
<1> DEFINE name == <<now, m>>
<1>6. /\ name \in Name /\ name[1] = now /\ name \notin DOMAIN disk
      /\ \A i \in 0 .. name[2] - 1 : <<now, i>> \in DOMAIN disk
  BY <1>1, <1>4, <1>5 DEF Name
<1>7. \E f \in Name : f[1] = now /\ f \notin DOMAIN disk /\
            \A i \in 0 .. f[2] - 1 : <<now, i>> \in DOMAIN disk
  <2> HIDE DEF name
  <2> QED BY <1>6
<1> QED BY <1>7 DEF Fresh

(* A new name is behind all others, unless it is noted that it is not.     *)
LEMMA FreshIsLast ==
    ASSUME TypeOK, DiskInv, rotated < MaxRotated,
           ~\E f \in DOMAIN disk : f[1] = now /\ Before(Fresh, f)
    PROVE  \A f \in DOMAIN disk : Before(f, Fresh)
<1> SUFFICES ASSUME NEW f \in DOMAIN disk PROVE Before(f, Fresh)
  OBVIOUS
<1>1. PICK g : g = Fresh
  OBVIOUS
<1>2. g \in Name /\ g[1] = now /\ g \notin DOMAIN disk
  BY <1>1, FreshIs
<1>3. f \in Name /\ f[1] <= now /\ f # g
  BY <1>2 DEF TypeOK, DiskInv
<1>4. CASE f[1] = now
  <2>1. ~Before(g, f)
    BY <1>1, <1>4
  <2> QED BY <1>1, <1>2, <1>3, <2>1, BeforeTotal
<1>5. CASE f[1] # now
  <2>1. f[1] \in Int /\ now \in Int
    BY <1>3, NameFields, LogAssumption DEF TypeOK
  <2>2. f[1] < g[1]
    BY <1>2, <1>3, <1>5, <2>1
  <2> QED BY <1>1, <2>2 DEF Before
<1> QED BY <1>4, <1>5

(* Start, as far as it keeps and removes files: the first of them go.      *)
LEMMA StartKeeps ==
    ASSUME DOMAIN disk \subseteq Name, keep' \in Nat, keep' > 0
    PROVE  LET a == Range(SubSeq(Scanned, 1, Surplus))
               b == SubSeq(Scanned, Surplus + 1, Len(Scanned))
           IN  /\ b \in Seq(Name) /\ Len(b) + 1 <= keep'
               /\ Ordered(b) /\ IsInjective(b)
               /\ Len(b) = Cardinality(Range(b))
               /\ a \subseteq DOMAIN disk
               /\ Range(b) = DOMAIN disk \ a
               /\ \A f \in a, g \in Range(b) : Before(f, g)
<1>1. PICK s : s = Scanned
  OBVIOUS
<1>2. s \in Seq(Name) /\ Ordered(s) /\ Range(s) = DOMAIN disk
  BY <1>1, ScannedIs
<1>3. PICK k : k = Surplus
  OBVIOUS
<1>4. k = Max2(0, Len(s) + 1 - keep')
  BY <1>1, <1>3 DEF Surplus
<1>5. k \in 0 .. Len(s) /\ Len(s) - k + 1 <= keep'
  <2>1. Len(s) \in Nat
    BY <1>2
  <2> QED BY <1>4, <2>1 DEF Max2
<1> DEFINE b == SubSeq(s, k + 1, Len(s))
<1>6. /\ b \in Seq(Name) /\ Len(b) = Len(s) - k
      /\ Ordered(b)
      /\ Range(SubSeq(s, 1, k)) \subseteq Range(s)
      /\ Range(b) = Range(s) \ Range(SubSeq(s, 1, k))
      /\ \A f \in Range(SubSeq(s, 1, k)), g \in Range(b) : Before(f, g)
  BY <1>2, <1>5, SplitListing
<1>7. IsInjective(b) /\ Len(b) = Cardinality(Range(b))
  <2> HIDE DEF b
  <2> QED BY <1>6, OrderedIsInjective, InjectiveCount
<1>8. Len(b) + 1 <= keep'
  <2> HIDE DEF b
  <2> QED BY <1>5, <1>6
<1> QED BY <1>1, <1>2, <1>3, <1>6, <1>7, <1>8

-----------------------------------------------------------------------------
(* The invariant holds at the start, and every step preserves it.          *)
LEMMA InitInv == Init => Inv
<1> SUFFICES ASSUME Init PROVE Inv
  OBVIOUS
<1>1. TypeOK
  <2>1. kept \in Seq(Name) /\ stack \in Seq(Frame)
    BY EmptySeq DEF Init
  <2>2. DOMAIN disk = {} /\ keep \in Nat
    BY LogAssumption DEF Init
  <2>3. /\ cur \in 0 .. SizeCap \cup {Absent} /\ now \in 0 .. MaxTime
        /\ fsize \in 0 .. SizeCap /\ signals \in 0 .. MaxSignals
        /\ rotated \in 0 .. MaxRotated
    BY LogAssumption DEF Init
  <2>4. up = FALSE /\ lock = FALSE /\ mutex = FALSE /\ stopped = FALSE /\ twice = FALSE /\ grown = FALSE
        /\ hung = FALSE /\ crashed = FALSE
    BY DEF Init
  <2>5. stream \in {"file", "stderr"} /\ left = {}
    BY DEF Init
  <2> QED BY <2>1, <2>2, <2>3, <2>4, <2>5 DEF TypeOK
<1>2. DiskInv
  BY DEF Init, DiskInv
<1>3. KeptInv
  BY DEF Init, KeptInv, AllKept, IsInjective, Ordered
<1>4. LockInv /\ FileInv
  BY DEF Init, LockInv, FileInv
<1> QED BY <1>1, <1>2, <1>3, <1>4 DEF Inv

PcOf == {"enter", "trim", "open", "print", "stop", "unlock"}

(* The top of the stack is the call that runs.                             *)
LEMMA StackTop ==
    ASSUME TypeOK, stack # <<>>
    PROVE  /\ Len(stack) \in DOMAIN stack
           /\ Top \in Frame
           /\ \A pc \in PcOf :
                GoTo(pc) =>
                  /\ stack' \in Seq(Frame)
                  /\ DOMAIN stack' = DOMAIN stack
                  /\ stack'[Len(stack)].pc = pc
                  /\ \A i \in DOMAIN stack \ {Len(stack)} : stack'[i] = stack[i]
<1>1. stack \in Seq(Frame) /\ Len(stack) \in DOMAIN stack
  BY DEF TypeOK
<1>2. Top \in Frame
  BY <1>1 DEF Top
<1>3. ASSUME NEW pc \in PcOf, GoTo(pc)
      PROVE  /\ stack' \in Seq(Frame)
             /\ DOMAIN stack' = DOMAIN stack
             /\ stack'[Len(stack)].pc = pc
             /\ \A i \in DOMAIN stack \ {Len(stack)} : stack'[i] = stack[i]
  <2>1. [stack[Len(stack)] EXCEPT !.pc = pc] \in Frame
    <3>1. PICK r : r = stack[Len(stack)]
      OBVIOUS
    <3>2. r \in Frame
      BY <1>1, <3>1
    <3>3. [r EXCEPT !.pc = pc] \in Frame
      BY <3>2 DEF Frame, PcOf
    <3> QED BY <3>1, <3>3
  <2>2. stack' = [stack EXCEPT ![Len(stack)] = [stack[Len(stack)] EXCEPT !.pc = pc]]
    BY <1>3 DEF GoTo
  <2>3. stack[Len(stack)] \in Frame
    BY <1>1
  <2> QED BY <1>1, <2>1, <2>2, <2>3 DEF Frame
<1> QED BY <1>1, <1>2, <1>3

LEMMA DownType ==
    ASSUME TypeOK, Down, UNCHANGED <<files, now, keep, rotated, twice>>,
           crashed' \in BOOLEAN
    PROVE  TypeOK'
<1>1. kept' \in Seq(Name) /\ stack' \in Seq(Frame)
  BY EmptySeq DEF Down
<1>2. up' = FALSE /\ lock' = FALSE /\ mutex' = FALSE /\ stopped' = FALSE
      /\ grown' = FALSE /\ hung' = FALSE
  BY DEF Down
<1>3. stream' \in {"file", "stderr"} /\ fsize' \in 0 .. SizeCap
      /\ signals' \in 0 .. MaxSignals /\ left' = {}
  BY LogAssumption DEF Down
<1> QED BY <1>1, <1>2, <1>3 DEF TypeOK, files

LEMMA TypeStep == Inv /\ [Next]_vars => TypeOK'
<1> SUFFICES ASSUME Inv, [Next]_vars PROVE TypeOK'
  OBVIOUS
<1>0. TypeOK
  BY DEF Inv
<1>1. CASE StartCrashes
  BY <1>0, <1>1, LogAssumption DEF StartCrashes, TypeOK
<1>2. CASE Start
  <2>1. DOMAIN disk \subseteq Name /\ keep' \in Nat /\ keep' > 0
    BY <1>0, <1>2, LogAssumption DEF Start, TypeOK
  <2>2. kept' \in Seq(Name)
    BY <1>2, <2>1, StartKeeps DEF Start
  <2>3. /\ DOMAIN disk' \subseteq DOMAIN disk
        /\ \A f \in DOMAIN disk' : disk'[f] = disk[f]
        /\ left' \subseteq DOMAIN disk
    BY <1>2, <2>1, StartKeeps DEF Start
  <2>4. Max2(cur, 0) \in 0 .. SizeCap
    BY <1>0, LogAssumption DEF TypeOK, Max2, Absent
  <2>5. /\ cur' \in 0 .. SizeCap \cup {Absent} /\ fsize' \in 0 .. SizeCap
        /\ up' \in BOOLEAN /\ stream' \in {"file", "stderr"}
    BY <1>0, <1>2, <2>4 DEF Start, SizeFound, TypeOK
  <2>6. /\ now' = now /\ lock' = lock /\ mutex' = mutex /\ stack' = stack /\ stopped' = stopped
        /\ signals' = signals /\ rotated' = rotated /\ twice' = twice
        /\ grown' = grown /\ hung' = hung /\ crashed' = FALSE
    BY <1>2 DEF Start
  <2> QED BY <1>0, <2>1, <2>2, <2>3, <2>5, <2>6 DEF TypeOK
<1>3. CASE Log
  BY <1>0, <1>3 DEF Log, TypeOK, Frame, Others, files, history
<1>16. CASE Take \/ Release
  BY <1>0, <1>16 DEF Take, Release, TypeOK, Others, files, history
<1>17. CASE StopEnter
  <2>1. stack' \in Seq(Frame)
    BY <1>0, <1>17, StackTop DEF StopEnter, In, PcOf
  <2> QED BY <1>0, <1>17, <2>1 DEF StopEnter, TypeOK, Others, files, history
<1>18. CASE StopLeave
  <2>1. stack' \in Seq(Frame)
    BY <1>0, <1>18 DEF StopLeave, In, Front, TypeOK
  <2> QED BY <1>0, <1>18, <2>1 DEF StopLeave, TypeOK, Others, files, history
<1>4. CASE Signal
  <2>1. [signal |-> TRUE, pc |-> "enter"] \in Frame
    BY DEF Frame
  <2>2. stack' \in Seq(Frame)
    BY <1>0, <1>4, <2>1 DEF Signal, TypeOK
  <2>3. signals' \in 0 .. MaxSignals
    BY <1>0, <1>4, LogAssumption DEF Signal, TypeOK
  <2>4. hung' \in BOOLEAN
    BY <1>0, <1>4 DEF Signal, TypeOK
  <2> QED BY <1>0, <1>4, <2>2, <2>3, <2>4 DEF Signal, TypeOK, Others, files
<1>5. CASE Enter
  <2>1. stack' \in Seq(Frame)
    BY <1>0, <1>5, StackTop DEF Enter, In, PcOf
  <2> QED BY <1>0, <1>5, <2>1 DEF Enter, TypeOK, files, history
<1>6. CASE Trim
  <2>1. Tail(kept) \in Seq(Name) /\ Head(kept) \in Name
    BY <1>0, <1>6 DEF Trim, TypeOK
  <2> QED BY <1>0, <1>6, <2>1 DEF Trim, TypeOK, Dropped
<1>7. CASE TrimCrashes
  BY <1>0, <1>7, DownType DEF TrimCrashes
<1>8. CASE Rename
  <2>1. PICK g : g = Fresh
    OBVIOUS
  <2>2. g \in Name
    BY <1>8, <2>1, FreshIs DEF Rename, Inv
  <2>3. /\ DOMAIN disk' \subseteq Name /\ rotated' \in 0 .. MaxRotated
        /\ \A f \in DOMAIN disk' : disk'[f] \in 1 .. rotated'
    BY <1>0, <1>8, <2>1, <2>2, LogAssumption DEF Rename, TypeOK
  <2>4. kept' \in Seq(Name)
    BY <1>0, <1>8, <2>1, <2>2 DEF Rename, TypeOK
  <2>5. stack' \in Seq(Frame)
    BY <1>0, <1>8, StackTop DEF Rename, In, PcOf
  <2>6. twice' \in BOOLEAN /\ cur' = Absent /\ fsize' \in 0 .. SizeCap
    BY <1>0, <1>8, LogAssumption DEF Rename, TypeOK
  <2> QED BY <1>0, <1>8, <2>3, <2>4, <2>5, <2>6 DEF Rename, TypeOK
<1>9. CASE GiveUp
  <2>1. stack' \in Seq(Frame)
    BY <1>0, <1>9, StackTop DEF GiveUp, In, PcOf
  <2>2. cur' \in 0 .. SizeCap \cup {Absent} /\ fsize' \in 0 .. SizeCap
    BY <1>0, <1>9, LogAssumption DEF GiveUp, TypeOK
  <2>3. grown' \in BOOLEAN
    BY <1>0, <1>9 DEF GiveUp, TypeOK
  <2> QED BY <1>0, <1>9, <2>1, <2>2, <2>3 DEF GiveUp, TypeOK
<1>10. CASE Open
  <2>1. stack' \in Seq(Frame)
    BY <1>0, <1>10, StackTop DEF Open, In, PcOf
  <2>2. Max2(cur, 0) \in 0 .. SizeCap
    BY <1>0, LogAssumption DEF TypeOK, Max2, Absent
  <2> QED BY <1>0, <1>10, <2>1, <2>2 DEF Open, TypeOK, history
<1>11. CASE Write
  <2>1. stack' \in Seq(Frame)
    <3>1. CASE Top.signal
      BY <1>0, <1>11, <3>1, StackTop DEF Write, In, PcOf
    <3>2. CASE ~Top.signal
      <4>1. /\ stack # <<>> /\ stack \in Seq(Frame)
            /\ stack' = SubSeq(stack, 1, Len(stack) - 1)
        BY <1>0, <1>11, <3>2 DEF Write, In, Front, TypeOK
      <4> QED BY <4>1
    <3> QED BY <3>1, <3>2
  <2>2. cur' \in 0 .. SizeCap \cup {Absent} /\ fsize' \in 0 .. SizeCap
    BY <1>0, <1>11, LogAssumption DEF Write, Recorded, Capped, TypeOK, Absent
  <2> QED BY <1>0, <1>11, <2>1, <2>2 DEF Write, TypeOK, history
<1>12. CASE Exit
  <2>1. crashed' \in BOOLEAN
    BY <1>0, <1>12 DEF Exit, TypeOK
  <2> QED BY <1>0, <1>12, <2>1, DownType DEF Exit
<1>13. CASE Crash
  <2>1. crashed' \in BOOLEAN
    BY <1>0, <1>13 DEF Crash, TypeOK
  <2> QED BY <1>0, <1>13, <2>1, DownType DEF Crash
<1>14. CASE Tick
  BY <1>0, <1>14, LogAssumption DEF Tick, TypeOK, files, history
<1>15. CASE UNCHANGED vars
  BY <1>0, <1>15 DEF vars, files, history, TypeOK
<1> QED BY <1>1, <1>2, <1>3, <1>4, <1>5, <1>6, <1>7, <1>8, <1>9, <1>10, <1>11,
           <1>12, <1>13, <1>14, <1>15, <1>16, <1>17, <1>18
        DEF Next, Step

(* Files only go, and time passes.                                         *)
LEMMA FewerFiles ==
    ASSUME Inv, TypeOK', DOMAIN disk' \subseteq DOMAIN disk,
           \A f \in DOMAIN disk' : disk'[f] = disk[f],
           now' = now \/ now' = now + 1, twice' = twice
    PROVE  DiskInv'
<1>1. DiskInv /\ TypeOK
  BY DEF Inv
<1>2. \A f \in DOMAIN disk' : f[1] <= now'
  <2> TAKE f \in DOMAIN disk'
  <2>1. f \in Name /\ f[1] <= now
    BY <1>1 DEF DiskInv, TypeOK
  <2>2. f[1] \in Int /\ now \in Int
    BY <1>1, <2>1, NameFields, LogAssumption DEF TypeOK
  <2> QED BY <2>1, <2>2
<1> QED BY <1>1, <1>2 DEF DiskInv

LEMMA DiskStep == Inv /\ [Next]_vars /\ TypeOK' => DiskInv'
<1> SUFFICES ASSUME Inv, [Next]_vars, TypeOK' PROVE DiskInv'
  OBVIOUS
<1>0. TypeOK /\ DiskInv
  BY DEF Inv
<1>1. CASE StartCrashes
  <2>1. DOMAIN disk' \subseteq DOMAIN disk /\ \A f \in DOMAIN disk' : disk'[f] = disk[f]
    BY <1>1 DEF StartCrashes
  <2> QED BY <1>1, <2>1, FewerFiles DEF StartCrashes
<1>2. CASE Start
  <2>1. DOMAIN disk \subseteq Name /\ keep' \in Nat /\ keep' > 0
    BY <1>0, <1>2, LogAssumption DEF Start, TypeOK
  <2>2. DOMAIN disk' \subseteq DOMAIN disk /\ \A f \in DOMAIN disk' : disk'[f] = disk[f]
    BY <1>2, <2>1, StartKeeps DEF Start
  <2> QED BY <1>2, <2>2, FewerFiles DEF Start
<1>3. CASE Trim
  <2>1. DOMAIN disk' \subseteq DOMAIN disk /\ \A f \in DOMAIN disk' : disk'[f] = disk[f]
    BY <1>3 DEF Trim
  <2> QED BY <1>3, <2>1, FewerFiles DEF Trim
<1>4. CASE Rename
  <2>1. PICK h : h = Fresh
    OBVIOUS
  <2>2. h \in Name /\ h[1] = now /\ h \notin DOMAIN disk
    BY <1>4, <2>1, FreshIs DEF Rename, Inv
  <2>3. /\ DOMAIN disk' = DOMAIN disk \cup {h} /\ disk'[h] = rotated + 1
        /\ \A f \in DOMAIN disk : disk'[f] = disk[f]
        /\ now' = now
    BY <1>4, <2>1, <2>2 DEF Rename
  <2>4. \A f \in DOMAIN disk : disk[f] \in Int /\ disk[f] < rotated + 1
    BY <1>0, LogAssumption DEF TypeOK
  <2>5. \A f, g \in DOMAIN disk' : disk'[f] = disk'[g] => f = g
    BY <1>0, <2>3, <2>4 DEF DiskInv
  <2>6. \A f \in DOMAIN disk' : f[1] <= now'
    BY <1>0, <2>2, <2>3, LogAssumption DEF DiskInv, TypeOK
  <2>7. ASSUME ~twice', NEW f \in DOMAIN disk', NEW g \in DOMAIN disk', Before(f, g)
        PROVE  disk'[f] < disk'[g]
    <3>1. ~twice /\ ~\E e \in DOMAIN disk : e[1] = now /\ Before(Fresh, e)
      BY <1>4, <2>7 DEF Rename
    <3>2. \A e \in DOMAIN disk : Before(e, h)
      BY <1>0, <1>4, <2>1, <3>1, FreshIsLast DEF Rename
    <3>3. CASE f = h /\ g = h
      BY <2>2, <2>7, <3>3, BeforeTotal
    <3>4. CASE f = h /\ g # h
      <4>1. g \in DOMAIN disk /\ g \in Name
        BY <1>0, <2>3, <3>4 DEF TypeOK
      <4> QED BY <2>2, <2>7, <3>2, <3>4, <4>1, BeforeTotal
    <3>5. CASE f # h /\ g = h
      BY <2>3, <2>4, <3>5
    <3>6. CASE f # h /\ g # h
      BY <1>0, <2>3, <2>7, <3>1, <3>6 DEF DiskInv
    <3> QED BY <3>3, <3>4, <3>5, <3>6
  <2> QED BY <2>5, <2>6, <2>7 DEF DiskInv
<1>5. CASE Tick
  BY <1>5, FewerFiles DEF Tick, files, history
<1>6. CASE Log \/ Take \/ Release \/ Signal \/ Enter \/ TrimCrashes \/ GiveUp \/ Open
            \/ Write \/ StopEnter \/ StopLeave \/ Exit \/ Crash
  BY <1>6, FewerFiles
  DEF Log, Take, Release, Signal, Enter, TrimCrashes, GiveUp, Open, Write, StopEnter,
      StopLeave, Exit, Crash, Others, files, history
<1>7. CASE UNCHANGED vars
  BY <1>7, FewerFiles DEF vars, files, history
<1> QED BY <1>1, <1>2, <1>3, <1>4, <1>5, <1>6, <1>7 DEF Next, Step

(* Nothing is kept of a process that is down.                              *)
LEMMA DownKept == Down => KeptInv'
BY DEF Down, KeptInv, AllKept, IsInjective, Ordered

LEMMA SameKept ==
    ASSUME KeptInv,
           UNCHANGED <<disk, up, kept, keep, twice, left>>
    PROVE  KeptInv'
<1>1. AllKept'
  BY DEF KeptInv, AllKept
<1> QED BY <1>1 DEF KeptInv, Ordered

LEMMA KeptStep == Inv /\ [Next]_vars /\ TypeOK' => KeptInv'
<1> SUFFICES ASSUME Inv, [Next]_vars, TypeOK' PROVE KeptInv'
  OBVIOUS
<1>0. TypeOK /\ DiskInv /\ KeptInv
  BY DEF Inv
<1>1. CASE StartCrashes
  <2>1. left' = DOMAIN disk' /\ up' = FALSE /\ kept' = kept /\ twice' = twice
    BY <1>1 DEF StartCrashes
  <2> QED BY <1>0, <2>1 DEF KeptInv, AllKept, Ordered
<1>2. CASE Start
  <2>1. DOMAIN disk \subseteq Name /\ keep' \in Nat /\ keep' > 0
    BY <1>0, <1>2, LogAssumption DEF Start, TypeOK
  <2>2. PICK a, b : /\ a = Range(SubSeq(Scanned, 1, Surplus))
                    /\ b = SubSeq(Scanned, Surplus + 1, Len(Scanned))
    OBVIOUS
  <2>3. /\ b \in Seq(Name) /\ Len(b) + 1 <= keep' /\ Ordered(b) /\ IsInjective(b)
        /\ Len(b) = Cardinality(Range(b))
        /\ a \subseteq DOMAIN disk /\ Range(b) = DOMAIN disk \ a
    BY <2>1, <2>2, StartKeeps
  <2>4. /\ kept' = b /\ left' \subseteq a
        /\ DOMAIN disk' = (DOMAIN disk \ a) \cup left'
    BY <1>2, <2>2 DEF Start
  <2>5. Range(kept') = DOMAIN disk' \ left' /\ left' \subseteq DOMAIN disk'
    BY <2>3, <2>4
  <2>6. AllKept'
    <3>1. Len(b) \in Nat
      BY <2>3
    <3>2. Len(b) <= keep'
      BY <2>1, <2>3, <3>1
    <3> QED BY <2>3, <2>4, <2>5, <3>2 DEF AllKept
  <2> QED BY <2>3, <2>4, <2>5, <2>6 DEF KeptInv, Ordered
<1>3. CASE Trim
  <2>1. /\ up /\ kept \in Seq(Name) /\ kept # <<>> /\ IsInjective(kept)
        /\ kept' = Tail(kept) /\ up' = up /\ keep' = keep /\ twice' = twice
    BY <1>0, <1>3 DEF Trim, In, Dropped, TypeOK, KeptInv
  <2>2. PICK s, h : s = kept' /\ h = Head(kept)
    OBVIOUS
  <2>3. /\ s \in Seq(Name) /\ Len(s) = Len(kept) - 1 /\ IsInjective(s)
        /\ h \in Range(kept) /\ Range(s) = Range(kept) \ {h}
        /\ Ordered(kept) => Ordered(s)
    BY <2>1, <2>2, TailIs
  <2>4. Len(s) = Cardinality(Range(s))
    BY <2>3, InjectiveCount
  <2>5. Range(kept) = DOMAIN disk \ left /\ Len(kept) <= keep /\ left \subseteq DOMAIN disk
    BY <1>0, <2>1 DEF KeptInv, AllKept
  <2>6. \/ DOMAIN disk' = DOMAIN disk \ {h} /\ left' = left
        \/ DOMAIN disk' = DOMAIN disk /\ left' = left \cup {h}
    BY <1>3, <2>2 DEF Trim
  <2>7. Range(s) = DOMAIN disk' \ left' /\ left' \subseteq DOMAIN disk'
    BY <2>3, <2>5, <2>6
  <2>8. Len(s) <= keep'
    BY <1>0, <2>1, <2>3, <2>5 DEF TypeOK
  <2>9. AllKept'
    BY <2>2, <2>4, <2>7, <2>8 DEF AllKept
  <2>10. ~twice' => Ordered(s)
    BY <1>0, <2>1, <2>3 DEF KeptInv
  <2> QED BY <2>2, <2>3, <2>7, <2>9, <2>10 DEF KeptInv, Ordered
<1>4. CASE Rename
  <2>1. PICK h, s : h = Fresh /\ s = kept'
    OBVIOUS
  <2>2. h \in Name /\ h \notin DOMAIN disk
    BY <1>4, <2>1, FreshIs DEF Rename, Inv
  <2>3. /\ up /\ up' = up /\ keep' = keep /\ left' = left /\ s = Append(kept, h)
        /\ DOMAIN disk' = DOMAIN disk \cup {h}
    BY <1>4, <2>1 DEF Rename, In
  <2>4. /\ kept \in Seq(Name) /\ IsInjective(kept)
        /\ Range(kept) = DOMAIN disk \ left /\ left \subseteq DOMAIN disk
    BY <1>0, <2>3 DEF TypeOK, KeptInv, AllKept
  <2>5. /\ s \in Seq(Name) /\ Len(s) = Len(kept) + 1 /\ IsInjective(s)
        /\ Range(s) = Range(kept) \cup {h}
        /\ Ordered(kept) /\ (\A g \in Range(kept) : Before(g, h)) => Ordered(s)
    BY <2>2, <2>3, <2>4, AppendIs
  <2>6. Len(s) = Cardinality(Range(s))
    BY <2>5, InjectiveCount
  <2>7. Range(s) = DOMAIN disk' \ left' /\ left' \subseteq DOMAIN disk'
    BY <2>2, <2>3, <2>4, <2>5
  <2>8. Len(s) <= keep'
    <3>1. ~(Len(kept) + 2 > keep)
      BY <1>4 DEF Rename, TooMany
    <3> QED BY <1>0, <2>3, <2>4, <2>5, <3>1 DEF TypeOK
  <2>9. AllKept'
    BY <2>1, <2>6, <2>7, <2>8 DEF AllKept
  <2>10. ASSUME ~twice' PROVE Ordered(s)
    <3>1. ~twice /\ ~\E e \in DOMAIN disk : e[1] = now /\ Before(Fresh, e)
      BY <1>4, <2>10 DEF Rename
    <3>2. \A e \in DOMAIN disk : Before(e, h)
      BY <1>0, <1>4, <2>1, <3>1, FreshIsLast DEF Rename
    <3> QED BY <1>0, <2>4, <2>5, <3>1, <3>2 DEF KeptInv
  <2> QED BY <2>1, <2>5, <2>7, <2>9, <2>10 DEF KeptInv, Ordered
<1>5. CASE TrimCrashes \/ Exit \/ Crash
  BY <1>5, DownKept DEF TrimCrashes, Exit, Crash
<1>6. CASE Log \/ Take \/ Release \/ Signal \/ Enter \/ GiveUp \/ Open \/ Write
            \/ StopEnter \/ StopLeave \/ Tick
  BY <1>0, <1>6, SameKept
  DEF Log, Take, Release, Signal, Enter, GiveUp, Open, Write, StopEnter, StopLeave,
      Tick, Others, files, history
<1>7. CASE UNCHANGED vars
  BY <1>0, <1>7, SameKept DEF vars, files, history
<1> QED BY <1>1, <1>2, <1>3, <1>4, <1>5, <1>6, <1>7 DEF Next, Step

(* A call that prints, or stops the event loop, goes on outside of the     *)
(* lock or returns.                                                        *)
LEMMA LeavesLock ==
    ASSUME TypeOK, Write \/ StopEnter \/ StopLeave
    PROVE  /\ stack # <<>> /\ Len(stack) \in DOMAIN stack
           /\ \A i \in DOMAIN stack' :
                /\ i \in DOMAIN stack
                /\ i = Len(stack) => stack'[i].pc \notin Inside
                /\ i # Len(stack) => stack'[i] = stack[i]
<1>1. stack # <<>> /\ stack \in Seq(Frame)
  BY DEF Write, StopEnter, StopLeave, In, TypeOK
<1>2. Len(stack) \in Nat \ {0} /\ DOMAIN stack = 1 .. Len(stack)
  BY <1>1, EmptySeq
<1>3. CASE GoTo("stop") \/ GoTo("unlock")
  <2>1. /\ DOMAIN stack' = DOMAIN stack
        /\ stack'[Len(stack)].pc \in {"stop", "unlock"}
        /\ \A i \in DOMAIN stack \ {Len(stack)} : stack'[i] = stack[i]
    BY <1>1, <1>3, StackTop DEF PcOf
  <2> QED BY <1>1, <1>2, <2>1 DEF Inside
<1>4. CASE stack' = Front(stack)
  <2>1. stack' = SubSeq(stack, 1, Len(stack) - 1)
    BY <1>4 DEF Front
  <2>2. DOMAIN stack' = 1 .. Len(stack) - 1
        /\ \A i \in 1 .. Len(stack) - 1 : stack'[i] = stack[i]
    BY <1>1, <1>2, <2>1
  <2> QED BY <1>1, <1>2, <2>2
<1> QED BY <1>3, <1>4 DEF Write, StopEnter, StopLeave

LEMMA LockStep == Inv /\ [Next]_vars /\ TypeOK' => LockInv'
<1> SUFFICES ASSUME Inv, [Next]_vars, TypeOK' PROVE LockInv'
  OBVIOUS
<1>0. TypeOK /\ LockInv
  BY DEF Inv
<1>1. CASE StartCrashes \/ Start
  BY <1>0, <1>1 DEF StartCrashes, Start, LockInv
<1>2. CASE Log
  <2>1. /\ up' = up /\ up /\ lock' = lock /\ DOMAIN stack' = {1}
        /\ stack'[1].pc = "enter"
    BY <1>2 DEF Log, Others
  <2> QED BY <2>1 DEF LockInv, Inside
<1>3. CASE Signal
  <2>1. stack' = Append(stack, [signal |-> TRUE, pc |-> "enter"]) /\ stack \in Seq(Frame)
    BY <1>0, <1>3 DEF Signal, TypeOK
  <2>2. /\ DOMAIN stack' = DOMAIN stack \cup {Len(stack) + 1}
        /\ stack'[Len(stack) + 1].pc = "enter"
        /\ \A i \in DOMAIN stack : stack'[i] = stack[i]
    BY <2>1
  <2>3. up /\ up' = up /\ lock' = lock
    BY <1>3 DEF Signal, Others
  <2> QED BY <1>0, <2>2, <2>3 DEF LockInv, Inside
<1>4. CASE Enter
  <2>1. \A i \in DOMAIN stack : stack[i].pc \notin Inside
    BY <1>0, <1>4 DEF Enter, Free, LockInv
  <2>2. GoTo("trim") \/ GoTo("print")
    BY <1>4 DEF Enter
  <2>3. /\ DOMAIN stack' = DOMAIN stack
        /\ \A i \in DOMAIN stack \ {Len(stack)} : stack'[i] = stack[i]
    BY <1>0, <1>4, <2>2, StackTop DEF Enter, In, PcOf
  <2>4. up /\ up' = up /\ lock' = TRUE
    BY <1>4 DEF Enter, In
  <2> QED BY <2>1, <2>3, <2>4 DEF LockInv
<1>5. CASE Rename \/ GiveUp \/ Open
  <2>1. up /\ up' = up /\ lock' = lock /\ stack # <<>> /\ Top.pc \in Inside
    BY <1>5 DEF Rename, GiveUp, Open, In, Inside, history
  <2>2. GoTo("open") \/ GoTo("print")
    BY <1>5 DEF Rename, GiveUp, Open
  <2>3. /\ Len(stack) \in DOMAIN stack /\ DOMAIN stack' = DOMAIN stack
        /\ \A i \in DOMAIN stack \ {Len(stack)} : stack'[i] = stack[i]
    BY <1>0, <2>1, <2>2, StackTop DEF PcOf
  <2>4. lock /\ \A i \in DOMAIN stack : stack[i].pc \in Inside => i = Len(stack)
    BY <1>0, <2>1, <2>3 DEF LockInv, Top
  <2> QED BY <1>0, <2>1, <2>3, <2>4 DEF LockInv
<1>6. CASE Write
  <2>1. up /\ up' = up /\ lock' = FALSE /\ Top.pc \in Inside
    BY <1>6 DEF Write, In, Inside
  <2>2. \A i \in DOMAIN stack : stack[i].pc \in Inside => i = Len(stack)
    BY <1>0, <1>6, <2>1, LeavesLock DEF LockInv, Top
  <2>3. \A i \in DOMAIN stack' : stack'[i].pc \notin Inside
    BY <1>0, <1>6, <2>2, LeavesLock
  <2> QED BY <2>1, <2>3 DEF LockInv
<1>9. CASE StopEnter \/ StopLeave
  <2>1. up /\ up' = up /\ lock' = lock
    BY <1>9 DEF StopEnter, StopLeave, In, Others
  <2>2. \A i \in DOMAIN stack' :
          /\ i \in DOMAIN stack
          /\ stack'[i].pc \in Inside => stack[i].pc \in Inside
    BY <1>0, <1>9, LeavesLock
  <2> QED BY <1>0, <2>1, <2>2 DEF LockInv
<1>7. CASE TrimCrashes \/ Exit \/ Crash
  <2>1. stack' = <<>>
    BY <1>7 DEF TrimCrashes, Exit, Crash, Down
  <2> QED BY <2>1 DEF LockInv
<1>8. CASE Trim \/ Take \/ Release \/ Tick \/ UNCHANGED vars
  BY <1>0, <1>8 DEF Trim, Take, Release, Tick, vars, Others, files, history, LockInv
<1> QED BY <1>1, <1>2, <1>3, <1>4, <1>5, <1>6, <1>7, <1>8, <1>9 DEF Next, Step

LEMMA FileStep == Inv /\ [Next]_vars /\ TypeOK' => FileInv'
<1> SUFFICES ASSUME Inv, [Next]_vars, TypeOK' PROVE FileInv'
  OBVIOUS
<1>0. TypeOK /\ LockInv /\ FileInv
  BY DEF Inv
<1>1. CASE StartCrashes
  BY <1>0, <1>1 DEF StartCrashes, LockInv, FileInv
<1>2. CASE Start
  <2>1. stack' = <<>>
    BY <1>0, <1>2 DEF Start, LockInv
  <2>2. stream' = "file" => cur' = Max2(cur, 0) /\ fsize' = Max2(cur, 0)
    BY <1>2 DEF Start, SizeFound
  <2>3. Max2(cur, 0) \in Int
    BY <1>0, LogAssumption DEF Max2, TypeOK, Absent
  <2> QED BY <2>1, <2>2, <2>3 DEF FileInv
<1>3. CASE Log
  <2>1. /\ DOMAIN stack' = {1} /\ stack'[1].pc = "enter"
        /\ up' = up /\ stream' = stream /\ grown' = grown /\ cur' = cur /\ fsize' = fsize
    BY <1>3 DEF Log, Others, files, history
  <2> QED BY <1>0, <2>1 DEF FileInv
<1>4. CASE Signal
  <2>1. stack' = Append(stack, [signal |-> TRUE, pc |-> "enter"]) /\ stack \in Seq(Frame)
    BY <1>0, <1>4 DEF Signal, TypeOK
  <2>2. /\ DOMAIN stack' = DOMAIN stack \cup {Len(stack) + 1}
        /\ stack'[Len(stack) + 1].pc = "enter"
        /\ \A i \in DOMAIN stack : stack'[i] = stack[i]
    BY <2>1
  <2>3. up' = up /\ stream' = stream /\ grown' = grown /\ cur' = cur /\ fsize' = fsize
    BY <1>4 DEF Signal, Others, files
  <2> QED BY <1>0, <2>2, <2>3 DEF FileInv
<1>5. CASE Enter
  <2>1. \A i \in DOMAIN stack : stack[i].pc \notin Inside
    BY <1>0, <1>5 DEF Enter, Free, LockInv
  <2>2. up /\ up' = up /\ grown' = grown /\ cur' = cur /\ fsize' = fsize /\ stack # <<>>
    BY <1>5 DEF Enter, In, files, history
  <2>3. CASE Full
    <3>1. GoTo("trim") /\ stream' = "stderr"
      BY <1>5, <2>3 DEF Enter
    <3>2. /\ DOMAIN stack' = DOMAIN stack /\ stack'[Len(stack)].pc = "trim"
          /\ \A i \in DOMAIN stack \ {Len(stack)} : stack'[i] = stack[i]
      BY <1>0, <2>2, <3>1, StackTop DEF PcOf
    <3> QED BY <2>1, <3>1, <3>2 DEF FileInv, Inside
  <2>4. CASE ~Full
    <3>1. GoTo("print") /\ stream' = stream
      BY <1>5, <2>4 DEF Enter
    <3>2. /\ DOMAIN stack' = DOMAIN stack /\ stack'[Len(stack)].pc = "print"
          /\ \A i \in DOMAIN stack \ {Len(stack)} : stack'[i] = stack[i]
      BY <1>0, <2>2, <3>1, StackTop DEF PcOf
    <3>3. stream = "file" /\ ~grown => cur < MaxSize
      BY <1>0, <2>2, <2>4, LogAssumption DEF Full, FileInv, TypeOK, Absent
    <3> QED BY <1>0, <2>1, <2>2, <3>1, <3>2, <3>3 DEF FileInv, Inside
  <2> QED BY <2>3, <2>4
<1>6. CASE Trim
  BY <1>0, <1>6 DEF Trim, FileInv
<1>7. CASE Rename \/ GiveUp
  <2>1. /\ up' = up /\ stream' = stream /\ fsize' = 0 /\ stack # <<>> /\ Top.pc = "trim"
        /\ GoTo("open") /\ (cur' = Absent \/ grown')
    BY <1>7 DEF Rename, GiveUp, In
  <2>2. /\ Len(stack) \in DOMAIN stack /\ DOMAIN stack' = DOMAIN stack
        /\ stack'[Len(stack)].pc = "open"
        /\ \A i \in DOMAIN stack \ {Len(stack)} : stack'[i] = stack[i]
    BY <1>0, <2>1, StackTop DEF PcOf
  <2>3. stream = "stderr" /\ \A i \in DOMAIN stack : stack[i].pc \in Inside => i = Len(stack)
    BY <1>0, <2>1, <2>2 DEF LockInv, FileInv, Top, Inside
  <2> QED BY <2>1, <2>2, <2>3 DEF FileInv, Inside
<1>8. CASE Open
  <2>1. /\ up' = up /\ fsize' = fsize /\ grown' = grown /\ stack # <<>> /\ Top.pc = "open"
        /\ GoTo("print")
        /\ (stream' = "file" /\ cur' = Max2(cur, 0)) \/ (stream' = stream /\ cur' = cur)
    BY <1>8 DEF Open, In, history
  <2>2. /\ Len(stack) \in DOMAIN stack /\ DOMAIN stack' = DOMAIN stack
        /\ stack'[Len(stack)].pc = "print"
        /\ \A i \in DOMAIN stack \ {Len(stack)} : stack'[i] = stack[i]
    BY <1>0, <2>1, StackTop DEF PcOf
  <2>3. /\ stream = "stderr" /\ (cur = Absent \/ grown)
        /\ \A i \in DOMAIN stack : stack[i].pc \in Inside => i = Len(stack)
    BY <1>0, <2>1, <2>2 DEF LockInv, FileInv, Top, Inside
  <2>4. stream' = "file" /\ ~grown => cur' = 0
    BY <2>1, <2>3 DEF Max2, Absent
  <2>5. 0 <= fsize
    BY <1>0, LogAssumption DEF TypeOK
  <2> QED BY <2>1, <2>2, <2>3, <2>4, <2>5 DEF FileInv, Inside
<1>9. CASE Write
  <2>1. /\ up /\ up' = up /\ stream' = stream /\ grown' = grown /\ Top.pc \in Inside
    BY <1>9 DEF Write, In, Inside, history
  <2>2. \A i \in DOMAIN stack : stack[i].pc \in Inside => i = Len(stack)
    BY <1>0, <1>9, <2>1, LeavesLock DEF LockInv, Top
  <2>6. \A i \in DOMAIN stack' : stack'[i].pc \notin Inside
    BY <1>0, <1>9, <2>2, LeavesLock
  <2>7. stream = "file" /\ ~grown => cur' <= fsize'
    <3> SUFFICES ASSUME stream = "file", ~grown PROVE cur' <= fsize'
      OBVIOUS
    <3>1. PICK n \in Lines : cur' = Capped(cur + n) /\ fsize' = Capped(fsize + n)
      BY <1>9 DEF Write, Recorded
    <3>2. cur <= fsize /\ cur \in Int /\ fsize \in Int /\ n \in Int /\ SizeCap \in Int
      BY <1>0, <2>1, LogAssumption DEF FileInv, TypeOK, Absent
    <3> QED BY <3>1, <3>2 DEF Capped
  <2> QED BY <2>1, <2>6, <2>7 DEF FileInv, Inside
<1>10. CASE TrimCrashes \/ Exit \/ Crash
  <2>1. stack' = <<>> /\ up' = FALSE
    BY <1>10 DEF TrimCrashes, Exit, Crash, Down
  <2> QED BY <2>1 DEF FileInv
<1>11. CASE Take \/ Release \/ Tick \/ UNCHANGED vars
  BY <1>0, <1>11 DEF Take, Release, Tick, vars, Others, files, history, FileInv
<1>12. CASE StopEnter \/ StopLeave
  <2>1. /\ up' = up /\ stream' = stream /\ grown' = grown /\ cur' = cur
        /\ fsize' = fsize
    BY <1>12 DEF StopEnter, StopLeave, Others, files, history
  <2>2. \A i \in DOMAIN stack' :
          /\ i \in DOMAIN stack
          /\ stack'[i].pc \in Inside => stack'[i] = stack[i]
    BY <1>0, <1>12, LeavesLock
  <2> QED BY <1>0, <2>1, <2>2 DEF FileInv, Inside
<1> QED BY <1>1, <1>2, <1>3, <1>4, <1>5, <1>6, <1>7, <1>8, <1>9, <1>10, <1>11,
           <1>12
        DEF Next, Step

-----------------------------------------------------------------------------
(* The results.                                                            *)

(* The types of the log's variables, over restarts as well.                *)
THEOREM TypeCorrect == Spec => []TypeOK
<1>1. Inv /\ [Next]_vars => Inv'
  BY TypeStep, DiskStep, KeptStep, LockStep, FileStep DEF Inv
<1>2. Inv => TypeOK
  BY DEF Inv
<1> QED BY InitInv, <1>1, <1>2, PTL DEF Spec

(* The inductive invariant: names and ages, what is kept, the lock and the *)
(* stack, and what fsize counts.                                           *)
THEOREM LogInvariant == Spec => []Inv
<1>1. Inv /\ [Next]_vars => Inv'
  BY TypeStep, DiskStep, KeptStep, LockStep, FileStep DEF Inv
<1> QED BY InitInv, <1>1, PTL DEF Spec

(* setrot and get forget no history file and keep no name without one, and *)
(* there are never more than the limit: across rotations, removals that    *)
(* fail, kills in the middle of a rotation, and restarts with other limits.*)
THEOREM FilesKept == Spec => []AllKept
<1>1. Inv => AllKept
  BY DEF Inv, KeptInv
<1> QED BY LogInvariant, <1>1, PTL

(* No more than one call of pelog_printf has passed LockGuard: a signal's  *)
(* line never gets into the line, or the rotation, that it interrupts.     *)
THEOREM OneWriter == Spec => []LockInv
<1>1. Inv => LockInv
  BY DEF Inv
<1> QED BY LogInvariant, <1>1, PTL

(* setrot and get remove history oldest first.                             *)
THEOREM OldestGoesFirst == Spec => OldestFirst
<1>1. Inv /\ [Next]_vars =>
        [\A f \in DOMAIN disk \ DOMAIN disk', g \in DOMAIN disk' \ left' :
           disk[f] < disk'[g] \/ twice]_vars
  <2> SUFFICES ASSUME Inv, Next, ~twice,
                      NEW f \in DOMAIN disk \ DOMAIN disk', NEW g \in DOMAIN disk' \ left'
               PROVE  disk[f] < disk'[g]
    OBVIOUS
  <2>0. TypeOK /\ DiskInv /\ KeptInv
    BY DEF Inv
  <2>1. CASE StartCrashes
    BY <2>1 DEF StartCrashes
  <2>2. CASE Start
    <3>1. DOMAIN disk \subseteq Name /\ keep' \in Nat /\ keep' > 0
      BY <2>0, <2>2, LogAssumption DEF Start, TypeOK
    <3>2. PICK a, b : /\ a = Range(SubSeq(Scanned, 1, Surplus))
                      /\ b = SubSeq(Scanned, Surplus + 1, Len(Scanned))
      OBVIOUS
    <3>3. /\ a \subseteq DOMAIN disk /\ Range(b) = DOMAIN disk \ a
          /\ \A x \in a, y \in Range(b) : Before(x, y)
      BY <3>1, <3>2, StartKeeps
    <3>4. /\ DOMAIN disk' = (DOMAIN disk \ a) \cup left'
          /\ \A x \in DOMAIN disk' : disk'[x] = disk[x]
      BY <2>2, <3>2 DEF Start
    <3>5. f \in a /\ g \in Range(b) /\ disk'[g] = disk[g] /\ g \in DOMAIN disk
      BY <3>3, <3>4
    <3> QED BY <2>0, <3>3, <3>5 DEF DiskInv
  <2>3. CASE Trim
    <3>1. /\ kept \in Seq(Name) /\ kept # <<>> /\ IsInjective(kept) /\ Ordered(kept)
          /\ Range(kept) = DOMAIN disk \ left
      BY <2>0, <2>3 DEF Trim, In, TypeOK, KeptInv, AllKept
    <3>2. /\ f = Head(kept) /\ left' = left /\ disk'[g] = disk[g]
          /\ g \in DOMAIN disk \ left /\ g # f
      BY <2>3 DEF Trim
    <3>3. Before(f, g)
      BY <3>1, <3>2, TailIs
    <3> QED BY <2>0, <3>2, <3>3 DEF DiskInv
  <2>4. CASE Rename
    BY <2>4 DEF Rename
  <2>5. CASE Log \/ Take \/ Release \/ Signal \/ Enter \/ TrimCrashes \/ GiveUp \/ Open
             \/ Write \/ StopEnter \/ StopLeave \/ Exit \/ Crash \/ Tick
    BY <2>5
    DEF Log, Take, Release, Signal, Enter, TrimCrashes, GiveUp, Open, Write, StopEnter,
        StopLeave, Exit, Crash, Tick, Others, files, history
  <2> QED BY <2>1, <2>2, <2>3, <2>4, <2>5 DEF Next, Step
<1> QED BY LogInvariant, <1>1, PTL DEF Spec, OldestFirst

(* pelog_printf adds a line only to a file with room for it: the size that *)
(* setrot, recordsize and the rotation keep is never less than the file's. *)
THEOREM FullFilesRotate == Spec => FullIsRotated
<1>1. Inv /\ [Next]_vars =>
        [cur' > cur /\ cur # Absent => cur < MaxSize \/ cur = 0 \/ grown]_vars
  <2> SUFFICES ASSUME Inv, Next, cur' > cur, cur # Absent
               PROVE  cur < MaxSize \/ cur = 0 \/ grown
    OBVIOUS
  <2>0. TypeOK /\ FileInv
    BY DEF Inv
  <2>1. cur \in Nat
    BY <2>0, LogAssumption DEF TypeOK
  <2>2. cur' # cur /\ cur' # Absent /\ Max2(cur, 0) = cur
    BY <2>1 DEF Max2, Absent
  <2>3. CASE Write
    <3>1. stream = "file" /\ stack # <<>> /\ Top.pc = "print"
      BY <2>2, <2>3 DEF Write, In
    <3> QED BY <2>0, <3>1, StackTop DEF FileInv, Top
  <2>4. CASE StartCrashes \/ Start \/ Log \/ Take \/ Release \/ Signal \/ Enter \/ Trim
             \/ TrimCrashes \/ Rename \/ GiveUp \/ Open \/ StopEnter \/ StopLeave
             \/ Exit \/ Crash \/ Tick
    BY <2>2, <2>4
    DEF StartCrashes, Start, Log, Take, Release, Signal, Enter, Trim, TrimCrashes, Rename,
        GiveUp, Open, StopEnter, StopLeave, Exit, Crash, Tick, Others, files
  <2> QED BY <2>3, <2>4 DEF Next, Step
<1> QED BY LogInvariant, <1>1, PTL DEF Spec, FullIsRotated

(* A history file goes only when with the current file there are as many   *)
(* files as the limit, and get and setrot take the front of an empty deque *)
(* only with a limit of less than two: the limit counts the current file,  *)
(* and is kept but for that.                                               *)
THEOREM LimitOfFiles ==
    Spec => [][/\ DOMAIN disk \ DOMAIN disk' # {} => Cardinality(DOMAIN disk) + 1 >= keep'
               /\ crashed' /\ ~crashed => keep' < 2]_vars
<1>1. Inv /\ [Next]_vars =>
        [/\ DOMAIN disk \ DOMAIN disk' # {} => Cardinality(DOMAIN disk) + 1 >= keep'
         /\ crashed' /\ ~crashed => keep' < 2]_vars
  <2> SUFFICES ASSUME Inv, Next
               PROVE  /\ DOMAIN disk \ DOMAIN disk' # {} =>
                           Cardinality(DOMAIN disk) + 1 >= keep'
                      /\ crashed' /\ ~crashed => keep' < 2
    OBVIOUS
  <2>0. /\ TypeOK /\ KeptInv /\ IsFiniteSet(DOMAIN disk)
        /\ Cardinality(DOMAIN disk) \in Nat
    BY NameFinite, FS_Subset, FS_CardinalityType DEF Inv, TypeOK
  <2>1. CASE StartCrashes
    BY <2>0, <2>1 DEF StartCrashes
  <2>2. CASE Start
    <3>1. crashed' = FALSE /\ keep' \in Nat /\ keep' > 0
      BY <2>2, LogAssumption DEF Start
    <3>2. ASSUME DOMAIN disk \ DOMAIN disk' # {}
          PROVE  Cardinality(DOMAIN disk) + 1 >= keep'
      <4>1. PICK s : s = Scanned
        OBVIOUS
      <4>2. s \in Seq(Name) /\ Len(s) = Cardinality(DOMAIN disk)
        BY <2>0, <4>1, ScannedIs, InjectiveCount, OrderedIsInjective DEF TypeOK
      <4>3. Range(SubSeq(s, 1, Surplus)) # {}
        BY <2>2, <3>2, <4>1 DEF Start
      <4>4. Surplus > 0
        <5> SUFFICES ASSUME ~(Surplus > 0) PROVE FALSE
          OBVIOUS
        <5>1. Surplus = 0
          BY <2>0, <3>1, <4>1, <4>2 DEF Surplus, Max2
        <5>2. SubSeq(s, 1, 0) = <<>>
          BY <4>2
        <5> QED BY <4>3, <5>1, <5>2 DEF Range
      <4> QED BY <2>0, <3>1, <4>1, <4>2, <4>4 DEF Surplus, Max2
    <3> QED BY <3>1, <3>2
  <2>3. CASE Trim
    <3>1. /\ Len(kept) + 2 > keep /\ keep' = keep /\ crashed' = crashed
          /\ up /\ kept \in Seq(Name) /\ keep \in Nat
      BY <2>0, <2>3 DEF Trim, TooMany, In, TypeOK
    <3>2. Range(kept) = DOMAIN disk \ left /\ Len(kept) = Cardinality(Range(kept))
      BY <2>0, <3>1 DEF KeptInv, AllKept
    <3>3. Cardinality(Range(kept)) <= Cardinality(DOMAIN disk)
      BY <2>0, <3>2, FS_Subset
    <3> QED BY <2>0, <3>1, <3>2, <3>3
  <2>4. CASE TrimCrashes
    <3>1. Len(kept) + 2 > keep /\ kept = <<>> /\ keep' = keep /\ disk' = disk
      BY <2>4 DEF TrimCrashes, TooMany, files
    <3> QED BY <2>0, <3>1, EmptySeq DEF TypeOK
  <2>5. CASE Log \/ Take \/ Release \/ Signal \/ Enter \/ Rename \/ GiveUp \/ Open
             \/ Write \/ StopEnter \/ StopLeave \/ Exit \/ Crash \/ Tick
    BY <2>5
    DEF Log, Take, Release, Signal, Enter, Rename, GiveUp, Open, Write, StopEnter,
        StopLeave, Exit, Crash, Tick, Others, files, history
  <2> QED BY <2>1, <2>2, <2>3, <2>4, <2>5 DEF Next, Step
<1> QED BY LogInvariant, <1>1, PTL DEF Spec
=============================================================================
