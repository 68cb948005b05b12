-------------------------- MODULE NameCodecProofs --------------------------
(***************************************************************************)
(* Proofs about NameCodec, for every message, every size of labels and     *)
(* every reach of pointers; and about DecompressName, for every message of *)
(* bytes and every limit.                                                  *)
(***************************************************************************)
EXTENDS MCNameCodec, FiniteSetTheorems, WellFoundedInduction, TLAPS

(* What is written at offset p is, or is about to become, the rest r of the*)
(* name of field k.                                                        *)
SpeltAt(p, k, r) ==
    p \in DOMAIN out /\ spelt[p].field = k /\ spelt[p].rest = r

Follows(p, k, r) ==
    \/ SpeltAt(p, k, r)
    \/ phase = "compress" /\ pos = p /\ field = k /\ name = r

(* Behind the name of a field, at offset p, comes the next field.          *)
NextFollows(p, k) ==
    k < Len(msg) =>
        \/ Follows(p + msg[k + 1].gap, k + 1, msg[k + 1].name)
        \/ phase = "compress" /\ pos = p /\ field = k + 1 /\ name = NoName

CellInv(o) ==
    LET c == out[o]
        k == spelt[o].field
        r == spelt[o].rest
    IN  /\ k \in DOMAIN msg
        /\ Whole(msg[k].name) => Whole(r)
        /\ IsLabel(c) => /\ r # <<>> /\ c.label = r[1]
                         /\ Follows(o + Size[c.label], k, Tail(r))
        /\ IsPointer(c) => NextFollows(o + 2, k)
        /\ IsEnd(c) => r = <<>> /\ NextFollows(o + 1, k)

LayoutInv == NextFollows(0, 0) /\ \A o \in DOMAIN out : CellInv(o)

HeadInv ==
    phase = "compress" =>
        /\ \A o \in DOMAIN out : o < pos
        /\ name # NoName => /\ field \in DOMAIN msg
                            /\ Whole(msg[field].name) => Whole(name)

NamesInv == Pointable => \A k \in DOMAIN names : spelt[names[k]].rest = k

Resumes(p, k) ==
    k \in DOMAIN msg => SpeltAt(p + msg[k].gap, k, msg[k].name)

ReadInv ==
    Pointable /\ phase = "decompress" =>
        /\ Len(decoded) = field - 1
        /\ name = NoName => Resumes(pos, field)
        /\ name # NoName =>
             /\ field \in DOMAIN msg /\ cur \in DOMAIN out
             /\ msg[field].name = name \o spelt[cur].rest
             /\ jumped => Resumes(pos, field + 1)
             /\ ~jumped => pos = cur /\ spelt[cur].field = field

(* What is true of a message that is not Pointable as well.                *)
InFieldInv ==
    /\ msg \in Message
    /\ phase = "decompress" /\ name # NoName => field \in DOMAIN msg

Inv ==
    /\ TypeOK /\ LayoutInv /\ HeadInv /\ NamesInv /\ ReadInv /\ InFieldInv
    /\ KnownIfPointable /\ RoundTrip /\ NeverLost
    /\ phase = "compress" => decoded = <<>>

-----------------------------------------------------------------------------
(* Facts about data.                                                       *)
LEMMA PointerFacts ==
    ASSUME NEW o \in Nat
    PROVE  /\ Pointer(o) \in 0 .. Reach - 1
           /\ o < Reach => Pointer(o) = o
<1>1. Reach \in Nat \ {0}
  BY CodecAssumption
<1> QED BY <1>1 DEF Pointer

LEMMA MoveLabel ==
    ASSUME NEW s \in Name, NEW t \in Name, t # <<>>
    PROVE  Append(s, t[1]) \o Tail(t) = s \o t
BY DEF Name

LEMMA NameFacts ==
    ASSUME NEW s \in Name, s # <<>>
    PROVE  /\ s[1] \in Label /\ Tail(s) \in Name
           /\ Whole(s) => Whole(Tail(s)) /\ Key(s) = s
<1>1. s[1] \in Label /\ Tail(s) \in Name
  BY DEF Name
<1>2. \A i \in DOMAIN Tail(s) : i + 1 \in DOMAIN s /\ Tail(s)[i] = s[i + 1]
  BY DEF Name
<1> QED BY <1>1, <1>2 DEF Whole, Key

LEMMA SizeFacts ==
    ASSUME NEW l \in Label
    PROVE  Size[l] \in Nat /\ Size[l] > 1
BY CodecAssumption

LEMMA FieldFacts ==
    ASSUME TypeOK, NEW k \in DOMAIN msg
    PROVE  /\ msg[k].gap \in Nat /\ msg[k].name \in Name
           /\ msg[k].plain \in BOOLEAN
           /\ DOMAIN msg = 1 .. Len(msg) /\ Len(msg) \in Nat /\ k \in 1 .. Len(msg)
<1>1. msg \in Seq(Field)
  BY DEF TypeOK
<1>2. msg[k] \in Field /\ DOMAIN msg = 1 .. Len(msg) /\ Len(msg) \in Nat
  BY <1>1
<1> QED BY <1>2 DEF Field

-----------------------------------------------------------------------------
LEMMA InitInv == Init => Inv
<1> SUFFICES ASSUME Init PROVE Inv
  OBVIOUS
<1>1. msg \in Seq(Field) /\ Len(msg) \in Nat
  BY CodecAssumption DEF Init
<1>2. DOMAIN out = {} /\ DOMAIN spelt = {} /\ DOMAIN names = {}
  BY DEF Init
<1>3. <<>> \in Seq(Name) /\ DOMAIN <<>> = {}
  OBVIOUS
<1>4. TypeOK
  <2>1. spelt \in [DOMAIN out -> Spelling]
    BY DEF Init
  <2>2. field \in 1 .. Len(msg) + 1
    BY <1>1 DEF Init
  <2> QED BY <1>1, <1>2, <1>3, <2>1, <2>2 DEF Init, TypeOK
<1>5. LayoutInv
  BY <1>2 DEF Init, LayoutInv, NextFollows
<1>6. HeadInv /\ NamesInv /\ ReadInv
  BY <1>2 DEF Init, HeadInv, NamesInv, ReadInv
<1>7. KnownIfPointable /\ RoundTrip /\ NeverLost
  BY <1>2, <1>3 DEF Init, KnownIfPointable, KnownNameReplaced, RoundTrip, NeverLost
<1> QED BY <1>4, <1>5, <1>6, <1>7 DEF Inv, InFieldInv, Init

-----------------------------------------------------------------------------
(* What a write leaves as it was, whatever is written.                     *)
LEMMA WriteKeeps ==
    ASSUME Inv, phase = "compress", name \in Name, field \in DOMAIN msg,
           NEW c \in Cell, Write(c), msg' = msg
    PROVE  /\ DOMAIN out' = DOMAIN out \cup {pos} /\ pos \notin DOMAIN out
           /\ out'[pos] = c /\ spelt'[pos] = [field |-> field, rest |-> name]
           /\ \A o \in DOMAIN out : out'[o] = out[o] /\ spelt'[o] = spelt[o]
           /\ DOMAIN out' \subseteq Nat /\ (\A o \in DOMAIN out' : out'[o] \in Cell)
           /\ spelt' \in [DOMAIN out' -> Spelling]
           /\ NextFollows(0, 0)'
           /\ \A o \in DOMAIN out : CellInv(o)'
<1>1. DOMAIN spelt = DOMAIN out /\ DOMAIN out \subseteq Nat /\ pos \in Nat
  BY DEF Inv, TypeOK
<1>2. pos \notin DOMAIN out
  BY <1>1 DEF Inv, HeadInv
<1>3. /\ DOMAIN out' = DOMAIN out \cup {pos} /\ out'[pos] = c
      /\ \A o \in DOMAIN out : out'[o] = out[o]
  BY <1>2 DEF Write, With
<1>4. /\ DOMAIN spelt' = DOMAIN out'
      /\ spelt'[pos] = [field |-> field, rest |-> name]
      /\ \A o \in DOMAIN out : spelt'[o] = spelt[o]
  BY <1>1, <1>2, <1>3 DEF Write, With
<1>5. /\ DOMAIN out' \subseteq Nat /\ \A o \in DOMAIN out' : out'[o] \in Cell
  BY <1>1, <1>3 DEF Inv, TypeOK
<1>6. spelt' \in [DOMAIN out' -> Spelling]
  <2>1. field \in Nat
    BY FieldFacts DEF Inv
  <2>2. [field |-> field, rest |-> name] \in Spelling
    BY <2>1 DEF Spelling
  <2>3. \A o \in DOMAIN out' : spelt'[o] \in Spelling
    BY <1>3, <1>4, <2>2 DEF Inv, TypeOK
  <2>4. spelt' = [o \in DOMAIN spelt' |-> spelt'[o]]
    BY <1>1 DEF Write, With
  <2> QED BY <1>4, <2>3, <2>4
<1>7. ASSUME NEW p, NEW k, NEW r, Follows(p, k, r)
      PROVE  Follows(p, k, r)'
  BY <1>3, <1>4, <1>7 DEF Follows, SpeltAt
<1>8. ASSUME NEW p, NEW k, NextFollows(p, k)
      PROVE  NextFollows(p, k)'
  <2>1. name # NoName
    BY CodecAssumption
  <2> QED BY <1>7, <1>8, <2>1 DEF NextFollows
<1>9. NextFollows(0, 0)'
  BY <1>8 DEF Inv, LayoutInv
<1>10. ASSUME NEW o \in DOMAIN out
       PROVE  CellInv(o)'
  <2>1. CellInv(o)
    BY DEF Inv, LayoutInv
  <2>2. out'[o] = out[o] /\ spelt'[o] = spelt[o]
    BY <1>3, <1>4
  <2> QED BY <1>7, <1>8, <2>1, <2>2 DEF CellInv
<1> QED BY <1>2, <1>3, <1>4, <1>5, <1>6, <1>9, <1>10

(* What stays true of the parts a step of compression does not touch.      *)
LEMMA CompressKeeps ==
    ASSUME Inv, phase = "compress", phase' = "compress",
           UNCHANGED <<msg, cur, jumped, decoded>>
    PROVE  ReadInv' /\ InFieldInv' /\ RoundTrip' /\ NeverLost' /\ decoded' = <<>>
BY DEF Inv, ReadInv, InFieldInv, RoundTrip, NeverLost

LEMMA CopyDataInv == ASSUME Inv, CopyData PROVE Inv'
<1>1. /\ phase = "compress" /\ phase' = "compress" /\ name = NoName
      /\ pos' = pos + msg[field].gap /\ name' = msg[field].name
      /\ UNCHANGED <<msg, field, cur, jumped, decoded, out, names, spelt>>
  BY DEF CopyData, reading, writing
<1>2. field \in DOMAIN msg
  <2>1. msg \in Seq(Field) /\ field \in 1 .. Len(msg) + 1 /\ field <= Len(msg)
    BY DEF CopyData, Inv, TypeOK
  <2> QED BY <2>1
<1>3. /\ msg[field].gap \in Nat /\ msg[field].name \in Name /\ field \in Nat
      /\ Len(msg) \in Nat /\ pos \in Nat
  BY <1>2, FieldFacts DEF Inv, TypeOK
<1>4. TypeOK'
  BY <1>1, <1>3 DEF Inv, TypeOK
<1>5. ASSUME NEW p, NEW k, NEW r \in Name, Follows(p, k, r)
      PROVE  Follows(p, k, r)'
  <2>1. r # NoName
    BY CodecAssumption
  <2> QED BY <1>1, <1>5, <2>1 DEF Follows, SpeltAt
<1>6. ASSUME NEW p \in Nat, NEW k \in Nat, NextFollows(p, k)
      PROVE  NextFollows(p, k)'
  <2>1. CASE k < Len(msg)
    <3>1. k + 1 \in DOMAIN msg
      BY <1>2, <2>1, FieldFacts DEF Inv
    <3>2. msg[k + 1].name \in Name
      BY <3>1, FieldFacts DEF Inv
    <3>3. CASE Follows(p + msg[k + 1].gap, k + 1, msg[k + 1].name)
      <4>1. Follows(p + msg[k + 1].gap, k + 1, msg[k + 1].name)'
        BY <1>1, <1>5, <3>2, <3>3 DEF Follows, SpeltAt
      <4> QED BY <1>1, <4>1 DEF NextFollows
    <3>4. CASE pos = p /\ field = k + 1
      <4>1. Follows(p + msg[k + 1].gap, k + 1, msg[k + 1].name)'
        BY <1>1, <3>4 DEF Follows
      <4> QED BY <1>1, <4>1 DEF NextFollows
    <3> QED BY <1>6, <2>1, <3>3, <3>4 DEF NextFollows
  <2>2. CASE ~(k < Len(msg))
    BY <1>1, <2>2 DEF NextFollows
  <2> QED BY <2>1, <2>2
<1>7. LayoutInv'
  <2>1. NextFollows(0, 0)'
    BY <1>6 DEF Inv, LayoutInv
  <2>2. ASSUME NEW o \in DOMAIN out
        PROVE  CellInv(o)'
    <3>1. CellInv(o) /\ o \in Nat /\ spelt[o].field \in Nat /\ spelt[o].rest \in Name
      BY DEF Inv, LayoutInv, TypeOK, Spelling
    <3>2. spelt[o].rest # <<>> => Tail(spelt[o].rest) \in Name
      BY <3>1, NameFacts
    <3> QED BY <1>1, <1>5, <1>6, <3>1, <3>2 DEF CellInv
  <2> QED BY <1>1, <2>1, <2>2 DEF LayoutInv
<1>8. HeadInv'
  <2>1. \A o \in DOMAIN out : o < pos'
    BY <1>1, <1>3 DEF Inv, HeadInv, TypeOK
  <2> QED BY <1>1, <1>2, <2>1 DEF HeadInv, Whole
<1>9. NamesInv' /\ KnownIfPointable'
  BY <1>1 DEF Inv, NamesInv, KnownIfPointable, KnownNameReplaced, Pointable
<1> QED BY <1>1, <1>4, <1>7, <1>8, <1>9, CompressKeeps DEF Inv

(* The head of the writer moves on, behind the cell of n bytes at pos.     *)
LEMMA HeadMoves ==
    ASSUME Inv, phase = "compress", NEW n \in Nat \ {0}, pos' = pos + n,
           DOMAIN out' = DOMAIN out \cup {pos}
    PROVE  pos' \in Nat /\ \A o \in DOMAIN out' : o < pos'
<1>1. pos \in Nat /\ DOMAIN out \subseteq Nat /\ \A o \in DOMAIN out : o < pos
  BY DEF Inv, TypeOK, HeadInv
<1> QED BY <1>1

LEMMA WriteEndInv == ASSUME Inv, WriteEnd PROVE Inv'
<1> DEFINE c == [kind |-> "end"]
<1>1. /\ phase = "compress" /\ phase' = "compress" /\ name = <<>>
      /\ Write(c) /\ pos' = pos + 1 /\ name' = NoName /\ field' = field + 1
      /\ UNCHANGED <<msg, names, cur, jumped, decoded>>
  BY DEF WriteEnd, Written, reading
<1>2. name \in Name /\ name # NoName
  <2>1. <<>> \in Seq(Label)
    OBVIOUS
  <2> QED BY <1>1, <2>1, CodecAssumption DEF Name
<1>3. field \in DOMAIN msg
  BY <1>1, <1>2 DEF Inv, HeadInv
<1>4. c \in Cell /\ c.kind = "end"
  BY DEF Cell
<1> HIDE DEF c
<1>5. /\ DOMAIN out' = DOMAIN out \cup {pos} /\ pos \notin DOMAIN out
      /\ out'[pos] = c /\ spelt'[pos] = [field |-> field, rest |-> name]
      /\ \A o \in DOMAIN out : out'[o] = out[o] /\ spelt'[o] = spelt[o]
      /\ DOMAIN out' \subseteq Nat /\ (\A o \in DOMAIN out' : out'[o] \in Cell)
      /\ spelt' \in [DOMAIN out' -> Spelling]
      /\ NextFollows(0, 0)'
      /\ \A o \in DOMAIN out : CellInv(o)'
  BY <1>1, <1>2, <1>3, <1>4, WriteKeeps
<1>6. pos' \in Nat /\ \A o \in DOMAIN out' : o < pos'
  BY <1>1, <1>5, HeadMoves
<1>7. field' \in 1 .. Len(msg') + 1
  BY <1>1, <1>3, FieldFacts DEF Inv
<1>8. TypeOK'
  BY <1>1, <1>5, <1>6, <1>7 DEF Inv, TypeOK
<1>9. LayoutInv'
  <2> PICK h \in Nat, k \in DOMAIN msg : h = pos /\ k = field
    BY <1>3 DEF Inv, TypeOK
  <2>1. NextFollows(h + 1, k)'
    BY <1>1 DEF NextFollows
  <2>2. CellInv(h)'
    BY <1>1, <1>3, <1>4, <1>5, <2>1
       DEF CellInv, IsLabel, IsPointer, IsEnd, Whole
  <2> QED BY <1>5, <2>2 DEF LayoutInv
<1>10. HeadInv'
  BY <1>1, <1>6 DEF HeadInv
<1>11. NamesInv'
  BY <1>1, <1>5 DEF Inv, TypeOK, NamesInv, Pointable
<1>12. KnownIfPointable'
  BY <1>1, <1>4, <1>5
     DEF Inv, KnownIfPointable, KnownNameReplaced, Pointable, IsPointer
<1> QED BY <1>1, <1>8, <1>9, <1>10, <1>11, <1>12, CompressKeeps DEF Inv

LEMMA WritePointerInv == ASSUME Inv, WritePointer PROVE Inv'
<1> DEFINE c == [kind |-> "pointer", to |-> Pointer(names[Key(name)])]
<1>1. /\ phase = "compress" /\ phase' = "compress" /\ name \notin {NoName, <<>>}
      /\ Key(name) \in DOMAIN names
      /\ Write(c) /\ pos' = pos + 2 /\ name' = NoName /\ field' = field + 1
      /\ UNCHANGED <<msg, names, cur, jumped, decoded>>
  BY DEF WritePointer, Written, Replaceable, reading
<1>2. name \in Name /\ name # NoName
  BY <1>1 DEF Inv, TypeOK
<1>3. field \in DOMAIN msg /\ (Whole(msg[field].name) => Whole(name))
  BY <1>1, <1>2 DEF Inv, HeadInv
<1>4. names[Key(name)] \in DOMAIN out /\ names[Key(name)] \in Nat
  BY <1>1 DEF Inv, TypeOK
<1>5. c \in Cell /\ c.kind = "pointer" /\ c.to = Pointer(names[Key(name)])
  BY <1>4, PointerFacts DEF Cell
<1> HIDE DEF c
<1>6. /\ DOMAIN out' = DOMAIN out \cup {pos} /\ pos \notin DOMAIN out
      /\ out'[pos] = c /\ spelt'[pos] = [field |-> field, rest |-> name]
      /\ \A o \in DOMAIN out : out'[o] = out[o] /\ spelt'[o] = spelt[o]
      /\ DOMAIN out' \subseteq Nat /\ (\A o \in DOMAIN out' : out'[o] \in Cell)
      /\ spelt' \in [DOMAIN out' -> Spelling]
      /\ NextFollows(0, 0)'
      /\ \A o \in DOMAIN out : CellInv(o)'
  BY <1>1, <1>2, <1>3, <1>5, WriteKeeps
<1>7. pos' \in Nat /\ \A o \in DOMAIN out' : o < pos'
  BY <1>1, <1>6, HeadMoves
<1>8. field' \in 1 .. Len(msg') + 1
  BY <1>1, <1>3, FieldFacts DEF Inv
<1>9. TypeOK'
  BY <1>1, <1>6, <1>7, <1>8 DEF Inv, TypeOK
<1>10. LayoutInv'
  <2> PICK h \in Nat, k \in DOMAIN msg : h = pos /\ k = field
    BY <1>3 DEF Inv, TypeOK
  <2>1. NextFollows(h + 2, k)'
    BY <1>1 DEF NextFollows
  <2>2. CellInv(h)'
    BY <1>1, <1>3, <1>5, <1>6, <2>1
       DEF CellInv, IsLabel, IsPointer, IsEnd, Whole
  <2> QED BY <1>6, <2>2 DEF LayoutInv
<1>11. HeadInv'
  BY <1>1, <1>7 DEF HeadInv
<1>12. NamesInv'
  BY <1>1, <1>6 DEF Inv, TypeOK, NamesInv, Pointable
<1>13. ASSUME Pointable
       PROVE  KnownNameReplaced'
  <2>1. Key(name) = name
    BY <1>1, <1>2, <1>3, <1>13, NameFacts DEF Pointable
  <2>2. spelt[names[Key(name)]].rest = name
    BY <1>1, <1>13, <2>1 DEF Inv, NamesInv
  <2>3. c.to = names[Key(name)]
    BY <1>1, <1>4, <1>5, <1>13, PointerFacts DEF Pointable
  <2>4. c.to \in DOMAIN out' /\ spelt'[c.to].rest = spelt'[pos].rest
    BY <1>4, <1>6, <2>2, <2>3
  <2>5. KnownNameReplaced
    BY <1>13 DEF Inv, KnownIfPointable
  <2> QED BY <1>6, <2>4, <2>5 DEF KnownNameReplaced
<1>14. KnownIfPointable'
  BY <1>1, <1>13 DEF KnownIfPointable, Pointable, Whole
<1> QED BY <1>1, <1>9, <1>10, <1>11, <1>12, <1>14, CompressKeeps DEF Inv

LEMMA WriteLabelInv == ASSUME Inv, WriteLabel PROVE Inv'
<1> DEFINE c == [kind |-> "label", label |-> name[1]]
<1>1. /\ phase = "compress" /\ phase' = "compress" /\ name \notin {NoName, <<>>}
      /\ names' = IF msg[field].plain THEN names ELSE With(names, Key(name), pos)
      /\ Write(c) /\ pos' = pos + Size[name[1]] /\ name' = Tail(name)
      /\ UNCHANGED <<msg, field, cur, jumped, decoded>>
  BY DEF WriteLabel, Known, reading
<1>2. name \in Name /\ name # NoName /\ name # <<>>
  BY <1>1 DEF Inv, TypeOK
<1>3. field \in DOMAIN msg /\ (Whole(msg[field].name) => Whole(name))
  BY <1>1, <1>2 DEF Inv, HeadInv
<1>4. /\ name[1] \in Label /\ Tail(name) \in Name
      /\ (Whole(name) => Whole(Tail(name)) /\ Key(name) = name)
      /\ Size[name[1]] \in Nat /\ Size[name[1]] > 1
  BY <1>2, NameFacts, SizeFacts
<1>5. c \in Cell /\ c.kind = "label" /\ c.label = name[1]
  BY <1>4 DEF Cell
<1> HIDE DEF c
<1>6. /\ DOMAIN out' = DOMAIN out \cup {pos} /\ pos \notin DOMAIN out
      /\ out'[pos] = c /\ spelt'[pos] = [field |-> field, rest |-> name]
      /\ \A o \in DOMAIN out : out'[o] = out[o] /\ spelt'[o] = spelt[o]
      /\ DOMAIN out' \subseteq Nat /\ (\A o \in DOMAIN out' : out'[o] \in Cell)
      /\ spelt' \in [DOMAIN out' -> Spelling]
      /\ NextFollows(0, 0)'
      /\ \A o \in DOMAIN out : CellInv(o)'
  BY <1>1, <1>2, <1>3, <1>5, WriteKeeps
<1>7. pos' \in Nat /\ \A o \in DOMAIN out' : o < pos'
  BY <1>1, <1>4, <1>6, HeadMoves
<1>8. \A k \in DOMAIN names' :
        \/ k = Key(name) /\ names'[k] = pos
        \/ k \in DOMAIN names /\ names'[k] = names[k]
  BY <1>1 DEF With
<1>9. \A k \in DOMAIN names : k = Key(name) \/ (k \in DOMAIN names' /\ names'[k] = names[k])
  BY <1>1 DEF With
<1>10. TypeOK'
  <2>1. \A k \in DOMAIN names' : names'[k] \in DOMAIN out'
    BY <1>6, <1>8 DEF Inv, TypeOK
  <2> QED BY <1>1, <1>4, <1>6, <1>7, <2>1 DEF Inv, TypeOK
<1>11. LayoutInv'
  <2> PICK h \in Nat, k \in DOMAIN msg, r \in Name :
             h = pos /\ k = field /\ r = name
    BY <1>2, <1>3 DEF Inv, TypeOK
  <2>1. Follows(h + Size[r[1]], k, Tail(r))'
    BY <1>1 DEF Follows
  <2>2. CellInv(h)'
    BY <1>1, <1>2, <1>3, <1>5, <1>6, <2>1
       DEF CellInv, IsLabel, IsPointer, IsEnd, Whole
  <2> QED BY <1>6, <2>2 DEF LayoutInv
<1>12. HeadInv'
  BY <1>1, <1>3, <1>4, <1>7 DEF HeadInv, Whole
<1>13. ASSUME Pointable'
       PROVE  Pointable /\ Key(name) = name
  <2>1. \A i \in DOMAIN msg : Whole(msg[i].name)
    BY <1>1, <1>13 DEF Pointable, Whole
  <2>2. Key(name) = name
    BY <1>3, <1>4, <2>1
  <2>3. \A k \in DOMAIN names : names[k] < Reach
    <3>1. CASE msg[field].plain
      BY <1>1, <1>13, <3>1 DEF Pointable
    <3>2. CASE ~msg[field].plain /\ Key(name) \notin DOMAIN names
      BY <1>9, <1>13, <3>2 DEF Pointable
    <3>3. CASE ~msg[field].plain /\ Key(name) \in DOMAIN names
      BY <3>3 DEF WriteLabel, Replaceable
    <3> QED BY <3>1, <3>2, <3>3
  <2> QED BY <2>1, <2>2, <2>3 DEF Pointable
<1>14. NamesInv'
  <2> SUFFICES ASSUME Pointable', NEW k \in DOMAIN names'
               PROVE  spelt'[names'[k]].rest = k
    BY DEF NamesInv
  <2>1. Pointable /\ Key(name) = name
    BY <1>13
  <2>2. CASE k = Key(name) /\ names'[k] = pos
    BY <1>6, <2>1, <2>2
  <2>3. CASE k \in DOMAIN names /\ names'[k] = names[k]
    <3>1. names[k] \in DOMAIN out /\ spelt[names[k]].rest = k
      BY <2>1, <2>3 DEF Inv, TypeOK, NamesInv
    <3> QED BY <1>6, <2>3, <3>1
  <2> QED BY <1>8, <2>2, <2>3
<1>15. KnownIfPointable'
  <2> SUFFICES ASSUME Pointable'
               PROVE  KnownNameReplaced'
    BY DEF KnownIfPointable
  <2>1. KnownNameReplaced
    BY <1>13 DEF Inv, KnownIfPointable
  <2> QED BY <1>5, <1>6, <2>1 DEF KnownNameReplaced, IsPointer
<1> QED BY <1>1, <1>10, <1>11, <1>12, <1>14, <1>15, CompressKeeps DEF Inv

-----------------------------------------------------------------------------
(* When all is written, only what is written follows.                      *)
LEMMA WrittenFollows ==
    ASSUME Inv,
           phase # "compress" \/ (name = NoName /\ field > Len(msg))
    PROVE  /\ \A p, k : \A r \in Name : Follows(p, k, r) => SpeltAt(p, k, r)
           /\ \A p : \A k \in Nat : NextFollows(p, k) => Resumes(p, k + 1)
<1>1. msg \in Seq(Field) /\ Len(msg) \in Nat /\ DOMAIN msg = 1 .. Len(msg)
      /\ field \in Nat
  BY DEF Inv, TypeOK
<1>2. ASSUME NEW p, NEW k, NEW r \in Name, Follows(p, k, r)
      PROVE  SpeltAt(p, k, r)
  <2>1. r # NoName
    BY CodecAssumption
  <2> QED BY <1>2, <2>1 DEF Follows
<1>3. ASSUME NEW p, NEW k \in Nat, NextFollows(p, k)
      PROVE  Resumes(p, k + 1)
  <2> SUFFICES ASSUME k + 1 \in DOMAIN msg
               PROVE  SpeltAt(p + msg[k + 1].gap, k + 1, msg[k + 1].name)
    BY DEF Resumes
  <2>1. k < Len(msg) /\ msg[k + 1].name \in Name
    BY <1>1, FieldFacts DEF Inv
  <2>2. ~(phase = "compress" /\ pos = p /\ field = k + 1 /\ name = NoName)
    BY <1>1, <2>1
  <2> QED BY <1>2, <1>3, <2>1, <2>2 DEF NextFollows
<1> QED BY <1>2, <1>3

(* Reading changes nothing of what is written.                             *)
LEMMA ReadKeeps ==
    ASSUME Inv, phase' # "compress", UNCHANGED <<msg, out, names, spelt>>,
           phase # "compress" \/ (name = NoName /\ field > Len(msg))
    PROVE  LayoutInv' /\ HeadInv' /\ NamesInv' /\ KnownIfPointable'
<1>1. ASSUME NEW p, NEW k, NEW r \in Name, Follows(p, k, r)
      PROVE  Follows(p, k, r)'
  <2>1. SpeltAt(p, k, r)
    BY <1>1, WrittenFollows
  <2> QED BY <2>1 DEF Follows, SpeltAt
<1>2. ASSUME NEW p, NEW k \in Nat, NextFollows(p, k)
      PROVE  NextFollows(p, k)'
  <2>1. Resumes(p, k + 1)
    BY <1>2, WrittenFollows
  <2>2. k < Len(msg) => k + 1 \in DOMAIN msg
    BY DEF Inv, TypeOK
  <2> QED BY <2>1, <2>2 DEF NextFollows, Resumes, Follows, SpeltAt
<1>3. LayoutInv'
  <2>1. NextFollows(0, 0)'
    BY <1>2 DEF Inv, LayoutInv
  <2>2. ASSUME NEW o \in DOMAIN out
        PROVE  CellInv(o)'
    <3>1. CellInv(o) /\ spelt[o].field \in Nat /\ spelt[o].rest \in Name
      BY DEF Inv, LayoutInv, TypeOK, Spelling
    <3>2. spelt[o].rest # <<>> => Tail(spelt[o].rest) \in Name
      BY <3>1, NameFacts
    <3> QED BY <1>1, <1>2, <3>1, <3>2 DEF CellInv
  <2> QED BY <2>1, <2>2 DEF LayoutInv
<1>4. HeadInv'
  BY DEF HeadInv
<1>5. NamesInv' /\ KnownIfPointable'
  BY DEF Inv, NamesInv, KnownIfPointable, KnownNameReplaced, Pointable
<1> QED BY <1>3, <1>4, <1>5

LEMMA CompressedInv == ASSUME Inv, Compressed PROVE Inv'
<1>1. /\ phase = "compress" /\ phase' = "decompress" /\ name = NoName
      /\ field > Len(msg) /\ field' = 1 /\ pos' = 0 /\ name' = NoName
      /\ UNCHANGED <<msg, cur, jumped, decoded, out, names, spelt>>
  BY DEF Compressed, reading, writing
<1>2. LayoutInv' /\ HeadInv' /\ NamesInv' /\ KnownIfPointable'
  BY <1>1, ReadKeeps
<1>3. Len(msg) \in Nat
  BY DEF Inv, TypeOK
<1>4. TypeOK'
  <2>1. field' \in 1 .. Len(msg') + 1
    BY <1>1, <1>3
  <2> QED BY <1>1, <2>1 DEF Inv, TypeOK
<1>5. decoded = <<>>
  BY <1>1 DEF Inv
<1>6. ReadInv'
  <2>1. Resumes(0, 0 + 1)
    BY <1>1, WrittenFollows DEF Inv, LayoutInv
  <2>2. Resumes(0, 1)'
    BY <1>1, <2>1 DEF Resumes, SpeltAt
  <2>3. Resumes(pos, field)'
    BY <1>1, <2>2 DEF Resumes, SpeltAt
  <2>4. Len(decoded') = field' - 1
    BY <1>1, <1>5
  <2> QED BY <1>1, <2>3, <2>4 DEF ReadInv
<1>7. RoundTrip' /\ NeverLost'
  BY <1>1, <1>5 DEF RoundTrip, NeverLost
<1> QED BY <1>1, <1>2, <1>4, <1>6, <1>7 DEF Inv, InFieldInv

LEMMA SkipDataInv == ASSUME Inv, SkipData PROVE Inv'
<1>1. /\ phase = "decompress" /\ phase' = "decompress" /\ name = NoName
      /\ field <= Len(msg) /\ pos' = pos + msg[field].gap /\ cur' = pos'
      /\ jumped' = FALSE /\ name' = <<>>
      /\ UNCHANGED <<msg, field, decoded, out, names, spelt>>
  BY DEF SkipData, writing
<1>2. LayoutInv' /\ HeadInv' /\ NamesInv' /\ KnownIfPointable'
  BY <1>1, ReadKeeps
<1>3. field \in DOMAIN msg
  BY <1>1 DEF Inv, TypeOK
<1>4. msg[field].gap \in Nat /\ msg[field].name \in Name /\ pos' \in Nat
  BY <1>1, <1>3, FieldFacts DEF Inv, TypeOK
<1>5. <<>> \in Name /\ <<>> # NoName
  <2>1. <<>> \in Seq(Label)
    OBVIOUS
  <2> QED BY <2>1, CodecAssumption DEF Name
<1>6. TypeOK'
  BY <1>1, <1>4, <1>5 DEF Inv, TypeOK
<1>7. ASSUME Pointable'
      PROVE  /\ Len(decoded') = field' - 1 /\ field' \in DOMAIN msg'
             /\ cur' \in DOMAIN out'
             /\ msg'[field'].name = name' \o spelt'[cur'].rest
             /\ pos' = cur' /\ spelt'[cur'].field = field'
  <2>1. Pointable
    BY <1>1, <1>7 DEF Pointable
  <2>2. Len(decoded) = field - 1 /\ Resumes(pos, field)
    BY <1>1, <2>1 DEF Inv, ReadInv
  <2>3. /\ pos' \in DOMAIN out /\ spelt[pos'].field = field
        /\ spelt[pos'].rest = msg[field].name
    BY <1>1, <1>3, <2>2 DEF Resumes, SpeltAt
  <2>4. <<>> \o msg[field].name = msg[field].name
    BY <1>4 DEF Name
  <2> QED BY <1>1, <1>3, <2>2, <2>3, <2>4
<1>8. ReadInv'
  BY <1>1, <1>5, <1>7 DEF ReadInv
<1>9. RoundTrip' /\ NeverLost'
  BY <1>1 DEF Inv, RoundTrip, NeverLost, Pointable
<1> QED BY <1>1, <1>2, <1>3, <1>6, <1>8, <1>9 DEF Inv, InFieldInv

LEMMA ReadLabelInv == ASSUME Inv, ReadLabel PROVE Inv'
<1>1. /\ phase = "decompress" /\ phase' = "decompress" /\ name # NoName
      /\ cur \in DOMAIN out /\ out[cur].kind = "label"
      /\ name' = Append(name, out[cur].label)
      /\ cur' = cur + Size[out[cur].label]
      /\ pos' = IF jumped THEN pos ELSE pos + Size[out[cur].label]
      /\ UNCHANGED <<msg, field, jumped, decoded, out, names, spelt>>
  BY DEF ReadLabel, Reads, IsLabel, Moved, writing
<1>2. LayoutInv' /\ HeadInv' /\ NamesInv' /\ KnownIfPointable'
  BY <1>1, ReadKeeps
<1>3. /\ name \in Name /\ out[cur] \in Cell /\ pos \in Nat /\ cur \in Nat
      /\ spelt[cur].rest \in Name /\ spelt[cur].field \in Nat
  BY <1>1 DEF Inv, TypeOK, Spelling
<1>4. out[cur].label \in Label
  BY <1>1, <1>3 DEF Cell
<1>5. Size[out[cur].label] \in Nat
  BY <1>4, SizeFacts
<1>6. name' \in Name /\ name' # NoName
  <2>1. \A s \in Seq(Label), l \in Label : Append(s, l) \in Seq(Label)
    OBVIOUS
  <2> QED BY <1>1, <1>3, <1>4, <2>1, CodecAssumption DEF Name
<1>7. TypeOK'
  <2>1. pos' \in Nat /\ cur' \in Nat
    BY <1>1, <1>3, <1>5
  <2>2. name' \in Name \cup {NoName}
    BY <1>6
  <2> QED BY <1>1, <2>1, <2>2 DEF Inv, TypeOK
<1>8. ASSUME Pointable'
      PROVE  /\ Len(decoded') = field' - 1 /\ field' \in DOMAIN msg'
             /\ cur' \in DOMAIN out'
             /\ msg'[field'].name = name' \o spelt'[cur'].rest
             /\ jumped' => Resumes(pos, field + 1)'
             /\ ~jumped' => pos' = cur' /\ spelt'[cur'].field = field'
  <2>1. Pointable
    BY <1>1, <1>8 DEF Pointable
  <2>2. /\ Len(decoded) = field - 1 /\ field \in DOMAIN msg
        /\ msg[field].name = name \o spelt[cur].rest
        /\ jumped => Resumes(pos, field + 1)
        /\ ~jumped => pos = cur /\ spelt[cur].field = field
    BY <1>1, <2>1 DEF Inv, ReadInv
  <2>3. /\ spelt[cur].rest # <<>> /\ out[cur].label = spelt[cur].rest[1]
        /\ Follows(cur', spelt[cur].field, Tail(spelt[cur].rest))
    BY <1>1 DEF Inv, LayoutInv, CellInv, IsLabel
  <2>4. Tail(spelt[cur].rest) \in Name
    BY <1>3, <2>3, NameFacts
  <2>5. SpeltAt(cur', spelt[cur].field, Tail(spelt[cur].rest))
    BY <1>1, <2>3, <2>4, WrittenFollows
  <2>6. name' \o Tail(spelt[cur].rest) = name \o spelt[cur].rest
    BY <1>1, <1>3, <2>3, MoveLabel
  <2>7. jumped => Resumes(pos, field + 1)'
    BY <1>1, <2>2 DEF Resumes, SpeltAt
  <2> QED BY <1>1, <2>2, <2>5, <2>6, <2>7 DEF SpeltAt
<1>9. ReadInv'
  BY <1>1, <1>6, <1>8 DEF ReadInv
<1>10. RoundTrip' /\ NeverLost'
  BY <1>1 DEF Inv, RoundTrip, NeverLost, Pointable
<1> QED BY <1>1, <1>2, <1>7, <1>9, <1>10 DEF Inv, InFieldInv

LEMMA ReadPointerInv == ASSUME Inv, ReadPointer PROVE Inv'
<1>1. /\ phase = "decompress" /\ phase' = "decompress" /\ name # NoName
      /\ cur \in DOMAIN out /\ out[cur].kind = "pointer"
      /\ cur' = out[cur].to /\ jumped' = TRUE
      /\ pos' = IF jumped THEN pos ELSE pos + 2
      /\ UNCHANGED <<msg, field, name, decoded, out, names, spelt>>
  BY DEF ReadPointer, Reads, IsPointer, Moved, Target, writing
<1>2. LayoutInv' /\ HeadInv' /\ NamesInv' /\ KnownIfPointable'
  BY <1>1, ReadKeeps
<1>3. out[cur] \in Cell /\ pos \in Nat /\ spelt[cur].field \in Nat
  BY <1>1 DEF Inv, TypeOK, Spelling
<1>4. out[cur].to \in Nat
  BY <1>1, <1>3, CodecAssumption DEF Cell
<1>5. TypeOK'
  BY <1>1, <1>3, <1>4 DEF Inv, TypeOK
<1>6. ASSUME Pointable'
      PROVE  /\ Len(decoded') = field' - 1 /\ field' \in DOMAIN msg'
             /\ cur' \in DOMAIN out'
             /\ msg'[field'].name = name' \o spelt'[cur'].rest
             /\ Resumes(pos, field + 1)'
  <2>1. Pointable
    BY <1>1, <1>6 DEF Pointable
  <2>2. /\ Len(decoded) = field - 1 /\ field \in DOMAIN msg
        /\ msg[field].name = name \o spelt[cur].rest
        /\ jumped => Resumes(pos, field + 1)
        /\ ~jumped => pos = cur /\ spelt[cur].field = field
    BY <1>1, <2>1 DEF Inv, ReadInv
  <2>3. cur' \in DOMAIN out /\ spelt[cur'].rest = spelt[cur].rest
    BY <1>1, <2>1 DEF Inv, KnownIfPointable, KnownNameReplaced, IsPointer
  <2>4. Resumes(cur + 2, spelt[cur].field + 1)
    <3>1. NextFollows(cur + 2, spelt[cur].field)
      BY <1>1 DEF Inv, LayoutInv, CellInv, IsPointer
    <3> QED BY <1>1, <1>3, <3>1, WrittenFollows
  <2>5. Resumes(pos', field + 1)
    BY <1>1, <2>2, <2>4
  <2>6. Resumes(pos, field + 1)'
    BY <1>1, <2>5 DEF Resumes, SpeltAt
  <2> QED BY <1>1, <2>2, <2>3, <2>6
<1>7. ReadInv'
  BY <1>1, <1>6 DEF ReadInv
<1>8. RoundTrip' /\ NeverLost'
  BY <1>1 DEF Inv, RoundTrip, NeverLost, Pointable
<1> QED BY <1>1, <1>2, <1>5, <1>7, <1>8 DEF Inv, InFieldInv

LEMMA ReadEndInv == ASSUME Inv, ReadEnd PROVE Inv'
<1>1. /\ phase = "decompress" /\ phase' = "decompress" /\ name # NoName
      /\ cur \in DOMAIN out /\ out[cur].kind = "end"
      /\ decoded' = Append(decoded, name) /\ name' = NoName
      /\ pos' = IF jumped THEN pos ELSE pos + 1
      /\ field' = field + 1
      /\ UNCHANGED <<msg, cur, jumped, out, names, spelt>>
  BY DEF ReadEnd, Reads, IsEnd, Moved, writing
<1>2. LayoutInv' /\ HeadInv' /\ NamesInv' /\ KnownIfPointable'
  BY <1>1, ReadKeeps
<1>3. /\ name \in Name /\ pos \in Nat /\ spelt[cur].field \in Nat
      /\ decoded \in Seq(Name)
  BY <1>1 DEF Inv, TypeOK, Spelling
<1>4. /\ decoded' \in Seq(Name) /\ Len(decoded') = Len(decoded) + 1
      /\ Len(decoded) \in Nat /\ DOMAIN decoded' = 1 .. Len(decoded) + 1
      /\ DOMAIN decoded = 1 .. Len(decoded)
      /\ \A i \in DOMAIN decoded : decoded'[i] = decoded[i]
      /\ decoded'[Len(decoded) + 1] = name
  <2>1. \A s \in Seq(Name), n \in Name :
          /\ Append(s, n) \in Seq(Name) /\ Len(Append(s, n)) = Len(s) + 1
          /\ Len(s) \in Nat /\ DOMAIN Append(s, n) = 1 .. Len(s) + 1
          /\ DOMAIN s = 1 .. Len(s)
          /\ \A i \in DOMAIN s : Append(s, n)[i] = s[i]
          /\ Append(s, n)[Len(s) + 1] = n
    OBVIOUS
  <2> QED BY <1>1, <1>3, <2>1
<1>5. ASSUME Pointable'
      PROVE  /\ Len(decoded) = field - 1 /\ field \in DOMAIN msg
             /\ msg[field].name = name
             /\ Resumes(pos', field')
             /\ \A i \in DOMAIN decoded : decoded[i] = msg[i].name
  <2>1. Pointable
    BY <1>1, <1>5 DEF Pointable
  <2>2. /\ Len(decoded) = field - 1 /\ field \in DOMAIN msg
        /\ msg[field].name = name \o spelt[cur].rest
        /\ jumped => Resumes(pos, field + 1)
        /\ ~jumped => pos = cur /\ spelt[cur].field = field
    BY <1>1, <2>1 DEF Inv, ReadInv
  <2>3. spelt[cur].rest = <<>> /\ NextFollows(cur + 1, spelt[cur].field)
    BY <1>1 DEF Inv, LayoutInv, CellInv, IsEnd
  <2>4. Resumes(cur + 1, spelt[cur].field + 1)
    BY <1>1, <1>3, <2>3, WrittenFollows
  <2>5. name \o <<>> = name
    BY <1>3 DEF Name
  <2>6. Resumes(pos', field')
    BY <1>1, <2>2, <2>4
  <2>7. \A i \in DOMAIN decoded : decoded[i] = msg[i].name
    BY <2>1 DEF Inv, RoundTrip
  <2> QED BY <2>2, <2>3, <2>5, <2>6, <2>7
<1>6. TypeOK'
  <2>1. field \in DOMAIN msg
    BY <1>1 DEF Inv, InFieldInv
  <2>2. field' \in 1 .. Len(msg') + 1
    BY <1>1, <2>1, FieldFacts DEF Inv
  <2> QED BY <1>1, <1>3, <1>4, <2>2 DEF Inv, TypeOK
<1>7. ReadInv'
  <2> SUFFICES ASSUME Pointable'
               PROVE  Len(decoded') = field' - 1 /\ Resumes(pos, field)'
    BY <1>1 DEF ReadInv
  <2>1. Len(decoded) = field - 1 /\ field \in DOMAIN msg /\ Resumes(pos', field')
    BY <1>5
  <2>2. Len(decoded') = field' - 1
    BY <1>1, <1>4, <2>1, FieldFacts DEF Inv
  <2>3. Resumes(pos, field)'
    BY <1>1, <2>1 DEF Resumes, SpeltAt
  <2> QED BY <2>2, <2>3
<1>8. RoundTrip'
  <2> SUFFICES ASSUME Pointable', NEW i \in DOMAIN decoded'
               PROVE  decoded'[i] = msg'[i].name
    BY DEF RoundTrip
  <2>1. CASE i \in DOMAIN decoded
    BY <1>1, <1>4, <1>5, <2>1
  <2>2. CASE i = Len(decoded) + 1
    <3>1. i = field
      BY <1>5, <2>2, FieldFacts DEF Inv
    <3> QED BY <1>1, <1>4, <1>5, <2>2, <3>1
  <2> QED BY <1>4, <2>1, <2>2
<1>9. NeverLost'
  BY <1>1 DEF NeverLost
<1> QED BY <1>1, <1>2, <1>6, <1>7, <1>8, <1>9 DEF Inv, InFieldInv

LEMMA ReadOtherInv == ASSUME Inv, ReadOther PROVE Inv'
<1>1. /\ phase = "decompress" /\ phase' = "lost" /\ name # NoName
      /\ ~(cur \in DOMAIN out /\ (IsLabel(out[cur]) => Len(name) < Room))
      /\ UNCHANGED <<msg, field, name, pos, cur, jumped, decoded, out, names, spelt>>
  BY DEF ReadOther, reading, writing
<1>2. LayoutInv' /\ HeadInv' /\ NamesInv' /\ KnownIfPointable'
  BY <1>1, ReadKeeps
<1>3. TypeOK'
  BY <1>1 DEF Inv, TypeOK
<1>4. ~Pointable
  <2> SUFFICES ASSUME Pointable
               PROVE  FALSE
    OBVIOUS
  <2>1. /\ cur \in DOMAIN out /\ field \in DOMAIN msg
        /\ msg[field].name = name \o spelt[cur].rest
    BY <1>1 DEF Inv, ReadInv
  <2>2. IsLabel(out[cur]) /\ ~(Len(name) < Room)
    BY <1>1, <2>1
  <2>3. spelt[cur].rest # <<>> /\ spelt[cur].rest \in Name /\ name \in Name
    BY <1>1, <2>1, <2>2 DEF Inv, LayoutInv, CellInv, TypeOK, Spelling
  <2>4. \A s, t \in Seq(Label) : t # <<>> => Len(s \o t) > Len(s) /\ Len(s) \in Nat
    OBVIOUS
  <2>5. Len(msg[field].name) > Len(name) /\ Len(name) \in Nat
    BY <2>1, <2>3, <2>4 DEF Name
  <2>6. Room \in Nat /\ Len(msg[field].name) <= Room
    BY <2>1, CodecAssumption DEF Inv, InFieldInv
  <2>7. Len(msg[field].name) \in Nat
    BY <2>1, FieldFacts DEF Inv, Name
  <2> QED BY <2>2, <2>5, <2>6, <2>7
<1>5. ~Pointable'
  BY <1>1, <1>4 DEF Pointable
<1> QED BY <1>1, <1>2, <1>3, <1>5 DEF Inv, InFieldInv, ReadInv, RoundTrip, NeverLost

LEMMA DecompressedInv == ASSUME Inv, Decompressed PROVE Inv'
<1>1. /\ phase = "decompress" /\ phase' = "done"
      /\ UNCHANGED <<msg, field, name, pos, cur, jumped, decoded, out, names, spelt>>
  BY DEF Decompressed, reading, writing
<1>2. LayoutInv' /\ HeadInv' /\ NamesInv' /\ KnownIfPointable'
  BY <1>1, ReadKeeps
<1>3. TypeOK'
  BY <1>1 DEF Inv, TypeOK
<1>4. RoundTrip' /\ NeverLost'
  BY <1>1 DEF Inv, RoundTrip, NeverLost, Pointable
<1> QED BY <1>1, <1>2, <1>3, <1>4 DEF Inv, InFieldInv, ReadInv

-----------------------------------------------------------------------------
LEMMA Invariant == Spec => []Inv
<1>1. Init => Inv
  BY InitInv
<1>2. Inv /\ [Next]_vars => Inv'
  <2> SUFFICES ASSUME Inv, [Next]_vars PROVE Inv'
    OBVIOUS
  <2>1. CASE CopyData
    BY <2>1, CopyDataInv
  <2>2. CASE WriteEnd
    BY <2>2, WriteEndInv
  <2>3. CASE WritePointer
    BY <2>3, WritePointerInv
  <2>4. CASE WriteLabel
    BY <2>4, WriteLabelInv
  <2>5. CASE Compressed
    BY <2>5, CompressedInv
  <2>6. CASE SkipData
    BY <2>6, SkipDataInv
  <2>7. CASE ReadLabel
    BY <2>7, ReadLabelInv
  <2>8. CASE ReadPointer
    BY <2>8, ReadPointerInv
  <2>9. CASE ReadEnd
    BY <2>9, ReadEndInv
  <2>10. CASE ReadOther
    BY <2>10, ReadOtherInv
  <2>11. CASE Decompressed
    BY <2>11, DecompressedInv
  <2>12. CASE UNCHANGED vars
    <3>1. UNCHANGED <<msg, phase, field, name, pos, out, names, cur, jumped,
                      decoded, spelt>>
      BY <2>12 DEF vars, reading, writing
    <3>2. TypeOK' /\ HeadInv' /\ NamesInv' /\ ReadInv' /\ InFieldInv'
      BY <3>1 DEF Inv, TypeOK, HeadInv, NamesInv, ReadInv, InFieldInv, Pointable,
                  Resumes, SpeltAt
    <3>3. LayoutInv'
      BY <3>1 DEF Inv, LayoutInv, CellInv, NextFollows, Follows, SpeltAt
    <3>4. KnownIfPointable' /\ RoundTrip' /\ NeverLost'
      BY <3>1 DEF Inv, KnownIfPointable, KnownNameReplaced, RoundTrip, NeverLost,
                  Pointable
    <3> QED BY <3>1, <3>2, <3>3, <3>4 DEF Inv
  <2> QED BY <2>1, <2>2, <2>3, <2>4, <2>5, <2>6, <2>7, <2>8, <2>9, <2>10, <2>11,
             <2>12 DEF Next
<1> QED BY <1>1, <1>2, PTL DEF Spec

(* All pointers fit, every known offset is of something written, and no    *)
(* field is written or read behind the last: whatever the message.         *)
THEOREM TypeCorrect == Spec => []TypeOK
<1>1. Inv => TypeOK
  BY DEF Inv
<1> QED BY <1>1, Invariant, PTL

(* compressName replaces the rest of a name by a pointer only to the same  *)
(* labels, as long as offsets fit a pointer and labels hold no zero byte.  *)
THEOREM KnownNamesAreKnown == Spec => []KnownIfPointable
<1>1. Inv => KnownIfPointable
  BY DEF Inv
<1> QED BY <1>1, Invariant, PTL

(* decompressName returns, for each name of a message that codecMessage    *)
(* compressed, the name that was compressed.                               *)
THEOREM NamesComeBack == Spec => []RoundTrip
<1>1. Inv => RoundTrip
  BY DEF Inv
<1> QED BY <1>1, Invariant, PTL

(* decompressName never reads a place that compressName did not write: the *)
(* place in the message is right again after every pointer.                *)
THEOREM NeverTakesData == Spec => []NeverLost
<1>1. Inv => NeverLost
  BY DEF Inv
<1> QED BY <1>1, Invariant, PTL

-----------------------------------------------------------------------------
(* DecompressName.  First its reference, the lengths of names: a row of    *)
(* them says how long the name at each offset is, of those that end within *)
(* so many labels and pointers.                                            *)
Zeros(m) == [o \in 0 .. F!Bytes(m) - 1 |-> 0]

IsLengths(m, k, f) ==
    f = [s \in 0 .. k |-> IF s = 0 THEN Zeros(m) ELSE F!Longer(m, f[s - 1])]

(* The names a row knows the length of.                                    *)
KnownIn(row) == {o \in DOMAIN row : row[o] # 0}

LEMMA SmallestOf ==
    ASSUME NEW S, S \subseteq Nat, S # {}
    PROVE  \E n \in S : \A k \in S : n <= k
<1>1. IsWellFoundedOn(OpToRel(<, Nat), Nat)
  BY NatLessThanWellFounded
<1>2. PICK n \in S : \A k \in S : <<k, n>> \notin OpToRel(<, Nat)
  BY <1>1, WFMin, Zenon
<1>3. \A k \in S : ~ (k < n)
  BY <1>2 DEF OpToRel
<1> QED BY <1>3

LEMMA InputFacts ==
    ASSUME NEW m \in Inputs
    PROVE  /\ F!Bytes(m) \in Nat /\ DOMAIN m = 0 .. F!Bytes(m)
           /\ \A o \in 0 .. F!Bytes(m) : m[o] \in Nat
BY InputAssumption

LEMMA LengthsExist ==
    ASSUME NEW m \in Inputs, NEW k \in Nat
    PROVE  \E f : IsLengths(m, k, f)
<1> DEFINE S == {n \in Nat : ~ \E f : IsLengths(m, n, f)}
<1> SUFFICES ASSUME S # {} PROVE FALSE
  OBVIOUS
<1>1. PICK n \in S : \A j \in S : n <= j
  BY SmallestOf
<1>2. CASE n = 0
  <2>1. IsLengths(m, 0, [s \in 0 .. 0 |-> Zeros(m)])
    BY DEF IsLengths
  <2> QED BY <1>2, <2>1
<1>3. CASE n > 0
  <2>1. n - 1 \in Nat /\ n - 1 \notin S
    BY <1>1, <1>3
  <2>2. PICK g : IsLengths(m, n - 1, g)
    BY <2>1
  <2> DEFINE f == [s \in 0 .. n |-> IF s = n THEN F!Longer(m, g[n - 1]) ELSE g[s]]
  <2>3. \A s \in 0 .. n - 1 : f[s] = g[s]
    BY <2>1
  <2>4. ASSUME NEW s \in 0 .. n
        PROVE  f[s] = IF s = 0 THEN Zeros(m) ELSE F!Longer(m, f[s - 1])
    <3>1. CASE s = n
      <4>1. f[n] = F!Longer(m, g[n - 1]) /\ f[n - 1] = g[n - 1]
        BY <2>1, <2>3
      <4> QED BY <3>1, <4>1, <1>3
    <3>2. CASE s # n
      <4>1. s \in 0 .. n - 1
        BY <3>2
      <4>2. f[s] = g[s]
        BY <4>1, <2>3
      <4>3. g[s] = IF s = 0 THEN Zeros(m) ELSE F!Longer(m, g[s - 1])
        BY <4>1, <2>2 DEF IsLengths
      <4>4. s # 0 => f[s - 1] = g[s - 1]
        BY <4>1, <2>3
      <4> QED BY <4>2, <4>3, <4>4
    <3> QED BY <3>1, <3>2
  <2>5. f = [s \in 0 .. n |-> f[s]]
    OBVIOUS
  <2> HIDE DEF f
  <2>6. f = [s \in 0 .. n |-> IF s = 0 THEN Zeros(m) ELSE F!Longer(m, f[s - 1])]
    BY <2>4, <2>5
  <2> QED BY <2>6 DEF IsLengths
<1> QED BY <1>1, <1>2, <1>3

(* What Lengths says, row by row.                                          *)
LEMMA LengthsAre ==
    ASSUME NEW m \in Inputs
    PROVE  /\ F!Lengths(m)[0] = Zeros(m)
           /\ \A s \in 0 .. F!Bytes(m) :
                F!Lengths(m)[s + 1] = F!Longer(m, F!Lengths(m)[s])
<1>1. F!Bytes(m) \in Nat
  BY InputFacts
<1>2. PICK f : IsLengths(m, F!Bytes(m) + 1, f)
  BY <1>1, LengthsExist
<1>3. IsLengths(m, F!Bytes(m) + 1, F!Lengths(m))
  BY <1>2 DEF IsLengths, Zeros, F!Lengths
<1> HIDE DEF F!Lengths
<1> DEFINE known == F!Lengths(m)
<1>4. \A s \in 0 .. F!Bytes(m) + 1 :
        known[s] = IF s = 0 THEN Zeros(m) ELSE F!Longer(m, known[s - 1])
  <2> HIDE DEF known
  <2>1. known = [s \in 0 .. F!Bytes(m) + 1 |->
                  IF s = 0 THEN Zeros(m) ELSE F!Longer(m, known[s - 1])]
    BY <1>3 DEF IsLengths, known
  <2> QED BY <2>1
<1>5. ASSUME NEW s \in 0 .. F!Bytes(m)
      PROVE  known[s + 1] = F!Longer(m, known[s])
  <2>1. s + 1 \in 0 .. F!Bytes(m) + 1 /\ s + 1 # 0 /\ (s + 1) - 1 = s
    BY <1>1
  <2> QED BY <2>1, <1>4
<1> QED BY <1>1, <1>4, <1>5

Row(m) == [0 .. F!Bytes(m) - 1 -> Nat]

LEMMA LengthInRow ==
    ASSUME NEW m \in Inputs, NEW row \in Row(m), NEW o
    PROVE  /\ F!LengthIn(row, o) \in Nat
           /\ F!LengthIn(row, o) # 0 => o \in 0 .. F!Bytes(m) - 1
           /\ o \in 0 .. F!Bytes(m) - 1 => F!LengthIn(row, o) = row[o]
BY DEF F!LengthIn, Row

LEMMA SameRow ==
    ASSUME NEW m, NEW row \in Row(m), NEW other \in Row(m),
           \A o \in 0 .. F!Bytes(m) - 1 : other[o] = row[o]
    PROVE  other = row
<1> DEFINE D == 0 .. F!Bytes(m) - 1
<1>1. row \in [D -> Nat] /\ other \in [D -> Nat] /\ \A o \in D : other[o] = row[o]
  BY DEF Row
<1> HIDE DEF D
<1>2. row = [o \in D |-> row[o]] /\ other = [o \in D |-> other[o]]
  BY <1>1
<1>3. [o \in D |-> row[o]] = [o \in D |-> other[o]]
  BY <1>1
<1> QED BY <1>2, <1>3

LEMMA LongerRow ==
    ASSUME NEW m \in Inputs, NEW row \in Row(m)
    PROVE  F!Longer(m, row) \in Row(m)
<1>1. ASSUME NEW o \in 0 .. F!Bytes(m) - 1
      PROVE  F!Longer(m, row)[o] \in Nat
  <2>1. \A p : F!LengthIn(row, p) \in Nat
    BY LengthInRow
  <2>2. m[o] \in Nat
    BY InputFacts
  <2> QED BY <2>1, <2>2 DEF F!Longer
<1> QED BY <1>1 DEF F!Longer, Row

(* A row that knows more makes one that knows more.                        *)
LEMMA LongerKeeps ==
    ASSUME NEW m \in Inputs, NEW row \in Row(m), NEW next \in Row(m),
           \A o \in 0 .. F!Bytes(m) - 1 : row[o] # 0 => next[o] = row[o],
           NEW o \in 0 .. F!Bytes(m) - 1, F!Longer(m, row)[o] # 0
    PROVE  F!Longer(m, next)[o] = F!Longer(m, row)[o]
<1>1. \A p : /\ F!LengthIn(row, p) \in Nat
             /\ F!LengthIn(row, p) # 0 => F!LengthIn(next, p) = F!LengthIn(row, p)
  BY LengthInRow
<1>2. m[o] \in Nat
  BY InputFacts
<1> QED BY <1>1, <1>2 DEF F!Longer

LEMMA RowsAre ==
    ASSUME NEW m \in Inputs
    PROVE  \A s \in 0 .. F!Bytes(m) + 1 : F!Lengths(m)[s] \in Row(m)
<1> DEFINE S == {s \in 0 .. F!Bytes(m) + 1 : F!Lengths(m)[s] \notin Row(m)}
<1> SUFFICES ASSUME S # {} PROVE FALSE
  OBVIOUS
<1>1. F!Bytes(m) \in Nat
  BY InputFacts
<1>2. PICK n \in S : \A j \in S : n <= j
  <2>1. S \subseteq Nat
    BY <1>1
  <2> QED BY <2>1, SmallestOf
<1>3. n # 0
  <2>1. Zeros(m) \in Row(m)
    BY DEF Zeros, Row
  <2> QED BY <2>1, LengthsAre
<1>4. n - 1 \in 0 .. F!Bytes(m) /\ n - 1 \notin S /\ (n - 1) + 1 = n
  BY <1>1, <1>2, <1>3
<1>5. F!Lengths(m)[n - 1] \in Row(m)
  BY <1>1, <1>4
<1>6. F!Lengths(m)[n] = F!Longer(m, F!Lengths(m)[n - 1])
  BY <1>4, LengthsAre
<1> QED BY <1>5, <1>6, LongerRow

(* What a row knows the next one knows.                                    *)
LEMMA RowsGrow ==
    ASSUME NEW m \in Inputs
    PROVE  \A s \in 0 .. F!Bytes(m) : \A o \in 0 .. F!Bytes(m) - 1 :
             F!Lengths(m)[s][o] # 0 => F!Lengths(m)[s + 1][o] = F!Lengths(m)[s][o]
<1> DEFINE Grows(s) == \A o \in 0 .. F!Bytes(m) - 1 :
             F!Lengths(m)[s][o] # 0 => F!Lengths(m)[s + 1][o] = F!Lengths(m)[s][o]
           S == {s \in 0 .. F!Bytes(m) : ~ Grows(s)}
<1> SUFFICES ASSUME S # {} PROVE FALSE
  OBVIOUS
<1>1. F!Bytes(m) \in Nat
  BY InputFacts
<1>2. PICK n \in S : \A j \in S : n <= j
  <2>1. S \subseteq Nat
    BY <1>1
  <2> QED BY <2>1, SmallestOf
<1>3. n # 0
  <2>1. Grows(0)
    <3>1. \A o \in 0 .. F!Bytes(m) - 1 : Zeros(m)[o] = 0
      BY DEF Zeros
    <3> QED BY <3>1, LengthsAre
  <2> HIDE DEF Grows
  <2> QED BY <2>1
<1>4. n - 1 \in 0 .. F!Bytes(m) /\ n - 1 \notin S /\ (n - 1) + 1 = n
  BY <1>1, <1>2, <1>3
<1>5. Grows(n - 1)
  BY <1>4
<1>6. F!Lengths(m)[n - 1] \in Row(m) /\ F!Lengths(m)[n] \in Row(m)
  BY <1>1, <1>4, RowsAre
<1>7. /\ F!Lengths(m)[n] = F!Longer(m, F!Lengths(m)[n - 1])
      /\ F!Lengths(m)[n + 1] = F!Longer(m, F!Lengths(m)[n])
  BY <1>4, LengthsAre
<1> HIDE DEF S
<1>8. Grows(n)
  BY <1>4, <1>5, <1>6, <1>7, LongerKeeps
<1> QED BY <1>2, <1>8 DEF S

(* Every row but the last knows one more name than the row before, or they *)
(* all are the same from there on.                                         *)
LEMMA RowsSettle ==
    ASSUME NEW m \in Inputs
    PROVE  F!Lengths(m)[F!Bytes(m) + 1] = F!Lengths(m)[F!Bytes(m)]
<1> DEFINE B == F!Bytes(m)
           L(s) == F!Lengths(m)[s]
           Settled(s) == L(s + 1) = L(s)
           Know(s) == KnownIn(L(s))
           Moved1(s) == Settled(s) \/ Cardinality(Know(s + 1)) >= s + 1
           S == {s \in 0 .. B : ~ Moved1(s)}
<1>1. B \in Nat
  BY InputFacts
<1>2. \A s \in 0 .. B + 1 :
        /\ L(s) \in Row(m) /\ Know(s) \subseteq 0 .. B - 1
        /\ IsFiniteSet(Know(s)) /\ Cardinality(Know(s)) \in Nat
        /\ Cardinality(Know(s)) <= B
  <2> SUFFICES ASSUME NEW s \in 0 .. B + 1
               PROVE  /\ L(s) \in Row(m) /\ Know(s) \subseteq 0 .. B - 1
                      /\ IsFiniteSet(Know(s)) /\ Cardinality(Know(s)) \in Nat
                      /\ Cardinality(Know(s)) <= B
    OBVIOUS
  <2>1. L(s) \in Row(m)
    BY RowsAre
  <2>2. Know(s) \subseteq 0 .. B - 1
    BY <2>1 DEF KnownIn, Row
  <2>3. IsFiniteSet(0 .. B - 1) /\ Cardinality(0 .. B - 1) = B
    <3>1. 0 \in Int /\ B - 1 \in Int
      BY <1>1
    <3>2. /\ IsFiniteSet(0 .. B - 1)
          /\ Cardinality(0 .. B - 1) =
               IF 0 > B - 1 THEN 0 ELSE (B - 1) - 0 + 1
      <4> HIDE DEF B
      <4> QED BY <3>1, FS_Interval
    <3> HIDE DEF B
    <3> QED BY <1>1, <3>2
  <2> HIDE DEF Know
  <2>4. IsFiniteSet(Know(s)) /\ Cardinality(Know(s)) <= B
    BY <2>2, <2>3, FS_Subset
  <2>5. Cardinality(Know(s)) \in Nat
    BY <2>4, FS_CardinalityType
  <2> QED BY <2>1, <2>2, <2>4, <2>5
<1>3. \A s \in 0 .. B : Know(s) \subseteq Know(s + 1)
  <2> SUFFICES ASSUME NEW s \in 0 .. B, NEW o \in Know(s) PROVE o \in Know(s + 1)
    OBVIOUS
  <2>1. s \in 0 .. B + 1 /\ s + 1 \in 0 .. B + 1
    BY <1>1
  <2>2. L(s) \in Row(m) /\ L(s + 1) \in Row(m)
    BY <1>2, <2>1
  <2>3. o \in 0 .. B - 1 /\ L(s)[o] # 0
    BY <2>2 DEF KnownIn, Row
  <2>4. L(s + 1)[o] = L(s)[o]
    BY <2>3, RowsGrow
  <2> QED BY <2>2, <2>3, <2>4 DEF KnownIn, Row
<1>4. \A s \in 0 .. B : Know(s) = Know(s + 1) => Settled(s)
  <2> SUFFICES ASSUME NEW s \in 0 .. B, Know(s) = Know(s + 1) PROVE Settled(s)
    OBVIOUS
  <2>1. s \in 0 .. B + 1 /\ s + 1 \in 0 .. B + 1
    BY <1>1
  <2>2. L(s) \in Row(m) /\ L(s + 1) \in Row(m)
    BY <1>2, <2>1
  <2>3. ASSUME NEW o \in 0 .. B - 1 PROVE L(s + 1)[o] = L(s)[o]
    <3>1. CASE L(s)[o] # 0
      BY <3>1, RowsGrow
    <3>2. CASE L(s)[o] = 0
      <4>1. o \notin Know(s)
        BY <3>2 DEF KnownIn
      <4>2. o \notin Know(s + 1)
        BY <4>1
      <4> QED BY <2>2, <3>2, <4>2 DEF KnownIn, Row
    <3> QED BY <3>1, <3>2
  <2> QED BY <2>2, <2>3, SameRow
<1> HIDE DEF Know
<1>5. S = {}
  <2> SUFFICES ASSUME S # {} PROVE FALSE
    OBVIOUS
  <2>1. S \subseteq Nat
    BY <1>1
  <2>2. PICK n \in S : \A j \in S : n <= j
    <3> HIDE DEF S
    <3> QED BY <2>1, SmallestOf
  <2>3. n \in 0 .. B /\ ~Settled(n) /\ ~(Cardinality(Know(n + 1)) >= n + 1)
    OBVIOUS
  <2>4. Know(n) \subseteq Know(n + 1) /\ Know(n) # Know(n + 1)
    BY <2>3, <1>3, <1>4
  <2>5. /\ IsFiniteSet(Know(n + 1)) /\ Cardinality(Know(n)) \in Nat
        /\ Cardinality(Know(n + 1)) \in Nat
    BY <2>3, <1>1, <1>2
  <2>6. Cardinality(Know(n)) < Cardinality(Know(n + 1))
    BY <2>4, <2>5, FS_Subset
  <2>7. n # 0
    BY <2>3, <2>5, <2>6
  <2>8. n - 1 \in 0 .. B /\ n - 1 \notin S /\ (n - 1) + 1 = n
    BY <1>1, <2>2, <2>3, <2>7
  <2>9. Settled(n - 1) \/ Cardinality(Know(n)) >= n
    BY <2>8
  <2>10. CASE Settled(n - 1)
    <3>1. L(n) = F!Longer(m, L(n - 1)) /\ L(n + 1) = F!Longer(m, L(n))
      BY <2>3, <2>8, LengthsAre
    <3> QED BY <2>3, <2>8, <2>10, <3>1
  <2>11. CASE Cardinality(Know(n)) >= n
    BY <2>3, <2>5, <2>6, <2>11
  <2> QED BY <2>9, <2>10, <2>11
<1>6. Moved1(B)
  BY <1>1, <1>5
<1>7. Cardinality(Know(B + 1)) \in Nat /\ Cardinality(Know(B + 1)) <= B
  BY <1>1, <1>2
<1> QED BY <1>1, <1>6, <1>7

(* The law of lengths.                                                     *)
LEMMA LengthLaw ==
    ASSUME NEW m \in Inputs, NEW o \in Nat
    PROVE  /\ F!Length(m, o) \in Nat
           /\ o >= F!Bytes(m) => F!Length(m, o) = 0
           /\ o < F!Bytes(m) =>
                /\ F!IsPointer(m, o) => F!Length(m, o) = F!Length(m, F!Target(m, o))
                /\ m[o] = 0 => F!Length(m, o) = 1
                /\ ~F!IsPointer(m, o) /\ m[o] # 0 =>
                     LET rest == F!Length(m, o + m[o] + 1)
                     IN  F!Length(m, o) = IF rest = 0 THEN 0 ELSE rest + m[o] + 1
<1> DEFINE B == F!Bytes(m)
           last == F!Lengths(m)[B + 1]
<1>1. B \in Nat /\ Flag \in Nat \ {0}
  BY InputFacts, InputAssumption
<1>2. last \in Row(m) /\ last = F!Longer(m, last)
  <2>1. B + 1 \in 0 .. B + 1 /\ B \in 0 .. B
    BY <1>1
  <2>2. last = F!Longer(m, F!Lengths(m)[B])
    BY <2>1, LengthsAre
  <2>3. last = F!Lengths(m)[B]
    BY RowsSettle
  <2> QED BY <2>1, <2>2, <2>3, RowsAre
<1>3. \A p : F!Length(m, p) = F!LengthIn(last, p) /\ F!Length(m, p) \in Nat
  BY <1>2, LengthInRow DEF F!Length
<1>4. o >= B => F!Length(m, o) = 0
  BY <1>1, <1>2, <1>3, LengthInRow
<1>5. ASSUME o < B PROVE o \in 0 .. B - 1 /\ F!Length(m, o) = last[o] /\ m[o] \in Nat
  <2>1. o \in 0 .. B - 1
    BY <1>1, <1>5
  <2> QED BY <2>1, <1>1, <1>2, <1>3, LengthInRow, InputFacts
<1> HIDE DEF last
<1>6. ASSUME o < B
      PROVE  last[o] =
               IF F!IsPointer(m, o) THEN F!Length(m, F!Target(m, o))
               ELSE IF m[o] = 0 THEN 1
               ELSE IF F!Length(m, o + m[o] + 1) = 0 THEN 0
               ELSE F!Length(m, o + m[o] + 1) + m[o] + 1
  <2>1. last[o] = F!Longer(m, last)[o]
    BY <1>2
  <2> QED BY <2>1, <1>3, <1>5, <1>6 DEF F!Longer
<1>7. o < B /\ m[o] = 0 => ~F!IsPointer(m, o)
  BY <1>1 DEF F!IsPointer
<1> QED BY <1>3, <1>4, <1>5, <1>6, <1>7

-----------------------------------------------------------------------------
(* The output has room for a name of NameMax bytes and what stands behind  *)
(* it; a name that begins behind the message is not read.                  *)
SpaceInv ==
    /\ step # "done" => size >= F!N + Growth
    /\ pout <= size
    /\ step \in {"begin", "rest"} => F!InLeft <= F!OutLeft
    /\ step = "name" =>
         /\ from.pin <= pin /\ from.pout <= pout /\ pout <= poe
         /\ poe = size - (F!N - from.pin)
         /\ poe - from.pout >= NameMax
         /\ from.pin <= F!N => ppin <= F!N
         /\ from.pin > F!N => ppin = from.pin

(* What has been written of a name and what is still to be read are the    *)
(* whole of it.                                                            *)
NameInv ==
    LET length == F!Length(in, from.pin)
        rest == F!Length(in, ppin)
    IN  /\ step = "name" =>
             length = IF rest = 0 THEN 0 ELSE pout - from.pout + rest
        /\ step = "rest" => pout - from.pout = length
        /\ step = "refused" => length = 0 \/ length > NameMax

DInv == F!TypeOK /\ SpaceInv /\ NameInv

LEMMA DFacts ==
    ASSUME DInv
    PROVE  /\ in \in Inputs /\ F!N \in Nat
           /\ pin \in Nat /\ pout \in Nat /\ size \in Nat /\ poe \in Nat /\ ppin \in Nat
           /\ from.pin \in Nat /\ from.pout \in Nat
           /\ {Header, Base, NameMax, Growth} \subseteq Nat
           /\ Header <= Growth /\ NameMax <= Growth
<1>1. from \in [pin : Nat, pout : Nat]
  BY DEF DInv, F!TypeOK
<1>2. from.pin \in Nat /\ from.pout \in Nat
  BY <1>1
<1> QED BY <1>2, InputFacts, InputAssumption DEF DInv, F!TypeOK, F!N

LEMMA TargetFacts ==
    ASSUME NEW m \in Inputs, NEW o \in Nat, o < F!Bytes(m)
    PROVE  F!Target(m, o) \in Nat /\ m[o] \in Nat
<1>1. m[o] \in Nat /\ m[o + 1] \in Nat
  BY InputFacts
<1>2. Flag \in Nat \ {0} /\ Base \in Nat
  BY InputAssumption
<1>3. m[o] % Flag \in Nat
  BY <1>1, <1>2
<1>4. (m[o] % Flag) * Base \in Nat
  BY <1>2, <1>3
<1> QED BY <1>1, <1>4 DEF F!Target

LEMMA DInit == F!Init => DInv
<1> SUFFICES ASSUME F!Init PROVE DInv
  OBVIOUS
<1>1. in \in Inputs /\ F!N \in Nat /\ left \in Nat
  BY InputFacts, InputAssumption DEF F!Init, F!N
<1>2. {Header, Growth} \subseteq Nat /\ Header <= Growth
  BY InputAssumption
<1>3. F!TypeOK
  <2>1. pointered \in BOOLEAN /\ step = "begin" /\ from \in [pin : Nat, pout : Nat]
    BY <1>2 DEF F!Init
  <2>2. pin \in Nat /\ pout \in Nat /\ size \in Nat /\ poe \in Nat /\ ppin \in Nat
    BY <1>1, <1>2 DEF F!Init
  <2> QED BY <1>1, <2>1, <2>2 DEF F!TypeOK
<1>4. SpaceInv /\ NameInv
  BY <1>1, <1>2 DEF F!Init, SpaceInv, NameInv, F!InLeft, F!OutLeft
<1> QED BY <1>3, <1>4 DEF DInv

LEMMA BeginNameInv == ASSUME DInv, F!BeginName PROVE DInv'
<1> USE DFacts
<1>1. in' = in /\ F!N' = F!N /\ pin' = pin /\ pout' = pout /\ ppin' = pin
  BY DEF F!BeginName, F!N
<1>2. from'.pin = pin /\ from'.pout = pout
  BY DEF F!BeginName
<1>3. size' = IF F!N - pin + NameMax > size - pout THEN size + Growth ELSE size
  BY DEF F!BeginName, F!Grows, F!InLeft, F!OutLeft
<1>4. poe' = size' - (F!N - pin)
  BY DEF F!BeginName, F!Kept, F!InLeft
<1>5. F!N - pin <= size - pout /\ pout <= size /\ size >= F!N + Growth
  BY DEF DInv, SpaceInv, F!BeginName, F!InLeft, F!OutLeft
<1>6. size' \in Nat /\ poe' \in Nat
  BY <1>3, <1>4, <1>5
<1>7. F!TypeOK'
  <2>1. pointered' \in BOOLEAN /\ step' = "name" /\ from' \in [pin : Nat, pout : Nat]
    BY DEF F!BeginName
  <2>2. left \in Nat
    BY DEF DInv, F!TypeOK
  <2>3. left' \in Nat
    BY <2>2 DEF F!BeginName, F!More
  <2> QED BY <1>1, <1>6, <2>1, <2>3 DEF F!TypeOK
<1>8. SpaceInv'
  <2>1. step' = "name"
    BY DEF F!BeginName
  <2> QED BY <1>1, <1>2, <1>3, <1>4, <1>5, <1>6, <2>1 DEF SpaceInv
<1>9. NameInv'
  <2>1. F!Length(in, pin) \in Nat
    BY LengthLaw
  <2> QED BY <1>1, <1>2, <2>1 DEF NameInv, F!BeginName
<1> QED BY <1>7, <1>8, <1>9 DEF DInv

(* Where the loop of decompressName goes on, the name began in the message.*)
LEMMA TurnsFacts ==
    ASSUME DInv, F!Turns
    PROVE  /\ ppin < F!N /\ pout < poe /\ step = "name"
           /\ from.pin <= F!N /\ poe <= size
           /\ in[ppin] \in Nat /\ F!Target(in, ppin) \in Nat
<1> USE DFacts
<1>1. ppin < F!N /\ pout < poe /\ step = "name"
  BY DEF F!Turns
<1>2. from.pin <= F!N
  BY <1>1 DEF DInv, SpaceInv
<1>3. poe <= size
  BY <1>1, <1>2 DEF DInv, SpaceInv
<1> QED BY <1>1, <1>2, <1>3, TargetFacts DEF F!N

LEMMA FollowPointerInv == ASSUME DInv, F!FollowPointer PROVE DInv'
<1> USE DFacts
<1>1. F!Turns /\ F!IsPointer(in, ppin) /\ F!Target(in, ppin) <= F!N
  BY DEF F!FollowPointer
<1>2. /\ in' = in /\ F!N' = F!N /\ step' = step /\ left' = left /\ pout' = pout
      /\ size' = size /\ poe' = poe /\ from' = from
      /\ ppin' = F!Target(in, ppin) /\ pointered' = TRUE
      /\ pin' = IF pointered THEN pin ELSE pin + 2
  BY DEF F!FollowPointer, F!N, F!Jump
<1>3. ppin' \in Nat /\ pin' \in Nat /\ pin' >= pin /\ ppin' <= F!N
  BY <1>1, <1>2, TurnsFacts
<1>4. F!TypeOK'
  BY <1>2, <1>3 DEF DInv, F!TypeOK
<1>5. SpaceInv'
  BY <1>1, <1>2, <1>3, TurnsFacts DEF DInv, SpaceInv
<1>6. NameInv'
  <2>1. F!Length(in, ppin) = F!Length(in, F!Target(in, ppin))
    BY <1>1, TurnsFacts, LengthLaw DEF F!N
  <2> QED BY <1>1, <1>2, <2>1, TurnsFacts DEF DInv, NameInv
<1> QED BY <1>4, <1>5, <1>6 DEF DInv

LEMMA EndNameInv == ASSUME DInv, F!EndName PROVE DInv'
<1> USE DFacts
<1>1. F!Turns /\ in[ppin] = 0
  BY DEF F!EndName
<1>2. /\ in' = in /\ F!N' = F!N /\ step' = "rest" /\ left' = left
      /\ pout' = pout + 1 /\ size' = size /\ poe' = poe /\ from' = from
      /\ ppin' = ppin /\ pointered' = pointered
      /\ pin' = IF pointered THEN pin ELSE pin + 1
  BY DEF F!EndName, F!N
<1>3. pin' \in Nat /\ pin' >= pin
  BY <1>2
<1>4. F!TypeOK'
  BY <1>2, <1>3 DEF DInv, F!TypeOK
<1>5. SpaceInv'
  BY <1>1, <1>2, <1>3, TurnsFacts DEF DInv, SpaceInv, F!InLeft, F!OutLeft
<1>6. NameInv'
  <2>1. F!Length(in, ppin) = 1
    BY <1>1, TurnsFacts, LengthLaw DEF F!N
  <2>2. F!Length(in, from.pin) = pout - from.pout + 1
    BY <1>1, <2>1, TurnsFacts DEF DInv, NameInv
  <2> QED BY <1>2, <2>2 DEF NameInv
<1> QED BY <1>4, <1>5, <1>6 DEF DInv

LEMMA CopyLabelInv == ASSUME DInv, F!CopyLabel PROVE DInv'
<1> USE DFacts
<1> DEFINE l == in[ppin] + 1
<1>1. /\ F!Turns /\ in[ppin] \in 1 .. Flag - 1 /\ l \in Nat
      /\ ppin + l <= F!N /\ pout + l <= poe
  BY TurnsFacts DEF F!CopyLabel, F!Fits
<1>2. /\ in' = in /\ F!N' = F!N /\ step' = step /\ left' = left
      /\ pout' = pout + l /\ size' = size /\ poe' = poe /\ from' = from
      /\ ppin' = ppin + l /\ pointered' = pointered
      /\ pin' = IF pointered THEN pin ELSE pin + l
  BY <1>1, TurnsFacts DEF F!CopyLabel, F!N
<1>3. pin' \in Nat /\ pin' >= pin /\ ppin' \in Nat /\ pout' \in Nat
  BY <1>1, <1>2
<1>4. F!TypeOK'
  BY <1>2, <1>3 DEF DInv, F!TypeOK
<1>5. SpaceInv'
  BY <1>1, <1>2, <1>3, TurnsFacts DEF DInv, SpaceInv
<1>6. NameInv'
  <2> DEFINE rest == F!Length(in, ppin + l)
  <2>1. ~F!IsPointer(in, ppin) /\ in[ppin] # 0 /\ ppin + in[ppin] + 1 = ppin + l
    <3>1. Flag \in Nat
      BY InputAssumption
    <3> QED BY <1>1, <3>1, TurnsFacts DEF F!IsPointer
  <2>2. F!Length(in, ppin) = IF rest = 0 THEN 0 ELSE rest + in[ppin] + 1
    BY <1>1, <2>1, TurnsFacts, LengthLaw DEF F!N
  <2>3. rest \in Nat
    BY <1>1, LengthLaw
  <2>4. F!Length(in, from.pin) = IF rest = 0 THEN 0 ELSE pout + l - from.pout + rest
    BY <1>1, <2>2, <2>3, TurnsFacts DEF DInv, NameInv
  <2> HIDE DEF l
  <2> QED BY <1>2, <2>4, <1>1, TurnsFacts DEF NameInv
<1> QED BY <1>4, <1>5, <1>6 DEF DInv

(* Where the loop stops there is no name, or a name with no room.          *)
LEMMA RefuseNameInv == ASSUME DInv, F!RefuseName PROVE DInv'
<1> USE DFacts
<1>1. /\ in' = in /\ F!N' = F!N /\ step = "name" /\ step' = "refused" /\ left' = left
      /\ pin' = pin /\ pout' = pout /\ size' = size /\ poe' = poe /\ from' = from
      /\ ppin' = ppin /\ pointered' = pointered
  BY DEF F!RefuseName, F!N
<1>2. F!TypeOK'
  BY <1>1 DEF DInv, F!TypeOK
<1>3. SpaceInv'
  BY <1>1 DEF DInv, SpaceInv
<1>4. NameInv'
  <2> DEFINE length == F!Length(in, from.pin)
             rest == F!Length(in, ppin)
  <2> SUFFICES length = 0 \/ length > NameMax
    BY <1>1 DEF NameInv
  <2>1. /\ length = IF rest = 0 THEN 0 ELSE pout - from.pout + rest
        /\ poe - from.pout >= NameMax /\ pout <= poe
    BY <1>1 DEF DInv, NameInv, SpaceInv
  <2>2. length \in Nat /\ rest \in Nat
    BY LengthLaw
  <2>3. CASE ppin >= F!N
    BY <2>1, <2>3, LengthLaw DEF F!N
  <2>4. CASE ppin < F!N /\ pout >= poe
    BY <2>1, <2>2, <2>4
  <2>5. CASE F!Turns
    <3>1. in[ppin] \in Nat /\ F!Target(in, ppin) \in Nat /\ ppin < F!N /\ pout < poe
      BY <2>5, TurnsFacts
    <3>2. CASE F!IsPointer(in, ppin)
      <4>1. F!Target(in, ppin) > F!N
        BY <2>5, <3>1, <3>2 DEF F!RefuseName
      <4>2. rest = F!Length(in, F!Target(in, ppin))
        BY <3>1, <3>2, LengthLaw DEF F!N
      <4>3. rest = 0
        BY <3>1, <4>1, <4>2, LengthLaw DEF F!N
      <4> QED BY <2>1, <4>3
    <3>3. CASE ~F!IsPointer(in, ppin)
      <4> DEFINE p == ppin + in[ppin] + 1
                 more == F!Length(in, p)
      <4>1. in[ppin] # 0 /\ ~(p <= F!N /\ pout + in[ppin] + 1 <= poe)
        BY <2>5, <3>3 DEF F!RefuseName, F!Fits
      <4>2. p \in Nat /\ more \in Nat
        BY <3>1, LengthLaw
      <4>3. rest = IF more = 0 THEN 0 ELSE more + in[ppin] + 1
        BY <3>1, <3>3, <4>1, LengthLaw DEF F!N
      <4>4. p > F!N => more = 0
        BY <3>1, <4>2, LengthLaw DEF F!N
      <4> HIDE DEF length, rest, more
      <4> QED BY <2>1, <2>2, <3>1, <4>1, <4>2, <4>3, <4>4
    <3> QED BY <3>2, <3>3
  <2> QED BY <1>1, <2>3, <2>4, <2>5 DEF F!Turns
<1> QED BY <1>2, <1>3, <1>4 DEF DInv

LEMMA CopyRestInv == ASSUME DInv, F!CopyRest PROVE DInv'
<1> USE DFacts
<1>1. /\ in' = in /\ F!N' = F!N /\ step = "rest" /\ left' = left
      /\ size' = size /\ poe' = poe /\ from' = from
      /\ ppin' = ppin /\ pointered' = pointered
  BY DEF F!CopyRest, F!N
<1>2. PICK g \in Gaps :
        IF pin + g > F!N \/ pout + g > size
        THEN step' = "failed" /\ UNCHANGED <<pin, pout>>
        ELSE step' = "begin" /\ pin' = pin + g /\ pout' = pout + g
  BY DEF F!CopyRest
<1>3. g \in Nat
  BY InputAssumption
<1>4. pin' \in Nat /\ pout' \in Nat /\ pout' <= size /\ step' \in {"failed", "begin"}
  BY <1>2, <1>3 DEF DInv, SpaceInv
<1>5. F!TypeOK'
  BY <1>1, <1>4 DEF DInv, F!TypeOK
<1>6. SpaceInv'
  <2>1. F!N - pin <= size - pout
    BY <1>1 DEF DInv, SpaceInv, F!InLeft, F!OutLeft
  <2>2. F!N - pin' <= size - pout'
    BY <2>1, <1>2, <1>3
  <2> QED BY <1>1, <1>4, <2>2 DEF DInv, SpaceInv, F!InLeft, F!OutLeft
<1>7. NameInv'
  BY <1>4 DEF NameInv
<1> QED BY <1>5, <1>6, <1>7 DEF DInv

LEMMA FinishInv == ASSUME DInv, F!Finish PROVE DInv'
<1> USE DFacts
<1>1. /\ in' = in /\ F!N' = F!N /\ step' = "done" /\ left' = left
      /\ size' = pout /\ poe' = poe /\ from' = from /\ pin' = pin /\ pout' = pout
      /\ ppin' = ppin /\ pointered' = pointered
  BY DEF F!Finish, F!N
<1>2. F!TypeOK'
  BY <1>1 DEF DInv, F!TypeOK
<1>3. SpaceInv' /\ NameInv'
  BY <1>1 DEF SpaceInv, NameInv
<1> QED BY <1>2, <1>3 DEF DInv

-----------------------------------------------------------------------------
LEMMA DInvariant == F!Spec => []DInv
<1>1. ASSUME DInv, [F!Next]_F!vars PROVE DInv'
  <2>1. CASE UNCHANGED F!vars
    <3>1. /\ in' = in /\ step' = step /\ left' = left /\ pin' = pin /\ pout' = pout
          /\ size' = size /\ poe' = poe /\ ppin' = ppin /\ pointered' = pointered
          /\ from' = from
      BY <2>1 DEF F!vars
    <3> QED BY <1>1, <3>1
          DEF DInv, F!TypeOK, SpaceInv, NameInv, F!N, F!InLeft, F!OutLeft
  <2> QED BY <1>1, <2>1, BeginNameInv, FollowPointerInv, EndNameInv, CopyLabelInv,
             RefuseNameInv, CopyRestInv, FinishInv DEF F!Next, F!Turn
<1> QED BY <1>1, DInit, PTL DEF F!Spec

(* decompressName and codecMessage never write behind the output, whatever *)
(* the names of the message expand to.                                     *)
THEOREM RoomIsKept == F!Spec => []RoomKept
<1>1. DInv => RoomKept
  <2> SUFFICES ASSUME DInv PROVE RoomKept
    OBVIOUS
  <2> USE DFacts
  <2>1. F!Turns => poe <= size
    BY TurnsFacts
  <2> QED BY <2>1 DEF RoomKept, F!RoomKept, DInv, SpaceInv, F!InLeft, F!OutLeft
<1> QED BY <1>1, DInvariant, PTL

(* decompressName writes the name that is there, whole, and refuses only   *)
(* what is no name or one that is longer than NameMax, also when pointers  *)
(* lead in a circle.                                                       *)
THEOREM NamesAreWhole == F!Spec => []NamesWhole
<1>1. DInv => NamesWhole
  BY DEF NamesWhole, F!NamesWhole, DInv, NameInv
<1> QED BY <1>1, DInvariant, PTL
=============================================================================
