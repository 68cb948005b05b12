----------------------------- MODULE NameCodec -----------------------------
(***************************************************************************)
(* Names in a message: compressName, which replaces the rest of a name by a*)
(* pointer to where it has been written before, and decompressName, which  *)
(* follows pointers.  One behaviour is a message that codecMessage         *)
(* compresses, and then decompresses again.                                *)
(***************************************************************************)
EXTENDS Integers, Sequences

CONSTANTS
    Label,   \* labels, in the lower case decompressName leaves them in
    Size,    \* for a label: its bytes, the one with its length included
    Cut,     \* for a label: itself, or what is left of it as a C string
    Reach,   \* 2^14: a pointer is to an offset below
    Message, \* messages: sequences of fields
    Room,    \* the labels the output has room for: those of any name
    NoName   \* between two names

(* A name, the bytes of other data ahead of it, and whether it is of a kind*)
(* that is written without pointers (RDATA_RNAME).                         *)
Name == Seq(Label)
Field == [gap : Nat, name : Name, plain : BOOLEAN]

ASSUME CodecAssumption ==
    /\ Reach \in Nat \ {0}
    /\ Size \in [Label -> Nat \ {0, 1}]
    /\ DOMAIN Cut = Label
    /\ \A l \in Label : Cut[l] = l \/ Cut[l] \notin Label
    /\ \A m \in Message : m \in Seq(Field)
    /\ Room \in Nat
    /\ \A m \in Message : \A i \in DOMAIN m : Len(m[i].name) <= Room
    /\ NoName \notin Name

VARIABLES
    msg,     \* the message, as its fields
    phase,   \* "compress", "decompress", "done", or "lost"
    field,   \* the field being written or read
    name,    \* the labels of its name left to write, or read so far
    out,     \* for an offset: the label, pointer or end written there
    pos,     \* pout - pob when compressing, pin - pib when decompressing
    names,   \* names, the map from known names to their offsets
    cur,     \* ppin - pib
    jumped,  \* pointered
    decoded, \* the names read
    spelt    \* history: for an offset, what was to be written from there

reading == <<cur, jumped, decoded>>
writing == <<out, names, spelt>>
vars == <<msg, phase, field, name, pos, reading, writing>>

IsLabel(c) == c.kind = "label"
IsPointer(c) == c.kind = "pointer"
IsEnd(c) == c.kind = "end"

Cell == [kind : {"label"}, label : Label] \cup [kind : {"pointer"}, to : 0 .. Reach - 1]
        \cup [kind : {"end"}]
Spelling == [field : Nat, rest : Name]

TypeOK ==
    /\ msg \in Seq(Field)
    /\ phase \in {"compress", "decompress", "done", "lost"}
    /\ field \in 1 .. Len(msg) + 1
    /\ name \in Name \cup {NoName}
    /\ pos \in Nat
    /\ DOMAIN out \subseteq Nat
    /\ \A o \in DOMAIN out : out[o] \in Cell
    /\ \A k \in DOMAIN names : names[k] \in DOMAIN out
    /\ cur \in Nat
    /\ jumped \in BOOLEAN
    /\ decoded \in Seq(Name)
    /\ spelt \in [DOMAIN out -> Spelling]

Init ==
    /\ msg \in Message
    /\ phase = "compress"
    /\ field = 1
    /\ name = NoName
    /\ pos = 0
    /\ out = [o \in {} |-> [kind |-> "end"]]
    /\ names = [k \in {} |-> 0]
    /\ cur = 0
    /\ jumped = FALSE
    /\ decoded = <<>>
    /\ spelt = [o \in {} |-> [field |-> 0, rest |-> <<>>]]

-----------------------------------------------------------------------------
With(f, k, x) == [m \in DOMAIN f \cup {k} |-> IF m = k THEN x ELSE f[m]]

(* What std::string makes of the bytes of a name: they end at the first    *)
(* zero byte.                                                              *)
Whole(n) == \A i \in DOMAIN n : Cut[n[i]] = n[i]
Key(n) ==
    IF Whole(n) THEN n
    ELSE LET h == CHOOSE i \in DOMAIN n :
                    /\ Cut[n[i]] # n[i]
                    /\ \A j \in 1 .. i - 1 : Cut[n[j]] = n[j]
         IN  [i \in 1 .. h |-> Cut[n[i]]]

(* The offset a pointer holds.                                             *)
Pointer(o) == o % Reach

(* The offset a name is known at; first the one behind its first label.    *)
KnownAfter(n) == pos + Size[n[1]]
Known(n) == pos

Write(c) ==
    /\ out' = With(out, pos, c)
    /\ spelt' = With(spelt, pos, [field |-> field, rest |-> name])

(* codecMessage copies what is between two names.                          *)
CopyData ==
    /\ phase = "compress" /\ name = NoName /\ field <= Len(msg)
    /\ pos' = pos + msg[field].gap
    /\ name' = msg[field].name
    /\ UNCHANGED <<msg, phase, field, reading, writing>>

Written ==
    /\ name' = NoName
    /\ field' = field + 1

WriteEnd ==
    /\ phase = "compress" /\ name = <<>>
    /\ Write([kind |-> "end"])
    /\ pos' = pos + 1
    /\ Written
    /\ UNCHANGED <<msg, phase, names, reading>>

Replaceable == ~msg[field].plain /\ Key(name) \in DOMAIN names

WritePointer ==
    /\ phase = "compress" /\ name \notin {NoName, <<>>} /\ Replaceable
    /\ Write([kind |-> "pointer", to |-> Pointer(names[Key(name)])])
    /\ pos' = pos + 2
    /\ Written
    /\ UNCHANGED <<msg, phase, names, reading>>

WriteLabel ==
    /\ phase = "compress" /\ name \notin {NoName, <<>>} /\ ~Replaceable
    /\ Write([kind |-> "label", label |-> name[1]])
    /\ names' = IF msg[field].plain THEN names
                ELSE With(names, Key(name), Known(name))
    /\ pos' = pos + Size[name[1]]
    /\ name' = Tail(name)
    /\ UNCHANGED <<msg, phase, field, reading>>

Compressed ==
    /\ phase = "compress" /\ name = NoName /\ field > Len(msg)
    /\ phase' = "decompress"
    /\ field' = 1
    /\ pos' = 0
    /\ UNCHANGED <<msg, name, reading, writing>>

-----------------------------------------------------------------------------
SkipData ==
    /\ phase = "decompress" /\ name = NoName /\ field <= Len(msg)
    /\ pos' = pos + msg[field].gap
    /\ cur' = pos'
    /\ jumped' = FALSE
    /\ name' = <<>>
    /\ UNCHANGED <<msg, phase, field, decoded, writing>>

(* The place in the message moves until the first pointer.                 *)
Moved(p, n) == IF jumped THEN p ELSE p + n

(* Where a pointer leads.                                                  *)
Target(c) == c.to

Reads == phase = "decompress" /\ name # NoName /\ cur \in DOMAIN out

ReadLabel ==
    /\ Reads /\ IsLabel(out[cur]) /\ Len(name) < Room
    /\ name' = Append(name, out[cur].label)
    /\ cur' = cur + Size[out[cur].label]
    /\ pos' = Moved(pos, Size[out[cur].label])
    /\ UNCHANGED <<msg, phase, field, jumped, decoded, writing>>

ReadPointer ==
    /\ Reads /\ IsPointer(out[cur])
    /\ cur' = Target(out[cur])
    /\ pos' = Moved(pos, 2)
    /\ jumped' = TRUE
    /\ UNCHANGED <<msg, phase, field, name, decoded, writing>>

ReadEnd ==
    /\ Reads /\ IsEnd(out[cur])
    /\ decoded' = Append(decoded, name)
    /\ pos' = Moved(pos, 1)
    /\ name' = NoName
    /\ field' = field + 1
    /\ UNCHANGED <<msg, phase, cur, jumped, writing>>

(* It takes other data for a name, and what it makes of that is left out,  *)
(* or returns -1 when a name does not fit the output ("Invalid name").     *)
ReadOther ==
    /\ phase = "decompress" /\ name # NoName
    /\ ~(cur \in DOMAIN out /\ (IsLabel(out[cur]) => Len(name) < Room))
    /\ phase' = "lost"
    /\ UNCHANGED <<msg, field, name, pos, reading, writing>>

Decompressed ==
    /\ phase = "decompress" /\ name = NoName /\ field > Len(msg)
    /\ phase' = "done"
    /\ UNCHANGED <<msg, field, name, pos, reading, writing>>

Next ==
    \/ CopyData \/ WriteEnd \/ WritePointer \/ WriteLabel \/ Compressed
    \/ SkipData \/ ReadLabel \/ ReadPointer \/ ReadEnd \/ ReadOther
    \/ Decompressed

Spec == Init /\ [][Next]_vars

(* codecMessage is not interrupted.                                        *)
FairSpec == Spec /\ WF_vars(Next)

-----------------------------------------------------------------------------
(* The names written so far can be pointed to, and told apart.             *)
Pointable ==
    /\ \A i \in DOMAIN msg : Whole(msg[i].name)
    /\ \A k \in DOMAIN names : names[k] < Reach

(* A pointer takes the place only of a name that is written where it leads.*)
KnownNameReplaced ==
    \A o \in DOMAIN out : IsPointer(out[o]) =>
        out[o].to \in DOMAIN out /\ spelt[out[o].to].rest = spelt[o].rest

(* Names that are not too far behind and have no zero bytes are only       *)
(* replaced by pointers to themselves.                                     *)
KnownIfPointable == Pointable => KnownNameReplaced

(* The names of a message come back as they were, from wherever in the     *)
(* message the pointers lead.                                              *)
RoundTrip ==
    Pointable => \A i \in DOMAIN decoded : decoded[i] = msg[i].name

(* Decompression never takes other data for a name, nor one name for more: *)
(* it goes on behind the first pointer, however far the name leads.        *)
NeverLost == Pointable => phase # "lost"

(* Decompression ends: pointers only lead back, to names that end.         *)
Ends == phase = "decompress" /\ Pointable ~> phase = "done"
=============================================================================
