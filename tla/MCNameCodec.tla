---------------------------- MODULE MCNameCodec ----------------------------
(***************************************************************************)
(* Instances of NameCodec and DecompressName: one behaviour is a message   *)
(* compressed here and decompressed again, or one compressed elsewhere.    *)
(***************************************************************************)
EXTENDS NameCodec, SequencesExt

CONSTANTS
    a, b, z,   \* labels; "z" has a zero byte behind its first
    y,         \* a label with the same bytes as "z" up to there
    stem,      \* what is left of both
    Inputs, Header, Flag, Base, NameMax, Growth, Names, Gaps

VARIABLES
    foreign,   \* whether the message was compressed elsewhere
    in, step, left, pin, pout, size, poe, ppin, pointered, from

F == INSTANCE DecompressName WITH phase <- step
foreignVars == <<in, step, left, pin, pout, size, poe, ppin, pointered, from>>

(* Messages come from anywhere, and may be shorter than their header.      *)
ASSUME InputAssumption ==
    /\ \A m \in Inputs :
         /\ F!Bytes(m) \in Nat /\ DOMAIN m = 0 .. F!Bytes(m)
         /\ \A o \in DOMAIN m : m[o] \in Nat
         /\ Names[m] \subseteq Nat
    /\ {Header, Base, NameMax, Growth} \subseteq Nat
    /\ Flag \in Nat \ {0}
    /\ Header <= Growth /\ NameMax <= Growth
    /\ Gaps \subseteq Nat

(* All the messages of five short bytes behind a header of one, which as a *)
(* label leads into them or as a pointer anywhere; and a name of two labels,*)
(* then four pointers to it, to its second label, its end and each other,  *)
(* which expand to more than one growth of the output; and what is shorter *)
(* than a header.                                                          *)
Zero == [o \in 0 .. 6 |-> IF o = 0 THEN 1 ELSE 0]
Pointers == BoundedSeq({<<4, 1>>, <<4, 4>>, <<5, 0>>, <<5, 3>>}, 4)
Long(p) ==
    LET s == <<1, 2, 1, 1, 2, 1, 1, 0>> \o FlattenSeq(p) \o <<0>>
    IN  [o \in 0 .. Len(s) - 1 |-> s[o + 1]]
ShortInputs == {i \in [0 .. 6 -> {0, 1, 2, 4, 5}] : i[0] \in {1, 4}}
Headless == [{0} -> {0, 1, 4}]
LongInputs == {Long(p) : p \in Pointers}
MCInputs == Headless \cup ShortInputs \cup LongInputs
MCNames == [i \in MCInputs |-> IF i \in LongInputs THEN {5} ELSE 0 .. 2]

MCSize == [l \in {a, b, y, z} |-> IF l = a THEN 2 ELSE 3]
MCCut == [l \in {a, b, y, z} |-> IF l \in {y, z} THEN stem ELSE l]

Fields(L, n) == [gap : {1}, name : BoundedSeq(L, n), plain : BOOLEAN]

ReachMessage == BoundedSeq(Fields({a, b}, 2), 3)
MCMessage == ReachMessage \cup BoundedSeq(Fields({a, y, z}, 2), 2)

(* The part that is not looked at stays in one of its initial states.      *)
MCInit ==
    /\ \/ foreign = FALSE /\ in = Zero /\ left = 0
       \/ foreign = TRUE /\ msg = <<>>
    /\ Init /\ F!Init
MCNext ==
    \/ ~foreign /\ Next /\ UNCHANGED <<foreign, foreignVars>>
    \/ foreign /\ F!Next /\ UNCHANGED <<foreign, vars>>
MCSpec ==
    /\ MCInit /\ [][MCNext]_<<foreign, vars, foreignVars>>
    /\ WF_vars(~foreign /\ Next)
    /\ WF_foreignVars(foreign /\ F!Turn)

NamesWhole == F!NamesWhole
RoomKept == F!RoomKept

(* Decompression ends, of a message that was compressed here always.       *)
EveryNameEnds == Ends /\ F!EndsUnlessCircle
=============================================================================
