--------------------------- MODULE MCCheckAnswer ---------------------------
(***************************************************************************)
(* Instances of CheckAnswer for TLC.                                       *)
(***************************************************************************)
EXTENDS CheckAnswer, SequencesExt

CONSTANTS a, b, c

MCName == {a, b, c}

Rec(kind, owner, target, s) ==
    [kind |-> kind, owner |-> owner, target |-> target, soa |-> s]

(* Every CNAME between the names, a circle of one included, every record of*)
(* the type asked for, a SOA that was asked for and one that was not, and  *)
(* a record that cannot be read.                                           *)
MCRecord ==
    {Rec("cname", n, m, FALSE) : n, m \in MCName}
    \cup {Rec("asked", n, n, FALSE) : n \in MCName}
    \cup {Rec("asked", a, a, TRUE), Rec("other", b, b, TRUE),
          Rec("other", b, b, FALSE), Rec("bad", b, b, FALSE)}

MCPacket == BoundedSeq(MCRecord, 3)
=============================================================================
