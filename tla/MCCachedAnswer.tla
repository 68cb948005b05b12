--------------------------- MODULE MCCachedAnswer ---------------------------
(***************************************************************************)
(* Instances of CachedAnswer for TLC, with 32 bits scaled down to IntMax.  *)
(***************************************************************************)
EXTENDS CachedAnswer

Rec(sec, rtype, ttl, minimum) ==
    [sec |-> sec, rtype |-> rtype, ttl |-> ttl, minimum |-> minimum]

(* Answers about to expire, living on, and with the top bit set; negative  *)
(* answers by their SOA; and records that do not decide.                   *)
MCRecord ==
    {Rec("answer", "other", t, 0) : t \in {0, 3, IntMax + 2}}
    \cup {Rec("authority", "SOA", 2, IntMax + 2), Rec("authority", "SOA", 4, 1)}
    \cup {Rec("additional", "other", 2, 0), Rec("additional", "OPT", IntMax + 2, 0)}

Rank(sec) == CASE sec = "answer" -> 1 [] sec = "authority" -> 2 [] OTHER -> 3

MCPacket ==
    {<<>>} \cup {<<r>> : r \in MCRecord}
    \cup {p \in MCRecord \X MCRecord : Rank(p[1].sec) <= Rank(p[2].sec)}
=============================================================================
