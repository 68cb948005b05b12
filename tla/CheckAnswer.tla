---------------------------- MODULE CheckAnswer ----------------------------
(***************************************************************************)
(* checkAnswer: whether the answer of an upstream server is complete.  It  *)
(* collects the records of the answer section in a map from names, and     *)
(* then follows the CNAME records in it, from the name in the question.    *)
(* One behaviour is one call, for a message with at most one question.     *)
(***************************************************************************)
EXTENDS Naturals, Sequences

CONSTANTS
    Name,       \* domain names
    NoQuestion, \* in place of a name: no question, or one it cannot read
    Answered,   \* in the map: there is a record of the type asked for
    Packet      \* answers that may arrive: sequences of records

(* What the code looks at in a record.  Of "asked" and "cname" are those in*)
(* the answer section and of the class asked for; one of type CNAME is     *)
(* "asked" if that was asked for.  "bad" are records it cannot read.       *)
Kind == {"asked", "cname", "other", "bad"}
Record == [kind : Kind, owner : Name, target : Name, soa : BOOLEAN]

ASSUME NameAssumption ==
    /\ Answered \notin Name /\ NoQuestion \notin Name
    /\ \A p \in Packet : p \in Seq(Record)

VARIABLES
    packet,     \* the message
    question,   \* qname
    pos,        \* the next record
    soa,        \* a SOA record has been seen
    ansmap,     \* from names to the target of their CNAME, or Answered
    cur,        \* the name the walk has come to
    status,     \* "collecting", "following" or "done"
    verdict     \* what is returned

vars == <<packet, question, pos, soa, ansmap, cur, status, verdict>>

TypeOK ==
    /\ packet \in Seq(Record)
    /\ question \in Name \cup {NoQuestion}
    /\ pos \in 1 .. Len(packet) + 1
    /\ soa \in BOOLEAN
    /\ DOMAIN ansmap \subseteq Name
    /\ \A n \in DOMAIN ansmap : ansmap[n] \in Name \cup {Answered}
    /\ cur \in Name \cup {NoQuestion}
    /\ status = "following" => cur \in Name
    /\ status \in {"collecting", "following", "done"}
    /\ verdict \in BOOLEAN

Init ==
    /\ packet \in Packet
    /\ question \in Name \cup {NoQuestion}
    /\ pos = 1
    /\ soa = FALSE
    /\ ansmap = [n \in {} |-> Answered]
    /\ cur = question
    /\ status = "collecting"
    /\ verdict = FALSE

-----------------------------------------------------------------------------
(* The map with one more name, or with a name's entry replaced.            *)
With(map, n, x) ==
    [m \in DOMAIN map \cup {n} |-> IF m = n THEN x ELSE map[m]]

(* The map with a record entered.  A CNAME is only valid if the name has no*)
(* other record; first without this condition.                             *)
EnteredAny(map, r) ==
    IF r.kind = "asked" THEN With(map, r.owner, Answered)
    ELSE IF r.kind = "cname" THEN With(map, r.owner, r.target)
    ELSE map

Entered(map, r) ==
    IF r.kind = "asked" THEN With(map, r.owner, Answered)
    ELSE IF r.kind = "cname" /\ r.owner \notin DOMAIN map
         THEN With(map, r.owner, r.target)
    ELSE map

Return(v) ==
    /\ status' = "done"
    /\ verdict' = v

(* The early returns.                                                      *)
Refuse ==
    /\ status = "collecting" /\ question = NoQuestion
    /\ Return(FALSE)
    /\ UNCHANGED <<packet, question, pos, soa, ansmap, cur>>

(* One turn of the loop over the records of all sections.                  *)
Collect ==
    /\ status = "collecting" /\ question # NoQuestion /\ pos <= Len(packet)
    /\ soa' = (soa \/ packet[pos].soa)
    /\ IF packet[pos].kind = "bad"
       THEN Return(FALSE) /\ UNCHANGED <<pos, ansmap>>
       ELSE /\ ansmap' = Entered(ansmap, packet[pos])
            /\ pos' = pos + 1
            /\ UNCHANGED <<status, verdict>>
    /\ UNCHANGED <<packet, question, cur>>

Collected ==
    /\ status = "collecting" /\ question # NoQuestion /\ pos = Len(packet) + 1
    /\ cur' = question
    /\ status' = "following"
    /\ UNCHANGED <<packet, question, pos, soa, ansmap, verdict>>

(* Whether an entry ends the walk.                                         *)
Final(map, n) == map[n] = Answered

(* Where the walk goes from a name in the map; first back to the name.     *)
TargetSame(map, n) == n
Target(map, n) == map[n]

(* What a name that is not in the map means; first as map's operator [],   *)
(* which makes an empty entry, would have it.                              *)
MissingAnswered(s) == TRUE
Missing(s) == s

(* One turn of the walk.                                                   *)
Follow ==
    /\ status = "following"
    /\ \/ /\ cur \notin DOMAIN ansmap
          /\ Return(Missing(soa))
          /\ UNCHANGED cur
       \/ /\ cur \in DOMAIN ansmap /\ Final(ansmap, cur)
          /\ Return(TRUE)
          /\ UNCHANGED cur
       \/ /\ cur \in DOMAIN ansmap /\ ~Final(ansmap, cur)
          /\ cur' = Target(ansmap, cur)
          /\ UNCHANGED <<status, verdict>>
    /\ UNCHANGED <<packet, question, pos, soa, ansmap>>

Next == Refuse \/ Collect \/ Collected \/ Follow

Spec == Init /\ [][Next]_vars

(* The function is not interrupted.                                        *)
FairSpec == Spec /\ WF_vars(Next)

-----------------------------------------------------------------------------
(* The reference: what the records say, in any order and without a map.    *)
IsAsked(n) ==
    \E i \in DOMAIN packet : packet[i].kind = "asked" /\ packet[i].owner = n

(* A CNAME leads on from a name that has no record of the type asked for.  *)
Leads(n, m) ==
    /\ ~IsAsked(n)
    /\ \E i \in DOMAIN packet :
         packet[i].kind = "cname" /\ packet[i].owner = n /\ packet[i].target = m

(* The names that the one in the question stands for: those in every set   *)
(* that contains it and is closed under Leads.                             *)
Closed(S) == \A n \in S, m \in Name : Leads(n, m) => m \in S
StandsFor(n) == \A S \in SUBSET Name : question \in S /\ Closed(S) => n \in S

HasSoa == \E i \in DOMAIN packet : packet[i].soa
HasBad == \E i \in DOMAIN packet : packet[i].kind = "bad"

(* The CNAME records do not lead in a circle.                              *)
Acyclic ==
    \A S \in SUBSET Name \ {{}} : \E n \in S : \A m \in S : ~Leads(n, m)

(* An answer is only accepted if it is complete, in whatever order its     *)
(* records come: the name asked for, or one it stands for, has a record of *)
(* the type asked for, or there is a SOA.                                  *)
AcceptsOnlyComplete ==
    status = "done" /\ verdict =>
        HasSoa \/ \E n \in Name : StandsFor(n) /\ IsAsked(n)

(* An answer is only refused if it cannot be read, or for a name at which  *)
(* the chain is broken: a record later in the message must not be missed,  *)
(* nor one overwritten.                                                    *)
RefusesOnlyBroken ==
    status = "done" /\ ~verdict =>
        \/ HasBad \/ question = NoQuestion
        \/ /\ ~HasSoa
           /\ \E n \in Name : /\ StandsFor(n) /\ ~IsAsked(n)
                              /\ \A m \in Name : ~Leads(n, m)

(* The walk ends, unless the records lead in a circle: the code does not   *)
(* notice that it comes back to a name, and would not return.              *)
EndsUnlessCyclic == Acyclic ~> status = "done"
=============================================================================
