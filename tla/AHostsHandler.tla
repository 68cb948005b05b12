--------------------------- MODULE AHostsHandler ---------------------------
(***************************************************************************)
(* hosts.ext: loadHostsExt, which reads the table of names, and the        *)
(* handler of one job, which answers a request from the table or replaces  *)
(* the name it asks for (processRequest), and completes the answer of the  *)
(* upstream servers (processResponse).  One behaviour loads a table and    *)
(* handles one request, since a handler only ever sees one.                *)
(***************************************************************************)
EXTENDS Integers, Sequences

CONSTANTS
    Name,       \* domain names, as pname2name makes them
    Address,    \* IP addresses of either kind
    None,       \* no name, no question
    MaxValues,  \* bound: values of one type for one name in the table
    MaxAppend   \* bound: records that lookups append

HostType == {"CNAME", "A", "AAAA"}

(* "other" stands for every request the handler passes on unchanged.       *)
QType == HostType \cup {"other"}

Value == [type : {"CNAME"}, data : Name] \cup [type : {"A", "AAAA"}, data : Address]
Question == [name : Name, type : QType]
RR == [owner : Name, type : QType, data : Name \cup Address]
Message == [question : Question \cup {None}, ancount : Nat, answers : Seq(RR)]

ASSUME HostsAssumption ==
    /\ None \notin Name /\ None \notin Question
    /\ MaxValues \in Nat /\ MaxAppend \in Nat

VARIABLES
    hosts,       \* m_conf->m_hosts: for a name, for a type, the values
    key,         \* the name whose line is being read
    phase,       \* how far the behaviour has come
    client,      \* the question of the client
    rd,          \* its RD bit
    req,         \* the question relayed to the upstream servers
    qname,       \* the name being looked up
    oriNameType, \* m_oriNameType
    append,      \* m_append
    appendNum,   \* m_appendNum
    valid,       \* the reply is from the table, or from a valid answer
    res          \* the reply

conf == <<hosts, key>>
handler == <<oriNameType, append, appendNum>>
vars == <<conf, phase, client, rd, req, qname, handler, valid, res>>

NoMessage == [question |-> None, ancount |-> 0, answers |-> <<>>]

TypeOK ==
    /\ DOMAIN hosts \subseteq Name
    /\ \A n \in DOMAIN hosts :
         /\ DOMAIN hosts[n] \subseteq HostType
         /\ \A t \in DOMAIN hosts[n] : hosts[n][t] \in Seq(Name \cup Address)
    /\ key \in Name \cup {None}
    /\ phase \in {"loading", "failed", "loaded", "looking", "relayed", "replied"}
    /\ client \in Question \cup {None}
    /\ rd \in BOOLEAN
    /\ req \in Question \cup {None}
    /\ qname \in Name \cup {None}
    /\ oriNameType \in Question \cup {None}
    /\ append \in Seq(RR)
    /\ appendNum \in Nat
    /\ valid \in BOOLEAN
    /\ res \in Message

Init ==
    /\ hosts = [n \in {} |-> <<>>]
    /\ key = None
    /\ phase = "loading"
    /\ client = None
    /\ rd = FALSE
    /\ req = None
    /\ qname = None
    /\ oriNameType = None
    /\ append = <<>>
    /\ appendNum = 0
    /\ valid = FALSE
    /\ res = NoMessage

-----------------------------------------------------------------------------
(* loadHostsExt.  std::map's operator [] makes an entry for a new key.     *)
With(f, k, x) == [m \in DOMAIN f \cup {k} |-> IF m = k THEN x ELSE f[m]]
Entry(k) == IF k \in DOMAIN hosts THEN hosts[k] ELSE [t \in {} |-> <<>>]
Values(k, t) == IF t \in DOMAIN Entry(k) THEN Entry(k)[t] ELSE <<>>

BeginLine(k) ==
    /\ phase = "loading" /\ key = None
    /\ key' = k
    /\ hosts' = With(hosts, k, Entry(k))
    /\ UNCHANGED <<phase, client, rd, req, qname, handler, valid, res>>

AddValue(v) ==
    /\ phase = "loading" /\ key # None
    /\ Len(Values(key, v.type)) < MaxValues
    /\ hosts' = With(hosts, key, With(Entry(key), v.type,
                                      Append(Values(key, v.type), v.data)))
    /\ UNCHANGED <<key, phase, client, rd, req, qname, handler, valid, res>>

(* What is checked at the end of a line; first without the case that the   *)
(* addresses are of the newer kind.                                        *)
LineValidV4(k) ==
    "CNAME" \in DOMAIN hosts[k] =>
        Len(hosts[k]["CNAME"]) = 1 /\ "A" \notin DOMAIN hosts[k]
LineValid(k) ==
    "CNAME" \in DOMAIN hosts[k] =>
        /\ Len(hosts[k]["CNAME"]) = 1
        /\ "A" \notin DOMAIN hosts[k] /\ "AAAA" \notin DOMAIN hosts[k]

EndLine ==
    /\ phase = "loading" /\ key # None
    /\ IF LineValid(key) THEN key' = None /\ UNCHANGED phase
                         ELSE phase' = "failed" /\ UNCHANGED key
    /\ UNCHANGED <<hosts, client, rd, req, qname, handler, valid, res>>

EndOfFile ==
    /\ phase = "loading" /\ key = None
    /\ phase' = "loaded"
    /\ UNCHANGED <<conf, client, rd, req, qname, handler, valid, res>>

-----------------------------------------------------------------------------
(* processRequest, called by AHostsJob::request.                           *)
Request(q, d) ==
    /\ phase = "loaded"
    /\ client' = q
    /\ rd' = d
    /\ req' = q
    /\ oriNameType' = None /\ append' = <<>> /\ appendNum' = 0
    /\ qname' = q.name
    /\ phase' = IF q.type = "other" THEN "relayed" ELSE "looking"
    /\ UNCHANGED <<conf, valid, res>>

(* The values found for a name: a CNAME, or else the type asked for.       *)
FoundType ==
    IF "CNAME" \in DOMAIN hosts[qname] THEN "CNAME" ELSE client.type
Finds == qname \in DOMAIN hosts /\ FoundType \in DOMAIN hosts[qname]
Found == hosts[qname][FoundType]

Records(q, t, values) ==
    [i \in DOMAIN values |-> [owner |-> q, type |-> t, data |-> values[i]]]

(* What to recover the question from; first taken anew at each name.       *)
OriginalLast == [name |-> qname, type |-> client.type]
Original == IF oriNameType = None THEN client ELSE oriNameType

(* How many records a lookup has appended; first counted by names.         *)
CountOne(n) == n + 1
Count(n) == n + Len(Found)

(* The name to look up next; first the same.                               *)
NextNameSame == qname
NextName == Found[1]

(* Whether this is the answer.                                             *)
Final == FoundType = client.type \/ ~rd

(* The loop finds an entry and goes on with its CNAME.                     *)
FollowHost ==
    /\ phase = "looking" /\ Finds /\ ~Final
    /\ Len(append) + Len(Found) <= MaxAppend
    /\ oriNameType' = Original
    /\ append' = append \o Records(qname, FoundType, Found)
    /\ appendNum' = Count(appendNum)
    /\ qname' = NextName
    /\ UNCHANGED <<conf, phase, client, rd, req, valid, res>>

(* It finds the answer.                                                    *)
AnswerHost ==
    /\ phase = "looking" /\ Finds /\ Final
    /\ oriNameType' = Original
    /\ append' = append \o Records(qname, FoundType, Found)
    /\ appendNum' = Count(appendNum)
    /\ res' = [question |-> client, ancount |-> appendNum', answers |-> append']
    /\ valid' = TRUE
    /\ phase' = "replied"
    /\ UNCHANGED <<conf, client, rd, req, qname>>

(* The table has nothing, or no more.                                      *)
RelayHost ==
    /\ phase = "looking" /\ ~Finds
    /\ req' = IF oriNameType = None THEN req
              ELSE [name |-> qname, type |-> client.type]
    /\ phase' = "relayed"
    /\ UNCHANGED <<conf, client, rd, qname, handler, valid, res>>

-----------------------------------------------------------------------------
(* The upstream servers: they repeat the question, or have none, and answer*)
(* it or not.                                                              *)
Response ==
    [question : {req, None}, ancount : {0}, answers : {<<>>}]
    \cup {[question |-> q, ancount |-> 1,
           answers |-> <<[owner |-> req.name, type |-> req.type, data |-> d]>>] :
             q \in {req, None}, d \in Address}

(* processResponse.                                                        *)
Processed(r) ==
    IF oriNameType = None \/ append = <<>> \/ appendNum = 0 \/ r.question = None
    THEN r
    ELSE [question |-> oriNameType,
          ancount |-> r.ancount + appendNum,
          answers |-> append \o r.answers]

(* serverComplete decides on a valid answer, or on the last invalid one.   *)
Respond ==
    /\ phase = "relayed"
    /\ \E r \in Response :
         \/ valid' = TRUE /\ res' = Processed(r)
         \/ valid' = FALSE /\ res' = r
    /\ phase' = "replied"
    /\ UNCHANGED <<conf, client, rd, req, qname, handler>>

Lookup == FollowHost \/ AnswerHost \/ RelayHost

Next ==
    \/ \E k \in Name : BeginLine(k)
    \/ \E v \in Value : AddValue(v)
    \/ EndLine
    \/ EndOfFile
    \/ \E q \in Question, d \in BOOLEAN : Request(q, d)
    \/ Lookup
    \/ Respond

Spec == Init /\ [][Next]_vars

(* The loop is not interrupted.                                            *)
FairSpec == Spec /\ WF_vars(Lookup)

-----------------------------------------------------------------------------
(* In a table that has been loaded, a name with a CNAME has nothing else,  *)
(* however many lines it has: the assertion in processRequest.             *)
TableSound ==
    phase \notin {"loading", "failed"} =>
        \A n \in DOMAIN hosts : "CNAME" \in DOMAIN hosts[n] =>
            DOMAIN hosts[n] = {"CNAME"} /\ Len(hosts[n]["CNAME"]) = 1

(* A valid reply is for the question of the client, whatever names it was  *)
(* looked up and relayed under.                                            *)
AnswersQuestion ==
    phase = "replied" /\ valid /\ res.question # None => res.question = client

(* Each record is about the name the one before leads to.                  *)
Chain(s) ==
    \A i \in DOMAIN s : i > 1 =>
        s[i].owner = IF s[i - 1].type = "CNAME" THEN s[i - 1].data
                     ELSE s[i - 1].owner

(* The answers of a valid reply lead from the name of the client through   *)
(* the table to the answers of the servers, without a gap, and the header  *)
(* tells how many they are.                                                *)
ReplyIsChain ==
    phase = "replied" /\ valid /\ res.question # None =>
        /\ res.ancount = Len(res.answers)
        /\ res.answers # <<>> => res.answers[1].owner = client.name
        /\ Chain(res.answers)

(* The CNAMEs of the table do not lead in a circle.                        *)
Acyclic ==
    \A S \in SUBSET Name \ {{}} : \E n \in S : \A m \in S :
        "CNAME" \in DOMAIN Entry(n) => Entry(n)["CNAME"][1] # m

(* A request is answered or relayed, unless the table leads in a circle:   *)
(* the code does not notice that it comes back to a name.                  *)
EndsUnlessCyclic ==
    phase = "looking" /\ Acyclic ~> phase \in {"relayed", "replied"}
=============================================================================
