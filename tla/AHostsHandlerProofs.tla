------------------------ MODULE AHostsHandlerProofs ------------------------
(***************************************************************************)
(* Proofs about AHostsHandler, for every table that loadHostsExt accepts,  *)
(* every request and every answer of the servers.                          *)
(***************************************************************************)
EXTENDS AHostsHandler, TLAPS

(* Where a record leads.                                                   *)
Onward(r) == IF r.type = "CNAME" THEN r.data ELSE r.owner

LEMMA ConcatFacts ==
    ASSUME NEW s \in Seq(RR), NEW u \in Seq(RR)
    PROVE  /\ s \o u \in Seq(RR)
           /\ Len(s \o u) = Len(s) + Len(u)
           /\ \A i \in DOMAIN s : (s \o u)[i] = s[i]
           /\ \A i \in DOMAIN (s \o u) : i > Len(s) =>
                i - Len(s) \in DOMAIN u /\ (s \o u)[i] = u[i - Len(s)]
OBVIOUS

(* Two chains make one if the second begins where the first leads.         *)
LEMMA ChainConcat ==
    ASSUME NEW s \in Seq(RR), NEW u \in Seq(RR), Chain(s), Chain(u),
           s # <<>> /\ u # <<>> => u[1].owner = Onward(s[Len(s)])
    PROVE  /\ Chain(s \o u)
           /\ s # <<>> => s \o u # <<>> /\ (s \o u)[1] = s[1]
           /\ s = <<>> => s \o u = u
<1>1. /\ DOMAIN s = 1 .. Len(s) /\ Len(s) \in Nat
      /\ DOMAIN u = 1 .. Len(u) /\ Len(u) \in Nat
      /\ DOMAIN (s \o u) = 1 .. Len(s) + Len(u)
  OBVIOUS
<1>2. ASSUME NEW i \in DOMAIN (s \o u), i > 1
      PROVE  (s \o u)[i].owner = Onward((s \o u)[i - 1])
  <2>1. i \in Int /\ i - 1 \in DOMAIN (s \o u)
    BY <1>1, <1>2
  <2>2. CASE i <= Len(s)
    <3>1. i \in DOMAIN s /\ i - 1 \in DOMAIN s
      BY <1>1, <1>2, <2>1, <2>2
    <3>2. (s \o u)[i] = s[i] /\ (s \o u)[i - 1] = s[i - 1]
      BY <3>1, ConcatFacts
    <3> QED BY <1>2, <3>1, <3>2 DEF Chain, Onward
  <2>3. CASE i = Len(s) + 1
    <3>1. Len(s) \in DOMAIN s /\ s # <<>> /\ u # <<>> /\ i - 1 = Len(s)
          /\ i > Len(s) /\ i - Len(s) = 1
      BY <1>1, <1>2, <2>1, <2>3
    <3>2. (s \o u)[i] = u[1]
      BY <3>1, ConcatFacts
    <3>3. (s \o u)[i - 1] = s[Len(s)]
      BY <3>1, ConcatFacts
    <3> QED BY <3>1, <3>2, <3>3
  <2>4. CASE i > Len(s) + 1
    <3> DEFINE k == i - Len(s)
    <3>1. i > Len(s) /\ i - 1 > Len(s) /\ (i - 1) - Len(s) = k - 1 /\ k > 1
      BY <1>1, <2>1, <2>4
    <3>2. k \in DOMAIN u /\ (s \o u)[i] = u[k]
      BY <3>1, ConcatFacts
    <3>3. (s \o u)[i - 1] = u[k - 1]
      BY <2>1, <3>1, ConcatFacts
    <3> HIDE DEF k
    <3> QED BY <3>1, <3>2, <3>3 DEF Chain, Onward
  <2> QED BY <1>1, <2>1, <2>2, <2>3, <2>4
<1>3. Chain(s \o u)
  BY <1>2 DEF Chain, Onward
<1>4. ASSUME s # <<>> PROVE s \o u # <<>> /\ (s \o u)[1] = s[1]
  <2>1. 1 \in DOMAIN s /\ 1 \in DOMAIN (s \o u)
    BY <1>1, <1>4
  <2> QED BY <2>1, ConcatFacts
<1>5. s = <<>> => s \o u = u
  OBVIOUS
<1> QED BY <1>3, <1>4, <1>5

(* The records of one name are a chain: a CNAME is alone.                  *)
LEMMA RecordsChain ==
    ASSUME NEW q \in Name, NEW t \in HostType,
           NEW values \in Seq(Name \cup Address), Len(values) > 0,
           t = "CNAME" => Len(values) = 1
    PROVE  /\ Records(q, t, values) \in Seq(RR)
           /\ Len(Records(q, t, values)) = Len(values)
           /\ Records(q, t, values) # <<>>
           /\ Records(q, t, values)[1].owner = q
           /\ Chain(Records(q, t, values))
           /\ Records(q, t, values)[1].type = t
           /\ Records(q, t, values)[1].data = values[1]
<1> DEFINE R == Records(q, t, values)
<1>1. DOMAIN values = 1 .. Len(values) /\ Len(values) \in Nat
  OBVIOUS
<1>2. \A i \in DOMAIN values :
        R[i] = [owner |-> q, type |-> t, data |-> values[i]] /\ R[i] \in RR
  BY DEF Records, RR, QType
<1>3. R \in [1 .. Len(values) -> RR]
  BY <1>1, <1>2 DEF Records
<1>4. R \in Seq(RR) /\ Len(R) = Len(values)
  BY <1>1, <1>3
<1>5. DOMAIN R = 1 .. Len(values)
  BY <1>3
<1>6. Chain(R)
  <2> SUFFICES ASSUME NEW i \in DOMAIN R, i > 1
               PROVE  R[i].owner = Onward(R[i - 1])
    BY DEF Chain, Onward
  <2>1. i \in DOMAIN values /\ i - 1 \in DOMAIN values /\ Len(values) # 1
    BY <1>1, <1>5
  <2>2. t # "CNAME"
    BY <2>1
  <2>3. /\ R[i] = [owner |-> q, type |-> t, data |-> values[i]]
        /\ R[i - 1] = [owner |-> q, type |-> t, data |-> values[i - 1]]
    BY <1>2, <2>1
  <2> HIDE DEF R
  <2>4. R[i].owner = q /\ R[i - 1].owner = q /\ R[i - 1].type = t
    BY <2>3
  <2> QED BY <2>2, <2>4 DEF Onward
<1>7. R[1] = [owner |-> q, type |-> t, data |-> values[1]]
  BY <1>1, <1>2
<1> HIDE DEF R
<1>8. R # <<>>
  BY <1>1, <1>4
<1>9. R[1].owner = q /\ R[1].type = t /\ R[1].data = values[1]
  BY <1>7
<1> QED BY <1>4, <1>6, <1>8, <1>9 DEF R

-----------------------------------------------------------------------------
(* The lists of the table are not empty, and CNAMEs lead to names.         *)
HostsInv ==
    \A n \in DOMAIN hosts : \A t \in DOMAIN hosts[n] :
      /\ Len(hosts[n][t]) > 0
      /\ t = "CNAME" => \A i \in DOMAIN hosts[n][t] : hosts[n][t][i] \in Name

(* Every name but the one whose line is being read has been checked.       *)
SoundName(n) ==
    "CNAME" \in DOMAIN hosts[n] =>
        DOMAIN hosts[n] = {"CNAME"} /\ Len(hosts[n]["CNAME"]) = 1
TableInv ==
    /\ phase # "failed" => \A n \in DOMAIN hosts : n # key => SoundName(n)
    /\ phase \notin {"loading", "failed"} => key = None

(* The records appended lead from the client's name to q.                  *)
Path(q) ==
    /\ client \in Question
    /\ append = <<>> => oriNameType = None /\ q = client.name
    /\ append # <<>> => /\ oriNameType = client
                        /\ append[1].owner = client.name
                        /\ Onward(append[Len(append)]) = q
    /\ Chain(append)
    /\ appendNum = Len(append)

LookInv ==
    phase = "looking" =>
        /\ qname \in Name /\ Path(qname)
        /\ client.type # "other" /\ req = client

RelayInv ==
    phase = "relayed" =>
        /\ req \in Question /\ Path(req.name)
        /\ append = <<>> => req = client

Inv ==
    /\ TypeOK /\ HostsInv /\ TableInv /\ LookInv /\ RelayInv
    /\ AnswersQuestion /\ ReplyIsChain

LEMMA InitInv == Init => Inv
<1> SUFFICES ASSUME Init PROVE Inv
  OBVIOUS
<1>1. NoMessage \in Message
  BY DEF NoMessage, Message
<1>2. <<>> \in Seq(RR)
  OBVIOUS
<1> QED BY <1>1, <1>2
        DEF Inv, Init, TypeOK, HostsInv, TableInv, LookInv, RelayInv,
            AnswersQuestion, ReplyIsChain

(* The parts of the invariant that loading leaves alone.                   *)
LEMMA LoadKeeps ==
    ASSUME Inv, phase = "loading", phase' \in {"loading", "failed", "loaded"}
    PROVE  LookInv' /\ RelayInv' /\ AnswersQuestion' /\ ReplyIsChain'
BY DEF LookInv, RelayInv, AnswersQuestion, ReplyIsChain

LEMMA BeginLineInv == ASSUME Inv, NEW k \in Name, BeginLine(k) PROVE Inv'
<1>1. /\ phase = "loading" /\ phase' = "loading" /\ key = None /\ key' = k
      /\ hosts' = With(hosts, k, Entry(k))
      /\ UNCHANGED <<client, rd, req, qname, handler, valid, res>>
  BY DEF BeginLine
<1>2. /\ DOMAIN hosts' = DOMAIN hosts \cup {k}
      /\ \A n \in DOMAIN hosts : hosts'[n] = hosts[n]
      /\ k \notin DOMAIN hosts => DOMAIN hosts'[k] = {}
  BY <1>1 DEF With, Entry
<1>3. TypeOK'
  BY <1>1, <1>2 DEF Inv, TypeOK, handler
<1>4. HostsInv'
  BY <1>2 DEF Inv, HostsInv
<1>5. TableInv'
  <2>1. \A n \in DOMAIN hosts : n # key
    BY <1>1, HostsAssumption DEF Inv, TypeOK
  <2> QED BY <1>1, <1>2, <2>1 DEF Inv, TableInv, SoundName
<1> QED BY <1>1, <1>3, <1>4, <1>5, LoadKeeps DEF Inv

LEMMA AddValueInv == ASSUME Inv, NEW v \in Value, AddValue(v) PROVE Inv'
<1> DEFINE e == Entry(key)
           l == Append(Values(key, v.type), v.data)
<1>1. /\ phase = "loading" /\ phase' = "loading" /\ key # None /\ key' = key
      /\ hosts' = With(hosts, key, With(e, v.type, l))
      /\ UNCHANGED <<client, rd, req, qname, handler, valid, res>>
  BY DEF AddValue
<1>2. /\ v.type \in HostType /\ v.data \in Name \cup Address
      /\ v.type = "CNAME" => v.data \in Name
  BY DEF Value, HostType
<1>3. /\ DOMAIN e \subseteq HostType
      /\ \A t \in DOMAIN e :
           /\ e[t] \in Seq(Name \cup Address) /\ Len(e[t]) > 0
           /\ t = "CNAME" => \A i \in DOMAIN e[t] : e[t][i] \in Name
  BY DEF Entry, Inv, TypeOK, HostsInv
<1>4. Values(key, v.type) \in Seq(Name \cup Address)
  <2>1. CASE v.type \in DOMAIN e
    BY <1>3, <2>1 DEF Values
  <2>2. CASE v.type \notin DOMAIN e
    BY <2>2 DEF Values
  <2> QED BY <2>1, <2>2
<1>5. v.type = "CNAME" =>
        \A i \in DOMAIN Values(key, v.type) : Values(key, v.type)[i] \in Name
  BY <1>3 DEF Values
<1>6. /\ l \in Seq(Name \cup Address) /\ Len(l) > 0
      /\ v.type = "CNAME" => \A i \in DOMAIN l : l[i] \in Name
  <2>1. PICK s \in Seq(Name \cup Address), d \in Name \cup Address :
          s = Values(key, v.type) /\ d = v.data
    BY <1>2, <1>4
  <2>2. Append(s, d) \in Seq(Name \cup Address) /\ Len(Append(s, d)) > 0
    OBVIOUS
  <2>3. \A i \in DOMAIN Append(s, d) :
          (i \in DOMAIN s /\ Append(s, d)[i] = s[i]) \/ Append(s, d)[i] = d
    OBVIOUS
  <2> QED BY <1>2, <1>5, <2>1, <2>2, <2>3
<1> HIDE DEF e, l
<1>7. /\ DOMAIN hosts' = DOMAIN hosts \cup {key}
      /\ \A n \in DOMAIN hosts : n # key => hosts'[n] = hosts[n]
      /\ DOMAIN hosts'[key] = DOMAIN e \cup {v.type}
      /\ \A t \in DOMAIN e : t # v.type => hosts'[key][t] = e[t]
      /\ hosts'[key][v.type] = l
  BY <1>1 DEF With
<1>8. key \in Name
  BY <1>1 DEF Inv, TypeOK
<1>9. TypeOK'
  <2>1. \A n \in DOMAIN hosts' :
          /\ DOMAIN hosts'[n] \subseteq HostType
          /\ \A t \in DOMAIN hosts'[n] : hosts'[n][t] \in Seq(Name \cup Address)
    BY <1>2, <1>3, <1>6, <1>7 DEF Inv, TypeOK
  <2> QED BY <1>1, <1>7, <1>8, <2>1 DEF Inv, TypeOK, handler
<1>10. HostsInv'
  BY <1>3, <1>6, <1>7 DEF Inv, HostsInv
<1>11. TableInv'
  BY <1>1, <1>7 DEF Inv, TableInv, SoundName
<1> QED BY <1>1, <1>9, <1>10, <1>11, LoadKeeps DEF Inv

LEMMA EndLineInv == ASSUME Inv, EndLine PROVE Inv'
<1>1. /\ phase = "loading" /\ phase' \in {"loading", "failed"}
      /\ UNCHANGED <<hosts, client, rd, req, qname, handler, valid, res>>
      /\ key' \in {key, None}
  BY DEF EndLine
<1>2. TypeOK'
  BY <1>1 DEF Inv, TypeOK, handler
<1>3. HostsInv'
  BY <1>1 DEF Inv, HostsInv
<1>4. TableInv'
  <2>1. CASE ~LineValid(key)
    BY <2>1 DEF EndLine, TableInv
  <2>2. CASE LineValid(key)
    <3>1. phase' = "loading" /\ hosts' = hosts
      BY <1>1, <2>2 DEF EndLine
    <3>2. key \in DOMAIN hosts => SoundName(key)
      BY <2>2 DEF LineValid, SoundName, Inv, TypeOK, HostType
    <3>3. \A n \in DOMAIN hosts : SoundName(n)
      BY <1>1, <3>2 DEF Inv, TableInv
    <3> QED BY <3>1, <3>3 DEF TableInv, SoundName
  <2> QED BY <2>1, <2>2
<1> QED BY <1>1, <1>2, <1>3, <1>4, LoadKeeps DEF Inv

LEMMA EndOfFileInv == ASSUME Inv, EndOfFile PROVE Inv'
<1>1. /\ phase = "loading" /\ phase' = "loaded" /\ key = None
      /\ UNCHANGED <<conf, client, rd, req, qname, handler, valid, res>>
  BY DEF EndOfFile
<1>2. TypeOK' /\ HostsInv' /\ TableInv'
  BY <1>1 DEF Inv, TypeOK, HostsInv, TableInv, SoundName, conf, handler
<1> QED BY <1>1, <1>2, LoadKeeps DEF Inv

LEMMA RequestInv ==
    ASSUME Inv, NEW q \in Question, NEW d \in BOOLEAN, Request(q, d)
    PROVE  Inv'
<1>1. /\ phase' \in {"looking", "relayed"} /\ phase = "loaded"
      /\ phase' = "looking" => q.type # "other"
      /\ UNCHANGED <<hosts, key, valid, res>>
      /\ client' = q /\ rd' = d /\ req' = q /\ qname' = q.name
      /\ oriNameType' = None /\ append' = <<>> /\ appendNum' = 0
  BY DEF Request, conf
<1>2. q.name \in Name /\ <<>> \in Seq(RR)
  BY DEF Question
<1>3. TypeOK'
  BY <1>1, <1>2 DEF Inv, TypeOK
<1>4. HostsInv' /\ TableInv'
  BY <1>1 DEF Inv, HostsInv, TableInv, SoundName
<1>5. Path(q.name)'
  BY <1>1 DEF Path, Chain
<1> QED BY <1>1, <1>2, <1>3, <1>4, <1>5
        DEF Inv, LookInv, RelayInv, AnswersQuestion, ReplyIsChain

(* What a lookup that finds something appends.                             *)
LEMMA FoundRecords ==
    ASSUME Inv, phase = "looking", Finds
    PROVE  LET u == Records(qname, FoundType, Found)
           IN  /\ u \in Seq(RR) /\ u # <<>> /\ Chain(u)
               /\ Len(u) = Len(Found) /\ Len(Found) \in Nat
               /\ FoundType \in HostType
               /\ append \o u \in Seq(RR) /\ append \o u # <<>>
               /\ Chain(append \o u)
               /\ (append \o u)[1].owner = client.name
               /\ Len(append \o u) = appendNum + Len(Found)
               /\ Original = client
               /\ FoundType = "CNAME" =>
                    /\ Found[1] \in Name
                    /\ Onward((append \o u)[Len(append \o u)]) = Found[1]
<1> DEFINE u == Records(qname, FoundType, Found)
           s == append
<1>1. /\ qname \in Name /\ Path(qname) /\ phase # "failed" /\ phase # "loading"
      /\ qname \in DOMAIN hosts /\ FoundType \in DOMAIN hosts[qname]
  BY DEF Inv, LookInv, Finds
<1>2. /\ Found \in Seq(Name \cup Address) /\ Len(Found) > 0
      /\ FoundType \in HostType
      /\ FoundType = "CNAME" => \A i \in DOMAIN Found : Found[i] \in Name
  BY <1>1 DEF Found, Inv, TypeOK, HostsInv
<1>3. FoundType = "CNAME" => Len(Found) = 1
  <2>1. qname # key
    BY <1>1, HostsAssumption DEF Inv, TableInv
  <2> QED BY <1>1, <2>1 DEF Found, Inv, TableInv, SoundName
<1>4. /\ u \in Seq(RR) /\ Len(u) = Len(Found) /\ u # <<>> /\ u[1].owner = qname
      /\ Chain(u) /\ u[1].type = FoundType /\ u[1].data = Found[1]
  BY <1>1, <1>2, <1>3, RecordsChain
<1>5. s \in Seq(RR)
  BY DEF Inv, TypeOK
<1> HIDE DEF u
<1>6. /\ Chain(s \o u)
      /\ s # <<>> => s \o u # <<>> /\ (s \o u)[1] = s[1]
      /\ s = <<>> => s \o u = u
  <2>1. s # <<>> => u[1].owner = Onward(s[Len(s)])
    BY <1>1, <1>4 DEF Path
  <2> QED BY <1>1, <1>4, <1>5, <2>1, ChainConcat DEF Path
<1>7. (s \o u)[1].owner = client.name
  BY <1>1, <1>4, <1>6 DEF Path
<1>8. s \o u # <<>>
  BY <1>4, <1>6
<1>9. s \o u \in Seq(RR) /\ Len(s \o u) = Len(s) + Len(u)
  BY <1>4, <1>5, ConcatFacts
<1>10. Len(s \o u) = appendNum + Len(Found)
  BY <1>1, <1>4, <1>9 DEF Path
<1>11. Original = client
  BY <1>1 DEF Original, Path
<1>12. ASSUME FoundType = "CNAME"
       PROVE  /\ Found[1] \in Name
              /\ Onward((s \o u)[Len(s \o u)]) = Found[1]
  <2>1. Len(u) = 1 /\ 1 \in DOMAIN Found
    BY <1>2, <1>3, <1>4, <1>12
  <2>2. Len(s \o u) \in DOMAIN (s \o u) /\ Len(s \o u) > Len(s)
        /\ Len(s \o u) - Len(s) = 1
    BY <1>5, <1>9, <2>1
  <2>3. (s \o u)[Len(s \o u)] = u[1]
    BY <1>4, <1>5, <2>2, ConcatFacts
  <2>4. Onward(u[1]) = Found[1]
    BY <1>4, <1>12 DEF Onward
  <2> QED BY <1>2, <1>12, <2>1, <2>3, <2>4
<1>13. Len(Found) \in Nat
  BY <1>2
<1> QED BY <1>2, <1>4, <1>6, <1>7, <1>8, <1>9, <1>10, <1>11, <1>12, <1>13 DEF u

LEMMA FollowHostInv == ASSUME Inv, FollowHost PROVE Inv'
<1> DEFINE u == Records(qname, FoundType, Found)
           w == append \o u
<1>1. /\ phase = "looking" /\ phase' = "looking" /\ Finds /\ ~Final
      /\ oriNameType' = Original /\ append' = w
      /\ appendNum' = appendNum + Len(Found)
      /\ qname' = Found[1]
      /\ UNCHANGED <<hosts, key, client, rd, req, valid, res>>
  BY DEF FollowHost, Count, NextName, conf
<1>2. FoundType = "CNAME"
  BY <1>1 DEF Final, FoundType
<1>3. /\ w \in Seq(RR) /\ w # <<>> /\ Chain(w) /\ w[1].owner = client.name
      /\ Len(w) = appendNum + Len(Found) /\ Len(Found) \in Nat
      /\ Original = client /\ Found[1] \in Name
      /\ Onward(w[Len(w)]) = Found[1]
  BY <1>1, <1>2, FoundRecords
<1> HIDE DEF w
<1>4. client \in Question /\ client.type # "other" /\ req = client
  BY <1>1 DEF Inv, LookInv, Path
<1>5. appendNum' \in Nat
  BY <1>1, <1>3 DEF Inv, TypeOK
<1>6. TypeOK'
  BY <1>1, <1>3, <1>4, <1>5 DEF Inv, TypeOK
<1>7. HostsInv' /\ TableInv'
  BY <1>1 DEF Inv, HostsInv, TableInv, SoundName
<1>8. LookInv'
  <2>1. Chain(append)'
    BY <1>1, <1>3 DEF Chain
  <2>2. /\ append' # <<>> /\ oriNameType' = client'
        /\ append'[1].owner = client'.name
        /\ Onward(append'[Len(append')]) = qname'
        /\ appendNum' = Len(append')
        /\ client' \in Question /\ client'.type # "other" /\ req' = client'
        /\ qname' \in Name
    BY <1>1, <1>3, <1>4
  <2> QED BY <2>1, <2>2 DEF LookInv, Path
<1> QED BY <1>1, <1>6, <1>7, <1>8
        DEF Inv, RelayInv, AnswersQuestion, ReplyIsChain

LEMMA AnswerHostInv == ASSUME Inv, AnswerHost PROVE Inv'
<1> DEFINE u == Records(qname, FoundType, Found)
           w == append \o u
<1>1. /\ phase = "looking" /\ phase' = "replied" /\ Finds
      /\ oriNameType' = Original /\ append' = w
      /\ appendNum' = appendNum + Len(Found)
      /\ res' = [question |-> client, ancount |-> appendNum', answers |-> append']
      /\ valid' = TRUE
      /\ UNCHANGED <<hosts, key, client, rd, req, qname>>
  BY DEF AnswerHost, Count, conf
<1>2. /\ w \in Seq(RR) /\ w # <<>> /\ Chain(w) /\ w[1].owner = client.name
      /\ Len(w) = appendNum + Len(Found) /\ Len(Found) \in Nat
      /\ Original = client
  BY <1>1, FoundRecords
<1> HIDE DEF w
<1>3. client \in Question
  BY <1>1 DEF Inv, LookInv, Path
<1>4. appendNum' \in Nat
  BY <1>1, <1>2 DEF Inv, TypeOK
<1>5. res' \in Message
  BY <1>1, <1>2, <1>3, <1>4 DEF Message
<1>6. TypeOK'
  BY <1>1, <1>2, <1>3, <1>4, <1>5 DEF Inv, TypeOK
<1>7. HostsInv' /\ TableInv'
  BY <1>1 DEF Inv, HostsInv, TableInv, SoundName
<1>8. AnswersQuestion'
  BY <1>1 DEF AnswersQuestion
<1>9. ReplyIsChain'
  <2>1. Chain(res.answers)'
    BY <1>1, <1>2 DEF Chain
  <2> QED BY <1>1, <1>2, <2>1 DEF ReplyIsChain
<1> QED BY <1>1, <1>6, <1>7, <1>8, <1>9 DEF Inv, LookInv, RelayInv

LEMMA RelayHostInv == ASSUME Inv, RelayHost PROVE Inv'
<1>1. /\ phase = "looking" /\ phase' = "relayed"
      /\ req' = IF oriNameType = None THEN req
                ELSE [name |-> qname, type |-> client.type]
      /\ UNCHANGED <<hosts, key, client, rd, qname, oriNameType, append,
                     appendNum, valid, res>>
  BY DEF RelayHost, conf, handler
<1>2. /\ qname \in Name /\ Path(qname) /\ client \in Question /\ req = client
  BY <1>1 DEF Inv, LookInv, Path
<1>3. req' \in Question /\ req'.name = qname /\ (append = <<>> => req' = client)
  <2>1. oriNameType = None <=> append = <<>>
    BY <1>2, HostsAssumption DEF Path
  <2> QED BY <1>1, <1>2, <2>1 DEF Path, Question
<1>4. TypeOK'
  BY <1>1, <1>3 DEF Inv, TypeOK
<1>5. HostsInv' /\ TableInv'
  BY <1>1 DEF Inv, HostsInv, TableInv, SoundName
<1>6. RelayInv'
  BY <1>1, <1>2, <1>3 DEF RelayInv, Path, Chain
<1> QED BY <1>1, <1>4, <1>5, <1>6
        DEF Inv, LookInv, AnswersQuestion, ReplyIsChain

LEMMA RespondInv == ASSUME Inv, Respond PROVE Inv'
<1>1. /\ phase = "relayed" /\ phase' = "replied"
      /\ UNCHANGED <<hosts, key, client, rd, req, qname, oriNameType, append,
                     appendNum>>
  BY DEF Respond, conf, handler
<1>2. PICK r \in Response : \/ valid' = TRUE /\ res' = Processed(r)
                            \/ valid' = FALSE /\ res' = r
  BY DEF Respond
<1>3. /\ req \in Question /\ Path(req.name) /\ (append = <<>> => req = client)
      /\ append \in Seq(RR) /\ appendNum \in Nat /\ appendNum = Len(append)
      /\ oriNameType \in Question \cup {None} /\ client \in Question
  BY <1>1 DEF Inv, TypeOK, RelayInv, Path
<1>4. /\ r \in Message /\ r.question \in {req, None}
      /\ r.ancount = Len(r.answers) /\ Chain(r.answers)
      /\ r.answers # <<>> => r.answers[1].owner = req.name
  <2>1. CASE r \in [question : {req, None}, ancount : {0}, answers : {<<>>}]
    <3>1. <<>> \in Seq(RR) /\ Len(<<>>) = 0
      OBVIOUS
    <3>2. r.answers = <<>> /\ r.ancount = 0 /\ r.question \in {req, None}
      BY <2>1
    <3>3. PICK q \in {req, None} :
            r = [question |-> q, ancount |-> 0, answers |-> <<>>]
      BY <2>1
    <3>4. r \in Message
      <4>1. q \in Question \cup {None} /\ 0 \in Nat
        BY <1>3
      <4>2. [question |-> q, ancount |-> 0, answers |-> <<>>] \in Message
        BY <3>1, <4>1 DEF Message
      <4> QED BY <3>3, <4>2
    <3> QED BY <3>1, <3>2, <3>4 DEF Chain
  <2>2. ASSUME NEW q \in {req, None}, NEW d \in Address,
               r = [question |-> q, ancount |-> 1,
                    answers |-> <<[owner |-> req.name, type |-> req.type,
                                   data |-> d]>>]
        PROVE  /\ r \in Message /\ r.question \in {req, None}
               /\ r.ancount = Len(r.answers) /\ Chain(r.answers)
               /\ r.answers # <<>> => r.answers[1].owner = req.name
    <3> DEFINE x == [owner |-> req.name, type |-> req.type, data |-> d]
    <3>1. x \in RR
      BY <1>3 DEF RR, Question
    <3>2. <<x>> \in Seq(RR) /\ Len(<<x>>) = 1 /\ DOMAIN <<x>> = {1} /\ <<x>>[1] = x
      BY <3>1
    <3>3. x.owner = req.name
      OBVIOUS
    <3>4. r.answers = <<x>> /\ r.question = q /\ r.ancount = 1
      BY <2>2
    <3> HIDE DEF x
    <3>5. Chain(<<x>>)
      BY <3>2 DEF Chain
    <3>6. r \in Message
      BY <1>3, <2>2, <3>2 DEF Message, x
    <3> QED BY <3>2, <3>3, <3>4, <3>5, <3>6
  <2> QED BY <2>1, <2>2 DEF Response
<1>5. CASE valid' = FALSE /\ res' = r
  <2>1. TypeOK'
    BY <1>1, <1>4, <1>5 DEF Inv, TypeOK
  <2>2. HostsInv' /\ TableInv'
    BY <1>1 DEF Inv, HostsInv, TableInv, SoundName
  <2> QED BY <1>1, <1>5, <2>1, <2>2
          DEF Inv, LookInv, RelayInv, AnswersQuestion, ReplyIsChain
<1>6. CASE valid' = TRUE /\ res' = Processed(r)
  <2>1. oriNameType = None <=> append = <<>>
    BY <1>3, HostsAssumption DEF Path
  <2>2. /\ Processed(r) \in Message
        /\ Processed(r).question # None =>
             /\ Processed(r).question = client
             /\ Processed(r).ancount = Len(Processed(r).answers)
             /\ Processed(r).answers # <<>> =>
                  Processed(r).answers[1].owner = client.name
             /\ Chain(Processed(r).answers)
    <3>1. CASE append = <<>> \/ r.question = None
      <4>1. Processed(r) = r
        BY <2>1, <3>1 DEF Processed
      <4> QED BY <1>3, <1>4, <3>1, <4>1
    <3>2. CASE append # <<>> /\ r.question # None
      <4>1. appendNum # 0 /\ oriNameType = client /\ oriNameType # None
        BY <1>3, <2>1, <3>2 DEF Path
      <4>2. Processed(r) = [question |-> client,
                            ancount |-> r.ancount + appendNum,
                            answers |-> append \o r.answers]
        BY <3>2, <4>1 DEF Processed
      <4>3. r.answers \in Seq(RR) /\ r.ancount \in Nat
        BY <1>4 DEF Message
      <4>4. /\ append \o r.answers \in Seq(RR)
            /\ Len(append \o r.answers) = Len(append) + Len(r.answers)
        BY <1>3, <4>3, ConcatFacts
      <4>5. /\ Chain(append \o r.answers)
            /\ (append \o r.answers)[1] = append[1]
        BY <1>3, <1>4, <3>2, <4>3, ChainConcat DEF Path
      <4>6. append[1].owner = client.name
        BY <1>3, <3>2 DEF Path
      <4>7. r.ancount + appendNum \in Nat
            /\ r.ancount + appendNum = Len(append \o r.answers)
        BY <1>3, <1>4, <4>3, <4>4
      <4>8. Processed(r) \in Message
        BY <1>3, <4>2, <4>4, <4>7 DEF Message
      <4> QED BY <4>2, <4>5, <4>6, <4>7, <4>8
    <3> QED BY <3>1, <3>2
  <2>3. TypeOK'
    BY <1>1, <1>6, <2>2 DEF Inv, TypeOK
  <2>4. HostsInv' /\ TableInv'
    BY <1>1 DEF Inv, HostsInv, TableInv, SoundName
  <2>5. AnswersQuestion' /\ ReplyIsChain'
    BY <1>1, <1>6, <2>2 DEF AnswersQuestion, ReplyIsChain, Chain
  <2> QED BY <1>1, <2>3, <2>4, <2>5 DEF Inv, LookInv, RelayInv
<1> QED BY <1>2, <1>5, <1>6

LEMMA Invariant == Spec => []Inv
<1>1. Inv /\ [Next]_vars => Inv'
  <2> SUFFICES ASSUME Inv, [Next]_vars PROVE Inv'
    OBVIOUS
  <2>1. CASE UNCHANGED vars
    BY <2>1 DEF vars, conf, handler, Inv, TypeOK, HostsInv, TableInv, SoundName,
                LookInv, RelayInv, Path, Chain, AnswersQuestion, ReplyIsChain
  <2> QED BY <2>1, BeginLineInv, AddValueInv, EndLineInv, EndOfFileInv,
             RequestInv, FollowHostInv, AnswerHostInv, RelayHostInv, RespondInv
          DEF Next, Lookup
<1> QED BY <1>1, InitInv, PTL DEF Spec

(* The table, the handler's members and the messages keep their types.     *)
THEOREM TypeCorrect == Spec => []TypeOK
<1>1. Inv => TypeOK
  BY DEF Inv
<1> QED BY <1>1, Invariant, PTL

(* The assertion of processRequest holds for every file loadHostsExt       *)
(* accepts: a name with a CNAME has nothing else.                          *)
THEOREM LoadedTablesAreSound == Spec => []TableSound
<1>1. Inv => TableSound
  BY HostsAssumption DEF Inv, TypeOK, TableInv, SoundName, TableSound
<1> QED BY <1>1, Invariant, PTL

(* Through any number of CNAMEs of the table, a valid reply is for the     *)
(* question the client asked.                                              *)
THEOREM RepliesAnswerTheQuestion == Spec => []AnswersQuestion
<1>1. Inv => AnswersQuestion
  BY DEF Inv
<1> QED BY <1>1, Invariant, PTL

(* The answers of a valid reply are a chain from the client's name, and as *)
(* many as its header says.                                                *)
THEOREM RepliesAreChains == Spec => []ReplyIsChain
<1>1. Inv => ReplyIsChain
  BY DEF Inv
<1> QED BY <1>1, Invariant, PTL
=============================================================================
