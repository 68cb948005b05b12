---------------------------- MODULE AHostsProofs ----------------------------
(***************************************************************************)
(* Proofs about AHosts, for every set of jobs, keys and servers, every     *)
(* choice of the timeouts and any UDP servers that find no port for their  *)
(* sockets.                                                                *)
(***************************************************************************)
EXTENDS AHosts, FiniteSetTheorems, TLAPS

-----------------------------------------------------------------------------
(* What holds of a job's record between two calls inside a handler.        *)
Base(j) ==
    /\ j \in JobRecord
    /\ ~j.backsent => Backs # {} /\ j.server \cap Backs = {}
    /\ \A s \in Server : ServerInv(j, s)

(* ClientInv, before serverComplete has looked whether servers are left    *)
(* and whether the client is already served.                               *)
MidClient(j) ==
    /\ CASE j.status \in {JOB_BEGIN, JOB_REQUESTING, JOB_NOEARLYRET} ->
              j.client.status = CLIENT_WAITING
         [] j.status \in {JOB_EARLYRET, JOB_GOTANSWER} ->
              j.client.status \in {CLIENT_RESPONDING, CLIENT_RESPONDED}
         [] OTHER -> j.client.status = CLIENT_RESPONDED
    /\ j.client.send # "none" <=> j.client.status = CLIENT_RESPONDING
    /\ j.reply # "none" <=> j.client.status > CLIENT_WAITING

Mid(j) == Base(j) /\ MidClient(j) /\ j.live /\ ~j.uaf /\ j.errs = {}

(* A job deleted under the function that goes on.                          *)
Dead(j) ==
    /\ Base(j)
    /\ ~j.live
    /\ j.server = {}
    /\ j.status = JOB_RESPONDED
    /\ j.errs = {}

PreSettle(j) ==
    \/ Mid(j) /\ (j.status < JOB_GOTANSWER => j.status > JOB_BEGIN /\ j.server # {})
    \/ Dead(j)

Whole(j) == Base(j) /\ ClientInv(j) /\ j.live /\ ~j.uaf /\ j.errs = {}

Returned(j) ==
    /\ j \in JobRecord
    /\ j.errs \subseteq {"job ptr"}
    /\ Whole(j) \/ (~j.live /\ j.server = {})

-----------------------------------------------------------------------------
(* The loops of request() and sendBackservers() go on after a send() that  *)
(* failed.  Where no other server runs, the first failure has given the    *)
(* job up under the loop.  It has then been deleted, with the servers the  *)
(* loop still launches left behind;                                        *)
Lost(j) ==
    /\ Base(j)
    /\ ~j.live
    /\ j.status \in {JOB_GOTANSWER, JOB_RESPONDED}
    /\ j.client.status = CLIENT_RESPONDED /\ j.client.send = "none"

(* or it stays for the reply its client, served early, is being sent.  o   *)
(* is the job before the handler.                                          *)
Late(j, o) ==
    /\ Base(j)
    /\ j.live /\ ~j.uaf
    /\ j.status = JOB_GOTANSWER
    /\ j.client.status = CLIENT_RESPONDING /\ j.client.send # "none"
    /\ j.reply # "none"
    /\ j.reply = o.reply /\ j.key = o.key /\ j.single = o.single

Loose(j, o) == Lost(j) \/ Late(j, o)

(* The same when the handler is over,                                      *)
Torn(j, o) == (Lost(j) /\ j.status = JOB_RESPONDED) \/ Late(j, o)

(* and the deleted job between two handlers.                               *)
Ghost(j) ==
    /\ Lost(j)
    /\ j.status = JOB_RESPONDED
    /\ j.server # {} /\ ~j.uaf /\ j.errs = {}

-----------------------------------------------------------------------------
(* The records and their fields.                                           *)
LEMMA AgeType == AgeCap \in Nat /\ 0 \in Age
BY TimeoutAssumption DEF AgeCap, Age

LEMMA OlderType == \A a \in Age : Older(a) \in Age
BY AgeType DEF Older, Age

LEMMA ConstantRecords ==
    /\ NewServer \in ServerRecord
    /\ DoneServer \in ServerRecord
    /\ \A s : /\ SentServer(s) \in ServerRecord
              /\ SentServer(s).status = SERVER_SENDING
              /\ SentServer(s).op = IF s \in Udp THEN "send" ELSE "connect"
BY AgeType DEF ServerRecord, ServerIn, SentServer, DoneServer, NewServer,
   SERVER_BEGIN, SERVER_SENDING, SERVER_GOTANSWER, Operation, Result

LEMMA ClientInType ==
    ASSUME NEW st \in 0 .. 3, NEW snd \in Result \cup {"none"}
    PROVE  /\ ClientIn(st, snd) \in ClientRecord
           /\ ClientIn(st, snd).status = st
           /\ ClientIn(st, snd).send = snd
BY AgeType DEF ClientIn, ClientRecord, CLIENT_BEGIN, CLIENT_RESPONDED

LEMMA JobFields ==
    ASSUME NEW j \in JobRecord
    PROVE  /\ j.srv \in [Server -> ServerRecord]
           /\ j.server \in SUBSET Server
           /\ j.client \in ClientRecord
           /\ j.status \in 0 .. 5
           /\ j.live \in BOOLEAN
           /\ j.backsent \in BOOLEAN
           /\ j.reply \in Reply
           /\ j.uaf \in BOOLEAN
           /\ j.errs \in SUBSET InternalError
BY DEF JobRecord, JOB_BEGIN, JOB_RESPONDED

(* A change of the status, and of the client, leaves the servers in order. *)
LEMMA StatusBase ==
    ASSUME NEW j, Base(j), NEW n \in 0 .. 5
    PROVE  Base([j EXCEPT !.status = n])
BY DEF Base, JobRecord, ServerInv, JOB_BEGIN, JOB_RESPONDED

LEMMA JobStatus ==
    {JOB_REQUESTING, JOB_EARLYRET, JOB_NOEARLYRET, JOB_GOTANSWER,
     JOB_RESPONDED} \subseteq 0 .. 5
BY DEF JOB_REQUESTING, JOB_EARLYRET, JOB_NOEARLYRET, JOB_GOTANSWER,
   JOB_RESPONDED

LEMMA ClientBase ==
    ASSUME NEW j, Base(j), NEW c \in ClientRecord
    PROVE  Base([j EXCEPT !.client = c])
BY DEF Base, JobRecord, ServerInv

(* A change of the servers' records leaves the rest of the job as it is.   *)
LEMMA SrvBase ==
    ASSUME NEW j, Base(j), NEW f \in [Server -> ServerRecord],
           NEW S \in SUBSET Server, j.backsent \/ S \cap Backs = {},
           \A s \in Server :
             IF s \in S
             THEN \/ /\ f[s].status = SERVER_SENDING
                     /\ f[s].op \in IF s \in Udp THEN {"send"}
                                    ELSE {"connect", "write"}
                  \/ /\ f[s].status = SERVER_WAITING
                     /\ f[s].op \in IF s \in Udp THEN {"peek", "recv"}
                                    ELSE {"read"}
             ELSE f[s] \in {NewServer, DoneServer}
    PROVE  Base([j EXCEPT !.server = S, !.srv = f])
<1> DEFINE r == [j EXCEPT !.server = S, !.srv = f]
<1>1. r \in JobRecord
  BY DEF Base, JobRecord
<1>2. r.server = S /\ r.srv = f /\ r.backsent = j.backsent
  BY DEF Base, JobRecord
<1> HIDE DEF r
<1>3. \A s \in Server : ServerInv(r, s)
  BY <1>2 DEF ServerInv
<1>4. ~r.backsent => Backs # {} /\ r.server \cap Backs = {}
  BY <1>2 DEF Base
<1> QED BY <1>1, <1>3, <1>4 DEF Base, r

(* Remove, Launch and CancelServers leave every server with its operation. *)
LEMMA RemoveBase ==
    ASSUME NEW j, Base(j), NEW s \in Server
    PROVE  /\ Base(Remove(j, s))
           /\ Remove(j, s) = [j EXCEPT !.server = j.server \ {s},
                                       !.srv = [j.srv EXCEPT ![s] = DoneServer]]
<1> DEFINE f == [j.srv EXCEPT ![s] = DoneServer]
<1>1. Remove(j, s) = [j EXCEPT !.server = j.server \ {s}, !.srv = f]
  BY DEF Remove
<1>2. j.srv \in [Server -> ServerRecord] /\ j.server \in SUBSET Server
  BY JobFields DEF Base
<1>3. f \in [Server -> ServerRecord]
  BY <1>2, ConstantRecords
<1>4. ASSUME NEW t \in Server
      PROVE  ServerInv(j, t) /\ f[t] = IF t = s THEN DoneServer ELSE j.srv[t]
  BY <1>2 DEF Base
<1> HIDE DEF f
<1>6. j.backsent \/ (j.server \ {s}) \cap Backs = {}
  BY <1>2 DEF Base
<1>5. Base([j EXCEPT !.server = j.server \ {s}, !.srv = f])
  BY <1>2, <1>3, <1>4, <1>6, SrvBase DEF ServerInv
<1> QED BY <1>1, <1>5 DEF f

(* m_server after the loop that sends to the servers of S.                 *)
Sent(j, S, F) == (j.server \cup S) \ (S \cap F)

LEMMA LaunchBase ==
    ASSUME NEW j, Base(j), NEW S \in SUBSET Server, NEW F,
           j.backsent \/ S \cap Backs = {}
    PROVE  Base(Launch(j, S, F))
<1> DEFINE f == [s \in Server |->
                   IF s \in S \cap F THEN DoneServer
                   ELSE IF s \in S THEN SentServer(s)
                   ELSE j.srv[s]]
           A == Sent(j, S, F)
<1>1. Launch(j, S, F) = [j EXCEPT !.server = A, !.srv = f]
  BY DEF Launch, Sent
<1>2. j.srv \in [Server -> ServerRecord] /\ j.server \in SUBSET Server
  BY JobFields DEF Base
<1>3. f \in [Server -> ServerRecord]
  BY <1>2, ConstantRecords
<1>4. ASSUME NEW t \in Server
      PROVE  /\ ServerInv(j, t)
             /\ f[t] = IF t \in S \cap F THEN DoneServer
                       ELSE IF t \in S THEN SentServer(t) ELSE j.srv[t]
             /\ t \in A <=> t \in S \ F \/ (t \in j.server /\ t \notin S)
  BY <1>2 DEF Base, Sent
<1>6. A \in SUBSET Server
  BY <1>2 DEF Sent
<1>7. j.backsent \/ A \cap Backs = {}
  BY <1>2 DEF Sent, Base
<1> HIDE DEF f, A
<1>5. Base([j EXCEPT !.server = A, !.srv = f])
  BY <1>2, <1>3, <1>4, <1>6, <1>7, SrvBase, ConstantRecords DEF ServerInv
<1> QED BY <1>1, <1>5 DEF f, A

LEMMA CancelBase ==
    ASSUME NEW j, Base(j), NEW S \in SUBSET j.server
    PROVE  /\ Base(CancelServers(j, S))
           /\ \E f : CancelServers(j, S) = [j EXCEPT !.srv = f]
<1> DEFINE f == [s \in Server |->
                   IF s \in S THEN Canceled(j.srv[s]) ELSE j.srv[s]]
<1>2. j.srv \in [Server -> ServerRecord] /\ j.server \in SUBSET Server
  BY JobFields DEF Base
<1>3. ASSUME NEW v \in ServerRecord
      PROVE  /\ Canceled(v) \in ServerRecord
             /\ Canceled(v).status = v.status
             /\ Canceled(v).op = v.op
  BY DEF Canceled, ServerRecord, Aborted, Result
<1>4. \A t \in Server : ServerInv(j, t)
  BY DEF Base
<1>5. f \in [Server -> ServerRecord]
  BY <1>2, <1>3
<1>6. ~ \E s \in S : j.srv[s].status = SERVER_BEGIN
  BY <1>2, <1>4 DEF ServerInv, SERVER_BEGIN, SERVER_SENDING, SERVER_WAITING
<1>7. CancelServers(j, S) = [j EXCEPT !.srv = f]
  BY <1>6 DEF CancelServers
<1>8. ASSUME NEW t \in Server
      PROVE  IF t \in S
             THEN f[t].status = j.srv[t].status /\ f[t].op = j.srv[t].op
             ELSE f[t] = j.srv[t]
  BY <1>2, <1>3
<1> HIDE DEF f
<1>11. j.backsent \/ j.server \cap Backs = {}
  BY <1>2 DEF Base
<1>10. Base([j EXCEPT !.server = j.server, !.srv = f])
  BY <1>2, <1>4, <1>5, <1>8, <1>11, SrvBase DEF ServerInv
<1>9. [j EXCEPT !.server = j.server, !.srv = f] = [j EXCEPT !.srv = f]
  BY DEF Base, JobRecord
<1> QED BY <1>7, <1>9, <1>10 DEF f

-----------------------------------------------------------------------------
(* The functions serverComplete is built from.                             *)

(* The steps of serverComplete between its entry and its end.              *)
LEMMA MidRemove ==
    ASSUME NEW j, Whole(j), NEW s \in j.server
    PROVE  /\ Mid(Remove(j, s))
           /\ Remove(j, s).status = j.status
           /\ j.status > JOB_BEGIN
<1>1. s \in Server /\ Base(j) /\ j \in JobRecord
  BY JobFields DEF Whole, Base
<1>2. Base(Remove(j, s))
  BY <1>1, RemoveBase
<1> DEFINE r == Remove(j, s)
<1>5. r = [j EXCEPT !.server = j.server \ {s},
                    !.srv = [j.srv EXCEPT ![s] = DoneServer]]
  BY <1>1, RemoveBase
<1>3. /\ r.status = j.status /\ r.client = j.client /\ r.reply = j.reply
      /\ r.live = j.live /\ r.uaf = j.uaf /\ r.errs = j.errs
  <2> HIDE DEF r
  <2> QED BY <1>1, <1>5 DEF JobRecord
<1>4. MidClient(r) /\ j.status > JOB_BEGIN
  BY <1>1, <1>3, JobFields DEF Whole, ClientInv, MidClient, JOB_BEGIN,
     JOB_REQUESTING, JOB_EARLYRET, JOB_NOEARLYRET, JOB_GOTANSWER, JOB_RESPONDED
<1> QED BY <1>2, <1>3, <1>4 DEF Mid, Whole

LEMMA MidLaunch ==
    ASSUME NEW j, Mid(j), NEW S \in SUBSET Server,
           j.backsent \/ S \cap Backs = {}, NEW F
    PROVE  /\ Mid(Launch(j, S, F))
           /\ Launch(j, S, F).status = j.status
           /\ Launch(j, S, F).server = Sent(j, S, F)
<1>1. j \in JobRecord /\ Base(j)
  BY DEF Mid, Base
<1> DEFINE r == Launch(j, S, F)
<1>3. /\ r.status = j.status /\ r.client = j.client /\ r.reply = j.reply
      /\ r.live = j.live /\ r.uaf = j.uaf /\ r.errs = j.errs
      /\ r.server = Sent(j, S, F)
  BY <1>1 DEF Launch, Sent, JobRecord
<1>4. Base(r)
  BY <1>1, LaunchBase
<1> HIDE DEF r
<1>5. Mid(r)
  BY <1>3, <1>4 DEF Mid, MidClient
<1> QED BY <1>3, <1>5 DEF r

LEMMA MidCancel ==
    ASSUME NEW j, Mid(j), NEW S \in SUBSET j.server
    PROVE  /\ Mid(CancelServers(j, S))
           /\ CancelServers(j, S).status = j.status
           /\ CancelServers(j, S).server = j.server
           /\ CancelServers(j, S).client = j.client
           /\ CancelServers(j, S).reply = j.reply
<1>1. j \in JobRecord /\ Base(j)
  BY DEF Mid, Base
<1> DEFINE r == CancelServers(j, S)
<1>2. PICK f : r = [j EXCEPT !.srv = f]
  BY <1>1, CancelBase
<1>3. /\ r.status = j.status /\ r.client = j.client /\ r.reply = j.reply
      /\ r.live = j.live /\ r.uaf = j.uaf /\ r.errs = j.errs
      /\ r.server = j.server
  BY <1>1, <1>2 DEF JobRecord
<1>4. Base(r)
  BY <1>1, CancelBase
<1> HIDE DEF r
<1>5. Mid(r)
  BY <1>3, <1>4 DEF Mid, MidClient
<1> QED BY <1>3, <1>5 DEF r

(* A job that is over on both sides ends; the only check that can fail is  *)
(* the one for a job that was deleted before.                              *)
LEMMA JobCompleteReturns ==
    ASSUME NEW j, Base(j), j.server = {}, j.errs = {}
    PROVE  Returned(JobComplete(j))
BY DEF JobComplete, Returned, Fault, Base, JobRecord, InternalError

(* The end of serverComplete leaves a whole job, or a deleted one.         *)
LEMMA SettleReturns ==
    ASSUME NEW j, PreSettle(j)
    PROVE  Returned(Settle(j))
<1> DEFINE t == Touch(j)
           a == IF t.status = JOB_GOTANSWER /\ t.client.status = CLIENT_RESPONDED
                THEN [t EXCEPT !.status = JOB_RESPONDED] ELSE t
<1>1. Settle(j) = IF a.server = {} /\ a.status = JOB_RESPONDED
                  THEN JobComplete(a) ELSE a
  BY DEF Settle
<1>2. CASE Dead(j)
  <2>1. Base(t) /\ t.server = {} /\ t.status = JOB_RESPONDED /\ t.errs = {}
    BY <1>2 DEF Dead, Base, Touch, JobRecord, ServerInv
  <2>2. a = t
    BY <2>1 DEF JOB_RESPONDED, JOB_GOTANSWER
  <2> QED BY <1>1, <2>1, <2>2, JobCompleteReturns
<1>3. CASE Mid(j) /\ (j.status < JOB_GOTANSWER => j.status > JOB_BEGIN /\ j.server # {})
  <2>1. j \in JobRecord /\ Base(j)
    BY <1>3 DEF Mid, Base
  <2>2. t = j
    BY <1>3, <2>1 DEF Mid, Touch, JobRecord
  <2>3. CASE j.status = JOB_GOTANSWER /\ j.client.status = CLIENT_RESPONDED
    <3>1. a = [j EXCEPT !.status = JOB_RESPONDED]
      BY <2>2, <2>3
    <3>2. /\ a.status = JOB_RESPONDED /\ a.server = j.server
          /\ a.client = j.client /\ a.reply = j.reply
          /\ a.live = j.live /\ a.uaf = j.uaf /\ a.errs = j.errs
      BY <2>1, <3>1 DEF JobRecord
    <3> HIDE DEF a
    <3>3. Base(a)
      BY <2>1, <3>1, StatusBase, JobStatus
    <3>4. CASE a.server = {}
      BY <1>1, <1>3, <3>2, <3>3, <3>4, JobCompleteReturns DEF Mid
    <3>5. CASE a.server # {}
      <4>1. ClientInv(a)
        BY <1>3, <2>3, <3>2, <3>5 DEF Mid, MidClient, ClientInv, JOB_REQUESTING,
           JOB_EARLYRET, JOB_NOEARLYRET, JOB_GOTANSWER, JOB_RESPONDED,
           CLIENT_WAITING, CLIENT_RESPONDING, CLIENT_RESPONDED
      <4>2. Whole(a)
        BY <1>3, <3>2, <3>3, <4>1 DEF Whole, Mid
      <4>3. Settle(j) = a
        BY <1>1, <3>5
      <4> QED BY <1>3, <3>2, <4>2, <4>3 DEF Returned, Whole, Mid, Base
    <3> QED BY <3>4, <3>5
  <2>4. CASE ~(j.status = JOB_GOTANSWER /\ j.client.status = CLIENT_RESPONDED)
    <3>1. a = j
      BY <2>2, <2>4
    <3>2. CASE j.server = {} /\ j.status = JOB_RESPONDED
      BY <1>1, <1>3, <2>1, <3>1, <3>2, JobCompleteReturns DEF Mid
    <3>3. CASE ~(j.server = {} /\ j.status = JOB_RESPONDED)
      <4>1. ClientInv(j)
        BY <1>3, <2>1, <2>4, <3>3, JobFields DEF Mid, MidClient, ClientInv,
           JOB_BEGIN, JOB_REQUESTING, JOB_EARLYRET, JOB_NOEARLYRET,
           JOB_GOTANSWER, JOB_RESPONDED
      <4> QED BY <1>1, <1>3, <2>1, <3>1, <3>3, <4>1 DEF Returned, Whole, Mid, Base
    <3> QED BY <3>2, <3>3
  <2> QED BY <2>3, <2>4
<1> QED BY <1>2, <1>3 DEF PreSettle

(* No server is left: the client is canceled, which deletes the job, or it *)
(* was served early.                                                       *)
LEMMA GiveUpSettles ==
    ASSUME NEW j, Mid(j), j.server = {},
           j.status \in {JOB_REQUESTING, JOB_EARLYRET, JOB_NOEARLYRET}
    PROVE  PreSettle(GiveUp(j))
<1> DEFINE a == [j EXCEPT !.status = JOB_GOTANSWER]
<1>1. j \in JobRecord /\ Base(j)
  BY DEF Mid, Base
<1>2. /\ a.status = JOB_GOTANSWER /\ a.server = {}
      /\ a.client = j.client /\ a.reply = j.reply
      /\ a.live /\ ~a.uaf /\ a.errs = {}
  BY <1>1 DEF JobRecord, Mid
<1>3. Base(a)
  BY <1>1, StatusBase, JobStatus
<1>4. CASE j.status = JOB_EARLYRET
  <2>1. GiveUp(j) = a
    BY <1>4 DEF GiveUp
  <2> HIDE DEF a
  <2>2. MidClient(a)
    BY <1>2, <1>4 DEF Mid, MidClient, JOB_BEGIN, JOB_REQUESTING, JOB_EARLYRET,
       JOB_NOEARLYRET, JOB_GOTANSWER
  <2> QED BY <1>2, <1>3, <2>1, <2>2 DEF PreSettle, Mid, JOB_GOTANSWER
<1>5. CASE j.status # JOB_EARLYRET
  <2>1. GiveUp(j) = ClientCancel(a)
    BY <1>5 DEF GiveUp
  <2> HIDE DEF a
  <2>2. a.client.status = CLIENT_WAITING
    BY <1>2, <1>5 DEF Mid, MidClient, JOB_BEGIN, JOB_REQUESTING,
       JOB_EARLYRET, JOB_NOEARLYRET, JOB_GOTANSWER
  <2> DEFINE b == [a EXCEPT !.client = ClientIn(CLIENT_RESPONDED, "none")]
             c == [b EXCEPT !.status = JOB_RESPONDED]
  <2>3. ClientCancel(a) = ClientComplete(b)
    <3>1. a.client.status <= CLIENT_WAITING
      BY <2>2 DEF CLIENT_WAITING
    <3> QED BY <3>1 DEF ClientCancel
  <2>4. /\ b.status = JOB_GOTANSWER /\ b.server = {} /\ b.live /\ ~b.uaf
        /\ b.errs = {}
    BY <1>2, <1>3 DEF Base, JobRecord
  <2>5. Base(b)
    <3>1. ClientIn(CLIENT_RESPONDED, "none") \in ClientRecord
      BY ClientInType DEF CLIENT_RESPONDED
    <3> QED BY <1>3, <3>1, ClientBase
  <2>6. Base(c) /\ c.server = {} /\ c.live /\ c.status = JOB_RESPONDED
        /\ c.errs = {}
    <3> HIDE DEF b
    <3>1. Base(c)
      BY <2>5, StatusBase, JobStatus
    <3> QED BY <2>4, <2>5, <3>1 DEF Base, JobRecord
  <2> HIDE DEF b
  <2>7. ClientComplete(b) = JobComplete(c)
    BY <2>4, <2>5 DEF ClientComplete, JOB_GOTANSWER, JOB_EARLYRET, Base, JobRecord
  <2> HIDE DEF c
  <2>8. Dead(JobComplete(c))
    BY <2>6 DEF Dead, JobComplete, Base, JobRecord, ServerInv
  <2> QED BY <2>1, <2>3, <2>7, <2>8 DEF PreSettle
<1> QED BY <1>4, <1>5

(* The back servers are launched, and one of them runs unless another      *)
(* server does.                                                            *)
LEMMA MidBackservers ==
    ASSUME NEW j, Mid(j), ~j.backsent,
           NEW F, j.server # {} \/ FirstBack \notin F
    PROVE  /\ Mid(SendBackservers(j, F))
           /\ SendBackservers(j, F).status = j.status
           /\ SendBackservers(j, F).server # {}
<1> DEFINE b == [j EXCEPT !.backsent = TRUE]
<1>1. j \in JobRecord /\ Base(j)
  BY DEF Mid, Base
<1>2. SendBackservers(j, F) = Launch(b, Backs, F)
  <2>1. b.server = j.server
    BY <1>1 DEF JobRecord
  <2> QED BY <2>1 DEF SendBackservers
<1>3. /\ b.status = j.status /\ b.client = j.client /\ b.reply = j.reply
      /\ b.live = j.live /\ b.uaf = j.uaf /\ b.errs = j.errs
      /\ b.server = j.server /\ b.srv = j.srv /\ b \in JobRecord
      /\ b.backsent
  BY <1>1 DEF JobRecord
<1> HIDE DEF b
<1>4. Mid(b)
  BY <1>3 DEF Mid, MidClient, Base, ServerInv
<1>5. Backs \subseteq Server
  BY DEF Server
<1>6. /\ j.server \cap Backs = {}
      /\ FirstBack \notin F => FirstBack \in Backs \ F
  BY <1>1, ServerAssumption DEF Base, Backs
<1>7. /\ Mid(Launch(b, Backs, F))
      /\ Launch(b, Backs, F).status = b.status
      /\ Launch(b, Backs, F).server = Sent(b, Backs, F)
  BY <1>3, <1>4, <1>5, MidLaunch
<1>8. Sent(b, Backs, F) # {}
  BY <1>3, <1>6 DEF Sent
<1> QED BY <1>2, <1>3, <1>7, <1>8

LEMMA NoAnswerSettles ==
    ASSUME NEW j, Mid(j), j.server = {},
           j.status \in {JOB_REQUESTING, JOB_EARLYRET, JOB_NOEARLYRET},
           NEW F, j.backsent \/ FirstBack \notin F
    PROVE  PreSettle(NoAnswer(j, F))
<1> DEFINE b == IF j.backsent THEN j ELSE SendBackservers(j, F)
<1>1. Mid(b) /\ b.status = j.status
  BY MidBackservers
<1>2. NoAnswer(j, F) = IF b.server = {} THEN GiveUp(b) ELSE b
  BY DEF NoAnswer
<1> HIDE DEF b
<1>3. CASE b.server = {}
  BY <1>1, <1>2, <1>3, GiveUpSettles
<1>4. CASE b.server # {}
  BY <1>1, <1>2, <1>4 DEF PreSettle, JOB_BEGIN, JOB_REQUESTING, JOB_EARLYRET,
     JOB_NOEARLYRET
<1> QED BY <1>3, <1>4

(* A reply to a client that waits.                                         *)
LEMMA MidResponse ==
    ASSUME NEW j, Base(j), j.live, ~j.uaf, j.errs = {},
           j.status \in {JOB_EARLYRET, JOB_GOTANSWER},
           j.client.status = CLIENT_WAITING,
           NEW how \in Reply \ {"none"}
    PROVE  /\ Mid(ClientResponse(j, how))
           /\ ClientResponse(j, how).status = j.status
           /\ ClientResponse(j, how).server = j.server
           /\ ClientResponse(j, how).reply = how
<1> DEFINE c == ClientIn(CLIENT_RESPONDING, "pending")
           r == [j EXCEPT !.client = c, !.reply = how]
<1>1. ClientResponse(j, how) = r
  BY DEF ClientResponse
<1>2. c \in ClientRecord /\ c.status = CLIENT_RESPONDING /\ c.send = "pending"
  BY ClientInType DEF Result, CLIENT_RESPONDING
<1> HIDE DEF c
<1>3. /\ r.status = j.status /\ r.client = c /\ r.reply = how
      /\ r.live = j.live /\ r.uaf = j.uaf /\ r.errs = j.errs
      /\ r.server = j.server /\ r.srv = j.srv /\ r \in JobRecord
      /\ r.backsent = j.backsent
  BY <1>2 DEF Base, JobRecord
<1> HIDE DEF r
<1>4. Base(r)
  BY <1>3 DEF Base, ServerInv
<1>5. MidClient(r)
  BY <1>2, <1>3 DEF MidClient, JOB_BEGIN, JOB_REQUESTING, JOB_EARLYRET,
     JOB_NOEARLYRET, JOB_GOTANSWER, CLIENT_WAITING, CLIENT_RESPONDING
<1> QED BY <1>1, <1>3, <1>4, <1>5 DEF Mid

(* A response ends the search or leaves a server to wait for.              *)
LEMMA DeliverSettles ==
    ASSUME NEW j, Mid(j), j.status < JOB_GOTANSWER,
           NEW m, m \notin ValidResponse => j.status > JOB_BEGIN,
           NEW how \in Reply \ {"none"}, NEW F,
           m \in ValidResponse \/ j.server # {} \/ j.backsent \/ FirstBack \notin F
    PROVE  PreSettle(Deliver(j, m, how, F))
<1> DEFINE valid == m \in ValidResponse
           b == IF ~valid /\ j.server = {} /\ ~j.backsent
                THEN SendBackservers(j, F) ELSE j
           c == [b EXCEPT !.status = JOB_GOTANSWER]
           d == IF b.status = JOB_EARLYRET THEN c ELSE ClientResponse(c, how)
<1>1. Deliver(j, m, how, F) =
        IF valid \/ b.server = {} THEN CancelServers(d, d.server) ELSE b
  BY DEF Deliver
<1>2. Mid(b) /\ b.status = j.status
  BY MidBackservers
<1> HIDE DEF b
<1>3. b \in JobRecord /\ Base(b) /\ b.live /\ ~b.uaf /\ b.errs = {}
  BY <1>2 DEF Mid, Base
<1>4. /\ c.status = JOB_GOTANSWER /\ c.server = b.server
      /\ c.client = b.client /\ c.reply = b.reply
      /\ c.live /\ ~c.uaf /\ c.errs = {}
  BY <1>3 DEF JobRecord
<1>5. Base(c)
  BY <1>3, StatusBase, JobStatus
<1> HIDE DEF c
<1>6. Mid(d) /\ d.status = JOB_GOTANSWER
  <2>1. CASE b.status = JOB_EARLYRET
    BY <1>2, <1>4, <1>5, <2>1 DEF Mid, MidClient, JOB_BEGIN, JOB_REQUESTING,
       JOB_EARLYRET, JOB_NOEARLYRET, JOB_GOTANSWER
  <2>2. CASE b.status # JOB_EARLYRET
    <3>1. b.status \in {JOB_BEGIN, JOB_REQUESTING, JOB_NOEARLYRET}
      BY <1>2, <1>3, <2>2, JobFields DEF JOB_BEGIN, JOB_REQUESTING,
         JOB_EARLYRET, JOB_NOEARLYRET, JOB_GOTANSWER
    <3>2. b.client.status = CLIENT_WAITING
      BY <1>2, <3>1 DEF Mid, MidClient, JOB_BEGIN, JOB_REQUESTING,
         JOB_EARLYRET, JOB_NOEARLYRET, JOB_GOTANSWER
    <3>3. c.client.status = CLIENT_WAITING
      BY <1>4, <3>2
    <3> QED BY <1>4, <1>5, <2>2, <3>3, MidResponse
  <2> QED BY <2>1, <2>2
<1> HIDE DEF d
<1>7. Mid(CancelServers(d, d.server))
      /\ CancelServers(d, d.server).status = JOB_GOTANSWER
  BY <1>6, MidCancel
<1>8. CASE valid \/ b.server = {}
  BY <1>1, <1>7, <1>8 DEF PreSettle, JOB_GOTANSWER
<1>9. CASE ~(valid \/ b.server = {})
  BY <1>1, <1>2, <1>9 DEF PreSettle
<1> QED BY <1>8, <1>9

(* All of serverComplete, whatever the response.                           *)
LEMMA AnsweredReturns ==
    ASSUME NEW j, Mid(j), NEW m,
           m \notin ValidResponse => j.status > JOB_BEGIN,
           NEW how \in Reply \ {"none"}, NEW F,
           \/ j.status >= JOB_GOTANSWER \/ m \in ValidResponse
           \/ j.server # {} \/ j.backsent \/ FirstBack \notin F
    PROVE  Returned(Answered(j, m, how, F))
<1> DEFINE a == IF j.status >= JOB_GOTANSWER THEN j
                ELSE IF m # "none" THEN Deliver(j, m, how, F)
                ELSE IF j.server = {} THEN NoAnswer(j, F)
                ELSE j
<1>1. j.status \in 0 .. 5
  BY JobFields DEF Mid, Base
<1>2. PreSettle(a)
  <2>1. CASE j.status >= JOB_GOTANSWER
    BY <1>1, <2>1 DEF PreSettle, JOB_GOTANSWER
  <2>2. CASE j.status < JOB_GOTANSWER /\ m # "none"
    <3>1. PreSettle(Deliver(j, m, how, F))
      BY <1>1, <2>2, DeliverSettles DEF JOB_GOTANSWER
    <3> QED BY <1>1, <2>2, <3>1 DEF JOB_GOTANSWER
  <2>3. CASE j.status < JOB_GOTANSWER /\ m = "none"
    <3>1. j.status \in {JOB_REQUESTING, JOB_EARLYRET, JOB_NOEARLYRET}
      BY <1>1, <2>3 DEF ValidResponse, JOB_BEGIN, JOB_REQUESTING, JOB_EARLYRET,
         JOB_NOEARLYRET, JOB_GOTANSWER
    <3>2. a = IF j.server = {} THEN NoAnswer(j, F) ELSE j
      BY <1>1, <2>3 DEF JOB_GOTANSWER
    <3>3. CASE j.server = {}
      <4>1. j.backsent \/ FirstBack \notin F
        BY <1>1, <2>3, <3>3 DEF ValidResponse, JOB_GOTANSWER
      <4> QED BY <3>1, <3>2, <3>3, <4>1, NoAnswerSettles
    <3>4. CASE j.server # {}
      BY <3>1, <3>2, <3>4 DEF PreSettle, JOB_BEGIN, JOB_REQUESTING,
         JOB_EARLYRET, JOB_NOEARLYRET
    <3> QED BY <3>3, <3>4
  <2> QED BY <1>1, <2>1, <2>2, <2>3 DEF JOB_GOTANSWER
<1>3. Answered(j, m, how, F) = Settle(a)
  BY DEF Answered
<1> HIDE DEF a
<1> QED BY <1>2, <1>3, SettleReturns

-----------------------------------------------------------------------------
(* The first server of a loop fails while no other server runs.            *)

(* What the rest of the calls does with such a job leaves it so.           *)
LEMMA TouchLoose ==
    ASSUME NEW j, NEW o, Loose(j, o)
    PROVE  /\ Loose(Touch(j), o)
           /\ Touch(j).status = j.status /\ Touch(j).server = j.server
           /\ Touch(j).client = j.client /\ Touch(j).live = j.live
           /\ Touch(j).backsent = j.backsent
BY DEF Touch, Loose, Lost, Late, Base, JobRecord, ServerInv

LEMMA FaultLoose ==
    ASSUME NEW j, NEW o, Loose(j, o), NEW e \in InternalError
    PROVE  /\ Loose(Fault(j, e), o)
           /\ Fault(j, e).status = j.status
           /\ Fault(j, e).server = j.server
BY DEF Fault, Loose, Lost, Late, Base, JobRecord, ServerInv

LEMMA SettleLoose ==
    ASSUME NEW j, NEW o, Loose(j, o)
    PROVE  Torn(Settle(j), o)
<1> DEFINE t == Touch(j)
           a == IF t.status = JOB_GOTANSWER /\ t.client.status = CLIENT_RESPONDED
                THEN [t EXCEPT !.status = JOB_RESPONDED] ELSE t
<1>1. Settle(j) = IF a.server = {} /\ a.status = JOB_RESPONDED
                  THEN JobComplete(a) ELSE a
  BY DEF Settle
<1>2. /\ Loose(t, o)
      /\ t.status = j.status /\ t.client = j.client /\ t.live = j.live
  BY TouchLoose
<1> HIDE DEF t
<1>3. CASE j.live
  <2>1. Late(t, o)
    BY <1>2, <1>3 DEF Loose, Lost
  <2>2. a = t /\ t.status = JOB_GOTANSWER
    BY <2>1 DEF Late, CLIENT_RESPONDING, CLIENT_RESPONDED
  <2> HIDE DEF a
  <2> QED BY <1>1, <2>1, <2>2 DEF Torn, JOB_GOTANSWER, JOB_RESPONDED
<1>4. CASE ~j.live
  <2>1. Lost(t)
    BY <1>2, <1>4 DEF Loose, Late
  <2>2. Lost(a) /\ a.status = JOB_RESPONDED
    <3>1. CASE t.status = JOB_GOTANSWER
      <4>1. a = [t EXCEPT !.status = JOB_RESPONDED]
        BY <2>1, <3>1 DEF Lost
      <4>2. Base(a)
        BY <2>1, <4>1, StatusBase, JobStatus DEF Lost
      <4>3. a.status = JOB_RESPONDED /\ a.live = t.live /\ a.client = t.client
        BY <2>1, <4>1 DEF Lost, Base, JobRecord
      <4> HIDE DEF a
      <4> QED BY <2>1, <4>2, <4>3 DEF Lost
    <3>2. CASE t.status # JOB_GOTANSWER
      BY <2>1, <3>2 DEF Lost
    <3> QED BY <3>1, <3>2
  <2> HIDE DEF a
  <2>3. JobComplete(a) = Fault(a, "job ptr")
    BY <2>2 DEF JobComplete, Lost
  <2>4. Lost(Fault(a, "job ptr")) /\ Fault(a, "job ptr").status = JOB_RESPONDED
    BY <2>2 DEF Fault, Lost, Base, JobRecord, ServerInv, InternalError
  <2> QED BY <1>1, <2>2, <2>3, <2>4 DEF Torn
<1> QED BY <1>3, <1>4

LEMMA LaunchLoose ==
    ASSUME NEW j, NEW o, Loose(j, o), NEW S \in SUBSET Server, NEW F,
           j.backsent \/ S \cap Backs = {}
    PROVE  /\ Loose(Launch(j, S, F), o)
           /\ Launch(j, S, F).status = j.status
           /\ Launch(j, S, F).live = j.live
<1>1. Base(j) /\ j \in JobRecord
  BY DEF Loose, Lost, Late, Base
<1> DEFINE r == Launch(j, S, F)
<1>2. /\ r.status = j.status /\ r.client = j.client /\ r.reply = j.reply
      /\ r.live = j.live /\ r.uaf = j.uaf /\ r.key = j.key
      /\ r.single = j.single
  BY <1>1 DEF Launch, JobRecord
<1>3. Base(r)
  BY <1>1, LaunchBase
<1> HIDE DEF r
<1>4. Loose(r, o)
  BY <1>2, <1>3 DEF Loose, Lost, Late
<1> QED BY <1>2, <1>4 DEF r

LEMMA StatusLoose ==
    ASSUME NEW j, NEW o, Loose(j, o)
    PROVE  /\ Loose([j EXCEPT !.status = JOB_GOTANSWER], o)
           /\ [j EXCEPT !.status = JOB_GOTANSWER].server = j.server
           /\ [j EXCEPT !.status = JOB_GOTANSWER].status = JOB_GOTANSWER
<1> DEFINE r == [j EXCEPT !.status = JOB_GOTANSWER]
<1>1. Base(j) /\ j \in JobRecord
  BY DEF Loose, Lost, Late, Base
<1>2. Base(r)
  BY <1>1, StatusBase, JobStatus
<1>3. /\ r.status = JOB_GOTANSWER /\ r.client = j.client /\ r.reply = j.reply
      /\ r.live = j.live /\ r.uaf = j.uaf /\ r.key = j.key
      /\ r.single = j.single /\ r.server = j.server
  BY <1>1 DEF JobRecord
<1> HIDE DEF r
<1>4. Loose(r, o)
  BY <1>2, <1>3 DEF Loose, Lost, Late
<1> QED BY <1>3, <1>4 DEF r

(* The client is canceled again.                                           *)
LEMMA GiveUpLoose ==
    ASSUME NEW j, NEW o, Loose(j, o)
    PROVE  Loose(GiveUp(j), o)
<1> DEFINE a == [j EXCEPT !.status = JOB_GOTANSWER]
<1>1. GiveUp(j) = ClientCancel(a)
  BY DEF GiveUp, Loose, Lost, Late, JOB_GOTANSWER, JOB_EARLYRET, JOB_RESPONDED
<1>2. Loose(a, o)
  BY StatusLoose
<1> HIDE DEF a
<1>3. CASE Lost(a)
  <2>1. ClientCancel(a) = Fault(a, "client cancel")
    BY <1>3 DEF ClientCancel, Lost, CLIENT_WAITING, CLIENT_RESPONDING,
       CLIENT_RESPONDED
  <2> QED BY <1>1, <1>2, <2>1, FaultLoose DEF InternalError
<1>4. CASE Late(a, o)
  <2> DEFINE c == [a.client EXCEPT !.send = Aborted(a.client.send)]
             r == [a EXCEPT !.client = c]
  <2>1. /\ a \in JobRecord /\ Base(a) /\ a.client \in ClientRecord
        /\ a.client.status = CLIENT_RESPONDING /\ a.client.send # "none"
    BY <1>4, JobFields DEF Late, Base
  <2>2. ClientCancel(a) = r
    <3>1. ClientCancel(a) = [a EXCEPT !.client.send = Aborted(@)]
      BY <2>1 DEF ClientCancel, CLIENT_WAITING, CLIENT_RESPONDING
    <3> QED BY <2>1, <3>1 DEF JobRecord, ClientRecord
  <2>3. c \in ClientRecord /\ c.status = CLIENT_RESPONDING /\ c.send # "none"
    BY <2>1 DEF ClientRecord, Aborted, Result
  <2> HIDE DEF c
  <2>4. Base(r)
    BY <2>1, <2>3, ClientBase
  <2>5. /\ r.status = a.status /\ r.client = c /\ r.reply = a.reply
        /\ r.live = a.live /\ r.uaf = a.uaf /\ r.key = a.key
        /\ r.single = a.single
    BY <2>1 DEF JobRecord
  <2> HIDE DEF r
  <2> QED BY <1>1, <1>4, <2>2, <2>3, <2>4, <2>5 DEF Loose, Late
<1> QED BY <1>2, <1>3, <1>4 DEF Loose

(* sendBackservers, when the first back server fails and no server runs.   *)
LEMMA MidRemoved ==
    ASSUME NEW j, Mid(j), NEW s \in Server
    PROVE  /\ Mid(Remove(j, s))
           /\ Remove(j, s).status = j.status
           /\ Remove(j, s).server = j.server \ {s}
           /\ Remove(j, s).client = j.client
           /\ Remove(j, s).reply = j.reply
           /\ Remove(j, s).key = j.key
           /\ Remove(j, s).single = j.single
           /\ Remove(j, s).backsent = j.backsent
<1>1. Base(j) /\ j \in JobRecord
  BY DEF Mid, Base
<1> DEFINE r == Remove(j, s)
<1>2. Base(r)
  BY <1>1, RemoveBase
<1>3. r = [j EXCEPT !.server = j.server \ {s},
                    !.srv = [j.srv EXCEPT ![s] = DoneServer]]
  BY <1>1, RemoveBase
<1> HIDE DEF r
<1>4. /\ r.status = j.status /\ r.client = j.client /\ r.reply = j.reply
      /\ r.live = j.live /\ r.uaf = j.uaf /\ r.errs = j.errs
      /\ r.server = j.server \ {s} /\ r.key = j.key /\ r.single = j.single
      /\ r.backsent = j.backsent
  BY <1>1, <1>3 DEF JobRecord
<1>5. Mid(r)
  BY <1>2, <1>4 DEF Mid, MidClient
<1> QED BY <1>4, <1>5 DEF r

(* A job without servers is given up: it ends, unless a reply is under way *)
(* since its early return.                                                 *)
LEMMA GiveUpEnds ==
    ASSUME NEW j, Mid(j), j.server = {},
           j.status \in {JOB_REQUESTING, JOB_EARLYRET, JOB_NOEARLYRET}
    PROVE  Torn(Settle(GiveUp(j)), j) /\ Settle(GiveUp(j)).backsent = j.backsent
<1> DEFINE a == [j EXCEPT !.status = JOB_GOTANSWER]
<1>1. j \in JobRecord /\ Base(j)
  BY DEF Mid, Base
<1>2. /\ a.status = JOB_GOTANSWER /\ a.server = {}
      /\ a.client = j.client /\ a.reply = j.reply
      /\ a.live /\ ~a.uaf /\ a.errs = {}
      /\ a.key = j.key /\ a.single = j.single /\ a.backsent = j.backsent
  BY <1>1 DEF JobRecord, Mid
<1>3. Base(a) /\ a \in JobRecord
  BY <1>1, StatusBase, JobStatus DEF Base
<1> HIDE DEF a
<1>4. CASE j.status = JOB_EARLYRET
  <2>1. GiveUp(j) = a
    BY <1>4 DEF GiveUp, a
  <2>2. Touch(a) = a
    BY <1>2, <1>3 DEF Touch, JobRecord
  <2>3. CASE a.client.status = CLIENT_RESPONDED
    <3> DEFINE b == [a EXCEPT !.status = JOB_RESPONDED]
    <3>5. Base(b) /\ b \in JobRecord
      BY <1>3, StatusBase, JobStatus DEF Base
    <3>1. /\ b.server = {} /\ b.status = JOB_RESPONDED /\ b.live
          /\ b.client = a.client /\ b.errs = {} /\ b.backsent = j.backsent
      BY <1>2, <1>3 DEF JobRecord
    <3>2. Settle(a) = JobComplete(b)
      BY <1>2, <2>2, <2>3, <3>1 DEF Settle
    <3> HIDE DEF b
    <3>3. /\ JobComplete(b) = [b EXCEPT !.live = FALSE]
          /\ [b EXCEPT !.live = FALSE].live = FALSE
          /\ [b EXCEPT !.live = FALSE].status = b.status
          /\ [b EXCEPT !.live = FALSE].client = b.client
          /\ [b EXCEPT !.live = FALSE].backsent = b.backsent
          /\ Base([b EXCEPT !.live = FALSE])
      BY <3>1, <3>5 DEF JobComplete, Base, JobRecord, ServerInv
    <3>4. j.client.send = "none"
      BY <1>2, <2>3 DEF Mid, MidClient, CLIENT_RESPONDED, CLIENT_RESPONDING
    <3> QED BY <1>2, <2>1, <2>3, <3>1, <3>2, <3>3, <3>4 DEF Torn, Lost
  <2>4. CASE a.client.status # CLIENT_RESPONDED
    <3>1. a.client.status = CLIENT_RESPONDING /\ a.client.send # "none"
          /\ a.reply # "none"
      BY <1>2, <1>4, <2>4 DEF Mid, MidClient, JOB_BEGIN, JOB_REQUESTING,
         JOB_EARLYRET, JOB_NOEARLYRET, JOB_GOTANSWER, CLIENT_RESPONDING,
         CLIENT_WAITING
    <3>2. Settle(a) = a
      BY <1>2, <2>2, <2>4 DEF Settle, JOB_GOTANSWER, JOB_RESPONDED
    <3> QED BY <1>2, <1>3, <2>1, <3>1, <3>2 DEF Torn, Late
  <2> QED BY <2>3, <2>4
<1>5. CASE j.status # JOB_EARLYRET
  <2>1. GiveUp(j) = ClientCancel(a)
    BY <1>5 DEF GiveUp, a
  <2>2. a.client.status = CLIENT_WAITING
    BY <1>2, <1>5 DEF Mid, MidClient, JOB_BEGIN, JOB_REQUESTING,
       JOB_EARLYRET, JOB_NOEARLYRET, JOB_GOTANSWER
  <2> DEFINE k == ClientIn(CLIENT_RESPONDED, "none")
             b == [a EXCEPT !.client = k]
             c == [b EXCEPT !.status = JOB_RESPONDED]
  <2>3. ClientCancel(a) = ClientComplete(b)
    <3>1. a.client.status <= CLIENT_WAITING
      BY <2>2 DEF CLIENT_WAITING
    <3> QED BY <3>1 DEF ClientCancel
  <2>4. k \in ClientRecord /\ k.status = CLIENT_RESPONDED /\ k.send = "none"
    BY ClientInType DEF CLIENT_RESPONDED
  <2> HIDE DEF k
  <2>5. /\ b.status = JOB_GOTANSWER /\ b.server = {} /\ b.live
        /\ b.errs = {} /\ b.client = k /\ Base(b) /\ b \in JobRecord
        /\ b.backsent = j.backsent
    BY <1>2, <1>3, <2>4, ClientBase DEF JobRecord
  <2> HIDE DEF b
  <2>6. /\ Base(c) /\ c.server = {} /\ c.live /\ c.status = JOB_RESPONDED
        /\ c.errs = {} /\ c.client = k /\ c \in JobRecord
        /\ c.backsent = j.backsent
    <3>1. Base(c)
      BY <2>5, StatusBase, JobStatus
    <3> QED BY <2>5, <3>1 DEF JobRecord, Base
  <2>7. ClientComplete(b) = JobComplete(c)
    BY <2>5 DEF ClientComplete, JOB_GOTANSWER, JOB_EARLYRET, JobRecord
  <2> HIDE DEF c
  <2> DEFINE d == [c EXCEPT !.live = FALSE]
  <2>8. JobComplete(c) = d
    BY <2>6 DEF JobComplete, JobRecord
  <2>9. /\ Base(d) /\ ~d.live /\ d.status = JOB_RESPONDED /\ d.client = k
        /\ d.backsent = j.backsent
    BY <2>6 DEF Base, JobRecord, ServerInv
  <2>10. Lost(d)
    BY <2>4, <2>9 DEF Lost
  <2>11. GiveUp(j) = d
    BY <2>1, <2>3, <2>7, <2>8
  <2> HIDE DEF d
  <2>12. Torn(Settle(d), j)
    BY <2>10, SettleLoose DEF Loose
  <2>13. Settle(d).backsent = d.backsent
    BY <2>10 DEF Settle, Touch, JobComplete, Fault, Lost, Base, JobRecord
  <2> QED BY <2>9, <2>11, <2>12, <2>13
<1> QED BY <1>4, <1>5

LEMMA TornIsLoose ==
    ASSUME NEW j, NEW o, Torn(j, o)
    PROVE  Loose(j, o)
BY DEF Torn, Loose

LEMMA BackserversLoose ==
    ASSUME NEW j, Mid(j), j.server = {},
           j.status \in {JOB_REQUESTING, JOB_EARLYRET, JOB_NOEARLYRET},
           NEW F, FirstBack \in F, F \subseteq Server
    PROVE  Loose(SendBackservers(j, F), j)
<1> DEFINE b == [j EXCEPT !.backsent = TRUE]
           r == Remove(b, FirstBack)
           g == Settle(GiveUp(r))
           t == Touch(g)
<1>1. j \in JobRecord /\ Base(j)
  BY DEF Mid, Base
<1>2. /\ b.status = j.status /\ b.client = j.client /\ b.reply = j.reply
      /\ b.live = j.live /\ b.uaf = j.uaf /\ b.errs = j.errs
      /\ b.server = {} /\ b.srv = j.srv /\ b \in JobRecord
      /\ b.backsent /\ b.key = j.key /\ b.single = j.single
  BY <1>1 DEF JobRecord
<1>3. SendBackservers(j, F) = Launch(t, Backs \ {FirstBack}, F)
  BY <1>2 DEF SendBackservers
<1> HIDE DEF b
<1>4. Mid(b)
  BY <1>1, <1>2 DEF Mid, MidClient, Base, ServerInv
<1>5. /\ Mid(r) /\ r.status = j.status /\ r.server = {} /\ r.backsent
      /\ r.reply = j.reply /\ r.key = j.key /\ r.single = j.single
  BY <1>2, <1>4, MidRemoved
<1> HIDE DEF r
<1>6. Torn(g, r) /\ g.backsent
  BY <1>5, GiveUpEnds
<1> HIDE DEF g
<1>7. Loose(g, j)
  BY <1>5, <1>6 DEF Torn, Loose, Late
<1>8. Loose(t, j) /\ t.backsent
  BY <1>6, <1>7, TouchLoose
<1> HIDE DEF t
<1>9. Backs \ {FirstBack} \subseteq Server
  BY DEF Server
<1> QED BY <1>3, <1>8, <1>9, LaunchLoose

-----------------------------------------------------------------------------
(* The handlers.                                                           *)

(* The calls the handlers make.                                            *)
LEMMA ServerCompleteReturns ==
    ASSUME NEW j, Whole(j), NEW s \in j.server, NEW m \in Response,
           NEW F, ~BacksFailAlone(j, s, m, F)
    PROVE  Returned(ServerComplete(j, s, m, F))
<1> DEFINE r == Remove(j, s)
           how == IF m = "invalid" THEN "invalid" ELSE "answer"
<1>1. Mid(r) /\ r.status > JOB_BEGIN
  BY MidRemove
<1>4. j.status \in 0 .. 5 /\ r.status = j.status
      /\ r.server = j.server \ {s} /\ r.backsent = j.backsent
  BY JobFields, MidRemove, RemoveBase DEF Whole, Base, JobRecord, Remove
<1>5. \/ r.status >= JOB_GOTANSWER \/ m \in ValidResponse
      \/ r.server # {} \/ r.backsent \/ FirstBack \notin F
  BY <1>4 DEF BacksFailAlone, JOB_GOTANSWER
<1>2. how \in Reply \ {"none"}
  BY DEF Reply
<1>3. ServerComplete(j, s, m, F) = Answered(r, m, how, F)
  BY DEF ServerComplete
<1> HIDE DEF r, how
<1> QED BY <1>1, <1>2, <1>3, <1>5, AnsweredReturns

LEMMA NoJobType ==
    /\ NoJob \in JobRecord /\ Base(NoJob)
    /\ NoJob.live = FALSE /\ NoJob.server = {} /\ NoJob.client = NewClient
    /\ NoJob.reply = "none" /\ NoJob.status = JOB_BEGIN
    /\ \A s \in Server : NoJob.srv[s] = NewServer
<1>1. NewClient \in ClientRecord
  BY ClientInType DEF NewClient, CLIENT_BEGIN
<1>2. NoJob \in JobRecord
  BY <1>1, AgeType, ConstantRecords DEF NoJob, JobRecord, JOB_BEGIN,
     JOB_RESPONDED, Reply
<1> QED BY <1>2 DEF Base, NoJob, ServerInv

(* A new job enters request() with nothing sent.                           *)
LEMMA NewJobMid ==
    ASSUME NEW k \in Key \cup {NoKey}, NEW one \in BOOLEAN
    PROVE  /\ Mid(NewJob(k, one))
           /\ NewJob(k, one).status = JOB_BEGIN
           /\ NewJob(k, one).server = {}
<1> DEFINE c == ClientIn(CLIENT_WAITING, "none")
           n == NewJob(k, one)
           bs == ~(0 < BackTimeout /\ BackTimeout < Timeout /\ Backs # {})
<1>1. n = [NoJob EXCEPT !.live = TRUE, !.key = k, !.single = one,
                        !.backsent = bs, !.client = c]
  BY DEF NewJob
<1>2. c \in ClientRecord /\ c.status = CLIENT_WAITING /\ c.send = "none"
  BY ClientInType DEF CLIENT_WAITING
<1> HIDE DEF c, n
<1>3. bs \in BOOLEAN
  OBVIOUS
<1> HIDE DEF bs
<1>4. /\ n \in JobRecord /\ n.live /\ n.client = c /\ n.server = {}
      /\ n.status = JOB_BEGIN /\ n.reply = "none" /\ n.srv = NoJob.srv
      /\ n.uaf = NoJob.uaf /\ n.errs = NoJob.errs
  BY <1>1, <1>2, <1>3, NoJobType DEF JobRecord
<1>8. ~n.backsent => Backs # {}
  BY <1>1, NoJobType DEF JobRecord, bs
<1>5. Base(n)
  BY <1>4, <1>8, NoJobType DEF Base, ServerInv
<1>6. MidClient(n)
  BY <1>2, <1>4 DEF MidClient, CLIENT_WAITING, CLIENT_RESPONDING, JOB_BEGIN,
     JOB_REQUESTING, JOB_EARLYRET, JOB_NOEARLYRET, JOB_GOTANSWER
<1>7. n.uaf = FALSE /\ n.errs = {}
  BY <1>4 DEF NoJob
<1> QED BY <1>4, <1>5, <1>6, <1>7 DEF Mid, n

LEMMA LocalCompleteReturns ==
    ASSUME NEW j, Mid(j), NEW how \in {"cache", "hosts"}
    PROVE  Returned(LocalComplete(j, how))
BY AnsweredReturns DEF LocalComplete, ValidResponse, Reply

(* request() leaves the job with its main servers running.                 *)
LEMMA SendServersReturns ==
    ASSUME NEW j, Mid(j), j.status = JOB_BEGIN,
           NEW F, FirstServer \notin F
    PROVE  Returned(SendServers(j, F))
<1> DEFINE r == [j EXCEPT !.status = JOB_REQUESTING]
           l == Launch(r, Main, F)
<1>1. j \in JobRecord /\ Base(j)
  BY DEF Mid, Base
<1>2. /\ r.status = JOB_REQUESTING /\ r.client = j.client
      /\ r.reply = j.reply /\ r.live /\ ~r.uaf /\ r.errs = {}
      /\ r.server = j.server
  BY <1>1 DEF JobRecord, Mid
<1>3. Base(r)
  BY <1>1, StatusBase, JobStatus
<1>4. SendServers(j, F) = l
  BY DEF SendServers
<1> HIDE DEF r
<1>5. Mid(r)
  BY <1>2, <1>3 DEF Mid, MidClient, JOB_BEGIN, JOB_REQUESTING, JOB_EARLYRET,
     JOB_NOEARLYRET, JOB_GOTANSWER
<1>6. /\ Main \subseteq Server /\ FirstServer \in Main \ F
      /\ Main \cap Backs = {}
  BY ServerAssumption DEF Main, Server
<1>9. Mid(l) /\ l.status = r.status /\ l.server = Sent(r, Main, F)
  BY <1>5, <1>6, MidLaunch
<1>7. Mid(l) /\ l.status = JOB_REQUESTING /\ l.server # {}
  BY <1>2, <1>6, <1>9 DEF Sent
<1> HIDE DEF l
<1>8. ClientInv(l)
  BY <1>7 DEF Mid, MidClient, ClientInv, JOB_BEGIN, JOB_REQUESTING,
     JOB_EARLYRET, JOB_NOEARLYRET, JOB_GOTANSWER, JOB_RESPONDED
<1> QED BY <1>4, <1>7, <1>8 DEF Returned, Whole, Mid, Base

(* The reply is sent: the job ends, or waits for its servers.              *)
LEMMA ClientRespondedReturns ==
    ASSUME NEW j, Whole(j), j.client.send # "none"
    PROVE  Returned(ClientResponded(j))
<1> DEFINE a == [j EXCEPT !.client = ClientIn(CLIENT_RESPONDED, "none")]
           b == IF a.status # JOB_EARLYRET \/ a.server = {}
                THEN [a EXCEPT !.status = JOB_RESPONDED] ELSE a
<1>1. j \in JobRecord /\ Base(j) /\ j.status \in 0 .. 5
  BY JobFields DEF Whole, Base
<1>2. /\ j.client.status = CLIENT_RESPONDING
      /\ j.status \in {JOB_GOTANSWER, JOB_EARLYRET}
      /\ j.reply # "none"
  BY <1>1 DEF Whole, ClientInv, JOB_BEGIN, JOB_REQUESTING, JOB_EARLYRET,
     JOB_NOEARLYRET, JOB_GOTANSWER, JOB_RESPONDED, CLIENT_WAITING,
     CLIENT_RESPONDING, CLIENT_RESPONDED
<1>3. ClientIn(CLIENT_RESPONDED, "none") \in ClientRecord
      /\ ClientIn(CLIENT_RESPONDED, "none").status = CLIENT_RESPONDED
      /\ ClientIn(CLIENT_RESPONDED, "none").send = "none"
  BY ClientInType DEF CLIENT_RESPONDED
<1>4. /\ Base(a) /\ a \in JobRecord
      /\ a.client.status = CLIENT_RESPONDED /\ a.client.send = "none"
      /\ a.status = j.status /\ a.server = j.server /\ a.reply = j.reply
      /\ a.live /\ ~a.uaf /\ a.errs = {}
  BY <1>1, <1>3, ClientBase DEF Base, JobRecord, Whole
<1>5. ClientResponded(j) = ClientComplete(a)
  BY <1>2 DEF ClientResponded
<1> HIDE DEF a
<1>6. ClientComplete(a) = IF b.server = {} THEN JobComplete(b) ELSE b
  BY <1>2, <1>4 DEF ClientComplete
<1>7. /\ Base(b) /\ b.client = a.client /\ b.server = a.server
      /\ b.reply = a.reply /\ b.live /\ ~b.uaf /\ b.errs = {}
      /\ IF a.status # JOB_EARLYRET \/ a.server = {}
         THEN b.status = JOB_RESPONDED ELSE b.status = JOB_EARLYRET
  BY <1>4, StatusBase, JobStatus DEF JobRecord
<1> HIDE DEF b
<1>8. CASE b.server = {}
  BY <1>5, <1>6, <1>7, <1>8, JobCompleteReturns
<1>9. CASE b.server # {}
  <2>1. ClientInv(b)
    BY <1>2, <1>4, <1>7, <1>9 DEF ClientInv, JOB_REQUESTING, JOB_EARLYRET,
       JOB_NOEARLYRET, JOB_GOTANSWER, JOB_RESPONDED, CLIENT_WAITING,
       CLIENT_RESPONDING, CLIENT_RESPONDED
  <2> QED BY <1>5, <1>6, <1>7, <1>9, <2>1 DEF Returned, Whole, Base
<1> QED BY <1>8, <1>9

(* The parts of a heartbeat change a whole job into a whole job.           *)
LEMMA WholeMid ==
    ASSUME NEW j, Whole(j)
    PROVE  /\ Mid(j)
           /\ j.status \in {JOB_REQUESTING, JOB_EARLYRET, JOB_NOEARLYRET} =>
                j.server # {}
BY JobFields DEF Whole, Mid, Base, ClientInv, MidClient, JOB_BEGIN,
   JOB_REQUESTING, JOB_EARLYRET, JOB_NOEARLYRET, JOB_GOTANSWER, JOB_RESPONDED

(* An early return replies to a client that waits.                         *)
LEMMA EarlyReturnWhole ==
    ASSUME NEW j, Whole(j), NEW e \in BOOLEAN
    PROVE  Whole(EarlyReturn(j, e))
<1>1. j \in JobRecord /\ Base(j) /\ Mid(j)
  BY WholeMid DEF Whole, Base
<1>2. CASE ~(j.status = JOB_REQUESTING /\ 0 < EarlyTimeout /\ j.age > EarlyTimeout)
  BY <1>2 DEF EarlyReturn
<1>3. CASE j.status = JOB_REQUESTING /\ 0 < EarlyTimeout /\ j.age > EarlyTimeout
  <2>1. j.server # {} /\ j.client.status = CLIENT_WAITING
    BY <1>3, WholeMid DEF Whole, ClientInv, JOB_REQUESTING, JOB_EARLYRET,
       JOB_NOEARLYRET, JOB_GOTANSWER, JOB_RESPONDED
  <2>2. CASE j.single /\ e
    <3> DEFINE a == [j EXCEPT !.status = JOB_EARLYRET]
               r == ClientResponse(a, "early")
    <3>1. EarlyReturn(j, e) = r
      BY <1>3, <2>2 DEF EarlyReturn
    <3>2. /\ a.status = JOB_EARLYRET /\ a.server # {}
          /\ a.client.status = CLIENT_WAITING
          /\ a.live /\ ~a.uaf /\ a.errs = {}
      BY <1>1, <2>1 DEF JobRecord, Mid
    <3>3. Base(a)
      BY <1>1, StatusBase, JobStatus
    <3> HIDE DEF a
    <3>4. Mid(r) /\ r.status = JOB_EARLYRET /\ r.server # {}
      BY <3>2, <3>3, MidResponse DEF Reply
    <3> HIDE DEF r
    <3> QED BY <3>1, <3>4 DEF Mid, MidClient, Whole, ClientInv, JOB_BEGIN,
              JOB_REQUESTING, JOB_EARLYRET, JOB_NOEARLYRET, JOB_GOTANSWER,
              JOB_RESPONDED
  <2>3. CASE ~(j.single /\ e)
    <3> DEFINE r == [j EXCEPT !.status = JOB_NOEARLYRET]
    <3>1. EarlyReturn(j, e) = r
      BY <1>3, <2>3 DEF EarlyReturn
    <3>2. /\ r.status = JOB_NOEARLYRET /\ r.server = j.server
          /\ r.client = j.client /\ r.reply = j.reply
          /\ r.live /\ ~r.uaf /\ r.errs = {}
      BY <1>1 DEF JobRecord, Mid
    <3>3. Base(r)
      BY <1>1, StatusBase, JobStatus
    <3> HIDE DEF r
    <3> QED BY <1>3, <2>1, <3>1, <3>2, <3>3 DEF Whole, ClientInv,
              JOB_REQUESTING, JOB_EARLYRET, JOB_NOEARLYRET, JOB_GOTANSWER,
              JOB_RESPONDED
  <2> QED BY <2>2, <2>3
<1> QED BY <1>2, <1>3

(* The heartbeat may launch the back servers.                              *)
LEMMA BackHeartBeatWhole ==
    ASSUME NEW j, Whole(j), NEW F
    PROVE  Whole(BackHeartBeat(j, F))
<1> DEFINE r == SendBackservers(j, F)
           C == /\ ~j.backsent
                /\ JOB_REQUESTING <= j.status /\ j.status < JOB_GOTANSWER
                /\ 0 < BackTimeout /\ BackTimeout < j.age /\ j.age < Timeout
<1>1. BackHeartBeat(j, F) = IF C THEN r ELSE j
  BY DEF BackHeartBeat
<1>2. ~j.backsent /\ j.server # {} =>
        Mid(r) /\ r.status = j.status /\ r.server # {}
  BY WholeMid, MidBackservers
<1>3. C => j.status \in {JOB_REQUESTING, JOB_EARLYRET, JOB_NOEARLYRET}
           /\ j.server # {} /\ ~j.backsent
  BY WholeMid, JobFields DEF Whole, Base, JOB_REQUESTING, JOB_EARLYRET,
     JOB_NOEARLYRET, JOB_GOTANSWER
<1> HIDE DEF r, C
<1>4. CASE C
  <2>1. ClientInv(r)
    BY <1>2, <1>3, <1>4 DEF Mid, MidClient, ClientInv, JOB_BEGIN,
       JOB_REQUESTING, JOB_EARLYRET, JOB_NOEARLYRET, JOB_GOTANSWER,
       JOB_RESPONDED
  <2> QED BY <1>1, <1>2, <1>3, <1>4, <2>1 DEF Whole, Mid
<1> QED BY <1>1, <1>4

(* The heartbeat cancels servers without ending them.                      *)
LEMMA ServersHeartBeatWhole ==
    ASSUME NEW j, Whole(j)
    PROVE  Whole(ServersHeartBeat(j))
<1> DEFINE S == {s \in j.server :
                   /\ j.srv[s].status \in {SERVER_SENDING, SERVER_WAITING}
                   /\ j.srv[s].age > Timeout}
           r == CancelServers(j, S)
<1>1. Mid(r) /\ r.status = j.status /\ r.server = j.server
      /\ r.client = j.client /\ r.reply = j.reply
  BY WholeMid, MidCancel
<1>2. ServersHeartBeat(j) = r
  BY DEF ServersHeartBeat
<1> HIDE DEF r
<1>3. ClientInv(r)
  BY <1>1 DEF Whole, ClientInv
<1> QED BY <1>1, <1>2, <1>3 DEF Whole, Mid

(* The heartbeat closes the socket of a client being replied to, which its *)
(* handler will find out later.                                            *)
LEMMA ClientHeartBeatWhole ==
    ASSUME NEW j, Whole(j)
    PROVE  Whole(ClientHeartBeat(j))
<1>1. j \in JobRecord /\ Base(j) /\ j.client \in ClientRecord
  BY JobFields DEF Whole, Base
<1>2. CASE ~(j.client.status = CLIENT_RESPONDING /\ j.client.age > Timeout)
  BY <1>2 DEF ClientHeartBeat
<1>3. CASE j.client.status = CLIENT_RESPONDING /\ j.client.age > Timeout
  <2> DEFINE c == [j.client EXCEPT !.send = Aborted(j.client.send)]
             r == [j EXCEPT !.client = c]
  <2>1. ClientHeartBeat(j) = r
    <3>1. ClientHeartBeat(j) = [j EXCEPT !.client.send = Aborted(@)]
      BY <1>3 DEF ClientHeartBeat, ClientCancel, CLIENT_WAITING,
         CLIENT_RESPONDING
    <3> QED BY <1>1, <3>1 DEF JobRecord, ClientRecord
  <2>2. c \in ClientRecord /\ c.status = j.client.status
        /\ (c.send = "none" <=> j.client.send = "none")
    BY <1>1 DEF ClientRecord, Aborted, Result
  <2> HIDE DEF c
  <2>3. Base(r)
    BY <1>1, <2>2, ClientBase
  <2>4. /\ r.status = j.status /\ r.server = j.server /\ r.client = c
        /\ r.reply = j.reply /\ r.live = j.live /\ r.uaf = j.uaf
        /\ r.errs = j.errs
    BY <1>1 DEF JobRecord
  <2> HIDE DEF r
  <2>5. ClientInv(r)
    BY <2>2, <2>4 DEF Whole, ClientInv
  <2> QED BY <2>1, <2>3, <2>4, <2>5 DEF Whole
<1> QED BY <1>2, <1>3

(* The whole heartbeat of a job.                                           *)
LEMMA HeartBeatWhole ==
    ASSUME NEW j, Whole(j), NEW e \in BOOLEAN, NEW F
    PROVE  Whole(HeartBeat(j, e, F))
<1>1. Whole(EarlyReturn(j, e))
  BY EarlyReturnWhole
<1>2. Whole(BackHeartBeat(EarlyReturn(j, e), F))
  BY <1>1, BackHeartBeatWhole
<1>3. Whole(ServersHeartBeat(BackHeartBeat(EarlyReturn(j, e), F)))
  BY <1>2, ServersHeartBeatWhole
<1> QED BY <1>3, ClientHeartBeatWhole DEF HeartBeat

(* A server's record that changes without a change of the two fields       *)
(* ServerInv looks at, or to the next operation.                           *)
LEMMA SrvOp ==
    ASSUME NEW j, Base(j), NEW s \in j.server, NEW v \in ServerRecord,
           \/ /\ v.status = SERVER_SENDING
              /\ v.op \in IF s \in Udp THEN {"send"} ELSE {"connect", "write"}
           \/ /\ v.status = SERVER_WAITING
              /\ v.op \in IF s \in Udp THEN {"peek", "recv"} ELSE {"read"},
           NEW r, r = [j EXCEPT !.srv[s] = v]
    PROVE  /\ Base(r)
           /\ r.status = j.status /\ r.server = j.server /\ r.client = j.client
           /\ r.reply = j.reply /\ r.live = j.live /\ r.uaf = j.uaf
           /\ r.errs = j.errs
<1> DEFINE f == [j.srv EXCEPT ![s] = v]
           q == [j EXCEPT !.srv = f]
<1>1. /\ j \in JobRecord /\ s \in Server
      /\ j.srv \in [Server -> ServerRecord] /\ j.server \in SUBSET Server
  BY JobFields DEF Base
<1>2. f \in [Server -> ServerRecord]
  BY <1>1
<1>3. \A t \in Server : ServerInv(j, t) /\ f[t] = IF t = s THEN v ELSE j.srv[t]
  BY <1>1 DEF Base
<1>4. r = q
  BY <1>1 DEF JobRecord
<1> HIDE DEF f
<1>9. j.backsent \/ j.server \cap Backs = {}
  BY <1>1 DEF Base
<1>5. Base([j EXCEPT !.server = j.server, !.srv = f])
  BY <1>1, <1>2, <1>3, <1>9, SrvBase DEF ServerInv
<1>6. [j EXCEPT !.server = j.server, !.srv = f] = q
  BY <1>1 DEF JobRecord
<1>7. /\ q.status = j.status /\ q.server = j.server /\ q.client = j.client
      /\ q.reply = j.reply /\ q.live = j.live /\ q.uaf = j.uaf
      /\ q.errs = j.errs
  BY <1>1 DEF JobRecord
<1> QED BY <1>4, <1>5, <1>6, <1>7

LEMMA SrvWhole ==
    ASSUME NEW j, Whole(j), NEW s \in j.server, NEW v \in ServerRecord,
           \/ /\ v.status = SERVER_SENDING
              /\ v.op \in IF s \in Udp THEN {"send"} ELSE {"connect", "write"}
           \/ /\ v.status = SERVER_WAITING
              /\ v.op \in IF s \in Udp THEN {"peek", "recv"} ELSE {"read"}
    PROVE  Whole([j EXCEPT !.srv[s] = v])
<1> DEFINE r == [j EXCEPT !.srv[s] = v]
<1>1. Base(j)
  BY DEF Whole
<1>2. r = [j EXCEPT !.srv[s] = v]
  OBVIOUS
<1> HIDE DEF r
<1>3. /\ Base(r)
      /\ r.status = j.status /\ r.server = j.server /\ r.client = j.client
      /\ r.reply = j.reply /\ r.live = j.live /\ r.uaf = j.uaf
      /\ r.errs = j.errs
  BY <1>1, <1>2, SrvOp
<1> QED BY <1>3 DEF Whole, ClientInv, r

LEMMA SrvGhost ==
    ASSUME NEW j, Ghost(j), NEW s \in j.server, NEW v \in ServerRecord,
           \/ /\ v.status = SERVER_SENDING
              /\ v.op \in IF s \in Udp THEN {"send"} ELSE {"connect", "write"}
           \/ /\ v.status = SERVER_WAITING
              /\ v.op \in IF s \in Udp THEN {"peek", "recv"} ELSE {"read"}
    PROVE  Ghost([j EXCEPT !.srv[s] = v])
<1> DEFINE r == [j EXCEPT !.srv[s] = v]
<1>1. Base(j)
  BY DEF Ghost, Lost
<1>2. r = [j EXCEPT !.srv[s] = v]
  OBVIOUS
<1> HIDE DEF r
<1>3. /\ Base(r)
      /\ r.status = j.status /\ r.server = j.server /\ r.client = j.client
      /\ r.reply = j.reply /\ r.live = j.live /\ r.uaf = j.uaf
      /\ r.errs = j.errs
  BY <1>1, <1>2, SrvOp
<1> QED BY <1>3 DEF Ghost, Lost, r

(* Time changes nothing but the ages.                                      *)
LEMMA AgedWhole ==
    ASSUME NEW j, Whole(j)
    PROVE  Whole(Aged(j))
<1> DEFINE c == IF j.client.status = CLIENT_RESPONDING
                THEN Aging(j.client) ELSE j.client
           f == [s \in Server |->
                   IF s \in j.server THEN Aging(j.srv[s]) ELSE j.srv[s]]
           a == [j EXCEPT !.server = j.server, !.srv = f]
           b == [a EXCEPT !.client = c]
           r == [b EXCEPT !.age = Older(j.age)]
<1>1. /\ j \in JobRecord /\ Base(j) /\ j.age \in Age
      /\ j.srv \in [Server -> ServerRecord] /\ j.server \in SUBSET Server
      /\ j.client \in ClientRecord
  BY JobFields DEF Whole, Base, JobRecord
<1>2. Aged(j) = r
  <2>1. Aged(j) = [j EXCEPT !.age = Older(j.age), !.client = c, !.srv = f]
    BY DEF Aged
  <2> HIDE DEF c, f
  <2> QED BY <1>1, <2>1 DEF JobRecord
<1>3. c \in ClientRecord /\ c.status = j.client.status /\ c.send = j.client.send
  BY <1>1, OlderType DEF Aging, ClientRecord
<1>4. ASSUME NEW v \in ServerRecord
      PROVE  /\ Aging(v) \in ServerRecord
             /\ Aging(v).status = v.status
             /\ Aging(v).op = v.op
  BY OlderType DEF Aging, ServerRecord
<1>5. f \in [Server -> ServerRecord]
  BY <1>1, <1>4
<1>6. ASSUME NEW t \in Server
      PROVE  /\ ServerInv(j, t)
             /\ IF t \in j.server
                THEN f[t].status = j.srv[t].status /\ f[t].op = j.srv[t].op
                ELSE f[t] = j.srv[t]
  BY <1>1, <1>4 DEF Base
<1> HIDE DEF c, f
<1>13. j.backsent \/ j.server \cap Backs = {}
  BY <1>1 DEF Base
<1>7. Base(a)
  BY <1>1, <1>5, <1>6, <1>13, SrvBase DEF ServerInv
<1>8. Base(b)
  BY <1>3, <1>7, ClientBase
<1>9. /\ b.status = j.status /\ b.server = j.server /\ b.client = c
      /\ b.reply = j.reply /\ b.live = j.live /\ b.uaf = j.uaf
      /\ b.errs = j.errs /\ b \in JobRecord
  BY <1>1, <1>8 DEF JobRecord, Base
<1>12. /\ r.status = b.status /\ r.server = b.server /\ r.client = b.client
       /\ r.reply = b.reply /\ r.live = b.live /\ r.uaf = b.uaf
       /\ r.errs = b.errs /\ r.srv = b.srv /\ r \in JobRecord
       /\ r.backsent = b.backsent
  <2> HIDE DEF a, b
  <2> QED BY <1>1, <1>9, OlderType DEF JobRecord
<1> HIDE DEF a, b, r
<1>10. Base(r)
  BY <1>8, <1>12 DEF Base, ServerInv
<1>11. ClientInv(r)
  BY <1>3, <1>9, <1>12 DEF Whole, ClientInv
<1> QED BY <1>2, <1>9, <1>10, <1>11, <1>12 DEF Whole

LEMMA CancelNone ==
    ASSUME NEW j, NEW o, Loose(j, o), j.server = {}
    PROVE  Loose(CancelServers(j, j.server), o)
<1> DEFINE r == CancelServers(j, j.server)
<1>1. Base(j) /\ j \in JobRecord
  BY DEF Loose, Lost, Late, Base
<1>2. PICK f : r = [j EXCEPT !.srv = f]
  BY <1>1, CancelBase
<1>3. Base(r)
  BY <1>1, CancelBase
<1> HIDE DEF r
<1>4. /\ r.status = j.status /\ r.client = j.client /\ r.reply = j.reply
      /\ r.live = j.live /\ r.uaf = j.uaf /\ r.key = j.key
      /\ r.single = j.single
  BY <1>1, <1>2 DEF JobRecord
<1>5. Loose(r, o)
  BY <1>3, <1>4 DEF Loose, Lost, Late
<1> QED BY <1>5 DEF r

(* serverComplete for the last server, when the first back server fails.   *)
LEMMA AnsweredLoose ==
    ASSUME NEW j, Mid(j), j.server = {}, ~j.backsent,
           j.status \in {JOB_REQUESTING, JOB_EARLYRET, JOB_NOEARLYRET},
           NEW m, m \notin ValidResponse, NEW how,
           NEW F, FirstBack \in F, F \subseteq Server
    PROVE  Torn(Answered(j, m, how, F), j)
<1> DEFINE b == SendBackservers(j, F)
           c == [b EXCEPT !.status = JOB_GOTANSWER]
           d == IF b.status = JOB_EARLYRET THEN c ELSE ClientResponse(c, how)
           a == IF m # "none" THEN Deliver(j, m, how, F) ELSE NoAnswer(j, F)
<1>1. Loose(b, j)
  BY BackserversLoose
<1>2. Answered(j, m, how, F) = Settle(a)
  BY DEF Answered, JOB_REQUESTING, JOB_EARLYRET, JOB_NOEARLYRET, JOB_GOTANSWER
<1>3. Deliver(j, m, how, F) =
        IF b.server = {} THEN CancelServers(d, d.server) ELSE b
  BY DEF Deliver
<1>4. NoAnswer(j, F) = IF b.server = {} THEN GiveUp(b) ELSE b
  BY DEF NoAnswer
<1> HIDE DEF b, a
<1>5. CASE m = "none" \/ b.server # {}
  <2>1. Loose(GiveUp(b), j)
    BY <1>1, GiveUpLoose
  <2>2. Loose(a, j)
    BY <1>1, <1>3, <1>4, <1>5, <2>1 DEF a
  <2> QED BY <1>2, <2>2, SettleLoose
<1>6. CASE m # "none" /\ b.server = {}
  <2>1. Loose(c, j) /\ c.server = {}
    BY <1>1, <1>6, StatusLoose
  <2>2. c.client.status # CLIENT_WAITING /\ b.status # JOB_EARLYRET
    BY <1>1, <2>1 DEF Loose, Lost, Late, CLIENT_WAITING, CLIENT_RESPONDING,
       CLIENT_RESPONDED, JOB_GOTANSWER, JOB_EARLYRET, JOB_RESPONDED
  <2> HIDE DEF c
  <2>3. d = Fault(c, "client status")
    BY <2>2 DEF ClientResponse
  <2> HIDE DEF d
  <2>4. Loose(d, j) /\ d.server = {}
    BY <2>1, <2>3, FaultLoose DEF InternalError
  <2>5. Loose(CancelServers(d, d.server), j)
    BY <2>4, CancelNone
  <2>6. a = CancelServers(d, d.server)
    BY <1>3, <1>6 DEF a
  <2> QED BY <1>2, <2>5, <2>6, SettleLoose
<1> QED BY <1>5, <1>6

LEMMA ServerCompleteTorn ==
    ASSUME NEW j, Whole(j), NEW s \in j.server, NEW m \in Response,
           NEW F, F \subseteq Server, BacksFailAlone(j, s, m, F)
    PROVE  Torn(ServerComplete(j, s, m, F), j)
<1> DEFINE r == Remove(j, s)
           how == IF m = "invalid" THEN "invalid" ELSE "answer"
<1>1. Mid(r) /\ r.status > JOB_BEGIN /\ r.status = j.status
  BY MidRemove
<1>2. s \in Server /\ Mid(j) /\ j.status \in 0 .. 5
  BY WholeMid, JobFields DEF Whole, Base
<1>3. /\ r.server = {} /\ ~r.backsent
      /\ r.reply = j.reply /\ r.key = j.key /\ r.single = j.single
  BY <1>2, MidRemoved DEF BacksFailAlone
<1>4. ServerComplete(j, s, m, F) = Answered(r, m, how, F)
  BY DEF ServerComplete
<1>5. r.status \in {JOB_REQUESTING, JOB_EARLYRET, JOB_NOEARLYRET}
  BY <1>1, <1>2 DEF BacksFailAlone, JOB_BEGIN, JOB_REQUESTING, JOB_EARLYRET,
     JOB_NOEARLYRET, JOB_GOTANSWER
<1> HIDE DEF r, how
<1>6. Torn(Answered(r, m, how, F), r)
  BY <1>1, <1>3, <1>5, AnsweredLoose DEF BacksFailAlone
<1> QED BY <1>3, <1>4, <1>6 DEF Torn, Late

(* serverComplete of a server a deleted job has left behind.               *)
LEMMA GhostCompletes ==
    ASSUME NEW j, Ghost(j), NEW s \in j.server, NEW m, NEW F
    PROVE  /\ Torn(ServerComplete(j, s, m, F), j)
           /\ ~ServerComplete(j, s, m, F).live
<1> DEFINE r == Remove(j, s)
           how == IF m = "invalid" THEN "invalid" ELSE "answer"
<1>1. s \in Server /\ Base(j) /\ j \in JobRecord
  BY JobFields DEF Ghost, Lost, Base
<1>2. Base(r) /\ r = [j EXCEPT !.server = j.server \ {s},
                               !.srv = [j.srv EXCEPT ![s] = DoneServer]]
  BY <1>1, RemoveBase
<1>4. ServerComplete(j, s, m, F) = Answered(r, m, how, F)
  BY DEF ServerComplete
<1> HIDE DEF r, how
<1>3. r.status = j.status /\ r.live = j.live /\ r.client = j.client
  BY <1>1, <1>2 DEF JobRecord
<1>5. Loose(r, j)
  BY <1>2, <1>3 DEF Ghost, Lost, Loose
<1>6. Answered(r, m, how, F) = Settle(r)
  BY <1>3 DEF Answered, Ghost, JOB_RESPONDED, JOB_GOTANSWER
<1>7. ~Settle(r).live
  <2> DEFINE t == Touch(r)
             a == IF t.status = JOB_GOTANSWER
                       /\ t.client.status = CLIENT_RESPONDED
                  THEN [t EXCEPT !.status = JOB_RESPONDED] ELSE t
  <2>1. t \in JobRecord /\ ~t.live
    BY <1>2, <1>3 DEF Ghost, Lost, Touch, Base, JobRecord
  <2> HIDE DEF t
  <2>2. a \in JobRecord /\ ~a.live
    BY <2>1 DEF JobRecord, JOB_BEGIN, JOB_RESPONDED
  <2>3. Settle(r) = IF a.server = {} /\ a.status = JOB_RESPONDED
                    THEN JobComplete(a) ELSE a
    BY DEF Settle, t
  <2> HIDE DEF a
  <2>4. ~JobComplete(a).live
    BY <2>2 DEF JobComplete, Fault, JobRecord
  <2> QED BY <2>2, <2>3, <2>4
<1> QED BY <1>4, <1>5, <1>6, <1>7, SettleLoose

(* What a change of the servers leaves alone.                              *)
Others(j, r) ==
    /\ r.status = j.status /\ r.reply = j.reply /\ r.age = j.age
    /\ r.live = j.live /\ r.client = j.client
    /\ r.key = j.key /\ r.single = j.single

LEMMA LaunchFields ==
    ASSUME NEW j \in JobRecord, NEW S \in SUBSET Server, NEW F
    PROVE  /\ Others(j, Launch(j, S, F))
           /\ Launch(j, S, F).backsent = j.backsent
           /\ Launch(j, S, F).server = Sent(j, S, F)
           /\ \A t \in Server : Launch(j, S, F).srv[t] =
                IF t \in S \cap F THEN DoneServer
                ELSE IF t \in S THEN SentServer(t) ELSE j.srv[t]
BY DEF Launch, Others, JobRecord, Sent

(* request(), when the first server fails.                                 *)
LEMMA SendServersTorn ==
    ASSUME NEW j, Mid(j), j.status = JOB_BEGIN, j.server = {},
           NEW F, FirstServer \in F, F \subseteq Server
    PROVE  LET r == SendServers(j, F)
           IN  \/ Torn(r, j)
               \/ /\ Returned(r) /\ r.live /\ r.status = JOB_REQUESTING
                  /\ r.reply = j.reply /\ r.key = j.key /\ r.single = j.single
<1> DEFINE q == [j EXCEPT !.status = JOB_REQUESTING]
           r == Remove(q, FirstServer)
           n == NoAnswer(r, F)
           t == Touch(Settle(n))
           l == Launch(t, Main \ {FirstServer}, F)
<1>1. j \in JobRecord /\ Base(j)
  BY DEF Mid, Base
<1>2. /\ q.status = JOB_REQUESTING /\ q.client = j.client
      /\ q.reply = j.reply /\ q.live /\ ~q.uaf /\ q.errs = {}
      /\ q.server = {} /\ q.key = j.key /\ q.single = j.single
  BY <1>1 DEF JobRecord, Mid
<1>3. Base(q)
  BY <1>1, StatusBase, JobStatus
<1>4. SendServers(j, F) = l
  BY DEF SendServers
<1> HIDE DEF q
<1>5. Mid(q)
  BY <1>2, <1>3 DEF Mid, MidClient, JOB_BEGIN, JOB_REQUESTING, JOB_EARLYRET,
     JOB_NOEARLYRET, JOB_GOTANSWER
<1>10. FirstServer \in Server
  BY ServerAssumption DEF Main, Server
<1>6. /\ Mid(r) /\ r.status = JOB_REQUESTING /\ r.server = {}
      /\ r.reply = j.reply /\ r.key = j.key /\ r.single = j.single
  BY <1>2, <1>5, <1>10, MidRemoved
<1> HIDE DEF r
<1>7. /\ Main \ {FirstServer} \subseteq Server
      /\ (Main \ {FirstServer}) \cap Backs = {}
  BY ServerAssumption DEF Main, Server
<1>8. CASE r.backsent \/ FirstBack \in F
  <2>1. ASSUME r.backsent PROVE Torn(Settle(n), r)
    <3>1. n = GiveUp(r)
      BY <1>6, <2>1 DEF NoAnswer
    <3> HIDE DEF n
    <3> QED BY <1>6, <3>1, GiveUpEnds
  <2>2. ASSUME ~r.backsent, FirstBack \in F PROVE Torn(Settle(n), r)
    <3> DEFINE b == SendBackservers(r, F)
    <3>1. Loose(b, r)
      BY <1>6, <2>2, BackserversLoose
    <3>2. n = IF b.server = {} THEN GiveUp(b) ELSE b
      BY <2>2 DEF NoAnswer
    <3> HIDE DEF b, n
    <3>3. Loose(n, r)
      BY <3>1, <3>2, GiveUpLoose
    <3> QED BY <3>3, SettleLoose
  <2>3. Torn(Settle(n), r)
    BY <1>8, <2>1, <2>2
  <2> HIDE DEF n
  <2>4. Torn(Settle(n), j)
    BY <1>6, <2>3 DEF Torn, Late
  <2>5. Torn(t, j)
    BY <2>4, TouchLoose DEF Torn, Loose, Lost, Late
  <2> HIDE DEF t
  <2>6. Loose(l, j) /\ l.status = t.status /\ l.live = t.live
    BY <1>7, <2>5, TornIsLoose, LaunchLoose
  <2> HIDE DEF l
  <2> QED BY <1>4, <2>5, <2>6 DEF Torn, Loose, Lost, Late
<1>9. CASE ~r.backsent /\ FirstBack \notin F
  <2> DEFINE b == SendBackservers(r, F)
  <2>1. Mid(b) /\ b.status = JOB_REQUESTING
    BY <1>6, <1>9, MidBackservers
  <2>2. b.server \cap Backs # {}
    <3>1. b = Launch([r EXCEPT !.backsent = TRUE], Backs, F)
      BY <1>9 DEF SendBackservers
    <3>2. r \in JobRecord
      BY <1>6 DEF Mid, Base
    <3>3. b.server = Sent(r, Backs, F)
      BY <3>1, <3>2 DEF Launch, Sent, JobRecord
    <3> HIDE DEF b
    <3>4. FirstBack \in Backs
      BY <1>6, <1>9, ServerAssumption DEF Backs, Mid, Base
    <3> QED BY <1>9, <3>3, <3>4 DEF Sent
  <2>3. n = b
    BY <1>9, <2>2 DEF NoAnswer
  <2>9. Others(r, b)
    <3> DEFINE c == [r EXCEPT !.backsent = TRUE]
    <3>1. b = Launch(c, Backs, F)
      BY <1>9 DEF SendBackservers
    <3>2. c \in JobRecord /\ Others(r, c)
      BY <1>6 DEF Mid, Base, JobRecord, Others
    <3>3. Backs \in SUBSET Server
      BY DEF Server
    <3> HIDE DEF b, c
    <3>4. Others(c, b)
      BY <3>1, <3>2, <3>3, LaunchFields
    <3> QED BY <3>2, <3>4 DEF Others
  <2> HIDE DEF b, n
  <2>4. Settle(n) = n /\ Touch(n) = n
    BY <2>1, <2>3 DEF Settle, Touch, Mid, Base, JobRecord, JOB_REQUESTING,
       JOB_GOTANSWER, JOB_RESPONDED
  <2>5. t = n
    BY <2>4
  <2> HIDE DEF t
  <2>6. Mid(l) /\ l.status = JOB_REQUESTING
        /\ l.server = Sent(t, Main \ {FirstServer}, F)
    BY <1>7, <2>1, <2>3, <2>5, MidLaunch
  <2>10. Others(t, l)
    <3>1. t \in JobRecord /\ Main \ {FirstServer} \in SUBSET Server
      BY <1>7, <2>1, <2>3, <2>5 DEF Mid, Base
    <3> QED BY <3>1, LaunchFields
  <2>7. l.server # {}
    <3>1. Main \cap Backs = {}
      BY ServerAssumption
    <3> QED BY <2>2, <2>3, <2>5, <2>6, <3>1 DEF Sent
  <2> HIDE DEF l
  <2>8. ClientInv(l)
    BY <2>6, <2>7 DEF Mid, MidClient, ClientInv, JOB_BEGIN, JOB_REQUESTING,
       JOB_EARLYRET, JOB_NOEARLYRET, JOB_GOTANSWER, JOB_RESPONDED
  <2>11. l.reply = j.reply /\ l.key = j.key /\ l.single = j.single
    BY <1>6, <2>3, <2>5, <2>9, <2>10 DEF Others
  <2> QED BY <1>4, <2>6, <2>7, <2>8, <2>11 DEF Returned, Whole, Mid, Base
<1> QED BY <1>8, <1>9

-----------------------------------------------------------------------------
(* The inductive invariant: between two handlers every job of m_jobs is    *)
(* whole, and nothing is left of the others, except servers of a job that  *)
(* was deleted in the middle of the loop that launched them.               *)
Tidy(j, torn) == j = NoJob \/ Whole(j) \/ (torn /\ Ghost(j))

Inv ==
    /\ jobs \in [Job -> JobRecord]
    /\ cache \in [Key -> CacheState]
    /\ proc \in {"up", "stopped", "crashed"}
    /\ errs \subseteq InternalError
    /\ alone = {} => errs \subseteq {"job ptr"}
    /\ alone \subseteq Job
    /\ \A i \in Job : Tidy(jobs[i], i \in alone)

(* The invariant holds initially.                                          *)
LEMMA InvInit == Init => Inv
<1> SUFFICES ASSUME Init PROVE Inv
  OBVIOUS
<1>1. jobs = [i \in Job |-> NoJob] /\ jobs \in [Job -> JobRecord]
  BY NoJobType DEF Init
<1>2. cache \in [Key -> CacheState]
  BY DEF Init, CacheState
<1> QED BY <1>1, <1>2 DEF Init, Inv, Tidy

(* What is left of a job between handlers.                                 *)
LEMMA AtRestType ==
    ASSUME NEW r, Returned(r)
    PROVE  /\ AtRest(r) \in JobRecord
           /\ AtRest(r) = NoJob \/ Whole(AtRest(r))
<1>1. CASE Whole(r)
  <2>1. AtRest(r) = r
    BY <1>1 DEF AtRest, Whole, Base, JobRecord
  <2> QED BY <1>1, <2>1 DEF Whole, Base
<1>2. CASE ~r.live /\ r.server = {}
  BY <1>2, NoJobType DEF AtRest
<1> QED BY <1>1, <1>2 DEF Returned

LEMMA AtRestTorn ==
    ASSUME NEW r, NEW o, Torn(r, o)
    PROVE  /\ AtRest(r) \in JobRecord
           /\ Tidy(AtRest(r), TRUE)
<1> DEFINE a == [r EXCEPT !.uaf = FALSE, !.errs = {}]
<1>1. r \in JobRecord /\ Base(r)
  BY DEF Torn, Lost, Late, Base
<1>2. /\ a.live = r.live /\ a.status = r.status /\ a.server = r.server
      /\ a.client = r.client /\ a.reply = r.reply /\ a.srv = r.srv
      /\ a.backsent = r.backsent /\ a.uaf = FALSE /\ a.errs = {}
      /\ a \in JobRecord
  BY <1>1 DEF JobRecord
<1>3. AtRest(r) = IF r.live \/ r.server # {} THEN a ELSE NoJob
  BY DEF AtRest
<1> HIDE DEF a
<1>4. Base(a)
  BY <1>1, <1>2 DEF Base, ServerInv
<1>5. CASE Lost(r) /\ r.status = JOB_RESPONDED
  <2>1. r.server # {} => Ghost(a)
    BY <1>2, <1>4, <1>5 DEF Ghost, Lost
  <2> QED BY <1>2, <1>3, <1>5, <2>1, NoJobType DEF Lost, Tidy
<1>6. CASE Late(r, o)
  <2>1. ClientInv(a)
    BY <1>2, <1>6 DEF Late, ClientInv, JOB_REQUESTING, JOB_EARLYRET,
       JOB_NOEARLYRET, JOB_GOTANSWER, JOB_RESPONDED, CLIENT_WAITING,
       CLIENT_RESPONDING, CLIENT_RESPONDED
  <2> QED BY <1>2, <1>3, <1>4, <1>6, <2>1 DEF Late, Tidy, Whole
<1> QED BY <1>5, <1>6 DEF Torn

(* A handler that leaves its job whole or deleted keeps the invariant,     *)
(* whatever freed memory it touched.                                       *)
LEMMA ReturnInv ==
    ASSUME Inv, NEW i \in Job, NEW r, NEW o, Return(i, r),
           Returned(r) \/ (i \in alone' /\ Torn(r, o)),
           cache' \in [Key -> CacheState],
           alone' \subseteq Job, alone \ {i} \subseteq alone'
    PROVE  Inv'
<1>1. jobs' = [jobs EXCEPT ![i] = AtRest(r)]
  BY DEF Return
<1>4. AtRest(r) \in JobRecord /\ Tidy(AtRest(r), i \in alone')
  <2>1. CASE Returned(r)
    BY <2>1, AtRestType DEF Tidy
  <2>2. CASE i \in alone' /\ Torn(r, o)
    BY <2>2, AtRestTorn
  <2> QED BY <2>1, <2>2
<1>5. ASSUME NEW k \in Job, k # i
      PROVE  Tidy(jobs[k], k \in alone')
  BY <1>5 DEF Inv, Tidy
<1>2. /\ jobs' \in [Job -> JobRecord]
      /\ \A k \in Job : Tidy(jobs'[k], k \in alone')
  BY <1>1, <1>4, <1>5 DEF Inv
<1>6. errs' \subseteq r.errs /\ proc' \in {"up", "stopped", "crashed"}
  BY DEF Return, Outcome, Inv
<1>3. errs' \subseteq InternalError /\ (alone' = {} => errs' \subseteq {"job ptr"})
  <2>1. CASE Returned(r)
    BY <1>6, <2>1 DEF Returned, InternalError
  <2>2. CASE i \in alone' /\ Torn(r, o)
    <3>1. r.errs \in SUBSET InternalError
      BY <2>2, JobFields DEF Torn, Lost, Late, Base
    <3> QED BY <1>6, <2>2, <3>1
  <2> QED BY <2>1, <2>2
<1> QED BY <1>2, <1>3, <1>6 DEF Inv

(* A handler is ready only for a server of a job of m_jobs, or one left    *)
(* behind.                                                                 *)
LEMMA ServerOfJob ==
    ASSUME Inv, NEW i \in Job, NEW s \in Server, jobs[i].srv[s].op # "none"
    PROVE  /\ Whole(jobs[i]) \/ (i \in alone /\ Ghost(jobs[i]))
           /\ s \in jobs[i].server
           /\ jobs[i].srv[s] \in ServerRecord
           /\ ServerInv(jobs[i], s)
<1>1. jobs[i] # NoJob
  BY NoJobType DEF NewServer, ServerIn
<1>2. Whole(jobs[i]) \/ (i \in alone /\ Ghost(jobs[i]))
  BY <1>1 DEF Inv, Tidy
<1>3. ServerInv(jobs[i], s) /\ jobs[i].srv[s] \in ServerRecord
  BY <1>2, JobFields DEF Whole, Base, Ghost, Lost
<1>4. s \in jobs[i].server
  BY <1>3 DEF ServerInv, NewServer, DoneServer, ServerIn
<1> QED BY <1>2, <1>3, <1>4

LEMMA Faulty == \A F \in SUBSET BindFaults : F \subseteq Server
BY BindAssumption DEF Udp, Server, Main, Backs

(* A new request.                                                          *)
LEMMA EntersInv ==
    ASSUME Inv, NEW i \in Job, NEW k \in Key \cup {NoKey},
           NEW one \in BOOLEAN, Enters(i, NewJob(k, one))
    PROVE  Inv'
<1> DEFINE j == NewJob(k, one)
<1>1. PICK F \in SUBSET BindFaults :
        /\ Return(i, SendServers(j, F))
        /\ alone' = IF FirstServer \in F THEN alone \cup {i} ELSE alone \ {i}
  BY DEF Enters
<1>2. Mid(j) /\ j.status = JOB_BEGIN /\ j.server = {}
  BY NewJobMid
<1> HIDE DEF j
<1>3. \/ Returned(SendServers(j, F))
      \/ i \in alone' /\ Torn(SendServers(j, F), j)
  <2>1. CASE FirstServer \notin F
    BY <1>2, <2>1, SendServersReturns
  <2>2. CASE FirstServer \in F
    BY <1>1, <1>2, <2>2, Faulty, SendServersTorn
  <2> QED BY <2>1, <2>2
<1>4. alone' \subseteq Job /\ alone \ {i} \subseteq alone'
  BY <1>1 DEF Inv
<1>5. cache' \in [Key -> CacheState]
  BY DEF Enters, Inv
<1> QED BY <1>1, <1>3, <1>4, <1>5, ReturnInv

LEMMA OnUdpRequestInv ==
    ASSUME Inv, NEW i \in Job, OnUdpRequest(i)
    PROVE  Inv'
<1>1. ASSUME errs' = {}, UNCHANGED <<jobs, cache, proc, alone>>
      PROVE  Inv'
  BY <1>1 DEF Inv
<1>2. ASSUME NEW k \in Key \cup {NoKey}, NEW one \in BOOLEAN,
             Enters(i, NewJob(k, one))
      PROVE  Inv'
  BY <1>2, EntersInv
<1>3. ASSUME NEW k \in Key \cup {NoKey}, NEW how \in {"cache", "hosts"},
             Return(i, LocalComplete(NewJob(k, TRUE), how)), UNCHANGED cache,
             alone' = alone \ {i}
      PROVE  Inv'
  <2>1. Returned(LocalComplete(NewJob(k, TRUE), how))
    BY NewJobMid, LocalCompleteReturns
  <2>2. cache' \in [Key -> CacheState] /\ alone' \subseteq Job
    BY <1>3 DEF Inv
  <2> QED BY <1>3, <2>1, <2>2, ReturnInv
<1> QED BY <1>1, <1>2, <1>3 DEF OnUdpRequest

(* A server completes.                                                     *)
LEMMA FinishServerInv ==
    ASSUME Inv, NEW i \in Job, NEW s \in Server,
           jobs[i].srv[s].op # "none", NEW m \in Response,
           FinishServer(i, s, m)
    PROVE  Inv'
<1> DEFINE j == jobs[i]
<1>1. /\ Whole(j) \/ (i \in alone /\ Ghost(j))
      /\ s \in j.server
  BY ServerOfJob
<1>2. PICK F \in SUBSET BindFaults :
        /\ Return(i, ServerComplete(j, s, m, F))
        /\ alone' = IF BacksFailAlone(j, s, m, F)
                    THEN alone \cup {i} ELSE alone
  BY DEF FinishServer
<1>5. cache' \in [Key -> CacheState]
  BY DEF FinishServer, Stores, Put, Inv, CacheState
<1> HIDE DEF j
<1>3. \/ Returned(ServerComplete(j, s, m, F))
      \/ i \in alone' /\ Torn(ServerComplete(j, s, m, F), j)
  <2>1. CASE Whole(j) /\ BacksFailAlone(j, s, m, F)
    BY <1>1, <1>2, <2>1, Faulty, ServerCompleteTorn
  <2>2. CASE Whole(j) /\ ~BacksFailAlone(j, s, m, F)
    BY <1>1, <1>2, <2>2, ServerCompleteReturns
  <2>3. CASE i \in alone /\ Ghost(j)
    BY <1>1, <1>2, <2>3, GhostCompletes
  <2> QED BY <1>1, <2>1, <2>2, <2>3
<1>4. alone' \subseteq Job /\ alone \ {i} \subseteq alone'
  BY <1>2 DEF Inv
<1> QED BY <1>2, <1>3, <1>4, <1>5, ReturnInv

(* A server starts its next operation.                                     *)
LEMMA GoOnInv ==
    ASSUME Inv, NEW i \in Job, NEW s \in Server,
           Whole(jobs[i]) \/ (i \in alone /\ Ghost(jobs[i])),
           s \in jobs[i].server, NEW v \in ServerRecord, GoOn(i, s, v),
           \/ /\ v.status = SERVER_SENDING
              /\ v.op \in IF s \in Udp THEN {"send"} ELSE {"connect", "write"}
           \/ /\ v.status = SERVER_WAITING
              /\ v.op \in IF s \in Udp THEN {"peek", "recv"} ELSE {"read"}
    PROVE  Inv'
<1> DEFINE r == [jobs[i] EXCEPT !.srv[s] = v]
<1>3. Whole(jobs[i]) => Whole(r)
  BY SrvWhole
<1>4. Ghost(jobs[i]) => Ghost(r)
  BY SrvGhost
<1>2. jobs' = [jobs EXCEPT ![i] = r]
  BY DEF GoOn
<1> HIDE DEF r
<1>1. Tidy(r, i \in alone) /\ r \in JobRecord
  BY <1>3, <1>4 DEF Tidy, Whole, Ghost, Lost, Base
<1> QED BY <1>1, <1>2 DEF GoOn, Inv

(* A server's next operation, on its socket as cancel() left it.           *)
LEMMA StartOpType ==
    ASSUME NEW v \in ServerRecord, NEW o \in Operation
    PROVE  /\ StartOp(v, o) \in ServerRecord
           /\ StartOp(v, o).status = v.status
           /\ StartOp(v, o).op = o
BY DEF StartOp, ServerRecord, Result

(* The request is sent: onReqSent of either kind of server.                *)
LEMMA WaitingType ==
    ASSUME NEW v \in ServerRecord
    PROVE  /\ [v EXCEPT !.status = SERVER_WAITING] \in ServerRecord
           /\ [v EXCEPT !.status = SERVER_WAITING].status = SERVER_WAITING
BY DEF ServerRecord, SERVER_BEGIN, SERVER_WAITING, SERVER_GOTANSWER

(* The handlers of a server.                                               *)
LEMMA ServerHandlerInv ==
    ASSUME Inv, NEW i \in Job, NEW s \in Server, ServerHandler(i, s)
    PROVE  Inv'
<1> DEFINE v == jobs[i].srv[s]
           w == [v EXCEPT !.status = SERVER_WAITING]
<1>1. v.op # "none"
  BY DEF ServerHandler, OnReqSentUdp, OnPeekUdp, OnResponseUdp, OnCncted,
     OnReqSentTcp, OnResponseTcp, Ready, Running
<1>2. /\ Whole(jobs[i]) \/ (i \in alone /\ Ghost(jobs[i]))
      /\ s \in jobs[i].server
      /\ v \in ServerRecord /\ ServerInv(jobs[i], s)
  BY <1>1, ServerOfJob
<1>3. \A m \in Response : FinishServer(i, s, m) => Inv'
  BY <1>1, FinishServerInv
<1>4. "none" \in Response
  BY DEF Response
<1>5. w \in ServerRecord /\ w.status = SERVER_WAITING
  BY <1>2, WaitingType
<1>6. /\ v.op \in {"send", "peek", "recv"} => s \in Udp
      /\ v.op \in {"connect", "write", "read"} => s \notin Udp
      /\ v.op \in {"peek", "recv", "read"} => v.status = SERVER_WAITING
      /\ v.op = "connect" => v.status = SERVER_SENDING
  BY <1>2 DEF ServerInv
<1> HIDE DEF v, w
<1>7. \A o \in Operation : /\ StartOp(v, o) \in ServerRecord
                           /\ StartOp(v, o).status = v.status
                           /\ StartOp(v, o).op = o
                           /\ StartOp(w, o) \in ServerRecord
                           /\ StartOp(w, o).status = SERVER_WAITING
                           /\ StartOp(w, o).op = o
  BY <1>2, <1>5, StartOpType
<1>8. {"peek", "recv", "write", "read"} \subseteq Operation
  BY DEF Operation
<1>9. CASE OnReqSentUdp(i, s)
  <2>1. v.op = "send" /\ (FinishServer(i, s, "none") \/ GoOn(i, s, StartOp(w, "peek")))
    BY <1>9 DEF OnReqSentUdp, Ready, Running, v, w
  <2> QED BY <1>2, <1>3, <1>4, <1>6, <1>7, <1>8, <2>1, GoOnInv
<1>10. CASE OnPeekUdp(i, s)
  <2>1. v.op = "peek" /\ (FinishServer(i, s, "none") \/ GoOn(i, s, StartOp(v, "recv")))
    BY <1>10 DEF OnPeekUdp, Ready, Running, v
  <2> QED BY <1>2, <1>3, <1>4, <1>6, <1>7, <1>8, <2>1, GoOnInv
<1>11. CASE OnResponseUdp(i, s)
  <2>1. v.op = "recv" /\ \/ \E m \in Response : FinishServer(i, s, m)
                         \/ GoOn(i, s, StartOp(v, "recv"))
    BY <1>4, <1>11 DEF OnResponseUdp, Ready, Running, v
  <2> QED BY <1>2, <1>3, <1>6, <1>7, <1>8, <2>1, GoOnInv
<1>12. CASE OnCncted(i, s)
  <2>1. v.op = "connect" /\ (FinishServer(i, s, "none") \/ GoOn(i, s, StartOp(v, "write")))
    BY <1>12 DEF OnCncted, Ready, Running, v
  <2> QED BY <1>2, <1>3, <1>4, <1>6, <1>7, <1>8, <2>1, GoOnInv
<1>13. CASE OnReqSentTcp(i, s)
  <2>1. v.op = "write" /\ (FinishServer(i, s, "none") \/ GoOn(i, s, StartOp(w, "read")))
    BY <1>13 DEF OnReqSentTcp, Ready, Running, v, w
  <2> QED BY <1>2, <1>3, <1>4, <1>6, <1>7, <1>8, <2>1, GoOnInv
<1>14. CASE OnResponseTcp(i, s)
  <2>1. v.op = "read" /\ \/ \E m \in Response : FinishServer(i, s, m)
                         \/ GoOn(i, s, StartOp(v, "read"))
    BY <1>4, <1>14 DEF OnResponseTcp, Ready, Running, v
  <2> QED BY <1>2, <1>3, <1>6, <1>7, <1>8, <2>1, GoOnInv
<1> QED BY <1>9, <1>10, <1>11, <1>12, <1>13, <1>14 DEF ServerHandler

(* The client's handler.                                                   *)
LEMMA OnResponsedInv ==
    ASSUME Inv, NEW i \in Job, OnResponsed(i)
    PROVE  Inv'
<1>1. jobs[i].client.send # "none"
  BY DEF OnResponsed
<1>2. NoJob.client.send = "none"
  BY DEF NoJob, NewClient, ClientIn
<1>3. Whole(jobs[i])
  BY <1>1, <1>2 DEF Inv, Tidy, Ghost, Lost
<1>4. Returned(ClientResponded(jobs[i]))
  BY <1>1, <1>3, ClientRespondedReturns
<1>5. /\ Return(i, ClientResponded(jobs[i]))
      /\ cache' \in [Key -> CacheState] /\ alone' \subseteq Job
      /\ alone \ {i} \subseteq alone'
  BY DEF OnResponsed, Inv
<1> QED BY <1>4, <1>5, ReturnInv

(* The heartbeat of all jobs.                                              *)
LEMMA AtRestGhost ==
    ASSUME NEW j, Ghost(j)
    PROVE  AtRest(j) = j
<1>1. j \in JobRecord /\ j.server # {} /\ j.uaf = FALSE /\ j.errs = {}
  BY JobFields DEF Ghost, Lost, Base
<1>2. [j EXCEPT !.uaf = FALSE, !.errs = {}] = j
  BY <1>1 DEF JobRecord
<1> QED BY <1>1, <1>2 DEF AtRest

LEMMA OnHeartbeatInv ==
    ASSUME Inv, OnHeartbeat
    PROVE  Inv' /\ \A i \in Job : jobs'[i].live = jobs[i].live
<1> DEFINE r(F) == [i \in Job |->
                      IF jobs[i].live
                      THEN HeartBeat(jobs[i], Cached(jobs[i].key), F[i])
                      ELSE jobs[i]]
<1>1. PICK F \in [Job -> SUBSET BindFaults] :
        /\ jobs' = [i \in Job |-> AtRest(r(F)[i])]
        /\ Outcome(\E i \in Job : r(F)[i].uaf \/ r(F)[i].live # jobs[i].live,
                   UNION {r(F)[i].errs : i \in Job})
  BY DEF OnHeartbeat
<1>2. ASSUME NEW i \in Job
      PROVE  /\ Tidy(r(F)[i], i \in alone)
             /\ r(F)[i].live = jobs[i].live
  <2>1. CASE jobs[i] = NoJob
    BY <2>1, NoJobType DEF Tidy
  <2>2. CASE Whole(jobs[i])
    <3>1. Cached(jobs[i].key) \in BOOLEAN
      BY DEF Cached
    <3>2. Whole(HeartBeat(jobs[i], Cached(jobs[i].key), F[i]))
      BY <2>2, <3>1, HeartBeatWhole
    <3> QED BY <2>2, <3>1, <3>2 DEF Whole, Tidy
  <2>3. CASE i \in alone /\ Ghost(jobs[i])
    BY <2>3 DEF Ghost, Lost, Tidy
  <2> QED BY <2>1, <2>2, <2>3 DEF Inv, Tidy
<1> HIDE DEF r
<1>3. ASSUME NEW i \in Job
      PROVE  /\ jobs'[i] \in JobRecord
             /\ Tidy(jobs'[i], i \in alone)
             /\ jobs'[i].live = jobs[i].live
             /\ r(F)[i].errs = {}
  <2>1. CASE Whole(r(F)[i])
    <3>1. AtRest(r(F)[i]) = r(F)[i]
      BY <2>1 DEF AtRest, Whole, Base, JobRecord
    <3> QED BY <1>1, <1>2, <2>1, <3>1 DEF Whole, Base
  <2>2. CASE r(F)[i] = NoJob
    <3>1. AtRest(r(F)[i]) = NoJob /\ NoJob.errs = {}
      BY <2>2, NoJobType DEF AtRest, NoJob
    <3> QED BY <1>1, <1>2, <2>2, <3>1, NoJobType
  <2>3. CASE Ghost(r(F)[i])
    <3>1. AtRest(r(F)[i]) = r(F)[i]
      BY <2>3, AtRestGhost
    <3> QED BY <1>1, <1>2, <2>3, <3>1 DEF Ghost, Lost, Base
  <2> QED BY <1>2, <2>1, <2>2, <2>3 DEF Tidy
<1>4. UNION {r(F)[i].errs : i \in Job} = {}
  BY <1>3
<1>5. errs' = {} /\ proc' \in {"up", "stopped", "crashed"}
  BY <1>1, <1>4 DEF Outcome, Inv
<1>6. jobs' \in [Job -> JobRecord]
  BY <1>1, <1>3
<1> QED BY <1>3, <1>5, <1>6 DEF Inv, OnHeartbeat

(* The network, the clocks and the other requests.                         *)
LEMMA EnvironmentInv ==
    ASSUME Inv, Environment
    PROVE  Inv'
<1>1. ASSUME NEW i \in Job, NEW s \in Server, NetComplete(i, s)
      PROVE  Inv'
  <2>1. /\ Whole(jobs[i]) \/ (i \in alone /\ Ghost(jobs[i]))
        /\ s \in jobs[i].server
        /\ jobs[i].srv[s] \in ServerRecord /\ ServerInv(jobs[i], s)
    BY <1>1, ServerOfJob DEF NetComplete
  <2>2. PICK e \in {"ok", "err"} : jobs' = [jobs EXCEPT ![i].srv[s].res = e]
    BY <1>1 DEF NetComplete
  <2> DEFINE v == [jobs[i].srv[s] EXCEPT !.res = e]
             r == [jobs[i] EXCEPT !.srv[s] = v]
  <2>3. /\ v \in ServerRecord
        /\ v.status = jobs[i].srv[s].status /\ v.op = jobs[i].srv[s].op
    BY <2>1 DEF ServerRecord, Result
  <2>4. jobs' = [jobs EXCEPT ![i] = r]
    BY <2>1, <2>2 DEF JobRecord, Inv
  <2>6. \/ /\ v.status = SERVER_SENDING
           /\ v.op \in IF s \in Udp THEN {"send"} ELSE {"connect", "write"}
        \/ /\ v.status = SERVER_WAITING
           /\ v.op \in IF s \in Udp THEN {"peek", "recv"} ELSE {"read"}
    BY <2>1, <2>3 DEF ServerInv
  <2> HIDE DEF v
  <2>7. Whole(jobs[i]) => Whole(r)
    BY <2>1, <2>3, <2>6, SrvWhole
  <2>8. Ghost(jobs[i]) => Ghost(r)
    BY <2>1, <2>3, <2>6, SrvGhost
  <2> HIDE DEF r
  <2>5. Tidy(r, i \in alone) /\ r \in JobRecord
    BY <2>1, <2>7, <2>8 DEF Tidy, Whole, Ghost, Lost, Base
  <2> HIDE DEF r
  <2> QED BY <1>1, <2>4, <2>5 DEF Inv, NetComplete
<1>2. ASSUME NEW i \in Job, SendComplete(i)
      PROVE  Inv'
  <2>1. Whole(jobs[i]) /\ jobs[i].client.send = "pending"
    <3>1. NoJob.client.send = "none"
      BY DEF NoJob, NewClient, ClientIn
    <3> QED BY <1>2, <3>1 DEF SendComplete, Inv, Tidy, Ghost, Lost
  <2>2. jobs[i] \in JobRecord /\ jobs[i].client \in ClientRecord /\ Base(jobs[i])
    BY <2>1, JobFields DEF Whole, Base
  <2>3. PICK e \in {"ok", "err"} : jobs' = [jobs EXCEPT ![i].client.send = e]
    BY <1>2 DEF SendComplete
  <2> DEFINE c == [jobs[i].client EXCEPT !.send = e]
             r == [jobs[i] EXCEPT !.client = c]
  <2>4. c \in ClientRecord /\ c.status = jobs[i].client.status /\ c.send # "none"
    BY <2>2 DEF ClientRecord, Result
  <2>5. jobs' = [jobs EXCEPT ![i] = r]
    BY <2>2, <2>3 DEF JobRecord, Inv
  <2> HIDE DEF c
  <2>6. Base(r)
    BY <2>2, <2>4, ClientBase
  <2>7. /\ r.status = jobs[i].status /\ r.server = jobs[i].server
        /\ r.client = c /\ r.reply = jobs[i].reply /\ r.live = jobs[i].live
        /\ r.uaf = jobs[i].uaf /\ r.errs = jobs[i].errs
    BY <2>2 DEF JobRecord
  <2> HIDE DEF r
  <2>8. Whole(r)
    BY <2>1, <2>4, <2>6, <2>7 DEF Whole, ClientInv
  <2> QED BY <1>2, <2>5, <2>8 DEF Inv, SendComplete, Whole, Base, Tidy
<1>3. ASSUME NEW k \in Key, Expire(k) \/ Evict(k)
      PROVE  Inv'
  BY <1>3 DEF Expire, Evict, Put, Inv, CacheState
<1>4. ASSUME Tick
      PROVE  Inv'
  <2>1. ASSUME NEW i \in Job
        PROVE  /\ Tidy(jobs'[i], i \in alone)
               /\ jobs'[i] \in JobRecord
    <3>1. CASE jobs[i] = NoJob
      BY <1>4, <3>1, NoJobType DEF Tick, Tidy
    <3>2. CASE Whole(jobs[i])
      <4>1. jobs'[i] = Aged(jobs[i])
        BY <1>4, <3>2 DEF Tick, Whole
      <4> QED BY <3>2, <4>1, AgedWhole DEF Whole, Base, Tidy
    <3>3. CASE i \in alone /\ Ghost(jobs[i])
      <4>1. jobs'[i] = jobs[i]
        BY <1>4, <3>3 DEF Tick, Ghost, Lost
      <4> QED BY <3>3, <4>1 DEF Tidy, Ghost, Lost, Base
    <3> QED BY <3>1, <3>2, <3>3 DEF Inv, Tidy
  <2>2. jobs' \in [Job -> JobRecord]
    BY <1>4, <2>1 DEF Tick
  <2> QED BY <1>4, <2>1, <2>2 DEF Tick, Inv
<1>5. ASSUME Stop
      PROVE  Inv'
  BY <1>5 DEF Stop, Inv
<1> QED BY <1>1, <1>2, <1>3, <1>4, <1>5 DEF Environment

(* The invariant is inductive.                                             *)
LEMMA InvNext == Inv /\ [Next]_vars => Inv'
<1> SUFFICES ASSUME Inv, [Next]_vars PROVE Inv'
  OBVIOUS
<1>1. ASSUME NEW i \in Job, OnUdpRequest(i) PROVE Inv'
  BY <1>1, OnUdpRequestInv
<1>2. ASSUME NEW i \in Job, OnResponsed(i) PROVE Inv'
  BY <1>2, OnResponsedInv
<1>3. ASSUME NEW i \in Job, NEW s \in Server, ServerHandler(i, s) PROVE Inv'
  BY <1>3, ServerHandlerInv
<1>4. CASE OnHeartbeat
  BY <1>4, OnHeartbeatInv
<1>5. CASE Environment
  BY <1>5, EnvironmentInv
<1>6. CASE UNCHANGED vars
  BY <1>6 DEF vars, Inv
<1> QED BY <1>1, <1>2, <1>3, <1>4, <1>5, <1>6 DEF Next

-----------------------------------------------------------------------------
(* The properties follow from the invariant.                               *)
LEMMA InvImplies ==
    Inv => TypeOK /\ HandlersHaveOwners /\ EndsAgree /\ ChecksHold
<1> SUFFICES ASSUME Inv
             PROVE  TypeOK /\ HandlersHaveOwners /\ EndsAgree /\ ChecksHold
  OBVIOUS
<1>1. TypeOK
  BY DEF Inv, TypeOK
<1>2. ASSUME NEW i \in Job, NEW s \in Server
      PROVE  /\ ServerInv(jobs[i], s)
             /\ jobs[i].srv[s].op # "none" => jobs[i].live \/ i \in alone
  <2>1. CASE jobs[i] = NoJob
    <3>1. /\ NoJob.srv[s] = NewServer /\ NoJob.server = {}
          /\ NewServer.op = "none"
      BY DEF NoJob, NewServer, ServerIn
    <3> QED BY <2>1, <3>1 DEF ServerInv
  <2>2. CASE Whole(jobs[i])
    BY <2>2 DEF Whole, Base
  <2>3. CASE i \in alone /\ Ghost(jobs[i])
    BY <2>3 DEF Ghost, Lost, Base
  <2> QED BY <2>1, <2>2, <2>3 DEF Inv, Tidy
<1>3. EndsAgree
  BY NoJobType DEF Inv, Tidy, EndsAgree, Whole, Ghost, Lost
<1>4. ChecksHold
  BY DEF Inv, ChecksHold
<1> QED BY <1>1, <1>2, <1>3, <1>4 DEF HandlersHaveOwners

(* The invariant holds in every state.                                     *)
LEMMA Invariance == Spec => []Inv
<1>1. Init => Inv
  BY InvInit
<1>2. Inv /\ [Next]_vars => Inv'
  BY InvNext
<1> QED BY <1>1, <1>2, PTL DEF Spec

(* The state keeps its type: in particular a job's record, through all the *)
(* nested calls of a handler.                                              *)
THEOREM TypeCorrect ==
    Spec => []TypeOK
<1>1. Inv => TypeOK
  BY InvImplies
<1> QED BY <1>1, Invariance, PTL

(* No handler of an upstream server (UdpServer, TcpServer) ever runs on a  *)
(* deleted server or job, whatever the network answers, fails or delays,   *)
(* and every server of m_server has an operation to wait for; except in a  *)
(* job whose loop over the servers had one fail while no other ran.        *)
THEOREM NoDanglingHandler ==
    Spec => []HandlersHaveOwners
<1>1. Inv => HandlersHaveOwners
  BY InvImplies
<1> QED BY <1>1, Invariance, PTL

(* The client's end and the servers' end of a job agree on which of them   *)
(* is to finish it (clientComplete, serverComplete), so that every job of  *)
(* m_jobs has something under way that will.                               *)
THEOREM EndsStayTogether ==
    Spec => []EndsAgree
<1>1. Inv => EndsAgree
  BY InvImplies
<1> QED BY <1>1, Invariance, PTL

(* Of the errors the code logs when it finds its state impossible only     *)
(* "Invalid job ptr." is ever reached, unless the first server of a loop   *)
(* failed in its send() while no other ran.                                *)
THEOREM ChecksNeverFail ==
    Spec => []ChecksHold
<1>1. Inv => ChecksHold
  BY InvImplies
<1> QED BY <1>1, Invariance, PTL

(* AHosts::onHeartbeat may iterate over m_jobs while it lets the jobs      *)
(* cancel servers and clients: none of them is deleted in it.              *)
THEOREM HeartbeatIsSafe ==
    Spec => HeartbeatKeepsJobs
<1>1. Inv /\ [Next]_vars =>
        [OnHeartbeat => \A i \in Job : ~Vanishes(i)]_vars
  BY OnHeartbeatInv DEF Vanishes
<1> QED BY <1>1, Invariance, PTL DEF Spec, HeartbeatKeepsJobs

-----------------------------------------------------------------------------
(* When a job cancels its servers, asks the back servers, decides and      *)
(* replies.                                                                *)

(* CanceledWhenDecided, of one job.                                        *)
CanceledRight(j) ==
    \A s \in j.server :
      /\ j.status >= JOB_GOTANSWER => j.srv[s].cancel
      /\ j.srv[s].cancel =>
           j.status >= JOB_GOTANSWER \/ j.srv[s].age > Timeout

MainOver(j) == \A s \in Main : j.srv[s].status = SERVER_GOTANSWER

(* While a job waits, each main server runs or has completed: with no      *)
(* server left, all of them have.                                          *)
MainAsked(j) ==
    j.status > JOB_BEGIN /\ j.status < JOB_GOTANSWER =>
      \A s \in Main : s \in j.server \/ j.srv[s].status = SERVER_GOTANSWER

BacksAskedLate(j) ==
    \A b \in Backs :
      j.srv[b].status # SERVER_BEGIN => j.age > BackTimeout \/ MainOver(j)

EarlyIsCached(j) == j.status = JOB_EARLYRET => j.reply = "early"

(* All of it holds unless the job was given up in the middle of a loop     *)
(* that sends to servers.                                                  *)
Asked(j, torn) ==
    /\ EarlyIsCached(j)
    /\ torn \/ (CanceledRight(j) /\ MainAsked(j) /\ BacksAskedLate(j))

(* The servers and the question are as they were.                          *)
Keeps(j, r) ==
    /\ r.server = j.server /\ r.srv = j.srv
    /\ r.age = j.age /\ r.backsent = j.backsent
    /\ r.key = j.key /\ r.single = j.single

(* RepliedOnce, of one job.                                                *)
Forward(j, r) ==
    j.status <= r.status /\ (j.reply # "none" => r.reply = j.reply)

USE DEF JOB_BEGIN, JOB_REQUESTING, JOB_EARLYRET, JOB_NOEARLYRET, JOB_GOTANSWER,
        JOB_RESPONDED, CLIENT_BEGIN, CLIENT_WAITING, CLIENT_RESPONDING,
        CLIENT_RESPONDED, SERVER_BEGIN, SERVER_SENDING, SERVER_WAITING,
        SERVER_GOTANSWER

-----------------------------------------------------------------------------
(* Functions that leave the servers alone.                                 *)
LEMMA KeepsAsked ==
    ASSUME NEW torn \in BOOLEAN,
           NEW j, NEW r, Asked(j, torn), Keeps(j, r), r.status \in 0 .. 5,
           j.status \in 0 .. 5,
           \/ r.status >= JOB_GOTANSWER /\ (j.status >= JOB_GOTANSWER \/ j.server = {})
           \/ /\ r.status > JOB_BEGIN /\ r.status < JOB_GOTANSWER
              /\ j.status > JOB_BEGIN /\ j.status < JOB_GOTANSWER
              /\ r.status = JOB_EARLYRET => r.reply = "early"
    PROVE  Asked(r, torn)
<1>1. torn \/ CanceledRight(r) BY DEF Asked, CanceledRight, Keeps
<1>2. torn \/ MainAsked(r) BY DEF Asked, MainAsked, Keeps
<1>3. torn \/ BacksAskedLate(r) BY DEF Asked, BacksAskedLate, MainOver, Keeps
<1>4. EarlyIsCached(r) BY DEF EarlyIsCached
<1> QED BY <1>1, <1>2, <1>3, <1>4 DEF Asked

LEMMA JobCompleteKeeps ==
    ASSUME NEW j \in JobRecord
    PROVE  /\ Keeps(j, JobComplete(j))
           /\ JobComplete(j).status = j.status /\ JobComplete(j).reply = j.reply
           /\ ~JobComplete(j).live
BY DEF JobComplete, Fault, Keeps, JobRecord

LEMMA SettleKeeps ==
    ASSUME NEW j \in JobRecord
    PROVE  /\ Keeps(j, Settle(j))
           /\ Settle(j).reply = j.reply
           /\ \/ Settle(j).status = j.status
              \/ j.status = JOB_GOTANSWER /\ Settle(j).status = JOB_RESPONDED
           /\ j.live /\ (j.server # {} \/ (/\ j.status < JOB_RESPONDED
                                           /\ j.client.status # CLIENT_RESPONDED))
                => Settle(j).live
<1> DEFINE t == Touch(j)
           a == IF t.status = JOB_GOTANSWER /\ t.client.status = CLIENT_RESPONDED
                THEN [t EXCEPT !.status = JOB_RESPONDED] ELSE t
<1>1. t \in JobRecord /\ Keeps(j, t) /\ t.status = j.status /\ t.reply = j.reply
      /\ t.live = j.live /\ t.client = j.client
  BY DEF Touch, JobRecord, Keeps
<1>2. a \in JobRecord /\ Keeps(j, a) /\ a.reply = j.reply /\ a.live = j.live
      /\ \/ a.status = j.status
         \/ /\ j.status = JOB_GOTANSWER /\ a.status = JOB_RESPONDED
            /\ j.client.status = CLIENT_RESPONDED
  <2> HIDE DEF t
  <2> QED BY <1>1 DEF JobRecord, Keeps
<1>3. Settle(j) = IF a.server = {} /\ a.status = JOB_RESPONDED
                  THEN JobComplete(a) ELSE a
  BY DEF Settle
<1> HIDE DEF a, t
<1>4. CASE a.server = {} /\ a.status = JOB_RESPONDED
  <2>1. PICK b \in JobRecord : b = a BY <1>2
  <2>2. Keeps(b, JobComplete(b)) /\ JobComplete(b).status = b.status
        /\ JobComplete(b).reply = b.reply
    BY JobCompleteKeeps
  <2>3. j.status \in 0 .. 5 BY JobFields
  <2> QED BY <1>2, <1>3, <1>4, <2>1, <2>2, <2>3 DEF Keeps
<1>5. CASE ~(a.server = {} /\ a.status = JOB_RESPONDED)
  BY <1>2, <1>3, <1>5
<1> QED BY <1>4, <1>5

(* The client's end of a job decides it, unless it was served early.       *)
LEMMA ClientCompleteKeeps ==
    ASSUME NEW j \in JobRecord
    PROVE  /\ Keeps(j, ClientComplete(j))
           /\ ClientComplete(j).reply = j.reply
           /\ ClientComplete(j).status =
                IF j.status = JOB_EARLYRET /\ j.server # {}
                THEN j.status ELSE JOB_RESPONDED
           /\ j.server # {} => ClientComplete(j).live = j.live
<1> DEFINE a == IF j.status \in {JOB_GOTANSWER, JOB_EARLYRET} THEN j
                ELSE [Fault(j, "job status") EXCEPT !.status = JOB_GOTANSWER]
           b == IF a.status # JOB_EARLYRET \/ a.server = {}
                THEN [a EXCEPT !.status = JOB_RESPONDED] ELSE a
<1>1. Fault(j, "job status") \in JobRecord
      /\ Keeps(j, Fault(j, "job status"))
      /\ Fault(j, "job status").live = j.live
      /\ Fault(j, "job status").reply = j.reply
  BY DEF Fault, JobRecord, InternalError, Keeps
<1>2. a \in JobRecord /\ Keeps(j, a) /\ a.reply = j.reply /\ a.live = j.live
      /\ a.status = IF j.status = JOB_EARLYRET THEN j.status ELSE JOB_GOTANSWER
  <2>1. CASE j.status \in {JOB_GOTANSWER, JOB_EARLYRET}
    <3>1. a = j BY <2>1
    <3> QED BY <2>1, <3>1 DEF Keeps
  <2>2. CASE j.status \notin {JOB_GOTANSWER, JOB_EARLYRET}
    <3>1. PICK f \in JobRecord : f = Fault(j, "job status") BY <1>1
    <3>2. a = [f EXCEPT !.status = JOB_GOTANSWER] BY <2>2, <3>1
    <3>3. Keeps(j, f) /\ f.reply = j.reply /\ f.live = j.live BY <1>1, <3>1
    <3> HIDE DEF a
    <3>4. a \in JobRecord /\ a.status = JOB_GOTANSWER BY <3>2 DEF JobRecord
    <3>5. Keeps(f, a) /\ a.reply = f.reply /\ a.live = f.live BY <3>2 DEF JobRecord, Keeps
    <3>6. Keeps(j, a) /\ a.reply = j.reply /\ a.live = j.live BY <3>3, <3>5 DEF Keeps
    <3> QED BY <2>2, <3>4, <3>6
  <2> QED BY <2>1, <2>2
<1>3. ClientComplete(j) = IF b.server = {} THEN JobComplete(b) ELSE b
  BY DEF ClientComplete
<1> HIDE DEF a
<1>4. b \in JobRecord /\ Keeps(j, b) /\ b.reply = j.reply /\ b.live = j.live
      /\ b.status = IF j.status = JOB_EARLYRET /\ j.server # {}
                    THEN j.status ELSE JOB_RESPONDED
  BY <1>2 DEF JobRecord, Keeps
<1> HIDE DEF b
<1>5. PICK c \in JobRecord : c = b BY <1>4
<1>6. Keeps(c, JobComplete(c)) /\ JobComplete(c).status = c.status
      /\ JobComplete(c).reply = c.reply
  BY JobCompleteKeeps
<1> QED BY <1>3, <1>4, <1>5, <1>6 DEF Keeps

LEMMA ClientCancelKeeps ==
    ASSUME NEW j \in JobRecord
    PROVE  /\ Keeps(j, ClientCancel(j))
           /\ ClientCancel(j).reply = j.reply
           /\ j.status >= JOB_GOTANSWER => ClientCancel(j).status >= j.status
           /\ j.client.status = CLIENT_RESPONDING => ClientCancel(j).status = j.status
<1> DEFINE c == [j EXCEPT !.client = ClientIn(CLIENT_RESPONDED, "none")]
<1>1. ClientIn(CLIENT_RESPONDED, "none") \in ClientRecord BY ClientInType
<1>2. c \in JobRecord /\ Keeps(j, c) /\ c.reply = j.reply /\ c.status = j.status
  BY <1>1 DEF JobRecord, Keeps
<1>3. Keeps(c, ClientComplete(c)) /\ ClientComplete(c).reply = c.reply
      /\ ClientComplete(c).status = IF c.status = JOB_EARLYRET /\ c.server # {}
                                    THEN c.status ELSE JOB_RESPONDED
  BY <1>2, ClientCompleteKeeps
<1>4. j.status \in 0 .. 5 BY JobFields
<1>5. CASE j.client.status <= CLIENT_WAITING
  <2>1. ClientCancel(j) = ClientComplete(c) BY <1>5 DEF ClientCancel
  <2>2. j.client.status # CLIENT_RESPONDING BY <1>5
  <2> HIDE DEF c
  <2> QED BY <1>2, <1>3, <1>4, <2>1, <2>2 DEF Keeps
<1>6. CASE ~(j.client.status <= CLIENT_WAITING)
  <2>1. j.status >= j.status BY <1>4
  <2> QED BY <1>4, <1>6, <2>1 DEF ClientCancel, Fault, JobRecord, Keeps
<1> QED BY <1>5, <1>6

LEMMA GiveUpKeeps ==
    ASSUME NEW j \in JobRecord
    PROVE  /\ Keeps(j, GiveUp(j)) /\ GiveUp(j).reply = j.reply
           /\ GiveUp(j).status >= JOB_GOTANSWER
<1> DEFINE a == [j EXCEPT !.status = JOB_GOTANSWER]
<1>1. a \in JobRecord /\ Keeps(j, a) /\ a.reply = j.reply /\ a.status = JOB_GOTANSWER
  BY DEF JobRecord, Keeps
<1>2. GiveUp(j) = IF j.status = JOB_EARLYRET THEN a ELSE ClientCancel(a)
  BY DEF GiveUp
<1> HIDE DEF a
<1>3. PICK b \in JobRecord : b = a BY <1>1
<1>4. Keeps(b, ClientCancel(b)) /\ ClientCancel(b).reply = b.reply
      /\ ClientCancel(b).status >= JOB_GOTANSWER
  BY <1>1, <1>3, ClientCancelKeeps
<1> QED BY <1>1, <1>2, <1>3, <1>4 DEF Keeps

LEMMA ResponseKeeps ==
    ASSUME NEW j \in JobRecord, NEW how
    PROVE  /\ Keeps(j, ClientResponse(j, how))
           /\ ClientResponse(j, how).status = j.status
           /\ j.client.status = CLIENT_WAITING =>
                /\ ClientResponse(j, how).reply = how
                /\ ClientResponse(j, how).client.status = CLIENT_RESPONDING
BY DEF ClientResponse, ClientIn, Fault, JobRecord, Keeps

-----------------------------------------------------------------------------
(* Functions that change the servers.                                      *)

LEMMA RemoveFields ==
    ASSUME NEW j \in JobRecord, NEW s \in Server
    PROVE  /\ Others(j, Remove(j, s))
           /\ Remove(j, s).backsent = j.backsent
           /\ Remove(j, s).server = j.server \ {s}
           /\ \A t \in Server :
                Remove(j, s).srv[t] = IF t = s THEN DoneServer ELSE j.srv[t]
BY DEF Remove, Others, JobRecord

LEMMA RemoveAsked ==
    ASSUME NEW torn \in BOOLEAN,
           NEW j, Base(j), Asked(j, torn), NEW s \in j.server
    PROVE  Asked(Remove(j, s), torn)
<1> DEFINE r == Remove(j, s)
<1>1. j \in JobRecord /\ s \in Server /\ j.server \in SUBSET Server
  BY JobFields DEF Base
<1>2. /\ Others(j, r) /\ r.backsent = j.backsent
      /\ r.server = j.server \ {s}
      /\ \A t \in Server : r.srv[t] = IF t = s THEN DoneServer ELSE j.srv[t]
  BY <1>1, RemoveFields
<1>3. DoneServer.status = SERVER_GOTANSWER BY DEF DoneServer, ServerIn
<1>4. Main \subseteq Server /\ Backs \subseteq Server BY DEF Server
<1>5. j.srv[s].status # SERVER_GOTANSWER /\ j.srv[s].status # SERVER_BEGIN
  BY <1>1 DEF Base, ServerInv
<1> HIDE DEF r
<1>6. torn \/ CanceledRight(r) BY <1>1, <1>2 DEF Asked, CanceledRight, Others
<1>7. torn \/ MainAsked(r) BY <1>2, <1>3, <1>4 DEF Asked, MainAsked, Others
<1>8. torn \/ BacksAskedLate(r)
  BY <1>2, <1>3, <1>4, <1>5 DEF Asked, BacksAskedLate, MainOver, Others
<1>9. EarlyIsCached(r) BY <1>2 DEF Asked, EarlyIsCached, Others
<1> QED BY <1>6, <1>7, <1>8, <1>9 DEF Asked, r

LEMMA SentFields ==
    /\ \A s : SentServer(s).status = SERVER_SENDING /\ ~SentServer(s).cancel
    /\ DoneServer.status = SERVER_GOTANSWER
BY DEF SentServer, DoneServer, ServerIn

(* The back servers are asked once BackTimeout has passed or every main    *)
(* server has completed.                                                   *)
LEMMA BackserversAsked ==
    ASSUME NEW torn \in BOOLEAN,
           NEW j, Mid(j), Asked(j, torn), j.status < JOB_GOTANSWER,
           torn \/ j.age > BackTimeout \/ MainOver(j), ~j.backsent,
           NEW F, j.server # {} \/ FirstBack \notin F
    PROVE  /\ Asked(SendBackservers(j, F), torn)
           /\ Others(j, SendBackservers(j, F))
           /\ SendBackservers(j, F).backsent
<1> DEFINE b == [j EXCEPT !.backsent = TRUE]
           r == Launch(b, Backs, F)
<1>2. j \in JobRecord BY DEF Mid, Base
<1>3. /\ b \in JobRecord /\ Others(j, b) /\ b.backsent
      /\ b.server = j.server /\ b.srv = j.srv
  BY <1>2 DEF JobRecord, Others
<1>1. SendBackservers(j, F) = r BY <1>3 DEF SendBackservers
<1> HIDE DEF b
<1>4. Backs \subseteq Server /\ Main \subseteq Server /\ Main \cap Backs = {}
  BY ServerAssumption DEF Server
<1>13. /\ Others(b, r) /\ r.backsent = b.backsent
       /\ r.server = Sent(b, Backs, F)
       /\ \A t \in Server : r.srv[t] =
            IF t \in Backs \cap F THEN DoneServer
            ELSE IF t \in Backs THEN SentServer(t) ELSE b.srv[t]
  <2>1. b \in JobRecord /\ Backs \in SUBSET Server BY <1>3, <1>4
  <2>2. Others(b, Launch(b, Backs, F)) BY <2>1, LaunchFields
  <2>3. /\ Launch(b, Backs, F).backsent = b.backsent
        /\ Launch(b, Backs, F).server = Sent(b, Backs, F)
    BY <2>1, LaunchFields
  <2>4. \A t \in Server : Launch(b, Backs, F).srv[t] =
          IF t \in Backs \cap F THEN DoneServer
          ELSE IF t \in Backs THEN SentServer(t) ELSE b.srv[t]
    BY <2>1, LaunchFields
  <2> QED BY <2>2, <2>3, <2>4
<1>5. /\ Others(b, r) /\ r.backsent
      /\ r.server = Sent(b, Backs, F)
      /\ \A t \in Server : r.srv[t] =
           IF t \in Backs \cap F THEN DoneServer
           ELSE IF t \in Backs THEN SentServer(t) ELSE j.srv[t]
  BY <1>3, <1>13
<1>6. Others(j, r) BY <1>3, <1>5 DEF Others
<1> HIDE DEF r
<1>7. j.server \subseteq Server /\ j.status \in 0 .. 5 BY <1>2, JobFields
<1>8. torn \/ CanceledRight(r)
  <2>1. ASSUME NEW t \in r.server
        PROVE  \/ t \in Backs /\ r.srv[t] = SentServer(t)
               \/ t \in j.server /\ r.srv[t] = j.srv[t]
    BY <1>3, <1>4, <1>5, <1>7 DEF Sent
  <2> QED BY <1>6, <1>7, <2>1, SentFields DEF Asked, CanceledRight, Others
<1>9. torn \/ MainAsked(r) BY <1>3, <1>4, <1>5, <1>6 DEF Asked, MainAsked, Others, Sent
<1>10. torn \/ BacksAskedLate(r)
  BY <1>4, <1>5, <1>6 DEF BacksAskedLate, MainOver, Others
<1>11. EarlyIsCached(r) BY <1>6 DEF Asked, EarlyIsCached, Others
<1> QED BY <1>1, <1>5, <1>6, <1>8, <1>9, <1>10, <1>11 DEF Asked, r

LEMMA CancelFields ==
    ASSUME NEW j, Base(j), NEW S \in SUBSET j.server
    PROVE  /\ Others(j, CancelServers(j, S))
           /\ CancelServers(j, S).backsent = j.backsent
           /\ CancelServers(j, S).server = j.server
           /\ \A t \in Server :
                /\ CancelServers(j, S).srv[t].status = j.srv[t].status
                /\ CancelServers(j, S).srv[t].age = j.srv[t].age
                /\ CancelServers(j, S).srv[t].cancel = (t \in S \/ j.srv[t].cancel)
<1> DEFINE f == [s \in Server |->
                   IF s \in S THEN Canceled(j.srv[s]) ELSE j.srv[s]]
<1>1. j \in JobRecord /\ j.srv \in [Server -> ServerRecord]
      /\ j.server \in SUBSET Server
  BY JobFields DEF Base
<1>2. \A t \in Server : ServerInv(j, t) BY DEF Base
<1>3. \A s \in S : j.srv[s].status \in {SERVER_SENDING, SERVER_WAITING}
  BY <1>1, <1>2 DEF ServerInv
<1>4. CancelServers(j, S) = [j EXCEPT !.srv = f]
  <2>1. ~ \E s \in S : j.srv[s].status = SERVER_BEGIN BY <1>3
  <2> QED BY <2>1 DEF CancelServers
<1>5. ASSUME NEW v \in ServerRecord, v.status \in {SERVER_SENDING, SERVER_WAITING}
      PROVE  /\ Canceled(v).status = v.status /\ Canceled(v).age = v.age
             /\ Canceled(v).cancel = TRUE
  BY <1>5 DEF Canceled, ServerRecord
<1>6. ASSUME NEW t \in Server
      PROVE  /\ f[t].status = j.srv[t].status /\ f[t].age = j.srv[t].age
             /\ f[t].cancel = (t \in S \/ j.srv[t].cancel)
  <2>1. CASE t \in S
    <3>1. PICK v \in ServerRecord : v = j.srv[t] BY <1>1
    <3>2. v.status \in {SERVER_SENDING, SERVER_WAITING} BY <1>3, <2>1, <3>1
    <3>3. f[t] = Canceled(v) BY <2>1, <3>1
    <3> HIDE DEF f
    <3> QED BY <1>5, <2>1, <3>1, <3>2, <3>3
  <2>2. CASE t \notin S
    <3>1. f[t] = j.srv[t] BY <2>2
    <3>2. j.srv[t].cancel \in BOOLEAN BY <1>1 DEF ServerRecord
    <3> HIDE DEF f
    <3> QED BY <2>2, <3>1, <3>2
  <2> QED BY <2>1, <2>2
<1> HIDE DEF f
<1>7. Others(j, [j EXCEPT !.srv = f]) /\ [j EXCEPT !.srv = f].srv = f
      /\ [j EXCEPT !.srv = f].server = j.server
      /\ [j EXCEPT !.srv = f].backsent = j.backsent
  BY <1>1 DEF Others, JobRecord
<1> QED BY <1>4, <1>6, <1>7

-----------------------------------------------------------------------------
(* What a call of serverComplete does to the job, before and after its     *)
(* last part: it goes forward, a job not replied to ends or gets an        *)
(* invalid reply only when all servers were asked and none is left, a      *)
(* valid answer decides it, and nothing else of it changes that a client   *)
(* could tell.                                                             *)
Alive(r) ==
    /\ r.live
    /\ \/ r.server # {}
       \/ r.status < JOB_RESPONDED /\ r.client.status # CLIENT_RESPONDED

Decided(j, m, how, r) ==
    m \in ValidResponse /\ j.status < JOB_GOTANSWER =>
      r.status >= JOB_GOTANSWER /\ r.reply \in {"early", how}

LastResort(j, m) == j.backsent /\ j.server = {} /\ m \notin ValidResponse

Course(j, how, r) ==
    /\ r.key = j.key /\ r.single = j.single
    /\ r.status = j.status \/ r.status >= JOB_GOTANSWER
    /\ r.reply = j.reply \/ (r.reply = how /\ r.status >= JOB_GOTANSWER)

Before(j, m, how, r, torn) ==
    /\ r \in JobRecord /\ r.status > JOB_BEGIN
    /\ Asked(r, torn) /\ Forward(j, r) /\ Decided(j, m, how, r) /\ Course(j, how, r)
    /\ j.reply = "none" /\ (~Alive(r) \/ r.reply = "invalid") =>
         LastResort(j, m)

After(j, m, how, r, torn) ==
    /\ Asked(r, torn) /\ Forward(j, r) /\ Decided(j, m, how, r) /\ Course(j, how, r)
    /\ j.reply = "none" /\ (~r.live \/ r.reply = "invalid") =>
         LastResort(j, m)

LEMMA SettleAfter ==
    ASSUME NEW torn \in BOOLEAN,
           NEW j \in JobRecord, NEW m, NEW how, NEW a, Before(j, m, how, a, torn)
    PROVE  After(j, m, how, Settle(a), torn)
<1> DEFINE r == Settle(a)
<1>1. a \in JobRecord /\ a.status > JOB_BEGIN /\ Asked(a, torn) /\ Forward(j, a)
  BY DEF Before
<1>2. /\ Keeps(a, r) /\ r.reply = a.reply
      /\ \/ r.status = a.status
         \/ a.status = JOB_GOTANSWER /\ r.status = JOB_RESPONDED
      /\ Alive(a) => r.live
  BY <1>1, SettleKeeps DEF Alive
<1>3. a.status \in 0 .. 5 /\ j.status \in 0 .. 5 BY <1>1, JobFields
<1> HIDE DEF r
<1>4. r.status \in 0 .. 5 /\ a.status <= r.status BY <1>2, <1>3
<1>5. a.status = JOB_EARLYRET => a.reply = "early"
  BY <1>1 DEF Asked, EarlyIsCached
<1>6. Asked(r, torn)
  <2>1. CASE a.status >= JOB_GOTANSWER
    <3>1. r.status >= JOB_GOTANSWER BY <1>3, <1>4, <2>1
    <3> QED BY <1>1, <1>2, <1>3, <1>4, <2>1, <3>1, KeepsAsked
  <2>2. CASE ~(a.status >= JOB_GOTANSWER)
    <3>1. r.status = a.status /\ a.status < JOB_GOTANSWER
      BY <1>2, <1>3, <2>2
    <3> QED BY <1>1, <1>2, <1>3, <1>4, <1>5, <3>1, KeepsAsked
  <2> QED BY <2>1, <2>2
<1>7. Forward(j, r) BY <1>1, <1>2, <1>3, <1>4 DEF Forward
<1>8. Decided(j, m, how, r) BY <1>2, <1>3, <1>4 DEF Before, Decided
<1>9. Course(j, how, r)
  BY <1>2, <1>3, <1>4 DEF Before, Course, Keeps
<1> QED BY <1>2, <1>6, <1>7, <1>8, <1>9 DEF Before, After, r

(* Between two calls, the reply tells the status.                          *)
LEMMA ReplyOfMid ==
    ASSUME NEW j, Mid(j)
    PROVE  /\ j.status \in 0 .. 5
           /\ j.reply = "none" =>
                j.status \in {JOB_BEGIN, JOB_REQUESTING, JOB_NOEARLYRET}
           /\ j.reply # "none" /\ j.status < JOB_GOTANSWER =>
                j.status = JOB_EARLYRET
           /\ j.status \in {JOB_BEGIN, JOB_REQUESTING, JOB_NOEARLYRET} =>
                j.client.status = CLIENT_WAITING
<1>1. j.status \in 0 .. 5 /\ j.client \in ClientRecord
  BY JobFields DEF Mid, Base
<1> QED BY <1>1 DEF Mid, MidClient, ClientRecord

LEMMA PreSettleType ==
    ASSUME NEW j, PreSettle(j)
    PROVE  j \in JobRecord /\ j.status > JOB_BEGIN
<1>1. j \in JobRecord /\ j.status \in 0 .. 5
  BY JobFields DEF PreSettle, Mid, Dead, Base
<1> QED BY <1>1 DEF PreSettle, Dead

LEMMA NoAnswerBefore ==
    ASSUME NEW torn \in BOOLEAN,
           NEW j, Mid(j), Asked(j, torn), j.server = {}, NEW how,
           j.status \in {JOB_REQUESTING, JOB_EARLYRET, JOB_NOEARLYRET},
           NEW F, j.backsent \/ FirstBack \notin F
    PROVE  Before(j, "none", how, NoAnswer(j, F), torn)
<1> DEFINE a == NoAnswer(j, F)
<1>1. j \in JobRecord /\ j.status \in 0 .. 5 BY ReplyOfMid DEF Mid, Base
<1>2. a \in JobRecord /\ a.status > JOB_BEGIN /\ a.status \in 0 .. 5
  BY NoAnswerSettles, PreSettleType, JobFields
<1>3. torn \/ MainOver(j)
  BY DEF Asked, MainAsked, MainOver
<1>4. CASE j.backsent
  <2>1. a = GiveUp(j) BY <1>4 DEF NoAnswer
  <2>2. Keeps(j, a) /\ a.reply = j.reply /\ a.status >= JOB_GOTANSWER
    BY <1>1, <2>1, GiveUpKeeps
  <2> HIDE DEF a
  <2>3. Asked(a, torn) BY <1>1, <1>2, <2>2, KeepsAsked
  <2>4. Forward(j, a) BY <1>1, <1>2, <2>2 DEF Forward
  <2>5. Course(j, how, a) BY <2>2 DEF Course, Keeps
  <2> QED BY <1>2, <1>4, <2>3, <2>4, <2>5 DEF Before, Decided, LastResort,
             ValidResponse, a
<1>5. CASE ~j.backsent
  <2> DEFINE b == SendBackservers(j, F)
  <2>1. Mid(b) /\ b.server # {} BY <1>5, MidBackservers
  <2>2. Asked(b, torn) /\ Others(j, b)
    BY <1>3, <1>5, BackserversAsked
  <2> HIDE DEF b
  <2>3. b.server # {} BY <2>1
  <2>4. a = b BY <1>5, <2>3 DEF NoAnswer, b
  <2> HIDE DEF a
  <2>5. Forward(j, a) BY <1>1, <2>2, <2>4 DEF Forward, Others
  <2>6. Alive(a) /\ a.reply = j.reply
    BY <2>1, <2>2, <2>3, <2>4 DEF Alive, Mid, Others
  <2>7. Course(j, how, a) BY <2>2, <2>4 DEF Course, Others
  <2> QED BY <1>2, <2>2, <2>4, <2>5, <2>6, <2>7
         DEF Before, Decided, ValidResponse, a
<1> QED BY <1>4, <1>5

(* The search is over: all servers are canceled.                           *)
LEMMA CancelAllAsked ==
    ASSUME NEW torn \in BOOLEAN, NEW d, Mid(d), d.status = JOB_GOTANSWER,
           torn \/ BacksAskedLate(d)
    PROVE  /\ Asked(CancelServers(d, d.server), torn)
           /\ Others(d, CancelServers(d, d.server))
<1> DEFINE r == CancelServers(d, d.server)
<1>1. Base(d) /\ d.server \subseteq Server BY JobFields DEF Mid, Base
<1>2. /\ Others(d, r) /\ r.backsent = d.backsent /\ r.server = d.server
      /\ \A t \in Server : /\ r.srv[t].status = d.srv[t].status
                           /\ r.srv[t].age = d.srv[t].age
                           /\ r.srv[t].cancel = (t \in d.server \/ d.srv[t].cancel)
  BY <1>1, CancelFields
<1>3. Main \subseteq Server /\ Backs \subseteq Server BY DEF Server
<1> HIDE DEF r
<1>4. torn \/ CanceledRight(r)
  <2>1. \A t \in r.server : r.srv[t].cancel BY <1>1, <1>2, Zenon
  <2>2. r.status >= JOB_GOTANSWER BY <1>2 DEF Others
  <2> QED BY <2>1, <2>2 DEF CanceledRight
<1>5. torn \/ MainAsked(r) BY <1>2 DEF MainAsked, Others
<1>6. torn \/ BacksAskedLate(r) BY <1>2, <1>3 DEF BacksAskedLate, MainOver, Others
<1>7. EarlyIsCached(r) BY <1>2 DEF EarlyIsCached, Others
<1> QED BY <1>2, <1>4, <1>5, <1>6, <1>7 DEF Asked, r

LEMMA DeliverBefore ==
    ASSUME NEW torn \in BOOLEAN,
           NEW j, Mid(j), Asked(j, torn), j.status < JOB_GOTANSWER,
           NEW m, m \notin ValidResponse => j.status > JOB_BEGIN,
           NEW how \in Reply \ {"none"}, m \in ValidResponse => how # "invalid",
           NEW F,
           m \in ValidResponse \/ j.server # {} \/ j.backsent \/ FirstBack \notin F
    PROVE  Before(j, m, how, Deliver(j, m, how, F), torn)
<1> DEFINE valid == m \in ValidResponse
           b == IF ~valid /\ j.server = {} /\ ~j.backsent
                THEN SendBackservers(j, F) ELSE j
           c == [b EXCEPT !.status = JOB_GOTANSWER]
           d == IF b.status = JOB_EARLYRET THEN c ELSE ClientResponse(c, how)
           r == CancelServers(d, d.server)
           a == Deliver(j, m, how, F)
<1>1. a = IF valid \/ b.server = {} THEN r ELSE b
  BY DEF Deliver
<1>2. a \in JobRecord /\ a.status > JOB_BEGIN
  BY DeliverSettles, PreSettleType
<1>3. j \in JobRecord /\ j.status \in 0 .. 5 BY ReplyOfMid DEF Mid, Base
<1>4. ~valid /\ j.server = {} => torn \/ MainOver(j)
  BY DEF Asked, MainAsked, MainOver
<1>6. /\ Mid(b) /\ Asked(b, torn) /\ Others(j, b)
      /\ ~valid /\ b.server = {} => LastResort(j, m)
  <2>1. CASE ~valid /\ j.server = {} /\ ~j.backsent
    <3>1. b = SendBackservers(j, F) BY <2>1
    <3> HIDE DEF b
    <3>2. Mid(b) /\ b.server # {} BY <2>1, <3>1, MidBackservers
    <3>3. Asked(b, torn) /\ Others(j, b)
      BY <1>4, <2>1, <3>1, BackserversAsked
    <3> QED BY <3>2, <3>3
  <2>2. CASE ~(~valid /\ j.server = {} /\ ~j.backsent)
    <3>1. b = j BY <2>2
    <3> HIDE DEF b
    <3> QED BY <2>2, <3>1 DEF Others, LastResort
  <2> QED BY <2>1, <2>2
<1> SUFFICES Before(j, m, how, a, torn) OBVIOUS
<1> HIDE DEF a, b
<1>7. CASE valid \/ b.server = {}
  <2>1. b \in JobRecord /\ Base(b) /\ b.live /\ ~b.uaf /\ b.errs = {}
    BY <1>6 DEF Mid, Base
  <2>2. /\ c \in JobRecord /\ c.status = JOB_GOTANSWER /\ c.client = b.client
        /\ c.reply = b.reply /\ c.live /\ ~c.uaf /\ c.errs = {} /\ Keeps(b, c)
    BY <2>1 DEF JobRecord, Keeps
  <2>3. Base(c) BY <2>1, StatusBase, JobStatus
  <2>4. b.status \in 0 .. 5 /\ b.status < JOB_GOTANSWER
    BY <1>3, <1>6 DEF Others
  <2> HIDE DEF c
  <2>5. /\ Mid(d) /\ d.status = JOB_GOTANSWER /\ Keeps(b, d)
        /\ IF b.status = JOB_EARLYRET THEN d.reply = b.reply
           ELSE d.reply = how /\ d.client.status = CLIENT_RESPONDING
    <3>1. CASE b.status = JOB_EARLYRET
      <4>1. d = c BY <3>1
      <4>2. MidClient(c) BY <1>6, <2>2, <3>1 DEF Mid, MidClient
      <4> HIDE DEF d
      <4> QED BY <2>2, <2>3, <3>1, <4>1, <4>2 DEF Mid
    <3>2. CASE b.status # JOB_EARLYRET
      <4>1. d = ClientResponse(c, how) BY <3>2
      <4>2. c.client.status = CLIENT_WAITING
        BY <1>6, <2>2, <2>4, <3>2, ReplyOfMid
      <4>3. Mid(d) /\ d.status = JOB_GOTANSWER
        BY <2>2, <2>3, <4>1, <4>2, MidResponse
      <4>4. Keeps(c, d) /\ d.reply = how /\ d.client.status = CLIENT_RESPONDING
        BY <2>2, <4>1, <4>2, ResponseKeeps
      <4>5. Keeps(b, d) BY <2>2, <4>4 DEF Keeps
      <4> QED BY <3>2, <4>3, <4>4, <4>5
    <3> QED BY <3>1, <3>2
  <2> HIDE DEF d
  <2>6. torn \/ BacksAskedLate(d)
    BY <1>6, <2>5 DEF Asked, BacksAskedLate, MainOver, Keeps
  <2>7. Asked(r, torn) /\ Others(d, r) BY <2>5, <2>6, CancelAllAsked
  <2> HIDE DEF r
  <2>8. b.status = JOB_EARLYRET => b.reply = "early"
    BY <1>6 DEF Asked, EarlyIsCached
  <2>9. r.status = JOB_GOTANSWER /\ r.live
        /\ IF b.status = JOB_EARLYRET THEN r.reply = "early" /\ b.reply = "early"
           ELSE r.reply = how /\ r.client.status = CLIENT_RESPONDING
    BY <2>5, <2>7, <2>8 DEF Others, Mid
  <2>10. j.status = b.status /\ j.reply = b.reply BY <1>6 DEF Others
  <2>11. j.reply # "none" => b.status = JOB_EARLYRET
    BY <2>4, <2>10, ReplyOfMid
  <2>12. Forward(j, r) BY <1>3, <2>4, <2>9, <2>10, <2>11 DEF Forward
  <2>13. Decided(j, m, how, r) BY <2>9 DEF Decided
  <2>14. j.reply = "none" => Alive(r) /\ r.reply = how
    BY <2>9, <2>10 DEF Alive
  <2>15. a = r BY <1>1, <1>7
  <2>16. Course(j, how, r)
    <3>1. r.key = j.key /\ r.single = j.single
      BY <1>6, <2>5, <2>7 DEF Others, Keeps
    <3> QED BY <2>9, <2>10, <3>1 DEF Course
  <2> QED BY <1>2, <1>6, <1>7, <2>7, <2>12, <2>13, <2>14, <2>15, <2>16
         DEF Before
<1>8. CASE ~(valid \/ b.server = {})
  <2>1. a = b BY <1>1, <1>8
  <2>2. Alive(b) /\ Forward(j, b) /\ b.reply = j.reply
    BY <1>3, <1>6, <1>8 DEF Alive, Mid, Others, Forward
  <2>3. Course(j, how, b) BY <1>6 DEF Course, Others
  <2> QED BY <1>2, <1>6, <1>8, <2>1, <2>2, <2>3 DEF Before, Decided
<1> QED BY <1>7, <1>8

LEMMA AnsweredAfter ==
    ASSUME NEW torn \in BOOLEAN, NEW j, Mid(j), Asked(j, torn),
           NEW m, m \notin ValidResponse => j.status > JOB_BEGIN,
           NEW how \in Reply \ {"none"}, m \in ValidResponse => how # "invalid",
           NEW F,
           \/ j.status >= JOB_GOTANSWER \/ m \in ValidResponse
           \/ j.server # {} \/ j.backsent \/ FirstBack \notin F
    PROVE  After(j, m, how, Answered(j, m, how, F), torn)
<1> DEFINE a == IF j.status >= JOB_GOTANSWER THEN j
                ELSE IF m # "none" THEN Deliver(j, m, how, F)
                ELSE IF j.server = {} THEN NoAnswer(j, F)
                ELSE j
<1>1. j \in JobRecord /\ j.status \in 0 .. 5 BY ReplyOfMid DEF Mid, Base
<1>2. Forward(j, j) /\ Course(j, how, j) BY <1>1 DEF Forward, Course
<1>3. Before(j, m, how, a, torn)
  <2>1. CASE j.status >= JOB_GOTANSWER
    <3>1. a = j BY <2>1
    <3>2. j.reply # "none" /\ j.status > JOB_BEGIN /\ ~(j.status < JOB_GOTANSWER)
      BY <1>1, <2>1, ReplyOfMid
    <3> HIDE DEF a
    <3> QED BY <1>1, <1>2, <3>1, <3>2 DEF Before, Decided
  <2>2. CASE ~(j.status >= JOB_GOTANSWER) /\ m # "none"
    <3>1. a = Deliver(j, m, how, F) BY <2>2
    <3>2. j.status < JOB_GOTANSWER BY <1>1, <2>2
    <3>3. \/ m \in ValidResponse \/ j.server # {}
          \/ j.backsent \/ FirstBack \notin F
      BY <2>2
    <3> HIDE DEF a
    <3> QED BY <3>1, <3>2, <3>3, DeliverBefore
  <2>3. CASE ~(j.status >= JOB_GOTANSWER) /\ m = "none"
    <3>1. j.status \in {JOB_REQUESTING, JOB_EARLYRET, JOB_NOEARLYRET}
      BY <1>1, <2>3 DEF ValidResponse
    <3>2. CASE j.server = {}
      <4>1. a = NoAnswer(j, F) BY <2>3, <3>2
      <4>2. j.backsent \/ FirstBack \notin F
        BY <2>3, <3>2 DEF ValidResponse
      <4> HIDE DEF a
      <4>3. Before(j, "none", how, NoAnswer(j, F), torn)
        BY <3>1, <3>2, <4>2, NoAnswerBefore
      <4> QED BY <2>3, <4>1, <4>3
    <3>3. CASE j.server # {}
      <4>1. a = j BY <2>3, <3>3
      <4>3. Alive(j) BY <3>3 DEF Mid, Alive
      <4>4. j.status > JOB_BEGIN BY <3>1
      <4> HIDE DEF a
      <4> QED BY <1>1, <1>2, <2>3, <4>1, <4>3, <4>4
             DEF Before, Decided, ValidResponse
    <3> QED BY <3>2, <3>3
  <2> QED BY <2>1, <2>2, <2>3
<1>4. Answered(j, m, how, F) = Settle(a) BY DEF Answered
<1> HIDE DEF a
<1> QED BY <1>1, <1>3, <1>4, SettleAfter

-----------------------------------------------------------------------------
(* What a handler may do to a job.  The first part is the invariant, the   *)
(* others are RepliedOnce and FailsIfAllFailed, of one job.                *)
Fails(j, r) ==
    j.live /\ j.reply = "none" /\ (~r.live \/ r.reply = "invalid") =>
      /\ j.backsent
      /\ Cardinality(j.server) = 1
      /\ \A s \in Main \ j.server : j.srv[s].status = SERVER_GOTANSWER

Moves(j, r, torn) ==
    /\ Asked(r, torn)
    /\ j.live /\ r.live => Forward(j, r)
    /\ torn \/ Fails(j, r)

(* serverComplete, for every response.                                     *)
LEMMA ServerCompleteMoves ==
    ASSUME NEW torn \in BOOLEAN,
           NEW j, Whole(j), Asked(j, torn), NEW s \in j.server, NEW m \in Response,
           NEW F, ~BacksFailAlone(j, s, m, F)
    PROVE  /\ Moves(j, ServerComplete(j, s, m, F), torn)
           /\ Decided(j, m, "answer", ServerComplete(j, s, m, F))
           /\ Course(j, IF m = "invalid" THEN "invalid" ELSE "answer",
                     ServerComplete(j, s, m, F))
           /\ j.reply = "none" /\ m \in ValidResponse =>
                ServerComplete(j, s, m, F).live
<1> DEFINE q == Remove(j, s)
           how == IF m = "invalid" THEN "invalid" ELSE "answer"
           r == ServerComplete(j, s, m, F)
<1>1. s \in Server /\ Base(j) /\ j \in JobRecord /\ Mid(j)
      /\ j.server \subseteq Server
  BY WholeMid, JobFields DEF Whole, Base
<1>2. Mid(q) /\ Asked(q, torn) /\ j.status > JOB_BEGIN
  BY <1>1, MidRemove, RemoveAsked
<1>3. Others(j, q) /\ q.backsent = j.backsent /\ q.server = j.server \ {s}
  BY <1>1, RemoveFields
<1>4. /\ how \in Reply \ {"none"}
      /\ m \in ValidResponse => how = "answer" /\ how # "invalid"
  BY DEF Reply, ValidResponse
<1>5. r = Answered(q, m, how, F) BY DEF ServerComplete
<1> HIDE DEF q, how, r
<1>6. q.status > JOB_BEGIN BY <1>2, <1>3 DEF Others
<1>13. \/ q.status >= JOB_GOTANSWER \/ m \in ValidResponse
       \/ q.server # {} \/ q.backsent \/ FirstBack \notin F
  <2>1. j.status \in 0 .. 5 /\ q.status = j.status
    BY <1>1, <1>3, JobFields DEF Others
  <2> QED BY <1>3, <2>1 DEF BacksFailAlone
<1>7. After(q, m, how, r, torn)
  BY <1>2, <1>4, <1>5, <1>6, <1>13, AnsweredAfter
<1>8. Asked(r, torn) /\ Forward(j, r) BY <1>3, <1>7 DEF After, Forward, Others
<1>9. Decided(j, m, "answer", r)
  BY <1>3, <1>4, <1>7 DEF After, Decided, Others
<1>10. ASSUME ~torn, j.reply = "none", ~r.live \/ r.reply = "invalid"
       PROVE  /\ j.backsent
              /\ Cardinality(j.server) = 1
              /\ \A t \in Main \ j.server : j.srv[t].status = SERVER_GOTANSWER
  <2>1. j.backsent /\ j.server = {s}
    BY <1>3, <1>7, <1>10 DEF After, LastResort, Others
  <2>2. Cardinality(j.server) = 1 BY <2>1, FS_Singleton
  <2>3. j.status < JOB_GOTANSWER BY <1>1, <1>10, ReplyOfMid
  <2> QED BY <1>2, <1>10, <2>1, <2>2, <2>3 DEF Asked, MainAsked
<1>11. Course(j, how, r) BY <1>3, <1>7 DEF After, Course, Others
<1>12. j.reply = "none" /\ m \in ValidResponse => r.live
  BY <1>3, <1>7 DEF After, LastResort, Others
<1> QED BY <1>8, <1>9, <1>10, <1>11, <1>12 DEF Moves, Fails, how, r

(* What a deleted job leaves behind.                                       *)
LEMMA NoJobAsked ==
    /\ \A torn \in BOOLEAN : Asked(NoJob, torn)
    /\ ~NoJob.live /\ NoJob.server = {}
<1>1. /\ NoJob.backsent /\ NoJob.server = {} /\ NoJob.status = JOB_BEGIN
      /\ ~NoJob.live
      /\ \A s \in Server : NoJob.srv[s].status = SERVER_BEGIN
  BY DEF NoJob, NewServer, ServerIn
<1>2. Backs \subseteq Server BY DEF Server
<1> QED BY <1>1, <1>2 DEF Asked, CanceledRight, MainAsked, BacksAskedLate,
           EarlyIsCached

LEMMA AtRestWhole ==
    ASSUME NEW r, Whole(r)
    PROVE  AtRest(r) = r
BY DEF AtRest, Whole, Base, JobRecord

LEMMA AtRestMoves ==
    ASSUME NEW torn \in BOOLEAN, NEW j, NEW r, Returned(r), Moves(j, r, torn)
    PROVE  Moves(j, AtRest(r), torn)
<1>1. CASE Whole(r) BY <1>1, AtRestWhole
<1>2. CASE ~r.live /\ r.server = {}
  <2>1. AtRest(r) = NoJob BY <1>2 DEF AtRest
  <2>2. NoJob.live = FALSE /\ r.live = FALSE
    BY <1>2, NoJobType, JobFields DEF Returned
  <2>3. Asked(NoJob, torn) BY NoJobAsked
  <2> QED BY <2>1, <2>2, <2>3 DEF Moves, Fails
<1> QED BY <1>1, <1>2 DEF Returned

(* A new job, answered by the cache or by hosts.ext, or sent to the main   *)
(* servers.                                                                *)
LEMMA NewJobAsked ==
    ASSUME NEW torn \in BOOLEAN,
           NEW k \in Key \cup {NoKey}, NEW one \in BOOLEAN
    PROVE  /\ Asked(NewJob(k, one), torn)
           /\ NewJob(k, one) \in JobRecord
           /\ NewJob(k, one).status = JOB_BEGIN
           /\ NewJob(k, one).server = {}
           /\ NewJob(k, one).backsent \/ Backs # {}
           /\ \A s \in Server : NewJob(k, one).srv[s].status = SERVER_BEGIN
<1> DEFINE n == NewJob(k, one)
<1>1. /\ n.server = {} /\ n.status = JOB_BEGIN
      /\ n.backsent \/ Backs # {}
      /\ \A s \in Server : n.srv[s].status = SERVER_BEGIN
  BY DEF NewJob, NoJob, NewServer, ServerIn
<1>2. n \in JobRecord BY NewJobMid DEF Mid, Base
<1>3. Backs \subseteq Server BY DEF Server
<1> HIDE DEF n
<1>4. Asked(n, torn)
  BY <1>1, <1>3 DEF Asked, CanceledRight, MainAsked, BacksAskedLate, EarlyIsCached
<1> QED BY <1>1, <1>2, <1>4 DEF n

LEMMA SendServersAsked ==
    ASSUME NEW torn \in BOOLEAN,
           NEW k \in Key \cup {NoKey}, NEW one \in BOOLEAN,
           NEW F, FirstServer \notin F
    PROVE  Asked(SendServers(NewJob(k, one), F), torn)
<1> DEFINE n == NewJob(k, one)
           a == [n EXCEPT !.status = JOB_REQUESTING]
           r == Launch(a, Main, F)
<1>1. SendServers(n, F) = r BY DEF SendServers
<1>2. /\ n \in JobRecord /\ n.server = {} /\ (n.backsent \/ Backs # {})
      /\ \A s \in Server : n.srv[s].status = SERVER_BEGIN
  BY NewJobAsked
<1> HIDE DEF n
<1>3. a \in JobRecord /\ a.status = JOB_REQUESTING /\ Keeps(n, a)
  BY <1>2 DEF JobRecord, Keeps
<1> HIDE DEF a
<1>4. Main \subseteq Server /\ Backs \subseteq Server /\ Main \cap Backs = {}
  BY ServerAssumption DEF Server
<1>5. /\ Others(a, r) /\ r.backsent = a.backsent
      /\ r.server = Sent(a, Main, F)
      /\ \A t \in Server : r.srv[t] =
           IF t \in Main \cap F THEN DoneServer
           ELSE IF t \in Main THEN SentServer(t) ELSE a.srv[t]
  BY <1>3, <1>4, LaunchFields
<1> HIDE DEF r
<1>6. /\ r.status = JOB_REQUESTING /\ r.server = Main \ F
      /\ r.backsent \/ Backs # {}
      /\ \A t \in Server : r.srv[t] =
           IF t \in Main \cap F THEN DoneServer
           ELSE IF t \in Main THEN SentServer(t) ELSE n.srv[t]
  BY <1>2, <1>3, <1>5 DEF Keeps, Others, Sent
<1>7. torn \/ CanceledRight(r) BY <1>4, <1>6, SentFields DEF CanceledRight
<1>8. torn \/ MainAsked(r) BY <1>4, <1>6, SentFields DEF MainAsked
<1>9. torn \/ BacksAskedLate(r) BY <1>2, <1>4, <1>6 DEF BacksAskedLate
<1>10. EarlyIsCached(r) BY <1>6 DEF EarlyIsCached
<1> QED BY <1>1, <1>7, <1>8, <1>9, <1>10 DEF Asked, n

(* The reply is sent.                                                      *)
LEMMA ClientRespondedMoves ==
    ASSUME NEW torn \in BOOLEAN,
           NEW j, Whole(j), Asked(j, torn), j.client.send # "none"
    PROVE  Moves(j, ClientResponded(j), torn)
<1> DEFINE c == [j EXCEPT !.client = ClientIn(CLIENT_RESPONDED, "none")]
           r == ClientResponded(j)
<1>1. j \in JobRecord /\ j.status \in 0 .. 5 BY JobFields DEF Whole, Base
<1>2. /\ j.client.status = CLIENT_RESPONDING /\ j.reply # "none"
      /\ \/ j.status = JOB_GOTANSWER
         \/ j.status = JOB_EARLYRET /\ j.server # {}
  BY <1>1 DEF Whole, ClientInv
<1>3. ClientIn(CLIENT_RESPONDED, "none") \in ClientRecord BY ClientInType
<1>4. c \in JobRecord /\ Keeps(j, c) /\ c.reply = j.reply /\ c.status = j.status
  BY <1>1, <1>3 DEF JobRecord, Keeps
<1>5. r = ClientComplete(c) BY <1>2 DEF ClientResponded
<1> HIDE DEF c, r
<1>6. /\ Keeps(c, r) /\ r.reply = c.reply
      /\ r.status = IF c.status = JOB_EARLYRET /\ c.server # {}
                    THEN c.status ELSE JOB_RESPONDED
  BY <1>4, <1>5, ClientCompleteKeeps
<1>7. Keeps(j, r) /\ r.reply = j.reply /\ r.status =
        IF j.status = JOB_EARLYRET THEN JOB_EARLYRET ELSE JOB_RESPONDED
  BY <1>2, <1>4, <1>6 DEF Keeps
<1>8. Asked(r, torn)
  <2>1. j.status = JOB_EARLYRET => j.reply = "early"
    BY DEF Asked, EarlyIsCached
  <2> QED BY <1>1, <1>2, <1>7, <2>1, KeepsAsked
<1>9. Forward(j, r) BY <1>1, <1>7 DEF Forward
<1> QED BY <1>2, <1>8, <1>9 DEF Moves, Fails, r

-----------------------------------------------------------------------------
(* The heartbeat of a job.                                                 *)
Unseen(j, r) ==
    /\ r.status = j.status /\ r.reply = j.reply
    /\ r.key = j.key /\ r.single = j.single

Beats(j, e, r) ==
    \/ Unseen(j, r)
    \/ /\ j.status = JOB_REQUESTING
       /\ r.key = j.key /\ r.single = j.single
       /\ \/ r.status = JOB_NOEARLYRET /\ r.reply = j.reply
          \/ /\ j.single /\ e /\ j.reply = "none"
             /\ r.status = JOB_EARLYRET /\ r.reply = "early"

LEMMA EarlyReturnBeats ==
    ASSUME NEW torn \in BOOLEAN,
           NEW j, Whole(j), Asked(j, torn), NEW e \in BOOLEAN
    PROVE  Asked(EarlyReturn(j, e), torn) /\ Beats(j, e, EarlyReturn(j, e))
<1> DEFINE r == EarlyReturn(j, e)
<1>1. j \in JobRecord /\ j.status \in 0 .. 5 BY JobFields DEF Whole, Base
<1>2. CASE ~(j.status = JOB_REQUESTING /\ 0 < EarlyTimeout /\ j.age > EarlyTimeout)
  <2>1. r = j BY <1>2 DEF EarlyReturn
  <2> HIDE DEF r
  <2> QED BY <2>1 DEF Beats, Unseen, r
<1>3. CASE j.status = JOB_REQUESTING /\ 0 < EarlyTimeout /\ j.age > EarlyTimeout
  <2>1. j.client.status = CLIENT_WAITING /\ j.reply = "none"
    BY <1>1, <1>3, WholeMid, ReplyOfMid DEF Whole, ClientInv
  <2>2. CASE j.single /\ e
    <3> DEFINE a == [j EXCEPT !.status = JOB_EARLYRET]
    <3>1. r = ClientResponse(a, "early") BY <1>3, <2>2 DEF EarlyReturn
    <3>2. /\ a \in JobRecord /\ a.status = JOB_EARLYRET /\ Keeps(j, a)
          /\ a.client.status = CLIENT_WAITING
      BY <1>1, <2>1 DEF JobRecord, Keeps
    <3> HIDE DEF a, r
    <3>3. Keeps(a, r) /\ r.status = a.status /\ r.reply = "early"
      BY <3>1, <3>2, ResponseKeeps
    <3>4. Keeps(j, r) /\ r.status = JOB_EARLYRET
      BY <3>2, <3>3 DEF Keeps
    <3>5. Asked(r, torn) BY <1>1, <1>3, <3>3, <3>4, KeepsAsked
    <3> QED BY <1>3, <2>1, <2>2, <3>3, <3>4, <3>5 DEF Beats, Keeps, r
  <2>3. CASE ~(j.single /\ e)
    <3>1. r = [j EXCEPT !.status = JOB_NOEARLYRET]
      BY <1>3, <2>3 DEF EarlyReturn
    <3> HIDE DEF r
    <3>2. r.status = JOB_NOEARLYRET /\ Keeps(j, r) /\ r.reply = j.reply
      BY <1>1, <3>1 DEF JobRecord, Keeps
    <3>3. Asked(r, torn) BY <1>1, <1>3, <3>2, KeepsAsked
    <3> QED BY <1>3, <3>2, <3>3 DEF Beats, Keeps, r
  <2> QED BY <2>2, <2>3
<1> QED BY <1>2, <1>3

LEMMA BackHeartBeatUnseen ==
    ASSUME NEW torn \in BOOLEAN, NEW j, Whole(j), Asked(j, torn),
           NEW F
    PROVE  Asked(BackHeartBeat(j, F), torn) /\ Unseen(j, BackHeartBeat(j, F))
<1> DEFINE r == SendBackservers(j, F)
           C == /\ ~j.backsent
                /\ JOB_REQUESTING <= j.status /\ j.status < JOB_GOTANSWER
                /\ 0 < BackTimeout /\ BackTimeout < j.age /\ j.age < Timeout
<1>1. BackHeartBeat(j, F) = IF C THEN r ELSE j BY DEF BackHeartBeat
<1>2. Mid(j) /\ j.status \in 0 .. 5 /\ j.age \in Age
  BY WholeMid, JobFields DEF Whole, Base, JobRecord
<1>3. CASE C
  <2>1. j.age > BackTimeout
    <3>1. j.age \in Nat /\ BackTimeout \in Nat
      BY <1>2, AgeType, TimeoutAssumption DEF Age
    <3> QED BY <1>3, <3>1
  <2>3. j.server # {} /\ j.status < JOB_GOTANSWER BY <1>2, <1>3 DEF Whole, ClientInv
  <2>2. Asked(r, torn) /\ Others(j, r)
    BY <1>2, <1>3, <2>1, <2>3, BackserversAsked
  <2> HIDE DEF r
  <2> QED BY <1>1, <1>3, <2>2 DEF Unseen, Others
<1>4. CASE ~C
  <2> HIDE DEF C, r
  <2> QED BY <1>1, <1>4 DEF Unseen
<1> QED BY <1>3, <1>4

LEMMA ServersHeartBeatUnseen ==
    ASSUME NEW torn \in BOOLEAN, NEW j, Whole(j), Asked(j, torn)
    PROVE  Asked(ServersHeartBeat(j), torn) /\ Unseen(j, ServersHeartBeat(j))
<1> DEFINE S == {s \in j.server :
                   /\ j.srv[s].status \in {SERVER_SENDING, SERVER_WAITING}
                   /\ j.srv[s].age > Timeout}
           r == CancelServers(j, S)
<1>1. ServersHeartBeat(j) = r BY DEF ServersHeartBeat
<1>2. Base(j) /\ j.status \in 0 .. 5 /\ j.server \subseteq Server
  BY JobFields DEF Whole, Base
<1>3. /\ S \in SUBSET j.server
      /\ \A t \in S : j.srv[t].age > Timeout
  OBVIOUS
<1> HIDE DEF S
<1>4. /\ Others(j, r) /\ r.backsent = j.backsent /\ r.server = j.server
      /\ \A t \in Server : /\ r.srv[t].status = j.srv[t].status
                           /\ r.srv[t].age = j.srv[t].age
                           /\ r.srv[t].cancel = (t \in S \/ j.srv[t].cancel)
  BY <1>2, <1>3, CancelFields
<1> HIDE DEF r
<1>5. Main \subseteq Server /\ Backs \subseteq Server BY DEF Server
<1>6. torn \/ CanceledRight(r)
  <2>1. r.status = j.status /\ r.server = j.server BY <1>4 DEF Others
  <2>2. ASSUME ~torn, NEW t \in j.server
        PROVE  /\ j.status >= JOB_GOTANSWER => r.srv[t].cancel
               /\ r.srv[t].cancel =>
                    j.status >= JOB_GOTANSWER \/ r.srv[t].age > Timeout
    <3>1. t \in Server /\ r.srv[t].age = j.srv[t].age
          /\ r.srv[t].cancel = (t \in S \/ j.srv[t].cancel)
      BY <1>2, <1>4
    <3>2. /\ j.status >= JOB_GOTANSWER => j.srv[t].cancel
          /\ j.srv[t].cancel =>
               j.status >= JOB_GOTANSWER \/ j.srv[t].age > Timeout
      BY <2>2 DEF Asked, CanceledRight
    <3>3. t \in S => j.srv[t].age > Timeout BY <1>3
    <3> QED BY <3>1, <3>2, <3>3, Zenon
  <2> QED BY <2>1, <2>2 DEF CanceledRight
<1>7. torn \/ MainAsked(r) BY <1>4, <1>5 DEF Asked, MainAsked, Others
<1>8. torn \/ BacksAskedLate(r)
  BY <1>4, <1>5 DEF Asked, BacksAskedLate, MainOver, Others
<1>9. EarlyIsCached(r) BY <1>4 DEF Asked, EarlyIsCached, Others
<1>10. Unseen(j, r) BY <1>4 DEF Unseen, Others
<1> QED BY <1>1, <1>6, <1>7, <1>8, <1>9, <1>10 DEF Asked

LEMMA ClientHeartBeatUnseen ==
    ASSUME NEW torn \in BOOLEAN, NEW j, Whole(j), Asked(j, torn)
    PROVE  Asked(ClientHeartBeat(j), torn) /\ Unseen(j, ClientHeartBeat(j))
<1> DEFINE r == ClientHeartBeat(j)
<1>1. /\ j \in JobRecord /\ j.status \in 0 .. 5 /\ j.status > JOB_BEGIN
  BY JobFields DEF Whole, Base, ClientInv
<1>2. Keeps(j, r) /\ r.status = j.status /\ r.reply = j.reply
  <2>1. CASE j.client.status = CLIENT_RESPONDING /\ j.client.age > Timeout
    <3>1. r = ClientCancel(j) BY <2>1 DEF ClientHeartBeat
    <3> HIDE DEF r
    <3> QED BY <1>1, <2>1, <3>1, ClientCancelKeeps
  <2>2. CASE ~(j.client.status = CLIENT_RESPONDING /\ j.client.age > Timeout)
    <3>1. r = j BY <2>2 DEF ClientHeartBeat
    <3> HIDE DEF r
    <3> QED BY <3>1 DEF Keeps
  <2> QED BY <2>1, <2>2
<1> HIDE DEF r
<1>3. j.status = JOB_EARLYRET => j.reply = "early"
  BY DEF Asked, EarlyIsCached
<1>4. Asked(r, torn)
  <2>1. CASE j.status >= JOB_GOTANSWER
    BY <1>1, <1>2, <2>1, KeepsAsked
  <2>2. CASE ~(j.status >= JOB_GOTANSWER)
    <3>1. j.status < JOB_GOTANSWER BY <1>1, <2>2
    <3> QED BY <1>1, <1>2, <1>3, <3>1, KeepsAsked
  <2> QED BY <2>1, <2>2
<1> QED BY <1>2, <1>4 DEF Unseen, Keeps, r

LEMMA HeartBeatMoves ==
    ASSUME NEW torn \in BOOLEAN,
           NEW j, Whole(j), Asked(j, torn), NEW e \in BOOLEAN,
           NEW F
    PROVE  /\ Whole(HeartBeat(j, e, F))
           /\ Moves(j, HeartBeat(j, e, F), torn)
           /\ Beats(j, e, HeartBeat(j, e, F))
<1> DEFINE a == EarlyReturn(j, e)
           b == BackHeartBeat(a, F)
           c == ServersHeartBeat(b)
           r == ClientHeartBeat(c)
<1>1. HeartBeat(j, e, F) = r BY DEF HeartBeat
<1>2. Whole(a) /\ Asked(a, torn) /\ Beats(j, e, a)
  BY EarlyReturnWhole, EarlyReturnBeats
<1> HIDE DEF a
<1>3. Whole(b) /\ Asked(b, torn) /\ Unseen(a, b)
  BY <1>2, BackHeartBeatWhole, BackHeartBeatUnseen
<1> HIDE DEF b
<1>4. Whole(c) /\ Asked(c, torn) /\ Unseen(b, c)
  BY <1>3, ServersHeartBeatWhole, ServersHeartBeatUnseen
<1> HIDE DEF c
<1>5. Whole(r) /\ Asked(r, torn) /\ Unseen(c, r)
  BY <1>4, ClientHeartBeatWhole, ClientHeartBeatUnseen
<1> HIDE DEF r
<1>6. Beats(j, e, r) BY <1>2, <1>3, <1>4, <1>5 DEF Beats, Unseen
<1>7. j.status \in 0 .. 5 BY JobFields DEF Whole, Base
<1>8. Forward(j, r) BY <1>6, <1>7 DEF Beats, Unseen, Forward
<1>9. Moves(j, r, torn)
  BY <1>5, <1>6, <1>8 DEF Beats, Unseen, Moves, Fails, Whole
<1> QED BY <1>1, <1>5, <1>6, <1>9

-----------------------------------------------------------------------------
(* Steps that leave the job's course alone.                                *)
LEMMA SameMoves ==
    ASSUME NEW torn \in BOOLEAN,
           NEW j, NEW r, j.status \in 0 .. 5, Asked(r, torn), r.status = j.status,
           r.reply = j.reply, r.live = j.live
    PROVE  Moves(j, r, torn)
BY DEF Moves, Fails, Forward

(* A server goes on: neither its age nor whether it is canceled changes.   *)
LEMMA GoesOnMoves ==
    ASSUME NEW torn \in BOOLEAN,
           NEW j, Whole(j), Asked(j, torn), NEW s \in j.server,
           NEW v \in ServerRecord, v.cancel = j.srv[s].cancel,
           v.age = j.srv[s].age, v.status \in {SERVER_SENDING, SERVER_WAITING}
    PROVE  Moves(j, [j EXCEPT !.srv[s] = v], torn)
<1> DEFINE r == [j EXCEPT !.srv[s] = v]
<1>1. /\ j \in JobRecord /\ j.status \in 0 .. 5 /\ s \in Server
      /\ j.server \subseteq Server /\ ServerInv(j, s)
      /\ j.srv \in [Server -> ServerRecord]
  BY JobFields DEF Whole, Base
<1>2. /\ Others(j, r) /\ r.server = j.server /\ r.backsent = j.backsent
      /\ \A t \in Server : r.srv[t] = IF t = s THEN v ELSE j.srv[t]
  BY <1>1 DEF JobRecord, Others
<1> HIDE DEF r
<1>3. j.srv[s].status \in {SERVER_SENDING, SERVER_WAITING}
  BY <1>1 DEF ServerInv
<1>4. Main \subseteq Server /\ Backs \subseteq Server BY DEF Server
<1>5. torn \/ CanceledRight(r) BY <1>1, <1>2 DEF Asked, CanceledRight, Others
<1>6. torn \/ MainAsked(r) BY <1>2, <1>4 DEF Asked, MainAsked, Others
<1>7. torn \/ BacksAskedLate(r)
  BY <1>2, <1>3, <1>4 DEF Asked, BacksAskedLate, MainOver, Others
<1>8. EarlyIsCached(r) BY <1>2 DEF Asked, EarlyIsCached, Others
<1> QED BY <1>1, <1>2, <1>5, <1>6, <1>7, <1>8, SameMoves DEF Asked, Others, r

LEMMA AgedMoves ==
    ASSUME NEW torn \in BOOLEAN, NEW j, Whole(j), Asked(j, torn)
    PROVE  Moves(j, Aged(j), torn)
<1> DEFINE f == [s \in Server |->
                   IF s \in j.server THEN Aging(j.srv[s]) ELSE j.srv[s]]
           c == IF j.client.status = CLIENT_RESPONDING
                THEN Aging(j.client) ELSE j.client
           r == [j EXCEPT !.age = Older(j.age), !.client = c, !.srv = f]
<1>1. Aged(j) = r BY DEF Aged
<1>2. /\ j \in JobRecord /\ j.status \in 0 .. 5 /\ j.server \subseteq Server
      /\ j.srv \in [Server -> ServerRecord] /\ j.age \in Age
  BY JobFields DEF Whole, Base, JobRecord
<1>3. ASSUME NEW a \in Age, NEW n \in Nat, a > n PROVE Older(a) > n
  BY <1>3, AgeType DEF Older, Age
<1>4. ASSUME NEW t \in Server
      PROVE  /\ f[t].status = j.srv[t].status
             /\ f[t].cancel = j.srv[t].cancel
             /\ j.srv[t].age > Timeout => f[t].age > Timeout
  <2>1. PICK v \in ServerRecord : v = j.srv[t] BY <1>2
  <2>2. /\ Aging(v).status = v.status /\ Aging(v).cancel = v.cancel
        /\ Aging(v).age = Older(v.age) /\ v.age \in Age
    BY DEF Aging, ServerRecord
  <2>3. v.age > Timeout => Older(v.age) > Timeout
    BY <1>3, <2>2, TimeoutAssumption
  <2>4. f[t] = IF t \in j.server THEN Aging(v) ELSE v BY <2>1
  <2> HIDE DEF f
  <2> QED BY <2>1, <2>2, <2>3, <2>4
<1> HIDE DEF f, c
<1>5. /\ r.status = j.status /\ r.reply = j.reply /\ r.live = j.live
      /\ r.server = j.server /\ r.backsent = j.backsent
      /\ r.srv = f /\ r.age = Older(j.age)
  BY <1>2 DEF JobRecord
<1>6. j.age > BackTimeout => r.age > BackTimeout
  BY <1>2, <1>3, <1>5, TimeoutAssumption
<1> HIDE DEF r
<1>7. Main \subseteq Server /\ Backs \subseteq Server BY DEF Server
<1>8. torn \/ CanceledRight(r) BY <1>2, <1>4, <1>5 DEF Asked, CanceledRight
<1>9. torn \/ MainAsked(r) BY <1>4, <1>5, <1>7 DEF Asked, MainAsked
<1>10. torn \/ BacksAskedLate(r)
  BY <1>4, <1>5, <1>6, <1>7 DEF Asked, BacksAskedLate, MainOver
<1>11. EarlyIsCached(r) BY <1>5 DEF Asked, EarlyIsCached
<1> QED BY <1>1, <1>2, <1>5, <1>8, <1>9, <1>10, <1>11, SameMoves DEF Asked

-----------------------------------------------------------------------------
(* The handlers of the event loop.  AllAsked joins the invariant of        *)
(* AHostsProofs.                                                           *)
AllAsked ==
    \A torn \in BOOLEAN, i \in Job :
      torn \/ i \notin alone => Asked(jobs[i], torn)

JobsMove ==
    \A torn \in BOOLEAN, i \in Job :
      torn \/ i \notin alone' => Moves(jobs[i], jobs'[i], torn)

LEMMA StillMoves ==
    ASSUME NEW torn \in BOOLEAN, NEW j \in JobRecord, Asked(j, torn)
    PROVE  Moves(j, j, torn)
BY JobFields, SameMoves

(* A handler that changes one job.                                         *)
LEMMA OneMoves ==
    ASSUME Inv, AllAsked, NEW i \in Job, NEW r,
           jobs' = [jobs EXCEPT ![i] = r], alone \ {i} \subseteq alone',
           \A torn \in BOOLEAN :
             torn \/ i \notin alone' => Moves(jobs[i], r, torn)
    PROVE  JobsMove
<1> SUFFICES ASSUME NEW torn \in BOOLEAN, NEW k \in Job,
                    torn \/ k \notin alone'
             PROVE  Moves(jobs[k], jobs'[k], torn)
  BY DEF JobsMove
<1>1. CASE k = i
  <2>1. jobs'[k] = r BY <1>1 DEF Inv
  <2> QED BY <1>1, <2>1
<1>2. CASE k # i
  <2>1. jobs'[k] = jobs[k] /\ jobs[k] \in JobRecord BY <1>2 DEF Inv
  <2>2. Asked(jobs[k], torn) BY <1>2 DEF AllAsked
  <2> QED BY <2>1, <2>2, StillMoves
<1> QED BY <1>1, <1>2

LEMMA SameJobsMove ==
    ASSUME Inv, AllAsked, UNCHANGED <<jobs, alone>>
    PROVE  JobsMove
<1>1. \A i \in Job : jobs[i] \in JobRecord BY DEF Inv
<1> QED BY <1>1, StillMoves DEF AllAsked, JobsMove

(* A job given up in the middle of a loop.                                 *)
LEMMA TornAtRest ==
    ASSUME NEW j \in JobRecord, NEW r, Torn(r, j)
    PROVE  /\ AtRest(r).live = r.live
           /\ AtRest(r).status # JOB_EARLYRET
           /\ r.live => /\ AtRest(r).status = JOB_GOTANSWER
                        /\ AtRest(r).reply = j.reply
                        /\ AtRest(r).key = j.key /\ AtRest(r).single = j.single
<1>1. r \in JobRecord /\ r.live \in BOOLEAN
  BY JobFields DEF Torn, Lost, Late, Base
<1>2. CASE r.live \/ r.server # {}
  <2> DEFINE q == [r EXCEPT !.uaf = FALSE, !.errs = {}]
  <2>1. AtRest(r) = q BY <1>2 DEF AtRest
  <2>2. /\ q.live = r.live /\ q.status = r.status /\ q.reply = r.reply
        /\ q.key = r.key /\ q.single = r.single
    BY <1>1 DEF JobRecord
  <2> HIDE DEF q
  <2> QED BY <2>1, <2>2 DEF Torn, Lost, Late
<1>3. CASE ~(r.live \/ r.server # {})
  <2>1. AtRest(r) = NoJob BY <1>3 DEF AtRest
  <2>2. NoJob.live = FALSE /\ NoJob.status = JOB_BEGIN BY DEF NoJob
  <2>3. r.live = FALSE BY <1>1, <1>3
  <2>4. NoJob.status # JOB_EARLYRET BY <2>2
  <2> QED BY <2>1, <2>2, <2>3, <2>4, Zenon
<1> QED BY <1>2, <1>3

LEMMA TornMoves ==
    ASSUME NEW j \in JobRecord, NEW r, Torn(r, j),
           j.live => j.status < JOB_GOTANSWER
    PROVE  Moves(j, AtRest(r), TRUE)
<1>1. j.status \in 0 .. 5 BY JobFields
<1> QED BY <1>1, TornAtRest DEF Moves, Asked, EarlyIsCached, Forward

LEMMA DeletedMoves ==
    ASSUME NEW j, ~j.live, NEW r, r.status # JOB_EARLYRET
    PROVE  Moves(j, r, TRUE)
BY DEF Moves, Asked, EarlyIsCached

LEMMA OnUdpRequestMoves ==
    ASSUME Inv, AllAsked, NEW i \in Job, OnUdpRequest(i)
    PROVE  JobsMove
<1>1. ASSUME NEW r, NEW torn \in BOOLEAN, Asked(r, torn), jobs[i] = NoJob
      PROVE  Moves(jobs[i], r, torn)
  BY <1>1, NoJobType DEF Moves, Fails
<1>2. ASSUME NEW r, NEW torn \in BOOLEAN, Returned(r), Asked(r, torn)
      PROVE  Asked(AtRest(r), torn)
  <2>1. CASE Whole(r) BY <1>2, <2>1, AtRestWhole
  <2>2. CASE ~r.live /\ r.server = {}
    BY <2>2, NoJobAsked DEF AtRest
  <2> QED BY <1>2, <2>1, <2>2 DEF Returned
<1>7. jobs[i] = NoJob BY DEF OnUdpRequest
<1>3. ASSUME NEW k \in Key \cup {NoKey}, NEW one \in BOOLEAN,
             Enters(i, NewJob(k, one))
      PROVE  JobsMove
  <2> DEFINE n == NewJob(k, one)
  <2>1. PICK F \in SUBSET BindFaults :
          /\ Return(i, SendServers(n, F))
          /\ alone' = IF FirstServer \in F THEN alone \cup {i} ELSE alone \ {i}
    BY <1>3 DEF Enters
  <2> DEFINE r == SendServers(n, F)
  <2>2. /\ Mid(n) /\ n.status = JOB_BEGIN /\ n.server = {}
        /\ n \in JobRecord
    BY NewJobMid, NewJobAsked
  <2>3. ASSUME NEW torn \in BOOLEAN, torn \/ i \notin alone'
        PROVE  Asked(AtRest(r), torn)
    <3>1. CASE FirstServer \notin F
      <4>1. Returned(r) BY <2>2, <3>1, SendServersReturns
      <4>2. Asked(r, torn) BY <3>1, SendServersAsked
      <4> QED BY <1>2, <4>1, <4>2
    <3>2. CASE FirstServer \in F
      <4>1. torn = TRUE BY <2>1, <2>3, <3>2
      <4> HIDE DEF n
      <4>2. \/ Torn(r, n)
            \/ Returned(r) /\ r.status = JOB_REQUESTING
        BY <2>1, <2>2, <3>2, Faulty, SendServersTorn
      <4> HIDE DEF r
      <4>3. CASE Torn(r, n)
        <5>1. AtRest(r).status # JOB_EARLYRET BY <2>2, <4>3, TornAtRest
        <5> QED BY <4>1, <5>1 DEF Asked, EarlyIsCached
      <4>4. CASE Returned(r) /\ r.status = JOB_REQUESTING
        <5>1. Asked(r, TRUE) BY <4>4 DEF Asked, EarlyIsCached
        <5> QED BY <1>2, <4>1, <4>4, <5>1
      <4> QED BY <4>2, <4>3, <4>4
    <3> QED BY <3>1, <3>2
  <2> HIDE DEF r, n
  <2>4. \A torn \in BOOLEAN :
          torn \/ i \notin alone' => Moves(jobs[i], AtRest(r), torn)
    BY <1>1, <1>7, <2>3
  <2>5. jobs' = [jobs EXCEPT ![i] = AtRest(r)] BY <2>1 DEF Return, r
  <2>6. alone \ {i} \subseteq alone' BY <2>1
  <2> QED BY <2>4, <2>5, <2>6, OneMoves
<1>4. ASSUME NEW k \in Key \cup {NoKey}, NEW how \in {"cache", "hosts"},
             Return(i, LocalComplete(NewJob(k, TRUE), how)),
             alone' = alone \ {i}
      PROVE  JobsMove
  <2> DEFINE n == NewJob(k, TRUE)
             r == LocalComplete(n, how)
  <2>1. Mid(n) /\ \A torn \in BOOLEAN : Asked(n, torn)
    BY NewJobMid, NewJobAsked
  <2> HIDE DEF n
  <2>2. Returned(r) BY <2>1, LocalCompleteReturns
  <2>3. r = Answered(n, "fresh", how, {}) BY DEF LocalComplete
  <2>4. how \in Reply \ {"none"} /\ how # "invalid" /\ "fresh" \in ValidResponse
    BY DEF Reply, ValidResponse
  <2>5. ASSUME NEW torn \in BOOLEAN PROVE Asked(r, torn)
    <3>1. After(n, "fresh", how, Answered(n, "fresh", how, {}), torn)
      BY <2>1, <2>4, AnsweredAfter
    <3> QED BY <2>3, <3>1 DEF After
  <2>6. jobs' = [jobs EXCEPT ![i] = AtRest(r)] BY <1>4 DEF Return, n, r
  <2> HIDE DEF r
  <2>7. \A torn \in BOOLEAN : Moves(jobs[i], AtRest(r), torn)
    BY <1>1, <1>2, <1>7, <2>2, <2>5
  <2> QED BY <1>4, <2>6, <2>7, OneMoves
<1>5. NoKey \in Key \cup {NoKey} /\ Key \subseteq Key \cup {NoKey} OBVIOUS
<1>6. ASSUME UNCHANGED <<jobs, alone>> PROVE JobsMove BY <1>6, SameJobsMove
<1> QED BY <1>3, <1>4, <1>5, <1>6 DEF OnUdpRequest

LEMMA FinishServerMoves ==
    ASSUME Inv, AllAsked, NEW i \in Job, NEW s \in Server,
           jobs[i].srv[s].op # "none", NEW m \in Response,
           FinishServer(i, s, m)
    PROVE  JobsMove
<1> DEFINE j == jobs[i]
<1>1. /\ Whole(j) \/ (i \in alone /\ Ghost(j))
      /\ s \in j.server /\ j \in JobRecord
  BY ServerOfJob DEF Inv
<1>2. PICK F \in SUBSET BindFaults :
        /\ Return(i, ServerComplete(j, s, m, F))
        /\ alone' = IF BacksFailAlone(j, s, m, F)
                    THEN alone \cup {i} ELSE alone
  BY DEF FinishServer
<1> DEFINE r == ServerComplete(j, s, m, F)
<1>3. ASSUME NEW torn \in BOOLEAN, torn \/ i \notin alone'
      PROVE  Moves(j, AtRest(r), torn)
  <2>1. Asked(j, torn)
    BY <1>2, <1>3 DEF AllAsked
  <2> HIDE DEF j, r
  <2>2. CASE Whole(j) /\ ~BacksFailAlone(j, s, m, F)
    <3>1. Returned(r) BY <1>1, <2>2, ServerCompleteReturns DEF r
    <3>2. Moves(j, r, torn) BY <1>1, <2>1, <2>2, ServerCompleteMoves DEF r
    <3> QED BY <3>1, <3>2, AtRestMoves
  <2>3. CASE Whole(j) /\ BacksFailAlone(j, s, m, F)
    <3>1. torn = TRUE BY <1>2, <1>3, <2>3
    <3>2. Torn(r, j)
      BY <1>1, <2>3, Faulty, ServerCompleteTorn DEF r
    <3>3. j.status < JOB_GOTANSWER BY <2>3 DEF BacksFailAlone
    <3> QED BY <1>1, <3>1, <3>2, <3>3, TornMoves
  <2>4. CASE i \in alone /\ Ghost(j)
    <3>1. torn = TRUE BY <1>2, <1>3, <2>4
    <3>2. Torn(r, j) BY <1>1, <2>4, GhostCompletes DEF r
    <3>3. ~j.live BY <2>4 DEF Ghost, Lost
    <3> QED BY <1>1, <3>1, <3>2, <3>3, TornMoves
  <2> QED BY <1>1, <2>2, <2>3, <2>4
<1>4. jobs' = [jobs EXCEPT ![i] = AtRest(r)] BY <1>2 DEF Return
<1>5. alone \ {i} \subseteq alone' BY <1>2
<1> HIDE DEF r
<1> QED BY <1>3, <1>4, <1>5, OneMoves

LEMMA GoOnMoves ==
    ASSUME Inv, AllAsked, NEW i \in Job, NEW s \in Server,
           jobs[i].srv[s].op # "none", NEW v \in ServerRecord,
           jobs' = [jobs EXCEPT ![i].srv[s] = v], UNCHANGED alone,
           v.cancel = jobs[i].srv[s].cancel, v.age = jobs[i].srv[s].age,
           v.status \in {SERVER_SENDING, SERVER_WAITING}
    PROVE  JobsMove
<1> DEFINE r == [jobs[i] EXCEPT !.srv[s] = v]
<1>1. /\ Whole(jobs[i]) \/ (i \in alone /\ Ghost(jobs[i]))
      /\ s \in jobs[i].server /\ jobs[i] \in JobRecord
  BY ServerOfJob DEF Inv
<1>2. ASSUME NEW torn \in BOOLEAN, torn \/ i \notin alone'
      PROVE  Moves(jobs[i], r, torn)
  <2>1. Asked(jobs[i], torn) BY <1>2 DEF AllAsked
  <2>2. CASE Whole(jobs[i]) BY <1>1, <2>1, <2>2, GoesOnMoves
  <2>3. CASE i \in alone /\ Ghost(jobs[i])
    <3>1. torn = TRUE BY <1>2, <2>3
    <3>2. ~jobs[i].live /\ r.status # JOB_EARLYRET
      BY <1>1, <2>3 DEF Ghost, Lost, JobRecord
    <3> QED BY <3>1, <3>2, DeletedMoves
  <2> QED BY <1>1, <2>2, <2>3
<1>3. jobs' = [jobs EXCEPT ![i] = r] BY DEF Inv
<1> HIDE DEF r
<1> QED BY <1>2, <1>3, OneMoves

LEMMA ServerHandlerMoves ==
    ASSUME Inv, AllAsked, NEW i \in Job, NEW s \in Server,
           ServerHandler(i, s)
    PROVE  JobsMove
<1> DEFINE v == jobs[i].srv[s]
           w == [v EXCEPT !.status = SERVER_WAITING]
<1>1. v.op # "none"
  BY DEF ServerHandler, OnReqSentUdp, OnPeekUdp, OnResponseUdp, OnCncted,
     OnReqSentTcp, OnResponseTcp, Ready, Running
<1>2. v \in ServerRecord /\ v.status \in {SERVER_SENDING, SERVER_WAITING}
  <2>1. /\ v \in ServerRecord /\ ServerInv(jobs[i], s) /\ s \in jobs[i].server
    BY <1>1, ServerOfJob
  <2> QED BY <2>1 DEF ServerInv
<1>3. \A m \in Response : FinishServer(i, s, m) => JobsMove
  BY <1>1, FinishServerMoves
<1>4. w \in ServerRecord /\ w.status = SERVER_WAITING
      /\ w.cancel = v.cancel /\ w.age = v.age
  <2>1. PICK u \in ServerRecord : u = v BY <1>2
  <2> QED BY <2>1 DEF ServerRecord
<1> HIDE DEF v, w
<1>5. ASSUME NEW u \in ServerRecord, NEW o \in Operation
      PROVE  /\ StartOp(u, o) \in ServerRecord /\ StartOp(u, o).status = u.status
             /\ StartOp(u, o).cancel = u.cancel /\ StartOp(u, o).age = u.age
  BY DEF StartOp, ServerRecord, Result
<1>6. ASSUME NEW u \in ServerRecord, NEW o \in Operation,
             GoOn(i, s, StartOp(u, o)), u.cancel = v.cancel, u.age = v.age,
             u.status \in {SERVER_SENDING, SERVER_WAITING}
      PROVE  JobsMove
  <2> DEFINE x == StartOp(u, o)
  <2>1. /\ x \in ServerRecord /\ x.status = u.status
        /\ x.cancel = v.cancel /\ x.age = v.age
    BY <1>5, <1>6
  <2>2. jobs' = [jobs EXCEPT ![i].srv[s] = x] /\ UNCHANGED alone
    BY <1>6 DEF GoOn
  <2> HIDE DEF x
  <2> QED BY <1>1, <1>6, <2>1, <2>2, GoOnMoves DEF v
<1>7. {"peek", "recv", "write", "read"} \subseteq Operation /\ "none" \in Response
  BY DEF Operation, Response
<1>8. \/ \E m \in Response : FinishServer(i, s, m)
      \/ \E o \in {"peek", "recv", "write", "read"} :
           GoOn(i, s, StartOp(v, o)) \/ GoOn(i, s, StartOp(w, o))
  <2>1. CASE OnReqSentUdp(i, s) BY <1>7, <2>1 DEF OnReqSentUdp, v, w
  <2>2. CASE OnPeekUdp(i, s) BY <1>7, <2>2 DEF OnPeekUdp, v
  <2>3. CASE OnResponseUdp(i, s) BY <1>7, <2>3 DEF OnResponseUdp, v
  <2>4. CASE OnCncted(i, s) BY <1>7, <2>4 DEF OnCncted, v
  <2>5. CASE OnReqSentTcp(i, s) BY <1>7, <2>5 DEF OnReqSentTcp, v, w
  <2>6. CASE OnResponseTcp(i, s) BY <1>7, <2>6 DEF OnResponseTcp, v
  <2> QED BY <2>1, <2>2, <2>3, <2>4, <2>5, <2>6 DEF ServerHandler
<1> QED BY <1>2, <1>3, <1>4, <1>6, <1>7, <1>8

LEMMA OnResponsedMoves ==
    ASSUME Inv, AllAsked, NEW i \in Job, OnResponsed(i)
    PROVE  JobsMove
<1>1. jobs[i].client.send # "none" BY DEF OnResponsed
<1>2. NoJob.client.send = "none" BY DEF NoJob, NewClient, ClientIn
<1>3. Whole(jobs[i]) BY <1>1, <1>2 DEF Inv, Tidy, Ghost, Lost
<1> DEFINE r == ClientResponded(jobs[i])
<1>4. Returned(r) BY <1>1, <1>3, ClientRespondedReturns
<1>5. ASSUME NEW torn \in BOOLEAN, torn \/ i \notin alone'
      PROVE  Moves(jobs[i], AtRest(r), torn)
  <2>1. Asked(jobs[i], torn) BY <1>5 DEF AllAsked, OnResponsed
  <2>2. Moves(jobs[i], r, torn) BY <1>1, <1>3, <2>1, ClientRespondedMoves
  <2> QED BY <1>4, <2>2, AtRestMoves
<1>6. jobs' = [jobs EXCEPT ![i] = AtRest(r)] /\ UNCHANGED alone
  BY DEF OnResponsed, Return
<1> HIDE DEF r
<1> QED BY <1>5, <1>6, OneMoves

LEMMA OnHeartbeatMoves ==
    ASSUME Inv, AllAsked, OnHeartbeat
    PROVE  JobsMove
<1> SUFFICES ASSUME NEW torn \in BOOLEAN, NEW i \in Job,
                    torn \/ i \notin alone'
             PROVE  Moves(jobs[i], jobs'[i], torn)
  BY DEF JobsMove
<1> DEFINE e == Cached(jobs[i].key)
           h(F) == IF jobs[i].live THEN HeartBeat(jobs[i], e, F) ELSE jobs[i]
<1>1. PICK F \in SUBSET BindFaults : jobs'[i] = AtRest(h(F))
  BY DEF OnHeartbeat
<1>2. Asked(jobs[i], torn) BY DEF AllAsked, OnHeartbeat
<1>3. CASE Whole(jobs[i])
  <2>1. PICK g \in BOOLEAN : g = e BY DEF Cached
  <2>2. h(F) = HeartBeat(jobs[i], g, F) BY <1>3, <2>1 DEF Whole
  <2>3. /\ Whole(HeartBeat(jobs[i], g, F))
        /\ Moves(jobs[i], HeartBeat(jobs[i], g, F), torn)
    BY <1>2, <1>3, HeartBeatMoves
  <2>4. AtRest(HeartBeat(jobs[i], g, F)) = HeartBeat(jobs[i], g, F)
    BY <2>3, AtRestWhole
  <2> QED BY <1>1, <2>2, <2>3, <2>4
<1>4. CASE ~Whole(jobs[i])
  <2>1. jobs'[i] = jobs[i]
    <3>1. CASE jobs[i] = NoJob BY <1>1, <3>1, NoJobType DEF AtRest
    <3>2. CASE Ghost(jobs[i])
      <4>1. h(F) = jobs[i] BY <3>2 DEF Ghost, Lost
      <4>2. AtRest(jobs[i]) = jobs[i] BY <3>2, AtRestGhost
      <4> QED BY <1>1, <4>1, <4>2
    <3> QED BY <1>4, <3>1, <3>2 DEF Inv, Tidy
  <2>2. jobs[i] \in JobRecord BY DEF Inv
  <2> QED BY <1>2, <2>1, <2>2, StillMoves
<1> QED BY <1>3, <1>4

LEMMA EnvironmentMoves ==
    ASSUME Inv, AllAsked, Environment
    PROVE  JobsMove
<1>1. ASSUME NEW i \in Job, NEW s \in Server, NetComplete(i, s)
      PROVE  JobsMove
  <2>1. /\ s \in jobs[i].server /\ jobs[i] \in JobRecord
        /\ jobs[i].srv[s] \in ServerRecord /\ ServerInv(jobs[i], s)
    BY <1>1, ServerOfJob DEF NetComplete, Inv
  <2>2. PICK e \in {"ok", "err"} : jobs' = [jobs EXCEPT ![i].srv[s].res = e]
    BY <1>1 DEF NetComplete
  <2>3. PICK u \in ServerRecord : u = jobs[i].srv[s] BY <2>1
  <2> DEFINE v == [u EXCEPT !.res = e]
  <2>4. /\ v \in ServerRecord /\ v.status = u.status
        /\ v.cancel = u.cancel /\ v.age = u.age
    BY DEF ServerRecord, Result
  <2>5. jobs' = [jobs EXCEPT ![i].srv[s] = v] /\ UNCHANGED alone
    BY <1>1, <2>1, <2>2, <2>3 DEF JobRecord, Inv, NetComplete
  <2> HIDE DEF v
  <2>6. v.status \in {SERVER_SENDING, SERVER_WAITING}
    BY <2>1, <2>3, <2>4 DEF ServerInv
  <2>7. jobs[i].srv[s].op # "none" BY <1>1 DEF NetComplete
  <2> QED BY <2>3, <2>4, <2>5, <2>6, <2>7, GoOnMoves
<1>2. ASSUME NEW i \in Job, SendComplete(i)
      PROVE  JobsMove
  <2>1. jobs[i] \in JobRecord /\ jobs[i].client \in ClientRecord
        /\ jobs[i].status \in 0 .. 5
    BY JobFields DEF Inv
  <2>2. PICK e \in {"ok", "err"} : jobs' = [jobs EXCEPT ![i].client.send = e]
    BY <1>2 DEF SendComplete
  <2> DEFINE r == [jobs[i] EXCEPT !.client = [jobs[i].client EXCEPT !.send = e]]
  <2>3. jobs' = [jobs EXCEPT ![i] = r] /\ UNCHANGED alone
    BY <1>2, <2>1, <2>2 DEF JobRecord, Inv, SendComplete
  <2>4. /\ r.status = jobs[i].status /\ r.reply = jobs[i].reply
        /\ r.live = jobs[i].live /\ Keeps(jobs[i], r)
    BY <2>1 DEF JobRecord, Keeps
  <2> HIDE DEF r
  <2>5. ASSUME NEW torn \in BOOLEAN, Asked(jobs[i], torn)
        PROVE  Asked(r, torn)
    BY <2>4, <2>5 DEF Asked, CanceledRight, MainAsked, BacksAskedLate,
                      MainOver, EarlyIsCached, Keeps
  <2>6. ASSUME NEW torn \in BOOLEAN, torn \/ i \notin alone'
        PROVE  Moves(jobs[i], r, torn)
    <3>1. Asked(jobs[i], torn) BY <2>3, <2>6 DEF AllAsked
    <3>2. Asked(r, torn) BY <2>5, <3>1
    <3> QED BY <2>1, <2>4, <3>2, SameMoves
  <2> QED BY <2>3, <2>6, OneMoves
<1>3. ASSUME NEW k \in Key, Expire(k) \/ Evict(k)
      PROVE  JobsMove
  BY <1>3, SameJobsMove DEF Expire, Evict
<1>4. ASSUME Tick
      PROVE  JobsMove
  <2> SUFFICES ASSUME NEW torn \in BOOLEAN, NEW i \in Job,
                      torn \/ i \notin alone'
               PROVE  Moves(jobs[i], jobs'[i], torn)
    BY DEF JobsMove
  <2>1. Asked(jobs[i], torn) /\ jobs[i] \in JobRecord
    BY <1>4 DEF AllAsked, Inv, Tick
  <2>2. CASE Whole(jobs[i])
    <3>1. jobs'[i] = Aged(jobs[i]) BY <1>4, <2>2 DEF Tick, Whole
    <3> QED BY <2>1, <2>2, <3>1, AgedMoves
  <2>3. CASE ~Whole(jobs[i])
    <3>1. ~jobs[i].live
      BY <2>3, NoJobType DEF Inv, Tidy, Ghost, Lost
    <3>2. jobs'[i] = jobs[i] BY <1>4, <3>1 DEF Tick
    <3> QED BY <2>1, <3>2, StillMoves
  <2> QED BY <2>2, <2>3
<1>5. ASSUME Stop
      PROVE  JobsMove
  BY <1>5, SameJobsMove DEF Stop
<1> QED BY <1>1, <1>2, <1>3, <1>4, <1>5 DEF Environment

LEMMA NextMoves ==
    ASSUME Inv, AllAsked, [Next]_vars
    PROVE  JobsMove
<1>1. ASSUME NEW i \in Job, OnUdpRequest(i) PROVE JobsMove
  BY <1>1, OnUdpRequestMoves
<1>2. ASSUME NEW i \in Job, OnResponsed(i) PROVE JobsMove
  BY <1>2, OnResponsedMoves
<1>3. ASSUME NEW i \in Job, NEW s \in Server, ServerHandler(i, s)
      PROVE  JobsMove
  BY <1>3, ServerHandlerMoves
<1>4. CASE OnHeartbeat BY <1>4, OnHeartbeatMoves
<1>5. CASE Environment BY <1>5, EnvironmentMoves
<1>6. CASE UNCHANGED vars BY <1>6, SameJobsMove DEF vars
<1> QED BY <1>1, <1>2, <1>3, <1>4, <1>5, <1>6 DEF Next

(* A fresh answer enters the cache only by the handler of the server whose *)
(* answer decides the job.                                                 *)
DecidesFor(k) ==
    \E i \in Job :
      /\ jobs[i].live /\ jobs[i].key = k
      /\ jobs[i].status < JOB_GOTANSWER
      /\ jobs'[i].live => /\ jobs'[i].status >= JOB_GOTANSWER
                          /\ jobs'[i].reply \in {"early", "answer"}

LEMMA FinishServerDecides ==
    ASSUME Inv, AllAsked, NEW i \in Job, NEW s \in Server,
           jobs[i].srv[s].op # "none", NEW m \in Response,
           FinishServer(i, s, m), NEW k \in Key, cache'[k] # cache[k]
    PROVE  DecidesFor(k)
<1>1. /\ Whole(jobs[i]) \/ Ghost(jobs[i])
      /\ s \in jobs[i].server
  BY ServerOfJob
<1>10. PICK F \in SUBSET BindFaults :
         Return(i, ServerComplete(jobs[i], s, m, F))
  BY DEF FinishServer
<1> DEFINE r == ServerComplete(jobs[i], s, m, F)
<1>2. Stores(jobs[i], s, m) /\ Put(jobs[i].key, m) /\ Return(i, r)
  BY <1>10 DEF FinishServer
<1>3. k = jobs[i].key BY <1>2 DEF Put, Inv
<1>6. m \in ValidResponse /\ jobs[i].status < JOB_GOTANSWER
  BY <1>2 DEF Stores, ValidResponse
<1>11. Whole(jobs[i]) /\ ~BacksFailAlone(jobs[i], s, m, F)
  <2>1. ~(JOB_RESPONDED < JOB_GOTANSWER) OBVIOUS
  <2> QED BY <1>1, <1>6, <2>1 DEF Ghost, BacksFailAlone
<1>4. Returned(r) BY <1>1, <1>11, ServerCompleteReturns
<1>12. Asked(jobs[i], TRUE) BY DEF AllAsked
<1>5. Decided(jobs[i], m, "answer", r)
  BY <1>1, <1>11, <1>12, ServerCompleteMoves
<1>7. r.status >= JOB_GOTANSWER /\ r.reply \in {"early", "answer"}
  BY <1>5, <1>6 DEF Decided
<1> HIDE DEF r
<1>8. jobs'[i] = AtRest(r) BY <1>2 DEF Return, Inv
<1>9. jobs'[i].live => jobs'[i] = r
  <2>1. CASE Whole(r) BY <1>8, <2>1, AtRestWhole
  <2>2. CASE ~r.live /\ r.server = {} BY <1>8, <2>2, NoJobType DEF AtRest
  <2> QED BY <1>4, <2>1, <2>2 DEF Returned
<1> QED BY <1>3, <1>6, <1>7, <1>9, <1>11 DEF DecidesFor, Whole

LEMMA NextDecides ==
    ASSUME Inv, AllAsked, [Next]_vars,
           NEW k \in Key, cache'[k] # cache[k], cache'[k] = "fresh"
    PROVE  DecidesFor(k)
<1>1. ASSUME NEW i \in Job, NEW s \in Server, ServerHandler(i, s)
      PROVE  DecidesFor(k)
  <2>1. jobs[i].srv[s].op # "none"
    BY <1>1 DEF ServerHandler, OnReqSentUdp, OnPeekUdp, OnResponseUdp,
       OnCncted, OnReqSentTcp, OnResponseTcp, Ready, Running
  <2>2. "none" \in Response BY DEF Response
  <2>3. PICK m \in Response : FinishServer(i, s, m)
    BY <1>1, <2>2 DEF ServerHandler, OnReqSentUdp, OnPeekUdp, OnResponseUdp,
       OnCncted, OnReqSentTcp, OnResponseTcp, GoOn
  <2> QED BY <2>1, <2>3, FinishServerDecides
<1>2. ASSUME NEW i \in Job, OnUdpRequest(i) \/ OnResponsed(i)
      PROVE  FALSE
  BY <1>2 DEF OnUdpRequest, OnResponsed, Enters
<1>3. CASE OnHeartbeat BY <1>3 DEF OnHeartbeat
<1>4. CASE Environment
  <2>1. ASSUME NEW c \in Key, Expire(c) \/ Evict(c) PROVE FALSE
    BY <2>1 DEF Expire, Evict, Put, Inv
  <2>2. ASSUME NEW i \in Job, SendComplete(i) PROVE FALSE
    BY <2>2 DEF SendComplete
  <2>3. ASSUME NEW i \in Job, NEW s \in Server, NetComplete(i, s) PROVE FALSE
    BY <2>3 DEF NetComplete
  <2>4. ASSUME Tick \/ Stop PROVE FALSE
    BY <2>4 DEF Tick, Stop
  <2> QED BY <1>4, <2>1, <2>2, <2>3, <2>4 DEF Environment
<1>5. CASE UNCHANGED vars BY <1>5 DEF vars
<1> QED BY <1>1, <1>2, <1>3, <1>4, <1>5 DEF Next

-----------------------------------------------------------------------------
LEMMA AskedInvariance ==
    Spec => [](Inv /\ AllAsked)
<1>1. Init => Inv /\ AllAsked
  BY InvInit, NoJobAsked DEF Init, AllAsked
<1>2. Inv /\ AllAsked /\ [Next]_vars => (Inv /\ AllAsked)'
  <2>1. Inv /\ AllAsked /\ [Next]_vars => Inv' BY InvNext
  <2>2. Inv /\ AllAsked /\ [Next]_vars => AllAsked'
    BY NextMoves DEF JobsMove, Moves, AllAsked
  <2> QED BY <2>1, <2>2
<1> QED BY <1>1, <1>2, PTL DEF Spec

(* A server is canceled only when its job is decided or its own time is    *)
(* over, and no server of a decided job goes on: AHostsJob::serverComplete *)
(* and heartBeat, whatever the order of the answers.  Except in a job that *)
(* was given up in the middle of the loop that sends to its servers.       *)
THEOREM ServersCanceledInTime ==
    Spec => []CanceledWhenDecided
<1>1. Inv /\ AllAsked => CanceledWhenDecided
  <2>1. AllAsked => \A i \in Job \ alone : Asked(jobs[i], FALSE)
    BY DEF AllAsked
  <2> QED BY <2>1 DEF Asked, CanceledRight, CanceledWhenDecided
<1> QED BY <1>1, AskedInvariance, PTL

(* AHostsJob asks its back servers (sendBackservers) only after            *)
(* BackTimeout or when every main server has completed, except where the   *)
(* first server request() sends to fails in its send().                    *)
THEOREM BackServersAreLast ==
    Spec => []BackServersLastResort
<1>1. Inv /\ AllAsked => BackServersLastResort
  <2>1. AllAsked => \A i \in Job \ alone : Asked(jobs[i], FALSE)
    BY DEF AllAsked
  <2> QED BY <2>1 DEF Asked, BacksAskedLate, MainOver, BackServersLastResort
<1> QED BY <1>1, AskedInvariance, PTL

(* A request ends without a reply, or with an answer found invalid, only   *)
(* by the last server of all, the back ones included; except where the     *)
(* first server of a loop failed in its send() while no other ran.         *)
THEOREM OnlyTheLastFails ==
    Spec => FailsIfAllFailed
<1>1. Inv /\ AllAsked /\ [Next]_vars => JobsMove BY NextMoves
<1>2. JobsMove =>
        \A i \in Job \ alone' :
          /\ jobs[i].live
          /\ jobs[i].reply = "none"
          /\ ~jobs'[i].live \/ jobs'[i].reply = "invalid"
          => /\ jobs[i].backsent
             /\ Cardinality(jobs[i].server) = 1
             /\ \A s \in Main \ jobs[i].server :
                  jobs[i].srv[s].status = SERVER_GOTANSWER
  <2>1. JobsMove =>
          \A i \in Job \ alone' : Moves(jobs[i], jobs'[i], FALSE)
    BY DEF JobsMove
  <2> QED BY <2>1 DEF Moves, Fails
<1> QED BY <1>1, <1>2, AskedInvariance, PTL DEF Spec, FailsIfAllFailed

(* UdpClient gets one reply, and neither end of a job ever sees its status *)
(* go back.                                                                *)
THEOREM OneReply ==
    Spec => RepliedOnce
<1>1. Inv /\ AllAsked /\ [Next]_vars => JobsMove BY NextMoves
<1>2. JobsMove =>
        \A i \in Job :
          jobs[i].live /\ jobs'[i].live =>
            /\ jobs[i].reply # "none" => jobs'[i].reply = jobs[i].reply
            /\ jobs[i].status <= jobs'[i].status
  <2>1. JobsMove => \A i \in Job : Moves(jobs[i], jobs'[i], TRUE)
    BY DEF JobsMove
  <2> QED BY <2>1 DEF Moves, Forward
<1> QED BY <1>1, <1>2, AskedInvariance, PTL DEF Spec, RepliedOnce

(* An answer that comes after the decision of its job does not replace, in *)
(* the cache, the answer the client was given.                             *)
THEOREM OnlyDecisionsAreCached ==
    Spec => DecisionWritesCache
<1>1. Inv /\ AllAsked /\ [Next]_vars =>
        \A k \in Key :
          cache'[k] # cache[k] /\ cache'[k] = "fresh" =>
            \E i \in Job :
              /\ jobs[i].live /\ jobs[i].key = k
              /\ jobs[i].status < JOB_GOTANSWER
              /\ jobs'[i].live => /\ jobs'[i].status >= JOB_GOTANSWER
                                  /\ jobs'[i].reply \in {"early", "answer"}
  BY NextDecides DEF DecidesFor
<1> QED BY <1>1, AskedInvariance, PTL DEF Spec, DecisionWritesCache

-----------------------------------------------------------------------------
(* The refinement of Resolver: what the clients and the cache see of a     *)
(* step is a step of the promise.                                          *)
Seen == [i \in Job |-> RequestOf(jobs[i])]

LEMMA RequestOfDeleted ==
    ASSUME NEW j, ~j.live
    PROVE  RequestOf(j) = Promise!Free
BY DEF RequestOf, Promise!Free

LEMMA RequestOfNoJob == RequestOf(NoJob) = Promise!Free
BY NoJobType DEF RequestOf, Promise!Free

LEMMA RequestOfLive ==
    ASSUME NEW j, j.live
    PROVE  RequestOf(j) = [phase |-> Phase(j), key |-> j.key,
                           single |-> j.single, reply |-> j.reply]
BY DEF RequestOf

LEMMA SameRequest ==
    ASSUME NEW j, NEW r, r.live = j.live, r.status = j.status, r.key = j.key,
           r.single = j.single, r.reply = j.reply
    PROVE  RequestOf(r) = RequestOf(j)
BY DEF RequestOf, Phase

(* What a client sees of a whole job.                                      *)
LEMMA WholePhase ==
    ASSUME NEW j, Whole(j), Asked(j, TRUE)
    PROVE  /\ j.status \in 1 .. 5
           /\ Phase(j) = IF j.status = JOB_EARLYRET THEN "early"
                         ELSE IF j.status >= JOB_GOTANSWER THEN "decided"
                         ELSE "waiting"
           /\ j.status \in {JOB_REQUESTING, JOB_NOEARLYRET} <=> j.reply = "none"
           /\ j.status = JOB_EARLYRET => j.reply = "early"
<1>1. j.status \in 0 .. 5 /\ j.status # 0
  BY JobFields DEF Whole, Base, ClientInv
<1>2. j.status \in {JOB_REQUESTING, JOB_NOEARLYRET} <=> j.reply = "none"
  BY <1>1 DEF Whole, ClientInv
<1>3. Phase(j) = IF j.status = JOB_EARLYRET THEN "early"
                 ELSE IF j.status >= JOB_GOTANSWER THEN "decided"
                 ELSE "waiting"
  BY <1>1 DEF Phase
<1> QED BY <1>1, <1>2, <1>3 DEF Asked, EarlyIsCached

(* A server completes: nothing to be seen, a decision, or the end of the   *)
(* job.                                                                    *)
SeesEnd(o, r, stores) ==
    \/ r = o /\ ~stores
    \/ /\ o.phase = "waiting"
       /\ \E a \in Promise!Answer :
            /\ r = [o EXCEPT !.phase = "decided", !.reply = a]
            /\ stores => a # "invalid"
    \/ /\ o.phase = "early" /\ r.reply # "invalid"
       /\ r = [o EXCEPT !.phase = "decided"] \/ r = Promise!Free
    \/ o.phase \in {"waiting", "decided"} /\ r = Promise!Free /\ ~stores

LEMMA ServerSeen ==
    ASSUME NEW j, Whole(j), Asked(j, TRUE), NEW s \in j.server, NEW m \in Response,
           NEW F, ~BacksFailAlone(j, s, m, F)
    PROVE  SeesEnd(RequestOf(j), RequestOf(AtRest(ServerComplete(j, s, m, F))),
                   Stores(j, s, m))
<1> DEFINE how == IF m = "invalid" THEN "invalid" ELSE "answer"
           r == ServerComplete(j, s, m, F)
           o == RequestOf(j)
           stores == Stores(j, s, m)
<1>1. Returned(r) BY ServerCompleteReturns
<1>2. /\ Asked(r, TRUE) /\ Decided(j, m, "answer", r) /\ Course(j, how, r)
      /\ j.reply = "none" /\ m \in ValidResponse => r.live
      /\ r.live => Forward(j, r)
  <2>1. /\ Moves(j, r, TRUE) /\ Decided(j, m, "answer", r)
        /\ Course(j, how, r)
        /\ j.reply = "none" /\ m \in ValidResponse => r.live
    BY ServerCompleteMoves
  <2> HIDE DEF r, how
  <2> QED BY <2>1 DEF Moves, Whole
<1>3. stores => j.status < JOB_GOTANSWER /\ m \in ValidResponse
  BY DEF Stores, ValidResponse
<1>4. how \in {"answer", "invalid"} /\ (m \in ValidResponse => how = "answer")
  BY DEF ValidResponse
<1> HIDE DEF r, how, stores
<1>5. /\ j.status \in 1 .. 5
      /\ Phase(j) = IF j.status = JOB_EARLYRET THEN "early"
                    ELSE IF j.status >= JOB_GOTANSWER THEN "decided"
                    ELSE "waiting"
      /\ j.status \in {JOB_REQUESTING, JOB_NOEARLYRET} <=> j.reply = "none"
      /\ j.status = JOB_EARLYRET => j.reply = "early"
  BY WholePhase
<1>6. o = [phase |-> Phase(j), key |-> j.key, single |-> j.single,
           reply |-> j.reply]
  BY RequestOfLive DEF Whole
<1> HIDE DEF o
<1>7. CASE Whole(r)
  <2>1. AtRest(r) = r BY <1>7, AtRestWhole
  <2>2. /\ r.status \in 1 .. 5
        /\ Phase(r) = IF r.status = JOB_EARLYRET THEN "early"
                      ELSE IF r.status >= JOB_GOTANSWER THEN "decided"
                      ELSE "waiting"
        /\ r.status \in {JOB_REQUESTING, JOB_NOEARLYRET} <=> r.reply = "none"
    <3>1. PICK x : x = r OBVIOUS
    <3>2. Whole(x) /\ Asked(x, TRUE) BY <1>2, <1>7, <3>1
    <3> QED BY <3>1, <3>2, WholePhase
  <2>3. RequestOf(r) = [phase |-> Phase(r), key |-> j.key,
                        single |-> j.single, reply |-> r.reply]
    BY <1>2, <1>7, RequestOfLive DEF Whole, Course
  <2>4. Forward(j, r) BY <1>2, <1>7 DEF Whole
  <2>5. CASE j.status >= JOB_GOTANSWER
    <3>1. r.status >= JOB_GOTANSWER /\ r.reply = j.reply
      BY <1>5, <2>2, <2>4, <2>5 DEF Forward
    <3>2. Phase(r) = "decided" /\ Phase(j) = "decided"
      BY <1>5, <2>2, <2>5, <3>1
    <3>3. ~stores BY <1>3, <1>5, <2>5
    <3> QED BY <1>6, <2>1, <2>3, <3>1, <3>2, <3>3 DEF SeesEnd, o, r, stores
  <2>6. CASE j.status = JOB_EARLYRET
    <3>1. r.reply = "early" BY <1>5, <2>4, <2>6 DEF Forward
    <3>2. CASE r.status >= JOB_GOTANSWER
      <4>1. Phase(r) = "decided" /\ Phase(j) = "early"
        BY <1>5, <2>2, <2>6, <3>2
      <4>2. RequestOf(r) = [o EXCEPT !.phase = "decided"]
        BY <1>5, <1>6, <2>3, <2>6, <3>1, <4>1
      <4>3. o.phase = "early" /\ RequestOf(r).reply # "invalid"
        BY <1>6, <2>3, <3>1, <4>1
      <4> QED BY <2>1, <4>2, <4>3 DEF SeesEnd, o, r, stores
    <3>3. CASE ~(r.status >= JOB_GOTANSWER)
      <4>1. r.status = j.status BY <1>2, <3>3 DEF Course
      <4>2. ~stores BY <1>2, <1>3, <3>3 DEF Decided
      <4>3. RequestOf(r) = o
        BY <1>5, <1>6, <2>2, <2>3, <2>6, <3>1, <4>1
      <4> QED BY <2>1, <4>2, <4>3 DEF SeesEnd, o, r, stores
    <3> QED BY <3>2, <3>3
  <2>7. CASE j.status \in {JOB_REQUESTING, JOB_NOEARLYRET}
    <3>1. Phase(j) = "waiting" /\ j.reply = "none" BY <1>5, <2>7
    <3>2. CASE r.status >= JOB_GOTANSWER
      <4>1. Phase(r) = "decided" /\ r.reply # "none" BY <2>2, <3>2
      <4>2. r.reply = how BY <1>2, <3>1, <4>1 DEF Course
      <4>3. RequestOf(r) = [o EXCEPT !.phase = "decided", !.reply = how]
        <5>1. RequestOf(r) = [phase |-> "decided", key |-> j.key,
                              single |-> j.single, reply |-> how]
          BY <2>3, <4>1, <4>2
        <5>2. [o EXCEPT !.phase = "decided", !.reply = how] =
                [phase |-> "decided", key |-> j.key,
                 single |-> j.single, reply |-> how]
          <6> DEFINE b == [o EXCEPT !.phase = "decided"]
          <6>1. b = [phase |-> "decided", key |-> j.key,
                     single |-> j.single, reply |-> j.reply]
            BY <1>6
          <6>2. [o EXCEPT !.phase = "decided", !.reply = how]
                  = [b EXCEPT !.reply = how]
            OBVIOUS
          <6> HIDE DEF b
          <6>3. [b EXCEPT !.reply = how] =
                  [phase |-> "decided", key |-> j.key,
                   single |-> j.single, reply |-> how]
            BY <6>1
          <6> QED BY <6>2, <6>3
        <5> QED BY <5>1, <5>2
      <4>4. o.phase = "waiting" /\ how \in Promise!Answer
        BY <1>4, <1>6, <3>1 DEF Promise!Answer
      <4>5. stores => how # "invalid" BY <1>3, <1>4
      <4> QED BY <2>1, <4>3, <4>4, <4>5 DEF SeesEnd, o, r, stores
    <3>3. CASE ~(r.status >= JOB_GOTANSWER)
      <4>1. r.status = j.status /\ r.reply = j.reply
        BY <1>2, <3>3 DEF Course
      <4>2. ~stores BY <1>2, <1>3, <3>3 DEF Decided
      <4>3. RequestOf(r) = o BY <1>5, <1>6, <2>2, <2>3, <4>1
      <4> QED BY <2>1, <4>2, <4>3 DEF SeesEnd, o, r, stores
    <3> QED BY <3>2, <3>3
  <2> QED BY <1>5, <2>5, <2>6, <2>7
<1>8. CASE ~r.live /\ r.server = {}
  <2>1. RequestOf(AtRest(r)) = Promise!Free
    BY <1>8, RequestOfNoJob DEF AtRest
  <2>2. o.phase = Phase(j) BY <1>6
  <2>3. CASE j.status = JOB_EARLYRET
    <3>1. o.phase = "early" BY <1>5, <2>2, <2>3
    <3>2. Promise!Free.reply # "invalid" BY DEF Promise!Free
    <3> QED BY <2>1, <3>1, <3>2 DEF SeesEnd, o, r, stores
  <2>4. CASE j.status # JOB_EARLYRET
    <3>1. o.phase \in {"waiting", "decided"} BY <1>5, <2>2, <2>4
    <3>2. ~stores
      <4>1. SUFFICES ASSUME stores PROVE FALSE OBVIOUS
      <4>2. j.status \in {JOB_REQUESTING, JOB_NOEARLYRET} /\ m \in ValidResponse
        BY <1>3, <1>5, <2>4, <4>1
      <4> QED BY <1>2, <1>5, <1>8, <4>2
    <3> QED BY <2>1, <3>1, <3>2 DEF SeesEnd, o, r, stores
  <2> QED BY <2>3, <2>4
<1> QED BY <1>1, <1>7, <1>8 DEF Returned

(* A job given up in the middle of a loop.                                 *)
LEMMA TornSeen ==
    ASSUME NEW j, Whole(j), Asked(j, TRUE), j.status < JOB_GOTANSWER,
           NEW r, Torn(r, j)
    PROVE  SeesEnd(RequestOf(j), RequestOf(AtRest(r)), FALSE)
<1> DEFINE o == RequestOf(j)
           q == AtRest(r)
<1>1. j \in JobRecord BY DEF Whole, Base
<1>2. /\ q.live = r.live
      /\ r.live => /\ q.status = JOB_GOTANSWER /\ q.reply = j.reply
                   /\ q.key = j.key /\ q.single = j.single
  BY <1>1, TornAtRest
<1>3. /\ j.status \in 1 .. 5
      /\ Phase(j) = IF j.status = JOB_EARLYRET THEN "early"
                    ELSE IF j.status >= JOB_GOTANSWER THEN "decided"
                    ELSE "waiting"
      /\ j.status \in {JOB_REQUESTING, JOB_NOEARLYRET} <=> j.reply = "none"
      /\ j.status = JOB_EARLYRET => j.reply = "early"
  BY WholePhase
<1>4. o = [phase |-> Phase(j), key |-> j.key, single |-> j.single,
           reply |-> j.reply]
  BY RequestOfLive DEF Whole
<1> HIDE DEF o, q
<1>5. CASE ~r.live
  <2>1. RequestOf(q) = Promise!Free BY <1>2, <1>5, RequestOfDeleted
  <2>2. o.phase \in {"early", "waiting"} BY <1>3, <1>4
  <2>3. Promise!Free.reply # "invalid" BY DEF Promise!Free
  <2> QED BY <2>1, <2>2, <2>3 DEF SeesEnd, o, q
<1>6. CASE r.live
  <2>1. j.reply # "none" BY <1>6 DEF Torn, Lost, Late
  <2>2. j.status = JOB_EARLYRET /\ j.reply = "early" BY <1>3, <2>1
  <2>3. Phase(q) = "decided" /\ Phase(j) = "early"
    BY <1>2, <1>3, <1>6, <2>2 DEF Phase
  <2>4. RequestOf(q) = [phase |-> "decided", key |-> j.key,
                        single |-> j.single, reply |-> "early"]
    BY <1>2, <1>6, <2>2, <2>3, RequestOfLive
  <2>5. RequestOf(q) = [o EXCEPT !.phase = "decided"]
    BY <1>4, <2>2, <2>3, <2>4
  <2>6. o.phase = "early" /\ RequestOf(q).reply # "invalid"
    BY <1>4, <2>3, <2>4
  <2> QED BY <2>5, <2>6 DEF SeesEnd, o, q
<1> QED BY <1>5, <1>6

(* Nothing is seen of a deleted job.                                       *)
LEMMA DeletedSeen ==
    ASSUME NEW r, ~r.live
    PROVE  RequestOf(AtRest(r)) = Promise!Free
<1>1. CASE r.server # {}
  <2> DEFINE q == [r EXCEPT !.uaf = FALSE, !.errs = {}]
  <2>1. AtRest(r) = q BY <1>1 DEF AtRest
  <2>2. q.live = r.live OBVIOUS
  <2> HIDE DEF q
  <2> QED BY <2>1, <2>2, RequestOfDeleted
<1>2. CASE r.server = {} BY <1>2, RequestOfNoJob DEF AtRest
<1> QED BY <1>1, <1>2

(* A new job is sent to the servers or has its answer.                     *)
LEMMA NewJobFields ==
    ASSUME NEW k \in Key \cup {NoKey}, NEW one \in BOOLEAN
    PROVE  /\ NewJob(k, one).live /\ NewJob(k, one).key = k
           /\ NewJob(k, one).single = one /\ NewJob(k, one).reply = "none"
BY DEF NewJob, NoJob

LEMMA SendServersSeen ==
    ASSUME NEW k \in Key \cup {NoKey}, NEW one \in BOOLEAN,
           NEW F \in SUBSET Server
    PROVE  RequestOf(AtRest(SendServers(NewJob(k, one), F))) \in
             {[phase |-> "waiting", key |-> k, single |-> one,
               reply |-> "none"],
              Promise!Free}
<1> DEFINE n == NewJob(k, one)
           r == SendServers(n, F)
<1>1. /\ Mid(n) /\ n \in JobRecord /\ n.live /\ n.key = k /\ n.single = one
      /\ n.reply = "none" /\ n.status = JOB_BEGIN /\ n.server = {}
  BY NewJobMid, NewJobAsked, NewJobFields
<1> HIDE DEF n
<1>2. \/ Torn(r, n)
      \/ /\ Returned(r) /\ r.live /\ r.status = JOB_REQUESTING
         /\ r.reply = "none" /\ r.key = k /\ r.single = one
  <2>1. CASE FirstServer \in F BY <1>1, <2>1, SendServersTorn
  <2>2. CASE FirstServer \notin F
    <3> DEFINE a == [n EXCEPT !.status = JOB_REQUESTING]
    <3>1. /\ a \in JobRecord /\ a.status = JOB_REQUESTING /\ a.live
          /\ a.key = k /\ a.single = one /\ a.reply = "none"
      BY <1>1 DEF JobRecord
    <3>2. r = Launch(a, Main, F) BY <2>2 DEF SendServers
    <3>3. Returned(r) BY <1>1, <2>2, SendServersReturns
    <3>4. Main \in SUBSET Server BY DEF Server
    <3> HIDE DEF a, r
    <3>5. Others(a, r) BY <3>1, <3>2, <3>4, LaunchFields
    <3> QED BY <3>1, <3>3, <3>5 DEF Others
  <2> QED BY <2>1, <2>2
<1> HIDE DEF r
<1>3. CASE Torn(r, n)
  <2>1. ~r.live BY <1>1, <1>3 DEF Torn, Lost, Late
  <2> QED BY <2>1, DeletedSeen DEF r, n
<1>4. CASE /\ Returned(r) /\ r.live /\ r.status = JOB_REQUESTING
           /\ r.reply = "none" /\ r.key = k /\ r.single = one
  <2>1. Whole(r) BY <1>4 DEF Returned
  <2>2. AtRest(r) = r BY <2>1, AtRestWhole
  <2>3. Phase(r) = "waiting" BY <1>4 DEF Phase
  <2> QED BY <1>4, <2>2, <2>3, RequestOfLive DEF r, n
<1> QED BY <1>2, <1>3, <1>4

LEMMA LocalCompleteSeen ==
    ASSUME NEW k \in Key, NEW how \in {"cache", "hosts"}
    PROVE  RequestOf(AtRest(LocalComplete(NewJob(k, TRUE), how))) =
             [phase |-> "decided", key |-> k, single |-> TRUE, reply |-> how]
<1> DEFINE n == NewJob(k, TRUE)
           r == LocalComplete(n, how)
<1>1. k \in Key \cup {NoKey} OBVIOUS
<1>2. Mid(n) /\ Asked(n, TRUE) /\ n.status = JOB_BEGIN /\ n.key = k /\ n.single = TRUE
      /\ n.reply = "none"
  BY <1>1, NewJobMid, NewJobAsked, NewJobFields
<1> HIDE DEF n
<1>3. Returned(r) BY <1>2, LocalCompleteReturns
<1>4. how \in Reply \ {"none"} /\ how # "invalid" /\ "fresh" \in ValidResponse
  BY DEF Reply, ValidResponse
<1>5. After(n, "fresh", how, r, TRUE)
  BY <1>2, <1>4, AnsweredAfter DEF LocalComplete
<1> HIDE DEF r
<1>6. r.status >= JOB_GOTANSWER /\ r.reply \in {"early", how}
  BY <1>2, <1>4, <1>5 DEF After, Decided
<1>7. r.key = k /\ r.single = TRUE /\ r.reply = how
  BY <1>2, <1>5, <1>6 DEF After, Course
<1>8. r.live BY <1>2, <1>4, <1>5 DEF After, LastResort
<1>9. AtRest(r) = r
  <2>1. Whole(r) BY <1>3, <1>8 DEF Returned
  <2> QED BY <2>1, AtRestWhole
<1>10. Phase(r) = "decided"
  <2>1. r.status # JOB_EARLYRET BY <1>6
  <2> QED BY <1>6, <2>1 DEF Phase
<1> QED BY <1>7, <1>8, <1>9, <1>10, RequestOfLive DEF n, r

(* A reply sent is nothing new to the client, or the end of a decided job. *)
LEMMA ClientRespondedSeen ==
    ASSUME NEW j, Whole(j), Asked(j, TRUE), j.client.send # "none"
    PROVE  \/ RequestOf(AtRest(ClientResponded(j))) = RequestOf(j)
           \/ /\ RequestOf(j).phase = "decided"
              /\ RequestOf(AtRest(ClientResponded(j))) = Promise!Free
<1> DEFINE c == [j EXCEPT !.client = ClientIn(CLIENT_RESPONDED, "none")]
           r == ClientResponded(j)
<1>1. j \in JobRecord /\ j.live /\ j.status \in 0 .. 5
  BY JobFields DEF Whole, Base
<1>2. /\ j.client.status = CLIENT_RESPONDING
      /\ \/ j.status = JOB_GOTANSWER
         \/ j.status = JOB_EARLYRET /\ j.server # {}
  BY <1>1 DEF Whole, ClientInv
<1>3. ClientIn(CLIENT_RESPONDED, "none") \in ClientRecord BY ClientInType
<1>4. c \in JobRecord /\ Keeps(j, c) /\ c.reply = j.reply /\ c.status = j.status
      /\ c.live
  BY <1>1, <1>3 DEF JobRecord, Keeps
<1>5. r = ClientComplete(c) BY <1>2 DEF ClientResponded
<1>6. Returned(r) BY ClientRespondedReturns
<1> HIDE DEF c, r
<1>7. /\ Keeps(c, r) /\ r.reply = c.reply
      /\ r.status = IF c.status = JOB_EARLYRET /\ c.server # {}
                    THEN c.status ELSE JOB_RESPONDED
      /\ c.server # {} => r.live = c.live
  BY <1>4, <1>5, ClientCompleteKeeps
<1>8. /\ r.key = j.key /\ r.single = j.single /\ r.reply = j.reply
      /\ r.status = IF j.status = JOB_EARLYRET THEN JOB_EARLYRET ELSE JOB_RESPONDED
      /\ j.status = JOB_EARLYRET => r.live
  <2>1. c.server = j.server /\ c.key = j.key /\ c.single = j.single
    BY <1>4 DEF Keeps
  <2>2. r.key = c.key /\ r.single = c.single BY <1>7 DEF Keeps
  <2>3. CASE j.status = JOB_EARLYRET
    <3>1. c.status = JOB_EARLYRET /\ c.server # {} BY <1>2, <1>4, <2>1, <2>3
    <3> QED BY <1>4, <1>7, <2>1, <2>2, <2>3, <3>1
  <2>4. CASE j.status # JOB_EARLYRET
    <3>1. c.status # JOB_EARLYRET BY <1>4, <2>4
    <3> QED BY <1>4, <1>7, <2>1, <2>2, <2>4, <3>1
  <2> QED BY <2>3, <2>4
<1>9. Phase(j) = IF j.status = JOB_EARLYRET THEN "early" ELSE "decided"
  BY <1>2 DEF Phase
<1>10. CASE r.live
  <2>1. Whole(r) BY <1>6, <1>10 DEF Returned
  <2>2. AtRest(r) = r BY <2>1, AtRestWhole
  <2>3. Phase(r) = Phase(j) BY <1>2, <1>8, <1>9 DEF Phase
  <2>4. RequestOf(r) = RequestOf(j)
    BY <1>1, <1>8, <1>10, <2>3, RequestOfLive
  <2> QED BY <2>2, <2>4 DEF r
<1>11. CASE ~r.live
  <2>1. r.server = {} BY <1>6, <1>11 DEF Returned, Whole
  <2>2. RequestOf(AtRest(r)) = Promise!Free
    BY <1>11, <2>1, RequestOfNoJob DEF AtRest
  <2>3. RequestOf(j).phase = Phase(j) BY <1>1, RequestOfLive
  <2> QED BY <1>8, <1>9, <1>11, <2>2, <2>3 DEF r
<1> QED BY <1>10, <1>11

(* The heartbeat is nothing the client sees, or an early reply.            *)
LEMMA HeartBeatSeen ==
    ASSUME NEW j, Whole(j), Asked(j, TRUE), NEW e \in BOOLEAN,
           NEW F
    PROVE  LET o == RequestOf(j)
               r == RequestOf(HeartBeat(j, e, F))
           IN  \/ r = o
               \/ /\ o.phase = "waiting" /\ o.single /\ e
                  /\ r = [o EXCEPT !.phase = "early", !.reply = "early"]
<1> DEFINE r == HeartBeat(j, e, F)
           o == RequestOf(j)
<1>1. Whole(r) /\ Beats(j, e, r) BY HeartBeatMoves
<1> HIDE DEF r
<1>2. j.live /\ r.live BY <1>1 DEF Whole
<1>3. o = [phase |-> Phase(j), key |-> j.key, single |-> j.single,
           reply |-> j.reply]
  BY <1>2, RequestOfLive
<1> HIDE DEF o
<1>4. RequestOf(r) = [phase |-> Phase(r), key |-> r.key, single |-> r.single,
                      reply |-> r.reply]
  BY <1>2, RequestOfLive
<1>5. CASE Unseen(j, r)
  BY <1>3, <1>4, <1>5 DEF Unseen, Phase, o, r
<1>6. CASE ~Unseen(j, r)
  <2>1. j.status = JOB_REQUESTING /\ r.key = j.key /\ r.single = j.single
    BY <1>1, <1>6 DEF Beats
  <2>2. Phase(j) = "waiting" BY <2>1 DEF Phase
  <2>3. CASE r.status = JOB_NOEARLYRET /\ r.reply = j.reply
    <3>1. Phase(r) = "waiting" BY <2>3 DEF Phase
    <3> QED BY <1>3, <1>4, <2>1, <2>2, <2>3, <3>1 DEF o, r
  <2>4. CASE /\ j.single /\ e /\ j.reply = "none"
             /\ r.status = JOB_EARLYRET /\ r.reply = "early"
    <3>1. Phase(r) = "early" BY <2>4 DEF Phase
    <3>2. RequestOf(r) = [phase |-> "early", key |-> j.key,
                          single |-> j.single, reply |-> "early"]
      BY <1>4, <2>1, <2>4, <3>1
    <3>3. [o EXCEPT !.phase = "early", !.reply = "early"] =
            [phase |-> "early", key |-> j.key,
             single |-> j.single, reply |-> "early"]
      <4> DEFINE b == [o EXCEPT !.phase = "early"]
      <4>1. b = [phase |-> "early", key |-> j.key, single |-> j.single,
                 reply |-> j.reply]
        BY <1>3
      <4>2. [o EXCEPT !.phase = "early", !.reply = "early"]
              = [b EXCEPT !.reply = "early"]
        OBVIOUS
      <4> HIDE DEF b
      <4> QED BY <4>1, <4>2
    <3>4. o.phase = "waiting" /\ o.single /\ e
      BY <1>3, <2>2, <2>4
    <3> QED BY <3>2, <3>3, <3>4 DEF o, r
  <2> QED BY <1>1, <1>6, <2>3, <2>4 DEF Beats
<1> QED BY <1>5, <1>6

(* One job changes: one request does.                                      *)
LEMMA OneSeen ==
    ASSUME Inv, NEW i \in Job, NEW q, jobs' = [jobs EXCEPT ![i] = q]
    PROVE  Seen' = [Seen EXCEPT ![i] = RequestOf(q)]
BY DEF Inv, Seen

LEMMA OneUnseen ==
    ASSUME Inv, NEW i \in Job, NEW q, jobs' = [jobs EXCEPT ![i] = q],
           RequestOf(q) = RequestOf(jobs[i])
    PROVE  Seen' = Seen
BY OneSeen DEF Seen

(* A step that only the servers, the clocks or the sockets see.            *)
LEMMA UnseenIsNext ==
    ASSUME proc = "up", Seen' = Seen, UNCHANGED cache
    PROVE  Promise!Next
BY DEF Seen, Promise!Next, Promise!Step

LEMMA OnUdpRequestNext ==
    ASSUME Inv, NEW i \in Job, OnUdpRequest(i)
    PROVE  Promise!Next
<1>1. proc = "up" /\ Seen[i] = Promise!Free
  BY RequestOfNoJob DEF OnUdpRequest, Seen
<1>2. ASSUME UNCHANGED <<jobs, cache>> PROVE Promise!Next
  BY <1>1, <1>2, UnseenIsNext DEF Seen
<1>3. ASSUME NEW k \in Key \cup {NoKey}, NEW one \in BOOLEAN, Enters(i, NewJob(k, one))
      PROVE  Promise!Next
  <2>7. PICK F \in SUBSET BindFaults :
          Return(i, SendServers(NewJob(k, one), F))
    BY <1>3 DEF Enters
  <2> DEFINE q == AtRest(SendServers(NewJob(k, one), F))
  <2>1. jobs' = [jobs EXCEPT ![i] = q] /\ UNCHANGED cache
    BY <1>3, <2>7 DEF Enters, Return
  <2> DEFINE w == [phase |-> "waiting", key |-> k, single |-> one,
                   reply |-> "none"]
  <2>2. RequestOf(q) \in {w, Promise!Free}
    BY <2>7, Faulty, SendServersSeen
  <2> HIDE DEF q
  <2>3. Seen' = [Seen EXCEPT ![i] = RequestOf(q)] BY <2>1, OneSeen
  <2>4. CASE RequestOf(q) = w
    <3>1. Promise!Becomes(i, w) BY <2>3, <2>4 DEF Promise!Becomes, Seen
    <3>2. Seen[i].phase = "free" BY <1>1 DEF Promise!Free
    <3>3. Promise!Accept(i)
      BY <2>1, <3>1, <3>2 DEF Promise!Accept, Seen
    <3> QED BY <1>1, <3>3 DEF Promise!Next, Promise!Step
  <2>5. CASE RequestOf(q) = Promise!Free
    <3>1. Seen' = Seen BY <1>1, <2>3, <2>5 DEF Seen
    <3> QED BY <1>1, <2>1, <3>1, UnseenIsNext
  <2> QED BY <2>2, <2>4, <2>5
<1>4. ASSUME NEW k \in Key, NEW how \in {"cache", "hosts"},
             how = "cache" <=> cache[k] = "fresh", UNCHANGED cache,
             Return(i, LocalComplete(NewJob(k, TRUE), how))
      PROVE  Promise!Next
  <2> DEFINE q == AtRest(LocalComplete(NewJob(k, TRUE), how))
  <2>1. jobs' = [jobs EXCEPT ![i] = q]
    BY <1>4 DEF Return
  <2>2. RequestOf(q) = [phase |-> "decided", key |-> k, single |-> TRUE,
                        reply |-> how]
    BY LocalCompleteSeen
  <2> HIDE DEF q
  <2>3. Seen' = [Seen EXCEPT ![i] = RequestOf(q)] BY <2>1, OneSeen
  <2>4. Promise!Becomes(i, [phase |-> "decided", key |-> k, single |-> TRUE,
                            reply |-> how])
    BY <2>2, <2>3 DEF Promise!Becomes, Seen
  <2>5. Seen[i].phase = "free" BY <1>1 DEF Promise!Free
  <2>6. Promise!Local(i)
    BY <1>4, <2>4, <2>5 DEF Promise!Local, Seen
  <2> QED BY <1>1, <2>6 DEF Promise!Next, Promise!Step
<1>5. NoKey \in Key \cup {NoKey} /\ Key \subseteq Key \cup {NoKey} OBVIOUS
<1> QED BY <1>2, <1>3, <1>4, <1>5 DEF OnUdpRequest

(* A server that completes, by what its job shows.                         *)
LEMMA SeesEndIsNext ==
    ASSUME proc = "up", NEW i \in Job, NEW r, NEW stores \in BOOLEAN,
           NEW m \in {"expired", "fresh"},
           stores => Seen[i].key \in Key, SeesEnd(Seen[i], r, stores), Seen' = [Seen EXCEPT ![i] = r],
           cache' = IF stores THEN [cache EXCEPT ![Seen[i].key] = m] ELSE cache
    PROVE  Promise!Next
<1> DEFINE o == Seen[i]
<1>1. CASE r = o /\ ~stores
  <2>1. Seen' = Seen BY <1>1 DEF Seen
  <2> QED BY <1>1, <2>1, UnseenIsNext
<1>2. \/ UNCHANGED cache
      \/ stores /\ cache' = [cache EXCEPT ![o.key] = m]
  OBVIOUS
<1>3. Seen'[i] = r BY DEF Seen
<1>4. CASE /\ o.phase = "waiting"
           /\ \E a \in Promise!Answer :
                /\ r = [o EXCEPT !.phase = "decided", !.reply = a]
                /\ stores => a # "invalid"
  <2>1. PICK a \in Promise!Answer :
          /\ r = [o EXCEPT !.phase = "decided", !.reply = a]
          /\ stores => a # "invalid"
    BY <1>4
  <2>2. r.reply = a
    <3>1. o = [phase |-> o.phase, key |-> o.key, single |-> o.single,
               reply |-> o.reply]
      BY DEF Seen, RequestOf
    <3> HIDE DEF o
    <3> QED BY <2>1, <3>1
  <2>3. Promise!Decide(i)
    BY <1>4, <2>1 DEF Promise!Decide, Promise!Becomes, Seen
  <2>4. Promise!Answered(i)
    <3>1. CASE UNCHANGED cache BY <2>3, <3>1 DEF Promise!Answered
    <3>2. CASE stores /\ cache' = [cache EXCEPT ![o.key] = m]
      <4>1. Seen'[i].reply # "invalid" BY <1>3, <2>1, <2>2, <3>2
      <4> QED BY <2>3, <3>2, <4>1 DEF Promise!Answered, Seen
    <3> QED BY <1>2, <3>1, <3>2
  <2> QED BY <2>4 DEF Promise!Next, Promise!Step
<1>5. CASE /\ o.phase = "early" /\ r.reply # "invalid"
           /\ r = [o EXCEPT !.phase = "decided"] \/ r = Promise!Free
  <2>1. Promise!Decide(i)
    BY <1>5 DEF Promise!Decide, Promise!Becomes, Seen
  <2>2. Promise!Answered(i)
    BY <1>2, <1>3, <1>5, <2>1 DEF Promise!Answered, Seen
  <2> QED BY <2>2 DEF Promise!Next, Promise!Step
<1>6. CASE o.phase \in {"waiting", "decided"} /\ r = Promise!Free /\ ~stores
  <2>1. Promise!Unanswered(i) \/ Promise!Forget(i)
    BY <1>6 DEF Promise!Unanswered, Promise!Forget, Promise!Becomes, Seen
  <2> QED BY <2>1 DEF Promise!Next, Promise!Step
<1> QED BY <1>1, <1>4, <1>5, <1>6 DEF SeesEnd

LEMMA FinishServerNext ==
    ASSUME Inv, AllAsked, proc = "up", NEW i \in Job, NEW s \in Server,
           jobs[i].srv[s].op # "none", NEW m \in Response,
           FinishServer(i, s, m)
    PROVE  Promise!Next
<1> DEFINE j == jobs[i]
<1>1. PICK F \in SUBSET BindFaults :
        /\ Return(i, ServerComplete(j, s, m, F))
        /\ alone' = IF BacksFailAlone(j, s, m, F)
                    THEN alone \cup {i} ELSE alone
  BY DEF FinishServer
<1> DEFINE r == ServerComplete(j, s, m, F)
           stores == Stores(j, s, m)
<1>2. /\ Whole(j) \/ Ghost(j)
      /\ s \in j.server /\ Asked(j, TRUE) /\ j \in JobRecord
  BY ServerOfJob DEF AllAsked, Inv
<1>3. jobs' = [jobs EXCEPT ![i] = AtRest(r)] BY <1>1 DEF Return
<1>4. cache' = IF stores /\ j.key \in Key
               THEN [cache EXCEPT ![j.key] = m] ELSE cache
  BY DEF FinishServer, Put
<1>5. stores => m \in {"expired", "fresh"} /\ m \in ValidResponse
                /\ j.status < JOB_GOTANSWER
  BY DEF Stores, ValidResponse
<1>6. Seen[i] = RequestOf(j) BY DEF Seen
<1> HIDE DEF j, r, stores
<1>7. Seen' = [Seen EXCEPT ![i] = RequestOf(AtRest(r))] BY <1>3, OneSeen
<1>8. CASE Whole(j)
  <2>1. SeesEnd(RequestOf(j), RequestOf(AtRest(r)), stores)
    <3>1. CASE ~BacksFailAlone(j, s, m, F)
      BY <1>2, <1>8, <3>1, ServerSeen DEF r, stores
    <3>2. CASE BacksFailAlone(j, s, m, F)
      <4>1. Torn(r, j) /\ j.status < JOB_GOTANSWER
        BY <1>2, <1>8, <3>2, Faulty, ServerCompleteTorn
           DEF r, BacksFailAlone
      <4>2. stores = FALSE BY <3>2 DEF stores, Stores, BacksFailAlone, ValidResponse
      <4> QED BY <1>2, <1>8, <4>1, <4>2, TornSeen
    <3> QED BY <3>1, <3>2
  <2>2. RequestOf(j).key = j.key BY <1>8, RequestOfLive DEF Whole
  <2>3. PICK st \in BOOLEAN : st <=> stores /\ j.key \in Key OBVIOUS
  <2>4. PICK x \in {"expired", "fresh"} : stores => x = m BY <1>5
  <2>5. SeesEnd(Seen[i], RequestOf(AtRest(r)), st)
    BY <1>6, <2>1, <2>3 DEF SeesEnd
  <2>6. cache' = IF st THEN [cache EXCEPT ![Seen[i].key] = x] ELSE cache
    BY <1>4, <1>6, <2>2, <2>3, <2>4
  <2>7. st => Seen[i].key \in Key BY <1>6, <2>2, <2>3
  <2> QED BY <1>7, <2>5, <2>6, <2>7, SeesEndIsNext
<1>9. CASE Ghost(j)
  <2>1. ~j.live /\ ~(j.status < JOB_GOTANSWER) BY <1>9 DEF Ghost, Lost
  <2>2. ~r.live BY <1>2, <1>9, GhostCompletes DEF r
  <2>3. /\ RequestOf(j) = Promise!Free
        /\ RequestOf(AtRest(r)) = Promise!Free
    BY <2>1, <2>2, RequestOfDeleted, DeletedSeen
  <2>4. Seen' = Seen BY <1>6, <1>7, <2>3 DEF Seen
  <2>5. UNCHANGED cache BY <1>4, <1>5, <2>1
  <2> QED BY <2>4, <2>5, UnseenIsNext
<1> QED BY <1>2, <1>8, <1>9

LEMMA ServerHandlerNext ==
    ASSUME Inv, AllAsked, NEW i \in Job, NEW s \in Server,
           ServerHandler(i, s)
    PROVE  Promise!Next
<1>1. jobs[i].srv[s].op # "none" /\ proc = "up"
  BY DEF ServerHandler, OnReqSentUdp, OnPeekUdp, OnResponseUdp, OnCncted,
     OnReqSentTcp, OnResponseTcp, Ready, Running
<1>2. ASSUME NEW v, GoOn(i, s, v) PROVE Promise!Next
  <2> DEFINE q == [jobs[i] EXCEPT !.srv[s] = v]
  <2>1. jobs' = [jobs EXCEPT ![i] = q] /\ UNCHANGED cache
    BY <1>2 DEF GoOn, Inv
  <2>2. /\ q.live = jobs[i].live /\ q.status = jobs[i].status
        /\ q.key = jobs[i].key /\ q.single = jobs[i].single
        /\ q.reply = jobs[i].reply
    BY DEF Inv, JobRecord
  <2> HIDE DEF q
  <2>3. RequestOf(q) = RequestOf(jobs[i]) BY <2>2, SameRequest
  <2>4. Seen' = Seen BY <2>1, <2>3, OneUnseen
  <2> QED BY <1>1, <2>1, <2>4, UnseenIsNext
<1>3. \/ \E m \in Response : FinishServer(i, s, m)
      \/ \E v : GoOn(i, s, v)
  <2>1. "none" \in Response BY DEF Response
  <2> QED BY <2>1 DEF ServerHandler, OnReqSentUdp, OnPeekUdp, OnResponseUdp,
             OnCncted, OnReqSentTcp, OnResponseTcp
<1> QED BY <1>1, <1>2, <1>3, FinishServerNext

LEMMA OnResponsedNext ==
    ASSUME Inv, AllAsked, NEW i \in Job, OnResponsed(i)
    PROVE  Promise!Next
<1> DEFINE q == AtRest(ClientResponded(jobs[i]))
<1>1. jobs[i].client.send # "none" /\ proc = "up" /\ UNCHANGED cache
  BY DEF OnResponsed
<1>2. NoJob.client.send = "none" BY DEF NoJob, NewClient, ClientIn
<1>3. Whole(jobs[i]) /\ Asked(jobs[i], TRUE)
  BY <1>1, <1>2 DEF Inv, Tidy, Ghost, Lost, AllAsked
<1>4. jobs' = [jobs EXCEPT ![i] = q] BY DEF OnResponsed, Return
<1>5. \/ RequestOf(q) = RequestOf(jobs[i])
      \/ RequestOf(jobs[i]).phase = "decided" /\ RequestOf(q) = Promise!Free
  BY <1>1, <1>3, ClientRespondedSeen
<1> HIDE DEF q
<1>6. CASE RequestOf(q) = RequestOf(jobs[i])
  <2>1. Seen' = Seen BY <1>4, <1>6, OneUnseen
  <2> QED BY <1>1, <2>1, UnseenIsNext
<1>7. CASE RequestOf(jobs[i]).phase = "decided" /\ RequestOf(q) = Promise!Free
  <2>1. Seen' = [Seen EXCEPT ![i] = Promise!Free] BY <1>4, <1>7, OneSeen
  <2>2. Seen[i].phase = "decided" BY <1>7 DEF Seen
  <2>3. Promise!Forget(i)
    BY <1>1, <2>1, <2>2 DEF Promise!Forget, Promise!Becomes, Seen
  <2> QED BY <1>1, <2>3 DEF Promise!Next, Promise!Step
<1> QED BY <1>5, <1>6, <1>7

(* The jobs whose clients the heartbeat replies to make one step.          *)
LEMMA OnHeartbeatNext ==
    ASSUME Inv, AllAsked, OnHeartbeat
    PROVE  Promise!Next
<1> DEFINE S == {i \in Job : RequestOf(jobs'[i]) # RequestOf(jobs[i])}
<1>1. proc = "up" /\ UNCHANGED cache BY DEF OnHeartbeat
<1>2. ASSUME NEW i \in Job
      PROVE  LET o == RequestOf(jobs[i])
                 r == RequestOf(jobs'[i])
             IN  \/ r = o
                 \/ /\ o.phase = "waiting" /\ o.single
                    /\ o.key \in Key /\ cache[o.key] # "none"
                    /\ r = [o EXCEPT !.phase = "early", !.reply = "early"]
  <2> DEFINE e == Cached(jobs[i].key)
             hf(F) == IF jobs[i].live THEN HeartBeat(jobs[i], e, F) ELSE jobs[i]
  <2>4. PICK F \in SUBSET BindFaults : jobs'[i] = AtRest(hf(F))
    BY DEF OnHeartbeat
  <2> DEFINE h == hf(F)
  <2>1. jobs'[i] = AtRest(h) BY <2>4
  <2>2. CASE Whole(jobs[i])
    <3>1. PICK g \in BOOLEAN : g = e BY DEF Cached
    <3>2. PICK j : j = jobs[i] OBVIOUS
    <3>3. Whole(j) /\ Asked(j, TRUE) BY <2>2, <3>2 DEF AllAsked
    <3>4. h = HeartBeat(j, g, F) BY <3>1, <3>2, <3>3 DEF Whole
    <3>5. Whole(HeartBeat(j, g, F)) BY <3>3, HeartBeatMoves
    <3>6. jobs'[i] = HeartBeat(j, g, F)
      BY <2>1, <3>4, <3>5, AtRestWhole
    <3>7. RequestOf(j).key = j.key BY <3>3, RequestOfLive DEF Whole
    <3>8. LET o == RequestOf(j)
              r == RequestOf(HeartBeat(j, g, F))
          IN  \/ r = o
              \/ /\ o.phase = "waiting" /\ o.single /\ g
                 /\ r = [o EXCEPT !.phase = "early", !.reply = "early"]
      BY <3>3, HeartBeatSeen
    <3> HIDE DEF h
    <3>9. g => j.key \in Key /\ cache[j.key] # "none"
      BY <3>1, <3>2 DEF Cached
    <3> QED BY <3>2, <3>6, <3>7, <3>8, <3>9
  <2>3. CASE jobs[i] = NoJob
    <3>1. h = NoJob BY <2>3, NoJobType
    <3>2. AtRest(NoJob) = NoJob BY NoJobType DEF AtRest
    <3> HIDE DEF h
    <3> QED BY <2>1, <2>3, <3>1, <3>2
  <2>6. CASE Ghost(jobs[i])
    <3>1. h = jobs[i] BY <2>6 DEF Ghost, Lost
    <3>2. AtRest(jobs[i]) = jobs[i] BY <2>6, AtRestGhost
    <3> HIDE DEF h
    <3> QED BY <2>1, <3>1, <3>2
  <2> QED BY <2>2, <2>3, <2>6 DEF Inv, Tidy
<1>3. CASE S = {}
  <2>1. Seen' = Seen BY <1>3 DEF Seen
  <2> QED BY <1>1, <2>1, UnseenIsNext
<1>4. CASE S # {}
  <2>1. \A i \in S : /\ Seen[i].phase = "waiting" /\ Seen[i].single
                     /\ Seen[i].key \in Key /\ cache[Seen[i].key] # "none"
    BY <1>2 DEF Seen
  <2>2. Seen' = [i \in Job |->
                   IF i \in S
                   THEN [Seen[i] EXCEPT !.phase = "early", !.reply = "early"]
                   ELSE Seen[i]]
    BY <1>2 DEF Seen
  <2>3. S \in SUBSET Job OBVIOUS
  <2> HIDE DEF S
  <2>4. Promise!Early(S)
    BY <1>1, <1>4, <2>1, <2>2, <2>3 DEF Promise!Early, Seen
  <2> QED BY <1>1, <2>3, <2>4 DEF Promise!Next, Promise!Step
<1> QED BY <1>3, <1>4

LEMMA EnvironmentNext ==
    ASSUME Inv, Environment
    PROVE  Promise!Next
<1>1. ASSUME NEW i \in Job, NEW s \in Server, NetComplete(i, s)
      PROVE  Promise!Next
  <2>1. PICK e \in {"ok", "err"} : jobs' = [jobs EXCEPT ![i].srv[s].res = e]
    BY <1>1 DEF NetComplete
  <2> DEFINE q == [jobs[i] EXCEPT !.srv[s].res = e]
  <2>2. jobs' = [jobs EXCEPT ![i] = q] BY <2>1 DEF Inv
  <2>3. /\ q.live = jobs[i].live /\ q.status = jobs[i].status
        /\ q.key = jobs[i].key /\ q.single = jobs[i].single
        /\ q.reply = jobs[i].reply
    BY DEF Inv, JobRecord
  <2> HIDE DEF q
  <2>4. RequestOf(q) = RequestOf(jobs[i]) BY <2>3, SameRequest
  <2>5. Seen' = Seen BY <2>2, <2>4, OneUnseen
  <2> QED BY <1>1, <2>5, UnseenIsNext DEF NetComplete
<1>2. ASSUME NEW i \in Job, SendComplete(i)
      PROVE  Promise!Next
  <2>1. PICK e \in {"ok", "err"} : jobs' = [jobs EXCEPT ![i].client.send = e]
    BY <1>2 DEF SendComplete
  <2> DEFINE q == [jobs[i] EXCEPT !.client.send = e]
  <2>2. jobs' = [jobs EXCEPT ![i] = q] BY <2>1 DEF Inv
  <2>3. /\ q.live = jobs[i].live /\ q.status = jobs[i].status
        /\ q.key = jobs[i].key /\ q.single = jobs[i].single
        /\ q.reply = jobs[i].reply
    BY DEF Inv, JobRecord
  <2> HIDE DEF q
  <2>4. RequestOf(q) = RequestOf(jobs[i]) BY <2>3, SameRequest
  <2>5. Seen' = Seen BY <2>2, <2>4, OneUnseen
  <2> QED BY <1>2, <2>5, UnseenIsNext DEF SendComplete
<1>3. ASSUME NEW k \in Key, Expire(k) \/ Evict(k)
      PROVE  Promise!Next
  <2>1. /\ proc = "up" /\ cache[k] # "none" /\ UNCHANGED jobs
        /\ \E m \in {"none", "expired"} : cache' = [cache EXCEPT ![k] = m]
    BY <1>3 DEF Expire, Evict, Put
  <2>2. Promise!Fade(k) BY <2>1 DEF Promise!Fade
  <2> QED BY <2>1, <2>2 DEF Promise!Next, Promise!Step
<1>4. ASSUME Tick
      PROVE  Promise!Next
  <2>1. ASSUME NEW i \in Job
        PROVE  RequestOf(jobs'[i]) = RequestOf(jobs[i])
    <3>1. CASE ~jobs[i].live
      BY <1>4, <3>1 DEF Tick
    <3>2. CASE jobs[i].live
      <4>1. jobs'[i] = Aged(jobs[i]) BY <1>4, <3>2 DEF Tick
      <4>2. PICK j \in JobRecord : j = jobs[i] BY DEF Inv
      <4>3. /\ Aged(j).live = j.live /\ Aged(j).status = j.status
            /\ Aged(j).key = j.key /\ Aged(j).single = j.single
            /\ Aged(j).reply = j.reply
        BY DEF Aged, JobRecord
      <4> QED BY <4>1, <4>2, <4>3, SameRequest
    <3> QED BY <3>1, <3>2
  <2>2. Seen' = Seen BY <2>1 DEF Seen
  <2> QED BY <1>4, <2>2, UnseenIsNext DEF Tick
<1>5. ASSUME Stop
      PROVE  Promise!Next
  <2>1. proc = "up" /\ UNCHANGED <<jobs, cache>> BY <1>5 DEF Stop
  <2>2. Seen' = Seen BY <2>1 DEF Seen
  <2> QED BY <2>1, <2>2, UnseenIsNext
<1> QED BY <1>1, <1>2, <1>3, <1>4, <1>5 DEF Environment

(* AHosts keeps the promise made to its clients and to its cache           *)
(* (Resolver): one decision and one reply for a request, and nothing in    *)
(* the cache but the answers that decided.                                 *)
THEOREM PromiseIsKept ==
    Spec => KeepsPromise
<1>1. Init => Promise!Init
  <2> SUFFICES ASSUME Init PROVE Promise!Init
    OBVIOUS
  <2>1. Seen = [i \in Job |-> Promise!Free]
    BY RequestOfNoJob DEF Init, Seen
  <2> QED BY <2>1 DEF Init, Promise!Init, Seen
<1>2. Inv /\ AllAsked /\ [Next]_vars => [Promise!Next]_Promise!rvars
  <2> SUFFICES ASSUME Inv, AllAsked, [Next]_vars
               PROVE  [Promise!Next]_Promise!rvars
    OBVIOUS
  <2>1. ASSUME NEW i \in Job, OnUdpRequest(i) PROVE Promise!Next
    BY <2>1, OnUdpRequestNext
  <2>2. ASSUME NEW i \in Job, OnResponsed(i) PROVE Promise!Next
    BY <2>2, OnResponsedNext
  <2>3. ASSUME NEW i \in Job, NEW s \in Server, ServerHandler(i, s)
        PROVE  Promise!Next
    BY <2>3, ServerHandlerNext
  <2>4. CASE OnHeartbeat BY <2>4, OnHeartbeatNext
  <2>5. CASE Environment BY <2>5, EnvironmentNext
  <2>6. CASE UNCHANGED vars BY <2>6 DEF vars, Promise!rvars
  <2> QED BY <2>1, <2>2, <2>3, <2>4, <2>5, <2>6 DEF Next
<1> QED BY <1>1, <1>2, AskedInvariance, PTL DEF Spec, KeepsPromise, Promise!Spec
=============================================================================
