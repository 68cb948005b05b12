----------------------------- MODULE AHostsJob -----------------------------
(***************************************************************************)
(* One request being resolved: the AHostsJob of AHosts.cpp with its        *)
(* UdpClient and its DnsServers (UdpServer, TcpServer).                    *)
(*                                                                         *)
(* The functions of these classes call each other synchronously, and the   *)
(* calls nest: UdpServer::send may end in AHostsJob::serverComplete, which *)
(* may end in UdpClient::cancel, AHostsJob::clientComplete and             *)
(* AHosts::jobComplete, which deletes the job under all of them.  Each     *)
(* function is therefore an operator from the job's record to the job's    *)
(* record, and a handler of the event loop (module AHosts) is a            *)
(* composition of them, in the order of the code.  A deleted job keeps its *)
(* record with live = FALSE until the handler is over, so that what the    *)
(* code does with the freed memory can be followed.                        *)
(***************************************************************************)
EXTENDS Naturals, FiniteSets

CONSTANTS
    Key,            \* the names and types asked for (m_reqNameType)
    NoKey,          \* the empty m_reqNameType of a request not understood
    UServers,       \* ServersUdp
    TServers,       \* ServersTcp
    UServersBack,   \* BackServersUdp
    TServersBack,   \* BackServersTcp
    FirstServer,    \* the first server request() contacts
    FirstBack,      \* the first server sendBackservers() contacts
    EarlyTimeout,   \* in ticks; 0 disables the early return
    BackTimeout,    \* in ticks
    Timeout         \* in ticks

Udp == UServers \cup UServersBack
Main == UServers \cup TServers
Backs == UServersBack \cup TServersBack
Server == Main \cup Backs

(* Configurations AHostsConf::load accepts: at least one main server.  The *)
(* UDP servers of each group are contacted before its TCP servers.  One    *)
(* address may occur in both groups, but as two DnsServer objects.         *)
ASSUME ServerAssumption ==
    /\ UServers \cap TServers = {}
    /\ UServersBack \cap TServersBack = {}
    /\ Main \cap Backs = {}
    /\ FirstServer \in IF UServers # {} THEN UServers ELSE TServers
    /\ Backs # {} =>
         FirstBack \in IF UServersBack # {} THEN UServersBack ELSE TServersBack

ASSUME TimeoutAssumption ==
    /\ EarlyTimeout \in Nat
    /\ BackTimeout \in Nat
    /\ Timeout \in Nat
    /\ NoKey \notin Key

-----------------------------------------------------------------------------
(* The three enums of AHosts.hpp; the code compares them with <.           *)
JOB_BEGIN == 0
JOB_REQUESTING == 1
JOB_EARLYRET == 2
JOB_NOEARLYRET == 3
JOB_GOTANSWER == 4
JOB_RESPONDED == 5

CLIENT_BEGIN == 0
CLIENT_WAITING == 1
CLIENT_RESPONDING == 2
CLIENT_RESPONDED == 3

SERVER_BEGIN == 0
SERVER_SENDING == 1
SERVER_WAITING == 2
SERVER_GOTANSWER == 3

(* Every timer compares a time passed with one of the three timeouts, so   *)
(* times beyond all of them need not be told apart.                        *)
AgeCap ==
    1 + (IF EarlyTimeout > BackTimeout
         THEN IF EarlyTimeout > Timeout THEN EarlyTimeout ELSE Timeout
         ELSE IF BackTimeout > Timeout THEN BackTimeout ELSE Timeout)
Age == 0 .. AgeCap
Older(a) == IF a < AgeCap THEN a + 1 ELSE a

(* The asynchronous operation a server has outstanding, and its result:    *)
(* "pending" until the kernel or close() decides it; "ok" and "err" while  *)
(* its handler waits to be run.                                            *)
Operation == {"none", "send", "peek", "recv", "connect", "write", "read"}
Result == {"pending", "ok", "err"}

(* What serverComplete is given: nothing, an answer it finds invalid       *)
(* (RCODE other than 0 and 3, undecodable, or failing checkAnswer), or a   *)
(* valid answer, by what manageTtl makes of it: a negative TTL is not      *)
(* cached, 0 is cached as expired.                                         *)
ValidResponse == {"uncached", "expired", "fresh"}
Response == {"none", "invalid"} \cup ValidResponse
Reply == {"none", "cache", "hosts", "early", "answer", "invalid"}
InternalError == {"job ptr", "server ptr", "job status", "client status",
                  "client cancel", "server begin", "job destroyed"}

ServerRecord ==
    [status : SERVER_BEGIN .. SERVER_GOTANSWER, cancel : BOOLEAN,
     op : Operation, res : Result, age : Age]
ClientRecord ==
    [status : CLIENT_BEGIN .. CLIENT_RESPONDED,
     send : Result \cup {"none"}, age : Age]
JobRecord ==
    [live : BOOLEAN, status : JOB_BEGIN .. JOB_RESPONDED,
     server : SUBSET Server, backsent : BOOLEAN,
     srv : [Server -> ServerRecord], client : ClientRecord, age : Age,
     key : Key \cup {NoKey}, single : BOOLEAN, reply : Reply,
     uaf : BOOLEAN, errs : SUBSET InternalError]

ServerIn(st, o) == [status |-> st, cancel |-> FALSE, op |-> o,
                    res |-> "pending", age |-> 0]
NewServer == ServerIn(SERVER_BEGIN, "none")
SentServer(s) ==
    ServerIn(SERVER_SENDING, IF s \in Udp THEN "send" ELSE "connect")
DoneServer == ServerIn(SERVER_GOTANSWER, "none")
ClientIn(st, snd) == [status |-> st, send |-> snd, age |-> 0]
NewClient == ClientIn(CLIENT_BEGIN, "none")
NoJob == [live |-> FALSE, status |-> JOB_BEGIN, server |-> {},
          backsent |-> TRUE, srv |-> [s \in Server |-> NewServer],
          client |-> NewClient, age |-> 0, key |-> NoKey, single |-> FALSE,
          reply |-> "none", uaf |-> FALSE, errs |-> {}]

-----------------------------------------------------------------------------
(* A check of the code that found the impossible and logged an error.      *)
Fault(j, e) == [j EXCEPT !.errs = @ \cup {e}]

(* Code that goes on with the job after a call that may have deleted it.   *)
Touch(j) == [j EXCEPT !.uaf = @ \/ ~j.live]

(* close() ends an outstanding operation unless its result is decided.     *)
Aborted(r) == IF r = "pending" THEN "err" ELSE r

(* An operation started on a socket that cancel() closed fails at once.    *)
StartOp(v, o) ==
    [v EXCEPT !.op = o, !.res = IF v.cancel THEN "err" ELSE "pending"]

(* AHosts::jobComplete, with the assertion of ~AHostsJob.                  *)
JobComplete(j) ==
    IF ~j.live
    THEN Fault(j, "job ptr")
    ELSE [j EXCEPT !.live = FALSE,
                   !.errs = IF j.server = {} THEN @
                            ELSE @ \cup {"job destroyed"}]

(* AHostsJob::clientComplete; first without its look at m_server.          *)
ClientCompleteAlone(j) == JobComplete([j EXCEPT !.status = JOB_RESPONDED])

ClientComplete(j) ==
    LET a == IF j.status \in {JOB_GOTANSWER, JOB_EARLYRET} THEN j
             ELSE [Fault(j, "job status") EXCEPT !.status = JOB_GOTANSWER]
        b == IF a.status # JOB_EARLYRET \/ a.server = {}
             THEN [a EXCEPT !.status = JOB_RESPONDED] ELSE a
    IN  IF b.server = {} THEN JobComplete(b) ELSE b

(* UdpClient::cancel; first as if a reply under way could be given up.     *)
ClientCancelAtOnce(j) ==
    ClientComplete([j EXCEPT !.client = ClientIn(CLIENT_RESPONDED, "none")])

ClientCancel(j) ==
    IF j.client.status <= CLIENT_WAITING
    THEN ClientComplete([j EXCEPT !.client = ClientIn(CLIENT_RESPONDED, "none")])
    ELSE IF j.client.status = CLIENT_RESPONDING
    THEN [j EXCEPT !.client.send = Aborted(@)]
    ELSE Fault(j, "client cancel")

(* UdpClient::response; first without its check of the status.             *)
ClientResponseAnew(j, how) ==
    [j EXCEPT !.client = ClientIn(CLIENT_RESPONDING, "pending"), !.reply = how]

ClientResponse(j, how) ==
    IF j.client.status # CLIENT_WAITING
    THEN Fault(j, "client status")
    ELSE [j EXCEPT !.client = ClientIn(CLIENT_RESPONDING, "pending"),
                   !.reply = how]

(* UdpClient::onResponsed, the result of the send in hand.                 *)
ClientResponded(j) ==
    IF j.client.status # CLIENT_RESPONDING
    THEN Fault(j, "client status")
    ELSE ClientComplete([j EXCEPT !.client = ClientIn(CLIENT_RESPONDED, "none")])

(* UdpClient::heartBeat.                                                   *)
ClientHeartBeat(j) ==
    IF j.client.status = CLIENT_RESPONDING /\ j.client.age > Timeout
    THEN ClientCancel(j) ELSE j

(* UdpServer::cancel and TcpServer::cancel of each server of S.  A server  *)
(* still in SERVER_BEGIN would complete inside the loop over m_server and  *)
(* invalidate its iterator.                                                *)
Canceled(v) ==
    IF v.status \in {SERVER_SENDING, SERVER_WAITING}
    THEN [v EXCEPT !.cancel = TRUE, !.res = Aborted(v.res)] ELSE v

CancelServers(j, S) ==
    LET r == [j EXCEPT !.srv = [s \in Server |->
                IF s \in S THEN Canceled(j.srv[s]) ELSE j.srv[s]]]
    IN  IF \E s \in S : j.srv[s].status = SERVER_BEGIN
        THEN Fault(r, "server begin") ELSE r

(* UdpServer::heartBeat and TcpServer::heartBeat of the running servers;   *)
(* first limited to servers whose request is not yet sent.                 *)
ServersHeartBeatSending(j) ==
    CancelServers(j, {s \in j.server :
                        /\ j.srv[s].status = SERVER_SENDING
                        /\ j.srv[s].age > Timeout})

ServersHeartBeat(j) ==
    CancelServers(j, {s \in j.server :
                        /\ j.srv[s].status \in {SERVER_SENDING, SERVER_WAITING}
                        /\ j.srv[s].age > Timeout})

-----------------------------------------------------------------------------
(* The server leaves m_server for m_finished.                              *)
Remove(j, s) ==
    [j EXCEPT !.server = @ \ {s}, !.srv[s] = DoneServer]

(* new UdpServer or new TcpServer, m_server.insert and send() for each     *)
(* server of S; the ones of F find no local port to bind and complete      *)
(* inside send().  Their serverComplete changes nothing more as long as    *)
(* another server runs or the job has its answer; the callers see to the   *)
(* first server, for which this is not so.                                 *)
Launch(j, S, F) ==
    [j EXCEPT
      !.server = (@ \cup S) \ (S \cap F),
      !.srv = [s \in Server |->
                 IF s \in S \cap F THEN DoneServer
                 ELSE IF s \in S THEN SentServer(s)
                 ELSE @[s]]]

(* The end of serverComplete: the client may have been served early, and   *)
(* the job is over when neither side has anything left to do; first        *)
(* without the case of the early return.                                   *)
SettleLate(j) ==
    LET t == Touch(j)
    IN  IF t.server = {} /\ t.status = JOB_RESPONDED THEN JobComplete(t) ELSE t

Settle(j) ==
    LET t == Touch(j)
        a == IF t.status = JOB_GOTANSWER /\ t.client.status = CLIENT_RESPONDED
             THEN [t EXCEPT !.status = JOB_RESPONDED] ELSE t
    IN  IF a.server = {} /\ a.status = JOB_RESPONDED THEN JobComplete(a) ELSE a

(* No server is left and none gave an answer; first without the case of    *)
(* the early return.                                                       *)
GiveUpAlways(j) == ClientCancel([j EXCEPT !.status = JOB_GOTANSWER])

GiveUp(j) ==
    LET a == [j EXCEPT !.status = JOB_GOTANSWER]
    IN  IF j.status = JOB_EARLYRET THEN a ELSE ClientCancel(a)

(* AHostsJob::sendBackservers, called while status < JOB_GOTANSWER.  When  *)
(* no server runs and the first one fails in send(), the nested            *)
(* serverComplete gives the job up while the loop goes on.                 *)
SendBackservers(j, F) ==
    LET b == [j EXCEPT !.backsent = TRUE]
    IN  IF b.server = {} /\ FirstBack \in F
        THEN Launch(Touch(Settle(GiveUp(Remove(b, FirstBack)))),
                    Backs \ {FirstBack}, F)
        ELSE Launch(b, Backs, F)

(* All servers finished and no answer; first without the back servers.     *)
NoAnswerNoBacks(j, F) == IF j.server = {} THEN GiveUp(j) ELSE j

NoAnswer(j, F) ==
    LET b == IF j.backsent THEN j ELSE SendBackservers(j, F)
    IN  IF b.server = {} THEN GiveUp(b) ELSE b

(* A non-empty response while the job has no answer: a valid one ends the  *)
(* search, an invalid one only when no server is left to wait for; first   *)
(* with the back servers asked too soon, then with no server canceled.     *)
DeliverSoon(j, m, how, F) ==
    LET valid == m \in ValidResponse
        b == IF ~valid /\ ~j.backsent THEN SendBackservers(j, F) ELSE j
        c == [b EXCEPT !.status = JOB_GOTANSWER]
        d == IF b.status = JOB_EARLYRET THEN c ELSE ClientResponse(c, how)
    IN  IF valid \/ b.server = {} THEN CancelServers(d, d.server) ELSE b

DeliverOnly(j, m, how, F) ==
    LET c == [j EXCEPT !.status = JOB_GOTANSWER]
    IN  IF m \notin ValidResponse /\ j.server # {} THEN j
        ELSE IF j.status = JOB_EARLYRET THEN c ELSE ClientResponse(c, how)

Deliver(j, m, how, F) ==
    LET valid == m \in ValidResponse
        b == IF ~valid /\ j.server = {} /\ ~j.backsent
             THEN SendBackservers(j, F) ELSE j
        c == [b EXCEPT !.status = JOB_GOTANSWER]
        d == IF b.status = JOB_EARLYRET THEN c ELSE ClientResponse(c, how)
    IN  IF valid \/ b.server = {} THEN CancelServers(d, d.server) ELSE b

Answered(j, m, how, F) ==
    Settle(IF j.status >= JOB_GOTANSWER THEN j
           ELSE IF m # "none" THEN Deliver(j, m, how, F)
           ELSE IF j.server = {} THEN NoAnswer(j, F)
           ELSE j)

(* AHostsJob::serverComplete for a server, and (next) for an answer of the *)
(* cache or of hosts.ext, where server is NULL.                            *)
ServerComplete(j, s, m, F) ==
    IF s \notin j.server
    THEN Fault([j EXCEPT !.srv[s] = DoneServer], "server ptr")
    ELSE Answered(Remove(j, s), m,
                  IF m = "invalid" THEN "invalid" ELSE "answer", F)

LocalComplete(j, how) == Answered(j, "fresh", how, {})

(* The answer serverComplete writes to the cache; first with the TTL not   *)
(* looked at, then with late answers let in.                               *)
StoresAll(j, s, m) ==
    s \in j.server /\ j.status < JOB_GOTANSWER /\ m \in ValidResponse

StoresLate(j, s, m) == s \in j.server /\ m \in {"expired", "fresh"}

Stores(j, s, m) ==
    s \in j.server /\ j.status < JOB_GOTANSWER /\ m \in {"expired", "fresh"}

-----------------------------------------------------------------------------
(* AHostsJob::AHostsJob and the part of UdpClient::run before request().   *)
NewJob(k, single) ==
    [NoJob EXCEPT
       !.live = TRUE, !.key = k, !.single = single,
       !.backsent = ~(0 < BackTimeout /\ BackTimeout < Timeout /\ Backs # {}),
       !.client = ClientIn(CLIENT_WAITING, "none")]

(* The loops at the end of AHostsJob::request.                             *)
SendServers(j, F) ==
    LET r == [j EXCEPT !.status = JOB_REQUESTING]
    IN  IF FirstServer \in F
        THEN Launch(Touch(Settle(NoAnswer(Remove(r, FirstServer), F))),
                    Main \ {FirstServer}, F)
        ELSE Launch(r, Main, F)

(* AHostsJob::heartBeat; entry says whether the cache holds the job's key. *)
(* First without the check of the number of questions.                     *)
EarlyReturnAny(j, entry) ==
    IF ~(j.status = JOB_REQUESTING /\ 0 < EarlyTimeout /\ j.age > EarlyTimeout)
    THEN j
    ELSE IF entry
    THEN ClientResponse([j EXCEPT !.status = JOB_EARLYRET], "early")
    ELSE [j EXCEPT !.status = JOB_NOEARLYRET]

EarlyReturn(j, entry) ==
    IF ~(j.status = JOB_REQUESTING /\ 0 < EarlyTimeout /\ j.age > EarlyTimeout)
    THEN j
    ELSE IF j.single /\ entry
    THEN ClientResponse([j EXCEPT !.status = JOB_EARLYRET], "early")
    ELSE [j EXCEPT !.status = JOB_NOEARLYRET]

BackHeartBeat(j, F) ==
    IF /\ ~j.backsent
       /\ JOB_REQUESTING <= j.status /\ j.status < JOB_GOTANSWER
       /\ 0 < BackTimeout /\ BackTimeout < j.age /\ j.age < Timeout
    THEN SendBackservers(j, F) ELSE j

HeartBeat(j, entry, F) ==
    ClientHeartBeat(ServersHeartBeat(BackHeartBeat(EarlyReturn(j, entry), F)))

(* Time passes for the steady_clock differences the timers compare.        *)
Aging(v) == [v EXCEPT !.age = Older(v.age)]

Aged(j) ==
    [j EXCEPT !.age = Older(j.age),
              !.client = IF j.client.status = CLIENT_RESPONDING
                         THEN Aging(j.client) ELSE j.client,
              !.srv = [s \in Server |->
                         IF s \in j.server THEN Aging(j.srv[s]) ELSE j.srv[s]]]
=============================================================================
