------------------------------- MODULE AHosts -------------------------------
(***************************************************************************)
(* The event loop of AHosts: AHosts::start runs one thread in              *)
(* io_service.run, which executes handlers one at a time, each to its end. *)
(* An action is one handler.  The network decides in between when an       *)
(* outstanding asynchronous operation is over, and with what result        *)
(* (Complete...): from then on its handler is ready, whatever happens to   *)
(* the socket before the loop runs it.                                     *)
(***************************************************************************)
EXTENDS AHostsJob

CONSTANTS
    Job,        \* names for AHostsJob objects: at most this many at a time
    BindFaults  \* upstream servers whose UDP socket may find no local port

ASSUME BindAssumption == BindFaults \subseteq Udp

VARIABLES
    jobs,   \* m_jobs, and the objects each job owns
    cache,  \* m_cache by key, as far as a reader tells entries apart
    proc,   \* the process
    errs,   \* the checks that failed in the handler just run
    alone   \* history: the jobs that met a bind failure with no server running

vars == <<jobs, cache, proc, errs, alone>>

CacheState == {"none", "expired", "fresh"}

TypeOK ==
    /\ jobs \in [Job -> JobRecord]
    /\ cache \in [Key -> CacheState]
    /\ proc \in {"up", "stopped", "crashed"}
    /\ errs \subseteq InternalError
    /\ alone \subseteq Job

Init ==
    /\ jobs = [i \in Job |-> NoJob]
    /\ cache = [k \in Key |-> "none"]
    /\ proc = "up"
    /\ errs = {}
    /\ alone = {}

-----------------------------------------------------------------------------
(* The job after the handler.  A deleted one is gone, unless a server with *)
(* an operation outstanding still points to it: its handler will run.      *)
AtRest(r) ==
    IF r.live \/ r.server # {} THEN [r EXCEPT !.uaf = FALSE, !.errs = {}]
    ELSE NoJob

(* What using freed memory does is undefined.  The memory may still hold   *)
(* the old values, with the consequences the record shows; or other ones,  *)
(* which hide the second jobComplete; or the process dies.                 *)
Outcome(uaf, e) ==
    \/ errs' = e /\ proc' = proc
    \/ uaf /\ errs' = e \ {"job ptr"} /\ proc' = proc
    \/ uaf /\ errs' = {} /\ proc' = "crashed"

Return(i, r) ==
    /\ jobs' = [jobs EXCEPT ![i] = AtRest(r)]
    /\ Outcome(r.uaf, r.errs)

(* What is stored under the name of a request that was not understood is   *)
(* never looked up.                                                        *)
Put(k, m) == cache' = IF k \in Key THEN [cache EXCEPT ![k] = m] ELSE cache
Cached(k) == k \in Key /\ cache[k] # "none"

(* The last server has completed without a valid answer, and the first of  *)
(* the back servers, which are asked now, completes inside its send().     *)
BacksFailAlone(j, s, m, F) ==
    /\ j.server = {s} /\ ~j.backsent
    /\ j.status < JOB_GOTANSWER /\ m \notin ValidResponse
    /\ FirstBack \in F

(* serverComplete called by the handler of server s.                       *)
FinishServer(i, s, m) ==
    /\ \E F \in SUBSET BindFaults :
         /\ Return(i, ServerComplete(jobs[i], s, m, F))
         /\ alone' = IF BacksFailAlone(jobs[i], s, m, F)
                     THEN alone \cup {i} ELSE alone
    /\ IF Stores(jobs[i], s, m) THEN Put(jobs[i].key, m) ELSE UNCHANGED cache

(* A handler that only starts the next operation, or goes on waiting.      *)
GoOn(i, s, v) ==
    /\ jobs' = [jobs EXCEPT ![i].srv[s] = v]
    /\ errs' = {}
    /\ UNCHANGED <<cache, proc, alone>>

Running(i, s, o) ==
    /\ proc = "up"
    /\ jobs[i].srv[s].op = o

Ready(i, s, o) == Running(i, s, o) /\ jobs[i].srv[s].res # "pending"
Ok(i, s) == jobs[i].srv[s].res = "ok"
-----------------------------------------------------------------------------
(* AHosts::onUdpRequest: a new job, UdpClient::run and AHostsJob::request. *)
(* A name in the cache or in hosts.ext is looked up only for a request     *)
(* with exactly one question.                                              *)
Enters(i, j) ==
    /\ \E F \in SUBSET BindFaults :
         /\ Return(i, SendServers(j, F))
         /\ alone' = IF FirstServer \in F THEN alone \cup {i} ELSE alone \ {i}
    /\ UNCHANGED cache

OnUdpRequest(i) ==
    /\ proc = "up"
    /\ jobs[i] = NoJob
    /\ \/ \* no request received, or UdpClient::run cannot bind its socket
          /\ errs' = {}
          /\ UNCHANGED <<jobs, cache, proc, alone>>
       \/ \* codecMessage cannot decompress the request
          Enters(i, NewJob(NoKey, FALSE))
       \/ \E k \in Key : Enters(i, NewJob(k, FALSE))
       \/ \E k \in Key :
            /\ cache[k] = "fresh"
            /\ Return(i, LocalComplete(NewJob(k, TRUE), "cache"))
            /\ alone' = alone \ {i}
            /\ UNCHANGED cache
       \/ \E k \in Key :
            /\ cache[k] # "fresh"
            /\ Return(i, LocalComplete(NewJob(k, TRUE), "hosts"))
            /\ alone' = alone \ {i}
            /\ UNCHANGED cache
       \/ \E k \in Key : cache[k] # "fresh" /\ Enters(i, NewJob(k, TRUE))

-----------------------------------------------------------------------------
(* UdpServer::onReqSent.  It does not look at m_cancel: with the socket    *)
(* closed behind it, the peek it starts fails at once.                     *)
OnReqSentUdp(i, s) ==
    /\ Ready(i, s, "send")
    /\ IF Ok(i, s)
       THEN GoOn(i, s, StartOp([jobs[i].srv[s] EXCEPT !.status = SERVER_WAITING],
                               "peek"))
       ELSE FinishServer(i, s, "none")

(* UdpServer::onResponse after the peek, which tells the size to receive.  *)
OnPeekUdp(i, s) ==
    /\ Ready(i, s, "peek")
    /\ IF Ok(i, s) /\ ~jobs[i].srv[s].cancel
       THEN GoOn(i, s, StartOp(jobs[i].srv[s], "recv"))
       ELSE FinishServer(i, s, "none")

(* UdpServer::onResponse after the receive.  A canceled server drops even  *)
(* a complete answer; a wrong id makes an empty one; an empty datagram     *)
(* leaves m_res empty and is taken for one more peek.                      *)
OnResponseUdp(i, s) ==
    /\ Ready(i, s, "recv")
    /\ IF Ok(i, s) /\ ~jobs[i].srv[s].cancel
       THEN \/ \E m \in Response : FinishServer(i, s, m)
            \/ GoOn(i, s, StartOp(jobs[i].srv[s], "recv"))
       ELSE FinishServer(i, s, "none")

(* TcpServer::onCncted.                                                    *)
OnCncted(i, s) ==
    /\ Ready(i, s, "connect")
    /\ IF Ok(i, s)
       THEN GoOn(i, s, StartOp(jobs[i].srv[s], "write"))
       ELSE FinishServer(i, s, "none")

(* TcpServer::onReqSent.                                                   *)
OnReqSentTcp(i, s) ==
    /\ Ready(i, s, "write")
    /\ IF Ok(i, s)
       THEN GoOn(i, s, StartOp([jobs[i].srv[s] EXCEPT !.status = SERVER_WAITING],
                               "read"))
       ELSE FinishServer(i, s, "none")

(* TcpServer::onResponse.  It does not look at m_cancel: a canceled server *)
(* whose answer was complete delivers it all the same.  An incomplete      *)
(* message is read on.                                                     *)
OnResponseTcp(i, s) ==
    /\ Ready(i, s, "read")
    /\ IF Ok(i, s)
       THEN \/ \E m \in Response : FinishServer(i, s, m)
            \/ GoOn(i, s, StartOp(jobs[i].srv[s], "read"))
       ELSE FinishServer(i, s, "none")

(* UdpClient::onResponsed: the same whether the reply was sent or not.     *)
OnResponsed(i) ==
    /\ proc = "up"
    /\ jobs[i].client.send \in {"ok", "err"}
    /\ Return(i, ClientResponded(jobs[i]))
    /\ UNCHANGED <<cache, alone>>

(* AHosts::onHeartbeat, every HBTIMEMS milliseconds.  A job deleted by its *)
(* heartBeat would leave the loop with an iterator to freed memory.        *)
OnHeartbeat ==
    /\ proc = "up"
    /\ \E F \in [Job -> SUBSET BindFaults] :
         LET r == [i \in Job |->
                     IF jobs[i].live
                     THEN HeartBeat(jobs[i], Cached(jobs[i].key), F[i])
                     ELSE jobs[i]]
         IN  /\ jobs' = [i \in Job |-> AtRest(r[i])]
             /\ Outcome(\E i \in Job : r[i].uaf \/ r[i].live # jobs[i].live,
                        UNION {r[i].errs : i \in Job})
    /\ UNCHANGED <<cache, alone>>

-----------------------------------------------------------------------------
(* The network, and the kernel.                                            *)
NetComplete(i, s) ==
    /\ proc = "up"
    /\ jobs[i].srv[s].op # "none"
    /\ jobs[i].srv[s].res = "pending"
    /\ \E r \in {"ok", "err"} : jobs' = [jobs EXCEPT ![i].srv[s].res = r]
    /\ errs' = {}
    /\ UNCHANGED <<cache, proc, alone>>

SendComplete(i) ==
    /\ proc = "up"
    /\ jobs[i].client.send = "pending"
    /\ \E r \in {"ok", "err"} : jobs' = [jobs EXCEPT ![i].client.send = r]
    /\ errs' = {}
    /\ UNCHANGED <<cache, proc, alone>>

(* The clocks, and other requests: a cached answer grows older than its    *)
(* TTL, or makes room for others.                                          *)
Tick ==
    /\ proc = "up"
    /\ jobs' = [i \in Job |-> IF jobs[i].live THEN Aged(jobs[i]) ELSE jobs[i]]
    /\ errs' = {}
    /\ UNCHANGED <<cache, proc, alone>>

Expire(k) ==
    /\ proc = "up"
    /\ cache[k] = "fresh"
    /\ Put(k, "expired")
    /\ errs' = {}
    /\ UNCHANGED <<jobs, proc, alone>>

Evict(k) ==
    /\ proc = "up"
    /\ cache[k] # "none"
    /\ Put(k, "none")
    /\ errs' = {}
    /\ UNCHANGED <<jobs, proc, alone>>

(* AHosts::stop, from the signal handler: io_service.run returns after the *)
(* handler it is in.                                                       *)
Stop ==
    /\ proc = "up"
    /\ proc' = "stopped"
    /\ errs' = {}
    /\ UNCHANGED <<jobs, cache, alone>>

-----------------------------------------------------------------------------
ServerHandler(i, s) ==
    \/ OnReqSentUdp(i, s)
    \/ OnPeekUdp(i, s)
    \/ OnResponseUdp(i, s)
    \/ OnCncted(i, s)
    \/ OnReqSentTcp(i, s)
    \/ OnResponseTcp(i, s)

Environment ==
    \/ \E i \in Job, s \in Server : NetComplete(i, s)
    \/ \E i \in Job : SendComplete(i)
    \/ \E k \in Key : Expire(k) \/ Evict(k)
    \/ Tick
    \/ Stop

Next ==
    \/ \E i \in Job : OnUdpRequest(i) \/ OnResponsed(i)
    \/ \E i \in Job, s \in Server : ServerHandler(i, s)
    \/ OnHeartbeat
    \/ Environment

Spec == Init /\ [][Next]_vars

(* The loop runs every handler that is ready, the heartbeat timer is set   *)
(* again by its own handler, and time passes.  Nothing is asked of the     *)
(* network.                                                                *)
Fairness ==
    /\ WF_vars(Tick)
    /\ WF_vars(OnHeartbeat)
    /\ \A i \in Job : WF_vars(OnResponsed(i))
    /\ \A i \in Job, s \in Server : WF_vars(ServerHandler(i, s))

FairSpec == Spec /\ Fairness
-----------------------------------------------------------------------------
(* What the code relies on in every handler.  The loops of request() and   *)
(* sendBackservers() do not expect that send() completes the server inside *)
(* it while no other server runs: then serverComplete finds m_server empty *)
(* in the middle of the loop, and asks the back servers, or gives the job  *)
(* up.  The properties that are lost with that say so, by alone; the       *)
(* others hold whatever finds no port.                                     *)

(* Every outstanding operation, whose handler holds a pointer to its       *)
(* server and through it to its job, belongs to a server of m_server of a  *)
(* job of m_jobs, and every such server has one: no handler runs on a      *)
(* deleted object, and no server is waited for in vain, unless the loop    *)
(* that sends to the servers went on after the job was given up in it.     *)
(* The status tells which operation it is.                                 *)
ServerInv(j, s) ==
    IF s \in j.server
    THEN \/ /\ j.srv[s].status = SERVER_SENDING
            /\ j.srv[s].op \in IF s \in Udp THEN {"send"}
                              ELSE {"connect", "write"}
         \/ /\ j.srv[s].status = SERVER_WAITING
            /\ j.srv[s].op \in IF s \in Udp THEN {"peek", "recv"} ELSE {"read"}
    ELSE j.srv[s] \in {NewServer, DoneServer}

HandlersHaveOwners ==
    \A i \in Job, s \in Server :
      /\ ServerInv(jobs[i], s)
      /\ jobs[i].srv[s].op # "none" => jobs[i].live \/ i \in alone

(* The job's status, its servers and its client's status and socket agree: *)
(* the two ends of a job are driven by different handlers, and each end    *)
(* decides from the other's state whether it is the last one.  A job in    *)
(* m_jobs always has a server or a reply under way to end it.              *)
ClientInv(j) ==
    /\ CASE j.status \in {JOB_REQUESTING, JOB_NOEARLYRET} ->
              j.client.status = CLIENT_WAITING /\ j.server # {}
         [] j.status = JOB_EARLYRET ->
              /\ j.client.status \in {CLIENT_RESPONDING, CLIENT_RESPONDED}
              /\ j.server # {}
         [] j.status = JOB_GOTANSWER -> j.client.status = CLIENT_RESPONDING
         [] j.status = JOB_RESPONDED ->
              j.client.status = CLIENT_RESPONDED /\ j.server # {}
         [] OTHER -> FALSE
    /\ j.client.send # "none" <=> j.client.status = CLIENT_RESPONDING
    /\ j.reply # "none" <=> j.client.status > CLIENT_WAITING

EndsAgree == \A i \in Job : jobs[i].live => ClientInv(jobs[i])

(* None of the checks the code makes for what it takes to be impossible    *)
(* fails, except the one for an unknown job in jobComplete, as long as no  *)
(* server fails alone inside its send().                                   *)
ChecksHold == alone = {} => errs \subseteq {"job ptr"}

(* The job calls sendBackservers only when BackTimeout has passed or when  *)
(* every main server has completed; but when the first main server finds   *)
(* no port, the others have not even been asked.                           *)
BackServersLastResort ==
    \A i \in Job \ alone : \A b \in Backs :
      jobs[i].live /\ jobs[i].srv[b].status # SERVER_BEGIN =>
        \/ jobs[i].age > BackTimeout
        \/ \A s \in Main : jobs[i].srv[s].status = SERVER_GOTANSWER

(* A server is canceled exactly when the job has its answer or when it has *)
(* timed out: an early return leaves the servers running until Timeout,    *)
(* and no server goes on for a job that is decided, except those the loop  *)
(* sends to after it was decided in its middle.                            *)
CanceledWhenDecided ==
    \A i \in Job \ alone : \A s \in jobs[i].server :
      /\ jobs[i].status >= JOB_GOTANSWER => jobs[i].srv[s].cancel
      /\ jobs[i].srv[s].cancel =>
           jobs[i].status >= JOB_GOTANSWER \/ jobs[i].srv[s].age > Timeout

-----------------------------------------------------------------------------
Vanishes(i) == jobs[i].live /\ ~jobs'[i].live

(* A job that ends without a reply, or replies with an answer it found     *)
(* invalid, has asked every server, the back ones included, and all but    *)
(* the one whose handler runs had completed; unless the first one of a     *)
(* loop found no port with no other server running, and was the only one   *)
(* the job waited for.                                                     *)
FailsIfAllFailed ==
    [][\A i \in Job \ alone' :
         /\ jobs[i].live
         /\ jobs[i].reply = "none"
         /\ ~jobs'[i].live \/ jobs'[i].reply = "invalid"
         => /\ jobs[i].backsent
            /\ Cardinality(jobs[i].server) = 1
            /\ \A s \in Main \ jobs[i].server :
                 jobs[i].srv[s].status = SERVER_GOTANSWER]_vars

(* The client of a job is replied to once, and the status of a job, on     *)
(* which both ends rely, never goes back.                                  *)
RepliedOnce ==
    [][\A i \in Job :
         jobs[i].live /\ jobs'[i].live =>
           /\ jobs[i].reply # "none" => jobs'[i].reply = jobs[i].reply
           /\ jobs[i].status <= jobs'[i].status]_vars

(* onHeartbeat iterates over m_jobs: whatever the heartBeat of a job does, *)
(* no job ends in it, even when everything has timed out.                  *)
HeartbeatKeepsJobs ==
    [][OnHeartbeat => \A i \in Job : ~Vanishes(i)]_vars

(* The cache gets an answer only by the handler that decides a job for its *)
(* key: answers that arrive after the decision, canceled servers' late     *)
(* ones among them, do not replace the answer the client was given.        *)
DecisionWritesCache ==
    [][\A k \in Key :
         cache'[k] # cache[k] /\ cache'[k] = "fresh" =>
           \E i \in Job :
             /\ jobs[i].live /\ jobs[i].key = k
             /\ jobs[i].status < JOB_GOTANSWER
             /\ jobs'[i].live => /\ jobs'[i].status >= JOB_GOTANSWER
                                 /\ jobs'[i].reply \in {"early", "answer"}]_vars

(* Whatever the network does, every job ends: by its answer, or by the     *)
(* timeouts the heartbeat enforces at either end.                          *)
JobsEnd ==
    \A i \in Job : jobs[i].live ~> ~jobs[i].live \/ proc # "up"

-----------------------------------------------------------------------------
(* What the code says of itself and does not keep.                         *)

(* AHosts.cpp:83 logs "Invalid job ptr." for a job that is not in m_jobs.  *)
JobPtrValid == "job ptr" \notin errs

(* sample.conf: "If cache has expired, and upstream servers do not answer  *)
(* in `EarlyTimeout` milli-seconds, respond the expired cache result to    *)
(* client": a request the cache knows is not left without a reply.         *)
ExpiredServed ==
    [][\A i \in Job :
         Vanishes(i) /\ jobs[i].reply = "none" /\ jobs[i].single =>
           ~Cached(jobs[i].key)]_vars

-----------------------------------------------------------------------------
(* The promise to the clients, and how the state shows it.                 *)
Phase(j) ==
    CASE j.status = JOB_EARLYRET -> "early"
      [] j.status >= JOB_GOTANSWER -> "decided"
      [] OTHER -> "waiting"

RequestOf(j) ==
    IF j.live
    THEN [phase |-> Phase(j), key |-> j.key, single |-> j.single,
          reply |-> j.reply]
    ELSE [phase |-> "free", key |-> NoKey, single |-> FALSE, reply |-> "none"]

Promise ==
    INSTANCE Resolver WITH Request <- Job,
        request <- [i \in Job |-> RequestOf(jobs[i])],
        store <- cache,
        up <- proc = "up"

KeepsPromise == Promise!Spec
=============================================================================
