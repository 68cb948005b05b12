------------------------------ MODULE Resolver ------------------------------
(***************************************************************************)
(* What AHosts promises its clients and its cache, without servers,        *)
(* sockets and timers.  A request is decided once.  Its client gets at     *)
(* most one reply: a valid cached answer or one of hosts.ext at once, a    *)
(* cached answer of any age while the search goes on, or what the search   *)
(* ended with; or no reply, if the search ended with nothing.  Only the    *)
(* decision of a request whose search ended with an answer writes to the   *)
(* cache, under that request's key.  The process may die at any step.      *)
(***************************************************************************)
CONSTANTS Request, Key, NoKey

VARIABLES
    request,    \* the requests in hand
    store,      \* what is remembered for a key
    up          \* the process runs

rvars == <<request, store, up>>

Answer == {"answer", "invalid"}
Memory == {"none", "expired", "fresh"}

Free == [phase |-> "free", key |-> NoKey, single |-> FALSE, reply |-> "none"]

Init ==
    /\ request = [i \in Request |-> Free]
    /\ store = [k \in Key |-> "none"]
    /\ up = TRUE

Becomes(i, r) == request' = [request EXCEPT ![i] = r]

Accept(i) ==
    /\ request[i].phase = "free"
    /\ \E k \in Key \cup {NoKey}, one \in BOOLEAN :
         /\ Becomes(i, [phase |-> "waiting", key |-> k, single |-> one,
                        reply |-> "none"])
    /\ UNCHANGED store

(* Answered without a search.                                              *)
Local(i) ==
    /\ request[i].phase = "free"
    /\ \E k \in Key, how \in {"cache", "hosts"} :
         /\ how = "cache" <=> store[k] = "fresh"
         /\ Becomes(i, [phase |-> "decided", key |-> k, single |-> TRUE,
                        reply |-> how])
    /\ UNCHANGED store

(* Requests that have waited long enough for an old answer to do.          *)
Early(S) ==
    /\ S # {}
    /\ \A i \in S :
         /\ request[i].phase = "waiting"
         /\ request[i].single
         /\ request[i].key \in Key /\ store[request[i].key] # "none"
    /\ request' = [i \in Request |->
                     IF i \in S
                     THEN [request[i] EXCEPT !.phase = "early",
                                             !.reply = "early"]
                     ELSE request[i]]
    /\ UNCHANGED store

(* The search ends with something: the client gets it if it has no reply.  *)
(* A request is forgotten at once when its client has been served.         *)
Decide(i) ==
    \/ /\ request[i].phase = "waiting"
       /\ \E a \in Answer :
            Becomes(i, [request[i] EXCEPT !.phase = "decided", !.reply = a])
    \/ /\ request[i].phase = "early"
       /\ \/ Becomes(i, [request[i] EXCEPT !.phase = "decided"])
          \/ Becomes(i, Free)

Answered(i) ==
    /\ Decide(i)
    /\ \/ UNCHANGED store
       \/ /\ request'[i].reply # "invalid"
          /\ request[i].key \in Key
          /\ \E m \in {"expired", "fresh"} :
               store' = [store EXCEPT ![request[i].key] = m]

(* The search ends with nothing for a client that has no reply.            *)
Unanswered(i) ==
    /\ request[i].phase = "waiting"
    /\ Becomes(i, Free)
    /\ UNCHANGED store

Forget(i) ==
    /\ request[i].phase = "decided"
    /\ Becomes(i, Free)
    /\ UNCHANGED store

Fade(k) ==
    /\ store[k] # "none"
    /\ \E m \in {"none", "expired"} : store' = [store EXCEPT ![k] = m]
    /\ UNCHANGED request

Step ==
    \/ \E i \in Request :
         Accept(i) \/ Local(i) \/ Answered(i) \/ Unanswered(i) \/ Forget(i)
    \/ \E S \in SUBSET Request : Early(S)
    \/ \E k \in Key : Fade(k)
    \/ UNCHANGED <<request, store>>

Next == up /\ up' \in BOOLEAN /\ Step

Spec == Init /\ [][Next]_rvars
=============================================================================
