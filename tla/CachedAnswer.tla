---------------------------- MODULE CachedAnswer ----------------------------
(***************************************************************************)
(* How long a cached answer is valid: manageTtl, which counts the TTLs of  *)
(* a packet down, and the entry of one question in the cache, which        *)
(* AHostsJob::request brings up to date on every hit by the wall clock,    *)
(* and which the early return of AHostsJob::heartBeat sends as it is, even *)
(* after it has expired, to a client that waits for the upstream servers.  *)
(* The wall clock may be set, forward or backward, at any time.            *)
(***************************************************************************)
EXTENDS Integers, Sequences

CONSTANTS
    IntMax,     \* INT_MAX; a TTL is unsigned, up to 2 * IntMax + 1
    SoaCap,     \* 300, the limit for a SOA's minimum
    DefaultTtl, \* 30, when no record tells
    Packet,     \* answers that may arrive: sequences of records
    NoEntry,    \* the cache has no entry
    MaxTime,    \* bound: the wall clock stays within 0 .. MaxTime
    MaxAge      \* bound: seconds an entry is followed for

Ttl == 0 .. 2 * IntMax + 1
Section == {"answer", "authority", "additional"}
RRType == {"SOA", "OPT", "other"}
Record == [sec : Section, rtype : RRType, ttl : Ttl, minimum : Ttl]

ASSUME TtlAssumption ==
    /\ IntMax \in Nat /\ SoaCap \in 0 .. IntMax /\ DefaultTtl \in 0 .. IntMax
    /\ MaxTime \in Nat /\ MaxAge \in Nat
    /\ \A p \in Packet : p \in Seq(Record)

VARIABLES
    now,    \* time(NULL)
    entry,  \* the entry: its uptime, its ttl and the packet's records
    told,   \* history: who has just sent the entry's packet to a client
    orig,   \* history: the packet as it arrived, and what it was stored for
    age,    \* history: seconds passed since it arrived
    slips,  \* history: seconds that began between two calls of time()
    jumped  \* history: the wall clock has been set since it arrived

vars == <<now, entry, told, orig, age, slips, jumped>>

Entry == [uptime : 0 .. MaxTime, ttl : 0 .. IntMax, pkt : Seq(Record)]

TypeOK ==
    /\ now \in 0 .. MaxTime
    /\ entry \in Entry \cup {NoEntry}
    /\ told \in {"none", "request", "early"}
    /\ orig \in [ttl : 0 .. IntMax, pkt : Seq(Record)]
    /\ age \in 0 .. MaxAge
    /\ slips \in 0 .. age
    /\ jumped \in BOOLEAN

Init ==
    /\ now \in 0 .. MaxTime
    /\ entry = NoEntry
    /\ told = "none"
    /\ orig = [ttl |-> 0, pkt |-> <<>>]
    /\ age = 0
    /\ slips = 0
    /\ jumped = FALSE

-----------------------------------------------------------------------------
(* manageTtl, for a packet d seconds old that it finds well formed, as     *)
(* codecMessage leaves it.                                                 *)
AsInt(t) == IF t <= IntMax THEN t ELSE t - 2 * (IntMax + 1)
Smallest(S) == CHOOSE x \in S : \A y \in S : x <= y

(* Only these records decide on the TTL of the packet.                     *)
Decides(r) == r.rtype # "OPT" /\ (r.sec = "answer" \/ r.rtype = "SOA")
Expired(r, d) == r.ttl <= 1 \/ d >= r.ttl

(* The TTL written back; first with the unsigned subtraction unguarded.    *)
LeftWrapping(r, d) ==
    IF r.rtype = "OPT" THEN r.ttl
    ELSE IF r.ttl <= 1 THEN 1
    ELSE (r.ttl - d) % (2 * (IntMax + 1))

Left(r, d) ==
    IF r.rtype = "OPT" THEN r.ttl ELSE IF Expired(r, d) THEN 1 ELSE r.ttl - d

Aged(p, d) == [i \in DOMAIN p |-> [p[i] EXCEPT !.ttl = Left(p[i], d)]]

(* What a record lets the result be at most.  An expired record sets it to *)
(* 0, whatever it was.                                                     *)
Limits(r, d) ==
    (IF Decides(r)
     THEN {IF Expired(r, d) THEN 0 ELSE AsInt(r.ttl - d)} ELSE {})
    \cup (IF r.sec = "authority" /\ r.rtype = "SOA"
          THEN {Smallest({r.minimum, SoaCap})} ELSE {})

(* The records whose limits are not forgotten; first all but the last are. *)
CountsLast(p, d, i) == i = Len(p)
Counts(p, d, i) ==
    \A j \in DOMAIN p : j > i => ~(Decides(p[j]) /\ Expired(p[j], d))

PacketTtl(p, d) ==
    LET ret == Smallest({IntMax} \cup UNION {Limits(p[i], d) :
                          i \in {k \in DOMAIN p : Counts(p, d, k)}})
    IN  IF ret = IntMax THEN DefaultTtl ELSE ret

-----------------------------------------------------------------------------
(* serverComplete has a valid answer.                                      *)
Answer(p) ==
    LET ttl == PacketTtl(p, 0)
    IN  /\ ttl >= 0
        /\ entry' = [uptime |-> now, ttl |-> ttl, pkt |-> Aged(p, 0)]
        /\ orig' = [ttl |-> ttl, pkt |-> p]
        /\ age' = 0
        /\ slips' = 0
        /\ jumped' = FALSE
        /\ told' = "none"
        /\ UNCHANGED now

(* A second that begins between the time() of request and that of set.     *)
Slip(l) ==
    /\ l = 0 \/ (now < MaxTime /\ age < MaxAge)
    /\ now' = now + l
    /\ age' = age + l
    /\ slips' = slips + l

Passed(e) == IF now > e.uptime THEN now - e.uptime ELSE 0
Away(e) == IF now > e.uptime THEN now - e.uptime ELSE e.uptime - now

(* The entry's TTL after a hit; first as it was.                           *)
RemainingSame(e) == e.ttl
Remaining(e) == IF Away(e) >= e.ttl THEN 0 ELSE e.ttl - Away(e)

(* The packet written back on a hit; first as it was.                      *)
RewrittenNot(e) == e.pkt
Rewritten(e) == Aged(e.pkt, Passed(e))

Usable(e) == PacketTtl(e.pkt, Passed(e)) >= 0

(* AHostsJob::request finds the entry, and replies with it or goes on.     *)
Update ==
    /\ entry.uptime # now /\ Usable(entry)
    /\ \E l \in {0, 1} :
         /\ Slip(l)
         /\ entry' = [uptime |-> now + l, ttl |-> Remaining(entry),
                      pkt |-> Rewritten(entry)]

NoUpdate ==
    /\ ~(entry.uptime # now /\ Usable(entry))
    /\ UNCHANGED <<now, age, slips, entry>>

Hit ==
    /\ entry # NoEntry
    /\ Update \/ NoUpdate
    /\ told' = IF Usable(entry) /\ entry'.ttl > 0 THEN "request" ELSE "none"
    /\ UNCHANGED <<orig, jumped>>

(* AHostsJob::heartBeat, of a job whose request() did not reply from the   *)
(* cache, after EarlyTimeout: neither the TTL nor the packet is looked at. *)
EarlyReturn ==
    /\ entry # NoEntry
    /\ told' = "early"
    /\ UNCHANGED <<now, entry, orig, age, slips, jumped>>

(* The entry makes room for others.                                        *)
Drop ==
    /\ entry # NoEntry
    /\ entry' = NoEntry
    /\ told' = "none"
    /\ UNCHANGED <<now, orig, age, slips, jumped>>

Tick ==
    /\ now < MaxTime /\ age < MaxAge
    /\ now' = now + 1
    /\ age' = age + 1
    /\ told' = "none"
    /\ UNCHANGED <<entry, orig, slips, jumped>>

SetClock ==
    /\ now' \in 0 .. MaxTime
    /\ jumped' = TRUE
    /\ told' = "none"
    /\ UNCHANGED <<entry, orig, age, slips>>

Next ==
    \/ \E p \in Packet : Answer(p)
    \/ Hit
    \/ EarlyReturn
    \/ Drop
    \/ Tick
    \/ SetClock

Spec == Init /\ [][Next]_vars

-----------------------------------------------------------------------------
(* manageTtl accepts, at any later time, every packet it has let into the  *)
(* cache, and written back: an entry never turns into one that every       *)
(* request finds and none can use or bring up to date.                     *)
StaysUsable ==
    entry # NoEntry => \A d \in 0 .. MaxTime : PacketTtl(entry.pkt, d) >= 0

(* An entry is never valid for longer than any of its records that decide: *)
(* the packet's TTLs and the TTL kept beside it are counted down apart,    *)
(* and differently when the clock goes backward.                           *)
NoRecordOutlived ==
    entry # NoEntry =>
      \A i \in DOMAIN entry.pkt :
        Decides(entry.pkt[i]) => entry.ttl <= entry.pkt[i].ttl

(* request() answers from the cache only while the answer's TTL lasts,     *)
(* however many hits there were before: the seconds rounded away by each   *)
(* update do not add up.  Only a second that begins between the two calls  *)
(* of time() is lost.  The early return is the use of the entry that is    *)
(* not bound by its TTL.                                                   *)
ServedInTime ==
    [][told' = "request" => jumped \/ age < orig.ttl + slips]_vars

(* The TTLs request() tells from the cache do not let a client keep a      *)
(* record longer than the server that sent it said.  Those told by an      *)
(* early return, which does not count them down, outlast the server's by   *)
(* the time since the last hit or answer, and no more.                     *)
Unaged == IF told' = "early" THEN now - entry.uptime ELSE 0

ToldInTime ==
    [][told' # "none" /\ ~jumped =>
         \A i \in DOMAIN entry'.pkt :
           \/ orig.pkt[i].rtype = "OPT"
           \/ entry'.pkt[i].ttl <= 1
           \/ age + entry'.pkt[i].ttl <= orig.pkt[i].ttl + slips + Unaged]_vars
=============================================================================
