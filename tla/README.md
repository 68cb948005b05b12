# AHosts in TLA+

AHosts is a forwarding DNS resolver: it receives requests over UDP, answers
them from its cache or from `hosts.ext` if it can, and otherwise asks several
upstream servers at once, over UDP and TCP, and returns the first valid answer.
This directory models it in TLA+, checks the models with TLC and proves their
invariants with TLAPS. References such as `AHosts.cpp:342` are to `src/src/`.

## 1. The system

### Components

| Component | State | Operations | Must be right |
|---|---|---|---|
| Event loop, `AHosts` (`AHosts.cpp:28-106`) | `m_jobs`, the listening socket, the heartbeat timer, `m_cache` | `onUdpRequest`, `jobComplete`, `onHeartbeat`, `stop` | no job is lost, deleted twice or deleted while it is in use |
| Job, `AHostsJob` (`AHosts.cpp:109-442`) | `m_status`, `m_server`, `m_finished`, `m_client`, `m_backserversent`, the request's name and number of questions | `request`, `serverComplete`, `clientComplete`, `heartBeat`, `sendBackservers` | one decision and at most one reply for each request; it ends exactly when both ends are done |
| Client, `UdpClient` (`AHosts.cpp:444-535`) | `m_status`, socket, the time the reply was sent | `run`, `response`, `onResponsed`, `cancel`, `heartBeat` | one reply, one `clientComplete` |
| Upstream servers, `UdpServer`, `TcpServer` | `m_status`, `m_cancel`, socket, buffers | `send`, the completion handlers, `cancel`, `heartBeat` | one `serverComplete` for each server, no handler after deletion |
| Cache, `AHostsCache` | map, list of entries by last use, buffers | `set`, `get`, `setCapacity`, destructor | an LRU map that stays within its size, without leak, double free or overrun |
| TTLs, `manageTtl` (`protocol.cpp:656-755`), the cache path of `request` and the early return | the cached packet, its time and TTL | on a hit, on a new answer | `request` serves no answer beyond its TTL; only the early return sends an expired one |
| Answer check, `checkAnswer` (`protocol.cpp:757-838`) | none | called for each answer with RCODE 0 | accepts an answer exactly when the CNAME chain ends in the type asked for, or a SOA is there |
| hosts.ext, `AHostsHandler` | a static table of names, a per-job list of replaced names | `processRequest`, `processResponse`, `loadHostsExt` | the answer is for the name the client asked for |
| Message codec (`protocol.cpp:1-640`) | the known names, during one call | `codecMessage`, `getNameType`, name (de)compression | decompressing what was compressed gives it back |
| Configuration, `AHostsConf` | the parsed options | `load` | at least one main server, timeouts are numbers |
| Process (`server.cpp`) | none | `main`, the signal handler | stops on a signal |
| Log, `pe_log` | the files on disk, the deque of their names, the size counted, a spin lock | `pelog_printf`, rotation, `setrot` at the start | the history is bounded and in order across failures and restarts; logging ends |

asio and libconfig are vendored. `auto_buf.hpp`, `ap_dirent.h`, `ah_memmem` are
helpers.

### How they interact

One thread runs every handler to its end (`AHosts::start`, `io_service.run`).
There are no locks in the resolver. What is hard comes from two facts.

*Calls nest and delete their callers.* `UdpServer::send` may call
`AHostsJob::serverComplete`, which may call `UdpClient::cancel`, which calls
`AHostsJob::clientComplete`, which calls `AHosts::jobComplete`, which deletes
the job, all servers and the client, with every one of these functions still on
the stack.

*Completions race with cancellation.* A socket is closed while the operation on
it may already be over: the handler then still runs with success. The UDP server
drops such an answer, the TCP server delivers it, `onReqSent` looks at neither
and starts the next operation on a closed socket.

The two ends of a job (the client's send, the servers' answers) finish in either
order, and each looks at the other's state to know whether it is the last. The
heartbeat, every 100 ms, drives the early return of an expired cached answer
(`EarlyTimeout`), the back servers (`BackTimeout`) and the timeouts of every
server and of the client (`Timeout`), while it iterates over `m_jobs` and
`m_server`, from which these calls might erase.

The hazards this makes are listed with their lines in `PROJECT.json`.

## 2. The modules

| Module | Models | How |
|---|---|---|
| `AHostsJob` | `AHostsJob`, `UdpClient`, `UdpServer`, `TcpServer`: all functions that call each other synchronously | an operator from a job's record to a job's record for each function, composed in the order of the code |
| `AHosts` | the event loop, the network, the clocks, the cache as a reader sees it | an action for each handler, its properties |
| `Resolver` | what a client and the cache are promised | abstract specification, implemented by `AHosts` (`KeepsPromise`) |
| `AHostsProofs` | theorems about `AHosts` | TLAPS |
| `DnsServer` | what a job is promised by a server it has asked | abstract specification, implemented by `TcpServer` and `UdpServer` |
| `TcpServer` | an answer in reads of any size | an action for each handler, one for each thing the network does |
| `UdpServer` | peek, size, receive | the same |
| `MCUpstream` | instances of both | one server of either kind; the properties of both, joined |
| `UpstreamProofs` | theorems about both | TLAPS |
| `AHostsCache` | `AHostsCache.hpp` down to the allocations | an action for each of `set`, `get`, destructor, its properties |
| `Lru` | an LRU map | abstract specification, implemented by `AHostsCache` (`IsLru`) |
| `MCAHostsCache` | instances of `AHostsCache` | lengths of answers, symmetry |
| `AHostsCacheProofs` | theorems about `AHostsCache` | TLAPS |
| `CachedAnswer` | `manageTtl`, the cache path of `AHostsJob::request` and the early return, over a wall clock | `manageTtl` as operators on sequences of records, an action for each use of an entry |
| `MCCachedAnswer` | instances of `CachedAnswer` | the records of the packets |
| `CachedAnswerProofs` | theorems about `CachedAnswer` | TLAPS |
| `CheckAnswer` | `checkAnswer` | one behaviour is one call, one step a turn of a loop; a definition of the verdict by reachability |
| `MCCheckAnswer` | instances of `CheckAnswer` | the records of the packets |
| `CheckAnswerProofs` | theorems about `CheckAnswer` | TLAPS |
| `AHostsHandler` | `loadHostsExt`, `processRequest`, `processResponse` | an action for each step of the loader and each turn of the lookup |
| `AHostsHandlerProofs` | theorems about `AHostsHandler` | TLAPS |
| `NameCodec` | `codecMessage`, `compressName`, `decompressName` | one behaviour is a message compressed and decompressed again, a step for each label, pointer or end |
| `DecompressName` | `codecMessage` and `decompressName` for messages compressed elsewhere | bytes, the output's size, a step for each turn of the loop |
| `MCNameCodec` | instances of both | the labels and the messages |
| `NameCodecProofs` | theorems about `NameCodec` and `DecompressName` | TLAPS |
| `PeLog` | `pe_log.cpp`, the signal handler, the process and its restarts | a stack of calls of `pelog_printf`, a step for each thing a kill or a signal may fall between |
| `PeLogProofs` | theorems about `PeLog` | TLAPS |

### AHostsJob and AHosts

`jobs[i]` is one `AHostsJob` object with everything it owns:

| Field | Code |
|---|---|
| `live` | the job is in `m_jobs` |
| `status` | `m_status`, with the values of the enum, which the code compares with `<` |
| `server` | `m_server`; the servers that have completed are those with status `SERVER_GOTANSWER` (`m_finished`) |
| `backsent` | `m_backserversent` |
| `srv[s]` | a `DnsServer`: `m_status`, `m_cancel`, the outstanding asio operation and its result, the time since `m_start` |
| `client` | the `UdpClient`: `m_status`, the outstanding send, the time since `m_start` |
| `key`, `single` | `m_reqNameType`; whether `m_questionNum` is 1 |
| `age` | the time since `m_tstart` |
| `reply` | history: what the client was sent |
| `uaf`, `errs` | inside a handler: freed memory was used; the checks of the code that failed |

A handler is one action. Inside it a deleted job keeps its record with
`live = FALSE`, so that what the code goes on to do with it is followed, and
noted in `uaf`. When a handler has used freed memory its outcome is undefined:
`Outcome` lets the memory still hold its old values (the consequences are those
of the record), hold others that hide the second `jobComplete`, or end the
process.

An operation is outstanding while `op # "none"`; `NetComplete` decides its
result at any time, and from then on its handler is ready. `close()` turns a
result that is still pending into an error and leaves a decided one alone: that
is the race of cancellation and completion. A ready handler may be delayed at
will, so handlers run in every order.

What is abstracted:

- An answer is `none` (nothing, or a wrong id), `invalid` (RCODE other than 0
  and 3, undecodable, or refused by `checkAnswer`) or valid; a valid one is told
  apart by what `manageTtl` makes of it (not cached, cached as expired, cached
  as fresh). What `hosts.ext` or a fresh cache entry answers is taken to be
  valid.
- A request is for a key, or for `NoKey` when it cannot be decoded; it has one
  question or not. Whether `hosts.ext` knows a name is open for each request.
- The cache is a state for each key. `Expire` stands for the passing of time
  against the TTL and the update of the TTL on a hit; `Evict` stands for
  entries dropped to make room, which the code does only in `set`; the model
  allows it at any time. The two caches fit together through this: `AHosts`
  asks nothing of it that an LRU map does not give, and `AHostsCache` is one.
  `CacheSize = 0` is the case in which every entry is evicted at once.
- `Tick` moves all timers together. A time is capped at `AgeCap`, one more than
  the longest timeout: every test in the code compares a time with a timeout,
  so longer times cannot be told apart. The tests for times below zero are left
  out, since the clock is steady.
- A UDP server whose `send` finds no local port is in `BindFaults`; which of them
  fail is open at each launch. `serverComplete` then runs inside the loop that
  launches the servers. Where another server of the job runs, it only leaves
  `m_server` again (`Launch`). Where none does, `serverComplete` takes it for the
  last one, in the middle of the loop. Only for the first server of a loop does this
  change anything, hence the constants `FirstServer` and `FirstBack`. If it is a main
  server the back servers are asked at once; if it is a back server, or there are
  none to ask, the job is given up. Unless the client is still being served early,
  it is then deleted under the loop, which goes on to send to the other servers:
  their handlers will run on a deleted job. The history variable `alone` notes the
  jobs to which this happened. Properties that are lost with it name `alone`; the
  others hold whatever fails.
- Writing an answer to the cache, its handling by `processResponse` and
  re-encoding are part of `FinishServer`.

### TcpServer, UdpServer and DnsServer

`AHosts` takes from a server that it completes once, with an answer or without.
`DnsServer` states this, and that an answer is a whole message under the ID of
the request; `TcpServer` and `UdpServer` model one server each, down to the
reads, and implement it (`ServersPromise`).

In `TcpServer` a byte is its place in the stream of the upstream server, so
`told` shows which bytes the job was given. The stream is a frame, whose length
is stated by its first two bytes, and up to `Extra` bytes behind it. `op` is the
outstanding operation with the room it has in `m_res` and the least it waits for
(`transfer_at_least`); asio reads in pieces of any size (`Read`). `right` is
what the comparison with `m_id` yields. `Stated` is `ntohs` of two bytes.

In `UdpServer` any number of datagrams of any size come at any time; `op` is a
peek or a receive, but the code tells the two apart by `m_res` being empty. The
size of the datagram that is next is asked for in the handler, when another may
have come but none has gone. An empty datagram makes the receive look like a
peek, and the one behind it is asked for its size in turn.

In both, `close()` fails an outstanding operation that is pending, leaves alone
one that is over and whose handler is queued, and makes every later one fail.

### AHostsCache

`index` is `m_map`, `visit` the order of `m_visit`, `node` what its nodes hold;
`text` and `bytes` are the allocated key and answer buffers. Addresses come from
a finite set for each kind of object and may be given out again as soon as they
are freed, so a stale pointer would find a live object. A key is its content;
an answer is a value with a length, and its time and TTL are part of it.
`setCapacity` is the constant `Capacity`: the only call is in `AHosts::init`,
before the first `set`. (Its comment says that extra items are freed on the next
`set`; the code does that only for a new key. No caller can tell.)

### CachedAnswer

This is the passing of time that `Expire` of `AHosts` stands for. `entry` is the
cache's entry for one question: the time it was set, the TTL kept beside the
packet, and the packet as its records, each with section, type (SOA, OPT or
another), TTL and, for a SOA, the last field of its data. `PacketTtl` and `Aged`
are what `manageTtl` returns and what it leaves in the packet; TTLs are `uint32_t`
in the packet and `int` in the function, with `IntMax` for `INT_MAX`, and
`AsInt` is the cast between them. An expired record sets the result to 0, and
records after it may set it lower, never higher: `Counts` says which records are
not forgotten.

`Hit` is `request` finding the entry. `time()` is called by `request` and again
by `AHostsCache::set`: a second may begin in between (`Slip`), and the entry is
then stored with the TTL for the first and the time of the second. `EarlyReturn`
is `heartBeat` sending the entry to a client whose job waits for its servers: it
looks neither at the TTL nor at the time, and does not call `manageTtl`. `told`
notes who has just sent the packet to a client. `SetClock`
sets the wall clock to anything, forward or backward; `age` counts the seconds
that really pass. Packets that `manageTtl` could not read are left out, since
`codecMessage` has read them before, and so is the key an answer is stored
under.

### CheckAnswer

`packet` is the answer, `question` the name it is for, `ansmap` the map the
function fills. A record is what the function looks at: of the type asked for, a
CNAME, something else, or unreadable; whose it is, where it leads, whether it is
a SOA. Class and section are part of the kind: "asked" and "cname" are records
of the answer section and the class asked for. `Final` stands for `isNull`, the
way the code tells a record of the type asked for from a CNAME. RCODEs other
than 0 never reach the function (`AHosts.cpp:274`). Messages with several
questions are left out: the function skips one question and reads the next as a
record.

### AHostsHandler

`hosts` is `m_hosts`, a function from names to functions from types to sequences
of values. The loader reads a line value by value (`BeginLine`, `AddValue`,
`EndLine`); the same name may come again on a later line and its values add up.
A table that fails the check stops the program. `Request` is the beginning of
`processRequest`, each turn of its loop is one of `FollowHost`, `AnswerHost`,
`RelayHost`; `Respond` is the answer of the upstream servers, which
`processResponse` completes if it is valid. The upstream servers are external:
they repeat the question they were asked, or leave it out, and answer it or not.
A name is a model value: how `pname2name` makes it, and how bytes are moved in
the message, is left out. One request is enough, since each job has a handler of
its own and the table is not written after it was loaded.

### NameCodec

`out` is the message as it is being written, as a function from offsets to what
has been written there: a label, a pointer or an end. What lies between the
names is data that is copied (`gap`), and takes room. `names` is the map of
known names; its keys are `Key`s, since the code makes a `std::string` of a C
string. `pos` and `cur` are the place in the message and, behind a pointer, in
the name (`pin` and `ppin`). Labels are in lower case, as they are once
`decompressName` has read them, since what is compressed here has been
decompressed here before. The history variable `spelt` notes for each offset
what was to be written from there.

`Pointable` says when compression can be right: no label of the message has a
zero byte, and no known name lies behind the reach of a pointer. Without the
second a pointer leads elsewhere (section 4). Without the first, names that agree
up to a zero byte share a key, and one is replaced by a pointer to the other.
Decompression may then take other data for a name, and what it makes of it is
left out (phase `"lost"`), but for the error return when a name does not fit the
output. The code counts the room for a name in bytes, at least 256; the model in
labels, `Room`, at least those of any name of the message. Also left out is the
limit of 63 bytes for a label.

### DecompressName

The same functions for messages that come from elsewhere: any bytes. What comes
back is not compared; how far the code reads and writes is. `in` is the message
with its header and the one byte that lies behind it in memory (a pointer in the
last byte is read with it); `pin`, `pout`, `poe`, `ppin` and `pointered` are the
code's, as offsets. Between names the code copies fields, as long as they fit
(`CopyRest`). The header counts the names (`left`); its bytes may be what a
pointer leads to. `codecMessage` does not ask whether there is a whole header, so
a message may be shorter, and what it counts is then whatever lies behind it in
memory. `Flag` is 64, from which the code takes a byte for a pointer, and the rest
of that byte with the next one is the offset.

`Length` says how long a name is, without the loop: by how long the names are
that its labels and pointers lead to (`Longer`), begun with none known and
repeated as often as there are bytes (`Lengths`). A circle never becomes known.

### PeLog

`disk` and `cur` are the files, which outlive the process, the other variables
what the process has in memory. A call of `pelog_printf` is a frame on `stack`; a
signal may put another on it anywhere. The steps of a call are the places where
a kill or a signal makes a difference: the lock is taken, files are removed one
by one, the current one is renamed, opened again, written. `remove`, `rename`
and `fopen` may fail each time (`rename` in all its attempts or in none), and a
restart may change the number of files to keep. A history file is its name, a
time and a number; `disk` tells which rotation made it, so that the order of
names can be compared with that of time. The names sort as the numbers do up to
the tenth in a second. The clock only goes forward, and stands still while a
name is chosen. Sizes from `SizeCap` on are not told apart, since the code
compares a size with the limit only.

`setrot` runs outside the lock, before signals are handled. The number to keep
includes the current file. With 0 `setrot` takes the front of an empty deque and
the process ends at the start; with 1 the first rotation does (`StartCrashes`,
`TrimCrashes`; finding 3). When the file cannot be opened the log goes to stderr
for good.

`mutex` is that of asio's scheduler, which is not recursive. The event loop takes
it between two handlers (`Take`, `Release`), and `ahosts.stop()` in the signal
handler takes it (`StopEnter`): if the signal came while the loop held it, the
handler waits for ever. Other places where handlers take it, as starting an
operation, are not told apart from the loop. Left out: `fclose` and `printf`
failing, `localtime`, and that stdio is not meant to be called from a signal
handler.

## 3. The runs

Where a run has `CHECK_DEADLOCK FALSE`, the system may really stop: the process
is stopped or has died, the cache has been destroyed, the clock is at its bound,
or the one call, request or message of the run has been handled.

| Run | Question | Bounds |
|---|---|---|
| `job` | every interleaving of one request: the safety properties of a job | 1 job, a UDP and a TCP main server and a UDP back server, the UDP ones may fail to bind, 1 key, `EarlyTimeout = BackTimeout = 1`, `Timeout = 3` |
| `live` | `AHosts` implements `Resolver`; every job ends | 1 job, a TCP main server, a UDP back server that may fail to bind, limits as `job` |
| `upstream` | answers in pieces | one server; TCP: frames of 0 to 6 bytes, a first read of 4, 2 bytes behind the frame; UDP: up to 3 datagrams of 0 to 2 bytes |
| `lru` | the cache | 3 keys, 3 answers of 2 lengths, capacity 2, 3 addresses for each kind of object |
| `ttl` | how far an answer outlives its TTL | one entry, packets of up to 2 of 7 records, `IntMax = 5`, clock 0 to 4, age to 5 |
| `check` | the verdict on an answer | 3 names, up to 3 of 16 records in any order |
| `hosts` | hosts.ext, from the file to the reply | 3 names, 1 address, 2 values of a type for a name, 4 records in a reply |
| `names` | every name comes back | 2 labels of 2 and 3 bytes, up to 3 fields with names of up to 2 labels, pointers below 8; up to 2 fields with labels that have a zero byte. Compressed elsewhere: all messages of a header of 1 byte (2 values) and 5 bytes behind it (5 values, and so for the byte behind the message), up to 2 names; a name and up to 4 pointers, 5 names, growth by 8; messages of 0 bytes |
| `log` | rotation, kills, restarts, signals | 0 to 3 files to keep, a limit of 2, lines of 1 and 2, 3 rotations, 2 seconds, 2 signals to a process |
| `jobptr` | finding 1 | as `job`, with `Timeout = 2` and no bind failures |
| `expired` | finding 2 | as `jobptr` |
| `history` | finding 3 | as `log`, with a limit of 1 and 1 signal |

*Why these bounds meet the interesting cases.* Jobs share only the cache and the
loop, so one job meets every order of its own handlers. What other jobs do to the
cached answer comes from `Expire` and `Evict`, except that another job's answer may
replace it: for several jobs at a time the properties are proved (section 5), not
run. A UDP and a TCP main server race each other, and the back server races those
that are left: it is asked by the heartbeat, by the last failure or by the last
invalid answer. For the first, `Timeout` must be at least two above `BackTimeout`,
since the heartbeat asks only while `BackTimeout < age < Timeout`; with 1 and 3 it
does so at age 2. Times up to `AgeCap = 4` are before, at and beyond each of the
limits, and a server launched late has a time of its own. The main UDP server may fail in
`send` as the first of the loop, and the back one while others run, after they have
failed, or inside the failure of the main one. In `live` the main and the back
server run together once the heartbeat has asked the second, so that one answers
after the other has decided, and an early return comes before either. In the cache
three keys against a capacity of two force out an entry in every order of use, and
a freed address is always the one at hand.

In `ttl` the records are chosen so that each branch of `manageTtl` is taken at
some age: TTLs of 0, of 3 seconds (expires within the bound) and with the top
bit set (negative as `int`), a SOA whose minimum is above and below the cap and
its own TTL, an additional record and an OPT record, which do not decide. Two
records of each pair of sections show what a record does to the result of an
earlier one. The age goes beyond every TTL that `request` can serve. In `check` a
chain of two CNAMEs and its answer, in all orders, a record that replaces or
hides another, and circles of one, two and three names fit into three records.
In `hosts` three names make chains of two CNAMEs and circles of each length, and
two values of one type make a line that must be refused and an address list
that shifts the records behind it. In `names` a third name can be a pointer to a
name that itself ends in a pointer, and with a reach of 8 most messages are well
within it while some names, written later, lie behind it. Of messages compressed
elsewhere, five bytes behind the header hold a label with a pointer behind it that
leads back, circles of one and two pointers, pointers to the last byte and behind
it; the longer ones expand beyond one growth of the output in every order of their
pointers; a message of no bytes is shorter than its header. In `upstream` a frame
is shorter than an ID, shorter than, as long as and longer than the first read,
and is cut into reads at every byte; three datagrams put an empty one before and
between two others. In `log` a limit of
three files lets two be removed in one start after it has been lowered, and two
seconds with three rotations let a name be taken again.

*Properties of the runs.*

- `TypeOK` of `AHosts` is checked by `job`. Those of the other modules are
  parts of the invariants proved in section 5, where some are theorems of their
  own, and no run spends a check on them.
- `HandlersHaveOwners`: an outstanding operation belongs to a server in
  `m_server` of a job in `m_jobs`, and each such server has one. No handler runs
  on a deleted object, except of a job in `alone`, and no server is waited for in
  vain.
- `EndsAgree`: the job's status, its servers and its client's status and socket
  agree, so that the last end to finish knows that it is the last.
- `ChecksHold`: no check in the code for the impossible ever fails, except
  "Invalid job ptr.", as long as no job is in `alone`.
- `BackServersLastResort`, `FailsIfAllFailed`: the back servers are asked late
  enough, and before a job is given up, except in a job in `alone`.
- `CanceledWhenDecided`: a server is canceled exactly when the answer is there
  or its time is over, except in a job in `alone`; in particular an early return
  leaves the servers running.
- `RepliedOnce`: the reply of a job and its status never go back.
- `HeartbeatKeepsJobs`: no job is deleted under the iterators of the heartbeat,
  also when a back server it launches fails inside `send`.
- `DecisionWritesCache`: only the decision of a job writes its answer to the
  cache, late answers do not.
- `KeepsPromise`: the refinement of `Resolver`.
- `JobsEnd`: every job ends.
- `ServersPromise`: both kinds of server implement `DnsServer`: told once, nothing
  or exactly the message, and this only under its ID.
- `BuffersHeld`: `m_res` is not resized under a read, and no read waits for more
  than it has room for.
- `WholeIsEnough`: an answer that has come whole is delivered without another
  byte, or datagram, if no operation fails.
- `CanceledServersTell`: a canceled server tells its job.
- `IndexMatchesList`, `BuffersOwnedOnce`, `AnswersFit`, `IsLru`: the cache's
  pointers, buffers and lengths; its size and order are those of an LRU map.

- `StaysUsable`: once in the cache, a packet is accepted by `manageTtl` at any
  later age; otherwise each request would find an entry it can neither use nor
  bring up to date.
- `NoRecordOutlived`: the TTL beside the packet never exceeds that of a record
  that decides on it, although both are counted down apart and the clock may
  move between.
- `ServedInTime`: `request` serves no answer after its TTL, however many hits came
  before. The early return does, on purpose, and is not meant.
- `ToldInTime`: `request` tells no client a TTL that outlasts that of the server; an
  early return does by no more than the time since the entry was last brought up to
  date, since it sends the TTLs as they lie in the cache. An expired record is told
  as 1.
  Both hold up to the seconds lost between two calls of `time()`, which the
  history variable `slips` counts, and while the clock has not been set.
- `AcceptsOnlyComplete`, `RefusesOnlyBroken`: the verdict of `checkAnswer`,
  against a definition in terms of the names reachable by CNAMEs.
- `EndsUnlessCyclic` (`CheckAnswer`, `AHostsHandler`): the walk ends unless the
  CNAMEs lead in a circle. The condition is necessary: neither loop notices one.
- `TableSound`: the assertion in `processRequest` (`AHostsHandler.cpp:52`).
- `RoundTrip`: the names come back as they were.
- `NamesWhole`: a name compressed elsewhere is written as long as it is by
  definition, and refused only if it is broken or too long.
- `RoomKept`: the output is never overrun, and the assertion in `protocol.cpp:526`
  holds.
- `EveryNameEnds`: decompression of what was compressed here ends; reading a name
  compressed elsewhere ends too, unless pointers lead in a circle past no label.
  The condition is necessary: the code does not notice such a circle.
- `AllKept`, `OldestFirst`, `FullIsRotated`: the history on disk
  across rotations, kills and restarts: how many files, none forgotten, the oldest
  removed first, none filled beyond the limit.
- `SignalStops`: a signal stops the process unless it interrupted the holder of the
  lock or of the scheduler's mutex. The exception is real: the handler then waits
  for ever.
- `AnswersQuestion`, `ReplyIsChain`: a valid reply has the client's question,
  records that lead from it to the answer without a gap, and the right count.

`PROJECT.json` names for each of them a plausible bug that breaks it; the
mutated definitions stand in the modules before the ones they replace.

### Fairness

`FairSpec` assumes weak fairness of the handlers (the loop runs what is ready:
asio's queue is first in, first out), of the heartbeat (its handler sets the
timer again) and of time. Nothing is assumed of the network, so `JobsEnd` holds
with servers that never answer. Weak fairness of a server's handlers is enough:
a ready handler stays ready until it runs.

In `CheckAnswer`, `AHostsHandler` and `NameCodec`, `FairSpec` assumes weak
fairness of the steps of the function being modelled: it runs to its end in one thread, with
nothing to wait for. So does `DecompressName` of the turns of its loop, and `PeLog`
of the thread and of the event loop, which comes back to its queue (the heartbeat
timer wakes it, and `stop()`), but not of being called. `TcpServer` and `UdpServer`
assume it of the handlers and of asio, which reads and writes while it can, and nothing of the
upstream server; what needs an answer says so.

## 4. Findings

1. `jobptr`: when the last server fails, `serverComplete` cancels the client
   (`AHosts.cpp:342`), which deletes the job; lines 346-350 read it again and
   call `jobComplete` a second time. `jobComplete` notices ("Invalid job ptr.")
   as long as the freed memory is unchanged. `ChecksNeverFail` shows that, as long
   as no first server of a loop fails inside `send` while no other runs, this is
   the only one of the code's checks that fails.
2. `expired`: servers that fail fast leave the client without the expired answer
   that `sample.conf` promises for servers that do not answer.
3. `history`: `pe_log.cpp:47` says the limit is the "number of history files to
   keep", and `sample.conf:40` calls it so. `get` counts the current file
   (`pe_log.cpp:114`): it keeps one history file fewer, and with a limit of 1 the
   first rotation calls `front()` and `pop_front()` on an empty deque. With a limit
   of 0 `setrot` does at the start. `LimitOfFiles` (section 5) shows that this one
   file is all that is missing.

Two more disagreements are stated where they bite and kept out of the properties
by their conditions, so no run shows them:

- When every server fails, the last answer is sent to the client as it came. Only
  `processResponse` puts the client's question back, and it is called for valid
  answers only, so for a name that `hosts.ext` replaces the client gets a reply to
  a question it did not ask. `AnswersQuestion` is about valid answers.
- `compressName` remembers names at any offset of 16 bits, but a pointer holds 14.
  A name first written at offset `0x4000` or behind is replaced, when it comes
  again, by a pointer to another place. It takes a long answer, which only TCP
  brings. `RoundTrip` is about messages without such names (`Pointable`).

Where the first UDP server of a loop fails to bind a local port while no other server
of the job runs, `serverComplete` takes it for the last one, as described for
`BindFaults` in section 2. No line of the code or its documentation says otherwise,
so there is no run to violate; the properties say what is lost with it (`alone`)
and `job` and the proofs show what is not. Without the exception, TLC finds, in
`job`, `BackServersLastResort` violated as soon as the first main server finds no
port, and `HandlersHaveOwners` when the back server finds none either: the job is
deleted, and the TCP server is asked after that.

## 5. The proofs

`AHostsProofs`, for every set of jobs, keys and servers, all timeouts, and whatever
UDP servers may fail to bind a local port:

| Theorem | Says |
|---|---|
| `TypeCorrect` | `[]TypeOK` |
| `NoDanglingHandler` | `[]HandlersHaveOwners` |
| `EndsStayTogether` | `[]EndsAgree` |
| `ChecksNeverFail` | `[]ChecksHold` |
| `HeartbeatIsSafe` | `HeartbeatKeepsJobs` |

The inductive invariant `Inv` says that each record of `jobs` is either `NoJob`
or `Whole`: well typed, each server's record in one of the states `ServerInv`
allows, client, status and servers related as in `ClientInv`, nothing noted in
`uaf` and `errs`. None of the parts is inductive alone: that a server's handler
has an owner depends on jobs being deleted only with `m_server` empty, which
depends on the client's status. Since handlers are compositions of functions, so
is the proof: `Mid` is what holds of a job between the calls of a handler (the
last server may have left and the status not yet been settled), `PreSettle` what
holds where `Settle` starts, `Returned` what holds when a handler ends. A lemma
for each function of the code takes one predicate to the next, and a lemma for
each action uses those. Of a job in
`alone` less is known: it may be a `Ghost`, deleted while servers still run. Its
status stays `JOB_RESPONDED`, so that no handler brings it back, replies to its client
or writes its answers to the cache; `Lost` and `Late` are what holds inside the
handler that gives it up.

The second part of `AHostsProofs`:

| Theorem | Says |
|---|---|
| `ServersCanceledInTime` | `[]CanceledWhenDecided` |
| `BackServersAreLast` | `[]BackServersLastResort` |
| `OnlyTheLastFails` | `FailsIfAllFailed` |
| `OneReply` | `RepliedOnce` |
| `OnlyDecisionsAreCached` | `DecisionWritesCache` |
| `PromiseIsKept` | `KeepsPromise` |

The invariant is `Inv` and, for each job that is not in `alone`, `Asked`: its servers
are canceled when they should be (`CanceledRight`), a main server that is no longer in `m_server`
has completed as long as the job waits (`MainAsked`), back servers were asked late
enough (`BacksAskedLate`), and a job that returned early did so from the cache
(`EarlyIsCached`). `MainAsked` is what makes "no server left" mean "all have
failed", on which the other properties rest. `Moves` says of each handler what it
does to one job between its start and its end, whatever it calls: how the status
moves, when a reply appears, when the job may be given up, what is cached. The
action properties follow from `Moves`, and so does the refinement: `Seen` is the
job as `Resolver` sees it, `SeesEnd` its end, and each handler is a step of
`Resolver` or one that it does not see (`Unseen`).

`UpstreamProofs`, for every frame of any length, every size of the first read, and
any number of datagrams of any size:

| Theorem | Says |
|---|---|
| `TypeCorrect` | the type invariants of both modules |
| `BuffersStayHeld` | `[]BuffersHeld` |
| `ServersKeepTheirPromise` | `ServersPromise` |

`TcpInv` says what a read knows (`ReadKnows`): where in `m_res` it writes and how
much room is there, that the bytes before are those of the stream, and that a
later read has exactly the room that is missing of the frame. `UdpInv` says that
the buffer of a receive has the size of the datagram it takes, unless there was
none when its size was asked for (`ReceiveFits`). Both say that what the job was
told is nothing or the message (`ToldRight`). The refinement maps each step to the
arrival of the answer, to telling the job, or to a stutter.

`AHostsCacheProofs`, for every set of keys, answers and addresses and every
capacity:

| Theorem | Says |
|---|---|
| `TypeCorrect` | `[]TypeOK` |
| `IteratorsStayValid` | `[]IndexMatchesList` |
| `NoLeakNoDoubleFree` | `[]BuffersOwnedOnce` |
| `AnswersStayWhole` | `[]AnswersFit` |
| `CapacityKept` | `[]Bounded`, which no run spends a check on, since `IsLru` shows it |
| `IsAnLru` | `IsLru` |

`Inv` is the conjunction of the first five, which is inductive: `Bounded` needs the
map and the list to have the same size (`SizesAgree`, by two bijections),
buffers stay owned once only if the map leads to the right nodes, and the
address of a new node may be the one just freed.

For the refinement, `ItemAt` is what the reader sees of a node. `MoveIsUse`: when
an entry is found, its node leaves its place in `m_visit` and comes back in front,
and no other node changes what it holds, nor do their buffers; `SetNewKeeps` and
`KeptIsFront` say the same of the entries that stay when room is made for a new
one. Sequences are compared place by place, so no induction is needed.

`CachedAnswerProofs`, for every width of `int`, all packets of any length and
every behaviour of the clock within any bound:

| Theorem | Says |
|---|---|
| `TypeCorrect` | `[]TypeOK` |
| `NoRecordOutlivedEver` | `[]NoRecordOutlived` |
| `NeverServedLate` | `ServedInTime` |
| `NeverToldLate` | `ToldInTime` |
| `EntriesStayUsable` | `[]StaysUsable` |

`Inv` adds `TtlAddsUp` and `PacketAddsUp` to the first two: as long as the clock
has not been set, the entry's TTL and the seconds since its last update add up
to no more than the TTL it was stored with and the seconds that slipped, and the
same for each record of the packet. `SmallestLemma` gives `manageTtl`'s minimum,
`LastExpired` the last record that has forgotten the ones before it.
`EntriesStayUsable` has an invariant of its own, `EntryFine`: in the cached packet
no record that decides, has not expired and is not forgotten has a TTL above
`INT_MAX`. A record that has expired stays so, and what it makes `manageTtl`
forget stays forgotten; all other TTLs only go down.

`CheckAnswerProofs`, for all names and packets:

| Theorem | Says |
|---|---|
| `TypeCorrect` | `[]TypeOK` |
| `AcceptsSoundly` | `[]AcceptsOnlyComplete` |
| `RefusesSoundly` | `[]RefusesOnlyBroken` |

The invariant says what the map holds after the records read so far (a name is
`Answered` exactly if one of them is of the type asked for; otherwise its target
is that of one of its CNAMEs) and that the walk has only visited names the
question stands for. Reachability is written as membership in every closed set,
which needs no induction.

`AHostsHandlerProofs`, for all names, addresses and tables:

| Theorem | Says |
|---|---|
| `TypeCorrect` | `[]TypeOK` |
| `LoadedTablesAreSound` | `[]TableSound` |
| `RepliesAnswerTheQuestion` | `[]AnswersQuestion` |
| `RepliesAreChains` | `[]ReplyIsChain` |

The invariant says that all lines but the one being read leave their names
sound, that the saved question is the client's, and that the records appended so
far are a chain from the client's name to the one being looked up.

`NameCodecProofs`, for every message, all sizes of labels and gaps, and every
reach of pointers:

| Theorem | Says |
|---|---|
| `TypeCorrect` | `[]TypeOK` |
| `KnownNamesAreKnown` | `[]KnownIfPointable`: a pointer takes the place of a name only if that name is written where it leads |
| `NamesComeBack` | `[]RoundTrip` |
| `NeverTakesData` | `[]NeverLost`: the message goes on behind each name |

The invariant has a part for the writer and one for the reader. `LayoutInv`: where
a label is written, the rest of its name follows (or is what the writer has in
hand), and behind each name comes the next field. `ReadInv`: the labels read so
far and what is spelt at `cur` make up the name, and the place where the message
goes on is that of the next field. `WrittenFollows` takes the first to what the
second needs once all is written. No induction over names is needed, since every
offset has its spelling in `spelt`. `KnownIfPointable` and `NeverLost` are what
`RoundTrip` rests on; no run spends a check on them.

The same module, about `DecompressName`, for every message of bytes (of any
length, also shorter than a header), any number of names, any sizes of the header,
of what stands between two names, of a name at most and of the growth, the first
and the third of these no larger than the last (12, 256 and 512 in the code):

| Theorem | Says |
|---|---|
| `RoomIsKept` | `[]RoomKept` |
| `NamesAreWhole` | `[]NamesWhole` |

`LengthLaw` comes first: `Length` of a name is that of its first label and the rest
of it, or that of the place its pointer leads to. Its definition only gives that
from one row of `Lengths` to the next, and it takes a count to see that the last two
rows are the same: what a row knows the next one knows (`RowsGrow`), so that each
row either knows one name more or ends the growth (`RowsSettle`), and there are no
more names than bytes. Then the invariant is short. `NameInv`: what has been
written of a name and the length at the place being read make up its length,
or there is no name at either. So a circle needs no argument of its own: it has
no length, whatever is written before the output is full. `SpaceInv`: a name ends
before `poe`, which leaves as much room behind it as there is input behind the
name's first byte. Neither needs pointers to lead back.

`PeLogProofs`, for any limit and sizes of lines, any numbers of files to keep, and
any bounds on time, rotations and signals:

| Theorem | Says |
|---|---|
| `TypeCorrect`, `LogInvariant` | `[]TypeOK`, `[]Inv` |
| `FilesKept` | `[]AllKept` |
| `OneWriter` | `[]LockInv`: one call at most is past the lock |
| `OldestGoesFirst` | `OldestFirst` |
| `FullFilesRotate` | `FullIsRotated` |
| `LimitOfFiles` | a history file goes only when, with the current one, there are as many files as the limit; the front of an empty deque is taken only with a limit below two |

`Inv` has four parts besides the types. `DiskInv`: no two files were made by one
rotation, none has a time to come, and unless a name has been taken twice, names
and ages are in the same order. `KeptInv`: `AllKept`, and `kept` is in the order of
names. `LockInv`: only one frame of `stack` is past `LockGuard`, which is why a
signal in the middle of a rotation changes nothing of it. `FileInv`: `fsize` is no
less than the size of the current file, and a frame about to print has room or an
empty file. `AllKept` alone says that the names in `kept` are those on disk; that
the front is the oldest file needs the order of `DiskInv`, after a restart too,
when `setrot` has only the names. What `setrot` finds is a `CHOOSE` of an ordered
listing: that there is one, and one only as far as it matters (`ListingExists`,
`ScannedIs`), is proved by removing the last name of a smallest set without one. That
`get` finds a name that is free and behind all others of its second (`FreshIs`,
`FreshIsLast`) is a count: there are more names than rotations.

Only model-checked: liveness, which is out of the prover's reach: `JobsEnd`,
`EndsUnlessCyclic`, `EveryNameEnds`, `SignalStops`, `WholeIsEnough`,
`CanceledServersTell`.

## 6. Plan

Done: `AHostsJob`, `AHosts`, `Resolver`; `TcpServer`, `UdpServer`, `DnsServer`;
`AHostsCache`, `Lru`; `CachedAnswer`; `CheckAnswer`; `AHostsHandler`; `NameCodec`,
`DecompressName`; `PeLog`; the proofs of section 5. Next, in this order:

1. Which question an answer is stored under and looked up by, for requests with
   several questions.
2. Configuration: what `load` accepts implies the assumptions made here.

Not modelled, and not planned: `auto_buf.hpp`, whose second `resize(0)` in a row
frees the buffer and keeps its capacity, so that a later `resize` would grow into
nothing (no caller empties a buffer twice that has held something and then uses it
again: both kinds of server end with the answer they have received, and a handler
of `hosts.ext` has one request); logging text, `dumpMessage`, `nametype2print`,
the tables of type names, directory listing; exceptions of socket constructors,
which end the process; sharing the listening port among client sockets
(`SO_REUSEADDR`), where the kernel decides which socket gets a request.

asio and libconfig are vendored, and make up all but some 4 400 of the 122 699
lines under `src/`, so most of the lines will never be mapped. asio's queues and
its reactor are left as an environment on purpose: the modules let a ready handler
wait at will and the network complete an operation at any time, which allows every
order asio can produce and some it cannot. libconfig runs once, before the loop.
