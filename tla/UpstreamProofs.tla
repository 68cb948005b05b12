--------------------------- MODULE UpstreamProofs ---------------------------
(***************************************************************************)
(* Proofs about TcpServer and UdpServer, for every length of a frame, every*)
(* size of the first read, and any number of datagrams of any size: each   *)
(* implements DnsServer.                                                   *)
(***************************************************************************)
EXTENDS MCUpstream, Integers, TLAPS

-----------------------------------------------------------------------------
(* What a read knows: the first one has the room for any frame that fits   *)
(* it, every later one the room that is missing of the frame.              *)
ReadKnows ==
    /\ op.off + op.room = Len(res)
    /\ op.got <= op.room
    /\ taken = Have
    /\ \A i \in 1 .. Have : res[i] = i
    /\ op.least <= op.room
    /\ op.state = "pending" => op.got < op.least
    /\ op.state = "ok" => op.got >= op.least
    /\ \/ op.off = 0 /\ op.least = 2
       \/ op.off >= 2 /\ op.off + op.room = frame + 2 /\ op.least = op.room

(* What the job has been told is nothing or the message.                   *)
ToldRight ==
    told # <<>> =>
        \E m \in Seq(Nat) :
            told = <<m>> /\ (m # <<>> => m = Message /\ Arrived)

TcpInv ==
    /\ TypeOK
    /\ told # <<>> <=> status = SERVER_GOTANSWER
    /\ op.kind = "none" <=> status \in {SERVER_BEGIN, SERVER_GOTANSWER}
    /\ op.kind \in {"connect", "write"} => taken = 0
    /\ status = SERVER_BEGIN => taken = 0
    /\ op.kind = "read" => ReadKnows
    /\ ToldRight

USE DEF SERVER_BEGIN, SERVER_SENDING, SERVER_WAITING, SERVER_GOTANSWER

LEMMA TcpInitInv == Init => TcpInv
<1> SUFFICES ASSUME Init PROVE TcpInv OBVIOUS
<1>1. <<>> \in Seq(Nat) /\ <<>> \in Seq(Seq(Nat)) OBVIOUS
<1>2. NoOp \in Op BY DEF NoOp, Op
<1>a. taken \in 0 .. sent /\ status \in SERVER_BEGIN .. SERVER_GOTANSWER
  BY DEF Init
<1>b. open \in BOOLEAN /\ cancel \in BOOLEAN BY DEF Init
<1>3. TypeOK BY <1>1, <1>2, <1>a, <1>b DEF Init, TypeOK
<1> QED BY <1>3 DEF Init, TcpInv, NoOp, ToldRight

(* A handler tells the job a message and lets go of the socket.            *)
LEMMA TcpCompletes ==
    ASSUME TcpInv, NEW m \in Seq(Nat), Complete(m), told = <<>>,
           m # <<>> => m = Message /\ Arrived,
           UNCHANGED <<peer, taken>>, cancel' \in BOOLEAN, open' \in BOOLEAN
    PROVE  TcpInv'
<1>1. told' = <<m>> BY DEF Complete
<1>2. told' \in Seq(Seq(Nat)) BY <1>1
<1>3. op'.kind = "none" /\ op' \in Op BY DEF Complete, NoOp, Op
<1>4. TypeOK'
  BY <1>2, <1>3 DEF TcpInv, TypeOK, Complete, peer
<1>5. ToldRight'
  <2>1. Message' = Message /\ Arrived' = Arrived BY DEF Message, Arrived, peer
  <2> QED BY <1>1, <2>1 DEF ToldRight
<1> QED BY <1>1, <1>3, <1>4, <1>5 DEF TcpInv, Complete

LEMMA StartsOp ==
    ASSUME NEW kind \in {"connect", "write", "read"},
           NEW off \in Nat, NEW room \in Nat, NEW least \in Nat
    PROVE  /\ Start(kind, off, room, least) \in Op
           /\ Start(kind, off, room, least).kind = kind
           /\ Start(kind, off, room, least).off = off
           /\ Start(kind, off, room, least).room = room
           /\ Start(kind, off, room, least).least = least
           /\ Start(kind, off, room, least).got = 0
           /\ Start(kind, off, room, least).state # "ok"
BY DEF Start, Op

(* An operation other than a read begins, or ends without a change.        *)
LEMMA TcpGoesOn ==
    ASSUME TcpInv, op' \in Op, op'.kind \in {"connect", "write"},
           taken = 0, status' \in {SERVER_SENDING, SERVER_WAITING}, told = <<>>,
           UNCHANGED <<peer, taken, cancel, res, told>>, open' \in BOOLEAN
    PROVE  TcpInv'
<1>1. TypeOK' BY DEF TcpInv, TypeOK, peer
<1> QED BY <1>1 DEF TcpInv, ToldRight, peer

LEMMA ResizeKeeps ==
    ASSUME NEW r \in Seq(Nat), NEW n \in Nat
    PROVE  /\ Resize(r, n) \in Seq(Nat)
           /\ Len(Resize(r, n)) = n
           /\ \A i \in 1 .. n : i \in 1 .. Len(r) => Resize(r, n)[i] = r[i]
<1>1. \A i \in 1 .. n : (IF i \in DOMAIN r THEN r[i] ELSE Junk) \in Nat BY DEF Junk
<1>2. Resize(r, n) \in [1 .. n -> Nat] BY <1>1 DEF Resize
<1>3. DOMAIN Resize(r, n) = 1 .. n BY DEF Resize
<1> QED BY <1>2, <1>3 DEF Resize

LEMMA SendInv == TcpInv /\ Send => TcpInv'
<1> SUFFICES ASSUME TcpInv, Send PROVE TcpInv' OBVIOUS
<1>1. op' = Start("connect", 0, 0, 0) BY DEF Send
<1>2. op' \in Op /\ op'.kind = "connect" BY <1>1, StartsOp
<1>3. taken = 0 /\ told = <<>> BY DEF TcpInv, Send
<1>4. open' \in BOOLEAN BY DEF Send, TcpInv, TypeOK
<1> QED BY <1>2, <1>3, <1>4, TcpGoesOn DEF Send

LEMMA OnCnctedInv == TcpInv /\ OnCncted => TcpInv'
<1> SUFFICES ASSUME TcpInv, OnCncted PROVE TcpInv' OBVIOUS
<1>1. op' = Start("write", 0, 0, 0) BY DEF OnCncted
<1>2. op' \in Op /\ op'.kind = "write" BY <1>1, StartsOp
<1>3. taken = 0 /\ told = <<>> /\ status' \in {SERVER_SENDING, SERVER_WAITING}
  BY DEF TcpInv, TypeOK, OnCncted
<1>4. open' \in BOOLEAN BY DEF OnCncted, TcpInv, TypeOK
<1> QED BY <1>2, <1>3, <1>4, TcpGoesOn DEF OnCncted

LEMMA NothingTold == <<>> \in Seq(Nat)
OBVIOUS

(* Whoever has an outstanding operation has not told its job.              *)
LEMMA BusyIsOpen == TcpInv /\ op.kind # "none" => told = <<>>
BY DEF TcpInv, TypeOK

LEMMA FailedInv == TcpInv /\ (OnCnctedFailed \/ OnFailed \/ CancelUnsent) => TcpInv'
<1> SUFFICES ASSUME TcpInv, OnCnctedFailed \/ OnFailed \/ CancelUnsent
             PROVE  TcpInv'
  OBVIOUS
<1>1. Complete(<<>>) /\ UNCHANGED <<peer, taken>>
  BY DEF OnCnctedFailed, OnFailed, CancelUnsent
<1>2. told = <<>>
  BY BusyIsOpen DEF OnCnctedFailed, OnFailed, CancelUnsent, TcpInv
<1>3. open' \in BOOLEAN
  <2>1. FALSE \in BOOLEAN OBVIOUS
  <2> QED BY <2>1 DEF OnCnctedFailed, OnFailed, CancelUnsent, TcpInv, TypeOK
<1>4. cancel' \in BOOLEAN
  <2>1. TRUE \in BOOLEAN OBVIOUS
  <2> QED BY <2>1 DEF OnCnctedFailed, OnFailed, CancelUnsent, TcpInv, TypeOK
<1> QED BY <1>1, <1>2, <1>3, <1>4, NothingTold, TcpCompletes

LEMMA OnReqSentInv == TcpInv /\ OnReqSent => TcpInv'
<1> SUFFICES ASSUME TcpInv, OnReqSent PROVE TcpInv' OBVIOUS
<1> USE TcpAssumption
<1>1. op' = Start("read", 0, First, 2) BY DEF OnReqSent, Least
<1>2. /\ op' \in Op /\ op'.kind = "read" /\ op'.off = 0 /\ op'.room = First
      /\ op'.least = 2 /\ op'.got = 0 /\ op'.state # "ok"
  BY <1>1, StartsOp
<1>3. res' \in Seq(Nat) /\ Len(res') = First
  BY ResizeKeeps DEF OnReqSent, TcpInv, TypeOK
<1>4. taken = 0 /\ told = <<>> /\ status' = SERVER_WAITING
  BY BusyIsOpen DEF TcpInv, OnReqSent
<1>5. TypeOK' BY <1>2, <1>3, <1>4 DEF TcpInv, TypeOK, OnReqSent, peer
<1>6. ReadKnows' BY <1>2, <1>3, <1>4 DEF ReadKnows, Have, OnReqSent
<1> QED BY <1>2, <1>4, <1>5, <1>6 DEF TcpInv, ToldRight, OnReqSent

(* A read that is over knows the length of the frame.                      *)
LEMMA KnowsLength ==
    ASSUME TcpInv, op.kind = "read", op.state = "ok"
    PROVE  Have \in Nat /\ Have >= 2 /\ Have <= Len(res) /\ Stated = frame /\ frame \in Nat
<1> USE TcpAssumption
<1>1. ReadKnows /\ op \in Op /\ res \in Seq(Nat) /\ frame \in Nat
  BY DEF TcpInv, TypeOK
<1>2. Have >= 2 /\ Have <= Len(res) /\ Have \in Nat BY <1>1 DEF ReadKnows, Have, Op
<1>3. res[1] = 1 /\ res[2] = 2 BY <1>1, <1>2 DEF ReadKnows
<1>4. SubSeq(res, 1, 2) = <<1, 2>>
  <2>1. SubSeq(res, 1, 2) = [i \in 1 .. 2 |-> res[i]] BY <1>1, <1>2
  <2>2. \A i \in 1 .. 2 : res[i] = <<1, 2>>[i] BY <1>3
  <2>3. <<1, 2>> = [i \in 1 .. 2 |-> <<1, 2>>[i]] OBVIOUS
  <2> QED BY <2>1, <2>2, <2>3
<1> QED BY <1>1, <1>2, <1>4 DEF Stated

LEMMA OnResponseShortInv == TcpInv /\ OnResponseShort => TcpInv'
<1> SUFFICES ASSUME TcpInv, OnResponseShort PROVE TcpInv' OBVIOUS
<1> USE TcpAssumption
<1>1. op.kind = "read" /\ op.state = "ok" /\ Short BY DEF OnResponseShort
<1>2. /\ Have \in Nat /\ Have >= 2 /\ Have <= Len(res)
      /\ Stated = frame /\ frame \in Nat
  BY <1>1, KnowsLength
<1>3. Have < frame + 2 BY <1>1, <1>2 DEF Short
<1>4. res' = Resize(res, frame + 2) BY <1>2 DEF OnResponseShort
<1>5. ReadKnows /\ res \in Seq(Nat) BY <1>1 DEF TcpInv, TypeOK
<1>n. PICK n \in Nat : n = frame + 2 BY <1>2
<1>h. PICK h \in Nat : h = Have BY <1>2
<1>m. n - h \in Nat BY <1>n, <1>h, <1>3
<1>6. /\ res' \in Seq(Nat) /\ Len(res') = frame + 2
      /\ \A i \in 1 .. h : res'[i] = res[i]
  <2>1. PICK r \in Seq(Nat) : r = res BY <1>5
  <2>2. res' = Resize(r, n) BY <1>4, <1>n, <2>1
  <2>3. /\ Resize(r, n) \in Seq(Nat) /\ Len(Resize(r, n)) = n
        /\ \A i \in 1 .. n : i \in 1 .. Len(r) => Resize(r, n)[i] = r[i]
    BY ResizeKeeps
  <2>4. h <= n /\ h <= Len(r) BY <1>2, <1>3, <1>n, <1>h, <2>1
  <2>5. \A i \in 1 .. h : i \in 1 .. n /\ i \in 1 .. Len(r) BY <2>4
  <2>6. res' \in Seq(Nat) /\ Len(res') = frame + 2 BY <1>n, <2>2, <2>3
  <2>7. \A i \in 1 .. h : res'[i] = res[i] BY <2>1, <2>2, <2>3, <2>5
  <2> QED BY <2>6, <2>7
<1>7. op' = Start("read", Have, frame + 2 - Have, frame + 2 - Have)
  BY <1>2, <1>6 DEF OnResponseShort, Missing
<1>8. /\ op' \in Op /\ op'.kind = "read" /\ op'.off = Have
      /\ op'.room = frame + 2 - Have /\ op'.least = op'.room
      /\ op'.got = 0 /\ op'.state # "ok"
  <2>1. PICK k \in Nat : k = n - h BY <1>m
  <2>2. frame + 2 - Have = k BY <1>2, <1>n, <1>h, <2>1
  <2>3. op' = Start("read", h, k, k) BY <1>7, <1>h, <2>2 DEF Start
  <2>4. /\ op' \in Op /\ op'.kind = "read" /\ op'.off = h /\ op'.room = k
        /\ op'.least = k /\ op'.got = 0 /\ op'.state # "ok"
    BY <2>3, StartsOp
  <2> QED BY <1>h, <2>2, <2>4
<1>9. taken = h /\ \A i \in 1 .. h : res[i] = i BY <1>5, <1>h DEF ReadKnows
<1>10. told = <<>> BY <1>1, BusyIsOpen
<1>11. TypeOK' BY <1>6, <1>8 DEF TcpInv, TypeOK, OnResponseShort, peer
<1>12. ReadKnows'
  <2>1. Have' = h BY <1>h, <1>8 DEF Have
  <2>2. frame' = frame /\ taken' = taken BY DEF OnResponseShort, peer
  <2>3. \A i \in 1 .. h : res'[i] = i BY <1>6, <1>9
  <2>4. op'.off = h /\ op'.room = frame + 2 - h BY <1>8, <1>h
  <2> QED BY <1>2, <1>3, <1>h, <1>6, <1>8, <1>9, <2>1, <2>2, <2>3, <2>4 DEF ReadKnows
<1> QED BY <1>1, <1>8, <1>10, <1>11, <1>12 DEF TcpInv, ToldRight, OnResponseShort

LEMMA OnResponseWholeInv == TcpInv /\ OnResponseWhole => TcpInv'
<1> SUFFICES ASSUME TcpInv, OnResponseWhole PROVE TcpInv' OBVIOUS
<1>1. op.kind = "read" /\ op.state = "ok" /\ ~Short BY DEF OnResponseWhole
<1>2. /\ Have \in Nat /\ Have >= 2 /\ Have <= Len(res)
      /\ Stated = frame /\ frame \in Nat
  BY <1>1, KnowsLength
<1>3. Have >= frame + 2 BY <1>1, <1>2 DEF Short
<1>4. ReadKnows /\ res \in Seq(Nat) BY <1>1 DEF TcpInv, TypeOK
<1>5. Body = Message
  <2>1. Body = [i \in 1 .. frame |-> res[i + 2]]
    BY <1>2, <1>3, <1>4 DEF Body
  <2>2. \A i \in 1 .. frame : res[i + 2] = i + 2 BY <1>2, <1>3, <1>4 DEF ReadKnows
  <2> QED BY <2>1, <2>2 DEF Message
<1>6. Message \in Seq(Nat) BY <1>2 DEF Message
<1>7. right /\ frame > 0 => Arrived
  <2>1. sent \in Nat /\ taken <= sent /\ taken = Have
    BY <1>4 DEF TcpInv, TypeOK, ReadKnows
  <2> QED BY <1>2, <1>3, <2>1 DEF Arrived
<1> DEFINE m == IF IdMatches THEN Body ELSE <<>>
<1>8. m \in Seq(Nat) /\ (m # <<>> => m = Message /\ Arrived)
  BY <1>2, <1>5, <1>6, <1>7, NothingTold DEF IdMatches
<1>9. Complete(m) /\ UNCHANGED <<peer, taken>> BY DEF OnResponseWhole
<1>10. told = <<>> BY <1>1, BusyIsOpen
<1>11. cancel' \in BOOLEAN BY DEF OnResponseWhole, TcpInv, TypeOK
<1>12. open' \in BOOLEAN
  <2>1. FALSE \in BOOLEAN OBVIOUS
  <2> QED BY <2>1 DEF OnResponseWhole
<1> HIDE DEF m
<1> QED BY <1>8, <1>9, <1>10, <1>11, <1>12, TcpCompletes

(* The outstanding operation is over, as far as it has come; one that has  *)
(* all it needs may succeed.                                               *)
LEMMA TcpEnds ==
    ASSUME TcpInv, NEW st \in {"pending", "ok", "failed"},
           op' = [op EXCEPT !.state = st],
           st = "failed" \/ op.state = st \/ (st = "ok" /\ op.kind # "read"),
           UNCHANGED <<peer, taken, status, res, told>>,
           cancel' \in BOOLEAN, open' \in BOOLEAN
    PROVE  TcpInv'
<1>1. op \in Op BY DEF TcpInv, TypeOK
<1>2. /\ op' \in Op /\ op'.state = st /\ op'.kind = op.kind /\ op'.off = op.off
      /\ op'.room = op.room /\ op'.least = op.least /\ op'.got = op.got
  BY <1>1 DEF Op
<1>3. TypeOK' BY <1>2 DEF TcpInv, TypeOK, peer
<1>4. op'.kind = "read" => ReadKnows'
  BY <1>1, <1>2 DEF TcpInv, ReadKnows, Have, peer
<1> QED BY <1>2, <1>3, <1>4 DEF TcpInv, ToldRight, Message, Arrived, peer

LEMMA CancelInv == TcpInv /\ Cancel => TcpInv'
<1> SUFFICES ASSUME TcpInv, Cancel PROVE TcpInv' OBVIOUS
<1>1. op \in Op BY DEF TcpInv, TypeOK
<1> DEFINE st == IF op.state = "pending" THEN "failed" ELSE op.state
<1>2. st \in {"pending", "ok", "failed"} /\ (st = "failed" \/ op.state = st)
  BY <1>1 DEF Op
<1>3. op' = [op EXCEPT !.state = st] BY <1>1 DEF Cancel, Aborted, Op
<1>4. cancel' \in BOOLEAN /\ open' \in BOOLEAN
  <2>1. TRUE \in BOOLEAN /\ FALSE \in BOOLEAN OBVIOUS
  <2> QED BY <2>1 DEF Cancel
<1> HIDE DEF st
<1> QED BY <1>2, <1>3, <1>4, TcpEnds DEF Cancel

LEMMA NetInv == TcpInv /\ (NetDone \/ NetFail) => TcpInv'
<1> SUFFICES ASSUME TcpInv, NetDone \/ NetFail PROVE TcpInv' OBVIOUS
<1>1. cancel' \in BOOLEAN /\ open' \in BOOLEAN
  BY DEF TcpInv, TypeOK, NetDone, NetFail
<1>2. CASE NetDone
  <2>1. op.kind # "read" BY <1>2 DEF NetDone
  <2>2. op' = [op EXCEPT !.state = "ok"] BY <1>2 DEF NetDone
  <2> QED BY <1>1, <1>2, <2>1, <2>2, TcpEnds DEF NetDone
<1>3. CASE NetFail
  <2>1. op' = [op EXCEPT !.state = "failed"] BY <1>3 DEF NetFail
  <2> QED BY <1>1, <1>3, <2>1, TcpEnds DEF NetFail
<1> QED BY <1>2, <1>3

LEMMA PeerSendsInv == TcpInv /\ PeerSends => TcpInv'
<1> SUFFICES ASSUME TcpInv, PeerSends PROVE TcpInv' OBVIOUS
<1> USE TcpAssumption
<1>1. PICK n \in sent + 1 .. frame + 2 + Extra : sent' = n BY DEF PeerSends
<1>2. sent \in Nat /\ sent' \in Nat /\ sent' > sent
  BY <1>1 DEF TcpInv, TypeOK
<1>3. TypeOK' BY <1>2 DEF TcpInv, TypeOK, PeerSends
<1>4. op.kind = "read" => ReadKnows' BY DEF TcpInv, ReadKnows, Have, PeerSends
<1>5. ToldRight'
  <2>1. Message' = Message /\ (Arrived => Arrived')
    BY <1>2 DEF Message, Arrived, PeerSends, TcpInv, TypeOK
  <2> QED BY <2>1 DEF TcpInv, ToldRight, PeerSends
<1> QED BY <1>3, <1>4, <1>5 DEF TcpInv, PeerSends

LEMMA ReadInv == TcpInv /\ Read => TcpInv'
<1> SUFFICES ASSUME TcpInv, Read PROVE TcpInv' OBVIOUS
<1> USE TcpAssumption
<1>1. PICK k \in 1 .. Lesser(sent - taken, op.room - op.got) :
        /\ res' = [i \in DOMAIN res |->
                      IF i \in Have + 1 .. Have + k THEN taken + i - Have ELSE res[i]]
        /\ op' = [op EXCEPT
                     !.got = @ + k,
                     !.state = IF op.got + k >= Lesser(op.least, op.room) THEN "ok" ELSE @]
        /\ taken' = taken + k
  BY DEF Read
<1>2. op \in Op /\ res \in Seq(Nat) /\ taken \in Nat /\ sent \in Nat /\ taken <= sent
  BY DEF TcpInv, TypeOK
<1>3. op.kind = "read" /\ op.state = "pending" /\ ReadKnows BY DEF Read, TcpInv
<1>n. /\ op.off \in Nat /\ op.room \in Nat /\ op.got \in Nat /\ op.least \in Nat
      /\ Len(res) \in Nat
  BY <1>2 DEF Op
<1>r. /\ op.off + op.room = Len(res) /\ op.got <= op.room /\ taken = Have
      /\ op.least <= op.room /\ op.got < op.least
  BY <1>3 DEF ReadKnows
<1>4. k \in Nat /\ k >= 1 /\ k <= sent - taken /\ k <= op.room - op.got
  <2>1. sent - taken \in Int /\ op.room - op.got \in Int BY <1>2, <1>n
  <2>2. /\ Lesser(sent - taken, op.room - op.got) <= sent - taken
        /\ Lesser(sent - taken, op.room - op.got) <= op.room - op.got
        /\ Lesser(sent - taken, op.room - op.got) \in Int
    BY <2>1 DEF Lesser
  <2>3. k \in Nat /\ k >= 1 /\ k <= Lesser(sent - taken, op.room - op.got)
    BY <1>1, <2>2
  <2> QED BY <2>1, <2>2, <2>3
<1>h. PICK h \in Nat : h = Have BY <1>n DEF Have
<1>5. taken = h BY <1>r, <1>h
<1>6. h + k <= Len(res)
  <2>1. h = op.off + op.got BY <1>h DEF Have
  <2> QED BY <1>n, <1>r, <1>4, <2>1
<1>7. res' \in Seq(Nat) /\ Len(res') = Len(res)
  <2>1. \A i \in DOMAIN res :
          (IF i \in h + 1 .. h + k THEN taken + i - h ELSE res[i]) \in Nat
    BY <1>2, <1>4, <1>5
  <2>2. res' \in [1 .. Len(res) -> Nat] BY <1>1, <1>2, <1>h, <2>1
  <2>3. Len(res) \in Nat BY <1>2
  <2>4. DOMAIN res' = 1 .. Len(res) BY <1>1, <1>2
  <2> QED BY <2>2, <2>3, <2>4
<1>8. \A i \in 1 .. h + k : res'[i] = i
  BY <1>1, <1>2, <1>3, <1>4, <1>5, <1>6, <1>h DEF ReadKnows
<1> DEFINE st == IF op.got + k >= op.least THEN "ok" ELSE "pending"
<1>l. Lesser(op.least, op.room) = op.least BY <1>2, <1>3 DEF Lesser, Op, ReadKnows
<1>o. op' = [op EXCEPT !.got = op.got + k, !.state = st]
  BY <1>1, <1>2, <1>3, <1>l DEF Op
<1>s. st \in {"pending", "ok"} OBVIOUS
<1>t. (st = "ok") <=> op.got + k >= op.least OBVIOUS
<1> HIDE DEF st
<1>p. /\ op'.kind = "read" /\ op'.off = op.off
      /\ op'.room = op.room /\ op'.least = op.least /\ op'.got = op.got + k
      /\ op'.state = st
  BY <1>2, <1>3, <1>o DEF Op
<1>q. op' \in Op
  <2>1. op.got + k \in Nat BY <1>2, <1>4 DEF Op
  <2> QED BY <1>2, <1>o, <1>s, <2>1 DEF Op
<1>9. /\ op' \in Op /\ op'.kind = "read" /\ op'.off = op.off
      /\ op'.room = op.room /\ op'.least = op.least /\ op'.got = op.got + k
      /\ op'.state \in {"pending", "ok"}
      /\ (op'.state = "ok") <=> op.got + k >= op.least
  BY <1>p, <1>q, <1>s, <1>t
<1>10. told = <<>> BY <1>3, BusyIsOpen
<1>11. TypeOK'
  <2>1. taken' \in 0 .. sent' BY <1>1, <1>2, <1>4 DEF Read, peer
  <2> QED BY <1>7, <1>9, <2>1 DEF TcpInv, TypeOK, Read, peer
<1>12. ReadKnows'
  <2>1. Have' = h + k BY <1>2, <1>4, <1>9, <1>h DEF Have, Op
  <2>2. frame' = frame BY DEF Read, peer
  <2>3. taken' = Have' BY <1>1, <1>5, <2>1
  <2>4. \A i \in 1 .. Have' : res'[i] = i BY <1>8, <2>1
  <2>5. op'.off + op'.room = Len(res') BY <1>3, <1>7, <1>9 DEF ReadKnows
  <2>6. op'.got <= op'.room BY <1>2, <1>4, <1>9 DEF Op
  <2>7. /\ op'.state = "pending" => op'.got < op'.least
        /\ op'.state = "ok" => op'.got >= op'.least
    BY <1>2, <1>4, <1>9 DEF Op
  <2>8. /\ op'.least <= op'.room
        /\ \/ op'.off = 0 /\ op'.least = 2
           \/ op'.off >= 2 /\ op'.off + op'.room = frame' + 2 /\ op'.least = op'.room
    BY <1>3, <1>9, <2>2 DEF ReadKnows
  <2> QED BY <2>3, <2>4, <2>5, <2>6, <2>7, <2>8 DEF ReadKnows
<1> QED BY <1>3, <1>9, <1>10, <1>11, <1>12 DEF TcpInv, ToldRight, Read

LEMMA TcpNextInv == TcpInv /\ [Next]_vars => TcpInv'
<1> SUFFICES ASSUME TcpInv, [Next]_vars PROVE TcpInv' OBVIOUS
<1>1. CASE UNCHANGED vars
  BY <1>1 DEF TcpInv, TypeOK, ReadKnows, Have, ToldRight, Message, Arrived, vars, peer
<1>2. CASE Next
  BY <1>2, SendInv, OnCnctedInv, FailedInv, OnReqSentInv, OnResponseShortInv,
     OnResponseWholeInv, CancelInv, NetInv, PeerSendsInv, ReadInv
  DEF Next, Handler
<1> QED BY <1>1, <1>2

-----------------------------------------------------------------------------
LEMMA TcpInitImplements == Init => Promise!Init
<1> SUFFICES ASSUME Init PROVE Promise!Init OBVIOUS
<1> USE TcpAssumption
<1>1. ~Arrived BY DEF Init, Arrived
<1>2. Told = "open" BY DEF Init, Told
<1> QED BY <1>1, <1>2 DEF Promise!Init

(* What the job has been told depends on little.                           *)
LEMMA ToldKinds ==
    ASSUME TcpInv
    PROVE  Told = IF told = <<>> THEN "open"
                  ELSE IF told[1] = <<>> THEN "nothing" ELSE "answer"
<1>1. CASE told = <<>> BY <1>1 DEF Told
<1>2. CASE told # <<>>
  <2>1. PICK m \in Seq(Nat) : told = <<m>> /\ (m # <<>> => m = Message)
    BY <1>2 DEF TcpInv, ToldRight
  <2>2. Len(told) = 1 /\ told[1] = m BY <2>1
  <2> QED BY <1>2, <2>1, <2>2 DEF Told
<1> QED BY <1>1, <1>2

(* A step tells the job or lets bytes come, never both, and tells it only  *)
(* if it has not been told.                                                *)
LEMMA TcpStepTells ==
    ASSUME TcpInv, [Next]_vars
    PROVE  \/ PeerSends
           \/ UNCHANGED peer /\ (told' # told => told = <<>>)
<1> USE BusyIsOpen
<1>1. CASE Send \/ OnCncted \/ OnReqSent \/ OnResponseShort \/ Cancel \/ NetDone
           \/ NetFail \/ Read \/ UNCHANGED vars
  BY <1>1 DEF Send, OnCncted, OnReqSent, OnResponseShort, Cancel, NetDone,
              NetFail, Read, vars
<1>2. CASE OnCnctedFailed \/ OnFailed \/ OnResponseWhole
  BY <1>2 DEF OnCnctedFailed, OnFailed, OnResponseWhole
<1>3. CASE CancelUnsent BY <1>3 DEF CancelUnsent, TcpInv
<1> QED BY <1>1, <1>2, <1>3 DEF Next, Handler

LEMMA TcpNextImplements ==
    TcpInv /\ TcpInv' /\ [Next]_vars => [Promise!Next]_<<Arrived, Told>>
<1> SUFFICES ASSUME TcpInv, TcpInv', [Next]_vars
             PROVE  [Promise!Next]_<<Arrived, Told>>
  OBVIOUS
<1>1. Told = IF told = <<>> THEN "open"
             ELSE IF told[1] = <<>> THEN "nothing" ELSE "answer"
  BY ToldKinds
<1>2. Told' = IF told' = <<>> THEN "open"
              ELSE IF told'[1] = <<>> THEN "nothing" ELSE "answer"
  <2>1. CASE told' = <<>> BY <2>1 DEF Told
  <2>2. CASE told' # <<>>
    <3>1. PICK m \in Seq(Nat) : told' = <<m>> /\ (m # <<>> => m = Message')
      BY <2>2 DEF TcpInv, ToldRight
    <3>2. Len(told') = 1 /\ told'[1] = m BY <3>1
    <3> QED BY <2>2, <3>1, <3>2 DEF Told
  <2> QED BY <2>1, <2>2
<1>3. Arrived \in BOOLEAN /\ Arrived' \in BOOLEAN BY DEF Arrived, TcpInv, TypeOK
<1>4. Told' = "answer" => Arrived' BY <1>2 DEF TcpInv, ToldRight
<1>5. CASE PeerSends
  <2>1. Told' = Told BY <1>1, <1>2, <1>5 DEF PeerSends
  <2>2. Arrived => Arrived'
    <3>1. sent \in Nat /\ frame \in Nat BY TcpAssumption DEF TcpInv, TypeOK
    <3>2. PICK n \in sent + 1 .. frame + 2 + Extra : sent' = n
      BY <1>5 DEF PeerSends
    <3>3. sent' > sent BY <3>1, <3>2, TcpAssumption
    <3> QED BY <1>5, <3>1, <3>2, <3>3 DEF Arrived, PeerSends
  <2> QED BY <1>3, <2>1, <2>2 DEF Promise!Next, Promise!Arrive
<1>6. CASE UNCHANGED peer /\ (told' # told => told = <<>>)
  <2>1. Arrived' = Arrived BY <1>6 DEF Arrived, peer
  <2>2. Told' # Told => Told = "open" /\ Told' \in {"nothing", "answer"}
    BY <1>1, <1>2, <1>6
  <2> QED BY <1>3, <1>4, <2>1, <2>2
      DEF Promise!Next, Promise!TellAnswer, Promise!TellNothing
<1> QED BY <1>5, <1>6, TcpStepTells

-----------------------------------------------------------------------------
(* A receive has a buffer of the size of the datagram it takes, unless it  *)
(* was started when there was none.                                        *)
ReceiveFits ==
    uop.kind = "receive" /\ usize > 0 =>
        /\ uop.state # "ok" => utaken < Len(came) /\ came[utaken + 1].size = usize
        /\ uop.state = "ok" => /\ uheld = utaken /\ utaken > 0
                              /\ came[uheld].size = usize /\ uop.got = usize

UdpToldRight ==
    utold # <<>> =>
        \E a \in U!Answer :
            /\ utold = <<a>>
            /\ a # U!Nothing => /\ a.of \in DOMAIN came /\ U!Matches(a.of)
                               /\ a.bytes = came[a.of].size

UdpInv ==
    /\ U!TypeOK
    /\ utold # <<>> <=> ustatus = SERVER_GOTANSWER
    /\ uop.kind = "none" <=> ustatus \in {SERVER_BEGIN, SERVER_GOTANSWER}
    /\ U!BufferHeld
    /\ ReceiveFits
    /\ UdpToldRight

USE DEF U!SERVER_BEGIN, U!SERVER_SENDING, U!SERVER_WAITING, U!SERVER_GOTANSWER

LEMMA UdpInitInv == U!Init => UdpInv
<1> SUFFICES ASSUME U!Init PROVE UdpInv OBVIOUS
<1>1. came \in Seq(U!Datagram) /\ utold \in Seq(U!Answer) BY DEF U!Init
<1>2. uop \in U!Op BY DEF U!Init, U!NoOp, U!Op
<1>3. utaken \in 0 .. Len(came) /\ uheld \in 0 .. utaken /\ usize \in Nat
      /\ ustatus \in SERVER_BEGIN .. SERVER_GOTANSWER
  BY DEF U!Init
<1>4. uopen \in BOOLEAN /\ ucancel \in BOOLEAN BY DEF U!Init
<1>5. U!TypeOK BY <1>1, <1>2, <1>3, <1>4 DEF U!TypeOK
<1> QED BY <1>5 DEF U!Init, UdpInv, U!NoOp, UdpToldRight, ReceiveFits, U!BufferHeld

LEMMA UdpCompletes ==
    ASSUME UdpInv, NEW a \in U!Answer, U!Complete(a), utold = <<>>,
           a # U!Nothing => /\ a.of \in DOMAIN came /\ U!Matches(a.of)
                            /\ a.bytes = came[a.of].size,
           UNCHANGED <<came, utaken, uheld>>, ucancel' \in BOOLEAN, uopen' \in BOOLEAN
    PROVE  UdpInv'
<1>1. utold' = <<a>> BY DEF U!Complete
<1>2. utold' \in Seq(U!Answer) BY <1>1
<1>3. uop'.kind = "none" /\ uop' \in U!Op BY DEF U!Complete, U!NoOp, U!Op
<1>4. usize' \in Nat BY DEF U!Complete, U!Answer
<1>5. ustatus' = SERVER_GOTANSWER BY DEF U!Complete
<1>6. U!TypeOK' BY <1>2, <1>3, <1>4, <1>5 DEF UdpInv, U!TypeOK
<1>7. UdpToldRight' BY <1>1 DEF UdpToldRight, U!Matches, U!IsEmpty
<1> QED BY <1>1, <1>3, <1>5, <1>6, <1>7 DEF UdpInv, U!BufferHeld, ReceiveFits

LEMMA UdpStartsOp ==
    ASSUME NEW kind \in {"send", "peek", "receive"}, NEW room \in Nat
    PROVE  /\ U!Start(kind, room) \in U!Op
           /\ U!Start(kind, room).kind = kind
           /\ U!Start(kind, room).room = room
           /\ U!Start(kind, room).state # "ok"
BY DEF U!Start, U!Op

LEMMA UdpBusyIsOpen == UdpInv /\ uop.kind # "none" => utold = <<>>
BY DEF UdpInv, U!TypeOK

LEMMA NothingIsAnswer == U!Nothing \in U!Answer
BY DEF U!Nothing, U!Answer

LEMMA UdpFailedInv ==
    UdpInv /\ (U!SendNoPort \/ U!OnReqSentFailed \/ U!OnResponseFailed \/ U!CancelUnsent)
        => UdpInv'
<1> SUFFICES ASSUME UdpInv, U!SendNoPort \/ U!OnReqSentFailed
                            \/ U!OnResponseFailed \/ U!CancelUnsent
             PROVE  UdpInv'
  OBVIOUS
<1>1. U!Complete(U!Nothing) /\ UNCHANGED <<came, utaken, uheld>>
  BY DEF U!SendNoPort, U!OnReqSentFailed, U!OnResponseFailed, U!CancelUnsent
<1>2. utold = <<>>
  BY UdpBusyIsOpen DEF U!SendNoPort, U!OnReqSentFailed, U!OnResponseFailed, U!Over,
                       U!CancelUnsent, UdpInv
<1>3. uopen' \in BOOLEAN
  <2>1. FALSE \in BOOLEAN OBVIOUS
  <2> QED BY <2>1 DEF U!SendNoPort, U!OnReqSentFailed, U!OnResponseFailed,
                      U!CancelUnsent, UdpInv, U!TypeOK
<1>4. ucancel' \in BOOLEAN
  <2>1. TRUE \in BOOLEAN OBVIOUS
  <2> QED BY <2>1 DEF U!SendNoPort, U!OnReqSentFailed, U!OnResponseFailed,
                      U!CancelUnsent, UdpInv, U!TypeOK
<1> QED BY <1>1, <1>2, <1>3, <1>4, NothingIsAnswer, UdpCompletes

LEMMA UdpSendInv == UdpInv /\ U!Send => UdpInv'
<1> SUFFICES ASSUME UdpInv, U!Send PROVE UdpInv' OBVIOUS
<1>1. uop' = U!Start("send", 0) BY DEF U!Send
<1>2. uop' \in U!Op /\ uop'.kind = "send" BY <1>1, UdpStartsOp
<1>3. utold = <<>> /\ uop.kind = "none" BY DEF U!Send, UdpInv
<1>4. U!TypeOK' BY <1>2 DEF U!Send, UdpInv, U!TypeOK
<1>5. UdpToldRight' BY <1>3 DEF U!Send, UdpToldRight
<1>6. U!BufferHeld' BY <1>2, <1>3 DEF U!Send, UdpInv, U!BufferHeld
<1> QED BY <1>2, <1>3, <1>4, <1>5, <1>6 DEF U!Send, UdpInv, ReceiveFits

LEMMA UdpOnReqSentInv == UdpInv /\ U!OnReqSent => UdpInv'
<1> SUFFICES ASSUME UdpInv, U!OnReqSent PROVE UdpInv' OBVIOUS
<1>1. uop' = U!Start("peek", 0) BY DEF U!OnReqSent
<1>2. uop' \in U!Op /\ uop'.kind = "peek" BY <1>1, UdpStartsOp
<1>3. utold = <<>> BY UdpBusyIsOpen DEF U!OnReqSent
<1>4. U!TypeOK' BY <1>2 DEF U!OnReqSent, UdpInv, U!TypeOK
<1> QED BY <1>2, <1>3, <1>4
    DEF U!OnReqSent, UdpInv, ReceiveFits, UdpToldRight, U!BufferHeld

LEMMA UdpOnPeekedInv == UdpInv /\ U!OnResponsePeeked => UdpInv'
<1> SUFFICES ASSUME UdpInv, U!OnResponsePeeked PROVE UdpInv' OBVIOUS
<1> USE UdpAssumption
<1>1. came \in Seq(U!Datagram) /\ utaken \in 0 .. Len(came) BY DEF UdpInv, U!TypeOK
<1>2. PICK n \in Nat : n = U!Room
  <2>1. CASE utaken < Len(came)
    <3>1. came[utaken + 1] \in U!Datagram BY <1>1, <2>1
    <3> QED BY <2>1, <3>1 DEF U!Room, U!Available, U!Datagram
  <2> QED BY <2>1 DEF U!Room, U!Available
<1>3. uop' = U!Start("receive", n) /\ usize' = n BY <1>2 DEF U!OnResponsePeeked
<1>4. /\ uop' \in U!Op /\ uop'.kind = "receive" /\ uop'.room = n
      /\ uop'.state # "ok"
  BY <1>3, UdpStartsOp
<1>5. n > 0 => utaken < Len(came) /\ came[utaken + 1].size = n
  BY <1>2 DEF U!Room, U!Available
<1>6. utold = <<>> /\ uop.kind # "none"
  BY UdpBusyIsOpen DEF U!OnResponsePeeked, U!Over
<1>7. U!TypeOK' BY <1>3, <1>4 DEF U!OnResponsePeeked, UdpInv, U!TypeOK
<1> QED BY <1>3, <1>4, <1>5, <1>6, <1>7
    DEF U!OnResponsePeeked, UdpInv, ReceiveFits, UdpToldRight, U!BufferHeld

LEMMA UdpOnReceivedInv == UdpInv /\ U!OnResponseReceived => UdpInv'
<1> SUFFICES ASSUME UdpInv, U!OnResponseReceived PROVE UdpInv' OBVIOUS
<1> USE UdpAssumption
<1>1. utold = <<>> BY UdpBusyIsOpen DEF U!OnResponseReceived, U!Over
<1>2. usize # 0 /\ uop.state = "ok" BY DEF U!OnResponseReceived, U!Peeked
<1>3. usize > 0 BY <1>2 DEF UdpInv, U!TypeOK
<1>4. uop.kind = "receive" BY <1>1, <1>3 DEF UdpInv, U!BufferHeld
<1>5. /\ uheld = utaken /\ utaken > 0
      /\ came[uheld].size = usize /\ uop.got = usize
  BY <1>2, <1>3, <1>4 DEF UdpInv, ReceiveFits
<1>6. came \in Seq(U!Datagram) /\ uheld \in DOMAIN came
  BY <1>5 DEF UdpInv, U!TypeOK
<1> DEFINE a == IF U!Accepts THEN [of |-> uheld, bytes |-> uop.got] ELSE U!Nothing
<1>7. a \in U!Answer
  BY <1>6, NothingIsAnswer DEF U!Answer, UdpInv, U!TypeOK, U!Op
<1>8. a # U!Nothing => /\ a.of \in DOMAIN came /\ U!Matches(a.of)
                       /\ a.bytes = came[a.of].size
  BY <1>3, <1>5, <1>6 DEF U!Matches, U!IsEmpty, U!Accepts
<1>9. U!Complete(a) /\ UNCHANGED <<came, utaken, uheld>> BY DEF U!OnResponseReceived
<1>10. ucancel' \in BOOLEAN BY DEF U!OnResponseReceived, UdpInv, U!TypeOK
<1>11. uopen' \in BOOLEAN
  <2>1. FALSE \in BOOLEAN OBVIOUS
  <2> QED BY <2>1 DEF U!OnResponseReceived
<1> HIDE DEF a
<1> QED BY <1>1, <1>7, <1>8, <1>9, <1>10, <1>11, UdpCompletes

(* The outstanding operation is over; a receive takes a step of its own.   *)
LEMMA UdpEnds ==
    ASSUME UdpInv, NEW st \in {"pending", "ok", "failed"},
           uop' = [uop EXCEPT !.state = st],
           st = "failed" => uop.state # "ok",
           st = "ok" => uop.state = "ok" \/ uop.kind # "receive",
           st = "pending" => uop.state = "pending",
           UNCHANGED <<came, utaken, ustatus, usize, uheld, utold>>,
           ucancel' \in BOOLEAN, uopen' \in BOOLEAN
    PROVE  UdpInv'
<1>1. uop \in U!Op BY DEF UdpInv, U!TypeOK
<1>2. /\ uop' \in U!Op /\ uop'.state = st /\ uop'.kind = uop.kind
      /\ uop'.room = uop.room /\ uop'.got = uop.got
  BY <1>1 DEF U!Op
<1>3. U!TypeOK' BY <1>2 DEF UdpInv, U!TypeOK
<1>4. ReceiveFits' BY <1>1, <1>2 DEF UdpInv, ReceiveFits, U!Op
<1>5. U!BufferHeld' BY <1>2 DEF UdpInv, U!BufferHeld
<1> QED BY <1>2, <1>3, <1>4, <1>5 DEF UdpInv, UdpToldRight, U!Matches, U!IsEmpty

LEMMA UdpCancelInv == UdpInv /\ U!Cancel => UdpInv'
<1> SUFFICES ASSUME UdpInv, U!Cancel PROVE UdpInv' OBVIOUS
<1>1. uop \in U!Op BY DEF UdpInv, U!TypeOK
<1> DEFINE st == IF uop.state = "pending" THEN "failed" ELSE uop.state
<1>2. /\ st \in {"pending", "ok", "failed"}
      /\ st = "failed" => uop.state # "ok"
      /\ st = "ok" => uop.state = "ok"
      /\ st = "pending" => uop.state = "pending"
  BY <1>1 DEF U!Op
<1>3. uop' = [uop EXCEPT !.state = st]
  BY <1>1 DEF U!Cancel, U!AfterCancel, U!Aborted, U!Op
<1>4. ucancel' \in BOOLEAN /\ uopen' \in BOOLEAN
  <2>1. TRUE \in BOOLEAN /\ FALSE \in BOOLEAN OBVIOUS
  <2> QED BY <2>1 DEF U!Cancel
<1> HIDE DEF st
<1> QED BY <1>2, <1>3, <1>4, UdpEnds DEF U!Cancel

LEMMA UdpNetInv == UdpInv /\ (U!Sent \/ U!Peek \/ U!NetFail) => UdpInv'
<1> SUFFICES ASSUME UdpInv, U!Sent \/ U!Peek \/ U!NetFail PROVE UdpInv' OBVIOUS
<1>1. ucancel' \in BOOLEAN /\ uopen' \in BOOLEAN
  BY DEF UdpInv, U!TypeOK, U!Sent, U!Peek, U!NetFail
<1>2. CASE U!Sent \/ U!Peek
  <2>1. uop.kind # "receive" /\ uop' = [uop EXCEPT !.state = "ok"]
    BY <1>2 DEF U!Sent, U!Peek
  <2> QED BY <1>1, <1>2, <2>1, UdpEnds DEF U!Sent, U!Peek
<1>3. CASE U!NetFail
  <2>1. uop.state # "ok" /\ uop' = [uop EXCEPT !.state = "failed"]
    BY <1>3 DEF U!NetFail
  <2> QED BY <1>1, <1>3, <2>1, UdpEnds DEF U!NetFail
<1> QED BY <1>2, <1>3

LEMMA UdpReceiveInv == UdpInv /\ U!Receive => UdpInv'
<1> SUFFICES ASSUME UdpInv, U!Receive PROVE UdpInv' OBVIOUS
<1> USE UdpAssumption
<1> DEFINE n == came[utaken + 1].size
           g == IF n < uop.room THEN n ELSE uop.room
<1>1. uop' = [uop EXCEPT !.state = "ok", !.got = g] /\ utaken' = utaken + 1
      /\ uheld' = utaken + 1
  BY DEF U!Receive
<1>2. uop \in U!Op /\ uop.kind = "receive" /\ uop.state = "pending"
      /\ came \in Seq(U!Datagram) /\ utaken \in Nat /\ utaken < Len(came)
  BY DEF U!Receive, UdpInv, U!TypeOK
<1>3. n \in Nat
  <2>1. came[utaken + 1] \in U!Datagram BY <1>2
  <2> QED BY <2>1 DEF U!Datagram
<1>4. g \in Nat BY <1>2, <1>3 DEF U!Op
<1>5. usize > 0 => n = usize /\ uop.room = usize /\ g = usize
  <2>1. usize > 0 => n = usize BY <1>2 DEF UdpInv, ReceiveFits
  <2>2. uop.room = usize BY <1>2 DEF UdpInv, U!BufferHeld
  <2> QED BY <2>1, <2>2
<1> HIDE DEF g
<1>6. /\ uop' \in U!Op /\ uop'.state = "ok" /\ uop'.kind = "receive"
      /\ uop'.room = uop.room /\ uop'.got = g
  BY <1>1, <1>2, <1>4 DEF U!Op
<1>7. utold = <<>> BY <1>2, UdpBusyIsOpen
<1>8. U!TypeOK'
  <2>1. utaken' \in 0 .. Len(came') /\ uheld' \in 0 .. utaken'
    BY <1>1, <1>2 DEF U!Receive
  <2> QED BY <1>6, <2>1 DEF U!Receive, UdpInv, U!TypeOK
<1>9. ReceiveFits'
  <2>1. came' = came /\ usize' = usize BY DEF U!Receive
  <2> QED BY <1>1, <1>2, <1>5, <1>6, <2>1 DEF ReceiveFits
<1>10. U!BufferHeld' BY <1>2, <1>6 DEF U!Receive, UdpInv, U!BufferHeld
<1> QED BY <1>2, <1>6, <1>7, <1>8, <1>9, <1>10 DEF U!Receive, UdpInv, UdpToldRight

LEMMA UdpArriveInv == UdpInv /\ U!Arrive => UdpInv'
<1> SUFFICES ASSUME UdpInv, U!Arrive PROVE UdpInv' OBVIOUS
<1>1. PICK d \in U!Datagram : came' = Append(came, d) BY DEF U!Arrive
<1>2. came \in Seq(U!Datagram) /\ utaken \in 0 .. Len(came) /\ uheld \in 0 .. utaken
  BY DEF UdpInv, U!TypeOK
<1>3. /\ came' \in Seq(U!Datagram) /\ Len(came') = Len(came) + 1
      /\ \A i \in 1 .. Len(came) : came'[i] = came[i]
  BY <1>1, <1>2
<1>4. U!TypeOK' BY <1>2, <1>3 DEF U!Arrive, UdpInv, U!TypeOK
<1>5. ReceiveFits' BY <1>2, <1>3 DEF U!Arrive, UdpInv, ReceiveFits
<1>6. UdpToldRight'
  <2>1. CASE utold = <<>> BY <2>1 DEF U!Arrive, UdpToldRight
  <2>2. CASE utold # <<>>
    <3>1. PICK a \in U!Answer :
            /\ utold = <<a>>
            /\ a # U!Nothing => /\ a.of \in DOMAIN came /\ U!Matches(a.of)
                               /\ a.bytes = came[a.of].size
      BY <2>2 DEF UdpInv, UdpToldRight
    <3>2. a # U!Nothing => a.of \in DOMAIN came' /\ came'[a.of] = came[a.of]
      BY <1>2, <1>3, <3>1
    <3> QED BY <3>1, <3>2 DEF U!Arrive, UdpToldRight, U!Matches, U!IsEmpty
  <2> QED BY <2>1, <2>2
<1>7. U!BufferHeld' BY DEF U!Arrive, UdpInv, U!BufferHeld
<1> QED BY <1>4, <1>5, <1>6, <1>7 DEF U!Arrive, UdpInv

LEMMA UdpNextInv == UdpInv /\ [U!Next]_(U!vars) => UdpInv'
<1> SUFFICES ASSUME UdpInv, [U!Next]_(U!vars) PROVE UdpInv' OBVIOUS
<1>1. CASE UNCHANGED U!vars
  BY <1>1 DEF UdpInv, U!TypeOK, ReceiveFits, UdpToldRight, U!BufferHeld, U!Matches,
              U!IsEmpty, U!vars
<1>2. CASE U!Next
  BY <1>2, UdpFailedInv, UdpSendInv, UdpOnReqSentInv, UdpOnPeekedInv,
     UdpOnReceivedInv, UdpCancelInv, UdpNetInv, UdpReceiveInv, UdpArriveInv
  DEF U!Next, U!Handler
<1> QED BY <1>1, <1>2

-----------------------------------------------------------------------------
LEMMA UdpInitImplements == U!Init => U!Promise!Init
<1> SUFFICES ASSUME U!Init PROVE U!Promise!Init OBVIOUS
<1>1. ~U!Arrived BY DEF U!Init, U!Arrived
<1>2. U!Told = "open" BY DEF U!Init, U!Told
<1> QED BY <1>1, <1>2 DEF U!Promise!Init

LEMMA UdpToldKinds ==
    ASSUME UdpInv
    PROVE  U!Told = IF utold = <<>> THEN "open"
                    ELSE IF utold[1] = U!Nothing THEN "nothing" ELSE "answer"
<1>1. CASE utold = <<>> BY <1>1 DEF U!Told
<1>2. CASE utold # <<>>
  <2>1. PICK a \in U!Answer :
          utold = <<a>> /\ (a # U!Nothing => U!Matches(a.of) /\ a.bytes = came[a.of].size)
    BY <1>2 DEF UdpInv, UdpToldRight
  <2>2. Len(utold) = 1 /\ utold[1] = a BY <2>1
  <2> QED BY <1>2, <2>1, <2>2 DEF U!Told
<1> QED BY <1>1, <1>2

LEMMA UdpStepTells ==
    ASSUME UdpInv, [U!Next]_(U!vars)
    PROVE  \/ U!Arrive
           \/ UNCHANGED came /\ (utold' # utold => utold = <<>>)
<1> USE UdpBusyIsOpen
<1>1. CASE U!Send \/ U!OnReqSent \/ U!OnResponsePeeked \/ U!Cancel \/ U!Sent
           \/ U!Peek \/ U!Receive \/ U!NetFail \/ UNCHANGED U!vars
  BY <1>1 DEF U!Send, U!OnReqSent, U!OnResponsePeeked, U!Cancel, U!Sent, U!Peek,
              U!Receive, U!NetFail, U!vars
<1>2. CASE U!OnReqSentFailed \/ U!OnResponseFailed \/ U!OnResponseReceived
  BY <1>2 DEF U!OnReqSentFailed, U!OnResponseFailed, U!OnResponseReceived, U!Over
<1>3. CASE U!SendNoPort \/ U!CancelUnsent
  BY <1>3 DEF U!SendNoPort, U!CancelUnsent, UdpInv
<1> QED BY <1>1, <1>2, <1>3 DEF U!Next, U!Handler

LEMMA UdpNextImplements ==
    UdpInv /\ UdpInv' /\ [U!Next]_(U!vars) => [U!Promise!Next]_<<U!Arrived, U!Told>>
<1> SUFFICES ASSUME UdpInv, UdpInv', [U!Next]_(U!vars)
             PROVE  [U!Promise!Next]_<<U!Arrived, U!Told>>
  OBVIOUS
<1>1. U!Told = IF utold = <<>> THEN "open"
               ELSE IF utold[1] = U!Nothing THEN "nothing" ELSE "answer"
  BY UdpToldKinds
<1>2. /\ U!Told' = IF utold' = <<>> THEN "open"
                   ELSE IF utold'[1] = U!Nothing THEN "nothing" ELSE "answer"
      /\ U!Told' = "answer" => U!Arrived'
  <2>1. CASE utold' = <<>> BY <2>1 DEF U!Told
  <2>2. CASE utold' # <<>>
    <3>1. PICK a \in U!Answer :
            /\ utold' = <<a>>
            /\ a # U!Nothing => /\ a.of \in DOMAIN came' /\ U!Matches(a.of)'
                               /\ a.bytes = came'[a.of].size
      BY <2>2 DEF UdpInv, UdpToldRight, U!Matches, U!IsEmpty
    <3>2. Len(utold') = 1 /\ utold'[1] = a BY <3>1
    <3>3. a # U!Nothing => U!Arrived' BY <3>1 DEF U!Arrived, U!Matches, U!IsEmpty
    <3>4. U!Told' = IF a = U!Nothing THEN "nothing" ELSE "answer"
      BY <2>2, <3>1, <3>2 DEF U!Told, U!Matches, U!IsEmpty
    <3> QED BY <2>2, <3>2, <3>3, <3>4
  <2> QED BY <2>1, <2>2
<1>3. U!Arrived \in BOOLEAN /\ U!Arrived' \in BOOLEAN BY DEF U!Arrived
<1>4. CASE U!Arrive
  <2>1. U!Told' = U!Told BY <1>1, <1>2, <1>4 DEF U!Arrive
  <2>2. U!Arrived => U!Arrived'
    <3>1. PICK d \in U!Datagram : came' = Append(came, d) BY <1>4 DEF U!Arrive
    <3>2. came \in Seq(U!Datagram) BY DEF UdpInv, U!TypeOK
    <3>3. \A i \in DOMAIN came : i \in DOMAIN came' /\ came'[i] = came[i]
      BY <3>1, <3>2
    <3> QED BY <3>3 DEF U!Arrived, U!Matches, U!IsEmpty
  <2> QED BY <1>3, <2>1, <2>2 DEF U!Promise!Next, U!Promise!Arrive
<1>5. CASE UNCHANGED came /\ (utold' # utold => utold = <<>>)
  <2>1. U!Arrived' = U!Arrived BY <1>5 DEF U!Arrived, U!Matches, U!IsEmpty
  <2>2. U!Told' # U!Told => U!Told = "open" /\ U!Told' \in {"nothing", "answer"}
    BY <1>1, <1>2, <1>5
  <2> QED BY <1>2, <1>3, <2>1, <2>2
      DEF U!Promise!Next, U!Promise!TellAnswer, U!Promise!TellNothing
<1> QED BY <1>4, <1>5, UdpStepTells

-----------------------------------------------------------------------------
Inv == TcpInv /\ UdpInv

LEMMA InitInv == MCInit => Inv
BY TcpInitInv, UdpInitInv DEF MCInit, Inv

(* A step is one of one of the servers.                                    *)
LEMMA StepOfEither ==
    [MCNext]_<<udp, vars, udpVars>> => [Next]_vars /\ [U!Next]_(U!vars)
BY DEF MCNext, vars, peer, udpVars, U!vars

LEMMA NextInv == Inv /\ [MCNext]_<<udp, vars, udpVars>> => Inv'
BY StepOfEither, TcpNextInv, UdpNextInv DEF Inv

LEMMA Invariance == MCSpec => []Inv
BY InitInv, NextInv, PTL DEF MCSpec

(* The variables of both servers keep their types.                         *)
THEOREM TypeCorrect == MCSpec => [](TypeOK /\ U!TypeOK)
<1>1. Inv => TypeOK /\ U!TypeOK BY DEF Inv, TcpInv, UdpInv
<1> QED BY <1>1, Invariance, PTL

(* m_res is not resized while asio reads into it, by neither server, and no*)
(* read waits for more than the buffer has room for: TcpServer::onResponse *)
(* and UdpServer::onResponse agree with the operations they have started.  *)
THEOREM BuffersStayHeld == MCSpec => []BuffersHeld
<1>1. TcpInv => BufferHeld BY DEF TcpInv, ReadKnows, BufferHeld
<1>2. Inv => BuffersHeld BY <1>1 DEF Inv, UdpInv, BuffersHeld
<1> QED BY <1>2, Invariance, PTL

(* Both servers implement what AHostsJob relies on: serverComplete is      *)
(* called once, with nothing or with the whole message that came under the *)
(* ID of the request.                                                      *)
THEOREM ServersKeepTheirPromise == MCSpec => ServersPromise
<1>1. MCInit => Promise!Init /\ U!Promise!Init
  BY TcpInitImplements, UdpInitImplements DEF MCInit
<1>2. Inv /\ Inv' /\ [MCNext]_<<udp, vars, udpVars>>
        => [Promise!Next]_<<Arrived, Told>> /\ [U!Promise!Next]_<<U!Arrived, U!Told>>
  BY StepOfEither, TcpNextImplements, UdpNextImplements DEF Inv
<1> QED
  BY <1>1, <1>2, Invariance, PTL
  DEF MCSpec, ServersPromise, TcpPromise, U!UdpPromise, Promise!Spec, U!Promise!Spec
=============================================================================
