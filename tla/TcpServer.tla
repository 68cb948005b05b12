----------------------------- MODULE TcpServer -----------------------------
(***************************************************************************)
(* TcpServer: how an answer is received over TCP.  The answer is framed by *)
(* its length and arrives in pieces of any size, which have nothing to do  *)
(* with the frame; reads fill the buffer m_res behind what it holds.       *)
(*                                                                         *)
(* A byte is told apart by its place in the stream the upstream sends:     *)
(* bytes 1 and 2 are the length, 3 and 4 the ID.                           *)
(***************************************************************************)
EXTENDS Naturals, Sequences

CONSTANTS
    Frame,  \* lengths the upstream may state
    First,  \* 512, the size of the first read
    Extra   \* bound: bytes the upstream may send behind its frame

ASSUME TcpAssumption ==
    /\ Frame \subseteq Nat
    /\ First \in Nat \ {0, 1}
    /\ Extra \in Nat

VARIABLES
    frame,  \* the length the upstream states
    right,  \* whether what is compared with m_id is equal to it
    sent,   \* how many bytes of its stream have arrived
    taken,  \* how many of them have been read
    status, \* m_status
    cancel, \* m_cancel
    open,   \* m_socket is open
    res,    \* m_res
    op,     \* the outstanding operation on m_socket
    told    \* history: the buffers the job was told

peer == <<frame, right, sent>>
vars == <<peer, taken, status, cancel, open, res, op, told>>

SERVER_BEGIN == 0
SERVER_SENDING == 1
SERVER_WAITING == 2
SERVER_GOTANSWER == 3

Junk == 0  \* a byte of m_res that was never written

(* A read fills room bytes of m_res from offset off; it is over when it    *)
(* has got at least so many.                                               *)
Op == [kind : {"none", "connect", "write", "read"},
       state : {"pending", "ok", "failed"},
       off : Nat, room : Nat, least : Nat, got : Nat]
NoOp == [kind |-> "none", state |-> "ok", off |-> 0, room |-> 0, least |-> 0, got |-> 0]

(* An operation on a closed socket fails.                                  *)
Start(kind, off, room, least) ==
    [kind |-> kind, state |-> IF open THEN "pending" ELSE "failed",
     off |-> off, room |-> room, least |-> least, got |-> 0]

TypeOK ==
    /\ frame \in Frame
    /\ right \in BOOLEAN
    /\ sent \in Nat
    /\ taken \in 0 .. sent
    /\ status \in SERVER_BEGIN .. SERVER_GOTANSWER
    /\ cancel \in BOOLEAN
    /\ open \in BOOLEAN
    /\ res \in Seq(Nat)
    /\ op \in Op
    /\ told \in Seq(Seq(Nat))

Init ==
    /\ frame \in Frame
    /\ right \in BOOLEAN
    /\ sent = 0
    /\ taken = 0
    /\ status = SERVER_BEGIN
    /\ cancel = FALSE
    /\ open = TRUE
    /\ res = <<>>
    /\ op = NoOp
    /\ told = <<>>

-----------------------------------------------------------------------------
(* basic_abuf::resize: what fits is kept.                                  *)
Resize(r, n) == [i \in 1 .. n |-> IF i \in DOMAIN r THEN r[i] ELSE Junk]

(* m_job->serverComplete, after which nothing is done with the server.     *)
Complete(msg) ==
    /\ status' = SERVER_GOTANSWER
    /\ res' = msg
    /\ op' = NoOp
    /\ told' = Append(told, msg)

Send ==
    /\ status = SERVER_BEGIN
    /\ status' = SERVER_SENDING
    /\ op' = Start("connect", 0, 0, 0)
    /\ UNCHANGED <<peer, taken, cancel, open, res, told>>

OnCncted ==
    /\ op.kind = "connect" /\ op.state = "ok"
    /\ op' = Start("write", 0, 0, 0)
    /\ UNCHANGED <<peer, taken, status, cancel, open, res, told>>

(* It leaves the socket open, until the destructor.                        *)
OnCnctedFailed ==
    /\ op.kind = "connect" /\ op.state = "failed"
    /\ Complete(<<>>)
    /\ UNCHANGED <<peer, taken, cancel, open>>

(* The first read needs the length; first the whole buffer.                *)
LeastWhole == First
Least == 2

OnReqSent ==
    /\ op.kind = "write" /\ op.state = "ok"
    /\ res' = Resize(res, First)
    /\ status' = SERVER_WAITING
    /\ op' = Start("read", 0, First, Least)
    /\ UNCHANGED <<peer, taken, cancel, open, told>>

(* onReqSent or onResponse with an error, at the end of the stream too.    *)
OnFailed ==
    /\ op.kind \in {"write", "read"} /\ op.state = "failed"
    /\ Complete(<<>>)
    /\ open' = FALSE
    /\ UNCHANGED <<peer, taken, cancel>>

Have == op.off + op.got

(* The length stated by the first two bytes of the buffer.                 *)
Stated == IF SubSeq(res, 1, 2) = <<1, 2>> THEN frame ELSE Junk

Short == Have < 2 \/ Have < Stated + 2

(* What is still missing of the frame.                                     *)
Missing == Stated + 2 - Have

(* Fewer than two bytes would leave the length unknown: the first read is  *)
(* never over with so few, but the code would read on.                     *)
OnResponseShort ==
    /\ op.kind = "read" /\ op.state = "ok" /\ Short
    /\ res' = IF Have < 2 THEN res ELSE Resize(res, Stated + 2)
    /\ op' = Start("read", Have, Len(res') - Have, IF Have < 2 THEN 1 ELSE Missing)
    /\ UNCHANGED <<peer, taken, status, cancel, open, told>>

(* m_res without the length, after resize, memmove and resize; first       *)
(* without the first resize, with all that was read.                       *)
BodyAll == SubSeq(res, 3, Have)
Body == SubSeq(res, 3, Stated + 2)

(* The ID is the first two bytes of m_res; what lies there of a shorter    *)
(* body is its one byte and the 1 of the length, which may be an ID, or    *)
(* the length 0, which is none (an ID is 1024 at least).                   *)
IdMatches == right /\ Stated > 0

OnResponseWhole ==
    /\ op.kind = "read" /\ op.state = "ok" /\ ~Short
    /\ Complete(IF IdMatches THEN Body ELSE <<>>)
    /\ open' = FALSE
    /\ UNCHANGED <<peer, taken, cancel>>

(* close() ends an outstanding operation, unless it is over already.       *)
Aborted == [op EXCEPT !.state = IF @ = "pending" THEN "failed" ELSE @]

(* cancel, before send.                                                    *)
CancelUnsent ==
    /\ status = SERVER_BEGIN
    /\ cancel' = TRUE
    /\ Complete(<<>>)
    /\ UNCHANGED <<peer, taken, open>>

(* cancel, after send: it leaves m_res alone.                              *)
Cancel ==
    /\ status \in {SERVER_SENDING, SERVER_WAITING}
    /\ cancel' = TRUE
    /\ open' = FALSE
    /\ op' = Aborted
    /\ UNCHANGED <<peer, taken, status, res, told>>

-----------------------------------------------------------------------------
(* The network, and asio, which reads until a read has its least.          *)
NetDone ==
    /\ op.kind \in {"connect", "write"} /\ op.state = "pending"
    /\ op' = [op EXCEPT !.state = "ok"]
    /\ UNCHANGED <<peer, taken, status, cancel, open, res, told>>

NetFail ==
    /\ op.kind # "none" /\ op.state = "pending"
    /\ op' = [op EXCEPT !.state = "failed"]
    /\ UNCHANGED <<peer, taken, status, cancel, open, res, told>>

PeerSends ==
    /\ status = SERVER_WAITING /\ open
    /\ \E n \in sent + 1 .. frame + 2 + Extra : sent' = n
    /\ UNCHANGED <<frame, right, taken, status, cancel, open, res, op, told>>

Lesser(m, n) == IF m < n THEN m ELSE n

Read ==
    /\ op.kind = "read" /\ op.state = "pending"
    /\ \E k \in 1 .. Lesser(sent - taken, op.room - op.got) :
         /\ res' = [i \in DOMAIN res |->
                      IF i \in Have + 1 .. Have + k THEN taken + i - Have ELSE res[i]]
         /\ op' = [op EXCEPT
                     !.got = @ + k,
                     !.state = IF op.got + k >= Lesser(op.least, op.room) THEN "ok" ELSE @]
         /\ taken' = taken + k
    /\ UNCHANGED <<peer, status, cancel, open, told>>

Handler ==
    \/ OnCncted \/ OnCnctedFailed \/ OnReqSent \/ OnFailed
    \/ OnResponseShort \/ OnResponseWhole

Next ==
    \/ Send \/ Handler \/ CancelUnsent \/ Cancel
    \/ NetDone \/ NetFail \/ PeerSends \/ Read

Spec == Init /\ [][Next]_vars

(* The loop runs every handler that is ready, and asio reads and writes    *)
(* while it can.  That the upstream sends, or that cancel is called, is not*)
(* assumed.                                                                *)
Fairness == WF_vars(Handler) /\ WF_vars(NetDone) /\ WF_vars(Read)

-----------------------------------------------------------------------------
(* A whole frame has come, under the ID of the request.                    *)
Arrived == right /\ frame > 0 /\ sent >= frame + 2

(* What the job was told, against the bytes of the frame.                  *)
Message == [i \in 1 .. frame |-> i + 2]
Told ==
    IF told = <<>> THEN "open"
    ELSE IF Len(told) > 1 THEN "twice"
    ELSE IF told[1] = <<>> THEN "nothing"
    ELSE IF told[1] = Message THEN "answer" ELSE "garbled"

(* However the stream is cut into reads, whether the frame fits the first  *)
(* read or not, and whatever follows it, the job is told once, nothing or  *)
(* exactly the bytes of the frame, and these only under its ID.            *)
Promise == INSTANCE DnsServer WITH arrived <- Arrived, told <- Told
TcpPromise == Promise!Spec

(* A read has the end of m_res as its buffer, all of it, until its handler *)
(* has run: m_res is not resized under it, not by cancel either; and it    *)
(* never waits for more than the buffer has room for.                      *)
BufferHeld ==
    op.kind = "read" =>
        /\ op.off + op.room = Len(res)
        /\ op.state = "pending" => op.got < op.least /\ op.least <= op.room

(* A whole frame under the right ID becomes an answer without a further    *)
(* byte from the upstream, if no operation fails (or is canceled): no read *)
(* waits for more than what is missing of the frame.                       *)
FrameIsEnough ==
    <>Arrived /\ [](op.state # "failed") => <>(Told = "answer" \/ cancel)

(* A canceled server tells its job, which waits for every server.          *)
CanceledTells == cancel ~> told # <<>>
=============================================================================
