----------------------------- MODULE UdpServer -----------------------------
(***************************************************************************)
(* UdpServer: how an answer is received over UDP.  A peek with an empty    *)
(* buffer waits for a datagram, its size is asked for, and a receive with a*)
(* buffer of that size takes it.  A completion is that of a peek if m_res  *)
(* is empty, which it also is when the receive was of an empty datagram.   *)
(***************************************************************************)
EXTENDS Naturals, Sequences

CONSTANTS
    Sizes,       \* sizes of the datagrams that may come to the socket
    MaxDatagrams \* bound: how many come

VARIABLES
    came,   \* the datagrams that have come to the socket
    taken,  \* how many of them have been received
    status, \* m_status
    cancel, \* m_cancel
    open,   \* m_socket is open
    size,   \* m_res.size()
    held,   \* the datagram in m_res, as an index of came, or 0
    op,     \* the outstanding operation on m_socket
    told    \* history: what the job was told

vars == <<came, taken, status, cancel, open, size, held, op, told>>

SERVER_BEGIN == 0
SERVER_SENDING == 1
SERVER_WAITING == 2
SERVER_GOTANSWER == 3

(* right is what the comparison of its first two bytes with m_id yields: of*)
(* a datagram of one byte the code reads a second one beyond its end.      *)
Datagram == [size : Sizes, right : BOOLEAN]

(* room is the size of the buffer, got the size of what was received.      *)
Op == [kind : {"none", "send", "peek", "receive"},
       state : {"pending", "ok", "failed"}, room : Nat, got : Nat]
NoOp == [kind |-> "none", state |-> "ok", room |-> 0, got |-> 0]

(* An operation on a closed socket fails.                                  *)
Start(kind, room) ==
    [kind |-> kind, state |-> IF open THEN "pending" ELSE "failed",
     room |-> room, got |-> 0]

(* The first bytes of a datagram, or nothing.                              *)
Answer == [of : Nat, bytes : Nat]
Nothing == [of |-> 0, bytes |-> 0]

TypeOK ==
    /\ came \in Seq(Datagram)
    /\ taken \in 0 .. Len(came)
    /\ status \in SERVER_BEGIN .. SERVER_GOTANSWER
    /\ cancel \in BOOLEAN
    /\ open \in BOOLEAN
    /\ size \in Nat
    /\ held \in 0 .. taken
    /\ op \in Op
    /\ told \in Seq(Answer)

Init ==
    /\ came = <<>>
    /\ taken = 0
    /\ status = SERVER_BEGIN
    /\ cancel = FALSE
    /\ open = TRUE
    /\ size = 0
    /\ held = 0
    /\ op = NoOp
    /\ told = <<>>

-----------------------------------------------------------------------------
(* m_job->serverComplete, after which nothing is done with the server.     *)
Complete(answer) ==
    /\ status' = SERVER_GOTANSWER
    /\ size' = answer.bytes
    /\ op' = NoOp
    /\ told' = Append(told, answer)

Send ==
    /\ status = SERVER_BEGIN
    /\ status' = SERVER_SENDING
    /\ op' = Start("send", 0)
    /\ UNCHANGED <<came, taken, cancel, open, size, held, told>>

(* Ten local ports were tried, and none could be bound.                    *)
SendNoPort ==
    /\ status = SERVER_BEGIN
    /\ Complete(Nothing)
    /\ UNCHANGED <<came, taken, cancel, open, held>>

OnReqSent ==
    /\ op.kind = "send" /\ op.state = "ok"
    /\ size' = 0
    /\ status' = SERVER_WAITING
    /\ op' = Start("peek", 0)
    /\ UNCHANGED <<came, taken, cancel, open, held, told>>

OnReqSentFailed ==
    /\ op.kind = "send" /\ op.state = "failed"
    /\ Complete(Nothing)
    /\ UNCHANGED <<came, taken, cancel, open, held>>

(* m_socket.available(): the size of the datagram that is next, if any.    *)
Available == IF taken < Len(came) THEN came[taken + 1].size ELSE 0

Over == op.kind \in {"peek", "receive"} /\ op.state # "pending"

(* The buffer for the receive.                                             *)
Room == Available

Peeked == op.state = "ok" /\ ~cancel /\ size = 0

(* First with the buffer, but not m_res, made as large as the datagram.    *)
OnResponsePeekedKeep ==
    /\ Over /\ Peeked
    /\ op' = Start("receive", Room)
    /\ UNCHANGED <<came, taken, status, cancel, open, size, held, told>>

OnResponsePeeked ==
    /\ Over /\ Peeked
    /\ size' = Room
    /\ op' = Start("receive", Room)
    /\ UNCHANGED <<came, taken, status, cancel, open, held, told>>

OnResponseFailed ==
    /\ Over /\ ~Peeked /\ (op.state = "failed" \/ cancel)
    /\ Complete(Nothing)
    /\ open' = FALSE
    /\ UNCHANGED <<came, taken, cancel, held>>

(* It came under the ID of the request.                                    *)
Accepts == came[held].right

OnResponseReceived ==
    /\ Over /\ ~Peeked /\ op.state = "ok" /\ ~cancel
    /\ Complete(IF Accepts THEN [of |-> held, bytes |-> op.got] ELSE Nothing)
    /\ open' = FALSE
    /\ UNCHANGED <<came, taken, cancel, held>>

(* close() ends an outstanding operation, unless it is over already.       *)
Aborted == [op EXCEPT !.state = IF @ = "pending" THEN "failed" ELSE @]

CancelUnsent ==
    /\ status = SERVER_BEGIN
    /\ cancel' = TRUE
    /\ Complete(Nothing)
    /\ UNCHANGED <<came, taken, open, held>>

(* First leaving the socket open.                                          *)
AfterCancelOpen == op
AfterCancel == Aborted

Cancel ==
    /\ status \in {SERVER_SENDING, SERVER_WAITING}
    /\ cancel' = TRUE
    /\ open' = FALSE
    /\ op' = AfterCancel
    /\ UNCHANGED <<came, taken, status, size, held, told>>

-----------------------------------------------------------------------------
(* The network.                                                            *)
Arrive ==
    /\ status \in {SERVER_SENDING, SERVER_WAITING} /\ open
    /\ Len(came) < MaxDatagrams
    /\ \E d \in Datagram : came' = Append(came, d)
    /\ UNCHANGED <<taken, status, cancel, open, size, held, op, told>>

Sent ==
    /\ op.kind = "send" /\ op.state = "pending"
    /\ op' = [op EXCEPT !.state = "ok"]
    /\ UNCHANGED <<came, taken, status, cancel, open, size, held, told>>

Peek ==
    /\ op.kind = "peek" /\ op.state = "pending" /\ taken < Len(came)
    /\ op' = [op EXCEPT !.state = "ok"]
    /\ UNCHANGED <<came, taken, status, cancel, open, size, held, told>>

(* What of the datagram exceeds the buffer is lost.                        *)
Receive ==
    /\ op.kind = "receive" /\ op.state = "pending" /\ taken < Len(came)
    /\ LET n == came[taken + 1].size
       IN  op' = [op EXCEPT !.state = "ok", !.got = IF n < op.room THEN n ELSE op.room]
    /\ taken' = taken + 1
    /\ held' = taken + 1
    /\ UNCHANGED <<came, status, cancel, open, size, told>>

NetFail ==
    /\ op.kind # "none" /\ op.state = "pending"
    /\ op' = [op EXCEPT !.state = "failed"]
    /\ UNCHANGED <<came, taken, status, cancel, open, size, held, told>>

Handler ==
    \/ OnReqSent \/ OnReqSentFailed
    \/ OnResponsePeeked \/ OnResponseFailed \/ OnResponseReceived

Next ==
    \/ Send \/ SendNoPort \/ Handler \/ CancelUnsent \/ Cancel
    \/ Arrive \/ Sent \/ Peek \/ Receive \/ NetFail

Spec == Init /\ [][Next]_vars

(* The loop runs every handler that is ready, and asio sends and receives  *)
(* while it can.  That datagrams come, or cancel is called, is not assumed.*)
Fairness == WF_vars(Handler) /\ WF_vars(Sent) /\ WF_vars(Peek) /\ WF_vars(Receive)

-----------------------------------------------------------------------------
IsEmpty(i) == came[i].size = 0
Matches(i) == came[i].right /\ ~IsEmpty(i)

Arrived == \E i \in DOMAIN came : Matches(i)

(* What the job was told, against the datagrams that came.                 *)
Told ==
    IF told = <<>> THEN "open"
    ELSE IF Len(told) > 1 THEN "twice"
    ELSE IF told[1] = Nothing THEN "nothing"
    ELSE IF Matches(told[1].of) /\ told[1].bytes = came[told[1].of].size THEN "answer"
    ELSE "garbled"

(* Whatever comes to the socket, and wherever it comes between the peek,   *)
(* the question for its size and the receive, the job is told once, nothing*)
(* or a whole datagram, and this only under the ID of the request.         *)
Promise == INSTANCE DnsServer WITH arrived <- Arrived, told <- Told
UdpPromise == Promise!Spec

(* A receive that is outstanding has all of m_res as its buffer, and m_res *)
(* is empty only between two datagrams.                                    *)
BufferHeld ==
    /\ op.kind = "receive" => op.room = size
    /\ size > 0 /\ told = <<>> => op.kind = "receive"

(* An answer that comes first becomes the answer of the server, if no      *)
(* operation fails (or is canceled).                                       *)
FirstIsEnough ==
    <>(came # <<>> /\ Matches(1)) /\ [](op.state # "failed")
        => <>(Told = "answer" \/ cancel)

(* A canceled server tells its job, which waits for every server.          *)
CanceledTells == cancel ~> told # <<>>
=============================================================================
