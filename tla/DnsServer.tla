----------------------------- MODULE DnsServer -----------------------------
(***************************************************************************)
(* What a job relies on from each upstream server it has asked: it is told *)
(* once, either nothing or an answer, and an answer is the whole message   *)
(* that came under the ID of the request.  UdpServer and TcpServer, the    *)
(* two subclasses of DnsServer, implement this.                            *)
(***************************************************************************)
VARIABLES
    arrived, \* a whole answer under the ID of the request has come
    told     \* "open", "nothing" or "answer": what the job has been told

Init == arrived = FALSE /\ told = "open"

Arrive ==
    /\ ~arrived
    /\ arrived' = TRUE
    /\ UNCHANGED told

TellAnswer ==
    /\ arrived /\ told = "open"
    /\ told' = "answer"
    /\ UNCHANGED arrived

(* It failed, timed out or came under another ID.                          *)
TellNothing ==
    /\ told = "open"
    /\ told' = "nothing"
    /\ UNCHANGED arrived

Next == Arrive \/ TellAnswer \/ TellNothing

Spec == Init /\ [][Next]_<<arrived, told>>
=============================================================================
