----------------------------- MODULE MCUpstream -----------------------------
(***************************************************************************)
(* Instances of TcpServer and UdpServer: one behaviour is that of one      *)
(* upstream server, of either kind, the other staying as it was created.   *)
(***************************************************************************)
EXTENDS TcpServer

CONSTANTS Sizes, MaxDatagrams

ASSUME UdpAssumption == Sizes \subseteq Nat /\ MaxDatagrams \in Nat

VARIABLES
    udp, \* whether the server is a UdpServer
    came, utaken, ustatus, ucancel, uopen, usize, uheld, uop, utold

U == INSTANCE UdpServer WITH
    taken <- utaken, status <- ustatus, cancel <- ucancel, open <- uopen,
    size <- usize, held <- uheld, op <- uop, told <- utold

udpVars == <<came, utaken, ustatus, ucancel, uopen, usize, uheld, uop, utold>>

(* Frames shorter than an ID, shorter than, as long as and longer than the *)
(* first read.                                                             *)
MCFrame == 0 .. 6

MCInit == udp \in BOOLEAN /\ Init /\ U!Init
MCNext ==
    \/ ~udp /\ Next /\ UNCHANGED <<udp, udpVars>>
    \/ udp /\ U!Next /\ UNCHANGED <<udp, vars>>
MCSpec == MCInit /\ [][MCNext]_<<udp, vars, udpVars>> /\ Fairness /\ U!Fairness

(* What the job of either kind of server relies on.                        *)
ServersPromise == TcpPromise /\ U!UdpPromise

(* No buffer is let go of while asio reads into it.                        *)
BuffersHeld == BufferHeld /\ U!BufferHeld

(* An answer that has come whole is delivered without waiting for more.    *)
WholeIsEnough == FrameIsEnough /\ U!FirstIsEnough

(* No job waits for a server it has canceled.                              *)
CanceledServersTell == CanceledTells /\ U!CanceledTells
=============================================================================
