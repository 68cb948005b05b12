--------------------------- MODULE DecompressName ---------------------------
(***************************************************************************)
(* codecMessage decompressing a message that was compressed elsewhere:     *)
(* decompressName meets pointers that lead anywhere, and the output grows  *)
(* from name to name.                                                      *)
(***************************************************************************)
EXTENDS Integers, FiniteSets

CONSTANTS
    Inputs,  \* messages: their bytes by offset, and the byte that lies behind
             \* them in memory
    Header,    \* 12, the size of the header, into which pointers may lead
    Flag,    \* 64: a byte from here on begins a pointer
    Base,    \* 256, the values of a byte
    NameMax, \* 256, for which decompressName makes room
    Growth,  \* 512, what the output exceeds the input by, and grows by
    Names,   \* for a message: how many names it may tell of
    Gaps     \* sizes of what may stand behind a name

VARIABLES
    in,        \* the message
    phase,     \* "begin", "name" or "rest" of a field; "done", "refused" when
               \* a name was no good, or "failed"
    left,      \* how many names there are still to come
    pin,       \* pin - pib
    pout,      \* pout - pob
    size,      \* out.size()
    poe,       \* poe - pob
    ppin,      \* ppin - pib
    pointered, \* pointered
    from       \* history: pin and pout where the name began

vars == <<in, phase, left, pin, pout, size, poe, ppin, pointered, from>>

(* How many bytes a message has, and this one.                             *)
Bytes(m) == Cardinality(DOMAIN m) - 1
N == Bytes(in)

TypeOK ==
    /\ in \in Inputs
    /\ phase \in {"begin", "name", "rest", "done", "refused", "failed"}
    /\ left \in Nat
    /\ {pin, pout, size, poe, ppin} \subseteq Nat
    /\ pointered \in BOOLEAN
    /\ from \in [pin : Nat, pout : Nat]

Init ==
    /\ in \in Inputs
    /\ phase = "begin"
    /\ left \in Names[in]
    /\ pin = Header
    /\ pout = Header
    /\ size = N + Growth
    /\ poe = 0
    /\ ppin = 0
    /\ pointered = FALSE
    /\ from = [pin |-> Header, pout |-> Header]

-----------------------------------------------------------------------------
InLeft == N - pin
OutLeft == size - pout

(* Whether the output has no room for a name and the rest of the input;    *)
(* first never.                                                            *)
GrowsNever == FALSE
Grows == InLeft + NameMax > OutLeft

(* What of the output is kept for the rest of the input; first nothing.    *)
KeptNone == 0
Kept == InLeft

(* Whether a name follows.                                                 *)
More == left > 0

BeginName ==
    /\ phase = "begin" /\ More
    /\ phase' = "name"
    /\ left' = left - 1
    /\ size' = IF Grows THEN size + Growth ELSE size
    /\ poe' = size' - Kept
    /\ ppin' = pin
    /\ pointered' = FALSE
    /\ from' = [pin |-> pin, pout |-> pout]
    /\ UNCHANGED <<in, pin, pout>>

IsPointer(m, o) == m[o] >= Flag
Target(m, o) == (m[o] % Flag) * Base + m[o + 1]

Turns == phase = "name" /\ ppin < N /\ pout < poe

(* Where the reading goes on after a pointer; first where it is.           *)
JumpNot(o) == o
Jump(o) == Target(in, o)

(* A pointer may lead to the end of the message, where no name is.         *)
FollowPointer ==
    /\ Turns /\ IsPointer(in, ppin) /\ Target(in, ppin) <= N
    /\ pin' = IF pointered THEN pin ELSE pin + 2
    /\ pointered' = TRUE
    /\ ppin' = Jump(ppin)
    /\ UNCHANGED <<in, phase, left, pout, size, poe, from>>

EndName ==
    /\ Turns /\ in[ppin] = 0
    /\ pout' = pout + 1
    /\ pin' = IF pointered THEN pin ELSE pin + 1
    /\ phase' = "rest"
    /\ UNCHANGED <<in, left, size, poe, ppin, pointered, from>>

(* A label must fit what is left of the message and of the output; first   *)
(* without its length byte.                                                *)
FitsBody(l) == ppin + l <= N /\ pout + l <= poe
Fits(l) == ppin + l + 1 <= N /\ pout + l + 1 <= poe

CopyLabel ==
    /\ Turns /\ in[ppin] \in 1 .. Flag - 1 /\ Fits(in[ppin])
    /\ pout' = pout + in[ppin] + 1
    /\ ppin' = ppin + in[ppin] + 1
    /\ pin' = IF pointered THEN pin ELSE pin + in[ppin] + 1
    /\ UNCHANGED <<in, phase, left, size, poe, pointered, from>>

(* "Invalid pointer in name." and "Invalid name."                          *)
RefuseName ==
    /\ phase = "name"
    /\ ~ /\ Turns
         /\ IF IsPointer(in, ppin) THEN Target(in, ppin) <= N
            ELSE in[ppin] = 0 \/ Fits(in[ppin])
    /\ phase' = "refused"
    /\ UNCHANGED <<in, left, pin, pout, size, poe, ppin, pointered, from>>

(* The rest of a question or a record, up to the next name, if there is so *)
(* much of it and room for it.                                             *)
CopyRest ==
    /\ phase = "rest"
    /\ \E g \in Gaps :
         IF pin + g > N \/ pout + g > size
         THEN phase' = "failed" /\ UNCHANGED <<pin, pout>>
         ELSE phase' = "begin" /\ pin' = pin + g /\ pout' = pout + g
    /\ UNCHANGED <<in, left, size, poe, ppin, pointered, from>>

Finish ==
    /\ phase = "begin" /\ ~More
    /\ phase' = "done"
    /\ size' = pout
    /\ UNCHANGED <<in, left, pin, pout, poe, ppin, pointered, from>>

Turn == FollowPointer \/ EndName \/ CopyLabel \/ RefuseName
Next == BeginName \/ Turn \/ CopyRest \/ Finish

Spec == Init /\ [][Next]_vars

(* codecMessage is not interrupted.                                        *)
Fairness == WF_vars(Turn)

-----------------------------------------------------------------------------
(* How long the name at an offset is, by what is known of the others, 0 if *)
(* there is none.                                                          *)
LengthIn(known, o) == IF o \in DOMAIN known THEN known[o] ELSE 0

(* What follows from that for each: a name is a label and a name, or where *)
(* a pointer leads.                                                        *)
Longer(m, known) ==
    [o \in 0 .. Bytes(m) - 1 |->
        LET rest == LengthIn(known, IF IsPointer(m, o) THEN Target(m, o)
                                    ELSE o + m[o] + 1)
        IN  IF IsPointer(m, o) THEN rest
            ELSE IF m[o] = 0 THEN 1
            ELSE IF rest = 0 THEN 0 ELSE rest + m[o] + 1]

(* The lengths of the names that take so many labels and pointers; those   *)
(* that end take no more than the message has bytes.                       *)
Lengths(m) ==
    LET known[s \in 0 .. Bytes(m) + 1] ==
            IF s = 0 THEN [o \in 0 .. Bytes(m) - 1 |-> 0]
            ELSE Longer(m, known[s - 1])
    IN  known
Length(m, o) == LengthIn(Lengths(m)[Bytes(m) + 1], o)

(* decompressName writes the name that is there, whole, and refuses only   *)
(* what is no name or longer than 256 bytes, wherever the pointers lead and*)
(* however much the names before it have grown.                            *)
NamesWhole ==
    LET length == Length(in, from.pin)
    IN  /\ phase = "rest" => pout - from.pout = length
        /\ phase = "refused" => length = 0 \/ length > NameMax

(* The output never overruns, whatever a name expands to, since it keeps   *)
(* room for the rest of the input; one growth is enough for the next name, *)
(* as the assertion of decompressName says.                                *)
RoomKept ==
    /\ pout <= size
    /\ phase = "name" => pout <= poe
    /\ Turns => poe <= size
    /\ phase \in {"begin", "rest"} => InLeft <= OutLeft
    /\ phase = "begin" => InLeft + NameMax <= OutLeft + Growth

(* Whether so many pointers in a row lead on within the message from an    *)
(* offset; when they are as many as there are bytes, they lead in a circle,*)
(* past no label.                                                          *)
LeadOn[k \in 0 .. N] ==
    [o \in 0 .. N - 1 |->
        \/ k = 0
        \/ /\ IsPointer(in, o) /\ Target(in, o) < N
           /\ LeadOn[k - 1][Target(in, o)]]
Circle == \E o \in 0 .. N - 1 : LeadOn[N][o]

(* The loop of decompressName ends, if only since a name that comes back to*)
(* itself fills the output, unless there is such a circle: the code does   *)
(* not notice that one.                                                    *)
EndsUnlessCircle == phase = "name" ~> phase # "name" \/ Circle
=============================================================================
