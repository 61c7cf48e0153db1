-------------------------------- MODULE Lane --------------------------------
(***************************************************************************)
(* What the S-lane promises to a program that uses it through Pipeline     *)
(* (pipeline.go, sservice.go): it takes envelopes one at a time, hands     *)
(* them to its sink in the order in which it took them, some at a time;    *)
(* FlushS returns after everything that was taken before the call has been *)
(* handed on; Stop hands on everything, and afterwards nothing.  SLane     *)
(* implements it, TFDProxy uses it.                                        *)
(***************************************************************************)
EXTENDS Integers, Sequences

CONSTANTS
    Envelopes,
    Callers       \* of FlushS

VARIABLES
    alog,         \* the envelopes the lane has taken
    handed,       \* how many of them the sink has
    stopped,      \* Stop has returned
    asked         \* FlushS: how many the lane had taken at the call, or -1

lane == <<alog, handed, stopped, asked>>

LaneInit ==
    /\ alog = <<>> /\ handed = 0 /\ stopped = FALSE
    /\ asked = [c \in Callers |-> -1]

\* Also after Stop, as long as the buffer has room.
Accept(e) ==
    /\ alog' = Append(alog, e)
    /\ UNCHANGED <<handed, stopped, asked>>

Hand(n) ==
    /\ ~stopped
    /\ n \in (handed + 1)..Len(alog)
    /\ handed' = n
    /\ UNCHANGED <<alog, stopped, asked>>

FlushBegin(c) ==
    /\ asked[c] = -1
    /\ asked' = [asked EXCEPT ![c] = Len(alog)]
    /\ UNCHANGED <<alog, handed, stopped>>

FlushEnd(c) ==
    /\ ~stopped
    /\ asked[c] # -1 /\ handed >= asked[c]
    /\ asked' = [asked EXCEPT ![c] = -1]
    /\ UNCHANGED <<alog, handed, stopped>>

LaneStop ==
    /\ ~stopped
    /\ handed' = Len(alog)
    /\ stopped' = TRUE
    /\ UNCHANGED <<alog, asked>>

LaneNext ==
    \/ \E e \in Envelopes : Accept(e)
    \/ \E n \in 1..Len(alog) : Hand(n)
    \/ \E c \in Callers : FlushBegin(c) \/ FlushEnd(c)
    \/ LaneStop

LaneSpec == LaneInit /\ [][LaneNext]_lane
=============================================================================
