---------------------------- MODULE RateContract ----------------------------
(***************************************************************************)
(* What a rate limiter promises each client, whoever else is asking: a     *)
(* credit that starts full, grows with time up to the burst, pays for      *)
(* every event allowed, and is never forgotten.  Nothing is stored per     *)
(* client and nothing is evicted.                                          *)
(***************************************************************************)
EXTENDS Integers

CONSTANTS Clients, Burst, Cost, Refill, NoReply

VARIABLES
    credit,   \* units each client may still spend
    reply     \* last answer since the clock moved: <<client, allowed?>>

rvars == <<credit, reply>>

RInit == credit = [c \in Clients |-> Burst] /\ reply = NoReply

Grant(c) ==
    /\ credit[c] >= Cost
    /\ credit' = [credit EXCEPT ![c] = @ - Cost]
    /\ reply' = <<c, TRUE>>

Refuse(c) ==
    /\ credit[c] < Cost
    /\ reply' = <<c, FALSE>>
    /\ UNCHANGED credit

Earn ==
    /\ credit' = [c \in Clients |->
                    IF credit[c] + Refill <= Burst
                    THEN credit[c] + Refill ELSE Burst]
    /\ reply' = NoReply

RNext == Earn \/ \E c \in Clients : Grant(c) \/ Refuse(c)

RSpec == RInit /\ [][RNext]_rvars
=============================================================================
