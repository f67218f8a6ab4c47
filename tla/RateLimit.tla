----------------------------- MODULE RateLimit -----------------------------
(***************************************************************************)
(* What the limiter of a Connect profile promises the operator of that     *)
(* Connect cluster: however many workers share it, a request passes only   *)
(* against a credit of one token, the credit starts at the burst and grows *)
(* by one unit per tick of time up to the burst, and nothing else adds to  *)
(* it.  In any stretch of t ticks at most Capacity + t units are spent.    *)
(***************************************************************************)
EXTENDS Integers

CONSTANTS Callers,    \* who shares the limiter
          Interval,   \* the units one request costs: the ticks per token
          Capacity    \* the units a full burst holds

VARIABLES credit,     \* the units left
          passed      \* how many requests each caller was let through

vars == <<credit, passed>>

Init == /\ credit = Capacity
        /\ passed = [c \in Callers |-> 0]

Take(c) == /\ credit >= Interval
           /\ credit' = credit - Interval
           /\ passed' = [passed EXCEPT ![c] = @ + 1]

Tick == /\ credit < Capacity
        /\ credit' = credit + 1
        /\ UNCHANGED passed

Next == (\E c \in Callers : Take(c)) \/ Tick

Spec == Init /\ [][Next]_vars
=============================================================================
