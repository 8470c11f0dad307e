----------------------------- MODULE RemoteCall -----------------------------
(***************************************************************************)
(* What a QDA exchange promises its caller.  Calls are made one at a time; *)
(* the device carries out each at most once, in the order they were made,  *)
(* perhaps after the caller was told of a failure; and a call succeeds     *)
(* only if the device carried it out, with the answer the device gave it.  *)
(***************************************************************************)
EXTENDS Naturals

VARIABLES
    call,       \* number of the last call made
    busy,       \* it has not returned
    executed,   \* the calls the device has carried out
    accepted    \* <<c, a>>: call c succeeded with the answer given to call a

vars == <<call, busy, executed, accepted>>

Init == call = 0 /\ busy = FALSE /\ executed = {} /\ accepted = {}

Begin ==
    /\ ~busy
    /\ call' = call + 1
    /\ busy' \in BOOLEAN
    /\ UNCHANGED <<executed, accepted>>

Execute(c) ==
    /\ \A e \in executed : e < c
    /\ executed' = executed \cup {c}
    /\ UNCHANGED <<call, busy, accepted>>

Succeed ==
    /\ busy /\ call \in executed
    /\ busy' = FALSE
    /\ accepted' = accepted \cup {<<call, call>>}
    /\ UNCHANGED <<call, executed>>

Fail == busy /\ busy' = FALSE /\ UNCHANGED <<call, executed, accepted>>

Next == Begin \/ (\E c \in 1..call : Execute(c)) \/ Succeed \/ Fail

Spec == Init /\ [][Next]_vars
=============================================================================
