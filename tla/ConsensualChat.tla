---------------------------- MODULE ConsensualChat ----------------------------
(***************************************************************************)
(* What the one-to-one chat promises ("Phase 24A" of backend/api/          *)
(* routes.py), without its calls and pending invites: threads open and     *)
(* messages arrive only between nodes that both agreed, what is kept as    *)
(* sent has arrived, and a thread goes only together with its messages,    *)
(* on one side at a time.                                                  *)
(***************************************************************************)
CONSTANTS Nodes, Messages

VARIABLES
    agreed,     \* <<n, m>>: n is willing to talk to m, as it once showed
    open,       \* <<n, m>>: n shows its thread with m as accepted
    log,        \* log[n][m]: the messages n keeps of its thread with m
    arrived     \* <<n, m, b>>: the message b of n has been stored by m

vars == <<agreed, open, log, arrived>>

BothAgreed(n, m) == {<<n, m>>, <<m, n>>} \subseteq agreed

Keep(n, m, direction, b) == log' = [log EXCEPT ![n][m] = @ \cup {<<direction, b>>}]

Init == agreed = {} /\ open = {} /\ log = [n \in Nodes |-> [m \in Nodes |-> {}]] /\ arrived = {}

Agree(n, m) ==
    /\ agreed' = agreed \cup {<<n, m>>}
    /\ UNCHANGED <<open, log, arrived>>

Open(n, m) ==
    /\ BothAgreed(n, m)
    /\ open' = open \cup {<<n, m>>}
    /\ UNCHANGED <<agreed, log, arrived>>

Arrive(n, m, b) ==
    /\ BothAgreed(n, m)
    /\ Keep(m, n, "received", b)
    /\ arrived' = arrived \cup {<<n, m, b>>}
    /\ UNCHANGED <<agreed, open>>

KeepSent(n, m, b) ==
    /\ <<n, m, b>> \in arrived
    /\ Keep(n, m, "sent", b)
    /\ UNCHANGED <<agreed, open, arrived>>

Remove(n, m) ==
    /\ open' = open \ {<<n, m>>}
    /\ log' = [log EXCEPT ![n][m] = {}]
    /\ UNCHANGED <<agreed, arrived>>

Next ==
    \E n, m \in Nodes :
        \/ Agree(n, m) \/ Open(n, m) \/ Remove(n, m)
        \/ \E b \in Messages : Arrive(n, m, b) \/ KeepSent(n, m, b)

Spec == Init /\ [][Next]_vars
==============================================================================
