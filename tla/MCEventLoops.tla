---------------------------- MODULE MCEventLoops ----------------------------
(* Instances of EventLoops for TLC: channels of one to three slots.         *)
EXTENDS EventLoops, TLC

CONSTANTS t1, t2, t3, t4

AllTasks == (t1 :> "request_build") @@ (t2 :> "add_authorized_node") @@ (t3 :> "boot")
            @@ (t4 :> "poll_succeeded")
ThreeTasks == (t1 :> "boot") @@ (t2 :> "add_authorized_node") @@ (t3 :> "poll_succeeded")

BootOnly == t1 :> "boot"

\* Room for every message of a peer in main's channel, and for every event of
\* the build loop.
Roomy == [main |-> 2, blockchain |-> 1, build |-> 4, p2p |-> 1]
Tight == [main |-> 1, blockchain |-> 1, build |-> 1, p2p |-> 1]
=============================================================================
