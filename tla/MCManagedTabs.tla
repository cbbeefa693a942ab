--------------------------- MODULE MCManagedTabs ---------------------------
(* ManagedTabs with six casts: who sends commands, and which ones.         *)
EXTENDS ManagedTabs, TLC

CONSTANTS a1, a2, t1, t2

\* Who sends what with t1 and t2, and what else distinguishes a behaviour.
Players(a, sendsA, b, sendsB, perAgent, legacy, restarts) ==
    [agentOf |-> (t1 :> a) @@ (t2 :> b), sends |-> (t1 :> sendsA) @@ (t2 :> sendsB),
     perAgent |-> perAgent, legacy |-> legacy, kills |-> restarts]

Ordinary == {"new", "drive", "cleanup"}

\* Two agents, one command each.
TwoAgents == Players(a1, Ordinary, a2, Ordinary, 1, 0, 0)

\* One command of an agent at a time, while the browser kills the worker.
Restarting == Players(a1, Ordinary, a1, {}, 1, 0, 2)

\* One agent that sends risky new_tab commands one after the other.
Repeating == Players(a1, {"ask", "recheck", "approved", "drive"}, a1, {}, 2, 0, 1)

\* One agent whose risky new_tab commands, confirmed, run together.
Retrying == Players(a1, {"approved"}, a1, {"approved"}, 2, 0, 0)

\* One agent, and the popup's button, with a tab of a version 1 ledger.
Cleaning == Players(a1, {"list", "new", "drive", "close", "cleanup"}, Popup, {"popup"}, 2, 1, 0)

\* One agent, and a client that has no identity.
Unnamed ==
    LET some == {"list", "new", "ask", "close", "cleanup"}
    IN  Players(a1, some, NoAgent, some, 1, 0, 1)

MCCasts == {TwoAgents, Restarting, Repeating, Retrying, Cleaning, Unnamed}
=============================================================================
