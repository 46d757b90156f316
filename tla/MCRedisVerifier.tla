--------------------------- MODULE MCRedisVerifier ---------------------------
(* Constants for the runs of RedisVerifier.                                  *)
EXTENDS RedisVerifier, TLC

CONSTANTS r1, r2, k1, k2

MCLifetimes == {0, 1, 3}

Separate == r1 :> k1 @@ r2 :> k2
Shared == r1 :> k1 @@ r2 :> k1

Deployed(connOf, updaters, reconnects) ==
    [connOf |-> connOf, updaters |-> updaters, reconnects |-> reconnects]

\* Two processes whose requests never meet on a connection, and one process
\* that serves everything on a connection that may drop.
ReplicasOrOneProcess == {Deployed(Separate, {}, FALSE),
                         Deployed(Shared, Updater, TRUE)}
OneConnection == {Deployed(Shared, {}, FALSE)}
=============================================================================
