------------------------------ MODULE MCDaemon ------------------------------
(* Small instances of Daemon for TLC. *)
EXTENDS DaemonComments, TLC

CONSTANTS s1, s2, o1, o2, user, c1, c2

At(options, server) ==
    [options |-> options, server |-> server, cypherplay |-> FALSE, fastest |-> NoServer, login |-> user]

OneServer == {At(o1, s1)}

\* One location, and another one that needs a reconnect.
TwoServers == {At(o1, s1), At(o2, s2)}

OneClient == {c1}
TwoClients == {c1, c2}

\* Which client is which makes no difference.
Symmetric == Permutations(TwoClients)

\* _to_notify.state happens to be zero.
Zeroed == {{}}

\* Whatever was in that memory.
AnyFlags == SUBSET StateFlags
=============================================================================
