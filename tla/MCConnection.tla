---------------------------- MODULE MCConnection ----------------------------
(* Small instances of Connection for TLC. *)
EXTENDS ConnectionComments

CONSTANTS s1, s2, o1, o2, user

At(options, server) ==
    [options |-> options, server |-> server, cypherplay |-> FALSE, fastest |-> NoServer, login |-> user]

\* One location only.
OneServer == {At(o1, s1)}

\* One location, and another one that needs a reconnect.
TwoServers == {At(o1, s1), At(o2, s2)}

\* A location, one that is not in g_config.locations, and CypherPlay on the first one
\* with a faster server.
Locations ==
    {At(o1, s1), At(o2, NoServer), [At(o1, s1) EXCEPT !.cypherplay = TRUE, !.fastest = s2]}
=============================================================================
