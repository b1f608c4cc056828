---------------------------- MODULE MCHawkAuth ----------------------------
(* HawkAuth instantiated for TLC: one device, its stored secret and a     *)
(* second one, two methods, two paths, an optional query, a lower- and   *)
(* an upper-case Host header with and without a port, both schemes.      *)
EXTENDS HawkAuth, TLC

CONSTANTS d1, s1, s2

MCSecretOf == [d \in {d1} |-> s1]

MCMethods == {"get", "post"}
MCPaths == {<<"p">>, <<"r">>}
MCQueries == {<<>>, <<"q">>}
MCHostHeaders == {<<"h">>, <<"H", ":", "8">>}
MCCTypes == {<<>>, <<"json", ";", "cs">>}
MCBodies == {<<>>, <<"a">>}
MCExtras == {<<>>, <<"x">>}
=============================================================================
