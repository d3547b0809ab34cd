--------------------------- MODULE MCProxyThreads ---------------------------
(* Small instances of ProxyThreads for TLC.                                *)
EXTENDS ProxyThreads, TLC

\* The threads other than Owner are alike.
Others == Permutations(Threads \ {Owner})
=============================================================================
