--------------------------- MODULE MCProxySession ---------------------------
(* Model checking of ProxySession: one client of the proxy, one lease.  Only  *)
(* the TCP server's closes may go unconfirmed.                                *)
EXTENDS ProxySession

MCProxyNext == ProxyNext /\ (transport = "unix" => UNCHANGED faults)

MCProxySpec == ProxyInit /\ [][MCProxyNext]_proxyVars /\ ProxyFairness
=============================================================================
