--------------------------- MODULE MCProxyHealth ---------------------------
(* Two profiles, which the subscription delivers both, so that their order *)
(* does not matter, or one of them; a third link comes by an edit or an    *)
(* addition only.                                                          *)
EXTENDS ProxyHealth

CONSTANTS p, q, r

MCInitialLists == {<<p, q>>, <<p>>}
=============================================================================
