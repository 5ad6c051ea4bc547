---------------------------- MODULE MCTrafficLog ----------------------------
(* Six lines: the domains a and b by turns, and one line without a domain. *)
EXTENDS TrafficLog

CONSTANTS a, b

MCDomainOf(n) == IF n = 3 THEN NoDomain ELSE IF n % 2 = 0 THEN a ELSE b
=============================================================================
