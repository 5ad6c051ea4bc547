------------------------------- MODULE MCPool -------------------------------
(* Two servers, in one or the other order or alone.                        *)
EXTENDS Pool

CONSTANTS a, b

MCMemberships == {<<>>, <<a, b>>, <<b>>}
=============================================================================
