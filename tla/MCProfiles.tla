----------------------------- MODULE MCProfiles -----------------------------
(* Links a and a2 name one server.  One subscription; its answers keep,    *)
(* exchange or duplicate profiles.  State.json has at first a manual       *)
(* profile and the two of the subscription, with or without a fixed route. *)
EXTENDS Profiles

CONSTANTS a, a2, b, c, sa, sb, sc, u

MCServerOf == [l \in {a, a2, b, c} |-> CASE l = b -> sb [] l = c -> sc [] OTHER -> sa]
MCDelivered == [s \in {u} |-> {<<a>>, <<c, b>>, <<a2, c>>}]

Entry(link, group) == [raw |-> link, group |-> group]
State(active, dead, pinned) ==
  [list |-> <<Entry(a, Ungrouped), Entry(b, u), Entry(c, u)>>,
   active |-> active, dead |-> dead, pinned |-> pinned, subs |-> {u}]
MCInitialStates == {State(1, {}, {sb}), State(3, {sb}, {})}
=============================================================================
