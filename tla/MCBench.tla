------------------------------ MODULE MCBench ------------------------------
(* Four profiles of three servers (p2 is a second entry of the first       *)
(* server) and three kinds of job.                                         *)
EXTENDS Bench

CONSTANTS p1, p2, p3, p4, s1, s2, s3

MCProfileList == <<p1, p2, p3, p4>>
MCServerOf == [p \in {p1, p2, p3, p4} |-> CASE p = p3 -> s2 [] p = p4 -> s3 [] OTHER -> s1]
All == {"ping", "youtube", "telegram", "ai"}
Some == {"ping", "youtube"}
World(first, second, third) == [s \in {s1, s2, s3} |-> CASE s = s1 -> first [] s = s2 -> second [] s = s3 -> third]
MCWorlds == {World(All, All, {}), World({}, Some, All), World(All, All, All)}
MCDeadChoices == {{}, {s2}}

Job(kind, target, required, failFast, availability, concurrency) ==
  [kind |-> kind, target |-> target, required |-> required, failFast |-> failFast,
   rejectNoPing |-> availability, availability |-> availability, concurrency |-> concurrency]

MCRequests ==
  {Job("search", 2, 2, TRUE, FALSE, 2), Job("checks", 0, 2, FALSE, TRUE, 1)}
=============================================================================
