---------------------------- MODULE ProfileStore ----------------------------
(***************************************************************************)
(* What the profile list promises, without positions: a store of links     *)
(* with their groups, one of which may be active, and a core that serves a *)
(* link.  Module Profiles, where profiles are named by positions that      *)
(* shift, implements it.                                                   *)
(***************************************************************************)
CONSTANTS Links, Groups, NoLink

VARIABLES
  now,      \* the store in memory: profiles as {[raw, group]}, the active link
  saved,    \* the store a restart finds
  kept,     \* the stores undo can bring back
  serving   \* the link the core serves, or NoLink

vars == <<now, saved, kept, serving>>

Profiles == [raw: Links, group: Groups]
Stores == [profiles: SUBSET Profiles, active: Links \cup {NoLink}]
RawsIn(s) == {p.raw : p \in s.profiles}

(* A link is in the store once; what is active is in it.                   *)
WellFormed(s) ==
  /\ \A p, q \in s.profiles : p.raw = q.raw => p = q
  /\ s.active \in RawsIn(s) \cup {NoLink}

Init ==
  /\ now \in Stores /\ WellFormed(now) /\ saved = now /\ kept = {}
  /\ serving \in {now.active, NoLink}

(* A save works, fails, or fails after it took effect.                     *)
Saving == saved' \in {saved, now'}

(* Undo keeps what is replaced, and forgets what it likes.                 *)
Keeping == kept' \subseteq kept \cup {now}

(* Profiles come, go and change groups.  The active link stays active      *)
(* unless it goes; no other profile takes its place.                       *)
Changed(s) ==
  /\ s.profiles \subseteq Profiles /\ WellFormed(s)
  /\ s.active \in {now.active, NoLink}
  /\ s.active = NoLink => now.active = NoLink \/ now.active \notin RawsIn(s)

Change ==
  /\ Changed(now') /\ Saving /\ Keeping
  /\ serving' \in {serving, now'.active, NoLink}

(* A change that is refused because its save reports an error may have     *)
(* been saved.                                                             *)
Refuse == Changed(saved') /\ UNCHANGED <<now, kept, serving>>

(* A profile in the store is chosen, and served from then on.              *)
Choose(l) ==
  /\ l \in RawsIn(now) /\ now' = [now EXCEPT !.active = l]
  /\ serving' = l /\ Saving /\ UNCHANGED kept

(* One link is exchanged for a new one, active if the old one was; a core  *)
(* that serves the old one is given the new one.                           *)
Exchange(old, new) ==
  /\ \E p \in now.profiles :
       /\ p.raw = old /\ new \notin RawsIn(now)
       /\ now' = [profiles |-> (now.profiles \ {p}) \cup {[p EXCEPT !.raw = new]},
                  active |-> IF now.active = old THEN new ELSE now.active]
  /\ serving' \in {serving, now'.active}
  /\ now.active = old /\ serving = old => serving' = new
  /\ Saving /\ UNCHANGED kept

(* An earlier store comes back; nothing is served until it is asked for.   *)
Undo == now' \in kept /\ serving' = NoLink /\ Saving /\ kept' \subseteq kept

(* The core starts with the active link, or stops.                         *)
Serve ==
  /\ serving' \in {now.active, NoLink} /\ Saving /\ UNCHANGED <<now, kept>>

Restart == now' = saved /\ serving' = NoLink /\ kept' = {} /\ UNCHANGED saved

Next ==
  \/ Change \/ Refuse \/ Undo \/ Serve \/ Restart
  \/ \E l \in Links : Choose(l)
  \/ \E old, new \in Links : Exchange(old, new)

Spec == Init /\ [][Next]_vars
=============================================================================
