--------------------------- MODULE FirewallProofs ---------------------------
(***************************************************************************)
(* Proof about Firewall: for any ports, any number of events and any       *)
(* interleaving of the three writers, the rules in the router are those of *)
(* the firewall the daemon knows, except in a table two writers have       *)
(* disturbed until that table is built anew.                               *)
(*                                                                         *)
(* The programs a writer runs are sequences of commands; what is proved of *)
(* them once is the order of their commands (Legal, Follows).  What a      *)
(* table holds is then a function of the next command of its writer        *)
(* (NatAt, MangleAt), and each step is one lemma.                          *)
(***************************************************************************)
EXTENDS Firewall, SequenceTheorems, TLAPS

Installing == {"flush", "bypass", "intercept", "jump", "udp"}
Reporting == {"hook", "ready"}
Removing == {"unhook", "unjump", "delete", "clear udp"}
Commands == Installing \cup Reporting \cup Removing \cup {"probe"}

(* The commands that may follow a command in a program.                    *)
Follows(c, tproxy) ==
  CASE c = "flush" -> {"bypass"}
    [] c = "bypass" -> {"intercept"}
    [] c = "intercept" -> {"jump"}
    [] c = "jump" -> IF tproxy THEN {"udp"} ELSE {"hook", "ready", "end"}
    [] c = "udp" -> IF tproxy THEN {"hook", "ready", "end"} ELSE {}
    [] c = "hook" -> {"ready"}
    [] c = "ready" -> {"end"}
    [] c = "unhook" -> {"unjump"}
    [] c = "unjump" -> {"delete"}
    [] c = "delete" -> {"clear udp", "probe", "end"}
    [] c = "clear udp" -> {"probe", "end"}
    [] OTHER -> {"end"}

At(run, i) == IF i <= Len(run) THEN run[i] ELSE "end"
Legal(run, tproxy) ==
  /\ run \in Seq(Commands)
  /\ \A i \in 1..Len(run) : At(run, i + 1) \in Follows(run[i], tproxy)

(* What is left of a legal program after its first command is legal.       *)
LEMMA TailLegal ==
  ASSUME NEW run, NEW tproxy, Legal(run, tproxy), run # <<>>
  PROVE  /\ Legal(Tail(run), tproxy)
         /\ Len(run) \in Nat \ {0} /\ Len(Tail(run)) = Len(run) - 1
         /\ \A i \in 1..Len(Tail(run)) : Tail(run)[i] = run[i + 1]
         /\ \A i \in Nat \ {0} : At(Tail(run), i) = At(run, i + 1)
         /\ Head(run) = run[1] /\ Head(run) \in Commands
         /\ At(run, 1) = Head(run) /\ At(Tail(run), 1) \in Follows(Head(run), tproxy)
<1>1. run \in Seq(Commands) /\ Len(run) \in Nat \ {0} /\ Head(run) = run[1] /\ run[1] \in Commands
  BY DEF Legal
<1>2. Tail(run) \in Seq(Commands) /\ Len(Tail(run)) = Len(run) - 1
      /\ \A i \in 1..Len(Tail(run)) : Tail(run)[i] = run[i + 1]
  BY <1>1
<1>3. \A i \in Nat \ {0} : At(Tail(run), i) = At(run, i + 1)
  BY <1>1, <1>2 DEF At
<1>4. \A i \in 1..Len(Tail(run)) : At(Tail(run), i + 1) \in Follows(Tail(run)[i], tproxy)
  <2> SUFFICES ASSUME NEW i \in 1..Len(Tail(run)) PROVE At(Tail(run), i + 1) \in Follows(Tail(run)[i], tproxy)
    OBVIOUS
  <2>1. i + 1 \in 1..Len(run) /\ i + 1 \in Nat \ {0} /\ (i + 1) + 1 = i + 2
    BY <1>1, <1>2
  <2>2. At(Tail(run), i + 1) = At(run, (i + 1) + 1) /\ Tail(run)[i] = run[i + 1]
    BY <1>2, <1>3, <2>1
  <2>3. At(run, (i + 1) + 1) \in Follows(run[i + 1], tproxy)
    BY <2>1 DEF Legal
  <2> QED
    BY <2>2, <2>3
<1>5. At(run, 1) = Head(run) /\ At(Tail(run), 1) \in Follows(Head(run), tproxy)
  <2>1. At(Tail(run), 1) = At(run, 1 + 1) /\ 1 \in 1..Len(run)
    BY <1>1, <1>3
  <2> QED
    BY <1>1, <2>1 DEF Legal, At
<1> QED
  BY <1>1, <1>2, <1>3, <1>4, <1>5 DEF Legal

(* What is known of two programs joined: each position is one of the       *)
(* first or one of the second.                                             *)
Joined(run, s, t, tproxy) ==
  /\ Legal(run, tproxy) /\ run # <<>> /\ At(run, 1) = s[1]
  /\ \A i \in 1..Len(run) :
       \/ /\ i \in 1..Len(s) /\ run[i] = s[i]
          /\ i < Len(s) => At(run, i + 1) = s[i + 1]
          /\ i = Len(s) => At(run, i + 1) = At(t, 1)
       \/ /\ i - Len(s) \in 1..Len(t) /\ run[i] = t[i - Len(s)]
          /\ At(run, i + 1) = At(t, (i - Len(s)) + 1)
  /\ \A j \in 1..Len(t) : \E i \in 1..Len(run) : run[i] = t[j]
Joins(s, t, tproxy) ==
  /\ s \in Seq(Commands) /\ s # <<>> /\ Legal(t, tproxy)
  /\ \A i \in 1..(Len(s) - 1) : s[i + 1] \in Follows(s[i], tproxy)
  /\ At(t, 1) \in Follows(s[Len(s)], tproxy)

(* Programs are joined where the second may follow the first.              *)
LEMMA JoinLegal ==
  ASSUME NEW s, NEW t, NEW tproxy, Joins(s, t, tproxy)
  PROVE  Joined(s \o t, s, t, tproxy)
<1> USE DEF Joins
<1>1. /\ t \in Seq(Commands) /\ Len(s) \in Nat \ {0} /\ Len(t) \in Nat
      /\ s \o t \in Seq(Commands) /\ Len(s \o t) = Len(s) + Len(t)
      /\ \A i \in 1..Len(s) : (s \o t)[i] = s[i]
      /\ \A i \in 1..Len(t) : (s \o t)[i + Len(s)] = t[i]
  <2>1. t \in Seq(Commands)
    BY DEF Legal
  <2>2. Len(s) \in Nat \ {0} /\ Len(t) \in Nat
    BY <2>1
  <2> QED
    BY <2>1, <2>2, ConcatProperties
<1>2. \A i \in 1..Len(s) :
        /\ i < Len(s) => At(s \o t, i + 1) = s[i + 1]
        /\ i = Len(s) => At(s \o t, i + 1) = At(t, 1)
  <2> SUFFICES ASSUME NEW i \in 1..Len(s)
               PROVE  /\ i < Len(s) => At(s \o t, i + 1) = s[i + 1]
                      /\ i = Len(s) => At(s \o t, i + 1) = At(t, 1)
    OBVIOUS
  <2>1. ASSUME i < Len(s) PROVE At(s \o t, i + 1) = s[i + 1]
    <3>1. i + 1 \in 1..Len(s)
      BY <1>1, <2>1
    <3> QED
      BY <1>1, <3>1 DEF At
  <2>2. ASSUME i = Len(s) PROVE At(s \o t, i + 1) = At(t, 1)
    <3>1. CASE Len(t) = 0
      BY <1>1, <2>2, <3>1 DEF At
    <3>2. CASE Len(t) # 0
      <4>1. 1 \in 1..Len(t) /\ (s \o t)[1 + Len(s)] = t[1]
        BY <1>1, <3>2
      <4> QED
        BY <1>1, <2>2, <4>1 DEF At
    <3> QED
      BY <3>1, <3>2
  <2> QED
    BY <2>1, <2>2
<1>3. ASSUME NEW i \in 1..Len(s \o t), i > Len(s)
      PROVE  /\ i - Len(s) \in 1..Len(t) /\ (s \o t)[i] = t[i - Len(s)]
             /\ At(s \o t, i + 1) = At(t, (i - Len(s)) + 1)
  <2>0. i \in Nat /\ i <= Len(s) + Len(t) /\ Len(s) \in Nat /\ Len(t) \in Nat
        /\ Len(s) + Len(t) \in Nat
    BY <1>1
  <2>1. i - Len(s) \in 1..Len(t) /\ (i - Len(s)) + Len(s) = i
    BY <1>3, <2>0
  <2>2. (s \o t)[i] = t[i - Len(s)]
    BY <1>1, <2>1
  <2>3. CASE i = Len(s) + Len(t)
    BY <1>1, <2>1, <2>3 DEF At
  <2>4. CASE i < Len(s) + Len(t)
    <3>1. (i - Len(s)) + 1 \in 1..Len(t) /\ ((i - Len(s)) + 1) + Len(s) = i + 1 /\ i + 1 <= Len(s \o t)
      BY <1>1, <2>1, <2>4
    <3>2. (s \o t)[i + 1] = t[(i - Len(s)) + 1]
      BY <1>1, <3>1
    <3>3. At(s \o t, i + 1) = (s \o t)[i + 1]
      BY <3>1 DEF At
    <3>4. At(t, (i - Len(s)) + 1) = t[(i - Len(s)) + 1]
      BY <3>1 DEF At
    <3> QED
      BY <2>1, <2>2, <3>2, <3>3, <3>4
  <2>5. i = Len(s) + Len(t) \/ i < Len(s) + Len(t)
    <3>1. \A a \in Nat, b \in Nat : a <= b => a = b \/ a < b
      OBVIOUS
    <3> QED
      BY <2>0, <3>1, Zenon
  <2> QED
    BY <2>1, <2>2, <2>3, <2>4, <2>5
<1>4. \A i \in 1..Len(s \o t) : At(s \o t, i + 1) \in Follows((s \o t)[i], tproxy)
  <2> SUFFICES ASSUME NEW i \in 1..Len(s \o t)
               PROVE  At(s \o t, i + 1) \in Follows((s \o t)[i], tproxy)
    OBVIOUS
  <2>1. CASE i < Len(s)
    <3>1. i \in 1..(Len(s) - 1) /\ i \in 1..Len(s)
      BY <1>1, <2>1
    <3> QED
      BY <1>1, <1>2, <2>1, <3>1
  <2>2. CASE i = Len(s)
    BY <1>1, <1>2, <2>2
  <2>3. CASE i > Len(s)
    BY <1>3, <2>3 DEF Legal
  <2>4. i < Len(s) \/ i = Len(s) \/ i > Len(s)
    BY <1>1
  <2> QED
    BY <2>1, <2>2, <2>3, <2>4
<1>5. s \o t # <<>> /\ At(s \o t, 1) = s[1]
  <2>1. 1 \in 1..Len(s) /\ 1 <= Len(s \o t)
    BY <1>1
  <2> QED
    BY <1>1, <2>1 DEF At
<1>6. Legal(s \o t, tproxy)
  BY <1>1, <1>4 DEF Legal
<1>7. \A i \in 1..Len(s \o t) : i \in 1..Len(s) \/ i > Len(s)
  BY <1>1
<1>8. \A j \in 1..Len(t) : \E i \in 1..Len(s \o t) : (s \o t)[i] = t[j]
  <2>1. \A j \in 1..Len(t) : j + Len(s) \in 1..Len(s \o t)
    BY <1>1
  <2> QED
    BY <1>1, <2>1
<1> QED
  BY <1>1, <1>2, <1>3, <1>5, <1>6, <1>7, <1>8 DEF Joined

(* A program of one command.                                               *)
LEMMA OneLegal ==
  ASSUME NEW c \in Commands, NEW tproxy, "end" \in Follows(c, tproxy)
  PROVE  /\ Legal(<<c>>, tproxy) /\ At(<<c>>, 1) = c
         /\ \A i \in 1..Len(<<c>>) : i = 1 /\ <<c>>[i] = c /\ At(<<c>>, i + 1) = "end"
<1>1. <<c>> \in Seq(Commands) /\ Len(<<c>>) = 1 /\ <<c>>[1] = c
  OBVIOUS
<1>2. \A i \in 1..Len(<<c>>) : i = 1
  BY <1>1
<1>3. At(<<c>>, 1) = c /\ At(<<c>>, 1 + 1) = "end"
  BY <1>1 DEF At
<1> QED
  BY <1>1, <1>2, <1>3 DEF Legal

(* A writer with nothing to do has a legal program.                        *)
LEMMA NoneLegal ==
  ASSUME NEW tproxy
  PROVE  Legal(<<>>, tproxy) /\ At(<<>>, 1) = "end" /\ Len(<<>>) = 0
BY DEF Legal, At

(* The rules of the nat table, before those of the mangle table.           *)
NatRules == <<"flush", "bypass", "intercept", "jump">>
(* The rules of the nat table are in a legal order.                        *)
LEMMA NatRulesFacts ==
  /\ NatRules \in Seq(Commands) /\ NatRules # <<>> /\ Len(NatRules) = 4
  /\ NatRules[1] = "flush" /\ NatRules[2] = "bypass" /\ NatRules[3] = "intercept" /\ NatRules[4] = "jump"
  /\ \A tproxy : \A i \in 1..(Len(NatRules) - 1) : NatRules[i + 1] \in Follows(NatRules[i], tproxy)
<1>1. /\ NatRules \in Seq(Commands) /\ NatRules # <<>> /\ Len(NatRules) = 4
      /\ NatRules[1] = "flush" /\ NatRules[2] = "bypass" /\ NatRules[3] = "intercept" /\ NatRules[4] = "jump"
  BY DEF NatRules, Commands, Installing
<1>2. ASSUME NEW tproxy, NEW i \in 1..(Len(NatRules) - 1)
      PROVE  NatRules[i + 1] \in Follows(NatRules[i], tproxy)
  <2>1. i = 1 \/ i = 2 \/ i = 3
    BY <1>1
  <2>2. NatRules[1 + 1] = "bypass" /\ NatRules[2 + 1] = "intercept" /\ NatRules[3 + 1] = "jump"
    BY <1>1
  <2> HIDE DEF NatRules
  <2> QED
    BY <1>1, <2>1, <2>2 DEF Follows
<1> QED
  BY <1>1, <1>2

(* With TPROXY the command for the mangle table follows.                   *)
AllRules == <<"flush", "bypass", "intercept", "jump", "udp">>
(* The rules of both tables are in a legal order.                          *)
LEMMA AllRulesFacts ==
  /\ AllRules \in Seq(Commands) /\ AllRules # <<>> /\ Len(AllRules) = 5
  /\ AllRules[1] = "flush" /\ AllRules[2] = "bypass" /\ AllRules[3] = "intercept"
  /\ AllRules[4] = "jump" /\ AllRules[5] = "udp"
  /\ \A i \in 1..(Len(AllRules) - 1) : AllRules[i + 1] \in Follows(AllRules[i], TRUE)
  /\ AllRules = NatRules \o <<"udp">>
<1>1. /\ AllRules \in Seq(Commands) /\ AllRules # <<>> /\ Len(AllRules) = 5
      /\ AllRules[1] = "flush" /\ AllRules[2] = "bypass" /\ AllRules[3] = "intercept"
      /\ AllRules[4] = "jump" /\ AllRules[5] = "udp"
  BY DEF AllRules, Commands, Installing
<1>2. ASSUME NEW i \in 1..(Len(AllRules) - 1)
      PROVE  AllRules[i + 1] \in Follows(AllRules[i], TRUE)
  <2>1. i = 1 \/ i = 2 \/ i = 3 \/ i = 4
    BY <1>1
  <2>2. /\ AllRules[1 + 1] = "bypass" /\ AllRules[2 + 1] = "intercept"
        /\ AllRules[3 + 1] = "jump" /\ AllRules[4 + 1] = "udp"
    BY <1>1
  <2> QED
    BY <1>1, <2>1, <2>2 DEF Follows
<1>3. AllRules = NatRules \o <<"udp">>
  <2> DEFINE t == <<"udp">>
  <2>1. /\ t \in Seq(Commands) /\ Len(t) = 1 /\ t[1] = "udp"
        /\ NatRules \in Seq(Commands) /\ Len(NatRules) = 4
    BY NatRulesFacts DEF Commands, Installing
  <2> HIDE DEF t
  <2>2. /\ NatRules \o t \in Seq(Commands) /\ Len(NatRules \o t) = Len(NatRules) + Len(t)
        /\ \A i \in 1..Len(NatRules) : (NatRules \o t)[i] = NatRules[i]
        /\ (NatRules \o t)[5] = t[1]
    <3>1. NatRules \o t \in Seq(Commands) /\ Len(NatRules \o t) = Len(NatRules) + Len(t)
      BY <2>1, ConcatProperties
    <3>2. \A i \in 1..(Len(NatRules) + Len(t)) :
            (NatRules \o t)[i] = IF i <= Len(NatRules) THEN NatRules[i] ELSE t[i - Len(NatRules)]
      BY <2>1, ConcatProperties
    <3>3. ASSUME NEW i \in 1..4 PROVE (NatRules \o t)[i] = NatRules[i]
      <4>1. i \in 1..(Len(NatRules) + Len(t)) /\ i <= Len(NatRules)
        BY <2>1
      <4> QED
        BY <3>2, <4>1
    <3>4. \A i \in 1..4 : (NatRules \o t)[i] = NatRules[i]
      BY <3>3
    <3>5. (NatRules \o t)[5] = t[5 - Len(NatRules)]
      <4>1. 5 \in 1..(Len(NatRules) + Len(t)) /\ ~(5 <= Len(NatRules))
        BY <2>1
      <4> QED
        BY <3>2, <4>1
    <3>6. 5 - 4 = 1
      OBVIOUS
    <3> QED
      BY <2>1, <3>1, <3>4, <3>5, <3>6
  <2>3. \A i \in 1..5 : i = 1 \/ i = 2 \/ i = 3 \/ i = 4 \/ i = 5
    OBVIOUS
  <2>4. (NatRules \o t)[5] = "udp" /\ Len(NatRules \o t) = 5
    BY <2>1, <2>2
  <2>5. \A i \in 1..5 : (NatRules \o t)[i] = AllRules[i]
    <3>1. 1 \in 1..4 /\ 2 \in 1..4 /\ 3 \in 1..4 /\ 4 \in 1..4
      OBVIOUS
    <3> QED
      BY <1>1, <2>1, <2>2, <2>3, <2>4, <3>1, NatRulesFacts
  <2>6. AllRules = NatRules \o t
    BY <1>1, <2>2, <2>4, <2>5, SeqEqual
  <2> QED
    BY <2>6 DEF t
<1> QED
  BY <1>1, <1>2, <1>3

(* What a program installs: rules, then what a start reports of them.      *)
LEMMA InstallationLegal ==
  ASSUME NEW tproxy \in BOOLEAN, NEW rest, Legal(rest, tproxy),
         At(rest, 1) \in {"hook", "ready", "end"}
  PROVE  /\ Legal(Installation(tproxy) \o rest, tproxy)
         /\ Installation(tproxy) \o rest # <<>> /\ At(Installation(tproxy) \o rest, 1) = "flush"
         /\ \A i \in 1..Len(Installation(tproxy) \o rest) :
              \/ /\ (Installation(tproxy) \o rest)[i] \in Installing
                 /\ At(Installation(tproxy) \o rest, i + 1) \in Installing \cup {At(rest, 1)}
              \/ \E j \in 1..Len(rest) : /\ (Installation(tproxy) \o rest)[i] = rest[j]
                                         /\ At(Installation(tproxy) \o rest, i + 1) = At(rest, j + 1)
         /\ \A j \in 1..Len(rest) : \E i \in 1..Len(Installation(tproxy) \o rest) :
              (Installation(tproxy) \o rest)[i] = rest[j]
<1>1. CASE tproxy = FALSE
  <2>1. Installation(tproxy) = NatRules
    <3>1. NatRules \o <<>> = NatRules
      BY NatRulesFacts, ConcatEmptySeq
    <3> QED
      BY <1>1, <3>1 DEF Installation, UdpRules, NatRules
  <2>2. At(rest, 1) \in Follows(NatRules[Len(NatRules)], tproxy)
    BY <1>1, NatRulesFacts DEF Follows
  <2>3. \A i \in 1..Len(NatRules) : NatRules[i] \in Installing /\ (i < Len(NatRules) => NatRules[i + 1] \in Installing)
    <3>1. \A i \in 1..4 : (i = 1 \/ i = 2 \/ i = 3 \/ i = 4) /\ (i < 4 => i + 1 \in 1..4)
      OBVIOUS
    <3>2. \A i \in 1..4 : NatRules[i] \in Installing
      BY <3>1, NatRulesFacts DEF Installing
    <3> QED
      BY <3>1, <3>2, NatRulesFacts
  <2>4. \A i \in 1..Len(NatRules) : i < Len(NatRules) \/ i = Len(NatRules)
    BY NatRulesFacts
  <2>5. Joined(NatRules \o rest, NatRules, rest, tproxy)
    BY <2>2, NatRulesFacts, JoinLegal DEF Joins
  <2> QED
    BY <2>1, <2>3, <2>4, <2>5, NatRulesFacts DEF Joined
<1>2. CASE tproxy = TRUE
  <2>1. Installation(tproxy) = AllRules
    BY <1>2, AllRulesFacts DEF Installation, UdpRules, NatRules
  <2>2. At(rest, 1) \in Follows(AllRules[Len(AllRules)], tproxy)
    BY <1>2, AllRulesFacts DEF Follows
  <2>3. \A i \in 1..Len(AllRules) : AllRules[i] \in Installing /\ (i < Len(AllRules) => AllRules[i + 1] \in Installing)
    <3>1. \A i \in 1..5 : (i = 1 \/ i = 2 \/ i = 3 \/ i = 4 \/ i = 5) /\ (i < 5 => i + 1 \in 1..5)
      OBVIOUS
    <3>2. \A i \in 1..5 : AllRules[i] \in Installing
      BY <3>1, AllRulesFacts DEF Installing
    <3> QED
      BY <3>1, <3>2, AllRulesFacts
  <2>4. \A i \in 1..Len(AllRules) : i < Len(AllRules) \/ i = Len(AllRules)
    BY AllRulesFacts
  <2>5. Joined(AllRules \o rest, AllRules, rest, tproxy)
    BY <1>2, <2>2, AllRulesFacts, JoinLegal DEF Joins
  <2>6. \A i \in 1..Len(AllRules \o rest) :
          \/ /\ (AllRules \o rest)[i] \in Installing
             /\ At(AllRules \o rest, i + 1) \in Installing \cup {At(rest, 1)}
          \/ \E j \in 1..Len(rest) : /\ (AllRules \o rest)[i] = rest[j]
                                     /\ At(AllRules \o rest, i + 1) = At(rest, j + 1)
    BY <2>3, <2>4, <2>5 DEF Joined
  <2>7. /\ Legal(AllRules \o rest, tproxy) /\ AllRules \o rest # <<>>
        /\ At(AllRules \o rest, 1) = "flush"
        /\ \A j \in 1..Len(rest) : \E i \in 1..Len(AllRules \o rest) : (AllRules \o rest)[i] = rest[j]
    BY <2>5, AllRulesFacts DEF Joined
  <2> QED
    BY <2>1, <2>6, <2>7
<1> QED
  BY <1>1, <1>2

(* A removal, of the mangle table only if there is something to remove,    *)
(* ends with one of the last commands.                                     *)
Removal(run, tproxy, clears, lasts) ==
  /\ Legal(run, tproxy) /\ run # <<>>
  /\ \A i \in 1..Len(run) :
       /\ run[i] \in Removing \cup {"probe"}
       /\ run[i] = "delete" => (At(run, i + 1) = "clear udp" <=> clears)
       /\ run[i] = "clear udp" => clears
       /\ At(run, i + 1) = "end" => run[i] \in lasts

Unchained == <<"unhook", "unjump", "delete">>

(* The commands that take the nat table down are in a legal order.         *)
LEMMA UnchainedFacts ==
  /\ Unchained \in Seq(Commands) /\ Unchained # <<>> /\ Len(Unchained) = 3
  /\ Unchained[1] = "unhook" /\ Unchained[2] = "unjump" /\ Unchained[3] = "delete"
  /\ \A tproxy : \A i \in 1..(Len(Unchained) - 1) : Unchained[i + 1] \in Follows(Unchained[i], tproxy)
<1>1. /\ Unchained \in Seq(Commands) /\ Unchained # <<>> /\ Len(Unchained) = 3
      /\ Unchained[1] = "unhook" /\ Unchained[2] = "unjump" /\ Unchained[3] = "delete"
  BY DEF Unchained, Commands, Removing
<1>2. ASSUME NEW tproxy, NEW i \in 1..(Len(Unchained) - 1)
      PROVE  Unchained[i + 1] \in Follows(Unchained[i], tproxy)
  <2>1. i = 1 \/ i = 2
    BY <1>1
  <2>2. Unchained[1 + 1] = "unjump" /\ Unchained[2 + 1] = "delete"
    BY <1>1
  <2> QED
    BY <1>1, <2>1, <2>2 DEF Follows
<1> QED
  BY <1>1, <1>2

(* What a stop runs.                                                       *)
LEMMA StopLegal ==
  ASSUME NEW clears \in BOOLEAN, NEW tproxy
  PROVE  Removal(Stop(clears), tproxy, clears, {"delete", "clear udp"}) /\ At(Stop(clears), 1) = "unhook"
<1> DEFINE rest == IF clears THEN <<"clear udp">> ELSE <<>>
<1>1. Stop(clears) = Unchained \o rest
  BY DEF Stop, Unchained
<1>2. /\ Legal(rest, tproxy) /\ At(rest, 1) = (IF clears THEN "clear udp" ELSE "end")
      /\ \A i \in 1..Len(rest) : clears /\ rest[i] = "clear udp" /\ At(rest, i + 1) = "end"
  <2>1. "clear udp" \in Commands /\ "end" \in Follows("clear udp", tproxy)
    BY DEF Commands, Removing, Follows
  <2>2. CASE clears
    BY <2>1, <2>2, OneLegal
  <2>3. CASE ~clears
    BY <2>3, NoneLegal
  <2> QED
    BY <2>2, <2>3
<1> HIDE DEF rest
<1>3. At(rest, 1) \in Follows(Unchained[Len(Unchained)], tproxy)
  BY <1>2, UnchainedFacts DEF Follows
<1>4. Joined(Unchained \o rest, Unchained, rest, tproxy)
  BY <1>2, <1>3, UnchainedFacts, JoinLegal DEF Joins
<1>5. ASSUME NEW i \in 1..Len(Unchained \o rest)
      PROVE  /\ (Unchained \o rest)[i] \in Removing \cup {"probe"}
             /\ (Unchained \o rest)[i] = "delete" => (At(Unchained \o rest, i + 1) = "clear udp" <=> clears)
             /\ (Unchained \o rest)[i] = "clear udp" => clears
             /\ At(Unchained \o rest, i + 1) = "end" => (Unchained \o rest)[i] \in {"delete", "clear udp"}
  <2>1. CASE i \in 1..3
    <3>1. i = 1 \/ i = 2 \/ i = 3
      BY <2>1
    <3>2. 1 + 1 = 2 /\ 2 + 1 = 3 /\ 1 < 3 /\ 2 < 3
      OBVIOUS
    <3>3. /\ (Unchained \o rest)[i] = Unchained[i]
          /\ i < 3 => At(Unchained \o rest, i + 1) = Unchained[i + 1]
          /\ i = 3 => At(Unchained \o rest, i + 1) = At(rest, 1)
      <4>1. ~(i - Len(Unchained) \in 1..Len(rest))
        BY <2>1, UnchainedFacts
      <4> QED
        BY <1>4, <4>1, UnchainedFacts DEF Joined
    <3> QED
      BY <1>2, <3>1, <3>2, <3>3, UnchainedFacts DEF Removing
  <2>2. CASE i \notin 1..3
    BY <1>2, <1>4, <2>2, UnchainedFacts DEF Removing, Joined
  <2> QED
    BY <2>1, <2>2
<1> QED
  BY <1>1, <1>4, <1>5, UnchainedFacts DEF Removal, Joined

(* A start that stops first, and one that does not.                        *)
LEMMA ProbeLegal ==
  ASSUME NEW clears \in BOOLEAN, NEW tproxy
  PROVE  /\ Removal(Append(Stop(clears), "probe"), tproxy, clears, {"probe"})
         /\ At(Append(Stop(clears), "probe"), 1) = "unhook"
         /\ Legal(Append(<<>>, "probe"), tproxy) /\ Append(<<>>, "probe") # <<>>
         /\ At(Append(<<>>, "probe"), 1) = "probe"
         /\ \A i \in 1..Len(Append(<<>>, "probe")) : Append(<<>>, "probe")[i] = "probe"
<1> DEFINE s == Stop(clears)
           run == Append(s, "probe")
<1>1. Removal(s, tproxy, clears, {"delete", "clear udp"}) /\ At(s, 1) = "unhook"
  BY StopLegal
<1>2. "probe" \in Commands /\ "end" \in Follows("probe", tproxy)
  BY DEF Commands, Follows
<1>3. /\ Legal(Append(<<>>, "probe"), tproxy) /\ Append(<<>>, "probe") # <<>>
      /\ At(Append(<<>>, "probe"), 1) = "probe"
      /\ \A i \in 1..Len(Append(<<>>, "probe")) : Append(<<>>, "probe")[i] = "probe"
  <2>1. Append(<<>>, "probe") = <<"probe">> /\ <<"probe">> # <<>>
    OBVIOUS
  <2> QED
    BY <1>2, <2>1, OneLegal
<1> HIDE DEF s
<1>4. /\ s \in Seq(Commands) /\ Len(s) \in Nat \ {0} /\ run \in Seq(Commands) /\ Len(run) = Len(s) + 1
      /\ run # <<>> /\ \A i \in 1..Len(s) : run[i] = s[i]
      /\ run[Len(s) + 1] = "probe"
  <2>1. s \in Seq(Commands) /\ s # <<>>
    BY <1>1 DEF Removal, Legal
  <2>2. Len(s) \in Nat \ {0}
    BY <2>1
  <2>3. run \in Seq(Commands) /\ Len(run) = Len(s) + 1 /\ \A i \in 1..Len(s) : run[i] = s[i]
    BY <1>2, <2>1, AppendProperties
  <2>4. run[Len(s) + 1] = "probe"
    BY <1>2, <2>1, AppendProperties
  <2> QED
    BY <2>1, <2>2, <2>3, <2>4
<1> HIDE DEF run
<1>5. ASSUME NEW i \in 1..Len(s)
      PROVE  /\ i < Len(s) => At(run, i + 1) = At(s, i + 1)
             /\ i = Len(s) => At(run, i + 1) = "probe" /\ At(s, i + 1) = "end"
             /\ At(s, i + 1) = "end" => i = Len(s)
  <2>1. CASE i < Len(s)
    <3>1. i + 1 \in 1..Len(s) /\ s[i + 1] \in Commands /\ i # Len(s)
      BY <1>4, <2>1
    <3>2. At(s, i + 1) = s[i + 1]
      BY <1>4, <3>1 DEF At
    <3>3. At(run, i + 1) = run[i + 1]
      BY <1>4, <3>1 DEF At
    <3>4. "end" \notin Commands
      BY DEF Commands, Installing, Reporting, Removing
    <3> QED
      BY <1>4, <3>1, <3>2, <3>3, <3>4
  <2>2. CASE i = Len(s)
    BY <1>4, <2>2 DEF At
  <2>3. i < Len(s) \/ i = Len(s)
    BY <1>4
  <2> QED
    BY <2>1, <2>2, <2>3
<1>6. ASSUME NEW i \in 1..Len(run)
      PROVE  /\ At(run, i + 1) \in Follows(run[i], tproxy)
             /\ run[i] \in Removing \cup {"probe"}
             /\ run[i] = "delete" => (At(run, i + 1) = "clear udp" <=> clears)
             /\ run[i] = "clear udp" => clears
             /\ At(run, i + 1) = "end" => run[i] \in {"probe"}
  <2>1. CASE i = Len(s) + 1
    <3>1. run[i] = "probe" /\ At(run, i + 1) = "end"
      BY <1>4, <2>1 DEF At
    <3> QED
      BY <1>2, <3>1
  <2>2. CASE i \in 1..Len(s) /\ i < Len(s)
    <3>1. At(run, i + 1) = At(s, i + 1) /\ run[i] = s[i] /\ At(s, i + 1) # "end"
      BY <1>4, <1>5, <2>2
    <3> QED
      BY <1>1, <2>2, <3>1 DEF Removal, Legal
  <2>3. CASE i \in 1..Len(s) /\ i = Len(s)
    <3>1. At(run, i + 1) = "probe" /\ At(s, i + 1) = "end" /\ run[i] = s[i]
      BY <1>4, <1>5, <2>3
    <3>2. run[i] \in {"delete", "clear udp"} /\ (run[i] = "delete" => ~clears) /\ (run[i] = "clear udp" => clears)
      BY <1>1, <2>3, <3>1 DEF Removal
    <3> QED
      BY <3>1, <3>2 DEF Follows, Removing
  <2>4. i = Len(s) + 1 \/ (i \in 1..Len(s) /\ i < Len(s)) \/ (i \in 1..Len(s) /\ i = Len(s))
    BY <1>4
  <2> QED
    BY <2>1, <2>2, <2>3, <2>4
<1>7. At(run, 1) = "unhook"
  <2>1. 1 \in 1..Len(s) /\ 1 <= Len(run)
    BY <1>4
  <2> QED
    BY <1>1, <1>4, <2>1 DEF At
<1>8. Removal(run, tproxy, clears, {"probe"})
  BY <1>4, <1>6 DEF Removal, Legal
<1> QED
  BY <1>3, <1>7, <1>8 DEF run, s

-----------------------------------------------------------------------------
(* Where a program stands, and what the kernel holds there.                *)

NoNat(k) == ~k.exists /\ ~k.jump /\ k.chain = <<>>
Full(k, port) == k.exists /\ k.jump /\ k.chain = <<Bypass, port>>

(* The nat table before command c of a program for the port, if nothing    *)
(* disturbed the program.  At boot nobody has cleaned up before.           *)
NatAt(k, c, port, booting) ==
  /\ c = "bypass" => k.exists /\ k.chain = <<>>
  /\ c = "intercept" => k.exists /\ k.chain = <<Bypass>>
  /\ c = "jump" => k.exists /\ k.chain = <<Bypass, port>>
  /\ c \in {"udp", "hook", "ready"} => Full(k, port)
  /\ c = "delete" => ~k.jump
  /\ c = "clear udp" => NoNat(k)
  /\ c = "probe" /\ ~booting => NoNat(k)

(* Likewise the mangle table.                                              *)
MangleAt(k, c, port, tproxy, booting, clears) ==
  /\ c \in {"bypass", "intercept", "jump", "udp"} /\ ~booting /\ ~tproxy => k.udp = NoPort
  /\ c \in {"hook", "ready"} => /\ tproxy => k.udp = port
                                /\ ~tproxy /\ ~booting => k.udp = NoPort
  /\ c \in {"unhook", "unjump", "delete"} /\ ~clears => k.udp = NoPort
  /\ c = "probe" /\ ~booting => k.udp = NoPort

KernelFields == {"exists", "chain", "jump", "udp"}

(* A chain is made of its rules one by one.                                *)
LEMMA AppendTuple ==
  ASSUME NEW a, NEW b
  PROVE  Append(<<>>, a) = <<a>> /\ Append(<<a>>, b) = <<a, b>>
<1> DEFINE S == {a, b}
<1>1. <<>> \in Seq(S) /\ Len(<<>>) = 0
  OBVIOUS
<1>2. <<a>> \in Seq(S) /\ Len(<<a>>) = 1 /\ <<a>>[1] = a
  OBVIOUS
<1>3. <<a, b>> \in Seq(S) /\ Len(<<a, b>>) = 2 /\ <<a, b>>[1] = a /\ <<a, b>>[2] = b
  OBVIOUS
<1>4. a \in S /\ b \in S
  OBVIOUS
<1>5. \A i \in 1..1 : i = 1
  OBVIOUS
<1>6. \A i \in 1..2 : i = 1 \/ i = 2
  OBVIOUS
<1> HIDE DEF S
<1>7. Append(<<>>, a) = <<a>>
  <2>1. Append(<<>>, a) \in Seq(S) /\ Len(Append(<<>>, a)) = 1 /\ Append(<<>>, a)[1] = a
    BY <1>1, <1>4, AppendProperties
  <2> QED
    BY <1>2, <1>5, <2>1, SeqEqual
<1>8. Append(<<a>>, b) = <<a, b>>
  <2>1. Append(<<a>>, b) \in Seq(S) /\ Len(Append(<<a>>, b)) = 2
        /\ Append(<<a>>, b)[1] = a /\ Append(<<a>>, b)[2] = b
    BY <1>2, <1>4, AppendProperties
  <2> QED
    BY <1>3, <1>6, <2>1, SeqEqual
<1> QED
  BY <1>7, <1>8

(* Each command leaves the nat table as the next one expects it.           *)
LEMMA NatCommand ==
  ASSUME NEW k, DOMAIN k = KernelFields, NEW c \in Commands \ {"probe"}, NEW port, NEW booting,
         NEW tproxy, NEW next \in Follows(c, tproxy) \cup (IF c = "hook" THEN {"flush"} ELSE {}),
         NatAt(k, c, port, booting)
  PROVE  /\ DOMAIN Changed(k, c, port) = KernelFields
         /\ NatAt(Changed(k, c, port), next, port, booting)
         /\ next = "end" /\ c \in Installing \cup Reporting => Full(Changed(k, c, port), port)
         /\ next = "end" /\ c \in Removing => NoNat(Changed(k, c, port))
<1>1. CASE c = "flush"
  BY <1>1 DEF Changed, KernelFields, NatAt, Full, NoNat, Follows, Installing, Reporting, Removing
<1>0. Append(<<>>, Bypass) = <<Bypass>> /\ Append(<<Bypass>>, port) = <<Bypass, port>>
  BY AppendTuple
<1>2. CASE c = "bypass"
  BY <1>0, <1>2 DEF Changed, Appended, KernelFields, NatAt, Full, NoNat, Follows, Installing, Reporting, Removing
<1>3. CASE c = "intercept"
  BY <1>0, <1>3 DEF Changed, Appended, KernelFields, NatAt, Full, NoNat, Follows, Installing, Reporting, Removing
<1>4. CASE c = "jump"
  BY <1>4 DEF Changed, KernelFields, NatAt, Full, NoNat, Follows, Installing, Reporting, Removing
<1>5. CASE c = "udp"
  BY <1>5 DEF Changed, KernelFields, NatAt, Full, NoNat, Follows, Installing, Reporting, Removing
<1>6. CASE c = "hook"
  BY <1>6 DEF Changed, KernelFields, NatAt, Full, NoNat, Follows, Installing, Reporting, Removing
<1>7. CASE c = "ready"
  BY <1>7 DEF Changed, KernelFields, NatAt, Full, NoNat, Follows, Installing, Reporting, Removing
<1>8. CASE c = "unhook"
  BY <1>8 DEF Changed, KernelFields, NatAt, Full, NoNat, Follows, Installing, Reporting, Removing
<1>9. CASE c = "unjump"
  BY <1>9 DEF Changed, KernelFields, NatAt, Full, NoNat, Follows, Installing, Reporting, Removing
<1>10. CASE c = "delete"
  BY <1>10 DEF Changed, Deleted, KernelFields, NatAt, Full, NoNat, Follows, Installing, Reporting, Removing
<1>11. CASE c = "clear udp"
  BY <1>11 DEF Changed, KernelFields, NatAt, Full, NoNat, Follows, Installing, Reporting, Removing
<1> QED
  BY <1>1, <1>2, <1>3, <1>4, <1>5, <1>6, <1>7, <1>8, <1>9, <1>10, <1>11
     DEF Commands, Installing, Reporting, Removing

(* ... and the mangle table.                                               *)
MangleBefore(k, c, next, port, tproxy, booting, clears) ==
  /\ DOMAIN k = KernelFields /\ c \in Commands \ {"probe"}
  /\ next \in Follows(c, tproxy) \cup (IF c = "hook" THEN {"flush"} ELSE {})
  /\ MangleAt(k, c, port, tproxy, booting, clears)
  /\ c = "flush" /\ ~booting /\ ~tproxy => k.udp = NoPort
  /\ c = "delete" /\ clears => next = "clear udp"
  /\ c = "delete" /\ next = "clear udp" => clears
  /\ c = "clear udp" => clears
MangleAfter(k, c, next, port, tproxy, booting, clears) ==
  /\ MangleAt(k, next, port, tproxy, booting, clears)
  /\ next = "flush" /\ ~booting /\ ~tproxy => k.udp = NoPort
  /\ next = "end" /\ c \in Installing \cup Reporting =>
       /\ tproxy => k.udp = port
       /\ ~tproxy /\ ~booting => k.udp = NoPort
  /\ next = "end" /\ c \in Removing => k.udp = NoPort

(* A command takes the mangle table from what holds before it to what      *)
(* holds before the next one.                                              *)
LEMMA MangleCommand ==
  ASSUME NEW k, NEW c, NEW next, NEW port, NEW tproxy, NEW booting, NEW clears,
         MangleBefore(k, c, next, port, tproxy, booting, clears)
  PROVE  MangleAfter(Changed(k, c, port), c, next, port, tproxy, booting, clears)
<1> USE DEF MangleBefore, MangleAfter
<1>1. CASE c = "flush"
  BY <1>1 DEF Changed, KernelFields, MangleAt, Follows, Installing, Reporting, Removing
<1>2. CASE c = "bypass"
  BY <1>2 DEF Changed, Appended, KernelFields, MangleAt, Follows, Installing, Reporting, Removing
<1>3. CASE c = "intercept"
  BY <1>3 DEF Changed, Appended, KernelFields, MangleAt, Follows, Installing, Reporting, Removing
<1>4. CASE c = "jump"
  BY <1>4 DEF Changed, KernelFields, MangleAt, Follows, Installing, Reporting, Removing
<1>5. CASE c = "udp"
  BY <1>5 DEF Changed, KernelFields, MangleAt, Follows, Installing, Reporting, Removing
<1>6. CASE c = "hook"
  BY <1>6 DEF Changed, KernelFields, MangleAt, Follows, Installing, Reporting, Removing
<1>7. CASE c = "ready"
  BY <1>7 DEF Changed, KernelFields, MangleAt, Follows, Installing, Reporting, Removing
<1>8. CASE c = "unhook"
  BY <1>8 DEF Changed, KernelFields, MangleAt, Follows, Installing, Reporting, Removing
<1>9. CASE c = "unjump"
  BY <1>9 DEF Changed, KernelFields, MangleAt, Follows, Installing, Reporting, Removing
<1>10. CASE c = "delete"
  BY <1>10 DEF Changed, Deleted, KernelFields, MangleAt, Follows, Installing, Reporting, Removing
<1>11. CASE c = "clear udp"
  BY <1>11 DEF Changed, KernelFields, MangleAt, Follows, Installing, Reporting, Removing
<1> QED
  BY <1>1, <1>2, <1>3, <1>4, <1>5, <1>6, <1>7, <1>8, <1>9, <1>10, <1>11
     DEF Commands, Installing, Reporting, Removing

-----------------------------------------------------------------------------
(* The inductive invariant.                                                *)

First(w) == At(program[w].run, 1)
Booting == job.by = "boot"

SettingsFields == {"enabled", "port", "known", "tproxy"}
JobFields == {"kind", "by", "port", "known", "tproxy", "cleans", "alone"}
Shapes ==
  /\ events \in Nat /\ DOMAIN kernel = KernelFields
  /\ kernel.exists \in BOOLEAN /\ kernel.jump \in BOOLEAN /\ fw.active \in BOOLEAN
  /\ DOMAIN settings = SettingsFields
  /\ DOMAIN job = JobFields /\ job.kind \in {"none", "start", "stop", "refused"}
  /\ job.tproxy \in BOOLEAN /\ fw.tproxy \in BOOLEAN /\ hook.tproxy \in BOOLEAN /\ wd.tproxy \in BOOLEAN
  /\ DOMAIN tx = {"step", "kind", "fw", "settings", "state"}
  /\ DOMAIN wd = {"step", "active", "port", "known", "tproxy"}
  /\ DOMAIN program = Writers /\ \A w \in Writers : DOMAIN program[w] = {"run", "port", "tproxy"}

(* Whoever is about to install something knows a port.                     *)
PortsKnown ==
  /\ settings.port \in Ports
  /\ fw.active => fw.port \in Ports
  /\ wd.step = "check" => wd.port \in Ports
  /\ tx.step # "none" => /\ tx.state.port \in Ports /\ (tx.fw.active => tx.fw.port \in Ports)
                         /\ tx.settings.port \in Ports /\ DOMAIN tx.settings = SettingsFields
  /\ job.kind = "start" => job.port \in Ports

(* Only a running daemon has a job, an activation or a tick.               *)
JobInv ==
  /\ tx.step # "none" \/ wd.step # "sleep" \/ ~LockFree => up
  /\ ~LockFree =>
       /\ job.by = "shutdown" => job.kind = "stop" /\ tx.step = "none"
       /\ Booting => job.kind # "stop"
       /\ job.by \in {"activation", "rollback"} => tx.step # "none"

(* What the daemon's program has still to do belongs to its job.           *)
Lasts(kind) ==
  CASE kind = "start" -> {"probe", "ready"}
    [] kind = "stop" -> {"delete", "clear udp"}
    [] OTHER -> {}
Reports(run) ==
  \A i, k \in 1..Len(run) : run[i] = "ready" => run[k] \notin Removing
Serves(p, j) ==
  /\ Reports(p.run)
  /\ \A i \in 1..Len(p.run) :
       /\ j.kind # "none"
       /\ p.run[i] \in Removing => j.by # "boot"
       /\ p.run[i] = "delete" => (At(p.run, i + 1) = "clear udp" <=> "mangle" \in j.cleans)
       /\ p.run[i] = "clear udp" => "mangle" \in j.cleans
       /\ At(p.run, i + 1) = "end" => p.run[i] \in Lasts(j.kind)
       /\ p.run[i] \in Installing \cup Reporting => p.port = j.port /\ p.tproxy = j.tproxy
Installs(p) == \A i \in 1..Len(p.run) : p.run[i] \in Installing
Programs ==
  /\ \A w \in Writers : Legal(program[w].run, program[w].tproxy)
  /\ Installs(program["watchdog"]) /\ Installs(program["ndm"])
  /\ Serves(program["daemon"], job)

(* A table is followed as long as it is not spoilt, or in a job that       *)
(* builds it anew and was not disturbed so far.                            *)
Clean(t) == t \notin spoilt
Renewed(t) == ~LockFree /\ job.alone /\ t \in job.cleans
Rebuilt(t) == Clean(t) \/ (Renewed(t) /\ First("daemon") # "unhook")

Settled == Quiet /\ ndm = "idle"
Removed == ~LockFree /\ ~Running("daemon") /\ job.kind # "start" /\ ~Booting
Built == ~LockFree /\ ~Running("daemon") /\ job.kind = "start"

NatHere(w) == NatAt(kernel, First(w), program[w].port, Booting)
NatInv ==
  /\ Clean("nat") \/ Renewed("nat") => NatHere("daemon")
  /\ Rebuilt("nat") =>
       /\ NatHere("watchdog") /\ NatHere("ndm")
       /\ Removed => NoNat(kernel)
       /\ Built /\ Settled => Full(kernel, job.port)
  /\ Clean("nat") /\ LockFree =>
       /\ ~fw.active /\ up => NoNat(kernel)
       /\ fw.active /\ Settled => Full(kernel, fw.port)

MangleHere(w, booting) ==
  MangleAt(kernel, First(w), program[w].port, program[w].tproxy, booting, "mangle" \in job.cleans)
MangleInv ==
  /\ Clean("mangle") \/ Renewed("mangle") =>
       /\ MangleHere("daemon", Booting)
       /\ First("daemon") = "flush" /\ ~Booting /\ ~program["daemon"].tproxy => kernel.udp = NoPort
  /\ Rebuilt("mangle") =>
       /\ MangleHere("watchdog", FALSE) /\ MangleHere("ndm", FALSE)
       /\ Removed => kernel.udp = NoPort
       /\ Built /\ job.tproxy /\ Settled => kernel.udp = job.port
       /\ Built /\ ~job.tproxy /\ ~Booting => kernel.udp = NoPort
  /\ Clean("mangle") /\ LockFree =>
       /\ fw.active /\ fw.tproxy /\ Settled => kernel.udp = fw.port
       /\ ~(fw.active /\ fw.tproxy) /\ (up \/ fw.active) => kernel.udp = NoPort

(* Script and marker are those of the firewall, and of a job before and    *)
(* after it.                                                               *)
Pending(c) == \E i \in 1..Len(program["daemon"].run) : program["daemon"].run[i] = c
FilesInv ==
  /\ leftover => ~fw.active /\ spoilt = Tables
  /\ LockFree /\ fw.active => ready /\ hook = [port |-> fw.port, tproxy |-> fw.tproxy]
  /\ LockFree /\ up /\ ~leftover /\ ~fw.active => ~ready
  /\ First("daemon") \in {"unjump", "delete", "clear udp"} => ~ready
  /\ First("daemon") = "probe" /\ ~Booting => ~ready
  /\ Pending("ready") /\ ~Pending("hook") => hook = [port |-> job.port, tproxy |-> job.tproxy]
  /\ Removed => ~ready
  /\ Built => ready /\ hook = [port |-> job.port, tproxy |-> job.tproxy]

IInv == Shapes /\ PortsKnown /\ JobInv /\ Programs /\ NatInv /\ MangleInv /\ FilesInv

-----------------------------------------------------------------------------
(* One command.                                                            *)

(* A writer runs exactly when its program has a first command.             *)
LEMMA RunsFirst ==
  ASSUME NEW run, NEW tproxy, Legal(run, tproxy)
  PROVE  run # <<>> <=> At(run, 1) # "end"
<1>1. run \in Seq(Commands)
  BY DEF Legal
<1>2. "end" \notin Commands
  BY DEF Commands, Installing, Reporting, Removing
<1>3. CASE run = <<>>
  BY <1>3 DEF At
<1>4. CASE run # <<>>
  <2>1. Len(run) \in Nat \ {0} /\ run[1] \in Commands
    BY <1>1, <1>4
  <2> QED
    BY <1>2, <1>4, <2>1 DEF At
<1> QED
  BY <1>3, <1>4

(* A writer of the state runs exactly when it has a first command ...      *)
LEMMA RunningFirst ==
  ASSUME NEW w \in Writers, Legal(program[w].run, program[w].tproxy)
  PROVE  Running(w) <=> First(w) # "end"
<1> DEFINE run == program[w].run
           tproxy == program[w].tproxy
<1>1. Legal(run, tproxy) /\ First(w) = At(run, 1) /\ (Running(w) <=> run # <<>>)
  BY DEF First, Running
<1> HIDE DEF run, tproxy
<1> QED
  BY <1>1, RunsFirst

(* ... also after a step.                                                  *)
LEMMA RunningNext ==
  ASSUME Programs'
  PROVE  \A w \in Writers : Running(w)' <=> First(w)' # "end"
<1> SUFFICES ASSUME NEW w \in Writers PROVE Running(w)' <=> First(w)' # "end"
  OBVIOUS
<1> DEFINE run == program'[w].run
           tproxy == program'[w].tproxy
<1>1. Legal(run, tproxy) /\ First(w)' = At(run, 1) /\ (Running(w)' <=> run # <<>>)
  BY DEF First, Running, Programs
<1> HIDE DEF run, tproxy
<1> QED
  BY <1>1, RunsFirst

(* What is left of a program after a command serves the same job.          *)
LEMMA TailServes ==
  ASSUME NEW p, NEW q, NEW j, Serves(p, j), Legal(p.run, p.tproxy), p.run # <<>>,
         q.run = Tail(p.run), q.port = p.port, q.tproxy = p.tproxy
  PROVE  Serves(q, j)
<1>1. /\ Len(p.run) \in Nat \ {0} /\ Len(q.run) = Len(p.run) - 1
      /\ \A k \in 1..Len(q.run) : q.run[k] = p.run[k + 1]
      /\ \A k \in Nat \ {0} : At(q.run, k) = At(p.run, k + 1)
  BY TailLegal
<1>2. \A k \in 1..Len(q.run) : k + 1 \in 1..Len(p.run) /\ k + 1 \in Nat \ {0}
  <2>1. \A m \in Nat \ {0} : \A k \in 1..(m - 1) : k + 1 \in 1..m /\ k + 1 \in Nat \ {0}
    OBVIOUS
  <2>2. \A k \in 1..(Len(p.run) - 1) : k + 1 \in 1..Len(p.run) /\ k + 1 \in Nat \ {0}
    BY <1>1, <2>1, Zenon
  <2> QED
    BY <1>1, <2>2, Zenon
<1>3. Reports(q.run)
  BY <1>1, <1>2 DEF Serves, Reports
<1> QED
  BY <1>1, <1>2, <1>3 DEF Serves

(* ... and what is left of an installation installs.                        *)
LEMMA TailInstalls ==
  ASSUME NEW p, NEW q, Installs(p), Legal(p.run, p.tproxy), p.run # <<>>,
         q.run = Tail(p.run), q.port = p.port, q.tproxy = p.tproxy
  PROVE  Installs(q)
<1>1. /\ Len(p.run) \in Nat \ {0} /\ Len(q.run) = Len(p.run) - 1
      /\ \A k \in 1..Len(q.run) : q.run[k] = p.run[k + 1]
      /\ \A k \in Nat \ {0} : At(q.run, k) = At(p.run, k + 1)
  BY TailLegal
<1>2. \A k \in 1..Len(q.run) : k + 1 \in 1..Len(p.run) /\ k + 1 \in Nat \ {0}
  <2>1. \A m \in Nat \ {0} : \A k \in 1..(m - 1) : k + 1 \in 1..m /\ k + 1 \in Nat \ {0}
    OBVIOUS
  <2>2. \A k \in 1..(Len(p.run) - 1) : k + 1 \in 1..Len(p.run) /\ k + 1 \in Nat \ {0}
    BY <1>1, <2>1, Zenon
  <2> QED
    BY <1>1, <2>2, Zenon
<1> QED
  BY <1>1, <1>2 DEF Installs

(* A command leaves its writer before the next one, or done.               *)
Turned(w, c) ==
  /\ c \in Commands \ {"probe"} /\ First(w) = c /\ Running(w)
  /\ First(w)' \in Follows(c, program[w].tproxy) \cup (IF c = "hook" THEN {"flush"} ELSE {})
  /\ First(w)' = IF c = "hook" /\ ready THEN "flush" ELSE At(program[w].run, 2)
  /\ First(w)' # "end" => program'[w].port = program[w].port /\ program'[w].tproxy = program[w].tproxy
  /\ \A v \in Writers \ {w} : program'[v] = program[v]
  /\ w # "daemon" => c \in Installing

(* The writer that runs a command goes on with what its program says next, *)
(* and the programs stay legal.                                            *)
LEMMA Turn ==
  ASSUME Shapes, Programs, NEW w \in Writers, RunCommand(w), Serves(program["daemon"], job')
  PROVE  Turned(w, Head(program[w].run)) /\ Programs'
         /\ DOMAIN program' = Writers /\ \A v \in Writers : DOMAIN program'[v] = {"run", "port", "tproxy"}
<1> DEFINE p == program[w]
           c == Head(p.run)
           left == AfterCommand(w, c)
           q == IF left = <<>> THEN NoProgram ELSE [p EXCEPT !.run = left]
<1>1. /\ Running(w) /\ c # "probe" /\ program' = [program EXCEPT ![w] = q]
      /\ DOMAIN p = {"run", "port", "tproxy"} /\ Legal(p.run, p.tproxy) /\ p.run # <<>>
  BY DEF RunCommand, Shapes, Programs, Running
<1>2. /\ Legal(Tail(p.run), p.tproxy) /\ c = p.run[1] /\ c \in Commands /\ First(w) = c
      /\ At(Tail(p.run), 1) \in Follows(c, p.tproxy)
      /\ Len(p.run) \in Nat \ {0} /\ 1 \in 1..Len(p.run)
      /\ At(Tail(p.run), 1) = At(p.run, 2)
  <2>1. First(w) = At(p.run, 1)
    BY DEF First
  <2> HIDE DEF p
  <2> DEFINE run == p.run
             tp == p.tproxy
  <2>2. Legal(run, tp) /\ run # <<>>
    BY <1>1
  <2> HIDE DEF run, tp
  <2>3. /\ Legal(Tail(run), tp) /\ Len(run) \in Nat \ {0}
        /\ Head(run) = run[1] /\ Head(run) \in Commands /\ At(run, 1) = Head(run)
        /\ At(Tail(run), 1) \in Follows(Head(run), tp)
        /\ \A i \in Nat \ {0} : At(Tail(run), i) = At(run, i + 1)
    BY <2>2, TailLegal
  <2>4. 1 \in 1..Len(run) /\ At(Tail(run), 1) = At(run, 2)
    BY <2>3
  <2> QED
    BY <2>1, <2>3, <2>4 DEF run, tp
<1>3. w # "daemon" => Installs(p) /\ c \in Installing
  BY <1>2 DEF Programs, Writers, Installs
<1>4. w = "daemon" => Serves(p, job')
  OBVIOUS
<1> DEFINE t == [p EXCEPT !.run = Tail(p.run)]
<1>5. t.run = Tail(p.run) /\ t.port = p.port /\ t.tproxy = p.tproxy
  BY <1>1
<1>6. (w = "daemon" => Serves(t, job')) /\ (w # "daemon" => Installs(t))
  <2>1. w = "daemon" => Serves(t, job')
    BY <1>1, <1>4, <1>5, TailServes
  <2>2. w # "daemon" => Installs(t)
    BY <1>1, <1>3, <1>5, TailInstalls
  <2> QED
    BY <2>1, <2>2
<1>7. /\ Legal(left, p.tproxy)
      /\ At(left, 1) \in Follows(c, p.tproxy) \cup (IF c = "hook" THEN {"flush"} ELSE {})
      /\ At(left, 1) = (IF c = "hook" /\ ready THEN "flush" ELSE At(p.run, 2))
      /\ [p EXCEPT !.run = left].run = left
      /\ w = "daemon" => Serves([p EXCEPT !.run = left], job')
      /\ w # "daemon" => Installs([p EXCEPT !.run = left])
  <2>1. CASE ~(c = "hook" /\ ready)
    <3>1. left = Tail(p.run)
      BY <2>1 DEF AfterCommand
    <3> QED
      BY <2>1, <1>2, <1>5, <1>6, <3>1
  <2>2. CASE c = "hook" /\ ready
    <3>1. w = "daemon" /\ Serves(p, job') /\ p.tproxy = job'.tproxy /\ p.port = job'.port
      BY <1>2, <1>3, <1>4, <2>2 DEF Serves, Installing, Reporting
    <3>2. p.tproxy \in BOOLEAN
      <4>1. Serves(program["daemon"], job)
        BY DEF Programs
      <4>2. p.tproxy = job.tproxy
        BY <1>2, <2>2, <3>1, <4>1 DEF Serves, Reporting
      <4> QED
        BY <4>2 DEF Shapes
    <3>3. left = Installation(p.tproxy) \o Tail(p.run) /\ At(Tail(p.run), 1) = "ready"
      BY <1>2, <2>2 DEF AfterCommand, Follows
    <3>4. /\ Legal(left, p.tproxy) /\ left # <<>> /\ At(left, 1) = "flush"
          /\ \A i \in 1..Len(left) :
               \/ left[i] \in Installing /\ At(left, i + 1) \in Installing \cup {"ready"}
               \/ \E j \in 1..Len(Tail(p.run)) : /\ left[i] = Tail(p.run)[j]
                                                 /\ At(left, i + 1) = At(Tail(p.run), j + 1)
      <4> DEFINE rest == Tail(p.run)
                 tp == p.tproxy
      <4>1. Legal(rest, tp) /\ tp \in BOOLEAN /\ At(rest, 1) \in {"hook", "ready", "end"}
            /\ At(rest, 1) = "ready" /\ left = Installation(tp) \o rest
        BY <1>2, <3>2, <3>3
      <4> HIDE DEF rest, tp, left
      <4>2. /\ Legal(left, tp) /\ left # <<>> /\ At(left, 1) = "flush"
            /\ \A i \in 1..Len(left) :
                 \/ left[i] \in Installing /\ At(left, i + 1) \in Installing \cup {"ready"}
                 \/ \E j \in 1..Len(rest) : left[i] = rest[j] /\ At(left, i + 1) = At(rest, j + 1)
        BY <4>1, InstallationLegal
      <4> QED
        BY <4>2 DEF rest, tp
    <3> DEFINE r == [p EXCEPT !.run = left]
    <3>5. r.run = left /\ r.port = p.port /\ r.tproxy = p.tproxy
      BY <1>1
    <3> HIDE DEF r, left, t
    <3>6. Serves(r, job')
      <4> SUFFICES ASSUME NEW i \in 1..Len(r.run)
                   PROVE  /\ job'.kind # "none"
                          /\ r.run[i] \in Removing => job'.by # "boot"
                          /\ r.run[i] = "delete" => (At(r.run, i + 1) = "clear udp" <=> "mangle" \in job'.cleans)
                          /\ r.run[i] = "clear udp" => "mangle" \in job'.cleans
                          /\ At(r.run, i + 1) = "end" => r.run[i] \in Lasts(job'.kind)
                          /\ r.run[i] \in Installing \cup Reporting => r.port = job'.port /\ r.tproxy = job'.tproxy
        <5>1. Reports(r.run)
          <6>1. \A k \in 1..Len(left) :
                  left[k] \in Installing \/ \E j \in 1..Len(t.run) : left[k] = t.run[j]
            BY <1>5, <3>4
          <6>2. Reports(t.run)
            BY <1>6, <3>1 DEF Serves
          <6>3. "ready" \notin Installing /\ Installing \cap Removing = {}
            BY DEF Installing, Removing
          <6> QED
            BY <3>5, <6>1, <6>2, <6>3 DEF Reports
        <5> QED
          BY <5>1 DEF Serves
      <4>1. job'.kind # "none" /\ i \in 1..Len(left)
        BY <1>2, <3>1, <3>5 DEF Serves
      <4>2. CASE left[i] \in Installing /\ At(left, i + 1) \in Installing \cup {"ready"}
        <5>1. "delete" \notin Installing /\ "clear udp" \notin Installing /\ Installing \cap Removing = {} /\ "end" \notin Installing
          BY DEF Installing, Removing
        <5> QED
          BY <3>1, <3>5, <4>1, <4>2, <5>1
      <4>3. CASE \E j \in 1..Len(Tail(p.run)) : /\ left[i] = Tail(p.run)[j]
                                                /\ At(left, i + 1) = At(Tail(p.run), j + 1)
        <5>1. PICK j \in 1..Len(t.run) : left[i] = t.run[j] /\ At(left, i + 1) = At(t.run, j + 1)
          BY <1>5, <4>3
        <5> QED
          BY <1>5, <1>6, <3>1, <3>5, <5>1 DEF Serves
      <4> QED
        BY <3>4, <4>1, <4>2, <4>3
    <3> QED
      BY <2>2, <3>1, <3>4, <3>5, <3>6 DEF r
  <2> QED
    BY <2>1, <2>2
<1> HIDE DEF left
<1>8. CASE left = <<>>
  <2>1. q = NoProgram /\ q.run = <<>> /\ DOMAIN q = {"run", "port", "tproxy"} /\ Len(q.run) = 0
    BY <1>8 DEF NoProgram
  <2>2. At(q.run, 1) = "end" /\ At(left, 1) = "end"
    BY <1>8, <2>1 DEF At
  <2>3. Legal(q.run, q.tproxy) /\ Serves(q, job') /\ Installs(q)
    <3> HIDE DEF q
    <3>1. Legal(q.run, q.tproxy)
      BY <2>1, NoneLegal
    <3>2. 1..Len(q.run) = {}
      BY <2>1
    <3>3. Reports(q.run)
      BY <3>2 DEF Reports
    <3> QED
      BY <3>1, <3>2, <3>3 DEF Serves, Installs
  <2> HIDE DEF q
  <2>4. program'[w] = q /\ \A v \in Writers \ {w} : program'[v] = program[v]
    BY <1>1 DEF Shapes
  <2>5. DOMAIN program' = Writers /\ \A v \in Writers : DOMAIN program'[v] = {"run", "port", "tproxy"}
    BY <1>1, <2>1, <2>4 DEF Shapes
  <2>6. Programs'
    BY <2>3, <2>4 DEF Programs, Writers
  <2>7. Turned(w, c)
    BY <1>1, <1>2, <1>3, <1>7, <2>2, <2>4 DEF Turned, First
  <2> QED
    BY <2>5, <2>6, <2>7
<1>9. CASE left # <<>>
  <2>1. q = [p EXCEPT !.run = left] /\ DOMAIN q = {"run", "port", "tproxy"}
        /\ q.run = left /\ q.port = p.port /\ q.tproxy = p.tproxy
    BY <1>1, <1>9
  <2>2. Legal(q.run, q.tproxy) /\ (w = "daemon" => Serves(q, job')) /\ (w # "daemon" => Installs(q))
    BY <1>7, <2>1
  <2> HIDE DEF q
  <2>4. program'[w] = q /\ \A v \in Writers \ {w} : program'[v] = program[v]
    BY <1>1 DEF Shapes
  <2>5. DOMAIN program' = Writers /\ \A v \in Writers : DOMAIN program'[v] = {"run", "port", "tproxy"}
    BY <1>1, <2>1, <2>4 DEF Shapes
  <2>6. Programs'
    BY <2>2, <2>4 DEF Programs, Writers
  <2>7. Turned(w, c)
    BY <1>1, <1>2, <1>3, <1>7, <2>1, <2>4 DEF Turned, First
  <2> QED
    BY <2>5, <2>6, <2>7
<1> QED
  BY <1>8, <1>9

(* A command changes of a job only whether it was alone.                   *)
SameJob ==
  /\ DOMAIN job' = JobFields /\ job'.kind = job.kind /\ job'.by = job.by /\ job'.port = job.port
  /\ job'.known = job.known /\ job'.tproxy = job.tproxy /\ job'.cleans = job.cleans

Undisturbed(w) == Alone(w) /\ Faithful(w) /\ events' = events

(* A command was undisturbed, or both tables are spoilt and the job knows  *)
(* it was not alone.                                                       *)
LEMMA CommandJob ==
  ASSUME IInv, NEW w \in Writers, RunCommand(w)
  PROVE  /\ SameJob /\ Serves(program["daemon"], job')
         /\ \/ /\ Undisturbed(w) /\ kernel' = Changed(kernel, Head(program[w].run), program[w].port)
               /\ spoilt' = spoilt /\ (job'.alone <=> job.alone)
            \/ spoilt' = Tables /\ (LockFree \/ ~job'.alone)
<1> DEFINE c == Head(program[w].run)
           u == Undisturbed(w)
<1>1. /\ spoilt' = (IF u THEN spoilt ELSE Tables)
      /\ job' = (IF LockFree THEN job ELSE [job EXCEPT !.alone = @ /\ u])
      /\ (kernel' = Changed(kernel, c, program[w].port) \/ events' = events + 1)
      /\ events \in Nat /\ DOMAIN job = JobFields
  BY DEF RunCommand, Undisturbed, Event, Quietly, IInv, Shapes
<1>2. u => kernel' = Changed(kernel, c, program[w].port)
  <2>1. events + 1 # events
    BY <1>1
  <2> QED
    BY <1>1, <2>1 DEF Undisturbed
<1> HIDE DEF u
<1>3. SameJob
  <2>1. CASE LockFree
    BY <1>1, <2>1 DEF SameJob
  <2>2. CASE ~LockFree
    <3> DEFINE a == job.alone /\ u
    <3>1. job' = [job EXCEPT !.alone = a]
      BY <1>1, <2>2
    <3> HIDE DEF a
    <3> QED
      BY <1>1, <3>1 DEF SameJob, JobFields
  <2> QED
    BY <2>1, <2>2
<1>4. job' = job \/ (job'.alone <=> job.alone /\ u)
  <2> DEFINE a == job.alone /\ u
  <2>1. job' = job \/ job' = [job EXCEPT !.alone = a]
    BY <1>1
  <2> HIDE DEF a
  <2>2. job' = job \/ job'.alone = a
    BY <1>1, <2>1 DEF JobFields
  <2> QED
    BY <2>2 DEF a
<1>5. Serves(program["daemon"], job')
  BY <1>3 DEF SameJob, Serves, IInv, Programs
<1>6. CASE u
  <2>1. job'.alone <=> job.alone
    BY <1>4, <1>6, Zenon
  <2> QED
    BY <1>1, <1>2, <1>3, <1>5, <1>6, <2>1 DEF u
<1>7. CASE ~u
  <2>1. LockFree \/ ~job'.alone
    <3> DEFINE a == job.alone /\ u
    <3>1. LockFree \/ job' = [job EXCEPT !.alone = a]
      BY <1>1
    <3>2. a = FALSE
      BY <1>7
    <3> HIDE DEF a
    <3> QED
      BY <1>1, <3>1, <3>2 DEF JobFields
  <2> QED
    BY <1>1, <1>3, <1>5, <1>7, <2>1
<1> QED
  BY <1>6, <1>7

(* The kernel keeps its fields.                                            *)
LEMMA CommandKernel ==
  ASSUME Shapes, NEW w \in Writers, RunCommand(w)
  PROVE  DOMAIN kernel' = KernelFields /\ kernel'.exists \in BOOLEAN /\ kernel'.jump \in BOOLEAN
<1> DEFINE c == Head(program[w].run)
           port == program[w].port
<1>1. kernel' = Changed(kernel, c, port) \/ kernel' \in AfterFailure(kernel, c)
  BY DEF RunCommand
<1> HIDE DEF c, port
<1> DEFINE Typed(k) == DOMAIN k = KernelFields /\ k.exists \in BOOLEAN /\ k.jump \in BOOLEAN
<1>2. Typed(Changed(kernel, c, port))
  BY DEF Shapes, KernelFields, Changed, Appended, Deleted
<1>3. \A k \in AfterFailure(kernel, c) : Typed(k)
  BY DEF Shapes, KernelFields, AfterFailure
<1> QED
  BY <1>1, <1>2, <1>3

(* The daemon's command is one of its job.                                 *)
OfJob(c) ==
  /\ job.kind # "none"
  /\ First("daemon")' = "end" => c \in Lasts(job.kind)
  /\ c \in Removing => ~Booting
  /\ c = "delete" => (First("daemon")' = "clear udp" <=> "mangle" \in job.cleans)
  /\ c = "clear udp" => "mangle" \in job.cleans
  /\ c \in Installing \cup Reporting =>
       program["daemon"].port = job.port /\ program["daemon"].tproxy = job.tproxy

(* What the daemon runs is a command its job asked for.                    *)
LEMMA DaemonTurn ==
  ASSUME Programs, NEW c, Turned("daemon", c)
  PROVE  OfJob(c)
<1> DEFINE p == program["daemon"]
<1>1. Serves(p, job) /\ Legal(p.run, p.tproxy) /\ p.run # <<>> /\ First("daemon") = c
  BY DEF Programs, Writers, Turned, Running
<1>2. Len(p.run) \in Nat \ {0} /\ 1 \in 1..Len(p.run) /\ p.run[1] = c
  BY <1>1 DEF Legal, First, At
<1>3. 1 + 1 = 2
  OBVIOUS
<1>4. First("daemon")' = (IF c = "hook" /\ ready THEN "flush" ELSE At(p.run, 2))
  BY DEF Turned
<1>5. /\ job.kind # "none"
      /\ c \in Removing => job.by # "boot"
      /\ c = "delete" => (At(p.run, 2) = "clear udp" <=> "mangle" \in job.cleans)
      /\ c = "clear udp" => "mangle" \in job.cleans
      /\ At(p.run, 2) = "end" => c \in Lasts(job.kind)
      /\ c \in Installing \cup Reporting => p.port = job.port /\ p.tproxy = job.tproxy
  BY <1>1, <1>2, <1>3 DEF Serves
<1> QED
  BY <1>4, <1>5 DEF OfJob, Booting

(* What a table demands is vacuous once it is disturbed.                   *)
LEMMA Disturbed ==
  ASSUME SameJob, spoilt' = Tables, LockFree \/ ~job'.alone
  PROVE  NatInv' /\ MangleInv'
<1>1. \A t \in Tables : ~Clean(t)' /\ ~Renewed(t)' /\ ~Rebuilt(t)'
  BY DEF SameJob, Clean, Renewed, Rebuilt, LockFree
<1>2. "nat" \in Tables /\ "mangle" \in Tables
  BY DEF Tables
<1> QED
  BY <1>1, <1>2 DEF NatInv, MangleInv

(* The daemon's undisturbed command keeps what its tables demand.          *)
LEMMA DaemonKeepsTables ==
  ASSUME IInv, Programs', NEW c, Turned("daemon", c), OfJob(c), SameJob, Alone("daemon"),
         kernel' = Changed(kernel, c, program["daemon"].port), spoilt' = spoilt,
         job'.alone <=> job.alone, UNCHANGED <<up, fw, ndm>>
  PROVE  NatInv' /\ MangleInv'
<1> DEFINE port == program["daemon"].port
           tproxy == program["daemon"].tproxy
           next == First("daemon")'
           clears == "mangle" \in job.cleans
           k == Changed(kernel, c, port)
<1>1. /\ DOMAIN kernel = KernelFields /\ c \in Commands \ {"probe"} /\ First("daemon") = c
      /\ next \in Follows(c, tproxy) \cup (IF c = "hook" THEN {"flush"} ELSE {})
      /\ next # "end" => program'["daemon"].port = port /\ program'["daemon"].tproxy = tproxy
      /\ ~LockFree /\ ~LockFree' /\ (Booting' <=> Booting) /\ clears' = clears
  BY DEF Turned, OfJob, SameJob, LockFree, Booting, IInv, Shapes
<1>2. /\ First("watchdog")' = "end" /\ First("ndm")' = "end"
      /\ Running("daemon")' <=> next # "end"
  <2>1. ~Running("watchdog") /\ ~Running("ndm")
    BY DEF Alone, Writers
  <2>2. First("watchdog") = "end" /\ First("ndm") = "end"
    BY <2>1, RunningFirst DEF IInv, Programs, Writers
  <2>3. program'["watchdog"] = program["watchdog"] /\ program'["ndm"] = program["ndm"]
    BY DEF Turned, Writers
  <2>4. Running("daemon") /\ First("daemon") = c /\ "end" \notin Commands
    BY DEF Turned, Commands, Installing, Reporting, Removing
  <2> QED
    BY <2>2, <2>3, RunningNext DEF First, Writers
<1>3. next = "end" => /\ job.kind = "start" => c = "ready"
                      /\ job.kind # "start" => c \in Removing
  BY <1>1 DEF OfJob, Lasts, Removing
<1>4. /\ \A t \in Tables : (Clean(t)' <=> Clean(t)) /\ (Renewed(t)' <=> Renewed(t))
      /\ \A t \in Tables : Rebuilt(t)' => Clean(t) \/ Renewed(t)
      /\ "nat" \in Tables /\ "mangle" \in Tables
  BY <1>1 DEF Clean, Renewed, Rebuilt, SameJob, Tables
<1>5. ASSUME Clean("nat") \/ Renewed("nat")
      PROVE  /\ NatAt(k, next, port, Booting)
             /\ next = "end" /\ c \in Installing \cup Reporting => Full(k, port)
             /\ next = "end" /\ c \in Removing => NoNat(k)
  <2>1. NatAt(kernel, c, port, Booting)
    BY <1>1, <1>5 DEF IInv, NatInv, NatHere
  <2> HIDE DEF port, tproxy, next
  <2> QED
    BY <1>1, <2>1, NatCommand
<1>6. ASSUME Clean("mangle") \/ Renewed("mangle")
      PROVE  /\ MangleAt(k, next, port, tproxy, Booting, clears)
             /\ next = "flush" /\ ~Booting /\ ~tproxy => k.udp = NoPort
             /\ next = "end" /\ c \in Installing \cup Reporting =>
                  /\ tproxy => k.udp = port
                  /\ ~tproxy /\ ~Booting => k.udp = NoPort
             /\ next = "end" /\ c \in Removing => k.udp = NoPort
  <2>1. MangleAt(kernel, c, port, tproxy, Booting, clears)
        /\ (c = "flush" /\ ~Booting /\ ~tproxy => kernel.udp = NoPort)
    BY <1>1, <1>6 DEF IInv, MangleInv, MangleHere
  <2>2. (c = "delete" => (next = "clear udp" <=> clears)) /\ (c = "clear udp" => clears)
    BY DEF OfJob
  <2> DEFINE b == Booting
  <2>3. MangleBefore(kernel, c, next, port, tproxy, b, clears)
    BY <1>1, <2>1, <2>2 DEF MangleBefore
  <2> HIDE DEF port, tproxy, next, clears, b
  <2>4. MangleAfter(Changed(kernel, c, port), c, next, port, tproxy, b, clears)
    BY <2>3, MangleCommand
  <2> QED
    BY <2>4 DEF b, MangleAfter
<1> HIDE DEF k
<1>7. kernel' = k
  BY DEF k
<1>8. NatInv'
  <2>1. ASSUME Clean("nat")' \/ Renewed("nat")' PROVE NatHere("daemon")'
    <3>1. NatAt(k, next, port, Booting)
      BY <1>4, <1>5, <2>1
    <3>2. CASE next = "end"
      BY <3>2 DEF NatHere, NatAt
    <3>3. CASE next # "end"
      BY <1>1, <1>7, <3>1, <3>3 DEF NatHere, NatAt, Full
    <3> QED
      BY <3>2, <3>3
  <2>2. NatHere("watchdog")' /\ NatHere("ndm")'
    BY <1>2 DEF NatHere, NatAt
  <2>3. ASSUME Rebuilt("nat")', Removed' PROVE NoNat(kernel)'
    BY <1>2, <1>3, <1>4, <1>5, <1>7, <2>3 DEF Removed, SameJob
  <2>4. ASSUME Rebuilt("nat")', Built' PROVE Full(kernel, job.port)'
    <3>1. next = "end" /\ c = "ready" /\ c \in Reporting /\ port = job.port
      BY <1>2, <1>3, <2>4 DEF Built, SameJob, Reporting, OfJob
    <3> QED
      BY <1>4, <1>5, <1>7, <2>4, <3>1 DEF SameJob
  <2> QED
    BY <1>1, <2>1, <2>2, <2>3, <2>4 DEF NatInv
<1>9. MangleInv'
  <2>1. ASSUME Clean("mangle")' \/ Renewed("mangle")'
        PROVE  /\ MangleHere("daemon", Booting)'
               /\ (First("daemon") = "flush" /\ ~Booting /\ ~program["daemon"].tproxy => kernel.udp = NoPort)'
    <3>1. /\ MangleAt(k, next, port, tproxy, Booting, clears)
          /\ next = "flush" /\ ~Booting /\ ~tproxy => k.udp = NoPort
      BY <1>4, <1>6, <2>1
    <3>2. CASE next = "end"
      BY <3>2 DEF MangleHere, MangleAt
    <3>3. CASE next # "end"
      BY <1>1, <1>7, <3>1, <3>3 DEF MangleHere, MangleAt
    <3> QED
      BY <3>2, <3>3
  <2>2. MangleHere("watchdog", FALSE)' /\ MangleHere("ndm", FALSE)'
    BY <1>2 DEF MangleHere, MangleAt
  <2>3. ASSUME Rebuilt("mangle")', Removed' PROVE kernel'.udp = NoPort
    BY <1>2, <1>3, <1>4, <1>6, <1>7, <2>3 DEF Removed, SameJob
  <2>4. ASSUME Rebuilt("mangle")', Built'
        PROVE  /\ job'.tproxy => kernel'.udp = job'.port
               /\ ~job'.tproxy /\ ~Booting' => kernel'.udp = NoPort
    <3>1. next = "end" /\ c = "ready" /\ c \in Reporting /\ port = job.port /\ tproxy = job.tproxy
      BY <1>2, <1>3, <2>4 DEF Built, SameJob, Reporting, OfJob
    <3> QED
      BY <1>1, <1>4, <1>6, <1>7, <2>4, <3>1 DEF SameJob
  <2> QED
    BY <1>1, <2>1, <2>2, <2>3, <2>4 DEF MangleInv
<1> QED
  BY <1>8, <1>9

(* So does the undisturbed command of a repair or a hook, which installs   *)
(* what the firewall is.                                                   *)
LEMMA FollowerKeepsTables ==
  ASSUME IInv, Programs', NEW w \in {"watchdog", "ndm"}, NEW c, Turned(w, c), SameJob,
         Alone(w), Faithful(w), kernel' = Changed(kernel, c, program[w].port), spoilt' = spoilt,
         UNCHANGED <<up, fw, ndm>>
  PROVE  NatInv' /\ MangleInv'
<1> DEFINE port == program[w].port
           tproxy == program[w].tproxy
           next == First(w)'
           clears == "mangle" \in job.cleans
           k == Changed(kernel, c, port)
<1>1. /\ DOMAIN kernel = KernelFields /\ c \in Commands \ {"probe"} /\ First(w) = c
      /\ next \in Follows(c, tproxy) \cup (IF c = "hook" THEN {"flush"} ELSE {})
      /\ next # "end" => program'[w].port = port /\ program'[w].tproxy = tproxy
      /\ c \in Installing /\ w \in Writers
      /\ LockFree /\ LockFree' /\ fw.active /\ port = fw.port /\ tproxy = fw.tproxy
  BY DEF Turned, SameJob, LockFree, Faithful, IInv, Shapes, Writers
<1>2. \A v \in Writers \ {w} : First(v)' = "end" /\ First(v) = "end"
  <2> SUFFICES ASSUME NEW v \in Writers \ {w} PROVE First(v)' = "end" /\ First(v) = "end"
    OBVIOUS
  <2>1. First(v) = "end"
    <3>1. ~Running(v)
      BY DEF Alone
    <3> QED
      BY <3>1, RunningFirst DEF IInv, Programs
  <2> QED
    BY <2>1 DEF Turned, First
<1>3. ~Running("daemon") /\ First("daemon")' = "end" /\ "daemon" \in Writers \ {w}
  BY <1>2 DEF Alone, Writers
<1>4. (Quiet /\ ndm = "idle")' => next = "end"
  BY <1>1, RunningNext DEF Quiet, Writers
<1>5. ASSUME Clean("nat")
      PROVE  NatAt(k, next, port, FALSE) /\ (next = "end" => Full(k, port))
  <2>1. NatAt(kernel, c, port, FALSE)
    BY <1>1, <1>5 DEF IInv, NatInv, NatHere, Rebuilt, NatAt, Installing
  <2> HIDE DEF port, tproxy, next
  <2> QED
    BY <1>1, <2>1, NatCommand
<1>6. ASSUME Clean("mangle")
      PROVE  /\ MangleAt(k, next, port, tproxy, FALSE, clears)
             /\ next = "flush" /\ ~tproxy => k.udp = NoPort
             /\ next = "end" /\ tproxy => k.udp = port
             /\ ~tproxy => k.udp = NoPort
  <2>1. MangleAt(kernel, c, port, tproxy, FALSE, clears) /\ (~tproxy => kernel.udp = NoPort)
    BY <1>1, <1>6 DEF IInv, MangleInv, MangleHere, Rebuilt, Writers
  <2>2. c # "delete" /\ c # "clear udp" /\ c # "hook"
    BY <1>1 DEF Installing
  <2>3. MangleBefore(kernel, c, next, port, tproxy, FALSE, clears)
    BY <1>1, <2>1, <2>2 DEF MangleBefore
  <2> HIDE DEF port, tproxy, next, clears
  <2>4. MangleAfter(Changed(kernel, c, port), c, next, port, tproxy, FALSE, clears)
    BY <2>3, MangleCommand
  <2>5. ~tproxy => Changed(kernel, c, port).udp = NoPort
    <3>1. ~tproxy => c # "udp"
      BY <1>1 DEF Follows
    <3> QED
      BY <1>1, <2>1, <3>1 DEF Changed, Appended, Installing, KernelFields
  <2> QED
    BY <1>1, <2>4, <2>5 DEF MangleAfter
<1> HIDE DEF k
<1>7. kernel' = k
  BY DEF k
<1>8. /\ (Clean("nat") <=> Clean("nat")') /\ (Clean("mangle") <=> Clean("mangle")')
      /\ ~Renewed("nat")' /\ ~Renewed("mangle")' /\ ~Built' /\ ~Removed'
      /\ (Rebuilt("nat")' => Clean("nat")) /\ (Rebuilt("mangle")' => Clean("mangle"))
      /\ job'.cleans = job.cleans /\ fw' = fw
  BY <1>1 DEF Clean, Renewed, Rebuilt, Built, Removed, SameJob
<1>9. NatInv'
  <2>1. ASSUME NEW v \in Writers, Clean("nat") PROVE NatHere(v)'
    <3>1. CASE v # w \/ next = "end"
      BY <1>2, <3>1 DEF NatHere, NatAt
    <3>2. CASE v = w /\ next # "end"
      BY <1>1, <1>5, <1>7, <2>1, <3>2 DEF NatHere, NatAt
    <3> QED
      BY <3>1, <3>2
  <2> QED
    BY <1>1, <1>4, <1>5, <1>7, <1>8, <2>1 DEF NatInv, Settled, Writers
<1>10. MangleInv'
  <2>1. ASSUME NEW v \in Writers, NEW b \in BOOLEAN, Clean("mangle"), b = FALSE \/ v # w
        PROVE MangleHere(v, b)'
    <3>1. CASE v # w \/ next = "end"
      BY <1>2, <3>1 DEF MangleHere, MangleAt
    <3>2. CASE v = w /\ next # "end"
      BY <1>1, <1>6, <1>7, <1>8, <2>1, <3>2 DEF MangleHere, MangleAt
    <3> QED
      BY <3>1, <3>2
  <2>2. Clean("mangle") => MangleHere("daemon", Booting)'
    BY <1>3 DEF MangleHere, MangleAt
  <2> QED
    BY <1>1, <1>3, <1>4, <1>6, <1>7, <1>8, <2>1, <2>2 DEF MangleInv, Settled, Writers
<1> QED
  BY <1>9, <1>10

(* A command ends a program that ends with it, and leaves what comes after *)
(* it pending.                                                             *)
LEMMA TailPending ==
  ASSUME NEW run, NEW tproxy, Legal(run, tproxy), run # <<>>
  PROVE  /\ \A x : (\E i \in 1..Len(Tail(run)) : Tail(run)[i] = x) => \E i \in 1..Len(run) : run[i] = x
         /\ \A x : (\E i \in 1..Len(run) : run[i] = x) /\ x # Head(run) =>
                     \E i \in 1..Len(Tail(run)) : Tail(run)[i] = x
<1>1. /\ Len(run) \in Nat \ {0} /\ Len(Tail(run)) = Len(run) - 1
      /\ \A i \in 1..Len(Tail(run)) : Tail(run)[i] = run[i + 1]
      /\ Head(run) = run[1]
  BY TailLegal
<1>2. ASSUME NEW x, NEW i \in 1..Len(Tail(run)), Tail(run)[i] = x
      PROVE  \E j \in 1..Len(run) : run[j] = x
  <2>1. i + 1 \in 1..Len(run)
    BY <1>1
  <2> QED
    BY <1>1, <1>2, <2>1
<1>3. ASSUME NEW x, NEW i \in 1..Len(run), run[i] = x, x # Head(run)
      PROVE  \E j \in 1..Len(Tail(run)) : Tail(run)[j] = x
  <2>1. i # 1
    BY <1>1, <1>3
  <2>2. i - 1 \in 1..Len(Tail(run)) /\ (i - 1) + 1 = i
    BY <1>1, <2>1
  <2> QED
    BY <1>1, <1>3, <2>2
<1> QED
  BY <1>2, <1>3

(* Only the daemon writes the files, and what it is about to report it     *)
(* has written.                                                            *)
LEMMA CommandFiles ==
  ASSUME IInv, Programs', NEW w \in Writers, RunCommand(w), Turned(w, Head(program[w].run)),
         w = "daemon" => OfJob(Head(program[w].run)), SameJob,
         spoilt' = spoilt \/ spoilt' = Tables
  PROVE  FilesInv'
<1> DEFINE c == Head(program[w].run)
<1>1. /\ hook' = (CASE c = "hook" -> [port |-> program[w].port, tproxy |-> program[w].tproxy]
                    [] c = "unhook" -> [port |-> NoPort, tproxy |-> FALSE]
                    [] OTHER -> hook)
      /\ ready' = (CASE c = "ready" -> TRUE [] c = "unhook" -> FALSE [] OTHER -> ready)
      /\ fw' = fw /\ up' = up /\ leftover' = leftover
      /\ (LockFree' <=> LockFree) /\ (Booting' <=> Booting) /\ FilesInv
  BY DEF RunCommand, SameJob, LockFree, Booting, IInv
<1>2. CASE w # "daemon"
  <2>1. c \notin {"hook", "unhook", "ready"}
    BY <1>2 DEF Turned, Installing
  <2>2. hook' = hook /\ ready' = ready
    BY <1>1, <2>1
  <2>3. program'["daemon"] = program["daemon"]
    BY <1>2 DEF Turned, Writers
  <2>4. /\ First("daemon")' = First("daemon") /\ (Running("daemon")' <=> Running("daemon"))
        /\ \A x : Pending(x)' <=> Pending(x)
    BY <2>3 DEF First, Running, Pending
  <2>5. (Removed' <=> Removed) /\ (Built' <=> Built)
    BY <1>1, <2>4 DEF Removed, Built, SameJob
  <2> HIDE DEF c
  <2> QED
    <3>1. (Pending("ready")' <=> Pending("ready")) /\ (Pending("hook")' <=> Pending("hook"))
      BY <2>4
    <3>2. (leftover => ~fw.active /\ spoilt = Tables)'
      BY <1>1 DEF FilesInv
    <3> QED
      <4>1. /\ fw' = fw /\ up' = up /\ leftover' = leftover /\ FilesInv
            /\ (LockFree' <=> LockFree) /\ (Booting' <=> Booting)
        BY <1>1
      <4>2. /\ LockFree' /\ fw'.active => ready' /\ hook' = [port |-> fw'.port, tproxy |-> fw'.tproxy]
            /\ LockFree' /\ up' /\ ~leftover' /\ ~fw'.active => ~ready'
        BY <2>2, <4>1 DEF FilesInv
      <4>3. /\ First("daemon")' \in {"unjump", "delete", "clear udp"} => ~ready'
            /\ First("daemon")' = "probe" /\ ~Booting' => ~ready'
            /\ Removed' => ~ready'
        BY <2>2, <2>4, <2>5, <4>1 DEF FilesInv
      <4>4. /\ Pending("ready")' /\ ~Pending("hook")' => hook' = [port |-> job'.port, tproxy |-> job'.tproxy]
            /\ Built' => ready' /\ hook' = [port |-> job'.port, tproxy |-> job'.tproxy]
        BY <2>2, <2>5, <3>1, <4>1 DEF FilesInv, SameJob
      <4> QED
        BY <3>2, <4>2, <4>3, <4>4 DEF FilesInv
<1>3. CASE w = "daemon"
  <2> DEFINE next == First("daemon")'
             run == program["daemon"].run
  <2>1. /\ c \in Commands \ {"probe"} /\ First("daemon") = c /\ OfJob(c) /\ ~LockFree /\ ~LockFree'
        /\ next \in Follows(c, program["daemon"].tproxy) \cup (IF c = "hook" THEN {"flush"} ELSE {})
        /\ (Running("daemon")' <=> next # "end")
    BY <1>1, <1>3, RunningNext DEF Turned, OfJob, LockFree, Writers
  <2>2. Legal(run, program["daemon"].tproxy) /\ run # <<>> /\ c = Head(run)
    BY <1>3 DEF IInv, Programs, Turned, Running, Writers
  <2>3. c # "hook" => \A x : /\ Pending(x)' => Pending(x)
                             /\ Pending(x) /\ x # c => Pending(x)'
    <3> SUFFICES ASSUME c # "hook", NEW x
                 PROVE  (Pending(x)' => Pending(x)) /\ (Pending(x) /\ x # c => Pending(x)')
      OBVIOUS
    <3>1. program'["daemon"].run = Tail(run)
      <4>1. DOMAIN program = Writers /\ DOMAIN program["daemon"] = {"run", "port", "tproxy"}
        BY DEF IInv, Shapes, Writers
      <4>2. AfterCommand("daemon", c) = Tail(run)
        BY DEF AfterCommand
      <4>3. program' = [program EXCEPT !["daemon"] =
                          IF Tail(run) = <<>> THEN NoProgram ELSE [@ EXCEPT !.run = Tail(run)]]
        BY <1>3, <4>2 DEF RunCommand
      <4>4. NoProgram.run = <<>>
        BY DEF NoProgram
      <4> QED
        BY <4>1, <4>3, <4>4 DEF Writers
    <3> DEFINE r == run
               tp == program["daemon"].tproxy
    <3>2. /\ (\E i \in 1..Len(Tail(r)) : Tail(r)[i] = x) => \E i \in 1..Len(r) : r[i] = x
          /\ (\E i \in 1..Len(r) : r[i] = x) /\ x # Head(r) => \E i \in 1..Len(Tail(r)) : Tail(r)[i] = x
      <4>1. Legal(r, tp) /\ r # <<>>
        BY <2>2
      <4> HIDE DEF r, tp
      <4> QED
        BY <4>1, TailPending
    <3> QED
      BY <2>2, <3>1, <3>2 DEF Pending
  <2>4. hook' = hook \/ c \in {"hook", "unhook"}
    BY <1>1
  <2>5. c = "hook" => hook' = [port |-> job'.port, tproxy |-> job'.tproxy]
    BY <1>1, <1>3, <2>1 DEF OfJob, SameJob, Reporting
  <2>6. c = "ready" => Pending("ready") /\ ~Pending("hook") /\ next = "end"
    <3> SUFFICES ASSUME c = "ready" PROVE Pending("ready") /\ ~Pending("hook") /\ next = "end"
      OBVIOUS
    <3>1. next = "end" /\ ~Running("daemon")'
      BY <2>1 DEF Follows
    <3>2. \A x : ~Pending(x)'
      <4>1. program'["daemon"].run = <<>>
        BY <3>1 DEF Running
      <4> QED
        BY <4>1 DEF Pending
    <3>3. ~Pending("hook")
      BY <2>3, <3>2
    <3>4. Pending("ready")
      <4>1. Len(run) \in Nat \ {0} /\ run[1] = "ready"
        BY <2>2 DEF Legal
      <4>2. 1 \in 1..Len(run)
        BY <4>1
      <4> QED
        BY <4>1, <4>2 DEF Pending
    <3> QED
      BY <3>1, <3>3, <3>4
  <2> HIDE DEF c, next
  <2>7. next = "end" => /\ job.kind = "start" => c = "ready"
                        /\ job.kind # "start" => c \in {"delete", "clear udp"}
    BY <2>1 DEF OfJob, Lasts, next
  <2>8. (leftover => ~fw.active /\ spoilt = Tables)'
    BY <1>1 DEF FilesInv
  <2>9. First("daemon")' \in {"unjump", "delete", "clear udp"} => ~ready'
    <3>1. next \in {"unjump", "delete", "clear udp"} => c \in {"unhook", "unjump", "delete"}
      BY <2>1 DEF Follows, Commands, Installing, Reporting, Removing
    <3> QED
      BY <1>1, <2>1, <3>1 DEF FilesInv, next
  <2>10. First("daemon")' = "probe" /\ ~Booting' => ~ready'
    <3>1. next = "probe" => c \in {"delete", "clear udp"}
      BY <2>1 DEF Follows, Commands, Installing, Reporting, Removing
    <3> QED
      BY <1>1, <2>1, <3>1 DEF FilesInv, next
  <2>11. Pending("ready")' /\ ~Pending("hook")' => hook' = [port |-> job'.port, tproxy |-> job'.tproxy]
    <3>1. CASE c = "hook"
      BY <2>5, <3>1
    <3>2. CASE c = "unhook"
      <4>1. ~Pending("ready")'
        <5>1. ~Pending("ready")
          <6>1. Reports(run)
            BY DEF IInv, Programs, Serves
          <6>2. Len(run) \in Nat \ {0} /\ run[1] = "unhook" /\ "unhook" \in Removing
            BY <2>2, <3>2 DEF Legal, Removing
          <6>3. 1 \in 1..Len(run)
            BY <6>2
          <6> QED
            BY <6>1, <6>2, <6>3 DEF Reports, Pending
        <5> QED
          BY <2>3, <3>2, <5>1
      <4> QED
        BY <4>1
    <3>3. CASE c \notin {"hook", "unhook"}
      BY <1>1, <2>3, <2>4, <3>3 DEF FilesInv, SameJob
    <3> QED
      BY <3>1, <3>2, <3>3
  <2>12. Removed' => ~ready'
    BY <1>1, <2>1, <2>7 DEF Removed, SameJob, FilesInv, next
  <2>13. Built' => ready' /\ hook' = [port |-> job'.port, tproxy |-> job'.tproxy]
    BY <1>1, <2>1, <2>4, <2>6, <2>7 DEF Built, SameJob, FilesInv, next
  <2> QED
    BY <2>1, <2>8, <2>9, <2>10, <2>11, <2>12, <2>13 DEF FilesInv
<1> QED
  BY <1>2, <1>3

(* One command of any writer.                                              *)
LEMMA CommandStep ==
  ASSUME IInv, NEW w \in Writers, RunCommand(w)
  PROVE  IInv'
<1> DEFINE c == Head(program[w].run)
<1>1. /\ SameJob /\ Serves(program["daemon"], job')
      /\ \/ /\ Undisturbed(w) /\ kernel' = Changed(kernel, c, program[w].port)
            /\ spoilt' = spoilt /\ (job'.alone <=> job.alone)
         \/ spoilt' = Tables /\ (LockFree \/ ~job'.alone)
  BY CommandJob
<1>2. /\ Turned(w, c) /\ Programs'
      /\ DOMAIN program' = Writers /\ \A v \in Writers : DOMAIN program'[v] = {"run", "port", "tproxy"}
  BY <1>1, Turn DEF IInv
<1>3. w = "daemon" => OfJob(c)
  BY <1>2, DaemonTurn DEF IInv
<1>4. /\ UNCHANGED <<settings, fw, up, tx, wd, ndm>>
      /\ hook' = (CASE c = "hook" -> [port |-> program[w].port, tproxy |-> program[w].tproxy]
                    [] c = "unhook" -> [port |-> NoPort, tproxy |-> FALSE]
                    [] OTHER -> hook)
      /\ (events' = events \/ events' = events + 1)
  BY DEF RunCommand, Quietly, Event
<1> HIDE DEF c
<1>5. Shapes'
  <2>1. hook'.tproxy \in BOOLEAN
    <3>1. CASE c = "hook"
      <4>1. w = "daemon"
        BY <1>2, <3>1 DEF Turned, Installing
      <4>2. hook'.tproxy = job.tproxy
        BY <1>3, <1>4, <3>1, <4>1 DEF OfJob, Reporting
      <4> QED
        BY <4>2 DEF IInv, Shapes
    <3>2. CASE c # "hook"
      BY <1>4, <3>2 DEF IInv, Shapes
    <3> QED
      BY <3>1, <3>2
  <2>2. DOMAIN kernel' = KernelFields /\ kernel'.exists \in BOOLEAN /\ kernel'.jump \in BOOLEAN
    BY CommandKernel DEF IInv
  <2>3. events' \in Nat
    BY <1>4 DEF IInv, Shapes
  <2> QED
    BY <1>1, <1>2, <1>4, <2>1, <2>2, <2>3 DEF IInv, Shapes, SameJob
<1>6. PortsKnown'
  BY <1>1, <1>4 DEF IInv, PortsKnown, SameJob
<1>9. JobInv'
  BY <1>1, <1>4 DEF IInv, JobInv, SameJob, LockFree, Booting
<1>7. NatInv' /\ MangleInv'
  <2>1. CASE spoilt' = Tables /\ (LockFree \/ ~job'.alone)
    BY <1>1, <2>1, Disturbed
  <2>2. CASE /\ Undisturbed(w) /\ kernel' = Changed(kernel, c, program[w].port)
             /\ spoilt' = spoilt /\ (job'.alone <=> job.alone)
    <3>1. CASE w = "daemon"
      BY <1>1, <1>2, <1>3, <1>4, <2>2, <3>1, DaemonKeepsTables DEF Undisturbed
    <3>2. CASE w # "daemon"
      <4>1. w \in {"watchdog", "ndm"}
        BY <3>2 DEF Writers
      <4> QED
        BY <1>1, <1>2, <1>4, <2>2, <4>1, FollowerKeepsTables DEF Undisturbed
    <3> QED
      BY <3>1, <3>2
  <2> QED
    BY <1>1, <2>1, <2>2
<1>8. FilesInv'
  BY <1>1, <1>2, <1>3, CommandFiles DEF c
<1> QED
  BY <1>2, <1>5, <1>6, <1>7, <1>8, <1>9 DEF IInv

-----------------------------------------------------------------------------
(* The steps that run no command.                                          *)

(* Repairs and hooks only install.                                         *)
LEMMA InstallerFirst ==
  ASSUME Programs, NEW w \in {"watchdog", "ndm"}
  PROVE  First(w) \in Installing \cup {"end"}
<1> DEFINE run == program[w].run
<1>1. Installs(program[w]) /\ run \in Seq(Commands)
  BY DEF Programs, Legal, Writers
<1>2. CASE run = <<>>
  BY <1>2 DEF First, At
<1>3. CASE run # <<>>
  <2>1. Len(run) \in Nat \ {0}
    BY <1>1, <1>3
  <2>2. 1 \in 1..Len(run)
    BY <2>1
  <2> QED
    BY <1>1, <2>1, <2>2 DEF Installs, First, At
<1> QED
  BY <1>2, <1>3

(* Without a job the daemon runs nothing.                                  *)
LEMMA LockFreeIdle ==
  ASSUME Programs, LockFree
  PROVE  ~Running("daemon") /\ First("daemon") = "end" /\ \A x : ~Pending(x)
<1> DEFINE run == program["daemon"].run
<1>1. run \in Seq(Commands) /\ \A i \in 1..Len(run) : FALSE
  BY DEF Programs, Legal, Writers, Serves, LockFree
<1>2. run = <<>>
  <2>1. CASE run # <<>>
    <3>1. Len(run) \in Nat \ {0}
      BY <1>1, <2>1
    <3>2. 1 \in 1..Len(run)
      BY <3>1
    <3> QED
      BY <1>1, <3>2
  <2> QED
    BY <2>1
<1> QED
  BY <1>1, <1>2 DEF Running, First, At, Pending

(* A writer that goes on, begins an installation or is done has the tables *)
(* it had.                                                                 *)
LEMMA Others ==
  ASSUME Programs, NEW w \in {"watchdog", "ndm"}, kernel' = kernel,
         program'[w] = program[w] \/ First(w)' \in {"flush", "end"}
  PROVE  (NatHere(w) => NatHere(w)') /\ (MangleHere(w, FALSE) => MangleHere(w, FALSE)')
<1>1. First(w) \in Installing \cup {"end"}
  BY InstallerFirst
<1>2. CASE First(w)' \in {"flush", "end"}
  BY <1>2 DEF NatHere, MangleHere, NatAt, MangleAt
<1>3. CASE program'[w] = program[w]
  <2>1. First(w)' = First(w)
    BY <1>3 DEF First
  <2> QED
    BY <1>1, <1>3, <2>1 DEF NatHere, MangleHere, NatAt, MangleAt, Installing
<1> QED
  BY <1>2, <1>3

(* A program that begins with a first rule.                                *)
LEMMA BeginInstallation ==
  ASSUME NEW tproxy \in BOOLEAN
  PROVE  /\ Legal(Installation(tproxy), tproxy) /\ At(Installation(tproxy), 1) = "flush"
         /\ \A i \in 1..Len(Installation(tproxy)) : Installation(tproxy)[i] \in Installing
         /\ Installation(tproxy) \in Seq(Commands)
<1>1. Legal(<<>>, tproxy) /\ At(<<>>, 1) = "end" /\ Len(<<>>) = 0
  BY NoneLegal
<1>2. 1..Len(<<>>) = {}
  BY <1>1
<1>3. Installation(tproxy) \o <<>> = Installation(tproxy)
  <2>1. Installation(tproxy) \in Seq(Commands)
    <3>1. CASE tproxy = TRUE
      BY <3>1, AllRulesFacts DEF Installation, UdpRules, NatRules
    <3>2. CASE tproxy = FALSE
      <4>1. NatRules \o <<>> = NatRules /\ NatRules \in Seq(Commands)
        BY NatRulesFacts, ConcatEmptySeq
      <4> QED
        BY <3>2, <4>1 DEF Installation, UdpRules, NatRules
    <3> QED
      BY <3>1, <3>2
  <2> QED
    BY <2>1, ConcatEmptySeq
<1> DEFINE rest == <<>>
<1>4. Legal(rest, tproxy) /\ At(rest, 1) \in {"hook", "ready", "end"}
  BY <1>1
<1> HIDE DEF rest
<1>5. /\ Legal(Installation(tproxy) \o rest, tproxy)
      /\ At(Installation(tproxy) \o rest, 1) = "flush"
      /\ \A i \in 1..Len(Installation(tproxy) \o rest) :
           \/ (Installation(tproxy) \o rest)[i] \in Installing
           \/ \E j \in 1..Len(rest) : TRUE
  BY <1>4, InstallationLegal
<1> QED
  BY <1>2, <1>3, <1>5 DEF rest, Legal

(* A step that leaves the daemon, its job and the router alone.            *)
LEMMA Frame ==
  ASSUME IInv, Shapes', PortsKnown', JobInv', Programs',
         UNCHANGED <<fw, kernel, hook, ready, up, job, spoilt, leftover>>,
         program'["daemon"] = program["daemon"],
         \A w \in {"watchdog", "ndm"} : program'[w] = program[w] \/ First(w)' \in {"flush", "end"},
         Settled' => Settled \/ ~(ready /\ hook.port # NoPort)
  PROVE  IInv'
<1>1. /\ First("daemon")' = First("daemon") /\ (Running("daemon")' <=> Running("daemon"))
      /\ (LockFree' <=> LockFree) /\ (Booting' <=> Booting)
      /\ (Pending("ready")' <=> Pending("ready")) /\ (Pending("hook")' <=> Pending("hook"))
  BY DEF First, Running, LockFree, Booting, Pending
<1>2. /\ (Removed' <=> Removed) /\ (Built' <=> Built)
      /\ \A t \in Tables : /\ (Clean(t)' <=> Clean(t)) /\ (Renewed(t)' <=> Renewed(t))
                           /\ (Rebuilt(t)' <=> Rebuilt(t))
      /\ "nat" \in Tables /\ "mangle" \in Tables
  BY <1>1 DEF Removed, Built, Clean, Renewed, Rebuilt, Tables
<1>3. /\ NatHere("daemon")' <=> NatHere("daemon")
      /\ MangleHere("daemon", Booting)' <=> MangleHere("daemon", Booting)
  BY <1>1 DEF NatHere, MangleHere, NatAt, MangleAt, Full, NoNat
<1>4. \A w \in {"watchdog", "ndm"} :
        (NatHere(w) => NatHere(w)') /\ (MangleHere(w, FALSE) => MangleHere(w, FALSE)')
  BY Others DEF IInv
<1>5. Built \/ (LockFree /\ fw.active) => ready /\ hook.port # NoPort
  <2>1. CASE Built
    <3>1. ready /\ hook.port = job.port /\ job.port \in Ports
      <4>1. ready /\ hook = [port |-> job.port, tproxy |-> job.tproxy]
        BY <2>1 DEF IInv, FilesInv
      <4>2. job.port \in Ports
        BY <2>1 DEF IInv, PortsKnown, Built
      <4> QED
        BY <4>1, <4>2
    <3> QED
      BY <3>1, FirewallAssumption
  <2>2. CASE LockFree /\ fw.active
    <3>1. ready /\ hook.port = fw.port /\ fw.port \in Ports
      <4>1. ready /\ hook = [port |-> fw.port, tproxy |-> fw.tproxy]
        BY <2>2 DEF IInv, FilesInv
      <4>2. fw.port \in Ports
        BY <2>2 DEF IInv, PortsKnown
      <4> QED
        BY <4>1, <4>2
    <3> QED
      BY <3>1, FirewallAssumption
  <2> QED
    BY <2>1, <2>2
<1>6. NatInv'
  BY <1>1, <1>2, <1>3, <1>4, <1>5 DEF IInv, NatInv, Full, NoNat
<1>7. MangleInv'
  BY <1>1, <1>2, <1>3, <1>4, <1>5 DEF IInv, MangleInv
<1>8. FilesInv'
  BY <1>1, <1>2 DEF IInv, FilesInv
<1> QED
  BY <1>6, <1>7, <1>8 DEF IInv

(* A job that begins with the removal of the firewall there is.            *)
LEMMA BeginJob ==
  ASSUME IInv, LockFree, up, NEW run, NEW port, NEW tproxy \in BOOLEAN,
         Removal(run, tproxy, fw.tproxy, Lasts(job'.kind)), At(run, 1) = "unhook",
         program' = [program EXCEPT !["daemon"] = Program(run, port, tproxy)],
         DOMAIN job' = JobFields, job'.kind \in {"start", "stop"}, job'.by # "boot",
         job'.tproxy \in BOOLEAN, job'.cleans = Cleaned,
         job'.kind = "start" => job'.port \in Ports,
         job'.by = "shutdown" => job'.kind = "stop" /\ tx.step = "none",
         job'.by \in {"activation", "rollback"} => tx.step # "none",
         events' \in Nat,
         UNCHANGED <<settings, fw, kernel, hook, ready, up, tx, wd, ndm, spoilt, leftover>>
  PROVE  IInv'
<1>1. /\ program'["daemon"].run = run /\ program'["daemon"].port = port /\ program'["daemon"].tproxy = tproxy
      /\ program'["watchdog"] = program["watchdog"] /\ program'["ndm"] = program["ndm"]
      /\ DOMAIN program' = Writers /\ \A w \in Writers : DOMAIN program'[w] = {"run", "port", "tproxy"}
  <2> DEFINE p == Program(run, port, tproxy)
  <2>1. /\ p.run = run /\ p.port = port /\ p.tproxy = tproxy /\ DOMAIN p = {"run", "port", "tproxy"}
        /\ program' = [program EXCEPT !["daemon"] = p]
    BY DEF Program
  <2> HIDE DEF p
  <2> QED
    BY <2>1 DEF IInv, Shapes, Writers
<1>2. /\ First("daemon")' = "unhook" /\ Running("daemon")'
      /\ ~LockFree' /\ ~Booting' /\ ~Removed' /\ ~Built'
      /\ ("mangle" \in job'.cleans <=> fw.tproxy)
  <2>1. First("daemon")' = "unhook"
    BY <1>1 DEF First
  <2>2. Running("daemon")' /\ ~LockFree' /\ ~Booting'
    BY <1>1 DEF Running, LockFree, Booting, Removal
  <2>3. "mangle" \in job'.cleans <=> fw.tproxy
    BY DEF Cleaned, Tables, IInv, Shapes
  <2> QED
    BY <2>1, <2>2, <2>3 DEF Removed, Built
<1>3. Shapes'
  BY <1>1 DEF IInv, Shapes
<1>4. PortsKnown'
  BY DEF IInv, PortsKnown
<1>5. JobInv'
  BY DEF IInv, JobInv, Booting
<1>6. Programs'
  <2>1. Removing \cap (Installing \cup Reporting) = {} /\ "ready" \notin Removing /\ "probe" \notin Installing \cup Reporting
    BY DEF Removing, Installing, Reporting
  <2>2. Reports(run)
    BY DEF Removal, Reports, Removing
  <2>3. Serves(program'["daemon"], job')
    <3> DEFINE q == program'["daemon"]
               j == job'
    <3>1. /\ q.run = run /\ j.kind # "none" /\ j.by # "boot" /\ ("mangle" \in j.cleans <=> fw.tproxy)
          /\ Removal(run, tproxy, fw.tproxy, Lasts(j.kind)) /\ Reports(q.run)
      BY <1>1, <1>2, <2>2
    <3> HIDE DEF q, j
    <3> SUFFICES Serves(q, j)
      BY DEF q, j
    <3> QED
      BY <2>1, <3>1 DEF Serves, Removal
  <2>4. Legal(run, tproxy)
    BY DEF Removal
  <2> QED
    BY <1>1, <2>3, <2>4 DEF IInv, Programs, Writers
<1>7. /\ \A t \in Tables : (Clean(t)' <=> Clean(t)) /\ (Rebuilt(t)' => Rebuilt(t) /\ Clean(t))
      /\ "nat" \in Tables /\ "mangle" \in Tables
  BY <1>2 DEF Clean, Rebuilt, Tables
<1>8. \A w \in {"watchdog", "ndm"} :
        (NatHere(w) => NatHere(w)') /\ (MangleHere(w, FALSE) => MangleHere(w, FALSE)')
  BY <1>1, Others DEF IInv
<1>9. NatInv'
  <2>1. NatHere("daemon")'
    BY <1>2 DEF NatHere, NatAt
  <2> QED
    BY <1>2, <1>7, <1>8, <2>1 DEF IInv, NatInv
<1>10. MangleInv'
  <2>1. Clean("mangle") /\ ~fw.tproxy => kernel.udp = NoPort
    BY DEF IInv, MangleInv
  <2>2. ASSUME Clean("mangle")' \/ Renewed("mangle")' PROVE MangleHere("daemon", Booting)'
    <3>1. ("mangle" \in job.cleans)' \/ kernel'.udp = NoPort
      BY <1>2, <1>7, <2>1, <2>2 DEF Renewed
    <3> QED
      BY <1>2, <3>1 DEF MangleHere, MangleAt
  <2> QED
    BY <1>2, <1>7, <1>8, <2>2 DEF IInv, MangleInv
<1>11. FilesInv'
  <2>1. ~Pending("ready")'
    <3>1. \A i \in 1..Len(run) : run[i] # "ready"
      BY DEF Removal, Removing
    <3> QED
      BY <1>1, <3>1 DEF Pending
  <2> QED
    BY <1>2, <2>1 DEF IInv, FilesInv
<1> QED
  BY <1>3, <1>4, <1>5, <1>6, <1>9, <1>10, <1>11 DEF IInv

(* A stop, and a start that stops first.                                   *)
LEMMA StopStep ==
  ASSUME IInv, LockFree, up, NEW by, BeginStop(by), by # "boot",
         by = "shutdown" => tx.step = "none", by \in {"activation", "rollback"} => tx.step # "none",
         events' \in Nat,
         UNCHANGED <<settings, fw, kernel, hook, ready, up, tx, wd, ndm, spoilt, leftover>>
  PROVE  IInv'
<1> DEFINE t == fw.tproxy
           run == Stop(t)
<1>1. t \in BOOLEAN
  BY DEF IInv, Shapes
<1>2. /\ job' = [NoJob EXCEPT !.kind = "stop", !.by = by, !.tproxy = t, !.cleans = Cleaned]
      /\ program' = [program EXCEPT !["daemon"] = Program(run, NoPort, t)]
  BY DEF BeginStop
<1>3. /\ DOMAIN job' = JobFields /\ job'.kind = "stop" /\ job'.by = by /\ job'.tproxy = t
      /\ job'.cleans = Cleaned
  BY <1>2 DEF NoJob, JobFields
<1>4. Removal(run, t, t, Lasts(job'.kind)) /\ At(run, 1) = "unhook"
  <2>1. Lasts(job'.kind) = {"delete", "clear udp"}
    BY <1>3 DEF Lasts
  <2> HIDE DEF t
  <2> QED
    BY <1>1, <2>1, StopLegal
<1> HIDE DEF run
<1> QED
  BY <1>1, <1>2, <1>3, <1>4, BeginJob

(* A start by request, activation or rollback begins by taking down what   *)
(* is there.                                                               *)
LEMMA StartStep ==
  ASSUME IInv, LockFree, up, NEW by, NEW port \in Ports, NEW known, BeginStart(by, port, known, TRUE),
         by \notin {"boot", "shutdown"}, by \in {"activation", "rollback"} => tx.step # "none",
         events' \in Nat,
         UNCHANGED <<settings, fw, kernel, hook, ready, up, tx, wd, ndm, spoilt, leftover>>
  PROVE  IInv'
<1> DEFINE t == fw.tproxy
           run == Append(Stop(t), "probe")
<1>1. t \in BOOLEAN
  BY DEF IInv, Shapes
<1>2. /\ job' = [NoJob EXCEPT !.kind = "start", !.by = by, !.port = port, !.known = known, !.cleans = Cleaned]
      /\ program' = [program EXCEPT !["daemon"] = Program(run, port, FALSE)]
  BY DEF BeginStart
<1>3. /\ DOMAIN job' = JobFields /\ job'.kind = "start" /\ job'.by = by /\ job'.tproxy = FALSE
      /\ job'.port = port /\ job'.cleans = Cleaned
  BY <1>2 DEF NoJob, JobFields
<1>4. Removal(run, FALSE, t, Lasts(job'.kind)) /\ At(run, 1) = "unhook"
  <2>1. Removal(run, FALSE, t, {"probe"}) /\ At(run, 1) = "unhook"
    <3> HIDE DEF t
    <3> QED
      BY <1>1, ProbeLegal
  <2>2. {"probe"} \subseteq Lasts(job'.kind)
    BY <1>3 DEF Lasts
  <2> QED
    BY <2>1, <2>2 DEF Removal
<1> HIDE DEF run
<1> QED
  BY <1>1, <1>2, <1>3, <1>4, BeginJob

(* What a start runs once it is allowed to.                                *)
LEMMA StartLegal ==
  ASSUME NEW tproxy \in BOOLEAN
  PROVE  /\ Legal(Start(tproxy), tproxy) /\ At(Start(tproxy), 1) = "flush" /\ Start(tproxy) # <<>>
         /\ \A i \in 1..Len(Start(tproxy)) :
              /\ Start(tproxy)[i] \in Installing \cup Reporting
              /\ At(Start(tproxy), i + 1) = "end" => Start(tproxy)[i] = "ready"
         /\ \E i \in 1..Len(Start(tproxy)) : Start(tproxy)[i] = "hook"
<1> DEFINE rest == <<"hook", "ready">>
<1>1. Start(tproxy) = Installation(tproxy) \o rest
  BY DEF Start
<1>2. rest \in Seq(Commands) /\ Len(rest) = 2 /\ rest[1] = "hook" /\ rest[2] = "ready"
  BY DEF Commands, Reporting
<1> HIDE DEF rest
<1>3. /\ At(rest, 1) = "hook" /\ At(rest, 1 + 1) = "ready" /\ At(rest, 2 + 1) = "end"
      /\ \A i \in 1..Len(rest) : i = 1 \/ i = 2
  BY <1>2 DEF At
<1>4. Legal(rest, tproxy)
  BY <1>2, <1>3 DEF Legal, Follows
<1>5. /\ Legal(Installation(tproxy) \o rest, tproxy)
      /\ Installation(tproxy) \o rest # <<>> /\ At(Installation(tproxy) \o rest, 1) = "flush"
      /\ \A i \in 1..Len(Installation(tproxy) \o rest) :
           \/ /\ (Installation(tproxy) \o rest)[i] \in Installing
              /\ At(Installation(tproxy) \o rest, i + 1) \in Installing \cup {At(rest, 1)}
           \/ \E j \in 1..Len(rest) : /\ (Installation(tproxy) \o rest)[i] = rest[j]
                                      /\ At(Installation(tproxy) \o rest, i + 1) = At(rest, j + 1)
      /\ \A j \in 1..Len(rest) : \E i \in 1..Len(Installation(tproxy) \o rest) :
           (Installation(tproxy) \o rest)[i] = rest[j]
  <2>1. At(rest, 1) \in {"hook", "ready", "end"}
    BY <1>3
  <2> QED
    BY <1>4, <2>1, InstallationLegal
<1>6. 1 \in 1..Len(rest)
  BY <1>2
<1> DEFINE run == Installation(tproxy) \o rest
<1>7. ASSUME NEW i \in 1..Len(run)
      PROVE  run[i] \in Installing \cup Reporting /\ (At(run, i + 1) = "end" => run[i] = "ready")
  <2>1. CASE run[i] \in Installing /\ At(run, i + 1) \in Installing \cup {At(rest, 1)}
    BY <1>3, <2>1 DEF Installing
  <2>2. CASE \E j \in 1..Len(rest) : run[i] = rest[j] /\ At(run, i + 1) = At(rest, j + 1)
    BY <1>2, <1>3, <2>2 DEF Reporting
  <2> QED
    BY <1>5, <2>1, <2>2
<1> QED
  BY <1>1, <1>2, <1>5, <1>6, <1>7

(* A probe comes last, in a start.                                         *)
LEMMA ProbeOfStart ==
  ASSUME Programs, Running("daemon"), Head(program["daemon"].run) = "probe"
  PROVE  First("daemon") = "probe" /\ job.kind = "start"
<1> DEFINE run == program["daemon"].run
           tproxy == program["daemon"].tproxy
<1>1. Legal(run, tproxy) /\ run # <<>> /\ Serves(program["daemon"], job)
  BY DEF Programs, Running, Writers
<1>2. Len(run) \in Nat \ {0} /\ run[1] = "probe" /\ At(run, 1) = "probe"
  BY <1>1 DEF Legal, At
<1>3. 1 \in 1..Len(run)
  BY <1>2
<1>4. At(run, 1 + 1) = "end"
  BY <1>1, <1>2, <1>3 DEF Legal, Follows
<1>5. "probe" \in Lasts(job.kind)
  BY <1>1, <1>2, <1>3, <1>4 DEF Serves
<1> QED
  BY <1>2, <1>5 DEF Lasts, First

(* The probe of a start decides the rules that follow it, or refuses the   *)
(* start.                                                                  *)
LEMMA ProbeStep ==
  ASSUME IInv, Probe
  PROVE  IInv'
<1>1. /\ First("daemon") = "probe" /\ job.kind = "start" /\ job.port \in Ports
      /\ DOMAIN job = JobFields /\ ~LockFree
  BY ProbeOfStart DEF Probe, IInv, PortsKnown, Shapes, LockFree
<1>2. PICK tproxy \in {FALSE, TproxySupport} :
       /\ IF tproxy = TproxySupport THEN Quietly ELSE Event
       /\ \/ /\ job' = [job EXCEPT !.tproxy = tproxy]
             /\ program' = [program EXCEPT !["daemon"] =
                              Program(Start(tproxy), job.port, tproxy)]
          \/ /\ ~job.known
             /\ job' = [job EXCEPT !.kind = "refused", !.port = NoPort, !.tproxy = tproxy]
             /\ program' = [program EXCEPT !["daemon"] = NoProgram]
  BY DEF Probe
<1>3. tproxy \in BOOLEAN
  BY <1>2, FirewallAssumption
<1>4. /\ UNCHANGED <<settings, fw, kernel, hook, ready, up, tx, wd, ndm, spoilt, leftover>>
      /\ events' \in Nat
  BY <1>2 DEF Probe, router, history, Quietly, Event, IInv, Shapes
<1>5. \E p : /\ program' = [program EXCEPT !["daemon"] = p]
             /\ DOMAIN p = {"run", "port", "tproxy"}
             /\ \/ /\ p.run = Start(tproxy) /\ p.port = job.port /\ p.tproxy = tproxy
                   /\ job' = [job EXCEPT !.tproxy = tproxy]
                \/ /\ p.run = <<>>
                   /\ job' = [job EXCEPT !.kind = "refused", !.port = NoPort, !.tproxy = tproxy]
  <2>1. DOMAIN Program(Start(tproxy), job.port, tproxy) = {"run", "port", "tproxy"}
        /\ Program(Start(tproxy), job.port, tproxy).run = Start(tproxy)
        /\ Program(Start(tproxy), job.port, tproxy).port = job.port
        /\ Program(Start(tproxy), job.port, tproxy).tproxy = tproxy
        /\ DOMAIN NoProgram = {"run", "port", "tproxy"} /\ NoProgram.run = <<>>
    BY DEF Program, NoProgram
  <2>2. CASE program' = [program EXCEPT !["daemon"] = Program(Start(tproxy), job.port, tproxy)]
             /\ job' = [job EXCEPT !.tproxy = tproxy]
    BY <2>1, <2>2
  <2>3. CASE program' = [program EXCEPT !["daemon"] = NoProgram]
             /\ job' = [job EXCEPT !.kind = "refused", !.port = NoPort, !.tproxy = tproxy]
    BY <2>1, <2>3
  <2> QED
    BY <1>2, <2>2, <2>3
<1>6. PICK p : /\ program' = [program EXCEPT !["daemon"] = p]
             /\ DOMAIN p = {"run", "port", "tproxy"}
             /\ \/ /\ p.run = Start(tproxy) /\ p.port = job.port /\ p.tproxy = tproxy
                   /\ job' = [job EXCEPT !.tproxy = tproxy]
                \/ /\ p.run = <<>>
                   /\ job' = [job EXCEPT !.kind = "refused", !.port = NoPort, !.tproxy = tproxy]
  BY <1>5
<1>7. /\ program'["daemon"] = p
      /\ program'["watchdog"] = program["watchdog"] /\ program'["ndm"] = program["ndm"]
      /\ DOMAIN program' = Writers /\ \A w \in Writers : DOMAIN program'[w] = {"run", "port", "tproxy"}
  BY <1>6 DEF IInv, Shapes, Writers
<1>8. /\ DOMAIN job' = JobFields /\ job'.by = job.by /\ job'.tproxy = tproxy
      /\ job'.cleans = job.cleans /\ job'.alone = job.alone
      /\ job'.kind \in {"start", "refused"} /\ (job'.kind = "start" => job'.port = job.port /\ p.run = Start(tproxy))
      /\ p.run = <<>> => job'.kind = "refused"
  <2>1. Start(tproxy) # <<>>
    BY <1>3, StartLegal
  <2> QED
    BY <1>1, <1>6, <2>1 DEF JobFields
<1>9. Shapes' /\ PortsKnown' /\ JobInv'
  <2>1. Shapes'
    BY <1>3, <1>4, <1>7, <1>8 DEF IInv, Shapes
  <2>2. PortsKnown'
    BY <1>1, <1>4, <1>8 DEF IInv, PortsKnown
  <2>3. JobInv'
    BY <1>1, <1>4, <1>8 DEF IInv, JobInv, LockFree, Booting
  <2> QED
    BY <2>1, <2>2, <2>3
<1>10. /\ \A t \in Tables : (Clean(t)' <=> Clean(t)) /\ (Renewed(t)' <=> Renewed(t))
                            /\ (Rebuilt(t)' => Rebuilt(t))
       /\ (Booting' <=> Booting) /\ ~LockFree' /\ "nat" \in Tables /\ "mangle" \in Tables
  BY <1>1, <1>4, <1>8 DEF Clean, Renewed, Rebuilt, Tables, Booting, LockFree
<1>11. \A w \in {"watchdog", "ndm"} :
         (NatHere(w) => NatHere(w)') /\ (MangleHere(w, FALSE) => MangleHere(w, FALSE)')
  BY <1>4, <1>7, Others DEF IInv
<1>12. CASE p.run = Start(tproxy) /\ p.port = job.port /\ p.tproxy = tproxy
            /\ job' = [job EXCEPT !.tproxy = tproxy]
  <2>1. /\ Legal(p.run, tproxy) /\ At(p.run, 1) = "flush" /\ p.run # <<>>
        /\ \A i \in 1..Len(p.run) :
             /\ p.run[i] \in Installing \cup Reporting
             /\ At(p.run, i + 1) = "end" => p.run[i] = "ready"
        /\ \E i \in 1..Len(p.run) : p.run[i] = "hook"
    BY <1>3, <1>12, StartLegal
  <2>2. job'.kind = "start" /\ job'.port = job.port /\ job'.by = job.by
    BY <1>1, <1>12 DEF JobFields
  <2>3. Serves(p, job')
    <3>1. Removing \cap (Installing \cup Reporting) = {} /\ "delete" \in Removing /\ "clear udp" \in Removing
          /\ "ready" \in Lasts("start")
      BY DEF Removing, Installing, Reporting, Lasts
    <3>2. Reports(p.run)
      BY <2>1, <3>1 DEF Reports
    <3> DEFINE j == job'
    <3>3. j.kind = "start" /\ j.port = p.port /\ j.tproxy = p.tproxy
      BY <1>8, <1>12, <2>2
    <3> HIDE DEF j
    <3>4. Serves(p, j)
      BY <2>1, <3>1, <3>2, <3>3 DEF Serves
    <3> QED
      BY <3>4 DEF j
  <2>4. Programs'
    BY <1>7, <1>12, <2>1, <2>3 DEF IInv, Programs, Writers
  <2>5. First("daemon")' = "flush" /\ Running("daemon")' /\ Pending("hook")'
    BY <1>7, <2>1 DEF First, Running, Pending
  <2>6. ~Removed' /\ ~Built'
    BY <2>5 DEF Removed, Built
  <2>7. NatInv'
    <3>1. NatHere("daemon")'
      BY <2>5 DEF NatHere, NatAt
    <3> QED
      BY <1>10, <1>11, <2>6, <3>1 DEF IInv, NatInv
  <2>8. MangleInv'
    <3>1. MangleHere("daemon", Booting)'
      BY <2>5 DEF MangleHere, MangleAt
    <3>2. (Clean("mangle") \/ Renewed("mangle")) /\ ~Booting => kernel.udp = NoPort
      BY <1>1 DEF IInv, MangleInv, MangleHere, MangleAt
    <3> QED
      BY <1>4, <1>10, <1>11, <2>6, <3>1, <3>2 DEF IInv, MangleInv
  <2>9. FilesInv'
    BY <1>4, <1>10, <2>5, <2>6 DEF IInv, FilesInv
  <2> QED
    BY <1>9, <2>4, <2>7, <2>8, <2>9 DEF IInv
<1>13. CASE p.run = <<>> /\ job' = [job EXCEPT !.kind = "refused", !.port = NoPort, !.tproxy = tproxy]
  <2>1. job'.kind = "refused"
    BY <1>8, <1>13
  <2>2. /\ First("daemon")' = "end" /\ ~Running("daemon")' /\ (\A x : ~Pending(x)')
        /\ ~Built' /\ (Removed' <=> ~Booting)
    BY <1>7, <1>10, <1>13, <2>1 DEF First, Running, Pending, At, Built, Removed
  <2>3. Programs'
    <3>1. Legal(p.run, p.tproxy)
      BY <1>13, NoneLegal
    <3>2. 1..Len(p.run) = {}
      BY <1>13, NoneLegal
    <3>3. Serves(p, job')
      BY <3>2 DEF Serves, Reports
    <3> QED
      BY <1>7, <3>1, <3>3 DEF IInv, Programs, Writers
  <2>4. NatInv'
    <3>1. NatHere("daemon")'
      BY <2>2 DEF NatHere, NatAt
    <3>2. (Clean("nat") \/ Renewed("nat")) /\ ~Booting => NoNat(kernel)
      BY <1>1 DEF IInv, NatInv, NatHere, NatAt
    <3>3. Rebuilt("nat") => Clean("nat") \/ Renewed("nat")
      BY DEF Rebuilt
    <3> QED
      BY <1>4, <1>10, <1>11, <2>2, <3>1, <3>2, <3>3 DEF IInv, NatInv
  <2>5. MangleInv'
    <3>1. MangleHere("daemon", Booting)'
      BY <2>2 DEF MangleHere, MangleAt
    <3>2. (Clean("mangle") \/ Renewed("mangle")) /\ ~Booting => kernel.udp = NoPort
      BY <1>1 DEF IInv, MangleInv, MangleHere, MangleAt
    <3>3. Rebuilt("mangle") => Clean("mangle") \/ Renewed("mangle")
      BY DEF Rebuilt
    <3> QED
      BY <1>4, <1>10, <1>11, <2>2, <3>1, <3>2, <3>3 DEF IInv, MangleInv
  <2>6. FilesInv'
    BY <1>1, <1>4, <1>10, <2>2 DEF IInv, FilesInv
  <2> QED
    BY <1>9, <2>3, <2>4, <2>5, <2>6 DEF IInv
<1> QED
  BY <1>6, <1>12, <1>13

(* The end of a job makes the firewall known; a renewed table is clean     *)
(* again.                                                                  *)
LEMMA FinishJobStep ==
  ASSUME IInv, FinishJob
  PROVE  IInv'
<1>1. /\ ~LockFree /\ ~Running("daemon") /\ First("daemon") = "end"
      /\ \A x : ~Pending(x)
  <2>1. ~Running("daemon") /\ First("daemon") = "end"
    BY RunningFirst DEF FinishJob, IInv, Programs, Writers
  <2>2. Len(program["daemon"].run) = 0
    BY <2>1 DEF Running
  <2> QED
    BY <2>1, <2>2 DEF FinishJob, Pending
<1>2. /\ fw' = [active |-> job.kind = "start", port |-> job.port, tproxy |-> job.tproxy]
      /\ DOMAIN settings' = SettingsFields /\ settings'.port = settings.port
      /\ DOMAIN tx' = DOMAIN tx /\ tx'.fw = tx.fw /\ tx'.state = tx.state /\ tx'.settings = tx.settings
      /\ tx'.step # "none" => tx.step # "none" /\ job.by # "shutdown"
      /\ (wd' = wd \/ wd' = Asleep) /\ (job.by = "shutdown" => wd' = Asleep)
      /\ events' = events /\ UNCHANGED <<kernel, hook, ready, ndm>>
  <2>1. /\ DOMAIN settings' = SettingsFields /\ settings'.port = settings.port
    BY DEF FinishJob, IInv, Shapes, SettingsFields
  <2>2. tx' = tx \/ (job.by \in {"activation", "rollback"} /\ \E step : tx' = [tx EXCEPT !.step = step])
    BY DEF FinishJob
  <2>3. DOMAIN tx' = DOMAIN tx /\ tx'.fw = tx.fw /\ tx'.state = tx.state /\ tx'.settings = tx.settings
    BY <2>2 DEF IInv, Shapes
  <2>4. tx'.step # "none" => tx.step # "none" /\ job.by # "shutdown"
    BY <1>1, <2>2 DEF IInv, JobInv
  <2> QED
    BY <2>1, <2>3, <2>4 DEF FinishJob, Quietly, router
<1>3. /\ up' = (job.by # "shutdown") /\ leftover' = (Abandoned /\ (ready \/ kernel # NoRules))
      /\ job' = NoJob /\ LockFree' /\ ~Removed' /\ ~Built' /\ \A t \in Tables : ~Renewed(t)'
      /\ program' = (IF job.by = "shutdown" THEN [program EXCEPT !["watchdog"] = NoProgram] ELSE program)
  BY DEF FinishJob, NoJob, LockFree, Removed, Built, Renewed
<1>4. /\ program'["daemon"] = program["daemon"] /\ program'["ndm"] = program["ndm"]
      /\ \/ program'["watchdog"] = program["watchdog"]
         \/ job.by = "shutdown" /\ program'["watchdog"] = NoProgram
      /\ DOMAIN program' = Writers
      /\ \A w \in Writers : DOMAIN program'[w] = {"run", "port", "tproxy"}
      /\ job.by # "shutdown" => program' = program
  BY <1>3 DEF IInv, Shapes, Writers, NoProgram
<1>5. /\ First("daemon")' = "end" /\ \A x : ~Pending(x)'
      /\ program'["watchdog"] = program["watchdog"] \/ First("watchdog")' = "end"
  <2>1. NoProgram.run = <<>> /\ At(<<>>, 1) = "end"
    BY NoneLegal DEF NoProgram
  <2> QED
    BY <1>1, <1>4, <2>1 DEF First, Pending
<1>6. Shapes'
  <2>1. /\ fw'.tproxy \in BOOLEAN /\ fw'.active \in BOOLEAN /\ DOMAIN job' = JobFields
        /\ job'.kind = "none" /\ job'.tproxy \in BOOLEAN
    BY <1>2, <1>3 DEF IInv, Shapes, NoJob, JobFields
  <2>2. DOMAIN wd' = {"step", "active", "port", "known", "tproxy"} /\ wd'.tproxy \in BOOLEAN
    <3>1. DOMAIN Asleep = {"step", "active", "port", "known", "tproxy"} /\ Asleep.tproxy = FALSE
      BY DEF Asleep
    <3>2. DOMAIN wd = {"step", "active", "port", "known", "tproxy"} /\ wd.tproxy \in BOOLEAN
      BY DEF IInv, Shapes
    <3>3. wd' = wd \/ wd' = Asleep
      BY <1>2
    <3> QED
      BY <3>1, <3>2, <3>3
  <2> QED
    BY <1>2, <1>4, <2>1, <2>2 DEF IInv, Shapes
<1>7. PortsKnown'
  <2>1. wd'.step = "check" => wd'.port \in Ports
    BY <1>2 DEF IInv, PortsKnown, Asleep
  <2>2. fw'.active => fw'.port \in Ports
    BY <1>2 DEF IInv, PortsKnown
  <2>3. job'.kind # "start"
    BY <1>3 DEF NoJob
  <2> QED
    BY <1>2, <2>1, <2>2, <2>3 DEF IInv, PortsKnown
<1>8. JobInv'
  <2>1. wd'.step # "sleep" => job.by # "shutdown"
    BY <1>2 DEF Asleep
  <2> QED
    BY <1>2, <1>3, <2>1 DEF JobInv
<1>9. Programs'
  <2>1. Serves(program'["daemon"], job')
    <3>1. program'["daemon"].run = <<>>
      BY <1>1, <1>4 DEF Running
    <3>2. 1..Len(program'["daemon"].run) = {}
      BY <3>1
    <3> QED
      BY <3>2 DEF Serves, Reports
  <2>2. Legal(NoProgram.run, NoProgram.tproxy) /\ Installs(NoProgram)
    <3>1. NoProgram.run = <<>> /\ Len(NoProgram.run) = 0
      BY DEF NoProgram
    <3>2. 1..Len(NoProgram.run) = {}
      BY <3>1
    <3> QED
      BY <3>1, <3>2, NoneLegal DEF Installs
  <2> QED
    BY <1>4, <2>1, <2>2 DEF IInv, Programs, Writers
<1>10. \A w \in {"watchdog", "ndm"} :
         (NatHere(w) => NatHere(w)') /\ (MangleHere(w, FALSE) => MangleHere(w, FALSE)')
  BY <1>2, <1>4, <1>5, Others DEF IInv
<1>11. /\ spoilt' = (IF leftover' THEN Tables
                     ELSE IF job.by = "boot" /\ ~job.tproxy /\ kernel.udp # NoPort
                     THEN spoilt \cup {"mangle"}
                     ELSE IF job.alone THEN spoilt \ job.cleans ELSE spoilt)
  BY DEF FinishJob
<1>12. /\ \A t \in Tables : Clean(t)' => ~leftover' /\ Rebuilt(t)
       /\ Clean("mangle")' => ~(Booting /\ ~job.tproxy /\ kernel.udp # NoPort)
       /\ "nat" \in Tables /\ "mangle" \in Tables
  <2>1. ASSUME NEW t \in Tables, Clean(t)' PROVE ~leftover' /\ Rebuilt(t)
    BY <1>1, <1>11, <2>1 DEF Clean, Rebuilt, Renewed
  <2>2. Clean("mangle")' => ~(Booting /\ ~job.tproxy /\ kernel.udp # NoPort)
    BY <1>11 DEF Clean, Booting, Tables
  <2> QED
    BY <2>1, <2>2 DEF Tables
<1>13. /\ \A t \in Tables : Rebuilt(t)' <=> Clean(t)'
       /\ NatHere("daemon")' /\ MangleHere("daemon", Booting)' /\ First("daemon")' # "flush"
  BY <1>3, <1>5 DEF Rebuilt, NatHere, NatAt, MangleHere, MangleAt
<1>14. /\ fw'.active <=> job.kind = "start"
       /\ fw'.port = job.port /\ fw'.tproxy = job.tproxy
       /\ (job.kind = "start" => Built /\ job.by # "shutdown" /\ (Settled' => Settled))
       /\ (job.kind # "start" /\ up' /\ ~Booting => Removed)
       /\ (job.kind # "start" /\ up' /\ ~leftover' /\ Booting => ~ready /\ kernel = NoRules)
  <2>1. job.kind = "start" => Built /\ job.by # "shutdown"
    BY <1>1 DEF Built, IInv, JobInv
  <2>2. job.by # "shutdown" => (Settled' => Settled)
    BY <1>2, <1>4 DEF Settled, Quiet, Running
  <2>3. job.kind # "start" /\ ~Booting => Removed
    BY <1>1 DEF Removed
  <2>4. job.kind # "start" /\ Booting /\ ~leftover' => ~ready /\ kernel = NoRules
    <3>1. job.kind # "start" /\ Booting => Abandoned
      BY <1>1 DEF IInv, JobInv, Shapes, Abandoned, Booting, LockFree
    <3> QED
      BY <1>3, <3>1
  <2> QED
    BY <1>2, <2>1, <2>2, <2>3, <2>4
<1>15. NatInv'
  <2>1. Clean("nat")' => NatHere("watchdog")' /\ NatHere("ndm")'
    BY <1>10, <1>12 DEF IInv, NatInv
  <2>2. Clean("nat")' /\ ~fw'.active /\ up' => NoNat(kernel)
    <3>1. NoNat(NoRules)
      BY DEF NoNat, NoRules
    <3> QED
      BY <1>12, <1>14, <3>1 DEF IInv, NatInv
  <2>3. Clean("nat")' /\ fw'.active /\ Settled' => Full(kernel, fw'.port)
    BY <1>12, <1>14 DEF IInv, NatInv
  <2>4. kernel' = kernel
    BY <1>2
  <2> QED
    BY <1>3, <1>12, <1>13, <2>1, <2>2, <2>3, <2>4 DEF NatInv
<1>16. MangleInv'
  <2>1. Clean("mangle")' => MangleHere("watchdog", FALSE)' /\ MangleHere("ndm", FALSE)'
    BY <1>10, <1>12 DEF IInv, MangleInv
  <2>2. Clean("mangle")' /\ ~(fw'.active /\ fw'.tproxy) /\ (up' \/ fw'.active) => kernel.udp = NoPort
    <3>1. NoRules.udp = NoPort
      BY DEF NoRules
    <3> QED
      BY <1>3, <1>12, <1>14, <3>1 DEF IInv, MangleInv
  <2>3. Clean("mangle")' /\ fw'.active /\ fw'.tproxy /\ Settled' => kernel.udp = fw'.port
    BY <1>12, <1>14 DEF IInv, MangleInv
  <2>4. kernel' = kernel
    BY <1>2
  <2> QED
    BY <1>3, <1>12, <1>13, <2>1, <2>2, <2>3, <2>4 DEF MangleInv
<1>17. FilesInv'
  <2>1. (leftover => ~fw.active /\ spoilt = Tables)'
    BY <1>3, <1>11, <1>14 DEF Abandoned
  <2>2. fw'.active => ready' /\ hook' = [port |-> fw'.port, tproxy |-> fw'.tproxy]
    BY <1>2, <1>14 DEF IInv, FilesInv
  <2>3. up' /\ ~leftover' /\ ~fw'.active => ~ready'
    BY <1>2, <1>14 DEF IInv, FilesInv
  <2> QED
    BY <1>3, <1>5, <2>1, <2>2, <2>3 DEF FilesInv
<1> QED
  BY <1>6, <1>7, <1>8, <1>9, <1>15, <1>16, <1>17 DEF IInv

(* A writer that is stopped where it is.                                   *)
LEMMA NoProgramLegal ==
  /\ Legal(NoProgram.run, NoProgram.tproxy) /\ NoProgram.run = <<>> /\ At(NoProgram.run, 1) = "end"
  /\ DOMAIN NoProgram = {"run", "port", "tproxy"} /\ Installs(NoProgram)
  /\ \A j : Serves(NoProgram, j)
<1>1. NoProgram.run = <<>> /\ DOMAIN NoProgram = {"run", "port", "tproxy"}
  BY DEF NoProgram
<1>2. Legal(NoProgram.run, NoProgram.tproxy) /\ At(NoProgram.run, 1) = "end"
  BY <1>1, NoneLegal
<1>3. 1..Len(NoProgram.run) = {}
  BY <1>1
<1> QED
  BY <1>1, <1>2, <1>3 DEF Installs, Serves, Reports

(* A crash of the daemon leaves the rules where they are, with nobody who  *)
(* knows of them.                                                          *)
LEMMA CrashStep ==
  ASSUME IInv, Crash
  PROVE  IInv'
<1>1. /\ up' = FALSE /\ fw' = FreshFirewall /\ job' = NoJob /\ tx' = NoTx /\ wd' = Asleep
      /\ program' = [program EXCEPT !["daemon"] = NoProgram, !["watchdog"] = NoProgram]
      /\ UNCHANGED <<settings, kernel, hook, ready, ndm, spoilt, leftover>> /\ events' \in Nat
  BY DEF Crash, router, history, Event, IInv, Shapes
<1>2. /\ program'["daemon"] = NoProgram /\ program'["watchdog"] = NoProgram
      /\ program'["ndm"] = program["ndm"] /\ DOMAIN program' = Writers
      /\ \A w \in Writers : DOMAIN program'[w] = {"run", "port", "tproxy"}
  BY <1>1, NoProgramLegal DEF IInv, Shapes, Writers
<1>3. /\ fw'.active = FALSE /\ fw'.tproxy = FALSE /\ job'.kind = "none" /\ tx'.step = "none"
      /\ wd'.step = "sleep" /\ wd'.tproxy = FALSE /\ job'.tproxy = FALSE
      /\ DOMAIN job' = JobFields /\ DOMAIN tx' = {"step", "kind", "fw", "settings", "state"}
      /\ DOMAIN wd' = {"step", "active", "port", "known", "tproxy"}
      /\ LockFree' /\ ~Removed' /\ ~Built' /\ \A t \in Tables : ~Renewed(t)'
  BY <1>1 DEF FreshFirewall, NoJob, NoTx, Asleep, JobFields, LockFree, Removed, Built, Renewed
<1>4. /\ First("daemon")' = "end" /\ First("watchdog")' = "end" /\ \A x : ~Pending(x)'
  <2>1. 1..Len(program'["daemon"].run) = {}
    BY <1>2, NoProgramLegal
  <2> QED
    BY <1>2, <2>1, NoProgramLegal DEF First, Pending
<1>5. Shapes' /\ PortsKnown' /\ JobInv' /\ Programs'
  <2>1. Shapes'
    BY <1>1, <1>2, <1>3 DEF IInv, Shapes
  <2>2. PortsKnown'
    BY <1>1, <1>3 DEF IInv, PortsKnown
  <2>3. JobInv'
    BY <1>3 DEF JobInv
  <2>4. Programs'
    BY <1>2, NoProgramLegal DEF IInv, Programs, Writers
  <2> QED
    BY <2>1, <2>2, <2>3, <2>4
<1>6. /\ \A t \in Tables : (Clean(t)' <=> Clean(t)) /\ (Rebuilt(t)' => Rebuilt(t))
      /\ "nat" \in Tables /\ "mangle" \in Tables
  BY <1>1, <1>3 DEF Clean, Rebuilt, Tables
<1>7. \A w \in {"watchdog", "ndm"} :
        (NatHere(w) => NatHere(w)') /\ (MangleHere(w, FALSE) => MangleHere(w, FALSE)')
  BY <1>1, <1>2, <1>4, Others DEF IInv
<1>8. NatHere("daemon")' /\ MangleHere("daemon", Booting)'
  BY <1>4 DEF NatHere, NatAt, MangleHere, MangleAt
<1>9. NatInv'
  BY <1>1, <1>3, <1>4, <1>6, <1>7, <1>8 DEF IInv, NatInv
<1>10. MangleInv'
  BY <1>1, <1>3, <1>4, <1>6, <1>7, <1>8 DEF IInv, MangleInv
<1>11. FilesInv'
  BY <1>1, <1>3, <1>4 DEF IInv, FilesInv
<1> QED
  BY <1>5, <1>9, <1>10, <1>11 DEF IInv

(* A reload by ndm removes all rules and owes one run of the hook.         *)
LEMMA ReloadStep ==
  ASSUME IInv, Reload
  PROVE  IInv'
<1>1. /\ kernel' = NoRules /\ ndm' = "due" /\ events' \in Nat
      /\ spoilt' = (IF ~Quiet THEN Tables ELSE IF leftover THEN spoilt ELSE {})
      /\ UNCHANGED <<settings, fw, hook, ready, up, tx, wd, program, leftover>>
      /\ job' = IF LockFree THEN job ELSE [job EXCEPT !.alone = @ /\ Quiet]
  BY DEF Reload, Event, IInv, Shapes
<1>2. SameJob /\ (Quiet \/ LockFree \/ ~job'.alone)
  <2> DEFINE a == job.alone /\ Quiet
  <2>1. DOMAIN job = JobFields /\ job' = IF LockFree THEN job ELSE [job EXCEPT !.alone = a]
    BY <1>1 DEF IInv, Shapes
  <2>2. ~Quiet => ~a
    OBVIOUS
  <2> HIDE DEF a
  <2> QED
    BY <2>1, <2>2 DEF SameJob, JobFields
<1>3. /\ NoRules.exists = FALSE /\ NoRules.jump = FALSE /\ NoRules.udp = NoPort
      /\ DOMAIN NoRules = KernelFields /\ NoNat(NoRules)
  BY DEF NoRules, KernelFields, NoNat
<1>4. /\ (LockFree' <=> LockFree) /\ (Booting' <=> Booting) /\ (Removed' <=> Removed) /\ (Built' <=> Built)
      /\ \A w \in Writers : First(w)' = First(w)
      /\ (Pending("ready")' <=> Pending("ready")) /\ (Pending("hook")' <=> Pending("hook"))
      /\ ~Settled'
  BY <1>1, <1>2 DEF SameJob, LockFree, Booting, Removed, Built, Running, First, Pending, Settled
<1>5. Shapes' /\ PortsKnown' /\ JobInv' /\ Programs'
  <2>1. Shapes'
    BY <1>1, <1>2, <1>3 DEF IInv, Shapes, SameJob
  <2>2. PortsKnown'
    BY <1>1, <1>2 DEF IInv, PortsKnown, SameJob
  <2>3. JobInv'
    BY <1>1, <1>2, <1>4 DEF IInv, JobInv, SameJob
  <2>4. Programs'
    BY <1>1, <1>2 DEF IInv, Programs, Serves, SameJob
  <2> QED
    BY <2>1, <2>2, <2>3, <2>4
<1>6. NatInv' /\ MangleInv'
  <2>1. CASE ~Quiet
    BY <1>1, <1>2, <2>1, Disturbed
  <2>2. CASE Quiet
    <3>1. \A w \in Writers : First(w)' = "end"
      BY <1>4, <2>2, RunningFirst DEF Quiet, IInv, Programs
    <3>2. \A w \in Writers : NatHere(w)' /\ MangleHere(w, FALSE)' /\ MangleHere(w, Booting)'
      BY <3>1 DEF NatHere, NatAt, MangleHere, MangleAt
    <3>3. \A w \in Writers : First(w)' # "flush"
      BY <3>1
    <3> QED
      BY <1>1, <1>3, <1>4, <3>2, <3>3 DEF NatInv, MangleInv, Writers
  <2> QED
    BY <2>1, <2>2
<1>7. FilesInv'
  <2>1. (leftover => ~fw.active /\ spoilt = Tables)'
    BY <1>1 DEF IInv, FilesInv
  <2> QED
    BY <1>1, <1>2, <1>4, <2>1 DEF IInv, FilesInv, SameJob, Writers
<1> QED
  BY <1>5, <1>6, <1>7 DEF IInv

(* A start of the daemon installs over what an earlier life left, or       *)
(* leaves it.                                                              *)
LEMMA BootStep ==
  ASSUME IInv, Boot
  PROVE  IInv'
<1>1. /\ ~up /\ LockFree /\ up' = TRUE /\ fw' = FreshFirewall /\ events' = events
      /\ UNCHANGED <<settings, kernel, hook, ready, tx, wd, ndm>>
      /\ fw'.active = FALSE /\ fw'.tproxy = FALSE
  BY DEF Boot, Quietly, router, FreshFirewall
<1>2. /\ First("daemon") = "end" /\ ~Running("daemon") /\ \A x : ~Pending(x)
      /\ tx.step = "none" /\ wd.step = "sleep"
  BY <1>1, LockFreeIdle DEF IInv, JobInv
<1>3. CASE settings.enabled
  <2>1. BeginStart("boot", settings.port, settings.known, FALSE) /\ UNCHANGED <<spoilt, leftover>>
    BY <1>3 DEF Boot, history
  <2> DEFINE run == Append(<<>>, "probe")
             port == settings.port
  <2>2. /\ job' = [NoJob EXCEPT !.kind = "start", !.by = "boot", !.port = port,
                                !.known = settings.known, !.cleans = {}]
        /\ program' = [program EXCEPT !["daemon"] = Program(run, port, FALSE)]
    BY <2>1 DEF BeginStart
  <2>3. /\ DOMAIN job' = JobFields /\ job'.kind = "start" /\ job'.by = "boot" /\ job'.tproxy = FALSE
        /\ job'.port = port /\ job'.cleans = {}
    BY <2>2 DEF NoJob, JobFields
  <2>4. /\ Legal(run, FALSE) /\ run # <<>> /\ At(run, 1) = "probe" /\ \A i \in 1..Len(run) : run[i] = "probe"
    BY ProbeLegal
  <2> HIDE DEF run
  <2>5. /\ program'["daemon"].run = run /\ program'["daemon"].tproxy = FALSE
        /\ program'["watchdog"] = program["watchdog"] /\ program'["ndm"] = program["ndm"]
        /\ DOMAIN program' = Writers /\ \A w \in Writers : DOMAIN program'[w] = {"run", "port", "tproxy"}
    <3> DEFINE p == Program(run, port, FALSE)
    <3>1. /\ p.run = run /\ p.tproxy = FALSE /\ DOMAIN p = {"run", "port", "tproxy"}
          /\ program' = [program EXCEPT !["daemon"] = p]
      BY <2>2 DEF Program
    <3> HIDE DEF p
    <3> QED
      BY <3>1 DEF IInv, Shapes, Writers
  <2>6. /\ First("daemon")' = "probe" /\ Running("daemon")' /\ ~LockFree' /\ Booting' /\ ~Removed' /\ ~Built'
        /\ ~Pending("ready")'
    BY <2>3, <2>4, <2>5 DEF First, Running, LockFree, Booting, Removed, Built, Pending
  <2>7. Shapes' /\ PortsKnown' /\ JobInv'
    <3>1. Shapes'
      BY <1>1, <2>3, <2>5 DEF IInv, Shapes
    <3>2. PortsKnown'
      BY <1>1, <2>3 DEF IInv, PortsKnown
    <3>3. JobInv'
      BY <1>1, <2>3 DEF JobInv
    <3> QED
      BY <3>1, <3>2, <3>3
  <2>8. Programs'
    <3>1. Serves(program'["daemon"], job')
      <4>1. "probe" \notin Removing /\ "probe" \notin Installing \cup Reporting /\ "probe" \in Lasts("start")
        BY DEF Removing, Installing, Reporting, Lasts
      <4> DEFINE q == program'["daemon"]
                 j == job'
      <4>2. q.run = run /\ j.kind = "start"
        BY <2>3, <2>5
      <4> HIDE DEF q, j
      <4>3. Serves(q, j)
        BY <2>4, <4>1, <4>2 DEF Serves, Reports
      <4> QED
        BY <4>3 DEF q, j
    <3> QED
      BY <2>4, <2>5, <3>1 DEF IInv, Programs, Writers
  <2>9. /\ \A t \in Tables : (Clean(t)' <=> Clean(t)) /\ (Rebuilt(t)' => Rebuilt(t)) /\ ~Renewed(t)'
        /\ "nat" \in Tables /\ "mangle" \in Tables
    BY <2>1, <2>3 DEF Clean, Rebuilt, Renewed, Tables
  <2>10. \A w \in {"watchdog", "ndm"} :
           (NatHere(w) => NatHere(w)') /\ (MangleHere(w, FALSE) => MangleHere(w, FALSE)')
    BY <1>1, <2>5, Others DEF IInv
  <2>11. NatHere("daemon")' /\ MangleHere("daemon", Booting)'
    BY <2>6 DEF NatHere, NatAt, MangleHere, MangleAt
  <2>12. NatInv' /\ MangleInv'
    BY <2>6, <2>9, <2>10, <2>11 DEF IInv, NatInv, MangleInv
  <2>13. FilesInv'
    BY <1>1, <2>1, <2>6 DEF IInv, FilesInv
  <2> QED
    BY <2>7, <2>8, <2>12, <2>13 DEF IInv
<1>4. CASE ~settings.enabled
  <2>1. /\ UNCHANGED <<job, program>> /\ leftover' = (ready \/ kernel # NoRules)
        /\ spoilt' = IF leftover' THEN Tables ELSE spoilt
    BY <1>4 DEF Boot
  <2>2. /\ First("daemon")' = "end" /\ LockFree' /\ ~Removed' /\ ~Built' /\ \A t \in Tables : ~Renewed(t)'
        /\ ~Pending("ready")'
    BY <1>1, <1>2, <2>1 DEF First, LockFree, Removed, Built, Renewed, Pending
  <2>3. Shapes' /\ PortsKnown' /\ JobInv' /\ Programs'
    <3>1. Shapes'
      BY <1>1, <2>1 DEF IInv, Shapes
    <3>2. PortsKnown'
      BY <1>1, <2>1 DEF IInv, PortsKnown
    <3>3. JobInv'
      BY <1>1, <1>2, <2>2 DEF JobInv
    <3>4. Programs'
      BY <2>1 DEF IInv, Programs
    <3> QED
      BY <3>1, <3>2, <3>3, <3>4
  <2>4. /\ \A t \in Tables : (Clean(t)' => Clean(t) /\ ~leftover') /\ (Rebuilt(t)' => Clean(t)')
        /\ "nat" \in Tables /\ "mangle" \in Tables
    BY <2>1, <2>2 DEF Clean, Rebuilt, Tables
  <2>5. \A w \in {"watchdog", "ndm"} :
          (NatHere(w) => NatHere(w)') /\ (MangleHere(w, FALSE) => MangleHere(w, FALSE)')
    BY <1>1, <2>1, Others DEF IInv
  <2>6. NatHere("daemon")' /\ MangleHere("daemon", Booting)'
    BY <2>2 DEF NatHere, NatAt, MangleHere, MangleAt
  <2>7. ~leftover' => ~ready /\ NoNat(kernel) /\ kernel.udp = NoPort
    <3>1. ~leftover' => ~ready /\ kernel = NoRules
      BY <2>1
    <3>2. NoNat(NoRules) /\ NoRules.udp = NoPort
      BY DEF NoNat, NoRules
    <3> QED
      BY <3>1, <3>2
  <2>8. NatInv'
    BY <1>1, <2>2, <2>4, <2>5, <2>6, <2>7 DEF IInv, NatInv, Rebuilt
  <2>9. MangleInv'
    BY <1>1, <2>2, <2>4, <2>5, <2>6, <2>7 DEF IInv, MangleInv, Rebuilt
  <2>10. FilesInv'
    BY <1>1, <2>1, <2>2, <2>7 DEF FilesInv
  <2> QED
    BY <2>3, <2>8, <2>9, <2>10 DEF IInv
<1> QED
  BY <1>3, <1>4

(* A step of a request, of the activation or of the watchdog that touches  *)
(* no program.                                                             *)
LEMMA QuietFrame ==
  ASSUME IInv, UNCHANGED <<fw, kernel, hook, ready, up, job, ndm, program, spoilt, leftover>>,
         events' \in Nat, DOMAIN settings' = SettingsFields, settings'.port \in Ports,
         DOMAIN tx' = {"step", "kind", "fw", "settings", "state"},
         tx'.step # "none" => /\ tx'.state.port \in Ports /\ (tx'.fw.active => tx'.fw.port \in Ports)
                              /\ tx'.settings.port \in Ports /\ DOMAIN tx'.settings = SettingsFields
                              /\ up,
         ~LockFree => tx'.step = tx.step,
         DOMAIN wd' = {"step", "active", "port", "known", "tproxy"}, wd'.tproxy \in BOOLEAN,
         wd'.step = "check" => wd'.port \in Ports, wd'.step # "sleep" => up
  PROVE  IInv'
<1>1. Shapes' /\ PortsKnown' /\ Programs'
  BY DEF IInv, Shapes, PortsKnown, Programs
<1>2. JobInv'
  BY DEF IInv, JobInv, LockFree, Booting
<1>3. Settled' => Settled
  BY DEF Settled, Quiet, Running
<1> QED
  BY <1>1, <1>2, <1>3, Frame

(* The hook script is run only for what the firewall is.                   *)
LEMMA HookStep ==
  ASSUME IInv, NEW w \in {"watchdog", "ndm"}, RunHook(w),
         UNCHANGED <<settings, fw, kernel, hook, ready, up, job, tx, spoilt, leftover>>,
         events' \in Nat,
         DOMAIN wd' = {"step", "active", "port", "known", "tproxy"}, wd'.tproxy \in BOOLEAN,
         wd'.step = "check" => wd'.port \in Ports, wd'.step # "sleep" => up,
         ndm' = ndm \/ w = "ndm"
  PROVE  IInv'
<1> DEFINE p == Program(Installation(hook.tproxy), hook.port, hook.tproxy)
<1>1. hook.tproxy \in BOOLEAN /\ DOMAIN program = Writers
      /\ \A v \in Writers : DOMAIN program[v] = {"run", "port", "tproxy"}
  BY DEF IInv, Shapes
<1>2. Legal(Installation(hook.tproxy), hook.tproxy) /\ At(Installation(hook.tproxy), 1) = "flush"
      /\ \A i \in 1..Len(Installation(hook.tproxy)) : Installation(hook.tproxy)[i] \in Installing
  BY <1>1, BeginInstallation
<1>3. /\ DOMAIN p = {"run", "port", "tproxy"} /\ p.run = Installation(hook.tproxy)
      /\ p.tproxy = hook.tproxy /\ Legal(p.run, p.tproxy) /\ At(p.run, 1) = "flush" /\ Installs(p)
  BY <1>2 DEF Program, Installs
<1>4. program' = IF ready /\ hook.port # NoPort THEN [program EXCEPT ![w] = p] ELSE program
  BY DEF RunHook
<1> HIDE DEF p
<1>5. /\ DOMAIN program' = Writers /\ \A v \in Writers : DOMAIN program'[v] = {"run", "port", "tproxy"}
      /\ \A v \in Writers \ {w} : program'[v] = program[v]
      /\ w \in Writers /\ "daemon" \in Writers \ {w}
      /\ IF ready /\ hook.port # NoPort THEN program'[w] = p ELSE program' = program
  BY <1>1, <1>3, <1>4 DEF Writers
<1>6. Programs'
  BY <1>3, <1>5 DEF IInv, Programs, Writers
<1>7. Shapes' /\ PortsKnown' /\ JobInv'
  <2>1. Shapes'
    BY <1>5 DEF IInv, Shapes
  <2>2. PortsKnown'
    BY DEF IInv, PortsKnown
  <2>3. JobInv'
    BY DEF IInv, JobInv, LockFree, Booting
  <2> QED
    BY <2>1, <2>2, <2>3
<1>8. ready /\ hook.port # NoPort => First(w)' = "flush" /\ ~Settled'
  <2> SUFFICES ASSUME ready /\ hook.port # NoPort PROVE First(w)' = "flush" /\ ~Settled'
    OBVIOUS
  <2>1. First(w)' = "flush"
    BY <1>3, <1>5 DEF First
  <2>2. Running(w)'
    BY <1>5, <1>6, <2>1, RunningNext
  <2> QED
    BY <1>5, <2>1, <2>2 DEF Settled, Quiet
<1>9. \A v \in {"watchdog", "ndm"} : program'[v] = program[v] \/ First(v)' \in {"flush", "end"}
  BY <1>5, <1>8 DEF Writers
<1>10. Settled' => Settled \/ ~(ready /\ hook.port # NoPort)
  BY <1>8
<1> QED
  BY <1>5, <1>6, <1>7, <1>9, <1>10, Frame

(* The direct repair, with the settings seen.                              *)
LEMMA RepairDirectlyStep ==
  ASSUME IInv, RepairDirectly
  PROVE  IInv'
<1>1. /\ UNCHANGED <<settings, fw, kernel, hook, ready, up, job, tx, ndm, spoilt, leftover>>
      /\ events' = events /\ wd.step = "hook"
      /\ wd' = IF wd.known THEN [wd EXCEPT !.step = "direct"] ELSE Asleep
  BY DEF RepairDirectly, Quietly, router, history
<1>2. /\ DOMAIN wd' = {"step", "active", "port", "known", "tproxy"} /\ wd'.tproxy \in BOOLEAN
      /\ wd'.step # "check" /\ up
  <2>1. /\ DOMAIN wd = {"step", "active", "port", "known", "tproxy"} /\ wd.tproxy \in BOOLEAN /\ up
    BY <1>1 DEF IInv, Shapes, JobInv
  <2>2. DOMAIN Asleep = {"step", "active", "port", "known", "tproxy"} /\ Asleep.tproxy = FALSE
        /\ Asleep.step = "sleep"
    BY DEF Asleep
  <2> DEFINE d == [wd EXCEPT !.step = "direct"]
  <2>3. DOMAIN d = {"step", "active", "port", "known", "tproxy"} /\ d.tproxy = wd.tproxy /\ d.step = "direct"
    BY <2>1
  <2>4. wd' = d \/ wd' = Asleep
    BY <1>1
  <2> HIDE DEF d
  <2> QED
    BY <2>1, <2>2, <2>3, <2>4
<1> DEFINE t == wd.tproxy
           p == Program(Installation(t), wd.port, t)
<1>3. t \in BOOLEAN
  BY DEF IInv, Shapes
<1>4. program' = [program EXCEPT !["watchdog"] = p] \/ program' = program
  BY DEF RepairDirectly
<1>5. /\ DOMAIN p = {"run", "port", "tproxy"} /\ Legal(p.run, p.tproxy) /\ At(p.run, 1) = "flush"
      /\ Installs(p)
  <2>1. p.run = Installation(t) /\ p.tproxy = t /\ DOMAIN p = {"run", "port", "tproxy"}
    BY DEF Program
  <2> HIDE DEF p, t
  <2>2. Legal(p.run, t) /\ At(p.run, 1) = "flush" /\ \A i \in 1..Len(p.run) : p.run[i] \in Installing
    BY <1>3, <2>1, BeginInstallation
  <2> QED
    BY <2>1, <2>2 DEF Installs
<1> HIDE DEF p, t
<1>6. /\ DOMAIN program' = Writers /\ \A v \in Writers : DOMAIN program'[v] = {"run", "port", "tproxy"}
      /\ program'["daemon"] = program["daemon"] /\ program'["ndm"] = program["ndm"]
      /\ program'["watchdog"] = p \/ program' = program
  BY <1>4, <1>5 DEF IInv, Shapes, Writers
<1>7. Programs'
  BY <1>1, <1>5, <1>6 DEF IInv, Programs, Writers
<1>8. Shapes' /\ PortsKnown' /\ JobInv'
  <2>1. Shapes'
    BY <1>1, <1>2, <1>6 DEF IInv, Shapes
  <2>2. PortsKnown'
    BY <1>1, <1>2 DEF IInv, PortsKnown
  <2>3. JobInv'
    BY <1>1, <1>2 DEF IInv, JobInv, LockFree, Booting
  <2> QED
    BY <2>1, <2>2, <2>3
<1>9. program'["watchdog"] = p => First("watchdog")' = "flush" /\ ~Settled'
  <2> SUFFICES ASSUME program'["watchdog"] = p PROVE First("watchdog")' = "flush" /\ ~Settled'
    OBVIOUS
  <2>1. First("watchdog")' = "flush"
    BY <1>5 DEF First
  <2>2. Running("watchdog")' /\ "watchdog" \in Writers
    BY <1>7, <2>1, RunningNext DEF Writers
  <2> QED
    BY <2>1, <2>2 DEF Settled, Quiet
<1>10. \A v \in {"watchdog", "ndm"} : program'[v] = program[v] \/ First(v)' \in {"flush", "end"}
  BY <1>6, <1>9
<1>11. Settled' => Settled \/ ~(ready /\ hook.port # NoPort)
  BY <1>1, <1>6, <1>9 DEF Settled, Quiet, Running
<1> QED
  BY <1>1, <1>6, <1>7, <1>8, <1>10, <1>11, Frame

(* Requests.                                                               *)
LEMMA RequestStep ==
  ASSUME IInv, RequestNext
  PROVE  IInv'
<1>0. /\ events \in Nat /\ DOMAIN settings = SettingsFields /\ settings.port \in Ports
      /\ DOMAIN tx = {"step", "kind", "fw", "settings", "state"}
      /\ DOMAIN wd = {"step", "active", "port", "known", "tproxy"} /\ wd.tproxy \in BOOLEAN
      /\ wd.step = "check" => wd.port \in Ports
      /\ fw.active => fw.port \in Ports
      /\ tx.step # "none" => /\ tx.state.port \in Ports /\ (tx.fw.active => tx.fw.port \in Ports)
                             /\ tx.settings.port \in Ports /\ DOMAIN tx.settings = SettingsFields
                             /\ up
      /\ wd.step # "sleep" => up
  BY DEF IInv, Shapes, PortsKnown, JobInv
<1>1. CASE SaveSettings
  <2>1. /\ UNCHANGED <<fw, kernel, hook, ready, up, job, ndm, program, spoilt, leftover, tx, wd>>
        /\ events' = events + 1
        /\ \E enabled \in BOOLEAN, port \in Ports :
             settings' = [settings EXCEPT !.enabled = enabled, !.port = port]
    BY <1>1 DEF SaveSettings, router, history, Event
  <2>2. DOMAIN settings' = SettingsFields /\ settings'.port \in Ports
    BY <1>0, <2>1 DEF SettingsFields
  <2> QED
    BY <1>0, <2>1, <2>2, QuietFrame
<1>2. CASE Undo
  <2>1. /\ UNCHANGED <<fw, kernel, hook, ready, up, job, ndm, program, spoilt, leftover, tx, wd>>
        /\ events' = events + 1 /\ settings' = [settings EXCEPT !.known = FALSE]
    BY <1>2 DEF Undo, router, history, Event
  <2>2. DOMAIN settings' = SettingsFields /\ settings'.port \in Ports
    BY <1>0, <2>1 DEF SettingsFields
  <2> QED
    BY <1>0, <2>1, <2>2, QuietFrame
<1>3. CASE Activate
  <2>1. /\ UNCHANGED <<fw, kernel, hook, ready, up, job, ndm, program, spoilt, leftover, wd>>
        /\ events' = events + 1 /\ up /\ LockFree
        /\ \E kind \in {"apply", "settings"} :
             tx' = [step |-> "configure", kind |-> kind, fw |-> fw, settings |-> settings,
                    state |-> settings']
        /\ \/ UNCHANGED settings
           \/ \E enabled \in BOOLEAN, port \in Ports :
                settings' = [settings EXCEPT !.enabled = enabled, !.port = port]
    BY <1>3 DEF Activate, router, history, Event
  <2>2. DOMAIN settings' = SettingsFields /\ settings'.port \in Ports
    BY <1>0, <2>1 DEF SettingsFields
  <2>3. /\ DOMAIN tx' = {"step", "kind", "fw", "settings", "state"}
        /\ tx'.fw = fw /\ tx'.settings = settings /\ tx'.state = settings'
    <3>1. PICK kind \in {"apply", "settings"} :
            tx' = [step |-> "configure", kind |-> kind, fw |-> fw, settings |-> settings,
                   state |-> settings']
      BY <2>1
    <3> QED
      BY <3>1
  <2>4. UNCHANGED <<fw, kernel, hook, ready, up, job, ndm, program, spoilt, leftover, wd>>
        /\ events' \in Nat /\ up /\ LockFree
    <3>1. events' = events + 1 /\ events \in Nat
      BY <1>0, <1>3 DEF Activate, Event
    <3>2. UNCHANGED <<fw, kernel, hook, ready, up, job, ndm, program, spoilt, leftover, wd>>
          /\ up /\ LockFree
      BY <1>3 DEF Activate, router, history
    <3> QED
      BY <3>1, <3>2
  <2> QED
    BY <1>0, <2>2, <2>3, <2>4, QuietFrame
<1>4. CASE FirewallStart
  <2>1. /\ up /\ LockFree /\ events' = events + 1
        /\ BeginStart("request", settings.port, settings.known, TRUE)
        /\ UNCHANGED <<settings, fw, kernel, hook, ready, up, tx, wd, ndm, spoilt, leftover>>
    BY <1>4 DEF FirewallStart, router, history, Event
  <2> DEFINE port == settings.port
             known == settings.known
  <2>2. events' \in Nat
    BY <1>0, <2>1
  <2>3. port \in Ports
    BY <1>0
  <2>4. BeginStart("request", port, known, TRUE)
    BY <1>4 DEF FirewallStart
  <2> HIDE DEF port, known
  <2> QED
    BY <2>1, <2>2, <2>3, <2>4, StartStep
<1>5. CASE FirewallStop
  <2>1. /\ up /\ LockFree /\ events' = events + 1 /\ BeginStop("request")
        /\ UNCHANGED <<settings, fw, kernel, hook, ready, up, tx, wd, ndm, spoilt, leftover>>
    BY <1>5 DEF FirewallStop, router, history, Event
  <2> QED
    BY <1>0, <2>1, StopStep
<1>6. CASE Shutdown
  <2>1. /\ up /\ LockFree /\ tx.step = "none" /\ events' = events + 1 /\ BeginStop("shutdown")
        /\ UNCHANGED <<settings, fw, kernel, hook, ready, up, tx, wd, ndm, spoilt, leftover>>
    BY <1>6 DEF Shutdown, router, history, Event, ApplyFree
  <2> QED
    BY <1>0, <2>1, StopStep
<1> QED
  BY <1>1, <1>2, <1>3, <1>4, <1>5, <1>6 DEF RequestNext

(* The activation and its rollback.                                        *)
LEMMA ActivationStep ==
  ASSUME IInv, Configure \/ Acknowledge \/ Rollback \/ Unwind \/ ActivationFails
  PROVE  IInv'
<1>0. /\ events \in Nat /\ DOMAIN settings = SettingsFields /\ settings.port \in Ports
      /\ DOMAIN tx = {"step", "kind", "fw", "settings", "state"}
      /\ DOMAIN wd = {"step", "active", "port", "known", "tproxy"} /\ wd.tproxy \in BOOLEAN
      /\ wd.step = "check" => wd.port \in Ports
      /\ tx.step # "none" => /\ tx.state.port \in Ports /\ (tx.fw.active => tx.fw.port \in Ports)
                             /\ tx.settings.port \in Ports /\ DOMAIN tx.settings = SettingsFields
                             /\ up
      /\ wd.step # "sleep" => up
  BY DEF IInv, Shapes, PortsKnown, JobInv
<1>1. ASSUME NEW step, tx' = [tx EXCEPT !.step = step] \/ tx' = NoTx, tx.step # "none", LockFree,
             UNCHANGED <<fw, kernel, hook, ready, up, job, ndm, program, spoilt, leftover, wd>>,
             events' \in Nat, settings' = settings \/ settings' = tx.settings
      PROVE  IInv'
  <2>1. NoTx.step = "none" /\ DOMAIN NoTx = {"step", "kind", "fw", "settings", "state"}
    BY DEF NoTx
  <2>2. DOMAIN tx' = {"step", "kind", "fw", "settings", "state"}
        /\ (tx'.step # "none" => tx'.state = tx.state /\ tx'.fw = tx.fw /\ tx'.settings = tx.settings)
    BY <1>0, <1>1, <2>1
  <2>3. DOMAIN settings' = SettingsFields /\ settings'.port \in Ports
    BY <1>0, <1>1
  <2> QED
    BY <1>0, <1>1, <2>2, <2>3, QuietFrame
<1>2. CASE Configure
  <2>1. /\ tx.step = "configure" /\ LockFree /\ events' = events /\ up
        /\ UNCHANGED <<settings, fw, kernel, hook, ready, up, wd, ndm, spoilt, leftover>>
        /\ \/ BeginStart("activation", tx.state.port, tx.state.known, TRUE) /\ UNCHANGED tx
           \/ BeginStop("activation") /\ UNCHANGED tx
           \/ tx' = [tx EXCEPT !.step = "ack"] /\ UNCHANGED <<job, program>>
    BY <1>0, <1>2 DEF Configure, router, history, Quietly
  <2>2. CASE BeginStart("activation", tx.state.port, tx.state.known, TRUE) /\ UNCHANGED tx
    BY <1>0, <2>1, <2>2, StartStep
  <2>3. CASE BeginStop("activation") /\ UNCHANGED tx
    BY <1>0, <2>1, <2>3, StopStep
  <2>4. CASE tx' = [tx EXCEPT !.step = "ack"] /\ UNCHANGED <<job, program>>
    BY <1>0, <1>1, <2>1, <2>4
  <2> QED
    BY <2>1, <2>2, <2>3, <2>4
<1>3. CASE Rollback
  <2>1. /\ tx.step = "rollback" /\ LockFree /\ events' = events /\ up
        /\ UNCHANGED <<settings, fw, kernel, hook, ready, up, wd, ndm, spoilt, leftover>>
        /\ \/ tx.fw.active /\ BeginStart("rollback", tx.fw.port, TRUE, TRUE) /\ UNCHANGED tx
           \/ BeginStop("rollback") /\ UNCHANGED tx
           \/ tx' = [tx EXCEPT !.step = "unwind"] /\ UNCHANGED <<job, program>>
    BY <1>0, <1>3 DEF Rollback, router, history, Quietly
  <2>2. CASE tx.fw.active /\ BeginStart("rollback", tx.fw.port, TRUE, TRUE) /\ UNCHANGED tx
    BY <1>0, <2>1, <2>2, StartStep
  <2>3. CASE BeginStop("rollback") /\ UNCHANGED tx
    BY <1>0, <2>1, <2>3, StopStep
  <2>4. CASE tx' = [tx EXCEPT !.step = "unwind"] /\ UNCHANGED <<job, program>>
    BY <1>0, <1>1, <2>1, <2>4
  <2> QED
    BY <2>1, <2>2, <2>3, <2>4
<1>4. CASE Acknowledge
  <2>1. /\ tx.step = "ack" /\ LockFree /\ tx' = NoTx /\ events' = events
        /\ UNCHANGED <<settings, fw, kernel, hook, ready, up, job, wd, ndm, program, spoilt, leftover>>
    BY <1>4 DEF Acknowledge, router, history, Quietly
  <2> QED
    BY <1>0, <1>1, <2>1
<1>5. CASE Unwind
  <2>1. /\ tx.step = "unwind" /\ LockFree /\ tx' = NoTx /\ events' = events
        /\ (settings' = settings \/ settings' = tx.settings)
        /\ UNCHANGED <<fw, kernel, hook, ready, up, job, wd, ndm, program, spoilt, leftover>>
    BY <1>5 DEF Unwind, router, history, Quietly
  <2> QED
    BY <1>0, <1>1, <2>1
<1>6. CASE ActivationFails
  <2>1. /\ tx.step # "none" /\ LockFree /\ tx' = [tx EXCEPT !.step = "rollback"] /\ events' = events + 1
        /\ UNCHANGED <<settings, fw, kernel, hook, ready, up, job, wd, ndm, program, spoilt, leftover>>
    BY <1>6 DEF ActivationFails, router, history, Event
  <2> QED
    BY <1>0, <1>1, <2>1
<1> QED
  BY <1>2, <1>3, <1>4, <1>5, <1>6

(* The watchdog, and ndm's hook.                                           *)
LEMMA WatchdogStep ==
  ASSUME IInv, WatchdogNext \/ NdmHook
  PROVE  IInv'
<1>0. /\ events \in Nat /\ DOMAIN settings = SettingsFields /\ settings.port \in Ports
      /\ DOMAIN tx = {"step", "kind", "fw", "settings", "state"}
      /\ DOMAIN wd = {"step", "active", "port", "known", "tproxy"} /\ wd.tproxy \in BOOLEAN
      /\ wd.step = "check" => wd.port \in Ports
      /\ tx.step # "none" => /\ tx.state.port \in Ports /\ (tx.fw.active => tx.fw.port \in Ports)
                             /\ tx.settings.port \in Ports /\ DOMAIN tx.settings = SettingsFields
                             /\ up
      /\ wd.step # "sleep" => up
      /\ fw.tproxy \in BOOLEAN
  BY DEF IInv, Shapes, PortsKnown, JobInv
<1>1. DOMAIN Asleep = {"step", "active", "port", "known", "tproxy"} /\ Asleep.tproxy = FALSE
      /\ Asleep.step = "sleep"
  BY DEF Asleep
<1>2. CASE Wake
  <2>1. /\ UNCHANGED <<settings, fw, kernel, hook, ready, up, job, tx, ndm, program, spoilt, leftover>>
        /\ events' = events /\ up
        /\ wd' = [step |-> "check", active |-> fw.active, port |-> settings.port,
                  known |-> settings.known, tproxy |-> FALSE]
    BY <1>2 DEF Wake, router, history, Quietly
  <2>2. DOMAIN wd' = {"step", "active", "port", "known", "tproxy"} /\ wd'.tproxy = FALSE
        /\ wd'.port = settings.port
    BY <2>1
  <2> QED
    BY <1>0, <2>1, <2>2, QuietFrame
<1>3. CASE WatchdogStart
  <2>1. /\ wd.step = "check" /\ LockFree /\ BeginStart("watchdog", wd.port, wd.known, TRUE)
        /\ UNCHANGED <<settings, fw, kernel, hook, ready, up, tx, wd, ndm, spoilt, leftover>>
        /\ events' = events
    BY <1>3 DEF WatchdogStart, router, history, Quietly
  <2> QED
    BY <1>0, <2>1, StartStep
<1>4. CASE Repair
  <2>1. /\ UNCHANGED <<settings, fw, kernel, hook, ready, up, job, tx, ndm, spoilt, leftover>>
        /\ events' = events /\ wd.step = "look"
        /\ \/ wd' = Asleep /\ UNCHANGED program
           \/ wd' = [wd EXCEPT !.step = "hook"] /\ RunHook("watchdog")
    BY <1>4 DEF Repair, router, history, Quietly
  <2>2. CASE wd' = Asleep /\ UNCHANGED program
    BY <1>0, <1>1, <2>1, <2>2, QuietFrame
  <2>3. CASE wd' = [wd EXCEPT !.step = "hook"] /\ RunHook("watchdog")
    <3>1. DOMAIN wd' = {"step", "active", "port", "known", "tproxy"} /\ wd'.tproxy = wd.tproxy
          /\ wd'.step = "hook"
      BY <1>0, <2>3
    <3> QED
      BY <1>0, <2>1, <2>3, <3>1, HookStep
  <2> QED
    BY <2>1, <2>2, <2>3
<1>4a. CASE SeeTproxy
  <2>1. /\ UNCHANGED <<settings, fw, kernel, hook, ready, up, job, tx, ndm, program, spoilt, leftover>>
        /\ events' = events /\ wd.step = "check"
        /\ wd' = [wd EXCEPT !.step = "look", !.tproxy = fw.tproxy]
    BY <1>4a DEF SeeTproxy, router, history, Quietly
  <2>2. DOMAIN wd' = {"step", "active", "port", "known", "tproxy"} /\ wd'.tproxy = fw.tproxy
        /\ wd'.step = "look"
    BY <1>0, <2>1
  <2> QED
    BY <1>0, <2>1, <2>2, QuietFrame
<1>5. CASE RepairDirectly
  BY <1>5, RepairDirectlyStep
<1>6. CASE Sleep
  <2>1. /\ UNCHANGED <<settings, fw, kernel, hook, ready, up, job, tx, ndm, program, spoilt, leftover>>
        /\ events' = events /\ wd' = Asleep
    BY <1>6 DEF Sleep, router, history, Quietly
  <2> QED
    BY <1>0, <1>1, <2>1, QuietFrame
<1>7. CASE NdmHook
  <2>1. /\ UNCHANGED <<settings, fw, kernel, hook, ready, up, job, tx, wd, spoilt, leftover>>
        /\ events' = events /\ RunHook("ndm")
    BY <1>7 DEF NdmHook, router, history, Quietly
  <2> QED
    BY <1>0, <2>1, HookStep
<1> QED
  BY <1>2, <1>3, <1>4, <1>4a, <1>5, <1>6, <1>7 DEF WatchdogNext

-----------------------------------------------------------------------------
(* The theorem.                                                            *)

(* The invariant holds in the initial states ...                           *)
LEMMA InvInit ==
  ASSUME Init
  PROVE  IInv
<1>1. /\ settings \in [enabled : BOOLEAN, port : {DefaultPort}, known : {FALSE}, tproxy : {TRUE}]
      /\ fw = FreshFirewall /\ kernel = NoRules /\ hook = [port |-> NoPort, tproxy |-> FALSE]
      /\ ready = FALSE /\ up = FALSE /\ job = NoJob /\ tx = NoTx /\ wd = Asleep /\ ndm = "idle"
      /\ program = [w \in Writers |-> NoProgram] /\ spoilt = {} /\ leftover = FALSE /\ events = 0
  BY DEF Init
<1>2. DOMAIN settings = SettingsFields /\ settings.port \in Ports
  BY <1>1, FirewallAssumption DEF SettingsFields
<1>3. /\ DOMAIN program = Writers /\ \A w \in Writers : program[w] = NoProgram
      /\ \A w \in Writers : First(w) = "end" /\ ~Running(w)
      /\ ~Pending("ready")
  <2>1. DOMAIN program = Writers /\ \A w \in Writers : program[w] = NoProgram
    BY <1>1
  <2>2. 1..Len(NoProgram.run) = {}
    BY NoProgramLegal
  <2> QED
    BY <2>1, <2>2, NoProgramLegal DEF First, Running, Pending, Writers
<1>4. /\ fw.active = FALSE /\ fw.tproxy = FALSE
      /\ job.kind = "none" /\ job.tproxy = FALSE /\ DOMAIN job = JobFields
      /\ tx.step = "none" /\ DOMAIN tx = {"step", "kind", "fw", "settings", "state"}
      /\ wd.step = "sleep" /\ wd.tproxy = FALSE /\ DOMAIN wd = {"step", "active", "port", "known", "tproxy"}
      /\ DOMAIN kernel = KernelFields /\ kernel.exists = FALSE /\ kernel.jump = FALSE
      /\ hook.tproxy = FALSE
  BY <1>1 DEF FreshFirewall, NoJob, NoTx, Asleep, NoRules, KernelFields, JobFields
<1>5. Shapes
  BY <1>1, <1>2, <1>3, <1>4, NoProgramLegal DEF Shapes
<1>6. PortsKnown
  BY <1>2, <1>4 DEF PortsKnown
<1>7. LockFree /\ ~Removed /\ ~Built
  BY <1>4 DEF LockFree, Removed, Built
<1>8. JobInv
  BY <1>4, <1>7 DEF JobInv
<1>9. Programs
  BY <1>3, NoProgramLegal DEF Programs, Writers
<1>10. \A w \in Writers : NatHere(w) /\ MangleHere(w, FALSE) /\ MangleHere(w, Booting)
  BY <1>3 DEF NatHere, NatAt, MangleHere, MangleAt
<1>11. NatInv /\ MangleInv
  BY <1>1, <1>3, <1>4, <1>7, <1>10 DEF NatInv, MangleInv, Writers
<1>12. FilesInv
  BY <1>1, <1>3, <1>4, <1>7 DEF FilesInv, Writers
<1> QED
  BY <1>5, <1>6, <1>8, <1>9, <1>11, <1>12 DEF IInv

(* ... and every step preserves it.                                        *)
LEMMA InvNext ==
  ASSUME IInv, [Next]_vars
  PROVE  IInv'
<1>1. CASE \E w \in Writers : RunCommand(w)
  BY <1>1, CommandStep
<1>2. CASE Probe
  BY <1>2, ProbeStep
<1>3. CASE FinishJob
  BY <1>3, FinishJobStep
<1>4. CASE Configure \/ Acknowledge \/ Rollback \/ Unwind \/ ActivationFails
  BY <1>4, ActivationStep
<1>5. CASE Boot
  BY <1>5, BootStep
<1>6. CASE WatchdogNext \/ NdmHook
  BY <1>6, WatchdogStep
<1>7. CASE RequestNext
  BY <1>7, RequestStep
<1>8. CASE Reload
  BY <1>8, ReloadStep
<1>9. CASE Crash
  BY <1>9, CrashStep
<1>10. CASE UNCHANGED vars
  <2>1. UNCHANGED <<settings, fw, kernel, hook, ready, up, job, tx, wd, ndm, program, spoilt, leftover, events>>
    BY <1>10 DEF vars
  <2> QED
    BY <2>1, QuietFrame DEF IInv, Shapes, PortsKnown, JobInv
<1> QED
  BY <1>1, <1>2, <1>3, <1>4, <1>5, <1>6, <1>7, <1>8, <1>9, <1>10 DEF Next, DaemonNext, FailureNext

(* What the invariant says when nobody is writing.                         *)
LEMMA InvFollows ==
  ASSUME IInv
  PROVE  RouterFollowsFirewall
<1> SUFFICES ASSUME up, LockFree
             PROVE  HookFollows /\ ((Quiet /\ ndm = "idle") => NatFollows /\ MangleFollows)
  BY DEF RouterFollowsFirewall
<1>1. HookFollows
  BY DEF IInv, FilesInv, HookFollows
<1>2. ASSUME Quiet, ndm = "idle" PROVE NatFollows
  <2>1. Settled /\ fw.active \in BOOLEAN /\ kernel.exists \in BOOLEAN /\ kernel.jump \in BOOLEAN
    BY <1>2 DEF Settled, IInv, Shapes
  <2>2. "nat" \notin spoilt => /\ ~fw.active => NoNat(kernel)
                               /\ fw.active => Full(kernel, fw.port)
    BY <2>1 DEF IInv, NatInv, Clean
  <2> QED
    BY <2>1, <2>2 DEF NatFollows, NoNat, Full
<1>3. ASSUME Quiet, ndm = "idle" PROVE MangleFollows
  <2>1. Settled
    BY <1>3 DEF Settled
  <2>2. "mangle" \notin spoilt => /\ fw.active /\ fw.tproxy => kernel.udp = fw.port
                                  /\ ~(fw.active /\ fw.tproxy) => kernel.udp = NoPort
    BY <2>1 DEF IInv, MangleInv, Clean
  <2> QED
    BY <2>2 DEF MangleFollows
<1> QED
  BY <1>1, <1>2, <1>3

(* Whatever starts, stops, activations, rollbacks, reloads, repairs,       *)
(* crashes and new starts have run, the router follows the firewall, for   *)
(* any ports and any number of events.  (FirewallManager)                  *)
THEOREM RulesFollowFirewall == Spec => []RouterFollowsFirewall
<1>1. Init => IInv
  BY InvInit
<1>2. IInv /\ [Next]_vars => IInv'
  BY InvNext
<1>3. IInv => RouterFollowsFirewall
  BY InvFollows
<1> QED
  BY <1>1, <1>2, <1>3, PTL DEF Spec
=============================================================================
