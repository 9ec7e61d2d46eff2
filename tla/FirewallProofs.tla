---------------------------- MODULE FirewallProofs ----------------------------
(***************************************************************************)
(* What holds of Firewall for every number of services and callers, under  *)
(* any interleaving of their commands and any failures.                    *)
(***************************************************************************)
EXTENDS Firewall, TLAPS

USE FirewallAssumption

(* Where the fixed chains hold a rule, they hold all before it in Fixed.   *)
Ordered ==
    \A i \in DOMAIN installed, k \in DOMAIN Fixed :
        installed[i] = Fixed[k] => \A h \in 1..(k-1) : Above(Fixed[h], i)

(* A caller has found or made all rules before the one it is at, all of    *)
(* them once it writes a row, and they are there while any service runs.   *)
AllInstalled == \A h \in DOMAIN Fixed : Installed(Fixed[h])
Fits(a) ==
    /\ \A h \in DOMAIN Fixed : h < act[a].at => Installed(Fixed[h])
    /\ act[a].pc \in {"add", "readd"} => act[a].at \in DOMAIN Fixed
    /\ act[a].pc = "row" => AllInstalled
    /\ act[a].pc \in {"ensure", "add", "row"} => act[a].on \in Services
Progress == (\A a \in Callers : Fits(a)) /\ (up # {} => AllInstalled)

(* A rule accepts from outside only what its target's manifests list.      *)
Sound(r) ==
    r.verdict = "ACCEPT" =>
        \A o \in Outside, t \in Services : o \in r.from /\ t \in r.to => o \in listed[t]
Guarded ==
    /\ \A s \in Services : man[s].ingress.allowNets \subseteq listed[s]
    /\ \A i \in DOMAIN policy : Sound(policy[i])
    /\ \A a \in Callers : \A r \in act[a].todo : Sound(r)

IInv == TypeOK /\ Ordered /\ Progress /\ Guarded

------------------------------------------------------------------------------
(* The list of fixed rules.                                                *)

LEMMA FixedFacts ==
    /\ Fixed \in Seq({Fixed[k] : k \in DOMAIN Fixed})
    /\ Len(Fixed) = 8 /\ DOMAIN Fixed = 1..8
    /\ Fixed[1] = In("FORWARD", "firewall") /\ Fixed[2] = In("firewall", "policy")
    /\ Fixed[3] = In("firewall", "spoofed") /\ Fixed[4] = In("firewall", "between")
    /\ Fixed[5] = In("firewall", "leaving") /\ Fixed[6] = In("firewall", "established")
    /\ Fixed[7] = In("firewall", "fence") /\ Fixed[8] = In("INPUT", "input")
    /\ \A h, k \in 1..8 : Fixed[h] = Fixed[k] => h = k
  <1>1. /\ Len(Fixed) = 8 /\ DOMAIN Fixed = 1..8
        /\ Fixed[1] = In("FORWARD", "firewall") /\ Fixed[2] = In("firewall", "policy")
        /\ Fixed[3] = In("firewall", "spoofed") /\ Fixed[4] = In("firewall", "between")
        /\ Fixed[5] = In("firewall", "leaving") /\ Fixed[6] = In("firewall", "established")
        /\ Fixed[7] = In("firewall", "fence") /\ Fixed[8] = In("INPUT", "input")
    BY DEF Fixed
  <1>2. \A h, k \in 1..8 : Fixed[h] = Fixed[k] => h = k
    BY <1>1 DEF In
  <1>3. Fixed \in Seq({Fixed[k] : k \in DOMAIN Fixed})
    BY DEF Fixed
  <1> QED BY <1>1, <1>2, <1>3

------------------------------------------------------------------------------
(* The rules compiled from the manifests.                                  *)

LEMMA ManifestType ==
    \A m \in Manifests : /\ m.ingress \in Policy /\ m.egress \in Policy
                         /\ m.ingress.allowNets \subseteq Everyone
                         /\ m.ingress.denyNets \subseteq Everyone
                         /\ m.egress.allowNets \subseteq Everyone
                         /\ m.egress.denyNets \subseteq Everyone
  BY FirewallAssumption DEF Policy

LEMMA TargetType == \A b \in BOOLEAN : Target(b) \in Targets
  BY DEF Target, Targets

LEMMA RuleMade ==
    ASSUME NEW g \in Nat, NEW s \in Nat, NEW k \in Nat, NEW from \in SUBSET Everyone,
           NEW to \in SUBSET Everyone, NEW verdict \in Targets
    PROVE  /\ Rule(g, s, k, from, to, verdict) \in TodoType
           /\ Rule(g, s, k, from, to, verdict).from = from
           /\ Rule(g, s, k, from, to, verdict).to = to
           /\ Rule(g, s, k, from, to, verdict).verdict = verdict
  BY DEF Rule, TodoType

(* Every compiled rule is well typed, and one that comes from outside and  *)
(* accepts is made from the allow_cidrs of its target's ingress.           *)
LEMMA Compiled ==
    ASSUME NEW B \in SUBSET Services, NEW m \in [Services -> Manifests],
           NEW r \in Compile(B, m)
    PROVE  /\ r \in TodoType
           /\ r.verdict = "ACCEPT" =>
                \A o \in Outside, t \in Services :
                    o \in r.from /\ t \in r.to => o \in m[t].ingress.allowNets
  <1>0. /\ Services \subseteq Nat /\ Services \subseteq Everyone /\ Outside \subseteq Everyone
        /\ Outside \cap Services = {} /\ {} \in SUBSET Everyone
        /\ 1 \in Nat /\ 2 \in Nat /\ 3 \in Nat /\ 4 \in Nat
        /\ "DROP" \in Targets /\ "ACCEPT" \in Targets /\ "DROP" # "ACCEPT"
    BY FirewallAssumption DEF Services, Everyone, Targets
  <1>1. r \in PairRules(B, m) \/ r \in IngressRules(B, m) \/ r \in EgressRules(B, m)
    BY DEF Compile
  <1>2. CASE r \in PairRules(B, m)
    <2>1. PICK s \in B, t \in B :
            r = Rule(1, s, t, {s}, {t},
                     Target(Permits(m[s].egress, t) /\ Permits(m[t].ingress, s)))
      BY <1>2 DEF PairRules
    <2>2. /\ s \in Nat /\ t \in Nat /\ {s} \in SUBSET Everyone /\ {t} \in SUBSET Everyone
          /\ s \in Services
      BY <1>0
    <2>3. Target(Permits(m[s].egress, t) /\ Permits(m[t].ingress, s)) \in Targets
      BY DEF Target, Targets
    <2>4. r \in TodoType /\ r.from = {s}
      BY <2>1, <2>2, <2>3, <1>0, RuleMade
    <2> QED BY <2>2, <2>4, <1>0
  <1>3. CASE r \in IngressRules(B, m)
    <2>1. PICK t \in B :
            \/ r = Rule(2, t, 1, m[t].ingress.denyNets, {t}, "DROP")
            \/ r = Rule(2, t, 2, m[t].ingress.allowNets, {t}, "ACCEPT")
            \/ r = Rule(2, t, 3, IF m[t].ingress.default = "deny" THEN Everyone ELSE {},
                        {t}, "DROP")
      BY <1>3 DEF IngressRules
    <2>2. /\ t \in Nat /\ {t} \in SUBSET Everyone /\ m[t] \in Manifests /\ t \in Services
          /\ m[t].ingress.denyNets \in SUBSET Everyone
          /\ m[t].ingress.allowNets \in SUBSET Everyone
          /\ (IF m[t].ingress.default = "deny" THEN Everyone ELSE {}) \in SUBSET Everyone
      BY <1>0, ManifestType
    <2>3. CASE r = Rule(2, t, 2, m[t].ingress.allowNets, {t}, "ACCEPT")
      <3>1. r \in TodoType /\ r.from = m[t].ingress.allowNets /\ r.to = {t}
        BY <2>2, <2>3, <1>0, RuleMade
      <3> QED BY <3>1
    <2>4. CASE r = Rule(2, t, 1, m[t].ingress.denyNets, {t}, "DROP")
      BY <2>2, <2>4, <1>0, RuleMade
    <2>5. CASE r = Rule(2, t, 3, IF m[t].ingress.default = "deny" THEN Everyone ELSE {},
                        {t}, "DROP")
      BY <2>2, <2>5, <1>0, RuleMade
    <2> QED BY <2>1, <2>3, <2>4, <2>5
  <1>4. CASE r \in EgressRules(B, m)
    <2>1. PICK s \in B, k \in 1..4, to \in SUBSET Everyone, verdict \in Targets :
            r = Rule(3, s, k, {s}, to, verdict)
      <3>1. PICK s \in B :
            \/ r = Rule(3, s, 1, {s}, m[s].egress.denyNets, "DROP")
            \/ r = Rule(3, s, 2, {s}, m[s].egress.allowNets, "ACCEPT")
            \/ r = Rule(3, s, 3, {s}, Outside, Target(m[s].egress.default = "allow"))
            \/ r = Rule(3, s, 4, {s}, Services, "DROP")
        BY <1>4 DEF EgressRules
      <3>0. {1, 2, 3, 4} \subseteq 1..4
        OBVIOUS
      <3>2. /\ m[s] \in Manifests
            /\ m[s].egress.denyNets \in SUBSET Everyone
            /\ m[s].egress.allowNets \in SUBSET Everyone
            /\ Outside \in SUBSET Everyone /\ Services \in SUBSET Everyone
            /\ Target(m[s].egress.default = "allow") \in Targets
        BY <1>0, ManifestType DEF Target
      <3> DEFINE Shape(k, to, verdict) == r = Rule(3, s, k, {s}, to, verdict)
      <3>3. \E k \in 1..4, to \in SUBSET Everyone, verdict \in Targets : Shape(k, to, verdict)
        <4>1. \/ Shape(1, m[s].egress.denyNets, "DROP")
              \/ Shape(2, m[s].egress.allowNets, "ACCEPT")
              \/ Shape(3, Outside, Target(m[s].egress.default = "allow"))
              \/ Shape(4, Services, "DROP")
          BY <3>1
        <4> HIDE DEF Shape
        <4> QED BY <4>1, <3>0, <3>2, <1>0
      <3> QED BY <3>3
    <2>2. /\ s \in Nat /\ k \in Nat /\ {s} \in SUBSET Everyone /\ s \in Services
      BY <1>0
    <2>3. r \in TodoType /\ r.from = {s}
      BY <2>1, <2>2, <1>0, RuleMade
    <2> QED BY <2>2, <2>3, <1>0
  <1> QED BY <1>1, <1>2, <1>3, <1>4

------------------------------------------------------------------------------
(* Types.                                                                  *)

Pcs == {"idle", "ensure", "add", "row", "read", "check", "readd", "flush", "append"}

LEMMA ActMade ==
    /\ Idle \in ActType
    /\ \A x \in ActType, p \in Pcs :
        /\ \A k \in 1..9 : [x EXCEPT !.at = k, !.pc = p] \in ActType
        /\ \A T \in SUBSET TodoType : [x EXCEPT !.pc = p, !.todo = T] \in ActType
    /\ \A p \in Pcs, op \in {"none", "start", "stop", "tick"}, s \in Services \cup {0} :
        [pc |-> p, op |-> op, on |-> s, at |-> 1, todo |-> {}] \in ActType
  <1>1. Len(Fixed) + 1 = 9 /\ 1 \in 1..9 /\ 0 \in Services \cup {0}
    BY FixedFacts
  <1>2. ActType = [pc : Pcs, op : {"none", "start", "stop", "tick"}, on : Services \cup {0},
                   at : 1..9, todo : SUBSET TodoType]
    BY <1>1 DEF ActType, Pcs
  <1>3. Idle \in ActType
    BY <1>1, <1>2 DEF Idle, Pcs
  <1>4. ASSUME NEW x \in ActType, NEW p \in Pcs, NEW k \in 1..9
        PROVE [x EXCEPT !.at = k, !.pc = p] \in ActType
    BY <1>2, Zenon
  <1>5. ASSUME NEW x \in ActType, NEW p \in Pcs, NEW T \in SUBSET TodoType
        PROVE [x EXCEPT !.pc = p, !.todo = T] \in ActType
    BY <1>2, Zenon
  <1>6. ASSUME NEW p \in Pcs, NEW op \in {"none", "start", "stop", "tick"},
               NEW s \in Services \cup {0}
        PROVE  [pc |-> p, op |-> op, on |-> s, at |-> 1, todo |-> {}] \in ActType
    BY <1>1, <1>2
  <1> QED BY <1>3, <1>4, <1>5, <1>6

LEMMA ActFields ==
    ASSUME TypeOK, NEW a \in Callers
    PROVE  /\ act[a] \in ActType
           /\ act[a].pc \in Pcs /\ act[a].on \in Services \cup {0}
           /\ act[a].at \in 1..9 /\ act[a].todo \in SUBSET TodoType
  BY FixedFacts DEF TypeOK, ActType, Pcs

(* What a step makes of a caller's record.                                 *)
LEMMA ActStep ==
    ASSUME TypeOK, Progress, [Next]_vars
    PROVE  act' \in [Callers -> ActType]
  <1>0. act \in [Callers -> ActType]
    BY DEF TypeOK
  <1>1. CASE UNCHANGED vars
    BY <1>0, <1>1 DEF vars
  <1>2. ASSUME NEW a \in Callers, NEW k \in 1..9, NEW p \in Pcs, Seek(a, k, p)
        PROVE act' \in [Callers -> ActType]
    BY <1>0, <1>2, ActMade DEF Seek
  <1>8. ASSUME NEW a \in Callers, NEW T \in SUBSET TodoType, NEW p \in Pcs, Plan(a, T, p)
        PROVE act' \in [Callers -> ActType]
    BY <1>0, <1>8, ActMade DEF Plan
  <1>3. ASSUME NEW a \in Callers, NEW p \in Pcs,
               NEW op \in {"none", "start", "stop", "tick"}, NEW s \in Services \cup {0},
               Begin(a, p, op, s)
        PROVE act' \in [Callers -> ActType]
    BY <1>0, <1>3, ActMade DEF Begin
  <1>4. ASSUME NEW a \in Callers, Finish(a) PROVE act' \in [Callers -> ActType]
    BY <1>0, <1>4, ActMade DEF Finish
  <1>5. ASSUME NEW a \in Clients, NEW s \in Services, Deploy(a, s) \/ Start(a, s) \/ Stop(a, s)
        PROVE act' \in [Callers -> ActType]
    BY <1>0, <1>3, <1>5 DEF Deploy, Start, Stop, Callers, Pcs
  <1>6. ASSUME NEW a \in Loops, Tick(a) \/ TickEnds(a) PROVE act' \in [Callers -> ActType]
    BY <1>0, <1>3, <1>6 DEF Tick, TickEnds, Callers, Pcs
  <1>9. ASSUME NEW s \in Services, Hang(s) \/ Release(s) PROVE act' \in [Callers -> ActType]
    BY <1>0, <1>9 DEF Hang, Release
  <1>7. ASSUME NEW a \in Callers, StartRow(a) \/ Refresh(a) \/ CommandFails(a)
        PROVE act' \in [Callers -> ActType]
    <2>1. CASE StartRow(a)
      BY <1>2, <2>1 DEF StartRow, Goto, Pcs
    <2>2. CASE Read(a)
      <3>1. Compile(up, man) \in SUBSET TodoType
        BY Compiled DEF TypeOK
      <3> QED BY <1>8, <2>2, <3>1 DEF Read, Pcs
    <2>3. CASE Check(a)
      <3>1. CASE Missing(a) = {} /\ Goto(a, Ensured(a))
        BY <1>2, <3>1 DEF Ensured, Goto, Pcs
      <3>2. ASSUME NEW k \in Missing(a),
                   Seek(a, k, IF act[a].pc = "ensure" THEN "add" ELSE "readd")
            PROVE act' \in [Callers -> ActType]
        <4>1. k \in 1..9
          BY ActFields, FixedFacts DEF Missing
        <4> QED BY <1>2, <3>2, <4>1 DEF Pcs
      <3> QED BY <2>3, <3>1, <3>2 DEF Check
    <2>4. CASE Add(a)
      <3>1. act[a].at + 1 \in 1..9
        BY <2>4, FixedFacts DEF Add, Progress, Fits
      <3> QED BY <1>2, <2>4, <3>1 DEF Add, Pcs
    <2>5. CASE Flush(a)
      BY <1>2, <1>4, <2>5 DEF Flush, Goto, Pcs
    <2>6. CASE AppendRule(a)
      <3>1. \A r : act[a].todo \ {r} \in SUBSET TodoType
        BY ActFields
      <3>2. Finish(a) \/ \E r : Plan(a, act[a].todo \ {r}, "append")
        BY <2>6 DEF AppendRule
      <3> QED BY <1>4, <1>8, <3>1, <3>2 DEF Pcs
    <2>7. CASE CommandFails(a)
      BY <1>4, <2>7 DEF CommandFails
    <2> QED BY <1>7, <2>1, <2>2, <2>3, <2>4, <2>5, <2>6, <2>7 DEF Refresh
  <1> QED BY <1>1, <1>5, <1>6, <1>7, <1>9 DEF Next

LEMMA AppendFacts ==
    ASSUME NEW S, NEW q \in Seq(S), NEW e \in S
    PROVE  /\ Append(q, e) \in Seq(S)
           /\ Len(q) \in Nat /\ DOMAIN q = 1..Len(q)
           /\ DOMAIN Append(q, e) = 1..(Len(q) + 1)
           /\ \A j \in 1..Len(q) : Append(q, e)[j] = q[j]
           /\ Append(q, e)[Len(q) + 1] = e
  OBVIOUS

(* What a step may write: a rule appended by a caller that is at it, rules *)
(* of a plan, and rows.                                                    *)
Grown(k) == installed' = Append(installed, Fixed[k]) /\ \A h \in 1..(k-1) : Installed(Fixed[h])

LEMMA ChainWrites ==
    ASSUME TypeOK, Progress, [Next]_vars
    PROVE  UNCHANGED installed \/ \E k \in 1..8 : Grown(k)
  <1>1. CASE \E a \in Callers : Add(a)
    <2>1. PICK a \in Callers : Add(a)
      BY <1>1
    <2>2. act[a].at \in 1..8
      BY <2>1, FixedFacts DEF Add, Progress, Fits
    <2>3. Grown(act[a].at)
      BY <2>1, <2>2, FixedFacts DEF Add, Progress, Fits, Grown
    <2> QED BY <2>2, <2>3
  <1>2. CASE ~ \E a \in Callers : Add(a)
    BY <1>2 DEF Next, vars, Callers, Refresh, Deploy, Start, Stop, Tick, StartRow, Read, Check,
                Flush, AppendRule, CommandFails, TickEnds, Hang, Release
  <1> QED BY <1>1, <1>2

Bare(r) == [from |-> r.from, to |-> r.to, verdict |-> r.verdict]

LEMMA PolicyWrites ==
    ASSUME [Next]_vars
    PROVE  \/ UNCHANGED policy
           \/ policy' = << >>
           \/ \E a \in Callers : \E r \in act[a].todo : policy' = Append(policy, Bare(r))
  BY DEF Next, vars, Refresh, Deploy, Start, Stop, Tick, StartRow, Read, Check, Add,
         Flush, AppendRule, CommandFails, TickEnds, Hang, Release, Bare

LEMMA RowWrites ==
    ASSUME TypeOK, [Next]_vars
    PROVE  \/ UNCHANGED <<man, listed>>
           \/ \E s \in Services, m \in Manifests :
                 /\ man' = [man EXCEPT ![s] = m]
                 /\ listed' = [listed EXCEPT ![s] = listed[s] \cup m.ingress.allowNets]
  BY DEF TypeOK, Next, vars, rows, history, Refresh, Deploy, Start, Stop, Tick, StartRow, Read,
         Check, Add, Flush, AppendRule, CommandFails, TickEnds, Hang, Release

LEMMA UpWrites ==
    ASSUME TypeOK, [Next]_vars
    PROVE  \/ up' \subseteq up
           \/ \E a \in Callers : act[a].pc = "row" /\ up' = up \cup {act[a].on}
  BY DEF TypeOK, Next, vars, rows, history, Refresh, Deploy, Start, Stop, Tick, StartRow, Read,
         Check, Add, Flush, AppendRule, CommandFails, TickEnds, Hang, Release

LEMMA CountWrites ==
    ASSUME TypeOK, [Next]_vars
    PROVE  /\ stale' \subseteq Services /\ stuck' \subseteq up'
           /\ deploys' \in 0..MaxDeploys /\ faults' \in 0..MaxFaults
  <1> USE FirewallAssumption
  <1>1. \/ UNCHANGED deploys
        \/ deploys < MaxDeploys /\ deploys' = deploys + 1
    BY DEF Next, vars, rows, history, Refresh, Deploy, Start, Stop, Tick, StartRow, Read,
           Check, Add, Flush, AppendRule, CommandFails, TickEnds, Hang, Release
  <1>2. \/ UNCHANGED faults
        \/ faults < MaxFaults /\ faults' = faults + 1
    BY DEF Next, vars, rows, history, Refresh, Deploy, Start, Stop, Tick, StartRow, Read,
           Check, Add, Flush, AppendRule, CommandFails, TickEnds, Hang, Release
  <1>3. UNCHANGED stale \/ stale' = {} \/ \E s \in Services : stale' = stale \cup {s}
    BY DEF Next, vars, rows, history, Refresh, Deploy, Start, Stop, Tick, StartRow, Read,
           Check, Add, Flush, AppendRule, CommandFails, TickEnds, Hang, Release
  <1>4. \/ stuck' = stuck \cap up'
        \/ stuck' = stuck /\ up \subseteq up'
        \/ stuck' = stuck /\ \E s \in Services \ stuck : up' = up \ {s}
        \/ stuck' = stuck /\ \E ended \in SUBSET (up \ stuck) : up' = up \ ended
        \/ UNCHANGED up /\ \E s \in up : stuck' = stuck \cup {s} \/ stuck' = stuck \ {s}
    BY DEF TypeOK, Next, vars, rows, history, Refresh, Deploy, Start, Stop, Tick, StartRow, Read,
           Check, Add, Flush, AppendRule, CommandFails, TickEnds, Hang, Release
  <1> QED BY <1>1, <1>2, <1>3, <1>4 DEF TypeOK

LEMMA TypeStep ==
    ASSUME TypeOK, Progress, [Next]_vars
    PROVE  TypeOK'
  <1>1. man' \in [Services -> Manifests] /\ listed' \in [Services -> SUBSET Everyone]
    BY RowWrites, ManifestType DEF TypeOK
  <1>2. up' \subseteq Services
    <2>1. CASE up' \subseteq up
      BY <2>1 DEF TypeOK
    <2>2. ASSUME NEW a \in Callers, act[a].pc = "row", up' = up \cup {act[a].on}
          PROVE  up' \subseteq Services
      BY <2>2 DEF TypeOK, Progress, Fits
    <2> QED BY <2>1, <2>2, UpWrites
  <1>3. installed' \in Seq({Fixed[k] : k \in DOMAIN Fixed})
    <2> DEFINE S == {Fixed[k] : k \in DOMAIN Fixed}
    <2>1. \A k \in 1..8 : Fixed[k] \in S
      BY FixedFacts
    <2>2. installed \in Seq(S)
      BY DEF TypeOK
    <2> HIDE DEF S
    <2> SUFFICES installed' \in Seq(S)
      BY DEF S
    <2>3. \A k \in 1..8 : Append(installed, Fixed[k]) \in Seq(S)
      BY <2>1, <2>2, AppendFacts
    <2> QED BY <2>2, <2>3, ChainWrites DEF Grown
  <1>4. policy' \in Seq(RuleType)
    <2>1. ASSUME NEW a \in Callers, NEW r \in act[a].todo PROVE Bare(r) \in RuleType
      <3>1. r \in TodoType
        BY ActFields
      <3> QED BY <3>1 DEF Bare, TodoType, RuleType
    <2>2. << >> \in Seq(RuleType) /\ policy \in Seq(RuleType)
      BY DEF TypeOK
    <2>3. \A x \in RuleType : Append(policy, x) \in Seq(RuleType)
      BY <2>2, AppendFacts
    <2> QED BY <2>1, <2>2, <2>3, PolicyWrites
  <1> QED BY <1>1, <1>2, <1>3, <1>4, ActStep, CountWrites DEF TypeOK

------------------------------------------------------------------------------
(* The order of the chains, and how far each caller is.                    *)

LEMMA Kept ==
    ASSUME TypeOK, Progress, [Next]_vars, NEW e, Installed(e)
    PROVE  Installed(e)'
  <1>1. PICK i \in DOMAIN installed : installed[i] = e
    BY DEF Installed
  <1>2. CASE UNCHANGED installed
    BY <1>1, <1>2 DEF Installed
  <1>3. ASSUME NEW k \in 1..8, Grown(k) PROVE Installed(e)'
    <2>1. Fixed[k] \in {Fixed[x] : x \in DOMAIN Fixed}
      BY FixedFacts
    <2>2. i \in DOMAIN installed' /\ installed'[i] = e
      BY <1>1, <1>3, <2>1, AppendFacts DEF Grown, TypeOK
    <2> QED BY <2>2 DEF Installed
  <1> QED BY <1>2, <1>3, ChainWrites

LEMMA OrderedStep ==
    ASSUME TypeOK, Ordered, Progress, [Next]_vars
    PROVE  Ordered'
  <1>1. CASE UNCHANGED installed
    BY <1>1 DEF Ordered, Above
  <1>2. ASSUME NEW g \in 1..8, Grown(g) PROVE Ordered'
    <2> DEFINE Covered(i, k, h) == \E j \in 1..(i-1) : installed'[j] = Fixed[h]
    <2> SUFFICES ASSUME NEW i \in DOMAIN installed', NEW k \in 1..8, NEW h \in 1..(k-1),
                        installed'[i] = Fixed[k]
                 PROVE  Covered(i, k, h)
      <3>1. Ordered' <=> \A i \in DOMAIN installed', k \in DOMAIN Fixed :
                installed'[i] = Fixed[k] => \A h \in 1..(k-1) : Covered(i, k, h)
        BY DEF Ordered, Above
      <3> HIDE DEF Covered
      <3> QED BY <3>1, FixedFacts
    <2>1. /\ installed \in Seq({Fixed[x] : x \in DOMAIN Fixed})
          /\ Fixed[g] \in {Fixed[x] : x \in DOMAIN Fixed}
          /\ installed' = Append(installed, Fixed[g])
      BY <1>2, FixedFacts DEF TypeOK, Grown
    <2>2. /\ Len(installed) \in Nat /\ DOMAIN installed = 1..Len(installed)
          /\ DOMAIN installed' = 1..(Len(installed) + 1)
          /\ \A j \in 1..Len(installed) : installed'[j] = installed[j]
          /\ installed'[Len(installed) + 1] = Fixed[g]
      BY <2>1, AppendFacts
    <2>3. CASE i \in 1..Len(installed)
      <3>0. i \in DOMAIN installed /\ installed[i] = Fixed[k] /\ k \in DOMAIN Fixed
        BY <2>2, <2>3, FixedFacts
      <3>1. \E j \in 1..(i-1) : installed[j] = Fixed[h]
        BY <3>0 DEF Ordered, Above
      <3>2. 1..(i-1) \subseteq 1..Len(installed)
        BY <2>2, <2>3
      <3> QED BY <2>2, <3>1, <3>2
    <2>4. CASE i = Len(installed) + 1
      <3>1. g = k
        BY <2>2, <2>4, FixedFacts
      <3>2. \E j \in DOMAIN installed : installed[j] = Fixed[h]
        BY <1>2, <3>1 DEF Grown, Installed
      <3> QED BY <2>2, <2>4, <3>2
    <2> QED BY <2>2, <2>3, <2>4
  <1> QED BY <1>1, <1>2, ChainWrites

(* What each way of writing a caller's record leaves in it.                *)
LEMMA Written ==
    ASSUME TypeOK, NEW a \in Callers
    PROVE  /\ \A k, p : Seek(a, k, p) =>
                /\ act'[a].at = k /\ act'[a].pc = p /\ act'[a].on = act[a].on
                /\ act'[a].todo = act[a].todo
                /\ \A b \in Callers \ {a} : act'[b] = act[b]
           /\ \A T, p : Plan(a, T, p) =>
                /\ act'[a].at = act[a].at /\ act'[a].pc = p /\ act'[a].on = act[a].on
                /\ act'[a].todo = T
                /\ \A b \in Callers \ {a} : act'[b] = act[b]
           /\ \A p, op, s : Begin(a, p, op, s) =>
                /\ act'[a].at = 1 /\ act'[a].pc = p /\ act'[a].on = s /\ act'[a].todo = {}
                /\ \A b \in Callers \ {a} : act'[b] = act[b]
           /\ Finish(a) =>
                /\ act'[a].at = 1 /\ act'[a].pc = "idle" /\ act'[a].todo = {}
                /\ \A b \in Callers \ {a} : act'[b] = act[b]
  <1>1. act \in [Callers -> ActType] /\ act[a] \in ActType
    BY DEF TypeOK
  <1>2. ASSUME NEW k, NEW p, Seek(a, k, p)
        PROVE /\ act'[a].at = k /\ act'[a].pc = p /\ act'[a].on = act[a].on
              /\ act'[a].todo = act[a].todo
              /\ \A b \in Callers \ {a} : act'[b] = act[b]
    BY <1>1, <1>2 DEF Seek, ActType
  <1>3. ASSUME NEW T, NEW p, Plan(a, T, p)
        PROVE /\ act'[a].at = act[a].at /\ act'[a].pc = p /\ act'[a].on = act[a].on
              /\ act'[a].todo = T
              /\ \A b \in Callers \ {a} : act'[b] = act[b]
    BY <1>1, <1>3 DEF Plan, ActType
  <1>4. ASSUME NEW p, NEW op, NEW s, Begin(a, p, op, s)
        PROVE /\ act'[a].at = 1 /\ act'[a].pc = p /\ act'[a].on = s /\ act'[a].todo = {}
              /\ \A b \in Callers \ {a} : act'[b] = act[b]
    BY <1>1, <1>4 DEF Begin
  <1>5. ASSUME Finish(a)
        PROVE /\ act'[a].at = 1 /\ act'[a].pc = "idle" /\ act'[a].todo = {}
              /\ \A b \in Callers \ {a} : act'[b] = act[b]
    BY <1>1, <1>5 DEF Finish, Idle
  <1> QED BY <1>2, <1>3, <1>4, <1>5

LEMMA ProgressStep ==
    ASSUME TypeOK, Progress, [Next]_vars
    PROVE  Progress'
  <1>f. DOMAIN Fixed = 1..8 /\ DOMAIN Fixed' = 1..8 /\ \A h \in 1..8 : Fixed'[h] = Fixed[h]
    BY FixedFacts DEF Fixed, In
  <1>m. \A h \in 1..8 : Installed(Fixed[h]) => Installed(Fixed[h])'
    BY Kept
  <1>a. AllInstalled => AllInstalled'
    BY <1>f, <1>m DEF AllInstalled
  <1>t. \A b \in Callers : act[b].at \in 1..9
    BY ActFields
  (* A caller whose record stays.                                          *)
  <1>s. ASSUME NEW b \in Callers, act'[b] = act[b] PROVE Fits(b)'
    BY <1>s, <1>f, <1>m, <1>a DEF Progress, Fits
  <1>o. ASSUME NEW a \in Callers, \A b \in Callers \ {a} : act'[b] = act[b], Fits(a)'
        PROVE \A b \in Callers : Fits(b)'
    BY <1>o, <1>s
  (* A caller at its first rule, with no row to write.                     *)
  <1>b. ASSUME NEW a \in Callers, act'[a].at = 1,
               act'[a].pc \in {"idle", "read", "append", "flush", "ensure"},
               act'[a].pc = "ensure" => act'[a].on \in Services
        PROVE Fits(a)'
    BY <1>b, <1>f DEF Fits
  <1>1. \A b \in Callers : Fits(b)'
    <2>1. CASE UNCHANGED vars
      BY <2>1, <1>s DEF vars
    <2>2. ASSUME NEW a \in Clients, NEW s \in Services, Deploy(a, s)
          PROVE \A b \in Callers : Fits(b)'
      BY <2>2, <1>s DEF Deploy
    <2>3. ASSUME NEW a \in Callers, NEW s \in Services, Start(a, s) \/ Stop(a, s)
          PROVE \A b \in Callers : Fits(b)'
      BY <2>3, <1>b, <1>o, Written DEF Start, Stop
    <2>4. ASSUME NEW a \in Callers, Tick(a)
          PROVE \A b \in Callers : Fits(b)'
      BY <2>4, <1>b, <1>o, Written DEF Tick
    <2>12. CASE (\E a \in Loops : TickEnds(a)) \/ \E s \in Services : Hang(s) \/ Release(s)
      BY <2>12, <1>s DEF TickEnds, Hang, Release
    <2>5. ASSUME NEW a \in Callers, StartRow(a)
          PROVE \A b \in Callers : Fits(b)'
      BY <2>5, <1>b, <1>o, Written DEF StartRow, Goto
    <2>6. ASSUME NEW a \in Callers, Read(a)
          PROVE \A b \in Callers : Fits(b)'
      <3>1. /\ act'[a].at = act[a].at /\ act'[a].pc = "check"
            /\ \A b \in Callers \ {a} : act'[b] = act[b]
        BY <2>6, Written DEF Read
      <3>2. Fits(a)'
        BY <3>1, <1>f, <1>m DEF Progress, Fits
      <3> QED BY <3>1, <3>2, <1>o
    <2>7. ASSUME NEW a \in Callers, Check(a)
          PROVE \A b \in Callers : Fits(b)'
      <3>0. act[a].pc \in {"ensure", "check"} /\ Fits(a) /\ Len(Fixed) = 8
        BY <2>7, FixedFacts DEF Check, Ensuring, Progress
      <3>1. CASE Missing(a) = {} /\ Goto(a, Ensured(a))
        <4>1. /\ act'[a].at = 1 /\ act'[a].pc = Ensured(a) /\ act'[a].on = act[a].on
              /\ \A b \in Callers \ {a} : act'[b] = act[b]
          BY <3>1, Written DEF Goto
        <4>2. \A h \in 1..8 : Installed(Fixed[h])
          BY <3>0, <3>1, <1>f, <1>t DEF Missing, Fits
        <4>3. AllInstalled'
          BY <4>2, <1>f, <1>m DEF AllInstalled
        <4>4. Fits(a)'
          BY <3>0, <4>1, <4>3, <1>f DEF Fits, Ensured
        <4> QED BY <4>1, <4>4, <1>o
      <3>2. ASSUME NEW k \in Missing(a), \A j \in Missing(a) : k <= j,
                   Seek(a, k, IF act[a].pc = "ensure" THEN "add" ELSE "readd")
            PROVE \A b \in Callers : Fits(b)'
        <4>1. /\ act'[a].at = k /\ act'[a].on = act[a].on
              /\ act'[a].pc = IF act[a].pc = "ensure" THEN "add" ELSE "readd"
              /\ \A b \in Callers \ {a} : act'[b] = act[b]
          BY <3>2, Written
        <4>2. k \in 1..8 /\ \A h \in 1..8 : h < k => Installed(Fixed[h])
          BY <3>0, <3>2, <1>f, <1>t DEF Missing, Fits
        <4>3. Fits(a)'
          BY <3>0, <4>1, <4>2, <1>f, <1>m DEF Fits
        <4> QED BY <4>1, <4>3, <1>o
      <3> QED BY <2>7, <3>1, <3>2 DEF Check
    <2>8. ASSUME NEW a \in Callers, Add(a)
          PROVE \A b \in Callers : Fits(b)'
      <3>1. /\ act[a].at \in 1..8 /\ installed' = Append(installed, Fixed[act[a].at])
            /\ Fits(a) /\ act[a].pc \in {"add", "readd"}
        BY <2>8, <1>f DEF Add, Progress, Fits
      <3>2. /\ act'[a].at = act[a].at + 1 /\ act'[a].on = act[a].on
            /\ act'[a].pc = IF act[a].pc = "add" THEN "ensure" ELSE "check"
            /\ \A b \in Callers \ {a} : act'[b] = act[b]
        BY <2>8, Written DEF Add
      <3>3. \E i \in DOMAIN installed' : installed'[i] = Fixed[act[a].at]
        <4>1. Fixed[act[a].at] \in {Fixed[x] : x \in DOMAIN Fixed}
          BY <3>1, <1>f
        <4> DEFINE e == Fixed[act[a].at]
                   S == {Fixed[x] : x \in DOMAIN Fixed}
        <4>2. /\ e \in S /\ installed \in Seq(S) /\ installed' = Append(installed, e)
          BY <3>1, <4>1 DEF TypeOK
        <4>3. \E i \in DOMAIN installed' : installed'[i] = e
          <5> HIDE DEF e, S
          <5>1. /\ Len(installed) + 1 \in DOMAIN Append(installed, e)
                /\ Append(installed, e)[Len(installed) + 1] = e
            BY <4>2, AppendFacts
          <5> QED BY <4>2, <5>1
        <4> QED BY <4>3
      <3>4. ASSUME NEW h \in 1..8, h < act[a].at + 1 PROVE Installed(Fixed[h])'
        <4>1. CASE h = act[a].at
          BY <3>3, <4>1, <1>f DEF Installed
        <4>2. CASE h < act[a].at
          BY <3>1, <4>2, <1>f, <1>m DEF Fits
        <4> QED BY <3>1, <3>4, <4>1, <4>2
      <3>5. Fits(a)'
        BY <3>1, <3>2, <3>4, <1>f DEF Fits
      <3> QED BY <3>2, <3>5, <1>o
    <2>9. ASSUME NEW a \in Callers, Flush(a)
          PROVE \A b \in Callers : Fits(b)'
      BY <2>9, <1>b, <1>o, Written DEF Flush, Goto
    <2>10. ASSUME NEW a \in Callers, AppendRule(a)
          PROVE \A b \in Callers : Fits(b)'
      <3>1. CASE Finish(a)
        BY <3>1, <1>b, <1>o, Written
      <3>2. ASSUME NEW T, Plan(a, T, "append")
            PROVE \A b \in Callers : Fits(b)'
        <4>1. /\ act'[a].at = act[a].at /\ act'[a].pc = "append"
              /\ \A b \in Callers \ {a} : act'[b] = act[b]
          BY <3>2, Written
        <4>2. Fits(a)'
          BY <4>1, <1>f, <1>m DEF Progress, Fits
        <4> QED BY <4>1, <4>2, <1>o
      <3> QED BY <2>10, <3>1, <3>2 DEF AppendRule
    <2>11. ASSUME NEW a \in Callers, CommandFails(a)
          PROVE \A b \in Callers : Fits(b)'
      BY <2>11, <1>b, <1>o, Written DEF CommandFails
    <2> QED BY <2>1, <2>2, <2>3, <2>4, <2>5, <2>6, <2>7, <2>8, <2>9, <2>10, <2>11, <2>12
            DEF Next, Refresh, Callers
  <1>2. up' # {} => AllInstalled'
    <2>1. ASSUME NEW a \in Callers, act[a].pc = "row" PROVE AllInstalled
      BY <2>1 DEF Progress, Fits
    <2> QED BY <2>1, <1>a, UpWrites DEF Progress
  <1> QED BY <1>1, <1>2 DEF Progress

------------------------------------------------------------------------------
(* What the policy chain may accept.                                       *)

LEMMA TodoWrites ==
    ASSUME TypeOK, [Next]_vars, NEW b \in Callers
    PROVE  act'[b].todo \subseteq act[b].todo \/ act'[b].todo = Compile(up, man)
  <1>1. ASSUME NEW a \in Callers, NEW k, NEW p, Seek(a, k, p)
        PROVE act'[b].todo \subseteq act[b].todo
    BY <1>1, Written
  <1>2. ASSUME NEW a \in Callers, NEW p, NEW op, NEW s, Begin(a, p, op, s)
        PROVE act'[b].todo \subseteq act[b].todo
    BY <1>2, Written
  <1>3. ASSUME NEW a \in Callers, Finish(a) PROVE act'[b].todo \subseteq act[b].todo
    BY <1>3, Written
  <1>4. ASSUME NEW a \in Callers, NEW T \in SUBSET act[a].todo, NEW p, Plan(a, T, p)
        PROVE act'[b].todo \subseteq act[b].todo
    BY <1>4, Written
  <1>5. ASSUME NEW a \in Callers, Read(a)
        PROVE act'[b].todo \subseteq act[b].todo \/ act'[b].todo = Compile(up, man)
    <2>1. /\ act'[a].todo = Compile(up, man)
          /\ \A c \in Callers \ {a} : act'[c] = act[c]
      BY <1>5, Written DEF Read
    <2> QED BY <2>1
  <1>6. ASSUME NEW a \in Callers,
               StartRow(a) \/ Check(a) \/ Add(a) \/ Flush(a) \/ CommandFails(a) \/ AppendRule(a)
        PROVE act'[b].todo \subseteq act[b].todo
    <2>1. CASE AppendRule(a)
      BY <2>1, <1>3, <1>4 DEF AppendRule
    <2>2. CASE StartRow(a) \/ Check(a) \/ Add(a) \/ Flush(a) \/ CommandFails(a)
      BY <2>2, <1>1, <1>3 DEF StartRow, Check, Add, Flush, CommandFails, Goto
    <2> QED BY <1>6, <2>1, <2>2
  <1>7. ASSUME NEW a \in Callers, NEW s, Start(a, s) \/ Stop(a, s) \/ Tick(a)
        PROVE act'[b].todo \subseteq act[b].todo
    BY <1>7, <1>2 DEF Start, Stop, Tick
  <1>8. CASE UNCHANGED act
    BY <1>8
  <1> QED BY <1>5, <1>6, <1>7, <1>8
         DEF Next, Refresh, Callers, Deploy, TickEnds, Hang, Release, vars

LEMMA GuardedStep ==
    ASSUME TypeOK, Guarded, [Next]_vars
    PROVE  Guarded'
  <1>1. \A s \in Services : listed[s] \subseteq listed'[s]
    BY RowWrites DEF TypeOK
  <1>2. \A s \in Services : man'[s].ingress.allowNets \subseteq listed'[s]
    <2>1. CASE UNCHANGED <<man, listed>>
      BY <2>1 DEF Guarded
    <2>2. ASSUME NEW t \in Services, NEW m \in Manifests, man' = [man EXCEPT ![t] = m],
                 listed' = [listed EXCEPT ![t] = listed[t] \cup m.ingress.allowNets],
                 NEW s \in Services
          PROVE man'[s].ingress.allowNets \subseteq listed'[s]
      <3>1. CASE s = t
        BY <2>2, <3>1 DEF TypeOK
      <3>2. CASE s # t
        BY <2>2, <3>2 DEF TypeOK, Guarded
      <3> QED BY <3>1, <3>2
    <2> QED BY <2>1, <2>2, RowWrites
  <1> DEFINE StillSound(r) ==
        r.verdict = "ACCEPT" =>
            \A o \in Outside, t \in Services : o \in r.from /\ t \in r.to => o \in listed'[t]
  <1>3. ASSUME NEW r, Sound(r) PROVE StillSound(r)
    BY <1>1, <1>3 DEF Sound
  <1>4. \A r \in Compile(up, man) : Sound(r)
    <2>1. up \in SUBSET Services /\ man \in [Services -> Manifests]
      BY DEF TypeOK
    <2>2. ASSUME NEW r \in Compile(up, man) PROVE Sound(r)
      <3>1. r.verdict = "ACCEPT" =>
              \A o \in Outside, t \in Services :
                  o \in r.from /\ t \in r.to => o \in man[t].ingress.allowNets
        BY <2>1, Compiled
      <3> QED BY <3>1 DEF Sound, Guarded
    <2> QED BY <2>2
  <1>5. \A b \in Callers : \A r \in act'[b].todo : StillSound(r)
    <2> HIDE DEF StillSound
    <2> QED BY <1>3, <1>4, TodoWrites DEF Guarded
  <1>6. \A i \in DOMAIN policy' : StillSound(policy'[i])
    <2>1. CASE UNCHANGED policy
      BY <2>1, <1>3 DEF Guarded
    <2>2. CASE policy' = << >>
      BY <2>2
    <2>3. ASSUME NEW a \in Callers, NEW r \in act[a].todo, policy' = Append(policy, Bare(r))
          PROVE \A i \in DOMAIN policy' : StillSound(policy'[i])
      <3>1. Sound(Bare(r))
        BY DEF Guarded, Sound, Bare
      <3>2. Bare(r) \in RuleType /\ policy \in Seq(RuleType)
        <4>1. r \in TodoType
          BY ActFields
        <4> QED BY <4>1 DEF TypeOK, Bare, TodoType, RuleType
      <3>3. \A i \in DOMAIN policy' : Sound(policy'[i])
        BY <2>3, <3>1, <3>2, AppendFacts DEF Guarded
      <3> HIDE DEF StillSound
      <3> QED BY <3>3, <1>3
    <2> QED BY <2>1, <2>2, <2>3, PolicyWrites
  <1> QED BY <1>2, <1>5, <1>6 DEF Guarded, Sound

------------------------------------------------------------------------------
(* The invariant and what follows from it.                                 *)

LEMMA InitInv == Init => IInv
  <1> SUFFICES ASSUME Init PROVE IInv
    OBVIOUS
  <1>f. installed = << >> \/ installed = Fixed
    BY DEF Init
  <1>1. TypeOK
    <2>1. installed \in Seq({Fixed[k] : k \in DOMAIN Fixed})
      <3>1. << >> \in Seq({Fixed[k] : k \in DOMAIN Fixed})
        OBVIOUS
      <3> QED BY <1>f, <3>1, FixedFacts, Zenon
    <2>2. act \in [Callers -> ActType]
      BY ActMade DEF Init
    <2>3. listed \in [Services -> SUBSET Everyone]
      BY ManifestType DEF Init
    <2>4. deploys \in 0..MaxDeploys /\ faults \in 0..MaxFaults
      BY FirewallAssumption DEF Init
    <2>5. policy \in Seq(RuleType) /\ man \in [Services -> Manifests]
          /\ up \subseteq Services /\ stale \subseteq Services /\ stuck \subseteq up
      BY DEF Init
    <2> QED BY <2>1, <2>2, <2>3, <2>4, <2>5 DEF TypeOK
  <1>2. Ordered
    <2>1. CASE installed = << >>
      BY <2>1 DEF Ordered
    <2>2. CASE installed = Fixed
      <3> SUFFICES ASSUME NEW i \in 1..8, NEW k \in 1..8, Fixed[i] = Fixed[k],
                          NEW h \in 1..(k-1)
                   PROVE  \E j \in 1..(i-1) : Fixed[j] = Fixed[h]
        BY <2>2, FixedFacts DEF Ordered, Above
      <3>1. i = k
        BY FixedFacts
      <3> QED BY <3>1
    <2> QED BY <1>f, <2>1, <2>2
  <1>3. Progress
    <2>1. \A a \in Callers : act[a].at = 1 /\ act[a].pc = "idle"
      BY DEF Init, Idle
    <2>2. up = {} /\ DOMAIN Fixed = 1..8
      BY FixedFacts DEF Init
    <2>3. \A a \in Callers : Fits(a)
      BY <2>1, <2>2 DEF Fits
    <2> QED BY <2>2, <2>3 DEF Progress
  <1>4. Guarded
    BY DEF Init, Idle, Guarded
  <1> QED BY <1>1, <1>2, <1>3, <1>4 DEF IInv

LEMMA StepInv == IInv /\ [Next]_vars => IInv'
  <1> SUFFICES ASSUME IInv, [Next]_vars PROVE IInv'
    OBVIOUS
  <1> QED BY TypeStep, OrderedStep, ProgressStep, GuardedStep DEF IInv

THEOREM Invariance == Spec => []IInv
  <1> QED BY InitInv, StepInv, PTL DEF Spec

(* TypeCorrect: rows, chains and local variables keep their types.         *)
THEOREM TypeCorrect == Spec => []TypeOK
  <1>1. IInv => TypeOK
    BY DEF IInv
  <1> QED BY <1>1, Invariance, PTL

LEMMA FirstHolds ==
    ASSUME IInv
    PROVE  PolicyFirst
  <1>1. ASSUME NEW i \in DOMAIN installed, installed[i] \in Opening
        PROVE  Above(In("firewall", "policy"), i)
    <2>1. PICK k \in {4, 5, 6} : installed[i] = Fixed[k]
      BY <1>1, FixedFacts DEF Opening
    <2>2. k \in DOMAIN Fixed /\ 2 \in 1..(k-1)
      BY FixedFacts
    <2>3. Above(Fixed[2], i)
      BY <2>1, <2>2 DEF IInv, Ordered
    <2> QED BY <2>3, FixedFacts
  <1>2. ASSUME NEW i \in DOMAIN installed, installed[i] = In("firewall", "fence")
        PROVE  \A e \in Opening : Above(e, i)
    <2>1. installed[i] = Fixed[7] /\ 7 \in DOMAIN Fixed
      BY <1>2, FixedFacts
    <2>2. \A h \in 1..6 : Above(Fixed[h], i)
      BY <2>1 DEF IInv, Ordered
    <2>3. \A e \in Opening : \E h \in 1..6 : e = Fixed[h]
      BY FixedFacts DEF Opening
    <2> QED BY <2>2, <2>3
  <1>3. up # {} => Installed(In("firewall", "fence"))
    BY FixedFacts DEF IInv, Progress, AllInstalled
  <1> QED BY <1>1, <1>2, <1>3 DEF PolicyFirst

(* What no rule of the policy chain lets in from outside is stopped.       *)
LEMMA FenceStops ==
    ASSUME IInv, NEW p \in Packets, p.src \in Outside, p.dst \in up, p.new,
           ~PolicySays(p, "ACCEPT")
    PROVE  Blocked(p)
  <1>1. /\ p.dst \in Services /\ p.src \notin Services /\ p.dst # Host
        /\ Installed(In("FORWARD", "firewall")) /\ Installed(In("firewall", "fence"))
    BY FixedFacts, FirewallAssumption
       DEF IInv, TypeOK, Progress, AllInstalled, Everyone
  <1>2. PICK i \in DOMAIN installed : installed[i] = In("firewall", "fence")
    BY <1>1 DEF Installed
  <1>3. Visits(installed[i], p) /\ Drops(installed[i], p)
    BY <1>1, <1>2 DEF Visits, Drops, In, Sandbox
  <1>4. ASSUME NEW e, Visits(e, p), Accepts(e, p) PROVE FALSE
    <2>1. e.chain = "firewall"
      BY <1>1, <1>4 DEF Visits
    <2>2. e # In("INPUT", "input")
      BY <2>1 DEF In
    <2> QED BY <1>1, <1>4, <2>2 DEF Accepts, Sandbox
  <1> QED BY <1>1, <1>3, <1>4 DEF Blocked

(* PolicyAlwaysFirst: however many callers race to build the chains of     *)
(* ensure_host_network, and whichever commands fail, the policy chain is   *)
(* consulted before any accepting rule, the fence comes last, and no       *)
(* service runs without it.                                                *)
THEOREM PolicyAlwaysFirst == Spec => []PolicyFirst
  <1> QED BY FirstHolds, Invariance, PTL

(* AlwaysFenced: for any manifests and any number of callers, a running    *)
(* service is reached from outside only from addresses that its manifests  *)
(* list, even while the policy chain is flushed or half rebuilt.           *)
THEOREM AlwaysFenced == Spec => []Fenced
  <1>1. IInv => Fenced
    <2> SUFFICES ASSUME IInv, NEW p \in Packets, p.src \in Outside, p.dst \in up,
                        p.new, Passes(p), p.src \notin listed[p.dst]
                 PROVE  FALSE
      BY DEF Fenced
    <2>1. p.dst \in Services
      BY DEF IInv, TypeOK
    <2>2. ~PolicySays(p, "ACCEPT")
      <3> SUFFICES ASSUME NEW j \in DOMAIN policy, Matches(policy[j], p),
                          policy[j].verdict = "ACCEPT"
                   PROVE  FALSE
        BY DEF PolicySays
      <3>1. Sound(policy[j])
        BY DEF IInv, Guarded
      <3> QED BY <2>1, <3>1 DEF Sound, Matches
    <2> QED BY <2>2, FenceStops DEF Passes
  <1> QED BY <1>1, Invariance, PTL

------------------------------------------------------------------------------
(***************************************************************************)
(* What the chains enforce when one caller works at a time and its         *)
(* commands succeed, for every number of services and all manifests: the   *)
(* first match in the policy chain is what the manifests say.              *)
(***************************************************************************)

Alone == (\A a, b \in Callers : a = b) /\ MaxFaults = 0

(* The policy chain holds the rules R, each behind only rules Before it.   *)
Lists(R) ==
    /\ \A i \in DOMAIN policy : \E r \in R : policy[i] = Bare(r)
    /\ \A r \in R : \E i \in DOMAIN policy :
        /\ policy[i] = Bare(r)
        /\ \A j \in 1..(i-1) : \E q \in R : policy[j] = Bare(q) /\ Before(q, r)

(* The manifests that the chain was compiled from are the stored ones, but *)
(* for those deployed since, and it was compiled for all that run, and     *)
(* perhaps for some that a tick which ended early set to stopped; the      *)
(* rules a refresh has still to append come after those it has appended.   *)
Calm == {"idle", "ensure", "add", "row"}
BuiltFrom(B, m) ==
    /\ m \in [Services -> Manifests]
    /\ \A s \in Services \ stale : m[s] = man[s]
    /\ (\A a \in Callers : act[a].pc # "read") => up \subseteq B
    /\ (\A a \in Callers : act[a].pc \in Calm) => Lists(Compile(B, m))
    /\ \A a \in Callers :
        /\ act[a].pc \in {"check", "readd", "flush"} => act[a].todo = Compile(B, m)
        /\ act[a].pc = "append" =>
             /\ act[a].todo \subseteq Compile(B, m)
             /\ Lists(Compile(B, m) \ act[a].todo)
             /\ \A r \in Compile(B, m) \ act[a].todo, q \in act[a].todo : Before(r, q)
Faithful == \E B \in SUBSET Services, m \in [Services -> Manifests] : BuiltFrom(B, m)

(* Where the policy chain is jumped to, there is a first jump.             *)
FirstJump(i) == installed[i] = Fixed[2] /\ \A j \in 1..(i-1) : installed[j] # Fixed[2]
Foremost == Installed(Fixed[2]) => \E i \in DOMAIN installed : FirstJump(i)

------------------------------------------------------------------------------
(* The rules that Compile makes, and where they come.                      *)

PairRule(m, s, t) ==
    Rule(1, s, t, {s}, {t}, Target(Permits(m[s].egress, t) /\ Permits(m[t].ingress, s)))

LEMMA RuleParts ==
    ASSUME NEW g, NEW s, NEW k, NEW from, NEW to, NEW verdict
    PROVE  /\ Rule(g, s, k, from, to, verdict).key = <<g, s, k>>
           /\ Rule(g, s, k, from, to, verdict).from = from
           /\ Rule(g, s, k, from, to, verdict).to = to
           /\ Rule(g, s, k, from, to, verdict).verdict = verdict
  BY DEF Rule

Only(S, x)        == S = {x}
Keyed(r, g, s, k) == r.key[1] = g /\ r.key[2] = s /\ r.key[3] = k

LEMMA PairParts ==
    ASSUME NEW m, NEW s, NEW t
    PROVE  /\ Keyed(PairRule(m, s, t), 1, s, t)
           /\ PairRule(m, s, t).from = {s} /\ PairRule(m, s, t).to = {t}
           /\ PairRule(m, s, t).verdict
                = Target(Permits(m[s].egress, t) /\ Permits(m[t].ingress, s))
<1> DEFINE w == Target(Permits(m[s].egress, t) /\ Permits(m[t].ingress, s))
<1>1. PairRule(m, s, t) = Rule(1, s, t, {s}, {t}, w)
  BY DEF PairRule
<1> HIDE DEF w
<1>2. /\ PairRule(m, s, t).key = <<1, s, t>> /\ PairRule(m, s, t).from = {s}
      /\ PairRule(m, s, t).to = {t} /\ PairRule(m, s, t).verdict = w
  BY <1>1 DEF Rule
<1> QED BY <1>2 DEF Keyed, w

LEMMA PairsMade ==
    ASSUME NEW B, NEW m
    PROVE  PairRules(B, m) = {PairRule(m, st[1], st[2]) : st \in {xy \in B \X B : xy[1] # xy[2]}}
  BY Zenon DEF PairRules, PairRule

LEMMA PairMade ==
    ASSUME NEW B, NEW m, NEW s \in B, NEW t \in B, s # t
    PROVE  PairRule(m, s, t) \in PairRules(B, m)
<1>1. PICK x \in {xy \in B \X B : xy[1] # xy[2]} : x[1] = s /\ x[2] = t
  <2>1. <<s, t>> \in B \X B /\ <<s, t>>[1] = s /\ <<s, t>>[2] = t
    OBVIOUS
  <2> QED BY <2>1
<1> QED BY <1>1, PairsMade

LEMMA PairShape ==
    ASSUME NEW B \in SUBSET Services, NEW m, NEW q \in PairRules(B, m)
    PROVE  \E s, t \in B : Keyed(q, 1, s, t) /\ Only(q.from, s) /\ Only(q.to, t)
<1>1. PICK s \in B, t \in B : q = PairRule(m, s, t)
  BY PairsMade
<1> QED BY <1>1, PairParts DEF Only

IngressRule(q, m, t) ==
    \/ Keyed(q, 2, t, 1) /\ q.from = m[t].ingress.denyNets
    \/ Keyed(q, 2, t, 2) /\ q.from = m[t].ingress.allowNets
    \/ Keyed(q, 2, t, 3) /\ q.verdict = "DROP"
EgressRule(q, m, s) ==
    \/ Keyed(q, 3, s, 1) /\ q.to = m[s].egress.denyNets
    \/ Keyed(q, 3, s, 2) /\ q.to = m[s].egress.allowNets
    \/ Keyed(q, 3, s, 3) /\ q.to = Outside
    \/ Keyed(q, 3, s, 4) /\ q.to = Services

LEMMA IngressShape ==
    ASSUME NEW B \in SUBSET Services, NEW m, NEW q \in IngressRules(B, m)
    PROVE  \E t \in B : Only(q.to, t) /\ IngressRule(q, m, t)
<1>1. PICK t \in B :
        \/ q = Rule(2, t, 1, m[t].ingress.denyNets, {t}, "DROP")
        \/ q = Rule(2, t, 2, m[t].ingress.allowNets, {t}, "ACCEPT")
        \/ q = Rule(2, t, 3, IF m[t].ingress.default = "deny" THEN Everyone ELSE {}, {t}, "DROP")
  BY DEF IngressRules
<1> QED BY <1>1, RuleParts DEF Keyed, Only, IngressRule

LEMMA EgressShape ==
    ASSUME NEW B \in SUBSET Services, NEW m, NEW q \in EgressRules(B, m)
    PROVE  \E s \in B : Only(q.from, s) /\ EgressRule(q, m, s)
<1>1. PICK s \in B :
        \/ q = Rule(3, s, 1, {s}, m[s].egress.denyNets, "DROP")
        \/ q = Rule(3, s, 2, {s}, m[s].egress.allowNets, "ACCEPT")
        \/ q = Rule(3, s, 3, {s}, Outside, Target(m[s].egress.default = "allow"))
        \/ q = Rule(3, s, 4, {s}, Services, "DROP")
  BY DEF EgressRules
<1> QED BY <1>1, RuleParts DEF Keyed, Only, EgressRule

LEMMA EgressMade ==
    ASSUME NEW B, NEW m, NEW s \in B
    PROVE  {Rule(3, s, 1, {s}, m[s].egress.denyNets, "DROP"),
            Rule(3, s, 2, {s}, m[s].egress.allowNets, "ACCEPT"),
            Rule(3, s, 3, {s}, Outside, Target(m[s].egress.default = "allow"))}
             \subseteq EgressRules(B, m)
<1> DEFINE F(x) == {Rule(3, x, 1, {x}, m[x].egress.denyNets, "DROP"),
                    Rule(3, x, 2, {x}, m[x].egress.allowNets, "ACCEPT"),
                    Rule(3, x, 3, {x}, Outside, Target(m[x].egress.default = "allow")),
                    Rule(3, x, 4, {x}, Services, "DROP")}
<1>1. EgressRules(B, m) = UNION {F(x) : x \in B}
  BY DEF EgressRules
<1>2. F(s) \subseteq UNION {F(x) : x \in B}
  <2> HIDE DEF F
  <2> QED OBVIOUS
<1> QED BY <1>1, <1>2

LEMMA IngressMade ==
    ASSUME NEW B, NEW m, NEW t \in B
    PROVE  {Rule(2, t, 1, m[t].ingress.denyNets, {t}, "DROP"),
            Rule(2, t, 2, m[t].ingress.allowNets, {t}, "ACCEPT")} \subseteq IngressRules(B, m)
<1> DEFINE F(x) == {Rule(2, x, 1, m[x].ingress.denyNets, {x}, "DROP"),
                    Rule(2, x, 2, m[x].ingress.allowNets, {x}, "ACCEPT"),
                    Rule(2, x, 3, IF m[x].ingress.default = "deny" THEN Everyone ELSE {}, {x},
                         "DROP")}
<1>1. IngressRules(B, m) = UNION {F(x) : x \in B}
  BY DEF IngressRules
<1>2. F(t) \subseteq UNION {F(x) : x \in B}
  <2> HIDE DEF F
  <2> QED OBVIOUS
<1> QED BY <1>1, <1>2

(* Before compares the keys of two rules.                                  *)
LEMMA BeforeKeys ==
    ASSUME NEW q, NEW r, NEW g, NEW s, NEW k, NEW h, NEW t, NEW l,
           Keyed(q, g, s, k), Keyed(r, h, t, l), Before(q, r)
    PROVE  g < h \/ (g = h /\ s < t) \/ (g = h /\ s = t /\ k < l)
  BY DEF Before, Keyed

------------------------------------------------------------------------------
(* What a chain in that order says of a packet.                            *)

LEMMA FirstMatch ==
    ASSUME TypeOK, NEW R, Lists(R), NEW r \in R, NEW p, Matches(r, p),
           \A q \in R : Before(q, r) => ~Matches(q, p), NEW v
    PROVE  PolicySays(p, v) <=> v = r.verdict
<1>1. \A q : (Matches(Bare(q), p) <=> Matches(q, p)) /\ Bare(q).verdict = q.verdict
  BY DEF Matches, Bare
<1>2. PICK i \in DOMAIN policy :
        /\ policy[i] = Bare(r)
        /\ \A j \in 1..(i-1) : \E q \in R : policy[j] = Bare(q) /\ Before(q, r)
  BY DEF Lists
<1>3. Matches(policy[i], p) /\ policy[i].verdict = r.verdict
  BY <1>1, <1>2
<1>4. \A j \in 1..(i-1) : ~Matches(policy[j], p)
  BY <1>1, <1>2
<1>5. ASSUME NEW n \in DOMAIN policy, Matches(policy[n], p),
             \A j \in 1..(n-1) : ~Matches(policy[j], p)
      PROVE  n = i
  <2>1. i \in Nat \ {0} /\ n \in Nat \ {0}
    BY DEF TypeOK
  <2>2. ~(i < n) /\ ~(n < i)
    BY <1>3, <1>4, <1>5, <2>1
  <2> QED BY <2>1, <2>2
<1> QED BY <1>3, <1>4, <1>5 DEF PolicySays

LEMMA NoMatch ==
    ASSUME NEW R, Lists(R), NEW p, \A q \in R : ~Matches(q, p), NEW v
    PROVE  ~PolicySays(p, v)
<1>1. \A q : Matches(Bare(q), p) <=> Matches(q, p)
  BY DEF Matches, Bare
<1> QED BY <1>1 DEF Lists, PolicySays

LEMMA PairDecides ==
    ASSUME TypeOK, NEW B \in SUBSET Services, NEW m, Lists(Compile(B, m)),
           NEW s \in B, NEW t \in B, s # t, NEW p, p.src = s, p.dst = t, NEW v
    PROVE  PolicySays(p, v)
             <=> v = Target(Permits(m[s].egress, t) /\ Permits(m[t].ingress, s))
<1> DEFINE r == PairRule(m, s, t)
<1>0. s \in Nat /\ t \in Nat /\ \A x \in Services : x \in Nat
  BY DEF Services
<1>1. /\ Keyed(r, 1, s, t) /\ r.from = {s} /\ r.to = {t}
      /\ r.verdict = Target(Permits(m[s].egress, t) /\ Permits(m[t].ingress, s))
  BY PairParts
<1>2. r \in Compile(B, m)
  <2>1. r \in PairRules(B, m)
    BY PairMade
  <2> QED BY <1>1, <2>1 DEF Compile
<1> HIDE DEF r
<1>3. Matches(r, p)
  BY <1>1 DEF Matches
<1>4. ASSUME NEW q \in Compile(B, m), Before(q, r), Matches(q, p) PROVE FALSE
  <2>1. CASE q \in PairRules(B, m)
    <3>1. PICK x, y \in B : Keyed(q, 1, x, y) /\ Only(q.from, x) /\ Only(q.to, y)
      BY <2>1, PairShape
    <3>2. x = s /\ y = t
      BY <1>4, <3>1 DEF Matches, Only
    <3> QED BY <1>0, <1>1, <1>4, <3>1, <3>2, BeforeKeys
  <2>2. CASE q \in IngressRules(B, m)
    <3>1. PICK x \in B, k \in 1..3 : Keyed(q, 2, x, k)
      BY <2>2, IngressShape DEF IngressRule
    <3> QED BY <1>1, <1>4, <3>1, BeforeKeys
  <2>3. CASE q \in EgressRules(B, m)
    <3>1. PICK x \in B, k \in 1..4 : Keyed(q, 3, x, k)
      BY <2>3, EgressShape DEF EgressRule
    <3> QED BY <1>1, <1>4, <3>1, BeforeKeys
  <2> QED BY <2>1, <2>2, <2>3 DEF Compile
<1> QED BY <1>1, <1>2, <1>3, <1>4, FirstMatch

LEMMA EgressDecides ==
    ASSUME TypeOK, NEW B \in SUBSET Services, NEW m \in [Services -> Manifests],
           Lists(Compile(B, m)), NEW s \in B, NEW o \in Outside,
           NEW p, p.src = s, p.dst = o, NEW v
    PROVE  PolicySays(p, v) <=> v = Target(Permits(m[s].egress, o))
<1> DEFINE e == m[s].egress
<1>0. /\ o \notin Services /\ (\A x \in Services : x \in Nat) /\ s \in Services
      /\ o \notin e.denyNames \cup e.allowNames
  <2>1. o \notin Services /\ s \in Services
    BY FirewallAssumption
  <2>2. \A x \in Services : x \in Nat
    BY DEF Services
  <2>3. e \in Policy
    BY <2>1, ManifestType
  <2> QED BY <2>1, <2>2, <2>3 DEF Policy
<1>1. PICK k, to, w :
        /\ k \in 1..3 /\ o \in to /\ w = Target(Permits(e, o)) /\ (k > 1 => o \notin e.denyNets)
        /\ (k > 2 => o \notin e.allowNets)
        /\ Rule(3, s, k, {s}, to, w) \in EgressRules(B, m)
  <2>1. CASE o \in e.denyNets
    <3>1. Rule(3, s, 1, {s}, e.denyNets, "DROP") \in EgressRules(B, m)
      BY EgressMade
    <3>2. "DROP" = Target(Permits(e, o))
      BY <2>1 DEF Permits, Target
    <3> QED BY <2>1, <3>1, <3>2
  <2>2. CASE o \notin e.denyNets /\ o \in e.allowNets
    <3>1. Rule(3, s, 2, {s}, e.allowNets, "ACCEPT") \in EgressRules(B, m)
      BY EgressMade
    <3>2. "ACCEPT" = Target(Permits(e, o))
      BY <1>0, <2>2 DEF Permits, Target
    <3> QED BY <2>2, <3>1, <3>2
  <2>3. CASE o \notin e.denyNets /\ o \notin e.allowNets
    <3>1. Rule(3, s, 3, {s}, Outside, Target(e.default = "allow")) \in EgressRules(B, m)
      BY EgressMade
    <3>2. Target(e.default = "allow") = Target(Permits(e, o))
      BY <1>0, <2>3 DEF Permits, Target
    <3> QED BY <2>3, <3>1, <3>2
  <2> QED BY <2>1, <2>2, <2>3
<1> DEFINE r == Rule(3, s, k, {s}, to, w)
<1>2. Keyed(r, 3, s, k) /\ r.from = {s} /\ r.to = to /\ r.verdict = w
  BY DEF Rule, Keyed
<1> HIDE DEF r
<1>3. r \in Compile(B, m)
  BY <1>1, <1>2 DEF Compile, r
<1>4. Matches(r, p)
  BY <1>1, <1>2 DEF Matches
<1>5. ASSUME NEW q \in Compile(B, m), Before(q, r), Matches(q, p) PROVE FALSE
  <2>1. CASE q \in PairRules(B, m)
    <3>1. PICK x, y \in B : Keyed(q, 1, x, y) /\ Only(q.from, x) /\ Only(q.to, y)
      BY <2>1, PairShape
    <3> QED BY <1>0, <1>5, <3>1 DEF Matches, Only
  <2>2. CASE q \in IngressRules(B, m)
    <3>1. PICK y \in B : Only(q.to, y)
      BY <2>2, IngressShape
    <3> QED BY <1>0, <1>5, <3>1 DEF Matches, Only
  <2>3. CASE q \in EgressRules(B, m)
    <3>1. PICK x \in B : Only(q.from, x) /\ EgressRule(q, m, x)
      BY <2>3, EgressShape
    <3>2. x = s
      BY <1>5, <3>1 DEF Matches, Only
    <3>3. \A l \in 1..4 : Keyed(q, 3, s, l) => l < k
      BY <1>0, <1>2, <1>5, BeforeKeys
    <3> QED BY <1>1, <1>5, <3>1, <3>2, <3>3 DEF Matches, EgressRule
  <2> QED BY <2>1, <2>2, <2>3 DEF Compile
<1> QED BY <1>1, <1>2, <1>3, <1>4, <1>5, FirstMatch

LEMMA IngressDecides ==
    ASSUME TypeOK, NEW B \in SUBSET Services, NEW m \in [Services -> Manifests],
           Lists(Compile(B, m)), NEW t \in B, NEW o \in Outside,
           NEW p, p.src = o, p.dst = t
    PROVE  IF o \in m[t].ingress.allowNets \ m[t].ingress.denyNets
           THEN \A v : PolicySays(p, v) <=> v = "ACCEPT"
           ELSE ~PolicySays(p, "ACCEPT")
<1> DEFINE i == m[t].ingress
<1>0. o \notin Services /\ (\A x \in Services : x \in Nat) /\ t \in Services
  <2>1. o \notin Services /\ t \in Services
    BY FirewallAssumption
  <2> QED BY <2>1 DEF Services
<1>1. ASSUME NEW q \in Compile(B, m), Matches(q, p)
      PROVE  \/ Keyed(q, 2, t, 1) /\ o \in i.denyNets
             \/ Keyed(q, 2, t, 2) /\ o \in i.allowNets
             \/ Keyed(q, 2, t, 3) /\ q.verdict = "DROP"
  <2>1. CASE q \in PairRules(B, m)
    <3>1. PICK x \in B : Only(q.from, x)
      BY <2>1, PairShape
    <3> QED BY <1>0, <1>1, <3>1 DEF Matches, Only
  <2>2. CASE q \in IngressRules(B, m)
    <3>1. PICK y \in B : Only(q.to, y) /\ IngressRule(q, m, y)
      BY <2>2, IngressShape
    <3> QED BY <1>1, <3>1 DEF Matches, Only, IngressRule
  <2>3. CASE q \in EgressRules(B, m)
    <3>1. PICK x \in B : Only(q.from, x)
      BY <2>3, EgressShape
    <3> QED BY <1>0, <1>1, <3>1 DEF Matches, Only
  <2> QED BY <2>1, <2>2, <2>3 DEF Compile
<1>2. ASSUME NEW k \in 1..2, NEW r \in IngressRules(B, m), Keyed(r, 2, t, k),
             o \in r.from, r.to = {t}, k = 2 => o \notin i.denyNets
      PROVE  \A v : PolicySays(p, v) <=> v = r.verdict
  <2>1. r \in Compile(B, m) /\ Matches(r, p)
    BY <1>2 DEF Compile, Matches
  <2>2. ASSUME NEW q \in Compile(B, m), Before(q, r), Matches(q, p) PROVE FALSE
    <3>1. \A l \in 1..3 : Keyed(q, 2, t, l) => l < k
      BY <1>0, <1>2, <2>2, BeforeKeys
    <3> QED BY <1>1, <1>2, <2>2, <3>1
  <2> QED BY <2>1, <2>2, FirstMatch
<1>3. CASE o \in i.denyNets
  <2> DEFINE r == Rule(2, t, 1, i.denyNets, {t}, "DROP")
  <2>1. /\ r \in IngressRules(B, m) /\ Keyed(r, 2, t, 1)
        /\ r.from = i.denyNets /\ r.to = {t} /\ r.verdict = "DROP"
    <3>1. r \in IngressRules(B, m)
      BY IngressMade
    <3> QED BY <3>1 DEF Rule, Keyed
  <2> HIDE DEF r
  <2>2. \A v : PolicySays(p, v) <=> v = "DROP"
    BY <1>2, <1>3, <2>1
  <2> QED BY <1>3, <2>2
<1>4. CASE o \in i.allowNets \ i.denyNets
  <2> DEFINE r == Rule(2, t, 2, i.allowNets, {t}, "ACCEPT")
  <2>1. /\ r \in IngressRules(B, m) /\ Keyed(r, 2, t, 2)
        /\ r.from = i.allowNets /\ r.to = {t} /\ r.verdict = "ACCEPT"
    <3>1. r \in IngressRules(B, m)
      BY IngressMade
    <3> QED BY <3>1 DEF Rule, Keyed
  <2> HIDE DEF r
  <2>2. \A v : PolicySays(p, v) <=> v = "ACCEPT"
    BY <1>2, <1>4, <2>1
  <2> QED BY <1>4, <2>2
<1>5. CASE o \notin i.allowNets \cup i.denyNets
  <2>1. ASSUME NEW n \in DOMAIN policy, Matches(policy[n], p) PROVE policy[n].verdict = "DROP"
    <3>1. PICK q \in Compile(B, m) : policy[n] = Bare(q)
      BY DEF Lists
    <3>2. Matches(q, p) /\ policy[n].verdict = q.verdict
      BY <2>1, <3>1 DEF Matches, Bare
    <3> QED BY <1>1, <1>5, <3>2
  <2> QED BY <1>5, <2>1 DEF PolicySays
<1> QED BY <1>3, <1>4, <1>5

------------------------------------------------------------------------------
(* What the fixed chains make of it.                                       *)

LEMMA PolicyDrops ==
    ASSUME IInv, Foremost, up # {}, NEW p, p.dst # Host,
           \A v : PolicySays(p, v) <=> v = "DROP"
    PROVE  Blocked(p)
<1>1. Installed(Fixed[1]) /\ Installed(Fixed[2])
  BY FixedFacts DEF IInv, Progress, AllInstalled
<1>2. PICK i \in DOMAIN installed : FirstJump(i)
  BY <1>1 DEF Foremost
<1>3. Visits(installed[i], p) /\ Drops(installed[i], p)
  BY <1>2, FixedFacts DEF FirstJump, Visits, Drops, In
<1>4. ASSUME NEW j \in 1..(i-1), Visits(installed[j], p), Accepts(installed[j], p)
      PROVE  FALSE
  <2>1. i \in Nat /\ j \in DOMAIN installed
    BY DEF IInv, TypeOK
  <2>2. installed[j].chain = "firewall"
    BY <1>4 DEF Visits
  <2>3. installed[j] \in Opening
    BY <1>4, <2>2 DEF Accepts, Opening, In
  <2>4. PICK h \in 1..(j-1) : installed[h] = Fixed[2]
    BY <2>1, <2>3, FirstHolds, FixedFacts DEF PolicyFirst, Above
  <2>5. h \in 1..(i-1)
    BY <2>1
  <2> QED BY <1>2, <2>4, <2>5 DEF FirstJump
<1> QED BY <1>1, <1>3, <1>4, FixedFacts DEF Blocked

LEMMA PolicyAdmits ==
    ASSUME IInv, NEW p, p.dst # Host, \A v : PolicySays(p, v) <=> v = "ACCEPT"
    PROVE  Passes(p)
<1> SUFFICES ASSUME NEW i \in DOMAIN installed, Visits(installed[i], p), Drops(installed[i], p),
                    \A j \in 1..(i-1) : Visits(installed[j], p) => ~Accepts(installed[j], p)
             PROVE  FALSE
  BY DEF Passes, Blocked
<1>1. installed[i].chain = "firewall"
  BY DEF Visits
<1>2. installed[i] = In("firewall", "fence")
  BY <1>1 DEF Drops, In
<1>3. Above(In("firewall", "between"), i)
  BY <1>2, FirstHolds DEF PolicyFirst, Opening
<1>4. PICK j \in 1..(i-1) : installed[j] = In("firewall", "between")
  BY <1>3 DEF Above
<1>5. j \in DOMAIN installed /\ i \in Nat /\ installed[j] \in Opening
  BY <1>4 DEF IInv, TypeOK, Opening
<1>6. PICK h \in 1..(j-1) : installed[h] = In("firewall", "policy")
  BY <1>5, FirstHolds DEF PolicyFirst, Above
<1>7. h \in 1..(i-1)
  BY <1>5
<1>8. Visits(installed[h], p) /\ Accepts(installed[h], p)
  BY <1>6 DEF Visits, Accepts, In
<1> QED BY <1>7, <1>8

LEMMA EnforcedHolds ==
    ASSUME IInv, Faithful, Foremost
    PROVE  Enforced
<1> SUFFICES ASSUME Resting, NEW p \in Openings
             PROVE  Passes(p) <=> Wanted(p)
  BY DEF Enforced, Enforcing
<1>1. PICK B \in SUBSET Services, m \in [Services -> Manifests] : BuiltFrom(B, m)
  BY DEF Faithful
<1>2. /\ Lists(Compile(B, m))
      /\ \A s \in Settled : s \in up /\ s \in B /\ s \in Services /\ m[s] = man[s]
  BY <1>1 DEF BuiltFrom, Resting, Calm, Settled, IInv, TypeOK
<1>3. /\ p \in Packets /\ p.new /\ p.src # p.dst
      /\ p.src \in Settled \cup Outside /\ p.dst \in Settled \cup Outside
      /\ p.src \in Outside => p.dst \in Settled
  BY DEF Openings
<1>4. /\ p.dst # Host /\ up \in SUBSET Services /\ TypeOK /\ up # {}
      /\ Outside \cap Services = {}
  BY <1>2, <1>3, FirewallAssumption DEF IInv, TypeOK, Everyone
<1>5. ASSUME NEW b \in BOOLEAN, \A v : PolicySays(p, v) <=> v = Target(b)
      PROVE  Passes(p) <=> b
  <2>1. CASE b
    BY <1>4, <1>5, <2>1, PolicyAdmits DEF Target
  <2>2. CASE ~b
    BY <1>4, <1>5, <2>2, PolicyDrops DEF Target, Passes
  <2> QED BY <2>1, <2>2
<1>6. CASE p.src \in Settled /\ p.dst \in Settled
  <2>1. \A v : PolicySays(p, v)
                <=> v = Target(Permits(m[p.src].egress, p.dst) /\ Permits(m[p.dst].ingress, p.src))
    BY <1>2, <1>3, <1>4, <1>6, PairDecides
  <2>2. Wanted(p) <=> Permits(m[p.src].egress, p.dst) /\ Permits(m[p.dst].ingress, p.src)
    BY <1>2, <1>6 DEF Wanted, Sandbox
  <2> QED BY <1>5, <2>1, <2>2
<1>7. CASE p.src \in Settled /\ p.dst \in Outside
  <2>1. \A v : PolicySays(p, v) <=> v = Target(Permits(m[p.src].egress, p.dst))
    BY <1>2, <1>4, <1>7, EgressDecides
  <2>2. Wanted(p) <=> Permits(m[p.src].egress, p.dst)
    BY <1>2, <1>4, <1>7 DEF Wanted, Sandbox
  <2>3. Permits(m[p.src].egress, p.dst) \in BOOLEAN
    BY DEF Permits
  <2> QED BY <1>5, <2>1, <2>2, <2>3
<1>8. CASE p.src \in Outside /\ p.dst \in Settled
  <2>1. Wanted(p) <=> p.src \in m[p.dst].ingress.allowNets \ m[p.dst].ingress.denyNets
    BY <1>2, <1>4, <1>8 DEF Wanted, Sandbox
  <2>2. CASE Wanted(p)
    <3>1. \A v : PolicySays(p, v) <=> v = "ACCEPT"
      BY <1>2, <1>4, <1>8, <2>1, <2>2, IngressDecides
    <3> QED BY <1>4, <2>2, <3>1, PolicyAdmits
  <2>3. CASE ~Wanted(p)
    <3>1. ~PolicySays(p, "ACCEPT")
      BY <1>2, <1>4, <1>8, <2>1, <2>3, IngressDecides
    <3> QED BY <1>2, <1>3, <1>8, <2>3, <3>1, FenceStops DEF Passes
  <2> QED BY <2>2, <2>3
<1> QED BY <1>3, <1>6, <1>7, <1>8

------------------------------------------------------------------------------
(* The invariant.                                                          *)

LEMMA InitEnforced == Init => Faithful /\ Foremost
<1> SUFFICES ASSUME Init PROVE Faithful /\ Foremost
  OBVIOUS
<1>1. Compile({}, man) = {}
  BY DEF Compile, PairRules, IngressRules, EgressRules
<1>2. Lists(Compile(up, man))
  BY <1>1 DEF Init, Lists
<1>3. \A a \in Callers : act[a].pc = "idle"
  BY DEF Init, Idle
<1>4. man \in [Services -> Manifests] /\ up \in SUBSET Services /\ BuiltFrom(up, man)
  BY <1>2, <1>3 DEF Init, BuiltFrom
<1>5. Foremost
  <2>1. CASE installed = << >>
    BY <2>1 DEF Foremost, Installed
  <2>2. CASE installed = Fixed
    <3>1. 2 \in DOMAIN installed /\ FirstJump(2)
      BY <2>2, FixedFacts DEF FirstJump
    <3> QED BY <3>1 DEF Foremost
  <2> QED BY <2>1, <2>2 DEF Init
<1> QED BY <1>4, <1>5 DEF Faithful

LEMMA ForemostStep ==
    ASSUME TypeOK, Progress, Foremost, [Next]_vars
    PROVE  Foremost'
<1>0. Fixed'[2] = Fixed[2]
  BY DEF Fixed, In
<1>1. CASE UNCHANGED installed
  BY <1>0, <1>1 DEF Foremost, FirstJump, Installed
<1>2. ASSUME NEW k \in 1..8, Grown(k) PROVE Foremost'
  <2> DEFINE S == {Fixed[x] : x \in DOMAIN Fixed}
  <2>0. PICK n : n = Len(installed)
    OBVIOUS
  <2>1. installed \in Seq(S) /\ Fixed[k] \in S /\ installed' = Append(installed, Fixed[k])
    BY <1>2, FixedFacts DEF TypeOK, Grown
  <2>2. /\ n \in Nat /\ DOMAIN installed = 1..n /\ DOMAIN installed' = 1..(n + 1)
        /\ \A j \in 1..n : installed'[j] = installed[j]
        /\ installed'[n + 1] = Fixed[k]
    BY <2>0, <2>1, AppendFacts
  <2>3. CASE Installed(Fixed[2])
    <3>1. PICK i \in 1..n : FirstJump(i)
      BY <2>2, <2>3 DEF Foremost
    <3>2. FirstJump(i)' /\ i \in DOMAIN installed'
      BY <1>0, <2>2, <3>1 DEF FirstJump
    <3> QED BY <3>2 DEF Foremost
  <2>4. CASE ~Installed(Fixed[2]) /\ Installed(Fixed[2])'
    <3>1. \A j \in 1..n : installed[j] # Fixed[2]
      BY <2>2, <2>4 DEF Installed
    <3>2. Fixed[k] = Fixed[2]
      BY <1>0, <2>2, <2>4, <3>1 DEF Installed
    <3>3. FirstJump(n + 1)' /\ n + 1 \in DOMAIN installed'
      BY <1>0, <2>2, <3>1, <3>2 DEF FirstJump
    <3> QED BY <3>3 DEF Foremost
  <2> QED BY <1>0, <2>3, <2>4 DEF Foremost
<1> QED BY <1>1, <1>2, ChainWrites

(* A rule that comes after all others keeps the chain in order.            *)
LEMMA Appended ==
    ASSUME policy \in Seq(RuleType), NEW R, NEW r, Bare(r) \in RuleType, Lists(R),
           \A q \in R : Before(q, r), policy' = Append(policy, Bare(r))
    PROVE  Lists(R \cup {r})'
<1> DEFINE n == Len(policy)
<1>1. /\ n \in Nat /\ DOMAIN policy = 1..n /\ DOMAIN policy' = 1..(n + 1)
      /\ \A j \in 1..n : policy'[j] = policy[j]
      /\ policy'[n + 1] = Bare(r)
  BY AppendFacts
<1>2. \A i \in DOMAIN policy' : \E q \in R \cup {r} : policy'[i] = Bare(q)
  BY <1>1 DEF Lists
<1>3. ASSUME NEW q \in R \cup {r}
      PROVE  \E i \in DOMAIN policy' :
                /\ policy'[i] = Bare(q)
                /\ \A j \in 1..(i-1) : \E o \in R \cup {r} : policy'[j] = Bare(o) /\ Before(o, q)
  <2>1. CASE q \in R
    <3>1. PICK i \in 1..n : /\ policy[i] = Bare(q)
                            /\ \A j \in 1..(i-1) : \E o \in R : policy[j] = Bare(o) /\ Before(o, q)
      BY <1>1, <2>1 DEF Lists
    <3>2. \A j \in 1..(i-1) : j \in 1..n
      BY <1>1
    <3> QED BY <1>1, <3>1, <3>2
  <2>2. CASE q = r
    <3>1. \A j \in 1..n : \E o \in R : policy[j] = Bare(o)
      BY <1>1 DEF Lists
    <3>2. \A j \in 1..n : \E o \in R \cup {r} : policy'[j] = Bare(o) /\ Before(o, r)
      BY <1>1, <3>1
    <3>3. n + 1 \in DOMAIN policy' /\ (n + 1) - 1 = n
      BY <1>1
    <3> QED BY <1>1, <2>2, <3>2, <3>3
  <2> QED BY <2>1, <2>2
<1> QED BY <1>2, <1>3 DEF Lists

LEMMA FaithfulStep ==
    ASSUME Alone, IInv, Faithful, [Next]_vars
    PROVE  Faithful'
<1>0. /\ TypeOK /\ man \in [Services -> Manifests] /\ policy \in Seq(RuleType)
      /\ \A a, b \in Callers : a = b
  BY DEF IInv, TypeOK, Alone
<1>1. PICK B \in SUBSET Services, m \in [Services -> Manifests] : BuiltFrom(B, m)
  BY DEF Faithful
<1>2. /\ \A s \in Services \ stale : m[s] = man[s]
      /\ (\A a \in Callers : act[a].pc # "read") => up \subseteq B
      /\ (\A a \in Callers : act[a].pc \in Calm) => Lists(Compile(B, m))
      /\ \A a \in Callers :
          /\ act[a].pc \in {"check", "readd", "flush"} => act[a].todo = Compile(B, m)
          /\ act[a].pc = "append" =>
               /\ act[a].todo \subseteq Compile(B, m)
               /\ Lists(Compile(B, m) \ act[a].todo)
               /\ \A r \in Compile(B, m) \ act[a].todo, q \in act[a].todo : Before(r, q)
  BY <1>1 DEF BuiltFrom
<1>b. \A a \in Callers : act[a].pc # "read" => up \subseteq B
  BY <1>0, <1>2
(* It is enough to look at the one caller.                                 *)
<1>3. ASSUME NEW a \in Callers, NEW D \in SUBSET Services, NEW x \in [Services -> Manifests],
             \A s \in Services \ stale' : x[s] = man'[s],
             act'[a].pc = "read" \/ up' \subseteq D,
             \/ act'[a].pc \in Calm /\ Lists(Compile(D, x))'
             \/ act'[a].pc = "read"
             \/ act'[a].pc \in {"check", "readd", "flush"} /\ act'[a].todo = Compile(D, x)
             \/ /\ act'[a].pc = "append" /\ act'[a].todo \subseteq Compile(D, x)
                /\ Lists(Compile(D, x) \ act[a].todo)'
                /\ \A r \in Compile(D, x) \ act'[a].todo, q \in act'[a].todo : Before(r, q)
      PROVE  Faithful'
  <2>1. BuiltFrom(D, x)'
    BY <1>0, <1>3 DEF BuiltFrom, Calm
  <2> QED BY <2>1 DEF Faithful
(* Steps that leave what the chain is compared with alone.                 *)
<1>4. ASSUME NEW a \in Callers, up' \subseteq up, UNCHANGED policy,
             \A s \in Services \ stale' : m[s] = man'[s],
             act[a].pc \in Calm, act'[a].pc \in Calm
      PROVE  Faithful'
  <2>1. Lists(Compile(B, m)) /\ up' \subseteq B
    BY <1>0, <1>2, <1>b, <1>4 DEF Calm
  <2>2. Lists(Compile(B, m))'
    BY <1>4, <2>1 DEF Lists
  <2> QED BY <1>3, <1>4, <2>1, <2>2
<1>5. ASSUME NEW a \in Callers, UNCHANGED <<up, man, stale>>,
             act[a].pc \in {"check", "readd", "flush"}, act'[a].pc \in {"check", "readd", "flush"},
             act'[a].todo = act[a].todo
      PROVE  Faithful'
  <2>1. up' \subseteq B /\ \A s \in Services \ stale' : m[s] = man'[s]
    BY <1>2, <1>5, <1>b
  <2>2. act'[a].pc \in {"check", "readd", "flush"} /\ act'[a].todo = Compile(B, m)
    BY <1>2, <1>5
  <2> QED BY <1>3, <2>1, <2>2
<1>6. CASE UNCHANGED vars
  <2>1. BuiltFrom(B, m)'
    BY <1>1, <1>6 DEF BuiltFrom, Lists, vars
  <2> QED BY <2>1 DEF Faithful
<1>7. ASSUME NEW a \in Clients, NEW s \in Services, Deploy(a, s) PROVE Faithful'
  <2>1. \A t \in Services \ stale' : m[t] = man'[t]
    BY <1>0, <1>2, <1>7 DEF Deploy
  <2> QED BY <1>4, <1>7, <2>1 DEF Deploy, Callers, Calm
<1>8. ASSUME NEW a \in Callers, NEW s \in Services, Start(a, s) PROVE Faithful'
  <2>1. act'[a].pc = "ensure"
    BY <1>0, <1>8, Written DEF Start
  <2>2. act[a].pc = "idle" /\ UNCHANGED <<up, man, stale, policy>>
    BY <1>8 DEF Start, Begin, rows, history
  <2> QED BY <1>2, <1>4, <2>1, <2>2 DEF Calm
<1>9. ASSUME NEW a \in Callers, (\E s \in Services : Stop(a, s)) \/ Tick(a) \/ StartRow(a)
      PROVE  Faithful'
  <2>1. act'[a].pc = "read"
    BY <1>0, <1>9, Written DEF Stop, Tick, StartRow, Goto
  <2>2. UNCHANGED <<man, stale>>
    BY <1>9 DEF Stop, Tick, StartRow, history
  <2>3. \A s \in Services \ stale' : m[s] = man'[s]
    BY <1>2, <2>2
  <2> QED BY <1>3, <2>1, <2>3
<1>10. ASSUME NEW a \in Callers, Read(a) PROVE Faithful'
  <2>1. /\ act'[a].pc = "check" /\ act'[a].todo = Compile(up, man)
        /\ UNCHANGED <<up, man>>
    BY <1>0, <1>10, Written DEF Read, rows
  <2>2. PICK D \in SUBSET Services, x \in [Services -> Manifests] : D = up /\ x = man
    BY <1>0 DEF TypeOK
  <2> QED BY <1>0, <1>3, <2>1, <2>2
<1>11. ASSUME NEW a \in Callers, Check(a) PROVE Faithful'
  <2>1. /\ act[a].pc \in {"ensure", "check"} /\ act'[a].todo = act[a].todo
        /\ act'[a].pc \in IF act[a].pc = "ensure" THEN {"row", "add"} ELSE {"flush", "readd"}
        /\ UNCHANGED <<up, man, stale, policy>>
    BY <1>0, <1>11, Written DEF Check, Ensuring, Ensured, Goto, rows, history
  <2> QED BY <1>2, <1>4, <1>5, <2>1 DEF Calm
<1>12. ASSUME NEW a \in Callers, Add(a) PROVE Faithful'
  <2>1. /\ act[a].pc \in {"add", "readd"} /\ act'[a].todo = act[a].todo
        /\ act'[a].pc = IF act[a].pc = "add" THEN "ensure" ELSE "check"
        /\ UNCHANGED <<up, man, stale, policy>>
    BY <1>0, <1>12, Written DEF Add, rows, history
  <2> QED BY <1>2, <1>4, <1>5, <2>1 DEF Calm
<1>13. ASSUME NEW a \in Callers, Flush(a) PROVE Faithful'
  <2>1. Lists({})'
    BY <1>13 DEF Flush, Lists
  <2>2. act[a].todo = Compile(B, m) /\ UNCHANGED <<up, man, stale>>
    BY <1>2, <1>13 DEF Flush, rows, history
  <2>3. CASE act[a].todo = {}
    <3>1. act'[a].pc = "idle" /\ Compile(B, m) = {}
      BY <1>0, <1>13, <2>2, <2>3, Written DEF Flush
    <3>2. up' \subseteq B /\ \A s \in Services \ stale' : m[s] = man'[s]
      BY <1>2, <1>13, <1>b, <2>2 DEF Flush
    <3> QED BY <1>3, <2>1, <3>1, <3>2 DEF Calm
  <2>4. CASE act[a].todo # {}
    <3>1. act'[a].pc = "append" /\ act'[a].todo = Compile(B, m)
      BY <1>0, <1>13, <2>2, <2>4, Written DEF Flush, Goto
    <3>2. Lists(Compile(B, m) \ act[a].todo)'
      BY <2>1, <3>1
    <3> QED BY <1>2, <1>3, <1>13, <1>b, <2>2, <3>1, <3>2 DEF Flush
  <2> QED BY <2>3, <2>4
<1>14. ASSUME NEW a \in Callers, AppendRule(a) PROVE Faithful'
  <2>1. PICK C, T : C = Compile(B, m) /\ T = act[a].todo
    OBVIOUS
  <2>2. PICK r \in T :
          /\ \A q \in T \ {r} : Before(r, q)
          /\ policy' = Append(policy, Bare(r))
          /\ IF T = {r} THEN Finish(a) ELSE Plan(a, T \ {r}, "append")
          /\ UNCHANGED <<up, man, stale>>
    BY <1>14, <2>1 DEF AppendRule, Bare, rows, history
  <2>3. /\ T \subseteq C /\ Lists(C \ T)
        /\ \A q \in C \ T, o \in T : Before(q, o)
    BY <1>2, <1>14, <2>1 DEF AppendRule
  <2>4. Bare(r) \in RuleType
    <3>1. r \in TodoType
      BY <1>0, <2>1, ActFields
    <3> QED BY <3>1 DEF Bare, TodoType, RuleType
  <2>5. Lists((C \ T) \cup {r})'
    BY <1>0, <2>2, <2>3, <2>4, Appended
  <2>6. (C \ T) \cup {r} = C \ (T \ {r}) /\ Compile(B, m) = C
    BY <2>1, <2>2, <2>3
  <2>7. CASE T = {r}
    <3>1. act'[a].pc = "idle" /\ C = (C \ T) \cup {r}
      BY <1>0, <2>2, <2>3, <2>7, Written
    <3>2. Lists(Compile(B, m))'
      BY <2>5, <2>6, <3>1
    <3>3. up' \subseteq B /\ \A s \in Services \ stale' : m[s] = man'[s]
      BY <1>2, <1>14, <1>b, <2>2 DEF AppendRule
    <3> QED BY <1>3, <3>1, <3>2, <3>3 DEF Calm
  <2>8. CASE T # {r}
    <3>1. act'[a].pc = "append" /\ act'[a].todo = T \ {r}
      BY <1>0, <2>2, <2>8, Written
    <3>2. Lists(Compile(B, m) \ act[a].todo)'
      BY <2>5, <2>6, <3>1
    <3>3. \A q \in C \ (T \ {r}), o \in T \ {r} : Before(q, o)
      BY <2>2, <2>3
    <3> QED BY <1>2, <1>3, <1>14, <1>b, <2>2, <2>3, <2>6, <3>1, <3>2, <3>3 DEF AppendRule
  <2> QED BY <2>7, <2>8
<1>15. \A a \in Callers : ~CommandFails(a)
  BY <1>0, FirewallAssumption DEF CommandFails, Alone, TypeOK
<1>16. ASSUME NEW a \in Callers, TickEnds(a) PROVE Faithful'
  <2>1. /\ act[a].pc \in Calm /\ act' = act /\ up' \subseteq up
        /\ UNCHANGED <<man, stale, policy>>
    BY <1>16 DEF TickEnds, Calm, history
  <2> QED BY <1>2, <1>4, <2>1
<1>17. ASSUME NEW s \in Services, Hang(s) \/ Release(s) PROVE Faithful'
  <2>1. UNCHANGED <<man, up, stale, act, policy>>
    BY <1>17 DEF Hang, Release, history
  <2>2. BuiltFrom(B, m)'
    BY <1>1, <2>1 DEF BuiltFrom, Lists
  <2> QED BY <2>2 DEF Faithful
<1> QED BY <1>6, <1>7, <1>8, <1>9, <1>10, <1>11, <1>12, <1>13, <1>14, <1>15, <1>16, <1>17
        DEF Next, Refresh, Callers

(* PoliciesEnforced: while one caller works at a time and no command       *)
(* fails, whatever has been started, stopped or deployed before: between   *)
(* operations a connection can be opened exactly when both manifests, or   *)
(* the one concerned, allow it, for every service not deployed since.      *)
THEOREM PoliciesEnforced == ASSUME Alone PROVE Spec => []Enforced
<1>1. Init => IInv /\ Faithful /\ Foremost
  BY InitInv, InitEnforced
<1>2. IInv /\ Faithful /\ Foremost /\ [Next]_vars => (IInv /\ Faithful /\ Foremost)'
  BY StepInv, FaithfulStep, ForemostStep DEF IInv
<1>3. IInv /\ Faithful /\ Foremost => Enforced
  BY EnforcedHolds
<1> QED BY <1>1, <1>2, <1>3, PTL DEF Spec
=============================================================================
