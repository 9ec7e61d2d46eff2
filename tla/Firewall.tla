------------------------------- MODULE Firewall -------------------------------
(***************************************************************************)
(* The firewall of the sandbox network (network.rs): the chains that every *)
(* sandbox set-up and every policy refresh makes sure of, the policy chain *)
(* that a refresh flushes and rebuilds rule by rule from the manifests,    *)
(* and the callers that do so beside one another: operations (app.rs) and  *)
(* the reconcile loop (daemon.rs).  Each command of iptables is one step;  *)
(* no lock is held over several.                                           *)
(*                                                                         *)
(* A service stands for its address (Lifecycle keeps addresses apart), a   *)
(* list of CIDRs for the addresses in them, and a packet for what rules    *)
(* look at.  Bridged packets are assumed to pass FORWARD (br_netfilter),   *)
(* the host to have no rules of its own, sandboxes to use their addresses. *)
(***************************************************************************)
EXTENDS Naturals, Sequences

CONSTANTS
    N,          \* services are numbered in the order of their names
    Outside,    \* addresses outside the sandbox subnet
    Host,       \* the bridge's own address
    Manifests,  \* the network policies that a service may be deployed with
    Clients,    \* callers of start, stop and deploy
    Loops,      \* the reconcile loop of a running daemon, if there is one
    Built,      \* TRUE when an earlier run of the program built the fixed chains
    MaxDeploys, \* bound: how often manifests are stored again
    MaxFaults   \* bound: how many commands of iptables fail

Services == 1..N
Callers  == Clients \cup Loops
Everyone == Services \cup Outside
Policy   == [default : {"allow", "deny"},
             allowNames : SUBSET Services, denyNames : SUBSET Services,
             allowNets : SUBSET Everyone, denyNets : SUBSET Everyone]

ASSUME FirewallAssumption ==
    /\ N \in Nat /\ Built \in BOOLEAN /\ MaxDeploys \in Nat /\ MaxFaults \in Nat
    /\ Outside \cap Services = {} /\ Host \notin Everyone
    /\ Manifests \subseteq [ingress : Policy, egress : Policy]
    /\ Clients \cap Loops = {}

VARIABLES
    man,        \* the stored manifest of each service
    up,         \* the services whose sandbox row is not stopped
    stuck,      \* those of them that have ended and cannot be cleaned up
    installed,  \* the rules of the fixed chains, in the order of their -A
    policy,     \* the policy chain
    act,        \* each caller: what it does, its step, its locals
    deploys,    \* how many manifests have been stored again
    faults,     \* how many commands have failed
    stale,      \* history: services deployed since a refresh read manifests
    listed      \* history: the addresses that each service's manifests, past
                \* ones too, list in the allow_cidrs of their ingress

rows    == <<man, up, stuck, deploys>>
history == <<stale, listed>>
vars    == <<man, up, stuck, deploys, installed, policy, act, faults, stale, listed>>

------------------------------------------------------------------------------
(* What a manifest says *)

(* policy_allows: denials come first, names before addresses; an address   *)
(* outside has no name.                                                    *)
Permits(pol, peer) ==
    /\ peer \notin pol.denyNames \cup pol.denyNets
    /\ peer \in pol.allowNames \cup pol.allowNets \/ pol.default = "allow"

(* compile_policy_rules: each rule with the place it has in the chain.     *)
Rule(g, s, k, from, to, verdict) ==
    [key |-> <<g, s, k>>, from |-> from, to |-> to, verdict |-> verdict]

(* Mutant of Target: a target that iptables takes and this code never uses. *)
TargetRejects(accept) == IF accept THEN "ACCEPT" ELSE "REJECT"
Target(accept) == IF accept THEN "ACCEPT" ELSE "DROP"

PairRules(B, m) ==
    {Rule(1, st[1], st[2], {st[1]}, {st[2]},
          Target(Permits(m[st[1]].egress, st[2]) /\ Permits(m[st[2]].ingress, st[1]))) :
        st \in {xy \in B \X B : xy[1] # xy[2]}}

(* Mutant of IngressRules: an allowing default opens the service to all.   *)
IngressRulesOpen(B, m) ==
    UNION {{Rule(2, t, 1, m[t].ingress.denyNets, {t}, "DROP"),
            Rule(2, t, 2, m[t].ingress.allowNets, {t}, "ACCEPT"),
            Rule(2, t, 3, Everyone, {t}, Target(m[t].ingress.default = "allow"))} : t \in B}

(* No rule is made for an empty list, or for a default that allows: here a *)
(* rule from nowhere.                                                      *)
IngressRules(B, m) ==
    UNION {{Rule(2, t, 1, m[t].ingress.denyNets, {t}, "DROP"),
            Rule(2, t, 2, m[t].ingress.allowNets, {t}, "ACCEPT"),
            Rule(2, t, 3, IF m[t].ingress.default = "deny" THEN Everyone ELSE {}, {t}, "DROP")} :
           t \in B}

(* Mutant of EgressRules: allow_cidrs before deny_cidrs.                   *)
EgressRulesAllowFirst(B, m) ==
    UNION {{Rule(3, s, 2, {s}, m[s].egress.denyNets, "DROP"),
            Rule(3, s, 1, {s}, m[s].egress.allowNets, "ACCEPT"),
            Rule(3, s, 3, {s}, Outside, Target(m[s].egress.default = "allow")),
            Rule(3, s, 4, {s}, Services, "DROP")} : s \in B}

EgressRules(B, m) ==
    UNION {{Rule(3, s, 1, {s}, m[s].egress.denyNets, "DROP"),
            Rule(3, s, 2, {s}, m[s].egress.allowNets, "ACCEPT"),
            Rule(3, s, 3, {s}, Outside, Target(m[s].egress.default = "allow")),
            Rule(3, s, 4, {s}, Services, "DROP")} : s \in B}

Compile(B, m) ==
    {r \in PairRules(B, m) \cup IngressRules(B, m) \cup EgressRules(B, m) :
        r.from # {} /\ r.to # {}}

Before(r, q) ==
    \/ r.key[1] < q.key[1]
    \/ r.key[1] = q.key[1] /\ r.key[2] < q.key[2]
    \/ r.key[1] = q.key[1] /\ r.key[2] = q.key[2] /\ r.key[3] < q.key[3]

------------------------------------------------------------------------------
(* The fixed chains *)

In(chain, rule) == [chain |-> chain, rule |-> rule]

(* What ensure_host_network makes sure of, in its order.  The jumps are    *)
(* made with their chains; it names them once more, to no effect.  The     *)
(* INPUT chain, which ends with a rule that drops all but DNS, stands for  *)
(* its four rules and the masquerading one of the NAT table.               *)
Fixed ==
    << In("FORWARD", "firewall"), In("firewall", "policy"), In("firewall", "spoofed"),
       In("firewall", "between"), In("firewall", "leaving"), In("firewall", "established"),
       In("firewall", "fence"), In("INPUT", "input") >>

Installed(e) == \E i \in DOMAIN installed : installed[i] = e

(* A packet has a source, a destination, and is the first of a connection  *)
(* or belongs to one; "dns" tells port 53 from any other.                  *)
Sandbox(x) == x \in Services

(* Every address of the first match of p in the policy chain.              *)
Matches(r, p) == p.src \in r.from /\ p.dst \in r.to
PolicySays(p, verdict) ==
    \E i \in DOMAIN policy :
        /\ Matches(policy[i], p) /\ policy[i].verdict = verdict
        /\ \A j \in 1..(i-1) : ~Matches(policy[j], p)

(* A rule of the fixed chains drops the packet, or accepts it.             *)
Drops(e, p) ==
    \/ e = In("firewall", "policy") /\ PolicySays(p, "DROP")
    \/ e = In("firewall", "fence") /\ Sandbox(p.dst)
    \/ e = In("INPUT", "input") /\ Sandbox(p.src) /\ ~p.dns
Accepts(e, p) ==
    \/ e = In("firewall", "policy") /\ PolicySays(p, "ACCEPT")
    \/ e = In("firewall", "between") /\ Sandbox(p.src) /\ Sandbox(p.dst)
    \/ e = In("firewall", "leaving") /\ Sandbox(p.src)
    \/ e = In("firewall", "established") /\ Sandbox(p.dst) /\ ~p.new
    \/ e = In("INPUT", "input") /\ Sandbox(p.src) /\ p.dns

Visits(e, p) == e.chain = IF p.dst = Host THEN "INPUT" ELSE "firewall"

(* The first rule that decides; a packet no rule decides passes.           *)
Blocked(p) ==
    /\ p.dst # Host => Installed(In("FORWARD", "firewall"))
    /\ \E i \in DOMAIN installed :
        /\ Visits(installed[i], p) /\ Drops(installed[i], p)
        /\ \A j \in 1..(i-1) : Visits(installed[j], p) => ~Accepts(installed[j], p)
Passes(p) == ~Blocked(p)

------------------------------------------------------------------------------
Idle == [pc |-> "idle", op |-> "none", on |-> 0, at |-> 1, todo |-> {}]

(* Every service has been deployed with some manifest before it can run.   *)
Init ==
    /\ man \in [Services -> Manifests]
    /\ up = {} /\ stuck = {}
    /\ installed = IF Built THEN Fixed ELSE << >>
    /\ policy = << >>
    /\ act = [a \in Callers |-> Idle]
    /\ deploys = 0 /\ faults = 0
    /\ stale = {}
    /\ listed = [s \in Services |-> man[s].ingress.allowNets]

Seek(a, k, pc) == act' = [act EXCEPT ![a] = [@ EXCEPT !.at = k, !.pc = pc]]
Goto(a, pc)    == Seek(a, 1, pc)
Plan(a, T, pc) == act' = [act EXCEPT ![a] = [@ EXCEPT !.pc = pc, !.todo = T]]
Begin(a, pc, op, s) ==
    /\ act[a].pc = "idle"
    /\ act' = [act EXCEPT ![a] = [pc |-> pc, op |-> op, on |-> s, at |-> 1, todo |-> {}]]
Finish(a) == act' = [act EXCEPT ![a] = Idle]

(* deploy_only stores the manifest, also of a service that runs, and       *)
(* refreshes nothing.                                                      *)
Deploy(a, s) ==
    /\ act[a].pc = "idle"
    /\ deploys < MaxDeploys /\ deploys' = deploys + 1
    /\ \E m \in Manifests :
        /\ man' = [man EXCEPT ![s] = m]
        /\ listed' = [listed EXCEPT ![s] = @ \cup m.ingress.allowNets]
    /\ stale' = stale \cup {s}
    /\ UNCHANGED <<up, stuck, installed, policy, act, faults>>

(* start_only: the network is set up, then the row written, then the       *)
(* policies refreshed; stop_only and destroy_only begin with the row here, *)
(* unless a clean-up that fails has ended them before it.                  *)
Start(a, s) ==
    /\ s \notin up
    /\ Begin(a, "ensure", "start", s)
    /\ UNCHANGED <<rows, installed, policy, faults, history>>

StartRow(a) ==
    /\ act[a].pc = "row"
    /\ up' = up \cup {act[a].on}
    /\ Goto(a, "read")
    /\ UNCHANGED <<man, stuck, deploys, installed, policy, faults, history>>

Stop(a, s) ==
    /\ s \in up \ stuck
    /\ up' = up \ {s}
    /\ Begin(a, "read", "stop", s)
    /\ UNCHANGED <<man, stuck, deploys, installed, policy, faults, history>>

(* A service ends that has left something in its cgroup, by itself or by  *)
(* the kill of a stop, so that cleanup_sandbox fails (Sandbox); what it    *)
(* has left ends.                                                          *)
Hang(s) ==
    /\ s \in up \ stuck
    /\ stuck' = stuck \cup {s}
    /\ UNCHANGED <<man, up, deploys, installed, policy, act, faults, history>>

Release(s) ==
    /\ s \in stuck
    /\ stuck' = stuck \ {s}
    /\ UNCHANGED <<man, up, deploys, installed, policy, act, faults, history>>

(* A reconcile tick sets the rows of ended services to stopped, then       *)
(* refreshes.  (What else it writes late is in Lifecycle.)                 *)
Tick(a) ==
    /\ stuck = {}
    /\ Begin(a, "read", "tick", 0)
    /\ \E ended \in SUBSET up : up' = up \ ended
    /\ UNCHANGED <<man, stuck, deploys, installed, policy, faults, history>>

(* A clean-up that fails, or an error of SQLite, ends the tick there, with *)
(* the rows before it written and no refresh.                              *)
TickEnds(a) ==
    /\ act[a].pc = "idle"
    /\ \/ stuck # {} /\ UNCHANGED faults
       \/ faults < MaxFaults /\ faults' = faults + 1
    /\ \E ended \in SUBSET (up \ stuck) : up' = up \ ended
    /\ UNCHANGED <<man, stuck, deploys, installed, policy, act, history>>

(* refresh_linux_network_policies reads the rows and manifests first.      *)
Read(a) ==
    /\ act[a].pc = "read"
    /\ Plan(a, Compile(up, man), "check")
    /\ stale' = {}
    /\ UNCHANGED <<rows, installed, policy, faults, listed>>

(* ensure_host_network, one -C at a time; a rule found is not looked for   *)
(* again, and nothing removes one: the rules found in a row are one step.  *)
Ensuring(a) == act[a].pc \in {"ensure", "check"}
Missing(a)  == {k \in act[a].at..Len(Fixed) : ~Installed(Fixed[k])}
Ensured(a)  == IF act[a].pc = "ensure" THEN "row" ELSE "flush"

Check(a) ==
    /\ Ensuring(a)
    /\ \/ Missing(a) = {} /\ Goto(a, Ensured(a))
       \/ \E k \in Missing(a) :
            /\ \A j \in Missing(a) : k <= j
            /\ Seek(a, k, IF act[a].pc = "ensure" THEN "add" ELSE "readd")
    /\ UNCHANGED <<rows, installed, policy, faults, history>>

Add(a) ==
    /\ act[a].pc \in {"add", "readd"}
    /\ installed' = Append(installed, Fixed[act[a].at])
    /\ Seek(a, act[a].at + 1, IF act[a].pc = "add" THEN "ensure" ELSE "check")
    /\ UNCHANGED <<rows, policy, faults, history>>

Flush(a) ==
    /\ act[a].pc = "flush"
    /\ policy' = << >>
    /\ IF act[a].todo = {} THEN Finish(a) ELSE Goto(a, "append")
    /\ UNCHANGED <<rows, installed, faults, history>>

(* Mutant of AppendRule: -I in place of -A.                                *)
AppendRuleFirst(a) ==
    /\ act[a].pc = "append"
    /\ \E r \in act[a].todo :
        /\ \A q \in act[a].todo \ {r} : Before(r, q)
        /\ policy' = <<[from |-> r.from, to |-> r.to, verdict |-> r.verdict]>> \o policy
        /\ IF act[a].todo = {r} THEN Finish(a) ELSE Plan(a, act[a].todo \ {r}, "append")
    /\ UNCHANGED <<rows, installed, faults, history>>

AppendRule(a) ==
    /\ act[a].pc = "append"
    /\ \E r \in act[a].todo :
        /\ \A q \in act[a].todo \ {r} : Before(r, q)
        /\ policy' = Append(policy, [from |-> r.from, to |-> r.to, verdict |-> r.verdict])
        /\ IF act[a].todo = {r} THEN Finish(a) ELSE Plan(a, act[a].todo \ {r}, "append")
    /\ UNCHANGED <<rows, installed, faults, history>>

(* A command fails and its caller gives up.  A start whose refresh fails   *)
(* sets the row to stopped and refreshes no more (app.rs:418-433), whether *)
(* its clean-up succeeded or not.                                          *)
CommandFails(a) ==
    /\ act[a].pc \in {"ensure", "check", "add", "readd", "flush", "append"}
    /\ faults < MaxFaults /\ faults' = faults + 1
    /\ up' = IF act[a].op = "start" /\ act[a].pc \in {"check", "readd", "flush", "append"}
             THEN up \ {act[a].on} ELSE up
    /\ stuck' = stuck \cap up'
    /\ Finish(a)
    /\ UNCHANGED <<man, deploys, installed, policy, history>>

Refresh(a) == Read(a) \/ Check(a) \/ Add(a) \/ Flush(a) \/ AppendRule(a)
Next ==
    \/ \E a \in Clients, s \in Services : Deploy(a, s) \/ Start(a, s) \/ Stop(a, s)
    \/ \E s \in Services : Hang(s) \/ Release(s)
    \/ \E a \in Loops : Tick(a) \/ TickEnds(a)
    \/ \E a \in Callers : StartRow(a) \/ Refresh(a) \/ CommandFails(a)

Spec == Init /\ [][Next]_vars

(* The loop ticks for ever and every call under way goes on.               *)
FairSpec ==
    /\ Spec
    /\ \A a \in Loops : WF_vars(Tick(a) \/ TickEnds(a) \/ Refresh(a))
    /\ \A a \in Clients : WF_vars(StartRow(a) \/ Refresh(a))

------------------------------------------------------------------------------
(* Properties *)

Packets == [src : Everyone, dst : Everyone \cup {Host}, new : BOOLEAN, dns : BOOLEAN]

Targets  == {"ACCEPT", "DROP"}
RuleType == [from : SUBSET Everyone, to : SUBSET Everyone, verdict : Targets]
TodoType == [key : Nat \X Nat \X Nat,
             from : SUBSET Everyone, to : SUBSET Everyone, verdict : Targets]
ActType  == [pc : {"idle", "ensure", "add", "row", "read", "check", "readd", "flush", "append"},
             op : {"none", "start", "stop", "tick"}, on : Services \cup {0},
             at : 1..(Len(Fixed) + 1), todo : SUBSET TodoType]

(* TypeOK: every row, chain and local variable stays in its type.          *)
TypeOK ==
    /\ man \in [Services -> Manifests] /\ up \subseteq Services /\ stuck \subseteq up
    /\ installed \in Seq({Fixed[k] : k \in DOMAIN Fixed})
    /\ policy \in Seq(RuleType)
    /\ act \in [Callers -> ActType]
    /\ stale \subseteq Services /\ listed \in [Services -> SUBSET Everyone]
    /\ deploys \in 0..MaxDeploys /\ faults \in 0..MaxFaults

Resting == \A a \in Callers : act[a].pc = "idle"
Settled == up \ stale

(* What the manifests of two running services, or of one and an address    *)
(* outside, say of the first packet of a connection.                       *)
Wanted(p) ==
    IF Sandbox(p.src)
    THEN /\ Permits(man[p.src].egress, p.dst)
         /\ Sandbox(p.dst) => Permits(man[p.dst].ingress, p.src)
    ELSE p.dst \in Services /\ p.src \in man[p.dst].ingress.allowNets
                                         \ man[p.dst].ingress.denyNets

Openings == {p \in Packets : /\ p.new /\ ~p.dns /\ p.src # p.dst
                             /\ p.src \in Settled \cup Outside
                             /\ p.dst \in Settled \cup Outside
                             /\ p.src \in Outside => p.dst \in Settled}

Enforcing == \A p \in Openings : Passes(p) <=> Wanted(p)

(* Enforced: with nobody at work, a connection between running services,   *)
(* or between one and the outside, can be opened exactly when the          *)
(* manifests allow it: the order of the rules and of the chains decides as *)
(* policy_allows does.  (One caller, no failing command.)                  *)
Enforced == Resting => Enforcing

(* Fenced: however refreshes interleave, fail or are half done, a running  *)
(* service can be reached from outside only from addresses that a manifest *)
(* it has or once had lists in the allow_cidrs of its ingress.             *)
Fenced ==
    \A p \in Packets : p.src \in Outside /\ p.dst \in up /\ p.new /\ Passes(p) =>
        p.src \in listed[p.dst]

(* PolicyFirst: callers that race to build the chains leave them in an     *)
(* order that works: the policy chain is asked before any rule that        *)
(* accepts, the fence stands behind them all, and no service runs before   *)
(* the fence does.                                                         *)
Opening == {In("firewall", "between"), In("firewall", "leaving"), In("firewall", "established")}
Above(e, i) == \E j \in 1..(i-1) : installed[j] = e
PolicyFirst ==
    /\ \A i \in DOMAIN installed :
        /\ installed[i] \in Opening => Above(In("firewall", "policy"), i)
        /\ installed[i] = In("firewall", "fence") => \A e \in Opening : Above(e, i)
    /\ up # {} => Installed(In("firewall", "fence"))

(* Converges: when operations cease, the loop repairs whatever interleaved *)
(* or failed refreshes left behind, and between ticks the policies hold    *)
(* for every running service.  (A service that can never be cleaned up     *)
(* keeps every tick from its refresh: that it ends is a premise.)          *)
Quiet == (\A a \in Clients : act[a].pc = "idle") /\ stuck = {}
Converges == <>[]Quiet => <>[](Resting => Enforcing /\ stale = {})
------------------------------------------------------------------------------
(* What the documents say, and the code does not do *)

(* RepliesPass: SPEC.md:227, "Applications communicate over private        *)
(* networking", and the RELATED,ESTABLISHED rule of the forward chain:     *)
(* where a connection can be opened, its replies get through.              *)
Reply(p) == [p EXCEPT !.src = p.dst, !.dst = p.src, !.new = FALSE]
RepliesPass == Resting => \A p \in Openings : Passes(p) => Passes(Reply(p))
=============================================================================
