------------------------------ MODULE MCFirewall ------------------------------
(* Instances of Firewall for TLC, with manifests that differ in each of    *)
(* the ways the rules tell apart.                                          *)
EXTENDS Firewall, TLC

CONSTANTS near, far  \* addresses outside

Open   == [default |-> "allow", allowNames |-> {}, denyNames |-> {},
           allowNets |-> {}, denyNets |-> {}]
Closed == [Open EXCEPT !.default = "deny"]

(* The manifests of the test in network.rs, an exposed service with a hole *)
(* in what it exposes, and one that is denied by address.                  *)
Frontend == [ingress |-> Open, egress |-> Open]
Backend  == [ingress |-> [Closed EXCEPT !.allowNames = {1}], egress |-> Open]
Worker   == [ingress |-> Open,
             egress  |-> [Closed EXCEPT !.allowNets = {far, near}, !.denyNames = {2},
                                        !.denyNets = {near}]]
Exposed  == [ingress |-> [Open EXCEPT !.allowNets = {far, near}, !.denyNets = {near}],
             egress  |-> Closed]
Fussy    == [ingress |-> [Closed EXCEPT !.allowNets = {1, near}, !.denyNets = {2}],
             egress  |-> [Open EXCEPT !.denyNets = {1}]]

Exposure == [ingress |-> [Open EXCEPT !.allowNets = {near}],
             egress  |-> Open]
Recluse  == [ingress |-> Closed,
             egress  |-> [Closed EXCEPT !.allowNets = {near, far}, !.denyNets = {far}]]

AllManifests  == {Frontend, Backend, Worker, Exposed, Fussy}
LoneManifests == {Exposure, Recluse}
ReplyManifests == {Frontend, Worker}
=============================================================================
