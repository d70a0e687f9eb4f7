--------------------------- MODULE MCMacosBackend ---------------------------
(* A small instance of MacosBackend: two services, one plain and one with        *)
(* proxies of the user's, or one alone.                                          *)
EXTENDS MacosBackend

CONSTANTS s1, s2, Up1, Up2, UserProxy, UserPac, LocalPac, Domains, b1, b2

Config(upstream, bypass) == [upstream |-> upstream, no_proxy |-> bypass]
MCConfigs == {Config(Up1, b1), Config(Up1, b2), Config(Up2, b1)}

TurnedOn(at) == [on |-> TRUE, at |-> at]
TurnedOff(at) == [on |-> FALSE, at |-> at]

Plain ==
    [ch \in Settings |-> TurnedOff(IF ch = "bypass" THEN Domains ELSE Empty)]
Proxied ==
    [ch \in Settings |-> CASE ch = "bypass" -> TurnedOff(Domains)
                          [] ch = "auto" -> TurnedOn(UserPac)
                          [] OTHER -> TurnedOn(UserProxy)]
(* A proxy the user once typed in and switched off again: a server of the        *)
(* user's, or the very upstream.                                                 *)
OffWithOwnEndpoint == [Plain EXCEPT !["web"] = TurnedOff(UserProxy)]
OffAtUpstream == [Plain EXCEPT !["web"] = TurnedOff(Up1)]

MCForeignValues ==
    [ch \in Settings |-> CASE ch = "web" -> {TurnedOn(UserProxy)}
                          [] ch = "auto" -> {TurnedOn(UserPac), TurnedOn(LocalPac)}
                          [] OTHER -> {}]

NoEvents == [k \in Events |-> 0]
Scenario(first, second, services, budget) ==
    [value |-> [s \in Services |-> IF s = s1 THEN first ELSE second],
     present |-> services, config |-> Config(Up1, b1), left |-> budget]

(* Commands and file operations fail, the process dies, another program writes. *)
FaultBudget ==
    [NoEvents EXCEPT !["enable"] = 1, !["refresh"] = 1, !["command"] = 2,
                     !["write"] = 1, !["crash"] = 1, !["foreign"] = 1]
(* The settings change, the file is damaged, and enable is tried again. *)
SettingsBudget ==
    [NoEvents EXCEPT !["enable"] = 2, !["refresh"] = 1, !["read"] = 1, !["write"] = 1,
                     !["settings"] = 2, !["corrupt"] = 1, !["crash"] = 1]
(* Services come and go, macOS switches a setting off. *)
ServiceBudget ==
    [NoEvents EXCEPT !["enable"] = 1, !["refresh"] = 1, !["service"] = 2,
                     !["off"] = 1, !["crash"] = 1]

MCScenarios ==
    {Scenario(Plain, Proxied, Services, FaultBudget),
     Scenario(Proxied, Plain, {s1}, SettingsBudget),
     Scenario(OffAtUpstream, Proxied, Services, ServiceBudget)}

RetryScenarios ==
    {Scenario(OffWithOwnEndpoint, Plain, {s1},
              [NoEvents EXCEPT !["enable"] = 1, !["crash"] = 1])}

(* What the theorems about the restored state suppose. *)
ASSUME EndpointsAssumption == OnHasEndpoint
=============================================================================
