--------------------------- MODULE MCLinuxBackend ---------------------------
(* A small instance of LinuxBackend: two profiles, one without a proxy and one   *)
(* with a PAC of the user's; a GNOME or KDE session or none.                     *)
EXTENDS LinuxBackend

CONSTANTS u1, u2, Pac1, Pac2, UserPac, b1, b2

Config(url, bypass) == [pac |-> url, no_proxy |-> bypass]
MCConfigs == {Config(Pac1, b1), Config(Pac1, b2), Config(Pac2, b1)}

Initially(mode) ==
    [n \in Names |-> IF n \in Profiles THEN IF n = u1 THEN NoUrl ELSE UserPac
                     ELSE IF n[2] = "mode" THEN mode ELSE NoUrl]
MCForeignValues ==
    [n \in Names |-> IF n = u1 THEN {UserPac} ELSE IF n = u2 THEN {}
                     ELSE IF n[2] = "mode" THEN {"none"} ELSE {UserPac}]

NoEvents == [k \in Events |-> 0]
Scenario(mode, up, desktop, budget) ==
    [value |-> Initially(mode), up |-> up, config |-> Config(Pac1, b1),
     session |-> desktop, left |-> budget]

(* Commands and file operations fail, the process dies, another program writes. *)
FaultBudget ==
    [NoEvents EXCEPT !["enable"] = 2, !["command"] = 2, !["write"] = 1,
                     !["crash"] = 1, !["foreign"] = 1]
(* Connections go up and down and a profile is deleted. *)
LinkBudget ==
    [NoEvents EXCEPT !["enable"] = 2, !["command"] = 1, !["crash"] = 1,
                     !["link"] = 2, !["delete"] = 1]
(* The user edits the settings, changes the session, damages the file. *)
SettingsBudget ==
    [NoEvents EXCEPT !["enable"] = 2, !["read"] = 1, !["write"] = 1, !["crash"] = 1,
                     !["settings"] = 2, !["session"] = 1, !["corrupt"] = 1]

MCScenarios ==
    {Scenario("manual", {u1, u2}, "gsettings", FaultBudget),
     Scenario("none", {u1}, "gsettings", LinkBudget),
     Scenario("none", {u2}, None, LinkBudget),
     Scenario("none", {u1}, "kde", SettingsBudget)}

(* What the theorem about the devices supposes. *)
ASSUME PacsAssumption == PacsAreOwn
=============================================================================
