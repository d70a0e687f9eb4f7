------------------------ MODULE MCWindowsSystemProxy ------------------------
(* Instances of WindowsSystemProxy: four of the five WinINET values (one of the  *)
(* two that are saved but never applied), two of the four environment values,    *)
(* two sets of ports, two exclusion lists.                                       *)
EXTENDS WindowsSystemProxy, TLC

CONSTANTS One, UserPac, Vpn, Pac1, Pac2, Local1, Local2, e1, e2, e3, port1, port2

MCInternetNames == <<"AutoConfigURL", "ProxyEnable", "ProxyServer", "AutoDetect">>
MCEnvNames == <<"HTTP_PROXY", "NO_PROXY">>
MCScalars == {Absent, Zero, One, UserPac, Vpn, Pac1, Pac2, Local1, Local2}
MCEntries == {e1, e2, e3}
MCDefault == {e1}
MCpac_url == (port1 :> Pac1) @@ (port2 :> Pac2)
MClocal_proxy == (port1 :> Local1) @@ (port2 :> Local2)
MCPolicies == {{}, {e2}}

(* A user with no proxy at all, and one with a PAC, a manual proxy and a         *)
(* NO_PROXY of his own.                                                          *)
NoProxyUser ==
    [n \in AllNames |->
       CASE n = "ProxyEnable" -> Zero
         [] n = "AutoDetect" -> Zero
         [] OTHER -> Absent]
ProxyUser ==
    [n \in AllNames |->
       CASE n = "AutoConfigURL" -> UserPac
         [] n = "ProxyEnable" -> One
         [] n = "ProxyServer" -> Vpn
         [] n = "NO_PROXY" -> {e3}
         [] OTHER -> Absent]
(* Left over from an installation that was deleted while it was active. *)
OrphanedPac == [NoProxyUser EXCEPT !["AutoConfigURL"] = Pac1]

(* Another program sets or removes a PAC, a manual proxy, a NO_PROXY. *)
MCForeignValues ==
    [n \in AllNames |->
       CASE n = "AutoConfigURL" -> {Absent, Vpn}
         [] n = "ProxyEnable" -> {One}
         [] n = "NO_PROXY" -> {{e3}}
         [] OTHER -> {}]

(* The user's proxy of long ago, in the WinINET backup of an older installation; *)
(* its other backup is not one.                                                  *)
MCLegacy ==
    [s \in Stores |->
       IF s = "internet" THEN [n \in NameSet(s) |-> ProxyUser[n]] ELSE Invalid]

NoEvents == [k \in Events |-> 0]
(* Two enables, two failing writes, two kills and a foreign write, in any order. *)
FaultBudget ==
    [NoEvents EXCEPT !["enable"] = 2, !["write"] = 2, !["crash"] = 2, !["foreign"] = 1]
(* Edits of the settings, unreadable registry keys and damaged backups. *)
SettingsBudget ==
    [NoEvents EXCEPT !["enable"] = 2, !["read"] = 1, !["write"] = 1, !["corrupt"] = 1,
                     !["settings"] = 2]
(* Starts of new processes beside the files of an older installation. *)
ImportBudget ==
    [NoEvents EXCEPT !["enable"] = 2, !["write"] = 1, !["crash"] = 1, !["import"] = 2]
(* Two enables, nothing else. *)
CalmBudget == [NoEvents EXCEPT !["enable"] = 2]

(* A process that fails, is killed and is interfered with; a process whose       *)
(* settings, reads and backups go wrong; an upgraded installation.               *)
Found(registry, class, budget) ==
    [reg |-> registry, endpoint |-> port1, no_proxy |-> {e2}, run |-> class,
     left |-> budget]
FaultScenarios ==
    {Found(r, "temporary", FaultBudget) : r \in {NoProxyUser, ProxyUser}}
      \cup {Found(r, "legacy", SettingsBudget) : r \in {NoProxyUser, OrphanedPac}}
      \cup {Found(r, "missing", ImportBudget) : r \in {NoProxyUser, ProxyUser}}
CalmScenarios == {Found(r, "missing", CalmBudget) : r \in {NoProxyUser, ProxyUser}}
=============================================================================
