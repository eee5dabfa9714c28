---------------------------- MODULE MCPackages ----------------------------
EXTENDS Packages

Req(op, names, version, older, flag) ==
  [op |-> op, name |-> IF "b" \in names THEN "b" ELSE "a", names |-> names, version |-> version,
   older |-> older, purge |-> flag, security |-> flag]
HostQueries == {"Version", "List", "ListUpgradable", "LocalPackageInfo", "InstalledCount",
                "HasUpdates", "ListPinned", "ListRemotes"}
NameQueries == {"Search", "Show", "ListVersions", "IsInstalled", "InstalledVersion", "IsPinned"}
MCPkgCalls ==
  {Req(op, {"a"}, 0, FALSE, FALSE) : op \in HostQueries}
  \cup {Req(op, {n}, 0, FALSE, FALSE) : op \in NameQueries, n \in {"a", "b"}}
  \cup {Req(op, ns, 0, FALSE, FALSE) : op \in {"Pin", "Unpin"}, ns \in {{"a"}, {"a", "b"}}}
  \cup {Req(op, {}, 0, FALSE, FALSE) : op \in {"Pin", "Unpin"}}
  \cup {Req(op, {"a"}, 0, FALSE, FALSE) : op \in {"Update", "Upgrade", "Autoremove", "AddRemote", "RemoveRemote"}}
  \cup {Req(op, {"a"}, 0, FALSE, x) : op \in {"Remove", "UpgradeAll"}, x \in BOOLEAN}
  \cup {Req(op, {"a"}, 1, x, FALSE) : op \in {"Install", "InstallLocal"}, x \in BOOLEAN}
  \cup {Req("Install", {"a", "b"}, v, TRUE, FALSE) : v \in {0, 1}}

Host(a, b, residue, orphans, held, options, plugin) ==
  [installed |-> [n \in Names |-> IF n = "a" THEN a ELSE b], residue |-> residue, orphans |-> orphans,
   index |-> [n \in Names |-> IF n = "a" THEN 2 ELSE 1], held |-> held, options |-> options,
   plugin |-> plugin, remotes |-> {}]
MCHosts == {Host(2, 0, {}, {}, {"a"}, TRUE, TRUE), Host(1, 1, {}, {"b"}, {}, TRUE, TRUE),
            Host(0, 1, {"a"}, {}, {}, TRUE, TRUE), Host(1, 1, {}, {}, {}, TRUE, FALSE),
            Host(1, 1, {}, {}, {}, FALSE, TRUE)}
============================================================================
