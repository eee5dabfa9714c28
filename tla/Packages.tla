------------------------------ MODULE Packages ------------------------------
(***************************************************************************)
(* The package side of the device SDK: one Manager interface over apt,     *)
(* dnf, pacman, zypper and flatpak.  A call is the series of commands its  *)
(* backend runs; between two commands other callers' commands run.  What a *)
(* command does to the host, and with which exit code it says so, belongs  *)
(* to the native tool (external); which commands are run, how each exit    *)
(* code is read and what is done about a failure is the SDK's.             *)
(*                                                                         *)
(* A version is a number, 0 when there is none.  Layout of the tools'      *)
(* output is left out: a read yields the set or the version it prints.     *)
(***************************************************************************)
EXTENDS Integers, Sequences, FiniteSets
LOCAL INSTANCE SequencesExt

CONSTANTS PkgCallers,   \* concurrent calls
          PkgCalls,     \* the requests: [op, names, version, downgrade, ...]
          Names, Latest, LocalVersion,
          Hosts,        \* the hosts a run starts from
          MaxPkgCalls, MaxPkgFaults

VARIABLES tool,      \* the backend of the Manager
          host,      \* installed, residue, orphans, index, held, options, plugin, remotes
          call,      \* each caller's call: [req, plan, seen, ...]
          reply,     \* how each caller's last call ended
          calls, cmdFaults

pkgVars == <<tool, host, call, reply, calls, cmdFaults>>

Backend == {"apt", "dnf", "pacman", "zypper", "flatpak"}
NoCall == [plan |-> <<>>, on |-> FALSE]
NoReply == [ended |-> FALSE]
PackagesInit ==
  /\ tool \in Backend
  /\ host \in {h \in Hosts : /\ h.residue # {} => tool = "apt"
                             /\ ~h.plugin => tool = "dnf"
                             /\ ~h.options => tool = "pacman"}
  /\ call = [c \in PkgCallers |-> NoCall]
  /\ reply = [c \in PkgCallers |-> NoReply]
  /\ calls = [c \in PkgCallers |-> 0]
  /\ cmdFaults = 0
----------------------------------------------------------------------------
(* Commands, and what the native tools do with them *)

NoExit == 999          \* the command could not be run, or was cancelled
Signalled == -1        \* Go's exit code of a process ended by a signal
Failure == 2           \* a failure with a code that says nothing else
\* A read: the exit codes that are an answer, and those that say there is nothing.
ReadOf(verb, n, ok, absent) ==
  [verb |-> verb, name |-> n, ok |-> ok, absent |-> absent, when |-> "always"]
readOut(verb, n) == ReadOf(verb, n, {0}, {})
MutProbe(verb, n, absentExit) == ReadOf(verb, n, {0}, {absentExit, Failure})
probe(verb, n, absentExit) == ReadOf(verb, n, {0}, {absentExit})
\* A privileged command.
runPriv(verb, names) ==
  [verb |-> verb, name |-> verb, names |-> names, ok |-> {0}, absent |-> {}, when |-> "always",
   version |-> 0, older |-> FALSE]
Writes(cmd) == "names" \in DOMAIN cmd

InstalledOn(h) == {n \in Names : h.installed[n] > 0}
Upgradable(h) == {n \in InstalledOn(h) : h.installed[n] < h.index[n]}
Offered(h, cmd, n) == IF cmd.version # 0 THEN cmd.version ELSE h.index[n]
Ran(exit, h, out) == [exit |-> exit, host |-> h, out |-> out, faulty |-> FALSE]

\* Exit codes for "no such thing", by tool and command.
Miss(verb) ==
  CASE verb = "info" /\ tool = "apt" -> 100
    [] verb \in {"search", "versions", "info"} /\ tool = "zypper" -> 104
    [] OTHER -> 1

ToolRead(cmd, h) ==
  LET n == cmd.name
      listed == InstalledOn(h) \cup h.residue
      hit(found, out) == Ran(IF found THEN 0 ELSE Miss(cmd.verb), h, out)
  IN  CASE cmd.verb = "query" -> hit(n \in listed, IF n \in h.residue THEN 1 ELSE h.installed[n])
        [] cmd.verb = "all" ->
             Ran(0, h, [m \in listed |-> [version |-> h.installed[m], installed |-> m \notin h.residue]])
        [] cmd.verb = "held" -> hit(tool # "dnf" \/ h.plugin, [pins |-> h.held, options |-> h.options])
        [] cmd.verb = "plugin" -> hit(h.plugin, {})
        [] cmd.verb = "updates" ->
             Ran(CASE tool = "dnf" /\ Upgradable(h) # {} -> 100
                   [] tool = "pacman" /\ Upgradable(h) = {} -> 1
                   [] OTHER -> 0, h, [m \in Upgradable(h) |-> h.installed[m]])
        [] cmd.verb = "info" -> hit(h.index[n] > 0, h.index[n])
        [] cmd.verb = "versions" ->
             hit(tool = "apt" \/ h.index[n] > 0, IF h.index[n] > 0 THEN 1 .. h.index[n] ELSE {})
        [] cmd.verb = "search" ->
             hit(tool = "apt" \/ h.index[n] > 0, {m \in {n} : h.index[m] > 0})
        [] cmd.verb = "orphans" -> hit(h.orphans # {}, h.orphans)
        [] cmd.verb = "local" -> Ran(0, h, [name |-> n, version |-> LocalVersion])
        [] cmd.verb = "remotes" -> Ran(0, h, h.remotes)
        [] cmd.verb = "self" -> Ran(0, h, 1)

ToolWrite(cmd, h) ==
  LET ns == cmd.names
      at(n) == h.installed[n]
      lower == \E n \in ns : Offered(h, cmd, n) < at(n)
      known == \A n \in ns : Offered(h, cmd, n) \in 1 .. h.index[n] \/ cmd.verb = "installLocal"
      put(S, v(_)) == [h EXCEPT !.installed = [n \in Names |-> IF n \in S THEN v(n) ELSE at(n)],
                                !.residue = @ \ S, !.orphans = @ \ S]
      drop(S) == [put(S, LAMBDA n : 0) EXCEPT !.residue = IF tool = "apt" THEN @ \cup S ELSE @]
      newest(n) == IF h.index[n] > at(n) THEN h.index[n] ELSE at(n)
      ok(x) == Ran(0, x, {})
      no == Ran(1, h, {})
  IN  CASE cmd.verb \in {"install", "installLocal"} ->
             IF ~known \/ (lower /\ cmd.version # 0 /\ ~cmd.older) THEN no
             ELSE ok(put(ns, LAMBDA n : IF cmd.version # 0 THEN cmd.version ELSE newest(n)))
        [] cmd.verb = "downgrade" ->
             IF known /\ lower THEN ok(put(ns, LAMBDA n : cmd.version)) ELSE no
        [] cmd.verb = "remove" ->
             IF tool \in {"pacman", "flatpak"} /\ ~(ns \subseteq InstalledOn(h)) THEN no
             ELSE ok(drop(ns \cap InstalledOn(h)))
        [] cmd.verb = "purge" ->
             IF tool \in {"pacman", "flatpak"} /\ ~(ns \subseteq InstalledOn(h)) THEN no
             ELSE ok(put(ns, LAMBDA n : 0))
        [] cmd.verb = "refresh" -> ok([h EXCEPT !.index = [n \in Names |-> IF @[n] = 0 THEN 0 ELSE Latest]])
        [] cmd.verb = "upgrade" -> ok(put((ns \cap InstalledOn(h)) \ h.held, newest))
        [] cmd.verb = "fetchUpgrade" ->
             ok([put((ns \cap InstalledOn(h)) \ h.held, LAMBDA n : Latest)
                   EXCEPT !.index = [n \in Names |-> IF @[n] = 0 THEN 0 ELSE Latest]])
        [] cmd.verb = "autoremove" -> ok(drop(h.orphans))
        [] cmd.verb = "hold" -> ok([h EXCEPT !.held = @ \cup ns])
        [] cmd.verb = "unhold" -> ok([h EXCEPT !.held = @ \ ns])
        [] cmd.verb = "setconf" -> ok([h EXCEPT !.held = ns])
        [] cmd.verb = "remoteAdd" -> ok([h EXCEPT !.remotes = @ \cup ns])
        [] cmd.verb = "remoteDelete" -> ok([h EXCEPT !.remotes = @ \ ns])

\* A command may fail to run, fail with a code of its own, fail with the very code that otherwise
\* says "no such thing" (1 is the usual code of any failure), or be killed or cancelled; a write may
\* have had its effect by then, and a write of pacman.conf may have truncated the file.  (The SDK
\* does not look at the output of a command that failed.)
RunTool(cmd) ==
  LET result == IF Writes(cmd) THEN ToolWrite(cmd, host) ELSE ToolRead(cmd, host)
      truncated == [host EXCEPT !.held = {}, !.options = FALSE]
      left == {host, result.host} \cup IF cmd.verb = "setconf" THEN {truncated} ELSE {}
      exits == {NoExit, Failure, Signalled, Miss(cmd.verb)}
  IN  {result} \cup IF cmdFaults = MaxPkgFaults THEN {}
                    ELSE {[Ran(x, h, result.out) EXCEPT !.faulty = TRUE] : x \in exits, h \in left}
----------------------------------------------------------------------------
(* The commands of each method of each backend.  A method refuses its request with RefusedPlan, and *)
(* does nothing, successfully, with the empty plan.  Names, paths and queries are valid ones.   *)

RefusedPlan == <<[verb |-> "refused"]>>
\* Version asks for one package, and its absence for whatever the repository has.
validated(q, plan) ==
  CASE q.version # 0 /\ Cardinality(q.names) # 1 -> RefusedPlan
    [] q.names = {} -> <<>>
    [] OTHER -> plan
unlessEmpty(q, plan) == IF q.names = {} THEN <<>> ELSE plan
Versioned(q, verb, older) == <<[runPriv(verb, q.names) EXCEPT !.version = q.version, !.older = older]>>
Local(q, older) ==
  <<[runPriv("installLocal", {q.name}) EXCEPT !.version = LocalVersion, !.older = older]>>

AptVersion(q) == <<readOut("self", q.name)>>
AptInstall(q) == validated(q, Versioned(q, "install", q.older))
AptInstallLocal(q) == Local(q, q.older)
AptRemove(q) == unlessEmpty(q, <<runPriv(IF q.purge THEN "purge" ELSE "remove", q.names)>>)
AptUpdate(q) == <<runPriv("refresh", {})>>
AptUpgrade(q) == unlessEmpty(q, <<runPriv("upgrade", q.names)>>)
\* Security updates only, through unattended-upgrade: here, some of the updates.
AptSecurityUpgrade(q) == <<runPriv("upgrade", {q.name})>>
AptUpgradeAll(q) == IF q.security THEN AptSecurityUpgrade(q) ELSE <<runPriv("upgrade", Names)>>
AptPin(q) == unlessEmpty(q, <<runPriv("hold", q.names)>>)
AptUnpin(q) == unlessEmpty(q, <<runPriv("unhold", q.names)>>)
AptAutoremove(q) == <<runPriv("autoremove", {})>>
AptSearch(q) == <<readOut("search", q.name)>>
AptGetPinnedSet(q) == readOut("held", q.name)
AptList(q) == <<readOut("all", q.name), AptGetPinnedSet(q)>>
AptListUpgradable(q) == <<readOut("updates", q.name)>>
AptIsInstalled(q) == <<probe("query", q.name, 1)>>
AptIsPinned(q) == <<readOut("held", q.name)>>
AptShow(q) == <<readOut("info", q.name)>> \o AptIsInstalled(q) \o AptIsPinned(q)
AptInstalledVersion(q) == <<probe("query", q.name, 1)>>
AptListVersions(q) == <<readOut("versions", q.name)>> \o AptInstalledVersion(q)
AptLocalPackageInfo(q) == <<readOut("local", q.name)>>
AptInstalledCount(q) == <<readOut("all", q.name)>>
AptHasUpdates(q) == <<readOut("updates", q.name)>>
AptListPinned(q) == <<readOut("held", q.name)>>

DnfVersion(q) == <<readOut("self", q.name)>>
DnfInstall(q) == validated(q, Versioned(q, "install", FALSE))
DnfInstallLocal(q) == Local(q, FALSE)
DnfRemove(q) == unlessEmpty(q, <<runPriv("purge", q.names)>>)
DnfUpdate(q) == <<[runPriv("refresh", {}) EXCEPT !.ok = {0, 100}]>>
DnfUpgrade(q) == unlessEmpty(q, <<runPriv("upgrade", q.names)>>)
DnfUpgradeAll(q) == <<runPriv("fetchUpgrade", IF q.security THEN {q.name} ELSE Names)>>
\* An absent plugin is an error, as is any failure to find out.
ensureVersionLock(q) == readOut("plugin", q.name)
DnfPin(q) == unlessEmpty(q, <<ensureVersionLock(q), runPriv("hold", q.names)>>)
DnfUnpin(q) == unlessEmpty(q, <<ensureVersionLock(q), runPriv("unhold", q.names)>>)
DnfAutoremove(q) == <<runPriv("autoremove", {})>>
DnfSearch(q) == <<probe("search", q.name, 1)>>
DnfGetPinnedSet(q) == probe("held", q.name, 1)
DnfList(q) == <<readOut("all", q.name), DnfGetPinnedSet(q)>>
DnfListUpgradable(q) == <<ReadOf("updates", q.name, {0, 100}, {})>>
DnfIsInstalled(q) == <<probe("query", q.name, 1)>>
DnfIsPinned(q) == <<probe("held", q.name, 1)>>
DnfShow(q) == <<readOut("info", q.name)>> \o DnfIsInstalled(q) \o DnfIsPinned(q)
DnfInstalledVersion(q) == <<probe("query", q.name, 1)>>
DnfListVersions(q) == <<readOut("versions", q.name)>> \o DnfInstalledVersion(q)
rpmLocalPackageInfo(q) == <<readOut("local", q.name)>>
DnfInstalledCount(q) == <<readOut("all", q.name)>>
DnfHasUpdates(q) == <<ReadOf("updates", q.name, {0, 100}, {})>>
DnfListPinned(q) == <<ensureVersionLock(q), readOut("held", q.name)>>

PacmanVersion(q) == <<readOut("self", q.name)>>
\* pacman goes back to a lower version without being asked to.
PacmanInstall(q) == validated(q, Versioned(q, "install", TRUE))
PacmanInstallLocal(q) == Local(q, TRUE)
PacmanRemove(q) == unlessEmpty(q, <<runPriv(IF q.purge THEN "purge" ELSE "remove", q.names)>>)
PacmanUpdate(q) == <<runPriv("refresh", {})>>
PacmanUpgrade(q) == unlessEmpty(q, <<runPriv("install", q.names)>>)
PacmanUpgradeAll(q) == IF q.security THEN RefusedPlan ELSE <<runPriv("fetchUpgrade", Names)>>
PacmanAutoremove(q) == <<probe("orphans", q.name, 1)>>
PacmanSearch(q) == <<probe("search", q.name, 1)>>
readConf(q) == readOut("held", q.name)
PacmanGetPinnedSet(q) == readConf(q)
PacmanList(q) == <<readOut("all", q.name), PacmanGetPinnedSet(q)>>
PacmanListUpgradable(q) == <<probe("updates", q.name, 1)>>
PacmanIsInstalled(q) == <<probe("query", q.name, 1)>>
PacmanIsPinned(q) == <<readConf(q)>>
PacmanShow(q) ==
  <<probe("query", q.name, 1), [readOut("info", q.name) EXCEPT !.when = "miss"]>> \o PacmanIsPinned(q)
PacmanInstalledVersion(q) == <<probe("query", q.name, 1)>>
PacmanListVersions(q) == PacmanInstalledVersion(q) \o <<probe("info", q.name, 1)>>
PacmanLocalPackageInfo(q) == <<readOut("local", q.name)>>
PacmanInstalledCount(q) == <<readOut("all", q.name)>>
PacmanHasUpdates(q) == <<probe("updates", q.name, 1)>>
PacmanPin(q) == unlessEmpty(q, <<readConf(q)>>)
PacmanUnpin(q) == unlessEmpty(q, <<readConf(q)>>)
PacmanListPinned(q) == <<readConf(q)>>

isZypperInfoExit == {0} \cup 100 .. 103
ZypperVersion(q) == <<readOut("self", q.name)>>
ZypperInstall(q) == validated(q, Versioned(q, "install", q.older))
ZypperInstallLocal(q) == Local(q, q.older)
ZypperRemove(q) == unlessEmpty(q, <<runPriv("purge", q.names)>>)
ZypperUpdate(q) == <<runPriv("refresh", {})>>
ZypperUpgrade(q) == unlessEmpty(q, <<runPriv("upgrade", q.names)>>)
ZypperUpgradeAll(q) == <<runPriv("upgrade", IF q.security THEN {q.name} ELSE Names)>>
ZypperAutoremove(q) == <<>>
ZypperSearch(q) == <<probe("search", q.name, 104)>>
ZypperGetPinnedSet(q) == probe("held", q.name, Signalled)
ZypperList(q) == <<readOut("all", q.name), ZypperGetPinnedSet(q)>>
ZypperListUpgradable(q) == <<ReadOf("updates", q.name, isZypperInfoExit, {})>>
ZypperIsInstalled(q) == <<probe("query", q.name, 1)>>
ZypperIsPinned(q) == <<probe("held", q.name, Signalled)>>
ZypperShow(q) == <<readOut("info", q.name)>> \o ZypperIsInstalled(q) \o ZypperIsPinned(q)
ZypperInstalledVersion(q) == <<probe("query", q.name, 1)>>
\* (The installed version is asked for before the exit code of the search is looked at.)
ZypperListVersions(q) == <<probe("versions", q.name, 104)>> \o ZypperInstalledVersion(q)
ZypperInstalledCount(q) == <<readOut("all", q.name)>>
ZypperHasUpdates(q) == <<ReadOf("updates", q.name, isZypperInfoExit, {})>>
ZypperPin(q) == unlessEmpty(q, <<runPriv("hold", q.names)>>)
ZypperUnpin(q) == unlessEmpty(q, <<runPriv("unhold", q.names)>>)
ZypperListPinned(q) == <<readOut("held", q.name)>>

FlatpakVersion(q) == <<readOut("self", q.name)>>
\* The version is checked and ignored.
FlatpakInstall(q) == unlessEmpty(q, <<runPriv("install", q.names)>>)
FlatpakInstallLocal(q) == Local(q, TRUE)
FlatpakRemove(q) == unlessEmpty(q, <<runPriv(IF q.purge THEN "purge" ELSE "remove", q.names)>>)
FlatpakUpdate(q) == <<runPriv("refresh", {})>>
FlatpakUpgrade(q) == unlessEmpty(q, <<runPriv("upgrade", q.names)>>)
FlatpakUpgradeAll(q) == IF q.security THEN RefusedPlan ELSE <<runPriv("fetchUpgrade", Names)>>
FlatpakAutoremove(q) == <<runPriv("autoremove", {})>>
FlatpakSearch(q) == <<probe("search", q.name, 1)>>
FlatpakGetPinnedSet(q) == probe("held", q.name, Signalled)
FlatpakList(q) == <<readOut("all", q.name), FlatpakGetPinnedSet(q)>>
FlatpakListUpgradable(q) == <<readOut("updates", q.name)>>
FlatpakIsInstalled(q) == <<probe("query", q.name, 1)>>
FlatpakIsPinned(q) == <<probe("held", q.name, Signalled)>>
showFromRemote(q) == [readOut("info", q.name) EXCEPT !.when = "miss"]
FlatpakShow(q) ==
  <<probe("query", q.name, 1), showFromRemote(q), [FlatpakIsPinned(q)[1] EXCEPT !.when = "hit"]>>
FlatpakInstalledVersion(q) == <<probe("query", q.name, 1)>>
FlatpakListVersions(q) == FlatpakInstalledVersion(q) \o <<probe("info", q.name, 1)>>
FlatpakLocalPackageInfo(q) == RefusedPlan
FlatpakInstalledCount(q) == <<readOut("all", q.name)>>
FlatpakHasUpdates(q) == <<readOut("updates", q.name)>>
FlatpakPin(q) == unlessEmpty(q, <<FlatpakGetPinnedSet(q)>>)
FlatpakUnpin(q) == unlessEmpty(q, <<FlatpakGetPinnedSet(q)>>)
FlatpakListPinned(q) == <<readOut("held", q.name)>>
AddRemote(q) == <<runPriv("remoteAdd", {q.name})>>
RemoveRemote(q) == <<runPriv("remoteDelete", {q.name})>>
ListRemotes(q) == <<readOut("remotes", q.name)>>

AptManager(q) ==
  CASE q.op = "Version" -> AptVersion(q) [] q.op = "Search" -> AptSearch(q)
    [] q.op = "List" -> AptList(q) [] q.op = "ListUpgradable" -> AptListUpgradable(q)
    [] q.op = "Show" -> AptShow(q) [] q.op = "ListVersions" -> AptListVersions(q)
    [] q.op = "IsInstalled" -> AptIsInstalled(q)
    [] q.op = "LocalPackageInfo" -> AptLocalPackageInfo(q)
    [] q.op = "InstalledVersion" -> AptInstalledVersion(q)
    [] q.op = "InstalledCount" -> AptInstalledCount(q) [] q.op = "HasUpdates" -> AptHasUpdates(q)
    [] q.op = "IsPinned" -> AptIsPinned(q) [] q.op = "ListPinned" -> AptListPinned(q)
    [] q.op = "Install" -> AptInstall(q) [] q.op = "InstallLocal" -> AptInstallLocal(q)
    [] q.op = "Remove" -> AptRemove(q) [] q.op = "Update" -> AptUpdate(q)
    [] q.op = "Upgrade" -> AptUpgrade(q) [] q.op = "UpgradeAll" -> AptUpgradeAll(q)
    [] q.op = "Pin" -> AptPin(q) [] q.op = "Unpin" -> AptUnpin(q)
    [] q.op = "Autoremove" -> AptAutoremove(q)
DnfManager(q) ==
  CASE q.op = "Version" -> DnfVersion(q) [] q.op = "Search" -> DnfSearch(q)
    [] q.op = "List" -> DnfList(q) [] q.op = "ListUpgradable" -> DnfListUpgradable(q)
    [] q.op = "Show" -> DnfShow(q) [] q.op = "ListVersions" -> DnfListVersions(q)
    [] q.op = "IsInstalled" -> DnfIsInstalled(q)
    [] q.op = "LocalPackageInfo" -> rpmLocalPackageInfo(q)
    [] q.op = "InstalledVersion" -> DnfInstalledVersion(q)
    [] q.op = "InstalledCount" -> DnfInstalledCount(q) [] q.op = "HasUpdates" -> DnfHasUpdates(q)
    [] q.op = "IsPinned" -> DnfIsPinned(q) [] q.op = "ListPinned" -> DnfListPinned(q)
    [] q.op = "Install" -> DnfInstall(q) [] q.op = "InstallLocal" -> DnfInstallLocal(q)
    [] q.op = "Remove" -> DnfRemove(q) [] q.op = "Update" -> DnfUpdate(q)
    [] q.op = "Upgrade" -> DnfUpgrade(q) [] q.op = "UpgradeAll" -> DnfUpgradeAll(q)
    [] q.op = "Pin" -> DnfPin(q) [] q.op = "Unpin" -> DnfUnpin(q)
    [] q.op = "Autoremove" -> DnfAutoremove(q)
PacmanManager(q) ==
  CASE q.op = "Version" -> PacmanVersion(q) [] q.op = "Search" -> PacmanSearch(q)
    [] q.op = "List" -> PacmanList(q) [] q.op = "ListUpgradable" -> PacmanListUpgradable(q)
    [] q.op = "Show" -> PacmanShow(q) [] q.op = "ListVersions" -> PacmanListVersions(q)
    [] q.op = "IsInstalled" -> PacmanIsInstalled(q)
    [] q.op = "LocalPackageInfo" -> PacmanLocalPackageInfo(q)
    [] q.op = "InstalledVersion" -> PacmanInstalledVersion(q)
    [] q.op = "InstalledCount" -> PacmanInstalledCount(q)
    [] q.op = "HasUpdates" -> PacmanHasUpdates(q) [] q.op = "IsPinned" -> PacmanIsPinned(q)
    [] q.op = "ListPinned" -> PacmanListPinned(q) [] q.op = "Install" -> PacmanInstall(q)
    [] q.op = "InstallLocal" -> PacmanInstallLocal(q) [] q.op = "Remove" -> PacmanRemove(q)
    [] q.op = "Update" -> PacmanUpdate(q) [] q.op = "Upgrade" -> PacmanUpgrade(q)
    [] q.op = "UpgradeAll" -> PacmanUpgradeAll(q) [] q.op = "Pin" -> PacmanPin(q)
    [] q.op = "Unpin" -> PacmanUnpin(q) [] q.op = "Autoremove" -> PacmanAutoremove(q)
ZypperManager(q) ==
  CASE q.op = "Version" -> ZypperVersion(q) [] q.op = "Search" -> ZypperSearch(q)
    [] q.op = "List" -> ZypperList(q) [] q.op = "ListUpgradable" -> ZypperListUpgradable(q)
    [] q.op = "Show" -> ZypperShow(q) [] q.op = "ListVersions" -> ZypperListVersions(q)
    [] q.op = "IsInstalled" -> ZypperIsInstalled(q)
    [] q.op = "LocalPackageInfo" -> rpmLocalPackageInfo(q)
    [] q.op = "InstalledVersion" -> ZypperInstalledVersion(q)
    [] q.op = "InstalledCount" -> ZypperInstalledCount(q)
    [] q.op = "HasUpdates" -> ZypperHasUpdates(q) [] q.op = "IsPinned" -> ZypperIsPinned(q)
    [] q.op = "ListPinned" -> ZypperListPinned(q) [] q.op = "Install" -> ZypperInstall(q)
    [] q.op = "InstallLocal" -> ZypperInstallLocal(q) [] q.op = "Remove" -> ZypperRemove(q)
    [] q.op = "Update" -> ZypperUpdate(q) [] q.op = "Upgrade" -> ZypperUpgrade(q)
    [] q.op = "UpgradeAll" -> ZypperUpgradeAll(q) [] q.op = "Pin" -> ZypperPin(q)
    [] q.op = "Unpin" -> ZypperUnpin(q) [] q.op = "Autoremove" -> ZypperAutoremove(q)
FlatpakManager(q) ==
  CASE q.op = "Version" -> FlatpakVersion(q) [] q.op = "Search" -> FlatpakSearch(q)
    [] q.op = "List" -> FlatpakList(q) [] q.op = "ListUpgradable" -> FlatpakListUpgradable(q)
    [] q.op = "Show" -> FlatpakShow(q) [] q.op = "ListVersions" -> FlatpakListVersions(q)
    [] q.op = "IsInstalled" -> FlatpakIsInstalled(q)
    [] q.op = "LocalPackageInfo" -> FlatpakLocalPackageInfo(q)
    [] q.op = "InstalledVersion" -> FlatpakInstalledVersion(q)
    [] q.op = "InstalledCount" -> FlatpakInstalledCount(q)
    [] q.op = "HasUpdates" -> FlatpakHasUpdates(q) [] q.op = "IsPinned" -> FlatpakIsPinned(q)
    [] q.op = "ListPinned" -> FlatpakListPinned(q) [] q.op = "Install" -> FlatpakInstall(q)
    [] q.op = "InstallLocal" -> FlatpakInstallLocal(q) [] q.op = "Remove" -> FlatpakRemove(q)
    [] q.op = "Update" -> FlatpakUpdate(q) [] q.op = "Upgrade" -> FlatpakUpgrade(q)
    [] q.op = "UpgradeAll" -> FlatpakUpgradeAll(q) [] q.op = "Pin" -> FlatpakPin(q)
    [] q.op = "Unpin" -> FlatpakUnpin(q) [] q.op = "Autoremove" -> FlatpakAutoremove(q)
    [] q.op = "AddRemote" -> AddRemote(q) [] q.op = "RemoveRemote" -> RemoveRemote(q)
    [] q.op = "ListRemotes" -> ListRemotes(q)
\* Remotes are flatpak's only.
RemoteMethods == {"AddRemote", "RemoveRemote", "ListRemotes"}
Manager(q) ==
  CASE tool = "apt" -> AptManager(q)
    [] tool = "dnf" -> DnfManager(q)
    [] tool = "pacman" -> PacmanManager(q)
    [] tool = "zypper" -> ZypperManager(q)
    [] tool = "flatpak" -> FlatpakManager(q)
----------------------------------------------------------------------------
(* Running a plan *)

\* How the SDK takes an exit code.  "error" is the runner's, "failed" a *CommandError.
Outcome(cmd, exit) ==
  CASE exit = NoExit -> "error"
    [] exit \in cmd.ok -> "hit"
    [] exit \in cmd.absent -> "miss"
    [] OTHER -> "failed"

\* The commands left, once those that wait for the other outcome of the first are passed over.
Due(plan, seen) ==
  SelectSeq(plan, LAMBDA cmd : cmd.when \in {"always", IF seen[1].hit THEN "hit" ELSE "miss"})

getIgnoredPackages(conf) == conf.pins
hasPacmanOptionsSection(conf) == conf.options
writeIgnorePkg(conf, ignored) ==
  IF hasPacmanOptionsSection(conf) THEN <<runPriv("setconf", ignored)>> ELSE RefusedPlan
Pins(item) == IF item.hit THEN item.out.pins ELSE {}
MutChangeMasks(desired, names, pinned) ==
  SetToSeq({runPriv(IF desired THEN "hold" ELSE "unhold", {n}) : n \in names})
changeMasks(desired, names, pinned) ==
  SetToSeq({runPriv(IF desired THEN "hold" ELSE "unhold", {n}) :
              n \in {m \in names : (m \in pinned) # desired}})
versionsOf(names) == SetToSeq({probe("query", n, 1) : n \in names})
removeOrphans(item) == IF item.hit THEN <<runPriv("purge", item.out)>> ELSE <<>>

\* What a method runs after it has looked at the answer to its first read.
AfterRead(q, item, rest) ==
  CASE item.verb = "held" /\ q.op = "ListPinned" -> versionsOf(Pins(item))
    [] item.verb = "updates" /\ q.op = "ListUpgradable" /\ tool \in {"dnf", "flatpak"} ->
         versionsOf(DOMAIN item.out)
    [] item.verb = "orphans" -> removeOrphans(item)
    [] item.verb = "held" /\ tool = "pacman" /\ q.op = "Pin" ->
         writeIgnorePkg(item.out, getIgnoredPackages(item.out) \cup q.names)
    [] item.verb = "held" /\ tool = "pacman" /\ q.op = "Unpin" ->
         writeIgnorePkg(item.out, getIgnoredPackages(item.out) \ q.names)
    [] item.verb = "held" /\ tool = "flatpak" /\ q.op \in {"Pin", "Unpin"} ->
         changeMasks(q.op = "Pin", q.names, Pins(item))
    [] OTHER -> rest

\* dnf tries a rejected install again as an explicit downgrade.
retriesAsDowngrade(q, cmd, outcome) ==
  /\ tool = "dnf" /\ outcome = "failed" /\ q.older
  /\ (cmd.verb = "install" /\ q.version # 0) \/ cmd.verb = "installLocal"
Opposite(cmd) == [cmd EXCEPT !.verb = IF @ = "hold" THEN "unhold" ELSE "hold"]
\* The compensations of the masks a failed Pin or Unpin had changed, last one first.
rollbackMasks(changed) == [i \in 1 .. Len(changed) |-> Opposite(changed[Len(changed) + 1 - i])]
IsMask(q, cmd) == tool = "flatpak" /\ q.op \in {"Pin", "Unpin"} /\ Writes(cmd)

Row(n, version, pinned) == [name |-> n, version |-> version, pinned |-> pinned]
parseList(out, pinned) ==
  {Row(n, out[n].version, n \in pinned) : n \in {m \in DOMAIN out : out[m].installed}}
hasUpdates(item) ==
  CASE tool = "dnf" -> item.exit = 100
    [] tool = "zypper" -> item.exit # 0 \/ DOMAIN item.out # {}
    [] OTHER -> item.hit /\ DOMAIN item.out # {}

\* What the method returns, from what its commands answered.
Answer(q, seen) ==
  LET item(verb) == seen[CHOOSE i \in DOMAIN seen : seen[i].verb = verb]
      asked(verb) == \E i \in DOMAIN seen : seen[i].verb = verb
      pins == IF asked("held") THEN Pins(item("held")) ELSE {}
      version(n) == LET r == seen[CHOOSE i \in DOMAIN seen : seen[i].verb = "query" /\ seen[i].name = n]
                    IN  IF r.hit THEN r.out ELSE 0
      offered(r) == IF ~r.hit THEN {} ELSE IF r.verb = "info" THEN {r.out} ELSE r.out
  IN  CASE q.op = "IsInstalled" -> seen[1].hit
        [] q.op = "InstalledVersion" -> version(q.name)
        [] q.op = "InstalledCount" -> Cardinality(DOMAIN seen[1].out)
        [] q.op = "Search" -> IF seen[1].hit THEN seen[1].out ELSE {}
        [] q.op = "List" -> parseList(item("all").out, pins)
        [] q.op = "ListUpgradable" ->
             {Row(n, IF asked("query") THEN version(n) ELSE seen[1].out[n], FALSE) :
                n \in IF seen[1].hit THEN DOMAIN seen[1].out ELSE {}}
        [] q.op = "HasUpdates" -> hasUpdates(seen[1])
        [] q.op = "Show" -> [installed |-> item("query").hit, pinned |-> q.name \in pins]
        [] q.op = "ListVersions" ->
             [installed |-> version(q.name),
              offered |-> offered(item(IF asked("info") THEN "info" ELSE "versions")) # {}]
        [] q.op = "IsPinned" -> q.name \in pins
        [] q.op = "ListPinned" -> {Row(n, version(n), TRUE) : n \in pins}
        [] q.op \in {"LocalPackageInfo", "Version", "ListRemotes"} -> seen[1].out
        [] OTHER -> "done"

Finish(c, job, ok, answer) ==
  /\ call' = [call EXCEPT ![c] = NoCall]
  /\ reply' = [reply EXCEPT ![c] =
       [ended |-> TRUE, ok |-> ok, answer |-> answer, torn |-> job.torn, deaf |-> job.deaf]]
Proceed(c, next) ==
  /\ call' = [call EXCEPT ![c] = next]
  /\ UNCHANGED reply

\* A method is called: its checks, and then its commands one by one.
StartCall(c) == \E q \in PkgCalls :
  /\ ~call[c].on /\ calls[c] < MaxPkgCalls
  /\ (q.op \in RemoteMethods) => (tool = "flatpak")
  /\ calls' = [calls EXCEPT ![c] = @ + 1]
  /\ LET plan == Manager(q)
         others == {d \in PkgCallers \ {c} : call[d].on}
         started == [on |-> TRUE, req |-> q, plan |-> plan, seen |-> <<>>, changed |-> <<>>,
                     failing |-> FALSE, held |-> host.held, alone |-> others = {},
                     torn |-> FALSE, deaf |-> FALSE]
     IN  IF plan \in {<<>>, RefusedPlan}
           THEN Finish(c, started, plan = <<>>, "done")
           ELSE /\ call' = [d \in PkgCallers |-> IF d = c THEN started
                              ELSE IF call[d].on THEN [call[d] EXCEPT !.alone = FALSE] ELSE call[d]]
                /\ reply' = [reply EXCEPT ![c] = NoReply]
  /\ UNCHANGED <<tool, host, cmdFaults>>

\* The codes of a failure that some backend reads as "no such thing": the tool's own, and -1.
Ambiguous(cmd, exit) == exit \in {Miss(cmd.verb), Signalled}

\* The next command of a call runs, and its caller reads the result.
RunCommand(c) ==
  /\ call[c].on
  /\ LET j == call[c]
         cmd == Head(j.plan)
         q == j.req
     IN \E r \in RunTool(cmd) :
          LET outcome == Outcome(cmd, r.exit)
              good == outcome \in {"hit", "miss"}
              item == [verb |-> cmd.verb, name |-> cmd.name, hit |-> outcome = "hit",
                       exit |-> r.exit, out |-> r.out]
              seen == IF good /\ ~Writes(cmd) THEN Append(j.seen, item) ELSE j.seen
              noted == [j EXCEPT !.seen = seen,
                                 !.changed = IF good /\ IsMask(q, cmd) THEN Append(@, cmd) ELSE @,
                                 !.torn = @ \/ (r.faulty /\ r.host # host) \/ (j.failing /\ r.faulty),
                                 !.deaf = @ \/ (outcome = "miss" /\ r.faulty /\ Ambiguous(cmd, r.exit))]
              rest == IF Writes(cmd) THEN Tail(j.plan)
                      ELSE AfterRead(q, item, Due(Tail(j.plan), seen))
          IN  /\ host' = r.host
              /\ cmdFaults' = IF r.faulty THEN cmdFaults + 1 ELSE cmdFaults
              /\ CASE j.failing /\ Tail(j.plan) # <<>> -> Proceed(c, [noted EXCEPT !.plan = Tail(@)])
                   [] j.failing /\ Tail(j.plan) = <<>> -> Finish(c, noted, FALSE, "done")
                   [] ~j.failing /\ good /\ rest = RefusedPlan -> Finish(c, noted, FALSE, "done")
                   [] ~j.failing /\ good /\ rest = <<>> -> Finish(c, noted, TRUE, Answer(q, seen))
                   [] ~j.failing /\ good -> Proceed(c, [noted EXCEPT !.plan = rest])
                   [] retriesAsDowngrade(q, cmd, outcome) ->
                        Proceed(c, [noted EXCEPT !.plan = <<[cmd EXCEPT !.verb = "downgrade"]>>])
                   [] IsMask(q, cmd) /\ j.changed # <<>> ->
                        Proceed(c, [noted EXCEPT !.plan = rollbackMasks(j.changed), !.failing = TRUE])
                   [] OTHER -> Finish(c, noted, FALSE, "done")
  /\ UNCHANGED <<tool, calls>>

PackagesNext == \E c \in PkgCallers : StartCall(c) \/ RunCommand(c)
----------------------------------------------------------------------------
(* Properties *)

\* What a query is asked, answered from the host itself.
Truth(q, h) ==
  CASE q.op = "IsInstalled" -> q.name \in InstalledOn(h)
    [] q.op = "InstalledVersion" -> h.installed[q.name]
    [] q.op = "InstalledCount" -> Cardinality(InstalledOn(h))
    [] q.op = "Search" -> {n \in {q.name} : h.index[n] > 0}
    [] q.op = "List" -> {Row(n, h.installed[n], n \in h.held) : n \in InstalledOn(h)}
    [] q.op = "ListUpgradable" -> {Row(n, h.installed[n], FALSE) : n \in Upgradable(h)}
    [] q.op = "HasUpdates" -> Upgradable(h) # {}
    [] q.op = "Show" -> [installed |-> q.name \in InstalledOn(h),
                         pinned |-> q.name \in h.held /\ (tool = "flatpak" => q.name \in InstalledOn(h))]
    [] q.op = "ListVersions" -> [installed |-> h.installed[q.name], offered |-> h.index[q.name] > 0]
    [] q.op = "IsPinned" -> q.name \in h.held
    [] q.op = "ListPinned" -> {Row(n, h.installed[n], TRUE) : n \in h.held}
Asks == {"IsInstalled", "InstalledVersion", "InstalledCount", "Search", "List", "ListUpgradable",
         "HasUpdates", "Show", "ListVersions", "IsPinned", "ListPinned"}
\* dpkg knows a removed package until it is purged, and these methods take it for an installed one.
CountsResidue == {"IsInstalled", "InstalledVersion", "InstalledCount", "Show", "ListVersions", "ListPinned"}

Ends(c) == call[c].on /\ ~call'[c].on
\* A query that returns without an error returns what holds on the host, whichever backend answers
\* and whichever of its commands fails: a failure is not taken for an empty answer ([SDK-15]), as far
\* as the exit code lets the SDK tell.  Left out, and described in the README: a read that failed
\* with the very code the SDK reads as "no such thing" (1 from most of the tools,
\* 104 from a search of zypper), a listing of pins ended by a signal, which zypper and flatpak take for
\* "no pins", and the apt queries that count unpurged packages.
AnswersTrue ==
  [][\A c \in PkgCallers :
       LET j == call[c] IN
       (/\ Ends(c) /\ reply'[c].ok /\ j.alone /\ ~reply'[c].deaf
        /\ j.req.op \in IF host.residue = {} THEN Asks ELSE Asks \ CountsResidue)
         => reply'[c].answer = Truth(j.req, host)]_pkgVars

\* A Pin or Unpin that no other call overlaps is all or nothing on every backend: it returns success
\* with exactly the named packages pinned or released, or an error with every pin as it was found.
\* Not claimed when a command was cut off after it had taken effect, when a compensation failed,
\* or when the listing it started from was ended by a signal (flatpak).
PinsSettle ==
  [][\A c \in PkgCallers :
       LET j == call[c] IN
       (Ends(c) /\ j.req.op \in {"Pin", "Unpin"} /\ j.alone /\ ~reply'[c].torn
          /\ ~reply'[c].deaf) =>
         host'.held = CASE ~reply'[c].ok -> j.held
                        [] j.req.op = "Pin" -> j.held \cup j.req.names
                        [] OTHER -> j.held \ j.req.names]_pkgVars
============================================================================
