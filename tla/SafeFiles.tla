------------------------------ MODULE SafeFiles ------------------------------
(***************************************************************************)
(* The file side of the device SDK: atomic replacement of files, policy    *)
(* files applied as a transaction with compensation, directory trees, and  *)
(* the agent's credential file, which is written with the same primitives. *)
(*                                                                         *)
(* Callers run concurrently on one host.  On the direct backend a call is  *)
(* a series of system calls; on the escalated backend (sudo, doas) it is a *)
(* series of commands, and a command that is cancelled may have taken      *)
(* effect although its runner reports an error.  The host may crash: a     *)
(* directory entry survives as it was last synced or as it stands, and a   *)
(* file whose data was not synced comes back torn.                         *)
(***************************************************************************)
EXTENDS Integers, Sequences, FiniteSets, Functions, TLC

CONSTANTS Callers,      \* concurrent calls of the SDK
          FileCalls,    \* the calls they make: [op, path, ...]
          Entries,      \* initial directory: path -> entry
          Leaf,         \* directory -> the entry inside it that the run uses
          SafeDirs,     \* directories that are root-owned and not group- or other-writable
          ParentOf,     \* path -> the directory that holds it
          Protected,    \* paths under a protected prefix
          Surface,      \* policy path -> its row of policySurfaceTable
          Credential,   \* path of the agent's credential bundle
          Rejected,     \* lines a validator refuses
          KnownOwners,  \* owners that resolve to a uid
          MaxFileCalls, MaxFaults, MaxCrashes

VARIABLES backend,   \* "direct" or "escalated"
          dir,       \* path -> entry, as programs see it
          durable,   \* path -> entry, as last synced
          scratch,   \* each caller's unpublished files: [temp, cand]
          job,       \* each caller's call
          outcome,   \* how each caller's last call ended
          stored,    \* a credential bundle was stored and survived so far
          done, faults, crashes

fileVars == <<backend, dir, durable, scratch, job, outcome, stored, done, faults, crashes>>

Paths == DOMAIN Entries
Torn == "torn"
Entry(kind, lines, mode, owner, synced, to) ==
  [kind |-> kind, lines |-> lines, mode |-> mode, owner |-> owner, synced |-> synced, to |-> to]
NoEntry == Entry("none", <<>>, "", "", TRUE, "")
Directory == Entry("dir", <<>>, "0755", "root", TRUE, "")
Present(e) == e.kind # "none"
Idle == [pc |-> "idle"]

FilesInit ==
  /\ backend \in {"direct", "escalated"}
  /\ dir = Entries
  /\ durable = Entries
  /\ scratch = [c \in Callers |-> [temp |-> NoEntry, cand |-> NoEntry]]
  /\ job = [c \in Callers |-> Idle]
  /\ outcome = [c \in Callers |-> "none"]
  /\ stored = FALSE
  /\ done = [c \in Callers |-> 0]
  /\ faults = 0
  /\ crashes = 0
----------------------------------------------------------------------------
(* Checks made before an effect *)

ResolveAndValidatePath(p) == IF dir[p].kind = "link" THEN dir[p].to ELSE p
validateMode(mode) == mode # "setuid"
parentDirSafe(d) == d \in SafeDirs
IsUnderProtectedPrefix(p) == p \in Protected

ResolvesUnderProtectedPrefix(p) == IsUnderProtectedPrefix(ResolveAndValidatePath(p))

\* The deepest existing ancestor of a path that is to be created.
createAnchorSafe(p) ==
  LET d == ParentOf[p]
  IN  IF d \in Paths /\ ~Present(dir[d]) THEN parentDirSafe(ParentOf[d]) ELSE parentDirSafe(d)
----------------------------------------------------------------------------
(* Reads *)

ReadFile(e) ==
  [found |-> e.kind = "file", error |-> e.kind \in {"dir", "link"}, lines |-> e.lines]

validateRootOnlyFileInfo(e, mode) == e.kind = "file" /\ e.owner = "root" /\ e.mode = mode
ReadRootFile(p, mode) ==
  [ok |-> parentDirSafe(ParentOf[p]) /\ validateRootOnlyFileInfo(dir[p], mode), lines |-> dir[p].lines]

decodeStoredCredentialBundle(lines) == Len(lines) = 1 /\ Torn \notin Range(lines)
Load ==
  LET file == ReadRootFile(Credential, "0600")
  IN  [ok |-> file.ok /\ decodeStoredCredentialBundle(file.lines), lines |-> file.lines]
----------------------------------------------------------------------------
(* Policy files: the closed table of surfaces, and what a desired state    *)
(* makes of the current one.  Content is a sequence of lines.              *)

policySurface(p) == Surface[p]
policyFileMode(row) == IF row = "sudoers" THEN "0440" ELSE "0644"
readPolicyState(p) ==
  LET read == ReadFile(dir[p]) IN [present |-> read.found, lines |-> read.lines]
samePolicyState(a, b) == a.present = b.present /\ (a.present => a.lines = b.lines)

policyMarkerSpans(lines, marker) == {i \in DOMAIN lines : lines[i] = marker}
policyBlockBytes(desired) == <<desired.begin>> \o desired.lines \o <<desired.end>>
validatePolicyMarkers(desired) == desired.begin # desired.end
Malformed == [error |-> TRUE]
Rendered(present, lines) == [error |-> FALSE, present |-> present, lines |-> lines]

renderPolicyBlock(current, desired) ==
  LET begins == policyMarkerSpans(current.lines, desired.begin)
      ends == policyMarkerSpans(current.lines, desired.end)
      b == CHOOSE i \in begins : TRUE
      e == CHOOSE i \in ends : TRUE
      block == IF desired.present THEN policyBlockBytes(desired) ELSE <<>>
  IN  CASE begins = {} /\ ends = {} -> Rendered(TRUE, current.lines \o block)
        [] Cardinality(begins) # 1 \/ Cardinality(ends) # 1 -> Malformed
        [] b >= e -> Malformed
        [] OTHER -> Rendered(TRUE, SubSeq(current.lines, 1, b - 1) \o block
                                   \o SubSeq(current.lines, e + 1, Len(current.lines)))

renderPolicyState(desired, current) ==
  CASE ~desired.present /\ desired.lines # <<>> -> Malformed
    [] "begin" \notin DOMAIN desired -> Rendered(desired.present, desired.lines)
    [] ~validatePolicyMarkers(desired) -> Malformed
    [] Range(desired.lines) \cap {desired.begin, desired.end} # {} -> Malformed
    [] ~current.present /\ ~desired.present -> Rendered(FALSE, <<>>)
    [] OTHER -> renderPolicyBlock(current, desired)

validatePolicyTarget(p) == parentDirSafe(ParentOf[p]) /\ dir[p].kind # "link"
Accepted(lines) == Range(lines) \cap (Rejected \cup {Torn}) = {}
----------------------------------------------------------------------------
(* The state a call starts in.  A refused call ends at once. *)

Refused == [pc |-> "refused"]
\* A file written in one go: where, what, with which mode and owner, and what follows.
Write(q, pc, p, then) ==
  [pc |-> pc, req |-> q, target |-> p, dest |-> p, lines |-> q.lines, mode |-> q.mode,
   slot |-> "temp", then |-> then]
Effect(q, pc, p) == [pc |-> pc, req |-> q, target |-> p, then |-> "return"]
Owner(q) == IF "owner" \in DOMAIN q THEN q.owner ELSE ""

\* The backup is vetted as spelled: resolving it would follow a link at its name.
WriteFileFrom(q) ==
  LET p == ResolveAndValidatePath(q.path)
  IN  IF /\ validateMode(q.mode)
         /\ parentDirSafe(ParentOf[p])
         /\ q.backup # "" => q.backup \notin {p, q.path} /\ parentDirSafe(ParentOf[q.backup])
      THEN Write(q, IF q.backup # "" THEN "backup" ELSE "create", p,
                 IF backend = "direct" /\ q.owner # "" THEN "own" ELSE "return")
      ELSE Refused

resolveRootFilePath(q) == validateMode(q.mode) /\ parentDirSafe(ParentOf[q.path])
WriteFileAtomic(q) == IF resolveRootFilePath(q) THEN Write(q, "create", q.path, "return") ELSE Refused
WriteFileNew(q) ==
  IF validateMode(q.mode) /\ parentDirSafe(ParentOf[q.path])
  THEN Write(q, "create", q.path, "return") ELSE Refused

\* The agent's store encodes a valid bundle whole before it writes.
Create(bundle) == WriteFileNew(bundle @@ [mode |-> "0600"])
Replace(bundle) == WriteFileAtomic(bundle @@ [mode |-> "0600"])

ApplyPolicyFile(q) ==
  IF validatePolicyTarget(q.path) THEN Effect(q, "read", q.path) ELSE Refused

Remove(q) ==
  LET p == ResolveAndValidatePath(q.path)
  IN  IF \/ backend = "direct" /\ dir[p].kind = "dir"
         \/ backend = "escalated" /\ ~parentDirSafe(ParentOf[p])
      THEN Refused ELSE Effect(q, "remove", p)

RemoveDir(q) ==
  IF \/ ResolvesUnderProtectedPrefix(q.path)
     \/ backend = "escalated" /\ (dir[q.path].kind = "link" \/ ~parentDirSafe(ParentOf[q.path]))
  THEN Refused ELSE Effect(q, "list", q.path)

Mkdir(q) ==
  LET p == ResolveAndValidatePath(q.path)
  IN  IF ~validateMode(q.mode) \/ IsUnderProtectedPrefix(p) \/ ~createAnchorSafe(p)
      THEN Refused ELSE Effect(q, "mkdir", p)

Copy(q) == IF parentDirSafe(ParentOf[q.dst]) THEN Effect(q, "unlink", q.dst) ELSE Refused
CopyTree(q) ==
  LET p == ResolveAndValidatePath(q.dst)
  IN  IF IsUnderProtectedPrefix(p) \/ ~createAnchorSafe(p) THEN Refused ELSE Effect(q, "tree", p)

SetMode(q) ==
  LET p == ResolveAndValidatePath(q.path)
  IN  IF validateMode(q.mode) /\ (backend = "escalated" => parentDirSafe(ParentOf[p]))
      THEN Effect(q, "chmod", p) ELSE Refused

SetOwnership(q) ==
  LET p == ResolveAndValidatePath(q.path)
  IN  IF (backend = "direct" => q.owner \in KnownOwners)
         /\ (backend = "escalated" => parentDirSafe(ParentOf[p]))
      THEN Effect(q, "chown", p) ELSE Refused

\* The path vetted as it is spelled.
MutSetOwnershipRecursive(q) ==
  IF IsUnderProtectedPrefix(q.path) \/ ~parentDirSafe(ParentOf[q.path])
  THEN Refused ELSE Effect(q, "chownAll", q.path)

SetOwnershipRecursive(q) ==
  LET p == ResolveAndValidatePath(q.path)
  IN  IF IsUnderProtectedPrefix(p) \/ ~parentDirSafe(ParentOf[p])
      THEN Refused ELSE Effect(q, "chownAll", p)

Start(q) ==
  CASE q.op = "WriteFile" -> WriteFileFrom(q)
    [] q.op = "WriteFileAtomic" -> WriteFileAtomic(q)
    [] q.op = "WriteFileNew" -> WriteFileNew(q)
    [] q.op = "Create" -> Create(q)
    [] q.op = "Replace" -> Replace(q)
    [] q.op = "ApplyPolicyFile" -> ApplyPolicyFile(q)
    [] q.op = "Remove" -> Remove(q)
    [] q.op = "RemoveDir" -> RemoveDir(q)
    [] q.op = "Mkdir" -> Mkdir(q)
    [] q.op = "Copy" -> Copy(q)
    [] q.op = "CopyTree" -> CopyTree(q)
    [] q.op = "SetMode" -> SetMode(q)
    [] q.op = "SetOwnership" -> SetOwnership(q)
    [] q.op = "SetOwnershipRecursive" -> SetOwnershipRecursive(q)
----------------------------------------------------------------------------
(* How a call moves *)

\* A system call fails without effect.  A command may also be cancelled after its effect.
exec(command) ==
  {[effect |-> TRUE, error |-> FALSE]}
  \cup IF faults < MaxFaults
       THEN {[effect |-> e, error |-> TRUE] : e \in IF command THEN BOOLEAN ELSE {FALSE}}
       ELSE {}
Spend(r) == faults' = faults + (IF r.error THEN 1 ELSE 0)
\* The root-file functions take no runner: they are system calls on every backend.
escalated(c) ==
  backend = "escalated" /\ job[c].req.op \notin {"WriteFileAtomic", "WriteFileNew", "Create", "Replace"}

Begin(c) ==
  /\ job[c] = Idle
  /\ done[c] < MaxFileCalls
  /\ \E q \in FileCalls :
       LET started == Start(q)
           refused == started = Refused
           others == {d \in Callers \ {c} : job[d] # Idle}
       IN  /\ outcome' = [outcome EXCEPT ![c] = IF refused THEN "error" ELSE "none"]
           /\ job' = [d \in Callers |->
                CASE refused -> job[d]
                  [] d = c -> started @@ [before |-> dir[started.target], alone |-> others = {},
                                          spoiled |-> FALSE]
                  [] d \in others -> [job[d] EXCEPT !.alone = FALSE]
                  [] OTHER -> job[d]]
  /\ done' = [done EXCEPT ![c] = @ + 1]
  /\ UNCHANGED <<backend, dir, durable, scratch, stored, faults, crashes>>

At(c, pc) == job[c].pc = pc
Set(c, j) == job' = [job EXCEPT ![c] = j] /\ UNCHANGED <<outcome, stored>>
Goto(c, pc) == Set(c, [job[c] EXCEPT !.pc = pc])
Return(c, ending) ==
  /\ job' = [job EXCEPT ![c] = Idle]
  /\ outcome' = [outcome EXCEPT ![c] = ending]
  /\ stored' = (stored \/ (ending = "ok" /\ job[c].req.op \in {"Create", "Replace"}))

\* An error while a compensation runs is reported, and the other compensations still run.
Fail(c) ==
  IF job[c].then = "undo" THEN Set(c, [job[c] EXCEPT !.pc = "undo", !.spoiled = TRUE])
  ELSE Return(c, "error")

\* What follows a completed write: the write the backup was made for, its owner, a compensation.
Continue(c) ==
  LET q == job[c].req
  IN  CASE job[c].then = "main" ->
             Set(c, [job[c] EXCEPT !.pc = "create", !.dest = job[c].target, !.lines = q.lines,
                                   !.mode = q.mode, !.then = IF q.owner # "" THEN "own" ELSE "return"])
        [] job[c].then = "return" -> Return(c, "ok")
        [] OTHER -> Goto(c, job[c].then)

Still == UNCHANGED <<backend, done, crashes>>
----------------------------------------------------------------------------
(* Writing a file: a temporary sibling, its content, its mode and its      *)
(* data on disk, then one rename.  The escalated script sets the owner on  *)
(* the temporary and syncs nothing.                                        *)

TempStep(c, from, to, file) ==
  /\ At(c, from)
  /\ \E r \in exec(FALSE) :
       /\ scratch' = [scratch EXCEPT ![c][job[c].slot] = IF r.error THEN NoEntry ELSE file]
       /\ IF r.error THEN Fail(c) ELSE Goto(c, to)
       /\ Spend(r)
  /\ UNCHANGED <<dir, durable>> /\ Still

\* The mode set and the data left in the page cache.
MutSyncTemp(c) ==
  TempStep(c, "sync", IF job[c].slot = "cand" THEN "validate" ELSE "rename",
           [scratch[c][job[c].slot] EXCEPT !.mode = job[c].mode])

CreateTemp(c) == TempStep(c, "create", "copy", Entry("file", <<Torn>>, "0600", "root", FALSE, ""))
FillTemp(c) == TempStep(c, "copy", "sync", [scratch[c][job[c].slot] EXCEPT !.lines = job[c].lines])
SyncTemp(c) ==
  TempStep(c, "sync", IF job[c].slot = "cand" THEN "validate" ELSE "rename",
           [scratch[c][job[c].slot] EXCEPT
             !.mode = job[c].mode, !.synced = ~escalated(c),
             !.owner = IF escalated(c) /\ Owner(job[c].req) # "" THEN Owner(job[c].req) ELSE @])
writeTempFrom(c) == CreateTemp(c) \/ FillTemp(c) \/ SyncTemp(c)

NoReplace(c) == job[c].req.op \in {"WriteFileNew", "Create"}
safeRename(c) ==
  /\ At(c, "rename")
  /\ \E r \in exec(escalated(c)) :
       LET to == dir[job[c].dest]
           clash == to.kind = "dir" \/ (NoReplace(c) /\ Present(to))
       IN  /\ dir' = IF r.effect /\ ~clash
                    THEN [dir EXCEPT ![job[c].dest] = scratch[c].temp] ELSE dir
           /\ scratch' = [scratch EXCEPT ![c].temp = NoEntry]
           /\ CASE r.error \/ clash -> Fail(c)
                [] ~escalated(c) -> Goto(c, "dirsync")
                [] OTHER -> Continue(c)
           /\ Spend(r)
  /\ UNCHANGED durable /\ Still

\* A failed directory sync does not fail a completed replacement.
SyncDirectory(c) ==
  /\ At(c, "dirsync")
  /\ \E r \in exec(FALSE) : durable' = (IF r.error THEN durable ELSE dir) /\ Spend(r)
  /\ Continue(c)
  /\ UNCHANGED <<dir, scratch>> /\ Still
replaceFileFrom(c) == writeTempFrom(c) \/ safeRename(c) \/ SyncDirectory(c)

\* The backup is a replacement of its own, with the target's content and mode.
BackupDirect(c) ==
  /\ At(c, "backup") /\ ~escalated(c)
  /\ LET old == dir[job[c].target]
     IN  CASE ~Present(old) -> Goto(c, "create")
           [] old.kind # "file" -> Return(c, "error")
           [] OTHER -> Set(c, [job[c] EXCEPT !.pc = "create", !.dest = job[c].req.backup,
                                             !.lines = old.lines, !.mode = old.mode, !.then = "main"])
  /\ UNCHANGED <<dir, durable, scratch, faults>> /\ Still

\* The script copies over the backup in place: one that is cut off leaves part of it.
CopyBackup(c) ==
  /\ At(c, "backup") /\ escalated(c)
  /\ LET b == job[c].req.backup
         old == dir[job[c].target]
     IN  CASE dir[b].kind \in {"link", "dir"} \/ old.kind \in {"link", "dir"} ->
                Return(c, "error") /\ UNCHANGED <<dir, faults>>
           [] ~Present(old) -> Goto(c, "create") /\ UNCHANGED <<dir, faults>>
           [] OTHER -> \E r \in exec(FALSE) :
                /\ dir' = [dir EXCEPT ![b] = [old EXCEPT !.synced = FALSE,
                                                         !.lines = IF r.error THEN <<Torn>> ELSE @]]
                /\ IF r.error THEN Return(c, "error") ELSE Goto(c, "create")
                /\ Spend(r)
  /\ UNCHANGED <<durable, scratch>> /\ Still

\* The direct backend sets the owner on the file it has already published.
FchownNoFollow(c) ==
  /\ At(c, "own")
  /\ LET p == job[c].target
         chowns == Owner(job[c].req) \in KnownOwners /\ dir[p].kind = "file"
     IN  \E r \in exec(FALSE) :
           /\ dir' = IF chowns /\ ~r.error THEN [dir EXCEPT ![p].owner = Owner(job[c].req)] ELSE dir
           /\ Return(c, IF chowns /\ ~r.error THEN "ok" ELSE "error")
           /\ Spend(r)
  /\ UNCHANGED <<durable, scratch>> /\ Still

writeFile(c) == BackupDirect(c) \/ CopyBackup(c) \/ replaceFileFrom(c) \/ FchownNoFollow(c)
----------------------------------------------------------------------------
(* A policy file: read and render, write a candidate beside the target,    *)
(* validate that candidate, publish or remove, reload.  A failure          *)
(* compensates the steps that succeeded, in reverse.                       *)

ReadPolicy(c) ==
  /\ At(c, "read")
  /\ LET p == job[c].target
         current == readPolicyState(p)
         desired == renderPolicyState(job[c].req.desired, current)
     IN  \E r \in exec(FALSE) :
           /\ CASE r.error \/ ReadFile(dir[p]).error \/ desired.error -> Return(c, "error")
                [] samePolicyState(current, desired) -> Return(c, "ok")
                [] OTHER -> Set(c, [job[c] EXCEPT !.pc = "create"] @@
                     [slot |-> "cand", dest |-> p, lines |-> desired.lines,
                      mode |-> policyFileMode(policySurface(p)), current |-> current,
                      desired |-> desired])
           /\ Spend(r)
  /\ UNCHANGED <<dir, durable, scratch>> /\ Still

\* The validator's exit code ignored.
MutValidatePolicyCandidate(c) ==
  /\ At(c, "validate")
  /\ Goto(c, IF job[c].desired.present THEN "swap" ELSE "discard")
  /\ UNCHANGED <<dir, durable, scratch, faults>> /\ Still

validatePolicyCandidate(c) ==
  /\ At(c, "validate")
  /\ \E r \in exec(FALSE) :
       /\ Goto(c, CASE r.error \/ ~Accepted(scratch[c].cand.lines) -> "undo"
                    [] job[c].desired.present -> "swap"
                    [] OTHER -> "discard")
       /\ Spend(r)
  /\ UNCHANGED <<dir, durable, scratch>> /\ Still

discardCandidate(c) ==
  /\ At(c, "discard")
  /\ \E r \in exec(escalated(c)) :
       /\ scratch' = [scratch EXCEPT ![c].cand = IF r.effect THEN NoEntry ELSE @]
       /\ Goto(c, IF r.error THEN "undo" ELSE "swap")
       /\ Spend(r)
  /\ UNCHANGED <<dir, durable>> /\ Still

\* A failed swap leaves the target as the failure left it.
MutSwapPolicyCandidate(c) ==
  /\ At(c, "swap")
  /\ \E r \in exec(escalated(c)) :
       /\ dir' = IF r.effect THEN [dir EXCEPT ![job[c].target] = scratch[c].cand] ELSE dir
       /\ scratch' = [scratch EXCEPT ![c].cand = IF r.effect THEN NoEntry ELSE @]
       /\ CASE r.error -> Goto(c, "undo")
            [] policySurface(job[c].target) = "sudoers" -> Return(c, "ok")
            [] OTHER -> Goto(c, "reload")
       /\ Spend(r)
  /\ UNCHANGED durable /\ Still

\* Publishing renames the candidate.  Removing has no candidate left, and removes the target.
swapPolicyCandidate(c) ==
  /\ At(c, "swap")
  /\ \E r \in exec(escalated(c)) :
       LET clash == dir[job[c].target].kind = "dir"
           moves == r.effect /\ ~clash
       IN  /\ dir' = IF moves THEN [dir EXCEPT ![job[c].target] = scratch[c].cand] ELSE dir
           /\ scratch' = [scratch EXCEPT ![c].cand = IF moves THEN NoEntry ELSE @]
           /\ CASE r.error \/ clash -> Goto(c, "restore")
                [] policySurface(job[c].target) = "sudoers" -> Return(c, "ok")
                [] OTHER -> Goto(c, "reload")
           /\ Spend(r)
  /\ UNCHANGED durable /\ Still

reloadPolicySurface(c) ==
  /\ At(c, "reload")
  /\ \E r \in exec(FALSE) :
       /\ IF r.error THEN Goto(c, "restore") ELSE Return(c, "ok")
       /\ Spend(r)
  /\ UNCHANGED <<dir, durable, scratch>> /\ Still

\* Back to the state that was read: removed, or written again under its policy mode.
restorePolicyState(c) ==
  /\ At(c, "restore")
  /\ LET p == job[c].target
         back == job[c].current
     IN  IF back.present
         THEN /\ Set(c, [job[c] EXCEPT !.pc = "create", !.slot = "temp", !.lines = back.lines,
                                       !.then = "undo"])
              /\ UNCHANGED <<dir, faults>>
         ELSE \E r \in exec(escalated(c)) :
                LET clash == dir[p].kind = "dir"
                IN  /\ dir' = IF r.effect /\ ~clash THEN [dir EXCEPT ![p] = NoEntry] ELSE dir
                    /\ Set(c, [job[c] EXCEPT !.pc = "undo", !.spoiled = @ \/ r.error \/ clash])
                    /\ Spend(r)
  /\ UNCHANGED <<durable, scratch>> /\ Still

RemoveCandidate(c) ==
  /\ At(c, "undo")
  /\ scratch' = [scratch EXCEPT ![c].cand = NoEntry]
  /\ Return(c, "error")
  /\ UNCHANGED <<dir, durable, faults>> /\ Still

policyTransaction(c) ==
  \/ ReadPolicy(c) \/ validatePolicyCandidate(c) \/ discardCandidate(c) \/ swapPolicyCandidate(c)
  \/ reloadPolicySurface(c) \/ restorePolicyState(c) \/ RemoveCandidate(c)
----------------------------------------------------------------------------
(* Entries and trees *)

\* One command or system call, which fails when the directory does not allow it.
Apply(c, from, to, command, fails, new) ==
  /\ At(c, from)
  /\ \E r \in exec(command) :
       /\ dir' = IF r.effect /\ ~fails THEN new ELSE dir
       /\ CASE r.error \/ fails -> Return(c, "error")
            [] to = "return" -> Return(c, "ok")
            [] OTHER -> Goto(c, to)
       /\ Spend(r)
  /\ UNCHANGED <<durable, scratch>> /\ Still

LeafOf(p) == {Leaf[d] : d \in {p} \cap DOMAIN Leaf}
Full(p) == \E l \in LeafOf(p) : Present(dir[l])
Without(S) == [p \in Paths |-> IF p \in S THEN NoEntry ELSE dir[p]]
Follow(p) == IF dir[p].kind = "link" THEN dir[p].to ELSE p

RemoveEntry(c) ==
  LET p == job[c].target
  IN  Apply(c, "remove", "return", escalated(c),
            dir[p].kind = "dir" /\ (escalated(c) \/ Full(p)), Without({p}))

\* The walk reads the names of a level once.  `rm -rf` accepts a missing path or a plain file.
ListDirectory(c) ==
  LET p == job[c].target
  IN  /\ At(c, "list")
      /\ CASE dir[p].kind = "dir" ->
                /\ Set(c, [job[c] EXCEPT !.pc = "children"] @@ [names |-> {l \in LeafOf(p) : Present(dir[l])}])
                /\ UNCHANGED dir
           [] escalated(c) /\ dir[p].kind # "dir" -> dir' = Without({p}) /\ Return(c, "ok")
           [] OTHER -> Return(c, "error") /\ UNCHANGED dir
      /\ UNCHANGED <<durable, scratch, faults>> /\ Still
UnlinkChildren(c) ==
  LET names == IF At(c, "children") THEN job[c].names ELSE {}
  IN  Apply(c, "children", "rmdir", escalated(c),
            ~escalated(c) /\ \E l \in names : ~Present(dir[l]), Without(names))
RemoveDirectory(c) ==
  LET p == job[c].target
  IN  Apply(c, "rmdir", "return", escalated(c),
            Full(p) \/ (~escalated(c) /\ dir[p].kind # "dir"), Without({p}))
removeAtRecursive(c) == ListDirectory(c) \/ UnlinkChildren(c) \/ RemoveDirectory(c)

MakeDirectory(c) ==
  LET q == job[c].req
      p == job[c].target
      missing == {d \in {ParentOf[p]} \cap Paths : ~Present(dir[d])}
      new == {p} \cup missing
  IN  Apply(c, "mkdir", IF q.owner # "" THEN "chown" ELSE "return", TRUE,
            \/ Present(dir[p]) /\ ~(q.recursive /\ dir[p].kind = "dir")
            \/ missing # {} /\ ~q.recursive,
            [n \in Paths |-> IF n \in new /\ ~Present(dir[n]) THEN Directory ELSE dir[n]])

\* cp unlinks the destination, then fills it.  Nothing is synced.
Copied(p) == [dir[Follow(p)] EXCEPT !.synced = FALSE]
CopyUnlink(c) ==
  LET q == job[c].req
  IN  Apply(c, "unlink", "fill", TRUE, dir[Follow(q.src)].kind # "file", Without({q.dst}))
CopyFill(c) ==
  LET q == job[c].req
  IN  Apply(c, "fill", "return", TRUE, dir[Follow(q.src)].kind # "file",
            [dir EXCEPT ![q.dst] = Copied(q.src)])
CopyRoot(c) ==
  LET p == job[c].target
  IN  Apply(c, "tree", "leaves", TRUE, dir[job[c].req.src].kind # "dir" \/ dir[p].kind \notin {"none", "dir"},
            [dir EXCEPT ![p] = Directory])
CopyLeaves(c) ==
  LET q == job[c].req
      p == job[c].target
  IN  Apply(c, "leaves", "return", TRUE, FALSE,
            [n \in Paths |-> IF n \in LeafOf(p) /\ Full(q.src) THEN Copied(Leaf[q.src]) ELSE dir[n]])

Chmod(c) ==
  LET p == job[c].target
  IN  Apply(c, "chmod", "return", escalated(c), ~Present(dir[p]),
            [dir EXCEPT ![p].mode = job[c].req.mode])
Chown(c) ==
  LET p == job[c].target
  IN  Apply(c, "chown", "return", escalated(c), ~Present(dir[p]) \/ Owner(job[c].req) \notin KnownOwners,
            [dir EXCEPT ![p].owner = Owner(job[c].req)])
ChownTree(c) ==
  LET p == Follow(job[c].target)
      tree == {p} \cup {l \in LeafOf(p) : Present(dir[l])}
  IN  Apply(c, "chownAll", "return", TRUE, ~Present(dir[p]) \/ Owner(job[c].req) \notin KnownOwners,
            [n \in Paths |-> IF n \in tree THEN [dir[n] EXCEPT !.owner = Owner(job[c].req)] ELSE dir[n]])
treeOperation(c) ==
  \/ RemoveEntry(c) \/ removeAtRecursive(c) \/ MakeDirectory(c) \/ CopyUnlink(c) \/ CopyFill(c)
  \/ CopyRoot(c) \/ CopyLeaves(c) \/ Chmod(c) \/ Chown(c) \/ ChownTree(c)
----------------------------------------------------------------------------
\* The host stops.  What was not synced may or may not be there; an entry needs its directory.
Crash ==
  /\ crashes < MaxCrashes
  /\ \E kept \in SUBSET {p \in Paths : dir[p] # durable[p]} :
       LET found == [p \in Paths |-> IF p \in kept THEN dir[p] ELSE durable[p]]
       IN  /\ \A d \in DOMAIN Leaf : Present(found[Leaf[d]]) => Present(found[d])
           /\ \E torn \in SUBSET {p \in Paths : found[p].kind = "file" /\ ~found[p].synced} :
                dir' = [p \in Paths |-> IF p \in torn THEN [found[p] EXCEPT !.lines = <<Torn>>, !.synced = TRUE]
                                       ELSE [found[p] EXCEPT !.synced = TRUE]]
  /\ durable' = dir'
  /\ stored' = (stored /\ Present(durable[Credential]))
  /\ scratch' = [c \in Callers |-> [temp |-> NoEntry, cand |-> NoEntry]]
  /\ job' = [c \in Callers |-> Idle]
  /\ outcome' = [c \in Callers |-> "none"]
  /\ crashes' = crashes + 1
  /\ UNCHANGED <<backend, done, faults>>

FilesNext ==
  \/ \E c \in Callers : Begin(c) \/ writeFile(c) \/ policyTransaction(c) \/ treeOperation(c)
  \/ Crash
----------------------------------------------------------------------------
(* Properties *)

Managed == DOMAIN Surface \cup {Credential} \cup {q.path : q \in {r \in FileCalls : r.op = "WriteFile"}}

\* At no instant, with calls of several callers under way, is a file that WriteFile, ApplyPolicyFile
\* or the credential store maintains partly written, a live policy file one its validator refuses, or
\* the credential file readable by others.  A crash keeps this on the direct backend; the
\* escalated scripts sync nothing.
FilesWhole ==
  (backend = "direct" \/ crashes = 0) =>
    /\ \A p \in Managed : Torn \notin Range(dir[p].lines)
    /\ \A p \in DOMAIN Surface : Accepted(dir[p].lines)
    /\ dir[Credential].kind = "file" => dir[Credential].mode = "0600"

\* A call that reports an error has left its target as it found it, in kind and content (a policy
\* file that is put back gets the mode of its surface, whichever it had): for ApplyPolicyFile on every
\* backend, whichever step failed and even when a cancelled command had taken effect, and for the
\* atomic replacements made of system calls.  Left out are calls that overlapped with another, a
\* compensation that itself failed, and WriteFile with an owner, which publishes before it chowns.
RestoresTarget(c) ==
  LET q == job[c].req
  IN  \/ q.op \in {"ApplyPolicyFile", "WriteFileAtomic", "WriteFileNew", "Create", "Replace"}
      \/ q.op = "WriteFile" /\ backend = "direct" /\ q.owner = ""
FailedCallsKeepTarget ==
  [][\A c \in Callers :
       (job[c] # Idle /\ outcome'[c] = "error" /\ outcome[c] # "error") =>
         (RestoresTarget(c) /\ job[c].alone /\ ~job[c].spoiled =>
            LET before == job[c].before
                after == dir'[job[c].target]
            IN  after.kind = before.kind /\ after.lines = before.lines)]_fileVars

\* A credential bundle whose Create or Replace returned, and whose directory entry reached the disk,
\* is loaded again after any crash: whole, root-owned and mode 0600.
CredentialsKept == stored => Load.ok

\* No tree operation, on either backend, changes an entry under a protected prefix, also when its
\* path is a link that leads there.
ProtectedKept ==
  [][\A c \in Callers :
       (job[c] # Idle /\ job'[c] # job[c] /\ crashes' = crashes) =>
         (job[c].req.op \in {"RemoveDir", "Mkdir", "CopyTree", "SetOwnershipRecursive"} =>
            \A p \in Protected : dir'[p] = dir[p])]_fileVars
=============================================================================
