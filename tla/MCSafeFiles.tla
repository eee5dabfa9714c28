----------------------------- MODULE MCSafeFiles -----------------------------
EXTENDS SafeFiles

File(lines, mode) == Entry("file", lines, mode, "root", TRUE, "")

\* /etc/sudoers.d/p, /etc/ssh/sshd_config, a configuration file and its backup, the credential
\* bundle, and two trees: one under /srv with a link beside it, one under a protected prefix.
MCEntries == [ sudo |-> NoEntry, sshd |-> File(<<"port", "#b", "was", "#e">>, "0644"),
               conf |-> File(<<"old">>, "0644"), bak |-> NoEntry, cred |-> NoEntry,
               tree |-> Directory, leaf |-> File(<<"leaf">>, "0644"), new |-> NoEntry, newLeaf |-> NoEntry,
               ln |-> Entry("link", <<>>, "0777", "root", TRUE, "etc"), etc |-> Directory ]
MCLeaf == [tree |-> "leaf", new |-> "newLeaf"]
MCParentOf == [p \in DOMAIN MCEntries |->
                 CASE p = "leaf" -> "tree" [] p = "newLeaf" -> "new"
                   [] p \in {"tree", "new", "ln"} -> "srv" [] OTHER -> "safe"]
MCSurface == [sudo |-> "sudoers", sshd |-> "sshd"]

Desired(present, lines) == [present |-> present, lines |-> lines]
Block(present, lines) == [present |-> present, lines |-> lines, begin |-> "#b", end |-> "#e"]
Policy(p, d) == [op |-> "ApplyPolicyFile", path |-> p, desired |-> d]
WriteCall(p, lines, owner, backup) ==
  [op |-> "WriteFile", path |-> p, lines |-> lines, mode |-> "0644", owner |-> owner, backup |-> backup]
Bundle(op, line) == [op |-> op, path |-> "cred", lines |-> <<line>>]

MCPolicyCalls == {Policy("sudo", Desired(TRUE, <<"all">>)), Policy("sudo", Desired(FALSE, <<>>)),
                  Policy("sshd", Block(TRUE, <<"a">>)), Policy("sshd", Block(TRUE, <<"bad">>)),
                  Policy("sshd", Block(FALSE, <<>>))}
MCWriteCalls == {WriteCall("conf", <<"x">>, "", "bak"), WriteCall("conf", <<"y">>, "app", ""),
                 WriteCall("conf", <<"z">>, "nobody", ""),
                 [op |-> "WriteFileAtomic", path |-> "conf", lines |-> <<"w">>, mode |-> "0600"],
                 [op |-> "WriteFileNew", path |-> "bak", lines |-> <<"n">>, mode |-> "0600"],
                 Bundle("Create", "c1"), Bundle("Replace", "c2")}
MCTreeCalls == {[op |-> "Remove", path |-> "conf"], [op |-> "RemoveDir", path |-> "tree"],
                [op |-> "RemoveDir", path |-> "ln"],
                [op |-> "Mkdir", path |-> "new", mode |-> "0755", owner |-> "app", recursive |-> FALSE],
                [op |-> "Mkdir", path |-> "newLeaf", mode |-> "0755", owner |-> "", recursive |-> TRUE],
                [op |-> "Copy", src |-> "conf", dst |-> "bak"],
                [op |-> "CopyTree", src |-> "tree", dst |-> "new"],
                [op |-> "CopyTree", src |-> "tree", dst |-> "ln"],
                [op |-> "SetMode", path |-> "conf", mode |-> "0600"],
                [op |-> "SetOwnership", path |-> "tree", owner |-> "app"],
                [op |-> "SetOwnershipRecursive", path |-> "tree", owner |-> "app"],
                [op |-> "SetOwnershipRecursive", path |-> "ln", owner |-> "app"]}
MCCalls == MCPolicyCalls \cup MCWriteCalls \cup MCTreeCalls
=============================================================================
