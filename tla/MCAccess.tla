------------------------------ MODULE MCAccess ------------------------------
(* An administrator, and a manager confined to a device group, a user group   *)
(* and themselves.  The member is in both kinds of user group; one device is  *)
(* in the device group and one is not.                                        *)
EXTENDS Access, TLC
CONSTANTS act, set, asg, asgOld, pol, stg, dg, d1, d2, inv1, inv2, adm, mgr, mem, ug, sg,
          tok, tokOld, idp, scp, scpOld, lgn, c1, c2, s1, x1, a1

MCOrder == <<act, set, asg, asgOld, tok, tokOld, dg, d1, d2, inv1, inv2, idp, pol, scp,
             scpOld, stg, adm, mgr, mem, ug, lgn>>
MCInventoryOf == (d1 :> inv1) @@ (d2 :> inv2)
MCSubject == (c1 :> adm) @@ (c2 :> mgr)

All == {"actions.manage", "action_sets.manage", "server_settings.manage", "devices.manage",
        "users.manage", "user_groups.manage", "identity_providers.manage",
        "scim_configuration.manage", "executions.read", "audit.read"}
MCGlobalOnly == {"server_settings.manage", "identity_providers.manage",
                 "scim_configuration.manage"}
MCGrants == {
  [principal |-> adm, permissions |-> All, scope |-> GlobalScope],
  [principal |-> mgr, permissions |-> All, scope |-> Scope(FALSE, {dg}, {ug, sg}, mgr)]}

MCSetup == <<
  Event("UserCreated", adm, {}), Event("UserCreated", mgr, {}), Event("UserCreated", mem, {ug, sg}),
  Event("UserGroupCreated", ug, NoRow),
  Event("AgentEnrolled", d1, NoRow), Event("AgentEnrolled", d2, NoRow),
  DeviceGroupCreatedWithMembersEvent(dg, {d1}),
  ManagedActionCreatedEvent(act),
  AssignmentCreatedEvent(asgOld, [source |-> act, target |-> dg]),
  PersonalAccessTokenMintedEvent(tokOld, mem),
  SCIMProviderCreatedEvent(scpOld)>>

Request(op, id, arg) == [op |-> op, id |-> id, arg |-> arg, ahead |-> 0]
Token(u, revoked) == [subject |-> u, revoked |-> revoked]
Racing == {Request("update", tokOld, Token(mem, FALSE)), Request("update", scpOld, TRUE)}
MCRequests ==
  {Request("create", id, NoRow) : id \in {act, set, stg, idp, scpOld}}
  \cup {Request("update", id, NoRow) : id \in {act, d1, d2}}
  \cup {Request("delete", id, NoRow) :
          id \in {act, asgOld, stg, dg, d1, mem, tokOld, idp, scpOld}}
  \cup {Request("create", asg, [source |-> act, target |-> to]) : to \in {dg, d2}}
  \cup {Request("create", pol, <<act>>), Request("update", dg, {d2})}
  \cup {Request("create", tok, Token(u, FALSE)) : u \in {adm, mem}}
  \cup {Request("update", tokOld, Token(mem, TRUE)), Request("update", scpOld, FALSE),
         Request("update", idp, TRUE)}
  \cup Racing \cup {[r EXCEPT !.ahead = 1] : r \in Racing}
=============================================================================
