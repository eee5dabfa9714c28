----------------------------- MODULE MCIdentity -----------------------------
(* Two administrators: u1 since first boot, u2 through a SCIM group whose     *)
(* grant manages roles.  The user u0, the groups sg0 and ug0 and the role r0  *)
(* are not created yet, and sort before the others of their kind: what one of *)
(* these gives up, the later stream can take and the rebuild replays first.   *)
EXTENDS Identity, TLC
CONSTANTS u0, u1, u2, m1, m2, s1, s2, o1, sg0, sg1, ug0, ug1, r0, r1, g1, x1, x2, n1, n2, c1, c2

MCOrder == <<g1, r0, r1, sg0, sg1, u0, u1, u2, ug0, ug1>>

MCSetup == <<
  UserCreatedEvent(u1, m1), BootstrapAdminRoleGrantedEvent(u1),
  UserCreatedEvent(u2, m2), SCIMIdentityLinkedEvent(u2, s1, m2),
  SCIMIdentityLinkedEvent(u2, s2, m2),
  AuthorizationRoleCreatedEvent(r1, [name |-> n1, manage |-> TRUE]),
  SCIMGroupCreatedEvent(sg1, x1), SCIMGroupMembershipsReplacedEvent(sg1, {u2}),
  UserGroupCreatedEvent(ug1, n1, {}),
  AuthorizationGrantCreatedEvent(g1, [principal |-> sg1, role |-> r1, global |-> TRUE])>>

Symmetry == Permutations(Callers)
=============================================================================
