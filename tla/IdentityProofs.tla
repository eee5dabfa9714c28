--------------------------- MODULE IdentityProofs ---------------------------
(***************************************************************************)
(* The theorems about Identity and Directory, for any users, groups,       *)
(* roles, grants and callers, and any number of calls.  The invariant says *)
(* of an open transaction what its own writes make of the committed table, *)
(* whatever others commit meanwhile: it shares no row and no stream with   *)
(* another one, and without the last-admin lock its writes are mild, they  *)
(* take away nothing that an administrator or a SCIM membership rests on.  *)
(* A fact that a single lemma needs is a named step of that lemma.  The    *)
(* theorems on cardinalities come in last, where two counts need them.     *)
(***************************************************************************)
EXTENDS Identity, TLAPS

-----------------------------------------------------------------------------
(* Events and tables *)

\* An event the projectors know: the type belongs to the type of its stream.
IsEvent(e) ==
  e = [type |-> e.type, stream |-> e.stream, arg |-> e.arg, version |-> e.version]
Fits(e) ==
  \/ /\ e.stream \in Users
     /\ \/ e.type \in {"UserCreated", "UserManagedUpdated"} /\ e.arg \in Emails
        \/ e.type \in {"UserManagedDeleted", "BootstrapAdminRoleGranted", "UserDisabled",
                       "RoleRevoked", "SCIMUserDeprovisioned"}
        \/ e.type = "OIDCIdentityLinked" /\ e.arg.id \in OIDCIds
        \/ e.type = "OIDCIdentityUnlinked" /\ e.arg \in OIDCIds
        \/ e.type = "SCIMIdentityLinked" /\ e.arg.id \in SCIMIds
        \/ e.type = "SCIMIdentityUnlinked" /\ e.arg \in SCIMIds
  \/ /\ e.stream \in UserGroups
     /\ \/ /\ e.type \in {"UserGroupCreated", "UserGroupUpdated"}
           /\ e.arg.name \in GroupNames /\ e.arg.members \subseteq Users
        \/ e.type = "UserGroupMetadataUpdated" /\ e.arg \in GroupNames
        \/ e.type = "UserGroupDeleted"
  \/ /\ e.stream \in SCIMGroups
     /\ \/ e.type = "SCIMGroupMembershipsReplaced" /\ e.arg \subseteq Users
        \/ e.type \in {"SCIMGroupCreated", "SCIMGroupUpdated"} /\ e.arg \in ExternalIds
        \/ e.type = "SCIMGroupDeleted"
  \/ /\ e.stream \in Roles
     /\ \/ e.type \in {"RoleCreated", "RoleUpdated"} /\ e.arg \in RoleRows
        \/ e.type = "RoleDeleted"
  \/ /\ e.stream \in Grants
     /\ \/ e.type \in {"GrantCreated", "GrantUpdated"} /\ e.arg \in GrantRows
        \/ e.type = "GrantDeleted"

\* From one table to another nothing is lost that an administrator or a SCIM
\* membership rests on, and no SCIM membership is added.
Mild(t, new) ==
  /\ \A u \in Users : Live(t, u) => Live(new, u) /\ new[u].disabled = t[u].disabled
  /\ \A k \in Groups \cup Members : Live(t, k) => Live(new, k)
  /\ \A k \in Roles \cup Grants : Live(t, k) => new[k] = t[k]
  /\ \A k \in SCIMGroups \X Users : new[k] = t[k]

\* A user that is live before and after keeps its SCIM links.
KeepsLinks(t, new, u) ==
  Live(t, u) /\ Live(new, u) => t[u].links \cap SCIMIds \subseteq new[u].links

\* The types of keys and rows (users.sql, groups.sql, authorization.sql) exclude
\* each other.
LEMMA KeyTypes ==
  /\ \A u \in Users : u \in Keys /\ u \in Streams /\ u \notin Groups /\ u \notin Roles
                      /\ u \notin Grants /\ u \notin Members
  /\ \A g \in Groups : g \in Keys /\ g \in Streams /\ g \notin Roles /\ g \notin Grants
                       /\ g \notin Members
  /\ \A r \in Roles : r \in Keys /\ r \in Streams /\ r \notin Grants /\ r \notin Members
  /\ \A g \in Grants : g \in Keys /\ g \in Streams /\ g \notin Members
  /\ \A m \in Members : m \in Keys /\ m # NoRow
  /\ \A g \in SCIMGroups : g \in Groups /\ g \notin UserGroups
  /\ \A g \in UserGroups : g \in Groups
BY DirectoryAssumption, Zenon DEF Keys, Streams, Groups

\* A membership row is a key of its own.
LEMMA MemberKeys ==
  \A g \in Groups, u \in Users : <<g, u>> \in Members /\ <<g, u>> \in Keys /\ <<g, u>> # NoRow
BY KeyTypes, Zenon DEF Members

\* A mild step changes nothing that matters, and neither do two.
LEMMA MildTrans ==
  ASSUME NEW t, NEW mid, NEW new, Mild(t, mid), Mild(mid, new)
  PROVE  Mild(t, new)
<1>1. \A u \in Users : Live(t, u) => Live(new, u) /\ new[u].disabled = t[u].disabled
  BY Zenon DEF Mild
<1>2. \A k \in Groups \cup Members : Live(t, k) => Live(new, k)
  BY Zenon DEF Mild
<1>3. \A k \in Roles \cup Grants : Live(t, k) => new[k] = t[k]
  BY Zenon DEF Mild, Live
<1>4. \A k \in SCIMGroups \X Users : new[k] = t[k]
  BY Zenon DEF Mild
<1> QED
  BY <1>1, <1>2, <1>3, <1>4, Zenon DEF Mild

\* A table that stays the same is mild.
LEMMA MildSelf ==
  ASSUME NEW t
  PROVE  Mild(t, t)
BY Zenon DEF Mild

-----------------------------------------------------------------------------
(* The projectors *)

\* What an accepted event does to the table its projector finds.
Projected(t, new, e) ==
  /\ IsTable(new) /\ MembersLive(new)
  /\ \A u \in Users : new[u] # t[u] => u = e.stream
  /\ ~Protected(e) => Mild(t, new)
  /\ \A u \in Users : Live(new, u) /\ ~Live(t, u) => e.version = 1
  /\ e.type # "SCIMIdentityUnlinked" => \A u \in Users : KeepsLinks(t, new, u)
  /\ e.type = "SCIMIdentityUnlinked" =>
       Live(t, e.stream) /\ new[e.stream].links = t[e.stream].links \ {e.arg}
  /\ e.type = "SCIMUserDeprovisioned" => ~Live(new, e.stream)
Accepts(t, e) == project(t, e, FALSE).ok

\* What every projector does with an event it accepts.
LEMMA Projection ==
  \A t, e : IsTable(t) /\ MembersLive(t) /\ Fits(e) /\ Accepts(t, e) =>
             Projected(t, project(t, e, FALSE).table, e)

\* A row a projector writes is a row.
<1>RowsLive.
    /\ \A x \in UserRows : x # NoRow
    /\ \A x \in RoleRows : x # NoRow
    /\ \A x \in GrantRows : x # NoRow
    /\ \A x \in GroupNames \cup ExternalIds : x # NoRow
  BY DirectoryAssumption, Zenon

\* No stream is a membership row.
<1>StreamNotMember.
    ASSUME NEW k \in Streams, NEW u \in Users
    PROVE  k \in Keys /\ k \notin UserGroups \X {u} /\ k \notin SCIMGroups \X {u}
  BY <1>StreamNotMember, DirectoryAssumption, Zenon DEF Keys, Members, Groups

\* One key is written.
<1> DEFINE Only(t, new, k) ==
             /\ new = [j \in Keys |-> new[j]]
             /\ \A j \in Keys : j # k => new[j] = t[j]
<1> HIDE DEF Only
<1> DEFINE Wrote(t, new, k, x) == Only(t, new, k) /\ new[k] = x
<1> HIDE DEF Wrote
<1> DEFINE Put(t, k, x) == [t EXCEPT ![k] = x]
<1> HIDE DEF Put

\* What a statement that writes one row does to the table (INSERT, UPDATE).
<1>PutOnly.
    ASSUME NEW t, IsTable(t), NEW k \in Keys, NEW x
    PROVE  Wrote(t, Put(t, k, x), k, x)
  <2> USE <1>PutOnly
  <2> DEFINE new == Put(t, k, x)
  <2>1. t = [j \in Keys |-> t[j]]
    BY Zenon DEF IsTable
  <2>2. DOMAIN t = Keys
    BY <2>1, Zenon
  <2>3. new = [j \in Keys |-> new[j]]
    BY <2>1, <2>2, Zenon DEF Put
  <2> QED
    BY <2>1, <2>2, <2>3, Zenon DEF Wrote, Only, Put

\* Writing a user's row keeps the table a table and the SCIM memberships live.
<1>UserPut.
    ASSUME NEW t, NEW new, IsTable(t), MembersLive(t), NEW u \in Users,
           Only(t, new, u), new[u] \in UserRows
    PROVE  /\ IsTable(new) /\ MembersLive(new) /\ Live(new, u)
           /\ (Live(t, u) => new[u].disabled = t[u].disabled) => Mild(t, new)
  <2> USE <1>UserPut
  <2>1. Live(new, u)
    BY <1>RowsLive, Zenon DEF Live
  <2>2. /\ \A v \in Users : v # u => new[v] = t[v]
        /\ \A k \in Groups \cup Roles \cup Grants \cup Members : new[k] = t[k]
    BY KeyTypes, Zenon DEF Only
  <2>3. IsTable(new)
    BY <2>2, Zenon DEF IsTable, Only, Live
  <2>4. MembersLive(new)
    BY <2>1, <2>2, KeyTypes, MemberKeys, Zenon DEF MembersLive, Live
  <2>5. ASSUME Live(t, u) => new[u].disabled = t[u].disabled
        PROVE  Mild(t, new)
    <3>1. \A v \in Users : Live(t, v) => Live(new, v) /\ new[v].disabled = t[v].disabled
      BY <2>1, <2>2, <2>5, Zenon DEF Live
    <3>2. \A k \in SCIMGroups \X Users : k \in Members
      BY KeyTypes, Zenon DEF Members
    <3> QED
      BY <2>2, <3>1, <3>2, Zenon DEF Mild, Live
  <2> QED
    BY <2>1, <2>3, <2>4, <2>5, Zenon
<1> DEFINE UsersKept(t, new) == IsTable(new) /\ MembersLive(new) /\ \A u \in Users : new[u] = t[u]
<1> HIDE DEF UsersKept

\* Writing the row of a group, a role or a grant does too.
<1>OtherPut.
    ASSUME NEW t, NEW new, IsTable(t), MembersLive(t), NEW k \in Groups \cup Roles \cup Grants,
           Only(t, new, k), new[k] # NoRow,
           k \in Roles => new[k] \in RoleRows, k \in Grants => new[k] \in GrantRows
    PROVE  UsersKept(t, new) /\ (~Live(t, k) \/ k \in Groups => Mild(t, new))
  <2> USE <1>OtherPut
  <2>2. /\ \A j \in Groups \cup Roles \cup Grants : j # k => new[j] = t[j]
        /\ \A j \in Users \cup Members : new[j] = t[j]
    BY KeyTypes, Zenon DEF Only
  <2>3. IsTable(new)
    BY <2>2, Zenon DEF IsTable, Only, Live
  <2>4. MembersLive(new)
    BY <2>2, KeyTypes, MemberKeys, Zenon DEF MembersLive, Live
  <2>5. ASSUME ~Live(t, k) \/ k \in Groups
        PROVE  Mild(t, new)
    <3>1. \A j \in Groups \cup Members : Live(t, j) => Live(new, j)
      BY <2>2, Zenon DEF Live
    <3>2. \A j \in Roles \cup Grants : Live(t, j) => new[j] = t[j]
      BY <2>2, <2>5, KeyTypes, Zenon DEF Live
    <3>3. \A j \in SCIMGroups \X Users : new[j] = t[j]
      BY <2>2, KeyTypes, Zenon DEF Members
    <3> QED
      BY <2>2, <3>1, <3>2, <3>3, Zenon DEF Mild, Live
  <2> QED
    BY <2>2, <2>3, <2>4, <2>5, Zenon DEF UsersKept
<1> DEFINE Removed(t, new, ks) == \A k \in Keys : new[k] = IF k \in ks THEN NoRow ELSE t[k]
<1> HIDE DEF Removed

\* A DELETE keeps the table a table.
<1>WithoutTable.
    ASSUME NEW t, IsTable(t), NEW ks
    PROVE  IsTable(Without(t, ks)) /\ Removed(t, Without(t, ks), ks)
  <2> USE <1>WithoutTable
  <2>1. \A k \in Keys : Without(t, ks)[k] = IF k \in ks THEN NoRow ELSE t[k]
    BY Zenon DEF Without
  <2>2. Without(t, ks) = [k \in Keys |-> Without(t, ks)[k]]
    BY Zenon DEF Without
  <2> QED
    BY <2>1, <2>2, KeyTypes, Zenon DEF IsTable, Live, Removed

\* The other projectors leave the users alone.
<1>ProjectedElse.
    ASSUME NEW t, NEW new, NEW e, UsersKept(t, new), ~Protected(e) => Mild(t, new),
           e.type \notin {"SCIMIdentityUnlinked", "SCIMUserDeprovisioned"}
    PROVE  Projected(t, new, e)
  <2> USE <1>ProjectedElse
  <2>1. \A u \in Users : KeepsLinks(t, new, u)
    BY Zenon DEF KeepsLinks, UsersKept
  <2> QED
    BY <2>1, Zenon DEF Projected, Live, UsersKept

\* An outcome that is accepted.
<1>OutcomeOK.
    ASSUME NEW ok \in BOOLEAN, NEW t, NEW new, NEW out, out = Outcome(ok, t, new), out.ok
    PROVE  ok /\ out.table = new
  BY <1>OutcomeOK DEF Outcome

\* One that is refused, and one that changes nothing.
<1>OutcomeRefused.
    ASSUME NEW t, NEW out, out = Outcome(FALSE, t, t)
    PROVE  ~out.ok
  BY <1>OutcomeRefused DEF Outcome
<1>OutcomeSame.
    ASSUME NEW ok \in BOOLEAN, NEW t, NEW out, out = Outcome(ok, t, t)
    PROVE  out.table = t
  BY <1>OutcomeSame DEF Outcome

\* The projectors of the user registry, by event type.
<1>UserProjected.
    \A t, e : IsTable(t) /\ MembersLive(t) /\ Fits(e) /\ Accepts(t, e) /\ e.stream \in Users =>
               Projected(t, project(t, e, FALSE).table, e)

  \* projectUserCreation, projectManagedUserUpdate, projectOIDCIdentityLink,
  \* projectSCIMIdentityLinked and the invalidations that keep the user write its row.
  <2>ProjectedRow.
      ASSUME NEW t, NEW new, NEW e, IsTable(t), MembersLive(t), e.stream \in Users,
             Only(t, new, e.stream), new[e.stream] \in UserRows,
             Live(t, e.stream) \/ e.version = 1,
             ~Protected(e) /\ Live(t, e.stream) => new[e.stream].disabled = t[e.stream].disabled,
             e.type # "SCIMUserDeprovisioned",
             e.type # "SCIMIdentityUnlinked" => KeepsLinks(t, new, e.stream),
             e.type = "SCIMIdentityUnlinked" =>
               Live(t, e.stream) /\ new[e.stream].links = t[e.stream].links \ {e.arg}
      PROVE  Projected(t, new, e)
    <3> USE <2>ProjectedRow
    <3>1. \A u \in Users : new[u] # t[u] => u = e.stream
      BY KeyTypes, Zenon DEF Only
    <3>2. \A u \in Users : Live(new, u) /\ ~Live(t, u) => e.version = 1
      BY <3>1, Zenon DEF Live
    <3>3. e.type # "SCIMIdentityUnlinked" => \A u \in Users : KeepsLinks(t, new, u)
      BY <3>1, Zenon DEF KeepsLinks
    <3>4. IsTable(new) /\ MembersLive(new) /\ (~Protected(e) => Mild(t, new))
      BY <1>UserPut, Zenon
    <3> QED
      BY <3>1, <3>2, <3>3, <3>4, Zenon DEF Projected

  \* Rows of users have the fields of the users table.
  <2>UserRowFields.
      ASSUME NEW x \in UserRows
      PROVE  /\ x = [email |-> x.email, disabled |-> x.disabled, links |-> x.links]
             /\ x.email \in Emails /\ x.disabled \in BOOLEAN /\ x.links \subseteq SCIMIds \cup OIDCIds
    BY <2>UserRowFields DEF UserRows
  <2>UserRowMake.
      ASSUME NEW email \in Emails, NEW disabled \in BOOLEAN, NEW links \in SUBSET (SCIMIds \cup OIDCIds)
      PROVE  [email |-> email, disabled |-> disabled, links |-> links] \in UserRows
    BY <2>UserRowMake DEF UserRows

  \* Which projector the registry of event definitions gives a user's event.
  <2>UserDispatch.
      ASSUME NEW t, NEW e, Fits(e), e.stream \in Users
      PROVE  LET out == project(t, e, FALSE)
             IN  /\ e.type = "UserCreated" => out = projectUserCreation(t, e)
                 /\ e.type = "BootstrapAdminRoleGranted" => out = projectBootstrapAdminRoleGrant(t, e)
                 /\ e.type = "UserManagedUpdated" => out = projectManagedUserUpdate(t, e)
                 /\ e.type = "UserManagedDeleted" => out = projectManagedUserDeletion(t, e)
                 /\ e.type = "OIDCIdentityLinked" => out = projectOIDCIdentityLink(t, e)
                 /\ e.type = "SCIMIdentityLinked" => out = projectSCIMIdentityLinked(t, e)
                 /\ e.type = "SCIMIdentityUnlinked" => out = projectSCIMIdentityUnlinked(t, e)
                 /\ e.type \in sessionInvalidationEventTypes => out = projectSessionInvalidation(t, e)
    <3> USE <2>UserDispatch
    <3>1. /\ e.stream \notin UserGroups /\ e.stream \notin SCIMGroups /\ e.stream \notin Roles
          /\ e.stream \notin Grants
      BY KeyTypes, Zenon
    <3>2. e.type \in {"UserCreated", "UserManagedUpdated", "UserManagedDeleted",
                      "BootstrapAdminRoleGranted", "UserDisabled", "RoleRevoked",
                      "SCIMUserDeprovisioned", "OIDCIdentityLinked", "OIDCIdentityUnlinked",
                      "SCIMIdentityLinked", "SCIMIdentityUnlinked"}
      BY <3>1, Zenon DEF Fits
    <3>3. CASE e.type \in sessionInvalidationEventTypes
      BY <3>1, <3>3, Zenon DEF project, sessionInvalidationEventTypes
    <3>4. CASE e.type \in {"SCIMIdentityLinked", "SCIMIdentityUnlinked"}
      BY <3>1, <3>4, Zenon DEF project, scimUserEventDefinitions, sessionInvalidationEventTypes
    <3>5. CASE e.type \in {"UserCreated", "UserManagedUpdated", "UserManagedDeleted",
                           "BootstrapAdminRoleGranted", "OIDCIdentityLinked"}
      BY <3>1, <3>5, Zenon DEF project, userEventDefinitions, sessionInvalidationEventTypes
    <3> QED
      BY <3>2, <3>3, <3>4, <3>5, Zenon DEF sessionInvalidationEventTypes

  \* projectUserCreation inserts the row of a new user.
  <2>UserCreationProjected.
      ASSUME NEW t, NEW e, NEW u \in Users, e.stream = u, IsTable(t), MembersLive(t),
             e.type = "UserCreated", e.arg \in Emails,
             NEW out, out = projectUserCreation(t, e), out.ok
      PROVE  Projected(t, out.table, e)
    <3> USE <2>UserCreationProjected
    <3> DEFINE ok == e.version = 1 /\ ~Live(t, u) /\ EmailFree(t, u, e.arg)
               row == [email |-> e.arg, disabled |-> FALSE, links |-> {}]
               new == Put(t, u, row)
    <3>1. ok \in BOOLEAN
      BY Zenon
    <3>2. out = Outcome(ok, t, new)
      BY Zenon DEF projectUserCreation, InsertUser, Put
    <3>3. ok => e.version = 1 /\ ~Live(t, u)
      BY Zenon
    <3>4. row \in UserRows
      BY <2>UserRowMake, Zenon
    <3> HIDE DEF ok, row
    <3>5. Wrote(t, new, u, row)
      BY <1>PutOnly, KeyTypes, Zenon
    <3> HIDE DEF new
    <3>6. ok /\ out.table = new
      BY <3>1, <3>2, <1>OutcomeOK
    <3>7. KeepsLinks(t, new, u)
      BY <3>3, <3>6, Zenon DEF KeepsLinks
    <3> QED
      BY <3>3, <3>4, <3>5, <3>6, <3>7, <2>ProjectedRow, Zenon DEF Wrote

  \* projectManagedUserUpdate writes the e-mail.
  <2>UserUpdateProjected.
      ASSUME NEW t, NEW e, NEW u \in Users, e.stream = u, IsTable(t), MembersLive(t),
             e.type = "UserManagedUpdated", e.arg \in Emails,
             NEW out, out = projectManagedUserUpdate(t, e), out.ok
      PROVE  Projected(t, out.table, e)
    <3> USE <2>UserUpdateProjected
    <3> DEFINE ok == e.version >= 2 /\ Live(t, u) /\ EmailFree(t, u, e.arg)
               row == [t[u] EXCEPT !.email = e.arg]
               new == Put(t, u, row)
    <3>1. ok \in BOOLEAN
      BY Zenon
    <3>2. out = Outcome(ok, t, new)
      BY Zenon DEF projectManagedUserUpdate, ReplaceManagedUser, Put
    <3>3. ok => Live(t, u)
      BY Zenon
    <3>4. Live(t, u) => t[u] \in UserRows
      BY Zenon DEF IsTable
    <3>5. Live(t, u) => row \in UserRows /\ row.disabled = t[u].disabled /\ row.links = t[u].links
      BY <3>4 DEF UserRows
    <3> HIDE DEF ok, row
    <3>6. Wrote(t, new, u, row)
      BY <1>PutOnly, KeyTypes, Zenon
    <3> HIDE DEF new
    <3>7. ok /\ out.table = new
      BY <3>1, <3>2, <1>OutcomeOK
    <3>8. KeepsLinks(t, new, u)
      BY <3>3, <3>5, <3>6, <3>7, Zenon DEF KeepsLinks, Wrote
    <3> QED
      BY <3>3, <3>5, <3>6, <3>7, <3>8, <2>ProjectedRow, Zenon DEF Wrote

  \* projectOIDCIdentityLink and projectSCIMIdentityLinked add a link.
  <2>LinkProjected.
      ASSUME NEW t, NEW e, NEW u \in Users, e.stream = u, IsTable(t), MembersLive(t),
             e.type \in {"OIDCIdentityLinked", "SCIMIdentityLinked"}, e.arg.id \in SCIMIds \cup OIDCIds,
             NEW out, out = projectOIDCIdentityLink(t, e) \/ out = projectSCIMIdentityLinked(t, e), out.ok
      PROVE  Projected(t, out.table, e)
    <3> USE <2>LinkProjected
    <3> DEFINE ok == /\ e.version > 1 /\ GetUserByID(t, u)
                     /\ t[u].email = e.arg.email /\ IdentityFree(t, e.arg.id)
               links == t[u].links \cup {e.arg.id}
               row == [t[u] EXCEPT !.links = links]
               new == Put(t, u, row)
    <3>1. ok \in BOOLEAN
      BY Zenon
    <3>2. out = Outcome(ok, t, new)
      BY Zenon DEF projectOIDCIdentityLink, projectSCIMIdentityLinked, InsertOIDCIdentity, InsertSCIMIdentity, Put
    <3>3. ok => Live(t, u)
      BY Zenon DEF GetUserByID
    <3>4. Live(t, u) => t[u] \in UserRows
      BY Zenon DEF IsTable
    <3>5. Live(t, u) => links \in SUBSET (SCIMIds \cup OIDCIds)
      BY <3>4, <2>UserRowFields, Zenon
    <3>6. t[u].links \subseteq links
      BY Zenon
    <3> HIDE DEF ok, links
    <3>7. Live(t, u) => row \in UserRows /\ row.disabled = t[u].disabled /\ row.links = links
      BY <3>4, <3>5 DEF UserRows
    <3> HIDE DEF row
    <3>8. Wrote(t, new, u, row)
      BY <1>PutOnly, KeyTypes, Zenon
    <3> HIDE DEF new
    <3>9. ok /\ out.table = new
      BY <3>1, <3>2, <1>OutcomeOK
    <3>10. KeepsLinks(t, new, u)
      BY <3>6, <3>7, <3>8, Zenon DEF KeepsLinks, Wrote
    <3> QED
      BY <3>3, <3>7, <3>8, <3>9, <3>10, <2>ProjectedRow, Zenon DEF Wrote

  \* projectSCIMIdentityUnlinked takes a link of a user that exists.
  <2>UnlinkProjected.
      ASSUME NEW t, NEW e, NEW u \in Users, e.stream = u, IsTable(t), MembersLive(t),
             e.type = "SCIMIdentityUnlinked",
             NEW out, out = projectSCIMIdentityUnlinked(t, e), out.ok
      PROVE  Projected(t, out.table, e)
    <3> USE <2>UnlinkProjected
    <3> DEFINE ok == e.version > 1 /\ GetUserByID(t, u) /\ e.arg \in t[u].links
               links == t[u].links \ {e.arg}
               row == [t[u] EXCEPT !.links = links]
               new == Put(t, u, row)
    <3>1. ok \in BOOLEAN
      BY Zenon
    <3>2. out = Outcome(ok, t, new)
      BY Zenon DEF projectSCIMIdentityUnlinked, DeleteSCIMIdentity, Put
    <3>3. ok => Live(t, u)
      BY Zenon DEF GetUserByID
    <3>4. Live(t, u) => t[u] \in UserRows
      BY Zenon DEF IsTable
    <3>5. Live(t, u) => links \in SUBSET (SCIMIds \cup OIDCIds)
      BY <3>4, <2>UserRowFields, Zenon
    <3>6. links = t[u].links \ {e.arg}
      BY Zenon
    <3> HIDE DEF ok, links
    <3>7. Live(t, u) => row \in UserRows /\ row.disabled = t[u].disabled /\ row.links = links
      BY <3>4, <3>5 DEF UserRows
    <3> HIDE DEF row
    <3>8. Wrote(t, new, u, row)
      BY <1>PutOnly, KeyTypes, Zenon
    <3> HIDE DEF new
    <3>9. ok /\ out.table = new
      BY <3>1, <3>2, <1>OutcomeOK
    <3> QED
      BY <3>3, <3>6, <3>7, <3>8, <3>9, <2>ProjectedRow, Zenon DEF Wrote
  <2> DEFINE Invalidated(t, new, u, disable) ==
               /\ Only(t, new, u) /\ new[u] \in UserRows /\ new[u].links = t[u].links
               /\ disable = FALSE => new[u].disabled = t[u].disabled
  <2> HIDE DEF Invalidated

  \* InvalidateUserSession writes the row of a user that exists.
  <2>InvalidationWrites.
      ASSUME NEW t, NEW u \in Users, IsTable(t), Live(t, u), NEW disable \in BOOLEAN
      PROVE  Invalidated(t, InvalidateUserSession(t, u, disable), u, disable)
    <3> USE <2>InvalidationWrites
    <3> DEFINE row == [t[u] EXCEPT !.disabled = t[u].disabled \/ disable]
               kept == InvalidateUserSession(t, u, disable)
    <3>1. t[u] \in UserRows
      BY Zenon DEF IsTable
    <3>2. row \in UserRows /\ row.links = t[u].links /\ (disable = FALSE => row.disabled = t[u].disabled)
      BY <3>1 DEF UserRows
    <3>3. kept = Put(t, u, row)
      BY Zenon DEF InvalidateUserSession, Put
    <3> HIDE DEF kept, row
    <3>4. Wrote(t, kept, u, row)
      BY <3>3, <1>PutOnly, KeyTypes, Zenon
    <3> QED
      BY <3>2, <3>4, Zenon DEF Wrote, kept, Invalidated

  \* A row written twice is written.
  <2>OnlyTwice.
      ASSUME NEW t, NEW mid, NEW new, NEW k, Only(t, mid, k), Only(mid, new, k)
      PROVE  Only(t, new, k)
    BY <2>OnlyTwice, Zenon DEF Only

  \* projectSessionInvalidation, for a disabled user and a revoked role.
  <2>DisableProjected.
      ASSUME NEW t, NEW e, NEW u \in Users, e.stream = u, IsTable(t), MembersLive(t),
             e.type \in {"UserDisabled", "RoleRevoked"},
             NEW out, out = projectSessionInvalidation(t, e), out.ok
      PROVE  Projected(t, out.table, e)
    <3> USE <2>DisableProjected
    <3> DEFINE ok == e.version > 1 /\ GetUserByID(t, u)
               disable == e.type = "UserDisabled"
               new == InvalidateUserSession(t, u, disable)
    <3>1. ok \in BOOLEAN /\ disable \in BOOLEAN
      BY Zenon
    <3>2. out = Outcome(ok, t, new)
      BY Zenon DEF projectSessionInvalidation
    <3>3. ok => Live(t, u)
      BY Zenon DEF GetUserByID
    <3>4. Protected(e)
      BY Zenon DEF Protected, lastAdminReductionEventTypes
    <3> HIDE DEF ok, disable, new
    <3>5. ok /\ out.table = new
      BY <3>1, <3>2, <1>OutcomeOK
    <3>6. Only(t, new, u) /\ new[u] \in UserRows /\ new[u].links = t[u].links
      <4>1. Invalidated(t, new, u, disable)
        BY <3>1, <3>3, <3>5, <2>InvalidationWrites, Zenon DEF new
      <4> QED
        BY <4>1, Zenon DEF Invalidated
    <3>7. KeepsLinks(t, new, u)
      BY <3>6, Zenon DEF KeepsLinks
    <3> QED
      BY <3>3, <3>4, <3>5, <3>6, <3>7, <2>ProjectedRow, Zenon

  \* projectSessionInvalidation, for an OIDC identity: SCIM links stay.
  <2>OIDCUnlinkProjected.
      ASSUME NEW t, NEW e, NEW u \in Users, e.stream = u, IsTable(t), MembersLive(t),
             e.type = "OIDCIdentityUnlinked", e.arg \in OIDCIds,
             NEW out, out = projectSessionInvalidation(t, e), out.ok
      PROVE  Projected(t, out.table, e)
    <3> USE <2>OIDCUnlinkProjected
    <3> DEFINE ok == e.version > 1 /\ GetUserByID(t, u) /\ e.arg \in t[u].links
               kept == InvalidateUserSession(t, u, FALSE)
               links == kept[u].links \ {e.arg}
               row == [kept[u] EXCEPT !.links = links]
               new == Put(kept, u, row)
    <3>1. ok \in BOOLEAN
      BY Zenon
    <3>2. out = Outcome(ok, t, new)
      <4>1. (e.type = "UserDisabled") = FALSE
        BY Zenon
      <4> QED
        BY <4>1, Zenon DEF projectSessionInvalidation, DeleteOIDCIdentityForInvalidation, Put
    <3>3. ok => Live(t, u)
      BY Zenon DEF GetUserByID
    <3> HIDE DEF ok, new
    <3>4. ok /\ out.table = new
      BY <3>1, <3>2, <1>OutcomeOK
    <3>5. /\ Only(t, kept, u) /\ kept[u] \in UserRows /\ kept[u].links = t[u].links
          /\ kept[u].disabled = t[u].disabled
      <4>1. Invalidated(t, kept, u, FALSE)
        BY <3>3, <3>4, <2>InvalidationWrites, Zenon
      <4> QED
        BY <4>1, Zenon DEF Invalidated
    <3> HIDE DEF kept
    <3>6. links \in SUBSET (SCIMIds \cup OIDCIds) /\ t[u].links \cap SCIMIds \subseteq links
      <4>1. kept[u].links \subseteq SCIMIds \cup OIDCIds
        BY <3>5, <2>UserRowFields, Zenon
      <4>2. e.arg \notin SCIMIds
        BY DirectoryAssumption, Zenon
      <4> QED
        BY <3>5, <4>1, <4>2, Zenon
    <3> HIDE DEF links
    <3>7. row \in UserRows /\ row.disabled = t[u].disabled /\ row.links = links
      BY <3>5, <3>6 DEF UserRows
    <3>8. IsTable(kept)
      BY <3>5, <1>UserPut, Zenon
    <3> HIDE DEF row
    <3>9. Wrote(kept, new, u, row)
      BY <3>8, <1>PutOnly, KeyTypes, Zenon DEF new
    <3>10. Only(t, new, u) /\ new[u] = row
      BY <3>5, <3>9, <2>OnlyTwice, Zenon DEF Wrote
    <3>11. KeepsLinks(t, new, u)
      BY <3>6, <3>7, <3>10, Zenon DEF KeepsLinks
    <3> QED
      BY <3>3, <3>4, <3>7, <3>10, <3>11, <2>ProjectedRow, Zenon
  <2> DEFINE Gone(t, new, u) ==
               /\ IsTable(new) /\ ~Live(new, u)
               /\ \A g \in SCIMGroups : ~Live(new, <<g, u>>)
               /\ \A v \in Users : v # u => new[v] = t[v]
               /\ \A g \in SCIMGroups : new[g] = t[g]
               /\ \A g \in SCIMGroups, v \in Users : v # u => new[<<g, v>>] = t[<<g, v>>]
  <2> HIDE DEF Gone

  \* projectManagedUserDeletion and the SCIM deprovision take the user's row and
  \* with it the SCIM memberships.
  <2>GoneProjected.
      ASSUME NEW t, NEW new, NEW e, NEW u \in Users, e.stream = u, MembersLive(t), Gone(t, new, u),
             e.type \in {"UserManagedDeleted", "SCIMUserDeprovisioned"}
      PROVE  Projected(t, new, e)
    <3> USE <2>GoneProjected
    <3>1. Protected(e)
      BY Zenon DEF Protected, lastAdminReductionEventTypes
    <3>2. MembersLive(new)
      BY Zenon DEF MembersLive, Live, Gone
    <3>3. \A v \in Users : KeepsLinks(t, new, v)
      BY Zenon DEF KeepsLinks, Gone
    <3>4. \A v \in Users : (new[v] # t[v] => v = u) /\ (Live(new, v) => Live(t, v))
      BY Zenon DEF Live, Gone
    <3> QED
      BY <3>1, <3>2, <3>3, <3>4, Zenon DEF Projected, Gone

  \* projectManagedUserDeletion.
  <2>DeletionProjected.
      ASSUME NEW t, NEW e, NEW u \in Users, e.stream = u, IsTable(t), MembersLive(t),
             e.type = "UserManagedDeleted",
             NEW out, out = projectManagedUserDeletion(t, e), out.ok
      PROVE  Projected(t, out.table, e)
    <3> USE <2>DeletionProjected
    <3> DEFINE ok == e.version >= 2 /\ Live(t, u)
               a == Without(t, UserGroups \X {u})
               b == Without(a, SCIMGroups \X {u})
               new == Without(b, {u})
    <3>1. ok \in BOOLEAN
      BY Zenon
    <3>2. out = Outcome(ok, t, new)
      BY Zenon DEF projectManagedUserDeletion, DeleteManagedUser, DeleteSCIMGroupMembershipsForUser,
                   DeleteManagedUserGroupMembershipsForUser
    <3>3. IsTable(a) /\ Removed(t, a, UserGroups \X {u})
      BY <1>WithoutTable, Zenon
    <3> HIDE DEF a
    <3>4. IsTable(b) /\ Removed(a, b, SCIMGroups \X {u})
      BY <3>3, <1>WithoutTable, Zenon
    <3> HIDE DEF b
    <3>5. IsTable(new) /\ Removed(b, new, {u})
      BY <3>4, <1>WithoutTable, Zenon
    <3> HIDE DEF ok, new
    <3>6. ok /\ out.table = new
      BY <3>1, <3>2, <1>OutcomeOK
    <3>7. ~Live(new, u)
      BY <3>5, KeyTypes, Zenon DEF Live, Removed
    <3>8. \A k \in Streams : k # u => new[k] = t[k]
      <4>1. \A k \in Streams : k \in Keys /\ k \notin UserGroups \X {u} /\ k \notin SCIMGroups \X {u}
        BY <1>StreamNotMember, Zenon
      <4> QED
        BY <3>3, <3>4, <3>5, <4>1, Zenon DEF Removed
    <3>9. \A g \in SCIMGroups, v \in Users :
            <<g, v>> \in Keys /\ <<g, v>> \notin UserGroups \X {u} /\ <<g, v>> # u
      BY KeyTypes, MemberKeys, Zenon
    <3>10. \A g \in SCIMGroups : ~Live(new, <<g, u>>)
      BY <3>4, <3>5, <3>9, Zenon DEF Live, Removed
    <3>11. \A g \in SCIMGroups, v \in Users : v # u => new[<<g, v>>] = t[<<g, v>>]
      BY <3>3, <3>4, <3>5, <3>9, Zenon DEF Removed
    <3>12. \A v \in Users : v # u => new[v] = t[v]
      BY <3>8, KeyTypes, Zenon
    <3>13. \A g \in SCIMGroups : new[g] = t[g]
      BY <3>8, KeyTypes, Zenon
    <3>14. Gone(t, new, u)
      BY <3>5, <3>7, <3>10, <3>11, <3>12, <3>13, Zenon DEF Gone
    <3> QED
      BY <3>6, <3>14, <2>GoneProjected, Zenon

  \* projectSessionInvalidation, for a SCIM deprovision.
  <2>DeprovisionProjected.
      ASSUME NEW t, NEW e, NEW u \in Users, e.stream = u, IsTable(t), MembersLive(t),
             e.type = "SCIMUserDeprovisioned",
             NEW out, out = projectSessionInvalidation(t, e), out.ok
      PROVE  Projected(t, out.table, e)
    <3> USE <2>DeprovisionProjected
    <3> DEFINE ok == e.version > 1 /\ GetUserByID(t, u) /\ CountUserIdentityLinks(t, u) = 0
               a == InvalidateUserSession(t, u, FALSE)
               b == Without(a, SCIMGroups \X {u})
               new == Without(b, {u})
    <3>1. ok \in BOOLEAN
      BY Zenon
    <3>2. out = Outcome(ok, t, new)
      <4>1. (e.type = "UserDisabled") = FALSE
        BY Zenon
      <4> QED
        BY <4>1, Zenon
           DEF projectSessionInvalidation, DeleteUserProjectionAfterInvalidation, DeleteSCIMGroupMembershipsForUser
    <3>3. ok => Live(t, u)
      BY Zenon DEF GetUserByID
    <3> HIDE DEF ok, new
    <3>4. ok /\ out.table = new
      BY <3>1, <3>2, <1>OutcomeOK
    <3>5. Invalidated(t, a, u, FALSE)
      BY <3>3, <3>4, <2>InvalidationWrites, Zenon
    <3>6. IsTable(a) /\ Only(t, a, u)
      BY <3>5, <1>UserPut, Zenon DEF Invalidated
    <3> HIDE DEF a
    <3>7. IsTable(b) /\ Removed(a, b, SCIMGroups \X {u})
      BY <3>6, <1>WithoutTable, Zenon
    <3> HIDE DEF b
    <3>8. IsTable(new) /\ Removed(b, new, {u})
      BY <3>7, <1>WithoutTable, Zenon DEF new
    <3>9. ~Live(new, u)
      BY <3>8, KeyTypes, Zenon DEF Live, Removed
    <3>10. \A k \in Streams : k # u => new[k] = t[k]
      <4>1. \A k \in Streams : k \in Keys /\ k \notin SCIMGroups \X {u}
        BY <1>StreamNotMember, Zenon
      <4> QED
        BY <3>6, <3>7, <3>8, <4>1, Zenon DEF Only, Removed
    <3>11. \A g \in SCIMGroups, v \in Users : <<g, v>> \in Keys /\ <<g, v>> # u
      BY KeyTypes, MemberKeys, Zenon
    <3>12. \A g \in SCIMGroups : ~Live(new, <<g, u>>)
      BY <3>7, <3>8, <3>11, Zenon DEF Live, Removed
    <3>13. \A g \in SCIMGroups, v \in Users : v # u => new[<<g, v>>] = t[<<g, v>>]
      BY <3>6, <3>7, <3>8, <3>11, Zenon DEF Only, Removed
    <3>14. \A v \in Users : v # u => new[v] = t[v]
      BY <3>10, KeyTypes, Zenon
    <3>15. \A g \in SCIMGroups : new[g] = t[g]
      BY <3>10, KeyTypes, Zenon
    <3>16. Gone(t, new, u)
      BY <3>8, <3>9, <3>12, <3>13, <3>14, <3>15, Zenon DEF Gone
    <3> QED
      BY <3>4, <3>16, <2>GoneProjected, Zenon
  <2> TAKE t, e
  <2> SUFFICES ASSUME IsTable(t), MembersLive(t), Fits(e), e.stream \in Users, Accepts(t, e)
               PROVE  Projected(t, project(t, e, FALSE).table, e)
    BY Zenon
  <2> DEFINE out == project(t, e, FALSE)
  <2>0. /\ e.type = "UserCreated" => out = projectUserCreation(t, e)
        /\ e.type = "BootstrapAdminRoleGranted" => out = projectBootstrapAdminRoleGrant(t, e)
        /\ e.type = "UserManagedUpdated" => out = projectManagedUserUpdate(t, e)
        /\ e.type = "UserManagedDeleted" => out = projectManagedUserDeletion(t, e)
        /\ e.type = "OIDCIdentityLinked" => out = projectOIDCIdentityLink(t, e)
        /\ e.type = "SCIMIdentityLinked" => out = projectSCIMIdentityLinked(t, e)
        /\ e.type = "SCIMIdentityUnlinked" => out = projectSCIMIdentityUnlinked(t, e)
        /\ e.type \in sessionInvalidationEventTypes => out = projectSessionInvalidation(t, e)
    BY <2>UserDispatch, Zenon
  <2>1. out.ok
    BY Zenon DEF Accepts
  <2> SUFFICES Projected(t, out.table, e)
    BY Zenon
  <2> HIDE DEF out
  <2>2. e.stream \notin UserGroups /\ e.stream \notin SCIMGroups /\ e.stream \notin Roles /\ e.stream \notin Grants
    BY KeyTypes, Zenon
  <2>3. CASE e.type = "UserCreated"
    <3>1. out = projectUserCreation(t, e)
      BY <2>0, <2>3, Zenon
    <3>2. e.arg \in Emails
      BY <2>2, <2>3, Zenon DEF Fits
    <3> QED
      BY <2>1, <2>3, <3>1, <3>2, <2>UserCreationProjected, Zenon
  <2>4. CASE e.type = "UserManagedUpdated"
    <3>1. out = projectManagedUserUpdate(t, e)
      BY <2>0, <2>4, Zenon
    <3>2. e.arg \in Emails
      BY <2>2, <2>4, Zenon DEF Fits
    <3> QED
      BY <2>1, <2>4, <3>1, <3>2, <2>UserUpdateProjected, Zenon
  <2>5. CASE e.type \in {"OIDCIdentityLinked", "SCIMIdentityLinked"}
    <3>1. out = projectOIDCIdentityLink(t, e) \/ out = projectSCIMIdentityLinked(t, e)
      BY <2>0, <2>5, Zenon
    <3>2. e.arg.id \in SCIMIds \cup OIDCIds
      BY <2>2, <2>5, Zenon DEF Fits
    <3> QED
      BY <2>1, <2>5, <3>1, <3>2, <2>LinkProjected, Zenon
  <2>6. CASE e.type = "SCIMIdentityUnlinked"
    <3>1. out = projectSCIMIdentityUnlinked(t, e)
      BY <2>0, <2>6, Zenon
    <3> QED
      BY <2>1, <2>6, <3>1, <2>UnlinkProjected, Zenon
  <2>7. CASE e.type \in {"UserDisabled", "RoleRevoked"}
    <3>1. out = projectSessionInvalidation(t, e)
      BY <2>0, <2>7, Zenon DEF sessionInvalidationEventTypes
    <3> QED
      BY <2>1, <2>7, <3>1, <2>DisableProjected, Zenon
  <2>8. CASE e.type = "OIDCIdentityUnlinked"
    <3>1. out = projectSessionInvalidation(t, e)
      BY <2>0, <2>8, Zenon DEF sessionInvalidationEventTypes
    <3>2. e.arg \in OIDCIds
      BY <2>2, <2>8, Zenon DEF Fits
    <3> QED
      BY <2>1, <2>8, <3>1, <3>2, <2>OIDCUnlinkProjected, Zenon
  <2>9. CASE e.type = "UserManagedDeleted"
    <3>1. out = projectManagedUserDeletion(t, e)
      BY <2>0, <2>9, Zenon
    <3> QED
      BY <2>1, <2>9, <3>1, <2>DeletionProjected, Zenon
  <2>10. CASE e.type = "SCIMUserDeprovisioned"
    <3>1. out = projectSessionInvalidation(t, e)
      BY <2>0, <2>10, Zenon DEF sessionInvalidationEventTypes
    <3> QED
      BY <2>1, <2>10, <3>1, <2>DeprovisionProjected, Zenon
  <2>11. CASE e.type = "BootstrapAdminRoleGranted"
    <3>1. out = projectBootstrapAdminRoleGrant(t, e)
      BY <2>0, <2>11, Zenon
    <3>2. out.table = t
      BY <3>1, Zenon DEF projectBootstrapAdminRoleGrant, Outcome
    <3> QED
      BY <2>11, <3>2, MildSelf, <1>ProjectedElse, Zenon DEF UsersKept
  <2> QED
    BY <2>2, <2>3, <2>4, <2>5, <2>6, <2>7, <2>8, <2>9, <2>10, <2>11, Zenon DEF Fits

\* A group's own row and its membership rows.
<1> DEFINE Rows(g) == {g} \cup ({g} \X Users)
<1> HIDE DEF Rows
<1> DEFINE Within(t, new, g) ==
             /\ new = [k \in Keys |-> new[k]]
             /\ \A k \in Keys : k \notin Rows(g) => new[k] = t[k]
<1> HIDE DEF Within

\* Rows of other keys than a group's are none of its.
<1>RowsOfGroup.
    ASSUME NEW g \in Groups
    PROVE  /\ \A u \in Users : u \in Keys /\ u \notin Rows(g)
           /\ \A k \in Roles \cup Grants : k \in Keys /\ k \notin Rows(g)
           /\ \A h \in Groups : h # g =>
                /\ h \in Keys /\ h \notin Rows(g)
                /\ \A u \in Users : <<h, u>> \in Keys /\ <<h, u>> \notin Rows(g)
           /\ \A u \in Users : <<g, u>> \in Keys /\ <<g, u>> \in {g} \X Users /\ <<g, u>> # g
  <2> USE <1>RowsOfGroup
  <2>1. \A k \in {g} \X Users : k \in Members
    BY Zenon DEF Members
  <2>2. \A u \in Users : u \in Keys /\ u \notin Rows(g)
    BY <2>1, KeyTypes, Zenon DEF Rows
  <2>3. \A k \in Roles \cup Grants : k \in Keys /\ k \notin Rows(g)
    BY <2>1, KeyTypes, Zenon DEF Rows
  <2>4. \A h \in Groups : h # g => h \in Keys /\ h \notin Rows(g)
    BY <2>1, KeyTypes, Zenon DEF Rows
  <2>5. \A h \in Groups, u \in Users : <<h, u>> \in Keys /\ <<h, u>> # g
    BY KeyTypes, MemberKeys, Zenon
  <2>6. \A h \in Groups, u \in Users : h # g => <<h, u>> \notin {g} \X Users
    BY Zenon
  <2> QED
    BY <2>2, <2>3, <2>4, <2>5, <2>6, Zenon DEF Rows

\* A table in which only a group's rows have changed is a table.
<1>GroupTable.
    ASSUME NEW t, NEW new, NEW g \in Groups, IsTable(t), Within(t, new, g)
    PROVE  /\ IsTable(new) /\ \A u \in Users : new[u] = t[u]
           /\ \A k \in Roles \cup Grants : new[k] = t[k]
  <2> USE <1>GroupTable
  <2>1. \A k \in Users \cup Roles \cup Grants : new[k] = t[k]
    BY <1>RowsOfGroup, Zenon DEF Within
  <2> QED
    BY <2>1, Zenon DEF IsTable, Within, Live

\* The projectors of user groups write no row of a SCIM group.
<1>UserGroupRows.
    ASSUME NEW t, NEW new, NEW e, NEW g \in UserGroups, e.stream = g, IsTable(t), MembersLive(t),
           Within(t, new, g), Fits(e),
           ~Protected(e) => \A k \in Keys : Live(t, k) => Live(new, k)
    PROVE  Projected(t, new, e)
  <2> USE <1>UserGroupRows
  <2>1. g \in Groups /\ g \notin SCIMGroups /\ g \notin Users /\ g \notin Roles /\ g \notin Grants
    BY KeyTypes, Zenon
  <2>2. IsTable(new) /\ (\A u \in Users : new[u] = t[u]) /\ \A k \in Roles \cup Grants : new[k] = t[k]
    BY <2>1, <1>GroupTable, Zenon
  <2>3. \A h \in SCIMGroups : new[h] = t[h] /\ \A u \in Users : new[<<h, u>>] = t[<<h, u>>]
    BY <2>1, <1>RowsOfGroup, KeyTypes, Zenon DEF Within
  <2>4. MembersLive(new)
    BY <2>2, <2>3, Zenon DEF MembersLive, Live
  <2>5. ASSUME ~Protected(e)
        PROVE  Mild(t, new)
    <3>1. \A k \in Groups \cup Members : Live(t, k) => Live(new, k)
      BY <2>5, KeyTypes, Zenon
    <3>2. \A k \in SCIMGroups \X Users : new[k] = t[k]
      BY <2>3
    <3>3. \A u \in Users : Live(t, u) => Live(new, u) /\ new[u].disabled = t[u].disabled
      BY <2>2, Zenon DEF Live
    <3> QED
      BY <2>2, <3>1, <3>2, <3>3, Zenon DEF Mild
  <2>6. e.type \notin {"SCIMIdentityUnlinked", "SCIMUserDeprovisioned"}
    BY <2>1, Zenon DEF Fits
  <2> QED
    BY <2>2, <2>4, <2>5, <2>6, <1>ProjectedElse, Zenon DEF UsersKept

\* The statements on a group's rows.
<1>MemberStatements.
    ASSUME NEW t, NEW g \in Groups, t = [k \in Keys |-> t[k]], NEW us \in SUBSET Users, NEW x
    PROVE  /\ Within(t, Without(t, {g} \X Users), g)
           /\ Within(t, Without(t, Rows(g)), g)
           /\ Within(t, Put(t, g, x), g)
           /\ Within(t, InsertManagedUserGroupMember(t, g, us), g)
           /\ Within(t, InsertSCIMGroupMember(t, g, us), g)
  <2> USE <1>MemberStatements
  <2>1. g \in Keys /\ g \in Rows(g) /\ {g} \X Users \subseteq Rows(g) /\ {g} \X {u \in us : Live(t, u)} \subseteq Rows(g)
    BY KeyTypes, Zenon DEF Rows
  <2>2. Within(t, Without(t, {g} \X Users), g)
    BY <2>1, Zenon DEF Within, Without
  <2>3. Within(t, Without(t, Rows(g)), g)
    BY <2>1, Zenon DEF Within, Without
  <2>4. Within(t, Put(t, g, x), g)
    BY <2>1, Zenon DEF Within, Put
  <2>5. Within(t, InsertManagedUserGroupMember(t, g, us), g)
    BY <2>1, Zenon DEF Within, InsertManagedUserGroupMember
  <2>6. Within(t, InsertSCIMGroupMember(t, g, us), g)
    BY <2>1, Zenon DEF Within, InsertSCIMGroupMember
  <2> QED
    BY <2>2, <2>3, <2>4, <2>5, <2>6, Zenon

\* Two statements on a group's rows are within them.
<1>WithinTwice.
    ASSUME NEW t, NEW mid, NEW new, NEW g, Within(t, mid, g), Within(mid, new, g)
    PROVE  Within(t, new, g)
  BY <1>WithinTwice, Zenon DEF Within

\* The rows InsertManagedUserGroupMember and InsertSCIMGroupMember write are rows.
<1>MemberRows.
    ASSUME NEW g \in Groups, NEW us \in SUBSET Users
    PROVE  \A k \in {g} \X us : k # NoRow
  BY <1>MemberRows, KeyTypes, Zenon DEF Members

\* Which projector the registries give a group's event.
<1>GroupDispatch.
    ASSUME NEW t, NEW e, Fits(e), e.stream \in Groups
    PROVE  LET out == project(t, e, FALSE)
           IN  /\ e.type = "UserGroupCreated" => out = projectUserGroupCreated(t, e)
               /\ e.type = "UserGroupUpdated" => out = projectUserGroupUpdated(t, e)
               /\ e.type = "UserGroupMetadataUpdated" => out = projectUserGroupMetadataUpdated(t, e)
               /\ e.type = "UserGroupDeleted" => out = projectUserGroupDeleted(t, e)
               /\ e.type = "SCIMGroupCreated" => out = projectSCIMGroupCreated(t, e)
               /\ e.type = "SCIMGroupUpdated" => out = projectSCIMGroupUpdated(t, e)
               /\ e.type = "SCIMGroupMembershipsReplaced" =>
                    out = projectSCIMGroupMembershipsReplaced(t, e, FALSE)
               /\ e.type = "SCIMGroupDeleted" => out = projectSCIMGroupDeleted(t, e)
  <2> USE <1>GroupDispatch
  <2>1. e.stream \notin Users /\ e.stream \notin Roles /\ e.stream \notin Grants
    BY KeyTypes, Zenon
  <2>2. CASE e.stream \in UserGroups
    <3>1. e.stream \notin SCIMGroups
      BY <2>2, KeyTypes, Zenon
    <3>2. e.type \in {"UserGroupCreated", "UserGroupUpdated", "UserGroupMetadataUpdated", "UserGroupDeleted"}
      BY <2>1, <3>1, Zenon DEF Fits
    <3> QED
      BY <2>1, <2>2, <3>1, <3>2, Zenon DEF project, userGroupEventDefinitions, sessionInvalidationEventTypes
  <2>3. CASE e.stream \in SCIMGroups
    <3>1. e.stream \notin UserGroups
      BY <2>3, KeyTypes, Zenon
    <3>2. e.type \in {"SCIMGroupCreated", "SCIMGroupUpdated", "SCIMGroupMembershipsReplaced", "SCIMGroupDeleted"}
      BY <2>1, <3>1, Zenon DEF Fits
    <3> QED
      BY <2>1, <2>3, <3>1, <3>2, Zenon DEF project, scimGroupEventDefinitions, sessionInvalidationEventTypes
  <2> QED
    BY <2>2, <2>3, Zenon DEF Groups

\* The projectors of the user group registry, by event type.
<1>UserGroupProjected.
    ASSUME NEW t, NEW e, IsTable(t), MembersLive(t), Fits(e), NEW g \in UserGroups, e.stream = g,
           Accepts(t, e)
    PROVE  Projected(t, project(t, e, FALSE).table, e)
  <2> USE <1>UserGroupProjected
  <2> DEFINE out == project(t, e, FALSE)
  <2>0. g \in Groups /\ g \notin SCIMGroups /\ g \notin Users /\ g \notin Roles /\ g \notin Grants
    BY KeyTypes, Zenon
  <2>1. /\ e.type = "UserGroupCreated" => out = projectUserGroupCreated(t, e)
        /\ e.type = "UserGroupUpdated" => out = projectUserGroupUpdated(t, e)
        /\ e.type = "UserGroupMetadataUpdated" => out = projectUserGroupMetadataUpdated(t, e)
        /\ e.type = "UserGroupDeleted" => out = projectUserGroupDeleted(t, e)
    BY <2>0, <1>GroupDispatch, Zenon
  <2>2. out.ok
    BY Zenon DEF Accepts
  <2>3. t = [k \in Keys |-> t[k]]
    BY Zenon DEF IsTable
  <2> SUFFICES Projected(t, out.table, e)
    BY Zenon
  <2> HIDE DEF out
  <2>4. CASE e.type = "UserGroupCreated"
    <3> DEFINE a == Put(t, g, e.arg.name)
               ok == \A u \in e.arg.members : Live(a, u)
               new == InsertManagedUserGroupMember(a, g, e.arg.members)
    <3>1. e.arg.members \in SUBSET Users /\ e.arg.name # NoRow
      BY <2>0, <2>4, <1>RowsLive, Zenon DEF Fits
    <3>2. CASE e.version = 1 /\ ~Live(t, g) /\ GroupNameFree(t, g, e.arg.name)
      <4>1. out = Outcome(ok, a, new) /\ ok \in BOOLEAN
        BY <2>1, <2>4, <3>2, Zenon DEF projectUserGroupCreated, replaceUserGroupMembers, InsertManagedUserGroup, Put
      <4>2. a = [k \in Keys |-> a[k]] /\ \A k \in Keys : Live(t, k) => Live(a, k)
        BY <2>0, <2>3, <3>1, KeyTypes, Zenon DEF Live, Put
      <4>3. Within(t, a, g)
        BY <2>0, <2>3, <1>MemberStatements, Zenon
      <4> HIDE DEF ok, a
      <4>4. Within(a, new, g)
        BY <2>0, <3>1, <4>2, <1>MemberStatements, Zenon
      <4>5. \A k \in Keys : Live(a, k) => Live(new, k)
        BY <2>0, <3>1, <1>MemberRows, Zenon DEF InsertManagedUserGroupMember, Live
      <4> HIDE DEF new
      <4>6. out.table = new
        BY <2>2, <4>1, <1>OutcomeOK
      <4> QED
        BY <4>2, <4>3, <4>4, <4>5, <4>6, <1>WithinTwice, <1>UserGroupRows, Zenon
    <3>3. CASE ~(e.version = 1 /\ ~Live(t, g) /\ GroupNameFree(t, g, e.arg.name))
      <4>1. out = Outcome(FALSE, t, t)
        BY <2>1, <2>4, <3>3, Zenon DEF projectUserGroupCreated
      <4> QED
        BY <2>2, <4>1, <1>OutcomeRefused, Zenon
    <3> QED
      BY <3>2, <3>3, Zenon
  <2>5. CASE e.type = "UserGroupUpdated"
    <3> DEFINE named == Put(t, g, e.arg.name)
               a == Without(named, {g} \X Users)
               ok == \A u \in e.arg.members : Live(a, u)
               new == InsertManagedUserGroupMember(a, g, e.arg.members)
    <3>1. e.arg.members \in SUBSET Users
      BY <2>0, <2>5, Zenon DEF Fits
    <3>2. CASE e.version >= 2 /\ Live(t, g) /\ GroupNameFree(t, g, e.arg.name)
      <4>1. out = Outcome(ok, a, new) /\ ok \in BOOLEAN
        BY <2>1, <2>5, <3>2, Zenon DEF projectUserGroupUpdated, replaceUserGroupMembers,
             DeleteManagedUserGroupMembers, ReplaceManagedUserGroup, Put
      <4>2. a = [k \in Keys |-> a[k]]
        BY Zenon DEF Without
      <4>3. Within(t, a, g)
        <5>1. Within(t, named, g)
          BY <2>0, <2>3, <1>MemberStatements, Zenon
        <5>2. named = [k \in Keys |-> named[k]]
          BY <2>3, Zenon DEF Put
        <5> HIDE DEF named
        <5>3. Within(named, a, g)
          BY <2>0, <5>2, <1>MemberStatements, Zenon
        <5> QED
          BY <5>1, <5>3, <1>WithinTwice, Zenon
      <4> HIDE DEF ok, a
      <4>4. Within(a, new, g)
        BY <2>0, <3>1, <4>2, <1>MemberStatements, Zenon
      <4> HIDE DEF new
      <4>5. out.table = new
        BY <2>2, <4>1, <1>OutcomeOK
      <4>6. Protected(e)
        BY <2>5, Zenon DEF Protected, lastAdminReductionEventTypes
      <4> QED
        BY <4>3, <4>4, <4>5, <4>6, <1>WithinTwice, <1>UserGroupRows, Zenon
    <3>3. CASE ~(e.version >= 2 /\ Live(t, g) /\ GroupNameFree(t, g, e.arg.name))
      <4>1. out = Outcome(FALSE, t, t)
        BY <2>1, <2>5, <3>3, Zenon DEF projectUserGroupUpdated
      <4> QED
        BY <2>2, <4>1, <1>OutcomeRefused, Zenon
    <3> QED
      BY <3>2, <3>3, Zenon
  <2>6. CASE e.type = "UserGroupMetadataUpdated"
    <3> DEFINE ok == e.version >= 2 /\ Live(t, g) /\ GroupNameFree(t, g, e.arg)
               new == Put(t, g, e.arg)
    <3>1. out = Outcome(ok, t, new) /\ ok \in BOOLEAN
      BY <2>1, <2>6, Zenon DEF projectUserGroupMetadataUpdated, ReplaceManagedUserGroup, Put
    <3>2. Wrote(t, new, g, e.arg)
      BY <2>0, KeyTypes, <1>PutOnly, Zenon
    <3> HIDE DEF ok, new
    <3>3. out.table = new
      BY <2>2, <3>1, <1>OutcomeOK
    <3>4. UsersKept(t, new) /\ Mild(t, new)
      <4>1. g \in Groups \cup Roles \cup Grants /\ Only(t, new, g) /\ new[g] # NoRow
        BY <2>0, <2>6, <3>2, <1>RowsLive, Zenon DEF Wrote, Fits
      <4> QED
        BY <2>0, <4>1, <1>OtherPut, Zenon
    <3> QED
      BY <2>6, <3>3, <3>4, <1>ProjectedElse, Zenon
  <2>7. CASE e.type = "UserGroupDeleted"
    <3> DEFINE ok == e.version >= 2 /\ Live(t, g)
               new == Without(t, Rows(g))
    <3>1. out = Outcome(ok, t, new) /\ ok \in BOOLEAN
      BY <2>1, <2>7, Zenon DEF projectUserGroupDeleted, DeleteManagedUserGroup, Rows
    <3>2. Within(t, new, g)
      BY <2>0, <2>3, <1>MemberStatements, Zenon
    <3> HIDE DEF ok, new
    <3>3. out.table = new
      BY <2>2, <3>1, <1>OutcomeOK
    <3>4. Protected(e)
      BY <2>7, Zenon DEF Protected, lastAdminReductionEventTypes
    <3> QED
      BY <3>2, <3>3, <3>4, <1>UserGroupRows, Zenon
  <2> QED
    BY <2>0, <2>4, <2>5, <2>6, <2>7, Zenon DEF Fits

\* The projectors of the SCIM group registry, by event type.
<1>SCIMGroupProjected.
    ASSUME NEW t, NEW e, IsTable(t), MembersLive(t), Fits(e), NEW g \in SCIMGroups, e.stream = g,
           Accepts(t, e)
    PROVE  Projected(t, project(t, e, FALSE).table, e)
  <2> USE <1>SCIMGroupProjected
  <2> DEFINE out == project(t, e, FALSE)
  <2>0. g \in Groups /\ g \in Keys /\ g \notin UserGroups /\ g \notin Users /\ g \notin Roles /\ g \notin Grants
    BY KeyTypes, Zenon
  <2>1. /\ e.type = "SCIMGroupCreated" => out = projectSCIMGroupCreated(t, e)
        /\ e.type = "SCIMGroupUpdated" => out = projectSCIMGroupUpdated(t, e)
        /\ e.type = "SCIMGroupMembershipsReplaced" =>
             out = projectSCIMGroupMembershipsReplaced(t, e, FALSE)
        /\ e.type = "SCIMGroupDeleted" => out = projectSCIMGroupDeleted(t, e)
    BY <2>0, <1>GroupDispatch, Zenon
  <2>2. out.ok
    BY Zenon DEF Accepts
  <2>3. t = [k \in Keys |-> t[k]]
    BY Zenon DEF IsTable
  <2> SUFFICES Projected(t, out.table, e)
    BY Zenon
  <2> HIDE DEF out
  <2>4. CASE e.type = "SCIMGroupCreated"
    <3> DEFINE ok == e.version = 1 /\ ~Live(t, g) /\ ExternalIdFree(t, g, e.arg)
               new == Put(t, g, e.arg)
    <3>1. out = Outcome(ok, t, new) /\ ok \in BOOLEAN
      BY <2>1, <2>4, Zenon DEF projectSCIMGroupCreated, InsertSCIMGroup, Put
    <3>2. Wrote(t, new, g, e.arg)
      BY <2>0, <1>PutOnly, Zenon
    <3> HIDE DEF ok, new
    <3>3. out.table = new
      BY <2>2, <3>1, <1>OutcomeOK
    <3>4. UsersKept(t, new) /\ Mild(t, new)
      <4>1. g \in Groups \cup Roles \cup Grants /\ Only(t, new, g) /\ new[g] # NoRow
        BY <2>0, <2>4, <3>2, <1>RowsLive, Zenon DEF Wrote, Fits
      <4> QED
        BY <2>0, <4>1, <1>OtherPut, Zenon
    <3> QED
      BY <2>4, <3>3, <3>4, <1>ProjectedElse, Zenon
  <2>5. CASE e.type = "SCIMGroupUpdated"
    <3> DEFINE ok == e.version > 1 /\ Live(t, g) /\ ExternalIdFree(t, g, e.arg)
               new == Put(t, g, e.arg)
    <3>1. out = Outcome(ok, t, new) /\ ok \in BOOLEAN
      BY <2>1, <2>5, Zenon DEF projectSCIMGroupUpdated, UpdateSCIMGroup, Put
    <3>2. Wrote(t, new, g, e.arg)
      BY <2>0, <1>PutOnly, Zenon
    <3> HIDE DEF ok, new
    <3>3. out.table = new
      BY <2>2, <3>1, <1>OutcomeOK
    <3>4. UsersKept(t, new) /\ Mild(t, new)
      <4>1. g \in Groups \cup Roles \cup Grants /\ Only(t, new, g) /\ new[g] # NoRow
        BY <2>0, <2>5, <3>2, <1>RowsLive, Zenon DEF Wrote, Fits
      <4> QED
        BY <2>0, <4>1, <1>OtherPut, Zenon
    <3> QED
      BY <2>5, <3>3, <3>4, <1>ProjectedElse, Zenon
  <2>6. CASE e.type = "SCIMGroupMembershipsReplaced"
    <3> DEFINE a == Without(t, {g} \X Users)
               ok == /\ e.version > 1 /\ Live(t, g)
                     /\ FALSE \/ \A u \in e.arg : Live(t, u)
               new == InsertSCIMGroupMember(a, g, e.arg)
    <3>1. e.arg \in SUBSET Users
      BY <2>0, <2>6, Zenon DEF Fits
    <3>2. out = Outcome(ok, t, new) /\ ok \in BOOLEAN
      BY <2>1, <2>6, Zenon DEF projectSCIMGroupMembershipsReplaced, DeleteSCIMGroupMembers
    <3>3. ok => Live(t, g)
      BY Zenon
    <3>4. a = [k \in Keys |-> a[k]] /\ Removed(t, a, {g} \X Users)
      BY Zenon DEF Without, Removed
    <3>5. Within(t, a, g)
      BY <2>0, <2>3, <1>MemberStatements, Zenon
    <3> HIDE DEF ok, a
    <3>6. Within(a, new, g)
      BY <2>0, <3>1, <3>4, <1>MemberStatements, Zenon
    <3>7. \A u \in Users : a[u] = t[u]
      BY <2>0, <3>5, <1>RowsOfGroup, Zenon DEF Within
    <3>8. new[g] = t[g]
      <4>1. g \notin {g} \X Users /\ g \notin {g} \X {u \in e.arg : Live(a, u)}
        BY <2>0, <3>1, KeyTypes, Zenon DEF Members
      <4> QED
        BY <2>0, <3>4, <4>1, Zenon DEF InsertSCIMGroupMember, Removed
    <3>9. \A u \in Users : Live(new, <<g, u>>) => Live(t, u)
      <4>1. \A u \in Users : <<g, u>> \in Keys /\ a[<<g, u>>] = NoRow
        <5>1. \A u \in Users : <<g, u>> \in Keys /\ <<g, u>> \in {g} \X Users
          BY <2>0, MemberKeys, Zenon
        <5> QED
          BY <3>4, <5>1, Zenon DEF Removed
      <4>2. \A u \in Users : <<g, u>> \in {g} \X {v \in e.arg : Live(a, v)} => Live(a, u)
        BY Zenon
      <4> QED
        BY <3>7, <4>1, <4>2, Zenon DEF InsertSCIMGroupMember, Live
    <3> HIDE DEF new
    <3>10. ok /\ out.table = new
      BY <2>2, <3>2, <1>OutcomeOK
    <3>11. Within(t, new, g)
      BY <3>5, <3>6, <1>WithinTwice, Zenon
    <3>12. IsTable(new) /\ \A u \in Users : new[u] = t[u]
      BY <2>0, <3>11, <1>GroupTable, Zenon
    <3>13. \A h \in SCIMGroups : h # g => new[h] = t[h] /\ \A u \in Users : new[<<h, u>>] = t[<<h, u>>]
      BY <2>0, <3>11, <1>RowsOfGroup, KeyTypes, Zenon DEF Within
    <3>14. MembersLive(new)
      <4> SUFFICES ASSUME NEW h \in SCIMGroups, NEW u \in Users, Live(new, <<h, u>>)
                   PROVE  Live(new, h) /\ Live(new, u)
        BY Zenon DEF MembersLive
      <4>1. CASE h = g
        BY <3>3, <3>8, <3>9, <3>10, <3>12, <4>1, Zenon DEF Live
      <4>2. CASE h # g
        BY <3>12, <3>13, <4>2, Zenon DEF MembersLive, Live
      <4> QED
        BY <4>1, <4>2, Zenon
    <3>15. Protected(e)
      BY <2>6, Zenon DEF Protected, lastAdminReductionEventTypes
    <3> QED
      BY <2>6, <3>10, <3>12, <3>14, <3>15, <1>ProjectedElse, Zenon DEF UsersKept
  <2>7. CASE e.type = "SCIMGroupDeleted"
    <3> DEFINE ok == e.version > 1 /\ Live(t, g)
               new == Without(t, Rows(g))
    <3>1. out = Outcome(ok, t, new) /\ ok \in BOOLEAN
      BY <2>1, <2>7, Zenon DEF projectSCIMGroupDeleted, DeleteSCIMGroup, Rows
    <3>2. Within(t, new, g)
      BY <2>0, <2>3, <1>MemberStatements, Zenon
    <3>3. \A u \in Users : ~Live(new, <<g, u>>)
      BY <2>0, <1>RowsOfGroup, Zenon DEF Without, Rows, Live
    <3> HIDE DEF ok, new
    <3>4. out.table = new
      BY <2>2, <3>1, <1>OutcomeOK
    <3>5. IsTable(new) /\ \A u \in Users : new[u] = t[u]
      BY <2>0, <3>2, <1>GroupTable, Zenon
    <3>6. \A h \in SCIMGroups : h # g => new[h] = t[h] /\ \A u \in Users : new[<<h, u>>] = t[<<h, u>>]
      BY <2>0, <3>2, <1>RowsOfGroup, KeyTypes, Zenon DEF Within
    <3>7. MembersLive(new)
      BY <3>3, <3>5, <3>6, Zenon DEF MembersLive, Live
    <3>8. Protected(e)
      BY <2>7, Zenon DEF Protected, lastAdminReductionEventTypes
    <3> QED
      BY <2>7, <3>4, <3>5, <3>7, <3>8, <1>ProjectedElse, Zenon DEF UsersKept
  <2> QED
    BY <2>0, <2>4, <2>5, <2>6, <2>7, Zenon DEF Fits

\* The projectors of roles and grants, by event type.
<1>AuthorizationProjected.
    \A t, e : IsTable(t) /\ MembersLive(t) /\ Fits(e) /\ Accepts(t, e) /\ e.stream \in Roles \cup Grants =>
               Projected(t, project(t, e, FALSE).table, e)

  \* Which projector authorizationEventDefinitions gives.
  <2>AuthorizationDispatch.
      ASSUME NEW t, NEW e, Fits(e), e.stream \in Roles \cup Grants
      PROVE  LET out == project(t, e, FALSE)
             IN  /\ e.type = "RoleCreated" => out = projectAuthorizationRoleCreated(t, e)
                 /\ e.type = "RoleUpdated" => out = projectAuthorizationRoleUpdated(t, e)
                 /\ e.type = "RoleDeleted" => out = projectAuthorizationRoleDeleted(t, e)
                 /\ e.type = "GrantCreated" => out = projectAuthorizationGrantCreated(t, e, FALSE)
                 /\ e.type = "GrantUpdated" => out = projectAuthorizationGrantUpdated(t, e, FALSE)
                 /\ e.type = "GrantDeleted" => out = projectAuthorizationGrantDeleted(t, e)
    <3> USE <2>AuthorizationDispatch
    <3>1. e.stream \notin Users /\ e.stream \notin UserGroups /\ e.stream \notin SCIMGroups
      BY KeyTypes, Zenon
    <3>2. e.type \in {"RoleCreated", "RoleUpdated", "RoleDeleted", "GrantCreated", "GrantUpdated", "GrantDeleted"}
      BY <3>1, Zenon DEF Fits
    <3> QED
      BY <3>1, <3>2, Zenon DEF project, authorizationEventDefinitions, sessionInvalidationEventTypes

  \* The projectors of roles and grants write one row or remove it.
  <2>AuthorizationRow.
      ASSUME NEW t, NEW new, NEW e, NEW k \in Roles \cup Grants, e.stream = k, IsTable(t), MembersLive(t),
             Fits(e), NEW x, Wrote(t, new, k, x),
             \/ Protected(e) /\ x = NoRow
             \/ /\ Protected(e) \/ ~Live(t, k)
                /\ k \in Roles => x \in RoleRows
                /\ k \in Grants => x \in GrantRows
      PROVE  Projected(t, new, e)
    <3> USE <2>AuthorizationRow
    <3>1. k \notin Users /\ k \notin Groups /\ k \notin SCIMGroups /\ k \notin Members /\ k \in Keys
      BY KeyTypes, Zenon
    <3>2. e.type \notin {"SCIMIdentityUnlinked", "SCIMUserDeprovisioned"}
      BY <3>1, KeyTypes, Zenon DEF Fits
    <3>3. CASE Protected(e) /\ x = NoRow
      <4>1. \A j \in Users \cup Groups \cup Members : new[j] = t[j]
        BY <3>1, KeyTypes, Zenon DEF Wrote, Only
      <4>2. MembersLive(new)
        BY <4>1, KeyTypes, MemberKeys, Zenon DEF MembersLive, Live
      <4>3. \A j \in Roles \cup Grants : j # k => new[j] = t[j]
        BY KeyTypes, Zenon DEF Wrote, Only
      <4>4. IsTable(new)
        BY <3>3, <4>1, <4>3, Zenon DEF Wrote, Only, IsTable, Live
      <4>5. UsersKept(t, new)
        BY <4>1, <4>2, <4>4, Zenon DEF UsersKept
      <4> QED
        BY <3>2, <3>3, <4>5, <1>ProjectedElse, Zenon
    <3>4. CASE /\ Protected(e) \/ ~Live(t, k)
               /\ k \in Roles => x \in RoleRows
               /\ k \in Grants => x \in GrantRows
      <4>1. x # NoRow
        BY <3>4, <1>RowsLive, Zenon
      <4>2. k \in Groups \cup Roles \cup Grants /\ Only(t, new, k) /\ new[k] = x
        BY Zenon DEF Wrote
      <4>3. UsersKept(t, new) /\ (~Live(t, k) => Mild(t, new))
        BY <3>4, <4>1, <4>2, <1>OtherPut, Zenon
      <4> QED
        BY <3>2, <3>4, <4>3, <1>ProjectedElse, Zenon
    <3> QED
      BY <3>3, <3>4, Zenon

  \* A row is removed as one is written.
  <2>WithoutOne.
      ASSUME NEW t, IsTable(t), NEW k \in Keys
      PROVE  Wrote(t, Without(t, {k}), k, NoRow)
    BY <2>WithoutOne, Zenon DEF Wrote, Only, Without, IsTable
  <2> TAKE t, e
  <2> SUFFICES ASSUME IsTable(t), MembersLive(t), Fits(e), NEW k \in Roles \cup Grants, e.stream = k,
                      Accepts(t, e)
               PROVE  Projected(t, project(t, e, FALSE).table, e)
    BY Zenon
  <2> DEFINE out == project(t, e, FALSE)
  <2>0. k \in Keys /\ k \notin Users /\ k \notin UserGroups /\ k \notin SCIMGroups /\ ~(k \in Roles /\ k \in Grants)
    BY KeyTypes, Zenon
  <2>1. /\ e.type = "RoleCreated" => out = projectAuthorizationRoleCreated(t, e)
        /\ e.type = "RoleUpdated" => out = projectAuthorizationRoleUpdated(t, e)
        /\ e.type = "RoleDeleted" => out = projectAuthorizationRoleDeleted(t, e)
        /\ e.type = "GrantCreated" => out = projectAuthorizationGrantCreated(t, e, FALSE)
        /\ e.type = "GrantUpdated" => out = projectAuthorizationGrantUpdated(t, e, FALSE)
        /\ e.type = "GrantDeleted" => out = projectAuthorizationGrantDeleted(t, e)
    BY <2>AuthorizationDispatch, Zenon
  <2>2. out.ok
    BY Zenon DEF Accepts
  <2> SUFFICES Projected(t, out.table, e)
    BY Zenon
  <2> HIDE DEF out
  <2>3. ASSUME NEW ok \in BOOLEAN, NEW x, out = Outcome(ok, t, Put(t, k, x)),
               ok => Protected(e) \/ ~Live(t, k),
               k \in Roles => x \in RoleRows, k \in Grants => x \in GrantRows
        PROVE  Projected(t, out.table, e)
    <3>1. ok /\ out.table = Put(t, k, x)
      BY <2>2, <2>3, <1>OutcomeOK
    <3>2. Wrote(t, Put(t, k, x), k, x)
      BY <2>0, <1>PutOnly, Zenon
    <3> QED
      BY <2>3, <3>1, <3>2, <2>AuthorizationRow, Zenon
  <2>4. ASSUME NEW ok \in BOOLEAN, out = Outcome(ok, t, Without(t, {k})), Protected(e)
        PROVE  Projected(t, out.table, e)
    <3>1. ok /\ out.table = Without(t, {k})
      BY <2>2, <2>4, <1>OutcomeOK
    <3>2. Wrote(t, Without(t, {k}), k, NoRow)
      BY <2>0, <2>WithoutOne, Zenon
    <3> QED
      BY <2>4, <3>1, <3>2, <2>AuthorizationRow, Zenon
  <2>5. CASE e.type = "RoleCreated"
    <3> DEFINE ok == e.version = 1 /\ ~Live(t, k) /\ RoleNameFree(t, k, e.arg.name)
               x == e.arg
    <3>1. out = Outcome(ok, t, Put(t, k, x)) /\ ok \in BOOLEAN /\ (ok => ~Live(t, k))
      BY <2>1, <2>5, Zenon DEF projectAuthorizationRoleCreated, InsertAuthorizationRole, Put
    <3>2. k \in Roles
      BY <2>0, <2>5, Zenon DEF Fits
    <3>3. x \in RoleRows
      BY <2>0, <2>5, Zenon DEF Fits
    <3> HIDE DEF ok, x
    <3> QED
      BY <2>0, <2>3, <3>1, <3>2, <3>3, Zenon
  <2>6. CASE e.type = "RoleUpdated"
    <3> DEFINE ok == e.version >= 2 /\ Live(t, k) /\ RoleNameFree(t, k, e.arg.name)
               x == e.arg
    <3>1. out = Outcome(ok, t, Put(t, k, x)) /\ ok \in BOOLEAN
      BY <2>1, <2>6, Zenon DEF projectAuthorizationRoleUpdated, ReplaceAuthorizationRole, Put
    <3>2. k \in Roles
      BY <2>0, <2>6, Zenon DEF Fits
    <3>3. x \in RoleRows
      BY <2>0, <2>6, Zenon DEF Fits
    <3>4. Protected(e)
      BY <2>6, Zenon DEF Protected, lastAdminReductionEventTypes
    <3> HIDE DEF ok, x
    <3> QED
      BY <2>0, <2>3, <3>1, <3>2, <3>3, <3>4, Zenon
  <2>7. CASE e.type = "GrantCreated"
    <3> DEFINE ok == e.version = 1 /\ ~Live(t, k) /\ Grantable(t, e.arg, FALSE)
    <3>1. out = Outcome(ok, t, Put(t, k, e.arg)) /\ ok \in BOOLEAN /\ (ok => ~Live(t, k))
      BY <2>1, <2>7, Zenon DEF projectAuthorizationGrantCreated, InsertAuthorizationGrant, Put
    <3>2. k \in Grants /\ e.arg \in GrantRows
      BY <2>0, <2>7, Zenon DEF Fits
    <3> HIDE DEF ok
    <3> QED
      BY <2>0, <2>3, <3>1, <3>2, Zenon
  <2>8. CASE e.type = "GrantUpdated"
    <3> DEFINE ok == e.version >= 2 /\ Live(t, k) /\ Grantable(t, e.arg, FALSE)
    <3>1. out = Outcome(ok, t, Put(t, k, e.arg)) /\ ok \in BOOLEAN
      BY <2>1, <2>8, Zenon DEF projectAuthorizationGrantUpdated, ReplaceAuthorizationGrant, Put
    <3>2. k \in Grants /\ e.arg \in GrantRows
      BY <2>0, <2>8, Zenon DEF Fits
    <3>3. Protected(e)
      BY <2>8, Zenon DEF Protected, lastAdminReductionEventTypes
    <3> HIDE DEF ok
    <3> QED
      BY <2>0, <2>3, <3>1, <3>2, <3>3, Zenon
  <2>9. CASE e.type \in {"RoleDeleted", "GrantDeleted"}
    <3> DEFINE ok == e.version >= 2 /\ Live(t, k)
    <3>1. out = Outcome(ok, t, Without(t, {k})) /\ ok \in BOOLEAN
      BY <2>1, <2>9, Zenon DEF projectAuthorizationRoleDeleted, DeleteAuthorizationRole,
                               projectAuthorizationGrantDeleted, DeleteAuthorizationGrant
    <3>2. Protected(e)
      BY <2>9, Zenon DEF Protected, lastAdminReductionEventTypes
    <3> HIDE DEF ok
    <3> QED
      BY <2>4, <3>1, <3>2, Zenon
  <2> QED
    BY <2>0, <2>5, <2>6, <2>7, <2>8, <2>9, Zenon DEF Fits
<1> TAKE t, e
<1> SUFFICES ASSUME IsTable(t), MembersLive(t), Fits(e), Accepts(t, e)
             PROVE  Projected(t, project(t, e, FALSE).table, e)
  BY Zenon
<1>1. e.stream \in Users \/ e.stream \in UserGroups \/ e.stream \in SCIMGroups \/ e.stream \in Roles \cup Grants
  BY Zenon DEF Fits
<1> QED
  BY <1>1, <1>UserProjected, <1>UserGroupProjected, <1>SCIMGroupProjected, <1>AuthorizationProjected, Zenon

-----------------------------------------------------------------------------
(* The inductive invariant *)

IsBatch(b) == IsLog(b) /\ \A i \in 1 .. Len(b) : IsEvent(b[i]) /\ Fits(b[i])
TxFields(r) ==
  DOMAIN r = {"pc", "batch", "pinned", "version", "at", "before", "writes", "log"}
IsTx(r) ==
  /\ TxFields(r)
  /\ r.pc \in {"idle", "links", "read", "lock", "insert", "count", "commit"}
  /\ IsBatch(r.batch) /\ r.pinned \in BOOLEAN /\ r.version \in Nat /\ r.at \in Nat
  /\ r.log = [s \in Streams |-> r.log[s]]
  /\ \A s \in Streams : IsLog(r.log[s])

\* How far a transaction is.  Only the holder of the lock is past it.
Stage(r, holds) ==
  /\ r.pc \in {"links", "read", "lock", "insert"} => r.at < Len(r.batch)
  /\ r.pc = "links" => r.at = 0
  /\ r.pc = "insert" /\ Protected(r.batch[r.at + 1]) => holds
  /\ r.pc = "count" => holds /\ r.at <= Len(r.batch)
  /\ r.pc = "commit" => r.at = Len(r.batch)
  /\ r.at = 0 => r.writes = NoWrites /\ r.log = NoEvents

Unrevoked(log) == \A i \in 1 .. Len(log) : log[i].type # "RoleRevoked"

\* What a transaction makes of the committed table.
Seen(t, r, holds) ==
  LET view == Over(t, r.writes)
  IN  /\ IsTable(view) /\ MembersLive(view)
      /\ ~holds => Mild(t, view) /\ \A s \in Streams : Unrevoked(r.log[s])
      /\ \A u \in Users : view[u] # t[u] => r.log[u] # << >>

\* Only deleteSCIMUser's batches take SCIM links, of one user.
Unlinks(b) == \E i \in 1 .. Len(b) : b[i].type = "SCIMIdentityUnlinked"
UnlinksOf(t, log, r, u, id) ==
  LET view == Over(t, r.writes)
  IN  /\ \A v \in Users \ {u} : view[v] = t[v]
      /\ r.at # 0 => r.log[u] # << >>
      /\ \/ /\ r.batch = <<SCIMIdentityUnlinkedEvent(u, id)>>
            /\ r.pc = "links" => r.version <= Len(log[u])
            /\ r.pc # "links" /\ r.at = 0 =>
                 /\ r.pinned /\ r.version <= Len(log[u])
                 /\ r.version = Len(log[u]) => Live(t, u) /\ Cardinality(t[u].links) > 1
            /\ r.at # 0 /\ Live(view, u) => view[u].links # {}
         \/ /\ r.batch = <<SCIMIdentityUnlinkedEvent(u, id), SCIMUserDeprovisionedEvent(u)>>
            /\ r.pc # "links"
            /\ r.at = 2 => ~Live(view, u)
Linked(t, log, r) ==
  /\ ~Unlinks(r.batch) => \A u \in Users : KeepsLinks(t, Over(t, r.writes), u)
  /\ r.pc = "links" => Unlinks(r.batch)
  /\ Unlinks(r.batch) => \E u \in Users, id \in SCIMIds : UnlinksOf(t, log, r, u, id)

TxOK(t, log, r, holds) ==
  IsTx(r) /\ Stage(r, holds) /\ Seen(t, r, holds) /\ Linked(t, log, r)

\* Open transactions wait for each other's rows and streams.
Apart(r, q) ==
  /\ DOMAIN r.writes \cap DOMAIN q.writes = {}
  /\ \A s \in Streams : r.log[s] = << >> \/ q.log[s] = << >>

StoreOK(t, log) ==
  /\ IsTable(t) /\ MembersLive(t)
  /\ log = [s \in Streams |-> log[s]]
  /\ \A s \in Streams : IsLog(log[s])

IInv ==
  /\ StoreOK(table, events)
  /\ tx = [c \in Callers |-> tx[c]]
  /\ \A c \in Callers : TxOK(table, events, tx[c], lock = c)
  /\ \A c, d \in Callers : c # d => Apart(tx[c], tx[d])

-----------------------------------------------------------------------------
(* Transactions *)

\* What a transaction sees before its first write.
LEMMA OverNone ==
  ASSUME NEW t, IsTable(t)
  PROVE  Over(t, NoWrites) = t
<1>1. DOMAIN NoWrites = {}
  BY Zenon DEF NoWrites
<1>2. t = [k \in Keys |-> t[k]]
  BY Zenon DEF IsTable
<1>3. Over(t, NoWrites) = [k \in Keys |-> t[k]]
  BY <1>1, Zenon DEF Over
<1> QED
  BY <1>2, <1>3, Zenon

\* What it sees once it has written what a projector changed.
LEMMA OverChanges ==
  ASSUME NEW t, NEW new, IsTable(t), IsTable(new)
  PROVE  Over(t, Changes(t, new)) = new /\ DOMAIN Changes(t, new) = {k \in Keys : t[k] # new[k]}
<1>1. DOMAIN Changes(t, new) = {k \in Keys : t[k] # new[k]}
  BY Zenon DEF Changes
<1>2. \A k \in Keys : t[k] # new[k] => Changes(t, new)[k] = new[k]
  BY Zenon DEF Changes
<1>3. new = [k \in Keys |-> new[k]]
  BY Zenon DEF IsTable
<1>4. Over(t, Changes(t, new)) = [k \in Keys |-> new[k]]
  BY <1>1, <1>2, Zenon DEF Over
<1> QED
  BY <1>1, <1>3, <1>4, Zenon

\* A transaction that has written nothing sees the committed table.
LEMMA SeenFresh ==
  ASSUME NEW t, NEW r, NEW h, IsTable(t), MembersLive(t), r.writes = NoWrites, r.log = NoEvents
  PROVE  Seen(t, r, h) /\ \A u \in Users : KeepsLinks(t, Over(t, r.writes), u)
<1>1. Over(t, r.writes) = t
  BY OverNone, Zenon
<1>2. \A s \in Streams : r.log[s] = << >> /\ Unrevoked(r.log[s])
  BY DEF NoEvents, Unrevoked
<1> QED
  BY <1>1, <1>2, MildSelf, Zenon DEF Seen, KeepsLinks

\* The events and rows of a transaction that has written nothing.
LEMMA NothingWritten ==
  /\ NoEvents = [s \in Streams |-> NoEvents[s]]
  /\ \A s \in Streams : IsLog(NoEvents[s]) /\ NoEvents[s] = << >>
  /\ DOMAIN NoWrites = {}
<1>1. NoEvents = [s \in Streams |-> NoEvents[s]] /\ DOMAIN NoWrites = {}
  BY Zenon DEF NoEvents, NoWrites
<1>2. IsLog(<< >>)
  BY DEF IsLog
<1> QED
  BY <1>1, <1>2, Zenon DEF NoEvents

\* No batch: between calls.
LEMMA IdleOK ==
  ASSUME NEW t, NEW log, NEW h, IsTable(t), MembersLive(t)
  PROVE  TxOK(t, log, Idle, h)
<1>1. /\ TxFields(Idle) /\ Idle.pc = "idle" /\ Idle.batch = << >> /\ Idle.pinned = FALSE
      /\ Idle.version = 0 /\ Idle.at = 0 /\ Idle.writes = NoWrites /\ Idle.log = NoEvents
  BY DEF Idle, TxFields
<1>2. IsBatch(<< >>) /\ ~Unlinks(<< >>)
  BY DEF IsBatch, IsLog, Unlinks
<1>3. IsTx(Idle)
  <2>1. Idle.version \in Nat /\ Idle.at \in Nat
    BY <1>1
  <2> QED
    BY <1>1, <1>2, <2>1, NothingWritten, Zenon DEF IsTx
<1>4. Stage(Idle, h)
  BY <1>1, Zenon DEF Stage
<1>5. Seen(t, Idle, h) /\ \A u \in Users : KeepsLinks(t, Over(t, Idle.writes), u)
  BY <1>1, SeenFresh, Zenon
<1>6. Linked(t, log, Idle)
  BY <1>1, <1>2, <1>5, Zenon DEF Linked
<1> QED
  BY <1>3, <1>4, <1>5, <1>6, Zenon DEF TxOK

\* The steps that leave rows and events alone: reading the version, taking the
\* lock, counting.
Moved(r, q) ==
  /\ q.batch = r.batch /\ q.at = r.at /\ q.writes = r.writes /\ q.log = r.log
  /\ q.pinned = r.pinned /\ (r.pinned => q.version = r.version)
  /\ r.pc # "links" /\ q.pc # "links"

\* They keep what is known of the transaction.
LEMMA MovedOK ==
  ASSUME NEW t, NEW log, NEW r, NEW q, NEW h, NEW hq, TxOK(t, log, r, h), Moved(r, q),
         IsTx(q), Stage(q, hq), h => hq
  PROVE  TxOK(t, log, q, hq)
<1>1. Seen(t, q, hq)
  BY Zenon DEF TxOK, Seen, Moved
<1>2. Linked(t, log, q)
  <2>1. ~Unlinks(q.batch) => \A u \in Users : KeepsLinks(t, Over(t, q.writes), u)
    BY Zenon DEF TxOK, Linked, Moved
  <2>2. q.pc # "links"
    BY Zenon DEF Moved
  <2>3. ASSUME Unlinks(q.batch)
        PROVE  \E u \in Users, id \in SCIMIds : UnlinksOf(t, log, q, u, id)
    <3>1. PICK u \in Users, id \in SCIMIds : UnlinksOf(t, log, r, u, id)
      BY <2>3, Zenon DEF TxOK, Linked, Moved
    <3>2. UnlinksOf(t, log, q, u, id)
      BY <3>1, Zenon DEF UnlinksOf, Moved
    <3> QED
      BY <3>2, Zenon
  <2> QED
    BY <2>1, <2>2, <2>3, Zenon DEF Linked
<1> QED
  BY <1>1, <1>2, Zenon DEF TxOK

\* What a handler hands to AppendEvents: nothing is written yet, and only
\* deleteSCIMUser unlinks, after it has read the user's version.
Request(log, r) ==
  /\ IsTx(r) /\ r.at = 0 /\ 0 < Len(r.batch) /\ r.writes = NoWrites /\ r.log = NoEvents
  /\ \/ r.pc = "read" /\ ~Unlinks(r.batch)
     \/ /\ r.pc = "links"
        /\ \E u \in Users, id \in SCIMIds :
             r.batch = <<SCIMIdentityUnlinkedEvent(u, id)>> /\ r.version <= Len(log[u])

\* A one-event batch of deleteSCIMUser unlinks.
LEMMA UnlinkBatches ==
  ASSUME NEW u \in Users, NEW id \in SCIMIds
  PROVE  /\ Unlinks(<<SCIMIdentityUnlinkedEvent(u, id)>>)
         /\ Unlinks(<<SCIMIdentityUnlinkedEvent(u, id), SCIMUserDeprovisionedEvent(u)>>)
BY DEF Unlinks, SCIMIdentityUnlinkedEvent, SCIMUserDeprovisionedEvent, Event

\* A request is a transaction in order.
LEMMA RequestOK ==
  ASSUME NEW t, NEW log, NEW r, NEW h, IsTable(t), MembersLive(t), Request(log, r)
  PROVE  TxOK(t, log, r, h)
<1>1. IsTx(r) /\ r.at = 0 /\ r.writes = NoWrites /\ r.log = NoEvents /\ r.pc \in {"read", "links"}
  BY Zenon DEF Request
<1>2. r.at < Len(r.batch)
  BY Zenon DEF Request
<1>3. Stage(r, h)
  BY <1>1, <1>2, Zenon DEF Stage
<1>4. Seen(t, r, h) /\ \A u \in Users : KeepsLinks(t, Over(t, r.writes), u)
  BY <1>1, SeenFresh, Zenon
<1>5. Over(t, r.writes) = t
  BY <1>1, OverNone, Zenon
<1>6. Linked(t, log, r)
  <2>1. CASE r.pc = "read" /\ ~Unlinks(r.batch)
    BY <1>4, <2>1, Zenon DEF Linked
  <2>2. CASE r.pc = "links"
    <3>1. PICK u \in Users, id \in SCIMIds :
            r.batch = <<SCIMIdentityUnlinkedEvent(u, id)>> /\ r.version <= Len(log[u])
      BY <2>2, Zenon DEF Request
    <3>2. Unlinks(r.batch)
      BY <3>1, UnlinkBatches, Zenon
    <3>3. UnlinksOf(t, log, r, u, id)
      BY <1>1, <1>5, <2>2, <3>1, Zenon DEF UnlinksOf
    <3> QED
      BY <3>2, <3>3, Zenon DEF Linked
  <2> QED
    BY <2>1, <2>2, Zenon DEF Request
<1> QED
  BY <1>1, <1>3, <1>4, <1>6, Zenon DEF TxOK

\* UserIdentityLinkCount: the unlink alone is pinned to the version read before
\* the links were counted.
LEMMA LinkCountOK ==
  ASSUME NEW t, NEW log, NEW r, NEW h, IsTable(t), MembersLive(t), TxOK(t, log, r, h), r.pc = "links",
         NEW q, TxFields(q), IsTx(q), q.pc = "read", q.at = 0, q.writes = NoWrites, q.log = NoEvents,
         LET u == r.batch[1].stream
         IN  \/ /\ Live(t, u) /\ Cardinality(t[u].links) > 1
                /\ q.batch = r.batch /\ q.pinned = TRUE /\ q.version = r.version
             \/ q.batch = <<r.batch[1], SCIMUserDeprovisionedEvent(u)>>
  PROVE  TxOK(t, log, q, h)
<1>1. PICK u \in Users, id \in SCIMIds : UnlinksOf(t, log, r, u, id)
  BY Zenon DEF TxOK, Linked
<1>2. r.batch = <<SCIMIdentityUnlinkedEvent(u, id)>> /\ r.version <= Len(log[u])
  BY <1>1, Zenon DEF UnlinksOf
<1>3. r.batch[1] = SCIMIdentityUnlinkedEvent(u, id) /\ r.batch[1].stream = u /\ Len(r.batch) = 1
  BY <1>2 DEF SCIMIdentityUnlinkedEvent, Event
<1>4. Over(t, q.writes) = t
  BY OverNone, Zenon
<1>5. Seen(t, q, h)
  BY SeenFresh, Zenon
<1>6. UnlinksOf(t, log, q, u, id) /\ Unlinks(q.batch)
  <2>1. CASE /\ Live(t, u) /\ Cardinality(t[u].links) > 1
             /\ q.batch = r.batch /\ q.pinned = TRUE /\ q.version = r.version
    BY <1>2, <1>4, <2>1, UnlinkBatches, Zenon DEF UnlinksOf
  <2>2. CASE q.batch = <<r.batch[1], SCIMUserDeprovisionedEvent(u)>>
    <3>1. q.at # 2
      OBVIOUS
    <3> QED
      BY <1>3, <1>4, <2>2, <3>1, UnlinkBatches, Zenon DEF UnlinksOf
  <2> QED
    BY <1>3, <2>1, <2>2, Zenon
<1>7. Linked(t, log, q)
  BY <1>6, Zenon DEF Linked
<1>8. q.at < Len(q.batch)
  <2>1. q.batch = r.batch \/ q.batch = <<r.batch[1], SCIMUserDeprovisionedEvent(u)>>
    BY <1>3, Zenon
  <2>2. \A a, b : Len(<<a, b>>) = 2
    OBVIOUS
  <2>3. Len(q.batch) \in {1, 2}
    BY <1>3, <2>1, <2>2, Zenon
  <2>4. q.at = 0
    OBVIOUS
  <2> QED
    BY <2>3, <2>4
<1>9. Stage(q, h)
  BY <1>8, Zenon DEF Stage
<1> QED
  BY <1>5, <1>7, <1>9, Zenon DEF TxOK

-----------------------------------------------------------------------------
(* The handlers *)

\* An event a handler appends other than an unlink.
Plain(e) == IsEvent(e) /\ Fits(e) /\ e.type # "SCIMIdentityUnlinked"
Made(e, type, s, arg) == IsEvent(e) /\ e.type = type /\ e.stream = s /\ e.arg = arg

\* The fields of a new event.
LEMMA EventMade ==
  ASSUME NEW type, NEW s, NEW arg
  PROVE  Made(Event(type, s, arg), type, s, arg)
BY DEF Made, IsEvent, Event

\* The events of users fit the projectors.
LEMMA UserEvents ==
  /\ \A u \in Users, x \in Emails :
       Plain(UserCreatedEvent(u, x)) /\ Plain(UserManagedUpdatedEvent(u, x))
  /\ \A u \in Users :
       /\ Plain(UserManagedDeletedEvent(u)) /\ Plain(BootstrapAdminRoleGrantedEvent(u))
       /\ Plain(UserDisabledEvent(u)) /\ Plain(RoleRevokedEvent(u))
       /\ Plain(SCIMUserDeprovisionedEvent(u))
  /\ \A u \in Users, x \in OIDCIds : Plain(OIDCIdentityUnlinkedEvent(u, x))
  /\ \A u \in Users, x \in OIDCIds, y \in Emails : Plain(OIDCIdentityLinkedEvent(u, x, y))
  /\ \A u \in Users, x \in SCIMIds, y \in Emails : Plain(SCIMIdentityLinkedEvent(u, x, y))
<1>1. ASSUME NEW u \in Users, NEW x \in Emails
      PROVE  Plain(UserCreatedEvent(u, x))
  <2>1. Made(UserCreatedEvent(u, x), "UserCreated", u, x)
    BY EventMade, Zenon DEF UserCreatedEvent
  <2> QED
    BY <2>1, Zenon DEF Made, Plain, Fits
<1>2. ASSUME NEW u \in Users, NEW x \in Emails
      PROVE  Plain(UserManagedUpdatedEvent(u, x))
  <2>1. Made(UserManagedUpdatedEvent(u, x), "UserManagedUpdated", u, x)
    BY EventMade, Zenon DEF UserManagedUpdatedEvent
  <2> QED
    BY <2>1, Zenon DEF Made, Plain, Fits
<1>3. ASSUME NEW u \in Users
      PROVE  Plain(UserManagedDeletedEvent(u))
  <2>1. Made(UserManagedDeletedEvent(u), "UserManagedDeleted", u, NoRow)
    BY EventMade, Zenon DEF UserManagedDeletedEvent
  <2> QED
    BY <2>1, Zenon DEF Made, Plain, Fits
<1>4. ASSUME NEW u \in Users
      PROVE  Plain(BootstrapAdminRoleGrantedEvent(u))
  <2>1. Made(BootstrapAdminRoleGrantedEvent(u), "BootstrapAdminRoleGranted", u, NoRow)
    BY EventMade, Zenon DEF BootstrapAdminRoleGrantedEvent
  <2> QED
    BY <2>1, Zenon DEF Made, Plain, Fits
<1>5. ASSUME NEW u \in Users
      PROVE  Plain(UserDisabledEvent(u))
  <2>1. Made(UserDisabledEvent(u), "UserDisabled", u, NoRow)
    BY EventMade, Zenon DEF UserDisabledEvent
  <2> QED
    BY <2>1, Zenon DEF Made, Plain, Fits
<1>6. ASSUME NEW u \in Users
      PROVE  Plain(RoleRevokedEvent(u))
  <2>1. Made(RoleRevokedEvent(u), "RoleRevoked", u, NoRow)
    BY EventMade, Zenon DEF RoleRevokedEvent
  <2> QED
    BY <2>1, Zenon DEF Made, Plain, Fits
<1>7. ASSUME NEW u \in Users
      PROVE  Plain(SCIMUserDeprovisionedEvent(u))
  <2>1. Made(SCIMUserDeprovisionedEvent(u), "SCIMUserDeprovisioned", u, NoRow)
    BY EventMade, Zenon DEF SCIMUserDeprovisionedEvent
  <2> QED
    BY <2>1, Zenon DEF Made, Plain, Fits
<1>8. ASSUME NEW u \in Users, NEW x \in OIDCIds
      PROVE  Plain(OIDCIdentityUnlinkedEvent(u, x))
  <2>1. Made(OIDCIdentityUnlinkedEvent(u, x), "OIDCIdentityUnlinked", u, x)
    BY EventMade, Zenon DEF OIDCIdentityUnlinkedEvent
  <2> QED
    BY <2>1, Zenon DEF Made, Plain, Fits
<1>9. ASSUME NEW u \in Users, NEW x \in OIDCIds, NEW y \in Emails
      PROVE  Plain(OIDCIdentityLinkedEvent(u, x, y))
  <2>1. Made(OIDCIdentityLinkedEvent(u, x, y), "OIDCIdentityLinked", u, [id |-> x, email |-> y])
    BY EventMade, Zenon DEF OIDCIdentityLinkedEvent
  <2>2. [id |-> x, email |-> y].id = x
    OBVIOUS
  <2> QED
    BY <2>1, <2>2, Zenon DEF Made, Plain, Fits
<1>10. ASSUME NEW u \in Users, NEW x \in SCIMIds, NEW y \in Emails
      PROVE  Plain(SCIMIdentityLinkedEvent(u, x, y))
  <2>1. Made(SCIMIdentityLinkedEvent(u, x, y), "SCIMIdentityLinked", u, [id |-> x, email |-> y])
    BY EventMade, Zenon DEF SCIMIdentityLinkedEvent
  <2>2. [id |-> x, email |-> y].id = x
    OBVIOUS
  <2> QED
    BY <2>1, <2>2, Zenon DEF Made, Plain, Fits
<1> QED
  BY <1>1, <1>2, <1>3, <1>4, <1>5, <1>6, <1>7, <1>8, <1>9, <1>10, Zenon

Append0(batch) == [Idle EXCEPT !.pc = "read", !.batch = batch]
Started(c) == \E r : Request(events, r) /\ Begin(c, r)

\* Whatever handler is called, it starts a request.
LEMMA HandlerStarted ==
  \A c : StoreOK(table, events) /\ Handler(c) => Started(c)

\* The events of groups fit the projectors.
<1>GroupEvents.
    /\ \A g \in UserGroups, n \in GroupNames, x \in SUBSET Users :
         Plain(UserGroupCreatedEvent(g, n, x)) /\ Plain(UserGroupUpdatedEvent(g, n, x))
    /\ \A g \in UserGroups, n \in GroupNames : Plain(UserGroupMetadataUpdatedEvent(g, n))
    /\ \A g \in UserGroups : Plain(UserGroupDeletedEvent(g))
    /\ \A g \in SCIMGroups, x \in ExternalIds :
         Plain(SCIMGroupCreatedEvent(g, x)) /\ Plain(SCIMGroupUpdatedEvent(g, x))
    /\ \A g \in SCIMGroups : Plain(SCIMGroupDeletedEvent(g))
    /\ \A g \in SCIMGroups, x \in SUBSET Users : Plain(SCIMGroupMembershipsReplacedEvent(g, x))
  <2>1. ASSUME NEW g \in UserGroups, NEW n \in GroupNames, NEW x \in SUBSET Users
        PROVE  Plain(UserGroupCreatedEvent(g, n, x))
    <3> DEFINE arg == [name |-> n, members |-> x]
    <3>1. Made(UserGroupCreatedEvent(g, n, x), "UserGroupCreated", g, arg)
      BY EventMade, Zenon DEF UserGroupCreatedEvent
    <3>2. arg.name = n /\ arg.members = x
      OBVIOUS
    <3> HIDE DEF arg
    <3> QED
      BY <3>1, <3>2, Zenon DEF Made, Plain, Fits
  <2>2. ASSUME NEW g \in UserGroups, NEW n \in GroupNames, NEW x \in SUBSET Users
        PROVE  Plain(UserGroupUpdatedEvent(g, n, x))
    <3> DEFINE arg == [name |-> n, members |-> x]
    <3>1. Made(UserGroupUpdatedEvent(g, n, x), "UserGroupUpdated", g, arg)
      BY EventMade, Zenon DEF UserGroupUpdatedEvent
    <3>2. arg.name = n /\ arg.members = x
      OBVIOUS
    <3> HIDE DEF arg
    <3> QED
      BY <3>1, <3>2, Zenon DEF Made, Plain, Fits
  <2>3. ASSUME NEW g \in UserGroups, NEW n \in GroupNames
        PROVE  Plain(UserGroupMetadataUpdatedEvent(g, n))
    <3>1. Made(UserGroupMetadataUpdatedEvent(g, n), "UserGroupMetadataUpdated", g, n)
      BY EventMade, Zenon DEF UserGroupMetadataUpdatedEvent
    <3> QED
      BY <3>1, Zenon DEF Made, Plain, Fits
  <2>4. ASSUME NEW g \in UserGroups
        PROVE  Plain(UserGroupDeletedEvent(g))
    <3>1. Made(UserGroupDeletedEvent(g), "UserGroupDeleted", g, NoRow)
      BY EventMade, Zenon DEF UserGroupDeletedEvent
    <3> QED
      BY <3>1, Zenon DEF Made, Plain, Fits
  <2>5. ASSUME NEW g \in SCIMGroups, NEW x \in ExternalIds
        PROVE  Plain(SCIMGroupCreatedEvent(g, x))
    <3>1. Made(SCIMGroupCreatedEvent(g, x), "SCIMGroupCreated", g, x)
      BY EventMade, Zenon DEF SCIMGroupCreatedEvent
    <3> QED
      BY <3>1, Zenon DEF Made, Plain, Fits
  <2>6. ASSUME NEW g \in SCIMGroups, NEW x \in ExternalIds
        PROVE  Plain(SCIMGroupUpdatedEvent(g, x))
    <3>1. Made(SCIMGroupUpdatedEvent(g, x), "SCIMGroupUpdated", g, x)
      BY EventMade, Zenon DEF SCIMGroupUpdatedEvent
    <3> QED
      BY <3>1, Zenon DEF Made, Plain, Fits
  <2>7. ASSUME NEW g \in SCIMGroups, NEW x \in SUBSET Users
        PROVE  Plain(SCIMGroupMembershipsReplacedEvent(g, x))
    <3>1. Made(SCIMGroupMembershipsReplacedEvent(g, x), "SCIMGroupMembershipsReplaced", g, x)
      BY EventMade, Zenon DEF SCIMGroupMembershipsReplacedEvent
    <3> QED
      BY <3>1, Zenon DEF Made, Plain, Fits
  <2>8. ASSUME NEW g \in SCIMGroups
        PROVE  Plain(SCIMGroupDeletedEvent(g))
    <3>1. Made(SCIMGroupDeletedEvent(g), "SCIMGroupDeleted", g, NoRow)
      BY EventMade, Zenon DEF SCIMGroupDeletedEvent
    <3> QED
      BY <3>1, Zenon DEF Made, Plain, Fits
  <2> QED
    BY <2>1, <2>2, <2>3, <2>4, <2>5, <2>6, <2>7, <2>8, Zenon

\* The events of roles and grants fit the projectors.
<1>AuthorizationEvents.
    /\ \A r \in Roles, x \in RoleRows :
         Plain(AuthorizationRoleCreatedEvent(r, x)) /\ Plain(AuthorizationRoleUpdatedEvent(r, x))
    /\ \A r \in Roles : Plain(AuthorizationRoleDeletedEvent(r))
    /\ \A g \in Grants, x \in GrantRows :
         Plain(AuthorizationGrantCreatedEvent(g, x)) /\ Plain(AuthorizationGrantUpdatedEvent(g, x))
    /\ \A g \in Grants : Plain(AuthorizationGrantDeletedEvent(g))
  <2>1. ASSUME NEW r \in Roles, NEW x \in RoleRows
        PROVE  Plain(AuthorizationRoleCreatedEvent(r, x))
    <3>1. Made(AuthorizationRoleCreatedEvent(r, x), "RoleCreated", r, x)
      BY EventMade, Zenon DEF AuthorizationRoleCreatedEvent
    <3> QED
      BY <3>1, Zenon DEF Made, Plain, Fits
  <2>2. ASSUME NEW r \in Roles, NEW x \in RoleRows
        PROVE  Plain(AuthorizationRoleUpdatedEvent(r, x))
    <3>1. Made(AuthorizationRoleUpdatedEvent(r, x), "RoleUpdated", r, x)
      BY EventMade, Zenon DEF AuthorizationRoleUpdatedEvent
    <3> QED
      BY <3>1, Zenon DEF Made, Plain, Fits
  <2>3. ASSUME NEW r \in Roles
        PROVE  Plain(AuthorizationRoleDeletedEvent(r))
    <3>1. Made(AuthorizationRoleDeletedEvent(r), "RoleDeleted", r, NoRow)
      BY EventMade, Zenon DEF AuthorizationRoleDeletedEvent
    <3> QED
      BY <3>1, Zenon DEF Made, Plain, Fits
  <2>4. ASSUME NEW g \in Grants, NEW x \in GrantRows
        PROVE  Plain(AuthorizationGrantCreatedEvent(g, x))
    <3>1. Made(AuthorizationGrantCreatedEvent(g, x), "GrantCreated", g, x)
      BY EventMade, Zenon DEF AuthorizationGrantCreatedEvent
    <3> QED
      BY <3>1, Zenon DEF Made, Plain, Fits
  <2>5. ASSUME NEW g \in Grants, NEW x \in GrantRows
        PROVE  Plain(AuthorizationGrantUpdatedEvent(g, x))
    <3>1. Made(AuthorizationGrantUpdatedEvent(g, x), "GrantUpdated", g, x)
      BY EventMade, Zenon DEF AuthorizationGrantUpdatedEvent
    <3> QED
      BY <3>1, Zenon DEF Made, Plain, Fits
  <2>6. ASSUME NEW g \in Grants
        PROVE  Plain(AuthorizationGrantDeletedEvent(g))
    <3>1. Made(AuthorizationGrantDeletedEvent(g), "GrantDeleted", g, NoRow)
      BY EventMade, Zenon DEF AuthorizationGrantDeletedEvent
    <3> QED
      BY <3>1, Zenon DEF Made, Plain, Fits
  <2> QED
    BY <2>1, <2>2, <2>3, <2>4, <2>5, <2>6, Zenon

\* What AppendEvents and AppendEventsWithVersion are given.
<1> DEFINE Plains(b) == IsLog(b) /\ 0 < Len(b) /\ \A i \in 1 .. Len(b) : Plain(b[i])
<1> HIDE DEF Plains
<1> DEFINE AppendAt(batch, version) ==
             [Idle EXCEPT !.pc = "read", !.batch = batch, !.pinned = TRUE, !.version = version]
<1> HIDE DEF AppendAt

\* The batches the handlers append have one event or two.
<1>OneOrTwo.
    ASSUME NEW e, NEW f, Plain(e), Plain(f)
    PROVE  Plains(<<e>>) /\ Plains(<<e, f>>)
  <2> USE <1>OneOrTwo
  <2>1. /\ IsLog(<<e>>) /\ 0 < Len(<<e>>) /\ Len(<<e>>) = 1 /\ <<e>>[1] = e
        /\ \A i \in 1 .. 1 : i = 1
    BY DEF IsLog
  <2>2. /\ IsLog(<<e, f>>) /\ 0 < Len(<<e, f>>) /\ Len(<<e, f>>) = 2
        /\ <<e, f>>[1] = e /\ <<e, f>>[2] = f
        /\ \A i \in 1 .. 2 : i = 1 \/ i = 2
    BY DEF IsLog
  <2> QED
    BY <2>1, <2>2, Zenon DEF Plains

\* A batch without an unlink is a request, pinned or not.
<1>PlainRequest.
    ASSUME NEW log, NEW b, Plains(b), NEW version \in Nat
    PROVE  Request(log, Append0(b)) /\ Request(log, AppendAt(b, version))
  <2> USE <1>PlainRequest
  <2>1. IsBatch(b) /\ ~Unlinks(b) /\ 0 < Len(b)
    BY Zenon DEF Plains, IsBatch, Plain, Unlinks
  <2>2. ASSUME NEW r, TxFields(r), r.pc = "read", r.batch = b, r.at = 0, r.writes = NoWrites,
               r.log = NoEvents, r.pinned \in BOOLEAN, r.version \in Nat
        PROVE  Request(log, r)
    <3>1. r.at \in Nat
      BY <2>2
    <3>2. IsTx(r)
      BY <2>1, <2>2, <3>1, NothingWritten, Zenon DEF IsTx
    <3> QED
      BY <2>1, <2>2, <3>2, Zenon DEF Request
  <2>3. Request(log, Append0(b))
    <3> DEFINE r == Append0(b)
    <3>1. /\ TxFields(r) /\ r.pc = "read" /\ r.batch = b /\ r.at = 0 /\ r.writes = NoWrites
          /\ r.log = NoEvents /\ r.pinned \in BOOLEAN /\ r.version \in Nat
      BY DEF Append0, Idle, TxFields
    <3> HIDE DEF r
    <3> QED
      BY <2>2, <3>1, Zenon DEF r
  <2>4. Request(log, AppendAt(b, version))
    <3> DEFINE r == AppendAt(b, version)
    <3>1. /\ TxFields(r) /\ r.pc = "read" /\ r.batch = b /\ r.at = 0 /\ r.writes = NoWrites
          /\ r.log = NoEvents /\ r.pinned \in BOOLEAN /\ r.version \in Nat
      BY DEF AppendAt, Idle, TxFields
    <3> HIDE DEF r
    <3> QED
      BY <2>2, <3>1, Zenon DEF r
  <2> QED
    BY <2>3, <2>4, Zenon

\* A handler that appends a batch without an unlink starts a request.
<1>PlainStarted.
    ASSUME NEW c, NEW b, Plains(b), NEW version \in Nat,
           AppendEvents(c, b) \/ AppendEventsWithVersion(c, b, version)
    PROVE  Started(c)
  BY <1>PlainStarted, <1>PlainRequest, Zenon DEF AppendEvents, AppendEventsWithVersion, Append0, AppendAt, Started

\* The version a client last read is a number.
<1>VersionsNat.
    ASSUME StoreOK(table, events)
    PROVE  \A s \in Streams : Len(events[s]) \in Nat
  BY <1>VersionsNat, Zenon DEF StoreOK, IsLog

\* The CRUD kernel and the other handlers of one event.
<1>OneStarted.
    ASSUME NEW c, NEW e, StoreOK(table, events), Plain(e),
           create(c, e) \/ update(c, e) \/ delete(c, e)
    PROVE  Started(c)
  <2> USE <1>OneStarted
  <2>1. e.stream \in Streams
    BY Zenon DEF Plain, Fits, Streams, Groups
  <2>2. Len(events[e.stream]) \in Nat
    BY <2>1, <1>VersionsNat, Zenon
  <2>3. Plains(<<e>>)
    BY <1>OneOrTwo, Zenon
  <2>4. AppendEvents(c, <<e>>) \/ AppendEventsWithVersion(c, <<e>>, Len(events[e.stream]))
    BY Zenon DEF create, update, delete
  <2> QED
    BY <2>2, <2>3, <2>4, <1>PlainStarted, Zenon

\* deleteSCIMUser starts with the version it read and its links uncounted.
<1>UnlinkStarted.
    ASSUME NEW c, StoreOK(table, events), deleteSCIMUser(c)
    PROVE  Started(c)
  <2> USE <1>UnlinkStarted
  <2>1. PICK u \in Users, id \in SCIMIds :
          Begin(c, [Idle EXCEPT !.pc = "links", !.version = Len(events[u]),
                                !.batch = <<SCIMIdentityUnlinkedEvent(u, id)>>])
    BY Zenon DEF deleteSCIMUser
  <2> DEFINE e == SCIMIdentityUnlinkedEvent(u, id)
             r == [Idle EXCEPT !.pc = "links", !.version = Len(events[u]), !.batch = <<e>>]
  <2>2. Made(e, "SCIMIdentityUnlinked", u, id)
    BY EventMade, Zenon DEF SCIMIdentityUnlinkedEvent
  <2>3. IsEvent(e) /\ Fits(e)
    BY <2>2, Zenon DEF Made, Fits
  <2>4. Len(events[u]) \in Nat
    BY KeyTypes, <1>VersionsNat, Zenon
  <2>5. Begin(c, r)
    BY <2>1, Zenon
  <2>6. <<e>> = <<SCIMIdentityUnlinkedEvent(u, id)>>
    BY Zenon
  <2> HIDE DEF e
  <2> DEFINE b == <<e>>
             n == Len(events[u])
  <2>7. b = <<e>> /\ n = Len(events[u])
    BY Zenon
  <2> HIDE DEF b, n
  <2>8. /\ TxFields(r) /\ r.pc = "links" /\ r.batch = b /\ r.at = 0 /\ r.writes = NoWrites
        /\ r.log = NoEvents /\ r.pinned \in BOOLEAN /\ r.version = n /\ r.at \in Nat
    BY <2>7 DEF TxFields, Idle
  <2> HIDE DEF r
  <2>9. /\ IsLog(<<e>>) /\ 0 < Len(<<e>>) /\ Len(<<e>>) = 1 /\ <<e>>[1] = e
        /\ \A i \in 1 .. 1 : i = 1
    BY DEF IsLog
  <2>10. IsBatch(<<e>>)
    BY <2>3, <2>9, Zenon DEF IsBatch
  <2>11. IsTx(r)
    BY <2>4, <2>7, <2>8, <2>10, NothingWritten, Zenon DEF IsTx
  <2>12. Len(events[u]) <= Len(events[u])
    BY <2>4
  <2>13. Request(events, r)
    BY <2>6, <2>7, <2>8, <2>9, <2>11, <2>12, Zenon DEF Request
  <2> QED
    BY <2>5, <2>13, Zenon DEF Started, r
<1> TAKE c
<1> SUFFICES ASSUME StoreOK(table, events), Handler(c)
             PROVE  Started(c)
  BY Zenon
<1>1. {} \in SUBSET Users
  OBVIOUS
<1>2. ASSUME userDomain(c) PROVE Started(c)
  BY <1>2, UserEvents, <1>OneStarted, Zenon DEF userDomain
<1>3. ASSUME userGroupDomain(c) PROVE Started(c)
  BY <1>1, <1>3, <1>GroupEvents, <1>OneStarted, Zenon DEF userGroupDomain
<1>4. ASSUME roleDomain(c) PROVE Started(c)
  BY <1>4, <1>AuthorizationEvents, <1>OneStarted, Zenon DEF roleDomain
<1>5. ASSUME grantDomain(c) PROVE Started(c)
  BY <1>5, <1>AuthorizationEvents, <1>OneStarted, Zenon DEF grantDomain
<1>6. ASSUME StoreCalls(c) PROVE Started(c)
  BY <1>6, UserEvents, <1>GroupEvents, <1>OneStarted, Zenon DEF StoreCalls
<1>7. ASSUME createFirstBootUser(c) PROVE Started(c)
  <2>1. PICK u \in Users, email \in Emails :
          AppendEvents(c, <<UserCreatedEvent(u, email), BootstrapAdminRoleGrantedEvent(u)>>)
    BY <1>7, Zenon DEF createFirstBootUser
  <2>2. Plains(<<UserCreatedEvent(u, email), BootstrapAdminRoleGrantedEvent(u)>>)
    BY UserEvents, <1>OneOrTwo, Zenon
  <2>3. Len(events[u]) \in Nat
    BY KeyTypes, <1>VersionsNat, Zenon
  <2> QED
    BY <2>1, <2>2, <2>3, <1>PlainStarted, Zenon
<1>8. ASSUME resolveUser(c) PROVE Started(c)
  <2>1. PICK id \in OIDCIds, email \in Emails, u \in Users :
          \/ AppendEventsWithVersion(c, <<OIDCIdentityLinkedEvent(u, id, email)>>, Len(events[u]))
          \/ AppendEvents(c, <<UserCreatedEvent(u, email), OIDCIdentityLinkedEvent(u, id, email)>>)
    BY <1>8, Zenon DEF resolveUser
  <2>2. /\ Plains(<<OIDCIdentityLinkedEvent(u, id, email)>>)
        /\ Plains(<<UserCreatedEvent(u, email), OIDCIdentityLinkedEvent(u, id, email)>>)
    BY UserEvents, <1>OneOrTwo, Zenon
  <2>3. Len(events[u]) \in Nat
    BY KeyTypes, <1>VersionsNat, Zenon
  <2> QED
    BY <2>1, <2>2, <2>3, <1>PlainStarted, Zenon
<1>9. ASSUME createSCIMUser(c) PROVE Started(c)
  <2>1. PICK id \in SCIMIds, email \in Emails, u \in Users :
          \/ AppendEventsWithVersion(c, <<SCIMIdentityLinkedEvent(u, id, email)>>, Len(events[u]))
          \/ AppendEvents(c, <<UserCreatedEvent(u, email), SCIMIdentityLinkedEvent(u, id, email)>>)
    BY <1>9, Zenon DEF createSCIMUser
  <2>2. /\ Plains(<<SCIMIdentityLinkedEvent(u, id, email)>>)
        /\ Plains(<<UserCreatedEvent(u, email), SCIMIdentityLinkedEvent(u, id, email)>>)
    BY UserEvents, <1>OneOrTwo, Zenon
  <2>3. Len(events[u]) \in Nat
    BY KeyTypes, <1>VersionsNat, Zenon
  <2> QED
    BY <2>1, <2>2, <2>3, <1>PlainStarted, Zenon
<1>10. ASSUME createSCIMGroup(c) \/ replaceSCIMGroup(c) PROVE Started(c)
  <2>1. PICK g \in SCIMGroups, id \in ExternalIds, us \in SUBSET Users :
          \/ AppendEvents(c, <<SCIMGroupCreatedEvent(g, id), SCIMGroupMembershipsReplacedEvent(g, us)>>)
          \/ AppendEventsWithVersion(
               c, <<SCIMGroupUpdatedEvent(g, id), SCIMGroupMembershipsReplacedEvent(g, us)>>, Len(events[g]))
    BY <1>10, Zenon DEF createSCIMGroup, replaceSCIMGroup
  <2>2. /\ Plains(<<SCIMGroupCreatedEvent(g, id), SCIMGroupMembershipsReplacedEvent(g, us)>>)
        /\ Plains(<<SCIMGroupUpdatedEvent(g, id), SCIMGroupMembershipsReplacedEvent(g, us)>>)
    BY <1>GroupEvents, <1>OneOrTwo, Zenon
  <2>3. Len(events[g]) \in Nat
    BY KeyTypes, <1>VersionsNat, Zenon
  <2> QED
    BY <2>1, <2>2, <2>3, <1>PlainStarted, Zenon
<1>11. ASSUME deleteSCIMGroup(c) PROVE Started(c)
  <2>1. PICK g \in SCIMGroups : AppendEventsWithVersion(c, <<SCIMGroupDeletedEvent(g)>>, Len(events[g]))
    BY <1>11, Zenon DEF deleteSCIMGroup
  <2>2. Plains(<<SCIMGroupDeletedEvent(g)>>)
    BY <1>GroupEvents, <1>OneOrTwo, Zenon
  <2>3. Len(events[g]) \in Nat
    BY KeyTypes, <1>VersionsNat, Zenon
  <2> QED
    BY <2>1, <2>2, <2>3, <1>PlainStarted, Zenon
<1> QED
  BY <1>2, <1>3, <1>4, <1>5, <1>6, <1>7, <1>8, <1>9, <1>10, <1>11, <1>UnlinkStarted, Zenon DEF Handler

-----------------------------------------------------------------------------
(* Inserting an event *)

\* A log is a sequence.
LEMMA LogSeq ==
  /\ \A a, T : IsLog(a) /\ (\A i \in 1 .. Len(a) : a[i] \in T) => a \in Seq(T)
  /\ \A T : \A a \in Seq(T) : IsLog(a)
BY DEF IsLog

\* Logs put one after the other.
LEMMA LogConcat ==
  ASSUME NEW a, NEW b, IsLog(a), IsLog(b)
  PROVE  /\ IsLog(a \o b) /\ Len(a \o b) = Len(a) + Len(b)
         /\ \A i \in 1 .. Len(a) : (a \o b)[i] = a[i]
         /\ \A i \in 1 .. Len(b) : (a \o b)[i + Len(a)] = b[i]
<1> DEFINE T == {a[i] : i \in 1 .. Len(a)} \cup {b[i] : i \in 1 .. Len(b)}
<1>1. a \in Seq(T) /\ b \in Seq(T)
  BY LogSeq, Zenon
<1> HIDE DEF T
<1>2. a \o b \in Seq(T)
  BY <1>1
<1>3. IsLog(a \o b)
  BY <1>2, LogSeq, Zenon
<1> QED
  BY <1>1, <1>3

\* A log with one more event is a log.
LEMMA LogAppendType ==
  ASSUME NEW a, NEW e, IsLog(a)
  PROVE  IsLog(Append(a, e)) /\ Append(a, e) # << >>
<1> DEFINE T == {a[i] : i \in 1 .. Len(a)} \cup {e}
<1>1. a \in Seq(T) /\ e \in T
  BY LogSeq, Zenon
<1> HIDE DEF T
<1>2. Append(a, e) \in Seq(T)
  BY <1>1
<1>3. Append(a, e) # << >>
  <2>1. Len(Append(a, e)) = Len(a) + 1 /\ Len(a) \in Nat
    BY <1>1
  <2>2. Len(Append(a, e)) # 0
    BY <2>1
  <2>3. Len(<< >>) = 0
    OBVIOUS
  <2> QED
    BY <2>2, <2>3, Zenon
<1>4. IsLog(Append(a, e))
  BY <1>2, LogSeq, Zenon
<1> QED
  BY <1>3, <1>4, Zenon

\* Only the empty log has no event.
LEMMA LogLen ==
  ASSUME NEW a, IsLog(a)
  PROVE  Len(a) = 0 <=> a = << >>
BY DEF IsLog

\* A user with two links keeps one when another is taken (CountUserIdentityLinks).
LinksCounted == \A S, x : Cardinality(S) > 1 => S \ {x} # {}

\* The event a transaction inserts: the next of its batch, with its version.
Numbers(e, f, version) ==
  e.type = f.type /\ e.stream = f.stream /\ e.arg = f.arg /\ e.version = version /\ Fits(e)

\* What the insert makes of the transaction; it depends on what follows which
\* step comes next.
Inserted(t, r, q, new, e) ==
  /\ TxFields(q) /\ q.pc \in {"read", "lock", "insert", "count", "commit"}
  /\ q.batch = r.batch /\ q.pinned = r.pinned /\ q.at = r.at + 1 /\ q.version \in Nat
  /\ q.writes = Changes(t, new)
  /\ q.log = [r.log EXCEPT ![e.stream] = Append(r.log[e.stream], e)]

\* The transaction's log after the insert.
LogInserted(r, q, e) ==
  /\ q.log = [s \in Streams |-> q.log[s]] /\ \A s \in Streams : IsLog(q.log[s])
  /\ q.log[e.stream] = Append(r.log[e.stream], e) /\ q.log[e.stream] # << >>
  /\ \A s \in Streams : s # e.stream => q.log[s] = r.log[s]

\* Its log gets the event, no other stream does.
LEMMA InsertLog ==
  ASSUME NEW t, NEW r, NEW q, NEW new, NEW e, IsTx(r), Inserted(t, r, q, new, e), e.stream \in Streams
  PROVE  LogInserted(r, q, e)
<1> DEFINE k == e.stream
           x == Append(r.log[k], e)
<1>1. r.log = [s \in Streams |-> r.log[s]] /\ \A s \in Streams : IsLog(r.log[s])
  BY Zenon DEF IsTx
<1>2. q.log = [r.log EXCEPT ![k] = x] /\ k \in Streams
  BY Zenon DEF Inserted
<1>3. IsLog(x) /\ x # << >>
  <2>1. IsLog(r.log[k])
    BY <1>1, <1>2, Zenon
  <2> QED
    BY <2>1, LogAppendType, Zenon
<1> HIDE DEF x, k
<1>4. /\ q.log = [s \in Streams |-> q.log[s]] /\ q.log[k] = x
      /\ \A s \in Streams : s # k => q.log[s] = r.log[s]
  BY <1>1, <1>2, Zenon
<1>5. \A s \in Streams : IsLog(q.log[s])
  BY <1>1, <1>3, <1>4, Zenon
<1> QED
  BY <1>3, <1>4, <1>5, Zenon DEF LogInserted, k, x

\* A stream of the store has a number of events; the transaction's are above it.
LEMMA VersionAfter ==
  ASSUME NEW log, NEW r, NEW k \in Streams, \A s \in Streams : IsLog(log[s]),
         IsTx(r)
  PROVE  /\ Len(log[k]) \in Nat /\ Len(Extend(log, r.log)[k]) \in Nat
         /\ Len(Extend(log, r.log)[k]) = Len(log[k]) + Len(r.log[k])
         /\ r.log[k] # << >> => Len(Extend(log, r.log)[k]) # 0
         /\ r.log[k] = << >> => Len(Extend(log, r.log)[k]) = Len(log[k])
<1>1. IsLog(log[k]) /\ IsLog(r.log[k]) /\ Extend(log, r.log)[k] = log[k] \o r.log[k]
  BY Zenon DEF IsTx, Extend
<1>2. Len(log[k] \o r.log[k]) = Len(log[k]) + Len(r.log[k])
  BY <1>1, LogConcat, Zenon
<1>3. Len(log[k]) \in Nat /\ Len(r.log[k]) \in Nat
  BY <1>1, Zenon DEF IsLog
<1>4. Len(r.log[k]) = 0 <=> r.log[k] = << >>
  BY <1>1, LogLen, Zenon
<1> DEFINE a == Len(log[k])
           b == Len(r.log[k])
           n == Len(Extend(log, r.log)[k])
<1>5. n = a + b /\ a \in Nat /\ b \in Nat /\ (b = 0 <=> r.log[k] = << >>)
  BY <1>1, <1>2, <1>3, <1>4, Zenon
<1> HIDE DEF a, b, n
<1>6. n \in Nat /\ n = a + b /\ (b # 0 => n # 0) /\ (b = 0 => n = a)
  BY <1>5
<1> QED
  BY <1>5, <1>6, Zenon DEF a, b, n

\* The insert keeps what is known of the transaction.
LEMMA InsertOK ==
  \A t, log, r, q, h, new, e :
       /\ LinksCounted /\ IsTable(t) /\ TxOK(t, log, r, h)
       /\ (\A s \in Streams : IsLog(log[s])) /\ r.pc = "insert"
       /\ Inserted(t, r, q, new, e) /\ Projected(Over(t, r.writes), new, e)
       /\ Numbers(e, r.batch[r.at + 1], r.version + 1) /\ e.stream \in Streams
       /\ r.version = Len(Extend(log, r.log)[e.stream]) /\ Stage(q, h)
    => TxOK(t, log, q, h)

\* An event that revokes nothing.
<1>UnrevokedAppend.
    ASSUME NEW a, NEW e, IsLog(a), Unrevoked(a), e.type # "RoleRevoked"
    PROVE  Unrevoked(Append(a, e))
  BY <1>UnrevokedAppend DEF IsLog, Unrevoked

\* A stream the transaction has appended to is not empty.
<1>VersionPast.
    ASSUME NEW log, NEW r, NEW k \in Streams, \A s \in Streams : IsLog(log[s]), IsTx(r),
           r.log[k] # << >>
    PROVE  Len(Extend(log, r.log)[k]) \in Nat \ {0}
  <2> USE <1>VersionPast
  <2>1. Len(Extend(log, r.log)[k]) # 0 /\ Len(Extend(log, r.log)[k]) \in Nat
    BY VersionAfter, Zenon
  <2> QED
    BY <2>1, Zenon

\* A projector leaves what Mild asks and keeps the links of the users, also when
\* the transaction changed the user before: a user created anew has version 1,
\* and a stream the transaction has appended to is past it.
<1>InsertSeen.
    ASSUME NEW t, NEW log, NEW r, NEW q, NEW h, NEW new, NEW e, IsTable(t), TxOK(t, log, r, h),
           Inserted(t, r, q, new, e), Projected(Over(t, r.writes), new, e), e.stream \in Streams,
           Protected(e) => h
    PROVE  Over(t, q.writes) = new /\ Seen(t, q, h)
  <2> USE <1>InsertSeen
  <2> DEFINE view == Over(t, r.writes)
  <2>1. LogInserted(r, q, e)
    BY InsertLog, Zenon DEF TxOK
  <2>2. /\ IsTable(new) /\ MembersLive(new) /\ (~Protected(e) => Mild(view, new))
        /\ \A u \in Users : new[u] # view[u] => u = e.stream
    BY Zenon DEF Projected
  <2>3. Over(t, Changes(t, new)) = new /\ q.writes = Changes(t, new)
    BY <2>2, OverChanges, Zenon DEF Inserted
  <2>4. Over(t, q.writes) = new
    BY <2>3, Zenon
  <2>5. /\ ~h => Mild(t, view) /\ \A s \in Streams : Unrevoked(r.log[s])
        /\ \A u \in Users : view[u] # t[u] => r.log[u] # << >>
    BY Zenon DEF TxOK, Seen
  <2> HIDE DEF view
  <2>6. ASSUME ~h
        PROVE  Mild(t, new) /\ \A s \in Streams : Unrevoked(q.log[s])
    <3>1. ~Protected(e)
      BY <2>6, Zenon
    <3>2. Mild(t, new)
      BY <2>2, <2>5, <2>6, <3>1, MildTrans, Zenon
    <3>3. e.type # "RoleRevoked"
      BY <3>1, Zenon DEF Protected, lastAdminReductionEventTypes
    <3>4. IsLog(r.log[e.stream]) /\ Unrevoked(r.log[e.stream])
      BY <2>5, <2>6, Zenon DEF TxOK, IsTx
    <3>5. Unrevoked(Append(r.log[e.stream], e))
      BY <3>3, <3>4, <1>UnrevokedAppend, Zenon
    <3>6. \A s \in Streams : Unrevoked(q.log[s])
      BY <2>1, <2>5, <2>6, <3>5, Zenon DEF LogInserted
    <3> QED
      BY <3>2, <3>6, Zenon
  <2>7. \A u \in Users : new[u] # t[u] => q.log[u] # << >>
    <3>1. \A u \in Users : u \in Streams
      BY KeyTypes, Zenon
    <3> QED
      BY <2>1, <2>2, <2>5, <3>1, Zenon DEF LogInserted
  <2> QED
    BY <2>2, <2>4, <2>6, <2>7, Zenon DEF Seen

\* The links of a batch that unlinks nothing.
<1>InsertKeepsLinks.
    ASSUME NEW t, NEW log, NEW r, NEW h, NEW new, NEW e, IsTable(t), TxOK(t, log, r, h),
           \A s \in Streams : IsLog(log[s]),
           Projected(Over(t, r.writes), new, e), e.stream \in Streams,
           r.version = Len(Extend(log, r.log)[e.stream]), e.version = r.version + 1,
           e.type # "SCIMIdentityUnlinked", NEW u \in Users, KeepsLinks(t, Over(t, r.writes), u)
    PROVE  KeepsLinks(t, new, u)
  <2> USE <1>InsertKeepsLinks
  <2> DEFINE view == Over(t, r.writes)
  <2>1. KeepsLinks(view, new, u)
    BY Zenon DEF Projected
  <2>2. CASE Live(view, u)
    BY <2>1, <2>2, Zenon DEF KeepsLinks
  <2>3. CASE ~Live(view, u) /\ Live(t, u) /\ Live(new, u)
    <3>1. view[u] # t[u] /\ new[u] # view[u]
      BY <2>3, Zenon DEF Live
    <3>2. r.log[u] # << >>
      BY <3>1, Zenon DEF TxOK, Seen
    <3>3. u = e.stream /\ e.version = 1
      BY <2>3, <3>1, Zenon DEF Projected
    <3>4. IsTx(r)
      BY Zenon DEF TxOK
    <3>5. Len(Extend(log, r.log)[u]) \in Nat \ {0}
      BY <3>2, <3>3, <3>4, <1>VersionPast, Zenon
    <3>6. r.version \in Nat \ {0} /\ r.version + 1 = 1
      BY <3>3, <3>5, Zenon
    <3> QED
      BY <3>6
  <2> QED
    BY <2>2, <2>3, Zenon DEF KeepsLinks

\* The rows of deleteSCIMUser's user after the insert of its unlink, or of the
\* deprovision that follows the unlink of the last link.
<1>InsertUnlinks.
    ASSUME LinksCounted, NEW t, NEW log, NEW r, NEW q, NEW h, NEW new, NEW e, IsTable(t), TxOK(t, log, r, h),
           \A s \in Streams : IsLog(log[s]), r.pc = "insert",
           Inserted(t, r, q, new, e), Projected(Over(t, r.writes), new, e), Over(t, q.writes) = new,
           Numbers(e, r.batch[r.at + 1], r.version + 1),
           r.version = Len(Extend(log, r.log)[e.stream]),
           NEW u \in Users, NEW id \in SCIMIds, UnlinksOf(t, log, r, u, id)
    PROVE  UnlinksOf(t, log, q, u, id)
  <2> USE <1>InsertUnlinks
  <2> DEFINE view == Over(t, r.writes)
             unlink == SCIMIdentityUnlinkedEvent(u, id)
             deprovision == SCIMUserDeprovisionedEvent(u)
  <2>1. /\ q.batch = r.batch /\ q.pinned = r.pinned /\ q.at = r.at + 1 /\ q.pc # "links"
        /\ r.at \in Nat /\ r.at < Len(r.batch) /\ IsTx(r)
    BY Zenon DEF TxOK, Inserted, Stage, IsTx
  <2>2. /\ unlink.type = "SCIMIdentityUnlinked" /\ unlink.stream = u /\ unlink.arg = id
        /\ deprovision.type = "SCIMUserDeprovisioned" /\ deprovision.stream = u
    BY DEF SCIMIdentityUnlinkedEvent, SCIMUserDeprovisionedEvent, Event
  <2>3. u \in Streams
    BY KeyTypes, Zenon
  <2>4. /\ r.batch = <<unlink>> \/ r.batch = <<unlink, deprovision>>
        /\ \A v \in Users \ {u} : view[v] = t[v]
    BY Zenon DEF UnlinksOf
  <2> HIDE DEF view, unlink, deprovision
  <2>5. ASSUME r.batch = <<unlink>>
        PROVE  r.at = 0 /\ q.at = 1 /\ r.batch[r.at + 1] = unlink
    <3>1. Len(<<unlink>>) = 1 /\ <<unlink>>[1] = unlink
      OBVIOUS
    <3>2. Len(r.batch) = 1 /\ r.batch[1] = unlink
      BY <2>5, <3>1, Zenon
    <3>3. r.at = 0 /\ q.at = 1 /\ r.at + 1 = 1
      BY <2>1, <3>2
    <3> QED
      BY <3>2, <3>3, Zenon
  <2>6. ASSUME r.batch = <<unlink, deprovision>>
        PROVE  \/ r.at = 0 /\ q.at = 1 /\ r.batch[r.at + 1] = unlink
               \/ r.at = 1 /\ q.at = 2 /\ r.batch[r.at + 1] = deprovision
    <3>1. Len(<<unlink, deprovision>>) = 2 /\ <<unlink, deprovision>>[1] = unlink
          /\ <<unlink, deprovision>>[2] = deprovision
      OBVIOUS
    <3>2. Len(r.batch) = 2 /\ r.batch[1] = unlink /\ r.batch[2] = deprovision
      BY <2>6, <3>1, Zenon
    <3>3. \/ r.at = 0 /\ q.at = 1 /\ r.at + 1 = 1
          \/ r.at = 1 /\ q.at = 2 /\ r.at + 1 = 2
      BY <2>1, <3>2
    <3> QED
      BY <3>2, <3>3, Zenon
  <2>7. e.stream = u
    BY <2>2, <2>4, <2>5, <2>6, Zenon DEF Numbers
  <2>8. LogInserted(r, q, e)
    BY <2>1, <2>3, <2>7, InsertLog, Zenon
  <2>9. \A v \in Users \ {u} : new[v] = t[v]
    BY <2>4, <2>7, Zenon DEF Projected, view
  <2>10. q.log[u] # << >>
    BY <2>7, <2>8, Zenon DEF LogInserted
  <2>11. ASSUME r.batch = <<unlink>>, Live(new, u)
         PROVE  new[u].links # {}
    <3>1. r.at = 0 /\ r.batch[r.at + 1] = unlink
      BY <2>5, <2>11, Zenon
    <3>2. r.writes = NoWrites /\ r.log = NoEvents
      BY <3>1, Zenon DEF TxOK, Stage
    <3>3. Over(t, r.writes) = t /\ r.log[u] = << >>
      BY <2>3, <3>2, OverNone, NothingWritten, Zenon
    <3>4. Len(Extend(log, r.log)[u]) = Len(log[u])
      BY <2>1, <2>3, <3>3, VersionAfter, Zenon
    <3>5. r.version = Len(log[u])
      BY <2>7, <3>4, Zenon
    <3>6. Live(t, u) /\ Cardinality(t[u].links) > 1
      <4>1. r.batch # <<unlink, deprovision>>
        <5>1. Len(<<unlink>>) = 1 /\ Len(<<unlink, deprovision>>) = 2
          OBVIOUS
        <5>2. 1 # 2
          OBVIOUS
        <5> QED
          BY <2>11, <5>1, <5>2, Zenon
      <4> QED
        BY <3>1, <3>5, <4>1, Zenon DEF UnlinksOf, unlink, deprovision
    <3>7. e.type = "SCIMIdentityUnlinked" /\ e.arg = id
      BY <2>2, <3>1, Zenon DEF Numbers
    <3>8. new[u].links = t[u].links \ {id}
      BY <2>7, <3>3, <3>7, Zenon DEF Projected
    <3> QED
      BY <3>6, <3>8, Zenon DEF LinksCounted
  <2>12. ASSUME r.batch = <<unlink, deprovision>>, q.at = 2
         PROVE  ~Live(new, u)
    <3>1. 1 # 2
      OBVIOUS
    <3>2. r.batch[r.at + 1] = deprovision
      BY <2>6, <2>12, <3>1, Zenon
    <3> QED
      BY <2>2, <2>7, <3>2, Zenon DEF Numbers, Projected
  <2>13. q.at # 0
    BY <2>1
  <2> QED
    BY <2>1, <2>4, <2>9, <2>10, <2>11, <2>12, <2>13, Zenon DEF UnlinksOf, unlink, deprovision
<1> TAKE t, log, r, q, h, new, e
<1> SUFFICES ASSUME LinksCounted, IsTable(t), TxOK(t, log, r, h),
                    \A s \in Streams : IsLog(log[s]), r.pc = "insert",
                    Inserted(t, r, q, new, e), Projected(Over(t, r.writes), new, e),
                    Numbers(e, r.batch[r.at + 1], r.version + 1), e.stream \in Streams,
                    r.version = Len(Extend(log, r.log)[e.stream]), Stage(q, h)
             PROVE  TxOK(t, log, q, h)
  BY Zenon
<1> DEFINE f == r.batch[r.at + 1]
<1>1. /\ IsTx(r) /\ Stage(r, h) /\ Linked(t, log, r) /\ r.at \in Nat
      /\ r.at < Len(r.batch) /\ Len(r.batch) \in Nat
  BY Zenon DEF TxOK, Stage, IsTx, IsBatch, IsLog
<1>2. Protected(e) => h
  BY <1>1, Zenon DEF Stage, Numbers, Protected
<1>3. Over(t, q.writes) = new /\ Seen(t, q, h)
  BY <1>2, <1>InsertSeen, Zenon
<1>4. IsTx(q)
  <2>1. LogInserted(r, q, e)
    BY <1>1, InsertLog, Zenon
  <2>2. q.at \in Nat
    <3>1. q.at = r.at + 1
      BY Zenon DEF Inserted
    <3> QED
      BY <1>1, <3>1
  <2> QED
    BY <1>1, <2>1, <2>2, Zenon DEF IsTx, Inserted, LogInserted
<1>5. r.batch = q.batch /\ q.pc # "links" /\ e.version = r.version + 1
  BY Zenon DEF Inserted, Numbers
<1>6. ASSUME ~Unlinks(q.batch), NEW u \in Users
      PROVE  KeepsLinks(t, Over(t, q.writes), u)
  <2>1. KeepsLinks(t, Over(t, r.writes), u)
    BY <1>1, <1>5, <1>6, Zenon DEF Linked
  <2>2. r.at + 1 \in 1 .. Len(r.batch)
    BY <1>1
  <2>3. e.type # "SCIMIdentityUnlinked"
    BY <1>5, <1>6, <2>2, Zenon DEF Unlinks, Numbers
  <2>4. KeepsLinks(t, new, u)
    BY <1>5, <2>1, <2>3, <1>InsertKeepsLinks, Zenon
  <2> QED
    BY <1>3, <2>4, Zenon
<1>7. ASSUME Unlinks(q.batch)
      PROVE  \E u \in Users, id \in SCIMIds : UnlinksOf(t, log, q, u, id)
  <2>1. PICK u \in Users, id \in SCIMIds : UnlinksOf(t, log, r, u, id)
    BY <1>1, <1>5, <1>7, Zenon DEF Linked
  <2>2. UnlinksOf(t, log, q, u, id)
    BY <1>3, <2>1, <1>InsertUnlinks, Zenon
  <2> QED
    BY <2>2, Zenon
<1>8. Linked(t, log, q)
  BY <1>5, <1>6, <1>7, Zenon DEF Linked
<1> QED
  BY <1>3, <1>4, <1>8, Zenon DEF TxOK

-----------------------------------------------------------------------------
(* Two transactions *)

\* Two transactions on disjoint rows: what they make of the table together.
Merge(t, a, b, m) ==
  \A k \in Keys : (a[k] = t[k] /\ m[k] = b[k]) \/ (b[k] = t[k] /\ m[k] = a[k])

\* The rows of the one that commits are not the other's.
LEMMA Merges ==
  ASSUME NEW t, NEW w, NEW v, DOMAIN w \cap DOMAIN v = {}
  PROVE  Merge(t, Over(t, w), Over(t, v), Over(Over(t, w), v))
<1>1. \A x, y : \A k \in Keys : Over(x, y)[k] = IF k \in DOMAIN y THEN y[k] ELSE x[k]
  BY Zenon DEF Over
<1> SUFFICES ASSUME NEW k \in Keys
             PROVE  LET a == Over(t, w)[k]
                        b == Over(t, v)[k]
                        m == Over(Over(t, w), v)[k]
                    IN  (a = t[k] /\ m = b) \/ (b = t[k] /\ m = a)
  BY Zenon DEF Merge
<1>2. CASE k \in DOMAIN v
  <2>1. k \notin DOMAIN w
    BY <1>2, Zenon
  <2>2. /\ Over(t, w)[k] = t[k] /\ Over(t, v)[k] = v[k]
        /\ Over(Over(t, w), v)[k] = v[k]
    BY <1>1, <1>2, <2>1, Zenon
  <2> QED
    BY <2>2, Zenon
<1>3. CASE k \notin DOMAIN v
  <2>1. Over(t, v)[k] = t[k] /\ Over(Over(t, w), v)[k] = Over(t, w)[k]
    BY <1>1, <1>3, Zenon
  <2> QED
    BY <2>1, Zenon
<1> QED
  BY <1>2, <1>3, Zenon

\* Neither of them comes first.
LEMMA MergeSwap ==
  ASSUME NEW t, NEW a, NEW b, NEW m, Merge(t, a, b, m)
  PROVE  Merge(t, b, a, m)
BY Zenon DEF Merge

\* What is mild stays mild whatever the other has committed.
LEMMA MergeMild ==
  ASSUME NEW t, NEW a, NEW b, NEW m, Merge(t, a, b, m), Mild(t, b)
  PROVE  Mild(a, m)
<1>1. \A k \in Users \cup Groups \cup Members \cup Roles \cup Grants : k \in Keys
  BY Zenon DEF Keys, Streams
<1>2. \A k \in SCIMGroups \X Users : k \in Keys
  BY KeyTypes, Zenon DEF Keys, Members
<1>3. \A u \in Users : Live(a, u) => Live(m, u) /\ m[u].disabled = a[u].disabled
  BY <1>1, Zenon DEF Merge, Mild, Live
<1>4. \A k \in Groups \cup Members : Live(a, k) => Live(m, k)
  BY <1>1, Zenon DEF Merge, Mild, Live
<1>5. \A k \in Roles \cup Grants : Live(a, k) => m[k] = a[k]
  BY <1>1, Zenon DEF Merge, Mild, Live
<1>6. \A k \in SCIMGroups \X Users : m[k] = a[k]
  BY <1>2, Zenon DEF Merge, Mild
<1> QED
  BY <1>3, <1>4, <1>5, <1>6, Zenon DEF Mild

\* What a commit leaves of what is known of another transaction.
LEMMA CommitOther ==
  \A t, log, r, q, h, g :
       /\ TxOK(t, log, r, h) /\ TxOK(t, log, q, g) /\ Apart(q, r) /\ ~(h /\ g)
       /\ (\A s \in Streams : IsLog(log[s]))
    => TxOK(Over(t, q.writes), Extend(log, q.log), r, h)

\* Together they leave a table.
<1>MergeTable.
    ASSUME NEW t, NEW a, NEW b, NEW m, Merge(t, a, b, m), IsTable(a), IsTable(b),
           m = [k \in Keys |-> m[k]]
    PROVE  IsTable(m)
  <2> USE <1>MergeTable
  <2>1. \A k \in Users \cup Roles \cup Grants : k \in Keys
    BY Zenon DEF Keys, Streams
  <2> QED
    BY <2>1, Zenon DEF Merge, IsTable, Live

\* And no SCIM membership without its group and user, when one of them is mild:
\* only the holder of the lock takes any away, and only it adds a membership.
<1>MergeMembersLive.
    ASSUME NEW t, NEW a, NEW b, NEW m, Merge(t, a, b, m), MembersLive(a), Mild(t, b)
    PROVE  MembersLive(m)
  <2> USE <1>MergeMembersLive
  <2> SUFFICES ASSUME NEW g \in SCIMGroups, NEW u \in Users, Live(m, <<g, u>>)
               PROVE  Live(m, g) /\ Live(m, u)
    BY Zenon DEF MembersLive
  <2>1. <<g, u>> \in Keys /\ g \in Keys /\ u \in Keys /\ g \in Groups /\ <<g, u>> \in SCIMGroups \X Users
    BY KeyTypes, MemberKeys, Zenon
  <2>2. m[<<g, u>>] = a[<<g, u>>]
    BY <2>1, Zenon DEF Merge, Mild
  <2>3. Live(a, g) /\ Live(a, u)
    BY <2>2, Zenon DEF MembersLive, Live
  <2>4. Mild(a, m)
    BY MergeMild, Zenon
  <2> QED
    BY <2>1, <2>3, <2>4, Zenon DEF Mild

\* Links kept are kept whatever the other has committed.
<1>MergeLinks.
    ASSUME NEW t, NEW a, NEW b, NEW m, Merge(t, a, b, m), NEW u \in Users, KeepsLinks(t, b, u)
    PROVE  KeepsLinks(a, m, u)
  <2> USE <1>MergeLinks
  <2>1. (a[u] = t[u] /\ m[u] = b[u]) \/ (b[u] = t[u] /\ m[u] = a[u])
    BY KeyTypes, Zenon DEF Merge
  <2> QED
    BY <2>1, Zenon DEF KeepsLinks, Live

\* What others make of a user's links, when another transaction commits: a pinned
\* unlink keeps its hold on the version it read, and its user's stream is its own.
<1>CommitUnlinks.
    ASSUME NEW t, NEW log, NEW r, NEW q, NEW a, NEW newLog, NEW u \in Users, NEW id,
           UnlinksOf(t, log, r, u, id), r.version \in Nat,
           Merge(t, a, Over(t, r.writes), Over(a, r.writes)),
           Len(log[u]) \in Nat, Len(newLog[u]) \in Nat, Len(log[u]) <= Len(newLog[u]),
           Len(newLog[u]) = Len(log[u]) => a[u] = t[u], r.log[u] # << >> => a[u] = t[u]
    PROVE  UnlinksOf(a, newLog, r, u, id)
  <2> USE <1>CommitUnlinks
  <2> DEFINE b == Over(t, r.writes)
             m == Over(a, r.writes)
  <2>0. \A v \in Users : (a[v] = t[v] /\ m[v] = b[v]) \/ (b[v] = t[v] /\ m[v] = a[v])
    BY KeyTypes, Zenon DEF Merge
  <2>1. \A v \in Users : b[v] = t[v] => m[v] = a[v]
    BY <2>0, Zenon
  <2>2. \A v \in Users : a[v] = t[v] => m[v] = b[v]
    BY <2>0, Zenon
  <2>3. /\ \A v \in Users \ {u} : b[v] = t[v]
        /\ r.at # 0 => r.log[u] # << >>
        /\ \/ /\ r.batch = <<SCIMIdentityUnlinkedEvent(u, id)>>
              /\ r.pc = "links" => r.version <= Len(log[u])
              /\ r.pc # "links" /\ r.at = 0 =>
                   /\ r.pinned /\ r.version <= Len(log[u])
                   /\ r.version = Len(log[u]) => Live(t, u) /\ Cardinality(t[u].links) > 1
              /\ r.at # 0 /\ Live(b, u) => b[u].links # {}
           \/ /\ r.batch = <<SCIMIdentityUnlinkedEvent(u, id), SCIMUserDeprovisionedEvent(u)>>
              /\ r.pc # "links"
              /\ r.at = 2 => ~Live(b, u)
    BY Zenon DEF UnlinksOf
  <2>4. r.version <= Len(log[u]) => r.version <= Len(newLog[u])
    OBVIOUS
  <2>5. ASSUME r.version <= Len(log[u]), r.version = Len(newLog[u])
        PROVE  r.version = Len(log[u]) /\ Len(newLog[u]) = Len(log[u])
    BY <2>5
  <2>6. r.version <= Len(log[u]) /\ r.version = Len(newLog[u]) => r.version = Len(log[u]) /\ a[u] = t[u]
    BY <2>5, Zenon
  <2>7. r.at # 0 => m[u] = b[u]
    BY <2>2, <2>3, Zenon
  <2>8. r.at = 2 => r.at # 0
    OBVIOUS
  <2> HIDE DEF b, m
  <2>9. \A v \in Users \ {u} : m[v] = a[v]
    BY <2>1, <2>3, Zenon
  <2>10. CASE r.batch = <<SCIMIdentityUnlinkedEvent(u, id), SCIMUserDeprovisionedEvent(u)>>
              /\ r.pc # "links" /\ (r.at = 2 => ~Live(b, u))
    <3>1. r.at = 2 => ~Live(m, u)
      BY <2>7, <2>8, <2>10, Zenon DEF Live
    <3> QED
      BY <2>3, <2>9, <2>10, <3>1, Zenon DEF UnlinksOf, m
  <2>11. CASE /\ r.batch = <<SCIMIdentityUnlinkedEvent(u, id)>>
              /\ r.pc = "links" => r.version <= Len(log[u])
              /\ r.pc # "links" /\ r.at = 0 =>
                   /\ r.pinned /\ r.version <= Len(log[u])
                   /\ r.version = Len(log[u]) => Live(t, u) /\ Cardinality(t[u].links) > 1
              /\ r.at # 0 /\ Live(b, u) => b[u].links # {}
    <3>1. r.at # 0 /\ Live(m, u) => m[u].links # {}
      BY <2>7, <2>11, Zenon DEF Live
    <3>2. r.pc # "links" /\ r.at = 0 =>
            /\ r.pinned /\ r.version <= Len(newLog[u])
            /\ r.version = Len(newLog[u]) => Live(a, u) /\ Cardinality(a[u].links) > 1
      BY <2>4, <2>6, <2>11, Zenon DEF Live
    <3> QED
      BY <2>3, <2>4, <2>9, <2>11, <3>1, <3>2, Zenon DEF UnlinksOf, m
  <2> QED
    BY <2>3, <2>10, <2>11, Zenon
<1> TAKE t, log, r, q, h, g
<1> SUFFICES ASSUME TxOK(t, log, r, h), TxOK(t, log, q, g),
                    Apart(q, r), ~(h /\ g), \A s \in Streams : IsLog(log[s])
             PROVE  TxOK(Over(t, q.writes), Extend(log, q.log), r, h)
  BY Zenon
<1> DEFINE a == Over(t, q.writes)
           b == Over(t, r.writes)
           m == Over(a, r.writes)
           newLog == Extend(log, q.log)
<1>1. Merge(t, a, b, m) /\ Merge(t, b, a, m)
  <2>1. DOMAIN q.writes \cap DOMAIN r.writes = {}
    BY Zenon DEF Apart
  <2> QED
    BY <2>1, Merges, MergeSwap, Zenon
<1>2. /\ IsTable(b) /\ MembersLive(b) /\ (~h => Mild(t, b) /\ \A s \in Streams : Unrevoked(r.log[s]))
      /\ \A u \in Users : b[u] # t[u] => r.log[u] # << >>
  BY Zenon DEF TxOK, Seen
<1>3. /\ IsTable(a) /\ MembersLive(a) /\ (~g => Mild(t, a))
      /\ \A u \in Users : a[u] # t[u] => q.log[u] # << >>
  BY Zenon DEF TxOK, Seen
<1>4. m = [k \in Keys |-> m[k]]
  BY Zenon DEF Over
<1>5. IsTx(r) /\ Stage(r, h) /\ Linked(t, log, r) /\ IsTx(q) /\ r.version \in Nat
  BY Zenon DEF TxOK, IsTx
<1> HIDE DEF a, b, m, newLog
<1>6. IsTable(m)
  BY <1>1, <1>2, <1>3, <1>4, <1>MergeTable, Zenon
<1>7. MembersLive(m)
  <2>1. CASE ~h
    BY <1>1, <1>2, <1>3, <2>1, <1>MergeMembersLive, Zenon
  <2>2. CASE ~g
    BY <1>1, <1>2, <1>3, <2>2, <1>MergeMembersLive, Zenon
  <2> QED
    BY <2>1, <2>2, Zenon
<1>8. ~h => Mild(a, m)
  BY <1>1, <1>2, MergeMild, Zenon
<1>9. \A u \in Users : m[u] # a[u] => r.log[u] # << >>
  <2>1. \A u \in Users : (a[u] = t[u] /\ m[u] = b[u]) \/ (b[u] = t[u] /\ m[u] = a[u])
    BY <1>1, KeyTypes, Zenon DEF Merge
  <2> QED
    BY <1>2, <2>1, Zenon
<1>10. Seen(a, r, h)
  BY <1>2, <1>6, <1>7, <1>8, <1>9, Zenon DEF Seen, m
<1>11. ASSUME ~Unlinks(r.batch), NEW u \in Users
       PROVE  KeepsLinks(a, m, u)
  <2>1. KeepsLinks(t, b, u)
    BY <1>5, <1>11, Zenon DEF Linked, b
  <2> QED
    BY <1>1, <2>1, <1>MergeLinks, Zenon
<1>12. ASSUME Unlinks(r.batch)
       PROVE  \E u \in Users, id \in SCIMIds : UnlinksOf(a, newLog, r, u, id)
  <2>1. PICK u \in Users, id \in SCIMIds : UnlinksOf(t, log, r, u, id)
    BY <1>5, <1>12, Zenon DEF Linked
  <2>2. u \in Streams
    BY KeyTypes, Zenon
  <2>3. /\ Len(log[u]) \in Nat /\ Len(newLog[u]) \in Nat
        /\ Len(newLog[u]) = Len(log[u]) + Len(q.log[u])
    BY <1>5, <2>2, VersionAfter, ZenonT(30) DEF newLog
  <2>4. IsLog(q.log[u]) /\ Len(q.log[u]) \in Nat
    BY <1>5, <2>2, Zenon DEF IsTx, IsLog
  <2>5. Len(log[u]) <= Len(newLog[u]) /\ (Len(newLog[u]) = Len(log[u]) => Len(q.log[u]) = 0)
    <3> DEFINE x == Len(log[u])
               y == Len(newLog[u])
               z == Len(q.log[u])
    <3>1. x \in Nat /\ z \in Nat /\ y = x + z
      BY <2>3, <2>4, Zenon
    <3> HIDE DEF x, y, z
    <3>2. x <= y /\ (y = x => z = 0)
      BY <3>1
    <3> QED
      BY <3>2, Zenon DEF x, y, z
  <2>6. Len(q.log[u]) = 0 => q.log[u] = << >>
    BY <2>4, LogLen, Zenon
  <2>7. Len(newLog[u]) = Len(log[u]) => a[u] = t[u]
    BY <1>3, <2>5, <2>6, Zenon
  <2>8. r.log[u] # << >> => a[u] = t[u]
    BY <1>3, <2>2, Zenon DEF Apart
  <2>9. Merge(t, a, Over(t, r.writes), Over(a, r.writes))
    BY <1>1, Zenon DEF b, m
  <2>10. UnlinksOf(a, newLog, r, u, id)
    BY <1>5, <2>1, <2>3, <2>5, <2>7, <2>8, <2>9, <1>CommitUnlinks, Zenon
  <2> QED
    BY <2>10, Zenon
<1>13. Linked(a, newLog, r)
  BY <1>5, <1>11, <1>12, Zenon DEF Linked, m
<1> QED
  BY <1>5, <1>10, <1>13, Zenon DEF TxOK, a, newLog

\* With an administrator at the start: there is one in the table, and one in what
\* each transaction would leave, but for the moment between a mutation and its count.
HasAdmin(t, log) == \E u \in Users : EnabledAdmin(t, log, u)
Sees(t, log, r) == HasAdmin(Over(t, r.writes), Extend(log, r.log))
AdminOK(t, log, r) ==
  /\ r.pc # "count" => Sees(t, log, r)
  /\ r.pc = "insert" /\ Protected(r.batch[r.at + 1]) => r.before > 0
AdminInv ==
  /\ HasAdmin(table, events)
  /\ \A c \in Callers : AdminOK(table, events, tx[c])

\* A log that grows by events that revoke nothing.
Grows(a, b) ==
  /\ IsLog(a) /\ IsLog(b) /\ Len(a) <= Len(b)
  /\ \A i \in 1 .. Len(a) : b[i] = a[i]
  /\ \A i \in 1 .. Len(b) : i > Len(a) => b[i].type # "RoleRevoked"

\* A log that does not grow, and one that nothing is appended to.
LEMMA GrowsSelf ==
  ASSUME NEW a, IsLog(a)
  PROVE  Grows(a, a) /\ a \o << >> = a
<1>1. Grows(a, a)
  BY DEF Grows, IsLog
<1>2. a \in Seq({a[i] : i \in 1 .. Len(a)})
  BY LogSeq, Zenon
<1> QED
  BY <1>1, <1>2

\* The log a transaction adds to a stream (appendPrepared) revokes nothing.
LEMMA GrowsBy ==
  ASSUME NEW a, NEW b, IsLog(a), IsLog(b), Unrevoked(b)
  PROVE  Grows(a, a \o b)
<1> DEFINE m == a \o b
<1>1. /\ IsLog(m) /\ Len(m) = Len(a) + Len(b) /\ \A i \in 1 .. Len(a) : m[i] = a[i]
      /\ \A i \in 1 .. Len(b) : m[i + Len(a)] = b[i]
  BY LogConcat
<1>2. Len(a) \in Nat /\ Len(b) \in Nat
  BY Zenon DEF IsLog
<1> HIDE DEF m
<1>3. Len(a) <= Len(m)
  BY <1>1, <1>2
<1>4. ASSUME NEW i \in 1 .. Len(m), i > Len(a) PROVE m[i].type # "RoleRevoked"
  <2>1. i - Len(a) \in 1 .. Len(b) /\ (i - Len(a)) + Len(a) = i
    BY <1>1, <1>2, <1>4
  <2>2. m[i] = b[i - Len(a)]
    BY <1>1, <2>1, Zenon
  <2> QED
    BY <2>1, <2>2, Zenon DEF Unrevoked
<1> QED
  BY <1>1, <1>3, <1>4, Zenon DEF Grows, m

\* So does one more event of it.
LEMMA GrowsOne ==
  ASSUME NEW a, NEW b, NEW e, IsLog(a), IsLog(b), e.type # "RoleRevoked"
  PROVE  Grows(a \o b, a \o Append(b, e))
<1> DEFINE T == {a[i] : i \in 1 .. Len(a)} \cup {b[i] : i \in 1 .. Len(b)} \cup {e}
<1>1. a \in Seq(T) /\ b \in Seq(T) /\ e \in T
  BY LogSeq, Zenon
<1> HIDE DEF T
<1>2. a \o Append(b, e) = (a \o b) \o <<e>>
  BY <1>1
<1>3. IsLog(<<e>>) /\ Unrevoked(<<e>>)
  BY DEF IsLog, Unrevoked
<1> QED
  BY <1>2, <1>3, LogConcat, GrowsBy, Zenon

\* CountEnabledAdmins finds an administrator again when nothing is lost that it
\* rests on and no event revokes.
LEMMA AdminKept ==
  ASSUME NEW t, NEW new, NEW log, NEW newLog, IsTable(t), Mild(t, new), HasAdmin(t, log),
         \A u \in Users : Grows(log[u], newLog[u])
  PROVE  HasAdmin(new, newLog)
<1>1. PICK u \in Users : EnabledAdmin(t, log, u)
  BY Zenon DEF HasAdmin
<1>2. Live(new, u) /\ ~new[u].disabled
  BY <1>1, Zenon DEF EnabledAdmin, Mild
<1>3. ASSUME NEW g \in Grants, Live(t, g), t[g].global, Live(t, t[g].role), t[t[g].role].manage,
             t[g].principal = u \/ \E p \in Groups : t[g].principal = p /\ Live(t, <<p, u>>)
      PROVE  EnabledAdmin(new, newLog, u)
  <2>1. t[g] \in GrantRows /\ new[g] = t[g] /\ Live(new, g)
    BY <1>3, Zenon DEF IsTable, Mild, Live
  <2>2. t[g].role \in Roles
    BY <2>1 DEF GrantRows
  <2>3. new[t[g].role] = t[t[g].role] /\ Live(new, t[g].role)
    BY <1>3, <2>2, Zenon DEF Mild, Live
  <2>4. \A p \in Groups : Live(t, <<p, u>>) => Live(new, <<p, u>>)
    <3>1. \A p \in Groups : <<p, u>> \in Members
      BY DEF Members
    <3> QED
      BY <3>1, Zenon DEF Mild
  <2> QED
    BY <1>2, <1>3, <2>1, <2>3, <2>4, Zenon DEF EnabledAdmin
<1>4. ASSUME NEW i \in DOMAIN log[u], log[u][i].type = "BootstrapAdminRoleGranted",
             \A j \in DOMAIN log[u] : j > i => log[u][j].type # "RoleRevoked"
      PROVE  EnabledAdmin(new, newLog, u)
  <2> DEFINE a == log[u]
             b == newLog[u]
  <2>1. Grows(a, b) /\ i \in DOMAIN a
    BY <1>4, Zenon
  <2>2. DOMAIN a = 1 .. Len(a) /\ DOMAIN b = 1 .. Len(b) /\ Len(a) \in Nat /\ Len(b) \in Nat
    BY <2>1, Zenon DEF Grows, IsLog
  <2>3. a[i].type = "BootstrapAdminRoleGranted" /\ \A j \in DOMAIN a : j > i => a[j].type # "RoleRevoked"
    BY <1>4, Zenon
  <2> HIDE DEF a, b
  <2>4. i \in DOMAIN b /\ b[i].type = "BootstrapAdminRoleGranted"
    BY <2>1, <2>2, <2>3 DEF Grows
  <2>5. \A j \in DOMAIN b : j > i => b[j].type # "RoleRevoked"
    BY <2>1, <2>2, <2>3 DEF Grows
  <2> QED
    BY <1>2, <2>4, <2>5, Zenon DEF EnabledAdmin, b
<1>5. \/ \E g \in Grants :
           /\ Live(t, g) /\ t[g].global /\ Live(t, t[g].role) /\ t[t[g].role].manage
           /\ t[g].principal = u \/ \E p \in Groups : t[g].principal = p /\ Live(t, <<p, u>>)
      \/ \E i \in DOMAIN log[u] :
           /\ log[u][i].type = "BootstrapAdminRoleGranted"
           /\ \A j \in DOMAIN log[u] : j > i => log[u][j].type # "RoleRevoked"
  BY <1>1, Zenon DEF EnabledAdmin
<1>6. EnabledAdmin(new, newLog, u)
  BY <1>3, <1>4, <1>5, Zenon
<1> QED
  BY <1>6, Zenon DEF HasAdmin

\* A commit leaves the administrators of its own transaction to the store, and to
\* each open transaction those of the two, one of which is mild.
LEMMA CommitSees ==
  ASSUME NEW t, NEW log, NEW r, NEW q, NEW h, NEW g, TxOK(t, log, r, h), TxOK(t, log, q, g),
         Apart(q, r), ~(h /\ g), \A s \in Streams : IsLog(log[s]),
         Sees(t, log, r), Sees(t, log, q)
  PROVE  Sees(Over(t, q.writes), Extend(log, q.log), r)
<1> DEFINE a == Over(t, q.writes)
           b == Over(t, r.writes)
           m == Over(a, r.writes)
           la == Extend(log, q.log)
           lb == Extend(log, r.log)
           lm == Extend(la, r.log)
<1>1. Merge(t, a, b, m) /\ Merge(t, b, a, m)
  <2>1. DOMAIN q.writes \cap DOMAIN r.writes = {}
    BY Zenon DEF Apart
  <2> QED
    BY <2>1, Merges, MergeSwap, Zenon
<1>2. IsTable(a) /\ IsTable(b) /\ HasAdmin(a, la) /\ HasAdmin(b, lb)
  BY Zenon DEF TxOK, Seen, Sees
<1>3. (~h => Mild(t, b)) /\ (~g => Mild(t, a))
  BY Zenon DEF TxOK, Seen
<1>4. ASSUME NEW u \in Users
      PROVE  (~h => Grows(la[u], lm[u])) /\ (~g => Grows(lb[u], lm[u]))
  <2>1. /\ u \in Streams /\ IsLog(log[u]) /\ IsLog(q.log[u]) /\ IsLog(r.log[u])
        /\ (~h => Unrevoked(r.log[u])) /\ (~g => Unrevoked(q.log[u]))
    BY KeyTypes, Zenon DEF TxOK, IsTx, Seen
  <2>2. la[u] = log[u] \o q.log[u] /\ lb[u] = log[u] \o r.log[u] /\ lm[u] = la[u] \o r.log[u]
    BY <2>1, Zenon DEF Extend
  <2>3. q.log[u] = << >> \/ r.log[u] = << >>
    BY <2>1, Zenon DEF Apart
  <2> HIDE DEF la, lb, lm
  <2>4. IsLog(la[u]) /\ IsLog(lb[u])
    <3>1. IsLog(log[u] \o q.log[u]) /\ IsLog(log[u] \o r.log[u])
      BY <2>1, LogConcat, Zenon
    <3> QED
      BY <2>2, <3>1, Zenon
  <2>5. ~h => Grows(la[u], lm[u])
    BY <2>1, <2>2, <2>4, GrowsBy, Zenon
  <2>6. ASSUME ~g PROVE Grows(lb[u], lm[u])
    <3>1. CASE q.log[u] = << >>
      <4>1. lb[u] = lm[u]
        BY <2>1, <2>2, <3>1, GrowsSelf, Zenon
      <4> QED
        BY <2>4, <4>1, GrowsSelf, Zenon
    <3>2. CASE r.log[u] = << >>
      <4>1. lb[u] = log[u] /\ lm[u] = la[u]
        BY <2>1, <2>2, <2>4, <3>2, GrowsSelf, Zenon
      <4>2. Grows(log[u], la[u])
        BY <2>1, <2>2, <2>6, GrowsBy, Zenon
      <4> QED
        BY <4>1, <4>2, Zenon
    <3> QED
      BY <2>3, <3>1, <3>2, Zenon
  <2> QED
    BY <2>5, <2>6, Zenon
<1> HIDE DEF a, b, m, la, lb, lm
<1>5. HasAdmin(m, lm)
  <2>1. CASE ~h
    <3>1. Mild(a, m)
      BY <1>1, <1>3, <2>1, MergeMild, Zenon
    <3> QED
      BY <1>2, <1>4, <2>1, <3>1, AdminKept, Zenon
  <2>2. CASE ~g
    <3>1. Mild(b, m)
      BY <1>1, <1>3, <2>2, MergeMild, Zenon
    <3> QED
      BY <1>2, <1>4, <2>2, <3>1, AdminKept, Zenon
  <2> QED
    BY <2>1, <2>2, Zenon
<1> QED
  BY <1>5, Zenon DEF Sees, m, lm, a, la

-----------------------------------------------------------------------------
(* Steps that leave the committed table and events alone *)

\* What is known of a transaction stays known when it gets the lock.
LEMMA HoldsMore ==
  ASSUME NEW t, NEW log, NEW r, NEW h, NEW g, TxOK(t, log, r, h), h => g
  PROVE  TxOK(t, log, r, g)
<1>1. Stage(r, g)
  BY Zenon DEF TxOK, Stage
<1>2. Seen(t, r, g)
  BY Zenon DEF TxOK, Seen
<1> QED
  BY <1>1, <1>2, Zenon DEF TxOK

\* One caller's transaction moves; the lock stays with whoever else has it.
Others(c) ==
  /\ tx' = [d \in Callers |-> tx'[d]]
  /\ \A d \in Callers : d # c => tx'[d] = tx[d] /\ (lock' = d <=> lock = d)
Own(c) == table' = table /\ events' = events /\ Others(c)

\* Such a step is in order when the caller's own transaction is.
LEMMA OwnStep ==
  ASSUME IInv, NEW c \in Callers, Own(c), TxOK(table, events, tx'[c], lock' = c),
         \A d \in Callers : d # c => Apart(tx'[c], tx[d])
  PROVE  IInv'
<1>1. table' = table /\ events' = events /\ tx' = [d \in Callers |-> tx'[d]]
  BY Zenon DEF Own, Others
<1>2. StoreOK(table', events')
  BY <1>1, Zenon DEF IInv
<1>3. \A d \in Callers : TxOK(table', events', tx'[d], lock' = d)
  <2> SUFFICES ASSUME NEW d \in Callers PROVE TxOK(table, events, tx'[d], lock' = d)
    BY <1>1, Zenon
  <2>1. CASE d = c
    BY <2>1, Zenon
  <2>2. CASE d # c
    <3>1. TxOK(table, events, tx[d], lock = d)
      BY Zenon DEF IInv
    <3>2. tx'[d] = tx[d] /\ (lock = d => lock' = d)
      BY <2>2, Zenon DEF Own, Others
    <3>3. TxOK(table, events, tx[d], lock' = d)
      BY <3>1, <3>2, HoldsMore, Zenon
    <3> QED
      BY <3>2, <3>3, Zenon
  <2> QED
    BY <2>1, <2>2, Zenon
<1>4. ASSUME NEW d \in Callers, NEW b \in Callers, d # b
      PROVE  Apart(tx'[d], tx'[b])
  <2>1. CASE d = c
    BY <1>4, <2>1, Zenon DEF Own, Others
  <2>2. CASE b = c
    <3>1. Apart(tx'[c], tx[d]) /\ tx'[d] = tx[d]
      BY <1>4, <2>2, Zenon DEF Own, Others
    <3> QED
      BY <2>2, <3>1, Zenon DEF Apart
  <2>3. CASE d # c /\ b # c
    BY <1>4, <2>3, Zenon DEF Own, Others, IInv
  <2> QED
    BY <2>1, <2>2, <2>3, Zenon
<1> QED
  BY <1>1, <1>2, <1>3, <1>4, Zenon DEF IInv

\* Without rows and events a transaction is apart from every other.
LEMMA ApartFresh ==
  ASSUME NEW r, NEW q, r.writes = NoWrites, r.log = NoEvents
  PROVE  Apart(r, q)
BY NothingWritten, Zenon DEF Apart

\* A caller whose transaction starts anew or ends.
LEMMA FreshStep ==
  ASSUME IInv, NEW c \in Callers, Own(c), TxOK(table, events, tx'[c], lock' = c),
         tx'[c].writes = NoWrites, tx'[c].log = NoEvents
  PROVE  IInv'
BY ApartFresh, OwnStep, Zenon

\* A caller whose transaction moves without writing.
LEMMA MovedStep ==
  ASSUME IInv, NEW c \in Callers, Own(c), TxOK(table, events, tx'[c], lock' = c),
         Moved(tx[c], tx'[c])
  PROVE  IInv'
<1>1. tx'[c].writes = tx[c].writes /\ tx'[c].log = tx[c].log
  BY Zenon DEF Moved
<1>2. ASSUME NEW d \in Callers, d # c
      PROVE  Apart(tx'[c], tx[d])
  <2>1. Apart(tx[c], tx[d])
    BY <1>2, Zenon DEF IInv
  <2> QED
    BY <1>1, <2>1, Zenon DEF Apart
<1> QED
  BY <1>2, OwnStep, Zenon

\* The lock a transaction that ends gives back is nobody else's.
LEMMA ReleaseOthers ==
  ASSUME NEW c \in Callers, Release(c), NEW d \in Callers, d # c
  PROVE  lock' = d <=> lock = d
BY CallersAssumption, Zenon DEF Release

\* What an assignment to one caller's transaction does.
LEMMA TxAssigned ==
  ASSUME IInv, NEW c \in Callers, NEW q, tx' = [tx EXCEPT ![c] = q]
  PROVE  /\ tx' = [d \in Callers |-> tx'[d]] /\ tx'[c] = q
         /\ \A d \in Callers : d # c => tx'[d] = tx[d]
<1>1. tx = [d \in Callers |-> tx[d]]
  BY Zenon DEF IInv
<1> QED
  BY <1>1, Zenon

\* An error, or a deadlock, rolls the transaction back.
LEMMA FailStep ==
  ASSUME IInv, NEW c \in Callers, Fail(c)
  PROVE  IInv' /\ Own(c) /\ tx'[c] = Idle
<1>1. /\ tx' = [d \in Callers |-> tx'[d]] /\ tx'[c] = Idle
      /\ \A d \in Callers : d # c => tx'[d] = tx[d]
  BY TxAssigned, Zenon DEF Fail
<1>2. table' = table /\ events' = events /\ Release(c)
  BY Zenon DEF Fail
<1>3. Own(c)
  BY <1>1, <1>2, ReleaseOthers, Zenon DEF Own, Others
<1>4. IsTable(table) /\ MembersLive(table)
  BY Zenon DEF IInv, StoreOK
<1>5. TxOK(table, events, tx'[c], lock' = c)
  BY <1>1, <1>4, IdleOK, Zenon
<1>6. tx'[c].writes = NoWrites /\ tx'[c].log = NoEvents
  <2>1. Idle.writes = NoWrites /\ Idle.log = NoEvents
    BY DEF Idle
  <2> QED
    BY <1>1, <2>1, Zenon
<1> QED
  BY <1>1, <1>3, <1>5, <1>6, FreshStep, Zenon

\* The next event of a batch.
LEMMA CurrentEvent ==
  ASSUME IInv, NEW c \in Callers, tx[c].pc \in {"links", "read", "lock", "insert"}
  PROVE  /\ IsEvent(Current(c)) /\ Fits(Current(c)) /\ Current(c).stream \in Streams
         /\ CurrentStreamVersion(c, Current(c).stream) \in Nat
<1> DEFINE r == tx[c]
           k == Current(c).stream
<1>1. TxOK(table, events, r, lock = c)
  BY Zenon DEF IInv
<1>2. IsTx(r) /\ IsBatch(r.batch) /\ r.at \in Nat /\ r.at < Len(r.batch) /\ Len(r.batch) \in Nat
  BY <1>1, Zenon DEF TxOK, Stage, IsTx, IsBatch, IsLog
<1> HIDE DEF r
<1>3. r.at + 1 \in 1 .. Len(r.batch)
  BY <1>2
<1>4. IsEvent(Current(c)) /\ Fits(Current(c))
  BY <1>2, <1>3, Zenon DEF IsBatch, Current, r
<1>5. k \in Streams
  BY <1>4, Zenon DEF Fits, Streams, Groups
<1>6. \A s \in Streams : IsLog(events[s])
  BY Zenon DEF IInv, StoreOK
<1>7. Len(Extend(events, r.log)[k]) \in Nat
  BY <1>2, <1>5, <1>6, VersionAfter, Zenon
<1> QED
  BY <1>4, <1>5, <1>7, Zenon DEF CurrentStreamVersion, LogView, r

\* ReadVersion moves the transaction to its version.
LEMMA ReadMoves ==
  ASSUME IInv, NEW c \in Callers, ReadVersion(c), ~Fail(c)
  PROVE  /\ Own(c) /\ lock' = lock /\ tx'[c].pc = Enter(Current(c)) /\ Moved(tx[c], tx'[c])
         /\ IsTx(tx'[c]) /\ tx'[c].before = tx[c].before
<1> DEFINE r == tx[c]
           seen == CurrentStreamVersion(c, Current(c).stream)
           pc == Enter(Current(c))
<1>1. /\ r.pc = "read" /\ (r.pinned => r.version = seen)
      /\ tx' = [tx EXCEPT ![c].pc = pc, ![c].version = seen]
      /\ table' = table /\ events' = events /\ lock' = lock
  BY Zenon DEF ReadVersion
<1>2. seen \in Nat
  BY <1>1, CurrentEvent, Zenon
<1>3. tx = [d \in Callers |-> tx[d]] /\ IsTx(r)
  BY Zenon DEF IInv, TxOK
<1>4. pc \in {"lock", "insert"}
  BY Zenon DEF Enter
<1> HIDE DEF seen, pc
<1>5. /\ tx' = [d \in Callers |-> tx'[d]] /\ tx'[c] = [r EXCEPT !.pc = pc, !.version = seen]
      /\ \A d \in Callers : d # c => tx'[d] = tx[d]
  BY <1>1, <1>3
<1> HIDE DEF r
<1> DEFINE q == tx'[c]
<1>6. /\ TxFields(q) /\ q.pc = pc /\ q.version = seen /\ q.batch = r.batch /\ q.pinned = r.pinned
      /\ q.at = r.at /\ q.before = r.before /\ q.writes = r.writes /\ q.log = r.log
  BY <1>3, <1>5, Zenon DEF IsTx, TxFields
<1> HIDE DEF q
<1>7. IsTx(q)
  BY <1>2, <1>3, <1>4, <1>6, Zenon DEF IsTx
<1>8. Moved(r, q)
  BY <1>1, <1>4, <1>6, Zenon DEF Moved, r
<1>9. Own(c)
  BY <1>1, <1>5, Zenon DEF Own, Others
<1> QED
  BY <1>1, <1>6, <1>7, <1>8, <1>9, Zenon DEF q, r, pc

\* ReadVersion.
LEMMA ReadStep ==
  ASSUME IInv, NEW c \in Callers, ReadVersion(c)
  PROVE  IInv'
<1>1. CASE Fail(c)
  BY <1>1, FailStep, Zenon
<1>2. CASE ~Fail(c)
  <2> DEFINE r == tx[c]
             q == tx'[c]
  <2>1. Own(c) /\ lock' = lock /\ q.pc = Enter(Current(c)) /\ Moved(r, q) /\ IsTx(q)
    BY <1>2, ReadMoves, Zenon
  <2>2. TxOK(table, events, r, lock = c) /\ r.pc = "read"
    BY Zenon DEF IInv, ReadVersion
  <2>3. q.batch = r.batch /\ q.at = r.at /\ q.writes = r.writes /\ q.log = r.log
    BY <2>1, Zenon DEF Moved
  <2>4. r.at < Len(r.batch) /\ (r.at = 0 => r.writes = NoWrites /\ r.log = NoEvents)
    BY <2>2, Zenon DEF TxOK, Stage
  <2>5. q.pc \in {"lock", "insert"} /\ (q.pc = "insert" => ~Protected(r.batch[r.at + 1]))
    BY <2>1, Zenon DEF Enter, Current
  <2> HIDE DEF r, q
  <2>6. Stage(q, lock' = c)
    BY <2>3, <2>4, <2>5, Zenon DEF Stage
  <2>7. TxOK(table, events, q, lock' = c)
    BY <2>1, <2>2, <2>6, MovedOK, Zenon
  <2> QED
    BY <2>1, <2>7, MovedStep, Zenon DEF r, q
<1> QED
  BY <1>1, <1>2, Zenon

\* The lock is taken when nobody else has it, and the administrators counted.
LEMMA AcquireMoves ==
  ASSUME IInv, NEW c \in Callers, AcquireLastAdminMutationLock(c)
  PROVE  /\ Own(c) /\ lock' = c /\ tx'[c].pc = "insert" /\ Moved(tx[c], tx'[c])
         /\ IsTx(tx'[c]) /\ tx'[c].before = CountEnabledAdmins(View(c), LogView(c))
<1> DEFINE r == tx[c]
           n == CountEnabledAdmins(View(c), LogView(c))
<1>1. /\ r.pc = "lock" /\ WaitsFor(c) = {} /\ lock' = c
      /\ tx' = [tx EXCEPT ![c].pc = "insert", ![c].before = n]
      /\ table' = table /\ events' = events
  BY Zenon DEF AcquireLastAdminMutationLock
<1>2. lock \in {c, NoCaller}
  <2>1. WaitsFor(c) = {lock} \ {c, NoCaller}
    BY <1>1, Zenon DEF WaitsFor
  <2> QED
    BY <1>1, <2>1, Zenon
<1>3. tx = [d \in Callers |-> tx[d]] /\ IsTx(r)
  BY Zenon DEF IInv, TxOK
<1> HIDE DEF n
<1>4. /\ tx' = [d \in Callers |-> tx'[d]] /\ tx'[c] = [r EXCEPT !.pc = "insert", !.before = n]
      /\ \A d \in Callers : d # c => tx'[d] = tx[d]
  BY <1>1, <1>3
<1> HIDE DEF r
<1> DEFINE q == tx'[c]
<1>5. /\ TxFields(q) /\ q.pc = "insert" /\ q.before = n /\ q.batch = r.batch /\ q.pinned = r.pinned
      /\ q.at = r.at /\ q.version = r.version /\ q.writes = r.writes /\ q.log = r.log
  BY <1>3, <1>4, Zenon DEF IsTx, TxFields
<1> HIDE DEF q
<1>6. IsTx(q)
  BY <1>3, <1>5, Zenon DEF IsTx
<1>7. Moved(r, q)
  BY <1>1, <1>5, Zenon DEF Moved, r
<1>8. Own(c)
  BY <1>1, <1>2, <1>4, CallersAssumption, Zenon DEF Own, Others
<1> QED
  BY <1>1, <1>5, <1>6, <1>7, <1>8, Zenon DEF q, r, n

\* AcquireLastAdminMutationLock.
LEMMA AcquireStep ==
  ASSUME IInv, NEW c \in Callers, AcquireLastAdminMutationLock(c)
  PROVE  IInv'
<1> DEFINE r == tx[c]
           q == tx'[c]
<1>1. Own(c) /\ lock' = c /\ q.pc = "insert" /\ Moved(r, q) /\ IsTx(q)
  BY AcquireMoves, Zenon
<1>2. TxOK(table, events, r, lock = c) /\ r.pc = "lock"
  BY Zenon DEF IInv, AcquireLastAdminMutationLock
<1>3. q.batch = r.batch /\ q.at = r.at /\ q.writes = r.writes /\ q.log = r.log
  BY <1>1, Zenon DEF Moved
<1>4. r.at < Len(r.batch) /\ (r.at = 0 => r.writes = NoWrites /\ r.log = NoEvents)
  BY <1>2, Zenon DEF TxOK, Stage
<1> HIDE DEF r, q
<1>5. Stage(q, lock' = c)
  BY <1>1, <1>3, <1>4, Zenon DEF Stage
<1>6. TxOK(table, events, q, lock' = c)
  BY <1>1, <1>2, <1>5, MovedOK, Zenon
<1> QED
  BY <1>1, <1>6, MovedStep, Zenon DEF r, q

\* What After makes of a transaction.
LEMMA AfterFields ==
  ASSUME NEW r, TxFields(r)
  PROVE  LET q == After(r)
         IN  /\ TxFields(q) /\ q.batch = r.batch /\ q.pinned = r.pinned /\ q.at = r.at
             /\ q.version = r.version /\ q.before = r.before /\ q.writes = r.writes /\ q.log = r.log
             /\ q.pc = IF r.at = Len(r.batch) THEN "commit"
                       ELSE IF r.pinned THEN Enter(r.batch[r.at + 1]) ELSE "read"
BY Zenon DEF After, TxFields

\* Where it goes on.
LEMMA AfterStage ==
  ASSUME NEW r, NEW h, TxFields(r), r.at \in Nat, Len(r.batch) \in Nat, r.at <= Len(r.batch),
         r.at = 0 => r.writes = NoWrites /\ r.log = NoEvents
  PROVE  Stage(After(r), h) /\ After(r).pc \in {"read", "lock", "insert", "commit"}
<1> DEFINE q == After(r)
<1>1. /\ q.batch = r.batch /\ q.at = r.at /\ q.writes = r.writes /\ q.log = r.log
      /\ q.pc = IF r.at = Len(r.batch) THEN "commit"
                ELSE IF r.pinned THEN Enter(r.batch[r.at + 1]) ELSE "read"
  BY AfterFields, Zenon
<1> HIDE DEF q
<1>2. CASE r.at = Len(r.batch)
  BY <1>1, <1>2, Zenon DEF Stage, q
<1>3. CASE r.at # Len(r.batch)
  <2>1. r.at < Len(r.batch)
    BY <1>3
  <2>2. q.pc \in {"read", "lock", "insert"} /\ (q.pc = "insert" => ~Protected(r.batch[r.at + 1]))
    BY <1>1, <1>3, Zenon DEF Enter
  <2> QED
    BY <1>1, <2>1, <2>2, Zenon DEF Stage, q
<1> QED
  BY <1>2, <1>3, Zenon

\* protectLastAdminMutation lets the mutation stand.
LEMMA CountMoves ==
  ASSUME IInv, NEW c \in Callers, CountAfter(c), ~Fail(c)
  PROVE  /\ Own(c) /\ lock' = lock /\ tx'[c] = After(tx[c])
         /\ TxOK(table, events, tx'[c], lock' = c) /\ Moved(tx[c], tx'[c])
         /\ CountEnabledAdmins(View(c), LogView(c)) # 0
<1> DEFINE r == tx[c]
           q == tx'[c]
<1>1. /\ r.pc = "count" /\ tx' = [tx EXCEPT ![c] = After(r)]
      /\ table' = table /\ events' = events /\ lock' = lock
      /\ CountEnabledAdmins(View(c), LogView(c)) # 0
  BY Zenon DEF CountAfter
<1>2. /\ tx' = [d \in Callers |-> tx'[d]] /\ q = After(r)
      /\ \A d \in Callers : d # c => tx'[d] = tx[d]
  BY <1>1, TxAssigned, Zenon
<1>3. TxOK(table, events, r, lock = c)
  BY Zenon DEF IInv
<1> HIDE DEF r, q
<1>4. /\ IsTx(r) /\ TxFields(r) /\ r.at \in Nat /\ Len(r.batch) \in Nat /\ r.at <= Len(r.batch)
      /\ (r.at = 0 => r.writes = NoWrites /\ r.log = NoEvents)
  BY <1>1, <1>3, Zenon DEF TxOK, IsTx, Stage, IsBatch, IsLog, r
<1>5. /\ TxFields(q) /\ q.batch = r.batch /\ q.pinned = r.pinned /\ q.at = r.at
      /\ q.version = r.version /\ q.writes = r.writes /\ q.log = r.log
  BY <1>2, <1>4, AfterFields, Zenon
<1>6. Stage(q, lock' = c) /\ q.pc \in {"read", "lock", "insert", "commit"}
  BY <1>2, <1>4, AfterStage, Zenon
<1>7. IsTx(q)
  BY <1>4, <1>5, <1>6, Zenon DEF IsTx
<1>8. Moved(r, q)
  BY <1>1, <1>5, <1>6, Zenon DEF Moved, r
<1>9. TxOK(table, events, q, lock' = c)
  BY <1>1, <1>3, <1>6, <1>7, <1>8, MovedOK, Zenon
<1>10. Own(c)
  BY <1>1, <1>2, Zenon DEF Own, Others
<1> QED
  BY <1>1, <1>2, <1>8, <1>9, <1>10, Zenon DEF q, r

\* CountAfter.
LEMMA CountStep ==
  ASSUME IInv, NEW c \in Callers, CountAfter(c)
  PROVE  IInv'
<1>1. CASE Fail(c)
  BY <1>1, FailStep, Zenon
<1>2. CASE ~Fail(c)
  <2>1. Own(c) /\ TxOK(table, events, tx'[c], lock' = c) /\ Moved(tx[c], tx'[c])
    BY <1>2, CountMoves, Zenon
  <2> QED
    BY <2>1, MovedStep, Zenon
<1> QED
  BY <1>1, <1>2, Zenon

\* A batch that starts over after a conflict on its version: of deleteSCIMUser's
\* only the one that deprovisions, the other is pinned.
LEMMA RestartOK ==
  ASSUME NEW t, NEW log, NEW r, NEW h, NEW g, IsTable(t), MembersLive(t), TxOK(t, log, r, h),
         r.pc = "insert", ~r.pinned
  PROVE  TxOK(t, log, Append0(r.batch), g)
<1> DEFINE b == r.batch
           q == Append0(b)
<1>1. /\ TxFields(q) /\ q.pc = "read" /\ q.batch = b /\ q.at = 0 /\ q.writes = NoWrites
      /\ q.log = NoEvents /\ q.pinned \in BOOLEAN /\ q.version \in Nat /\ q.at \in Nat
  BY DEF Append0, Idle, TxFields
<1>2. IsTx(r) /\ IsBatch(b) /\ r.at \in Nat /\ r.at < Len(b) /\ Len(b) \in Nat
  BY Zenon DEF TxOK, IsTx, IsBatch, IsLog, Stage
<1> HIDE DEF b, q
<1>3. IsTx(q)
  BY <1>1, <1>2, NothingWritten, Zenon DEF IsTx
<1>4. q.at < Len(q.batch)
  <2>1. 0 < Len(b)
    BY <1>2
  <2> QED
    BY <1>1, <2>1, Zenon
<1>5. Stage(q, g)
  BY <1>1, <1>4, Zenon DEF Stage
<1>6. Seen(t, q, g) /\ \A u \in Users : KeepsLinks(t, Over(t, q.writes), u)
  BY <1>1, SeenFresh, Zenon
<1>7. ASSUME Unlinks(q.batch)
      PROVE  \E u \in Users, id \in SCIMIds : UnlinksOf(t, log, q, u, id)
  <2>1. PICK u \in Users, id \in SCIMIds : UnlinksOf(t, log, r, u, id)
    BY <1>1, <1>7, Zenon DEF TxOK, Linked, b
  <2>2. b # <<SCIMIdentityUnlinkedEvent(u, id)>>
    <3>1. SUFFICES ASSUME b = <<SCIMIdentityUnlinkedEvent(u, id)>> PROVE FALSE
      BY Zenon
    <3>2. Len(b) = 1
      BY <3>1
    <3>3. r.at = 0
      BY <1>2, <3>2
    <3>4. b # <<SCIMIdentityUnlinkedEvent(u, id), SCIMUserDeprovisionedEvent(u)>>
      BY <3>2
    <3> QED
      BY <2>1, <3>3, <3>4, Zenon DEF UnlinksOf, b
  <2>3. b = <<SCIMIdentityUnlinkedEvent(u, id), SCIMUserDeprovisionedEvent(u)>>
    BY <2>1, <2>2, Zenon DEF UnlinksOf, b
  <2>4. Over(t, q.writes) = t
    BY <1>1, OverNone, Zenon
  <2>5. q.at # 2 /\ q.pc # "links"
    BY <1>1
  <2>6. UnlinksOf(t, log, q, u, id)
    BY <1>1, <2>3, <2>4, <2>5, Zenon DEF UnlinksOf
  <2> QED
    BY <2>6, Zenon
<1>8. Linked(t, log, q)
  BY <1>1, <1>6, <1>7, Zenon DEF Linked
<1> QED
  BY <1>3, <1>5, <1>6, <1>8, Zenon DEF TxOK, b, q

\* VersionTaken.
LEMMA VersionStep ==
  ASSUME IInv, NEW c \in Callers, VersionTaken(c)
  PROVE  /\ IInv' /\ Own(c)
         /\ Fail(c) \/ tx'[c] = Append0(tx[c].batch)
<1>1. CASE Fail(c)
  BY <1>1, FailStep, Zenon
<1>2. CASE ~Fail(c)
  <2> DEFINE r == tx[c]
             q == Append0(r.batch)
  <2>1. /\ r.pc = "insert" /\ ~r.pinned /\ tx' = [tx EXCEPT ![c] = q] /\ Release(c)
        /\ table' = table /\ events' = events
    BY <1>2, Zenon DEF VersionTaken, Append0
  <2>2. q.writes = NoWrites /\ q.log = NoEvents
    BY DEF Append0, Idle
  <2> HIDE DEF q
  <2>3. /\ tx' = [d \in Callers |-> tx'[d]] /\ tx'[c] = q
        /\ \A d \in Callers : d # c => tx'[d] = tx[d]
    BY <2>1, TxAssigned, Zenon
  <2>4. Own(c)
    BY <2>1, <2>3, ReleaseOthers, Zenon DEF Own, Others
  <2>5. IsTable(table) /\ MembersLive(table) /\ TxOK(table, events, r, lock = c)
    BY Zenon DEF IInv, StoreOK
  <2>6. TxOK(table, events, q, lock' = c)
    BY <2>1, <2>5, RestartOK, Zenon DEF q
  <2>7. IInv'
    BY <2>2, <2>3, <2>4, <2>6, FreshStep, Zenon
  <2> QED
    BY <2>3, <2>4, <2>7, Zenon DEF q
<1> QED
  BY <1>1, <1>2, Zenon

\* The batch that unlinks a user's last identity and deprovisions it.
LEMMA DeprovisionBatch ==
  ASSUME NEW u \in Users, NEW e, IsEvent(e), Fits(e)
  PROVE  IsBatch(<<e, SCIMUserDeprovisionedEvent(u)>>)
<1> DEFINE f == SCIMUserDeprovisionedEvent(u)
<1>1. IsEvent(f) /\ Fits(f)
  BY UserEvents, Zenon DEF Plain
<1> HIDE DEF f
<1>2. /\ IsLog(<<e, f>>) /\ Len(<<e, f>>) = 2 /\ <<e, f>>[1] = e /\ <<e, f>>[2] = f
      /\ \A i \in 1 .. 2 : i = 1 \/ i = 2
  BY DEF IsLog
<1> QED
  BY <1>1, <1>2, Zenon DEF IsBatch, f

\* UserIdentityLinkCount.
LEMMA LinkCountStep ==
  ASSUME IInv, NEW c \in Callers, UserIdentityLinkCount(c)
  PROVE  /\ IInv' /\ Own(c) /\ lock' = lock /\ tx'[c].pc \in {"idle", "read"}
         /\ tx'[c].writes = NoWrites /\ tx'[c].log = NoEvents
<1> DEFINE r == tx[c]
           q == tx'[c]
           unlink == r.batch[1]
           u == unlink.stream
           links == IF Live(table, u) THEN CountUserIdentityLinks(table, u) ELSE 0
           new == IF links = 0 THEN Idle
                  ELSE IF links > 1 THEN [r EXCEPT !.pc = "read", !.pinned = TRUE]
                  ELSE Append0(<<unlink, SCIMUserDeprovisionedEvent(u)>>)
<1>1. /\ r.pc = "links" /\ tx' = [tx EXCEPT ![c] = new]
      /\ table' = table /\ events' = events /\ lock' = lock
  BY Zenon DEF UserIdentityLinkCount, Append0
<1> HIDE DEF new
<1>2. /\ tx' = [d \in Callers |-> tx'[d]] /\ q = new
      /\ \A d \in Callers : d # c => tx'[d] = tx[d]
  BY <1>1, TxAssigned, Zenon
<1>3. Own(c)
  BY <1>1, <1>2, Zenon DEF Own, Others
<1>4. /\ IsTable(table) /\ MembersLive(table) /\ TxOK(table, events, r, lock = c)
      /\ (lock' = c <=> lock = c)
  BY <1>1, Zenon DEF IInv, StoreOK
<1>5. IsTx(r) /\ TxFields(r) /\ r.at = 0 /\ r.writes = NoWrites /\ r.log = NoEvents
  BY <1>1, <1>4, Zenon DEF TxOK, IsTx, Stage
<1>6. IsEvent(unlink) /\ Fits(unlink) /\ u \in Users
  <2>1. PICK v \in Users, id \in SCIMIds : UnlinksOf(table, events, r, v, id)
    BY <1>1, <1>4, Zenon DEF TxOK, Linked
  <2>2. r.batch = <<SCIMIdentityUnlinkedEvent(v, id)>>
    BY <1>1, <2>1, Zenon DEF UnlinksOf
  <2>3. unlink = SCIMIdentityUnlinkedEvent(v, id) /\ Len(r.batch) = 1 /\ 1 \in 1 .. 1
    BY <2>2
  <2>4. Made(unlink, "SCIMIdentityUnlinked", v, id)
    BY <2>3, EventMade, Zenon DEF SCIMIdentityUnlinkedEvent
  <2> QED
    BY <1>5, <2>3, <2>4, Zenon DEF Made, IsTx, IsBatch
<1> HIDE DEF q
<1>7. CASE links = 0
  <2>1. q = Idle
    BY <1>2, <1>7, Zenon DEF new
  <2>2. q.pc = "idle" /\ q.writes = NoWrites /\ q.log = NoEvents
    BY <2>1 DEF Idle
  <2>3. TxOK(table, events, q, lock' = c)
    BY <1>4, <2>1, IdleOK, Zenon
  <2> QED
    BY <1>1, <1>3, <2>2, <2>3, FreshStep, Zenon DEF q
<1>8. CASE links # 0 /\ links > 1
  <2>1. q = [r EXCEPT !.pc = "read", !.pinned = TRUE]
    BY <1>2, <1>8, Zenon DEF new
  <2>2. Live(table, u) /\ Cardinality(table[u].links) > 1
    BY <1>8, Zenon DEF CountUserIdentityLinks
  <2> HIDE DEF r, links, u, unlink
  <2>3. /\ TxFields(q) /\ q.pc = "read" /\ q.batch = r.batch /\ q.at = r.at /\ q.writes = r.writes
        /\ q.log = r.log /\ q.pinned = TRUE /\ q.version = r.version
    BY <1>5, <2>1, Zenon DEF TxFields
  <2>4. IsTx(q)
    BY <1>5, <2>3, Zenon DEF IsTx
  <2>5. TxOK(table, events, q, lock = c)
    BY <1>1, <1>4, <1>5, <2>2, <2>3, <2>4, LinkCountOK, Zenon DEF r, u, unlink
  <2>6. TxOK(table, events, q, lock' = c)
    BY <1>4, <2>5, HoldsMore, Zenon
  <2> QED
    BY <1>1, <1>3, <1>5, <2>3, <2>6, FreshStep, Zenon DEF q
<1>9. CASE links # 0 /\ ~(links > 1)
  <2> DEFINE b == <<unlink, SCIMUserDeprovisionedEvent(u)>>
  <2>1. q = Append0(b) /\ IsBatch(b)
    BY <1>2, <1>6, <1>9, DeprovisionBatch, Zenon DEF new
  <2> HIDE DEF r, links, u, unlink, b
  <2>2. /\ TxFields(q) /\ q.pc = "read" /\ q.batch = b /\ q.at = 0 /\ q.writes = NoWrites
        /\ q.log = NoEvents /\ q.pinned \in BOOLEAN /\ q.version \in Nat /\ q.at \in Nat
    BY <2>1 DEF TxFields, Append0, Idle
  <2>3. IsTx(q)
    BY <2>1, <2>2, NothingWritten, Zenon DEF IsTx
  <2>4. TxOK(table, events, q, lock = c)
    BY <1>1, <1>4, <2>2, <2>3, LinkCountOK, Zenon DEF r, u, unlink, b
  <2>5. TxOK(table, events, q, lock' = c)
    BY <1>4, <2>4, HoldsMore, Zenon
  <2> QED
    BY <1>1, <1>3, <2>2, <2>5, FreshStep, Zenon DEF q
<1> QED
  BY <1>7, <1>8, <1>9, Zenon

\* A handler's call.
LEMMA HandlerStep ==
  ASSUME IInv, NEW c \in Callers, Handler(c)
  PROVE  IInv' /\ Own(c) /\ lock' = lock /\ Request(events, tx'[c])
<1>1. StoreOK(table, events) /\ IsTable(table) /\ MembersLive(table)
  BY Zenon DEF IInv, StoreOK
<1>2. PICK r : Request(events, r) /\ Begin(c, r)
  BY <1>1, HandlerStarted, Zenon DEF Started
<1>3. tx' = [tx EXCEPT ![c] = r] /\ table' = table /\ events' = events /\ lock' = lock
  BY <1>2, Zenon DEF Begin
<1>4. /\ tx' = [d \in Callers |-> tx'[d]] /\ tx'[c] = r
      /\ \A d \in Callers : d # c => tx'[d] = tx[d]
  BY <1>3, TxAssigned, Zenon
<1>5. Own(c)
  BY <1>3, <1>4, Zenon DEF Own, Others
<1>6. TxOK(table, events, r, lock' = c)
  BY <1>1, <1>2, RequestOK, Zenon
<1>7. r.writes = NoWrites /\ r.log = NoEvents
  BY <1>2, Zenon DEF Request
<1>8. IInv'
  BY <1>4, <1>5, <1>6, <1>7, FreshStep, Zenon
<1> QED
  BY <1>2, <1>3, <1>4, <1>5, <1>8, Zenon

\* The event an insert appends, and what its projector makes of the table.
NewEvent(c) == [Current(c) EXCEPT !.version = tx[c].version + 1]
NewTable(c) == project(View(c), NewEvent(c), FALSE).table
NextTx(c) ==
  [tx[c] EXCEPT !.at = tx[c].at + 1,
     !.version = IF tx[c].pinned THEN tx[c].version + 1 ELSE tx[c].version,
     !.writes = Changes(table, NewTable(c)),
     !.log = [tx[c].log EXCEPT ![NewEvent(c).stream] =
                Append(tx[c].log[NewEvent(c).stream], NewEvent(c))]]
CountNext(c) == [NextTx(c) EXCEPT !.pc = "count"]

\* InsertEvent in these words.
LEMMA InsertReads ==
  ASSUME NEW c, InsertEvent(c), ~Fail(c)
  PROVE  /\ tx[c].pc = "insert" /\ WaitsFor(c) = {}
         /\ tx[c].version = CurrentStreamVersion(c, Current(c).stream)
         /\ Accepts(View(c), NewEvent(c))
         /\ tx' = [tx EXCEPT ![c] = IF Protected(NewEvent(c)) /\ tx[c].before > 0
                                    THEN CountNext(c) ELSE After(NextTx(c))]
         /\ table' = table /\ events' = events /\ lock' = lock
BY Zenon DEF InsertEvent, Accepts, NewEvent, NewTable, NextTx, CountNext

\* The event has its number, and the projector does what it does.
LEMMA InsertProjects ==
  ASSUME IInv, NEW c \in Callers, tx[c].pc = "insert", Accepts(View(c), NewEvent(c))
  PROVE  /\ Numbers(NewEvent(c), Current(c), tx[c].version + 1)
         /\ NewEvent(c).stream \in Streams /\ Projected(View(c), NewTable(c), NewEvent(c))
<1> DEFINE f == Current(c)
           e == NewEvent(c)
           n == tx[c].version + 1
<1>1. IsEvent(f) /\ Fits(f) /\ f.stream \in Streams
  BY CurrentEvent, Zenon
<1>2. e = [f EXCEPT !.version = n]
  BY Zenon DEF NewEvent
<1> HIDE DEF f, e, n
<1>3. e.type = f.type /\ e.stream = f.stream /\ e.arg = f.arg /\ e.version = n
  BY <1>1, <1>2 DEF IsEvent
<1>4. Fits(e)
  <2>1. CASE f.stream \in Users
    BY <1>1, <1>3, <2>1, KeyTypes, Zenon DEF Fits
  <2>2. CASE f.stream \in UserGroups
    BY <1>1, <1>3, <2>2, KeyTypes, Zenon DEF Fits
  <2>3. CASE f.stream \in SCIMGroups
    BY <1>1, <1>3, <2>3, KeyTypes, Zenon DEF Fits
  <2>4. CASE f.stream \in Roles
    BY <1>1, <1>3, <2>4, KeyTypes, Zenon DEF Fits
  <2>5. CASE f.stream \in Grants
    BY <1>1, <1>3, <2>5, KeyTypes, Zenon DEF Fits
  <2> QED
    BY <1>1, <2>1, <2>2, <2>3, <2>4, <2>5, Zenon DEF Streams, Groups
<1>5. IsTable(View(c)) /\ MembersLive(View(c))
  BY Zenon DEF IInv, TxOK, Seen, View
<1>6. Projected(View(c), NewTable(c), e)
  BY <1>4, <1>5, Projection, Zenon DEF NewTable, e
<1> QED
  BY <1>1, <1>3, <1>4, <1>6, Zenon DEF Numbers, e, f, n

\* The transaction after the insert.
LEMMA InsertNext ==
  ASSUME IInv, NEW c \in Callers, tx[c].pc = "insert"
  PROVE  LET q == NextTx(c)
             r == tx[c]
             e == NewEvent(c)
         IN  /\ TxFields(q) /\ q.batch = r.batch /\ q.pinned = r.pinned /\ q.at = r.at + 1
             /\ q.before = r.before /\ q.version \in Nat /\ q.writes = Changes(table, NewTable(c))
             /\ q.log = [r.log EXCEPT ![e.stream] = Append(r.log[e.stream], e)]
             /\ q.at \in Nat /\ Len(q.batch) \in Nat /\ q.at <= Len(q.batch) /\ q.at # 0
<1> DEFINE r == tx[c]
           e == NewEvent(c)
           q == NextTx(c)
           n == IF r.pinned THEN r.version + 1 ELSE r.version
           at == r.at + 1
           w == Changes(table, NewTable(c))
           l == [r.log EXCEPT ![e.stream] = Append(r.log[e.stream], e)]
<1>1. TxOK(table, events, r, lock = c)
  BY Zenon DEF IInv
<1>2. /\ TxFields(r) /\ r.at \in Nat /\ r.version \in Nat /\ Len(r.batch) \in Nat
      /\ r.at < Len(r.batch)
  BY <1>1, Zenon DEF TxOK, IsTx, Stage, IsBatch, IsLog
<1>3. q = [r EXCEPT !.at = at, !.version = n, !.writes = w, !.log = l]
  BY Zenon DEF NextTx
<1>4. /\ at \in Nat /\ at <= Len(r.batch) /\ at # 0 /\ r.version + 1 \in Nat
  BY <1>2
<1>5. n \in Nat
  BY <1>2, <1>4, Zenon
<1> HIDE DEF r, e, q, n, at, w, l
<1>6. /\ TxFields(q) /\ q.batch = r.batch /\ q.pinned = r.pinned /\ q.at = at
      /\ q.before = r.before /\ q.version = n /\ q.writes = w /\ q.log = l
  BY <1>2, <1>3, Zenon DEF TxFields
<1> QED
  BY <1>2, <1>4, <1>5, <1>6, Zenon DEF r, e, q, n, at, w, l

\* What an insert does to its caller's transaction.
InsertDone(c) ==
  /\ Own(c) /\ lock' = lock
  /\ tx[c].version = Len(Extend(events, tx[c].log)[NewEvent(c).stream])
  /\ Inserted(table, tx[c], tx'[c], NewTable(c), NewEvent(c))
  /\ TxOK(table, events, tx'[c], lock' = c)
  /\ Over(table, tx'[c].writes) = NewTable(c)
  /\ Protected(NewEvent(c)) /\ tx[c].before > 0 => tx'[c].pc = "count"
  /\ tx'[c].pc = "insert" => ~Protected(tx'[c].batch[tx'[c].at + 1])

\* InsertEvent, when the projector accepts.
LEMMA InsertMoves ==
  ASSUME LinksCounted, IInv, NEW c \in Callers, InsertEvent(c), ~Fail(c)
  PROVE  InsertDone(c)
<1> DEFINE r == tx[c]
           e == NewEvent(c)
           q == tx'[c]
           x == NextTx(c)
<1>1. /\ r.pc = "insert" /\ Accepts(View(c), e)
      /\ r.version = CurrentStreamVersion(c, Current(c).stream)
      /\ tx' = [tx EXCEPT ![c] = IF Protected(e) /\ r.before > 0 THEN CountNext(c) ELSE After(x)]
      /\ table' = table /\ events' = events /\ lock' = lock
  BY InsertReads, Zenon
<1>2. /\ tx' = [d \in Callers |-> tx'[d]]
      /\ q = IF Protected(e) /\ r.before > 0 THEN CountNext(c) ELSE After(x)
      /\ \A d \in Callers : d # c => tx'[d] = tx[d]
  BY <1>1, TxAssigned, Zenon
<1>3. Own(c)
  BY <1>1, <1>2, Zenon DEF Own, Others
<1>4. Numbers(e, r.batch[r.at + 1], r.version + 1) /\ e.stream \in Streams
      /\ Projected(View(c), NewTable(c), e) /\ e.stream = Current(c).stream
  BY <1>1, InsertProjects, Zenon DEF Current, Numbers
<1>5. /\ TxFields(x) /\ x.batch = r.batch /\ x.pinned = r.pinned /\ x.at = r.at + 1
      /\ x.version \in Nat /\ x.writes = Changes(table, NewTable(c))
      /\ x.log = [r.log EXCEPT ![e.stream] = Append(r.log[e.stream], e)]
      /\ x.at \in Nat /\ Len(x.batch) \in Nat /\ x.at <= Len(x.batch) /\ x.at # 0
  BY <1>1, InsertNext, Zenon
<1>6. /\ IsTable(table) /\ TxOK(table, events, r, lock = c)
      /\ \A s \in Streams : IsLog(events[s])
  BY Zenon DEF IInv, StoreOK
<1>7. r.version = Len(Extend(events, r.log)[e.stream])
  BY <1>1, <1>4, Zenon DEF CurrentStreamVersion, LogView
<1>8. View(c) = Over(table, r.writes)
  BY Zenon DEF View
<1>9. CountNext(c) = [x EXCEPT !.pc = "count"]
  BY Zenon DEF CountNext
<1> HIDE DEF r, e, q, x
<1>10. /\ Stage(q, lock = c) /\ q.pc \in {"read", "lock", "insert", "count", "commit"}
       /\ TxFields(q) /\ q.batch = x.batch /\ q.pinned = x.pinned /\ q.at = x.at
       /\ q.version = x.version /\ q.writes = x.writes /\ q.log = x.log
       /\ (Protected(e) /\ r.before > 0 => q.pc = "count")
  <2>1. CASE Protected(e) /\ r.before > 0
    <3>1. q = [x EXCEPT !.pc = "count"]
      BY <1>2, <1>9, <2>1, Zenon
    <3>2. /\ q.pc = "count" /\ TxFields(q) /\ q.batch = x.batch /\ q.pinned = x.pinned /\ q.at = x.at
          /\ q.version = x.version /\ q.writes = x.writes /\ q.log = x.log
      BY <1>5, <3>1, Zenon DEF TxFields
    <3>3. lock = c
      BY <1>1, <1>4, <1>6, <2>1, Zenon DEF TxOK, Stage, Numbers, Protected, r
    <3>4. Stage(q, lock = c)
      BY <1>5, <3>2, <3>3, Zenon DEF Stage
    <3> QED
      BY <3>2, <3>4, Zenon
  <2>2. CASE ~(Protected(e) /\ r.before > 0)
    <3>1. q = After(x)
      BY <1>2, <2>2, Zenon
    <3>2. /\ TxFields(q) /\ q.batch = x.batch /\ q.pinned = x.pinned /\ q.at = x.at
          /\ q.version = x.version /\ q.writes = x.writes /\ q.log = x.log
      BY <1>5, <3>1, AfterFields, Zenon
    <3>3. Stage(q, lock = c) /\ q.pc \in {"read", "lock", "insert", "commit"}
      BY <1>5, <3>1, AfterStage, Zenon
    <3> QED
      BY <2>2, <3>2, <3>3, Zenon
  <2> QED
    BY <2>1, <2>2, Zenon
<1>11. Inserted(table, r, q, NewTable(c), e)
  BY <1>5, <1>10, Zenon DEF Inserted
<1>12. TxOK(table, events, q, lock = c) /\ Over(table, q.writes) = NewTable(c)
  <2>1. r.pc = "insert" /\ Projected(Over(table, r.writes), NewTable(c), e)
    BY <1>1, <1>4, <1>8, Zenon
  <2>2. TxOK(table, events, q, lock = c)
    BY <1>4, <1>6, <1>7, <1>10, <1>11, <2>1, InsertOK, Zenon
  <2>3. IsTable(NewTable(c)) /\ q.writes = Changes(table, NewTable(c))
    BY <1>5, <1>10, <2>1, Zenon DEF Projected
  <2>4. Over(table, Changes(table, NewTable(c))) = NewTable(c)
    BY <1>6, <2>3, OverChanges, Zenon
  <2> QED
    BY <2>2, <2>3, <2>4, Zenon
<1>13. TxOK(table, events, q, lock' = c)
  BY <1>1, <1>12, Zenon
<1>14. q.pc = "insert" => ~Protected(q.batch[q.at + 1])
  <2>1. SUFFICES ASSUME q.pc = "insert" PROVE ~Protected(q.batch[q.at + 1])
    BY Zenon
  <2>2. q = After(x)
    <3>1. CASE Protected(e) /\ r.before > 0
      BY <1>10, <2>1, <3>1, Zenon
    <3>2. CASE ~(Protected(e) /\ r.before > 0)
      BY <1>2, <3>2, Zenon
    <3> QED
      BY <3>1, <3>2, Zenon
  <2>3. q.pc = IF x.at = Len(x.batch) THEN "commit"
               ELSE IF x.pinned THEN Enter(x.batch[x.at + 1]) ELSE "read"
    BY <1>5, <2>2, AfterFields, Zenon
  <2>4. Enter(x.batch[x.at + 1]) = "insert"
    BY <2>1, <2>3, Zenon
  <2>5. ~Protected(x.batch[x.at + 1])
    BY <2>4, Zenon DEF Enter
  <2> QED
    BY <1>10, <2>5, Zenon
<1> QED
  BY <1>1, <1>3, <1>7, <1>10, <1>11, <1>12, <1>13, <1>14, Zenon DEF InsertDone, r, e, q

\* An insert waits for the rows and the stream it writes, so that the caller
\* stays apart from the others.
LEMMA InsertApart ==
  ASSUME IInv, NEW c \in Callers, InsertEvent(c), ~Fail(c), InsertDone(c),
         NEW d \in Callers, d # c
  PROVE  Apart(tx'[c], tx[d])
<1> DEFINE r == tx[c]
           e == NewEvent(c)
           q == tx'[c]
           view == View(c)
           new == NewTable(c)
           rows == DOMAIN Changes(view, new)
<1>1. r.pc = "insert" /\ WaitsFor(c) = {} /\ Accepts(view, e)
  BY InsertReads, Zenon
<1>2. InsertWaitsFor(c) = {}
  BY <1>1, Zenon DEF WaitsFor
<1>3. e.stream = Current(c).stream /\ e.stream \in Streams /\ IsTable(new) /\ IsTable(table)
  BY <1>1, InsertProjects, Zenon DEF Numbers, Projected, IInv, StoreOK
<1>4. tx[d].log[e.stream] = << >> /\ DOMAIN tx[d].writes \cap rows = {}
  <2>1. d \in Callers \ {c} /\ d \notin InsertWaitsFor(c)
    BY <1>2, Zenon
  <2> QED
    BY <1>3, <2>1, Zenon DEF InsertWaitsFor, NewTable, NewEvent
<1>5. rows = {k \in Keys : view[k] # new[k]}
  BY Zenon DEF Changes
<1>6. Inserted(table, r, q, new, e) /\ IsTx(r)
  BY Zenon DEF InsertDone, IInv, TxOK
<1>7. Apart(r, tx[d])
  BY Zenon DEF IInv
<1>8. q.writes = Changes(table, new)
  BY <1>6, Zenon DEF Inserted
<1>9. LogInserted(r, q, e)
  BY <1>3, <1>6, InsertLog, Zenon
<1>10. \A k \in Keys : k \notin DOMAIN r.writes => view[k] = table[k]
  BY Zenon DEF View, Over
<1> HIDE DEF r, e, q, view, new, rows
<1>11. DOMAIN Changes(table, new) = {k \in Keys : table[k] # new[k]}
  BY Zenon DEF Changes
<1>12. \A k \in DOMAIN q.writes : k \in rows \/ k \in DOMAIN r.writes
  BY <1>5, <1>8, <1>10, <1>11, Zenon
<1>13. DOMAIN q.writes \cap DOMAIN tx[d].writes = {}
  BY <1>4, <1>7, <1>12, Zenon DEF Apart
<1>14. \A s \in Streams : q.log[s] = << >> \/ tx[d].log[s] = << >>
  BY <1>4, <1>7, <1>9, Zenon DEF Apart, LogInserted
<1> QED
  BY <1>13, <1>14, Zenon DEF Apart, q

\* InsertEvent.
LEMMA InsertStep ==
  ASSUME LinksCounted, IInv, NEW c \in Callers, InsertEvent(c)
  PROVE  IInv'
<1>1. CASE Fail(c)
  BY <1>1, FailStep, Zenon
<1>2. CASE ~Fail(c)
  <2>1. InsertDone(c)
    BY <1>2, InsertMoves, Zenon
  <2>2. Own(c) /\ TxOK(table, events, tx'[c], lock' = c)
    BY <2>1, Zenon DEF InsertDone
  <2>3. \A d \in Callers : d # c => Apart(tx'[c], tx[d])
    BY <1>2, <2>1, InsertApart, Zenon
  <2> QED
    BY <2>2, <2>3, OwnStep, Zenon
<1> QED
  BY <1>1, <1>2, Zenon

-----------------------------------------------------------------------------
(* The commit *)

\* A commit that the foreign keys allow.
LEMMA CommitReads ==
  ASSUME IInv, NEW c \in Callers, Commit(c), ~Fail(c)
  PROVE  /\ tx[c].pc = "commit" /\ Others(c) /\ tx'[c] = Idle
         /\ table' = Over(table, tx[c].writes) /\ events' = Extend(events, tx[c].log)
<1>1. /\ tx[c].pc = "commit" /\ tx' = [tx EXCEPT ![c] = Idle] /\ Release(c)
      /\ table' = Over(table, tx[c].writes) /\ events' = Extend(events, tx[c].log)
  BY Zenon DEF Commit, View, LogView
<1>2. /\ tx' = [d \in Callers |-> tx'[d]] /\ tx'[c] = Idle
      /\ \A d \in Callers : d # c => tx'[d] = tx[d]
  BY <1>1, TxAssigned, Zenon
<1>3. Others(c)
  BY <1>1, <1>2, ReleaseOthers, Zenon DEF Others
<1> QED
  BY <1>1, <1>2, <1>3, Zenon

\* Commit.
LEMMA CommitStep ==
  ASSUME IInv, NEW c \in Callers, Commit(c)
  PROVE  IInv'
<1>1. CASE Fail(c)
  BY <1>1, FailStep, Zenon
<1>2. CASE ~Fail(c)
  <2> DEFINE r == tx[c]
             t == Over(table, r.writes)
             log == Extend(events, r.log)
  <2>1. Others(c) /\ tx'[c] = Idle /\ table' = t /\ events' = log
    BY <1>2, CommitReads, Zenon
  <2>2. tx' = [d \in Callers |-> tx'[d]]
    BY <2>1, Zenon DEF Others
  <2>3. /\ TxOK(table, events, r, lock = c) /\ IsTx(r) /\ IsTable(t) /\ MembersLive(t)
        /\ \A s \in Streams : IsLog(events[s])
    BY Zenon DEF IInv, TxOK, Seen, StoreOK
  <2>4. log = [s \in Streams |-> log[s]] /\ \A s \in Streams : log[s] = events[s] \o r.log[s]
    BY Zenon DEF Extend
  <2>5. \A s \in Streams : IsLog(log[s])
    <3>1. \A s \in Streams : IsLog(events[s]) /\ IsLog(r.log[s])
      BY <2>3, Zenon DEF IsTx
    <3> HIDE DEF r, log
    <3>2. \A s \in Streams : IsLog(events[s] \o r.log[s])
      BY <3>1, LogConcat, Zenon
    <3> QED
      BY <2>4, <3>2, Zenon
  <2> HIDE DEF r, t, log
  <2>6. StoreOK(t, log)
    BY <2>3, <2>4, <2>5, Zenon DEF StoreOK
  <2>7. TxOK(t, log, Idle, lock' = c)
    BY <2>3, IdleOK, Zenon
  <2>8. ASSUME NEW d \in Callers, d # c
        PROVE  TxOK(t, log, tx[d], lock' = d)
    <3>1. TxOK(table, events, tx[d], lock = d) /\ Apart(r, tx[d]) /\ ~(lock = d /\ lock = c)
      BY <2>8, Zenon DEF IInv, r
    <3>2. TxOK(t, log, tx[d], lock = d)
      BY <2>3, <3>1, CommitOther, Zenon DEF t, log
    <3>3. lock = d => lock' = d
      BY <2>1, <2>8, Zenon DEF Others
    <3> QED
      BY <3>2, <3>3, HoldsMore, Zenon
  <2>9. \A d \in Callers : TxOK(t, log, tx'[d], lock' = d)
    BY <2>1, <2>7, <2>8, Zenon DEF Others
  <2>10. Idle.writes = NoWrites /\ Idle.log = NoEvents
    BY DEF Idle
  <2>11. ASSUME NEW d \in Callers, NEW b \in Callers, d # b
         PROVE  Apart(tx'[d], tx'[b])
    <3>1. CASE d = c
      BY <2>1, <2>10, <3>1, ApartFresh, Zenon
    <3>2. CASE b = c
      <4>1. Apart(tx'[b], tx'[d])
        BY <2>1, <2>10, <3>2, ApartFresh, Zenon
      <4> QED
        BY <4>1, Zenon DEF Apart
    <3>3. CASE d # c /\ b # c
      BY <2>1, <2>11, <3>3, Zenon DEF Others, IInv
    <3> QED
      BY <3>1, <3>2, <3>3, Zenon
  <2> QED
    BY <2>1, <2>2, <2>6, <2>9, <2>11, Zenon DEF IInv
<1> QED
  BY <1>1, <1>2, Zenon

-----------------------------------------------------------------------------
(* The invariant is inductive *)

\* The set-up satisfies the invariant (Init).
LEMMA InitOK ==
  ASSUME Init
  PROVE  IInv
<1>1. /\ table = SetupTable /\ events = SetupEvents /\ tx = [c \in Callers |-> Idle]
      /\ lock = NoCaller
  BY Zenon DEF Init
<1>2. StoreOK(table, events)
  <2>1. events = [s \in Streams |-> events[s]]
    BY <1>1, Zenon DEF SetupEvents
  <2> QED
    BY <1>1, <2>1, SetupAssumption, Zenon DEF StoreOK
<1>3. \A c \in Callers : tx[c] = Idle
  BY <1>1, Zenon
<1>4. \A c \in Callers : TxOK(table, events, tx[c], lock = c)
  BY <1>2, <1>3, IdleOK, Zenon DEF StoreOK
<1>5. Idle.writes = NoWrites /\ Idle.log = NoEvents
  BY DEF Idle
<1>6. \A c, d \in Callers : c # d => Apart(tx[c], tx[d])
  BY <1>3, <1>5, ApartFresh, Zenon
<1>7. tx = [c \in Callers |-> tx[c]]
  BY <1>1, <1>3, Zenon
<1> QED
  BY <1>2, <1>4, <1>6, <1>7, Zenon DEF IInv

\* Every step of a caller keeps it.
LEMMA StepOK ==
  ASSUME LinksCounted, IInv, NEW c \in Callers, Step(c)
  PROVE  IInv'
<1>1. ASSUME DeadlockVictim(c) PROVE IInv'
  <2>1. Fail(c)
    BY <1>1, Zenon DEF DeadlockVictim
  <2> QED
    BY <2>1, FailStep, Zenon
<1> QED
  BY <1>1, LinkCountStep, ReadStep, AcquireStep, VersionStep, InsertStep, CountStep, CommitStep, Zenon
     DEF Step

\* And so does every step of the system, and the steps that change nothing.
LEMMA NextOK ==
  ASSUME LinksCounted, IInv, [Next]_vars
  PROVE  IInv'
<1>1. ASSUME Next PROVE IInv'
  <2>1. PICK c \in Callers : Handler(c) \/ Step(c)
    BY <1>1, Zenon DEF Next
  <2>2. ASSUME Handler(c) PROVE IInv'
    BY <2>2, HandlerStep, Zenon
  <2>3. ASSUME Step(c) PROVE IInv'
    BY <2>3, StepOK, Zenon
  <2> QED
    BY <2>1, <2>2, <2>3, Zenon
<1>2. ASSUME UNCHANGED vars PROVE IInv'
  <2>1. table' = table /\ events' = events /\ tx' = tx /\ lock' = lock
    BY <1>2 DEF vars
  <2> QED
    BY <2>1, Zenon DEF IInv
<1> QED
  BY <1>1, <1>2, Zenon

-----------------------------------------------------------------------------
(* The links and the administrators *)

\* What the counts of administrators say (CountEnabledAdmins).
AdminsCounted ==
  \A t, log : /\ CountEnabledAdmins(t, log) # 0 <=> HasAdmin(t, log)
              /\ CountEnabledAdmins(t, log) > 0 <=> HasAdmin(t, log)

\* Only a commit changes the committed rows.
LEMMA Committed ==
  ASSUME IInv, [Next]_vars, table' # table
  PROVE  \E c \in Callers : Commit(c) /\ ~Fail(c)
<1>1. table' # table => ~(UNCHANGED vars)
  BY DEF vars
<1>2. PICK c \in Callers : Handler(c) \/ Step(c)
  BY <1>1, Zenon DEF Next
<1>3. ~Handler(c) /\ ~Fail(c)
  BY HandlerStep, FailStep, Zenon DEF Own
<1>4. ~UserIdentityLinkCount(c) /\ ~VersionTaken(c) /\ ~AcquireLastAdminMutationLock(c)
  BY LinkCountStep, VersionStep, AcquireMoves, Zenon DEF Own
<1>5. ~ReadVersion(c) /\ ~CountAfter(c) /\ ~DeadlockVictim(c)
  BY <1>3, ReadMoves, CountMoves, Zenon DEF Own, DeadlockVictim
<1>6. ~InsertEvent(c)
  BY <1>3, InsertReads, Zenon
<1> QED
  BY <1>2, <1>3, <1>4, <1>5, <1>6, Zenon DEF Step

\* A commit that takes a SCIM link is of a batch of deleteSCIMUser: it leaves
\* another link, or it has deprovisioned the user.
LEMMA CommitKeepsLink ==
  ASSUME IInv, NEW c \in Callers, Commit(c), ~Fail(c),
         NEW u \in Users, Live(table, u), Live(table', u),
         table[u].links \cap SCIMIds # table'[u].links \cap SCIMIds
  PROVE  table'[u].links # {}
<1> DEFINE r == tx[c]
           new == Over(table, r.writes)
<1>1. r.pc = "commit" /\ table' = new
  BY CommitReads, Zenon
<1>2. Linked(table, events, r) /\ r.at = Len(r.batch)
  BY <1>1, Zenon DEF IInv, TxOK, Stage
<1>3. ASSUME ~Unlinks(r.batch) PROVE new[u].links # {}
  <2>1. KeepsLinks(table, new, u)
    BY <1>2, <1>3, Zenon DEF Linked
  <2>2. table[u].links \cap SCIMIds \subseteq new[u].links
    BY <1>1, <2>1, Zenon DEF KeepsLinks
  <2> HIDE DEF new
  <2> QED
    BY <1>1, <2>2
<1>4. ASSUME Unlinks(r.batch) PROVE new[u].links # {}
  <2>1. PICK v \in Users, id \in SCIMIds : UnlinksOf(table, events, r, v, id)
    BY <1>2, <1>4, Zenon DEF Linked
  <2>2. v = u
    BY <1>1, <2>1, Zenon DEF UnlinksOf
  <2>3. \A x, y : Len(<<x>>) = 1 /\ Len(<<x, y>>) = 2 /\ 1 # 0
    OBVIOUS
  <2>4. CASE r.batch = <<SCIMIdentityUnlinkedEvent(u, id)>>
    <3>1. r.at # 0
      BY <1>2, <2>3, <2>4, Zenon
    <3>2. \A y : r.batch # <<SCIMIdentityUnlinkedEvent(u, id), y>>
      BY <2>3, <2>4
    <3> QED
      BY <1>1, <2>1, <2>2, <3>1, <3>2, Zenon DEF UnlinksOf
  <2>5. CASE r.batch = <<SCIMIdentityUnlinkedEvent(u, id), SCIMUserDeprovisionedEvent(u)>>
    <3>1. r.at = 2
      BY <1>2, <2>3, <2>5, Zenon
    <3>2. \A y : r.batch # <<y>>
      BY <2>3, <2>5
    <3> QED
      BY <1>1, <2>1, <2>2, <3>1, <3>2, Zenon DEF UnlinksOf
  <2> QED
    BY <2>1, <2>2, <2>4, <2>5, Zenon DEF UnlinksOf
<1> QED
  BY <1>1, <1>3, <1>4, Zenon

\* The step of a caller alone: of the others' transactions nothing changes.
LEMMA AdminOwn ==
  ASSUME AdminInv, NEW c \in Callers, Own(c), AdminOK(table, events, tx'[c])
  PROVE  AdminInv'
<1>1. table' = table /\ events' = events /\ \A d \in Callers : d # c => tx'[d] = tx[d]
  BY Zenon DEF Own, Others
<1>2. HasAdmin(table', events')
  BY <1>1, Zenon DEF AdminInv
<1>3. \A d \in Callers : AdminOK(table', events', tx'[d])
  BY <1>1, Zenon DEF AdminInv
<1> QED
  BY <1>2, <1>3, Zenon DEF AdminInv

\* A transaction that has written nothing sees the administrators of the store.
LEMMA FreshSees ==
  ASSUME NEW t, NEW log, NEW r, StoreOK(t, log), HasAdmin(t, log),
         r.writes = NoWrites, r.log = NoEvents, r.pc # "insert"
  PROVE  AdminOK(t, log, r)
<1>1. Over(t, NoWrites) = t
  BY OverNone, Zenon DEF StoreOK
<1>2. \A s \in Streams : NoEvents[s] = << >>
  BY Zenon DEF NoEvents
<1>3. \A s \in Streams : log[s] \o NoEvents[s] = log[s]
  BY <1>2, GrowsSelf, Zenon DEF StoreOK
<1>4. Extend(log, NoEvents) = log
  <2>1. log = [s \in Streams |-> log[s]]
    BY Zenon DEF StoreOK
  <2>2. Extend(log, NoEvents) = [s \in Streams |-> log[s]]
    BY <1>3, Zenon DEF Extend
  <2> QED
    BY <2>1, <2>2, Zenon
<1> QED
  BY <1>1, <1>4, Zenon DEF AdminOK, Sees

\* A handler, a retry or an end leaves a transaction that has written nothing.
LEMMA AdminFresh ==
  ASSUME IInv, AdminInv, NEW c \in Callers, Own(c), tx'[c].writes = NoWrites,
         tx'[c].log = NoEvents, tx'[c].pc # "insert"
  PROVE  AdminInv'
<1>1. StoreOK(table, events) /\ HasAdmin(table, events)
  BY Zenon DEF IInv, AdminInv
<1>2. AdminOK(table, events, tx'[c])
  BY <1>1, FreshSees, Zenon
<1> QED
  BY <1>2, AdminOwn, Zenon

\* A rolled-back transaction (rollbackTx).
LEMMA AdminFail ==
  ASSUME IInv, AdminInv, NEW c \in Callers, Fail(c)
  PROVE  AdminInv'
<1>1. Idle.writes = NoWrites /\ Idle.log = NoEvents /\ Idle.pc # "insert"
  BY DEF Idle
<1>2. Own(c) /\ tx'[c] = Idle
  BY FailStep, Zenon
<1> QED
  BY <1>1, <1>2, AdminFresh, Zenon

\* A transaction that moves without writing.
LEMMA AdminMoved ==
  ASSUME AdminInv, NEW c \in Callers, Own(c), Moved(tx[c], tx'[c]), Sees(table, events, tx[c]),
         tx'[c].pc = "insert" /\ Protected(Current(c)) => tx'[c].before > 0
  PROVE  AdminInv'
<1>1. tx'[c].writes = tx[c].writes /\ tx'[c].log = tx[c].log
  BY Zenon DEF Moved
<1>2. Sees(table, events, tx'[c])
  BY <1>1, Zenon DEF Sees
<1>3. tx'[c].batch[tx'[c].at + 1] = Current(c)
  BY Zenon DEF Moved, Current
<1>4. AdminOK(table, events, tx'[c])
  BY <1>2, <1>3, Zenon DEF AdminOK
<1> QED
  BY <1>4, AdminOwn, Zenon

\* ReadVersion, the lock and the count.  protectLastAdminMutation counts before
\* the mutation, and fails the transaction that leaves none.
LEMMA AdminReads ==
  ASSUME IInv, AdminInv, NEW c \in Callers, ReadVersion(c)
  PROVE  AdminInv'
<1>1. CASE Fail(c)
  BY <1>1, AdminFail, Zenon
<1>2. CASE ~Fail(c)
  <2>1. Own(c) /\ Moved(tx[c], tx'[c]) /\ tx'[c].pc = Enter(Current(c))
    BY <1>2, ReadMoves, Zenon
  <2>2. Sees(table, events, tx[c])
    BY Zenon DEF AdminInv, AdminOK, ReadVersion
  <2>3. ~(tx'[c].pc = "insert" /\ Protected(Current(c)))
    BY <2>1, Zenon DEF Enter
  <2> QED
    BY <2>1, <2>2, <2>3, AdminMoved, Zenon
<1> QED
  BY <1>1, <1>2, Zenon

\* The count under the lock finds an administrator.
LEMMA AdminLocks ==
  ASSUME IInv, AdminInv, AdminsCounted, NEW c \in Callers, AcquireLastAdminMutationLock(c)
  PROVE  AdminInv'
<1>1. /\ Own(c) /\ Moved(tx[c], tx'[c])
      /\ tx'[c].before = CountEnabledAdmins(View(c), LogView(c))
  BY AcquireMoves, Zenon
<1>2. Sees(table, events, tx[c])
  BY Zenon DEF AdminInv, AdminOK, AcquireLastAdminMutationLock
<1>3. HasAdmin(View(c), LogView(c))
  BY <1>2, Zenon DEF Sees, View, LogView
<1>4. tx'[c].before > 0
  BY <1>1, <1>3, Zenon DEF AdminsCounted
<1> QED
  BY <1>1, <1>2, <1>4, AdminMoved, Zenon

\* The count after the mutation finds one too, or the transaction fails.
LEMMA AdminCounts ==
  ASSUME IInv, AdminInv, AdminsCounted, NEW c \in Callers, CountAfter(c)
  PROVE  AdminInv'
<1>1. CASE Fail(c)
  BY <1>1, AdminFail, Zenon
<1>2. CASE ~Fail(c)
  <2>1. /\ Own(c) /\ Moved(tx[c], tx'[c]) /\ tx'[c] = After(tx[c])
        /\ CountEnabledAdmins(View(c), LogView(c)) # 0
    BY <1>2, CountMoves, Zenon
  <2>2. HasAdmin(View(c), LogView(c))
    BY <2>1, Zenon DEF AdminsCounted
  <2>3. Sees(table, events, tx[c])
    BY <2>2, Zenon DEF Sees, View, LogView
  <2>4. TxFields(tx[c])
    BY Zenon DEF IInv, TxOK, IsTx
  <2>5. After(tx[c]).pc = "insert" => Enter(Current(c)) = "insert"
    BY <2>4, AfterFields, Zenon DEF Current
  <2>6. ~(tx'[c].pc = "insert" /\ Protected(Current(c)))
    BY <2>1, <2>5, Zenon DEF Enter
  <2> QED
    BY <2>1, <2>3, <2>6, AdminMoved, Zenon
<1> QED
  BY <1>1, <1>2, Zenon

\* An event that reduces administrators is counted after; another one is mild.
LEMMA AdminInserts ==
  ASSUME LinksCounted, IInv, AdminInv, NEW c \in Callers, InsertEvent(c)
  PROVE  AdminInv'
<1>1. CASE Fail(c)
  BY <1>1, AdminFail, Zenon
<1>2. CASE ~Fail(c)
  <2> DEFINE r == tx[c]
             q == tx'[c]
             e == NewEvent(c)
             s == e.stream
  <2>1. InsertDone(c)
    BY <1>2, InsertMoves, Zenon
  <2>2. /\ Own(c) /\ Inserted(table, r, q, NewTable(c), e) /\ Over(table, q.writes) = NewTable(c)
        /\ (Protected(e) /\ r.before > 0 => q.pc = "count")
        /\ (q.pc = "insert" => ~Protected(q.batch[q.at + 1]))
    BY <2>1, Zenon DEF InsertDone
  <2>3. r.pc = "insert" /\ Accepts(View(c), e)
    BY <1>2, InsertReads, Zenon
  <2>4. Numbers(e, Current(c), r.version + 1) /\ s \in Streams /\ Projected(View(c), NewTable(c), e)
    BY <2>3, InsertProjects, Zenon
  <2>5. AdminOK(table, events, r) /\ TxOK(table, events, r, lock = c) /\ StoreOK(table, events)
    BY Zenon DEF AdminInv, IInv
  <2>6. Protected(e) => q.pc = "count"
    BY <2>2, <2>3, <2>4, <2>5, Zenon DEF AdminOK, Numbers, Protected, Current
  <2>7. ASSUME ~Protected(e) PROVE Sees(table, events, q)
    <3>1. Mild(View(c), NewTable(c)) /\ e.type # "RoleRevoked"
      BY <2>4, <2>7, Zenon DEF Projected, Protected, lastAdminReductionEventTypes
    <3>2. HasAdmin(View(c), Extend(events, r.log)) /\ IsTable(View(c))
      BY <2>3, <2>5, Zenon DEF AdminOK, Sees, TxOK, Seen, View
    <3>3. \A k \in Streams : IsLog(events[k]) /\ IsLog(r.log[k])
      BY <2>5, Zenon DEF StoreOK, TxOK, IsTx
    <3>4. /\ q.log[s] = Append(r.log[s], e)
          /\ \A k \in Streams : k # s => q.log[k] = r.log[k]
      <4>1. q.log = [r.log EXCEPT ![s] = Append(r.log[s], e)]
        BY <2>2, Zenon DEF Inserted
      <4>2. r.log = [k \in Streams |-> r.log[k]]
        BY <2>5, Zenon DEF TxOK, IsTx
      <4> QED
        BY <2>4, <4>1, <4>2, Zenon
    <3>5. \A w : \A k \in Streams : Extend(events, w)[k] = events[k] \o w[k]
      BY Zenon DEF Extend
    <3> HIDE DEF r, q, e, s
    <3>6. ASSUME NEW u \in Users
          PROVE  Grows(Extend(events, r.log)[u], Extend(events, q.log)[u])
      <4>1. u \in Streams
        BY KeyTypes, Zenon
      <4>2. Grows(events[u] \o r.log[u], events[u] \o q.log[u])
        <5>1. CASE u = s
          BY <3>1, <3>3, <3>4, <4>1, <5>1, GrowsOne, Zenon
        <5>2. CASE u # s
          <6>1. IsLog(events[u] \o r.log[u])
            BY <3>3, <4>1, LogConcat, Zenon
          <6> QED
            BY <3>4, <4>1, <5>2, <6>1, GrowsSelf, Zenon
        <5> QED
          BY <5>1, <5>2, Zenon
      <4> QED
        BY <3>5, <4>1, <4>2, Zenon
    <3>7. HasAdmin(NewTable(c), Extend(events, q.log))
      BY <3>1, <3>2, <3>6, AdminKept, Zenon
    <3> QED
      BY <2>2, <3>7, Zenon DEF Sees
  <2>8. AdminOK(table, events, q)
    BY <2>2, <2>6, <2>7, Zenon DEF AdminOK
  <2> QED
    BY <2>2, <2>8, AdminOwn, Zenon
<1> QED
  BY <1>1, <1>2, Zenon

\* Commit, with what it leaves to the open transactions.
LEMMA AdminCommits ==
  ASSUME IInv, AdminInv, NEW c \in Callers, Commit(c)
  PROVE  AdminInv'
<1>1. CASE Fail(c)
  BY <1>1, AdminFail, Zenon
<1>2. CASE ~Fail(c)
  <2> DEFINE q == tx[c]
             t == Over(table, q.writes)
             log == Extend(events, q.log)
  <2>1. q.pc = "commit" /\ Others(c) /\ tx'[c] = Idle /\ table' = t /\ events' = log
    BY <1>2, CommitReads, Zenon
  <2>2. Sees(table, events, q) /\ HasAdmin(t, log)
    BY <2>1, Zenon DEF AdminInv, AdminOK, Sees
  <2>3. \A s \in Streams : IsLog(events[s])
    BY Zenon DEF IInv, StoreOK
  <2>4. StoreOK(t, log)
    <3>1. IInv'
      BY CommitStep, Zenon
    <3> QED
      BY <2>1, <3>1, Zenon DEF IInv
  <2> HIDE DEF t, log
  <2>5. ASSUME NEW d \in Callers
        PROVE  AdminOK(t, log, tx'[d])
    <3>1. CASE d = c
      <4>1. Idle.writes = NoWrites /\ Idle.log = NoEvents /\ Idle.pc # "insert"
        BY DEF Idle
      <4> QED
        BY <2>1, <2>2, <2>4, <3>1, <4>1, FreshSees, Zenon
    <3>2. CASE d # c
      <4> DEFINE r == tx[d]
      <4>1. tx'[d] = r
        BY <2>1, <3>2, Zenon DEF Others
      <4>2. /\ TxOK(table, events, r, lock = d) /\ TxOK(table, events, q, lock = c)
            /\ Apart(q, r) /\ AdminOK(table, events, r)
        BY <3>2, Zenon DEF IInv, AdminInv
      <4>3. ~((lock = d) /\ (lock = c))
        BY <3>2, Zenon
      <4> HIDE DEF q, r
      <4>4. Sees(table, events, r) => Sees(t, log, r)
        BY <2>2, <2>3, <4>2, <4>3, CommitSees, Zenon DEF t, log
      <4> QED
        BY <4>1, <4>2, <4>4, Zenon DEF AdminOK
    <3> QED
      BY <3>1, <3>2, Zenon
  <2> QED
    BY <2>1, <2>2, <2>5, Zenon DEF AdminInv
<1> QED
  BY <1>1, <1>2, Zenon

\* Every step keeps an administrator, in the store and in what each transaction sees.
LEMMA AdminNext ==
  ASSUME LinksCounted, AdminsCounted, IInv, AdminInv, [Next]_vars
  PROVE  AdminInv'
<1>1. ASSUME NEW c \in Callers, Handler(c) PROVE AdminInv'
  <2>1. Own(c) /\ Request(events, tx'[c])
    BY <1>1, HandlerStep, Zenon
  <2>2. tx'[c].writes = NoWrites /\ tx'[c].log = NoEvents /\ tx'[c].pc # "insert"
    BY <2>1, Zenon DEF Request
  <2> QED
    BY <1>1, <2>1, <2>2, AdminFresh, Zenon
<1>2. ASSUME NEW c \in Callers, UserIdentityLinkCount(c) PROVE AdminInv'
  <2>1. /\ Own(c) /\ tx'[c].pc \in {"idle", "read"}
        /\ tx'[c].writes = NoWrites /\ tx'[c].log = NoEvents
    BY <1>2, LinkCountStep, Zenon
  <2>2. tx'[c].pc # "insert"
    BY <2>1, Zenon
  <2> QED
    BY <1>2, <2>1, <2>2, AdminFresh, Zenon
<1>3. ASSUME NEW c \in Callers, VersionTaken(c) PROVE AdminInv'
  <2>1. Own(c) /\ (Fail(c) \/ tx'[c] = Append0(tx[c].batch))
    BY <1>3, VersionStep, Zenon
  <2>2. \A b : Append0(b).writes = NoWrites /\ Append0(b).log = NoEvents /\ Append0(b).pc # "insert"
    BY DEF Append0, Idle
  <2> QED
    BY <1>3, <2>1, <2>2, AdminFresh, AdminFail, Zenon
<1>4. ASSUME NEW c \in Callers, DeadlockVictim(c) PROVE AdminInv'
  BY <1>4, AdminFail, Zenon DEF DeadlockVictim
<1>5. ASSUME NEW c \in Callers, Step(c) PROVE AdminInv'
  BY <1>2, <1>3, <1>4, <1>5, AdminReads, AdminLocks, AdminInserts, AdminCounts, AdminCommits, Zenon
     DEF Step
<1>6. ASSUME Next PROVE AdminInv'
  BY <1>1, <1>5, <1>6, Zenon DEF Next
<1>7. ASSUME UNCHANGED vars PROVE AdminInv'
  <2>1. table' = table /\ events' = events /\ tx' = tx
    BY <1>7 DEF vars
  <2> QED
    BY <2>1, Zenon DEF AdminInv
<1> QED
  BY <1>6, <1>7, Zenon

\* The set-up with an administrator.
LEMMA AdminInit ==
  ASSUME Init, HasAdmin(table, events)
  PROVE  AdminInv
<1>1. StoreOK(table, events) /\ \A c \in Callers : tx[c] = Idle
  BY InitOK, Zenon DEF IInv, Init
<1>2. Idle.writes = NoWrites /\ Idle.log = NoEvents /\ Idle.pc # "insert"
  BY DEF Idle
<1>3. AdminOK(table, events, Idle)
  BY <1>1, <1>2, FreshSees, Zenon
<1> QED
  BY <1>1, <1>3, Zenon DEF AdminInv

-----------------------------------------------------------------------------
(* The theorems *)

INSTANCE FiniteSetTheorems

\* What a count of two says (CountUserIdentityLinks).
LEMMA LinkLeft == LinksCounted
<1>1. ASSUME NEW S, NEW x, Cardinality(S) > 1, S \ {x} = {} PROVE FALSE
  <2>1. S = {} \/ S = {x}
    BY <1>1
  <2>2. Cardinality({}) = 0 /\ Cardinality({x}) = 1
    BY FS_EmptySet, FS_Singleton, Zenon
  <2> QED
    BY <1>1, <2>1, <2>2
<1> QED
  BY <1>1, Zenon DEF LinksCounted

\* What a count above zero says (CountEnabledAdmins).
LEMMA AdminCount == AdminsCounted
<1>1. ASSUME NEW t, NEW log
      PROVE  /\ CountEnabledAdmins(t, log) # 0 <=> HasAdmin(t, log)
             /\ CountEnabledAdmins(t, log) > 0 <=> HasAdmin(t, log)
  <2> DEFINE S == {u \in Users : EnabledAdmin(t, log, u)}
  <2>1. IsFiniteSet(S)
    BY DirectoryAssumption, FS_Subset, Zenon
  <2>2. CountEnabledAdmins(t, log) = Cardinality(S) /\ (S # {} <=> HasAdmin(t, log))
    BY Zenon DEF CountEnabledAdmins, HasAdmin
  <2> HIDE DEF S
  <2>3. Cardinality(S) \in Nat
    BY <2>1, FS_CardinalityType, Zenon
  <2>4. Cardinality(S) = 0 <=> S = {}
    BY <2>1, FS_EmptySet, Zenon
  <2>5. Cardinality(S) > 0 <=> Cardinality(S) # 0
    BY <2>3
  <2> QED
    BY <2>2, <2>4, <2>5, Zenon
<1> QED
  BY <1>1, Zenon DEF AdminsCounted

\* Inductive invariance: the open transactions of the store stay apart, mild
\* without the lock, and true to the links they saw (appendPrepared, InsertEvent,
\* protectLastAdminMutation).
THEOREM TransactionsInv == Spec => []IInv
<1>1. Init => IInv
  BY InitOK, Zenon
<1>2. IInv /\ [Next]_vars => IInv'
  BY NextOK, LinkLeft, Zenon
<1> QED
  BY <1>1, <1>2, PTL DEF Spec

\* A SCIM membership names a user that exists (projectSCIMGroupMembershipsReplaced
\* and the deletes and deprovisions that race it).
THEOREM SCIMMembersLiveInv == Spec => []SCIMMembersLive
<1>1. IInv => SCIMMembersLive
  BY Zenon DEF IInv, StoreOK, SCIMMembersLive
<1> QED
  BY <1>1, TransactionsInv, PTL

\* The last link: a user that loses a SCIM identity keeps a link, or is removed
\* in the same commit (deleteSCIMUser, AppendEventsWithVersion).
THEOREM LastLinkDeprovisioned == Spec => LastLinkDeprovisions
<1>1. ASSUME IInv, [Next]_vars
      PROVE  [\A u \in Users :
                Live(table, u) /\ Live(table', u)
                  /\ table[u].links \cap SCIMIds # table'[u].links \cap SCIMIds
                  => table'[u].links # {}]_vars
  <2> SUFFICES ASSUME NEW u \in Users, Live(table, u), Live(table', u),
                      table[u].links \cap SCIMIds # table'[u].links \cap SCIMIds
               PROVE  table'[u].links # {}
    BY Zenon
  <2>1. table' # table
    BY Zenon
  <2>2. PICK c \in Callers : Commit(c) /\ ~Fail(c)
    BY <1>1, <2>1, Committed, Zenon
  <2> QED
    BY <1>1, <2>2, CommitKeepsLink, Zenon
<1> QED
  BY <1>1, TransactionsInv, PTL DEF Spec, LastLinkDeprovisions

\* The last administrator: a store that starts with one never loses the last,
\* whatever transactions race (protectLastAdminMutation,
\* AcquireLastAdminMutationLock).  Without one at the start the promise fails: a
\* reduction that counted none does not count again, and may commit after the
\* grant that made the first administrator.
THEOREM LastAdminStays == Spec /\ EnabledAdmins > 0 => LastAdminKept
<1>1. EnabledAdmins > 0 <=> HasAdmin(table, events)
  BY AdminCount, Zenon DEF EnabledAdmins, AdminsCounted
<1>2. Init /\ EnabledAdmins > 0 => AdminInv
  BY <1>1, AdminInit, Zenon
<1>3. IInv /\ AdminInv /\ [Next]_vars => AdminInv'
  BY LinkLeft, AdminCount, AdminNext, Zenon
<1>4. AdminInv' => EnabledAdmins' > 0
  BY AdminCount, Zenon DEF EnabledAdmins, AdminsCounted, AdminInv
<1>5. AdminInv' => [EnabledAdmins > 0 => EnabledAdmins' > 0]_vars
  BY <1>4, Zenon
<1> QED
  BY <1>2, <1>3, <1>5, TransactionsInv, PTL DEF Spec, LastAdminKept
=============================================================================
