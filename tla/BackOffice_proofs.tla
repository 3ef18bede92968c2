---------------------------- MODULE BackOffice_proofs ----------------------------
(***************************************************************************)
(* RolesInEffect, for any number of users, roles, loads, changes and restarts:   *)
(* what is cached, or being loaded, agrees with the rows unless they changed       *)
(* since, and then somebody is about to tell the cache or a mishap is on record.    *)
(*                                                                         *)
(* MonitorsAgree, for any number of checks, domains and workers and any         *)
(* thresholds and cooldowns.                                                  *)
(***************************************************************************)
EXTENDS RolePermissions, Monitors, TLAPS

(* A role that is assigned exists: the rows of a deleted one go with it.          *)
Assigned == \A u \in Accounts : people[u].role # NoRole => roles[people[u].role].is = "live"

Deleting == \A a \in Admins : admins[a].next = "delete" => admins[a].whose \in Roles

(* An entry dates from before its rows were read, and until something of it is     *)
(* changed it is what they say.                                                *)
EntryInv(u) ==
    cache[u].is = "some" =>
        /\ cache[u].at <= time
        /\ cache[u].changed = NeverChanged => cache[u].rights = RightsOf(u)
        /\ cache[u].changed # NeverChanged => cache[u].at <= cache[u].changed
        /\ cache[u].mishaps = {} /\ cache[u].rights # RightsOf(u) => Told(u)

(* What a load has read by now.                                                 *)
ReadSoFar(l) ==
    LET got == loading[l].got.rights
        row == RightsOf(loading[l].who)
    IN /\ got.active = row.active /\ got.super = row.super
       /\ loading[l].next = "role"   => ~got.super /\ got.role = NoRole /\ got.grants = {}
       /\ loading[l].next = "grants" => ~got.super /\ got.role = row.role /\ got.grants = {}
       /\ loading[l].next = "store"  => got = row

LoadInv(l) ==
    Reading(l) =>
        LET e == loading[l].got IN
        /\ e.is = "some" /\ e.at <= time
        /\ e.mishaps = {} => e.changed = NeverChanged
        /\ e.changed = NeverChanged => ReadSoFar(l)
        /\ e.changed # NeverChanged => e.at <= e.changed

RolesInv ==
    /\ RolesTypeOK /\ Assigned /\ Deleting
    /\ \A u \in Accounts : EntryInv(u)
    /\ \A l \in Loaders : LoadInv(l)

-------------------------------------------------------------------------------
(* Types *)

LEMMA MomentTypes == /\ MaxAgeOfRun \in Nat /\ NeverChanged \in Nat
                     /\ \A t \in Moments : t \in Nat /\ t # NeverChanged
  BY CacheAssumption DEF Moments, NeverChanged

LEMMA EntryTypes ==
  ASSUME NEW e \in CachedPermissions
  PROVE  /\ e.at \in Nat /\ e.changed \in Nat /\ e.mishaps \subseteq Mishaps /\ e.rights \in Rights
         /\ e.is \in {"none", "some"}
         /\ e.rights.active \in BOOLEAN /\ e.rights.super \in BOOLEAN
         /\ [e EXCEPT !.at = CachedAt(e)] = e
  BY MomentTypes DEF CachedPermissions, Rights, CachedAt

LEMMA RightsAre ==
  \A z \in Rights : z = [active |-> z.active, super |-> z.super, role |-> z.role, grants |-> z.grants]
  BY DEF Rights

LEMMA PassedOverKeeps ==
  ASSUME time \in Moments, NEW e \in CachedPermissions, NEW m \in SUBSET Mishaps
  PROVE  LET f == PassedOver(e, m) IN
         /\ f \in CachedPermissions
         /\ f.is = e.is /\ f.rights = e.rights /\ f.at = e.at /\ f.mishaps = e.mishaps \cup m
         /\ f.changed = (IF e.changed = NeverChanged THEN time ELSE e.changed)
         /\ f.changed # NeverChanged
  BY MomentTypes DEF PassedOver, CachedPermissions

LEMMA RoleTypes ==
  ASSUME RolesTypeOK
  PROVE  /\ time \in Moments /\ time \in Nat /\ changes \in 0..MaxChanges
         /\ people \in [Accounts -> Person] /\ roles \in [Roles -> Role]
         /\ \A u \in Accounts : /\ people[u] \in Person /\ people[u].role \in Roles \cup {NoRole}
                                /\ people[u].active \in BOOLEAN /\ people[u].super \in BOOLEAN
                                /\ cache[u] \in CachedPermissions
         /\ \A l \in Loaders : /\ loading[l] \in Loading /\ loading[l].who \in Accounts
                               /\ loading[l].got \in CachedPermissions
         /\ \A a \in Admins : admins[a] \in Admin
         /\ NotCached \in CachedPermissions /\ NotCached.is = "none" /\ Idle \in Admin
  BY MomentTypes, CacheAssumption
     DEF RolesTypeOK, Person, Loading, NotCached, NoRights, Rights, CachedPermissions, Moments, Idle, Admin, NeverChanged

-------------------------------------------------------------------------------
(* What stays *)

LEMMA RowsStay ==
  ASSUME UNCHANGED <<people, roles>>, Assigned
  PROVE  Assigned' /\ \A u : RightsOf(u)' = RightsOf(u)
  BY DEF Assigned, RightsOf, InForce

LEMMA EntryStays ==
  ASSUME RolesInv, NEW u \in Accounts, cache'[u] = cache[u], RightsOf(u)' = RightsOf(u),
         time' \in Nat, time <= time', admins' = admins
  PROVE  EntryInv(u)'
  <1>1. cache[u].at \in Nat /\ time \in Nat
    BY RoleTypes, EntryTypes DEF RolesInv
  <1>2. Told(u) => Told(u)'
    BY DEF Told, Covers, Listed
  <1> QED
    BY <1>1, <1>2 DEF RolesInv, EntryInv

LEMMA LoadStays ==
  ASSUME RolesInv, NEW l \in Loaders, loading'[l] = loading[l],
         \A u \in Accounts : RightsOf(u)' = RightsOf(u), time' \in Nat, time <= time'
  PROVE  LoadInv(l)'
  <1>1. /\ loading[l].got.at \in Nat /\ time \in Nat /\ loading[l].who \in Accounts
        /\ loading'[l].who = loading[l].who
    BY RoleTypes, EntryTypes DEF RolesInv
  <1>2. ReadSoFar(l) => ReadSoFar(l)'
    BY <1>1 DEF ReadSoFar
  <1> QED
    BY <1>1, <1>2 DEF RolesInv, LoadInv, Reading

LEMMA AllStay ==
  ASSUME RolesInv, \A u \in Accounts : RightsOf(u)' = RightsOf(u), UNCHANGED <<cache, loading, admins>>,
         time' \in Nat, time <= time'
  PROVE  /\ \A u \in Accounts : EntryInv(u)'
         /\ \A l \in Loaders : LoadInv(l)'
  BY EntryStays, LoadStays

(* Types and Deleting, when rows are changed. *)
LEMMA CommitTypes ==
  ASSUME RolesInv, NEW a \in Admins, NEW whose \in {NoRole} \cup Accounts \cup Roles, Commits(a, whose),
         people' \in [Accounts -> Person], roles' \in [Roles -> Role]
  PROVE  RolesTypeOK' /\ Deleting'
  <1> DEFINE Hit(u) == RightsOf(u)' # RightsOf(u)
  <1>1. RolesTypeOK /\ Deleting
    BY DEF RolesInv
  <1>2. time' = time /\ changes' \in 0..MaxChanges
    BY <1>1, CacheAssumption DEF Commits, Remember, RolesTypeOK
  <1>3. admins' \in [Admins -> Admin] /\ Deleting'
    BY <1>1 DEF Commits, RolesTypeOK, Admin, Deleting
  <1>4. loading' \in [Loaders -> Loading]
    <2>1. ASSUME NEW l \in Loaders PROVE PassedOver(loading[l].got, {"straddled"}) \in CachedPermissions
      BY <1>1, RoleTypes, PassedOverKeeps DEF Mishaps
    <2>2. ASSUME NEW l \in Loaders
          PROVE  [loading[l] EXCEPT !.got = PassedOver(@, {"straddled"})] \in Loading
      BY <1>1, <2>1, RoleTypes DEF Loading
    <2> QED
      BY <1>1, <2>2, RoleTypes DEF Commits, Remember
  <1>5. cache' \in [Accounts -> CachedPermissions]
    <2>1. ASSUME NEW u \in Accounts
          PROVE  /\ PassedOver(cache[u], {"dormant"}) \in CachedPermissions
                 /\ PassedOver(cache[u], {}) \in CachedPermissions
      BY <1>1, RoleTypes, PassedOverKeeps DEF Mishaps
    <2> QED
      BY <1>1, <2>1, RoleTypes DEF Commits, Remember
  <1> QED
    BY <1>1, <1>2, <1>3, <1>4, <1>5 DEF RolesTypeOK

(* A change of rows: whoever's cached rights are no longer what they were has a role *)
(* that was switched on, or an entry that will be dropped.                          *)
LEMMA RowsChange ==
  ASSUME RolesInv, NEW a \in Admins, NEW whose \in {NoRole} \cup Accounts \cup Roles, Commits(a, whose),
         admins[a].next # "invalidate",
         \A u \in Accounts :
            cache[u].is = "some" /\ cache[u].rights = RightsOf(u) /\ RightsOf(u)' # RightsOf(u) =>
               (people[u] = people'[u] /\ SwitchedOn(people[u].role)) \/ Covers(whose, u)
  PROVE  /\ \A u \in Accounts : EntryInv(u)'
         /\ \A l \in Loaders : LoadInv(l)'
  <1> DEFINE Hit(u) == RightsOf(u)' # RightsOf(u)
             Dormant(u) == people[u] = people'[u] /\ SwitchedOn(people[u].role)
  <1>1. RolesTypeOK /\ time \in Moments /\ time \in Nat /\ time' = time
    BY RoleTypes DEF RolesInv, Commits, Remember
  <1>2. /\ admins'[a] = [next |-> "invalidate", whose |-> whose]
        /\ \A b \in Admins \ {a} : admins'[b] = admins[b]
    BY <1>1 DEF Commits, RolesTypeOK
  <1>3. ASSUME NEW u \in Accounts PROVE EntryInv(u)'
    <2>1. EntryInv(u) /\ cache[u] \in CachedPermissions
      BY <1>1, RoleTypes DEF RolesInv
    <2>2. cache'[u] = IF Hit(u) /\ cache[u].is = "some"
                        THEN PassedOver(cache[u], IF Dormant(u) THEN {"dormant"} ELSE {}) ELSE cache[u]
      BY DEF Commits, Remember
    <2>3. cache'[u].is = cache[u].is /\ cache'[u].rights = cache[u].rights
      BY <1>1, <2>1, <2>2, PassedOverKeeps DEF Mishaps
    <2>4. Told(u) => Told(u)'
      BY <1>2, <2>3 DEF Told, Covers, Listed
    <2>5. Covers(whose, u) => Told(u)'
      BY <1>2, <2>3 DEF Told, Covers, Listed
    <2>6. CASE Hit(u) /\ cache[u].is = "some"
      <3> DEFINE m == IF Dormant(u) THEN {"dormant"} ELSE {}
      <3>1. /\ cache'[u].at = cache[u].at /\ cache'[u].mishaps = cache[u].mishaps \cup m
            /\ cache'[u].changed = (IF cache[u].changed = NeverChanged THEN time ELSE cache[u].changed)
            /\ cache'[u].changed # NeverChanged
        BY <1>1, <2>1, <2>2, <2>6, PassedOverKeeps DEF Mishaps
      <3>2. cache'[u].at <= time' /\ cache'[u].at <= cache'[u].changed
        BY <1>1, <2>1, <2>6, <3>1, EntryTypes DEF EntryInv
      <3>3. ASSUME cache'[u].mishaps = {} PROVE Told(u)'
        <4>1. cache[u].mishaps = {} /\ ~Dormant(u)
          BY <3>1, <3>3
        <4>2. CASE cache[u].rights = RightsOf(u)
          BY <2>5, <2>6, <4>1, <4>2
        <4>3. CASE cache[u].rights # RightsOf(u)
          BY <2>1, <2>4, <2>6, <4>1, <4>3 DEF EntryInv
        <4> QED
          BY <4>2, <4>3
      <3> QED
        BY <3>1, <3>2, <3>3 DEF EntryInv, NeverChanged
    <2>7. CASE ~(Hit(u) /\ cache[u].is = "some")
      <3>1. cache'[u] = cache[u]
        BY <2>2, <2>7
      <3>2. CASE cache[u].is = "some"
        <4>1. RightsOf(u)' = RightsOf(u)
          BY <2>7, <3>2
        <4> QED
          BY <1>1, <2>1, <2>4, <3>1, <3>2, <4>1 DEF EntryInv, NeverChanged
      <3>3. CASE cache[u].is # "some"
        BY <3>1, <3>3 DEF EntryInv
      <3> QED
        BY <3>2, <3>3
    <2> QED
      BY <2>6, <2>7
  <1>4. ASSUME NEW l \in Loaders PROVE LoadInv(l)'
    <2>1. LoadInv(l) /\ loading[l] \in Loading /\ loading[l].who \in Accounts /\ loading[l].got \in CachedPermissions
      BY <1>1, RoleTypes DEF RolesInv
    <2>2. loading'[l] = IF Hit(loading[l].who) /\ Reading(l)
                          THEN [loading[l] EXCEPT !.got = PassedOver(@, {"straddled"})] ELSE loading[l]
      BY <2>1 DEF Commits, Remember
    <2>3. loading'[l].next = loading[l].next /\ loading'[l].who = loading[l].who
      BY <2>1, <2>2 DEF Loading
    <2>4. CASE Hit(loading[l].who) /\ Reading(l)
      <3>1. /\ loading'[l].got = PassedOver(loading[l].got, {"straddled"})
        BY <2>1, <2>2, <2>4 DEF Loading
      <3>2. LET e == loading[l].got  f == loading'[l].got IN
            /\ f.is = e.is /\ f.at = e.at /\ f.mishaps # {}
            /\ f.changed = (IF e.changed = NeverChanged THEN time ELSE e.changed)
            /\ f.changed # NeverChanged
        BY <1>1, <2>1, <3>1, PassedOverKeeps DEF Mishaps
      <3> QED
        BY <1>1, <2>1, <2>4, <3>2, EntryTypes DEF LoadInv, NeverChanged
    <2>5. CASE ~(Hit(loading[l].who) /\ Reading(l))
      <3>1. loading'[l] = loading[l]
        BY <2>2, <2>5
      <3>2. CASE Reading(l)
        <4>1. RightsOf(loading[l].who)' = RightsOf(loading[l].who)
          BY <2>3, <2>5, <3>2
        <4>2. ReadSoFar(l) => ReadSoFar(l)'
          BY <3>1, <4>1 DEF ReadSoFar
        <4> QED
          BY <1>1, <2>1, <3>1, <3>2, <4>2 DEF LoadInv, NeverChanged
      <3>3. CASE ~Reading(l)
        BY <3>1, <3>3 DEF LoadInv, Reading
      <3> QED
        BY <3>2, <3>3
    <2> QED
      BY <2>4, <2>5
  <1> QED
    BY <1>3, <1>4
-------------------------------------------------------------------------------
(* The changes of rows *)

LEMMA PersonSet ==
  ASSUME RolesInv, NEW a \in Admins, NEW u \in Accounts, NEW p \in Person, SetPerson(a, u, p),
         p.role # NoRole => roles[p.role].is = "live"
  PROVE  RolesInv'
  <1>1. /\ RolesTypeOK /\ Assigned /\ admins[a].next = "none" /\ Commits(a, u) /\ roles' = roles
        /\ people' = [people EXCEPT ![u] = p] /\ people' \in [Accounts -> Person]
    BY RoleTypes DEF RolesInv, SetPerson
  <1>2. ASSUME NEW v \in Accounts, v # u PROVE RightsOf(v)' = RightsOf(v)
    BY <1>1, <1>2, RoleTypes DEF RightsOf, InForce
  <1>3. roles' \in [Roles -> Role] /\ Assigned'
    BY <1>1, RoleTypes DEF Assigned
  <1>4. \A v \in Accounts : RightsOf(v)' # RightsOf(v) => Covers(u, v)
    BY <1>2 DEF Covers
  <1>5. (\A v \in Accounts : EntryInv(v)') /\ (\A l \in Loaders : LoadInv(l)')
    BY <1>1, <1>4, RowsChange
  <1> QED
    BY <1>1, <1>3, <1>5, CommitTypes DEF RolesInv

LEMMA UsersChange ==
  ASSUME RolesInv, NEW a \in Admins, NEW u \in Accounts,
         \/ SetUserActive(a, u) \/ SetUserSuperAdmin(a, u)
         \/ ReplaceUserModuleRoles(a, u) \/ ReplaceUserRoles(a, u)
  PROVE  RolesInv'
  <1>1. /\ people[u] \in Person /\ (people[u].role # NoRole => roles[people[u].role].is = "live")
        /\ people[u].active \in BOOLEAN /\ people[u].super \in BOOLEAN
    BY RoleTypes DEF RolesInv, Assigned
  <1>2. CASE SetUserActive(a, u)
    <2>1. LET p == [people[u] EXCEPT !.active = ~@] IN p \in Person /\ p.role = people[u].role
      BY <1>1 DEF Person
    <2> QED
      BY <1>1, <1>2, <2>1, PersonSet DEF SetUserActive
  <1>3. CASE SetUserSuperAdmin(a, u)
    <2>1. LET p == [people[u] EXCEPT !.super = ~@] IN p \in Person /\ p.role = people[u].role
      BY <1>1 DEF Person
    <2> QED
      BY <1>1, <1>3, <2>1, PersonSet DEF SetUserSuperAdmin
  <1>4. CASE ReplaceUserModuleRoles(a, u)
    <2>1. PICK r \in Roles \cup {NoRole} :
             (r # NoRole => InForce(r)) /\ SetPerson(a, u, [people[u] EXCEPT !.role = r])
      BY <1>4 DEF ReplaceUserModuleRoles
    <2>2. LET p == [people[u] EXCEPT !.role = r] IN p \in Person /\ p.role = r
      BY <1>1 DEF Person
    <2> QED
      BY <2>1, <2>2, PersonSet DEF InForce
  <1>5. CASE ReplaceUserRoles(a, u)
    <2>1. PICK r \in Roles \cup {NoRole}, super \in BOOLEAN :
             (r # NoRole => roles[r].is = "live") /\ SetPerson(a, u, [people[u] EXCEPT !.role = r, !.super = super])
      BY <1>5 DEF ReplaceUserRoles
    <2>2. LET p == [people[u] EXCEPT !.role = r, !.super = super] IN p \in Person /\ p.role = r
      BY <1>1 DEF Person
    <2> QED
      BY <2>1, <2>2, PersonSet
  <1> QED
    BY <1>2, <1>3, <1>4, <1>5

(* A role is in the rights of whoever its permissions are changed for. *)
LEMMA RoleUpdated ==
  ASSUME RolesInv, NEW a \in Admins, NEW r \in Roles, UpdateRole(a, r)
  PROVE  RolesInv'
  <1>1. PICK g \in SUBSET Permits :
           /\ RolesTypeOK /\ Assigned /\ admins[a].next = "none" /\ Commits(a, r) /\ people' = people
           /\ roles' = [roles EXCEPT ![r].grants = g]
    BY DEF RolesInv, UpdateRole
  <1>2. /\ roles' \in [Roles -> Role]
        /\ \A q \in Roles : roles'[q].is = roles[q].is /\ roles'[q].active = roles[q].active
        /\ \A q \in Roles : q # r => roles'[q] = roles[q]
    BY <1>1, RoleTypes DEF Role
  <1>3. Assigned' /\ \A q \in Roles \cup {NoRole} : InForce(q)' = InForce(q)
    BY <1>1, <1>2, RoleTypes DEF Assigned, InForce
  <1>4. ASSUME NEW u \in Accounts, RightsOf(u)' # RightsOf(u)
        PROVE  RightsOf(u).role = r
    BY <1>1, <1>2, <1>3, <1>4, RoleTypes DEF RightsOf
  <1>5. \A u \in Accounts : cache[u].is = "some" /\ cache[u].rights = RightsOf(u) /\ RightsOf(u)' # RightsOf(u)
           => Covers(r, u)
    BY <1>4 DEF Covers, Listed
  <1>6. (\A u \in Accounts : EntryInv(u)') /\ (\A l \in Loaders : LoadInv(l)')
    BY <1>1, <1>5, RowsChange
  <1> QED
    BY <1>1, <1>2, <1>3, <1>6, CommitTypes, RoleTypes DEF RolesInv

(* One that is switched off too; one that is switched on is not. *)
LEMMA RoleToggled ==
  ASSUME RolesInv, NEW a \in Admins, NEW r \in Roles, ToggleRole(a, r)
  PROVE  RolesInv'
  <1>1. /\ RolesTypeOK /\ Assigned /\ admins[a].next = "none" /\ Commits(a, r) /\ people' = people
        /\ roles' = [roles EXCEPT ![r].active = ~@] /\ roles[r].is = "live"
    BY DEF RolesInv, ToggleRole
  <1>2. /\ roles' \in [Roles -> Role]
        /\ \A q \in Roles : roles'[q].is = roles[q].is
        /\ roles'[r].active = ~roles[r].active
        /\ \A q \in Roles : q # r => roles'[q] = roles[q]
    BY <1>1, RoleTypes DEF Role
  <1>3. Assigned'
    BY <1>1, <1>2, RoleTypes DEF Assigned
  <1>4. ASSUME NEW u \in Accounts, RightsOf(u)' # RightsOf(u)
        PROVE  people[u].role = r /\ r # NoRole /\ ~people[u].super
    BY <1>1, <1>2, <1>4, RoleTypes DEF RightsOf, InForce
  <1>5. ASSUME NEW u \in Accounts, cache[u].is = "some", cache[u].rights = RightsOf(u), RightsOf(u)' # RightsOf(u)
        PROVE  (people[u] = people'[u] /\ SwitchedOn(people[u].role)) \/ Covers(r, u)
    <2>1. people[u].role = r /\ r # NoRole /\ ~people[u].super
      BY <1>4, <1>5
    <2>2. CASE roles[r].active
      <3>1. RightsOf(u).role = r
        BY <1>1, <2>1, <2>2 DEF RightsOf, InForce
      <3> QED
        BY <1>5, <3>1 DEF Covers, Listed
    <2>3. CASE ~roles[r].active
      BY <1>1, <1>2, <2>1, <2>3 DEF SwitchedOn, InForce
    <2> QED
      BY <1>1, <2>2, <2>3, RoleTypes
  <1>6. (\A u \in Accounts : EntryInv(u)') /\ (\A l \in Loaders : LoadInv(l)')
    BY <1>1, <1>5, RowsChange
  <1> QED
    BY <1>1, <1>2, <1>3, <1>6, CommitTypes, RoleTypes DEF RolesInv

(* Who had a deleted role has none; if it was in force, it is in their cached rights. *)
LEMMA RoleDeleted ==
  ASSUME RolesInv, NEW a \in Admins, DeleteRole(a)
  PROVE  RolesInv'
  <1> DEFINE r == admins[a].whose
  <1>1. /\ RolesTypeOK /\ Assigned /\ admins[a].next = "delete" /\ Commits(a, r) /\ r \in Roles
        /\ roles' = [roles EXCEPT ![r].is = "gone"]
        /\ people' = [u \in Accounts |->
              IF people[u].role = r THEN [people[u] EXCEPT !.role = NoRole] ELSE people[u]]
    BY DEF RolesInv, DeleteRole, Deleting
  <1>2. roles' \in [Roles -> Role] /\ \A q \in Roles : q # r => roles'[q] = roles[q]
    BY <1>1, RoleTypes DEF Role
  <1>3. /\ people' \in [Accounts -> Person]
        /\ \A u \in Accounts : /\ people'[u].active = people[u].active /\ people'[u].super = people[u].super
                               /\ people'[u].role = (IF people[u].role = r THEN NoRole ELSE people[u].role)
    BY <1>1, RoleTypes DEF Person
  <1>4. Assigned'
    BY <1>1, <1>2, <1>3, RoleTypes DEF Assigned
  <1>5. ASSUME NEW u \in Accounts, RightsOf(u)' # RightsOf(u)
        PROVE  RightsOf(u).role = r
    <2>1. ASSUME people[u].role # r PROVE InForce(people[u].role)' = InForce(people[u].role)
      BY <1>1, <1>2, <1>3, <2>1, RoleTypes DEF InForce
    <2>2. people[u].role = r
      BY <1>1, <1>2, <1>3, <1>5, RoleTypes DEF RightsOf, InForce
    <2>3. ~InForce(people[u].role)'
      BY <1>3, <2>2 DEF InForce
    <2> QED
      BY <1>3, <1>5, <2>2, <2>3 DEF RightsOf, InForce
  <1>6. \A u \in Accounts : cache[u].is = "some" /\ cache[u].rights = RightsOf(u) /\ RightsOf(u)' # RightsOf(u)
           => Covers(r, u)
    BY <1>1, <1>5 DEF Covers, Listed
  <1>7. (\A u \in Accounts : EntryInv(u)') /\ (\A l \in Loaders : LoadInv(l)')
    BY <1>1, <1>6, RowsChange
  <1> QED
    BY <1>1, <1>2, <1>3, <1>4, <1>7, CommitTypes DEF RolesInv

(* Nobody has a role that did not exist. *)
LEMMA RoleCreated ==
  ASSUME RolesInv, CreateRole
  PROVE  RolesInv'
  <1>1. PICK r \in Roles, g \in SUBSET Permits :
           /\ roles[r].is = "unused" /\ roles' = [roles EXCEPT ![r] = [is |-> "live", active |-> TRUE, grants |-> g]]
    BY DEF CreateRole
  <1>2. /\ RolesTypeOK /\ Assigned /\ Deleting /\ time \in Nat /\ changes' \in 0..MaxChanges
        /\ UNCHANGED <<time, people, cache, loading, admins>>
    BY CacheAssumption, RoleTypes DEF RolesInv, CreateRole
  <1>3. roles' \in [Roles -> Role] /\ \A q \in Roles : q # r => roles'[q] = roles[q]
    BY <1>1, <1>2, RoleTypes DEF Role
  <1>4. \A u \in Accounts : people[u].role # NoRole => people[u].role \in Roles \ {r}
    BY <1>1, <1>2, RoleTypes DEF Assigned
  <1>5. \A u \in Accounts : RightsOf(u)' = RightsOf(u)
    BY <1>2, <1>3, <1>4 DEF RightsOf, InForce
  <1>6. Assigned' /\ RolesTypeOK' /\ Deleting'
    BY <1>2, <1>3, <1>4 DEF Assigned, RolesTypeOK, Deleting
  <1> QED
    BY <1>2, <1>5, <1>6, AllStay DEF RolesInv
-------------------------------------------------------------------------------
(* The cache and the requests *)

LEMMA LoadingChanges ==
  ASSUME RolesInv, NEW l \in Loaders, NEW x \in Loading, loading' = [loading EXCEPT ![l] = x],
         UNCHANGED <<time, people, roles, cache, admins, changes>>, LoadInv(l)'
  PROVE  RolesInv'
  <1>1. /\ RolesTypeOK /\ Assigned /\ Deleting /\ time \in Nat
        /\ \A k \in Loaders \ {l} : loading'[k] = loading[k]
    BY RoleTypes DEF RolesInv, RolesTypeOK
  <1>2. RolesTypeOK' /\ Deleting' /\ Assigned' /\ \A u \in Accounts : RightsOf(u)' = RightsOf(u)
    BY <1>1, RowsStay DEF RolesTypeOK, Deleting
  <1>3. \A u \in Accounts : EntryInv(u)'
    BY <1>1, <1>2, EntryStays
  <1>4. \A k \in Loaders \ {l} : LoadInv(k)'
    BY <1>1, <1>2, LoadStays
  <1> QED
    BY <1>2, <1>3, <1>4 DEF RolesInv

LEMMA LoadersRead ==
  ASSUME RolesInv, NEW l \in Loaders,
         \/ \E u \in Accounts : Load(l, u)
         \/ ReadFlags(l) \/ ReadModuleRoles(l) \/ ReadPermissions(l) \/ LoadFails(l)
  PROVE  RolesInv'
  <1> DEFINE w == loading[l].who
             row == RightsOf(w)
  <1>1. /\ RolesTypeOK /\ LoadInv(l) /\ loading[l] \in Loading /\ w \in Accounts /\ loading[l].got \in CachedPermissions
        /\ people[w] \in Person /\ people[w].active \in BOOLEAN /\ people[w].super \in BOOLEAN
        /\ time \in Moments /\ time \in Nat /\ time # NeverChanged /\ NotCached \in CachedPermissions
        /\ loading \in [Loaders -> Loading]
    BY RoleTypes, MomentTypes DEF RolesInv, RolesTypeOK
  <1>2. ASSUME NEW u \in Accounts, Load(l, u) PROVE RolesInv'
    <2> DEFINE x == [next |-> IF cache[u].is = "none" THEN "user" ELSE "expired", who |-> u, got |-> NotCached]
    <2>1. x \in Loading /\ loading' = [loading EXCEPT ![l] = x] /\ loading'[l] = x
      BY <1>1, <1>2 DEF Load, Loading
    <2>2. LoadInv(l)'
      BY <2>1 DEF LoadInv, Reading
    <2> QED
      BY <1>2, <2>1, <2>2, LoadingChanges DEF Load
  <1>3. CASE LoadFails(l)
    <2> DEFINE x == [[loading[l] EXCEPT !.next = "none"] EXCEPT !.got = NotCached]
    <2>1. x \in Loading /\ x.next = "none" /\ loading' = [loading EXCEPT ![l] = x] /\ loading'[l] = x
      BY <1>1, <1>3 DEF LoadFails, Loading
    <2>2. LoadInv(l)'
      BY <2>1 DEF LoadInv, Reading
    <2> QED
      BY <1>3, <2>1, <2>2, LoadingChanges DEF LoadFails
  <1>4. CASE ReadFlags(l)
    <2> DEFINE p == people[w]
               rights == [NoRights EXCEPT !.active = p.active, !.super = p.super]
               got == [is |-> "some", rights |-> rights, at |-> time, mishaps |-> {}, changed |-> NeverChanged]
               x == [loading[l] EXCEPT !.next = IF p.super THEN "store" ELSE "role", !.got = got]
    <2>1. NoRights \in Rights /\ NoRights.role = NoRole /\ NoRights.grants = {}
      BY DEF Rights, NoRights
    <2>2. /\ rights \in Rights /\ rights.active = p.active /\ rights.super = p.super
          /\ rights.role = NoRole /\ rights.grants = {}
      BY <1>1, <2>1 DEF Rights
    <2>3. got \in CachedPermissions
      BY <1>1, <2>2 DEF CachedPermissions
    <2>4. x \in Loading /\ x.next = (IF p.super THEN "store" ELSE "role") /\ x.who = w /\ x.got = got
      BY <1>1, <2>3 DEF Loading
    <2>5. loading' = [loading EXCEPT ![l] = x] /\ loading'[l] = x
      BY <1>1, <1>4 DEF ReadFlags, Loading
    <2>6. row' = row
      <3>1. UNCHANGED <<people, roles>> /\ Assigned /\ loading[l].next = "user"
        BY <1>1, <1>4 DEF ReadFlags, RolesInv
      <3>2. \A u : RightsOf(u)' = RightsOf(u)
        BY ONLY <3>1, RowsStay
      <3>3. loading'[l].who = w
        BY ONLY <2>4, <2>5
      <3> QED
        BY ONLY <3>1, <3>2, <3>3 DEF Reading
    <2>7. /\ row.active = p.active /\ row.super = p.super
          /\ p.super => row.role = NoRole /\ row.grants = {}
          /\ row = [active |-> row.active, super |-> row.super, role |-> row.role, grants |-> row.grants]
      BY DEF RightsOf
    <2>8. rights = [active |-> rights.active, super |-> rights.super, role |-> rights.role, grants |-> rights.grants]
      BY ONLY <2>2, RightsAre
    <2>9. ReadSoFar(l)'
      <3>1. ASSUME p.super PROVE rights = row
        BY ONLY <2>2, <2>7, <2>8, <3>1
      <3> QED
        BY <1>1, <2>2, <2>4, <2>5, <2>6, <2>7, <3>1 DEF ReadSoFar
    <2>10. LoadInv(l)'
      <3>0. got.is = "some" /\ got.at = time /\ got.mishaps = {} /\ got.changed = NeverChanged
        OBVIOUS
      <3> HIDE DEF got, x
      <3>1. /\ loading'[l].got.is = "some" /\ loading'[l].got.at = time
            /\ loading'[l].got.changed = NeverChanged
        BY ONLY <2>4, <2>5, <3>0
      <3>2. time' = time /\ time <= time
        BY <1>1, <1>4 DEF ReadFlags
      <3> QED
        BY ONLY <2>9, <3>1, <3>2 DEF LoadInv
    <2> QED
      BY <1>4, <2>4, <2>5, <2>10, LoadingChanges DEF ReadFlags
  <1>5. CASE ReadModuleRoles(l)
    <2> DEFINE q == IF InForce(people[w].role) THEN people[w].role ELSE NoRole
               got == [loading[l].got EXCEPT !.rights.role = q]
               x == [loading[l] EXCEPT !.next = "grants", !.got = got]
    <2>1. q \in Roles \cup {NoRole} /\ loading[l].got.rights \in Rights
      BY <1>1, EntryTypes DEF Person
    <2>2. [loading[l].got.rights EXCEPT !.role = q] \in Rights
      BY <2>1 DEF Rights
    <2>3. /\ got \in CachedPermissions /\ got.is = loading[l].got.is /\ got.at = loading[l].got.at
          /\ got.mishaps = loading[l].got.mishaps /\ got.changed = loading[l].got.changed
          /\ got.rights = [loading[l].got.rights EXCEPT !.role = q]
      BY <1>1, <2>2 DEF CachedPermissions
    <2>4. x \in Loading /\ x.next = "grants" /\ x.who = w /\ x.got = got
      BY <1>1, <2>3 DEF Loading
    <2>5. loading' = [loading EXCEPT ![l] = x] /\ loading'[l] = x
      BY <1>1, <1>5 DEF ReadModuleRoles, Loading
    <2>6. row' = row /\ Reading(l) /\ loading[l].next = "role"
      <3>1. UNCHANGED <<people, roles>> /\ Assigned /\ loading[l].next = "role"
        BY <1>1, <1>5 DEF ReadModuleRoles, RolesInv
      <3>2. \A u : RightsOf(u)' = RightsOf(u)
        BY ONLY <3>1, RowsStay
      <3>3. loading'[l].who = w
        BY ONLY <2>4, <2>5
      <3> QED
        BY ONLY <3>1, <3>2, <3>3 DEF Reading
    <2>7. ASSUME ReadSoFar(l) PROVE ReadSoFar(l)'
      <3>1. PICK e : e = loading[l].got.rights
        OBVIOUS
      <3>2. e \in Rights /\ e.active = row.active /\ e.super = row.super /\ ~e.super /\ e.grants = {}
        BY <2>1, <2>6, <2>7, <3>1 DEF ReadSoFar
      <3>3. row.super = people[w].super /\ row.role = (IF ~people[w].super /\ InForce(people[w].role)
                                                       THEN people[w].role ELSE NoRole)
        BY DEF RightsOf
      <3>4. row.role = q
        BY ONLY <3>2, <3>3
      <3>5. got.rights = [e EXCEPT !.role = q]
        BY ONLY <2>3, <3>1
      <3>6. got.rights.active = e.active /\ got.rights.super = e.super /\ got.rights.role = q /\ got.rights.grants = {}
        BY ONLY <2>1, <3>2, <3>5 DEF Rights
      <3>7. PICK f, v : f = got.rights /\ v = row
        OBVIOUS
      <3>8. loading'[l].next = "grants" /\ loading'[l].got.rights = f /\ RightsOf(loading[l].who)' = v
        <4>1. RightsOf(loading[l].who)' = v
          BY ONLY <2>6, <3>7
        <4> HIDE DEF got, x
        <4> QED
          BY ONLY <2>4, <2>5, <3>7, <4>1
      <3>9. /\ f.active = v.active /\ f.super = v.super /\ ~f.super /\ f.role = v.role /\ f.grants = {}
        BY ONLY <3>2, <3>4, <3>6, <3>7
      <3> QED
        BY ONLY <3>8, <3>9 DEF ReadSoFar
    <2>8. LoadInv(l)'
      <3>1. PICK e, f : e = loading[l].got /\ f = loading'[l].got
        OBVIOUS
      <3>2. f.is = e.is /\ f.at = e.at /\ f.mishaps = e.mishaps /\ f.changed = e.changed
        BY ONLY <2>3, <2>4, <2>5, <3>1
      <3>3. time' = time
        BY <1>5 DEF ReadModuleRoles
      <3>4. /\ e.is = "some" /\ e.at <= time
            /\ e.mishaps = {} => e.changed = NeverChanged
            /\ e.changed = NeverChanged => ReadSoFar(l)
            /\ e.changed # NeverChanged => e.at <= e.changed
        BY ONLY <1>1, <2>6, <3>1 DEF LoadInv
      <3> QED
        BY ONLY <2>7, <3>1, <3>2, <3>3, <3>4 DEF LoadInv
    <2> QED
      BY <1>5, <2>4, <2>5, <2>8, LoadingChanges DEF ReadModuleRoles
  <1>6. CASE ReadPermissions(l)
    <2> DEFINE q == people[w].role
               g == IF InForce(q) THEN roles[q].grants ELSE {}
               got == [loading[l].got EXCEPT !.rights.grants = g]
               x == [loading[l] EXCEPT !.next = "store", !.got = got]
    <2>1. /\ q \in Roles \cup {NoRole} /\ loading[l].got.rights \in Rights
          /\ g \subseteq Permits
      BY <1>1, EntryTypes, RoleTypes DEF Person, Role, InForce
    <2>2. [loading[l].got.rights EXCEPT !.grants = g] \in Rights
      BY <2>1 DEF Rights
    <2>3. /\ got \in CachedPermissions /\ got.is = loading[l].got.is /\ got.at = loading[l].got.at
          /\ got.mishaps = loading[l].got.mishaps /\ got.changed = loading[l].got.changed
          /\ got.rights = [loading[l].got.rights EXCEPT !.grants = g]
      BY <1>1, <2>2 DEF CachedPermissions
    <2>4. x \in Loading /\ x.next = "store" /\ x.who = w /\ x.got = got
      BY <1>1, <2>3 DEF Loading
    <2>5. loading' = [loading EXCEPT ![l] = x] /\ loading'[l] = x
      BY <1>1, <1>6 DEF ReadPermissions, Loading
    <2>6. row' = row /\ Reading(l) /\ loading[l].next = "grants"
      <3>1. UNCHANGED <<people, roles>> /\ Assigned /\ loading[l].next = "grants"
        BY <1>1, <1>6 DEF ReadPermissions, RolesInv
      <3>2. \A u : RightsOf(u)' = RightsOf(u)
        BY ONLY <3>1, RowsStay
      <3>3. loading'[l].who = w
        BY ONLY <2>4, <2>5
      <3> QED
        BY ONLY <3>1, <3>2, <3>3 DEF Reading
    <2>7. row = [active |-> people[w].active, super |-> people[w].super,
                 role |-> IF ~people[w].super /\ InForce(q) THEN q ELSE NoRole,
                 grants |-> IF ~people[w].super /\ InForce(q) THEN roles[q].grants ELSE {}]
      BY DEF RightsOf, InForce
    <2>8. ASSUME ReadSoFar(l) PROVE got.rights = row
      <3>1. LET e == loading[l].got.rights IN
            e.active = row.active /\ e.super = row.super /\ e.role = row.role /\ ~e.super
        BY <2>6, <2>8 DEF ReadSoFar
      <3>2. row.grants = g
        BY <2>7, <3>1
      <3> QED
        <4>1. PICK e, f, v : e = loading[l].got.rights /\ f = got.rights /\ v = row
          OBVIOUS
        <4>2. f = [e EXCEPT !.grants = g] /\ e \in Rights /\ g \subseteq Permits
          BY ONLY <2>1, <2>3, <4>1
        <4>3. f \in Rights /\ f.active = e.active /\ f.super = e.super /\ f.role = e.role /\ f.grants = g
          BY ONLY <4>2 DEF Rights
        <4>4. f = [active |-> f.active, super |-> f.super, role |-> f.role, grants |-> f.grants]
          BY ONLY <4>3, RightsAre
        <4>5. v = [active |-> v.active, super |-> v.super, role |-> v.role, grants |-> v.grants]
          BY ONLY <2>7, <4>1
        <4>6. f.active = v.active /\ f.super = v.super /\ f.role = v.role /\ f.grants = v.grants
          BY ONLY <3>1, <3>2, <4>1, <4>3
        <4> QED
          BY ONLY <4>1, <4>4, <4>5, <4>6
    <2>9. ReadSoFar(l) => ReadSoFar(l)'
      BY <2>4, <2>5, <2>6, <2>7, <2>8 DEF ReadSoFar
    <2>10. LoadInv(l)'
      <3>1. PICK e, f : e = loading[l].got /\ f = loading'[l].got
        OBVIOUS
      <3>2. f.is = e.is /\ f.at = e.at /\ f.mishaps = e.mishaps /\ f.changed = e.changed
        BY ONLY <2>3, <2>4, <2>5, <3>1
      <3>3. time' = time
        BY <1>6 DEF ReadPermissions
      <3>4. /\ e.is = "some" /\ e.at <= time
            /\ e.mishaps = {} => e.changed = NeverChanged
            /\ e.changed = NeverChanged => ReadSoFar(l)
            /\ e.changed # NeverChanged => e.at <= e.changed
        BY ONLY <1>1, <2>6, <3>1 DEF LoadInv
      <3> QED
        BY ONLY <2>9, <3>1, <3>2, <3>3, <3>4 DEF LoadInv
    <2> QED
      BY <1>6, <2>4, <2>5, <2>10, LoadingChanges DEF ReadPermissions
  <1> QED
    BY <1>2, <1>3, <1>4, <1>5, <1>6

(* What is stored is what the rows say, or was overtaken. *)
LEMMA Stored ==
  ASSUME RolesInv, NEW l \in Loaders, StorePermissions(l)
  PROVE  RolesInv'
  <1> DEFINE w == loading[l].who
             e == loading[l].got
             x == [[loading[l] EXCEPT !.next = "none"] EXCEPT !.got = NotCached]
  <1>1. /\ RolesTypeOK /\ Assigned /\ Deleting /\ LoadInv(l) /\ loading[l] \in Loading /\ w \in Accounts
        /\ e \in CachedPermissions /\ NotCached \in CachedPermissions /\ time \in Nat
    BY RoleTypes DEF RolesInv
  <1>2. /\ cache' = [cache EXCEPT ![w] = e] /\ loading' = [loading EXCEPT ![l] = x]
        /\ UNCHANGED <<time, people, roles, admins, changes>>
    BY <1>1, EntryTypes DEF StorePermissions
  <1>3. x \in Loading /\ x.next = "none"
    BY <1>1 DEF Loading
  <1>4. /\ cache'[w] = e /\ \A u \in Accounts \ {w} : cache'[u] = cache[u]
        /\ loading'[l] = x /\ \A k \in Loaders \ {l} : loading'[k] = loading[k]
    BY <1>1, <1>2 DEF RolesTypeOK
  <1>5. RolesTypeOK' /\ Deleting' /\ Assigned' /\ \A u \in Accounts : RightsOf(u)' = RightsOf(u)
    BY <1>1, <1>2, <1>3, RowsStay DEF RolesTypeOK, Deleting
  <1>6. EntryInv(w)'
    <2>1. LET got == e IN
          /\ got.at <= time /\ (got.mishaps = {} => got.changed = NeverChanged)
          /\ got.changed = NeverChanged => got.rights = RightsOf(w)
          /\ got.changed # NeverChanged => got.at <= got.changed
      BY <1>1 DEF StorePermissions, LoadInv, Reading, ReadSoFar
    <2> QED
      BY <1>1, <1>2, <1>4, <1>5, <2>1 DEF EntryInv, NeverChanged
  <1>7. \A u \in Accounts : EntryInv(u)'
    BY <1>1, <1>2, <1>4, <1>5, <1>6, EntryStays
  <1>8. \A k \in Loaders : LoadInv(k)'
    <2>1. LoadInv(l)'
      BY <1>3, <1>4 DEF LoadInv, Reading
    <2> QED
      BY <1>1, <1>2, <1>4, <1>5, <2>1, LoadStays
  <1> QED
    BY <1>5, <1>7, <1>8 DEF RolesInv

LEMMA EntriesDropped ==
  ASSUME RolesInv, NEW S \in SUBSET Accounts, cache' = [u \in Accounts |-> IF u \in S THEN NotCached ELSE cache[u]],
         UNCHANGED <<time, people, roles, changes>>,
         admins' \in [Admins -> Admin], Deleting',
         loading' \in [Loaders -> Loading], \A l \in Loaders : loading'[l] = loading[l] \/ ~Reading(l)',
         \A u \in Accounts \ S : Told(u) => Told(u)'
  PROVE  RolesInv'
  <1>1. /\ RolesTypeOK /\ Assigned /\ NotCached \in CachedPermissions /\ NotCached.is = "none" /\ time \in Nat
        /\ \A u \in Accounts : cache[u] \in CachedPermissions
    BY RoleTypes DEF RolesInv
  <1>2. RolesTypeOK' /\ Assigned' /\ \A u \in Accounts : RightsOf(u)' = RightsOf(u)
    BY <1>1, RowsStay DEF RolesTypeOK
  <1>3. ASSUME NEW u \in Accounts PROVE EntryInv(u)'
    <2>1. CASE u \in S
      BY <1>1, <2>1 DEF EntryInv
    <2>2. CASE u \notin S
      BY <1>1, <1>2, <2>2 DEF EntryInv, RolesInv, NeverChanged
    <2> QED
      BY <2>1, <2>2
  <1>4. ASSUME NEW l \in Loaders PROVE LoadInv(l)'
    BY <1>1, <1>2, LoadStays DEF LoadInv
  <1> QED
    BY <1>2, <1>3, <1>4 DEF RolesInv
LEMMA CacheDrops ==
  ASSUME RolesInv,
         \/ \E l \in Loaders : InvalidateKey(l)
         \/ SweepCache \/ RestartCache \/ \E a \in Admins : Invalidate(a)
  PROVE  RolesInv'
  <1>1. /\ RolesTypeOK /\ Deleting /\ loading \in [Loaders -> Loading] /\ admins \in [Admins -> Admin]
        /\ cache \in [Accounts -> CachedPermissions]
        /\ Idle \in Admin /\ NotCached \in CachedPermissions
    BY RoleTypes DEF RolesInv, RolesTypeOK
  <1>2. ASSUME NEW l \in Loaders, InvalidateKey(l) PROVE RolesInv'
    <2> DEFINE w == loading[l].who
    <2>1. /\ cache' = [u \in Accounts |-> IF u \in {w} THEN NotCached ELSE cache[u]] /\ w \in Accounts
      BY <1>1, <1>2, RoleTypes DEF InvalidateKey
    <2>2. loading' \in [Loaders -> Loading] /\ \A k \in Loaders : loading'[k] = loading[k] \/ ~Reading(k)'
      BY <1>1, <1>2 DEF InvalidateKey, Loading, Reading
    <2>3. \A u \in Accounts \ {w} : Told(u) => Told(u)'
      BY <1>2, <2>1 DEF InvalidateKey, Told, Covers, Listed
    <2>4. UNCHANGED <<time, people, roles, changes>> /\ admins' \in [Admins -> Admin] /\ Deleting'
      BY <1>1, <1>2 DEF InvalidateKey, Deleting
    <2> QED
      BY <2>1, <2>2, <2>3, <2>4, EntriesDropped
  <1>3. CASE SweepCache
    <2> DEFINE S == {u \in Accounts : Expired(cache[u])}
    <2>1. cache' = [u \in Accounts |-> IF u \in S THEN NotCached ELSE cache[u]]
      BY <1>3 DEF SweepCache
    <2>2. \A u \in Accounts \ S : Told(u) => Told(u)'
      BY <1>3, <2>1 DEF SweepCache, Told, Covers, Listed
    <2>3. /\ UNCHANGED <<time, people, roles, changes>> /\ admins' \in [Admins -> Admin] /\ Deleting'
          /\ loading' = loading
      BY <1>1, <1>3 DEF SweepCache, Deleting
    <2> HIDE DEF S
    <2> QED
      BY <1>1, <2>1, <2>2, <2>3, EntriesDropped DEF S
  <1>4. CASE RestartCache
    <2>1. cache' = [u \in Accounts |-> IF u \in Accounts THEN NotCached ELSE cache[u]]
      BY <1>4 DEF RestartCache
    <2>2. /\ UNCHANGED <<time, people, roles, changes>> /\ admins' \in [Admins -> Admin] /\ Deleting'
      BY <1>1, <1>4 DEF RestartCache, Deleting, Idle
    <2>3. loading' \in [Loaders -> Loading] /\ \A l \in Loaders : ~Reading(l)'
      BY <1>1, <1>4 DEF RestartCache, Loading, Reading
    <2> QED
      BY <2>1, <2>2, <2>3, EntriesDropped
  <1>5. ASSUME NEW a \in Admins, Invalidate(a) PROVE RolesInv'
    <2> DEFINE S == {u \in Accounts : Covers(admins[a].whose, u)}
    <2>1. cache' = [u \in Accounts |-> IF u \in S THEN NotCached ELSE cache[u]]
      BY <1>5 DEF Invalidate
    <2>2. /\ UNCHANGED <<time, people, roles, changes>> /\ admins' \in [Admins -> Admin]
          /\ loading' = loading /\ \A b \in Admins \ {a} : admins'[b] = admins[b]
      BY <1>1, <1>5 DEF Invalidate
    <2>3. Deleting'
      BY <1>1, <1>5 DEF Invalidate, Deleting, Idle
    <2>4. ASSUME NEW u \in Accounts \ S, Told(u) PROVE Told(u)'
      <3>1. PICK b \in Admins : admins[b].next = "invalidate" /\ Covers(admins[b].whose, u)
        BY <2>4 DEF Told
      <3>2. b # a
        BY <3>1
      <3>3. Covers(admins[b].whose, u)' /\ admins'[b].next = "invalidate"
        BY <2>1, <2>2, <3>1, <3>2 DEF Covers, Listed
      <3> QED
        BY <3>3 DEF Told
    <2> HIDE DEF S
    <2> QED
      BY <1>1, <2>1, <2>2, <2>3, <2>4, EntriesDropped DEF S
  <1> QED
    BY <1>2, <1>3, <1>4, <1>5

(* The last user of a role is counted; a change ends without telling the cache. *)
LEMMA AdminsGoOn ==
  ASSUME RolesInv, NEW a \in Admins, ChangeFails(a) \/ \E r \in Roles : CountUsers(a, r)
  PROVE  RolesInv'
  <1>1. /\ RolesTypeOK /\ Assigned /\ Deleting /\ loading \in [Loaders -> Loading] /\ admins \in [Admins -> Admin]
        /\ Idle \in Admin /\ time \in Nat
        /\ UNCHANGED <<time, people, roles, loading, changes>>
    BY RoleTypes DEF RolesInv, RolesTypeOK, ChangeFails, CountUsers
  <1>2. /\ admins' \in [Admins -> Admin] /\ Deleting' /\ \A b \in Admins \ {a} : admins'[b] = admins[b]
    <2>1. CASE ChangeFails(a)
      BY <1>1, <2>1 DEF ChangeFails, Deleting, Idle
    <2>2. ASSUME NEW r \in Roles, CountUsers(a, r)
          PROVE  /\ admins' \in [Admins -> Admin] /\ Deleting'
                 /\ \A b \in Admins \ {a} : admins'[b] = admins[b]
      BY <1>1, <2>2 DEF CountUsers, Deleting, Admin
    <2> QED
      BY <2>1, <2>2
  <1>3. ASSUME NEW u \in Accounts
        PROVE  /\ cache'[u] \in CachedPermissions
               /\ \/ cache'[u] = cache[u] /\ ~(admins[a].next = "invalidate" /\ Covers(admins[a].whose, u))
                  \/ /\ cache'[u].is = cache[u].is /\ cache'[u].at = cache[u].at
                     /\ cache'[u].rights = cache[u].rights /\ cache'[u].changed = cache[u].changed
                     /\ cache'[u].mishaps # {}
                  \/ cache'[u] = cache[u] /\ cache[u].is # "some"
    <2>1. cache[u] \in CachedPermissions /\ cache[u].mishaps \subseteq Mishaps
      BY <1>1, RoleTypes, EntryTypes
    <2>2. LET e == [cache[u] EXCEPT !.mishaps = @ \cup {"untold"}] IN
          /\ e \in CachedPermissions /\ e.is = cache[u].is /\ e.at = cache[u].at
          /\ e.rights = cache[u].rights /\ e.changed = cache[u].changed /\ e.mishaps # {}
      BY <2>1 DEF CachedPermissions, Mishaps
    <2>3. CASE ChangeFails(a)
      BY <2>1, <2>2, <2>3 DEF ChangeFails
    <2>4. ASSUME NEW r \in Roles, CountUsers(a, r)
          PROVE  cache'[u] = cache[u] /\ admins[a].next = "none"
      BY <2>4 DEF CountUsers
    <2> QED
      BY <2>1, <2>3, <2>4
  <1>4. RolesTypeOK'
    <2>1. cache' \in [Accounts -> CachedPermissions]
      BY <1>1, <1>3 DEF ChangeFails, CountUsers, RolesTypeOK
    <2> QED
      BY <1>1, <1>2, <2>1 DEF RolesTypeOK
  <1>5. Assigned' /\ \A u \in Accounts : RightsOf(u)' = RightsOf(u)
    BY <1>1, RowsStay
  <1>6. ASSUME NEW u \in Accounts PROVE EntryInv(u)'
    <2>1. ASSUME Told(u), ~(admins[a].next = "invalidate" /\ Covers(admins[a].whose, u)), cache'[u] = cache[u]
          PROVE  Told(u)'
      BY <1>2, <2>1 DEF Told, Covers, Listed
    <2> QED
      BY <1>1, <1>3, <1>5, <2>1 DEF EntryInv, RolesInv, NeverChanged
  <1>7. \A l \in Loaders : LoadInv(l)'
    BY <1>1, <1>5, LoadStays
  <1> QED
    BY <1>2, <1>4, <1>5, <1>6, <1>7 DEF RolesInv

-------------------------------------------------------------------------------

LEMMA RolesStart == RolesInit => RolesInv
  <1> SUFFICES ASSUME RolesInit PROVE RolesInv
    OBVIOUS
  <1>1. NotCached \in CachedPermissions /\ Idle \in Admin /\ NotCached.is = "none" /\ 0 \in Moments
    BY MomentTypes, CacheAssumption DEF NotCached, NoRights, Rights, CachedPermissions, Moments, Idle, Admin, NeverChanged
  <1>2. people \in [Accounts -> Person]
    <2> DEFINE p(r) == [active |-> TRUE, super |-> FALSE, role |-> r]
    <2>1. \A r \in Roles \cup {NoRole} : p(r) \in Person
      BY DEF Person
    <2>2. people \in [Accounts -> {p(r) : r \in Roles \cup {NoRole}}]
      BY DEF RolesInit
    <2> HIDE DEF p
    <2> QED
      BY <2>1, <2>2
  <1>3. roles \in [Roles -> Role]
    <2>1. /\ [is |-> "unused", active |-> TRUE, grants |-> {}] \in Role
          /\ [is |-> "live", active |-> TRUE, grants |-> Permits] \in Role
      BY DEF Role
    <2> QED
      BY <2>1 DEF RolesInit
  <1>4. loading \in [Loaders -> Loading] /\ \A l \in Loaders : ~Reading(l)
    <2>1. (CHOOSE u \in Accounts : TRUE) \in Accounts
      BY CacheAssumption
    <2> HIDE DEF NotCached
    <2> DEFINE x == [next |-> "none", who |-> CHOOSE u \in Accounts : TRUE, got |-> NotCached]
    <2>2. x \in Loading /\ x.next = "none"
      BY <1>1, <2>1 DEF Loading
    <2>3. loading = [l \in Loaders |-> x]
      BY DEF RolesInit
    <2> HIDE DEF x
    <2> QED
      BY <2>2, <2>3 DEF Reading
  <1>5. RolesTypeOK
    BY <1>1, <1>2, <1>3, <1>4, CacheAssumption DEF RolesInit, RolesTypeOK
  <1>6. Assigned
    BY DEF RolesInit, Assigned
  <1>7. Deleting
    BY DEF RolesInit, Deleting, Idle
  <1>8. \A u \in Accounts : EntryInv(u)
    BY <1>1 DEF RolesInit, EntryInv
  <1>9. \A l \in Loaders : LoadInv(l)
    BY <1>4 DEF LoadInv
  <1> QED
    BY <1>5, <1>6, <1>7, <1>8, <1>9 DEF RolesInv

LEMMA RolesStep == RolesInv /\ [RolesNext]_roleVars => RolesInv'
  <1> SUFFICES ASSUME RolesInv, [RolesNext]_roleVars PROVE RolesInv'
    OBVIOUS
  <1>1. RolesTypeOK /\ Assigned /\ Deleting /\ time \in Nat
    BY RoleTypes DEF RolesInv
  <1>2. ASSUME UNCHANGED <<people, roles, cache, loading, admins, changes>>, time' \in Moments, time <= time'
        PROVE  RolesInv'
    <2>1. /\ RolesTypeOK' /\ Assigned' /\ Deleting' /\ time' \in Nat
          /\ \A u \in Accounts : RightsOf(u)' = RightsOf(u)
      BY <1>1, <1>2, RowsStay, MomentTypes DEF RolesTypeOK, Deleting
    <2> QED
      BY <1>2, <2>1, AllStay DEF RolesInv
  <1>3. CASE CacheAges
    BY <1>1, <1>2, <1>3, CacheAssumption DEF CacheAges, Moments
  <1>4. CASE UNCHANGED roleVars
    BY <1>1, <1>2, <1>4 DEF roleVars, RolesTypeOK
  <1>5. ASSUME NEW l \in Loaders,
               \/ \E u \in Accounts : Load(l, u)
               \/ InvalidateKey(l) \/ ReadFlags(l) \/ ReadModuleRoles(l)
               \/ ReadPermissions(l) \/ StorePermissions(l) \/ LoadFails(l)
        PROVE  RolesInv'
    BY <1>5, LoadersRead, CacheDrops, Stored
  <1>6. ASSUME NEW a \in Admins,
               \/ \E u \in Accounts : \/ SetUserActive(a, u) \/ SetUserSuperAdmin(a, u)
                                      \/ ReplaceUserModuleRoles(a, u) \/ ReplaceUserRoles(a, u)
               \/ \E r \in Roles : UpdateRole(a, r) \/ ToggleRole(a, r) \/ CountUsers(a, r)
               \/ DeleteRole(a) \/ Invalidate(a) \/ ChangeFails(a)
        PROVE  RolesInv'
    BY <1>6, UsersChange, RoleUpdated, RoleToggled, RoleDeleted, AdminsGoOn, CacheDrops
  <1>7. CASE CreateRole \/ SweepCache \/ RestartCache
    BY <1>7, RoleCreated, CacheDrops
  <1> QED
    BY <1>3, <1>4, <1>5, <1>6, <1>7 DEF RolesNext

(* Whatever is cached or being loaded agrees with the rows, unless they changed since: *)
(* then a change is about to drop it, or a mishap is on its record.                    *)
THEOREM RolesAlwaysInv == RolesSpec => []RolesInv
  BY RolesStart, RolesStep, PTL DEF RolesSpec

(* Rows, cache and requests keep their types. *)
THEOREM RolesTypeCorrect == RolesSpec => []RolesTypeOK
  <1>1. RolesInv => RolesTypeOK
    BY DEF RolesInv
  <1> QED
    BY <1>1, RolesAlwaysInv, PTL

(* No request is decided by permissions that were taken away, once the cache was told, *)
(* and by none for longer than the TTL after they were.                                *)
THEOREM RightsInEffect == RolesSpec => []RolesInEffect
  <1>1. ASSUME RolesInv PROVE RolesInEffect
    <2>1. RolesTypeOK /\ time \in Nat
      BY <1>1, RoleTypes DEF RolesInv
    <2>2. ChangesTakeEffect
      BY <1>1 DEF RolesInv, EntryInv, ChangesTakeEffect, Served
    <2>3. ASSUME NEW u \in Accounts, Served(u), cache[u].rights # RightsOf(u)
          PROVE  cache[u].changed # NeverChanged /\ time - cache[u].changed <= CacheTTL
      <3>1. cache[u].at \in Nat /\ cache[u].changed \in Nat
        BY <2>1, RoleTypes, EntryTypes
      <3>2. cache[u].changed # NeverChanged /\ cache[u].at <= cache[u].changed
        BY <1>1, <2>3 DEF RolesInv, EntryInv, Served
      <3>3. time - cache[u].at <= CacheTTL
        BY <2>1, <2>3, <3>1, CacheAssumption DEF Served, Expired
      <3> QED
        BY <2>1, <3>1, <3>2, <3>3, CacheAssumption
    <2> QED
      BY <2>2, <2>3 DEF RolesInEffect, StaleNoLongerThanTTL
  <1> QED
    BY <1>1, RolesAlwaysInv, PTL

-----------------------------------------------------------------------------
(* The monitors: what is typed beside what MonitorTypeOK says.                    *)
OnProbed == /\ probes = [c \in Probed |-> probes[c]] /\ told = [c \in Probed |-> told[c]]
            /\ gap = [c \in Probed |-> gap[c]]
MonitorTypes ==
    /\ OnProbed
    /\ workers = [w \in ProbeWorkers |-> workers[w]]
    /\ MonitorTypeOK

(* No check is in two hands, or in one and still to be given.                       *)
OneEach ==
    \A w \in Busy : /\ workers[w].of \notin due
                    /\ \A v \in Busy \ {w} : workers[v].of # workers[w].of

(* The row says whether people know of the outage, and since when.                  *)
Remembers(c, row) ==
    /\ row.alertActive <=> told[c].what = "down"
    /\ row.alertActive => row.sent = told[c].age

AlertInv(c) ==
    /\ probes[c].last # "down" => probes[c].fails = 0
    /\ gap[c] = Cooldown(c)
    /\ probes[c].is # "absent" /\ c \notin untold /\ (\A w \in WorkersOf(c) : workers[w].step = "probe") =>
         /\ probes[c].alertActive <=> probes[c].fails >= Threshold(c)
         /\ Remembers(c, probes[c])

(* A worker that has recorded its result holds the row as it is, if it still is; what it *)
(* has told and not stored people know, or they have missed it.                      *)
WorkerInv(w) ==
    LET c == workers[w].of  row == workers[w].row IN
    /\ workers[w].step # "probe" =>
         /\ row.last = "up" => row.fails = 0
         /\ probes[c].is # "absent" =>
              /\ probes[c].last = row.last /\ probes[c].fails = row.fails
              /\ probes[c].alertActive = row.alertActive /\ probes[c].sent = row.sent
    /\ workers[w].step \in {"read", "write", "decide"} =>
         /\ row.last # "unknown"
         /\ c \notin untold =>
              /\ row.alertActive /\ row.last = "down" => row.fails >= Threshold(c)
              /\ Remembers(c, row)
    /\ workers[w].step = "mark" => IsDown(c, row)
    /\ workers[w].step = "clear" => row.last = "up"
    /\ workers[w].step \in {"mark", "clear"} /\ ~workers[w].reached => c \in untold
    /\ workers[w].step \in {"mark", "clear"} /\ workers[w].reached =>
         /\ told[c].what = IF workers[w].step = "mark" THEN "down" ELSE "up"
         /\ told[c].age = workers[w].age

(* A status that is still whole is that of the checks, or somebody is about to read them *)
(* again.                                                                    *)
StatusInv ==
    /\ StatusIsRolledUp
    /\ \A w \in Busy : workers[w].step = "write" /\ workers[w].whole =>
         workers[w].rolled = RolledUp \/ \E v \in Busy : workers[v].step = "read"

MonitorInv ==
    /\ MonitorTypes /\ OneEach /\ StatusInv
    /\ \A c \in Probed : AlertInv(c)
    /\ \A w \in Busy : WorkerInv(w)

-----------------------------------------------------------------------------

LEMMA Thresholds ==
  ASSUME NEW c \in Probed
  PROVE  /\ Threshold(c) \in Nat \ {0} /\ Cooldown(c) \in Nat \ {0} /\ LongAgo(c) \in Nat
         /\ LongAgo(c) = Cooldown(c) + MaxAge /\ MaxAge \in Nat
  BY MonitorAssumption DEF Threshold, Cooldown, LongAgo

LEMMA NewRowIs ==
  ASSUME NEW c \in Probed
  PROVE  /\ NewRow(c) \in Row(c) /\ [NewRow(c) EXCEPT !.is = "absent"] \in Row(c)
         /\ NewRow(c).is = "on" /\ NewRow(c).last = "unknown" /\ NewRow(c).fails = 0
         /\ NewRow(c).alertActive = FALSE /\ NewRow(c).sent = LongAgo(c)
         /\ [NewRow(c) EXCEPT !.is = "absent"].is = "absent"
         /\ [NewRow(c) EXCEPT !.is = "absent"].last = "unknown"
         /\ [NewRow(c) EXCEPT !.is = "absent"].fails = 0
<1>1. PICK long, absent, on, unknown, no, nil :
        /\ long = LongAgo(c) /\ absent = "absent" /\ on = "on" /\ unknown = "unknown"
        /\ no = FALSE /\ nil = 0
  OBVIOUS
<1>2. PICK z : z = NewRow(c)
  OBVIOUS
<1>3. z = [is |-> on, last |-> unknown, fails |-> nil, alertActive |-> no, sent |-> long, checked |-> no]
  BY <1>1, <1>2, Zenon DEF NewRow
<1>4. PICK y : y = [z EXCEPT !.is = absent]
  OBVIOUS
<1>5. y = [is |-> absent, last |-> unknown, fails |-> nil, alertActive |-> no, sent |-> long, checked |-> no]
  BY ONLY <1>3, <1>4
<1>6. z \in Row(c) /\ y \in Row(c)
  <2>1. long \in AgesOf(c) /\ nil \in 0..Threshold(c)
    BY <1>1, Thresholds DEF AgesOf
  <2>2. absent \in {"absent", "on", "off"} /\ on \in {"absent", "on", "off"}
    BY <1>1
  <2>3. unknown \in {"unknown", "up", "down"} /\ no \in BOOLEAN
    BY <1>1, Zenon
  <2> QED BY ONLY <1>3, <1>5, <2>1, <2>2, <2>3 DEF Row
<1>7. /\ z.is = on /\ z.last = unknown /\ z.fails = nil /\ z.alertActive = no /\ z.sent = long
      /\ y.is = absent /\ y.last = unknown /\ y.fails = nil
  BY ONLY <1>3, <1>5
<1> QED BY <1>1, <1>2, <1>4, <1>6, <1>7

LEMMA NewWorkIs ==
  ASSUME NEW c \in Probed
  PROVE  NewWork(c) \in Work(c) /\ NewWork(c).step = "probe" /\ NewWork(c).of = c
<1>1. PICK row, probe, unknown, yes, no, nil :
        /\ row = NewRow(c) /\ probe = "probe" /\ unknown = "unknown" /\ yes = TRUE /\ no = FALSE /\ nil = 0
  OBVIOUS
<1>2. PICK z : z = NewWork(c)
  OBVIOUS
<1>3. z = [step |-> probe, of |-> c, age |-> nil, row |-> row, rolled |-> unknown, whole |-> yes, reached |-> no]
  BY <1>1, <1>2, Zenon DEF NewWork
<1>4. /\ nil \in 0..MaxAge /\ unknown \in Statuses /\ row \in Row(c) /\ yes \in BOOLEAN /\ no \in BOOLEAN
      /\ probe \in {"probe", "read", "write", "decide", "mark", "clear"}
  <2>1. nil \in 0..MaxAge /\ row \in Row(c)
    <3>1. NewRow(c) \in Row(c)
      BY NewRowIs, Zenon
    <3>2. 0 \in 0..MaxAge
      BY MonitorAssumption
    <3> QED BY <1>1, <3>1, <3>2, Zenon
  <2>2. unknown \in Statuses /\ probe \in {"probe", "read", "write", "decide", "mark", "clear"}
    BY <1>1 DEF Statuses
  <2>3. yes \in BOOLEAN /\ no \in BOOLEAN
    BY <1>1, Zenon
  <2> QED BY <2>1, <2>2, <2>3
<1>5. z \in Work(c) /\ z.step = probe /\ z.of = c
  BY ONLY <1>3, <1>4 DEF Work
<1> QED BY <1>1, <1>2, <1>5

LEMMA RowTypes ==
  ASSUME NEW c \in Probed, NEW row \in Row(c)
  PROVE  /\ row.is \in {"absent", "on", "off"} /\ row.last \in {"unknown", "up", "down"}
         /\ row.fails \in Nat /\ row.fails <= Threshold(c) /\ row.alertActive \in BOOLEAN
         /\ row.sent \in Nat /\ row.sent <= LongAgo(c) /\ row.checked \in BOOLEAN
  BY Thresholds DEF Row, AgesOf

(* What is known of the rows and of a worker.                                     *)
LEMMA RowsTyped ==
  ASSUME MonitorTypes, NEW c \in Probed
  PROVE  /\ probes[c] \in Row(c) /\ told[c].what \in {"nothing", "down", "up"}
         /\ told[c].age \in Nat /\ told[c].age <= LongAgo(c)
         /\ told[c] \in [what : {"nothing", "down", "up"}, age : AgesOf(c)]
         /\ gap[c] \in 0..Cooldown(c)
  BY Thresholds DEF MonitorTypes, OnProbed, MonitorTypeOK, AgesOf

LEMMA WorkTypes ==
  ASSUME NEW c \in Probed, NEW k \in Work(c)
  PROVE  /\ k.step \in {"probe", "read", "write", "decide", "mark", "clear"} /\ k.of = c
         /\ k.age \in Nat /\ k.age <= MaxAge /\ k.row \in Row(c) /\ k.rolled \in Statuses
         /\ k.whole \in BOOLEAN /\ k.reached \in BOOLEAN
  BY Thresholds DEF Work

LEMMA WorkersTyped ==
  ASSUME MonitorTypes, NEW w \in Busy
  PROVE  w \in ProbeWorkers /\ workers[w].of \in Probed /\ workers[w] \in Work(workers[w].of)
  BY DEF MonitorTypes, OnProbed, MonitorTypeOK, Busy

LEMMA NoWorkIs == NoWork.step = "idle"
  BY DEF NoWork

LEMMA IdleWorkers ==
  ASSUME NEW w \in ProbeWorkers, workers[w].step # "idle"
  PROVE  w \in Busy
  BY DEF Busy

-----------------------------------------------------------------------------
(* One worker changes. *)

LEMMA OneWorker ==
  ASSUME MonitorTypes, NEW w \in ProbeWorkers, NEW c \in Probed, NEW k \in Work(c) \cup {NoWork},
         workers' = [workers EXCEPT ![w] = k]
  PROVE  /\ workers'[w] = k /\ \A v \in ProbeWorkers \ {w} : workers'[v] = workers[v]
         /\ workers' = [v \in ProbeWorkers |-> workers'[v]]
         /\ Busy' = IF k = NoWork THEN Busy \ {w} ELSE Busy \cup {w}
         /\ \A v \in Busy' : workers'[v].of \in Probed /\ workers'[v] \in Work(workers'[v].of)
<1>1. workers'[w] = k /\ \A v \in ProbeWorkers \ {w} : workers'[v] = workers[v]
  BY DEF MonitorTypes, OnProbed
<1>2. workers' = [v \in ProbeWorkers |-> workers'[v]]
  BY DEF MonitorTypes, OnProbed
<1>3. k = NoWork => k.step = "idle"
  BY NoWorkIs
<1>4. k # NoWork => k \in Work(c) /\ k.step # "idle" /\ k.of = c
  BY WorkTypes
<1>5. Busy' = IF k = NoWork THEN Busy \ {w} ELSE Busy \cup {w}
  BY <1>1, <1>3, <1>4 DEF Busy
<1>6. ASSUME NEW v \in Busy' PROVE workers'[v].of \in Probed /\ workers'[v] \in Work(workers'[v].of)
  <2>1. CASE v = w
    BY <1>1, <1>3, <1>4, <1>6, <2>1 DEF Busy
  <2>2. CASE v # w
    BY <1>1, <1>5, <1>6, <2>2, WorkersTyped DEF Busy
  <2> QED BY <2>1, <2>2
<1> QED BY <1>1, <1>2, <1>5, <1>6

-----------------------------------------------------------------------------
(* What a step leaves alone. *)

SameRow(c) ==
    /\ probes'[c].is = probes[c].is /\ probes'[c].last = probes[c].last
    /\ probes'[c].fails = probes[c].fails /\ probes'[c].alertActive = probes[c].alertActive
    /\ probes'[c].sent = probes[c].sent

SameJob(w) ==
    /\ workers'[w].step = workers[w].step /\ workers'[w].of = workers[w].of
    /\ workers'[w].row = workers[w].row /\ workers'[w].age = workers[w].age
    /\ workers'[w].reached = workers[w].reached

LEMMA AlertFrame ==
  ASSUME NEW c \in Probed, AlertInv(c), SameRow(c), told'[c] = told[c], gap'[c] = gap[c],
         c \in untold => c \in untold',
         (\A w \in WorkersOf(c)' : workers'[w].step = "probe") => \A w \in WorkersOf(c) : workers[w].step = "probe"
  PROVE  AlertInv(c)'
<1>1. /\ probes'[c].is = probes[c].is /\ probes'[c].last = probes[c].last
      /\ probes'[c].fails = probes[c].fails /\ probes'[c].alertActive = probes[c].alertActive
      /\ probes'[c].sent = probes[c].sent
  BY DEF SameRow
<1>2. Remembers(c, probes[c]) => Remembers(c, probes[c])'
  BY <1>1, Zenon DEF Remembers
<1> QED BY <1>1, <1>2 DEF AlertInv

LEMMA WorkerFrame ==
  ASSUME NEW w, WorkerInv(w), SameJob(w), SameRow(workers[w].of),
         told'[workers[w].of] = told[workers[w].of],
         workers[w].of \in untold => workers[w].of \in untold'
  PROVE  WorkerInv(w)'
<1> DEFINE c == workers[w].of
<1>1. /\ probes'[c].is = probes[c].is /\ probes'[c].last = probes[c].last
      /\ probes'[c].fails = probes[c].fails /\ probes'[c].alertActive = probes[c].alertActive
      /\ probes'[c].sent = probes[c].sent /\ told'[c] = told[c]
  BY DEF SameRow
<1>2. /\ workers'[w].step = workers[w].step /\ workers'[w].of = c
      /\ workers'[w].row = workers[w].row /\ workers'[w].age = workers[w].age
      /\ workers'[w].reached = workers[w].reached
  BY DEF SameJob
<1>3. Remembers(c, workers[w].row) => Remembers(workers[w].of, workers[w].row)'
  BY <1>1, <1>2, Zenon DEF Remembers
<1> QED BY <1>1, <1>2, <1>3 DEF WorkerInv, IsDown

(* The status is of what the checks show and whether they count. *)
SameStatuses == \A c \in Checks : probes'[c].is = probes[c].is /\ probes'[c].last = probes[c].last

LEMMA RolledFrame ==
  ASSUME SameStatuses
  PROVE  RolledUp' = RolledUp
<1> DEFINE of(status) == {c \in Checks : probes[c].is = "on" /\ probes[c].last = status}
           ofN(status) == {c \in Checks : probes'[c].is = "on" /\ probes'[c].last = status}
<1>1. \A status \in {"up", "down", "unknown"} : ofN(status) = of(status)
  BY DEF SameStatuses
<1> QED BY <1>1 DEF RolledUp

LEMMA StatusKept ==
  ASSUME StatusInv, SameStatuses, UNCHANGED <<lastStatus, torn>>,
         \A w \in Busy : workers[w].step \in {"read", "write"} => w \in Busy' /\ workers'[w].step = workers[w].step,
         \A w \in Busy' : workers'[w].step = "write" =>
            /\ w \in Busy /\ workers[w].step = "write"
            /\ workers'[w].rolled = workers[w].rolled /\ workers'[w].whole = workers[w].whole
  PROVE  StatusInv'
<1>1. RolledUp' = RolledUp
  BY RolledFrame
<1>2. StatusIsRolledUp'
  BY <1>1 DEF StatusInv, StatusIsRolledUp
<1>3. ASSUME NEW w \in Busy', workers'[w].step = "write", workers'[w].whole,
             workers'[w].rolled # RolledUp'
      PROVE  \E v \in Busy' : workers'[v].step = "read"
  <2>1. /\ w \in Busy /\ workers[w].step = "write"
        /\ workers'[w].rolled = workers[w].rolled /\ workers'[w].whole = workers[w].whole
    BY <1>3
  <2>2. PICK v \in Busy : workers[v].step = "read"
    BY <1>1, <1>3, <2>1 DEF StatusInv
  <2> QED BY <2>2
<1> QED BY <1>2, <1>3 DEF StatusInv

LEMMA StatusFrame ==
  ASSUME StatusInv, SameStatuses, UNCHANGED <<lastStatus, torn>>,
         \A w \in Busy : workers[w].step \in {"read", "write"} => w \in Busy' /\ workers'[w] = workers[w],
         \A w \in Busy' : workers'[w].step = "write" => w \in Busy /\ workers'[w] = workers[w]
  PROVE  StatusInv'
  BY StatusKept

LEMMA TornIs ==
  ASSUME MonitorTypes
  PROVE  /\ \A w \in ProbeWorkers :
              /\ Torn(workers)[w].step = workers[w].step
              /\ w \in Busy => /\ Torn(workers)[w] \in Work(workers[w].of)
                               /\ Torn(workers)[w].of = workers[w].of
                               /\ Torn(workers)[w].row = workers[w].row
                               /\ Torn(workers)[w].age = workers[w].age
                               /\ Torn(workers)[w].rolled = workers[w].rolled
                               /\ Torn(workers)[w].reached = workers[w].reached
              /\ workers[w].step = "write" => ~Torn(workers)[w].whole
              /\ workers[w].step # "write" => Torn(workers)[w] = workers[w]
         /\ Torn(workers) = [w \in ProbeWorkers |-> Torn(workers)[w]]
<1>1. Torn(workers) = [w \in ProbeWorkers |-> Torn(workers)[w]]
  BY DEF Torn
<1>2. ASSUME NEW w \in ProbeWorkers
      PROVE  /\ workers[w].step = "write" => Torn(workers)[w] = [workers[w] EXCEPT !.whole = FALSE]
             /\ workers[w].step # "write" => Torn(workers)[w] = workers[w]
  BY DEF Torn
<1>3. ASSUME NEW w \in ProbeWorkers, workers[w].step = "write"
      PROVE  /\ w \in Busy /\ Torn(workers)[w] \in Work(workers[w].of)
             /\ Torn(workers)[w].step = workers[w].step
             /\ Torn(workers)[w].of = workers[w].of /\ Torn(workers)[w].row = workers[w].row
             /\ Torn(workers)[w].age = workers[w].age /\ Torn(workers)[w].rolled = workers[w].rolled
             /\ Torn(workers)[w].reached = workers[w].reached /\ Torn(workers)[w].whole = FALSE
  <2>1. w \in Busy /\ workers[w] \in Work(workers[w].of)
    BY <1>3, WorkersTyped DEF Busy
  <2>2. Torn(workers)[w] = [workers[w] EXCEPT !.whole = FALSE]
    BY <1>2, <1>3
  <2> QED BY <2>1, <2>2 DEF Work
<1>4. ASSUME NEW w \in Busy PROVE w \in ProbeWorkers /\ workers[w] \in Work(workers[w].of)
  BY WorkersTyped
<1> QED BY <1>1, <1>2, <1>3, <1>4

LEMMA SameWorkers ==
  ASSUME NEW c \in Probed, Busy' = Busy, \A w \in Busy : SameJob(w)
  PROVE  (\A w \in WorkersOf(c)' : workers'[w].step = "probe") => \A w \in WorkersOf(c) : workers[w].step = "probe"
  BY DEF WorkersOf, SameJob

-----------------------------------------------------------------------------
(* Edits *)

LEMMA EditIs ==
  ASSUME MonitorTypes, StatusInv, NEW c \in Probed, NEW row \in Row(c), Edit(c, row)
  PROVE  /\ probes' = [d \in Probed |-> probes'[d]]
         /\ probes'[c] = row /\ \A d \in Probed \ {c} : probes'[d] = probes[d]
         /\ workers' = [w \in ProbeWorkers |-> workers'[w]] /\ Busy' = Busy
         /\ \A w \in Busy : SameJob(w) /\ workers'[w] \in Work(workers[w].of)
         /\ torn' \in BOOLEAN /\ lastStatus' = lastStatus /\ due' = due
         /\ StatusInv'
<1>1. /\ probes' = [d \in Probed |-> probes'[d]]
      /\ probes'[c] = row /\ \A d \in Probed \ {c} : probes'[d] = probes[d]
      /\ lastStatus' = lastStatus /\ due' = due
  BY DEF Edit, MonitorTypes, OnProbed
<1>2. workers' = workers \/ workers' = Torn(workers)
  BY DEF Edit
<1>3. /\ workers' = [w \in ProbeWorkers |-> workers'[w]] /\ Busy' = Busy
      /\ \A w \in Busy : SameJob(w) /\ workers'[w] \in Work(workers[w].of)
  <2>1. CASE workers' = workers
    BY <2>1, WorkersTyped DEF SameJob, Busy, MonitorTypes, OnProbed
  <2>2. CASE workers' = Torn(workers)
    BY <2>2, TornIs DEF SameJob, Busy
  <2> QED BY <1>2, <2>1, <2>2
<1>4. torn' \in BOOLEAN
  BY DEF Edit, MonitorTypes, OnProbed, MonitorTypeOK
<1>5. StatusInv'
  <2>1. CASE c \in Checks
    <3>1. torn' = TRUE /\ workers' = Torn(workers)
      BY <2>1 DEF Edit
    <3>2. \A w \in Busy' : workers'[w].step = "write" => ~workers'[w].whole
      BY <3>1, TornIs DEF Busy
    <3> QED BY <3>1, <3>2 DEF StatusInv, StatusIsRolledUp
  <2>2. CASE c \notin Checks
    <3>1. UNCHANGED <<workers, torn, lastStatus>>
      BY <2>2 DEF Edit
    <3>2. SameStatuses
      BY <1>1, <2>2 DEF SameStatuses, Probed
    <3>3. Busy' = Busy
      BY <1>3
    <3> QED BY <3>1, <3>2, <3>3, StatusFrame
  <2> QED BY <2>1, <2>2
<1> QED BY <1>1, <1>3, <1>4, <1>5

(* An edit of a row that leaves the types of what was told and the workers' own rows.   *)
LEMMA EditKeeps ==
  ASSUME MonitorInv, NEW c \in Probed, NEW row \in Row(c), Edit(c, row),
         told' = [d \in Probed |-> told'[d]],
         told'[c] \in [what : {"nothing", "down", "up"}, age : AgesOf(c)],
         \A d \in Probed \ {c} : told'[d] = told[d] /\ (d \in untold => d \in untold'),
         gap' = gap, untold' \subseteq Probed,
         AlertInv(c)',
         \A w \in WorkersOf(c) : WorkerInv(w)'
  PROVE  MonitorInv'
<1>1. MonitorTypes /\ OneEach /\ StatusInv
  BY DEF MonitorInv
<1>2. /\ probes' = [d \in Probed |-> probes'[d]]
      /\ probes'[c] = row /\ \A d \in Probed \ {c} : probes'[d] = probes[d]
      /\ workers' = [w \in ProbeWorkers |-> workers'[w]] /\ Busy' = Busy
      /\ \A w \in Busy : SameJob(w) /\ workers'[w] \in Work(workers[w].of)
      /\ torn' \in BOOLEAN /\ lastStatus' = lastStatus /\ due' = due
      /\ StatusInv'
  BY <1>1, EditIs
<1>3. MonitorTypes'
  <2>1. \A w \in Busy' : workers'[w].of \in Probed /\ workers'[w] \in Work(workers'[w].of)
    BY <1>1, <1>2, WorkersTyped DEF SameJob
  <2>2. \A d \in Probed : /\ probes'[d] \in Row(d)
                          /\ told'[d] \in [what : {"nothing", "down", "up"}, age : AgesOf(d)]
                          /\ gap'[d] \in 0..Cooldown(d)
    BY <1>1, <1>2, RowsTyped
  <2> QED BY <1>1, <1>2, <2>1, <2>2 DEF MonitorTypes, OnProbed, MonitorTypeOK
<1>4. OneEach'
  BY <1>1, <1>2 DEF OneEach, SameJob
<1>5. ASSUME NEW d \in Probed PROVE AlertInv(d)'
  <2>1. CASE d = c
    BY <2>1
  <2>2. CASE d # c
    <3>1. AlertInv(d) /\ SameRow(d) /\ told'[d] = told[d] /\ gap'[d] = gap[d] /\ (d \in untold => d \in untold')
      BY <1>2, <2>2 DEF MonitorInv, SameRow
    <3>2. (\A w \in WorkersOf(d)' : workers'[w].step = "probe") => \A w \in WorkersOf(d) : workers[w].step = "probe"
      BY <1>2, SameWorkers
    <3> QED BY <3>1, <3>2, AlertFrame
  <2> QED BY <2>1, <2>2
<1>6. ASSUME NEW w \in Busy' PROVE WorkerInv(w)'
  <2>1. w \in Busy /\ workers[w].of \in Probed /\ WorkerInv(w)
    BY <1>1, <1>2, WorkersTyped DEF MonitorInv
  <2>2. CASE workers[w].of = c
    BY <2>1, <2>2 DEF WorkersOf
  <2>3. CASE workers[w].of # c
    <3>1. SameJob(w) /\ SameRow(workers[w].of) /\ told'[workers[w].of] = told[workers[w].of]
      BY <1>2, <2>1, <2>3 DEF SameRow
    <3> QED BY <2>1, <2>3, <3>1, WorkerFrame
  <2> QED BY <2>2, <2>3
<1> QED BY <1>2, <1>3, <1>4, <1>5, <1>6 DEF MonitorInv

LEMMA CreateKeepsAlerts ==
  ASSUME MonitorInv, NEW c \in Probed, CreateCheck(c)
  PROVE  MonitorInv'
<1> DEFINE T == [what : {"nothing", "down", "up"}, age : AgesOf(c)]
<1>1. MonitorTypes /\ StatusInv /\ NewRow(c) \in Row(c) /\ Edit(c, NewRow(c)) /\ WorkersOf(c) = {}
  BY NewRowIs DEF MonitorInv, CreateCheck
<1>2. probes'[c] = NewRow(c)
  BY <1>1, EditIs
<1>3. PICK nothing \in T : nothing.what = "nothing" /\ told' = [told EXCEPT ![c] = nothing]
  <2>1. LongAgo(c) \in AgesOf(c)
    BY Thresholds DEF AgesOf
  <2> QED BY <2>1 DEF CreateCheck
<1>4. /\ told' = [d \in Probed |-> told'[d]] /\ told'[c] = nothing
      /\ \A d \in Probed \ {c} : told'[d] = told[d] /\ (d \in untold => d \in untold')
      /\ gap' = gap /\ untold' \subseteq Probed
  BY <1>1, <1>3 DEF CreateCheck, MonitorTypes, OnProbed, MonitorTypeOK
<1>5. AlertInv(c)'
  <2>1. probes'[c].fails = 0 /\ ~probes'[c].alertActive /\ told'[c].what = "nothing"
    BY <1>2, <1>3, <1>4, NewRowIs
  <2>2. ~(probes'[c].fails >= Threshold(c))
    BY <2>1, Thresholds
  <2>4. Remembers(c, probes[c])'
    BY <2>1 DEF Remembers
  <2>3. gap'[c] = Cooldown(c)
    BY <1>4 DEF MonitorInv, AlertInv
  <2> QED BY <2>1, <2>2, <2>3, <2>4 DEF AlertInv
<1> QED BY <1>1, <1>3, <1>4, <1>5, EditKeeps

LEMMA DeleteKeepsAlerts ==
  ASSUME MonitorInv, NEW c \in Probed, DeleteCheck(c)
  PROVE  MonitorInv'
<1> DEFINE row == [NewRow(c) EXCEPT !.is = "absent"]
<1>1. MonitorTypes /\ StatusInv /\ row \in Row(c) /\ Edit(c, row) /\ UNCHANGED <<told, gap, untold>>
  BY NewRowIs DEF MonitorInv, DeleteCheck
<1>2. /\ probes'[c] = row /\ row.is = "absent" /\ row.last = "unknown" /\ row.fails = 0
      /\ \A w \in Busy : SameJob(w)
  BY <1>1, EditIs, NewRowIs
<1>3. /\ told' = [d \in Probed |-> told'[d]]
      /\ told'[c] \in [what : {"nothing", "down", "up"}, age : AgesOf(c)] /\ untold' \subseteq Probed
  BY <1>1, RowsTyped DEF MonitorTypes, OnProbed, MonitorTypeOK
<1>4. AlertInv(c)'
  <2>1. gap'[c] = Cooldown(c)
    BY <1>1 DEF MonitorInv, AlertInv
  <2> QED BY <1>2, <2>1 DEF AlertInv
<1>5. ASSUME NEW w \in WorkersOf(c) PROVE WorkerInv(w)'
  <2>1. w \in Busy /\ workers[w].of = c /\ WorkerInv(w) /\ SameJob(w)
    BY <1>2 DEF WorkersOf, MonitorInv
  <2>2. Remembers(c, workers[w].row) => Remembers(workers[w].of, workers[w].row)'
    BY <1>1, <2>1, Zenon DEF Remembers, SameJob
  <2>3. /\ workers'[w].step = workers[w].step /\ workers'[w].of = c
        /\ workers'[w].row = workers[w].row /\ workers'[w].age = workers[w].age
        /\ workers'[w].reached = workers[w].reached
    BY <2>1 DEF SameJob
  <2> HIDE DEF row
  <2> QED BY <1>1, <1>2, <2>1, <2>2, <2>3 DEF WorkerInv, IsDown
<1> HIDE DEF row
<1> QED BY <1>1, <1>3, <1>4, <1>5, EditKeeps

LEMMA SwitchKeepsAlerts ==
  ASSUME MonitorInv, NEW c \in Probed, NEW is \in {"on", "off"}, SetEnabled(c, is)
  PROVE  MonitorInv'
<1>1. MonitorTypes /\ StatusInv /\ probes[c] \in Row(c) /\ probes[c].is # "absent" /\ AlertInv(c)
  BY RowsTyped DEF MonitorInv, SetEnabled
<1>2. PICK row \in Row(c) :
        /\ Edit(c, row) /\ row.is = is /\ row.last = probes[c].last /\ row.fails = probes[c].fails
        /\ row.alertActive = probes[c].alertActive /\ row.sent = probes[c].sent
  <2>1. [probes[c] EXCEPT !.is = is] \in Row(c)
    BY <1>1 DEF Row
  <2>2. Edit(c, [probes[c] EXCEPT !.is = is])
    BY DEF SetEnabled
  <2>3. PICK y : y = [probes[c] EXCEPT !.is = is]
    OBVIOUS
  <2>4. /\ y.is = is /\ y.last = probes[c].last /\ y.fails = probes[c].fails
        /\ y.alertActive = probes[c].alertActive /\ y.sent = probes[c].sent
    BY <1>1, <2>3 DEF Row
  <2> QED BY <2>1, <2>2, <2>3, <2>4
<1>3. UNCHANGED <<told, gap, untold>>
  BY DEF SetEnabled
<1>4. probes'[c] = row /\ Busy' = Busy /\ \A w \in Busy : SameJob(w)
  BY <1>1, <1>2, EditIs
<1>5. /\ told' = [d \in Probed |-> told'[d]]
      /\ told'[c] \in [what : {"nothing", "down", "up"}, age : AgesOf(c)] /\ untold' \subseteq Probed
  BY <1>1, <1>3, RowsTyped DEF MonitorTypes, OnProbed, MonitorTypeOK
<1>6. AlertInv(c)'
  <2>1. Remembers(c, probes[c]) => Remembers(c, probes[c])'
    BY <1>2, <1>3, <1>4, Zenon DEF Remembers
  <2>2. (\A w \in WorkersOf(c)' : workers'[w].step = "probe") => \A w \in WorkersOf(c) : workers[w].step = "probe"
    BY <1>4, SameWorkers
  <2> QED BY <1>1, <1>2, <1>3, <1>4, <2>1, <2>2 DEF AlertInv
<1>7. ASSUME NEW w \in WorkersOf(c) PROVE WorkerInv(w)'
  <2>1. w \in Busy /\ workers[w].of = c /\ WorkerInv(w) /\ SameJob(w)
    BY <1>4 DEF WorkersOf, MonitorInv
  <2>2. Remembers(c, workers[w].row) => Remembers(workers[w].of, workers[w].row)'
    BY <1>3, <2>1, Zenon DEF Remembers, SameJob
  <2>3. /\ workers'[w].step = workers[w].step /\ workers'[w].of = c
        /\ workers'[w].row = workers[w].row /\ workers'[w].age = workers[w].age
        /\ workers'[w].reached = workers[w].reached
    BY <2>1 DEF SameJob
  <2> QED BY <1>1, <1>2, <1>3, <1>4, <2>1, <2>2, <2>3 DEF WorkerInv, IsDown
<1> QED BY <1>2, <1>3, <1>5, <1>6, <1>7, EditKeeps

-----------------------------------------------------------------------------
(* Steps of one worker *)

(* What a step of worker w on check c leaves to the others.                            *)
OthersSame(w, c) ==
    /\ OnProbed' /\ workers' = [v \in ProbeWorkers |-> workers'[v]]
    /\ \A d \in Probed \ {c} : /\ probes'[d] = probes[d] /\ told'[d] = told[d] /\ gap'[d] = gap[d]
                               /\ d \in untold => d \in untold'
    /\ Busy' \ {w} = Busy \ {w}
    /\ \A v \in Busy \ {w} : SameJob(v) /\ workers'[v] \in Work(workers[v].of)
    /\ untold' \subseteq Probed

LEMMA WorkerKeeps ==
  ASSUME MonitorInv, NEW w \in ProbeWorkers, NEW c \in Probed, OthersSame(w, c),
         \A v \in Busy \ {w} : workers[v].of # c, w \in Busy => workers[w].of = c,
         probes'[c] \in Row(c), told'[c] \in [what : {"nothing", "down", "up"}, age : AgesOf(c)],
         due' \subseteq due, c \notin due', lastStatus' \in Statuses, torn' \in BOOLEAN,
         w \in Busy' => workers'[w] \in Work(c) /\ WorkerInv(w)',
         AlertInv(c)', StatusInv'
  PROVE  MonitorInv'
<1>1. MonitorTypes /\ OneEach
  BY DEF MonitorInv
<1>2. /\ OnProbed' /\ workers' = [v \in ProbeWorkers |-> workers'[v]]
      /\ \A d \in Probed \ {c} : /\ probes'[d] = probes[d] /\ told'[d] = told[d] /\ gap'[d] = gap[d]
                                 /\ d \in untold => d \in untold'
      /\ Busy' \ {w} = Busy \ {w}
      /\ \A v \in Busy \ {w} : SameJob(v) /\ workers'[v] \in Work(workers[v].of)
      /\ untold' \subseteq Probed
  BY DEF OthersSame
<1>3. w \in Busy' => workers'[w] \in Work(c) /\ workers'[w].of = c
  BY WorkTypes
<1>4. ASSUME NEW v \in Busy', v # w
      PROVE  /\ v \in Busy /\ workers'[v].of = workers[v].of /\ workers[v].of \in Probed
             /\ workers[v].of # c /\ workers'[v] \in Work(workers[v].of) /\ SameJob(v)
  BY <1>1, <1>2, <1>4, WorkersTyped DEF SameJob
<1>5. MonitorTypes'
  <2>1. \A v \in Busy' : workers'[v].of \in Probed /\ workers'[v] \in Work(workers'[v].of)
    BY <1>3, <1>4
  <2>2. \A d \in Probed : /\ probes'[d] \in Row(d)
                          /\ told'[d] \in [what : {"nothing", "down", "up"}, age : AgesOf(d)]
                          /\ gap'[d] \in 0..Cooldown(d)
    <3>1. gap'[c] = Cooldown(c) /\ Cooldown(c) \in 0..Cooldown(c)
      BY Thresholds DEF AlertInv
    <3> QED BY <1>1, <1>2, <3>1, RowsTyped
  <2>3. due' \subseteq Probed
    BY <1>1 DEF MonitorTypes, OnProbed, MonitorTypeOK
  <2> QED BY <1>2, <2>1, <2>2, <2>3 DEF MonitorTypes, OnProbed, MonitorTypeOK
<1>6. OneEach'
  <2>1. ASSUME NEW v \in Busy' PROVE workers'[v].of \notin due'
    BY <1>1, <1>3, <1>4 DEF OneEach
  <2>2. ASSUME NEW v \in Busy', NEW u \in Busy' \ {v} PROVE workers'[u].of # workers'[v].of
    <3>1. CASE v = w
      BY <1>3, <1>4, <3>1
    <3>2. CASE u = w
      BY <1>3, <1>4, <3>2
    <3>3. CASE v # w /\ u # w
      BY <1>1, <1>4, <3>3 DEF OneEach
    <3> QED BY <3>1, <3>2, <3>3
  <2> QED BY <2>1, <2>2 DEF OneEach
<1>7. ASSUME NEW d \in Probed PROVE AlertInv(d)'
  <2>1. CASE d = c
    BY <2>1
  <2>2. CASE d # c
    <3>1. AlertInv(d) /\ SameRow(d) /\ told'[d] = told[d] /\ gap'[d] = gap[d] /\ (d \in untold => d \in untold')
      BY <1>2, <2>2 DEF MonitorInv, SameRow
    <3>2. ASSUME \A v \in WorkersOf(d)' : workers'[v].step = "probe", NEW v \in WorkersOf(d), workers[v].step # "probe"
          PROVE  FALSE
      <4>1. v \in Busy /\ workers[v].of = d
        BY DEF WorkersOf
      <4>2. CASE v # w
        <5>1. v \in Busy' /\ SameJob(v)
          BY <1>2, <4>1, <4>2
        <5> QED BY <3>2, <4>1, <5>1 DEF WorkersOf, SameJob
      <4>3. CASE v = w /\ w \in Busy
        BY <2>2, <4>1, <4>3
      <4> QED BY <4>1, <4>2, <4>3
    <3> QED BY <3>1, <3>2, AlertFrame
  <2> QED BY <2>1, <2>2
<1>8. ASSUME NEW v \in Busy' PROVE WorkerInv(v)'
  <2>1. CASE v = w
    BY <2>1
  <2>2. CASE v # w
    <3>1. /\ WorkerInv(v) /\ SameJob(v) /\ SameRow(workers[v].of) /\ told'[workers[v].of] = told[workers[v].of]
          /\ workers[v].of \in untold => workers[v].of \in untold'
      BY <1>2, <1>4, <2>2 DEF SameRow, MonitorInv
    <3> QED BY <3>1, WorkerFrame
  <2> QED BY <2>1, <2>2
<1> QED BY <1>5, <1>6, <1>7, <1>8 DEF MonitorInv

Becomes(w, k) == workers' = [workers EXCEPT ![w] = k]

RestKept(c) ==
    /\ OnProbed' /\ untold' \subseteq Probed
    /\ \A d \in Probed \ {c} : /\ probes'[d] = probes[d] /\ told'[d] = told[d] /\ gap'[d] = gap[d]
                               /\ d \in untold => d \in untold'

(* One worker changes, and nothing of the other checks. *)
LEMMA OneJobChanges ==
  ASSUME MonitorInv, NEW w \in ProbeWorkers, NEW c \in Probed, NEW k \in Work(c) \cup {NoWork},
         Becomes(w, k), RestKept(c)
  PROVE  /\ OthersSame(w, c) /\ workers'[w] = k
         /\ \A v \in ProbeWorkers \ {w} : workers'[v] = workers[v]
         /\ k = NoWork => Busy' = Busy \ {w}
         /\ k # NoWork => Busy' = Busy \cup {w}
<1>1. MonitorTypes /\ workers' = [workers EXCEPT ![w] = k]
  BY DEF MonitorInv, Becomes
<1>2. /\ workers'[w] = k /\ \A v \in ProbeWorkers \ {w} : workers'[v] = workers[v]
      /\ workers' = [v \in ProbeWorkers |-> workers'[v]]
      /\ Busy' = IF k = NoWork THEN Busy \ {w} ELSE Busy \cup {w}
  BY <1>1, OneWorker
<1>3. \A v \in Busy \ {w} : SameJob(v) /\ workers'[v] \in Work(workers[v].of)
  BY <1>1, <1>2, WorkersTyped DEF SameJob
<1> QED BY <1>2, <1>3 DEF OthersSame, RestKept

(* Nothing but one worker changes. *)
LEMMA RestIsSame ==
  ASSUME MonitorTypes, UNCHANGED <<probes, told, gap>>
  PROVE  /\ OnProbed'
         /\ \A d \in Probed : /\ probes'[d] = probes[d] /\ told'[d] = told[d] /\ gap'[d] = gap[d]
                              /\ probes'[d] \in Row(d)
                              /\ told'[d] \in [what : {"nothing", "down", "up"}, age : AgesOf(d)]
                              /\ SameRow(d)
         /\ SameStatuses
<1>1. /\ OnProbed'
  BY DEF MonitorTypes, OnProbed
<1>2. \A d \in Probed : probes'[d] \in Row(d) /\ told'[d] \in [what : {"nothing", "down", "up"}, age : AgesOf(d)]
  BY RowsTyped
<1> QED BY <1>1, <1>2 DEF SameRow, SameStatuses

TornBecomes(w, k) == workers' = [Torn(workers) EXCEPT ![w] = k]
RowsKept == OnProbed' /\ UNCHANGED <<probes, told, gap, untold>>

(* One worker reads the statuses or fails to write them: what the others still have to     *)
(* write is no longer whole.                                                     *)
LEMMA TornJobChanges ==
  ASSUME MonitorTypes, NEW w \in Busy, NEW c \in Probed, NEW k \in Work(c),
         TornBecomes(w, k), RowsKept
  PROVE  /\ OthersSame(w, c) /\ workers'[w] = k /\ Busy' = Busy
         /\ \A v \in Busy \ {w} : /\ workers'[v].step = workers[v].step
                                  /\ workers'[v].step = "write" => ~workers'[v].whole
<1>1. w \in ProbeWorkers /\ Torn(workers) = [v \in ProbeWorkers |-> Torn(workers)[v]]
  BY WorkersTyped, TornIs
<1>2. /\ workers'[w] = k /\ \A v \in ProbeWorkers \ {w} : workers'[v] = Torn(workers)[v]
      /\ workers' = [v \in ProbeWorkers |-> workers'[v]]
  BY <1>1 DEF TornBecomes
<1>3. k.step # "idle"
  BY WorkTypes
<1>4. Busy' = Busy
  BY <1>1, <1>2, <1>3, TornIs DEF Busy
<1>5. ASSUME NEW v \in Busy \ {w}
      PROVE  /\ SameJob(v) /\ workers'[v] \in Work(workers[v].of)
             /\ workers'[v].step = workers[v].step
             /\ workers'[v].step = "write" => ~workers'[v].whole
  <2>1. v \in ProbeWorkers /\ workers'[v] = Torn(workers)[v]
    BY <1>2, WorkersTyped
  <2> QED BY <2>1, TornIs DEF SameJob
<1>6. untold' \subseteq Probed
  BY DEF MonitorTypes, MonitorTypeOK, RowsKept
<1> QED BY <1>2, <1>4, <1>5, <1>6 DEF OthersSame, RowsKept

LEMMA TypesOfRest ==
  ASSUME MonitorInv
  PROVE  /\ MonitorTypes /\ OneEach /\ StatusInv /\ lastStatus \in Statuses /\ torn \in BOOLEAN
         /\ untold \subseteq Probed /\ due \subseteq Probed
  BY DEF MonitorInv, MonitorTypes, OnProbed, MonitorTypeOK

LEMMA ListKeepsAlerts ==
  ASSUME MonitorInv, ListDueChecks
  PROVE  MonitorInv'
<1>1. Busy = {} /\ UNCHANGED <<probes, lastStatus, workers, told, gap, untold, torn>> /\ due' \subseteq Probed
  BY DEF ListDueChecks
<1>2. /\ MonitorTypes /\ OneEach /\ StatusInv /\ Busy' = {} /\ SameStatuses
      /\ OnProbed'
      /\ \A d \in Probed : /\ probes'[d] = probes[d] /\ told'[d] = told[d] /\ gap'[d] = gap[d]
                           /\ SameRow(d)
  BY <1>1, TypesOfRest, RestIsSame DEF Busy
<1>3. MonitorTypes'
  BY <1>1, <1>2 DEF MonitorTypes, OnProbed, MonitorTypeOK
<1>4. OneEach'
  BY <1>2 DEF OneEach
<1>5. StatusInv'
  BY <1>1, <1>2, StatusFrame
<1>6. ASSUME NEW c \in Probed PROVE AlertInv(c)'
  <2>1. AlertInv(c) /\ SameRow(c) /\ WorkersOf(c) = {}
    BY <1>1, <1>2 DEF MonitorInv, WorkersOf
  <2> QED BY <1>1, <1>2, <2>1, AlertFrame
<1> QED BY <1>2, <1>3, <1>4, <1>5, <1>6 DEF MonitorInv

LEMMA RunKeepsAlerts ==
  ASSUME MonitorInv, NEW w \in ProbeWorkers, NEW c \in Probed, RunWorker(w, c)
  PROVE  MonitorInv'
<1>1. /\ MonitorTypes /\ OneEach /\ StatusInv /\ w \notin Busy /\ c \in due /\ due' = due \ {c}
      /\ UNCHANGED <<probes, lastStatus, told, gap, untold, torn>>
      /\ lastStatus \in Statuses /\ torn \in BOOLEAN /\ untold \subseteq Probed
      /\ workers' = [workers EXCEPT ![w] = NewWork(c)] \/ workers' = workers
      /\ AlertInv(c)
  BY TypesOfRest DEF RunWorker, MonitorInv
<1>2. \A v \in Busy : workers[v].of # c
  BY <1>1 DEF OneEach
<1>3. /\ OnProbed'
      /\ \A d \in Probed : /\ probes'[d] = probes[d] /\ told'[d] = told[d] /\ gap'[d] = gap[d]
                           /\ probes'[d] \in Row(d)
                           /\ told'[d] \in [what : {"nothing", "down", "up"}, age : AgesOf(d)]
                           /\ SameRow(d)
      /\ SameStatuses
  BY <1>1, RestIsSame
<1>4. NewWork(c) \in Work(c) /\ NewWork(c).step = "probe" /\ NewWork(c).of = c
  BY NewWorkIs
<1>5. WorkersOf(c) = {} /\ \A v \in WorkersOf(c)' : workers'[v].step = "probe" => WorkersOf(c) = {}
  BY <1>2 DEF WorkersOf
<1>6. AlertInv(c)'
  BY <1>1, <1>3, <1>5, AlertFrame
<1>7. OthersSame(w, c) /\ StatusInv' /\ (w \in Busy' => workers'[w] \in Work(c) /\ WorkerInv(w)')
  <2>1. CASE workers' = [workers EXCEPT ![w] = NewWork(c)]
    <3>1. /\ OthersSame(w, c) /\ workers'[w] = NewWork(c)
          /\ \A v \in ProbeWorkers \ {w} : workers'[v] = workers[v]
          /\ Busy' = Busy \cup {w}
      <4>1. NewWork(c) # NoWork /\ NewWork(c) \in Work(c) \cup {NoWork}
        BY <1>4, NoWorkIs
      <4>2. RestKept(c)
        BY <1>1, <1>3 DEF RestKept
      <4>3. Becomes(w, NewWork(c))
        BY <2>1 DEF Becomes
      <4> QED BY <4>1, <4>2, <4>3, OneJobChanges
    <3>2. StatusInv'
      <4>1. \A v \in Busy : v \in Busy' /\ workers'[v] = workers[v]
        BY <1>1, <3>1, WorkersTyped
      <4>2. \A v \in Busy' : workers'[v].step = "write" => v \in Busy /\ workers'[v] = workers[v]
        BY <1>1, <1>4, <3>1, <4>1
      <4> QED BY <1>1, <1>3, <4>1, <4>2, StatusFrame
    <3>3. WorkerInv(w)'
      BY <1>4, <3>1 DEF WorkerInv
    <3> QED BY <1>4, <3>1, <3>2, <3>3
  <2>2. CASE workers' = workers
    <3>1. Busy' = Busy /\ \A v \in Busy : SameJob(v) /\ workers'[v] \in Work(workers[v].of)
      BY <1>1, <2>2, WorkersTyped DEF Busy, SameJob
    <3>2. OthersSame(w, c)
      BY <1>1, <1>3, <2>2, <3>1 DEF OthersSame, MonitorTypes, OnProbed
    <3>3. StatusInv'
      BY <1>1, <1>3, <2>2, <3>1, StatusFrame
    <3> QED BY <1>1, <3>1, <3>2, <3>3
  <2> QED BY <1>1, <2>1, <2>2
<1> QED BY <1>1, <1>2, <1>3, <1>6, <1>7, WorkerKeeps

LEMMA LoseKeepsAlerts ==
  ASSUME MonitorInv, NEW w \in ProbeWorkers, LoseResult(w)
  PROVE  MonitorInv'
<1>1. /\ MonitorTypes /\ OneEach /\ StatusInv /\ workers[w].step = "probe" /\ w \in Busy
      /\ UNCHANGED <<probes, lastStatus, due, told, gap, untold, torn>>
      /\ lastStatus \in Statuses /\ torn \in BOOLEAN /\ untold \subseteq Probed
      /\ workers' = [workers EXCEPT ![w] = NoWork]
  BY TypesOfRest, IdleWorkers DEF LoseResult
<1>2. PICK c \in Probed : /\ c = workers[w].of /\ c \notin due /\ AlertInv(c)
                          /\ \A v \in Busy \ {w} : workers[v].of # c
  BY <1>1, WorkersTyped DEF OneEach, MonitorInv
<1>3. /\ OnProbed'
      /\ \A d \in Probed : /\ probes'[d] = probes[d] /\ told'[d] = told[d] /\ gap'[d] = gap[d]
                           /\ probes'[d] \in Row(d)
                           /\ told'[d] \in [what : {"nothing", "down", "up"}, age : AgesOf(d)]
                           /\ SameRow(d)
      /\ SameStatuses
  BY <1>1, RestIsSame
<1>4. OthersSame(w, c) /\ Busy' = Busy \ {w} /\ \A v \in ProbeWorkers \ {w} : workers'[v] = workers[v]
  <2>1. RestKept(c) /\ Becomes(w, NoWork) /\ NoWork \in Work(c) \cup {NoWork}
    BY <1>1, <1>3 DEF RestKept, Becomes
  <2> QED BY <2>1, OneJobChanges
<1>5. \A v \in WorkersOf(c) : workers[v].step = "probe"
  BY <1>1, <1>2 DEF WorkersOf
<1>6. AlertInv(c)'
  BY <1>1, <1>2, <1>3, <1>5, AlertFrame
<1>7. StatusInv'
  BY <1>1, <1>3, <1>4, StatusFrame DEF Busy
<1> QED BY <1>1, <1>2, <1>3, <1>4, <1>6, <1>7, WorkerKeeps

LEMMA Recounts ==
  ASSUME NEW c \in Probed, MonitorTypes, NEW found \in {"up", "down"}
  PROVE  /\ Counted(c, found) \in 0..Threshold(c)
         /\ found = "up" => Counted(c, found) = 0
         /\ found = "down" /\ probes[c].fails >= Threshold(c) => Counted(c, found) >= Threshold(c)
<1>1. probes[c].fails \in Nat /\ probes[c].fails <= Threshold(c) /\ Threshold(c) \in Nat \ {0}
  BY RowsTyped, RowTypes, Thresholds
<1> QED BY <1>1 DEF Counted

LEMMA RecordKeepsAlerts ==
  ASSUME MonitorInv, NEW w \in ProbeWorkers, NEW found \in {"up", "down"}, RecordCheckResult(w, found)
  PROVE  MonitorInv'
<1>1. /\ MonitorTypes /\ OneEach /\ StatusInv /\ workers[w].step = "probe" /\ w \in Busy
      /\ UNCHANGED <<lastStatus, due, told, gap, untold, torn>>
      /\ lastStatus \in Statuses /\ torn \in BOOLEAN /\ untold \subseteq Probed
  BY TypesOfRest, IdleWorkers DEF RecordCheckResult
<1>2. PICK c \in Probed : /\ c = workers[w].of /\ c \notin due /\ AlertInv(c)
                          /\ \A v \in Busy \ {w} : workers[v].of # c
                          /\ workers[w] \in Work(c)
  BY <1>1, WorkersTyped DEF OneEach, MonitorInv
<1>3. probes[c].is # "absent" /\ probes[c] \in Row(c)
  BY <1>1, <1>2, RowsTyped DEF RecordCheckResult
<1>4. PICK row \in Row(c), next \in {"read", "decide"} :
        /\ row.is = probes[c].is /\ row.last = found /\ row.fails = Counted(c, found)
        /\ row.alertActive = probes[c].alertActive /\ row.sent = probes[c].sent
        /\ probes' = [probes EXCEPT ![c] = row]
        /\ workers' = [workers EXCEPT ![w].step = next, ![w].row = row]
        /\ next = IF c \in Checks THEN "read" ELSE "decide"
  <2> DEFINE ofAge == workers[w].age = 0
  <2>1. PICK recent \in BOOLEAN, fails \in 0..Threshold(c) : recent = ofAge /\ fails = Counted(c, found)
    BY <1>1, Recounts
  <2>2. PICK row : row = [probes[c] EXCEPT !.last = found, !.fails = fails, !.checked = recent]
    OBVIOUS
  <2>3. /\ row \in Row(c) /\ row.is = probes[c].is /\ row.last = found /\ row.fails = fails
        /\ row.alertActive = probes[c].alertActive /\ row.sent = probes[c].sent
    BY <1>3, <2>2 DEF Row
  <2>4. PICK next \in {"read", "decide"} : next = IF c \in Checks THEN "read" ELSE "decide"
    OBVIOUS
  <2>5. /\ probes' = [probes EXCEPT ![c] = row]
        /\ workers' = [workers EXCEPT ![w].step = next, ![w].row = row]
    BY <1>2, <2>1, <2>2, <2>4 DEF RecordCheckResult
  <2> QED BY <2>1, <2>3, <2>4, <2>5
<1>5. PICK k \in Work(c) : workers' = [workers EXCEPT ![w] = k] /\ k.step = next /\ k.row = row
  <2>1. PICK k : k = [workers[w] EXCEPT !.step = next, !.row = row]
    OBVIOUS
  <2>2. k \in Work(c) /\ k.step = next /\ k.row = row
    <3>1. PICK z \in Work(c) : z = workers[w]
      BY <1>2
    <3>2. next \in {"probe", "read", "write", "decide", "mark", "clear"} /\ row \in Row(c)
      BY <1>4
    <3> QED BY ONLY <3>1, <3>2, <2>1 DEF Work
  <2>3. workers' = [workers EXCEPT ![w] = k]
    BY <1>4, <2>1
  <2> QED BY <2>2, <2>3
<1>6. /\ probes' = [d \in Probed |-> probes'[d]] /\ probes'[c] = row
      /\ \A d \in Probed \ {c} : probes'[d] = probes[d]
      /\ told' = [d \in Probed |-> told'[d]] /\ gap' = [d \in Probed |-> gap'[d]]
      /\ told'[c] \in [what : {"nothing", "down", "up"}, age : AgesOf(c)]
  BY <1>1, <1>4, RowsTyped DEF MonitorTypes, OnProbed
<1>7. /\ OthersSame(w, c) /\ workers'[w] = k
      /\ \A v \in ProbeWorkers \ {w} : workers'[v] = workers[v]
      /\ Busy' = Busy \cup {w}
  <2>1. RestKept(c)
    BY <1>1, <1>6 DEF RestKept, OnProbed
  <2>2. k # NoWork /\ k \in Work(c) \cup {NoWork} /\ Becomes(w, k)
    BY <1>5, NoWorkIs DEF Becomes
  <2> QED BY <2>1, <2>2, OneJobChanges
<1>8. k.of = c /\ w \in WorkersOf(c)' /\ workers'[w].step # "probe"
  BY <1>5, <1>7, WorkTypes DEF WorkersOf
<1>9. AlertInv(c)'
  <2>1. probes'[c].last # "down" => probes'[c].fails = 0
    BY <1>1, <1>4, <1>6, Recounts
  <2> QED BY <1>1, <1>2, <1>8, <2>1 DEF AlertInv
<1>10. WorkerInv(w)'
  <2>1. \A v \in WorkersOf(c) : workers[v].step = "probe"
    BY <1>1, <1>2 DEF WorkersOf
  <2>2. c \notin untold => /\ probes[c].alertActive <=> probes[c].fails >= Threshold(c)
                           /\ Remembers(c, probes[c])
    BY <1>2, <1>3, <2>1 DEF AlertInv
  <2>3. Remembers(c, probes[c]) => Remembers(c, row)'
    BY <1>1, <1>4, Zenon DEF Remembers
  <2>4. c \notin untold /\ row.alertActive /\ row.last = "down" => row.fails >= Threshold(c)
    BY <1>1, <1>4, <2>2, Recounts
  <2>5. row.last = "up" => row.fails = 0
    BY <1>1, <1>4, Recounts
  <2> QED BY <1>1, <1>4, <1>5, <1>6, <1>7, <1>8, <2>2, <2>3, <2>4, <2>5 DEF WorkerInv
<1>11. StatusInv'
  <2>1. CASE c \in Checks
    <3>1. w \in Busy' /\ workers'[w].step = "read"
      BY <1>4, <1>5, <1>7, <2>1
    <3> QED BY <3>1 DEF StatusInv, StatusIsRolledUp
  <2>2. CASE c \notin Checks
    <3>1. SameStatuses
      BY <1>6, <2>2 DEF SameStatuses, Probed
    <3>2. workers'[w].step = "decide"
      BY <1>4, <1>5, <1>7, <2>2
    <3>3. \A v \in Busy \ {w} : v \in Busy' /\ workers'[v] = workers[v]
      BY <1>1, <1>7, WorkersTyped
    <3>4. \A v \in Busy' \ {w} : v \in Busy /\ workers'[v] = workers[v]
      BY <1>7, <3>3
    <3> QED BY <1>1, <3>1, <3>2, <3>3, <3>4, StatusFrame
  <2> QED BY <2>1, <2>2
<1>12. /\ probes'[c] \in Row(c) /\ due' \subseteq due /\ c \notin due' /\ lastStatus' \in Statuses
       /\ torn' \in BOOLEAN /\ workers'[w] \in Work(c) /\ (w \in Busy => workers[w].of = c)
  BY <1>1, <1>2, <1>4, <1>5, <1>6, <1>7
<1> QED BY <1>2, <1>6, <1>7, <1>9, <1>10, <1>11, <1>12, WorkerKeeps

(* A worker that has recorded its result goes on with the row it recorded.               *)
LEMMA WorkerGoesOn ==
  ASSUME NEW w, WorkerInv(w), workers[w].step \in {"read", "write", "decide"},
         workers'[w].step \in {"read", "write", "decide"},
         workers'[w].of = workers[w].of, workers'[w].row = workers[w].row,
         SameRow(workers[w].of), told'[workers[w].of] = told[workers[w].of],
         workers[w].of \in untold => workers[w].of \in untold'
  PROVE  WorkerInv(w)'
<1> DEFINE c == workers[w].of
<1>1. Remembers(c, workers[w].row) => Remembers(workers[w].of, workers[w].row)'
  BY Zenon DEF Remembers
<1>2. /\ probes'[c].is = probes[c].is /\ probes'[c].last = probes[c].last
      /\ probes'[c].fails = probes[c].fails /\ probes'[c].alertActive = probes[c].alertActive
      /\ probes'[c].sent = probes[c].sent
  BY DEF SameRow
<1> QED BY <1>1, <1>2 DEF WorkerInv

LEMMA ReadKeepsAlerts ==
  ASSUME MonitorInv, NEW w \in ProbeWorkers, ReadStatuses(w)
  PROVE  MonitorInv'
<1>1. /\ MonitorTypes /\ OneEach /\ StatusInv /\ workers[w].step = "read" /\ w \in Busy
      /\ UNCHANGED <<probes, lastStatus, due, told, gap, untold>>
      /\ lastStatus \in Statuses /\ torn \in BOOLEAN /\ untold \subseteq Probed
  BY TypesOfRest, IdleWorkers DEF ReadStatuses
<1>2. PICK c \in Probed : /\ c = workers[w].of /\ c \notin due /\ AlertInv(c) /\ WorkerInv(w)
                          /\ \A v \in Busy \ {w} : workers[v].of # c
                          /\ workers[w] \in Work(c)
  BY <1>1, WorkersTyped DEF OneEach, MonitorInv
<1>3. /\ OnProbed' /\ SameStatuses
      /\ \A d \in Probed : /\ probes'[d] = probes[d] /\ told'[d] = told[d] /\ gap'[d] = gap[d]
                           /\ probes'[d] \in Row(d)
                           /\ told'[d] \in [what : {"nothing", "down", "up"}, age : AgesOf(d)]
                           /\ SameRow(d)
  BY <1>1, RestIsSame
<1>4. Torn(workers)[w] = workers[w] /\ RolledUp \in Statuses
  BY <1>1, TornIs DEF RolledUp, Statuses
<1>5. PICK k \in Work(c) :
        /\ workers' = [Torn(workers) EXCEPT ![w] = k]
        /\ k.step \in {"write", "decide"} /\ k.row = workers[w].row
        /\ k.step = "write" => k.rolled = RolledUp /\ torn' = torn
        /\ k.step = "decide" => torn' = TRUE
  <2>1. CASE workers' = [Torn(workers) EXCEPT ![w].step = "write", ![w].rolled = RolledUp] /\ UNCHANGED torn
    <3>1. PICK z \in Work(c), rolled \in Statuses : z = workers[w] /\ rolled = RolledUp
      BY <1>2, <1>4
    <3>2. PICK k : k = [z EXCEPT !.step = "write", !.rolled = rolled]
      OBVIOUS
    <3>3. k \in Work(c) /\ k.step = "write" /\ k.rolled = rolled /\ k.row = z.row
      BY ONLY <3>1, <3>2 DEF Work
    <3>4. workers' = [Torn(workers) EXCEPT ![w] = k]
      BY <1>4, <2>1, <3>1, <3>2
    <3> QED BY <2>1, <3>1, <3>3, <3>4
  <2>2. CASE workers' = [Torn(workers) EXCEPT ![w].step = "decide"] /\ torn' = TRUE
    <3>1. PICK z \in Work(c) : z = workers[w]
      BY <1>2
    <3>2. PICK k : k = [z EXCEPT !.step = "decide"]
      OBVIOUS
    <3>3. k \in Work(c) /\ k.step = "decide" /\ k.row = z.row
      BY ONLY <3>1, <3>2 DEF Work
    <3>4. workers' = [Torn(workers) EXCEPT ![w] = k]
      BY <1>4, <2>2, <3>1, <3>2
    <3> QED BY <2>2, <3>1, <3>3, <3>4
  <2> QED BY <2>1, <2>2 DEF ReadStatuses
<1>6. /\ OthersSame(w, c) /\ workers'[w] = k /\ Busy' = Busy
      /\ \A v \in Busy \ {w} : /\ workers'[v].step = workers[v].step
                               /\ workers'[v].step = "write" => ~workers'[v].whole
  <2>1. TornBecomes(w, k) /\ RowsKept
    BY <1>1, <1>3, <1>5 DEF TornBecomes, RowsKept
  <2> QED BY <1>1, <2>1, TornJobChanges
<1>7. k.of = c /\ w \in WorkersOf(c)' /\ workers'[w].step # "probe"
  BY <1>1, <1>5, <1>6, WorkTypes DEF WorkersOf
<1>8. AlertInv(c)'
  BY <1>1, <1>2, <1>3, <1>7, AlertFrame
<1>9. WorkerInv(w)'
  <2>1. SameRow(workers[w].of) /\ told'[workers[w].of] = told[workers[w].of]
    BY <1>2, <1>3
  <2> QED BY <1>1, <1>2, <1>5, <1>6, <1>7, <2>1, WorkerGoesOn
<1>10. StatusInv'
  <2>1. RolledUp' = RolledUp
    BY <1>3, RolledFrame
  <2>2. StatusIsRolledUp'
    BY <1>1, <1>5, <1>6 DEF StatusIsRolledUp
  <2>3. ASSUME NEW v \in Busy', workers'[v].step = "write", workers'[v].whole PROVE workers'[v].rolled = RolledUp'
    <3>1. v = w
      BY <1>6, <2>3
    <3> QED BY <1>5, <1>6, <2>1, <2>3, <3>1
  <2> QED BY <2>2, <2>3 DEF StatusInv
<1>11. /\ probes'[c] \in Row(c) /\ due' \subseteq due /\ c \notin due' /\ lastStatus' \in Statuses
       /\ torn' \in BOOLEAN /\ workers'[w] \in Work(c) /\ (w \in Busy => workers[w].of = c)
       /\ told'[c] \in [what : {"nothing", "down", "up"}, age : AgesOf(c)]
  BY <1>1, <1>2, <1>3, <1>5, <1>6
<1> QED BY <1>2, <1>6, <1>8, <1>9, <1>10, <1>11, WorkerKeeps

LEMMA UpdateKeepsAlerts ==
  ASSUME MonitorInv, NEW w \in ProbeWorkers, UpdateVPSStatusSnapshot(w)
  PROVE  MonitorInv'
<1>1. /\ MonitorTypes /\ OneEach /\ StatusInv /\ workers[w].step = "write" /\ w \in Busy
      /\ UNCHANGED <<probes, due, told, gap, untold>>
      /\ lastStatus \in Statuses /\ torn \in BOOLEAN /\ untold \subseteq Probed
  BY TypesOfRest, IdleWorkers DEF UpdateVPSStatusSnapshot
<1>2. PICK c \in Probed : /\ c = workers[w].of /\ c \notin due /\ AlertInv(c) /\ WorkerInv(w)
                          /\ \A v \in Busy \ {w} : workers[v].of # c
                          /\ workers[w] \in Work(c)
  BY <1>1, WorkersTyped DEF OneEach, MonitorInv
<1>3. /\ OnProbed' /\ SameStatuses
      /\ \A d \in Probed : /\ probes'[d] = probes[d] /\ told'[d] = told[d] /\ gap'[d] = gap[d]
                           /\ probes'[d] \in Row(d)
                           /\ told'[d] \in [what : {"nothing", "down", "up"}, age : AgesOf(d)]
                           /\ SameRow(d)
  BY <1>1, RestIsSame
<1>4. /\ Torn(workers)[w] \in Work(c) /\ Torn(workers)[w].row = workers[w].row
      /\ workers[w].rolled \in Statuses /\ workers[w].whole \in BOOLEAN
  BY <1>1, <1>2, TornIs, WorkTypes
<1>5. ASSUME NEW z \in Work(c)
      PROVE  LET k == [z EXCEPT !.step = "decide", !.rolled = "unknown", !.whole = TRUE]
             IN  k \in Work(c) /\ k.step = "decide" /\ k.row = z.row
  <2>1. PICK decide, unknown, yes : decide = "decide" /\ unknown = "unknown" /\ yes = TRUE
    OBVIOUS
  <2>2. decide \in {"probe", "read", "write", "decide", "mark", "clear"} /\ unknown \in Statuses
    BY <2>1 DEF Statuses
  <2>3. yes \in BOOLEAN
    BY <2>1, Zenon
  <2>4. PICK k : k = [z EXCEPT !.step = decide, !.rolled = unknown, !.whole = yes]
    OBVIOUS
  <2>5. k \in Work(c) /\ k.step = decide /\ k.row = z.row
    BY ONLY z \in Work(c), <2>2, <2>3, <2>4 DEF Work
  <2> QED BY <2>1, <2>4, <2>5, Zenon
<1>6. PICK k \in Work(c) :
        /\ k.step = "decide" /\ k.row = workers[w].row
        /\ \/ /\ workers' = [workers EXCEPT ![w] = k]
              /\ lastStatus' = workers[w].rolled /\ torn' = ~workers[w].whole
           \/ /\ workers' = [Torn(workers) EXCEPT ![w] = k]
              /\ torn' = TRUE /\ lastStatus' = lastStatus
  <2>1. CASE /\ lastStatus' = workers[w].rolled /\ torn' = ~workers[w].whole
             /\ workers' = Refreshed(w, workers)
    <3>1. PICK k : k = [workers[w] EXCEPT !.step = "decide", !.rolled = "unknown", !.whole = TRUE]
      OBVIOUS
    <3>2. k \in Work(c) /\ k.step = "decide" /\ k.row = workers[w].row
      BY <1>2, <1>5, <3>1
    <3>3. workers' = [workers EXCEPT ![w] = k]
      BY <2>1, <3>1 DEF Refreshed
    <3> QED BY <2>1, <3>2, <3>3
  <2>2. CASE workers' = Refreshed(w, Torn(workers)) /\ torn' = TRUE /\ UNCHANGED lastStatus
    <3>1. PICK k : k = [Torn(workers)[w] EXCEPT !.step = "decide", !.rolled = "unknown", !.whole = TRUE]
      OBVIOUS
    <3>2. k \in Work(c) /\ k.step = "decide" /\ k.row = workers[w].row
      BY <1>4, <1>5, <3>1
    <3>3. workers' = [Torn(workers) EXCEPT ![w] = k]
      BY <2>2, <3>1 DEF Refreshed
    <3> QED BY <2>2, <3>2, <3>3
  <2> QED BY <2>1, <2>2 DEF UpdateVPSStatusSnapshot
<1>7. /\ OthersSame(w, c) /\ workers'[w] = k /\ Busy' = Busy
      /\ \A v \in Busy \ {w} : workers'[v].step = workers[v].step
  <2>1. CASE workers' = [workers EXCEPT ![w] = k]
    <3>1. RestKept(c) /\ Becomes(w, k) /\ k \in Work(c) \cup {NoWork} /\ k # NoWork
      BY <1>1, <1>3, <1>6, <2>1, NoWorkIs DEF RestKept, Becomes
    <3>2. /\ OthersSame(w, c) /\ workers'[w] = k
          /\ \A v \in ProbeWorkers \ {w} : workers'[v] = workers[v]
          /\ Busy' = Busy \cup {w}
      BY <3>1, OneJobChanges
    <3> QED BY <1>1, <3>2, WorkersTyped
  <2>2. CASE workers' = [Torn(workers) EXCEPT ![w] = k]
    <3>1. TornBecomes(w, k) /\ RowsKept
      BY <1>1, <1>3, <2>2 DEF TornBecomes, RowsKept
    <3> QED BY <1>1, <3>1, TornJobChanges
  <2> QED BY <1>6, <2>1, <2>2
<1>8. k.of = c /\ w \in WorkersOf(c)' /\ workers'[w].step # "probe"
  BY <1>1, <1>6, <1>7, WorkTypes DEF WorkersOf
<1>9. AlertInv(c)'
  BY <1>1, <1>2, <1>3, <1>8, AlertFrame
<1>10. WorkerInv(w)'
  <2>1. SameRow(workers[w].of) /\ told'[workers[w].of] = told[workers[w].of]
    BY <1>2, <1>3
  <2> QED BY <1>1, <1>2, <1>6, <1>7, <1>8, <2>1, WorkerGoesOn
<1>11. StatusInv'
  <2>1. RolledUp' = RolledUp
    BY <1>3, RolledFrame
  <2>2. CASE /\ workers' = [workers EXCEPT ![w] = k]
             /\ lastStatus' = workers[w].rolled /\ torn' = ~workers[w].whole
    <3>1. ASSUME NEW v \in Busy, workers[v].step = "write", workers[v].whole
          PROVE  workers[v].rolled = RolledUp' \/ \E u \in Busy' : workers'[u].step = "read"
      <4>1. workers[v].rolled = RolledUp \/ \E u \in Busy : workers[u].step = "read"
        BY <1>1, <3>1 DEF StatusInv
      <4> QED BY <1>1, <1>7, <2>1, <4>1
    <3>2. StatusIsRolledUp'
      BY <1>1, <1>4, <2>1, <2>2, <3>1 DEF StatusIsRolledUp
    <3>3. ASSUME NEW v \in Busy', workers'[v].step = "write"
          PROVE  v \in Busy /\ workers'[v] = workers[v]
      <4>1. v \in Busy /\ v # w /\ v \in ProbeWorkers
        BY <1>1, <1>6, <1>7, <3>3, WorkersTyped
      <4> QED BY <1>1, <2>2, <4>1 DEF MonitorTypes
    <3> QED BY <3>1, <3>2, <3>3 DEF StatusInv
  <2>3. CASE workers' = [Torn(workers) EXCEPT ![w] = k] /\ torn' = TRUE
    <3>1. ASSUME NEW v \in Busy', workers'[v].step = "write" PROVE ~workers'[v].whole
      <4>1. TornBecomes(w, k) /\ RowsKept
        BY <1>1, <1>3, <2>3 DEF TornBecomes, RowsKept
      <4>2. v \in Busy \ {w}
        BY <1>6, <1>7, <3>1
      <4> QED BY <1>1, <3>1, <4>1, <4>2, TornJobChanges
    <3> QED BY <2>3, <3>1 DEF StatusInv, StatusIsRolledUp
  <2> QED BY <1>6, <2>2, <2>3
<1>12. /\ probes'[c] \in Row(c) /\ due' \subseteq due /\ c \notin due' /\ lastStatus' \in Statuses
       /\ torn' \in BOOLEAN /\ workers'[w] \in Work(c) /\ (w \in Busy => workers[w].of = c)
       /\ told'[c] \in [what : {"nothing", "down", "up"}, age : AgesOf(c)]
  BY <1>1, <1>2, <1>3, <1>4, <1>6, <1>7
<1> QED BY <1>2, <1>7, <1>9, <1>10, <1>11, <1>12, WorkerKeeps

-----------------------------------------------------------------------------
(* Messages *)

(* A worker that has nothing to tell leaves the row as people know it.                    *)
LEMMA QuietIsSettled ==
  ASSUME MonitorTypes, NEW w \in Busy, WorkerInv(w), workers[w].step \in {"read", "write", "decide"},
         NEW c \in Probed, c = workers[w].of, c \notin untold, probes[c].is # "absent",
         ~AlertDue(c, workers[w].row, workers[w].age), ~RecoveryDue(workers[w].row)
  PROVE  /\ probes[c].alertActive <=> probes[c].fails >= Threshold(c)
         /\ Remembers(c, probes[c])
<1> DEFINE row == workers[w].row
<1>1. /\ row.last # "unknown" /\ (row.last = "up" => row.fails = 0)
      /\ row.alertActive /\ row.last = "down" => row.fails >= Threshold(c)
      /\ Remembers(c, row)
      /\ probes[c].last = row.last /\ probes[c].fails = row.fails
      /\ probes[c].alertActive = row.alertActive /\ probes[c].sent = row.sent
  BY DEF WorkerInv
<1>2. row \in Row(c)
  BY WorkersTyped, WorkTypes
<1>3. row.last \in {"unknown", "up", "down"} /\ Threshold(c) \in Nat \ {0}
  BY <1>2, RowTypes, Thresholds
<1>4. Remembers(c, probes[c])
  BY <1>1, Zenon DEF Remembers
<1>5. row.alertActive => row.last = "down"
  BY <1>1, <1>3 DEF RecoveryDue
<1>6. row.fails >= Threshold(c) => row.last = "down"
  BY <1>1, <1>3
<1>7. row.fails >= Threshold(c) => row.alertActive
  BY <1>6 DEF AlertDue, IsDown
<1>8. row.alertActive <=> row.fails >= Threshold(c)
  BY <1>1, <1>5, <1>7
<1> QED BY <1>1, <1>4, <1>8

LEMMA DecideKeepsAlerts ==
  ASSUME MonitorInv, NEW w \in ProbeWorkers, DecideAlert(w)
  PROVE  MonitorInv'
<1>1. /\ MonitorTypes /\ OneEach /\ StatusInv /\ workers[w].step = "decide" /\ w \in Busy
      /\ UNCHANGED <<probes, lastStatus, due, torn>>
      /\ lastStatus \in Statuses /\ torn \in BOOLEAN /\ untold \subseteq Probed
  BY TypesOfRest, IdleWorkers DEF DecideAlert, Dispatch
<1>2. PICK c \in Probed : /\ c = workers[w].of /\ c \notin due /\ AlertInv(c) /\ WorkerInv(w)
                          /\ \A v \in Busy \ {w} : workers[v].of # c
                          /\ workers[w] \in Work(c)
  BY <1>1, WorkersTyped DEF OneEach, MonitorInv
<1>3. PICK row \in Row(c), age \in Nat : row = workers[w].row /\ age = workers[w].age /\ age <= MaxAge
  BY <1>2, WorkTypes
<1>4. probes' = probes /\ SameStatuses /\ SameRow(c) /\ probes'[c] \in Row(c)
  BY <1>1, <1>2, RowsTyped DEF SameRow, SameStatuses
<1>5. ASSUME NEW k \in Work(c) \cup {NoWork}, Becomes(w, k), RestKept(c),
             k # NoWork => k.step \in {"mark", "clear"} /\ WorkerInv(w)',
             told'[c] \in [what : {"nothing", "down", "up"}, age : AgesOf(c)],
             AlertInv(c)'
      PROVE  MonitorInv'
  <2>1. /\ OthersSame(w, c) /\ workers'[w] = k
        /\ \A v \in ProbeWorkers \ {w} : workers'[v] = workers[v]
        /\ k = NoWork => Busy' = Busy \ {w}
        /\ k # NoWork => Busy' = Busy \cup {w}
    BY <1>5, OneJobChanges
  <2>2. w \in Busy' => k # NoWork /\ k \in Work(c)
    BY <1>5, <2>1
  <2>3. StatusInv'
    <3>1. \A v \in Busy : workers[v].step \in {"read", "write"} => v \in Busy' /\ workers'[v] = workers[v]
      BY <1>1, <2>1, WorkersTyped
    <3>2. \A v \in Busy' : workers'[v].step = "write" => v \in Busy /\ workers'[v] = workers[v]
      BY <1>1, <1>5, <2>1, <2>2, WorkersTyped
    <3> QED BY <1>1, <1>4, <3>1, <3>2, StatusFrame
  <2>4. /\ due' \subseteq due /\ c \notin due' /\ lastStatus' \in Statuses /\ torn' \in BOOLEAN
        /\ w \in Busy' => workers'[w] \in Work(c) /\ WorkerInv(w)'
        /\ w \in Busy => workers[w].of = c
    BY <1>1, <1>2, <1>5, <2>1, <2>2
  <2> QED BY <1>2, <1>4, <1>5, <2>1, <2>3, <2>4, WorkerKeeps
<1>6. ASSUME NEW what \in {"down", "up"}, NEW next \in {"mark", "clear"},
             next = "mark" <=> what = "down",
             next = "mark" => AlertDue(c, row, age), next = "clear" => RecoveryDue(row),
             Dispatch(w, c, what, next)
      PROVE  MonitorInv'
  <2>1. PICK reached \in BOOLEAN :
          /\ workers' = [workers EXCEPT ![w].step = next, ![w].reached = reached]
          /\ told' = IF reached THEN [told EXCEPT ![c] = [what |-> what, age |-> age]] ELSE told
          /\ untold' = IF reached THEN untold ELSE untold \cup {c}
    BY <1>3, <1>6 DEF Dispatch
  <2>2. PICK k \in Work(c) : /\ workers' = [workers EXCEPT ![w] = k] /\ k.step = next /\ k.row = row
                             /\ k.reached = reached /\ k.age = age
    <3>1. PICK z \in Work(c) : z = workers[w]
      BY <1>2
    <3>2. PICK k : k = [z EXCEPT !.step = next, !.reached = reached]
      OBVIOUS
    <3>3. next \in {"probe", "read", "write", "decide", "mark", "clear"} /\ reached \in BOOLEAN
      BY <1>6, <2>1
    <3>4. k \in Work(c) /\ k.step = next /\ k.row = z.row /\ k.reached = reached /\ k.age = z.age
      BY ONLY <3>1, <3>2, <3>3 DEF Work
    <3>5. workers' = [workers EXCEPT ![w] = k]
      BY <2>1, <3>1, <3>2
    <3> QED BY <1>3, <3>1, <3>4, <3>5
  <2>3. PICK word \in [what : {"nothing", "down", "up"}, age : AgesOf(c)] :
          word = [what |-> what, age |-> age] /\ word.what = what /\ word.age = age
    <3>1. age \in AgesOf(c) /\ what \in {"nothing", "down", "up"}
      BY <1>3, <1>6, Thresholds DEF AgesOf
    <3>2. PICK word : word = [what |-> what, age |-> age]
      OBVIOUS
    <3>3. word.what = what /\ word.age = age /\ word \in [what : {"nothing", "down", "up"}, age : AgesOf(c)]
      BY <3>1, <3>2
    <3> QED BY <3>2, <3>3
  <2>4. /\ told' = [d \in Probed |-> told'[d]] /\ untold' \subseteq Probed
        /\ \A d \in Probed \ {c} : told'[d] = told[d] /\ (d \in untold => d \in untold')
        /\ reached => told'[c] = word
        /\ ~reached => told'[c] = told[c] /\ c \in untold'
    BY <1>1, <2>1, <2>3 DEF MonitorTypes, OnProbed
  <2>5. gap' = [d \in Probed |-> gap'[d]] /\ \A d \in Probed \ {c} : gap'[d] = gap[d]
    BY <1>1, <1>6 DEF Dispatch, MonitorTypes, OnProbed
  <2>6. gap'[c] = Cooldown(c)
    <3>1. gap'[c] = IF what = "down" /\ told[c].what = "down" /\ c \notin untold
                    THEN Least(gap[c], told[c].age - age) ELSE gap[c]
      BY <1>1, <1>3, <1>6 DEF Dispatch, MonitorTypes, OnProbed
    <3>2. gap[c] = Cooldown(c) /\ Cooldown(c) \in Nat /\ told[c].age \in Nat
      BY <1>1, <1>2, Thresholds, RowsTyped DEF AlertInv
    <3>3. CASE what = "down" /\ told[c].what = "down" /\ c \notin untold
      <4>1. row.alertActive /\ row.sent = told[c].age
        BY <1>1, <1>2, <1>3, <3>3 DEF WorkerInv, Remembers
      <4>2. told[c].age - age >= Cooldown(c)
        BY <1>6, <3>3, <4>1 DEF AlertDue, CooldownExpired
      <4> QED BY <1>3, <3>1, <3>2, <3>3, <4>2 DEF Least
    <3> QED BY <3>1, <3>2, <3>3
  <2>7. Becomes(w, k) /\ RestKept(c) /\ k \in Work(c) \cup {NoWork} /\ k # NoWork
    <3>1. OnProbed'
      BY <1>1, <1>4, <2>4, <2>5 DEF OnProbed, MonitorTypes
    <3> QED BY <1>4, <1>6, <2>2, <2>4, <2>5, <3>1, NoWorkIs DEF Becomes, RestKept
  <2>8. told'[c] \in [what : {"nothing", "down", "up"}, age : AgesOf(c)]
    BY <1>1, <2>3, <2>4, RowsTyped
  <2>9. k.of = c /\ workers'[w] = k /\ w \in Busy'
    BY <1>1, <2>2, <2>7, OneJobChanges, WorkTypes
  <2>10. AlertInv(c)'
    <3>1. w \in WorkersOf(c)' /\ workers'[w].step # "probe"
      BY <1>6, <2>2, <2>9 DEF WorkersOf
    <3> QED BY <1>2, <1>4, <2>6, <3>1 DEF AlertInv, SameRow
  <2>11. WorkerInv(w)'
    <3>1. /\ row.last = "up" => row.fails = 0
          /\ probes[c].is # "absent" =>
               /\ probes[c].last = row.last /\ probes[c].fails = row.fails
               /\ probes[c].alertActive = row.alertActive /\ probes[c].sent = row.sent
      BY <1>1, <1>2, <1>3 DEF WorkerInv
    <3>2. /\ next = "mark" => IsDown(c, row) /\ what = "down"
          /\ next = "clear" => row.last = "up" /\ what = "up"
      BY <1>6 DEF AlertDue, RecoveryDue
    <3> QED BY <1>4, <1>6, <2>2, <2>3, <2>4, <2>9, <3>1, <3>2 DEF WorkerInv, IsDown
  <2> QED BY <1>5, <2>2, <2>6, <2>7, <2>8, <2>10, <2>11, <1>6
<1>7. CASE /\ ~AlertDue(c, row, age) /\ ~RecoveryDue(row)
           /\ workers' = [workers EXCEPT ![w] = NoWork]
           /\ UNCHANGED <<told, gap, untold>>
  <2>1. Becomes(w, NoWork) /\ RestKept(c) /\ NoWork \in Work(c) \cup {NoWork}
    BY <1>1, <1>4, <1>7 DEF Becomes, RestKept, MonitorTypes, OnProbed
  <2>2. told'[c] \in [what : {"nothing", "down", "up"}, age : AgesOf(c)]
    BY <1>1, <1>7, RowsTyped
  <2>3. AlertInv(c)'
    <3>1. c \notin untold /\ probes[c].is # "absent" =>
             /\ probes[c].alertActive <=> probes[c].fails >= Threshold(c)
             /\ Remembers(c, probes[c])
      BY <1>1, <1>2, <1>3, <1>7, QuietIsSettled
    <3>2. Remembers(c, probes[c]) => Remembers(c, probes[c])'
      BY <1>4, <1>7, Zenon DEF Remembers
    <3> QED BY <1>2, <1>4, <1>7, <3>1, <3>2 DEF AlertInv
  <2> QED BY <1>5, <2>1, <2>2, <2>3
<1> QED BY <1>2, <1>3, <1>6, <1>7 DEF DecideAlert

LEMMA MarkedIs ==
  ASSUME NEW c \in Probed, NEW row \in Row(c), NEW age \in AgesOf(c)
  PROVE  /\ AlertMarked(row, age) \in Row(c)
         /\ AlertMarked(row, age).is = row.is /\ AlertMarked(row, age).last = row.last
         /\ AlertMarked(row, age).fails = row.fails
         /\ AlertMarked(row, age).alertActive /\ AlertMarked(row, age).sent = age
<1>1. PICK yes, y : yes = TRUE /\ y = [row EXCEPT !.alertActive = yes, !.sent = age]
  OBVIOUS
<1>2. yes \in BOOLEAN
  BY <1>1, Zenon
<1>3. /\ y \in Row(c) /\ y.is = row.is /\ y.last = row.last /\ y.fails = row.fails
      /\ y.alertActive = yes /\ y.sent = age
  BY ONLY row \in Row(c), age \in AgesOf(c), <1>1, <1>2 DEF Row
<1>4. y = AlertMarked(row, age)
  BY <1>1, Zenon DEF AlertMarked
<1> QED BY <1>1, <1>3, <1>4, Zenon

LEMMA ClearedIs ==
  ASSUME NEW c \in Probed, NEW row \in Row(c)
  PROVE  /\ AlertCleared(c, row) \in Row(c)
         /\ AlertCleared(c, row).is = row.is /\ AlertCleared(c, row).last = row.last
         /\ AlertCleared(c, row).fails = row.fails /\ ~AlertCleared(c, row).alertActive
<1>1. LongAgo(c) \in AgesOf(c) /\ row.sent \in AgesOf(c)
  BY Thresholds DEF AgesOf, Row
<1>2. PICK sent \in AgesOf(c) : sent = IF c \in Domains THEN LongAgo(c) ELSE row.sent
  BY <1>1
<1>3. PICK no, y : no = FALSE /\ y = [row EXCEPT !.alertActive = no, !.sent = sent]
  OBVIOUS
<1>4. no \in BOOLEAN
  BY <1>3, Zenon
<1>5. /\ y \in Row(c) /\ y.is = row.is /\ y.last = row.last /\ y.fails = row.fails
      /\ y.alertActive = no
  BY ONLY row \in Row(c), sent \in AgesOf(c), <1>3, <1>4 DEF Row
<1>6. y = AlertCleared(c, row)
  BY <1>2, <1>3, Zenon DEF AlertCleared
<1> QED BY <1>3, <1>5, <1>6, Zenon

LEMMA StoreKeepsAlerts ==
  ASSUME MonitorInv, NEW w \in ProbeWorkers, StoreAlert(w)
  PROVE  MonitorInv'
<1>1. /\ MonitorTypes /\ OneEach /\ StatusInv /\ workers[w].step \in {"mark", "clear"} /\ w \in Busy
      /\ UNCHANGED <<lastStatus, due, told, gap, torn>>
      /\ workers' = [workers EXCEPT ![w] = NoWork]
      /\ lastStatus \in Statuses /\ torn \in BOOLEAN /\ untold \subseteq Probed
  BY TypesOfRest, IdleWorkers DEF StoreAlert
<1>2. PICK c \in Probed : /\ c = workers[w].of /\ c \notin due /\ AlertInv(c) /\ WorkerInv(w)
                          /\ \A v \in Busy \ {w} : workers[v].of # c
                          /\ workers[w] \in Work(c)
  BY <1>1, WorkersTyped DEF OneEach, MonitorInv
<1>3. workers[w].age \in AgesOf(c) /\ probes[c] \in Row(c)
  BY <1>1, <1>2, WorkTypes, Thresholds, RowsTyped DEF AgesOf
<1>4. PICK row \in Row(c) :
        /\ row = IF workers[w].step = "mark" THEN AlertMarked(probes[c], workers[w].age)
                 ELSE AlertCleared(c, probes[c])
        /\ row.is = probes[c].is /\ row.last = probes[c].last /\ row.fails = probes[c].fails
        /\ workers[w].step = "mark" => row.alertActive /\ row.sent = workers[w].age
        /\ workers[w].step = "clear" => ~row.alertActive
  <2>1. CASE workers[w].step = "mark"
    BY <1>3, <2>1, MarkedIs
  <2>2. CASE workers[w].step = "clear"
    BY <1>3, <2>2, ClearedIs
  <2> QED BY <1>1, <2>1, <2>2
<1>5. \/ /\ probes' = [probes EXCEPT ![c] = IF probes[c].is = "absent" THEN probes[c] ELSE row]
         /\ untold' = IF workers[w].reached THEN untold \ {c} ELSE untold
      \/ untold' = untold \cup {c} /\ probes' = probes
  BY <1>2, <1>4 DEF StoreAlert
<1>6. /\ probes' = [d \in Probed |-> probes'[d]] /\ probes'[c] \in Row(c)
      /\ probes'[c].is = probes[c].is /\ probes'[c].last = probes[c].last /\ probes'[c].fails = probes[c].fails
      /\ \A d \in Probed \ {c} : probes'[d] = probes[d] /\ (d \in untold => d \in untold')
      /\ untold' \subseteq Probed
  BY <1>1, <1>3, <1>4, <1>5 DEF MonitorTypes, OnProbed
<1>7. Becomes(w, NoWork) /\ RestKept(c) /\ NoWork \in Work(c) \cup {NoWork}
  BY <1>1, <1>6 DEF Becomes, RestKept, MonitorTypes, OnProbed
<1>8. /\ OthersSame(w, c) /\ Busy' = Busy \ {w}
      /\ \A v \in ProbeWorkers \ {w} : workers'[v] = workers[v]
  BY <1>7, OneJobChanges
<1>9. StatusInv'
  <2>1. SameStatuses
    BY <1>6 DEF SameStatuses, Probed
  <2> QED BY <1>1, <1>8, <2>1, StatusFrame DEF Busy
<1>10. AlertInv(c)'
  <2>1. /\ probes'[c].last # "down" => probes'[c].fails = 0
        /\ gap'[c] = Cooldown(c)
    BY <1>1, <1>2, <1>6 DEF AlertInv
  <2>2. ASSUME probes'[c].is # "absent", c \notin untold'
        PROVE  /\ probes'[c].alertActive <=> probes'[c].fails >= Threshold(c)
               /\ Remembers(c, probes[c])'
    <3>1. /\ probes' = [probes EXCEPT ![c] = IF probes[c].is = "absent" THEN probes[c] ELSE row]
          /\ untold' = IF workers[w].reached THEN untold \ {c} ELSE untold
      BY <1>5, <2>2
    <3>2. probes'[c] = row /\ probes[c].is # "absent"
      BY <1>1, <1>6, <2>2, <3>1 DEF MonitorTypes, OnProbed
    <3>3. workers[w].reached
      BY <1>1, <1>2, <2>2, <3>1 DEF WorkerInv
    <3>4. /\ probes[c].last = workers[w].row.last /\ probes[c].fails = workers[w].row.fails
          /\ told[c].what = IF workers[w].step = "mark" THEN "down" ELSE "up"
          /\ told[c].age = workers[w].age
      BY <1>1, <1>2, <3>2, <3>3 DEF WorkerInv
    <3>5. CASE workers[w].step = "mark"
      <4>1. probes'[c].fails >= Threshold(c)
        BY <1>2, <1>4, <3>2, <3>4, <3>5 DEF WorkerInv, IsDown
      <4>2. probes'[c].alertActive /\ probes'[c].sent = told'[c].age /\ told'[c].what = "down"
        BY <1>1, <1>4, <3>2, <3>4, <3>5
      <4> QED BY <4>1, <4>2 DEF Remembers
    <3>6. CASE workers[w].step = "clear"
      <4>1. probes'[c].fails = 0
        BY <1>2, <1>4, <3>2, <3>4, <3>6 DEF WorkerInv, AlertInv
      <4>2. ~(probes'[c].fails >= Threshold(c))
        BY <4>1, Thresholds
      <4>3. ~probes'[c].alertActive /\ told'[c].what = "up"
        BY <1>1, <1>4, <3>2, <3>4, <3>6
      <4> QED BY <4>2, <4>3 DEF Remembers
    <3> QED BY <1>1, <3>5, <3>6
  <2> QED BY <2>1, <2>2 DEF AlertInv
<1>11. /\ due' \subseteq due /\ c \notin due' /\ lastStatus' \in Statuses /\ torn' \in BOOLEAN
       /\ told'[c] \in [what : {"nothing", "down", "up"}, age : AgesOf(c)]
       /\ w \in Busy => workers[w].of = c
  BY <1>1, <1>2, RowsTyped
<1> QED BY <1>2, <1>6, <1>8, <1>9, <1>10, <1>11, WorkerKeeps

-----------------------------------------------------------------------------

LEMMA ReplyKeepsAlerts ==
  ASSUME MonitorInv, NEW w \in ProbeWorkers, LoseReply(w)
  PROVE  MonitorInv'
<1>1. /\ MonitorTypes /\ OneEach /\ StatusInv /\ workers[w].step \in {"read", "decide"} /\ w \in Busy
      /\ UNCHANGED <<probes, lastStatus, due, told, gap>>
      /\ lastStatus \in Statuses /\ torn \in BOOLEAN /\ untold \subseteq Probed
  BY TypesOfRest, IdleWorkers DEF LoseReply
<1>2. PICK c \in Probed : /\ c = workers[w].of /\ c \notin due /\ AlertInv(c) /\ WorkerInv(w)
                          /\ \A v \in Busy \ {w} : workers[v].of # c
  BY <1>1, WorkersTyped DEF OneEach, MonitorInv
<1>3. /\ OnProbed' /\ SameStatuses
      /\ \A d \in Probed : /\ probes'[d] = probes[d] /\ told'[d] = told[d] /\ gap'[d] = gap[d]
                           /\ probes'[d] \in Row(d)
                           /\ told'[d] \in [what : {"nothing", "down", "up"}, age : AgesOf(d)]
  BY <1>1, RestIsSame
<1>4. /\ workers' = [IF c \in Checks THEN Torn(workers) ELSE workers EXCEPT ![w] = NoWork]
      /\ torn' = (torn \/ c \in Checks)
      /\ untold' = IF Telling(w) THEN untold \cup {c} ELSE untold
      /\ workers[w].step = IF c \in Checks THEN "read" ELSE "decide"
  BY <1>2 DEF LoseReply
<1>5. untold \subseteq untold' /\ untold' \subseteq Probed /\ torn' \in BOOLEAN
  BY <1>1, <1>4
<1>6. /\ OthersSame(w, c) /\ w \notin Busy'
      /\ \A v \in Busy \ {w} : /\ v \in Busy' /\ workers'[v].step = workers[v].step
                               /\ c \notin Checks => workers'[v] = workers[v]
                               /\ c \in Checks /\ workers'[v].step = "write" => ~workers'[v].whole
  <2>1. CASE c \in Checks
    <3>1. /\ workers' = [v \in ProbeWorkers |-> workers'[v]] /\ workers'[w] = NoWork
          /\ \A v \in ProbeWorkers \ {w} : workers'[v] = Torn(workers)[v]
      BY <1>1, <1>4, <2>1, TornIs
    <3>2. \A v \in ProbeWorkers \ {w} : v \in Busy' <=> v \in Busy
      BY <1>1, <3>1, TornIs DEF Busy
    <3>3. w \notin Busy'
      BY <3>1, NoWorkIs DEF Busy
    <3>4. ASSUME NEW v \in Busy \ {w}
          PROVE  /\ SameJob(v) /\ workers'[v] \in Work(workers[v].of)
                 /\ v \in Busy' /\ workers'[v].step = workers[v].step
                 /\ workers'[v].step = "write" => ~workers'[v].whole
      <4>1. v \in ProbeWorkers /\ workers'[v] = Torn(workers)[v]
        BY <1>1, <3>1, WorkersTyped
      <4> QED BY <1>1, <3>2, <4>1, TornIs DEF SameJob
    <3>5. Busy' \ {w} = Busy \ {w}
      BY <3>2 DEF Busy
    <3> QED BY <1>3, <1>5, <2>1, <3>1, <3>3, <3>4, <3>5 DEF OthersSame
  <2>2. CASE c \notin Checks
    <3>1. Becomes(w, NoWork) /\ RestKept(c) /\ NoWork \in Work(c) \cup {NoWork}
      BY <1>3, <1>4, <1>5, <2>2 DEF Becomes, RestKept
    <3>2. /\ OthersSame(w, c) /\ Busy' = Busy \ {w}
          /\ \A v \in ProbeWorkers \ {w} : workers'[v] = workers[v]
      BY <3>1, OneJobChanges
    <3> QED BY <1>1, <2>2, <3>2, WorkersTyped
  <2> QED BY <2>1, <2>2
<1>7. AlertInv(c)'
  <2>1. ASSUME c \notin untold', probes[c].is # "absent"
        PROVE  /\ probes[c].alertActive <=> probes[c].fails >= Threshold(c)
               /\ Remembers(c, probes[c])
    <3>1. ~Telling(w) /\ c \notin untold
      BY <1>4, <2>1
    <3>2. ~AlertDue(c, workers[w].row, workers[w].age) /\ ~RecoveryDue(workers[w].row)
      BY <1>1, <1>2, <3>1 DEF Telling
    <3> QED BY <1>1, <1>2, <2>1, <3>1, <3>2, QuietIsSettled
  <2>2. Remembers(c, probes[c]) => Remembers(c, probes[c])'
    BY <1>1, Zenon DEF Remembers
  <2> QED BY <1>2, <1>3, <2>1, <2>2 DEF AlertInv
<1>8. StatusInv'
  <2>1. CASE c \in Checks
    <3>1. \A v \in Busy' : workers'[v].step = "write" => ~workers'[v].whole
      <4>1. \A v \in Busy' : v \in Busy \ {w}
        BY <1>6 DEF OthersSame
      <4> QED BY <1>6, <2>1, <4>1
    <3> QED BY <1>4, <2>1, <3>1 DEF StatusInv, StatusIsRolledUp
  <2>2. CASE c \notin Checks
    <3>1. \A v \in Busy' : v \in Busy \ {w} /\ workers'[v] = workers[v]
      BY <1>6, <2>2 DEF OthersSame
    <3>2. workers[w].step = "decide" /\ UNCHANGED <<lastStatus, torn>>
      BY <1>1, <1>4, <2>2
    <3> QED BY <1>1, <1>3, <1>6, <2>2, <3>1, <3>2, StatusFrame
  <2> QED BY <2>1, <2>2
<1> QED BY <1>1, <1>2, <1>3, <1>5, <1>6, <1>7, <1>8, WorkerKeeps

LEMMA StopKeepsAlerts ==
  ASSUME MonitorInv, StopMonitors
  PROVE  MonitorInv'
<1>1. /\ MonitorTypes /\ OneEach /\ StatusInv /\ due' = {}
      /\ workers' = [w \in ProbeWorkers |-> NoWork]
      /\ untold' = untold \cup {workers[w].of : w \in {v \in Busy : Telling(v)}}
      /\ torn' = (torn \/ \E w \in Busy : workers[w].step \in {"read", "write"})
      /\ UNCHANGED <<probes, lastStatus, told, gap>>
      /\ lastStatus \in Statuses /\ torn \in BOOLEAN /\ untold \subseteq Probed
  BY TypesOfRest DEF StopMonitors
<1>2. Busy' = {}
  BY <1>1, NoWorkIs DEF Busy
<1>3. /\ OnProbed' /\ SameStatuses
      /\ \A d \in Probed : /\ probes'[d] = probes[d] /\ told'[d] = told[d] /\ gap'[d] = gap[d]
                           /\ SameRow(d)
  BY <1>1, RestIsSame
<1>4. untold' \subseteq Probed /\ torn' \in BOOLEAN
  BY <1>1, WorkersTyped
<1>5. MonitorTypes'
  BY <1>1, <1>2, <1>3, <1>4 DEF MonitorTypes, MonitorTypeOK
<1>6. StatusInv'
  <2>1. RolledUp' = RolledUp
    BY <1>3, RolledFrame
  <2> QED BY <1>1, <1>2, <2>1 DEF StatusInv, StatusIsRolledUp
<1>7. ASSUME NEW c \in Probed PROVE AlertInv(c)'
  <2>1. AlertInv(c)
    BY DEF MonitorInv
  <2>2. ASSUME c \notin untold', probes[c].is # "absent"
        PROVE  /\ probes[c].alertActive <=> probes[c].fails >= Threshold(c)
               /\ Remembers(c, probes[c])
    <3>1. CASE \A w \in WorkersOf(c) : workers[w].step = "probe"
      BY <1>1, <2>1, <2>2, <3>1 DEF AlertInv
    <3>2. ASSUME NEW w \in WorkersOf(c), workers[w].step # "probe"
          PROVE  /\ probes[c].alertActive <=> probes[c].fails >= Threshold(c)
                 /\ Remembers(c, probes[c])
      <4>1. w \in Busy /\ workers[w].of = c /\ WorkerInv(w)
        BY DEF WorkersOf, MonitorInv
      <4>2. ~Telling(w) /\ c \notin untold
        BY <1>1, <2>2, <4>1
      <4>3. workers[w].step \in {"read", "write", "decide"}
        BY <1>1, <3>2, <4>1, <4>2, WorkersTyped, WorkTypes DEF Telling
      <4>4. ~AlertDue(c, workers[w].row, workers[w].age) /\ ~RecoveryDue(workers[w].row)
        BY <4>1, <4>2, <4>3 DEF Telling
      <4> QED BY <1>1, <2>2, <4>1, <4>2, <4>3, <4>4, QuietIsSettled
    <3> QED BY <3>1, <3>2
  <2>3. Remembers(c, probes[c]) => Remembers(c, probes[c])'
    BY <1>3, Zenon DEF Remembers
  <2> QED BY <1>3, <2>1, <2>2, <2>3 DEF AlertInv
<1>8. OneEach'
  BY <1>2 DEF OneEach
<1> QED BY <1>2, <1>5, <1>6, <1>7, <1>8 DEF MonitorInv

LEMMA OlderIs ==
  ASSUME NEW c \in Probed, NEW age \in AgesOf(c)
  PROVE  Older(c, age) \in AgesOf(c) /\ (age < MaxAge => Older(c, age) = age + 1)
  BY Thresholds DEF Older, AgesOf, Least

RowOlder(c, row) == [row EXCEPT !.sent = Older(c, @), !.checked = FALSE]
HeldOlder(c, row) == [row EXCEPT !.sent = Older(c, @)]

LEMMA OlderRow ==
  ASSUME NEW c \in Probed, NEW row \in Row(c), NEW y, y \in {RowOlder(c, row), HeldOlder(c, row)}
  PROVE  /\ y \in Row(c) /\ y.is = row.is /\ y.last = row.last /\ y.fails = row.fails
         /\ y.alertActive = row.alertActive /\ y.sent = Older(c, row.sent)
<1>1. PICK no, sent, a, b : /\ no = FALSE /\ sent = Older(c, row.sent)
                            /\ a = [row EXCEPT !.sent = sent, !.checked = no]
                            /\ b = [row EXCEPT !.sent = sent]
  OBVIOUS
<1>2. no \in BOOLEAN
  BY <1>1, Zenon
<1>3. sent \in AgesOf(c)
  <2>1. row.sent \in AgesOf(c)
    BY DEF Row
  <2> QED BY <1>1, <2>1, OlderIs
<1>4. /\ a \in Row(c) /\ a.is = row.is /\ a.last = row.last /\ a.fails = row.fails
      /\ a.alertActive = row.alertActive /\ a.sent = sent
  BY ONLY row \in Row(c), <1>1, <1>2, <1>3 DEF Row
<1>5. /\ b \in Row(c) /\ b.is = row.is /\ b.last = row.last /\ b.fails = row.fails
      /\ b.alertActive = row.alertActive /\ b.sent = sent
  BY ONLY row \in Row(c), <1>1, <1>3 DEF Row
<1>6. a = RowOlder(c, row) /\ b = HeldOlder(c, row)
  BY <1>1, Zenon DEF RowOlder, HeldOlder
<1> QED BY <1>1, <1>4, <1>5, <1>6

LEMMA AgeKeepsAlerts ==
  ASSUME MonitorInv, IntervalPasses
  PROVE  MonitorInv'
<1>1. /\ MonitorTypes /\ OneEach /\ StatusInv
      /\ \A w \in Busy : workers[w].age < MaxAge
      /\ probes' = [c \in Probed |-> [probes[c] EXCEPT !.sent = Older(c, @), !.checked = FALSE]]
      /\ workers' = [w \in ProbeWorkers |->
            IF w \notin Busy THEN workers[w]
            ELSE [workers[w] EXCEPT !.age = @ + 1, !.row.sent = Older(workers[w].of, @)]]
      /\ told' = [c \in Probed |-> [told[c] EXCEPT !.age = Older(c, @)]]
      /\ UNCHANGED <<lastStatus, due, gap, untold, torn>>
      /\ lastStatus \in Statuses /\ torn \in BOOLEAN /\ untold \subseteq Probed /\ due \subseteq Probed
  BY TypesOfRest DEF IntervalPasses
<1>2. ASSUME NEW c \in Probed
      PROVE  /\ probes'[c] \in Row(c)
             /\ probes'[c].is = probes[c].is /\ probes'[c].last = probes[c].last
             /\ probes'[c].fails = probes[c].fails /\ probes'[c].alertActive = probes[c].alertActive
             /\ probes'[c].sent = Older(c, probes[c].sent)
  <2>1. probes[c] \in Row(c)
    BY <1>1, RowsTyped
  <2>2. PICK y : y = probes'[c] /\ y \in {RowOlder(c, probes[c]), HeldOlder(c, probes[c])}
    BY <1>1 DEF RowOlder
  <2> QED BY <2>1, <2>2, OlderRow
<1>3. ASSUME NEW c \in Probed
      PROVE  /\ told'[c] \in [what : {"nothing", "down", "up"}, age : AgesOf(c)]
             /\ told'[c].what = told[c].what /\ told'[c].age = Older(c, told[c].age)
  <2>1. told[c] \in [what : {"nothing", "down", "up"}, age : AgesOf(c)]
    BY <1>1, RowsTyped
  <2>2. PICK z, old : z = told[c] /\ old = Older(c, told[c].age)
    OBVIOUS
  <2>3. old \in AgesOf(c)
    BY <2>1, <2>2, OlderIs
  <2>4. PICK y : y = [z EXCEPT !.age = old]
    OBVIOUS
  <2>5. y \in [what : {"nothing", "down", "up"}, age : AgesOf(c)] /\ y.what = z.what /\ y.age = old
    BY <2>1, <2>2, <2>3, <2>4
  <2>6. told'[c] = y
    BY <1>1, <2>2, <2>4
  <2> QED BY <2>2, <2>5, <2>6
<1>4. ASSUME NEW w \in Busy
      PROVE  /\ w \in Busy' /\ workers'[w] \in Work(workers[w].of)
             /\ workers'[w].step = workers[w].step /\ workers'[w].of = workers[w].of
             /\ workers'[w].age = workers[w].age + 1 /\ workers'[w].rolled = workers[w].rolled
             /\ workers'[w].whole = workers[w].whole /\ workers'[w].reached = workers[w].reached
             /\ workers'[w].row.last = workers[w].row.last /\ workers'[w].row.fails = workers[w].row.fails
             /\ workers'[w].row.alertActive = workers[w].row.alertActive
             /\ workers'[w].row.sent = Older(workers[w].of, workers[w].row.sent)
  <2>1. /\ w \in ProbeWorkers /\ workers[w].of \in Probed /\ workers[w] \in Work(workers[w].of)
        /\ workers[w].row \in Row(workers[w].of) /\ workers[w].age + 1 \in 0..MaxAge
    <3>1. /\ w \in ProbeWorkers /\ workers[w].of \in Probed /\ workers[w] \in Work(workers[w].of)
      BY <1>1, WorkersTyped
    <3>2. workers[w].row \in Row(workers[w].of) /\ workers[w].age \in Nat
      BY <3>1, WorkTypes
    <3>3. workers[w].age < MaxAge /\ MaxAge \in Nat
      BY <1>1, MonitorAssumption
    <3> QED BY <3>1, <3>2, <3>3
  <2>2. PICK c, z, age, held, row :
          /\ c = workers[w].of /\ z = workers[w] /\ age = workers[w].age + 1 /\ held = workers[w].row
          /\ row = HeldOlder(c, held)
    OBVIOUS
  <2>3. /\ row \in Row(c) /\ row.last = z.row.last /\ row.fails = z.row.fails
        /\ row.alertActive = z.row.alertActive /\ row.sent = Older(c, z.row.sent)
    <3>1. /\ c \in Probed /\ held \in Row(c) /\ z.row = held
          /\ row \in {RowOlder(c, held), HeldOlder(c, held)}
      BY <2>1, <2>2
    <3> QED BY <3>1, OlderRow
  <2>4. PICK k : k = [z EXCEPT !.age = age, !.row = row]
    OBVIOUS
  <2>5. z \in Work(c) /\ age \in 0..MaxAge
    BY <2>1, <2>2
  <2>6. /\ k \in Work(c) /\ k.step = z.step /\ k.of = z.of /\ k.age = age /\ k.rolled = z.rolled
        /\ k.whole = z.whole /\ k.reached = z.reached /\ k.row = row
    <3>1. row \in Row(c)
      BY <2>3
    <3> QED BY ONLY <2>4, <2>5, <3>1 DEF Work
  <2>7. workers'[w] = k
    BY <1>1, <2>1, <2>2, <2>4 DEF HeldOlder
  <2>8. w \in Busy'
    BY <2>1, <2>2, <2>6, <2>7 DEF Busy
  <2> QED BY <2>2, <2>3, <2>6, <2>7, <2>8
<1>5. Busy' = Busy
  <2>1. \A w \in ProbeWorkers : w \notin Busy => workers'[w] = workers[w]
    BY <1>1
  <2> QED BY <1>4, <2>1 DEF Busy
<1>6. MonitorTypes'
  <2>1. OnProbed' /\ workers' = [w \in ProbeWorkers |-> workers'[w]]
    <3>1. probes' = [c \in Probed |-> probes'[c]]
      BY ONLY <1>1
    <3>2. told' = [c \in Probed |-> told'[c]]
      BY ONLY <1>1
    <3>3. gap' = [c \in Probed |-> gap'[c]]
      BY ONLY <1>1 DEF OnProbed, MonitorTypes
    <3>4. workers' = [w \in ProbeWorkers |-> workers'[w]]
      BY ONLY <1>1
    <3> QED BY ONLY <3>1, <3>2, <3>3, <3>4 DEF OnProbed
  <2>2. \A c \in Probed : gap'[c] \in 0..Cooldown(c)
    BY <1>1, RowsTyped
  <2>3. \A w \in Busy' : workers'[w].of \in Probed /\ workers'[w] \in Work(workers'[w].of)
    BY <1>1, <1>4, <1>5, WorkersTyped
  <2> QED BY <1>1, <1>2, <1>3, <2>1, <2>2, <2>3 DEF MonitorTypes, MonitorTypeOK
<1>7. OneEach'
  <2>1. \A w \in Busy' : w \in Busy /\ workers'[w].of = workers[w].of
    BY <1>4, <1>5
  <2>2. due' = due
    BY <1>1
  <2> QED BY <1>1, <2>1, <2>2 DEF OneEach
<1>8. StatusInv'
  <2>1. SameStatuses
    BY <1>2 DEF SameStatuses, Probed
  <2> QED BY <1>1, <1>4, <1>5, <2>1, StatusKept
<1>9. ASSUME NEW c \in Probed PROVE AlertInv(c)'
  <2>1. AlertInv(c)
    BY DEF MonitorInv
  <2>2. Remembers(c, probes[c]) => Remembers(c, probes[c])'
    BY <1>2, <1>3 DEF Remembers
  <2>3. (\A w \in WorkersOf(c)' : workers'[w].step = "probe") => \A w \in WorkersOf(c) : workers[w].step = "probe"
    BY <1>4, <1>5 DEF WorkersOf
  <2> QED BY <1>1, <1>2, <2>1, <2>2, <2>3 DEF AlertInv
<1>10. ASSUME NEW w \in Busy' PROVE WorkerInv(w)'
  <2>1. w \in Busy /\ workers[w].of \in Probed /\ WorkerInv(w)
    BY <1>1, <1>5, WorkersTyped DEF MonitorInv
  <2>2. PICK c, row : c \in Probed /\ c = workers[w].of /\ row = workers[w].row
    BY <2>1
  <2>3. Remembers(c, row) => Remembers(workers[w].of, workers[w].row)'
    BY <1>3, <1>4, <2>1, <2>2 DEF Remembers
  <2>4. workers[w].age < MaxAge /\ workers[w].age \in AgesOf(c)
    <3>1. workers[w].age < MaxAge /\ workers[w] \in Work(c)
      BY <1>1, <2>1, <2>2, WorkersTyped
    <3>2. workers[w].age \in Nat /\ workers[w].age <= MaxAge
      BY <2>2, <3>1, WorkTypes
    <3> QED BY <2>2, <3>1, <3>2, Thresholds DEF AgesOf
  <2>5. workers'[w].age = Older(c, workers[w].age)
    BY <1>4, <2>1, <2>2, <2>4, OlderIs
  <2>6. IsDown(c, row) => IsDown(workers[w].of, workers[w].row)'
    BY <1>4, <2>1, <2>2 DEF IsDown
  <2>7. /\ workers'[w].step = workers[w].step /\ workers'[w].of = c /\ workers'[w].reached = workers[w].reached
        /\ workers'[w].row.last = row.last /\ workers'[w].row.fails = row.fails
        /\ workers'[w].row.alertActive = row.alertActive
        /\ workers'[w].row.sent = Older(c, row.sent)
    BY <1>4, <2>1, <2>2
  <2>8. /\ probes'[c].is = probes[c].is /\ probes'[c].last = probes[c].last
        /\ probes'[c].fails = probes[c].fails /\ probes'[c].alertActive = probes[c].alertActive
        /\ probes'[c].sent = Older(c, probes[c].sent) /\ untold' = untold
        /\ told'[c].what = told[c].what /\ told'[c].age = Older(c, told[c].age)
    BY <1>1, <1>2, <1>3, <2>2
  <2>9. workers[w].step # "probe" =>
          /\ row.last = "up" => row.fails = 0
          /\ probes[c].is # "absent" =>
               /\ probes[c].last = row.last /\ probes[c].fails = row.fails
               /\ probes[c].alertActive = row.alertActive /\ probes[c].sent = row.sent
    BY <2>1, <2>2 DEF WorkerInv
  <2>10. workers[w].step \in {"read", "write", "decide"} =>
           /\ row.last # "unknown"
           /\ c \notin untold => /\ row.alertActive /\ row.last = "down" => row.fails >= Threshold(c)
                                 /\ Remembers(c, row)
    BY <2>1, <2>2 DEF WorkerInv
  <2>11. /\ workers[w].step = "mark" => IsDown(c, row)
         /\ workers[w].step = "clear" => row.last = "up"
         /\ workers[w].step \in {"mark", "clear"} /\ ~workers[w].reached => c \in untold
         /\ workers[w].step \in {"mark", "clear"} /\ workers[w].reached =>
              /\ told[c].what = IF workers[w].step = "mark" THEN "down" ELSE "up"
              /\ told[c].age = workers[w].age
    BY <2>1, <2>2 DEF WorkerInv
  <2> QED BY <2>2, <2>3, <2>5, <2>6, <2>7, <2>8, <2>9, <2>10, <2>11 DEF WorkerInv
<1> QED BY <1>5, <1>6, <1>7, <1>8, <1>9, <1>10 DEF MonitorInv

LEMMA MonitorInitially == ASSUME MonitorInit PROVE MonitorInv
<1>1. Busy = {}
  BY NoWorkIs DEF MonitorInit, Busy
<1>2. ASSUME NEW c \in Probed
      PROVE  /\ probes[c] \in Row(c) /\ probes[c].is = "absent" /\ probes[c].fails = 0
             /\ told[c] \in [what : {"nothing", "down", "up"}, age : AgesOf(c)]
             /\ gap[c] = Cooldown(c) /\ gap[c] \in 0..Cooldown(c)
  <2>1. probes[c] = [NewRow(c) EXCEPT !.is = "absent"]
    BY DEF MonitorInit
  <2>2. LongAgo(c) \in AgesOf(c) /\ Cooldown(c) \in 0..Cooldown(c)
    BY Thresholds DEF AgesOf
  <2>3. told[c] = [what |-> "nothing", age |-> LongAgo(c)] /\ gap[c] = Cooldown(c)
    BY DEF MonitorInit
  <2>4. probes[c] \in Row(c) /\ probes[c].is = "absent" /\ probes[c].fails = 0
    BY <2>1, NewRowIs
  <2>5. told[c] \in [what : {"nothing", "down", "up"}, age : AgesOf(c)]
    BY <2>2, <2>3
  <2> QED BY <2>2, <2>3, <2>4, <2>5
<1>3. MonitorTypes
  <2>1. OnProbed /\ workers = [w \in ProbeWorkers |-> workers[w]]
    BY DEF MonitorInit, OnProbed
  <2>2. lastStatus \in Statuses /\ due = {} /\ untold = {} /\ torn \in BOOLEAN
    BY DEF MonitorInit, Statuses
  <2> QED BY <1>1, <1>2, <2>1, <2>2 DEF MonitorTypes, MonitorTypeOK
<1>4. StatusInv
  <2>1. {c \in Checks : probes[c].is = "on" /\ probes[c].last = "down"} = {}
    BY <1>2 DEF Probed
  <2>2. {c \in Checks : probes[c].is = "on" /\ probes[c].last = "up"} = {}
    BY <1>2 DEF Probed
  <2>3. RolledUp = "unknown"
    BY <2>1, <2>2 DEF RolledUp
  <2> QED BY <1>1, <2>3 DEF MonitorInit, StatusInv, StatusIsRolledUp
<1>5. OneEach
  BY <1>1 DEF OneEach
<1>6. \A c \in Probed : AlertInv(c)
  BY <1>2 DEF AlertInv
<1> QED BY <1>1, <1>3, <1>4, <1>5, <1>6 DEF MonitorInv

LEMMA MonitorStep ==
  ASSUME MonitorInv, [MonitorNext]_monitorVars
  PROVE  MonitorInv'
<1>1. CASE UNCHANGED monitorVars
  <2>1. MonitorTypes /\ OneEach /\ StatusInv /\ UNCHANGED <<probes, lastStatus, due, workers, told, gap, untold, torn>>
    BY <1>1 DEF MonitorInv, monitorVars
  <2>2. /\ Busy' = Busy /\ RolledUp' = RolledUp
        /\ \A c \in Probed : WorkersOf(c)' = WorkersOf(c)
    BY <2>1 DEF Busy, RolledUp, WorkersOf
  <2>3. MonitorTypes' /\ OneEach' /\ StatusInv'
    BY <2>1, <2>2 DEF MonitorTypes, OnProbed, MonitorTypeOK, OneEach, StatusInv, StatusIsRolledUp
  <2>4. \A c \in Probed : SameRow(c) /\ told'[c] = told[c] /\ gap'[c] = gap[c]
    BY <2>1 DEF SameRow
  <2>5. \A c \in Probed : AlertInv(c)'
    BY <2>1, <2>2, <2>4, AlertFrame DEF MonitorInv
  <2>6. \A w \in Busy : SameJob(w) /\ workers[w].of \in Probed
    BY <2>1, WorkersTyped DEF SameJob
  <2>7. \A w \in Busy' : WorkerInv(w)'
    BY <2>1, <2>2, <2>4, <2>6, WorkerFrame DEF MonitorInv
  <2> QED BY <2>3, <2>5, <2>7 DEF MonitorInv
<1>2. CASE ListDueChecks
  BY <1>2, ListKeepsAlerts
<1>3. ASSUME NEW c \in Probed, CreateCheck(c) PROVE MonitorInv'
  BY <1>3, CreateKeepsAlerts
<1>4. ASSUME NEW c \in Probed, DeleteCheck(c) PROVE MonitorInv'
  BY <1>4, DeleteKeepsAlerts
<1>5. ASSUME NEW c \in Probed, NEW is \in {"on", "off"}, SetEnabled(c, is) PROVE MonitorInv'
  BY <1>5, SwitchKeepsAlerts
<1>6. ASSUME NEW c \in Probed, NEW w \in ProbeWorkers, RunWorker(w, c) PROVE MonitorInv'
  BY <1>6, RunKeepsAlerts
<1>7. ASSUME NEW w \in ProbeWorkers, NEW found \in {"up", "down"}, RecordCheckResult(w, found) PROVE MonitorInv'
  BY <1>7, RecordKeepsAlerts
<1>8. ASSUME NEW w \in ProbeWorkers, LoseResult(w) PROVE MonitorInv'
  BY <1>8, LoseKeepsAlerts
<1>15. ASSUME NEW w \in ProbeWorkers, LoseReply(w) PROVE MonitorInv'
  BY <1>15, ReplyKeepsAlerts
<1>9. ASSUME NEW w \in ProbeWorkers, ReadStatuses(w) PROVE MonitorInv'
  BY <1>9, ReadKeepsAlerts
<1>10. ASSUME NEW w \in ProbeWorkers, UpdateVPSStatusSnapshot(w) PROVE MonitorInv'
  BY <1>10, UpdateKeepsAlerts
<1>11. ASSUME NEW w \in ProbeWorkers, DecideAlert(w) PROVE MonitorInv'
  BY <1>11, DecideKeepsAlerts
<1>12. ASSUME NEW w \in ProbeWorkers, StoreAlert(w) PROVE MonitorInv'
  BY <1>12, StoreKeepsAlerts
<1>13. CASE StopMonitors
  BY <1>13, StopKeepsAlerts
<1>14. CASE IntervalPasses
  BY <1>14, AgeKeepsAlerts
<1> QED
  BY <1>1, <1>2, <1>3, <1>4, <1>5, <1>6, <1>7, <1>8, <1>9, <1>10, <1>11, <1>12, <1>13, <1>14,
     <1>15 DEF MonitorNext

(* The inductive invariant of the monitors: between two checks the row says what people were *)
(* told, and a worker under way holds the row it recorded and the time of what it told.     *)
THEOREM MonitorsAlwaysSound == MonitorSpec => []MonitorInv
  BY MonitorInitially, MonitorStep, PTL DEF MonitorSpec

(* Rows, workers and what was told keep their types. *)
THEOREM MonitorsTypeCorrect == MonitorSpec => []MonitorTypeOK
<1>1. MonitorInv => MonitorTypeOK
  BY DEF MonitorInv, MonitorTypes
<1> QED BY <1>1, MonitorsAlwaysSound, PTL

(* For any checks, domains, workers, thresholds and cooldowns, with edits, lost statements  *)
(* and restarts: unless something of it was lost, an alert is active and people's last    *)
(* word is that it is down exactly during an outage, no two messages of one outage are less  *)
(* than a cooldown apart, and the server's status is that of its checks.                  *)
THEOREM OutagesAreTold == MonitorSpec => []MonitorsAgree
<1>1. MonitorInv => MonitorsAgree
  <2>1. ASSUME MonitorInv PROVE AlertsMatchOutages
    BY <2>1 DEF MonitorInv, AlertInv, Remembers, AlertsMatchOutages
  <2>2. ASSUME MonitorInv PROVE CooldownIsKept
    <3>1. \A c \in Probed : gap[c] = Cooldown(c) /\ Cooldown(c) \in Nat
      BY <2>2, Thresholds DEF MonitorInv, AlertInv
    <3> QED BY <3>1 DEF CooldownIsKept
  <2> QED BY <2>1, <2>2 DEF MonitorInv, StatusInv, MonitorsAgree
<1> QED BY <1>1, MonitorsAlwaysSound, PTL

===============================================================================
