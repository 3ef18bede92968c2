--------------------------- MODULE RolePermissions ---------------------------
(***************************************************************************)
(* What a user may do, and the copy of it every request is checked against:  *)
(* the rows of users, roles, role_permissions and user_module_roles           *)
(* (repository/auth/admin_rbac.go, repository/auth/repository.go), the          *)
(* administration of them (service/auth/service.go) and PermissionCache           *)
(* (rbac/cache.go), which middleware/auth.go asks.                                *)
(*                                                                         *)
(* The modules of the program are changed together, by one transaction, and     *)
(* read together: one of them stands for all, and a user has one role or none   *)
(* in it.  Roles are no system roles (those cannot be deleted); names, slugs,    *)
(* hierarchy levels and the sessions that a deactivation ends are left out.       *)
(***************************************************************************)
EXTENDS Integers, FiniteSets

CONSTANTS
    Accounts,      \* users
    Roles,         \* rows of roles, each id used once
    Permits,       \* permissions of the module
    Loaders,       \* requests that load permissions, reused one after another
    Admins,        \* requests that change rows, reused one after another
    CacheTTL,      \* NewPermissionCache's ttl
    MaxAgeOfRun,   \* bound: ticks of a behaviour
    MaxChanges     \* bound: committed changes

ASSUME CacheAssumption ==
    Accounts # {} /\ CacheTTL \in Nat /\ MaxAgeOfRun \in Nat /\ MaxChanges \in Nat

VARIABLES
    time,
    people,    \* users and user_module_roles
    roles,     \* roles and role_permissions
    cache,     \* PermissionCache.store
    loading,   \* what each Load has read
    admins,    \* whom each change still has to be forgotten for
    changes    \* how many were committed

roleVars == <<time, people, roles, cache, loading, admins, changes>>

-----------------------------------------------------------------------------

Moments == 0..MaxAgeOfRun

NoRole == "no role"

Role == [is : {"unused", "live", "gone"}, active : BOOLEAN, grants : SUBSET Permits]

Person == [active : BOOLEAN, super : BOOLEAN, role : Roles \cup {NoRole}]

(* What happened to an entry, a history: rows changed while it was loaded, a role  *)
(* it does not list was switched on, a change was never told to the cache; and when   *)
(* the rows were first changed after it was begun (NeverChanged: they were not).              *)
Mishaps == {"straddled", "dormant", "untold"}

Rights == [active : BOOLEAN, super : BOOLEAN, role : Roles \cup {NoRole}, grants : SUBSET Permits]

NeverChanged == MaxAgeOfRun + 1

CachedPermissions == [is : {"none", "some"}, rights : Rights, at : Moments,
                      mishaps : SUBSET Mishaps, changed : Moments \cup {NeverChanged}]

NoRights == [active |-> FALSE, super |-> FALSE, role |-> NoRole, grants |-> {}]

NotCached == [is |-> "none", rights |-> NoRights, at |-> 0, mishaps |-> {}, changed |-> NeverChanged]

(* "expired": InvalidateKey is next; otherwise what is read next.                  *)
Loading == [next : {"none", "expired", "user", "role", "grants", "store"},
            who : Accounts, got : CachedPermissions]

(* A change that is committed: whose entries go, those of a user or of a role.      *)
Admin == [next : {"none", "delete", "invalidate"}, whose : {NoRole} \cup Accounts \cup Roles]

Idle == [next |-> "none", whose |-> NoRole]

RolesInit ==
    /\ time = 0
    /\ people \in [Accounts -> {[active |-> TRUE, super |-> FALSE, role |-> r] : r \in Roles \cup {NoRole}}]
    /\ roles \in [Roles -> {[is |-> "unused", active |-> TRUE, grants |-> {}],
                            [is |-> "live", active |-> TRUE, grants |-> Permits]}]
    /\ \A u \in Accounts : people[u].role # NoRole => roles[people[u].role].is = "live"
    /\ cache = [u \in Accounts |-> NotCached]
    /\ loading = [l \in Loaders |-> [next |-> "none", who |-> CHOOSE u \in Accounts : TRUE, got |-> NotCached]]
    /\ admins = [a \in Admins |-> Idle]
    /\ changes = 0

-----------------------------------------------------------------------------
(* What the rows say *)

InForce(r) == r # NoRole /\ roles[r].is = "live" /\ roles[r].active

(* A super admin has no module roles and needs no permissions.                       *)
RightsOf(u) ==
    LET p == people[u]
        r == IF ~p.super /\ InForce(p.role) THEN p.role ELSE NoRole
    IN [active |-> p.active, super |-> p.super, role |-> r,
        grants |-> IF r = NoRole THEN {} ELSE roles[r].grants]

-----------------------------------------------------------------------------
(* PermissionCache *)

Expired(e) == time - e.at > CacheTTL

Reading(l) == loading[l].next \in {"role", "grants", "store"}

(* Get misses; a hit changes nothing.                                                *)
Load(l, u) ==
    /\ loading[l].next = "none"
    /\ cache[u].is = "none" \/ Expired(cache[u])
    /\ loading' = [loading EXCEPT ![l] =
            [next |-> IF cache[u].is = "none" THEN "user" ELSE "expired", who |-> u, got |-> NotCached]]
    /\ UNCHANGED <<time, people, roles, cache, admins, changes>>

(* Whatever is there by now: Get has let go of the lock in between.                   *)
InvalidateKey(l) ==
    /\ loading[l].next = "expired"
    /\ cache' = [cache EXCEPT ![loading[l].who] = NotCached]
    /\ loading' = [loading EXCEPT ![l].next = "user"]
    /\ UNCHANGED <<time, people, roles, admins, changes>>

ReadFlags(l) ==
    /\ loading[l].next = "user"
    /\ LET p == people[loading[l].who] IN
       loading' = [loading EXCEPT
            ![l].next = IF p.super THEN "store" ELSE "role",
            ![l].got  = [is |-> "some", rights |-> [NoRights EXCEPT !.active = p.active, !.super = p.super],
                         at |-> time, mishaps |-> {}, changed |-> NeverChanged]]
    /\ UNCHANGED <<time, people, roles, cache, admins, changes>>

ReadModuleRoles(l) ==
    /\ loading[l].next = "role"
    /\ LET r == people[loading[l].who].role IN
       loading' = [loading EXCEPT ![l].next = "grants",
                                  ![l].got.rights.role = IF InForce(r) THEN r ELSE NoRole]
    /\ UNCHANGED <<time, people, roles, cache, admins, changes>>

(* A query of its own, which joins the user's role again.                             *)
ReadPermissions(l) ==
    /\ loading[l].next = "grants"
    /\ LET r == people[loading[l].who].role IN
       loading' = [loading EXCEPT ![l].next = "store",
                                  ![l].got.rights.grants = IF InForce(r) THEN roles[r].grants ELSE {}]
    /\ UNCHANGED <<time, people, roles, cache, admins, changes>>

CachedAt_Stored(e) == time

CachedAt(e) == e.at

StorePermissions(l) ==
    /\ loading[l].next = "store"
    /\ LET got == loading[l].got IN
       cache' = [cache EXCEPT ![loading[l].who] = [got EXCEPT !.at = CachedAt(got)]]
    /\ loading' = [loading EXCEPT ![l] = [@ EXCEPT !.next = "none", !.got = NotCached]]
    /\ UNCHANGED <<time, people, roles, admins, changes>>

(* A query fails, the request is refused.                                             *)
LoadFails(l) ==
    /\ loading[l].next \in {"user", "role", "grants"}
    /\ loading' = [loading EXCEPT ![l] = [@ EXCEPT !.next = "none", !.got = NotCached]]
    /\ UNCHANGED <<time, people, roles, cache, admins, changes>>

(* StartSweeper.                                                                      *)
SweepCache ==
    /\ \E u \in Accounts : cache[u].is = "some" /\ Expired(cache[u])
    /\ cache' = [u \in Accounts |-> IF Expired(cache[u]) THEN NotCached ELSE cache[u]]
    /\ UNCHANGED <<time, people, roles, loading, admins, changes>>

RestartCache ==
    /\ cache' = [u \in Accounts |-> NotCached]
    /\ loading' = [l \in Loaders |-> [loading[l] EXCEPT !.next = "none", !.got = NotCached]]
    /\ admins' = [a \in Admins |-> Idle]
    /\ UNCHANGED <<time, people, roles, changes>>

-----------------------------------------------------------------------------
(* Administration *)

SwitchedOn(r) == InForce(r)' /\ ~InForce(r)

PassedOver(e, mishaps) ==
    [e EXCEPT !.mishaps = @ \cup mishaps, !.changed = IF @ = NeverChanged THEN time ELSE @]

(* What a commit means for what is loaded and cached, of those whose rights change.   *)
Remember ==
    LET Hit == {u \in Accounts : RightsOf(u)' # RightsOf(u)}
        Dormant(u) == people[u] = people[u]' /\ SwitchedOn(people[u].role)
    IN /\ changes < MaxChanges /\ changes' = changes + 1
       /\ loading' = [l \in Loaders |->
               IF loading[l].who \in Hit /\ Reading(l)
                 THEN [loading[l] EXCEPT !.got = PassedOver(@, {"straddled"})] ELSE loading[l]]
       /\ cache' = [u \in Accounts |->
               IF u \in Hit /\ cache[u].is = "some"
                 THEN PassedOver(cache[u], IF Dormant(u) THEN {"dormant"} ELSE {}) ELSE cache[u]]
       /\ UNCHANGED time

Commits(a, whose) ==
    /\ admins' = [admins EXCEPT ![a] = [next |-> "invalidate", whose |-> whose]]
    /\ Remember

SetPerson(a, u, p) ==
    /\ admins[a].next = "none"
    /\ people[u] # p /\ people' = [people EXCEPT ![u] = p]
    /\ UNCHANGED roles
    /\ Commits(a, u)

SetUserActive(a, u) == SetPerson(a, u, [people[u] EXCEPT !.active = ~@])

SetUserSuperAdmin(a, u) == SetPerson(a, u, [people[u] EXCEPT !.super = ~@])

(* An inactive role is refused.                                                       *)
ReplaceUserModuleRoles(a, u) ==
    \E r \in Roles \cup {NoRole} :
        /\ r # NoRole => InForce(r)
        /\ SetPerson(a, u, [people[u] EXCEPT !.role = r])

(* By slug: no one asks whether the role is active.                                   *)
ReplaceUserRoles(a, u) ==
    \E r \in Roles \cup {NoRole}, super \in BOOLEAN :
        /\ r # NoRole => roles[r].is = "live"
        /\ SetPerson(a, u, [people[u] EXCEPT !.role = r, !.super = super])

(* DuplicateRole creates one too, with the permissions of another.                     *)
CreateRole ==
    /\ changes < MaxChanges /\ changes' = changes + 1
    /\ \E r \in Roles, g \in SUBSET Permits :
        /\ roles[r].is = "unused"
        /\ roles' = [roles EXCEPT ![r] = [is |-> "live", active |-> TRUE, grants |-> g]]
    /\ UNCHANGED <<time, people, cache, loading, admins>>

UpdateRole(a, r) ==
    /\ admins[a].next = "none" /\ roles[r].is = "live"
    /\ \E g \in SUBSET Permits :
        roles[r].grants # g /\ roles' = [roles EXCEPT ![r].grants = g]
    /\ UNCHANGED people
    /\ Commits(a, r)

ToggleRole(a, r) ==
    /\ admins[a].next = "none" /\ roles[r].is = "live"
    /\ roles' = [roles EXCEPT ![r].active = ~@]
    /\ UNCHANGED people
    /\ Commits(a, r)

(* Nobody has it; the row goes in a statement of its own.                              *)
CountUsers(a, r) ==
    /\ admins[a].next = "none" /\ roles[r].is = "live"
    /\ \A u \in Accounts : people[u].role # r
    /\ admins' = [admins EXCEPT ![a] = [next |-> "delete", whose |-> r]]
    /\ UNCHANGED <<time, people, roles, cache, loading, changes>>

(* An assignment made in between goes with the role (ON DELETE CASCADE).               *)
DeleteRole(a) ==
    LET r == admins[a].whose IN
    /\ admins[a].next = "delete" /\ roles[r].is = "live"
    /\ roles' = [roles EXCEPT ![r].is = "gone"]
    /\ people' = [u \in Accounts |->
            IF people[u].role = r THEN [people[u] EXCEPT !.role = NoRole] ELSE people[u]]
    /\ Commits(a, r)

Listed_Super(e, whose) == e.is = "some" /\ e.rights.super

Listed(e, whose) == e.is = "some" /\ e.rights.role = whose

Covers(whose, u) == whose = u \/ (whose \in Roles /\ Listed(cache[u], whose))

(* Invalidate or InvalidateByRole.                                                     *)
Invalidate(a) ==
    /\ admins[a].next = "invalidate"
    /\ cache' = [u \in Accounts |-> IF Covers(admins[a].whose, u) THEN NotCached ELSE cache[u]]
    /\ admins' = [admins EXCEPT ![a] = Idle]
    /\ UNCHANGED <<time, people, roles, loading, changes>>

(* The commit's reply is lost, or the row cannot be read again after it: an error is    *)
(* returned and the cache is not told.  A delete that fails changed nothing.           *)
ChangeFails(a) ==
    /\ admins[a].next # "none"
    /\ cache' = [u \in Accounts |->
            IF cache[u].is = "some" /\ admins[a].next = "invalidate" /\ Covers(admins[a].whose, u)
              THEN [cache[u] EXCEPT !.mishaps = @ \cup {"untold"}] ELSE cache[u]]
    /\ admins' = [admins EXCEPT ![a] = Idle]
    /\ UNCHANGED <<time, people, roles, loading, changes>>

CacheAges ==
    /\ time < MaxAgeOfRun /\ time' = time + 1
    /\ UNCHANGED <<people, roles, cache, loading, admins, changes>>

-----------------------------------------------------------------------------

RolesNext ==
    \/ \E l \in Loaders : \/ \E u \in Accounts : Load(l, u)
                          \/ InvalidateKey(l) \/ ReadFlags(l) \/ ReadModuleRoles(l)
                          \/ ReadPermissions(l) \/ StorePermissions(l) \/ LoadFails(l)
    \/ \E a \in Admins : \/ \E u \in Accounts : \/ SetUserActive(a, u) \/ SetUserSuperAdmin(a, u)
                                                \/ ReplaceUserModuleRoles(a, u) \/ ReplaceUserRoles(a, u)
                         \/ \E r \in Roles : UpdateRole(a, r) \/ ToggleRole(a, r) \/ CountUsers(a, r)
                         \/ DeleteRole(a) \/ Invalidate(a) \/ ChangeFails(a)
    \/ CreateRole \/ SweepCache \/ RestartCache \/ CacheAges

RolesSpec == RolesInit /\ [][RolesNext]_roleVars

-----------------------------------------------------------------------------
(* Properties *)

(* Types of the rows, the cache and the requests.                                       *)
RolesTypeOK ==
    /\ time \in Moments /\ changes \in 0..MaxChanges
    /\ people \in [Accounts -> Person] /\ roles \in [Roles -> Role]
    /\ cache \in [Accounts -> CachedPermissions]
    /\ loading \in [Loaders -> Loading] /\ admins \in [Admins -> Admin]

(* What Get may still return.                                                          *)
Served(u) == cache[u].is = "some" /\ ~Expired(cache[u])

Told(u) == \E a \in Admins : admins[a].next = "invalidate" /\ Covers(admins[a].whose, u)

(* A change is in effect as soon as the cache was told of it, whatever else is changed  *)
(* meanwhile: an entry that nothing happened to agrees with the rows or is about to be   *)
(* dropped.                                                                            *)
ChangesTakeEffect ==
    \A u \in Accounts :
        Served(u) /\ cache[u].mishaps = {} /\ cache[u].rights # RightsOf(u) => Told(u)

(* And an entry that something happened to is not served for longer than the TTL after    *)
(* the first change it does not show: its age counts from before its roles are read.      *)
StaleNoLongerThanTTL ==
    \A u \in Accounts :
        Served(u) /\ cache[u].rights # RightsOf(u) =>
            cache[u].changed # NeverChanged /\ time - cache[u].changed <= CacheTTL

(* Both, for every change of users, assignments, roles and their permissions.             *)
RolesInEffect == ChangesTakeEffect /\ StaleNoLongerThanTTL
=============================================================================
