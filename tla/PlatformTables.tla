--------------------------- MODULE PlatformTables ---------------------------
(***************************************************************************)
(* The system database: platform admins, roles, organizations and tenant   *)
(* settings of isched_DatabaseManager.cpp, the resolvers over them in      *)
(* isched_GqlExecutor.cpp, and the limiter of isched_RateLimiter.hpp.      *)
(*                                                                         *)
(* A function of DatabaseManager is atomic (system_db_mutex_, or one       *)
(* statement on a FULLMUTEX connection); a resolver calls several, and     *)
(* anything may happen in between.  Of a row only the key and the columns  *)
(* that decide something are kept; a role is its name.                     *)
(***************************************************************************)
EXTENDS Integers, Sequences, FiniteSets

CONSTANTS Threads,
          Emails,                 \* of platform admins; id and email go together
          BuiltIn, Custom,        \* names of roles
          Orgs,
          Asked,                  \* values of minThreads and maxThreads in requests
          DefaultMin, DefaultMax, \* 4 and 16 in the code
          Capacity, Minute,       \* the limiter's requests per minute, ticks in a minute
          MaxRequests, MaxTime, MaxFaults, MaxRestarts   \* bounds

Unset == -1

ASSUME PlatformAssumption ==
    /\ IsFiniteSet(Threads)
    /\ Asked \subseteq Int \ {Unset}
    /\ DefaultMin \in Nat \ {0} /\ DefaultMax \in Nat /\ DefaultMin <= DefaultMax
    /\ Capacity \in Nat \ {0} /\ Minute \in Nat \ {0}
    /\ MaxRequests \in Nat /\ MaxTime \in Nat /\ MaxFaults \in Nat
    /\ MaxRestarts \in Nat

VARIABLES
    ready,      \* system_db_initialized_
    admins,     \* platform_admins: "absent", "inactive" or "active" for each email
    roles,      \* platform_roles
    orgs,       \* organizations: revision of each, or Unset
    life,       \* history: how often each organization was created
    edits,      \* history: changes of the row since it was created
    tenantDb,   \* organizations whose tenant database was provisioned
    settings,   \* tenant_settings: min and max threads of each organization, or Unset
    mixed,      \* history: organizations whose settings two requests wrote at a time
    bucket,     \* the limiter's bucket of one address, in Minute-ths of a token
    refilled,   \* its last_refill
    allowed,    \* history: times of the requests it allowed, since the last start
    seeded,     \* history: admins created since one was last deactivated or deleted
    blind,      \* history: a gate was passed on a listing that failed or was cut short
    call, requests, now, faults, restarts

admin  == <<admins, seeded, blind>>
limit  == <<bucket, refilled, allowed>>
org    == <<orgs, life, edits, tenantDb>>
conf   == <<settings, mixed>>
bounds == <<now, faults, restarts>>
vars   == <<ready, admin, roles, org, conf, limit, call, requests, bounds>>

Idle == [op |-> "idle"]
MaybeInt == Asked \cup {Unset, 1, DefaultMin, DefaultMax}
Stored   == {i \in MaybeInt : i = Unset \/ i >= 1}

Call == {Idle}
   \cup [op : {"gate", "create"}, by : {"bootstrap", "seed"}, email : Emails]
   \cup [op : {"provision"}, org : Orgs]
   \cup [op : {"edit"}, org : Orgs, revision : Nat, life : Nat, edits : Nat]
   \cup [op : {"readMax", "writeMin", "writeMax"}, org : Orgs, min : MaybeInt, max : MaybeInt]

TypeOK ==
    /\ ready \in BOOLEAN
    /\ admins \in [Emails -> {"absent", "inactive", "active"}] /\ seeded \in Nat
    /\ blind \in BOOLEAN
    /\ roles \subseteq BuiltIn \cup Custom
    /\ orgs \in [Orgs -> Nat \cup {Unset}] /\ tenantDb \subseteq Orgs
    /\ life \in [Orgs -> Nat] /\ edits \in [Orgs -> Nat]
    /\ settings \in [Orgs -> [min : Stored, max : Stored]] /\ mixed \subseteq Orgs
    /\ bucket \in 0..(Capacity * Minute) /\ refilled \in 0..MaxTime
    /\ allowed \in Seq(0..MaxTime)
    /\ call \in [Threads -> Call]
    /\ requests \in 0..MaxRequests /\ now \in 0..MaxTime /\ faults \in 0..MaxFaults
    /\ restarts \in 0..MaxRestarts

\* The server's constructor calls ensure_system_db, and goes on when it fails.
Init ==
    /\ \/ ready = TRUE /\ roles = BuiltIn /\ faults = 0
       \/ ready = FALSE /\ roles = {} /\ faults = 1 /\ MaxFaults > 0
    /\ admins = [e \in Emails |-> "absent"] /\ seeded = 0 /\ blind = FALSE
    /\ orgs = [o \in Orgs |-> Unset] /\ tenantDb = {}
    /\ life = [o \in Orgs |-> 0] /\ edits = [o \in Orgs |-> 0]
    /\ settings = [o \in Orgs |-> [min |-> Unset, max |-> Unset]] /\ mixed = {}
    /\ bucket = Capacity * Minute /\ refilled = 0 /\ allowed = <<>>
    /\ call = [t \in Threads |-> Idle]
    /\ requests = 0 /\ now = 0 /\ restarts = 0

Goto(t, c) == call' = [call EXCEPT ![t] = c]

Request(t) == call[t] = Idle /\ requests < MaxRequests /\ requests' = requests + 1

Fault == faults < MaxFaults /\ faults' = faults + 1

-----------------------------------------------------------------------------
(* ensure_system_db, and the first admins                                  *)

\* Tables and columns are there afterwards, and the built-in roles.
EnsureSystemDb ==
    /\ ready' = TRUE
    /\ roles' = IF ready THEN roles ELSE roles \cup BuiltIn

SeedMode == \A e \in Emails : admins[e] # "active"

NoAdmins == \A e \in Emails : admins[e] = "absent"

\* bootstrapPlatformAdmin refuses as soon as there is a row, active or not.
BootstrapAllowed == NoAdmins

\* bootstrapPlatformAdmin up to its listing; completePlatformBootstrap calls it.  A listing
\* ends without an error at the first row that cannot be read, with the rows so far.
Bootstrap(t, e) ==
    /\ Request(t)
    /\ EnsureSystemDb
    /\ \/ /\ Goto(t, IF BootstrapAllowed THEN [op |-> "create", by |-> "bootstrap", email |-> e] ELSE Idle)
          /\ UNCHANGED <<blind, faults>>
       \/ /\ Fault
          /\ blind' = TRUE
          /\ Goto(t, [op |-> "create", by |-> "bootstrap", email |-> e])
    /\ UNCHANGED <<admins, seeded, org, conf, limit, now, restarts>>

\* platformBootstrapStatus also makes the tables.
BootstrapStatus(t) ==
    /\ Request(t)
    /\ EnsureSystemDb
    /\ UNCHANGED <<admin, org, conf, limit, call, bounds>>

\* Mutant: a bucket is full again as soon as time has passed.
RefilledAtOnce == IF now > refilled THEN Capacity * Minute ELSE bucket

\* TokenBucket::try_consume refills for the time that has passed ...
Refilled ==
    LET full == Capacity * Minute
        gained == bucket + (now - refilled) * Capacity
    IN  IF gained < full THEN gained ELSE full

\* ... and takes a token when there is a whole one: createPlatformAdmin's first step.
CreatePlatformAdmin(t, e) ==
    /\ Request(t)
    /\ refilled' = now
    /\ IF Refilled >= Minute
       THEN /\ bucket' = Refilled - Minute
            /\ allowed' = Append(allowed, now)
            /\ Goto(t, [op |-> "gate", by |-> "seed", email |-> e])
       ELSE /\ bucket' = Refilled
            /\ UNCHANGED <<allowed, call>>
    /\ UNCHANGED <<ready, admin, roles, org, conf, bounds>>

\* Mutant: the gate does not look at the admins.
SeedGateOpen(t) ==
    /\ call[t].op = "gate"
    /\ Goto(t, [call[t] EXCEPT !.op = "create"])
    /\ UNCHANGED <<ready, admin, roles, org, conf, limit, requests, bounds>>

\* The seed-mode gate, and the input checked behind it.  A listing that fails, as it does
\* before ensure_system_db has run, counts as seed mode; one cut short may miss the admins.
SeedGate(t) ==
    /\ call[t].op = "gate"
    /\ \/ /\ Goto(t, Idle)
          /\ UNCHANGED <<blind, faults>>
       \/ /\ ready /\ SeedMode
          /\ Goto(t, [call[t] EXCEPT !.op = "create"])
          /\ UNCHANGED <<blind, faults>>
       \/ /\ IF ready THEN Fault ELSE UNCHANGED faults
          /\ blind' = TRUE
          /\ Goto(t, [call[t] EXCEPT !.op = "create"])
    /\ UNCHANGED <<ready, admins, seeded, roles, org, conf, limit, requests, now, restarts>>

\* A duplicate, or a table that is not there, is an error.
create_platform_admin(e) ==
    IF ready /\ admins[e] = "absent"
    THEN /\ admins' = [admins EXCEPT ![e] = "active"]
         /\ seeded' = seeded + 1
    ELSE UNCHANGED <<admins, seeded>>

\* The rest of bootstrapPlatformAdmin.  Its session has no row: the platform has no
\* sessions table.
BootstrapAdmin(t) ==
    /\ call[t].op = "create" /\ call[t].by = "bootstrap"
    /\ create_platform_admin(call[t].email)
    /\ Goto(t, Idle)
    /\ UNCHANGED <<ready, blind, roles, org, conf, limit, requests, bounds>>

\* The rest of createPlatformAdmin.
CreateAdmin(t) ==
    /\ call[t].op = "create" /\ call[t].by = "seed"
    /\ create_platform_admin(call[t].email)
    /\ Goto(t, Idle)
    /\ UNCHANGED <<ready, blind, roles, org, conf, limit, requests, bounds>>

\* update_platform_admin and delete_platform_admin, which no resolver calls.
UpdatePlatformAdmin(t, e, active) ==
    /\ Request(t)
    /\ ready /\ admins[e] # "absent"
    /\ admins' = [admins EXCEPT ![e] = IF active THEN "active" ELSE "inactive"]
    /\ seeded' = IF active THEN seeded ELSE 0
    /\ UNCHANGED <<ready, blind, roles, org, conf, limit, call, bounds>>

DeletePlatformAdmin(t, e) ==
    /\ Request(t)
    /\ ready /\ admins[e] # "absent"
    /\ admins' = [admins EXCEPT ![e] = "absent"]
    /\ seeded' = 0
    /\ UNCHANGED <<ready, blind, roles, org, conf, limit, call, bounds>>

-----------------------------------------------------------------------------
(* Roles                                                                   *)

\* The name is unique.
create_platform_role(r) == ready /\ r \notin roles /\ roles' = roles \cup {r}

\* createRole, of platform scope: the other scope stores nothing.
CreateRole(t, r) ==
    /\ Request(t)
    /\ create_platform_role(r)
    /\ UNCHANGED <<ready, admin, org, conf, limit, call, bounds>>

\* A built-in role stays.
delete_platform_role(r) == ready /\ r \in roles \ BuiltIn /\ roles' = roles \ {r}

DeleteRole(t, r) ==
    /\ Request(t)
    /\ delete_platform_role(r)
    /\ UNCHANGED <<ready, admin, org, conf, limit, call, bounds>>

-----------------------------------------------------------------------------
(* Organizations                                                           *)

create_organization(o) ==
    /\ ready /\ orgs[o] = Unset
    /\ orgs' = [orgs EXCEPT ![o] = 0]
    /\ life' = [life EXCEPT ![o] = @ + 1]
    /\ edits' = [edits EXCEPT ![o] = 0]

\* Mutant: the tenant is not provisioned.
CreateOrganizationOnly(t, o) ==
    /\ Request(t)
    /\ create_organization(o)
    /\ UNCHANGED <<ready, admin, roles, tenantDb, conf, limit, call, bounds>>

\* The first of createOrganization's calls.
CreateOrganization(t, o) ==
    /\ Request(t)
    /\ create_organization(o)
    /\ Goto(t, [op |-> "provision", org |-> o])
    /\ UNCHANGED <<ready, admin, roles, tenantDb, conf, limit, bounds>>

\* initialize_tenant, whose failure is ignored; the row is then read back.
ProvisionTenant(t) ==
    /\ call[t].op = "provision"
    /\ \/ tenantDb' = tenantDb \cup {call[t].org} /\ UNCHANGED faults
       \/ Fault /\ UNCHANGED tenantDb
    /\ Goto(t, Idle)
    /\ UNCHANGED <<ready, admin, roles, orgs, life, edits, conf, limit, requests, now, restarts>>

\* A client reads a row with organization, to change it under expectedRevision.
ReadOrganization(t, o) ==
    /\ Request(t)
    /\ ready /\ orgs[o] # Unset
    /\ Goto(t, [op |-> "edit", org |-> o, revision |-> orgs[o], life |-> life[o], edits |-> edits[o]])
    /\ UNCHANGED <<ready, admin, roles, org, conf, limit, bounds>>

\* Mutant: only an update under expectedRevision raises the revision.
BumpedGuarded(o, guarded) ==
    /\ orgs' = [orgs EXCEPT ![o] = IF guarded THEN @ + 1 ELSE @]
    /\ edits' = [edits EXCEPT ![o] = @ + 1]

\* update_organization raises the revision, whatever else it sets.
Bumped(o, guarded) ==
    /\ orgs' = [orgs EXCEPT ![o] = @ + 1]
    /\ edits' = [edits EXCEPT ![o] = @ + 1]

\* updateOrganization with expectedRevision: NotFound and VersionConflict change nothing.
UpdateOrganization(t) ==
    /\ call[t].op = "edit"
    /\ IF orgs[call[t].org] = call[t].revision THEN Bumped(call[t].org, TRUE)
       ELSE UNCHANGED <<orgs, edits>>
    /\ Goto(t, Idle)
    /\ UNCHANGED <<ready, admin, roles, life, tenantDb, conf, limit, requests, bounds>>

\* updateOrganization without it.
OverwriteOrganization(t, o) ==
    /\ Request(t)
    /\ ready /\ orgs[o] # Unset
    /\ Bumped(o, FALSE)
    /\ UNCHANGED <<ready, admin, roles, life, tenantDb, conf, limit, call, bounds>>

\* The tenant's database stays.
delete_organization(o) == ready /\ orgs[o] # Unset /\ orgs' = [orgs EXCEPT ![o] = Unset]

DeleteOrganization(t, o) ==
    /\ Request(t)
    /\ delete_organization(o)
    /\ UNCHANGED <<ready, admin, roles, life, edits, tenantDb, conf, limit, call, bounds>>

-----------------------------------------------------------------------------
(* updateTenantConfig                                                      *)

Busy(o) == {t \in Threads : call[t].op \in {"readMax", "writeMin", "writeMax"} /\ call[t].org = o}

\* A value asked for, else the stored one, else the default.
Wanted(asked, stored, default) ==
    IF asked # Unset THEN asked ELSE IF stored # Unset THEN stored ELSE default

\* get_tenant_setting for min_threads.
ConfigReadMin(t, o, min, max) ==
    /\ Request(t)
    /\ ready
    /\ mixed' = IF Busy(o) = {} THEN mixed ELSE mixed \cup {o}
    /\ Goto(t, [op |-> "readMax", org |-> o, max |-> max,
                min |-> Wanted(min, settings[o].min, DefaultMin)])
    /\ UNCHANGED <<ready, admin, roles, org, settings, limit, bounds>>

\* Mutant: the maximum is raised to one, not to the minimum.
ClampedLow(min, max) == [min |-> IF min < 1 THEN 1 ELSE min, max |-> IF max < 1 THEN 1 ELSE max]

Clamped(min, max) ==
    LET low == IF min < 1 THEN 1 ELSE min
    IN  [min |-> low, max |-> IF max < low THEN low ELSE max]

\* get_tenant_setting for max_threads, and the limits.
ConfigReadMax(t) ==
    /\ call[t].op = "readMax"
    /\ LET c == call[t]
           v == Clamped(c.min, Wanted(c.max, settings[c.org].max, DefaultMax))
       IN  Goto(t, [op |-> "writeMin", org |-> c.org, min |-> v.min, max |-> v.max])
    /\ UNCHANGED <<ready, admin, roles, org, conf, limit, requests, bounds>>

\* set_tenant_setting, a call for each value; a failure is ignored.
ConfigWriteMin(t) ==
    /\ call[t].op = "writeMin"
    /\ settings' = [settings EXCEPT ![call[t].org].min = call[t].min]
    /\ Goto(t, [call[t] EXCEPT !.op = "writeMax"])
    /\ UNCHANGED <<ready, admin, roles, org, mixed, limit, requests, bounds>>

ConfigWriteMax(t) ==
    /\ call[t].op = "writeMax"
    /\ settings' = [settings EXCEPT ![call[t].org].max = call[t].max]
    /\ Goto(t, Idle)
    /\ UNCHANGED <<ready, admin, roles, org, mixed, limit, requests, bounds>>

\* One of the two writes fails: the request goes on to its end.
ConfigWriteFails(t) ==
    /\ call[t].op \in {"writeMin", "writeMax"}
    /\ Fault
    /\ mixed' = mixed \cup {call[t].org}
    /\ Goto(t, IF call[t].op = "writeMin" THEN [call[t] EXCEPT !.op = "writeMax"] ELSE Idle)
    /\ UNCHANGED <<ready, admin, roles, org, settings, limit, requests, now, restarts>>

-----------------------------------------------------------------------------

Tick ==
    /\ now < MaxTime
    /\ now' = now + 1
    /\ UNCHANGED <<ready, admin, roles, org, conf, limit, call, requests, faults, restarts>>

\* The process dies and comes back: the limiter and the requests are gone.
Restart ==
    /\ restarts < MaxRestarts
    /\ restarts' = restarts + 1
    /\ \/ ready' = TRUE /\ roles' = roles \cup BuiltIn /\ UNCHANGED faults
       \/ ready' = FALSE /\ Fault /\ UNCHANGED roles
    /\ call' = [t \in Threads |-> Idle]
    /\ bucket' = Capacity * Minute /\ refilled' = now /\ allowed' = <<>>
    /\ mixed' = mixed \cup {o \in Orgs : Busy(o) # {}}
    /\ UNCHANGED <<admin, org, settings, requests, now>>

AdminStep(t) ==
    \/ \E e \in Emails :
          \/ Bootstrap(t, e) \/ CreatePlatformAdmin(t, e)
          \/ \E active \in BOOLEAN : UpdatePlatformAdmin(t, e, active)
          \/ DeletePlatformAdmin(t, e)
    \/ BootstrapStatus(t) \/ SeedGate(t) \/ BootstrapAdmin(t) \/ CreateAdmin(t)

RoleStep(t) == \E r \in BuiltIn \cup Custom : CreateRole(t, r) \/ DeleteRole(t, r)

OrgStep(t) ==
    \/ \E o \in Orgs :
          \/ CreateOrganization(t, o) \/ ReadOrganization(t, o)
          \/ OverwriteOrganization(t, o) \/ DeleteOrganization(t, o)
    \/ ProvisionTenant(t) \/ UpdateOrganization(t)

ConfigStep(t) ==
    \/ \E o \in Orgs, min, max \in Asked \cup {Unset} : ConfigReadMin(t, o, min, max)
    \/ ConfigReadMax(t) \/ ConfigWriteMin(t) \/ ConfigWriteMax(t) \/ ConfigWriteFails(t)

Next == (\E t \in Threads : AdminStep(t) \/ RoleStep(t) \/ OrgStep(t) \/ ConfigStep(t)) \/ Tick \/ Restart

Spec == Init /\ [][Next]_vars

-----------------------------------------------------------------------------
(* Properties                                                              *)

\* The gates of bootstrapPlatformAdmin and createPlatformAdmin are tested in one call and
\* the admin is created in another.  Between two deactivations or deletions they let in
\* no more admins than there are threads past the gate at once, through restarts too,
\* unless a gate was passed on a listing that failed.
SeedingIsBounded == ~blind => seeded <= Cardinality(Threads)

\* isched_GqlExecutor.cpp:1700, "Organization was modified by another user": an update
\* under the revision its client read changes the row only if nobody else has since,
\* with or without an expectedRevision, unless the organization was deleted and made
\* again in between (which starts its revisions again).
NoLostUpdate ==
    [][\A t \in Threads :
          (call[t].op = "edit" /\ call'[t] # call[t] /\ orgs' # orgs)
          => \/ edits[call[t].org] = call[t].edits
             \/ life[call[t].org] # call[t].life]_vars

\* An organization without a tenant database is still being made, unless a statement
\* failed or the process died on the way, after which nothing provisions it.
Provisioned ==
    faults + restarts = 0 =>
       \A o \in Orgs : orgs[o] # Unset =>
          o \in tenantDb \/ \E t \in Threads : call[t] = [op |-> "provision", org |-> o]

\* updateTenantConfig reads and writes each value in a call of its own: as long as no two
\* updates of an organization overlap, no write fails and none is cut off by a restart, its
\* values are in order at rest, whatever values were asked for.
SettingsOrdered ==
    \A o \in Orgs \ mixed :
       Busy(o) = {} => /\ settings[o].min \in {Unset} \cup (1..settings[o].max)
                       /\ settings[o].min = Unset <=> settings[o].max = Unset

\* A bucket starts full and refills meanwhile: no minute sees two capacities.  This is the
\* bound in exact arithmetic; the code adds up doubles, which may round to one request more.
LimiterHolds ==
    Cardinality({k \in 1..Len(allowed) : now - allowed[k] < Minute}) < 2 * Capacity

\* Organizations, in every state: the types, and a tenant database for each or a
\* createOrganization about to make it.
OrganizationsInv == TypeOK /\ Provisioned
=============================================================================
