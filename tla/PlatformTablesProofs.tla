------------------------ MODULE PlatformTablesProofs ------------------------
(***************************************************************************)
(* Proofs about PlatformTables: the types, the limiter, the first admins,  *)
(* updates under a revision, provisioning, and the order of a tenant's     *)
(* settings.  Each part has its own steps of the requests; a step of one   *)
(* part leaves the others' state alone.                                    *)
(***************************************************************************)
EXTENDS PlatformTables, FiniteSetTheorems, TLAPS

AdminOps  == {"gate", "create"}
OrgOps    == {"provision", "edit"}
ConfigOps == {"readMax", "writeMin", "writeMax"}

\* What the requests allowed since s took, and what is left, was in the bucket at s or
\* has been refilled since; no request is later than the last refill.
Since(s) == {k \in 1..Len(allowed) : allowed[k] >= s}

LimiterInv ==
    /\ refilled <= now
    /\ \A k \in 1..Len(allowed) : allowed[k] <= refilled
    /\ \A s \in 0..refilled :
          Minute * Cardinality(Since(s)) + bucket <= Capacity * Minute + (refilled - s) * Capacity

\* Requests past a gate of the first admins.
Past == {t \in Threads : call[t].op = "create"}

SeedInv ==
    /\ seeded > 0 => ~SeedMode
    /\ ~blind => seeded + Cardinality(Past) <= Cardinality(Threads)

\* The revision counts the changes of the row.
EditInv ==
    /\ \A o \in Orgs : orgs[o] # Unset => orgs[o] = edits[o]
    /\ \A t \in Threads : call[t].op = "edit" => call[t].revision = call[t].edits

\* Settings in order.
InOrder(o) ==
    /\ settings[o].min \in {Unset} \cup (1..settings[o].max)
    /\ settings[o].min = Unset <=> settings[o].max = Unset

\* The values about to be written are within their limits.
Limited ==
    \A t \in Threads : call[t].op \in {"writeMin", "writeMax"} =>
       1 <= call[t].min /\ call[t].min <= call[t].max

\* What the one update of an organization in progress relies on, at each of its steps.
Prepared(t, o) ==
    IF call[t].op = "writeMax" THEN settings[o].min = call[t].min ELSE InOrder(o)

SettingsInv ==
    \A o \in Orgs \ mixed :
       /\ Busy(o) = {} => InOrder(o)
       /\ \A t, u \in Busy(o) : t = u
       /\ \A t \in Busy(o) : Prepared(t, o)

PlatformInv == TypeOK /\ LimiterInv /\ SeedInv /\ EditInv /\ Limited /\ SettingsInv /\ Provisioned

-----------------------------------------------------------------------------
(* The requests in progress                                                *)

\* The fields of a request in progress are what their names say.
LEMMA Fields ==
    ASSUME call \in [Threads -> Call], NEW t \in Threads
    PROVE  /\ call[t].op \in AdminOps =>
                 /\ call[t].by \in {"bootstrap", "seed"} /\ call[t].email \in Emails
                 /\ [call[t] EXCEPT !.op = "create"] \in Call
                 /\ [call[t] EXCEPT !.op = "create"].op = "create"
           /\ call[t].op = "provision" => call[t].org \in Orgs
           /\ call[t].op = "edit" => /\ call[t].org \in Orgs /\ call[t].revision \in Nat
                                     /\ call[t].life \in Nat /\ call[t].edits \in Nat
           /\ call[t].op \in ConfigOps =>
                 /\ call[t].org \in Orgs /\ call[t].min \in MaybeInt /\ call[t].max \in MaybeInt
                 /\ [call[t] EXCEPT !.op = "writeMax"] \in Call
                 /\ [call[t] EXCEPT !.op = "writeMax"].op = "writeMax"
                 /\ [call[t] EXCEPT !.op = "writeMax"].org = call[t].org
                 /\ [call[t] EXCEPT !.op = "writeMax"].min = call[t].min
                 /\ [call[t] EXCEPT !.op = "writeMax"].max = call[t].max
           /\ call[t].op \in {"idle"} \cup AdminOps \cup OrgOps \cup ConfigOps
  <1>1. call[t] \in Call
    OBVIOUS
  <1>2. CASE call[t] = Idle
    BY <1>2 DEF Idle, AdminOps, OrgOps, ConfigOps
  <1>3. CASE call[t] \in [op : {"gate", "create"}, by : {"bootstrap", "seed"}, email : Emails]
    <2>1. [call[t] EXCEPT !.op = "create"] \in [op : {"gate", "create"}, by : {"bootstrap", "seed"}, email : Emails]
      BY <1>3
    <2>2. [call[t] EXCEPT !.op = "create"] \in Call
      BY <2>1, Zenon DEF Call
    <2> QED
      BY <1>3, <2>2 DEF AdminOps, OrgOps, ConfigOps
  <1>4. CASE call[t] \in [op : {"provision"}, org : Orgs]
    BY <1>4 DEF AdminOps, OrgOps, ConfigOps
  <1>5. CASE call[t] \in [op : {"edit"}, org : Orgs, revision : Nat, life : Nat, edits : Nat]
    BY <1>5 DEF AdminOps, OrgOps, ConfigOps
  <1>6. CASE call[t] \in [op : {"readMax", "writeMin", "writeMax"}, org : Orgs, min : MaybeInt, max : MaybeInt]
    <2>1. [call[t] EXCEPT !.op = "writeMax"] \in
             [op : {"readMax", "writeMin", "writeMax"}, org : Orgs, min : MaybeInt, max : MaybeInt]
      BY <1>6
    <2>2. [call[t] EXCEPT !.op = "writeMax"] \in Call
      BY <2>1, Zenon DEF Call
    <2> QED
      BY <1>6, <2>2 DEF AdminOps, OrgOps, ConfigOps
  <1> QED
    BY <1>1, <1>2, <1>3, <1>4, <1>5, <1>6, Zenon DEF Call

\* The records that the actions make are requests.
LEMMA Records ==
    /\ Idle \in Call /\ Idle.op = "idle"
    /\ \A op \in {"gate", "create"}, by \in {"bootstrap", "seed"}, e \in Emails :
          [op |-> op, by |-> by, email |-> e] \in Call
    /\ \A o \in Orgs : [op |-> "provision", org |-> o] \in Call
    /\ \A o \in Orgs, r \in Nat, l \in Nat, d \in Nat :
          [op |-> "edit", org |-> o, revision |-> r, life |-> l, edits |-> d] \in Call
    /\ \A op \in ConfigOps, o \in Orgs, lo \in MaybeInt, hi \in MaybeInt :
          [op |-> op, org |-> o, min |-> lo, max |-> hi] \in Call
  BY SMT DEF Call, Idle, ConfigOps

\* A thread goes from one step of these to another, or from and to rest.
Moves(t, ops) ==
    \E c \in Call : /\ call[t].op \in ops \cup {"idle"} /\ c.op \in ops \cup {"idle"}
                    /\ call' = [call EXCEPT ![t] = c]

\* A step of a request changes that request's state only.
LEMMA Moved ==
    ASSUME call \in [Threads -> Call], NEW t \in Threads, NEW c \in Call,
           call' = [call EXCEPT ![t] = c]
    PROVE  /\ call' \in [Threads -> Call] /\ call'[t] = c
           /\ \A u \in Threads \ {t} : call'[u] = call[u]
  OBVIOUS

\* No request at one of these steps comes, goes or changes.
Steady(ops) ==
    \A u \in Threads : call[u].op \in ops \/ call'[u].op \in ops => call'[u] = call[u]

\* A thread that moves among some steps leaves the requests at the others alone.
LEMMA MovesSteady ==
    ASSUME call \in [Threads -> Call], NEW t \in Threads, NEW ops, Moves(t, ops),
           NEW others, others \cap (ops \cup {"idle"}) = {}
    PROVE  call' \in [Threads -> Call] /\ Steady(others)
  <1>1. PICK c \in Call : /\ call[t].op \in ops \cup {"idle"} /\ c.op \in ops \cup {"idle"}
                          /\ call' = [call EXCEPT ![t] = c]
    BY DEF Moves
  <1>2. /\ call' \in [Threads -> Call] /\ call'[t] = c
        /\ \A u \in Threads \ {t} : call'[u] = call[u]
    BY <1>1, Moved, Zenon
  <1> QED
    BY <1>1, <1>2 DEF Steady

\* A request that begins or ends at once leaves the thread at rest.
LEMMA StaysIdle ==
    ASSUME call \in [Threads -> Call], NEW t \in Threads, call[t] = Idle, call' = call, NEW ops
    PROVE  Moves(t, ops)
  <1>1. call' = [call EXCEPT ![t] = Idle]
    OBVIOUS
  <1> QED
    BY <1>1, Records DEF Moves

-----------------------------------------------------------------------------
(* What each part's steps leave alone                                      *)

\* The requests about administrators move among their own steps.
LEMMA AdminMoves ==
    ASSUME TypeOK, NEW t \in Threads, AdminStep(t)
    PROVE  Moves(t, AdminOps) /\ UNCHANGED <<org, conf, now, restarts>>
  <1>0. call \in [Threads -> Call] /\ "idle" \in AdminOps \cup {"idle"} /\ AdminOps = {"gate", "create"}
    BY DEF TypeOK, AdminOps
  <1>1. ASSUME NEW e \in Emails, Bootstrap(t, e) PROVE Moves(t, AdminOps) /\ UNCHANGED <<org, conf, now, restarts>>
    <2>1. call[t] = Idle /\ UNCHANGED <<org, conf, now, restarts>>
      BY <1>1, Zenon DEF Bootstrap, Request
    <2>2. \E c \in {Idle, [op |-> "create", by |-> "bootstrap", email |-> e]} : call' = [call EXCEPT ![t] = c]
      BY <1>1 DEF Bootstrap, Goto
    <2> QED
      BY <1>0, <2>1, <2>2, Records DEF Moves
  <1>2. ASSUME NEW e \in Emails, CreatePlatformAdmin(t, e)
        PROVE  Moves(t, AdminOps) /\ UNCHANGED <<org, conf, now, restarts>>
    <2>1. call[t] = Idle /\ UNCHANGED <<org, conf, now, restarts>>
      BY <1>2, Zenon DEF CreatePlatformAdmin, Request, bounds
    <2>2. CASE call' = call
      BY <1>0, <2>1, <2>2, StaysIdle, Zenon
    <2>3. CASE call' = [call EXCEPT ![t] = [op |-> "gate", by |-> "seed", email |-> e]]
      BY <1>0, <2>1, <2>3, Records DEF Moves
    <2> QED
      BY <1>2, <2>1, <2>2, <2>3, Zenon DEF CreatePlatformAdmin, Goto
  <1>3. ASSUME NEW e \in Emails, DeletePlatformAdmin(t, e) \/ \E active \in BOOLEAN : UpdatePlatformAdmin(t, e, active)
        PROVE  Moves(t, AdminOps) /\ UNCHANGED <<org, conf, now, restarts>>
    <2>1. call[t] = Idle /\ call' = call /\ UNCHANGED <<org, conf, now, restarts>>
      BY <1>3, Zenon DEF UpdatePlatformAdmin, DeletePlatformAdmin, Request, bounds
    <2> QED
      BY <1>0, <2>1, StaysIdle, Zenon
  <1>4. ASSUME BootstrapStatus(t) PROVE Moves(t, AdminOps) /\ UNCHANGED <<org, conf, now, restarts>>
    <2>1. call[t] = Idle /\ call' = call /\ UNCHANGED <<org, conf, now, restarts>>
      BY <1>4, Zenon DEF BootstrapStatus, Request, bounds
    <2> QED
      BY <1>0, <2>1, StaysIdle, Zenon
  <1>5. ASSUME SeedGate(t) PROVE Moves(t, AdminOps) /\ UNCHANGED <<org, conf, now, restarts>>
    <2>1. /\ call[t].op = "gate" /\ UNCHANGED <<org, conf, now, restarts>>
          /\ \E c \in {Idle, [call[t] EXCEPT !.op = "create"]} : call' = [call EXCEPT ![t] = c]
      BY <1>5 DEF SeedGate, Goto
    <2>2. [call[t] EXCEPT !.op = "create"] \in Call /\ [call[t] EXCEPT !.op = "create"].op = "create"
      BY <1>0, <2>1, Fields
    <2> QED
      BY <1>0, <2>1, <2>2, Records DEF Moves
  <1>6. ASSUME BootstrapAdmin(t) \/ CreateAdmin(t) PROVE Moves(t, AdminOps) /\ UNCHANGED <<org, conf, now, restarts>>
    BY <1>0, <1>6, Records DEF BootstrapAdmin, CreateAdmin, Goto, Moves, bounds
  <1> QED
    BY <1>1, <1>2, <1>3, <1>4, <1>5, <1>6, Zenon DEF AdminStep

\* The requests about roles change nothing but the roles.
LEMMA RoleMoves ==
    ASSUME TypeOK, NEW t \in Threads, RoleStep(t)
    PROVE  call' = call /\ UNCHANGED <<admin, org, conf, limit, bounds>> /\ ready' = ready
  BY Zenon DEF RoleStep, CreateRole, DeleteRole

\* The requests about organizations move among their own steps.
LEMMA OrgMoves ==
    ASSUME TypeOK, NEW t \in Threads, OrgStep(t)
    PROVE  Moves(t, OrgOps) /\ UNCHANGED <<ready, admin, roles, conf, limit, now, restarts>>
  <1>0. call \in [Threads -> Call] /\ OrgOps = {"provision", "edit"}
    BY DEF TypeOK, OrgOps
  <1>1. ASSUME NEW o \in Orgs, CreateOrganization(t, o)
        PROVE  Moves(t, OrgOps) /\ UNCHANGED <<ready, admin, roles, conf, limit, now, restarts>>
    BY <1>0, <1>1, Records DEF CreateOrganization, Request, Goto, Moves, bounds
  <1>2. ASSUME NEW o \in Orgs, ReadOrganization(t, o)
        PROVE  Moves(t, OrgOps) /\ UNCHANGED <<ready, admin, roles, conf, limit, now, restarts>>
    <2>1. orgs[o] \in Nat /\ life[o] \in Nat /\ edits[o] \in Nat
      BY <1>2 DEF TypeOK, ReadOrganization
    <2> QED
      BY <1>0, <1>2, <2>1, Records DEF ReadOrganization, Request, Goto, Moves, bounds
  <1>3. ASSUME NEW o \in Orgs, OverwriteOrganization(t, o) \/ DeleteOrganization(t, o)
        PROVE  Moves(t, OrgOps) /\ UNCHANGED <<ready, admin, roles, conf, limit, now, restarts>>
    <2>1. call[t] = Idle /\ call' = call /\ UNCHANGED <<ready, admin, roles, conf, limit, now, restarts>>
      BY <1>3, Zenon DEF OverwriteOrganization, DeleteOrganization, Request, bounds
    <2> QED
      BY <1>0, <2>1, StaysIdle, Zenon
  <1>4. ASSUME ProvisionTenant(t) \/ UpdateOrganization(t)
        PROVE  Moves(t, OrgOps) /\ UNCHANGED <<ready, admin, roles, conf, limit, now, restarts>>
    BY <1>0, <1>4, Records DEF ProvisionTenant, UpdateOrganization, Goto, Moves, bounds
  <1> QED
    BY <1>1, <1>2, <1>3, <1>4, Zenon DEF OrgStep

\* The value an update goes on with is no Unset, ...
LEMMA WantedValue ==
    ASSUME NEW asked \in MaybeInt, NEW stored \in Stored, NEW default \in {DefaultMin, DefaultMax}
    PROVE  Wanted(asked, stored, default) \in MaybeInt
  BY DEF Wanted, MaybeInt, Stored

\* ... and the limits make it one that can be stored.
LEMMA ClampedValue ==
    ASSUME NEW lo \in MaybeInt, NEW hi \in MaybeInt
    PROVE  /\ Clamped(lo, hi).min \in Stored /\ Clamped(lo, hi).max \in Stored
           /\ 1 <= Clamped(lo, hi).min /\ Clamped(lo, hi).min <= Clamped(lo, hi).max
           /\ Clamped(lo, hi).min # Unset /\ Clamped(lo, hi).max # Unset
           /\ Clamped(lo, hi).min \in MaybeInt /\ Clamped(lo, hi).max \in MaybeInt
  <1>1. MaybeInt \subseteq Int /\ 1 \in MaybeInt
    BY PlatformAssumption DEF MaybeInt, Unset
  <1>2. PICK low : low = IF lo < 1 THEN 1 ELSE lo
    OBVIOUS
  <1>3. PICK high : high = IF hi < low THEN low ELSE hi
    OBVIOUS
  <1>4. low \in MaybeInt /\ 1 <= low /\ low \in Int
    BY <1>1, <1>2, SMT
  <1>5. high \in MaybeInt /\ low <= high /\ high \in Int
    BY <1>1, <1>3, <1>4, SMT
  <1>6. low \in Stored /\ high \in Stored /\ low # Unset /\ high # Unset
    BY <1>4, <1>5, SMT DEF Stored, Unset
  <1>7. Clamped(lo, hi).min = low /\ Clamped(lo, hi).max = high
    BY <1>2, <1>3 DEF Clamped
  <1> QED
    BY <1>4, <1>5, <1>6, <1>7

\* updateTenantConfig moves among its own steps, and what it is about to write is in order.
LEMMA ConfigMoves ==
    ASSUME TypeOK, Limited, NEW t \in Threads, ConfigStep(t)
    PROVE  /\ Moves(t, ConfigOps) /\ UNCHANGED <<ready, admin, roles, org, limit, now, restarts>>
           /\ Limited' /\ settings' \in [Orgs -> [min : Stored, max : Stored]] /\ mixed' \subseteq Orgs
  <1>0. /\ call \in [Threads -> Call] /\ ConfigOps = {"readMax", "writeMin", "writeMax"}
        /\ settings \in [Orgs -> [min : Stored, max : Stored]] /\ mixed \subseteq Orgs
    BY DEF TypeOK, ConfigOps
  <1>1. ASSUME NEW c \in Call, call' = [call EXCEPT ![t] = c],
               c.op \in {"writeMin", "writeMax"} => 1 <= c.min /\ c.min <= c.max
        PROVE  Limited'
    <2>1. call'[t] = c /\ \A u \in Threads \ {t} : call'[u] = call[u]
      BY <1>0, <1>1, Moved, Zenon
    <2>2. ASSUME NEW u \in Threads, call'[u].op \in {"writeMin", "writeMax"}
          PROVE  1 <= call'[u].min /\ call'[u].min <= call'[u].max
      <3>1. CASE u = t
        BY <1>1, <2>1, <2>2, <3>1
      <3>2. CASE u # t
        <4>1. call'[u] = call[u]
          BY <2>1, <3>2
        <4> QED
          BY <2>2, <4>1, Zenon DEF Limited
      <3> QED
        BY <3>1, <3>2
    <2> QED
      BY <2>2, Zenon DEF Limited
  <1>2. ASSUME NEW o \in Orgs, NEW lo \in Asked \cup {Unset}, NEW hi \in Asked \cup {Unset},
               ConfigReadMin(t, o, lo, hi)
        PROVE  /\ Moves(t, ConfigOps) /\ UNCHANGED <<ready, admin, roles, org, limit, now, restarts>>
               /\ Limited' /\ settings' = settings /\ mixed' \subseteq Orgs
    <2> DEFINE c == [op |-> "readMax", org |-> o, max |-> hi, min |-> Wanted(lo, settings[o].min, DefaultMin)]
    <2>1. settings[o].min \in Stored /\ lo \in MaybeInt /\ hi \in MaybeInt
      BY <1>0 DEF MaybeInt
    <2>2. Wanted(lo, settings[o].min, DefaultMin) \in MaybeInt
      BY <2>1, WantedValue
    <2>3. c \in Call /\ c.op = "readMax"
      BY <1>0, <2>1, <2>2, Records
    <2>4. call[t].op = "idle" /\ call' = [call EXCEPT ![t] = c]
      BY <1>2 DEF ConfigReadMin, Request, Goto, Idle
    <2> HIDE DEF c
    <2>5. Moves(t, ConfigOps)
      BY <1>0, <2>3, <2>4 DEF Moves
    <2>6. Limited'
      BY <1>1, <2>3, <2>4
    <2>7. mixed' \subseteq Orgs
      BY <1>0, <1>2 DEF ConfigReadMin
    <2> QED
      BY <1>2, <2>5, <2>6, <2>7, Zenon DEF ConfigReadMin, bounds
  <1>3. ASSUME ConfigReadMax(t)
        PROVE  /\ Moves(t, ConfigOps) /\ UNCHANGED <<ready, admin, roles, org, limit, now, restarts>>
               /\ Limited' /\ settings' = settings /\ mixed' = mixed
    <2>1. call[t].op = "readMax"
      BY <1>3 DEF ConfigReadMax
    <2>2. call[t].org \in Orgs /\ call[t].min \in MaybeInt /\ call[t].max \in MaybeInt
      BY <1>0, <2>1, Fields
    <2>3. PICK w : w = Wanted(call[t].max, settings[call[t].org].max, DefaultMax)
      OBVIOUS
    <2>4. w \in MaybeInt
      BY <1>0, <2>2, <2>3, WantedValue
    <2>5. PICK v : v = Clamped(call[t].min, w)
      OBVIOUS
    <2>6. v.min \in MaybeInt /\ v.max \in MaybeInt /\ 1 <= v.min /\ v.min <= v.max
      BY <2>2, <2>4, <2>5, ClampedValue
    <2> DEFINE c == [op |-> "writeMin", org |-> call[t].org, min |-> v.min, max |-> v.max]
    <2>7. c \in Call /\ c.op = "writeMin" /\ c.min = v.min /\ c.max = v.max
      BY <1>0, <2>2, <2>6, Records
    <2>8. call' = [call EXCEPT ![t] = c]
      BY <1>3, <2>3, <2>5 DEF ConfigReadMax, Goto
    <2> HIDE DEF c
    <2>9. Moves(t, ConfigOps)
      BY <1>0, <2>1, <2>7, <2>8 DEF Moves
    <2>10. Limited'
      BY <1>1, <2>6, <2>7, <2>8
    <2> QED
      BY <1>3, <2>9, <2>10, Zenon DEF ConfigReadMax, bounds, conf
  <1>4. ASSUME ConfigWriteMin(t) \/ ConfigWriteMax(t) \/ ConfigWriteFails(t)
        PROVE  /\ Moves(t, ConfigOps) /\ UNCHANGED <<ready, admin, roles, org, limit, now, restarts>>
               /\ Limited' /\ settings' \in [Orgs -> [min : Stored, max : Stored]] /\ mixed' \subseteq Orgs
    <2>1. call[t].op \in {"writeMin", "writeMax"}
      BY <1>4 DEF ConfigWriteMin, ConfigWriteMax, ConfigWriteFails
    <2>2. 1 <= call[t].min /\ call[t].min <= call[t].max
      BY <2>1, Zenon DEF Limited
    <2> DEFINE next == [call[t] EXCEPT !.op = "writeMax"]
    <2>3. /\ call[t].org \in Orgs /\ call[t].min \in MaybeInt /\ call[t].max \in MaybeInt
          /\ next \in Call /\ next.op = "writeMax" /\ next.min = call[t].min /\ next.max = call[t].max
      BY <1>0, <2>1, Fields
    <2>4. call' = [call EXCEPT ![t] = next] \/ call' = [call EXCEPT ![t] = Idle]
      BY <1>4 DEF ConfigWriteMin, ConfigWriteMax, ConfigWriteFails, Goto
    <2> HIDE DEF next
    <2>5. PICK c \in {next, Idle} : call' = [call EXCEPT ![t] = c]
      BY <2>4
    <2>6. c \in Call /\ c.op \in {"writeMax", "idle"} /\ (c.op = "writeMax" => c.min = call[t].min /\ c.max = call[t].max)
      BY <2>3, <2>5, Records
    <2>7. Moves(t, ConfigOps)
      BY <1>0, <2>1, <2>5, <2>6 DEF Moves
    <2>8. Limited'
      BY <1>1, <2>2, <2>5, <2>6
    <2>9. call[t].min \in Stored /\ call[t].max \in Stored
      <3>1. MaybeInt \subseteq Int
        BY PlatformAssumption DEF MaybeInt, Unset
      <3>2. \A i \in MaybeInt : 1 <= i => i \in Stored
        BY <3>1, SMT DEF Stored
      <3>3. \A i, j \in MaybeInt : 1 <= i /\ i <= j => 1 <= j
        BY <3>1, SMT
      <3> QED
        BY <2>2, <2>3, <3>2, <3>3, Zenon
    <2>10. settings' \in [Orgs -> [min : Stored, max : Stored]] /\ mixed' \subseteq Orgs
      BY <1>0, <1>4, <2>3, <2>9 DEF ConfigWriteMin, ConfigWriteMax, ConfigWriteFails
    <2> QED
      BY <1>4, <2>7, <2>8, <2>10, Zenon DEF ConfigWriteMin, ConfigWriteMax, ConfigWriteFails, bounds
  <1> QED
    BY <1>0, <1>2, <1>3, <1>4, Zenon DEF ConfigStep

-----------------------------------------------------------------------------
(* The limiter                                                             *)

\* What the proofs need of products.
LEMMA Products ==
    /\ \A a, b \in Nat : a * b \in Nat
    /\ \A a, b \in Nat : a * (b + 1) = a * b + a
    /\ \A a \in Nat : a * 0 = 0
    /\ \A a, b, c, d \in Nat : a <= b /\ b <= c => (b - a) * d + (c - b) * d = (c - a) * d
    /\ \A a, b, c \in Nat : a <= b => a * c <= b * c
  <1>1. \A a, b \in Nat : a * b \in Nat
    BY SMT
  <1>2. \A a, b \in Nat : a * (b + 1) = a * b + a
    BY SMT
  <1>3. \A a \in Nat : a * 0 = 0
    BY SMT
  <1>4. \A a, b, c, d \in Nat : a <= b /\ b <= c => (b - a) * d + (c - b) * d = (c - a) * d
    BY SMT
  <1>5. \A a, b, c \in Nat : a <= b => a * c <= b * c
    BY SMT
  <1> QED
    BY <1>1, <1>2, <1>3, <1>4, <1>5

\* The requests allowed since s are finitely many.
LEMMA SinceFinite ==
    ASSUME allowed \in Seq(0..MaxTime), NEW s
    PROVE  IsFiniteSet(Since(s)) /\ Cardinality(Since(s)) \in Nat
  <1>1. Len(allowed) \in Nat
    OBVIOUS
  <1>2. IsFiniteSet(1..Len(allowed))
    BY <1>1, FS_Interval
  <1> QED
    BY <1>2, FS_Subset, FS_CardinalityType DEF Since

\* A request that is allowed now is one more since any time before.
LEMMA SinceAppend ==
    ASSUME allowed \in Seq(0..MaxTime), now \in 0..MaxTime, NEW s \in 0..now,
           allowed' = Append(allowed, now)
    PROVE  Cardinality(Since(s)') = Cardinality(Since(s)) + 1
  <1>1. /\ Len(allowed) \in Nat /\ Len(allowed') = Len(allowed) + 1
        /\ \A k \in 1..Len(allowed) : allowed'[k] = allowed[k]
        /\ allowed'[Len(allowed) + 1] = now
    OBVIOUS
  <1>2. Len(allowed) + 1 \notin Since(s)
    BY <1>1 DEF Since
  <1>3. now >= s
    OBVIOUS
  <1>4. Since(s)' = Since(s) \cup {Len(allowed) + 1}
    BY <1>1, <1>3 DEF Since
  <1> QED
    BY <1>2, <1>4, SinceFinite, FS_AddElement

\* A refill never fills the bucket beyond its capacity.
LEMMA RefilledValue ==
    ASSUME TypeOK, LimiterInv
    PROVE  /\ Refilled \in Nat /\ Refilled <= Capacity * Minute
           /\ Refilled <= bucket + (now - refilled) * Capacity
  <1>1. /\ Capacity \in Nat /\ Minute \in Nat /\ now \in Nat /\ refilled \in Nat /\ refilled <= now
        /\ bucket \in Nat /\ bucket <= Capacity * Minute
    BY PlatformAssumption DEF TypeOK, LimiterInv
  <1>2. PICK full \in Nat : full = Capacity * Minute
    BY <1>1, Products
  <1>3. now - refilled \in Nat
    BY <1>1
  <1>4. PICK gain \in Nat : gain = (now - refilled) * Capacity
    BY <1>1, <1>3, Products
  <1>5. Refilled = IF bucket + gain < full THEN bucket + gain ELSE full
    BY <1>2, <1>4, Zenon DEF Refilled
  <1> QED
    BY <1>1, <1>2, <1>4, <1>5

\* allow takes a token that was there: what was taken stays within what was refilled.
LEMMA LimiterAllows ==
    ASSUME TypeOK, LimiterInv, NEW t \in Threads, NEW e \in Emails, CreatePlatformAdmin(t, e)
    PROVE  /\ LimiterInv' /\ bucket' \in 0..(Capacity * Minute) /\ refilled' \in 0..MaxTime
           /\ allowed' \in Seq(0..MaxTime)
  <1>1. /\ Capacity \in Nat /\ Minute \in Nat /\ now \in 0..MaxTime /\ refilled \in 0..MaxTime
        /\ allowed \in Seq(0..MaxTime) /\ refilled <= now /\ bucket \in Nat /\ MaxTime \in Nat
    BY PlatformAssumption DEF TypeOK, LimiterInv
  <1>2. now' = now /\ refilled' = now
    BY Zenon DEF CreatePlatformAdmin, bounds
  <1>3. PICK full \in Nat : full = Capacity * Minute
    BY <1>1, Products
  <1>4. now - refilled \in Nat
    BY <1>1
  <1>5. PICK gain \in Nat : gain = (now - refilled) * Capacity
    BY <1>1, <1>4, Products
  <1>6. PICK r \in Nat : r = Refilled /\ r <= full /\ r <= bucket + gain
    BY <1>3, <1>5, RefilledValue
  <1>7. \/ r >= Minute /\ bucket' = r - Minute /\ allowed' = Append(allowed, now)
        \/ bucket' = r /\ allowed' = allowed
    BY <1>6, Zenon DEF CreatePlatformAdmin
  <1>8. bucket' \in Nat /\ bucket' <= full
    BY <1>1, <1>6, <1>7
  <1>9. allowed' \in Seq(0..MaxTime)
    BY <1>1, <1>7
  <1>10. \A k \in 1..Len(allowed') : allowed'[k] <= now
    <2>1. \A k \in 1..Len(allowed) : allowed[k] <= refilled /\ allowed[k] \in Nat
      BY <1>1 DEF LimiterInv
    <2>2. \A k \in 1..Len(allowed) : allowed[k] <= now
      BY <1>1, <2>1
    <2>3. CASE allowed' = Append(allowed, now)
      <3>1. /\ Len(allowed') = Len(allowed) + 1 /\ Len(allowed) \in Nat /\ now \in Nat
            /\ \A k \in 1..Len(allowed) : allowed'[k] = allowed[k]
            /\ allowed'[Len(allowed) + 1] = now
        BY <1>1, <2>3
      <3> QED
        BY <2>2, <3>1
    <2> QED
      BY <1>7, <2>2, <2>3
  <1>11. ASSUME NEW s \in 0..now
         PROVE  Minute * Cardinality(Since(s)') + bucket' <= full + (now - s) * Capacity
    <2>1. PICK n \in Nat : n = Cardinality(Since(s))
      BY <1>1, SinceFinite
    <2>2. PICK n1 \in Nat : n1 = Cardinality(Since(s)')
      <3>1. Since(s)' = {k \in 1..Len(allowed') : allowed'[k] >= s} /\ Len(allowed') \in Nat
        BY <1>9 DEF Since
      <3>2. IsFiniteSet(1..Len(allowed'))
        BY <3>1, FS_Interval
      <3>3. IsFiniteSet(Since(s)')
        BY <3>1, <3>2, FS_Subset
      <3> QED
        BY <3>3, FS_CardinalityType
    <2>3. PICK m \in Nat : m = Minute * n
      BY <1>1, <2>1, Products
    <2>4. PICK m1 \in Nat : m1 = Minute * n1
      BY <1>1, <2>2, Products
    <2>5. m1 + bucket' = m + r
      <3>1. CASE r >= Minute /\ bucket' = r - Minute /\ allowed' = Append(allowed, now)
        <4>1. n1 = n + 1
          BY <1>1, <2>1, <2>2, <3>1, SinceAppend
        <4>2. m1 = m + Minute
          BY <1>1, <2>1, <2>3, <2>4, <4>1, Products
        <4> QED
          BY <1>1, <3>1, <4>2
      <3>2. CASE bucket' = r /\ allowed' = allowed
        <4>1. n1 = n
          BY <2>1, <2>2, <3>2 DEF Since
        <4> QED
          BY <2>3, <2>4, <3>2, <4>1
      <3> QED
        BY <1>7, <3>1, <3>2
    <2>6. CASE s <= refilled
      <3>1. s \in Nat /\ refilled \in Nat /\ now \in Nat /\ refilled - s \in Nat /\ now - s \in Nat
        BY <1>1, <2>6
      <3>2. PICK left \in Nat : left = (refilled - s) * Capacity
        BY <1>1, <3>1, Products
      <3>3. PICK all \in Nat : all = (now - s) * Capacity
        BY <1>1, <3>1, Products
      <3>4. left + gain = all
        BY <1>1, <1>5, <2>6, <3>1, <3>2, <3>3, Products
      <3>5. m + bucket <= full + left
        BY <1>1, <1>3, <2>1, <2>3, <2>6, <3>1, <3>2 DEF LimiterInv
      <3>6. m1 + bucket' <= full + all
        <4>1. m + r <= full + all
          BY <1>1, <1>6, <3>4, <3>5
        <4> QED
          BY <2>5, <4>1
      <3> QED
        BY <2>2, <2>4, <3>3, <3>6
    <2>7. CASE s > refilled
      <3>1. Since(s) = {}
        BY <1>1, <2>7 DEF Since, LimiterInv
      <3>2. n = 0
        BY <2>1, <3>1, FS_EmptySet
      <3>3. m = 0
        BY <1>1, <2>3, <3>2, Products
      <3>4. now - s \in Nat
        BY <1>1
      <3>5. PICK all \in Nat : all = (now - s) * Capacity
        BY <1>1, <3>4, Products
      <3>6. m1 + bucket' <= full + all
        BY <1>6, <2>5, <3>3
      <3> QED
        BY <2>2, <2>4, <3>5, <3>6
    <2> QED
      BY <1>1, <2>6, <2>7
  <1>12. LimiterInv'
    BY <1>1, <1>2, <1>3, <1>10, <1>11 DEF LimiterInv
  <1> QED
    BY <1>1, <1>2, <1>3, <1>8, <1>9, <1>12

\* The bound of a bucket that is full.
LEMMA LimiterStarts ==
    ASSUME now \in 0..MaxTime, bucket = Capacity * Minute, allowed = <<>>, refilled = now
    PROVE  LimiterInv /\ bucket \in 0..(Capacity * Minute) /\ allowed \in Seq(0..MaxTime)
  <1>1. /\ Capacity \in Nat /\ Minute \in Nat /\ Capacity * Minute \in Nat /\ MaxTime \in Nat
    BY PlatformAssumption, Products
  <1>2. \A s : Since(s) = {}
    BY DEF Since
  <1>3. \A s : Cardinality(Since(s)) = 0
    BY <1>2, FS_EmptySet
  <1>4. ASSUME NEW s \in 0..refilled
        PROVE  Minute * Cardinality(Since(s)) + bucket <= Capacity * Minute + (refilled - s) * Capacity
    <2>1. Minute * Cardinality(Since(s)) = 0
      BY <1>1, <1>3, Products
    <2>2. refilled - s \in Nat
      OBVIOUS
    <2>3. (refilled - s) * Capacity \in Nat
      BY <1>1, <2>2, Products
    <2> QED
      BY <1>1, <2>1, <2>3
  <1> QED
    BY <1>1, <1>4 DEF LimiterInv

\* No minute sees more than two capacities.
LEMMA LimiterBound == TypeOK /\ LimiterInv => LimiterHolds
  <1> SUFFICES ASSUME TypeOK, LimiterInv PROVE LimiterHolds
    OBVIOUS
  <1>1. /\ Capacity \in Nat \ {0} /\ Minute \in Nat \ {0} /\ now \in Nat /\ refilled \in Nat /\ bucket \in Nat
        /\ allowed \in Seq(0..MaxTime) /\ refilled <= now /\ MaxTime \in Nat
    BY PlatformAssumption DEF TypeOK, LimiterInv
  <1>2. PICK s \in Nat : \/ now - Minute + 1 >= 0 /\ s = now - Minute + 1
                         \/ now - Minute + 1 < 0 /\ s = 0
    <2>1. CASE now - Minute + 1 >= 0
      <3>1. now - Minute + 1 \in Nat
        BY <1>1, <2>1
      <3> QED
        BY <2>1, <3>1
    <2>2. CASE now - Minute + 1 < 0
      BY <2>2
    <2> QED
      BY <1>1, <2>1, <2>2
  <1>3. {k \in 1..Len(allowed) : now - allowed[k] < Minute} = Since(s)
    BY <1>1, <1>2 DEF Since
  <1>4. PICK n \in Nat : n = Cardinality(Since(s))
    BY <1>1, SinceFinite
  <1>5. n < 2 * Capacity
    <2>1. CASE s > refilled
      <3>1. Since(s) = {}
        BY <1>1, <1>2, <2>1 DEF Since, LimiterInv
      <3>2. n = 0
        BY <1>4, <3>1, FS_EmptySet
      <3> QED
        BY <1>1, <3>2
    <2>2. CASE s <= refilled
      <3>1. refilled - s \in Nat /\ refilled - s <= Minute - 1 /\ Minute - 1 \in Nat /\ Capacity \in Nat /\ Minute \in Nat
        BY <1>1, <1>2, <2>2
      <3>2. PICK left \in Nat : left = (refilled - s) * Capacity
        BY <3>1, Products
      <3>3. PICK most \in Nat : most = (Minute - 1) * Capacity
        BY <3>1, Products
      <3>4. left <= most
        BY <3>1, <3>2, <3>3, Products
      <3>5. PICK full \in Nat : full = Capacity * Minute
        BY <3>1, Products
      <3>6. PICK m \in Nat : m = Minute * n
        BY <1>4, <3>1, Products
      <3>7. m + bucket <= full + left
        BY <1>1, <1>2, <1>4, <2>2, <3>2, <3>5, <3>6 DEF LimiterInv
      <3>8. full = most + Capacity
        <4>1. Capacity * ((Minute - 1) + 1) = Capacity * (Minute - 1) + Capacity
          BY <3>1, Products
        <4>2. Capacity * (Minute - 1) = (Minute - 1) * Capacity /\ (Minute - 1) + 1 = Minute
          BY <3>1
        <4> QED
          BY <3>1, <3>3, <3>5, <4>1, <4>2
      <3>9. m < full + full
        BY <1>1, <3>1, <3>4, <3>7, <3>8
      <3>10. full + full <= m \/ n < 2 * Capacity
        <4> SUFFICES ASSUME 2 * Capacity <= n PROVE full + full <= m
          BY <1>4, <3>1
        <4>1. (2 * Capacity) * Minute <= n * Minute
          BY <1>4, <3>1, Products
        <4>2. (2 * Capacity) * Minute = full + full /\ n * Minute = m
          BY <3>1, <3>5, <3>6
        <4> QED
          BY <4>1, <4>2
      <3> QED
        BY <3>9, <3>10
    <2> QED
      BY <1>1, <1>2, <2>1, <2>2
  <1> QED
    BY <1>3, <1>4, <1>5, Zenon DEF LimiterHolds

-----------------------------------------------------------------------------
(* The counters                                                            *)

\* The counters of requests and faults stay in their bounds.
LEMMA Counters ==
    ASSUME TypeOK, NEW t \in Threads,
           AdminStep(t) \/ RoleStep(t) \/ OrgStep(t) \/ ConfigStep(t)
    PROVE  requests' \in 0..MaxRequests /\ faults' \in 0..MaxFaults /\ faults <= faults'
  <1>1. CASE AdminStep(t)
    <2>1. (Request(t) \/ requests' = requests) /\ (Fault \/ faults' = faults)
      BY <1>1, Zenon DEF AdminStep, Bootstrap, CreatePlatformAdmin, UpdatePlatformAdmin, DeletePlatformAdmin,
                         BootstrapStatus, SeedGate, BootstrapAdmin, CreateAdmin, bounds
    <2> QED
      BY <2>1, PlatformAssumption DEF TypeOK, Request, Fault
  <1>2. CASE RoleStep(t)
    <2>1. Request(t) /\ faults' = faults
      BY <1>2, Zenon DEF RoleStep, CreateRole, DeleteRole, bounds
    <2> QED
      BY <2>1, PlatformAssumption DEF TypeOK, Request
  <1>3. CASE OrgStep(t)
    <2>1. (Request(t) \/ requests' = requests) /\ (Fault \/ faults' = faults)
      BY <1>3, Zenon DEF OrgStep, CreateOrganization, ReadOrganization, OverwriteOrganization, DeleteOrganization,
                         ProvisionTenant, UpdateOrganization, bounds
    <2> QED
      BY <2>1, PlatformAssumption DEF TypeOK, Request, Fault
  <1>4. CASE ConfigStep(t)
    <2>1. (Request(t) \/ requests' = requests) /\ (Fault \/ faults' = faults)
      BY <1>4, Zenon DEF ConfigStep, ConfigReadMin, ConfigReadMax, ConfigWriteMin, ConfigWriteMax,
                         ConfigWriteFails, bounds
    <2> QED
      BY <2>1, PlatformAssumption DEF TypeOK, Request, Fault
  <1> QED
    BY <1>1, <1>2, <1>3, <1>4

-----------------------------------------------------------------------------
(* The first admins                                                        *)

\* How many requests are past the gate, after one of them has moved.
LEMMA PastMoved ==
    ASSUME call \in [Threads -> Call], NEW t \in Threads, NEW c \in Call,
           call' = [call EXCEPT ![t] = c]
    PROVE  /\ Cardinality(Past) \in Nat /\ Cardinality(Past') \in Nat /\ Cardinality(Threads) \in Nat
           /\ Cardinality(Past') <= Cardinality(Threads)
           /\ c.op # "create" => Cardinality(Past') <= Cardinality(Past)
           /\ c.op # "create" /\ call[t].op = "create" => Cardinality(Past') = Cardinality(Past) - 1
  <1>1. /\ call'[t] = c
        /\ \A u \in Threads \ {t} : call'[u] = call[u]
    BY Moved, Zenon
  <1>2. IsFiniteSet(Threads) /\ Past \subseteq Threads /\ Past' \subseteq Threads
    BY PlatformAssumption DEF Past
  <1>3. IsFiniteSet(Past) /\ IsFiniteSet(Past')
    BY <1>2, FS_Subset
  <1>4. /\ Cardinality(Past) \in Nat /\ Cardinality(Past') \in Nat /\ Cardinality(Threads) \in Nat
    BY <1>2, <1>3, FS_CardinalityType
  <1>5. Cardinality(Past') <= Cardinality(Threads)
    BY <1>2, FS_Subset
  <1>6. ASSUME c.op # "create" PROVE Cardinality(Past') <= Cardinality(Past)
    <2>1. Past' \subseteq Past
      BY <1>1, <1>6 DEF Past
    <2> QED
      BY <1>3, <2>1, FS_Subset
  <1>7. ASSUME c.op # "create", call[t].op = "create" PROVE Cardinality(Past') = Cardinality(Past) - 1
    <2>1. Past' = Past \ {t} /\ t \in Past
      BY <1>1, <1>7 DEF Past
    <2> QED
      BY <1>3, <2>1, FS_RemoveElement
  <1> QED
    BY <1>4, <1>5, <1>6, <1>7

\* Every request let in by a gate is one that was past it: seeded grows only as Past shrinks.
LEMMA SeedStep ==
    ASSUME TypeOK, SeedInv, NEW t \in Threads, AdminStep(t)
    PROVE  /\ SeedInv' /\ seeded' \in Nat /\ blind' \in BOOLEAN
           /\ admins' \in [Emails -> {"absent", "inactive", "active"}]
  <1>0. /\ call \in [Threads -> Call] /\ seeded \in Nat /\ blind \in BOOLEAN
        /\ admins \in [Emails -> {"absent", "inactive", "active"}]
    BY DEF TypeOK
  <1>1. PICK c \in Call : call' = [call EXCEPT ![t] = c]
    BY AdminMoves DEF Moves
  <1>2. call'[t] = c
    BY <1>0, <1>1, Moved, Zenon
  <1>3. PICK n \in Nat : n = Cardinality(Past)
    BY <1>0, <1>1, PastMoved
  <1>4. PICK n1 \in Nat : n1 = Cardinality(Past')
    BY <1>0, <1>1, PastMoved
  <1>5. PICK max \in Nat : max = Cardinality(Threads)
    BY <1>0, <1>1, PastMoved
  <1>6. /\ n1 <= max
        /\ c.op # "create" => n1 <= n
        /\ c.op # "create" /\ call[t].op = "create" => n1 = n - 1
    BY <1>0, <1>1, <1>3, <1>4, <1>5, PastMoved
  <1>7. (seeded > 0 => ~SeedMode) /\ (~blind => seeded + n <= max)
    BY <1>3, <1>5, Zenon DEF SeedInv
  <1>8. ASSUME admins' = admins, seeded' = seeded, blind' = blind, c.op = "create" => SeedMode
        PROVE  SeedInv'
    <2>1. SeedMode' <=> SeedMode
      BY <1>8, Zenon DEF SeedMode
    <2>2. c.op = "create" => seeded = 0
      BY <1>0, <1>7, <1>8
    <2>3. ~blind => seeded + n1 <= max
      <3>1. CASE c.op = "create"
        BY <1>0, <1>6, <2>2, <3>1
      <3>2. CASE c.op # "create"
        <4>1. n1 <= n
          BY <1>6, <3>2
        <4>2. seeded + n <= max => seeded + n1 <= max
          BY <1>0, <4>1
        <4> QED
          BY <1>7, <4>2, Zenon
      <3> QED
        BY <3>1, <3>2
    <2> QED
      BY <1>4, <1>5, <1>7, <1>8, <2>1, <2>3, Zenon DEF SeedInv
  <1>9. ASSUME NEW e \in Emails, Bootstrap(t, e)
        PROVE  SeedInv' /\ UNCHANGED <<admins, seeded>> /\ blind' \in BOOLEAN
    <2>1. UNCHANGED <<admins, seeded>>
      BY <1>9, Zenon DEF Bootstrap
    <2>2. CASE blind' = TRUE
      <3>1. SeedMode' <=> SeedMode
        BY <2>1, Zenon DEF SeedMode
      <3> QED
        BY <1>7, <2>1, <2>2, <3>1, Zenon DEF SeedInv
    <2>3. CASE /\ blind' = blind
               /\ call' = [call EXCEPT ![t] = IF BootstrapAllowed
                                              THEN [op |-> "create", by |-> "bootstrap", email |-> e] ELSE Idle]
      <3>1. c = IF BootstrapAllowed THEN [op |-> "create", by |-> "bootstrap", email |-> e] ELSE Idle
        BY <1>0, <1>2, <2>3
      <3>2. c.op = "create" => BootstrapAllowed
        BY <3>1 DEF Idle
      <3>3. BootstrapAllowed => SeedMode
        BY DEF BootstrapAllowed, NoAdmins, SeedMode
      <3> QED
        BY <1>0, <1>8, <2>1, <2>3, <3>2, <3>3
    <2> QED
      BY <1>9, <2>1, <2>2, <2>3, Zenon DEF Bootstrap, Goto
  <1>10. ASSUME NEW e \in Emails, CreatePlatformAdmin(t, e)
         PROVE  SeedInv' /\ UNCHANGED <<admins, seeded, blind>>
    <2>1. UNCHANGED <<admins, seeded, blind>> /\ call[t] = Idle
      BY <1>10, Zenon DEF CreatePlatformAdmin, admin, Request
    <2>2. c = Idle \/ c = [op |-> "gate", by |-> "seed", email |-> e]
      <3>1. CASE call' = call
        BY <1>2, <2>1, <3>1
      <3>2. CASE call' = [call EXCEPT ![t] = [op |-> "gate", by |-> "seed", email |-> e]]
        BY <1>0, <1>2, <3>2
      <3> QED
        BY <1>10, <3>1, <3>2, Zenon DEF CreatePlatformAdmin, Goto
    <2>3. c.op # "create"
      BY <2>2 DEF Idle
    <2> QED
      BY <1>8, <2>1, <2>3
  <1>11. ASSUME BootstrapStatus(t) PROVE SeedInv' /\ UNCHANGED <<admins, seeded, blind>>
    <2>1. UNCHANGED <<admins, seeded, blind>> /\ call[t] = Idle /\ call' = call
      BY <1>11, Zenon DEF BootstrapStatus, admin, Request
    <2>2. c.op # "create"
      BY <1>2, <2>1 DEF Idle
    <2> QED
      BY <1>8, <2>1, <2>2
  <1>12. ASSUME SeedGate(t) PROVE SeedInv' /\ UNCHANGED <<admins, seeded>> /\ blind' \in BOOLEAN
    <2>1. UNCHANGED <<admins, seeded>>
      BY <1>12, Zenon DEF SeedGate
    <2>2. CASE blind' = TRUE
      <3>1. SeedMode' <=> SeedMode
        BY <2>1, Zenon DEF SeedMode
      <3> QED
        BY <1>7, <2>1, <2>2, <3>1, Zenon DEF SeedInv
    <2>3. CASE blind' = blind /\ call' = [call EXCEPT ![t] = Idle]
      <3>1. c = Idle /\ c.op # "create"
        BY <1>0, <1>2, <2>3 DEF Idle
      <3> QED
        BY <1>0, <1>8, <2>1, <2>3, <3>1
    <2>4. CASE blind' = blind /\ SeedMode
      BY <1>0, <1>8, <2>1, <2>4
    <2> QED
      BY <1>12, <2>1, <2>2, <2>3, <2>4, Zenon DEF SeedGate, Goto
  <1>13. ASSUME BootstrapAdmin(t) \/ CreateAdmin(t)
         PROVE  /\ SeedInv' /\ seeded' \in Nat /\ blind' = blind
                /\ admins' \in [Emails -> {"absent", "inactive", "active"}]
    <2>1. call[t].op = "create" /\ blind' = blind /\ call' = [call EXCEPT ![t] = Idle]
      BY <1>13, Zenon DEF BootstrapAdmin, CreateAdmin, Goto
    <2>2. PICK e \in Emails : create_platform_admin(e)
      BY <1>0, <1>13, <2>1, Fields DEF BootstrapAdmin, CreateAdmin, AdminOps
    <2>3. c = Idle /\ c.op # "create"
      BY <1>0, <1>2, <2>1 DEF Idle
    <2>4. CASE UNCHANGED <<admins, seeded>>
      BY <1>0, <1>8, <2>1, <2>3, <2>4
    <2>5. CASE admins' = [admins EXCEPT ![e] = "active"] /\ seeded' = seeded + 1
      <3>1. admins' \in [Emails -> {"absent", "inactive", "active"}] /\ admins'[e] = "active"
        BY <1>0, <2>5
      <3>2. ~SeedMode'
        BY <3>1 DEF SeedMode
      <3>3. n1 = n - 1
        BY <1>6, <2>1, <2>3
      <3>4. seeded + n <= max => seeded' + n1 <= max
        BY <1>0, <2>5, <3>3
      <3>5. SeedInv'
        BY <1>4, <1>5, <1>7, <2>1, <3>2, <3>4, Zenon DEF SeedInv
      <3> QED
        BY <1>0, <2>1, <2>5, <3>1, <3>5
    <2> QED
      BY <2>2, <2>4, <2>5, Zenon DEF create_platform_admin
  <1>14. ASSUME NEW e \in Emails, NEW active \in BOOLEAN, UpdatePlatformAdmin(t, e, active)
         PROVE  /\ SeedInv' /\ seeded' \in Nat /\ blind' = blind
                /\ admins' \in [Emails -> {"absent", "inactive", "active"}]
    <2>1. /\ call[t] = Idle /\ call' = call /\ blind' = blind
          /\ admins' = [admins EXCEPT ![e] = IF active THEN "active" ELSE "inactive"]
          /\ seeded' = IF active THEN seeded ELSE 0
      BY <1>14, Zenon DEF UpdatePlatformAdmin, Request
    <2>2. c.op # "create"
      BY <1>2, <2>1 DEF Idle
    <2>3. admins' \in [Emails -> {"absent", "inactive", "active"}] /\ seeded' \in Nat
      BY <1>0, <2>1
    <2>4. CASE active
      <3>1. admins'[e] = "active" /\ seeded' = seeded
        BY <1>0, <2>1, <2>4
      <3>2. ~SeedMode'
        BY <3>1 DEF SeedMode
      <3>3. seeded + n <= max => seeded' + n1 <= max
        BY <1>0, <1>6, <2>2, <3>1
      <3> QED
        BY <1>4, <1>5, <1>7, <2>1, <2>3, <3>2, <3>3, Zenon DEF SeedInv
    <2>5. CASE ~active
      <3>1. seeded' = 0
        BY <2>1, <2>5
      <3>2. seeded' + n1 <= max /\ ~(seeded' > 0)
        BY <1>6, <3>1
      <3> QED
        BY <1>4, <1>5, <2>1, <2>3, <3>2, Zenon DEF SeedInv
    <2> QED
      BY <2>4, <2>5
  <1>15. ASSUME NEW e \in Emails, DeletePlatformAdmin(t, e)
         PROVE  /\ SeedInv' /\ seeded' \in Nat /\ blind' = blind
                /\ admins' \in [Emails -> {"absent", "inactive", "active"}]
    <2>1. blind' = blind /\ seeded' = 0 /\ admins' = [admins EXCEPT ![e] = "absent"]
      BY <1>15, Zenon DEF DeletePlatformAdmin
    <2>2. seeded' + n1 <= max /\ ~(seeded' > 0)
      BY <1>6, <2>1
    <2>3. SeedInv'
      BY <1>4, <1>5, <2>2, Zenon DEF SeedInv
    <2> QED
      BY <1>0, <2>1, <2>3
  <1> QED
    BY <1>0, <1>9, <1>10, <1>11, <1>12, <1>13, <1>14, <1>15, Zenon DEF AdminStep

\* Steps of the other parts.
LEMMA SeedKept ==
    ASSUME SeedInv, Steady(AdminOps), UNCHANGED admin
    PROVE  SeedInv'
  <1>1. Past' = Past
    BY DEF Past, Steady, AdminOps
  <1> QED
    BY <1>1, Zenon DEF SeedInv, SeedMode, admin

-----------------------------------------------------------------------------
(* Organizations                                                           *)

OrgTypes ==
    /\ orgs \in [Orgs -> Nat \cup {Unset}] /\ tenantDb \subseteq Orgs
    /\ life \in [Orgs -> Nat] /\ edits \in [Orgs -> Nat]

\* The types of an organization's row, and that its revision counts its changes.
LEMMA EditStep ==
    ASSUME TypeOK, EditInv, NEW t \in Threads, OrgStep(t)
    PROVE  EditInv' /\ OrgTypes'
  <1>0. /\ call \in [Threads -> Call] /\ OrgTypes /\ Unset \notin Nat
        /\ \A o \in Orgs : orgs[o] # Unset => orgs[o] = edits[o]
    BY DEF TypeOK, OrgTypes, EditInv, Unset
  <1>1. ASSUME NEW c \in Call, call' = [call EXCEPT ![t] = c], c.op = "edit" => c.revision = c.edits
        PROVE  \A u \in Threads : call'[u].op = "edit" => call'[u].revision = call'[u].edits
    <2>1. call'[t] = c /\ \A u \in Threads \ {t} : call'[u] = call[u]
      BY <1>0, <1>1, Moved, Zenon
    <2> QED
      BY <1>1, <2>1 DEF EditInv
  <1>2. ASSUME NEW o \in Orgs, CreateOrganization(t, o) PROVE EditInv' /\ OrgTypes'
    <2>1. /\ orgs' = [orgs EXCEPT ![o] = 0] /\ life' = [life EXCEPT ![o] = @ + 1]
          /\ edits' = [edits EXCEPT ![o] = 0] /\ tenantDb' = tenantDb
          /\ call' = [call EXCEPT ![t] = [op |-> "provision", org |-> o]]
      BY <1>2 DEF CreateOrganization, create_organization, Goto
    <2>2. \A q \in Orgs : orgs'[q] # Unset => orgs'[q] = edits'[q]
      BY <1>0, <2>1 DEF OrgTypes
    <2>3. [op |-> "provision", org |-> o] \in Call /\ [op |-> "provision", org |-> o].op # "edit"
      BY Records
    <2>4. \A u \in Threads : call'[u].op = "edit" => call'[u].revision = call'[u].edits
      BY <1>1, <2>1, <2>3
    <2>5. OrgTypes'
      BY <1>0, <2>1 DEF OrgTypes
    <2> QED
      BY <2>2, <2>4, <2>5 DEF EditInv
  <1>3. ASSUME NEW o \in Orgs, ReadOrganization(t, o) PROVE EditInv' /\ OrgTypes'
    <2> DEFINE c == [op |-> "edit", org |-> o, revision |-> orgs[o], life |-> life[o], edits |-> edits[o]]
    <2>1. UNCHANGED <<orgs, life, edits, tenantDb>> /\ call' = [call EXCEPT ![t] = c] /\ orgs[o] # Unset
      BY <1>3 DEF ReadOrganization, org, Goto
    <2>2. orgs[o] \in Nat /\ life[o] \in Nat /\ edits[o] \in Nat /\ orgs[o] = edits[o]
      BY <1>0, <2>1 DEF OrgTypes
    <2>3. c \in Call /\ c.revision = c.edits
      BY <2>2, Records
    <2> HIDE DEF c
    <2>4. \A u \in Threads : call'[u].op = "edit" => call'[u].revision = call'[u].edits
      BY <1>1, <2>1, <2>3
    <2> QED
      BY <1>0, <2>1, <2>4 DEF EditInv, OrgTypes
  <1>4. ASSUME NEW o \in Orgs, orgs[o] # Unset, Bumped(o, TRUE) \/ Bumped(o, FALSE)
        PROVE  /\ \A q \in Orgs : orgs'[q] # Unset => orgs'[q] = edits'[q]
               /\ orgs' \in [Orgs -> Nat \cup {Unset}] /\ edits' \in [Orgs -> Nat]
    <2>1. orgs' = [orgs EXCEPT ![o] = @ + 1] /\ edits' = [edits EXCEPT ![o] = @ + 1]
      BY <1>4 DEF Bumped
    <2>2. orgs[o] \in Nat /\ edits[o] \in Nat /\ orgs[o] = edits[o]
      BY <1>0, <1>4 DEF OrgTypes
    <2> QED
      BY <1>0, <2>1, <2>2 DEF OrgTypes
  <1>5. ASSUME NEW o \in Orgs, OverwriteOrganization(t, o) PROVE EditInv' /\ OrgTypes'
    <2>1. orgs[o] # Unset /\ Bumped(o, FALSE) /\ UNCHANGED <<life, tenantDb, call>>
      BY <1>5, Zenon DEF OverwriteOrganization
    <2>2. /\ \A q \in Orgs : orgs'[q] # Unset => orgs'[q] = edits'[q]
          /\ orgs' \in [Orgs -> Nat \cup {Unset}] /\ edits' \in [Orgs -> Nat]
      BY <1>4, <2>1
    <2> QED
      BY <1>0, <2>1, <2>2 DEF EditInv, OrgTypes
  <1>6. ASSUME NEW o \in Orgs, DeleteOrganization(t, o) PROVE EditInv' /\ OrgTypes'
    <2>1. orgs' = [orgs EXCEPT ![o] = Unset] /\ UNCHANGED <<life, edits, tenantDb, call>>
      BY <1>6, Zenon DEF DeleteOrganization, delete_organization
    <2>2. \A q \in Orgs : orgs'[q] # Unset => orgs'[q] = edits'[q]
      BY <1>0, <2>1 DEF OrgTypes
    <2> QED
      BY <1>0, <2>1, <2>2 DEF EditInv, OrgTypes
  <1>7. ASSUME ProvisionTenant(t) PROVE EditInv' /\ OrgTypes'
    <2>1. /\ call[t].op = "provision" /\ UNCHANGED <<orgs, life, edits>> /\ call' = [call EXCEPT ![t] = Idle]
          /\ tenantDb' \in {tenantDb, tenantDb \cup {call[t].org}}
      BY <1>7 DEF ProvisionTenant, Goto
    <2>2. call[t].org \in Orgs /\ Idle \in Call /\ Idle.op # "edit"
      BY <1>0, <2>1, Fields, Records
    <2>3. \A u \in Threads : call'[u].op = "edit" => call'[u].revision = call'[u].edits
      BY <1>1, <2>1, <2>2
    <2> QED
      BY <1>0, <2>1, <2>2, <2>3 DEF EditInv, OrgTypes
  <1>8. ASSUME UpdateOrganization(t) PROVE EditInv' /\ OrgTypes'
    <2>1. /\ call[t].op = "edit" /\ UNCHANGED <<life, tenantDb>> /\ call' = [call EXCEPT ![t] = Idle]
      BY <1>8 DEF UpdateOrganization, Goto
    <2>2. Idle \in Call /\ Idle.op # "edit"
      BY Records
    <2>3. \A u \in Threads : call'[u].op = "edit" => call'[u].revision = call'[u].edits
      BY <1>1, <2>1, <2>2
    <2>4. PICK o \in Orgs : o = call[t].org /\ call[t].revision \in Nat
      BY <1>0, <2>1, Fields
    <2>5. CASE orgs[o] = call[t].revision
      <3>1. orgs[o] # Unset /\ Bumped(o, TRUE)
        BY <1>0, <1>8, <2>4, <2>5, Zenon DEF UpdateOrganization
      <3>2. /\ \A q \in Orgs : orgs'[q] # Unset => orgs'[q] = edits'[q]
            /\ orgs' \in [Orgs -> Nat \cup {Unset}] /\ edits' \in [Orgs -> Nat]
        BY <1>4, <3>1
      <3> QED
        BY <1>0, <2>1, <2>3, <3>2 DEF EditInv, OrgTypes
    <2>6. CASE orgs[o] # call[t].revision
      <3>1. UNCHANGED <<orgs, edits>>
        BY <1>8, <2>4, <2>6, Zenon DEF UpdateOrganization
      <3> QED
        BY <1>0, <2>1, <2>3, <3>1 DEF EditInv, OrgTypes
    <2> QED
      BY <2>5, <2>6
  <1> QED
    BY <1>2, <1>3, <1>5, <1>6, <1>7, <1>8, Zenon DEF OrgStep

\* No fault and no restart: the sum of the two counters is zero only when both are,
\* the two ways createOrganization is left half done.
LEMMA NothingFailed == \A f, r \in Nat : f + r = 0 => f = 0 /\ r = 0
  OBVIOUS

\* A time that has passed is a natural number: how many tokens a bucket gained
\* since then, DefaultRateLimiter::allow.
LEMMA Elapsed == \A a, b \in Nat : b <= a => a - b \in Nat
  OBVIOUS

\* An organization without a tenant database is still being made, or something failed.
LEMMA ProvisionStep ==
    ASSUME TypeOK, Provisioned, NEW t \in Threads, OrgStep(t)
    PROVE  Provisioned'
  <1>0. /\ call \in [Threads -> Call] /\ orgs \in [Orgs -> Nat \cup {Unset}] /\ faults \in Nat /\ restarts \in Nat
        /\ restarts' = restarts /\ faults' \in Nat /\ faults <= faults'
    <2>1. restarts' = restarts
      BY OrgMoves, Zenon
    <2>2. faults' \in 0..MaxFaults /\ faults <= faults'
      BY Counters, Zenon
    <2> QED
      BY <2>1, <2>2 DEF TypeOK
  <1> SUFFICES ASSUME faults' + restarts' = 0, NEW o \in Orgs, orgs'[o] # Unset
               PROVE  o \in tenantDb' \/ \E u \in Threads : call'[u] = [op |-> "provision", org |-> o]
    BY Zenon DEF Provisioned
  <1>1. faults + restarts = 0 /\ ~Fault
    <2>1. faults' = 0 /\ restarts = 0
      BY <1>0, NothingFailed
    <2>2. faults = 0
      BY <1>0, <2>1
    <2> QED
      BY <2>1, <2>2 DEF Fault
  <1>2. orgs[o] # Unset => o \in tenantDb \/ \E u \in Threads : call[u] = [op |-> "provision", org |-> o]
    BY <1>1, Zenon DEF Provisioned
  <1>3. ASSUME orgs[o] # Unset, tenantDb \subseteq tenantDb', NEW c, call' = [call EXCEPT ![t] = c],
               call[t].op # "provision"
        PROVE  o \in tenantDb' \/ \E u \in Threads : call'[u] = [op |-> "provision", org |-> o]
    <2>1. CASE o \in tenantDb
      BY <1>3, <2>1
    <2>2. CASE \E u \in Threads : call[u] = [op |-> "provision", org |-> o]
      <3>1. PICK u \in Threads : call[u] = [op |-> "provision", org |-> o]
        BY <2>2
      <3>2. u # t
        BY <1>3, <3>1
      <3>3. call'[u] = call[u]
        BY <1>0, <1>3, <3>2
      <3> QED
        BY <3>1, <3>3
    <2> QED
      BY <1>2, <1>3, <2>1, <2>2
  <1>4. ASSUME NEW q \in Orgs, CreateOrganization(t, q)
        PROVE  o \in tenantDb' \/ \E u \in Threads : call'[u] = [op |-> "provision", org |-> o]
    <2>1. /\ orgs' = [orgs EXCEPT ![q] = 0] /\ tenantDb' = tenantDb /\ call[t] = Idle
          /\ call' = [call EXCEPT ![t] = [op |-> "provision", org |-> q]]
      BY <1>4 DEF CreateOrganization, create_organization, Goto, Request
    <2>2. CASE o = q
      BY <1>0, <2>1, <2>2
    <2>3. CASE o # q
      <3>1. orgs[o] # Unset /\ call[t].op # "provision"
        BY <1>0, <2>1, <2>3 DEF Idle
      <3> QED
        BY <1>3, <2>1, <3>1
    <2> QED
      BY <2>2, <2>3
  <1>5. ASSUME ProvisionTenant(t)
        PROVE  o \in tenantDb' \/ \E u \in Threads : call'[u] = [op |-> "provision", org |-> o]
    <2>1. /\ orgs' = orgs /\ tenantDb' = tenantDb \cup {call[t].org} /\ call' = [call EXCEPT ![t] = Idle]
      BY <1>1, <1>5, Zenon DEF ProvisionTenant, Goto
    <2>2. CASE o \in tenantDb
      BY <2>1, <2>2
    <2>3. CASE \E u \in Threads : call[u] = [op |-> "provision", org |-> o]
      <3>1. PICK u \in Threads : call[u] = [op |-> "provision", org |-> o]
        BY <2>3
      <3>2. CASE u = t
        BY <2>1, <3>1, <3>2
      <3>3. CASE u # t
        BY <1>0, <2>1, <3>1, <3>3
      <3> QED
        BY <3>2, <3>3
    <2> QED
      BY <1>2, <2>1, <2>2, <2>3
  <1>6. ASSUME \/ UpdateOrganization(t)
               \/ \E q \in Orgs : ReadOrganization(t, q) \/ OverwriteOrganization(t, q) \/ DeleteOrganization(t, q)
        PROVE  o \in tenantDb' \/ \E u \in Threads : call'[u] = [op |-> "provision", org |-> o]
    <2>1. tenantDb' = tenantDb
      BY <1>6, Zenon DEF UpdateOrganization, ReadOrganization, OverwriteOrganization, DeleteOrganization, org
    <2>2. call[t].op # "provision"
      <3>1. call[t].op = "edit" \/ call[t] = Idle
        BY <1>6, Zenon DEF UpdateOrganization, ReadOrganization, OverwriteOrganization, DeleteOrganization, Request
      <3> QED
        BY <3>1 DEF Idle
    <2>3. \E c : call' = [call EXCEPT ![t] = c]
      BY OrgMoves DEF Moves
    <2>4. orgs[o] # Unset
      <3>1. CASE UpdateOrganization(t)
        <4>1. call[t].op = "edit"
          BY <3>1 DEF UpdateOrganization
        <4>2. call[t].revision \in Nat /\ call[t].org \in Orgs
          BY <1>0, <4>1, Fields
        <4> QED
          BY <1>0, <3>1, <4>2 DEF UpdateOrganization, Bumped, Unset
      <3>2. CASE \E q \in Orgs : ReadOrganization(t, q) \/ OverwriteOrganization(t, q) \/ DeleteOrganization(t, q)
        BY <1>0, <3>2 DEF ReadOrganization, OverwriteOrganization, DeleteOrganization, delete_organization,
                          Bumped, org
      <3> QED
        BY <1>6, <3>1, <3>2
    <2> QED
      BY <1>3, <2>1, <2>2, <2>3, <2>4
  <1> QED
    BY <1>4, <1>5, <1>6, Zenon DEF OrgStep

\* Steps of the other parts.
LEMMA OrgKept ==
    ASSUME TypeOK, EditInv, Provisioned, Steady(OrgOps), UNCHANGED <<org, restarts>>,
           faults' \in Nat, faults <= faults'
    PROVE  EditInv' /\ OrgTypes' /\ Provisioned'
  <1>1. UNCHANGED <<orgs, life, edits, tenantDb>> /\ restarts' = restarts
    BY Zenon DEF org
  <1>2. EditInv'
    BY <1>1 DEF EditInv, Steady, OrgOps
  <1>3. OrgTypes'
    BY <1>1 DEF TypeOK, OrgTypes
  <1>4. Provisioned'
    <2> SUFFICES ASSUME faults' + restarts' = 0, NEW o \in Orgs, orgs'[o] # Unset
                 PROVE  o \in tenantDb' \/ \E u \in Threads : call'[u] = [op |-> "provision", org |-> o]
      BY Zenon DEF Provisioned
    <2>1. faults + restarts = 0
      <3>1. faults \in Nat /\ restarts \in Nat /\ restarts' \in Nat
        BY <1>1 DEF TypeOK
      <3>2. faults' = 0 /\ restarts = 0
        BY <1>1, <3>1, NothingFailed
      <3> QED
        BY <3>1, <3>2
    <2>2. o \in tenantDb \/ \E u \in Threads : call[u] = [op |-> "provision", org |-> o]
      BY <1>1, <2>1, Zenon DEF Provisioned
    <2>3. ASSUME NEW u \in Threads, call[u] = [op |-> "provision", org |-> o]
          PROVE  call'[u] = [op |-> "provision", org |-> o]
      <3>1. call[u].op \in OrgOps
        BY <2>3 DEF OrgOps
      <3> QED
        BY <2>3, <3>1 DEF Steady
    <2> QED
      BY <1>1, <2>2, <2>3
  <1> QED
    BY <1>2, <1>3, <1>4

-----------------------------------------------------------------------------
(* Tenant settings                                                         *)

\* Who is at a step of updateTenantConfig for organization o, after t has moved.
LEMMA BusyMoved ==
    ASSUME call \in [Threads -> Call], NEW t \in Threads, NEW c \in Call,
           call' = [call EXCEPT ![t] = c], NEW o
    PROVE  /\ \A u \in Threads \ {t} : call'[u] = call[u] /\ (u \in Busy(o)' <=> u \in Busy(o))
           /\ call'[t] = c
           /\ t \in Busy(o)' <=> c.op \in ConfigOps /\ c.org = o
  <1>1. /\ call'[t] = c
        /\ \A u \in Threads \ {t} : call'[u] = call[u]
    BY Moved, Zenon
  <1> QED
    BY <1>1 DEF Busy, ConfigOps

\* What SettingsInv says of one organization.
SettingsOf(o) ==
    /\ Busy(o) = {} => InOrder(o)
    /\ \A t, u \in Busy(o) : t = u
    /\ \A t \in Busy(o) : Prepared(t, o)

\* A step of an update of another organization.
LEMMA OtherOrg ==
    ASSUME call \in [Threads -> Call], NEW t \in Threads, NEW c \in Call,
           call' = [call EXCEPT ![t] = c], NEW o,
           t \notin Busy(o), ~(c.op \in ConfigOps /\ c.org = o), settings'[o] = settings[o], SettingsOf(o)
    PROVE  SettingsOf(o)'
  <1>1. /\ \A u \in Threads \ {t} : call'[u] = call[u] /\ (u \in Busy(o)' <=> u \in Busy(o))
        /\ t \notin Busy(o)'
    BY BusyMoved
  <1>2. Busy(o)' = Busy(o)
    BY <1>1 DEF Busy
  <1>3. \A u \in Busy(o)' : call'[u] = call[u]
    BY <1>1, <1>2 DEF Busy
  <1>4. InOrder(o)' <=> InOrder(o)
    BY DEF InOrder
  <1>5. ASSUME NEW u \in Busy(o)' PROVE Prepared(u, o)'
    <2>1. Prepared(u, o) /\ call'[u] = call[u]
      BY <1>2, <1>3, <1>5 DEF SettingsOf
    <2> QED
      BY <1>4, <2>1 DEF Prepared
  <1> QED
    BY <1>2, <1>4, <1>5 DEF SettingsOf

\* A step of the one update of the organization.
LEMMA OwnOrg ==
    ASSUME call \in [Threads -> Call], NEW t \in Threads, NEW c \in Call,
           call' = [call EXCEPT ![t] = c], NEW o,
           Busy(o) \subseteq {t},
           c.op \in ConfigOps => c.org = o /\ Prepared(t, o)',
           c.op \notin ConfigOps => InOrder(o)'
    PROVE  SettingsOf(o)'
  <1>1. /\ \A u \in Threads \ {t} : u \notin Busy(o)'
        /\ t \in Busy(o)' <=> c.op \in ConfigOps /\ c.org = o
    BY BusyMoved
  <1>2. Busy(o)' \subseteq {t}
    BY <1>1 DEF Busy
  <1>3. CASE c.op \in ConfigOps
    <2>1. Busy(o)' = {t}
      BY <1>1, <1>2, <1>3
    <2> QED
      BY <1>3, <2>1 DEF SettingsOf
  <1>4. CASE c.op \notin ConfigOps
    <2>1. Busy(o)' = {}
      BY <1>1, <1>2, <1>4
    <2> QED
      BY <1>4, <2>1 DEF SettingsOf
  <1> QED
    BY <1>3, <1>4

\* A step of updateTenantConfig keeps the settings of each organization in order.
LEMMA SettingsStep ==
    ASSUME TypeOK, Limited, SettingsInv, NEW t \in Threads, ConfigStep(t)
    PROVE  SettingsInv'
  <1>0. /\ call \in [Threads -> Call] /\ settings \in [Orgs -> [min : Stored, max : Stored]] /\ mixed \subseteq Orgs
        /\ ConfigOps = {"readMax", "writeMin", "writeMax"}
    BY DEF TypeOK, ConfigOps
  <1> SUFFICES ASSUME NEW o \in Orgs, o \notin mixed' PROVE SettingsOf(o)'
    BY Zenon DEF SettingsInv, SettingsOf
  <1>1. o \notin mixed
    BY DEF ConfigStep, ConfigReadMin, ConfigReadMax, ConfigWriteMin, ConfigWriteMax, ConfigWriteFails, conf
  <1>2. SettingsOf(o)
    BY <1>1, Zenon DEF SettingsInv, SettingsOf
  <1>3. ASSUME NEW q \in Orgs, NEW lo \in Asked \cup {Unset}, NEW hi \in Asked \cup {Unset},
               ConfigReadMin(t, q, lo, hi)
        PROVE  SettingsOf(o)'
    <2> DEFINE c == [op |-> "readMax", org |-> q, max |-> hi, min |-> Wanted(lo, settings[q].min, DefaultMin)]
    <2>1. settings[q].min \in Stored /\ lo \in MaybeInt /\ hi \in MaybeInt
      BY <1>0 DEF MaybeInt
    <2>2. Wanted(lo, settings[q].min, DefaultMin) \in MaybeInt
      BY <2>1, WantedValue
    <2>3. c \in Call /\ c.op = "readMax" /\ c.org = q
      BY <1>0, <2>1, <2>2, Records
    <2>4. call[t] = Idle /\ call' = [call EXCEPT ![t] = c] /\ settings' = settings
      BY <1>3 DEF ConfigReadMin, Request, Goto
    <2> HIDE DEF c
    <2>5. t \notin Busy(o)
      BY <2>4 DEF Busy, Idle
    <2>6. CASE q # o
      BY <1>0, <1>2, <2>3, <2>4, <2>5, <2>6, OtherOrg
    <2>7. CASE q = o
      <3>1. Busy(o) = {}
        BY <1>3, <2>7 DEF ConfigReadMin
      <3>2. InOrder(o) /\ call'[t] = c
        BY <1>0, <1>2, <2>3, <2>4, <3>1, Moved DEF SettingsOf
      <3>3. InOrder(o)'
        BY <2>4, <3>2 DEF InOrder
      <3>4. Prepared(t, o)'
        BY <2>3, <3>2, <3>3 DEF Prepared
      <3> QED
        BY <1>0, <2>3, <2>4, <2>7, <3>1, <3>4, OwnOrg
    <2> QED
      BY <2>6, <2>7
  <1>4. ASSUME call[t].op \in ConfigOps, NEW c \in Call, call' = [call EXCEPT ![t] = c],
               c.op \notin ConfigOps \/ c.org = call[t].org,
               call[t].org # o => settings'[o] = settings[o],
               call[t].org = o => IF c.op \in ConfigOps THEN Prepared(t, o)' ELSE InOrder(o)'
        PROVE  SettingsOf(o)'
    <2>1. t \in Busy(o) <=> call[t].org = o
      BY <1>0, <1>4 DEF Busy
    <2>2. CASE call[t].org # o
      BY <1>0, <1>2, <1>4, <2>1, <2>2, OtherOrg
    <2>3. CASE call[t].org = o
      <3>1. Busy(o) \subseteq {t}
        BY <1>2, <2>1, <2>3 DEF SettingsOf
      <3> QED
        BY <1>0, <1>4, <2>3, <3>1, OwnOrg
    <2> QED
      BY <2>2, <2>3
  <1>5. call[t].op \in ConfigOps /\ call[t].org = o => Prepared(t, o)
    BY <1>0, <1>2 DEF SettingsOf, Busy
  <1>6. ASSUME ConfigReadMax(t) PROVE SettingsOf(o)'
    <2>1. call[t].op = "readMax" /\ call[t].op \in ConfigOps /\ settings' = settings
      BY <1>0, <1>6 DEF ConfigReadMax, conf
    <2>2. call[t].org \in Orgs /\ call[t].min \in MaybeInt /\ call[t].max \in MaybeInt
      BY <1>0, <2>1, Fields
    <2>3. PICK w : w = Wanted(call[t].max, settings[call[t].org].max, DefaultMax)
      OBVIOUS
    <2>4. w \in MaybeInt
      BY <1>0, <2>2, <2>3, WantedValue
    <2>5. PICK v : v = Clamped(call[t].min, w)
      OBVIOUS
    <2>6. v.min \in MaybeInt /\ v.max \in MaybeInt
      BY <2>2, <2>4, <2>5, ClampedValue
    <2> DEFINE c == [op |-> "writeMin", org |-> call[t].org, min |-> v.min, max |-> v.max]
    <2>7. c \in Call /\ c.op = "writeMin" /\ c.org = call[t].org
      BY <1>0, <2>2, <2>6, Records
    <2>8. call' = [call EXCEPT ![t] = c]
      BY <1>6, <2>3, <2>5 DEF ConfigReadMax, Goto
    <2> HIDE DEF c
    <2>9. call'[t] = c
      BY <1>0, <2>7, <2>8, Moved
    <2>10. call[t].org = o => Prepared(t, o)'
      <3> SUFFICES ASSUME call[t].org = o PROVE Prepared(t, o)'
        OBVIOUS
      <3>1. InOrder(o)
        BY <1>5, <2>1 DEF Prepared
      <3>2. InOrder(o)'
        BY <2>1, <3>1 DEF InOrder
      <3> QED
        BY <2>7, <2>9, <3>2 DEF Prepared
    <2> QED
      BY <1>0, <1>4, <2>1, <2>7, <2>8, <2>10
  <1>7. ASSUME call[t].op \in ConfigOps
        PROVE  /\ call[t].org \in Orgs /\ call[t].min \in MaybeInt /\ call[t].max \in MaybeInt
               /\ [call[t] EXCEPT !.op = "writeMax"] \in Call
               /\ [call[t] EXCEPT !.op = "writeMax"].op = "writeMax"
               /\ [call[t] EXCEPT !.op = "writeMax"].org = call[t].org
               /\ [call[t] EXCEPT !.op = "writeMax"].min = call[t].min
    BY <1>0, <1>7, Fields
  <1>8. ASSUME ConfigWriteMin(t) PROVE SettingsOf(o)'
    <2>1. /\ call[t].op = "writeMin" /\ call[t].op \in ConfigOps
          /\ settings' = [settings EXCEPT ![call[t].org].min = call[t].min]
      BY <1>0, <1>8 DEF ConfigWriteMin
    <2> DEFINE c == [call[t] EXCEPT !.op = "writeMax"]
    <2>2. call' = [call EXCEPT ![t] = c]
      BY <1>8 DEF ConfigWriteMin, Goto
    <2>3. c \in Call /\ c.op = "writeMax" /\ c.org = call[t].org /\ c.min = call[t].min /\ call[t].org \in Orgs
      BY <1>7, <2>1
    <2> HIDE DEF c
    <2>4. call'[t] = c
      BY <1>0, <2>2, <2>3, Moved
    <2>5. call[t].org # o => settings'[o] = settings[o]
      BY <1>0, <2>1
    <2>6. call[t].org = o => settings'[o].min = call[t].min
      BY <1>0, <2>1
    <2>7. call[t].org = o => Prepared(t, o)'
      BY <2>3, <2>4, <2>6 DEF Prepared
    <2> QED
      BY <1>0, <1>4, <2>1, <2>2, <2>3, <2>5, <2>7
  <1>9. ASSUME ConfigWriteMax(t) PROVE SettingsOf(o)'
    <2>1. /\ call[t].op = "writeMax" /\ call[t].op \in ConfigOps
          /\ settings' = [settings EXCEPT ![call[t].org].max = call[t].max]
          /\ call' = [call EXCEPT ![t] = Idle]
      BY <1>0, <1>9 DEF ConfigWriteMax, Goto
    <2>2. Idle \in Call /\ Idle.op \notin ConfigOps
      BY <1>0, Records
    <2>3. call[t].org # o => settings'[o] = settings[o]
      BY <1>0, <2>1
    <2>4. call[t].org = o => InOrder(o)'
      <3> SUFFICES ASSUME call[t].org = o PROVE InOrder(o)'
        OBVIOUS
      <3>1. settings[o].min = call[t].min
        BY <1>5, <2>1 DEF Prepared
      <3>2. settings'[o].min = call[t].min /\ settings'[o].max = call[t].max
        BY <1>0, <2>1, <3>1
      <3>3. 1 <= call[t].min /\ call[t].min <= call[t].max
        BY <2>1 DEF Limited
      <3>4. call[t].min \in Int /\ call[t].max \in Int
        <4>1. MaybeInt \subseteq Int
          BY PlatformAssumption DEF MaybeInt, Unset
        <4> QED
          BY <1>7, <2>1, <4>1
      <3>5. PICK lo \in Int : lo = call[t].min
        BY <3>4
      <3>6. PICK hi \in Int : hi = call[t].max
        BY <3>4
      <3>7. 1 <= lo /\ lo <= hi
        BY <3>3, <3>5, <3>6
      <3>8. lo \in 1..hi /\ lo # Unset /\ hi # Unset
        BY <3>7 DEF Unset
      <3> QED
        BY <3>2, <3>5, <3>6, <3>8 DEF InOrder
    <2> QED
      BY <1>0, <1>4, <2>1, <2>2, <2>3, <2>4
  <1>10. ASSUME ConfigWriteFails(t) PROVE SettingsOf(o)'
    <2>1. /\ call[t].op \in {"writeMin", "writeMax"} /\ call[t].op \in ConfigOps /\ settings' = settings
          /\ mixed' = mixed \cup {call[t].org}
          /\ \/ call' = [call EXCEPT ![t] = [call[t] EXCEPT !.op = "writeMax"]]
             \/ call' = [call EXCEPT ![t] = Idle]
      BY <1>0, <1>10 DEF ConfigWriteFails, Goto
    <2>2. call[t].org # o
      BY <2>1
    <2> DEFINE next == [call[t] EXCEPT !.op = "writeMax"]
    <2>3. PICK c \in {next, Idle} : call' = [call EXCEPT ![t] = c]
      BY <2>1
    <2>4. c \in Call /\ (c.op \notin ConfigOps \/ c.org = call[t].org)
      BY <1>0, <1>7, <2>1, <2>3, Records
    <2> QED
      BY <1>0, <1>4, <2>1, <2>2, <2>3, <2>4
  <1> QED
    BY <1>3, <1>6, <1>8, <1>9, <1>10, Zenon DEF ConfigStep

\* Steps of the other parts.
LEMMA SettingsKept ==
    ASSUME Limited, SettingsInv, Steady(ConfigOps), UNCHANGED conf
    PROVE  Limited' /\ SettingsInv'
  <1>1. settings' = settings /\ mixed' = mixed /\ ConfigOps = {"readMax", "writeMin", "writeMax"}
    BY DEF conf, ConfigOps
  <1>2. \A o : Busy(o)' = Busy(o)
    BY <1>1 DEF Busy, Steady
  <1>3. \A o : \A u \in Busy(o) : call'[u] = call[u]
    BY <1>1 DEF Busy, Steady
  <1>4. \A o : InOrder(o)' <=> InOrder(o)
    BY <1>1 DEF InOrder
  <1>5. \A o : \A u \in Busy(o) : Prepared(u, o)' <=> Prepared(u, o)
    BY <1>1, <1>3, <1>4 DEF Prepared
  <1>6. SettingsInv'
    BY <1>1, <1>2, <1>4, <1>5 DEF SettingsInv
  <1>7. Limited'
    <2> SUFFICES ASSUME NEW u \in Threads, call'[u].op \in {"writeMin", "writeMax"}
                 PROVE  1 <= call'[u].min /\ call'[u].min <= call'[u].max
      BY Zenon DEF Limited
    <2>1. call'[u] = call[u]
      BY <1>1 DEF Steady
    <2> QED
      BY <2>1, Zenon DEF Limited
  <1> QED
    BY <1>6, <1>7

-----------------------------------------------------------------------------
(* All parts together                                                      *)

\* Steps that do not ask the limiter leave its bound alone; time may pass.
LEMMA LimiterKept ==
    ASSUME LimiterInv, UNCHANGED <<bucket, refilled, allowed>>, now' \in Nat, now \in Nat, refilled \in Nat, now <= now'
    PROVE  LimiterInv'
  <1>1. \A s : Since(s)' = Since(s)
    BY DEF Since
  <1>2. refilled' <= now'
    BY DEF LimiterInv
  <1> QED
    BY <1>1, <1>2, Zenon DEF LimiterInv

\* What an admin's step does to the rest of the system database.
LEMMA AdminRest ==
    ASSUME TypeOK, LimiterInv, NEW t \in Threads, AdminStep(t)
    PROVE  /\ ready' \in BOOLEAN /\ roles' \subseteq BuiltIn \cup Custom
           /\ LimiterInv' /\ bucket' \in 0..(Capacity * Minute) /\ refilled' \in 0..MaxTime
           /\ allowed' \in Seq(0..MaxTime)
  <1>1. ready' \in BOOLEAN /\ roles' \subseteq BuiltIn \cup Custom
    <2>1. ready' \in {ready, TRUE} /\ roles' \in {roles, roles \cup BuiltIn}
      BY DEF AdminStep, Bootstrap, CreatePlatformAdmin, UpdatePlatformAdmin, DeletePlatformAdmin,
             BootstrapStatus, SeedGate, BootstrapAdmin, CreateAdmin, EnsureSystemDb
    <2>2. ready \in BOOLEAN /\ roles \subseteq BuiltIn \cup Custom
      BY Zenon DEF TypeOK
    <2>3. roles' \subseteq BuiltIn \cup Custom
      BY <2>1, <2>2
    <2>4. ready' \in BOOLEAN
      BY <2>1, <2>2
    <2> QED
      BY <2>3, <2>4
  <1>2. CASE \E e \in Emails : CreatePlatformAdmin(t, e)
    BY <1>1, <1>2, LimiterAllows
  <1>3. CASE ~\E e \in Emails : CreatePlatformAdmin(t, e)
    <2>1. UNCHANGED <<bucket, refilled, allowed, now>>
      BY <1>3, Zenon DEF AdminStep, Bootstrap, UpdatePlatformAdmin, DeletePlatformAdmin,
                         BootstrapStatus, SeedGate, BootstrapAdmin, CreateAdmin, limit, bounds
    <2>2. now \in Nat /\ refilled \in Nat /\ now <= now' /\ now' \in Nat
      BY <2>1 DEF TypeOK
    <2>3. LimiterInv'
      BY <2>1, <2>2, LimiterKept
    <2> QED
      BY <1>1, <2>1, <2>3 DEF TypeOK
  <1> QED
    BY <1>2, <1>3

\* Nothing is in the system database at first, and the bucket is full.
LEMMA PlatformInit == Init => PlatformInv
  <1> SUFFICES ASSUME Init PROVE PlatformInv
    OBVIOUS
  <1>1. call = [t \in Threads |-> Idle] /\ Idle \in Call /\ Idle.op = "idle"
    BY Records DEF Init
  <1>2. \A t \in Threads : call[t].op = "idle"
    BY <1>1
  <1>3. 0 \in 0..MaxRequests /\ 0 \in 0..MaxTime /\ 0 \in 0..MaxRestarts /\ faults \in 0..MaxFaults
    BY PlatformAssumption DEF Init
  <1>4. LimiterInv /\ bucket \in 0..(Capacity * Minute) /\ allowed \in Seq(0..MaxTime)
    BY <1>3, LimiterStarts DEF Init
  <1>5. settings \in [Orgs -> [min : Stored, max : Stored]]
    BY DEF Init, Stored, MaybeInt
  <1>6. ready \in BOOLEAN /\ roles \subseteq BuiltIn \cup Custom
    BY DEF Init
  <1>7. TypeOK
    BY <1>1, <1>3, <1>4, <1>5, <1>6 DEF Init, TypeOK
  <1>8. SeedInv
    <2>1. Past = {}
      BY <1>2 DEF Past
    <2>2. Cardinality(Past) = 0 /\ Cardinality(Threads) \in Nat
      BY <2>1, PlatformAssumption, FS_EmptySet, FS_CardinalityType
    <2>3. seeded = 0
      BY DEF Init
    <2> QED
      BY <2>2, <2>3 DEF SeedInv
  <1>9. EditInv /\ Limited /\ Provisioned
    BY <1>2 DEF Init, EditInv, Limited, Provisioned, Unset
  <1>10. SettingsInv
    <2>1. \A o : Busy(o) = {}
      BY <1>2 DEF Busy
    <2>2. \A o \in Orgs : InOrder(o)
      BY DEF Init, InOrder
    <2> QED
      BY <2>1, <2>2 DEF SettingsInv
  <1> QED
    BY <1>4, <1>7, <1>8, <1>9, <1>10 DEF PlatformInv

\* A restart ends the requests, fills the bucket and keeps the tables.
LEMMA PlatformRestart ==
    ASSUME PlatformInv, Restart
    PROVE  PlatformInv'
  <1>1. /\ call' = [t \in Threads |-> Idle] /\ Idle \in Call /\ Idle.op = "idle"
        /\ UNCHANGED <<admins, seeded, blind, orgs, life, edits, tenantDb, settings, requests, now>>
        /\ bucket' = Capacity * Minute /\ refilled' = now /\ allowed' = <<>>
        /\ mixed' = mixed \cup {o \in Orgs : Busy(o) # {}} /\ restarts' = restarts + 1
    BY Records DEF Restart, admin, org
  <1>2. TypeOK
    BY DEF PlatformInv
  <1>3. \A t \in Threads : call'[t].op = "idle"
    BY <1>1
  <1>4. LimiterInv' /\ bucket' \in 0..(Capacity * Minute) /\ allowed' \in Seq(0..MaxTime) /\ refilled' \in 0..MaxTime
    <2>1. now' \in 0..MaxTime /\ refilled' = now'
      BY <1>1, <1>2 DEF TypeOK
    <2>2. LimiterInv' /\ bucket' \in 0..(Capacity * Minute) /\ allowed' \in Seq(0..MaxTime)
      <3>1. /\ Capacity \in Nat /\ Minute \in Nat /\ Capacity * Minute \in Nat /\ MaxTime \in Nat
        BY PlatformAssumption, Products
      <3>2. \A s : Since(s)' = {}
        BY <1>1 DEF Since
      <3>3. \A s : Cardinality(Since(s)') = 0
        BY <3>2, FS_EmptySet
      <3>4. ASSUME NEW s \in 0..refilled'
            PROVE  Minute * Cardinality(Since(s)') + bucket' <= Capacity * Minute + (refilled' - s) * Capacity
        <4>1. Minute * Cardinality(Since(s)') = 0
          BY <3>1, <3>3, Products
        <4>2. refilled' - s \in Nat
          <5>1. refilled' \in Nat
            BY <2>1, <3>1
          <5>2. s \in Nat /\ s <= refilled'
            BY <3>4, <5>1
          <5> QED
            BY <5>1, <5>2, Elapsed
        <4>3. (refilled' - s) * Capacity \in Nat
          BY <3>1, <4>2, Products
        <4> QED
          BY <1>1, <3>1, <4>1, <4>3
      <3> QED
        BY <1>1, <2>1, <3>1, <3>4 DEF LimiterInv
    <2> QED
      BY <2>1, <2>2
  <1>5. TypeOK'
    <2>1. restarts' \in 0..MaxRestarts /\ faults' \in 0..MaxFaults
      BY <1>2, PlatformAssumption DEF Restart, Fault, TypeOK
    <2>2. ready' \in BOOLEAN /\ roles' \subseteq BuiltIn \cup Custom
      BY <1>2 DEF Restart, TypeOK
    <2>3. mixed' \subseteq Orgs
      BY <1>1, <1>2 DEF TypeOK
    <2> QED
      BY <1>1, <1>2, <1>4, <2>1, <2>2, <2>3 DEF TypeOK
  <1>6. SeedInv'
    <2>1. Past' = {}
      BY <1>3 DEF Past
    <2>2. Cardinality(Past') = 0 /\ Cardinality(Past) \in Nat /\ Cardinality(Threads) \in Nat
      <3>1. IsFiniteSet(Past)
        BY PlatformAssumption, FS_Subset DEF Past
      <3> QED
        BY <2>1, <3>1, PlatformAssumption, FS_EmptySet, FS_CardinalityType
    <2>3. seeded \in Nat
      BY <1>2 DEF TypeOK
    <2>4. seeded + Cardinality(Past) <= Cardinality(Threads) => seeded + Cardinality(Past') <= Cardinality(Threads)
      BY <2>2, <2>3
    <2> QED
      BY <1>1, <2>4, Zenon DEF PlatformInv, SeedInv, SeedMode
  <1>7. EditInv' /\ Limited'
    <2>1. EditInv'
      BY <1>1, <1>3 DEF PlatformInv, EditInv
    <2> QED
      BY <1>3, <2>1 DEF Limited
  <1>8. Provisioned'
    <2>1. faults' \in Nat /\ restarts' \in Nat /\ restarts' # 0
      BY <1>1, <1>2, <1>5 DEF TypeOK
    <2>2. faults' + restarts' # 0
      BY <2>1, NothingFailed
    <2> QED
      BY <2>2 DEF Provisioned
  <1>9. SettingsInv'
    <2>1. \A o : Busy(o)' = {}
      BY <1>3 DEF Busy
    <2>2. \A o \in Orgs \ mixed' : InOrder(o)'
      <3> SUFFICES ASSUME NEW o \in Orgs, o \notin mixed' PROVE InOrder(o)'
        OBVIOUS
      <3>1. o \notin mixed /\ Busy(o) = {}
        BY <1>1
      <3>2. InOrder(o)
        BY <3>1 DEF PlatformInv, SettingsInv
      <3> QED
        BY <1>1, <3>2 DEF InOrder
    <2> QED
      BY <2>1, <2>2 DEF SettingsInv
  <1> QED
    BY <1>4, <1>5, <1>6, <1>7, <1>8, <1>9 DEF PlatformInv

\* Every step keeps the invariant.
LEMMA PlatformNext == PlatformInv /\ [Next]_vars => PlatformInv'
  <1> SUFFICES ASSUME PlatformInv, [Next]_vars PROVE PlatformInv'
    OBVIOUS
  <1>0. /\ TypeOK /\ LimiterInv /\ SeedInv /\ EditInv /\ Limited /\ SettingsInv /\ Provisioned
        /\ call \in [Threads -> Call] /\ now \in Nat /\ refilled \in Nat /\ faults \in Nat
        /\ AdminOps \cap (OrgOps \cup {"idle"}) = {} /\ AdminOps \cap (ConfigOps \cup {"idle"}) = {}
        /\ OrgOps \cap (AdminOps \cup {"idle"}) = {} /\ OrgOps \cap (ConfigOps \cup {"idle"}) = {}
        /\ ConfigOps \cap (AdminOps \cup {"idle"}) = {} /\ ConfigOps \cap (OrgOps \cup {"idle"}) = {}
    BY DEF PlatformInv, TypeOK, AdminOps, OrgOps, ConfigOps
  <1>1. ASSUME NEW t \in Threads, AdminStep(t) PROVE PlatformInv'
    <2>1. Moves(t, AdminOps) /\ UNCHANGED <<org, conf, now, restarts>>
      BY <1>0, <1>1, AdminMoves
    <2>2. call' \in [Threads -> Call] /\ Steady(OrgOps) /\ Steady(ConfigOps)
      BY <1>0, <2>1, MovesSteady
    <2>3. requests' \in 0..MaxRequests /\ faults' \in 0..MaxFaults /\ faults <= faults' /\ faults' \in Nat
      BY <1>0, <1>1, Counters
    <2>4. /\ ready' \in BOOLEAN /\ roles' \subseteq BuiltIn \cup Custom
          /\ LimiterInv' /\ bucket' \in 0..(Capacity * Minute) /\ refilled' \in 0..MaxTime
          /\ allowed' \in Seq(0..MaxTime)
      BY <1>0, <1>1, AdminRest
    <2>5. /\ SeedInv' /\ seeded' \in Nat /\ blind' \in BOOLEAN
          /\ admins' \in [Emails -> {"absent", "inactive", "active"}]
      BY <1>0, <1>1, SeedStep
    <2>6. EditInv' /\ OrgTypes' /\ Provisioned'
      BY <1>0, <2>1, <2>2, <2>3, OrgKept
    <2>7. Limited' /\ SettingsInv'
      BY <1>0, <2>1, <2>2, SettingsKept
    <2>8. TypeOK'
      BY <1>0, <2>1, <2>2, <2>3, <2>4, <2>5, <2>6 DEF TypeOK, OrgTypes, conf
    <2> QED
      BY <2>4, <2>5, <2>6, <2>7, <2>8 DEF PlatformInv
  <1>2. ASSUME NEW t \in Threads, RoleStep(t) PROVE PlatformInv'
    <2>1. call' = call /\ UNCHANGED <<admin, org, conf, limit, bounds>> /\ ready' = ready
      BY <1>0, <1>2, RoleMoves
    <2>2. Steady(AdminOps) /\ Steady(OrgOps) /\ Steady(ConfigOps)
      BY <2>1 DEF Steady
    <2>3. requests' \in 0..MaxRequests /\ faults' \in Nat /\ faults <= faults'
      BY <1>0, <1>2, Counters
    <2>4. LimiterInv'
      <3>1. UNCHANGED <<bucket, refilled, allowed, now>>
        BY <2>1, Zenon DEF limit, bounds
      <3>2. now' \in Nat /\ now <= now'
        BY <1>0, <3>1
      <3> QED
        BY <1>0, <3>1, <3>2, LimiterKept
    <2>5. SeedInv'
      BY <1>0, <2>1, <2>2, SeedKept
    <2>6. restarts' = restarts
      BY <2>1, Zenon DEF bounds
    <2>7. EditInv' /\ OrgTypes' /\ Provisioned'
      BY <1>0, <2>1, <2>2, <2>3, <2>6, OrgKept
    <2>8. Limited' /\ SettingsInv'
      BY <1>0, <2>1, <2>2, SettingsKept
    <2>9. roles' \subseteq BuiltIn \cup Custom
      BY <1>0, <1>2 DEF TypeOK, RoleStep, CreateRole, DeleteRole, create_platform_role, delete_platform_role
    <2>10. TypeOK'
      BY <1>0, <2>1, <2>3, <2>7, <2>9 DEF TypeOK, OrgTypes, admin, conf, limit, bounds
    <2> QED
      BY <2>4, <2>5, <2>7, <2>8, <2>10 DEF PlatformInv
  <1>3. ASSUME NEW t \in Threads, OrgStep(t) PROVE PlatformInv'
    <2>1. Moves(t, OrgOps) /\ UNCHANGED <<ready, admin, roles, conf, limit, now, restarts>>
      BY <1>0, <1>3, OrgMoves
    <2>2. call' \in [Threads -> Call] /\ Steady(AdminOps) /\ Steady(ConfigOps)
      BY <1>0, <2>1, MovesSteady
    <2>3. requests' \in 0..MaxRequests /\ faults' \in 0..MaxFaults
      BY <1>0, <1>3, Counters
    <2>4. LimiterInv'
      <3>1. UNCHANGED <<bucket, refilled, allowed, now>>
        BY <2>1, Zenon DEF limit
      <3>2. now' \in Nat /\ now <= now'
        BY <1>0, <3>1
      <3> QED
        BY <1>0, <3>1, <3>2, LimiterKept
    <2>5. SeedInv'
      BY <1>0, <2>1, <2>2, SeedKept
    <2>6. EditInv' /\ OrgTypes'
      BY <1>0, <1>3, EditStep
    <2>7. Provisioned'
      BY <1>0, <1>3, ProvisionStep
    <2>8. Limited' /\ SettingsInv'
      BY <1>0, <2>1, <2>2, SettingsKept
    <2>9. TypeOK'
      BY <1>0, <2>1, <2>2, <2>3, <2>6 DEF TypeOK, OrgTypes, admin, conf, limit
    <2> QED
      BY <2>4, <2>5, <2>6, <2>7, <2>8, <2>9 DEF PlatformInv
  <1>4. ASSUME NEW t \in Threads, ConfigStep(t) PROVE PlatformInv'
    <2>1. /\ Moves(t, ConfigOps) /\ UNCHANGED <<ready, admin, roles, org, limit, now, restarts>>
          /\ Limited' /\ settings' \in [Orgs -> [min : Stored, max : Stored]] /\ mixed' \subseteq Orgs
      BY <1>0, <1>4, ConfigMoves
    <2>2. call' \in [Threads -> Call] /\ Steady(AdminOps) /\ Steady(OrgOps)
      BY <1>0, <2>1, MovesSteady
    <2>3. requests' \in 0..MaxRequests /\ faults' \in 0..MaxFaults /\ faults <= faults' /\ faults' \in Nat
      BY <1>0, <1>4, Counters
    <2>4. LimiterInv'
      <3>1. UNCHANGED <<bucket, refilled, allowed, now>>
        BY <2>1, Zenon DEF limit
      <3>2. now' \in Nat /\ now <= now'
        BY <1>0, <3>1
      <3> QED
        BY <1>0, <3>1, <3>2, LimiterKept
    <2>5. SeedInv'
      BY <1>0, <2>1, <2>2, SeedKept
    <2>6. EditInv' /\ OrgTypes' /\ Provisioned'
      BY <1>0, <2>1, <2>2, <2>3, OrgKept
    <2>7. SettingsInv'
      BY <1>0, <1>4, SettingsStep
    <2>8. TypeOK'
      BY <1>0, <2>1, <2>2, <2>3, <2>6 DEF TypeOK, OrgTypes, admin, limit
    <2> QED
      BY <2>1, <2>4, <2>5, <2>6, <2>7, <2>8 DEF PlatformInv
  <1>5. CASE Tick \/ UNCHANGED vars
    <2>1. /\ UNCHANGED <<ready, admin, roles, org, conf, limit, call, requests, faults, restarts>>
          /\ now' \in 0..MaxTime /\ now' \in Nat /\ now <= now'
      BY <1>0, <1>5, PlatformAssumption DEF Tick, vars, bounds, TypeOK
    <2>2. Steady(AdminOps) /\ Steady(OrgOps) /\ Steady(ConfigOps)
      BY <2>1 DEF Steady
    <2>3. LimiterInv'
      BY <1>0, <2>1, LimiterKept DEF limit
    <2>4. SeedInv'
      BY <1>0, <2>1, <2>2, SeedKept
    <2>5. EditInv' /\ OrgTypes' /\ Provisioned'
      <3>1. faults' \in Nat /\ faults <= faults'
        BY <1>0, <2>1
      <3> QED
        BY <1>0, <2>1, <2>2, <3>1, OrgKept
    <2>6. Limited' /\ SettingsInv'
      BY <1>0, <2>1, <2>2, SettingsKept
    <2>7. TypeOK'
      BY <1>0, <2>1, <2>5 DEF TypeOK, OrgTypes, admin, conf, limit
    <2> QED
      BY <2>3, <2>4, <2>5, <2>6, <2>7 DEF PlatformInv
  <1>6. CASE Restart
    BY <1>6, PlatformRestart
  <1> QED
    BY <1>1, <1>2, <1>3, <1>4, <1>5, <1>6, Zenon DEF Next

-----------------------------------------------------------------------------
(* What is proved                                                          *)

\* The invariant of the system database holds in every state.
LEMMA PlatformAlways == Spec => []PlatformInv
  BY PlatformInit, PlatformNext, PTL DEF Spec

\* TokenBucket::try_consume lets no address through with two capacities in a minute,
\* for every capacity and every length of the minute.
THEOREM LimiterSound == Spec => []LimiterHolds
  <1>1. PlatformInv => LimiterHolds
    BY LimiterBound DEF PlatformInv
  <1> QED
    BY <1>1, PlatformAlways, PTL

\* bootstrapPlatformAdmin and createPlatformAdmin, whose gate and creation are two calls,
\* create no more admins in a row than there are threads.
THEOREM SeedingSound == Spec => []SeedingIsBounded
  <1>1. PlatformInv => SeedingIsBounded
    <2> SUFFICES ASSUME PlatformInv, ~blind PROVE seeded <= Cardinality(Threads)
      BY Zenon DEF SeedingIsBounded
    <2>1. IsFiniteSet(Threads) /\ IsFiniteSet(Past)
      BY PlatformAssumption, FS_Subset DEF Past
    <2>2. Cardinality(Threads) \in Nat /\ Cardinality(Past) \in Nat /\ seeded \in Nat
      BY <2>1, FS_CardinalityType DEF PlatformInv, TypeOK
    <2>3. seeded + Cardinality(Past) <= Cardinality(Threads)
      BY Zenon DEF PlatformInv, SeedInv
    <2> QED
      BY <2>2, <2>3
  <1> QED
    BY <1>1, PlatformAlways, PTL

\* updateTenantConfig leaves min and max threads in order, whatever was asked for, where
\* no two updates overlapped and no write failed.
THEOREM SettingsSound == Spec => []SettingsOrdered
  <1>1. PlatformInv => SettingsOrdered
    BY Zenon DEF PlatformInv, SettingsInv, SettingsOrdered, InOrder
  <1> QED
    BY <1>1, PlatformAlways, PTL

\* createOrganization leaves no organization without a tenant database but by a failed
\* statement or the death of the process; with the types of every table.
THEOREM OrganizationsSound == Spec => []OrganizationsInv
  <1>1. PlatformInv => OrganizationsInv
    BY DEF PlatformInv, OrganizationsInv
  <1> QED
    BY <1>1, PlatformAlways, PTL

\* updateOrganization under an expectedRevision never overwrites a change its client has
\* not read.
THEOREM UpdatesAreNotLost == Spec => NoLostUpdate
  <1>1. ASSUME PlatformInv, Next, NEW t \in Threads, call[t].op = "edit", call'[t] # call[t], orgs' # orgs
        PROVE  edits[call[t].org] = call[t].edits
    <2>1. call \in [Threads -> Call] /\ EditInv /\ TypeOK
      BY <1>1 DEF PlatformInv, TypeOK
    <2>2. ~Tick /\ ~Restart
      BY <1>1, Zenon DEF Tick, Restart, org
    <2>3. PICK u \in Threads : OrgStep(u)
      <3>1. ASSUME NEW u \in Threads, AdminStep(u) PROVE FALSE
        BY <1>1, <2>1, <3>1, AdminMoves, Zenon DEF org
      <3>2. ASSUME NEW u \in Threads, RoleStep(u) PROVE FALSE
        BY <1>1, <2>1, <3>2, RoleMoves, Zenon DEF org
      <3>3. ASSUME NEW u \in Threads, ConfigStep(u) PROVE FALSE
        <4>1. Limited
          BY <1>1 DEF PlatformInv
        <4> QED
          BY <1>1, <2>1, <3>3, <4>1, ConfigMoves, Zenon DEF org
      <3> QED
        BY <1>1, <2>2, <3>1, <3>2, <3>3, Zenon DEF Next
    <2>4. u = t
      <3>1. PICK c \in Call : call' = [call EXCEPT ![u] = c]
        BY <2>1, <2>3, OrgMoves DEF Moves
      <3> QED
        BY <1>1, <2>1, <3>1
    <2>5. UpdateOrganization(t)
      <3>1. call[t] # Idle /\ call[t].op # "provision"
        BY <1>1 DEF Idle
      <3> QED
        BY <2>3, <2>4, <3>1, Zenon DEF OrgStep, CreateOrganization, ReadOrganization, OverwriteOrganization,
                                       DeleteOrganization, ProvisionTenant, Request
    <2>6. orgs[call[t].org] = call[t].revision
      BY <1>1, <2>5, Zenon DEF UpdateOrganization
    <2>7. call[t].org \in Orgs /\ call[t].revision \in Nat
      BY <1>1, <2>1, Fields
    <2>8. orgs[call[t].org] # Unset
      BY <2>6, <2>7 DEF Unset
    <2> QED
      BY <1>1, <2>1, <2>6, <2>7, <2>8 DEF EditInv
  <1>2. PlatformInv /\ [Next]_vars =>
          [\A t \in Threads :
              (call[t].op = "edit" /\ call'[t] # call[t] /\ orgs' # orgs)
              => \/ edits[call[t].org] = call[t].edits
                 \/ life[call[t].org] # call[t].life]_vars
    BY <1>1, Zenon
  <1> QED
    BY <1>2, PlatformAlways, PTL DEF Spec, NoLostUpdate
=============================================================================
