-------------------------------- MODULE Caches --------------------------------
(***************************************************************************)
(* The Redis caches of management/cache.py with their readers and writers: *)
(* tenants (rbac/middleware.py), principals (management/utils.py), access  *)
(* policies (management/access/view.py) and responses for built-in         *)
(* workspaces (management/workspace/view.py).  A value is the number of    *)
(* committed changes it reflects.  Redis may be away: reads then miss,     *)
(* writes and deletions are lost.  Time passes in ticks.                   *)
(***************************************************************************)
EXTENDS Naturals, FiniteSets

CONSTANTS Kinds,          \* the caches
          Life,           \* Life[k]: ticks until an entry of k expires
          PurgeOf,        \* PurgeOf[k]: "signal", "commit" or "never"
          Fields,         \* Fields[k]: the keys in one Redis key of k
          Readers,        \* requests that run at the same time
          RequestTime,    \* ticks a request takes at most
          MaxChanges, MaxOutages

VARIABLES kind,           \* the cache at hand: the caches do not depend on each other
          version,        \* committed changes
          gone,           \* gone[v]: ticks since version v was current
          redis,          \* [ttl, values]: the Redis key
          outage,         \* Redis is away, and how often it was
          change,         \* the transaction that makes a change
          reading,        \* requests that read
          served,         \* age of the last value answered
          late            \* a reader saved too late, or a purge was lost

cacheVars == <<kind, version, gone, redis, outage, change, reading, served, late>>

Nothing == MaxChanges + 1
NoEntry == [ttl |-> 0, values |-> [f \in Fields[kind] |-> Nothing]]
Versions == 0..MaxChanges
Oldest == Life[kind] + RequestTime + 1
Idle == [step |-> "idle"]
Min2(a, b) == IF a < b THEN a ELSE b

Age(v) == IF v = version THEN 0 ELSE gone[v]

\* mutant: an entry is written without expiry
SavedForever(f, v) == [ttl |-> 10 * Life[kind], values |-> [redis.values EXCEPT ![f] = v]]

\* set_cache of each cache: hset or set, then expire on the whole key
Saved(f, v) == [ttl |-> Life[kind], values |-> [redis.values EXCEPT ![f] = v]]

(******************************* readers **********************************)
\* get_cached: a hit is answered, otherwise the database is asked
Lookup(r, f) ==
    /\ reading[r] = Idle
    /\ LET v == redis.values[f]
       IN IF ~outage.now /\ v # Nothing
          THEN served' = Age(v) /\ UNCHANGED reading
          ELSE /\ reading' = [reading EXCEPT ![r] = [step |-> "read", field |-> f, value |-> 0, age |-> 0]]
               /\ UNCHANGED served
    /\ UNCHANGED <<kind, version, gone, redis, outage, change, late>>

ReadDb(r) ==
    /\ reading[r].step = "read"
    /\ reading' = [reading EXCEPT ![r].step = "save", ![r].value = version]
    /\ UNCHANGED <<kind, version, gone, redis, outage, change, served, late>>

\* save: errors of Redis are logged
Save(r) ==
    /\ reading[r].step = "save"
    /\ LET q == reading[r]
       IN /\ redis' = IF outage.now THEN redis ELSE Saved(q.field, q.value)
          /\ late' = (late \/ (~outage.now /\ q.value # version))
          /\ served' = Age(q.value)
    /\ reading' = [reading EXCEPT ![r] = Idle]
    /\ UNCHANGED <<kind, version, gone, outage, change>>

(******************************* writers **********************************)
\* delete_cached, delete_all_policies_for_tenant, delete_workspaces_for_tenant
Purged ==
    /\ redis' = IF outage.now THEN redis ELSE NoEntry
    /\ late' = outage.now


PurgedWithChange == PurgeOf[kind] = "signal"

\* A statement of a transaction; signal handlers purge at once.  Changes of the
\* public tenant do not purge (skip_purging_cache_for_public_tenant)
Change(public) ==
    /\ change = "none" /\ version < MaxChanges
    /\ public => PurgeOf[kind] = "signal"
    /\ IF PurgedWithChange /\ ~public THEN Purged ELSE UNCHANGED <<redis, late>>
    /\ change' = IF PurgedWithChange THEN "purged" ELSE "made"
    /\ UNCHANGED <<kind, version, gone, outage, reading, served>>

Commit ==
    /\ change \in {"made", "purged"}
    /\ version' = version + 1
    /\ change' = IF change = "made" /\ PurgeOf[kind] = "commit" THEN "committed" ELSE "none"
    /\ UNCHANGED <<kind, gone, redis, outage, reading, served, late>>

Rollback ==
    /\ change \in {"made", "purged"}
    /\ change' = "none"
    /\ UNCHANGED <<kind, version, gone, redis, outage, reading, served, late>>

\* transaction.on_commit of perform_update and tenant_org_config
PurgeAfterCommit ==
    /\ change = "committed"
    /\ Purged
    /\ change' = "none"
    /\ UNCHANGED <<kind, version, gone, outage, reading, served>>

(**************************** the environment *****************************)
Outage ==
    /\ ~outage.now /\ outage.count < MaxOutages
    /\ outage' = [now |-> TRUE, count |-> outage.count + 1]
    /\ UNCHANGED <<kind, version, gone, redis, change, reading, served, late>>

Recover ==
    /\ outage.now
    /\ outage' = [outage EXCEPT !.now = FALSE]
    /\ UNCHANGED <<kind, version, gone, redis, change, reading, served, late>>

\* A request, and the time from a commit to its purge, are short
Tick ==
    /\ \A r \in Readers : reading[r] # Idle => reading[r].age < RequestTime
    /\ change # "committed"
    /\ reading' = [r \in Readers |-> IF reading[r] = Idle THEN Idle
                                     ELSE [reading[r] EXCEPT !.age = @ + 1]]
    /\ redis' = IF redis.ttl <= 1 THEN NoEntry ELSE [redis EXCEPT !.ttl = @ - 1]
    /\ gone' = [v \in Versions |-> IF v < version THEN Min2(gone[v] + 1, Oldest) ELSE 0]
    /\ late' = (late /\ redis' # NoEntry)
    /\ UNCHANGED <<kind, version, outage, change, served>>

(***************************** specification ******************************)
CacheInit ==
    /\ kind \in Kinds
    /\ version = 0
    /\ gone = [v \in Versions |-> 0]
    /\ redis = NoEntry
    /\ outage = [now |-> FALSE, count |-> 0]
    /\ change = "none"
    /\ reading = [r \in Readers |-> Idle]
    /\ served = 0
    /\ late = FALSE

CacheNext ==
    \/ \E r \in Readers : ReadDb(r) \/ Save(r) \/ \E f \in Fields[kind] : Lookup(r, f)
    \/ \E public \in BOOLEAN : Change(public)
    \/ Commit \/ Rollback \/ PurgeAfterCommit
    \/ Outage \/ Recover \/ Tick

CacheSpec == CacheInit /\ [][CacheNext]_cacheVars

(******************************* properties *******************************)
(* An answer from a cache whose Redis keys hold one value (all but the     *)
(* policies) was true no longer ago than the lifetime of an entry and a    *)
(* request, whatever purges are lost and however readers and writers       *)
(* overlap (set_cache of cache.py writes value and expiry in one pipeline).*)
BoundedStaleness ==
    Cardinality(Fields[kind]) = 1 => served <= Life[kind] + RequestTime

=============================================================================
