------------------------------ MODULE Settings ------------------------------
(***************************************************************************)
(* SettingsService: one setting, global and overridden by one branch, read *)
(* through a cache with a time to live.                                    *)
(*   apps/api/src/common/settings/settings.service.ts                      *)
(*   apps/api/src/users/users.module.ts (settings endpoints)               *)
(*                                                                         *)
(* Time is kept as ages, which stop growing where nobody can tell any more.*)
(* One cache key is followed, the global one or the branch's: entries of   *)
(* different keys have nothing in common but that a save clears them all.  *)
(***************************************************************************)
EXTENDS Integers, Sequences, FiniteSets

CONSTANTS
  Values,          \* what administrators save
  DefaultValue,    \* SETTING_DEFAULTS
  Ttl,             \* ttlMs, in ticks
  MaxRead,         \* assumption: how many ticks the database takes to answer
  MaxSettingSaves  \* bound

ASSUME SettingsAssumption ==
  /\ DefaultValue \notin Values
  /\ {Ttl, MaxRead, MaxSettingSaves} \subseteq Nat

VARIABLES
  rows,         \* the rows of the setting
  upserts,      \* the two saves under way
  settingSaves,
  scope,        \* the cache key that is followed
  cache,        \* its entry: a value and its age; an age of Ttl is no entry
  reads,        \* the queries under way
  answer,       \* what get returned last
  overlapped,   \* history: two saves of the global value overlapped
  outdated      \* history: by value, how long it has not been in force

settingsVars == <<rows, upserts, settingSaves, scope, cache, reads, answer, overlapped, outdated>>

-----------------------------------------------------------------------------
Scopes   == {"global", "branch"}
AllValues == Values \cup {DefaultValue}
Pair     == 1 .. 2
Never    == Ttl + MaxRead + 1        \* an age beyond all that matters

NoUpsert == [phase |-> "idle", scope |-> "global", value |-> DefaultValue, row |-> 0]
NoEntry  == [value |-> DefaultValue, age |-> Ttl]
NoRead   == [phase |-> "idle", value |-> DefaultValue, age |-> 0]

RowsOf(db, s) == {i \in DOMAIN db : db[i].scope = s}

(* Branch value, else global value, else default.  There may be two global *)
(* rows (their branch is NULL, which is unique to no constraint); get      *)
(* takes the one that the database returns first, either.                  *)
Resolve(db) ==
  LET global == RowsOf(db, "global")
      own    == RowsOf(db, scope)
  IN  IF own # {} THEN {db[i].value : i \in own}
      ELSE IF global # {} THEN {db[i].value : i \in global}
      ELSE {DefaultValue}

SettingsInit ==
  /\ rows = <<>> /\ settingSaves = 0
  /\ upserts = [u \in Pair |-> NoUpsert]
  /\ scope \in Scopes
  /\ cache = NoEntry
  /\ reads = [k \in Pair |-> NoRead]
  /\ answer = DefaultValue /\ overlapped = FALSE
  /\ outdated = [v \in AllValues |-> IF v = DefaultValue THEN 0 ELSE Never]

-----------------------------------------------------------------------------
(***************************************************************************)
(* get: a fresh entry answers at once; otherwise the rows are read, and    *)
(* what they said is cached and answered when it has arrived, which may be *)
(* after a save has emptied the cache.                                     *)
(***************************************************************************)
Fresh_Always(entry) == entry # NoEntry      \* faulty: entries do not expire

Fresh(entry) == entry.age < Ttl

GetHit ==
  /\ Fresh(cache)
  /\ answer' = cache.value
  /\ UNCHANGED <<rows, upserts, settingSaves, scope, cache, reads, overlapped, outdated>>

GetMiss(k) ==
  /\ ~Fresh(cache) /\ reads[k] = NoRead
  /\ \E v \in Resolve(rows) : reads' = [reads EXCEPT ![k] = [phase |-> "read", value |-> v, age |-> 0]]
  /\ UNCHANGED <<rows, upserts, settingSaves, scope, cache, answer, overlapped, outdated>>

GetReturns(k) ==
  /\ reads[k].phase = "read"
  /\ cache' = [value |-> reads[k].value, age |-> 0]
  /\ answer' = reads[k].value
  /\ reads' = [reads EXCEPT ![k] = NoRead]
  /\ UNCHANGED <<rows, upserts, settingSaves, scope, overlapped, outdated>>

(***************************************************************************)
(* upsert: look for a row, update or create it, empty the cache.           *)
(***************************************************************************)

RowToUpdate(to) == IF RowsOf(rows, to) = {} THEN {0} ELSE RowsOf(rows, to)

BeginUpsert(u, to, v) ==
  /\ upserts[u] = NoUpsert
  /\ settingSaves < MaxSettingSaves /\ settingSaves' = settingSaves + 1
  /\ \E row \in RowToUpdate(to) :
       upserts' = [upserts EXCEPT ![u] = [phase |-> "found", scope |-> to, value |-> v, row |-> row]]
  /\ overlapped' = (overlapped \/ (to = "global" /\ \E w \in Pair : upserts[w].phase = "found" /\ upserts[w].scope = to))
  /\ UNCHANGED <<rows, scope, cache, reads, answer, outdated>>

(* A branch has one row: the second insert fails and the save with it.     *)
Fails(save) == save.row = 0 /\ save.scope = "branch" /\ RowsOf(rows, "branch") # {}

WriteRow(u) ==
  LET save == upserts[u]
      db == IF Fails(save) THEN rows
            ELSE IF save.row = 0 THEN Append(rows, [scope |-> save.scope, value |-> save.value])
            ELSE [rows EXCEPT ![save.row].value = save.value]
  IN
  /\ save.phase = "found"
  /\ rows' = db
  /\ outdated' = [v \in AllValues |-> IF v \in Resolve(db) THEN 0 ELSE outdated[v]]
  /\ upserts' = [upserts EXCEPT ![u] = IF Fails(save) THEN NoUpsert ELSE [@ EXCEPT !.phase = "written"]]
  /\ UNCHANGED <<settingSaves, scope, cache, reads, answer, overlapped>>

ClearCache(u) ==
  /\ upserts[u].phase = "written"
  /\ cache' = NoEntry
  /\ upserts' = [upserts EXCEPT ![u] = NoUpsert]
  /\ UNCHANGED <<rows, settingSaves, scope, reads, answer, overlapped, outdated>>

(* Time passes for the entry, the queries and the values no longer there.  *)
Tick ==
  /\ \A k \in Pair : reads[k].age < MaxRead
  /\ cache' = IF cache.age < Ttl THEN [cache EXCEPT !.age = @ + 1] ELSE cache
  /\ reads' = [k \in Pair |->
       IF reads[k] = NoRead THEN NoRead ELSE [reads[k] EXCEPT !.age = @ + 1]]
  /\ outdated' = [v \in AllValues |->
       IF v \in Resolve(rows) \/ outdated[v] = Never THEN outdated[v] ELSE outdated[v] + 1]
  /\ UNCHANGED <<rows, upserts, settingSaves, scope, answer, overlapped>>

-----------------------------------------------------------------------------
SettingsNext ==
  \/ \E u \in Pair :
       \/ \E to \in Scopes, v \in Values : BeginUpsert(u, to, v)
       \/ WriteRow(u) \/ ClearCache(u)
  \/ GetHit
  \/ \E k \in Pair : GetMiss(k) \/ GetReturns(k)
  \/ Tick

SettingsTypeOK ==
  /\ \A i \in DOMAIN rows : rows[i].scope \in Scopes /\ rows[i].value \in Values
  /\ Cardinality(RowsOf(rows, "branch")) <= 1
  /\ \A u \in Pair : /\ upserts[u].phase \in {"idle", "found", "written"}
                     /\ upserts[u].row \in 0 .. Len(rows)
  /\ scope \in Scopes /\ answer \in AllValues
  /\ cache.value \in AllValues /\ cache.age \in 0 .. Ttl
  /\ \A k \in Pair : reads[k].age \in 0 .. MaxRead
  /\ \A v \in AllValues : outdated[v] \in 0 .. Never
  /\ settingSaves \in 0 .. MaxSettingSaves

(***************************************************************************)
(* A setting is stale for the time to live at most, also when a query that *)
(* was under way during a save fills the emptied cache with the old value: *)
(* every entry holds a value that was in force when it was read.           *)
(***************************************************************************)
StaleAtMostTtl == Fresh(cache) => outdated[cache.value] < Ttl + MaxRead

(***************************************************************************)
(* A value has one row.  Two global rows are left only by two saves that   *)
(* looked for the row at the same time; from then on a save may change the *)
(* row that get does not read.                                             *)
(***************************************************************************)
OneRowEach == Cardinality(RowsOf(rows, "global")) > 1 => overlapped

(***************************************************************************)
(* When the saves have ended, what get answers becomes the value in force  *)
(* (one of the two when a race has left two global rows) and stays so.     *)
(***************************************************************************)
ReadersSettle == <>[](answer \in Resolve(rows))

(* Whatever saves and reads overlap, what is stored and what is cached     *)
(* stay bounded away from wrong: one row a value, and stale for a while.   *)
SettingIsSound == StaleAtMostTtl /\ OneRowEach
=============================================================================
