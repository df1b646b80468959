--------------------------- MODULE BackOffice_proofs ---------------------------
(***************************************************************************)
(* Proofs about the four areas of BackOffice, for every catalog, every set *)
(* of roles and permissions, every setting and every calendar.             *)
(*                                                                         *)
(* The arguments.  Settings: an entry of the cache is older by its age     *)
(* than a read that had a value in force when it was made (AgesAreTrue).   *)
(* Access: what a request may have seen since it came in includes what is  *)
(* true now (SeenIsCurrent); a permission row outlives only the saves that *)
(* took their snapshot before it was inserted (RowsHaveASave).  Catalog:   *)
(* what an import does not create is there (ImportsMeetProducts), a commit *)
(* that finds its import applied was raced (CommitsAreRaced), what an      *)
(* operator has configured is there (OperatorsWork), and each part of what *)
(* the server has read was in force when it was read (ShopperIsServed).    *)
(* Promotions: the instants of a row are those of the days promised        *)
(* (DaysAreKept), and the page was drawn at a time that has passed.        *)
(***************************************************************************)
EXTENDS BackOffice, FiniteSetTheorems, TLAPS

-----------------------------------------------------------------------------
(***************************************************************************)
(* Settings.                                                               *)
(***************************************************************************)
SettingRow == [scope : Scopes, value : Values]

CacheEntry == [value : AllValues, age : 0 .. Ttl]

Query == [phase : {"idle", "read"}, value : AllValues, age : 0 .. MaxRead]

Upsert == [phase : {"idle", "found", "written"}, scope : Scopes, value : AllValues, row : Nat]

SettingsTyped ==
  /\ rows \in Seq(SettingRow)
  /\ upserts \in [Pair -> Upsert]
  /\ \A u \in Pair : /\ upserts[u].row \in 0 .. Len(rows)
                     /\ upserts[u].phase = "found" => upserts[u].value \in Values
  /\ scope \in Scopes
  /\ cache \in CacheEntry
  /\ reads \in [Pair -> Query]
  /\ outdated \in [AllValues -> 0 .. Never]

(* A value that was read has been out of force for no longer than that.    *)
AgesAreTrue ==
  /\ \A v \in Resolve(rows) : outdated[v] = 0
  /\ \A k \in Pair : reads[k].phase = "read" => outdated[reads[k].value] <= reads[k].age
  /\ Fresh(cache) => outdated[cache.value] <= cache.age + MaxRead

(* Saves that do not overlap find the row, or are alone in making it.      *)
GlobalRowIsOne ==
  overlapped \/
    /\ \A i, j \in RowsOf(rows, "global") : i = j
    /\ \A u, w \in Pair : /\ upserts[u].phase = "found" /\ upserts[u].scope = "global"
                          /\ upserts[w].phase = "found" /\ upserts[w].scope = "global"
                          => u = w
    /\ \A u \in Pair : /\ upserts[u].phase = "found" /\ upserts[u].scope = "global"
                       /\ upserts[u].row = 0
                       => RowsOf(rows, "global") = {}

SettingsInv == SettingsTyped /\ AgesAreTrue /\ GlobalRowIsOne

-----------------------------------------------------------------------------
(* The bounds are natural numbers.                                         *)
LEMMA SettingsNumbers == Ttl \in Nat /\ MaxRead \in Nat /\ MaxSettingSaves \in Nat
  BY SettingsAssumption

(* Nothing has been saved or read.                                         *)
LEMMA SettingsStart == SettingsInit => SettingsInv
<1>. SUFFICES ASSUME SettingsInit PROVE SettingsInv
  OBVIOUS
<1>1. SettingsTyped
  <2>1. NoEntry \in CacheEntry
        /\ NoRead \in Query
    BY SettingsNumbers DEF NoEntry, NoRead, AllValues, CacheEntry, Query
  <2>2. NoUpsert \in Upsert /\ NoUpsert.row = 0 /\ NoUpsert.phase = "idle"
    BY DEF NoUpsert, Upsert, AllValues, Scopes
  <2>3. outdated \in [AllValues -> 0 .. Never]
    BY SettingsNumbers DEF SettingsInit, Never
  <2>4. rows \in Seq(SettingRow) /\ Len(rows) = 0
    BY DEF SettingsInit
  <2>. QED BY <2>1, <2>2, <2>3, <2>4 DEF SettingsInit, SettingsTyped
<1>2. \A s : RowsOf(rows, s) = {}
  BY DEF SettingsInit, RowsOf
<1>3. Resolve(rows) = {DefaultValue}
  BY <1>2 DEF Resolve
<1>4. AgesAreTrue
  <2>1. \A k \in Pair : reads[k].phase = "idle"
    BY DEF SettingsInit, NoRead
  <2>2. ~Fresh(cache)
    BY SettingsNumbers DEF SettingsInit, NoEntry, Fresh
  <2>3. outdated[DefaultValue] = 0
    BY DEF SettingsInit, AllValues
  <2>. QED BY <1>3, <2>1, <2>2, <2>3 DEF AgesAreTrue
<1>5. GlobalRowIsOne
  <2>1. \A u \in Pair : upserts[u].phase = "idle"
    BY DEF SettingsInit, NoUpsert
  <2>. QED BY <1>2, <2>1 DEF GlobalRowIsOne
<1>. QED BY <1>1, <1>4, <1>5 DEF SettingsInv

(* What get may answer is a value that was saved, or the default.          *)
LEMMA ResolveType ==
  ASSUME NEW db \in Seq(SettingRow)
  PROVE  Resolve(db) \subseteq AllValues
<1>1. \A i \in DOMAIN db : db[i] \in SettingRow
  OBVIOUS
<1>2. \A i \in DOMAIN db : db[i].value \in Values
  BY <1>1 DEF SettingRow
<1>. QED BY <1>2 DEF Resolve, RowsOf, AllValues
(* The rows after a save: the row that was found has the value, or there   *)
(* is one more; a save that fails leaves them.                             *)
LEMMA WrittenRows ==
  ASSUME SettingsTyped, NEW u \in Pair, WriteRow(u)
  PROVE  /\ rows' \in Seq(SettingRow) /\ Len(rows') >= Len(rows)
         /\ \/ rows' = rows
            \/ /\ upserts[u].row = 0
               /\ \A s : RowsOf(rows', s) = RowsOf(rows, s)
                            \cup (IF s = upserts[u].scope THEN {Len(rows) + 1} ELSE {})
            \/ \A s : RowsOf(rows', s) = RowsOf(rows, s)
<1>1. PICK save : save = upserts[u]
  OBVIOUS
<1>2. /\ save.phase = "found" /\ save.value \in Values /\ save.scope \in Scopes
      /\ save.row \in 0 .. Len(rows) /\ rows \in Seq(SettingRow)
  BY <1>1 DEF WriteRow, SettingsTyped, Upsert
<1>3. rows' = IF Fails(save) THEN rows
              ELSE IF save.row = 0
                   THEN Append(rows, [scope |-> save.scope, value |-> save.value])
                   ELSE [rows EXCEPT ![save.row].value = save.value]
  BY <1>1 DEF WriteRow
<1>4. CASE rows' = rows
  BY <1>2, <1>4
<1>5. CASE save.row = 0 /\ rows' = Append(rows, [scope |-> save.scope, value |-> save.value])
  <2>1. [scope |-> save.scope, value |-> save.value] \in SettingRow
    BY <1>2 DEF SettingRow
  <2>2. /\ rows' \in Seq(SettingRow) /\ Len(rows') = Len(rows) + 1
        /\ DOMAIN rows' = DOMAIN rows \cup {Len(rows) + 1}
        /\ rows'[Len(rows) + 1].scope = save.scope
        /\ \A i \in DOMAIN rows : rows'[i] = rows[i] /\ i # Len(rows) + 1
    BY <1>2, <1>5, <2>1
  <2>3. ASSUME NEW s
        PROVE  RowsOf(rows', s) = RowsOf(rows, s)
                 \cup (IF s = save.scope THEN {Len(rows) + 1} ELSE {})
    BY <2>2 DEF RowsOf
  <2>. QED BY <1>1, <1>2, <1>5, <2>2, <2>3
<1>6. CASE save.row # 0 /\ rows' = [rows EXCEPT ![save.row].value = save.value]
  <2>1. save.row \in 1 .. Len(rows) /\ save.row \in DOMAIN rows
    BY <1>2, <1>6
  <2>2. rows[save.row] \in SettingRow
    BY <1>2, <2>1
  <2>3. [rows[save.row] EXCEPT !.value = save.value] \in SettingRow
    BY <1>2, <2>2 DEF SettingRow
  <2>4. /\ rows' \in Seq(SettingRow) /\ Len(rows') = Len(rows) /\ DOMAIN rows' = DOMAIN rows
        /\ \A i \in DOMAIN rows : rows'[i].scope = rows[i].scope
    <3>1. rows' = [rows EXCEPT ![save.row] = [rows[save.row] EXCEPT !.value = save.value]]
      BY <1>6
    <3>2. [rows[save.row] EXCEPT !.value = save.value].scope = rows[save.row].scope
      BY <2>2 DEF SettingRow
    <3>3. \A i \in DOMAIN rows : rows'[i] = IF i = save.row
            THEN [rows[save.row] EXCEPT !.value = save.value] ELSE rows[i]
      BY <3>1
    <3>4. rows' \in Seq(SettingRow) /\ Len(rows') = Len(rows) /\ DOMAIN rows' = DOMAIN rows
      BY <1>2, <2>1, <2>3, <3>1
    <3>. QED BY <3>2, <3>3, <3>4
  <2>5. \A s : RowsOf(rows', s) = RowsOf(rows, s)
    BY <2>4 DEF RowsOf
  <2>6. Len(rows') >= Len(rows)
    BY <1>2, <2>4
  <2>. QED BY <2>4, <2>5, <2>6
<1>. QED BY <1>3, <1>4, <1>5, <1>6

(* A save writes its row.                                                  *)
LEMMA WriteRowKeeps ==
  ASSUME SettingsInv, NEW u \in Pair, WriteRow(u)
  PROVE  SettingsInv'
<1>1. /\ upserts[u].phase = "found"
      /\ outdated' = [v \in AllValues |-> IF v \in Resolve(rows') THEN 0 ELSE outdated[v]]
      /\ UNCHANGED <<scope, cache, reads, overlapped>>
      /\ \E w \in {NoUpsert, [upserts[u] EXCEPT !.phase = "written"]} :
           upserts' = [upserts EXCEPT ![u] = w]
  BY DEF WriteRow
<1>2. PICK w : /\ w \in {NoUpsert, [upserts[u] EXCEPT !.phase = "written"]}
               /\ upserts' = [upserts EXCEPT ![u] = w]
  BY <1>1
<1>3. /\ w \in Upsert /\ w.phase # "found" /\ w.row \in 0 .. Len(rows)
  <2>1. upserts[u] \in Upsert /\ upserts[u].row \in 0 .. Len(rows) /\ 0 \in 0 .. Len(rows)
    BY DEF SettingsInv, SettingsTyped
  <2>2. CASE w = NoUpsert
    BY <2>1, <2>2 DEF Upsert, NoUpsert, AllValues, Scopes
  <2>3. CASE w = [upserts[u] EXCEPT !.phase = "written"]
    BY <2>1, <2>3 DEF Upsert
  <2>. QED BY <1>2, <2>2, <2>3
<1>4. /\ upserts' \in [Pair -> Upsert] /\ upserts'[u] = w
      /\ \A x \in Pair \ {u} : upserts'[x] = upserts[x]
  BY <1>2, <1>3 DEF SettingsInv, SettingsTyped
<1>5. /\ rows' \in Seq(SettingRow) /\ Len(rows') >= Len(rows)
      /\ rows \in Seq(SettingRow)
  BY WrittenRows DEF SettingsInv, SettingsTyped
<1>6. Resolve(rows') \subseteq AllValues /\ Resolve(rows)' = Resolve(rows')
  BY <1>1, <1>5, ResolveType DEF Resolve
<1>7. \A v \in AllValues : outdated'[v] = IF v \in Resolve(rows') THEN 0 ELSE outdated[v]
  BY <1>1
<1>8. outdated' \in [AllValues -> 0 .. Never]
  <2>1. 0 \in 0 .. Never /\ outdated \in [AllValues -> 0 .. Never]
    BY SettingsNumbers DEF SettingsInv, SettingsTyped, Never
  <2>. QED BY <1>1, <2>1
<1>9. SettingsTyped'
  <2>1. Len(rows) \in Nat /\ Len(rows') \in Nat
    BY <1>5
  <2>2. \A x \in Pair : /\ upserts[x].row \in 0 .. Len(rows)
                        /\ upserts[x].phase = "found" => upserts[x].value \in Values
    BY DEF SettingsInv, SettingsTyped
  <2>3. \A i \in 0 .. Len(rows) : i \in 0 .. Len(rows')
    BY <1>5, <2>1
  <2>4. \A x \in Pair : /\ upserts'[x].row \in 0 .. Len(rows')
                        /\ upserts'[x].phase = "found" => upserts'[x].value \in Values
    BY <1>3, <1>4, <2>2, <2>3
  <2>. QED BY <1>1, <1>4, <1>5, <1>8, <2>4 DEF SettingsInv, SettingsTyped
<1>10. AgesAreTrue'
  <2>0. \A v \in AllValues : outdated[v] \in Nat
    BY SettingsNumbers DEF SettingsInv, SettingsTyped, Never
  <2>1. \A v \in AllValues : /\ outdated'[v] <= outdated[v]
                              /\ outdated[v] \in Nat /\ outdated'[v] \in Nat
    BY <1>7, <2>0
  <2>2. \A k \in Pair : reads[k].value \in AllValues /\ reads[k].age \in Nat
    BY SettingsNumbers DEF SettingsInv, SettingsTyped, Query
  <2>3. cache.value \in AllValues /\ cache.age \in Nat
    BY SettingsNumbers DEF SettingsInv, SettingsTyped, CacheEntry
  <2>4. \A v \in Resolve(rows)' : outdated'[v] = 0
    BY <1>6, <1>7
  <2>5. \A k \in Pair : reads[k].phase = "read" => outdated'[reads[k].value] <= reads[k].age
    BY <2>1, <2>2 DEF SettingsInv, AgesAreTrue
  <2>6. Fresh(cache) => outdated'[cache.value] <= cache.age + MaxRead
    BY <2>1, <2>3, SettingsNumbers DEF SettingsInv, AgesAreTrue
  <2>. QED BY <1>1, <2>4, <2>5, <2>6 DEF AgesAreTrue, Fresh
<1>11. GlobalRowIsOne'
  <2>. SUFFICES ASSUME ~overlapped PROVE GlobalRowIsOne'
    BY <1>1 DEF GlobalRowIsOne
  <2>1. /\ \A i, j \in RowsOf(rows, "global") : i = j
        /\ \A x, y \in Pair : /\ upserts[x].phase = "found" /\ upserts[x].scope = "global"
                              /\ upserts[y].phase = "found" /\ upserts[y].scope = "global"
                              => x = y
        /\ \A x \in Pair : /\ upserts[x].phase = "found" /\ upserts[x].scope = "global"
                           /\ upserts[x].row = 0
                           => RowsOf(rows, "global") = {}
    BY DEF SettingsInv, GlobalRowIsOne
  <2>2. \A x, y \in Pair : /\ upserts'[x].phase = "found" /\ upserts'[x].scope = "global"
                           /\ upserts'[y].phase = "found" /\ upserts'[y].scope = "global"
                           => x = y
    BY <1>3, <1>4, <2>1
  <2>3. CASE RowsOf(rows', "global") = RowsOf(rows, "global")
    <3>1. \A x \in Pair : /\ upserts'[x].phase = "found" /\ upserts'[x].scope = "global"
                          /\ upserts'[x].row = 0
                          => RowsOf(rows', "global") = {}
      BY <1>3, <1>4, <2>1, <2>3
    <3>. QED BY <2>1, <2>2, <2>3, <3>1 DEF GlobalRowIsOne, RowsOf
  <2>4. CASE /\ upserts[u].row = 0 /\ upserts[u].scope = "global"
             /\ RowsOf(rows', "global") = RowsOf(rows, "global") \cup {Len(rows) + 1}
    <3>1. RowsOf(rows', "global") = {Len(rows) + 1}
      BY <1>1, <2>1, <2>4
    <3>2. \A x \in Pair : ~(upserts'[x].phase = "found" /\ upserts'[x].scope = "global")
      BY <1>1, <1>3, <1>4, <2>1, <2>4
    <3>. QED BY <3>1, <3>2 DEF GlobalRowIsOne, RowsOf
  <2>5. \/ RowsOf(rows', "global") = RowsOf(rows, "global")
        \/ /\ upserts[u].row = 0 /\ upserts[u].scope = "global"
           /\ RowsOf(rows', "global") = RowsOf(rows, "global") \cup {Len(rows) + 1}
    BY WrittenRows DEF SettingsInv
  <2>. QED BY <2>3, <2>4, <2>5
<1>. QED BY <1>9, <1>10, <1>11 DEF SettingsInv
(* A step that leaves the rows and the values in force.                    *)
LEMMA SavesKeep ==
  ASSUME SettingsInv, UNCHANGED <<rows, scope, outdated, overlapped>>,
         cache' \in CacheEntry,
         reads' \in [Pair -> Query],
         \A k \in Pair : reads'[k].phase = "read" => outdated[reads'[k].value] <= reads'[k].age,
         Fresh(cache') => outdated[cache'.value] <= cache'.age + MaxRead,
         upserts' \in [Pair -> Upsert],
         \A u \in Pair : \/ upserts'[u] = upserts[u]
                         \/ /\ upserts'[u].phase # "found"
                            /\ upserts'[u].row \in 0 .. Len(rows)
  PROVE  SettingsInv'
<1>1. SettingsTyped'
  BY DEF SettingsInv, SettingsTyped
<1>2. Resolve(rows)' = Resolve(rows)
  BY DEF Resolve
<1>3. AgesAreTrue'
  BY <1>2 DEF SettingsInv, AgesAreTrue, Fresh
<1>4. GlobalRowIsOne'
  BY DEF SettingsInv, GlobalRowIsOne, RowsOf
<1>. QED BY <1>1, <1>3, <1>4 DEF SettingsInv

(* A save that has written clears the cache.                               *)
LEMMA ClearCacheKeeps ==
  ASSUME SettingsInv, NEW u \in Pair, ClearCache(u)
  PROVE  SettingsInv'
<1>1. /\ UNCHANGED <<rows, scope, outdated, overlapped, reads>>
      /\ cache' = NoEntry /\ upserts' = [upserts EXCEPT ![u] = NoUpsert]
  BY DEF ClearCache
<1>2. /\ NoEntry \in CacheEntry /\ ~Fresh(NoEntry)
      /\ NoUpsert \in Upsert /\ NoUpsert.row = 0 /\ NoUpsert.phase = "idle"
  BY SettingsNumbers DEF NoEntry, AllValues, Fresh, NoUpsert, Upsert, Scopes, CacheEntry
<1>3. 0 \in 0 .. Len(rows)
  BY DEF SettingsInv, SettingsTyped
<1>. QED BY <1>1, <1>2, <1>3, SavesKeep DEF SettingsInv, SettingsTyped, AgesAreTrue

(* get: from the cache, by a query, and the query's answer into the cache. *)
LEMMA GetKeeps ==
  ASSUME SettingsInv, NEW k \in Pair, GetHit \/ GetMiss(k) \/ GetReturns(k)
  PROVE  SettingsInv'
<1>1. UNCHANGED <<rows, scope, outdated, overlapped, upserts>>
  BY DEF GetHit, GetMiss, GetReturns
<1>2. /\ cache \in CacheEntry
      /\ reads \in [Pair -> Query]
      /\ upserts \in [Pair -> Upsert]
      /\ \A x \in Pair : reads[x].phase = "read" => outdated[reads[x].value] <= reads[x].age
      /\ Fresh(cache) => outdated[cache.value] <= cache.age + MaxRead
      /\ \A v \in AllValues : outdated[v] \in Nat
      /\ 0 \in 0 .. MaxRead /\ 0 \in 0 .. Ttl
  BY SettingsNumbers DEF SettingsInv, SettingsTyped, AgesAreTrue, Never
<1>a. /\ UNCHANGED <<rows, scope, outdated, overlapped>> /\ upserts' \in [Pair -> Upsert]
      /\ \A x \in Pair : upserts'[x] = upserts[x]
  BY <1>1, <1>2
<1>3. CASE GetHit
  <2>1. UNCHANGED <<cache, reads>>
    BY <1>3 DEF GetHit
  <2>2. /\ cache' \in CacheEntry /\ reads' \in [Pair -> Query]
        /\ \A x \in Pair : reads'[x].phase = "read" => outdated[reads'[x].value] <= reads'[x].age
        /\ Fresh(cache') => outdated[cache'.value] <= cache'.age + MaxRead
    BY <1>2, <2>1
  <2>. QED BY <1>a, <2>2, SavesKeep
<1>4. CASE GetMiss(k)
  <2>1. PICK v \in Resolve(rows) :
          reads' = [reads EXCEPT ![k] = [phase |-> "read", value |-> v, age |-> 0]]
    BY <1>4 DEF GetMiss
  <2>2. v \in AllValues /\ outdated[v] = 0
    BY ResolveType DEF SettingsInv, SettingsTyped, AgesAreTrue
  <2>3. reads' \in [Pair -> Query]
    BY <1>2, <2>1, <2>2 DEF Query
  <2>4. \A x \in Pair : reads'[x].phase = "read" => outdated[reads'[x].value] <= reads'[x].age
    BY <1>2, <2>1, <2>2
  <2>5. UNCHANGED cache
    BY <1>4 DEF GetMiss
  <2>6. cache' \in CacheEntry /\ (Fresh(cache') => outdated[cache'.value] <= cache'.age + MaxRead)
    BY <1>2, <2>5
  <2>. QED BY <1>a, <2>3, <2>4, <2>6, SavesKeep
<1>5. CASE GetReturns(k)
  <2>1. /\ reads[k].phase = "read"
        /\ cache' = [value |-> reads[k].value, age |-> 0]
        /\ reads' = [reads EXCEPT ![k] = NoRead]
    BY <1>5 DEF GetReturns
  <2>2. /\ NoRead \in Query
        /\ NoRead.phase = "idle"
    BY <1>2 DEF NoRead, AllValues, Query
  <2>3. cache' \in CacheEntry
    BY <1>2, <2>1 DEF CacheEntry, Query
  <2>4. outdated[cache'.value] <= cache'.age + MaxRead
    <3>1. reads[k].age \in 0 .. MaxRead /\ reads[k].value \in AllValues
      BY <1>2 DEF Query
    <3>2. outdated[reads[k].value] <= reads[k].age /\ outdated[reads[k].value] \in Nat
      BY <1>2, <2>1, <3>1
    <3>3. cache'.value = reads[k].value /\ cache'.age = 0
      BY <2>1
    <3>. QED BY <3>1, <3>2, <3>3, SettingsNumbers
  <2>5. /\ reads' \in [Pair -> Query]
        /\ \A x \in Pair : reads'[x].phase = "read" => outdated[reads'[x].value] <= reads'[x].age
    BY <1>2, <2>1, <2>2
  <2>. QED BY <1>a, <2>3, <2>4, <2>5, SavesKeep
<1>. QED BY <1>3, <1>4, <1>5

(* A save looks for its row; it notices no other.                          *)
LEMMA BeginUpsertKeeps ==
  ASSUME SettingsInv, NEW u \in Pair, NEW to \in Scopes, NEW v \in Values,
         BeginUpsert(u, to, v)
  PROVE  SettingsInv'
<1>1. PICK row \in RowToUpdate(to) :
        upserts' = [upserts EXCEPT ![u] = [phase |-> "found", scope |-> to, value |-> v, row |-> row]]
  BY DEF BeginUpsert
<1>2. /\ UNCHANGED <<rows, scope, cache, reads, outdated>>
      /\ overlapped' = (overlapped \/ (to = "global" /\ \E w \in Pair :
                          upserts[w].phase = "found" /\ upserts[w].scope = to))
  BY DEF BeginUpsert
<1>3. /\ row \in 0 .. Len(rows) /\ row \in Nat
      /\ row = 0 => RowsOf(rows, to) = {}
  <2>1. rows \in Seq(SettingRow)
    BY DEF SettingsInv, SettingsTyped
  <2>2. \A i \in RowsOf(rows, to) : i \in 1 .. Len(rows)
    BY <2>1 DEF RowsOf
  <2>. QED BY <1>1, <2>1, <2>2 DEF RowToUpdate
<1>4. SettingsTyped'
  <2>1. [phase |-> "found", scope |-> to, value |-> v, row |-> row] \in Upsert
    BY <1>3 DEF Upsert, AllValues
  <2>. QED BY <1>1, <1>2, <1>3, <2>1 DEF SettingsInv, SettingsTyped
<1>5. AgesAreTrue'
  <2>1. Resolve(rows)' = Resolve(rows)
    BY <1>2 DEF Resolve
  <2>. QED BY <1>2, <2>1 DEF SettingsInv, AgesAreTrue, Fresh
<1>6. GlobalRowIsOne'
  <2>. SUFFICES ASSUME ~overlapped' PROVE GlobalRowIsOne'
    BY DEF GlobalRowIsOne
  <2>1. ~overlapped /\ (to = "global" => \A w \in Pair :
                          ~(upserts[w].phase = "found" /\ upserts[w].scope = to))
    BY <1>2
  <2>2. /\ upserts'[u].phase = "found" /\ upserts'[u].scope = to /\ upserts'[u].row = row
        /\ \A x \in Pair \ {u} : upserts'[x] = upserts[x]
    BY <1>1 DEF SettingsInv, SettingsTyped
  <2>. QED BY <1>2, <1>3, <2>1, <2>2 DEF SettingsInv, GlobalRowIsOne, RowsOf
<1>. QED BY <1>4, <1>5, <1>6 DEF SettingsInv

(* Time passes: entries, queries and outdated values age alike.            *)
LEMMA TickKeeps ==
  ASSUME SettingsInv, Tick
  PROVE  SettingsInv'
<1>1. /\ UNCHANGED <<rows, scope, overlapped, upserts>>
      /\ \A k \in Pair : reads[k].age < MaxRead
      /\ cache' = IF cache.age < Ttl THEN [cache EXCEPT !.age = @ + 1] ELSE cache
      /\ reads' = [k \in Pair |->
           IF reads[k] = NoRead THEN NoRead ELSE [reads[k] EXCEPT !.age = @ + 1]]
      /\ outdated' = [w \in AllValues |->
           IF w \in Resolve(rows) \/ outdated[w] = Never THEN outdated[w] ELSE outdated[w] + 1]
  BY DEF Tick
<1>2. /\ cache \in CacheEntry
      /\ reads \in [Pair -> Query]
      /\ \A w \in AllValues : outdated[w] \in 0 .. Never
      /\ \A w \in Resolve(rows) : w \in AllValues /\ outdated[w] = 0
      /\ Never \in Nat
  BY SettingsNumbers, ResolveType DEF SettingsInv, SettingsTyped, AgesAreTrue, Never
<1>3. \A w \in AllValues : /\ outdated'[w] \in 0 .. Never /\ outdated'[w] <= outdated[w] + 1
                           /\ w \in Resolve(rows) => outdated'[w] = 0
  <2> TAKE w \in AllValues
  <2>1. outdated'[w] = IF w \in Resolve(rows) \/ outdated[w] = Never THEN outdated[w]
                       ELSE outdated[w] + 1
    BY <1>1
  <2>2. outdated[w] \in 0 .. Never /\ (w \in Resolve(rows) => outdated[w] = 0)
    BY <1>2
  <2>. QED BY <1>2, <2>1, <2>2
<1>4. outdated' \in [AllValues -> 0 .. Never]
  <2>1. outdated' = [w \in AllValues |-> outdated'[w]]
    BY <1>1
  <2>. QED BY <1>3, <2>1
<1>5. /\ cache' \in CacheEntry /\ cache'.value = cache.value
      /\ Fresh(cache') => Fresh(cache) /\ cache'.age = cache.age + 1
  BY <1>1, <1>2, SettingsNumbers DEF Fresh, CacheEntry
<1>6. \A k \in Pair :
        /\ reads'[k] \in Query
        /\ reads'[k].phase = "read" => /\ reads[k].phase = "read" /\ reads'[k].value = reads[k].value
                                       /\ reads'[k].age = reads[k].age + 1
  <2> TAKE k \in Pair
  <2>1. reads[k] \in Query
    BY <1>2
  <2>2. /\ NoRead \in Query
        /\ NoRead.phase = "idle"
    BY SettingsNumbers DEF NoRead, AllValues, Query
  <2>3. CASE reads'[k] = NoRead
    BY <2>2, <2>3
  <2>4. CASE reads'[k] = [reads[k] EXCEPT !.age = @ + 1]
    <3>1. reads[k].age + 1 \in 0 .. MaxRead
      BY <1>1, <2>1, SettingsNumbers DEF Query
    <3>. QED BY <2>1, <2>4, <3>1 DEF Query
  <2>5. reads'[k] \in {NoRead, [reads[k] EXCEPT !.age = @ + 1]}
    BY <1>1
  <2>. QED BY <2>3, <2>4, <2>5
<1>7. reads' \in [Pair -> Query]
  <2>1. reads' = [k \in Pair |-> reads'[k]]
    BY <1>1
  <2>. QED BY <1>6, <2>1
<1>8. SettingsTyped'
  BY <1>1, <1>4, <1>5, <1>7 DEF SettingsInv, SettingsTyped
<1>9. AgesAreTrue'
  <2>1. Resolve(rows)' = Resolve(rows)
    BY <1>1 DEF Resolve
  <2>2. \A w \in Resolve(rows)' : outdated'[w] = 0
    BY <1>2, <1>3, <2>1
  <2>3. \A k \in Pair : reads'[k].phase = "read" => outdated'[reads'[k].value] <= reads'[k].age
    <3> SUFFICES ASSUME NEW k \in Pair, reads'[k].phase = "read"
                 PROVE  outdated'[reads'[k].value] <= reads'[k].age
      OBVIOUS
    <3>1. /\ reads[k].phase = "read" /\ reads'[k].value = reads[k].value
          /\ reads'[k].age = reads[k].age + 1
      BY <1>6
    <3>2. reads[k].value \in AllValues /\ reads[k].age \in 0 .. MaxRead
      BY <1>2 DEF Query
    <3>3. outdated[reads[k].value] <= reads[k].age
      BY <3>1 DEF SettingsInv, AgesAreTrue
    <3>4. /\ outdated'[reads[k].value] <= outdated[reads[k].value] + 1
          /\ outdated'[reads[k].value] \in 0 .. Never /\ outdated[reads[k].value] \in 0 .. Never
      BY <1>2, <1>3, <3>2
    <3>. QED BY <1>2, <3>1, <3>2, <3>3, <3>4, SettingsNumbers
  <2>4. Fresh(cache') => outdated'[cache'.value] <= cache'.age + MaxRead
    <3> SUFFICES ASSUME Fresh(cache') PROVE outdated'[cache'.value] <= cache'.age + MaxRead
      OBVIOUS
    <3>1. cache.value \in AllValues /\ cache.age \in 0 .. Ttl
      BY <1>2 DEF CacheEntry
    <3>2. outdated[cache.value] <= cache.age + MaxRead
      BY <1>5 DEF SettingsInv, AgesAreTrue
    <3>3. /\ outdated'[cache.value] <= outdated[cache.value] + 1
          /\ outdated'[cache.value] \in 0 .. Never /\ outdated[cache.value] \in 0 .. Never
      BY <1>2, <1>3, <3>1
    <3>. QED BY <1>2, <1>5, <3>1, <3>2, <3>3, SettingsNumbers
  <2>. QED BY <2>2, <2>3, <2>4, Zenon DEF AgesAreTrue, Fresh
<1>10. GlobalRowIsOne'
  BY <1>1 DEF SettingsInv, GlobalRowIsOne, RowsOf
<1>. QED BY <1>8, <1>9, <1>10 DEF SettingsInv

(* No step of the settings breaks the invariant ...                        *)
LEMMA SettingsStep == SettingsInv /\ [SettingsNext]_settingsVars => SettingsInv'
<1>. SUFFICES ASSUME SettingsInv, [SettingsNext]_settingsVars PROVE SettingsInv'
  OBVIOUS
<1>1. CASE UNCHANGED settingsVars
  <2>1. Resolve(rows)' = Resolve(rows)
    BY <1>1 DEF Resolve, settingsVars
  <2>. QED BY <1>1, <2>1 DEF settingsVars, SettingsInv, SettingsTyped, AgesAreTrue, Fresh,
                             GlobalRowIsOne, RowsOf
<1>. QED BY <1>1, BeginUpsertKeeps, WriteRowKeeps, ClearCacheKeeps, GetKeeps, TickKeeps
         DEF SettingsNext, Pair

(* ... which says what the runs check.                                     *)
LEMMA SettingsSound == SettingsInv => SettingIsSound
<1>. SUFFICES ASSUME SettingsInv PROVE SettingIsSound
  OBVIOUS
<1>1. StaleAtMostTtl
  <2>. SUFFICES ASSUME Fresh(cache) PROVE outdated[cache.value] < Ttl + MaxRead
    BY DEF StaleAtMostTtl
  <2>1. cache.value \in AllValues /\ cache.age \in 0 .. Ttl /\ cache.age < Ttl
    BY DEF SettingsInv, SettingsTyped, Fresh, CacheEntry
  <2>2. outdated[cache.value] <= cache.age + MaxRead /\ outdated[cache.value] \in 0 .. Never
    BY <2>1 DEF SettingsInv, SettingsTyped, AgesAreTrue
  <2>. QED BY <2>1, <2>2, SettingsNumbers DEF Never
<1>2. OneRowEach
  <2>. SUFFICES ASSUME ~overlapped PROVE ~(Cardinality(RowsOf(rows, "global")) > 1)
    BY DEF OneRowEach
  <2>1. \A i, j \in RowsOf(rows, "global") : i = j
    BY DEF SettingsInv, GlobalRowIsOne
  <2>2. RowsOf(rows, "global") = {} \/ \E i : RowsOf(rows, "global") = {i}
    BY <2>1
  <2>3. Cardinality(RowsOf(rows, "global")) \in {0, 1}
    BY <2>2, FS_EmptySet, FS_Singleton
  <2>. QED BY <2>3
<1>. QED BY <1>1, <1>2 DEF SettingIsSound
-----------------------------------------------------------------------------
(***************************************************************************)
(* Access: what a request may have seen.                                   *)
(***************************************************************************)
SeenRecord ==
  [wasActive : BOOLEAN, hadRoles : SUBSET Roles, gaveIt : SUBSET Roles, valid : SUBSET Nat]

RequestRecord ==
  [phase : {"sent", "active", "roles", "allowed"}, who : {"user", "device"}, perm : Perms,
   token : Nat, roles : SUBSET Roles, seen : SeenRecord]

AccessTyped ==
  /\ user \in [active : BOOLEAN, roles : SUBSET Roles]
  /\ device \in [active : BOOLEAN, hash : Nat]
  /\ rotation \in [Savers -> [phase : {"idle", "made", "shown"}, token : Nat]]
  /\ held \in Nat /\ saves \in Nat
  /\ request \in RequestRecord \cup {NoRequest}

(* What is true now has been seen.                                         *)
Gives(g, r, perm) == \E row \in g[r] : row[1] = perm

Current(who, seen, perm, u, g, d) ==
  /\ who = "user" =>
       /\ u.active => seen.wasActive
       /\ seen.wasActive => u.roles \subseteq seen.hadRoles
       /\ \A r \in seen.hadRoles : Gives(g, r, perm) => r \in seen.gaveIt
  /\ who = "device" => (d.active => d.hash \in seen.valid)

SeenIsCurrent ==
  request # NoRequest => Current(request.who, request.seen, request.perm, user, grants, device)

(* What the guards have let through, they have seen.                       *)
GuardsHaveSeen ==
  /\ request.phase \in {"active", "roles"} => request.who = "user" /\ request.seen.wasActive
  /\ request.phase = "roles" => request.roles \subseteq request.seen.hadRoles
  /\ EffectsWereAllowed

RequestInv == AccessTyped /\ SeenIsCurrent /\ GuardsHaveSeen

-----------------------------------------------------------------------------
(* A request that is under way has all its fields.                         *)
LEMMA UnderWay ==
  ASSUME AccessTyped
  PROVE  /\ NoRequest.phase = "idle"
         /\ request.phase = "idle" <=> request = NoRequest
         /\ request # NoRequest => request \in RequestRecord
<1>1. NoRequest.phase = "idle"
  BY DEF NoRequest
<1>2. request \in RequestRecord => request.phase # "idle"
  BY DEF RequestRecord
<1>. QED BY <1>1, <1>2 DEF AccessTyped

(* What has been seen is not forgotten, and what is true now is added.     *)
LEMMA SinceIsCurrent ==
  ASSUME NEW who \in {"user", "device"}, NEW seen \in SeenRecord, NEW perm, NEW g,
         NEW u \in [active : BOOLEAN, roles : SUBSET Roles],
         NEW d \in [active : BOOLEAN, hash : Nat],
         NEW new, new = Since(who, seen, perm, u, g, d)
  PROVE  /\ new \in SeenRecord /\ Current(who, new, perm, u, g, d)
         /\ seen.wasActive => new.wasActive
         /\ seen.hadRoles \subseteq new.hadRoles
         /\ seen.gaveIt \subseteq new.gaveIt /\ seen.valid \subseteq new.valid
<1>1. PICK was \in BOOLEAN : was = (seen.wasActive \/ u.active)
  BY DEF SeenRecord
<1>2. PICK had \in SUBSET Roles : had = seen.hadRoles \cup (IF was THEN u.roles ELSE {})
  BY DEF SeenRecord
<1>3. PICK giving \in SUBSET Roles : giving = {r \in Roles : Gives(g, r, perm)}
  OBVIOUS
<1>4. PICK gave \in SUBSET Roles : gave = seen.gaveIt \cup (had \cap giving)
  BY DEF SeenRecord
<1>5. PICK val \in SUBSET Nat : val = seen.valid \cup (IF d.active THEN {d.hash} ELSE {})
  BY DEF SeenRecord
<1>6. CASE who = "device"
  <2>1. new = [seen EXCEPT !.valid = val]
    BY <1>5, <1>6 DEF Since
  <2>2. /\ new \in SeenRecord /\ new.valid = val
        /\ new.wasActive = seen.wasActive /\ new.hadRoles = seen.hadRoles
        /\ new.gaveIt = seen.gaveIt
    BY <2>1 DEF SeenRecord
  <2>. QED BY <1>5, <1>6, <2>2 DEF Current
<1>7. CASE who = "user"
  <2>1. new = [seen EXCEPT !.wasActive = was, !.hadRoles = had, !.gaveIt = gave]
    BY <1>1, <1>2, <1>3, <1>4, <1>7 DEF Since, Gives
  <2>2. /\ new \in SeenRecord /\ new.valid = seen.valid
        /\ new.wasActive = was /\ new.hadRoles = had /\ new.gaveIt = gave
    BY <2>1 DEF SeenRecord
  <2>3. Current(who, new, perm, u, g, d)
    BY <1>1, <1>2, <1>3, <1>4, <1>7, <2>2 DEF Current
  <2>. QED BY <1>1, <1>2, <1>4, <2>2, <2>3
<1>. QED BY <1>6, <1>7

(* Whatever is written, a request under way may have seen it.              *)
LEMMA SeenKeeps ==
  ASSUME RequestInv, NEW u, NEW g, NEW d, u = user', g = grants', d = device', Seen(u, g, d),
         u \in [active : BOOLEAN, roles : SUBSET Roles], d \in [active : BOOLEAN, hash : Nat]
  PROVE  /\ request' \in RequestRecord \cup {NoRequest}
         /\ SeenIsCurrent' /\ GuardsHaveSeen'
<1>1. CASE request = NoRequest
  <2>1. request' = NoRequest /\ request'.phase = "idle"
    BY <1>1, UnderWay DEF Seen, RequestInv
  <2>. QED BY <2>1 DEF SeenIsCurrent, GuardsHaveSeen, EffectsWereAllowed
<1>2. CASE request # NoRequest
  <2>1. request \in RequestRecord /\ request.phase # "idle"
    BY <1>2, UnderWay DEF RequestInv
  <2>2. PICK new : new = Since(request.who, request.seen, request.perm, u, g, d)
    OBVIOUS
  <2>3. request' = [request EXCEPT !.seen = new]
    BY <2>1, <2>2 DEF Seen
  <2>4. /\ new \in SeenRecord /\ Current(request.who, new, request.perm, u, g, d)
        /\ request.seen.wasActive => new.wasActive
        /\ request.seen.hadRoles \subseteq new.hadRoles
        /\ request.seen.gaveIt \subseteq new.gaveIt /\ request.seen.valid \subseteq new.valid
    <3>1. request.seen \in SeenRecord /\ request.who \in {"user", "device"}
      BY <2>1 DEF RequestRecord
    <3>. QED BY <2>2, <3>1, SinceIsCurrent
  <2>5. /\ request' \in RequestRecord /\ request'.seen = new
        /\ request'.phase = request.phase /\ request'.who = request.who
        /\ request'.perm = request.perm /\ request'.token = request.token
        /\ request'.roles = request.roles
    BY <2>1, <2>3, <2>4 DEF RequestRecord
  <2>6. SeenIsCurrent'
    BY <2>4, <2>5 DEF SeenIsCurrent
  <2>7. GuardsHaveSeen'
    BY <2>4, <2>5 DEF RequestInv, GuardsHaveSeen, EffectsWereAllowed
  <2>. QED BY <2>5, <2>6, <2>7
<1>. QED BY <1>1, <1>2

(* Users, devices and roles are saved while the request waits.             *)
LEMMA WritesKeepRequest ==
  ASSUME RequestInv,
         \/ \E active \in BOOLEAN, roles \in SUBSET Roles : SaveUser(active, roles)
         \/ SwitchDevice
         \/ \E s \in Savers : InsertGrants(s) \/ StoreHash(s)
  PROVE  RequestInv'
<1>1. CASE \E active \in BOOLEAN, roles \in SUBSET Roles : SaveUser(active, roles)
  <2>1. PICK active \in BOOLEAN, roles \in SUBSET Roles : SaveUser(active, roles)
    BY <1>1
  <2>2. /\ user' \in [active : BOOLEAN, roles : SUBSET Roles] /\ saves' \in Nat
        /\ UNCHANGED <<grants, device, rotation, held>> /\ Seen(user', grants, device)
    BY <2>1 DEF SaveUser, Save, RequestInv, AccessTyped
  <2>3. device \in [active : BOOLEAN, hash : Nat]
    BY DEF RequestInv, AccessTyped
  <2>. QED BY <2>2, <2>3, SeenKeeps DEF RequestInv, AccessTyped
<1>2. CASE SwitchDevice
  <2>0. device' = [device EXCEPT !.active = ~@] /\ device \in [active : BOOLEAN, hash : Nat]
    BY <1>2 DEF SwitchDevice, RequestInv, AccessTyped
  <2>1. /\ device' \in [active : BOOLEAN, hash : Nat] /\ saves' \in Nat
        /\ UNCHANGED <<user, grants, rotation, held>> /\ Seen(user, grants, device')
    <3>1. device' \in [active : BOOLEAN, hash : Nat]
      BY <2>0
    <3>. QED BY <1>2, <3>1 DEF SwitchDevice, Save, RequestInv, AccessTyped
  <2>2. user \in [active : BOOLEAN, roles : SUBSET Roles]
    BY DEF RequestInv, AccessTyped
  <2>. QED BY <2>1, <2>2, SeenKeeps DEF RequestInv, AccessTyped
<1>3. ASSUME NEW s \in Savers, InsertGrants(s) PROVE RequestInv'
  <2>1. /\ UNCHANGED <<user, device, rotation, held, saves>>
        /\ Seen(user, grants', device) \/ UNCHANGED <<grants, request>>
    BY <1>3 DEF InsertGrants
  <2>2. /\ user \in [active : BOOLEAN, roles : SUBSET Roles]
        /\ device \in [active : BOOLEAN, hash : Nat]
    BY DEF RequestInv, AccessTyped
  <2>3. CASE Seen(user, grants', device)
    BY <2>1, <2>2, <2>3, SeenKeeps DEF RequestInv, AccessTyped
  <2>4. CASE UNCHANGED <<grants, request>>
    BY <2>1, <2>4 DEF RequestInv, AccessTyped, SeenIsCurrent, GuardsHaveSeen, EffectsWereAllowed
  <2>. QED BY <2>1, <2>3, <2>4
<1>4. ASSUME NEW s \in Savers, StoreHash(s) PROVE RequestInv'
  <2>1. /\ device' = [device EXCEPT !.hash = rotation[s].token]
        /\ rotation' = [rotation EXCEPT ![s].phase = "shown"]
        /\ UNCHANGED <<user, grants, held, saves>> /\ Seen(user, grants, device')
    BY <1>4 DEF StoreHash
  <2>2. /\ user \in [active : BOOLEAN, roles : SUBSET Roles]
        /\ device' \in [active : BOOLEAN, hash : Nat]
        /\ rotation' \in [Savers -> [phase : {"idle", "made", "shown"}, token : Nat]]
    <3>1. rotation[s].token \in Nat /\ device \in [active : BOOLEAN, hash : Nat]
      BY DEF RequestInv, AccessTyped
    <3>2. device' \in [active : BOOLEAN, hash : Nat]
      BY <2>1, <3>1
    <3>. QED BY <2>1, <3>2 DEF RequestInv, AccessTyped
  <2>. QED BY <2>1, <2>2, SeenKeeps DEF RequestInv, AccessTyped
<1>. QED BY <1>1, <1>2, <1>3, <1>4
(* The request goes through the guards, one read after the other.          *)
LEMMA GuardsKeepRequest ==
  ASSUME RequestInv, Verify \/ ReadRoles \/ CheckPermission \/ Act
  PROVE  RequestInv'
<1>1. UNCHANGED <<user, grants, device, rotation, held, saves>>
  BY DEF Verify, ReadRoles, CheckPermission, Act, others
<1>2. request \in RequestRecord
  BY UnderWay DEF RequestInv, Verify, ReadRoles, CheckPermission, Act
<1>3. request \in RequestRecord => request # NoRequest
  BY UnderWay DEF RequestInv, RequestRecord
<1>4. ASSUME request' = NoRequest PROVE RequestInv'
  <2>1. request'.phase = "idle"
    BY <1>4 DEF NoRequest
  <2>. QED BY <1>1, <1>4, <2>1 DEF RequestInv, AccessTyped, SeenIsCurrent, GuardsHaveSeen,
                                    EffectsWereAllowed
<1>5. ASSUME NEW f \in {"sent", "active", "roles", "allowed"}, NEW roles \in SUBSET Roles,
             request' = [request EXCEPT !.phase = f, !.roles = roles],
             f \in {"active", "roles"} => request.who = "user" /\ request.seen.wasActive,
             f = "roles" => roles \subseteq request.seen.hadRoles,
             f = "allowed" => IF request.who = "device" THEN request.token \in request.seen.valid
                                                       ELSE request.seen.gaveIt # {}
      PROVE  RequestInv'
  <2>1. /\ request' \in RequestRecord
        /\ request'.phase = f /\ request'.who = request.who /\ request'.roles = roles
        /\ request'.perm = request.perm /\ request'.token = request.token
        /\ request'.seen = request.seen
    BY <1>2, <1>5 DEF RequestRecord
  <2>2. SeenIsCurrent'
    BY <1>1, <1>2, <1>3, <2>1 DEF RequestInv, SeenIsCurrent
  <2>3. GuardsHaveSeen'
    BY <1>5, <2>1 DEF GuardsHaveSeen, EffectsWereAllowed
  <2>. QED BY <1>1, <2>1, <2>2, <2>3 DEF RequestInv, AccessTyped
<1>6. /\ request.roles \in SUBSET Roles /\ request.perm \in Perms
      /\ \A f : [request EXCEPT !.phase = f] = [request EXCEPT !.phase = f, !.roles = request.roles]
  BY <1>2 DEF RequestRecord
<1>7. Current(request.who, request.seen, request.perm, user, grants, device)
  BY <1>2, <1>3 DEF RequestInv, SeenIsCurrent
<1>8. /\ request.phase \in {"active", "roles"} => request.who = "user" /\ request.seen.wasActive
      /\ request.phase = "roles" => request.roles \subseteq request.seen.hadRoles
  BY DEF RequestInv, GuardsHaveSeen
<1>9. CASE Verify
  <2>1. \/ request' = NoRequest
        \/ /\ request.who = "device" /\ VerifyDevice
           /\ request' = [request EXCEPT !.phase = "allowed"]
        \/ /\ request.who # "device" /\ user.active
           /\ request' = [request EXCEPT !.phase = "active"]
    BY <1>9 DEF Verify, Proceed
  <2>2. CASE /\ request.who = "device" /\ VerifyDevice
             /\ request' = [request EXCEPT !.phase = "allowed"]
    <3>1. request.token \in request.seen.valid
      BY <1>7, <2>2 DEF VerifyDevice, Current
    <3>. QED BY <1>5, <1>6, <2>2, <3>1
  <2>3. CASE /\ request.who # "device" /\ user.active
             /\ request' = [request EXCEPT !.phase = "active"]
    <3>1. request.seen.wasActive /\ request.who = "user"
      BY <1>2, <1>7, <2>3 DEF Current, RequestRecord
    <3>. QED BY <1>5, <1>6, <2>3, <3>1
  <2>. QED BY <1>4, <2>1, <2>2, <2>3
<1>10. CASE ReadRoles
  <2>1. request.phase = "active" /\ request' = [request EXCEPT !.phase = "roles", !.roles = user.roles]
    BY <1>10 DEF ReadRoles
  <2>2. user.roles \in SUBSET Roles /\ user.roles \subseteq request.seen.hadRoles
    BY <1>7, <1>8, <2>1 DEF Current, RequestInv, AccessTyped
  <2>. QED BY <1>5, <1>8, <2>1, <2>2
<1>11. CASE CheckPermission
  <2>1. /\ request.phase = "roles"
        /\ request' = NoRequest \/ (Permitted /\ request' = [request EXCEPT !.phase = "allowed"])
    BY <1>11 DEF CheckPermission, Proceed
  <2>2. CASE Permitted /\ request' = [request EXCEPT !.phase = "allowed"]
    <3>1. PICK r \in request.roles : request.perm \in PermsOf(r)
      BY <2>2 DEF Permitted
    <3>2. Gives(grants, r, request.perm)
      BY <3>1 DEF PermsOf, Gives
    <3>3. r \in request.seen.gaveIt
      BY <1>7, <1>8, <2>1, <3>1, <3>2 DEF Current
    <3>4. request.who = "user"
      BY <1>8, <2>1
    <3>. QED BY <1>5, <1>6, <2>2, <3>3, <3>4
  <2>. QED BY <1>4, <2>1, <2>2
<1>12. CASE Act
  BY <1>4, <1>12 DEF Act
<1>. QED BY <1>9, <1>10, <1>11, <1>12

(* A request comes in.                                                     *)
LEMMA ReceiveKeepsRequest ==
  ASSUME RequestInv, NEW who \in {"user", "device"}, NEW perm \in Perms, Receive(who, perm)
  PROVE  RequestInv'
<1>1. PICK new : new = Since(who, Unseen, perm, user, grants, device)
  OBVIOUS
<1>2. Unseen \in SeenRecord
  BY DEF Unseen, SeenRecord
<1>3. new \in SeenRecord /\ Current(who, new, perm, user, grants, device)
  <2>1. /\ user \in [active : BOOLEAN, roles : SUBSET Roles]
        /\ device \in [active : BOOLEAN, hash : Nat]
    BY DEF RequestInv, AccessTyped
  <2>. QED BY <1>1, <1>2, <2>1, SinceIsCurrent
<1>4. /\ UNCHANGED <<user, grants, device, rotation, held, saves>>
      /\ request' = [phase |-> "sent", who |-> who, perm |-> perm, roles |-> {},
                     token |-> IF who = "device" THEN held ELSE 0, seen |-> new]
  BY <1>1 DEF Receive, others
<1>5. held \in Nat
  BY DEF RequestInv, AccessTyped
<1>6. request' \in RequestRecord
  BY <1>3, <1>4, <1>5 DEF RequestRecord
<1>7. SeenIsCurrent'
  BY <1>3, <1>4 DEF SeenIsCurrent
<1>8. GuardsHaveSeen'
  BY <1>4 DEF GuardsHaveSeen, EffectsWereAllowed
<1>. QED BY <1>4, <1>6, <1>7, <1>8 DEF RequestInv, AccessTyped

(* No step breaks what is said of requests.                                *)
LEMMA RequestStep == RequestInv /\ [AccessNext]_accessVars => RequestInv'
<1>. SUFFICES ASSUME RequestInv, [AccessNext]_accessVars PROVE RequestInv'
  OBVIOUS
<1>1. ASSUME UNCHANGED <<user, grants, device, request>>, held' \in Nat, saves' \in Nat,
             rotation' \in [Savers -> [phase : {"idle", "made", "shown"}, token : Nat]]
      PROVE  RequestInv'
  BY <1>1 DEF RequestInv, AccessTyped, SeenIsCurrent, GuardsHaveSeen, EffectsWereAllowed
<1>2. /\ held \in Nat /\ saves \in Nat
      /\ rotation \in [Savers -> [phase : {"idle", "made", "shown"}, token : Nat]]
  BY DEF RequestInv, AccessTyped
<1>3. ASSUME NEW s \in Savers, NEW r \in Roles, NEW perms \in SUBSET Perms,
             BeginRoleSave(s, r, perms)
      PROVE  RequestInv'
  BY <1>1, <1>2, <1>3 DEF BeginRoleSave, Save
<1>4. ASSUME NEW s \in Savers, DeleteGrants(s) PROVE RequestInv'
  BY <1>1, <1>2, <1>4 DEF DeleteGrants
<1>5. ASSUME NEW s \in Savers, MakeToken(s) PROVE RequestInv'
  <2>1. [phase |-> "made", token |-> saves + 1] \in [phase : {"idle", "made", "shown"}, token : Nat]
    BY <1>2
  <2>. QED BY <1>1, <1>2, <1>5, <2>1 DEF MakeToken, Save
<1>6. ASSUME NEW s \in Savers, GiveToken(s) PROVE RequestInv'
  <2>1. NoRotation \in [phase : {"idle", "made", "shown"}, token : Nat]
    BY DEF NoRotation
  <2>2. rotation[s].token \in Nat
    BY <1>2
  <2>. QED BY <1>1, <1>2, <1>6, <2>1, <2>2 DEF GiveToken
<1>7. CASE LoadProfileOf
  BY <1>1, <1>2, <1>7 DEF LoadProfileOf, others
<1>8. CASE UNCHANGED accessVars
  BY <1>1, <1>2, <1>8 DEF accessVars
<1>. QED BY <1>3, <1>4, <1>5, <1>6, <1>7, <1>8, WritesKeepRequest, GuardsKeepRequest,
            ReceiveKeepsRequest DEF AccessNext
-----------------------------------------------------------------------------
(***************************************************************************)
(* Access: the saves of roles.                                             *)
(***************************************************************************)
RoleSave ==
  [phase : {"idle", "deleting", "deleted"}, role : Roles \cup {""}, perms : SUBSET Perms,
   rows : SUBSET (Perms \X Nat), after : Nat, n : Nat]

Logged == [perms : SUBSET Perms, after : Nat]

Saving(s, r) == roleSave[s].phase # "idle" /\ roleSave[s].role = r

RolesTyped ==
  /\ grants \in [Roles -> SUBSET (Perms \X Nat)]
  /\ log \in [Roles -> Seq(Logged)]
  /\ roleSave \in [Savers -> RoleSave]
  /\ \A s \in Savers : roleSave[s].phase # "idle" => roleSave[s].role \in Roles

(* Who began after a save began after it was committed.                    *)
AfterIsBefore == \A r \in Roles :
  /\ Len(log[r]) > 0
  /\ \A j \in DOMAIN log[r] : log[r][j].after < j
  /\ \A s \in Savers : Saving(s, r) => roleSave[s].after <= Len(log[r])

(* The save that inserted the row <<p, n>>: it stands, and whoever is not  *)
(* going to delete the row took its snapshot before.                       *)
IsItsSave(r, row, i) ==
  /\ Stands(r, i, row[1])
  /\ \A s \in Savers : Saving(s, r) /\ row \notin roleSave[s].rows => i > roleSave[s].after

RowsHaveASave == \A r \in Roles : \A row \in grants[r] : \E i \in DOMAIN log[r] : IsItsSave(r, row, i)

LastSaveStands == \A r \in Roles : log[r][Len(log[r])].perms \subseteq PermsOf(r)

RolesInv == RolesTyped /\ AfterIsBefore /\ RowsHaveASave /\ LastSaveStands

AccessInv == RequestInv /\ RolesInv


-----------------------------------------------------------------------------
(* A save of a role begins: its snapshot is the permissions there are.     *)
LEMMA BeginRoleSaveKeeps ==
  ASSUME RolesInv, saves \in Nat, NEW s \in Savers, NEW r \in Roles, NEW perms \in SUBSET Perms,
         BeginRoleSave(s, r, perms)
  PROVE  RolesInv'
<1>1. PICK w : w = [phase |-> "deleting", role |-> r, perms |-> perms, rows |-> grants[r],
                    after |-> Len(log[r]), n |-> saves + 2]
  OBVIOUS
<1>2. roleSave' = [roleSave EXCEPT ![s] = w] /\ UNCHANGED <<grants, log>>
  BY <1>1 DEF BeginRoleSave
<1>3. w \in RoleSave /\ w.role = r /\ w.rows = grants[r] /\ w.after = Len(log[r])
  <2>1. grants[r] \in SUBSET (Perms \X Nat) /\ log[r] \in Seq(Logged)
    BY DEF RolesInv, RolesTyped
  <2>2. Len(log[r]) \in Nat /\ saves + 2 \in Nat
    BY <2>1
  <2>3. PICK old, after, n : old = grants[r] /\ after = Len(log[r]) /\ n = saves + 2
    OBVIOUS
  <2>4. [phase |-> "deleting", role |-> r, perms |-> perms, rows |-> old, after |-> after, n |-> n]
          \in RoleSave
    BY <2>1, <2>2, <2>3 DEF RoleSave
  <2>. QED BY <1>1, <2>3, <2>4
<1>4. /\ roleSave'[s] = w /\ \A t \in Savers \ {s} : roleSave'[t] = roleSave[t]
      /\ roleSave' \in [Savers -> RoleSave]
  BY <1>2, <1>3 DEF RolesInv, RolesTyped
<1>5. RolesTyped'
  BY <1>2, <1>3, <1>4 DEF RolesInv, RolesTyped
<1>6. AfterIsBefore'
  <2>1. \A q \in Roles, t \in Savers : Saving(t, q)' => roleSave'[t].after <= Len(log[q])
    <3>1. Len(log[r]) \in Nat
      BY DEF RolesInv, RolesTyped
    <3>. QED BY <1>3, <1>4, <3>1 DEF RolesInv, AfterIsBefore, Saving
  <2>. QED BY <1>2, <2>1 DEF RolesInv, AfterIsBefore
<1>7. RowsHaveASave'
  <2>. SUFFICES ASSUME NEW q \in Roles, NEW row \in grants[q]
                PROVE  \E i \in DOMAIN log[q] : IsItsSave(q, row, i)'
    BY <1>2 DEF RowsHaveASave
  <2>1. PICK i \in DOMAIN log[q] : IsItsSave(q, row, i)
    BY DEF RolesInv, RowsHaveASave
  <2>2. \A t \in Savers : Saving(t, q)' /\ row \notin roleSave'[t].rows => i > roleSave'[t].after
    BY <1>3, <1>4, <2>1 DEF IsItsSave, Saving
  <2>3. IsItsSave(q, row, i)'
    BY <1>2, <2>1, <2>2 DEF IsItsSave, Stands
  <2>. QED BY <2>3
<1>8. LastSaveStands'
  BY <1>2 DEF RolesInv, LastSaveStands, PermsOf
<1>. QED BY <1>5, <1>6, <1>7, <1>8 DEF RolesInv

(* deleteMany: rows that are gone meanwhile are skipped.                   *)
LEMMA DeleteGrantsKeeps ==
  ASSUME RolesInv, NEW s \in Savers, DeleteGrants(s)
  PROVE  RolesInv'
<1>1. PICK w : w = [roleSave[s] EXCEPT !.phase = "deleted", !.rows = Deleted(s)]
  OBVIOUS
<1>2. roleSave' = [roleSave EXCEPT ![s] = w] /\ UNCHANGED <<grants, log>>
      /\ roleSave[s].phase = "deleting"
  BY <1>1 DEF DeleteGrants, RolesInv, RolesTyped
<1>3. /\ w \in RoleSave /\ w.role = roleSave[s].role /\ w.after = roleSave[s].after
      /\ w.rows = roleSave[s].rows \cap grants[roleSave[s].role]
  <2>1. roleSave[s] \in RoleSave
    BY DEF RolesInv, RolesTyped
  <2>2. Deleted(s) \subseteq roleSave[s].rows
    BY DEF Deleted
  <2>. QED BY <1>1, <2>1, <2>2 DEF RoleSave, Deleted
<1>4. /\ roleSave'[s] = w /\ \A t \in Savers \ {s} : roleSave'[t] = roleSave[t]
      /\ roleSave' \in [Savers -> RoleSave]
  BY <1>2, <1>3 DEF RolesInv, RolesTyped
<1>5. \A t \in Savers : \A q : Saving(t, q)' => Saving(t, q) /\ roleSave'[t].after = roleSave[t].after
  BY <1>2, <1>3, <1>4 DEF Saving
<1>6. RolesTyped'
  BY <1>2, <1>3, <1>4 DEF RolesInv, RolesTyped
<1>7. AfterIsBefore'
  BY <1>2, <1>5 DEF RolesInv, AfterIsBefore
<1>8. RowsHaveASave'
  <2>. SUFFICES ASSUME NEW q \in Roles, NEW row \in grants[q]
                PROVE  \E i \in DOMAIN log[q] : IsItsSave(q, row, i)'
    BY <1>2 DEF RowsHaveASave
  <2>1. PICK i \in DOMAIN log[q] : IsItsSave(q, row, i)
    BY DEF RolesInv, RowsHaveASave
  <2>2. \A t \in Savers : Saving(t, q)' /\ row \notin roleSave'[t].rows => i > roleSave'[t].after
    <3> SUFFICES ASSUME NEW t \in Savers, Saving(t, q)', row \notin roleSave'[t].rows
                 PROVE  i > roleSave'[t].after
      OBVIOUS
    <3>1. row \notin roleSave[t].rows
      BY <1>3, <1>4 DEF Saving
    <3>. QED BY <1>5, <2>1, <3>1 DEF IsItsSave
  <2>3. IsItsSave(q, row, i)'
    BY <1>2, <2>1, <2>2 DEF IsItsSave, Stands
  <2>. QED BY <2>3
<1>9. LastSaveStands'
  BY <1>2 DEF RolesInv, LastSaveStands, PermsOf
<1>. QED BY <1>6, <1>7, <1>8, <1>9 DEF RolesInv

(* createMany and the commit, or a clash that undoes everything.           *)
LEMMA InsertGrantsKeeps ==
  ASSUME RolesInv, NEW s \in Savers, InsertGrants(s)
  PROVE  RolesInv'
<1>1. PICK save : save = roleSave[s]
  OBVIOUS
<1>2. PICK r : r = save.role
  OBVIOUS
<1>3. PICK rest : rest = grants[r] \ save.rows
  OBVIOUS
<1>4. save \in RoleSave /\ save.phase = "deleted" /\ r \in Roles /\ Saving(s, r)
  BY <1>1, <1>2 DEF InsertGrants, RolesInv, RolesTyped, Saving
<1>5. NoSave \in RoleSave /\ NoSave.phase = "idle"
  BY DEF NoSave, RoleSave
<1>6. /\ roleSave' = [roleSave EXCEPT ![s] = NoSave]
      /\ \/ UNCHANGED <<grants, log>>
         \/ /\ \A row \in rest : row[1] \notin save.perms
            /\ grants' = [grants EXCEPT ![r] = rest \cup save.perms \X {save.n}]
            /\ log' = [log EXCEPT ![r] = Append(@, [perms |-> save.perms, after |-> save.after])]
  BY <1>1, <1>2, <1>3 DEF InsertGrants
<1>7. /\ roleSave'[s] = NoSave /\ \A t \in Savers \ {s} : roleSave'[t] = roleSave[t]
      /\ roleSave' \in [Savers -> RoleSave]
  BY <1>5, <1>6 DEF RolesInv, RolesTyped
<1>8. \A t \in Savers : \A q : Saving(t, q)' => t # s /\ Saving(t, q) /\ roleSave'[t] = roleSave[t]
  BY <1>5, <1>7 DEF Saving
<1>9. \A t \in Savers : roleSave'[t].phase # "idle" => roleSave'[t].role \in Roles
  BY <1>5, <1>7 DEF RolesInv, RolesTyped
<1>10. CASE UNCHANGED <<grants, log>>
  <2>1. RolesTyped'
    BY <1>7, <1>9, <1>10 DEF RolesInv, RolesTyped
  <2>2. AfterIsBefore'
    BY <1>8, <1>10 DEF RolesInv, AfterIsBefore
  <2>3. RowsHaveASave'
    <3>. SUFFICES ASSUME NEW q \in Roles, NEW row \in grants[q]
                  PROVE  \E i \in DOMAIN log[q] : IsItsSave(q, row, i)'
      BY <1>10 DEF RowsHaveASave
    <3>1. PICK i \in DOMAIN log[q] : IsItsSave(q, row, i)
      BY DEF RolesInv, RowsHaveASave
    <3>2. IsItsSave(q, row, i)'
      BY <1>8, <1>10, <3>1 DEF IsItsSave, Stands
    <3>. QED BY <3>2
  <2>4. LastSaveStands'
    BY <1>10 DEF RolesInv, LastSaveStands, PermsOf
  <2>. QED BY <2>1, <2>2, <2>3, <2>4 DEF RolesInv
<1>11. CASE /\ \A row \in rest : row[1] \notin save.perms
            /\ grants' = [grants EXCEPT ![r] = rest \cup save.perms \X {save.n}]
            /\ log' = [log EXCEPT ![r] = Append(@, [perms |-> save.perms, after |-> save.after])]
  <2>a. PICK last : last = Len(log[r]) + 1
    OBVIOUS
  <2> DEFINE entry == [perms |-> save.perms, after |-> save.after]
  <2>1. /\ log[r] \in Seq(Logged) /\ entry \in Logged /\ last \in Nat
        /\ entry.perms = save.perms /\ entry.after = save.after /\ save.after \in Nat
        /\ save.perms \subseteq Perms /\ save.n \in Nat
    <3>1. log[r] \in Seq(Logged)
      BY <1>4 DEF RolesInv, RolesTyped
    <3>2. last \in Nat
      BY <2>a, <3>1
    <3>3. save.perms \subseteq Perms /\ save.n \in Nat /\ save.after \in Nat
      BY <1>4 DEF RoleSave
    <3>4. entry \in Logged
      BY <3>3 DEF Logged
    <3>. QED BY <3>1, <3>2, <3>3, <3>4
  <2>2. log'[r] = Append(log[r], entry) /\ \A q \in Roles \ {r} : log'[q] = log[q]
    BY <1>4, <1>11 DEF RolesInv, RolesTyped
  <2>3. grants'[r] = rest \cup save.perms \X {save.n} /\ \A q \in Roles \ {r} : grants'[q] = grants[q]
    BY <1>4, <1>11 DEF RolesInv, RolesTyped
  <2> HIDE DEF entry
  <2>4. /\ log'[r] \in Seq(Logged) /\ Len(log'[r]) = last
        /\ DOMAIN log'[r] = DOMAIN log[r] \cup {last}
        /\ log'[r][last] = entry
        /\ \A j \in DOMAIN log[r] : log'[r][j] = log[r][j] /\ j < last
    BY <2>a, <2>1, <2>2
  <2>5. save.after < last
    BY <1>1, <1>2, <1>4, <2>a, <2>1 DEF RolesInv, AfterIsBefore
  <2>6. RolesTyped'
    <3>1. grants'[r] \in SUBSET (Perms \X Nat)
      BY <1>3, <1>4, <2>1, <2>3 DEF RolesInv, RolesTyped
    <3>2. grants' \in [Roles -> SUBSET (Perms \X Nat)]
      BY <1>4, <1>11, <2>3, <3>1 DEF RolesInv, RolesTyped
    <3>3. log' \in [Roles -> Seq(Logged)]
      BY <1>4, <1>11, <2>2, <2>4 DEF RolesInv, RolesTyped
    <3>. QED BY <1>7, <1>9, <3>2, <3>3 DEF RolesTyped
  <2>7. AfterIsBefore'
    <3>. SUFFICES ASSUME NEW q \in Roles
                  PROVE  /\ Len(log'[q]) > 0
                         /\ \A j \in DOMAIN log'[q] : log'[q][j].after < j
                         /\ \A t \in Savers : Saving(t, q)' => roleSave'[t].after <= Len(log'[q])
      BY DEF AfterIsBefore
    <3>1. /\ Len(log[q]) > 0
          /\ \A j \in DOMAIN log[q] : log[q][j].after < j
          /\ \A t \in Savers : Saving(t, q) => roleSave[t].after <= Len(log[q])
      BY DEF RolesInv, AfterIsBefore
    <3>2. CASE q # r
      BY <1>8, <2>2, <3>1, <3>2
    <3>3. CASE q = r
      <4>1. \A t \in Savers : roleSave[t].after \in Nat
        BY DEF RolesInv, RolesTyped, RoleSave
      <4>. QED BY <1>8, <2>1, <2>4, <2>5, <3>1, <3>3, <4>1
    <3>. QED BY <3>2, <3>3
  <2>8. RowsHaveASave'
    <3>. SUFFICES ASSUME NEW q \in Roles, NEW row \in grants'[q]
                  PROVE  \E i \in DOMAIN log'[q] : IsItsSave(q, row, i)'
      BY DEF RowsHaveASave
    <3>1. CASE q # r
      <4>1. PICK i \in DOMAIN log[q] : IsItsSave(q, row, i)
        BY <2>3, <3>1 DEF RolesInv, RowsHaveASave
      <4>2. IsItsSave(q, row, i)'
        BY <1>8, <2>2, <3>1, <4>1 DEF IsItsSave, Stands
      <4>. QED BY <2>2, <3>1, <4>2
    <3>2. CASE q = r /\ row \in rest
      <4>1. PICK i \in DOMAIN log[q] : IsItsSave(q, row, i)
        BY <1>3, <3>2 DEF RolesInv, RowsHaveASave
      <4>2. i > save.after /\ i \in Nat
        BY <1>1, <1>3, <1>4, <2>1, <3>2, <4>1 DEF IsItsSave
      <4>3. Stands(q, i, row[1])'
        <5>1. Stands(q, i, row[1])
          BY <4>1 DEF IsItsSave
        <5>2. ~(save.after >= i)
          BY <2>1, <4>2
        <5>. QED BY <2>1, <2>4, <3>2, <4>1, <5>1, <5>2 DEF Stands
      <4>4. IsItsSave(q, row, i)'
        BY <1>8, <4>1, <4>3 DEF IsItsSave
      <4>. QED BY <2>4, <3>2, <4>4
    <3>3. CASE q = r /\ row \in save.perms \X {save.n}
      <4>1. row[1] \in save.perms
        BY <3>3
      <4>2. \A j \in DOMAIN log'[r] : ~(log'[r][j].after >= last)
        <5>1. \A j \in DOMAIN log'[r] : log'[r][j].after < j /\ j <= last /\ j \in Nat
          BY <1>4, <2>1, <2>4, <2>7 DEF AfterIsBefore
        <5>2. \A j \in DOMAIN log'[r] : log'[r][j].after \in Nat
          <6>1. \A j \in DOMAIN log'[r] : log'[r][j] \in Logged
            BY <2>4
          <6>. QED BY <6>1 DEF Logged
        <5>. QED BY <2>1, <5>1, <5>2
      <4>3. Stands(q, last, row[1])'
        <5>1. last \in DOMAIN log'[r] /\ log'[r][last].perms = save.perms
          BY <2>1, <2>4
        <5>2. row[1] \in log'[r][last].perms
          BY <4>1, <5>1
        <5>. QED BY <3>3, <4>2, <5>2 DEF Stands
      <4>4. \A t \in Savers : Saving(t, q)' => last > roleSave'[t].after
        <5>1. \A t \in Savers : roleSave[t].after \in Nat
          BY DEF RolesInv, RolesTyped, RoleSave
        <5>2. \A t \in Savers : Saving(t, r) => roleSave[t].after <= Len(log[r])
          BY <1>4 DEF RolesInv, AfterIsBefore
        <5>. QED BY <1>8, <2>a, <2>1, <3>3, <5>1, <5>2
      <4>5. IsItsSave(q, row, last)'
        BY <4>3, <4>4 DEF IsItsSave
      <4>. QED BY <2>4, <3>3, <4>5
    <3>. QED BY <2>3, <3>1, <3>2, <3>3
  <2>9. LastSaveStands'
    <3>1. \A p \in save.perms : p \in {row[1] : row \in grants'[r]}
      <4> TAKE p \in save.perms
      <4>1. <<p, save.n>> \in grants'[r] /\ <<p, save.n>>[1] = p
        BY <2>3
      <4>. QED BY <4>1
    <3>2. log'[r][Len(log'[r])].perms \subseteq PermsOf(r)'
      BY <2>1, <2>4, <3>1 DEF PermsOf
    <3>3. \A q \in Roles \ {r} : log'[q][Len(log'[q])].perms \subseteq PermsOf(q)'
      BY <2>2, <2>3 DEF RolesInv, LastSaveStands, PermsOf
    <3>. QED BY <3>2, <3>3 DEF LastSaveStands
  <2>. QED BY <2>6, <2>7, <2>8, <2>9 DEF RolesInv
<1>. QED BY <1>6, <1>10, <1>11

(* No step breaks what is said of roles.                                   *)
LEMMA RolesStep == RolesInv /\ saves \in Nat /\ [AccessNext]_accessVars => RolesInv'
<1>. SUFFICES ASSUME RolesInv, saves \in Nat, [AccessNext]_accessVars PROVE RolesInv'
  OBVIOUS
<1>1. ASSUME UNCHANGED <<grants, log, roleSave>> PROVE RolesInv'
  BY <1>1 DEF RolesInv, RolesTyped, AfterIsBefore, RowsHaveASave, LastSaveStands, IsItsSave,
              Stands, Saving, PermsOf
<1>2. CASE \/ \E active \in BOOLEAN, roles \in SUBSET Roles : SaveUser(active, roles)
           \/ SwitchDevice \/ LoadProfileOf \/ Verify \/ ReadRoles \/ CheckPermission \/ Act
           \/ \E s \in Savers : MakeToken(s) \/ StoreHash(s) \/ GiveToken(s)
           \/ \E who \in {"user", "device"}, perm \in Perms : Receive(who, perm)
           \/ UNCHANGED accessVars
  <2>1. UNCHANGED <<grants, log, roleSave>>
    BY <1>2 DEF SaveUser, SwitchDevice, LoadProfileOf, Verify, ReadRoles, CheckPermission, Act,
                MakeToken, StoreHash, GiveToken, Receive, accessVars, others
  <2>. QED BY <1>1, <2>1
<1>. QED BY <1>2, BeginRoleSaveKeeps, DeleteGrantsKeeps, InsertGrantsKeeps DEF AccessNext

-----------------------------------------------------------------------------
(* Nobody has saved or asked anything.                                     *)
LEMMA AccessStart == AccessInit => AccessInv
<1>. SUFFICES ASSUME AccessInit PROVE AccessInv
  OBVIOUS
<1>1. RequestInv
  <2>1. request = NoRequest /\ request.phase = "idle"
    BY DEF AccessInit, NoRequest
  <2>2. AccessTyped
    BY <2>1 DEF AccessInit, AccessTyped, NoRotation
  <2>. QED BY <2>1, <2>2 DEF RequestInv, SeenIsCurrent, GuardsHaveSeen, EffectsWereAllowed
<1>2. \A r \in Roles : /\ Seed[r] \subseteq Perms
                       /\ grants[r] = Seed[r] \X {1}
                       /\ log[r] = <<[perms |-> Seed[r], after |-> 0]>>
  BY AccessAssumption DEF AccessInit
<1>3. \A s \in Savers : roleSave[s] = NoSave /\ roleSave[s].phase = "idle"
  BY DEF AccessInit, NoSave
<1>4. \A r \in Roles : /\ log[r] \in Seq(Logged) /\ Len(log[r]) = 1 /\ DOMAIN log[r] = {1}
                       /\ log[r][1].perms = Seed[r] /\ log[r][1].after = 0
  <2> TAKE r \in Roles
  <2>1. PICK e : e = [perms |-> Seed[r], after |-> 0]
    OBVIOUS
  <2>2. e \in Logged /\ e.perms = Seed[r] /\ e.after = 0
    BY <1>2, <2>1 DEF Logged
  <2>3. log[r] = <<e>>
    BY <1>2, <2>1
  <2>4. log[r] \in Seq(Logged) /\ Len(log[r]) = 1 /\ log[r][1] = e
    BY <2>2, <2>3
  <2>5. DOMAIN log[r] = {1}
    <3>1. DOMAIN log[r] = 1 .. 1
      BY <2>4
    <3>. QED BY <3>1
  <2>. QED BY <2>2, <2>4, <2>5
<1>5. RolesTyped
  <2>1. NoSave \in RoleSave
    BY DEF NoSave, RoleSave
  <2>2. grants \in [Roles -> SUBSET (Perms \X Nat)]
    BY <1>2 DEF AccessInit
  <2>3. log \in [Roles -> Seq(Logged)]
    BY <1>4 DEF AccessInit
  <2>4. roleSave \in [Savers -> RoleSave]
    BY <2>1 DEF AccessInit
  <2>. QED BY <1>3, <2>2, <2>3, <2>4 DEF RolesTyped
<1>6. AfterIsBefore
  BY <1>3, <1>4 DEF AfterIsBefore, Saving
<1>7. RowsHaveASave
  <2>. SUFFICES ASSUME NEW r \in Roles, NEW row \in grants[r] PROVE IsItsSave(r, row, 1)
    BY <1>4 DEF RowsHaveASave
  <2>1. row \in Seed[r] \X {1}
    BY <1>2
  <2>2. row[1] \in Seed[r]
    BY <2>1
  <2>. QED BY <1>3, <1>4, <2>2 DEF IsItsSave, Stands, Saving
<1>8. LastSaveStands
  <2>. SUFFICES ASSUME NEW r \in Roles, NEW p \in Seed[r] PROVE p \in PermsOf(r)
    BY <1>4 DEF LastSaveStands
  <2>1. <<p, 1>> \in grants[r] /\ <<p, 1>>[1] = p
    BY <1>2
  <2>. QED BY <2>1 DEF PermsOf
<1>. QED BY <1>1, <1>5, <1>6, <1>7, <1>8 DEF AccessInv, RolesInv

(* No step breaks the invariant ...                                        *)
LEMMA AccessStep == AccessInv /\ [AccessNext]_accessVars => AccessInv'
  BY RequestStep, RolesStep DEF AccessInv, RequestInv, AccessTyped

(* ... which says what the runs check.                                     *)
LEMMA AccessSound == AccessInv => EffectsWereAllowed /\ RoleSavesTakeEffect
<1>. SUFFICES ASSUME AccessInv PROVE RoleSavesTakeEffect
  BY DEF AccessInv, RequestInv, GuardsHaveSeen
<1>. SUFFICES ASSUME NEW r \in Roles, NEW p \in Perms
              PROVE  /\ p \in PermsOf(r) => \E i \in DOMAIN log[r] : Stands(r, i, p)
                     /\ (\E i \in DOMAIN log[r] : Undisputed(r, i, p)) => p \in PermsOf(r)
  BY DEF RoleSavesTakeEffect
<1>1. p \in PermsOf(r) => \E i \in DOMAIN log[r] : Stands(r, i, p)
  <2>. SUFFICES ASSUME NEW row \in grants[r], row[1] = p
                PROVE  \E i \in DOMAIN log[r] : Stands(r, i, p)
    BY DEF PermsOf
  <2>. QED BY DEF AccessInv, RolesInv, RowsHaveASave, IsItsSave
<1>2. ASSUME NEW i \in DOMAIN log[r], Undisputed(r, i, p) PROVE p \in PermsOf(r)
  <2>1. log[r] \in Seq(Logged) /\ Len(log[r]) \in DOMAIN log[r] /\ i \in 1 .. Len(log[r])
    BY DEF AccessInv, RolesInv, RolesTyped, AfterIsBefore
  <2>2. log[r][i].after < i /\ log[r][i].after \in Nat
    <3>1. log[r][i] \in Logged
      BY <2>1
    <3>. QED BY <3>1 DEF AccessInv, RolesInv, AfterIsBefore, Logged
  <2>3. Len(log[r]) > log[r][i].after
    BY <2>1, <2>2
  <2>4. p \in log[r][Len(log[r])].perms
    BY <1>2, <2>1, <2>3 DEF Undisputed
  <2>. QED BY <2>4 DEF AccessInv, RolesInv, LastSaveStands
<1>. QED BY <1>1, <1>2
-----------------------------------------------------------------------------
(***************************************************************************)
(* Catalog.                                                                *)
(***************************************************************************)
Override == [available : BOOLEAN, price : Prices \cup {0}]

ProductRow ==
  [exists : {TRUE}, linked : BOOLEAN, price : Prices, active : BOOLEAN, archived : BOOLEAN,
   cfg : Configs, override : Override]

ImportItem == [price : Prices, action : {"NEW", "UPDATE", "UNCHANGED"}]

Import ==
  [status : {"none", "PREVIEW", "IMPORTED", "FAILED"},
   items : UNION {[S -> ImportItem] : S \in SUBSET Items}]

CommitRow == [phase : {"idle", "checked"}, import : Nat]

Under(c) == commits[c].phase # "idle"

Shopping ==
  [phase : {"looking", "browsing", "sent", "row", "config", "priced", "refused"}, item : Items,
   row : ProductRow \cup {NoProduct}, shown : Prices \cup {0}, price : Prices \cup {0}]

(* The server, or the catalog, is between its two reads.                   *)
BetweenReads == shopper.phase \in {"looking", "row", "config"}

Editor == [open : {TRUE}, item : Items, row : ProductRow]

CatalogTyped ==
  /\ products \in [Items -> ProductRow \cup {NoProduct}]
  /\ imports \in [ImportIds -> Import]
  /\ commits \in [Committers -> CommitRow]
  /\ \A c \in Committers : IF Under(c) THEN commits[c].import \in ImportIds
                           ELSE commits[c].import = 0
  /\ form = NoForm \/ (form \in Editor /\ form.item \in Known)
  /\ shopper = NoShopper \/ (shopper \in Shopping /\ shopper.item \in Known)
  /\ BetweenReads => shopper.row \in ProductRow
  /\ applied \in [ImportIds -> Nat]
  /\ wanted \in [Items -> Configs \cup {Unset}]
  /\ touched \in BOOLEAN

(* What an import does not create is there, and what it created, once it   *)
(* was applied.                                                            *)
ImportsMeetProducts == \A i \in ImportIds :
  /\ DOMAIN imports[i].items \ News(i) \subseteq Known
  /\ applied[i] > 0 => News(i) \subseteq Known

(* Two commits of one import were raced, and so was one that finds its     *)
(* import applied.                                                         *)
CommitsAreRaced ==
  /\ \A c, d \in Committers :
       Under(c) /\ commits[c].import = commits[d].import /\ c # d => commits[c].import \in raced
  /\ \A c \in Committers : Under(c) /\ applied[commits[c].import] > 0 => commits[c].import \in raced
  /\ \A i \in ImportIds : imports[i].status = "none" => applied[i] = 0
  /\ ImportStatusIsTrue

(* What an operator has configured is there, and stays as configured.      *)
OperatorsWork ==
  /\ \A x \in Items : wanted[x] # Unset => x \in Known
  /\ ConfigIsTheOperators

(* What the server has found and will find, as long as nobody touches the  *)
(* product; and what was in force when it found it.                        *)
ShopperIsServed ==
  /\ Served => PricesOf(products[shopper.item]) \in inForce
  /\ shopper.phase \in {"row", "config"} => \E a \in inForce : a.base = shopper.row.price
  /\ ~touched =>
       /\ BetweenReads => shopper.row = products[shopper.item]
       /\ shopper.phase \in {"browsing", "sent", "row", "config"} => Offered(products[shopper.item])
  /\ OrderPriceWasInForce /\ OfferedIsAccepted

CatalogInv ==
  CatalogTyped /\ ImportsMeetProducts /\ CommitsAreRaced /\ OperatorsWork /\ ShopperIsServed

-----------------------------------------------------------------------------
(* A product is there exactly if its row is one.                           *)
LEMMA KnownRows ==
  ASSUME CatalogTyped
  PROVE  /\ Known \subseteq Items
         /\ \A x \in Items : x \in Known <=> products[x] \in ProductRow
         /\ \A x \in Items : x \notin Known <=> products[x] = NoProduct
<1>1. \A row \in ProductRow : row.exists = TRUE
  BY DEF ProductRow
<1>2. NoProduct.exists = FALSE
  BY DEF NoProduct
<1>3. \A x \in Items : products[x] \in ProductRow \/ products[x] = NoProduct
  BY DEF CatalogTyped
<1>4. \A x \in Items : x \in Known <=> products[x].exists
  BY DEF Known
<1>. QED BY <1>1, <1>2, <1>3, <1>4 DEF Known

(* A write of products is seen by the customer who is being served.        *)
LEMMA WriteServes ==
  ASSUME CatalogTyped, ShopperIsServed, NEW new, Write(new), UNCHANGED shopper
  PROVE  ShopperIsServed' /\ touched' \in BOOLEAN
<1>1. products' = new
  BY DEF Write
<1>2. CASE shopper = NoShopper
  <2>1. shopper.phase = "idle"
    BY <1>2 DEF NoShopper
  <2>. QED BY <1>2, <2>1 DEF Write, ShopperIsServed, OrderPriceWasInForce, OfferedIsAccepted,
                             CatalogTyped, Served, BetweenReads
<1>3. CASE shopper \in Shopping
  <2>1. shopper # NoShopper
    <3>1. NoShopper.phase = "idle" /\ shopper.phase # "idle"
      BY <1>3 DEF NoShopper, Shopping
    <3>. QED BY <3>1
  <2>2. PICK x : x = shopper.item
    OBVIOUS
  <2>3. /\ inForce' = IF Served THEN inForce \cup {PricesOf(new[x])} ELSE inForce
        /\ touched' = (touched \/ new[x] # products[x])
    BY <2>1, <2>2 DEF Write
  <2>4. touched' \in BOOLEAN
    BY <2>3 DEF CatalogTyped
  <2>5. inForce \subseteq inForce' /\ (Served => PricesOf(new[x]) \in inForce')
    BY <2>3
  <2>6. Served' => PricesOf(products[shopper.item])' \in inForce'
    BY <1>1, <2>2, <2>5 DEF Served, PricesOf
  <2>7. shopper.phase \in {"row", "config"} => \E a \in inForce' : a.base = shopper.row.price
    BY <2>5 DEF ShopperIsServed
  <2>8. ~touched' => new[x] = products[x] /\ ~touched
    BY <2>3
  <2>9. ~touched' =>
          /\ BetweenReads => shopper.row = new[x]
          /\ shopper.phase \in {"browsing", "sent", "row", "config"} => Offered(new[x])
    BY <2>2, <2>8 DEF ShopperIsServed
  <2>10. ~touched' =>
          /\ BetweenReads' => (shopper.row = products[shopper.item])'
          /\ shopper'.phase \in {"browsing", "sent", "row", "config"} => Offered(products[shopper.item])'
    BY <1>1, <2>2, <2>9 DEF BetweenReads, Offered, Listed, Available
  <2>11. OrderPriceWasInForce'
    BY <2>5 DEF ShopperIsServed, OrderPriceWasInForce
  <2>12. OfferedIsAccepted'
    BY <1>1, <2>2, <2>8 DEF ShopperIsServed, OfferedIsAccepted
  <2>. QED BY <2>4, <2>6, <2>7, <2>10, <2>11, <2>12 DEF ShopperIsServed
<1>. QED BY <1>2, <1>3 DEF CatalogTyped

(* An administrator writes one product: nobody's work is lost.             *)
LEMMA OneRowKeeps ==
  ASSUME CatalogInv, NEW x \in Items, NEW w \in ProductRow,
         Write([products EXCEPT ![x] = w]),
         UNCHANGED <<imports, commits, shopper, applied, raced>>,
         form' = form \/ form' = NoForm,
         \/ wanted' = wanted /\ x \in Known /\ w.cfg = products[x].cfg
         \/ wanted' = [wanted EXCEPT ![x] = w.cfg]
  PROVE  CatalogInv'
<1>1. /\ products' = [products EXCEPT ![x] = w]
      /\ products \in [Items -> ProductRow \cup {NoProduct}]
  BY DEF Write, CatalogInv, CatalogTyped
<1>2. /\ products'[x] = w /\ \A y \in Items \ {x} : products'[y] = products[y]
      /\ products' \in [Items -> ProductRow \cup {NoProduct}]
  BY <1>1
<1>3. w.exists /\ w.cfg \in Configs
  BY DEF ProductRow
<1>4. Known' = Known \cup {x}
  BY <1>2, <1>3 DEF Known
<1>5. wanted' \in [Items -> Configs \cup {Unset}]
  BY <1>3 DEF CatalogInv, CatalogTyped
<1>6. ShopperIsServed' /\ touched' \in BOOLEAN
  BY WriteServes DEF CatalogInv
<1>7. form' = NoForm \/ (form' \in Editor /\ form'.item \in Known')
  BY <1>4 DEF CatalogInv, CatalogTyped
<1>8. CatalogTyped'
  BY <1>2, <1>4, <1>5, <1>6, <1>7 DEF CatalogInv, CatalogTyped, Under, BetweenReads
<1>9. ImportsMeetProducts'
  BY <1>4 DEF CatalogInv, ImportsMeetProducts, News
<1>10. CommitsAreRaced'
  BY DEF CatalogInv, CommitsAreRaced, Under, ImportStatusIsTrue, News
<1>11. \A y \in Items \ {x} : wanted'[y] = wanted[y]
  BY DEF CatalogInv, CatalogTyped
<1>12. wanted'[x] # Unset => w.cfg = wanted'[x]
  BY <1>3 DEF CatalogInv, CatalogTyped, OperatorsWork, ConfigIsTheOperators
<1>13. OperatorsWork'
  BY <1>2, <1>4, <1>11, <1>12 DEF CatalogInv, OperatorsWork, ConfigIsTheOperators, Known
<1>. QED BY <1>6, <1>8, <1>9, <1>10, <1>13 DEF CatalogInv
(* The administrators' saves.                                              *)
LEMMA SavesOfProductsKeep ==
  ASSUME CatalogInv
  PROVE  /\ \A new \in Edits(form.row), may \in BOOLEAN :
              form.open /\ SaveProduct(new, may) => CatalogInv'
         /\ \A state \in {"enable", "disable", "archive"} :
              form.open /\ SetState(state) => CatalogInv'
         /\ \A x \in Items, price \in Prices, cfg \in Configs :
              CreateProduct(x, price, cfg) => CatalogInv'
         /\ \A x \in Items, available \in BOOLEAN, price \in Prices \cup {0} :
              SetBranchOverride(x, available, price) => CatalogInv'
<1>1. products \in [Items -> ProductRow \cup {NoProduct}]
  BY DEF CatalogInv, CatalogTyped
<1>2. form.open => form \in Editor /\ form.item \in Known
  BY DEF CatalogInv, CatalogTyped, NoForm
<1>3. \A x \in Known : x \in Items /\ products[x] \in ProductRow
  BY KnownRows DEF CatalogInv
<1>4. ASSUME NEW new \in Edits(form.row), NEW may \in BOOLEAN, form.open, SaveProduct(new, may)
      PROVE  CatalogInv'
  <2>1. PICK x : x = form.item
    OBVIOUS
  <2>2. x \in Known /\ x \in Items /\ products[x] \in ProductRow /\ form.row \in ProductRow
    BY <1>2, <1>3, <1>4, <2>1 DEF Editor
  <2>3. new.price \in Prices /\ new.active \in BOOLEAN /\ new.cfg \in Configs
    <3>1. \/ \E p \in Prices : new = [form.row EXCEPT !.price = p]
          \/ new = [form.row EXCEPT !.active = ~form.row.active]
          \/ \E c \in Configs : new = [form.row EXCEPT !.cfg = c]
      BY <1>4 DEF Edits
    <3>. QED BY <2>2, <3>1 DEF ProductRow
  <2>4. PICK cfg : cfg = IF may THEN new.cfg ELSE products[x].cfg
    OBVIOUS
  <2>5. cfg \in Configs
    BY <2>2, <2>3, <2>4 DEF ProductRow
  <2>6. PICK w : w = [products[x] EXCEPT !.price = new.price, !.active = new.active, !.cfg = cfg]
    OBVIOUS
  <2>7. w \in ProductRow /\ w.cfg = cfg
    BY <2>2, <2>3, <2>5, <2>6 DEF ProductRow
  <2>8. Write([products EXCEPT ![x] = w])
    <3>1. PICK written : written = [products EXCEPT ![x].price = new.price, ![x].active = new.active,
                                             ![x].cfg = IF may THEN new.cfg ELSE @]
      OBVIOUS
    <3>2. Write(written)
      BY <1>4, <2>1, <3>1 DEF SaveProduct
    <3>3. written = [products EXCEPT ![x] = w]
      BY <1>1, <2>2, <2>4, <2>6, <3>1
    <3>. QED BY <3>2, <3>3
  <2>9. wanted' = [wanted EXCEPT ![x] = IF may THEN new.cfg ELSE wanted[x]]
    BY <1>4, <2>1 DEF SaveProduct
  <2>10. \/ wanted' = wanted /\ x \in Known /\ w.cfg = products[x].cfg
         \/ wanted' = [wanted EXCEPT ![x] = w.cfg]
    BY <2>2, <2>4, <2>7, <2>9 DEF CatalogInv, CatalogTyped
  <2>11. UNCHANGED <<imports, commits, shopper, applied, raced>> /\ form' = NoForm
    BY <1>4 DEF SaveProduct
  <2>. QED BY <2>2, <2>7, <2>8, <2>10, <2>11, OneRowKeeps
<1>5. ASSUME NEW state \in {"enable", "disable", "archive"}, form.open, SetState(state)
      PROVE  CatalogInv'
  <2>1. PICK x : x = form.item
    OBVIOUS
  <2>2. x \in Known /\ x \in Items /\ products[x] \in ProductRow
    BY <1>2, <1>3, <1>5, <2>1
  <2>3. PICK active, archived :
             /\ active = (state = "enable")
             /\ archived = CASE state = "enable"  -> FALSE
                             [] state = "archive" -> TRUE
                             [] state = "disable" -> products[x].archived
    OBVIOUS
  <2>4. active \in BOOLEAN /\ archived \in BOOLEAN
    BY <2>2, <2>3 DEF ProductRow
  <2>5. PICK w : w = [products[x] EXCEPT !.active = active, !.archived = archived]
    OBVIOUS
  <2>6. w \in ProductRow /\ w.cfg = products[x].cfg
    BY <2>2, <2>4, <2>5 DEF ProductRow
  <2>7. Write([products EXCEPT ![x] = w])
    <3>1. PICK new : new = [products EXCEPT ![form.item].active = (state = "enable"),
                                            ![form.item].archived = CASE state = "enable"  -> FALSE
                                                                      [] state = "archive" -> TRUE
                                                                      [] state = "disable" -> @]
      OBVIOUS
    <3>2. Write(new)
      BY <1>5, <3>1 DEF SetState
    <3>3. new = [products EXCEPT ![x] = w]
      BY <1>1, <2>1, <2>2, <2>3, <2>5, <3>1
    <3>. QED BY <3>2, <3>3
  <2>8. UNCHANGED <<imports, commits, shopper, applied, raced, wanted>> /\ form' = NoForm
    BY <1>5 DEF SetState
  <2>. QED BY <2>2, <2>6, <2>7, <2>8, OneRowKeeps
<1>6. ASSUME NEW x \in Items, NEW price \in Prices, NEW cfg \in Configs, CreateProduct(x, price, cfg)
      PROVE  CatalogInv'
  <2>1. PICK w : w = Row(FALSE, price, cfg)
    OBVIOUS
  <2>2. w \in ProductRow /\ w.cfg = cfg
    BY <2>1 DEF Row, ProductRow, Override, NoOverride
  <2>3. /\ Write([products EXCEPT ![x] = w]) /\ wanted' = [wanted EXCEPT ![x] = w.cfg]
        /\ UNCHANGED <<imports, commits, form, shopper, applied, raced>>
    BY <1>6, <2>1, <2>2 DEF CreateProduct
  <2>. QED BY <2>2, <2>3, OneRowKeeps
<1>7. ASSUME NEW x \in Items, NEW available \in BOOLEAN, NEW price \in Prices \cup {0},
             SetBranchOverride(x, available, price)
      PROVE  CatalogInv'
  <2>1. PICK o : o = [available |-> available, price |-> price]
    OBVIOUS
  <2>2. o \in Override
    BY <2>1 DEF Override
  <2>3. PICK w : w = [products[x] EXCEPT !.override = o]
    OBVIOUS
  <2>4. x \in Known /\ products[x] \in ProductRow
    BY <1>3, <1>7 DEF SetBranchOverride
  <2>5. w \in ProductRow /\ w.cfg = products[x].cfg
    BY <2>2, <2>3, <2>4 DEF ProductRow
  <2>6. [products EXCEPT ![x].override = o] = [products EXCEPT ![x] = w]
    BY <1>1, <2>3, <2>4
  <2>7. /\ Write([products EXCEPT ![x] = w])
        /\ UNCHANGED <<imports, commits, form, shopper, applied, raced, wanted>>
    BY <1>7, <2>1, <2>6 DEF SetBranchOverride
  <2>. QED BY <2>4, <2>5, <2>7, OneRowKeeps
<1>. QED BY <1>4, <1>5, <1>6, <1>7
(* What only concerns commits and imports leaves products as they are.     *)
LEMMA ImportsApart ==
  ASSUME CatalogInv, UNCHANGED <<products, form, shopper, wanted, inForce, touched>>,
         imports' \in [ImportIds -> Import], commits' \in [Committers -> CommitRow],
         \A c \in Committers : IF Under(c)' THEN commits'[c].import \in ImportIds
                                            ELSE commits'[c].import = 0,
         applied' = applied, ImportsMeetProducts', CommitsAreRaced'
  PROVE  CatalogInv'
<1>1. Known' = Known
  BY DEF Known
<1>2. CatalogTyped'
  BY <1>1 DEF CatalogInv, CatalogTyped, BetweenReads
<1>3. OperatorsWork'
  BY <1>1 DEF CatalogInv, OperatorsWork, ConfigIsTheOperators
<1>4. ShopperIsServed'
  BY DEF CatalogInv, ShopperIsServed, OrderPriceWasInForce, OfferedIsAccepted, PricesOf, Offered,
         Listed, Available, Served, BetweenReads
<1>. QED BY <1>2, <1>3, <1>4 DEF CatalogInv

(* A preview: what is not new is a product.                                *)
LEMMA PreviewKeeps ==
  ASSUME CatalogInv, NEW i \in ImportIds, NEW found \in Found, Preview(i, found)
  PROVE  CatalogInv'
<1> DEFINE Item(x) == [price |-> found[x], action |-> Compare(x, found[x])]
<1>1. PICK items : items = [x \in DOMAIN found |-> Item(x)]
  OBVIOUS
<1>2. PICK w : w = [status |-> "PREVIEW", items |-> items]
  OBVIOUS
<1>3. PICK S \in SUBSET Items : found \in [S -> Prices]
  BY DEF Found
<1>4. \A x \in S : Compare(x, found[x]) \in {"NEW", "UPDATE", "UNCHANGED"}
  BY DEF Compare
<1>5. \A x \in S : Item(x) \in ImportItem
  BY <1>3, <1>4 DEF ImportItem
<1>6. DOMAIN items = S /\ \A x \in S : items[x].action = Compare(x, found[x])
  BY <1>1, <1>3
<1>7. items \in [S -> ImportItem]
  BY <1>1, <1>3, <1>5
<1>8. w \in Import /\ w.status = "PREVIEW" /\ w.items = items
  BY <1>2, <1>3, <1>7 DEF Import
<1>9. /\ imports[i] = NoImport /\ imports' = [imports EXCEPT ![i] = w]
      /\ UNCHANGED <<products, commits, form, shopper, applied, raced, wanted, inForce, touched>>
  BY <1>1, <1>2 DEF Preview
<1>10. /\ imports' \in [ImportIds -> Import] /\ imports'[i] = w
       /\ \A j \in ImportIds \ {i} : imports'[j] = imports[j]
  BY <1>8, <1>9 DEF CatalogInv, CatalogTyped
<1>11. applied[i] = 0
  BY <1>9 DEF CatalogInv, CommitsAreRaced, NoImport
<1>12. Known' = Known /\ \A x \in S : items[x].action # "NEW" => x \in Known
  BY <1>3, <1>6, <1>9 DEF Known, Compare
<1>13. News(i)' = {x \in S : items[x].action = "NEW"} /\ \A j \in ImportIds \ {i} : News(j)' = News(j)
  BY <1>6, <1>8, <1>10 DEF News
<1>14. ImportsMeetProducts'
  BY <1>6, <1>8, <1>9, <1>10, <1>11, <1>12, <1>13 DEF CatalogInv, ImportsMeetProducts
<1>15. ImportStatusIsTrue'
  BY <1>8, <1>9, <1>10, <1>11, <1>13 DEF CatalogInv, CommitsAreRaced, ImportStatusIsTrue
<1>16. CommitsAreRaced'
  BY <1>8, <1>9, <1>10, <1>15 DEF CatalogInv, CommitsAreRaced, Under
<1>17. \A c \in Committers : IF Under(c)' THEN commits'[c].import \in ImportIds
                                          ELSE commits'[c].import = 0
  BY <1>9 DEF CatalogInv, CatalogTyped, Under
<1>18. commits' \in [Committers -> CommitRow]
  BY <1>9 DEF CatalogInv, CatalogTyped
<1>. QED BY <1>9, <1>10, <1>14, <1>16, <1>17, <1>18, ImportsApart

(* A commit finds a preview: another of the same import races it.          *)
LEMMA CheckImportKeeps ==
  ASSUME CatalogInv, NEW c \in Committers, NEW i \in ImportIds, CheckImport(c, i)
  PROVE  CatalogInv'
<1>1. PICK w : w = [phase |-> "checked", import |-> i]
  OBVIOUS
<1>2. w \in CommitRow /\ w.phase = "checked" /\ w.import = i
  BY <1>1 DEF CommitRow, ImportIds
<1>3. /\ commits[c] = NoCommit /\ imports[i].status = "PREVIEW"
      /\ commits' = [commits EXCEPT ![c] = w]
      /\ raced' = IF \E d \in Committers : commits[d].import = i THEN raced \cup {i} ELSE raced
      /\ UNCHANGED <<products, imports, form, shopper, applied, wanted, inForce, touched>>
  BY <1>1 DEF CheckImport
<1>4. /\ commits' \in [Committers -> CommitRow] /\ commits'[c] = w
      /\ \A d \in Committers \ {c} : commits'[d] = commits[d]
  BY <1>2, <1>3 DEF CatalogInv, CatalogTyped
<1>5. raced \subseteq raced' /\ \A d \in Committers : commits[d].import = i => i \in raced'
  BY <1>3
<1>6. \A d \in Committers : IF Under(d)' THEN commits'[d].import \in ImportIds
                                         ELSE commits'[d].import = 0
  BY <1>2, <1>4 DEF CatalogInv, CatalogTyped, Under
<1>7. applied[i] = 0
  BY <1>3 DEF CatalogInv, CommitsAreRaced, ImportStatusIsTrue
<1>8. ImportsMeetProducts'
  BY <1>3 DEF CatalogInv, ImportsMeetProducts, News, Known
<1>9. ImportStatusIsTrue'
  BY <1>3, <1>5 DEF CatalogInv, CommitsAreRaced, ImportStatusIsTrue, News
<1>10. \A d, e \in Committers :
         Under(d)' /\ commits'[d].import = commits'[e].import /\ d # e => commits'[d].import \in raced'
  <2> SUFFICES ASSUME NEW d \in Committers, NEW e \in Committers, Under(d)', d # e,
                      commits'[d].import = commits'[e].import
               PROVE  commits'[d].import \in raced'
    OBVIOUS
  <2>1. CASE d = c \/ e = c
    BY <1>2, <1>4, <1>5, <2>1
  <2>2. CASE d # c /\ e # c
    BY <1>4, <1>5, <2>2 DEF CatalogInv, CommitsAreRaced, Under
  <2>. QED BY <2>1, <2>2
<1>11. \A d \in Committers : Under(d)' /\ applied[commits'[d].import] > 0 => commits'[d].import \in raced'
  <2> SUFFICES ASSUME NEW d \in Committers, Under(d)', applied[commits'[d].import] > 0
               PROVE  commits'[d].import \in raced'
    OBVIOUS
  <2>1. d # c
    BY <1>2, <1>4, <1>7
  <2>. QED BY <1>4, <1>5, <2>1 DEF CatalogInv, CommitsAreRaced, Under
<1>12. CommitsAreRaced'
  BY <1>3, <1>9, <1>10, <1>11 DEF CatalogInv, CommitsAreRaced
<1>13. imports' \in [ImportIds -> Import]
  BY <1>3 DEF CatalogInv, CatalogTyped
<1>. QED BY <1>3, <1>4, <1>6, <1>8, <1>12, <1>13, ImportsApart

(* It fails, which is recorded, or dies, which is not.                     *)
LEMMA FailuresKeep ==
  ASSUME CatalogInv, NEW c \in Committers, FailImport(c) \/ ImportDies(c)
  PROVE  CatalogInv'
<1>1. /\ commits \in [Committers -> CommitRow] /\ imports \in [ImportIds -> Import]
      /\ commits[c] \in CommitRow
  BY DEF CatalogInv, CatalogTyped
<1>2. NoCommit \in CommitRow /\ NoCommit.phase = "idle" /\ NoCommit.import = 0
  BY DEF NoCommit, CommitRow
<1>3. /\ UNCHANGED <<products, form, shopper, applied, raced, wanted, inForce, touched>>
      /\ commits' = [commits EXCEPT ![c] = NoCommit]
      /\ \/ imports' = imports
         \/ /\ Under(c)
            /\ imports' = [imports EXCEPT ![commits[c].import].status = "FAILED"]
  BY DEF FailImport, ImportDies, Under
<1>4. /\ commits' \in [Committers -> CommitRow]
      /\ \A d \in Committers \ {c} : commits'[d] = commits[d]
      /\ commits'[c] = NoCommit
  BY <1>1, <1>2, <1>3
<1>5. \A d \in Committers : Under(d)' => Under(d) /\ commits'[d].import = commits[d].import
  BY <1>2, <1>4 DEF Under
<1>6. \A d \in Committers : ~Under(d)' => commits'[d].import = 0
  BY <1>2, <1>4 DEF Under, CatalogInv, CatalogTyped
<1>7. \A d \in Committers : IF Under(d)' THEN commits'[d].import \in ImportIds
                                         ELSE commits'[d].import = 0
  BY <1>5, <1>6 DEF CatalogInv, CatalogTyped
<1>8. \A d \in Committers : commits'[d].import \in ImportIds => Under(d)'
  BY <1>6 DEF ImportIds
<1>9. /\ imports' \in [ImportIds -> Import]
      /\ \A i \in ImportIds : imports'[i].items = imports[i].items
      /\ \A i \in ImportIds :
           \/ imports'[i].status = imports[i].status
           \/ Under(c) /\ i = commits[c].import /\ imports'[i].status = "FAILED"
  <2>1. CASE imports' = imports
    BY <1>1, <2>1
  <2>2. CASE Under(c) /\ imports' = [imports EXCEPT ![commits[c].import].status = "FAILED"]
    <3>1. PICK i \in ImportIds : i = commits[c].import
      BY <2>2 DEF CatalogInv, CatalogTyped
    <3>2. PICK v : v = [imports[i] EXCEPT !.status = "FAILED"]
      OBVIOUS
    <3>3. v \in Import /\ v.items = imports[i].items /\ v.status = "FAILED"
      BY <1>1, <3>2 DEF Import
    <3>4. imports' = [imports EXCEPT ![i] = v]
      BY <1>1, <2>2, <3>1, <3>2
    <3>. QED BY <1>1, <2>2, <3>1, <3>3, <3>4
  <2>. QED BY <1>3, <2>1, <2>2
<1>10. \A i \in ImportIds : News(i)' = News(i)
  BY <1>9 DEF News
<1>11. ImportsMeetProducts'
  BY <1>3, <1>9, <1>10 DEF CatalogInv, ImportsMeetProducts, Known
<1>12. ImportStatusIsTrue'
  <2>. SUFFICES ASSUME NEW i \in ImportIds
                PROVE  /\ imports'[i].status = "PREVIEW" => applied[i] = 0
                       /\ imports'[i].status = "IMPORTED" => applied[i] > 0
                       /\ (imports'[i].status = "FAILED" /\ applied[i] > 0) => i \in raced
                       /\ News(i) # {} => applied[i] <= 1
    BY <1>3, <1>10 DEF ImportStatusIsTrue
  <2>. QED BY <1>9 DEF CatalogInv, CommitsAreRaced, ImportStatusIsTrue
<1>13. \A i \in ImportIds : imports'[i].status = "none" => applied[i] = 0
  BY <1>9 DEF CatalogInv, CommitsAreRaced
<1>14. \A d, e \in Committers :
         Under(d)' /\ commits'[d].import = commits'[e].import /\ d # e => commits'[d].import \in raced
  <2> SUFFICES ASSUME NEW d \in Committers, NEW e \in Committers, Under(d)', d # e,
                      commits'[d].import = commits'[e].import
               PROVE  commits'[d].import \in raced
    OBVIOUS
  <2>1. Under(e)'
    BY <1>7, <1>8
  <2>. QED BY <1>5, <2>1 DEF CatalogInv, CommitsAreRaced
<1>15. CommitsAreRaced'
  BY <1>3, <1>5, <1>12, <1>13, <1>14 DEF CatalogInv, CommitsAreRaced
<1>. QED BY <1>3, <1>4, <1>7, <1>9, <1>11, <1>15, ImportsApart
(* The transaction commits: what is new is made, unless it is there, and   *)
(* then it cannot be made a second time.                                   *)
LEMMA CommitImportKeeps ==
  ASSUME CatalogInv, NEW c \in Committers, CommitImport(c)
  PROVE  CatalogInv'
<1>1. PICK i : i = commits[c].import
  OBVIOUS
<1>2. commits[c].phase = "checked" /\ Under(c) /\ i \in ImportIds
  BY <1>1 DEF CommitImport, Under, CatalogInv, CatalogTyped
<1>3. PICK items : items = imports[i].items
  OBVIOUS
<1>4. imports[i] \in Import /\ items \in UNION {[S -> ImportItem] : S \in SUBSET Items}
  BY <1>2, <1>3 DEF CatalogInv, CatalogTyped, Import
<1>5. DOMAIN items \subseteq Items /\ \A x \in DOMAIN items : items[x] \in ImportItem
  BY <1>4
<1>6. News(i) = {x \in DOMAIN items : items[x].action = "NEW"}
  BY <1>3 DEF News
<1> DEFINE Imports(x) ==
      CASE items[x].action = "NEW" -> Row(TRUE, items[x].price, Default[x])
        [] items[x].action = "UPDATE" -> Imported(products[x], items[x])
        [] items[x].action = "UNCHANGED" -> products[x]
<1>7. PICK new : new =
        [x \in Items |->
          IF x \notin DOMAIN imports[commits[c].import].items THEN products[x]
          ELSE LET item == imports[commits[c].import].items[x] IN
            CASE item.action = "NEW" -> Row(TRUE, item.price, Default[x])
              [] item.action = "UPDATE" -> Imported(products[x], item)
              [] item.action = "UNCHANGED" -> products[x]]
  OBVIOUS
<1>a. \A x \in Items : new[x] = IF x \notin DOMAIN items THEN products[x] ELSE Imports(x)
  <2>1. \A x \in DOMAIN items : items[x].action \in {"NEW", "UPDATE", "UNCHANGED"}
    BY <1>5 DEF ImportItem
  <2>. QED BY <1>1, <1>3, <1>7, <2>1
<1>b. Write(new) /\ DOMAIN new = Items
  BY <1>7 DEF CommitImport
<1>8. /\ ~Clashes(i) /\ Write(new)
      /\ imports' = [imports EXCEPT ![i].status = "IMPORTED"]
      /\ applied' = [applied EXCEPT ![i] = @ + 1]
      /\ commits' = [commits EXCEPT ![c] = NoCommit]
      /\ UNCHANGED <<form, shopper, raced, wanted>>
  BY <1>1, <1>b DEF CommitImport
<1>9. News(i) \cap Known = {} /\ products' = new
  BY <1>8 DEF Clashes, Write
<1>10. \A x \in News(i) : x \in Items /\ products'[x] = Row(TRUE, items[x].price, Default[x])
  BY <1>5, <1>6, <1>a, <1>9
<1>11. \A x \in News(i) : products'[x] \in ProductRow
  <2> TAKE x \in News(i)
  <2>1. items[x].price \in Prices /\ Default[x] \in Configs
    BY <1>5, <1>6, CatalogAssumption DEF ImportItem, Configs
  <2>2. \A price \in Prices, cfg \in Configs : Row(TRUE, price, cfg) \in ProductRow
    BY DEF Row, ProductRow, Override, NoOverride
  <2>. QED BY <1>10, <2>1, <2>2
<1>12. \A x \in Items \ News(i) :
         \/ products'[x] = products[x]
         \/ /\ x \in DOMAIN items
            /\ products'[x] = [products[x] EXCEPT !.price = items[x].price]
  <2> TAKE x \in Items \ News(i)
  <2>1. CASE x \notin DOMAIN items
    BY <1>a, <1>9, <2>1
  <2>2. CASE x \in DOMAIN items
    <3>1. items[x].action \in {"UPDATE", "UNCHANGED"}
      BY <1>5, <1>6, <2>2 DEF ImportItem
    <3>2. products'[x] = Imports(x)
      BY <1>a, <1>9, <2>2
    <3>. QED BY <2>2, <3>1, <3>2 DEF Imported
  <2>. QED BY <2>1, <2>2
<1>13. \A x \in Items \ News(i) :
         IF x \in Known THEN products'[x] \in ProductRow /\ products'[x].cfg = products[x].cfg
                        ELSE products'[x] = products[x]
  <2> TAKE x \in Items \ News(i)
  <2>1. CASE x \in Known
    <3>1. products[x] \in ProductRow
      BY <2>1, KnownRows DEF CatalogInv
    <3>2. \A y \in DOMAIN items : items[y].price \in Prices
      BY <1>5 DEF ImportItem
    <3>3. \A p \in Prices : [products[x] EXCEPT !.price = p] \in ProductRow
                            /\ [products[x] EXCEPT !.price = p].cfg = products[x].cfg
      BY <3>1 DEF ProductRow
    <3>. QED BY <1>12, <2>1, <3>1, <3>2, <3>3
  <2>2. CASE x \notin Known
    <3>1. x \notin DOMAIN items
      BY <1>2, <1>3, <2>2 DEF CatalogInv, ImportsMeetProducts
    <3>. QED BY <1>12, <2>2, <3>1
  <2>. QED BY <2>1, <2>2
<1>14. products' \in [Items -> ProductRow \cup {NoProduct}]
  <2>1. \A x \in Items : products'[x] \in ProductRow \cup {NoProduct}
    BY <1>11, <1>13 DEF CatalogInv, CatalogTyped
  <2>. QED BY <1>7, <1>9, <2>1
<1>15. Known' = Known \cup News(i)
  <2>1. \A row \in ProductRow : row.exists
    BY DEF ProductRow
  <2>2. \A x \in Items : x \in Known' <=> products'[x].exists
    BY DEF Known
  <2>3. \A x \in Items \ News(i) : x \in Known' <=> x \in Known
    BY <1>13, <2>1, <2>2 DEF Known
  <2>4. \A x \in News(i) : x \in Known'
    BY <1>10, <1>11, <2>1, <2>2
  <2>5. Known \subseteq Items /\ Known' \subseteq Items /\ News(i) \subseteq Items
    BY <1>5, <1>6 DEF Known
  <2>. QED BY <2>3, <2>4, <2>5
<1>16. PICK w : w = [imports[i] EXCEPT !.status = "IMPORTED"]
  OBVIOUS
<1>17. w \in Import /\ w.items = items /\ w.status = "IMPORTED"
  BY <1>3, <1>4, <1>16 DEF Import
<1>18. /\ imports' \in [ImportIds -> Import] /\ imports'[i] = w
       /\ \A j \in ImportIds \ {i} : imports'[j] = imports[j]
  BY <1>2, <1>8, <1>16, <1>17 DEF CatalogInv, CatalogTyped
<1>19. \A j \in ImportIds : News(j)' = News(j) /\ imports'[j].items = imports[j].items
  BY <1>3, <1>17, <1>18 DEF News
<1>20. /\ applied' \in [ImportIds -> Nat] /\ applied'[i] = applied[i] + 1 /\ applied[i] \in Nat
       /\ \A j \in ImportIds \ {i} : applied'[j] = applied[j]
  BY <1>2, <1>8 DEF CatalogInv, CatalogTyped
<1>21. NoCommit \in CommitRow /\ NoCommit.phase = "idle" /\ NoCommit.import = 0 /\ 0 \notin ImportIds
  BY DEF NoCommit, CommitRow, ImportIds
<1>22. /\ commits' \in [Committers -> CommitRow] /\ commits'[c] = NoCommit
       /\ \A d \in Committers \ {c} : commits'[d] = commits[d]
  BY <1>8, <1>21 DEF CatalogInv, CatalogTyped
<1>23. \A d \in Committers : IF Under(d)' THEN d # c /\ Under(d) /\ commits'[d].import \in ImportIds
                                          ELSE commits'[d].import = 0
  BY <1>21, <1>22 DEF CatalogInv, CatalogTyped, Under
<1>24. ShopperIsServed' /\ touched' \in BOOLEAN
  BY <1>8, WriteServes DEF CatalogInv
<1>25. CatalogTyped'
  <2>1. form' = NoForm \/ (form' \in Editor /\ form'.item \in Known')
    BY <1>8, <1>15 DEF CatalogInv, CatalogTyped
  <2>2. /\ shopper' = NoShopper \/ (shopper' \in Shopping /\ shopper'.item \in Known')
        /\ BetweenReads' => shopper'.row \in ProductRow
    BY <1>8, <1>15 DEF CatalogInv, CatalogTyped, BetweenReads
  <2>. QED BY <1>8, <1>14, <1>18, <1>20, <1>22, <1>23, <1>24, <2>1, <2>2 DEF CatalogInv, CatalogTyped
<1>26. ImportsMeetProducts'
  <2>. SUFFICES ASSUME NEW j \in ImportIds
                PROVE  /\ DOMAIN imports[j].items \ News(j) \subseteq Known'
                       /\ applied'[j] > 0 => News(j) \subseteq Known'
    BY <1>19 DEF ImportsMeetProducts
  <2>. QED BY <1>15, <1>20 DEF CatalogInv, ImportsMeetProducts
<1>27. News(i) # {} => applied[i] = 0
  BY <1>2, <1>9, <1>20 DEF CatalogInv, ImportsMeetProducts
<1>28. ImportStatusIsTrue'
  <2>. SUFFICES ASSUME NEW j \in ImportIds
                PROVE  /\ imports'[j].status = "PREVIEW" => applied'[j] = 0
                       /\ imports'[j].status = "IMPORTED" => applied'[j] > 0
                       /\ (imports'[j].status = "FAILED" /\ applied'[j] > 0) => j \in raced
                       /\ News(j) # {} => applied'[j] <= 1
    BY <1>8, <1>19 DEF ImportStatusIsTrue
  <2>1. CASE j = i
    BY <1>17, <1>18, <1>20, <1>27, <2>1
  <2>2. CASE j # i
    BY <1>18, <1>20, <2>2 DEF CatalogInv, CommitsAreRaced, ImportStatusIsTrue
  <2>. QED BY <2>1, <2>2
<1>29. \A d \in Committers : Under(d)' /\ commits'[d].import = i => i \in raced
  BY <1>1, <1>22, <1>23 DEF CatalogInv, CommitsAreRaced
<1>30. \A d \in Committers : Under(d)' /\ applied'[commits'[d].import] > 0 => commits'[d].import \in raced
  BY <1>20, <1>22, <1>23, <1>29 DEF CatalogInv, CommitsAreRaced
<1>31. \A d, e \in Committers :
         Under(d)' /\ commits'[d].import = commits'[e].import /\ d # e => commits'[d].import \in raced
  <2> SUFFICES ASSUME NEW d \in Committers, NEW e \in Committers, Under(d)', d # e,
                      commits'[d].import = commits'[e].import
               PROVE  commits'[d].import \in raced
    OBVIOUS
  <2>1. d # c /\ e # c /\ Under(d)
    BY <1>21, <1>22, <1>23
  <2>. QED BY <1>22, <2>1 DEF CatalogInv, CommitsAreRaced
<1>32. \A j \in ImportIds : imports'[j].status = "none" => applied'[j] = 0
  BY <1>17, <1>18, <1>20 DEF CatalogInv, CommitsAreRaced
<1>33. CommitsAreRaced'
  BY <1>8, <1>28, <1>30, <1>31, <1>32 DEF CommitsAreRaced
<1>34. OperatorsWork'
  <2>1. \A x \in Items : wanted[x] # Unset => x \in Known /\ x \notin News(i)
    BY <1>9 DEF CatalogInv, OperatorsWork
  <2>2. \A x \in Items : wanted[x] # Unset => products'[x].cfg = wanted[x]
    BY <1>13, <2>1 DEF CatalogInv, OperatorsWork, ConfigIsTheOperators
  <2>3. Known' \subseteq Items
    BY DEF Known
  <2>. QED BY <1>8, <1>15, <2>1, <2>2, <2>3 DEF OperatorsWork, ConfigIsTheOperators
<1>. QED BY <1>24, <1>25, <1>26, <1>33, <1>34 DEF CatalogInv

(* What was read first, with the override as it is by now: it costs that   *)
(* override, or the base price as it was; and it is the row itself, unless *)
(* somebody has touched it.                                                *)
LEMMA ReadRow ==
  ASSUME CatalogInv, BetweenReads
  PROVE  /\ shopper \in Shopping /\ shopper.item \in Items
         /\ products[shopper.item] \in ProductRow /\ shopper.row \in ProductRow
         /\ WithOverride \in ProductRow /\ PriceOf(WithOverride) \in Prices
         /\ PriceOf(WithOverride) =
              IF products[shopper.item].override.price # 0
              THEN products[shopper.item].override.price ELSE shopper.row.price
         /\ ~touched => /\ Accepts(WithOverride) <=> Accepts(products[shopper.item])
                        /\ Offered(WithOverride) <=> Offered(products[shopper.item])
<1>1. shopper # NoShopper
  BY DEF BetweenReads, NoShopper
<1>2. shopper \in Shopping /\ shopper.item \in Known /\ shopper.row \in ProductRow
  BY <1>1 DEF CatalogInv, CatalogTyped
<1>3. shopper.item \in Items /\ products[shopper.item] \in ProductRow
  BY <1>2, KnownRows DEF CatalogInv
<1>4. PICK row \in ProductRow, now \in ProductRow : row = shopper.row /\ now = products[shopper.item]
  BY <1>2, <1>3
<1>5. PICK o \in Override : o = now.override
  BY DEF ProductRow
<1>6. PICK w : w = [row EXCEPT !.override = o]
  OBVIOUS
<1>7. WithOverride = w
  BY <1>4, <1>5, <1>6 DEF WithOverride
<1>8. /\ w \in ProductRow /\ w.override = o /\ w.price = row.price
      /\ w.exists = row.exists /\ w.active = row.active /\ w.archived = row.archived
      /\ w.cfg = row.cfg
  BY <1>6 DEF ProductRow
<1>9. PriceOf(w) = (IF o.price # 0 THEN o.price ELSE row.price) /\ PriceOf(w) \in Prices
  BY <1>8 DEF PriceOf, ProductRow, Override
<1>10. ~touched => row = now
  BY <1>4 DEF CatalogInv, ShopperIsServed
<1>11. ~touched => (Accepts(w) <=> Accepts(now)) /\ (Offered(w) <=> Offered(now))
  BY <1>5, <1>8, <1>10 DEF Accepts, Offered, Listed, Available
<1>. QED BY <1>2, <1>3, <1>4, <1>5, <1>7, <1>8, <1>9, <1>11

(* What a customer does leaves products and imports as they are.           *)
LEMMA ShoppersApart ==
  ASSUME CatalogInv, UNCHANGED shopVars, ShopperIsServed', touched' \in BOOLEAN,
         shopper' = NoShopper \/ (shopper' \in Shopping /\ shopper'.item \in Known),
         BetweenReads' => shopper'.row \in ProductRow
  PROVE  CatalogInv'
<1>1. UNCHANGED <<products, imports, commits, form, applied, raced, wanted>>
  BY DEF shopVars
<1>2. Known' = Known
  BY <1>1 DEF Known
<1>3. CatalogTyped'
  BY <1>1, <1>2 DEF CatalogInv, CatalogTyped, Under
<1>4. ImportsMeetProducts' /\ CommitsAreRaced'
  BY <1>1, <1>2 DEF CatalogInv, ImportsMeetProducts, News, CommitsAreRaced, Under, ImportStatusIsTrue
<1>5. OperatorsWork'
  BY <1>1, <1>2 DEF CatalogInv, OperatorsWork, ConfigIsTheOperators
<1>. QED BY <1>3, <1>4, <1>5 DEF CatalogInv

(* The customer reads the catalog, submits and leaves.                     *)
LEMMA BrowsingKeeps ==
  ASSUME CatalogInv, (\E x \in Items : Browse(x)) \/ ShowCatalog \/ Submit \/ Leave
  PROVE  CatalogInv'
<1>1. UNCHANGED shopVars /\ products' = products
  BY DEF Browse, ShowCatalog, Submit, Leave, shopVars
<1>2. touched \in BOOLEAN /\ ShopperIsServed
  BY DEF CatalogInv, CatalogTyped
<1>3. ASSUME shopper' = NoShopper, touched' \in BOOLEAN PROVE CatalogInv'
  <2>1. shopper'.phase = "idle"
    BY <1>3 DEF NoShopper
  <2>2. ShopperIsServed' /\ ~BetweenReads'
    BY <2>1 DEF ShopperIsServed, OrderPriceWasInForce, OfferedIsAccepted, Served, BetweenReads
  <2>. QED BY <1>1, <1>3, <2>2, ShoppersApart
<1>4. ASSUME NEW x \in Items, Browse(x) PROVE CatalogInv'
  <2>1. PICK row : row = products[x]
    OBVIOUS
  <2>2. PICK w : w = [phase |-> "looking", item |-> x, row |-> row, shown |-> 0, price |-> 0]
    OBVIOUS
  <2>3. x \in Known /\ row \in ProductRow
    BY <1>4, <2>1, KnownRows DEF Browse, Listed, Known, CatalogInv
  <2>4. w \in Shopping /\ w.phase = "looking" /\ w.item = x /\ w.row = row
    BY <2>2, <2>3 DEF Shopping
  <2>5. shopper' = w /\ touched' = touched
    BY <1>4, <2>1, <2>2 DEF Browse
  <2>6. ShopperIsServed'
    BY <1>1, <2>1, <2>4, <2>5 DEF ShopperIsServed, OrderPriceWasInForce, OfferedIsAccepted, Served,
                                  BetweenReads
  <2>. QED BY <1>1, <1>2, <2>3, <2>4, <2>5, <2>6, ShoppersApart
<1>5. CASE ShowCatalog
  <2>1. BetweenReads
    BY <1>5 DEF ShowCatalog, BetweenReads
  <2>2. PICK shown \in Prices : shown = PriceOf(WithOverride)
    BY <2>1, ReadRow
  <2>3. CASE Offered(WithOverride)
    <3>1. PICK w : w = [shopper EXCEPT !.phase = "browsing", !.shown = shown, !.row = NoProduct]
      OBVIOUS
    <3>2. w \in Shopping /\ w.phase = "browsing" /\ w.item = shopper.item
      BY <2>1, <3>1, ReadRow DEF Shopping
    <3>3. shopper' = w /\ touched' = touched
      BY <1>5, <2>2, <2>3, <3>1 DEF ShowCatalog
    <3>4. shopper.item \in Known
      BY <2>1 DEF CatalogInv, CatalogTyped, BetweenReads, NoShopper
    <3>5. ~touched => Offered(products[shopper.item])
      BY <2>1, <2>3, ReadRow
    <3>6. ~touched' => Offered(products[shopper.item])'
      BY <1>1, <3>2, <3>3, <3>5 DEF Offered, Listed, Available
    <3>7. ShopperIsServed' /\ ~BetweenReads'
      BY <3>2, <3>3, <3>6 DEF ShopperIsServed, OrderPriceWasInForce, OfferedIsAccepted, Served,
                              BetweenReads
    <3>. QED BY <1>1, <1>2, <3>2, <3>3, <3>4, <3>7, ShoppersApart
  <2>4. CASE ~Offered(WithOverride)
    BY <1>3, <1>5, <2>4 DEF ShowCatalog
  <2>. QED BY <2>3, <2>4
<1>6. CASE Submit
  <2>1. /\ shopper.phase = "browsing" /\ shopper' = [shopper EXCEPT !.phase = "sent"]
        /\ inForce' = {PricesOf(products[shopper.item])} /\ touched' = touched
    BY <1>6 DEF Submit
  <2>2. shopper \in Shopping /\ shopper.item \in Known
    BY <2>1 DEF CatalogInv, CatalogTyped, NoShopper
  <2>3. shopper' \in Shopping /\ shopper'.phase = "sent" /\ shopper'.item = shopper.item
    BY <2>1, <2>2 DEF Shopping
  <2>4. ~touched => Offered(products[shopper.item])
    BY <1>2, <2>1 DEF ShopperIsServed
  <2>5. ~touched' => Offered(products[shopper.item])'
    BY <1>1, <2>1, <2>3, <2>4 DEF Offered, Listed, Available
  <2>6. (PricesOf(products[shopper.item]) \in inForce)'
    BY <1>1, <2>1, <2>3 DEF PricesOf
  <2>7. ShopperIsServed' /\ ~BetweenReads'
    BY <2>3, <2>5, <2>6 DEF ShopperIsServed, OrderPriceWasInForce, OfferedIsAccepted, BetweenReads
  <2>. QED BY <1>1, <1>2, <2>1, <2>2, <2>3, <2>7, ShoppersApart
<1>7. CASE Leave
  BY <1>3, <1>7 DEF Leave
<1>. QED BY <1>4, <1>5, <1>6, <1>7

(* The server reads the product, its config and its override.              *)
LEMMA ServingKeeps ==
  ASSUME CatalogInv, ReadProduct \/ ReadConfig \/ ReadOverride
  PROVE  CatalogInv'
<1>1. UNCHANGED <<shopVars, inForce, touched>> /\ products' = products
  BY DEF ReadProduct, ReadConfig, ReadOverride, shopVars
<1>2. touched \in BOOLEAN /\ ShopperIsServed
  BY DEF CatalogInv, CatalogTyped
<1>3. Served /\ shopper # NoShopper
  BY DEF ReadProduct, ReadConfig, ReadOverride, Served, NoShopper
<1>4. shopper \in Shopping /\ shopper.item \in Known
  BY <1>3 DEF CatalogInv, CatalogTyped
<1>5. PICK x \in Known : x = shopper.item
  BY <1>4
<1>6. products[x] \in ProductRow /\ x \in Items
  BY KnownRows DEF CatalogInv
<1>7. /\ PricesOf(products[x]) \in inForce
      /\ ~touched => Offered(products[x])
  BY <1>2, <1>3, <1>5 DEF ShopperIsServed, Served
<1>8. ASSUME NEW row \in ProductRow, shopper' \in Shopping, shopper'.item = x, shopper'.row = row,
             shopper'.phase \in {"row", "config"}, \E a \in inForce : a.base = row.price,
             ~touched => row = products[x]
      PROVE  CatalogInv'
  <2>1. /\ (PricesOf(products[shopper.item]) \in inForce)'
        /\ ~touched' => Offered(products[shopper.item])'
    BY <1>1, <1>7, <1>8 DEF PricesOf, Offered, Listed, Available
  <2>2. ShopperIsServed'
    BY <1>1, <1>8, <2>1 DEF ShopperIsServed, OrderPriceWasInForce, OfferedIsAccepted
  <2>. QED BY <1>1, <1>2, <1>5, <1>8, <2>2, ShoppersApart
<1>9. CASE ReadProduct
  <2>1. shopper' = [shopper EXCEPT !.phase = "row", !.row = products[x]]
    BY <1>5, <1>9 DEF ReadProduct
  <2>2. /\ shopper' \in Shopping /\ shopper'.item = x /\ shopper'.row = products[x]
        /\ shopper'.phase = "row"
    BY <1>4, <1>5, <1>6, <2>1 DEF Shopping
  <2>3. PricesOf(products[x]).base = products[x].price
    BY DEF PricesOf
  <2>. QED BY <1>6, <1>7, <1>8, <2>2, <2>3
<1>10. CASE ReadConfig
  <2>1. BetweenReads /\ shopper.phase = "row"
    BY <1>10 DEF ReadConfig, BetweenReads
  <2>2. PICK old \in ProductRow : old = shopper.row
    BY <2>1 DEF CatalogInv, CatalogTyped
  <2>3. PICK cfg \in Configs : cfg = products[x].cfg
    BY <1>6 DEF ProductRow
  <2>4. PICK row : row = [old EXCEPT !.cfg = cfg]
    OBVIOUS
  <2>5. row \in ProductRow /\ row.price = old.price /\ (old.cfg = cfg => row = old)
    BY <2>4 DEF ProductRow
  <2>6. shopper' = [shopper EXCEPT !.phase = "config", !.row = row]
    <3>1. shopper' = [shopper EXCEPT !.phase = "config", !.row.cfg = cfg]
      BY <1>5, <1>10, <2>3 DEF ReadConfig
    <3>. QED BY <1>4, <2>2, <2>4, <3>1 DEF Shopping
  <2>7. /\ shopper' \in Shopping /\ shopper'.item = x /\ shopper'.row = row
        /\ shopper'.phase = "config"
    BY <1>4, <1>5, <2>5, <2>6 DEF Shopping
  <2>8. \E a \in inForce : a.base = row.price
    BY <1>2, <2>1, <2>2, <2>5 DEF ShopperIsServed
  <2>9. ~touched => row = products[x]
    BY <1>2, <1>5, <2>1, <2>2, <2>3, <2>5 DEF ShopperIsServed
  <2>. QED BY <1>8, <2>5, <2>7, <2>8, <2>9
<1>11. CASE ReadOverride
  <2>1. BetweenReads /\ shopper.phase = "config"
    BY <1>11 DEF ReadOverride, BetweenReads
  <2>2. PICK price \in Prices : price = PriceOf(WithOverride)
    BY <2>1, ReadRow
  <2>3. PICK phase, paid :
          /\ phase = IF Accepts(WithOverride) THEN "priced" ELSE "refused"
          /\ paid = IF Accepts(WithOverride) THEN price ELSE 0
    OBVIOUS
  <2>4. shopper' = [shopper EXCEPT !.phase = phase, !.price = paid, !.row = NoProduct]
    BY <1>11, <2>2, <2>3 DEF ReadOverride, Priced
  <2>5. /\ shopper' \in Shopping /\ shopper'.item = x /\ shopper'.phase = phase
        /\ shopper'.price = paid
    BY <1>4, <1>5, <2>2, <2>3, <2>4 DEF Shopping
  <2>6. OrderPriceWasInForce'
    <3>1. PICK b \in inForce : b = PricesOf(products[x])
      BY <1>7
    <3>2. PICK a \in inForce : a.base = shopper.row.price
      BY <1>2, <2>1 DEF ShopperIsServed
    <3>3. b.override = products[x].override.price
      BY <3>1 DEF PricesOf
    <3>4. price = IF b.override # 0 THEN b.override ELSE a.base
      BY <1>5, <2>1, <2>2, <3>2, <3>3, ReadRow
    <3>. QED BY <1>1, <2>3, <2>5, <3>4 DEF OrderPriceWasInForce
  <2>7. OfferedIsAccepted'
    <3>1. ~Accepts(WithOverride) /\ ~touched => products[x].cfg = "NO_STATION"
      BY <1>5, <1>7, <2>1, ReadRow DEF Accepts, Offered, Listed
    <3>. QED BY <1>1, <2>3, <2>5, <3>1 DEF OfferedIsAccepted
  <2>8. ShopperIsServed' /\ ~BetweenReads'
    BY <2>3, <2>5, <2>6, <2>7 DEF ShopperIsServed, Served, BetweenReads
  <2>. QED BY <1>1, <1>2, <1>5, <2>5, <2>8, ShoppersApart
<1>. QED BY <1>9, <1>10, <1>11

(* The editor opens with a copy of the row, and closes.                    *)
LEMMA EditorKeeps ==
  ASSUME CatalogInv,
         UNCHANGED <<products, imports, commits, shopper, applied, raced, wanted, inForce, touched>>,
         form' = NoForm \/ (form' \in Editor /\ form'.item \in Known) \/ form' = form
  PROVE  CatalogInv'
<1>1. Known' = Known
  BY DEF Known
<1>2. CatalogTyped'
  BY <1>1 DEF CatalogInv, CatalogTyped, Under, BetweenReads
<1>3. ImportsMeetProducts' /\ CommitsAreRaced'
  BY <1>1 DEF CatalogInv, ImportsMeetProducts, News, CommitsAreRaced, Under, ImportStatusIsTrue
<1>4. OperatorsWork'
  BY <1>1 DEF CatalogInv, OperatorsWork, ConfigIsTheOperators
<1>5. ShopperIsServed'
  BY DEF CatalogInv, ShopperIsServed, OrderPriceWasInForce, OfferedIsAccepted, PricesOf, Offered,
         Listed, Available, Served, BetweenReads
<1>. QED BY <1>2, <1>3, <1>4, <1>5 DEF CatalogInv

-----------------------------------------------------------------------------
(* There are no products and nobody is at work.                            *)
LEMMA CatalogStart == CatalogInit => CatalogInv
<1>. SUFFICES ASSUME CatalogInit PROVE CatalogInv
  OBVIOUS
<1>1. NoImport \in Import /\ NoImport.status = "none" /\ DOMAIN NoImport.items = {}
  <2>1. <<>> \in [{} -> ImportItem] /\ DOMAIN <<>> = {}
    OBVIOUS
  <2>2. <<>> \in UNION {[S -> ImportItem] : S \in SUBSET Items}
    BY <2>1
  <2>. QED BY <2>1, <2>2 DEF NoImport, Import
<1>2. NoCommit \in CommitRow /\ NoCommit.phase = "idle" /\ NoCommit.import = 0
  BY DEF NoCommit, CommitRow
<1>3. Known = {}
  BY DEF CatalogInit, Known, NoProduct
<1>4. \A i \in ImportIds : imports[i] = NoImport /\ applied[i] = 0 /\ News(i) = {}
  BY <1>1 DEF CatalogInit, News
<1>5. CatalogTyped
  <2>1. ~BetweenReads
    BY DEF CatalogInit, NoShopper, BetweenReads
  <2>. QED BY <1>1, <1>2, <1>3, <2>1 DEF CatalogInit, CatalogTyped, Under
<1>6. ImportsMeetProducts
  BY <1>1, <1>4 DEF ImportsMeetProducts
<1>7. CommitsAreRaced
  BY <1>1, <1>2, <1>4 DEF CatalogInit, CommitsAreRaced, Under, ImportStatusIsTrue
<1>8. OperatorsWork
  BY <1>3 DEF CatalogInit, OperatorsWork, ConfigIsTheOperators
<1>9. ShopperIsServed
  BY DEF CatalogInit, NoShopper, ShopperIsServed, OrderPriceWasInForce, OfferedIsAccepted,
         Served, BetweenReads
<1>. QED BY <1>5, <1>6, <1>7, <1>8, <1>9 DEF CatalogInv

(* No step breaks the invariant ...                                        *)
LEMMA CatalogStep == CatalogInv /\ [CatalogNext]_catalogVars => CatalogInv'
<1>. SUFFICES ASSUME CatalogInv, [CatalogNext]_catalogVars PROVE CatalogInv'
  OBVIOUS
<1>1. ASSUME NEW x \in Items, OpenEditor(x) PROVE CatalogInv'
  <2>1. PICK w : w = [open |-> TRUE, item |-> x, row |-> Fields(products[x])]
    OBVIOUS
  <2>2. x \in Known /\ Fields(products[x]) \in ProductRow
    <3>1. x \in Known /\ products[x] \in ProductRow
      BY <1>1, KnownRows DEF OpenEditor, CatalogInv
    <3>2. NoOverride \in Override
      BY DEF NoOverride, Override
    <3>. QED BY <3>1, <3>2 DEF Fields, ProductRow
  <2>3. w \in Editor /\ w.item \in Known
    BY <2>1, <2>2 DEF Editor
  <2>4. /\ UNCHANGED <<products, imports, commits, shopper, applied, raced, wanted, inForce, touched>>
        /\ form' = w
    BY <1>1, <2>1 DEF OpenEditor
  <2>. QED BY <2>3, <2>4, EditorKeeps
<1>2. CASE CloseEditor
  BY <1>2, EditorKeeps DEF CloseEditor
<1>3. CASE UNCHANGED catalogVars
  BY <1>3, EditorKeeps DEF catalogVars
<1>4. ASSUME NEW c \in Committers,
             \/ \E i \in ImportIds : CheckImport(c, i)
             \/ CommitImport(c) \/ FailImport(c) \/ ImportDies(c)
      PROVE  CatalogInv'
  BY <1>4, CheckImportKeeps, CommitImportKeeps, FailuresKeep
<1>5. ASSUME form.open,
             \/ \E new \in Edits(form.row), may \in BOOLEAN : SaveProduct(new, may)
             \/ \E state \in {"enable", "disable", "archive"} : SetState(state)
             \/ CloseEditor
      PROVE  CatalogInv'
  BY <1>2, <1>5, SavesOfProductsKeep
<1>6. ASSUME \/ \E x \in Items, price \in Prices, cfg \in Configs : CreateProduct(x, price, cfg)
             \/ \E x \in Items, available \in BOOLEAN, price \in Prices \cup {0} :
                  SetBranchOverride(x, available, price)
      PROVE  CatalogInv'
  BY <1>6, SavesOfProductsKeep
<1>7. ASSUME \/ \E x \in Items : Browse(x)
             \/ ShowCatalog \/ Submit \/ ReadProduct \/ ReadConfig \/ ReadOverride \/ Leave
      PROVE  CatalogInv'
  BY <1>7, BrowsingKeeps, ServingKeeps
<1>8. ASSUME NEW i \in ImportIds, NEW found \in Found, Preview(i, found) PROVE CatalogInv'
  BY <1>8, PreviewKeeps
<1>. QED BY <1>1, <1>3, <1>4, <1>5, <1>6, <1>7, <1>8 DEF CatalogNext

(* ... which says what the runs check.                                     *)
LEMMA CatalogSound == CatalogInv => ImportKeepsItsWord /\ OrderIsCurrent
  BY DEF CatalogInv, CommitsAreRaced, OperatorsWork, ShopperIsServed, ImportKeepsItsWord, OrderIsCurrent
-----------------------------------------------------------------------------
(***************************************************************************)
(* Promotions.                                                             *)
(***************************************************************************)
Dates == Calendar \cup {NoDate}

Form == [branch : Branches, kind : Kinds, active : BOOLEAN, from : Dates, to : Dates]

BannerRow ==
  [exists : {TRUE}, branch : Branches, kind : Kinds, active : BOOLEAN,
   starts : {StartOf(d) : d \in Dates}, ends : {EndOf(d) : d \in Dates}]

BannerRows == [Banners -> BannerRow \cup {NoBanner, Removed}]

OpenForm == [open : {TRUE}, id : Banners \cup {0}, form : Form]

Promised == [from : Dates, to : Dates]

PromotionsTyped ==
  /\ clock \in 0 .. 2 * Days - 1 /\ rendered \in 0 .. clock
  /\ promotions \in BannerRows /\ listed \in BannerRows
  /\ listing \in BOOLEAN /\ missed \in BOOLEAN
  /\ editor = NoEditor \/ editor \in OpenForm
  /\ fetch.told \in Answers /\ banners \in Answers /\ slide \in Nat
  /\ promised \in [Banners -> Promised]

(* The instants of a row are those of the days that were promised.         *)
DaysAreKept == \A b \in Banners : promotions[b].exists =>
  /\ promotions[b].starts = StartOf(promised[b].from)
  /\ promotions[b].ends = EndOf(promised[b].to)

ListIsCurrent == ~listing /\ ~missed => listed = promotions

PromotionsInv == PromotionsTyped /\ DaysAreKept /\ ListIsCurrent /\ SlideOnScreen

-----------------------------------------------------------------------------
(* A day becomes an instant and the instant becomes that day again.        *)
LEMMA DatesGoRound ==
  ASSUME NEW d \in Dates
  PROVE  /\ StartOf(d) \in Int /\ EndOf(d) \in Int
         /\ ToDateInput(StartOf(d)) = d /\ ToDateInput(EndOf(d)) = d
         /\ d = NoDate => StartOf(d) = NoDate /\ EndOf(d) = NoDate
         /\ d # NoDate => d \in Nat /\ StartOf(d) = 2 * d /\ EndOf(d) = 2 * d + 1
<1>1. Days \in Nat
  BY PromotionsAssumption
<1>2. CASE d = NoDate
  BY <1>2 DEF NoDate, StartOf, EndOf, ToDateInput
<1>3. CASE d # NoDate
  <2>1. d \in Nat /\ d >= 0
    BY <1>1, <1>3 DEF Dates, Calendar
  <2>2. (2 * d) \div 2 = d /\ (2 * d + 1) \div 2 = d
    BY <2>1
  <2>3. StartOf(d) = 2 * d /\ EndOf(d) = 2 * d + 1
    BY <1>3 DEF StartOf, EndOf
  <2>4. 2 * d # NoDate /\ 2 * d + 1 # NoDate
    BY <2>1 DEF NoDate
  <2>. QED BY <1>3, <2>1, <2>2, <2>3, <2>4 DEF ToDateInput, DayOf
<1>. QED BY <1>2, <1>3

(* Rows and forms.                                                         *)
LEMMA RowsAndForms ==
  /\ \A row \in BannerRow :
       FormOf(row) \in Form /\ row.starts \in Int /\ row.ends \in Int /\ row.exists
  /\ \A f \in Form : /\ RowOf(f) \in BannerRow /\ RowOf(f).exists
                     /\ RowOf(f).starts = StartOf(f.from) /\ RowOf(f).ends = EndOf(f.to)
  /\ NoBanner.exists = FALSE /\ Removed.exists = FALSE
  /\ NewForm \in Form
<1>1. ASSUME NEW row \in BannerRow
      PROVE  FormOf(row) \in Form /\ row.starts \in Int /\ row.ends \in Int /\ row.exists
  <2>1. PICK s \in Dates : row.starts = StartOf(s)
    BY DEF BannerRow
  <2>2. PICK e \in Dates : row.ends = EndOf(e)
    BY DEF BannerRow
  <2>3. /\ ToDateInput(row.starts) \in Dates /\ ToDateInput(row.ends) \in Dates
        /\ row.starts \in Int /\ row.ends \in Int
    BY <2>1, <2>2, DatesGoRound
  <2>4. row.branch \in Branches /\ row.kind \in Kinds /\ row.active \in BOOLEAN /\ row.exists
    BY DEF BannerRow
  <2>. QED BY <2>3, <2>4 DEF FormOf, Form
<1>2. ASSUME NEW f \in Form
      PROVE  /\ RowOf(f) \in BannerRow /\ RowOf(f).exists
             /\ RowOf(f).starts = StartOf(f.from) /\ RowOf(f).ends = EndOf(f.to)
  <2>1. /\ f.branch \in Branches /\ f.kind \in Kinds /\ f.active \in BOOLEAN
        /\ f.from \in Dates /\ f.to \in Dates
    BY DEF Form
  <2>2. StartOf(f.from) \in {StartOf(d) : d \in Dates} /\ EndOf(f.to) \in {EndOf(d) : d \in Dates}
    BY <2>1
  <2>. QED BY <2>1, <2>2 DEF RowOf, BannerRow
<1>3. NewForm \in Form
  BY DEF NewForm, Form, Branches, Kinds, Dates
<1>. QED BY <1>1, <1>2, <1>3 DEF NoBanner, Removed

(* A row is live on the days that were promised for it.                    *)
LEMMA DaysAreLive == PromotionsInv => LiveOnItsDays
<1>. SUFFICES ASSUME PromotionsInv, NEW b \in Banners, promotions[b].exists, promotions[b].active,
                     NEW from, NEW to, from = promised[b].from, to = promised[b].to
              PROVE  Live(promotions[b]) <=>
                       /\ from <= DayOf(clock)
                       /\ \/ to = NoDate
                          \/ DayOf(clock) <= to /\ clock # LastSecond(to)
  BY DEF LiveOnItsDays
<1>1. from \in Dates /\ to \in Dates
  BY DEF PromotionsInv, PromotionsTyped, Promised
<1>2. promotions[b].starts = StartOf(from) /\ promotions[b].ends = EndOf(to)
  BY DEF PromotionsInv, DaysAreKept
<1>3. clock \in Nat /\ NoDate = -1 /\ NoDate \notin Nat
  BY PromotionsAssumption DEF PromotionsInv, PromotionsTyped, NoDate
<1>4. (StartOf(from) = NoDate \/ StartOf(from) <= clock) <=> from <= DayOf(clock)
  <2>1. CASE from = NoDate
    BY <1>1, <1>3, <2>1, DatesGoRound DEF DayOf
  <2>2. CASE from # NoDate
    <3>1. from \in Nat /\ StartOf(from) = 2 * from
      BY <1>1, <2>2, DatesGoRound
    <3>2. 2 * from <= clock <=> from <= clock \div 2
      BY <1>3, <3>1
    <3>. QED BY <1>3, <3>1, <3>2 DEF DayOf
  <2>. QED BY <2>1, <2>2
<1>5. (EndOf(to) = NoDate \/ clock < EndOf(to)) <=>
        (to = NoDate \/ (DayOf(clock) <= to /\ clock # LastSecond(to)))
  <2>1. CASE to = NoDate
    BY <1>1, <2>1, DatesGoRound
  <2>2. CASE to # NoDate
    <3>1. to \in Nat /\ EndOf(to) = 2 * to + 1 /\ LastSecond(to) = 2 * to + 1
      BY <1>1, <2>2, DatesGoRound DEF LastSecond
    <3>2. clock < 2 * to + 1 <=> (clock \div 2 <= to /\ clock # 2 * to + 1)
      BY <1>3, <3>1
    <3>. QED BY <1>3, <2>2, <3>1, <3>2 DEF DayOf
  <2>. QED BY <2>1, <2>2
<1>. QED BY <1>2, <1>4, <1>5 DEF Live

(* The page asks the same of the row, at the time it was drawn, as the     *)
(* server does now; both say the same unless the row's first or last       *)
(* second lies between.                                                    *)
LEMMA BadgesAgree == PromotionsInv => BadgeIsTrue
<1>. SUFFICES ASSUME PromotionsInv, ~listing, ~missed, NEW b \in Banners
              PROVE  LET row == promotions[b] IN
                     /\ b \in Active => row.exists
                     /\ (/\ row.exists /\ row.branch = "here"
                         /\ ~PassedSinceDrawn(row.starts) /\ ~PassedSinceDrawn(row.ends))
                          => (IsLive(row) <=> b \in Active)
  BY DEF BadgeIsTrue, PromotionsInv, ListIsCurrent
<1>1. b \in Active => promotions[b].exists
  BY DEF Active
<1>2. ASSUME promotions[b].exists, promotions[b].branch = "here",
             ~PassedSinceDrawn(promotions[b].starts), ~PassedSinceDrawn(promotions[b].ends)
      PROVE  IsLive(promotions[b]) <=> Live(promotions[b])
  <2>1. promotions[b] \in BannerRow
    BY <1>2, RowsAndForms DEF PromotionsInv, PromotionsTyped, BannerRows
  <2>2. promotions[b].starts \in Int /\ promotions[b].ends \in Int
    BY <2>1, RowsAndForms
  <2>3. clock \in Int /\ rendered \in Int /\ rendered <= clock
    BY PromotionsAssumption DEF PromotionsInv, PromotionsTyped
  <2>. QED BY <1>2, <2>2, <2>3 DEF Live, IsLive, PassedSinceDrawn
<1>. QED BY <1>1, <1>2 DEF Active

-----------------------------------------------------------------------------
(* A kiosk is told of finitely many banners.                               *)
LEMMA AnswersAreFinite ==
  ASSUME NEW some \in Answers
  PROVE  /\ Cardinality(some) \in Nat
         /\ Cardinality(some) = 0 <=> some = {}
<1>1. IsFiniteSet(Banners)
  BY FS_Interval, PromotionsAssumption DEF Banners
<1>2. IsFiniteSet(Kinds)
  <2>1. IsFiniteSet({"GENERAL"} \cup {"DISCOUNT"})
    BY FS_Singleton, FS_AddElement
  <2>2. Kinds = {"GENERAL"} \cup {"DISCOUNT"}
    BY DEF Kinds
  <2>. QED BY <2>1, <2>2
<1>3. IsFiniteSet(Banners \X Kinds)
  BY <1>1, <1>2, FS_Product
<1>4. some \in SUBSET (Banners \X Kinds)
  BY DEF Answers
<1>5. IsFiniteSet(some)
  BY <1>3, <1>4, FS_Subset
<1>. QED BY <1>5, FS_CardinalityType, FS_EmptySet

(* The carousel keeps a banner on the screen.                              *)
LEMMA KioskKeeps ==
  ASSUME PromotionsInv,
         ReadActive \/ ShowActive \/ LoseActive \/ Rotate
           \/ \E to \in {"welcome", "DISCOUNT"} : Walk(to)
  PROVE  PromotionsInv'
<1>1. UNCHANGED <<clock, rendered, promotions, listed, listing, editor, promised, missed>>
  BY DEF ReadActive, ShowActive, LoseActive, Rotate, Walk, page
<1>2. ASSUME fetch'.told \in Answers, banners' \in Answers, slide' \in Nat, SlideOnScreen'
      PROVE  PromotionsInv'
  BY <1>1, <1>2 DEF PromotionsInv, PromotionsTyped, DaysAreKept, ListIsCurrent
<1>3. fetch.told \in Answers /\ banners \in Answers /\ slide \in Nat /\ SlideOnScreen
  BY DEF PromotionsInv, PromotionsTyped
<1>4. NoFetch.told = {} /\ {} \in Answers
  BY DEF NoFetch, Answers
<1>a. \A all \in Answers : OnPlace(all) \in Answers /\ OnPlace(all)' \in Answers
  BY DEF OnPlace, Answers
<1>5. CASE LoseActive
  <2>1. fetch'.told \in Answers /\ UNCHANGED <<banners, place, slide>>
    BY <1>4, <1>5 DEF LoseActive
  <2>. QED BY <1>2, <1>3, <2>1 DEF SlideOnScreen, OnPlace
<1>6. CASE ReadActive
  <2>1. \A b \in Active : b \in Banners /\ promotions[b].kind \in Kinds
    <3>1. \A b \in Banners : promotions[b].exists => promotions[b] \in BannerRow
      BY RowsAndForms DEF PromotionsInv, PromotionsTyped, BannerRows
    <3>. QED BY <3>1 DEF Active, BannerRow
  <2>2. PICK told : told = {<<b, promotions[b].kind>> : b \in Active}
    OBVIOUS
  <2>3. told \in Answers
    BY <2>1, <2>2 DEF Answers
  <2>4. fetch'.told = told /\ UNCHANGED <<banners, place, slide>>
    BY <1>6, <2>2 DEF ReadActive
  <2>. QED BY <1>2, <1>3, <2>3, <2>4 DEF SlideOnScreen, OnPlace
<1>7. CASE ShowActive
  <2>1. PICK told \in Answers : told = fetch.told
    BY <1>3
  <2>2. PICK count, new : count = Cardinality(OnPlace(banners)) /\ new = Cardinality(OnPlace(told))
    OBVIOUS
  <2>3. banners' = told /\ slide' = (IF count # new THEN 0 ELSE slide) /\ fetch' = NoFetch
        /\ place' = place
    BY <1>7, <2>1, <2>2 DEF ShowActive, Rotated
  <2>4. /\ count \in Nat /\ (count = 0 <=> OnPlace(banners) = {})
        /\ new \in Nat /\ (new = 0 <=> OnPlace(told) = {})
    BY <1>3, <1>a, <2>2, AnswersAreFinite
  <2>5. OnPlace(banners)' = OnPlace(told)
    BY <2>3 DEF OnPlace
  <2>6. OnPlace(told) # {} => slide' < new
    BY <1>3, <2>2, <2>3, <2>4 DEF SlideOnScreen
  <2>7. SlideOnScreen'
    BY <2>2, <2>5, <2>6 DEF SlideOnScreen
  <2>. QED BY <1>2, <1>3, <1>4, <2>3, <2>7
<1>8. CASE Rotate
  <2>1. PICK n : n = Cardinality(OnPlace(banners))
    OBVIOUS
  <2>2. /\ n > 1 /\ slide' = (slide + 1) % n /\ n \in Nat
        /\ UNCHANGED <<fetch, banners, place>>
    BY <1>3, <1>8, <1>a, <2>1, AnswersAreFinite DEF Rotate
  <2>3. slide' \in Nat /\ slide' < n
    BY <1>3, <2>2
  <2>4. SlideOnScreen'
    BY <2>1, <2>2, <2>3 DEF SlideOnScreen, OnPlace
  <2>. QED BY <1>2, <1>3, <2>2, <2>3, <2>4
<1>9. ASSUME NEW to, Walk(to) PROVE PromotionsInv'
  <2>1. slide' = 0 /\ UNCHANGED <<fetch, banners>>
    BY <1>9 DEF Walk
  <2>2. PICK on \in Answers : on = OnPlace(banners)'
    BY <1>3, <2>1 DEF OnPlace, Answers
  <2>3. SlideOnScreen'
    BY <2>1, <2>2, AnswersAreFinite DEF SlideOnScreen
  <2>. QED BY <1>2, <1>3, <2>1, <2>3
<1>. QED BY <1>5, <1>6, <1>7, <1>8, <1>9

(* A page that is drawn now was drawn in the time that has passed.         *)
LEMMA ClockIsNat == PromotionsInv => clock \in Nat /\ clock \in 0 .. clock
  BY PromotionsAssumption DEF PromotionsInv, PromotionsTyped

(* A save keeps the days it was not told to change, and has the list read  *)
(* again or leaves word that it was not.                                   *)
LEMMA SaveBannerKeeps ==
  ASSUME PromotionsInv, editor.open, NEW new \in Filled(editor.form), SaveBanner(new)
  PROVE  PromotionsInv'
<1>1. editor \in OpenForm
  BY DEF PromotionsInv, PromotionsTyped, NoEditor
<1>2. PICK form0 \in Form : form0 = editor.form
  BY <1>1 DEF OpenForm
<1>3. new \in Form
  <2>1. \/ \E x \in Branches : new = [form0 EXCEPT !.branch = x]
        \/ \E x \in Kinds : new = [form0 EXCEPT !.kind = x]
        \/ new = [form0 EXCEPT !.active = ~form0.active]
        \/ \E x \in Dates : new = [form0 EXCEPT !.from = x]
        \/ \E x \in Dates : new = [form0 EXCEPT !.to = x]
    BY <1>2 DEF Filled, Dates
  <2>. QED BY <1>2, <2>1 DEF Form
<1>4. PICK b \in Target : promotions' = [promotions EXCEPT ![b] = RowOf(new)] /\ Promise(b, new)
  BY DEF SaveBanner
<1>5. UNCHANGED <<clock, listed, fetch, banners, place, slide>> /\ Closes
  BY DEF SaveBanner, kiosk
<1>6. b \in Banners /\ (editor.id # 0 => promotions[b].exists)
  BY <1>4 DEF Target
<1>7. PICK from, to : from = promised[b].from /\ to = promised[b].to
  OBVIOUS
<1>8. from \in Dates /\ to \in Dates
  BY <1>6, <1>7 DEF PromotionsInv, PromotionsTyped, Promised
<1>9. PICK from2, to2 :
        LET stale == editor.id = 0 \/ FormOf(promotions[b]) # form0 IN
        /\ from2 = IF new.from # form0.from \/ stale THEN new.from ELSE from
        /\ to2 = IF new.to # form0.to \/ stale THEN new.to ELSE to
  OBVIOUS
<1>10. promised' = [promised EXCEPT ![b] = [from |-> from2, to |-> to2]]
  BY <1>2, <1>4, <1>7, <1>9 DEF Promise
<1>11. new.from \in Dates /\ new.to \in Dates
  BY <1>3 DEF Form
<1>12. from2 = new.from /\ to2 = new.to
  <2>1. CASE editor.id = 0 \/ FormOf(promotions[b]) # form0
    BY <1>9, <2>1
  <2>2. CASE editor.id # 0 /\ FormOf(promotions[b]) = form0
    <3>1. promotions[b].starts = StartOf(from) /\ promotions[b].ends = EndOf(to)
      BY <1>6, <1>7, <2>2 DEF PromotionsInv, DaysAreKept
    <3>2. FormOf(promotions[b]).from = from /\ FormOf(promotions[b]).to = to
      BY <1>8, <3>1, DatesGoRound DEF FormOf
    <3>. QED BY <1>9, <2>2, <3>2
  <2>. QED BY <2>1, <2>2
<1>13. PICK w : w = RowOf(new)
  OBVIOUS
<1>14. w \in BannerRow /\ w.starts = StartOf(new.from) /\ w.ends = EndOf(new.to)
  BY <1>3, <1>13, RowsAndForms
<1>15. /\ promotions' \in BannerRows /\ promotions'[b] = w
       /\ \A c \in Banners \ {b} : promotions'[c] = promotions[c]
  BY <1>4, <1>6, <1>13, <1>14 DEF PromotionsInv, PromotionsTyped, BannerRows
<1>16. PICK p : p = [from |-> from2, to |-> to2]
  OBVIOUS
<1>17. p \in Promised /\ p.from = new.from /\ p.to = new.to
  BY <1>11, <1>12, <1>16 DEF Promised
<1>18. /\ promised' \in [Banners -> Promised] /\ promised'[b] = p
       /\ \A c \in Banners \ {b} : promised'[c] = promised[c]
  BY <1>6, <1>10, <1>16, <1>17 DEF PromotionsInv, PromotionsTyped
<1>19. DaysAreKept'
  BY <1>14, <1>15, <1>17, <1>18 DEF PromotionsInv, DaysAreKept
<1>20. /\ listing' \in BOOLEAN /\ missed' \in BOOLEAN /\ (listing' \/ missed')
       /\ editor' = NoEditor \/ editor' = editor
       /\ rendered' \in 0 .. clock
  BY <1>5, ClockIsNat DEF Closes, Renders, PromotionsInv, PromotionsTyped
<1>21. PromotionsTyped'
  BY <1>5, <1>15, <1>18, <1>20 DEF PromotionsInv, PromotionsTyped
<1>22. SlideOnScreen'
  BY <1>5 DEF PromotionsInv, SlideOnScreen, OnPlace
<1>. QED BY <1>19, <1>20, <1>21, <1>22 DEF PromotionsInv, ListIsCurrent

(* A banner is removed, or was not, and the list is read again.            *)
LEMMA RemoveBannerKeeps ==
  ASSUME PromotionsInv, editor.open, RemoveBanner
  PROVE  PromotionsInv'
<1>1. editor \in OpenForm
  BY DEF PromotionsInv, PromotionsTyped, NoEditor
<1>2. PICK b \in Banners : b = editor.id
  BY <1>1 DEF RemoveBanner, OpenForm
<1>3. /\ promotions' = promotions \/ promotions' = [promotions EXCEPT ![b] = Removed]
      /\ editor' = NoEditor /\ listing' = TRUE /\ rendered' \in 0 .. clock
      /\ UNCHANGED <<clock, listed, fetch, banners, place, slide, promised, missed>>
  BY <1>2, ClockIsNat DEF RemoveBanner, Renders, kiosk
<1>4. /\ promotions' \in BannerRows
      /\ \A c \in Banners : promotions'[c] = promotions[c] \/ promotions'[c] = Removed
  BY <1>3 DEF PromotionsInv, PromotionsTyped, BannerRows
<1>5. DaysAreKept'
  BY <1>3, <1>4, RowsAndForms DEF PromotionsInv, DaysAreKept
<1>6. PromotionsTyped'
  BY <1>3, <1>4 DEF PromotionsInv, PromotionsTyped
<1>7. SlideOnScreen'
  BY <1>3 DEF PromotionsInv, SlideOnScreen, OnPlace
<1>. QED BY <1>3, <1>5, <1>6, <1>7 DEF PromotionsInv, ListIsCurrent

(* The page and its form open and close, the list arrives, the page is     *)
(* drawn, time passes.                                                     *)
LEMMA PageKeeps ==
  ASSUME PromotionsInv,
         \/ OpenPage \/ ListArrives \/ Passes \/ CloseBanner \/ Redraw
         \/ \E b \in Banners : EditBanner(b)
         \/ UNCHANGED promotionVars
  PROVE  PromotionsInv'
<1>1. UNCHANGED <<promotions, fetch, banners, place, slide, promised>>
  BY DEF OpenPage, ListArrives, Passes, CloseBanner, Redraw, EditBanner, promotionVars, page, kiosk
<1>2. ASSUME clock' \in 0 .. 2 * Days - 1, rendered' \in 0 .. clock', listed' \in BannerRows, listing' \in BOOLEAN,
             missed' \in BOOLEAN, editor' = NoEditor \/ editor' \in OpenForm, ListIsCurrent'
      PROVE  PromotionsInv'
  BY <1>1, <1>2 DEF PromotionsInv, PromotionsTyped, DaysAreKept, SlideOnScreen, OnPlace
<1>3. /\ clock \in 0 .. 2 * Days - 1 /\ listed \in BannerRows /\ listing \in BOOLEAN
      /\ missed \in BOOLEAN
      /\ editor = NoEditor \/ editor \in OpenForm
      /\ promotions \in BannerRows /\ ListIsCurrent
      /\ clock \in 0 .. clock /\ rendered \in 0 .. clock
  BY ClockIsNat DEF PromotionsInv, PromotionsTyped
<1>4. CASE OpenPage
  <2>1. listing' = TRUE /\ rendered' = clock /\ UNCHANGED <<clock, listed, missed, editor>>
    BY <1>4 DEF OpenPage, Renders
  <2>. QED BY <1>2, <1>3, <2>1 DEF ListIsCurrent
<1>5. CASE ListArrives
  <2>1. /\ listing' = FALSE /\ rendered' = clock /\ UNCHANGED <<clock, editor>>
        /\ \/ listed' = promotions /\ missed' = FALSE
           \/ missed' = TRUE /\ listed' = listed
    BY <1>5 DEF ListArrives, Renders
  <2>. QED BY <1>1, <1>2, <1>3, <2>1 DEF ListIsCurrent
<1>6. CASE Passes
  <2>1. /\ clock' = clock + 1 /\ clock < 2 * Days - 1
        /\ UNCHANGED <<listed, listing, rendered, missed, editor>>
    BY <1>6 DEF Passes, page
  <2>2. clock' \in 0 .. 2 * Days - 1 /\ rendered' \in 0 .. clock'
    BY <1>3, <2>1, PromotionsAssumption
  <2>. QED BY <1>1, <1>2, <1>3, <2>1, <2>2 DEF ListIsCurrent
<1>7. CASE CloseBanner \/ Redraw
  <2>1. /\ editor' = NoEditor \/ editor' = editor
        /\ rendered' = clock /\ UNCHANGED <<clock, listed, listing, missed>>
    BY <1>7 DEF CloseBanner, Redraw, Renders
  <2>. QED BY <1>1, <1>2, <1>3, <2>1 DEF ListIsCurrent
<1>8. ASSUME NEW b \in Banners, EditBanner(b) PROVE PromotionsInv'
  <2>1. /\ rendered' = clock /\ UNCHANGED <<clock, listed, listing, missed>>
        /\ \/ listed[b].exists /\ editor' = [open |-> TRUE, id |-> b, form |-> FormOf(listed[b])]
           \/ editor' = [open |-> TRUE, id |-> 0, form |-> NewForm]
    BY <1>8 DEF EditBanner, Renders
  <2>2. listed[b].exists => FormOf(listed[b]) \in Form
    BY <1>3, RowsAndForms DEF BannerRows
  <2>a. PICK f \in Form, id \in Banners \cup {0} : editor' = [open |-> TRUE, id |-> id, form |-> f]
    BY <2>1, <2>2, RowsAndForms
  <2>3. editor' \in OpenForm
    BY <2>a DEF OpenForm
  <2>. QED BY <1>1, <1>2, <1>3, <2>1, <2>3 DEF ListIsCurrent
<1>9. CASE UNCHANGED promotionVars
  BY <1>2, <1>3, <1>9 DEF promotionVars, ListIsCurrent
<1>. QED BY <1>4, <1>5, <1>6, <1>7, <1>8, <1>9

-----------------------------------------------------------------------------
(* There are no banners.                                                   *)
LEMMA PromotionsStart == PromotionsInit => PromotionsInv
<1>. SUFFICES ASSUME PromotionsInit PROVE PromotionsInv
  OBVIOUS
<1>1. 0 \in 0 .. 2 * Days - 1 /\ 0 \in 0 .. 0
  BY PromotionsAssumption
<1>2. NoFetch.told = {} /\ {} \in Answers
  BY DEF NoFetch, Answers
<1>3. [from |-> NoDate, to |-> NoDate] \in Promised
  BY DEF Promised, Dates
<1>4. promotions \in BannerRows /\ listed \in BannerRows
  BY DEF PromotionsInit, BannerRows
<1>5. PromotionsTyped
  BY <1>1, <1>2, <1>3, <1>4 DEF PromotionsInit, PromotionsTyped
<1>6. DaysAreKept
  BY DEF PromotionsInit, DaysAreKept, NoBanner
<1>7. ListIsCurrent /\ SlideOnScreen
  BY DEF PromotionsInit, ListIsCurrent, SlideOnScreen, OnPlace
<1>. QED BY <1>5, <1>6, <1>7 DEF PromotionsInv

(* No step breaks the invariant ...                                        *)
LEMMA PromotionsStep == PromotionsInv /\ [PromotionsNext]_promotionVars => PromotionsInv'
<1>. SUFFICES ASSUME PromotionsInv, [PromotionsNext]_promotionVars PROVE PromotionsInv'
  OBVIOUS
<1>1. ASSUME editor.open,
             (\E new \in Filled(editor.form) : SaveBanner(new)) \/ RemoveBanner \/ CloseBanner
      PROVE  PromotionsInv'
  BY <1>1, SaveBannerKeeps, RemoveBannerKeeps, PageKeeps
<1>. QED BY <1>1, PageKeeps, KioskKeeps DEF PromotionsNext

(* ... which says what the runs check.                                     *)
LEMMA PromotionsSound == PromotionsInv => BannersAreTrue
  BY DaysAreLive, BadgesAgree DEF PromotionsInv, BannersAreTrue

-----------------------------------------------------------------------------
(***************************************************************************)
(* All four.                                                               *)
(***************************************************************************)
IInv == SettingsInv /\ AccessInv /\ CatalogInv /\ PromotionsInv

(* A step is one of the four areas'; the others stay as they are.          *)
LEMMA NextKeeps == IInv /\ [Next]_backOfficeVars => IInv'
<1>. SUFFICES ASSUME IInv, [Next]_backOfficeVars PROVE IInv'
  OBVIOUS
<1>1. /\ [CatalogNext]_catalogVars /\ [AccessNext]_accessVars
      /\ [SettingsNext]_settingsVars /\ [PromotionsNext]_promotionVars
  BY DEF Next, backOfficeVars
<1>. QED BY <1>1, SettingsStep, AccessStep, CatalogStep, PromotionsStep DEF IInv

(* Products, imports, rows of roles, requests, settings and banners stay   *)
(* what the code takes them to be.                                         *)
THEOREM Invariance == Spec => []IInv
<1>1. Init => IInv
  BY CatalogStart, AccessStart, SettingsStart, PromotionsStart DEF Init, IInv
<1>. QED BY <1>1, NextKeeps, PTL DEF Spec

(* What readers get of a setting was in force a moment ago.                *)
THEOREM SettingsStaySound == Spec => []SettingIsSound
<1>1. IInv => SettingIsSound
  BY SettingsSound DEF IInv
<1>. QED BY <1>1, Invariance, PTL

(* No request acts on what was over before it came in, or on what the page *)
(* or the token say: a device was let in by its token while it was active; *)
(* an employee was active, then or later had a role, and then or later     *)
(* that role gave the permission (AuthGuard, PermissionsGuard,             *)
(* DevicesService.verify).                                                 *)
THEOREM OnlyTheAllowed == Spec => []EffectsWereAllowed
<1>1. IInv => EffectsWereAllowed
  BY AccessSound DEF IInv
<1>. QED BY <1>1, Invariance, PTL

(* However saves of a role overlap, its permissions are what they asked    *)
(* for (UsersService.updateRole).                                          *)
THEOREM RolesAreSaved == Spec => []RoleSavesTakeEffect
<1>1. IInv => RoleSavesTakeEffect
  BY AccessSound DEF IInv
<1>. QED BY <1>1, Invariance, PTL

(* An import's status is true and operators' data is left alone            *)
(* (CatalogImportService.commit).                                          *)
THEOREM ImportsKeepTheirWord == Spec => []ImportKeepsItsWord
<1>1. IInv => ImportKeepsItsWord
  BY CatalogSound DEF IInv
<1>. QED BY <1>1, Invariance, PTL

(* An order is priced with an override, or a base price without one, that  *)
(* were in force while it was served, if not both at once; and what the    *)
(* catalog offered is refused only if it was changed (createOrder).        *)
THEOREM AnswersAreCurrent == Spec => []OrderIsCurrent
<1>1. IInv => OrderIsCurrent
  BY CatalogSound DEF IInv
<1>. QED BY <1>1, Invariance, PTL

(* Banners are live on the days that were entered for them, but for the    *)
(* last second; their badges say so unless a first or last second has      *)
(* passed since the page was drawn; and one of them is on the screen       *)
(* (PromotionsService, PromotionsPage, promo.tsx).                         *)
THEOREM BannersStayTrue == Spec => []BannersAreTrue
<1>1. IInv => BannersAreTrue
  BY PromotionsSound DEF IInv
<1>. QED BY <1>1, Invariance, PTL
=============================================================================
