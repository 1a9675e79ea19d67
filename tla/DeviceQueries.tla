--------------------------- MODULE DeviceQueries ----------------------------
(***************************************************************************)
(* src/src/device_db_manager/device_db_manager.cpp: the queries that list  *)
(* and count the rows of device_presence, as operators on a table.  Ids    *)
(* are numbers, which gives them their order.  The duration columns of a   *)
(* row are one number, total, and its rows in remote_control_sessions are  *)
(* the numbers control (as guest) and controlled (as host).  A search text *)
(* is the set of the ids that contain it.                                  *)
(***************************************************************************)
EXTENDS Naturals, FiniteSets, Sequences

CONSTANTS
  Pcs, Webs, Clones,  \* ids without prefix, "web-" and "C-" ids
  Word                \* 2^63, the first value of size_t that int64_t has not

Ids == Pcs \cup Webs \cup Clones

ASSUME QueriesAssumption == Ids \subseteq Nat /\ IsFiniteSet(Ids) /\ Word \in Nat \ {0}

\* The contents that device_presence may have.
DeviceTables ==
  [Ids -> [online : BOOLEAN, updated : Nat, total : Nat, control : Nat, controlled : Nat]]

Filters == {"all", "online", "offline", "active", "web"}
Kinds == {"pc", "web", "all"}
Sorts == {"status", "device_id", "total", "active_sessions", "updated_at"}
Orders == {"asc", "desc"}

-----------------------------------------------------------------------------
(* Clauses.                                                                *)

DevicePresenceKindClause(kind) ==
  CASE kind = "web" -> Webs
    [] kind = "all" -> Ids \ Clones
    [] kind = "pc"  -> Ids \ (Webs \cup Clones)

\* EXISTS (SELECT 1 FROM remote_control_sessions ...)
HasSession(row) == row.control > 0 \/ row.controlled > 0

\* The filter "web" overrides the kind.
DevicePresenceFilterClause(table, filter, kind) ==
  CASE filter = "web" -> Webs
    [] filter = "all" -> DevicePresenceKindClause(kind)
    [] filter = "online" -> {d \in DevicePresenceKindClause(kind) : table[d].online}
    [] filter = "offline" -> {d \in DevicePresenceKindClause(kind) : ~table[d].online}
    [] filter = "active" -> {d \in DevicePresenceKindClause(kind) : HasSession(table[d])}

Bit(b) == IF b THEN 1 ELSE 0

\* Is the row of d listed before that of e?  Keys are pairs of the values of d
\* and of e, the most significant first.
Precedes(keys) ==
  \E i \in DOMAIN keys :
    /\ keys[i][1] < keys[i][2]
    /\ \A j \in 1..i - 1 : keys[j][1] = keys[j][2]

Ascending(x, y) == <<x, y>>
Descending(x, y) == <<y, x>>

\* The clauses that every sort ends with: online DESC, updated_at DESC, id ASC.
LastKeys(table, d, e) ==
  <<Descending(Bit(table[d].online), Bit(table[e].online)),
    Descending(table[d].updated, table[e].updated),
    Ascending(d, e)>>

SortColumn(table, sort, d) ==
  CASE sort = "status" -> Bit(table[d].online)
    [] sort = "device_id" -> d
    [] sort = "total" -> table[d].total
    [] sort = "active_sessions" -> table[d].control
    [] sort = "updated_at" -> table[d].updated

DevicePresenceSortClause(table, sort, order, d, e) ==
  LET x == SortColumn(table, sort, d)
      y == SortColumn(table, sort, e) IN
  Precedes(<<IF order = "asc" THEN Ascending(x, y) ELSE Descending(x, y)>>
           \o LastKeys(table, d, e))

\* ORDER BY, as the pairs of ids that it puts in their order.
RowOrder(table, sort, order) ==
  {p \in Ids \X Ids : DevicePresenceSortClause(table, sort, order, p[1], p[2])}

-----------------------------------------------------------------------------
(* Queries.                                                                *)

Selected(table, search, filter, kind) ==
  DevicePresenceFilterClause(table, filter, kind) \cap search

\* S in the order R: the place of an element is how many come before it.
InOrder(S, R) ==
  [i \in 1..Cardinality(S) |->
     CHOOSE d \in S : Cardinality({e \in S : <<e, d>> \in R}) = i - 1]

\* LIMIT and OFFSET are bound as int64_t; a negative offset is none.
SqlPage(rows, limit, offset) ==
  LET first == IF offset >= Word THEN 0 ELSE offset IN
  SubSeq(rows, first + 1, IF first + limit < Len(rows) THEN first + limit ELSE Len(rows))

ListDevicePresence(table, limit, offset, search, filter, sort, order, kind) ==
  SqlPage(InOrder(Selected(table, search, filter, kind), RowOrder(table, sort, order)),
          limit, offset)

\* Mutant: the number of active rows is that of the controlled ones.
CountDevicePresenceByFilters_Controlled(table, search, kind) ==
  LET n(S) == Cardinality(S \cap search)
      ofKind == DevicePresenceKindClause(kind) IN
  [all |-> n(ofKind),
   online |-> n({d \in ofKind : table[d].online}),
   offline |-> n({d \in ofKind : ~table[d].online}),
   active |-> n({d \in ofKind : table[d].controlled > 0}),
   web |-> n(Webs)]

CountDevicePresenceByFilters(table, search, kind) ==
  LET n(S) == Cardinality(S \cap search)
      ofKind == DevicePresenceKindClause(kind) IN
  [all |-> n(ofKind),
   online |-> n({d \in ofKind : table[d].online}),
   offline |-> n({d \in ofKind : ~table[d].online}),
   active |-> n({d \in ofKind : HasSession(table[d])}),
   web |-> n(Webs)]
=============================================================================
