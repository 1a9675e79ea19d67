--------------------------- MODULE AdminOverview ----------------------------
(***************************************************************************)
(* src/src/admin/admin_controller.cpp, HandleOverview: a page of the list  *)
(* of devices, in an order and of a size that the request chooses.  The    *)
(* handler counts the rows, lists them, and, if they are to be ordered by  *)
(* what is known of their location, asks the presence manager for each and *)
(* sorts and cuts the list itself.  Each of these calls has a critical     *)
(* section of its own.  The alive checker and the address worker go on     *)
(* meanwhile: sessions end, devices leave, and locations come and go.       *)
(***************************************************************************)
EXTENDS DeviceQueries, Integers

CONSTANTS
  Tables,            \* bound: contents of device_presence to begin with
  PageRequests,      \* bound: what the dashboard asks for
  DefaultPageLimit,  \* kDefaultPageLimit
  MaxPageLimit,      \* kMaxPageLimit
  MaxLeaving         \* bound on the devices that leave during a request

\* What a request of the dashboard may contain; its numbers are the digits that
\* write them, and a parameter without digits is missing.
Requested ==
  [filter : Filters, kind : Kinds, sort : Sorts \cup {"location"}, order : Orders,
   limit : Seq(0..9), offset : Seq(0..9), search : SUBSET Ids]

ASSUME OverviewAssumption ==
  /\ Tables \subseteq DeviceTables /\ PageRequests \subseteq Requested
  /\ DefaultPageLimit \in Nat /\ MaxPageLimit \in Nat /\ MaxLeaving \in Nat

\* A size_t is below twice Word.
SizeMax == 2 * Word - 1

VARIABLES
  table,    \* device_presence
  located,  \* the devices for which the presence manager has a location
  request,  \* the request that is being handled
  stage,    \* how far HandleOverview has come
  total,    \* devices_total
  rows,     \* device_rows: the ids,
  listed,   \* and the table that they were read from
  known,    \* known_location_cache, by id
  compared, \* history: the pairs that std::sort was told are in order
  left      \* history: the devices that timed out since the rows were counted

overviewVars == <<table, located, request, stage, total, rows, listed, known, compared, left>>

OverviewTypeOK ==
  /\ table \in DeviceTables /\ listed \in DeviceTables
  /\ located \subseteq Ids
  /\ request \in PageRequests
  /\ stage \in {"start", "list", "sort", "done"}
  /\ total \in 0..Cardinality(Ids)
  /\ rows \in Seq(Ids) /\ \A i, j \in DOMAIN rows : rows[i] = rows[j] => i = j
  /\ known \in [Ids -> {"yes", "no", "unasked"}]
  /\ compared \subseteq Ids \X Ids
  /\ left \subseteq Ids

OverviewInit ==
  /\ table \in Tables /\ located \in SUBSET {d \in Ids : table[d].online}
  /\ request \in PageRequests /\ stage = "start"
  /\ total = 0 /\ rows = <<>> /\ listed = table
  /\ known = [d \in Ids |-> "unasked"] /\ compared = {} /\ left = {}

-----------------------------------------------------------------------------
(* The parameters of a request.                                            *)

\* Mutant: the test for the overflow forgets the digit that is added.
ParseSize_Wraps(digits) ==
  LET parsed[n \in 0..Len(digits)] ==
        IF n = 0 THEN 0
        ELSE IF parsed[n - 1] = -1 \/ parsed[n - 1] > SizeMax \div 10 THEN -1
        ELSE (parsed[n - 1] * 10 + digits[n]) % (SizeMax + 1) IN
  parsed[Len(digits)]

\* The number that the digits write, or -1 if it is no size_t.  What has been
\* parsed after n digits:
ParseSize(digits) ==
  LET parsed[n \in 0..Len(digits)] ==
        IF n = 0 THEN 0
        ELSE IF parsed[n - 1] = -1 \/ parsed[n - 1] > (SizeMax - digits[n]) \div 10 THEN -1
        ELSE (parsed[n - 1] * 10 + digits[n]) % (SizeMax + 1) IN
  parsed[Len(digits)]

\* The parameter is missing if it has no digits.
QuerySizeParam(digits, fallback, max) ==
  LET value == ParseSize(digits) IN
  IF digits = <<>> \/ value = -1 THEN fallback
  ELSE IF value < max THEN value ELSE max

Limit == QuerySizeParam(request.limit, DefaultPageLimit, MaxPageLimit)
Offset == QuerySizeParam(request.offset, 0, SizeMax)
IsLocationSort == request.sort = "location"

-----------------------------------------------------------------------------
(* HandleOverview.                                                         *)

CountForDeviceFilter(counts, filter) == counts[filter]

OverviewCount ==
  /\ stage = "start"
  /\ total' = CountForDeviceFilter(
                CountDevicePresenceByFilters(table, request.search, request.kind),
                request.filter)
  /\ stage' = "list"
  /\ UNCHANGED <<table, located, request, rows, listed, known, compared, left>>

ListRows(limit, offset, sort) ==
  ListDevicePresence(table, limit, offset, request.search, request.filter,
                     sort, request.order, request.kind)

\* Mutant: one page of rows is read and then sorted by location.
OverviewList_PageOnly ==
  /\ stage = "list"
  /\ rows' = ListRows(Limit, Offset, IF IsLocationSort THEN "status" ELSE request.sort)
  /\ listed' = table
  /\ stage' = IF IsLocationSort THEN "sort" ELSE "done"
  /\ UNCHANGED <<table, located, request, total, known, compared, left>>

\* A list that is sorted by location is read whole, as long as it was counted.
OverviewList ==
  /\ stage = "list"
  /\ rows' = IF IsLocationSort THEN ListRows(total, 0, "status")
             ELSE ListRows(Limit, Offset, request.sort)
  /\ listed' = table
  /\ stage' = IF IsLocationSort THEN "sort" ELSE "done"
  /\ UNCHANGED <<table, located, request, total, known, compared, left>>

\* The presence manager is asked only for rows that were online when listed.
HasDisplayedLocation(d) == IF listed[d].online /\ d \in located THEN "yes" ELSE "no"

\* The location is looked up when a row is first compared, under a lock that
\* is not held from one comparison to the next.
LookUpLocation(d) ==
  /\ stage = "sort" /\ known[d] = "unasked"
  /\ \E i \in DOMAIN rows : rows[i] = d
  /\ known' = [known EXCEPT ![d] = HasDisplayedLocation(d)]
  /\ UNCHANGED <<table, located, request, stage, total, rows, listed, compared, left>>

LocationPrecedes(d, e, knownD, knownE) ==
  LET x == Bit(knownD = "yes")
      y == Bit(knownE = "yes") IN
  Precedes(<<IF request.order = "asc" THEN Ascending(x, y) ELSE Descending(x, y)>>
           \o LastKeys(listed, d, e))

\* Mutant: every comparison asks for the locations again.
CompareRows_NoCache(d, e) ==
  /\ stage = "sort" /\ known[d] # "unasked" /\ known[e] # "unasked"
  /\ LocationPrecedes(d, e, HasDisplayedLocation(d), HasDisplayedLocation(e))
  /\ compared' = compared \cup {<<d, e>>}
  /\ UNCHANGED <<table, located, request, stage, total, rows, listed, known, left>>

\* std::sort compares whichever rows it likes, in any order.
CompareRows(d, e) ==
  /\ stage = "sort" /\ known[d] # "unasked" /\ known[e] # "unasked"
  /\ LocationPrecedes(d, e, known[d], known[e])
  /\ compared' = compared \cup {<<d, e>>}
  /\ UNCHANGED <<table, located, request, stage, total, rows, listed, known, left>>

ApplyDevicePage(sorted, offset, limit) ==
  IF offset >= Len(sorted) THEN <<>>
  ELSE LET available == Len(sorted) - offset IN
       SubSeq(sorted, offset + 1, offset + (IF limit < available THEN limit ELSE available))

OverviewPage ==
  LET ids == {rows[i] : i \in DOMAIN rows} IN
  /\ stage = "sort"
  /\ \A d, e \in ids : d # e => {<<d, e>>, <<e, d>>} \cap compared # {}
  /\ rows' = ApplyDevicePage(InOrder(ids, compared), Offset, Limit)
  /\ stage' = "done"
  /\ UNCHANGED <<table, located, request, total, listed, known, compared, left>>

-----------------------------------------------------------------------------
(* The other threads.  A device that logs in has to wait for the handler.   *)

\* A device, or a clone of it, times out: its sessions are deleted one by one.  The
\* time that they took is in the total already.
EndSession(d, guest, host) ==
  /\ stage \in {"list", "sort"} /\ Cardinality(left \cup {d}) <= MaxLeaving
  /\ d \in {guest, host} /\ table[guest].control > 0 /\ table[host].controlled > 0
  /\ table' = [table EXCEPT ![guest].control = @ - 1, ![host].controlled = @ - 1]
  /\ left' = left \cup {d}
  /\ UNCHANGED <<located, request, stage, total, rows, listed, known, compared>>

\* Then SetDeviceOnline stores it as offline.
Leave(d) ==
  /\ stage \in {"list", "sort"} /\ Cardinality(left \cup {d}) <= MaxLeaving
  /\ table[d].online
  /\ table' = [table EXCEPT ![d].online = FALSE, ![d].updated = @ + 1]
  /\ left' = left \cup {d}
  /\ UNCHANGED <<located, request, stage, total, rows, listed, known, compared>>

\* Then its address entry is erased.
Forget(d) ==
  /\ d \in located /\ ~table[d].online
  /\ located' = located \ {d}
  /\ UNCHANGED <<table, request, stage, total, rows, listed, known, compared, left>>

\* The worker has resolved the address of d.  What it resolves before the sort
\* is in the initial states.
Locate(d) ==
  /\ stage = "sort" /\ d \notin located /\ table[d].online
  /\ located' = located \cup {d}
  /\ UNCHANGED <<table, request, stage, total, rows, listed, known, compared, left>>

OverviewNext ==
  \/ OverviewCount
  \/ OverviewList
  \/ \E d \in Ids : LookUpLocation(d)
  \/ \E d, e \in Ids : CompareRows(d, e)
  \/ OverviewPage
  \/ \E d, guest, host \in Ids : EndSession(d, guest, host)
  \/ \E d \in Ids : Leave(d)
  \/ \E d \in Ids : Forget(d)
  \/ \E d \in Ids : Locate(d)

OverviewSpec == OverviewInit /\ [][OverviewNext]_overviewVars

-----------------------------------------------------------------------------
(* Properties.                                                             *)

\* R, a set of pairs, orders S strictly and totally.
StrictlyOrders(R, S) ==
  /\ \A d \in S : <<d, d>> \notin R
  /\ \A d, e, f \in S : <<d, e>> \in R /\ <<e, f>> \in R => <<d, f>> \in R
  /\ \A d, e \in S : d # e => <<d, e>> \in R \/ <<e, d>> \in R

\* Every order of the list is strict and total, so that the pages which two
\* requests get of one table never repeat or skip a device.
PagesAreStable ==
  stage = "list" =>
    \A sort \in Sorts, order \in Orders : StrictlyOrders(RowOrder(table, sort, order), Ids)

\* The total that the dashboard pages by is the length of the list, for every
\* filter and kind, and a device is either online or offline.
CountsMatchList ==
  stage = "list" =>
    \A kind \in Kinds, search \in {Ids, request.search} :
      LET counts == CountDevicePresenceByFilters(table, search, kind) IN
      /\ counts.all = counts.online + counts.offline
      /\ \A filter \in Filters :
           CountForDeviceFilter(counts, filter) =
             Len(ListDevicePresence(table, Cardinality(Ids), 0, search, filter,
                                    "status", "desc", kind))

\* What the pages are cut from: an order that no page depends on, and a length
\* that every count agrees with.
ListsAreConsistent == PagesAreStable /\ CountsMatchList

\* If no device times out meanwhile, the total that is reported tells how long the
\* page is.  An offset from Word on is taken for 0 unless the list is sorted by
\* location: the database is given a negative number.
PageMatchesTotal ==
  stage = "done" /\ left = {} =>
    LET offset == IF Offset >= Word /\ ~IsLocationSort THEN 0 ELSE Offset
        rest == IF offset < total THEN total - offset ELSE 0 IN
    Len(rows) = IF Limit < rest THEN Limit ELSE rest

LocationOrder == {p \in Ids \X Ids : LocationPrecedes(p[1], p[2], known[p[1]], known[p[2]])}

\* A page is in the order that was asked for: that of ORDER BY, or that of the
\* locations as they were when each was looked up.
PageIsInOrder ==
  stage = "done" =>
    LET R == IF IsLocationSort THEN LocationOrder
             ELSE RowOrder(listed, request.sort, request.order) IN
    \A i, j \in DOMAIN rows : i < j => <<rows[i], rows[j]>> \in R

\* What the dashboard shows of the list is as long, and in the order, as it says.
PagesAreRight == PageMatchesTotal /\ PageIsInOrder

\* While locations come and go, what std::sort is told remains a strict order:
\* with any other its behaviour would be undefined.
LocationOrderIsStrict ==
  stage = "sort" => \A d, e, f \in Ids :
    /\ <<d, e>> \in compared => <<e, d>> \notin compared
    /\ <<d, e>> \in compared /\ <<e, f>> \in compared => <<f, d>> \notin compared

Value(digits) ==
  LET upTo[n \in 0..Len(digits)] == IF n = 0 THEN 0 ELSE 10 * upTo[n - 1] + digits[n] IN
  upTo[Len(digits)]

\* A number is taken for what it is if it fits a size_t, and rejected if not.
ParseSizeIsExact ==
  stage = "list" => \A n \in 1..3 : \A digits \in [1..n -> {0, 1, 5, 6}] :
    ParseSize(digits) = IF Value(digits) <= SizeMax THEN Value(digits) ELSE -1
=============================================================================
