# Verification of the CrossDesk server

TLA+ modules, TLC configurations and TLAPS proofs about the signalling server in
`src/src/`: who is connected, who controls whom, what the database remembers of
it, and what the threads of the process may do to each other.

Contents: 1 the system · 2 modules · 3 runs · 4 proofs · 5 disagreements ·
6 what is not modelled · 7 plan

---

## 1. The system

The process is one `SignalServer`. Its **event loop** (`server_.run()`, one asio
thread) runs one handler at a time: websocket messages, opens, closes and
failures, pings, admin HTTP requests and timers (a heartbeat to the database, a
one-shot clean-up 120 s after the start). The **alive checker**, a thread of the
transmission manager, wakes every ten seconds and expires the connections that have
been silent for ten seconds. The **address worker** looks up where client
addresses are.

| Component | State | Operations | Talks to |
|---|---|---|---|
| Transmission manager (`transmission_manager.cpp`) | user ↔ handle maps, last-active times, host and guests of each transmission; one mutex for all of it | bind user / host / guest, release, disconnect, prune, expire, heartbeat | calls back into the server: session rows (`remote_control_session_callback_`) and timeouts |
| Signal server (`signal_server.cpp`, `signal_negotiation.cpp`) | open connections, connection addresses, timers | login, join, leave, presence request, ping, open, close, fail, timeouts, restore at start | all others |
| Presence manager (`presence_manager.cpp`) | online devices and web clients, address entries, watch lists; one mutex for each | OnLogin, OnLogout, UpdateUserDevices, address entries, counts | database, transmission manager (to send updates) |
| Device database (`device_db_manager.cpp`, SQLite) | `devices`, `device_presence`, `remote_control_sessions`, `server_runtime` | registration and password check, online/offline, start/end of a session, runtime heartbeat, recovery in `InitDB`, queries | – |
| Address lookups (`signal_server.cpp`, `geo_location_resolver.cpp`) | job queue, pending set, failure counts, result cache | enqueue, process, retry with backoff, stop | presence manager, an HTTP service |
| Password changes (`signal_negotiation.cpp`) | results of the last 4096 requests | change_password with replay of a result | database |
| Messages about transmissions (`signal_negotiation.cpp`) | none of their own | join, offer, answer, candidates, leave, ICE configuration | transmission manager (members, routing) |
| Admin (`admin_auth.cpp`, `admin_controller.cpp`) | session tokens | login, logout, overview, statistics, disconnect | all managers |
| TURN credentials, common, log, `main.cpp`, dashboard files, packaging | none that the protocol depends on | – | – |

**Names.** Device ids beginning with `web-` are browsers: they are registered
afresh at each login and their registration is removed when they go. Ids
beginning with `C-` are clones, second control connections of a device: they are
never registered or counted as online devices, and their control time is
credited to the id without the prefix. The login is wider than that: it skips the
registration of every id that *contains* `C-` (`signal_negotiation.cpp:132`), while the
presence manager only tests the beginning. `Clones` and `Marked` tell the two apart. The empty id is
no device's, but it can be a guest's (5, `empty_guest_id`). A transmission has the id of the device
that hosts it, since the server only calls `BindHostToTransmission(id, id)`.

**What is hard.** A device may have several websocket connections at once; they
time out, close and log in again in any order, and only the end of the last one
may end its sessions. The manager's methods are atomic, but a handler makes
several calls, and the alive checker comes in between. The checker holds the
manager's mutex for a whole sweep, callbacks included, while the presence
manager and the database have locks of their own, so the loop can be stopped
half-way through a login while the other half is undone. Every start and end of
a session reaches the database through a callback; after a crash memory is
rebuilt from those rows alone. `InitDB` runs several statements, each committed
by itself. The address worker releases its lock while it resolves.

**What makes each part correct.** Manager: the maps agree with each other, the
watchdog covers every session, nobody takes part in a transmission after the
last session has gone, a duplicate connection never ends anything. Database
rows: exactly the sessions in memory of guests that have an id. Presence: online if and only if connected,
once no handler is under way, but for overlaps that section 5 names. Durations: no second lost that a heartbeat saw, no
second counted twice, through any crash. Addresses: an address has at most one
lookup, always one while it needs one, and none once nobody uses it. Passwords:
a device that sends its change again until it is answered always knows its own
password. Notifications: whoever subscribed to a device hears of its last change.
Messages: whoever takes part in a transmission hears of its end, and the credentials in
an offer or the announcement of a join go from a member to a member (those in the answers to
`login` and `turn_credentials` go to whoever has logged in). Dashboard: a session ends when it should and stays
ended; a total, the list it counts and the pages of that list agree.

`PROJECT.json` lists every component and every hazard with its source line and
the properties that cover it.

---

## 2. The modules

Definitions have the names of the C++ functions they translate; the map in
`PROJECT.json` gives the lines. An operator called `X_Something` next to `X` is
a plausible bug in `X`; the project's mutation runs put it in the place of `X`
to confirm that a property notices.

| Module | What it is |
|---|---|
| `TransmissionManager` | `transmission_manager.cpp` with the session rows and the restart |
| `ControlSessions` | what the manager promises: sessions, open transmissions, who controls what |
| `TransmissionManagerProofs` | the inductive invariant and the theorems about the manager; the proof that it implements that promise |
| `SignalServer`, `SignalServerProofs` | both threads as sequences of critical sections, using `TransmissionManager` through `INSTANCE`; the proof that they use it by its specification, and of the server's invariants |
| `ControlDurations`, `ControlDurationsProofs` | durations in the database, heartbeat, crash, `InitDB` statement by statement; proofs of its invariants |
| `GeoLookup`, `GeoLookupProofs` | address entries, lookup queue and worker; proofs of its invariants |
| `PasswordChange`, `PasswordChangeProofs` | `change_password` with its cache of results, and clients that retry; proofs of its invariants |
| `PresenceNotify`, `PresenceNotifyProofs` | subscriptions, `presence_update`s and answers, lock by lock; proofs of its invariants |
| `TransmissionMessages`, `TransmissionMessagesProofs` | joins, offers, relayed messages, leaves and the administrator's disconnect: who is told; proofs of its invariants |
| `AdminAuth` | the sessions of the dashboard |
| `DeviceQueries` | filters, orders, counts and pages of `device_presence`, as operators on a table |
| `AdminOverview` | `HandleOverview`: one page of devices while the other threads go on |
| `Requests`, `RequestsProofs` | `AdminAuth`, `AdminOverview` and `TransmissionMessages` side by side, one of which runs; proofs about the dashboard's sessions and list, and that the three components keep their specifications |
| `MC…` and `*.cfg` | instances for TLC |

### TransmissionManager
Each public method takes `ws_hdl_alive_checker_mutex_` in its first line and
keeps it to its last, so one method is one action. The five maps are
`host`, `guests`, `wsHdl`, `wsUser` and `lastActive`, total functions with
`NoUser`, `NoHandle`, `{}` or `"none"` where the C++ map has no entry. A last-active time is
reduced to what line 481 asks of it: fresh (up to ten seconds) or idle.
The callback `remote_control_session_callback_` is called under the mutex, so
its effect on the table `remote_control_sessions` (`row`) is part of the action.
Map iteration where the code takes the first match (the handle that inherits
the routing entry, the first hosted transmission) is a choice. `Restart` is
the death of the process together with what `InitDB` and
`RestorePersistedRemoteControlSessions` do; its parameter says whether the
outage was short enough for the rows to be kept. It comes between two methods: a
death between two callbacks of one method is not modelled (6).
Guest ids range over `Ids`, the devices and the empty id: `BindGuestToTransmission` takes any, and
`StartSession` refuses a row without a guest, as the database does.

`Reidentify` says whether a connection that has a session may log in under
another id. The code allows it; the bundled clients do not do it. Properties that
are false with it are stated for connections that keep their identity, and run
`reidentify` shows what happens otherwise.

### SignalServer
`task[thread]` is the next critical section of a handler, with the handle and
ids it has read so far. `LockFree` is the manager's mutex: a sweep of the alive
checker holds it over the timeout callbacks (`SweepBegin`, then for each due
handle `SweepExpire`, the steps of `OnLogout`, `OnWebClientDisconnect` and
`SweepClose`), so actions of the loop that call the manager wait for it, and
those that call the presence manager or the database do not. The order of the logout steps
differs between `OnClose` and `OnSessionTimeout`, as it does in the code. Calls
whose separation nothing can observe are one action; each such case says why.
`MayOverlap` and `MayStall` select how hostile the schedule is: may a sweep overlap a handler, may ten seconds pass during a handler. A join names the user of its connection, which is
the empty id on one that has not logged in.
`raced` is a history: which sections the loop was about to run for a device when a sweep ended the last session of that
device, until it logs in again. The properties of the form *presented ⇒ connected* use it to name their exceptions exactly. A browser id is
handed out once (`AddDevice` generates it), so `Webs` ids log in only when they are not registered.

### ControlDurations
`startedAt` is the table of sessions, `control`, `controlled`, `since` and
`onlineTotal` the columns of `device_presence`. `stage` is the next statement of
`InitDB`: `Boot` (read the last heartbeat, decide by the recovery window),
`FinalizeStaleSessions`, `DeleteStaleSessions`, `ResetPresence`, heartbeat, up.
`Crash` may strike between any two. `lived` and `seen` are ghosts: how long each
session has really existed, and the totals reported at the last heartbeat.

### GeoLookup
The queue is a sequence ordered by due time, a time being what is left until it
comes. The critical sections of `ProcessGeoIpLookup` are separate actions, since
it takes the queue's mutex and the presence manager's one in turn: `CheckPending`,
`CheckInUse`, `ResolveWithRetryInfo`, `CheckStillInUse`, then `ForgetResolved`
and `UpdateDevicesWithClientIp`, or `CountFailure`, `CheckRetry` and `Retry`,
or `Drop`. `SetDeviceNetworkInfo` and `QueueLookup` are the two halves of
`EnqueueClientNetworkInfo`. Assumed: lookups are enabled and the retry delay is positive.
An address that `SignalServer` calls a member of `network` is an `address` here;
the two modules do not share state beyond that.

### PasswordChange
`change_password` holds `password_change_mutex_` from the look-up to the eviction, so
it is one action per outcome: `NotAuthenticated`, `NotAllowed`, `Replay`, `IdUsed`,
`UpdateFails`, `UpdatePassword`. `results` is the map, `order` the deque, `Capacity`
the 4096. A password is a value; fingerprint and salted hash only tell values
apart. Every request that was ever sent (`sent`) may arrive again at any time, answers on a
connection that ends are lost, and a restart forgets the results but not the passwords. The clients are
external: a careful one has one change pending at a time, each under a fresh
id, and logs in with the password that was confirmed last or with the pending one; a
careless one uses ids again. `age`, `applied` and `lost` are histories: how many
changes ago a key was executed, what was executed, and of whose changes the result was forgotten.

### PresenceNotify
A task of either thread holds what it has read: the device, its new state, the
watchers. `NotifyWatchers`, `NotifyFilter`, `NotifySend` are the three critical sections
of `NotifyUserDevices`; the answer to `recent_connections_presence` is `PresenceRequest`,
`UpdateUserDevices`, `BatchQuery`, `Answer`. The checker holds the manager's mutex from a
device's timeout to its last message, so `GetWsHandle` in the loop waits, while the
answer, which goes to the handle of the request, does not. `asked` is what the client of a watcher
wants, `word` what it was told last; `told`, `stale`, `raced` and `crossed` are histories. Nothing keeps the two
threads off the same device: the checker may time out the device whose login or request the loop is at.

### TransmissionMessages
The roster of the manager (connections, routes, hosts, guests) and the session rows, and one
`job` of the event loop with what it has read. A join is `JoinRequest`, `LookUpRoute`, `SenderCheck`,
`JoinBindGuest`, `SendMsg`; an offer checks members and sender and looks up the
receiver before it sends. Both compare the user that the message names with the user of its connection,
and both are empty on a connection that has not logged in. `Relay` stands for answers and candidates, for which the code
checks nothing. A leave and the administrator's disconnect read the members once and then
look up and send one by one; the sweep may come in between. Statements that end or start rows may fail
(`MaxFailures`), as the code ignores their results; `Restart` resurrects what
such failures left behind. `SendMsg` takes no lock: a connection that a sweep has expired
but not yet closed still gets the message. The module keeps its own small copy of the manager's state
because it has no use for last-active times, and `TransmissionManager` no use for failures;
`leave_transmission` is modelled as it is, without a check that the sender is
the user it names, and takes a guest out of every transmission while it tells the members of one.

### AdminAuth
One action per request, since requests are handled by the event loop one by one.
`expiry` is `sessions_`; the clock is the system clock and may be set back.
`lifetime` is a ghost: the time that really passed since a login, up to the time to live.

### DeviceQueries and AdminOverview
The SQL of `ListDevicePresence` and `CountDevicePresenceByFilters` as operators on a
table; ids are numbers, which gives them an order, and a search is the set of ids it matches. `Word`
stands for 2^63: offsets from there on become negative in the statement. `HandleOverview` is
three steps (count, list, and for the location order sort and cut), with `LookUpLocation` and
`CompareRows` in whatever order `std::sort` likes, while devices leave (`EndSession` for each of their sessions, `Leave`, `Forget`)
and the worker finds locations (`Locate`). A list is its set of rows put in an order that is given as a set of
pairs (`RowOrder`, or what `std::sort` was told, `compared`): the place of a row is how many come before it (`InOrder`).
The handler may only read a row's location once, so `known` keeps it, and `LocationOrder` is the order by what is known.

---

## 3. What TLC checks

| Run | Instance | Shows |
|---|---|---|
| `transmission_manager` | 3 devices, the empty id, 3 handles, identities kept | `TransmissionsInv` (types, `TransmissionsWellFormed`), `SessionRowsMirrorGuests`, `WatchdogCoversSessions`, `ConnectedIsRoutable` in any order of calls, timeouts and restarts; `FinalReleaseLeavesNothing`, `DuplicateCloseKeepsHosting` of every step; refinement of `ControlSessions` |
| `reidentify` (violation) | 2 devices, 2 handles, identities may change | `FinalReleaseLeavesNothing` fails, see 5 |
| `server_overlap` | device, browser, 2 connections, 1 restart; sweeps overlap handlers, handlers stall | types; a connected device is presented (online in memory and database, address entry) and registered; browsers' registrations end; online marks, address entries, watch lists and memberships outlive no session but in the races that the properties name |
| `server_live` | device, its clone, 2 connections, 1 restart, sweeps between handlers, fair | silent connections are closed; restored sessions end; the server makes only steps of `TransmissionManager` |
| `ghost_online` (violation) | device, browser, 2 connections; sweeps overlap handlers | `OnlineIsConnected` fails, see 5 |
| `empty_guest_id` (violation) | a device, 2 connections; sweeps between handlers | `GuestsAreNamed` fails, see 5 |
| `durations` | hosts a; b and its clone control it; deaths at any time, one of them inside `InitDB` | types and `ControlBalances` (`TablesInv`), `TotalsSurvive`; `CreditedTimeIsReal` as long as no death is inside `InitDB` |
| `durations_twice` (violation) | one pair, one death inside `InitDB` | `CreditedOnce` fails, see 5 |
| `geo_lookup` | 2 devices, 2 addresses, a queue for one job, delays 1, 2, 3 | `QueueInv` (types, the deduplication is exact, the stop empties the queue), `LookupsGoOn`; `RetriesStop` under fairness |
| `password_change` | a careful device with three requests, a careless one with two under one id, 2 remembered results, 1 restart | `ResultsInv` (exactly the last changes are remembered), `SuccessWasExecuted`, `NobodyIsLockedOut`; `ChangesEnd` under fairness |
| `presence_notify` | two watchers, one of them watched, and a device | `NotifyInv` (no change is missed), `LastWordIsTrue`; `HandlersEnd` under fairness |
| `requests` | one of three components per behaviour: 2 tokens, time to live 2, clock up to 4 set back once; 4 devices with equal and different rows, 7 page requests, 1 leaving; 3 devices, 4 connections, 1 failing statement, joins and offers under an own or an empty id | `RefusedStaysRefused`, `SessionsExpire`; `ListsAreConsistent`, `PagesAreRight` (length and order), `LocationOrderIsStrict`, `ParseSizeIsExact`; `MembersAreTold`, `ReceiversAreInside`, `NothingIsLeft` |

**Bounds and why they suffice.** Three handles let one device have two
connections while another has one; three devices give a host, a guest that
hosts too, and a second guest. Two connections are enough for every race of one connection's sweep with another connection's handler, and they let host and guest be connected together. A clone is not in that instance,
since with a third device, and a third connection to make use of it, it has ten million states and more; a clone is in `server_live`, and the theorems are
for any number of clones and of ids that contain the mark elsewhere. The server runs restart once; restarts of the manager alone are not bounded. In `ControlDurations` the window is
one tick, so outages are shorter, equal and longer within four to six ticks.
In `GeoLookup` a queue for one job is full as soon as one address waits, and
three delays reach the cap; several waiting jobs and their order are modelled but that
instance never holds two: for those there is the proof, which is for any capacity. In `password_change` two remembered results are exceeded by
the third change, so eviction, a late retry of the evicted change and a careless neighbour that causes
the eviction all happen. In `presence_notify` one watcher is watched itself, so an
update can pass the end of its own receiver; two threads and three users are all the
parties a race of two changes needs. In `requests` one device has two connections, so that a message can be
lost on the one while the other lives, and one failing statement leaves one row behind. `Named` is the one transmission that messages name there; the
other two devices host theirs all the same. Four
ids are one of each kind and a second device; the numbers 9 and 25 are above the largest `int64_t` (7) and
`size_t` (15) of a four-bit machine. Its three components share no variable, and a
behaviour is one of any of them: the state space is the sum of theirs. Bounds in the modules:
`MaxRestarts`, `MaxTime`, `MaxStartCrashes`, `Tracked`, `MaxFailures`, `Careless`, `Request`,
`Watchers`, `Wishes`, `MaxSetBacks`, `Tables`, `PageRequests`, `MaxLeaving`, `Named`.

Symmetry of devices and handles is used for safety only, in the runs of `TransmissionManager` and the
safety runs of `SignalServer`; `server_live` and the other runs have none. `CHECK_DEADLOCK FALSE` is said
only in `geo_lookup`, where the server may be destroyed and everything stops, and in
`requests`, where the request for a page ends.

**What overlaps do.** Properties of the form *connected ⇒ presented* hold under every
overlap. Properties of the form *presented ⇒ connected* do not, and are stated with
their exceptions: `OnlineIsConnectedOrRaced`, `EntriesAreConnected` and `ParticipantsAreConnected` say that
a device is left behind only if a sweep ended its last session (`raced`) just before one of the sections that each of them lists.
So a new way to a ghost breaks them, and if no sweep overlaps a handler there is no ghost at all.
`ghost_online` is the run of the plain statement.

`server_live` is checked with `MayOverlap = FALSE`: a guest or host that is bound after its session was timed out
stays until the transmission ends, so with overlaps `RestoredSessionsEnd` is false for the same reason.

**Fairness.** `SignalServer`: weak fairness of the steps of a running handler
(a thread that is not blocked runs on); strong fairness of the checker, since
`std::mutex` is free again and again between the loop's short calls; strong
fairness of the reported close of a connection the server has closed, and of the
clean-up timer, since the asio loop serves its queue in order, whatever else
arrives. Nothing is assumed of clients: they may stay silent, close or
return. `GeoLookup`: weak fairness of the worker (a request has a
timeout) and of time. No fairness is assumed of devices or of lookups succeeding.
`PresenceNotify`: weak fairness of the checker's steps, strong fairness of the loop's, since the
checker releases the mutex for ten seconds between two sweeps. `PasswordChange`: a careful client keeps logging in and
repeating its request, and strong fairness of its outcomes: not every connection ends before
the answer is read, and the database does not fail for ever. No fairness is assumed of careless clients.

---

## 4. What is proved

TLAPS proves, for any sets of devices and handles that satisfy `ConstantsAssumption`
(the sentinels are not members, `Reidentify` is Boolean):

| Theorem | Statement |
|---|---|
| `TypeCorrect` | `Spec => []TypeOK` |
| `TransmissionsStayWellFormed` (`TransmissionsInv`), `RowsMirrorGuests`, `WatchdogIsExact`, `ConnectedStaysRoutable` | the four invariants, each `[]`-true |
| `FinalReleaseIsComplete` | with `~Reidentify`, the end of a device's last session takes it out of every transmission |
| `DuplicateCloseIsHarmless` | a device that keeps a connection keeps the transmission it hosts, unless asked to give it up |
| `Refinement` | with `~Reidentify`, `Spec => ImplementsControlSessions` |

The argument. `IInv` is the conjunction of the type invariant and the four named
invariants. `SessionRowsMirrorGuests` is not inductive by itself: a transmission that
is opened gives its guests a host, so the rows stay exact only because a
transmission that is not open has no guests (`TransmissionsWellFormed`), and that a
row which `INSERT OR IGNORE` keeps names the right host is known from the mirror itself.
There is a lemma for each action. The operations that end sessions
(release, disconnect, withdraw, prune, the end of a session) share one lemma, `EndingPreserves`:
whatever ends a set of pairs, shrinks the guest lists by that set and closes
transmissions without leaving guests keeps the rows exact. The connection
half and the transmission half are preserved independently (`ConnectionsUntouched`,
`TransmissionsUntouched`). The action properties follow from `IInv` in the first
state of a step: a device hosts at most the transmission named after it, so the
release of the first hosted one is the release of all.

`ControlSessions` keeps a session per connection, the set of open transmissions and the
set of control pairs, and has no routing table, no last-active times and no
rows. The mapping reads `open` off `host` and `controls` off the database rows.
`Expire` and `Close` both map to `EndSession`, heartbeats and ageing to stutters,
and a restart to `Outage`. The operations work on guest lists and the mapping on
rows: every step needs `SessionRowsMirrorGuests`.

`RequestsProofs` proves, for any tokens and any positive times to live
(`AuthAssumption`), `AuthTypeCorrect`, `RefusedForEver` (`AuthSpec => []RefusedStaysRefused`) and `SessionsEnd`
(`AuthSpec => []SessionsExpire`). Neither property is inductive. A refused token
stays refused because its entry is gone, not because of its age, so `RefusedIsForgotten` says that what was
refused has no entry, or that no credentials are configured; a restart with other credentials keeps that true
only because without credentials there are no entries at all (`DisabledIsEmpty`). A session ends in time because what is
left of it and what has passed of it never add up to more than the time to live (`LifetimeIsSpent`).

About the list of devices it proves, for any ids (`QueriesAssumption`: finitely many numbers), contents of the table, requests, limits and offsets
(`OverviewAssumption`: the bounds `Tables` and `PageRequests` hold tables and requests of the right form),

| Theorem | Statement |
|---|---|
| `OverviewTypeCorrect` | `OverviewSpec => []OverviewTypeOK` |
| `ListsAlwaysMatch` | `[]ListsAreConsistent`: each order is strict and total, each count is the length of its list |
| `PagesStayRight` | `[]PagesAreRight`: a page is as long as the total tells unless a device left, and in the order asked for |
| `ComparisonsAreStrict` | `[]LocationOrderIsStrict` |
| `NumbersAreExact`, `TriedNumbersAreExact` | `ParseSize` is exact for every sequence of digits; `[]ParseSizeIsExact` for those of the run |
| `EachKeepsItsSpec`, `RequestsTypeCorrect` | `RequestsSpec => AuthSpec /\ OverviewSpec /\ MessagesSpec`, and `[]RequestsTypeOK` |

The argument. A comparison of four columns is one of four numbers (`Before`, `PrecedesByKey`), a column that descends counting negatively; the last is the id, so the order
is total (`BeforeIsStrict`). In a strict total order different rows have different numbers of predecessors, all below the number of rows, so every place is taken exactly once:
`InOrder` lists each row once and in order (`InOrderLists`), and a page, as the database or as the handler cuts it, is a part of that (`SqlPageIsList`, `DevicePageIsList`).
`OverviewInv` says what the steps of one request leave for the next: the total is what the table still selects until a device leaves (`CountIsTaken`); only the whole list is sorted
(`AllRowsAreSorted`); and every pair that was compared is in the order by what is known, with both locations known for good (`ComparedIsKnown`). From the last, and because
`std::sort` has compared what it needs, the comparisons made are a strict total order of the rows although nothing was locked between two of them. The comparator without
its cache, the mutant `CompareRows_NoCache`, is where this would fail.

`PasswordChangeProofs` proves, for any devices, requests, passwords, capacity and number of restarts
(`PasswordAssumption`: devices and temporary identities are disjoint, the capacity is positive, the first password is well formed),
`ResultsHold` (`Spec => []ResultsInv`), `SuccessIsExecuted` (`Spec => []SuccessWasExecuted`) and `NoLockout`
(`Spec => []NobodyIsLockedOut`). There are two inductive invariants. `CacheInv` adds to `ResultsInv` that what is
remembered has a place in the queue (`RememberedIsQueued`): without it an eviction could take the head of the queue and leave an older
result in the map. `ClientInv` has eight parts about requests, answers and passwords. `NobodyIsLockedOut` rests on
`SentIsSettled`: a message that is still under way and can be executed is the one its client waits for, because every other request
of a careful client was answered, so it was executed, is remembered (`AppliedIsRemembered`) and is
replayed when it arrives again. That the answer belongs to this request, and not to another with the same id, is
`SentIsUnique`, and that it is true is `AnswersAreTrue`. Only `ChangesEnd` (liveness) stays with TLC there.

`SignalServerProofs` proves, for any devices, browsers, clones, handles and number of restarts (`ServerAssumption`: the sentinels are
not members, browsers and clones are disjoint sets of devices, clones carry the mark), seven theorems:

| Theorem | Statement |
|---|---|
| `ServerUsesManager` | `Spec => UsesTransmissionManager`: each step of a thread is one step of the manager, or none |
| `ConnectedStayRegistered`, `ConnectedArePresented` | `RegistrationsInv` and `ConnectedIsPresented`, under every overlap of the threads |
| `BrowsersAreRemoved` | `WebRegistrationsEnd`, with `~Reidentify` |
| `ShownOnlineAreConnected`, `EntriesBelongToConnected`, `ParticipantsStayConnected` | `OnlineIsConnectedOrRaced`, `EntriesAreConnected` and `ParticipantsAreConnected` under every overlap, with `~Reidentify` |

The first is a refinement, and carries the theorems about the manager over to the server; it needs `TasksAreNamed`, that a task holds the
handles and devices which its next critical section passes to the manager. The properties only speak of moments at which no handler
is under way, so none of them is inductive. `ServerInv` says what makes up for the disagreement in the middle of a handler: a session that is not yet
shown is the one the loop is about to show (`SessionsArePresented`), a login that is about to bind has a registration that nobody is about
to take away (`LoginIsRegistered`), a device that is being logged out has no connection and gets none before the checker releases the manager's mutex (`LoggedOutIsGone`).
The manager's own invariant `IInv` is part of it, preserved by the lemmas of `TransmissionManagerProofs`. `LeavingsInv` serves the last three theorems. It says
that a handler acts for a device that is still connected, or that a sweep has timed out since the handler took its id
(`ActingIsConnectedOrRaced`, which is where `raced` comes from), and that whatever is kept of a device belongs to such a one or to the one being logged out by
either thread, as far as that has got (`EntriesEnd`, `ParticipantsHaveSessions`). That a connection keeps its identity is a real hypothesis: `reidentify` is the counterexample without it.

`TransmissionMessagesProofs` proves, for any devices, connections and number of failing statements (`MessagesAssumption`),
`MessagesTypeCorrect`, `MembersHearOfIt`, `CredentialsStayInside` and `DisconnectLeavesNothing`. A handler reads the members, then looks up and sends one by one,
and only then changes memberships, so `MessagesInv` follows whom it has still to tell: at every step between, a member that is still connected has been told,
has lost the connection it was told on, or is still on the list (`MembersAreCovered`). `CredentialsStayInside` follows the two
parties of an offer or a join through look-up, check, bind and send (`PairIsInside`): between these steps memberships can only end
together with the last connection of a party, since one loop runs the handlers, and the departure of a device that has another connection ends none. That list may be out of date, but only by members that
have gone, because one loop runs the handlers and the checker adds nobody. That who failed to be ended is
noted (`EndedSoFar`) needs that the table is finite, since failing statements are counted.

`PresenceNotifyProofs` proves, for any users, watchers, subscriptions (`NotifyAssumption`), `SubscribersHear` (`Spec => []NotifyInv`) and `LastWordHolds` (`Spec => []LastWordIsTrue`).
A change is in the table before any watcher is read, and a subscription is in the lists before the table is read for its
answer; `NotifyIInv` turns this into a statement about each pair of a watcher and a device: it has been told of the last change, or a thread is
still going to tell it (`ChangesAreTold`, and `StaleIsTold` for the watcher whose answer is being prepared). Behind that stand: a subscriber
is connected, online in the table and listed (`SubscribedIsListed`), or the filter of `NotifyUserDevices` would leave it out; and what is sent is what the
table says, unless the other thread has changed the device since (`MessagesAreTrue`). In that case (`crossed`) everybody
is still told of the last change, but perhaps before the older one, so `ToldIsTrue` and `LastWordHolds` leave such devices out.

`GeoLookupProofs` proves, for any devices, addresses, capacity, delays and number of failures counted (`LookupAssumption`: capacity and
delays are positive), `DeduplicationIsExact` (`Spec => []QueueInv`) and `NoLookupIsLost` (`Spec => []LookupsGoOn`). `PendingIsQueued` is split into
`QueuedOnce`, `QueuedIsPending` and `PendingHasJob`. It needs that the queue is in order (`JobsAreSorted`), so that the place for a new job exists,
and that the address a worker holds stays pending with a time that has come (`HeldIsPending`), or a login could
queue it a second time. `LookupsGoOn` needs `DroppedIsUnused`: an address that the worker is about to give up has no device, or its login is on its
way to the queue or has been turned away there. `FailureIsCounted` makes the delay of a retry one of those that `RetryDelay` defines.

`ControlDurationsProofs` proves, for any devices, keys, recovery window and number of deaths (`DurationsAssumption`: the ids are
finitely many, nobody controls itself, the devices that go online are base ids), `TablesHold` (`Spec => []TablesInv`), `TotalsAreKept`
(`Spec => []TotalsSurvive`) and `NoSecondTwice` (`Spec => []CreditedTimeIsReal`). None of the three is inductive: each compares the totals
at one moment with what was true at another. `DurationsInv` says of each side of a device, controlling or controlled, what the total and the rows
are together good for (`Side`): up to the last heartbeat they cover what was seen at it, since stale rows are credited only up to there;
once the rows are credited and about to be deleted, the total covers it alone, and then it is also the total alone that must be
time really lived. A death at that moment is what the run `durations_twice` shows, and why the last part assumes that no start was
interrupted. The cutoff is the last heartbeat as long as a statement is still going to use it (`Clocks`). `StepIsOnSides` projects every step to a step of one side (`SideNext`), so that the
argument is made once for both. `ControlBalances` needs that the sum of the credits over all devices is the sum over all keys, whichever way the
keys are divided among the devices (`OngoingDivides`).

**Induction over data.** The library's induction theorems take an operator and cannot be instantiated here. `ControlDurationsProofs` states
induction over the subsets of a finite set with a set of sets in place of the operator (`SubsetInduction`, `OneMoreInduction`), shows that the recursive function behind `MapThenSumSet` exists
and is unique (`FoldExists`, `FoldUnique`), and that a sum does not depend on the order in which the fold takes its elements (`SumTakes`); the lemmas about sums (`SumPlus`, `SumGrows`, `SumChanges`, `SumOfParts`) follow. `GeoLookupProofs`
derives induction for sets instead (`InductiveSet`, from the well-foundedness of the natural numbers), and uses it to show that the recursive function
`RetryDelay` exists and stays between one and the maximum (`RetryDelayType`), whatever the number of failures. `RequestsProofs` does the same for numbers of any length
(`InductiveUpTo`): the value that digits write is the recursive function `Value`, and `ParsesExactly` follows the parser along it.

**Only model-checked:** the liveness properties `SilentConnectionsEnd`, `RestoredSessionsEnd`, `RetriesStop`, `ChangesEnd` and `HandlersEnd`, since fairness and `ENABLED` are out of the
prover's reach. Every invariant and every other action property that a run finds to hold is a theorem. `SetToSortSeq` and the operators of the module `Relation` are not used where something
is proved: the first rests on `SortSeq`, which has no definition that the prover sees, and the others apply functions to two arguments, which it does not accept.

---

## 5. Where code and documents disagree

Each is a violation run with a trace that `tlc` prints.

1. **`reidentify`**. `BindUserToWsHandle` overwrites the user of a handle. A connection that logs in as `u1` and then
   as `u2` leaves `u1` without a session, but hosting and not logged out;
   the tests expect the end of the final session to release everything.
2. **`ghost_online`**. `OnMessage` reads the user of a connection and then calls
   `OnLogin` outside the manager's mutex. A sweep in between logs out first and
   the device stays online without a connection. The same window exists before
   `EnqueueClientNetworkInfo`, which leaves an address entry behind,
   and before
   `UpdateUserDevices`, which leaves a watch list (`EntriesAreConnected` fails in that instance for either). For a login it takes
   an idle connection whose next login is refused, since a successful one refreshes the last-active time;
   a presence request refreshes nothing.
3. **`empty_guest_id`**. `join_transmission` compares the user that the message names with the user of its
   connection. On a connection that has not logged in both may be empty. The empty id then becomes a guest in
   memory, the database refuses its row, and no logout removes it: it stays until the transmission ends, the clean-up prunes it or a leave names the empty id.
4. **`durations_twice`**. `InitDB` credits stale sessions in one statement and
   deletes them in the next; a death in between credits them again.

Further windows of the same kind, which the properties name as their exceptions:

- `join_transmission` checks the sender and binds the guest in two critical sections; the
  guest's last session may end in between, and the guest stays; a login binds its host in the
  same way (`raced` in `ParticipantsAreConnected`).
- The address worker finds an address unused and gives it up in two
  critical sections; a device that logs in with it in between gets no lookup (`late` in `LookupsGoOn`, which
  shows that this and a full queue are the only ways to lose one).
- The answer to a presence request is read from the table and sent later; an update of the checker may
  overtake it, and the client then believes the older state (`raced` in `LastWordIsTrue`).
- Two updates about one device may be sent by the two threads in the wrong order: in the race of `ghost_online`, and
  whenever the device changes while the thread of its change before is still at its messages (`crossed` in `LastWordIsTrue`).
- A message about the end of a transmission is lost if a sweep closes the connection between look-up
  and send, although the device may have another one (`lost` in `MembersAreTold`).
- Beyond 4096 later changes, or after a restart, a late repetition of a password change is executed again
  (`lost` in `NobodyIsLockedOut`). A careless client that uses an id for two
  passwords may take the answer to the first for that to the second.
- A page offset from 2^63 on is taken for none (`PagesAreRight`).

---

## 6. What is not modelled

- **A crash inside one method of the manager**, between two of its callbacks; a method and its callbacks are one action.
- **Failed statements**, except those that start and end session rows (`TransmissionMessages`) and
  `UpdatePassword`; elsewhere every write succeeds.
- **A clock that goes backwards** in the durations (`AdminAuth` has one); `Elapsed` has the `MAX(0, …)` of the SQL but `Tick` only counts up.
- **The composition of all parts in one state space.** `PresenceNotify` and `TransmissionMessages` have the
  manager's state as far as they read it; that they agree with `TransmissionManager` is by construction, not checked.
- **Locks inside the managers.** Other locks are held over a call only by
  the manager (callbacks) and by `change_password` (database), and the database calls nobody back. The models have the
  manager's mutex alone, so `HandlersEnd` is about waiting for it, or for a receiver, under it; that two locks are never taken in opposite orders is this reading of the code and not checked.
- `client_info`, the list of sessions and the statistics of the dashboard (read-only renderings), TLS, static
  files, TURN credentials (a keyed hash), HTTP and JSON handling, the dashboard's browser code, packaging.
- In `GeoLookup`: disabled lookups, a retry delay of zero, and the eight-byte width of its times.

---

## 7. Plan

In the order of importance; all but 10 are done.

1. `TransmissionManager`, `ControlSessions`: state, invariants, promise. *Done, proved.*
2. `SignalServer`: composition of the manager, presence and registrations under two threads. *Done, proved.*
3. `ControlDurations`: crash recovery of the durations. *Done, proved.*
4. `GeoLookup`: the third thread. *Done, proved.*
5. Refinement of `ControlSessions`. *Done, proved.*
6. `PresenceNotify`: subscriptions and the order of updates. *Done, proved.*
7. `PasswordChange`: changes under retries and eviction. *Done, proved.*
8. `AdminAuth`, `DeviceQueries` and `AdminOverview`. *Done, proved.*
9. `TransmissionMessages`: who is told, who gets credentials, failing statements. *Done, proved.*
10. A crash between two callbacks of one release, as a refinement of `Restart`.
11. `Requests`: that the components side by side keep their specifications. *Done, proved.*
