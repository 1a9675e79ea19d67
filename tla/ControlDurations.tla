-------------------------- MODULE ControlDurations --------------------------
(***************************************************************************)
(* src/src/device_db_manager/device_db_manager.cpp: how the database keeps *)
(* the online and remote-control durations of the devices, through the end *)
(* of sessions, the death of the process and the recovery at its start.    *)
(*                                                                         *)
(* Every operation of a running server is one SQL statement or one         *)
(* transaction, so it is one action.  InitDB is not: it runs several       *)
(* statements, each of which is committed on its own, and the process may  *)
(* die after any of them.  Time is in ticks and starts at 1, because 0     *)
(* stands for "no time" in the columns.                                    *)
(***************************************************************************)
EXTENDS Naturals, FiniteSets, FiniteSetsExt

CONSTANTS
  Ids,               \* device ids, the "C-" ones included
  Base,              \* Base[i]: i without its "C-" (NormalizeRemoteDeviceId)
  Keys,              \* the primary keys <<transmission, guest>> that occur
  Window,            \* kRemoteControlRecoveryWindowSeconds
  Tracked,           \* bound: the devices that go online and offline
  MaxStartCrashes,   \* bound: how often the process may die inside InitDB
  MaxTime            \* bound on the clock

ASSUME DurationsAssumption ==
  /\ IsFiniteSet(Ids) /\ Base \in [Ids -> Ids]
  /\ Keys \subseteq Ids \X Ids
  /\ \A k \in Keys : k[1] # k[2]
  /\ Window \in Nat /\ MaxTime \in Nat \ {0} /\ MaxStartCrashes \in Nat
  /\ Tracked \subseteq {Base[i] : i \in Ids}

Devices == {Base[i] : i \in Ids}

VARIABLES
  now,         \* the wall clock
  stage,       \* "down", the next statement of InitDB, or "up"
  lastSeen,    \* server_runtime.last_seen_at
  cutoff,      \* stale_cutoff, local to InitDB
  startCrashes,\* how often the process has died inside InitDB
  startedAt,   \* remote_control_sessions.started_at by key, 0 without a row
  control,     \* device_presence.total_control_seconds
  controlled,  \* device_presence.total_controlled_seconds
  since,       \* device_presence.online_since, 0 while online = 0
  onlineTotal, \* device_presence.total_online_seconds
  lived,       \* ghost: for how long a row with this key has existed
  seen         \* ghost: the totals at the last heartbeat

columns == <<startedAt, control, controlled, since, onlineTotal>>
vars == <<now, stage, lastSeen, cutoff, startCrashes, columns, lived, seen>>

AsGuest(d) == {k \in Keys : Base[k[2]] = d}
AsHost(d) == {k \in Keys : Base[k[1]] = d}

\* MAX(0, until - from) of a column that may be 0.
Elapsed(from, until) == IF from = 0 \/ until < from THEN 0 ELSE until - from

\* COALESCE(SUM(f), 0) over S.
SumOver(f, S) == MapThenSumSet(LAMBDA x : f[x], S)

\* What the rows with these keys amount to.
Ongoing(keys, until) == SumOver([k \in Keys |-> Elapsed(startedAt[k], until)], keys)

\* What GetOnlineDurationStats and the presence lists report for a device.
Totals ==
  [control |-> [d \in Devices |-> control[d] + Ongoing(AsGuest(d), now)],
   controlled |-> [d \in Devices |-> controlled[d] + Ongoing(AsHost(d), now)],
   online |-> [d \in Devices |-> onlineTotal[d] + Elapsed(since[d], now)]]

TypeOK ==
  /\ now \in 1..MaxTime /\ lastSeen \in 0..now /\ cutoff \in 0..lastSeen
  /\ startCrashes \in 0..MaxStartCrashes
  /\ stage \in {"down", "finalize", "delete", "reset", "heartbeat", "up"}
  /\ startedAt \in [Keys -> 0..now] /\ lived \in [Keys -> 0..MaxTime]
  /\ control \in [Devices -> Nat] /\ controlled \in [Devices -> Nat]
  /\ since \in [Devices -> 0..now] /\ onlineTotal \in [Devices -> Nat]
  /\ DOMAIN seen = {"control", "controlled", "online"}
  /\ \A c \in DOMAIN seen : seen[c] \in [Devices -> Nat]

Zero == [d \in Devices |-> 0]

\* A new database: no time is recorded, and InitDB has yet to run.
Init ==
  /\ now = 1 /\ stage = "down" /\ lastSeen = 0 /\ cutoff = 0 /\ startCrashes = 0
  /\ startedAt = [k \in Keys |-> 0] /\ lived = [k \in Keys |-> 0]
  /\ control = Zero /\ controlled = Zero /\ since = Zero /\ onlineTotal = Zero
  /\ seen = [control |-> Zero, controlled |-> Zero, online |-> Zero]

-----------------------------------------------------------------------------
(* A running server.                                                       *)

\* INSERT OR IGNORE: a row that is there keeps its start.
StartRemoteControlSession(k) ==
  /\ stage = "up"
  /\ startedAt' = [startedAt EXCEPT ![k] = IF @ = 0 THEN now ELSE @]
  /\ UNCHANGED <<now, stage, lastSeen, cutoff, startCrashes, control, controlled, since,
                 onlineTotal, lived, seen>>

\* Mutant: the guest is credited under the id it came with, so a clone's time
\* finds no presence row.
EndRemoteControlSession_NotNormalized(k) ==
  /\ stage = "up" /\ startedAt[k] # 0
  /\ control' = IF k[2] \notin Devices THEN control
                 ELSE [control EXCEPT ![k[2]] = @ + Elapsed(startedAt[k], now)]
  /\ controlled' = [controlled EXCEPT ![Base[k[1]]] = @ + Elapsed(startedAt[k], now)]
  /\ startedAt' = [startedAt EXCEPT ![k] = 0]
  /\ UNCHANGED <<now, stage, lastSeen, cutoff, startCrashes, since, onlineTotal, lived, seen>>

\* One transaction credits both devices and deletes the row.
EndRemoteControlSession(k) ==
  /\ stage = "up" /\ startedAt[k] # 0
  /\ control' = [control EXCEPT ![Base[k[2]]] = @ + Elapsed(startedAt[k], now)]
  /\ controlled' = [controlled EXCEPT ![Base[k[1]]] = @ + Elapsed(startedAt[k], now)]
  /\ startedAt' = [startedAt EXCEPT ![k] = 0]
  /\ UNCHANGED <<now, stage, lastSeen, cutoff, startCrashes, since, onlineTotal, lived, seen>>

\* A device that is online already keeps its online_since.
SetDeviceOnline(d) ==
  /\ stage = "up"
  /\ since' = [since EXCEPT ![d] = IF @ > 0 THEN @ ELSE now]
  /\ UNCHANGED <<now, stage, lastSeen, cutoff, startCrashes, startedAt, control, controlled,
                 onlineTotal, lived, seen>>

SetDeviceOffline(d) ==
  /\ stage = "up"
  /\ onlineTotal' = [onlineTotal EXCEPT ![d] = @ + Elapsed(since[d], now)]
  /\ since' = [since EXCEPT ![d] = 0]
  /\ UNCHANGED <<now, stage, lastSeen, cutoff, startCrashes, startedAt, control, controlled,
                 lived, seen>>

\* The timer of the server, and the last statement of InitDB.
RecordRuntimeHeartbeat ==
  /\ stage \in {"heartbeat", "up"}
  /\ lastSeen' = now
  /\ stage' = "up"
  /\ seen' = Totals
  /\ UNCHANGED <<now, cutoff, startCrashes, columns, lived>>

-----------------------------------------------------------------------------
(* InitDB.                                                                 *)

\* Mutant: after a long outage the sessions are deleted without a credit.
Boot_NoFinalize ==
  /\ stage = "down"
  /\ cutoff' = lastSeen
  /\ stage' = IF lastSeen > 0 /\ now - lastSeen <= Window THEN "reset" ELSE "delete"
  /\ UNCHANGED <<now, lastSeen, startCrashes, columns, lived, seen>>

\* The sessions are recovered after a short outage.  After a long one they are
\* credited up to the last heartbeat and deleted.
Boot ==
  /\ stage = "down"
  /\ cutoff' = lastSeen
  /\ stage' = IF lastSeen > 0 /\ now - lastSeen <= Window THEN "reset"
              ELSE IF lastSeen > 0 THEN "finalize" ELSE "delete"
  /\ UNCHANGED <<now, lastSeen, startCrashes, columns, lived, seen>>

FinalizeStaleSessions ==
  /\ stage = "finalize"
  /\ control' = [d \in Devices |-> control[d] + Ongoing(AsGuest(d), cutoff)]
  /\ controlled' = [d \in Devices |-> controlled[d] + Ongoing(AsHost(d), cutoff)]
  /\ stage' = "delete"
  /\ UNCHANGED <<now, lastSeen, cutoff, startCrashes, startedAt, since, onlineTotal, lived, seen>>

\* Mutant: the credited rows are left in the table.
DeleteStaleSessions_KeepsRows ==
  /\ stage = "delete"
  /\ stage' = "reset"
  /\ UNCHANGED <<now, lastSeen, cutoff, startCrashes, columns, lived, seen>>

DeleteStaleSessions ==
  /\ stage = "delete"
  /\ startedAt' = [k \in Keys |-> 0]
  /\ stage' = "reset"
  /\ UNCHANGED <<now, lastSeen, cutoff, startCrashes, control, controlled, since,
                 onlineTotal, lived, seen>>

\* One statement credits the online time and marks every device offline.
ResetPresence ==
  /\ stage = "reset"
  /\ onlineTotal' = [d \in Devices |-> onlineTotal[d] + Elapsed(since[d], cutoff)]
  /\ since' = Zero
  /\ stage' = "heartbeat"
  /\ UNCHANGED <<now, lastSeen, cutoff, startCrashes, startedAt, control, controlled, lived, seen>>

-----------------------------------------------------------------------------
(* The environment.                                                        *)

Tick ==
  /\ now < MaxTime
  /\ now' = now + 1
  /\ lived' = [k \in Keys |-> IF startedAt[k] # 0 THEN lived[k] + 1 ELSE lived[k]]
  /\ UNCHANGED <<stage, lastSeen, cutoff, startCrashes, columns, seen>>

Crash ==
  /\ \/ stage = "up" /\ UNCHANGED startCrashes
     \/ /\ stage \notin {"up", "down"}
        /\ startCrashes < MaxStartCrashes
        /\ startCrashes' = startCrashes + 1
  /\ stage' = "down"
  /\ UNCHANGED <<now, lastSeen, cutoff, columns, lived, seen>>

-----------------------------------------------------------------------------
Next ==
  \/ \E k \in Keys : StartRemoteControlSession(k)
  \/ \E k \in Keys : EndRemoteControlSession(k)
  \/ \E d \in Tracked : SetDeviceOnline(d)
  \/ \E d \in Tracked : SetDeviceOffline(d)
  \/ RecordRuntimeHeartbeat
  \/ Boot
  \/ FinalizeStaleSessions
  \/ DeleteStaleSessions
  \/ ResetPresence
  \/ Tick
  \/ Crash

Spec == Init /\ [][Next]_vars

-----------------------------------------------------------------------------
(* Properties.                                                             *)

\* A device is credited with no more controlling and controlled time than its
\* sessions have lived (README: "Cumulative controlling / controlled time").
CreditedOnce ==
  stage = "up" =>
    \A d \in Devices :
      /\ Totals.control[d] <= SumOver(lived, AsGuest(d))
      /\ Totals.controlled[d] <= SumOver(lived, AsHost(d))

\* However often the process dies and recovers, no second is credited twice, as
\* long as it does not die between two statements of InitDB.
CreditedTimeIsReal == startCrashes = 0 => CreditedOnce

\* Every credited second of control is a credited second of being controlled,
\* whichever statement the process dies after.
ControlBalances == SumOver(control, Devices) = SumOver(controlled, Devices)

\* The invariant of the tables, between any two statements: types, the recovery
\* cutoff that Boot may choose, and the balance.
TablesInv == TypeOK /\ ControlBalances

\* What had been accumulated by the last heartbeat survives the death of the
\* process, the recovery or finalisation of the sessions and the reset of the
\* presence ("database preserves total control duration across restart").
TotalsSurvive ==
  \A c \in {"control", "controlled", "online"} :
    \A d \in Devices : Totals[c][d] >= seen[c][d]
=============================================================================
