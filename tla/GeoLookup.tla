----------------------------- MODULE GeoLookup -----------------------------
(***************************************************************************)
(* The address lookups of src/src/signal_server.cpp: the event loop stores *)
(* the address of a device that logs in and queues a lookup for it; one    *)
(* worker thread takes the jobs in the order of their times, asks the      *)
(* resolver, and retries with a growing delay.  Lookups are enabled.       *)
(*                                                                         *)
(* network_info_mutex_ of the server guards the queue, that of the         *)
(* presence manager the entries; the worker takes them in turn and holds   *)
(* neither while it resolves.  Each critical section is one action.        *)
(*                                                                         *)
(* A time is what is left until it comes, so that a state does not depend  *)
(* on the date.                                                            *)
(***************************************************************************)
EXTENDS Integers, SequencesExt

CONSTANTS
  Devices, Addresses,
  NoAddress,     \* stands for a missing device_network_info_ entry
  Capacity,      \* kMaxClientNetworkInfoJobs
  MinDelay,      \* CROSSDESK_GEOIP_FAILURE_TTL_MS, positive
  MaxDelay,      \* CROSSDESK_GEOIP_FAILURE_MAX_TTL_MS
  MaxFailures    \* bound: failures counted, enough to reach MaxDelay

ASSUME LookupAssumption ==
  /\ NoAddress \notin Addresses
  /\ Capacity \in Nat \ {0} /\ MaxFailures \in Nat \ {0}
  /\ MinDelay \in 1..MaxDelay /\ MaxDelay \in Nat

VARIABLES
  address,    \* device_network_info_: the address of a device, or NoAddress
  located,    \* the devices whose entry has a location
  enqueuing,  \* the address that the event loop queues next, or NoAddress
  jobs,       \* network_info_jobs_, in the order of run_at
  pending,    \* pending_ip_lookup_at_: the run_at of an address, or NoEntry
  failures,   \* geo_ip_failure_counts_
  stopped,    \* network_info_stop_
  cache,      \* the resolver's cache_
  worker,     \* what the worker does next, and for which job
  refused,    \* ghost: the addresses whose last job met a full queue
  late        \* ghost: those queued again while the worker gave them up

queue == <<jobs, pending, failures, stopped>>
entries == <<address, located>>
ghosts == <<refused, late>>
vars == <<entries, enqueuing, queue, cache, worker, ghosts>>

NoEntry == -1
Idle == [at |-> "idle", ip |-> NoAddress]

\* Where the worker is while the entry in pending is that of its own job.
Holding == {"check", "inUse", "resolve", "found", "missed", "forget", "count", "again",
            "retry", "drop"}

TypeOK ==
  /\ address \in [Devices -> Addresses \cup {NoAddress}]
  /\ located \subseteq {d \in Devices : address[d] # NoAddress}
  /\ enqueuing \in Addresses \cup {NoAddress}
  /\ jobs \in Seq([ip : Addresses, runAt : 0..MaxDelay]) /\ Len(jobs) <= Capacity
  /\ pending \in [Addresses -> {NoEntry} \cup 0..MaxDelay]
  /\ failures \in [Addresses -> 0..MaxFailures]
  /\ stopped \in BOOLEAN
  /\ cache \subseteq Addresses
  /\ worker \in [at : Holding \cup {"idle", "spread"},
                 ip : Addresses \cup {NoAddress}]
  /\ refused \subseteq Addresses /\ late \subseteq Addresses

Init ==
  /\ address = [d \in Devices |-> NoAddress] /\ located = {} /\ enqueuing = NoAddress
  /\ jobs = <<>> /\ pending = [i \in Addresses |-> NoEntry]
  /\ failures = [i \in Addresses |-> 0] /\ stopped = FALSE
  /\ cache = {} /\ worker = Idle
  /\ refused = {} /\ late = {}

-----------------------------------------------------------------------------
\* GeoIpFailureRetryDelay: doubled at each failure, up to the maximum.
RetryDelay[n \in 1..MaxFailures] ==
  IF n = 1 THEN MinDelay
  ELSE IF RetryDelay[n - 1] > MaxDelay \div 2 THEN MaxDelay ELSE 2 * RetryDelay[n - 1]

\* The priority queue with one more job; jobs of equal time stay in order.
Pushed(job) ==
  LET place == CHOOSE p \in 1..Len(jobs) + 1 :
                 \A k \in DOMAIN jobs : k < p <=> jobs[k].runAt <= job.runAt
  IN  InsertAt(jobs, place, job)

\* Mutant: any device with an address will do.
HasDeviceWithClientIp_AnyAddress(i) == \E d \in Devices : address[d] # NoAddress

HasDeviceWithClientIp(i) == \E d \in Devices : address[d] = i

Goto(at) == worker' = IF at = "idle" THEN Idle ELSE [worker EXCEPT !.at = at]

-----------------------------------------------------------------------------
(* The event loop, and the thread that logs a device out.                  *)

\* EnqueueClientNetworkInfo: the entry is stored, without a location.
SetDeviceNetworkInfo(d, i) ==
  /\ enqueuing = NoAddress /\ ~stopped
  /\ address' = [address EXCEPT ![d] = i]
  /\ located' = located \ {d}
  /\ enqueuing' = i
  /\ UNCHANGED <<queue, cache, worker, ghosts>>

\* Mutant: addresses that are pending are queued again.
EnqueueGeoIpLookup_Again(i) ==
  IF stopped \/ Len(jobs) >= Capacity THEN UNCHANGED <<queue, ghosts>>
  ELSE
    /\ pending' = [pending EXCEPT ![i] = 0]
    /\ jobs' = Pushed([ip |-> i, runAt |-> 0])
    /\ refused' = refused \ {i} /\ late' = late \ {i}
    /\ UNCHANGED <<failures, stopped>>

\* A job that is due now, unless the address has one, or the queue is full.
EnqueueGeoIpLookup(i) ==
  \/ /\ ~stopped /\ pending[i] = NoEntry /\ Len(jobs) < Capacity
     /\ pending' = [pending EXCEPT ![i] = 0]
     /\ jobs' = Pushed([ip |-> i, runAt |-> 0])
     /\ refused' = refused \ {i} /\ late' = late \ {i}
     /\ UNCHANGED <<failures, stopped>>
  \/ /\ ~stopped /\ pending[i] = NoEntry /\ Len(jobs) = Capacity
     /\ refused' = refused \cup {i}
     /\ UNCHANGED <<queue, late>>
  \/ /\ ~stopped /\ pending[i] # NoEntry
     /\ late' = IF worker.at = "drop" /\ worker.ip = i THEN late \cup {i} ELSE late
     /\ UNCHANGED <<queue, refused>>

\* The loop queues the address that it has just stored, whether or not the
\* device is still there.
QueueLookup(i) ==
  /\ enqueuing = i
  /\ EnqueueGeoIpLookup(i)
  /\ enqueuing' = NoAddress
  /\ UNCHANGED <<entries, cache, worker>>

\* OnLogout erases the entry.
ForgetDevice(d) ==
  /\ address[d] # NoAddress
  /\ address' = [address EXCEPT ![d] = NoAddress]
  /\ located' = located \ {d}
  /\ UNCHANGED <<enqueuing, queue, cache, worker, ghosts>>

\* When the server is destroyed; the event loop has returned by then.
StopClientNetworkInfoWorker ==
  /\ ~stopped /\ enqueuing = NoAddress
  /\ stopped' = TRUE
  /\ jobs' = <<>>
  /\ pending' = [i \in Addresses |-> NoEntry]
  /\ failures' = [i \in Addresses |-> 0]
  /\ UNCHANGED <<entries, enqueuing, cache, worker, ghosts>>

-----------------------------------------------------------------------------
(* The worker.                                                             *)

\* ProcessClientNetworkInfoJobs takes the first job when its time has come.
TakeJob ==
  /\ worker = Idle /\ ~stopped
  /\ jobs # <<>> /\ Head(jobs).runAt = 0
  /\ jobs' = Tail(jobs)
  /\ worker' = [at |-> "check", ip |-> Head(jobs).ip]
  /\ UNCHANGED <<entries, enqueuing, pending, failures, stopped, cache, ghosts>>

\* A job that is no longer the pending one is skipped.
CheckPending ==
  /\ worker.at = "check"
  /\ Goto(IF pending[worker.ip] = 0 THEN "inUse" ELSE "idle")
  /\ UNCHANGED <<entries, enqueuing, queue, cache, ghosts>>

CheckInUse ==
  /\ worker.at = "inUse"
  /\ Goto(IF HasDeviceWithClientIp(worker.ip) THEN "resolve" ELSE "drop")
  /\ UNCHANGED <<entries, enqueuing, queue, cache, ghosts>>

\* An address in the cache resolves at once; any other may fail.
ResolveWithRetryInfo ==
  /\ worker.at = "resolve"
  /\ \/ /\ cache' = cache \cup {worker.ip}
        /\ Goto("found")
     \/ /\ worker.ip \notin cache
        /\ Goto("missed")
        /\ UNCHANGED cache
  /\ UNCHANGED <<entries, enqueuing, queue, ghosts>>

CheckStillInUse ==
  /\ worker.at \in {"found", "missed"}
  /\ Goto(IF ~HasDeviceWithClientIp(worker.ip) THEN "drop"
          ELSE IF worker.at = "found" THEN "forget" ELSE "count")
  /\ UNCHANGED <<entries, enqueuing, queue, cache, ghosts>>

\* The address is pending no more, and its failures are forgotten.
Erase(i) ==
  /\ pending' = [pending EXCEPT ![i] = NoEntry]
  /\ failures' = [failures EXCEPT ![i] = 0]
  /\ UNCHANGED <<jobs, stopped>>

\* A resolved address is erased before the entries are written, so that a
\* login in between queues a lookup of its own.
ForgetResolved ==
  /\ worker.at = "forget"
  /\ Erase(worker.ip)
  /\ Goto("spread")
  /\ UNCHANGED <<entries, enqueuing, cache, ghosts>>

\* Mutant: the first entry with the address gets the location, the rest not.
UpdateDevicesWithClientIp_First ==
  /\ worker.at = "spread"
  /\ LET here == {d \in Devices : address[d] = worker.ip}
     IN  located' = IF here = {} THEN located ELSE located \cup {CHOOSE d \in here : TRUE}
  /\ Goto("idle")
  /\ UNCHANGED <<address, enqueuing, queue, cache, ghosts>>

UpdateDevicesWithClientIp ==
  /\ worker.at = "spread"
  /\ located' = located \cup {d \in Devices : address[d] = worker.ip}
  /\ Goto("idle")
  /\ UNCHANGED <<address, enqueuing, queue, cache, ghosts>>

CountFailure ==
  /\ worker.at = "count"
  /\ failures' = [failures EXCEPT ![worker.ip] = IF @ < MaxFailures THEN @ + 1 ELSE @]
  /\ Goto("again")
  /\ UNCHANGED <<entries, enqueuing, jobs, pending, stopped, cache, ghosts>>

\* The delay is positive; the time of the retry is taken with the next step.
CheckRetry ==
  /\ worker.at = "again"
  /\ Goto(IF HasDeviceWithClientIp(worker.ip) THEN "retry" ELSE "drop")
  /\ UNCHANGED <<entries, enqueuing, queue, cache, ghosts>>

\* A job for later, unless the queue is stopped or full.
Retry ==
  LET i == worker.ip IN
  /\ worker.at = "retry"
  /\ IF ~stopped /\ Len(jobs) < Capacity
       THEN /\ pending' = [pending EXCEPT ![i] = RetryDelay[failures[i]]]
            /\ jobs' = Pushed([ip |-> i, runAt |-> RetryDelay[failures[i]]])
            /\ UNCHANGED ghosts
       ELSE /\ pending' = [pending EXCEPT ![i] = NoEntry]
            /\ refused' = refused \cup {i}
            /\ UNCHANGED <<jobs, late>>
  /\ Goto("idle")
  /\ UNCHANGED <<entries, enqueuing, failures, stopped, cache>>

\* The address was found unused: it is given up.
Drop ==
  /\ worker.at = "drop"
  /\ Erase(worker.ip)
  /\ Goto("idle")
  /\ UNCHANGED <<entries, enqueuing, cache, ghosts>>

-----------------------------------------------------------------------------
\* Time passes; a lookup may take any time.
Tick ==
  /\ \E k \in DOMAIN jobs : jobs[k].runAt > 0
  /\ jobs' = [k \in DOMAIN jobs |->
                [jobs[k] EXCEPT !.runAt = IF @ > 0 THEN @ - 1 ELSE @]]
  /\ pending' = [i \in Addresses |-> IF pending[i] > 0 THEN pending[i] - 1 ELSE pending[i]]
  /\ UNCHANGED <<entries, enqueuing, failures, stopped, cache, worker, ghosts>>

Worker ==
  \/ TakeJob \/ CheckPending \/ CheckInUse \/ ResolveWithRetryInfo \/ CheckStillInUse
  \/ ForgetResolved \/ UpdateDevicesWithClientIp
  \/ CountFailure \/ CheckRetry \/ Retry \/ Drop

Next ==
  \/ \E d \in Devices, i \in Addresses : SetDeviceNetworkInfo(d, i)
  \/ \E i \in Addresses : QueueLookup(i)
  \/ \E d \in Devices : ForgetDevice(d)
  \/ StopClientNetworkInfoWorker
  \/ Worker
  \/ Tick

Spec == Init /\ [][Next]_vars

\* The worker keeps running and time passes; a request to the resolver ends,
\* it has a timeout.  Nothing is assumed of the devices.
FairSpec == Spec /\ WF_vars(Worker) /\ WF_vars(Tick)

-----------------------------------------------------------------------------
(* Properties.                                                             *)

\* The deduplication neither leaks nor duplicates: an address is pending just
\* while one job for it is queued, with that very time, or held by the worker.
\* A leaked entry would keep the address from ever being looked up again.
PendingIsQueued ==
  LET held == IF worker.at \in Holding THEN {worker.ip} ELSE {}
  IN  /\ IsInjective([k \in DOMAIN jobs |-> jobs[k].ip])
      /\ \A k \in DOMAIN jobs : pending[jobs[k].ip] = jobs[k].runAt /\ jobs[k].ip \notin held
      /\ \A i \in Addresses :
           pending[i] # NoEntry => i \in held \cup {jobs[k].ip : k \in DOMAIN jobs}

\* Nothing is queued once the worker has been told to stop, a retry of the
\* lookup that was going on included.
StoppedIsEmpty ==
  stopped => jobs = <<>> /\ \A i \in Addresses : pending[i] = NoEntry

\* The invariant of the queue: types and bounds, an exact deduplication, and an
\* orderly stop.
QueueInv == TypeOK /\ PendingIsQueued /\ StoppedIsEmpty

\* A device that is online without a location has a lookup coming.
AwaitsLookup(d) ==
  \/ d \in located \/ address[d] \in {NoAddress, enqueuing}
  \/ pending[address[d]] # NoEntry
  \/ worker.at = "spread" /\ worker.ip = address[d]

\* No lookup is lost, unless the queue was full or the device logged in just
\* while the worker gave the address up.
LookupsGoOn ==
  ~stopped => \A d \in Devices : AwaitsLookup(d) \/ address[d] \in refused \cup late

\* "Retries stop once no online client uses the IP" (README): such an address is
\* given up.
RetriesStop ==
  \A i \in Addresses :
    (\A d \in Devices : address[d] # i) ~> (pending[i] = NoEntry \/ \E d \in Devices : address[d] = i)
=============================================================================
