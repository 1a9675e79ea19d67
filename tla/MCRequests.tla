----------------------------- MODULE MCRequests -----------------------------
(* Model-checking instance of Requests.                                     *)
EXTENDS Requests

\* Times and durations that agree for some rows, and differ for others.  The device 1
\* controls the device 2.
MCTables ==
  {[d \in Ids |-> [online |-> on[d], updated |-> IF d = 1 THEN updated ELSE 1,
                   total |-> IF d = 2 THEN 0 ELSE 1,
                   control |-> IF d = 1 THEN 1 ELSE 0,
                   controlled |-> IF d = 2 THEN 1 ELSE 0]] :
     on \in [Ids -> BOOLEAN], updated \in {0, 1}}

Ask(filter, kind, sort, order, limit, offset, search) ==
  [filter |-> filter, kind |-> kind, sort |-> sort, order |-> order,
   limit |-> limit, offset |-> offset, search |-> search]

\* The offset 9 is one that int64_t has not, 25 none that size_t has.
MCPageRequests ==
  {Ask("all", "all", sort, "asc", <<2>>, offset, Ids) :
     sort \in {"location", "status"}, offset \in {<<1>>, <<9>>}}
  \cup {Ask("offline", "all", "location", "desc", <<>>, <<>>, Ids),
        Ask("online", "web", "total", "asc", <<>>, <<2, 5>>, {1, 3}),
        Ask("active", "all", "active_sessions", "desc", <<2>>, <<1>>, Ids)}

MCConns == {<<"h", 1>>, <<"h", 2>>, <<"a", 1>>, <<"b", 1>>}
=============================================================================
