------------------------------ MODULE Requests ------------------------------
(***************************************************************************)
(* Three components that serve one request at a time, side by side: a      *)
(* behaviour is one of any of them, while the other two do nothing.        *)
(***************************************************************************)
EXTENDS AdminAuth, AdminOverview, TransmissionMessages

VARIABLE part  \* the component that runs

requestsVars == <<part, authVars, overviewVars, messageVars>>

RequestsInit ==
  /\ part \in {"auth", "overview", "messages"}
  /\ AuthInit /\ OverviewInit /\ MessagesInit
  /\ part # "auth" => enabled
  /\ part # "overview" => /\ table = CHOOSE t \in Tables : TRUE
                          /\ request = CHOOSE r \in PageRequests : TRUE
                          /\ located = {}

RequestsNext ==
  /\ UNCHANGED part
  /\ \/ part = "auth" /\ AuthNext /\ UNCHANGED <<overviewVars, messageVars>>
     \/ part = "overview" /\ OverviewNext /\ UNCHANGED <<authVars, messageVars>>
     \/ part = "messages" /\ MessagesNext /\ UNCHANGED <<authVars, overviewVars>>

RequestsSpec == RequestsInit /\ [][RequestsNext]_requestsVars

\* Every variable of the component that runs keeps its type.
RequestsTypeOK ==
  /\ part = "auth" => AuthTypeOK
  /\ part = "overview" => OverviewTypeOK
  /\ part = "messages" => MessagesTypeOK
=============================================================================
