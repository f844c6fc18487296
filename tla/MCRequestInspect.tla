-------------------------- MODULE MCRequestInspect --------------------------
(* A small instance of Requestor and RequestInspect for TLC. *)
EXTENDS RequestInspect

\* servers; accstatz; accountz, its inventory and one of the requests that
\* follow; and a request of raftz, whose inventory is like that of accountz.
FiveCalls == <<[op |-> "Request", subject |-> "ping"],
               [op |-> "Request", subject |-> "account"],
               [op |-> "Request", subject |-> "endpoint"],
               [op |-> "RequestOne", subject |-> "endpoint"],
               [op |-> "RequestAdaptive", subject |-> "endpoint"]>>
=============================================================================
