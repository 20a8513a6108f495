----------------------------- MODULE MCStatsMon -----------------------------
(* The instance that TLC explores, with IDs made as in Messaging.cpp. *)
EXTENDS StatsMon

AppStats == telemetry(1, 0)      \* app1::msg::Stats::ID
ChildStats == telemetry(2, 0)    \* app2::StatsMsg::ID
Wakeup == wakeup(5)              \* stats_mon::WakeupMsg::ID

\* With an ID that is not in the table at first, as the main loop's add_id(1).
MCIds == {1, AppStats, ChildStats}

MCInitialTbl == <<AppStats, ChildStats>>

\* A wakeup every other period; one message every period, one every third.
MCSchedTbl ==
  <<[MsgId |-> AppStats, WakeupCount |-> 1],
    [MsgId |-> Wakeup, WakeupCount |-> 2],
    [MsgId |-> 1, WakeupCount |-> 3]>>

\* The packing of MsgIds, evaluated on a few bytes; MsgIdsProofs has the
\* theorems.
SomeBytes == {0, 1, 2, 254, 255}

ASSUME UnpackingIsTheInverse ==
  \A m, t, f \in SomeBytes :
    LET id == to_msg_id(m, t, f) IN
      <<to_mod_id(id), to_msg_type_id(id), to_func_id(id)>> = <<m, t, f>>

\* A request finds the telemetry it asks for, wherever it is held, and a
\* request for telemetry that is not held finds nothing.
ASSUME RequestsFindTheirTelemetry ==
  \A m, f, g, h \in SomeBytes :
    LET held == <<telemetry(m, f), telemetry(m, g)>>
        found == find_by_req_id(held, telemetry_request(m, h))
    IN  found = IF h = f THEN 1 ELSE IF h = g THEN 2 ELSE 0

=============================================================================
