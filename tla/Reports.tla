------------------------------ MODULE Reports ------------------------------
(***************************************************************************)
(* What the engine reports about its connections, and what the backend     *)
(* makes of it.  `tables' holds the connections of each fast path: one     *)
(* function from flows to connections for each.  The engine makes its      *)
(* reports when the threads have ended.                                    *)
(*                                                                         *)
(* A definition that precedes another and is used nowhere is a wrong       *)
(* version of it: with it, a run must find a property violated.            *)
(***************************************************************************)
EXTENDS FastPath

CONSTANT FPOf  \* the fast path that the hashes of a flow lead to

Entries(tables) == UNION {{<<i, f>> : f \in DOMAIN tables[i]} : i \in DOMAIN tables}
AppOfEntry(tables, e) == tables[e[1]][e[2]].app
WithApp(tables, apps) == {e \in Entries(tables) : AppOfEntry(tables, e) \in apps}

\* GlobalConnectionTable::getGlobalStats.
AppDistribution(tables) ==
    [a \in {AppOfEntry(tables, e) : e \in Entries(tables)} |->
       Cardinality(WithApp(tables, {a}))]

JsonSummarySkippingUnknown(total_packets, tables) ==
    LET apps == AppDistribution(tables)
        known == DOMAIN apps \ {"UNKNOWN"}
        total == MapThenSumSet(LAMBDA a : apps[a], known)
    IN [total_packets |-> total_packets, total_connections |-> total,
        classified |-> total, unknown |-> 0,
        application_distribution |-> [a \in known |-> apps[a]]]
\* DPIEngine::generateJsonSummary, as DpiResult has it after parseDpiResult.
JsonSummary(total_packets, tables) ==
    LET apps == AppDistribution(tables)
        known == DOMAIN apps \ {"UNKNOWN"}
        total == MapThenSumSet(LAMBDA a : apps[a], DOMAIN apps)
        unknown == IF "UNKNOWN" \in DOMAIN apps THEN apps["UNKNOWN"] ELSE 0
    IN [total_packets |-> total_packets, total_connections |-> total,
        classified |-> total - unknown, unknown |-> unknown,
        application_distribution |-> [a \in known |-> apps[a]]]

\* FPManager::generateClassificationReport counts a second time.
ClassificationReport(tables) ==
    LET unknown == WithApp(tables, {"UNKNOWN"})
    IN [classified |-> Cardinality(Entries(tables) \ unknown),
        unknown |-> Cardinality(unknown)]

\* AiService: connections divided by packets, as integers.
Percentage(connections, total_packets) == (connections * 100) \div total_packets

\* determineRiskLevel.
RiskLevel(result) ==
    LET unknown == Percentage(result.unknown, result.total_packets)
    IN CASE result.total_packets = 0 -> "LOW"
         [] result.total_packets # 0 /\ unknown > 50 -> "HIGH"
         [] result.total_packets # 0 /\ unknown \in 21 .. 50 -> "MEDIUM"
         [] OTHER -> "LOW"

\* The numbers of extractInsights: the rate is not given without a packet, the
\* top applications are those of which it may name any.
Insights(result) ==
    LET apps == result.application_distribution
    IN [classified |-> IF result.total_packets > 0
                       THEN {Percentage(result.classified, result.total_packets)} ELSE {},
        top |-> {a \in DOMAIN apps : \A b \in DOMAIN apps : apps[b] <= apps[a]},
        connections |-> result.total_connections]

-----------------------------------------------------------------------------
(* Properties                                                              *)

\* The reports take the connections of FastPath as those of several fast paths.
Tables == [i \in {FPOf[f] : f \in Flows} |->
             [f \in {g \in Tracked : FPOf[g] = i} |-> conns[f]]]

\* The JSON summary, the classification report and the counters of the tracker,
\* which are kept and added up in three places, agree at any time: connections
\* that eviction or cleanup has reported are no longer counted, and all others are
\* either classified or unknown.  What the backend makes of the summary is sane,
\* although it divides connections by packets: shares are never above 100 %, a
\* high risk means that most is unknown, and an application leads only if it was seen.
SummaryAdds ==
    LET json == JsonSummary(processed, Tables)
        report == ClassificationReport(Tables)
        insights == Insights(json)
    IN /\ json.total_connections = seen - emitted.flows
       /\ json.classified = report.classified /\ json.unknown = report.unknown
       /\ \A rate \in insights.classified :
            /\ rate + Percentage(json.unknown, processed) <= 100
            /\ RiskLevel(json) = "HIGH" => rate < 50
       /\ insights.top = {} <=> json.classified = 0
=============================================================================
