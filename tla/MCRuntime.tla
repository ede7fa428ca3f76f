----------------------------- MODULE MCRuntime -----------------------------
(***************************************************************************)
(* The components around an actor that do not share state, in one model:    *)
(* `part` says which of them moves, so that their state spaces add up.      *)
(***************************************************************************)
EXTENDS Receiving, ActorStatus, Node, DumpStorage, DumpReports,
        Telemetry, Logging, RateLimiter, Scopes, TraceIds, Polling,
        Pinger

VARIABLE part

Parts == {"receiving", "status", "node", "dumps", "reports",
          "metrics", "logs", "limits", "scopes", "traces", "polls",
          "pings"}

MCSources == {<<"interval", "stream">>, <<"delay", "once">>}
MCStopOrder == [g \in Groups |-> IF g = Configurers THEN 100 ELSE 0]
MCTexts == {<<1>>, <<3, 2>>}
MCMeta == <<1, 1>>
MCFields == <<2>>
MCLimits == {[limit |-> 2, period |-> 3], [limit |-> 1, period |-> 3]}
MCLocals == <<"a", "pingers", "b", "c">>

MCSystemConfigs ==
    {[level |-> 0, logRate |-> 1, disabled |-> FALSE, rate |-> 1,
      perGroup |-> TRUE, perKey |-> FALSE],
     [level |-> 2, logRate |-> 2, disabled |-> TRUE, rate |-> 2,
      perGroup |-> FALSE, perKey |-> TRUE]}

MCRule(class, name, max, truncate, logOverflow, logFailure) ==
    [class |-> class, name |-> name,
     set   |-> [max |-> max, truncate |-> truncate,
                logOverflow |-> logOverflow, logFailure |-> logFailure]]
MCRuleLists ==
    {<<MCRule("any", "any", 4, 1, NotSet, NotSet)>>,
     <<MCRule("c", "big", 2, NotSet, NotSet, NotSet),
       MCRule("any", "any", NotSet, 0, 0, NotSet), MCRule("d", "any", 1, 1, 1, 0)>>,
     <<MCRule("any", "any", 3, 1, NotSet, 0),
       MCRule("any", "big", 2, NotSet, NotSet, NotSet)>>}
MCDumpShapes ==
    [n \in Names |-> IF n = "big" THEN [head |-> <<2>>, body |-> <<1, 2>>, sound |-> TRUE]
                     ELSE [head |-> <<1>>, body |-> <<1>>, sound |-> FALSE]]

\* The parts that do not move start in one state.
RuntimeInit ==
    /\ part \in Parts
    /\ ReceivingInit /\ StatusInit /\ NodeInit
    /\ StorageInit /\ ReportsInit /\ TelemetryInit /\ LoggingInit
    /\ RateInit /\ ScopesInit /\ TraceIdInit
    /\ PollingInit /\ PingerInit
    /\ part # "receiving" => src[1].sort = "delay"
    /\ part # "node" => file = Broken
    /\ part # "dumps" => fund.max = Max(Capacities)
    /\ part # "logs" => logger.size = Max(LineSizes)
    /\ part # "limits" => step = MaxStep
    /\ part # "traces" => wallTime = Max(StartTimes)

RuntimeNext ==
    \/ /\ part = "receiving" /\ ReceivingNext
       /\ UNCHANGED <<part, statusVars, nodeVars, storageVars,
                      reportVars, telemetryVars, loggingVars, rateVars,
                      scopesVars, traceIdVars, pollingVars,
                      pingerVars>>
    \/ /\ part = "status" /\ StatusNext
       /\ UNCHANGED <<part, receivingVars, nodeVars, storageVars,
                      reportVars, telemetryVars, loggingVars, rateVars,
                      scopesVars, traceIdVars, pollingVars,
                      pingerVars>>
    \/ /\ part = "node" /\ NodeNext
       /\ UNCHANGED <<part, receivingVars, statusVars,
                      storageVars, reportVars, telemetryVars, loggingVars,
                      rateVars, scopesVars, traceIdVars,
                      pollingVars, pingerVars>>
    \/ /\ part = "dumps" /\ StorageNext
       /\ UNCHANGED <<part, receivingVars, statusVars, nodeVars,
                      reportVars, telemetryVars, loggingVars, rateVars,
                      scopesVars, traceIdVars, pollingVars,
                      pingerVars>>
    \/ /\ part = "reports" /\ ReportsNext
       /\ UNCHANGED <<part, receivingVars, statusVars, nodeVars,
                      storageVars, telemetryVars, loggingVars, rateVars,
                      scopesVars, traceIdVars, pollingVars,
                      pingerVars>>
    \/ /\ part = "metrics" /\ TelemetryNext
       /\ UNCHANGED <<part, receivingVars, statusVars, nodeVars,
                      storageVars, reportVars, loggingVars, rateVars,
                      scopesVars, traceIdVars, pollingVars,
                      pingerVars>>
    \/ /\ part = "logs" /\ LoggingNext
       /\ UNCHANGED <<part, receivingVars, statusVars, nodeVars,
                      storageVars, reportVars, telemetryVars, rateVars,
                      scopesVars, traceIdVars, pollingVars,
                      pingerVars>>
    \/ /\ part = "limits" /\ RateNext
       /\ UNCHANGED <<part, receivingVars, statusVars, nodeVars,
                      storageVars, reportVars, telemetryVars, loggingVars,
                      scopesVars, traceIdVars, pollingVars,
                      pingerVars>>
    \/ /\ part = "scopes" /\ ScopesNext
       /\ UNCHANGED <<part, receivingVars, statusVars, nodeVars,
                      storageVars, reportVars, telemetryVars, loggingVars,
                      rateVars, traceIdVars, pollingVars,
                      pingerVars>>
    \/ /\ part = "traces" /\ TraceIdNext
       /\ UNCHANGED <<part, receivingVars, statusVars, nodeVars,
                      storageVars, reportVars, telemetryVars, loggingVars,
                      rateVars, scopesVars, pollingVars,
                      pingerVars>>
    \/ /\ part = "polls" /\ PollingNext
       /\ UNCHANGED <<part, receivingVars, statusVars, nodeVars,
                      storageVars, reportVars, telemetryVars, loggingVars,
                      rateVars, scopesVars, traceIdVars,
                      pingerVars>>
    \/ /\ part = "pings" /\ PingerNext
       /\ UNCHANGED <<part, receivingVars, statusVars, nodeVars,
                      storageVars, reportVars, telemetryVars, loggingVars,
                      rateVars, scopesVars, traceIdVars,
                      pollingVars>>

RuntimeSpec ==
    RuntimeInit /\ [][RuntimeNext]_<<part, receivingVars,
                                     statusVars, nodeVars, storageVars,
                                     reportVars, telemetryVars, loggingVars,
                                     rateVars, scopesVars,
                                     traceIdVars, pollingVars, pingerVars>>
=============================================================================
