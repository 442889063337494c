----------------------------- MODULE MCConnector -----------------------------
(* Small instances of Connector: one kernel request per kind of service.    *)
EXTENDS Connector

MCKuRequests == {"kExit", "kMissing", "kOk", "kFlaky"}

MCServiceOf == [k \in MCKuRequests |->
  CASE k = "kExit" -> "exit" [] k = "kMissing" -> "missing"
    [] k = "kOk" -> "ok" [] k = "kFlaky" -> "flaky"]
=============================================================================
