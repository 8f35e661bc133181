--------------------------- MODULE MCEntryScenarios ---------------------------
(***************************************************************************)
(* The entry store in two scenarios on the same variables, of which the    *)
(* first state picks one: every mixture of writes, corrections and status  *)
(* merges under a clock that is set back ("history"), and deletes with all *)
(* that may change between preview and confirmation ("deletes").           *)
(***************************************************************************)
EXTENDS MCEntryStore

VARIABLE scenario  \* what the clients do

allVars == <<scenario, vars>>

Deletes == INSTANCE EntryStore WITH
  StatusKeys <- MCNone, LogContents <- MCLogs, AllowNamespaceDelete <- TRUE,
  ClockStepsBack <- FALSE, MaxTime <- 2, MaxRevs <- 3, MaxTokens <- 1

ScenarioInit == scenario \in {"history", "deletes"} /\ Init

ScenarioNext ==
  /\ \/ scenario = "history" /\ Next
     \/ scenario = "deletes" /\ Deletes!Next
  /\ UNCHANGED scenario

ScenarioSpec == ScenarioInit /\ [][ScenarioNext]_allVars

=============================================================================
