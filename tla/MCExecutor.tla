------------------------------ MODULE MCExecutor ------------------------------
EXTENDS Executor

CONSTANTS c1, c2

MCCalls == {c1, c2}

\* The daemon refuses what has to be confirmed; a local run asks the operator.
Daemon == [mode |-> "daemon", confirm |-> FALSE, approves |-> {}]
StrictDaemon == [mode |-> "daemon", confirm |-> TRUE, approves |-> {"rejected"}]
LocalRun == [mode |-> "local", confirm |-> TRUE, approves |-> {"approved", "rejected", "error"}]
MCConfigs == {Daemon, StrictDaemon, LocalRun}

\* Two nodes of one agent share its worker; the other agents and configurations
\* are explored with one node.
MCInit ==
    /\ Init
    /\ <<config, agent[c1]>> \in
         {<<Daemon, "mailer">>, <<Daemon, "context_gatherer">>, <<StrictDaemon, "mailer">>,
          <<LocalRun, "mailer">>, <<LocalRun, "writer">>, <<LocalRun, "generic">>}
    /\ agent[c2] = "mailer" /\ reviewed[c2]

MCNext == Next /\ (config # Daemon \/ agent[c1] # "mailer" => UNCHANGED caller[c2])

MCSpec == MCInit /\ [][MCNext]_vars /\ Fairness
=============================================================================
