------------------------------ MODULE MCBootstrap ------------------------------
EXTENDS Bootstrap

\* Every kind of component is in one of these specs; each is a spec the
\* admission webhook accepts.
MCSpecs == {{"TabletNode", "Scheduler", "ControllerAgent", "QueryTracker",
             "YqlAgent"},
            {"DataNode", "ExecNode", "Scheduler", "ControllerAgent",
             "Strawberry"},
            {"UI", "RpcProxy", "TcpProxy", "MasterCache"},
            {"TabletNode"}}

\* A component is added to a cluster that is coming up or running.
MCEdits == {<<{"TabletNode"}, {"TabletNode", "QueueAgent"}>>}

MCPrompt == {"Discovery", "ControllerAgent", "DataNode", "MasterCache",
             "Scheduler", "QueryTracker", "YqlAgent", "RpcProxy", "TcpProxy",
             "Strawberry"}
================================================================================
