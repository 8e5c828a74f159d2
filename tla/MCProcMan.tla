----------------------------- MODULE MCProcMan -----------------------------
(***************************************************************************)
(* Instances of ProcMan: small numbers of processes, descriptors and pipes *)
(* and, per configuration, the system calls that its question is about.    *)
(***************************************************************************)
EXTENDS ProcMan

MCShared == ProgPaths \cup PipeDevs
MCUserPaths == {UserPath(f) : f \in UserFiles}

\* Which calls the programs of an instance make.
LifeOps == {"exit", "kill", "fork", "waitpid", "signal"}
PipeOps == {"kill", "fork", "pipe", "read", "write", "close", "signal"}
ExecOps == {"exit", "killed", "fork", "exec", "grow", "signal", "open", "create"}
=============================================================================
