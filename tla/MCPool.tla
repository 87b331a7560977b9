------------------------------ MODULE MCPool --------------------------------
(* The worker pool, the audit chain and the MCP servers. They share no     *)
(* state: a behaviour is one of its part alone, and TLC explores the sum   *)
(* of their state spaces.                                                  *)
EXTENDS MCWorkerPool, AuditChain, McpServers

CONSTANTS va, vb

MCVerdictOf == [x \in {va, vb} |-> IF x = va THEN "WARN" ELSE "FAIL"]

VARIABLE part

mcVars == <<part, poolVars, auditVars, mcpVars>>

MCInit ==
    /\ part \in {"pool", "audit", "mcp"}
    /\ PoolInit /\ AuditInit /\ McpInit
    /\ part # "mcp" => config = NoArgv

\* Only the chosen part moves.
Alone(x) ==
    /\ part = x /\ UNCHANGED part
    /\ (x # "pool") => UNCHANGED poolVars
    /\ (x # "audit") => UNCHANGED auditVars
    /\ (x # "mcp") => UNCHANGED mcpVars

MCNext ==
    \/ Alone("pool") /\ PoolNext
    \/ Alone("audit") /\ AuditNext
    \/ Alone("mcp") /\ McpNext

MCSpec == MCInit /\ [][MCNext]_mcVars
=============================================================================
