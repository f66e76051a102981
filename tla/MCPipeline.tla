------------------------------ MODULE MCPipeline ------------------------------
(* Instances of Pipeline and AuditLog for TLC.  The two share no state: a      *)
(* request the guard refuses goes no further, and the pipeline's own rows are  *)
(* not budgeted.  So each is explored with the other at rest, which of them    *)
(* being chosen at the start.                                                  *)
EXTENDS Pipeline, AuditLog

VARIABLE moving

Start == Init /\ AuditInit /\ moving \in {"pipeline", "audit log"}

PipelineMoves == moving = "pipeline" /\ Next /\ UNCHANGED <<moving, auditVars>>

AuditLogMoves == moving = "audit log" /\ AuditNext /\ UNCHANGED <<moving, vars>>

EitherMoves == PipelineMoves \/ AuditLogMoves

EitherSpec == Start /\ [][EitherMoves]_<<moving, vars, auditVars>> /\ AuditFairness

=============================================================================
