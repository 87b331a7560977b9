--------------------------- MODULE MCApprovalGate ---------------------------
(* Two actions, q routed to the Enterprise cloud, and one task.             *)
EXTENDS ApprovalGate

CONSTANTS p, q, t

MCActions == {p, q}

MCTasks == {t}

MCEnterprise == {q}
=============================================================================
