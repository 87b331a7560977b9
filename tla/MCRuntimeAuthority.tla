------------------------ MODULE MCRuntimeAuthority --------------------------
(* One tenant, paired twice.                                               *)
EXTENDS RuntimeAuthority

MCPairings == [tenant : {"a"}, key : {1, 2}]
=============================================================================
