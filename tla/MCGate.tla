------------------------------ MODULE MCGate --------------------------------
(* The approval gate with the calls of the daemon alone, and the gate with *)
(* config_sync beside the daemon. A behaviour is one of its part alone.    *)
EXTENDS MCApprovalGate, RemoteApprovals

VARIABLE part

mcVars == <<part, remoteVars>>

MCInit ==
    /\ part \in {"gate", "remote"}
    /\ RemoteInit
    /\ part = "gate" => native = {}

MCNext ==
    /\ UNCHANGED part
    /\ \/ /\ part = "gate"
          /\ UNCHANGED <<native, queueVars, waiting, born>>
          /\ UNCHANGED <<cloudVars, roundVars, historyVars>>
          /\ GateNext
       \/ part = "remote" /\ RemoteNext

MCSpec == MCInit /\ [][MCNext]_mcVars
=============================================================================
