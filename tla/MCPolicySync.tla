--------------------------- MODULE MCPolicySync -----------------------------
(* Two tenants; ta publishes two bundles, the second without d1 and "bad". *)
EXTENDS PolicySync

CONSTANTS ta, tb

MCBundle ==
    [t \in {ta, tb} |->
       IF t = ta
       THEN << [agents |-> {"a1"}, servers |-> {"bad"}, domains |-> {"d1"}],
               [agents |-> {"a2"}, servers |-> {"ok"}, domains |-> {}] >>
       ELSE << [agents |-> {"a1"}, servers |-> {}, domains |-> {"d2"}] >>]

MCVerdict == [s \in {"ok", "bad"} |-> IF s = "ok" THEN "WARN" ELSE "FAIL"]
=============================================================================
