---------------------------- MODULE MCRuleReload ----------------------------
(* RuleReload with one rule set of each behaviour, two or three contents.  *)
EXTENDS RuleReload

MCFiles == {1, 2}
MCKinds == {"ml", "signals", "detector", "templates", "ip_reputation", "injection_strategy",
            "tls_fingerprints", "learned", "payloads"}
Rule(key, val, any) == [key |-> key, val |-> val, any |-> any, cidrs |-> <<val>>]
One == [knob |-> 1, fixed |-> 1, items |-> <<Rule("a", 1, TRUE)>>]
Two == [knob |-> 2, fixed |-> 0, items |-> <<Rule("a", 2, FALSE), Rule("b", 0, TRUE)>>]
MCContents == {One, Two}
MCMaxChanges == [k \in MCKinds |-> IF k \in {"ml"} THEN 2 ELSE 1]
MCRelease == [v1 |-> [f \in {1} |-> One], v2 |-> [f \in {1, 2} |-> Two]]
=============================================================================
