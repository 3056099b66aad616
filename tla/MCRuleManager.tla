--------------------------- MODULE MCRuleManager ---------------------------
(***************************************************************************)
(* A small instance of RuleManager for TLC: one rule of each table and the *)
(* two kinds of domain rules, and packets that some of them match.         *)
(***************************************************************************)
EXTENDS RuleManager

MCLower == [l \in {"www", "WWW", "site", "com"} |-> IF l = "WWW" THEN "www" ELSE l]
DomainRule(star, name) == [table |-> "domain", value |-> [star |-> star, name |-> name]]
MCRules == {[table |-> "ip", value |-> "host"], [table |-> "port", value |-> 443],
            [table |-> "app", value |-> "app"],
            DomainRule("front", <<"site", "com">>),
            DomainRule("none", <<"www", "site", "com">>)}
MCPackets == {[ip |-> "host", port |-> 443, app |-> "app", domain |-> name] :
                name \in {<<"WWW", "site", "com">>, <<"www", "site", "com">>, <<>>}}
=============================================================================
