--------------------------- MODULE MCSourceAccess ---------------------------
(* Two JSON-RPC sources and a REST source; policies that allow both RPC      *)
(* sources, one of them, mixed kinds, a source without an adapter, and none. *)
EXTENDS SourceAccess

CONSTANTS SharedProvider    \* the two RPC sources have one provider

MCRequestKind == [r \in Requests |-> "json_rpc"]
MCAdapterKind == [s \in Sources |-> IF s = "rest" THEN "rest" ELSE "json_rpc"]
MCProviderOf == [s \in Sources |-> IF SharedProvider THEN "shared" ELSE s]

Policy(rule, order, fallback, offline) ==
    [rule |-> rule, order |-> order, allowed |-> {order[i] : i \in DOMAIN order},
     fallback |-> fallback, offline |-> offline]

MCPolicies ==
    {Policy("allowed", <<"main", "spare">>, TRUE, FALSE),
     Policy("allowed", <<"spare">>, FALSE, FALSE),
     Policy("allowed", <<"rest", "main">>, TRUE, FALSE),
     Policy("allowed", <<"gone", "main">>, FALSE, FALSE),
     Policy("allowed", <<"main">>, FALSE, TRUE),
     Policy("unconfirmed", <<"main">>, FALSE, FALSE),
     Policy("restricted", <<"main">>, FALSE, FALSE)}
TwoSources == {Policy("allowed", <<"main", "spare">>, TRUE, FALSE)}
=============================================================================
