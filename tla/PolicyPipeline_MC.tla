------------------------- MODULE PolicyPipeline_MC -------------------------
(***************************************************************************)
(* Inputs of PolicyPipeline: single files that vary one comparison, one    *)
(* tree of conditions, one action, the variables or the envelope of a      *)
(* policy, and pairs of files composed into one.  A path describes the     *)
(* file it names.                                                          *)
(***************************************************************************)
EXTENDS PolicyPipeline

Str(s) == [str |-> s]
Comparison(field, op, value) == [map |-> [field |-> [path |-> field], operator |-> Str(op), value |-> value]]
Allow == [type |-> Str("allow")]
PlainCondition == Comparison(<<"request", "model">>, "==", Str("m"))
PlainRule == [name |-> "r", enabled |-> "unset", priority |-> 0, conditions |-> PlainCondition, actions |-> <<Allow>>]
PlainPolicy == [mpl_version |-> "1.0", name |-> "p", version |-> "1.0.0", variables |-> <<>>, rules |-> <<PlainRule>>,
                tests |-> <<>>]
ConditionFile(y) == [PlainPolicy EXCEPT !.rules[1].conditions = y]
ActionFile(y) == [PlainPolicy EXCEPT !.rules[1].actions = <<y>>]

Fields == {<<"request", "model">>, <<"request", "max_tokens">>, <<"request", "stream">>, <<"request", "messages">>,
           <<"response", "finish_reason">>, <<"response", "usage">>, <<"context", "time", "hour">>, <<"request", "nope">>,
           <<"request", "model", "name">>}
Operators == Equality \cup Membership \cup Ordering \cup {"contains", "matches", "starts_with", "~"}
Literals == {Str("m"), Str("bad regexp"), [int |-> 1], [bool |-> TRUE], [list |-> <<>>], [map |-> <<>>], Null,
             [ref |-> "v"], [binary |-> ""]}
Nested[n \in 0..11] == IF n = 0 THEN PlainCondition ELSE [map |-> [all |-> [list |-> <<Nested[n - 1]>>]]]
Number(n) == Comparison(<<"request", "max_tokens">>, "<", [int |-> n])
ConditionTrees ==
    {Nested[10], Nested[11], Str("model"), [list |-> <<>>], [list |-> <<Number(1)>>], [list |-> <<Number(0), Number(2)>>],
     [list |-> <<Number(1), Str("model")>>], [map |-> [any |-> [list |-> <<>>]]], [map |-> [any |-> [list |-> <<Number(1)>>]]],
     [map |-> [not |-> [list |-> <<Number(1)>>]]], [map |-> [not |-> [list |-> <<Number(1), Number(2)>>]]],
     [map |-> [all |-> Number(1)]], [map |-> [field |-> [path |-> <<"request", "model">>]]], Comparison(<<>>, "==", Str("m"))}
    \cup {[map |-> [function |-> Str(f), args |-> [list |-> a]]] :
            f \in {"has_pii", "len", "guess", ""}, a \in {<<>>, <<Str("m")>>, <<[ref |-> "v"]>>}}
    \cup {[map |-> [function |-> Str("has_pii")]], [map |-> [function |-> [int |-> 1]]],
          [map |-> [function |-> Str("len"), args |-> Str("m")]]}
Params ==
    {<<>>, [message |-> Str("m")], [message |-> [int |-> 1]], [message |-> Str("m"), level |-> Str("loud")],
     [fields |-> [list |-> <<>>], strategy |-> Str("replace")],
     [fields |-> [list |-> <<>>], strategy |-> Str("replace"), replacement |-> Str("x")],
     [field |-> Str("f"), value |-> Str("x")], [provider |-> Str("x")], [webhook |-> Str("x"), severity |-> Str("low")],
     [key |-> Str("k"), limit |-> [int |-> 1], window |-> [int |-> 1]], [limit |-> [int |-> 1], window |-> Str("daily")]}
Envelopes ==
    {[PlainPolicy EXCEPT !.mpl_version = "2.0"], [PlainPolicy EXCEPT !.name = "Not Kebab"], [PlainPolicy EXCEPT !.version = ""],
     [PlainPolicy EXCEPT !.rules = <<>>], [PlainPolicy EXCEPT !.rules[1].name = ""], [PlainPolicy EXCEPT !.rules[1].actions = <<>>],
     [PlainPolicy EXCEPT !.rules[1].conditions = Null], [PlainPolicy EXCEPT !.rules[1].enabled = "false"],
     [PlainPolicy EXCEPT !.rules = <<PlainRule, [PlainRule EXCEPT !.priority = 1]>>],
     [PlainPolicy EXCEPT !.rules[1].actions = <<Allow, [type |-> Str("deny"), message |-> Str("m")]>>],
     [PlainPolicy EXCEPT !.tests = <<[name |-> "t", request |-> TRUE, action |-> "allow"]>>],
     [PlainPolicy EXCEPT !.tests = <<[name |-> "t", request |-> FALSE, action |-> "allow"]>>],
     [PlainPolicy EXCEPT !.variables = "bad name" :> Str("x")], [PlainPolicy EXCEPT !.variables = "v" :> Null],
     [PlainPolicy EXCEPT !.rules[1].actions = <<[message |-> Str("m")]>>]}
VariableValues == {[int |-> 1]} \cup {[ref |-> n] : n \in {"v", "w", "x", "u"}}
WithVariables(vs) == [PlainPolicy EXCEPT !.variables = vs]
Mains == {WithVariables(vs) : vs \in [{"v"} -> VariableValues]}
Halves == {[WithVariables(vs) EXCEPT !.rules[1].name = "half"] : vs \in [{"w"} -> VariableValues]}

Documents ==
    {ConditionFile(Comparison(f, o, l)) : f \in Fields, o \in Operators, l \in Literals}
    \cup {ConditionFile(t) : t \in ConditionTrees}
    \cup {[WithVariables("v" :> [int |-> 1]) EXCEPT !.rules[1].conditions = Comparison(f, o, [ref |-> "v"])] :
            f \in Fields, o \in {"==", "<"}}
    \cup {ActionFile([type |-> Str(t)] @@ p) : t \in validActionTypes \cup {"tag"}, p \in Params}
    \cup Envelopes \cup {WithVariables(vs) : vs \in [{"v", "w", "x"} -> VariableValues]}
File(d) == [document |-> d]
Unparsable == {[garbage |-> TRUE]}
MCPolicyFiles == [f \in {File(d) : d \in Documents \cup Mains \cup Halves} \cup Unparsable |-> f]
MCCompositions ==
    {[main |-> File(d), includes |-> <<>>] : d \in Documents}
    \cup {[main |-> File(d), includes |-> i] : d \in Mains,
            i \in {<<File(h)>> : h \in Halves} \cup {<<File(h), File(h)>> : h \in Halves} \cup {<<u>> : u \in Unparsable}}
MCEvalContexts == [response : BOOLEAN, given : {{}, {"temperature", "max_tokens"}}]

=============================================================================
