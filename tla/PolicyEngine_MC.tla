-------------------------- MODULE PolicyEngine_MC --------------------------
(* Two policy files, five policies over two fields, for PolicyEngine.      *)
EXTENDS PolicyEngine

Always == [type |-> "none"]
F == [type |-> "simple", field |-> "f"]
G == [type |-> "simple", field |-> "g"]
NotG == [type |-> "not", children |-> <<G>>]
Either == [type |-> "any", children |-> <<F, G>>]
Both == [type |-> "all", children |-> <<F, NotG>>]
Fn == [type |-> "function", field |-> "g"]
Unknown == [type |-> "function", field |-> "unknown"]
EitherUnknown == [type |-> "any", children |-> <<F, Unknown>>]
Neither == [type |-> "not", children |-> <<EitherUnknown>>]
MCConditions == {Always, F, G, NotG, Either, Both, Fn, Unknown, EitherUnknown, Neither}

Action(t, p) == [type |-> t, param |-> p]
Rule(n, prio, c, as) == [name |-> n, enabled |-> TRUE, priority |-> prio, cond |-> c, actions |-> as]
Disabled(r) == [r EXCEPT !.enabled = FALSE]
Policy(n, tag, rules) == [name |-> n, tag |-> tag, rules |-> rules]

\* An allow that overrides the deny of its policy; a deny filed under
\* monitoring; a policy with one rule too many.
Guarded == Policy(1, 0, <<Rule(1, 0, Both, <<Action("deny", None)>>),
                          Rule(2, 200, Either, <<Action("tag", "t"), Action("allow", None)>>)>>)
Monitor == Policy(1, Low, <<Rule(1, 0, F, <<Action("redact", None), Action("deny", None)>>),
                            Rule(2, 0, Neither, <<Action("log", None)>>)>>)
TooBig == Policy(1, 0, <<Rule(1, 0, F, <<Action("deny", None)>>), Rule(2, 0, G, <<Action("log", None)>>),
                         Rule(3, 0, Fn, <<Action("allow", None)>>)>>)
\* Routing and transformation; a deny behind a rule that is switched off.
Routing2 == Policy(2, 0, <<Rule(1, 0, Always, <<Action("modify", "m"), Action("route", None)>>),
                           Rule(2, 0, G, <<Action("route", "r")>>)>>)
Blocking2 == Policy(2, 0, <<Rule(1, 0, Fn, <<Action("deny", None)>>),
                            Disabled(Rule(2, 0, Always, <<Action("deny", None)>>))>>)

MCContents == [f \in {"a.yaml", "b.yaml"} |->
                 IF f = "a.yaml" THEN {Guarded, Monitor, TooBig} ELSE {Routing2, Blocking2}]
Decided == [{"f", "g"} -> {"yes", "no"}]
Undecided == {q \in [{"f", "g"} -> {"yes", "no", "missing", "error"}] :
                \/ q["f"] = "missing" /\ q["g"] = "no"
                \/ q["f"] \in {"error", "no"} /\ q["g"] = "missing"
                \/ q["f"] = "missing" /\ q["g"] = "error"}

\* A directory that changes; a directory and requests, in all modes those with
\* missing fields; a single file whose FileSource, as in the code, sends no
\* events, and a caller of ReloadPolicies; a directory that such a caller and
\* the watcher reload.
Modes == {"fail-open", "fail-closed", "fail-safe-default"}
Base == [walk |-> <<"a.yaml", "b.yaml">>, dir |-> TRUE, notifies |-> TRUE, callers |-> {},
         requests |-> {}, modes |-> {"fail-closed"}, edits |-> 2, calls |-> 2]
Serving == [Base EXCEPT !.requests = Decided, !.edits = 1, !.calls = 1]
Guessing == [Serving EXCEPT !.requests = Undecided, !.modes = Modes, !.edits = 0]
Single == [Base EXCEPT !.walk = <<"a.yaml">>, !.dir = FALSE, !.notifies = FALSE,
                    !.callers = Callers]
Overlapping == [Base EXCEPT !.callers = Callers, !.edits = 1, !.calls = 1]
MCSetups == {Base, Serving, Guessing, Single, Overlapping}
=============================================================================
