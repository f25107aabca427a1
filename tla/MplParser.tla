----------------------------- MODULE MplParser -----------------------------
(***************************************************************************)
(* MPL documents into syntax trees (pkg/mpl/parser): the builder, and the  *)
(* composition of several files into one policy.                           *)
(*                                                                         *)
(* A YAML value is a record of one field that is named for its kind: [str],*)
(* [int], [bool] ...; a [map] holds a partial function of keys, a [list] a *)
(* sequence; [ref] is a string of the form {{ variables.name }}, of which  *)
(* only the name is kept, and [path] the parts of a string with dots.      *)
(***************************************************************************)
EXTENDS Integers, Sequences, SequencesExt, Functions, TLC

NotBuilt == [type |-> "error"]
Built(n) == n.type # "error"
Is(y, kind) == kind \in DOMAIN y
Has(m, k) == k \in DOMAIN m
Null == [null |-> TRUE]
Get(m, k) == IF Has(m, k) THEN m[k] ELSE Null

(* A reference keeps its text as the value and the name beside it; every    *)
(* number becomes a float; lists and objects are kept as they are.          *)
ValueType == [null |-> "null", str |-> "string", ref |-> "variable", int |-> "number", float |-> "number",
              bool |-> "boolean", list |-> "array", map |-> "object"]
buildValue(y) ==
    LET kinds == DOMAIN y \cap DOMAIN ValueType IN
    IF kinds = {} THEN NotBuilt ELSE [type |-> ValueType[CHOOSE k \in kinds : TRUE], value |-> y]

buildVariable(y) == buildValue(y)

buildSimpleCondition(m) ==
    LET value == buildValue(Get(m, "value")) IN
    IF ~Is(Get(m, "field"), "path") \/ ~Is(Get(m, "operator"), "str") \/ ~Built(value) THEN NotBuilt
    ELSE [type |-> "simple", field |-> m["field"].path, operator |-> m["operator"].str, value |-> value]

buildFunctionCondition(m) ==
    LET args == IF Has(m, "args") THEN m["args"] ELSE [list |-> <<>>] IN
    IF ~Is(m["function"], "str") \/ ~Is(args, "list") THEN NotBuilt
    ELSE LET nodes == [i \in DOMAIN args.list |-> buildValue(args.list[i])] IN
         IF \E i \in DOMAIN nodes : ~Built(nodes[i]) THEN NotBuilt
         ELSE [type |-> "function", function |-> m["function"].str, args |-> nodes]

RECURSIVE buildConditions(_)
Children(ys) == [i \in DOMAIN ys |-> buildConditions(ys[i])]
AllBuilt(nodes) == \A i \in DOMAIN nodes : Built(nodes[i])

buildLogicalCondition(type, y) ==
    IF ~Is(y, "list") THEN NotBuilt
    ELSE LET nodes == Children(y.list) IN IF AllBuilt(nodes) THEN [type |-> type, children |-> nodes] ELSE NotBuilt

(* The first of all, any, not and function that is there decides.           *)
buildConditionMap(m) ==
    IF Has(m, "all") THEN buildLogicalCondition("all", m["all"])
    ELSE IF Has(m, "any") THEN buildLogicalCondition("any", m["any"])
    ELSE IF Has(m, "not") THEN buildLogicalCondition("not", m["not"])
    ELSE IF Has(m, "function") THEN buildFunctionCondition(m)
    ELSE buildSimpleCondition(m)

(* A list is an implicit "all"; of one condition, that condition.           *)
buildConditionArray(ys) ==
    CASE Len(ys) = 0 -> NotBuilt
      [] Len(ys) = 1 -> buildConditions(ys[1])
      [] OTHER -> LET nodes == Children(ys) IN IF AllBuilt(nodes) THEN [type |-> "all", children |-> nodes] ELSE NotBuilt

buildConditions(y) ==
    CASE Is(y, "map") -> buildConditionMap(y.map)
      [] Is(y, "list") -> buildConditionArray(y.list)
      [] OTHER -> NotBuilt

(* Every key but "type" becomes a parameter: a parameter of that name       *)
(* cannot be given.                                                         *)
buildAction(m) ==
    LET params == [k \in DOMAIN m \ {"type"} |-> buildValue(m[k])] IN
    IF ~Is(Get(m, "type"), "str") \/ \E k \in DOMAIN params : ~Built(params[k]) THEN NotBuilt
    ELSE [type |-> m["type"].str, params |-> params]

NoConditions == [type |-> "none"]
buildRule(r) ==
    LET cond == IF r.conditions = Null THEN NoConditions ELSE buildConditions(r.conditions)
        actions == [i \in DOMAIN r.actions |-> buildAction(r.actions[i])]
    IN  IF ~Built(cond) \/ ~AllBuilt(actions) THEN NotBuilt
        ELSE [type |-> "rule", name |-> r.name, enabled |-> r.enabled # "false", priority |-> r.priority,
              conditions |-> cond, actions |-> actions]

(* A test needs a name, a request and an expected action.                   *)
buildTest(t) == IF t.name = "" \/ ~t.request \/ t.action = "" THEN NotBuilt ELSE [type |-> "test"]

buildPolicy(d) ==
    LET variables == [v \in DOMAIN d.variables |-> buildVariable(d.variables[v])]
        rules == [i \in DOMAIN d.rules |-> buildRule(d.rules[i])]
        tests == [i \in DOMAIN d.tests |-> buildTest(d.tests[i])]
    IN  IF AllBuilt(rules) /\ AllBuilt(tests) /\ \A v \in DOMAIN variables : Built(variables[v])
        THEN [type |-> "policy", mpl_version |-> d.mpl_version, name |-> d.name, version |-> d.version,
              variables |-> variables, rules |-> rules]
        ELSE NotBuilt

(* A file that is too large or no YAML has no document in it.               *)
Parse(file) == IF Has(file, "document") THEN buildPolicy(file.document) ELSE NotBuilt

-----------------------------------------------------------------------------
(* Composition: later variables win, rules are appended.                    *)
mergePolicy(main, included) ==
    [main EXCEPT !.variables = included.variables @@ @, !.rules = @ \o included.rules]

loadPolicyWithTracking(c, files, path) ==
    IF path \in c.visited THEN [visited |-> c.visited, loaded |-> [type |-> "skipped"]]
    ELSE [visited |-> c.visited \cup {path}, loaded |-> Parse(files[path])]

(* The stack of the composer is empty between two files, so nothing it      *)
(* reads is ever on it: a file that includes itself is skipped.             *)
ComposeFromIncludes(files, mainPath, includes) ==
    LET main == loadPolicyWithTracking([visited |-> {}], files, mainPath)
        Merge(acc, path) ==
            IF ~Built(acc.policy) THEN acc
            ELSE LET next == loadPolicyWithTracking(acc, files, path) IN
                 [visited |-> next.visited,
                  policy |-> CASE next.loaded.type = "error" -> NotBuilt
                               [] next.loaded.type = "skipped" -> acc.policy
                               [] OTHER -> mergePolicy(acc.policy, next.loaded)]
    IN  FoldLeft(Merge, [visited |-> main.visited, policy |-> main.loaded], includes).policy

(* ParseMulti and ComposeFromDirectory parse every path they are given.     *)
ParseMulti(files, paths) ==
    LET Merge(policy, path) ==
            LET next == Parse(files[path]) IN
            IF Built(policy) /\ Built(next) THEN mergePolicy(policy, next) ELSE NotBuilt
    IN  IF paths = <<>> THEN NotBuilt ELSE FoldLeft(Merge, Parse(files[paths[1]]), Tail(paths))
=============================================================================
