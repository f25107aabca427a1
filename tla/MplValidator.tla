---------------------------- MODULE MplValidator ----------------------------
(***************************************************************************)
(* Validation of a syntax tree (pkg/mpl/validator): the structural pass,   *)
(* and only if it finds nothing the semantic pass and the action pass.     *)
(* Errors are kept as sets of reasons.                                     *)
(***************************************************************************)
EXTENDS MplParser, FiniteSets

CONSTANTS KebabNames, Semvers, Identifiers   \* the strings that match the three patterns

Reason(condition, reason) == IF condition THEN {reason} ELSE {}

-----------------------------------------------------------------------------
(* The data model: a leaf is its type, an object the record of its fields.  *)
Leaf(t) == [type |-> t]
Object(fields) == [type |-> "object", children |-> fields]
Numbers(names) == [n \in names |-> Leaf("number")]
requestFields == Object([model |-> Leaf("string"), temperature |-> Leaf("number"), max_tokens |-> Leaf("number"),
    stream |-> Leaf("boolean"), user |-> Leaf("string"), messages |-> Leaf("array"), tools |-> Leaf("array"),
    top_p |-> Leaf("number"), n |-> Leaf("number")])
responseFields == Object([content |-> Leaf("string"), finish_reason |-> Leaf("string"),
    usage |-> Object(Numbers({"prompt_tokens", "completion_tokens", "total_tokens"}))])
contentFields == Object([
    pii_detection |-> Object([detected |-> Leaf("boolean"), types |-> Leaf("array")]),
    sentiment |-> Object([score |-> Leaf("number"), label |-> Leaf("string")]),
    sensitive_content |-> Object([detected |-> Leaf("boolean"), severity |-> Leaf("string"), categories |-> Leaf("array")]),
    prompt_injection |-> Object([detected |-> Leaf("boolean"), confidence |-> Leaf("number"), patterns |-> Leaf("array")])])
processingFields == Object([risk_score |-> Leaf("number"), complexity_score |-> Leaf("number"),
    token_estimate |-> Object(Numbers({"prompt_tokens", "completion_tokens", "total_tokens"})),
    cost_estimate |-> Object(Numbers({"prompt_cost", "completion_cost", "total_cost"})),
    content_analysis |-> contentFields,
    conversation_context |-> Object(Numbers({"turn_count", "total_tokens", "context_window_percent"}))])
contextFields == Object([environment |-> Leaf("string"), time |-> Object(Numbers({"hour", "day_of_week", "timestamp"})),
    user_attributes |-> Object([f \in {"tier", "department", "region"} |-> Leaf("string")]
        @@ Numbers({"requests_this_hour", "daily_cost", "monthly_cost", "daily_token_usage"}))])
DataModel == Object([request |-> requestFields, response |-> responseFields, processing |-> processingFields,
                     context |-> contextFields])

NoField == [type |-> "missing"]
LookupField(path) ==
    LET Step(node, part) ==
            IF "children" \notin DOMAIN node THEN NoField
            ELSE IF part \in DOMAIN node.children THEN node.children[part] ELSE NoField
    IN  FoldLeft(Step, DataModel, path)

-----------------------------------------------------------------------------
(* The structural pass.                                                     *)
maxDepth == 10
validateMetadata(p) ==
    Reason(p.mpl_version # "1.0", "mpl_version") \cup Reason(p.name \notin KebabNames, "name")
    \cup Reason(p.version \notin Semvers, "version") \cup Reason(p.rules = <<>>, "no rules")
validateVariables(p) ==
    Reason(\E v \in DOMAIN p.variables : v \notin Identifiers \/ p.variables[v].type = "null", "variable")

RECURSIVE validateConditionStructure(_, _)
validateConditionStructure(c, depth) ==
    IF depth > maxDepth THEN {"too deep"}
    ELSE CASE c.type = "simple" -> Reason(c.field = <<>> \/ c.operator = "", "incomplete condition")
           [] c.type \in {"all", "any"} -> Reason(c.children = <<>>, "no children")
                \cup UNION {validateConditionStructure(c.children[i], depth + 1) : i \in DOMAIN c.children}
           [] c.type = "not" -> Reason(Len(c.children) # 1, "not of one")
                \cup UNION {validateConditionStructure(c.children[i], depth + 1) : i \in DOMAIN c.children}
           [] c.type = "function" -> Reason(c.function = "", "no function")

validActionTypes == {"allow", "deny", "log", "redact", "modify", "route", "alert", "rate_limit", "budget"}
validateActionStructure(a) == Reason(a.type \notin validActionTypes, "action type")

(* A rule without a name is reported and looked at no further.              *)
validateRules(p) ==
    UNION {LET r == p.rules[i] IN
        IF r.name = "" THEN {"rule name"}
        ELSE Reason(\E j \in 1..(i - 1) : p.rules[j].name = r.name, "duplicate rule")
             \cup Reason(r.actions = <<>>, "no actions")
             \cup (IF r.conditions = NoConditions THEN {"no conditions"} ELSE validateConditionStructure(r.conditions, 0))
             \cup UNION {validateActionStructure(r.actions[j]) : j \in DOMAIN r.actions} : i \in DOMAIN p.rules}
ValidateStructural(p) == validateMetadata(p) \cup validateVariables(p) \cup validateRules(p)

-----------------------------------------------------------------------------
(* The semantic pass.  A variable refers to another one only if its whole   *)
(* value is a reference.                                                    *)
extractVariableReferences(value) == IF value.type = "variable" THEN {value.value.ref} ELSE {}

(* Depth first: s is [visited, inProgress, cycle].  A name that is not      *)
(* defined stays in progress.                                               *)
RECURSIVE checkVariableCycleShallow(_, _, _)
checkVariableCycleShallow(p, s, v) ==   \* faulty variant: forgets what is in progress
    LET entered == [s EXCEPT !.visited = @ \cup {v}, !.inProgress = {v}]
        refs == extractVariableReferences(p.variables[v])
        Follow(st, ref) ==
            IF ref \in st.inProgress THEN [st EXCEPT !.cycle = TRUE]
            ELSE IF ref \in st.visited THEN st ELSE checkVariableCycleShallow(p, st, ref)
    IN  IF v \notin DOMAIN p.variables THEN entered
        ELSE [FoldLeft(Follow, entered, SetToSeq(refs)) EXCEPT !.inProgress = @ \ {v}]
RECURSIVE checkVariableCycle(_, _, _)
checkVariableCycle(p, s, v) ==
    LET entered == [s EXCEPT !.visited = @ \cup {v}, !.inProgress = @ \cup {v}]
        refs == extractVariableReferences(p.variables[v])
        Follow(st, ref) ==
            IF ref \in st.inProgress THEN [st EXCEPT !.cycle = TRUE]
            ELSE IF ref \in st.visited THEN st ELSE checkVariableCycle(p, st, ref)
    IN  IF v \notin DOMAIN p.variables THEN entered
        ELSE [FoldLeft(Follow, entered, SetToSeq(refs)) EXCEPT !.inProgress = @ \ {v}]

(* The map of variables is walked in any order.                             *)
validateVariableReferences(p, order) ==
    LET Start(s, v) == IF v \in s.visited THEN s ELSE checkVariableCycle(p, s, v)
    IN  Reason(FoldLeft(Start, [visited |-> {}, inProgress |-> {}, cycle |-> FALSE], order).cycle, "circular")

Equality == {"==", "!="}
Membership == {"in", "not_in"}
Ordering == {"<", ">", "<=", ">="}
isValidOperatorForType(op, type) ==
    op \in CASE type = "string" -> Equality \cup Membership \cup {"contains", "matches", "starts_with", "ends_with"}
             [] type = "number" -> Equality \cup Ordering \cup Membership
             [] type \in {"boolean", "object"} -> Equality
             [] type = "array" -> {"contains"} \cup Membership
(* Faulty variant: membership is compared like equality.                    *)
isCompatibleTypeScalar(valueType, type, op) == (op = "contains" /\ type = "array") \/ valueType = type
isCompatibleType(valueType, type, op) ==
    CASE op \in Membership -> valueType = "array"
      [] op = "contains" /\ type = "array" -> TRUE
      [] OTHER -> valueType = type

(* A variable only has to exist; its type is not compared.                  *)
validateSimpleCondition(p, c) ==
    LET field == LookupField(c.field) IN
    IF field = NoField THEN {"undefined field"}
    ELSE Reason(~isValidOperatorForType(c.operator, field.type), "operator")
         \cup IF c.value.type = "variable" THEN Reason(c.value.value.ref \notin DOMAIN p.variables, "undefined variable")
              ELSE Reason(~isCompatibleType(c.value.type, field.type, c.operator), "value type")

supportedFunctions == [has_pii |-> 0..1, has_injection |-> 0..1, has_sensitive |-> 0..2, len |-> {1}, lower |-> {1},
                       upper |-> {1}, contains |-> {2}]
validateFunctionCondition(p, c) ==
    IF c.function \notin DOMAIN supportedFunctions THEN {"unknown function"}
    ELSE Reason(Len(c.args) \notin supportedFunctions[c.function], "arguments")
         \cup Reason(\E i \in DOMAIN c.args : c.args[i].type = "variable" /\ c.args[i].value.ref \notin DOMAIN p.variables,
                     "undefined variable")
RECURSIVE validateCondition(_, _)
validateCondition(p, c) ==
    CASE c.type = "simple" -> validateSimpleCondition(p, c)
      [] c.type = "function" -> validateFunctionCondition(p, c)
      [] c.type \in {"all", "any", "not"} -> UNION {validateCondition(p, c.children[i]) : i \in DOMAIN c.children}

ValidateSemantic(p, order) ==
    validateVariableReferences(p, order) \cup UNION {validateCondition(p, p.rules[i].conditions) : i \in DOMAIN p.rules}

-----------------------------------------------------------------------------
(* The action pass.                                                         *)
Missing(a, k) == k \notin DOMAIN a.params
Typed(a, k, types) == Missing(a, k) \/ a.params[k].type \in types \cup {"variable"}
(* Only a literal string is compared with the allowed values.               *)
Chosen(a, k, values) == Missing(a, k) \/ a.params[k].type # "string" \/ a.params[k].value.str \in values

validateAllowAction(a) == DOMAIN a.params = {}
validateDenyAction(a) == ~Missing(a, "message") /\ Typed(a, "message", {"string"}) /\ Typed(a, "code", {"string"})
validateLogAction(a) == ~Missing(a, "message") /\ Chosen(a, "level", {"debug", "info", "warn", "error"})
validateRedactAction(a) ==
    /\ ~Missing(a, "fields") /\ Typed(a, "fields", {"array"}) /\ Chosen(a, "strategy", {"mask", "remove", "replace"})
    /\ ~Missing(a, "strategy") /\ a.params["strategy"].value = [str |-> "replace"] => ~Missing(a, "replacement")
validateModifyAction(a) == ~Missing(a, "field") /\ ~Missing(a, "value")
validateRouteAction(a) == ~Missing(a, "provider") \/ ~Missing(a, "model")
validateAlertAction(a) == ~Missing(a, "webhook") /\ Chosen(a, "severity", {"low", "medium", "high", "critical"})
validateRateLimitAction(a) ==
    /\ \A k \in {"key", "limit", "window"} : ~Missing(a, k)
    /\ Typed(a, "limit", {"number"}) /\ Typed(a, "window", {"number"})
(* The builder gives no action a parameter called "type".                   *)
validateBudgetAction(a) ==
    /\ ~Missing(a, "type") /\ Chosen(a, "type", {"tokens", "cost"})
    /\ ~Missing(a, "limit") /\ Typed(a, "limit", {"number"})
    /\ Chosen(a, "window", {"hourly", "daily", "weekly", "monthly"})

validateAction(a) ==
    CASE a.type = "allow" -> validateAllowAction(a) [] a.type = "deny" -> validateDenyAction(a)
      [] a.type = "log" -> validateLogAction(a) [] a.type = "redact" -> validateRedactAction(a)
      [] a.type = "modify" -> validateModifyAction(a) [] a.type = "route" -> validateRouteAction(a)
      [] a.type = "alert" -> validateAlertAction(a) [] a.type = "rate_limit" -> validateRateLimitAction(a)
      [] a.type = "budget" -> validateBudgetAction(a)
detectConflictingActions(r) == {"allow", "deny"} \subseteq {r.actions[i].type : i \in DOMAIN r.actions}
ValidateActions(p) ==
    UNION {Reason(detectConflictingActions(p.rules[i]), "conflict") : i \in DOMAIN p.rules}
    \cup UNION {UNION {Reason(~validateAction(p.rules[i].actions[j]), "parameters") : j \in DOMAIN p.rules[i].actions} :
                i \in DOMAIN p.rules}

ValidatePolicy(p, order) ==
    LET structural == ValidateStructural(p) IN
    IF structural # {} THEN structural ELSE ValidateSemantic(p, order) \cup ValidateActions(p)
=============================================================================
