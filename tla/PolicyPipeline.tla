--------------------------- MODULE PolicyPipeline ---------------------------
(***************************************************************************)
(* A policy on its way from its files to a decision: composed              *)
(* (MplParser), validated (MplValidator), and its conditions evaluated by  *)
(* the engine (policy/engine: field.go and operators.go).  The operators    *)
(* that look into text may answer either way; what matters is whether they  *)
(* answer.                                                                 *)
(***************************************************************************)
EXTENDS MplValidator

CONSTANTS PolicyFiles,     \* path -> file, for each case
          Compositions,    \* [files, main, includes]
          EvalContexts     \* what is known of a request when rules are evaluated

VARIABLES composition, policy, verdict, pipelineStage
pipelineVars == <<composition, policy, verdict, pipelineStage>>

-----------------------------------------------------------------------------
(* Extracting a field: [go |-> its Go type, of |-> its value], or NotFound.  *)
NotFound == [go |-> "error"]
Go(type, value) == [go |-> type, of |-> value]

EnrichedRequest == [requestid |-> "string", modelfamily |-> "string", pricingtier |-> "string",
    estimatedlatency |-> "duration", complexityscore |-> "int", riskscore |-> "int", processingduration |-> "duration",
    originalrequest |-> "pointer", tokenestimate |-> "pointer", costestimate |-> "pointer",
    contentanalysis |-> "pointer", conversationcontext |-> "pointer"]
EnrichedResponse == [requestid |-> "string", tokenefficiency |-> "float64", processingduration |-> "duration"]
    @@ [f \in {"originalresponse", "tokenusage", "costestimate", "contentanalysis", "finishreasonanalysis",
               "latencybreakdown", "qualitymetrics"} |-> "pointer"]
ContentAnalysis == [f \in {"piidetection", "sensitivecontent", "promptinjection", "sentiment"} |-> "pointer"]
    @@ [language |-> "string", wordcount |-> "int", sentencecount |-> "int"]
ConversationContext == [turncount |-> "int", messagecount |-> "int", contextwindowusage |-> "int",
    averagemessagelength |-> "int", contextwindowpercent |-> "float64", systemprompts |-> "slice",
    hasconversationhistory |-> "bool"]
TokenEstimate == [f \in {"prompttokens", "estimatedcompletiontokens", "totaltokens", "systemprompttokens",
    "messagetokens", "tooltokens", "overheadtokens"} |-> "int"] @@ [model |-> "string", confidence |-> "float64"]
CostEstimate == [promptcost |-> "float64", completioncost |-> "float64", totalcost |-> "float64", model |-> "string",
    provider |-> "string", pricingtier |-> "string", currency |-> "string"]
TokenUsage == [f \in {"prompttokens", "completiontokens", "totaltokens", "cachedtokens"} |-> "int"]

(* Names are compared without case, and an underscore matches nothing; a    *)
(* pointer is not followed.                                                 *)
extractFieldReflection(struct, path) ==
    IF Len(path) = 1 /\ path[1] \in DOMAIN struct THEN Go(struct[path[1]], 1) ELSE NotFound

requestShortcuts == [request_id |-> "string", model |-> "string", model_family |-> "string", tokens |-> "int",
    prompt_tokens |-> "int", estimated_cost |-> "float64", risk_score |-> "int", complexity_score |-> "int",
    temperature |-> "float64", max_tokens |-> "int", stream |-> "bool"]
extractRequestField(path, ctx) ==
    LET f == path[1] IN
    CASE Len(path) = 1 /\ f \in DOMAIN requestShortcuts ->
            IF f \in {"temperature", "max_tokens"} \ ctx.given THEN NotFound ELSE Go(requestShortcuts[f], 1)
      [] Len(path) >= 2 /\ f = "content_analysis" -> extractFieldReflection(ContentAnalysis, Tail(path))
      [] Len(path) >= 2 /\ f = "conversation_context" -> extractFieldReflection(ConversationContext, Tail(path))
      [] Len(path) >= 2 /\ f = "token_estimate" -> extractFieldReflection(TokenEstimate, Tail(path))
      [] Len(path) >= 2 /\ f = "cost_estimate" -> extractFieldReflection(CostEstimate, Tail(path))
      [] OTHER -> extractFieldReflection(EnrichedRequest, path)

responseShortcuts == [request_id |-> "string", tokens |-> "int", prompt_tokens |-> "int", completion_tokens |-> "int",
    finish_reason |-> "string", actual_cost |-> "float64"]
extractResponseField(path, ctx) ==
    LET f == path[1] IN
    CASE ~ctx.response -> NotFound
      [] ctx.response /\ Len(path) = 1 /\ f \in DOMAIN responseShortcuts -> Go(responseShortcuts[f], 1)
      [] ctx.response /\ Len(path) >= 2 /\ f = "content_analysis" -> extractFieldReflection(ContentAnalysis, Tail(path))
      [] ctx.response /\ Len(path) >= 2 /\ f = "token_usage" -> extractFieldReflection(TokenUsage, Tail(path))
      [] ctx.response /\ Len(path) >= 2 /\ f = "cost_estimate" -> extractFieldReflection(CostEstimate, Tail(path))
      [] OTHER -> extractFieldReflection(EnrichedResponse, path)

extractMetadataField(path) == IF path[1] = "request_id" THEN Go("string", 1) ELSE NotFound

extractField(path, ctx) ==
    CASE Len(path) < 2 -> NotFound
      [] Len(path) >= 2 /\ path[1] = "request" -> extractRequestField(Tail(path), ctx)
      [] Len(path) >= 2 /\ path[1] = "response" -> extractResponseField(Tail(path), ctx)
      [] Len(path) >= 2 /\ path[1] = "metadata" -> extractMetadataField(Tail(path))
      [] OTHER -> NotFound

-----------------------------------------------------------------------------
(* Operators: the answers that are possible.  A reference to a variable is  *)
(* compared as the text it is.                                              *)
Numeric == {"int", "float64"}   \* a time.Duration is none of the types of the switch
Expected(value) ==
    CASE value.type = "number" -> Go("float64", IF Is(value.value, "int") THEN value.value.int ELSE value.value.float)
      [] value.type \in {"string", "variable"} -> Go("string", value.value)
      [] value.type = "boolean" -> Go("bool", 1) [] value.type = "array" -> Go("slice", 1)
      [] value.type = "object" -> Go("map", 1) [] value.type = "null" -> Go("nil", 1)
Answer(b) == IF b THEN {"yes"} ELSE {"no"}
Either == {"yes", "no"}

convertToFloat64(v) == v.go \in Numeric
evaluateEqual(actual, expected) ==
    CASE expected.go = "nil" -> {"no"}
      [] convertToFloat64(actual) /\ convertToFloat64(expected) -> Answer(actual.of = expected.of)
      [] actual.go # expected.go /\ expected.go # "nil" -> {"no"}
      [] OTHER -> Either
toNumeric(actual, expected, answer) == IF convertToFloat64(actual) /\ convertToFloat64(expected) THEN Answer(answer) ELSE {"error"}
(* toString always succeeds, so that a list is searched as printed text.    *)
evaluateContains(actual, expected) == Either
evaluateMatches(actual, expected) ==
    IF expected.go # "string" THEN {"error"} ELSE IF expected.of = [str |-> "bad regexp"] THEN {"error"} ELSE Either
evaluateIn(actual, expected) == IF expected.go = "slice" THEN Either ELSE {"error"}
Negated(answers) == {CASE a = "yes" -> "no" [] a = "no" -> "yes" [] OTHER -> a : a \in answers}

evaluateOperator(op, actual, expected) ==
    CASE op = "==" -> evaluateEqual(actual, expected)
      [] op = "!=" -> Negated(evaluateEqual(actual, expected))
      [] op = "<" -> toNumeric(actual, expected, actual.of < expected.of)
      [] op = ">" -> toNumeric(actual, expected, actual.of > expected.of)
      [] op = "<=" -> toNumeric(actual, expected, actual.of <= expected.of)
      [] op = ">=" -> toNumeric(actual, expected, actual.of >= expected.of)
      [] op \in {"contains", "starts_with", "ends_with"} -> evaluateContains(actual, expected)
      [] op = "matches" -> evaluateMatches(actual, expected)
      [] op = "in" -> evaluateIn(actual, expected)
      [] op = "not_in" -> Negated(evaluateIn(actual, expected))
      [] OTHER -> {"error"}

-----------------------------------------------------------------------------
PipelineInit ==
    /\ composition \in Compositions /\ pipelineStage = "files" /\ policy = NotBuilt /\ verdict = {}

ComposePolicy ==
    /\ pipelineStage = "files"
    /\ \/ policy' = ComposeFromIncludes(PolicyFiles, composition.main, composition.includes)
       \/ policy' = ParseMulti(PolicyFiles, <<composition.main>> \o composition.includes)
    /\ pipelineStage' = IF Built(policy') THEN "built" ELSE "rejected"
    /\ UNCHANGED <<composition, verdict>>

CheckPolicy ==
    /\ pipelineStage = "built"
    /\ \E order \in SetToSeqs(DOMAIN policy.variables) : verdict' = ValidatePolicy(policy, order)
    /\ pipelineStage' = IF verdict' = {} THEN "accepted" ELSE "rejected"
    /\ UNCHANGED <<composition, policy>>

PipelineNext == ComposePolicy \/ CheckPolicy

-----------------------------------------------------------------------------
RECURSIVE Comparisons(_)
Comparisons(c) ==
    CASE c.type = "simple" -> {c}
      [] c.type \in {"all", "any", "not"} -> UNION {Comparisons(c.children[i]) : i \in DOMAIN c.children}
      [] OTHER -> {}

(* When the field is there and the value is a literal, and a pattern        *)
(* compiles, the operator of a comparison does not fail.                    *)
ComparisonsSucceed ==
    \A i \in DOMAIN policy.rules : \A c \in Comparisons(policy.rules[i].conditions), ctx \in EvalContexts :
        LET field == extractField(c.field, ctx) IN
        /\ field # NotFound /\ c.value.type # "variable"
        /\ c.operator = "matches" => c.value.value # [str |-> "bad regexp"]
        => "error" \notin evaluateOperator(c.operator, field, Expected(c.value))

Refers(v) == extractVariableReferences(policy.variables[v])
Circular == \E S \in SUBSET DOMAIN policy.variables : S # {} /\ \A v \in S : Refers(v) \cap S # {}
Undefined == \E v \in DOMAIN policy.variables : ~(Refers(v) \subseteq DOMAIN policy.variables)

(***************************************************************************)
(* The engine can answer every comparison of a policy that was accepted,   *)
(* whatever files it was composed of, although validation works on the      *)
(* types of the data model and the engine on the Go types it finds at run   *)
(* time; and no circle of variables is accepted whichever files its members *)
(* come from and in whatever order the map of variables is walked, while a  *)
(* circle is reported only if there is one or a variable that is referred   *)
(* to is not defined.  (validator.validateSimpleCondition,                  *)
(* checkVariableCycle, engine.evaluateOperator)                             *)
(***************************************************************************)
AcceptedPolicyIsEvaluable ==
    /\ pipelineStage = "accepted" => ComparisonsSucceed /\ ~Circular
    /\ Built(policy) /\ pipelineStage # "built" /\ "circular" \in verdict => Circular \/ Undefined
=============================================================================
