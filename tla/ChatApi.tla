------------------------------ MODULE ChatApi ------------------------------
(***************************************************************************)
(* What a chat request becomes on its way to a provider and what the        *)
(* provider's answer becomes on its way back (pkg/proxy, handlers/chat.go,  *)
(* providers/openai, anthropic and generic): the conversions, the checks    *)
(* between them and the status an error is reported with.                   *)
(*                                                                         *)
(* A text is a sequence of words; joining texts with a space joins the      *)
(* sequences.  A content is [null], [text] or [parts]; a number with a      *)
(* fraction is in tenths.                                                   *)
(***************************************************************************)
EXTENDS Integers, Sequences, SequencesExt, FiniteSets, Functions

(* The error kinds are the error types of pkg/proxy and pkg/providers.      *)
Error(kind, status) == [error |-> kind, status |-> status]
IsError(x) == "error" \in DOMAIN x

(* The elements of s at the positions in I, in their order: those among the *)
(* first n, for every n, and all of them.                                   *)
TakenBy(s, I) ==
    LET taken[n \in 0..Len(s)] ==
            IF n = 0 THEN <<>> ELSE IF n \in I THEN Append(taken[n - 1], s[n]) ELSE taken[n - 1]
    IN  taken
Taken(s, I) == TakenBy(s, I)[Len(s)]

(* The loop over parts or blocks that collects their text.                  *)
CollectText(parts) ==
    LET text[n \in 0..Len(parts)] ==
            IF n = 0 THEN <<>> ELSE IF parts[n].type = "text" THEN text[n - 1] \o parts[n].text ELSE text[n - 1]
    IN  text[Len(parts)]

-----------------------------------------------------------------------------
(* ChatCompletionRequest.Validate.  A missing option is not there.          *)
OptionRange == [temperature |-> 0..20, top_p |-> 0..10, max_tokens |-> Nat \ {0}, n |-> Nat \ {0}, stop |-> 0..4,
                presence_penalty |-> -20..20, frequency_penalty |-> -20..20]
ValidRequest(r) ==
    /\ r.model # "" /\ r.messages # <<>>
    /\ \A o \in DOMAIN r.options : r.options[o] \in OptionRange[o]
    /\ \A i \in DOMAIN r.messages : LET m == r.messages[i] IN m.role # "" /\ (m.content # [null |-> TRUE] \/ m.calls # <<>>)

ParseChatCompletionRequest(body) ==
    CASE body.kind = "unreadable" -> Error("internal", 0)
      [] body.kind \in {"too large", "malformed"} -> Error("request", 0)
      [] OTHER -> IF ValidRequest(body.request) THEN body.request ELSE Error("request", 0)

-----------------------------------------------------------------------------
(* To the provider-agnostic request.  The text of the parts is kept, images *)
(* and unknown parts are skipped; a content that is neither a text nor a    *)
(* list is printed as Go prints it, which is one word here.  An option that is not set is zero; n,    *)
(* the seed and the response format are not passed on.                      *)
convertMultimodalContent(parts) == CollectText(parts)
convertMessageContent(content) ==
    CASE "null" \in DOMAIN content -> <<>>
      [] "text" \in DOMAIN content -> content.text
      [] "parts" \in DOMAIN content -> convertMultimodalContent(content.parts)
      [] OTHER -> <<content.value>>
PassedOn == {"temperature", "max_tokens", "top_p", "stop", "presence_penalty", "frequency_penalty"}
convertToProviderRequest(r) ==
    [model |-> r.model, stream |-> r.stream, tools |-> r.tools,
     messages |-> [i \in DOMAIN r.messages |->
         [role |-> r.messages[i].role, content |-> convertMessageContent(r.messages[i].content), calls |-> r.messages[i].calls]],
     options |-> [o \in PassedOn |-> IF o \in DOMAIN r.options THEN r.options[o] ELSE 0]]

(* A model is named by its prefix.  The map of prefixes and the map of      *)
(* providers are walked in any order.                                       *)
modelPrefixes == [x \in {"gpt-", "gpt4", "text-davinci"} |-> "openai"] @@ [x \in {"claude-", "anthropic."} |-> "anthropic"]
    @@ [x \in {"gemini-"} |-> "google"] @@ [x \in {"command"} |-> "cohere"] @@ [x \in {"mistral-", "mixtral"} |-> "mistral"]
    @@ [x \in {"llama-"} |-> "meta"]
selectProviderByModel(healthy, model) == IF model \in DOMAIN modelPrefixes THEN healthy \cap {modelPrefixes[model]} ELSE {}
selectProviderFromManager(healthy, model) ==
    LET byModel == selectProviderByModel(healthy, model) IN IF byModel = {} THEN healthy ELSE byModel

-----------------------------------------------------------------------------
(* The adapters.  A provider that is not Anthropic speaks OpenAI's format.  *)
NonZeroOptions(options) == Restrict(options, {o \in DOMAIN options : options[o] # 0})

(* The tool calls of earlier messages are not sent along.                   *)
openaiTransformRequest(r) ==
    [model |-> r.model, tools |-> r.tools, options |-> NonZeroOptions(r.options),
     messages |-> [i \in DOMAIN r.messages |-> [role |-> r.messages[i].role, content |-> r.messages[i].content]]]

validateMessageSequence(messages) ==
    messages # <<>> => /\ messages[1].role = "user"
                       /\ \A i \in 2..Len(messages) : messages[i].role # messages[i - 1].role

(* The last system message is the system prompt; max_tokens is required.    *)
NonSystem(messages) == {i \in DOMAIN messages : messages[i].role # "system"}
anthropicTransformRequest(r) ==
    LET others == Taken(r.messages, NonSystem(r.messages))
        systems == Taken(r.messages, DOMAIN r.messages \ NonSystem(r.messages))
        messages == [i \in DOMAIN others |-> [role |-> others[i].role, content |-> others[i].content]]
        options == NonZeroOptions(Restrict(r.options, {"temperature", "top_p", "stop", "max_tokens"}))
    IN  IF ~validateMessageSequence(messages) THEN Error("validation", 0)
        ELSE [model |-> r.model, tools |-> r.tools, messages |-> messages,
              system |-> IF systems = <<>> THEN <<>> ELSE Last(systems).content,
              options |-> options @@ [max_tokens |-> 4096]]

transformRequest(provider, r) == IF provider = "anthropic" THEN anthropicTransformRequest(r) ELSE openaiTransformRequest(r)

normalizeFinishReason(reason) == IF reason = "function_call" THEN "tool_calls" ELSE reason
normalizeStopReason(reason) ==
    CASE reason \in {"end_turn", "stop_sequence"} -> "stop"
      [] reason = "max_tokens" -> "length"
      [] reason = "tool_use" -> "tool_calls"
      [] OTHER -> reason

(* Answers: [choices, usage] of OpenAI, [blocks, reason, usage] of          *)
(* Anthropic.  An empty body decodes to an answer without choices or blocks.*)
openaiTransformResponse(answer) ==
    IF answer.choices = <<>> THEN Error("parse", 0)
    ELSE LET c == answer.choices[1] IN
         [text |-> c.text, calls |-> c.calls, reason |-> normalizeFinishReason(c.reason), usage |-> answer.usage]

anthropicTransformResponseLast(answer) ==   \* faulty: a block replaces the text before it
    LET Kind(t) == Taken(answer.blocks, {i \in DOMAIN answer.blocks : answer.blocks[i].type = t}) IN
    [text |-> IF Kind("text") = <<>> THEN <<>> ELSE Last(Kind("text")).text,
     calls |-> [i \in DOMAIN Kind("tool_use") |-> Kind("tool_use")[i].call], reason |-> normalizeStopReason(answer.reason),
     usage |-> [prompt |-> answer.usage.input, completion |-> answer.usage.output, total |-> answer.usage.input + answer.usage.output]]

anthropicTransformResponse(answer) ==
    LET uses == Taken(answer.blocks, {i \in DOMAIN answer.blocks : answer.blocks[i].type = "tool_use"}) IN
    [text |-> CollectText(answer.blocks),
     calls |-> [i \in DOMAIN uses |-> uses[i].call],
     reason |-> normalizeStopReason(answer.reason),
     usage |-> [prompt |-> answer.usage.input, completion |-> answer.usage.output,
                total |-> answer.usage.input + answer.usage.output]]

transformResponse(provider, answer) ==
    IF provider = "anthropic" THEN anthropicTransformResponse(answer) ELSE openaiTransformResponse(answer)

(* Stream events become chunks [text, reason], or nothing, or an error.     *)
NoChunk == [nothing |-> TRUE]
Chunk(text, reason) == [text |-> text, reason |-> reason]
openaiTransformStreamChunk(e) ==
    IF e.type = "no choices" THEN Error("parse", 0) ELSE Chunk(e.text, normalizeFinishReason(e.reason))
anthropicTransformStreamChunk(e) ==
    CASE e.type = "content_block_delta" -> IF e.text = <<>> THEN NoChunk ELSE Chunk(e.text, "")
      [] e.type = "message_delta" -> Chunk(<<>>, normalizeStopReason(e.reason))
      [] e.type \in {"message_start", "content_block_start", "content_block_stop", "message_stop", "ping"} -> NoChunk
      [] OTHER -> Error("parse", 0)

-----------------------------------------------------------------------------
(* Errors and their status.                                                 *)
handleProviderError(status) ==
    CASE status >= 500 -> "bad_gateway"
      [] status = 429 -> "rate_limit_exceeded"
      [] status \in {401, 403} -> "authentication_error"
      [] status \in 400..499 -> "invalid_request_error"
      [] OTHER -> "server_error"
HandleError(e) ==
    CASE e.error \in {"request", "model not found"} -> "invalid_request_error"
      [] e.error = "provider" -> handleProviderError(e.status)
      [] e.error = "auth" -> "authentication_error"
      [] e.error = "rate limit" -> "rate_limit_exceeded"
      [] e.error = "timeout" -> "gateway_timeout"
      [] e.error = "parse" -> "bad_gateway"
      [] OTHER -> "server_error"
HTTPStatusCode(type) ==
    CASE type = "invalid_request_error" -> 400 [] type = "authentication_error" -> 401 [] type = "permission_denied" -> 403
      [] type = "not_found" -> 404 [] type = "rate_limit_exceeded" -> 429 [] type = "bad_gateway" -> 502
      [] type = "service_unavailable" -> 503 [] type = "gateway_timeout" -> 504 [] OTHER -> 500

(* What is written: the items of a response in the order they go out.  The  *)
(* status is sent once, with the first item.                                *)
WriteJSONResponse(status, body) == <<[status |-> status], [body |-> body]>>
WriteErrorResponse(e) == WriteJSONResponse(HTTPStatusCode(HandleError(e)), [error |-> HandleError(e)])
FormatChatCompletionResponse(resp) == [answer |-> [text |-> resp.text, calls |-> resp.calls, reason |-> resp.reason, usage |-> resp.usage]]
FormatStreamChunk(chunk) == [chunk |-> chunk]
=============================================================================
