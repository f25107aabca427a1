----------------------------- MODULE ChatProxy -----------------------------
(***************************************************************************)
(* One HTTP request to the proxy from its arrival to the end of every       *)
(* goroutine it started (server.go setupRoutes, middleware/cors.go and      *)
(* timeout.go, handlers, the adapters' StreamCompletion).                   *)
(*                                                                         *)
(* The timeout middleware runs the handler on a goroutine of its own and    *)
(* waits for it or for the context; a streaming adapter runs a producer     *)
(* that reads the provider's stream into a channel.  The response writer is *)
(* the one of LoggingMiddleware, which does not implement http.Flusher:     *)
(* the flushes of the handlers do nothing and the status goes out with the  *)
(* first write.  What the handler writes after the middleware has returned  *)
(* is lost.  No handler panics.                                             *)
(*                                                                         *)
(* net/http keeps what is written in its buffers and sends it when the      *)
(* middleware returns (longer answers leave in parts before), on a          *)
(* connection whose write deadline it has set before it called the chain.   *)
(* The same WriteTimeout is the middleware's (server.go:69 and 184), so     *)
(* that deadline has always passed when the context's does.                 *)
(***************************************************************************)
EXTENDS ChatApi

CONSTANTS
    Calls,              \* requests [path, method, cors, body]
    ProviderNames,      \* providers that may be healthy
    Answers(_),         \* answers a provider may give
    Streams(_),         \* event sequences a provider may send
    ChannelCapacity     \* 100 in the code

(* What decoding JSON guarantees: messages, parts, blocks and events are    *)
(* lists; a content is null, a text, a list of parts or another value.      *)
IsSeq(x) == x \in Seq(Range(x))
TextParts(parts) == IsSeq(parts) /\ \A i \in DOMAIN parts : parts[i].type = "text" => IsSeq(parts[i].text)
Content(c) ==
    \/ DOMAIN c = {"null"}
    \/ DOMAIN c = {"text"}
    \/ DOMAIN c = {"parts"} /\ TextParts(c.parts)
    \/ DOMAIN c = {"value"}
ASSUME ChannelAssumption == ChannelCapacity \in Nat \ {0}
ASSUME ChatAssumption ==
    /\ \A c \in Calls : c.body.kind \notin {"unreadable", "too large", "malformed"} =>
          /\ IsSeq(c.body.request.messages)
          /\ \A i \in DOMAIN c.body.request.messages : Content(c.body.request.messages[i].content)
    /\ \A p \in ProviderNames : \A s \in Streams(p) : IsSeq(s)
    /\ "anthropic" \in ProviderNames => \A a \in Answers("anthropic") : TextParts(a.blocks)

VARIABLES
    call,           \* the request
    ctxState,       \* the request's context: "live", "deadline", "cancelled", or
                    \* "finished" when the middleware ended it on its return
    connection,     \* "open", or "expired" once its write deadline has passed
    received,       \* the status of the answer the client received, 0 for none
    guard,          \* the middleware: "serving", "expired", "status sent", "returned"
    handler,        \* the handler goroutine
    pending,        \* what the handler has still to write before it returns
    chosen,         \* the provider
    sent,           \* ghost: <<>> or the request the provider got
    reply,          \* ghost: <<>> or what came back
    script,         \* the events of the stream
    nextEvent,      \* the event the producer reads next
    producer,       \* the producer goroutine
    holding,        \* the chunk the producer is about to send
    channel, closed,
    written         \* the response: status and items

net == <<connection, received>>
chatVars == <<call, ctxState, net, guard, handler, pending, chosen, sent, reply, script, nextEvent, producer, holding,
              channel, closed, written>>
handlerVars == <<call, ctxState, net, guard, chosen, sent, reply, script, nextEvent, producer, holding, closed>>

Over == ctxState # "live"
InTime == ctxState = "live" /\ connection = "open"

ChatInit(c) ==
    /\ call = c /\ ctxState = "live" /\ connection = "open" /\ received = 0
    /\ guard = "serving" /\ handler = "start" /\ pending = <<>>
    /\ chosen = "" /\ sent = <<>> /\ reply = <<>> /\ script = <<>> /\ nextEvent = 1
    /\ producer = "none" /\ holding = NoChunk /\ channel = <<>> /\ closed = FALSE
    /\ written = [status |-> 0, items |-> <<>>]

-----------------------------------------------------------------------------
(* The response writer: WriteHeader counts once, Write implies 200.         *)
WriteHeader(code) ==
    IF guard = "returned" \/ written.status # 0 THEN written ELSE [status |-> code, items |-> written.items]
Write(item) ==
    IF guard = "returned" THEN written
    ELSE [status |-> IF written.status = 0 THEN 200 ELSE written.status, items |-> Append(written.items, item)]
WriteItem(x) == IF "status" \in DOMAIN x THEN WriteHeader(x.status) ELSE Write(x)

SSEError(e) == [failure |-> HandleError(e)]
SSEDone == [done |-> TRUE]

(* The handler writes the items one by one and returns.                     *)
Respond(items) == handler' = "writing" /\ pending' = items

HandlerWrites ==
    /\ handler = "writing"
    /\ written' = WriteItem(Head(pending))
    /\ pending' = Tail(pending)
    /\ handler' = IF Tail(pending) = <<>> THEN "ended" ELSE "writing"
    /\ UNCHANGED <<handlerVars, channel>>

-----------------------------------------------------------------------------
(* The response leaves when the chain of handlers returns.                  *)
Deliver(response) ==
    received' = IF connection = "open" /\ ctxState # "cancelled" THEN response.status ELSE received

(* CORSMiddleware answers a preflight itself.                               *)
CORSMiddleware ==
    /\ handler = "start" /\ call.cors /\ call.method = "OPTIONS"
    /\ written' = WriteHeader(204) /\ handler' = "ended" /\ guard' = "returned" /\ Deliver(WriteHeader(204))
    /\ UNCHANGED <<call, ctxState, connection, pending, chosen, sent, reply, script, nextEvent, producer, holding, channel, closed>>

Routed == handler = "start" /\ ~(call.cors /\ call.method = "OPTIONS")

(* /health, /ready, /health/providers and the WebSocket endpoint.           *)
PlainText(code) == <<[status |-> code], [text |-> "plain"]>>
HealthHandler(method) == IF method # "GET" THEN PlainText(405) ELSE WriteJSONResponse(200, [state |-> "ok"])
ReadyHandler(method, healthy) ==
    IF method # "GET" THEN PlainText(405)
    ELSE WriteJSONResponse(IF healthy = {} THEN 503 ELSE 200, [healthy |-> Cardinality(healthy)])
ProviderHealthHandler(method, healthy) ==
    IF method # "GET" THEN PlainText(405) ELSE WriteJSONResponse(200, [providers |-> healthy])
WebSocketHandler == PlainText(501)
ProbeResponse(path, method, healthy) ==
    CASE path = "websocket" -> WebSocketHandler
      [] path = "ready" -> ReadyHandler(method, healthy)
      [] path = "providers" -> ProviderHealthHandler(method, healthy)
      [] OTHER -> HealthHandler(method)

ServeProbe ==
    /\ Routed /\ call.path # "chat"
    /\ \E healthy \in SUBSET ProviderNames : Respond(ProbeResponse(call.path, call.method, healthy))
    /\ UNCHANGED <<handlerVars, channel, written>>

handleChatRequestSilent ==   \* faulty: a request that cannot be parsed is left without a word
    /\ Routed /\ call.path = "chat"
    /\ LET parsed == ParseChatCompletionRequest(call.body) IN
       CASE call.method # "POST" -> Respond(WriteErrorResponse(Error("request", 0)))
         [] call.method = "POST" /\ IsError(parsed) -> handler' = "ended" /\ pending' = pending
         [] OTHER -> handler' = "parsed" /\ pending' = pending
    /\ UNCHANGED <<handlerVars, channel, written>>

(* handleChatRequest up to the choice of the provider.                      *)
handleChatRequest ==
    /\ Routed /\ call.path = "chat"
    /\ LET parsed == ParseChatCompletionRequest(call.body) IN
       CASE call.method # "POST" -> Respond(WriteErrorResponse(Error("request", 0)))
         [] call.method = "POST" /\ IsError(parsed) -> Respond(WriteErrorResponse(parsed))
         [] OTHER -> handler' = "parsed" /\ pending' = pending
    /\ UNCHANGED <<handlerVars, channel, written>>

SelectProvider ==
    /\ handler = "parsed"
    /\ \E healthy \in SUBSET ProviderNames :
          IF healthy = {} THEN Respond(WriteErrorResponse(Error("provider", 503))) /\ chosen' = chosen
          ELSE /\ chosen' \in selectProviderFromManager(healthy, call.body.request.model)
               /\ handler' = "selected" /\ pending' = pending
    /\ UNCHANGED <<call, ctxState, net, guard, sent, reply, script, nextEvent, producer, holding, channel, closed, written>>

(* HTTPProvider.DoRequest, all its attempts: the errors it may end with.    *)
DoRequestErrors ==
    IF Over THEN {Error("timeout", 0), Error("internal", 0)}
    ELSE {Error("auth", 0), Error("rate limit", 0), Error("provider", 400), Error("provider", 503), Error("internal", 0)}

providerRequest == transformRequest(chosen, convertToProviderRequest(call.body.request))

(* handleChatRequest with SendCompletion.  The answer is what               *)
(* DoJSONRequest decodes; a body it cannot read or decode is a parse error. *)
SendCompletion ==
    /\ handler = "selected" /\ ~call.body.request.stream
    /\ IF IsError(providerRequest) THEN Respond(WriteErrorResponse(providerRequest)) /\ UNCHANGED <<sent, reply>>
       ELSE /\ sent' = <<providerRequest>>
            /\ \/ \E e \in DoRequestErrors \cup {Error("parse", 0)} : reply' = <<e>> /\ Respond(WriteErrorResponse(e))
               \/ \E a \in Answers(chosen) :
                     LET resp == transformResponse(chosen, a) IN
                     /\ ~Over /\ reply' = <<a>>
                     /\ Respond(IF IsError(resp) THEN WriteErrorResponse(resp)
                                ELSE WriteJSONResponse(200, FormatChatCompletionResponse(resp)))
    /\ UNCHANGED <<call, ctxState, net, guard, chosen, script, nextEvent, producer, holding, channel, closed, written>>

(* handleStreamRequest up to its loop: an error is an event of a stream     *)
(* without end marker, with status 200.                                     *)
StreamCompletion ==
    /\ handler = "selected" /\ call.body.request.stream
    /\ IF IsError(providerRequest)
       THEN Respond(<<SSEError(providerRequest)>>) /\ UNCHANGED <<sent, reply, script, producer>>
       ELSE /\ sent' = <<providerRequest>>
            /\ \/ \E e \in DoRequestErrors : /\ reply' = <<e>> /\ Respond(<<SSEError(e)>>)
                                             /\ UNCHANGED <<script, producer>>
               \/ /\ ~Over
                  /\ script' \in Streams(chosen)
                  /\ producer' = "reading" /\ handler' = "streaming"
                  /\ UNCHANGED <<reply, pending>>
    /\ UNCHANGED <<call, ctxState, net, guard, chosen, nextEvent, holding, channel, closed, written>>

-----------------------------------------------------------------------------
(* The producer.  Read passes over events that give no chunk; the end of    *)
(* the stream is the error io.EOF.                                          *)
transformStreamChunk(provider, e) ==
    CASE e.type = "malformed" -> Error("parse", 0)
      [] e.type \in {"end", "lost"} -> Error("stream", 0)
      [] OTHER -> IF provider = "anthropic" THEN anthropicTransformStreamChunk(e) ELSE openaiTransformStreamChunk(e)

producerVars == <<call, ctxState, net, guard, handler, pending, chosen, sent, reply, script, written>>

Read ==
    /\ producer = "reading" /\ ~Over
    /\ LET result == IF nextEvent \in DOMAIN script THEN transformStreamChunk(chosen, script[nextEvent])
                     ELSE Error("stream", 0) IN
       /\ holding' = result
       /\ producer' = CASE IsError(result) -> "reporting" [] result = NoChunk -> "reading" [] OTHER -> "sending"
    /\ nextEvent' = nextEvent + 1
    /\ UNCHANGED <<producerVars, channel, closed>>

ReadCancelled ==
    /\ producer = "reading" /\ Over
    /\ holding' = Error("internal", 0) /\ producer' = "reporting"
    /\ UNCHANGED <<producerVars, nextEvent, channel, closed>>

(* The select of the producer: the channel or the end of the context.       *)
SendChunk ==
    /\ producer = "sending"
    /\ Len(channel) < ChannelCapacity
    /\ channel' = Append(channel, holding)
    /\ producer' = IF holding.reason # "" THEN "ended" ELSE "reading"
    /\ closed' = (holding.reason # "")
    /\ UNCHANGED <<producerVars, nextEvent, holding>>
GiveUpUnnoticed ==   \* faulty: the send does not watch the context
    FALSE /\ UNCHANGED chatVars
GiveUp ==
    /\ producer = "sending" /\ Over
    /\ producer' = "ended" /\ closed' = TRUE
    /\ UNCHANGED <<producerVars, nextEvent, holding, channel>>

(* An error is sent without watching the context.                           *)
SendError ==
    /\ producer = "reporting" /\ Len(channel) < ChannelCapacity
    /\ channel' = Append(channel, holding)
    /\ producer' = "ended" /\ closed' = TRUE
    /\ UNCHANGED <<producerVars, nextEvent, holding>>

-----------------------------------------------------------------------------
(* The loop of handleStreamRequest.  A write may fail once the client has   *)
(* left or the connection's deadline has passed; the loop ends with the     *)
(* [DONE] marker unless the context is over after a write.                  *)
ReceiveQuietly ==   \* faulty: an error in the stream ends it without a word
    /\ handler = "streaming" /\ channel # <<>>
    /\ channel' = Tail(channel)
    /\ IF IsError(Head(channel)) THEN Respond(<<SSEDone>>) /\ UNCHANGED written
       ELSE handler' = "wrote" /\ written' = Write(FormatStreamChunk(Head(channel))) /\ UNCHANGED pending
    /\ UNCHANGED handlerVars

Receive ==
    /\ handler = "streaming" /\ channel # <<>>
    /\ channel' = Tail(channel)
    /\ IF IsError(Head(channel)) THEN Respond(<<SSEError(Head(channel)), SSEDone>>) /\ UNCHANGED written
       ELSE \/ handler' = "wrote" /\ written' = Write(FormatStreamChunk(Head(channel))) /\ UNCHANGED pending
            \/ (ctxState = "cancelled" \/ connection = "expired") /\ Respond(<<SSEDone>>) /\ UNCHANGED written
    /\ UNCHANGED handlerVars

AfterChunk ==
    /\ handler = "wrote"
    /\ handler' = IF Over THEN "ended" ELSE "streaming"
    /\ UNCHANGED <<handlerVars, pending, channel, written>>

StreamClosed ==
    /\ handler = "streaming" /\ channel = <<>> /\ closed
    /\ Respond(<<SSEDone>>)
    /\ UNCHANGED <<handlerVars, channel, written>>

-----------------------------------------------------------------------------
(* TimeoutMiddleware: with both ready, select takes either.  Its deferred   *)
(* cancel ends the context for whoever still runs.                          *)
guardVars == <<call, connection, handler, pending, chosen, sent, reply, script, nextEvent, producer, holding, channel, closed>>
Return(response) ==
    /\ guard' = "returned" /\ Deliver(response)
    /\ ctxState' = IF Over THEN ctxState ELSE "finished"

HandlerDone ==
    /\ guard = "serving" /\ handler = "ended"
    /\ Return(written) /\ UNCHANGED <<guardVars, written>>
ContextDone ==
    /\ guard = "serving" /\ Over
    /\ IF ctxState = "deadline" THEN guard' = "expired" /\ UNCHANGED <<ctxState, received>> ELSE Return(written)
    /\ UNCHANGED <<guardVars, written>>
WriteTimeoutStatus ==
    /\ guard = "expired"
    /\ written' = WriteHeader(504) /\ guard' = "status sent"
    /\ UNCHANGED <<guardVars, ctxState, received>>
WriteTimeoutBody ==
    LET response == Write([body |-> [error |-> "gateway_timeout"]]) IN
    /\ guard = "status sent"
    /\ written' = response /\ Return(response)
    /\ UNCHANGED guardVars

(* Time: the connection's write deadline passes, then the context's.        *)
ConnectionExpires ==
    /\ connection = "open" /\ guard # "returned" /\ connection' = "expired"
    /\ UNCHANGED <<call, ctxState, received, guard, handler, pending, chosen, sent, reply, script, nextEvent, producer,
                   holding, channel, closed, written>>
Deadline ==
    /\ ctxState = "live" /\ connection = "expired" /\ ctxState' = "deadline"
    /\ UNCHANGED <<guardVars, received, guard, written>>
ClientLeaves ==
    /\ ctxState = "live" /\ ctxState' = "cancelled"
    /\ UNCHANGED <<guardVars, received, guard, written>>

Running ==
    \/ CORSMiddleware \/ ServeProbe \/ handleChatRequest \/ SelectProvider \/ HandlerWrites
    \/ Receive \/ AfterChunk \/ StreamClosed
    \/ ReadCancelled \/ SendChunk \/ GiveUp \/ SendError
    \/ HandlerDone \/ ContextDone \/ WriteTimeoutStatus \/ WriteTimeoutBody
ChatNext == Running \/ SendCompletion \/ StreamCompletion \/ Read \/ ConnectionExpires \/ Deadline \/ ClientLeaves

(* Goroutines go on while they can and the deadline passes; nothing says    *)
(* that a provider answers before it does.                                  *)
ChatFairness ==
    /\ WF_chatVars(CORSMiddleware \/ ServeProbe \/ handleChatRequest \/ SelectProvider \/ HandlerWrites
                   \/ Receive \/ AfterChunk \/ StreamClosed)
    /\ WF_chatVars(ReadCancelled \/ SendChunk \/ SendError) /\ WF_chatVars(GiveUp)
    /\ WF_chatVars(HandlerDone \/ ContextDone \/ WriteTimeoutStatus \/ WriteTimeoutBody)
    /\ WF_chatVars(ConnectionExpires) /\ WF_chatVars(Deadline)
    /\ WF_chatVars(Over /\ (SendCompletion \/ StreamCompletion))

-----------------------------------------------------------------------------
(* Properties.                                                              *)
Having(field) == {i \in DOMAIN written.items : field \in DOMAIN written.items[i]}
SentChunks == LET c == Taken(written.items, Having("chunk")) IN [i \in DOMAIN c |-> c[i].chunk]
Transformed == [i \in DOMAIN script |-> transformStreamChunk(chosen, script[i])]
GoodEvents == {i \in DOMAIN script : ~IsError(Transformed[i]) /\ Transformed[i] # NoChunk}

(* The chunks the client gets are the first chunks of the provider's stream *)
(* in their order; and before the request's time is over, a [DONE] marker   *)
(* that no error precedes comes after the chunk with the finish reason.     *)
StreamIsHonest ==
    /\ IsPrefix(SentChunks, Taken(Transformed, GoodEvents))
    /\ InTime /\ Having("done") # {} /\ Having("failure") = {}
          => SentChunks # <<>> /\ Last(SentChunks).reason # ""

TextOf(parts) == FlattenSeq([i \in DOMAIN parts |-> IF parts[i].type = "text" THEN parts[i].text ELSE <<>>])
WordsOf(content) ==
    IF "text" \in DOMAIN content THEN content.text
    ELSE IF "parts" \in DOMAIN content THEN TextOf(content.parts)
    ELSE IF "value" \in DOMAIN content THEN <<content.value>> ELSE <<>>
ReplyText == IF chosen = "anthropic" THEN TextOf(reply[1].blocks) ELSE reply[1].choices[1].text

Answering == {i \in Having("body") : "answer" \in DOMAIN written.items[i].body}
Conversed(asked, conversation) ==
    /\ Len(conversation) = Len(asked)
    /\ \A i \in DOMAIN asked : conversation[i].role = asked[i].role /\ conversation[i].content = WordsOf(asked[i].content)

(* What client and provider get to see of each other, whatever is racing.   *)
(* Only a valid POST reaches a provider, with the role and the words of     *)
(* each message that is no system prompt, in their order; an answer carries *)
(* the whole text of the provider's; a request that ran its course in time  *)
(* has status 200 only with the answer, an error status only with an error; *)
(* and a stream the provider broke off does not look complete               *)
(* (handleChatRequest, handleStreamRequest in handlers/chat.go:433-508, the *)
(* adapters' transforms, proxy/errors.go).                                  *)
AnswerIsFaithful ==
    /\ sent # <<>> =>
          /\ call.method = "POST" /\ ValidRequest(call.body.request)
          /\ LET request == call.body.request.messages IN
             Conversed(Taken(request, NonSystem(request)), Taken(sent[1].messages, NonSystem(sent[1].messages)))
    /\ \A i \in Answering : written.items[i].body.answer.text = ReplyText
    /\ (handler = "ended" /\ InTime /\ call.path = "chat" /\ Having("body") # {})
          => (written.status = 200 <=> Answering # {})
    /\ StreamIsHonest

(* Every request is settled: the middleware has returned, the handler has   *)
(* ended, and so has the producer, unless it is stuck reporting an error on *)
(* a full channel that the handler no longer reads                          *)
(* (openai/client.go:141-147); and the client has received an answer unless *)
(* it left or WriteTimeout passed before the middleware returned.  Not even *)
(* the 504 reaches it then, since the connection has the same timeout       *)
(* (server.go:69, server.go:184).                                           *)
RequestsSettle ==
    <>[](/\ handler = "ended" /\ guard = "returned"
         /\ received # 0 \/ ctxState = "cancelled" \/ connection = "expired"
         /\ \/ producer \in {"none", "ended"}
            \/ producer = "reporting" /\ Len(channel) = ChannelCapacity)
=============================================================================
