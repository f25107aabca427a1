---------------------------- MODULE ChatProxy_MC ----------------------------
(***************************************************************************)
(* Inputs of ChatProxy: requests that vary what the checks and conversions *)
(* look at, and answers and streams of an OpenAI and an Anthropic provider. *)
(***************************************************************************)
EXTENDS ChatProxy, TLC

Said(role, content) == [role |-> role, content |-> content, calls |-> <<>>]
Wording(w) == [text |-> w]
Hello == Said("user", Wording(<<"hello">>))
Conversations ==
    {<<>>, <<Hello>>, <<Said("system", Wording(<<"be">>)), Said("system", Wording(<<"brief">>)), Hello>>,
     <<Hello, Said("assistant", Wording(<<"hi">>)), Hello>>, <<Said("assistant", Wording(<<"hi">>)), Hello>>, <<Hello, Said("user", [value |-> "number"])>>,
     <<Said("", Wording(<<"hello">>))>>, <<Said("user", [null |-> TRUE])>>,
     <<Hello, [Said("assistant", [null |-> TRUE]) EXCEPT !.calls = <<"f">>]>>,
     <<Said("user", [parts |-> <<[type |-> "text", text |-> <<"a">>], [type |-> "image_url", text |-> <<"i">>],
                                 [type |-> "text", text |-> <<"b", "c">>]>>])>>}
OptionSets == {<<>>, "temperature" :> 0, "temperature" :> 21, "stop" :> 5, ("max_tokens" :> 1 @@ "top_p" :> 5), "max_tokens" :> 0}
Ask(m, c, o, s) == [model |-> m, messages |-> c, options |-> o, tools |-> {}, stream |-> s]
Bodies ==
    {[kind |-> k] : k \in {"unreadable", "too large", "malformed"}}
    \cup {[kind |-> "json", request |-> Ask("gpt-", c, <<>>, FALSE)] : c \in Conversations}
    \cup {[kind |-> "json", request |-> Ask(m, <<Hello>>, o, FALSE)] : m \in {"", "claude-", "other"}, o \in OptionSets}
    \cup {[kind |-> "json", request |-> Ask("claude-", c, <<>>, FALSE)] : c \in Conversations}
    \cup {[kind |-> "json", request |-> Ask(m, <<Hello>>, <<>>, TRUE)] : m \in {"claude-", "gpt-"}}
    \cup {[kind |-> "json", request |-> Ask("claude-", c, <<>>, TRUE)] :
             c \in {<<>>, <<Said("system", Wording(<<"be">>)), Hello, Said("assistant", Wording(<<"hi">>)), Hello>>}}
MCCalls ==
    {[path |-> "chat", method |-> "POST", cors |-> FALSE, body |-> b] : b \in Bodies}
    \cup {[path |-> p, method |-> m, cors |-> c, body |-> [kind |-> "malformed"]] :
            p \in {"chat", "health", "ready", "providers", "websocket"}, m \in {"GET", "OPTIONS"}, c \in BOOLEAN}

Usage == [input |-> 1, output |-> 2]
OpenAIAnswers == {[choices |-> <<>>, usage |-> Usage]} \cup
    {[choices |-> <<[text |-> <<"x">>, calls |-> c, reason |-> r]>>, usage |-> Usage] : c \in {<<>>, <<"f">>}, r \in {"stop", "function_call"}}
TextBlock(w) == [type |-> "text", text |-> <<w>>]
AnthropicAnswers ==
    {[blocks |-> b, reason |-> r, usage |-> Usage] : r \in {"end_turn", "tool_use"},
        b \in {<<>>, <<TextBlock("x")>>, <<TextBlock("x"), [type |-> "tool_use", call |-> "f"], TextBlock("y")>>}}
MCAnswers(p) == IF p = "anthropic" THEN AnthropicAnswers ELSE OpenAIAnswers

Event(t, w, r) == [type |-> t, text |-> w, reason |-> r]
OpenAIStreams == {<<Event("chunk", <<"x">>, "")>> \o s : s \in
    {<<>>, <<Event("malformed", <<>>, "")>>, <<Event("no choices", <<>>, "")>>, <<Event("lost", <<>>, "")>>,
     <<Event("chunk", <<>>, "stop"), Event("end", <<>>, "")>>,
     <<Event("chunk", <<"y">>, ""), Event("chunk", <<>>, "function_call")>>,
     <<Event("chunk", <<"y">>, ""), Event("chunk", <<"z">>, ""), Event("chunk", <<"w">>, "")>>}}
AnthropicStreams == {<<Event("message_start", <<>>, ""), Event("content_block_delta", <<"x">>, "")>> \o s : s \in
    {<<Event("message_stop", <<>>, "")>>, <<Event("message_delta", <<>>, "end_turn")>>,
     <<Event("content_block_delta", <<>>, ""), Event("ping", <<>>, ""), Event("content_block_delta", <<"y">>, ""),
       Event("content_block_delta", <<"z">>, ""), Event("message_delta", <<>>, "max_tokens")>>,
     <<Event("content_block_delta", <<"y">>, ""), Event("error", <<>>, "")>>}}
MCStreams(p) == IF p = "anthropic" THEN AnthropicStreams ELSE OpenAIStreams

=============================================================================
