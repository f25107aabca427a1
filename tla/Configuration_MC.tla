-------------------------- MODULE Configuration_MC --------------------------
(***************************************************************************)
(* Inputs of Configuration: a file that needs nothing but its provider, and *)
(* the same file with one or two settings more, good ones and bad ones; and  *)
(* environments that complete, break or repair such a file.                 *)
(***************************************************************************)
EXTENDS Configuration, TLC

Plain == [set |-> <<>>, providers |-> "openai" :> [base_url |-> "https"], budgets |-> <<>>, rates |-> <<>>,
          downgrades |-> <<>>]
With(s) == [Plain EXCEPT !.set = s]
On(s, f, v) == <<s, f>> :> v
NoRates == [requests_per_second |-> 0, requests_per_minute |-> 0, requests_per_hour |-> 0, tokens_per_minute |-> 0,
            tokens_per_hour |-> 0, max_concurrent |-> 0]

OneSetting ==
    {On("policy", "mode", m) : m \in {"git", "svn"}} \cup {On("policy", "git_repo", "repo")}
    \cup {On("evidence", "backend", b) : b \in {"postgres", "s3", "tape"}}
    \cup {On("mtls", "enabled", TRUE), On("tls", "enabled", TRUE), On("tls", "cert_file", "cert")}
    \cup {On("proxy", "read_timeout", t) : t \in {-1, 10}} \cup {On("proxy", "max_header_bytes", 20000000)}
    \cup {On("logging", "level", "loud"), On("tracing", "sample_ratio", 200), On("cors", "max_age", 60)}
    \cup {On("sqlite", "wal_mode", FALSE), On("enforcement", "action", "hope"), On("storage", "backend", "sqlite")}
    \cup {On("health", "liveness_path", "relative"), On("retention", "days", 4000)}
Switch(s) == On(s, "enabled", TRUE)
Switched ==
    {Switch("evidence") @@ s : s \in {<<>>, On("evidence", "backend", "s3"), On("evidence", "backend", "tape"),
                                      On("retention", "days", 4000), On("sqlite", "wal_mode", FALSE)}}
    \cup {Switch("health") @@ s : s \in {<<>>, On("health", "liveness_path", "relative")}}
    \cup {Switch("tracing") @@ s : s \in {<<>>, On("tracing", "sample_ratio", 200)}}
Maps ==
    {[With(On("budgets", "enabled", TRUE)) EXCEPT !.budgets = "key" :> [hourly |-> h, daily |-> d, monthly |-> 4]] :
        h \in {0, 3}, d \in {2, 5}}
    \cup {[With(On("rate_limits", "enabled", TRUE)) EXCEPT !.rates = "key" :> [NoRates EXCEPT !.max_concurrent = m]] :
        m \in {-1, 5, 20000}}
    \cup {[Plain EXCEPT !.downgrades = d] :
        d \in {[a |-> "b", b |-> "c"], [a |-> "c", b |-> "c"], [a |-> "b", b |-> "a"], [a |-> "a", b |-> "c"],
               [a |-> "b", b |-> "c", c |-> "a"], [a |-> "b", b |-> "c", c |-> "b"]}}
    \cup {[Plain EXCEPT !.providers = p] : p \in {<<>>, "openai" :> [base_url |-> "malformed"],
        "openai" :> [base_url |-> "https", max_retries |-> 11], "openai" :> [timeout |-> 5]}}
MCConfigFiles ==
    {[readable |-> FALSE]} \cup {[readable |-> TRUE, config |-> c] : c \in {Plain} \cup Maps
        \cup {With(s) : s \in OneSetting \cup Switched}}

Env(s) == [set |-> s, garbage |-> {}, provider |-> "anthropic", providerSet |-> <<>>]
MCEnvironments ==
    {Env(<<>>), Env(On("mtls", "enabled", TRUE)), Env(On("tls", "enabled", TRUE) @@ On("tls", "key_file", "key")),
     Env(On("policy", "mode", "git")), Env(On("evidence", "enabled", TRUE)),
     Env(On("evidence", "backend", "tape")), Env(On("policy", "mode", "file") @@ On("logging", "level", "loud")),
     [Env(On("proxy", "read_timeout", 0)) EXCEPT !.garbage = {<<"proxy", "read_timeout">>}],
     [Env(<<>>) EXCEPT !.providerSet = [api_key |-> "key"]],
     [Env(<<>>) EXCEPT !.providerSet = [base_url |-> "https", timeout |-> 5]],
     [Env(<<>>) EXCEPT !.provider = "openai", !.providerSet = [max_retries |-> 0]],
     [Env(<<>>) EXCEPT !.provider = "openai", !.providerSet = [max_retries |-> 0], !.garbage = {<<"openai", "max_retries">>}]}

=============================================================================
