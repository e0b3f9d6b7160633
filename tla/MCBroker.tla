------------------------------ MODULE MCBroker ------------------------------
(***************************************************************************)
(* An instance of Broker for TLC: every kind of provider, a cache of one   *)
(* or two entries, and requests that share a budget, differ in a prompt of *)
(* one length, or spell the same key from other fields.                    *)
(***************************************************************************)
EXTENDS Broker

CONSTANTS c1, c2, c3

Provider(id, kind, secret) ==
    [id |-> id, kind |-> kind, baseUrl |-> TRUE, headersOk |-> TRUE, schema |-> None,
     secret |-> secret]

Route(pattern, id, target) == [pattern |-> pattern, provider |-> id, target |-> target]

Config(providers, routes, capacity, defaultTokens, cap) ==
    [providers |-> providers, routes |-> routes, capacity |-> capacity, ttl |-> 1,
     defaultTokens |-> defaultTokens, cap |-> cap]

Everywhere(id) == <<Route(<<"m", "*">>, id, None)>>

\* One configuration for each kind of provider; the last two Broker::new refuses.
MCConfigs ==
    {Config(<<Provider(<<"p">>, "http_gemini", "found")>>, Everywhere(<<"p">>), 1, 0, 3),
     Config(<<Provider(<<"p">>, "http_openai_chat", "found"), Provider(<<"q">>, "http", "missing")>>,
            Everywhere(<<"p">>) \o <<Route(<<"n">>, <<"q">>, None)>>, 2, 3, 0),
     Config(<<Provider(<<"p">>, "http", "found")>>,
            <<Route(<<"m", "1">>, <<"p">>, None)>> \o Everywhere(<<"local">>), 2, 5, 3),
     Config(<<Provider(<<"p">>, "http_anthropic", "none")>>, Everywhere(<<"p">>), 1, 0, 0),
     Config(<<Provider(<<"p">>, "http_ollama", "missing")>>,
            <<Route(<<"*">>, <<"p">>, <<"m", "1">>)>>, 1, 5, 3),
     Config(<<Provider(<<"p">>, "http", "found")>>, <<Route(<<"m", "1">>, <<"q">>, None)>>, 1, 0, 0),
     Config(<<[Provider(<<"p">>, "http", "found") EXCEPT !.schema = "chat"]>>, <<>>, 0, 0, 0)}

Request == [model |-> <<"m", "1">>, prompt |-> <<"a", "b">>, system |-> None, params |-> <<>>,
            key |-> <<>>, budget |-> None, timeout |-> 1, ttl |-> None, stream |-> FALSE,
            extras |-> None]

MCRequests == [c \in Callers |->
    CASE c = c1 -> {[Request EXCEPT !.ttl = 2]}
      [] c = c2 -> {[Request EXCEPT !.prompt = <<"b", "a">>],
                     [Request EXCEPT !.prompt = <<"a">>, !.timeout = 0,
                                     !.extras = [text |-> <<"b">>, refused |-> TRUE]]}
      [] OTHER -> {[Request EXCEPT !.budget = 2, !.ttl = 0],
                   [Request EXCEPT !.model = <<"n">>, !.system = <<"c">>, !.timeout = None],
                   [Request EXCEPT !.stream = TRUE]}]

Said(text, reason) == [parts |-> <<text>>, reason |-> reason]
Response == [sent |-> TRUE, status |-> 200, decodes |-> TRUE, block |-> None, model |-> None,
             choices |-> <<Said(<<"x">>, "stop")>>, tokensIn |-> 1, tokensOut |-> 1]

MCResponses ==
    {[Response EXCEPT !.sent = FALSE],
     Response,
     [Response EXCEPT !.tokensIn = None, !.tokensOut = 3, !.block = "safety"],
     [Response EXCEPT !.choices = <<Said(<<>>, "safety"), Said(<<" ">>, None)>>]}
=============================================================================
