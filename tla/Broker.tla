------------------------------- MODULE Broker -------------------------------
(***************************************************************************)
(* The model broker of crates/model-broker: routes a completion request to *)
(* a provider, answers it from an LRU cache when it can, and holds the     *)
(* tokens of an answer against a budget.  Callers are tasks which share    *)
(* the broker; each await of Broker::complete is an action boundary.       *)
(*                                                                         *)
(* Texts are sequences of letters, " " standing for white space.  Options  *)
(* are None or a value.  Time is counted in ticks.                         *)
(***************************************************************************)
EXTENDS Integers, Sequences, FiniteSets, SequencesExt

CONSTANTS
    Callers,    \* the tasks that call complete, each once
    None,       \* an Option that is not there
    Configs,    \* the BrokerConfigs to start from
    Requests,   \* [Callers -> sets of ModelRequests], those each may make
    Responses   \* what a provider's server may answer

Texts == Seq(STRING)

ASSUME BrokerAssumption ==
    /\ None \notin Nat
    /\ <<"null">> \in Texts  \* the provers know no string to be in STRING
    /\ \A cfg \in Configs :
          /\ cfg.capacity \in Nat
          /\ cfg.routes \in Seq([pattern : Texts, provider : Texts, target : Texts \cup {None}])
    /\ \A c \in Callers : \A req \in Requests[c] :
          /\ req.model \in Texts /\ req.prompt \in Texts /\ req.params \in Texts /\ req.key \in Texts
          /\ req.system \in Texts \cup {None}
          /\ req.extras = None \/ req.extras.text \in Texts

VARIABLES
    config,  \* BrokerInner: providers, routes, cache settings, budgets
    cache,   \* the LRU, most recently used last
    stats,   \* calls, cache_hits, tokens_prompt, tokens_completion
    call     \* each caller: position, request, answer, ticks before its timeout

vars == <<config, cache, stats, call>>

Or(option, default) == IF option = None THEN default ELSE option
Fault(code) == [error |-> code]
IsOk(result) == "text" \in DOMAIN result

-----------------------------------------------------------------------------
(* Broker::new *)

\* The constructors of the providers: what each asks of its entry.
HttpNew(p) == p.baseUrl /\ p.schema \in {None, "openai-completions"} /\ p.headersOk
OpenAiChatNew(p) == p.baseUrl /\ p.headersOk
AnthropicNew(p) == p.baseUrl /\ p.headersOk
OllamaNew(p) == p.baseUrl
GeminiNew(p) == p.baseUrl /\ p.headersOk

\* build_provider
Buildable(p) ==
    CASE p.kind = "local" -> TRUE
      [] p.kind = "http" -> HttpNew(p)
      [] p.kind = "http_openai_chat" -> OpenAiChatNew(p)
      [] p.kind = "http_anthropic" -> AnthropicNew(p)
      [] p.kind = "http_ollama" -> OllamaNew(p)
      [] p.kind = "http_gemini" -> GeminiNew(p)

NullProvider(id) == [id |-> id, kind |-> "local"]

\* The null providers are there whatever the configuration says.
Providers(cfg) ==
    ToSet(cfg.providers) \cup
        {NullProvider(id) : id \in {<<"null">>, <<"local">>} \ {p.id : p \in ToSet(cfg.providers)}}

Ids(providers) == {p.id : p \in providers}

Accepted(cfg) ==
    /\ \A i, j \in DOMAIN cfg.providers : cfg.providers[i].id = cfg.providers[j].id => i = j
    /\ \A i \in DOMAIN cfg.providers : Buildable(cfg.providers[i])
    /\ \A i \in DOMAIN cfg.routes : cfg.routes[i].provider \in Ids(Providers(cfg))

Routes(cfg) ==
    IF cfg.routes = <<>> THEN <<[pattern |-> <<"*">>, provider |-> <<"null">>, target |-> None]>>
    ELSE cfg.routes

\* cache_from_config
Caching == config.capacity > 0 /\ config.ttl > 0

-----------------------------------------------------------------------------
(* Routing, cache keys, budgets *)

\* RouteRule::matches
Matches(pattern, model) ==
    IF pattern # <<>> /\ Last(pattern) = "*" THEN IsPrefix(Front(pattern), model)
    ELSE pattern = model

RouteOf(req) ==
    LET fit == {i \in DOMAIN Routes(config) : Matches(Routes(config)[i].pattern, req.model)}
    IN IF fit = {} THEN None ELSE Routes(config)[Min(fit)]

Target(req) == Or(RouteOf(req).target, req.model)
ProviderOf(req) == CHOOSE p \in Providers(config) : p.id = RouteOf(req).provider

\* effective_ttl
Ttl(req) ==
    CASE req.ttl = 0 -> None
      [] req.ttl = None -> IF Caching THEN config.ttl ELSE None
      [] OTHER -> req.ttl

\* A field that is not there adds nothing to the key.
SystemOf(req) == Or(req.system, <<>>)
ExtrasOf(req) == IF req.extras = None THEN <<>> ELSE req.extras.text

\* Mutant: the prompt is left to the caller's cache_key.
KeyOfNoPrompt(req) ==
    RouteOf(req).provider \o Target(req) \o SystemOf(req) \o req.params
        \o ExtrasOf(req) \o req.key

\* compose_cache_key: the texts one after the other, nothing between them.
KeyOf(req) ==
    RouteOf(req).provider \o Target(req) \o req.prompt \o SystemOf(req) \o req.params
        \o ExtrasOf(req) \o req.key

\* estimate_tokens: four characters to a token, here two.
Estimate(length) == (length + 1) \div 2

\* usage_profile
Used(req, answer) ==
    [answer EXCEPT !.tokensIn = Or(@, Estimate(Len(req.prompt) + Len(Or(req.system, <<>>)))),
                   !.tokensOut = Or(@, Estimate(Len(answer.text)))]

\* BudgetLimits::effective_limit: zero is no limit, and the cap only tightens a
\* limit there is.
LimitOf(req) ==
    LET limit == Or(req.budget, config.defaultTokens)
    IN IF config.cap > 0 /\ limit > config.cap THEN config.cap ELSE limit

Affords(req, answer) ==
    LimitOf(req) > 0 => answer.tokensIn + answer.tokensOut <= LimitOf(req)

-----------------------------------------------------------------------------
(* Providers: what complete makes of the server's response *)

Answer(text, tin, tout, reason, model) ==
    [text |-> text, tokensIn |-> tin, tokensOut |-> tout, reason |-> reason,
     model |-> model, cached |-> FALSE]

\* The steps every HTTP provider takes before it reads the payload.
Exchange(p, resp, Read(_)) ==
    CASE p.secret = "missing" /\ p.kind # "http_ollama" -> Fault("secret_missing")
      [] ~resp.sent -> Fault("http_send")
      [] resp.status # 200 -> Fault("http_status")
      [] ~resp.decodes -> Fault("decode")
      [] OTHER -> Read(resp)

FirstText(resp) == FlattenSeq(resp.choices[1].parts)

HttpComplete(p, req, model, resp) ==
    LET Read(r) == IF r.choices = <<>> THEN Fault("empty_response")
                   ELSE Answer(FirstText(r), r.tokensIn, r.tokensOut,
                               r.choices[1].reason, Or(r.model, model))
    IN Exchange(p, resp, Read)

OpenAiChatComplete(p, req, model, resp) ==
    LET Read(r) == IF r.choices = <<>> \/ (r.choices # <<>> /\ FirstText(r) = <<>>)
                   THEN Fault("empty_response")
                   ELSE Answer(FirstText(r), r.tokensIn, r.tokensOut,
                               r.choices[1].reason, Or(r.model, model))
    IN Exchange(p, resp, Read)

\* The content blocks are joined, whichever choice they came in.
AnthropicComplete(p, req, model, resp) ==
    LET Joined(r) == FlattenSeq([i \in DOMAIN r.choices |-> FlattenSeq(r.choices[i].parts)])
        Read(r) == IF Joined(r) = <<>> THEN Fault("empty_response")
                   ELSE Answer(Joined(r), r.tokensIn, r.tokensOut,
                               IF r.choices = <<>> THEN None ELSE r.choices[1].reason, model)
    IN Exchange(p, resp, Read)

\* White space alone counts as empty.
OllamaComplete(p, req, model, resp) ==
    LET Read(r) == IF r.choices = <<>> \/ (r.choices # <<>> /\ ToSet(FirstText(r)) \subseteq {" "})
                   THEN Fault("empty_response")
                   ELSE Answer(FirstText(r), r.tokensIn, r.tokensOut, None, model)
    IN Exchange(p, resp, Read)

\* is_safety_finish_reason
Safety == {"safety", "blocklist", "prohibited_content"}

\* parse_gemini_hints, of the request's extras
HintsRefused(req) == req.extras # None /\ req.extras.refused

\* prompt_block_reason
PromptBlocked(resp) == resp.block \notin {None, "unspecified"}

\* gemini_model_path
ModelPath(model) == IF IsPrefix(<<"models/">>, model) THEN model ELSE <<"models/">> \o model

\* collect_text_parts
TextOf(candidate) == FlattenSeq(candidate.parts)

\* The first candidate with text is the answer, one the provider flagged too.
GeminiComplete(p, req, model, resp) ==
    LET Read(r) ==
            LET spoken == SelectSeq(r.choices, LAMBDA c : TextOf(c) # <<>>)
            IN CASE PromptBlocked(r) -> Fault("safety_blocked")
                 [] ~PromptBlocked(r) /\ spoken # <<>> ->
                        Answer(TextOf(spoken[1]), r.tokensIn, r.tokensOut, spoken[1].reason,
                               Or(r.model, ModelPath(model)))
                 [] OTHER -> IF \E i \in DOMAIN r.choices : r.choices[i].reason \in Safety
                             THEN Fault("safety_blocked") ELSE Fault("empty_response")
    IN IF p.secret # "missing" /\ HintsRefused(req) THEN Fault("invalid_request")
       ELSE Exchange(p, resp, Read)

NullComplete(p, req, model) ==
    Answer(req.prompt, Estimate(Len(req.prompt)), Estimate(Len(req.prompt)), "stop", model)

Complete(p, req, model, resp) ==
    CASE p.kind = "local" -> NullComplete(p, req, model)
      [] p.kind = "http" -> HttpComplete(p, req, model, resp)
      [] p.kind = "http_openai_chat" -> OpenAiChatComplete(p, req, model, resp)
      [] p.kind = "http_anthropic" -> AnthropicComplete(p, req, model, resp)
      [] p.kind = "http_ollama" -> OllamaComplete(p, req, model, resp)
      [] p.kind = "http_gemini" -> GeminiComplete(p, req, model, resp)

-----------------------------------------------------------------------------
(* Broker::complete *)

NoAnswer == [error |-> "none"]

\* The idle broker of an accepted configuration, or none at all.
Init ==
    /\ config \in {cfg \in Configs : Accepted(cfg)}
    /\ cache = <<>>
    /\ stats = [calls |-> 0, hits |-> 0, tokensIn |-> 0, tokensOut |-> 0]
    /\ \E req \in [Callers -> UNION {Requests[c] : c \in Callers}] :
          /\ \A c \in Callers : req[c] \in Requests[c]
          /\ call = [c \in Callers |-> [at |-> "idle", req |-> req[c], answer |-> NoAnswer, left |-> 0]]

Goes(c, at, answer) == call' = [call EXCEPT ![c].at = at, ![c].answer = answer]
Fails(c, code) == Goes(c, "failed", Fault(code))

Begin(c) ==
    /\ call[c].at = "idle"
    /\ IF call[c].req.stream THEN Fails(c, "streaming_unsupported") /\ UNCHANGED stats
       ELSE IF RouteOf(call[c].req) = None \/ RouteOf(call[c].req).provider \notin Ids(Providers(config))
       THEN Fails(c, "invalid_request") /\ UNCHANGED stats
       ELSE Goes(c, "lookup", NoAnswer) /\ stats' = [stats EXCEPT !.calls = @ + 1]
    /\ UNCHANGED <<config, cache>>

\* record_usage
Counted(hits, answer) ==
    [stats EXCEPT !.hits = @ + hits, !.tokensIn = @ + answer.tokensIn,
                  !.tokensOut = @ + answer.tokensOut]

Entries(key) == {i \in DOMAIN cache : cache[i].key = key}
Without(key) == IF Entries(key) = {} THEN cache ELSE RemoveAt(cache, CHOOSE i \in Entries(key) : TRUE)

\* Mutant: a cached answer is not held against the caller's budget.
HitPays(req, answer) == TRUE

HitAffords(req, answer) == Affords(req, answer)

Asks(c) ==
    call' = [call EXCEPT ![c].at = "asking", ![c].left = Or(call[c].req.timeout, 0)]

\* check_cache: a hit becomes the most recently used entry, a stale one goes.
\* The cache is looked up whatever the request's own TTL is.
Lookup(c) ==
    LET req == call[c].req
        found == Entries(KeyOf(req))
        e == cache[CHOOSE i \in found : TRUE]
        answer == Used(req, [e.answer EXCEPT !.cached = TRUE])
    IN /\ call[c].at = "lookup"
       /\ IF ~Caching \/ found = {} THEN Asks(c) /\ UNCHANGED <<cache, stats>>
          ELSE IF e.left = 0 THEN Asks(c) /\ cache' = Without(e.key) /\ UNCHANGED stats
          ELSE /\ cache' = Append(Without(e.key), e)
               /\ IF HitAffords(req, answer)
                  THEN Goes(c, "done", answer) /\ stats' = Counted(1, answer)
                  ELSE Fails(c, "budget_exceeded") /\ stats' = [stats EXCEPT !.hits = @ + 1]
       /\ UNCHANGED config

\* The provider's future completes.
Answered(c) ==
    LET req == call[c].req
    IN /\ call[c].at = "asking"
       /\ \E resp \in Responses :
             LET result == Complete(ProviderOf(req), req, Target(req), resp)
                 answer == Used(req, result)
             IN IF ~IsOk(result) THEN Goes(c, "failed", result) /\ UNCHANGED stats
                ELSE IF ~Affords(req, answer) THEN Fails(c, "budget_exceeded") /\ UNCHANGED stats
                ELSE /\ Goes(c, IF Caching /\ Ttl(req) # None THEN "store" ELSE "done", answer)
                     /\ stats' = Counted(0, answer)
       /\ UNCHANGED <<config, cache>>

\* Mutant: a timeout of one tick is taken for none.
TimeoutOver1(req) == IF Or(req.timeout, 0) > 1 THEN req.timeout ELSE 0

\* Zero is no timeout.
Timeout(req) == Or(req.timeout, 0)

TimesOut(c) ==
    /\ call[c].at = "asking"
    /\ Timeout(call[c].req) > 0 /\ call[c].left = 0
    /\ Fails(c, "timeout")
    /\ UNCHANGED <<config, cache, stats>>

\* LruCache::put
Put(e) ==
    LET grown == Append(Without(e.key), e)
    IN IF Len(grown) > config.capacity THEN Tail(grown) ELSE grown

\* store_cache
Store(c) ==
    /\ call[c].at = "store"
    /\ cache' = Put([key |-> KeyOf(call[c].req), answer |-> call[c].answer,
                     left |-> Ttl(call[c].req), from |-> call[c].req])  \* from: history
    /\ Goes(c, "done", call[c].answer)
    /\ UNCHANGED <<config, stats>>

\* The caller's future is dropped: its node's timeout, its run's end.
Dropped(c) ==
    /\ call[c].at \in {"lookup", "asking", "store"}
    /\ Fails(c, "cancelled")
    /\ UNCHANGED <<config, cache, stats>>

Less(n) == IF n > 0 THEN n - 1 ELSE 0

Tick ==
    /\ cache' = [i \in DOMAIN cache |-> [cache[i] EXCEPT !.left = Less(@)]]
    /\ call' = [c \in Callers |-> [call[c] EXCEPT !.left = Less(@)]]
    /\ UNCHANGED <<config, stats>>

Next ==
    \/ \E c \in Callers :
          Begin(c) \/ Lookup(c) \/ Answered(c) \/ TimesOut(c) \/ Store(c) \/ Dropped(c)
    \/ Tick

Spec == Init /\ [][Next]_vars

\* The runtime polls the tasks and time passes; a provider owes no answer.
FairSpec ==
    /\ Spec
    /\ WF_vars(Tick)
    /\ \A c \in Callers :
          WF_vars(Begin(c)) /\ WF_vars(Lookup(c)) /\ WF_vars(TimesOut(c)) /\ WF_vars(Store(c))

-----------------------------------------------------------------------------
(* Properties *)

Answers == {c \in Callers : IsOk(call[c].answer)}

\* The cache stays within its capacity, holds one answer per key, and none
\* past its budget or of a call which asked not to be cached.
CacheInv ==
    /\ Len(cache) <= config.capacity
    /\ \A i, j \in DOMAIN cache : cache[i].key = cache[j].key => i = j
    /\ \A i \in DOMAIN cache :
          /\ Affords(cache[i].from, cache[i].answer)
          /\ cache[i].from.ttl # 0

\* An answer, from the cache or not, keeps to the budget of the request it
\* answers, not of the one it was made for.
WithinBudget == \A c \in Answers : Affords(call[c].req, call[c].answer)

\* Caller c is about to be answered from the cache by entry i.
HitOn(c, i) ==
    /\ call[c].at = "lookup" /\ call'[c].at = "done"
    /\ cache[i].key = KeyOf(call[c].req)

\* The texts a key is made from.
Hashed(req) ==
    <<RouteOf(req).provider, Target(req), req.prompt, SystemOf(req), req.params,
      ExtrasOf(req), req.key>>

SameLengths(h, g) == \A k \in 1..7 : Len(h[k]) = Len(g[k])

\* The key tells two requests apart by every field it is made from: a request
\* whose texts are as long as those of the one whose cached answer it gets has
\* the very same texts.
SameQuestion ==
    [][\A c \in Callers : \A i \in DOMAIN cache :
          LET asked == Hashed(cache[i].from)
              mine == Hashed(call[c].req)
          IN HitOn(c, i) /\ SameLengths(asked, mine) => asked = mine]_vars

\* A request served from the cache gets the answer to its own question, whatever
\* the lengths of its texts.
OwnQuestion ==
    [][\A c \in Callers : \A i \in DOMAIN cache :
          HitOn(c, i) => Hashed(cache[i].from) = Hashed(call[c].req)]_vars

\* Broker::new accepts no configuration whose routes lead nowhere: a request
\* that is not streamed and that a route matches is never invalid.
RoutesResolve ==
    \A c \in Callers :
        /\ call[c].at = "failed" /\ call[c].answer.error = "invalid_request"
        => \/ RouteOf(call[c].req) = None
           \/ \E p \in Providers(config) :
                 p.id = RouteOf(call[c].req).provider /\ p.kind = "http_gemini"

\* A request with a timeout ends, whatever its provider does.
TimedCallsEnd ==
    \A c \in Callers :
        (call[c].at = "asking" /\ Or(call[c].req.timeout, 0) > 0) ~> call[c].at \notin {"asking", "store"}

\* A request with a TTL of zero is not answered from the cache.
ZeroTtlIsFresh == \A c \in Answers : call[c].req.ttl = 0 => ~call[c].answer.cached
=============================================================================
