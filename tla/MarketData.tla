----------------------------- MODULE MarketData -----------------------------
(***************************************************************************)
(* Public market data: the administration of the Tiingo source             *)
(* (internal/api/tiingo.go, reloadTiingo of cmd/server/main.go, the row of *)
(* broker_providers) and the routing of quotes and histories over sources  *)
(* (internal/market/service.go, internal/api/public_market_data.go).       *)
(*                                                                         *)
(* Administrators' requests run side by side and take no lock between      *)
(* their reads and writes.  A token is a number, 0 for none.               *)
(***************************************************************************)
EXTENDS Integers, Sequences

CONSTANTS
    Managers,       \* requests of administrators
    Readers,        \* requests for market data
    Requests,       \* what readers ask for, see Request
    MaxTiingoTokens \* bound: tokens entered

ASSUME MarketAssumption == MaxTiingoTokens \in Nat

Request == [kind : {"quote", "history"}, source : {"auto", "broker", "tiingo", "yahoo"},
            usage : {"live", "chart", "valuation"}, connection : BOOLEAN, intraday : BOOLEAN]

VARIABLES
    stored,         \* broker_providers: enabled, and the token of secrets_json
    provider,       \* Service.tiingo: the token of the client, 0 for nil
    server,         \* "up", or "refuses" when it ended at the start
    doing,          \* what a manager does: "idle", "read", "checked", "saved", "invalidated" or "loaded"
    order,          \* ... its request: kind, enabled and token
    view,           \* ... the configuration it read last
    torn,           \* a row was written from a configuration that was no longer the stored one
    late,           \* a client was installed from one
    failed,         \* an administrator was told that the change was not activated
    wish,           \* a reader's request
    left,           \* ... the sources it has not tried
    asked,          \* ... the source, and its token, that was asked last
    errors,         \* ... codes of the failed attempts
    answer          \* ... what it was answered: source and adjustment, or an error

adminVars == <<stored, provider, server, doing, order, view, torn, late, failed>>
readVars == <<wish, left, asked, errors, answer>>
marketVars == <<adminVars, readVars>>

NoOrder == [kind |-> "none", enabled |-> "unset", token |-> 0]
NoView == [enabled |-> FALSE, token |-> 0]
NoWish == [kind |-> "none"]
NoAnswer == [source |-> "none", label |-> "none", data |-> "none"]

MarketInit ==
    /\ stored = [enabled |-> FALSE, token |-> 0] /\ provider = 0 /\ server = "up"
    /\ doing = [m \in Managers |-> "idle"]
    /\ order = [m \in Managers |-> NoOrder] /\ view = [m \in Managers |-> NoView]
    /\ torn = FALSE /\ late = FALSE /\ failed = FALSE
    /\ wish = [r \in Readers |-> NoWish] /\ left = [r \in Readers |-> <<>>]
    /\ asked = [r \in Readers |-> <<"none", 0>>] /\ errors = [r \in Readers |-> {}]
    /\ answer = [r \in Readers |-> NoAnswer]

-----------------------------------------------------------------------------
(***************************************************************************)
(* Administration                                                          *)
(***************************************************************************)
\* The request of m goes on to the next step, or ends.
Proceeds(m, to) ==
    /\ doing' = [doing EXCEPT ![m] = to]
    /\ order' = [order EXCEPT ![m] = IF to = "idle" THEN NoOrder ELSE @]
    /\ view' = [view EXCEPT ![m] = IF to = "idle" THEN NoView ELSE @]

\* A deletion needs no read; saving and testing start with GetBrokerProviderRuntimeConfig.
BeginTiingo(m, kind, enabled, token) ==
    /\ server = "up" /\ doing[m] = "idle"
    /\ doing' = [doing EXCEPT ![m] = IF kind = "delete" THEN "checked" ELSE "read"]
    /\ order' = [order EXCEPT ![m] = [kind |-> kind, enabled |-> enabled, token |-> token]]
    /\ view' = [view EXCEPT ![m] = IF kind = "delete" THEN NoView ELSE stored]
    /\ UNCHANGED <<stored, provider, server, torn, late, failed, readVars>>

\* A first token enables the source unless the request says otherwise.
Enables(o, config) ==
    IF o.enabled # "unset" THEN o.enabled = "yes"
    ELSE config.enabled \/ (o.token > 0 /\ config.token = 0)

\* The source may be enabled before it has a token.
SaveRefusedNever(o, config) == FALSE

SaveRefused(o, config) == Enables(o, config) /\ o.token = 0 /\ config.token = 0

\* The rest of the checks: a save is refused without a token, a test asks Tiingo for a quote,
\* with the stored token or (and then it saves nothing) with the one of the request.
CheckTiingo(m, accepted) ==
    LET o == order[m]
        ok == accepted /\ (IF o.kind = "save" THEN ~SaveRefused(o, view[m]) ELSE view[m].token > 0) IN
    /\ doing[m] = "read"
    /\ Proceeds(m, IF ok THEN "checked" ELSE "idle")
    /\ UNCHANGED <<stored, provider, server, torn, late, failed, readVars>>

\* UpdateBrokerProviderConfig: without secrets the row keeps the token it has now.
Updated(o, config) ==
    CASE o.kind = "delete" -> [enabled |-> FALSE, token |-> 0]
      [] o.kind = "test" -> [enabled |-> config.enabled, token |-> stored.token]
      [] o.kind = "save" -> [enabled |-> Enables(o, config), token |-> IF o.token > 0 THEN o.token ELSE stored.token]

\* A test changes only when the source was verified; it does not activate anything.
WriteTiingo(m) ==
    /\ doing[m] = "checked"
    /\ stored' = Updated(order[m], view[m])
    /\ torn' = (torn \/ (order[m].kind # "delete" /\ view[m] # stored))
    /\ Proceeds(m, IF order[m].kind = "test" THEN "idle" ELSE "saved")
    /\ UNCHANGED <<provider, server, late, failed, readVars>>

\* InvalidatePerformanceSource; when it fails the change is not activated.
InvalidateTiingo(m, ok) ==
    /\ doing[m] = "saved"
    /\ Proceeds(m, IF ok THEN "invalidated" ELSE "idle")
    /\ failed' = (failed \/ ~ok)
    /\ UNCHANGED <<stored, provider, server, torn, late, readVars>>

\* reloadTiingo reads the row, unless that fails ...
LoadTiingo(m, ok) ==
    /\ doing[m] = "invalidated"
    /\ doing' = [doing EXCEPT ![m] = IF ok THEN "loaded" ELSE "idle"]
    /\ order' = [order EXCEPT ![m] = NoOrder]
    /\ view' = [view EXCEPT ![m] = IF ok THEN stored ELSE NoView]
    /\ failed' = (failed \/ ~ok)
    /\ UNCHANGED <<stored, provider, server, torn, late, readVars>>

\* A disabled source has no client; an enabled one without a token is an error.
Loadable(config) == config.enabled => config.token > 0
Wanted(config) == IF config.enabled THEN config.token ELSE 0

\* An unloadable source stays as it is, and so does a disabled one.
InstallEnabledOnly(config) == IF Wanted(config) > 0 THEN Wanted(config) ELSE provider

Install(config) == IF Loadable(config) THEN Wanted(config) ELSE provider

\* ... and SetTiingo installs what was read.
SetTiingo(m) ==
    /\ doing[m] = "loaded"
    /\ provider' = Install(view[m])
    /\ late' = (view[m] # stored)
    /\ failed' = ~Loadable(view[m])
    /\ Proceeds(m, "idle")
    /\ UNCHANGED <<stored, server, torn, readVars>>

\* The server stops or crashes and is started again: reloadTiingo first, and log.Fatalf.
RestartServer ==
    /\ doing' = [m \in Managers |-> "idle"]
    /\ order' = [m \in Managers |-> NoOrder] /\ view' = [m \in Managers |-> NoView]
    /\ IF Loadable(stored) THEN provider' = Wanted(stored) /\ server' = "up" ELSE provider' = 0 /\ server' = "refuses"
    /\ late' = FALSE /\ failed' = FALSE
    /\ wish' = [r \in Readers |-> NoWish] /\ left' = [r \in Readers |-> <<>>]
    /\ asked' = [r \in Readers |-> <<"none", 0>>] /\ errors' = [r \in Readers |-> {}]
    /\ answer' = [r \in Readers |-> NoAnswer]
    /\ UNCHANGED <<stored, torn>>

-----------------------------------------------------------------------------
(***************************************************************************)
(* Routing                                                                 *)
(***************************************************************************)
\* quoteSources and historySources; the empty sequence stands for an invalid request.
Sources(q) ==
    CASE q.kind = "quote" /\ q.source = "auto" -> (IF q.connection THEN <<"broker">> ELSE <<>>) \o <<"yahoo">>
      [] q.kind = "quote" /\ q.source = "tiingo" -> <<>>
      [] q.kind = "quote" /\ q.source = "broker" /\ ~q.connection -> <<>>
      [] q.kind = "history" /\ q.source = "auto" -> <<"tiingo", "yahoo">>
      [] q.kind = "history" /\ q.source = "broker" -> <<>>
      [] OTHER -> <<q.source>>

\* publicMarketRoute leaves some requests to the brokers' own handlers.
Legacy(q) == q.source = "broker" /\ (~q.connection \/ q.kind = "history")

Answered(r, a) ==
    /\ answer' = [answer EXCEPT ![r] = a]
    /\ wish' = [wish EXCEPT ![r] = NoWish] /\ left' = [left EXCEPT ![r] = <<>>]
    /\ asked' = [asked EXCEPT ![r] = <<"none", 0>>] /\ errors' = [errors EXCEPT ![r] = {}]

Error(code) == [source |-> "error", label |-> code, data |-> "none"]

AskMarket(r, q) ==
    /\ server = "up" /\ wish[r] = NoWish /\ ~Legacy(q)
    /\ IF Sources(q) = <<>> \/ (q.kind = "history" /\ q.usage = "live") THEN Answered(r, Error("invalid"))
       ELSE /\ wish' = [wish EXCEPT ![r] = q] /\ left' = [left EXCEPT ![r] = Sources(q)]
            /\ answer' = [answer EXCEPT ![r] = NoAnswer]
            /\ UNCHANGED <<asked, errors>>
    /\ UNCHANGED adminVars

\* combinedProviderError
Combined(codes, attempts) ==
    CASE attempts = 1 -> CHOOSE c \in codes : TRUE
      [] codes = {"unconfigured"} -> "unconfigured"
      [] "missing" \in codes /\ codes \subseteq {"unconfigured", "missing"} -> "missing"
      [] OTHER -> "unavailable"

\* An attempt failed; the next source is tried, if there is one.
TryNext(r, code) ==
    IF Len(left[r]) = 1
    THEN Answered(r, Error(Combined(errors[r] \cup {code}, Len(Sources(wish[r])))))
    ELSE /\ left' = [left EXCEPT ![r] = Tail(@)] /\ errors' = [errors EXCEPT ![r] = @ \cup {code}]
         /\ asked' = [asked EXCEPT ![r] = <<"none", 0>>]
         /\ UNCHANGED <<wish, answer>>

\* symbolProvider looks the client up for one attempt; the request goes out without the lock.
PickSource(r) ==
    LET s == Head(left[r]) IN
    /\ wish[r] # NoWish /\ asked[r][1] = "none"
    /\ IF s = "tiingo" /\ provider = 0 THEN TryNext(r, "unconfigured")
       ELSE asked' = [asked EXCEPT ![r] = <<s, IF s = "tiingo" THEN provider ELSE 0>>] /\ UNCHANGED <<wish, left, errors, answer>>
    /\ UNCHANGED adminVars

\* Tiingo's own prices for a valuation, prices adjusted for splits and dividends otherwise.
Data(q, s) == IF s = "tiingo" /\ q.kind = "history" /\ q.usage # "valuation" /\ ~q.intraday THEN "adjusted" ELSE "traded"

\* The label does not look at the bar.
LabelByUsage(q, s) == IF s = "tiingo" /\ q.kind = "history" /\ q.usage # "valuation" THEN "adjusted" ELSE "traded"

\* GetHistoryFor's adjustment type
Label(q, s) == IF s = "tiingo" /\ q.kind = "history" /\ q.usage # "valuation" /\ ~q.intraday THEN "adjusted" ELSE "traded"

\* The source answers: an invalid request ends everything, an empty history was not found.
SourceAnswers(r, outcome) ==
    LET q == wish[r]
        s == asked[r][1] IN
    /\ s # "none"
    /\ IF outcome = "ok" THEN Answered(r, [source |-> s, label |-> Label(q, s), data |-> Data(q, s)])
       ELSE IF outcome = "invalid" THEN Answered(r, Error("invalid"))
       ELSE TryNext(r, outcome)
    /\ UNCHANGED adminVars

MarketNext ==
    \/ \E m \in Managers :
        \/ \E e \in {"unset", "yes", "no"}, t \in 0..MaxTiingoTokens : BeginTiingo(m, "save", e, t)
        \/ \E k \in {"test", "delete"} : BeginTiingo(m, k, "unset", 0)
        \/ \E ok \in BOOLEAN : CheckTiingo(m, ok) \/ InvalidateTiingo(m, ok) \/ LoadTiingo(m, ok)
        \/ WriteTiingo(m) \/ SetTiingo(m)
    \/ RestartServer
    \/ \E r \in Readers :
        \/ \E q \in Requests : AskMarket(r, q)
        \/ PickSource(r)
        \/ \E o \in {"ok", "invalid", "missing", "denied"} : SourceAnswers(r, o)

MarketSpec == MarketInit /\ [][MarketNext]_marketVars

-----------------------------------------------------------------------------
(***************************************************************************)
(* Properties                                                              *)
(***************************************************************************)
MarketTypeOK ==
    /\ stored \in [enabled : BOOLEAN, token : 0..MaxTiingoTokens]
    /\ provider \in 0..MaxTiingoTokens /\ server \in {"up", "refuses"}
    /\ doing \in [Managers -> {"idle", "read", "checked", "saved", "invalidated", "loaded"}]
    /\ order \in [Managers -> [kind : {"none", "save", "test", "delete"}, enabled : {"unset", "yes", "no"},
                            token : 0..MaxTiingoTokens]]
    /\ view \in [Managers -> [enabled : BOOLEAN, token : 0..MaxTiingoTokens]]
    /\ torn \in BOOLEAN /\ late \in BOOLEAN /\ failed \in BOOLEAN
    /\ wish \in [Readers -> Requests \cup {NoWish}]

\* The server can always be started again: a row that is enabled and has no token, with which
\* reloadTiingo ends the process, is only ever written over a newer row.  And once every request
\* of an administrator has ended, the client that serves is the configured one, and none when
\* the source was revoked: unless one of them was told that activation failed, wrote a row over
\* a newer one, or installed a client from a row changed meanwhile.
OnlyRacesMisconfigure ==
    /\ ~torn => Loadable(stored) /\ server = "up"
    /\ server = "up" /\ ~torn /\ ~late /\ ~failed /\ (\A m \in Managers : doing[m] = "idle")
            => provider = Wanted(stored)

\* A history is labelled as adjusted exactly when its prices are, and a valuation, which replays
\* quantities that splits have changed already, never gets adjusted ones.
LabelledAsPriced ==
    \A r \in Readers :
        /\ answer[r].source # "error" => answer[r].label = answer[r].data
        /\ asked[r][1] # "none" /\ wish[r].usage = "valuation" => Data(wish[r], asked[r][1]) = "traded"

\* What the administrators configure is what readers are served, and labelled as what it is.
SourcesSound == OnlyRacesMisconfigure /\ LabelledAsPriced
=============================================================================
