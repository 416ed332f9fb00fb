---------------------------- MODULE YahooClient -----------------------------
(***************************************************************************)
(* The in-memory client of Yahoo Finance: internal/market/yahoo/client.go. *)
(* A gate admits one call at a time to the cache, the cookie, the crumbs   *)
(* and the upstream hosts.  A crumb is a number, 0 for none; the upstream  *)
(* accepts the crumbs it has not withdrawn.                                *)
(***************************************************************************)
EXTENDS FiniteSets, Integers

CONSTANTS
    Lookups,        \* calls of GetQuotes and GetHistory
    Charts,         \* keys of the caches
    MaxCrumbs,      \* bound: crumbs issued
    CacheLimit,     \* entries at which a cache is cleared: 512 quotes or 64 charts
    Nobody

ASSUME YahooAssumption == Nobody \notin Lookups /\ {MaxCrumbs, CacheLimit} \subseteq Nat

Hosts == {0, 1}
Attempts == 3

VARIABLES
    gate,           \* the call that holds the gate
    at,             \* "out", "queued", "in", "login", "asking" or "waiting"
    key,            \* what a call looks for
    again,          \* ... whether it must not be served from the cache
    attempted,        \* ... failed attempts before this one
    cached,         \* entries that have not expired
    warmed,         \* the cookie was fetched
    crumbs,         \* the crumb of each host
    crumbsIssued,   \* external: crumbs 1..crumbsIssued exist
    withdrawn,      \* external: those the upstream does not accept any more
    refused,        \* those of which the client was told so
    fetched         \* keys fetched, and not expired, cleared or asked for again since

yahooVars == <<gate, at, key, again, attempted, cached, warmed, crumbs, crumbsIssued, withdrawn,
               refused, fetched>>

YahooInit ==
    /\ gate = Nobody
    /\ at = [c \in Lookups |-> "out"] /\ key = [c \in Lookups |-> Nobody]
    /\ again = [c \in Lookups |-> FALSE] /\ attempted = [c \in Lookups |-> 0]
    /\ cached = {} /\ warmed = FALSE /\ crumbs = [h \in Hosts |-> 0]
    /\ crumbsIssued = 0 /\ withdrawn = {} /\ refused = {}
    /\ fetched = [k \in Charts |-> 0]

\* The hosts take turns.
Host(c) == attempted[c] % 2

\* A call returns, by an error or not, and lets the next one in.
ReturnLook(c) ==
    /\ gate' = IF gate = c THEN Nobody ELSE gate
    /\ at' = [at EXCEPT ![c] = "out"] /\ key' = [key EXCEPT ![c] = Nobody]
    /\ again' = [again EXCEPT ![c] = FALSE] /\ attempted' = [attempted EXCEPT ![c] = 0]

Look(c, k, refresh) ==
    /\ at[c] = "out"
    /\ at' = [at EXCEPT ![c] = "queued"]
    /\ key' = [key EXCEPT ![c] = k] /\ again' = [again EXCEPT ![c] = refresh]
    /\ UNCHANGED <<gate, attempted, cached, warmed, crumbs, crumbsIssued, withdrawn, refused, fetched>>

\* lock, and prune: a cache at its limit is cleared.
EnterGate(c) ==
    /\ at[c] = "queued" /\ gate = Nobody
    /\ gate' = c
    /\ at' = [at EXCEPT ![c] = "in"]
    /\ IF Cardinality(cached) >= CacheLimit
       THEN cached' = {} /\ fetched' = [k \in Charts |-> 0]
       ELSE UNCHANGED <<cached, fetched>>
    /\ UNCHANGED <<key, again, attempted, warmed, crumbs, crumbsIssued, withdrawn, refused>>

\* Every call asks.
ServedNever(c) == FALSE

Served(c) == key[c] \in cached /\ ~again[c]

\* From the cache, or else from upstream.
LookUp(c) ==
    /\ at[c] = "in"
    /\ IF Served(c) THEN ReturnLook(c)
       ELSE at' = [at EXCEPT ![c] = "login"] /\ UNCHANGED <<gate, key, again, attempted>>
    /\ UNCHANGED <<cached, warmed, crumbs, crumbsIssued, withdrawn, refused, fetched>>

\* authenticate: the cookie first, then a crumb of the host unless there is one.
Authenticate(c) ==
    LET h == Host(c) IN
    /\ at[c] = "login"
    /\ warmed' = TRUE
    /\ IF crumbs[h] > 0 THEN UNCHANGED <<crumbs, crumbsIssued>>
       ELSE /\ crumbsIssued < MaxCrumbs
            /\ crumbsIssued' = crumbsIssued + 1
            /\ crumbs' = [crumbs EXCEPT ![h] = crumbsIssued + 1]
    /\ at' = [at EXCEPT ![c] = "asking"]
    /\ UNCHANGED <<gate, key, again, attempted, cached, withdrawn, refused, fetched>>

\* Nothing is forgotten after an unauthorized answer.
ForgottenNever(c, status) == crumbs

\* After a 401 all crumbs and the cookie are fetched again.
Forgotten(c, status) == IF status = 401 THEN [h \in Hosts |-> 0] ELSE crumbs

\* fetch: an attempt fails, in authenticate (before or after the cookie came) or when asking.  Not
\* found and other answers of the 4xx end the call, the rest is tried again after a while.
\* Status 0 is a network error.
Attempt(c, status) ==
    /\ at[c] = "asking" \/ (at[c] = "login" /\ (~warmed \/ crumbs[Host(c)] = 0))
    /\ status = 401 /\ at[c] = "asking" => refused' = refused \cup {crumbs[Host(c)]}
    /\ ~(status = 401 /\ at[c] = "asking") => UNCHANGED refused
    /\ crumbs' = Forgotten(c, status)
    /\ warmed' \in IF status = 401 THEN {FALSE} ELSE {warmed, TRUE}
    /\ IF status \in {404, 400} \/ attempted[c] + 1 = Attempts THEN ReturnLook(c)
       ELSE at' = [at EXCEPT ![c] = "waiting"] /\ UNCHANGED <<gate, key, again, attempted>>
    /\ UNCHANGED <<cached, crumbsIssued, withdrawn, fetched>>

\* The upstream refuses withdrawn crumbs, and fails whenever it likes.
AttemptFails(c, status) ==
    /\ status = 401 /\ at[c] = "asking" => crumbs[Host(c)] \in withdrawn
    /\ Attempt(c, status)

Retry(c) ==
    /\ at[c] = "waiting"
    /\ at' = [at EXCEPT ![c] = "login"] /\ attempted' = [attempted EXCEPT ![c] = @ + 1]
    /\ UNCHANGED <<gate, key, again, cached, warmed, crumbs, crumbsIssued, withdrawn, refused, fetched>>

\* parseQuotes and parseChart find what was asked for in the body, or the call fails.
Fetched(c, usable) ==
    /\ at[c] = "asking" /\ crumbs[Host(c)] \notin withdrawn
    /\ IF usable
       THEN /\ cached' = cached \cup {key[c]}
            /\ fetched' = [fetched EXCEPT ![key[c]] = IF again[c] THEN 1 ELSE @ + 1]
       ELSE UNCHANGED <<cached, fetched>>
    /\ ReturnLook(c)
    /\ UNCHANGED <<warmed, crumbs, crumbsIssued, withdrawn, refused>>

\* The context of the call is cancelled or its twenty seconds are over.
GiveUp(c) ==
    /\ at[c] # "out"
    /\ ReturnLook(c)
    /\ UNCHANGED <<cached, warmed, crumbs, crumbsIssued, withdrawn, refused, fetched>>

\* After two seconds for a quote, thirty for a chart; prune looks when a call enters, and serves
\* what expires during the call.
Expire(k) ==
    /\ k \in cached /\ gate = Nobody
    /\ cached' = cached \ {k} /\ fetched' = [fetched EXCEPT ![k] = 0]
    /\ UNCHANGED <<gate, at, key, again, attempted, warmed, crumbs, crumbsIssued, withdrawn, refused>>

\* External.
Withdraw ==
    /\ withdrawn # 1..crumbsIssued
    /\ withdrawn' = 1..crumbsIssued
    /\ UNCHANGED <<gate, at, key, again, attempted, cached, warmed, crumbs, crumbsIssued, refused, fetched>>

YahooNext ==
    \/ \E c \in Lookups :
        \/ \E k \in Charts, refresh \in BOOLEAN : Look(c, k, refresh)
        \/ EnterGate(c) \/ LookUp(c) \/ Authenticate(c) \/ Retry(c) \/ GiveUp(c)
        \/ \E usable \in BOOLEAN : Fetched(c, usable)
        \/ \E status \in {0, 400, 401, 404, 429} : AttemptFails(c, status)
    \/ \E k \in Charts : Expire(k)
    \/ Withdraw

YahooSpec == YahooInit /\ [][YahooNext]_yahooVars

-----------------------------------------------------------------------------
(***************************************************************************)
(* Properties                                                              *)
(***************************************************************************)
YahooTypeOK ==
    /\ gate \in Lookups \cup {Nobody}
    /\ at \in [Lookups -> {"out", "queued", "in", "login", "asking", "waiting"}]
    /\ key \in [Lookups -> Charts \cup {Nobody}] /\ again \in [Lookups -> BOOLEAN]
    /\ attempted \in [Lookups -> 0..(Attempts - 1)]
    /\ cached \subseteq Charts /\ fetched \in [Charts -> Nat]
    /\ crumbsIssued \in 0..MaxCrumbs /\ crumbs \in [Hosts -> 0..crumbsIssued]
    /\ refused \subseteq 1..crumbsIssued
    /\ \A c \in Lookups : at[c] \in {"in", "login", "asking", "waiting"} <=> gate = c

\* Overlapping calls for the same key share one answer: a key is fetched again only after it
\* expired, was cleared with a full cache, or was asked for with refresh.
Coalesced == \A k \in Charts : fetched[k] <= 1

\* A crumb that a host refused is not sent again, whichever host and attempt comes next.
RefusedCrumbsForgotten == \A h \in Hosts : crumbs[h] \notin refused

\* The client spares its upstream.
UpstreamSpared == Coalesced /\ RefusedCrumbsForgotten
=============================================================================
