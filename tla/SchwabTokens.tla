---------------------------- MODULE SchwabTokens ----------------------------
(***************************************************************************)
(* The OAuth token of one Schwab connection: internal/broker/schwab/       *)
(* oauth.go in the client, and the connection's row that                   *)
(* persistSchwabToken of internal/runtime/connections.go keeps in step.    *)
(*                                                                         *)
(* A call is a resource read, an explicit refresh or an exchange of an     *)
(* authorization code.  The refreshing ones hold refreshMu from the second *)
(* look at the token to the end of the token handler; the exchange takes   *)
(* no lock.  The handler reads the row, merges the token and writes the    *)
(* whole row back, while an administrator edits or deletes the connection  *)
(* and a reload replaces the client by one opened from the row.  Calls of  *)
(* the replaced client that run on the streamer's goroutine go on.         *)
(***************************************************************************)
EXTENDS Naturals

CONSTANTS
    Calls,          \* calls in flight
    MaxTokens,      \* bound: tokens the provider issues
    MaxEdits,       \* bound: edits of the connection
    MaxClients,     \* bound: clients opened one after the other
    NoCall          \* nobody

ASSUME TokenAssumption ==
    /\ MaxTokens \in Nat \ {0} /\ MaxEdits \in Nat /\ MaxClients \in Nat \ {0}
    /\ NoCall \notin Calls

Clients == 1..MaxClients
NoToken == 0

VARIABLES
    issued,         \* tokens the provider has issued: 1..issued
    stale,          \* tokens within 30 seconds of their expiry
    client,         \* the client that serves new calls
    token,          \* c.token of every client
    refreshMu,      \* holder of the mutex of every client
    kind,           \* "read", "refresh" or "exchange"
    stage,          \* "idle", "wait", "sent", "got" or "merge"
    by,             \* the client a call runs on
    based,          \* the token whose refresh token was sent
    got,            \* the token of the answer
    row,            \* the stored connection: its token and its last edit
    exists,         \* ... and whether it is there
    merged,         \* the edit in the row as a handler read it
    edits,          \* edits made by the administrator
    deleted,        \* the administrator deleted the connection
    raced, cut      \* two token writes overlapped; a handler's read and write were parted

callVars == <<kind, stage, by, based, got, merged>>
tokenVars == <<issued, stale, client, token, refreshMu, callVars, row, exists, edits, deleted, raced, cut>>

InFlight(c) == stage[c] # "idle"
Storing(c) == stage[c] \in {"got", "merge"}

TokensInit ==
    /\ issued = 1 /\ stale = {} /\ client = 1
    /\ token = [g \in Clients |-> IF g = 1 THEN 1 ELSE NoToken]
    /\ refreshMu = [g \in Clients |-> NoCall]
    /\ kind = [c \in Calls |-> "read"]
    /\ stage = [c \in Calls |-> "idle"]
    /\ by = [c \in Calls |-> 1]
    /\ based = [c \in Calls |-> NoToken]
    /\ got = [c \in Calls |-> NoToken]
    /\ merged = [c \in Calls |-> 0]
    /\ row = [token |-> 1, edit |-> 0] /\ exists = TRUE
    /\ edits = 0 /\ deleted = FALSE
    /\ raced = FALSE /\ cut = FALSE

Release(c) == refreshMu' = [g \in Clients |-> IF refreshMu[g] = c THEN NoCall ELSE refreshMu[g]]

Done(c) ==
    /\ stage' = [stage EXCEPT ![c] = "idle"]
    /\ kind' = [kind EXCEPT ![c] = "read"]
    /\ by' = [by EXCEPT ![c] = 1]
    /\ based' = [based EXCEPT ![c] = NoToken]
    /\ got' = [got EXCEPT ![c] = NoToken]
    /\ merged' = [merged EXCEPT ![c] = 0]
    /\ Release(c)

-----------------------------------------------------------------------------
\* validAccessToken outside the mutex: a token that is not about to expire is used as it is.
\* RefreshAccessToken goes for the mutex at once.
StartRefresh(c, k) ==
    /\ ~InFlight(c)
    /\ token[client] # NoToken
    /\ k = "read" => token[client] \in stale
    /\ stage' = [stage EXCEPT ![c] = "wait"]
    /\ kind' = [kind EXCEPT ![c] = k]
    /\ by' = [by EXCEPT ![c] = client]
    /\ UNCHANGED <<issued, stale, client, token, refreshMu, based, got, row, exists, merged,
                   edits, deleted, raced, cut>>

\* The second look is left out: every waiter refreshes.
NeedsRefreshAlways(c) == TRUE

\* Under the mutex the token is read again: a waiter reuses what the first one stored.
NeedsRefresh(c) == kind[c] = "refresh" \/ token[by[c]] \in stale

Lock(c) ==
    /\ stage[c] = "wait" /\ refreshMu[by[c]] = NoCall
    /\ IF NeedsRefresh(c)
       THEN /\ refreshMu' = [refreshMu EXCEPT ![by[c]] = c]
            /\ stage' = [stage EXCEPT ![c] = "sent"]
            /\ based' = [based EXCEPT ![c] = token[by[c]]]
            /\ UNCHANGED <<kind, by, got, merged>>
       ELSE Done(c)
    /\ UNCHANGED <<issued, stale, client, token, row, exists, edits, deleted, raced, cut>>

\* ExchangeCodeForToken sends the code without the mutex.
SendCode(c) ==
    /\ ~InFlight(c)
    /\ stage' = [stage EXCEPT ![c] = "sent"]
    /\ kind' = [kind EXCEPT ![c] = "exchange"]
    /\ by' = [by EXCEPT ![c] = client]
    /\ UNCHANGED <<issued, stale, client, token, refreshMu, based, got, row, exists, merged,
                   edits, deleted, raced, cut>>

\* An exchange stores its token while another call does.
OverlapsExchange(c) ==
    \E d \in Calls \ {c} : Storing(d) /\ "exchange" \in {kind[c], kind[d]}

\* The mutex is released as soon as the answer is there.
TokenAnswerUnlocked(c) ==
    /\ stage[c] = "sent" /\ issued < MaxTokens
    /\ issued' = issued + 1
    /\ token' = [token EXCEPT ![by[c]] = issued + 1]
    /\ got' = [got EXCEPT ![c] = issued + 1]
    /\ stage' = [stage EXCEPT ![c] = "got"]
    /\ raced' = (raced \/ by[c] # client \/ OverlapsExchange(c))
    /\ Release(c)
    /\ UNCHANGED <<stale, client, kind, by, based, row, exists, merged, edits, deleted, cut>>

\* exchangeToken: a refusal or a failure leaves the token; an answer replaces it and calls the
\* handler.
TokenAnswer(c) ==
    /\ stage[c] = "sent" /\ issued < MaxTokens
    /\ issued' = issued + 1
    /\ token' = [token EXCEPT ![by[c]] = issued + 1]
    /\ got' = [got EXCEPT ![c] = issued + 1]
    /\ stage' = [stage EXCEPT ![c] = "got"]
    /\ raced' = (raced \/ by[c] # client \/ OverlapsExchange(c))
    /\ UNCHANGED <<stale, client, refreshMu, kind, by, based, row, exists, merged, edits, deleted, cut>>

TokenFailure(c) ==
    /\ stage[c] = "sent"
    /\ Done(c)
    /\ UNCHANGED <<issued, stale, client, token, row, exists, edits, deleted, raced, cut>>

\* persistSchwabToken: the row is read ...
ReadRow(c) ==
    /\ stage[c] = "got"
    /\ IF exists
       THEN /\ merged' = [merged EXCEPT ![c] = row.edit]
            /\ stage' = [stage EXCEPT ![c] = "merge"]
            /\ UNCHANGED <<refreshMu, kind, by, based, got>>
       ELSE Done(c)
    /\ UNCHANGED <<issued, stale, client, token, row, exists, edits, deleted, raced, cut>>

\* The handler writes what it read before the request was sent.
WriteRowOld(c) ==
    /\ stage[c] = "merge"
    /\ row' = [token |-> got[c], edit |-> 0]
    /\ exists' = TRUE
    /\ Done(c)
    /\ UNCHANGED <<issued, stale, client, token, edits, deleted, raced, cut>>

\* ... and written back whole; UpsertBrokerConnection inserts it when it is gone.
WriteRow(c) ==
    /\ stage[c] = "merge"
    /\ row' = [token |-> got[c], edit |-> merged[c]]
    /\ exists' = TRUE
    /\ Done(c)
    /\ UNCHANGED <<issued, stale, client, token, edits, deleted, raced, cut>>

-----------------------------------------------------------------------------
\* updateBrokerConnection without secrets keeps the stored token; a delete removes the row.
EditConnection ==
    /\ exists /\ ~deleted /\ edits < MaxEdits
    /\ edits' = edits + 1
    /\ row' = [row EXCEPT !.edit = edits + 1]
    /\ cut' = (cut \/ \E c \in Calls : stage[c] = "merge")
    /\ UNCHANGED <<issued, stale, client, token, refreshMu, callVars, exists, deleted, raced>>

DeleteConnection ==
    /\ exists /\ ~deleted
    /\ deleted' = TRUE /\ exists' = FALSE
    /\ cut' = (cut \/ \E c \in Calls : stage[c] = "merge")
    /\ UNCHANGED <<issued, stale, client, token, refreshMu, callVars, row, edits, raced>>

\* Reload: Factory.Open restores the stored token.  The manager's lock keeps it from replacing
\* a client in the middle of an exchange or an explicit refresh.
Reopen ==
    /\ exists /\ client < MaxClients
    /\ \A c \in Calls : InFlight(c) => kind[c] = "read"
    /\ client' = client + 1
    /\ token' = [token EXCEPT ![client + 1] = row.token]
    /\ raced' = (raced \/ \E c \in Calls : Storing(c))
    /\ UNCHANGED <<issued, stale, refreshMu, callVars, row, exists, edits, deleted, cut>>

TokenExpires(t) ==
    /\ t \in (1..issued) \ stale
    /\ stale' = stale \cup {t}
    /\ UNCHANGED <<issued, client, token, refreshMu, callVars, row, exists, edits, deleted, raced, cut>>

TokensNext ==
    \/ \E c \in Calls : \/ \E k \in {"read", "refresh"} : StartRefresh(c, k)
                        \/ Lock(c) \/ SendCode(c) \/ TokenAnswer(c) \/ TokenFailure(c)
                        \/ ReadRow(c) \/ WriteRow(c)
    \/ EditConnection \/ DeleteConnection \/ Reopen
    \/ \E t \in 1..MaxTokens : TokenExpires(t)

TokensSpec == TokensInit /\ [][TokensNext]_tokenVars

-----------------------------------------------------------------------------
(***************************************************************************)
(* Properties                                                              *)
(***************************************************************************)
TokensTypeOK ==
    /\ issued \in 1..MaxTokens /\ stale \subseteq 1..MaxTokens /\ client \in Clients
    /\ token \in [Clients -> 0..MaxTokens]
    /\ refreshMu \in [Clients -> Calls \cup {NoCall}]
    /\ kind \in [Calls -> {"read", "refresh", "exchange"}]
    /\ stage \in [Calls -> {"idle", "wait", "sent", "got", "merge"}]
    /\ by \in [Calls -> Clients]
    /\ based \in [Calls -> 0..MaxTokens] /\ got \in [Calls -> 0..MaxTokens]
    /\ merged \in [Calls -> 0..MaxEdits]
    /\ row \in [token : 0..MaxTokens, edit : 0..MaxEdits]
    /\ exists \in BOOLEAN /\ deleted \in BOOLEAN /\ raced \in BOOLEAN /\ cut \in BOOLEAN
    /\ edits \in 0..MaxEdits

\* However many reads find the token about to expire at once, the first one refreshes it and
\* the others reuse what it stored: a read sends a refresh only for a token that is about to
\* expire, and no two calls of a client send the same refresh token.
OneRefresh ==
    /\ \A c \in Calls : stage[c] = "sent" /\ kind[c] = "read" => based[c] \in stale
    /\ \A c, d \in Calls : c # d /\ stage[c] = "sent" /\ stage[d] = "sent"
                           /\ by[c] = by[d] /\ based[c] = based[d] => based[c] = NoToken

\* The stored token is the client's once no call is in flight, because refreshMu covers the
\* token handler: only an exchange that stores its token while another call does, or a client
\* replaced meanwhile, parts them.
OnlyRacesPartTokens ==
    ~raced /\ exists /\ (\A c \in Calls : ~InFlight(c)) => row.token = token[client]

\* An edit is lost, or a deleted connection comes back, only when the edit or the deletion
\* falls between the read and the write of persistSchwabToken.
OnlyCutsLoseEdits == ~cut => row.edit = edits /\ (deleted => ~exists)

\* What refreshMu, the second look at the token and the fresh read of the row are for.
TokensGuarded == OneRefresh /\ OnlyRacesPartTokens /\ OnlyCutsLoseEdits
=============================================================================
