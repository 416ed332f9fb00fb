--------------------------- MODULE ClientsProofs ----------------------------
(***************************************************************************)
(* The OAuth token of a Schwab client, the in-memory Yahoo client and the  *)
(* administration of the Tiingo source, proved for any number of calls.    *)
(* The three share no variable; each has its own invariant.                *)
(*                                                                         *)
(* Tokens: a refresh holds its client's mutex until the row is written     *)
(* (Held), so that unless an exchange or a reload interferes only one call *)
(* stores a token, and it stores the client's (Stored).                    *)
(* Yahoo: the gate lets one call see the cache; what it was not served is  *)
(* not in the cache until it is fetched (Missing).                         *)
(* Tiingo: a save that passed its checks is loadable as long as the row is *)
(* the one it was checked against (Checkable); the client differs from the *)
(* row only while a request is on its way to install it (Installing).      *)
(***************************************************************************)
EXTENDS MarketData, YahooClient, SchwabTokens, TLAPS

-----------------------------------------------------------------------------
(***************************************************************************)
(* SchwabTokens                                                            *)
(***************************************************************************)
\* A refresh that is sent or being stored holds the mutex of its client; only it has a token it
\* is based on.
Held ==
    \A c \in Calls :
        /\ stage[c] \in {"sent", "got", "merge"} /\ kind[c] # "exchange" => refreshMu[by[c]] = c
        /\ stage[c] \in {"idle", "wait"} \/ kind[c] = "exchange" => based[c] = NoToken
        /\ stage[c] = "idle" => kind[c] = "read"
        /\ stage[c] = "wait" => kind[c] # "exchange"

\* Without races one call stores, and it stores the token of the client that serves; when no
\* call stores, the row has that token.
Stored ==
    ~raced =>
        /\ \A c \in Calls : Storing(c) => by[c] = client /\ got[c] = token[client]
        /\ \A c, d \in Calls : Storing(c) /\ Storing(d) => c = d
        /\ exists /\ (\A c \in Calls : ~Storing(c)) => row.token = token[client]

\* What the handler read of the row is still in it.
Merging ==
    ~cut =>
        /\ row.edit = edits /\ (deleted => ~exists)
        /\ \A c \in Calls : stage[c] = "merge" => merged[c] = edits /\ ~deleted

TokensInv == TokensTypeOK /\ Held /\ Stored /\ Merging /\ OneRefresh

\* A call that returns.
LEMMA CallDone ==
    ASSUME TokensTypeOK, NEW c \in Calls, Done(c)
    PROVE  /\ refreshMu' \in [Clients -> Calls \cup {NoCall}]
           /\ kind' \in [Calls -> {"read", "refresh", "exchange"}]
           /\ stage' \in [Calls -> {"idle", "wait", "sent", "got", "merge"}]
           /\ by' \in [Calls -> Clients]
           /\ based' \in [Calls -> 0..MaxTokens] /\ got' \in [Calls -> 0..MaxTokens]
           /\ merged' \in [Calls -> 0..MaxEdits]
           /\ stage'[c] = "idle" /\ based'[c] = NoToken /\ kind'[c] = "read"
           /\ \A d \in Calls \ {c} :
                 /\ stage'[d] = stage[d] /\ kind'[d] = kind[d] /\ by'[d] = by[d]
                 /\ based'[d] = based[d] /\ got'[d] = got[d] /\ merged'[d] = merged[d]
           /\ \A g \in Clients, d \in Calls \ {c} : refreshMu[g] = d => refreshMu'[g] = d
BY TokenAssumption DEF TokensTypeOK, Done, Release, Clients, NoToken

\* It takes nothing from the others.
LEMMA DoneKeeps ==
    ASSUME TokensInv, NEW c \in Calls, Done(c), ~Storing(c) \/ ~exists \/ row'.token = got[c],
           UNCHANGED <<stale, client, token, edits, deleted, raced, cut>>,
           \/ UNCHANGED <<row, exists>>
           \/ stage[c] = "merge" /\ exists' /\ row'.token = got[c] /\ row'.edit = merged[c]
    PROVE  Held' /\ Stored' /\ Merging' /\ OneRefresh'
<1> USE DEF TokensInv
<1>1. /\ stage'[c] = "idle" /\ based'[c] = NoToken /\ kind'[c] = "read"
      /\ \A d \in Calls \ {c} :
            /\ stage'[d] = stage[d] /\ kind'[d] = kind[d] /\ by'[d] = by[d]
            /\ based'[d] = based[d] /\ got'[d] = got[d] /\ merged'[d] = merged[d]
      /\ \A g \in Clients, d \in Calls \ {c} : refreshMu[g] = d => refreshMu'[g] = d
      /\ by \in [Calls -> Clients]
  BY CallDone DEF TokensTypeOK
<1>2. Held'
  BY <1>1 DEF Held
<1>3. Stored'
  <2> SUFFICES ASSUME ~raced
               PROVE  /\ \A e \in Calls : Storing(e)' => by'[e] = client /\ got'[e] = token[client]
                      /\ \A e, d \in Calls : Storing(e)' /\ Storing(d)' => e = d
                      /\ exists' /\ (\A e \in Calls : ~Storing(e)') => row'.token = token[client]
    BY DEF Stored
  <2>1. ~Storing(c)' /\ \A d \in Calls \ {c} : Storing(d)' <=> Storing(d)
    BY <1>1 DEF Storing
  <2>2. CASE Storing(c)
    <3>1. \A d \in Calls : ~Storing(d)'
      BY <2>1, <2>2 DEF Stored
    <3> QED BY <2>2, <3>1 DEF Stored
  <2>3. CASE ~Storing(c)
    BY <1>1, <2>1, <2>3 DEF Stored, Storing
  <2> QED BY <2>2, <2>3
<1>4. Merging'
  BY <1>1 DEF Merging
<1>5. OneRefresh'
  BY <1>1 DEF OneRefresh, NoToken
<1> QED BY <1>2, <1>3, <1>4, <1>5

LEMMA TokensStart == TokensInit => TokensInv
<1> SUFFICES ASSUME TokensInit PROVE TokensInv
  OBVIOUS
<1> USE TokenAssumption DEF TokensInit, NoToken
<1>1. TokensTypeOK
  <2>1. /\ 1 \in 1..MaxTokens /\ {0, 1} \subseteq 0..MaxTokens /\ 0 \in 0..MaxEdits /\ 1 \in Clients
    BY DEF Clients
  <2>2. token \in [Clients -> 0..MaxTokens]
    BY <2>1
  <2>3. row \in [token : 0..MaxTokens, edit : 0..MaxEdits]
    BY <2>1
  <2> QED BY <2>1, <2>2, <2>3 DEF TokensTypeOK
<1>2. Held /\ Merging /\ OneRefresh
  BY DEF Held, Merging, OneRefresh
<1>3. Stored
  BY DEF Stored, Storing, Clients
<1> QED BY <1>1, <1>2, <1>3 DEF TokensInv

LEMMA TokensStep == TokensInv /\ [TokensNext]_tokenVars => TokensInv'
<1> SUFFICES ASSUME TokensInv, [TokensNext]_tokenVars PROVE TokensInv'
  OBVIOUS
<1> USE TokenAssumption DEF TokensInv
<1>1. ASSUME NEW c \in Calls, NEW k \in {"read", "refresh"}, StartRefresh(c, k) PROVE TokensInv'
  <2>1. TokensTypeOK'
    BY <1>1 DEF StartRefresh, TokensTypeOK
  <2>2. /\ stage[c] = "idle" /\ stage'[c] = "wait" /\ kind'[c] = k /\ by'[c] = client
        /\ \A d \in Calls \ {c} : stage'[d] = stage[d] /\ kind'[d] = kind[d] /\ by'[d] = by[d]
        /\ UNCHANGED <<issued, stale, client, token, refreshMu, based, got, row, exists, merged,
                       edits, deleted, raced, cut>>
    BY <1>1 DEF StartRefresh, InFlight, TokensTypeOK
  <2>3. Held' /\ OneRefresh'
    BY <2>2 DEF Held, OneRefresh
  <2>4. Stored' /\ Merging'
    BY <2>2 DEF Stored, Storing, Merging
  <2> QED BY <2>1, <2>3, <2>4
<1>2. ASSUME NEW c \in Calls, Lock(c) PROVE TokensInv'
  <2>1. CASE Done(c)
    <3>1. stage[c] = "wait" /\ UNCHANGED <<issued, stale, client, token, row, exists, edits, deleted, raced, cut>>
      BY <1>2 DEF Lock
    <3>2. Held' /\ Stored' /\ Merging' /\ OneRefresh'
      BY <2>1, <3>1, DoneKeeps DEF Storing
    <3>3. TokensTypeOK'
      BY <2>1, <3>1, CallDone DEF TokensTypeOK
    <3> QED BY <3>2, <3>3
  <2>2. CASE ~Done(c)
    <3>1. /\ stage[c] = "wait" /\ refreshMu[by[c]] = NoCall /\ (kind[c] = "refresh" \/ token[by[c]] \in stale)
          /\ refreshMu' = [refreshMu EXCEPT ![by[c]] = c]
          /\ stage' = [stage EXCEPT ![c] = "sent"]
          /\ based' = [based EXCEPT ![c] = token[by[c]]]
          /\ UNCHANGED <<kind, by, got, merged>>
          /\ UNCHANGED <<issued, stale, client, token, row, exists, edits, deleted, raced, cut>>
      BY <1>2, <2>2 DEF Lock, NeedsRefresh
    <3>2. TokensTypeOK'
      BY <3>1 DEF TokensTypeOK
    <3>3. /\ stage'[c] = "sent" /\ based'[c] = token[by[c]] /\ refreshMu'[by[c]] = c /\ by[c] \in Clients
          /\ \A d \in Calls \ {c} : stage'[d] = stage[d] /\ based'[d] = based[d]
          /\ \A g \in Clients \ {by[c]} : refreshMu'[g] = refreshMu[g]
          /\ by \in [Calls -> Clients]
      BY <3>1 DEF TokensTypeOK
    <3>4. Held'
      <4>1. ASSUME NEW d \in Calls \ {c}, refreshMu[by[d]] = d PROVE refreshMu'[by'[d]] = d
        BY <3>1, <3>3, <4>1
      <4>2. ASSUME NEW d \in Calls \ {c}
            PROVE  /\ stage'[d] \in {"sent", "got", "merge"} /\ kind'[d] # "exchange" => refreshMu'[by'[d]] = d
                   /\ stage'[d] \in {"idle", "wait"} \/ kind'[d] = "exchange" => based'[d] = NoToken
                   /\ stage'[d] = "idle" => kind'[d] = "read"
                   /\ stage'[d] = "wait" => kind'[d] # "exchange"
        BY <3>1, <3>3, <4>1 DEF Held
      <4>3. kind[c] # "exchange"
        BY <3>1, <3>3 DEF Held, TokensTypeOK
      <4> QED BY <3>1, <3>3, <4>2, <4>3 DEF Held
    <3>5. Stored' /\ Merging'
      BY <3>1, <3>3 DEF Stored, Storing, Merging
    <3>6. OneRefresh'
      BY <3>1, <3>3 DEF OneRefresh, Held
    <3> QED BY <3>2, <3>4, <3>5, <3>6
  <2> QED BY <2>1, <2>2
<1>3. ASSUME NEW c \in Calls, SendCode(c) PROVE TokensInv'
  <2>1. TokensTypeOK'
    BY <1>3 DEF SendCode, TokensTypeOK
  <2>2. /\ stage[c] = "idle" /\ stage'[c] = "sent" /\ kind'[c] = "exchange" /\ by'[c] = client
        /\ \A d \in Calls \ {c} : stage'[d] = stage[d] /\ kind'[d] = kind[d] /\ by'[d] = by[d]
        /\ UNCHANGED <<issued, stale, client, token, refreshMu, based, got, row, exists, merged,
                       edits, deleted, raced, cut>>
    BY <1>3 DEF SendCode, InFlight, TokensTypeOK
  <2>3. Held' /\ OneRefresh'
    BY <2>2 DEF Held, OneRefresh
  <2>4. Stored' /\ Merging'
    BY <2>2 DEF Stored, Storing, Merging
  <2> QED BY <2>1, <2>3, <2>4
<1>4. ASSUME NEW c \in Calls, TokenAnswer(c) PROVE TokensInv'
  <2>1. TokensTypeOK'
    BY <1>4 DEF TokenAnswer, TokensTypeOK
  <2>2. /\ stage[c] = "sent" /\ stage'[c] = "got" /\ got'[c] = issued + 1
        /\ raced' = (raced \/ by[c] # client \/ OverlapsExchange(c))
        /\ \A d \in Calls \ {c} : stage'[d] = stage[d] /\ got'[d] = got[d]
        /\ by[c] = client => token'[client] = issued + 1
        /\ UNCHANGED <<stale, client, refreshMu, kind, by, based, row, exists, merged, edits, deleted, cut>>
    BY <1>4 DEF TokenAnswer, TokensTypeOK
  <2>3. Held' /\ OneRefresh' /\ Merging'
    BY <2>2 DEF Held, OneRefresh, Merging
  <2>4. Stored'
    <3> SUFFICES ASSUME ~raced'
                 PROVE  /\ by[c] = client /\ got'[c] = token'[client]
                        /\ \A d \in Calls \ {c} : ~Storing(d)'
      BY <2>2 DEF Stored, Storing
    <3>1. ~raced /\ by[c] = client /\ ~OverlapsExchange(c)
      BY <2>2
    <3>2. ASSUME NEW d \in Calls \ {c}, Storing(d) PROVE FALSE
      <4>1. kind[c] # "exchange" /\ kind[d] # "exchange"
        BY <3>1, <3>2 DEF OverlapsExchange
      <4>2. refreshMu[client] = c /\ refreshMu[client] = d
        BY <2>2, <3>1, <3>2, <4>1 DEF Held, Stored, Storing
      <4> QED BY <4>2
    <3> QED BY <2>2, <3>1, <3>2 DEF Storing
  <2> QED BY <2>1, <2>3, <2>4
<1>5. ASSUME NEW c \in Calls, TokenFailure(c) PROVE TokensInv'
  <2>1. /\ stage[c] = "sent" /\ Done(c)
        /\ UNCHANGED <<issued, stale, client, token, row, exists, edits, deleted, raced, cut>>
    BY <1>5 DEF TokenFailure
  <2>2. Held' /\ Stored' /\ Merging' /\ OneRefresh'
    BY <2>1, DoneKeeps DEF Storing
  <2>3. TokensTypeOK'
    BY <2>1, CallDone DEF TokensTypeOK
  <2> QED BY <2>2, <2>3
<1>6. ASSUME NEW c \in Calls, ReadRow(c) PROVE TokensInv'
  <2>0. stage[c] = "got" /\ UNCHANGED <<issued, stale, client, token, row, exists, edits, deleted, raced, cut>>
    BY <1>6 DEF ReadRow
  <2>1. CASE ~exists
    <3>1. Done(c)
      BY <1>6, <2>1 DEF ReadRow
    <3>2. Held' /\ Stored' /\ Merging' /\ OneRefresh'
      BY <2>0, <2>1, <3>1, DoneKeeps
    <3>3. TokensTypeOK'
      BY <2>0, <3>1, CallDone DEF TokensTypeOK
    <3> QED BY <3>2, <3>3
  <2>2. CASE exists
    <3>1. /\ merged' = [merged EXCEPT ![c] = row.edit] /\ stage' = [stage EXCEPT ![c] = "merge"]
          /\ UNCHANGED <<refreshMu, kind, by, based, got>>
      BY <1>6, <2>2 DEF ReadRow
    <3>2. TokensTypeOK'
      BY <2>0, <3>1 DEF TokensTypeOK
    <3>3. /\ merged'[c] = row.edit /\ stage'[c] = "merge"
          /\ \A d \in Calls \ {c} : stage'[d] = stage[d] /\ merged'[d] = merged[d]
      BY <3>1 DEF TokensTypeOK
    <3>4. Held' /\ OneRefresh'
      BY <2>0, <3>1, <3>3 DEF Held, OneRefresh
    <3>5. Stored'
      BY <2>0, <3>1, <3>3 DEF Stored, Storing
    <3>6. Merging'
      BY <2>0, <2>2, <3>1, <3>3 DEF Merging
    <3> QED BY <3>2, <3>4, <3>5, <3>6
  <2> QED BY <2>1, <2>2
<1>7. ASSUME NEW c \in Calls, WriteRow(c) PROVE TokensInv'
  <2>1. /\ stage[c] = "merge" /\ row' = [token |-> got[c], edit |-> merged[c]] /\ exists' = TRUE /\ Done(c)
        /\ UNCHANGED <<issued, stale, client, token, edits, deleted, raced, cut>>
    BY <1>7 DEF WriteRow
  <2>2. row'.token = got[c] /\ row'.edit = merged[c] /\ exists'
    BY <2>1
  <2>3. Held' /\ Stored' /\ Merging' /\ OneRefresh'
    BY <2>1, <2>2, DoneKeeps
  <2>4. TokensTypeOK'
    BY <2>1, CallDone DEF TokensTypeOK
  <2> QED BY <2>3, <2>4
<1>8. CASE EditConnection
  <2>1. TokensTypeOK'
    BY <1>8 DEF EditConnection, callVars, TokensTypeOK
  <2>2. row'.edit = edits' /\ row'.token = row.token
    BY <1>8 DEF EditConnection, TokensTypeOK
  <2>3. Held' /\ OneRefresh' /\ Stored'
    BY <1>8, <2>2 DEF EditConnection, callVars, Held, OneRefresh, Stored, Storing
  <2>4. Merging'
    BY <1>8, <2>2 DEF EditConnection, callVars, Merging
  <2> QED BY <2>1, <2>3, <2>4
<1>9. CASE DeleteConnection
  BY <1>9 DEF DeleteConnection, callVars, TokensTypeOK, Held, OneRefresh, Stored, Storing, Merging
<1>10. CASE Reopen
  <2>1. /\ client' = client + 1 /\ client + 1 \in Clients /\ exists
        /\ token' = [token EXCEPT ![client + 1] = row.token]
        /\ raced' = (raced \/ \E c \in Calls : Storing(c))
        /\ UNCHANGED <<issued, stale, refreshMu, kind, stage, by, based, got, merged, row, exists, edits,
                       deleted, cut>>
    BY <1>10 DEF Reopen, callVars, Clients, TokensTypeOK
  <2>2. TokensTypeOK'
    BY <2>1 DEF TokensTypeOK
  <2>3. token'[client'] = row.token
    BY <2>1 DEF TokensTypeOK
  <2>4. Held' /\ OneRefresh' /\ Merging'
    BY <2>1 DEF Held, OneRefresh, Merging
  <2>5. Stored'
    BY <2>1, <2>3 DEF Stored, Storing
  <2> QED BY <2>2, <2>4, <2>5
<1>11. ASSUME NEW t \in 1..MaxTokens, TokenExpires(t) PROVE TokensInv'
  BY <1>11 DEF TokenExpires, callVars, TokensTypeOK, Held, OneRefresh, Stored, Storing, Merging
<1>12. CASE UNCHANGED tokenVars
  BY <1>12 DEF tokenVars, callVars, TokensTypeOK, Held, OneRefresh, Stored, Storing, Merging
<1> QED BY <1>1, <1>2, <1>3, <1>4, <1>5, <1>6, <1>7, <1>8, <1>9, <1>10, <1>11, <1>12 DEF TokensNext

\* refreshMu, the second look at the token and the fresh read of the row guard the token: no
\* refresh token is sent twice by a client, the row keeps the client's token, and no edit is lost
\* except between persistSchwabToken's read and write.
THEOREM SchwabTokensGuarded == TokensSpec => []TokensGuarded
<1>1. TokensInv => TokensGuarded
  BY DEF TokensInv, TokensGuarded, OnlyRacesPartTokens, OnlyCutsLoseEdits, Stored, Merging, Storing, InFlight
<1> QED BY <1>1, TokensStart, TokensStep, PTL DEF TokensSpec

-----------------------------------------------------------------------------
(***************************************************************************)
(* YahooClient                                                             *)
(***************************************************************************)
Upstream == {"login", "asking", "waiting"}

\* What is not in the cache was not fetched; a call that went past the cache finds it so.
Missing ==
    /\ \A k \in Charts : k \notin cached => fetched[k] = 0
    /\ \A c \in Lookups :
          /\ at[c] # "out" => key[c] \in Charts
          /\ at[c] \in Upstream /\ ~again[c] => key[c] \notin cached

\* A request is sent with a crumb, and another attempt is left when one is waited for.
InHand ==
    \A c \in Lookups :
        /\ at[c] = "asking" => crumbs[Host(c)] > 0
        /\ at[c] = "waiting" => attempted[c] + 1 < Attempts

YahooInv == YahooTypeOK /\ Missing /\ InHand /\ Coalesced /\ RefusedCrumbsForgotten

LEMMA HostType ==
    ASSUME YahooTypeOK, NEW c \in Lookups
    PROVE  Host(c) \in Hosts
<1>1. attempted[c] \in {0, 1, 2}
  BY DEF YahooTypeOK, Attempts
<1>2. 0 % 2 = 0 /\ 1 % 2 = 1 /\ 2 % 2 = 0
  OBVIOUS
<1> QED BY <1>1, <1>2 DEF Host, Hosts

\* A call that returns.
LEMMA LookReturns ==
    ASSUME YahooTypeOK, NEW c \in Lookups, ReturnLook(c)
    PROVE  /\ gate' \in Lookups \cup {Nobody}
           /\ at' \in [Lookups -> {"out", "queued", "in", "login", "asking", "waiting"}]
           /\ key' \in [Lookups -> Charts \cup {Nobody}] /\ again' \in [Lookups -> BOOLEAN]
           /\ attempted' \in [Lookups -> 0..(Attempts - 1)]
           /\ \A d \in Lookups : at'[d] \in {"in", "login", "asking", "waiting"} <=> gate' = d
           /\ at'[c] = "out"
           /\ \A d \in Lookups \ {c} :
                 at'[d] = at[d] /\ key'[d] = key[d] /\ again'[d] = again[d] /\ attempted'[d] = attempted[d]
BY YahooAssumption DEF YahooTypeOK, ReturnLook, Attempts

\* When the call that holds the gate returns, no other is past the cache.
LEMMA Alone ==
    ASSUME YahooTypeOK, NEW c \in Lookups, at[c] \in {"in", "login", "asking", "waiting"}
    PROVE  gate = c /\ \A d \in Lookups \ {c} : at[d] \in {"out", "queued"}
BY DEF YahooTypeOK

\* A refused crumb is one of those issued.
LEMMA OneRefused ==
    ASSUME NEW c \in Lookups, refused \subseteq 1..crumbsIssued, crumbsIssued \in Nat,
           crumbs[Host(c)] \in 1..crumbsIssued, refused' = refused \cup {crumbs[Host(c)]}
    PROVE  refused' \subseteq 1..crumbsIssued
OBVIOUS

LEMMA YahooStart == YahooInit => YahooInv
<1> SUFFICES ASSUME YahooInit PROVE YahooInv
  OBVIOUS
<1> USE YahooAssumption DEF YahooInit
<1>1. YahooTypeOK
  BY DEF YahooTypeOK, Attempts, Hosts
<1>2. Missing /\ InHand /\ Coalesced /\ RefusedCrumbsForgotten
  BY DEF Missing, Upstream, InHand, Coalesced, RefusedCrumbsForgotten
<1> QED BY <1>1, <1>2 DEF YahooInv

LEMMA YahooStep == YahooInv /\ [YahooNext]_yahooVars => YahooInv'
<1> SUFFICES ASSUME YahooInv, [YahooNext]_yahooVars PROVE YahooInv'
  OBVIOUS
<1> USE YahooAssumption DEF YahooInv
<1>1. ASSUME NEW c \in Lookups, NEW k \in Charts, NEW refresh \in BOOLEAN, Look(c, k, refresh) PROVE YahooInv'
  <2>1. /\ at[c] = "out" /\ at'[c] = "queued" /\ key'[c] = k
        /\ at' \in [Lookups -> {"out", "queued", "in", "login", "asking", "waiting"}]
        /\ key' \in [Lookups -> Charts \cup {Nobody}] /\ again' \in [Lookups -> BOOLEAN]
        /\ \A d \in Lookups \ {c} : at'[d] = at[d] /\ key'[d] = key[d] /\ again'[d] = again[d]
        /\ UNCHANGED <<gate, attempted, cached, warmed, crumbs, crumbsIssued, withdrawn, refused, fetched>>
    BY <1>1 DEF Look, YahooTypeOK
  <2>2. YahooTypeOK'
    BY <2>1 DEF YahooTypeOK
  <2>3. Missing' /\ InHand'
    BY <2>1 DEF Missing, Upstream, InHand, Host
  <2>4. Coalesced' /\ RefusedCrumbsForgotten'
    BY <2>1 DEF Coalesced, RefusedCrumbsForgotten
  <2> QED BY <2>2, <2>3, <2>4
<1>2. ASSUME NEW c \in Lookups, EnterGate(c) PROVE YahooInv'
  <2>1. /\ gate = Nobody /\ gate' = c /\ at[c] = "queued" /\ at'[c] = "in"
        /\ at' \in [Lookups -> {"out", "queued", "in", "login", "asking", "waiting"}]
        /\ \A d \in Lookups \ {c} : at'[d] = at[d]
        /\ \/ cached' = {} /\ fetched' = [k \in Charts |-> 0]
           \/ UNCHANGED <<cached, fetched>>
        /\ UNCHANGED <<key, again, attempted, warmed, crumbs, crumbsIssued, withdrawn, refused>>
    BY <1>2 DEF EnterGate, YahooTypeOK
  <2>2. YahooTypeOK'
    BY <2>1 DEF YahooTypeOK
  <2>3. Missing' /\ InHand'
    BY <2>1 DEF Missing, Upstream, InHand, Host
  <2>4. Coalesced' /\ RefusedCrumbsForgotten'
    BY <2>1 DEF Coalesced, RefusedCrumbsForgotten
  <2> QED BY <2>2, <2>3, <2>4
<1>3. ASSUME NEW c \in Lookups, LookUp(c) PROVE YahooInv'
  <2>0. /\ at[c] = "in"
        /\ UNCHANGED <<cached, warmed, crumbs, crumbsIssued, withdrawn, refused, fetched>>
    BY <1>3 DEF LookUp
  <2>1. Coalesced' /\ RefusedCrumbsForgotten'
    BY <2>0 DEF Coalesced, RefusedCrumbsForgotten
  <2>2. CASE ReturnLook(c)
    <3>1. YahooTypeOK'
      BY <2>0, <2>2, LookReturns DEF YahooTypeOK
    <3>2. Missing' /\ InHand'
      BY <2>0, <2>2, LookReturns DEF Missing, Upstream, InHand, Host
    <3> QED BY <2>1, <3>1, <3>2
  <2>3. CASE ~ReturnLook(c)
    <3>1. /\ ~(key[c] \in cached /\ ~again[c])
          /\ at' = [at EXCEPT ![c] = "login"] /\ UNCHANGED <<gate, key, again, attempted>>
      BY <1>3, <2>3 DEF LookUp, Served
    <3>2. at'[c] = "login" /\ \A d \in Lookups \ {c} : at'[d] = at[d]
      BY <3>1 DEF YahooTypeOK
    <3>3. YahooTypeOK'
      BY <2>0, <3>1 DEF YahooTypeOK
    <3>4. Missing' /\ InHand'
      BY <2>0, <3>1, <3>2 DEF Missing, Upstream, InHand, Host
    <3> QED BY <2>1, <3>3, <3>4
  <2> QED BY <2>2, <2>3
<1>4. ASSUME NEW c \in Lookups, Authenticate(c) PROVE YahooInv'
  <2> DEFINE h == Host(c)
  <2>0. h \in Hosts
    BY HostType
  <2>1. /\ at[c] = "login" /\ at' = [at EXCEPT ![c] = "asking"]
        /\ UNCHANGED <<gate, key, again, attempted, cached, withdrawn, refused, fetched>>
        /\ \/ crumbs[h] > 0 /\ UNCHANGED <<crumbs, crumbsIssued>>
           \/ /\ crumbsIssued < MaxCrumbs /\ crumbsIssued' = crumbsIssued + 1
              /\ crumbs' = [crumbs EXCEPT ![h] = crumbsIssued + 1]
    BY <1>4 DEF Authenticate
  <2>2. at'[c] = "asking" /\ \A d \in Lookups \ {c} : at'[d] = at[d] /\ at[d] \in {"out", "queued"}
    BY <2>1, Alone DEF YahooTypeOK
  <2>3. /\ crumbsIssued' \in 0..MaxCrumbs /\ crumbs' \in [Hosts -> 0..crumbsIssued']
        /\ refused' \subseteq 1..crumbsIssued' /\ crumbs'[h] > 0
        /\ \A x \in Hosts : crumbs'[x] \notin refused
    BY <2>0, <2>1 DEF YahooTypeOK, RefusedCrumbsForgotten
  <2>4. YahooTypeOK'
    BY <2>1, <2>3 DEF YahooTypeOK
  <2>5. Missing'
    BY <2>1, <2>2 DEF Missing, Upstream
  <2>6. InHand'
    BY <2>1, <2>2, <2>3 DEF InHand, Host
  <2>7. Coalesced' /\ RefusedCrumbsForgotten'
    BY <2>1, <2>3 DEF Coalesced, RefusedCrumbsForgotten
  <2> QED BY <2>4, <2>5, <2>6, <2>7
<1>5. ASSUME NEW c \in Lookups, Retry(c) PROVE YahooInv'
  <2>1. /\ at[c] = "waiting" /\ at' = [at EXCEPT ![c] = "login"]
        /\ attempted' = [attempted EXCEPT ![c] = attempted[c] + 1]
        /\ attempted[c] + 1 < Attempts
        /\ UNCHANGED <<gate, key, again, cached, warmed, crumbs, crumbsIssued, withdrawn, refused, fetched>>
    BY <1>5 DEF Retry, InHand
  <2>2. /\ at'[c] = "login" /\ attempted' \in [Lookups -> 0..(Attempts - 1)]
        /\ \A d \in Lookups \ {c} : at'[d] = at[d] /\ attempted'[d] = attempted[d]
    BY <2>1 DEF YahooTypeOK, Attempts
  <2>3. YahooTypeOK'
    BY <2>1, <2>2 DEF YahooTypeOK
  <2>4. Missing' /\ InHand'
    BY <2>1, <2>2 DEF Missing, Upstream, InHand, Host
  <2>5. Coalesced' /\ RefusedCrumbsForgotten'
    BY <2>1 DEF Coalesced, RefusedCrumbsForgotten
  <2> QED BY <2>3, <2>4, <2>5
<1>6. ASSUME NEW c \in Lookups, GiveUp(c) PROVE YahooInv'
  <2>1. /\ ReturnLook(c)
        /\ UNCHANGED <<cached, warmed, crumbs, crumbsIssued, withdrawn, refused, fetched>>
    BY <1>6 DEF GiveUp
  <2>2. YahooTypeOK'
    BY <2>1, LookReturns DEF YahooTypeOK
  <2>3. Missing' /\ InHand'
    BY <2>1, LookReturns DEF Missing, Upstream, InHand, Host
  <2>4. Coalesced' /\ RefusedCrumbsForgotten'
    BY <2>1 DEF Coalesced, RefusedCrumbsForgotten
  <2> QED BY <2>2, <2>3, <2>4
<1>7. ASSUME NEW c \in Lookups, NEW usable \in BOOLEAN, Fetched(c, usable) PROVE YahooInv'
  <2>1. /\ at[c] = "asking" /\ ReturnLook(c) /\ key[c] \in Charts
        /\ UNCHANGED <<warmed, crumbs, crumbsIssued, withdrawn, refused>>
    BY <1>7 DEF Fetched, Missing
  <2>2. \A d \in Lookups : at'[d] \in {"out", "queued"}
    BY <2>1, LookReturns, Alone
  <2>3. /\ cached' \subseteq Charts /\ fetched' \in [Charts -> Nat] /\ Coalesced'
        /\ \A k \in Charts : k \notin cached' => fetched'[k] = 0
    <3>1. CASE usable
      <4>1. /\ cached' = cached \cup {key[c]}
            /\ fetched' = [fetched EXCEPT ![key[c]] = IF again[c] THEN 1 ELSE fetched[key[c]] + 1]
        BY <1>7, <3>1 DEF Fetched
      <4>2. ~again[c] => fetched[key[c]] = 0
        BY <2>1 DEF Missing, Upstream
      <4>3. /\ fetched' \in [Charts -> Nat] /\ fetched'[key[c]] = 1
            /\ \A k \in Charts \ {key[c]} : fetched'[k] = fetched[k]
        BY <2>1, <4>1, <4>2 DEF YahooTypeOK
      <4> QED BY <2>1, <4>1, <4>3 DEF YahooTypeOK, Coalesced, Missing
    <3>2. CASE ~usable
      BY <1>7, <3>2 DEF Fetched, YahooTypeOK, Coalesced, Missing
    <3> QED BY <3>1, <3>2
  <2>4. YahooTypeOK'
    BY <2>1, <2>3, LookReturns DEF YahooTypeOK
  <2>5. Missing' /\ InHand'
    BY <2>1, <2>2, <2>3, LookReturns DEF Missing, Upstream, InHand
  <2>6. RefusedCrumbsForgotten'
    BY <2>1 DEF RefusedCrumbsForgotten
  <2> QED BY <2>3, <2>4, <2>5, <2>6
<1>8. ASSUME NEW c \in Lookups, NEW status \in {0, 400, 401, 404, 429}, AttemptFails(c, status) PROVE YahooInv'
  <2>0. Host(c) \in Hosts
    BY HostType
  <2>1. /\ at[c] \in {"login", "asking"}
        /\ \/ status = 401 /\ at[c] = "asking" /\ refused' = refused \cup {crumbs[Host(c)]}
           \/ UNCHANGED refused
        /\ crumbs' = IF status = 401 THEN [h \in Hosts |-> 0] ELSE crumbs
        /\ UNCHANGED <<cached, crumbsIssued, withdrawn, fetched>>
    BY <1>8 DEF AttemptFails, Attempt, Forgotten
  <2>2. /\ refused' \subseteq 1..crumbsIssued
        /\ status # 401 => refused' = refused
    <3>1. at[c] = "asking" => crumbs[Host(c)] \in 1..crumbsIssued
      BY <2>0 DEF InHand, YahooTypeOK
    <3>2. CASE UNCHANGED refused
      BY <3>2 DEF YahooTypeOK
    <3>3. ASSUME at[c] = "asking", refused' = refused \cup {crumbs[Host(c)]}
          PROVE  refused' \subseteq 1..crumbsIssued
      <4>1. refused \subseteq 1..crumbsIssued /\ crumbsIssued \in Nat
        BY DEF YahooTypeOK
      <4>2. crumbs[Host(c)] \in 1..crumbsIssued
        BY <3>1, <3>3
      <4> QED BY <3>3, <4>1, <4>2, OneRefused
    <3> QED BY <2>1, <3>2, <3>3
  <2>3. /\ crumbs' \in [Hosts -> 0..crumbsIssued]
        /\ RefusedCrumbsForgotten'
    <3>1. CASE status = 401
      <4>1. \A h \in Hosts : crumbs'[h] = 0
        BY <2>1, <3>1
      <4>2. crumbs' \in [Hosts -> 0..crumbsIssued]
        BY <2>1, <3>1 DEF YahooTypeOK
      <4> QED BY <2>2, <4>1, <4>2 DEF RefusedCrumbsForgotten
    <3>2. CASE status # 401
      <4>1. crumbs' = crumbs
        BY <2>1, <3>2
      <4> QED BY <2>2, <3>2, <4>1 DEF YahooTypeOK, RefusedCrumbsForgotten
    <3> QED BY <3>1, <3>2
  <2>4. \A d \in Lookups \ {c} : at[d] \in {"out", "queued"}
    BY <2>1, Alone
  <2>5. Coalesced'
    BY <2>1 DEF Coalesced
  <2>6. CASE ReturnLook(c)
    <3>1. YahooTypeOK'
      BY <2>1, <2>2, <2>3, <2>6, LookReturns DEF YahooTypeOK
    <3>2. Missing' /\ InHand'
      BY <2>1, <2>4, <2>6, LookReturns DEF Missing, Upstream, InHand
    <3> QED BY <2>3, <2>5, <3>1, <3>2
  <2>7. CASE ~ReturnLook(c)
    <3>1. /\ attempted[c] + 1 # Attempts
          /\ at' = [at EXCEPT ![c] = "waiting"] /\ UNCHANGED <<gate, key, again, attempted>>
      BY <1>8, <2>7 DEF AttemptFails, Attempt
    <3>2. at'[c] = "waiting" /\ \A d \in Lookups \ {c} : at'[d] = at[d]
      BY <3>1 DEF YahooTypeOK
    <3>3. YahooTypeOK'
      BY <2>1, <2>2, <2>3, <3>1 DEF YahooTypeOK
    <3>4. attempted[c] + 1 < Attempts
      BY <3>1 DEF YahooTypeOK, Attempts
    <3>5. Missing' /\ InHand'
      BY <2>1, <2>4, <3>1, <3>2, <3>4 DEF Missing, Upstream, InHand
    <3> QED BY <2>3, <2>5, <3>3, <3>5
  <2> QED BY <2>6, <2>7
<1>9. ASSUME NEW k \in Charts, Expire(k) PROVE YahooInv'
  <2>1. /\ gate = Nobody /\ cached' = cached \ {k} /\ fetched' = [fetched EXCEPT ![k] = 0]
        /\ UNCHANGED <<gate, at, key, again, attempted, warmed, crumbs, crumbsIssued, withdrawn, refused>>
    BY <1>9 DEF Expire
  <2>2. fetched'[k] = 0 /\ \A x \in Charts \ {k} : fetched'[x] = fetched[x]
    BY <2>1 DEF YahooTypeOK
  <2>3. YahooTypeOK'
    BY <2>1 DEF YahooTypeOK
  <2>4. Missing' /\ InHand'
    BY <2>1, <2>2 DEF Missing, InHand, Host
  <2>5. Coalesced' /\ RefusedCrumbsForgotten'
    BY <2>1, <2>2 DEF Coalesced, RefusedCrumbsForgotten
  <2> QED BY <2>3, <2>4, <2>5
<1>10. CASE Withdraw
  BY <1>10 DEF Withdraw, YahooTypeOK, Missing, InHand, Host, Coalesced, RefusedCrumbsForgotten
<1>11. CASE UNCHANGED yahooVars
  BY <1>11 DEF yahooVars, YahooTypeOK, Missing, InHand, Host, Coalesced, RefusedCrumbsForgotten
<1> QED BY <1>1, <1>2, <1>3, <1>4, <1>5, <1>6, <1>7, <1>8, <1>9, <1>10, <1>11 DEF YahooNext

\* Overlapping calls for a key share one answer, and a crumb that the upstream refused is not
\* sent again.
THEOREM YahooUpstreamSpared == YahooSpec => []UpstreamSpared
<1>1. YahooInv => UpstreamSpared
  BY DEF YahooInv, UpstreamSpared
<1> QED BY <1>1, YahooStart, YahooStep, PTL DEF YahooSpec

-----------------------------------------------------------------------------
(***************************************************************************)
(* MarketData                                                              *)
(***************************************************************************)
\* A save that passed its checks enables nothing that has no token.
Checkable ==
    \A m \in Managers :
        /\ doing[m] \in {"read", "checked"} => order[m].kind # "none"
        /\ doing[m] = "checked" /\ order[m].kind = "save" => ~SaveRefused(order[m], view[m])

Startable == ~torn => Loadable(stored) /\ server = "up"

\* The client is the configured one, or a request is on its way to install it.
Installing ==
    server = "up" /\ ~torn /\ ~late /\ ~failed =>
        provider = Wanted(stored) \/ \E m \in Managers : doing[m] \in {"saved", "invalidated", "loaded"}

MarketInv == MarketTypeOK /\ Checkable /\ Startable /\ Installing

Configs == [enabled : BOOLEAN, token : 0..MaxTiingoTokens]

\* The request of an administrator that goes on.
LEMMA ManagerProceeds ==
    ASSUME MarketTypeOK, NEW m \in Managers,
           NEW to \in {"idle", "read", "checked", "saved", "invalidated", "loaded"}, Proceeds(m, to)
    PROVE  /\ doing' \in [Managers -> {"idle", "read", "checked", "saved", "invalidated", "loaded"}]
           /\ order' \in [Managers -> [kind : {"none", "save", "test", "delete"},
                                       enabled : {"unset", "yes", "no"}, token : 0..MaxTiingoTokens]]
           /\ view' \in [Managers -> Configs]
           /\ doing'[m] = to
           /\ to # "idle" => order'[m] = order[m] /\ view'[m] = view[m]
           /\ \A k \in Managers \ {m} :
                 doing'[k] = doing[k] /\ order'[k] = order[k] /\ view'[k] = view[k]
<1>1. /\ NoOrder \in [kind : {"none", "save", "test", "delete"}, enabled : {"unset", "yes", "no"},
                      token : 0..MaxTiingoTokens]
      /\ NoView \in Configs
  BY MarketAssumption DEF NoOrder, NoView, Configs
<1> QED BY <1>1 DEF MarketTypeOK, Proceeds, Configs

\* What the client becomes of a row.
LEMMA InstallType ==
    ASSUME MarketTypeOK, NEW config \in Configs
    PROVE  /\ Wanted(config) \in 0..MaxTiingoTokens /\ Install(config) \in 0..MaxTiingoTokens
           /\ Loadable(config) => Install(config) = Wanted(config)
BY MarketAssumption DEF MarketTypeOK, Wanted, Install, Loadable, Configs

LEMMA MarketStart == MarketInit => MarketInv
<1> SUFFICES ASSUME MarketInit PROVE MarketInv
  OBVIOUS
<1> USE MarketAssumption DEF MarketInit
<1>1. /\ NoOrder \in [kind : {"none", "save", "test", "delete"}, enabled : {"unset", "yes", "no"},
                      token : 0..MaxTiingoTokens]
      /\ NoView \in [enabled : BOOLEAN, token : 0..MaxTiingoTokens]
      /\ stored = [enabled |-> FALSE, token |-> 0]
  BY DEF NoOrder, NoView
<1>2. stored \in [enabled : BOOLEAN, token : 0..MaxTiingoTokens]
  BY <1>1
<1>3. MarketTypeOK
  <2>1. provider \in 0..MaxTiingoTokens
    OBVIOUS
  <2>2. order \in [Managers -> [kind : {"none", "save", "test", "delete"}, enabled : {"unset", "yes", "no"},
                               token : 0..MaxTiingoTokens]]
    BY <1>1
  <2>3. view \in [Managers -> [enabled : BOOLEAN, token : 0..MaxTiingoTokens]]
    BY <1>1
  <2>4. wish \in [Readers -> Requests \cup {NoWish}]
    OBVIOUS
  <2>5. doing \in [Managers -> {"idle", "read", "checked", "saved", "invalidated", "loaded"}]
    OBVIOUS
  <2> QED BY <1>2, <2>1, <2>2, <2>3, <2>4, <2>5 DEF MarketTypeOK
<1>4. ~stored.enabled
  BY <1>1
<1>5. Checkable /\ Startable /\ Installing
  BY <1>4 DEF Checkable, Startable, Installing, Loadable, Wanted
<1> QED BY <1>3, <1>5 DEF MarketInv

LEMMA MarketStep == MarketInv /\ [MarketNext]_marketVars => MarketInv'
<1> SUFFICES ASSUME MarketInv, [MarketNext]_marketVars PROVE MarketInv'
  OBVIOUS
<1> USE MarketAssumption DEF MarketInv
<1>1. ASSUME NEW m \in Managers, NEW verb \in {"save", "test", "delete"}, NEW e \in {"unset", "yes", "no"},
             NEW t \in 0..MaxTiingoTokens, BeginTiingo(m, verb, e, t)
      PROVE  MarketInv'
  <2>1. /\ doing[m] = "idle"
        /\ UNCHANGED <<stored, provider, server, torn, late, failed, wish>>
    BY <1>1 DEF BeginTiingo, readVars
  <2>2. NoView \in Configs /\ stored \in Configs
    BY DEF NoView, Configs, MarketTypeOK
  <2>3. /\ doing' \in [Managers -> {"idle", "read", "checked", "saved", "invalidated", "loaded"}]
        /\ view' \in [Managers -> Configs]
    BY <1>1, <2>2 DEF BeginTiingo, MarketTypeOK, Configs
  <2>4. /\ order' \in [Managers -> [kind : {"none", "save", "test", "delete"},
                                    enabled : {"unset", "yes", "no"}, token : 0..MaxTiingoTokens]]
        /\ order'[m].kind = verb
        /\ doing'[m] = IF verb = "delete" THEN "checked" ELSE "read"
        /\ \A k \in Managers \ {m} :
              doing'[k] = doing[k] /\ order'[k] = order[k] /\ view'[k] = view[k]
    BY <1>1 DEF BeginTiingo, MarketTypeOK
  <2>5. MarketTypeOK'
    BY <2>1, <2>3, <2>4 DEF MarketTypeOK, Configs
  <2>6. Checkable' /\ Startable'
    BY <2>1, <2>4 DEF Checkable, Startable, Loadable, SaveRefused, Enables
  <2>7. Installing'
    BY <2>1, <2>4 DEF Installing, Wanted
  <2> QED BY <2>5, <2>6, <2>7
<1>2. ASSUME NEW m \in Managers, NEW ok \in BOOLEAN, CheckTiingo(m, ok) PROVE MarketInv'
  <2>1. /\ doing[m] = "read"
        /\ \/ Proceeds(m, "idle")
           \/ Proceeds(m, "checked") /\ (order[m].kind = "save" => ~SaveRefused(order[m], view[m]))
        /\ UNCHANGED <<stored, provider, server, torn, late, failed, wish>>
    BY <1>2 DEF CheckTiingo, readVars
  <2>2. MarketTypeOK'
    BY <2>1, ManagerProceeds DEF MarketTypeOK, Configs
  <2>3. Checkable' /\ Startable'
    BY <2>1, ManagerProceeds DEF Checkable, Startable, Loadable, SaveRefused, Enables
  <2>4. Installing'
    BY <2>1, ManagerProceeds DEF Installing, Wanted
  <2> QED BY <2>2, <2>3, <2>4
<1>3. ASSUME NEW m \in Managers, WriteTiingo(m) PROVE MarketInv'
  <2>1. /\ doing[m] = "checked"
        /\ stored' = Updated(order[m], view[m])
        /\ torn' = (torn \/ (order[m].kind # "delete" /\ view[m] # stored))
        /\ Proceeds(m, IF order[m].kind = "test" THEN "idle" ELSE "saved")
        /\ UNCHANGED <<provider, server, late, failed, wish>>
    BY <1>3 DEF WriteTiingo, readVars
  <2>2. /\ order[m].kind \in {"save", "test", "delete"} /\ order[m].token \in 0..MaxTiingoTokens
        /\ stored \in Configs /\ view[m] \in Configs
    BY <2>1 DEF Checkable, MarketTypeOK, Configs
  <2>3. stored' \in Configs
    <3>1. \A o, config : Enables(o, config) \in BOOLEAN
      BY DEF Enables
    <3>2. CASE order[m].kind = "delete"
      BY <2>1, <3>2 DEF Updated, Configs
    <3>3. CASE order[m].kind = "test"
      BY <2>1, <2>2, <3>3 DEF Updated, Configs
    <3>4. CASE order[m].kind = "save"
      BY <2>1, <2>2, <3>1, <3>4 DEF Updated, Configs
    <3> QED BY <2>2, <3>2, <3>3, <3>4
  <2>4. MarketTypeOK'
    BY <2>1, <2>3, ManagerProceeds DEF MarketTypeOK, Configs
  <2>5. Checkable'
    BY <2>1, ManagerProceeds DEF Checkable, SaveRefused, Enables
  <2>6. ~torn' => Loadable(stored')
    <3>1. CASE order[m].kind = "delete"
      BY <2>1, <3>1 DEF Updated, Loadable
    <3>2. CASE order[m].kind = "test"
      <4>1. stored' = [enabled |-> view[m].enabled, token |-> stored.token]
        BY <2>1, <3>2 DEF Updated
      <4>2. ~torn' => view[m].enabled = stored.enabled /\ Loadable(stored)
        BY <2>1, <3>2 DEF Startable
      <4> QED BY <4>1, <4>2 DEF Loadable
    <3>3. CASE order[m].kind = "save"
      <4>1. stored' = [enabled |-> Enables(order[m], view[m]),
                       token |-> IF order[m].token > 0 THEN order[m].token ELSE stored.token]
        BY <2>1, <3>3 DEF Updated
      <4>2. ~SaveRefused(order[m], view[m])
        BY <2>1, <3>3 DEF Checkable
      <4>3. ~torn' => view[m] = stored
        BY <2>1, <3>3
      <4>4. stored.token \in Nat /\ order[m].token \in Nat
        BY <2>2 DEF Configs
      <4> QED BY <4>1, <4>2, <4>3, <4>4 DEF Loadable, SaveRefused
    <3> QED BY <2>2, <3>1, <3>2, <3>3
  <2>7. Startable'
    BY <2>1, <2>6 DEF Startable
  <2>8. Installing'
    <3>1. CASE order[m].kind = "test"
      <4>1. ~torn' => stored' = stored
        <5>1. stored = [enabled |-> stored.enabled, token |-> stored.token]
          BY <2>2 DEF Configs
        <5> QED BY <2>1, <3>1, <5>1 DEF Updated
      <4>2. doing'[m] = "idle" /\ \A k \in Managers \ {m} : doing'[k] = doing[k]
        BY <2>1, <3>1, ManagerProceeds
      <4> QED BY <2>1, <4>1, <4>2 DEF Installing, Wanted
    <3>2. CASE order[m].kind # "test"
      <4>1. doing'[m] = "saved"
        BY <2>1, <3>2, ManagerProceeds
      <4> QED BY <4>1 DEF Installing
    <3> QED BY <3>1, <3>2
  <2> QED BY <2>4, <2>5, <2>7, <2>8
<1>4. ASSUME NEW m \in Managers, NEW ok \in BOOLEAN, InvalidateTiingo(m, ok) PROVE MarketInv'
  <2>1. /\ doing[m] = "saved"
        /\ Proceeds(m, IF ok THEN "invalidated" ELSE "idle")
        /\ failed' = (failed \/ ~ok)
        /\ UNCHANGED <<stored, provider, server, torn, late, wish>>
    BY <1>4 DEF InvalidateTiingo, readVars
  <2>2. MarketTypeOK'
    BY <2>1, ManagerProceeds DEF MarketTypeOK, Configs
  <2>3. Checkable' /\ Startable'
    BY <2>1, ManagerProceeds DEF Checkable, Startable, Loadable, SaveRefused, Enables
  <2>4. Installing'
    BY <2>1, ManagerProceeds DEF Installing, Wanted
  <2> QED BY <2>2, <2>3, <2>4
<1>5. ASSUME NEW m \in Managers, NEW ok \in BOOLEAN, LoadTiingo(m, ok) PROVE MarketInv'
  <2>1. /\ doing[m] = "invalidated"
        /\ failed' = (failed \/ ~ok)
        /\ UNCHANGED <<stored, provider, server, torn, late, wish>>
    BY <1>5 DEF LoadTiingo, readVars
  <2>2. /\ NoView \in Configs /\ stored \in Configs
        /\ NoOrder \in [kind : {"none", "save", "test", "delete"}, enabled : {"unset", "yes", "no"},
                        token : 0..MaxTiingoTokens]
    BY DEF NoView, NoOrder, Configs, MarketTypeOK
  <2>3. /\ doing' \in [Managers -> {"idle", "read", "checked", "saved", "invalidated", "loaded"}]
        /\ view' \in [Managers -> Configs]
        /\ order' \in [Managers -> [kind : {"none", "save", "test", "delete"},
                                    enabled : {"unset", "yes", "no"}, token : 0..MaxTiingoTokens]]
    BY <1>5, <2>2 DEF LoadTiingo, MarketTypeOK, Configs
  <2>4. /\ doing'[m] = IF ok THEN "loaded" ELSE "idle"
        /\ \A k \in Managers \ {m} :
              doing'[k] = doing[k] /\ order'[k] = order[k] /\ view'[k] = view[k]
    BY <1>5 DEF LoadTiingo, MarketTypeOK
  <2>5. MarketTypeOK'
    BY <2>1, <2>3 DEF MarketTypeOK, Configs
  <2>6. Startable' /\ Installing'
    BY <2>1, <2>4 DEF Startable, Loadable, Installing, Wanted
  <2>7. Checkable'
    BY <2>1, <2>4 DEF Checkable, SaveRefused, Enables
  <2> QED BY <2>5, <2>6, <2>7
<1>6. ASSUME NEW m \in Managers, SetTiingo(m) PROVE MarketInv'
  <2>1. /\ doing[m] = "loaded"
        /\ provider' = Install(view[m]) /\ late' = (view[m] # stored) /\ failed' = ~Loadable(view[m])
        /\ Proceeds(m, "idle")
        /\ UNCHANGED <<stored, server, torn, wish>>
    BY <1>6 DEF SetTiingo, readVars
  <2>2. view[m] \in Configs
    BY DEF MarketTypeOK, Configs
  <2>3. MarketTypeOK'
    BY <2>1, <2>2, ManagerProceeds, InstallType DEF MarketTypeOK, Configs
  <2>4. Checkable' /\ Startable'
    BY <2>1, ManagerProceeds DEF Checkable, Startable, Loadable, SaveRefused, Enables
  <2>5. Installing'
    BY <2>1, <2>2, InstallType DEF Installing, Wanted
  <2> QED BY <2>3, <2>4, <2>5
<1>7. CASE RestartServer
  <2>1. /\ \A m \in Managers : doing'[m] = "idle"
        /\ UNCHANGED <<stored, torn>>
        /\ \/ Loadable(stored) /\ provider' = Wanted(stored) /\ server' = "up"
           \/ ~Loadable(stored) /\ provider' = 0 /\ server' = "refuses"
    BY <1>7 DEF RestartServer
  <2>2. /\ NoView \in Configs /\ stored \in Configs
        /\ NoOrder \in [kind : {"none", "save", "test", "delete"}, enabled : {"unset", "yes", "no"},
                        token : 0..MaxTiingoTokens]
    BY DEF NoView, NoOrder, Configs, MarketTypeOK
  <2>3. MarketTypeOK'
    <3>1. provider' \in 0..MaxTiingoTokens /\ server' \in {"up", "refuses"}
      BY <2>1, <2>2, InstallType
    <3>2. order' \in [Managers -> [kind : {"none", "save", "test", "delete"}, enabled : {"unset", "yes", "no"},
                                   token : 0..MaxTiingoTokens]]
      BY <1>7, <2>2 DEF RestartServer
    <3>3. view' \in [Managers -> Configs]
      BY <1>7, <2>2 DEF RestartServer
    <3>4. /\ wish' \in [Readers -> Requests \cup {NoWish}]
          /\ doing' \in [Managers -> {"idle", "read", "checked", "saved", "invalidated", "loaded"}]
          /\ late' = FALSE /\ failed' = FALSE
      BY <1>7 DEF RestartServer
    <3> QED BY <2>1, <3>1, <3>2, <3>3, <3>4 DEF MarketTypeOK, Configs
  <2>4. Checkable' /\ Startable' /\ Installing'
    BY <2>1 DEF Checkable, Startable, Installing, Loadable, Wanted
  <2> QED BY <2>3, <2>4
<1>8. ASSUME UNCHANGED adminVars, wish' \in [Readers -> Requests \cup {NoWish}]
      PROVE  MarketInv'
  <2>1. MarketTypeOK'
    BY <1>8 DEF adminVars, MarketTypeOK
  <2> QED BY <1>8, <2>1 DEF adminVars, Checkable, Startable, Installing, Loadable, Wanted, SaveRefused, Enables
<1>9. ASSUME NEW r \in Readers, NEW q \in Requests, AskMarket(r, q) PROVE MarketInv'
  <2>1. \/ wish' = [wish EXCEPT ![r] = NoWish]
        \/ wish' = [wish EXCEPT ![r] = q]
    BY <1>9 DEF AskMarket, Answered
  <2> QED BY <1>8, <1>9, <2>1 DEF AskMarket, MarketTypeOK
<1>10. ASSUME NEW r \in Readers, PickSource(r) PROVE MarketInv'
  BY <1>8, <1>10 DEF PickSource, TryNext, Answered, MarketTypeOK
<1>11. ASSUME NEW r \in Readers, NEW o \in {"ok", "invalid", "missing", "denied"}, SourceAnswers(r, o)
       PROVE  MarketInv'
  BY <1>8, <1>11 DEF SourceAnswers, TryNext, Answered, MarketTypeOK
<1>12. CASE UNCHANGED marketVars
  BY <1>8, <1>12 DEF marketVars, readVars, MarketTypeOK
<1>13. {"unset", "yes", "no"} # {} /\ 0 \in 0..MaxTiingoTokens
  OBVIOUS
<1> QED BY <1>1, <1>2, <1>3, <1>4, <1>5, <1>6, <1>7, <1>9, <1>10, <1>11, <1>12, <1>13 DEF MarketNext

-----------------------------------------------------------------------------
\* Readers are answered, with a label that is about the prices it comes with.
Labelled(a) == a.source # "error" => a.label = a.data
LabelsInv == answer = [r \in Readers |-> answer[r]] /\ \A r \in Readers : Labelled(answer[r])

\* Label and Data look at the same things, and a valuation is never adjusted.
LEMMA LabelIsData ==
    ASSUME NEW q, NEW s
    PROVE  Label(q, s) = Data(q, s) /\ (q.usage = "valuation" => Data(q, s) = "traded")
BY DEF Label, Data

\* Errors have no prices.
LEMMA ErrorsLabelled == Labelled(NoAnswer) /\ \A code : Labelled(Error(code))
BY DEF Labelled, NoAnswer, Error

LEMMA AnsweredLabels ==
    ASSUME LabelsInv, NEW r \in Readers, NEW a, Labelled(a), answer' = [answer EXCEPT ![r] = a]
    PROVE  LabelsInv'
BY DEF LabelsInv

LEMMA TryNextLabels ==
    ASSUME LabelsInv, NEW r \in Readers, NEW code, TryNext(r, code)
    PROVE  LabelsInv'
<1>1. CASE Len(left[r]) = 1
  <2>1. PICK e : answer' = [answer EXCEPT ![r] = Error(e)]
    BY <1>1 DEF TryNext, Answered
  <2> QED BY <2>1, AnsweredLabels, ErrorsLabelled
<1>2. CASE Len(left[r]) # 1
  BY <1>2 DEF TryNext, LabelsInv
<1> QED BY <1>1, <1>2

LEMMA LabelsStep == LabelsInv /\ [MarketNext]_marketVars => LabelsInv'
<1> SUFFICES ASSUME LabelsInv, [MarketNext]_marketVars PROVE LabelsInv'
  OBVIOUS
<1>1. CASE answer' = answer
  BY <1>1 DEF LabelsInv
<1>2. CASE RestartServer
  BY <1>2, ErrorsLabelled DEF RestartServer, LabelsInv
<1>3. ASSUME NEW r \in Readers, NEW q \in Requests, AskMarket(r, q) PROVE LabelsInv'
  <2>1. PICK a \in {NoAnswer, Error("invalid")} : answer' = [answer EXCEPT ![r] = a]
    BY <1>3 DEF AskMarket, Answered
  <2> QED BY <2>1, AnsweredLabels, ErrorsLabelled
<1>4. ASSUME NEW r \in Readers, PickSource(r) PROVE LabelsInv'
  BY <1>1, <1>4, TryNextLabels DEF PickSource
<1>5. ASSUME NEW r \in Readers, NEW o, SourceAnswers(r, o) PROVE LabelsInv'
  <2> DEFINE q == wish[r]
             s == asked[r][1]
             a == [source |-> s, label |-> Label(q, s), data |-> Data(q, s)]
  <2>1. Labelled(a)
    BY LabelIsData DEF Labelled
  <2>2. CASE answer' = [answer EXCEPT ![r] = a]
    BY <2>1, <2>2, AnsweredLabels
  <2>3. CASE answer' = [answer EXCEPT ![r] = Error("invalid")]
    BY <2>3, AnsweredLabels, ErrorsLabelled
  <2>4. CASE TryNext(r, o)
    BY <2>4, TryNextLabels
  <2> QED BY <1>5, <2>2, <2>3, <2>4 DEF SourceAnswers, Answered
<1>6. \/ answer' = answer \/ RestartServer
      \/ \E r \in Readers : \/ \E q \in Requests : AskMarket(r, q)
                            \/ PickSource(r)
                            \/ \E o \in {"ok", "invalid", "missing", "denied"} : SourceAnswers(r, o)
  BY DEF MarketNext, BeginTiingo, CheckTiingo, InvalidateTiingo, LoadTiingo, WriteTiingo, SetTiingo,
         readVars, marketVars
<1> QED BY <1>1, <1>2, <1>3, <1>4, <1>5, <1>6

\* The server can be started again, and the client that serves is the configured one, unless a row
\* was written over a newer one or its change failed or came late; and a history is labelled as
\* adjusted exactly when its prices are.
THEOREM MarketSourcesSound == MarketSpec => []SourcesSound
<1>1. MarketInit => LabelsInv
  BY ErrorsLabelled DEF MarketInit, LabelsInv
<1>2. LabelsInv => LabelledAsPriced
  BY LabelIsData DEF LabelsInv, LabelledAsPriced, Labelled
<1>3. MarketInv => OnlyRacesMisconfigure
  BY DEF MarketInv, Startable, Installing, OnlyRacesMisconfigure
<1>4. MarketInv /\ LabelsInv => SourcesSound
  BY <1>2, <1>3 DEF SourcesSound
<1> QED BY <1>1, <1>4, LabelsStep, MarketStart, MarketStep, PTL DEF MarketSpec
=============================================================================
