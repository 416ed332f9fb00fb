---------------------------- MODULE OrderSession ----------------------------
(***************************************************************************)
(* Order submission of the Alpaca and Schwab adapters                      *)
(* (internal/broker/order_session.go and the PreviewOrder and PlaceOrder   *)
(* of the two clients).  One OrderSessionState belongs to one broker       *)
(* session; its mutex covers single map accesses, never the requests to    *)
(* the broker, so calls for the same client_order_id run side by side.     *)
(* A request is a client_order_id together with a ticket, everything else  *)
(* the user filled in.  The broker and the network are external: a posted  *)
(* order may be taken, refused or lost, also long after the caller gave up *)
(* waiting, and its answer may be unreadable.                              *)
(***************************************************************************)
EXTENDS Integers

CONSTANTS
    Callers,        \* handlers of concurrent API requests
    Ids,            \* values of client_order_id
    Tickets,        \* the other fields of an OrderRequest
    NoTicket,       \* an absent map entry
    PreviewLife,    \* the 10 minutes a preview may be used
    MaxClock,       \* bound: the clock stops here
    MaxSessions     \* bound: sessions the connection goes through

ASSUME NoTicketAssumption == NoTicket \notin Tickets
ASSUME BoundsAssumption == PreviewLife \in Nat /\ MaxClock \in Nat /\ MaxSessions \in Nat \ {0}

VARIABLES
    clock,          \* time.Now
    session,        \* which session serves the connection
    instruments,    \* OrderSessionState.instruments: tickets whose contract was searched
    previewTicket,  \* OrderSessionState.previews: the request,
    previewAt,      \*   and when it was remembered
    attempt,        \* OrderSessionState.attempts: outcome of each client_order_id,
    attemptTicket,  \*   and its request
    step,           \* where each handler is
    id, ticket,     \* the request each handler carries
    verdict,        \* the named results (order, err) Finish will record
    sent,           \* [session][id]: POSTs written to the broker
    wire,           \* [session][id]: what became of the last of them
    begunAt,        \* history: when Begin recorded the attempt
    shownAt         \* history: last preview of [id][ticket] before the attempt, -1 never

sessionState == <<instruments, previewTicket, previewAt, attempt, attemptTicket, begunAt, shownAt>>
calls == <<step, id, ticket, verdict>>
brokerState == <<sent, wire>>
vars == <<clock, session, sessionState, calls, brokerState>>

Sessions == 1..MaxSessions

\* What an OrderAttemptState says: "accepted" carries an order, the others a Code.
Outcomes == {"accepted", "rejected", "unknown"}
Records == Outcomes \cup {"none", "inProgress"}
Steps == {"idle", "previewing", "validating", "lookup", "post", "waiting", "finish"}
Fates == {"none", "flying", "taken", "refused", "lost"}

TypeOK ==
    /\ clock \in 0..MaxClock
    /\ session \in Sessions
    /\ instruments \subseteq Tickets
    /\ previewTicket \in [Ids -> Tickets \cup {NoTicket}]
    /\ previewAt \in [Ids -> 0..MaxClock]
    /\ attempt \in [Ids -> Records]
    /\ attemptTicket \in [Ids -> Tickets \cup {NoTicket}]
    /\ step \in [Callers -> Steps]
    /\ id \in [Callers -> Ids]
    /\ ticket \in [Callers -> Tickets]
    /\ verdict \in [Callers -> Outcomes]
    /\ sent \in [Sessions -> [Ids -> Nat]]
    /\ wire \in [Sessions -> [Ids -> Fates]]
    /\ begunAt \in [Ids -> 0..MaxClock]
    /\ shownAt \in [Ids -> [Tickets -> Int]]

\* A session is opened with an empty OrderSessionState.
Init ==
    /\ clock = 0
    /\ session = 1
    /\ instruments = {}
    /\ previewTicket = [i \in Ids |-> NoTicket]
    /\ previewAt = [i \in Ids |-> 0]
    /\ attempt = [i \in Ids |-> "none"]
    /\ attemptTicket = [i \in Ids |-> NoTicket]
    /\ step = [p \in Callers |-> "idle"]
    /\ id \in [Callers -> Ids]
    /\ ticket \in [Callers -> Tickets]
    /\ verdict = [p \in Callers |-> "unknown"]
    /\ sent = [s \in Sessions |-> [i \in Ids |-> 0]]
    /\ wire = [s \in Sessions |-> [i \in Ids |-> "none"]]
    /\ begunAt = [i \in Ids |-> 0]
    /\ shownAt = [i \in Ids |-> [t \in Tickets |-> -1]]

Tick ==
    /\ clock < MaxClock
    /\ clock' = clock + 1
    /\ UNCHANGED <<session, sessionState, calls, brokerState>>

-----------------------------------------------------------------------------
\* SearchOrderInstruments found the ticket's contract.
RememberInstrument(t) ==
    /\ t \notin instruments
    /\ instruments' = instruments \cup {t}
    /\ UNCHANGED <<clock, session, previewTicket, previewAt, attempt, attemptTicket, begunAt, shownAt,
                   calls, brokerState>>

\* A handler starts; validateTradingOrder needs the selected instrument
\* before it asks the broker for account and asset.
Call(p, i, t, first) ==
    /\ step[p] = "idle"
    /\ t \in instruments
    /\ step' = [step EXCEPT ![p] = first]
    /\ id' = [id EXCEPT ![p] = i]
    /\ ticket' = [ticket EXCEPT ![p] = t]
    /\ UNCHANGED <<clock, session, sessionState, verdict, brokerState>>

PreviewOrder(p, i, t) == Call(p, i, t, "previewing")

PlaceOrder(p, i, t) == Call(p, i, t, "validating")

\* The validation or the preview request failed: nothing was recorded.
CallFails(p) ==
    /\ step[p] \in {"previewing", "validating"}
    /\ step' = [step EXCEPT ![p] = "idle"]
    /\ UNCHANGED <<clock, session, sessionState, id, ticket, verdict, brokerState>>

\* Mutant: an attempt without an order may be tried again.
AttemptedUnlessFailed(i) == attempt[i] \in {"inProgress", "accepted"}

Attempted(i) == attempt[i] # "none"

RememberPreview(p) ==
    /\ step[p] = "previewing"
    /\ previewTicket' = [previewTicket EXCEPT ![id[p]] = ticket[p]]
    /\ previewAt' = [previewAt EXCEPT ![id[p]] = clock]
    /\ shownAt' = IF Attempted(id[p]) THEN shownAt ELSE [shownAt EXCEPT ![id[p]][ticket[p]] = clock]
    /\ step' = [step EXCEPT ![p] = "idle"]
    /\ UNCHANGED <<clock, session, instruments, attempt, attemptTicket, begunAt, id, ticket, verdict,
                   brokerState>>

Previewed(i, t) == previewTicket[i] = t /\ clock - previewAt[i] <= PreviewLife

\* Begin returns the old attempt, or refuses: another request holds the
\* client_order_id, or there is no fresh preview of exactly this request.
BeginReturns(p) ==
    /\ step[p] = "validating"
    /\ Attempted(id[p]) \/ ~Previewed(id[p], ticket[p])
    /\ step' = [step EXCEPT ![p] = "idle"]
    /\ UNCHANGED <<clock, session, sessionState, id, ticket, verdict, brokerState>>

\* Begin records the attempt as in progress and uses up the preview.
Begin(p) ==
    /\ step[p] = "validating"
    /\ ~Attempted(id[p])
    /\ Previewed(id[p], ticket[p])
    /\ attempt' = [attempt EXCEPT ![id[p]] = "inProgress"]
    /\ attemptTicket' = [attemptTicket EXCEPT ![id[p]] = ticket[p]]
    /\ previewTicket' = [previewTicket EXCEPT ![id[p]] = NoTicket]
    /\ begunAt' = [begunAt EXCEPT ![id[p]] = clock]
    /\ step' = [step EXCEPT ![p] = "lookup"]
    /\ UNCHANGED <<clock, session, instruments, previewAt, shownAt, id, ticket, verdict, brokerState>>

\* Schwab asks for the account hash first; Alpaca goes straight on.
AccountHash(p) ==
    /\ step[p] = "lookup"
    /\ step' = [step EXCEPT ![p] = "post"]
    /\ UNCHANGED <<clock, session, sessionState, id, ticket, verdict, brokerState>>

\* accountHash failed, or Do failed before it wrote the request: when the
\* token endpoint answered 4xx the error reads as a rejection.
FailsUnsent(p) ==
    /\ \/ step[p] = "lookup" /\ verdict' = [verdict EXCEPT ![p] = "unknown"]
       \/ step[p] = "post" /\ \E v \in {"unknown", "rejected"} : verdict' = [verdict EXCEPT ![p] = v]
    /\ step' = [step EXCEPT ![p] = "finish"]
    /\ UNCHANGED <<clock, session, sessionState, id, ticket, brokerState>>

Post(p) ==
    /\ step[p] = "post"
    /\ sent' = [sent EXCEPT ![session][id[p]] = @ + 1]
    /\ wire' = [wire EXCEPT ![session][id[p]] = "flying"]
    /\ step' = [step EXCEPT ![p] = "waiting"]
    /\ UNCHANGED <<clock, session, sessionState, id, ticket, verdict>>

\* Mutant: a request without a readable answer counts as rejected.
ClassifiedAsRejected(f) == {IF f = "taken" THEN "accepted" ELSE "rejected"}

\* How PlaceOrder classifies what it sees of a request with fate f.  A
\* timeout, a broken connection, 429, 5xx and a body without order ID are
\* possible whatever the broker did.
Classified(f) ==
    {"unknown"} \cup (IF f = "taken" THEN {"accepted"} ELSE {})
                \cup (IF f = "refused" THEN {"rejected"} ELSE {})

Response(p) ==
    /\ step[p] = "waiting"
    /\ \E v \in Classified(wire[session][id[p]]) : verdict' = [verdict EXCEPT ![p] = v]
    /\ step' = [step EXCEPT ![p] = "finish"]
    /\ UNCHANGED <<clock, session, sessionState, id, ticket, brokerState>>

\* The deferred Finish stores whatever PlaceOrder returned.
Finish(p) ==
    /\ step[p] = "finish"
    /\ attempt' = [attempt EXCEPT ![id[p]] = verdict[p]]
    /\ attemptTicket' = [attemptTicket EXCEPT ![id[p]] = ticket[p]]
    /\ step' = [step EXCEPT ![p] = "idle"]
    /\ UNCHANGED <<clock, session, instruments, previewTicket, previewAt, begunAt, shownAt,
                   id, ticket, verdict, brokerState>>

-----------------------------------------------------------------------------
\* External: the broker takes or refuses a posted order, or never gets it.
BrokerDecides(s, i) ==
    /\ wire[s][i] = "flying"
    /\ \E f \in {"taken", "refused", "lost"} : wire' = [wire EXCEPT ![s][i] = f]
    /\ UNCHANGED <<clock, session, sessionState, calls, sent>>

NewSession ==
    /\ session < MaxSessions
    /\ session' = session + 1
    /\ instruments' = {}
    /\ previewTicket' = [i \in Ids |-> NoTicket]
    /\ previewAt' = [i \in Ids |-> 0]
    /\ attempt' = [i \in Ids |-> "none"]
    /\ attemptTicket' = [i \in Ids |-> NoTicket]
    /\ begunAt' = [i \in Ids |-> 0]
    /\ shownAt' = [i \in Ids |-> [t \in Tickets |-> -1]]
    /\ step' = [p \in Callers |-> "idle"]
    /\ UNCHANGED <<clock, id, ticket, verdict, brokerState>>

\* Reload opens another session; TradingService.Replace waits for the calls
\* that hold its read lock.
Replace == (\A p \in Callers : step[p] = "idle") /\ NewSession

\* The process dies in the middle of calls and comes back.
Crash == (\E p \in Callers : step[p] # "idle") /\ NewSession

Serve(p) ==
    \/ \E i \in Ids, t \in Tickets : PreviewOrder(p, i, t) \/ PlaceOrder(p, i, t)
    \/ CallFails(p) \/ RememberPreview(p)
    \/ BeginReturns(p) \/ Begin(p)
    \/ AccountHash(p) \/ FailsUnsent(p) \/ Post(p) \/ Response(p) \/ Finish(p)

Next ==
    \/ Tick
    \/ \E t \in Tickets : RememberInstrument(t)
    \/ \E p \in Callers : Serve(p)
    \/ \E s \in Sessions, i \in Ids : BrokerDecides(s, i)
    \/ Replace \/ Crash

Spec == Init /\ [][Next]_vars

-----------------------------------------------------------------------------
(***************************************************************************)
(* Properties                                                              *)
(***************************************************************************)

\* A session writes at most one POST for a client_order_id, however many
\* callers repeat the request while its outcome is uncertain
\* (order_session.go: "never sent a second time by the same session").
SentOnce == \A s \in Sessions, i \in Ids : sent[s][i] <= 1

\* What the session remembers, and so what OrderAttempt and a repeated
\* PlaceOrder report, is true of the broker: an accepted order is there, and
\* a rejected one neither is nor will be, although answers get lost and
\* posted requests arrive late.
RecordHonest ==
    \A i \in Ids :
        /\ attempt[i] = "accepted" => wire[session][i] = "taken"
        /\ attempt[i] = "rejected" => wire[session][i] \in {"none", "refused"}
        /\ attempt[i] = "none" => sent[session][i] = 0

\* Whatever was posted had been previewed by the same session, with exactly
\* this content, no longer than PreviewLife before Begin.
SentAsPreviewed ==
    \A i \in Ids :
        sent[session][i] > 0 =>
            LET shown == shownAt[i][attemptTicket[i]] IN
            shown >= 0 /\ begunAt[i] - shown <= PreviewLife

Settled(i) == attempt[i] \in Outcomes

\* Once PlaceOrder has reported an outcome for a client_order_id, the session
\* keeps it and its request: no slower handler overwrites them.
SettledStays ==
    [][\A i \in Ids : Settled(i) /\ session' = session =>
            attempt'[i] = attempt[i] /\ attemptTicket'[i] = attemptTicket[i]]_vars

\* What callers and late answers make of a client_order_id keeps the promise of OrderPromise: one
\* POST, and outcomes that are true of the broker and stay.  A broker that refused an order, or
\* never got it, will not have it later.
SaidOf == [none |-> "none", inProgress |-> "open", accepted |-> "accepted", rejected |-> "refused",
           unknown |-> "unknown"]
FateOf == [none |-> "none", flying |-> "out", taken |-> "taken", refused |-> "gone", lost |-> "gone"]
Said == [i \in Ids |-> SaidOf[attempt[i]]]
Fate == [s \in Sessions |-> [i \in Ids |-> FateOf[wire[s][i]]]]

Promise == INSTANCE OrderPromise WITH present <- session, said <- Said, fate <- Fate

KeepsOrderPromise == Promise!PSpec
=============================================================================
