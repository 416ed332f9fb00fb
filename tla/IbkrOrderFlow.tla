--------------------------- MODULE IbkrOrderFlow ---------------------------
(***************************************************************************)
(* Order entry of the IBKR adapter (internal/broker/ibkr/order_workflow.go *)
(* and CancelOrder in orders.go).  The Gateway may answer a submission     *)
(* with a question the user has to confirm, and the answer with another    *)
(* question.  One mutex is held across each whole operation with all its   *)
(* requests, so operations do not overlap; what is uncertain is what the   *)
(* Gateway does with a request whose answer got lost.  The Gateway is      *)
(* external; it gives every question a reply ID of its own.                *)
(***************************************************************************)
EXTENDS Integers, FiniteSets

CONSTANTS
    Ids,            \* values of client_order_id
    NoId,
    Replies,        \* reply IDs of the Gateway's questions
    NoReply,
    MaxAttempts,    \* attempts a session retains (10000 in the code)
    MaxSessions     \* bound: sessions the connection goes through

ASSUME NoneAssumption == NoId \notin Ids /\ NoReply \notin Replies
ASSUME BoundsAssumption == MaxAttempts \in Nat /\ MaxSessions \in Nat \ {0}

VARIABLES
    session,        \* which session serves the connection
    record,         \* orderWorkflowState.attempts: what order and err say
    question,       \* attempt.order.Confirmation.ReplyID
    pending,        \* orderWorkflowState.pending: the attempt that waits for the user
    decision,       \* orderWorkflowState.replies: confirmed
    replyResult,    \*   and the order and err it led to
    busy,           \* the operation that holds the mutex
    subject,        \* the client_order_id it works on
    choice,         \* the confirmed argument of ReplyOrder
    cache,          \* whether cachedOrders may be served (liveOrderState.readyAt)
    sent,           \* [session][id]: submissions written to the Gateway
    told,           \* [reply]: replies written to the Gateway
    gate,           \* [session][id]: external: the order in the Gateway
    asked,          \* [session][id]: external: the last question about it
    heard,          \* [reply]: external: the answer on its way, or what became of it
    used            \* external: reply IDs the Gateway has given out

flow == <<record, question, pending, decision, replyResult>>
operation == <<busy, subject, choice>>
gateway == <<gate, asked, heard, used>>
vars == <<session, flow, operation, cache, sent, told, gateway>>

Sessions == 1..MaxSessions
Results == {"accepted", "rejected", "unknown", "asking", "declined"}
Records == Results \cup {"none", "sent"}
Operations == {"free", "previewing", "preparing", "submitting", "replying", "cancelling"}
OrderStates == {"none", "flying", "lost", "asking", "working", "ended", "refused", "dropped"}

TypeOK ==
    /\ session \in Sessions
    /\ record \in [Ids -> Records]
    /\ question \in [Ids -> Replies \cup {NoReply}]
    /\ pending \in Ids \cup {NoId}
    /\ decision \in [Replies -> {"none", "yes", "no"}]
    /\ replyResult \in [Replies -> Results \cup {"none"}]
    /\ busy \in Operations
    /\ subject \in Ids \cup {NoId}
    /\ choice \in {"none", "yes", "no"}
    /\ cache \in {"stale", "ready"}
    /\ sent \in [Sessions -> [Ids -> Nat]]
    /\ told \in [Replies -> Nat]
    /\ gate \in [Sessions -> [Ids -> OrderStates]]
    /\ asked \in [Sessions -> [Ids -> Replies \cup {NoReply}]]
    /\ heard \in [Replies -> {"none", "yes", "no", "lost", "done"}]
    /\ used \subseteq Replies

\* A new session's orderWorkflowState and liveOrderState are zero.
Init ==
    /\ session = 1
    /\ record = [i \in Ids |-> "none"]
    /\ question = [i \in Ids |-> NoReply]
    /\ pending = NoId
    /\ decision = [r \in Replies |-> "none"]
    /\ replyResult = [r \in Replies |-> "none"]
    /\ busy = "free" /\ subject = NoId /\ choice = "none"
    /\ cache = "stale"
    /\ sent = [s \in Sessions |-> [i \in Ids |-> 0]]
    /\ told = [r \in Replies |-> 0]
    /\ gate = [s \in Sessions |-> [i \in Ids |-> "none"]]
    /\ asked = [s \in Sessions |-> [i \in Ids |-> NoReply]]
    /\ heard = [r \in Replies |-> "none"]
    /\ used = {}

-----------------------------------------------------------------------------
Starts(op, i, c) == busy = "free" /\ busy' = op /\ subject' = i /\ choice' = c

Ends == busy' = "free" /\ subject' = NoId /\ choice' = "none"

\* Mutant: previewing does not look at the pending confirmation.
PreviewOrderAnytime ==
    /\ Starts("previewing", NoId, "none")
    /\ UNCHANGED <<session, flow, cache, sent, told, gateway>>

\* Refused with confirmation_pending, else the account, contract, snapshot
\* and what-if requests run.
PreviewOrder ==
    /\ pending = NoId
    /\ Starts("previewing", NoId, "none")
    /\ UNCHANGED <<session, flow, cache, sent, told, gateway>>

PreviewReturns ==
    /\ busy = "previewing"
    /\ Ends
    /\ UNCHANGED <<session, flow, cache, sent, told, gateway>>

\* A prior attempt answers the request, whatever its details.
Retained(i) == record[i] # "none"

PlaceOrder(i) ==
    /\ ~Retained(i)
    /\ pending = NoId
    /\ Cardinality({k \in Ids : record[k] # "none"}) < MaxAttempts
    /\ Starts("preparing", i, "none")
    /\ UNCHANGED <<session, flow, cache, sent, told, gateway>>

\* prepareOrder failed: no attempt is recorded.
PrepareFails ==
    /\ busy = "preparing"
    /\ Ends
    /\ UNCHANGED <<session, flow, cache, sent, told, gateway>>

\* The attempt is recorded before its request is written.
SubmitOrder ==
    /\ busy = "preparing"
    /\ busy' = "submitting"
    /\ record' = [record EXCEPT ![subject] = "sent"]
    /\ sent' = [sent EXCEPT ![session][subject] = @ + 1]
    /\ gate' = [gate EXCEPT ![session][subject] = "flying"]
    /\ UNCHANGED <<session, question, pending, decision, replyResult, subject, choice, cache,
                   told, asked, heard, used>>

\* Mutant: a request without a readable answer counts as rejected.
ParsedAsRejected(i, r) ==
    CASE gate[session][i] \in {"working", "ended"} -> {"accepted"}
      [] asked[session][i] # r -> {"asking"}
      [] OTHER -> {"rejected"}

\* orderRequest and parseOrderResponse: what an answer about order i says,
\* when r is the question it follows (none after the submission itself).
\* The Gateway may have gone on since: an order may have ended, a question
\* expired.  A timeout, a status other than 2xx, an unreadable body and a
\* question without message are all unknown.
Parsed(i, r) ==
    LET g == gate[session][i] IN
    {"unknown"} \cup
        CASE g \in {"working", "ended"}                      -> {"accepted"}
          [] g \in {"asking", "dropped"} /\ asked[session][i] # r -> {"asking"}
          [] g = "refused" \/ (g = "dropped" /\ asked[session][i] = r) -> {"rejected"}
          [] OTHER                                           -> {}

\* The question parsed from the answer, if there is one.
Confirmation(i, v) == IF v = "asking" THEN asked[session][i] ELSE NoReply

SubmitReturns ==
    /\ busy = "submitting"
    /\ \E v \in Parsed(subject, NoReply) :
        /\ record' = [record EXCEPT ![subject] = v]
        /\ question' = [question EXCEPT ![subject] = Confirmation(subject, v)]
        /\ pending' = IF v = "asking" THEN subject ELSE pending
    /\ cache' = "stale"
    /\ Ends
    /\ UNCHANGED <<session, decision, replyResult, sent, told, gateway>>

\* A reply already recorded answers the request; any other must be the
\* pending attempt's question.
ReplyOrder(r, c) ==
    /\ decision[r] = "none"
    /\ pending # NoId
    /\ question[pending] = r
    /\ Starts("replying", pending, c)
    /\ told' = [told EXCEPT ![r] = @ + 1]
    /\ heard' = [heard EXCEPT ![r] = c]
    /\ UNCHANGED <<session, flow, cache, sent, gate, asked, used>>

\* The answer to a declined question is not parsed: without an error the
\* order counts as not submitted.
ReplyParsed(r) ==
    IF heard[r] # "done" THEN {"unknown"}
    ELSE IF choice = "yes" THEN Parsed(subject, r)
    ELSE {"declined", "rejected", "unknown"}

ReplyRecorded(r, v) ==
    /\ decision' = [decision EXCEPT ![r] = choice]
    /\ replyResult' = [replyResult EXCEPT ![r] = v]
    /\ record' = [record EXCEPT ![subject] = v]
    /\ question' = [question EXCEPT ![subject] = Confirmation(subject, v)]
    /\ cache' = "stale"
    /\ Ends
    /\ UNCHANGED <<session, sent, told, gateway>>

\* Mutant: a reply that failed stays open, to be sent again.
ReplyReturnsOpen ==
    /\ busy = "replying"
    /\ \E v \in ReplyParsed(question[subject]) :
        \/ v # "unknown" /\ ReplyRecorded(question[subject], v)
            /\ pending' = IF v = "asking" THEN subject ELSE NoId
        \/ v = "unknown" /\ Ends /\ UNCHANGED <<session, flow, cache, sent, told, gateway>>

\* Mutant: every reply ends the wait for the user.
ReplyReturnsLast ==
    /\ busy = "replying"
    /\ \E v \in ReplyParsed(question[subject]) : ReplyRecorded(question[subject], v)
    /\ pending' = NoId

\* The reply is retired on any error; a further question keeps the attempt
\* pending.
ReplyReturns ==
    /\ busy = "replying"
    /\ \E v \in ReplyParsed(question[subject]) :
        /\ ReplyRecorded(question[subject], v)
        /\ pending' = IF v = "asking" THEN pending ELSE NoId

CancelOrder(i) ==
    /\ pending = NoId
    /\ \E s \in Sessions : gate[s][i] = "working"
    /\ Starts("cancelling", i, "none")
    /\ UNCHANGED <<session, flow, cache, sent, told, gateway>>

\* The Gateway may or may not have the request; only a confirmed one makes
\* the cached list stale.
CancelReturns ==
    /\ busy = "cancelling"
    /\ \/ gate' = gate /\ cache' = cache
       \/ /\ \E s \in Sessions :
                gate[s][subject] = "working" /\ gate' = [gate EXCEPT ![s][subject] = "ended"]
          /\ cache' \in {cache, "stale"}
    /\ Ends
    /\ UNCHANGED <<session, flow, sent, told, asked, heard, used>>

\* pollTradingEvents applied a REST snapshot.
ApplySnapshot ==
    /\ cache' = "ready"
    /\ UNCHANGED <<session, flow, operation, sent, told, gateway>>

-----------------------------------------------------------------------------
\* External: the Gateway makes up its mind about an order: it works, is
\* refused or needs the user's consent to a new question.
Decides(s, i) ==
    \/ /\ gate' = [gate EXCEPT ![s][i] = "working"]
       /\ UNCHANGED <<asked, used>>
    \/ /\ gate' = [gate EXCEPT ![s][i] = "refused"]
       /\ UNCHANGED <<asked, used>>
    \/ \E r \in Replies \ used :
        /\ gate' = [gate EXCEPT ![s][i] = "asking"]
        /\ asked' = [asked EXCEPT ![s][i] = r]
        /\ used' = used \cup {r}

\* External: a submission arrives, perhaps late, or gets lost.
GatewayReceives(s, i) ==
    /\ gate[s][i] = "flying"
    /\ \/ Decides(s, i)
       \/ gate' = [gate EXCEPT ![s][i] = "lost"] /\ UNCHANGED <<asked, used>>
    /\ UNCHANGED <<session, flow, operation, cache, sent, told, heard>>

\* External: an order is filled, or cancelled by somebody else or late.
OrderEnds(s, i) ==
    /\ gate[s][i] = "working"
    /\ gate' = [gate EXCEPT ![s][i] = "ended"]
    /\ UNCHANGED <<session, flow, operation, cache, sent, told, asked, heard, used>>

\* External: a reply reaches the question it is for, or gets lost.
GatewayHears(s, i, r) ==
    /\ heard[r] \in {"yes", "no"} /\ asked[s][i] = r
    /\ \/ heard' = [heard EXCEPT ![r] = "lost"] /\ UNCHANGED <<gate, asked, used>>
       \/ /\ heard' = [heard EXCEPT ![r] = "done"]
          /\ \/ gate[s][i] = "asking" /\ heard[r] = "yes" /\ Decides(s, i)
             \/ /\ gate[s][i] = "asking" /\ heard[r] = "no"
                /\ gate' = [gate EXCEPT ![s][i] = "dropped"]
                /\ UNCHANGED <<asked, used>>
             \/ gate[s][i] # "asking" /\ UNCHANGED <<gate, asked, used>>
    /\ UNCHANGED <<session, flow, operation, cache, sent, told>>

\* External: the Gateway gives up on a question nobody answers.
QuestionExpires(s, i) ==
    /\ gate[s][i] = "asking"
    /\ gate' = [gate EXCEPT ![s][i] = "dropped"]
    /\ UNCHANGED <<session, flow, operation, cache, sent, told, asked, heard, used>>

\* Reload replaces the session between operations; a crash does it in the
\* middle of one.  Nothing of the workflow survives.
NewSession ==
    /\ session < MaxSessions
    /\ session' = session + 1
    /\ record' = [i \in Ids |-> "none"]
    /\ question' = [i \in Ids |-> NoReply]
    /\ pending' = NoId
    /\ decision' = [r \in Replies |-> "none"]
    /\ replyResult' = [r \in Replies |-> "none"]
    /\ cache' = "stale"
    /\ Ends
    /\ UNCHANGED <<sent, told, gateway>>

Next ==
    \/ PreviewOrder \/ PreviewReturns
    \/ \E i \in Ids : PlaceOrder(i) \/ CancelOrder(i)
    \/ PrepareFails \/ SubmitOrder \/ SubmitReturns
    \/ \E r \in Replies, c \in {"yes", "no"} : ReplyOrder(r, c)
    \/ ReplyReturns \/ CancelReturns
    \/ ApplySnapshot
    \/ \E s \in Sessions, i \in Ids :
        \/ GatewayReceives(s, i) \/ OrderEnds(s, i) \/ QuestionExpires(s, i)
        \/ \E r \in Replies : GatewayHears(s, i, r)
    \/ NewSession

Spec == Init /\ [][Next]_vars

-----------------------------------------------------------------------------
\* A session writes the submission of a client_order_id at most once, and a
\* reply to the Gateway at most once, whatever errors it met ("this ID can
\* never transmit again", ReplyOrder).
WrittenOnce ==
    /\ \A s \in Sessions, i \in Ids : sent[s][i] <= 1
    /\ \A r \in Replies : told[r] <= 1

\* What the session reports of an attempt is true of the Gateway, although
\* the Gateway goes on acting on requests whose answers were lost: accepted
\* orders are there, rejected and declined ones are not and will not be.
RecordHonest ==
    \A i \in Ids :
        /\ record[i] = "accepted" => gate[session][i] \in {"working", "ended"}
        /\ record[i] \in {"rejected", "declined"} => gate[session][i] \in {"refused", "dropped"}
        /\ record[i] = "none" => sent[session][i] = 0

\* A confirmation that blocks the connection's order entry can be answered:
\* the pending attempt is the one that asks, its question is unanswered, and
\* no other attempt waits for the user.
PendingAnswerable ==
    /\ pending # NoId =>
        /\ record[pending] = "asking"
        /\ question[pending] \in Replies
        /\ decision[question[pending]] = "none"
    /\ \A i \in Ids : record[i] = "asking" => pending = i

\* While a confirmation is pending only its reply goes to the Gateway's
\* order endpoints ("resolve the pending IBKR order confirmation first").
QuietWhilePending == pending # NoId => busy \in {"free", "replying"}

\* One question at a time, which the user can answer before anything else is sent.
OneOpenQuestion == PendingAnswerable /\ QuietWhilePending

\* With questions and replies between a submission and its end, the promise of OrderPromise is
\* kept: one submission, and outcomes that are true of the Gateway and stay.  An order that waits
\* for the user's consent is on its way.
SaidOf == [none |-> "none", sent |-> "open", asking |-> "open", accepted |-> "accepted",
           rejected |-> "refused", declined |-> "refused", unknown |-> "unknown"]
FateOf == [none |-> "none", flying |-> "out", asking |-> "out", working |-> "taken", ended |-> "taken",
           lost |-> "gone", refused |-> "gone", dropped |-> "gone"]
Said == [i \in Ids |-> SaidOf[record[i]]]
Fate == [s \in Sessions |-> [i \in Ids |-> FateOf[gate[s][i]]]]

Promise == INSTANCE OrderPromise WITH present <- session, said <- Said, fate <- Fate

KeepsOrderPromise == Promise!PSpec
=============================================================================
