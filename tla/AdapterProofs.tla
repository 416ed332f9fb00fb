--------------------------- MODULE AdapterProofs ----------------------------
(***************************************************************************)
(* Proofs about the adapters of Alpaca and Schwab: their order sessions,   *)
(* for any number of handlers, client order ids, tickets and sessions, and *)
(* Schwab's quote stream, for any number of web sockets and symbols.       *)
(*                                                                         *)
(* The properties of OrderSession are not inductive by themselves: they    *)
(* hold because the handler that Begin let through is the only one that    *)
(* works on its client_order_id until Finish.  With that, each step is one *)
(* of OrderPromise or hidden from it.  Those of SchwabStream rest on what  *)
(* a web socket's place in its life says of its registration.              *)
(***************************************************************************)
EXTENDS OrderSession, SchwabStream, TLAPS

\* Between Begin and Finish.
Working(p) == step[p] \in {"lookup", "post", "waiting", "finish"}

\* The in-progress record belongs to the handler that works on it ...
WorkerOwns ==
    \A p \in Callers : Working(p) =>
        attempt[id[p]] = "inProgress" /\ attemptTicket[id[p]] = ticket[p]

\* ... and to no other.
OneWorker == \A p, q \in Callers : Working(p) /\ Working(q) /\ id[p] = id[q] => p = q

\* Nothing left the process for an id that was not attempted, or whose
\* worker has yet to post.
Untouched(s, i) == sent[s][i] = 0 /\ wire[s][i] = "none"

Unsent ==
    /\ \A i \in Ids : attempt[i] = "none" => Untouched(session, i)
    /\ \A p \in Callers : step[p] \in {"lookup", "post"} => Untouched(session, id[p])
    /\ \A s \in Sessions, i \in Ids : s > session => Untouched(s, i)

\* A verdict and a record are true of the broker.
Honest(s, i, v) ==
    /\ v = "accepted" => wire[s][i] = "taken"
    /\ v = "rejected" => wire[s][i] \in {"none", "refused"}

Truthful ==
    /\ \A p \in Callers : step[p] = "finish" => Honest(session, id[p], verdict[p])
    /\ \A i \in Ids : Honest(session, i, attempt[i])

\* The preview map agrees with what was shown, and an attempt used a fresh one.
Shown ==
    \A i \in Ids :
        /\ attempt[i] = "none" /\ previewTicket[i] # NoTicket =>
               shownAt[i][previewTicket[i]] = previewAt[i]
        /\ attempt[i] # "none" =>
               /\ attemptTicket[i] \in Tickets
               /\ shownAt[i][attemptTicket[i]] >= 0
               /\ begunAt[i] - shownAt[i][attemptTicket[i]] <= PreviewLife

IInv == TypeOK /\ WorkerOwns /\ OneWorker /\ Unsent /\ SentOnce /\ Truthful /\ Shown
-----------------------------------------------------------------------------
\* Every step keeps every variable within its type.
LEMMA TypeStep == TypeOK /\ [Next]_vars => TypeOK'
<1> SUFFICES ASSUME TypeOK, [Next]_vars PROVE TypeOK'
  OBVIOUS
<1> USE DEF TypeOK, sessionState, calls, brokerState, Steps, Records, Outcomes
<1>1. CASE Tick
  <2>1. clock' \in 0..MaxClock
    BY <1>1, BoundsAssumption DEF Tick
  <2> QED BY <1>1, <2>1 DEF Tick
<1>2. ASSUME NEW t \in Tickets, RememberInstrument(t) PROVE TypeOK'
  BY <1>2 DEF RememberInstrument
<1>3. ASSUME NEW p \in Callers, Serve(p) PROVE TypeOK'
  <2>1. ASSUME NEW i \in Ids, NEW t \in Tickets, PreviewOrder(p, i, t) \/ PlaceOrder(p, i, t)
        PROVE  TypeOK'
    <3>1. PICK first \in Steps : Call(p, i, t, first)
      BY <2>1 DEF PreviewOrder, PlaceOrder
    <3> QED BY <3>1 DEF Call
  <2>2. CASE CallFails(p)
    BY <2>2 DEF CallFails
  <2>3. CASE RememberPreview(p)
    <3>1. shownAt' \in [Ids -> [Tickets -> Int]]
      BY <2>3, BoundsAssumption DEF RememberPreview
    <3> QED BY <2>3, <3>1 DEF RememberPreview
  <2>4. CASE BeginReturns(p)
    BY <2>4 DEF BeginReturns
  <2>5. CASE Begin(p)
    BY <2>5 DEF Begin
  <2>6. CASE AccountHash(p)
    BY <2>6 DEF AccountHash
  <2>7. CASE FailsUnsent(p)
    BY <2>7 DEF FailsUnsent
  <2>8. CASE Post(p)
    <3>1. sent' \in [Sessions -> [Ids -> Nat]]
      BY <2>8 DEF Post
    <3>2. wire' \in [Sessions -> [Ids -> Fates]]
      BY <2>8 DEF Post, Fates
    <3> QED BY <2>8, <3>1, <3>2 DEF Post
  <2>9. CASE Response(p)
    BY <2>9 DEF Response, Classified
  <2>10. CASE Finish(p)
    BY <2>10 DEF Finish
  <2> QED BY <1>3, <2>1, <2>2, <2>3, <2>4, <2>5, <2>6, <2>7, <2>8, <2>9, <2>10 DEF Serve
<1>4. ASSUME NEW s \in Sessions, NEW i \in Ids, BrokerDecides(s, i) PROVE TypeOK'
  <2>1. wire' \in [Sessions -> [Ids -> Fates]]
    BY <1>4 DEF BrokerDecides, Fates
  <2> QED BY <1>4, <2>1 DEF BrokerDecides
<1>5. CASE NewSession
  BY <1>5, BoundsAssumption DEF NewSession, Sessions
<1>6. CASE UNCHANGED vars
  BY <1>6 DEF vars
<1> QED BY <1>1, <1>2, <1>3, <1>4, <1>5, <1>6 DEF Next, Replace, Crash
-----------------------------------------------------------------------------
\* Nobody but its own worker touches an attempt that is under way, and no
\* second worker is let through.
LEMMA OwnerStep == IInv /\ [Next]_vars => (WorkerOwns /\ OneWorker)'
<1> SUFFICES ASSUME IInv, [Next]_vars PROVE (WorkerOwns /\ OneWorker)'
  OBVIOUS
<1> USE DEF IInv, TypeOK, WorkerOwns, OneWorker, Working, sessionState, calls, brokerState
<1>1. CASE Tick
  BY <1>1 DEF Tick
<1>2. ASSUME NEW t \in Tickets, RememberInstrument(t) PROVE (WorkerOwns /\ OneWorker)'
  BY <1>2 DEF RememberInstrument
<1>3. ASSUME NEW p \in Callers, Serve(p) PROVE (WorkerOwns /\ OneWorker)'
  <2>1. ASSUME NEW i \in Ids, NEW t \in Tickets, PreviewOrder(p, i, t) \/ PlaceOrder(p, i, t)
        PROVE  (WorkerOwns /\ OneWorker)'
    <3>1. PICK first \in {"previewing", "validating"} : Call(p, i, t, first)
      BY <2>1 DEF PreviewOrder, PlaceOrder
    <3> QED BY <3>1 DEF Call
  <2>2. CASE CallFails(p)
    BY <2>2 DEF CallFails
  <2>3. CASE RememberPreview(p)
    BY <2>3 DEF RememberPreview
  <2>4. CASE BeginReturns(p)
    BY <2>4 DEF BeginReturns
  <2>5. CASE Begin(p)
    <3>1. \A q \in Callers : Working(q) => id[q] # id[p]
      BY <2>5 DEF Begin, Attempted
    <3> QED BY <2>5, <3>1 DEF Begin
  <2>6. CASE AccountHash(p)
    BY <2>6 DEF AccountHash
  <2>7. CASE FailsUnsent(p)
    BY <2>7 DEF FailsUnsent
  <2>8. CASE Post(p)
    BY <2>8 DEF Post
  <2>9. CASE Response(p)
    BY <2>9 DEF Response
  <2>10. CASE Finish(p)
    <3>1. \A q \in Callers : Working(q) /\ q # p => id[q] # id[p]
      BY <2>10 DEF Finish
    <3> QED BY <2>10, <3>1 DEF Finish
  <2> QED BY <1>3, <2>1, <2>2, <2>3, <2>4, <2>5, <2>6, <2>7, <2>8, <2>9, <2>10 DEF Serve
<1>4. ASSUME NEW s \in Sessions, NEW i \in Ids, BrokerDecides(s, i) PROVE (WorkerOwns /\ OneWorker)'
  BY <1>4 DEF BrokerDecides
<1>5. CASE NewSession
  BY <1>5 DEF NewSession
<1>6. CASE UNCHANGED vars
  BY <1>6 DEF vars
<1> QED BY <1>1, <1>2, <1>3, <1>4, <1>5, <1>6 DEF Next, Replace, Crash

\* Posting is the only step that sends, and it finds nothing sent before.
LEMMA SentStep == IInv /\ [Next]_vars => (Unsent /\ SentOnce)'
<1> SUFFICES ASSUME IInv, [Next]_vars PROVE (Unsent /\ SentOnce)'
  OBVIOUS
<1> USE DEF IInv, TypeOK, Unsent, Untouched, SentOnce, sessionState, calls, brokerState
<1>1. CASE Tick
  BY <1>1 DEF Tick
<1>2. ASSUME NEW t \in Tickets, RememberInstrument(t) PROVE (Unsent /\ SentOnce)'
  BY <1>2 DEF RememberInstrument
<1>3. ASSUME NEW p \in Callers, Serve(p) PROVE (Unsent /\ SentOnce)'
  <2>1. ASSUME NEW i \in Ids, NEW t \in Tickets, PreviewOrder(p, i, t) \/ PlaceOrder(p, i, t)
        PROVE  (Unsent /\ SentOnce)'
    <3>1. PICK first \in {"previewing", "validating"} : Call(p, i, t, first)
      BY <2>1 DEF PreviewOrder, PlaceOrder
    <3> QED BY <3>1 DEF Call
  <2>2. CASE CallFails(p)
    BY <2>2 DEF CallFails
  <2>3. CASE RememberPreview(p)
    BY <2>3 DEF RememberPreview
  <2>4. CASE BeginReturns(p)
    BY <2>4 DEF BeginReturns
  <2>5. CASE Begin(p)
    BY <2>5 DEF Begin, Attempted
  <2>6. CASE AccountHash(p)
    BY <2>6 DEF AccountHash
  <2>7. CASE FailsUnsent(p)
    BY <2>7 DEF FailsUnsent
  <2>8. CASE Post(p)
    <3>1. \A s \in Sessions, i \in Ids :
            /\ ~(s = session /\ i = id[p]) => sent'[s][i] = sent[s][i] /\ wire'[s][i] = wire[s][i]
            /\ s = session /\ i = id[p] => sent'[s][i] = 1
      BY <2>8 DEF Post
    <3>2. \A q \in Callers : step'[q] \in {"lookup", "post"} => id[q] # id[p]
      BY <2>8 DEF Post, OneWorker, Working
    <3>3. attempt[id[p]] # "none"
      BY <2>8 DEF Post, WorkerOwns, Working
    <3>4. session' = session /\ attempt' = attempt /\ id' = id
      BY <2>8 DEF Post
    <3>5. \A q \in Callers : step'[q] \in {"lookup", "post"} => step[q] = step'[q]
      BY <2>8 DEF Post
    <3>6. \A s \in Sessions : s > session => s # session
      BY BoundsAssumption DEF Sessions
    <3>7. \A i \in Ids : attempt'[i] = "none" => Untouched(session, i)'
      BY <3>1, <3>3, <3>4
    <3>8. \A q \in Callers : step'[q] \in {"lookup", "post"} => Untouched(session, id[q])'
      BY <3>1, <3>2, <3>4, <3>5
    <3>9. \A s \in Sessions, i \in Ids : s > session => Untouched(s, i)'
      BY <3>1, <3>6
    <3>10. ASSUME NEW s \in Sessions, NEW i \in Ids PROVE sent'[s][i] <= 1
      <4>1. CASE s = session /\ i = id[p]
        BY <3>1, <4>1
      <4>2. CASE ~(s = session /\ i = id[p])
        BY <3>1, <4>2
      <4> QED BY <4>1, <4>2
    <3> QED BY <3>4, <3>7, <3>8, <3>9, <3>10
  <2>9. CASE Response(p)
    BY <2>9 DEF Response
  <2>10. CASE Finish(p)
    <3>1. \A i \in Ids : attempt'[i] = "none" => attempt[i] = "none"
      BY <2>10 DEF Finish, Outcomes
    <3> QED BY <2>10, <3>1 DEF Finish
  <2> QED BY <1>3, <2>1, <2>2, <2>3, <2>4, <2>5, <2>6, <2>7, <2>8, <2>9, <2>10 DEF Serve
<1>4. ASSUME NEW s \in Sessions, NEW i \in Ids, BrokerDecides(s, i) PROVE (Unsent /\ SentOnce)'
  <2>1. \A r \in Sessions, j \in Ids : wire[r][j] = "none" => wire'[r][j] = "none"
    BY <1>4 DEF BrokerDecides
  <2> QED BY <1>4, <2>1 DEF BrokerDecides
<1>5. CASE NewSession
  <2>1. \A s \in Sessions : s > session' => s > session
    BY <1>5, BoundsAssumption DEF NewSession, Sessions
  <2>2. session' \in Sessions /\ session' > session
    BY <1>5, BoundsAssumption DEF NewSession, Sessions
  <2> QED BY <1>5, <2>1, <2>2 DEF NewSession
<1>6. CASE UNCHANGED vars
  BY <1>6 DEF vars
<1> QED BY <1>1, <1>2, <1>3, <1>4, <1>5, <1>6 DEF Next, Replace, Crash

\* A verdict is taken from what the broker did, which it never takes back,
\* and recorded once.
LEMMA TruthStep == IInv /\ [Next]_vars => Truthful'
<1> SUFFICES ASSUME IInv, [Next]_vars PROVE Truthful'
  OBVIOUS
<1> USE DEF IInv, TypeOK, Truthful, Honest, sessionState, calls, brokerState
<1>1. CASE Tick
  BY <1>1 DEF Tick
<1>2. ASSUME NEW t \in Tickets, RememberInstrument(t) PROVE Truthful'
  BY <1>2 DEF RememberInstrument
<1>3. ASSUME NEW p \in Callers, Serve(p) PROVE Truthful'
  <2>1. ASSUME NEW i \in Ids, NEW t \in Tickets, PreviewOrder(p, i, t) \/ PlaceOrder(p, i, t)
        PROVE  Truthful'
    <3>1. PICK first \in {"previewing", "validating"} : Call(p, i, t, first)
      BY <2>1 DEF PreviewOrder, PlaceOrder
    <3> QED BY <3>1 DEF Call
  <2>2. CASE CallFails(p)
    BY <2>2 DEF CallFails
  <2>3. CASE RememberPreview(p)
    BY <2>3 DEF RememberPreview
  <2>4. CASE BeginReturns(p)
    BY <2>4 DEF BeginReturns
  <2>5. CASE Begin(p)
    BY <2>5 DEF Begin
  <2>6. CASE AccountHash(p)
    BY <2>6 DEF AccountHash
  <2>7. CASE FailsUnsent(p)
    <3>1. wire[session][id[p]] = "none" /\ verdict'[p] \in {"unknown", "rejected"}
      BY <2>7 DEF FailsUnsent, Unsent, Untouched
    <3>2. \A q \in Callers : q # p => verdict'[q] = verdict[q] /\ step'[q] = step[q]
      BY <2>7 DEF FailsUnsent
    <3>3. UNCHANGED <<session, attempt, id, wire>>
      BY <2>7 DEF FailsUnsent
    <3>4. \A i \in Ids : Honest(session, i, attempt[i])'
      BY <3>3
    <3>5. Honest(session, id[p], verdict[p])'
      BY <3>1, <3>3
    <3>6. \A q \in Callers : q # p /\ step'[q] = "finish" => Honest(session, id[q], verdict[q])'
      BY <3>2, <3>3
    <3> QED BY <3>4, <3>5, <3>6
  <2>8. CASE Post(p)
    <3>1. \A i \in Ids : i # id[p] => wire'[session][i] = wire[session][i]
      BY <2>8 DEF Post
    <3>2. \A q \in Callers : step'[q] = "finish" => step[q] = "finish" /\ id[q] # id[p]
      BY <2>8 DEF Post, OneWorker, Working
    <3>3. attempt[id[p]] = "inProgress"
      BY <2>8 DEF Post, WorkerOwns, Working
    <3>4. UNCHANGED <<session, attempt, id, verdict>>
      BY <2>8 DEF Post
    <3> QED BY <3>1, <3>2, <3>3, <3>4
  <2>9. CASE Response(p)
    <3>1. verdict'[p] \in Classified(wire[session][id[p]])
      BY <2>9 DEF Response
    <3>2. \A q \in Callers : q # p => verdict'[q] = verdict[q] /\ step'[q] = step[q]
      BY <2>9 DEF Response
    <3>3. UNCHANGED <<session, attempt, id, wire>>
      BY <2>9 DEF Response
    <3>4. \A i \in Ids : Honest(session, i, attempt[i])'
      BY <3>3
    <3>5. Honest(session, id[p], verdict[p])'
      BY <3>1, <3>3 DEF Classified
    <3>6. \A q \in Callers : q # p /\ step'[q] = "finish" => Honest(session, id[q], verdict[q])'
      BY <3>2, <3>3
    <3> QED BY <3>4, <3>5, <3>6
  <2>10. CASE Finish(p)
    BY <2>10 DEF Finish
  <2> QED BY <1>3, <2>1, <2>2, <2>3, <2>4, <2>5, <2>6, <2>7, <2>8, <2>9, <2>10 DEF Serve
<1>4. ASSUME NEW s \in Sessions, NEW i \in Ids, BrokerDecides(s, i) PROVE Truthful'
  <2>1. \A r \in Sessions, j \in Ids : wire[r][j] # "flying" => wire'[r][j] = wire[r][j]
    BY <1>4 DEF BrokerDecides
  <2> QED BY <1>4, <2>1 DEF BrokerDecides
<1>5. CASE NewSession
  BY <1>5 DEF NewSession
<1>6. CASE UNCHANGED vars
  BY <1>6 DEF vars
<1> QED BY <1>1, <1>2, <1>3, <1>4, <1>5, <1>6 DEF Next, Replace, Crash

\* Begin looks at a preview that was shown, and the attempt keeps it.
LEMMA ShownStep == IInv /\ [Next]_vars => Shown'
<1> SUFFICES ASSUME IInv, [Next]_vars PROVE Shown'
  OBVIOUS
<1> USE DEF IInv, TypeOK, Shown, sessionState, calls, brokerState
<1>1. CASE Tick
  BY <1>1 DEF Tick
<1>2. ASSUME NEW t \in Tickets, RememberInstrument(t) PROVE Shown'
  BY <1>2 DEF RememberInstrument
<1>3. ASSUME NEW p \in Callers, Serve(p) PROVE Shown'
  <2>1. ASSUME NEW i \in Ids, NEW t \in Tickets, PreviewOrder(p, i, t) \/ PlaceOrder(p, i, t)
        PROVE  Shown'
    <3>1. PICK first \in {"previewing", "validating"} : Call(p, i, t, first)
      BY <2>1 DEF PreviewOrder, PlaceOrder
    <3> QED BY <3>1 DEF Call
  <2>2. CASE CallFails(p)
    BY <2>2 DEF CallFails
  <2>3. CASE RememberPreview(p)
    <3>1. UNCHANGED <<attempt, attemptTicket, begunAt>>
      BY <2>3 DEF RememberPreview
    <3>2. CASE attempt[id[p]] # "none"
      BY <2>3, <3>1, <3>2 DEF RememberPreview, Attempted
    <3>3. CASE attempt[id[p]] = "none"
      <4>1. shownAt' = [shownAt EXCEPT ![id[p]][ticket[p]] = clock]
        BY <2>3, <3>3 DEF RememberPreview, Attempted
      <4>2. \A i \in Ids : i # id[p] => /\ shownAt'[i] = shownAt[i]
                                        /\ previewTicket'[i] = previewTicket[i]
                                       /\ previewAt'[i] = previewAt[i]
        BY <2>3, <4>1 DEF RememberPreview
      <4>3. shownAt'[id[p]][ticket[p]] = clock /\ previewTicket'[id[p]] = ticket[p]
              /\ previewAt'[id[p]] = clock
        BY <2>3, <4>1 DEF RememberPreview
      <4> QED BY <3>1, <3>3, <4>2, <4>3
    <3> QED BY <3>2, <3>3
  <2>4. CASE BeginReturns(p)
    BY <2>4 DEF BeginReturns
  <2>5. CASE Begin(p)
    <3>1. /\ previewTicket[id[p]] = ticket[p] /\ attempt[id[p]] = "none"
          /\ clock - previewAt[id[p]] <= PreviewLife
      BY <2>5 DEF Begin, Attempted, Previewed
    <3>2. ticket[p] \in Tickets /\ ticket[p] # NoTicket /\ previewAt[id[p]] \in Nat
      BY NoTicketAssumption
    <3>3. /\ attemptTicket'[id[p]] = ticket[p] /\ begunAt'[id[p]] = clock
          /\ previewTicket'[id[p]] = NoTicket /\ attempt'[id[p]] = "inProgress"
          /\ UNCHANGED <<previewAt, shownAt>>
      BY <2>5 DEF Begin
    <3>4. \A i \in Ids : i # id[p] =>
            /\ attemptTicket'[i] = attemptTicket[i] /\ begunAt'[i] = begunAt[i]
            /\ previewTicket'[i] = previewTicket[i] /\ attempt'[i] = attempt[i]
      BY <2>5 DEF Begin
    <3>5. shownAt[id[p]][ticket[p]] = previewAt[id[p]]
      BY <3>1, <3>2
    <3>6. shownAt'[id[p]][attemptTicket'[id[p]]] >= 0
            /\ begunAt'[id[p]] - shownAt'[id[p]][attemptTicket'[id[p]]] <= PreviewLife
      BY <3>1, <3>2, <3>3, <3>5
    <3> QED BY <3>2, <3>3, <3>4, <3>6
  <2>6. CASE AccountHash(p)
    BY <2>6 DEF AccountHash
  <2>7. CASE FailsUnsent(p)
    BY <2>7 DEF FailsUnsent
  <2>8. CASE Post(p)
    BY <2>8 DEF Post
  <2>9. CASE Response(p)
    BY <2>9 DEF Response
  <2>10. CASE Finish(p)
    <3>1. attempt[id[p]] = "inProgress" /\ attemptTicket[id[p]] = ticket[p]
      BY <2>10 DEF Finish, WorkerOwns, Working
    <3>2. attemptTicket' = attemptTicket
      BY <2>10, <3>1 DEF Finish
    <3>3. \A i \in Ids : attempt'[i] = "none" <=> attempt[i] = "none"
      BY <2>10, <3>1 DEF Finish, Outcomes
    <3>4. UNCHANGED <<previewTicket, previewAt, begunAt, shownAt>>
      BY <2>10 DEF Finish
    <3> QED BY <3>2, <3>3, <3>4
  <2> QED BY <1>3, <2>1, <2>2, <2>3, <2>4, <2>5, <2>6, <2>7, <2>8, <2>9, <2>10 DEF Serve
<1>4. ASSUME NEW s \in Sessions, NEW i \in Ids, BrokerDecides(s, i) PROVE Shown'
  BY <1>4 DEF BrokerDecides
<1>5. CASE NewSession
  BY <1>5 DEF NewSession
<1>6. CASE UNCHANGED vars
  BY <1>6 DEF vars
<1> QED BY <1>1, <1>2, <1>3, <1>4, <1>5, <1>6 DEF Next, Replace, Crash

-----------------------------------------------------------------------------
\* IInv is an inductive invariant.
THEOREM Invariance == Spec => []IInv
<1>1. Init => IInv
  <2> SUFFICES ASSUME Init PROVE IInv
    OBVIOUS
  <2>1. TypeOK
    BY BoundsAssumption DEF Init, TypeOK, Sessions, Records, Steps, Fates, Outcomes
  <2>2. WorkerOwns /\ OneWorker /\ Unsent /\ SentOnce /\ Truthful /\ Shown
    BY BoundsAssumption DEF Init, WorkerOwns, OneWorker, Working, Unsent, Untouched, SentOnce, Truthful,
       Honest, Shown, Sessions
  <2> QED BY <2>1, <2>2 DEF IInv
<1>2. IInv /\ [Next]_vars => IInv'
  BY TypeStep, OwnerStep, SentStep, TruthStep, ShownStep DEF IInv
<1> QED BY <1>1, <1>2, PTL DEF Spec

\* The session's maps, its handlers and the broker's answers keep their types.
THEOREM TypeCorrect == Spec => []TypeOK
BY Invariance, PTL DEF IInv

\* No session posts the order of a client_order_id twice.
THEOREM AlwaysSentOnce == Spec => []SentOnce
BY Invariance, PTL DEF IInv

\* What a session reports of an order is true of the broker.
THEOREM AlwaysHonest == Spec => []RecordHonest
<1>1. IInv => RecordHonest
  BY DEF IInv, TypeOK, Truthful, Honest, Unsent, Untouched, RecordHonest
<1> QED BY <1>1, Invariance, PTL

\* What is posted was previewed by this session, with the same content and
\* in time.
THEOREM AlwaysPreviewed == Spec => []SentAsPreviewed
<1>1. IInv => SentAsPreviewed
  BY DEF IInv, TypeOK, Shown, Unsent, Untouched, SentAsPreviewed
<1> QED BY <1>1, Invariance, PTL

\* A reported outcome is never revised within a session.
THEOREM OutcomeStays == Spec => SettledStays
<1>1. IInv /\ [Next]_vars =>
        [\A i \in Ids : Settled(i) /\ session' = session =>
            attempt'[i] = attempt[i] /\ attemptTicket'[i] = attemptTicket[i]]_vars
  <2> SUFFICES ASSUME IInv, Next, NEW i \in Ids, Settled(i), session' = session
               PROVE  attempt'[i] = attempt[i] /\ attemptTicket'[i] = attemptTicket[i]
    BY DEF vars
  <2> USE DEF IInv, TypeOK, Settled, Outcomes, sessionState, calls, brokerState
  <2>1. ASSUME NEW p \in Callers, Serve(p)
        PROVE  attempt'[i] = attempt[i] /\ attemptTicket'[i] = attemptTicket[i]
    <3>1. CASE Begin(p)
      BY <3>1 DEF Begin, Attempted
    <3>2. CASE Finish(p)
      BY <3>2 DEF Finish, WorkerOwns, Working
    <3>3. CASE ~Begin(p) /\ ~Finish(p)
      BY <2>1, <3>3 DEF Serve, PreviewOrder, PlaceOrder, Call, CallFails, RememberPreview, BeginReturns,
         AccountHash, FailsUnsent, Post, Response
    <3> QED BY <3>1, <3>2, <3>3
  <2>2. ASSUME NewSession PROVE FALSE
    BY <2>2, BoundsAssumption DEF NewSession, Sessions
  <2>3. CASE Tick \/ (\E t \in Tickets : RememberInstrument(t))
               \/ (\E s \in Sessions, j \in Ids : BrokerDecides(s, j))
    BY <2>3 DEF Tick, RememberInstrument, BrokerDecides
  <2> QED BY <2>1, <2>2, <2>3 DEF Next, Replace, Crash
<1> QED BY <1>1, Invariance, PTL DEF Spec, SettledStays

-----------------------------------------------------------------------------
\* What a record becomes in the promise.
LEMMA SaidBecomes ==
    ASSUME TypeOK, NEW i \in Ids, NEW a, attempt' = [attempt EXCEPT ![i] = a]
    PROVE  Said' = [Said EXCEPT ![i] = SaidOf[a]]
BY DEF TypeOK, Said

\* The session says x of the order, which is in V.
LEMMA SaysSo ==
    ASSUME NEW i \in Ids, NEW V, NEW x \in V, Said' = [Said EXCEPT ![i] = x]
    PROVE  Said'[i] = x /\ Promise!Says(i, V)
<1>1. Said'[i] = x
  BY DEF Said
<1> QED BY <1>1 DEF Promise!Says

\* What a fate becomes.
LEMMA FateBecomes ==
    ASSUME TypeOK, NEW s \in Sessions, NEW i \in Ids, NEW f, wire' = [wire EXCEPT ![s][i] = f]
    PROVE  Fate' = [Fate EXCEPT ![s][i] = FateOf[f]]
<1>1. wire \in [Sessions -> [Ids -> Fates]]
  BY DEF TypeOK
<1>2. \A t \in Sessions, j \in Ids : wire'[t][j] = IF t = s /\ j = i THEN f ELSE wire[t][j]
  BY <1>1
<1>3. ASSUME NEW t \in Sessions PROVE Fate'[t] = IF t = s THEN [Fate[s] EXCEPT ![i] = FateOf[f]] ELSE Fate[t]
  <2>1. CASE t = s
    <3>1. Fate'[s] = [j \in Ids |-> FateOf[wire'[s][j]]] /\ Fate[s] = [j \in Ids |-> FateOf[wire[s][j]]]
      BY DEF Fate
    <3>2. \A j \in Ids : FateOf[wire'[s][j]] = IF j = i THEN FateOf[f] ELSE FateOf[wire[s][j]]
      BY <1>2
    <3> QED BY <2>1, <3>1, <3>2
  <2>2. CASE t # s
    <3>1. wire'[t] = wire[t]
      BY <1>1, <2>2
    <3> QED BY <2>2, <3>1 DEF Fate
  <2> QED BY <2>1, <2>2
<1> DEFINE now == Fate'
           old == Fate
<1>4. now = [t \in Sessions |-> now[t]] /\ old = [t \in Sessions |-> old[t]]
  BY DEF Fate
<1>5. \A t \in Sessions : now[t] = IF t = s THEN [old[s] EXCEPT ![i] = FateOf[f]] ELSE old[t]
  BY <1>3
<1>6. now = [old EXCEPT ![s][i] = FateOf[f]]
  <2> HIDE DEF now, old
  <2> QED BY <1>4, <1>5
<1> QED BY <1>6

\* What the user is not told of.
LEMMA CallsStutter ==
    ASSUME UNCHANGED <<session, attempt, sent, wire>>
    PROVE  UNCHANGED Promise!pvars
BY DEF Promise!pvars, Said, Fate

\* Each step is a step of the promise or none: Begin takes charge, Post writes, Finish says.
LEMMA OrderPromiseStep == IInv /\ [Next]_vars => [Promise!PNext]_(Promise!pvars)
<1> SUFFICES ASSUME IInv, [Next]_vars PROVE [Promise!PNext]_(Promise!pvars)
  OBVIOUS
<1>1. TypeOK /\ session \in Sessions
  BY DEF IInv, TypeOK
<1>2. ASSUME UNCHANGED <<session, attempt, sent, wire>> PROVE [Promise!PNext]_(Promise!pvars)
  BY <1>2, CallsStutter
<1>3. CASE Tick
  BY <1>2, <1>3 DEF Tick, sessionState, brokerState
<1>4. ASSUME NEW t \in Tickets, RememberInstrument(t) PROVE [Promise!PNext]_(Promise!pvars)
  BY <1>2, <1>4 DEF RememberInstrument, brokerState
<1>5. ASSUME NEW p \in Callers, Serve(p) PROVE [Promise!PNext]_(Promise!pvars)
  <2>1. ASSUME NEW i \in Ids, NEW t \in Tickets, PreviewOrder(p, i, t) \/ PlaceOrder(p, i, t)
        PROVE  [Promise!PNext]_(Promise!pvars)
    BY <1>2, <2>1 DEF PreviewOrder, PlaceOrder, Call, sessionState, brokerState
  <2>2. CASE CallFails(p) \/ BeginReturns(p) \/ AccountHash(p) \/ FailsUnsent(p) \/ Response(p)
    BY <1>2, <2>2 DEF CallFails, BeginReturns, AccountHash, FailsUnsent, Response, sessionState, brokerState
  <2>3. CASE RememberPreview(p)
    BY <1>2, <2>3 DEF RememberPreview, brokerState
  <2>4. id[p] \in Ids
    BY <1>1 DEF TypeOK
  <2>5. CASE Begin(p)
    <3>1. Said[id[p]] = "none"
      BY <2>4, <2>5 DEF Begin, Attempted, Said, SaidOf
    <3>2. Said' = [Said EXCEPT ![id[p]] = "open"]
      <4>1. Said' = [Said EXCEPT ![id[p]] = SaidOf["inProgress"]]
        BY <1>1, <2>4, <2>5, SaidBecomes DEF Begin
      <4> QED BY <4>1 DEF SaidOf
    <3>3. UNCHANGED <<session, sent, Fate>>
      BY <2>5 DEF Begin, brokerState, Fate
    <3>4. Promise!Says(id[p], {"open"})
      BY <2>4, <3>2, SaysSo
    <3> QED BY <2>4, <3>1, <3>3, <3>4 DEF Promise!PNext, Promise!Take
  <2>6. CASE Post(p)
    <3>1. attempt[id[p]] = "inProgress" /\ sent[session][id[p]] = 0
      BY <2>6 DEF Post, IInv, WorkerOwns, Working, Unsent, Untouched
    <3>2. Said[id[p]] = "open" /\ Said' = Said
      BY <2>4, <2>6, <3>1 DEF Post, sessionState, Said, SaidOf
    <3>3. Said' = [Said EXCEPT ![id[p]] = "open"]
      BY <3>2 DEF Said
    <3>4. sent' = [sent EXCEPT ![session][id[p]] = 1]
      BY <1>1, <2>4, <2>6, <3>1 DEF Post, TypeOK
    <3>5. Fate' = [Fate EXCEPT ![session][id[p]] = "out"]
      BY <1>1, <2>4, <2>6, FateBecomes DEF Post, FateOf
    <3>6. session' = session
      BY <2>6 DEF Post
    <3>7. Promise!Says(id[p], {"open"})
      BY <2>4, <3>3, SaysSo
    <3> QED BY <2>4, <3>1, <3>2, <3>4, <3>5, <3>6, <3>7 DEF Promise!PNext, Promise!Write
  <2>7. CASE Finish(p)
    <3> DEFINE v == SaidOf[verdict[p]]
    <3>1. attempt[id[p]] = "inProgress" /\ Honest(session, id[p], verdict[p]) /\ verdict[p] \in Outcomes
      BY <1>1, <2>7 DEF Finish, IInv, WorkerOwns, Working, Truthful, TypeOK
    <3>2. v \in Promise!Endings /\ (v = "accepted" => verdict[p] = "accepted")
          /\ (v = "refused" => verdict[p] = "rejected")
      BY <3>1 DEF Promise!Endings, SaidOf, Outcomes
    <3>3. Said[id[p]] = "open"
      BY <2>4, <3>1 DEF Said, SaidOf
    <3>4. v = "accepted" => Fate[session][id[p]] = "taken"
      BY <1>1, <2>4, <3>1, <3>2 DEF Honest, Fate, FateOf
    <3>5. v = "refused" => Fate[session][id[p]] \in {"none", "gone"}
      BY <1>1, <2>4, <3>1, <3>2 DEF Honest, Fate, FateOf
    <3>6. Said' = [Said EXCEPT ![id[p]] = v]
      BY <1>1, <2>4, <2>7, SaidBecomes DEF Finish
    <3>7. UNCHANGED <<session, sent, Fate>>
      BY <2>7 DEF Finish, brokerState, Fate
    <3> HIDE DEF v
    <3>8. Said'[id[p]] = v /\ Promise!Says(id[p], Promise!Endings)
      BY <2>4, <3>2, <3>6, SaysSo
    <3> QED BY <2>4, <3>3, <3>4, <3>5, <3>7, <3>8 DEF Promise!PNext, Promise!Say
  <2> QED BY <1>5, <2>1, <2>2, <2>3, <2>5, <2>6, <2>7 DEF Serve
<1>6. ASSUME NEW s \in Sessions, NEW i \in Ids, BrokerDecides(s, i) PROVE [Promise!PNext]_(Promise!pvars)
  <2>1. PICK f \in {"taken", "refused", "lost"} : wire' = [wire EXCEPT ![s][i] = f]
    BY <1>6 DEF BrokerDecides
  <2>2. Fate[s][i] = "out"
    BY <1>6 DEF BrokerDecides, Fate, FateOf
  <2>3. FateOf[f] \in {"taken", "gone"} /\ Fate' = [Fate EXCEPT ![s][i] = FateOf[f]]
    <3>1. Fate' = [Fate EXCEPT ![s][i] = FateOf[f]]
      BY <1>1, <2>1, FateBecomes
    <3> QED BY <3>1 DEF FateOf
  <2>4. UNCHANGED <<session, Said, sent>>
    BY <1>6 DEF BrokerDecides, sessionState, Said
  <2>5. Fate'[s][i] = FateOf[f]
    BY <2>3 DEF Fate
  <2> QED BY <2>2, <2>3, <2>4, <2>5 DEF Promise!PNext, Promise!Decide
<1>7. CASE NewSession
  <2>1. session + 1 \in Sessions /\ session' = session + 1
    BY <1>1, <1>7, BoundsAssumption DEF NewSession, Sessions
  <2>2. Said' = [i \in Ids |-> "none"]
    BY <1>7 DEF NewSession, Said, SaidOf
  <2>3. UNCHANGED <<sent, Fate>>
    BY <1>7 DEF NewSession, brokerState, Fate
  <2> QED BY <2>1, <2>2, <2>3 DEF Promise!PNext, Promise!Renew
<1>8. CASE UNCHANGED vars
  BY <1>2, <1>8 DEF vars, sessionState, brokerState
<1> QED BY <1>3, <1>4, <1>5, <1>6, <1>7, <1>8 DEF Next, Replace, Crash

\* An order adapter without questions keeps OrderPromise: whatever handlers repeat, however late the
\* broker answers or acts and however often the session is replaced, an id is posted once by a
\* session, and what PlaceOrder reported of it is true and stays.
THEOREM OrderPromiseKept == Spec => KeepsOrderPromise
<1>1. Init => Promise!PInit
  BY DEF Init, Promise!PInit, Said, Fate, SaidOf, FateOf
<1> QED BY <1>1, OrderPromiseStep, Invariance, PTL DEF Spec, KeepsOrderPromise, Promise!PSpec

-----------------------------------------------------------------------------
(***************************************************************************)
(* SchwabStream                                                            *)
(***************************************************************************)
\* What is registered belongs to a web socket that subscribed and has not left.
Registered ==
    \A w \in Sockets :
        /\ wants[w] # {} => socket[w] \in {"added", "open"}
        /\ socket[w] = "new" => chan[w] = "open"

StreamShape ==
    /\ socket \in [Sockets -> {"new", "added", "open", "left", "drained", "done"}]
    /\ wants \in [Sockets -> SUBSET Symbols]
    /\ chan \in [Sockets -> {"open", "closed"}]

StreamInv == StreamShape /\ Registered /\ StreamSound

\* Steps of the goroutine, which reads the registrations and never changes them.
LEMMA RunKeeps ==
    ASSUME StreamInv, UNCHANGED <<socket, wants, chan, closing>>,
           loop' = "idle" => Desired = {} \/ (loop = "idle" /\ wakeup' = wakeup)
    PROVE  StreamInv'
<1>1. Desired' = Desired
  BY DEF Desired
<1>2. StreamShape' /\ Registered' /\ ReadersReleased'
  BY DEF StreamInv, StreamShape, Registered, StreamSound, ReadersReleased, Closed
<1>3. WakePending'
  BY <1>1 DEF StreamInv, StreamSound, WakePending
<1> QED BY <1>2, <1>3 DEF StreamInv, StreamSound

\* A web socket registers, reads or leaves.
LEMMA SocketStep ==
    ASSUME StreamInv, NEW w \in Sockets,
           \/ \E set \in SUBSET Symbols : Subscribe(w, set)
           \/ Subscribed(w) \/ Forward(w) \/ Cancel(w) \/ SocketCancelled(w)
    PROVE  StreamInv'
<1> USE DEF StreamInv, StreamSound
<1>1. ASSUME NEW set \in SUBSET Symbols, Subscribe(w, set) PROVE StreamInv'
  <2>1. CASE Closed \/ set = {}
    <3>1. /\ socket[w] = "new" /\ socket' = [socket EXCEPT ![w] = "done"]
          /\ chan' = [chan EXCEPT ![w] = "closed"]
          /\ UNCHANGED <<wants, wakeup, closing, loop>>
      BY <1>1, <2>1 DEF Subscribe
    <3>2. StreamShape' /\ Registered' /\ ReadersReleased'
      BY <3>1 DEF StreamShape, Registered, ReadersReleased, Closed
    <3>3. WakePending'
      BY <3>1 DEF StreamShape, WakePending, Desired
    <3> QED BY <3>2, <3>3
  <2>2. CASE ~(Closed \/ set = {})
    <3>1. /\ socket[w] = "new" /\ socket' = [socket EXCEPT ![w] = "added"]
          /\ wants' = [wants EXCEPT ![w] = set] /\ set # {} /\ ~Closed
          /\ UNCHANGED <<chan, wakeup, closing, loop>>
      BY <1>1, <2>2 DEF Subscribe
    <3>2. StreamShape' /\ Registered' /\ ReadersReleased'
      BY <3>1 DEF StreamShape, Registered, ReadersReleased, Closed
    <3>3. socket'[w] = "added"
      BY <3>1 DEF StreamShape
    <3> QED BY <3>2, <3>3 DEF WakePending
  <2> QED BY <2>1, <2>2
<1>2. CASE Subscribed(w)
  <2>1. /\ socket[w] = "added" /\ socket' = [socket EXCEPT ![w] = "open"] /\ wakeup' = TRUE
        /\ UNCHANGED <<wants, chan, closing>>
    BY <1>2 DEF Subscribed, Wake
  <2>2. StreamShape' /\ Registered' /\ ReadersReleased'
    BY <2>1 DEF StreamShape, Registered, ReadersReleased, Closed
  <2> QED BY <2>1, <2>2 DEF WakePending
<1>3. CASE Forward(w)
  <2>1. /\ socket[w] = "open"
        /\ \/ socket' = socket
           \/ chan[w] = "closed" /\ socket' = [socket EXCEPT ![w] = "drained"]
        /\ UNCHANGED <<wants, chan, wakeup, closing, loop>>
    BY <1>3 DEF Forward
  <2>2. StreamShape' /\ Registered' /\ ReadersReleased'
    BY <2>1 DEF StreamShape, Registered, ReadersReleased, Closed
  <2>3. WakePending'
    BY <2>1 DEF StreamShape, WakePending, Desired
  <2> QED BY <2>2, <2>3
<1>4. CASE Cancel(w)
  <2>1. /\ socket[w] \in {"open", "drained"} /\ socket' = [socket EXCEPT ![w] = "left"]
        /\ wants' = [wants EXCEPT ![w] = {}] /\ chan' = [chan EXCEPT ![w] = "closed"]
        /\ UNCHANGED <<wakeup, closing, loop>>
    BY <1>4 DEF Cancel
  <2>2. StreamShape' /\ Registered' /\ ReadersReleased'
    BY <2>1 DEF StreamShape, Registered, ReadersReleased, Closed
  <2>3. Desired' \subseteq Desired
    BY <2>1 DEF StreamShape, Desired
  <2>4. \A v \in Sockets : socket[v] = "added" => socket'[v] = "added"
    BY <2>1 DEF StreamShape
  <2>5. WakePending'
    BY <2>1, <2>3, <2>4 DEF WakePending
  <2> QED BY <2>2, <2>5
<1>5. CASE SocketCancelled(w)
  <2>1. /\ socket[w] = "left" /\ socket' = [socket EXCEPT ![w] = "done"] /\ wakeup' = TRUE
        /\ UNCHANGED <<wants, chan, closing>>
    BY <1>5 DEF SocketCancelled, Wake
  <2>2. StreamShape' /\ Registered' /\ ReadersReleased'
    BY <2>1 DEF StreamShape, Registered, ReadersReleased, Closed
  <2> QED BY <2>1, <2>2 DEF WakePending
<1> QED BY <1>1, <1>2, <1>3, <1>4, <1>5

LEMMA StreamStep == StreamInv /\ [StreamNext]_streamVars => StreamInv'
<1> SUFFICES ASSUME StreamInv, [StreamNext]_streamVars PROVE StreamInv'
  OBVIOUS
<1>1. CASE \E w \in Sockets : \/ \E set \in SUBSET Symbols : Subscribe(w, set)
                              \/ Subscribed(w) \/ Forward(w) \/ Cancel(w) \/ SocketCancelled(w)
  BY <1>1, SocketStep
<1>2. CASE CloseLocked
  <2>1. /\ wants' = [w \in Sockets |-> {}] /\ closing' = "locked"
        /\ chan' = [w \in Sockets |-> IF wants[w] # {} THEN "closed" ELSE chan[w]]
        /\ UNCHANGED <<socket, wakeup, loop>>
    BY <1>2 DEF CloseLocked
  <2>2. StreamShape' /\ Registered' /\ ReadersReleased'
    BY <2>1 DEF StreamInv, StreamShape, Registered, StreamSound, ReadersReleased
  <2>3. Desired' = {}
    BY <2>1 DEF Desired
  <2> QED BY <2>2, <2>3 DEF StreamInv, StreamSound, WakePending
<1>3. CASE CloseDone
  <2>1. closing \in {"locked", "woken"} /\ (wakeup' = wakeup \/ wakeup' = TRUE) /\ UNCHANGED <<socket, wants, chan, loop>>
    BY <1>3 DEF CloseDone, Wake
  <2>2. \A w \in Sockets : wants[w] = {}
    BY <2>1 DEF StreamInv, StreamSound, ReadersReleased, Closed
  <2>3. StreamShape' /\ Registered' /\ ReadersReleased'
    BY <2>1, <2>2 DEF StreamInv, StreamShape, Registered, StreamSound, ReadersReleased
  <2>4. WakePending'
    BY <2>1 DEF StreamInv, StreamSound, WakePending, Desired
  <2> QED BY <2>3, <2>4 DEF StreamInv, StreamSound
<1>4. CASE TokenWake
  <2>1. wakeup' = TRUE /\ UNCHANGED <<socket, wants, chan, closing, loop>>
    BY <1>4 DEF TokenWake, Wake
  <2>2. StreamShape' /\ Registered' /\ ReadersReleased'
    BY <2>1 DEF StreamInv, StreamShape, Registered, StreamSound, ReadersReleased, Closed
  <2> QED BY <2>1, <2>2 DEF StreamInv, StreamSound, WakePending
<1>5. CASE Run
  <2>1. UNCHANGED <<socket, wants, chan, closing>> /\ (loop' = "idle" => Desired = {})
    BY <1>5 DEF Run, Top, Idle, Prepare, Login, Stream, Failed, Backoff, Goto
  <2> QED BY <2>1, RunKeeps
<1>6. CASE UNCHANGED streamVars
  BY <1>6, RunKeeps DEF streamVars
<1> QED BY <1>1, <1>2, <1>3, <1>4, <1>5, <1>6 DEF StreamNext

\* No quote is sent to a closed channel, no reader waits for a stream that forgot it, and the
\* goroutine does not rest while something is wanted and nobody is about to wake it.
THEOREM StreamsSound == StreamSpec => []StreamSound
<1>1. StreamInit => StreamInv
  <2> SUFFICES ASSUME StreamInit PROVE StreamInv
    OBVIOUS
  <2>1. StreamShape /\ Registered /\ ReadersReleased
    BY DEF StreamInit, StreamShape, Registered, ReadersReleased, Closed
  <2> QED BY <2>1 DEF StreamInit, StreamInv, StreamSound, WakePending
<1>2. StreamInv => StreamSound
  BY DEF StreamInv
<1> QED BY <1>1, <1>2, StreamStep, PTL DEF StreamSpec
=============================================================================
