---------------------------- MODULE IbkrProofs ------------------------------
(***************************************************************************)
(* The order entry of the IBKR adapter, proved for every set of orders and *)
(* questions and any number of sessions, and its cache of live orders,     *)
(* proved for every set of orders.                                         *)
(*                                                                         *)
(* Order entry: the argument follows the one question a session waits for. *)
(* Nobody replied to it before (Waiting), so the Gateway still asks it or  *)
(* gave up; while its reply is under way the Gateway is at most one        *)
(* question ahead (Replying), and that one is fresh (Fresh): it is no      *)
(* question of another order and was never replied to.  What is recorded   *)
(* is therefore said of an open order, as OrderPromise wants it.           *)
(*                                                                         *)
(* Live orders: no row is ahead of the Gateway, nor of the answer to a     *)
(* poll that began before the row was written (Backed).  The stream's last *)
(* word about an order is the present one (UpToDate), so a message that    *)
(* takes a row back is followed by one that restores it; and the answer to *)
(* a poll that is not outdated contains what callers were told (Vouched).  *)
(* With Shows for the rows written since, a snapshot hides nothing.        *)
(***************************************************************************)
EXTENDS IbkrOrderFlow, IbkrLiveOrders, FiniteSetTheorems, SequenceTheorems, TLAPS

\* A session that has not started, and an order nobody submitted, left no trace in the Gateway;
\* one it has not received has no question.
Untouched ==
    \A s \in Sessions, i \in Ids :
        /\ s > session => sent[s][i] = 0
        /\ sent[s][i] = 0 => gate[s][i] = "none" /\ asked[s][i] = NoReply
        /\ gate[s][i] \in {"none", "flying", "lost"} => asked[s][i] = NoReply

\* What the operation that holds the mutex works on.
Subject ==
    /\ busy \in {"preparing", "submitting", "replying", "cancelling"} => subject \in Ids
    /\ busy \notin {"free", "replying"} => pending = NoId
    /\ busy = "preparing" => record[subject] = "none"
    /\ busy = "submitting" => record[subject] = "sent"
    /\ busy = "replying" => pending = subject /\ choice # "none"
    /\ \A i \in Ids : record[i] = "sent" => busy = "submitting" /\ subject = i

\* A question belongs to one order of one session, its ID is used up, and a decision recorded
\* about it was written.
Fresh ==
    /\ \A s, t \in Sessions, i, j \in Ids :
          asked[s][i] = asked[t][j] /\ asked[s][i] # NoReply => s = t /\ i = j
    /\ \A s \in Sessions, i \in Ids : asked[s][i] \in used \cup {NoReply}
    /\ \A r \in Replies : heard[r] # "none" <=> told[r] > 0
    /\ \A r \in Replies : told[r] > 0 => r \in used
    /\ \A r \in Replies : decision[r] # "none" => told[r] > 0

\* An attempt that has not ended has at most the question just replied to behind it.
Unanswered ==
    \A i \in Ids :
        LET q == asked[session][i] IN
        q # NoReply /\ told[q] > 0 =>
            \/ record[i] \in Results \ {"asking"}
            \/ busy = "replying" /\ subject = i /\ question[i] = q

\* The question of the pending attempt, before the user decides.
Waiting ==
    pending # NoId /\ busy # "replying" =>
        /\ asked[session][pending] = question[pending]
        /\ told[question[pending]] = 0
        /\ gate[session][pending] \in {"asking", "dropped"}

\* ... and while the decision is on its way.
Replying ==
    busy = "replying" =>
        LET r == question[subject] IN
        /\ told[r] = 1 /\ r \in used
        /\ asked[session][subject] # NoReply
        /\ \A s \in Sessions, j \in Ids : asked[s][j] = r => s = session /\ j = subject
        /\ heard[r] \in {"yes", "no"} =>
              /\ heard[r] = choice
              /\ asked[session][subject] = r
              /\ gate[session][subject] \in {"asking", "dropped"}
        /\ heard[r] = "lost" => asked[session][subject] = r
        /\ heard[r] = "done" /\ choice = "no" => gate[session][subject] = "dropped"

\* The inductive invariant.
FlowInv ==
    /\ TypeOK /\ Untouched /\ Subject /\ Fresh /\ Unanswered /\ Waiting /\ Replying
    /\ WrittenOnce /\ RecordHonest /\ PendingAnswerable


\* Where one order's state and question change, those of every other order stay.
LEMMA Changed ==
    ASSUME TypeOK, NEW s \in Sessions, NEW i \in Ids, NEW g \in OrderStates
    PROVE  /\ [gate EXCEPT ![s][i] = g] \in [Sessions -> [Ids -> OrderStates]]
           /\ \A t \in Sessions, j \in Ids :
                 [gate EXCEPT ![s][i] = g][t][j] = IF t = s /\ j = i THEN g ELSE gate[t][j]
           /\ \A q \in Replies :
                 /\ [asked EXCEPT ![s][i] = q] \in [Sessions -> [Ids -> Replies \cup {NoReply}]]
                 /\ \A t \in Sessions, j \in Ids :
                       [asked EXCEPT ![s][i] = q][t][j] = IF t = s /\ j = i THEN q ELSE asked[t][j]
BY DEF TypeOK

\* What the Gateway's decision changes: the order's state, and perhaps its question, to a new one.
LEMMA Decided ==
    ASSUME TypeOK, NEW s \in Sessions, NEW i \in Ids, Decides(s, i)
    PROVE  /\ gate' \in [Sessions -> [Ids -> OrderStates]]
           /\ asked' \in [Sessions -> [Ids -> Replies \cup {NoReply}]]
           /\ used' \subseteq Replies
           /\ gate'[s][i] \in {"working", "refused", "asking"}
           /\ \A t \in Sessions, j \in Ids :
                 ~(t = s /\ j = i) => gate'[t][j] = gate[t][j] /\ asked'[t][j] = asked[t][j]
           /\ \/ asked'[s][i] = asked[s][i] /\ used' = used /\ gate'[s][i] # "asking"
              \/ asked'[s][i] \in Replies \ used /\ used' = used \cup {asked'[s][i]} /\ gate'[s][i] = "asking"
<1> {"working", "refused", "asking"} \subseteq OrderStates
    BY DEF OrderStates
<1>1. CASE gate' = [gate EXCEPT ![s][i] = "working"] /\ UNCHANGED <<asked, used>>
  BY <1>1, Changed DEF TypeOK
<1>2. CASE gate' = [gate EXCEPT ![s][i] = "refused"] /\ UNCHANGED <<asked, used>>
  BY <1>2, Changed DEF TypeOK
<1>3. ASSUME NEW q \in Replies \ used,
             gate' = [gate EXCEPT ![s][i] = "asking"], asked' = [asked EXCEPT ![s][i] = q], used' = used \cup {q}
      PROVE  /\ gate' \in [Sessions -> [Ids -> OrderStates]]
             /\ asked' \in [Sessions -> [Ids -> Replies \cup {NoReply}]]
             /\ used' \subseteq Replies
             /\ gate'[s][i] = "asking" /\ asked'[s][i] = q
             /\ \A t \in Sessions, j \in Ids :
                   ~(t = s /\ j = i) => gate'[t][j] = gate[t][j] /\ asked'[t][j] = asked[t][j]
  BY <1>3, Changed DEF TypeOK
<1> QED BY <1>1, <1>2, <1>3 DEF Decides

\* A submission that arrives, or gets lost.
LEMMA Received ==
    ASSUME TypeOK, NEW s \in Sessions, NEW i \in Ids, GatewayReceives(s, i)
    PROVE  /\ gate' \in [Sessions -> [Ids -> OrderStates]]
           /\ asked' \in [Sessions -> [Ids -> Replies \cup {NoReply}]]
           /\ used' \subseteq Replies
           /\ gate'[s][i] \in {"working", "refused", "asking", "lost"}
           /\ \A t \in Sessions, j \in Ids :
                 ~(t = s /\ j = i) => gate'[t][j] = gate[t][j] /\ asked'[t][j] = asked[t][j]
           /\ \/ asked'[s][i] = asked[s][i] /\ used' = used
              \/ asked'[s][i] \in Replies \ used /\ used' = used \cup {asked'[s][i]} /\ gate'[s][i] = "asking"
<1>1. CASE Decides(s, i)
  BY <1>1, Decided
<1>2. CASE gate' = [gate EXCEPT ![s][i] = "lost"] /\ UNCHANGED <<asked, used>>
  <2>1. "lost" \in OrderStates
    BY DEF OrderStates
  <2> QED BY <1>2, <2>1, Changed DEF TypeOK
<1> QED BY <1>1, <1>2 DEF GatewayReceives

\* A reply that arrives at its question, or at an order that no longer asks it, or gets lost.
LEMMA Heard ==
    ASSUME TypeOK, NEW s \in Sessions, NEW i \in Ids, NEW r \in Replies, GatewayHears(s, i, r)
    PROVE  /\ gate' \in [Sessions -> [Ids -> OrderStates]]
           /\ asked' \in [Sessions -> [Ids -> Replies \cup {NoReply}]]
           /\ used' \subseteq Replies
           /\ \A t \in Sessions, j \in Ids :
                 ~(t = s /\ j = i) => gate'[t][j] = gate[t][j] /\ asked'[t][j] = asked[t][j]
           /\ \/ /\ gate'[s][i] = gate[s][i] /\ asked'[s][i] = asked[s][i] /\ used' = used
                 /\ heard'[r] = "done" => gate[s][i] # "asking"
              \/ /\ gate[s][i] = "asking" /\ gate'[s][i] = "dropped" /\ heard[r] = "no"
                 /\ asked'[s][i] = asked[s][i] /\ used' = used /\ heard'[r] = "done"
              \/ /\ gate[s][i] = "asking" /\ gate'[s][i] \in {"working", "refused", "asking"} /\ heard[r] = "yes"
                 /\ \/ asked'[s][i] = asked[s][i] /\ used' = used
                    \/ asked'[s][i] \in Replies \ used /\ used' = used \cup {asked'[s][i]}
                 /\ heard'[r] = "done"
<1>1. CASE UNCHANGED <<gate, asked, used>> /\ heard' = [heard EXCEPT ![r] = "lost"]
  BY <1>1 DEF TypeOK
<1>2. CASE UNCHANGED <<gate, asked, used>> /\ gate[s][i] # "asking"
  BY <1>2 DEF TypeOK
<1>3. CASE heard' = [heard EXCEPT ![r] = "done"] /\ gate[s][i] = "asking" /\ heard[r] = "yes" /\ Decides(s, i)
  <2>1. heard'[r] = "done"
    BY <1>3 DEF TypeOK
  <2> QED BY <1>3, <2>1, Decided
<1>4. CASE /\ heard' = [heard EXCEPT ![r] = "done"] /\ gate[s][i] = "asking" /\ heard[r] = "no"
           /\ gate' = [gate EXCEPT ![s][i] = "dropped"] /\ UNCHANGED <<asked, used>>
  <2>1. heard'[r] = "done"
    BY <1>4 DEF TypeOK
  <2>2. "dropped" \in OrderStates
    BY DEF OrderStates
  <2> QED BY <1>4, <2>1, <2>2, Changed DEF TypeOK
<1> QED BY <1>1, <1>2, <1>3, <1>4 DEF GatewayHears

LEMMA HeardReply ==
    ASSUME TypeOK, NEW s \in Sessions, NEW i \in Ids, NEW r \in Replies, GatewayHears(s, i, r)
    PROVE  /\ heard[r] \in {"yes", "no"} /\ asked[s][i] = r
           /\ heard' \in [Replies -> {"none", "yes", "no", "lost", "done"}]
           /\ heard'[r] \in {"lost", "done"} /\ \A q \in Replies \ {r} : heard'[q] = heard[q]
           /\ UNCHANGED <<session, record, question, pending, decision, replyResult, busy, subject, choice,
                          cache, sent, told>>
BY DEF GatewayHears, TypeOK, flow, operation

\* A new question keeps questions apart.
LEMMA Apart ==
    ASSUME Fresh, NEW s \in Sessions, NEW i \in Ids,
           \A t \in Sessions, j \in Ids : ~(t = s /\ j = i) => asked'[t][j] = asked[t][j],
           \/ asked'[s][i] = asked[s][i] /\ used' = used
           \/ asked'[s][i] \in Replies \ used /\ used' = used \cup {asked'[s][i]}
    PROVE  /\ \A t, u \in Sessions, j, k \in Ids :
                 asked'[t][j] = asked'[u][k] /\ asked'[t][j] # NoReply => t = u /\ j = k
           /\ \A t \in Sessions, j \in Ids : asked'[t][j] \in used' \cup {NoReply}
<1> USE NoneAssumption DEF Fresh
<1>1. \A t \in Sessions, j \in Ids : ~(t = s /\ j = i) => asked'[t][j] \in used \cup {NoReply}
  OBVIOUS
<1>2. asked'[s][i] \in used' \cup {NoReply}
  OBVIOUS
<1>3. ASSUME NEW t \in Sessions, NEW u \in Sessions, NEW j \in Ids, NEW k \in Ids,
             asked'[t][j] = asked'[u][k], asked'[t][j] # NoReply
      PROVE  t = u /\ j = k
  <2>1. CASE asked'[s][i] = asked[s][i]
    <3>1. asked'[t][j] = asked[t][j] /\ asked'[u][k] = asked[u][k]
      BY <2>1
    <3>2. asked[t][j] = asked[u][k] /\ asked[t][j] # NoReply
      BY <1>3, <3>1
    <3> QED BY <3>2
  <2>2. CASE asked'[s][i] \in Replies \ used
    <3>1. CASE t = s /\ j = i
      BY <1>1, <1>3, <2>2, <3>1
    <3>2. CASE u = s /\ k = i
      BY <1>1, <1>3, <2>2, <3>2
    <3>3. CASE ~(t = s /\ j = i) /\ ~(u = s /\ k = i)
      BY <1>3, <3>3
    <3> QED BY <3>1, <3>2, <3>3
  <2> QED BY <2>1, <2>2
<1>4. \A t \in Sessions, j \in Ids : asked'[t][j] \in used' \cup {NoReply}
  BY <1>1, <1>2
<1> QED BY <1>3, <1>4

LEMMA GatewayReceivesStep ==
    ASSUME FlowInv, NEW s \in Sessions, NEW i \in Ids, GatewayReceives(s, i)
    PROVE  FlowInv'
<1> USE NoneAssumption DEF FlowInv
<1>0. session \in Sessions /\ pending \in Ids \cup {NoId}
  BY DEF TypeOK
<1>1. /\ gate' \in [Sessions -> [Ids -> OrderStates]]
      /\ asked' \in [Sessions -> [Ids -> Replies \cup {NoReply}]]
      /\ used' \subseteq Replies
      /\ gate'[s][i] \in {"working", "refused", "asking", "lost"}
      /\ \A t \in Sessions, j \in Ids :
            ~(t = s /\ j = i) => gate'[t][j] = gate[t][j] /\ asked'[t][j] = asked[t][j]
      /\ \/ asked'[s][i] = asked[s][i] /\ used' = used
         \/ asked'[s][i] \in Replies \ used /\ used' = used \cup {asked'[s][i]} /\ gate'[s][i] = "asking"
  BY Received
<1>2. /\ gate[s][i] = "flying"
      /\ UNCHANGED <<session, record, question, pending, decision, replyResult, busy, subject, choice,
                     cache, sent, told, heard>>
  BY DEF GatewayReceives, flow, operation
<1>3. TypeOK'
  BY <1>0, <1>1, <1>2 DEF TypeOK
<1>4. Untouched'
  BY <1>0, <1>1, <1>2 DEF Untouched
<1>5. Subject'
  BY <1>0, <1>1, <1>2 DEF Subject
<1>6. Fresh'
  <2>1. /\ \A t, u \in Sessions, j, k \in Ids :
              asked'[t][j] = asked'[u][k] /\ asked'[t][j] # NoReply => t = u /\ j = k
        /\ \A t \in Sessions, j \in Ids : asked'[t][j] \in used' \cup {NoReply}
    BY <1>1, Apart
  <2> QED BY <1>1, <1>2, <2>1 DEF Fresh
<1>7. Unanswered'
  BY <1>0, <1>1, <1>2 DEF Fresh, Unanswered
<1>8. Waiting'
  BY <1>0, <1>1, <1>2 DEF Subject, PendingAnswerable, Fresh, Waiting
<1>9. Replying'
  BY <1>0, <1>1, <1>2 DEF Untouched, Subject, Fresh, PendingAnswerable, Unanswered, Replying
<1>10. WrittenOnce'
  BY <1>0, <1>1, <1>2 DEF WrittenOnce
<1>11. RecordHonest'
  BY <1>0, <1>1, <1>2 DEF RecordHonest
<1>12. PendingAnswerable'
  BY <1>0, <1>1, <1>2 DEF PendingAnswerable
<1> QED BY <1>3, <1>4, <1>5, <1>6, <1>7, <1>8, <1>9, <1>10, <1>11, <1>12

LEMMA GatewayHearsStep ==
    ASSUME FlowInv, NEW s \in Sessions, NEW i \in Ids, NEW r \in Replies, GatewayHears(s, i, r)
    PROVE  FlowInv'
<1> USE NoneAssumption DEF FlowInv
<1>0. session \in Sessions /\ pending \in Ids \cup {NoId}
  BY DEF TypeOK
<1>1. /\ gate' \in [Sessions -> [Ids -> OrderStates]]
      /\ asked' \in [Sessions -> [Ids -> Replies \cup {NoReply}]]
      /\ used' \subseteq Replies
      /\ \A t \in Sessions, j \in Ids :
            ~(t = s /\ j = i) => gate'[t][j] = gate[t][j] /\ asked'[t][j] = asked[t][j]
      /\ \/ /\ gate'[s][i] = gate[s][i] /\ asked'[s][i] = asked[s][i] /\ used' = used
            /\ heard'[r] = "done" => gate[s][i] # "asking"
         \/ /\ gate[s][i] = "asking" /\ gate'[s][i] = "dropped" /\ heard[r] = "no"
            /\ asked'[s][i] = asked[s][i] /\ used' = used /\ heard'[r] = "done"
         \/ /\ gate[s][i] = "asking" /\ gate'[s][i] \in {"working", "refused", "asking"} /\ heard[r] = "yes"
            /\ \/ asked'[s][i] = asked[s][i] /\ used' = used
               \/ asked'[s][i] \in Replies \ used /\ used' = used \cup {asked'[s][i]}
            /\ heard'[r] = "done"
  BY Heard
<1>2. /\ heard[r] \in {"yes", "no"} /\ asked[s][i] = r
      /\ heard' \in [Replies -> {"none", "yes", "no", "lost", "done"}]
      /\ heard'[r] \in {"lost", "done"} /\ \A q \in Replies \ {r} : heard'[q] = heard[q]
      /\ UNCHANGED <<session, record, question, pending, decision, replyResult, busy, subject, choice,
                     cache, sent, told>>
  BY HeardReply
<1>3. TypeOK'
  BY <1>0, <1>1, <1>2 DEF TypeOK
<1>4. Untouched'
  BY <1>0, <1>1, <1>2 DEF Untouched
<1>5. Subject'
  BY <1>0, <1>1, <1>2 DEF Subject
<1>6. Fresh'
  <2>1. /\ \A t, u \in Sessions, j, k \in Ids :
              asked'[t][j] = asked'[u][k] /\ asked'[t][j] # NoReply => t = u /\ j = k
        /\ \A t \in Sessions, j \in Ids : asked'[t][j] \in used' \cup {NoReply}
    BY <1>1, Apart
  <2>2. \A q \in Replies : heard'[q] # "none" <=> told'[q] > 0
    BY <1>2 DEF Fresh
  <2>3. \A q \in Replies : told'[q] > 0 => q \in used'
    BY <1>1, <1>2 DEF Fresh
  <2>4. \A q \in Replies : decision'[q] # "none" => told'[q] > 0
    BY <1>2 DEF Fresh
  <2> QED BY <2>1, <2>2, <2>3, <2>4 DEF Fresh
<1>7. Unanswered'
  <2> SUFFICES ASSUME NEW j \in Ids, asked'[session'][j] # NoReply, told'[asked'[session'][j]] > 0
               PROVE  \/ record'[j] \in Results \ {"asking"}
                      \/ busy' = "replying" /\ subject' = j /\ question'[j] = asked'[session'][j]
    BY DEF Unanswered
  <2>1. asked'[session][j] = asked[session][j]
    BY <1>0, <1>1, <1>2 DEF Fresh
  <2> QED BY <1>2, <2>1 DEF Unanswered
<1>8. Waiting'
  BY <1>0, <1>1, <1>2 DEF Subject, PendingAnswerable, Fresh, Waiting
<1>9. Replying'
  BY <1>0, <1>1, <1>2 DEF Untouched, Subject, Fresh, PendingAnswerable, Unanswered, Replying
<1>10. WrittenOnce'
  BY <1>0, <1>1, <1>2 DEF WrittenOnce
<1>11. RecordHonest'
  BY <1>0, <1>1, <1>2 DEF RecordHonest
<1>12. PendingAnswerable'
  BY <1>0, <1>1, <1>2 DEF PendingAnswerable
<1> QED BY <1>3, <1>4, <1>5, <1>6, <1>7, <1>8, <1>9, <1>10, <1>11, <1>12

LEMMA SubmitOrderStep ==
    ASSUME FlowInv, SubmitOrder
    PROVE  FlowInv'
<1> USE NoneAssumption DEF FlowInv
<1>0. /\ subject \in Ids /\ session \in Sessions /\ pending = NoId
      /\ record[subject] = "none" /\ sent[session][subject] = 0 /\ sent[session][subject] \in Nat
      /\ asked[session][subject] = NoReply
  BY DEF SubmitOrder, TypeOK, Subject, RecordHonest, Untouched
<1>1. /\ busy = "preparing" /\ busy' = "submitting"
      /\ UNCHANGED <<session, question, pending, decision, replyResult, subject, choice, cache,
                     told, asked, heard, used>>
  BY DEF SubmitOrder
<1>2. /\ record' \in [Ids -> Records] /\ record'[subject] = "sent"
      /\ \A i \in Ids \ {subject} : record'[i] = record[i]
  <2>1. "sent" \in Records /\ record' = [record EXCEPT ![subject] = "sent"]
    BY DEF SubmitOrder, Records
  <2> QED BY <1>0, <2>1 DEF TypeOK
<1>3. /\ sent' \in [Sessions -> [Ids -> Nat]] /\ sent'[session][subject] = 1
      /\ \A s \in Sessions, i \in Ids : ~(s = session /\ i = subject) => sent'[s][i] = sent[s][i]
  BY <1>0 DEF SubmitOrder, TypeOK
<1>4. /\ gate' \in [Sessions -> [Ids -> OrderStates]] /\ gate'[session][subject] = "flying"
      /\ \A s \in Sessions, i \in Ids : ~(s = session /\ i = subject) => gate'[s][i] = gate[s][i]
  <2>1. "flying" \in OrderStates /\ gate' = [gate EXCEPT ![session][subject] = "flying"]
    BY DEF SubmitOrder, OrderStates
  <2> QED BY <1>0, <2>1, Changed
<1>5. TypeOK'
  <2>1. "submitting" \in Operations
    BY DEF Operations
  <2> QED BY <1>1, <1>2, <1>3, <1>4, <2>1 DEF TypeOK
<1>6. Untouched'
  <2> SUFFICES ASSUME NEW s \in Sessions, NEW i \in Ids
               PROVE  /\ s > session' => sent'[s][i] = 0
                      /\ sent'[s][i] = 0 => gate'[s][i] = "none" /\ asked'[s][i] = NoReply
                      /\ gate'[s][i] \in {"none", "flying", "lost"} => asked'[s][i] = NoReply
    BY DEF Untouched
  <2>1. CASE s = session /\ i = subject
    BY <1>0, <1>1, <1>3, <1>4, <2>1 DEF Sessions
  <2>2. CASE ~(s = session /\ i = subject)
    BY <1>1, <1>3, <1>4, <2>2 DEF Untouched
  <2> QED BY <2>1, <2>2
<1>7. Subject'
  BY <1>0, <1>1, <1>2 DEF Subject
<1>8. Fresh'
  BY <1>1 DEF Fresh
<1>9. Unanswered'
  BY <1>0, <1>1, <1>2 DEF Unanswered
<1>10. Waiting' /\ Replying'
  BY <1>0, <1>1 DEF Waiting, Replying
<1>11. WrittenOnce'
  BY <1>0, <1>1, <1>3 DEF WrittenOnce
<1>12. RecordHonest'
  <2> SUFFICES ASSUME NEW i \in Ids
               PROVE  /\ record'[i] = "accepted" => gate'[session'][i] \in {"working", "ended"}
                      /\ record'[i] \in {"rejected", "declined"} => gate'[session'][i] \in {"refused", "dropped"}
                      /\ record'[i] = "none" => sent'[session'][i] = 0
    BY DEF RecordHonest
  <2>1. CASE i = subject
    BY <1>1, <1>2, <2>1
  <2>2. CASE i # subject
    BY <1>0, <1>1, <1>2, <1>3, <1>4, <2>2 DEF RecordHonest
  <2> QED BY <2>1, <2>2
<1>13. PendingAnswerable'
  BY <1>0, <1>1, <1>2 DEF PendingAnswerable
<1> QED BY <1>5, <1>6, <1>7, <1>8, <1>9, <1>10, <1>11, <1>12, <1>13

LEMMA SubmitReturnsStep ==
    ASSUME FlowInv, SubmitReturns
    PROVE  FlowInv'
<1> USE NoneAssumption DEF FlowInv
<1>0. /\ subject \in Ids /\ session \in Sessions /\ pending = NoId /\ record[subject] = "sent"
      /\ asked[session][subject] \in Replies \cup {NoReply}
  BY DEF SubmitReturns, TypeOK, Subject
<1>1. /\ busy = "submitting" /\ busy' = "free" /\ subject' = NoId /\ choice' = "none" /\ cache' = "stale"
      /\ UNCHANGED <<session, decision, replyResult, sent, told, gate, asked, heard, used>>
  BY DEF SubmitReturns, Ends, gateway
<1>2. PICK v \in Parsed(subject, NoReply) :
        /\ record' = [record EXCEPT ![subject] = v]
        /\ question' = [question EXCEPT ![subject] = Confirmation(subject, v)]
        /\ pending' = IF v = "asking" THEN subject ELSE pending
  BY DEF SubmitReturns
<1>3. /\ v \in Results \ {"declined"}
      /\ v = "accepted" => gate[session][subject] \in {"working", "ended"}
      /\ v = "rejected" => gate[session][subject] \in {"refused", "dropped"}
      /\ v = "asking" => gate[session][subject] \in {"asking", "dropped"} /\ asked[session][subject] # NoReply
  BY <1>2 DEF Parsed, Results
<1>4. /\ record' \in [Ids -> Records] /\ record'[subject] = v
      /\ \A i \in Ids \ {subject} : record'[i] = record[i]
  <2>1. v \in Records
    BY <1>3 DEF Records
  <2> QED BY <1>0, <1>2, <2>1 DEF TypeOK
<1>5. /\ question' \in [Ids -> Replies \cup {NoReply}] /\ question'[subject] = Confirmation(subject, v)
      /\ \A i \in Ids \ {subject} : question'[i] = question[i]
  <2>1. Confirmation(subject, v) \in Replies \cup {NoReply}
    BY <1>0 DEF Confirmation
  <2> QED BY <1>0, <1>2, <2>1 DEF TypeOK
<1>6. v = "asking" =>
        /\ pending' = subject /\ question'[subject] = asked[session][subject]
        /\ question'[subject] \in Replies
        /\ told[question'[subject]] = 0 /\ decision[question'[subject]] = "none"
  <2> SUFFICES ASSUME v = "asking"
               PROVE  /\ pending' = subject /\ question'[subject] = asked[session][subject]
                      /\ question'[subject] \in Replies
                      /\ told[question'[subject]] = 0 /\ decision[question'[subject]] = "none"
    OBVIOUS
  <2>1. /\ pending' = subject /\ question'[subject] = asked[session][subject]
        /\ question'[subject] \in Replies
    BY <1>0, <1>2, <1>3, <1>5 DEF Confirmation
  <2>2. ~(told[asked[session][subject]] > 0)
    BY <1>0, <1>1, <1>3 DEF Unanswered, Results
  <2>3. told[question'[subject]] = 0
    BY <2>1, <2>2 DEF TypeOK
  <2> QED BY <2>1, <2>3 DEF Fresh, TypeOK
<1>7. v # "asking" => pending' = NoId
  BY <1>0, <1>2
<1>8. TypeOK'
  <2>1. "free" \in Operations /\ pending' \in Ids \cup {NoId}
    BY <1>0, <1>2 DEF Operations
  <2> QED BY <1>1, <1>4, <1>5, <2>1 DEF TypeOK
<1>9. Untouched' /\ Fresh' /\ WrittenOnce'
  BY <1>1 DEF Untouched, Fresh, WrittenOnce
<1>10. Subject'
  BY <1>1, <1>3, <1>4 DEF Subject, Results
<1>11. Unanswered'
  <2> SUFFICES ASSUME NEW i \in Ids, asked'[session'][i] # NoReply, told'[asked'[session'][i]] > 0
               PROVE  record'[i] \in Results \ {"asking"}
    BY DEF Unanswered
  <2>1. CASE i = subject
    BY <1>0, <1>1, <1>3, <1>4, <2>1 DEF Unanswered, Results
  <2>2. CASE i # subject
    BY <1>1, <1>4, <2>2 DEF Unanswered
  <2> QED BY <2>1, <2>2
<1>12. Waiting'
  BY <1>1, <1>3, <1>6, <1>7 DEF Waiting
<1>13. Replying'
  BY <1>1 DEF Replying
<1>14. RecordHonest'
  <2> SUFFICES ASSUME NEW i \in Ids
               PROVE  /\ record'[i] = "accepted" => gate'[session'][i] \in {"working", "ended"}
                      /\ record'[i] \in {"rejected", "declined"} => gate'[session'][i] \in {"refused", "dropped"}
                      /\ record'[i] = "none" => sent'[session'][i] = 0
    BY DEF RecordHonest
  <2>1. CASE i = subject
    BY <1>1, <1>3, <1>4, <2>1 DEF Results
  <2>2. CASE i # subject
    BY <1>1, <1>4, <2>2 DEF RecordHonest
  <2> QED BY <2>1, <2>2
<1>15. PendingAnswerable'
  <2>1. \A i \in Ids : record'[i] = "asking" => pending' = i
    BY <1>0, <1>1, <1>2, <1>4 DEF PendingAnswerable
  <2>2. pending' # NoId => v = "asking"
    BY <1>7
  <2> QED BY <1>1, <1>4, <1>6, <2>1, <2>2 DEF PendingAnswerable
<1> QED BY <1>8, <1>9, <1>10, <1>11, <1>12, <1>13, <1>14, <1>15

LEMMA ReplyOrderStep ==
    ASSUME FlowInv, NEW r \in Replies, NEW c \in {"yes", "no"}, ReplyOrder(r, c)
    PROVE  FlowInv'
<1> USE NoneAssumption DEF FlowInv
<1>0. /\ session \in Sessions /\ pending \in Ids /\ question[pending] = r /\ busy = "free"
      /\ record[pending] = "asking" /\ decision[r] = "none"
      /\ \A i \in Ids : record[i] = "asking" => i = pending
  BY DEF ReplyOrder, Starts, TypeOK, PendingAnswerable
<1>1. /\ asked[session][pending] = r /\ told[r] = 0 /\ told[r] \in Nat
      /\ gate[session][pending] \in {"asking", "dropped"}
  BY <1>0 DEF Waiting, TypeOK
<1>2. /\ busy' = "replying" /\ subject' = pending /\ choice' = c
      /\ UNCHANGED <<session, record, question, pending, decision, replyResult, cache, sent, gate, asked, used>>
  BY DEF ReplyOrder, Starts, flow
<1>3. /\ told' \in [Replies -> Nat] /\ told'[r] = 1
      /\ \A q \in Replies \ {r} : told'[q] = told[q]
  BY <1>1 DEF ReplyOrder, TypeOK
<1>4. /\ heard' \in [Replies -> {"none", "yes", "no", "lost", "done"}] /\ heard'[r] = c
      /\ \A q \in Replies \ {r} : heard'[q] = heard[q]
  BY DEF ReplyOrder, TypeOK
<1>5. TypeOK'
  <2>1. "replying" \in Operations
    BY DEF Operations
  <2> QED BY <1>0, <1>2, <1>3, <1>4, <2>1 DEF TypeOK
<1>6. Untouched' /\ RecordHonest' /\ PendingAnswerable'
  BY <1>2 DEF Untouched, RecordHonest, PendingAnswerable
<1>7. Subject'
  BY <1>0, <1>2 DEF Subject
<1>8. Fresh'
  <2>1. /\ \A s, t \in Sessions, i, j \in Ids :
              asked'[s][i] = asked'[t][j] /\ asked'[s][i] # NoReply => s = t /\ i = j
        /\ \A s \in Sessions, i \in Ids : asked'[s][i] \in used' \cup {NoReply}
    BY <1>2 DEF Fresh
  <2>2. r \in used
    BY <1>0, <1>1 DEF Fresh
  <2>3. ASSUME NEW q \in Replies
        PROVE  /\ heard'[q] # "none" <=> told'[q] > 0
               /\ told'[q] > 0 => q \in used'
               /\ decision'[q] # "none" => told'[q] > 0
    <3>1. CASE q = r
      BY <1>2, <1>3, <1>4, <2>2, <3>1
    <3>2. CASE q # r
      BY <1>2, <1>3, <1>4, <3>2 DEF Fresh
    <3> QED BY <3>1, <3>2
  <2> QED BY <2>1, <2>3 DEF Fresh
<1>9. Unanswered'
  <2> SUFFICES ASSUME NEW i \in Ids, asked'[session'][i] # NoReply, told'[asked'[session'][i]] > 0
               PROVE  \/ record'[i] \in Results \ {"asking"}
                      \/ busy' = "replying" /\ subject' = i /\ question'[i] = asked'[session'][i]
    BY DEF Unanswered
  <2>1. CASE i = pending
    BY <1>0, <1>1, <1>2, <2>1
  <2>2. CASE i # pending
    <3>1. asked[session][i] \in Replies \cup {NoReply}
      BY <1>0 DEF TypeOK
    <3>2. asked[session][i] # r
      BY <1>0, <1>1, <2>2 DEF Fresh
    <3>3. told[asked[session][i]] > 0
      BY <1>2, <1>3, <3>1, <3>2
    <3> QED BY <1>0, <1>2, <3>3 DEF Unanswered
  <2> QED BY <2>1, <2>2
<1>10. Waiting'
  BY <1>2 DEF Waiting
<1>11. Replying'
  <2>1. \A s \in Sessions, j \in Ids : asked[s][j] = r => s = session /\ j = pending
    BY <1>0, <1>1 DEF Fresh
  <2>2. r \in used
    BY <1>0, <1>1 DEF Fresh
  <2> QED BY <1>0, <1>1, <1>2, <1>3, <1>4, <2>1, <2>2 DEF Replying
<1>12. WrittenOnce'
  BY <1>2, <1>3 DEF WrittenOnce
<1> QED BY <1>5, <1>6, <1>7, <1>8, <1>9, <1>10, <1>11, <1>12

LEMMA ReplyReturnsStep ==
    ASSUME FlowInv, ReplyReturns
    PROVE  FlowInv'
<1> USE NoneAssumption DEF FlowInv
<1> DEFINE r == question[subject]
<1>0. /\ subject \in Ids /\ session \in Sessions /\ pending = subject /\ record[subject] = "asking"
      /\ r \in Replies /\ choice \in {"yes", "no"}
      /\ asked[session][subject] \in Replies /\ busy = "replying"
  BY DEF ReplyReturns, TypeOK, Subject, Replying, PendingAnswerable
<1>1. PICK v \in ReplyParsed(r) :
        /\ ReplyRecorded(r, v)
        /\ pending' = IF v = "asking" THEN pending ELSE NoId
  BY DEF ReplyReturns
<1>2. /\ busy' = "free" /\ subject' = NoId /\ choice' = "none" /\ cache' = "stale"
      /\ UNCHANGED <<session, sent, told, gate, asked, heard, used>>
  BY <1>1 DEF ReplyRecorded, Ends, gateway
<1>3. /\ v \in Results
      /\ v = "accepted" => gate[session][subject] \in {"working", "ended"}
      /\ v \in {"rejected", "declined"} => gate[session][subject] \in {"refused", "dropped"}
      /\ v = "asking" => gate[session][subject] \in {"asking", "dropped"} /\ asked[session][subject] # r
  <2>1. CASE heard[r] # "done"
    BY <1>1, <2>1 DEF ReplyParsed, Results
  <2>2. CASE heard[r] = "done" /\ choice = "yes"
    BY <1>1, <2>2 DEF ReplyParsed, Parsed, Results
  <2>3. CASE heard[r] = "done" /\ choice = "no"
    BY <1>0, <1>1, <2>3 DEF ReplyParsed, Replying, Results
  <2> QED BY <1>0, <2>1, <2>2, <2>3
<1>4. /\ record' \in [Ids -> Records] /\ record'[subject] = v
      /\ \A i \in Ids \ {subject} : record'[i] = record[i]
  <2>1. v \in Records /\ record' = [record EXCEPT ![subject] = v]
    BY <1>1, <1>3 DEF Records, ReplyRecorded
  <2> QED BY <1>0, <2>1 DEF TypeOK
<1>5. /\ question' \in [Ids -> Replies \cup {NoReply}] /\ question'[subject] = Confirmation(subject, v)
      /\ \A i \in Ids \ {subject} : question'[i] = question[i]
  <2>1. /\ Confirmation(subject, v) \in Replies \cup {NoReply}
        /\ question' = [question EXCEPT ![subject] = Confirmation(subject, v)]
    BY <1>0, <1>1 DEF Confirmation, ReplyRecorded
  <2> QED BY <1>0, <2>1 DEF TypeOK
<1>6. /\ decision' \in [Replies -> {"none", "yes", "no"}]
      /\ \A q \in Replies \ {r} : decision'[q] = decision[q]
      /\ replyResult' \in [Replies -> Results \cup {"none"}]
  BY <1>0, <1>1, <1>3 DEF ReplyRecorded, TypeOK
<1>7. told[r] = 1
  BY <1>0 DEF Replying
<1>8. v = "asking" =>
        /\ pending' = subject /\ question'[subject] = asked[session][subject]
        /\ question'[subject] \in Replies
        /\ told[question'[subject]] = 0 /\ decision'[question'[subject]] = "none"
  <2> SUFFICES ASSUME v = "asking"
               PROVE  /\ pending' = subject /\ question'[subject] = asked[session][subject]
                      /\ question'[subject] \in Replies
                      /\ told[question'[subject]] = 0 /\ decision'[question'[subject]] = "none"
    OBVIOUS
  <2>1. /\ pending' = subject /\ question'[subject] = asked[session][subject]
        /\ question'[subject] \in Replies /\ question'[subject] # r
    BY <1>0, <1>1, <1>3, <1>5 DEF Confirmation
  <2>2. ~(told[asked[session][subject]] > 0)
    BY <1>0, <1>3 DEF Unanswered
  <2>3. told[question'[subject]] = 0
    BY <2>1, <2>2 DEF TypeOK
  <2>4. decision[question'[subject]] = "none"
    BY <2>1, <2>3 DEF Fresh
  <2> QED BY <1>6, <2>1, <2>3, <2>4
<1>9. v # "asking" => pending' = NoId
  BY <1>1
<1>10. TypeOK'
  <2>1. "free" \in Operations /\ pending' \in Ids \cup {NoId}
    BY <1>0, <1>1 DEF Operations
  <2> QED BY <1>2, <1>4, <1>5, <1>6, <2>1 DEF TypeOK
<1>11. Untouched' /\ WrittenOnce'
  BY <1>2 DEF Untouched, WrittenOnce
<1>12. Subject'
  BY <1>0, <1>2, <1>3, <1>4 DEF Subject, Results
<1>13. Fresh'
  <2>1. \A q \in Replies : decision'[q] # "none" => told'[q] > 0
    BY <1>2, <1>6, <1>7 DEF Fresh
  <2> QED BY <1>2, <2>1 DEF Fresh
<1>14. Unanswered'
  <2> SUFFICES ASSUME NEW i \in Ids, asked'[session'][i] # NoReply, told'[asked'[session'][i]] > 0
               PROVE  record'[i] \in Results \ {"asking"}
    BY DEF Unanswered
  <2>1. CASE i = subject
    <3>1. v # "asking"
      BY <1>2, <1>8, <2>1
    <3> QED BY <1>3, <1>4, <2>1, <3>1
  <2>2. CASE i # subject
    BY <1>2, <1>4, <2>2 DEF Unanswered
  <2> QED BY <2>1, <2>2
<1>15. Waiting'
  <2>1. CASE v = "asking"
    BY <1>2, <1>3, <1>8, <2>1 DEF Waiting
  <2>2. CASE v # "asking"
    BY <1>9, <2>2 DEF Waiting
  <2> QED BY <2>1, <2>2
<1>16. Replying'
  BY <1>2 DEF Replying
<1>17. RecordHonest'
  <2> SUFFICES ASSUME NEW i \in Ids
               PROVE  /\ record'[i] = "accepted" => gate'[session'][i] \in {"working", "ended"}
                      /\ record'[i] \in {"rejected", "declined"} => gate'[session'][i] \in {"refused", "dropped"}
                      /\ record'[i] = "none" => sent'[session'][i] = 0
    BY DEF RecordHonest
  <2>1. CASE i = subject
    BY <1>2, <1>3, <1>4, <2>1 DEF Results
  <2>2. CASE i # subject
    BY <1>2, <1>4, <2>2 DEF RecordHonest
  <2> QED BY <2>1, <2>2
<1>18. PendingAnswerable'
  <2>1. \A i \in Ids : record'[i] = "asking" => pending' = i
    BY <1>0, <1>1, <1>4 DEF PendingAnswerable
  <2>2. pending' # NoId => v = "asking"
    BY <1>9
  <2> QED BY <1>2, <1>4, <1>8, <2>1, <2>2 DEF PendingAnswerable
<1> QED BY <1>10, <1>11, <1>12, <1>13, <1>14, <1>15, <1>16, <1>17, <1>18

\* Every step keeps the invariant.
LEMMA FlowStep == FlowInv /\ [Next]_vars => FlowInv'
<1> SUFFICES ASSUME FlowInv, [Next]_vars PROVE FlowInv'
  OBVIOUS
<1> USE NoneAssumption, BoundsAssumption DEF FlowInv
<1>1. ASSUME PreviewOrder PROVE FlowInv'
  <2>1. TypeOK'
    BY <1>1 DEF PreviewOrder, Starts, flow, gateway, TypeOK, Records, Results, Operations, OrderStates
  <2>2. Subject'
    BY <1>1 DEF PreviewOrder, Starts, flow, gateway, Subject
  <2>3. Unanswered'
    BY <1>1 DEF PreviewOrder, Starts, flow, gateway, Subject, Unanswered
  <2>4. Waiting'
    BY <1>1 DEF PreviewOrder, Starts, flow, gateway, Subject, Waiting
  <2>5. Replying'
    BY <1>1 DEF PreviewOrder, Starts, flow, gateway, Subject, Replying
  <2>6. Untouched' /\ Fresh' /\ WrittenOnce' /\ RecordHonest' /\ PendingAnswerable'
    BY <1>1 DEF PreviewOrder, Starts, flow, gateway, Untouched, Fresh, WrittenOnce, RecordHonest,
       PendingAnswerable
  <2> QED BY <2>1, <2>2, <2>3, <2>4, <2>5, <2>6
<1>2. ASSUME PreviewReturns PROVE FlowInv'
  <2>1. TypeOK'
    BY <1>2 DEF PreviewReturns, Ends, flow, gateway, TypeOK, Records, Results, Operations, OrderStates
  <2>2. Subject'
    BY <1>2 DEF PreviewReturns, Ends, flow, gateway, Subject
  <2>3. Unanswered'
    BY <1>2 DEF PreviewReturns, Ends, flow, gateway, Subject, Unanswered
  <2>4. Waiting'
    BY <1>2 DEF PreviewReturns, Ends, flow, gateway, Subject, Waiting
  <2>5. Replying'
    BY <1>2 DEF PreviewReturns, Ends, flow, gateway, Subject, Replying
  <2>6. Untouched' /\ Fresh' /\ WrittenOnce' /\ RecordHonest' /\ PendingAnswerable'
    BY <1>2 DEF PreviewReturns, Ends, flow, gateway, Untouched, Fresh, WrittenOnce, RecordHonest,
       PendingAnswerable
  <2> QED BY <2>1, <2>2, <2>3, <2>4, <2>5, <2>6
<1>3. ASSUME NEW i \in Ids, PlaceOrder(i) PROVE FlowInv'
  <2>1. TypeOK'
    BY <1>3 DEF PlaceOrder, Starts, flow, gateway, TypeOK, Records, Results, Operations, OrderStates
  <2>2. Subject'
    BY <1>3 DEF PlaceOrder, Starts, flow, gateway, Subject, Retained
  <2>3. Unanswered'
    BY <1>3 DEF PlaceOrder, Starts, flow, gateway, Subject, Unanswered
  <2>4. Waiting'
    BY <1>3 DEF PlaceOrder, Starts, flow, gateway, Subject, Waiting
  <2>5. Replying'
    BY <1>3 DEF PlaceOrder, Starts, flow, gateway, Subject, Replying
  <2>6. Untouched' /\ Fresh' /\ WrittenOnce' /\ RecordHonest' /\ PendingAnswerable'
    BY <1>3 DEF PlaceOrder, Starts, flow, gateway, Untouched, Fresh, WrittenOnce, RecordHonest,
       PendingAnswerable
  <2> QED BY <2>1, <2>2, <2>3, <2>4, <2>5, <2>6
<1>4. ASSUME NEW i \in Ids, CancelOrder(i) PROVE FlowInv'
  <2>1. TypeOK'
    BY <1>4 DEF CancelOrder, Starts, flow, gateway, TypeOK, Records, Results, Operations, OrderStates
  <2>2. Subject'
    BY <1>4 DEF CancelOrder, Starts, flow, gateway, Subject
  <2>3. Unanswered'
    BY <1>4 DEF CancelOrder, Starts, flow, gateway, Subject, Unanswered
  <2>4. Waiting'
    BY <1>4 DEF CancelOrder, Starts, flow, gateway, Subject, Waiting
  <2>5. Replying'
    BY <1>4 DEF CancelOrder, Starts, flow, gateway, Subject, Replying
  <2>6. Untouched' /\ Fresh' /\ WrittenOnce' /\ RecordHonest' /\ PendingAnswerable'
    BY <1>4 DEF CancelOrder, Starts, flow, gateway, Untouched, Fresh, WrittenOnce, RecordHonest,
       PendingAnswerable
  <2> QED BY <2>1, <2>2, <2>3, <2>4, <2>5, <2>6
<1>5. ASSUME PrepareFails PROVE FlowInv'
  <2>1. TypeOK'
    BY <1>5 DEF PrepareFails, Ends, flow, gateway, TypeOK, Records, Results, Operations, OrderStates
  <2>2. Subject'
    BY <1>5 DEF PrepareFails, Ends, flow, gateway, Subject
  <2>3. Unanswered'
    BY <1>5 DEF PrepareFails, Ends, flow, gateway, Subject, Unanswered
  <2>4. Waiting'
    BY <1>5 DEF PrepareFails, Ends, flow, gateway, Subject, Waiting
  <2>5. Replying'
    BY <1>5 DEF PrepareFails, Ends, flow, gateway, Subject, Replying
  <2>6. Untouched' /\ Fresh' /\ WrittenOnce' /\ RecordHonest' /\ PendingAnswerable'
    BY <1>5 DEF PrepareFails, Ends, flow, gateway, Untouched, Fresh, WrittenOnce, RecordHonest,
       PendingAnswerable
  <2> QED BY <2>1, <2>2, <2>3, <2>4, <2>5, <2>6
<1>6. ASSUME SubmitOrder PROVE FlowInv'
  BY <1>6, SubmitOrderStep
<1>7. ASSUME SubmitReturns PROVE FlowInv'
  BY <1>7, SubmitReturnsStep
<1>8. ASSUME NEW r \in Replies, NEW c \in {"yes", "no"}, ReplyOrder(r, c) PROVE FlowInv'
  BY <1>8, ReplyOrderStep
<1>9. ASSUME ReplyReturns PROVE FlowInv'
  BY <1>9, ReplyReturnsStep
<1>10. ASSUME CancelReturns PROVE FlowInv'
  <2>1. CASE gate' = gate
    <3>1. TypeOK'
      BY <1>10, <2>1 DEF CancelReturns, Ends, flow, gateway, TypeOK, Records, Results, Operations,
         OrderStates
    <3>2. Subject'
      BY <1>10, <2>1 DEF CancelReturns, Ends, flow, gateway, Subject
    <3>3. Unanswered'
      BY <1>10, <2>1 DEF CancelReturns, Ends, flow, gateway, Subject, Unanswered
    <3>4. Waiting'
      BY <1>10, <2>1 DEF CancelReturns, Ends, flow, gateway, Subject, Waiting
    <3>5. Replying'
      BY <1>10, <2>1 DEF CancelReturns, Ends, flow, gateway, Subject, Replying
    <3>6. Untouched' /\ Fresh' /\ WrittenOnce' /\ RecordHonest' /\ PendingAnswerable'
      BY <1>10, <2>1 DEF CancelReturns, Ends, flow, gateway, Untouched, Fresh, WrittenOnce,
         RecordHonest, PendingAnswerable
    <3> QED BY <3>1, <3>2, <3>3, <3>4, <3>5, <3>6
  <2>2. ASSUME NEW s \in Sessions, gate[s][subject] = "working", gate' = [gate EXCEPT ![s][subject] = "ended"],
               cache' \in {cache, "stale"}
        PROVE  FlowInv'
    <3>1. subject \in Ids /\ session \in Sessions /\ "ended" \in OrderStates
      BY <1>10 DEF CancelReturns, Subject, TypeOK, OrderStates
    <3>2. /\ gate' \in [Sessions -> [Ids -> OrderStates]] /\ gate'[s][subject] = "ended"
          /\ \A t \in Sessions, j \in Ids : ~(t = s /\ j = subject) => gate'[t][j] = gate[t][j]
      BY <2>2, <3>1, Changed
    <3>3. /\ UNCHANGED <<session, record, question, pending, decision, replyResult, sent, told, asked, heard, used>>
          /\ busy = "cancelling" /\ busy' = "free" /\ subject' = NoId /\ choice' = "none" /\ pending = NoId
      BY <1>10 DEF CancelReturns, Ends, flow, gateway, Subject
    <3>4. TypeOK'
      BY <2>2, <3>1, <3>2, <3>3 DEF TypeOK, Records, Results, Operations, OrderStates
    <3>5. Untouched'
      BY <2>2, <3>1, <3>2, <3>3 DEF Untouched
    <3>6. Subject'
      BY <2>2, <3>1, <3>2, <3>3 DEF Subject
    <3>7. Unanswered'
      BY <2>2, <3>1, <3>2, <3>3 DEF Subject, Unanswered
    <3>8. Waiting'
      BY <2>2, <3>1, <3>2, <3>3 DEF Subject, Waiting
    <3>9. Replying'
      BY <2>2, <3>1, <3>2, <3>3 DEF Subject, Replying
    <3>10. RecordHonest'
      BY <2>2, <3>1, <3>2, <3>3 DEF RecordHonest
    <3>11. Fresh' /\ WrittenOnce' /\ PendingAnswerable'
      BY <3>3 DEF Fresh, WrittenOnce, PendingAnswerable
    <3> QED BY <3>4, <3>5, <3>6, <3>7, <3>8, <3>9, <3>10, <3>11
  <2> QED BY <1>10, <2>1, <2>2 DEF CancelReturns
<1>11. ASSUME ApplySnapshot PROVE FlowInv'
  <2>1. TypeOK'
    BY <1>11 DEF ApplySnapshot, flow, operation, gateway, TypeOK, Records, Results, Operations,
       OrderStates
  <2>2. Untouched' /\ Subject' /\ Fresh' /\ Unanswered' /\ Waiting' /\ Replying' /\ WrittenOnce' /\ RecordHonest' /\ PendingAnswerable'
    BY <1>11 DEF ApplySnapshot, flow, operation, gateway, Untouched, Subject, Fresh, Unanswered,
       Waiting, Replying, WrittenOnce, RecordHonest, PendingAnswerable
  <2> QED BY <2>1, <2>2
<1>12. ASSUME NEW s \in Sessions, NEW i \in Ids, GatewayReceives(s, i) PROVE FlowInv'
  BY <1>12, GatewayReceivesStep
<1>13. ASSUME NEW s \in Sessions, NEW i \in Ids, OrderEnds(s, i) PROVE FlowInv'
  <2>1. TypeOK'
    BY <1>13 DEF OrderEnds, flow, operation, TypeOK, Records, Results, Operations, OrderStates
  <2>2. Untouched'
    BY <1>13 DEF OrderEnds, flow, operation, TypeOK, Untouched
  <2>3. Waiting'
    BY <1>13 DEF OrderEnds, flow, operation, TypeOK, Waiting
  <2>4. Replying'
    BY <1>13 DEF OrderEnds, flow, operation, TypeOK, Replying
  <2>5. RecordHonest'
    BY <1>13 DEF OrderEnds, flow, operation, TypeOK, RecordHonest
  <2>6. Subject' /\ Fresh' /\ Unanswered' /\ WrittenOnce' /\ PendingAnswerable'
    BY <1>13 DEF OrderEnds, flow, operation, gateway, Subject, Fresh, Unanswered, WrittenOnce,
       PendingAnswerable
  <2> QED BY <2>1, <2>2, <2>3, <2>4, <2>5, <2>6
<1>14. ASSUME NEW s \in Sessions, NEW i \in Ids, QuestionExpires(s, i) PROVE FlowInv'
  <2>1. TypeOK'
    BY <1>14 DEF QuestionExpires, flow, operation, TypeOK, Records, Results, Operations, OrderStates
  <2>2. Untouched'
    BY <1>14 DEF QuestionExpires, flow, operation, TypeOK, Untouched
  <2>3. Waiting'
    BY <1>14 DEF QuestionExpires, flow, operation, TypeOK, Waiting
  <2>4. Replying'
    BY <1>14 DEF QuestionExpires, flow, operation, TypeOK, Replying
  <2>5. RecordHonest'
    BY <1>14 DEF QuestionExpires, flow, operation, TypeOK, RecordHonest
  <2>6. Subject' /\ Fresh' /\ Unanswered' /\ WrittenOnce' /\ PendingAnswerable'
    BY <1>14 DEF QuestionExpires, flow, operation, gateway, Subject, Fresh, Unanswered, WrittenOnce,
       PendingAnswerable
  <2> QED BY <2>1, <2>2, <2>3, <2>4, <2>5, <2>6
<1>15. ASSUME NEW s \in Sessions, NEW i \in Ids, NEW r \in Replies, GatewayHears(s, i, r) PROVE FlowInv'
  BY <1>15, GatewayHearsStep
<1>16. ASSUME NewSession PROVE FlowInv'
  <2>1. TypeOK'
    BY <1>16 DEF NewSession, Ends, gateway, TypeOK, Records, Results, Operations, OrderStates, Sessions
  <2>2. Untouched'
    BY <1>16 DEF NewSession, Ends, gateway, TypeOK, Untouched, Sessions
  <2>3. Subject'
    BY <1>16 DEF NewSession, Ends, gateway, Subject
  <2>4. Unanswered'
    BY <1>16 DEF NewSession, Ends, gateway, TypeOK, Untouched, Unanswered, Sessions
  <2>5. Waiting'
    BY <1>16 DEF NewSession, Ends, gateway, Waiting
  <2>6. Replying'
    BY <1>16 DEF NewSession, Ends, gateway, Replying
  <2>7. RecordHonest'
    BY <1>16 DEF NewSession, Ends, gateway, TypeOK, Untouched, Sessions, RecordHonest
  <2>8. PendingAnswerable'
    BY <1>16 DEF NewSession, Ends, gateway, PendingAnswerable
  <2>9. Fresh' /\ WrittenOnce'
    BY <1>16 DEF NewSession, Ends, gateway, Fresh, WrittenOnce
  <2> QED BY <2>1, <2>2, <2>3, <2>4, <2>5, <2>6, <2>7, <2>8, <2>9
<1>17. CASE UNCHANGED vars
  BY <1>17 DEF vars, flow, operation, gateway, TypeOK, Untouched, Subject, Fresh, Unanswered, Waiting,
     Replying, WrittenOnce, RecordHonest, PendingAnswerable
<1> QED
  BY <1>1, <1>2, <1>3, <1>4, <1>5, <1>6, <1>7, <1>8, <1>9, <1>10, <1>11, <1>12, <1>13, <1>14, <1>15,
     <1>16, <1>17 DEF Next

LEMMA FlowStart == Init => FlowInv
<1> SUFFICES ASSUME Init PROVE FlowInv
  OBVIOUS
<1> USE NoneAssumption, BoundsAssumption DEF Init
<1>1. TypeOK
  BY DEF TypeOK, Sessions, Records, Results, Operations, OrderStates
<1>2. Untouched /\ Subject /\ Fresh
  BY DEF Untouched, Subject, Fresh
<1>3. Unanswered /\ Waiting /\ Replying
  BY <1>1 DEF Unanswered, Waiting, Replying, TypeOK
<1>4. WrittenOnce /\ RecordHonest /\ PendingAnswerable
  BY <1>1 DEF WrittenOnce, RecordHonest, PendingAnswerable, TypeOK
<1> QED BY <1>1, <1>2, <1>3, <1>4 DEF FlowInv

LEMMA FlowInvariant == Spec => []FlowInv
BY FlowStart, FlowStep, PTL DEF Spec

\* orderWorkflowState and its operations keep their types.
THEOREM FlowTypeCorrect == Spec => []TypeOK
<1> FlowInv => TypeOK
  BY DEF FlowInv
<1> QED BY FlowInvariant, PTL

\* However many sessions come and go, whatever answers get lost: a session writes one submission
\* for a client_order_id, and no reply is written to the Gateway twice, not even by a session
\* that replaced the one which was asked.
THEOREM FlowWrittenOnce == Spec => []WrittenOnce
<1> FlowInv => WrittenOnce
  BY DEF FlowInv
<1> QED BY FlowInvariant, PTL

\* What PlaceOrder and ReplyOrder report is true of the Gateway.
THEOREM FlowRecordHonest == Spec => []RecordHonest
<1> FlowInv => RecordHonest
  BY DEF FlowInv
<1> QED BY FlowInvariant, PTL

\* The pending confirmation can be answered, there is one, and nothing else is sent while it is open.
THEOREM FlowOneOpenQuestion == Spec => []OneOpenQuestion
<1>1. FlowInv => OneOpenQuestion
  <2> SUFFICES ASSUME FlowInv PROVE OneOpenQuestion
    OBVIOUS
  <2>1. PendingAnswerable
    BY DEF FlowInv
  <2>2. QuietWhilePending
    BY DEF FlowInv, Subject, QuietWhilePending
  <2> QED BY <2>1, <2>2 DEF OneOpenQuestion
<1> QED BY <1>1, FlowInvariant, PTL

-----------------------------------------------------------------------------
\* The Gateway's state of one order becomes g, its fate in the promise f.
GateBecomes(s, i, g) == gate' = [gate EXCEPT ![s][i] = g]
FateTurns(s, i, f) == Fate' = [Fate EXCEPT ![s][i] = f]

\* What a state of the Gateway becomes in the promise.
LEMMA FateBecomes ==
    ASSUME TypeOK, NEW s \in Sessions, NEW i \in Ids, NEW g \in OrderStates, GateBecomes(s, i, g)
    PROVE  FateTurns(s, i, FateOf[g])
<1>1. gate \in [Sessions -> [Ids -> OrderStates]]
  BY DEF TypeOK
<1>2. \A t \in Sessions, j \in Ids : gate'[t][j] = IF t = s /\ j = i THEN g ELSE gate[t][j]
  BY <1>1 DEF GateBecomes
<1>3. ASSUME NEW t \in Sessions PROVE Fate'[t] = IF t = s THEN [Fate[s] EXCEPT ![i] = FateOf[g]] ELSE Fate[t]
  <2>1. CASE t = s
    <3>1. Fate'[s] = [j \in Ids |-> FateOf[gate'[s][j]]] /\ Fate[s] = [j \in Ids |-> FateOf[gate[s][j]]]
      BY DEF Fate
    <3>2. \A j \in Ids : FateOf[gate'[s][j]] = IF j = i THEN FateOf[g] ELSE FateOf[gate[s][j]]
      BY <1>2
    <3> QED BY <2>1, <3>1, <3>2
  <2>2. CASE t # s
    <3>1. gate'[t] = gate[t]
      BY <1>1, <2>2 DEF GateBecomes
    <3> QED BY <2>2, <3>1 DEF Fate
  <2> QED BY <2>1, <2>2
<1> DEFINE now == Fate'
           old == Fate
<1>4. now = [t \in Sessions |-> now[t]] /\ old = [t \in Sessions |-> old[t]]
  BY DEF Fate
<1>5. \A t \in Sessions : now[t] = IF t = s THEN [old[s] EXCEPT ![i] = FateOf[g]] ELSE old[t]
  BY <1>3
<1>6. now = [old EXCEPT ![s][i] = FateOf[g]]
  <2> HIDE DEF now, old
  <2> QED BY <1>4, <1>5
<1> QED BY <1>6 DEF FateTurns

\* A state that means the same to the user.
LEMMA FateKept ==
    ASSUME TypeOK, NEW s \in Sessions, NEW i \in Ids, NEW g \in OrderStates, GateBecomes(s, i, g),
           FateOf[g] = Fate[s][i]
    PROVE  Fate' = Fate
<1>1. Fate' = [Fate EXCEPT ![s][i] = Fate[s][i]]
  <2>1. FateTurns(s, i, FateOf[g])
    BY FateBecomes
  <2> QED BY <2>1 DEF FateTurns
<1>2. Fate[s] = [j \in Ids |-> Fate[s][j]] /\ Fate = [t \in Sessions |-> Fate[t]]
  BY DEF Fate
<1> QED BY <1>1, <1>2

\* Whatever the Gateway makes of an order on its way is a step of the promise or none.
LEMMA GateMoves ==
    ASSUME TypeOK, NEW s \in Sessions, NEW i \in Ids, gate[s][i] \in {"flying", "asking"},
           NEW g \in {"asking", "working", "refused", "dropped", "lost"}, gate' = [gate EXCEPT ![s][i] = g],
           UNCHANGED <<session, record, sent>>
    PROVE  [Promise!PNext]_(Promise!pvars)
<1>1. Said' = Said
  BY DEF Said
<1>2. Fate[s][i] = "out"
  BY DEF Fate, FateOf
<1>3. CASE g = "asking"
  <2>1. Fate' = Fate
    BY <1>2, <1>3, FateKept DEF FateOf, OrderStates, GateBecomes
  <2> QED BY <1>1, <2>1 DEF Promise!pvars
<1>4. CASE g # "asking"
  <2>1. Fate' = [Fate EXCEPT ![s][i] = FateOf[g]]
    <3>1. g \in OrderStates /\ GateBecomes(s, i, g)
      BY DEF OrderStates, GateBecomes
    <3>2. FateTurns(s, i, FateOf[g])
      BY <3>1, FateBecomes
    <3> QED BY <3>2 DEF FateTurns
  <2>2. FateOf[g] \in {"taken", "gone"}
    BY <1>4 DEF FateOf
  <2>3. Fate'[s][i] = FateOf[g]
    BY <2>1 DEF Fate
  <2> QED BY <1>1, <1>2, <2>1, <2>2, <2>3 DEF Promise!PNext, Promise!Decide
<1> QED BY <1>3, <1>4

\* The session says x of the order, which is in V.
LEMMA SaysSo ==
    ASSUME NEW i \in Ids, NEW V, NEW x \in V, Said' = [Said EXCEPT ![i] = x]
    PROVE  Said'[i] = x /\ Promise!Says(i, V)
<1>1. Said'[i] = x
  BY DEF Said
<1> QED BY <1>1 DEF Promise!Says

\* What the session records of its attempt is said, unless the Gateway asks.
LEMMA RecordSays ==
    ASSUME TypeOK, RecordHonest', NEW i \in Ids, record[i] \in {"sent", "asking"}, NEW v \in Results,
           record' = [record EXCEPT ![i] = v], UNCHANGED <<session, sent, gate>>
    PROVE  [Promise!PNext]_(Promise!pvars)
<1>1. session \in Sessions /\ record \in [Ids -> Records]
  BY DEF TypeOK
<1>2. Said[i] = "open" /\ Fate' = Fate
  BY DEF Said, SaidOf, Fate
<1>3. Said' = [Said EXCEPT ![i] = SaidOf[v]]
  BY <1>1 DEF Said
<1>4. CASE v = "asking"
  <2>1. Said' = [Said EXCEPT ![i] = Said[i]]
    BY <1>2, <1>3, <1>4 DEF SaidOf
  <2>2. Said' = Said
    BY <2>1 DEF Said
  <2> QED BY <1>2, <2>2 DEF Promise!pvars
<1>5. CASE v # "asking"
  <2> DEFINE x == SaidOf[v]
  <2>1. x \in Promise!Endings /\ (x = "accepted" => v = "accepted") /\ (x = "refused" => v \in {"rejected", "declined"})
    BY <1>5 DEF Results, SaidOf, Promise!Endings
  <2>2. record'[i] = v
    BY <1>1
  <2>3. x = "accepted" => gate[session][i] \in {"working", "ended"}
    BY <2>1, <2>2 DEF RecordHonest
  <2>4. x = "refused" => gate[session][i] \in {"refused", "dropped"}
    BY <2>1, <2>2 DEF RecordHonest
  <2>5. x = "accepted" => Fate[session][i] = "taken"
    BY <1>1, <2>3 DEF Fate, FateOf
  <2>6. x = "refused" => Fate[session][i] \in {"none", "gone"}
    BY <1>1, <2>4 DEF Fate, FateOf
  <2>7. Said' = [Said EXCEPT ![i] = x]
    BY <1>3
  <2> HIDE DEF x
  <2>8. Said'[i] = x /\ Promise!Says(i, Promise!Endings)
    BY <2>1, <2>7, SaysSo
  <2> QED BY <1>2, <2>1, <2>5, <2>6, <2>8 DEF Promise!PNext, Promise!Say
<1> QED BY <1>4, <1>5

\* Each step is a step of the promise or none: a submission writes, what is recorded after the
\* last question is said.
LEMMA FlowPromiseStep == FlowInv /\ [Next]_vars => [Promise!PNext]_(Promise!pvars)
<1> SUFFICES ASSUME FlowInv, [Next]_vars PROVE [Promise!PNext]_(Promise!pvars)
  OBVIOUS
<1>1. TypeOK /\ session \in Sessions /\ Subject /\ RecordHonest /\ PendingAnswerable
  BY DEF FlowInv, TypeOK
<1>2. RecordHonest'
  BY FlowStep DEF FlowInv
<1>3. ASSUME UNCHANGED <<session, record, sent, gate>> PROVE [Promise!PNext]_(Promise!pvars)
  BY <1>3 DEF Promise!pvars, Said, Fate
<1>4. CASE PreviewOrder \/ PreviewReturns \/ PrepareFails \/ ApplySnapshot
  BY <1>3, <1>4 DEF PreviewOrder, PreviewReturns, PrepareFails, ApplySnapshot, flow, gateway
<1>5. ASSUME NEW i \in Ids, PlaceOrder(i) \/ CancelOrder(i) PROVE [Promise!PNext]_(Promise!pvars)
  BY <1>3, <1>5 DEF PlaceOrder, CancelOrder, flow, gateway
<1>6. ASSUME NEW r \in Replies, NEW c, ReplyOrder(r, c) PROVE [Promise!PNext]_(Promise!pvars)
  BY <1>3, <1>6 DEF ReplyOrder, flow
<1>7. CASE SubmitOrder
  <2>1. subject \in Ids /\ record[subject] = "none" /\ sent[session][subject] = 0
    BY <1>1, <1>7 DEF SubmitOrder, Subject, RecordHonest
  <2>2. Said[subject] = "none"
    BY <2>1 DEF Said, SaidOf
  <2>3. Said' = [Said EXCEPT ![subject] = "open"]
    <3>1. Said' = [Said EXCEPT ![subject] = SaidOf["sent"]]
      BY <1>1, <1>7, <2>1 DEF SubmitOrder, TypeOK, Said
    <3> QED BY <3>1 DEF SaidOf
  <2>4. sent' = [sent EXCEPT ![session][subject] = 1]
    BY <1>1, <1>7, <2>1 DEF SubmitOrder, TypeOK
  <2>5. Fate' = [Fate EXCEPT ![session][subject] = "out"]
    <3>1. GateBecomes(session, subject, "flying") /\ "flying" \in OrderStates
      BY <1>7 DEF SubmitOrder, GateBecomes, OrderStates
    <3>2. FateTurns(session, subject, FateOf["flying"])
      BY <1>1, <2>1, <3>1, FateBecomes
    <3> QED BY <3>2 DEF FateTurns, FateOf
  <2>6. session' = session
    BY <1>7 DEF SubmitOrder
  <2>7. Promise!Says(subject, {"open"})
    BY <2>1, <2>3, SaysSo
  <2> QED BY <2>1, <2>2, <2>4, <2>5, <2>6, <2>7 DEF Promise!PNext, Promise!Write
<1>8. CASE SubmitReturns
  <2>1. subject \in Ids /\ record[subject] = "sent"
    BY <1>1, <1>8 DEF SubmitReturns, Subject
  <2>2. PICK v \in Parsed(subject, NoReply) : record' = [record EXCEPT ![subject] = v]
    BY <1>8 DEF SubmitReturns
  <2>3. v \in Results
    BY DEF Parsed, Results
  <2>4. UNCHANGED <<session, sent, gate>>
    BY <1>8 DEF SubmitReturns, gateway
  <2> QED BY <1>1, <1>2, <2>1, <2>2, <2>3, <2>4, RecordSays
<1>9. CASE ReplyReturns
  <2>1. subject \in Ids /\ record[subject] = "asking"
    BY <1>1, <1>9, NoneAssumption DEF ReplyReturns, Subject, PendingAnswerable
  <2>2. PICK v \in ReplyParsed(question[subject]) : ReplyRecorded(question[subject], v)
    BY <1>9 DEF ReplyReturns
  <2>3. v \in Results
    BY DEF ReplyParsed, Parsed, Results
  <2>4. record' = [record EXCEPT ![subject] = v] /\ UNCHANGED <<session, sent, gate>>
    BY <2>2 DEF ReplyRecorded, gateway
  <2> QED BY <1>1, <1>2, <2>1, <2>3, <2>4, RecordSays
<1>10. CASE CancelReturns
  <2>1. UNCHANGED <<session, record, sent>>
    BY <1>10 DEF CancelReturns, flow
  <2>2. CASE gate' = gate
    BY <1>3, <2>1, <2>2
  <2>3. ASSUME NEW s \in Sessions, gate[s][subject] = "working", gate' = [gate EXCEPT ![s][subject] = "ended"]
        PROVE  [Promise!PNext]_(Promise!pvars)
    <3>1. subject \in Ids
      BY <1>1, <1>10 DEF CancelReturns, Subject
    <3>2. Fate' = Fate
      <4>1. GateBecomes(s, subject, "ended") /\ "ended" \in OrderStates
        BY <2>3 DEF GateBecomes, OrderStates
      <4>2. FateOf["ended"] = Fate[s][subject]
        BY <2>3, <3>1 DEF Fate, FateOf
      <4> QED BY <1>1, <3>1, <4>1, <4>2, FateKept
    <3> QED BY <2>1, <3>2 DEF Promise!pvars, Said
  <2> QED BY <1>10, <2>2, <2>3 DEF CancelReturns
<1>11. ASSUME NEW s \in Sessions, NEW i \in Ids, OrderEnds(s, i) PROVE [Promise!PNext]_(Promise!pvars)
  <2>1. UNCHANGED <<session, record, sent>>
    BY <1>11 DEF OrderEnds, flow
  <2>2. Fate' = Fate
    <3>1. GateBecomes(s, i, "ended") /\ "ended" \in OrderStates /\ gate[s][i] = "working"
      BY <1>11 DEF OrderEnds, GateBecomes, OrderStates
    <3>2. FateOf["ended"] = Fate[s][i]
      BY <3>1 DEF Fate, FateOf
    <3> QED BY <1>1, <3>1, <3>2, FateKept
  <2> QED BY <2>1, <2>2 DEF Promise!pvars, Said
<1>12. ASSUME NEW s \in Sessions, NEW i \in Ids, QuestionExpires(s, i) PROVE [Promise!PNext]_(Promise!pvars)
  BY <1>1, <1>12, GateMoves DEF QuestionExpires, flow
<1>13. ASSUME NEW s \in Sessions, NEW i \in Ids, GatewayReceives(s, i) PROVE [Promise!PNext]_(Promise!pvars)
  <2>1. UNCHANGED <<session, record, sent>> /\ gate[s][i] \in {"flying", "asking"}
    BY <1>13 DEF GatewayReceives, flow
  <2>2. PICK g \in {"asking", "working", "refused", "lost"} : gate' = [gate EXCEPT ![s][i] = g]
    BY <1>13 DEF GatewayReceives, Decides
  <2> QED BY <1>1, <2>1, <2>2, GateMoves
<1>14. ASSUME NEW s \in Sessions, NEW i \in Ids, NEW r \in Replies, GatewayHears(s, i, r)
       PROVE  [Promise!PNext]_(Promise!pvars)
  <2>1. UNCHANGED <<session, record, sent>>
    BY <1>14 DEF GatewayHears, flow
  <2>2. CASE gate' = gate
    BY <1>3, <2>1, <2>2
  <2>3. CASE gate' # gate
    <3>1. PICK g \in {"asking", "working", "refused", "dropped"} :
            gate[s][i] = "asking" /\ gate' = [gate EXCEPT ![s][i] = g]
      BY <1>14, <2>3 DEF GatewayHears, Decides
    <3> QED BY <1>1, <2>1, <3>1, GateMoves
  <2> QED BY <2>2, <2>3
<1>15. CASE NewSession
  <2>1. session + 1 \in Sessions /\ session' = session + 1
    BY <1>1, <1>15, BoundsAssumption DEF NewSession, Sessions
  <2>2. Said' = [i \in Ids |-> "none"]
    BY <1>15 DEF NewSession, Said, SaidOf
  <2>3. UNCHANGED <<sent, Fate>>
    BY <1>15 DEF NewSession, gateway, Fate
  <2> QED BY <2>1, <2>2, <2>3 DEF Promise!PNext, Promise!Renew
<1>16. CASE UNCHANGED vars
  BY <1>3, <1>16 DEF vars, flow, gateway
<1> QED BY <1>4, <1>5, <1>6, <1>7, <1>8, <1>9, <1>10, <1>11, <1>12, <1>13, <1>14, <1>15, <1>16 DEF Next

\* An order adapter with questions keeps the same promise: however many questions stand between a
\* submission and its end, whichever answers and replies are lost or late, an id is submitted once
\* by a session, and what was reported of it is true and stays.
THEOREM FlowPromiseKept == Spec => KeepsOrderPromise
<1>1. Init => Promise!PInit
  BY DEF Init, Promise!PInit, Said, Fate, SaidOf, FateOf
<1> QED BY <1>1, FlowPromiseStep, FlowInvariant, PTL DEF Spec, KeepsOrderPromise, Promise!PSpec

-----------------------------------------------------------------------------
(***************************************************************************)
(* Live orders                                                             *)
(***************************************************************************)
Messages ==
    [topic : {"sor"}, order : Orders, change : Nat] \cup [topic : {"str"}, execution : Executions]

LiveShape ==
    /\ book \in [Orders -> Nat] /\ rows \in [Orders -> Nat] /\ known \in [Orders -> Nat]
    /\ reply \in [Polls -> [Orders -> Nat]]
    /\ unread \in Seq(Messages)
    /\ link \in {"down", "priming", "primed", "up"}
    /\ stage \in [Polls -> {"idle", "waiting", "asked", "answered", "trades"}]
    /\ later \in [Polls -> SUBSET Orders]
    /\ ready \in BOOLEAN /\ doubtful \in BOOLEAN

\* Who reads the stream, and that a poll is not outdated when it starts.
Roles ==
    /\ link # "up" => unread = <<>>
    /\ stage["prime"] # "idle" => link = "priming"
    /\ outdated \subseteq Running

\* Nobody is ahead of the Gateway, and no row of the start of a poll is ahead of its answer.
Backed ==
    /\ \A o \in Orders : rows[o] <= book[o] /\ known[o] <= book[o]
    /\ \A i \in 1..Len(unread) : unread[i].topic = "sor" => unread[i].change <= book[unread[i].order]
    /\ \A p \in Polls : stage[p] = "answered" =>
        \A o \in Orders : reply[p][o] <= book[o] /\ (o \in later[p] \/ rows[o] <= reply[p][o])

\* The stream's last word about an order is its present state.
UpToDate ==
    \A i \in 1..Len(unread) : unread[i].topic = "sor" =>
        \E j \in i..Len(unread) :
            unread[j].topic = "sor" /\ unread[j].order = unread[i].order
            /\ unread[j].change = book[unread[i].order]

\* An answer to a poll that is not outdated contains what callers were told.
Vouched ==
    \A p \in Polls : stage[p] = "answered" /\ p \notin outdated => \A o \in Orders : known[o] <= reply[p][o]

LiveInv == LiveShape /\ Roles /\ Backed /\ UpToDate /\ Vouched

\* A message about the order that is as new as what callers were told is still to be read.
Pending(o) ==
    \E i \in 1..Len(unread) : unread[i].topic = "sor" /\ unread[i].order = o /\ unread[i].change >= known[o]

Shown(o) == rows[o] >= known[o] \/ Pending(o)

\* Unless something made the cache doubtful, it shows what callers were told, and so do the rows
\* that were written since a poll began.
Shows ==
    ~doubtful =>
        /\ ready => \A o \in Orders : Shown(o)
        /\ \A p \in Running \ outdated : \A o \in later[p] : Shown(o)

\* As many rows as there are orders.
Roomy == IsFiniteSet(Orders) /\ Cardinality(Orders) <= MaxRows

-----------------------------------------------------------------------------
LEMMA PollsAre == Polls = {"timer", "prime"} /\ "prime" \in Polls /\ "timer" \in Polls
BY DEF Polls

\* What the cache writes are changes of the orders admitted.
LEMMA Written ==
    ASSUME LiveShape, NEW os \in SUBSET Orders, NEW changes \in [Orders -> Nat],
           NEW running \in SUBSET Polls, WriteRows(Admitted(os), changes, running)
    PROVE  /\ rows' \in [Orders -> Nat] /\ later' \in [Polls -> SUBSET Orders]
           /\ \A o \in Orders : rows'[o] = IF o \in Admitted(os) THEN changes[o] ELSE rows[o]
           /\ \A q \in running : later'[q] = later[q] \cup Admitted(os)
           /\ \A q \in Polls \ running : later'[q] = {}
           /\ Admitted(os) \subseteq os
BY DEF WriteRows, Admitted, LiveShape

\* Every order is admitted where there is room.
LEMMA AllAdmitted ==
    ASSUME Roomy, LiveShape, MaxRows \in Nat, NEW os \in SUBSET Orders
    PROVE  Admitted(os) = os
<1> SUFFICES ASSUME NEW o \in Orders, rows[o] = 0
             PROVE  Cardinality({x \in Orders : rows[x] > 0}) < MaxRows
  BY DEF Admitted, LiveShape
<1> DEFINE S == {x \in Orders : rows[x] > 0}
<1>1. S \subseteq Orders /\ o \notin S
  OBVIOUS
<1> HIDE DEF S
<1>2. IsFiniteSet(S) /\ Cardinality(S) <= Cardinality(Orders) /\ Cardinality(S) # Cardinality(Orders)
  BY <1>1, FS_Subset DEF Roomy
<1>3. Cardinality(S) \in Nat /\ Cardinality(Orders) \in Nat
  BY <1>2, FS_CardinalityType DEF Roomy
<1>4. Cardinality(S) < MaxRows
  BY <1>2, <1>3 DEF Roomy
<1> QED BY <1>4 DEF S

\* The messages behind the first.
LEMMA Rest ==
    ASSUME LiveShape, unread # <<>>, unread' = Tail(unread)
    PROVE  /\ unread' \in Seq(Messages) /\ Len(unread') = Len(unread) - 1 /\ Len(unread) \in Nat \ {0}
           /\ Head(unread) = unread[1]
           /\ \A i \in 1..Len(unread') : unread'[i] = unread[i + 1]
BY DEF LiveShape

\* A change is told behind the messages that wait.
LEMMA Appended ==
    ASSUME LiveShape, NEW news \in Seq(Messages), unread' = unread \o news
    PROVE  /\ unread' \in Seq(Messages) /\ Len(unread') = Len(unread) + Len(news)
           /\ Len(unread) \in Nat /\ Len(news) \in Nat
           /\ \A i \in 1..Len(unread) : unread'[i] = unread[i]
           /\ \A i \in 1..Len(news) : unread'[Len(unread) + i] = news[i]
           /\ \A i \in 1..Len(unread') : i \in 1..Len(unread) \/ (i - Len(unread)) \in 1..Len(news)
BY DEF LiveShape

-----------------------------------------------------------------------------
\* Steps that leave the orders, their rows and the stream alone.
Aside ==
    UNCHANGED <<book, rows, known, reply, unread>>

LEMMA AsideKeeps ==
    ASSUME LiveInv, Aside, LiveShape', Roles',
           \A p \in Polls : stage'[p] = "answered" =>
               stage[p] = "answered" /\ later'[p] = later[p] /\ (p \in outdated => p \in outdated')
    PROVE  LiveInv'
<1>1. Backed'
  BY DEF LiveInv, Backed, Aside
<1>2. UpToDate'
  BY DEF LiveInv, UpToDate, Aside
<1>3. Vouched'
  BY DEF LiveInv, Vouched, Aside
<1> QED BY <1>1, <1>2, <1>3 DEF LiveInv

LEMMA AsideShows ==
    ASSUME Shows, Aside, doubtful' = doubtful,
           ready' => ready,
           \A p \in Running' : p \notin outdated' => later'[p] = {} \/ (p \in Running /\ p \notin outdated /\ later'[p] = later[p])
    PROVE  Shows'
<1>1. \A o \in Orders : Shown(o) => Shown(o)'
  BY DEF Shown, Pending, Aside
<1> SUFFICES ASSUME ~doubtful'
             PROVE  /\ ready' => \A o \in Orders : Shown(o)'
                    /\ \A p \in Running' \ outdated' : \A o \in later'[p] : Shown(o)'
  BY DEF Shows
<1>2. /\ ready => \A o \in Orders : Shown(o)
      /\ \A p \in Running \ outdated : \A o \in later[p] : Shown(o)
  BY DEF Shows
<1>3. \A o : Shown(o) => Shown(o)'
  BY DEF Shown, Pending, Aside
<1> QED BY <1>2, <1>3

\* An order changes, and the stream is told about it in order.
LEMMA Told ==
    ASSUME LiveInv, NEW o \in Orders, OrderChanges(o)
    PROVE  /\ book' = [book EXCEPT ![o] = book[o] + 1]
           /\ UNCHANGED <<watch, link, rows, ready, seen, stage, reply, later, refreshed, known, outdated, doubtful>>
           /\ unread' \in Seq(Messages)
           /\ \/ unread' = unread /\ link # "up"
              \/ /\ link = "up"
                 /\ \A i \in 1..Len(unread) : i \in 1..Len(unread') /\ unread'[i] = unread[i]
                 /\ Len(unread) + 1 \in 1..Len(unread')
                 /\ unread'[Len(unread) + 1] = [topic |-> "sor", order |-> o, change |-> book[o] + 1]
                 /\ \A i \in 1..Len(unread') :
                        i \in 1..Len(unread) \/ i = Len(unread) + 1 \/ unread'[i].topic = "str"
<1> DEFINE m == [topic |-> "sor", order |-> o, change |-> book[o] + 1]
           e == [topic |-> "str", execution |-> <<o, (book[o] + 1) \div 2>>]
           news == <<m>> \o (IF (book[o] + 1) % 2 = 0 THEN <<e>> ELSE <<>>)
<1>0. LiveShape
  BY DEF LiveInv
<1>1. book[o] \in Nat /\ book[o] + 1 <= MaxChange /\ MaxChange \in Nat
  BY LiveOrdersAssumption DEF LiveInv, LiveShape, OrderChanges
<1>2. m \in Messages
  BY <1>1 DEF Messages
<1>3. (book[o] + 1) % 2 = 0 => e \in Messages
  <2> SUFFICES ASSUME (book[o] + 1) % 2 = 0 PROVE (book[o] + 1) \div 2 \in 1..(MaxChange \div 2)
    BY DEF Messages, Executions
  <2> QED BY <1>1
<1>4. /\ news \in Seq(Messages) /\ Len(news) \in {1, 2} /\ news[1] = m
      /\ Len(news) = 2 => news[2] = e
  <2>1. CASE (book[o] + 1) % 2 = 0
    <3>1. news \in Seq(Messages) /\ Len(news) = 2 /\ news[1] = m /\ news[2] = e
      <4>1. news = <<m>> \o <<e>>
        <5> HIDE DEF m, e
        <5> QED BY <2>1
      <4> HIDE DEF m, e, news
      <4>2. <<m>> \in Seq(Messages) /\ <<e>> \in Seq(Messages)
        BY <1>2, <1>3, <2>1
      <4>3. Len(<<m>>) = 1 /\ Len(<<e>>) = 1 /\ <<m>>[1] = m /\ <<e>>[1] = e
        OBVIOUS
      <4> DEFINE s1 == <<m>>
                 s2 == <<e>>
      <4> HIDE DEF s1, s2
      <4>4. s1 \o s2 \in Seq(Messages) /\ Len(s1 \o s2) = 2 /\ (s1 \o s2)[1] = m /\ (s1 \o s2)[2] = e
        <5>1. Len(s1) = 1 /\ Len(s2) = 1 /\ s1[1] = m /\ s2[1] = e
          BY <4>3 DEF s1, s2
        <5>2. /\ s1 \o s2 \in Seq(Messages) /\ Len(s1 \o s2) = Len(s1) + Len(s2)
              /\ \A i \in 1..(Len(s1) + Len(s2)) : (s1 \o s2)[i] = IF i <= Len(s1) THEN s1[i] ELSE s2[i - Len(s1)]
          BY <4>2, ConcatProperties DEF s1, s2
        <5> QED BY <5>1, <5>2
      <4> QED BY <4>1, <4>4 DEF s1, s2
    <3> HIDE DEF news
    <3> QED BY <3>1
  <2>2. CASE (book[o] + 1) % 2 # 0
    <3>1. news = <<m>>
      <4> HIDE DEF m, e
      <4> QED BY <2>2
    <3> HIDE DEF m, e, news
    <3> QED BY <1>2, <2>2, <3>1
  <2> QED BY <2>1, <2>2
<1>5. /\ book' = [book EXCEPT ![o] = book[o] + 1]
      /\ UNCHANGED <<watch, link, rows, ready, seen, stage, reply, later, refreshed, known, outdated, doubtful>>
      /\ unread' = IF link = "up" THEN unread \o news ELSE unread
  BY DEF OrderChanges
<1>6. m = [topic |-> "sor", order |-> o, change |-> book[o] + 1] /\ e.topic = "str"
  OBVIOUS
<1> HIDE DEF m, e, news
<1>7. CASE link = "up"
  <2>1. unread' = unread \o news
    BY <1>5, <1>7
  <2>2. /\ unread' \in Seq(Messages) /\ Len(unread') = Len(unread) + Len(news)
        /\ Len(unread) \in Nat /\ Len(news) \in Nat
        /\ \A i \in 1..Len(unread) : unread'[i] = unread[i]
        /\ \A i \in 1..Len(news) : unread'[Len(unread) + i] = news[i]
    BY <1>0, <1>4, <2>1, Appended
  <2>3. unread'[Len(unread) + 1] = m
    BY <1>4, <2>2
  <2>4. ASSUME NEW i \in 1..Len(unread'), i \notin 1..Len(unread), i # Len(unread) + 1
        PROVE  unread'[i].topic = "str"
    <3>1. Len(news) = 2 /\ i = Len(unread) + 2
      <4>1. CASE Len(news) = 1
        BY <2>2, <2>4, <4>1
      <4>2. CASE Len(news) = 2
        BY <2>2, <2>4, <4>2
      <4> QED BY <1>4, <4>1, <4>2
    <3> QED BY <1>4, <1>6, <2>2, <3>1
  <2> QED BY <1>4, <1>5, <1>6, <1>7, <2>2, <2>3, <2>4
<1>8. CASE link # "up"
  BY <1>0, <1>5, <1>8 DEF LiveShape
<1> QED BY <1>7, <1>8

LEMMA OrderChangesKeeps ==
    ASSUME LiveInv, NEW o \in Orders, OrderChanges(o) PROVE LiveInv' /\ (Shows => Shows')
<1> USE DEF LiveInv
<1>1. /\ book' = [book EXCEPT ![o] = book[o] + 1]
      /\ UNCHANGED <<watch, link, rows, ready, seen, stage, reply, later, refreshed, known, outdated, doubtful>>
      /\ unread' \in Seq(Messages)
  BY Told
<1>2. /\ \A x \in Orders : book'[x] \in Nat /\ book[x] \in Nat /\ book[x] <= book'[x]
      /\ book'[o] = book[o] + 1 /\ \A x \in Orders \ {o} : book'[x] = book[x]
  BY <1>1 DEF LiveShape
<1>3. LiveShape'
  BY <1>1 DEF LiveShape
<1>4. Roles'
  BY <1>1, Told DEF Roles, Running
<1>5. Vouched'
  BY <1>1 DEF Vouched
<1>6. \A i \in 1..Len(unread) : unread[i].topic = "sor" => unread[i].order \in Orders /\ unread[i].change \in Nat
  BY DEF LiveShape, Messages
<1>7. \A i \in 1..Len(unread) : i \in 1..Len(unread') /\ unread'[i] = unread[i]
  BY Told
<1>8. ASSUME NEW i \in 1..Len(unread'), unread'[i].topic = "sor"
      PROVE  i \in 1..Len(unread) \/ (link = "up" /\ i = Len(unread) + 1 /\ unread'[i].order = o /\ unread'[i].change = book'[o])
  <2>1. CASE unread' = unread /\ link # "up"
    BY <1>8, <2>1
  <2>2. CASE /\ link = "up"
             /\ unread'[Len(unread) + 1] = [topic |-> "sor", order |-> o, change |-> book[o] + 1]
             /\ \A k \in 1..Len(unread') :
                    k \in 1..Len(unread) \/ k = Len(unread) + 1 \/ unread'[k].topic = "str"
    BY <1>2, <1>8, <2>2
  <2> QED BY <2>1, <2>2, Told
<1>9. Backed'
  <2>1. \A x \in Orders : rows'[x] <= book'[x] /\ known'[x] <= book'[x]
    BY <1>1, <1>2 DEF Backed, LiveShape
  <2>2. ASSUME NEW p \in Polls, stage'[p] = "answered", NEW x \in Orders
        PROVE  reply'[p][x] <= book'[x] /\ (x \in later'[p] \/ rows'[x] <= reply'[p][x])
    BY <1>1, <1>2, <2>2 DEF Backed, LiveShape
  <2>3. ASSUME NEW i \in 1..Len(unread'), unread'[i].topic = "sor"
        PROVE  unread'[i].change <= book'[unread'[i].order]
    <3>1. CASE i \in 1..Len(unread)
      BY <1>2, <1>6, <1>7, <2>3, <3>1 DEF Backed
    <3>2. CASE unread'[i].order = o /\ unread'[i].change = book'[o]
      BY <1>2, <3>2
    <3> QED BY <1>8, <2>3, <3>1, <3>2
  <2> QED BY <2>1, <2>2, <2>3 DEF Backed
<1>10. UpToDate'
  <2> SUFFICES ASSUME NEW i \in 1..Len(unread'), unread'[i].topic = "sor"
               PROVE  \E j \in i..Len(unread') : unread'[j].topic = "sor" /\ unread'[j].order = unread'[i].order
                                                 /\ unread'[j].change = book'[unread'[i].order]
    BY DEF UpToDate
  <2>1. CASE unread'[i].order = o /\ link = "up"
    <3>1. /\ Len(unread) + 1 \in 1..Len(unread')
          /\ unread'[Len(unread) + 1] = [topic |-> "sor", order |-> o, change |-> book[o] + 1]
      BY <2>1, Told
    <3>2. i <= Len(unread) + 1
      BY <1>8
    <3>3. Len(unread) + 1 \in i..Len(unread')
      BY <3>1, <3>2
    <3> QED BY <1>2, <2>1, <3>1, <3>3
  <2>2. CASE unread'[i].order # o /\ link = "up"
    <3>1. i \in 1..Len(unread) /\ unread'[i] = unread[i]
      BY <1>7, <1>8, <2>2
    <3>2. PICK j \in i..Len(unread) : unread[j].topic = "sor" /\ unread[j].order = unread[i].order
                                      /\ unread[j].change = book[unread[i].order]
      BY <3>1 DEF UpToDate
    <3>3. j \in 1..Len(unread)
      BY <3>1, <3>2
    <3>4. j \in i..Len(unread') /\ unread'[j] = unread[j]
      BY <1>7, <3>3
    <3> QED BY <1>2, <1>6, <2>2, <3>1, <3>2, <3>4
  <2>3. CASE link # "up"
    BY <1>8, <2>3 DEF Roles
  <2> QED BY <2>1, <2>2, <2>3
<1>11. ASSUME Shows PROVE Shows'
  <2>1. ASSUME NEW x \in Orders, Shown(x) PROVE Shown(x)'
    BY <1>1, <1>7, <2>1 DEF Shown, Pending
  <2> QED BY <1>1, <1>11, <2>1 DEF Shows, Running, LiveShape
<1> QED BY <1>3, <1>4, <1>5, <1>9, <1>10, <1>11

-----------------------------------------------------------------------------
LEMMA PollBeginsKeeps ==
    ASSUME LiveInv, NEW p \in Polls, PollBegins(p), Aside,
           UNCHANGED <<ready, outdated, doubtful>>,
           \/ p = "timer" /\ link' = link
           \/ p = "prime" /\ link = "down" /\ link' = "priming"
    PROVE  LiveInv' /\ (Shows => Shows')
<1>1. /\ stage[p] = "idle" /\ stage' = [stage EXCEPT ![p] = "waiting"]
      /\ later' = [later EXCEPT ![p] = {}]
  BY DEF PollBegins
<1>2. LiveShape'
  BY <1>1 DEF LiveInv, LiveShape, Aside
<1>3. Running' = Running \cup {p} /\ p \notin outdated
  BY <1>1 DEF LiveInv, LiveShape, Roles, Running
<1>4. Roles'
  BY <1>1, <1>3, PollsAre DEF LiveInv, LiveShape, Roles, Aside
<1>5. LiveInv'
  BY <1>1, <1>2, <1>4, AsideKeeps DEF LiveInv, LiveShape
<1>6. Shows => Shows'
  BY <1>1, <1>3, AsideShows DEF LiveInv, LiveShape, Running
<1> QED BY <1>5, <1>6

\* Steps of a poll that neither answer it nor apply an answer.
LEMMA PollMovesKeeps ==
    ASSUME LiveInv, NEW p \in Polls, Aside, UNCHANGED <<ready, doubtful>>,
           \/ /\ stage[p] = "waiting" /\ stage' = [stage EXCEPT ![p] = "asked"]
              /\ UNCHANGED <<link, later, outdated>>
           \/ /\ stage[p] \in {"asked", "waiting"} /\ stage' = [stage EXCEPT ![p] = "trades"]
              /\ later' = [later EXCEPT ![p] = {}] /\ outdated' = outdated \ {p} /\ link' = link
           \/ /\ stage[p] = "trades" /\ stage' = [stage EXCEPT ![p] = "idle"]
              /\ UNCHANGED <<later, outdated>>
              /\ link' = IF p = "prime" THEN "primed" ELSE link
    PROVE  LiveInv' /\ (Shows => Shows')
<1>1. LiveShape'
  BY DEF LiveInv, LiveShape, Aside
<1>2. outdated' \subseteq Running'
  BY DEF LiveInv, LiveShape, Roles, Running
<1>3. Roles'
  BY <1>2, PollsAre DEF LiveInv, LiveShape, Roles, Aside
<1>4. LiveInv'
  BY <1>1, <1>3, AsideKeeps DEF LiveInv, LiveShape
<1>5. Shows => Shows'
  BY AsideShows DEF LiveInv, LiveShape, Running
<1> QED BY <1>4, <1>5

LEMMA OrdersAnsweredKeeps ==
    ASSUME LiveInv, NEW p \in Polls, OrdersAnswered(p) PROVE LiveInv' /\ (Shows => Shows')
<1>1. /\ stage[p] = "asked" /\ stage' = [stage EXCEPT ![p] = "answered"]
      /\ reply' = [reply EXCEPT ![p] = book]
      /\ UNCHANGED <<book, watch, link, unread, rows, ready, seen, later, refreshed, known, outdated, doubtful>>
  BY DEF OrdersAnswered
<1> USE DEF LiveInv
<1>2. LiveShape'
  BY <1>1 DEF LiveShape
<1>3. Running' = Running
  BY <1>1 DEF LiveShape, Running
<1>4. Roles'
  BY <1>1, <1>3 DEF LiveShape, Roles
<1>5. UpToDate'
  BY <1>1 DEF UpToDate
<1>6. Backed' /\ Vouched'
  BY <1>1 DEF Backed, Vouched, LiveShape
<1>7. Shows => Shows'
  <2>1. \A o : Shown(o) => Shown(o)'
    BY <1>1 DEF Shown, Pending
  <2> QED BY <1>1, <1>3, <2>1 DEF Shows
<1> QED BY <1>2, <1>4, <1>5, <1>6, <1>7

LEMMA CallerHearsKeeps ==
    ASSUME LiveInv, NEW o \in Orders, CallerHears(o) PROVE LiveInv' /\ (Shows => Shows')
<1>1. /\ known' = [known EXCEPT ![o] = book[o]]
      /\ ready' = FALSE /\ outdated' = Running /\ doubtful' = FALSE
      /\ UNCHANGED <<book, watch, link, unread, rows, seen, stage, reply, later, refreshed>>
  BY DEF CallerHears, InvalidateOrderCache
<1> USE DEF LiveInv
<1>2. LiveShape'
  BY <1>1 DEF LiveShape
<1>3. Running' = Running
  BY <1>1 DEF Running
<1>4. Roles'
  BY <1>1, <1>3 DEF Roles
<1>5. Backed' /\ UpToDate'
  BY <1>1 DEF LiveShape, Backed, UpToDate
<1>6. Vouched'
  BY <1>1 DEF Vouched, Running
<1>7. Shows'
  BY <1>1, <1>3 DEF Shows
<1> QED BY <1>2, <1>4, <1>5, <1>6, <1>7

LEMMA DisconnectedKeeps ==
    ASSUME LiveInv, Disconnected PROVE LiveInv' /\ (Shows => Shows')
<1>1. /\ link' = IF link = "up" THEN "down" ELSE link
      /\ unread' = <<>>
      /\ doubtful' = (doubtful \/ unread # <<>>)
      /\ UNCHANGED <<book, rows, ready, seen, stage, reply, later, refreshed, known, outdated>>
  BY DEF Disconnected
<1> USE DEF LiveInv
<1>2. Len(<<>>) = 0 /\ <<>> \in Seq(Messages)
  OBVIOUS
<1>3. doubtful' \in BOOLEAN
  BY <1>1 DEF LiveShape
<1>4. LiveShape'
  BY <1>1, <1>2, <1>3 DEF LiveShape
<1>5. Roles'
  BY <1>1 DEF LiveShape, Roles, Running
<1>6. Backed' /\ UpToDate' /\ Vouched'
  BY <1>1, <1>2 DEF LiveShape, Backed, UpToDate, Vouched
<1>7. ASSUME Shows, ~doubtful' PROVE Shows'
  <2>1. unread' = unread /\ ~doubtful
    BY <1>1, <1>7
  <2>2. \A o : Shown(o) => Shown(o)'
    BY <1>1, <2>1 DEF Shown, Pending
  <2>3. Running' = Running
    BY <1>1 DEF Running
  <2> QED BY <1>1, <1>7, <2>1, <2>2, <2>3 DEF Shows
<1>8. Shows => Shows'
  BY <1>7 DEF Shows
<1> QED BY <1>4, <1>5, <1>6, <1>8

-----------------------------------------------------------------------------
\* A snapshot moves the rows that it writes forward.
LEMMA SnapshotForward ==
    ASSUME LiveInv, NEW p \in Polls, ApplyOrderRows(p)
    PROVE  /\ stage[p] = "answered"
           /\ \E os \in SUBSET Orders :
                /\ os = Admitted(NotRolledBack(p, {o \in Orders : reply[p][o] > 0}))
                /\ rows' \in [Orders -> Nat] /\ later' \in [Polls -> SUBSET Orders]
                /\ \A o \in Orders : rows'[o] = IF o \in os THEN reply[p][o] ELSE rows[o]
                /\ \A q \in Polls : later'[q] = IF q \in Running \ {p} THEN later[q] \cup os ELSE {}
                /\ \A o \in os : o \notin later[p] /\ reply[p][o] > 0
           /\ \A o \in Orders : rows[o] <= rows'[o]
<1> DEFINE wanted == NotRolledBack(p, {o \in Orders : reply[p][o] > 0})
           os == Admitted(wanted)
<1>1. stage[p] = "answered" /\ WriteRows(os, reply[p], Running \ {p})
  BY DEF ApplyOrderRows
<1>2. wanted \in SUBSET Orders /\ \A o \in wanted : o \notin later[p] /\ reply[p][o] > 0
  BY DEF NotRolledBack
<1>3. Running \ {p} \subseteq Polls /\ reply[p] \in [Orders -> Nat]
  BY DEF Running, LiveInv, LiveShape
<1> HIDE DEF wanted
<1>4. /\ rows' \in [Orders -> Nat] /\ later' \in [Polls -> SUBSET Orders]
      /\ \A o \in Orders : rows'[o] = IF o \in os THEN reply[p][o] ELSE rows[o]
      /\ \A q \in Running \ {p} : later'[q] = later[q] \cup os
      /\ \A q \in Polls \ (Running \ {p}) : later'[q] = {}
      /\ os \subseteq wanted
  BY <1>1, <1>2, <1>3, Written DEF LiveInv
<1> HIDE DEF os
<1>5. \A o \in Orders : rows[o] <= rows'[o]
  BY <1>1, <1>2, <1>4 DEF LiveInv, Backed, LiveShape
<1>6. os \in SUBSET Orders /\ os = Admitted(NotRolledBack(p, {o \in Orders : reply[p][o] > 0}))
  BY <1>2, <1>4 DEF os, wanted
<1>7. \A q \in Polls : later'[q] = IF q \in Running \ {p} THEN later[q] \cup os ELSE {}
  BY <1>4
<1>8. \A o \in os : o \notin later[p] /\ reply[p][o] > 0
  BY <1>2, <1>4
<1>9. \E s \in SUBSET Orders :
        /\ s = Admitted(NotRolledBack(p, {o \in Orders : reply[p][o] > 0}))
        /\ rows' \in [Orders -> Nat] /\ later' \in [Polls -> SUBSET Orders]
        /\ \A o \in Orders : rows'[o] = IF o \in s THEN reply[p][o] ELSE rows[o]
        /\ \A q \in Polls : later'[q] = IF q \in Running \ {p} THEN later[q] \cup s ELSE {}
        /\ \A o \in s : o \notin later[p] /\ reply[p][o] > 0
  <2>1. /\ rows' \in [Orders -> Nat] /\ later' \in [Polls -> SUBSET Orders]
        /\ \A o \in Orders : rows'[o] = IF o \in os THEN reply[p][o] ELSE rows[o]
    BY <1>4
  <2> QED BY <1>6, <1>7, <1>8, <2>1
<1> QED BY <1>1, <1>5, <1>9

LEMMA ApplyOrderRowsKeeps ==
    ASSUME LiveInv, NEW p \in Polls, ApplyOrderRows(p) PROVE LiveInv' /\ (Roomy /\ Shows => Shows')
<1> USE DEF LiveInv
<1>1. PICK os \in SUBSET Orders :
        /\ os = Admitted(NotRolledBack(p, {o \in Orders : reply[p][o] > 0}))
        /\ rows' \in [Orders -> Nat] /\ later' \in [Polls -> SUBSET Orders]
        /\ \A o \in Orders : rows'[o] = IF o \in os THEN reply[p][o] ELSE rows[o]
        /\ \A q \in Polls : later'[q] = IF q \in Running \ {p} THEN later[q] \cup os ELSE {}
        /\ \A o \in os : o \notin later[p] /\ reply[p][o] > 0
  BY SnapshotForward
<1>2. /\ stage[p] = "answered" /\ stage' = [stage EXCEPT ![p] = "trades"]
      /\ ready' = TRUE
      /\ doubtful' = (p \in outdated \/ (doubtful /\ later[p] # {}))
      /\ outdated' = outdated \ {p}
      /\ UNCHANGED <<book, watch, link, unread, seen, reply, refreshed, known>>
  BY DEF ApplyOrderRows
<1>3. LiveShape'
  BY <1>1, <1>2 DEF LiveShape
<1>4. Running' = Running \ {p}
  BY <1>2 DEF Running, LiveShape
<1>5. Roles'
  BY <1>2, <1>4 DEF Roles, LiveShape
<1>6. UpToDate'
  BY <1>2 DEF UpToDate
<1>7. Vouched'
  BY <1>2 DEF Vouched, LiveShape
<1>8. Backed'
  <2>1. \A o \in Orders : reply[p][o] <= book[o]
    BY <1>2 DEF Backed
  <2>2. \A o \in Orders : rows'[o] <= book'[o] /\ known'[o] <= book'[o]
    BY <1>1, <1>2, <2>1 DEF Backed
  <2>3. ASSUME NEW q \in Polls, stage'[q] = "answered", NEW o \in Orders
        PROVE  reply'[q][o] <= book'[o] /\ (o \in later'[q] \/ rows'[o] <= reply'[q][o])
    <3>1. q # p /\ stage[q] = "answered"
      BY <1>2, <2>3 DEF LiveShape
    <3>2. q \in Running \ {p}
      BY <3>1 DEF Running
    <3> QED BY <1>1, <1>2, <3>1, <3>2 DEF Backed
  <2> QED BY <1>2, <2>2, <2>3 DEF Backed
<1>9. ASSUME Roomy, Shows, ~doubtful' PROVE Shows'
  <2>1. p \notin outdated /\ (~doubtful \/ later[p] = {})
    BY <1>2, <1>9
  <2>2. os = {o \in Orders : reply[p][o] > 0} \ later[p]
    <3>1. NotRolledBack(p, {o \in Orders : reply[p][o] > 0}) = {o \in Orders : reply[p][o] > 0} \ later[p]
      BY DEF NotRolledBack
    <3>2. MaxRows \in Nat
      BY LiveOrdersAssumption
    <3> QED BY <1>1, <1>9, <3>1, <3>2, AllAdmitted
  <2>3. \A o \in Orders : known[o] <= reply[p][o]
    BY <1>2, <2>1 DEF Vouched
  <2>4. \A o : Pending(o)' <=> Pending(o)
    BY <1>2 DEF Pending
  <2>5. ASSUME NEW o \in Orders, o \notin later[p] PROVE Shown(o)'
    <3>1. CASE o \in os
      BY <1>1, <1>2, <2>3, <3>1 DEF Shown
    <3>2. CASE reply[p][o] = 0
      BY <1>1, <1>2, <2>3, <3>2 DEF Shown, LiveShape
    <3> QED BY <2>2, <2>5, <3>1, <3>2 DEF LiveShape
  <2>6. ASSUME NEW o \in Orders, ~doubtful, o \notin os, Shown(o) PROVE Shown(o)'
    BY <1>1, <1>2, <2>4, <2>6 DEF Shown
  <2>7. ASSUME NEW o \in later[p] PROVE Shown(o)'
    <3>1. ~doubtful /\ o \notin os /\ o \in Orders /\ p \in Running \ outdated
      BY <1>1, <1>2, <2>1, <2>7 DEF Running, LiveShape
    <3> QED BY <1>9, <2>6, <2>7, <3>1 DEF Shows
  <2>8. \A o \in Orders : Shown(o)'
    BY <2>5, <2>7
  <2> QED BY <1>3, <2>8 DEF Shows, LiveShape, Running
<1>10. Roomy /\ Shows => Shows'
  BY <1>9 DEF Shows
<1> QED BY <1>3, <1>5, <1>6, <1>7, <1>8, <1>10

-----------------------------------------------------------------------------
\* Reading a message: the row of its order is as new as the book, or newer messages wait.
LEMMA ReadMessageKeeps ==
    ASSUME LiveInv, ReadMessage PROVE LiveInv' /\ (Roomy /\ Shows => Shows')
<1> USE DEF LiveInv
<1>1. /\ link = "up" /\ unread # <<>> /\ unread' = Tail(unread)
      /\ UNCHANGED <<book, watch, link, ready, stage, reply, known, outdated, doubtful>>
  BY DEF ReadMessage
<1>2. /\ unread' \in Seq(Messages) /\ Len(unread') = Len(unread) - 1 /\ Len(unread) \in Nat \ {0}
      /\ Head(unread) = unread[1]
      /\ \A i \in 1..Len(unread') : unread'[i] = unread[i + 1]
  BY <1>1, Rest
<1>3. PICK m : m = unread[1]
  OBVIOUS
<1>4. m \in Messages
  BY <1>2, <1>3 DEF LiveShape
<1>5. m.topic = "sor" => m.order \in Orders /\ m.change \in Nat /\ m.change <= book[m.order]
  BY <1>2, <1>3, <1>4 DEF Messages, Backed
<1>6. PICK os : /\ os = IF m.topic = "sor" THEN Admitted({m.order}) ELSE {}
                /\ os \subseteq Orders /\ (m.topic = "sor" => os \subseteq {m.order}) /\ (m.topic # "sor" => os = {})
                /\ rows' \in [Orders -> Nat] /\ later' \in [Polls -> SUBSET Orders]
                /\ \A o \in Orders : rows'[o] = IF o \in os THEN m.change ELSE rows[o]
                /\ \A q \in Running : later'[q] = later[q] \cup os
                /\ \A q \in Polls \ Running : later'[q] = {} \/ later'[q] = later[q]
  <2>1. CASE m.topic = "sor"
    <3> DEFINE changes == [o \in Orders |-> m.change]
    <3>1. WriteRows(Admitted({m.order}), changes, Running)
      BY <1>2, <1>3, <2>1 DEF ReadMessage
    <3>2. {m.order} \in SUBSET Orders /\ changes \in [Orders -> Nat] /\ Running \in SUBSET Polls
      BY <1>5, <2>1 DEF Running
    <3>3. \A o \in Orders : changes[o] = m.change
      OBVIOUS
    <3> HIDE DEF changes
    <3>4. /\ rows' \in [Orders -> Nat] /\ later' \in [Polls -> SUBSET Orders]
          /\ \A o \in Orders : rows'[o] = IF o \in Admitted({m.order}) THEN changes[o] ELSE rows[o]
          /\ \A q \in Running : later'[q] = later[q] \cup Admitted({m.order})
          /\ \A q \in Polls \ Running : later'[q] = {}
          /\ Admitted({m.order}) \subseteq {m.order}
      BY <3>1, <3>2, Written
    <3> QED BY <2>1, <3>2, <3>3, <3>4
  <2>2. CASE m.topic # "sor"
    <3>1. UNCHANGED <<rows, later>>
      BY <1>2, <1>3, <2>2 DEF ReadMessage
    <3>2. /\ rows' \in [Orders -> Nat] /\ later' \in [Polls -> SUBSET Orders]
          /\ \A o \in Orders : rows'[o] = rows[o]
          /\ \A q \in Polls : later'[q] = later[q] /\ later'[q] = later[q] \cup {}
      BY <3>1 DEF LiveShape
    <3>3. Running \subseteq Polls
      BY DEF Running
    <3>4. {} = IF m.topic = "sor" THEN Admitted({m.order}) ELSE {}
      BY <2>2
    <3> QED BY <2>2, <3>2, <3>3, <3>4
  <2> QED BY <2>1, <2>2
<1>7. LiveShape'
  BY <1>1, <1>2, <1>6 DEF LiveShape
<1>8. Running' = Running
  BY <1>1 DEF Running
<1>9. Roles'
  BY <1>1, <1>8 DEF Roles
<1>10. Vouched'
  BY <1>1 DEF Vouched
<1>11. Backed'
  <2>1. \A o \in Orders : rows'[o] <= book'[o] /\ known'[o] <= book'[o]
    BY <1>1, <1>5, <1>6 DEF Backed
  <2>2. \A i \in 1..Len(unread') : unread'[i].topic = "sor" => unread'[i].change <= book'[unread'[i].order]
    BY <1>1, <1>2 DEF Backed
  <2>3. ASSUME NEW q \in Polls, stage'[q] = "answered", NEW o \in Orders
        PROVE  reply'[q][o] <= book'[o] /\ (o \in later'[q] \/ rows'[o] <= reply'[q][o])
    <3>1. stage[q] = "answered" /\ q \in Running
      BY <1>1, <2>3 DEF Running
    <3>2. reply[q][o] <= book[o] /\ (o \in later[q] \/ rows[o] <= reply[q][o])
      BY <3>1 DEF Backed
    <3>3. later'[q] = later[q] \cup os /\ (o \in os \/ rows'[o] = rows[o])
      BY <1>6, <3>1
    <3>4. reply' = reply /\ book' = book
      BY <1>1
    <3> QED BY <3>2, <3>3, <3>4
  <2> QED BY <2>1, <2>2, <2>3 DEF Backed
<1>12. UpToDate'
  <2> SUFFICES ASSUME NEW i \in 1..Len(unread'), unread'[i].topic = "sor"
               PROVE  \E j \in i..Len(unread') : unread'[j].topic = "sor" /\ unread'[j].order = unread'[i].order
                                                 /\ unread'[j].change = book'[unread'[i].order]
    BY DEF UpToDate
  <2>1. i + 1 \in 1..Len(unread) /\ unread'[i] = unread[i + 1]
    BY <1>2
  <2>2. PICK j \in (i + 1)..Len(unread) : unread[j].topic = "sor" /\ unread[j].order = unread[i + 1].order
                                          /\ unread[j].change = book[unread[i + 1].order]
    BY <2>1 DEF UpToDate
  <2>3. j - 1 \in i..Len(unread') /\ j - 1 \in 1..Len(unread') /\ (j - 1) + 1 = j
    BY <1>2, <2>2
  <2>4. unread'[j - 1] = unread[j]
    BY <1>2, <2>3
  <2> QED BY <1>1, <2>1, <2>2, <2>3, <2>4
<1>13. ASSUME NEW o \in Orders, m.topic = "sor" => o # m.order, Shown(o)
       PROVE  Shown(o)'
  <2>1. rows'[o] = rows[o] /\ known' = known
    BY <1>1, <1>6, <1>13
  <2>2. ASSUME Pending(o) PROVE Pending(o)'
    <3>1. PICK i \in 1..Len(unread) :
              unread[i].topic = "sor" /\ unread[i].order = o /\ unread[i].change >= known[o]
      BY <2>2 DEF Pending
    <3>2. i # 1
      BY <1>3, <1>13, <3>1
    <3>3. i - 1 \in 1..Len(unread') /\ (i - 1) + 1 = i
      BY <1>2, <3>1, <3>2
    <3>4. unread'[i - 1] = unread[i]
      BY <1>2, <3>3
    <3> QED BY <2>1, <3>1, <3>3, <3>4 DEF Pending
  <2> QED BY <1>13, <2>1, <2>2 DEF Shown
<1>14. ASSUME Roomy, m.topic = "sor" PROVE Shown(m.order)'
  <2>1. os = {m.order}
    <3>1. MaxRows \in Nat /\ {m.order} \in SUBSET Orders
      BY <1>5, <1>14, LiveOrdersAssumption
    <3> QED BY <1>6, <1>14, <3>1, AllAdmitted
  <2>2. PICK j \in 1..Len(unread) : unread[j].topic = "sor" /\ unread[j].order = m.order
                                    /\ unread[j].change = book[m.order]
    BY <1>2, <1>3, <1>14 DEF UpToDate
  <2>3. known'[m.order] <= book[m.order]
    BY <1>1, <1>5, <1>14 DEF Backed
  <2>4. CASE j = 1
    BY <1>3, <1>5, <1>6, <1>14, <2>1, <2>2, <2>3, <2>4 DEF Shown
  <2>5. CASE j # 1
    <3>1. j - 1 \in 1..Len(unread') /\ (j - 1) + 1 = j
      BY <1>2, <2>2, <2>5
    <3>2. unread'[j - 1] = unread[j]
      BY <1>2, <3>1
    <3> QED BY <2>2, <2>3, <3>1, <3>2 DEF Shown, Pending
  <2> QED BY <2>4, <2>5
<1>15. ASSUME Roomy, Shows, ~doubtful' PROVE Shows'
  <2>1. /\ ready => \A o \in Orders : Shown(o)
        /\ \A p \in Running \ outdated : \A o \in later[p] : Shown(o)
    BY <1>1, <1>15 DEF Shows
  <2>2. ready' => \A o \in Orders : Shown(o)'
    BY <1>1, <1>13, <1>14, <1>15, <2>1
  <2>3. ASSUME NEW p \in Running \ outdated, NEW o \in later'[p] PROVE Shown(o)'
    <3>1. o \in Orders /\ (o \in later[p] \/ (m.topic = "sor" /\ o = m.order))
      BY <1>6 DEF Running
    <3> QED BY <1>13, <1>14, <1>15, <2>1, <3>1
  <2> QED BY <1>1, <1>8, <2>2, <2>3 DEF Shows
<1>16. Roomy /\ Shows => Shows'
  BY <1>15 DEF Shows
<1> QED BY <1>7, <1>9, <1>10, <1>11, <1>12, <1>16

\* The cache expires, and the watch and its stream come and go.
LEMMA WatchMovesKeeps ==
    ASSUME LiveInv, Aside, UNCHANGED <<stage, later, outdated, doubtful>>,
           ready' \in BOOLEAN, ready' => ready,
           \/ link' = link
           \/ link = "primed" /\ link' \in {"up", "down"}
    PROVE  LiveInv' /\ (Shows => Shows')
<1> USE DEF LiveInv
<1>1. LiveShape'
  BY DEF LiveShape, Aside
<1>2. Running' = Running
  BY DEF Running
<1>3. Roles'
  BY <1>2 DEF LiveShape, Roles, Aside
<1>4. LiveInv'
  BY <1>1, <1>3, AsideKeeps
<1>5. Shows => Shows'
  BY <1>2, AsideShows
<1> QED BY <1>4, <1>5

-----------------------------------------------------------------------------
LEMMA LiveBegins == LiveInit => LiveInv /\ Shows
<1> SUFFICES ASSUME LiveInit PROVE LiveInv /\ Shows
  OBVIOUS
<1> USE DEF LiveInit
<1>1. Len(<<>>) = 0 /\ <<>> \in Seq(Messages)
  OBVIOUS
<1>2. LiveShape
  BY <1>1 DEF LiveShape
<1>3. Running = {}
  BY DEF Running
<1>4. Roles /\ Backed /\ UpToDate /\ Vouched
  BY <1>1, <1>3, PollsAre DEF Roles, Backed, UpToDate, Vouched
<1>5. Shows
  BY <1>3 DEF Shows
<1> QED BY <1>2, <1>4, <1>5 DEF LiveInv

LEMMA LiveStep ==
    ASSUME LiveInv, [LiveNext]_liveVars
    PROVE  LiveInv' /\ (Roomy /\ Shows => Shows')
<1>1. CASE TimerPoll
  <2>1. PollBegins("timer") /\ Aside /\ UNCHANGED <<ready, outdated, doubtful, link>>
    BY <1>1 DEF TimerPoll, Aside
  <2> QED BY <2>1, PollBeginsKeeps, PollsAre
<1>2. CASE StreamPrimes
  <2>1. /\ PollBegins("prime") /\ Aside /\ UNCHANGED <<ready, outdated, doubtful>>
        /\ link = "down" /\ link' = "priming"
    BY <1>2 DEF StreamPrimes, Aside
  <2> QED BY <2>1, PollBeginsKeeps, PollsAre
<1>3. CASE ReadMessage
  BY <1>3, ReadMessageKeeps
<1>4. CASE StreamBreaks \/ CancelWatch
  BY <1>4, DisconnectedKeeps DEF StreamBreaks, CancelWatch
<1>5. CASE CacheExpires \/ WatchTradingEvents \/ WatchReturns \/ \E opened \in BOOLEAN : StreamOpens(opened)
  <2>1. /\ Aside /\ UNCHANGED <<stage, later, outdated, doubtful>> /\ (ready' = FALSE \/ ready' = ready)
        /\ link' = link \/ (link = "primed" /\ link' \in {"up", "down"})
    BY <1>5 DEF CacheExpires, WatchTradingEvents, WatchReturns, StreamOpens, Aside
  <2>2. ready \in BOOLEAN
    BY DEF LiveInv, LiveShape
  <2>3. CASE ready' = FALSE
    BY <2>1, <2>3, WatchMovesKeeps
  <2>4. CASE ready' = ready
    <3>1. ready' \in BOOLEAN /\ (ready' => ready)
      BY <2>2, <2>4
    <3> QED BY <2>1, <3>1, WatchMovesKeeps
  <2> QED BY <2>1, <2>3, <2>4
<1>6. ASSUME NEW p \in Polls, FetchOrderRows(p) \/ OrdersFail(p) \/ \E answered \in BOOLEAN : PollTrades(p, answered)
      PROVE  LiveInv' /\ (Shows => Shows')
  <2>1. CASE FetchOrderRows(p)
    <3>1. /\ Aside /\ UNCHANGED <<ready, doubtful, link, later, outdated>>
          /\ stage[p] = "waiting" /\ stage' = [stage EXCEPT ![p] = "asked"]
      BY <2>1 DEF FetchOrderRows, Aside
    <3> QED BY <3>1, PollMovesKeeps
  <2>2. CASE OrdersFail(p)
    <3>1. /\ Aside /\ UNCHANGED <<ready, doubtful, link>>
          /\ stage[p] \in {"asked", "waiting"} /\ stage' = [stage EXCEPT ![p] = "trades"]
          /\ later' = [later EXCEPT ![p] = {}] /\ outdated' = outdated \ {p}
      BY <2>2 DEF OrdersFail, Aside
    <3> QED BY <3>1, PollMovesKeeps
  <2>3. CASE \E answered \in BOOLEAN : PollTrades(p, answered)
    <3>1. /\ Aside /\ UNCHANGED <<ready, doubtful, later, outdated>>
          /\ stage[p] = "trades" /\ stage' = [stage EXCEPT ![p] = "idle"]
          /\ link' = IF p = "prime" THEN "primed" ELSE link
      BY <2>3 DEF PollTrades, Aside
    <3> QED BY <3>1, PollMovesKeeps
  <2> QED BY <1>6, <2>1, <2>2, <2>3
<1>7. ASSUME NEW p \in Polls, OrdersAnswered(p) PROVE LiveInv' /\ (Shows => Shows')
  BY <1>7, OrdersAnsweredKeeps
<1>8. ASSUME NEW p \in Polls, ApplyOrderRows(p) PROVE LiveInv' /\ (Roomy /\ Shows => Shows')
  BY <1>8, ApplyOrderRowsKeeps
<1>9. ASSUME NEW o \in Orders, OrderChanges(o) \/ CallerHears(o) PROVE LiveInv' /\ (Shows => Shows')
  BY <1>9, OrderChangesKeeps, CallerHearsKeeps
<1>10. CASE UNCHANGED liveVars
  <2>1. Aside /\ UNCHANGED <<stage, later, outdated, doubtful, ready, link>>
    BY <1>10 DEF liveVars, Aside
  <2>2. ready' \in BOOLEAN
    BY <2>1 DEF LiveInv, LiveShape
  <2> QED BY <2>1, <2>2, WatchMovesKeeps
<1> QED BY <1>1, <1>2, <1>3, <1>4, <1>5, <1>6, <1>7, <1>8, <1>9, <1>10 DEF LiveNext

\* A snapshot, however late it is applied, never replaces a row of the cache of live orders by
\* an older state of the order (NotRolledBack of applyOrderRows).
THEOREM SnapshotsForward == LiveSpec => SnapshotsMoveForward
<1> DEFINE Forward == \A p \in Polls : stage[p] = "answered" /\ stage'[p] = "trades" => \A o \in Orders : rows[o] <= rows'[o]
<1>1. LiveInit => LiveInv
  BY LiveBegins
<1>2. LiveInv /\ [LiveNext]_liveVars => LiveInv'
  BY LiveStep
<1>3. LiveInv /\ [LiveNext]_liveVars => [Forward]_liveVars
  <2> SUFFICES ASSUME LiveInv, LiveNext, NEW p \in Polls, stage[p] = "answered", stage'[p] = "trades"
               PROVE  \A o \in Orders : rows[o] <= rows'[o]
    OBVIOUS
  <2>1. \E q \in Polls : ApplyOrderRows(q)
    BY PollsAre DEF LiveNext, TimerPoll, StreamPrimes, PollBegins, ReadMessage, StreamBreaks, CancelWatch, Disconnected,
        CacheExpires, WatchTradingEvents, WatchReturns, FetchOrderRows, OrdersAnswered, OrdersFail, PollTrades,
        StreamOpens, OrderChanges, CallerHears, LiveInv, LiveShape
  <2> QED BY <2>1, SnapshotForward
<1> QED BY <1>1, <1>2, <1>3, PTL DEF LiveSpec, SnapshotsMoveForward

\* After invalidateOrderCache a list does not show an older state of an order than a caller was
\* news of, except in the races that OnlyRacesHide names, where the cache has room for the orders.
THEOREM RacesAloneHide == ASSUME Roomy PROVE LiveSpec => []OnlyRacesHide
<1>1. LiveInit => LiveInv /\ Shows
  BY LiveBegins
<1>2. LiveInv /\ Shows /\ [LiveNext]_liveVars => (LiveInv /\ Shows)'
  BY LiveStep
<1>3. LiveInv /\ Shows => OnlyRacesHide
  <2> SUFFICES ASSUME LiveInv, Shows, ~doubtful, NEW o \in Orders
               PROVE  \/ Listed(o) >= known[o]
                      \/ \E i \in DOMAIN unread : unread[i].topic = "sor" /\ unread[i].order = o /\ unread[i].change >= known[o]
    BY DEF OnlyRacesHide
  <2>1. DOMAIN unread = 1..Len(unread)
    BY DEF LiveInv, LiveShape
  <2>2. CASE ready
    BY <2>1, <2>2 DEF Shows, Shown, Pending, Listed
  <2>3. CASE ~ready
    BY <2>3 DEF LiveInv, Backed, Listed, LiveShape
  <2> QED BY <2>2, <2>3
<1> QED BY <1>1, <1>2, <1>3, PTL DEF LiveSpec
=============================================================================
