---------------------------- MODULE OrderPromise ----------------------------
(***************************************************************************)
(* What every order adapter promises to a user who submits an order under  *)
(* a client_order_id, with no mention of handlers, previews, questions,    *)
(* lost answers or the mutexes between them: a session writes the order at *)
(* most once, says how it ended only when that is so and can no longer     *)
(* change, and never says anything else of it.  "Unknown" is always        *)
(* honest, and final too: it does not give leave to write again.           *)
(***************************************************************************)
EXTENDS Integers

CONSTANTS Ids, Sessions

VARIABLES
    present,    \* the session that serves the connection
    said,       \* said[i]: what it says of the order
    sent,       \* sent[s][i]: how often session s wrote the order
    fate        \* fate[s][i]: whether the order is on its way, at the broker, or will never be

pvars == <<present, said, sent, fate>>

Endings == {"accepted", "refused", "unknown"}

PInit ==
    /\ present = 1
    /\ said = [i \in Ids |-> "none"]
    /\ sent = [s \in Sessions |-> [i \in Ids |-> 0]]
    /\ fate = [s \in Sessions |-> [i \in Ids |-> "none"]]

\* Of this order, and of no other, the session now says something of V.
Says(i, V) == said'[i] \in V /\ said' = [said EXCEPT ![i] = said'[i]]

\* The session takes charge of the order.
Take(i) ==
    /\ said[i] = "none" /\ Says(i, {"open"})
    /\ UNCHANGED <<present, sent, fate>>

\* The order leaves the process, at most once and before anything was said of it.
Write(i) ==
    /\ sent[present][i] = 0 /\ sent' = [sent EXCEPT ![present][i] = 1]
    /\ said[i] \in {"none", "open"} /\ Says(i, {"open"})
    /\ fate' = [fate EXCEPT ![present][i] = "out"]
    /\ UNCHANGED present

\* The broker takes the order or never will.
Decide(s, i) ==
    /\ fate[s][i] = "out" /\ fate'[s][i] \in {"taken", "gone"}
    /\ fate' = [fate EXCEPT ![s][i] = fate'[s][i]]
    /\ UNCHANGED <<present, said, sent>>

\* Only what is so is said, and once.
Say(i) ==
    /\ said[i] = "open" /\ Says(i, Endings)
    /\ said'[i] = "accepted" => fate[present][i] = "taken"
    /\ said'[i] = "refused" => fate[present][i] \in {"none", "gone"}
    /\ UNCHANGED <<present, sent, fate>>

\* Another session knows nothing of the orders of this one, which go on.
Renew ==
    /\ present + 1 \in Sessions /\ present' = present + 1
    /\ said' = [i \in Ids |-> "none"]
    /\ UNCHANGED <<sent, fate>>

PNext ==
    \/ \E i \in Ids : Take(i) \/ Write(i) \/ Say(i)
    \/ \E s \in Sessions, i \in Ids : Decide(s, i)
    \/ Renew

PSpec == PInit /\ [][PNext]_pvars
=============================================================================
