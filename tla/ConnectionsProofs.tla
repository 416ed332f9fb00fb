------------------------- MODULE ConnectionsProofs --------------------------
(***************************************************************************)
(* The connection manager and the trading event workers, proved for any    *)
(* number of connections, sessions, callers and administrators.            *)
(*                                                                         *)
(* A Reload moves through its steps with three maps of sessions: what it   *)
(* built, what it replaces and what the routes lead to.  Shape says which  *)
(* of them agree at each step; Lives, that what they lead to is open until *)
(* Close; Holding, that what a caller holds is still routed, because the   *)
(* write side of the lock waits for it; Applied, that between the reading  *)
(* of a row and its use only a request that will reload again, or a token, *)
(* can have changed it.                                                    *)
(***************************************************************************)
EXTENDS Connections, TLAPS

Reading == {"load", "wantB"}
Swapping == {"wantMd", "wantTr"}
Closing == {"close", "await"}

\* Which session maps agree at each step of Reload.
Shape ==
    /\ step # "load" => todo = {}
    /\ \A c \in Conns :
        /\ sessions[c] # NoSession => ConnOf[sessions[c]] = c
        /\ built[c] # NoSession => ConnOf[built[c]] = c
        /\ previous[c] # NoSession => ConnOf[previous[c]] = c
        /\ step = "off" => built[c] = NoSession
        /\ step \in {"off"} \cup Reading =>
              previous[c] = NoSession /\ quotes[c] = sessions[c] /\ traders[c] \in {sessions[c], NoSession}
        /\ step \in Swapping \cup Closing => sessions[c] = built[c]
        /\ step = "wantMd" => quotes[c] = previous[c]
        /\ step \in {"wantTr"} \cup Closing => quotes[c] = built[c]
        /\ step \in Swapping => traders[c] \in {previous[c], NoSession}
        /\ step \in Closing => traders[c] \in {built[c], NoSession}
        /\ step \in Closing /\ c \in leaving => previous[c] # NoSession /\ c \notin reused
        /\ step = "load" /\ c \in todo => built[c] = NoSession /\ c \notin reused
        /\ step \in Reading /\ c \in reused => built[c] = sessions[c] /\ sessions[c] # NoSession
        /\ step \in Reading /\ c \notin reused /\ built[c] # NoSession => built[c] # sessions[c]
        /\ step \in Swapping \cup Closing /\ c \in reused => built[c] = previous[c]
        /\ step \in Swapping \cup Closing /\ c \notin reused /\ built[c] # NoSession =>
              built[c] # previous[c]

\* What the maps lead to is open, except what Reload has closed.
Lives ==
    \A c \in Conns :
        /\ sessions[c] # NoSession => life[sessions[c]] = "open"
        /\ built[c] # NoSession => life[built[c]] = "open"
        /\ previous[c] # NoSession /\ (step \in Swapping \/ c \in leaving) => life[previous[c]] = "open"
        /\ previous[c] # NoSession /\ step \in Closing /\ c \notin reused /\ c \notin leaving =>
              life[previous[c]] = "closed"

\* The workers watch sessions of their connections that were routed once, so not those that
\* a Reload has opened and not installed.
Watchers ==
    \A c \in Watched :
        /\ work[c] = "none" <=> worker[c] = NoSession
        /\ worker[c] # NoSession => ConnOf[worker[c]] = c /\ life[worker[c]] # "unborn"
        /\ current[c] # NoSession => ConnOf[current[c]] = c /\ life[current[c]] # "unborn"
        /\ step \in Reading /\ c \notin reused /\ built[c] # NoSession =>
              worker[c] # built[c] /\ current[c] # built[c]

\* A caller holds what its route leads to.
Holding ==
    \A k \in Callers :
        /\ call[k] = "idle" => held[k] = NoSession
        /\ call[k] = "lease" => \E c \in Conns : held[k] = sessions[c]
        /\ call[k] = "quote" => \E c \in Conns : held[k] = quotes[c]
        /\ call[k] = "order" => \E c \in Conns : held[k] = traders[c]

\* reloadMu.
Locking ==
    /\ step = "off" <=> reloader = NoAdmin
    /\ \A a \in Admins : admin[a] = "reloading" <=> reloader = a

\* A session is used with the configuration it was opened with.
Origins ==
    \A c \in Conns :
        /\ sessions[c] # NoSession => from[sessions[c]] = using[c]
        /\ built[c] # NoSession => from[built[c]] = builtFrom[c]

\* When nobody is about to reload, the rows are those read by this Reload or used since the last.
Applied ==
    (\A a \in Admins : admin[a] # "saved") =>
        /\ step \in Reading => \A c \in Conns : c \in enabled <=> c \in todo \/ built[c] # NoSession
        /\ \A c \in Conns \ owed :
            /\ step \in Reading /\ built[c] # NoSession => builtFrom[c] = conf[c]
            /\ step \notin Reading =>
                  /\ c \in enabled <=> sessions[c] # NoSession
                  /\ c \in enabled => using[c] = conf[c]

\* The inductive invariant.
ConnInv ==
    /\ TypeOK /\ Shape /\ Lives /\ Watchers /\ Holding /\ Locking /\ Origins /\ Applied
    /\ OpenIsOwned /\ WatchedIsOpen /\ StoppedIsQuiet

LEMMA ConnStart == Init => ConnInv
<1> SUFFICES ASSUME Init PROVE ConnInv
  OBVIOUS
<1> USE ConnectionsAssumption DEF Init, None
<1>1. TypeOK
  BY DEF TypeOK, Steps, AdminStates, Serving
<1>2. \A c \in Conns : Boot[c] # NoSession => ConnOf[Boot[c]] = c /\ Boot[c] \in Sessions
  OBVIOUS
<1>3. Shape
  BY <1>2 DEF Shape, Reading, Swapping, Closing
<1>4. Lives /\ Origins
  BY <1>2 DEF Lives, Origins, Swapping, Closing
<1>5. Watchers /\ Holding /\ Locking
  BY DEF Watchers, Holding, Locking
<1>6. Applied
  BY DEF Applied, Serving, Reading
<1>7. OpenIsOwned /\ WatchedIsOpen /\ StoppedIsQuiet
  BY DEF OpenIsOwned, WatchedIsOpen, Watching, StoppedIsQuiet
<1> QED BY <1>1, <1>3, <1>4, <1>5, <1>6, <1>7 DEF ConnInv

-----------------------------------------------------------------------------
\* Every step keeps the types.
LEMMA ConnTypes == ASSUME ConnInv, Next PROVE TypeOK'
<1> USE ConnectionsAssumption
<1>0. TypeOK
  BY DEF ConnInv
<1> USE <1>0
<1>a. /\ {"off", "load", "wantB", "wantMd", "wantTr", "close", "await"} = Steps
      /\ {"idle", "saved", "reloading", "loaded", "sources", "listed", "accounts"} = AdminStates
      /\ None \in [Conns -> Sessions \cup {NoSession}]
      /\ Watched \subseteq Conns
  BY DEF Steps, AdminStates, None
<1>1. ASSUME NEW a \in Admins, SaveConnection(a) PROVE TypeOK'
  BY <1>1, <1>a DEF SaveConnection, store, routes, listed, callers, locals, events, notEvents,
     TypeOK
<1>2. ASSUME PersistSchwabToken PROVE TypeOK'
  BY <1>2, <1>a DEF PersistSchwabToken, store, routes, listed, callers, locals, events, notEvents,
     TypeOK
<1>3. ASSUME ApplySyncConfig PROVE TypeOK'
  BY <1>3, <1>a DEF ApplySyncConfig, store, routes, listed, callers, locals, events, notEvents,
     TypeOK
<1>4. ASSUME NEW a \in Admins, ReloadBegin(a) PROVE TypeOK'
  BY <1>4, <1>a DEF ReloadBegin, store, routes, listed, callers, locals, events, notEvents, TypeOK
<1>5. ASSUME NEW c \in Conns, LoadConnection(c) PROVE TypeOK'
  <2>1. PICK s \in Sessions \cup {NoSession} :
            /\ built' = [built EXCEPT ![c] = s]
            /\ life' = life \/ (s \in Sessions /\ life' = [life EXCEPT ![s] = "open"])
            /\ from' = from \/ (s \in Sessions /\ from' = [from EXCEPT ![s] = conf[c]])
            /\ reused' \in {reused, reused \cup {c}}
    BY <1>5 DEF LoadConnection, TypeOK
  <2>2. /\ life' \in [Sessions -> {"unborn", "open", "closed"}]
        /\ from' \in [Sessions -> Configs]
        /\ built' \in [Conns -> Sessions \cup {NoSession}]
        /\ reused' \subseteq Conns
    BY <2>1 DEF TypeOK
  <2>3. /\ todo' \subseteq Conns /\ owed' \subseteq Conns
        /\ builtFrom' \in [Conns -> Configs]
    BY <1>5 DEF LoadConnection, TypeOK
  <2> QED
    BY <1>5, <2>2, <2>3 DEF LoadConnection, store, routes, listed, callers, events, TypeOK
<1>6. ASSUME ReloadFails PROVE TypeOK'
  <2>1. life' \in [Sessions -> {"unborn", "open", "closed"}]
    BY <1>6 DEF ReloadFails, Closed, TypeOK
  <2>2. admin' \in [Admins -> AdminStates]
    BY <1>6, <1>a DEF ReloadFails, TypeOK
  <2> QED
    BY <1>6, <1>a, <2>1, <2>2 DEF ReloadFails, store, routes, listed, callers, events, TypeOK
<1>7. ASSUME AnnounceSwap PROVE TypeOK'
  BY <1>7, <1>a DEF AnnounceSwap, store, routes, listed, callers, locals, events, notEvents, TypeOK
<1>8. ASSUME SwapSessions PROVE TypeOK'
  BY <1>8, <1>a DEF SwapSessions, store, routes, listed, callers, locals, events, notEvents, TypeOK
<1>9. ASSUME MarketDataReplace PROVE TypeOK'
  BY <1>9, <1>a DEF MarketDataReplace, store, routes, listed, callers, locals, events, notEvents,
     TypeOK
<1>10. ASSUME TradingReplace PROVE TypeOK'
  BY <1>10, <1>a DEF TradingReplace, Replaced, store, routes, listed, callers, locals, events,
     notEvents, TypeOK
<1>11. ASSUME NEW c \in Conns, CloseReplaced(c) PROVE TypeOK'
  BY <1>11, <1>a DEF CloseReplaced, store, routes, listed, callers, locals, events, notEvents,
     TypeOK
<1>12. ASSUME CloseDone PROVE TypeOK'
  BY <1>12, <1>a DEF CloseDone, store, routes, listed, callers, locals, events, notEvents, TypeOK
<1>13. ASSUME CloseGivesUp PROVE TypeOK'
  <2>1. admin' \in [Admins -> AdminStates]
    BY <1>13, <1>a DEF CloseGivesUp, TypeOK
  <2>2. \A c \in leaving : previous[c] \in Sessions
    BY <1>13 DEF CloseGivesUp, ConnInv, Shape, Closing, TypeOK
  <2>3. \A c \in Watched : UnderClose(c) => worker[c] \in Sessions
    BY DEF UnderClose, Watching, ConnInv, Watchers, TypeOK
  <2>4. abandoned' \subseteq Sessions
    BY <1>13, <2>2, <2>3 DEF CloseGivesUp, TypeOK
  <2> QED
    BY <1>13, <1>a, <2>1, <2>4 DEF CloseGivesUp, store, routes, listed, callers, events, TypeOK
<1>14. ASSUME ReloadReturns PROVE TypeOK'
  BY <1>14, <1>a DEF ReloadReturns, store, routes, listed, callers, locals, events, notEvents,
     TypeOK
<1>15. ASSUME NEW a \in Admins, ReadSources(a) PROVE TypeOK'
  BY <1>15, <1>a DEF ReadSources, Serving, store, routes, listed, callers, locals, events,
     notEvents, TypeOK
<1>16. ASSUME NEW a \in Admins, SetSources(a) PROVE TypeOK'
  BY <1>16, <1>a DEF SetSources, store, routes, listed, callers, locals, events, notEvents, TypeOK
<1>17. ASSUME NEW k \in Callers, Begin(k) PROVE TypeOK'
  BY <1>17, <1>a DEF Begin, AcquireSession, GetQuote, PlaceOrder, store, routes, listed, callers,
     locals, events, notEvents, TypeOK
<1>18. ASSUME NEW k \in Callers, Release(k) PROVE TypeOK'
  BY <1>18, <1>a DEF Release, store, routes, listed, callers, locals, events, notEvents, TypeOK
<1>19. ASSUME SupervisorReads PROVE TypeOK'
  BY <1>19, <1>a DEF SupervisorReads, store, routes, listed, callers, locals, events, notEvents,
     TypeOK
<1>20. ASSUME NEW c \in Watched, CancelWorker(c) PROVE TypeOK'
  BY <1>20, <1>a DEF CancelWorker, store, routes, listed, callers, locals, events, notEvents, TypeOK
<1>21. ASSUME NEW c \in Watched, ReapWorker(c) PROVE TypeOK'
  BY <1>21, <1>a DEF ReapWorker, store, routes, listed, callers, locals, events, notEvents, TypeOK
<1>22. ASSUME StartWorkers PROVE TypeOK'
  BY <1>22, <1>a DEF StartWorkers, store, routes, listed, callers, locals, events, notEvents, TypeOK
<1>23. ASSUME SupervisorStops PROVE TypeOK'
  BY <1>23, <1>a DEF SupervisorStops, store, routes, listed, callers, locals, events, notEvents,
     TypeOK
<1>24. ASSUME SupervisorReturns PROVE TypeOK'
  BY <1>24, <1>a DEF SupervisorReturns, store, routes, listed, callers, locals, events, notEvents,
     TypeOK
<1>25. ASSUME StopTradingEvents PROVE TypeOK'
  BY <1>25, <1>a DEF StopTradingEvents, store, routes, listed, callers, locals, events, notEvents,
     TypeOK
<1>26. ASSUME NEW c \in Watched, WatchTradingEvents(c) PROVE TypeOK'
  BY <1>26, <1>a DEF WatchTradingEvents, store, routes, listed, callers, locals, events, notEvents,
     TypeOK
<1>27. ASSUME NEW c \in Watched, EventArrives(c) PROVE TypeOK'
  BY <1>27, <1>a DEF EventArrives, store, routes, listed, callers, locals, events, notEvents, TypeOK
<1>28. ASSUME NEW c \in Watched, EmitEvent(c) PROVE TypeOK'
  BY <1>28, <1>a DEF EmitEvent, store, routes, listed, callers, locals, events, notEvents, TypeOK
<1>29. ASSUME NEW c \in Watched, WatchReturns(c) PROVE TypeOK'
  BY <1>29, <1>a DEF WatchReturns, store, routes, listed, callers, locals, events, notEvents, TypeOK
<1>30. ASSUME RefreshPending PROVE TypeOK'
  BY <1>30, <1>a DEF RefreshPending, store, routes, listed, callers, locals, events, notEvents,
     TypeOK
<1> QED
  BY <1>1, <1>2, <1>3, <1>4, <1>5, <1>6, <1>7, <1>8, <1>9, <1>10, <1>11, <1>12, <1>13, <1>14,
     <1>15, <1>16, <1>17, <1>18, <1>19, <1>20, <1>21, <1>22, <1>23, <1>24, <1>25, <1>26, <1>27,
     <1>28, <1>29, <1>30
  DEF Next, AdminStep, Reload, Supervise, WorkerStep

\* What only concerns the events and their workers leaves the rest of the invariant alone.
LEMMA EventsApart ==
    ASSUME ConnInv, UNCHANGED <<store, life, from, routes, listed, callers, admin, seen, reloader, step,
                                locals, owed, abandoned>>
    PROVE  (Shape /\ Lives /\ Holding /\ Locking /\ Origins /\ Applied /\ OpenIsOwned)'
<1> USE DEF ConnInv, store, routes, callers, locals
<1>1. Shape'
  BY DEF Shape
<1>2. Lives'
  BY DEF Lives
<1>3. Holding' /\ Locking' /\ Origins'
  BY DEF Holding, Locking, Origins
<1>4. Applied'
  BY DEF Applied
<1>5. OpenIsOwned'
  BY DEF OpenIsOwned
<1> QED BY <1>1, <1>2, <1>3, <1>4, <1>5

\* The supervisor and its workers.
LEMMA WorkersStep ==
    ASSUME ConnInv, TypeOK', Supervise \/ StopTradingEvents \/ ApplySyncConfig \/ RefreshPending
                             \/ \E c \in Watched : WorkerStep(c) \/ EventArrives(c)
    PROVE  ConnInv'
<1> USE ConnectionsAssumption DEF ConnInv
<1>1. UNCHANGED <<store, life, from, routes, listed, callers, admin, seen, reloader, step, locals, owed,
                  abandoned>>
  BY DEF Supervise, SupervisorReads, CancelWorker, ReapWorker, StartWorkers, SupervisorStops,
     SupervisorReturns, StopTradingEvents, ApplySyncConfig, RefreshPending, WorkerStep,
     WatchTradingEvents, EmitEvent, WatchReturns, EventArrives, notEvents
<1>2. (Shape /\ Lives /\ Holding /\ Locking /\ Origins /\ Applied /\ OpenIsOwned)'
  BY <1>1, EventsApart
<1>3. SUFFICES (Watchers /\ WatchedIsOpen /\ StoppedIsQuiet)'
  BY <1>2
<1>4. UNCHANGED <<life, sessions, built, reused, previous, step, abandoned>>
  BY <1>1 DEF routes, locals
<1>5. CASE UNCHANGED <<current, worker, work, sup>>
  BY <1>4, <1>5 DEF Watchers, WatchedIsOpen, Watching, StoppedIsQuiet, AllWorkersDone
<1>6. CASE SupervisorReads
  <2>1. \A c \in Watched : current'[c] \in {sessions[c], NoSession}
    BY <1>6 DEF SupervisorReads
  <2>2. \A c \in Watched : sessions[c] # NoSession => ConnOf[sessions[c]] = c /\ life[sessions[c]] = "open"
    BY DEF Shape, Lives
  <2>3. \A c \in Watched : step \in Reading /\ c \notin reused /\ built[c] # NoSession =>
            built[c] # sessions[c]
    BY DEF Shape
  <2>4. UNCHANGED <<worker, work>> /\ sup' = "sweep"
    BY <1>6 DEF SupervisorReads
  <2>5. Watchers'
    BY <1>4, <2>1, <2>2, <2>3, <2>4 DEF Watchers
  <2> QED BY <1>4, <2>4, <2>5 DEF WatchedIsOpen, Watching, StoppedIsQuiet
<1>7. ASSUME NEW c \in Watched, ReapWorker(c) PROVE (Watchers /\ WatchedIsOpen /\ StoppedIsQuiet)'
  BY <1>4, <1>7 DEF ReapWorker, TypeOK, Watchers, WatchedIsOpen, Watching, StoppedIsQuiet
<1>8. CASE StartWorkers
  <2>1. \A c \in Watched :
            \/ worker'[c] = worker[c] /\ work'[c] = work[c]
            \/ worker[c] = NoSession /\ worker'[c] = current[c] /\ current[c] # NoSession /\ work'[c] = "start"
    BY <1>8 DEF StartWorkers, Watchers
  <2>2. UNCHANGED current /\ sup' = "tick"
    BY <1>8 DEF StartWorkers
  <2>3. Watchers'
    BY <1>4, <2>1, <2>2 DEF Watchers
  <2>4. WatchedIsOpen'
    BY <1>4, <2>1 DEF WatchedIsOpen, Watching
  <2> QED BY <2>2, <2>3, <2>4 DEF StoppedIsQuiet
<1>9. ASSUME NEW c \in Watched, WatchTradingEvents(c) \/ EventArrives(c) \/ EmitEvent(c) \/ WatchReturns(c)
      PROVE (Watchers /\ WatchedIsOpen /\ StoppedIsQuiet)'
  <2>1. /\ work[c] \in {"start", "watching", "emitting"}
        /\ \E w \in {"watching", "emitting", "ended"} :
              work' = [work EXCEPT ![c] = w] /\ (w # "ended" => Watching(c) \/ life[worker[c]] # "closed")
        /\ UNCHANGED <<sup, current, worker>>
    BY <1>9 DEF WatchTradingEvents, Watchable, EventArrives, EmitEvent, WatchReturns, Watching
  <2>2. sup # "stopped"
    BY <2>1 DEF StoppedIsQuiet, AllWorkersDone
  <2>3. Watchers'
    BY <1>4, <2>1 DEF Watchers, TypeOK
  <2>4. life[worker[c]] # "closed" => life[worker[c]] = "open"
    BY <2>1 DEF Watchers, TypeOK
  <2>5. WatchedIsOpen'
    BY <1>4, <2>1, <2>4 DEF WatchedIsOpen, Watching, TypeOK
  <2> QED BY <2>1, <2>2, <2>3, <2>5 DEF StoppedIsQuiet
<1>10. CASE SupervisorReturns
  BY <1>4, <1>10 DEF SupervisorReturns, Watchers, WatchedIsOpen, Watching, StoppedIsQuiet, AllWorkersDone
<1>11. CASE SupervisorStops
  BY <1>4, <1>11 DEF SupervisorStops, Watchers, WatchedIsOpen, Watching, StoppedIsQuiet
<1>12. ASSUME NEW c \in Watched, CancelWorker(c) PROVE UNCHANGED <<current, worker, work, sup>>
  BY <1>12 DEF CancelWorker
<1>13. CASE StopTradingEvents \/ ApplySyncConfig \/ RefreshPending
  BY <1>5, <1>13 DEF StopTradingEvents, ApplySyncConfig, RefreshPending
<1> QED
  BY <1>5, <1>6, <1>7, <1>8, <1>9, <1>10, <1>11, <1>12, <1>13 DEF Supervise, WorkerStep

\* Saves, tokens, the reading and setting of sources, and the operations of callers.
LEMMA RequestsStep ==
    ASSUME ConnInv, TypeOK',
           \/ PersistSchwabToken
           \/ \E a \in Admins : SaveConnection(a) \/ ReadSources(a) \/ SetSources(a)
           \/ \E k \in Callers : Begin(k) \/ Release(k)
    PROVE  ConnInv'
<1> USE ConnectionsAssumption DEF ConnInv
<1>1. UNCHANGED <<life, from, sessions, using, quotes, traders, reloader, step, todo, built, builtFrom,
                  reused, previous, leaving, sup, current, worker, work, abandoned>>
  BY DEF PersistSchwabToken, SaveConnection, ReadSources, SetSources, Begin, Release, routes, locals, events
<1>2. Shape' /\ Origins'
  BY <1>1 DEF Shape, Origins
<1>3. Lives' /\ Watchers'
  BY <1>1 DEF Lives, Watchers
<1>4. OpenIsOwned' /\ WatchedIsOpen' /\ StoppedIsQuiet'
  BY <1>1 DEF OpenIsOwned, WatchedIsOpen, Watching, StoppedIsQuiet, AllWorkersDone
<1>5. SUFFICES (Holding /\ Locking /\ Applied)'
  BY <1>2, <1>3, <1>4
<1>6. CASE PersistSchwabToken
  <2>1. UNCHANGED <<enabled, admin, call, held>>
    BY <1>6 DEF PersistSchwabToken, callers
  <2>2. PICK c \in Conns, v \in Configs : conf' = [conf EXCEPT ![c] = v] /\ owed' = owed \cup {c}
    BY <1>6 DEF PersistSchwabToken
  <2>3. Applied'
    BY <1>1, <2>1, <2>2 DEF Applied, TypeOK
  <2> QED BY <1>1, <2>1, <2>3 DEF Holding, Locking
<1>7. ASSUME NEW a \in Admins, SaveConnection(a) PROVE (Holding /\ Locking /\ Applied)'
  <2>1. admin[a] = "idle" /\ admin' = [admin EXCEPT ![a] = "saved"] /\ UNCHANGED <<call, held>>
    BY <1>7 DEF SaveConnection, callers
  <2>2. admin'[a] = "saved"
    BY <2>1 DEF TypeOK
  <2>3. Locking'
    BY <1>1, <2>1 DEF Locking, TypeOK
  <2> QED BY <1>1, <2>1, <2>2, <2>3 DEF Holding, Applied
<1>8. ASSUME NEW a \in Admins, ReadSources(a) \/ SetSources(a) PROVE (Holding /\ Locking /\ Applied)'
  <2>1. /\ admin[a] \notin {"saved", "reloading"}
        /\ \E v \in {"sources", "accounts", "listed", "idle"} : admin' = [admin EXCEPT ![a] = v]
        /\ UNCHANGED <<enabled, conf, owed, call, held>>
    BY <1>8 DEF ReadSources, SetSources, store, callers
  <2>2. Locking'
    BY <1>1, <2>1 DEF Locking, TypeOK
  <2>3. \A b \in Admins : admin'[b] # "saved" => admin[b] # "saved"
    BY <2>1 DEF TypeOK
  <2>4. Applied'
    BY <1>1, <2>1, <2>3 DEF Applied
  <2> QED BY <1>1, <2>1, <2>2, <2>4 DEF Holding
<1>9. ASSUME NEW k \in Callers, Begin(k) \/ Release(k) PROVE (Holding /\ Locking /\ Applied)'
  <2>1. UNCHANGED <<enabled, conf, owed, admin>>
    BY <1>9 DEF Begin, Release, store
  <2>2. \E w \in {"idle", "lease", "quote", "order"}, s \in Sessions \cup {NoSession} :
            /\ call' = [call EXCEPT ![k] = w] /\ held' = [held EXCEPT ![k] = s]
            /\ w = "idle" => s = NoSession
            /\ w = "lease" => \E c \in Conns : s = sessions[c]
            /\ w = "quote" => \E c \in Conns : s = quotes[c]
            /\ w = "order" => \E c \in Conns : s = traders[c]
    BY <1>9 DEF Begin, Release, AcquireSession, GetQuote, PlaceOrder, TypeOK
  <2>3. Holding'
    BY <1>1, <2>2 DEF Holding, TypeOK
  <2> QED BY <1>1, <2>1, <2>3 DEF Locking, Applied
<1> QED BY <1>6, <1>7, <1>8, <1>9

-----------------------------------------------------------------------------
\* reloadMu is taken, and the rows are still to be read.
LEMMA ReloadBeginStep == ASSUME ConnInv, TypeOK', NEW a \in Admins, ReloadBegin(a) PROVE ConnInv'
<1> USE ConnectionsAssumption DEF ConnInv
<1>1. /\ step = "off" /\ step' = "load" /\ reloader = NoAdmin /\ reloader' = a
      /\ admin[a] = "saved" /\ admin' = [admin EXCEPT ![a] = "reloading"]
      /\ todo' = enabled /\ built' = None /\ reused' = {} /\ owed' = owed \ (Conns \ enabled)
      /\ UNCHANGED <<enabled, conf, life, from, sessions, using, quotes, traders, builtFrom, previous,
                     leaving, sup, current, worker, work, abandoned, call, held>>
  BY DEF ReloadBegin, Locking, store, routes, events, callers
<1>2. \A c \in Conns : built'[c] = NoSession
  BY <1>1 DEF None
<1>3. Shape'
  BY <1>1, <1>2 DEF Shape, Reading, Swapping, Closing
<1>4. Lives'
  BY <1>1, <1>2 DEF Lives, Shape, Reading, Swapping, Closing
<1>5. Watchers'
  BY <1>1, <1>2 DEF Watchers, TypeOK
<1>6. Holding' /\ Origins'
  BY <1>1, <1>2 DEF Holding, Origins
<1>7. Locking'
  BY <1>1 DEF Locking, TypeOK
<1>8. Applied'
  BY <1>1, <1>2 DEF Applied, Reading
<1>9. OpenIsOwned'
  BY <1>1, <1>2 DEF OpenIsOwned, Shape, TypeOK
<1>10. WatchedIsOpen' /\ StoppedIsQuiet'
  BY <1>1 DEF WatchedIsOpen, Watching, StoppedIsQuiet, AllWorkersDone
<1> QED BY <1>3, <1>4, <1>5, <1>6, <1>7, <1>8, <1>9, <1>10

\* A row is read: its session is reused, or another is opened with what was read.
LEMMA LoadConnectionStep == ASSUME ConnInv, TypeOK', NEW c \in Conns, LoadConnection(c) PROVE ConnInv'
<1> USE ConnectionsAssumption DEF ConnInv
<1>1. /\ step = "load" /\ c \in todo /\ todo' = todo \ {c}
      /\ builtFrom' = [builtFrom EXCEPT ![c] = conf[c]] /\ owed' = owed \ {c}
      /\ UNCHANGED <<enabled, conf, sessions, using, quotes, traders, reloader, step, admin, previous,
                     leaving, sup, current, worker, work, abandoned, call, held>>
  BY DEF LoadConnection, store, routes, events, callers
<1>2. PICK s \in Sessions :
        /\ built' = [built EXCEPT ![c] = s]
        /\ ConnOf[s] = c
        /\ \/ /\ s = sessions[c] /\ using[c] = conf[c] /\ reused' = reused \cup {c}
              /\ UNCHANGED <<life, from>>
           \/ /\ life[s] = "unborn" /\ life' = [life EXCEPT ![s] = "open"]
              /\ from' = [from EXCEPT ![s] = conf[c]] /\ UNCHANGED reused
  BY DEF LoadConnection, Reusable, Shape, TypeOK
<1>3. /\ built'[c] = s /\ s # NoSession /\ life'[s] = "open" /\ from'[s] = conf[c]
      /\ \A d \in Conns \ {c} : built'[d] = built[d] /\ (d \in reused' <=> d \in reused)
      /\ \A r \in Sessions : life[r] # "unborn" => life'[r] = life[r] /\ from'[r] = from[r]
  BY <1>2 DEF Lives, Origins, TypeOK
<1>4. built[c] = NoSession /\ c \notin reused /\ \A d \in Conns : previous[d] = NoSession
  BY <1>1 DEF Shape, Reading
<1>5. Shape'
  <2>1. c \notin reused' => s # sessions[c]
    BY <1>2 DEF Lives
  <2>2. c \in reused' => s = sessions[c]
    BY <1>2, <1>4
  <2> QED BY <1>1, <1>2, <1>3, <1>4, <2>1, <2>2 DEF Shape, Reading, Swapping, Closing
<1>6. Lives'
  BY <1>1, <1>3, <1>4 DEF Lives, TypeOK
<1>7. Watchers'
  <2> SUFFICES ASSUME NEW d \in Watched
               PROVE  /\ work[d] = "none" <=> worker[d] = NoSession
                      /\ worker[d] # NoSession => ConnOf[worker[d]] = d /\ life'[worker[d]] # "unborn"
                      /\ current[d] # NoSession => ConnOf[current[d]] = d /\ life'[current[d]] # "unborn"
                      /\ d \notin reused' /\ built'[d] # NoSession => worker[d] # built'[d] /\ current[d] # built'[d]
    BY <1>1 DEF Watchers
  <2>1. /\ worker[d] # NoSession => worker[d] \in Sessions /\ life[worker[d]] # "unborn"
        /\ current[d] # NoSession => current[d] \in Sessions /\ life[current[d]] # "unborn"
    BY DEF Watchers, TypeOK
  <2>2. c \notin reused' => worker[d] # s /\ current[d] # s
    BY <1>2, <1>3, <2>1
  <2>3. CASE d = c
    BY <1>3, <2>1, <2>2, <2>3 DEF Watchers
  <2>4. CASE d # c
    BY <1>1, <1>3, <2>1, <2>4 DEF Watchers, Reading
  <2> QED BY <2>3, <2>4
<1>8. Holding' /\ Locking'
  BY <1>1 DEF Holding, Locking
<1>9. Origins'
  <2>1. \A d \in Conns : sessions[d] # NoSession => from'[sessions[d]] = using[d]
    BY <1>3 DEF Origins, Lives, TypeOK
  <2>2. \A d \in Conns : built'[d] # NoSession => from'[built'[d]] = builtFrom'[d]
    BY <1>1, <1>3 DEF Origins, Lives, TypeOK
  <2> QED BY <1>1, <2>1, <2>2 DEF Origins
<1>10. Applied'
  BY <1>1, <1>3 DEF Applied, Reading, TypeOK
<1>11. OpenIsOwned'
  BY <1>1, <1>2, <1>3, <1>4 DEF OpenIsOwned, TypeOK
<1>12. WatchedIsOpen' /\ StoppedIsQuiet'
  BY <1>1, <1>3 DEF WatchedIsOpen, Watching, StoppedIsQuiet, AllWorkersDone, Watchers, TypeOK
<1> QED BY <1>5, <1>6, <1>7, <1>8, <1>9, <1>10, <1>11, <1>12

\* A Reload that fails closes what it opened and nothing that is in use or watched.
LEMMA ReloadFailsStep == ASSUME ConnInv, TypeOK', ReloadFails PROVE ConnInv'
<1> USE ConnectionsAssumption DEF ConnInv
<1>1. /\ step = "load" /\ step' = "off" /\ reloader' = NoAdmin
      /\ admin' = [admin EXCEPT ![reloader] = "idle"]
      /\ built' = None /\ reused' = {} /\ todo' = {} /\ owed' = Conns
      /\ UNCHANGED <<enabled, conf, from, sessions, using, quotes, traders, builtFrom, previous,
                     leaving, sup, current, worker, work, abandoned, call, held>>
  BY DEF ReloadFails, store, routes, events, callers
<1>2. /\ \A c \in Conns : built'[c] = NoSession /\ previous[c] = NoSession
      /\ \A s \in Sessions : life'[s] = IF s \in Discarded THEN "closed" ELSE life[s]
  BY <1>1 DEF ReloadFails, Closed, None, Shape, Reading
<1>3. \A c \in Conns : sessions[c] # NoSession => sessions[c] \notin Discarded
  BY <1>1 DEF Discarded, Shape, Reading
<1>4. \A c \in Watched : /\ worker[c] # NoSession => worker[c] \notin Discarded
                         /\ current[c] # NoSession => current[c] \notin Discarded
  BY <1>1 DEF Discarded, Watchers, Reading
<1>5. Shape'
  BY <1>1, <1>2 DEF Shape, Reading, Swapping, Closing
<1>6. Lives'
  BY <1>1, <1>2, <1>3 DEF Lives, TypeOK
<1>7. Watchers'
  BY <1>1, <1>2, <1>4 DEF Watchers, Reading, TypeOK
<1>8. Holding' /\ Origins' /\ Applied'
  BY <1>1, <1>2 DEF Holding, Origins, Applied, Reading
<1>9. Locking'
  BY <1>1 DEF Locking, TypeOK
<1>10. OpenIsOwned'
  <2> SUFFICES ASSUME NEW s \in Sessions, life'[s] = "open", s \notin abandoned
               PROVE  s = sessions[ConnOf[s]]
    BY <1>1 DEF OpenIsOwned
  <2>1. s \notin Discarded /\ life[s] = "open" /\ ConnOf[s] \in Conns
    BY <1>2
  <2>2. CASE s = built[ConnOf[s]]
    BY <1>1, <2>1, <2>2 DEF Discarded, Shape, Reading
  <2> QED BY <1>2, <2>1, <2>2 DEF OpenIsOwned
<1>11. WatchedIsOpen' /\ StoppedIsQuiet'
  <2>1. \A c \in Watched : Watching(c) => worker[c] \in Sessions /\ life'[worker[c]] = life[worker[c]]
    <3> SUFFICES ASSUME NEW c \in Watched, Watching(c)
                 PROVE  worker[c] \in Sessions /\ life'[worker[c]] = life[worker[c]]
      OBVIOUS
    <3>1. worker[c] # NoSession /\ worker[c] \in Sessions
      BY DEF Watching, Watchers, TypeOK
    <3>2. worker[c] \notin Discarded
      BY <1>4, <3>1
    <3>3. \A s \in Sessions : s \notin Discarded => life'[s] = life[s]
      BY <1>2
    <3> QED BY <3>1, <3>2, <3>3
  <2>2. \A c \in Watched : Watching(c) => life[worker[c]] = "open" \/ worker[c] \in abandoned
    BY <1>1 DEF WatchedIsOpen
  <2>3. WatchedIsOpen'
    BY <1>1, <2>1, <2>2 DEF WatchedIsOpen, Watching
  <2> QED BY <1>1, <2>3 DEF StoppedIsQuiet, AllWorkersDone
<1> QED BY <1>5, <1>6, <1>7, <1>8, <1>9, <1>10, <1>11

\* The three swaps, each under the write side of its lock.
LEMMA SwapStep ==
    ASSUME ConnInv, TypeOK', AnnounceSwap \/ SwapSessions \/ MarketDataReplace \/ TradingReplace
    PROVE  ConnInv'
<1> USE ConnectionsAssumption DEF ConnInv
<1>1. UNCHANGED <<enabled, conf, life, from, call, held, admin, reloader, todo, built, builtFrom, reused,
                  sup, current, worker, work, owed, abandoned>>
  BY DEF AnnounceSwap, SwapSessions, MarketDataReplace, TradingReplace, store, locals, events, callers
<1>2. Locking'
  BY <1>1 DEF AnnounceSwap, SwapSessions, MarketDataReplace, TradingReplace, Locking
<1>3. StoppedIsQuiet' /\ WatchedIsOpen'
  BY <1>1 DEF AnnounceSwap, SwapSessions, MarketDataReplace, TradingReplace, StoppedIsQuiet,
     AllWorkersDone, WatchedIsOpen, Watching
<1>4. CASE AnnounceSwap
  <2>1. /\ step = "load" /\ step' = "wantB" /\ todo = {}
        /\ UNCHANGED <<sessions, using, quotes, traders, previous, leaving>>
    BY <1>4 DEF AnnounceSwap, routes, locals
  <2>2. Shape'
    BY <1>1, <2>1 DEF Shape, Reading, Swapping, Closing
  <2>3. Lives' /\ Origins' /\ OpenIsOwned' /\ Holding'
    BY <1>1, <2>1 DEF Lives, Swapping, Closing, Origins, OpenIsOwned, Holding
  <2>4. Watchers' /\ Applied'
    BY <1>1, <2>1 DEF Watchers, Applied, Reading
  <2> QED BY <1>2, <1>3, <2>2, <2>3, <2>4
<1>5. CASE SwapSessions
  <2>1. /\ step = "wantB" /\ step' = "wantMd" /\ \A k \in Callers : call[k] # "lease"
        /\ previous' = sessions /\ sessions' = built /\ using' = builtFrom
        /\ UNCHANGED <<quotes, traders, leaving>>
    BY <1>5 DEF SwapSessions
  <2>2. Shape'
    BY <1>1, <2>1 DEF Shape, Reading, Swapping, Closing
  <2>3. Lives' /\ Origins' /\ Holding'
    BY <1>1, <2>1 DEF Lives, Swapping, Closing, Origins, Holding
  <2>4. OpenIsOwned'
    BY <1>1, <2>1 DEF OpenIsOwned, Shape, Reading
  <2>5. Watchers'
    BY <1>1, <2>1 DEF Watchers, Reading
  <2>6. Applied'
    BY <1>1, <2>1 DEF Applied, Reading, Shape
  <2> QED BY <1>2, <1>3, <2>2, <2>3, <2>4, <2>5, <2>6
<1>6. CASE MarketDataReplace
  <2>1. /\ step = "wantMd" /\ step' = "wantTr" /\ \A k \in Callers : call[k] # "quote"
        /\ UNCHANGED <<sessions, using, traders, previous, leaving>>
    BY <1>6 DEF MarketDataReplace, locals
  <2>2. quotes' = built
    BY <1>6 DEF MarketDataReplace
  <2>3. Shape'
    BY <1>1, <2>1, <2>2 DEF Shape, Reading, Swapping, Closing
  <2>4. Lives' /\ Origins' /\ OpenIsOwned' /\ Holding'
    BY <1>1, <2>1 DEF Lives, Swapping, Closing, Origins, OpenIsOwned, Holding
  <2>5. Watchers' /\ Applied'
    BY <1>1, <2>1 DEF Watchers, Applied, Reading
  <2> QED BY <1>2, <1>3, <2>3, <2>4, <2>5
<1>7. CASE TradingReplace
  <2>1. /\ step = "wantTr" /\ step' = "close" /\ leaving' = Replaced
        /\ \A k \in Callers : call[k] # "order"
        /\ \A c \in Conns : traders'[c] \in {built[c], NoSession}
        /\ UNCHANGED <<sessions, using, quotes, previous>>
    BY <1>7 DEF TradingReplace
  <2>2. \A c \in Conns : c \in leaving' <=> previous[c] # NoSession /\ c \notin reused
    BY <2>1 DEF Replaced
  <2>3. Shape'
    BY <1>1, <2>1, <2>2 DEF Shape, Reading, Swapping, Closing
  <2>4. Lives' /\ Origins' /\ OpenIsOwned' /\ Holding'
    BY <1>1, <2>1, <2>2 DEF Lives, Swapping, Closing, Origins, OpenIsOwned, Holding
  <2>5. Watchers' /\ Applied'
    BY <1>1, <2>1 DEF Watchers, Applied, Reading
  <2> QED BY <1>2, <1>3, <2>3, <2>4, <2>5
<1> QED BY <1>4, <1>5, <1>6, <1>7

\* Close of a replaced session: nothing leads to it but its own watcher.
LEMMA CloseReplacedStep == ASSUME ConnInv, TypeOK', NEW c \in Conns, CloseReplaced(c) PROVE ConnInv'
<1> USE ConnectionsAssumption DEF ConnInv
<1>1. /\ step = "close" /\ step' = "await" /\ c \in leaving /\ leaving' = leaving \ {c}
      /\ life' = [life EXCEPT ![previous[c]] = "closed"]
      /\ UNCHANGED <<enabled, conf, from, sessions, using, quotes, traders, admin, reloader, todo, built,
                     builtFrom, reused, previous, sup, current, worker, work, owed, abandoned, call, held>>
  BY DEF CloseReplaced, store, routes, events, callers
<1>2. /\ c \notin reused /\ previous[c] \in Sessions /\ ConnOf[previous[c]] = c
      /\ built[c] # NoSession => built[c] # previous[c]
  BY <1>1 DEF Shape, Closing, TypeOK
<1>3. /\ life'[previous[c]] = "closed"
      /\ \A s \in Sessions : s # previous[c] => life'[s] = life[s]
  BY <1>1, <1>2 DEF TypeOK
<1>4. Shape'
  BY <1>1 DEF Shape, Reading, Swapping, Closing
<1>5. Lives'
  <2> SUFFICES ASSUME NEW d \in Conns
               PROVE  /\ sessions[d] # NoSession => life'[sessions[d]] = "open"
                      /\ built[d] # NoSession => life'[built[d]] = "open"
                      /\ previous[d] # NoSession /\ d \in leaving' => life'[previous[d]] = "open"
                      /\ previous[d] # NoSession /\ d \notin reused /\ d \notin leaving' =>
                            life'[previous[d]] = "closed"
    BY <1>1 DEF Lives, Swapping
  <2>1. sessions[d] = built[d]
    BY <1>1 DEF Shape, Closing
  <2>2. built[d] # NoSession => built[d] \in Sessions /\ built[d] # previous[c]
    BY <1>2 DEF Shape, TypeOK
  <2>3. previous[d] # NoSession => previous[d] \in Sessions /\ (d # c => previous[d] # previous[c])
    BY <1>2 DEF Shape, TypeOK
  <2>4. built[d] # NoSession => life'[built[d]] = "open"
    BY <1>3, <2>2 DEF Lives
  <2>5. CASE d = c
    BY <1>1, <1>3, <2>1, <2>4, <2>5
  <2>6. CASE d # c
    BY <1>1, <1>3, <2>1, <2>3, <2>4, <2>6 DEF Lives, Closing
  <2> QED BY <2>5, <2>6
<1>6. Watchers'
  BY <1>1, <1>3 DEF Watchers, Reading, TypeOK
<1>7. Holding' /\ Origins' /\ Locking'
  BY <1>1 DEF Holding, Origins, Locking
<1>8. Applied'
  BY <1>1 DEF Applied, Reading
<1>9. OpenIsOwned'
  BY <1>1, <1>3 DEF OpenIsOwned
<1>10. WatchedIsOpen'
  <2>1. \A d \in Watched : Watching(d) /\ worker[d] = previous[c] => d = c
    BY <1>2 DEF Watching, Watchers, TypeOK
  <2>2. \A d \in Watched : Watching(d) => worker[d] \in Sessions
    BY DEF Watching, Watchers, TypeOK
  <2>3. \A d \in Watched : Watching(d) => life[worker[d]] = "open" \/ worker[d] \in abandoned
    BY <1>1 DEF WatchedIsOpen
  <2> QED BY <1>1, <1>3, <2>1, <2>2, <2>3 DEF WatchedIsOpen, Watching
<1>11. StoppedIsQuiet'
  BY <1>1 DEF StoppedIsQuiet, AllWorkersDone
<1> QED BY <1>4, <1>5, <1>6, <1>7, <1>8, <1>9, <1>10, <1>11

\* Close returns, the request gives up waiting for it, or Reload is done.
LEMMA CloseEndsStep ==
    ASSUME ConnInv, TypeOK', CloseDone \/ CloseGivesUp \/ ReloadReturns
    PROVE  ConnInv'
<1> USE ConnectionsAssumption DEF ConnInv
<1>1. UNCHANGED <<enabled, conf, life, from, sessions, using, quotes, traders, todo, builtFrom, sup,
                  current, worker, work, owed, call, held>>
  BY DEF CloseDone, CloseGivesUp, ReloadReturns, store, routes, locals, events, callers
<1>2. step \in Closing
  BY DEF CloseDone, CloseGivesUp, ReloadReturns, Closing
<1>3. Holding' /\ StoppedIsQuiet'
  BY <1>1 DEF Holding, StoppedIsQuiet, AllWorkersDone
<1>4. CASE CloseDone
  <2>1. /\ step = "await" /\ step' = "close" /\ ~WatcherLeft
        /\ UNCHANGED <<admin, reloader, built, reused, previous, leaving, abandoned>>
    BY <1>4 DEF CloseDone, locals
  <2>2. Shape' /\ Lives' /\ Origins' /\ OpenIsOwned'
    BY <1>1, <2>1 DEF Shape, Reading, Swapping, Closing, Lives, Origins, OpenIsOwned
  <2>3. Watchers' /\ Locking' /\ Applied'
    BY <1>1, <2>1 DEF Watchers, Reading, Locking, Applied
  <2>4. WatchedIsOpen'
    BY <1>1, <2>1 DEF WatchedIsOpen, WatcherLeft, UnderClose, Watching, Watchers, TypeOK
  <2> QED BY <1>3, <2>2, <2>3, <2>4
<1>5. CASE CloseGivesUp \/ ReloadReturns
  <2>1. /\ step' = "off" /\ reloader' = NoAdmin /\ leaving' = {} /\ reused' = {}
        /\ \A c \in Conns : built'[c] = NoSession /\ previous'[c] = NoSession
        /\ abandoned \subseteq abandoned'
        /\ \A c \in Conns : c \in leaving => previous[c] \in abandoned'
        /\ \E v \in {"idle", "loaded"} : admin' = [admin EXCEPT ![reloader] = v]
    BY <1>5 DEF CloseGivesUp, ReloadReturns, None
  <2>2. reloader \in Admins /\ admin[reloader] = "reloading"
    BY <1>2 DEF Locking, Closing, TypeOK
  <2>3. Shape'
    BY <1>1, <1>2, <2>1 DEF Shape, Reading, Swapping, Closing
  <2>4. Lives' /\ Origins'
    BY <1>1, <2>1 DEF Lives, Swapping, Closing, Origins
  <2>5. Watchers'
    BY <1>1, <2>1 DEF Watchers, Reading
  <2>6. Locking'
    BY <2>1, <2>2 DEF Locking, TypeOK
  <2>7. \A a \in Admins : admin'[a] = "saved" <=> admin[a] = "saved"
    BY <2>1, <2>2 DEF TypeOK
  <2>8. Applied'
    BY <1>1, <1>2, <2>1, <2>7 DEF Applied, Reading, Closing
  <2>9. OpenIsOwned'
    <3> SUFFICES ASSUME NEW s \in Sessions, life[s] = "open", s \notin abandoned'
                 PROVE  s = sessions[ConnOf[s]]
      BY <1>1 DEF OpenIsOwned
    <3>1. s \in {sessions[ConnOf[s]], previous[ConnOf[s]]}
      BY <1>2, <2>1 DEF OpenIsOwned, Shape
    <3>2. CASE s = previous[ConnOf[s]]
      <4>1. ConnOf[s] \notin leaving
        BY <2>1, <3>2
      <4>2. ConnOf[s] \in reused
        BY <1>2, <3>2, <4>1 DEF Lives
      <4> QED BY <1>2, <3>2, <4>2 DEF Shape
    <3> QED BY <3>1, <3>2
  <2>10. WatchedIsOpen'
    <3>1. \A c \in Watched : UnderClose(c) => worker[c] \in abandoned'
      BY <1>5, <1>2 DEF CloseGivesUp, ReloadReturns, WatchedIsOpen, UnderClose
    <3>2. \A c \in Watched : Watching(c) =>
              life[worker[c]] = "open" \/ UnderClose(c) \/ worker[c] \in abandoned
      BY DEF WatchedIsOpen, UnderClose, Watching, Watchers, TypeOK
    <3> QED BY <1>1, <2>1, <3>1, <3>2 DEF WatchedIsOpen, Watching
  <2> QED BY <1>3, <2>3, <2>4, <2>5, <2>6, <2>8, <2>9, <2>10
<1> QED BY <1>4, <1>5

-----------------------------------------------------------------------------
\* The invariant holds in every behaviour.
LEMMA ConnInvariant == Spec => []ConnInv
<1>1. Init => ConnInv
  BY ConnStart
<1>2. ConnInv /\ [Next]_vars => ConnInv'
  <2> SUFFICES ASSUME ConnInv, [Next]_vars PROVE ConnInv'
    OBVIOUS
  <2>1. CASE Next
    BY <2>1, ConnTypes, WorkersStep, RequestsStep, ReloadBeginStep, LoadConnectionStep, ReloadFailsStep,
       SwapStep, CloseReplacedStep, CloseEndsStep
    DEF Next, AdminStep, Reload
  <2>2. CASE UNCHANGED vars
    <3>a. UNCHANGED <<enabled, conf, life, from, sessions, using, quotes, traders, sources, accounts, call,
                      held, admin, seen, reloader, step>>
      BY <2>2 DEF vars, store, routes, listed, callers
    <3>b. UNCHANGED <<todo, built, builtFrom, reused, previous, leaving, syncOn, quit, sup, current, worker,
                      work, cancelled, invalid, saves, faults, owed, abandoned>>
      BY <2>2 DEF vars, locals, events
    <3>1. TypeOK'
      BY <3>a, <3>b DEF ConnInv, TypeOK
    <3>2. Watchers' /\ StoppedIsQuiet' /\ WatchedIsOpen'
      BY <3>a, <3>b DEF ConnInv, Watchers, StoppedIsQuiet, AllWorkersDone, WatchedIsOpen, Watching
    <3>3. UNCHANGED <<store, life, from, routes, listed, callers, admin, seen, reloader, step, locals,
                      owed, abandoned>>
      BY <2>2 DEF vars
    <3> QED BY <3>1, <3>2, <3>3, EventsApart DEF ConnInv
  <2> QED BY <2>1, <2>2
<1> QED BY <1>1, <1>2, PTL DEF Spec

\* Types: the state of the connection manager, of Reload and of the event workers.
THEOREM ConnectionsTypeCorrect == Spec => []TypeOK
<1>1. ConnInv => TypeOK
  BY DEF ConnInv
<1> QED BY <1>1, ConnInvariant, PTL

\* Nothing leads to a closed session, at any point of a Reload.
LEMMA RoutesAreOpen == ConnInv => RoutedIsOpen
<1> SUFFICES ASSUME ConnInv, NEW c \in Conns
             PROVE  \A s \in {sessions[c], quotes[c], traders[c]} : s # NoSession => life[s] = "open"
  BY DEF RoutedIsOpen
<1> USE DEF ConnInv
<1>1. step \in {"off"} \cup Reading \cup Swapping \cup Closing
  BY DEF TypeOK, Steps, Reading, Swapping, Closing
<1> QED BY <1>1 DEF Shape, Lives, Swapping, Closing, Reading

\* Every session that Reload opens is routed, on its way or closed, and no watcher outlives it
\* or the supervisor, whatever fails in between.
THEOREM ConnectionsSessionsAccounted == Spec => []SessionsAccounted
<1>1. ConnInv => SessionsAccounted
  BY RoutesAreOpen DEF ConnInv, SessionsAccounted
<1> QED BY <1>1, ConnInvariant, PTL

\* A lease, a quote or an order works with an open session: Reload's swaps wait for the callers.
THEOREM ConnectionsInUseIsOpen == Spec => []InUseIsOpen
<1>1. ConnInv => InUseIsOpen
  <2> SUFFICES ASSUME ConnInv, NEW k \in Callers, held[k] # NoSession PROVE life[held[k]] = "open"
    BY DEF InUseIsOpen
  <2>1. PICK c \in Conns : held[k] \in {sessions[c], quotes[c], traders[c]}
    BY DEF ConnInv, Holding, TypeOK
  <2> QED BY <2>1, RoutesAreOpen DEF RoutedIsOpen
<1> QED BY <1>1, ConnInvariant, PTL

\* What was saved is in use once the requests that saved it have reloaded: Reload reads the rows
\* and swaps the sessions under reloadMu.
THEOREM ConnectionsSavedIsApplied == Spec => []SavedIsApplied
<1>1. ConnInv => SavedIsApplied
  <2> SUFFICES ASSUME ConnInv, NEW c \in Conns \ owed,
                      \A a \in Admins : admin[a] \notin {"saved", "reloading"}
               PROVE  /\ c \in enabled <=> sessions[c] # NoSession
                      /\ c \in enabled => from[sessions[c]] = conf[c]
    BY DEF SavedIsApplied
  <2>1. step = "off"
    BY DEF ConnInv, Locking, TypeOK
  <2> QED BY <2>1 DEF ConnInv, Applied, Origins, Reading
<1> QED BY <1>1, ConnInvariant, PTL

\* The callback looks at b.sessions again before it reports an account: what it reports comes from
\* a session that is open at that moment.
THEOREM ConnectionsNoLateEvents == Spec => NoLateEvents
<1>1. ConnInv /\ [Next]_vars => [\A c \in invalid' \ invalid : life[worker[c]] = "open"]_vars
  <2> SUFFICES ASSUME ConnInv, Next, NEW c \in invalid' \ invalid PROVE life[worker[c]] = "open"
    OBVIOUS
  <2>1. c \in Watched /\ EmitEvent(c) /\ StillCurrent(c)
    BY DEF Next, AdminStep, Reload, Supervise, WorkerStep, SaveConnection, PersistSchwabToken, ApplySyncConfig,
       ReloadBegin, LoadConnection, ReloadFails, AnnounceSwap, SwapSessions, MarketDataReplace, TradingReplace,
       CloseReplaced, CloseDone, CloseGivesUp, ReloadReturns, ReadSources, SetSources, Begin, Release,
       SupervisorReads, CancelWorker, ReapWorker, StartWorkers, SupervisorStops, SupervisorReturns,
       StopTradingEvents, WatchTradingEvents, EventArrives, EmitEvent, WatchReturns, RefreshPending, events,
       notEvents
  <2>2. worker[c] # NoSession /\ sessions[c] = worker[c]
    BY <2>1 DEF EmitEvent, StillCurrent, ConnInv, Watchers
  <2>3. c \in Conns
    BY <2>1, ConnectionsAssumption
  <2> QED BY <2>2, <2>3 DEF ConnInv, Lives
<1> QED BY <1>1, ConnInvariant, PTL DEF Spec, NoLateEvents

=============================================================================
