---------------------------- MODULE SchwabStream ----------------------------
(***************************************************************************)
(* The quote stream of one Schwab client (internal/broker/schwab/          *)
(* streamer.go) and the web sockets that read from it (internal/api/       *)
(* websocket.go).                                                          *)
(*                                                                         *)
(* One goroutine keeps at most one Streamer connection for the union of    *)
(* what the subscribers want.  It learns of a change through a channel of  *)
(* capacity one, filled without blocking after the lock is released, or    *)
(* by looking again after a message or after its read deadline.  Quotes    *)
(* go to buffered channels and are dropped when a reader is too slow.      *)
(***************************************************************************)
EXTENDS FiniteSets, Naturals

CONSTANTS
    Sockets,        \* web sockets, each of which subscribes once
    Symbols,
    Buffer          \* quotes a subscriber's channel holds (256 in the code)

ASSUME StreamAssumption == Buffer \in Nat \ {0}

VARIABLES
    socket,         \* "new", "added", "open", "left", "drained" or "done"
    wants,          \* symbols of a registered subscriber; {} when it is not registered
    queued,         \* quotes waiting in its channel
    chan,           \* "open" or "closed"
    wakeup,         \* the wakeup channel holds a token
    closing,        \* "no", "locked" (closed set, subscribers released), "woken" or "done"
    loop,           \* the goroutine: see LoopStates
    asked,          \* symbols of the current or the last connection
    shown           \* the status: connected and how many symbols

streamVars == <<socket, wants, queued, chan, wakeup, closing, loop, asked, shown>>

LoopStates == {"off", "top", "idle", "prepare", "login", "subscribed", "failed", "backoff", "exited"}

\* desiredSymbols
Desired == UNION {wants[w] : w \in Sockets}
Closed == closing # "no"
DoneClosed == closing \in {"woken", "done"}

\* wake fills the channel unless it is full; setStatus.
Wake == wakeup' = TRUE
SetStatus(connected, symbols) == shown' = [connected |-> connected, symbols |-> symbols]

StreamInit ==
    /\ socket = [w \in Sockets |-> "new"]
    /\ wants = [w \in Sockets |-> {}]
    /\ queued = [w \in Sockets |-> 0]
    /\ chan = [w \in Sockets |-> "open"]
    /\ wakeup = FALSE /\ closing = "no"
    /\ loop = "off" /\ asked = {} /\ shown = [connected |-> FALSE, symbols |-> 0]

-----------------------------------------------------------------------------
\* subscribe under the lock: a closed stream, or no symbol, gives a closed channel and nothing
\* to cancel.
Subscribe(w, set) ==
    /\ socket[w] = "new"
    /\ IF Closed \/ set = {}
       THEN /\ chan' = [chan EXCEPT ![w] = "closed"]
            /\ socket' = [socket EXCEPT ![w] = "done"]
            /\ UNCHANGED wants
       ELSE /\ wants' = [wants EXCEPT ![w] = set]
            /\ socket' = [socket EXCEPT ![w] = "added"]
            /\ UNCHANGED chan
    /\ UNCHANGED <<queued, wakeup, closing, loop, asked, shown>>

\* ... and after it: the goroutine is started once, and woken.
Subscribed(w) ==
    /\ socket[w] = "added"
    /\ socket' = [socket EXCEPT ![w] = "open"]
    /\ loop' = IF loop = "off" THEN "top" ELSE loop
    /\ Wake
    /\ UNCHANGED <<wants, queued, chan, closing, asked, shown>>

\* wsQuotes forwards a quote; when the channel is closed and empty it keeps only the heartbeat.
Forward(w) ==
    /\ socket[w] = "open"
    /\ \/ queued[w] > 0 /\ queued' = [queued EXCEPT ![w] = @ - 1] /\ UNCHANGED socket
       \/ /\ queued[w] = 0 /\ chan[w] = "closed"
          /\ socket' = [socket EXCEPT ![w] = "drained"] /\ UNCHANGED queued
    /\ UNCHANGED <<wants, chan, wakeup, closing, loop, asked, shown>>

\* The web socket ends: the request is done, a write fails or its session is refused.  The
\* cancel function closes the channel if the subscriber is still registered, then wakes.
Cancel(w) ==
    /\ socket[w] \in {"open", "drained"}
    /\ socket' = [socket EXCEPT ![w] = "left"]
    /\ wants' = [wants EXCEPT ![w] = {}]
    /\ chan' = [chan EXCEPT ![w] = "closed"]
    /\ queued' = [queued EXCEPT ![w] = 0]
    /\ UNCHANGED <<wakeup, closing, loop, asked, shown>>

SocketCancelled(w) ==
    /\ socket[w] = "left"
    /\ socket' = [socket EXCEPT ![w] = "done"]
    /\ Wake
    /\ UNCHANGED <<wants, queued, chan, closing, loop, asked, shown>>

\* The channels are closed and the subscribers left registered.
CloseLockedKeeping ==
    /\ closing = "no"
    /\ closing' = "locked"
    /\ chan' = [w \in Sockets |-> IF wants[w] # {} THEN "closed" ELSE chan[w]]
    /\ UNCHANGED <<socket, wants, queued, wakeup, loop, asked, shown>>

\* close: under the lock every subscriber is released; then done is closed, then a wake-up.
CloseLocked ==
    /\ closing = "no"
    /\ closing' = "locked"
    /\ chan' = [w \in Sockets |-> IF wants[w] # {} THEN "closed" ELSE chan[w]]
    /\ wants' = [w \in Sockets |-> {}]
    /\ UNCHANGED <<socket, queued, wakeup, loop, asked, shown>>

CloseDone ==
    /\ \/ closing = "locked" /\ closing' = "woken" /\ UNCHANGED wakeup
       \/ closing = "woken" /\ closing' = "done" /\ Wake
    /\ UNCHANGED <<socket, wants, queued, chan, loop, asked, shown>>

\* exchangeToken, SetToken and SetConfig wake the stream as well.
TokenWake ==
    /\ ~wakeup
    /\ Wake
    /\ UNCHANGED <<socket, wants, queued, chan, closing, loop, asked, shown>>

-----------------------------------------------------------------------------
Goto(l) == loop' = l

\* The head of the loop does not look at done.
TopDeaf ==
    /\ loop = "top"
    /\ IF Desired = {} THEN Goto("idle") /\ UNCHANGED asked ELSE Goto("prepare") /\ asked' = Desired
    /\ IF Desired = {} THEN SetStatus(FALSE, 0) ELSE UNCHANGED shown
    /\ UNCHANGED <<socket, wants, queued, chan, wakeup, closing>>

\* The head of the loop.
Top ==
    /\ loop = "top"
    /\ IF DoneClosed THEN Goto("exited") /\ UNCHANGED asked
       ELSE IF Desired = {} THEN Goto("idle") /\ UNCHANGED asked
       ELSE Goto("prepare") /\ asked' = Desired
    /\ IF DoneClosed \/ Desired = {} THEN SetStatus(FALSE, 0) ELSE UNCHANGED shown
    /\ UNCHANGED <<socket, wants, queued, chan, wakeup, closing>>

\* Nothing is wanted: wait for a wake-up or for done.
Idle ==
    /\ loop = "idle"
    /\ \/ wakeup /\ wakeup' = FALSE /\ Goto("top")
       \/ DoneClosed /\ Goto("exited") /\ UNCHANGED wakeup
    /\ UNCHANGED <<socket, wants, queued, chan, closing, asked, shown>>

\* connect: the user preference, the token, the socket and the LOGIN answer; each may fail.
Prepare ==
    /\ loop = "prepare"
    /\ Goto("login") \/ Goto("failed")
    /\ UNCHANGED <<socket, wants, queued, chan, wakeup, closing, asked, shown>>

Login ==
    /\ loop = "login"
    /\ \/ Goto("subscribed") /\ SetStatus(TRUE, Cardinality(asked))
       \/ Goto("failed") /\ UNCHANGED shown
    /\ UNCHANGED <<socket, wants, queued, chan, wakeup, closing, asked>>

\* The set of symbols is compared only once, before the connection is used.
StreamOnOnce(s) == TRUE

\* The connection is kept while what is wanted is what was asked for.
StreamOn(s) == Desired = s

\* mergeEquity and dispatch: a full channel drops the quote.
Dispatch(symbol) ==
    queued' = [w \in Sockets |->
        IF symbol \in wants[w] /\ queued[w] < Buffer THEN queued[w] + 1 ELSE queued[w]]

Stream ==
    /\ loop = "subscribed"
    /\ IF ~StreamOn(asked) THEN Goto("failed") /\ UNCHANGED queued
       ELSE \/ \E s \in asked : Dispatch(s) /\ UNCHANGED loop
            \/ Goto("failed") /\ UNCHANGED queued
    /\ UNCHANGED <<socket, wants, chan, wakeup, closing, asked, shown>>

\* connect returned: the status says disconnected, with the symbols it was asked for.
Failed ==
    /\ loop = "failed"
    /\ Goto("backoff")
    /\ SetStatus(FALSE, Cardinality(asked))
    /\ UNCHANGED <<socket, wants, queued, chan, wakeup, closing, asked>>

Backoff ==
    /\ loop = "backoff"
    /\ \/ wakeup /\ wakeup' = FALSE /\ Goto("top")
       \/ Goto("top") /\ UNCHANGED wakeup
       \/ DoneClosed /\ Goto("exited") /\ UNCHANGED wakeup
    /\ UNCHANGED <<socket, wants, queued, chan, closing, asked, shown>>

Run == Top \/ Idle \/ Prepare \/ Login \/ Stream \/ Failed \/ Backoff

StreamNext ==
    \/ \E w \in Sockets : \/ \E set \in SUBSET Symbols : Subscribe(w, set)
                          \/ Subscribed(w) \/ Forward(w) \/ Cancel(w) \/ SocketCancelled(w)
    \/ CloseLocked \/ CloseDone \/ TokenWake
    \/ Run

\* The goroutine goes on: the preference request has a timeout of 20 seconds, the dialer one of
\* its own and every read a deadline (the token endpoint is assumed to answer).  A reader goes
\* on to its wake-up once it has left the lock.
StreamFairness ==
    /\ WF_streamVars(Run)
    /\ \A w \in Sockets : WF_streamVars(Subscribed(w)) /\ WF_streamVars(SocketCancelled(w))
    /\ WF_streamVars(CloseDone)

StreamSpec == StreamInit /\ [][StreamNext]_streamVars /\ StreamFairness

-----------------------------------------------------------------------------
(***************************************************************************)
(* Properties                                                              *)
(***************************************************************************)
StreamTypeOK ==
    /\ socket \in [Sockets -> {"new", "added", "open", "left", "drained", "done"}]
    /\ wants \in [Sockets -> SUBSET Symbols]
    /\ queued \in [Sockets -> 0..Buffer]
    /\ chan \in [Sockets -> {"open", "closed"}]
    /\ wakeup \in BOOLEAN /\ closing \in {"no", "locked", "woken", "done"}
    /\ loop \in LoopStates /\ asked \subseteq Symbols
    /\ shown \in [connected : BOOLEAN, symbols : Nat]

\* dispatch sends to registered subscribers only, whose channels are open (a send on a closed one
\* would end the program); a reader is registered or its channel is closed, also when close and
\* its cancel function meet, so that it never waits for a stream that forgot it.
ReadersReleased ==
    \A w \in Sockets :
        /\ wants[w] # {} => chan[w] = "open" /\ ~Closed
        /\ socket[w] \in {"added", "open"} => wants[w] # {} \/ chan[w] = "closed"

\* The goroutine does not rest while something is wanted: a token is in the wakeup channel, or a
\* subscriber is on its way to put one there.
WakePending ==
    loop = "idle" /\ Desired # {} => wakeup \/ \E w \in Sockets : socket[w] = "added"

\* What the stream and its subscribers rely on between them.
StreamSound == ReadersReleased /\ WakePending

\* The stream follows its subscribers: whatever they did, and however many connections fail,
\* in the end the goroutine asks for exactly what is wanted.
StreamFollows == <>[](Desired # {} => asked = Desired)

\* A closed client lets go: its goroutine, if it was ever started, ends.
CloseEnds == (closing = "done") ~> (loop \in {"off", "exited"})

\* No wake-up is lost, neither a subscriber's nor that of close.
StreamSettles == StreamFollows /\ CloseEnds
=============================================================================
