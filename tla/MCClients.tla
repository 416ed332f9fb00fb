----------------------------- MODULE MCClients ------------------------------
(***************************************************************************)
(* The clients of brokers and of public market data for TLC.  They share   *)
(* no variable: a behaviour of this run is one of MCOrderSession, of the   *)
(* administration or the routing of the sources, or of the Yahoo client,   *)
(* the others resting.  Two requests of administrators at a time, or one   *)
(* change of the source while a request for market data is answered.  The  *)
(* handlers of HTTP requests are the same two in every part, and           *)
(* interchangeable.                                                        *)
(***************************************************************************)
EXTENDS MCOrderSession, MarketData, YahooClient, FiniteSets

\* Every kind of request that the router tells apart.
MCRequests ==
    {[kind |-> "quote", source |-> s, usage |-> "live", connection |-> c, intraday |-> FALSE] :
        s \in {"auto", "broker", "tiingo"}, c \in BOOLEAN}
    \cup {[kind |-> "history", source |-> s, usage |-> u, connection |-> FALSE, intraday |-> i] :
        s \in {"auto", "tiingo"}, u \in {"chart", "valuation"}, i \in BOOLEAN}
    \cup {[kind |-> "history", source |-> s, usage |-> "live", connection |-> FALSE, intraday |-> FALSE] :
        s \in {"broker", "auto"}}

ClientsInit ==
    /\ Init /\ TokensInit /\ MarketInit /\ YahooInit
    /\ part \in {"orders", "token", "admin", "readers", "yahoo"}

ClientsNext ==
    \/ MCNext /\ UNCHANGED <<marketVars, yahooVars>>
    \/ /\ part = "admin" /\ UNCHANGED <<wish, answer>> /\ MarketNext
       /\ UNCHANGED <<part, vars, tokenVars, yahooVars>>
    \/ /\ part = "readers" /\ MarketNext
       /\ Cardinality({m \in Managers : doing'[m] # "idle"}) <= 1
       /\ \A m \in Managers : order'[m].kind # "test"
       /\ UNCHANGED <<part, vars, tokenVars, yahooVars>>
    \/ part = "yahoo" /\ YahooNext /\ UNCHANGED <<part, vars, tokenVars, marketVars>>

ClientsSpec == ClientsInit /\ [][ClientsNext]_<<part, vars, tokenVars, marketVars, yahooVars>>
=============================================================================
