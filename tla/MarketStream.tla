----------------------------- MODULE MarketStream -----------------------------
(***************************************************************************)
(* The websocket that follows the pool of active coins                     *)
(* (backend/market/dynamic_symbol_stream.py): sync is called by a market   *)
(* refresh, between any two messages of the reader task.                   *)
(***************************************************************************)
EXTENDS Integers, FiniteSets

CONSTANTS StreamSymbols, NoConn

ASSUME StreamAssumption ==
  NoConn \notin [of : SUBSET StreamSymbols, current : BOOLEAN]

VARIABLES
  subs,      \* _subscriptions
  latest,    \* the symbols _latest has data of
  conn       \* the connection: its symbols, and whether _version is still its own

streamVars == <<subs, latest, conn>>

Sync(wanted) ==
  /\ subs' = wanted
  /\ latest' = latest \cap wanted
  /\ conn' = IF conn # NoConn /\ wanted # subs THEN [conn EXCEPT !.current = FALSE] ELSE conn

SyncCalled == \E wanted \in SUBSET StreamSymbols : Sync(wanted)

Connect ==
  /\ conn = NoConn /\ subs # {}
  /\ conn' = [of |-> subs, current |-> TRUE]
  /\ UNCHANGED <<subs, latest>>

\* Mutant of Message: messages of the old connection are read to the end.
MessageOfAny == conn # NoConn /\ \E s \in conn.of :
  latest' = latest \cup {s} /\ UNCHANGED <<subs, conn>>
(* The version is compared before a message is remembered. *)
Message == conn # NoConn /\ \E s \in conn.of :
  /\ IF conn.current THEN latest' = latest \cup {s} /\ UNCHANGED conn
                     ELSE conn' = NoConn /\ UNCHANGED latest
  /\ UNCHANGED subs

ConnLost == conn # NoConn /\ conn' = NoConn /\ UNCHANGED <<subs, latest>>

StreamInit == subs = {} /\ latest = {} /\ conn = NoConn
StreamNext == SyncCalled \/ Connect \/ Message \/ ConnLost
StreamSpec == StreamInit /\ [][StreamNext]_streamVars

(* Nothing is shown of a symbol that is not subscribed, although the old   *)
(* connection goes on delivering until its next message                    *)
(* (dynamic_symbol_stream.py:62-66, 110-116).                              *)
StreamShowsSubscribed == latest \subseteq subs
=============================================================================
