------------------------------ MODULE ActivePool ------------------------------
(***************************************************************************)
(* The pool of active coins (backend/radar/active_coins.py) and the part   *)
(* of a market refresh that feeds it and chooses what is scanned           *)
(* (market/binance_factor_source.py).                                      *)
(*                                                                         *)
(* Times are ages in ticks; scores and volumes are small numbers.  A       *)
(* symbol is its place in the alphabet, which breaks ties.                 *)
(***************************************************************************)
EXTENDS Integers, Sequences, FiniteSets

CONSTANTS
  Coins,       \* a set of numbers: the symbols
  MaxCoins,    \* settings.radar_active_coin_max_symbols
  MaxScore,    \* bound: scores of movers
  IdleTicks,   \* settings.radar_active_coin_idle_seconds
  CoolTicks,   \* settings.radar_active_coin_cooldown_seconds
  BaseLimit    \* settings.binance_symbol_limit

ASSUME PoolAssumption ==
  /\ Coins \subseteq Nat /\ IsFiniteSet(Coins)
  /\ {MaxCoins, MaxScore, CoolTicks, BaseLimit} \subseteq Nat \ {0} /\ IdleTicks \in Nat

VARIABLES
  pool,      \* ActiveCoinRegistry._active: score and age of the last sighting
  cooling,   \* _cooldowns: ticks left
  listed,    \* the contracts _symbol_allowed accepts
  rows,      \* symbols with market rows in the last refresh
  scanned    \* the symbols the last refresh loaded

poolVars == <<pool, cooling, listed, rows, scanned>>

Sightings == [score : 0..MaxScore, age : 0..(IdleTicks + 1)]
Without(p, gone) == [s \in DOMAIN p \ gone |-> p[s]]
Seen(p, s, score) ==
  [r \in DOMAIN p \cup {s} |-> IF r = s THEN [score |-> score, age |-> 0] ELSE p[r]]

Idle(p, kept) == {s \in DOMAIN p \ kept : p[s].age > IdleTicks}
Cooled(gone) == [s \in Coins |-> IF s \in gone THEN CoolTicks ELSE cooling[s]]

(* Lowest score, then longest unseen, then first name. *)
Lower(p, r, s) ==
  \/ p[r].score < p[s].score
  \/ p[r].score = p[s].score /\ p[r].age > p[s].age
  \/ p[r].score = p[s].score /\ p[r].age = p[s].age /\ r <= s
Lowest(p) == CHOOSE r \in DOMAIN p : \A s \in DOMAIN p : Lower(p, r, s)

\* Mutant of Admit: the capacity is checked after the coin went in.
AdmitOneMore(p, s, score) ==
  IF s \in DOMAIN p \/ Cardinality(DOMAIN p) <= MaxCoins THEN Seen(p, s, score)
  ELSE IF score > p[Lowest(p)].score THEN Seen(Without(p, {Lowest(p)}), s, score)
  ELSE p
Admit(p, s, score) ==
  IF s \in DOMAIN p \/ Cardinality(DOMAIN p) < MaxCoins THEN Seen(p, s, score)
  ELSE IF score > p[Lowest(p)].score THEN Seen(Without(p, {Lowest(p)}), s, score)
  ELSE p

MayEnter(p, s) == s \in DOMAIN p \/ cooling[s] = 0

(* update_candidates: in the order of the scores, the idle dropped first. *)
Fed(found, score) ==
  LET fed[i \in 0..Len(found)] ==
        IF i = 0 THEN Without(pool, Idle(pool, DOMAIN score))
        ELSE IF MayEnter(fed[i - 1], found[i])
             THEN Admit(fed[i - 1], found[i], score[found[i]])
             ELSE fed[i - 1]
  IN fed
Updated(found, score) == Fed(found, score)[Len(found)]

Orders(score) ==
  {o \in [1..Cardinality(DOMAIN score) -> DOMAIN score] :
     \A i, j \in DOMAIN o : i < j => o[i] # o[j] /\ score[o[i]] >= score[o[j]]}

(* _prioritize_active_symbols: active coins first, and room for all of them. *)
Scanned(active, base, valid) ==
  LET wanted == IF valid = {} THEN active ELSE active \cap valid
      room   == IF Cardinality(active) <= MaxCoins THEN Cardinality(active) ELSE MaxCoins
      limit  == IF BaseLimit > room THEN BaseLimit ELSE room
  IN {S \in SUBSET (wanted \cup base) :
        /\ Cardinality(S) = IF Cardinality(wanted \cup base) < limit
                            THEN Cardinality(wanted \cup base) ELSE limit
        /\ wanted \subseteq S \/ S \subseteq wanted}

(* _select_symbols: majors, volume, movers, the cache, then whatever fills the limit. *)
Selections(valid) ==
  {S \in SUBSET valid :
     Cardinality(S) = IF Cardinality(valid) < BaseLimit THEN Cardinality(valid) ELSE BaseLimit}

(* _discover_active_candidates and the choice of symbols: no await between. *)
Discover ==
  \E found \in SUBSET listed, valid \in {listed} \cup {listed \ {s} : s \in listed} :
  \E score \in [found -> 1..MaxScore] : \E order \in Orders(score) :
    LET fed      == Updated(order, score)
        unlisted == DOMAIN fed \ listed
        active   == DOMAIN fed \ unlisted
    IN /\ pool' = Without(fed, unlisted)
       /\ cooling' = Cooled(Idle(pool, found) \cup unlisted)
       /\ rows' = valid
       /\ scanned' \in UNION {IF active = {} THEN {base} ELSE Scanned(active, base, valid) :
                                base \in Selections(valid)}
       /\ UNCHANGED listed

(* The exchange lists and delists; exchange_info is read before Discover. *)
Relist == \E s \in Coins :
  /\ listed' = IF s \in listed THEN listed \ {s} ELSE listed \cup {s}
  /\ UNCHANGED <<pool, cooling, rows, scanned>>

Tick ==
  /\ pool' = [s \in DOMAIN pool |->
                [pool[s] EXCEPT !.age = IF @ > IdleTicks THEN @ ELSE @ + 1]]
  /\ cooling' = [s \in Coins |-> IF cooling[s] = 0 THEN 0 ELSE cooling[s] - 1]
  /\ UNCHANGED <<listed, rows, scanned>>

PoolInit ==
  /\ pool = [s \in {} |-> 0] /\ cooling = [s \in Coins |-> 0]
  /\ listed = Coins /\ rows = {} /\ scanned = {}

PoolNext == Discover \/ Relist \/ Tick
PoolSpec == PoolInit /\ [][PoolNext]_poolVars

(* The pool keeps to its capacity, a coin that was dropped for being idle  *)
(* or delisted is not in it before its cooldown has passed, and every      *)
(* active coin that has market rows is scanned, however small the base     *)
(* limit is (active_coins.py:63-71, 131-142;                               *)
(* binance_factor_source.py:398-420).                                      *)
PoolSound ==
  /\ \A s \in DOMAIN pool : s \in Coins /\ pool[s] \in Sightings /\ cooling[s] = 0
  /\ Cardinality(DOMAIN pool) <= MaxCoins
  /\ DOMAIN pool \cap rows \subseteq scanned
=============================================================================
