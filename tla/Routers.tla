------------------------------ MODULE Routers ------------------------------
(***************************************************************************)
(* Routers (src/src/router/router.cpp) and the groups and pools of routees *)
(* they are fed from (src/src/router/router_group.cpp).                    *)
(*                                                                         *)
(* A router keeps its own copy of the list it was given: later changes of  *)
(* the group do not reach it before the next SetRoutees.                   *)
(***************************************************************************)
EXTENDS Integers, Sequences, FiniteSets, SequencesExt, Lists

CONSTANTS Pids,      \* the actors that may be spawned as routees
          IntMax,    \* largest value of the int current_index_
          MaxRoutees \* bound on the length of a list of routees

VARIABLES kind,      \* the class of the router
          sender,    \* sender_ is set
          routees,   \* routees_ of the router
          index,     \* current_index_
          group,     \* routees_ of the group or pool
          pool,      \* it is a RouterActorPool: a fixed set of routees
          alive,     \* spawned and not stopped
          turns      \* messages per list position since the rotation last began anew

routerVars == <<kind, sender, routees, index, group, pool, alive, turns>>

Kinds == {"Broadcast", "RoundRobin", "Random", "ConsistentHash"}

NoTurns(n) == [i \in 1..n |-> 0]

Init == /\ kind \in Kinds
        /\ sender = FALSE
        /\ routees = <<>>
        /\ index = 0
        /\ group = <<>>
        /\ pool \in BOOLEAN
        /\ alive = {}
        /\ turns = <<>>

---------------------------------------------------------------------------
(* Groups and pools.                                                       *)

GroupVars(g, a) == /\ group' = g
                   /\ alive' = a
                   /\ UNCHANGED <<kind, sender, routees, index, pool, turns>>

(* New: count routees are spawned in one call.                             *)
Spawn(g) == /\ group = <<>> /\ g # <<>>
            /\ IsInjective(g) /\ ToSet(g) \cap alive = {}
            /\ GroupVars(g, alive \cup ToSet(g))

GroupNew(g) == ~pool /\ Spawn(g)
PoolNew(g) == pool /\ Spawn(g)

AddRoutee(p) == ~pool /\ Len(group) < MaxRoutees /\ GroupVars(Append(group, p), alive)

(* Every entry with the same id goes; the actor itself lives on.           *)
RemoveRoutee(p) == ~pool /\ GroupVars(Without(group, p), alive)

GroupStop == ~pool /\ GroupVars(<<>>, alive \ ToSet(group))
PoolStop == pool /\ GroupVars(<<>>, alive \ ToSet(group))

---------------------------------------------------------------------------
(* The router.                                                             *)

SetRoutees == /\ routees' = group
              /\ index' = 0
              /\ turns' = NoTurns(Len(group))
              /\ UNCHANGED <<kind, sender, group, pool, alive>>

SetSender(b) == /\ sender' = b
                /\ turns' = NoTurns(Len(routees))
                /\ UNCHANGED <<kind, routees, index, group, pool, alive>>

Low(f) == CHOOSE n \in {f[i] : i \in DOMAIN f} : \A i \in DOMAIN f : n <= f[i]

(* Position i is served: counts are kept relative to the least served.     *)
Served(i) == LET t == [turns EXCEPT ![i] = @ + 1]
             IN [j \in DOMAIN t |-> t[j] - Low(t)]

(* % of C++ truncates towards zero                                         *)
Remainder(a, n) == IF a >= 0 THEN a % n ELSE -((-a) % n)

(* Mutant: the sign is dropped instead of folded back.                     *)
PositionByMagnitude(i) == LET r == Remainder(i, Len(routees)) IN 1 + (IF r < 0 THEN -r ELSE r)

Position(i) == LET r == Remainder(i, Len(routees))
               IN 1 + (IF r < 0 THEN r + Len(routees) ELSE r)

(* fetch_add wraps from the largest int to the smallest.                   *)
RoundRobinRouteMessage ==
  /\ kind = "RoundRobin" /\ routees # <<>>
  /\ index' = IF index = IntMax THEN -IntMax - 1 ELSE index + 1
  /\ turns' = IF index = IntMax THEN NoTurns(Len(routees))
              ELSE IF sender THEN Served(Position(index)) ELSE turns
  /\ UNCHANGED <<kind, sender, routees, group, pool, alive>>

(* The other routers keep no state between two messages.  The hash is that *)
(* of the pointer to the message.                                          *)
Deliver(is) == /\ turns' = [j \in DOMAIN turns |-> IF j \in is THEN 1 ELSE 0]
               /\ UNCHANGED <<kind, sender, routees, index, group, pool, alive>>

BroadcastRouteMessage ==
  kind = "Broadcast" /\ sender /\ Deliver(DOMAIN routees)

RandomRouteMessage ==
  /\ kind = "Random" /\ routees # <<>> /\ sender
  /\ \E i \in DOMAIN routees : Deliver({i})

ConsistentHashRouteMessage ==
  /\ kind = "ConsistentHash" /\ routees # <<>> /\ sender
  /\ \E hash \in 0..IntMax : Deliver({1 + (hash % Len(routees))})

Next == \/ \E n \in 1..MaxRoutees : \E g \in [1..n -> Pids] : GroupNew(g) \/ PoolNew(g)
        \/ \E p \in Pids : AddRoutee(p) \/ RemoveRoutee(p)
        \/ GroupStop \/ PoolStop \/ SetRoutees
        \/ \E b \in BOOLEAN : SetSender(b)
        \/ RoundRobinRouteMessage \/ BroadcastRouteMessage
        \/ RandomRouteMessage \/ ConsistentHashRouteMessage

---------------------------------------------------------------------------
(* A round-robin router shares its work: between two changes of its        *)
(* routees or its sender, and apart from the one message sent when the     *)
(* index wraps, no position of the list is served more than one message    *)
(* ahead of another, also while the index is negative.                     *)
FairShare == kind = "RoundRobin" => \A i \in DOMAIN turns : turns[i] <= 1
=============================================================================
