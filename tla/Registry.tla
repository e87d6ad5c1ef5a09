------------------------------ MODULE Registry ------------------------------
(***************************************************************************)
(* The process registry (src/src/actor/process_registry.cpp) in an actor   *)
(* system that is shut down (src/src/actor/actor_system.cpp) while other   *)
(* threads spawn, look up and ask.                                         *)
(***************************************************************************)
EXTENDS Naturals, Sequences, FiniteSets

CONSTANTS Threads,
          Shards,     \* NUM_SHARDS
          Base,       \* number of DIGITS
          MaxIds,     \* bound on sequence_id_
          Names       \* ids callers choose: SpawnNamed, SpawnPrefix, the "$..." names

VARIABLES sequence_id,  \* sequence_id_
          local_pids,   \* local_pids_: each id registered, and since when, see Add
          thread,       \* the call each thread is in, see Out
          cleared,      \* shards ActorSystem::Shutdown has cleared
          stopped,      \* stopped_
          dead_letter,  \* dead_letter_ is set, as are the members dropped with it
          used,         \* history: ids that were registered at some time
          reused        \* history: ids that were registered for a second process

registryVars == <<sequence_id, local_pids, thread, cleared, stopped, dead_letter, used, reused>>
history == <<used, reused>>

Out == [op |-> "out", id |-> <<>>]

(* Initialize; New hands the system out when it is complete.               *)
Init == /\ sequence_id = 0
        /\ local_pids = {}
        /\ thread = [t \in Threads |-> Out]
        /\ cleared = 0
        /\ stopped = FALSE
        /\ dead_letter = TRUE
        /\ used = {}
        /\ reused = {}

---------------------------------------------------------------------------
(* Digits of u, the most significant one first; the "$" that ends every id *)
(* is left out.                                                            *)
Uint64ToID(u) ==
  LET id[n \in 0..u] == IF n < Base THEN <<n>> ELSE Append(id[n \div Base], n % Base)
  IN id[u]

Bucket(id) == LET hash[i \in 0..Len(id)] == IF i = 0 THEN 0 ELSE hash[i - 1] * 31 + id[i]
              IN hash[Len(id)] % Shards

(* Mutant: the increment is a load and a store, which another may overwrite. *)
NextIDLostUpdate(t, op) ==
  /\ thread[t] = Out /\ sequence_id < MaxIds
  /\ sequence_id' \in {sequence_id, sequence_id + 1}
  /\ thread' = [thread EXCEPT ![t] = [op |-> op, id |-> Uint64ToID(sequence_id + 1)]]
  /\ UNCHANGED <<local_pids, cleared, stopped, dead_letter, history>>

(* An atomic increment; the id is then used by this thread alone.          *)
NextID(t, op) ==
  /\ thread[t] = Out /\ sequence_id < MaxIds
  /\ sequence_id' = sequence_id + 1
  /\ thread' = [thread EXCEPT ![t] = [op |-> op, id |-> Uint64ToID(sequence_id + 1)]]
  /\ UNCHANGED <<local_pids, cleared, stopped, dead_letter, history>>

(* SpawnNamed and SpawnPrefix, and the fixed names of the remote layer: a  *)
(* prefix in front of a NextID is a caller's choice too.                   *)
SpawnNamed(t, name) ==
  /\ thread[t] = Out
  /\ thread' = [thread EXCEPT ![t] = [op |-> "spawn", id |-> name]]
  /\ UNCHANGED <<sequence_id, local_pids, cleared, stopped, dead_letter, history>>

(* Every operation on a shard holds the lock of that shard.                *)
Registered(id) == \E e \in local_pids : e.id = id

(* Under an id that is taken nothing is added.  since tells how many       *)
(* shards Shutdown had cleared when the process was added.                 *)
Add(t) == /\ thread[t].op = "spawn"
          /\ thread' = [thread EXCEPT ![t] = Out]
          /\ LET id == thread[t].id
             IN  IF Registered(id)
                 THEN UNCHANGED <<local_pids, history>>
                 ELSE /\ local_pids' = local_pids \cup {[id |-> id, since |-> cleared]}
                      /\ used' = used \cup {id}
                      /\ reused' = reused \cup ({id} \cap used)
          /\ UNCHANGED <<sequence_id, cleared, stopped, dead_letter>>

Remove(t, id) == /\ thread[t] = Out /\ Registered(id)
                 /\ local_pids' = {e \in local_pids : e.id # id}
                 /\ UNCHANGED <<sequence_id, thread, cleared, stopped, dead_letter, history>>

(* Get: the process, or dead_letter_, which is null after Shutdown; then   *)
(* PID::SendUserMessage drops the message without a dead letter.           *)
Get(t, id) ==
  /\ thread[t] = Out
  /\ LET found == IF Registered(id) THEN "found" ELSE IF dead_letter THEN "dead letter" ELSE "lost"
     IN  thread' = [thread EXCEPT ![t] = [Out EXCEPT !.op = found]]
  /\ UNCHANGED <<sequence_id, local_pids, cleared, stopped, dead_letter, history>>

Returns(t) == /\ thread[t].op \in {"found", "dead letter", "lost"}
              /\ thread' = [thread EXCEPT ![t] = Out]
              /\ UNCHANGED <<sequence_id, local_pids, cleared, stopped, dead_letter, history>>

(* NewFuture takes an id, then its constructor throws before it registers. *)
NewFutureThrows(t) == /\ thread[t].op = "future"
                      /\ thread' = [thread EXCEPT ![t] = Out]
                      /\ UNCHANGED <<sequence_id, local_pids, cleared, stopped, dead_letter, history>>

---------------------------------------------------------------------------
(* Shutdown: the shards are cleared one after the other, then the members  *)
(* are dropped; of those only dead_letter_ is looked at here.              *)

Shutdown == /\ ~stopped
            /\ stopped' = TRUE
            /\ UNCHANGED <<sequence_id, local_pids, thread, cleared, dead_letter, history>>

Clear == /\ stopped /\ cleared < Shards
         /\ local_pids' = {e \in local_pids : Bucket(e.id) # cleared}
         /\ cleared' = cleared + 1
         /\ UNCHANGED <<sequence_id, thread, stopped, dead_letter, history>>

DropParts == /\ cleared = Shards /\ dead_letter
             /\ dead_letter' = FALSE
             /\ UNCHANGED <<sequence_id, local_pids, thread, cleared, stopped, history>>

Next == \/ \E t \in Threads :
             \/ NextID(t, "spawn") \/ NextID(t, "future")
             \/ Add(t) \/ NewFutureThrows(t) \/ Returns(t)
             \/ \E name \in Names : SpawnNamed(t, name)
             \/ \E id \in used \cup Names : Remove(t, id) \/ Get(t, id)
        \/ Shutdown \/ Clear \/ DropParts

---------------------------------------------------------------------------
(* Shutdown forgets: once every shard was cleared, what the registry still *)
(* finds was added to its shard after that shard had been cleared, so no   *)
(* process from before Shutdown is found, also under a name that was used  *)
(* again meanwhile.  And an id of NextID that Spawn registered never comes *)
(* to stand for another process, unless callers chose it as a name.        *)
ShutdownForgets ==
  /\ cleared = Shards => \A e \in local_pids : e.since > Bucket(e.id)
  /\ reused \subseteq Names
=============================================================================
