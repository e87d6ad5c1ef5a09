---------------------------- MODULE ActorContext ----------------------------
(***************************************************************************)
(* Actors, their contexts and their lives: spawning (src/actor/props.cpp), *)
(* lookup with dead letters (pid.cpp, process_registry.cpp,                *)
(* deadletter.cpp), the operations of a context and the handling of user   *)
(* and system messages (actor_context.cpp).                                *)
(*                                                                         *)
(* Each actor's mailbox appears as the loop of mailbox.cpp that Mailbox    *)
(* shows to be run by one thread at a time: system messages first, then a  *)
(* look at the user queue.  Between two looks other threads may post.      *)
(* A handler is abstracted to one operation of its context, chosen freely. *)
(***************************************************************************)
EXTENDS Integers, Sequences, FiniteSets

CONSTANTS
    Actors,    \* names of actors
    Root,      \* the application, using the root context
    NoPID,     \* null, or a PID object that is in nobody's list
    ByName,    \* TRUE if PIDs made from a name may be used before Spawn returns
    OpKinds,   \* the context operations that are used
    MaxOps     \* bound: operations performed in a behaviour

ASSUME ContextAssumption ==
    /\ Root \notin Actors
    /\ NoPID \notin Actors \cup {Root}
    /\ ByName \in BOOLEAN
    /\ MaxOps \in Nat

VARIABLES
    spawning,  \* how far the spawn of each actor is
    parent,    \* who spawned it
    life,      \* state_, between two messages
    calls,     \* calls that the actor's thread still has to finish, innermost first
    sys,       \* system mailboxes
    user,      \* user mailboxes
    watchers,  \* watchers_, as a set: no code reads its order or repetitions
    children,  \* children_, likewise
    stash,     \* stash_, the top last
    log,       \* history: what Receive was called with
    intent,    \* history: intent[w][a] if w's last word to a was Watch
    crashed,   \* whether the program has died, and of what
    ops        \* operations performed so far

vars == <<spawning, parent, life, calls, sys, user, watchers, children, stash,
          log, intent, crashed, ops>>

(* A message: its type and the PID it carries (the sender of a user         *)
(* message, the watcher, or who terminated or failed).                      *)
M(type, pid) == [type |-> type, pid |-> pid]

Init ==
    /\ spawning = [a \in Actors |-> "unborn"]
    /\ parent = [a \in Actors |-> Root]
    /\ life = [a \in Actors |-> "ALIVE"]
    /\ calls = [a \in Actors |-> <<>>]
    /\ sys = [a \in Actors |-> <<>>]
    /\ user = [a \in Actors |-> <<>>]
    /\ watchers = [a \in Actors |-> {}]
    /\ children = [a \in Actors |-> {}]
    /\ stash = [a \in Actors |-> <<>>]
    /\ log = [a \in Actors |-> <<>>]
    /\ intent = [w \in Actors |-> [a \in Actors |-> FALSE]]
    /\ crashed = "no"
    /\ ops = 0

-----------------------------------------------------------------------------
(* Lookup and delivery                                                      *)

(* The registry holds an actor from Add on; nothing removes a stopped one.  *)
Registered(a) == spawning[a] # "unborn"

(* PIDs are known once Spawn has returned, or made from a name.             *)
Known == IF ByName THEN Actors ELSE {a \in Actors : spawning[a] = "done"}

Put(q, a, m) == [q EXCEPT ![a] = Append(@, m)]
Drop(q, a) == [q EXCEPT ![a] = Tail(@)]
Note(f, a, b) == [f EXCEPT ![a] = @ \cup {b}]

(* PID::SendSystemMessage on the queues q.  A message for nobody goes to    *)
(* the dead letter process, which reads it as a Watch: a Watch, and an      *)
(* Unwatch, are answered with Terminated, naming the PID object used.       *)
SendSystemMessage(q, a, m) ==
    IF Registered(a) THEN Put(q, a, m)
    ELSE IF m.type \in {"Watch", "Unwatch"} /\ m.pid # NoPID
         THEN Put(q, m.pid, M("Terminated", NoPID))
    ELSE q

(* PID::SendUserMessage on the queues q.  The dead letter process answers   *)
(* a message that has a sender.                                             *)
SendUserMessage(q, a, m) ==
    IF Registered(a) THEN Put(q, a, m)
    ELSE IF m.pid # NoPID THEN Put(q, m.pid, M("DeadLetterResponse", NoPID))
    ELSE q

(* What posting m to a does to the program.  A mailbox that is scheduled    *)
(* before its dispatcher is set crashes it, unless the two steps of the     *)
(* spawner overtake the post.  A dead letter that has no PID where a Watch  *)
(* has one is a read out of bounds.                                         *)
Posted(a, m) ==
    crashed' \in IF ~Registered(a) /\ m.type \notin {"Watch", "Unwatch"}
                 THEN {"no", "deadletter"}
                 ELSE IF Registered(a) /\ spawning[a] = "added" THEN {"no", "dispatcher"}
                 ELSE {"no"}

(* ActorContext::SendUserMessage puts every message into a new envelope     *)
(* without a sender: an envelope becomes the body of another one.           *)
Envelope(m) == M(IF m.pid = NoPID THEN m.type ELSE "Envelope", NoPID)

-----------------------------------------------------------------------------
(* Operations of a context c, performed by the root or in a handler.  s is  *)
(* the state in which the handler was called, m the message it handles.     *)

At(q, u, st, cs) == [sys |-> q, user |-> u, stash |-> st, calls |-> cs]
Here == At(sys, user, stash, calls)

OpAllowed(kind) == kind \in OpKinds /\ ops < MaxOps /\ ops' = ops + 1

(* A system message to b.                                                   *)
PostSystem(b, m, s) ==
    /\ sys' = SendSystemMessage(s.sys, b, m)
    /\ Posted(b, m)
    /\ user' = s.user /\ stash' = s.stash /\ calls' = s.calls
    /\ UNCHANGED <<spawning, parent>>

Watch(c, s) ==
    /\ c # Root
    /\ \E kind \in {"Watch", "Unwatch"}, b \in Known :
        /\ OpAllowed(kind)
        /\ PostSystem(b, M(kind, c), s)
        /\ intent' = IF Registered(b) THEN [intent EXCEPT ![c][b] = (kind = "Watch")]
                     ELSE intent

(* Stop goes through ActorProcess::Stop; a Restart is sent to a PID.        *)
Stop(c, s) ==
    /\ \E kind \in {"Stop", "Restart"}, b \in Known :
        /\ OpAllowed(kind)
        /\ PostSystem(b, M(kind, NoPID), s)
    /\ UNCHANGED intent

(* Watch and Unwatch of the root context name no watcher.                   *)
RootWatch(c, s) ==
    /\ c = Root
    /\ \E kind \in {"Watch", "Unwatch"}, b \in Known :
        /\ OpAllowed(kind)
        /\ PostSystem(b, M(kind, NoPID), s)
    /\ UNCHANGED intent

(* The constructor of a future throws before anything is sent.  In a        *)
(* handler nothing catches it until the mailbox's loop is left, with its    *)
(* status still running: the mailbox is not scheduled again.                *)
FutureThrows(c, s) ==
    /\ calls' = IF c = Root THEN s.calls ELSE [s.calls EXCEPT ![c] = <<"Thrown">>]
    /\ sys' = s.sys /\ user' = s.user /\ stash' = s.stash
    /\ UNCHANGED <<spawning, parent, intent, crashed>>

RequestFuture(c, s) == OpAllowed("RequestFuture") /\ FutureThrows(c, s)

(* StopFuture and PoisonFuture make their future first, too.                *)
StopFuture(c, s) ==
    /\ \E kind \in {"StopFuture", "PoisonFuture"} : OpAllowed(kind)
    /\ FutureThrows(c, s)

(* EscalateFailure: to the parent, if there is one.                         *)
EscalateFailure(c, s) ==
    /\ c # Root
    /\ OpAllowed("EscalateFailure")
    /\ sys' = IF parent[c] \in Actors THEN Put(s.sys, parent[c], M("Failure", c))
              ELSE s.sys
    /\ user' = s.user /\ stash' = s.stash /\ calls' = s.calls
    /\ UNCHANGED <<spawning, parent, intent, crashed>>

(* A user message to b.                                                     *)
Post(b, m, s) ==
    /\ user' = SendUserMessage(s.user, b, m)
    /\ Posted(b, m)
    /\ sys' = s.sys /\ stash' = s.stash /\ calls' = s.calls
    /\ UNCHANGED <<spawning, parent, intent>>

Send(c, s) ==
    /\ OpAllowed("Send")
    /\ \E b \in Known : Post(b, M("Message", NoPID), s)

Poison(c, s) ==
    /\ OpAllowed("Poison")
    /\ \E b \in Known : Post(b, M("PoisonPill", NoPID), s)

(* Request: the root has no PID, an actor's envelope is wrapped again.      *)
Request(c, s) ==
    /\ OpAllowed("Request")
    /\ \E b \in Known :
          Post(b, IF c = Root THEN M("Message", NoPID) ELSE Envelope(M("Message", c)), s)

RequestWithCustomSender(c, s) ==
    /\ OpAllowed("RequestWithCustomSender")
    /\ \E b \in Known, w \in {a \in Actors : spawning[a] = "done"} :
          Post(b, IF c = Root THEN M("Message", w) ELSE Envelope(M("Message", w)), s)

(* UnwrapEnvelope: only the envelope of a user message has a sender.        *)
UnwrapEnvelope(m) ==
    [message |-> m.type, sender |-> IF m.type = "Terminated" THEN NoPID ELSE m.pid]

Sender(m) == UnwrapEnvelope(m).sender

(* Respond: without a sender the response becomes a dead letter.            *)
Respond(c, m, s) ==
    /\ c # Root
    /\ OpAllowed("Respond")
    /\ IF Sender(m) # NoPID
       THEN Post(Sender(m), M("Response", NoPID), s)
       ELSE /\ crashed' \in {"no", "deadletter"}
            /\ sys' = s.sys /\ user' = s.user /\ stash' = s.stash /\ calls' = s.calls
            /\ UNCHANGED <<spawning, parent, intent>>

Stash(c, m, s) ==
    /\ c # Root
    /\ OpAllowed("Stash")
    /\ stash' = [s.stash EXCEPT ![c] = Append(@, m)]
    /\ sys' = s.sys /\ user' = s.user /\ calls' = s.calls
    /\ UNCHANGED <<spawning, parent, intent, crashed>>

(* Unstash and UnstashAll call the handler again, inside the handler.       *)
Unstash(c, s) ==
    /\ c # Root
    /\ s.stash[c] # <<>>
    /\ \E kind \in {"Unstash", "UnstashAll"} :
        /\ OpAllowed(kind)
        /\ calls' = [s.calls EXCEPT ![c] = <<kind>> \o @]
    /\ sys' = s.sys /\ user' = s.user /\ stash' = s.stash
    /\ UNCHANGED <<spawning, parent, intent, crashed>>

(* The first step of the default spawner: the process is in the registry.   *)
SpawnAdd(c, s) ==
    /\ OpAllowed("Spawn")
    /\ \E b \in Actors :
        /\ spawning[b] = "unborn"
        /\ spawning' = [spawning EXCEPT ![b] = "added"]
        /\ parent' = [parent EXCEPT ![b] = c]
    /\ sys' = s.sys /\ user' = s.user /\ stash' = s.stash /\ calls' = s.calls
    /\ UNCHANGED <<intent, crashed>>

AnyOp(c, m, s) ==
    \/ Watch(c, s) \/ Stop(c, s) \/ RootWatch(c, s)
    \/ RequestFuture(c, s) \/ StopFuture(c, s)
    \/ EscalateFailure(c, s)
    \/ Send(c, s)
    \/ Poison(c, s)
    \/ Request(c, s)
    \/ RequestWithCustomSender(c, s)
    \/ Respond(c, m, s)
    \/ Stash(c, m, s)
    \/ Unstash(c, s)
    \/ SpawnAdd(c, s)

NoOp(s) ==
    /\ sys' = s.sys /\ user' = s.user /\ stash' = s.stash /\ calls' = s.calls
    /\ UNCHANGED <<spawning, parent, intent, crashed, ops>>

(* A handler performs an operation or none, after Receive was entered.      *)
Receive(a, m, s) ==
    /\ AnyOp(a, m, s) \/ NoOp(s)
    /\ log' = [log EXCEPT ![a] = Append(@, m.type)]

(* InvokeUserMessage: a stopped actor drops the message.                    *)
InvokeUserMessage(a, m, s) ==
    IF life[a] = "STOPPED"
    THEN NoOp(s) /\ log' = log
    ELSE Receive(a, m, s)

-----------------------------------------------------------------------------
(* Application and spawning steps                                           *)

RootOp ==
    /\ crashed = "no"
    /\ AnyOp(Root, M("None", NoPID), Here)
    /\ UNCHANGED <<life, watchers, children, log>>

(* SetSelf and RegisterHandlers: the mailbox can be scheduled.              *)
SpawnReady(b) ==
    /\ crashed = "no"
    /\ spawning[b] = "added"
    /\ spawning' = [spawning EXCEPT ![b] = "ready"]
    /\ UNCHANGED <<parent, life, calls, sys, user, watchers, children, stash, log,
                   intent, crashed, ops>>

(* Mutant: Started is not posted.                                           *)
SpawnWithoutStarted(b) ==
    /\ crashed = "no"
    /\ spawning[b] = "ready"
    /\ spawning' = [spawning EXCEPT ![b] = "done"]
    /\ children' = IF parent[b] \in Actors THEN Note(children, parent[b], b) ELSE children
    /\ UNCHANGED <<sys, parent, life, calls, user, watchers, stash, log, intent, crashed,
                   ops>>

(* Started is posted, Spawn returns and a parent notes its child.           *)
SpawnDone(b) ==
    /\ crashed = "no"
    /\ spawning[b] = "ready"
    /\ spawning' = [spawning EXCEPT ![b] = "done"]
    /\ sys' = Put(sys, b, M("Started", NoPID))
    /\ children' = IF parent[b] \in Actors THEN Note(children, parent[b], b) ELSE children
    /\ UNCHANGED <<parent, life, calls, user, watchers, stash, log, intent, crashed,
                   ops>>

(* The actor's thread is not inside a Spawn and its mailbox can run.        *)
CanRun(a) ==
    /\ crashed = "no"
    /\ spawning[a] \in {"ready", "done"}
    /\ \A b \in Actors : parent[b] = a => spawning[b] \notin {"added", "ready"}

-----------------------------------------------------------------------------
(* The mailbox loop and the handlers                                        *)

(* The innermost call that a's thread has to finish.                        *)
Calling(a, names) == CanRun(a) /\ calls[a] # <<>> /\ Head(calls[a]) \in names

(* ProcessLoop finds no system message and turns to the user queue.         *)
LookUser(a) ==
    /\ CanRun(a)
    /\ calls[a] = <<>> /\ sys[a] = <<>> /\ user[a] # <<>>
    /\ calls' = [calls EXCEPT ![a] = <<"PopUser">>]
    /\ UNCHANGED <<spawning, parent, life, sys, user, watchers, children, stash, log,
                   intent, crashed, ops>>

TakeUser(a) ==
    /\ Calling(a, {"PopUser"})
    /\ InvokeUserMessage(a, Head(user[a]),
           At(sys, Drop(user, a), stash, Drop(calls, a)))
    /\ UNCHANGED <<life, watchers, children>>

(* InvokeSystemMessage, by the type of the message.                         *)
Takes(a, type) ==
    /\ CanRun(a)
    /\ calls[a] = <<>> /\ sys[a] # <<>>
    /\ Head(sys[a]).type = type

Rest(a) == Drop(sys, a)

HandleStarted(a) ==
    /\ Takes(a, "Started")
    /\ Receive(a, Head(sys[a]), At(Rest(a), user, stash, calls))
    /\ UNCHANGED <<life, watchers, children>>

(* Mutant: a living actor answers at once.                                  *)
HandleWatchEager(a) ==
    /\ Takes(a, "Watch")
    /\ sys' = IF Head(sys[a]).pid = NoPID THEN Rest(a)
              ELSE SendSystemMessage(Rest(a), Head(sys[a]).pid, M("Terminated", a))
    /\ UNCHANGED <<spawning, parent, life, calls, user, watchers, children, stash, log,
                   intent, crashed, ops>>

(* Mutant: a stopped actor takes the watcher into its list.                 *)
HandleWatchLate(a) ==
    /\ Takes(a, "Watch")
    /\ sys' = Rest(a)
    /\ watchers' = Note(watchers, a, Head(sys[a]).pid)
    /\ UNCHANGED <<spawning, parent, life, calls, user, children, stash, log, intent,
                   crashed, ops>>

HandleWatch(a) ==
    /\ Takes(a, "Watch")
    /\ LET w == Head(sys[a]).pid
       IN  IF w = NoPID THEN sys' = Rest(a) /\ watchers' = watchers
           ELSE IF life[a] = "STOPPED"
           THEN /\ sys' = SendSystemMessage(Rest(a), w, M("Terminated", a))
                /\ watchers' = watchers
           ELSE /\ sys' = Rest(a)
                /\ watchers' = Note(watchers, a, w)
    /\ UNCHANGED <<spawning, parent, life, calls, user, children, stash, log, intent,
                   crashed, ops>>

(* Mutant: what std::remove moved to the end is not erased.                 *)
HandleUnwatchKeeps(a) ==
    /\ Takes(a, "Unwatch")
    /\ sys' = Rest(a)
    /\ UNCHANGED <<spawning, parent, life, calls, user, watchers, children, stash, log,
                   intent, crashed, ops>>

(* std::remove drops every entry of the watcher.                            *)
HandleUnwatch(a) ==
    /\ Takes(a, "Unwatch")
    /\ watchers' = [watchers EXCEPT ![a] = @ \ {Head(sys[a]).pid}]
    /\ sys' = Rest(a)
    /\ UNCHANGED <<spawning, parent, life, calls, user, children, stash, log, intent,
                   crashed, ops>>

(* Only the state changes: children, watchers and the registry are not      *)
(* touched, and the actor is not told.                                      *)
HandleStop(a) ==
    /\ Takes(a, "Stop")
    /\ life' = [life EXCEPT ![a] = "STOPPED"]
    /\ sys' = Rest(a)
    /\ UNCHANGED <<spawning, parent, calls, user, watchers, children, stash, log, intent,
                   crashed, ops>>

HandleTerminated(a) ==
    /\ Takes(a, "Terminated")
    /\ children' = [children EXCEPT ![a] = @ \ {Head(sys[a]).pid}]
    /\ InvokeUserMessage(a, Head(sys[a]), At(Rest(a), user, stash, calls))
    /\ UNCHANGED <<life, watchers>>

(* A failure is passed on to the parent; no strategy is asked.              *)
HandleFailure(a) ==
    /\ Takes(a, "Failure")
    /\ sys' = IF parent[a] \in Actors THEN Put(Rest(a), parent[a], Head(sys[a]))
              ELSE Rest(a)
    /\ UNCHANGED <<spawning, parent, life, calls, user, watchers, children, stash, log,
                   intent, crashed, ops>>

(* HandleRestart: Restarting to the old actor, ...                          *)
HandleRestart(a) ==
    /\ Takes(a, "Restart")
    /\ life' = [life EXCEPT ![a] = "RESTARTING"]
    /\ Receive(a, M("Restarting", NoPID),
          At(Rest(a), user, stash, [calls EXCEPT ![a] = <<"IncarnateActor">>]))
    /\ UNCHANGED <<watchers, children>>

(* ... IncarnateActor and Started to the new one, then the whole stash.     *)
IncarnateActor(a) ==
    /\ Calling(a, {"IncarnateActor"})
    /\ life' = [life EXCEPT ![a] = "ALIVE"]
    /\ Receive(a, M("Started", NoPID),
          At(sys, user, stash, [calls EXCEPT ![a] = <<"Restore">>]))
    /\ UNCHANGED <<watchers, children>>

(* Unstash hands over one message, the others go on.                        *)
Resumed(a) == IF Head(calls[a]) = "Unstash" THEN Drop(calls, a) ELSE calls

(* Mutant: the stash is cleared after its first message.                    *)
PopStashClears(a) ==
    /\ Calling(a, {"Unstash", "UnstashAll", "Restore"})
    /\ stash[a] # <<>>
    /\ InvokeUserMessage(a, stash[a][Len(stash[a])],
          At(sys, user, [stash EXCEPT ![a] = <<>>], Resumed(a)))
    /\ UNCHANGED <<life, watchers, children>>

(* The message on top of the stash is handed to the actor: once, or until   *)
(* the stash is empty.                                                      *)
PopStash(a) ==
    /\ Calling(a, {"Unstash", "UnstashAll", "Restore"})
    /\ stash[a] # <<>>
    /\ LET n == Len(stash[a])
       IN  InvokeUserMessage(a, stash[a][n],
              At(sys, user, [stash EXCEPT ![a] = SubSeq(@, 1, n - 1)], Resumed(a)))
    /\ UNCHANGED <<life, watchers, children>>

StashEmptied(a) ==
    /\ Calling(a, {"UnstashAll", "Restore"})
    /\ stash[a] = <<>>
    /\ calls' = [calls EXCEPT ![a] = Tail(@)]
    /\ life' = [life EXCEPT ![a] = IF Head(calls[a]) = "Restore" THEN "ALIVE" ELSE @]
    /\ UNCHANGED <<spawning, parent, sys, user, watchers, children, stash, log, intent,
                   crashed, ops>>

Run(a) ==
    \/ LookUser(a) \/ TakeUser(a) \/ HandleStarted(a) \/ HandleWatch(a)
    \/ HandleUnwatch(a) \/ HandleStop(a) \/ HandleTerminated(a) \/ HandleFailure(a)
    \/ HandleRestart(a) \/ IncarnateActor(a) \/ PopStash(a) \/ StashEmptied(a)

Next ==
    \/ RootOp
    \/ \E b \in Actors : SpawnReady(b)
    \/ \E b \in Actors : SpawnDone(b)
    \/ \E a \in Actors : Run(a)

Spec == Init /\ [][Next]_vars

(* Threads of the pool run the mailboxes, a Spawn that began goes on.       *)
FairSpec ==
    /\ Spec
    /\ \A a \in Actors : WF_vars(Run(a)) /\ WF_vars(SpawnReady(a) \/ SpawnDone(a))

-----------------------------------------------------------------------------
(* Properties                                                               *)

Elements(s) == {s[i] : i \in DOMAIN s}

UserTypes == {"Message", "PoisonPill", "Envelope", "Response", "DeadLetterResponse"}
SystemTypes == {"Started", "Watch", "Unwatch", "Stop", "Terminated", "Failure", "Restart"}
MessagesOf(types) == [type : types, pid : Actors \cup {NoPID}]

TypeOK ==
    /\ spawning \in [Actors -> {"unborn", "added", "ready", "done"}]
    /\ parent \in [Actors -> Actors \cup {Root}]
    /\ life \in [Actors -> {"ALIVE", "RESTARTING", "STOPPED"}]
    /\ calls \in [Actors -> Seq({"PopUser", "Unstash", "UnstashAll", "IncarnateActor",
                                 "Restore", "Thrown"})]
    /\ sys \in [Actors -> Seq(MessagesOf(SystemTypes))]
    /\ user \in [Actors -> Seq(MessagesOf(UserTypes))]
    /\ watchers \in [Actors -> SUBSET Actors]
    /\ children \in [Actors -> SUBSET Actors]
    /\ stash \in [Actors -> Seq(MessagesOf(UserTypes \cup SystemTypes \cup {"Restarting"}))]
    /\ log \in [Actors -> Seq(UserTypes \cup SystemTypes \cup {"Restarting"})]
    /\ intent \in [Actors -> [Actors -> BOOLEAN]]
    /\ crashed \in {"no", "dispatcher", "deadletter"}
    /\ ops \in 0..MaxOps

(* The first message an actor's Receive is called with is Started.          *)
StartedFirst == \A a \in Actors : log[a] # <<>> => log[a][1] = "Started"

(* Once its mailbox has no word of w left, an actor's watcher list holds w  *)
(* only if the last thing w asked for was to watch, however many Watch and  *)
(* Unwatch messages crossed before; and it does hold w then, unless the     *)
(* actor has been stopped (it has answered instead) or restarted since.     *)
WatchersFollowIntent ==
    \A a, w \in Actors :
        (\A m \in Elements(sys[a]) : m.type \in {"Watch", "Unwatch"} => m.pid # w)
        => /\ w \in watchers[a] => intent[w][a]
           /\ (intent[w][a] /\ life[a] = "ALIVE" /\ "Restarting" \notin Elements(log[a]))
                => w \in watchers[a]

(* A parent never forgets a child that lives: Terminated for it can only    *)
(* come from a child that has stopped.  A child that is restarted after it  *)
(* was stopped is not taken back.                                           *)
LivingChildListed ==
    \A a \in Actors :
        ( /\ spawning[a] = "done" /\ parent[a] \in Actors
          /\ life[a] = "ALIVE" /\ "Restarting" \notin Elements(log[a]) )
        => a \in children[parent[a]]

(* A message taken off the stash is handed to Receive, also by an actor     *)
(* that is restarted after it was stopped: unstashing loses no message.     *)
UnstashedIsReceived ==
    [][\A a \in Actors :
          Len(stash[a]) - Len(stash'[a]) <= Len(log'[a]) - Len(log[a])]_vars

(* A Watch that reaches a stopped actor is answered: the watcher receives   *)
(* Terminated, unless it stops, its handler throws or the program dies.     *)
LateWatchAnswered ==
    \A w \in Actors :
        (\E a \in Actors : /\ life[a] = "STOPPED" /\ CanRun(a) /\ calls[a] = <<>>
                           /\ sys[a] # <<>> /\ Head(sys[a]) = M("Watch", w))
        ~> \/ "Terminated" \in Elements(log[w])
           \/ life[w] = "STOPPED" \/ calls[w] = <<"Thrown">>
           \/ crashed # "no"

(* Who watches an actor receives Terminated when it stops.                  *)
WatcherNotified ==
    \A a, w \in Actors :
        (w \in watchers[a] /\ life[a] = "STOPPED")
            ~> ("Terminated" \in Elements(log[w]) \/ life[w] = "STOPPED")

=============================================================================
