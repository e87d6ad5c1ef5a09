------------------------------- MODULE Timers -------------------------------
(***************************************************************************)
(* Timers (src/src/scheduler/timer.cpp) and the receive timeouts that      *)
(* ActorContext builds on them (src/src/actor/actor_context.cpp).          *)
(*                                                                         *)
(* Every timer is a thread of its own.  The function that cancels it       *)
(* raises a flag and joins the thread.  Slot "receive" is the timer of     *)
(* receive_timeout_timer_, used by the actor only; slot "other" is a timer *)
(* whose cancel function is shared by every caller.  Time is abstract: a   *)
(* sleeping thread may wake up at any moment.  One actor receives the      *)
(* messages of both timers; with the synchronized dispatcher its handler   *)
(* may run on the thread of a timer.                                       *)
(***************************************************************************)
EXTENDS Naturals

CONSTANTS Callers,    \* threads that may call the cancel function
          Timeouts    \* receive timeouts in milliseconds, 0 included

VARIABLES timer,            \* the timer of each slot, see NoTimer
          call,             \* progress of each caller inside a cancel function
          receive_timeout,  \* receive_timeout_ of the actor
          rearm,            \* the actor still has to start its next timer
          dropped,          \* a joinable std::thread lost its last owner
          inline,           \* the actor uses the synchronized dispatcher
          ended             \* what ended the process: "no", "freed" or "self-join"

timerVars == <<timer, call, receive_timeout, rearm, dropped, inline, ended>>
process == <<inline, ended>>

Slots == {"receive", "other"}
Actor == CHOOSE c \in Callers : TRUE

(* state and cancelled are the shared atomics; late counts, up to 2, the   *)
(* messages sent after the first cancel call had announced itself; joined: *)
(* a cancel call has joined the thread.                                    *)
NoTimer == [kind |-> "none", state |-> 0, cancelled |-> FALSE,
            pc |-> "none", late |-> 0, joined |-> FALSE]

Idle == [slot |-> "none", step |-> "idle"]

Init == /\ timer = [s \in Slots |-> NoTimer]
        /\ call = [c \in Callers |-> Idle]
        /\ receive_timeout = 0
        /\ rearm = FALSE
        /\ dropped = FALSE
        /\ inline \in BOOLEAN
        /\ ended = "no"

Held(s) == timer[s].pc # "none" /\ ~timer[s].joined

(* A new thread takes the slot.  If the old one was not joined, its owner  *)
(* is destroyed while joinable, which ends the program.                    *)
Begin(s, k) ==
  /\ timer' = [timer EXCEPT ![s] =
                 [NoTimer EXCEPT !.kind = k,
                                 !.pc = IF k = "once" THEN "sleep" ELSE "spin"]]
  /\ dropped' = (dropped \/ Held(s))

SendOnce(s) == Begin(s, "once")
RequestOnce(s) == Begin(s, "once")
SendRepeatedly(s) == Begin(s, "repeat")
RequestRepeatedly(s) == Begin(s, "repeat")

(* A client starts the other timer once it has cancelled the last one.     *)
StartOther ==
  /\ ~Held("other")
  /\ \A c \in Callers : call[c].slot # "other"
  /\ \/ SendOnce("other")
     \/ RequestOnce("other")
     \/ SendRepeatedly("other")
     \/ RequestRepeatedly("other")
  /\ UNCHANGED <<call, receive_timeout, rearm, process>>

(* state->store(1), after which the cancel function is returned            *)
Ready(s) == /\ timer[s].kind = "repeat" /\ timer[s].state = 0
            /\ timer' = [timer EXCEPT ![s].state = 1]
            /\ UNCHANGED <<call, receive_timeout, rearm, dropped, process>>

---------------------------------------------------------------------------
(* The thread of a timer.                                                  *)

Goes(s, pc) == /\ timer' = [timer EXCEPT ![s].pc = pc]
               /\ UNCHANGED <<call, receive_timeout, rearm, dropped, process>>

(* Mutant: the thread waits for state 1 and misses a timer already cancelled. *)
SpinsUntilReady(s) == /\ timer[s].pc = "spin" /\ timer[s].state = 1
                      /\ Goes(s, "sleep")

SpinEnds(s) == /\ timer[s].pc = "spin" /\ timer[s].state # 0
               /\ Goes(s, IF timer[s].state = 2 THEN "done" ELSE "sleep")

Wakes(s) == /\ timer[s].pc = "sleep"
            /\ Goes(s, IF timer[s].cancelled THEN "done"
                       ELSE IF timer[s].kind = "once" THEN "send" ELSE "check")

ChecksState(s) == /\ timer[s].pc = "check"
                  /\ Goes(s, IF timer[s].state = 2 THEN "done" ELSE "send")

AfterMessage(s) == IF timer[s].kind = "once" THEN "done" ELSE "sleep"

(* The actor is between two of its own steps on some other thread.         *)
Resting == call[Actor] = Idle /\ ~rearm /\ \A s \in Slots : timer[s].pc # "handler"

(* ctx_->Send or ctx_->Request, then the end or the next interval.  With   *)
(* the synchronized dispatcher the handler may run before the call returns. *)
Sends(s) ==
  /\ timer[s].pc = "send"
  /\ \E place \in {AfterMessage(s)} \cup (IF inline /\ Resting THEN {"handler"} ELSE {}) :
       timer' = [timer EXCEPT ![s] =
         [timer[s] EXCEPT !.pc = place,
                          !.late = IF (timer[s].cancelled \/ timer[s].state = 2) /\ @ < 2
                                   THEN @ + 1 ELSE @]]
  /\ UNCHANGED <<call, receive_timeout, rearm, dropped, process>>

(* The scheduler whose ctx_ a receive timeout uses was freed at the end of *)
(* SetReceiveTimeout.  Besides a message that is sent after all, the read  *)
(* of freed memory may end the process, or the message is lost.            *)
UsesFreed(s) ==
  /\ timer[s].pc = "send" /\ s = "receive"
  /\ \/ Goes(s, AfterMessage(s))
     \/ ended' = "freed" /\ UNCHANGED <<timer, call, receive_timeout, rearm, dropped, inline>>

(* The handler on the timer's thread returns from its last call.           *)
HandlerReturns(s) ==
  /\ timer[s].pc = "handler" /\ call[Actor] = Idle /\ ~rearm
  /\ Goes(s, AfterMessage(s))

Thread(s) == SpinEnds(s) \/ Wakes(s) \/ ChecksState(s) \/ Sends(s) \/ UsesFreed(s)

---------------------------------------------------------------------------
(* The cancel functions.  Two threads may not cancel a one-shot timer at   *)
(* the same time (both would join it); a repeated one accepts that.        *)

Cancel(c, s, r) ==
  /\ timer' = [timer EXCEPT ![s] =
                 [timer[s] EXCEPT !.cancelled = @ \/ timer[s].kind = "once",
                                  !.state = IF timer[s].kind = "repeat" THEN 2 ELSE @]]
  /\ call' = [call EXCEPT ![c] =
                IF timer[s].kind = "once"
                THEN IF timer[s].joined THEN Idle ELSE [slot |-> s, step |-> "join"]
                ELSE IF timer[s].state = 2 THEN Idle ELSE [slot |-> s, step |-> "store"]]
  /\ rearm' = r
  /\ UNCHANGED <<dropped, process>>

CancelOther(c) ==
  /\ call[c] = Idle /\ ~(c = Actor /\ rearm)
  /\ \/ /\ timer["other"].kind = "once"
        /\ \A d \in Callers : call[d].slot # "other"
     \/ timer["other"].kind = "repeat" /\ timer["other"].state # 0
  /\ Cancel(c, "other", rearm)
  /\ UNCHANGED receive_timeout

StoreCancelled(c) ==
  /\ call[c].step = "store"
  /\ timer' = [timer EXCEPT ![call[c].slot].cancelled = TRUE]
  /\ call' = [call EXCEPT ![c].step = "join"]
  /\ UNCHANGED <<receive_timeout, rearm, dropped, process>>

Join(c) ==
  /\ call[c].step = "join" /\ timer[call[c].slot].pc = "done"
  /\ timer' = [timer EXCEPT ![call[c].slot].joined = TRUE]
  /\ call' = [call EXCEPT ![c] = Idle]
  /\ UNCHANGED <<receive_timeout, rearm, dropped, process>>

(* A handler that runs on the timer's own thread joins itself: the         *)
(* std::system_error leaves the thread's function and ends the process.    *)
JoinItself ==
  /\ call[Actor].step = "join" /\ timer[call[Actor].slot].pc = "handler"
  /\ ended' = "self-join"
  /\ UNCHANGED <<timer, call, receive_timeout, rearm, dropped, inline>>

---------------------------------------------------------------------------
(* Receive timeouts: the actor changes its timeout while it handles a      *)
(* message.  A timer that is present is cancelled and joined first.        *)

SetReceiveTimeout(t) ==
  /\ call[Actor] = Idle /\ ~rearm
  /\ t # receive_timeout
  /\ receive_timeout' = t
  /\ IF Held("receive") THEN Cancel(Actor, "receive", t > 0)
     ELSE IF t > 0 THEN SendOnce("receive") /\ UNCHANGED <<call, rearm, process>>
     ELSE UNCHANGED <<timer, call, rearm, dropped, process>>

StartReceiveTimer ==
  /\ call[Actor] = Idle /\ rearm
  /\ SendOnce("receive")
  /\ rearm' = FALSE
  /\ UNCHANGED <<call, receive_timeout, process>>

CancelReceiveTimeout ==
  /\ call[Actor] = Idle /\ ~rearm /\ Held("receive")
  /\ Cancel(Actor, "receive", FALSE)
  /\ receive_timeout' = 0

Next == /\ ended = "no"
        /\ \/ StartOther
           \/ \E s \in Slots : Ready(s) \/ Thread(s) \/ HandlerReturns(s)
           \/ \E c \in Callers : CancelOther(c) \/ StoreCancelled(c) \/ Join(c)
           \/ JoinItself
           \/ \E t \in Timeouts : SetReceiveTimeout(t)
           \/ StartReceiveTimer
           \/ CancelReceiveTimeout

---------------------------------------------------------------------------
(* At most the one message already on its way is sent after the first      *)
(* cancel call announced itself, and none once a call has joined the       *)
(* thread; no thread loses its owner before it was joined.                 *)
Quiet == /\ \A s \in Slots : timer[s].late <= 1 /\ (timer[s].joined => timer[s].pc = "done")
         /\ ~dropped

(* Cancelling stops a timer, whoever cancels it, however the calls race    *)
(* with its thread, and in any sequence of SetReceiveTimeout and           *)
(* CancelReceiveTimeout; and every call comes back, as the thread it waits *)
(* for sees the flags within a round, unless the process ends first: only  *)
(* a receive timeout that fires can end it by its freed scheduler, and     *)
(* only a handler on the timer's own thread by a join of itself.           *)
CancelStops ==
  /\ []Quiet
  /\ \A c \in Callers : (call[c] # Idle) ~> (call[c] = Idle \/ ended # "no")
  /\ [](ended = "freed" => timer["receive"].pc = "send")
  /\ [](ended = "self-join" => inline /\ call[Actor].step = "join")

(* The threads run on, the calls proceed, and a handler makes finitely     *)
(* many calls before it returns.                                           *)
Fairness ==
  /\ \A s \in Slots : /\ WF_timerVars(ended = "no" /\ Ready(s))
                       /\ WF_timerVars(ended = "no" /\ Thread(s))
                       /\ SF_timerVars(ended = "no" /\ HandlerReturns(s))
  /\ \A c \in Callers : /\ WF_timerVars(ended = "no" /\ StoreCancelled(c))
                         /\ WF_timerVars(ended = "no" /\ Join(c))
  /\ WF_timerVars(ended = "no" /\ JoinItself)
  /\ WF_timerVars(ended = "no" /\ StartReceiveTimer)
=============================================================================
