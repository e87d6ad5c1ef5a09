---------------------------- MODULE Supervision ----------------------------
(***************************************************************************)
(* Supervision strategies and restart statistics                           *)
(* (src/src/actor/supervision.cpp).                                        *)
(*                                                                         *)
(* A supervisor records failures of its children with                      *)
(* RestartStatistics::Fail and asks its strategy what to do.  No code of   *)
(* the repository calls either, so both orders of the two calls, and any   *)
(* decider, are allowed.                                                   *)
(***************************************************************************)
EXTENDS Naturals

CONSTANTS Children,
          MaxRetries,  \* max_retries_
          Within,      \* within_duration_, in ticks
          MaxFailures  \* bound on the failures recorded per child

VARIABLES strategy,    \* the class of the strategy
          stats,       \* RestartStatistics of each child
          fate,        \* what the supervisor last did to each child
          since        \* failures recorded since the statistics were last found stale

supervisionVars == <<strategy, stats, fate, since>>

Strategies == {"OneForOne", "AllForOne", "Restarting"}
Directives == {"Resume", "Restart", "Stop", "Escalate"}

(* The age of the last failure saturates just beyond the window, where     *)
(* time_point::min() of fresh statistics lies too.                         *)
Old == Within + 1
Fresh == [failure_count |-> 0, age |-> Old]

Init == /\ strategy \in Strategies
        /\ stats = [c \in Children |-> Fresh]
        /\ fate = [c \in Children |-> "running"]
        /\ since = [c \in Children |-> 0]

Tick == /\ stats' = [c \in Children |->
                       [stats[c] EXCEPT !.age = IF @ < Old THEN @ + 1 ELSE @]]
        /\ UNCHANGED <<strategy, fate, since>>

Fail(c) == /\ since[c] < MaxFailures
           /\ stats' = [stats EXCEPT ![c] = [failure_count |-> @.failure_count + 1, age |-> 0]]
           /\ since' = [since EXCEPT ![c] = @ + 1]
           /\ UNCHANGED <<strategy, fate>>

Reset(c) == /\ stats' = [stats EXCEPT ![c] = Fresh]
            /\ since' = [since EXCEPT ![c] = 0]
            /\ UNCHANGED <<strategy, fate>>

(* elapsed > within_duration_ while failures are counted                   *)
Stale(c) == stats[c].failure_count # 0 /\ stats[c].age > Within

(* The answer of ShouldStop, which resets stale statistics on the way.     *)
ShouldStop(c) ==
  stats[c].failure_count # 0 /\ ~Stale(c) /\ stats[c].failure_count >= MaxRetries

(* Mutant: stale statistics are answered with a restart but not reset.     *)
StatsKept(c) == stats

Asked(c) == IF Stale(c) THEN [stats EXCEPT ![c] = Fresh] ELSE stats

Affect(cs, what) == fate' = [c \in Children |-> IF c \in cs THEN what ELSE fate[c]]

(* What a directive does to the children in cs, one or all of them.        *)
Apply(c, directive, cs) ==
  \/ directive = "Resume" /\ Affect({c}, "resumed") /\ UNCHANGED <<stats, since>>
  \/ /\ directive = "Restart"
     /\ Affect(cs, IF ShouldStop(c) THEN "stopped after retries" ELSE "restarted")
     /\ stats' = Asked(c)
     /\ since' = [since EXCEPT ![c] = IF Stale(c) THEN 0 ELSE @]
  \/ directive = "Stop" /\ Affect(cs, "stopped") /\ UNCHANGED <<stats, since>>
  \/ directive = "Escalate" /\ Affect({c}, "escalated") /\ UNCHANGED <<stats, since>>

OneForOneHandleFailure(c, d) == strategy = "OneForOne" /\ Apply(c, d, {c})
AllForOneHandleFailure(c, d) == strategy = "AllForOne" /\ Apply(c, d, Children)
RestartingHandleFailure(c) == /\ strategy = "Restarting" /\ Affect({c}, "restarted")
                              /\ UNCHANGED <<stats, since>>

HandleFailure(c) ==
  /\ \/ \E d \in Directives : OneForOneHandleFailure(c, d) \/ AllForOneHandleFailure(c, d)
     \/ RestartingHandleFailure(c)
  /\ UNCHANGED strategy

Next == Tick \/ \E c \in Children : Fail(c) \/ Reset(c) \/ HandleFailure(c)

---------------------------------------------------------------------------
(* A strategy turns a restart into a stop only for a child that recorded   *)
(* max_retries_ failures after the supervisor last asked about it in vain: *)
(* a question that found the last failure older than within_duration_      *)
(* forgives all failures before it, whatever the order of Fail and         *)
(* HandleFailure.                                                          *)
StopNeedsRetries ==
  [][\A c \in Children :
       fate[c] # "stopped after retries" /\ fate'[c] = "stopped after retries" =>
         \E d \in Children : /\ since[d] >= MaxRetries /\ stats[d].age <= Within
                             /\ strategy = "AllForOne" \/ d = c]_supervisionVars
=============================================================================
