---------------------------- MODULE MCEventKernel ----------------------------
(* Two waiters and one setter.  One waiter polls and makes interruptible timed
   waits, the other waits for nothing but the event, interruptibly or not. *)
EXTENDS OsalEventKernel, TLC

CONSTANTS w1, w2

MCWaiters == {w1, w2}
MCCalls ==
    w1 :> {[ms |-> "poll", interruptible |-> TRUE],
           [ms |-> "timed", interruptible |-> TRUE]}
    @@ w2 :> {[ms |-> "forever", interruptible |-> TRUE],
              [ms |-> "forever", interruptible |-> FALSE]}
=============================================================================
