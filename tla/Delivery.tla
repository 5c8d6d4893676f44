------------------------------ MODULE Delivery ------------------------------
(***************************************************************************)
(* What the queues of this repository promise their publishers, with no    *)
(* broker, copy, timeout, acknowledgement or consumer in it: a message     *)
(* taken stays pending until its work is done or it is buried, and no      *)
(* work is done on what was never taken.  Work may be repeated, and a late *)
(* consumer may still do it when the message is buried already.            *)
(***************************************************************************)
CONSTANT Messages

VARIABLES
  pending,          \* messages the queue still has to deliver
  worked,           \* messages whose work is done
  buried            \* messages in the dead-letter queue

vars == <<pending, worked, buried>>

Init == pending = {} /\ worked = {} /\ buried = {}

Accept(m) ==
  /\ pending' = pending \cup {m}
  /\ UNCHANGED <<worked, buried>>

Work(m) ==
  /\ m \in pending \cup buried
  /\ worked' = worked \cup {m}
  /\ UNCHANGED <<pending, buried>>

\* The one way out of the queue that is not a burial.
Finish(m) ==
  /\ m \in pending /\ m \in worked \cup buried
  /\ pending' = pending \ {m}
  /\ UNCHANGED <<worked, buried>>

\* The buried copy may be a second one beside the pending message.
Bury(m) ==
  /\ m \in pending
  /\ buried' = buried \cup {m}
  /\ pending' \in {pending, pending \ {m}}
  /\ UNCHANGED worked

Next == \E m \in Messages : Accept(m) \/ Work(m) \/ Finish(m) \/ Bury(m)

Spec == Init /\ [][Next]_vars
=============================================================================
