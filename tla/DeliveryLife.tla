--------------------------- MODULE DeliveryLife ---------------------------
(***************************************************************************)
(* What a customer is promised of the deliveries of his webhooks           *)
(* (schema/webhooks.ts, webhooks/dispatch.ts), whatever happens to sweeps  *)
(* and endpoints: one POST at a time, each answer counted once, delivered  *)
(* at the first success, exhausted at the last failure or retired without  *)
(* an attempt, and nothing after that.  A POST whose sweep dies is not     *)
(* counted.                                                                *)
(***************************************************************************)
EXTENDS Naturals

CONSTANTS Deliveries, MaxAttempts

VARIABLES
  life,      \* of each delivery: its status, and the attempts counted
  flight     \* the deliveries that are being POSTed

Stage(status, attempts) == [status |-> status, attempts |-> attempts]
Unrecorded == Stage("none", 0)
Unsettled == {"pending", "failed"}

Init == life = [d \in Deliveries |-> Unrecorded] /\ flight = {}

\* One INSERT for all endpoints of an event.
Record(new) ==
  /\ \A d \in new : life[d] = Unrecorded
  /\ life' = [d \in Deliveries |-> IF d \in new THEN Stage("pending", 0) ELSE life[d]]
  /\ UNCHANGED flight

Post(d) ==
  /\ flight = {} /\ flight' = {d}
  /\ life[d].status \in Unsettled
  /\ UNCHANGED life

Verdicts(count) ==
  {"delivered", IF count < MaxAttempts THEN "failed" ELSE "exhausted"}

Answer(d) ==
  LET count == life[d].attempts + 1
  IN  /\ flight = {d} /\ flight' = {}
      /\ \E verdict \in Verdicts(count) :
           life' = [life EXCEPT ![d] = Stage(verdict, count)]

Retire(d) ==
  /\ flight = {} /\ life[d].status \in Unsettled
  /\ life' = [life EXCEPT ![d] = Stage("exhausted", @.attempts)]
  /\ UNCHANGED flight

Lose == flight' = {} /\ UNCHANGED life

Next ==
  \/ \E new \in SUBSET Deliveries : Record(new)
  \/ \E d \in Deliveries : Post(d) \/ Answer(d) \/ Retire(d)
  \/ Lose

Spec == Init /\ [][Next]_<<life, flight>>
=============================================================================
