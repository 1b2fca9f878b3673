---------------------------- MODULE ActionLife ----------------------------
(***************************************************************************)
(* What the ledger of automation promises of each action                   *)
(* (schema/automation.ts, executor.ts), whoever plans, decides and         *)
(* executes: it is proposed or born approved, decided once, its adapter is *)
(* called once and only when it is approved, and an outcome is recorded    *)
(* once, after the call.  An action may stay where it is for ever.         *)
(***************************************************************************)
EXTENDS Naturals

CONSTANT Actions        \* the rows the ledger may come to have

VARIABLE life           \* of each: its status, and the calls of its adapter

Stage(status, calls) == [status |-> status, calls |-> calls]
Unborn == Stage("none", 0)
Newborn == {Stage("proposed", 0), Stage("approved", 0)}
Stages == [status : {"none", "proposed", "approved", "rejected", "executed", "failed"},
           calls : {0, 1}]

Init == life = [a \in Actions |-> Unborn]

\* One INSERT for some of them.
Propose ==
  /\ life' \in [Actions -> Stages]
  /\ \A a \in Actions :
       life'[a] # life[a] => life[a] = Unborn /\ life'[a] \in Newborn

\* One row goes from one stage to the next.
Goes(a, from, to) == life[a] = from /\ life' = [life EXCEPT ![a] = to]

Decide(a) ==
  \E to \in {"approved", "rejected"} : Goes(a, Stage("proposed", 0), Stage(to, 0))
Call(a) == Goes(a, Stage("approved", 0), Stage("approved", 1))
Record(a) ==
  \E to \in {"executed", "failed"} : Goes(a, Stage("approved", 1), Stage(to, 1))

Next == Propose \/ \E a \in Actions : Decide(a) \/ Call(a) \/ Record(a)

Spec == Init /\ [][Next]_life
=============================================================================
