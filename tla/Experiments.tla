----------------------------- MODULE Experiments -----------------------------
(***************************************************************************)
(* The creative experiment log (apps/api/src/experiments.ts, with the      *)
(* rules of packages/logic creative-experiments.ts).                       *)
(*                                                                         *)
(* Every write reads the row, tests it, and then updates or deletes it by  *)
(* id alone: nothing ties the write to the row that was tested.            *)
(***************************************************************************)
EXTENDS Naturals

CONSTANTS
  Experiments,  \* ids
  Calls,        \* requests in progress
  Winners,      \* what a conclusion says
  None,
  MaxLaunch     \* bound: launches, each at a time of its own

VARIABLES
  row,       \* creative_experiments, None for an id without a row
  call,      \* what each request is about to write, and the row it has read
  launches,  \* launches so far: the clock startedAt is read from
  born,      \* history: ids that have had a row
  raced      \* history: ids that had two requests at once

vars == <<row, call, launches, born, raced>>

Stages == {"draft", "running", "concluded"}
Row == [status : Stages, result : Winners \cup {None}, startedAt : Nat]  \* 0: never
Call == [op : {"idle", "status", "conclude", "delete"}, id : Experiments \cup {None},
         to : Winners \cup {"draft", "running", None}, seen : Row \cup {None}]
NoCall == [op |-> "idle", id |-> None, to |-> None, seen |-> None]

TypeOK ==
  /\ row \in [Experiments -> Row \cup {None}]
  /\ call \in [Calls -> Call]
  /\ \A c \in Calls :
       /\ call[c].op # "idle" => call[c].id \in Experiments /\ call[c].seen \in Row
       /\ call[c].op = "status" => call[c].to \in {"draft", "running"}
       /\ call[c].op = "conclude" => call[c].to \in Winners
  /\ launches \in 0..MaxLaunch
  /\ born \subseteq Experiments /\ raced \subseteq Experiments

Init ==
  /\ row = [e \in Experiments |-> None]
  /\ call = [c \in Calls |-> NoCall]
  /\ launches = 0 /\ born = {} /\ raced = {}

\* createExperiment.
Create(e) ==
  /\ e \notin born
  /\ born' = born \cup {e}
  /\ row' = [row EXCEPT ![e] = [status |-> "draft", result |-> None, startedAt |-> 0]]
  /\ UNCHANGED <<call, launches, raced>>

\* Mutant: a concluded experiment can be launched again.
NothingIsFinal(from, to) == from # to

\* TRANSITIONS.
canTransition(from, to) ==
  \/ from = "draft" /\ to \in {"running", "concluded"}
  \/ from = "running" /\ to \in {"draft", "concluded"}

\* loadExperiment, in a request that goes on to write.
Load(c, op, e, to) ==
  /\ call[c].op = "idle" /\ row[e] # None
  /\ call' = [call EXCEPT ![c] = [op |-> op, id |-> e, to |-> to, seen |-> row[e]]]
  /\ raced' = IF \E d \in Calls \ {c} : call[d].id = e THEN raced \cup {e} ELSE raced
  /\ UNCHANGED <<row, launches, born>>

LoadForStatus(c, e, to) ==
  row[e] # None /\ canTransition(row[e].status, to) /\ Load(c, "status", e, to)

\* The conclusion is one validateConclusion accepts.
LoadForConclusion(c, e, w) ==
  row[e] # None /\ canTransition(row[e].status, "concluded") /\ Load(c, "conclude", e, w)

LoadForDelete(c, e) ==
  row[e] # None /\ row[e].status # "concluded" /\ Load(c, "delete", e, None)

\* The UPDATE or DELETE by id; a row deleted since is not written.
Write(c, new) ==
  /\ row' = IF row[call[c].id] = None THEN row ELSE [row EXCEPT ![call[c].id] = new]
  /\ call' = [call EXCEPT ![c] = NoCall]
  /\ UNCHANGED <<born, raced>>

\* Mutant: each launch stamps its own time.
StampEachLaunch(c) ==
  LET e == call[c].id
  IN  /\ call[c].op = "status" /\ launches < MaxLaunch
      /\ launches' = IF call[c].to = "running" THEN launches + 1 ELSE launches
      /\ Write(c, [row[e] EXCEPT !.status = call[c].to,
                                 !.startedAt = IF call[c].to = "running" THEN launches' ELSE @])

\* setExperimentStatus: the first launch stamps the time, and the stamp
\* written is that of the row as it was read.
SetStatus(c) ==
  LET e == call[c].id
      stamp == call[c].seen.startedAt
  IN  /\ call[c].op = "status" /\ launches < MaxLaunch
      /\ launches' = IF call[c].to = "running" THEN launches + 1 ELSE launches
      /\ Write(c, [row[e] EXCEPT !.status = call[c].to,
                                 !.startedAt = IF call[c].to = "running" /\ stamp = 0
                                               THEN launches' ELSE stamp])

\* concludeExperiment.
Conclude(c) ==
  /\ call[c].op = "conclude"
  /\ launches' = launches
  /\ Write(c, [row[call[c].id] EXCEPT !.status = "concluded", !.result = call[c].to])

\* deleteExperiment.
Delete(c) ==
  /\ call[c].op = "delete"
  /\ launches' = launches
  /\ Write(c, None)

\* The statement throws, or the process dies.
Fails(c) ==
  /\ call[c].op # "idle"
  /\ call' = [call EXCEPT ![c] = NoCall]
  /\ UNCHANGED <<row, launches, born, raced>>

Next ==
  \/ \E e \in Experiments : Create(e)
  \/ \E c \in Calls, e \in Experiments :
       \/ \E to \in {"draft", "running"} : LoadForStatus(c, e, to)
       \/ \E w \in Winners : LoadForConclusion(c, e, w)
       \/ LoadForDelete(c, e)
  \/ \E c \in Calls : SetStatus(c) \/ Conclude(c) \/ Delete(c) \/ Fails(c)

Spec == Init /\ [][Next]_vars

-----------------------------------------------------------------------------
(* Properties.                                                              *)

Concluded(e) == row[e] # None /\ row[e].status = "concluded"

\* "concluded" is terminal: the recorded outcome is neither rewritten,
\* reopened nor deleted; and un-launching and relaunching does not rewrite
\* when the test began.  Two requests about one experiment under way at once
\* break both (creative-experiments.ts: a log whose history is editable is
\* not a log; setExperimentStatus).
KeepsHistory ==
  \A e \in Experiments \ raced :
    /\ Concluded(e) => row'[e] = row[e]
    /\ row[e] # None /\ row'[e] # None /\ row[e].startedAt # 0
         => row'[e].startedAt = row[e].startedAt
HistoryIsKept == [][KeepsHistory]_vars

=============================================================================
