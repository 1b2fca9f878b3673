------------------------------- MODULE EventBus -------------------------------
(***************************************************************************)
(* Events to the browsers that have a workspace open: publish and the      *)
(* rooms of apps/api/src/ws.ts, the upgrade of routes/ws.ts.  One          *)
(* workspace, several API processes, each with sockets of its own and one  *)
(* Redis subscriber.                                                       *)
(*                                                                         *)
(* publish goes through Redis for every process, its own included, and     *)
(* falls back to its own sockets when Redis has not answered in time.  The *)
(* client keeps the command all the same and sends it when it can, and     *)
(* once more when it loses the connection before the answer.               *)
(***************************************************************************)
EXTENDS FiniteSets, Naturals

CONSTANTS
  Processes,  \* API processes
  Sockets,    \* connections of browsers; one that reconnects is another
  Events,     \* events of this workspace
  None,
  MaxFaults   \* bound: lost messages, lost answers, failed subscriptions,
              \* dead processes

VARIABLES
  room,        \* the process whose room a socket is in, or its end
  subscriber,  \* each process's subscription to the channel
  publisher,   \* the process that publishes an event, and how far it is
  command,     \* the PUBLISH of each event
  channel,     \* messages on their way from Redis to a subscriber
  got,         \* how often each socket has been sent an event
  faults,
  again,       \* history: how often an event was broadcast for want of an answer
  expecting    \* history: per event, the sockets it was broadcast to

vars == <<room, subscriber, publisher, command, channel, got, faults, again, expecting>>

TypeOK ==
  /\ room \in [Sockets -> Processes \cup {"new", "closed"}]
  /\ subscriber \in [Processes -> {"none", "asked", "ready", "failed"}]
  /\ publisher \in [Events -> [by : Processes \cup {None}, at : {"new", "racing", "gaveup", "done"}]]
  /\ command \in [Events -> {"none", "queued", "landed", "lost"}]
  /\ channel \subseteq Processes \X Events \X (0..(1 + MaxFaults))
  /\ got \in [Sockets -> [Events -> 0..(2 + MaxFaults)]]
  /\ faults \in 0..MaxFaults
  /\ again \in [Events -> 0..(1 + MaxFaults)]
  /\ expecting \in [Events -> SUBSET Sockets]

Init ==
  /\ room = [s \in Sockets |-> "new"]
  /\ subscriber = [p \in Processes |-> "none"]
  /\ publisher = [e \in Events |-> [by |-> None, at |-> "new"]]
  /\ command = [e \in Events |-> "none"]
  /\ channel = {}
  /\ got = [s \in Sockets |-> [e \in Events |-> 0]]
  /\ faults = 0 /\ again = [e \in Events |-> 0]
  /\ expecting = [e \in Events |-> {}]

InRoom(p) == {s \in Sockets : room[s] = p}

-----------------------------------------------------------------------------
(* Rooms.                                                                  *)

\* subscribeSocket, once the upgrade is allowed: the first socket of a
\* process starts its subscriber.
Join(s, p) ==
  /\ room[s] = "new"
  /\ room' = [room EXCEPT ![s] = p]
  /\ subscriber' = [subscriber EXCEPT ![p] = IF @ = "none" THEN "asked" ELSE @]
  /\ UNCHANGED <<publisher, command, channel, got, faults, again, expecting>>

\* unsubscribeSocket.
Leave(s) ==
  /\ room[s] \in Processes
  /\ room' = [room EXCEPT ![s] = "closed"]
  /\ UNCHANGED <<subscriber, publisher, command, channel, got, faults, again, expecting>>

\* SUBSCRIBE takes effect, or fails; a failure is logged and not repeated.
Subscribed(p) ==
  /\ subscriber[p] = "asked"
  /\ subscriber' = [subscriber EXCEPT ![p] = "ready"]
  /\ UNCHANGED <<room, publisher, command, channel, got, faults, again, expecting>>
SubscribeFails(p) ==
  /\ subscriber[p] = "asked" /\ faults < MaxFaults
  /\ subscriber' = [subscriber EXCEPT ![p] = "failed"]
  /\ faults' = faults + 1
  /\ UNCHANGED <<room, publisher, command, channel, got, again, expecting>>

\* publishLocal: every open socket of the process's room.
publishLocal(p, e) ==
  /\ got' = [s \in Sockets |->
               IF room[s] = p THEN [got[s] EXCEPT ![e] = @ + 1] ELSE got[s]]

-----------------------------------------------------------------------------
(* publish.                                                                *)

\* The command goes to the client.  Mutant: and the event to the sockets here.
PublishHereToo(p, e) ==
  /\ publisher[e].at = "new"
  /\ publisher' = [publisher EXCEPT ![e] = [by |-> p, at |-> "racing"]]
  /\ command' = [command EXCEPT ![e] = "queued"]
  /\ publishLocal(p, e)
  /\ UNCHANGED <<room, subscriber, channel, faults, again, expecting>>
Publish(p, e) ==
  /\ publisher[e].at = "new"
  /\ publisher' = [publisher EXCEPT ![e] = [by |-> p, at |-> "racing"]]
  /\ command' = [command EXCEPT ![e] = "queued"]
  /\ UNCHANGED <<room, subscriber, channel, got, faults, again, expecting>>

\* Redis passes the event to every process that is subscribed by now.
Land(e) ==
  /\ command[e] = "queued"
  /\ command' = [command EXCEPT ![e] = "landed"]
  /\ channel' = channel \cup {<<p, e, again[e]>> : p \in {q \in Processes : subscriber[q] = "ready"}}
  /\ expecting' = [expecting EXCEPT ![e] =
       @ \cup UNION {InRoom(p) : p \in {q \in Processes : subscriber[q] = "ready"}}]
  /\ UNCHANGED <<room, subscriber, publisher, got, faults, again>>

\* The answer comes in time.
Answered(e) ==
  /\ publisher[e].at = "racing" /\ command[e] = "landed"
  /\ publisher' = [publisher EXCEPT ![e].at = "done"]
  /\ UNCHANGED <<room, subscriber, command, channel, got, faults, again, expecting>>

\* 1.5 seconds have passed: local-only delivery, with the command still queued
\* or its answer on the way.
TimesOut(e) ==
  LET p == publisher[e].by
  IN  /\ publisher[e].at = "racing"
      /\ publisher' = [publisher EXCEPT ![e].at = "gaveup"]
      /\ publishLocal(p, e)
      /\ again' = [again EXCEPT ![e] = @ + 1]
      /\ expecting' = [expecting EXCEPT ![e] = @ \cup InRoom(p)]
      /\ UNCHANGED <<room, subscriber, command, channel, faults>>

\* The connection is lost with the answer: the client sends the command again,
\* whether publish still waits for it or not.
Resend(e) ==
  /\ publisher[e].at \in {"racing", "gaveup"} /\ command[e] = "landed" /\ faults < MaxFaults
  /\ command' = [command EXCEPT ![e] = "queued"]
  /\ again' = [again EXCEPT ![e] = @ + 1]
  /\ faults' = faults + 1
  /\ UNCHANGED <<room, subscriber, publisher, channel, got, expecting>>

\* The subscriber has a message.
Deliver(m) ==
  /\ channel' = channel \ {m}
  /\ publishLocal(m[1], m[2])
  /\ UNCHANGED <<room, subscriber, publisher, command, faults, again, expecting>>

\* A subscriber's connection drops with what was on its way.
Drop(p) ==
  /\ faults < MaxFaults
  /\ \E m \in channel : m[1] = p
  /\ channel' = {m \in channel : m[1] # p}
  /\ faults' = faults + 1
  /\ UNCHANGED <<room, subscriber, publisher, command, got, again, expecting>>

\* A process dies: its sockets close, and what its client had queued is gone.
Die(p) ==
  LET own == {e \in Events : publisher[e].by = p}
  IN  /\ faults < MaxFaults
      /\ room' = [s \in Sockets |-> IF room[s] = p THEN "closed" ELSE room[s]]
      /\ subscriber' = [subscriber EXCEPT ![p] = "none"]
      /\ publisher' = [e \in Events |->
           IF e \in own THEN [publisher[e] EXCEPT !.at = "done"] ELSE publisher[e]]
      /\ command' = [e \in Events |->
           IF e \in own /\ command[e] = "queued" THEN "lost" ELSE command[e]]
      /\ channel' = {m \in channel : m[1] # p}
      /\ faults' = faults + 1
      /\ UNCHANGED <<got, again, expecting>>

Next ==
  \/ \E s \in Sockets : Leave(s) \/ \E p \in Processes : Join(s, p)
  \/ \E p \in Processes : Subscribed(p) \/ SubscribeFails(p) \/ Drop(p) \/ Die(p)
  \/ \E p \in Processes, e \in Events : Publish(p, e)
  \/ \E m \in channel : Deliver(m)
  \/ \E e \in Events : Land(e) \/ Answered(e) \/ TimesOut(e) \/ Resend(e)

Spec == Init /\ [][Next]_vars

-----------------------------------------------------------------------------
(* Properties.                                                             *)

\* ws.ts: "an event never gets double-delivered to a socket connected to the
\* same process that raised it".
NeverTwice == \A s \in Sockets, e \in Events : got[s][e] <= 1

\* It never is, to any socket, unless it was broadcast again for want of an
\* answer: by publish, which falls back to local delivery with its command still
\* queued, or by the client, which sends the command again.
OnceUnlessAgain ==
  \A s \in Sockets, e \in Events : got[s][e] <= 1 + again[e]

\* An event is through: its publisher is done with it, and no command or message
\* of it is under way.
Through(e) ==
  /\ publisher[e].at \in {"gaveup", "done"} /\ command[e] # "queued"
  /\ \A m \in channel : m[2] # e

\* "so this process's own connected clients aren't left hanging": once an event
\* is through, every socket that was in the room of a process it was broadcast
\* to, and still is, has been sent it.
NobodyLeftOut ==
  \A e \in Events, s \in Sockets :
    Through(e) /\ faults = 0 /\ s \in expecting[e] /\ room[s] \in Processes
      => got[s][e] > 0

BroadcastsRight == OnceUnlessAgain /\ NobodyLeftOut

=============================================================================
