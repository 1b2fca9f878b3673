------------------------------ MODULE BlogEditor ------------------------------
(***************************************************************************)
(* One post open in the console's editor: the autosave of                  *)
(* apps/web/app/(admin)/admin/blog/[id]/page.tsx and the save of           *)
(* useUpdatePost (apps/web/lib/hooks/useAdminBlog.ts).                     *)
(*                                                                         *)
(* What is written is a version number.  Every edit restarts the autosave  *)
(* timer; a save sends the version on screen; answers come in any order.   *)
(* The callback that clears "dirty" is given to one call of mutate, and    *)
(* the library runs it for the latest call only.                           *)
(***************************************************************************)
EXTENDS Naturals, Sequences

CONSTANTS
  MaxEdits,    \* bound: edits
  MaxSaves,    \* bound: saves sent
  MaxFaults    \* bound: requests that fail

VARIABLES
  draft,     \* the version on screen (draft and body)
  dirty,     \* the editor says Unsaved
  timer,     \* the autosave timer is running
  sent,      \* the calls of mutate in order: what was sent, and how it stands
  stored,    \* the version in blog_posts
  faults,
  hurried    \* history: an edit during a save, or two saves under way at once

vars == <<draft, dirty, timer, sent, stored, faults, hurried>>

Save == [version : 0..MaxEdits, request : {"sent", "landed", "gone"}, open : BOOLEAN]

TypeOK ==
  /\ draft \in 0..MaxEdits /\ stored \in 0..MaxEdits
  /\ dirty \in BOOLEAN /\ timer \in BOOLEAN /\ hurried \in BOOLEAN
  /\ sent \in Seq(Save) /\ Len(sent) <= MaxSaves
  /\ faults \in 0..MaxFaults

Init ==
  /\ draft = 0 /\ stored = 0 /\ sent = <<>> /\ faults = 0
  /\ dirty = FALSE /\ timer = FALSE /\ hurried = FALSE

\* Saves that have no answer, or may yet reach the table.
UnderWay == {n \in DOMAIN sent : sent[n].open \/ sent[n].request = "sent"}

\* isPending of the mutation: its latest call has no answer yet.
Pending == sent # <<>> /\ sent[Len(sent)].open

\* A keystroke in the title, the dek, the body or the metadata.
Edit ==
  /\ draft < MaxEdits
  /\ draft' = draft + 1
  /\ dirty' = TRUE
  /\ timer' = TRUE
  /\ hurried' = (hurried \/ UnderWay # {})
  /\ UNCHANGED <<sent, stored, faults>>

\* mutate, with what is on screen.
Mutate ==
  /\ Len(sent) < MaxSaves
  /\ sent' = Append(sent, [version |-> draft, request |-> "sent", open |-> TRUE])
  /\ hurried' = (hurried \/ UnderWay # {})

\* AUTOSAVE_MS have passed since the last edit.  Mutant: it is clean at once.
AutosaveAndForget ==
  /\ timer
  /\ timer' = FALSE /\ dirty' = FALSE
  /\ Mutate
  /\ UNCHANGED <<draft, stored, faults>>
Autosave ==
  /\ timer
  /\ timer' = FALSE
  /\ Mutate
  /\ UNCHANGED <<draft, dirty, stored, faults>>

\* The Save button, which is disabled while a save is pending.
PressSave ==
  /\ ~Pending
  /\ Mutate
  /\ UNCHANGED <<draft, dirty, timer, stored, faults>>

\* The API updates the row (updatePost: by id, whatever is there).
Apply(n) ==
  /\ sent[n].request = "sent"
  /\ sent' = [sent EXCEPT ![n].request = "landed"]
  /\ stored' = sent[n].version
  /\ UNCHANGED <<draft, dirty, timer, faults, hurried>>

\* The answer arrives.  The latest call's callback says the editor is clean,
\* and that ends the effect whose timer may be running.
Answer(n) ==
  /\ sent[n].open /\ sent[n].request = "landed"
  /\ sent' = [sent EXCEPT ![n].open = FALSE]
  /\ IF n = Len(sent) THEN dirty' = FALSE /\ timer' = FALSE
                      ELSE UNCHANGED <<dirty, timer>>
  /\ UNCHANGED <<draft, stored, faults, hurried>>

\* The call fails: refused, lost, or without an answer for 30 seconds, when
\* the request may reach the table yet.  An error toast, and nothing else.
Fail(n) ==
  /\ faults < MaxFaults
  /\ sent[n].open
  /\ \E r \in {sent[n].request, IF sent[n].request = "sent" THEN "gone" ELSE "landed"} :
       sent' = [sent EXCEPT ![n].open = FALSE, ![n].request = r]
  /\ faults' = faults + 1
  /\ UNCHANGED <<draft, dirty, timer, stored, hurried>>

Next ==
  \/ Edit \/ Autosave \/ PressSave
  \/ \E n \in DOMAIN sent : Apply(n) \/ Answer(n) \/ Fail(n)

Spec == Init /\ [][Next]_vars

-----------------------------------------------------------------------------
(* Properties.                                                             *)

\* page.tsx, SaveState: "whether the last sentence is safe yet".  An editor
\* that shows neither Unsaved nor Saving has on screen what is in the table.
SavedIsStored == ~dirty /\ ~Pending => stored = draft

\* It has, whatever fails and is saved again, unless something was typed
\* while a save was under way or two saves were.
CalmIsStored == hurried \/ SavedIsStored

=============================================================================
