------------------------------ MODULE BlogPosts ------------------------------
(***************************************************************************)
(* The marketing blog's posts: the writes of apps/api/src/blog.ts and the  *)
(* routes that make them (routes/admin.ts, "Blog").  Every request reads   *)
(* first and writes later, by id; the database only keeps addresses and    *)
(* the pin unique.  After a write that the public sees, the route hints    *)
(* that the cached pages are to be rebuilt, all of them at once.  A request *)
(* may end at any step: a call fails, its answer is lost, the process dies. *)
(***************************************************************************)
EXTENDS FiniteSets, Naturals

CONSTANTS
  Posts,      \* ids
  Calls,      \* requests, each made once
  None,
  Done,       \* what a request is once it has its answer
  Wanted,     \* addresses as a title or a typed slug asks for them
  MaxSuffix,  \* bound: -2, -3, ... (50 in the code)
  slugify,    \* of an address that is in use: not always the same one
  MaxFaults   \* bound: requests that fail or die

VARIABLES
  post,     \* blog_posts
  call,     \* requests in progress
  fresh,    \* every write the public sees has been hinted at
  pin,      \* history: the post whose pin was the last to be set
  botched,  \* history: a pin request cleared the old pin and then failed
  unhinted, \* history: a request ended between its write and its hint, and
            \* no other's hint has come since
  lost,     \* history: a published post was deleted
  raced,    \* history: a post was published while its deletion was under way
  faults

vars == <<post, call, fresh, pin, botched, unhinted, lost, raced, faults>>

Slugs == Wanted \X (1..MaxSuffix)
Times == {None, "past", "future"}
Row == [slug : Slugs, at : Times, pinned : BOOLEAN]
Ops == {"create", "update", "publish", "unpublish", "pin", "unpin", "delete"}

\* What slugify makes of an address is that, or one as asked for.
SlugsStaySlugs ==
  /\ slugify \in [Slugs -> Slugs]
  /\ \A s \in Slugs : slugify[s] = s \/ slugify[s][2] = 1

(* What a request carries: its post, the address asked for, what it does    *)
(* next, and the address the post had at first.                            *)
Call ==
  [op : Ops, id : Posts, slug : Slugs \cup {None}, time : Times,
   at : {"before", "existing", "probe", "clear", "write", "hint"},
   before : Slugs \cup {None}]

TypeOK ==
  /\ post \in [Posts -> Row \cup {None}]
  /\ call \in [Calls -> Call \cup {None, Done}]
  /\ pin \in Posts \cup {None}
  /\ {fresh, botched, unhinted, lost, raced} \subseteq BOOLEAN
  /\ faults \in 0..MaxFaults

Stored == {p \in Posts : post[p] # None}
Pinned == {p \in Stored : post[p].pinned}

\* A table as earlier requests may have left it.
Init ==
  /\ pin \in Posts \cup {None}
  /\ post \in [Posts -> Row \cup {None}]
  /\ \A p, q \in Stored : post[p].slug = post[q].slug => p = q
  /\ Pinned = {pin} \ {None}
  /\ call = [c \in Calls |-> None]
  /\ fresh = TRUE
  /\ botched = FALSE /\ unhinted = FALSE /\ lost = FALSE /\ raced = FALSE
  /\ faults = 0

\* postState, and isLive of the public queries.
Live(row) == row # None /\ row.at = "past"

\* Call c is about to do step `at` of `op`.
Open(c) == call[c] \notin {None, Done}
Doing(c, op, at) == Open(c) /\ call[c].op = op /\ call[c].at = at
Ends(c) == call' = [call EXCEPT ![c] = Done]
Goes(c, at) == call' = [call EXCEPT ![c].at = at]

\* A write of one row.  What the public sees has changed if the post was live
\* or is.
Put(p, row) ==
  /\ post' = [post EXCEPT ![p] = row]
  /\ fresh' = (fresh /\ ~Live(post[p]) /\ ~Live(row))
Missing(c) == call[c].id \notin Stored

\* No two posts have one address: idx_blog_posts_slug refuses the second.
Taken(slug, but) == \E p \in Stored \ {but} : post[p].slug = slug

FirstStep(op) ==
  CASE op = "create" -> "probe"
    [] op = "update" -> "before"
    [] op \in {"publish", "delete"} -> "existing"
    [] op = "pin" -> "clear"
    [] op \in {"unpublish", "unpin"} -> "write"

\* An admin's request.  A create asks for an address, a save may ask for one
\* and a publication for a time to come.
Ask(c, op, p) ==
  /\ call[c] = None
  /\ op = "create" => p \notin Stored /\ \A d \in Calls : Open(d) => call[d].id # p
  /\ \E slug \in (Wanted \X {1}) \cup {None}, time \in {None, "past", "future"} :
       /\ op = "create" => slug # None
       /\ slug # None => op \in {"create", "update"}
       /\ (time # None) <=> (op = "publish")
       /\ call' = [call EXCEPT ![c] =
            [op |-> op, id |-> p, slug |-> slug, time |-> time,
             at |-> FirstStep(op), before |-> None]]
  /\ UNCHANGED <<post, fresh, pin, botched, unhinted, lost, raced, faults>>

-----------------------------------------------------------------------------
(* createPost and updatePost.                                              *)

\* uniqueSlug: one query per candidate, until one is free or the post's own.
Probe(c) ==
  LET own == IF call[c].op = "update" THEN call[c].id ELSE None
      n   == call[c].slug[2]
  IN  /\ Open(c) /\ call[c].at = "probe"
      /\ IF Taken(call[c].slug, own)
         THEN n < MaxSuffix /\ call' = [call EXCEPT ![c].slug[2] = n + 1]
         ELSE Goes(c, "write")
      /\ UNCHANGED <<post, fresh, pin, botched, unhinted, lost, raced, faults>>

\* The INSERT; the index may refuse what was free when it was looked for.
Create(c) ==
  /\ Doing(c, "create", "write")
  /\ IF Taken(call[c].slug, None)
     THEN UNCHANGED <<post, fresh>>
     ELSE Put(call[c].id, [slug |-> call[c].slug, at |-> None, pinned |-> FALSE])
  /\ Ends(c)
  /\ UNCHANGED <<pin, botched, unhinted, lost, raced, faults>>

\* The route's read, for its log and its hint.
ReadBefore(c) ==
  /\ Doing(c, "update", "before")
  /\ IF Missing(c) THEN Ends(c)
     ELSE call' = [call EXCEPT ![c].before = post[call[c].id].slug, ![c].at = "existing"]
  /\ UNCHANGED <<post, fresh, pin, botched, unhinted, lost, raced, faults>>

\* updatePost's own read: the address is looked for anew only if it changed.
ReadExisting(c) ==
  LET row     == post[call[c].id]
      desired == slugify[IF call[c].slug = None THEN row.slug ELSE call[c].slug]
  IN  /\ Doing(c, "update", "existing")
      /\ IF Missing(c) THEN Ends(c)
         ELSE call' = [call EXCEPT ![c].slug = desired, ![c].at =
                           IF desired = row.slug THEN "write" ELSE "probe"]
      /\ UNCHANGED <<post, fresh, pin, botched, unhinted, lost, raced, faults>>

\* The UPDATE, of the row of now, and what it returns: a hint if that is live,
\* or has another address than at first.
Update(c) ==
  LET p   == call[c].id
      row == [post[p] EXCEPT !.slug = call[c].slug]
  IN  /\ Doing(c, "update", "write")
      /\ IF Missing(c) \/ Taken(call[c].slug, p)
         THEN Ends(c) /\ UNCHANGED <<post, fresh>>
         ELSE /\ Put(p, row)
              /\ IF Live(row) \/ call[c].before # row.slug THEN Goes(c, "hint") ELSE Ends(c)
      /\ UNCHANGED <<pin, botched, unhinted, lost, raced, faults>>

-----------------------------------------------------------------------------
(* publishPost and unpublishPost.                                          *)

\* publishPost refuses a post without a title, a description or a body.
CheckFinished(c) ==
  /\ Doing(c, "publish", "existing")
  /\ \/ Ends(c)
     \/ ~Missing(c) /\ Goes(c, "write")
  /\ UNCHANGED <<post, fresh, pin, botched, unhinted, lost, raced, faults>>

SetTime(c, time) ==
  IF Missing(c) THEN Ends(c) /\ UNCHANGED <<post, fresh>>
  ELSE Put(call[c].id, [post[call[c].id] EXCEPT !.at = time]) /\ Goes(c, "hint")

\* By id, whatever the row has become.  Mutant: no hint for a time to come.
Published(c) ==
  /\ Doing(c, "publish", "write")
  /\ raced' = (raced \/ \E d \in Calls :
                 Doing(d, "delete", "write") /\ call[d].id = call[c].id /\ ~Missing(c))
  /\ UNCHANGED <<pin, botched, unhinted, lost, faults>>
PublishHintsIfLive(c) ==
  /\ Published(c)
  /\ IF Missing(c) \/ call[c].time = "past" THEN SetTime(c, call[c].time)
     ELSE Put(call[c].id, [post[call[c].id] EXCEPT !.at = "future"]) /\ Ends(c)
Publish(c) == Published(c) /\ SetTime(c, call[c].time)
Unpublish(c) ==
  /\ Doing(c, "unpublish", "write")
  /\ SetTime(c, None)
  /\ UNCHANGED <<pin, botched, unhinted, lost, raced, faults>>

\* The time a post is scheduled for has come: nothing runs.
Due(p) ==
  /\ p \in Stored /\ post[p].at = "future"
  /\ post' = [post EXCEPT ![p].at = "past"]
  /\ UNCHANGED <<call, fresh, pin, botched, unhinted, lost, raced, faults>>

-----------------------------------------------------------------------------
(* setFeatured and deletePost.                                             *)

\* The previous pin is cleared first: every other post's.
ClearPins(c) ==
  LET others == Pinned \ {call[c].id}
  IN  /\ Doing(c, "pin", "clear")
      /\ post' = [p \in Posts |-> IF p \in others THEN [post[p] EXCEPT !.pinned = FALSE]
                                                  ELSE post[p]]
      /\ fresh' = (fresh /\ \A p \in others : ~Live(post[p]))
      /\ Goes(c, "write")
      /\ UNCHANGED <<pin, botched, unhinted, lost, raced, faults>>

\* The old pin is cleared, and no hint will come.
Botched == botched' = TRUE /\ unhinted' = TRUE

\* Then this one is pinned, unless it has gone, or another was pinned since:
\* idx_blog_posts_featured refuses a second.
Pin(c) ==
  LET p == call[c].id
  IN  /\ Doing(c, "pin", "write")
      /\ IF Missing(c) \/ Pinned \ {p} # {}
         THEN Ends(c) /\ Botched /\ UNCHANGED <<post, fresh, pin>>
         ELSE /\ Put(p, [post[p] EXCEPT !.pinned = TRUE])
              /\ pin' = p
              /\ Goes(c, "hint")
              /\ UNCHANGED <<botched, unhinted>>
      /\ UNCHANGED <<lost, raced, faults>>

Unpin(c) ==
  LET p == call[c].id
  IN  /\ Doing(c, "unpin", "write")
      /\ IF Missing(c) THEN Ends(c) /\ UNCHANGED <<post, fresh, pin>>
         ELSE /\ Put(p, [post[p] EXCEPT !.pinned = FALSE])
              /\ pin' = IF pin = p THEN None ELSE pin
              /\ Goes(c, "hint")
      /\ UNCHANGED <<botched, unhinted, lost, raced, faults>>

\* A published post is refused; the DELETE is by id.
CheckDraft(c) ==
  /\ Doing(c, "delete", "existing")
  /\ IF Missing(c) \/ post[call[c].id].at # None THEN Ends(c) ELSE Goes(c, "write")
  /\ UNCHANGED <<post, fresh, pin, botched, unhinted, lost, raced, faults>>
Delete(c) ==
  LET p == call[c].id
  IN  /\ Doing(c, "delete", "write")
      /\ Put(p, None)
      /\ lost' = (lost \/ (~Missing(c) /\ post[p].at # None))
      /\ pin' = IF pin = p THEN None ELSE pin
      /\ Ends(c)
      /\ UNCHANGED <<botched, unhinted, raced, faults>>

\* revalidateBlog: one tag covers every cached read of the blog.
revalidateBlog(c) ==
  /\ Open(c) /\ call[c].at = "hint"
  /\ fresh' = TRUE /\ unhinted' = FALSE
  /\ Ends(c)
  /\ UNCHANGED <<post, pin, botched, lost, raced, faults>>

-----------------------------------------------------------------------------
(* A call that fails, an answer that is lost, a process that dies: the      *)
(* request ends where it is.                                                *)

Fails(c) ==
  /\ Open(c) /\ faults < MaxFaults
  /\ faults' = faults + 1
  /\ Ends(c)
  /\ botched' = (botched \/ Doing(c, "pin", "write"))
  /\ unhinted' = (unhinted \/ Doing(c, "pin", "write") \/ call[c].at = "hint")
  /\ UNCHANGED <<post, fresh, pin, lost, raced>>

Next ==
  \/ \E c \in Calls :
       \/ \E op \in Ops, p \in Posts : Ask(c, op, p)
       \/ Probe(c) \/ Create(c) \/ ReadBefore(c) \/ ReadExisting(c) \/ Update(c)
       \/ CheckFinished(c) \/ Publish(c) \/ Unpublish(c)
       \/ ClearPins(c) \/ Pin(c) \/ Unpin(c)
       \/ CheckDraft(c) \/ Delete(c) \/ revalidateBlog(c)
       \/ Fails(c)
  \/ \E p \in Posts : Due(p)

Spec == Init /\ [][Next]_vars

-----------------------------------------------------------------------------
(* Properties.                                                             *)

Quiet == \A c \in Calls : ~Open(c)

\* web's api/revalidate: called "immediately after any write that changes what
\* the public sees".  With no request under way, no such write is left without
\* a hint, however requests overlapped, unless one ended between its write and
\* its hint (another's hint mends that), or a publication overtook a deletion.
ChangesAreHinted == Quiet /\ ~unhinted /\ ~raced => fresh

\* setFeatured: the post that was pinned last, and not unpinned or deleted
\* since, is the one that is pinned, however pin requests overlapped, unless
\* one of them failed after clearing.
PinIsKept ==
  Quiet /\ ~botched => Pinned = {pin} \ {None}

\* deletePost: "a published post is refused rather than deleted", unless it was
\* published after the check.
LiveIsKept == lost => raced

BlogIsKept == ChangesAreHinted /\ PinIsKept /\ LiveIsKept

\* "A published post is refused rather than deleted."
NoLiveIsLost == ~lost

\* updatePost: the address is resolved anew "only when it actually changed".
SavesStay ==
  [][\A c \in Calls :
       Doing(c, "update", "existing") /\ call[c].slug = None /\ call'[c] # Done
         => call'[c].at = "write"]_vars

=============================================================================
