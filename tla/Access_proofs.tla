---------------------------- MODULE Access_proofs ---------------------------
(* Proofs about the access to a workspace: the seats of its plan and the  *)
(* roles of the platform, for any people, requests and bounds.             *)
EXTENDS Workspace, Sequences, FiniteSetTheorems, SequenceTheorems, TLAPS

-----------------------------------------------------------------------------
(***************************************************************************)
(* Invitations.                                                            *)
(***************************************************************************)

\* Counting is the same thing in both modules.
LEMMA SameCount ==
  ASSUME NEW S
  PROVE  Inv!Cardinality(S) = Cardinality(S)
BY DEF Inv!Cardinality, Cardinality, Inv!IsFiniteSet, IsFiniteSet

Busy(a) == accepting[a].pc # "idle"

\* What acceptInvitation has found out about the seat still stands when it
\* acts on it, unless the person has another acceptance under way.
SeatInv ==
  /\ Inv!TypeOK
  /\ Inv!AcceptedHasSeat
  /\ Inv!OneSeatEach
  /\ \A a \in Acceptors :
       /\ accepting[a].pc = "mark" => rows[Inv!Who(a)] > 0
       /\ accepting[a].pc = "seat" /\ Inv!Who(a) \notin twins => rows[Inv!Who(a)] = 0
  /\ \A a, b \in Acceptors :
       a # b /\ Busy(a) /\ Busy(b) /\ Inv!Who(a) = Inv!Who(b) => Inv!Who(a) \in twins

-----------------------------------------------------------------------------
\* The seats taken, the owner's aside.
Members == UNION {{p} \X (1..rows[p]) : p \in People}

\* All that is counted is finite.
LEMMA CountsAreNumbers ==
  ASSUME rows \in [People -> Nat]
  PROVE  /\ IsFiniteSet(Members) /\ Cardinality(Members) \in Nat
         /\ Inv!MemberCount = 1 + Cardinality(Members) /\ Inv!MemberCount \in Nat
         /\ \A S \in SUBSET Invites : IsFiniteSet(S) /\ Cardinality(S) \in Nat
         /\ \A S, T \in SUBSET Invites : S \subseteq T => Cardinality(S) <= Cardinality(T)
<1> DEFINE seats == [p \in People |-> {p} \X (1..rows[p])]
           S == {{p} \X (1..rows[p]) : p \in People}
<1>1. seats \in Surjection(People, S)
  BY DEF Surjection
<1>2. IsFiniteSet(S)
  BY <1>1, FinitelyMany, FS_Surjection
<1>3. ASSUME NEW p \in People PROVE IsFiniteSet({p} \X (1..rows[p]))
  <2>1. IsFiniteSet({p})
    BY FS_Singleton
  <2>2. IsFiniteSet(1..rows[p])
    BY FS_Interval
  <2> QED BY <2>1, <2>2, FS_Product
<1>4. IsFiniteSet(UNION S)
  BY <1>2, <1>3, FS_UNION
<1>5. IsFiniteSet(Members)
  BY <1>4 DEF Members
<1>6. \A T \in SUBSET Invites : IsFiniteSet(T)
  BY FinitelyMany, FS_Subset
<1>7. Inv!MemberCount = 1 + Cardinality(Members)
  BY SameCount DEF Inv!MemberCount, Members
<1>8. Cardinality(Members) \in Nat
  BY <1>5, FS_CardinalityType
<1> QED BY <1>5, <1>6, <1>7, <1>8, FS_CardinalityType, FS_Subset

\* Who sits where is untouched by a step that seats nobody, changes no
\* acceptance, and leaves the address of every invitation.
LEMMA OthersKeepSeatInv ==
  ASSUME SeatInv, Inv!TypeOK', UNCHANGED <<rows, accepting>>, twins \subseteq twins',
         \A i \in Invites : inv[i] # None => inv'[i] # None /\ inv'[i].email = inv[i].email,
         \A i \in Invites : inv'[i] # None /\ inv'[i].status = "accepted" =>
           inv[i] # None /\ inv[i].status = "accepted"
  PROVE  SeatInv'
<1> USE DEF SeatInv
<1>1. Inv!AcceptedHasSeat'
  BY DEF Inv!AcceptedHasSeat
<1>2. Inv!OneSeatEach'
  BY DEF Inv!OneSeatEach
<1>3. \A a \in Acceptors : Busy(a) => Inv!Who(a)' = Inv!Who(a)
  BY DEF Inv!TypeOK, Inv!Who, Busy
<1>4. \A a \in Acceptors : /\ accepting'[a].pc = "mark" => rows'[Inv!Who(a)'] > 0
                           /\ accepting'[a].pc = "seat" /\ Inv!Who(a)' \notin twins'
                                => rows'[Inv!Who(a)'] = 0
  BY <1>3 DEF Busy
<1>5. \A a, b \in Acceptors :
        a # b /\ Busy(a)' /\ Busy(b)' /\ Inv!Who(a)' = Inv!Who(b)' => Inv!Who(a)' \in twins'
  BY <1>3 DEF Busy
<1> QED BY <1>1, <1>2, <1>4, <1>5

\* An acceptance that goes on from one stage to another.
LEMMA AcceptKeepsSeatInv ==
  ASSUME SeatInv, NEW a \in Acceptors, Busy(a), UNCHANGED <<inv, twins>>,
         NEW to \in Inv!AcceptStages, accepting' = [accepting EXCEPT ![a].pc = to],
         Inv!TypeOK',
         \A p \in People : rows'[p] >= rows[p] /\ (p # Inv!Who(a) => rows'[p] = rows[p]),
         Inv!Who(a) \notin twins => rows'[Inv!Who(a)] <= 1,
         to = "mark" => rows'[Inv!Who(a)] > 0,
         to = "seat" /\ Inv!Who(a) \notin twins => rows'[Inv!Who(a)] = 0
  PROVE  SeatInv'
<1> USE DEF SeatInv
<1>1. \A b \in Acceptors : accepting'[b].inv = accepting[b].inv /\ Inv!Who(b)' = Inv!Who(b)
                           /\ Busy(b)' = Busy(b) /\ (b # a => accepting'[b] = accepting[b])
  BY DEF Inv!TypeOK, Inv!Who, Busy, Inv!AcceptStages
<1>2. \A b \in Acceptors : Busy(b) => Inv!Who(b) \in People
  BY DEF Inv!TypeOK, Inv!Who, Busy, Inv!Invitation
<1>3. Inv!AcceptedHasSeat'
  BY DEF Inv!AcceptedHasSeat, Inv!TypeOK, Inv!Invitation
<1>4. Inv!OneSeatEach'
  BY DEF Inv!OneSeatEach
<1>5. ASSUME NEW b \in Acceptors
      PROVE  /\ accepting'[b].pc = "mark" => rows'[Inv!Who(b)'] > 0
             /\ accepting'[b].pc = "seat" /\ Inv!Who(b)' \notin twins' => rows'[Inv!Who(b)'] = 0
  <2>1. CASE b = a
    BY <1>1, <2>1 DEF Inv!TypeOK
  <2>2. CASE b # a /\ Busy(b) /\ Inv!Who(b) # Inv!Who(a)
    BY <1>1, <1>2, <2>2
  <2>3. CASE b # a /\ Busy(b) /\ Inv!Who(b) = Inv!Who(a)
    <3>1. Inv!Who(b) \in twins /\ Inv!Who(b) \in People
      BY <1>2, <2>3
    <3> QED BY <1>1, <2>3, <3>1 DEF Inv!TypeOK
  <2>4. CASE b # a /\ ~Busy(b)
    BY <1>1, <2>4 DEF Busy
  <2> QED BY <2>1, <2>2, <2>3, <2>4
<1> QED BY <1>1, <1>3, <1>4, <1>5

(* One invitation is one seat: whoever is writing the seat has none yet,     *)
(* unless somebody raced with them (acceptInvite).                           *)
THEOREM SeatInvariant ==
  Inv!Spec => []SeatInv
<1> USE NoneIsNothing, FinitelyMany, BoundsAreNumbers
<1>1. Inv!Init => SeatInv
  <2>1. Inv!Init => Inv!TypeOK
    <3> SUFFICES ASSUME Inv!Init PROVE Inv!TypeOK
      OBVIOUS
    <3> USE DEF Inv!Init
    <3>1. Inv!NoCreate \in [pc : {"idle"} \cup Inv!CreateStages, email : People \cup {None}, counted : Nat]
      BY DEF Inv!NoCreate
    <3>2. Inv!NoAccept \in [pc : {"idle"} \cup Inv!AcceptStages, inv : Invites \cup {None}]
      BY DEF Inv!NoAccept
    <3>3. Inv!NoCreate.pc = "idle" /\ Inv!NoAccept.pc = "idle"
      BY DEF Inv!NoCreate, Inv!NoAccept
    <3>4. inv \in [Invites -> Inv!Invitation \cup {None}] /\ rows \in [People -> Nat]
      OBVIOUS
    <3>5. faults \in 0..MaxFaults /\ twins \subseteq People
      OBVIOUS
    <3>6. raced \in BOOLEAN
      OBVIOUS
    <3> QED BY <3>1, <3>2, <3>3, <3>4, <3>5, <3>6 DEF Inv!TypeOK
  <2> QED BY <2>1 DEF Inv!Init, SeatInv, Inv!AcceptedHasSeat, Inv!OneSeatEach, Busy,
                      Inv!NoAccept
<1>2. SeatInv /\ [Inv!Next]_(Inv!vars) => SeatInv'
  <2> SUFFICES ASSUME SeatInv, [Inv!Next]_(Inv!vars) PROVE SeatInv'
    OBVIOUS
  <2>1. CASE UNCHANGED Inv!vars
    BY <2>1 DEF Inv!vars, Inv!tables, SeatInv, Inv!TypeOK, Inv!AcceptedHasSeat,
                Inv!OneSeatEach, Busy, Inv!Who, Inv!Live
  <2>2. ASSUME NEW c \in Creators, Inv!CreateStep(c) PROVE SeatInv'
    <3>1. ASSUME UNCHANGED <<inv, rows, accepting>>, twins \subseteq twins', Inv!TypeOK'
          PROVE  SeatInv'
      BY <3>1, OthersKeepSeatInv
    <3>2. ASSUME NEW p \in People, Inv!StartCreate(c, p) PROVE SeatInv'
      BY <3>1, <3>2 DEF Inv!StartCreate, SeatInv, Inv!TypeOK, Inv!tables, Inv!CreateStages
    <3>3. CASE Inv!CountMembers(c)
      <4>1. Inv!MemberCount \in Nat
        BY CountsAreNumbers DEF SeatInv, Inv!TypeOK
      <4> QED BY <3>1, <3>3, <4>1 DEF Inv!CountMembers, SeatInv, Inv!TypeOK, Inv!tables,
                                      Inv!CreateStages
    <3>4. CASE Inv!CountPending(c) \/ Inv!CheckMember(c) \/ Inv!CheckInvite(c) \/ Inv!CreateDies(c)
      BY <3>1, <3>4 DEF Inv!CountPending, Inv!CheckMember, Inv!CheckInvite, Inv!CreateDies,
                        Inv!EndCreate, Inv!StepTo,
                        Inv!NoCreate, SeatInv, Inv!TypeOK, Inv!tables, Inv!CreateStages
    <3>5. ASSUME NEW i \in Invites, Inv!InsertInvite(c, i) PROVE SeatInv'
      <4>1. Inv!TypeOK'
        BY <3>5 DEF Inv!InsertInvite, Inv!EndCreate, Inv!NoCreate, SeatInv, Inv!TypeOK,
                    Inv!Invitation
      <4>2. \A j \in Invites : inv[j] # None => inv'[j] = inv[j]
        BY <3>5 DEF Inv!InsertInvite, SeatInv, Inv!TypeOK
      <4>3. inv'[i].status = "pending"
        BY <3>5 DEF Inv!InsertInvite, SeatInv, Inv!TypeOK
      <4>4. \A j \in Invites : j # i => inv'[j] = inv[j]
        BY <3>5 DEF Inv!InsertInvite, SeatInv, Inv!TypeOK
      <4> QED BY <3>5, <4>1, <4>2, <4>3, <4>4, OthersKeepSeatInv DEF Inv!InsertInvite
    <3> QED BY <2>2, <3>2, <3>3, <3>4, <3>5 DEF Inv!CreateStep
  <2>3. ASSUME NEW i \in Invites, Inv!Expire(i) \/ Inv!Revoke(i) PROVE SeatInv'
    <3>1. Inv!TypeOK'
      <4>1. inv[i] \in Inv!Invitation /\ inv' \in [Invites -> Inv!Invitation \cup {None}]
            /\ \A j \in Invites : inv[j] # None => inv'[j] # None
        <5>1. inv[i] \in Inv!Invitation /\ inv \in [Invites -> Inv!Invitation \cup {None}]
          BY <2>3 DEF Inv!Expire, Inv!Revoke, Inv!Live, SeatInv, Inv!TypeOK
        <5>2. PICK new \in Inv!Invitation : inv' = [inv EXCEPT ![i] = new]
          <6>1. [inv[i] EXCEPT !.expired = TRUE] \in Inv!Invitation
                /\ [inv[i] EXCEPT !.status = "revoked"] \in Inv!Invitation
            BY <5>1 DEF Inv!Invitation
          <6> QED BY <2>3, <6>1 DEF Inv!Expire, Inv!Revoke
        <5> QED BY <5>1, <5>2
      <4> QED BY <2>3, <4>1 DEF Inv!Expire, Inv!Revoke, SeatInv, Inv!TypeOK
    <3>2. \A j \in Invites : j # i => inv'[j] = inv[j]
      BY <2>3 DEF Inv!Expire, Inv!Revoke, SeatInv, Inv!TypeOK
    <3>3. inv[i] # None /\ inv[i] \in Inv!Invitation /\ inv'[i] \in Inv!Invitation
          /\ inv'[i].email = inv[i].email /\ inv'[i].status # "accepted"
      <4>1. inv[i] # None /\ inv[i] \in Inv!Invitation /\ (Inv!Expire(i) => inv[i].status = "pending")
        BY <2>3 DEF Inv!Expire, Inv!Revoke, Inv!Live, SeatInv, Inv!TypeOK
      <4>2. CASE Inv!Expire(i)
        BY <4>1, <4>2 DEF Inv!Expire, SeatInv, Inv!TypeOK, Inv!Invitation
      <4>3. CASE Inv!Revoke(i)
        BY <4>1, <4>3 DEF Inv!Revoke, SeatInv, Inv!TypeOK, Inv!Invitation
      <4> QED BY <2>3, <4>1, <4>2, <4>3
    <3> QED BY <2>3, <3>1, <3>2, <3>3, OthersKeepSeatInv DEF Inv!Expire, Inv!Revoke
  <2>4. ASSUME NEW a \in Acceptors, NEW i \in Invites, Inv!StartAccept(a, i) PROVE SeatInv'
    <3> USE DEF SeatInv
    <3>1. Inv!TypeOK'
      BY <2>4 DEF Inv!StartAccept, Inv!Live, Inv!TypeOK, Inv!AcceptStages, Inv!Invitation,
                  Inv!tables
    <3>2. \A b \in Acceptors \ {a} : accepting'[b] = accepting[b] /\ Inv!Who(b)' = Inv!Who(b)
      BY <2>4 DEF Inv!StartAccept, Inv!TypeOK, Inv!Who, Inv!tables
    <3>3. accepting'[a] = [pc |-> "member", inv |-> i] /\ Inv!Who(a)' = inv[i].email
      BY <2>4 DEF Inv!StartAccept, Inv!TypeOK, Inv!Who, Inv!tables
    <3>4. twins \subseteq twins'
          /\ \A b \in Acceptors \ {a} : Busy(b) /\ Inv!Who(b) = inv[i].email => inv[i].email \in twins'
      BY <2>4 DEF Inv!StartAccept, Busy
    <3>5. Inv!AcceptedHasSeat' /\ Inv!OneSeatEach'
      BY <2>4, <3>4 DEF Inv!StartAccept, Inv!tables, Inv!AcceptedHasSeat, Inv!OneSeatEach
    <3>6. \A b \in Acceptors : /\ accepting'[b].pc = "mark" => rows'[Inv!Who(b)'] > 0
                               /\ accepting'[b].pc = "seat" /\ Inv!Who(b)' \notin twins'
                                    => rows'[Inv!Who(b)'] = 0
      BY <2>4, <3>2, <3>3, <3>4 DEF Inv!StartAccept, Inv!tables
    <3>7. \A b, d \in Acceptors :
            b # d /\ Busy(b)' /\ Busy(d)' /\ Inv!Who(b)' = Inv!Who(d)' => Inv!Who(b)' \in twins'
      BY <3>2, <3>3, <3>4 DEF Busy
    <3> QED BY <3>1, <3>5, <3>6, <3>7
  <2>5. ASSUME NEW a \in Acceptors, Inv!CheckSeated(a) PROVE SeatInv'
    <3> DEFINE to == IF rows[Inv!Who(a)] > 0 THEN "mark" ELSE "seat"
    <3>1. Busy(a) /\ to \in Inv!AcceptStages /\ UNCHANGED <<inv, twins, rows>>
          /\ accepting' = [accepting EXCEPT ![a].pc = to]
      BY <2>5 DEF Inv!CheckSeated, Busy, Inv!AcceptStages, Inv!tables
    <3>2. Inv!TypeOK'
      BY <2>5, <3>1 DEF Inv!CheckSeated, SeatInv, Inv!TypeOK, Busy, Inv!tables
    <3>3. Inv!Who(a) \in People
      BY <3>1 DEF SeatInv, Inv!TypeOK, Busy, Inv!Who, Inv!Invitation
    <3>4. rows' = rows /\ rows[Inv!Who(a)] \in Nat /\ (Inv!Who(a) \notin twins => rows[Inv!Who(a)] <= 1)
      BY <3>1, <3>3 DEF SeatInv, Inv!TypeOK, Inv!OneSeatEach
    <3>5. \A p \in People : rows'[p] >= rows[p] /\ (p # Inv!Who(a) => rows'[p] = rows[p])
      BY <3>4 DEF SeatInv, Inv!TypeOK
    <3>6. /\ to = "mark" => rows'[Inv!Who(a)] > 0
          /\ to = "seat" => rows'[Inv!Who(a)] = 0
      BY <3>4
    <3> HIDE DEF to
    <3> QED BY <3>1, <3>2, <3>4, <3>5, <3>6, AcceptKeepsSeatInv
  <2>6. ASSUME NEW a \in Acceptors, Inv!Seat(a) PROVE SeatInv'
    <3>1. Busy(a) /\ "mark" \in Inv!AcceptStages /\ UNCHANGED <<inv, twins>>
          /\ accepting' = [accepting EXCEPT ![a].pc = "mark"]
      BY <2>6 DEF Inv!Seat, Busy, Inv!AcceptStages
    <3>2. Inv!Who(a) \in People
      BY <3>1 DEF SeatInv, Inv!TypeOK, Busy, Inv!Who, Inv!Invitation
    <3>3. rows' = [rows EXCEPT ![Inv!Who(a)] = rows[Inv!Who(a)] + 1] /\ rows \in [People -> Nat]
      BY <2>6 DEF Inv!Seat, SeatInv, Inv!TypeOK
    <3>4. Inv!TypeOK'
      BY <2>6, <3>1, <3>2, <3>3 DEF Inv!Seat, SeatInv, Inv!TypeOK, Busy
    <3>5. Inv!Who(a) \notin twins => rows'[Inv!Who(a)] <= 1
      BY <2>6, <3>2, <3>3 DEF Inv!Seat, SeatInv
    <3>6. \A p \in People : rows'[p] >= rows[p] /\ (p # Inv!Who(a) => rows'[p] = rows[p])
      BY <3>2, <3>3
    <3>7. rows'[Inv!Who(a)] > 0
      BY <3>2, <3>3
    <3> QED BY <3>1, <3>4, <3>5, <3>6, <3>7, AcceptKeepsSeatInv
  <2>7. ASSUME NEW a \in Acceptors, Inv!MarkAccepted(a) \/ Inv!AcceptDies(a) PROVE SeatInv'
    <3> USE DEF SeatInv
    <3>1. accepting' = [accepting EXCEPT ![a] = Inv!NoAccept] /\ UNCHANGED <<rows, twins>> /\ Busy(a)
      BY <2>7 DEF Inv!MarkAccepted, Inv!AcceptDies, Busy, Inv!tables
    <3>2. \A i \in Invites :
            /\ inv[i] # None => inv'[i] # None /\ inv'[i].email = inv[i].email
            /\ inv'[i] # None /\ inv'[i].status = "accepted" =>
                 \/ inv[i] # None /\ inv[i].status = "accepted"
                 \/ accepting[a].pc = "mark" /\ i = accepting[a].inv /\ inv[i] # None
      BY <2>7 DEF Inv!MarkAccepted, Inv!AcceptDies, Inv!tables, Inv!TypeOK, Inv!Invitation
    <3>3. Inv!TypeOK'
      <4>1. inv' \in [Invites -> Inv!Invitation \cup {None}]
        <5>1. accepting[a].inv \in Invites /\ inv[accepting[a].inv] \in Inv!Invitation
          BY <3>1 DEF Inv!TypeOK, Busy
        <5>2. [inv[accepting[a].inv] EXCEPT !.status = "accepted"] \in Inv!Invitation
          BY <5>1 DEF Inv!Invitation
        <5> QED BY <2>7, <5>1, <5>2 DEF Inv!MarkAccepted, Inv!AcceptDies, Inv!tables,
                                        Inv!TypeOK
      <4>2. accepting' \in [Acceptors -> [pc : {"idle"} \cup Inv!AcceptStages,
                                         inv : Invites \cup {None}]]
        BY <3>1 DEF Inv!TypeOK, Inv!NoAccept
      <4>3. \A b \in Acceptors : accepting'[b].pc # "idle" =>
              accepting'[b].inv \in Invites /\ inv'[accepting'[b].inv] # None
        BY <3>1, <3>2 DEF Inv!TypeOK, Inv!NoAccept
      <4>4. UNCHANGED <<creating, twins, raced>> /\ faults' \in 0..MaxFaults
        BY <2>7 DEF Inv!MarkAccepted, Inv!AcceptDies, Inv!TypeOK
      <4> QED BY <3>1, <4>1, <4>2, <4>3, <4>4 DEF Inv!TypeOK
    <3>4. Inv!AcceptedHasSeat'
      BY <3>1, <3>2 DEF Inv!AcceptedHasSeat, Inv!Who
    <3>5. Inv!OneSeatEach'
      BY <3>1 DEF Inv!OneSeatEach
    <3>6. \A b \in Acceptors : Busy(b)' => accepting'[b] = accepting[b] /\ Inv!Who(b)' = Inv!Who(b) /\ Busy(b)
      BY <3>1, <3>2 DEF Busy, Inv!NoAccept, Inv!TypeOK, Inv!Who
    <3> QED BY <3>1, <3>3, <3>4, <3>5, <3>6 DEF Busy
  <2> QED BY <2>1, <2>2, <2>3, <2>4, <2>5, <2>6, <2>7 DEF Inv!Next, Inv!AcceptStep
<1> QED BY <1>1, <1>2, PTL DEF Inv!Spec

\* An accepted invitation has given its seat, and nobody sits in two unless
\* two acceptances of theirs overlapped (SeatGiven).
THEOREM InvitationsSeatGiven ==
  Inv!Spec => []Inv!SeatGiven
<1> USE NoneIsNothing, FinitelyMany, BoundsAreNumbers
<1>1. SeatInv => Inv!SeatGiven
  BY DEF SeatInv, Inv!SeatGiven
<1> QED BY <1>1, SeatInvariant, PTL

-----------------------------------------------------------------------------
(* The seats of the plan.  SeatsHold counts the members and the live        *)
(* invitations of others; an acceptance under way keeps its invitation's    *)
(* seat even if that is revoked or runs out meanwhile, so the invariant     *)
(* counts it too.                                                           *)

LiveOnes == {i \in Invites : Inv!Live(i)}
Claimed(i) == \E a \in Acceptors : accepting[a].pc \in {"member", "seat"} /\ accepting[a].inv = i
Promised == {i \in Invites : (Inv!Live(i) \/ Claimed(i)) /\ rows[inv[i].email] = 0}
NotRaced == ~raced /\ twins = {}

\* A call that invites is alone, and what it has counted is still so.
Counted(c) ==
  /\ \A d \in Creators : creating[d].pc # "idle" => d = c
  /\ \A a \in Acceptors : ~Busy(a)
  /\ creating[c].pc = "pending" => creating[c].counted = 1 + Cardinality(Members)
  /\ creating[c].pc \in {"member", "invite", "insert"} =>
       1 + Cardinality(Members) + Cardinality(LiveOnes) < SeatLimit

HoldInv ==
  NotRaced =>
    /\ 1 + Cardinality(Members) + Cardinality(Promised) <= SeatLimit
    /\ \A c \in Creators : creating[c].pc # "idle" => Counted(c)

\* A first seat is one member more.
LEMMA FirstSeat ==
  ASSUME rows \in [People -> Nat], NEW p \in People, rows[p] = 0,
         rows' = [rows EXCEPT ![p] = 1]
  PROVE  Cardinality(Members)' = Cardinality(Members) + 1
<1>1. rows' \in [People -> Nat] /\ rows'[p] = 1 /\ \A q \in People \ {p} : rows'[q] = rows[q]
  OBVIOUS
<1>2. Members' = Members \cup {<<p, 1>>}
  <2>1. ASSUME NEW m \in Members' PROVE m \in Members \cup {<<p, 1>>}
    <3>1. PICK q \in People : m \in {q} \X (1..rows'[q])
      BY <2>1 DEF Members
    <3>2. CASE q = p
      BY <1>1, <3>1, <3>2
    <3>3. CASE q # p
      BY <1>1, <3>1, <3>3 DEF Members
    <3> QED BY <3>2, <3>3
  <2>2. ASSUME NEW m \in Members PROVE m \in Members'
    <3>1. PICK q \in People : m \in {q} \X (1..rows[q])
      BY <2>2 DEF Members
    <3>2. q # p
      BY <3>1
    <3> QED BY <1>1, <3>1, <3>2 DEF Members
  <2>3. <<p, 1>> \in Members'
    <3>1. <<p, 1>> \in {p} \X (1..rows'[p])
      BY <1>1
    <3> QED BY <3>1 DEF Members
  <2> QED BY <2>1, <2>2, <2>3
<1>3. <<p, 1>> \notin Members
  <2>1. SUFFICES ASSUME <<p, 1>> \in Members PROVE FALSE
    OBVIOUS
  <2>2. PICK q \in People : <<p, 1>> \in {q} \X (1..rows[q])
    BY <2>1 DEF Members
  <2> QED BY <2>2
<1> QED BY <1>2, <1>3, CountsAreNumbers, FS_AddElement

\* A step of a call that invites, which changes no row.
LEMMA CountingKeeps ==
  ASSUME SeatInv, HoldInv, NEW c \in Creators,
         UNCHANGED <<inv, rows, accepting>>,
         NotRaced' => NotRaced,
         \A d \in Creators \ {c} : creating'[d] = creating[d],
         NotRaced' /\ creating'[c].pc # "idle" => Counted(c)'
  PROVE  HoldInv'
<1> SUFFICES ASSUME NotRaced'
             PROVE  /\ 1 + Cardinality(Members)' + Cardinality(Promised)' <= SeatLimit
                    /\ \A d \in Creators : creating'[d].pc # "idle" => Counted(d)'
  BY DEF HoldInv
<1>1. Members' = Members /\ Promised' = Promised /\ LiveOnes' = LiveOnes
  BY DEF Members, Promised, LiveOnes, Inv!Live, Claimed
<1>2. ASSUME NEW d \in Creators \ {c}, creating'[d].pc # "idle" PROVE Counted(d)'
  <2>1. Counted(d)
    BY <1>2 DEF HoldInv
  <2>2. creating'[c].pc = "idle"
    BY <1>2 DEF Counted
  <2> QED BY <1>1, <1>2, <2>1, <2>2 DEF Counted, Busy
<1> QED BY <1>1, <1>2 DEF HoldInv

\* A step that promises no more seats, while nobody invites or nobody begins
\* to accept.
LEMMA FewerPromises ==
  ASSUME SeatInv, SeatInv', HoldInv, UNCHANGED <<rows, creating>>,
         NotRaced' => NotRaced,
         NotRaced' => Promised' \subseteq Promised,
         LiveOnes' \subseteq LiveOnes,
         NotRaced' => \/ \A c \in Creators : creating[c].pc = "idle"
                      \/ \A a \in Acceptors : Busy(a)' => Busy(a)
  PROVE  HoldInv'
<1> SUFFICES ASSUME NotRaced'
             PROVE  /\ 1 + Cardinality(Members)' + Cardinality(Promised)' <= SeatLimit
                    /\ \A d \in Creators : creating'[d].pc # "idle" => Counted(d)'
  BY DEF HoldInv
<1>1. Members' = Members /\ Promised \in SUBSET Invites /\ Promised' \in SUBSET Invites
      /\ LiveOnes \in SUBSET Invites /\ LiveOnes' \in SUBSET Invites
  BY DEF Members, Promised, LiveOnes
<1>2. rows \in [People -> Nat]
  BY DEF SeatInv, Inv!TypeOK
<1>3. /\ Cardinality(Members) \in Nat
      /\ Cardinality(Promised) \in Nat /\ Cardinality(Promised') \in Nat
      /\ Cardinality(LiveOnes) \in Nat /\ Cardinality(LiveOnes') \in Nat
      /\ Cardinality(Promised') <= Cardinality(Promised)
      /\ Cardinality(LiveOnes') <= Cardinality(LiveOnes)
  BY <1>1, <1>2, CountsAreNumbers
<1>4. ASSUME NEW c \in Creators, creating'[c].pc # "idle" PROVE Counted(c)'
  <2>1. Counted(c) /\ \A a \in Acceptors : Busy(a)' => Busy(a)
    BY <1>4 DEF HoldInv
  <2> QED BY <1>1, <1>3, <1>4, <2>1, BoundsAreNumbers DEF Counted
<1> QED BY <1>1, <1>3, <1>4, BoundsAreNumbers DEF HoldInv

(* Members and promised seats stay within the limit a creator counted        *)
(* against, and the invitations created since (createInvite).                *)
THEOREM InvitationsHoldInvariant ==
  Inv!Spec => []HoldInv
<1>1. Inv!Init /\ SeatInv => HoldInv
  <2> SUFFICES ASSUME Inv!Init, SeatInv PROVE HoldInv
    OBVIOUS
  <2>1. Members = {} /\ Promised = {}
    BY DEF Inv!Init, Members, Promised, Inv!Live, Claimed, Inv!NoAccept
  <2>2. \A c \in Creators : creating[c].pc = "idle"
    BY DEF Inv!Init, Inv!NoCreate
  <2> QED BY <2>1, <2>2, FS_EmptySet, BoundsAreNumbers DEF HoldInv
<1>2. HoldInv /\ SeatInv /\ SeatInv' /\ [Inv!Next]_(Inv!vars) => HoldInv'
  <2> SUFFICES ASSUME HoldInv, SeatInv, SeatInv', [Inv!Next]_(Inv!vars) PROVE HoldInv'
    OBVIOUS
  <2>0. Inv!TypeOK /\ Inv!TypeOK'
    BY DEF SeatInv
  <2>1. CASE UNCHANGED Inv!vars
    <3>1. Members' = Members /\ Promised' = Promised /\ LiveOnes' = LiveOnes
      BY <2>1 DEF Members, Promised, LiveOnes, Inv!Live, Claimed, Inv!vars, Inv!tables
    <3> QED BY <2>1, <3>1 DEF HoldInv, NotRaced, Counted, Busy, Inv!vars, Inv!tables
  <2>2. ASSUME NEW c \in Creators, NEW p \in People, Inv!StartCreate(c, p) PROVE HoldInv'
    <3>1. creating'[c] = [pc |-> "members", email |-> p, counted |-> 0]
          /\ \A d \in Creators \ {c} : creating'[d] = creating[d]
      BY <2>0, <2>2 DEF Inv!StartCreate, Inv!TypeOK
    <3>2. NotRaced' => /\ NotRaced
                       /\ \A d \in Creators : creating[d].pc = "idle"
                       /\ \A a \in Acceptors : ~Busy(a)
      BY <2>0, <2>2 DEF Inv!StartCreate, NotRaced, Busy, Inv!TypeOK
    <3>3. NotRaced' => Counted(c)'
      BY <2>2, <3>1, <3>2 DEF Counted, Inv!StartCreate, Busy
    <3> QED BY <2>2, <3>1, <3>2, <3>3, CountingKeeps DEF Inv!StartCreate, Inv!tables
  <2>3. ASSUME NEW c \in Creators, creating[c].pc # "idle", Inv!EndCreate(c),
               UNCHANGED <<inv, rows, accepting, twins, raced>>
        PROVE  HoldInv'
    <3>1. creating'[c].pc = "idle" /\ \A d \in Creators \ {c} : creating'[d] = creating[d]
      BY <2>0, <2>3 DEF Inv!EndCreate, Inv!NoCreate, Inv!TypeOK
    <3> QED BY <2>3, <3>1, CountingKeeps DEF NotRaced
  <2>4. ASSUME NEW c \in Creators, Inv!CountMembers(c) PROVE HoldInv'
    <3>1. creating'[c].pc = "pending" /\ creating'[c].counted = Inv!MemberCount
          /\ \A d \in Creators \ {c} : creating'[d] = creating[d]
      BY <2>0, <2>4 DEF Inv!CountMembers, Inv!TypeOK, Inv!CreateStages
    <3>2. NotRaced => Counted(c)
      BY <2>4 DEF HoldInv, Inv!CountMembers
    <3>3. Inv!MemberCount = 1 + Cardinality(Members) /\ Members' = Members
      BY <2>4, SameCount DEF Inv!MemberCount, Members, Inv!CountMembers, Inv!tables
    <3>4. NotRaced' => Counted(c)'
      BY <2>4, <3>1, <3>2, <3>3 DEF Counted, NotRaced, Inv!CountMembers, Busy, Inv!tables
    <3> QED BY <2>4, <3>1, <3>4, CountingKeeps DEF Inv!CountMembers, NotRaced, Inv!tables
  <2>5. ASSUME NEW c \in Creators, Inv!CountPending(c) PROVE HoldInv'
    <3>1. CASE Inv!EndCreate(c)
      BY <2>3, <2>5, <3>1 DEF Inv!CountPending, Inv!tables
    <3>2. CASE ~Inv!EndCreate(c)
      <4>1. creating'[c].pc = "member" /\ \A d \in Creators \ {c} : creating'[d] = creating[d]
        BY <2>0, <2>5, <3>2 DEF Inv!CountPending, Inv!TypeOK
      <4>2. creating[c].counted + Inv!PendingCount < SeatLimit
        <5>1. ~(creating[c].counted + Inv!PendingCount >= SeatLimit)
          BY <2>5, <3>2 DEF Inv!CountPending
        <5>2. Inv!PendingCount = Cardinality(LiveOnes) /\ LiveOnes \in SUBSET Invites
          BY SameCount DEF Inv!PendingCount, LiveOnes
        <5>3. Inv!PendingCount \in Nat /\ creating[c].counted \in Nat
          BY <2>0, <5>2, CountsAreNumbers DEF Inv!TypeOK
        <5> QED BY <5>1, <5>3, BoundsAreNumbers
      <4>3. NotRaced => Counted(c)
        BY <2>5 DEF HoldInv, Inv!CountPending
      <4>4. Members' = Members /\ LiveOnes' = LiveOnes /\ Inv!PendingCount = Cardinality(LiveOnes)
        BY <2>5, SameCount DEF Members, LiveOnes, Inv!Live, Inv!PendingCount, Inv!CountPending,
                    Inv!tables
      <4>5. NotRaced' => Counted(c)'
        BY <2>5, <4>1, <4>2, <4>3, <4>4 DEF Counted, NotRaced, Inv!CountPending, Busy,
                                            Inv!tables
      <4> QED BY <2>5, <4>1, <4>5, CountingKeeps DEF Inv!CountPending, NotRaced, Inv!tables
    <3> QED BY <3>1, <3>2
  <2>6. ASSUME NEW c \in Creators, Inv!CheckMember(c) \/ Inv!CheckInvite(c) PROVE HoldInv'
    <3>1. CASE Inv!EndCreate(c)
      BY <2>3, <2>6, <3>1 DEF Inv!CheckMember, Inv!CheckInvite, Inv!tables
    <3>2. CASE ~Inv!EndCreate(c)
      <4>1. creating'[c].pc \in {"invite", "insert"} /\ creating[c].pc \in {"member", "invite"}
            /\ \A d \in Creators \ {c} : creating'[d] = creating[d]
        BY <2>0, <2>6, <3>2 DEF Inv!CheckMember, Inv!CheckInvite, Inv!StepTo, Inv!TypeOK
      <4>2. UNCHANGED <<inv, rows, accepting, twins, raced>>
        BY <2>6 DEF Inv!CheckMember, Inv!CheckInvite, Inv!tables
      <4>3. NotRaced => Counted(c)
        BY <4>1 DEF HoldInv
      <4>4. Members' = Members /\ LiveOnes' = LiveOnes
        BY <4>2 DEF Members, LiveOnes, Inv!Live
      <4>5. NotRaced' => Counted(c)'
        BY <4>1, <4>2, <4>3, <4>4 DEF Counted, NotRaced, Busy
      <4> QED BY <4>1, <4>2, <4>5, CountingKeeps DEF NotRaced
    <3> QED BY <3>1, <3>2
  <2>7. ASSUME NEW c \in Creators, Inv!CreateDies(c) PROVE HoldInv'
    BY <2>3, <2>7 DEF Inv!CreateDies, Inv!tables
  <2>8. ASSUME NEW c \in Creators, NEW i \in Invites, Inv!InsertInvite(c, i) PROVE HoldInv'
    <3> SUFFICES ASSUME NotRaced'
                 PROVE  /\ 1 + Cardinality(Members)' + Cardinality(Promised)' <= SeatLimit
                        /\ \A d \in Creators : creating'[d].pc # "idle" => Counted(d)'
      BY DEF HoldInv
    <3>1. Counted(c) /\ creating[c].pc = "insert"
      BY <2>8 DEF HoldInv, Inv!InsertInvite, NotRaced
    <3>2. Members' = Members
      BY <2>8 DEF Inv!InsertInvite, Members
    <3>3. Promised' \subseteq LiveOnes \cup {i}
      <4>1. \A j \in Invites : Claimed(j)' = FALSE
        BY <2>8, <3>1 DEF Claimed, Counted, Busy, Inv!InsertInvite
      <4>2. \A j \in Invites \ {i} : Inv!Live(j)' = Inv!Live(j)
        BY <2>0, <2>8 DEF Inv!InsertInvite, Inv!Live, Inv!TypeOK
      <4> QED BY <4>1, <4>2 DEF Promised, LiveOnes
    <3>4. Cardinality(Promised') <= Cardinality(LiveOnes) + 1
      <4>1. LiveOnes \in SUBSET Invites /\ LiveOnes \cup {i} \in SUBSET Invites
            /\ Promised' \in SUBSET Invites
        BY DEF LiveOnes, Promised
      <4>2. IsFiniteSet(LiveOnes) /\ Cardinality(LiveOnes) \in Nat
            /\ Cardinality(Promised') \in Nat
            /\ Cardinality(Promised') <= Cardinality(LiveOnes \cup {i})
        BY <2>0, <3>3, <4>1, CountsAreNumbers DEF Inv!TypeOK
      <4>3. Cardinality(LiveOnes \cup {i}) <= Cardinality(LiveOnes) + 1
            /\ Cardinality(LiveOnes \cup {i}) \in Nat
        <5> DEFINE S == LiveOnes
        <5>1. IsFiniteSet(S) /\ Cardinality(S) \in Nat
          BY <4>2
        <5> HIDE DEF S
        <5>2. Cardinality(S \cup {i}) = IF i \in S THEN Cardinality(S) ELSE Cardinality(S) + 1
          BY <5>1, FS_AddElement
        <5>3. Cardinality(S \cup {i}) <= Cardinality(S) + 1 /\ Cardinality(S \cup {i}) \in Nat
          BY <5>1, <5>2
        <5> QED BY <5>3 DEF S
      <4> QED BY <4>2, <4>3
    <3>5. Cardinality(Members) \in Nat /\ Cardinality(LiveOnes) \in Nat
          /\ Cardinality(Promised') \in Nat
      BY <2>0, CountsAreNumbers DEF Inv!TypeOK, LiveOnes, Promised
    <3>6. \A d \in Creators : creating'[d].pc = "idle"
      BY <2>0, <2>8, <3>1 DEF Inv!InsertInvite, Inv!EndCreate, Inv!NoCreate, Counted,
                              Inv!TypeOK
    <3> QED BY <3>1, <3>2, <3>4, <3>5, <3>6, BoundsAreNumbers DEF Counted
  <2>9. ASSUME NEW i \in Invites, Inv!Expire(i) \/ Inv!Revoke(i) PROVE HoldInv'
    <3>1. UNCHANGED <<rows, creating, accepting, twins, raced>>
      BY <2>9 DEF Inv!Expire, Inv!Revoke
    <3>2. \A j \in Invites : /\ Inv!Live(j)' => Inv!Live(j)
                             /\ inv[j] # None => inv'[j] # None /\ inv'[j].email = inv[j].email
      <4>1. inv[i] # None /\ inv[i] \in Inv!Invitation
        BY <2>0, <2>9 DEF Inv!Expire, Inv!Revoke, Inv!Live, Inv!TypeOK
      <4>2. \A j \in Invites \ {i} : inv'[j] = inv[j]
        BY <2>0, <2>9 DEF Inv!Expire, Inv!Revoke, Inv!TypeOK
      <4>3. inv'[i] \in Inv!Invitation /\ inv'[i].email = inv[i].email /\ ~Inv!Live(i)'
        <5>1. CASE Inv!Expire(i)
          <6>1. inv'[i] = [inv[i] EXCEPT !.expired = TRUE]
            BY <2>0, <5>1 DEF Inv!Expire, Inv!TypeOK
          <6> QED BY <4>1, <6>1 DEF Inv!Live, Inv!Invitation
        <5>2. CASE Inv!Revoke(i)
          <6>1. inv'[i] = [inv[i] EXCEPT !.status = "revoked"]
            BY <2>0, <5>2 DEF Inv!Revoke, Inv!TypeOK
          <6> QED BY <4>1, <6>1 DEF Inv!Live, Inv!Invitation
        <5> QED BY <2>9, <5>1, <5>2
      <4> QED BY <4>1, <4>2, <4>3, NoneIsNothing DEF Inv!Live
    <3>3. \A j \in Invites : Claimed(j)' = Claimed(j) /\ (Claimed(j) => inv[j] # None)
      BY <2>0, <3>1 DEF Claimed, Inv!TypeOK
    <3>4. Promised' \subseteq Promised /\ LiveOnes' \subseteq LiveOnes
      BY <3>1, <3>2, <3>3 DEF Promised, LiveOnes, Inv!Live
    <3> QED BY <3>1, <3>4, FewerPromises DEF NotRaced, Busy
  <2>10. ASSUME NEW a \in Acceptors, NEW i \in Invites, Inv!StartAccept(a, i) PROVE HoldInv'
    <3>1. UNCHANGED <<inv, rows, creating>> /\ Inv!Live(i)
      BY <2>10 DEF Inv!StartAccept, Inv!tables
    <3>2. NotRaced' => NotRaced /\ \A c \in Creators : creating[c].pc = "idle"
      BY <2>0, <2>10 DEF Inv!StartAccept, NotRaced, Inv!TypeOK
    <3>3. \A j \in Invites : Inv!Live(j)' = Inv!Live(j) /\ (Claimed(j)' => Claimed(j) \/ j = i)
      BY <2>0, <2>10, <3>1 DEF Inv!StartAccept, Inv!Live, Claimed, Inv!TypeOK
    <3>4. Promised' \subseteq Promised /\ LiveOnes' \subseteq LiveOnes
      BY <3>1, <3>3 DEF Promised, LiveOnes
    <3> QED BY <3>1, <3>2, <3>4, FewerPromises
  <2>11. ASSUME NEW a \in Acceptors,
                UNCHANGED <<rows, creating, twins, raced>>, Busy(a),
                LiveOnes' \subseteq LiveOnes,
                \A j \in Invites : inv[j] # None => inv'[j] # None /\ inv'[j].email = inv[j].email,
                \A b \in Acceptors \ {a} : accepting'[b] = accepting[b],
                accepting'[a].pc \in {"member", "seat"} =>
                  accepting[a].pc \in {"member", "seat"} /\ accepting'[a].inv = accepting[a].inv
         PROVE  HoldInv'
    <3>1. \A j \in Invites : (Claimed(j)' => Claimed(j)) /\ (Claimed(j) => inv[j] # None)
      BY <2>0, <2>11 DEF Claimed, Inv!TypeOK
    <3>2. Promised' \subseteq Promised
      BY <2>11, <3>1 DEF Promised, LiveOnes, Inv!Live
    <3>3. \A b \in Acceptors : Busy(b)' => Busy(b)
      BY <2>11 DEF Busy
    <3> QED BY <2>11, <3>2, <3>3, FewerPromises DEF NotRaced
  <2>12. ASSUME NEW a \in Acceptors, Inv!CheckSeated(a) PROVE HoldInv'
    <3>1. UNCHANGED <<inv, rows, creating, twins, raced>> /\ Busy(a)
          /\ accepting[a].pc = "member"
      BY <2>12 DEF Inv!CheckSeated, Inv!tables, Busy
    <3>2. accepting'[a].inv = accepting[a].inv
          /\ \A b \in Acceptors \ {a} : accepting'[b] = accepting[b]
      BY <2>0, <2>12 DEF Inv!CheckSeated, Inv!TypeOK
    <3>3. LiveOnes' = LiveOnes
      BY <3>1 DEF LiveOnes, Inv!Live
    <3> QED BY <2>11, <3>1, <3>2, <3>3
  <2>13. ASSUME NEW a \in Acceptors, Inv!MarkAccepted(a) \/ Inv!AcceptDies(a) PROVE HoldInv'
    <3>1. UNCHANGED <<rows, creating, twins, raced>> /\ Busy(a)
          /\ accepting' = [accepting EXCEPT ![a] = Inv!NoAccept]
      BY <2>13 DEF Inv!MarkAccepted, Inv!AcceptDies, Inv!tables, Busy
    <3>2. accepting'[a].pc = "idle" /\ \A b \in Acceptors \ {a} : accepting'[b] = accepting[b]
      BY <2>0, <3>1 DEF Inv!NoAccept, Inv!TypeOK
    <3>3. \A j \in Invites : /\ Inv!Live(j)' => Inv!Live(j)
                             /\ inv[j] # None => inv'[j] # None /\ inv'[j].email = inv[j].email
      <4>1. CASE Inv!AcceptDies(a)
        BY <4>1 DEF Inv!AcceptDies, Inv!tables, Inv!Live
      <4>2. CASE Inv!MarkAccepted(a)
        <5> DEFINE i == accepting[a].inv
        <5>1. i \in Invites /\ inv[i] # None /\ inv[i] \in Inv!Invitation
              /\ inv' = [inv EXCEPT ![i].status = "accepted"]
          BY <2>0, <3>1, <4>2 DEF Inv!TypeOK, Busy, Inv!MarkAccepted
        <5>2. inv'[i] \in Inv!Invitation /\ inv'[i].email = inv[i].email
              /\ inv'[i].status = "accepted" /\ \A j \in Invites \ {i} : inv'[j] = inv[j]
          BY <2>0, <5>1 DEF Inv!TypeOK, Inv!Invitation
        <5> HIDE DEF i
        <5> QED BY <5>1, <5>2, NoneIsNothing DEF Inv!Live
      <4> QED BY <2>13, <4>1, <4>2
    <3>4. LiveOnes' \subseteq LiveOnes
      BY <3>3 DEF LiveOnes
    <3> QED BY <2>11, <3>1, <3>2, <3>3, <3>4
  <2>14. ASSUME NEW a \in Acceptors, Inv!Seat(a) PROVE HoldInv'
    <3> SUFFICES ASSUME NotRaced'
                 PROVE  /\ 1 + Cardinality(Members)' + Cardinality(Promised)' <= SeatLimit
                        /\ \A d \in Creators : creating'[d].pc # "idle" => Counted(d)'
      BY DEF HoldInv
    <3> DEFINE i == accepting[a].inv
               p == Inv!Who(a)
    <3>1. /\ NotRaced /\ Busy(a) /\ i \in Invites /\ inv[i] # None
          /\ p = inv[i].email /\ p \in People /\ rows[p] = 0
      BY <2>0, <2>14 DEF Inv!Seat, NotRaced, Busy, SeatInv, Inv!TypeOK, Inv!Who,
                         Inv!Invitation
    <3>2. rows' = [rows EXCEPT ![p] = 1] /\ rows \in [People -> Nat] /\ rows' \in [People -> Nat]
      BY <2>0, <2>14, <3>1 DEF Inv!Seat, Inv!TypeOK
    <3>3. i \in Promised
      BY <2>14, <3>1 DEF Promised, Claimed, Inv!Seat
    <3>4. Promised' \subseteq Promised \ {i}
      <4>1. inv' = inv /\ \A j \in Invites : Inv!Live(j)' = Inv!Live(j)
        BY <2>14 DEF Inv!Seat, Inv!Live
      <4>2. \A j \in Invites : Claimed(j)' => Claimed(j)
        BY <2>0, <2>14 DEF Inv!Seat, Claimed, Inv!TypeOK
      <4>3. ASSUME NEW j \in Promised' PROVE j \in Promised
        <5>1. j \in Invites /\ (Inv!Live(j) \/ Claimed(j)) /\ rows'[inv[j].email] = 0
          BY <4>1, <4>2, <4>3 DEF Promised
        <5>2. inv[j].email \in People
          BY <2>0, <5>1 DEF Inv!Live, Claimed, Inv!TypeOK, Inv!Invitation
        <5> QED BY <3>1, <3>2, <5>1, <5>2 DEF Promised
      <4>4. i \notin Promised'
        BY <3>1, <3>2, <4>1 DEF Promised
      <4> QED BY <4>3, <4>4
    <3> HIDE DEF i, p
    <3>5. Cardinality(Members)' = Cardinality(Members) + 1 /\ Cardinality(Members) \in Nat
      BY <3>1, <3>2, FirstSeat, CountsAreNumbers
    <3>6. Cardinality(Promised') <= Cardinality(Promised) - 1
          /\ Cardinality(Promised') \in Nat /\ Cardinality(Promised) \in Nat
      <4>1. Promised \in SUBSET Invites /\ Promised' \in SUBSET Invites
            /\ Promised \ {i} \in SUBSET Invites
        BY DEF Promised
      <4>2. /\ Cardinality(Promised') <= Cardinality(Promised \ {i})
            /\ IsFiniteSet(Promised)
            /\ Cardinality(Promised') \in Nat /\ Cardinality(Promised) \in Nat
        BY <3>2, <3>4, <4>1, CountsAreNumbers
      <4> QED BY <3>3, <4>2, FS_RemoveElement
    <3>7. \A c \in Creators : creating[c].pc = "idle" /\ creating' = creating
      BY <2>14, <3>1 DEF HoldInv, Counted, Inv!Seat
    <3> QED BY <3>1, <3>5, <3>6, <3>7, BoundsAreNumbers DEF HoldInv
  <2> QED BY <2>1, <2>2, <2>4, <2>5, <2>6, <2>7, <2>8, <2>9, <2>10, <2>12, <2>13, <2>14
          DEF Inv!Next, Inv!CreateStep, Inv!AcceptStep
<1>3. Inv!Spec => []SeatInv
  BY SeatInvariant
<1> QED BY <1>1, <1>2, <1>3, PTL DEF Inv!Spec

\* The seats given, and those promised to others, stay within the plan, unless
\* a creation overlapped another or an acceptance (raced), or one person
\* accepted twice at once (twins).
THEOREM InvitationsSeatsHold ==
  Inv!Spec => []Inv!SeatsHold
<1>1. SeatInv /\ HoldInv => Inv!SeatsHold
  <2> SUFFICES ASSUME SeatInv, HoldInv, NotRaced
               PROVE  Inv!MemberCount + Cardinality({i \in Invites : Inv!Live(i) /\ rows[inv[i].email] = 0})
                        <= SeatLimit
    BY SameCount DEF Inv!SeatsHold, NotRaced
  <2> DEFINE S == {i \in Invites : Inv!Live(i) /\ rows[inv[i].email] = 0}
  <2>1. S \subseteq Promised /\ S \in SUBSET Invites /\ Promised \in SUBSET Invites
    BY DEF Promised
  <2>2. Inv!MemberCount = 1 + Cardinality(Members)
    BY SameCount DEF Inv!MemberCount, Members
  <2> HIDE DEF S
  <2>3. Cardinality(S) <= Cardinality(Promised) /\ Cardinality(S) \in Nat
        /\ Cardinality(Promised) \in Nat /\ Cardinality(Members) \in Nat
    BY <2>1, CountsAreNumbers DEF SeatInv, Inv!TypeOK
  <2> QED BY <2>2, <2>3, BoundsAreNumbers DEF HoldInv, S
<1> QED BY <1>1, SeatInvariant, InvitationsHoldInvariant, PTL

-----------------------------------------------------------------------------
(***************************************************************************)
(* AdminConsole: role changes and their record.                            *)
(***************************************************************************)

\* Between the check of the actor's role and the write, the actor is still a
\* super admin and not the one whose role is written.
Authorised(c) ==
  call[c].pc \in Acc!Changing \ {"log"} =>
    role[call[c].actor] = "super_admin" /\ call[c].actor # call[c].subject

\* SomeoneCanRestore is not inductive: what keeps it across SetRole is that
\* the one who makes the change remains.
RestoreInv ==
  /\ Acc!TypeOK
  /\ Acc!SomeoneCanRestore
  /\ ~crowded =>
       /\ \A c, d \in Calls : call[c].pc \in Acc!Changing /\ call[d].pc \in Acc!Changing => c = d
       /\ \A c \in Calls : Authorised(c)

-----------------------------------------------------------------------------
\* Type correctness, one lemma per part.

LEMMA IdleIsRequest == Acc!Idle \in Acc!Request
BY DEF Acc!Idle, Acc!Request, Acc!Changing, Acc!Reading, Acc!Roles

\* The log is a sequence of entries, read by position.
LEMMA LogEntries ==
  ASSUME Acc!TypeOK
  PROVE  /\ Len(log) \in Nat /\ DOMAIN log = 1..Len(log)
         /\ \A i \in DOMAIN log : i \in Nat /\ log[i] \in Acc!Entry /\ log[i].repeats \in Nat
<1>1. Len(log) \in Nat /\ DOMAIN log = 1..Len(log)
  BY LenProperties DEF Acc!TypeOK
<1>2. ASSUME NEW i \in DOMAIN log PROVE i \in Nat /\ log[i] \in Acc!Entry
  BY <1>1, ElementOfSeq DEF Acc!TypeOK
<1> QED BY <1>1, <1>2 DEF Acc!Entry

\* The step of one request that leaves the log alone, or adds to it.
LEMMA RequestTypeOK ==
  ASSUME Acc!TypeOK, NEW c \in Calls, NEW r \in Acc!Request, call' = [call EXCEPT ![c] = r],
         r.pc # "idle" => r.actor \in Users,
         r.pc \in Acc!Changing => r.subject \in Users,
         r.pc = "fold" => r.found \in DOMAIN log',
         log' \in Seq(Acc!Entry), Len(log') <= MaxLog, DOMAIN log \subseteq DOMAIN log',
         role' \in [Users -> Acc!Roles],
         views' \in [Users -> 0..MaxViews], faults' \in 0..MaxFaults,
         contested' \subseteq Users, crowded' \in BOOLEAN, doubled' \subseteq Users
  PROVE  Acc!TypeOK'
BY DEF Acc!TypeOK

\* The same, for a request that goes from one stage to the next.
LEMMA StageTypeOK ==
  ASSUME Acc!TypeOK, NEW c \in Calls, NEW to \in Acc!Changing \cup Acc!Reading,
         call' = [call EXCEPT ![c].pc = to],
         call[c].pc # "idle", to \in Acc!Changing => call[c].pc \in Acc!Changing,
         to # "fold",
         role' \in [Users -> Acc!Roles],
         UNCHANGED <<log, views, faults, contested, crowded, doubled>>
  PROVE  Acc!TypeOK'
<1>1. [call[c] EXCEPT !.pc = to] \in Acc!Request
  BY DEF Acc!TypeOK, Acc!Request
<1>2. call' = [call EXCEPT ![c] = [call[c] EXCEPT !.pc = to]]
  OBVIOUS
<1>3. [call[c] EXCEPT !.pc = to].pc = to /\ [call[c] EXCEPT !.pc = to].actor = call[c].actor
      /\ [call[c] EXCEPT !.pc = to].subject = call[c].subject
  BY DEF Acc!TypeOK, Acc!Request
<1> DEFINE r == [call[c] EXCEPT !.pc = to]
<1> HIDE DEF r
<1> QED BY <1>1, <1>2, <1>3, RequestTypeOK DEF Acc!TypeOK, r

\* Having looked for a recent row, a read goes on to insert or to fold.
LEMMA FindingMoves ==
  ASSUME Acc!TypeOK, NEW c \in Calls, Acc!FindRecent(c)
  PROVE  \E r \in Acc!Request : call' = [call EXCEPT ![c] = r] /\ r.pc \in {"insert", "fold"}
<1>1. call[c] \in Acc!Request
  BY DEF Acc!TypeOK
<1>2. CASE Acc!Step(c, "insert")
  <2>1. [call[c] EXCEPT !.pc = "insert"] \in Acc!Request
    BY <1>1 DEF Acc!Request, Acc!Reading
  <2> QED BY <1>1, <1>2, <2>1 DEF Acc!Step, Acc!Request
<1>3. ASSUME NEW i \in Acc!Recent(call[c].actor),
             call' = [call EXCEPT ![c].pc = "fold", ![c].found = i, ![c].repeats = log[i].repeats]
      PROVE  \E r \in Acc!Request : call' = [call EXCEPT ![c] = r] /\ r.pc \in {"insert", "fold"}
  <2> DEFINE r == [call[c] EXCEPT !.pc = "fold", !.found = i, !.repeats = log[i].repeats]
  <2>1. i \in Nat /\ log[i].repeats \in Nat
    BY LogEntries DEF Acc!Recent
  <2>2. r \in Acc!Request /\ r.pc = "fold"
    BY <1>1, <2>1 DEF Acc!Request, Acc!Reading
  <2>3. call' = [call EXCEPT ![c] = r]
    BY <1>3
  <2> HIDE DEF r
  <2> QED BY <2>2, <2>3
<1> QED BY <1>2, <1>3 DEF Acc!FindRecent

(* Every variable of the console keeps its type: each administrator's call   *)
(* and each audit entry is one the code can make.                            *)
THEOREM AccessTypeOK ==
  Acc!Spec => []Acc!TypeOK
<1> USE NoneIsNothing, BoundsAreNumbers, SomeoneIsSuper
<1>1. Acc!Init => Acc!TypeOK
  <2> SUFFICES ASSUME Acc!Init PROVE Acc!TypeOK
    OBVIOUS
  <2>1. call \in [Calls -> Acc!Request] /\ \A c \in Calls : call[c].pc = "idle"
    BY IdleIsRequest DEF Acc!Init, Acc!Idle
  <2>2. log \in Seq(Acc!Entry) /\ Len(log) <= MaxLog
    BY DEF Acc!Init
  <2>3. crowded \in BOOLEAN
    BY DEF Acc!Init
  <2>4. role \in [Users -> Acc!Roles] /\ views \in [Users -> 0..MaxViews] /\ faults \in 0..MaxFaults
        /\ contested \subseteq Users /\ doubled \subseteq Users
    BY DEF Acc!Init, Acc!Roles
  <2> QED BY <2>1, <2>2, <2>3, <2>4 DEF Acc!TypeOK, Acc!Changing
<1>2. Acc!TypeOK /\ [Acc!Next]_(Acc!vars) => Acc!TypeOK'
  <2> SUFFICES ASSUME Acc!TypeOK, [Acc!Next]_(Acc!vars) PROVE Acc!TypeOK'
    OBVIOUS
  <2>1. CASE UNCHANGED Acc!vars
    BY <2>1 DEF Acc!vars, Acc!TypeOK
  <2>2. ASSUME NEW c \in Calls, NEW actor \in Users, NEW u \in Users, NEW to \in Acc!Roles,
               Acc!StartChange(c, actor, u, to)
        PROVE  Acc!TypeOK'
    <3> DEFINE r == [Acc!Idle EXCEPT !.pc = "stepup", !.actor = actor, !.subject = u, !.to = to]
    <3>1. r \in Acc!Request /\ r.pc = "stepup" /\ r.actor = actor /\ r.subject = u
      BY IdleIsRequest DEF Acc!Idle, Acc!Request, Acc!Changing
    <3>2. contested' \subseteq Users /\ crowded' \in BOOLEAN
      BY <2>2 DEF Acc!StartChange, Acc!TypeOK
    <3>3. call' = [call EXCEPT ![c] = r] /\ UNCHANGED <<role, log, views, faults, doubled>>
      BY <2>2 DEF Acc!StartChange
    <3> HIDE DEF r
    <3> QED BY <3>1, <3>2, <3>3, RequestTypeOK DEF Acc!TypeOK
  <2>3. ASSUME NEW c \in Calls, call[c].pc # "idle", Acc!End(c),
               UNCHANGED <<role, views, crowded>>,
               log' \in Seq(Acc!Entry), Len(log') <= MaxLog, DOMAIN log \subseteq DOMAIN log',
               faults' \in 0..MaxFaults, contested' \subseteq Users, doubled' \subseteq Users
        PROVE  Acc!TypeOK'
    BY <2>3, IdleIsRequest, RequestTypeOK DEF Acc!End, Acc!Idle, Acc!TypeOK, Acc!Changing
  <2>4. ASSUME NEW c \in Calls, Acc!StepUp(c) PROVE Acc!TypeOK'
    <3>1. CASE Acc!Step(c, "before")
      BY <2>4, <3>1, StageTypeOK DEF Acc!StepUp, Acc!Step, Acc!Changing, Acc!TypeOK
    <3>2. CASE Acc!End(c)
      BY <2>3, <2>4, <3>2 DEF Acc!StepUp, Acc!TypeOK
    <3> QED BY <2>4, <3>1, <3>2 DEF Acc!StepUp
  <2>5. ASSUME NEW c \in Calls, Acc!ReadBefore(c) PROVE Acc!TypeOK'
    <3> DEFINE r == [call[c] EXCEPT !.before = role[call[c].subject], !.pc = "write"]
    <3>1. call[c].subject \in Users /\ call[c].actor \in Users /\ call[c] \in Acc!Request
      BY <2>5 DEF Acc!ReadBefore, Acc!TypeOK, Acc!Changing
    <3>2. r \in Acc!Request /\ r.pc = "write" /\ r.actor = call[c].actor /\ r.subject = call[c].subject
      BY <3>1 DEF Acc!Request, Acc!Changing, Acc!TypeOK
    <3>3. call' = [call EXCEPT ![c] = r]
          /\ UNCHANGED <<role, log, views, faults, contested, crowded, doubled>>
      BY <2>5 DEF Acc!ReadBefore
    <3> HIDE DEF r
    <3> QED BY <3>1, <3>2, <3>3, RequestTypeOK DEF Acc!TypeOK
  <2>6. ASSUME NEW c \in Calls, Acc!SetRole(c) PROVE Acc!TypeOK'
    <3>1. role' \in [Users -> Acc!Roles]
      <4>1. call[c].to \in Acc!Roles /\ role' = [role EXCEPT ![call[c].subject] = call[c].to]
        BY <2>6 DEF Acc!SetRole, Acc!TypeOK, Acc!Request
      <4> QED BY <4>1 DEF Acc!TypeOK
    <3> QED BY <2>6, <3>1, StageTypeOK DEF Acc!SetRole, Acc!Step, Acc!Changing
  <2>7. ASSUME NEW c \in Calls, Acc!LogChange(c) PROVE Acc!TypeOK'
    <3> DEFINE e == [actor |-> call[c].actor, subject |-> call[c].subject,
                     before |-> call[c].before, after |-> call[c].to,
                     repeats |-> 1, fresh |-> TRUE]
    <3>1. e \in Acc!Entry
      BY <2>7 DEF Acc!LogChange, Acc!TypeOK, Acc!Request, Acc!Entry, Acc!Changing
    <3>2. log' = Append(log, e) /\ Len(log) < MaxLog /\ call[c].pc # "idle"
      BY <2>7 DEF Acc!LogChange
    <3> HIDE DEF e
    <3>3. log' \in Seq(Acc!Entry) /\ Len(log') <= MaxLog /\ DOMAIN log \subseteq DOMAIN log'
      BY <3>1, <3>2, AppendProperties DEF Acc!TypeOK
    <3> QED BY <2>3, <2>7, <3>2, <3>3 DEF Acc!LogChange, Acc!TypeOK
  <2>8. ASSUME NEW c \in Calls, NEW u \in Users, Acc!StartView(c, u) PROVE Acc!TypeOK'
    <3> DEFINE r == [Acc!Idle EXCEPT !.pc = "find", !.actor = u]
    <3>1. r \in Acc!Request /\ r.pc = "find" /\ r.actor = u
      BY IdleIsRequest DEF Acc!Idle, Acc!Request, Acc!Reading
    <3>2. doubled' \subseteq Users /\ views' \in [Users -> 0..MaxViews]
      BY <2>8 DEF Acc!StartView, Acc!TypeOK
    <3>3. call' = [call EXCEPT ![c] = r] /\ UNCHANGED <<role, log, faults, contested, crowded>>
      BY <2>8 DEF Acc!StartView
    <3> HIDE DEF r
    <3> QED BY <3>1, <3>2, <3>3, RequestTypeOK DEF Acc!TypeOK, Acc!Changing
  <2>9. ASSUME NEW c \in Calls, Acc!FindRecent(c) PROVE Acc!TypeOK'
    <3>1. CASE Acc!Step(c, "insert")
      BY <2>9, <3>1, StageTypeOK DEF Acc!FindRecent, Acc!Step, Acc!Changing, Acc!Reading,
                                     Acc!TypeOK
    <3>2. ASSUME NEW i \in Acc!Recent(call[c].actor),
                 call' = [call EXCEPT ![c].pc = "fold", ![c].found = i, ![c].repeats = log[i].repeats]
          PROVE  Acc!TypeOK'
      <4> DEFINE r == [call[c] EXCEPT !.pc = "fold", !.found = i, !.repeats = log[i].repeats]
      <4>1. i \in DOMAIN log /\ i \in Nat /\ log[i].repeats \in Nat
        BY LogEntries DEF Acc!Recent
      <4>5. call[c] \in Acc!Request
        BY DEF Acc!TypeOK
      <4>2. r \in Acc!Request /\ r.pc = "fold" /\ r.actor = call[c].actor /\ r.found = i
        BY <4>1, <4>5 DEF Acc!Request, Acc!Reading
      <4>3. call' = [call EXCEPT ![c] = r] /\ call[c].actor \in Users
        BY <2>9, <3>2 DEF Acc!FindRecent, Acc!TypeOK
      <4>4. UNCHANGED <<role, log, views, faults, contested, crowded, doubled>>
        BY <2>9 DEF Acc!FindRecent
      <4> HIDE DEF r
      <4> QED BY <4>1, <4>2, <4>3, <4>4, RequestTypeOK DEF Acc!TypeOK, Acc!Changing
    <3> QED BY <2>9, <3>1, <3>2 DEF Acc!FindRecent
  <2>10. ASSUME NEW c \in Calls, Acc!FoldView(c) PROVE Acc!TypeOK'
    <3> DEFINE i == call[c].found
               e == [log[i] EXCEPT !.repeats = call[c].repeats + 1, !.fresh = TRUE]
    <3>1. i \in 1..Len(log) /\ call[c].repeats \in Nat /\ log[i] \in Acc!Entry
      BY <2>10, LogEntries DEF Acc!FoldView, Acc!TypeOK, Acc!Request
    <3>2. e \in Acc!Entry
      <4>1. call[c].repeats + 1 \in Nat
        BY <3>1
      <4> QED BY <3>1, <4>1 DEF Acc!Entry
    <3>4. log' = [log EXCEPT ![i] = e]
      <4>1. log' = [log EXCEPT ![i].repeats = call[c].repeats + 1, ![i].fresh = TRUE]
        BY <2>10 DEF Acc!FoldView
      <4> QED BY <4>1, <3>1, LogEntries
    <3> HIDE DEF e, i
    <3>3. log' \in Seq(Acc!Entry) /\ Len(log') = Len(log)
      BY <3>1, <3>2, <3>4, ExceptSeq DEF Acc!TypeOK, i
    <3> QED BY <2>3, <2>10, <3>3 DEF Acc!FoldView, Acc!TypeOK
  <2>11. ASSUME NEW c \in Calls, Acc!InsertView(c) PROVE Acc!TypeOK'
    <3>1. Acc!View(call[c].actor) \in Acc!Entry
      BY <2>11 DEF Acc!InsertView, Acc!TypeOK, Acc!View, Acc!Entry, Acc!Roles
    <3>2. log' = Append(log, Acc!View(call[c].actor)) /\ Len(log) < MaxLog /\ call[c].pc # "idle"
      BY <2>11 DEF Acc!InsertView
    <3>3. log' \in Seq(Acc!Entry) /\ Len(log') <= MaxLog /\ DOMAIN log \subseteq DOMAIN log'
      BY <3>1, <3>2, AppendProperties DEF Acc!TypeOK
    <3> QED BY <2>3, <2>11, <3>2, <3>3 DEF Acc!InsertView, Acc!TypeOK
  <2>12. ASSUME NEW c \in Calls, Acc!Fails(c) PROVE Acc!TypeOK'
    <3>1. contested' \subseteq Users /\ doubled' \subseteq Users /\ faults' \in 0..MaxFaults
      BY <2>12 DEF Acc!Fails, Acc!TypeOK, Acc!Changing, Acc!Reading
    <3> QED BY <2>3, <2>12, <3>1 DEF Acc!Fails, Acc!TypeOK
  <2>13. ASSUME NEW i \in 1..MaxLog, Acc!WindowPasses(i) PROVE Acc!TypeOK'
    <3> DEFINE e == [log[i] EXCEPT !.fresh = FALSE]
    <3>1. i \in 1..Len(log) /\ log[i] \in Acc!Entry /\ log' = [log EXCEPT ![i] = e]
      BY <2>13, LogEntries DEF Acc!WindowPasses
    <3>3. e \in Acc!Entry
      BY <3>1 DEF Acc!Entry
    <3> HIDE DEF e
    <3>2. log' \in Seq(Acc!Entry) /\ Len(log') = Len(log)
      BY <3>1, <3>3, ExceptSeq DEF Acc!TypeOK
    <3> QED BY <2>13, <3>2 DEF Acc!WindowPasses, Acc!TypeOK
  <2> QED BY <2>1, <2>2, <2>4, <2>5, <2>6, <2>7, <2>8, <2>9, <2>10, <2>11, <2>12,
        <2>13 DEF Acc!Next
<1> QED BY <1>1, <1>2, PTL DEF Acc!Spec

-----------------------------------------------------------------------------
\* A step after which no more requests are changing roles than before.
LEMMA OthersKeepRestoreInv ==
  ASSUME RestoreInv, Acc!TypeOK', UNCHANGED <<role, crowded>>,
         \A c \in Calls :
           \/ call'[c].pc \notin Acc!Changing
           \/ /\ call[c].pc \in Acc!Changing
              /\ call'[c].pc # "log" => call[c].pc # "log"
              /\ call'[c].actor = call[c].actor /\ call'[c].subject = call[c].subject
  PROVE  RestoreInv'
<1>1. Acc!SomeoneCanRestore'
  BY DEF RestoreInv, Acc!SomeoneCanRestore
<1>2. ~crowded' => \A c, d \in Calls :
        call'[c].pc \in Acc!Changing /\ call'[d].pc \in Acc!Changing => c = d
  BY DEF RestoreInv
<1>3. ~crowded' => \A c \in Calls : Authorised(c)'
  BY DEF RestoreInv, Authorised
<1> QED BY <1>1, <1>2, <1>3 DEF RestoreInv

\* Somebody can always restore access through the console, unless two role
\* changes overlapped (SomeoneCanRestore).
THEOREM ConsoleSomeoneCanRestore ==
  Acc!Spec => []Acc!SomeoneCanRestore
<1> USE NoneIsNothing, BoundsAreNumbers, SomeoneIsSuper
<1>1. Acc!Init /\ Acc!TypeOK => RestoreInv
  BY DEF Acc!Init, RestoreInv, Acc!SomeoneCanRestore, Authorised, Acc!Idle, Acc!Changing
<1>2. RestoreInv /\ [Acc!Next]_(Acc!vars) /\ Acc!TypeOK' => RestoreInv'
  <2> SUFFICES ASSUME RestoreInv, [Acc!Next]_(Acc!vars), Acc!TypeOK' PROVE RestoreInv'
    OBVIOUS
  <2>0. Acc!TypeOK
    BY DEF RestoreInv
  <2>1. CASE UNCHANGED Acc!vars
    BY <2>1, OthersKeepRestoreInv DEF Acc!vars
  <2>2. ASSUME NEW c \in Calls, NEW actor \in Users, NEW u \in Users, NEW to \in Acc!Roles,
               Acc!StartChange(c, actor, u, to)
        PROVE  RestoreInv'
    <3>1. call'[c].pc = "stepup" /\ call'[c].actor = actor /\ call'[c].subject = u
          /\ \A d \in Calls \ {c} : call'[d] = call[d]
      BY <2>0, <2>2 DEF Acc!StartChange, Acc!TypeOK, Acc!Idle
    <3>2. role[actor] = "super_admin" /\ u # actor /\ role' = role
      BY <2>2 DEF Acc!StartChange, Acc!MayChange
    <3>3. ~crowded' => ~crowded /\ \A d \in Calls : call[d].pc \notin Acc!Changing
      BY <2>2 DEF Acc!StartChange
    <3>4. Acc!SomeoneCanRestore'
      BY <3>2, <3>3 DEF RestoreInv, Acc!SomeoneCanRestore
    <3>5. ~crowded' => \A d \in Calls : Authorised(d)'
      BY <3>1, <3>2, <3>3 DEF RestoreInv, Authorised, Acc!Changing
    <3>6. ~crowded' => \A d, f \in Calls :
            call'[d].pc \in Acc!Changing /\ call'[f].pc \in Acc!Changing => d = f
      BY <3>1, <3>3
    <3> QED BY <3>4, <3>5, <3>6 DEF RestoreInv
  <2>3. ASSUME NEW c \in Calls, Acc!SetRole(c) PROVE RestoreInv'
    <3>1. call[c].pc = "write" /\ call'[c].pc = "log"
          /\ \A d \in Calls \ {c} : call'[d] = call[d]
      BY <2>0, <2>3 DEF Acc!SetRole, Acc!Step, Acc!TypeOK, Acc!Request
    <3>2. crowded' = crowded /\ role' = [role EXCEPT ![call[c].subject] = call[c].to]
      BY <2>3 DEF Acc!SetRole
    <3>3. call[c].actor \in Users /\ call[c].subject \in Users /\ role \in [Users -> Acc!Roles]
      BY <2>0, <3>1 DEF Acc!TypeOK, Acc!Changing
    <3>4. ASSUME ~crowded
          PROVE  /\ role'[call[c].actor] = "super_admin"
                 /\ \A d \in Calls \ {c} : call[d].pc \notin Acc!Changing
      BY <3>1, <3>2, <3>3, <3>4 DEF RestoreInv, Authorised, Acc!Changing
    <3>5. Acc!SomeoneCanRestore'
      BY <3>2, <3>3, <3>4 DEF Acc!SomeoneCanRestore
    <3>6. ~crowded' => /\ \A d \in Calls : Authorised(d)'
                       /\ \A d, f \in Calls :
                            call'[d].pc \in Acc!Changing /\ call'[f].pc \in Acc!Changing => d = f
      BY <3>1, <3>2, <3>4 DEF Authorised
    <3> QED BY <3>5, <3>6 DEF RestoreInv
  <2>4. ASSUME NEW c \in Calls,
               \/ Acc!StepUp(c) \/ Acc!ReadBefore(c) \/ Acc!LogChange(c) \/ Acc!FindRecent(c) \/ Acc!FoldView(c)
               \/ Acc!InsertView(c) \/ Acc!Fails(c) \/ \E u \in Users : Acc!StartView(c, u)
        PROVE  RestoreInv'
    <3>1. UNCHANGED <<role, crowded>>
      BY <2>4 DEF Acc!StepUp, Acc!ReadBefore, Acc!LogChange, Acc!FindRecent, Acc!FoldView,
                  Acc!InsertView, Acc!Fails, Acc!StartView
    <3>2. \A d \in Calls \ {c} : call'[d] = call[d]
      BY <2>0, <2>4 DEF Acc!StepUp, Acc!ReadBefore, Acc!LogChange, Acc!FindRecent,
                        Acc!FoldView, Acc!InsertView, Acc!Fails,
                        Acc!StartView, Acc!Step, Acc!End, Acc!TypeOK
    <3>3. call[c] \in Acc!Request
      BY <2>0 DEF Acc!TypeOK
    <3>4. CASE Acc!StepUp(c) \/ Acc!ReadBefore(c)
      <4>1. /\ call[c].pc \in {"stepup", "before"}
            /\ \/ /\ call'[c].pc \in {"before", "write"}
                  /\ call'[c].actor = call[c].actor
                  /\ call'[c].subject = call[c].subject
               \/ call'[c].pc = "idle"
        BY <2>0, <3>3, <3>4 DEF Acc!StepUp, Acc!ReadBefore, Acc!Step, Acc!End, Acc!Idle,
                                Acc!TypeOK, Acc!Request
      <4> QED BY <3>1, <3>2, <4>1, OthersKeepRestoreInv DEF Acc!Changing
    <3>5. CASE ~(Acc!StepUp(c) \/ Acc!ReadBefore(c))
      <4>1. call'[c].pc \notin Acc!Changing
        <5>1. CASE Acc!LogChange(c) \/ Acc!FoldView(c) \/ Acc!InsertView(c) \/ Acc!Fails(c)
          BY <2>0, <3>3, <5>1 DEF Acc!LogChange, Acc!FoldView, Acc!InsertView, Acc!Fails,
                                  Acc!End, Acc!Idle, Acc!TypeOK, Acc!Changing
        <5>2. CASE Acc!FindRecent(c)
          <6>1. PICK r \in Acc!Request : call' = [call EXCEPT ![c] = r] /\ r.pc \in {"insert", "fold"}
            BY <2>0, <5>2, FindingMoves
          <6> QED BY <2>0, <6>1 DEF Acc!TypeOK, Acc!Changing
        <5>3. CASE \E u \in Users : Acc!StartView(c, u)
          BY <2>0, <5>3 DEF Acc!StartView, Acc!Idle, Acc!TypeOK, Acc!Changing
        <5> QED BY <2>4, <3>5, <5>1, <5>2, <5>3
      <4> QED BY <3>1, <3>2, <4>1, OthersKeepRestoreInv DEF Acc!Changing
    <3> QED BY <3>4, <3>5
  <2>5. ASSUME NEW i \in 1..MaxLog, Acc!WindowPasses(i) PROVE RestoreInv'
    BY <2>5, OthersKeepRestoreInv DEF Acc!WindowPasses
  <2> QED BY <2>1, <2>2, <2>3, <2>4, <2>5 DEF Acc!Next
<1>3. RestoreInv => Acc!SomeoneCanRestore
  BY DEF RestoreInv
<1> QED BY <1>1, <1>2, <1>3, AccessTypeOK, PTL DEF Acc!Spec

-----------------------------------------------------------------------------
\* The record of a role lags behind it by one step, and what was read before
\* the write must still be what the last row left: the invariant says so of
\* each change under way.
ChainInv ==
  /\ Acc!TypeOK
  /\ \A u \in Users \ contested :
       /\ \A c, d \in Calls : /\ call[c].pc \in Acc!Changing /\ call[c].subject = u
                              /\ call[d].pc \in Acc!Changing /\ call[d].subject = u
                              => c = d
       /\ \A i \in Acc!About(u) : Acc!Recorded(u, i, log[i].before)
       /\ \A c \in Calls : call[c].subject = u =>
            /\ call[c].pc = "write" => call[c].before = role[u]
            /\ call[c].pc = "log" => /\ call[c].to = role[u]
                                     /\ Acc!Recorded(u, Len(log) + 1, call[c].before)
       /\ (\A c \in Calls : ~(call[c].pc = "log" /\ call[c].subject = u)) =>
            Acc!Recorded(u, Len(log) + 1, role[u])

\* Rows that are told more of, but not of what was changed, record the same.
LEMMA SameRecord ==
  ASSUME Len(log') = Len(log), DOMAIN log' = DOMAIN log,
         \A i \in DOMAIN log : /\ log'[i].subject = log[i].subject
                               /\ log'[i].before = log[i].before
                               /\ log'[i].after = log[i].after
  PROVE  \A u \in Users : /\ Acc!About(u)' = Acc!About(u)
                          /\ \A i, r : Acc!Recorded(u, i, r)' <=> Acc!Recorded(u, i, r)
<1>1. \A u \in Users : Acc!About(u)' = Acc!About(u)
  BY DEF Acc!About
<1>2. ASSUME NEW u \in Users, NEW i, NEW r PROVE Acc!Recorded(u, i, r)' <=> Acc!Recorded(u, i, r)
  <2>1. \A j \in Acc!About(u) : log'[j].after = log[j].after
    BY DEF Acc!About
  <2> QED BY <1>1, <2>1 DEF Acc!Recorded, Acc!FirstRole
<1> QED BY <1>1, <1>2

\* One row is told more of.
LEMMA SameEntries ==
  ASSUME Acc!TypeOK, NEW i \in 1..Len(log), NEW e, log' = [log EXCEPT ![i] = e],
         e.subject = log[i].subject, e.before = log[i].before, e.after = log[i].after
  PROVE  /\ Len(log') = Len(log) /\ DOMAIN log' = DOMAIN log
         /\ \A j \in DOMAIN log : /\ log'[j].subject = log[j].subject
                                  /\ log'[j].before = log[j].before
                                  /\ log'[j].after = log[j].after
<1>1. Len(log) \in Nat /\ DOMAIN log = 1..Len(log) /\ log \in Seq(Acc!Entry)
  BY LogEntries DEF Acc!TypeOK
<1>2. DOMAIN log' = DOMAIN log
  OBVIOUS
<1>3. Len(log') = Len(log)
  BY <1>1, <1>2
<1> QED BY <1>1, <1>2, <1>3

\* A new row leaves the others as they are, and is the last of its subject's.
LEMMA NewRecord ==
  ASSUME Acc!TypeOK, NEW e \in Acc!Entry, log' = Append(log, e), NEW u \in Users
  PROVE  /\ Len(log) \in Nat /\ Len(log') = Len(log) + 1
         /\ \A i \in Acc!About(u)' : \/ i \in Acc!About(u) /\ i \in 1..Len(log) /\ log'[i] = log[i]
                                     \/ i = Len(log) + 1 /\ log'[i] = e /\ e.subject = u
         /\ \A i \in 1..(Len(log) + 1) : \A r : Acc!Recorded(u, i, r)' <=> Acc!Recorded(u, i, r)
         /\ \A n, r : n = Len(log') + 1 =>
              /\ e.subject # u /\ Acc!Recorded(u, Len(log) + 1, r) => Acc!Recorded(u, n, r)'
              /\ e.subject = u /\ r = e.after => Acc!Recorded(u, n, r)'
<1>1. /\ Len(log) \in Nat /\ Len(log') = Len(log) + 1
      /\ DOMAIN log = 1..Len(log) /\ DOMAIN log' = 1..(Len(log) + 1)
      /\ \A i \in 1..Len(log) : log'[i] = log[i]
      /\ log'[Len(log) + 1] = e
  BY AppendProperties, LenProperties DEF Acc!TypeOK
<1>2. \A i \in 1..Len(log) : i \in Acc!About(u)' <=> i \in Acc!About(u)
  BY <1>1 DEF Acc!About
<1>3. Acc!About(u) \subseteq 1..Len(log) /\ Acc!About(u)' \subseteq 1..(Len(log) + 1)
      /\ (Len(log) + 1 \in Acc!About(u)' <=> e.subject = u)
  BY <1>1 DEF Acc!About
<1>4. ASSUME NEW i \in Acc!About(u)'
      PROVE  \/ i \in Acc!About(u) /\ i \in 1..Len(log) /\ log'[i] = log[i]
             \/ i = Len(log) + 1 /\ log'[i] = e /\ e.subject = u
  <2>1. i \in 1..Len(log) \/ i = Len(log) + 1
    BY <1>1, <1>3
  <2>2. CASE i \in 1..Len(log)
    BY <1>1, <1>2, <2>2
  <2>3. CASE i = Len(log) + 1
    BY <1>1, <1>3, <2>3
  <2> QED BY <2>1, <2>2, <2>3
<1>5. ASSUME NEW i \in 1..(Len(log) + 1), NEW r PROVE Acc!Recorded(u, i, r)' <=> Acc!Recorded(u, i, r)
  <2>1. {j \in Acc!About(u)' : j < i} = {j \in Acc!About(u) : j < i}
    BY <1>1, <1>2, <1>3
  <2>2. \A j \in Acc!About(u) : log'[j] = log[j]
    BY <1>1, <1>3
  <2> QED BY <2>1, <2>2 DEF Acc!Recorded, Acc!FirstRole
<1>6. ASSUME NEW n, n = Len(log') + 1, NEW r, e.subject # u, Acc!Recorded(u, Len(log) + 1, r)
      PROVE  Acc!Recorded(u, n, r)'
  <2>1. Acc!About(u)' = Acc!About(u)
    <3>1. Acc!About(u)' \subseteq 1..Len(log)
      BY <1>1, <1>3, <1>6
    <3> QED BY <1>2, <1>3, <3>1
  <2>2. {j \in Acc!About(u)' : j < n} = {j \in Acc!About(u) : j < Len(log) + 1}
    BY <1>1, <1>3, <1>6, <2>1
  <2>3. \A j \in Acc!About(u) : log'[j] = log[j]
    BY <1>1, <1>3
  <2> QED BY <1>6, <2>2, <2>3 DEF Acc!Recorded, Acc!FirstRole
<1>7. ASSUME NEW n, n = Len(log') + 1, NEW r, e.subject = u, r = e.after
      PROVE  Acc!Recorded(u, n, r)'
  <2>1. Len(log') \in {j \in Acc!About(u)' : j < n} /\ log'[Len(log')] = e
    BY <1>1, <1>3, <1>7
  <2>2. \A k \in Acc!About(u)' : k <= Len(log')
    BY <1>1, <1>3
  <2> QED BY <1>7, <2>1, <2>2 DEF Acc!Recorded
<1>8. \A i \in Acc!About(u)' : \/ i \in Acc!About(u) /\ i \in 1..Len(log) /\ log'[i] = log[i]
                               \/ i = Len(log) + 1 /\ log'[i] = e /\ e.subject = u
  BY <1>4, Zenon
<1>9. \A n, r : n = Len(log') + 1 =>
        /\ e.subject # u /\ Acc!Recorded(u, Len(log) + 1, r) => Acc!Recorded(u, n, r)'
        /\ e.subject = u /\ r = e.after => Acc!Recorded(u, n, r)'
  BY <1>6, <1>7, Zenon
<1> QED BY <1>1, <1>5, <1>8, <1>9, Zenon

\* A step that changes no role and records no change.
LEMMA OthersKeepChainInv ==
  ASSUME ChainInv, Acc!TypeOK', role' = role, contested \subseteq contested',
         Len(log') = Len(log), DOMAIN log' = DOMAIN log,
         \A i \in DOMAIN log : /\ log'[i].subject = log[i].subject
                               /\ log'[i].before = log[i].before
                               /\ log'[i].after = log[i].after,
         \A c \in Calls :
           /\ call'[c].pc \in Acc!Changing =>
                /\ call[c].pc \in Acc!Changing /\ call'[c].subject = call[c].subject
                /\ call'[c].pc = "write" =>
                     \/ call'[c].before = role[call[c].subject]
                     \/ call[c].pc = "write" /\ call'[c].before = call[c].before
                /\ call'[c].pc = "log" => call'[c] = call[c]
           /\ call[c].pc = "log" => call'[c] = call[c] \/ call[c].subject \in contested'
  PROVE  ChainInv'
<1> SUFFICES ASSUME NEW u \in Users \ contested'
             PROVE  /\ \A c, d \in Calls : /\ call'[c].pc \in Acc!Changing /\ call'[c].subject = u
                                           /\ call'[d].pc \in Acc!Changing /\ call'[d].subject = u
                                           => c = d
                    /\ \A i \in Acc!About(u)' : Acc!Recorded(u, i, log[i].before)'
                    /\ \A c \in Calls : call'[c].subject = u =>
                         /\ call'[c].pc = "write" => call'[c].before = role'[u]
                         /\ call'[c].pc = "log" => /\ call'[c].to = role'[u]
                                                   /\ Acc!Recorded(u, Len(log) + 1, call[c].before)'
                    /\ (\A c \in Calls : ~(call'[c].pc = "log" /\ call'[c].subject = u)) =>
                         Acc!Recorded(u, Len(log) + 1, role[u])'
  BY DEF ChainInv
<1>1. u \in Users /\ u \notin contested
  OBVIOUS
<1>2. Acc!About(u)' = Acc!About(u) /\ \A i, r : Acc!Recorded(u, i, r)' <=> Acc!Recorded(u, i, r)
  BY SameRecord
<1>3. \A c, d \in Calls : /\ call'[c].pc \in Acc!Changing /\ call'[c].subject = u
                          /\ call'[d].pc \in Acc!Changing /\ call'[d].subject = u
                          => c = d
  <2>1. \A c, d \in Calls : /\ call[c].pc \in Acc!Changing /\ call[c].subject = u
                            /\ call[d].pc \in Acc!Changing /\ call[d].subject = u
                            => c = d
    BY <1>1 DEF ChainInv
  <2>2. \A c \in Calls : call'[c].pc \in Acc!Changing =>
                           call[c].pc \in Acc!Changing /\ call'[c].subject = call[c].subject
    OBVIOUS
  <2> QED BY <2>1, <2>2
<1>4. \A i \in Acc!About(u)' : Acc!Recorded(u, i, log[i].before)'
  <2> SUFFICES ASSUME NEW i \in Acc!About(u) PROVE Acc!Recorded(u, i, log[i].before)'
    BY <1>2
  <2>1. log'[i].before = log[i].before /\ Acc!Recorded(u, i, log[i].before)
    BY <1>1 DEF ChainInv, Acc!About
  <2> QED BY <1>2, <2>1
<1>5. ASSUME NEW c \in Calls, call'[c].subject = u
      PROVE  /\ call'[c].pc = "write" => call'[c].before = role'[u]
             /\ call'[c].pc = "log" => /\ call'[c].to = role'[u]
                                       /\ Acc!Recorded(u, Len(log) + 1, call[c].before)'
  <2>1. CASE call'[c].pc = "write"
    BY <1>1, <1>5, <2>1 DEF ChainInv, Acc!Changing
  <2>2. CASE call'[c].pc = "log"
    <3>1. call'[c] = call[c]
      BY <2>2 DEF Acc!Changing
    <3>2. call[c].to = role[u] /\ Acc!Recorded(u, Len(log) + 1, call[c].before)
      BY <1>1, <1>5, <2>2, <3>1 DEF ChainInv
    <3> QED BY <1>2, <3>1, <3>2, <2>2
  <2> QED BY <2>1, <2>2
<1>6. ASSUME \A c \in Calls : ~(call'[c].pc = "log" /\ call'[c].subject = u)
      PROVE  Acc!Recorded(u, Len(log) + 1, role[u])'
  <2>1. \A c \in Calls : ~(call[c].pc = "log" /\ call[c].subject = u)
    BY <1>6
  <2>2. Acc!Recorded(u, Len(log) + 1, role[u])
    BY <1>1, <2>1 DEF ChainInv
  <2> QED BY <1>2, <2>2
<1> QED BY <1>3, <1>4, <1>5, <1>6

\* The audit log's record of a user's role is a chain without gaps that ends
\* at the role the user has (RecordIsChain).
THEOREM ConsoleRecordIsChain ==
  Acc!Spec => []Acc!RecordIsChain
<1> USE NoneIsNothing, BoundsAreNumbers, SomeoneIsSuper
<1>1. Acc!Init /\ Acc!TypeOK => ChainInv
  <2> SUFFICES ASSUME Acc!Init, Acc!TypeOK PROVE ChainInv
    OBVIOUS
  <2>1. \A u \in Users : Acc!About(u) = {}
    BY DEF Acc!Init, Acc!About
  <2>2. \A u \in Users : Acc!Recorded(u, Len(log) + 1, role[u])
    BY <2>1 DEF Acc!Init, Acc!Recorded, Acc!FirstRole
  <2>3. \A c \in Calls : call[c].pc = "idle"
    BY DEF Acc!Init, Acc!Idle
  <2> QED BY <2>1, <2>2, <2>3 DEF ChainInv, Acc!Changing
<1>2. ChainInv /\ [Acc!Next]_(Acc!vars) /\ Acc!TypeOK' => ChainInv'
  <2> SUFFICES ASSUME ChainInv, [Acc!Next]_(Acc!vars), Acc!TypeOK' PROVE ChainInv'
    OBVIOUS
  <2>0. Acc!TypeOK
    BY DEF ChainInv
  <2>1. CASE UNCHANGED Acc!vars
    BY <2>1, OthersKeepChainInv DEF Acc!vars
  <2>2. ASSUME NEW c \in Calls, NEW actor \in Users, NEW s \in Users, NEW to \in Acc!Roles,
               Acc!StartChange(c, actor, s, to)
        PROVE  ChainInv'
    <3>1. call'[c].pc = "stepup" /\ call'[c].subject = s /\ call[c].pc = "idle"
          /\ \A d \in Calls \ {c} : call'[d] = call[d]
      BY <2>0, <2>2 DEF Acc!StartChange, Acc!TypeOK, Acc!Idle
    <3>2. UNCHANGED <<role, log>> /\ contested \subseteq contested'
          /\ (s \notin contested' => \A d \in Calls \ {c} : ~(call[d].pc \in Acc!Changing /\ call[d].subject = s))
      BY <2>2 DEF Acc!StartChange, Acc!UnderChange
    <3> SUFFICES ASSUME NEW u \in Users \ contested'
                 PROVE  /\ \A d, f \in Calls : /\ call'[d].pc \in Acc!Changing /\ call'[d].subject = u
                                               /\ call'[f].pc \in Acc!Changing /\ call'[f].subject = u
                                               => d = f
                        /\ \A i \in Acc!About(u) : Acc!Recorded(u, i, log[i].before)
                        /\ \A d \in Calls : call'[d].subject = u =>
                             /\ call'[d].pc = "write" => call'[d].before = role[u]
                             /\ call'[d].pc = "log" => /\ call'[d].to = role[u]
                                                       /\ Acc!Recorded(u, Len(log) + 1, call'[d].before)
                        /\ (\A d \in Calls : ~(call'[d].pc = "log" /\ call'[d].subject = u)) =>
                             Acc!Recorded(u, Len(log) + 1, role[u])
      BY <3>2 DEF ChainInv, Acc!About, Acc!Recorded, Acc!FirstRole
    <3>3. u \in Users \ contested
      BY <3>2
    <3>4. /\ \A d, f \in Calls : /\ call[d].pc \in Acc!Changing /\ call[d].subject = u
                                 /\ call[f].pc \in Acc!Changing /\ call[f].subject = u
                                 => d = f
          /\ \A i \in Acc!About(u) : Acc!Recorded(u, i, log[i].before)
          /\ \A d \in Calls : call[d].subject = u =>
               /\ call[d].pc = "write" => call[d].before = role[u]
               /\ call[d].pc = "log" => /\ call[d].to = role[u]
                                        /\ Acc!Recorded(u, Len(log) + 1, call[d].before)
          /\ (\A d \in Calls : ~(call[d].pc = "log" /\ call[d].subject = u)) =>
               Acc!Recorded(u, Len(log) + 1, role[u])
      BY <3>3 DEF ChainInv
    <3>5. \A d, f \in Calls : /\ call'[d].pc \in Acc!Changing /\ call'[d].subject = u
                              /\ call'[f].pc \in Acc!Changing /\ call'[f].subject = u
                              => d = f
      BY <3>1, <3>2, <3>4
    <3>6. \A d \in Calls : call'[d].pc \in {"write", "log"} => call'[d] = call[d]
      BY <3>1
    <3>7. \A d \in Calls : call[d].pc = "log" => call'[d] = call[d]
      BY <3>1
    <3> QED BY <3>4, <3>5, <3>6, <3>7
  <2>3. ASSUME NEW c \in Calls, Acc!SetRole(c) PROVE ChainInv'
    <3> DEFINE s == call[c].subject
    <3>1. /\ call[c].pc = "write" /\ s \in Users
          /\ call'[c].pc = "log" /\ call'[c].subject = s
          /\ call'[c].to = call[c].to /\ call'[c].before = call[c].before
          /\ \A d \in Calls \ {c} : call'[d] = call[d]
      BY <2>0, <2>3 DEF Acc!SetRole, Acc!Step, Acc!TypeOK, Acc!Request, Acc!Changing
    <3>2. /\ UNCHANGED <<log, contested>>
          /\ role'[s] = call[c].to /\ \A u \in Users \ {s} : role'[u] = role[u]
      BY <2>0, <2>3, <3>1 DEF Acc!SetRole, Acc!TypeOK
    <3> SUFFICES ASSUME NEW u \in Users \ contested
                 PROVE  /\ \A d, f \in Calls : /\ call'[d].pc \in Acc!Changing /\ call'[d].subject = u
                                               /\ call'[f].pc \in Acc!Changing /\ call'[f].subject = u
                                               => d = f
                        /\ \A i \in Acc!About(u) : Acc!Recorded(u, i, log[i].before)
                        /\ \A d \in Calls : call'[d].subject = u =>
                             /\ call'[d].pc = "write" => call'[d].before = role'[u]
                             /\ call'[d].pc = "log" => /\ call'[d].to = role'[u]
                                                       /\ Acc!Recorded(u, Len(log) + 1, call'[d].before)
                        /\ (\A d \in Calls : ~(call'[d].pc = "log" /\ call'[d].subject = u)) =>
                             Acc!Recorded(u, Len(log) + 1, role'[u])
      BY <3>2 DEF ChainInv, Acc!About, Acc!Recorded, Acc!FirstRole
    <3> HIDE DEF s
    <3>3. \A d, f \in Calls : /\ call[d].pc \in Acc!Changing /\ call[d].subject = u
                              /\ call[f].pc \in Acc!Changing /\ call[f].subject = u
                              => d = f
      BY DEF ChainInv
    <3>4. \A i \in Acc!About(u) : Acc!Recorded(u, i, log[i].before)
      BY DEF ChainInv
    <3>5. \A d \in Calls : call[d].subject = u =>
               /\ call[d].pc = "write" => call[d].before = role[u]
               /\ call[d].pc = "log" => /\ call[d].to = role[u]
                                        /\ Acc!Recorded(u, Len(log) + 1, call[d].before)
      BY DEF ChainInv
    <3>6. (\A d \in Calls : ~(call[d].pc = "log" /\ call[d].subject = u)) =>
               Acc!Recorded(u, Len(log) + 1, role[u])
      BY DEF ChainInv
    <3>7. \A d, f \in Calls : /\ call'[d].pc \in Acc!Changing /\ call'[d].subject = u
                              /\ call'[f].pc \in Acc!Changing /\ call'[f].subject = u
                              => d = f
      BY <3>1, <3>3 DEF Acc!Changing, s
    <3>8. CASE u = s
      <4>1. \A d \in Calls \ {c} : ~(call[d].pc \in Acc!Changing /\ call[d].subject = u)
        BY <3>1, <3>3, <3>8 DEF Acc!Changing, s
      <4>2. Acc!Recorded(u, Len(log) + 1, role[u]) /\ call[c].before = role[u]
        BY <3>1, <3>5, <3>6, <3>8, <4>1 DEF Acc!Changing, s
      <4>3. \A d \in Calls \ {c} : ~(call'[d].pc \in {"write", "log"} /\ call'[d].subject = u)
        BY <3>1, <4>1 DEF Acc!Changing
      <4> QED BY <3>1, <3>2, <3>4, <3>7, <3>8, <4>2, <4>3
    <3>9. CASE u # s
      BY <3>1, <3>2, <3>4, <3>5, <3>6, <3>7, <3>9 DEF s
    <3> QED BY <3>8, <3>9
  <2>4. ASSUME NEW c \in Calls, NEW e \in Acc!Entry, log' = Append(log, e),
               call' = [call EXCEPT ![c] = Acc!Idle], UNCHANGED <<role, contested>>,
               \/ e.subject = None /\ call[c].pc = "insert"
               \/ /\ call[c].pc = "log" /\ e.subject = call[c].subject
                  /\ e.before = call[c].before /\ e.after = call[c].to
        PROVE  ChainInv'
    <3>1. call'[c].pc = "idle" /\ \A d \in Calls \ {c} : call'[d] = call[d]
      BY <2>0, <2>4 DEF Acc!TypeOK, Acc!Idle
    <3> SUFFICES ASSUME NEW u \in Users \ contested'
                 PROVE  /\ \A d, f \in Calls : /\ call'[d].pc \in Acc!Changing /\ call'[d].subject = u
                                               /\ call'[f].pc \in Acc!Changing /\ call'[f].subject = u
                                               => d = f
                        /\ \A i \in Acc!About(u)' : Acc!Recorded(u, i, log[i].before)'
                        /\ \A d \in Calls : call'[d].subject = u =>
                             /\ call'[d].pc = "write" => call'[d].before = role'[u]
                             /\ call'[d].pc = "log" => /\ call'[d].to = role'[u]
                                                       /\ Acc!Recorded(u, Len(log) + 1, call[d].before)'
                        /\ (\A d \in Calls : ~(call'[d].pc = "log" /\ call'[d].subject = u)) =>
                             Acc!Recorded(u, Len(log) + 1, role[u])'
      BY DEF ChainInv
    <3>0. role' = role /\ u \in Users \ contested
      BY <2>4
    <3>2. /\ \A d, f \in Calls : /\ call[d].pc \in Acc!Changing /\ call[d].subject = u
                                 /\ call[f].pc \in Acc!Changing /\ call[f].subject = u
                                 => d = f
          /\ \A d \in Calls : call[d].subject = u =>
               /\ call[d].pc = "write" => call[d].before = role[u]
               /\ call[d].pc = "log" => /\ call[d].to = role[u]
                                        /\ Acc!Recorded(u, Len(log) + 1, call[d].before)
          /\ (\A d \in Calls : ~(call[d].pc = "log" /\ call[d].subject = u)) =>
               Acc!Recorded(u, Len(log) + 1, role[u])
      BY <3>0 DEF ChainInv
    <3>3. \A i \in Acc!About(u) : Acc!Recorded(u, i, log[i].before)
      BY <3>0 DEF ChainInv
    <3>4. /\ Len(log) \in Nat /\ Len(log') = Len(log) + 1
          /\ \A i \in Acc!About(u)' : \/ i \in Acc!About(u) /\ i \in 1..Len(log) /\ log'[i] = log[i]
                                      \/ i = Len(log) + 1 /\ log'[i] = e /\ e.subject = u
          /\ \A i \in 1..(Len(log) + 1) : \A r : Acc!Recorded(u, i, r)' <=> Acc!Recorded(u, i, r)
          /\ \A n, r : n = Len(log') + 1 =>
               /\ e.subject # u /\ Acc!Recorded(u, Len(log) + 1, r) => Acc!Recorded(u, n, r)'
               /\ e.subject = u /\ r = e.after => Acc!Recorded(u, n, r)'
      BY <2>0, <2>4, NewRecord
    <3>5. /\ \A d, f \in Calls : /\ call'[d].pc \in Acc!Changing /\ call'[d].subject = u
                                 /\ call'[f].pc \in Acc!Changing /\ call'[f].subject = u
                                 => d = f
          /\ \A d \in Calls : call'[d].pc \in Acc!Changing => call'[d] = call[d] /\ d # c
      BY <3>1, <3>2 DEF Acc!Changing
    <3>6. e.subject = u => call[c].pc = "log" /\ call[c].subject = u /\ e.before = call[c].before
                           /\ e.after = role[u] /\ Acc!Recorded(u, Len(log) + 1, e.before)
      BY <2>4, <3>2
    <3>7. ASSUME NEW i \in Acc!About(u)' PROVE Acc!Recorded(u, i, log[i].before)'
      <4>1. CASE i \in Acc!About(u) /\ i \in 1..Len(log) /\ log'[i] = log[i]
        BY <3>3, <3>4, <4>1
      <4>2. CASE i = Len(log) + 1 /\ log'[i] = e /\ e.subject = u
        <5>1. \A r : Acc!Recorded(u, i, r)' <=> Acc!Recorded(u, i, r)
          BY <3>4, <4>2
        <5>2. Acc!Recorded(u, i, e.before)
          BY <3>6, <4>2
        <5> QED BY <4>2, <5>1, <5>2
      <4> QED BY <3>4, <4>1, <4>2
    <3>8. CASE e.subject = u
      <4>1. \A d \in Calls : ~(call'[d].pc \in {"write", "log"} /\ call'[d].subject = u)
        BY <3>1, <3>2, <3>5, <3>6, <3>8 DEF Acc!Changing
      <4>2. Acc!Recorded(u, Len(log) + 1, role[u])'
        <5>1. \A n, r : n = Len(log') + 1 /\ r = e.after => Acc!Recorded(u, n, r)'
          BY <3>4, <3>8
        <5>2. e.after = role'[u]
          BY <2>4, <3>6, <3>8
        <5> QED BY <5>1, <5>2
      <4> QED BY <3>0, <3>5, <3>7, <4>1, <4>2
    <3>9. CASE e.subject # u
      <4>1. \A n, r : n = Len(log') + 1 /\ Acc!Recorded(u, Len(log) + 1, r) => Acc!Recorded(u, n, r)'
        BY <3>4, <3>9
      <4>2. ASSUME NEW d \in Calls, call'[d].subject = u
            PROVE  /\ call'[d].pc = "write" => call'[d].before = role'[u]
                   /\ call'[d].pc = "log" => /\ call'[d].to = role'[u]
                                             /\ Acc!Recorded(u, Len(log) + 1, call[d].before)'
        <5>1. CASE call'[d].pc \in {"write", "log"}
          <6>1. call'[d] = call[d] /\ d # c
            BY <3>5, <5>1 DEF Acc!Changing
          <6> QED BY <3>0, <3>2, <4>1, <4>2, <6>1
        <5> QED BY <5>1
      <4>3. ASSUME \A d \in Calls : ~(call'[d].pc = "log" /\ call'[d].subject = u)
            PROVE  Acc!Recorded(u, Len(log) + 1, role[u])'
        <5>1. call[c].pc = "log" => call[c].subject # u
          BY <2>4, <3>9
        <5>2. \A d \in Calls : ~(call[d].pc = "log" /\ call[d].subject = u)
          BY <3>1, <4>3, <5>1
        <5>3. Acc!Recorded(u, Len(log) + 1, role[u])
          BY <3>2, <5>2
        <5> QED BY <2>4, <4>1, <5>3
      <4> QED BY <3>0, <3>5, <3>7, <4>2, <4>3
    <3> QED BY <3>8, <3>9
  <2>5. ASSUME NEW c \in Calls, Acc!LogChange(c) PROVE ChainInv'
    <3> DEFINE e == [actor |-> call[c].actor, subject |-> call[c].subject,
                     before |-> call[c].before, after |-> call[c].to,
                     repeats |-> 1, fresh |-> TRUE]
    <3>1. e \in Acc!Entry /\ e.subject = call[c].subject /\ e.before = call[c].before
          /\ e.after = call[c].to
      BY <2>0, <2>5 DEF Acc!LogChange, Acc!TypeOK, Acc!Request, Acc!Entry, Acc!Changing
    <3>2. log' = Append(log, e) /\ call[c].pc = "log"
      BY <2>5 DEF Acc!LogChange
    <3> HIDE DEF e
    <3> QED BY <2>4, <2>5, <3>1, <3>2 DEF Acc!LogChange, Acc!End
  <2>6. ASSUME NEW c \in Calls, Acc!InsertView(c) PROVE ChainInv'
    <3>1. Acc!View(call[c].actor) \in Acc!Entry /\ Acc!View(call[c].actor).subject = None
      BY <2>0, <2>6 DEF Acc!InsertView, Acc!TypeOK, Acc!View, Acc!Entry, Acc!Roles
    <3> QED BY <2>4, <2>6, <3>1 DEF Acc!InsertView, Acc!End
  <2>7. ASSUME NEW c \in Calls, Acc!StepUp(c) \/ Acc!ReadBefore(c) PROVE ChainInv'
    <3>1. \A d \in Calls \ {c} : call'[d] = call[d]
      BY <2>0, <2>7 DEF Acc!StepUp, Acc!ReadBefore, Acc!Step, Acc!End, Acc!TypeOK
    <3>2. /\ call[c].pc \in {"stepup", "before"}
          /\ \/ call'[c].pc = "before" /\ call'[c].subject = call[c].subject
             \/ /\ call'[c].pc = "write" /\ call'[c].subject = call[c].subject
                /\ call'[c].before = role[call[c].subject]
             \/ call'[c].pc = "idle"
      BY <2>0, <2>7 DEF Acc!StepUp, Acc!ReadBefore, Acc!Step, Acc!End, Acc!Idle,
                        Acc!TypeOK, Acc!Request
    <3>3. UNCHANGED <<role, log, contested>>
      BY <2>7 DEF Acc!StepUp, Acc!ReadBefore
    <3> QED BY <3>1, <3>2, <3>3, OthersKeepChainInv DEF Acc!Changing
  <2>8. ASSUME NEW c \in Calls,
               Acc!FindRecent(c) \/ Acc!FoldView(c) \/ Acc!Fails(c) \/ \E u \in Users : Acc!StartView(c, u)
        PROVE  ChainInv'
    <3>1. \A d \in Calls \ {c} : call'[d] = call[d]
      BY <2>0, <2>8 DEF Acc!FindRecent, Acc!FoldView, Acc!Fails, Acc!StartView, Acc!Step,
                        Acc!End, Acc!TypeOK
    <3>2. call'[c].pc \notin Acc!Changing
      <4>1. CASE Acc!FindRecent(c)
        <5>1. PICK r \in Acc!Request : call' = [call EXCEPT ![c] = r] /\ r.pc \in {"insert", "fold"}
          BY <2>0, <4>1, FindingMoves
        <5> QED BY <2>0, <5>1 DEF Acc!TypeOK, Acc!Changing
      <4>2. CASE ~Acc!FindRecent(c)
        <5>1. CASE Acc!FoldView(c) \/ Acc!Fails(c)
          BY <2>0, <5>1 DEF Acc!FoldView, Acc!Fails, Acc!End, Acc!Idle, Acc!TypeOK,
                            Acc!Changing
        <5>2. CASE \E u \in Users : Acc!StartView(c, u)
          BY <2>0, <5>2 DEF Acc!StartView, Acc!Idle, Acc!TypeOK, Acc!Changing
        <5> QED BY <2>8, <4>2, <5>1, <5>2
      <4> QED BY <4>1, <4>2
    <3>3. role' = role /\ contested \subseteq contested'
          /\ (call[c].pc = "log" => call[c].subject \in contested')
      BY <2>8 DEF Acc!FindRecent, Acc!FoldView, Acc!Fails, Acc!StartView
    <3>4. /\ Len(log') = Len(log) /\ DOMAIN log' = DOMAIN log
          /\ \A i \in DOMAIN log : /\ log'[i].subject = log[i].subject
                                   /\ log'[i].before = log[i].before
                                   /\ log'[i].after = log[i].after
      <4>1. CASE Acc!FoldView(c)
        <5> DEFINE i == call[c].found
                   e == [log[i] EXCEPT !.repeats = call[c].repeats + 1, !.fresh = TRUE]
        <5>1. i \in 1..Len(log) /\ log[i] \in Acc!Entry
          BY <2>0, <4>1, LogEntries DEF Acc!FoldView, Acc!TypeOK
        <5>2. e.subject = log[i].subject /\ e.before = log[i].before /\ e.after = log[i].after
          BY <5>1 DEF Acc!Entry
        <5>3. log' = [log EXCEPT ![i] = e]
          <6>1. log' = [log EXCEPT ![i].repeats = call[c].repeats + 1, ![i].fresh = TRUE]
            BY <4>1 DEF Acc!FoldView
          <6> QED BY <2>0, <6>1, <5>1, LogEntries
        <5> HIDE DEF e, i
        <5> QED BY <2>0, <5>1, <5>2, <5>3, SameEntries
      <4>2. CASE ~Acc!FoldView(c)
        BY <2>8, <4>2 DEF Acc!FindRecent, Acc!Fails, Acc!StartView
      <4> QED BY <4>1, <4>2
    <3> QED BY <3>1, <3>2, <3>3, <3>4, OthersKeepChainInv
  <2>9. ASSUME NEW i \in 1..MaxLog, Acc!WindowPasses(i) PROVE ChainInv'
    <3> DEFINE e == [log[i] EXCEPT !.fresh = FALSE]
    <3>1. i \in 1..Len(log) /\ log[i] \in Acc!Entry /\ log' = [log EXCEPT ![i] = e]
      BY <2>0, <2>9, LogEntries DEF Acc!WindowPasses
    <3>2. e.subject = log[i].subject /\ e.before = log[i].before /\ e.after = log[i].after
      BY <3>1 DEF Acc!Entry
    <3> HIDE DEF e
    <3>3. /\ Len(log') = Len(log) /\ DOMAIN log' = DOMAIN log
          /\ \A j \in DOMAIN log : /\ log'[j].subject = log[j].subject
                                   /\ log'[j].before = log[j].before
                                   /\ log'[j].after = log[j].after
      BY <2>0, <3>1, <3>2, SameEntries
    <3> QED BY <2>9, <3>3, OthersKeepChainInv DEF Acc!WindowPasses
  <2> QED BY <2>1, <2>2, <2>3, <2>5, <2>6, <2>7, <2>8, <2>9 DEF Acc!Next
<1>3. ChainInv => Acc!RecordIsChain
  BY DEF ChainInv, Acc!RecordIsChain
<1> QED BY <1>1, <1>2, <1>3, AccessTypeOK, PTL DEF Acc!Spec

-----------------------------------------------------------------------------
(***************************************************************************)
(* AdminConsole: the views the log shows.                                  *)
(***************************************************************************)

\* The rows of a log that record reads of one user, and the views they stand
\* for.
RowsOf(l, u) == {j \in DOMAIN l : l[j].subject = None /\ l[j].actor = u}
ShownIn(l, u) == UNION {{i} \X (1..l[i].repeats) : i \in RowsOf(l, u)}

\* A view that has begun and is not in the log yet.
Waiting(u) == IF Acc!Pending(u) = {} THEN 0 ELSE 1

\* ViewsAreCounted is not inductive: it says nothing of a user with a view
\* under way.  Such a user has one, it is not in the log, and what it has read
\* of the row it will bump is what the row still says.  That the row is one of
\* the reader's own holds of everybody: nobody bumps the row of another.
CountInv ==
  /\ Acc!TypeOK
  /\ \A c \in Calls : call[c].pc = "fold" => call[c].found \in RowsOf(log, call[c].actor)
  /\ \A u \in Users \ doubled :
       /\ \A c, d \in Acc!Pending(u) : c = d
       /\ \A c \in Acc!Pending(u) :
            call[c].pc = "fold" => log[call[c].found].repeats = call[c].repeats
       /\ Cardinality(Acc!Shown(u)) + Waiting(u) = views[u]

-----------------------------------------------------------------------------
\* The views shown, as those of the rows of a user.
LEMMA ShownByRows ==
  ASSUME NEW u
  PROVE  Acc!Shown(u) = ShownIn(log, u) /\ Acc!Shown(u)' = ShownIn(log', u)
BY DEF Acc!Shown, ShownIn, RowsOf

\* Counting is the same thing in the console's module.
LEMMA SameCountOfViews ==
  ASSUME NEW S
  PROVE  Acc!Cardinality(S) = Cardinality(S)
BY DEF Acc!Cardinality, Cardinality, Acc!IsFiniteSet, IsFiniteSet

\* A view that is shown is one of a row's.
LEMMA ShownMembers ==
  ASSUME NEW l, NEW u, NEW x
  PROVE  x \in ShownIn(l, u) <=> \E i, n : i \in RowsOf(l, u) /\ n \in 1..l[i].repeats /\ x = <<i, n>>
BY DEF ShownIn

\* Finitely many views are shown.
LEMMA ShownIsFinite ==
  ASSUME Acc!TypeOK, NEW u
  PROVE  IsFiniteSet(ShownIn(log, u)) /\ Cardinality(ShownIn(log, u)) \in Nat
<1> DEFINE J == RowsOf(log, u)
           pairs == [i \in J |-> {i} \X (1..log[i].repeats)]
           S == {{i} \X (1..log[i].repeats) : i \in J}
<1>1. J \subseteq 1..Len(log) /\ Len(log) \in Nat /\ \A i \in J : log[i].repeats \in Nat
  BY LogEntries DEF RowsOf
<1>2. IsFiniteSet(J)
  <2>1. IsFiniteSet(1..Len(log))
    BY <1>1, FS_Interval
  <2> QED BY <1>1, <2>1, FS_Subset
<1>3. ASSUME NEW i \in J PROVE IsFiniteSet({i} \X (1..log[i].repeats))
  <2>1. IsFiniteSet({i})
    BY FS_Singleton
  <2>2. IsFiniteSet(1..log[i].repeats)
    <3>1. log[i].repeats \in Int /\ 1 \in Int
      BY <1>1, <1>3
    <3> QED BY <3>1, FS_Interval
  <2> QED BY <2>1, <2>2, FS_Product
<1>4. pairs \in Surjection(J, S)
  BY DEF Surjection
<1>5. IsFiniteSet(S)
  BY <1>2, <1>4, FS_Surjection
<1>6. IsFiniteSet(UNION S)
  BY <1>3, <1>5, FS_UNION
<1>7. IsFiniteSet(ShownIn(log, u))
  BY <1>6 DEF ShownIn
<1> QED BY <1>7, FS_CardinalityType

\* Rows that say the same show the same.
LEMMA SameRowsSameViews ==
  ASSUME NEW l, NEW m, NEW u, RowsOf(m, u) = RowsOf(l, u),
         \A i \in RowsOf(l, u) : m[i].repeats = l[i].repeats
  PROVE  ShownIn(m, u) = ShownIn(l, u)
<1>1. \A x : x \in ShownIn(m, u) <=> x \in ShownIn(l, u)
  BY ShownMembers
<1> QED BY <1>1

\* A row that is new with one repeat, or has one more than it had, shows one
\* view more.
LEMMA OneMoreView ==
  ASSUME NEW l, NEW m, NEW u, NEW i, NEW k \in Nat,
         RowsOf(m, u) = RowsOf(l, u) \cup {i},
         \A j \in RowsOf(l, u) \ {i} : m[j].repeats = l[j].repeats,
         m[i].repeats = k + 1,
         i \in RowsOf(l, u) => l[i].repeats = k,
         i \notin RowsOf(l, u) => k = 0,
         IsFiniteSet(ShownIn(l, u))
  PROVE  Cardinality(ShownIn(m, u)) = Cardinality(ShownIn(l, u)) + 1
<1>1. <<i, k + 1>> \notin ShownIn(l, u)
  <2> SUFFICES ASSUME <<i, k + 1>> \in ShownIn(l, u) PROVE FALSE
    OBVIOUS
  <2>1. PICK j, n : j \in RowsOf(l, u) /\ n \in 1..l[j].repeats /\ <<i, k + 1>> = <<j, n>>
    BY ShownMembers
  <2>2. j = i /\ n = k + 1
    BY <2>1
  <2> QED BY <2>1, <2>2
<1>2. ASSUME NEW x \in ShownIn(m, u) PROVE x \in ShownIn(l, u) \cup {<<i, k + 1>>}
  <2>1. PICK j, n : j \in RowsOf(m, u) /\ n \in 1..m[j].repeats /\ x = <<j, n>>
    BY <1>2, ShownMembers
  <2>2. CASE j # i
    <3>1. j \in RowsOf(l, u) /\ n \in 1..l[j].repeats
      BY <2>1, <2>2
    <3> QED BY <2>1, <3>1, ShownMembers
  <2>3. CASE j = i /\ n = k + 1
    BY <2>1, <2>3
  <2>4. CASE j = i /\ n # k + 1
    <3>1. n \in 1..k
      BY <2>1, <2>4
    <3>2. i \in RowsOf(l, u) /\ n \in 1..l[i].repeats
      BY <3>1
    <3> QED BY <2>1, <2>4, <3>2, ShownMembers
  <2> QED BY <2>2, <2>3, <2>4
<1>3. ASSUME NEW x \in ShownIn(l, u) PROVE x \in ShownIn(m, u)
  <2>1. PICK j, n : j \in RowsOf(l, u) /\ n \in 1..l[j].repeats /\ x = <<j, n>>
    BY <1>3, ShownMembers
  <2>2. j \in RowsOf(m, u) /\ n \in 1..m[j].repeats
    <3>1. CASE j = i
      <4>1. n \in 1..k
        BY <2>1, <3>1
      <4> QED BY <3>1, <4>1
    <3>2. CASE j # i
      BY <2>1, <3>2
    <3> QED BY <3>1, <3>2
  <2> QED BY <2>1, <2>2, ShownMembers
<1>4. <<i, k + 1>> \in ShownIn(m, u)
  <2>1. i \in RowsOf(m, u) /\ k + 1 \in 1..m[i].repeats
    OBVIOUS
  <2> QED BY <2>1, ShownMembers
<1>5. ShownIn(m, u) = ShownIn(l, u) \cup {<<i, k + 1>>}
  BY <1>2, <1>3, <1>4
<1> QED BY <1>1, <1>5, FS_AddElement

\* A row is added: to the rows of its actor, if it records a read.
LEMMA AppendedRow ==
  ASSUME Acc!TypeOK, NEW e \in Acc!Entry, log' = Append(log, e)
  PROVE  /\ Len(log) + 1 \notin DOMAIN log /\ log'[Len(log) + 1] = e
         /\ \A i \in DOMAIN log : log'[i] = log[i]
         /\ \A u : RowsOf(log', u) = IF e.subject = None /\ e.actor = u
                                     THEN RowsOf(log, u) \cup {Len(log) + 1}
                                     ELSE RowsOf(log, u)
<1>1. Len(log) \in Nat /\ DOMAIN log = 1..Len(log) /\ log \in Seq(Acc!Entry)
  BY LogEntries DEF Acc!TypeOK
<1>2. /\ DOMAIN log' = 1..(Len(log) + 1) /\ log'[Len(log) + 1] = e
      /\ \A i \in 1..Len(log) : log'[i] = log[i]
  <2>1. Len(log') = Len(log) + 1 /\ log' \in Seq(Acc!Entry)
    BY <1>1, AppendProperties
  <2>2. DOMAIN log' = 1..Len(log')
    BY <2>1, LenProperties
  <2> QED BY <1>1, <2>1, <2>2, AppendProperties
<1>3. 1..(Len(log) + 1) = (1..Len(log)) \cup {Len(log) + 1} /\ Len(log) + 1 \notin 1..Len(log)
  BY <1>1
<1>4. ASSUME NEW u
      PROVE  RowsOf(log', u) = IF e.subject = None /\ e.actor = u
                               THEN RowsOf(log, u) \cup {Len(log) + 1}
                               ELSE RowsOf(log, u)
  BY <1>1, <1>2, <1>3 DEF RowsOf
<1> QED BY <1>1, <1>2, <1>3, <1>4

\* A row is written over with what it is about left as it was.
LEMMA ReplacedRow ==
  ASSUME Acc!TypeOK, NEW i \in 1..Len(log), NEW e, log' = [log EXCEPT ![i] = e],
         e.subject = log[i].subject, e.actor = log[i].actor
  PROVE  /\ log'[i] = e /\ \A j \in DOMAIN log \ {i} : log'[j] = log[j]
         /\ \A u : RowsOf(log', u) = RowsOf(log, u)
<1>1. DOMAIN log = 1..Len(log) /\ DOMAIN log' = DOMAIN log
  BY LogEntries
<1>2. log'[i] = e /\ \A j \in DOMAIN log \ {i} : log'[j] = log[j]
  BY <1>1
<1>3. ASSUME NEW u PROVE RowsOf(log', u) = RowsOf(log, u)
  BY <1>1, <1>2 DEF RowsOf
<1> QED BY <1>2, <1>3

\* A step that begins no view and ends none, and leaves what the log shows.
LEMMA OthersKeepCountInv ==
  ASSUME CountInv, Acc!TypeOK', UNCHANGED <<views, doubled>>,
         \A u \in Users : RowsOf(log', u) = RowsOf(log, u),
         \A i \in DOMAIN log : log'[i].repeats = log[i].repeats,
         \A c \in Calls :
           /\ call'[c].pc \in Acc!Reading <=> call[c].pc \in Acc!Reading
           /\ call[c].pc \in Acc!Reading => call'[c].actor = call[c].actor
           /\ call'[c].pc = "fold" =>
                \/ call'[c] = call[c]
                \/ /\ call'[c].found \in RowsOf(log, call[c].actor)
                   /\ log[call'[c].found].repeats = call'[c].repeats
  PROVE  CountInv'
<1>1. ASSUME NEW c \in Calls, call'[c].pc = "fold"
      PROVE  call'[c].found \in RowsOf(log', call'[c].actor)
  <2>1. call'[c].pc \in Acc!Reading
    BY <1>1 DEF Acc!Reading
  <2>2. call'[c].actor = call[c].actor /\ call'[c].actor \in Users
    BY <1>1, <2>1 DEF Acc!TypeOK
  <2> QED BY <1>1, <2>2 DEF CountInv
<1>2. ASSUME NEW u \in Users \ doubled'
      PROVE  /\ \A c, d \in Acc!Pending(u)' : c = d
             /\ \A c \in Acc!Pending(u)' :
                  call'[c].pc = "fold" => log'[call'[c].found].repeats = call'[c].repeats
             /\ Cardinality(Acc!Shown(u)') + Waiting(u)' = views'[u]
  <2>1. Acc!Pending(u)' = Acc!Pending(u)
    BY DEF Acc!Pending
  <2>2. ShownIn(log', u) = ShownIn(log, u)
    <3>1. \A i \in RowsOf(log, u) : log'[i].repeats = log[i].repeats
      BY DEF RowsOf
    <3> QED BY <3>1, SameRowsSameViews
  <2>3. Waiting(u)' = Waiting(u) /\ Acc!Shown(u)' = Acc!Shown(u)
    BY <2>1, <2>2, ShownByRows DEF Waiting
  <2>4. ASSUME NEW c \in Acc!Pending(u)', call'[c].pc = "fold"
        PROVE  log'[call'[c].found].repeats = call'[c].repeats
    <3>1. c \in Acc!Pending(u) /\ c \in Calls /\ call[c].actor = u
      BY <2>1 DEF Acc!Pending
    <3>2. call'[c].found \in RowsOf(log, u) /\ call'[c].found \in DOMAIN log
      BY <1>1, <2>4, <3>1 DEF RowsOf, CountInv, Acc!Pending
    <3>3. log[call'[c].found].repeats = call'[c].repeats
      BY <2>4, <3>1 DEF CountInv
    <3> QED BY <3>2, <3>3
  <2> QED BY <2>1, <2>3, <2>4 DEF CountInv
<1> QED BY <1>1, <1>2 DEF CountInv

\* A step after which a view is in the log: the one row it writes shows one
\* more, if what the request knows of the row is what the row says.
LEMMA LoggedKeepsCountInv ==
  ASSUME CountInv, Acc!TypeOK', UNCHANGED <<views, doubled>>,
         NEW c \in Calls, call[c].pc \in Acc!Reading, Acc!End(c),
         NEW i, NEW k \in Nat,
         RowsOf(log', call[c].actor) = RowsOf(log, call[c].actor) \cup {i},
         \A v \in Users \ {call[c].actor} :
           RowsOf(log', v) = RowsOf(log, v) /\ i \notin RowsOf(log, v),
         \A j \in DOMAIN log \ {i} : log'[j].repeats = log[j].repeats,
         log'[i].repeats = k + 1,
         i \notin RowsOf(log, call[c].actor) => k = 0,
         call[c].actor \notin doubled /\ i \in RowsOf(log, call[c].actor) => log[i].repeats = k
  PROVE  CountInv'
<1> DEFINE u == call[c].actor
<1>1. u \in Users /\ c \in Acc!Pending(u)
  BY DEF CountInv, Acc!TypeOK, Acc!Reading, Acc!Pending
<1>2. call'[c].pc = "idle" /\ \A d \in Calls \ {c} : call'[d] = call[d]
  BY DEF Acc!End, Acc!Idle, CountInv, Acc!TypeOK
<1>3. \A v : Acc!Pending(v)' = Acc!Pending(v) \ {c}
  BY <1>2 DEF Acc!Pending, Acc!Reading
<1>4. ASSUME NEW d \in Calls, call'[d].pc = "fold"
      PROVE  call'[d].found \in RowsOf(log', call'[d].actor)
  <2>1. call'[d] = call[d] /\ call[d].actor \in Users
    BY <1>2, <1>4 DEF CountInv, Acc!TypeOK
  <2>2. call[d].found \in RowsOf(log, call[d].actor)
    BY <1>4, <2>1 DEF CountInv
  <2> QED BY <2>1, <2>2
<1>5. ASSUME NEW v \in Users \ doubled'
      PROVE  /\ \A d, f \in Acc!Pending(v)' : d = f
             /\ \A d \in Acc!Pending(v)' :
                  call'[d].pc = "fold" => log'[call'[d].found].repeats = call'[d].repeats
             /\ Cardinality(Acc!Shown(v)') + Waiting(v)' = views'[v]
  <2>0. /\ \A d, f \in Acc!Pending(v) : d = f
        /\ \A d \in Acc!Pending(v) :
             call[d].pc = "fold" => log[call[d].found].repeats = call[d].repeats
        /\ Cardinality(Acc!Shown(v)) + Waiting(v) = views[v]
    BY <1>5 DEF CountInv
  <2>1. CASE v = u
    <3>1. Acc!Pending(v)' = {} /\ Waiting(v)' = 0 /\ Waiting(v) = 1
      BY <1>1, <1>3, <2>0, <2>1 DEF Waiting
    <3>2. IsFiniteSet(ShownIn(log, u)) /\ Cardinality(ShownIn(log, u)) \in Nat
      BY ShownIsFinite DEF CountInv
    <3>3. \A j \in RowsOf(log, u) \ {i} : log'[j].repeats = log[j].repeats
      BY DEF RowsOf
    <3>4. i \in RowsOf(log, u) => log[i].repeats = k
      BY <1>5, <2>1
    <3>5. Cardinality(ShownIn(log', u)) = Cardinality(ShownIn(log, u)) + 1
      <4> HIDE DEF u
      <4>1. RowsOf(log', u) = RowsOf(log, u) \cup {i} /\ (i \notin RowsOf(log, u) => k = 0)
        BY DEF u
      <4> QED BY <3>2, <3>3, <3>4, <4>1, OneMoreView
    <3>6. Acc!Shown(v)' = ShownIn(log', u) /\ Acc!Shown(v) = ShownIn(log, u)
      BY <2>1, ShownByRows
    <3> QED BY <2>0, <3>1, <3>2, <3>5, <3>6
  <2>2. CASE v # u
    <3>1. c \notin Acc!Pending(v) /\ Acc!Pending(v)' = Acc!Pending(v)
      BY <1>3, <2>2 DEF Acc!Pending
    <3>2. RowsOf(log', v) = RowsOf(log, v)
          /\ \A j \in RowsOf(log, v) : log'[j].repeats = log[j].repeats
      BY <2>2 DEF RowsOf
    <3>3. Acc!Shown(v)' = Acc!Shown(v) /\ Waiting(v)' = Waiting(v)
      BY <3>1, <3>2, SameRowsSameViews, ShownByRows DEF Waiting
    <3>4. ASSUME NEW d \in Acc!Pending(v)', call'[d].pc = "fold"
          PROVE  log'[call'[d].found].repeats = call'[d].repeats
      <4>1. d \in Acc!Pending(v) /\ d \in Calls /\ call'[d] = call[d] /\ call[d].actor = v
        BY <1>2, <3>1 DEF Acc!Pending
      <4>2. call[d].found \in RowsOf(log, v)
        BY <3>4, <4>1 DEF CountInv
      <4> QED BY <2>0, <3>2, <3>4, <4>1, <4>2
    <3> QED BY <2>0, <3>1, <3>3, <3>4
  <2> QED BY <2>1, <2>2
<1> QED BY <1>4, <1>5 DEF CountInv

\* A view begins, and is the only one of its user's or marks the user.
LEMMA StartKeepsCountInv ==
  ASSUME CountInv, Acc!TypeOK', NEW c \in Calls, NEW u \in Users, Acc!StartView(c, u)
  PROVE  CountInv'
<1> DEFINE r == [Acc!Idle EXCEPT !.pc = "find", !.actor = u]
<1>1. r.pc = "find" /\ r.actor = u
  BY DEF Acc!Idle
<1>2. /\ call' = [call EXCEPT ![c] = r] /\ call[c].pc = "idle"
      /\ views' = [views EXCEPT ![u] = @ + 1] /\ log' = log
      /\ doubled' = IF \E d \in Calls : call[d].pc \in Acc!Reading /\ call[d].actor = u
                    THEN doubled \cup {u} ELSE doubled
  BY DEF Acc!StartView
<1> HIDE DEF r
<1>3. call'[c] = r /\ \A d \in Calls \ {c} : call'[d] = call[d]
  BY <1>2 DEF CountInv, Acc!TypeOK
<1>4. ASSUME NEW d \in Calls, call'[d].pc = "fold"
      PROVE  call'[d].found \in RowsOf(log', call'[d].actor)
  BY <1>1, <1>2, <1>3, <1>4 DEF CountInv
<1>5. ASSUME NEW v \in Users \ doubled'
      PROVE  /\ \A d, f \in Acc!Pending(v)' : d = f
             /\ \A d \in Acc!Pending(v)' :
                  call'[d].pc = "fold" => log'[call'[d].found].repeats = call'[d].repeats
             /\ Cardinality(Acc!Shown(v)') + Waiting(v)' = views'[v]
  <2>0. /\ \A d, f \in Acc!Pending(v) : d = f
        /\ \A d \in Acc!Pending(v) :
             call[d].pc = "fold" => log[call[d].found].repeats = call[d].repeats
        /\ Cardinality(Acc!Shown(v)) + Waiting(v) = views[v]
    BY <1>2, <1>5 DEF CountInv
  <2>1. Acc!Shown(v)' = Acc!Shown(v)
    BY <1>2, ShownByRows
  <2>2. CASE v = u
    <3>1. Acc!Pending(v) = {}
      BY <1>2, <1>5, <2>2 DEF Acc!Pending
    <3>2. Acc!Pending(v)' = {c}
      BY <1>1, <1>3, <2>2, <3>1 DEF Acc!Pending, Acc!Reading
    <3>3. Waiting(v) = 0 /\ Waiting(v)' = 1
      BY <3>1, <3>2 DEF Waiting
    <3>4. views'[v] = views[v] + 1
      BY <1>2, <2>2 DEF CountInv, Acc!TypeOK
    <3>5. Cardinality(Acc!Shown(v)) \in Nat
      BY ShownIsFinite, ShownByRows DEF CountInv
    <3> QED BY <1>1, <1>3, <2>0, <2>1, <3>2, <3>3, <3>4, <3>5
  <2>3. CASE v # u
    <3>1. Acc!Pending(v)' = Acc!Pending(v) /\ c \notin Acc!Pending(v)
      BY <1>1, <1>2, <1>3, <2>3 DEF Acc!Pending, Acc!Reading
    <3>2. Waiting(v)' = Waiting(v) /\ views'[v] = views[v]
      BY <1>2, <2>3, <3>1 DEF Waiting, CountInv, Acc!TypeOK
    <3>3. \A d \in Acc!Pending(v) : call'[d] = call[d]
      BY <1>3, <3>1 DEF Acc!Pending
    <3> QED BY <1>2, <2>0, <2>1, <3>1, <3>2, <3>3
  <2> QED BY <2>2, <2>3
<1> QED BY <1>4, <1>5 DEF CountInv

\* A view that fails marks its user; a change that fails is no view.
LEMMA FailureKeepsCountInv ==
  ASSUME CountInv, Acc!TypeOK', NEW c \in Calls, Acc!Fails(c)
  PROVE  CountInv'
<1>1. /\ call'[c].pc = "idle" /\ \A d \in Calls \ {c} : call'[d] = call[d]
      /\ UNCHANGED <<log, views>>
      /\ doubled' = IF call[c].pc \in Acc!Reading THEN doubled \cup {call[c].actor} ELSE doubled
  BY DEF Acc!Fails, Acc!End, Acc!Idle, CountInv, Acc!TypeOK
<1>2. ASSUME NEW d \in Calls, call'[d].pc = "fold"
      PROVE  call'[d].found \in RowsOf(log', call'[d].actor)
  BY <1>1, <1>2 DEF CountInv
<1>3. ASSUME NEW v \in Users \ doubled'
      PROVE  /\ \A d, f \in Acc!Pending(v)' : d = f
             /\ \A d \in Acc!Pending(v)' :
                  call'[d].pc = "fold" => log'[call'[d].found].repeats = call'[d].repeats
             /\ Cardinality(Acc!Shown(v)') + Waiting(v)' = views'[v]
  <2>1. v \notin doubled /\ c \notin Acc!Pending(v)
    BY <1>1, <1>3 DEF Acc!Pending
  <2>2. Acc!Pending(v)' = Acc!Pending(v) /\ \A d \in Acc!Pending(v) : call'[d] = call[d]
    BY <1>1, <2>1 DEF Acc!Pending, Acc!Reading
  <2>3. Acc!Shown(v)' = Acc!Shown(v) /\ Waiting(v)' = Waiting(v)
    BY <1>1, <2>2, ShownByRows DEF Waiting
  <2> QED BY <1>1, <2>1, <2>2, <2>3 DEF CountInv
<1> QED BY <1>2, <1>3 DEF CountInv

(* Every view is counted: what the log shows of a user's visits to the       *)
(* console is as many as were made, folded into a row or listed, unless two  *)
(* of them were logged at once or one failed to be (logAdminAction).         *)
THEOREM ConsoleViewsAreCounted ==
  Acc!Spec => []Acc!ViewsAreCounted
<1>1. Acc!Init /\ Acc!TypeOK => CountInv
  <2> SUFFICES ASSUME Acc!Init, Acc!TypeOK PROVE CountInv
    OBVIOUS
  <2>1. \A u : Acc!Pending(u) = {}
    BY DEF Acc!Init, Acc!Idle, Acc!Pending, Acc!Reading
  <2>2. \A u : ShownIn(log, u) = {}
    BY DEF Acc!Init, ShownIn, RowsOf
  <2>3. \A u \in Users : Cardinality(Acc!Shown(u)) + Waiting(u) = views[u]
    <3> SUFFICES ASSUME NEW u \in Users PROVE Cardinality(Acc!Shown(u)) + Waiting(u) = views[u]
      OBVIOUS
    <3>1. Acc!Shown(u) = {}
      BY <2>2, ShownByRows
    <3>2. Cardinality({}) = 0
      BY FS_EmptySet
    <3>3. Waiting(u) = 0 /\ views[u] = 0
      BY <2>1 DEF Acc!Init, Waiting
    <3> QED BY <3>1, <3>2, <3>3
  <2>4. \A c \in Calls : call[c].pc # "fold"
    BY DEF Acc!Init, Acc!Idle
  <2> QED BY <2>1, <2>3, <2>4 DEF CountInv
<1>2. CountInv /\ Acc!TypeOK' /\ [Acc!Next]_(Acc!vars) => CountInv'
  <2> SUFFICES ASSUME CountInv, Acc!TypeOK', [Acc!Next]_(Acc!vars) PROVE CountInv'
    OBVIOUS
  <2>0. Acc!TypeOK
    BY DEF CountInv
  <2>1. CASE UNCHANGED Acc!vars
    BY <2>1, OthersKeepCountInv DEF Acc!vars
  <2>2. ASSUME NEW c \in Calls, NEW actor \in Users, NEW u \in Users, NEW to \in Acc!Roles,
               Acc!StartChange(c, actor, u, to)
        PROVE  CountInv'
    <3>1. /\ call[c].pc = "idle" /\ call'[c].pc = "stepup" /\ UNCHANGED <<log, views, doubled>>
          /\ \A d \in Calls \ {c} : call'[d] = call[d]
      BY <2>0, <2>2 DEF Acc!StartChange, Acc!Idle, Acc!TypeOK
    <3> QED BY <3>1, OthersKeepCountInv DEF Acc!Reading
  <2>3. ASSUME NEW c \in Calls, Acc!StepUp(c) \/ Acc!ReadBefore(c) \/ Acc!SetRole(c)
        PROVE  CountInv'
    <3>1. /\ call[c].pc \in Acc!Changing /\ call'[c].pc \in Acc!Changing \cup {"idle"}
          /\ \A d \in Calls \ {c} : call'[d] = call[d]
      BY <2>0, <2>3 DEF Acc!StepUp, Acc!ReadBefore, Acc!SetRole, Acc!Step, Acc!End, Acc!Idle,
                        Acc!TypeOK, Acc!Request, Acc!Changing
    <3>2. UNCHANGED <<log, views, doubled>>
      BY <2>3 DEF Acc!StepUp, Acc!ReadBefore, Acc!SetRole
    <3> QED BY <3>1, <3>2, OthersKeepCountInv DEF Acc!Reading, Acc!Changing
  <2>4. ASSUME NEW c \in Calls, Acc!LogChange(c) PROVE CountInv'
    <3> DEFINE e == [actor |-> call[c].actor, subject |-> call[c].subject,
                     before |-> call[c].before, after |-> call[c].to,
                     repeats |-> 1, fresh |-> TRUE]
    <3>1. e \in Acc!Entry /\ e.subject # None
      BY <2>0, <2>4, NoneIsNothing DEF Acc!LogChange, Acc!TypeOK, Acc!Request, Acc!Entry,
                                       Acc!Changing
    <3>2. log' = Append(log, e) /\ call[c].pc = "log" /\ UNCHANGED <<views, doubled>>
      BY <2>4 DEF Acc!LogChange
    <3>3. call'[c].pc = "idle" /\ \A d \in Calls \ {c} : call'[d] = call[d]
      BY <2>0, <2>4 DEF Acc!LogChange, Acc!End, Acc!Idle, Acc!TypeOK
    <3> HIDE DEF e
    <3>4. /\ \A u \in Users : RowsOf(log', u) = RowsOf(log, u)
          /\ \A i \in DOMAIN log : log'[i] = log[i]
      BY <2>0, <3>1, <3>2, AppendedRow
    <3> QED BY <3>2, <3>3, <3>4, OthersKeepCountInv DEF Acc!Reading
  <2>5. ASSUME NEW c \in Calls, Acc!FindRecent(c) PROVE CountInv'
    <3>1. call[c].pc = "find" /\ UNCHANGED <<log, views, doubled>>
      BY <2>5 DEF Acc!FindRecent
    <3>2. \A d \in Calls \ {c} : call'[d] = call[d]
      BY <2>0, <2>5 DEF Acc!FindRecent, Acc!Step, Acc!TypeOK
    <3>3. CASE Acc!Step(c, "insert")
      <4>1. call'[c].pc = "insert" /\ call'[c].actor = call[c].actor
        BY <2>0, <3>3 DEF Acc!Step, Acc!TypeOK, Acc!Request
      <4> QED BY <3>1, <3>2, <4>1, OthersKeepCountInv DEF Acc!Reading
    <3>4. ASSUME NEW i \in Acc!Recent(call[c].actor),
                 call' = [call EXCEPT ![c].pc = "fold", ![c].found = i, ![c].repeats = log[i].repeats]
          PROVE  CountInv'
      <4>1. /\ call'[c].pc = "fold" /\ call'[c].actor = call[c].actor
            /\ call'[c].found = i /\ call'[c].repeats = log[i].repeats
        BY <2>0, <3>4 DEF Acc!TypeOK, Acc!Request
      <4>2. i \in RowsOf(log, call[c].actor)
        BY DEF Acc!Recent, RowsOf
      <4> QED BY <3>1, <3>2, <4>1, <4>2, OthersKeepCountInv DEF Acc!Reading
    <3> QED BY <2>5, <3>3, <3>4 DEF Acc!FindRecent
  <2>6. ASSUME NEW c \in Calls, Acc!FoldView(c) PROVE CountInv'
    <3> DEFINE i == call[c].found
               k == call[c].repeats
               e == [log[i] EXCEPT !.repeats = k + 1, !.fresh = TRUE]
    <3>1. /\ i \in 1..Len(log) /\ log[i] \in Acc!Entry /\ k \in Nat /\ call[c].pc = "fold"
          /\ UNCHANGED <<views, doubled>> /\ Acc!End(c)
      BY <2>0, <2>6, LogEntries DEF Acc!FoldView, Acc!TypeOK, Acc!Request
    <3>2. e.subject = log[i].subject /\ e.actor = log[i].actor /\ e.repeats = k + 1
      BY <3>1 DEF Acc!Entry
    <3>3. log' = [log EXCEPT ![i] = e]
      <4>1. log' = [log EXCEPT ![i].repeats = k + 1, ![i].fresh = TRUE]
        BY <2>6 DEF Acc!FoldView
      <4> QED BY <2>0, <4>1, <3>1, LogEntries
    <3>4. /\ call[c].actor \in Users /\ i \in RowsOf(log, call[c].actor)
          /\ call[c].actor \notin doubled => log[i].repeats = k
      BY <2>0, <3>1 DEF CountInv, Acc!TypeOK, Acc!Pending, Acc!Reading
    <3> HIDE DEF e, i, k
    <3>5. /\ log'[i] = e /\ \A j \in DOMAIN log \ {i} : log'[j] = log[j]
          /\ \A u : RowsOf(log', u) = RowsOf(log, u)
      BY <2>0, <3>1, <3>2, <3>3, ReplacedRow
    <3>6. \A v \in Users \ {call[c].actor} : i \notin RowsOf(log, v)
      BY <3>4 DEF RowsOf
    <3>7. RowsOf(log', call[c].actor) = RowsOf(log, call[c].actor) \cup {i}
      BY <3>4, <3>5
    <3>8. call[c].pc \in Acc!Reading
      BY <3>1 DEF Acc!Reading
    <3>9. log'[i].repeats = k + 1 /\ \A j \in DOMAIN log \ {i} : log'[j].repeats = log[j].repeats
      BY <3>2, <3>5
    <3>10. \A v \in Users \ {call[c].actor} :
             RowsOf(log', v) = RowsOf(log, v) /\ i \notin RowsOf(log, v)
      BY <3>5, <3>6
    <3> QED BY <3>1, <3>4, <3>7, <3>8, <3>9, <3>10, LoggedKeepsCountInv
  <2>7. ASSUME NEW c \in Calls, Acc!InsertView(c) PROVE CountInv'
    <3> DEFINE e == Acc!View(call[c].actor)
    <3>1. /\ e \in Acc!Entry /\ e.subject = None /\ e.actor = call[c].actor /\ e.repeats = 0 + 1
          /\ call[c].pc \in Acc!Reading /\ UNCHANGED <<views, doubled>> /\ Acc!End(c)
      BY <2>0, <2>7 DEF Acc!InsertView, Acc!TypeOK, Acc!View, Acc!Entry, Acc!Roles, Acc!Reading
    <3>2. log' = Append(log, e)
      BY <2>7 DEF Acc!InsertView
    <3> HIDE DEF e
    <3>3. /\ Len(log) + 1 \notin DOMAIN log /\ log'[Len(log) + 1] = e
          /\ \A i \in DOMAIN log : log'[i] = log[i]
          /\ \A u : RowsOf(log', u) = IF e.subject = None /\ e.actor = u
                                      THEN RowsOf(log, u) \cup {Len(log) + 1}
                                      ELSE RowsOf(log, u)
      BY <2>0, <3>1, <3>2, AppendedRow
    <3>4. \A v : Len(log) + 1 \notin RowsOf(log, v)
      BY <3>3 DEF RowsOf
    <3>5. /\ RowsOf(log', call[c].actor) = RowsOf(log, call[c].actor) \cup {Len(log) + 1}
          /\ \A v \in Users \ {call[c].actor} : RowsOf(log', v) = RowsOf(log, v)
      BY <3>1, <3>3
    <3>6. log'[Len(log) + 1].repeats = 0 + 1 /\ 0 \in Nat
      BY <3>1, <3>3
    <3> QED BY <3>1, <3>3, <3>4, <3>5, <3>6, LoggedKeepsCountInv
  <2>8. ASSUME NEW i \in 1..MaxLog, Acc!WindowPasses(i) PROVE CountInv'
    <3> DEFINE e == [log[i] EXCEPT !.fresh = FALSE]
    <3>1. i \in 1..Len(log) /\ log[i] \in Acc!Entry /\ log' = [log EXCEPT ![i] = e]
          /\ UNCHANGED <<call, views, doubled>>
      BY <2>0, <2>8, LogEntries DEF Acc!WindowPasses
    <3>2. e.subject = log[i].subject /\ e.actor = log[i].actor /\ e.repeats = log[i].repeats
      BY <3>1 DEF Acc!Entry
    <3> HIDE DEF e
    <3>3. /\ log'[i] = e /\ \A j \in DOMAIN log \ {i} : log'[j] = log[j]
          /\ \A u : RowsOf(log', u) = RowsOf(log, u)
      BY <2>0, <3>1, <3>2, ReplacedRow
    <3> QED BY <3>1, <3>2, <3>3, OthersKeepCountInv
  <2>9. ASSUME NEW c \in Calls, NEW u \in Users, Acc!StartView(c, u) PROVE CountInv'
    BY <2>9, StartKeepsCountInv
  <2>10. ASSUME NEW c \in Calls, Acc!Fails(c) PROVE CountInv'
    BY <2>10, FailureKeepsCountInv
  <2> QED BY <2>1, <2>2, <2>3, <2>4, <2>5, <2>6, <2>7, <2>8, <2>9, <2>10 DEF Acc!Next
<1>3. CountInv => Acc!ViewsAreCounted
  <2> SUFFICES ASSUME CountInv, NEW u \in Users \ doubled, Acc!Pending(u) = {}
               PROVE  Acc!Cardinality(Acc!Shown(u)) = views[u]
    BY DEF Acc!ViewsAreCounted
  <2>1. Cardinality(Acc!Shown(u)) \in Nat
    BY ShownIsFinite, ShownByRows DEF CountInv
  <2> QED BY <2>1, SameCountOfViews DEF CountInv, Waiting
<1> QED BY <1>1, <1>2, <1>3, AccessTypeOK, PTL DEF Acc!Spec

-----------------------------------------------------------------------------
(* The workspace: what holds of a component holds while it runs.            *)

\* While it is invitations that runs, a behaviour of the workspace is one of
\* the component's.
LEMMA InvitationsRun ==
  WorkspaceSpec /\ part = "invitations" => Inv!Spec
<1>1. part = "invitations" /\ WorkspaceInit => Inv!Init
  BY DEF WorkspaceInit
<1>2. part = "invitations" /\ [WorkspaceNext]_allVars => (part = "invitations")'
  BY DEF WorkspaceNext, allVars
<1>3. part = "invitations" /\ [WorkspaceNext]_allVars => [Inv!Next]_(Inv!vars)
  <2>1. CASE UNCHANGED allVars
    BY <2>1 DEF allVars, invOwn, Inv!vars, Inv!tables
  <2>2. CASE WorkspaceNext
    BY <2>2 DEF WorkspaceNext, ComponentNext
  <2> QED BY <2>1, <2>2
<1> QED BY <1>1, <1>2, <1>3, PTL DEF WorkspaceSpec, Inv!Spec

\* While another runs, it does not.
LEMMA InvitationsRest ==
  WorkspaceSpec /\ part # "invitations" => [](part # "invitations")
<1>1. part # "invitations" /\ [WorkspaceNext]_allVars => (part # "invitations")'
  BY DEF WorkspaceNext, allVars
<1> QED BY <1>1, PTL DEF WorkspaceSpec

\* While it is the console that runs, a behaviour of the workspace is one of
\* the component's.
LEMMA AccessRuns ==
  WorkspaceSpec /\ part = "access" => Acc!Spec
<1>1. part = "access" /\ WorkspaceInit => Acc!Init
  BY DEF WorkspaceInit
<1>2. part = "access" /\ [WorkspaceNext]_allVars => (part = "access")'
  BY DEF WorkspaceNext, allVars
<1>3. part = "access" /\ [WorkspaceNext]_allVars => [Acc!Next]_(Acc!vars)
  <2>1. CASE UNCHANGED allVars
    BY <2>1 DEF allVars, accOwn, Acc!vars
  <2>2. CASE WorkspaceNext
    BY <2>2 DEF WorkspaceNext, ComponentNext
  <2> QED BY <2>1, <2>2
<1> QED BY <1>1, <1>2, <1>3, PTL DEF WorkspaceSpec, Acc!Spec

\* While another runs, it does not.
LEMMA AccessRests ==
  WorkspaceSpec /\ part # "access" => [](part # "access")
<1>1. part # "access" /\ [WorkspaceNext]_allVars => (part # "access")'
  BY DEF WorkspaceNext, allVars
<1> QED BY <1>1, PTL DEF WorkspaceSpec

\* SeatsAreRight: an acceptance gives one seat, and the seats given and promised
\* stay within the plan.
THEOREM WorkspaceSeatsAreRight ==
  WorkspaceSpec => []SeatsAreRight
<1>1. WorkspaceSpec /\ part = "invitations" => Inv!Spec
  BY InvitationsRun
<1>2. Inv!Spec => [](Inv!SeatGiven /\ Inv!SeatsHold)
  BY InvitationsSeatGiven, InvitationsSeatsHold, PTL
<1>3. WorkspaceSpec /\ part # "invitations" => [](part # "invitations")
  BY InvitationsRest
<1>4. (Inv!SeatGiven /\ Inv!SeatsHold) => SeatsAreRight
  BY DEF SeatsAreRight
<1>5. part # "invitations" => SeatsAreRight
  BY DEF SeatsAreRight
<1>6. part = "invitations" \/ part # "invitations"
  OBVIOUS
<1> QED BY <1>1, <1>2, <1>3, <1>4, <1>5, <1>6, PTL

\* RolesAreKept: somebody can restore access, and the record of a role is a
\* chain that ends at the role.
THEOREM WorkspaceRolesAreKept ==
  WorkspaceSpec => []RolesAreKept
<1>1. WorkspaceSpec /\ part = "access" => Acc!Spec
  BY AccessRuns
<1>2. Acc!Spec => [](Acc!SomeoneCanRestore /\ Acc!RecordIsChain)
  BY ConsoleSomeoneCanRestore, ConsoleRecordIsChain, PTL
<1>3. WorkspaceSpec /\ part # "access" => [](part # "access")
  BY AccessRests
<1>4. (Acc!SomeoneCanRestore /\ Acc!RecordIsChain) => RolesAreKept
  BY DEF RolesAreKept
<1>5. part # "access" => RolesAreKept
  BY DEF RolesAreKept
<1>6. part = "access" \/ part # "access"
  OBVIOUS
<1> QED BY <1>1, <1>2, <1>3, <1>4, <1>5, <1>6, PTL

\* ViewsAreCounted: the log says of every view that it happened, and how many
\* times.
THEOREM WorkspaceViewsAreCounted ==
  WorkspaceSpec => []ViewsAreCounted
<1>1. WorkspaceSpec /\ part = "access" => Acc!Spec
  BY AccessRuns
<1>2. Acc!Spec => []Acc!ViewsAreCounted
  BY ConsoleViewsAreCounted
<1>3. WorkspaceSpec /\ part # "access" => [](part # "access")
  BY AccessRests
<1>4. Acc!ViewsAreCounted => ViewsAreCounted
  BY DEF ViewsAreCounted
<1>5. part # "access" => ViewsAreCounted
  BY DEF ViewsAreCounted
<1>6. part = "access" \/ part # "access"
  OBVIOUS
<1> QED BY <1>1, <1>2, <1>3, <1>4, <1>5, <1>6, PTL

=============================================================================
