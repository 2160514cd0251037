----------------------------- MODULE DeskProofs -----------------------------
(***************************************************************************)
(* Proofs about Desk: an item of the review queue is handed out once,      *)
(* scoped reads show a subject what it owns, and requests and jobs are     *)
(* honoured, for any number of requests, workers, reviewers, items and     *)
(* restarts.                                                               *)
(***************************************************************************)
EXTENDS Desk, FiniteSetTheorems, SequenceTheorems, TLAPS

-----------------------------------------------------------------------------
(* The review queue. *)

\* Reviewer r has taken item i in its UPDATE and has not returned it.
Takes(r, i) == desk[r].item = i /\ desk[r].at \in {"commit_claim", "get"}

\* Reviewer r holds the row of item i.
Writes(r, i) == desk[r].item = i /\ desk[r].at \in Writing

\* What is handed out was handed out once and is no longer offered.
HandInv ==
    \A i \in Item :
        /\ handed[i] <= 1
        /\ status[i] \in {"absent", "pending"} => handed[i] = 0

\* The one who takes an item is alone, and the item was not handed out yet.
TakeInv ==
    \A i \in Item : \A r \in Reviewer : Takes(r, i) =>
        /\ handed[i] = 0
        /\ \A q \in Reviewer : Takes(q, i) => q = r

\* A row has one writer; what it claims is pending until it commits, and no
\* longer pending afterwards.
RowInv ==
    \A i \in Item : \A r \in Reviewer :
        /\ Writes(r, i) => \A q \in Reviewer : Writes(q, i) => q = r
        /\ desk[r].item = i /\ desk[r].at = "commit_claim" => status[i] = "pending"
        /\ desk[r].item = i /\ desk[r].at = "get" => status[i] \in {"claimed", "resolved"}

ClaimInv == ReviewTypeOK /\ HandInv /\ TakeInv /\ RowInv

\* The start of the desk satisfies the invariant.
LEMMA ClaimInit == Init => ClaimInv
<1> SUFFICES ASSUME Init PROVE ClaimInv
    OBVIOUS
<1>1. ReviewInit
    BY DEF Init
<1>2. \A r \in Reviewer : desk[r].at = Idle
    BY <1>1 DEF ReviewInit
<1>3. ReviewTypeOK
    BY <1>1, MaxWorkAssumption DEF ReviewInit, ReviewTypeOK, ReviewStatus
<1>4. HandInv
    BY <1>1 DEF ReviewInit, HandInv
<1>5. TakeInv
    BY <1>2 DEF TakeInv, Takes, Idle
<1>6. RowInv
    BY <1>2 DEF RowInv, Writes, Writing, Idle
<1> QED BY <1>3, <1>4, <1>5, <1>6 DEF ClaimInv

\* A new item touches no reviewer.
LEMMA EscalatedKeepsClaims ==
    ASSUME NEW i \in Item, ClaimInv, Escalated(i)
    PROVE  ClaimInv'
<1>1. ReviewTypeOK'
    BY DEF ClaimInv, ReviewTypeOK, ReviewStatus, Escalated
<1>2. HandInv'
    BY DEF ClaimInv, ReviewTypeOK, HandInv, Escalated
<1>3. TakeInv'
    BY DEF ClaimInv, TakeInv, Takes, Escalated
<1>4. RowInv'
    BY DEF ClaimInv, ReviewTypeOK, RowInv, Writes, Escalated
<1> QED BY <1>1, <1>2, <1>3, <1>4 DEF ClaimInv

\* A call that begins takes nothing yet.
LEMMA BeginKeepsClaims ==
    ASSUME NEW r \in Reviewer, NEW i \in Item, ClaimInv, Begin(r, i)
    PROVE  ClaimInv'
<1>1. PICK call \in {"update", "load"} : desk' = [desk EXCEPT ![r] = [at |-> call, item |-> i]]
    BY DEF Begin
<1>2. ReviewTypeOK'
    BY <1>1, MaxWorkAssumption DEF ClaimInv, ReviewTypeOK, Call, Begin
<1>3. /\ desk'[r].at = call
      /\ \A q \in Reviewer \ {r} : desk'[q] = desk[q]
    BY <1>1 DEF ClaimInv, ReviewTypeOK
<1>4. HandInv'
    BY DEF ClaimInv, HandInv, Begin
<1>5. TakeInv'
    BY <1>3 DEF ClaimInv, TakeInv, Takes, Begin
<1>6. RowInv'
    BY <1>3 DEF ClaimInv, RowInv, Writes, Writing, Begin
<1> QED BY <1>2, <1>4, <1>5, <1>6 DEF ClaimInv

\* The desk after a reviewer has moved to another await.
LEMMA Moves ==
    ASSUME NEW r \in Reviewer, NEW where, ReviewTypeOK, at(r, where)
    PROVE  /\ desk'[r] = [at |-> where, item |-> desk[r].item]
           /\ \A q \in Reviewer \ {r} : desk'[q] = desk[q]
           /\ where \in Call \cup {Idle} =>
                  desk' \in [Reviewer -> [at : Call \cup {Idle}, item : Item]]
BY DEF ReviewTypeOK, at

\* The UPDATE of a claim matches a pending row nobody writes, so nobody is
\* taking it, and it was never handed out.
LEMMA UpdateKeepsClaims ==
    ASSUME NEW r \in Reviewer, ClaimInv, Update(r)
    PROVE  ClaimInv'
<1> DEFINE i == desk[r].item
<1> DEFINE where == IF claimable(i) THEN "commit_claim" ELSE Idle
<1>1. /\ desk'[r] = [at |-> where, item |-> i]
      /\ \A q \in Reviewer \ {r} : desk'[q] = desk[q]
      /\ desk' \in [Reviewer -> [at : Call \cup {Idle}, item : Item]]
      /\ i \in Item
  <2>1. where \in Call \cup {Idle}
    BY DEF Call
  <2>2. at(r, where)
    BY DEF Update
  <2> HIDE DEF where
  <2> QED BY <2>1, <2>2, Moves DEF ClaimInv, ReviewTypeOK
<1>2. UNCHANGED <<status, handed, work>>
    BY DEF Update
<1>3. ReviewTypeOK'
    BY <1>1, <1>2 DEF ClaimInv, ReviewTypeOK
<1>4. HandInv'
    BY <1>2 DEF ClaimInv, HandInv
<1>5. CASE claimable(i)
  <2>1. status[i] = "pending" /\ handed[i] = 0
    BY <1>1, <1>5 DEF claimable, ClaimInv, HandInv
  <2>2. \A q \in Reviewer : ~ Writes(q, i)
    BY <1>5 DEF Update, free, Writes
  <2>3. \A q \in Reviewer : ~ Takes(q, i)
    BY <1>1, <2>1, <2>2 DEF ClaimInv, RowInv, Takes, Writes, Writing
  <2>4. TakeInv'
    BY <1>1, <1>2, <1>5, <2>1, <2>3 DEF ClaimInv, TakeInv, Takes
  <2>5. RowInv'
    BY <1>1, <1>2, <1>5, <2>1, <2>2 DEF ClaimInv, RowInv, Writes, Writing
  <2> QED BY <1>3, <1>4, <2>4, <2>5 DEF ClaimInv
<1>6. CASE ~ claimable(i)
  <2>1. TakeInv'
    BY <1>1, <1>2, <1>6 DEF ClaimInv, TakeInv, Takes, Idle
  <2>2. RowInv'
    BY <1>1, <1>2, <1>6 DEF ClaimInv, RowInv, Writes, Writing, Idle
  <2> QED BY <1>3, <1>4, <2>1, <2>2 DEF ClaimInv
<1> QED BY <1>5, <1>6

\* The writer commits: no other claim of the row is pending, because the row
\* has one writer.
LEMMA CommitKeepsClaims ==
    ASSUME NEW r \in Reviewer, ClaimInv, CommitReview(r)
    PROVE  ClaimInv'
<1> DEFINE i == desk[r].item
<1> DEFINE claiming == desk[r].at = "commit_claim"
<1> DEFINE where == IF claiming THEN "get" ELSE Idle
<1>1. /\ desk'[r] = [at |-> where, item |-> i]
      /\ \A q \in Reviewer \ {r} : desk'[q] = desk[q]
      /\ desk' \in [Reviewer -> [at : Call \cup {Idle}, item : Item]]
      /\ i \in Item
  <2>1. where \in Call \cup {Idle}
    BY DEF Call
  <2>2. at(r, where)
    BY DEF CommitReview
  <2> HIDE DEF where
  <2> QED BY <2>1, <2>2, Moves DEF ClaimInv, ReviewTypeOK
<1>2. /\ status' = [status EXCEPT ![i] = IF claiming THEN "claimed" ELSE "resolved"]
      /\ UNCHANGED <<handed, work>>
      /\ Writes(r, i)
    BY DEF CommitReview, Writes
<1>3. /\ status'[i] \in {"claimed", "resolved"}
      /\ \A k \in Item \ {i} : status'[k] = status[k]
      /\ status' \in [Item -> ReviewStatus \cup {"absent"}]
    BY <1>1, <1>2 DEF ClaimInv, ReviewTypeOK, ReviewStatus
<1>4. \A q \in Reviewer \ {r} : ~ Writes(q, i)
    BY <1>1, <1>2 DEF ClaimInv, RowInv
<1>5. ReviewTypeOK'
    BY <1>1, <1>2, <1>3 DEF ClaimInv, ReviewTypeOK
<1>6. HandInv'
    BY <1>2, <1>3 DEF ClaimInv, HandInv
<1>7. TakeInv'
    BY <1>1, <1>2 DEF ClaimInv, TakeInv, Takes, Writes, Writing, Idle
<1>8. RowInv'
    BY <1>1, <1>3, <1>4 DEF ClaimInv, RowInv, Writes, Writing, Idle
<1> QED BY <1>5, <1>6, <1>7, <1>8 DEF ClaimInv

\* The claim returns: whoever took the item was alone.
LEMMA GetKeepsClaims ==
    ASSUME NEW r \in Reviewer, ClaimInv, GetClaimed(r)
    PROVE  ClaimInv'
<1> DEFINE i == desk[r].item
<1>1. /\ desk'[r] = [at |-> Idle, item |-> i]
      /\ \A q \in Reviewer \ {r} : desk'[q] = desk[q]
      /\ desk' \in [Reviewer -> [at : Call \cup {Idle}, item : Item]]
      /\ i \in Item
    BY Moves DEF GetClaimed, ClaimInv, ReviewTypeOK
<1>2. Takes(r, i)
    BY DEF GetClaimed, Takes
<1>3. /\ handed[i] = 0
      /\ \A q \in Reviewer \ {r} : ~ Takes(q, i)
      /\ status[i] \in {"claimed", "resolved"}
    BY <1>1, <1>2 DEF GetClaimed, ClaimInv, TakeInv, RowInv
<1>4. /\ handed'[i] = 1
      /\ \A k \in Item \ {i} : handed'[k] = handed[k]
      /\ handed' \in [Item -> Nat]
      /\ UNCHANGED <<status, work>>
    BY <1>1, <1>3 DEF GetClaimed, ClaimInv, ReviewTypeOK
<1>5. ReviewTypeOK'
    BY <1>1, <1>4 DEF ClaimInv, ReviewTypeOK
<1>6. HandInv'
    BY <1>3, <1>4 DEF ClaimInv, HandInv
<1>7. TakeInv'
    BY <1>1, <1>3, <1>4 DEF ClaimInv, TakeInv, Takes, Idle
<1>8. RowInv'
    BY <1>1, <1>4 DEF ClaimInv, RowInv, Writes, Writing, Idle
<1> QED BY <1>5, <1>6, <1>7, <1>8 DEF ClaimInv

\* A resolution reads its item, or becomes the writer of a free row.
LEMMA ResolutionKeepsClaims ==
    ASSUME NEW r \in Reviewer, ClaimInv, Load(r) \/ FlushResolution(r)
    PROVE  ClaimInv'
<1> DEFINE i == desk[r].item
<1>1. /\ desk'[r].item = i
      /\ desk'[r].at \in {"flush", "commit_resolution"}
      /\ \A q \in Reviewer \ {r} : desk'[q] = desk[q]
      /\ desk' \in [Reviewer -> [at : Call \cup {Idle}, item : Item]]
      /\ i \in Item
      /\ desk'[r].at = "commit_resolution" => \A q \in Reviewer : ~ Writes(q, i)
  <2>1. ReviewTypeOK /\ i \in Item
    BY DEF ClaimInv, ReviewTypeOK
  <2>2. CASE Load(r)
    <3>1. at(r, "flush") /\ "flush" \in Call
        BY <2>2 DEF Load, Call
    <3>2. desk'[r] = [at |-> "flush", item |-> i]
        BY <2>1, <3>1, Moves
    <3> QED BY <2>1, <3>1, <3>2, Moves
  <2>3. CASE FlushResolution(r)
    <3>1. at(r, "commit_resolution") /\ "commit_resolution" \in Call
        BY <2>3 DEF FlushResolution, Call
    <3>2. desk'[r] = [at |-> "commit_resolution", item |-> i]
        BY <2>1, <3>1, Moves
    <3>3. \A q \in Reviewer : ~ Writes(q, i)
        BY <2>3 DEF FlushResolution, free, Writes
    <3> QED BY <2>1, <3>1, <3>2, <3>3, Moves
  <2> QED BY <2>2, <2>3
<1>2. UNCHANGED <<status, handed, work>>
    BY DEF Load, FlushResolution
<1>3. ReviewTypeOK'
    BY <1>1, <1>2 DEF ClaimInv, ReviewTypeOK
<1>4. HandInv'
    BY <1>2 DEF ClaimInv, HandInv
<1>5. TakeInv'
    BY <1>1, <1>2 DEF ClaimInv, TakeInv, Takes
<1>6. RowInv'
    BY <1>1, <1>2 DEF ClaimInv, RowInv, Writes, Writing
<1> QED BY <1>3, <1>4, <1>5, <1>6 DEF ClaimInv

\* Reviewers that go back to idle, by a fault or with their process, only let
\* go of what they held.
LEMMA LettingGoKeepsClaims ==
    ASSUME ClaimInv,
           UNCHANGED <<status, handed, work>>,
           desk' \in [Reviewer -> [at : Call \cup {Idle}, item : Item]],
           \A r \in Reviewer : desk'[r] = desk[r] \/ desk'[r].at = Idle
    PROVE  ClaimInv'
<1>1. ReviewTypeOK'
    BY DEF ClaimInv, ReviewTypeOK
<1>2. HandInv'
    BY DEF ClaimInv, HandInv
<1>3. TakeInv'
    BY DEF ClaimInv, TakeInv, Takes, Idle
<1>4. RowInv'
    BY DEF ClaimInv, RowInv, Writes, Writing, Idle
<1> QED BY <1>1, <1>2, <1>3, <1>4 DEF ClaimInv

\* Every step of the desk keeps the invariant of the review queue.
LEMMA ClaimStep == ClaimInv /\ [Next]_vars => ClaimInv'
<1> SUFFICES ASSUME ClaimInv, [Next]_vars PROVE ClaimInv'
    OBVIOUS
<1>1. ASSUME UNCHANGED reviewVars PROVE ClaimInv'
  <2>1. UNCHANGED <<status, handed, work>> /\ desk' = desk
    BY <1>1 DEF reviewVars
  <2>2. desk' \in [Reviewer -> [at : Call \cup {Idle}, item : Item]]
    BY <2>1 DEF ClaimInv, ReviewTypeOK
  <2> QED BY <2>1, <2>2, LettingGoKeepsClaims
<1>2. CASE UNCHANGED vars
    BY <1>1, <1>2 DEF vars, reviewVars
<1>3. CASE \E q \in Request : (\E s \in Subject : Arrive(q, s)) \/ Answer(q) \/ Raise(q) \/ RequestFault(q)
    BY <1>1, <1>3 DEF Arrive, Answer, Raise, RequestFault
<1>4. CASE \E t \in Task : Step(t)
    BY <1>1, <1>4 DEF Step
<1>5. CASE \E j \in Jobs : Enqueue(j)
    BY <1>1, <1>5 DEF Enqueue
<1>6. CASE \E w \in Worker : (\E j \in Jobs : Take(w, j)) \/ Complete(w) \/ Reject(w) \/ JobFault(w)
    BY <1>1, <1>6 DEF Take, Complete, Reject, JobFault
<1>7. CASE \E r \in Reviewer : DeskFault(r)
  <2>1. PICK r \in Reviewer : ReviewFault(r)
    BY <1>7 DEF DeskFault
  <2>2. /\ desk'[r].at = Idle
        /\ \A q \in Reviewer \ {r} : desk'[q] = desk[q]
        /\ desk' \in [Reviewer -> [at : Call \cup {Idle}, item : Item]]
    <3>1. ReviewTypeOK /\ at(r, Idle)
        BY <2>1 DEF ReviewFault, ClaimInv
    <3>2. desk'[r] = [at |-> Idle, item |-> desk[r].item]
        BY <3>1, Moves
    <3>3. Idle \in Call \cup {Idle}
        OBVIOUS
    <3> QED BY <3>1, <3>2, <3>3, Moves
  <2> QED BY <2>1, <2>2, LettingGoKeepsClaims DEF ReviewFault
<1>8. CASE \E a \in Authorizers : Restart(a)
  <2>1. /\ desk' = [r \in Reviewer |-> [desk[r] EXCEPT !.at = Idle]]
        /\ UNCHANGED <<status, handed, work>>
    BY <1>8 DEF Restart
  <2>2. /\ \A r \in Reviewer : desk'[r].at = Idle
        /\ desk' \in [Reviewer -> [at : Call \cup {Idle}, item : Item]]
    BY <2>1 DEF ClaimInv, ReviewTypeOK
  <2> QED BY <2>1, <2>2, LettingGoKeepsClaims
<1>9. CASE Review
  <2>1. CASE \E i \in Item : Escalated(i)
    BY <2>1, EscalatedKeepsClaims
  <2>2. CASE \E r \in Reviewer : ReviewStep(r)
    BY <2>2, UpdateKeepsClaims, CommitKeepsClaims, GetKeepsClaims, ResolutionKeepsClaims
       DEF ReviewStep
  <2>3. CASE \E r \in Reviewer, i \in Item : Begin(r, i)
    BY <2>3, BeginKeepsClaims
  <2> QED BY <1>9, <2>1, <2>2, <2>3 DEF Review
<1> QED BY <1>2, <1>3, <1>4, <1>5, <1>6, <1>7, <1>8, <1>9 DEF Next

\* What the invariant says of items is what the property says.
LEMMA ClaimsAreSingle == ClaimInv => HandedOutOnce
<1> SUFFICES ASSUME ClaimInv, NEW i \in Item
             PROVE  LET taking == {r \in Reviewer : desk[r] \in [at : {"commit_claim", "get"}, item : {i}]}
                    IN /\ handed[i] <= 1
                       /\ \A r, q \in taking : r = q
                       /\ taking # {} => handed[i] = 0
                       /\ status[i] \in {"absent", "pending"} => handed[i] = 0
    BY DEF HandedOutOnce
<1> DEFINE taking == {r \in Reviewer : desk[r] \in [at : {"commit_claim", "get"}, item : {i}]}
<1>1. \A r \in taking : r \in Reviewer /\ Takes(r, i)
    BY DEF Takes
<1>2. handed[i] <= 1 /\ (status[i] \in {"absent", "pending"} => handed[i] = 0)
    BY DEF ClaimInv, HandInv
<1> HIDE DEF taking
<1>3. \A r, q \in taking : r = q
    BY <1>1 DEF ClaimInv, TakeInv
<1>4. taking # {} => handed[i] = 0
    BY <1>1 DEF ClaimInv, TakeInv
<1> QED BY <1>2, <1>3, <1>4 DEF taking

\* Reviewers who claim and resolve at the same moment, fail, or lose their
\* process: an item of the queue is given to one of them at most
\* (services/review.py:91-106).
THEOREM ItemsAreHandedOutOnce == Spec => []HandedOutOnce
<1>1. Spec => []ClaimInv
    BY ClaimInit, ClaimStep, PTL DEF Spec
<1> QED BY <1>1, ClaimsAreSingle, PTL

-----------------------------------------------------------------------------
(* Ownership. *)

\* The owner request q stamps on its row, from what it met when it arrived.
Stamp(q) == IF origin[q].under = "subject" THEN origin[q].subject ELSE NoOwner

\* pc, ask and origin are functions, and the values reads are decided by have
\* their types.
OwnTypeInv ==
    /\ pc = [t \in Task |-> pc[t]]
    /\ ask = [t \in Task |-> ask[t]]
    /\ origin = [q \in Request |-> origin[q]]
    /\ \A q \in Request : pc[q] # "idle" => origin[q] \in [subject : Subject, under : Authorizers]
    /\ authorizer \in Authorizers

\* A request under way carries its own stamp, a job none.
AskInv ==
    /\ \A q \in Request : pc[q] # "idle" => ask[q].maker = q /\ ask[q].owner = Stamp(q)
    /\ \A w \in Worker : pc[w] # "idle" => ask[w].maker \in Jobs /\ ask[w].owner = NoOwner

\* Every row carries the stamp of the request that made it, which has arrived
\* and so keeps its stamp, or none when a job made it.
StampInv ==
    \A x \in rows :
        \/ x.maker \in Request /\ pc[x.maker] # "idle" /\ x.owner = Stamp(x.maker)
        \/ x.maker \in Jobs /\ x.owner = NoOwner

OwnInv == OwnTypeInv /\ AskInv /\ StampInv

\* The start of the desk has no rows and nobody at work.
LEMMA OwnInit == Init => OwnInv
<1> SUFFICES ASSUME Init PROVE OwnInv
    OBVIOUS
<1>1. pc = [t \in Task |-> "idle"] /\ ask = [t \in Task |-> Unasked] /\ rows = {}
    BY DEF Init
<1>2. origin = [q \in Request |-> origin[q]] /\ authorizer \in Authorizers
    BY DEF Init
<1>3. \A t \in Request \cup Worker : pc[t] = "idle"
    BY <1>1, DeskAssumption
<1>4. OwnTypeInv
    BY <1>1, <1>2, <1>3 DEF OwnTypeInv
<1> QED BY <1>1, <1>3, <1>4 DEF OwnInv, AskInv, StampInv

\* What every step but an arrival and a dequeue has in common: no task starts,
\* no request starts over, and a row that appears is that of a task at work.
LEMMA SettlingKeepsOwners ==
    ASSUME OwnInv,
           UNCHANGED <<ask, origin>>,
           authorizer' \in Authorizers,
           pc' = [t \in Task |-> pc'[t]],
           \A t \in Task : pc'[t] = "idle" \/ pc[t] # "idle",
           \A q \in Request : pc[q] # "idle" => pc'[q] # "idle",
           \A x \in rows' : x \in rows \/ \E t \in Task : pc[t] # "idle" /\ x = row(t)
    PROVE  OwnInv'
<1>1. OwnTypeInv'
    BY DeskAssumption DEF OwnInv, OwnTypeInv
<1>2. \A q \in Request : Stamp(q)' = Stamp(q)
    BY DEF Stamp
<1>3. AskInv'
    BY <1>2, DeskAssumption DEF OwnInv, AskInv
<1>4. StampInv'
  <2> SUFFICES ASSUME NEW x \in rows'
               PROVE  \/ x.maker \in Request /\ pc'[x.maker] # "idle" /\ x.owner = Stamp(x.maker)'
                      \/ x.maker \in Jobs /\ x.owner = NoOwner
    BY DEF StampInv
  <2>1. CASE x \in rows
    BY <1>2, <2>1 DEF OwnInv, StampInv
  <2>2. CASE \E t \in Task : pc[t] # "idle" /\ x = row(t)
    <3>1. PICK t \in Task : pc[t] # "idle" /\ x = row(t)
        BY <2>2
    <3>2. x.maker = ask[t].maker /\ x.owner = ask[t].owner
        BY <3>1 DEF row
    <3>3. CASE t \in Request
        BY <1>2, <3>1, <3>2, <3>3 DEF OwnInv, AskInv
    <3>4. CASE t \in Worker
        BY <3>1, <3>2, <3>4 DEF OwnInv, AskInv
    <3> QED BY <3>3, <3>4, DeskAssumption
  <2> QED BY <2>1, <2>2
<1> QED BY <1>1, <1>3, <1>4 DEF OwnInv

\* A request arrives: it has no rows yet, and its stamp is the owner of what
\* it will make.
LEMMA ArriveKeepsOwners ==
    ASSUME NEW q \in Request, NEW s \in Subject, OwnInv, Arrive(q, s)
    PROVE  OwnInv'
<1>1. /\ pc[q] = "idle"
      /\ pc' = [pc EXCEPT ![q] = "find"]
      /\ origin' = [origin EXCEPT ![q] = [subject |-> s, under |-> authorizer]]
      /\ UNCHANGED <<rows, authorizer>>
    BY DEF Arrive, to
<1>2. PICK a : ask' = [ask EXCEPT ![q] = a] /\ a.maker = q /\ a.owner = owner_for(s)
  <2>1. PICK kind \in {"ticket", "conversation"}, m \in Mailbox, canonical \in BOOLEAN, fits \in BOOLEAN :
            ask' = [ask EXCEPT ![q] = [kind |-> kind,
                                       address |-> [mailbox |-> m, canonical |-> canonical],
                                       fits |-> fits,
                                       owner |-> owner_for(s),
                                       maker |-> q,
                                       attempt |-> 1]]
    BY DEF Arrive
  <2> DEFINE new == [kind |-> kind,
                     address |-> [mailbox |-> m, canonical |-> canonical],
                     fits |-> fits,
                     owner |-> owner_for(s),
                     maker |-> q,
                     attempt |-> 1]
  <2>2. new.maker = q /\ new.owner = owner_for(s)
    OBVIOUS
  <2>3. ask' = [ask EXCEPT ![q] = new]
    BY <2>1
  <2> HIDE DEF new
  <2> QED BY <2>2, <2>3
<1>3. q \in Task
    BY DeskAssumption
<1>4. /\ pc' = [t \in Task |-> pc'[t]]
      /\ ask' = [t \in Task |-> ask'[t]]
      /\ pc'[q] = "find" /\ ask'[q] = a
      /\ \A t \in Task \ {q} : pc'[t] = pc[t] /\ ask'[t] = ask[t]
    BY <1>1, <1>2, <1>3 DEF OwnInv, OwnTypeInv
<1>5. /\ origin' = [p \in Request |-> origin'[p]]
      /\ origin'[q] = [subject |-> s, under |-> authorizer]
      /\ \A p \in Request \ {q} : origin'[p] = origin[p]
    BY <1>1 DEF OwnInv, OwnTypeInv
<1>6. Stamp(q)' = owner_for(s) /\ \A p \in Request \ {q} : Stamp(p)' = Stamp(p)
    BY <1>5 DEF Stamp, owner_for
<1>7. OwnTypeInv'
    BY <1>1, <1>4, <1>5, DeskAssumption DEF OwnInv, OwnTypeInv
<1>8. AskInv'
  <2>1. \A p \in Request : pc'[p] # "idle" => ask'[p].maker = p /\ ask'[p].owner = Stamp(p)'
    BY <1>2, <1>4, <1>6, DeskAssumption DEF OwnInv, AskInv
  <2>2. \A w \in Worker : w \in Task \ {q}
    BY DeskAssumption
  <2>3. \A w \in Worker : pc'[w] # "idle" => ask'[w].maker \in Jobs /\ ask'[w].owner = NoOwner
    BY <1>4, <2>2 DEF OwnInv, AskInv
  <2> QED BY <2>1, <2>3 DEF AskInv
<1>9. StampInv'
    BY <1>1, <1>4, <1>6, DeskAssumption DEF OwnInv, StampInv
<1> QED BY <1>7, <1>8, <1>9 DEF OwnInv

\* A worker takes a job: the ticket it will make has no owner.
LEMMA TakeKeepsOwners ==
    ASSUME NEW w \in Worker, NEW j \in Jobs, OwnInv, Take(w, j)
    PROVE  OwnInv'
<1>1. /\ pc' = [pc EXCEPT ![w] = "find"]
      /\ UNCHANGED <<rows, authorizer, origin>>
    BY DEF Take, to
<1>2. PICK a : ask' = [ask EXCEPT ![w] = a] /\ a.maker = j /\ a.owner = NoOwner
  <2> DEFINE new == [kind |-> "ticket",
                     address |-> payload[j].address,
                     fits |-> payload[j].fits,
                     owner |-> NoOwner,
                     maker |-> j,
                     attempt |-> jobs[j].attempts + 1]
  <2>1. new.maker = j /\ new.owner = NoOwner
    OBVIOUS
  <2>2. ask' = [ask EXCEPT ![w] = new]
    BY DEF Take
  <2> HIDE DEF new
  <2> QED BY <2>1, <2>2
<1>3. w \in Task /\ w \notin Request
    BY DeskAssumption
<1>4. /\ pc' = [t \in Task |-> pc'[t]]
      /\ ask' = [t \in Task |-> ask'[t]]
      /\ ask'[w] = a
      /\ \A t \in Task \ {w} : pc'[t] = pc[t] /\ ask'[t] = ask[t]
    BY <1>1, <1>2, <1>3 DEF OwnInv, OwnTypeInv
<1>5. \A q \in Request : Stamp(q)' = Stamp(q) /\ q \in Task \ {w}
    BY <1>1, <1>3, DeskAssumption DEF Stamp
<1>6. OwnTypeInv'
    BY <1>1, <1>4, <1>5 DEF OwnInv, OwnTypeInv
<1>7. AskInv'
    BY <1>2, <1>4, <1>5, DeskAssumption DEF OwnInv, AskInv
<1>8. StampInv'
    BY <1>1, <1>4, <1>5 DEF OwnInv, StampInv
<1> QED BY <1>6, <1>7, <1>8 DEF OwnInv

\* What a task at work leaves when it moves on or settles: rows only grow by
\* its own.
LEMMA Settles ==
    ASSUME NEW t \in Task, NEW where, OwnInv,
           UNCHANGED <<ask, origin, authorizer>>,
           to(t, where),
           pc[t] # "idle",
           t \in Request => where # "idle",
           \A x \in rows' : x \in rows \/ x = row(t)
    PROVE  OwnInv'
<1>1. /\ pc' = [u \in Task |-> pc'[u]]
      /\ pc'[t] = where
      /\ \A u \in Task \ {t} : pc'[u] = pc[u]
    BY DEF to, OwnInv, OwnTypeInv
<1>2. \A u \in Task : pc'[u] = "idle" \/ pc[u] # "idle"
    BY <1>1
<1>3. \A q \in Request : pc[q] # "idle" => pc'[q] # "idle"
    BY <1>1, DeskAssumption
<1>4. authorizer' \in Authorizers
    BY DEF OwnInv, OwnTypeInv
<1> QED BY <1>1, <1>2, <1>3, <1>4, SettlingKeepsOwners

\* A commit leaves at most the row of its task; a rollback leaves none.
LEMMA WrittenRows ==
    ASSUME NEW t \in Task
    PROVE  /\ Progress(t) => rows' = rows
           /\ Committed(t) => rows' = rows \cup {row(t)}
           /\ RolledBack(t) => rows' = rows
           /\ Interrupted(t) => pc[t] \in Busy /\ (\A x \in rows' : x \in rows \/ x = row(t))
<1>1. Progress(t) => rows' = rows
    BY DEF Progress, Find, Insert, Refind, Keep, Flush, Publish
<1>2. Committed(t) => rows' = rows \cup {row(t)}
    BY DEF Committed, Publish
<1>3. RolledBack(t) => rows' = rows
    BY DEF RolledBack
<1>4. Interrupted(t) => pc[t] \in Busy /\ (\A x \in rows' : x \in rows \/ x = row(t))
    BY <1>3 DEF Interrupted, Publish, Busy
<1> QED BY <1>1, <1>2, <1>3, <1>4

\* A step of the services moves its task from one await to the next.
LEMMA ProgressMoves ==
    ASSUME NEW t \in Task, Progress(t)
    PROVE  /\ pc[t] # "idle"
           /\ \E where : to(t, where) /\ where # "idle"
           /\ ask' = ask
<1>1. CASE Find(t)
    BY <1>1 DEF Find
<1>2. CASE Insert(t)
    BY <1>2 DEF Insert, created, beaten
<1>3. CASE Refind(t)
    BY <1>3 DEF Refind
<1>4. CASE Keep(t)
    BY <1>4 DEF Keep
<1>5. CASE Flush(t)
    BY <1>5 DEF Flush
<1> QED BY <1>1, <1>2, <1>3, <1>4, <1>5 DEF Progress

\* Every step of the desk keeps the invariant of ownership.
LEMMA OwnStep == OwnInv /\ [Next]_vars => OwnInv'
<1> SUFFICES ASSUME OwnInv, [Next]_vars PROVE OwnInv'
    OBVIOUS
<1>1. ASSUME UNCHANGED <<pc, ask, rows, origin, authorizer>> PROVE OwnInv'
    BY <1>1, SettlingKeepsOwners DEF OwnInv, OwnTypeInv
<1>2. CASE UNCHANGED vars
    BY <1>1, <1>2 DEF vars
<1>3. ASSUME NEW q \in Request, NEW s \in Subject, Arrive(q, s) PROVE OwnInv'
    BY <1>3, ArriveKeepsOwners
<1>4. ASSUME NEW q \in Request, Answer(q) PROVE OwnInv'
  <2>1. q \in Task /\ UNCHANGED <<ask, origin, authorizer>> /\ to(q, "done") /\ Committed(q)
    BY <1>4, DeskAssumption DEF Answer, deskVars
  <2>2. pc[q] # "idle"
    BY <2>1 DEF Committed
  <2>3. \A x \in rows' : x \in rows \/ x = row(q)
    BY <2>1, WrittenRows
  <2> QED BY <2>1, <2>2, <2>3, Settles
<1>5. ASSUME NEW q \in Request, Raise(q) PROVE OwnInv'
  <2>1. q \in Task /\ UNCHANGED <<ask, origin, authorizer>> /\ to(q, "failed") /\ RolledBack(q)
    BY <1>5, DeskAssumption DEF Raise, deskVars
  <2>2. pc[q] # "idle"
    BY <1>5 DEF Raise, Refused
  <2>3. \A x \in rows' : x \in rows \/ x = row(q)
    BY <2>1, WrittenRows
  <2> QED BY <2>1, <2>2, <2>3, Settles
<1>6. ASSUME NEW q \in Request, RequestFault(q) PROVE OwnInv'
  <2>1. q \in Task /\ UNCHANGED <<ask, origin, authorizer>> /\ to(q, "failed") /\ Interrupted(q)
    BY <1>6, DeskAssumption DEF RequestFault
  <2>2. pc[q] # "idle" /\ \A x \in rows' : x \in rows \/ x = row(q)
    BY <2>1, WrittenRows DEF Busy
  <2> QED BY <2>1, <2>2, Settles
<1>7. ASSUME NEW t \in Task, Step(t) PROVE OwnInv'
  <2>1. Progress(t) /\ UNCHANGED <<origin, authorizer>>
    BY <1>7 DEF Step, deskVars
  <2>2. PICK where : to(t, where) /\ where # "idle"
    BY <2>1, ProgressMoves
  <2>3. pc[t] # "idle" /\ ask' = ask /\ \A x \in rows' : x \in rows \/ x = row(t)
    BY <2>1, ProgressMoves, WrittenRows
  <2> QED BY <2>1, <2>2, <2>3, Settles
<1>8. ASSUME NEW j \in Jobs, Enqueue(j) PROVE OwnInv'
    BY <1>1, <1>8 DEF Enqueue, customerVars
<1>9. ASSUME NEW w \in Worker, NEW j \in Jobs, Take(w, j) PROVE OwnInv'
    BY <1>9, TakeKeepsOwners
<1>10. ASSUME NEW w \in Worker, Complete(w) \/ Reject(w) \/ JobFault(w) PROVE OwnInv'
  <2>1. w \in Task /\ w \notin Request /\ UNCHANGED <<ask, origin, authorizer>> /\ to(w, "idle")
    BY <1>10, DeskAssumption DEF Complete, Reject, JobFault, HandlerFails, deskVars
  <2>2. pc[w] # "idle" /\ \A x \in rows' : x \in rows \/ x = row(w)
    <3>1. CASE Complete(w)
        BY <2>1, <3>1, WrittenRows DEF Complete, Committed
    <3>2. CASE Reject(w)
        BY <2>1, <3>2, WrittenRows DEF Reject, Refused, Busy
    <3>3. CASE JobFault(w)
        BY <2>1, <3>3, WrittenRows DEF JobFault, Busy
    <3> QED BY <1>10, <3>1, <3>2, <3>3
  <2> QED BY <2>1, <2>2, Settles
<1>11. ASSUME NEW r \in Reviewer, DeskFault(r) PROVE OwnInv'
    BY <1>1, <1>11 DEF DeskFault, customerVars
<1>12. ASSUME NEW a \in Authorizers, Restart(a) PROVE OwnInv'
  <2>1. /\ pc' = [t \in Task |-> IF pc[t] \notin Busy THEN pc[t]
                                 ELSE IF t \in Worker THEN "idle" ELSE "dropped"]
        /\ authorizer' = a /\ UNCHANGED <<ask, rows, origin>>
    BY <1>12 DEF Restart
  <2>2. \A t \in Task : pc'[t] = "idle" \/ pc[t] # "idle"
    BY <2>1 DEF Busy
  <2>3. \A q \in Request : pc[q] # "idle" => pc'[q] # "idle"
    BY <2>1, DeskAssumption
  <2>4. pc' = [t \in Task |-> pc'[t]]
    BY <2>1
  <2> HIDE <2>1
  <2>5. authorizer' \in Authorizers /\ UNCHANGED <<ask, rows, origin>>
    BY <1>12 DEF Restart
  <2> QED BY <2>2, <2>3, <2>4, <2>5, SettlingKeepsOwners
<1>13. CASE Review
    BY <1>1, <1>13 DEF Review, customerVars, deskVars
<1> QED BY <1>2, <1>3, <1>4, <1>5, <1>6, <1>7, <1>8, <1>9, <1>10, <1>11, <1>12, <1>13 DEF Next

\* A stamp names one subject, or nobody.
LEMMA StampsDecideReads == OwnInv => ReadsAreOwned
<1> SUFFICES ASSUME OwnInv, authorizer = "subject", NEW s \in Subject, NEW x \in rows
             PROVE  /\ readable(x, scope_for(s)) <=> Own(s, x)
                    /\ listed(x, scope_for(s)) <=> x.kind = "ticket" /\ Own(s, x)
                    /\ x.kind = "ticket" => readable(x, tool_scope) /\ listed(x, tool_scope)
    BY DEF ReadsAreOwned
<1>1. scope_for(s) = s /\ s # NoScope /\ s # NoOwner
    BY OwnershipAssumption DEF scope_for
<1>2. /\ readable(x, s) <=> x.owner = s
      /\ listed(x, s) <=> x.kind = "ticket" /\ x.owner = s
    BY <1>1 DEF readable, listed, permits
<1>3. x.owner = s <=> Own(s, x)
  <2>1. CASE x.maker \in Request
    <3>1. /\ origin[x.maker] \in [subject : Subject, under : Authorizers]
          /\ x.owner = Stamp(x.maker)
        BY <2>1, DeskAssumption DEF OwnInv, OwnTypeInv, StampInv
    <3>2. origin[x.maker] = [subject |-> s, under |-> "subject"]
            <=> origin[x.maker].subject = s /\ origin[x.maker].under = "subject"
        BY <3>1
    <3> QED BY <1>1, <2>1, <3>1, <3>2 DEF Stamp, Own
  <2>2. CASE x.maker \notin Request
    BY <1>1, <2>2 DEF OwnInv, StampInv, Own
  <2> QED BY <2>1, <2>2
<1>4. x.kind = "ticket" => readable(x, tool_scope) /\ listed(x, tool_scope)
    BY DEF readable, listed, tool_scope
<1> QED BY <1>1, <1>2, <1>3, <1>4

\* Whatever restarts change the authorizer in between, a read the routes scope
\* shows a subject exactly what it recorded under scoping
\* (auth/authorization.py:36-44, 85-88); the agent's tools, which read with no
\* scope, find every ticket (tools/domain.py:41,86).
THEOREM ScopedReadsAreOwned == Spec => []ReadsAreOwned
<1>1. Spec => []OwnInv
    BY OwnInit, OwnStep, PTL DEF Spec
<1> QED BY <1>1, StampsDecideReads, PTL

-----------------------------------------------------------------------------
(* The queue and who works on it. *)

\* Tasks are at work between the first await and the last.
Working(t) == pc[t] \in Busy

\* The queue offers every job at most once, and only while nobody runs it; a
\* worker at work runs the job its queue says is running, alone, for the
\* payload and the attempt the job has; the queue forgets what is lost.
QueueInv ==
    /\ \A m \in DOMAIN pending : jobs[pending[m]].status = "pending"
    /\ \A m, n \in DOMAIN pending : pending[m] = pending[n] => m = n
    /\ \A w \in Worker : pc[w] \in Busy \cup {"idle"}
    /\ \A w \in Worker : Working(w) =>
           /\ jobs[held[w]].status = "running"
           /\ ask[w].kind = "ticket"
           /\ ask[w].maker = held[w]
           /\ ask[w].attempt = jobs[held[w]].attempts
           /\ ask[w].address = payload[held[w]].address
           /\ ask[w].fits = payload[held[w]].fits
           /\ \A v \in Worker : Working(v) /\ held[v] = held[w] => v = w
    /\ \A j \in lost : jobs[j] = Absent

DeskTypeInv == TypeOK /\ QueueInv

-----------------------------------------------------------------------------
(* What requests and jobs leave behind. *)

\* Addresses are stored as normalise_email leaves them; a task that adds a row
\* has its customer, committed or in its own transaction; a task that lost the
\* race for its customer finds the winner, unless its address is none.
StoreInv ==
    /\ \A c \in customers : c.canonical
    /\ \A t \in Task : \A c \in staged[t] : c.canonical
    /\ \A x \in rows : x.address \in customers
    /\ \A t \in Task :
           /\ pc[t] \in {"flush", "commit"} => email(t) \in customers \cup staged[t]
           /\ pc[t] = "keep" => email(t) \in staged[t]
           /\ pc[t] = "refind" => found(t) \/ ask[t].address.mailbox = Blank

\* A request leaves its row when it is answered and not before.
RequestInv ==
    \A q \in Request :
        /\ pc[q] # "idle" => ask[q].address.mailbox # Blank
        /\ Working(q) => \A x \in rows : x.maker # q
        /\ pc[q] = "done" => {Stored(x) : x \in {y \in rows : y.maker = q}} = {Requested(q)}
        /\ pc[q] = "failed" => q \in struck \/ ~ ask[q].fits

\* The tickets of a job differ in their attempt alone.
TicketInv ==
    /\ \A j \in Jobs : jobs[j].status = "running" => jobs[j].attempts >= 1
    /\ \A j \in Jobs \ lost : \A x \in rows : x.maker = j =>
           /\ x.kind = "ticket" /\ x.owner = NoOwner
           /\ x.address = normalise_email(payload[j].address)
           /\ x.attempt \in 1..jobs[j].attempts

\* Where a session serves one job, each attempt of a job the tables accept is
\* under way, or failed by the database, or the last one.
BlameInv ==
    /\ \A j \in Jobs \ lost : jobs[j] = Absent => blamed[j] = 0
    /\ \A j \in Jobs \ lost :
           jobs[j].status = "succeeded" =>
               \E x \in rows : x.maker = j /\ x.attempt = jobs[j].attempts
    /\ ~ shared =>
           /\ \A w \in Worker : Working(w) => w \notin broken
           /\ \A j \in Jobs \ lost : Acceptable(j) =>
                  /\ jobs[j].status \in {"pending", "failed"} => blamed[j] = jobs[j].attempts
                  /\ jobs[j].status = "running" => blamed[j] = jobs[j].attempts - 1

HonourInv == DeskTypeInv /\ OwnInv /\ StoreInv /\ RequestInv /\ TicketInv /\ BlameInv

-----------------------------------------------------------------------------
(* Types. *)

Places == Busy \cup {"idle", "done", "failed", "dropped"}

\* What a task at work asks for, finds and writes has its type, and the
\* address is spelled as the tables want it.
LEMMA AskTypes ==
    ASSUME CustomersTypeOK, NEW t \in Task, pc[t] # "idle"
    PROVE  /\ ask[t] \in Ask
           /\ email(t) \in Address /\ email(t).canonical
           /\ email(t).mailbox = ask[t].address.mailbox
           /\ email(t) = normalise_email(ask[t].address)
           /\ row(t) \in Row
<1>1. ask[t] \in Ask
  BY DEF CustomersTypeOK
<1>2. ask[t].address \in Address
  BY <1>1 DEF Ask
<1>3. PICK a \in Address : a = ask[t].address
  BY <1>2
<1>4. email(t) \in Address /\ email(t).canonical /\ email(t).mailbox = ask[t].address.mailbox
  <2>1. [a EXCEPT !.canonical = TRUE] \in Address
    BY DEF Address
  <2>2. [a EXCEPT !.canonical = TRUE].canonical
    BY DEF Address
  <2>3. [a EXCEPT !.canonical = TRUE].mailbox = a.mailbox
    BY DEF Address
  <2> QED
    BY <1>3, <2>1, <2>2, <2>3 DEF email, normalise_email
<1>5. row(t) \in Row
  BY <1>1, <1>4 DEF row, Row, Ask
<1> QED
  BY <1>1, <1>4, <1>5 DEF email

\* A step of the services ends at another await.
LEMMA ProgressStays ==
    ASSUME NEW t \in Task, Progress(t)
    PROVE  Working(t) /\ UNCHANGED ask /\ \E where \in Busy : to(t, where)
<1>1. CASE Find(t)
  BY <1>1 DEF Find, Working, Busy
<1>2. CASE Insert(t)
  BY <1>2 DEF Insert, created, beaten, Working, Busy
<1>3. CASE Refind(t)
  BY <1>3 DEF Refind, Working, Busy
<1>4. CASE Keep(t)
  BY <1>4 DEF Keep, Working, Busy
<1>5. CASE Flush(t)
  BY <1>5 DEF Flush, Working, Busy
<1> QED
  BY <1>1, <1>2, <1>3, <1>4, <1>5 DEF Progress

\* What a transaction stages, publishes or drops keeps its type.
LEMMA WritesAreTyped ==
    ASSUME CustomersTypeOK, NEW t \in Task, pc[t] # "idle",
           Progress(t) \/ Committed(t) \/ RolledBack(t) \/ Interrupted(t)
    PROVE  /\ staged' \in [Task -> SUBSET Address]
           /\ customers' \subseteq Address
           /\ rows' \subseteq Row
<1>1. email(t) \in Address /\ row(t) \in Row
  BY AskTypes
<1>2. staged \in [Task -> SUBSET Address] /\ customers \subseteq Address /\ rows \subseteq Row
  BY DEF CustomersTypeOK
<1>3. ASSUME RolledBack(t) \/ UNCHANGED <<staged, customers, rows>>
             \/ Publish(t, {}) \/ Publish(t, {row(t)})
      PROVE  /\ staged' \in [Task -> SUBSET Address]
             /\ customers' \subseteq Address
             /\ rows' \subseteq Row
  BY <1>1, <1>2, <1>3 DEF RolledBack, Publish
<1>4. CASE Progress(t)
  <2>1. CASE Insert(t)
    BY <1>1, <1>2, <2>1 DEF Insert
  <2>2. CASE Find(t) \/ Refind(t) \/ Keep(t) \/ Flush(t)
    BY <1>3, <2>2 DEF Find, Refind, Keep, Flush
  <2> QED
    BY <1>4, <2>1, <2>2 DEF Progress
<1> QED
  BY <1>3, <1>4 DEF Committed, Interrupted

\* A task that does not start anew moves to another place.
LEMMA TaskTypes ==
    ASSUME CustomersTypeOK, NEW t \in Task, pc[t] # "idle", NEW where \in Places,
           to(t, where), UNCHANGED ask,
           Progress(t) \/ Committed(t) \/ RolledBack(t) \/ Interrupted(t)
    PROVE  CustomersTypeOK'
<1>1. /\ staged' \in [Task -> SUBSET Address]
      /\ customers' \subseteq Address
      /\ rows' \subseteq Row
  BY WritesAreTyped
<1>2. pc' \in [Task -> Places]
  BY DEF to, CustomersTypeOK, Places
<1>3. \A u \in Task : pc'[u] # "idle" => ask'[u] \in Ask
  BY DEF to, CustomersTypeOK
<1> QED
  BY <1>1, <1>2, <1>3 DEF CustomersTypeOK, Places

\* The copies a queue makes of a job.
LEMMA Copies ==
    ASSUME NEW x \in Job
    PROVE  /\ running(x) \in Job /\ running(x).status = "running"
           /\ running(x).attempts = x.attempts + 1
           /\ done(x) \in Job /\ done(x).status = "succeeded" /\ done(x).attempts = x.attempts
           /\ dead_letter(x) \in Job /\ dead_letter(x).status = "failed"
           /\ dead_letter(x).attempts = x.attempts
           /\ retry(x) \in Job /\ retry(x).status = "pending" /\ retry(x).attempts = x.attempts
           /\ x # Absent
<1>1. running(x) \in Job /\ running(x).status = "running" /\ running(x).attempts = x.attempts + 1
  <2> DEFINE n == x.attempts + 1
  <2>1. n \in Nat
    BY DEF Job
  <2>2. running(x) = [x EXCEPT !.status = "running", !.attempts = n]
    BY DEF running
  <2> HIDE DEF n
  <2>3. running(x) \in Job /\ running(x).status = "running" /\ running(x).attempts = n
    BY <2>1, <2>2 DEF Job, JobStatus
  <2> QED
    BY <2>3 DEF n
<1>2. done(x) \in Job /\ done(x).status = "succeeded" /\ done(x).attempts = x.attempts
  BY DEF Job, JobStatus, done
<1>3. /\ dead_letter(x) \in Job /\ dead_letter(x).status = "failed"
      /\ dead_letter(x).attempts = x.attempts
  BY DEF Job, JobStatus, dead_letter
<1>4. retry(x) \in Job /\ retry(x).status = "pending" /\ retry(x).attempts = x.attempts
  BY DEF Job, JobStatus, retry
<1>5. x # Absent
  BY DEF Job, JobStatus, Absent
<1> QED
  BY <1>1, <1>2, <1>3, <1>4, <1>5

\* What is under a key: a job, or nothing.
LEMMA Entries ==
    ASSUME QueueTypeOK, NEW j \in Jobs
    PROVE  /\ jobs[j] \in Job \/ (jobs[j] = Absent /\ jobs[j].status = "absent" /\ jobs[j].attempts = 0)
           /\ jobs[j] # Absent => jobs[j] \in Job
           /\ jobs[j].status # "absent" => jobs[j] \in Job
           /\ jobs[j].attempts \in Nat
<1>1. jobs[j] \in Job \cup {Absent}
  BY DEF QueueTypeOK
<1>2. jobs[j] \in Job => jobs[j].attempts \in Nat
  BY DEF Job
<1>3. Absent.status = "absent" /\ Absent.attempts = 0
  BY DEF Absent
<1> QED
  BY <1>1, <1>2, <1>3

\* A job at the back of the queue.
LEMMA AppendedJobs ==
    ASSUME NEW s \in Seq(Jobs), NEW j \in Jobs
    PROVE  /\ Append(s, j) \in Seq(Jobs)
           /\ \A m \in DOMAIN Append(s, j) :
                  \/ m \in DOMAIN s /\ Append(s, j)[m] = s[m]
                  \/ m = Len(s) + 1 /\ Append(s, j)[m] = j
OBVIOUS

\* The queue after its first job has been taken.
LEMMA RemainingJobs ==
    ASSUME NEW s \in Seq(Jobs), s # <<>>
    PROVE  /\ Head(s) \in Jobs /\ 1 \in DOMAIN s /\ Head(s) = s[1]
           /\ Tail(s) \in Seq(Jobs)
           /\ \A m \in DOMAIN Tail(s) :
                  m + 1 \in DOMAIN s /\ m \in Nat /\ m + 1 # 1 /\ Tail(s)[m] = s[m + 1]
OBVIOUS

\* Steps that leave the queue alone and start no worker.
LEMMA QueueFrame ==
    ASSUME QueueInv,
           UNCHANGED <<pending, jobs, payload, held, lost>>,
           \A w \in Worker : /\ pc'[w] \in Busy \cup {"idle"}
                             /\ Working(w)' => Working(w) /\ ask'[w] = ask[w]
    PROVE  QueueInv'
BY DEF QueueInv, Working

\* A worker is done with its job for now: the job leaves the running state,
\* and is in the queue again or is not.
LEMMA QueueSettled ==
    ASSUME DeskTypeInv, NEW w \in Worker, Working(w), to(w, "idle"),
           complete(held[w]) \/ fail(held[w], TRUE),
           UNCHANGED <<ask, payload, held, lost>>
    PROVE  /\ QueueTypeOK'
           /\ QueueInv'
           /\ jobs'[held[w]].attempts = jobs[held[w]].attempts
           /\ jobs'[held[w]] # Absent
           /\ complete(held[w]) => jobs'[held[w]].status = "succeeded"
           /\ fail(held[w], TRUE) => jobs'[held[w]].status \in {"pending", "failed"}
           /\ \A i \in Jobs \ {held[w]} : jobs'[i] = jobs[i]
<1>1. PICK j \in Jobs : j = held[w]
  BY DEF DeskTypeInv, TypeOK
<1>2. /\ QueueTypeOK /\ jobs[j].status = "running"
      /\ \A v \in Worker \ {w} : Working(v) => held[v] # j
  BY <1>1 DEF DeskTypeInv, TypeOK, QueueInv
<1>3. jobs[j] \in Job /\ jobs \in [Jobs -> Job \cup {Absent}] /\ pending \in Seq(Jobs) /\ dead \in Seq(Jobs)
  BY <1>2, Entries DEF QueueTypeOK
<1>4. w \in Task /\ \A v \in Worker : v \in Task
  BY DeskAssumption
<1>5. /\ ~ Working(w)' /\ \A v \in Worker \ {w} : pc'[v] = pc[v]
      /\ pc'[w] = "idle"
  BY <1>4 DEF to, DeskTypeInv, TypeOK, CustomersTypeOK, Working, Busy
<1>6. /\ jobs' \in [Jobs -> Job \cup {Absent}]
      /\ jobs'[j] \in Job
      /\ jobs'[j].attempts = jobs[j].attempts
      /\ complete(j) => jobs'[j].status = "succeeded"
      /\ fail(j, TRUE) => jobs'[j].status \in {"pending", "failed"}
      /\ \A i \in Jobs \ {j} : jobs'[i] = jobs[i]
  <2>1. CASE jobs' = [jobs EXCEPT ![j] = done(@)] /\ ~ fail(j, TRUE)
    BY <1>3, <2>1, Copies
  <2>2. CASE jobs' = [jobs EXCEPT ![j] = dead_letter(@)] /\ fail(j, TRUE)
    <3>1. jobs'[j] = dead_letter(jobs[j])
      BY <1>3, <2>2
    <3>2. ~ complete(j)
      <4>1. complete(j) => jobs'[j] = done(jobs[j])
        BY <1>3 DEF complete
      <4> QED
        BY <1>3, <3>1, <4>1, Copies
    <3> QED
      BY <1>3, <2>2, <3>1, <3>2, Copies
  <2>3. CASE jobs' = [jobs EXCEPT ![j] = retry(@)] /\ fail(j, TRUE)
    <3>1. jobs'[j] = retry(jobs[j])
      BY <1>3, <2>3
    <3>2. ~ complete(j)
      <4>1. complete(j) => jobs'[j] = done(jobs[j])
        BY <1>3 DEF complete
      <4> QED
        BY <1>3, <3>1, <4>1, Copies
    <3> QED
      BY <1>3, <2>3, <3>1, <3>2, Copies
  <2> QED
    BY <1>1, <2>1, <2>2, <2>3 DEF complete, fail
<1>7. \/ pending' = pending
      \/ pending' = Append(pending, j) /\ jobs'[j].status = "pending"
  <2>1. retry(jobs[j]).status = "pending"
    BY <1>3, Copies
  <2> QED
    BY <1>1, <1>3, <2>1 DEF complete, fail
<1>8. dead' \in Seq(Jobs) /\ pending' \in Seq(Jobs)
  <2>1. dead' = dead \/ dead' = Append(dead, j)
    BY <1>1 DEF complete, fail
  <2> QED
    BY <1>3, <1>7, <2>1, AppendedJobs
<1>9. /\ \A m \in DOMAIN pending : pending[m] \in Jobs \ {j} /\ jobs[pending[m]].status = "pending"
      /\ \A m, n \in DOMAIN pending : pending[m] = pending[n] => m = n
  BY <1>2, <1>3 DEF DeskTypeInv, QueueInv
<1>10. /\ \A m \in DOMAIN pending' : jobs'[pending'[m]].status = "pending"
       /\ \A m, n \in DOMAIN pending' : pending'[m] = pending'[n] => m = n
  <2>1. CASE pending' = pending
    BY <1>6, <1>9, <2>1
  <2>2. CASE pending' = Append(pending, j) /\ jobs'[j].status = "pending"
    <3>1. \A m \in DOMAIN pending' : \/ m \in DOMAIN pending /\ pending'[m] = pending[m]
                                     \/ m = Len(pending) + 1 /\ pending'[m] = j
      BY <1>3, <2>2, AppendedJobs
    <3> QED
      BY <1>6, <1>9, <2>2, <3>1
  <2> QED
    BY <1>7, <2>1, <2>2
<1>11. \A v \in Worker : Working(v)' => v # w /\ Working(v) /\ held[v] \in Jobs \ {j}
  BY <1>2, <1>5 DEF Working, DeskTypeInv, TypeOK
<1>12. \A i \in lost : jobs'[i] = Absent
  <2>1. \A i \in lost : i \in Jobs /\ jobs[i] = Absent
    BY DEF DeskTypeInv, TypeOK, QueueInv
  <2>2. jobs[j] # Absent
    BY <1>3, Copies
  <2> QED
    BY <1>6, <2>1, <2>2
<1>13. QueueInv'
  <2>1. \A v \in Worker : pc'[v] \in Busy \cup {"idle"}
    BY <1>5 DEF DeskTypeInv, QueueInv
  <2>2. \A v \in Worker : Working(v)' => jobs'[held'[v]] = jobs[held[v]]
    BY <1>6, <1>11
  <2>3. \A v \in Worker : Working(v)' =>
           /\ jobs[held[v]].status = "running"
           /\ ask[v].kind = "ticket"
           /\ ask[v].maker = held[v]
           /\ ask[v].attempt = jobs[held[v]].attempts
           /\ ask[v].address = payload[held[v]].address
           /\ ask[v].fits = payload[held[v]].fits
           /\ \A u \in Worker : Working(u)' /\ held[u] = held[v] => u = v
    BY <1>11 DEF DeskTypeInv, QueueInv
  <2> QED
    BY <1>10, <1>12, <2>1, <2>2, <2>3 DEF QueueInv
<1>14. jobs'[j] # Absent
  BY <1>6, Copies
<1> QED
  BY <1>1, <1>6, <1>8, <1>13, <1>14 DEF QueueTypeOK

\* A message is queued: nobody runs its job, and the queue did not offer it.
LEMMA Enqueued ==
    ASSUME DeskTypeInv, NEW j \in Jobs, Enqueue(j)
    PROVE  /\ QueueTypeOK' /\ QueueInv'
           /\ payload' \in [Jobs -> [address : Address, fits : BOOLEAN]]
           /\ jobs[j] = Absent /\ j \notin lost
           /\ jobs'[j].status = "pending" /\ jobs'[j].attempts = 0 /\ jobs'[j] # Absent
           /\ \A i \in Jobs \ {j} : jobs'[i] = jobs[i] /\ payload'[i] = payload[i]
<1>1. PICK max_attempts \in 0..MaxAttempts : enqueue(j, max_attempts)
  BY DEF Enqueue
<1>2. /\ j \notin lost /\ jobs[j] = Absent /\ max_attempts \in Nat \ {0}
      /\ jobs' = [jobs EXCEPT ![j] = build_job("runnable", max_attempts)]
      /\ pending' = Append(pending, j) /\ UNCHANGED dead
      /\ UNCHANGED <<pc, ask, held, lost>>
  <2>1. j \notin lost /\ UNCHANGED <<pc, ask, held, lost>>
    BY DEF Enqueue, customerVars
  <2>2. /\ jobs[j] = Absent /\ max_attempts >= 1
        /\ jobs' = [jobs EXCEPT ![j] = build_job("runnable", max_attempts)]
        /\ pending' = Append(pending, j) /\ UNCHANGED dead
    BY <1>1 DEF enqueue, known, acceptable
  <2>3. max_attempts \in Nat \ {0}
    BY <2>2, MaxAttemptsAssumption
  <2> QED
    BY <2>1, <2>2, <2>3
<1>3. /\ build_job("runnable", max_attempts) \in Job
      /\ build_job("runnable", max_attempts).status = "pending"
      /\ build_job("runnable", max_attempts).attempts = 0
  BY <1>2 DEF build_job, Job, JobStatus, Work
<1>4. /\ jobs \in [Jobs -> Job \cup {Absent}] /\ pending \in Seq(Jobs) /\ dead \in Seq(Jobs)
      /\ payload \in [Jobs -> [address : Address, fits : BOOLEAN]]
      /\ held \in [Worker -> Jobs] /\ lost \subseteq Jobs
  BY DEF DeskTypeInv, TypeOK, QueueTypeOK
<1>5. /\ jobs' \in [Jobs -> Job \cup {Absent}] /\ jobs'[j] \in Job
      /\ jobs'[j].status = "pending" /\ jobs'[j].attempts = 0
      /\ \A i \in Jobs \ {j} : jobs'[i] = jobs[i]
  BY <1>2, <1>3, <1>4
<1>6. PICK p \in [address : Address, fits : BOOLEAN] : payload' = [payload EXCEPT ![j] = p]
  <2>1. PICK m \in Mailbox \cup {Blank}, fits \in BOOLEAN :
            payload' = [payload EXCEPT ![j] = [address |-> [mailbox |-> m, canonical |-> TRUE],
                                               fits |-> fits]]
    BY DEF Enqueue
  <2>2. [address |-> [mailbox |-> m, canonical |-> TRUE], fits |-> fits]
            \in [address : Address, fits : BOOLEAN]
    BY DEF Address
  <2> QED
    BY <2>1, <2>2
<1>7. /\ payload' \in [Jobs -> [address : Address, fits : BOOLEAN]]
      /\ \A i \in Jobs \ {j} : payload'[i] = payload[i]
  BY <1>4, <1>6
<1>8. jobs[j].status # "pending" /\ jobs[j].status # "running"
  BY <1>2 DEF Absent
<1>9. /\ \A m \in DOMAIN pending : pending[m] \in Jobs \ {j} /\ jobs[pending[m]].status = "pending"
      /\ \A m, n \in DOMAIN pending : pending[m] = pending[n] => m = n
  BY <1>4, <1>8 DEF DeskTypeInv, QueueInv
<1>10. /\ \A m \in DOMAIN pending' : jobs'[pending'[m]].status = "pending"
       /\ \A m, n \in DOMAIN pending' : pending'[m] = pending'[n] => m = n
       /\ pending' \in Seq(Jobs)
  <2>1. \A m \in DOMAIN pending' : \/ m \in DOMAIN pending /\ pending'[m] = pending[m]
                                   \/ m = Len(pending) + 1 /\ pending'[m] = j
    BY <1>2, <1>4, AppendedJobs
  <2>2. pending' \in Seq(Jobs)
    BY <1>2, <1>4, AppendedJobs
  <2> QED
    BY <1>5, <1>9, <2>1, <2>2
<1>11. \A v \in Worker : Working(v) => held[v] \in Jobs \ {j}
  BY <1>4, <1>8 DEF DeskTypeInv, QueueInv
<1>12. QueueInv'
  <2>1. \A v \in Worker : Working(v)' <=> Working(v)
    BY <1>2 DEF Working
  <2>2. \A v \in Worker : Working(v) =>
            jobs'[held'[v]] = jobs[held[v]] /\ payload'[held'[v]] = payload[held[v]]
    BY <1>2, <1>5, <1>7, <1>11
  <2>3. \A i \in lost' : jobs'[i] = Absent
    BY <1>2, <1>4, <1>5 DEF DeskTypeInv, QueueInv
  <2> QED
    BY <1>2, <1>10, <2>1, <2>2, <2>3 DEF DeskTypeInv, QueueInv
<1> QED
  BY <1>2, <1>4, <1>5, <1>7, <1>10, <1>12, Copies DEF QueueTypeOK

\* A worker takes the first job of the queue.
LEMMA Taken ==
    ASSUME DeskTypeInv, OwnInv, NEW w \in Worker, NEW j \in Jobs, Take(w, j)
    PROVE  /\ QueueTypeOK' /\ QueueInv' /\ CustomersTypeOK'
           /\ held' \in [Worker -> Jobs]
           /\ jobs[j].status = "pending" /\ jobs'[j].status = "running"
           /\ jobs'[j].attempts = jobs[j].attempts + 1
           /\ jobs[j] # Absent /\ jobs'[j] # Absent
           /\ \A i \in Jobs \ {j} : jobs'[i] = jobs[i]
<1>1. /\ pc[w] = "idle" /\ pending # <<>> /\ j = Head(pending)
      /\ jobs' = [jobs EXCEPT ![j] = running(@)]
      /\ pending' = Tail(pending) /\ UNCHANGED dead
      /\ held' = [held EXCEPT ![w] = j]
      /\ pc' = [pc EXCEPT ![w] = "find"]
      /\ UNCHANGED <<staged, customers, rows, payload, lost>>
  BY DEF Take, dequeue, to
<1>2. /\ jobs \in [Jobs -> Job \cup {Absent}] /\ pending \in Seq(Jobs) /\ dead \in Seq(Jobs)
      /\ payload \in [Jobs -> [address : Address, fits : BOOLEAN]]
      /\ held \in [Worker -> Jobs] /\ lost \subseteq Jobs
      /\ pc \in [Task -> Places]
      /\ w \in Task /\ \A v \in Worker : v \in Task
  BY DeskAssumption DEF DeskTypeInv, TypeOK, QueueTypeOK, CustomersTypeOK, Places
<1>3. /\ 1 \in DOMAIN pending /\ j = pending[1] /\ Tail(pending) \in Seq(Jobs)
      /\ \A m \in DOMAIN Tail(pending) :
             m + 1 \in DOMAIN pending /\ m \in Nat /\ m + 1 # 1 /\ Tail(pending)[m] = pending[m + 1]
  BY <1>1, <1>2, RemainingJobs
<1>4. jobs[j].status = "pending"
  BY <1>3 DEF DeskTypeInv, QueueInv
<1>5. jobs[j] \in Job
  BY <1>4, Entries DEF DeskTypeInv, TypeOK
<1>6. /\ jobs' \in [Jobs -> Job \cup {Absent}] /\ jobs'[j] \in Job
      /\ jobs'[j].status = "running" /\ jobs'[j].attempts = jobs[j].attempts + 1
      /\ jobs'[j].attempts \in Nat
      /\ \A i \in Jobs \ {j} : jobs'[i] = jobs[i]
  <2>1. jobs'[j] = running(jobs[j])
    BY <1>1, <1>2
  <2>2. running(jobs[j]) \in Job
    BY <1>5, Copies
  <2>3. jobs'[j].attempts \in Nat
    BY <2>1, <2>2 DEF Job
  <2> QED
    BY <1>1, <1>2, <1>5, <2>1, <2>2, <2>3, Copies
<1>7. /\ held'[w] = j /\ \A v \in Worker \ {w} : held'[v] = held[v]
      /\ held' \in [Worker -> Jobs]
      /\ pc'[w] = "find" /\ \A v \in Task \ {w} : pc'[v] = pc[v]
      /\ pc' \in [Task -> Places]
  BY <1>1, <1>2 DEF Places, Busy
<1> DEFINE new == [kind |-> "ticket",
                   address |-> payload[j].address,
                   fits |-> payload[j].fits,
                   owner |-> NoOwner,
                   maker |-> j,
                   attempt |-> jobs[j].attempts + 1]
<1>8. ask' = [ask EXCEPT ![w] = new]
  BY DEF Take
<1>9. /\ new.kind = "ticket" /\ new.maker = j /\ new.attempt = jobs[j].attempts + 1
      /\ new.address = payload[j].address /\ new.fits = payload[j].fits
  OBVIOUS
<1>10. new \in Ask
  <2>1. payload[j] \in [address : Address, fits : BOOLEAN]
    BY <1>2
  <2>2. payload[j].address \in Address /\ payload[j].fits \in BOOLEAN
    BY <2>1
  <2>3. NoOwner \in Owner /\ j \in Maker
    BY DeskAssumption
  <2>4. jobs[j].attempts + 1 \in Nat
    BY <1>6
  <2> QED
    BY <2>2, <2>3, <2>4 DEF Ask
<1> HIDE DEF new
<1>11. ask'[w] = new /\ \A v \in Task \ {w} : ask'[v] = ask[v]
  BY <1>2, <1>8 DEF OwnInv, OwnTypeInv
<1>12. CustomersTypeOK'
  <2>1. \A t \in Task : pc'[t] # "idle" => ask'[t] \in Ask
    BY <1>2, <1>7, <1>10, <1>11 DEF DeskTypeInv, TypeOK, CustomersTypeOK
  <2> QED
    BY <1>1, <1>7, <2>1 DEF DeskTypeInv, TypeOK, CustomersTypeOK, Places
<1>13. \A v \in Worker \ {w} : Working(v)' =>
          /\ Working(v) /\ held[v] \in Jobs \ {j} /\ held'[v] = held[v] /\ ask'[v] = ask[v]
          /\ jobs'[held[v]] = jobs[held[v]]
  <2>1. \A v \in Worker \ {w} : Working(v)' => Working(v)
    BY <1>2, <1>7 DEF Working
  <2>2. \A v \in Worker : Working(v) => held[v] \in Jobs \ {j}
    BY <1>2, <1>4 DEF DeskTypeInv, QueueInv
  <2> QED
    BY <1>2, <1>6, <1>7, <1>11, <2>1, <2>2
<1>14. QueueInv'
  <2>1. /\ \A m \in DOMAIN pending' : jobs'[pending'[m]].status = "pending"
        /\ \A m, n \in DOMAIN pending' : pending'[m] = pending'[n] => m = n
    <3>1. \A m \in DOMAIN pending : pending[m] \in Jobs /\ jobs[pending[m]].status = "pending"
      BY <1>2 DEF DeskTypeInv, QueueInv
    <3>2. \A m, n \in DOMAIN pending : pending[m] = pending[n] => m = n
      BY DEF DeskTypeInv, QueueInv
    <3>3. \A m \in DOMAIN Tail(pending) : pending[m + 1] # j
      BY <1>3, <3>2
    <3> QED
      BY <1>1, <1>3, <1>6, <3>1, <3>2, <3>3
  <2>2. \A v \in Worker : pc'[v] \in Busy \cup {"idle"}
    BY <1>2, <1>7 DEF DeskTypeInv, QueueInv, Busy
  <2>3. \A i \in lost' : jobs'[i] = Absent
    <3>1. jobs[j] # Absent
      BY <1>5, Copies
    <3> QED
      BY <1>1, <1>2, <1>6, <3>1 DEF DeskTypeInv, QueueInv
  <2>4. ASSUME NEW v \in Worker, Working(v)'
        PROVE  /\ jobs'[held'[v]].status = "running"
               /\ ask'[v].kind = "ticket"
               /\ ask'[v].maker = held'[v]
               /\ ask'[v].attempt = jobs'[held'[v]].attempts
               /\ ask'[v].address = payload'[held'[v]].address
               /\ ask'[v].fits = payload'[held'[v]].fits
               /\ \A u \in Worker : Working(u)' /\ held'[u] = held'[v] => u = v
    <3>1. CASE v = w
      BY <1>1, <1>6, <1>7, <1>9, <1>11, <1>13, <3>1
    <3>2. CASE v # w
      <4>1. Working(v) /\ held'[v] = held[v] /\ held[v] # j /\ ask'[v] = ask[v] /\ jobs'[held[v]] = jobs[held[v]]
        BY <1>13, <2>4, <3>2
      <4>2. \A u \in Worker : Working(u)' /\ held'[u] = held'[v] => u = v
        <5> SUFFICES ASSUME NEW u \in Worker, Working(u)', held'[u] = held'[v] PROVE u = v
          OBVIOUS
        <5>1. u # w
          BY <1>7, <4>1
        <5> QED
          BY <1>13, <4>1, <5>1 DEF DeskTypeInv, QueueInv
      <4> QED
        BY <1>1, <4>1, <4>2 DEF DeskTypeInv, QueueInv
    <3> QED
      BY <3>1, <3>2
  <2> QED
    BY <2>1, <2>2, <2>3, <2>4 DEF QueueInv
<1> QED
  BY <1>1, <1>2, <1>3, <1>4, <1>5, <1>6, <1>7, <1>12, <1>14, Copies DEF QueueTypeOK

\* The part of the types that is the desk's own.
DeskOwnTypeOK ==
    /\ authorizer \in Authorizers
    /\ shift \in Shifts
    /\ payload \in [Jobs -> [address : Address, fits : BOOLEAN]]
    /\ held \in [Worker -> Jobs]
    /\ shared \in BOOLEAN
    /\ broken \subseteq Worker
    /\ origin \in [Request -> [subject : Subject, under : Authorizers]]
    /\ struck \subseteq Request
    /\ blamed \in [Jobs -> Nat]
    /\ lost \subseteq Jobs
    /\ faults \in 0..MaxFaults
    /\ restarts \in 0..MaxRestarts

LEMMA TypesOfTheDesk ==
    TypeOK <=> CustomersTypeOK /\ QueueTypeOK /\ ReviewTypeOK /\ DeskOwnTypeOK
BY DEF TypeOK, DeskOwnTypeOK

\* The desk starts with its types.
LEMMA DeskTypeInit == Init => DeskTypeInv
<1> SUFFICES ASSUME Init PROVE DeskTypeInv
  OBVIOUS
<1>1. CustomersTypeOK
  BY DEF Init, CustomersTypeOK
<1>2. QueueTypeOK
  BY DEF Init, EmptyQueue, QueueTypeOK
<1>3. ReviewTypeOK
  BY ClaimInit DEF ClaimInv
<1>4. DeskOwnTypeOK
  <2>1. (CHOOSE p \in [address : Address, fits : BOOLEAN] : TRUE) \in [address : Address, fits : BOOLEAN]
    <3>1. [address |-> [mailbox |-> Blank, canonical |-> TRUE], fits |-> TRUE]
              \in [address : Address, fits : BOOLEAN]
      BY DEF Address
    <3> QED
      BY <3>1
  <2>2. (CHOOSE j \in Jobs : TRUE) \in Jobs
    BY DeskAssumption
  <2>3. (CHOOSE o \in [subject : Subject, under : Authorizers] : TRUE)
            \in [subject : Subject, under : Authorizers]
    <3>1. PICK s \in Subject : TRUE
      BY DeskAssumption
    <3>2. [subject |-> s, under |-> "open"] \in [subject : Subject, under : Authorizers]
      BY DEF Authorizers
    <3> QED
      BY <3>2
  <2>4. payload \in [Jobs -> [address : Address, fits : BOOLEAN]]
    BY <2>1 DEF Init
  <2>5. held \in [Worker -> Jobs] /\ blamed \in [Jobs -> Nat]
    BY <2>2 DEF Init
  <2>6. origin \in [Request -> [subject : Subject, under : Authorizers]]
    BY <2>3 DEF Init
  <2> QED
    BY <2>4, <2>5, <2>6, DeskAssumption DEF Init, DeskOwnTypeOK
<1>5. QueueInv
  <2>1. \A w \in Worker : pc[w] = "idle"
    BY DeskAssumption DEF Init
  <2>2. pending = <<>> /\ lost = {}
    BY DEF Init, EmptyQueue
  <2> QED
    BY <2>1, <2>2 DEF QueueInv, Working, Busy
<1> QED
  BY <1>1, <1>2, <1>3, <1>4, <1>5, TypesOfTheDesk DEF DeskTypeInv

\* Every step of the desk keeps the types and the queue in order.
LEMMA DeskTypeStep == DeskTypeInv /\ OwnInv /\ ClaimInv /\ [Next]_vars => DeskTypeInv'
<1> SUFFICES ASSUME DeskTypeInv, OwnInv, ClaimInv, [Next]_vars PROVE DeskTypeInv'
  OBVIOUS
<1>0. ReviewTypeOK'
  BY ClaimStep DEF ClaimInv
<1>1. CustomersTypeOK /\ QueueTypeOK /\ DeskOwnTypeOK /\ QueueInv
  BY TypesOfTheDesk DEF DeskTypeInv
<1>2. ASSUME CustomersTypeOK', DeskOwnTypeOK',
             UNCHANGED <<pending, jobs, dead, payload, held, lost>>,
             \A w \in Worker : pc'[w] \in Busy \cup {"idle"} /\ (Working(w)' => Working(w) /\ ask'[w] = ask[w])
      PROVE  DeskTypeInv'
  <2>1. QueueTypeOK' /\ QueueInv'
    BY <1>1, <1>2, QueueFrame DEF QueueTypeOK
  <2> QED
    BY <1>0, <1>2, <2>1 DEF DeskTypeInv, TypeOK, DeskOwnTypeOK
<1>3. \A w \in Worker : w \in Task /\ w \notin Request /\ pc[w] \in Busy \cup {"idle"}
  BY <1>1, DeskAssumption DEF QueueInv
<1>4. \A q \in Request : q \in Task
  BY DeskAssumption
<1>5. CASE UNCHANGED vars
  <2>1. CustomersTypeOK' /\ DeskOwnTypeOK'
    BY <1>1, <1>5 DEF vars, CustomersTypeOK, DeskOwnTypeOK
  <2> QED
    BY <1>2, <1>3, <1>5, <2>1 DEF vars, Working
<1>6. ASSUME NEW q \in Request, NEW s \in Subject, Arrive(q, s) PROVE DeskTypeInv'
  <2>1. /\ pc' = [pc EXCEPT ![q] = "find"]
        /\ origin' = [origin EXCEPT ![q] = [subject |-> s, under |-> authorizer]]
        /\ UNCHANGED <<staged, customers, rows, authorizer, queueVars, shift, payload, held,
                       shared, broken, struck, blamed, lost, faults, restarts>>
    BY <1>6 DEF Arrive, to
  <2>2. PICK kind \in {"ticket", "conversation"}, m \in Mailbox, canonical \in BOOLEAN, fits \in BOOLEAN :
            ask' = [ask EXCEPT ![q] = [kind |-> kind,
                                       address |-> [mailbox |-> m, canonical |-> canonical],
                                       fits |-> fits,
                                       owner |-> owner_for(s),
                                       maker |-> q,
                                       attempt |-> 1]]
    BY <1>6 DEF Arrive
  <2> DEFINE new == [kind |-> kind,
                     address |-> [mailbox |-> m, canonical |-> canonical],
                     fits |-> fits,
                     owner |-> owner_for(s),
                     maker |-> q,
                     attempt |-> 1]
  <2>3. new \in Ask
    <3>1. owner_for(s) \in Owner /\ q \in Maker
      BY DeskAssumption DEF owner_for
    <3>2. [mailbox |-> m, canonical |-> canonical] \in Address
      BY DEF Address
    <3> QED
      BY <3>1, <3>2 DEF Ask
  <2>4. ask' = [ask EXCEPT ![q] = new]
    BY <2>2
  <2> HIDE DEF new
  <2>5. ask'[q] = new /\ \A t \in Task \ {q} : ask'[t] = ask[t]
    BY <1>4, <2>4 DEF OwnInv, OwnTypeInv
  <2>6. /\ pc'[q] = "find" /\ \A t \in Task \ {q} : pc'[t] = pc[t]
        /\ pc' \in [Task -> Busy \cup {"idle", "done", "failed", "dropped"}]
    BY <1>1, <1>4, <2>1 DEF CustomersTypeOK, Busy
  <2>7. CustomersTypeOK'
    <3>1. \A t \in Task : pc'[t] # "idle" => ask'[t] \in Ask
      BY <1>1, <2>3, <2>5, <2>6 DEF CustomersTypeOK
    <3> QED
      BY <1>1, <2>1, <2>6, <3>1 DEF CustomersTypeOK
  <2>8. DeskOwnTypeOK'
    BY <1>1, <2>1 DEF DeskOwnTypeOK
  <2> QED
    BY <1>2, <1>3, <2>1, <2>5, <2>6, <2>7, <2>8 DEF Working, queueVars
<1>7. ASSUME NEW t \in Task, NEW where \in Places, to(t, where), UNCHANGED ask, pc[t] # "idle",
             Progress(t) \/ Committed(t) \/ RolledBack(t) \/ Interrupted(t),
             DeskOwnTypeOK',
             UNCHANGED <<pending, jobs, dead, payload, held, lost>>,
             t \in Worker => where \in Busy
      PROVE  DeskTypeInv'
  <2>1. CustomersTypeOK'
    BY <1>1, <1>7, TaskTypes
  <2>2. pc'[t] = where /\ \A u \in Task \ {t} : pc'[u] = pc[u]
    BY <1>1, <1>7 DEF to, CustomersTypeOK
  <2>3. \A w \in Worker : pc'[w] \in Busy \cup {"idle"} /\ (Working(w)' => Working(w) /\ ask'[w] = ask[w])
    BY <1>3, <1>7, <2>2 DEF Working
  <2> QED
    BY <1>2, <1>7, <2>1, <2>3
<1>8. ASSUME NEW q \in Request, Answer(q) \/ Raise(q) \/ RequestFault(q) PROVE DeskTypeInv'
  <2>1. /\ UNCHANGED ask /\ pc[q] # "idle" /\ UNCHANGED <<pending, jobs, dead, payload, held, lost>>
        /\ Committed(q) \/ RolledBack(q) \/ Interrupted(q)
    BY <1>8 DEF Answer, Raise, RequestFault, Committed, Refused, Interrupted, Busy, queueVars, deskVars
  <2>2. PICK where \in {"done", "failed"} : to(q, where)
    BY <1>8 DEF Answer, Raise, RequestFault
  <2>3. DeskOwnTypeOK'
    BY <1>1, <1>8, DeskAssumption DEF Answer, Raise, RequestFault, Counted, DeskOwnTypeOK, deskVars
  <2> QED
    BY <1>3, <1>4, <1>7, <2>1, <2>2, <2>3 DEF Places
<1>9. ASSUME NEW t \in Task, Step(t) PROVE DeskTypeInv'
  <2>1. Progress(t) /\ UNCHANGED <<authorizer, queueVars, deskVars>>
    BY <1>9 DEF Step
  <2>2. PICK where \in Busy : to(t, where)
    BY <2>1, ProgressStays
  <2>3. UNCHANGED ask /\ pc[t] # "idle"
    BY <2>1, ProgressStays DEF Working, Busy
  <2>4. DeskOwnTypeOK'
    BY <1>1, <2>1 DEF DeskOwnTypeOK, deskVars
  <2> QED
    BY <1>7, <2>1, <2>2, <2>3, <2>4 DEF Places, queueVars, deskVars
<1>10. ASSUME NEW j \in Jobs, Enqueue(j) PROVE DeskTypeInv'
  <2>1. QueueTypeOK' /\ QueueInv' /\ payload' \in [Jobs -> [address : Address, fits : BOOLEAN]]
    BY <1>10, Enqueued
  <2>2. CustomersTypeOK' /\ DeskOwnTypeOK'
    BY <1>1, <1>10, <2>1 DEF Enqueue, customerVars, CustomersTypeOK, DeskOwnTypeOK
  <2> QED
    BY <1>0, <2>1, <2>2 DEF DeskTypeInv, TypeOK, DeskOwnTypeOK
<1>11. ASSUME NEW w \in Worker, NEW j \in Jobs, Take(w, j) PROVE DeskTypeInv'
  <2>1. QueueTypeOK' /\ QueueInv' /\ CustomersTypeOK' /\ held' \in [Worker -> Jobs]
    BY <1>11, Taken
  <2>2. DeskOwnTypeOK'
    BY <1>1, <1>11, <2>1 DEF Take, DeskOwnTypeOK
  <2> QED
    BY <1>0, <2>1, <2>2 DEF DeskTypeInv, TypeOK, DeskOwnTypeOK
<1>12. ASSUME NEW w \in Worker, Complete(w) \/ Reject(w) \/ JobFault(w) PROVE DeskTypeInv'
  <2>1. /\ UNCHANGED <<ask, payload, held, lost>> /\ to(w, "idle")
        /\ complete(held[w]) \/ fail(held[w], TRUE)
        /\ Committed(w) \/ RolledBack(w) \/ Interrupted(w)
    BY <1>12 DEF Complete, Reject, JobFault, HandlerFails, deskVars
  <2>2. Working(w)
    BY <1>12 DEF Complete, Reject, JobFault, Committed, Refused, Interrupted, Working, Busy
  <2>3. QueueTypeOK' /\ QueueInv'
    BY <2>1, <2>2, QueueSettled
  <2>4. CustomersTypeOK'
    BY <1>1, <1>3, <2>1, <2>2, TaskTypes DEF Places, Working, Busy
  <2>5. DeskOwnTypeOK'
    <3>1. CASE Complete(w)
      BY <1>1, <3>1 DEF Complete, DeskOwnTypeOK, deskVars
    <3>2. CASE Reject(w)
      BY <1>1, <3>2 DEF Reject, HandlerFails, DeskOwnTypeOK
    <3>3. CASE JobFault(w)
      BY <1>1, <3>3, DeskAssumption DEF JobFault, HandlerFails, Counted, DeskOwnTypeOK
    <3> QED
      BY <1>12, <3>1, <3>2, <3>3
  <2> QED
    BY <1>0, <2>3, <2>4, <2>5 DEF DeskTypeInv, TypeOK, DeskOwnTypeOK
<1>13. ASSUME NEW r \in Reviewer, DeskFault(r) PROVE DeskTypeInv'
  <2>1. CustomersTypeOK' /\ DeskOwnTypeOK'
    BY <1>1, <1>13, DeskAssumption DEF DeskFault, Counted, customerVars, CustomersTypeOK, DeskOwnTypeOK
  <2> QED
    BY <1>2, <1>3, <1>13, <2>1 DEF DeskFault, Working, customerVars, queueVars
<1>14. ASSUME NEW a \in Authorizers, Restart(a) PROVE DeskTypeInv'
  <2>1. /\ pc' = [t \in Task |-> IF pc[t] \notin Busy THEN pc[t]
                                  ELSE IF t \in Worker THEN "idle" ELSE "dropped"]
        /\ staged' = [t \in Task |-> {}] /\ EmptiedQueue
        /\ lost' = lost \cup {j \in Jobs : known(j)} /\ broken' = {}
        /\ UNCHANGED <<ask, customers, rows, shift, payload, held, shared, origin,
                       struck, blamed, faults>>
        /\ restarts < MaxRestarts /\ restarts' = restarts + 1 /\ authorizer' = a
    BY <1>14 DEF Restart
  <2>2. CustomersTypeOK'
    <3>1. pc' \in [Task -> Busy \cup {"idle", "done", "failed", "dropped"}]
      BY <1>1, <2>1 DEF CustomersTypeOK
    <3>2. \A t \in Task : pc'[t] # "idle" => pc[t] # "idle"
      BY <2>1 DEF Busy
    <3>3. staged' \in [Task -> SUBSET Address]
      BY <2>1
    <3>4. UNCHANGED <<ask, customers, rows>>
      BY <2>1
    <3> QED
      BY <1>1, <3>1, <3>2, <3>3, <3>4 DEF CustomersTypeOK
  <2>3. DeskOwnTypeOK'
    BY <1>1, <2>1, DeskAssumption DEF DeskOwnTypeOK
  <2>4. QueueTypeOK'
    BY <2>1 DEF EmptiedQueue, QueueTypeOK
  <2>5. QueueInv'
    <3>1. \A w \in Worker : pc'[w] = "idle"
      BY <1>3, <2>1
    <3>2. \A j \in lost' : jobs'[j] = Absent
      BY <1>1, <2>1 DEF EmptiedQueue, DeskOwnTypeOK
    <3>3. pending' = <<>>
      BY <2>1 DEF EmptiedQueue
    <3> QED
      BY <3>1, <3>2, <3>3 DEF QueueInv, Working, Busy
  <2> QED
    BY <1>0, <2>2, <2>3, <2>4, <2>5 DEF DeskTypeInv, TypeOK, DeskOwnTypeOK
<1>15. CASE Review
  <2>1. CustomersTypeOK' /\ DeskOwnTypeOK'
    BY <1>1, <1>15 DEF Review, customerVars, deskVars, CustomersTypeOK, DeskOwnTypeOK
  <2> QED
    BY <1>2, <1>3, <1>15, <2>1 DEF Review, Working, customerVars, queueVars, deskVars
<1> QED
  BY <1>5, <1>6, <1>8, <1>9, <1>10, <1>11, <1>12, <1>13, <1>14, <1>15 DEF Next

LEMMA DeskInvariants == Spec => [](DeskTypeInv /\ OwnInv /\ ClaimInv)
BY DeskTypeInit, OwnInit, ClaimInit, DeskTypeStep, OwnStep, ClaimStep, PTL DEF Spec

\* The desk keeps its types: a queue never completes, fails or offers a job it
\* does not hold (jobs/memory.py), and what tasks write has the columns' types.
THEOREM DeskTypeCorrect == Spec => []TypeOK
<1>1. DeskTypeInv => TypeOK
  BY DEF DeskTypeInv
<1> QED
  BY <1>1, DeskInvariants, PTL

-----------------------------------------------------------------------------
(* Customers. *)

\* What a task at work, past its look-ups, can rely on.
LEMMA StoreStarts ==
    ASSUME StoreInv, DeskTypeInv, OwnInv, NEW t \in Task, pc' = [pc EXCEPT ![t] = "find"],
           \A u \in Task \ {t} : ask'[u] = ask[u],
           UNCHANGED <<staged, customers, rows>>
    PROVE  StoreInv'
<1>1. pc'[t] = "find" /\ \A u \in Task \ {t} : pc'[u] = pc[u]
  BY DEF DeskTypeInv, TypeOK, CustomersTypeOK
<1>2. \A u \in Task \ {t} : email(u)' = email(u) /\ (found(u)' <=> found(u))
  BY DEF email, found
<1> QED
  BY <1>1, <1>2 DEF StoreInv

\* A step of a task at work, or its end.
LEMMA StoreStep ==
    ASSUME StoreInv, DeskTypeInv, NEW t \in Task, Working(t), UNCHANGED ask, NEW where, to(t, where),
           \/ Progress(t)
           \/ /\ Committed(t) \/ RolledBack(t) \/ Interrupted(t)
              /\ where \in {"idle", "done", "failed"}
    PROVE  StoreInv'
<1>1. /\ pc \in [Task -> Places] /\ staged \in [Task -> SUBSET Address]
      /\ customers \subseteq Address
  BY DEF DeskTypeInv, TypeOK, CustomersTypeOK, Places
<1>2. pc'[t] = where /\ \A u \in Task \ {t} : pc'[u] = pc[u]
  BY <1>1 DEF to
<1>3. email(t).canonical /\ email(t).mailbox = ask[t].address.mailbox
  BY AskTypes DEF DeskTypeInv, TypeOK, Working, Busy
<1>4. \A u \in Task : email(u)' = email(u)
  BY DEF email
<1>5. ASSUME customers \subseteq customers',
             \A c \in customers' : c.canonical,
             \A u \in Task \ {t} : staged'[u] = staged[u],
             \A c \in staged'[t] : c.canonical,
             \A x \in rows' : x.address \in customers',
             where \in {"flush", "commit"} => email(t) \in customers' \cup staged'[t],
             where = "keep" => email(t) \in staged'[t],
             where = "refind" => email(t) \in customers' \/ ask[t].address.mailbox = Blank
      PROVE  StoreInv'
  <2>1. \A u \in Task \ {t} :
           /\ pc'[u] \in {"flush", "commit"} => email(u) \in customers' \cup staged'[u]
           /\ pc'[u] = "keep" => email(u) \in staged'[u]
           /\ pc'[u] = "refind" => email(u) \in customers' \/ ask[u].address.mailbox = Blank
    BY <1>2, <1>5 DEF StoreInv, found
  <2>2. \A u \in Task : \A c \in staged'[u] : c.canonical
    BY <1>5 DEF StoreInv
  <2> QED
    BY <1>2, <1>4, <1>5, <2>1, <2>2 DEF StoreInv, found
<1>6. CASE Find(t)
  <2>1. where = (IF found(t) THEN "flush" ELSE "insert") /\ UNCHANGED <<staged, customers, rows>>
    BY <1>1, <1>2, <1>6 DEF Find, to
  <2> QED
    BY <1>5, <2>1 DEF StoreInv, found
<1>7. CASE Insert(t)
  <2>1. CASE /\ staged' = [staged EXCEPT ![t] = {email(t)}] /\ to(t, created(t))
             /\ UNCHANGED <<customers, rows>>
    <3>1. where \in {"keep", "flush"}
      BY <1>1, <1>2, <2>1 DEF to, created
    <3>2. staged'[t] = {email(t)} /\ \A u \in Task \ {t} : staged'[u] = staged[u]
      BY <1>1, <2>1
    <3> QED
      BY <1>3, <1>5, <2>1, <3>1, <3>2 DEF StoreInv
  <2>2. CASE /\ ~(legal(email(t)) /\ ~ found(t)) /\ to(t, beaten(t))
             /\ UNCHANGED <<staged, customers, rows>>
    <3>1. where = "refind"
      BY <1>1, <1>2, <2>2 DEF to, beaten
    <3>2. found(t) \/ ask[t].address.mailbox = Blank
      BY <1>3, <2>2 DEF legal
    <3> QED
      BY <1>5, <2>2, <3>1, <3>2 DEF StoreInv, found
  <2> QED
    BY <1>7, <2>1, <2>2 DEF Insert
<1>8. CASE Refind(t)
  <2>1. where = "flush" /\ found(t) /\ UNCHANGED <<staged, customers, rows>>
    BY <1>1, <1>2, <1>8 DEF Refind, to
  <2> QED
    BY <1>5, <2>1 DEF StoreInv, found
<1>9. CASE Flush(t)
  <2>1. where = "commit" /\ pc[t] = "flush" /\ UNCHANGED <<staged, customers, rows>>
    BY <1>1, <1>2, <1>9 DEF Flush, to
  <2> QED
    BY <1>5, <2>1 DEF StoreInv
<1>10. ASSUME NEW written, Publish(t, written), \A x \in written : x.address \in customers \cup staged[t],
              \/ where \in {"idle", "done", "failed"}
              \/ where = "flush" /\ email(t) \in staged[t]
       PROVE  StoreInv'
  <2>1. /\ customers' = customers \cup staged[t] /\ rows' = rows \cup written
        /\ staged'[t] = {} /\ \A u \in Task \ {t} : staged'[u] = staged[u]
    BY <1>1, <1>10 DEF Publish
  <2>2. \A c \in customers' : c.canonical
    BY <2>1 DEF StoreInv
  <2>3. \A x \in rows' : x.address \in customers'
    BY <1>10, <2>1 DEF StoreInv
  <2> QED
    BY <1>5, <1>10, <2>1, <2>2, <2>3
<1>11. CASE Keep(t)
  <2>1. where = "flush" /\ pc[t] = "keep" /\ Publish(t, {})
    BY <1>1, <1>2, <1>11 DEF Keep, to
  <2>2. email(t) \in staged[t]
    BY <2>1 DEF StoreInv
  <2> QED
    BY <1>10, <2>1, <2>2
<1>12. CASE RolledBack(t) /\ where \in {"idle", "done", "failed"}
  <2>1. /\ staged'[t] = {} /\ (\A u \in Task \ {t} : staged'[u] = staged[u])
        /\ UNCHANGED <<customers, rows>>
    BY <1>1, <1>12 DEF RolledBack
  <2> QED
    BY <1>5, <1>12, <2>1 DEF StoreInv
<1>13. CASE Publish(t, {}) /\ where \in {"idle", "done", "failed"}
  BY <1>10, <1>13
<1>14. CASE pc[t] = "commit" /\ Publish(t, {row(t)}) /\ where \in {"idle", "done", "failed"}
  <2>1. email(t) \in customers \cup staged[t]
    BY <1>14 DEF StoreInv
  <2>2. \A x \in {row(t)} : x.address \in customers \cup staged[t]
    BY <2>1 DEF row
  <2> QED
    BY <1>10, <1>14, <2>2
<1> QED
  BY <1>6, <1>7, <1>8, <1>9, <1>11, <1>12, <1>13, <1>14 DEF Progress, Committed, Interrupted

-----------------------------------------------------------------------------
(* Requests. *)

\* Steps that settle no request and leave no row in the name of one.
LEMMA RequestFrame ==
    ASSUME RequestInv, DeskTypeInv,
           \A q \in Request :
               /\ ask'[q] = ask[q]
               /\ \/ pc'[q] = pc[q]
                  \/ Working(q) /\ pc'[q] \in Busy \cup {"dropped"},
           struck \subseteq struck',
           rows \subseteq rows',
           \A x \in rows' : x \in rows \/ x.maker \in Jobs
    PROVE  RequestInv'
<1> SUFFICES ASSUME NEW q \in Request
             PROVE  /\ pc'[q] # "idle" => ask'[q].address.mailbox # Blank
                    /\ Working(q)' => \A x \in rows' : x.maker # q
                    /\ pc'[q] = "done" =>
                           {Stored(x) : x \in {y \in rows' : y.maker = q}} = {Requested(q)'}
                    /\ pc'[q] = "failed" => q \in struck' \/ ~ ask'[q].fits
  BY DEF RequestInv, Stored
<1>1. q \notin Jobs
  BY DeskAssumption
<1>2. Working(q) => pc[q] # "idle" /\ pc[q] # "done" /\ pc[q] # "failed"
  BY DEF Working, Busy
<1>3. pc'[q] \in {"done", "failed", "idle"} => pc'[q] = pc[q]
  BY DEF Busy
<1>4. Working(q)' => Working(q)
  BY DEF Working, Busy
<1>5. {y \in rows' : y.maker = q} = {y \in rows : y.maker = q}
  BY <1>1
<1>6. Requested(q)' = Requested(q)
  BY DEF Requested
<1>7. pc'[q] # "idle" => pc[q] # "idle"
  BY <1>2
<1>8. Working(q)' => \A x \in rows' : x.maker # q
  BY <1>1, <1>4 DEF RequestInv
<1>9. pc'[q] = "done" =>
           {Stored(x) : x \in {y \in rows' : y.maker = q}} = {Requested(q)'}
  BY <1>3, <1>5, <1>6 DEF RequestInv
<1> QED
  BY <1>3, <1>7, <1>8, <1>9 DEF RequestInv

\* A request arrives, with an address, and nothing on record.
LEMMA RequestArrives ==
    ASSUME RequestInv, DeskTypeInv, OwnInv, NEW q \in Request, NEW s \in Subject, Arrive(q, s)
    PROVE  RequestInv'
<1>1. /\ pc[q] = "idle" /\ pc' = [pc EXCEPT ![q] = "find"] /\ UNCHANGED <<rows, struck>>
  BY DEF Arrive, to
<1>2. PICK kind \in {"ticket", "conversation"}, m \in Mailbox, canonical \in BOOLEAN, fits \in BOOLEAN :
            ask' = [ask EXCEPT ![q] = [kind |-> kind,
                                       address |-> [mailbox |-> m, canonical |-> canonical],
                                       fits |-> fits,
                                       owner |-> owner_for(s),
                                       maker |-> q,
                                       attempt |-> 1]]
  BY DEF Arrive
<1>3. \A p \in Request : p \in Task
  BY DeskAssumption
<1> DEFINE new == [kind |-> kind,
                   address |-> [mailbox |-> m, canonical |-> canonical],
                   fits |-> fits,
                   owner |-> owner_for(s),
                   maker |-> q,
                   attempt |-> 1]
<1>4. new.address.mailbox # Blank
  BY BlankAssumption
<1>5. ask' = [ask EXCEPT ![q] = new]
  BY <1>2
<1> HIDE DEF new
<1>6. /\ ask'[q] = new /\ \A p \in Request \ {q} : ask'[p] = ask[p]
      /\ pc'[q] = "find" /\ \A p \in Request \ {q} : pc'[p] = pc[p]
  BY <1>1, <1>3, <1>5 DEF OwnInv, OwnTypeInv
<1>7. \A x \in rows : x.maker # q
  BY <1>1, DeskAssumption DEF OwnInv, StampInv
<1>8. \A p \in Request \ {q} : Requested(p)' = Requested(p)
  BY <1>6 DEF Requested
<1> SUFFICES ASSUME NEW p \in Request
             PROVE  /\ pc'[p] # "idle" => ask'[p].address.mailbox # Blank
                    /\ Working(p)' => \A x \in rows' : x.maker # p
                    /\ pc'[p] = "done" =>
                           {Stored(x) : x \in {y \in rows' : y.maker = p}} = {Requested(p)'}
                    /\ pc'[p] = "failed" => p \in struck' \/ ~ ask'[p].fits
  BY DEF RequestInv, Stored
<1>9. CASE p = q
  BY <1>1, <1>4, <1>6, <1>7, <1>9
<1>10. CASE p # q
  <2>1. p \in Request \ {q} /\ rows' = rows /\ struck' = struck
    BY <1>1, <1>10
  <2>2. pc'[p] = pc[p] /\ ask'[p] = ask[p] /\ Requested(p)' = Requested(p)
    BY <1>6, <1>8, <2>1
  <2> QED
    BY <2>1, <2>2 DEF RequestInv, Working
<1> QED
  BY <1>9, <1>10

\* A request that ends: answered, with its row, or failed, and why.
LEMMA RequestEnds ==
    ASSUME RequestInv, DeskTypeInv, OwnInv, NEW q \in Request, Working(q), UNCHANGED ask,
           \/ to(q, "done") /\ rows' = rows \cup {row(q)}
           \/ /\ to(q, "failed") /\ rows \subseteq rows' /\ (\A x \in rows' : x \in rows \/ x = row(q))
              /\ q \in struck' \/ ~ ask[q].fits,
           struck \subseteq struck'
    PROVE  RequestInv'
<1>1. \A p \in Request : p \in Task
  BY DeskAssumption
<1>2. pc'[q] \in {"done", "failed"} /\ \A p \in Request \ {q} : pc'[p] = pc[p]
  BY <1>1 DEF to, OwnInv, OwnTypeInv
<1>3. pc[q] # "idle" /\ ask[q].maker = q
  BY DEF Working, Busy, OwnInv, AskInv
<1>4. /\ row(q).maker = q /\ row(q).kind = ask[q].kind /\ row(q).owner = ask[q].owner
  BY <1>3 DEF row
<1>5. /\ rows \subseteq rows' /\ \A x \in rows' : x \in rows \/ x = row(q)
      /\ \A x \in rows : x.maker # q
  BY DEF RequestInv
<1>6. \A p \in Request : Requested(p)' = Requested(p)
  BY DEF Requested
<1> SUFFICES ASSUME NEW p \in Request
             PROVE  /\ pc'[p] # "idle" => ask'[p].address.mailbox # Blank
                    /\ Working(p)' => \A x \in rows' : x.maker # p
                    /\ pc'[p] = "done" =>
                           {Stored(x) : x \in {y \in rows' : y.maker = p}} = {Requested(p)'}
                    /\ pc'[p] = "failed" => p \in struck' \/ ~ ask'[p].fits
  BY DEF RequestInv, Stored
<1>7. CASE p # q
  <2>1. {y \in rows' : y.maker = p} = {y \in rows : y.maker = p}
    BY <1>4, <1>5, <1>7
  <2>2. pc'[p] = pc[p] /\ Requested(p)' = Requested(p)
    BY <1>2, <1>6, <1>7
  <2>3. \A x \in rows' : x.maker = p => x \in rows
    BY <1>4, <1>5, <1>7
  <2> QED
    BY <2>1, <2>2, <2>3 DEF RequestInv, Working
<1>8. CASE p = q
  <2>1. ask[q].address.mailbox # Blank
    BY <1>3 DEF RequestInv
  <2>2. ~ Working(q)'
    BY <1>2 DEF Working, Busy
  <2>3. pc'[q] = "failed" => q \in struck' \/ ~ ask[q].fits
    BY <1>1 DEF to, OwnInv, OwnTypeInv
  <2>4. ASSUME pc'[q] = "done"
        PROVE  {Stored(x) : x \in {y \in rows' : y.maker = q}} = {Requested(q)}
    <3>1. rows' = rows \cup {row(q)}
      BY <1>1, <2>4 DEF to, OwnInv, OwnTypeInv
    <3>2. {y \in rows' : y.maker = q} = {row(q)}
      BY <1>4, <1>5, <3>1
    <3>3. Stored(row(q)) = Requested(q)
      BY <1>4 DEF Stored, Requested, row
    <3> QED
      BY <3>2, <3>3
  <2> QED
    BY <1>6, <1>8, <2>1, <2>2, <2>3, <2>4
<1> QED
  BY <1>7, <1>8

-----------------------------------------------------------------------------
(* Jobs. *)

\* Steps after which a job has no fewer attempts and the payload it had, if it
\* has tickets, and which record no ticket but that of a worker at work.
LEMMA TicketFrame ==
    ASSUME TicketInv, DeskTypeInv, OwnInv,
           \A j \in Jobs : jobs'[j].attempts \in Nat,
           \A j \in Jobs : jobs'[j].status = "running" => jobs'[j].attempts >= 1,
           lost \subseteq lost',
           \A j \in Jobs \ lost' :
               \/ payload'[j] = payload[j] /\ jobs[j].attempts <= jobs'[j].attempts
               \/ jobs[j] = Absent /\ \A x \in rows' : x \in rows,
           \A x \in rows' : \/ x \in rows \/ x.maker \in Request
                            \/ \E w \in Worker : Working(w) /\ x = row(w)
    PROVE  TicketInv'
<1>1. SUFFICES ASSUME NEW j \in Jobs \ lost', NEW x \in rows', x.maker = j
               PROVE  /\ x.kind = "ticket" /\ x.owner = NoOwner
                      /\ x.address = normalise_email(payload'[j].address)
                      /\ x.attempt \in 1..jobs'[j].attempts
  BY DEF TicketInv, normalise_email
<1>2. j \in Jobs \ lost /\ jobs[j].attempts \in Nat /\ jobs'[j].attempts \in Nat
  BY Entries DEF DeskTypeInv, TypeOK
<1>3. ASSUME x \in rows
      PROVE  /\ x.kind = "ticket" /\ x.owner = NoOwner
             /\ x.address = normalise_email(payload[j].address)
             /\ x.attempt \in 1..jobs[j].attempts
  BY <1>1, <1>2, <1>3 DEF TicketInv
<1>4. CASE jobs[j] = Absent /\ x \in rows
  <2>1. jobs[j].attempts = 0
    BY <1>4 DEF Absent
  <2> QED
    BY <1>3, <1>4, <2>1
<1>5. CASE payload'[j] = payload[j] /\ jobs[j].attempts <= jobs'[j].attempts
  <2>1. CASE x \in rows
    <3>1. x.attempt \in 1..jobs[j].attempts
      BY <1>3, <2>1
    <3> QED
      BY <1>2, <1>3, <1>5, <2>1, <3>1
  <2>2. CASE x.maker \in Request
    BY <1>1, <2>2, DeskAssumption
  <2>3. CASE \E w \in Worker : Working(w) /\ x = row(w)
    <3>1. PICK w \in Worker : Working(w) /\ x = row(w)
      BY <2>3
    <3>2. /\ jobs[held[w]].status = "running" /\ ask[w].kind = "ticket" /\ ask[w].maker = held[w]
          /\ ask[w].attempt = jobs[held[w]].attempts
          /\ ask[w].address = payload[held[w]].address
          /\ ask[w].owner = NoOwner
      BY <3>1 DEF DeskTypeInv, QueueInv, OwnInv, AskInv, Working, Busy
    <3>3. /\ x.kind = ask[w].kind /\ x.owner = ask[w].owner /\ x.maker = ask[w].maker
          /\ x.address = normalise_email(ask[w].address) /\ x.attempt = ask[w].attempt
      BY <3>1 DEF row, email
    <3>4. held[w] = j
      BY <1>1, <3>2, <3>3
    <3>5. jobs[j].attempts >= 1
      BY <3>2, <3>4 DEF TicketInv
    <3> QED
      BY <1>2, <1>5, <3>2, <3>3, <3>4, <3>5
  <2> QED
    BY <1>5, <2>1, <2>2, <2>3
<1> QED
  BY <1>1, <1>4, <1>5

\* The same where the queue is left alone.
LEMMA TicketStays ==
    ASSUME TicketInv, DeskTypeInv, OwnInv, UNCHANGED <<jobs, payload, lost>>,
           \A x \in rows' : \/ x \in rows \/ x.maker \in Request
                            \/ \E w \in Worker : Working(w) /\ x = row(w)
    PROVE  TicketInv'
<1>1. \A j \in Jobs : jobs[j].attempts \in Nat
  BY Entries DEF DeskTypeInv, TypeOK
<1>2. \A j \in Jobs : jobs[j].status = "running" => jobs[j].attempts >= 1
  BY DEF TicketInv
<1> QED
  BY <1>1, <1>2, TicketFrame

\* A step in which no job moves.
LEMMA BlameFrame ==
    ASSUME BlameInv, UNCHANGED <<jobs, payload, blamed, lost, shared, broken>>,
           rows \subseteq rows',
           \A w \in Worker : Working(w)' => Working(w)
    PROVE  BlameInv'
<1>1. \A j \in Jobs : Acceptable(j)' <=> Acceptable(j)
  BY DEF Acceptable
<1> QED
  BY <1>1 DEF BlameInv

\* A message is queued.
LEMMA BlameEnqueued ==
    ASSUME BlameInv, DeskTypeInv, NEW j \in Jobs, Enqueue(j)
    PROVE  BlameInv'
<1>1. /\ jobs[j] = Absent /\ j \notin lost
      /\ jobs'[j].status = "pending" /\ jobs'[j].attempts = 0 /\ jobs'[j] # Absent
      /\ \A i \in Jobs \ {j} : jobs'[i] = jobs[i] /\ payload'[i] = payload[i]
  BY Enqueued
<1>2. UNCHANGED <<pc, rows, shared, broken, blamed, lost>>
  BY DEF Enqueue, customerVars
<1>3. blamed[j] = 0
  BY <1>1 DEF BlameInv
<1>4. \A i \in Jobs \ {j} : Acceptable(i)' <=> Acceptable(i)
  BY <1>1 DEF Acceptable
<1>5. \A i \in Jobs \ lost' : jobs'[i] = Absent => blamed'[i] = 0
  BY <1>1, <1>2 DEF BlameInv
<1>6. \A i \in Jobs \ lost' : jobs'[i].status = "succeeded" =>
               \E x \in rows' : x.maker = i /\ x.attempt = jobs'[i].attempts
  BY <1>1, <1>2 DEF BlameInv
<1>7. ASSUME ~ shared'
      PROVE  /\ \A w \in Worker : Working(w)' => w \notin broken'
             /\ \A i \in Jobs \ lost' : Acceptable(i)' =>
                  /\ jobs'[i].status \in {"pending", "failed"} => blamed'[i] = jobs'[i].attempts
                  /\ jobs'[i].status = "running" => blamed'[i] = jobs'[i].attempts - 1
  <2>1. ~ shared
    BY <1>2, <1>7
  <2>2. \A w \in Worker : Working(w)' => w \notin broken'
    BY <1>2, <2>1 DEF BlameInv, Working
  <2>3. ASSUME NEW i \in Jobs \ lost', Acceptable(i)'
        PROVE  /\ jobs'[i].status \in {"pending", "failed"} => blamed'[i] = jobs'[i].attempts
               /\ jobs'[i].status = "running" => blamed'[i] = jobs'[i].attempts - 1
    <3>1. CASE i = j
      BY <1>1, <1>2, <1>3, <3>1
    <3>2. CASE i # j
      <4>1. Acceptable(i) /\ jobs'[i] = jobs[i] /\ blamed'[i] = blamed[i] /\ i \in Jobs \ lost
        BY <1>1, <1>2, <1>4, <2>3, <3>2
      <4> QED
        BY <2>1, <4>1 DEF BlameInv
    <3> QED
      BY <3>1, <3>2
  <2> QED
    BY <2>2, <2>3
<1> QED
  BY <1>5, <1>6, <1>7 DEF BlameInv

\* An attempt begins, over a session of its own unless sessions are shared.
LEMMA BlameTaken ==
    ASSUME BlameInv, DeskTypeInv, OwnInv, NEW w \in Worker, NEW j \in Jobs, Take(w, j)
    PROVE  BlameInv'
<1>1. /\ jobs[j].status = "pending" /\ jobs'[j].status = "running"
      /\ jobs'[j].attempts = jobs[j].attempts + 1
      /\ jobs'[j] # Absent
      /\ \A i \in Jobs \ {j} : jobs'[i] = jobs[i]
  BY Taken
<1>2. /\ UNCHANGED <<rows, payload, shared, blamed, lost>>
      /\ broken' = IF shared THEN broken ELSE broken \ {w}
      /\ pc' = [pc EXCEPT ![w] = "find"]
  BY DEF Take, to
<1>3. \A v \in Worker \ {w} : pc'[v] = pc[v]
  BY <1>2, DeskAssumption DEF DeskTypeInv, TypeOK, CustomersTypeOK
<1>4. \A i \in Jobs : Acceptable(i)' <=> Acceptable(i)
  BY <1>2 DEF Acceptable
<1>5. jobs[j].attempts \in Nat
  BY Entries DEF DeskTypeInv, TypeOK
<1>6. \A i \in Jobs \ lost' : jobs'[i] = Absent => blamed'[i] = 0
  BY <1>1, <1>2 DEF BlameInv
<1>7. \A i \in Jobs \ lost' : jobs'[i].status = "succeeded" =>
               \E x \in rows' : x.maker = i /\ x.attempt = jobs'[i].attempts
  BY <1>1, <1>2 DEF BlameInv
<1>8. ASSUME ~ shared'
      PROVE  /\ \A v \in Worker : Working(v)' => v \notin broken'
             /\ \A i \in Jobs \ lost' : Acceptable(i)' =>
                  /\ jobs'[i].status \in {"pending", "failed"} => blamed'[i] = jobs'[i].attempts
                  /\ jobs'[i].status = "running" => blamed'[i] = jobs'[i].attempts - 1
  <2>1. ~ shared
    BY <1>2, <1>8
  <2>2. \A v \in Worker : Working(v)' => v \notin broken'
    BY <1>2, <1>3, <2>1 DEF BlameInv, Working
  <2>3. ASSUME NEW i \in Jobs \ lost', Acceptable(i)'
        PROVE  /\ jobs'[i].status \in {"pending", "failed"} => blamed'[i] = jobs'[i].attempts
               /\ jobs'[i].status = "running" => blamed'[i] = jobs'[i].attempts - 1
    <3>1. Acceptable(i) /\ blamed'[i] = blamed[i] /\ i \in Jobs \ lost
      BY <1>2, <1>4, <2>3
    <3>2. CASE i = j
      <4>1. blamed[j] = jobs[j].attempts
        BY <1>1, <2>1, <3>1, <3>2 DEF BlameInv
      <4> QED
        BY <1>1, <1>5, <3>1, <3>2, <4>1
    <3>3. CASE i # j
      BY <1>1, <2>1, <3>1, <3>3 DEF BlameInv
    <3> QED
      BY <3>2, <3>3
  <2> QED
    BY <2>2, <2>3
<1> QED
  BY <1>6, <1>7, <1>8 DEF BlameInv

\* An attempt ends: with its ticket, or refused by the tables, or failed by
\* the database.
LEMMA BlameSettled ==
    ASSUME BlameInv, DeskTypeInv, NEW w \in Worker, Working(w), to(w, "idle"),
           UNCHANGED <<ask, payload, held, lost, shared>>, rows \subseteq rows',
           \/ /\ complete(held[w]) /\ row(w) \in rows' /\ UNCHANGED <<blamed, broken>>
           \/ /\ fail(held[w], TRUE) /\ UNCHANGED blamed
              /\ w \in broken \/ ~ Acceptable(held[w])
              /\ broken' = broken \cup {w}
           \/ /\ fail(held[w], TRUE) /\ blamed' = [blamed EXCEPT ![held[w]] = @ + 1]
              /\ broken' = broken \cup {w}
    PROVE  BlameInv'
<1>1. PICK j \in Jobs : j = held[w]
  BY DEF DeskTypeInv, TypeOK
<1>2. /\ jobs'[j].attempts = jobs[j].attempts
      /\ jobs'[j] # Absent
      /\ complete(j) => jobs'[j].status = "succeeded"
      /\ fail(j, TRUE) => jobs'[j].status \in {"pending", "failed"}
      /\ \A i \in Jobs \ {j} : jobs'[i] = jobs[i]
  BY <1>1, QueueSettled
<1>3. jobs[j].status = "running" /\ jobs[j].attempts \in Nat /\ blamed \in [Jobs -> Nat]
  BY <1>1, Entries DEF DeskTypeInv, TypeOK, QueueInv
<1>4. \A i \in Jobs : Acceptable(i)' <=> Acceptable(i)
  BY DEF Acceptable
<1>5. \A i \in Jobs \ {j} : blamed'[i] = blamed[i]
  BY <1>1, <1>3
<1>6. \A i \in Jobs \ lost' : jobs'[i] = Absent => blamed'[i] = 0
  BY <1>2, <1>5 DEF BlameInv
<1>7. \A i \in Jobs \ lost' : jobs'[i].status = "succeeded" =>
               \E x \in rows' : x.maker = i /\ x.attempt = jobs'[i].attempts
  <2> SUFFICES ASSUME NEW i \in Jobs \ lost', jobs'[i].status = "succeeded"
               PROVE  \E x \in rows' : x.maker = i /\ x.attempt = jobs'[i].attempts
    OBVIOUS
  <2>1. CASE i # j
    BY <1>2, <2>1 DEF BlameInv
  <2>2. CASE i = j
    <3>1. row(w) \in rows'
      BY <1>1, <1>2, <2>2
    <3>2. row(w).maker = j /\ row(w).attempt = jobs[j].attempts
      BY <1>1 DEF row, DeskTypeInv, QueueInv
    <3> QED
      BY <1>2, <2>2, <3>1, <3>2
  <2> QED
    BY <2>1, <2>2
<1>8. ASSUME ~ shared'
      PROVE  /\ \A v \in Worker : Working(v)' => v \notin broken'
             /\ \A i \in Jobs \ lost' : Acceptable(i)' =>
                  /\ jobs'[i].status \in {"pending", "failed"} => blamed'[i] = jobs'[i].attempts
                  /\ jobs'[i].status = "running" => blamed'[i] = jobs'[i].attempts - 1
  <2>1. ~ shared
    BY <1>8
  <2>2. /\ ~ Working(w)'
        /\ \A v \in Worker \ {w} : Working(v)' => Working(v)
    BY DeskAssumption DEF to, Working, Busy, DeskTypeInv, TypeOK, CustomersTypeOK
  <2>3. \A v \in Worker : Working(v)' => v \notin broken'
    BY <2>1, <2>2 DEF BlameInv
  <2>4. ASSUME NEW i \in Jobs \ lost', Acceptable(i)'
        PROVE  /\ jobs'[i].status \in {"pending", "failed"} => blamed'[i] = jobs'[i].attempts
               /\ jobs'[i].status = "running" => blamed'[i] = jobs'[i].attempts - 1
    <3>1. Acceptable(i) /\ i \in Jobs \ lost
      BY <1>4, <2>4
    <3>2. CASE i # j
      BY <1>2, <1>5, <2>1, <3>1, <3>2 DEF BlameInv
    <3>3. CASE i = j
      <4>1. blamed[j] = jobs[j].attempts - 1 /\ w \notin broken
        BY <1>3, <2>1, <3>1, <3>3 DEF BlameInv
      <4>2. CASE complete(j)
        BY <1>2, <3>3, <4>2
      <4>3. CASE blamed' = [blamed EXCEPT ![j] = @ + 1] /\ fail(j, TRUE)
        BY <1>2, <1>3, <3>3, <4>1, <4>3
      <4> QED
        BY <1>1, <3>1, <3>3, <4>1, <4>2, <4>3
    <3> QED
      BY <3>2, <3>3
  <2> QED
    BY <2>3, <2>4
<1> QED
  BY <1>6, <1>7, <1>8 DEF BlameInv

-----------------------------------------------------------------------------
(* Requests and jobs together. *)

LEMMA HonourInit == Init => StoreInv /\ RequestInv /\ TicketInv /\ BlameInv
<1> SUFFICES ASSUME Init PROVE StoreInv /\ RequestInv /\ TicketInv /\ BlameInv
  OBVIOUS
<1>1. /\ customers = {} /\ rows = {} /\ \A t \in Task : pc[t] = "idle" /\ staged[t] = {}
      /\ jobs = [j \in Jobs |-> Absent] /\ blamed = [j \in Jobs |-> 0] /\ broken = {}
  BY DEF Init, EmptyQueue
<1>2. StoreInv
  BY <1>1 DEF StoreInv
<1>3. RequestInv
  BY <1>1, DeskAssumption DEF RequestInv, Working, Busy
<1>4. \A j \in Jobs : jobs[j].status = "absent"
  BY <1>1 DEF Absent
<1>5. TicketInv
  BY <1>1, <1>4 DEF TicketInv
<1>6. BlameInv
  BY <1>1, <1>4 DEF BlameInv
<1> QED
  BY <1>2, <1>3, <1>5, <1>6

\* Every step of the desk keeps what requests and jobs were promised.
LEMMA HonourStep == HonourInv /\ ClaimInv /\ [Next]_vars => HonourInv'
<1> SUFFICES ASSUME HonourInv, ClaimInv, [Next]_vars PROVE HonourInv'
  OBVIOUS
<1>0. DeskTypeInv /\ OwnInv /\ StoreInv /\ RequestInv /\ TicketInv /\ BlameInv
  BY DEF HonourInv
<1>1. DeskTypeInv' /\ OwnInv'
  BY <1>0, DeskTypeStep, OwnStep
<1>2. SUFFICES StoreInv' /\ RequestInv' /\ TicketInv' /\ BlameInv'
  BY <1>1 DEF HonourInv
<1>3. /\ \A w \in Worker : w \in Task /\ w \notin Request
      /\ \A q \in Request : q \in Task /\ q \notin Worker /\ q \notin Jobs
  BY DeskAssumption
<1>4. pc = [t \in Task |-> pc[t]]
  BY <1>0 DEF OwnInv, OwnTypeInv
<1>5. ASSUME UNCHANGED <<pc, ask, staged, customers, rows, jobs, payload, blamed, lost, shared,
                         broken, struck>>
      PROVE  StoreInv' /\ RequestInv' /\ TicketInv' /\ BlameInv'
  <2>1. StoreInv'
    BY <1>0, <1>5 DEF StoreInv, email, found
  <2>2. RequestInv'
    BY <1>0, <1>5, RequestFrame
  <2>3. TicketInv'
    BY <1>0, <1>5, TicketStays
  <2>4. BlameInv'
    BY <1>0, <1>5, BlameFrame DEF Working
  <2> QED
    BY <2>1, <2>2, <2>3, <2>4
<1>6. CASE UNCHANGED vars
  BY <1>5, <1>6 DEF vars
<1>7. ASSUME NEW q \in Request, NEW s \in Subject, Arrive(q, s)
      PROVE  StoreInv' /\ RequestInv' /\ TicketInv' /\ BlameInv'
  <2>1. /\ pc' = [pc EXCEPT ![q] = "find"]
        /\ UNCHANGED <<staged, customers, rows, jobs, payload, blamed, lost, shared, broken>>
    BY <1>7 DEF Arrive, to, queueVars
  <2>2. \A u \in Task \ {q} : ask'[u] = ask[u]
    BY <1>0, <1>7 DEF Arrive, OwnInv, OwnTypeInv
  <2>3. StoreInv'
    BY <1>0, <1>3, <2>1, <2>2, StoreStarts
  <2>4. RequestInv'
    BY <1>0, <1>7, RequestArrives
  <2>5. TicketInv'
    BY <1>0, <2>1, TicketStays
  <2>6. \A w \in Worker : Working(w)' => Working(w)
    BY <1>3, <1>4, <2>1 DEF Working
  <2>7. BlameInv'
    BY <1>0, <2>1, <2>6, BlameFrame
  <2> QED
    BY <2>3, <2>4, <2>5, <2>7
<1>8. ASSUME NEW q \in Request, Answer(q) \/ Raise(q) \/ RequestFault(q)
      PROVE  StoreInv' /\ RequestInv' /\ TicketInv' /\ BlameInv'
  <2>1. /\ UNCHANGED <<ask, jobs, payload, blamed, lost, shared, broken>>
        /\ struck \subseteq struck'
        /\ Committed(q) \/ RolledBack(q) \/ Interrupted(q)
    BY <1>8 DEF Answer, Raise, RequestFault, queueVars, deskVars
  <2>2. Working(q)
    BY <1>8 DEF Answer, Raise, RequestFault, Committed, Refused, Interrupted, Working, Busy
  <2>3. PICK where \in {"done", "failed"} : to(q, where)
    BY <1>8 DEF Answer, Raise, RequestFault
  <2>4. StoreInv'
    BY <1>0, <1>3, <2>1, <2>2, <2>3, StoreStep
  <2>5. rows \subseteq rows' /\ \A x \in rows' : x \in rows \/ x = row(q)
    BY <2>1 DEF Committed, RolledBack, Interrupted, Publish
  <2>6. RequestInv'
    <3>1. CASE Answer(q)
      <4>1. to(q, "done") /\ rows' = rows \cup {row(q)}
        BY <3>1 DEF Answer, Committed, Publish
      <4> QED
        BY <1>0, <2>1, <2>2, <4>1, RequestEnds
    <3>2. CASE Raise(q)
      <4>1. Refused(q) /\ to(q, "failed")
        BY <3>2 DEF Raise
      <4>2. ask[q].address.mailbox # Blank
        BY <1>0, <2>2 DEF RequestInv, Working, Busy
      <4>3. ~ ask[q].fits
        BY <1>0, <1>3, <4>1, <4>2 DEF Refused, StoreInv
      <4> QED
        BY <1>0, <2>1, <2>2, <2>5, <4>1, <4>3, RequestEnds
    <3>3. CASE RequestFault(q)
      <4>1. to(q, "failed") /\ q \in struck'
        BY <3>3 DEF RequestFault
      <4> QED
        BY <1>0, <2>1, <2>2, <2>5, <4>1, RequestEnds
    <3> QED
      BY <1>8, <3>1, <3>2, <3>3
  <2>7. row(q).maker = q
    BY <1>0, <2>2 DEF row, OwnInv, AskInv, Working, Busy
  <2>8. TicketInv'
    BY <1>0, <2>1, <2>5, <2>7, TicketStays
  <2>9. \A w \in Worker : Working(w)' => Working(w)
    BY <1>3, <1>4, <2>3 DEF Working, to
  <2>10. BlameInv'
    BY <1>0, <2>1, <2>5, <2>9, BlameFrame
  <2> QED
    BY <2>4, <2>6, <2>8, <2>10
<1>9. ASSUME NEW t \in Task, Step(t)
      PROVE  StoreInv' /\ RequestInv' /\ TicketInv' /\ BlameInv'
  <2>1. Progress(t) /\ UNCHANGED <<jobs, payload, blamed, lost, shared, broken, struck>>
    BY <1>9 DEF Step, queueVars, deskVars
  <2>2. Working(t) /\ UNCHANGED ask
    BY <2>1, ProgressStays
  <2>3. PICK where \in Busy : to(t, where)
    BY <2>1, ProgressStays
  <2>4. rows' = rows
    BY <2>1, WrittenRows
  <2>5. StoreInv'
    BY <1>0, <2>1, <2>2, <2>3, StoreStep
  <2>6. pc'[t] \in Busy /\ \A u \in Task \ {t} : pc'[u] = pc[u]
    BY <1>4, <2>3 DEF to
  <2>7. RequestInv'
    BY <1>0, <1>3, <2>1, <2>2, <2>4, <2>6, RequestFrame
  <2>8. TicketInv'
    BY <1>0, <2>1, <2>4, TicketStays
  <2>9. \A w \in Worker : Working(w)' => Working(w)
    BY <1>3, <2>2, <2>6 DEF Working
  <2>10. BlameInv'
    BY <1>0, <2>1, <2>4, <2>9, BlameFrame
  <2> QED
    BY <2>5, <2>7, <2>8, <2>10
<1>10. ASSUME NEW j \in Jobs, Enqueue(j)
       PROVE  StoreInv' /\ RequestInv' /\ TicketInv' /\ BlameInv'
  <2>1. UNCHANGED <<pc, ask, staged, customers, rows, struck, lost>>
    BY <1>10 DEF Enqueue, customerVars
  <2>2. /\ jobs[j] = Absent /\ jobs'[j].status = "pending" /\ jobs'[j].attempts = 0
        /\ \A i \in Jobs \ {j} : jobs'[i] = jobs[i] /\ payload'[i] = payload[i]
    BY <1>0, <1>10, Enqueued
  <2>3. StoreInv'
    BY <1>0, <2>1 DEF StoreInv, email, found
  <2>4. RequestInv'
    BY <1>0, <2>1, RequestFrame
  <2>5. \A i \in Jobs : jobs[i].attempts \in Nat
    BY <1>0, Entries DEF DeskTypeInv, TypeOK
  <2>6. \A i \in Jobs : jobs'[i].attempts \in Nat /\ (jobs'[i].status = "running" => jobs'[i].attempts >= 1)
    BY <1>0, <2>2, <2>5 DEF TicketInv
  <2>7. TicketInv'
    BY <1>0, <2>1, <2>2, <2>5, <2>6, TicketFrame
  <2>8. BlameInv'
    BY <1>0, <1>10, BlameEnqueued
  <2> QED
    BY <2>3, <2>4, <2>7, <2>8
<1>11. ASSUME NEW w \in Worker, NEW j \in Jobs, Take(w, j)
       PROVE  StoreInv' /\ RequestInv' /\ TicketInv' /\ BlameInv'
  <2>1. pc' = [pc EXCEPT ![w] = "find"] /\ UNCHANGED <<staged, customers, rows, payload, struck, lost>>
    BY <1>11 DEF Take, to
  <2>2. \A u \in Task \ {w} : ask'[u] = ask[u] /\ pc'[u] = pc[u]
    BY <1>0, <1>3, <1>11, <2>1 DEF Take, OwnInv, OwnTypeInv
  <2>3. /\ jobs'[j].attempts = jobs[j].attempts + 1
        /\ \A i \in Jobs \ {j} : jobs'[i] = jobs[i]
    BY <1>0, <1>11, Taken
  <2>4. StoreInv'
    BY <1>0, <1>3, <2>1, <2>2, StoreStarts
  <2>5. RequestInv'
    BY <1>0, <1>3, <2>1, <2>2, RequestFrame
  <2>6. \A i \in Jobs : jobs[i].attempts \in Nat
    BY <1>0, Entries DEF DeskTypeInv, TypeOK
  <2>7. \A i \in Jobs : /\ jobs'[i].attempts \in Nat /\ jobs[i].attempts <= jobs'[i].attempts
                        /\ jobs'[i].status = "running" => jobs'[i].attempts >= 1
    <3> SUFFICES ASSUME NEW i \in Jobs
                 PROVE  /\ jobs'[i].attempts \in Nat /\ jobs[i].attempts <= jobs'[i].attempts
                        /\ jobs'[i].status = "running" => jobs'[i].attempts >= 1
      OBVIOUS
    <3>1. CASE i = j
      BY <2>3, <2>6, <3>1
    <3>2. CASE i # j
      BY <1>0, <2>3, <2>6, <3>2 DEF TicketInv
    <3> QED
      BY <3>1, <3>2
  <2>8. TicketInv'
    BY <1>0, <2>1, <2>7, TicketFrame
  <2>9. BlameInv'
    BY <1>0, <1>11, BlameTaken
  <2> QED
    BY <2>4, <2>5, <2>8, <2>9
<1>12. ASSUME NEW w \in Worker, Complete(w) \/ Reject(w) \/ JobFault(w)
       PROVE  StoreInv' /\ RequestInv' /\ TicketInv' /\ BlameInv'
  <2>1. /\ UNCHANGED <<ask, payload, held, lost, shared, struck>> /\ to(w, "idle")
        /\ complete(held[w]) \/ fail(held[w], TRUE)
        /\ Committed(w) \/ RolledBack(w) \/ Interrupted(w)
    BY <1>12 DEF Complete, Reject, JobFault, HandlerFails, deskVars
  <2>2. Working(w)
    BY <1>12 DEF Complete, Reject, JobFault, Committed, Refused, Interrupted, Working, Busy
  <2>3. rows \subseteq rows' /\ \A x \in rows' : x \in rows \/ x = row(w)
    BY <2>1 DEF Committed, RolledBack, Interrupted, Publish
  <2>4. StoreInv'
    BY <1>0, <1>3, <2>1, <2>2, StoreStep
  <2>5. row(w).maker \in Jobs
    BY <1>0, <2>2 DEF row, OwnInv, AskInv, Working, Busy
  <2>6. \A u \in Task \ {w} : pc'[u] = pc[u]
    BY <1>4, <2>1 DEF to
  <2>7. RequestInv'
    BY <1>0, <1>3, <2>1, <2>3, <2>5, <2>6, RequestFrame
  <2>8. PICK j \in Jobs : j = held[w]
    BY <1>0 DEF DeskTypeInv, TypeOK
  <2>9. /\ jobs'[j].attempts = jobs[j].attempts
        /\ jobs'[j].status # "running"
        /\ \A i \in Jobs \ {j} : jobs'[i] = jobs[i]
    BY <1>0, <2>1, <2>2, <2>8, QueueSettled
  <2>10. \A i \in Jobs : jobs[i].attempts \in Nat
    BY <1>0, Entries DEF DeskTypeInv, TypeOK
  <2>11. \A i \in Jobs : /\ jobs'[i].attempts \in Nat /\ jobs[i].attempts <= jobs'[i].attempts
                         /\ jobs'[i].status = "running" => jobs'[i].attempts >= 1
    BY <1>0, <2>9, <2>10 DEF TicketInv
  <2>12. TicketInv'
    BY <1>0, <2>1, <2>2, <2>3, <2>11, TicketFrame
  <2>13. BlameInv'
    <3>1. CASE Complete(w)
      <4>1. complete(held[w]) /\ row(w) \in rows' /\ UNCHANGED <<blamed, broken>>
        BY <3>1 DEF Complete, Committed, Publish, deskVars
      <4> QED
        BY <1>0, <2>1, <2>2, <2>3, <4>1, BlameSettled
    <3>2. CASE Reject(w)
      <4>1. fail(held[w], TRUE) /\ UNCHANGED blamed /\ broken' = broken \cup {w}
        BY <3>2 DEF Reject, HandlerFails
      <4>2. w \in broken \/ Refused(w)
        BY <3>2 DEF Reject
      <4>3. Refused(w) => ~ Acceptable(held[w])
        <5>1. ask[w].address = payload[held[w]].address /\ ask[w].fits = payload[held[w]].fits
          BY <1>0, <2>2 DEF DeskTypeInv, QueueInv
        <5> QED
          BY <1>0, <1>3, <5>1 DEF Refused, StoreInv, Acceptable
      <4> QED
        BY <1>0, <2>1, <2>2, <2>3, <4>1, <4>2, <4>3, BlameSettled
    <3>3. CASE JobFault(w)
      <4>1. /\ fail(held[w], TRUE) /\ blamed' = [blamed EXCEPT ![held[w]] = @ + 1]
            /\ broken' = broken \cup {w}
        BY <3>3 DEF JobFault, HandlerFails
      <4> QED
        BY <1>0, <2>1, <2>2, <2>3, <4>1, BlameSettled
    <3> QED
      BY <1>12, <3>1, <3>2, <3>3
  <2> QED
    BY <2>4, <2>7, <2>12, <2>13
<1>13. ASSUME NEW r \in Reviewer, DeskFault(r)
       PROVE  StoreInv' /\ RequestInv' /\ TicketInv' /\ BlameInv'
  BY <1>5, <1>13 DEF DeskFault, customerVars, queueVars
<1>14. ASSUME NEW a \in Authorizers, Restart(a)
       PROVE  StoreInv' /\ RequestInv' /\ TicketInv' /\ BlameInv'
  <2>1. /\ \A t \in Task : pc'[t] = IF pc[t] \notin Busy THEN pc[t]
                                    ELSE IF t \in Worker THEN "idle" ELSE "dropped"
        /\ \A t \in Task : staged'[t] = {}
        /\ jobs' = [j \in Jobs |-> Absent]
        /\ lost' = lost \cup {j \in Jobs : known(j)} /\ broken' = {}
        /\ UNCHANGED <<ask, customers, rows, payload, shared, struck, blamed>>
    BY <1>14 DEF Restart, EmptiedQueue
  <2>2. \A t \in Task : pc'[t] \notin Busy
    BY <2>1 DEF Busy
  <2>3. StoreInv'
    BY <1>0, <2>1, <2>2 DEF StoreInv, Busy
  <2>4. RequestInv'
    BY <1>0, <1>3, <2>1, RequestFrame DEF Working
  <2>5. \A j \in Jobs : jobs'[j] = Absent /\ jobs'[j].attempts = 0 /\ jobs'[j].status = "absent"
    BY <2>1 DEF Absent
  <2>6. \A j \in Jobs \ lost' : jobs[j] = Absent /\ j \notin lost
    BY <2>1 DEF known
  <2>7. TicketInv'
    BY <1>0, <2>1, <2>5, <2>6, TicketFrame
  <2>8. \A w \in Worker : ~ Working(w)'
    BY <1>3, <2>2 DEF Working
  <2>9. BlameInv'
    BY <1>0, <2>1, <2>5, <2>6, <2>8 DEF BlameInv
  <2> QED
    BY <2>3, <2>4, <2>7, <2>9
<1>15. CASE Review
  BY <1>5, <1>15 DEF Review, customerVars, queueVars, deskVars
<1> QED
  BY <1>6, <1>7, <1>8, <1>9, <1>10, <1>11, <1>12, <1>13, <1>14, <1>15 DEF Next

\* Tickets that differ in their attempt alone are no more than the attempts.
LEMMA TicketsAreCounted ==
    ASSUME HonourInv, NEW j \in Jobs \ lost
    PROVE  Cardinality({x \in rows : x.maker = j}) <= jobs[j].attempts
<1> DEFINE mine == {x \in rows : x.maker = j}
           number == [x \in mine |-> x.attempt]
<1>1. jobs[j].attempts \in Nat
  BY Entries DEF HonourInv, DeskTypeInv, TypeOK
<1>2. \A x \in mine : /\ x \in Row /\ x.maker = j /\ x.kind = "ticket" /\ x.owner = NoOwner
                      /\ x.address = normalise_email(payload[j].address)
                      /\ x.attempt \in 1..jobs[j].attempts
  BY DEF HonourInv, DeskTypeInv, TypeOK, CustomersTypeOK, TicketInv
<1> HIDE DEF mine
<1>3. \A x, y \in mine : x.attempt = y.attempt => x = y
  <2> SUFFICES ASSUME NEW x \in mine, NEW y \in mine, x.attempt = y.attempt PROVE x = y
    OBVIOUS
  <2>1. /\ x \in Row /\ y \in Row /\ x.maker = y.maker /\ x.kind = y.kind
        /\ x.owner = y.owner /\ x.address = y.address
    BY <1>2
  <2> QED
    BY <2>1 DEF Row
<1>4. number \in Injection(mine, 1..jobs[j].attempts)
  <2>1. number \in [mine -> 1..jobs[j].attempts]
    BY <1>2
  <2>2. \A x, y \in mine : number[x] = number[y] => x = y
    BY <1>3
  <2> QED
    BY <2>1, <2>2 DEF Injection, IsInjective
<1>5. IsFiniteSet(1..jobs[j].attempts) /\ Cardinality(1..jobs[j].attempts) = jobs[j].attempts
  <2>1. PICK n \in Nat : n = jobs[j].attempts
    BY <1>1
  <2>2. IsFiniteSet(1..n) /\ Cardinality(1..n) = IF 1 > n THEN 0 ELSE n - 1 + 1
    BY FS_Interval
  <2>3. Cardinality(1..n) = n
    BY <2>2
  <2> QED
    BY <2>1, <2>2, <2>3
<1> HIDE DEF number
<1>6. Cardinality(mine) <= jobs[j].attempts
  BY <1>4, <1>5, FS_Injection
<1> QED
  BY <1>6 DEF mine

\* The invariant is what the property promises.
LEMMA Honoured == HonourInv => RequestsAreHonoured
<1> SUFFICES ASSUME HonourInv PROVE RequestsAreHonoured
  OBVIOUS
<1>1. OneCustomerPerMailbox
  <2> SUFFICES ASSUME NEW c \in customers, NEW d \in customers, c.mailbox = d.mailbox PROVE c = d
    BY DEF OneCustomerPerMailbox
  <2>1. c \in Address /\ d \in Address /\ c.canonical /\ d.canonical
    BY DEF HonourInv, DeskTypeInv, TypeOK, CustomersTypeOK, StoreInv
  <2> QED
    BY <2>1 DEF Address
<1>2. NobodysRows = {}
  BY DEF HonourInv, StoreInv, NobodysRows
<1>3. \A q \in Request :
          /\ pc[q] = "done" => {Stored(x) : x \in {y \in rows : y.maker = q}} = {Requested(q)}
          /\ pc[q] = "failed" => q \in struck \/ ~ ask[q].fits
  BY DEF HonourInv, RequestInv
<1>4. ASSUME NEW j \in Jobs \ lost
      PROVE  /\ Cardinality({x \in rows : x.maker = j}) <= jobs[j].attempts
             /\ jobs[j].status = "succeeded" =>
                    \E x \in {y \in rows : y.maker = j} : x.attempt = jobs[j].attempts
             /\ jobs[j].status = "failed" /\ Acceptable(j) =>
                    blamed[j] = jobs[j].attempts \/ shared
  <2>1. Cardinality({x \in rows : x.maker = j}) <= jobs[j].attempts
    BY TicketsAreCounted
  <2>2. jobs[j].status = "succeeded" =>
            \E x \in {y \in rows : y.maker = j} : x.attempt = jobs[j].attempts
    BY DEF HonourInv, BlameInv
  <2>3. jobs[j].status = "failed" /\ Acceptable(j) => blamed[j] = jobs[j].attempts \/ shared
    BY DEF HonourInv, BlameInv
  <2> QED
    BY <2>1, <2>2, <2>3
<1> QED
  BY <1>1, <1>2, <1>3, <1>4 DEF RequestsAreHonoured

\* Whatever the order of first contacts, failures and restarts, for any number
\* of requests, workers and jobs: a customer is one row and every row has its
\* customer (CustomerService.get_or_create and its SAVEPOINT), an answered
\* request is on record once, a request fails for no fault of another, a job
\* that is done has its ticket and never more tickets than attempts, and over
\* a session of its own it is given up only when the database failed every
\* attempt (CreateTicketHandler, JobWorker).
THEOREM RequestsAndJobsAreHonoured == Spec => []RequestsAreHonoured
<1>1. Init => HonourInv
  BY DeskTypeInit, OwnInit, HonourInit DEF HonourInv
<1>2. Spec => []ClaimInv
  BY ClaimInit, ClaimStep, PTL DEF Spec
<1>3. Spec => []HonourInv
  BY <1>1, <1>2, HonourStep, PTL DEF Spec
<1> QED
  BY <1>3, Honoured, PTL

=============================================================================
