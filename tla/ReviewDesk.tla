----------------------------- MODULE ReviewDesk -----------------------------
(***************************************************************************)
(* Reviewers working the review queue: claim, get and resolve of           *)
(* ReviewQueue (backend/app/services/review.py), each over a session of    *)
(* its own.  The system side of the queue, enqueue inside a request, is in *)
(* AssistantPipeline; here items simply appear.                            *)
(*                                                                         *)
(* A statement that writes a row holds it until its transaction ends, and  *)
(* a second writer waits, then reads the row again (READ COMMITTED).       *)
(***************************************************************************)
EXTENDS Naturals

CONSTANTS
    Item,      \* review items
    Reviewer,  \* the people, or programs, that work the queue
    MaxWork    \* bound on the calls a reviewer makes

ASSUME MaxWorkAssumption == MaxWork \in Nat

VARIABLES
    status,   \* the committed status of every item
    desk,     \* the call each reviewer is in: its await, its item
    handed,   \* how many claims have returned the item to their caller
    work      \* calls a reviewer has made

reviewVars == <<status, desk, handed, work>>

ReviewStatus == {"pending", "claimed", "resolved"}

Idle == "idle"

\* The awaits of claim: the UPDATE, its commit when it matched, the read
\* after it; and of resolve: the read, the UPDATE the commit flushes, the
\* COMMIT itself.
Call == {"update", "commit_claim", "get", "load", "flush", "commit_resolution"}

\* Between its UPDATE and its COMMIT a session holds the row.
Writing == {"commit_claim", "commit_resolution"}

ReviewTypeOK ==
    /\ status \in [Item -> ReviewStatus \cup {"absent"}]
    /\ desk \in [Reviewer -> [at : Call \cup {Idle}, item : Item]]
    /\ handed \in [Item -> Nat]
    /\ work \in [Reviewer -> 0..MaxWork]

ReviewInit ==
    /\ status = [i \in Item |-> "absent"]
    /\ desk \in [Reviewer -> [at : {Idle}, item : Item]]
    /\ \A r, q \in Reviewer : desk[r] = desk[q]
    /\ handed = [i \in Item |-> 0]
    /\ work = [r \in Reviewer |-> 0]

free(i) == \A q \in Reviewer : desk[q].item = i => desk[q].at \notin Writing

at(r, where) == desk' = [desk EXCEPT ![r].at = where]

\* ReviewQueue.enqueue has committed an item.
Escalated(i) ==
    /\ status[i] = "absent"
    /\ status' = [status EXCEPT ![i] = "pending"]
    /\ UNCHANGED <<desk, handed, work>>

\* A reviewer calls claim or resolve on an item it has seen in the queue.
Begin(r, i) ==
    /\ desk[r].at = Idle
    /\ status[i] # "absent"
    /\ work[r] < MaxWork
    /\ work' = [work EXCEPT ![r] = @ + 1]
    /\ \E call \in {"update", "load"} : desk' = [desk EXCEPT ![r] = [at |-> call, item |-> i]]
    /\ UNCHANGED <<status, handed>>

\* MUTANT: the UPDATE of claim has no condition on the status.
claimable_always(i) == TRUE

\* The condition that is part of the UPDATE of claim.
claimable(i) == status[i] = "pending"

\* claim: UPDATE ... WHERE status = pending RETURNING id.  When it matches
\* nothing there is nothing to commit, and claim returns None.
Update(r) ==
    /\ desk[r].at = "update"
    /\ claimable(desk[r].item) => free(desk[r].item)
    /\ at(r, IF claimable(desk[r].item) THEN "commit_claim" ELSE Idle)
    /\ UNCHANGED <<status, handed, work>>

\* The writer commits.
CommitReview(r) ==
    /\ desk[r].at \in Writing
    /\ LET claiming == desk[r].at = "commit_claim"
       IN /\ status' = [status EXCEPT ![desk[r].item] =
                            IF claiming THEN "claimed" ELSE "resolved"]
          /\ at(r, IF claiming THEN "get" ELSE Idle)
    /\ UNCHANGED <<handed, work>>

\* claim reads the item it has taken and returns it.
GetClaimed(r) ==
    /\ desk[r].at = "get"
    /\ handed' = [handed EXCEPT ![desk[r].item] = @ + 1]
    /\ at(r, Idle)
    /\ UNCHANGED <<status, work>>

\* resolve reads the item and sets its status and resolution, whatever the
\* status was.
Load(r) ==
    /\ desk[r].at = "load"
    /\ at(r, "flush")
    /\ UNCHANGED <<status, handed, work>>

\* Its commit flushes the UPDATE, by primary key.
FlushResolution(r) ==
    /\ desk[r].at = "flush"
    /\ free(desk[r].item)
    /\ at(r, "commit_resolution")
    /\ UNCHANGED <<status, handed, work>>

ReviewStep(r) == Update(r) \/ CommitReview(r) \/ GetClaimed(r) \/ Load(r) \/ FlushResolution(r)

\* The await raises: the session rolls back.  A claim that fails in its last
\* read stays committed.
ReviewFault(r) ==
    /\ desk[r].at # Idle
    /\ at(r, Idle)
    /\ UNCHANGED <<status, handed, work>>

-----------------------------------------------------------------------------

\* An item is given to one reviewer at most, never while it is still offered
\* to others as pending, and while it is claimed either one reviewer was given
\* it, or is about to be, or that reviewer's call was cut off: the status
\* check inside the UPDATE of claim (services/review.py:91-99) against
\* reviewers who claim and resolve the same item at the same moment.
HandedOutOnce ==
    \A i \in Item :
        LET taking == {r \in Reviewer : desk[r] \in [at : {"commit_claim", "get"}, item : {i}]}
        IN /\ handed[i] <= 1
           /\ \A r, q \in taking : r = q
           /\ taking # {} => handed[i] = 0
           /\ status[i] \in {"absent", "pending"} => handed[i] = 0

=============================================================================
