----------------------------- MODULE PageProofs -----------------------------
(***************************************************************************)
(* Proofs about ConversationPage, for any number of conversations, sockets *)
(* and questions: nothing on screen waits for nobody, the screen and the   *)
(* index agree, and no question is taken back.                             *)
(***************************************************************************)
EXTENDS ConversationPage, FiniteSetTheorems, SequenceTheorems, TLAPS

-----------------------------------------------------------------------------
(* Sequences. *)

\* A function on the places of a sequence is a sequence.
LEMMA MapSeq ==
    ASSUME NEW S, NEW n \in Nat, NEW f \in [1..n -> S]
    PROVE  f \in Seq(S) /\ Len(f) = n /\ DOMAIN f = 1..n
<1>1. f \in Seq(S)
  BY SeqDef
<1>2. DOMAIN f = 1..n
  OBVIOUS
<1> QED  BY <1>1, <1>2, LenProperties

\* One entry taken out: those after it move up.
LEMMA RemovedSeq ==
    ASSUME NEW S, NEW seq \in Seq(S), NEW k \in 1..Len(seq)
    PROVE  /\ RemoveAt(seq, k) \in Seq(S) /\ Len(RemoveAt(seq, k)) = Len(seq) - 1
           /\ \A i \in 1..Len(RemoveAt(seq, k)) :
                 RemoveAt(seq, k)[i] = IF i < k THEN seq[i] ELSE seq[i + 1]
<1>1. PICK n \in Nat : n = Len(seq) /\ k \in 1..n
  BY LenProperties
<1>2. PICK a \in Seq(S) : /\ a = SubSeq(seq, 1, k - 1) /\ Len(a) = k - 1
                          /\ \A i \in 1..(k - 1) : a[i] = seq[i]
  <2>1. \A i \in 1..(k - 1) : seq[i] \in S
    BY <1>1, ElementOfSeq
  <2>2. /\ SubSeq(seq, 1, k - 1) \in Seq(S) /\ Len(SubSeq(seq, 1, k - 1)) = k - 1
        /\ \A i \in 1..(k - 1) : SubSeq(seq, 1, k - 1)[i] = seq[i]
    BY <1>1, <2>1, SubSeqProperties
  <2> QED  BY <2>2
<1>3. PICK b \in Seq(S) : /\ b = SubSeq(seq, k + 1, Len(seq)) /\ Len(b) = n - k
                          /\ \A i \in 1..(n - k) : b[i] = seq[k + i]
  <2>1. \A i \in (k + 1)..n : seq[i] \in S
    BY <1>1, ElementOfSeq
  <2>2. /\ SubSeq(seq, k + 1, n) \in Seq(S) /\ Len(SubSeq(seq, k + 1, n)) = n - k
        /\ \A i \in 1..(n - k) : SubSeq(seq, k + 1, n)[i] = seq[(k + 1) + i - 1]
    BY <1>1, <2>1, SubSeqProperties
  <2>3. \A i \in 1..(n - k) : (k + 1) + i - 1 = k + i
    BY <1>1
  <2>4. \A i \in 1..(n - k) : SubSeq(seq, k + 1, n)[i] = seq[k + i]
    BY <2>2, <2>3
  <2> QED  BY <1>1, <2>2, <2>4
<1>4. RemoveAt(seq, k) = a \o b
  BY <1>2, <1>3 DEF RemoveAt
<1>5. /\ a \o b \in Seq(S) /\ Len(a \o b) = n - 1
      /\ \A i \in 1..(n - 1) : (a \o b)[i] = IF i <= k - 1 THEN a[i] ELSE b[i - (k - 1)]
  <2>1. Len(a) + Len(b) = n - 1
    <3>1. k \in Int /\ n \in Int /\ (k - 1) + (n - k) = n - 1
      BY <1>1
    <3>2. Len(a) = k - 1 /\ Len(b) = n - k
      BY <1>2, <1>3
    <3> QED  BY <3>1, <3>2
  <2>2. /\ a \o b \in Seq(S) /\ Len(a \o b) = Len(a) + Len(b)
        /\ \A i \in 1..(Len(a) + Len(b)) :
              (a \o b)[i] = IF i <= Len(a) THEN a[i] ELSE b[i - Len(a)]
    BY ConcatProperties
  <2> QED  BY <1>2, <2>1, <2>2
<1>6. \A i \in 1..(n - 1) : (a \o b)[i] = IF i < k THEN seq[i] ELSE seq[i + 1]
  <2>1. ASSUME NEW i \in 1..(n - 1), i < k PROVE (a \o b)[i] = seq[i]
    BY <1>1, <1>2, <1>5, <2>1
  <2>2. ASSUME NEW i \in 1..(n - 1), ~(i < k) PROVE (a \o b)[i] = seq[i + 1]
    <3>1. i - (k - 1) \in 1..(n - k) /\ k + (i - (k - 1)) = i + 1
      BY <1>1, <2>2
    <3>2. (a \o b)[i] = b[i - (k - 1)]
      BY <1>1, <1>5, <2>2
    <3> QED  BY <1>3, <3>1, <3>2
  <2> QED  BY <2>1, <2>2
<1> QED  BY <1>1, <1>4, <1>5, <1>6

-----------------------------------------------------------------------------
(* The invariant. *)

\* Turns have ids of their own (0 stands for the ids the server gave), and a
\* customer's turn says something.
TurnsInv ==
    /\ \A i \in 1..Len(turns) :
          /\ turns[i].id <= nextId
          /\ turns[i].role = "customer" => turns[i].text # "empty"
    /\ \A i, k \in 1..Len(turns) : turns[i].id = turns[k].id /\ turns[i].id # 0 => i = k

Sends == {call \in calls : call.kind = "send"}

\* Each question takes two turns at most, of which a reply that is awaited over
\* HTTP has still to take one.
CountInv ==
    /\ asked \in 0..MaxQuestions
    /\ IsFiniteSet(Sends)
    /\ nextId + Cardinality(Sends) <= 2 * asked

\* Unless a conversation was left with a question under way, the questions under
\* way over HTTP are the screen's own too.
OfInv ==
    crossed \/ /\ \A i \in DOMAIN turns : turns[i].of = conversationId
               /\ \A call \in Sends : call.conversation_id = conversationId

PageInv ==
    /\ TypeOK /\ TurnsInv /\ CountInv
    /\ WaitingIsBacked /\ OfInv /\ IndexListsTheScreen

-----------------------------------------------------------------------------
(* What the steps do to the turns. *)

\* The turns, rewritten in place: none becomes pending, streams or loses its text.
Rewritten(new) ==
    /\ new \in Seq(Turn) /\ Len(new) = Len(turns)
    /\ \A i \in 1..Len(turns) :
        /\ new[i].id = turns[i].id /\ new[i].role = turns[i].role /\ new[i].of = turns[i].of
        /\ new[i].status = "pending" => turns[i].status = "pending"
        /\ new[i].streaming => turns[i].streaming
        /\ turns[i].text # "empty" => new[i].text # "empty"

\* A customer's turns stay, and are not asked again.
CustomersStay ==
    \A i \in DOMAIN turns : turns[i].role = "customer" =>
        \E j \in DOMAIN turns' :
            /\ turns'[j].id = turns[i].id
            /\ turns'[j].status = "pending" => turns[i].status = "pending"

TurnsKept ==
    /\ turns' \in Seq(Turn)
    /\ TurnsInv'
    /\ Emptied \/ CustomersStay

LEMMA TurnFields ==
    ASSUME NEW seq \in Seq(Turn)
    PROVE  /\ Len(seq) \in Nat /\ DOMAIN seq = 1..Len(seq)
           /\ \A i \in 1..Len(seq) : seq[i] \in Turn /\ seq[i].id \in Nat /\ seq[i].of \in Id
<1>1. Len(seq) \in Nat /\ DOMAIN seq = 1..Len(seq)
  BY LenProperties
<1>2. \A i \in 1..Len(seq) : seq[i] \in Turn
  BY ElementOfSeq
<1> QED  BY <1>1, <1>2 DEF Turn

\* A turn rewritten where it is, by a function of the places.
LEMMA RewrittenTurns ==
    ASSUME turns \in Seq(Turn), NEW f, f = [i \in DOMAIN turns |-> f[i]],
           \A i \in DOMAIN turns :
                /\ f[i] \in Turn
                /\ f[i].id = turns[i].id /\ f[i].role = turns[i].role /\ f[i].of = turns[i].of
                /\ f[i].status = "pending" => turns[i].status = "pending"
                /\ f[i].streaming => turns[i].streaming
                /\ turns[i].text # "empty" => f[i].text # "empty"
    PROVE  Rewritten(f)
<1>1. Len(turns) \in Nat /\ DOMAIN turns = 1..Len(turns)
  BY TurnFields
<1>2. f \in [1..Len(turns) -> Turn]
  BY <1>1
<1>3. f \in Seq(Turn) /\ Len(f) = Len(turns)
  BY <1>1, <1>2, MapSeq
<1> QED  BY <1>1, <1>3 DEF Rewritten

LEMMA SameTurns ==
    ASSUME turns \in Seq(Turn)
    PROVE  Rewritten(turns)
BY TurnFields DEF Rewritten

\* Turns rewritten, and new ones with ids of their own put after them.
LEMMA GrownTurns ==
    ASSUME turns \in Seq(Turn), TurnsInv, nextId \in Nat, NEW new, Rewritten(new),
           NEW extra \in Seq(Turn), turns' = new \o extra,
           nextId' \in Nat, nextId <= nextId',
           \A i \in 1..Len(extra) : /\ nextId < extra[i].id /\ extra[i].id <= nextId'
                                    /\ extra[i].role = "customer" => extra[i].text # "empty",
           \A i, k \in 1..Len(extra) : extra[i].id = extra[k].id => i = k
    PROVE  /\ TurnsKept
           /\ Len(turns') = Len(turns) + Len(extra)
           /\ \A i \in 1..Len(turns) : turns'[i] = new[i]
           /\ \A i \in 1..Len(extra) : turns'[Len(turns) + i] = extra[i]
           /\ \A i \in 1..Len(turns') :
                i \in 1..Len(turns) \/ \E k \in 1..Len(extra) : i = Len(turns) + k
<1>1. PICK m \in Nat : m = Len(turns) /\ m = Len(new) /\ DOMAIN turns = 1..m
  BY TurnFields DEF Rewritten
<1>2. PICK n \in Nat : n = Len(extra)
  BY TurnFields
<1>3. PICK next \in Seq(Turn) :
         /\ next = turns' /\ Len(next) = m + n /\ DOMAIN next = 1..(m + n)
         /\ \A i \in 1..(m + n) : next[i] = IF i <= m THEN new[i] ELSE extra[i - m]
  <2>1. /\ new \o extra \in Seq(Turn) /\ Len(new \o extra) = m + n
        /\ \A i \in 1..(m + n) : (new \o extra)[i] = IF i <= m THEN new[i] ELSE extra[i - m]
    <3>1. new \in Seq(Turn)
      BY DEF Rewritten
    <3>2. /\ new \o extra \in Seq(Turn) /\ Len(new \o extra) = Len(new) + Len(extra)
          /\ \A i \in 1..(Len(new) + Len(extra)) :
                (new \o extra)[i] = IF i <= Len(new) THEN new[i] ELSE extra[i - Len(new)]
      BY <3>1, ConcatProperties
    <3> QED  BY <1>1, <1>2, <3>2
  <2> QED  BY <2>1, TurnFields
<1>4. \A i \in 1..m : i \in 1..(m + n) /\ next[i] = new[i]
  BY <1>3
<1>5. \A k \in 1..n : m + k \in 1..(m + n) /\ next[m + k] = extra[k]
  <2> SUFFICES ASSUME NEW k \in 1..n PROVE m + k \in 1..(m + n) /\ next[m + k] = extra[k]
    OBVIOUS
  <2>1. m + k \in 1..(m + n) /\ ~(m + k <= m) /\ (m + k) - m = k
    OBVIOUS
  <2> QED  BY <1>3, <2>1
<1>6. \A i \in 1..(m + n) : i \in 1..m \/ \E k \in 1..n : i = m + k
  <2> SUFFICES ASSUME NEW i \in 1..(m + n), i \notin 1..m PROVE \E k \in 1..n : i = m + k
    OBVIOUS
  <2>1. i - m \in 1..n /\ i = m + (i - m)
    OBVIOUS
  <2> QED  BY <2>1
<1>7. \A i \in 1..m : /\ new[i].id = turns[i].id /\ new[i].role = turns[i].role
                      /\ new[i].id \in Nat /\ new[i].id <= nextId
                      /\ new[i].role = "customer" => new[i].text # "empty"
                      /\ new[i].status = "pending" => turns[i].status = "pending"
  BY <1>1, TurnFields DEF Rewritten, TurnsInv
<1>8. \A i \in 1..n : extra[i].id \in Nat /\ nextId < extra[i].id /\ extra[i].id <= nextId'
  BY <1>2, TurnFields
<1>9. \A i \in 1..(m + n) : /\ next[i].id <= nextId'
                            /\ next[i].role = "customer" => next[i].text # "empty"
  <2>1. \A i \in 1..m : next[i].id <= nextId' /\ (next[i].role = "customer" => next[i].text # "empty")
    BY <1>4, <1>7
  <2>2. \A k \in 1..n : /\ next[m + k].id <= nextId'
                        /\ next[m + k].role = "customer" => next[m + k].text # "empty"
    BY <1>2, <1>5, <1>8
  <2> QED  BY <1>6, <2>1, <2>2
<1>10. ASSUME NEW i \in 1..(m + n), NEW j \in 1..(m + n), next[i].id = next[j].id, next[i].id # 0
       PROVE  i = j
  <2>1. CASE i \in 1..m /\ j \in 1..m
    <3>1. next[i].id = turns[i].id /\ next[j].id = turns[j].id
      BY <1>4, <1>7, <2>1
    <3>2. turns[i].id = turns[j].id /\ turns[i].id # 0
      BY <1>10, <3>1
    <3> QED  BY <1>1, <2>1, <3>2 DEF TurnsInv
  <2>2. ASSUME NEW k \in 1..n, NEW l \in 1..n, i = m + k, j = m + l PROVE i = j
    BY <1>2, <1>5, <1>10, <2>2
  <2>3. ASSUME NEW k \in 1..n, j = m + k, i \in 1..m PROVE FALSE
    <3>1. next[i].id \in Nat /\ next[i].id <= nextId
      BY <1>4, <1>7, <2>3
    <3>2. next[j].id \in Nat /\ nextId < next[j].id
      BY <1>5, <1>8, <2>3
    <3> QED  BY <1>10, <3>1, <3>2
  <2>4. ASSUME NEW k \in 1..n, i = m + k, j \in 1..m PROVE FALSE
    <3>1. next[j].id \in Nat /\ next[j].id <= nextId
      BY <1>4, <1>7, <2>4
    <3>2. next[i].id \in Nat /\ nextId < next[i].id
      BY <1>5, <1>8, <2>4
    <3> QED  BY <1>10, <3>1, <3>2
  <2> QED  BY <1>6, <2>1, <2>2, <2>3, <2>4
<1>11. TurnsInv'
  BY <1>3, <1>9, <1>10 DEF TurnsInv
<1>12. CustomersStay
  BY <1>1, <1>3, <1>4, <1>7 DEF CustomersStay
<1> QED  BY <1>1, <1>2, <1>3, <1>4, <1>5, <1>6, <1>11, <1>12 DEF TurnsKept

\* Turns rewritten, and nothing else.
LEMMA KeptTurns ==
    ASSUME turns \in Seq(Turn), TurnsInv, nextId \in Nat, Rewritten(turns'), nextId' = nextId
    PROVE  TurnsKept
<1>1. PICK new \in Seq(Turn) : new = turns' /\ Rewritten(new)
  BY DEF Rewritten
<1>2. /\ Len(turns) \in Nat /\ DOMAIN turns = 1..Len(turns) /\ DOMAIN new = 1..Len(turns)
      /\ Len(new) = Len(turns)
  BY <1>1, TurnFields DEF Rewritten
<1>3. TurnsInv'
  BY <1>1, <1>2 DEF TurnsInv, Rewritten
<1>4. CustomersStay
  BY <1>1, <1>2 DEF CustomersStay, Rewritten
<1> QED  BY <1>1, <1>3, <1>4 DEF TurnsKept

\* settled: the turns with these ids get a status that is not "pending".
LEMMA SettledTurns ==
    ASSUME turns \in Seq(Turn), NEW ids, NEW status \in {"sent", "failed"}
    PROVE  /\ Rewritten(settled(ids, status))
           /\ \A i \in DOMAIN turns :
                settled(ids, status)[i].status = "pending" => turns[i].id \notin ids
<1>1. DOMAIN turns = 1..Len(turns) /\ \A i \in 1..Len(turns) : turns[i] \in Turn
  BY TurnFields
<1>2. PICK f : f = settled(ids, status)
  OBVIOUS
<1>3. f = [i \in DOMAIN turns |-> f[i]]
  BY <1>2 DEF settled
<1>4. \A i \in DOMAIN turns :
        f[i] = IF turns[i].id \in ids THEN [turns[i] EXCEPT !.status = status] ELSE turns[i]
  BY <1>2 DEF settled
<1>5. ASSUME NEW i \in DOMAIN turns
      PROVE  /\ f[i] \in Turn
             /\ f[i].id = turns[i].id /\ f[i].role = turns[i].role /\ f[i].of = turns[i].of
             /\ f[i].status = "pending" => turns[i].status = "pending"
             /\ f[i].streaming => turns[i].streaming
             /\ turns[i].text # "empty" => f[i].text # "empty"
             /\ f[i].status = "pending" => turns[i].id \notin ids
  <2>1. CASE turns[i].id \in ids
    <3>1. f[i] = [turns[i] EXCEPT !.status = status] /\ turns[i] \in Turn
      BY <1>1, <1>4, <2>1
    <3> QED  BY <3>1 DEF Turn
  <2>2. CASE turns[i].id \notin ids
    BY <1>1, <1>4, <2>2
  <2> QED  BY <2>1, <2>2
<1>6. Rewritten(f)
  BY <1>3, <1>5, RewrittenTurns
<1> QED  BY <1>2, <1>5, <1>6

\* failStream: the placeholder goes, if there is one, and nothing is pending.
LEMMA FailedTurns ==
    ASSUME turns \in Seq(Turn), TurnsInv, nextId \in Nat, nextId' = nextId, turns' = failed_turns
    PROVE  /\ TurnsKept
           /\ \A i \in DOMAIN turns' : /\ turns'[i].status # "pending"
                                       /\ \E k \in DOMAIN turns : turns'[i].of = turns[k].of
<1>1. DOMAIN turns = 1..Len(turns) /\ \A i \in 1..Len(turns) : turns[i] \in Turn
  BY TurnFields
<1>2. PICK f : f = [i \in DOMAIN turns |->
                      IF turns[i].status = "pending" THEN [turns[i] EXCEPT !.status = "failed"]
                      ELSE turns[i]]
  OBVIOUS
<1>3. PICK placeholder : placeholder = {i \in DOMAIN turns : turns[i].id = streamingId /\ turns[i].text = "empty"}
  OBVIOUS
<1>4. turns' = IF placeholder = {} THEN f ELSE RemoveAt(f, CHOOSE i \in placeholder : TRUE)
  BY <1>2, <1>3 DEF failed_turns
<1>5. ASSUME NEW i \in DOMAIN turns
      PROVE  /\ f[i] \in Turn
             /\ f[i].id = turns[i].id /\ f[i].role = turns[i].role /\ f[i].of = turns[i].of
             /\ f[i].status = "pending" => turns[i].status = "pending"
             /\ f[i].streaming => turns[i].streaming
             /\ turns[i].text # "empty" => f[i].text # "empty"
             /\ f[i].status # "pending"
             /\ f[i].text = turns[i].text
  <2>1. CASE turns[i].status = "pending"
    <3>1. f[i] = [turns[i] EXCEPT !.status = "failed"] /\ turns[i] \in Turn
      BY <1>1, <1>2, <2>1
    <3> QED  BY <3>1 DEF Turn
  <2>2. CASE turns[i].status # "pending"
    BY <1>1, <1>2, <2>2
  <2> QED  BY <2>1, <2>2
<1>6. Rewritten(f)
  <2>1. f = [i \in DOMAIN turns |-> f[i]]
    BY <1>2
  <2> QED  BY <1>5, <2>1, RewrittenTurns
<1>7. CASE placeholder = {}
  <2>1. turns' = f /\ Rewritten(turns')
    BY <1>4, <1>6, <1>7
  <2>2. DOMAIN turns' = DOMAIN turns
    BY <1>2, <2>1
  <2> QED  BY <1>5, <2>1, <2>2, KeptTurns
<1>8. CASE placeholder # {}
  <2>1. PICK k \in DOMAIN turns : k = (CHOOSE i \in placeholder : TRUE) /\ turns[k].text = "empty"
    BY <1>3, <1>8
  <2>2. PICK n \in Nat : n = Len(turns) /\ f \in Seq(Turn) /\ Len(f) = n /\ k \in 1..n /\ DOMAIN turns = 1..n
    BY <1>1, <1>6, <2>1, TurnFields DEF Rewritten
  <2>3. PICK next \in Seq(Turn) :
           /\ next = turns' /\ Len(next) = n - 1 /\ DOMAIN next = 1..(n - 1)
           /\ \A i \in 1..(n - 1) : next[i] = IF i < k THEN f[i] ELSE f[i + 1]
    <3>1. /\ RemoveAt(f, k) \in Seq(Turn) /\ Len(RemoveAt(f, k)) = n - 1
          /\ \A i \in 1..Len(RemoveAt(f, k)) :
                RemoveAt(f, k)[i] = IF i < k THEN f[i] ELSE f[i + 1]
      BY <2>2, RemovedSeq
    <3>2. turns' = RemoveAt(f, k)
      BY <1>4, <1>8, <2>1
    <3> QED  BY <3>1, <3>2, TurnFields
  <2>4. PICK from \in [1..(n - 1) -> 1..n] :
           /\ \A i \in 1..(n - 1) : from[i] = (IF i < k THEN i ELSE i + 1) /\ next[i] = f[from[i]]
           /\ \A i, j \in 1..(n - 1) : from[i] = from[j] => i = j
    <3>1. PICK g : g = [i \in 1..(n - 1) |-> IF i < k THEN i ELSE i + 1]
      OBVIOUS
    <3>2. g \in [1..(n - 1) -> 1..n] /\ \A i \in 1..(n - 1) : g[i] = (IF i < k THEN i ELSE i + 1)
      BY <2>2, <3>1
    <3>3. \A i \in 1..(n - 1) : next[i] = f[g[i]]
      BY <2>3, <3>2
    <3>4. \A i, j \in 1..(n - 1) : g[i] = g[j] => i = j
      BY <2>2, <3>2
    <3> QED  BY <3>2, <3>3, <3>4
  <2>5. \A i \in 1..(n - 1) :
           /\ from[i] \in DOMAIN turns
           /\ next[i].id = turns[from[i]].id /\ next[i].role = turns[from[i]].role
           /\ next[i].of = turns[from[i]].of /\ next[i].text = turns[from[i]].text
           /\ next[i].status # "pending"
    BY <1>5, <2>2, <2>4
  <2>6. TurnsInv'
    <3>1. \A i \in 1..(n - 1) : /\ next[i].id <= nextId
                                /\ next[i].role = "customer" => next[i].text # "empty"
      BY <2>2, <2>5 DEF TurnsInv
    <3>2. \A i, j \in 1..(n - 1) : next[i].id = next[j].id /\ next[i].id # 0 => i = j
      <4> SUFFICES ASSUME NEW i \in 1..(n - 1), NEW j \in 1..(n - 1),
                          next[i].id = next[j].id, next[i].id # 0
                   PROVE  i = j
        OBVIOUS
      <4>1. turns[from[i]].id = turns[from[j]].id /\ turns[from[i]].id # 0
        BY <2>5
      <4>2. from[i] = from[j]
        BY <2>2, <2>5, <4>1 DEF TurnsInv
      <4> QED  BY <2>4, <4>2
    <3> QED  BY <2>3, <3>1, <3>2 DEF TurnsInv
  <2>7. CustomersStay
    <3> SUFFICES ASSUME NEW i \in DOMAIN turns, turns[i].role = "customer"
                 PROVE  \E j \in 1..(n - 1) : next[j].id = turns[i].id /\ next[j].status # "pending"
      BY <2>3 DEF CustomersStay
    <3>1. i # k /\ i \in 1..n
      BY <2>1, <2>2 DEF TurnsInv
    <3>2. PICK j \in 1..(n - 1) : from[j] = i
      <4>1. CASE i < k
        BY <2>2, <2>4, <3>1, <4>1
      <4>2. CASE ~(i < k)
        <5>1. i - 1 \in 1..(n - 1) /\ ~(i - 1 < k) /\ (i - 1) + 1 = i
          BY <2>2, <3>1, <4>2
        <5> QED  BY <2>4, <5>1
      <4> QED  BY <4>1, <4>2
    <3> QED  BY <2>5, <3>2
  <2> QED  BY <2>3, <2>5, <2>6, <2>7 DEF TurnsKept
<1> QED  BY <1>7, <1>8

-----------------------------------------------------------------------------
(* What the steps do to the index. *)

\* A list of conversations that has each once and keeps to its cap.
Index(list) ==
    /\ list \in Seq(IndexedConversation)
    /\ \A i, j \in DOMAIN list : list[i].id = list[j].id => i = j
    /\ Len(list) <= MAX_ENTRIES

\* No conversation is renamed while it is listed.
NamesStay(list) ==
    \A i \in DOMAIN entries, j \in DOMAIN list :
        entries[i].id = list[j].id /\ entries[i].title = "named" => list[j].title = "named"

LEMMA EntryFields ==
    ASSUME NEW list \in Seq(IndexedConversation)
    PROVE  /\ Len(list) \in Nat /\ DOMAIN list = 1..Len(list)
           /\ \A i \in 1..Len(list) : list[i] \in IndexedConversation
BY LenProperties, ElementOfSeq

\* An entry put before others that are of other conversations.
LEMMA FrontEntry ==
    ASSUME NEW rest \in Seq(IndexedConversation), NEW e \in IndexedConversation,
           \A i \in 1..Len(rest) : rest[i].id # e.id,
           \A i, j \in 1..Len(rest) : rest[i].id = rest[j].id => i = j
    PROVE  /\ Index(listing(e, rest))
           /\ 1 \in DOMAIN listing(e, rest) /\ listing(e, rest)[1] = e
           /\ \A i \in DOMAIN listing(e, rest) :
                 listing(e, rest)[i] = e \/ \E k \in 1..Len(rest) : listing(e, rest)[i] = rest[k]
<1>0. PICK list : list = listing(e, rest)
  OBVIOUS
<1>1. PICK n \in Nat : n = Len(rest)
  BY EntryFields
<1>2. PICK all \in Seq(IndexedConversation) :
         /\ all = <<e>> \o rest /\ Len(all) = n + 1 /\ all[1] = e
         /\ \A i \in 1..n : all[i + 1] = rest[i]
  <2>1. <<e>> \in Seq(IndexedConversation) /\ Len(<<e>>) = 1 /\ <<e>>[1] = e
    OBVIOUS
  <2>2. /\ <<e>> \o rest \in Seq(IndexedConversation)
        /\ Len(<<e>> \o rest) = 1 + n /\ 1 + n = n + 1
        /\ \A i \in 1..(1 + n) : (<<e>> \o rest)[i] = IF i <= 1 THEN <<e>>[i] ELSE rest[i - 1]
    BY <1>1, <2>1, ConcatProperties
  <2>3. 1 \in 1..(1 + n) /\ \A i \in 1..n : i + 1 \in 1..(1 + n) /\ ~(i + 1 <= 1) /\ (i + 1) - 1 = i
    OBVIOUS
  <2>4. (<<e>> \o rest)[1] = e /\ \A i \in 1..n : (<<e>> \o rest)[i + 1] = rest[i]
    BY <2>1, <2>2, <2>3
  <2> QED  BY <2>2, <2>4
<1>3. PICK l \in Nat : /\ l = (IF Len(all) < MAX_ENTRIES THEN Len(all) ELSE MAX_ENTRIES)
                       /\ l <= n + 1 /\ l <= MAX_ENTRIES /\ 1 <= l
  BY <1>2, PageAssumption
<1>4. /\ list \in Seq(IndexedConversation) /\ Len(list) = l /\ DOMAIN list = 1..l
      /\ \A i \in 1..l : list[i] = all[i]
  <2>1. \A i \in 1..l : all[i] \in IndexedConversation
    BY <1>2, <1>3, EntryFields
  <2>2. /\ SubSeq(all, 1, l) \in Seq(IndexedConversation) /\ Len(SubSeq(all, 1, l)) = l
        /\ \A i \in 1..l : SubSeq(all, 1, l)[i] = all[i]
    <3>1. /\ SubSeq(all, 1, l) \in Seq(IndexedConversation)
          /\ Len(SubSeq(all, 1, l)) = IF 1 <= l THEN l - 1 + 1 ELSE 0
          /\ \A i \in 1..(l - 1 + 1) : SubSeq(all, 1, l)[i] = all[1 + i - 1]
      BY <2>1, SubSeqProperties
    <3>2. l - 1 + 1 = l /\ \A i \in 1..l : 1 + i - 1 = i
      OBVIOUS
    <3> QED  BY <1>3, <3>1, <3>2
  <2>3. list = SubSeq(all, 1, l)
    BY <1>0, <1>2, <1>3 DEF listing
  <2> QED  BY <2>2, <2>3, EntryFields
<1>5. \A i \in 1..l : \/ i = 1 /\ list[i] = e
                      \/ \E k \in 1..n : i = k + 1 /\ list[i] = rest[k]
  <2> SUFFICES ASSUME NEW i \in 1..l, i # 1 PROVE \E k \in 1..n : i = k + 1 /\ list[i] = rest[k]
    BY <1>2, <1>3, <1>4
  <2>1. i - 1 \in 1..n /\ i = (i - 1) + 1
    BY <1>3
  <2> QED  BY <1>2, <1>4, <2>1
<1>6. \A i, j \in 1..l : list[i].id = list[j].id => i = j
  <2> SUFFICES ASSUME NEW i \in 1..l, NEW j \in 1..l, list[i].id = list[j].id PROVE i = j
    OBVIOUS
  <2>1. CASE list[i] = e /\ i = 1
    BY <1>1, <1>5, <2>1
  <2>2. ASSUME NEW k \in 1..n, i = k + 1, list[i] = rest[k] PROVE i = j
    <3>1. list[j] # e
      BY <1>1, <2>2
    <3>2. PICK m \in 1..n : j = m + 1 /\ list[j] = rest[m]
      BY <1>5, <3>1
    <3>3. k = m
      BY <1>1, <2>2, <3>2
    <3> QED  BY <2>2, <3>2, <3>3
  <2> QED  BY <1>5, <2>1, <2>2
<1>7. Index(list)
  BY <1>3, <1>4, <1>6 DEF Index
<1>8. 1 \in DOMAIN list /\ list[1] = e
  BY <1>2, <1>3, <1>4
<1>9. \A i \in DOMAIN list : list[i] = e \/ \E k \in 1..Len(rest) : list[i] = rest[k]
  BY <1>1, <1>4, <1>5
<1> QED  BY <1>0, <1>7, <1>8, <1>9

\* remember: the conversation is at the front of the list, under its title.
LEMMA Remembered ==
    ASSUME Index(entries), NEW id \in Conversation
    PROVE  /\ Index(remembered(id))
           /\ \E i \in DOMAIN remembered(id) : remembered(id)[i].id = id
           /\ NamesStay(remembered(id))
<1>1. PICK n \in Nat : n = Len(entries) /\ DOMAIN entries = 1..n
  BY EntryFields DEF Index
<1>2. \A i \in 1..n : entries[i] \in IndexedConversation
  BY <1>1, EntryFields DEF Index
<1>3. PICK list : list = remembered(id)
  OBVIOUS
<1>4. CASE Listed(id)
  <2>1. PICK k \in 1..n : /\ k = (CHOOSE i \in DOMAIN entries : entries[i].id = id)
                          /\ entries[k].id = id
    BY <1>1, <1>4 DEF Listed
  <2>2. PICK rest \in Seq(IndexedConversation) :
           /\ rest = RemoveAt(entries, k) /\ Len(rest) = n - 1
           /\ \A i \in 1..(n - 1) : rest[i] = IF i < k THEN entries[i] ELSE entries[i + 1]
    <3>1. entries \in Seq(IndexedConversation) /\ k \in 1..Len(entries)
      BY <1>1 DEF Index
    <3>2. /\ RemoveAt(entries, k) \in Seq(IndexedConversation)
          /\ Len(RemoveAt(entries, k)) = Len(entries) - 1
          /\ \A i \in 1..Len(RemoveAt(entries, k)) :
                RemoveAt(entries, k)[i] = IF i < k THEN entries[i] ELSE entries[i + 1]
      BY <3>1, RemovedSeq
    <3> QED  BY <1>1, <3>2
  <2>3. \A i \in 1..(n - 1) : \E p \in 1..n : /\ p = (IF i < k THEN i ELSE i + 1)
                                               /\ p # k /\ rest[i] = entries[p]
    <3> SUFFICES ASSUME NEW i \in 1..(n - 1)
                 PROVE  \E p \in 1..n : /\ p = (IF i < k THEN i ELSE i + 1)
                                        /\ p # k /\ rest[i] = entries[p]
      OBVIOUS
    <3>1. CASE i < k
      BY <2>2, <3>1
    <3>2. CASE ~(i < k)
      <4>1. i + 1 \in 1..n /\ i + 1 # k
        BY <3>2
      <4> QED  BY <2>2, <3>2, <4>1
    <3> QED  BY <3>1, <3>2
  <2>4. \A i \in 1..(n - 1) : rest[i].id # id
    BY <1>1, <2>1, <2>3 DEF Index
  <2>5. \A i, j \in 1..(n - 1) : rest[i].id = rest[j].id => i = j
    <3> SUFFICES ASSUME NEW i \in 1..(n - 1), NEW j \in 1..(n - 1), rest[i].id = rest[j].id
                 PROVE  i = j
      OBVIOUS
    <3>1. PICK p \in 1..n : p = (IF i < k THEN i ELSE i + 1) /\ rest[i] = entries[p]
      BY <2>3
    <3>2. PICK q \in 1..n : q = (IF j < k THEN j ELSE j + 1) /\ rest[j] = entries[q]
      BY <2>3
    <3>3. p = q
      BY <1>1, <3>1, <3>2 DEF Index
    <3> QED  BY <3>1, <3>2, <3>3
  <2>6. PICK e \in IndexedConversation : e = entries[k] /\ e.id = id
    BY <1>2, <2>1
  <2>7. list = listing(e, rest)
    <3>1. remembered(id) = listing(entries[CHOOSE i \in DOMAIN entries : entries[i].id = id],
                            RemoveAt(entries, CHOOSE i \in DOMAIN entries : entries[i].id = id))
      BY <1>4 DEF remembered
    <3> QED  BY <1>3, <2>1, <2>2, <2>6, <3>1
  <2>8. /\ Index(list) /\ 1 \in DOMAIN list /\ list[1] = e
        /\ \A i \in DOMAIN list : list[i] = e \/ \E j \in 1..Len(rest) : list[i] = rest[j]
    <3>1. /\ \A i \in 1..Len(rest) : rest[i].id # e.id
          /\ \A i, j \in 1..Len(rest) : rest[i].id = rest[j].id => i = j
      BY <2>2, <2>4, <2>5, <2>6
    <3> QED  BY <2>7, <3>1, FrontEntry
  <2>9. \A j \in DOMAIN list : \E p \in 1..n : list[j] = entries[p]
    BY <2>2, <2>3, <2>6, <2>8
  <2>10. NamesStay(list)
    BY <1>1, <2>9 DEF Index, NamesStay
  <2> QED  BY <1>3, <2>6, <2>8, <2>10
<1>5. CASE ~Listed(id)
  <2>1. PICK e \in IndexedConversation : e = [id |-> id, title |-> "untitled"] /\ e.id = id
    <3>1. [id |-> id, title |-> "untitled"] \in IndexedConversation
      BY DEF IndexedConversation
    <3> QED  BY <3>1
  <2>2. \A i \in 1..n : entries[i].id # id
    BY <1>1, <1>5 DEF Listed
  <2>3. list = listing(e, entries)
    BY <1>3, <1>5, <2>1 DEF remembered
  <2>4. /\ entries \in Seq(IndexedConversation)
        /\ \A i, j \in 1..Len(entries) : entries[i].id = entries[j].id => i = j
        /\ \A i \in 1..Len(entries) : entries[i].id # e.id
    BY <1>1, <2>1, <2>2 DEF Index
  <2>5. /\ Index(list) /\ 1 \in DOMAIN list /\ list[1] = e
        /\ \A i \in DOMAIN list : list[i] = e \/ \E j \in 1..Len(entries) : list[i] = entries[j]
    BY <2>3, <2>4, FrontEntry
  <2>6. NamesStay(list)
    BY <1>1, <2>1, <2>2, <2>5 DEF Index, NamesStay
  <2> QED  BY <1>3, <2>1, <2>5, <2>6
<1> QED  BY <1>4, <1>5

\* nameIfUnnamed: the same conversations, one of which may get its name.
LEMMA Named ==
    ASSUME Index(entries), NEW id
    PROVE  /\ Index(named(id)) /\ NamesStay(named(id))
           /\ DOMAIN named(id) = DOMAIN entries
           /\ \A i \in DOMAIN entries : named(id)[i].id = entries[i].id
<1>1. PICK n \in Nat : n = Len(entries) /\ DOMAIN entries = 1..n
  BY EntryFields DEF Index
<1>2. \A i \in 1..n : entries[i] \in IndexedConversation
  BY <1>1, EntryFields DEF Index
<1>3. PICK f : f = named(id)
  OBVIOUS
<1>4. ASSUME NEW i \in 1..n
      PROVE  /\ f[i] \in IndexedConversation /\ f[i].id = entries[i].id
             /\ entries[i].title = "named" => f[i].title = "named"
  <2>1. CASE entries[i].id = id
    <3>1. f[i] = [entries[i] EXCEPT !.title = "named"] /\ entries[i] \in IndexedConversation
      BY <1>1, <1>2, <1>3, <2>1 DEF named
    <3> QED  BY <3>1 DEF IndexedConversation
  <2>2. CASE entries[i].id # id
    BY <1>1, <1>2, <1>3, <2>2 DEF named
  <2> QED  BY <2>1, <2>2
<1>5. f \in [1..n -> IndexedConversation]
  <2>1. f = [i \in 1..n |-> f[i]]
    BY <1>1, <1>3 DEF named
  <2> QED  BY <1>4, <2>1
<1>6. f \in Seq(IndexedConversation) /\ Len(f) = n /\ DOMAIN f = 1..n
  BY <1>5, MapSeq
<1>7. Index(f) /\ NamesStay(f)
  BY <1>1, <1>4, <1>6 DEF Index, NamesStay
<1> QED  BY <1>1, <1>3, <1>4, <1>6, <1>7

-----------------------------------------------------------------------------
(* What the steps do to the rest. *)

\* What a step is shown to do.
Kept ==
    /\ PageInv'
    /\ Emptied \/ CustomersStay
    /\ NamesStay(entries')

LEMMA IndexRemembered ==
    ASSUME PageInv, conversationId' \in Id, RememberNew
    PROVE  Index(entries') /\ IndexListsTheScreen' /\ NamesStay(entries')
<1>1. Index(entries) /\ (conversationId # None => Listed(conversationId))
  BY DEF PageInv, TypeOK, IndexListsTheScreen, Index
<1>2. CASE conversationId' # None /\ conversationId' # conversationId
  <2>1. conversationId' \in Conversation /\ entries' = remembered(conversationId')
    BY <1>2 DEF RememberNew, Id
  <2>2. PICK id \in Conversation : id = conversationId'
    BY <2>1
  <2>3. /\ Index(entries') /\ NamesStay(entries')
        /\ \E i \in DOMAIN entries' : entries'[i].id = id
    BY <1>1, <2>1, <2>2, Remembered
  <2> QED  BY <2>2, <2>3 DEF Index, IndexListsTheScreen, Listed
<1>3. CASE conversationId' = None \/ conversationId' = conversationId
  <2>1. entries' = entries
    BY <1>3 DEF RememberNew
  <2> QED  BY <1>1, <1>3, <2>1 DEF Index, IndexListsTheScreen, Listed, NamesStay
<1> QED  BY <1>2, <1>3

LEMMA IndexSame ==
    ASSUME PageInv, conversationId' \in {conversationId, None}, entries' = entries
    PROVE  Index(entries') /\ IndexListsTheScreen' /\ NamesStay(entries')
BY DEF PageInv, TypeOK, IndexListsTheScreen, Index, Listed, NamesStay

LEMMA IndexNamed ==
    ASSUME PageInv, conversationId' = conversationId, NEW id, entries' = named(id)
    PROVE  Index(entries') /\ IndexListsTheScreen' /\ NamesStay(entries')
<1>1. Index(entries) /\ (conversationId # None => Listed(conversationId))
  BY DEF PageInv, TypeOK, IndexListsTheScreen, Index
<1>2. /\ Index(entries') /\ NamesStay(entries')
      /\ DOMAIN entries' = DOMAIN entries
      /\ \A i \in DOMAIN entries : entries'[i].id = entries[i].id
  BY <1>1, Named
<1> QED  BY <1>1, <1>2 DEF Index, IndexListsTheScreen, Listed

\* What a call captured.
LEMMA CallFields ==
    ASSUME NEW call \in Call
    PROVE  /\ call.kind = "send" => call.pendingId \in Nat /\ call.conversation_id \in Id
           /\ call.kind = "history" => call.id \in Conversation
BY DEF Call

\* The questions under way over HTTP are the same.
LEMMA CountSame ==
    ASSUME PageInv, UNCHANGED <<nextId, asked>>, Sends' = Sends
    PROVE  CountInv' /\ nextId' \in 0..(2 * MaxQuestions)
<1>1. Cardinality(Sends) \in Nat /\ Cardinality(Sends') = Cardinality(Sends)
  BY FS_CardinalityType DEF PageInv, CountInv
<1> QED  BY <1>1 DEF PageInv, CountInv, TypeOK

LEMMA SendsSame ==
    ASSUME NEW call, call.kind # "send", calls' = calls \ {call} \/ calls' = calls \cup {call}
    PROVE  Sends' = Sends
BY DEF Sends

\* Nothing that waited loses what it waits for.
LEMMA BackedSame ==
    ASSUME PageInv, UNCHANGED <<sending, streamingId, awaiting>>, Sends' = Sends,
           turns' = turns \/ \A i \in DOMAIN turns' : turns'[i].status # "pending"
    PROVE  WaitingIsBacked'
<1>1. WaitingIsBacked
  BY DEF PageInv
<1>2. UnderWay => UnderWay'
  BY DEF UnderWay, Sends
<1>3. /\ sending' => UnderWay'
      /\ streamingId' # None => awaiting'
  BY <1>1, <1>2 DEF WaitingIsBacked
<1>4. CASE turns' = turns
  <2>1. ASSUME NEW i \in DOMAIN turns', turns'[i].status = "pending"
        PROVE  \/ streamingId' # None
               \/ \E call \in calls' : call.kind = "send" /\ call.pendingId = turns'[i].id
    BY <1>1, <1>4, <2>1 DEF WaitingIsBacked, Sends
  <2>2. ASSUME NEW i \in DOMAIN turns', turns'[i].streaming, turns'[i].status = "pending"
        PROVE  turns'[i].id = streamingId'
    BY <1>1, <1>4, <2>2 DEF WaitingIsBacked
  <2> QED  BY <1>3, <2>1, <2>2 DEF WaitingIsBacked
<1>5. CASE \A i \in DOMAIN turns' : turns'[i].status # "pending"
  BY <1>3, <1>5 DEF WaitingIsBacked
<1> QED  BY <1>4, <1>5

\* The screen shows another conversation only at the price of the ghost.
LEMMA OfCrossed ==
    ASSUME PageInv, Cross, Sends' = Sends,
           \/ \A i \in DOMAIN turns' : turns'[i].of = conversationId'
           \/ turns' = turns /\ conversationId' = conversationId
    PROVE  OfInv'
<1> SUFFICES ASSUME ~crossed' PROVE OfInv'
  BY DEF OfInv
<1>1. ~crossed /\ (conversationId' # conversationId => ~UnderWay)
  BY DEF Cross
<1>2. /\ \A i \in DOMAIN turns : turns[i].of = conversationId
      /\ \A call \in Sends : call.conversation_id = conversationId
  BY <1>1 DEF PageInv, OfInv
<1>3. ~UnderWay => Sends = {}
  BY DEF UnderWay, Sends
<1> QED  BY <1>1, <1>2, <1>3 DEF OfInv

\* A list with nothing in it, and one with a turn read from the server.
LEMMA FreshTurns ==
    ASSUME nextId' \in Nat,
           turns' = <<>> \/ \E c \in Conversation : turns' = <<server_turn(c)>>
    PROVE  /\ TurnsKept
           /\ \A i \in DOMAIN turns' : turns'[i].status = "sent"
<1>1. CASE turns' = <<>>
  <2>1. turns' \in Seq(Turn) /\ Len(turns') = 0 /\ DOMAIN turns' = {}
    BY <1>1
  <2> QED  BY <1>1, <2>1 DEF TurnsKept, TurnsInv, Emptied
<1>2. ASSUME NEW c \in Conversation, turns' = <<server_turn(c)>>
      PROVE  /\ TurnsKept
             /\ \A i \in DOMAIN turns' : turns'[i].status = "sent"
  <2>1. PICK t \in Turn : t = server_turn(c) /\ t.id = 0 /\ t.status = "sent" /\ t.text = "full"
    <3>1. server_turn(c) \in Turn /\ server_turn(c).id = 0 /\ server_turn(c).status = "sent"
          /\ server_turn(c).text = "full"
      BY DEF server_turn, Turn, Id
    <3> QED  BY <3>1
  <2>2. /\ <<t>> \in Seq(Turn) /\ Len(<<t>>) = 1 /\ DOMAIN <<t>> = {1} /\ <<t>>[1] = t
    OBVIOUS
  <2>3. turns' = <<t>>
    BY <1>2, <2>1
  <2>4. Emptied
    BY <1>2 DEF Emptied
  <2>5. TurnsInv'
    BY <2>1, <2>2, <2>3 DEF TurnsInv
  <2> QED  BY <2>1, <2>2, <2>3, <2>4, <2>5 DEF TurnsKept
<1> QED  BY <1>1, <1>2

\* The turns as they are.
LEMMA UnchangedTurns ==
    ASSUME PageInv, turns' = turns, nextId' = nextId
    PROVE  TurnsKept
<1>1. turns \in Seq(Turn) /\ TurnsInv /\ nextId \in Nat
  BY DEF PageInv, TypeOK
<1> QED  BY <1>1, SameTurns, KeptTurns

-----------------------------------------------------------------------------
(* The steps. *)

\* LoadHistory and Start, up to the await.
LEMMA CallStep ==
    ASSUME PageInv, (\E id \in Conversation : LoadHistory(id)) \/ Start
    PROVE  Kept
<1>1. PICK call \in Call : call.kind # "send" /\ calls' = calls \cup {call}
  <2>1. \A id \in Conversation :
           [kind |-> "history", id |-> id] \in Call /\ [kind |-> "history", id |-> id].kind # "send"
    BY DEF Call
  <2>2. [kind |-> "start"] \in Call /\ [kind |-> "start"].kind # "send"
    BY DEF Call
  <2> QED  BY <2>1, <2>2 DEF LoadHistory, Start
<1>2. /\ loading' = TRUE
      /\ UNCHANGED <<conversationId, storedId, turns, sending, failure, authRequired,
                     streamingId, nextId, entries, socketVars, keyVars, asked, crossed>>
  BY DEF LoadHistory, Start
<1>3. Sends' = Sends
  BY <1>1, SendsSame
<1>4. TurnsKept
  BY <1>2, UnchangedTurns
<1>5. Index(entries') /\ IndexListsTheScreen' /\ NamesStay(entries')
  BY <1>2, IndexSame
<1>6. CountInv' /\ WaitingIsBacked'
  BY <1>2, <1>3, CountSame, BackedSame DEF socketVars
<1>7. OfInv'
  BY <1>2, <1>3 DEF PageInv, OfInv
<1>8. calls' \subseteq Call
  BY <1>1 DEF PageInv, TypeOK
<1>9. TypeOK'
  BY <1>2, <1>4, <1>5, <1>8 DEF PageInv, TypeOK, TurnsKept, Index, socketVars, keyVars
<1> QED  BY <1>4, <1>5, <1>6, <1>7, <1>9 DEF Kept, PageInv, TurnsKept

LEMMA FailureShown ==
    ASSUME NEW status, ShowFailure(status)
    PROVE  failure' \in FailureKind \cup {None} /\ authRequired' \in BOOLEAN
BY DEF ShowFailure, failureFrom, FailureKind

\* The answer to a call that was to bring a conversation.
LEMMA OpenedStep ==
    ASSUME PageInv, NEW call \in calls, Opened(call)
    PROVE  Kept
<1>1. /\ call.kind # "send" /\ calls' = calls \ {call} /\ loading' = FALSE /\ RememberNew /\ Cross
      /\ UNCHANGED <<sending, streamingId, nextId, socketVars, keyVars, asked>>
  BY DEF Opened, HistoryLoaded, HistoryRefused, Started, StartRefused
<1>2. /\ conversationId' \in Id /\ storedId' \in Id
      /\ failure' \in FailureKind \cup {None} /\ authRequired' \in BOOLEAN
  <2>0. /\ conversationId \in Id /\ storedId \in Id /\ None \in Id
        /\ failure \in FailureKind \cup {None} /\ authRequired \in BOOLEAN
        /\ Conversation \subseteq Id /\ call \in Call
    BY DEF PageInv, TypeOK, Id
  <2>1. CASE HistoryLoaded(call)
    BY <2>0, <2>1, CallFields DEF HistoryLoaded, ClearFailure
  <2>2. CASE \E c \in Conversation : Started(call, c)
    BY <2>0, <2>2 DEF Started, ClearFailure
  <2>3. CASE \E status \in Status : HistoryRefused(call, status)
    BY <2>0, <2>3, FailureShown DEF HistoryRefused
  <2>4. CASE \E status \in Status : StartRefused(call, status)
    BY <2>0, <2>4, FailureShown DEF StartRefused
  <2> QED  BY <2>1, <2>2, <2>3, <2>4 DEF Opened
<1>3. \/ turns' = turns /\ conversationId' = conversationId
      \/ turns' = <<>>
      \/ turns' = <<server_turn(conversationId')>> /\ conversationId' \in Conversation
  <2>1. CASE HistoryLoaded(call)
    <3>1. call.id \in Conversation
      BY <2>1, CallFields DEF HistoryLoaded, PageInv, TypeOK
    <3> QED  BY <2>1, <3>1 DEF HistoryLoaded
  <2>2. CASE ~HistoryLoaded(call)
    BY <2>2 DEF Opened, HistoryRefused, Started, StartRefused
  <2> QED  BY <2>1, <2>2
<1>4. nextId' = nextId /\ nextId \in Nat
  BY <1>1 DEF PageInv, TypeOK
<1>5. Sends' = Sends
  BY <1>1, SendsSame
<1>6. CASE turns' = turns /\ conversationId' = conversationId
  <2>1. TurnsKept /\ WaitingIsBacked' /\ OfInv'
    BY <1>1, <1>4, <1>5, <1>6, UnchangedTurns, BackedSame, OfCrossed DEF socketVars
  <2>2. Index(entries') /\ IndexListsTheScreen' /\ NamesStay(entries') /\ CountInv'
    BY <1>1, <1>2, <1>5, IndexRemembered, CountSame
  <2>3. TypeOK'
    BY <1>1, <1>2, <2>1, <2>2 DEF PageInv, TypeOK, TurnsKept, Index, socketVars, keyVars, Cross
  <2> QED  BY <2>1, <2>2, <2>3 DEF Kept, PageInv, TurnsKept
<1>7. CASE turns' = <<>> \/ (turns' = <<server_turn(conversationId')>> /\ conversationId' \in Conversation)
  <2>1. TurnsKept /\ \A i \in DOMAIN turns' : turns'[i].status # "pending"
    BY <1>4, <1>7, FreshTurns
  <2>2. WaitingIsBacked'
    BY <1>1, <1>5, <2>1, BackedSame DEF socketVars
  <2>3. \A i \in DOMAIN turns' : turns'[i].of = conversationId'
    <3>1. CASE turns' = <<>>
      BY <3>1
    <3>2. CASE turns' = <<server_turn(conversationId')>>
      BY <3>2 DEF server_turn
    <3> QED  BY <1>7, <3>1, <3>2
  <2>4. OfInv'
    BY <1>1, <1>5, <2>3, OfCrossed
  <2>5. Index(entries') /\ IndexListsTheScreen' /\ NamesStay(entries') /\ CountInv'
    BY <1>1, <1>2, <1>5, IndexRemembered, CountSame
  <2>6. TypeOK'
    BY <1>1, <1>2, <2>1, <2>5 DEF PageInv, TypeOK, TurnsKept, Index, socketVars, keyVars, Cross
  <2> QED  BY <2>1, <2>2, <2>4, <2>5, <2>6 DEF Kept, PageInv, TurnsKept
<1> QED  BY <1>3, <1>6, <1>7

\* reset.
LEMMA ResetStep ==
    ASSUME PageInv, Reset
    PROVE  Kept
<1>1. /\ turns' = <<>> /\ conversationId' = None /\ storedId' = None /\ streamingId' = None
      /\ failure' = None /\ authRequired' = FALSE /\ crossed' = (crossed \/ UnderWay)
      /\ UNCHANGED <<sending, loading, nextId, calls, entries, socketVars, keyVars, asked>>
  BY DEF Reset, ClearFailure
<1>2. nextId' \in Nat
  BY <1>1 DEF PageInv, TypeOK
<1>3. TurnsKept /\ DOMAIN turns' = {}
  BY <1>1, <1>2, FreshTurns
<1>4. Index(entries') /\ IndexListsTheScreen' /\ NamesStay(entries')
  BY <1>1, IndexSame
<1>5. CountInv'
  BY <1>1, CountSame DEF Sends
<1>6. WaitingIsBacked'
  BY <1>1, <1>3 DEF PageInv, WaitingIsBacked, UnderWay, socketVars
<1>7. OfInv'
  <2>1. ~UnderWay => Sends' = {}
    BY <1>1 DEF UnderWay, Sends
  <2> QED  BY <1>1, <1>3, <2>1 DEF OfInv
<1>8. TypeOK'
  BY <1>1, <1>3, <1>4 DEF PageInv, TypeOK, TurnsKept, Index, socketVars, keyVars, Id
<1> QED  BY <1>3, <1>4, <1>5, <1>6, <1>7, <1>8 DEF Kept, PageInv, TurnsKept

\* The page is loaded again.
LEMMA ReloadStep ==
    ASSUME PageInv, Reload
    PROVE  Kept
<1>1. /\ turns' = <<>> /\ conversationId' = None /\ streamingId' = None /\ sending' = FALSE
      /\ awaiting' = FALSE /\ failure' = None /\ authRequired' = FALSE
      /\ loading' \in BOOLEAN /\ crossed' = FALSE /\ authEnforced' = "unknown"
      /\ calls' = {[kind |-> "history", id |-> c] : c \in {storedId} \ {None}}
      /\ sockets' = <<>> /\ socketRef' = None
      /\ UNCHANGED <<storedId, nextId, entries, apiKey, asked>>
  BY DEF Reload, ClearFailure
<1>2. nextId' \in Nat
  BY <1>1 DEF PageInv, TypeOK
<1>3. TurnsKept /\ DOMAIN turns' = {}
  BY <1>1, <1>2, FreshTurns
<1>4. Index(entries') /\ IndexListsTheScreen' /\ NamesStay(entries')
  BY <1>1, IndexSame
<1>5. Sends' = {}
  BY <1>1 DEF Sends
<1>6. CountInv' /\ nextId' \in 0..(2 * MaxQuestions)
  <2>1. Cardinality(Sends) \in Nat /\ IsFiniteSet(Sends') /\ Cardinality(Sends') = 0
    BY <1>5, FS_EmptySet, FS_CardinalityType DEF PageInv, CountInv
  <2> QED  BY <1>1, <1>2, <2>1 DEF PageInv, CountInv, TypeOK
<1>7. WaitingIsBacked'
  BY <1>1, <1>3 DEF WaitingIsBacked
<1>8. OfInv'
  BY <1>3, <1>5 DEF OfInv
<1>9. calls' \subseteq Call
  BY <1>1 DEF PageInv, TypeOK, Call, Id
<1>10. DOMAIN sockets' = {} /\ socketRef' \in 1..MaxSockets \cup {None}
  BY <1>1
<1>11. TypeOK'
  BY <1>1, <1>3, <1>4, <1>6, <1>9, <1>10 DEF PageInv, TypeOK, TurnsKept, Index, Id
<1> QED  BY <1>3, <1>4, <1>6, <1>7, <1>8, <1>11 DEF Kept, PageInv, TurnsKept

\* What a question leaves of the index, whichever way it goes.
LEMMA IndexAsked ==
    ASSUME PageInv, conversationId' = conversationId,
           entries' = IF conversationId # None THEN named(conversationId) ELSE entries
    PROVE  Index(entries') /\ IndexListsTheScreen' /\ NamesStay(entries')
<1>1. CASE conversationId # None
  <2>1. entries' = named(conversationId)
    BY <1>1
  <2> QED  BY <2>1, IndexNamed
<1>2. CASE conversationId = None
  <2>1. entries' = entries
    BY <1>2
  <2> QED  BY <2>1, IndexSame
<1> QED  BY <1>1, <1>2

\* A question the socket takes: nothing was streamed before it.
LEMMA SendStreamStep ==
    ASSUME PageInv, Send(TRUE)
    PROVE  Kept
<1>1. /\ Askable /\ asked < MaxQuestions
      /\ entries' = IF conversationId # None THEN named(conversationId) ELSE entries
      /\ sending' = TRUE /\ awaiting' = TRUE /\ failure' = None /\ authRequired' = FALSE
      /\ nextId' = nextId + 2 /\ asked' = asked + 1 /\ streamingId' = nextId + 2
      /\ sockets' = [sockets EXCEPT ![socketRef] = Append(@, conversationId)]
      /\ turns' = turns \o << local_turn(nextId + 1, "customer", "full", FALSE),
                              local_turn(nextId + 2, "assistant", "empty", TRUE) >>
      /\ UNCHANGED <<conversationId, storedId, loading, socketRef, keyVars, crossed, calls>>
  BY DEF Send, ClearFailure
<1>2. /\ nextId \in Nat /\ turns \in Seq(Turn) /\ TurnsInv /\ conversationId \in Id
      /\ WaitingIsBacked /\ None \notin Nat
  BY PageAssumption DEF PageInv, TypeOK
<1>3. streamingId = None
  BY <1>1, <1>2 DEF Askable, WaitingIsBacked
<1>4. nextId + 1 \in Nat /\ nextId + 2 \in Nat /\ nextId + 1 # nextId + 2
  BY <1>2
<1>5. PICK q \in Turn : /\ q = local_turn(nextId + 1, "customer", "full", FALSE)
                        /\ q.id = nextId + 1 /\ q.text = "full" /\ q.streaming = FALSE
                        /\ q.of = conversationId
  <2>1. /\ local_turn(nextId + 1, "customer", "full", FALSE) \in Turn
        /\ local_turn(nextId + 1, "customer", "full", FALSE).id = nextId + 1
        /\ local_turn(nextId + 1, "customer", "full", FALSE).text = "full"
        /\ local_turn(nextId + 1, "customer", "full", FALSE).streaming = FALSE
        /\ local_turn(nextId + 1, "customer", "full", FALSE).of = conversationId
    BY <1>2, <1>4 DEF local_turn, Turn
  <2> QED  BY <2>1
<1>6. PICK a \in Turn : /\ a = local_turn(nextId + 2, "assistant", "empty", TRUE)
                        /\ a.id = nextId + 2 /\ a.role = "assistant" /\ a.of = conversationId
  <2>1. /\ local_turn(nextId + 2, "assistant", "empty", TRUE) \in Turn
        /\ local_turn(nextId + 2, "assistant", "empty", TRUE).id = nextId + 2
        /\ local_turn(nextId + 2, "assistant", "empty", TRUE).role = "assistant"
        /\ local_turn(nextId + 2, "assistant", "empty", TRUE).of = conversationId
    BY <1>2, <1>4 DEF local_turn, Turn
  <2> QED  BY <2>1
<1>7. PICK extra \in Seq(Turn) : /\ extra = <<q, a>> /\ Len(extra) = 2
                                 /\ extra[1] = q /\ extra[2] = a
  <2>1. <<q, a>> \in Seq(Turn) /\ Len(<<q, a>>) = 2 /\ <<q, a>>[1] = q /\ <<q, a>>[2] = a
    OBVIOUS
  <2> QED  BY <2>1
<1>8. /\ turns' = turns \o extra /\ Rewritten(turns)
      /\ nextId' \in Nat /\ nextId <= nextId'
      /\ \A i \in 1..Len(extra) : /\ nextId < extra[i].id /\ extra[i].id <= nextId'
                                  /\ extra[i].role = "customer" => extra[i].text # "empty"
      /\ \A i, k \in 1..Len(extra) : extra[i].id = extra[k].id => i = k
  <2>1. turns' = turns \o extra /\ Rewritten(turns)
    BY <1>1, <1>2, <1>5, <1>6, <1>7, SameTurns
  <2>2. nextId' \in Nat /\ nextId <= nextId'
    BY <1>1, <1>2
  <2>3. \A i \in 1..Len(extra) : i = 1 \/ i = 2
    BY <1>7
  <2>4. \A i \in 1..Len(extra) : /\ nextId < extra[i].id /\ extra[i].id <= nextId'
                                 /\ extra[i].role = "customer" => extra[i].text # "empty"
    <3>1. nextId' = nextId + 2
      BY <1>1
    <3>2. nextId < nextId + 1 /\ nextId + 1 <= nextId + 2 /\ nextId < nextId + 2 /\ nextId + 2 <= nextId + 2
      BY <1>2
    <3>3. nextId < q.id /\ q.id <= nextId' /\ nextId < a.id /\ a.id <= nextId'
      BY <1>5, <1>6, <3>1, <3>2
    <3>4. q.text # "empty" /\ a.role # "customer"
      BY <1>5, <1>6
    <3> QED  BY <1>7, <2>3, <3>3, <3>4
  <2>5. \A i, k \in 1..Len(extra) : extra[i].id = extra[k].id => i = k
    <3>1. q.id # a.id
      BY <1>4, <1>5, <1>6
    <3> QED  BY <1>7, <2>3, <3>1
  <2> QED  BY <2>1, <2>2, <2>4, <2>5
<1>9. /\ TurnsKept
      /\ \A i \in 1..Len(turns) : turns'[i] = turns[i]
      /\ \A i \in 1..Len(extra) : turns'[Len(turns) + i] = extra[i]
      /\ \A i \in 1..Len(turns') :
            i \in 1..Len(turns) \/ \E k \in 1..Len(extra) : i = Len(turns) + k
  BY <1>2, <1>8, GrownTurns
<1>10. \A i \in DOMAIN turns' : \/ i \in DOMAIN turns /\ turns'[i] = turns[i]
                                \/ turns'[i] = q \/ turns'[i] = a
  <2>1. DOMAIN turns' = 1..Len(turns') /\ DOMAIN turns = 1..Len(turns)
    BY <1>2, <1>9, TurnFields DEF TurnsKept
  <2>2. \A i \in 1..Len(extra) : extra[i] = q \/ extra[i] = a
    BY <1>7
  <2> QED  BY <1>9, <2>1, <2>2
<1>11. streamingId' # None /\ streamingId' \in 0..nextId' /\ UnderWay'
  BY <1>1, <1>2, <1>4 DEF UnderWay
<1>12. WaitingIsBacked'
  <2>1. \A i \in DOMAIN turns : ~(turns[i].streaming /\ turns[i].status = "pending")
    BY <1>2, <1>3, TurnFields DEF WaitingIsBacked
  <2>2. \A i \in DOMAIN turns' :
           turns'[i].streaming /\ turns'[i].status = "pending" => turns'[i].id = streamingId'
    BY <1>1, <1>5, <1>6, <1>10, <2>1
  <2> QED  BY <1>1, <1>11, <2>2 DEF WaitingIsBacked
<1>13. OfInv'
  BY <1>1, <1>5, <1>6, <1>10 DEF PageInv, OfInv, Sends
<1>14. CountInv' /\ nextId' \in 0..(2 * MaxQuestions)
  <2>1. Sends' = Sends
    BY <1>1 DEF Sends
  <2>2. Cardinality(Sends) \in Nat /\ asked \in Nat /\ asked + 1 \in 0..MaxQuestions
        /\ MaxQuestions \in Nat /\ nextId + Cardinality(Sends) <= 2 * asked /\ IsFiniteSet(Sends)
    BY <1>1, FS_CardinalityType, PageAssumption DEF PageInv, CountInv
  <2>3. nextId + 2 + Cardinality(Sends) <= 2 * (asked + 1) /\ nextId + 2 \in 0..(2 * MaxQuestions)
    BY <1>2, <2>2
  <2>4. Cardinality(Sends') = Cardinality(Sends) /\ IsFiniteSet(Sends')
    BY <2>1, <2>2
  <2> QED  BY <1>1, <2>2, <2>3, <2>4 DEF CountInv
<1>15. Index(entries') /\ IndexListsTheScreen' /\ NamesStay(entries')
  BY <1>1, IndexAsked
<1>16. DOMAIN sockets' \subseteq 1..MaxSockets /\ \A s \in DOMAIN sockets' : sockets'[s] \in Seq(Id)
  BY <1>1 DEF PageInv, TypeOK
<1>17. TypeOK'
  BY <1>1, <1>9, <1>11, <1>14, <1>15, <1>16 DEF PageInv, TypeOK, TurnsKept, Index, keyVars
<1> QED  BY <1>9, <1>12, <1>13, <1>14, <1>15, <1>17 DEF Kept, PageInv, TurnsKept

\* Turns rewritten, and one put after them.
LEMMA AppendedTurn ==
    ASSUME turns \in Seq(Turn), TurnsInv, nextId \in Nat, NEW new, Rewritten(new),
           NEW t \in Turn, turns' = Append(new, t), nextId' = nextId + 1, t.id = nextId + 1,
           t.role = "customer" => t.text # "empty"
    PROVE  /\ TurnsKept
           /\ \A i \in DOMAIN turns' : (i \in DOMAIN turns /\ turns'[i] = new[i]) \/ turns'[i] = t
<1>1. PICK extra \in Seq(Turn) : extra = <<t>> /\ Len(extra) = 1 /\ extra[1] = t
  <2>1. <<t>> \in Seq(Turn) /\ Len(<<t>>) = 1 /\ <<t>>[1] = t
    OBVIOUS
  <2> QED  BY <2>1
<1>2. turns' = new \o extra
  <2>1. new \in Seq(Turn)
    BY DEF Rewritten
  <2> QED  BY <1>1, <2>1, AppendIsConcat
<1>3. \A i \in 1..Len(extra) : extra[i] = t
  <2>1. \A i \in 1..Len(extra) : i = 1
    BY <1>1
  <2> QED  BY <1>1, <2>1
<1>4. /\ nextId' \in Nat /\ nextId <= nextId'
      /\ \A i \in 1..Len(extra) : /\ nextId < extra[i].id /\ extra[i].id <= nextId'
                                  /\ extra[i].role = "customer" => extra[i].text # "empty"
      /\ \A i, k \in 1..Len(extra) : extra[i].id = extra[k].id => i = k
  <2>1. \A i, k \in 1..Len(extra) : i = k
    BY <1>1
  <2>2. nextId' \in Nat /\ nextId <= nextId' /\ nextId < t.id /\ t.id <= nextId'
    OBVIOUS
  <2> QED  BY <1>3, <2>1, <2>2
<1>5. /\ TurnsKept
      /\ \A i \in 1..Len(turns) : turns'[i] = new[i]
      /\ \A i \in 1..Len(extra) : turns'[Len(turns) + i] = extra[i]
      /\ \A i \in 1..Len(turns') :
            i \in 1..Len(turns) \/ \E k \in 1..Len(extra) : i = Len(turns) + k
  BY <1>2, <1>4, GrownTurns
<1>6. DOMAIN turns' = 1..Len(turns') /\ DOMAIN turns = 1..Len(turns)
  BY <1>5, TurnFields DEF TurnsKept
<1>7. ASSUME NEW i \in 1..Len(turns')
      PROVE  (i \in 1..Len(turns) /\ turns'[i] = new[i]) \/ turns'[i] = t
  <2>1. CASE i \in 1..Len(turns)
    BY <1>5, <2>1
  <2>2. ASSUME NEW k \in 1..Len(extra), i = Len(turns) + k PROVE turns'[i] = t
    BY <1>3, <1>5, <2>2
  <2> QED  BY <1>5, <2>1, <2>2
<1> QED  BY <1>5, <1>6, <1>7

\* A question sent over HTTP: the call is what its turn waits for.
LEMMA SendHttpStep ==
    ASSUME PageInv, Send(FALSE)
    PROVE  Kept
<1>1. /\ asked < MaxQuestions
      /\ entries' = IF conversationId # None THEN named(conversationId) ELSE entries
      /\ sending' = TRUE /\ failure' = None /\ authRequired' = FALSE
      /\ nextId' = nextId + 1 /\ asked' = asked + 1
      /\ turns' = Append(turns, local_turn(nextId + 1, "customer", "full", FALSE))
      /\ calls' = calls \cup {[kind |-> "send", pendingId |-> nextId + 1,
                               conversation_id |-> conversationId]}
      /\ UNCHANGED <<conversationId, storedId, loading, streamingId, socketVars, keyVars, crossed>>
  BY DEF Send, ClearFailure, socketVars
<1>2. /\ nextId \in Nat /\ turns \in Seq(Turn) /\ TurnsInv /\ conversationId \in Id
      /\ WaitingIsBacked /\ nextId + 1 \in Nat
  BY DEF PageInv, TypeOK
<1>3. PICK q \in Turn : /\ q = local_turn(nextId + 1, "customer", "full", FALSE)
                        /\ q.id = nextId + 1 /\ q.text = "full" /\ q.streaming = FALSE
                        /\ q.of = conversationId
  <2>1. /\ local_turn(nextId + 1, "customer", "full", FALSE) \in Turn
        /\ local_turn(nextId + 1, "customer", "full", FALSE).id = nextId + 1
        /\ local_turn(nextId + 1, "customer", "full", FALSE).text = "full"
        /\ local_turn(nextId + 1, "customer", "full", FALSE).streaming = FALSE
        /\ local_turn(nextId + 1, "customer", "full", FALSE).of = conversationId
    BY <1>2 DEF local_turn, Turn
  <2> QED  BY <2>1
<1>4. PICK call \in Call : /\ call = [kind |-> "send", pendingId |-> nextId + 1,
                                      conversation_id |-> conversationId]
                           /\ call.kind = "send" /\ call.pendingId = nextId + 1
                           /\ call.conversation_id = conversationId
  <2>1. [kind |-> "send", pendingId |-> nextId + 1, conversation_id |-> conversationId] \in Call
    BY <1>2 DEF Call
  <2> QED  BY <2>1
<1>5. calls' = calls \cup {call} /\ Sends' = Sends \cup {call}
  BY <1>1, <1>4 DEF Sends
<1>6. /\ TurnsKept
      /\ \A i \in DOMAIN turns' : (i \in DOMAIN turns /\ turns'[i] = turns[i]) \/ turns'[i] = q
  <2>1. turns' = Append(turns, q) /\ Rewritten(turns) /\ nextId' = nextId + 1
    BY <1>1, <1>2, <1>3, SameTurns
  <2>2. q.role = "customer" => q.text # "empty"
    BY <1>3
  <2> QED  BY <1>2, <1>3, <2>1, <2>2, AppendedTurn
<1>7. WaitingIsBacked'
  <2>1. UnderWay'
    BY <1>4, <1>5 DEF UnderWay
  <2>2. ASSUME NEW i \in DOMAIN turns', turns'[i].status = "pending"
        PROVE  \/ streamingId' # None
               \/ \E c \in calls' : c.kind = "send" /\ c.pendingId = turns'[i].id
    <3>1. CASE i \in DOMAIN turns /\ turns'[i] = turns[i]
      BY <1>1, <1>2, <1>5, <2>2, <3>1 DEF WaitingIsBacked
    <3>2. CASE turns'[i] = q
      BY <1>3, <1>4, <1>5, <3>2
    <3> QED  BY <1>6, <3>1, <3>2
  <2>3. ASSUME NEW i \in DOMAIN turns', turns'[i].streaming, turns'[i].status = "pending"
        PROVE  turns'[i].id = streamingId'
    BY <1>1, <1>2, <1>3, <1>6, <2>3 DEF WaitingIsBacked
  <2>4. streamingId' # None => awaiting'
    BY <1>1, <1>2 DEF WaitingIsBacked, socketVars
  <2> QED  BY <2>1, <2>2, <2>3, <2>4 DEF WaitingIsBacked
<1>8. OfInv'
  BY <1>1, <1>3, <1>4, <1>5, <1>6 DEF PageInv, OfInv
<1>9. CountInv' /\ nextId' \in 0..(2 * MaxQuestions)
  <2>1. /\ Cardinality(Sends) \in Nat /\ IsFiniteSet(Sends) /\ asked \in Nat
        /\ asked + 1 \in 0..MaxQuestions
        /\ MaxQuestions \in Nat /\ nextId + Cardinality(Sends) <= 2 * asked
    BY <1>1, FS_CardinalityType, PageAssumption DEF PageInv, CountInv
  <2>2. /\ IsFiniteSet(Sends') /\ Cardinality(Sends') \in Nat
        /\ Cardinality(Sends') <= Cardinality(Sends) + 1
    <3>1. /\ IsFiniteSet(Sends \cup {call})
          /\ Cardinality(Sends \cup {call}) = IF call \in Sends THEN Cardinality(Sends)
                                              ELSE Cardinality(Sends) + 1
      BY <2>1, FS_AddElement
    <3> QED  BY <1>5, <2>1, <3>1
  <2>3. nextId + 1 + Cardinality(Sends') <= 2 * (asked + 1) /\ nextId + 1 \in 0..(2 * MaxQuestions)
    BY <1>2, <2>1, <2>2
  <2> QED  BY <1>1, <2>1, <2>2, <2>3 DEF CountInv
<1>10. Index(entries') /\ IndexListsTheScreen' /\ NamesStay(entries')
  BY <1>1, IndexAsked
<1>11. calls' \subseteq Call
  BY <1>5 DEF PageInv, TypeOK
<1>12. streamingId' \in 0..nextId' \cup {None}
  <2>1. streamingId \in 0..nextId \cup {None} /\ streamingId' = streamingId /\ nextId' = nextId + 1
    BY <1>1 DEF PageInv, TypeOK
  <2> QED  BY <1>2, <2>1
<1>13. TypeOK'
  BY <1>1, <1>6, <1>9, <1>10, <1>11, <1>12
     DEF PageInv, TypeOK, TurnsKept, Index, socketVars, keyVars
<1> QED  BY <1>6, <1>7, <1>8, <1>9, <1>10, <1>13 DEF Kept, PageInv, TurnsKept

\* An answer over HTTP: its own turn is settled, and what else waits has what it
\* waits for.
LEMMA AnsweredBacked ==
    ASSUME PageInv, NEW call \in calls, call.kind = "send", calls' = calls \ {call},
           sending' = FALSE, UNCHANGED <<streamingId, awaiting>>,
           NEW new, Rewritten(new),
           \A i \in DOMAIN turns : new[i].status = "pending" => turns[i].id # call.pendingId,
           \A i \in DOMAIN turns' :
                (i \in DOMAIN turns /\ turns'[i] = new[i]) \/ turns'[i].status # "pending"
    PROVE  WaitingIsBacked'
<1>1. WaitingIsBacked /\ DOMAIN turns = 1..Len(turns)
  BY TurnFields DEF PageInv, TypeOK
<1>2. ASSUME NEW i \in DOMAIN turns', turns'[i].status = "pending"
      PROVE  /\ i \in DOMAIN turns /\ turns'[i] = new[i] /\ turns'[i].id = turns[i].id
             /\ turns[i].status = "pending" /\ turns[i].id # call.pendingId
             /\ turns'[i].streaming => turns[i].streaming
  BY <1>1, <1>2 DEF Rewritten
<1>3. ASSUME NEW i \in DOMAIN turns', turns'[i].status = "pending"
      PROVE  \/ streamingId' # None
             \/ \E c \in calls' : c.kind = "send" /\ c.pendingId = turns'[i].id
  BY <1>1, <1>2, <1>3 DEF WaitingIsBacked
<1>4. ASSUME NEW i \in DOMAIN turns', turns'[i].streaming, turns'[i].status = "pending"
      PROVE  turns'[i].id = streamingId'
  BY <1>1, <1>2, <1>4 DEF WaitingIsBacked
<1> QED  BY <1>1, <1>3, <1>4 DEF WaitingIsBacked

\* What an answered call leaves of the count: the reply takes the turn it kept.
LEMMA AnsweredCount ==
    ASSUME PageInv, NEW call \in calls, call.kind = "send", calls' = calls \ {call},
           nextId' \in {nextId, nextId + 1}, asked' = asked
    PROVE  CountInv' /\ nextId' \in 0..(2 * MaxQuestions) /\ nextId <= nextId'
<1>1. /\ IsFiniteSet(Sends) /\ Cardinality(Sends) \in Nat /\ nextId \in Nat /\ asked \in 0..MaxQuestions
      /\ nextId + Cardinality(Sends) <= 2 * asked /\ MaxQuestions \in Nat
  BY FS_CardinalityType, PageAssumption DEF PageInv, CountInv, TypeOK
<1>2. call \in Sends /\ Sends' = Sends \ {call}
  BY DEF Sends
<1>3. /\ IsFiniteSet(Sends') /\ Cardinality(Sends') = Cardinality(Sends) - 1
      /\ Cardinality(Sends') \in Nat
  <2>1. IsFiniteSet(Sends \ {call}) /\ Cardinality(Sends \ {call}) = Cardinality(Sends) - 1
    BY <1>1, <1>2, FS_RemoveElement
  <2>2. Cardinality(Sends \ {call}) \in Nat
    BY <2>1, FS_CardinalityType
  <2> QED  BY <1>2, <2>1, <2>2
<1>4. nextId' + Cardinality(Sends') <= 2 * asked /\ nextId' \in 0..(2 * MaxQuestions) /\ nextId <= nextId'
  BY <1>1, <1>3
<1> QED  BY <1>1, <1>3, <1>4 DEF CountInv

\* The answer to a question sent over HTTP.
LEMMA AnsweredStep ==
    ASSUME PageInv, NEW call \in calls, Answered(call)
    PROVE  Kept
<1>1. /\ call.kind = "send" /\ calls' = calls \ {call} /\ sending' = FALSE
      /\ nextId' \in {nextId, nextId + 1}
      /\ UNCHANGED <<conversationId, storedId, loading, streamingId, entries, socketVars,
                     keyVars, asked, crossed>>
  BY DEF Answered, Replied, SendRefused
<1>2. /\ nextId \in Nat /\ turns \in Seq(Turn) /\ TurnsInv /\ nextId + 1 \in Nat
      /\ call \in Call /\ call.conversation_id \in Id
      /\ failure \in FailureKind \cup {None} /\ authRequired \in BOOLEAN
  BY <1>1, CallFields DEF PageInv, TypeOK
<1>3. DOMAIN turns = 1..Len(turns)
  BY <1>2, TurnFields
<1>4. /\ TurnsKept /\ WaitingIsBacked' /\ OfInv'
      /\ failure' \in FailureKind \cup {None} /\ authRequired' \in BOOLEAN
  <2>1. CASE Replied(call)
    <3>1. PICK t \in Turn : /\ t.id = nextId + 1 /\ t.role = "assistant" /\ t.status = "sent"
                            /\ t.of = call.conversation_id
                            /\ turns' = Append(settled({call.pendingId}, "sent"), t)
      <4>1. PICK t : t = [id |-> nextId + 1, role |-> "assistant", status |-> "sent",
                          text |-> "full", streaming |-> FALSE, of |-> call.conversation_id]
        OBVIOUS
      <4>2. t \in Turn /\ t.id = nextId + 1 /\ t.role = "assistant" /\ t.status = "sent"
            /\ t.of = call.conversation_id
        BY <1>2, <4>1 DEF Turn
      <4>3. turns' = Append(settled({call.pendingId}, "sent"), t)
        BY <2>1, <4>1 DEF Replied
      <4> QED  BY <4>2, <4>3
    <3>2. PICK new : new = settled({call.pendingId}, "sent")
      OBVIOUS
    <3>3. /\ Rewritten(new)
          /\ \A i \in DOMAIN turns : new[i].status = "pending" => turns[i].id # call.pendingId
      BY <1>2, <3>2, SettledTurns
    <3>4. nextId' = nextId + 1 /\ UNCHANGED <<failure, authRequired>>
      BY <2>1 DEF Replied
    <3>5. /\ TurnsKept
          /\ \A i \in DOMAIN turns' : (i \in DOMAIN turns /\ turns'[i] = new[i]) \/ turns'[i] = t
      <4>1. turns' = Append(new, t) /\ (t.role = "customer" => t.text # "empty")
        BY <3>1, <3>2
      <4> QED  BY <1>2, <3>1, <3>3, <3>4, <4>1, AppendedTurn
    <3>6. WaitingIsBacked'
      <4>1. \A i \in DOMAIN turns' :
                (i \in DOMAIN turns /\ turns'[i] = new[i]) \/ turns'[i].status # "pending"
        BY <3>1, <3>5
      <4>2. UNCHANGED <<streamingId, awaiting>>
        BY <1>1 DEF socketVars
      <4> QED  BY <1>1, <3>3, <4>1, <4>2, AnsweredBacked
    <3>7. OfInv'
      <4> SUFFICES ASSUME ~crossed' PROVE OfInv'
        BY DEF OfInv
      <4>1. /\ \A i \in DOMAIN turns : turns[i].of = conversationId
            /\ \A c \in Sends : c.conversation_id = conversationId
        BY <1>1 DEF PageInv, OfInv
      <4>2. \A i \in DOMAIN turns : new[i].of = conversationId
        BY <1>3, <3>3, <4>1 DEF Rewritten
      <4>3. t.of = conversationId
        BY <1>1, <3>1, <4>1 DEF Sends
      <4>4. Sends' \subseteq Sends
        BY <1>1 DEF Sends
      <4> QED  BY <1>1, <3>5, <4>1, <4>2, <4>3, <4>4 DEF OfInv
    <3> QED  BY <1>2, <3>4, <3>5, <3>6, <3>7
  <2>2. ASSUME NEW status \in Status, SendRefused(call, status)
        PROVE  /\ TurnsKept /\ WaitingIsBacked' /\ OfInv'
               /\ failure' \in FailureKind \cup {None} /\ authRequired' \in BOOLEAN
    <3>1. turns' = settled({call.pendingId}, "failed") /\ nextId' = nextId /\ ShowFailure(status)
      BY <2>2 DEF SendRefused
    <3>2. PICK new : new = settled({call.pendingId}, "failed")
      OBVIOUS
    <3>3. /\ Rewritten(new)
          /\ \A i \in DOMAIN turns : new[i].status = "pending" => turns[i].id # call.pendingId
      BY <1>2, <3>2, SettledTurns
    <3>4. turns' = new
      BY <3>1, <3>2
    <3>5. TurnsKept
      BY <1>2, <3>1, <3>3, <3>4, KeptTurns
    <3>6. DOMAIN turns' = DOMAIN turns
      BY <1>3, <3>3, <3>4, <3>5, TurnFields DEF Rewritten, TurnsKept
    <3>7. WaitingIsBacked'
      <4>1. \A i \in DOMAIN turns' :
                (i \in DOMAIN turns /\ turns'[i] = new[i]) \/ turns'[i].status # "pending"
        BY <3>4, <3>6
      <4>2. UNCHANGED <<streamingId, awaiting>>
        BY <1>1 DEF socketVars
      <4> QED  BY <1>1, <3>3, <4>1, <4>2, AnsweredBacked
    <3>8. OfInv'
      BY <1>1, <1>3, <3>3, <3>4, <3>6 DEF PageInv, OfInv, Sends, Rewritten
    <3> QED  BY <3>1, <3>5, <3>7, <3>8, FailureShown
  <2> QED  BY <2>1, <2>2 DEF Answered
<1>5. CountInv' /\ nextId' \in 0..(2 * MaxQuestions) /\ nextId <= nextId'
  BY <1>1, AnsweredCount
<1>6. Index(entries') /\ IndexListsTheScreen' /\ NamesStay(entries')
  BY <1>1, IndexSame
<1>7. streamingId' \in 0..nextId' \cup {None}
  <2>1. streamingId \in 0..nextId \cup {None} /\ streamingId' = streamingId
    BY <1>1 DEF PageInv, TypeOK
  <2>2. nextId' \in Nat
    BY <1>1, <1>2
  <2> QED  BY <1>2, <1>5, <2>1, <2>2
<1>8. calls' \subseteq Call
  BY <1>1 DEF PageInv, TypeOK
<1>9. TypeOK'
  BY <1>1, <1>4, <1>5, <1>6, <1>7, <1>8 DEF PageInv, TypeOK, TurnsKept, Index, socketVars, keyVars
<1> QED  BY <1>4, <1>5, <1>6, <1>9 DEF Kept, PageInv, TurnsKept

\* What the sockets are.
SocketsTyped ==
    /\ DOMAIN sockets \subseteq 1..MaxSockets
    /\ \A s \in DOMAIN sockets : sockets[s] \in Seq(Id)
    /\ socketRef \in 1..MaxSockets \cup {None}

\* Steps of the sockets, the key and readiness that do not touch the screen.
LEMMA ScreenUntouched ==
    ASSUME PageInv, UNCHANGED <<conversationVars, nextId, calls, entries, awaiting, asked, crossed>>,
           apiKey' \in BOOLEAN, authEnforced' \in {"unknown", "open", "protected"}, SocketsTyped'
    PROVE  Kept
<1>1. UNCHANGED <<conversationId, storedId, turns, sending, loading, failure, authRequired,
                  streamingId, nextId, calls, entries, awaiting, asked, crossed>>
  BY DEF conversationVars
<1>2. Sends' = Sends
  BY <1>1 DEF Sends
<1>3. TurnsKept
  BY <1>1, UnchangedTurns
<1>4. Index(entries') /\ IndexListsTheScreen' /\ NamesStay(entries')
  BY <1>1, IndexSame
<1>5. CountInv' /\ WaitingIsBacked'
  BY <1>1, <1>2, CountSame, BackedSame
<1>6. OfInv'
  BY <1>1, <1>2 DEF PageInv, OfInv
<1>7. TypeOK'
  BY <1>1, <1>3, <1>4 DEF PageInv, TypeOK, SocketsTyped
<1> QED  BY <1>3, <1>4, <1>5, <1>6, <1>7 DEF Kept, PageInv, TurnsKept

\* connect.
LEMMA OpenSocketStep ==
    ASSUME PageInv, OpenSocket
    PROVE  Kept
<1>1. UNCHANGED <<conversationVars, nextId, calls, entries, awaiting, asked, crossed>>
  BY DEF OpenSocket
<1>2. apiKey' \in BOOLEAN /\ authEnforced' \in {"unknown", "open", "protected"}
  BY DEF OpenSocket, PageInv, TypeOK, keyVars
<1>3. SocketsTyped'
  <2>1. PICK s \in 1..MaxSockets :
           /\ sockets' = [x \in DOMAIN sockets \cup {s} |-> IF x = s THEN <<>> ELSE sockets[x]]
           /\ socketRef' = s
    BY DEF OpenSocket
  <2>2. DOMAIN sockets' = DOMAIN sockets \cup {s}
    BY <2>1
  <2>3. sockets'[s] = <<>>
    BY <2>1
  <2>4. \A x \in DOMAIN sockets \ {s} : sockets'[x] = sockets[x]
    BY <2>1
  <2>5. <<>> \in Seq(Id)
    OBVIOUS
  <2>6. \A x \in DOMAIN sockets' : sockets'[x] \in Seq(Id)
    BY <2>2, <2>3, <2>4, <2>5 DEF PageInv, TypeOK
  <2> QED  BY <2>1, <2>2, <2>6 DEF PageInv, TypeOK, SocketsTyped
<1> QED  BY <1>1, <1>2, <1>3, ScreenUntouched

\* useReadiness and useApiKey, with the effect they run.
LEMMA KeyStep ==
    ASSUME PageInv, CheckReadiness \/ ChangeKey
    PROVE  Kept
<1>1. UNCHANGED <<conversationVars, nextId, calls, entries, awaiting, asked, crossed>>
  BY DEF CheckReadiness, ChangeKey
<1>2. apiKey' \in BOOLEAN /\ authEnforced' \in {"unknown", "open", "protected"}
  BY DEF CheckReadiness, ChangeKey, PageInv, TypeOK
<1>3. SocketsTyped'
  BY DEF CheckReadiness, ChangeKey, RunEffect, PageInv, TypeOK, SocketsTyped
<1> QED  BY <1>1, <1>2, <1>3, ScreenUntouched

\* A frame taken off a socket, and a socket that is gone.
LEMMA SocketsFewer ==
    ASSUME PageInv, NEW s \in DOMAIN sockets, socketRef' \in {socketRef, None},
           \/ sockets' = sockets
           \/ sockets[s] # <<>> /\ sockets' = [sockets EXCEPT ![s] = Tail(@)]
           \/ sockets' = [x \in DOMAIN sockets \ {s} |-> sockets[x]]
    PROVE  SocketsTyped'
<1>1. SocketsTyped
  BY DEF PageInv, TypeOK, SocketsTyped
<1>2. socketRef' \in 1..MaxSockets \cup {None}
  BY <1>1 DEF SocketsTyped
<1>3. CASE sockets' = sockets
  BY <1>1, <1>2, <1>3 DEF SocketsTyped
<1>4. CASE sockets[s] # <<>> /\ sockets' = [sockets EXCEPT ![s] = Tail(@)]
  <2>1. Tail(sockets[s]) \in Seq(Id)
    BY <1>1, <1>4, HeadTailProperties DEF SocketsTyped
  <2>2. /\ DOMAIN sockets' = DOMAIN sockets
        /\ \A x \in DOMAIN sockets : sockets'[x] = Tail(sockets[s]) \/ sockets'[x] = sockets[x]
    BY <1>4
  <2> QED  BY <1>1, <1>2, <2>1, <2>2 DEF SocketsTyped
<1>5. CASE sockets' = [x \in DOMAIN sockets \ {s} |-> sockets[x]]
  BY <1>1, <1>2, <1>5 DEF SocketsTyped
<1> QED  BY <1>3, <1>4, <1>5

\* appendDelta: the turn being streamed says a part.
LEMMA DeltaStep ==
    ASSUME PageInv, NEW s \in DOMAIN sockets, Delta(s)
    PROVE  Kept
<1>1. /\ turns' = [i \in DOMAIN turns |->
                      IF turns[i].id = streamingId THEN [turns[i] EXCEPT !.text = "part"]
                      ELSE turns[i]]
      /\ UNCHANGED <<conversationId, storedId, sending, loading, failure, authRequired,
                     streamingId, nextId, calls, entries, socketVars, keyVars, asked, crossed>>
  BY DEF Delta
<1>2. turns \in Seq(Turn) /\ TurnsInv /\ nextId \in Nat
  BY DEF PageInv, TypeOK
<1>3. DOMAIN turns = 1..Len(turns) /\ \A i \in DOMAIN turns : turns[i] \in Turn
  BY <1>2, TurnFields
<1>4. PICK f : f = turns'
  OBVIOUS
<1>5. ASSUME NEW i \in DOMAIN turns
      PROVE  /\ f[i] \in Turn
             /\ f[i].id = turns[i].id /\ f[i].role = turns[i].role /\ f[i].of = turns[i].of
             /\ f[i].status = turns[i].status /\ f[i].streaming = turns[i].streaming
             /\ turns[i].text # "empty" => f[i].text # "empty"
  <2>1. CASE turns[i].id = streamingId
    <3>1. f[i] = [turns[i] EXCEPT !.text = "part"] /\ turns[i] \in Turn
      BY <1>1, <1>3, <1>4, <2>1
    <3> QED  BY <3>1 DEF Turn
  <2>2. CASE turns[i].id # streamingId
    BY <1>1, <1>3, <1>4, <2>2
  <2> QED  BY <2>1, <2>2
<1>6. Rewritten(f) /\ DOMAIN f = DOMAIN turns
  <2>1. f = [i \in DOMAIN turns |-> f[i]]
    BY <1>1, <1>4
  <2>2. \A i \in DOMAIN turns :
                /\ f[i] \in Turn
                /\ f[i].id = turns[i].id /\ f[i].role = turns[i].role /\ f[i].of = turns[i].of
                /\ f[i].status = "pending" => turns[i].status = "pending"
                /\ f[i].streaming => turns[i].streaming
                /\ turns[i].text # "empty" => f[i].text # "empty"
    BY <1>5
  <2>3. Rewritten(f)
    BY <1>2, <2>1, <2>2, RewrittenTurns
  <2>4. DOMAIN f = DOMAIN turns
    BY <1>1, <1>4
  <2> QED  BY <2>3, <2>4
<1>7. TurnsKept
  BY <1>1, <1>2, <1>4, <1>6, KeptTurns
<1>8. WaitingIsBacked'
  BY <1>1, <1>4, <1>5, <1>6 DEF PageInv, WaitingIsBacked, UnderWay, socketVars
<1>9. OfInv'
  BY <1>1, <1>4, <1>5, <1>6 DEF PageInv, OfInv, Sends
<1>10. Index(entries') /\ IndexListsTheScreen' /\ NamesStay(entries')
  BY <1>1, IndexSame
<1>11. CountInv'
  BY <1>1, CountSame DEF Sends
<1>12. TypeOK'
  BY <1>1, <1>7, <1>10 DEF PageInv, TypeOK, TurnsKept, Index, socketVars, keyVars
<1> QED  BY <1>7, <1>8, <1>9, <1>10, <1>11, <1>12 DEF Kept, PageInv, TurnsKept

\* failStream, whatever brought it: an error frame, the timer or a socket closing.
LEMMA FailedStep ==
    ASSUME PageInv, failStream, awaiting' = FALSE, SocketsTyped',
           UNCHANGED <<nextId, calls, entries, keyVars, asked, crossed>>
    PROVE  Kept
<1>1. /\ streamingId' = None /\ sending' = FALSE /\ failure' \in FailureKind \cup {None}
      /\ turns' = failed_turns
      /\ UNCHANGED <<conversationId, storedId, loading, authRequired>>
  BY DEF failStream, FailureKind
<1>2. turns \in Seq(Turn) /\ TurnsInv /\ nextId \in Nat /\ nextId' = nextId
  BY DEF PageInv, TypeOK
<1>3. /\ TurnsKept
      /\ \A i \in DOMAIN turns' : /\ turns'[i].status # "pending"
                                  /\ \E k \in DOMAIN turns : turns'[i].of = turns[k].of
  BY <1>1, <1>2, FailedTurns
<1>4. WaitingIsBacked'
  BY <1>1, <1>3 DEF WaitingIsBacked
<1>5. OfInv'
  BY <1>1, <1>3 DEF PageInv, OfInv, Sends
<1>6. Index(entries') /\ IndexListsTheScreen' /\ NamesStay(entries')
  BY <1>1, IndexSame
<1>7. CountInv'
  BY <1>1, CountSame DEF Sends
<1>8. TypeOK'
  BY <1>1, <1>3, <1>6 DEF PageInv, TypeOK, TurnsKept, Index, SocketsTyped, keyVars
<1> QED  BY <1>3, <1>4, <1>5, <1>6, <1>7, <1>8 DEF Kept, PageInv, TurnsKept

\* An error frame.
LEMMA ErrorStep ==
    ASSUME PageInv, NEW s \in DOMAIN sockets, Error(s)
    PROVE  Kept
<1>1. SocketsTyped'
  <2>1. sockets[s] # <<>> /\ sockets' = [sockets EXCEPT ![s] = Tail(@)] /\ socketRef' = socketRef
    BY DEF Error
  <2> QED  BY <2>1, SocketsFewer
<1> QED  BY <1>1, FailedStep DEF Error

\* The answer timer.
LEMMA TimeoutStep ==
    ASSUME PageInv, Timeout
    PROVE  Kept
<1>1. SocketsTyped'
  BY DEF Timeout, PageInv, TypeOK, SocketsTyped
<1> QED  BY <1>1, FailedStep DEF Timeout

\* A socket closes, with a question awaited or without.
LEMMA OnCloseStep ==
    ASSUME PageInv, NEW s \in DOMAIN sockets, OnClose(s)
    PROVE  Kept
<1>1. SocketsTyped'
  <2>1. sockets' = [x \in DOMAIN sockets \ {s} |-> sockets[x]] /\ socketRef' = None
    BY DEF OnClose
  <2> QED  BY <2>1, SocketsFewer
<1>2. CASE awaiting
  BY <1>1, <1>2, FailedStep DEF OnClose
<1>3. CASE ~awaiting
  <2>1. UNCHANGED <<conversationVars, nextId, calls, entries, awaiting, asked, crossed>>
    BY <1>3 DEF OnClose, PageInv, TypeOK
  <2>2. apiKey' \in BOOLEAN /\ authEnforced' \in {"unknown", "open", "protected"}
    BY DEF OnClose, PageInv, TypeOK, keyVars
  <2> QED  BY <1>1, <2>1, <2>2, ScreenUntouched
<1> QED  BY <1>2, <1>3

\* The turns completeStream leaves, when there is one to complete.
completed_turns ==
    [i \in DOMAIN turns |->
        IF turns[i].id = streamingId
        THEN [turns[i] EXCEPT !.text = "full", !.status = "sent", !.streaming = FALSE]
        ELSE IF turns[i].status = "pending" THEN [turns[i] EXCEPT !.status = "sent"]
        ELSE turns[i]]

\* completeStream settles every turn, and drops none.
LEMMA CompletedTurns ==
    ASSUME PageInv, nextId' = nextId,
           turns' = completed_turns
    PROVE  /\ TurnsKept /\ DOMAIN turns' = DOMAIN turns
           /\ \A i \in DOMAIN turns : turns'[i].status # "pending" /\ turns'[i].of = turns[i].of
<1>1. turns \in Seq(Turn) /\ TurnsInv /\ nextId \in Nat
  BY DEF PageInv, TypeOK
<1>2. DOMAIN turns = 1..Len(turns) /\ \A i \in DOMAIN turns : turns[i] \in Turn
  BY <1>1, TurnFields
<1>3. PICK f : f = turns'
  OBVIOUS
<1>4. ASSUME NEW i \in DOMAIN turns
      PROVE  /\ f[i] \in Turn
             /\ f[i].id = turns[i].id /\ f[i].role = turns[i].role /\ f[i].of = turns[i].of
             /\ f[i].status # "pending"
             /\ f[i].streaming => turns[i].streaming
             /\ turns[i].text # "empty" => f[i].text # "empty"
  <2>1. CASE turns[i].id = streamingId
    <3>1. PICK t \in Turn : t = turns[i]
      BY <1>2
    <3>2. f[i] = [t EXCEPT !.text = "full", !.status = "sent", !.streaming = FALSE]
      BY <1>3, <2>1, <3>1 DEF completed_turns
    <3>3. /\ f[i] \in Turn
          /\ f[i].id = t.id /\ f[i].role = t.role /\ f[i].of = t.of
          /\ f[i].status = "sent" /\ f[i].streaming = FALSE /\ f[i].text = "full"
      BY <3>2 DEF Turn
    <3> QED  BY <3>1, <3>3
  <2>2. CASE turns[i].id # streamingId /\ turns[i].status = "pending"
    <3>1. PICK t \in Turn : t = turns[i]
      BY <1>2
    <3>2. f[i] = [t EXCEPT !.status = "sent"]
      BY <1>3, <2>2, <3>1 DEF completed_turns
    <3>3. /\ f[i] \in Turn
          /\ f[i].id = t.id /\ f[i].role = t.role /\ f[i].of = t.of
          /\ f[i].status = "sent" /\ f[i].streaming = t.streaming /\ f[i].text = t.text
      BY <3>2 DEF Turn
    <3> QED  BY <3>1, <3>3
  <2>3. CASE turns[i].id # streamingId /\ turns[i].status # "pending"
    <3>1. f[i] = turns[i]
      BY <1>3, <2>3 DEF completed_turns
    <3> QED  BY <1>2, <2>3, <3>1
  <2> QED  BY <2>1, <2>2, <2>3
<1>5. DOMAIN f = DOMAIN turns /\ f = [i \in DOMAIN turns |-> f[i]]
  BY <1>3 DEF completed_turns
<1>6. Rewritten(f)
  <2>1. \A i \in DOMAIN turns :
                /\ f[i] \in Turn
                /\ f[i].id = turns[i].id /\ f[i].role = turns[i].role /\ f[i].of = turns[i].of
                /\ f[i].status = "pending" => turns[i].status = "pending"
                /\ f[i].streaming => turns[i].streaming
                /\ turns[i].text # "empty" => f[i].text # "empty"
    BY <1>4
  <2> QED  BY <1>1, <1>5, <2>1, RewrittenTurns
<1>7. TurnsKept
  BY <1>1, <1>3, <1>6, KeptTurns
<1> QED  BY <1>3, <1>4, <1>5, <1>7

\* A complete frame, awaited or not.
LEMMA CompleteStep ==
    ASSUME PageInv, NEW s \in DOMAIN sockets, Complete(s)
    PROVE  Kept
<1>1. SocketsTyped'
  <2>1. sockets[s] # <<>> /\ sockets' = [sockets EXCEPT ![s] = Tail(@)] /\ socketRef' = socketRef
    BY DEF Complete
  <2> QED  BY <2>1, SocketsFewer
<1>2. UNCHANGED <<nextId, calls, keyVars, asked>>
  BY DEF Complete
<1>3. CASE ~awaiting
  <2>1. UNCHANGED <<conversationVars, nextId, calls, entries, awaiting, asked, crossed>>
    BY <1>3 DEF Complete
  <2>2. apiKey' \in BOOLEAN /\ authEnforced' \in {"unknown", "open", "protected"}
    BY <1>2 DEF PageInv, TypeOK, keyVars
  <2> QED  BY <1>1, <2>1, <2>2, ScreenUntouched
<1>4. CASE awaiting
  <2>1. /\ awaiting' = FALSE /\ streamingId' = None /\ sending' = FALSE /\ RememberNew /\ Cross
        /\ completeStream(Head(sockets[s]))
        /\ UNCHANGED <<loading, failure, authRequired>>
    BY <1>4 DEF Complete, completeStream
  <2>2. Head(sockets[s]) \in Id
    <3>1. sockets[s] \in Seq(Id) /\ sockets[s] # <<>>
      BY DEF Complete, PageInv, TypeOK
    <3> QED  BY <3>1, HeadTailProperties
  <2>3. conversationId' \in Id /\ storedId' \in Id
    BY <2>1, <2>2 DEF completeStream, PageInv, TypeOK
  <2>4. Index(entries') /\ IndexListsTheScreen' /\ NamesStay(entries')
    BY <2>1, <2>3, IndexRemembered
  <2>5. CountInv'
    BY <1>2, CountSame DEF Sends
  <2>6. TurnsKept /\ WaitingIsBacked' /\ OfInv'
    <3>1. CASE streamingId = None
      <4>1. UNCHANGED <<turns, conversationId, storedId>>
        BY <2>1, <3>1 DEF completeStream
      <4>2. TurnsKept
        BY <1>2, <4>1, UnchangedTurns
      <4>3. \A i \in DOMAIN turns : turns[i].id # None
        <5>1. turns \in Seq(Turn) /\ None \notin Nat
          BY PageAssumption DEF PageInv, TypeOK
        <5> QED  BY <5>1, TurnFields
      <4>4. WaitingIsBacked'
        BY <1>2, <2>1, <3>1, <4>1, <4>3 DEF PageInv, WaitingIsBacked
      <4>5. OfInv'
        BY <1>2, <2>1, <4>1 DEF PageInv, OfInv, Sends, Cross
      <4> QED  BY <4>2, <4>4, <4>5
    <3>2. CASE streamingId # None
      <4>1. turns' = completed_turns
        BY <2>1, <3>2 DEF completeStream, completed_turns
      <4>2. nextId' = nextId
        BY <1>2
      <4>3. /\ TurnsKept /\ DOMAIN turns' = DOMAIN turns
            /\ \A i \in DOMAIN turns : turns'[i].status # "pending" /\ turns'[i].of = turns[i].of
        BY <4>1, <4>2, CompletedTurns
      <4>4. WaitingIsBacked'
        BY <2>1, <4>3 DEF WaitingIsBacked
      <4>5. OfInv'
        <5>1. CASE conversationId' = conversationId
          BY <1>2, <2>1, <4>3, <5>1 DEF PageInv, OfInv, Sends, Cross
        <5>2. CASE conversationId' # conversationId
          BY <1>4, <2>1, <5>2 DEF OfInv, Cross, UnderWay
        <5> QED  BY <5>1, <5>2
      <4> QED  BY <4>3, <4>4, <4>5
    <3> QED  BY <3>1, <3>2
  <2>7. TypeOK'
    BY <1>1, <1>2, <2>1, <2>3, <2>4, <2>6
       DEF PageInv, TypeOK, TurnsKept, Index, SocketsTyped, keyVars, Cross
  <2> QED  BY <2>4, <2>5, <2>6, <2>7 DEF Kept, PageInv, TurnsKept
<1> QED  BY <1>3, <1>4

-----------------------------------------------------------------------------
(* The theorems. *)

LEMMA PageInvInit == Init => PageInv
<1> SUFFICES ASSUME Init PROVE PageInv
  OBVIOUS
<1>1. /\ conversationId = None /\ turns = <<>> /\ sending = FALSE /\ failure = None
      /\ authRequired = FALSE /\ streamingId = None /\ nextId = 0 /\ entries = StoredIndex
      /\ apiKey = FALSE /\ authEnforced = "unknown" /\ sockets = <<>> /\ socketRef = None
      /\ awaiting = FALSE /\ asked = 0 /\ crossed = FALSE /\ loading \in BOOLEAN
      /\ calls = {[kind |-> "history", id |-> c] : c \in {storedId} \ {None}}
  BY DEF Init
<1>2. /\ StoredIndex \in Seq(IndexedConversation) /\ Len(StoredIndex) <= MAX_ENTRIES
      /\ \A i, j \in DOMAIN StoredIndex : StoredIndex[i].id = StoredIndex[j].id => i = j
      /\ MaxQuestions \in Nat /\ None \notin Conversation
  BY PageAssumption
<1>3. storedId \in Id
  <2>1. \A i \in DOMAIN StoredIndex : StoredIndex[i].id \in Conversation
    <3>1. \A i \in DOMAIN StoredIndex : StoredIndex[i] \in IndexedConversation
      BY <1>2, LenProperties, ElementOfSeq
    <3> QED  BY <3>1 DEF IndexedConversation
  <2> QED  BY <2>1 DEF Init, Id
<1>4. turns \in Seq(Turn) /\ Len(turns) = 0 /\ DOMAIN turns = {}
  BY <1>1
<1>5. calls \subseteq Call /\ Sends = {}
  BY <1>1, <1>3 DEF Call, Id, Sends
<1>6. TurnsInv
  BY <1>4 DEF TurnsInv
<1>7. CountInv
  <2>1. IsFiniteSet(Sends) /\ Cardinality(Sends) = 0
    BY <1>5, FS_EmptySet
  <2> QED  BY <1>1, <1>2, <2>1 DEF CountInv
<1>8. WaitingIsBacked /\ OfInv /\ IndexListsTheScreen
  <2>1. WaitingIsBacked
    BY <1>1, <1>4 DEF WaitingIsBacked
  <2>2. OfInv
    BY <1>4, <1>5 DEF OfInv
  <2>3. IndexListsTheScreen
    BY <1>1, <1>2 DEF IndexListsTheScreen
  <2> QED  BY <2>1, <2>2, <2>3
<1>9. TypeOK
  <2>1. DOMAIN sockets = {}
    BY <1>1
  <2>2. nextId \in 0..(2 * MaxQuestions) /\ streamingId \in 0..nextId \cup {None}
    BY <1>1, <1>2
  <2>3. /\ conversationId \in Id /\ storedId \in Id /\ turns \in Seq(Turn)
        /\ failure \in FailureKind \cup {None} /\ socketRef \in 1..MaxSockets \cup {None}
        /\ entries \in Seq(IndexedConversation)
    BY <1>1, <1>2, <1>3, <1>4 DEF Id
  <2>4. sending \in BOOLEAN /\ authRequired \in BOOLEAN /\ loading \in BOOLEAN
        /\ apiKey \in BOOLEAN /\ awaiting \in BOOLEAN /\ crossed \in BOOLEAN
        /\ authEnforced \in {"unknown", "open", "protected"}
    BY <1>1
  <2> QED  BY <1>5, <2>1, <2>2, <2>3, <2>4 DEF TypeOK
<1> QED  BY <1>6, <1>7, <1>8, <1>9 DEF PageInv

LEMMA PageStep ==
    ASSUME PageInv, Next
    PROVE  Kept
<1>1. CASE (\E id \in Conversation : LoadHistory(id)) \/ Start
  BY <1>1, CallStep
<1>2. CASE Reset
  BY <1>2, ResetStep
<1>3. CASE Reload
  BY <1>3, ReloadStep
<1>4. ASSUME NEW stream \in BOOLEAN, Send(stream) PROVE Kept
  <2>1. CASE stream = TRUE
    BY <1>4, <2>1, SendStreamStep
  <2>2. CASE stream = FALSE
    BY <1>4, <2>2, SendHttpStep
  <2> QED  BY <2>1, <2>2
<1>5. ASSUME NEW call \in calls, Opened(call) \/ Answered(call) PROVE Kept
  BY <1>5, OpenedStep, AnsweredStep
<1>6. CASE OpenSocket
  BY <1>6, OpenSocketStep
<1>7. ASSUME NEW s \in DOMAIN sockets, Frame(s) PROVE Kept
  BY <1>7, DeltaStep, CompleteStep, ErrorStep, OnCloseStep DEF Frame
<1>8. CASE Timeout
  BY <1>8, TimeoutStep
<1>9. CASE CheckReadiness \/ ChangeKey
  BY <1>9, KeyStep
<1> QED  BY <1>1, <1>2, <1>3, <1>4, <1>5, <1>6, <1>7, <1>8, <1>9 DEF Next

LEMMA PageStutter ==
    ASSUME PageInv, UNCHANGED vars
    PROVE  PageInv'
<1>1. UNCHANGED <<conversationVars, nextId, calls, entries, awaiting, asked, crossed>>
  BY DEF vars, socketVars
<1>2. apiKey' \in BOOLEAN /\ authEnforced' \in {"unknown", "open", "protected"}
  BY DEF vars, keyVars, PageInv, TypeOK
<1>3. SocketsTyped'
  BY DEF vars, socketVars, PageInv, TypeOK, SocketsTyped
<1> QED  BY <1>1, <1>2, <1>3, ScreenUntouched DEF Kept

\* The invariant, which each of the theorems below takes a part of.
THEOREM PageInvariant == Spec => []PageInv
<1>1. PageInv /\ [Next]_vars => PageInv'
  BY PageStep, PageStutter DEF Kept
<1> QED  BY <1>1, PageInvInit, PTL DEF Spec

\* The page keeps its types: whatever it captures, stores and shows is of the
\* kind its code takes it for, and nextTurnId hands out two ids a question at most.
THEOREM PageTypeCorrect == Spec => []TypeOK
<1>1. PageInv => TypeOK
  BY DEF PageInv
<1> QED  BY <1>1, PageInvariant, PTL

\* useConversation: the composer is off, a turn is pending or held for a stream
\* only while a call is out or an answer is awaited.
THEOREM NobodyWaitsInVain == Spec => []WaitingIsBacked
<1>1. PageInv => WaitingIsBacked
  BY DEF PageInv
<1> QED  BY <1>1, PageInvariant, PTL

\* The screen shows turns of the conversation it names, unless one was left
\* while a question was under way, and the index lists that conversation, once.
THEOREM ScreenAndIndexAgree == Spec => []ScreenShowsOneConversation
<1>1. PageInv => ScreenShowsOneConversation
  BY DEF PageInv, OfInv, ScreenShowsOneConversation
<1> QED  BY <1>1, PageInvariant, PTL

\* A customer's turn stays on screen and is not pending again once settled, and
\* a named conversation keeps its name, whatever step is taken.
THEOREM QuestionsAreNotTakenBack == Spec => NothingIsTakenBack
<1>1. PageInv /\ [Next]_vars =>
        [ /\ Emptied \/ \A i \in DOMAIN turns : turns[i].role = "customer" =>
              \E j \in DOMAIN turns' :
                  /\ turns'[j].id = turns[i].id
                  /\ turns'[j].status = "pending" => turns[i].status = "pending"
          /\ \A i \in DOMAIN entries, j \in DOMAIN entries' :
              entries[i].id = entries'[j].id /\ entries[i].title = "named"
                  => entries'[j].title = "named" ]_vars
  <2> SUFFICES ASSUME PageInv, Next
               PROVE  /\ Emptied \/ CustomersStay
                      /\ \A i \in DOMAIN entries, j \in DOMAIN entries' :
                            entries[i].id = entries'[j].id /\ entries[i].title = "named"
                                => entries'[j].title = "named"
    BY DEF CustomersStay
  <2>1. Kept
    BY PageStep
  <2> QED  BY <2>1 DEF Kept, NamesStay
<1> QED  BY <1>1, PageInvariant, PTL DEF Spec, NothingIsTakenBack

=============================================================================
