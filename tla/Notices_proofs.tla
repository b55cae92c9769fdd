--------------------------- MODULE Notices_proofs ---------------------------
(***************************************************************************)
(* Proofs about how notices come to be in the two programs: the outbox of  *)
(* OEM Radar, and the alerts of the desk.                                  *)
(***************************************************************************)
EXTENDS Outbox, Alerts, FiniteSetTheorems, SequenceTheorems, TLAPS

-----------------------------------------------------------------------------
(***************************************************************************)
(* The safety of the notification outbox, for every set of alerts and      *)
(* stories, every retry limit and every number of faults and 429 replies.  *)
(* The invariant accounts for every delivery (Deliveries) and for every    *)
(* attempt (Attempts), and says which rows a drain may have in hand.       *)
(***************************************************************************)

\* What the run has in hand at each of its steps.
Hand ==
  /\ pc \in {"down", "crawl", "demote", "announce"} => batch = {}
  /\ pc \in {"demote", "announce"} => cur \in Story
  /\ pc = "mark" => cur \in Key \ batch /\ reply # "none"

\* A row in hand was pending when the drain read it; since then only the
\* operator can have touched it.
HandIsUnfinished ==
  \A k \in InHand : status[k] \in {"pending", "suppressed"} /\ k \in wanted

Wanting ==
  \A k \in Key :
    /\ status[k] = "none" => k \notin wanted
    /\ status[k] \in {"pending", "sent", "failed", "demoted"} => k \in wanted
    /\ posts[k] > 0 => k \in wanted

\* The row's delivery is acknowledged, or is about to be.
Acked(k) == status[k] = "sent" \/ (pc = "mark" /\ cur = k /\ reply = "ok")

Deliveries ==
  \A k \in Key : posts[k] = unacked[k] + (IF Acked(k) THEN 1 ELSE 0)

Limiting(k) == pc = "mark" /\ cur = k /\ reply = "429"

Attempts ==
  \A k \in Key :
    /\ attempts[k] + (IF Limiting(k) THEN 1 ELSE 0)
         <= rejected[k] + limited + (IF status[k] = "sent" THEN 1 ELSE 0)
    /\ status[k] = "failed" => attempts[k] > RetryLimit

OutboxIInv ==
  OutboxTypeOK /\ Hand /\ HandIsUnfinished /\ Wanting /\ Deliveries /\ Attempts

USE DEF Key, table, run, deliveries, budget

-----------------------------------------------------------------------------

LEMMA OutboxInitIInv == OutboxInit => OutboxIInv
BY KeyAssumption, BoundAssumption
DEF OutboxInit, OutboxIInv, OutboxTypeOK, Status, Reply, Hand, HandIsUnfinished, InHand, Wanting,
    Deliveries, Acked, Attempts, Limiting

\* A put that ignores an existing row, by a run that drains nothing.
LEMMA OutboxPutKeepsIInv ==
  ASSUME OutboxIInv, NEW k \in Key, NEW s \in {"pending", "suppressed"},
         OutboxPut(k, s), pc \in {"crawl", "announce"},
         pc' = "crawl", batch' = {}, cur' \in Key \cup {NoKey}, reply' \in Reply,
         UNCHANGED <<attempts, saved, posts, unacked, rejected, budget>>
  PROVE  OutboxIInv'
<1> USE BoundAssumption DEF OutboxIInv, OutboxPut
<1>1. OutboxTypeOK'
  BY DEF OutboxTypeOK, Status
<1>2. Hand' /\ HandIsUnfinished'
  BY DEF Hand, HandIsUnfinished, InHand
<1>3. Wanting'
  BY DEF Wanting, OutboxTypeOK
<1>4. Deliveries'
  BY DEF Deliveries, Acked, OutboxTypeOK
<1>5. Attempts'
  BY DEF Attempts, Limiting, OutboxTypeOK
<1>6. QED
  BY <1>1, <1>2, <1>3, <1>4, <1>5

\* Pending rows outside the drain's hand get a status that is final.
LEMMA DemoteKeepsIInv == OutboxIInv /\ DemoteEvents => OutboxIInv'
<1> SUFFICES ASSUME OutboxIInv, DemoteEvents PROVE OutboxIInv'
  OBVIOUS
<1> USE BoundAssumption DEF OutboxIInv, DemoteEvents, Demotable, Pending
<1>1. OutboxTypeOK'
  BY DEF OutboxTypeOK, Status
<1>2. Hand' /\ HandIsUnfinished'
  BY DEF Hand, HandIsUnfinished, InHand
<1>3. Wanting'
  BY DEF Wanting, OutboxTypeOK
<1>4. Deliveries'
  BY DEF Deliveries, Acked, OutboxTypeOK
<1>5. Attempts'
  BY DEF Attempts, Limiting, OutboxTypeOK
<1>6. QED
  BY <1>1, <1>2, <1>3, <1>4, <1>5

LEMMA SuppressKeepsIInv == OutboxIInv /\ SuppressPending => OutboxIInv'
<1> SUFFICES ASSUME OutboxIInv, SuppressPending PROVE OutboxIInv'
  OBVIOUS
<1> USE BoundAssumption DEF OutboxIInv, SuppressPending, Pending
<1>1. OutboxTypeOK'
  BY DEF OutboxTypeOK, Status
<1>2. Hand' /\ HandIsUnfinished'
  BY DEF Hand, HandIsUnfinished, InHand, OutboxTypeOK
<1>3. Wanting'
  BY DEF Wanting, OutboxTypeOK
<1>4. Deliveries'
  BY DEF Deliveries, Acked, OutboxTypeOK
<1>5. Attempts'
  BY DEF Attempts, Limiting, OutboxTypeOK
<1>6. QED
  BY <1>1, <1>2, <1>3, <1>4, <1>5

\* The post of one row: the row moves from the batch into the run's hand.
LEMMA SendKeepsIInv ==
  ASSUME OutboxIInv, NEW k \in Key, NEW r \in Reply, NEW delivered \in BOOLEAN,
         Send(k, r, delivered)
  PROVE  OutboxIInv'
<1> USE BoundAssumption DEF OutboxIInv, Send
<1>1. OutboxTypeOK'
  BY DEF OutboxTypeOK, Reply
<1>2. Hand'
  BY DEF Hand, OutboxTypeOK
<1>3. HandIsUnfinished'
  BY DEF HandIsUnfinished, InHand, OutboxTypeOK
<1>4. Wanting'
  BY DEF Wanting, HandIsUnfinished, InHand, OutboxTypeOK
<1>5. Deliveries'
  <2>1. status[k] # "sent"
    BY DEF HandIsUnfinished, InHand
  <2>2. QED
    BY <2>1 DEF Deliveries, Acked, OutboxTypeOK, Reply
<1>6. Attempts'
  BY DEF Attempts, Limiting, OutboxTypeOK, Reply
<1>7. QED
  BY <1>1, <1>2, <1>3, <1>4, <1>5, <1>6

\* Writing the outcome of a post into its row.
LEMMA MarkKeepsIInv == OutboxIInv /\ (MarkSent \/ MarkLimited \/ MarkError) => OutboxIInv'
<1> SUFFICES ASSUME OutboxIInv, MarkSent \/ MarkLimited \/ MarkError PROVE OutboxIInv'
  OBVIOUS
<1> USE BoundAssumption
    DEF OutboxIInv, MarkSent, MarkLimited, MarkError, MarkRow, NextRow, FinalStatus
<1>0. cur \in InHand /\ cur \in Key /\ cur \notin batch /\ cur # NoKey
  BY KeyAssumption DEF Hand, InHand, OutboxTypeOK
<1>1. OutboxTypeOK'
  BY <1>0 DEF OutboxTypeOK, Reply, Status
<1>2. Hand'
  BY DEF Hand
<1>3. HandIsUnfinished'
  BY <1>0 DEF HandIsUnfinished, InHand, OutboxTypeOK
<1>4. Wanting'
  BY <1>0 DEF Wanting, HandIsUnfinished, OutboxTypeOK
<1>5. Deliveries'
  BY <1>0 DEF Deliveries, HandIsUnfinished, Acked, OutboxTypeOK
<1>6. Attempts'
  BY <1>0 DEF Attempts, HandIsUnfinished, Limiting, OutboxTypeOK
<1>7. QED
  BY <1>1, <1>2, <1>3, <1>4, <1>5, <1>6

\* A run that stops forgets what it had in hand; a post that was delivered and
\* not yet marked becomes an unacknowledged one.
LEMMA InterruptKeepsIInv ==
  ASSUME OutboxIInv, Interrupted, NEW label \in {"down", "crawl"}, Proceed(label)
  PROVE  OutboxIInv'
<1> USE BoundAssumption, KeyAssumption DEF OutboxIInv, Interrupted, Proceed
<1>1. OutboxTypeOK'
  BY DEF OutboxTypeOK, Reply, Hand
<1>2. Hand' /\ HandIsUnfinished'
  BY DEF Hand, HandIsUnfinished, InHand
<1>3. Wanting'
  BY DEF Wanting, OutboxTypeOK
<1>4. Deliveries'
  BY DEF Deliveries, Acked, Hand, HandIsUnfinished, InHand, OutboxTypeOK
<1>5. Attempts'
  BY DEF Attempts, Limiting, OutboxTypeOK
<1>6. QED
  BY <1>1, <1>2, <1>3, <1>4, <1>5

\* Steps of the run that touch neither the table nor the channel.
LEMMA RunStepKeepsIInv ==
  ASSUME OutboxIInv,
         \/ Begin \/ StartDrain \/ EndDrain \/ DrainUnconfigured
         \/ \E s \in Story : SaveStory(s)
         \/ UNCHANGED outboxVars
  PROVE  OutboxIInv'
<1> USE BoundAssumption, KeyAssumption
    DEF OutboxIInv, Begin, StartDrain, EndDrain, DrainUnconfigured, SaveStory, Proceed,
        outboxVars, Pending
<1>1. OutboxTypeOK'
  BY DEF OutboxTypeOK, Reply
<1>2. Hand'
  BY DEF Hand
<1>3. HandIsUnfinished'
  BY DEF HandIsUnfinished, InHand, Hand, Wanting
<1>4. Wanting'
  BY DEF Wanting
<1>5. Deliveries'
  BY DEF Deliveries, Acked
<1>6. Attempts'
  BY DEF Attempts, Limiting, OutboxTypeOK
<1>7. QED
  BY <1>1, <1>2, <1>3, <1>4, <1>5, <1>6

LEMMA OutboxNextIInv == OutboxIInv /\ [OutboxNext]_outboxVars => OutboxIInv'
<1> SUFFICES ASSUME OutboxIInv, [OutboxNext]_outboxVars PROVE OutboxIInv'
  OBVIOUS
<1>1. CASE \E a \in Alert, s \in {"pending", "suppressed"} : Enqueue(a, s)
  <2>1. batch = {} /\ cur \in Key \cup {NoKey} /\ reply \in Reply
    BY <1>1 DEF Enqueue, OutboxIInv, Hand, OutboxTypeOK
  <2>2. QED
    BY <1>1, <2>1, OutboxPutKeepsIInv DEF Enqueue
<1>2. CASE EnqueueStory
  <2>1. cur \in Key
    BY <1>2 DEF EnqueueStory, OutboxIInv, Hand
  <2>2. QED
    BY <1>2, <2>1, OutboxPutKeepsIInv DEF EnqueueStory, Proceed, Reply
<1>3. CASE \E k \in Key, r \in Reply, delivered \in BOOLEAN : Send(k, r, delivered)
  BY <1>3, SendKeepsIInv
<1>4. CASE Crash \/ DrainRaises
  BY <1>4, InterruptKeepsIInv DEF Crash, DrainRaises
<1>5. QED
  BY <1>1, <1>2, <1>3, <1>4, DemoteKeepsIInv, SuppressKeepsIInv, MarkKeepsIInv,
     RunStepKeepsIInv
     DEF OutboxNext, Fill, Drain, Fault

LEMMA OutboxSpecIInv == OutboxSpec => []OutboxIInv
BY OutboxInitIInv, OutboxNextIInv, PTL DEF OutboxSpec

-----------------------------------------------------------------------------
(* Invariants and action properties *)

\* Every variable keeps its type.
THEOREM OutboxTypeCorrect == OutboxSpec => []OutboxTypeOK
<1>1. OutboxIInv => OutboxTypeOK
  BY DEF OutboxIInv
<1>2. QED
  BY <1>1, OutboxSpecIInv, PTL

\* A notification is duplicated only when the mark of a delivery was lost, and
\* a row marked sent was delivered.
THEOREM DeliveriesAccounted == OutboxSpec => []NoDuplicateWithoutLoss
<1>1. OutboxIInv => NoDuplicateWithoutLoss
  BY DEF OutboxIInv, OutboxTypeOK, Deliveries, Acked, NoDuplicateWithoutLoss
<1>2. QED
  BY <1>1, OutboxSpecIInv, PTL

\* A row is given up only after more than RetryLimit marked replies.
THEOREM RetriesBeforeFailed == OutboxSpec => []GivesUpLate
<1>1. OutboxIInv => GivesUpLate
  <2> SUFFICES ASSUME OutboxIInv, NEW k \in Key, status[k] = "failed"
               PROVE  attempts[k] > RetryLimit /\ rejected[k] + limited > RetryLimit
    BY DEF GivesUpLate
  <2>1. attempts[k] > RetryLimit /\ attempts[k] <= rejected[k] + limited
    BY DEF OutboxIInv, OutboxTypeOK, Attempts
  <2>2. QED
    BY <2>1, BoundAssumption DEF OutboxIInv, OutboxTypeOK
<1>2. QED
  BY <1>1, OutboxSpecIInv, PTL

\* An alert suppressed when it was enqueued never reaches the channel.
THEOREM SuppressedIsSilent == OutboxSpec => []OnlyWantedIsPosted
<1>1. OutboxIInv => OnlyWantedIsPosted
  BY DEF OutboxIInv, Wanting, OnlyWantedIsPosted
<1>2. QED
  BY <1>1, OutboxSpecIInv, PTL

-----------------------------------------------------------------------------
(* The outbox implements AlertLedger *)

\* A step that changes neither a ledger state nor a post count is a stutter.
LEMMA LedgerStutter ==
  ASSUME \A k \in Key : LedgerState(k)' = LedgerState(k), UNCHANGED posts
  PROVE  UNCHANGED <<[k \in Key |-> LedgerState(k)], posts>>
OBVIOUS

LEMMA LedgerDrop ==
  ASSUME NEW S \in SUBSET Key,
         \A k \in S : LedgerState(k) = "due" /\ LedgerState(k)' = "dropped",
         \A k \in Key \ S : LedgerState(k)' = LedgerState(k),
         UNCHANGED posts
  PROVE  Ledger!Next
<1>1. Ledger!Drop(S)
  BY DEF Ledger!Drop
<1>2. QED
  BY <1>1 DEF Ledger!Next

LEMMA LedgerAdmit ==
  ASSUME NEW a \in Key,
         LedgerState(a) = "quiet", LedgerState(a)' = "due",
         \A k \in Key \ {a} : LedgerState(k)' = LedgerState(k),
         UNCHANGED posts
  PROVE  Ledger!Next
<1>1. Ledger!Admit(a)
  BY DEF Ledger!Admit
<1>2. QED
  BY <1>1 DEF Ledger!Next

LEMMA LedgerPost ==
  ASSUME NEW a \in Key,
         LedgerState(a) = "due", posts' = [posts EXCEPT ![a] = @ + 1],
         \A k \in Key : LedgerState(k)' = LedgerState(k)
  PROVE  Ledger!Next
<1>1. Ledger!Post(a)
  BY DEF Ledger!Post
<1>2. QED
  BY <1>1 DEF Ledger!Next

LEMMA LedgerAcknowledge ==
  ASSUME NEW a \in Key,
         LedgerState(a) = "due", posts[a] > 0, LedgerState(a)' = "acknowledged",
         \A k \in Key \ {a} : LedgerState(k)' = LedgerState(k),
         UNCHANGED posts
  PROVE  Ledger!Next
<1>1. Ledger!Acknowledge(a)
  BY DEF Ledger!Acknowledge
<1>2. QED
  BY <1>1 DEF Ledger!Next

LedgerNext ==
  Ledger!Next \/ UNCHANGED <<[k \in Key |-> LedgerState(k)], posts>>

LEMMA PutIsLedgerStep ==
  ASSUME OutboxIInv, NEW a \in Key, NEW s \in {"pending", "suppressed"}, OutboxPut(a, s),
         pc \in {"crawl", "announce"}, pc' = "crawl", batch' = {}, UNCHANGED posts
  PROVE  LedgerNext
<1> USE DEF OutboxIInv, OutboxPut, LedgerState, Due, InHand
<1>1. batch = {} /\ pc # "mark" /\ pc' # "mark"
  BY DEF Hand
<1>2. CASE status[a] = "none" /\ s = "pending"
  <2>1. LedgerState(a) = "quiet" /\ LedgerState(a)' = "due"
    BY <1>1, <1>2 DEF Wanting, OutboxTypeOK
  <2>2. \A k \in Key \ {a} : LedgerState(k)' = LedgerState(k)
    BY <1>1, <1>2 DEF OutboxTypeOK
  <2>3. QED
    BY <2>1, <2>2, LedgerAdmit DEF LedgerNext
<1>3. CASE status[a] # "none" \/ s = "suppressed"
  <2>1. \A k \in Key : LedgerState(k)' = LedgerState(k)
    BY <1>1, <1>3 DEF OutboxTypeOK, Wanting
  <2>2. QED
    BY <2>1, LedgerStutter DEF LedgerNext
<1>4. QED
  BY <1>2, <1>3

LEMMA DemoteIsLedgerStep == OutboxIInv /\ DemoteEvents => LedgerNext
<1> SUFFICES ASSUME OutboxIInv, DemoteEvents PROVE LedgerNext
  OBVIOUS
<1> DEFINE S == Demotable(cur)
<1> USE DEF OutboxIInv, DemoteEvents, Demotable, Pending, LedgerState, Due
<1>0. InHand = {} /\ InHand' = {}
  BY DEF InHand, Hand
<1>1. \A k \in S : LedgerState(k) = "due" /\ LedgerState(k)' = "dropped"
  BY <1>0 DEF Wanting, OutboxTypeOK
<1>2. \A k \in Key \ S : LedgerState(k)' = LedgerState(k)
  BY <1>0 DEF OutboxTypeOK
<1>3. S \in SUBSET Key /\ UNCHANGED posts
  OBVIOUS
<1>4. QED
  BY ONLY <1>1, <1>2, <1>3, LedgerDrop DEF LedgerNext

LEMMA SuppressIsLedgerStep == OutboxIInv /\ SuppressPending => LedgerNext
<1> SUFFICES ASSUME OutboxIInv, SuppressPending PROVE LedgerNext
  OBVIOUS
<1> DEFINE S == Pending \ InHand
<1> USE DEF OutboxIInv, SuppressPending, Pending, LedgerState, Due
<1>0. InHand' = InHand
  BY DEF InHand
<1>1. \A k \in S : LedgerState(k) = "due" /\ LedgerState(k)' = "dropped"
  BY <1>0 DEF Wanting, OutboxTypeOK
<1>2. \A k \in Key \ S : LedgerState(k)' = LedgerState(k)
  BY <1>0 DEF OutboxTypeOK, Wanting
<1>3. S \in SUBSET Key /\ UNCHANGED posts
  OBVIOUS
<1>4. QED
  BY ONLY <1>1, <1>2, <1>3, LedgerDrop DEF LedgerNext

LEMMA SendIsLedgerStep ==
  ASSUME OutboxIInv, NEW k \in Key, NEW r \in Reply, NEW delivered \in BOOLEAN,
         Send(k, r, delivered)
  PROVE  LedgerNext
<1> USE DEF OutboxIInv, Send
<1>1. InHand' = InHand
  BY DEF InHand
<1>2. \A j \in Key : LedgerState(j)' = LedgerState(j)
  BY <1>1 DEF LedgerState, Due
<1>3. LedgerState(k) = "due"
  BY DEF HandIsUnfinished, InHand, LedgerState, Due
<1>4. CASE delivered
  BY <1>2, <1>3, <1>4, LedgerPost DEF LedgerNext
<1>5. CASE ~delivered
  BY <1>2, <1>5, LedgerStutter DEF LedgerNext
<1>6. QED
  BY <1>4, <1>5

LEMMA MarkIsLedgerStep ==
  OutboxIInv /\ (MarkSent \/ MarkLimited \/ MarkError) => LedgerNext
<1> SUFFICES ASSUME OutboxIInv, MarkSent \/ MarkLimited \/ MarkError PROVE LedgerNext
  OBVIOUS
<1> USE DEF OutboxIInv, MarkRow, NextRow
<1>0. PICK c \in Key : c = cur
  BY DEF MarkSent, MarkLimited, MarkError, Hand
<1>1. c \in InHand /\ c \notin batch /\ UNCHANGED posts
  BY <1>0 DEF MarkSent, MarkLimited, MarkError, Hand, InHand
<1>2. LedgerState(c) = "due"
  BY <1>1 DEF HandIsUnfinished, LedgerState, Due
<1>3. InHand = batch \cup {c} /\ InHand' = batch'
  BY <1>0 DEF MarkSent, MarkLimited, MarkError, InHand
<1>4. CASE MarkSent
  <2>1. posts[c] > 0
    BY <1>0, <1>1, <1>4 DEF MarkSent, Deliveries, Acked, OutboxTypeOK
  <2>2. LedgerState(c)' = "acknowledged"
    BY <1>0, <1>1, <1>3, <1>4
       DEF MarkSent, LedgerState, Due, HandIsUnfinished, OutboxTypeOK
  <2>3. \A k \in Key \ {c} : LedgerState(k)' = LedgerState(k)
    BY <1>0, <1>1, <1>3, <1>4 DEF MarkSent, LedgerState, Due, OutboxTypeOK
  <2>4. c \in Key /\ UNCHANGED posts
    BY <1>1
  <2>5. QED
    BY ONLY <1>2, <2>1, <2>2, <2>3, <2>4, LedgerAcknowledge DEF LedgerNext
<1>5. CASE MarkLimited
  <2> DEFINE S == {k \in batch : status[k] = "suppressed"}
  <2>1. \A k \in S : LedgerState(k) = "due" /\ LedgerState(k)' = "dropped"
    BY <1>0, <1>1, <1>3, <1>5
       DEF MarkLimited, LedgerState, Due, HandIsUnfinished, OutboxTypeOK
  <2>2. \A k \in Key \ S : LedgerState(k)' = LedgerState(k)
    BY <1>0, <1>1, <1>2, <1>3, <1>5
       DEF MarkLimited, LedgerState, Due, HandIsUnfinished, OutboxTypeOK
  <2>3. S \in SUBSET Key
    BY DEF OutboxTypeOK
  <2>4. QED
    BY ONLY <1>1, <2>1, <2>2, <2>3, LedgerDrop DEF LedgerNext
<1>6. CASE MarkError
  <2>1. \A k \in Key \ {c} : LedgerState(k)' = LedgerState(k)
    BY <1>0, <1>1, <1>3, <1>6 DEF MarkError, LedgerState, Due, OutboxTypeOK
  <2>2. CASE FinalStatus(attempts[c]) = "pending"
    <3>1. LedgerState(c)' = "due"
      BY <1>0, <1>1, <1>6, <2>2 DEF MarkError, LedgerState, Due, HandIsUnfinished, OutboxTypeOK
    <3>2. QED
      BY <1>0, <1>1, <1>2, <2>1, <3>1, LedgerStutter DEF LedgerNext
  <2>3. CASE FinalStatus(attempts[c]) = "failed"
    <3>1. LedgerState(c)' = "dropped"
      BY <1>0, <1>1, <1>3, <1>6, <2>3
         DEF MarkError, LedgerState, Due, HandIsUnfinished, OutboxTypeOK
    <3>2. /\ {c} \in SUBSET Key
          /\ \A k \in {c} : LedgerState(k) = "due" /\ LedgerState(k)' = "dropped"
      BY <1>2, <3>1
    <3>3. QED
      BY ONLY <1>1, <2>1, <3>2, LedgerDrop DEF LedgerNext
  <2>4. QED
    BY <2>2, <2>3 DEF FinalStatus
<1>7. QED
  BY <1>4, <1>5, <1>6

\* A run that stops drops the rows it had in hand that the operator withdrew.
LEMMA InterruptIsLedgerStep ==
  ASSUME OutboxIInv, Interrupted, NEW label \in {"down", "crawl"}, Proceed(label)
  PROVE  LedgerNext
<1> DEFINE S == {k \in InHand : status[k] = "suppressed"}
<1> USE DEF OutboxIInv, Interrupted, Proceed, LedgerState, Due
<1>0. InHand' = {}
  BY DEF InHand
<1>1. \A k \in S : LedgerState(k) = "due" /\ LedgerState(k)' = "dropped"
  BY <1>0 DEF HandIsUnfinished
<1>2. \A k \in Key \ S : LedgerState(k)' = LedgerState(k)
  BY <1>0 DEF HandIsUnfinished, Wanting
<1>3. S \in SUBSET Key /\ UNCHANGED posts
  BY DEF InHand, Hand, OutboxTypeOK
<1>4. QED
  BY ONLY <1>1, <1>2, <1>3, LedgerDrop DEF LedgerNext

LEMMA RunStepIsLedgerStep ==
  ASSUME OutboxIInv,
         \/ Begin \/ StartDrain \/ EndDrain \/ DrainUnconfigured
         \/ \E s \in Story : SaveStory(s)
         \/ UNCHANGED outboxVars
  PROVE  LedgerNext
<1>1. \A k \in Key : LedgerState(k)' = LedgerState(k)
  BY DEF OutboxIInv, Begin, StartDrain, EndDrain, DrainUnconfigured, SaveStory, Proceed,
         outboxVars, Pending, LedgerState, Due, InHand, Hand, Wanting
<1>2. UNCHANGED posts
  BY DEF Begin, StartDrain, EndDrain, DrainUnconfigured, SaveStory, outboxVars
<1>3. QED
  BY <1>1, <1>2, LedgerStutter DEF LedgerNext

LEMMA NextIsLedgerStep == OutboxIInv /\ [OutboxNext]_outboxVars => LedgerNext
<1> SUFFICES ASSUME OutboxIInv, [OutboxNext]_outboxVars PROVE LedgerNext
  OBVIOUS
<1>1. CASE \E a \in Alert, s \in {"pending", "suppressed"} : Enqueue(a, s)
  <2>1. batch = {}
    BY <1>1 DEF Enqueue, OutboxIInv, Hand
  <2>2. QED
    BY <1>1, <2>1, PutIsLedgerStep DEF Enqueue
<1>2. CASE EnqueueStory
  <2>1. cur \in Key
    BY <1>2 DEF EnqueueStory, OutboxIInv, Hand
  <2>2. QED
    BY <1>2, <2>1, PutIsLedgerStep DEF EnqueueStory, Proceed
<1>3. CASE \E k \in Key, r \in Reply, delivered \in BOOLEAN : Send(k, r, delivered)
  BY <1>3, SendIsLedgerStep
<1>4. CASE Crash \/ DrainRaises
  BY <1>4, InterruptIsLedgerStep DEF Crash, DrainRaises
<1>5. QED
  BY <1>1, <1>2, <1>3, <1>4, DemoteIsLedgerStep, SuppressIsLedgerStep,
     MarkIsLedgerStep, RunStepIsLedgerStep
     DEF OutboxNext, Fill, Drain, Fault

\* Whatever the runs, the faults, the webhook and the operator do: an alert is
\* posted only while it is due, and never again once it is acknowledged or
\* dropped.
THEOREM OutboxImplementsLedger == OutboxSpec => ImplementsLedger
<1>1. OutboxInit => Ledger!Init
  BY DEF OutboxInit, Ledger!Init, LedgerState, Due
<1>2. OutboxIInv /\ [OutboxNext]_outboxVars => [Ledger!Next]_<<[k \in Key |-> LedgerState(k)], posts>>
  BY NextIsLedgerStep DEF LedgerNext
<1>3. QED
  BY <1>1, <1>2, OutboxSpecIInv, PTL DEF OutboxSpec, ImplementsLedger, Ledger!Spec

\* A row that is sent, failed or demoted, or suppressed and not in the hand of
\* a drain, keeps its status and is not posted again.
THEOREM FinishedRowsStay == OutboxSpec => FinishedStaysFinished
<1> DEFINE Finished(k) == \/ status[k] \in {"sent", "failed", "demoted"}
                          \/ status[k] = "suppressed" /\ k \notin InHand
           StaysDone == \A k \in Key : Finished(k) => status'[k] = status[k] /\ posts'[k] = posts[k]
<1>1. OutboxIInv /\ [OutboxNext]_outboxVars => [StaysDone]_outboxVars
  <2> SUFFICES ASSUME OutboxIInv, OutboxNext, NEW k \in Key, Finished(k)
               PROVE  status'[k] = status[k] /\ posts'[k] = posts[k]
    OBVIOUS
  <2>0. k \notin InHand
    BY DEF OutboxIInv, HandIsUnfinished
  <2> USE DEF OutboxIInv, OutboxTypeOK
  <2>1. CASE Begin \/ SuppressPending
    BY <2>1 DEF Begin, SuppressPending, Pending
  <2>2. CASE Fill
    BY <2>2 DEF Fill, Enqueue, SaveStory, DemoteEvents, EnqueueStory, OutboxPut,
                Demotable, Pending
  <2>3. CASE Drain
    BY <2>0, <2>3 DEF Drain, StartDrain, Send, MarkSent, MarkLimited, MarkError,
                      EndDrain, MarkRow, InHand
  <2>4. CASE Fault
    BY <2>4 DEF Fault, Crash, DrainRaises, DrainUnconfigured, Interrupted
  <2>5. QED
    BY <2>1, <2>2, <2>3, <2>4 DEF OutboxNext
<1>2. QED
  BY <1>1, OutboxSpecIInv, PTL DEF OutboxSpec, FinishedStaysFinished

-----------------------------------------------------------------------------
(***************************************************************************)
(* The alerts of the desk, for every number of candidates, sources, items  *)
(* and settings.  What a candidate may still announce is bounded by how    *)
(* often it came to deserve attention; an incident is closed only by a     *)
(* success, which no streak of failures reaches across; and an item that   *)
(* was collected before its source was admitted stays refused.             *)
(***************************************************************************)

Item == [source : Source, candidate : Candidate]
Activation == [day : Nat, runs : [Source -> Nat], times : Nat]
Incident == [open : BOOLEAN, start : Int, latest : Nat, number : Nat]

\* The types of what the alerts compare.
Shape ==
  /\ source \in [Source -> Admission] /\ items \in Seq(Item)
  /\ candidate \in [Candidate -> CandidateRow]
  /\ runs \in [Source -> Seq({"ok", "failed"})]
  /\ activation \in Activation /\ day \in Nat
  /\ states \in [Candidate -> EventState] /\ incidents \in [Source -> Incident]
  /\ evaluated \in [Candidate -> Optional(SUBSET Nat)] /\ weighed \in [Candidate -> Optional(SUBSET Nat)]
  /\ rises \in [Candidate -> Nat] /\ made \in [Candidate -> Nat] /\ soak \subseteq DOMAIN items

\* A candidate that deserves attention and was not found to may be announced,
\* and there is room for that.
ToAnnounce(c) == IF High(c) /\ ~states[c].high THEN 1 ELSE 0
RoomToAnnounce == \A c \in Candidate : made[c] + ToAnnounce(c) <= rises[c] + activation.times

\* An incident that is over ended with a success.
EndedBySuccess ==
  \A s \in Source : incidents[s].number > 0 /\ ~incidents[s].open =>
    \E j \in 1..Len(runs[s]) : incidents[s].start <= j /\ runs[s][j] = "ok"

\* A muted source was not admitted; and what was collected before its
\* admission comes before it, whenever it is admitted again.
MutedIsOut == \A s \in Source : source[s].muted => source[s].admitted = None
SoakIsRefused ==
  \A i \in soak : LET s == source[items[i].source] IN s.contract /\ (s.admitted = None \/ i <= s.admitted)

AlertsIInv == Shape /\ WatermarksAreSeparate /\ RoomToAnnounce /\ EndedBySuccess /\ MutedIsOut /\ SoakIsRefused

-----------------------------------------------------------------------------
(* What a generation of alerts does *)

\* The items of a candidate are numbers.
LEMMA MembersAreItems == ASSUME NEW c, Shape PROVE Members(c) \in SUBSET Nat /\ Members(c) \subseteq DOMAIN items
  BY DEF Members, Shape

\* The event states after an evaluation.
LEMMA EvaluatedState ==
  ASSUME NEW c \in Candidate, Shape
  PROVE  \E q \in EventState :
           /\ q = WriteSeen(Baselines(c), "heard", Members(c))
           /\ q.heard = Members(c) /\ q.promo = states[c].promo
           /\ q.high = IF Heard(c) \/ ~candidate[c].recent THEN High(c) ELSE states[c].high
<1>1. PICK st \in EventState : st = states[c]
  BY DEF Shape
<1>2. PICK row \in CandidateRow : row = candidate[c]
  BY DEF Shape
<1>3. /\ st.high \in BOOLEAN /\ st.ready \in BOOLEAN /\ st.base \in Nat
      /\ st.highs \in Nat /\ st.increases \in Nat /\ st.readies \in Nat
      /\ st.heard \in Optional(SUBSET Nat) /\ st.promo \in Optional(SUBSET Nat)
  BY DEF EventState
<1>4. row.score \in Nat /\ row.groups \in Nat
  BY ScaleAssumption DEF CandidateRow
<1>5. PICK h \in BOOLEAN : h = IF Heard(c) \/ ~candidate[c].recent THEN High(c) ELSE st.high
  BY <1>3 DEF High
<1>6. PICK r \in BOOLEAN : r = IF Heard(c) \/ ~candidate[c].recent THEN Ready(c) ELSE st.ready
  BY <1>3 DEF Ready
<1>7. PICK b \in Nat : b = IF st.rows # "all" \/ Increased(c) \/ row.score < st.base THEN row.score ELSE st.base
  BY <1>3, <1>4
<1>8. PICK k1 \in Nat : k1 = st.highs + Step(c, "high")
  BY <1>3 DEF Step
<1>9. PICK k2 \in Nat : k2 = st.increases + Step(c, "score")
  BY <1>3 DEF Step
<1>10. PICK k3 \in Nat : k3 = st.readies + Step(c, "ready")
  BY <1>3 DEF Step
<1>11. PICK g \in Nat : g = row.groups
  BY <1>4
<1>12. PICK p \in Optional(SUBSET Nat) : p = st.promo
  BY <1>3
<1>13. PICK m \in Optional(SUBSET Nat) : m = Members(c)
  BY MembersAreItems DEF Optional
<1>14. PICK o \in Optional(SUBSET Nat) : o = st.heard
  BY <1>3
<1>15. [rows |-> "all", high |-> h, highs |-> k1, base |-> b, increases |-> k2, groups |-> g,
        ready |-> r, readies |-> k3, heard |-> o, promo |-> p] \in EventState
  BY DEF EventState
<1>16. PICK s \in EventState : s = [rows |-> "all", high |-> h, highs |-> k1, base |-> b, increases |-> k2,
                                    groups |-> g, ready |-> r, readies |-> k3, heard |-> o, promo |-> p]
  BY <1>15
<1>17. s = Baselines(c) /\ s.high = h /\ s.promo = p
  BY <1>1, <1>2, <1>5, <1>6, <1>7, <1>8, <1>9, <1>10, <1>11, <1>12, <1>14, <1>16 DEF Baselines
<1>18. [s EXCEPT !.heard = m] \in EventState
  BY DEF EventState
<1>19. PICK q \in EventState : q = [s EXCEPT !.heard = m]
  BY <1>18
<1>20. q.heard = m /\ q.promo = s.promo /\ q.high = s.high
  BY <1>19 DEF EventState
<1>21. q = WriteSeen(Baselines(c), "heard", Members(c))
  BY <1>13, <1>17, <1>19 DEF WriteSeen
<1>22. QED
  BY <1>1, <1>5, <1>12, <1>13, <1>17, <1>20, <1>21

\* A candidate is announced as of high attention at most once, and only if it
\* was found to deserve it.
HighNotes(c) == {n \in Emitted(CandidateEvents) : n.key[1] = "high" /\ n.key[2] = c}

LEMMA OneAnnouncement ==
  ASSUME NEW c \in Candidate
  PROVE  /\ Cardinality(HighNotes(c)) \in {0, 1}
         /\ Cardinality(HighNotes(c)) = 1 => c \in Known /\ Crosses(c, "high")
<1>1. \A d \in Candidate, type \in CandidateTypes : CandidateKey(d, type)[1] = type /\ CandidateKey(d, type)[2] = d
  BY DEF CandidateKey, CandidateTypes
<1> DEFINE one == [key |-> CandidateKey(c, "high"), event |-> day, made |-> day,
                   muted |-> "high" \in settings.mutedTypes \/ settings.mutedTopic,
                   read |-> FALSE, dismissed |-> FALSE]
<1>2. \A n \in HighNotes(c) : n = one /\ c \in Known /\ Crosses(c, "high")
  <2> SUFFICES ASSUME NEW n \in HighNotes(c) PROVE n = one /\ c \in Known /\ Crosses(c, "high")
    OBVIOUS
  <2>1. PICK e \in CandidateEvents : n = [key |-> e.key, event |-> e.event, made |-> day, muted |-> e.muted,
                                         read |-> FALSE, dismissed |-> FALSE]
    BY DEF HighNotes, Emitted
  <2>2. PICK d \in Known, type \in CandidateTypes :
          /\ Crosses(d, type)
          /\ e = [key |-> CandidateKey(d, type), event |-> day,
                  muted |-> type \in settings.mutedTypes \/ settings.mutedTopic]
    BY DEF CandidateEvents
  <2>3. n.key = CandidateKey(d, type)
    BY <2>1, <2>2
  <2>4. type = "high" /\ d = c
    <3>1. n.key[1] = "high" /\ n.key[2] = c
      BY DEF HighNotes
    <3>2. CandidateKey(d, type)[1] = type /\ CandidateKey(d, type)[2] = d
      BY <1>1 DEF Known
    <3> QED BY <2>3, <3>1, <3>2
  <2> QED BY <2>1, <2>2, <2>4
<1>3. HighNotes(c) = {} \/ (HighNotes(c) = {one} /\ c \in Known /\ Crosses(c, "high"))
  <2> HIDE DEF one
  <2> QED BY <1>2
<1>4. Cardinality({}) = 0 /\ Cardinality({one}) = 1
  BY FS_EmptySet, FS_Singleton
<1>5. QED
  BY <1>3, <1>4

\* The failures at the end of a source's runs come after any success.
LEMMA StreakIsBounded ==
  ASSUME NEW s \in Source, Shape
  PROVE  /\ Streak(s) \in Nat /\ Latest(s) \in Nat
         /\ \A j \in 1..Latest(s) : runs[s][j] = "ok" => Streak(s) <= Latest(s) - j
<1>1. PICK n \in Nat : n = Latest(s) /\ n = Len(runs[s])
  BY DEF Shape, Latest
<1>2. PICK a \in Nat : a = activation.runs[s]
  BY DEF Shape, Activation
<1>3. PICK K \in SUBSET (a+1 .. n) : K = {k \in a+1 .. n : \A j \in k..n : runs[s][j] = "failed"} /\ Streak(s) = Cardinality(K)
  BY <1>1, <1>2 DEF Streak
<1>4. IsFiniteSet(a+1 .. n)
  <2>1. a+1 \in Int /\ n \in Int
    BY <1>1, <1>2
  <2> QED BY <2>1, FS_Interval
<1>5. IsFiniteSet(K) /\ Cardinality(K) \in Nat
  BY <1>4, FS_Subset, FS_CardinalityType
<1>6. ASSUME NEW j \in 1..n, runs[s][j] = "ok"
      PROVE  Cardinality(K) <= n - j
  <2>1. K \subseteq j+1 .. n
    <3> SUFFICES ASSUME NEW k \in K, k <= j PROVE FALSE
      BY <1>1, <1>2
    <3>1. j \in k..n
      BY <1>1, <1>2
    <3> QED BY <1>3, <1>6, <3>1
  <2>2. IsFiniteSet(j+1 .. n) /\ Cardinality(j+1 .. n) = n - j
    <3>1. j+1 \in Int /\ n \in Int
      BY <1>1
    <3>2. Cardinality(j+1 .. n) = IF j+1 > n THEN 0 ELSE n - (j+1) + 1
      BY <3>1, FS_Interval
    <3>3. IsFiniteSet(j+1 .. n)
      BY <3>1, FS_Interval
    <3> QED BY <1>1, <3>2, <3>3
  <2> QED BY <2>1, <2>2, FS_Subset
<1>7. QED
  BY <1>1, <1>3, <1>5, <1>6

\* The incidents after an evaluation: one is opened after the success that
\* ended the last, or closed by a success.
LEMMA IncidentsEvaluated ==
  ASSUME NEW s \in Source, Shape, EndedBySuccess
  PROVE  \E i, j \in Incident :
            /\ i = incidents[s] /\ j = ProviderIncidents[s]
            /\ j.number > 0 /\ ~j.open => \E k \in 1..Len(runs[s]) : j.start <= k /\ runs[s][k] = "ok"
            /\ i.number > 0 /\ j.number > i.number => \E k \in i.start .. j.start : runs[s][k] = "ok"
<1>1. PICK i \in Incident : i = incidents[s]
  BY DEF Shape
<1>2. PICK n \in Nat : n = Latest(s) /\ n = Len(runs[s])
  BY DEF Shape, Latest
<1>3. i.open \in BOOLEAN /\ i.start \in Int /\ i.latest \in Nat /\ i.number \in Nat
  BY DEF Incident
<1>4. CASE Recovers(s)
  <2>1. [i EXCEPT !.open = FALSE] \in Incident
    BY DEF Incident
  <2>2. PICK j \in Incident : j = [i EXCEPT !.open = FALSE]
    BY <2>1
  <2>3. j = ProviderIncidents[s]
    BY <1>1, <1>4, <2>2 DEF ProviderIncidents
  <2>4. j.start = i.start /\ j.number = i.number
    BY <2>2 DEF Incident
  <2>5. runs[s][n] = "ok" /\ i.start < n
    BY <1>1, <1>2, <1>3, <1>4 DEF Recovers
  <2>6. n # 0
    <3>1. n > activation.runs[s] /\ activation.runs[s] \in Nat
      BY <1>2, <1>4 DEF Recovers, Watched, Shape, Activation
    <3> QED BY <3>1
  <2>7. \E k \in 1..Len(runs[s]) : j.start <= k /\ runs[s][k] = "ok"
    BY <1>2, <1>3, <2>4, <2>5, <2>6
  <2> QED BY <1>1, <1>3, <2>3, <2>4, <2>7
<1>5. CASE ~Recovers(s) /\ Breaks(s)
  <2>1. Streak(s) \in Nat
    BY StreakIsBounded
  <2>2. PICK t \in Int, m \in Nat : t = n - Streak(s) + 1 /\ m = i.number + 1
    BY <1>3, <2>1
  <2>3. [open |-> TRUE, start |-> t, latest |-> n, number |-> m] \in Incident
    BY DEF Incident
  <2>4. PICK j \in Incident : j = [open |-> TRUE, start |-> t, latest |-> n, number |-> m]
    BY <2>3
  <2>5. j = ProviderIncidents[s]
    BY <1>1, <1>2, <1>5, <2>2, <2>4 DEF ProviderIncidents
  <2>6. j.open /\ j.start = t
    BY <2>4
  <2>7. i.number > 0 => \E k \in i.start .. t : runs[s][k] = "ok"
    <3> SUFFICES ASSUME i.number > 0 PROVE \E k \in i.start .. t : runs[s][k] = "ok"
      OBVIOUS
    <3>1. ~i.open
      BY <1>1, <1>5 DEF Breaks
    <3>2. PICK k \in 1..n : i.start <= k /\ runs[s][k] = "ok"
      BY <1>1, <1>2, <3>1 DEF EndedBySuccess
    <3>3. Streak(s) <= n - k
      BY <1>2, <3>2, StreakIsBounded
    <3>4. k <= t
      BY <2>1, <2>2, <3>3
    <3> QED BY <1>3, <2>2, <3>2, <3>4
  <2> QED BY <1>1, <2>5, <2>6, <2>7
<1>6. CASE ~Recovers(s) /\ ~Breaks(s) /\ Persists(s)
  <2>1. [i EXCEPT !.latest = n] \in Incident
    BY DEF Incident
  <2>2. PICK j \in Incident : j = [i EXCEPT !.latest = n]
    BY <2>1
  <2>3. j = ProviderIncidents[s]
    BY <1>1, <1>2, <1>6, <2>2 DEF ProviderIncidents
  <2>4. j.start = i.start /\ j.number = i.number /\ j.open = i.open
    BY <2>2 DEF Incident
  <2> QED BY <1>1, <1>3, <2>3, <2>4 DEF EndedBySuccess
<1>7. CASE ~Recovers(s) /\ ~Breaks(s) /\ ~Persists(s)
  <2>1. i = ProviderIncidents[s]
    BY <1>1, <1>7 DEF ProviderIncidents
  <2>2. i.number > 0 /\ ~i.open => \E k \in 1..Len(runs[s]) : i.start <= k /\ runs[s][k] = "ok"
    BY <1>1 DEF EndedBySuccess
  <2>3. ~(i.number > i.number)
    BY <1>3
  <2> QED BY <1>1, <2>1, <2>2, <2>3
<1>8. QED
  BY <1>4, <1>5, <1>6, <1>7

-----------------------------------------------------------------------------
(* The steps *)

\* Notifications, digests, promotions and the clock are not compared with.
LEMMA BystanderStep ==
  ASSUME AlertsIInv, day' \in Nat,
         UNCHANGED <<source, items, candidate, runs, activation, settings, states, incidents,
                     evaluated, weighed, soak, rises, made>>
  PROVE  AlertsIInv'
<1>1. Shape'
  BY DEF AlertsIInv, Shape
<1>2. WatermarksAreSeparate' /\ EndedBySuccess' /\ MutedIsOut' /\ SoakIsRefused'
  BY DEF AlertsIInv, WatermarksAreSeparate, EndedBySuccess, MutedIsOut, SoakIsRefused
<1>3. RoomToAnnounce'
  BY DEF AlertsIInv, RoomToAnnounce, ToAnnounce, High
<1>4. QED
  BY <1>1, <1>2, <1>3 DEF AlertsIInv

\* A generation of alerts evaluates every candidate and every source.
LEMMA EvaluationStep ==
  ASSUME AlertsIInv, Baselined,
         UNCHANGED <<source, items, candidate, runs, activation, settings, weighed, soak, rises, day>>
  PROVE  AlertsIInv'
<1>1. Shape
  BY DEF AlertsIInv
<1>2. ASSUME NEW c \in Candidate
      PROVE  /\ states'[c] \in EventState /\ evaluated'[c] \in Optional(SUBSET Nat)
             /\ states'[c].heard = evaluated'[c] /\ states'[c].promo = weighed[c]
             /\ states'[c].high = IF c \in Known /\ (Heard(c) \/ ~candidate[c].recent) THEN High(c) ELSE states[c].high
  <2>1. CASE c \in Known
    <3>1. PICK q \in EventState :
            /\ q = WriteSeen(Baselines(c), "heard", Members(c))
            /\ q.heard = Members(c) /\ q.promo = states[c].promo
            /\ q.high = IF Heard(c) \/ ~candidate[c].recent THEN High(c) ELSE states[c].high
      BY <1>1, EvaluatedState
    <3>2. states'[c] = q /\ evaluated'[c] = Members(c)
      BY <2>1, <3>1 DEF Baselined
    <3>3. Members(c) \in Optional(SUBSET Nat)
      BY <1>1, MembersAreItems DEF Optional
    <3> QED BY <2>1, <3>1, <3>2, <3>3 DEF AlertsIInv, WatermarksAreSeparate
  <2>2. CASE c \notin Known
    <3>1. states'[c] = states[c] /\ evaluated'[c] = evaluated[c]
      BY <2>2 DEF Baselined
    <3> QED BY <1>1, <2>2, <3>1 DEF AlertsIInv, WatermarksAreSeparate, Shape
  <2> QED BY <2>1, <2>2
<1>3. states' \in [Candidate -> EventState] /\ evaluated' \in [Candidate -> Optional(SUBSET Nat)]
  <2>1. states' = [c \in Candidate |-> states'[c]] /\ evaluated' = [c \in Candidate |-> evaluated'[c]]
    BY DEF Baselined
  <2> QED BY <1>2, <2>1
<1>4. ASSUME NEW s \in Source
      PROVE  /\ incidents'[s] \in Incident
             /\ incidents'[s].number > 0 /\ ~incidents'[s].open =>
                  \E k \in 1..Len(runs[s]) : incidents'[s].start <= k /\ runs[s][k] = "ok"
  <2>1. incidents' = ProviderIncidents
    BY DEF Baselined
  <2>2. PICK i, j \in Incident :
          /\ i = incidents[s] /\ j = ProviderIncidents[s]
          /\ j.number > 0 /\ ~j.open => \E k \in 1..Len(runs[s]) : j.start <= k /\ runs[s][k] = "ok"
    BY <1>1, IncidentsEvaluated DEF AlertsIInv
  <2> QED BY <2>1, <2>2
<1>5. incidents' \in [Source -> Incident]
  <2>1. incidents' = [s \in Source |-> incidents'[s]]
    BY DEF Baselined, ProviderIncidents
  <2> QED BY <1>4, <2>1
<1>6. ASSUME NEW c \in Candidate
      PROVE  /\ made'[c] \in {made[c], made[c] + 1}
             /\ made'[c] = made[c] + 1 => c \in Known /\ Crosses(c, "high")
  <2>1. made'[c] = made[c] + Cardinality(HighNotes(c))
    BY DEF Baselined, HighNotes
  <2>2. made[c] \in Nat
    BY <1>1 DEF Shape
  <2> QED BY <2>1, <2>2, OneAnnouncement
<1>7. made' \in [Candidate -> Nat]
  <2>1. made' = [c \in Candidate |-> made'[c]]
    BY DEF Baselined
  <2>2. \A c \in Candidate : made'[c] \in Nat
    <3>1. \A c \in Candidate : made[c] \in Nat
      BY <1>1 DEF Shape
    <3> QED BY <1>6, <3>1
  <2> QED BY <2>1, <2>2
<1>8. Shape'
  BY <1>1, <1>3, <1>5, <1>7 DEF Shape
<1>9. WatermarksAreSeparate'
  BY <1>2 DEF WatermarksAreSeparate
<1>10. RoomToAnnounce'
  <2> SUFFICES ASSUME NEW c \in Candidate
               PROVE  made'[c] + (IF High(c) /\ ~states'[c].high THEN 1 ELSE 0) <= rises[c] + activation.times
    BY DEF RoomToAnnounce, ToAnnounce, High
  <2>1. made[c] + ToAnnounce(c) <= rises[c] + activation.times
    BY DEF AlertsIInv, RoomToAnnounce
  <2>2. made[c] \in Nat /\ rises[c] \in Nat /\ activation.times \in Nat
    BY <1>1 DEF Shape, Activation
  <2>3. CASE made'[c] = made[c] + 1
    <3>1. c \in Known /\ Crosses(c, "high")
      BY <1>6, <2>3
    <3>2. High(c) /\ ~states[c].high /\ Heard(c)
      BY <3>1 DEF Crosses, Audible
    <3>3. states'[c].high = High(c)
      BY <1>2, <3>1, <3>2
    <3>4. ToAnnounce(c) = 1
      BY <3>2 DEF ToAnnounce
    <3> QED BY <2>1, <2>2, <2>3, <3>2, <3>3, <3>4
  <2>4. CASE made'[c] = made[c]
    <3>1. High(c) /\ ~states'[c].high => ~states[c].high
      BY <1>2
    <3> QED BY <2>1, <2>2, <2>4, <3>1 DEF ToAnnounce
  <2> QED BY <1>6, <2>3, <2>4
<1>11. EndedBySuccess'
  BY <1>4 DEF EndedBySuccess
<1>12. MutedIsOut' /\ SoakIsRefused'
  BY DEF AlertsIInv, MutedIsOut, SoakIsRefused
<1>13. QED
  BY <1>8, <1>9, <1>10, <1>11, <1>12 DEF AlertsIInv

LEMMA GeneratedStep ==
  ASSUME AlertsIInv, Generated,
         UNCHANGED <<source, items, candidate, runs, activation, settings, weighed, soak, rises, day>>
  PROVE  AlertsIInv'
<1>1. CASE settings.on
  BY <1>1, EvaluationStep DEF Generated
<1>2. CASE ~settings.on
  <2>1. UNCHANGED <<states, incidents, evaluated, made>> /\ day' \in Nat
    BY <1>2 DEF Generated, book, AlertsIInv, Shape
  <2> QED BY <2>1, BystanderStep
<1>3. QED
  BY <1>1, <1>2

\* The count of what came to deserve attention.
LEMMA TallyCounts ==
  ASSUME Tally, Shape
  PROVE  /\ rises' \in [Candidate -> Nat]
         /\ \A c \in Candidate : /\ rises[c] <= rises'[c]
                                 /\ ~High(c) /\ High(c)' => rises'[c] = rises[c] + 1
<1>1. \A c \in Candidate : rises'[c] = rises[c] + (IF ~High(c) /\ High(c)' THEN 1 ELSE 0) /\ rises[c] \in Nat
  BY DEF Tally, Shape
<1>2. rises' = [c \in Candidate |-> rises'[c]]
  BY DEF Tally
<1>3. \A c \in Candidate : rises'[c] \in Nat
  BY <1>1
<1>4. QED
  BY <1>1, <1>2, <1>3

\* So a step after which the event states are what they were, or gone with an
\* activation, leaves room for what may be announced now.
LEMMA RoomStays ==
  ASSUME AlertsIInv, UNCHANGED made, rises' \in [Candidate -> Nat], activation'.times \in Nat,
         activation.times <= activation'.times,
         NEW c \in Candidate,
         rises[c] <= rises'[c], (~High(c) /\ High(c)') => rises'[c] = rises[c] + 1,
         states'[c].high = states[c].high \/ activation'.times = activation.times + 1
  PROVE  made'[c] + ToAnnounce(c)' <= rises'[c] + activation'.times
<1>1. made[c] \in Nat /\ rises[c] \in Nat /\ rises'[c] \in Nat /\ activation.times \in Nat
  BY DEF AlertsIInv, Shape, Activation
<1>2. made[c] + ToAnnounce(c) <= rises[c] + activation.times
  BY DEF AlertsIInv, RoomToAnnounce
<1>3. PICK h, g \in BOOLEAN : (h <=> High(c)) /\ (g <=> High(c)')
  OBVIOUS
<1>4. ToAnnounce(c) = IF h /\ ~states[c].high THEN 1 ELSE 0
  BY <1>3 DEF ToAnnounce
<1>5. ToAnnounce(c)' = IF g /\ ~states'[c].high THEN 1 ELSE 0
  BY <1>3 DEF ToAnnounce
<1>6. QED
  BY <1>1, <1>2, <1>3, <1>4, <1>5

\* A successful run stamps the baseline of its source, and nothing else that
\* matters here.
LEMMA SucceededFields ==
  ASSUME NEW s \in Source, NEW n \in Nat, Shape
  PROVE  /\ Succeeded(s, n) \in [Source -> Admission]
         /\ \A x \in Source : /\ Succeeded(s, n)[x].muted = source[x].muted
                              /\ Succeeded(s, n)[x].contract = source[x].contract
                              /\ Succeeded(s, n)[x].admitted = source[x].admitted
<1>1. PICK a \in Admission : a = source[s]
  BY DEF Shape
<1>2. PICK b \in Int : b = IF a.baseline = None /\ a.fresh /\ Controlled(s) THEN n ELSE a.baseline
  BY DEF Admission
<1>3. [a EXCEPT !.fresh = FALSE, !.baseline = b] \in Admission
  BY DEF Admission
<1>4. PICK d \in Admission : d = [a EXCEPT !.fresh = FALSE, !.baseline = b]
  BY <1>3
<1>5. d.muted = a.muted /\ d.contract = a.contract /\ d.admitted = a.admitted
  BY <1>4 DEF Admission
<1>6. Stamped(a, Controlled(s), n) = d
  BY <1>2, <1>4 DEF Stamped, Admission
<1>7. Succeeded(s, n) = [source EXCEPT ![s] = d]
  BY <1>1, <1>6 DEF Succeeded
<1>8. QED
  BY <1>1, <1>5, <1>7 DEF Shape

\* One more run of a source.
LEMMA RunAppended ==
  ASSUME NEW s \in Source, NEW o \in {"ok", "failed"}, Shape, EndedBySuccess, UNCHANGED incidents,
         runs' = [runs EXCEPT ![s] = Append(@, o)]
  PROVE  runs' \in [Source -> Seq({"ok", "failed"})] /\ EndedBySuccess'
<1>1. \A x \in Source : runs[x] \in Seq({"ok", "failed"})
  BY DEF Shape
<1>2. PICK q \in Seq({"ok", "failed"}) : q = Append(runs[s], o)
  BY <1>1, AppendProperties
<1>3. runs' = [runs EXCEPT ![s] = q]
  BY <1>2
<1>4. /\ runs' \in [Source -> Seq({"ok", "failed"})]
      /\ runs'[s] = q /\ \A x \in Source \ {s} : runs'[x] = runs[x]
  BY <1>3 DEF Shape
<1>5. Len(q) = Len(runs[s]) + 1 /\ Len(runs[s]) \in Nat /\ \A k \in 1..Len(runs[s]) : q[k] = runs[s][k]
  BY <1>1, <1>2
<1>6. EndedBySuccess'
  <2> SUFFICES ASSUME NEW x \in Source, incidents[x].number > 0, ~incidents[x].open
               PROVE  \E j \in 1..Len(runs'[x]) : incidents[x].start <= j /\ runs'[x][j] = "ok"
    BY DEF EndedBySuccess
  <2>1. PICK j \in 1..Len(runs[x]) : incidents[x].start <= j /\ runs[x][j] = "ok"
    BY DEF EndedBySuccess
  <2>2. CASE x = s
    <3>1. j \in 1..Len(q) /\ q[j] = "ok"
      BY <1>5, <2>1, <2>2
    <3> QED BY <1>4, <2>1, <2>2, <3>1
  <2>3. CASE x # s
    BY <1>4, <2>1, <2>3
  <2> QED BY <2>2, <2>3
<1>7. QED
  BY <1>4, <1>6

LEMMA CollectStep ==
  ASSUME NEW s \in Source, NEW c \in Candidate, NEW score \in 0..MaxScore, NEW g \in 1..MaxWorld,
         AlertsIInv, Collect(s, c, score, g)
  PROVE  AlertsIInv'
<1>1. Shape
  BY DEF AlertsIInv
<1>2. UNCHANGED <<settings, activation, states, incidents, day, evaluated, weighed, made>> /\ Tally
  BY DEF Collect, control, book
<1>3. PICK item \in Item : item = [source |-> s, candidate |-> c] /\ item.source = s
  <2>1. [source |-> s, candidate |-> c] \in Item
    BY DEF Item
  <2>2. [source |-> s, candidate |-> c].source = s
    OBVIOUS
  <2> QED BY <2>1, <2>2
<1>4. items' = Append(items, item)
  BY <1>3 DEF Collect
<1>5. /\ items' \in Seq(Item) /\ Len(items') = Len(items) + 1 /\ Len(items) \in Nat
      /\ \A i \in DOMAIN items : i \in DOMAIN items' /\ items'[i] = items[i]
      /\ Len(items') \in DOMAIN items' /\ items'[Len(items')] = item
  <2>1. items \in Seq(Item) /\ Len(items) \in Nat /\ DOMAIN items = 1..Len(items)
    BY <1>1 DEF Shape
  <2>2. items' \in Seq(Item) /\ Len(items') = Len(items) + 1 /\ DOMAIN items' = 1..Len(items')
    BY <1>4, <2>1
  <2>3. items'[Len(items) + 1] = item
    BY <1>4, <2>1
  <2>4. \A i \in 1..Len(items) : items'[i] = items[i] /\ i \in 1..Len(items')
    BY <1>4, <2>1, <2>2
  <2> QED BY <2>1, <2>2, <2>3, <2>4
<1>6. PICK n \in Nat : n = Len(items')
  BY <1>5
<1>7. source' = Succeeded(s, n)
  BY <1>6 DEF Collect
<1>8. source' \in [Source -> Admission] /\ \A x \in Source :
        source'[x].muted = source[x].muted /\ source'[x].contract = source[x].contract /\ source'[x].admitted = source[x].admitted
  BY <1>1, <1>7, SucceededFields
<1>9. runs' \in [Source -> Seq({"ok", "failed"})] /\ EndedBySuccess'
  BY <1>1, <1>2, RunAppended DEF Collect, AlertsIInv
<1>10. candidate' \in [Candidate -> CandidateRow]
  <2>1. PICK r \in CandidateRow : r = candidate[c]
    BY <1>1 DEF Shape
  <2>2. day \in Nat /\ g \in Nat
    BY <1>1, ScaleAssumption DEF Shape
  <2>3. PICK b \in Nat : b = IF r.state = "none" THEN day ELSE r.born
    BY <2>2 DEF CandidateRow
  <2>4. PICK q \in CandidateRow : q = [state |-> "active", score |-> score, groups |-> g, recent |-> TRUE, born |-> b, day |-> day]
    BY <2>2 DEF CandidateRow
  <2>5. candidate' = [candidate EXCEPT ![c] = q]
    BY <2>1, <2>3, <2>4 DEF Collect
  <2> QED BY <1>1, <2>5 DEF Shape
<1>11. rises' \in [Candidate -> Nat] /\ \A x \in Candidate : rises[x] <= rises'[x] /\ (~High(x) /\ High(x)' => rises'[x] = rises[x] + 1)
  BY <1>1, <1>2, TallyCounts
<1>12. soak' \subseteq soak \cup {Len(items')}
  BY DEF Collect
<1>13. Shape'
  <2>1. soak' \subseteq DOMAIN items'
    BY <1>1, <1>5, <1>12 DEF Shape
  <2> QED BY <1>1, <1>2, <1>5, <1>8, <1>9, <1>10, <1>11, <2>1 DEF Shape
<1>14. RoomToAnnounce'
  <2>1. activation.times \in Nat /\ activation.times <= activation.times
    BY <1>1 DEF Shape, Activation
  <2>2. \A x \in Candidate : made'[x] + ToAnnounce(x)' <= rises'[x] + activation'.times
    BY <1>2, <1>11, <2>1, RoomStays
  <2> QED BY <2>2 DEF RoomToAnnounce
<1>15. WatermarksAreSeparate' /\ MutedIsOut'
  BY <1>2, <1>8 DEF AlertsIInv, WatermarksAreSeparate, MutedIsOut
<1>16. SoakIsRefused'
  <2> SUFFICES ASSUME NEW i \in soak'
               PROVE  /\ source'[items'[i].source].contract
                      /\ source'[items'[i].source].admitted = None \/ i <= source'[items'[i].source].admitted
    BY DEF SoakIsRefused
  <2>1. CASE i \in soak
    <3>1. items'[i] = items[i] /\ items[i].source \in Source
      <4>1. i \in DOMAIN items /\ items \in Seq(Item)
        BY <1>1, <2>1 DEF Shape
      <4>2. items[i] \in Item
        BY <4>1, ElementOfSeq
      <4> QED BY <1>5, <4>1, <4>2 DEF Item
    <3> QED BY <1>8, <2>1, <3>1 DEF AlertsIInv, SoakIsRefused
  <2>2. CASE i \notin soak
    <3>1. i = Len(items') /\ source[s].contract /\ DeliveryBlocked(s)
      BY <1>12, <2>2 DEF Collect
    <3>2. items'[i].source = s
      BY <1>3, <1>5, <3>1
    <3>3. source[s].admitted = None
      BY <3>1 DEF DeliveryBlocked, AlertsIInv, MutedIsOut
    <3> QED BY <1>8, <3>1, <3>2, <3>3
  <2> QED BY <2>1, <2>2
<1>17. QED
  BY <1>9, <1>13, <1>14, <1>15, <1>16 DEF AlertsIInv

LEMMA CollectNothingStep ==
  ASSUME NEW s \in Source, NEW o \in {"ok", "failed"}, AlertsIInv, CollectNothing(s, o)
  PROVE  AlertsIInv'
<1>1. Shape
  BY DEF AlertsIInv
<1>2. UNCHANGED <<items, candidate, settings, activation, states, incidents, day, evaluated, weighed, soak, rises, made>>
  BY DEF CollectNothing, control, book, history
<1>3. runs' \in [Source -> Seq({"ok", "failed"})] /\ EndedBySuccess'
  BY <1>1, <1>2, RunAppended DEF CollectNothing, AlertsIInv
<1>4. source' \in [Source -> Admission] /\ \A x \in Source :
        source'[x].muted = source[x].muted /\ source'[x].contract = source[x].contract /\ source'[x].admitted = source[x].admitted
  <2>1. Len(items) \in Nat
    BY <1>1 DEF Shape
  <2>2. CASE o = "ok"
    <3>1. source' = Succeeded(s, Len(items))
      BY <2>2 DEF CollectNothing
    <3> QED BY <1>1, <2>1, <3>1, SucceededFields
  <2>3. CASE o # "ok"
    BY <1>1, <2>3 DEF CollectNothing, Shape
  <2> QED BY <2>2, <2>3
<1>5. Shape'
  BY <1>1, <1>2, <1>3, <1>4 DEF Shape
<1>6. WatermarksAreSeparate' /\ MutedIsOut'
  BY <1>2, <1>4 DEF AlertsIInv, WatermarksAreSeparate, MutedIsOut
<1>7. SoakIsRefused'
  <2>1. \A i \in soak : items[i].source \in Source
    <3>1. \A i \in DOMAIN items : items[i] \in Item
      BY <1>1, ElementOfSeq DEF Shape
    <3> QED BY <1>1, <3>1 DEF Shape, Item
  <2> QED BY <1>2, <1>4, <2>1 DEF AlertsIInv, SoakIsRefused
<1>8. RoomToAnnounce'
  BY <1>2 DEF AlertsIInv, RoomToAnnounce, ToAnnounce, High
<1>9. QED
  BY <1>3, <1>5, <1>6, <1>7, <1>8 DEF AlertsIInv

\* The radar moves or rescores candidates, and the settings change: what comes
\* to deserve attention is counted.
LEMMA TalliedStep ==
  ASSUME AlertsIInv, candidate' \in [Candidate -> CandidateRow],
         UNCHANGED <<source, items, runs, activation, states, incidents, day, evaluated, weighed, soak, made>>,
         Tally \/ (UNCHANGED rises /\ \A c \in Candidate : High(c)' => High(c))
  PROVE  AlertsIInv'
<1>1. Shape
  BY DEF AlertsIInv
<1>2. rises' \in [Candidate -> Nat] /\ \A c \in Candidate : rises[c] <= rises'[c] /\ (~High(c) /\ High(c)' => rises'[c] = rises[c] + 1)
  <2>1. CASE Tally
    BY <1>1, <2>1, TallyCounts
  <2>2. CASE UNCHANGED rises /\ \A c \in Candidate : High(c)' => High(c)
    <3>1. rises \in [Candidate -> Nat] /\ \A c \in Candidate : rises[c] <= rises[c]
      BY <1>1 DEF Shape
    <3> QED BY <2>2, <3>1
  <2> QED BY <2>1, <2>2
<1>3. Shape'
  BY <1>1, <1>2 DEF Shape
<1>4. WatermarksAreSeparate' /\ EndedBySuccess' /\ MutedIsOut' /\ SoakIsRefused'
  BY DEF AlertsIInv, WatermarksAreSeparate, EndedBySuccess, MutedIsOut, SoakIsRefused
<1>5. RoomToAnnounce'
  <2>1. activation.times \in Nat /\ activation.times <= activation.times
    BY <1>1 DEF Shape, Activation
  <2>2. \A c \in Candidate : made'[c] + ToAnnounce(c)' <= rises'[c] + activation'.times
    BY <1>2, <2>1, RoomStays
  <2> QED BY <2>2 DEF RoomToAnnounce
<1>6. QED
  BY <1>3, <1>4, <1>5 DEF AlertsIInv

LEMMA RadarStep ==
  ASSUME NEW c \in Candidate, NEW score \in 0..MaxScore, NEW state \in {"active", "stale", "away"},
         AlertsIInv, Radar(c, score, state)
  PROVE  AlertsIInv'
<1>1. PICK r \in CandidateRow : r = candidate[c]
  BY DEF AlertsIInv, Shape
<1>2. [r EXCEPT !.score = score, !.state = state] \in CandidateRow
  BY DEF CandidateRow
<1>3. PICK q \in CandidateRow : q = [r EXCEPT !.score = score, !.state = state]
  BY <1>2
<1>4. candidate' = [candidate EXCEPT ![c] = q]
  BY <1>1, <1>3 DEF Radar
<1>5. candidate' \in [Candidate -> CandidateRow]
  BY <1>4 DEF AlertsIInv, Shape
<1>6. UNCHANGED <<source, items, runs, activation, states, incidents, day, evaluated, weighed, soak, made>> /\ Tally
  BY DEF Radar, control, book
<1>7. QED
  BY <1>5, <1>6, TalliedStep

\* A promotion takes a candidate out of attention.
LEMMA PromotedFields ==
  ASSUME NEW set, NEW by, Promoted(set, by), Shape, UNCHANGED settings
  PROVE  candidate' \in [Candidate -> CandidateRow] /\ \A c \in Candidate : High(c)' => High(c)
<1>1. ASSUME NEW c \in Candidate
      PROVE  candidate'[c] \in CandidateRow /\ (candidate'[c] = candidate[c] \/ candidate'[c].state = "promoted")
  <2>1. PICK r \in CandidateRow : r = candidate[c]
    BY DEF Shape
  <2>2. [r EXCEPT !.state = "promoted"] \in CandidateRow
    BY DEF CandidateRow
  <2>3. PICK q \in CandidateRow : q = [r EXCEPT !.state = "promoted"]
    BY <2>2
  <2>4. q.state = "promoted"
    BY <2>3 DEF CandidateRow
  <2>5. candidate'[c] = r \/ candidate'[c] = q
    BY <2>1, <2>3 DEF Promoted
  <2> QED BY <2>1, <2>4, <2>5
<1>2. candidate' = [c \in Candidate |-> candidate'[c]]
  BY DEF Promoted
<1>3. candidate' \in [Candidate -> CandidateRow]
  BY <1>1, <1>2
<1>4. \A c \in Candidate : High(c)' => High(c)
  BY <1>1 DEF High
<1>5. QED
  BY <1>3, <1>4

LEMMA PromoteByHandStep == ASSUME NEW c \in Candidate, AlertsIInv, PromoteByHand(c) PROVE AlertsIInv'
<1>1. UNCHANGED <<source, items, runs, activation, settings, states, incidents, day, evaluated, weighed, soak, rises, made>>
  BY DEF PromoteByHand, control, book, history
<1>2. candidate' \in [Candidate -> CandidateRow] /\ \A x \in Candidate : High(x)' => High(x)
  BY <1>1, PromotedFields DEF PromoteByHand, AlertsIInv
<1>3. QED
  BY <1>1, <1>2, TalliedStep

\* The automatic promotion marks what it passes over, under its own key.
LEMMA RunAutomaticPromotionStep ==
  ASSUME NEW considered \in SUBSET Candidate, AlertsIInv, RunAutomaticPromotion(considered)
  PROVE  AlertsIInv'
<1>1. Shape
  BY DEF AlertsIInv
<1>2. UNCHANGED <<source, items, runs, activation, settings, incidents, day, evaluated, soak, rises, made>>
  BY DEF RunAutomaticPromotion, control
<1>3. candidate' \in [Candidate -> CandidateRow] /\ \A x \in Candidate : High(x)' => High(x)
  BY <1>1, <1>2, PromotedFields DEF RunAutomaticPromotion
<1>4. ASSUME NEW c \in Candidate
      PROVE  /\ states'[c] \in EventState /\ weighed'[c] \in Optional(SUBSET Nat)
             /\ states'[c].high = states[c].high
             /\ states'[c].heard = evaluated[c] /\ states'[c].promo = weighed'[c]
  <2>1. states[c].heard = evaluated[c] /\ states[c].promo = weighed[c]
    BY DEF AlertsIInv, WatermarksAreSeparate
  <2>2. PICK st \in EventState : st = states[c]
    BY <1>1 DEF Shape
  <2>3. CASE c \in considered /\ ~Eligible(c)
    <3>1. PICK x \in {"none", "ready", "all"} : x = IF st.rows = "none" THEN "ready" ELSE st.rows
      BY DEF EventState
    <3>2. [st EXCEPT !.rows = x] \in EventState
      BY DEF EventState
    <3>3. PICK s1 \in EventState : s1 = [st EXCEPT !.rows = x]
      BY <3>2
    <3>4. PICK m \in Optional(SUBSET Nat) : m = Members(c)
      BY <1>1, MembersAreItems DEF Optional
    <3>5. [s1 EXCEPT !.promo = m] \in EventState
      BY DEF EventState
    <3>6. PICK s2 \in EventState : s2 = [s1 EXCEPT !.promo = m]
      BY <3>5
    <3>7. s2.high = st.high /\ s2.heard = st.heard /\ s2.promo = m
      BY <3>3, <3>6 DEF EventState
    <3>8. s1 = [st EXCEPT !.rows = IF @ = "none" THEN "ready" ELSE @]
      BY <3>1, <3>3
    <3>9. s2 = WriteSeen(s1, "promo", Members(c))
      BY <3>4, <3>6 DEF WriteSeen
    <3>10. states'[c] = WriteSeen([states[c] EXCEPT !.rows = IF @ = "none" THEN "ready" ELSE @], "promo", Members(c))
      BY <2>3 DEF RunAutomaticPromotion
    <3>11. states'[c] = s2 /\ weighed'[c] = m
      BY <2>2, <2>3, <3>4, <3>8, <3>9, <3>10 DEF RunAutomaticPromotion
    <3> QED BY <2>1, <2>2, <3>7, <3>11
  <2>4. CASE ~(c \in considered /\ ~Eligible(c))
    <3>1. states'[c] = states[c] /\ weighed'[c] = weighed[c]
      BY <2>4 DEF RunAutomaticPromotion
    <3> QED BY <1>1, <2>1, <3>1 DEF Shape
  <2> QED BY <2>3, <2>4
<1>5. states' \in [Candidate -> EventState] /\ weighed' \in [Candidate -> Optional(SUBSET Nat)]
  <2>1. states' = [c \in Candidate |-> states'[c]] /\ weighed' = [c \in Candidate |-> weighed'[c]]
    BY DEF RunAutomaticPromotion
  <2> QED BY <1>4, <2>1
<1>6. Shape'
  BY <1>1, <1>2, <1>3, <1>5 DEF Shape
<1>7. WatermarksAreSeparate'
  BY <1>2, <1>4 DEF WatermarksAreSeparate
<1>8. EndedBySuccess' /\ MutedIsOut' /\ SoakIsRefused'
  BY <1>2 DEF AlertsIInv, EndedBySuccess, MutedIsOut, SoakIsRefused
<1>9. RoomToAnnounce'
  <2>1. activation.times \in Nat /\ activation.times <= activation.times /\ \A c \in Candidate : rises[c] <= rises[c]
    BY <1>1 DEF Shape, Activation
  <2>2. \A c \in Candidate : made'[c] + ToAnnounce(c)' <= rises'[c] + activation'.times
    BY <1>1, <1>2, <1>3, <1>4, <2>1, RoomStays DEF Shape
  <2> QED BY <2>2 DEF RoomToAnnounce
<1>10. QED
  BY <1>6, <1>7, <1>8, <1>9 DEF AlertsIInv

\* A source is admitted, with what was collected before left out, or becomes
\* another and waits for its admission again.
LEMMA AdmissionStep ==
  ASSUME NEW s \in Source, NEW a \in Admission, AlertsIInv, source' = [source EXCEPT ![s] = a],
         UNCHANGED <<items, candidate, runs, activation, settings, states, incidents, day,
                     evaluated, weighed, soak, rises, made>>,
         source[s].contract => a.contract,
         a.admitted = None \/ (source[s].admitted # None /\ a.admitted = source[s].admitted) \/ a.admitted = Len(items),
         a.muted => a.admitted = None
  PROVE  AlertsIInv'
<1>1. Shape
  BY DEF AlertsIInv
<1>2. source' \in [Source -> Admission] /\ source'[s] = a /\ \A x \in Source \ {s} : source'[x] = source[x]
  BY <1>1 DEF Shape
<1>3. Shape'
  BY <1>1, <1>2 DEF Shape
<1>4. MutedIsOut'
  BY <1>2 DEF AlertsIInv, MutedIsOut
<1>5. SoakIsRefused'
  <2> SUFFICES ASSUME NEW i \in soak
               PROVE  /\ source'[items[i].source].contract
                      /\ source'[items[i].source].admitted = None \/ i <= source'[items[i].source].admitted
    BY DEF SoakIsRefused
  <2>1. i \in DOMAIN items /\ i <= Len(items) /\ items[i].source \in Source
    <3>1. items \in Seq(Item) /\ i \in 1..Len(items)
      BY <1>1 DEF Shape
    <3>2. items[i] \in Item
      BY <3>1, ElementOfSeq
    <3> QED BY <3>1, <3>2 DEF Item
  <2>2. source[items[i].source].contract /\ (source[items[i].source].admitted = None \/ i <= source[items[i].source].admitted)
    BY DEF AlertsIInv, SoakIsRefused
  <2>3. CASE items[i].source = s
    BY <1>2, <2>1, <2>2, <2>3
  <2>4. CASE items[i].source # s
    BY <1>2, <2>1, <2>2, <2>4
  <2> QED BY <2>3, <2>4
<1>6. WatermarksAreSeparate' /\ EndedBySuccess'
  BY DEF AlertsIInv, WatermarksAreSeparate, EndedBySuccess
<1>7. RoomToAnnounce'
  BY DEF AlertsIInv, RoomToAnnounce, ToAnnounce, High
<1>8. QED
  BY <1>3, <1>4, <1>5, <1>6, <1>7 DEF AlertsIInv

LEMMA AdmitStep == ASSUME NEW s \in Source, AlertsIInv, Admit(s) PROVE AlertsIInv'
<1>1. PICK a \in Admission : a = source[s]
  BY DEF AlertsIInv, Shape
<1>2. PICK n \in Int : n = IF a.admitted = None THEN Len(items) ELSE a.admitted
  BY DEF AlertsIInv, Shape, Admission
<1>3. [a EXCEPT !.muted = FALSE, !.contract = TRUE, !.admitted = n] \in Admission
  BY DEF Admission
<1>4. PICK b \in Admission : b = [a EXCEPT !.muted = FALSE, !.contract = TRUE, !.admitted = n]
  BY <1>3
<1>5. ~b.muted /\ b.contract /\ b.admitted = n
  BY <1>4 DEF Admission
<1>6. LetThrough(a, Len(items)) = b
  BY <1>2, <1>4 DEF LetThrough, Admission
<1>7. source' = [source EXCEPT ![s] = b]
  BY <1>1, <1>6 DEF Admit
<1>8. UNCHANGED <<items, candidate, runs, activation, settings, states, incidents, day, evaluated, weighed, soak, rises, made>>
  BY DEF Admit, control, book, history
<1>9. QED
  BY <1>1, <1>2, <1>5, <1>7, <1>8, AdmissionStep

LEMMA ChangeIdentityStep == ASSUME NEW s \in Source, AlertsIInv, ChangeIdentity(s) PROVE AlertsIInv'
<1>1. PICK a \in Admission : a = source[s]
  BY DEF AlertsIInv, Shape
<1>2. PICK k \in Int : k = None
  BY ScaleAssumption
<1>3. [a EXCEPT !.baseline = k, !.admitted = k, !.fresh = TRUE] \in Admission
  BY DEF Admission
<1>4. PICK b \in Admission : b = [a EXCEPT !.baseline = k, !.admitted = k, !.fresh = TRUE]
  BY <1>3
<1>5. b.muted = a.muted /\ b.contract = a.contract /\ b.admitted = k
  BY <1>4 DEF Admission
<1>6. source' = [source EXCEPT ![s] = b]
  BY <1>1, <1>2, <1>4 DEF ChangeIdentity
<1>7. UNCHANGED <<items, candidate, runs, activation, settings, states, incidents, day, evaluated, weighed, soak, rises, made>>
  BY DEF ChangeIdentity, control, book, history
<1>8. QED
  BY <1>1, <1>2, <1>5, <1>6, <1>7, AdmissionStep

\* An activation forgets the event states, and with them what may have been
\* announced: that is the one more it accounts for.
LEMMA ActivatedStep ==
  ASSUME AlertsIInv, Activated,
         UNCHANGED <<source, items, runs, incidents, day, soak, made>>,
         Tally \/ UNCHANGED <<rises, settings>>
  PROVE  AlertsIInv'
<1>1. Shape
  BY DEF AlertsIInv
<1>2. ASSUME NEW c \in Candidate
      PROVE  /\ candidate'[c] \in CandidateRow
             /\ candidate'[c].state = candidate[c].state /\ candidate'[c].score = candidate[c].score
             /\ candidate'[c].groups = candidate[c].groups
  <2>1. PICK r \in CandidateRow : r = candidate[c]
    BY <1>1 DEF Shape
  <2>2. [r EXCEPT !.recent = FALSE] \in CandidateRow
    BY DEF CandidateRow
  <2>3. PICK q \in CandidateRow : q = [r EXCEPT !.recent = FALSE]
    BY <2>2
  <2>4. q.state = r.state /\ q.score = r.score /\ q.groups = r.groups
    BY <2>3 DEF CandidateRow
  <2>5. candidate'[c] = q
    BY <2>1, <2>3 DEF Activated
  <2> QED BY <2>1, <2>4, <2>5
<1>3. candidate' \in [Candidate -> CandidateRow]
  <2>1. candidate' = [c \in Candidate |-> candidate'[c]]
    BY DEF Activated
  <2> QED BY <1>2, <2>1
<1>4. /\ Unknown \in EventState /\ Unknown.heard = Nil /\ Unknown.promo = Nil
  BY DEF Unknown, EventState, Optional
<1>5. /\ states' = [c \in Candidate |-> Unknown] /\ evaluated' = [c \in Candidate |-> Nil]
      /\ weighed' = [c \in Candidate |-> Nil]
  BY DEF Activated
<1>6. activation' \in Activation /\ activation'.times = activation.times + 1 /\ activation.times \in Nat
  <2>1. activation.times \in Nat /\ day \in Nat
    BY <1>1 DEF Shape, Activation
  <2>2. PICK f \in [Source -> Nat] : f = [s \in Source |-> Latest(s)]
    BY <1>1, StreakIsBounded
  <2>3. PICK m \in Nat : m = activation.times + 1
    BY <2>1
  <2>4. activation' = [day |-> day, runs |-> f, times |-> m]
    BY <2>2, <2>3 DEF Activated
  <2> QED BY <2>1, <2>3, <2>4 DEF Activation
<1>7. rises' \in [Candidate -> Nat] /\ \A c \in Candidate : rises[c] <= rises'[c] /\ (~High(c) /\ High(c)' => rises'[c] = rises[c] + 1)
  <2>1. CASE Tally
    BY <1>1, <2>1, TallyCounts
  <2>2. CASE UNCHANGED <<rises, settings>>
    <3>1. \A c \in Candidate : High(c)' => High(c)
      BY <1>2, <2>2 DEF High
    <3>2. rises \in [Candidate -> Nat] /\ \A c \in Candidate : rises[c] <= rises[c]
      BY <1>1 DEF Shape
    <3> QED BY <2>2, <3>1, <3>2
  <2> QED BY <2>1, <2>2
<1>8. Shape'
  <2>1. states' \in [Candidate -> EventState] /\ evaluated' \in [Candidate -> Optional(SUBSET Nat)] /\ weighed' \in [Candidate -> Optional(SUBSET Nat)]
    BY <1>4, <1>5 DEF Optional
  <2> QED BY <1>1, <1>3, <1>6, <1>7, <2>1 DEF Shape
<1>9. WatermarksAreSeparate'
  BY <1>4, <1>5 DEF WatermarksAreSeparate
<1>10. EndedBySuccess' /\ MutedIsOut' /\ SoakIsRefused'
  BY DEF AlertsIInv, EndedBySuccess, MutedIsOut, SoakIsRefused
<1>11. RoomToAnnounce'
  <2>1. activation'.times \in Nat /\ activation.times <= activation'.times
    BY <1>6
  <2>2. \A c \in Candidate : made'[c] + ToAnnounce(c)' <= rises'[c] + activation'.times
    BY <1>6, <1>7, <2>1, RoomStays
  <2> QED BY <2>2 DEF RoomToAnnounce
<1>12. QED
  BY <1>8, <1>9, <1>10, <1>11 DEF AlertsIInv

\* The new settings leave everything else alone.
LEMMA SetStep == ASSUME NEW new, AlertsIInv, Set(new) PROVE AlertsIInv'
<1>1. UNCHANGED <<source, items, candidate, runs, activation, states, incidents, day, evaluated, weighed, soak, made>> /\ Tally
  BY DEF Set, world, book
<1>2. candidate' \in [Candidate -> CandidateRow]
  BY <1>1 DEF AlertsIInv, Shape
<1>3. QED
  BY <1>1, <1>2, TalliedStep

LEMMA CommandSettingsStep ==
  ASSUME NEW body, NEW reactivate \in BOOLEAN, AlertsIInv, CommandSettings(body, reactivate)
  PROVE  AlertsIInv'
<1>1. UNCHANGED <<source, items, runs, incidents, day, soak, made>> /\ Tally
  BY DEF CommandSettings
<1>2. CASE reactivate
  BY <1>1, <1>2, ActivatedStep DEF CommandSettings
<1>3. CASE ~reactivate
  <2>1. UNCHANGED <<candidate, activation, states, evaluated, weighed>>
    BY <1>3 DEF CommandSettings
  <2>2. candidate' \in [Candidate -> CandidateRow]
    BY <2>1 DEF AlertsIInv, Shape
  <2> QED BY <1>1, <2>1, <2>2, TalliedStep
<1>4. QED
  BY <1>2, <1>3

\* A digest, with the alerts generated before it or not.
LEMMA DigestStep == ASSUME NEW mode, AlertsIInv, Digest(mode) PROVE AlertsIInv'
<1>1. UNCHANGED <<source, items, candidate, runs, activation, settings, weighed, soak, rises, day>>
  BY DEF Digest, world, control
<1>2. CASE mode = "generate"
  BY <1>1, <1>2, GeneratedStep DEF Digest
<1>3. CASE mode # "generate"
  <2>1. UNCHANGED <<states, incidents, evaluated, made>>
    BY <1>3 DEF Digest, book
  <2>2. day' \in Nat
    BY <1>1 DEF AlertsIInv, Shape
  <2> QED BY <1>1, <2>1, <2>2, BystanderStep
<1>4. QED
  BY <1>2, <1>3

LEMMA GenerateStep == ASSUME AlertsIInv, Generate PROVE AlertsIInv'
<1>1. UNCHANGED <<source, items, candidate, runs, activation, settings, weighed, soak, rises, day>>
  BY DEF Generate, world, control
<1>2. QED
  BY <1>1, GeneratedStep DEF Generate

LEMMA PipelineAlertsStep == ASSUME AlertsIInv, PipelineAlerts PROVE AlertsIInv'
<1>1. UNCHANGED <<source, items, candidate, runs, activation, settings, weighed, soak, rises, day>>
  BY DEF PipelineAlerts, world, control
<1>2. CASE settings.on
  BY <1>1, <1>2, EvaluationStep DEF PipelineAlerts
<1>3. CASE ~settings.on
  <2>1. UNCHANGED <<states, incidents, evaluated, made>>
    BY <1>3 DEF PipelineAlerts
  <2>2. day' \in Nat
    BY <1>1 DEF AlertsIInv, Shape
  <2> QED BY <1>1, <2>1, <2>2, BystanderStep
<1>4. QED
  BY <1>2, <1>3

\* What nothing is compared with: suggestions, days, retention, marks, tests.
LEMMA AsideStep ==
  ASSUME AlertsIInv,
         \/ \E to \in {"none", "recent"} : Suggest(to)
         \/ NextDay \/ Cleanup \/ Test
         \/ \E n \in notes, read, dismissed \in BOOLEAN : Mark(n, read, dismissed)
  PROVE  AlertsIInv'
<1>1. UNCHANGED <<source, items, candidate, runs, activation, settings, states, incidents, evaluated, weighed, soak, rises, made>>
  BY DEF Suggest, NextDay, Cleanup, Test, Mark, world, control, book, history
<1>2. day' = day \/ day' = day + 1
  BY DEF Suggest, NextDay, Cleanup, Test, Mark
<1>3. day' \in Nat
  BY <1>2 DEF AlertsIInv, Shape
<1>4. QED
  BY <1>1, <1>3, BystanderStep

LEMMA ActivateStep == ASSUME AlertsIInv, Activate PROVE AlertsIInv'
  BY ActivatedStep DEF Activate

LEMMA AlertsInitIInv == Init => AlertsIInv
<1> SUFFICES ASSUME Init PROVE AlertsIInv
  OBVIOUS
<1>1. source \in [Source -> Admission] /\ \A s \in Source : source[s].admitted = None
  <2>1. PICK k \in Int : k = None
    BY ScaleAssumption
  <2>2. \A s \in Source : [muted |-> s \in Pilot, contract |-> s \in Pilot, baseline |-> k, admitted |-> k,
                           fresh |-> TRUE] \in Admission
    BY DEF Admission
  <2>3. source = [s \in Source |-> [muted |-> s \in Pilot, contract |-> s \in Pilot, baseline |-> k,
                                    admitted |-> k, fresh |-> TRUE]]
    BY <2>1 DEF Init
  <2> QED BY <2>1, <2>2, <2>3
<1>2. items \in Seq(Item) /\ soak = {}
  BY DEF Init
<1>3. candidate \in [Candidate -> CandidateRow] /\ \A c \in Candidate : ~High(c)
  <2>1. 0 \in 0..MaxScore
    BY ScaleAssumption
  <2>2. [state |-> "none", score |-> 0, groups |-> 0, recent |-> FALSE, born |-> 0, day |-> 0] \in CandidateRow
    BY <2>1 DEF CandidateRow
  <2>3. PICK r \in CandidateRow : r = [state |-> "none", score |-> 0, groups |-> 0, recent |-> FALSE, born |-> 0, day |-> 0]
    BY <2>2
  <2>4. candidate = [c \in Candidate |-> r] /\ r.state = "none"
    BY <2>3 DEF Init
  <2> QED BY <2>4 DEF High
<1>4. runs \in [Source -> Seq({"ok", "failed"})]
  BY DEF Init
<1>5. activation \in Activation /\ activation.times = 0
  <2>1. PICK f \in [Source -> Nat] : f = [s \in Source |-> 0]
    OBVIOUS
  <2>2. activation = [day |-> 0, runs |-> f, times |-> 0]
    BY <2>1 DEF Init
  <2> QED BY <2>2 DEF Activation
<1>6. states \in [Candidate -> EventState] /\ \A c \in Candidate : states[c].heard = Nil /\ states[c].promo = Nil
  <2>1. Unknown \in EventState /\ Unknown.heard = Nil /\ Unknown.promo = Nil
    BY DEF Unknown, EventState, Optional
  <2>2. states = [c \in Candidate |-> Unknown]
    BY DEF Init
  <2> QED BY <2>1, <2>2
<1>7. incidents \in [Source -> Incident] /\ \A s \in Source : incidents[s].number = 0
  <2>1. NoIncident \in Incident /\ NoIncident.number = 0
    BY DEF NoIncident, Incident
  <2>2. incidents = [s \in Source |-> NoIncident]
    BY DEF Init
  <2> QED BY <2>1, <2>2
<1>8. evaluated = [c \in Candidate |-> Nil] /\ weighed = [c \in Candidate |-> Nil]
  BY DEF Init
<1>9. rises = [c \in Candidate |-> 0] /\ made = [c \in Candidate |-> 0] /\ day = 0
  BY DEF Init
<1>10. Shape
  BY <1>1, <1>2, <1>3, <1>4, <1>5, <1>6, <1>7, <1>8, <1>9 DEF Shape, Optional
<1>11. WatermarksAreSeparate
  BY <1>6, <1>8 DEF WatermarksAreSeparate
<1>12. RoomToAnnounce
  BY <1>3, <1>5, <1>9 DEF RoomToAnnounce, ToAnnounce
<1>13. EndedBySuccess
  BY <1>7 DEF EndedBySuccess
<1>14. MutedIsOut /\ SoakIsRefused
  BY <1>1, <1>2 DEF MutedIsOut, SoakIsRefused
<1>15. QED
  BY <1>10, <1>11, <1>12, <1>13, <1>14 DEF AlertsIInv

LEMMA AlertsNextIInv == AlertsIInv /\ [Next]_vars => AlertsIInv'
<1> SUFFICES ASSUME AlertsIInv, [Next]_vars PROVE AlertsIInv'
  OBVIOUS
<1>1. CASE \E s \in Source, c \in Candidate, score \in 0..MaxScore, g \in 1..MaxWorld : Collect(s, c, score, g)
  BY <1>1, CollectStep
<1>2. CASE \E s \in Source, outcome \in {"ok", "failed"} : CollectNothing(s, outcome)
  BY <1>2, CollectNothingStep
<1>3. CASE \E c \in Candidate, score \in 0..MaxScore, state \in {"active", "stale", "away"} : Radar(c, score, state)
  BY <1>3, RadarStep
<1>4. CASE \E c \in Candidate : PromoteByHand(c)
  BY <1>4, PromoteByHandStep
<1>5. CASE \E considered \in SUBSET Candidate : RunAutomaticPromotion(considered)
  BY <1>5, RunAutomaticPromotionStep
<1>6. CASE \E s \in Source : Admit(s) \/ ChangeIdentity(s)
  BY <1>6, AdmitStep, ChangeIdentityStep
<1>7. CASE \/ \E to \in {"none", "recent"} : Suggest(to)
           \/ NextDay \/ Cleanup \/ Test \/ TestCommand
           \/ \E n \in notes, read, dismissed \in BOOLEAN : Mark(n, read, dismissed) \/ MarkCommand(n, read, dismissed)
  BY <1>7, AsideStep DEF TestCommand, MarkCommand
<1>8. CASE Generate \/ GenerateCommand
  BY <1>8, GenerateStep DEF GenerateCommand
<1>9. CASE PipelineAlerts
  BY <1>9, PipelineAlertsStep
<1>10. CASE DigestCommand \/ \E mode \in {"refresh", "generate"} : Digest(mode)
  BY <1>10, DigestStep DEF DigestCommand
<1>11. CASE Activate
  BY <1>11, ActivateStep
<1>12. CASE \E body \in Bodies, reactivate \in BOOLEAN : CommandSettings(body, reactivate)
  BY <1>12, CommandSettingsStep
<1>13. CASE \/ \E body \in Bodies : PutSettings(body)
            \/ \E p \in DOMAIN Preset : ApplyPreset(p) \/ PresetCommand(p)
            \/ \E type \in Muting : MuteEvent(type)
            \/ MuteTopic
  BY <1>13, SetStep DEF PutSettings, ApplyPreset, PresetCommand, MuteEvent, MuteTopic
<1>14. CASE UNCHANGED vars
  <2>1. UNCHANGED <<source, items, candidate, runs, activation, settings, states, incidents, day, evaluated, weighed, soak, rises, made>>
    BY <1>14 DEF vars, world, control, book, history
  <2>2. day' \in Nat
    BY <2>1 DEF AlertsIInv, Shape
  <2> QED BY <2>1, <2>2, BystanderStep
<1>15. QED
  BY <1>1, <1>2, <1>3, <1>4, <1>5, <1>6, <1>7, <1>8, <1>9, <1>10, <1>11, <1>12, <1>13, <1>14 DEF Next

LEMMA AlertsSpecIInv == Spec => []AlertsIInv
  BY AlertsInitIInv, AlertsNextIInv, PTL DEF Spec

-----------------------------------------------------------------------------
(* The theorems *)

\* The desk never confuses what the alerts and the automatic promotion have
\* each evaluated of a candidate.
THEOREM WatermarksStaySeparate == Spec => []WatermarksAreSeparate
<1>1. AlertsIInv => WatermarksAreSeparate
  BY DEF AlertsIInv
<1>2. QED
  BY <1>1, AlertsSpecIInv, PTL

\* High attention is announced no more often than it arose, activations apart.
THEOREM CrossingsAreCounted == Spec => []CrossingsCounted
<1>1. AlertsIInv => CrossingsCounted
  <2> SUFFICES ASSUME AlertsIInv, NEW c \in Candidate PROVE made[c] <= rises[c] + activation.times
    BY DEF CrossingsCounted
  <2>1. made[c] + ToAnnounce(c) <= rises[c] + activation.times
    BY DEF AlertsIInv, RoomToAnnounce
  <2>2. made[c] \in Nat /\ rises[c] \in Nat /\ activation.times \in Nat
    BY DEF AlertsIInv, Shape, Activation
  <2>3. ToAnnounce(c) \in {0, 1}
    BY DEF ToAnnounce
  <2> QED BY <2>1, <2>2, <2>3
<1>2. QED
  BY <1>1, AlertsSpecIInv, PTL

\* Only an evaluation touches the incidents.
LEMMA IncidentsChange == [Next]_vars => UNCHANGED incidents \/ Baselined
  BY DEF Next, vars, world, book, control, history, Collect, CollectNothing, Radar, PromoteByHand,
         RunAutomaticPromotion, Admit, ChangeIdentity, Suggest, NextDay, Generate, GenerateCommand,
         Generated, Digest, DigestCommand, Cleanup, PipelineAlerts, Activate, PutSettings, CommandSettings,
         ApplyPreset, PresetCommand, MuteEvent, MuteTopic, Set, Mark, MarkCommand, Test, TestCommand

\* A second incident of a source follows a success after the first began.
THEOREM OneIncidentPerOutage == Spec => OutageIsOneIncident
<1>1. ASSUME AlertsIInv, [Next]_vars, NEW s \in Source, incidents[s].number > 0, incidents'[s].number > incidents[s].number
      PROVE  \E k \in incidents[s].start .. incidents'[s].start : runs[s][k] = "ok"
  <2>1. PICK i, j \in Incident :
          /\ i = incidents[s] /\ j = ProviderIncidents[s]
          /\ i.number > 0 /\ j.number > i.number => \E k \in i.start .. j.start : runs[s][k] = "ok"
    BY <1>1, IncidentsEvaluated DEF AlertsIInv
  <2>2. i.number \in Nat
    BY DEF Incident
  <2>3. Baselined
    BY <1>1, <2>1, <2>2, IncidentsChange
  <2>4. incidents'[s] = j
    BY <2>1, <2>3 DEF Baselined
  <2> QED BY <1>1, <2>1, <2>4
<1>2. AlertsIInv /\ [Next]_vars =>
        \A s \in Source : incidents[s].number > 0 /\ incidents'[s].number > incidents[s].number =>
          \E j \in incidents[s].start .. incidents'[s].start : runs[s][j] = "ok"
  BY <1>1
<1>3. QED
  BY <1>2, AlertsSpecIInv, PTL DEF Spec, OutageIsOneIncident

\* A notification is a record: marking one keeps its key.
NotesAreRecords ==
  \A n \in notes : n = [key |-> n.key, event |-> n.event, made |-> n.made, muted |-> n.muted,
                        read |-> n.read, dismissed |-> n.dismissed]

\* Where the notifications after a step come from.
LEMMA NotesAfter ==
  ASSUME [Next]_vars
  PROVE  \/ notes' \subseteq notes
         \/ notes' \subseteq notes \cup Emitted(Events)
         \/ notes' = notes \cup Emitted(Event("test", Nil, acts.operator, day, FALSE))
         \/ \E n \in notes, read, dismissed \in BOOLEAN :
              notes' = (notes \ {n}) \cup {[n EXCEPT !.read = read, !.dismissed = dismissed]}
<1>1. CASE Generate \/ GenerateCommand \/ DigestCommand \/ \E mode \in {"refresh", "generate"} : Digest(mode)
  <2>1. Generated \/ UNCHANGED notes
    BY <1>1 DEF Generate, GenerateCommand, DigestCommand, Digest, book
  <2> QED BY <2>1 DEF Generated, book
<1>2. CASE PipelineAlerts
  <2>1. PICK m \in {IF settings.on THEN notes \cup Emitted(Events) ELSE notes} : notes' = Kept(m)
    BY <1>2 DEF PipelineAlerts
  <2> QED BY <2>1 DEF Kept
<1>3. CASE Cleanup
  BY <1>3 DEF Cleanup, Kept
<1>4. CASE Test \/ TestCommand
  BY <1>4 DEF Test, TestCommand
<1>5. CASE \E n \in notes, read, dismissed \in BOOLEAN : Mark(n, read, dismissed) \/ MarkCommand(n, read, dismissed)
  BY <1>5 DEF Mark, MarkCommand
<1>6. CASE \/ \E s \in Source, c \in Candidate, score \in 0..MaxScore, g \in 1..MaxWorld : Collect(s, c, score, g)
           \/ \E s \in Source, outcome \in {"ok", "failed"} : CollectNothing(s, outcome)
           \/ \E c \in Candidate, score \in 0..MaxScore, state \in {"active", "stale", "away"} : Radar(c, score, state)
           \/ \E c \in Candidate : PromoteByHand(c)
           \/ \E considered \in SUBSET Candidate : RunAutomaticPromotion(considered)
           \/ \E s \in Source : Admit(s) \/ ChangeIdentity(s)
           \/ \E to \in {"none", "recent"} : Suggest(to)
           \/ NextDay \/ Activate \/ MuteTopic
           \/ \E body \in Bodies : PutSettings(body)
           \/ \E body \in Bodies, reactivate \in BOOLEAN : CommandSettings(body, reactivate)
           \/ \E p \in DOMAIN Preset : ApplyPreset(p) \/ PresetCommand(p)
           \/ \E type \in Muting : MuteEvent(type)
           \/ UNCHANGED vars
  <2>1. UNCHANGED notes
    BY <1>6 DEF Collect, CollectNothing, Radar, PromoteByHand, RunAutomaticPromotion, Admit, ChangeIdentity,
                Suggest, NextDay, Activate, MuteTopic, PutSettings, CommandSettings, ApplyPreset,
                PresetCommand, MuteEvent, Set, vars, book
  <2> QED BY <2>1
<1>7. QED
  BY <1>1, <1>2, <1>3, <1>4, <1>5, <1>6 DEF Next

\* What is emitted has the key of its event.
LEMMA EmittedNotes ==
  ASSUME NEW events, NEW n \in Emitted(events)
  PROVE  /\ \E e \in events : n.key = e.key
         /\ n = [key |-> n.key, event |-> n.event, made |-> n.made, muted |-> n.muted,
                 read |-> n.read, dismissed |-> n.dismissed]
<1>1. PICK e \in events : n = [key |-> e.key, event |-> e.event, made |-> day, muted |-> e.muted,
                               read |-> FALSE, dismissed |-> FALSE]
  BY DEF Emitted
<1>2. n.key = e.key /\ n.event = e.event /\ n.made = day /\ n.muted = e.muted /\ n.read = FALSE /\ n.dismissed = FALSE
  BY <1>1
<1>3. QED
  BY <1>1, <1>2

LEMMA MarkedNote ==
  ASSUME NEW n, NEW read, NEW dismissed,
         n = [key |-> n.key, event |-> n.event, made |-> n.made, muted |-> n.muted,
              read |-> n.read, dismissed |-> n.dismissed]
  PROVE  LET m == [n EXCEPT !.read = read, !.dismissed = dismissed]
         IN m.key = n.key /\ m = [key |-> m.key, event |-> m.event, made |-> m.made, muted |-> m.muted,
                                  read |-> m.read, dismissed |-> m.dismissed]
<1> DEFINE R == [key : {n.key}, event : {n.event}, made : {n.made}, muted : {n.muted},
                 read : {n.read, read}, dismissed : {n.dismissed, dismissed}]
<1>1. n \in R
  OBVIOUS
<1>2. [n EXCEPT !.read = read, !.dismissed = dismissed] \in R
  BY <1>1
<1>3. PICK m \in R : m = [n EXCEPT !.read = read, !.dismissed = dismissed]
  BY <1>2
<1>4. m.key = n.key
  OBVIOUS
<1>5. m = [key |-> m.key, event |-> m.event, made |-> m.made, muted |-> m.muted,
           read |-> m.read, dismissed |-> m.dismissed]
  OBVIOUS
<1>6. QED
  BY <1>3, <1>4, <1>5

LEMMA NotesStayRecords == Spec => []NotesAreRecords
<1>1. Init => NotesAreRecords
  BY DEF Init, NotesAreRecords
<1>2. NotesAreRecords /\ [Next]_vars => NotesAreRecords'
  <2> SUFFICES ASSUME NotesAreRecords, [Next]_vars, NEW n \in notes'
               PROVE  n = [key |-> n.key, event |-> n.event, made |-> n.made, muted |-> n.muted,
                           read |-> n.read, dismissed |-> n.dismissed]
    BY DEF NotesAreRecords
  <2>1. CASE n \in notes
    BY <2>1 DEF NotesAreRecords
  <2>2. CASE n \in Emitted(Events) \/ n \in Emitted(Event("test", Nil, acts.operator, day, FALSE))
    BY <2>2, EmittedNotes
  <2>3. CASE \E m \in notes, read, dismissed \in BOOLEAN : n = [m EXCEPT !.read = read, !.dismissed = dismissed]
    BY <2>3, MarkedNote DEF NotesAreRecords
  <2> QED BY <2>1, <2>2, <2>3, NotesAfter
<1>3. QED
  BY <1>1, <1>2, PTL DEF Spec

\* Among the events of a generation, only crossings have the types of a candidate.
LEMMA CrossingsOnly ==
  ASSUME NEW e \in Events, e.key[1] \in CandidateTypes
  PROVE  \E c \in Known, type \in CandidateTypes : Crosses(c, type) /\ e.key[2] = c
<1>1. ASSUME NEW type, NEW subject, NEW n, NEW at, NEW muted, NEW x \in Event(type, subject, n, at, muted)
      PROVE  x.key[1] = type
  BY DEF Event
<1>2. e \notin PromotionEvents
  <2> SUFFICES ASSUME e \in PromotionEvents PROVE FALSE
    OBVIOUS
  <2>1. PICK c \in Candidate : e \in Event("promoted", c, 0, promotion[c].day, FALSE)
    BY DEF PromotionEvents
  <2>2. e.key[1] = "promoted"
    BY <1>1, <2>1
  <2> QED BY <2>2 DEF CandidateTypes
<1>3. e \notin SourceSuggestionEvents
  BY <1>1 DEF SourceSuggestionEvents, CandidateTypes
<1>4. e \notin ProviderEvents
  <2> SUFFICES ASSUME e \in ProviderEvents PROVE FALSE
    OBVIOUS
  <2>1. PICK s \in Source : \/ e \in Event("provider", s, 2 * incidents[s].number + 1, day, DeliveryBlocked(s))
                           \/ e \in Event("provider", s, 2 * incidents[s].number, day, DeliveryBlocked(s))
    BY DEF ProviderEvents
  <2>2. e.key[1] = "provider"
    BY <1>1, <2>1
  <2> QED BY <2>2 DEF CandidateTypes
<1>5. e \notin TopicEvents
  BY <1>1 DEF TopicEvents, CandidateTypes
<1>6. e \in CandidateEvents
  BY <1>2, <1>3, <1>4, <1>5 DEF Events
<1>7. PICK c \in Known, type \in CandidateTypes :
        /\ Crosses(c, type)
        /\ e = [key |-> CandidateKey(c, type), event |-> day,
                muted |-> type \in settings.mutedTypes \/ settings.mutedTopic]
  BY <1>6 DEF CandidateEvents
<1>8. CandidateKey(c, type)[2] = c
  BY DEF CandidateKey, CandidateTypes
<1>9. QED
  BY <1>7, <1>8

\* What is admitted was not collected while its source waited for admission.
LEMMA AdmittedIsNotSoak ==
  ASSUME AlertsIInv, NEW i \in DOMAIN items, Admitted(i)
  PROVE  i \notin soak
<1> SUFFICES ASSUME i \in soak PROVE FALSE
  OBVIOUS
<1>1. PICK s \in Admission : s = source[items[i].source]
  <2>1. items[i] \in Item
    BY ElementOfSeq DEF AlertsIInv, Shape
  <2> QED BY <2>1 DEF AlertsIInv, Shape, Item
<1>2. s.contract /\ (s.admitted = None \/ i <= s.admitted)
  BY <1>1 DEF AlertsIInv, SoakIsRefused
<1>3. i > s.admitted /\ s.admitted # None
  BY <1>1, <1>2 DEF Admitted
<1>4. i \in Nat /\ s.admitted \in Int
  BY DEF AlertsIInv, Shape, Admission
<1>5. QED
  BY <1>2, <1>3, <1>4

\* What was collected before the admission causes no alert, ever.
THEOREM SoakStaysSilent == Spec => SoakIsSilent
<1> DEFINE Known0(c) == IF evaluated[c] = Nil THEN {} ELSE evaluated[c]
           Silent == \A n \in notes' :
             n.key[1] \in CandidateTypes /\ (\A m \in notes : m.key # n.key) =>
               LET members == Members(n.key[2])
                   known == IF evaluated[n.key[2]] = Nil THEN {} ELSE evaluated[n.key[2]]
               IN \/ \A i \in members : ~Controlled(items[i].source)
                  \/ members \ (known \cup soak) # {}
<1>1. ASSUME AlertsIInv, NEW c \in Candidate, Heard(c)
      PROVE  (\A i \in Members(c) : ~Controlled(items[i].source)) \/ Members(c) \ (Known0(c) \cup soak) # {}
  <2>1. states[c].heard = evaluated[c]
    BY <1>1 DEF AlertsIInv, WatermarksAreSeparate
  <2>2. CASE {i \in Members(c) : Controlled(items[i].source)} = {}
    BY <2>2
  <2>3. CASE \E i \in Members(c) \ Known0(c) : Admitted(i)
    <3>1. PICK i \in Members(c) \ Known0(c) : Admitted(i)
      BY <2>3
    <3>2. i \in DOMAIN items
      BY DEF Members
    <3> QED BY <1>1, <3>1, <3>2, AdmittedIsNotSoak
  <2>4. \/ {i \in Members(c) : Controlled(items[i].source)} = {}
        \/ \E i \in Members(c) \ Known0(c) : Admitted(i)
    BY <1>1, <2>1 DEF Heard, Authorised
  <2> QED BY <2>2, <2>3, <2>4
<1>2. ASSUME AlertsIInv, NotesAreRecords, [Next]_vars PROVE Silent
  <2> SUFFICES ASSUME NEW n \in notes', n.key[1] \in CandidateTypes, \A m \in notes : m.key # n.key
               PROVE  \/ \A i \in Members(n.key[2]) : ~Controlled(items[i].source)
                      \/ Members(n.key[2]) \ (Known0(n.key[2]) \cup soak) # {}
    OBVIOUS
  <2>1. CASE n \in Emitted(Events)
    <3>1. PICK e \in Events : n.key = e.key
      BY <2>1, EmittedNotes
    <3>2. PICK c \in Known, type \in CandidateTypes : Crosses(c, type) /\ e.key[2] = c
      BY <3>1, CrossingsOnly
    <3>3. Heard(c) /\ c \in Candidate /\ n.key[2] = c
      BY <3>1, <3>2 DEF Crosses, Audible, Known
    <3> QED BY <1>1, <1>2, <3>3
  <2>2. CASE n \in Emitted(Event("test", Nil, acts.operator, day, FALSE))
    <3>1. PICK e \in Event("test", Nil, acts.operator, day, FALSE) : n.key = e.key
      BY <2>2, EmittedNotes
    <3>2. n.key[1] = "test"
      BY <3>1 DEF Event
    <3> QED BY <3>2 DEF CandidateTypes
  <2>3. CASE \E m \in notes, read, dismissed \in BOOLEAN : n = [m EXCEPT !.read = read, !.dismissed = dismissed]
    <3>1. PICK m \in notes, read \in BOOLEAN, dismissed \in BOOLEAN :
            n = [m EXCEPT !.read = read, !.dismissed = dismissed]
      BY <2>3
    <3>2. m = [key |-> m.key, event |-> m.event, made |-> m.made, muted |-> m.muted,
               read |-> m.read, dismissed |-> m.dismissed]
      BY <1>2 DEF NotesAreRecords
    <3>3. n.key = m.key
      BY <3>1, <3>2, MarkedNote
    <3> QED BY <3>1, <3>3
  <2> QED BY <1>2, <2>1, <2>2, <2>3, NotesAfter
<1>3. QED
  BY <1>2, AlertsSpecIInv, NotesStayRecords, PTL DEF Spec, SoakIsSilent

=============================================================================
