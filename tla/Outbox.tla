------------------------------- MODULE Outbox -------------------------------
(***************************************************************************)
(* The Discord outbox of OEM Radar: the notifications table                *)
(* (providers/sqlite), the notifier that fills and drains it               *)
(* (providers/discord), the story step of run_all (core/runner.py) and the *)
(* operator's `outbox --suppress-pending` (cli.py).                        *)
(*                                                                         *)
(* One run at a time works on the table.  It puts alerts, lets a story     *)
(* demote the alerts it explains, and drains: it reads the pending rows    *)
(* once, then posts and marks them one by one, every mark a commit of its  *)
(* own.  A run may stop between any two commits (a kill, a database error  *)
(* that escapes), the operator may suppress rows at any moment, and a post *)
(* may reach the channel although its reply never reached the run.         *)
(*                                                                         *)
(* A row is named by its dedup key.  The order of the rows in a drain is   *)
(* left open; the code goes by row id.                                     *)
(***************************************************************************)
EXTENDS Naturals

CONSTANTS
  Alert,       \* the dedup keys of change events
  Story,       \* the dedup keys of cross-manufacturer stories
  Evidence,    \* the alerts about the products each story correlates
  NoKey,       \* no row in hand
  RetryLimit,  \* the attempts after which an error is final (5 in the code)
  MaxLimited,  \* bound: HTTP 429 replies
  MaxFaults    \* bound: interrupted runs and drains without a webhook

Key == Alert \cup Story

ASSUME KeyAssumption ==
  /\ Alert \cap Story = {}
  /\ NoKey \notin Key
  /\ Evidence \in [Story -> SUBSET Alert]
ASSUME BoundAssumption ==
  /\ RetryLimit \in Nat
  /\ MaxLimited \in Nat
  /\ MaxFaults \in Nat

VARIABLES
  status,    \* notifications.status of each key, "none" without a row
  attempts,  \* notifications.attempts of each key
  saved,     \* the stories with a row in the stories table
  pc,        \* where the run is; "down" between runs
  cur,       \* the row or the story the run has in hand
  reply,     \* what the webhook answered about cur
  batch,     \* the rows the drain read as pending and has not come to yet
  posts,     \* history: how often each key was delivered to the channel
  unacked,   \* history: the deliveries no "sent" mark was recorded for
  rejected,  \* history: the marked replies that were errors other than a 429
  wanted,    \* history: the keys that were put as pending
  limited,   \* number of 429 replies so far
  faults     \* number of faults so far

table == <<status, attempts, saved>>
run == <<pc, cur, reply, batch>>
deliveries == <<posts, unacked, rejected, wanted>>
budget == <<limited, faults>>
outboxVars == <<table, run, deliveries, budget>>

Status == {"none", "pending", "sent", "failed", "suppressed", "demoted"}
Reply == {"none", "ok", "429", "error"}

OutboxTypeOK ==
  /\ status \in [Key -> Status]
  /\ attempts \in [Key -> Nat]
  /\ saved \in SUBSET Story
  /\ pc \in {"down", "crawl", "demote", "announce", "send", "mark"}
  /\ cur \in Key \cup {NoKey}
  /\ reply \in Reply
  /\ batch \in SUBSET Key
  /\ posts \in [Key -> Nat]
  /\ unacked \in [Key -> Nat]
  /\ rejected \in [Key -> Nat]
  /\ wanted \in SUBSET Key
  /\ limited \in Nat
  /\ faults \in Nat

OutboxInit ==
  /\ status = [k \in Key |-> "none"]
  /\ attempts = [k \in Key |-> 0]
  /\ saved = {}
  /\ pc = "down"
  /\ cur = NoKey
  /\ reply = "none"
  /\ batch = {}
  /\ posts = [k \in Key |-> 0]
  /\ unacked = [k \in Key |-> 0]
  /\ rejected = [k \in Key |-> 0]
  /\ wanted = {}
  /\ limited = 0
  /\ faults = 0

Pending == {k \in Key : status[k] = "pending"}

\* The rows an interrupted or a running drain may still write to.
InHand == batch \cup (IF pc = "mark" THEN {cur} ELSE {})

\* The run goes on at label with nothing in hand.
Proceed(label) ==
  /\ pc' = label
  /\ cur' = NoKey
  /\ reply' = "none"
  /\ batch' = {}

Begin ==
  /\ pc = "down"
  /\ Proceed("crawl")
  /\ UNCHANGED <<table, deliveries, budget>>

-----------------------------------------------------------------------------
(* Filling the outbox *)

\* Mutant of OutboxPut: INSERT OR REPLACE.
OutboxReplace(k, s) ==
  /\ status' = [status EXCEPT ![k] = s]
  /\ wanted' = IF s = "pending" THEN wanted \cup {k} ELSE wanted

\* INSERT OR IGNORE: a key that has a row keeps it as it is.
OutboxPut(k, s) ==
  IF status[k] = "none"
  THEN /\ status' = [status EXCEPT ![k] = s]
       /\ wanted' = IF s = "pending" THEN wanted \cup {k} ELSE wanted
  ELSE UNCHANGED <<status, wanted>>

\* An alert is pending, or suppressed from the start: the first crawl of a
\* source, or a severity below the threshold of the notifier.
Enqueue(a, s) ==
  /\ pc = "crawl"
  /\ s \in {"pending", "suppressed"}
  /\ OutboxPut(a, s)
  /\ UNCHANGED <<attempts, saved, run, posts, unacked, rejected, budget>>

\* A story is detected over recorded events; one already saved is skipped.
SaveStory(s) ==
  /\ pc = "crawl"
  /\ s \notin saved
  /\ \E a \in Evidence[s] : status[a] # "none"
  /\ saved' = saved \cup {s}
  /\ pc' = "demote"
  /\ cur' = s
  /\ UNCHANGED <<status, attempts, reply, batch, deliveries, budget>>

\* Mutant of Demotable: whatever the evidence's rows have become.
DemoteAll(s) == Evidence[s]

\* Only what is still pending is demoted.
Demotable(s) == Evidence[s] \cap Pending

DemoteEvents ==
  /\ pc = "demote"
  /\ status' = [k \in Key |-> IF k \in Demotable(cur) THEN "demoted"
                                                      ELSE status[k]]
  /\ pc' = "announce"
  /\ UNCHANGED <<attempts, saved, cur, reply, batch, deliveries, budget>>

EnqueueStory ==
  /\ pc = "announce"
  /\ OutboxPut(cur, "pending")
  /\ Proceed("crawl")
  /\ UNCHANGED <<attempts, saved, posts, unacked, rejected, budget>>

\* `oem-radar outbox --suppress-pending`: takes no lock.
SuppressPending ==
  /\ Pending # {}
  /\ status' = [k \in Key |-> IF k \in Pending THEN "suppressed" ELSE status[k]]
  /\ UNCHANGED <<attempts, saved, run, deliveries, budget>>

-----------------------------------------------------------------------------
(* DiscordNotifier.drain, after each source and at the end of the run *)

\* Mutant of StartDrain: rows that were tried before are not read again.
StartDrainFresh ==
  /\ pc = "crawl"
  /\ batch' = {k \in Pending : attempts[k] = 0}
  /\ pc' = "send"
  /\ UNCHANGED <<table, cur, reply, deliveries, budget>>

StartDrain ==
  /\ pc = "crawl"
  /\ batch' = Pending
  /\ pc' = "send"
  /\ UNCHANGED <<table, cur, reply, deliveries, budget>>

\* The webhook's reply about one row; delivered tells whether the message
\* reached the channel, which a lost reply (a timeout) hides from the run.
Send(k, r, delivered) ==
  /\ pc = "send"
  /\ k \in batch
  /\ r \in Reply \ {"none"}
  /\ r = "ok" => delivered
  /\ r = "429" => ~delivered /\ limited < MaxLimited
  /\ batch' = batch \ {k}
  /\ pc' = "mark"
  /\ cur' = k
  /\ reply' = r
  /\ posts' = IF delivered THEN [posts EXCEPT ![k] = @ + 1] ELSE posts
  /\ unacked' = IF delivered /\ r = "error"
                THEN [unacked EXCEPT ![k] = @ + 1] ELSE unacked
  /\ limited' = IF r = "429" THEN limited + 1 ELSE limited
  /\ UNCHANGED <<table, rejected, wanted, faults>>

\* outbox_mark counts every mark as an attempt and asks nothing of the row.
MarkRow(s) ==
  /\ status' = [status EXCEPT ![cur] = s]
  /\ attempts' = [attempts EXCEPT ![cur] = @ + 1]
  /\ UNCHANGED <<saved, wanted, posts, unacked, budget>>

\* The drain goes on with the next row.
NextRow ==
  /\ pc' = "send"
  /\ cur' = NoKey
  /\ reply' = "none"

\* Mutant of MarkSent: the mark of a delivered row is forgotten.
MarkSentForgotten ==
  /\ pc = "mark" /\ reply = "ok"
  /\ MarkRow("pending")
  /\ NextRow
  /\ UNCHANGED <<batch, rejected>>

MarkSent ==
  /\ pc = "mark" /\ reply = "ok"
  /\ MarkRow("sent")
  /\ NextRow
  /\ UNCHANGED <<batch, rejected>>

\* Rate limited: the rest of the batch waits for a later drain.
MarkLimited ==
  /\ pc = "mark" /\ reply = "429"
  /\ MarkRow("pending")
  /\ NextRow
  /\ batch' = {}
  /\ UNCHANGED rejected

FinalStatus(n) == IF n < RetryLimit THEN "pending" ELSE "failed"

MarkError ==
  /\ pc = "mark" /\ reply = "error"
  /\ MarkRow(FinalStatus(attempts[cur]))
  /\ NextRow
  /\ rejected' = [rejected EXCEPT ![cur] = @ + 1]
  /\ UNCHANGED batch

\* All rows done: a drain between two sources, or the last of the run.
EndDrain ==
  /\ pc = "send"
  /\ batch = {}
  /\ \E label \in {"crawl", "down"} : Proceed(label)
  /\ UNCHANGED <<table, deliveries, budget>>

-----------------------------------------------------------------------------
(* Faults *)

\* The run is killed, or a database error escapes; a delivered message whose
\* mark is not written stays unrecorded.
Interrupted ==
  /\ pc # "down"
  /\ faults < MaxFaults
  /\ faults' = faults + 1
  /\ unacked' = IF pc = "mark" /\ reply = "ok"
                THEN [unacked EXCEPT ![cur] = @ + 1] ELSE unacked
  /\ UNCHANGED <<table, posts, rejected, wanted, limited>>

Crash ==
  /\ Interrupted
  /\ Proceed("down")

\* run_all catches what the drain after a source raises and goes on.
DrainRaises ==
  /\ pc \in {"send", "mark"}
  /\ Interrupted
  /\ Proceed("crawl")

\* No webhook is configured: the rows stay pending and the run ends.
DrainUnconfigured ==
  /\ pc = "crawl"
  /\ faults < MaxFaults
  /\ faults' = faults + 1
  /\ Proceed("down")
  /\ UNCHANGED <<table, deliveries, limited>>

-----------------------------------------------------------------------------

Fill ==
  \/ \E a \in Alert, s \in {"pending", "suppressed"} : Enqueue(a, s)
  \/ \E s \in Story : SaveStory(s)
  \/ DemoteEvents
  \/ EnqueueStory

Drain ==
  \/ StartDrain
  \/ \E k \in Key, r \in Reply, delivered \in BOOLEAN : Send(k, r, delivered)
  \/ MarkSent
  \/ MarkLimited
  \/ MarkError
  \/ EndDrain

Fault == Crash \/ DrainRaises \/ DrainUnconfigured

OutboxNext == Begin \/ Fill \/ SuppressPending \/ Drain \/ Fault

OutboxSpec == OutboxInit /\ [][OutboxNext]_outboxVars

\* Runs keep being started and a started run does not stop by itself: every
\* post has a timeout.  Nothing is assumed of the operator or of new alerts.
OutboxFairSpec == OutboxSpec /\ WF_outboxVars(Begin \/ DemoteEvents \/ EnqueueStory \/ Drain)

-----------------------------------------------------------------------------
(* Safety *)

\* A key reaches the channel at most once beyond the deliveries whose mark was
\* lost, and a row marked sent did reach it: only a crash, a failing mark or a
\* lost reply can duplicate a notification (drain, outbox_put, outbox_mark).
NoDuplicateWithoutLoss ==
  \A k \in Key :
    /\ posts[k] <= unacked[k] + 1
    /\ status[k] = "sent" => posts[k] = unacked[k] + 1

\* A row is given up only after more than RetryLimit marked replies, of which
\* all but the 429s were errors (the retry branch of drain).
GivesUpLate ==
  \A k \in Key : status[k] = "failed" =>
    /\ attempts[k] > RetryLimit
    /\ rejected[k] + limited > RetryLimit

\* An alert that was suppressed when it was enqueued, because of the baseline
\* crawl or its severity, never reaches the channel (enqueue, outbox_put).
OnlyWantedIsPosted ==
  \A k \in Key : posts[k] > 0 => k \in wanted

\* A row that is sent, failed or demoted keeps that status and is not posted
\* any more; a suppressed one too, unless a drain read it as pending before the
\* operator suppressed it.
FinishedStaysFinished ==
  [][\A k \in Key :
       (\/ status[k] \in {"sent", "failed", "demoted"}
        \/ status[k] = "suppressed" /\ k \notin InHand)
       => status'[k] = status[k] /\ posts'[k] = posts[k]]_outboxVars

(* Liveness *)

\* Once runs are no longer interrupted and 429s have stopped, a pending row is
\* delivered, given up, demoted or suppressed: no row starves.
PendingSettles ==
  \A k \in Key : status[k] = "pending" ~> status[k] # "pending"

\* docs/ARCHITECTURE.md:21, "Nothing is lost": an alert demoted in favour of a
\* story is announced by a story that gets a row in the outbox.  Broken by a run
\* that stops between save_story and outbox_put: every later run finds the story
\* saved and skips it.
DemotedIsAnnounced ==
  \A a \in Alert :
    status[a] = "demoted" ~> \E s \in Story : a \in Evidence[s] /\ status[s] # "none"

(* Refinement *)

\* The rows a drain may still post: a suppressed one is among them as long as a
\* drain that read it as pending has not come to it.
Due == {k \in wanted : status[k] = "pending" \/ k \in InHand}

LedgerState(k) ==
  IF k \notin wanted THEN "quiet"
  ELSE IF k \in Due THEN "due"
  ELSE IF status[k] = "sent" THEN "acknowledged" ELSE "dropped"

Ledger == INSTANCE AlertLedger WITH
  Alert <- Key,
  state <- [k \in Key |-> LedgerState(k)]

\* The outbox keeps the promise of AlertLedger.
ImplementsLedger == Ledger!Spec
=============================================================================
