------------------------------ MODULE Delivery ------------------------------
(***************************************************************************)
(* Delivery of notifications and digests (notifications/delivery.py) on    *)
(* the two channels that leave the database: the webhook                   *)
(* (operations/webhook.py) and the Windows desktop                         *)
(* (notifications/windows_desktop.py), by runs of the scheduler, the       *)
(* pipeline, the command line and web requests, which may overlap.         *)
(*                                                                         *)
(* A run selects a bounded set of targets, oldest first, and for each one  *)
(* reads the attempts made so far, decides, calls the adapter and writes   *)
(* the attempt.  It commits once, at its end: its first write takes the    *)
(* write lock of SQLite and keeps it until then, so that there is at most  *)
(* one uncommitted state, tx.  What a run sent before it died is sent, and *)
(* its attempts are gone.                                                  *)
(*                                                                         *)
(* Time is what its passing does: a retry falls due, a delivery becomes    *)
(* older than the hour of the cap, quiet hours begin and end.  A run takes *)
(* the time once, at its start, and keeps it.                              *)
(*                                                                         *)
(* Targets are numbers in the order of their events.  The attempts of one  *)
(* target on one channel are kept as how many there are, how many are      *)
(* DELIVERED, and the status and retry time of the latest.                 *)
(***************************************************************************)
EXTENDS Integers, FiniteSets

CONSTANTS
  Note,        \* the notifications
  Digest,      \* the digests
  Silent,      \* the notifications below IMPORTANT or muted when they are made
  Channel,     \* the channels
  Worker,      \* the processes and requests that run deliver_pending
  Installation, \* the installations looked at: what runs, on which channels,
               \* and what there is to deliver
  MaxAttempts, \* settings.maximum_delivery_attempts
  PerHour,     \* settings.maximum_immediate_per_hour
  Limit,       \* notifications one run selects (50)
  DigestLimit, \* digests one run selects (5)
  Nil,         \* no writer, no channel
  MaxEvents    \* bound: acts of the operator, deaths, lock timeouts and
               \* answers that get lost, all together

Target == Note \cup Digest

ASSUME ChannelAssumption == Channel \subseteq {"webhook", "windows_desktop"} /\ "webhook" \in Channel
ASSUME TargetAssumption ==
  /\ Note \subseteq Nat /\ Digest \subseteq Nat /\ Note \cap Digest = {}
  /\ IsFiniteSet(Target)
ASSUME InstallationAssumption ==
  Installation \subseteq [runs : SUBSET Worker, channels : SUBSET Channel, targets : SUBSET Target]
ASSUME SilentAssumption == Silent \subseteq Note
ASSUME NilAssumption == Nil \notin Worker \cup Channel
ASSUME LimitAssumption ==
  /\ MaxAttempts \in Nat \ {0} /\ PerHour \in Nat
  /\ Limit \in Nat \ {0} /\ DigestLimit \in Nat \ {0}
  /\ MaxEvents \in Nat

VARIABLES
  db,        \* the committed targets and attempts
  tx,        \* the same as the run with the write lock sees them
  writer,    \* the run that has the write lock
  run,       \* what each worker is doing
  dismissed, \* the notifications the operator dismissed
  retired,   \* the targets made before the last activation
  inApp,     \* the notifications delivered through the in-app adapter
  gate,      \* the installation, and its configuration of the two channels
  quiet,     \* it is within the quiet hours
  aged,      \* the deliveries that are more than an hour old
  sent,      \* history: messages that reached the receiver
  excused,   \* history: deliveries with a lost record or two runs at once
  crowded,   \* history: channels that had two runs at once
  acts,      \* number of operator acts so far
  faults     \* number of faults so far

storage == <<db, tx, writer>>
settings == <<dismissed, retired, inApp, gate>>
time == <<quiet, aged>>
history == <<sent, excused, crowded>>
vars == <<storage, run, settings, time, history, acts, faults>>

State == {"absent", "in_app", "suppressed", "deferred", "failed", "delivered"}
Pair == Target \X Channel

Attempts ==
  [n : Nat,           \* rows of this target and channel
   delivered : Nat,   \* the DELIVERED ones
   last : {"none", "delivered", "failed", "deferred"},
   retry : {"none", "waiting", "due"}] \* retry_after of the latest

Database == [state : [Target -> State], log : [Pair -> Attempts]]

Gate ==
  [of : Installation,      \* never changes
   configured : BOOLEAN,  \* the URL is in the environment
   tested : BOOLEAN,      \* last_test_successful of the adapter row
   enabled : BOOLEAN,     \* the adapter row
   external : BOOLEAN,    \* settings.external_delivery_enabled
   desktop : BOOLEAN]     \* settings.windows_desktop_notifications_enabled

Outcome == {"none", "delivered", "again", "refused", "deferred"}

RunState ==
  [pc : {"idle", "look", "send", "record"},
   channel : Channel \cup {Nil},
   todo : SUBSET Target,        \* selected and not come to
   digests : BOOLEAN,           \* the digests are still to be selected
   was : [Target -> State],     \* delivery_state as the session loaded it
   quiet : BOOLEAN,             \* quiet hours, at its start
   late : SUBSET Target,        \* retries that fell due after its start
   aged : SUBSET Target,        \* deliveries out of the cap at its start
   seen : Nat,                  \* attempts it read for the current target
   outcome : Outcome]           \* what it will write

TypeOK ==
  /\ db \in Database
  /\ tx \in Database
  /\ writer \in Worker \cup {Nil}
  /\ writer = Nil => tx = db
  /\ run \in [Worker -> RunState]
  /\ \A w \in Worker : run[w].pc # "idle" => run[w].channel \in Channel
  /\ \A w \in Worker : run[w].pc \in {"send", "record"} => run[w].todo # {}
  /\ dismissed \subseteq Note /\ retired \subseteq Target /\ inApp \subseteq Note
  /\ gate \in Gate
  /\ quiet \in BOOLEAN /\ aged \subseteq Pair
  /\ sent \in [Pair -> Nat] /\ excused \subseteq Pair /\ crowded \subseteq Channel
  /\ acts \in Nat /\ faults \in Nat

NoAttempt == [n |-> 0, delivered |-> 0, last |-> "none", retry |-> "none"]

Idle ==
  [pc |-> "idle", channel |-> Nil, todo |-> {}, digests |-> FALSE,
   was |-> [t \in Target |-> "absent"], quiet |-> FALSE, late |-> {}, aged |-> {},
   seen |-> 0, outcome |-> "none"]

Init ==
  /\ db = [state |-> [t \in Target |-> "absent"], log |-> [p \in Pair |-> NoAttempt]]
  /\ tx = db
  /\ writer = Nil
  /\ run = [w \in Worker |-> Idle]
  /\ dismissed = {} /\ retired = {} /\ inApp = {}
  /\ gate \in [of : Installation, configured : {TRUE}, tested : {TRUE}, enabled : {TRUE},
               external : {TRUE}, desktop : {TRUE}]
  /\ quiet = FALSE /\ aged = {}
  /\ sent = [p \in Pair |-> 0] /\ excused = {} /\ crowded = {}
  /\ acts = 0 /\ faults = 0

-----------------------------------------------------------------------------
(* Helpers *)

\* The oldest of a set of targets, and the oldest n of them.
Oldest(S) == CHOOSE t \in S : \A u \in S : t <= u
FirstOf(n, S) == {t \in S : Cardinality({u \in S : u < t}) < n}

\* What w reads: its own writes, and what the others committed.
View(w) == IF writer = w THEN tx ELSE db

Current(w) == Oldest(run[w].todo)
CurrentPair(w) == <<Current(w), run[w].channel>>
Log(w) == View(w).log[CurrentPair(w)]

\* Another run took the decision about p and has not committed it.
Claims(u, p) ==
  /\ run[u].channel = p[2]
  /\ \/ run[u].pc \in {"send", "record"} /\ Current(u) = p[1]
     \/ writer = u /\ tx.log[p].delivered > db.log[p].delivered

Fault == acts + faults < MaxEvents /\ faults' = faults + 1
Act == acts + faults < MaxEvents /\ acts' = acts + 1

\* A request commits a change of the tables: no run holds the lock then.
Commits(new) == writer = Nil /\ db' = new /\ tx' = new /\ UNCHANGED writer

-----------------------------------------------------------------------------
(* Time *)

\* The retry time of the latest attempt passes.
Elapse(p) ==
  LET due(d) == [d EXCEPT !.log[p].retry = IF @ = "waiting" THEN "due" ELSE @]
  IN /\ "waiting" \in {db.log[p].retry, tx.log[p].retry}
     /\ db' = due(db)
     /\ tx' = due(tx)
     /\ run' = [w \in Worker |->
          IF run[w].channel = p[2] /\ p[1] \in run[w].todo
          THEN [run[w] EXCEPT !.late = @ \cup {p[1]}] ELSE run[w]]
     /\ UNCHANGED <<writer, settings, time, history, acts, faults>>

\* An hour has passed since a delivery.
Age(p) ==
  /\ db.log[p].delivered > 0
  /\ p \notin aged
  /\ aged' = aged \cup {p}
  /\ UNCHANGED <<storage, run, settings, quiet, history, acts, faults>>

\* Quiet hours begin and end by the clock.
QuietBegins == ~quiet /\ Act /\ quiet' = TRUE
               /\ UNCHANGED <<storage, run, settings, aged, history, faults>>
QuietEnds == quiet /\ quiet' = FALSE
             /\ UNCHANGED <<storage, run, settings, aged, history, acts, faults>>

-----------------------------------------------------------------------------
(* The requests that make and change targets *)

Create(t) ==
  /\ db.state[t] = "absent"
  /\ \A u \in gate.of.targets : u < t /\ (u \in Note <=> t \in Note) => db.state[u] # "absent"
  /\ Commits([db EXCEPT !.state[t] = IF t \in Silent THEN "suppressed" ELSE "in_app"])
  /\ UNCHANGED <<run, settings, time, history, acts, faults>>

Dismiss(n) ==
  /\ Act
  /\ db.state[n] # "absent" /\ writer = Nil
  /\ dismissed' = IF n \in dismissed THEN dismissed \ {n} ELSE dismissed \cup {n}
  /\ UNCHANGED <<storage, run, retired, inApp, gate, time, history, faults>>

\* A new "from now" watermark: everything made so far is history.
Activate ==
  /\ Act
  /\ writer = Nil
  /\ retired' = {t \in Target : db.state[t] # "absent"}
  /\ UNCHANGED <<storage, run, dismissed, inApp, gate, time, history, faults>>

\* `notifications deliver`: the in-app adapter always delivers, once, and it
\* is not a desktop adapter, so the state of the notification changes.
DeliverInApp(n) ==
  /\ Act
  /\ db.state[n] # "absent"
  /\ n \notin inApp
  /\ inApp' = inApp \cup {n}
  /\ Commits([db EXCEPT !.state[n] = "delivered"])
  /\ UNCHANGED <<run, dismissed, retired, gate, time, history, faults>>

-----------------------------------------------------------------------------
(* Configuration of the channels *)

\* status_row: an adapter without a URL is disabled when the row is read.
StatusRow(g) == IF g.configured THEN g ELSE [g EXCEPT !.enabled = FALSE]

\* The process is started with another environment.
Reconfigure ==
  /\ Act
  /\ gate' = [gate EXCEPT !.configured = ~@]
  /\ UNCHANGED <<storage, run, dismissed, retired, inApp, time, history, faults>>

TestWebhook(ok) ==
  /\ Act
  /\ ok => gate.configured
  /\ gate' = [StatusRow(gate) EXCEPT !.tested = ok]
  /\ UNCHANGED <<storage, run, dismissed, retired, inApp, time, history, faults>>

SetEnabled(on, untested) ==
  /\ Act
  /\ on => gate.configured /\ (gate.tested \/ untested)
  /\ gate' = [StatusRow(gate) EXCEPT !.enabled = on, !.external = on]
  /\ UNCHANGED <<storage, run, dismissed, retired, inApp, time, history, faults>>

\* The settings form; refused while the adapter is not enabled.
PutSettings(external, desktop) ==
  /\ Act
  /\ external => StatusRow(gate).enabled
  /\ gate' = [StatusRow(gate) EXCEPT !.external = external, !.desktop = desktop]
  /\ UNCHANGED <<storage, run, dismissed, retired, inApp, time, history, faults>>

\* The desktop has a switch of its own, which needs no test.
EnableDesktop(on) ==
  /\ Act
  /\ gate' = [gate EXCEPT !.desktop = on]
  /\ UNCHANGED <<storage, run, dismissed, retired, inApp, time, history, faults>>

Armed(c) ==
  /\ c \in gate.of.channels
  /\ IF c = "webhook" THEN gate.configured /\ gate.enabled /\ gate.external ELSE gate.desktop

-----------------------------------------------------------------------------
(* A run *)

Undelivered == {"in_app", "deferred", "failed"}

\* What deliver_pending of each channel would select.
Wanted(n) == db.state[n] # "absent" /\ n \notin Silent \cup dismissed \cup retired

\* Mutant of ForWebhook: a deferred notification is not selected again.
ForWebhookOnce == {n \in Note : Wanted(n) /\ db.state[n] \in {"in_app", "failed"}}

ForWebhook == {n \in Note : Wanted(n) /\ db.state[n] \in Undelivered}
ForDesktop == {n \in Note : Wanted(n)}
Eligible(c) == IF c = "webhook" THEN ForWebhook ELSE ForDesktop

EligibleDigests(w) ==
  FirstOf(DigestLimit, {d \in Digest \ retired : View(w).state[d] \in Undelivered})

\* The rows of the selection, as the session keeps them.
Loaded(S, d) == [t \in Target |-> IF t \in S THEN d.state[t] ELSE "absent"]

Begin(w, c) ==
  /\ w \in gate.of.runs /\ run[w].pc = "idle"
  /\ Armed(c)
  /\ run' = [run EXCEPT ![w] =
       [Idle EXCEPT !.pc = "look", !.channel = c,
                    !.todo = FirstOf(Limit, Eligible(c)),
                    !.digests = (c = "webhook"),
                    !.was = Loaded(FirstOf(Limit, Eligible(c)), db),
                    !.quiet = quiet,
                    !.aged = {t \in Target : <<t, c>> \in aged}]]
  /\ crowded' = crowded \cup {d \in {c} : \E u \in Worker : run[u].channel = d}
  /\ UNCHANGED <<storage, settings, time, sent, excused, acts, faults>>

\* A run that finds the webhook off leaves the row of the adapter in order.
BeginDisabled ==
  /\ ~Armed("webhook")
  /\ gate' = StatusRow(gate)
  /\ UNCHANGED <<storage, run, dismissed, retired, inApp, time, history, acts, faults>>

SelectDigests(w) ==
  /\ run[w].pc = "look" /\ run[w].todo = {} /\ run[w].digests
  /\ run' = [run EXCEPT ![w] = [@ EXCEPT !.digests = FALSE, !.todo = EligibleDigests(w),
                                        !.was = Loaded(EligibleDigests(w), View(w))]]
  /\ UNCHANGED <<storage, settings, time, history, acts, faults>>

\* The attempts say that nothing is to be done now, or ever.
NothingToDo(w) ==
  \/ Log(w).delivered > 0
  \/ Log(w).retry = "waiting" \/ (Log(w).retry = "due" /\ Current(w) \in run[w].late)
  \/ Log(w).last = "failed" /\ Log(w).retry = "none"
  \/ Log(w).n >= MaxAttempts

\* Mutant of Capped: an off-by-one in the comparison.
CappedLate(w) ==
  Cardinality({t \in Target : /\ View(w).log[<<t, run[w].channel>>].delivered > 0
                              /\ t \notin run[w].aged}) > PerHour

\* The deliveries of the channel within the hour before the run's start.
Capped(w) ==
  Cardinality({t \in Target : /\ View(w).log[<<t, run[w].channel>>].delivered > 0
                              /\ t \notin run[w].aged}) >= PerHour

Looking(w) == run[w].pc = "look" /\ run[w].todo # {}

\* w is through with its current target.
Without(r, t) ==
  [r EXCEPT !.pc = "look", !.todo = @ \ {t}, !.was = [@ EXCEPT ![t] = "absent"],
            !.late = @ \ {t}, !.seen = 0, !.outcome = "none"]
NextTarget(w) == run' = [run EXCEPT ![w] = Without(@, Current(w))]

\* w decides on what it read; if another run has done so, both act.
Decides(w) ==
  /\ Looking(w)
  /\ ~NothingToDo(w)
  /\ excused' = excused \cup {p \in {CurrentPair(w)} : \E u \in Worker \ {w} : Claims(u, p)}

PassOver(w) ==
  /\ Looking(w)
  /\ NothingToDo(w)
  /\ NextTarget(w)
  /\ UNCHANGED <<storage, settings, time, history, acts, faults>>

Defer(w) ==
  /\ Decides(w)
  /\ run[w].quiet \/ Capped(w)
  /\ run' = [run EXCEPT ![w] = [@ EXCEPT !.pc = "record", !.seen = Log(w).n, !.outcome = "deferred"]]
  /\ UNCHANGED <<storage, settings, time, sent, crowded, acts, faults>>

Attempt(w) ==
  /\ Decides(w)
  /\ ~run[w].quiet /\ ~Capped(w)
  /\ run' = [run EXCEPT ![w] = [@ EXCEPT !.pc = "send", !.seen = Log(w).n]]
  /\ UNCHANGED <<storage, settings, time, sent, crowded, acts, faults>>

\* What an adapter may answer, and whether the message has arrived then.  An
\* HTTP answer may be lost, or be longer than the adapter reads; a toast may be
\* on the screen when its process is given up.
WebhookAnswers ==
  {a \in [outcome : {"delivered", "again", "refused"}, arrived : BOOLEAN] :
     a.outcome = "delivered" => a.arrived}
DesktopAnswers == {a \in WebhookAnswers : a.outcome = "refused" => ~a.arrived}
Answers(c) == IF c = "webhook" THEN WebhookAnswers ELSE DesktopAnswers

Send(w, a) ==
  /\ run[w].pc = "send"
  /\ IF a.arrived /\ a.outcome # "delivered" THEN Fault ELSE UNCHANGED faults
  /\ run' = [run EXCEPT ![w] = [@ EXCEPT !.pc = "record", !.outcome = a.outcome]]
  /\ sent' = [sent EXCEPT ![CurrentPair(w)] = IF a.arrived THEN @ + 1 ELSE @]
  /\ excused' = excused \cup (IF a.arrived /\ a.outcome # "delivered"
                              THEN {CurrentPair(w)} ELSE {})
  /\ UNCHANGED <<storage, settings, time, crowded, acts>>

Status(outcome) == IF outcome \in {"again", "refused"} THEN "failed" ELSE outcome

RetryAfter(w) ==
  IF \/ run[w].outcome = "deferred"
     \/ run[w].outcome = "again" /\ run[w].seen + 1 < MaxAttempts
  THEN "waiting" ELSE "none"

\* Mutant of Written: the attempt is kept and the state is not.
WrittenAttempt(w) ==
  LET p == CurrentPair(w)
      status == Status(run[w].outcome)
  IN [View(w) EXCEPT !.log[p] =
        [n |-> @.n + 1,
         delivered |-> @.delivered + (IF status = "delivered" THEN 1 ELSE 0),
         last |-> status,
         retry |-> RetryAfter(w)]]

\* The attempt is added; the state changes unless the channel is the desktop.
\* SQLAlchemy writes a column only when it differs from what was loaded.
Written(w) ==
  LET p == CurrentPair(w)
      status == Status(run[w].outcome)
      changed == run[w].channel # "windows_desktop" /\ status # run[w].was[p[1]]
  IN [state |-> IF changed THEN [View(w).state EXCEPT ![p[1]] = status] ELSE View(w).state,
      log |-> [View(w).log EXCEPT ![p] =
        [n |-> @.n + 1,
         delivered |-> @.delivered + (IF status = "delivered" THEN 1 ELSE 0),
         last |-> status,
         retry |-> RetryAfter(w)]]]

Record(w) ==
  /\ run[w].pc = "record"
  /\ writer \in {Nil, w}
  /\ writer' = w
  /\ tx' = Written(w)
  /\ aged' = IF run[w].outcome = "delivered" THEN aged \ {CurrentPair(w)} ELSE aged
  /\ NextTarget(w)
  /\ UNCHANGED <<db, settings, quiet, history, acts, faults>>

\* Mutant of Commit: the session is closed without a commit.
CommitForgotten(w) ==
  /\ run[w].pc = "look" /\ run[w].todo = {} /\ ~run[w].digests
  /\ run' = [run EXCEPT ![w] = Idle]
  /\ IF writer = w THEN tx' = db /\ writer' = Nil ELSE UNCHANGED <<tx, writer>>
  /\ UNCHANGED <<db, settings, time, history, acts, faults>>

Commit(w) ==
  /\ run[w].pc = "look" /\ run[w].todo = {} /\ ~run[w].digests
  /\ run' = [run EXCEPT ![w] = Idle]
  /\ IF writer = w THEN db' = tx /\ writer' = Nil ELSE UNCHANGED <<db, writer>>
  /\ UNCHANGED <<tx, settings, time, history, acts, faults>>

\* The deliveries of w that no table will know of if it ends now.
Unrecorded(w) ==
  {p \in Pair :
     \/ writer = w /\ tx.log[p].delivered > db.log[p].delivered
     \/ run[w].pc = "record" /\ run[w].outcome = "delivered" /\ p = CurrentPair(w)}

RollBack(w) == IF writer = w THEN tx' = db /\ writer' = Nil ELSE UNCHANGED <<tx, writer>>

\* The process dies, an exception ends the request, or the write lock is not
\* had in time: the transaction is rolled back.
Abort(w) ==
  /\ run[w].pc # "idle"
  /\ Fault
  /\ run' = [run EXCEPT ![w] = Idle]
  /\ excused' = excused \cup Unrecorded(w)
  /\ RollBack(w)
  /\ UNCHANGED <<db, settings, time, sent, crowded, acts>>

-----------------------------------------------------------------------------
Step(w) ==
  \/ SelectDigests(w) \/ PassOver(w) \/ Defer(w) \/ Attempt(w)
  \/ \E c \in Channel : run[w].channel = c /\ \E a \in Answers(c) : Send(w, a)
  \/ Record(w) \/ Commit(w)

Operate ==
  \/ \E n \in Note : Dismiss(n) \/ DeliverInApp(n)
  \/ Activate \/ Reconfigure
  \/ \E ok \in BOOLEAN : TestWebhook(ok)
  \/ \E on, untested \in BOOLEAN : SetEnabled(on, untested)
  \/ \E external, desktop \in BOOLEAN : PutSettings(external, desktop)
  \/ \E on \in BOOLEAN : EnableDesktop(on)

Next ==
  \/ \E p \in Pair : Elapse(p) \/ Age(p)
  \/ QuietBegins \/ QuietEnds
  \/ \E t \in gate.of.targets : Create(t)
  \/ Operate \/ BeginDisabled
  \/ \E w \in Worker : \/ \E c \in Channel : Begin(w, c)
                       \/ Step(w)
                       \/ Abort(w)

\* Time passes, a run goes on, and the pipeline job starts both channels
\* again and again.
Fairness ==
  /\ \A p \in Pair : WF_vars(Elapse(p)) /\ WF_vars(Age(p))
  /\ WF_vars(QuietEnds)
  /\ \A w \in Worker : WF_vars(Step(w)) /\ \A c \in Channel : SF_vars(Begin(w, c))

Spec == Init /\ [][Next]_vars
FairSpec == Spec /\ Fairness

-----------------------------------------------------------------------------
(* Properties *)

\* A target reaches its receiver twice on a channel only when the record of a
\* delivery was lost with its run, an answer was lost, or two runs had the
\* target in hand at once: deliver_pending has no lock and commits at its end.
AtMostOnceUnlessExcused == \A p \in Pair : sent[p] > 1 => p \in excused

\* A channel that never had two runs at once never has more deliveries on
\* record within an hour than the cap, although every run works with the time
\* of its start and decides before its own deliveries are committed.
CapHolds ==
  \A c \in Channel \ crowded :
    Cardinality({t \in Target : tx.log[<<t, c>>].delivered > 0 /\ <<t, c>> \notin aged}) <= PerHour

\* The state shown for a target is the truth about the channel that leaves
\* the machine: DELIVERED means that a delivery was recorded (or made in the
\* application), and a recorded delivery shows, unless two runs had the target
\* in hand and the slower one wrote its failure over it.
StateIsTrue ==
  \A t \in Target :
    /\ db.state[t] = "delivered" => db.log[<<t, "webhook">>].delivered > 0 \/ t \in inApp
    /\ db.log[<<t, "webhook">>].delivered > 0 =>
         db.state[t] = "delivered" \/ <<t, "webhook">> \in excused

\* A notification that a channel should carry is delivered there, refused for
\* good, or has used up its attempts, unless the operator withdraws it or the
\* channel, or Limit older ones that are settled stay selected before it: a
\* deferral or a failed attempt is always taken up again, and no unsettled
\* notification keeps the later ones out for ever.  Deferrals are attempts, so a
\* notification may settle without having been sent (deliver_pending of both
\* channels, _deliver).
Settled(p) ==
  \/ db.log[p].delivered > 0 \/ db.log[p].n >= MaxAttempts
  \/ db.log[p].last = "failed" /\ db.log[p].retry = "none"

Due(n, c) == Armed(c) /\ Wanted(n) /\ n \notin inApp

Blocked(n, c) ==
  Cardinality({u \in Eligible(c) : u < n /\ Settled(<<u, c>>)}) >= Limit

EveryNoteSettles ==
  \A n \in Note, c \in Channel :
    Due(n, c) ~> Settled(<<n, c>>) \/ ~Due(n, c) \/ Blocked(n, c)

-----------------------------------------------------------------------------
(* Does not hold *)

\* "Successful delivery is not duplicated" (HANDOFF.md:2137): without any
\* fault, two overlapping runs both read that there is no delivery, and both
\* send; each commits at its end.
NeverTwice == \A p \in Pair : sent[p] <= 1

\* "Only important and urgent eligible alerts are sent to the desktop"
\* (OPERATOR_GUIDE.md:336): sooner or later each of them.  Broken when there are
\* more of them than Limit: what the desktop has delivered, and what the webhook
\* refused for good or gave up, stays among the oldest Limit that are selected.
EveryNoteHasItsTurn ==
  \A n \in Note, c \in Channel : Due(n, c) ~> Settled(<<n, c>>) \/ ~Due(n, c)

\* "the post-quiet-hours retry delivers once" (HANDOFF.md:1967): a deferral
\* leaves an attempt to retry with.  Broken by deferring MaxAttempts times: each
\* writes an attempt, and the notification is never sent.
DeferredIsRetried ==
  \A p \in Pair : db.log[p].last = "deferred" => db.log[p].n < MaxAttempts
=============================================================================
