--------------------------- MODULE Delivery_proofs ---------------------------
(***************************************************************************)
(* The safety of deliveries for every number of runs, targets, attempts    *)
(* and deliveries per hour.  A message is accounted for from the answer of *)
(* the adapter to the commit: by the run that will record it, then by the  *)
(* uncommitted state, then by the table.  What a run has decided about     *)
(* stays true until it records it unless another run had the target in     *)
(* hand, which is why a target is excused, or the channel crowded, then.   *)
(***************************************************************************)
EXTENDS Delivery, FiniteSetTheorems, WellFoundedInduction, TLAPS

\* What a run has in hand: the target it has decided about.
PairOf(r) == <<Oldest(r.todo), r.channel>>
HasInHand(r, p) == r.pc \in {"send", "record"} /\ PairOf(r) = p
HasDelivered(r, p) == r.pc = "record" /\ r.outcome = "delivered" /\ PairOf(r) = p

\* A run records what it decided, or what was answered.
OutcomeIsKnown == \A w \in Worker : run[w].pc = "record" => run[w].outcome # "none"

\* A run that has ended has no channel, and does not have the write lock.
IdleIsOff == \A w \in Worker : run[w].pc = "idle" => run[w].channel = Nil /\ writer # w

\* What is not committed is the work of the run that has the write lock, and
\* deliveries are only added.
TxIsAhead ==
  \A p \in Pair :
    /\ db.log[p].delivered <= tx.log[p].delivered
    /\ db.log[p].delivered # tx.log[p].delivered => writer # Nil /\ run[writer].channel = p[2]

\* A channel that was never crowded has one run at a time.
OneRun == \A c \in Channel \ crowded : \A u, w \in Worker : run[u].channel = c /\ run[w].channel = c => u = w

\* Two runs have a target in hand only if it is excused.
OneHand == \A p \in Pair \ excused : \A u, w \in Worker : HasInHand(run[u], p) /\ HasInHand(run[w], p) => u = w

\* What a run has in hand was not delivered before, unless another run has
\* come in between.
HandIsOpen ==
  \A w \in Worker, p \in Pair : HasInHand(run[w], p) /\ (p \notin excused \/ p[2] \notin crowded) =>
    tx.log[p].delivered = 0

\* A message that was sent is on record, or will be.
SentIsAccounted ==
  \A p \in Pair \ excused :
    /\ sent[p] <= 1
    /\ sent[p] > 0 => tx.log[p].delivered > 0 \/ \E w \in Worker : HasDelivered(run[w], p)

\* The webhook's run has selected what was not delivered.
SelectedOpen ==
  \A w \in Worker : run[w].channel = "webhook" => \A t \in run[w].todo : run[w].was[t] \in Undelivered

\* StateIsTrue, of the committed state and of the one that may be.
True(d) ==
  \A t \in Target :
    /\ d.state[t] = "delivered" => d.log[<<t, "webhook">>].delivered > 0 \/ t \in inApp
    /\ d.log[<<t, "webhook">>].delivered > 0 => d.state[t] = "delivered" \/ <<t, "webhook">> \in excused

\* A delivery that is an hour old was committed, and a run knows no other.
AgedIsDelivered ==
  /\ \A p \in aged : db.log[p].delivered > 0
  /\ \A w \in Worker : run[w].channel \in Channel \ crowded =>
       \A t \in run[w].aged : <<t, run[w].channel>> \in aged

\* The deliveries on record within the hour, and a run that adds one.
Recent(c) == {t \in Target : tx.log[<<t, c>>].delivered > 0 /\ <<t, c>> \notin aged}
Adds(r) == r.pc = "send" \/ (r.pc = "record" /\ r.outcome = "delivered")
RoomIsLeft ==
  \A w \in Worker : run[w].channel \in Channel \ crowded /\ Adds(run[w]) =>
    Cardinality(Recent(run[w].channel)) < PerHour

IInv ==
  /\ TypeOK /\ OutcomeIsKnown /\ IdleIsOff /\ TxIsAhead
  /\ OneRun /\ OneHand /\ HandIsOpen /\ SentIsAccounted
  /\ SelectedOpen /\ True(db) /\ True(tx)
  /\ AgedIsDelivered /\ RoomIsLeft /\ CapHolds

-----------------------------------------------------------------------------
(* Targets, attempts and rows *)

\* There is an oldest one.
LEMMA OldestIsOne == ASSUME NEW S \in SUBSET Target, S # {} PROVE Oldest(S) \in S
<1> DEFINE Less == {ss \in Nat \X Nat : ss[1] < ss[2]}
<1>1. IsWellFoundedOn(Less, Nat)
  BY NatLessThanWellFounded DEF OpToRel
<1>2. S \in SUBSET Nat
  BY TargetAssumption DEF Target
<1>3. PICK x \in S : \A y \in S : ~(<<y, x>> \in Less)
  <2> HIDE DEF Less
  <2> QED BY <1>1, <1>2, WFMin
<1>4. ASSUME NEW y \in S PROVE x <= y
  <2>1. x \in Nat /\ y \in Nat /\ <<y, x>> \in Nat \X Nat
    BY <1>2
  <2>2. ~(y < x)
    <3>1. <<y, x>> \notin Less
      BY <1>3
    <3>2. <<y, x>>[1] = y /\ <<y, x>>[2] = x
      OBVIOUS
    <3> QED BY <2>1, <3>1, <3>2
  <2> QED BY <2>1, <2>2
<1>5. \E t \in S : \A u \in S : t <= u
  BY <1>4
<1>6. QED
  BY <1>5 DEF Oldest

\* The fields of what a run becomes.
LEMMA IdleIsARun == Idle \in RunState
  BY DEF Idle, RunState, Outcome, State

LEMMA BeginFields ==
  ASSUME NEW w \in Worker, NEW c \in Channel, TypeOK, Begin(w, c)
  PROVE  /\ run' \in [Worker -> RunState]
         /\ \A v \in Worker \ {w} : run'[v] = run[v]
         /\ run[w].pc = "idle"
         /\ run'[w].pc = "look" /\ run'[w].channel = c
         /\ run'[w].todo = FirstOf(Limit, Eligible(c))
         /\ run'[w].was = Loaded(FirstOf(Limit, Eligible(c)), db)
         /\ run'[w].aged = {t \in Target : <<t, c>> \in aged}
<1>1. FirstOf(Limit, Eligible(c)) \in SUBSET Target
  BY DEF FirstOf, Eligible, ForWebhook, ForDesktop, Target
<1>2. Loaded(FirstOf(Limit, Eligible(c)), db) \in [Target -> State]
  BY DEF Loaded, TypeOK, Database, State
<1>3. PICK q \in RunState : q = Idle
  BY IdleIsARun
<1>4. PICK S \in SUBSET Target : S = FirstOf(Limit, Eligible(c))
  BY <1>1
<1>5. PICK f \in [Target -> State] : f = Loaded(S, db)
  BY <1>2, <1>4
<1>6. PICK A \in SUBSET Target : A = {t \in Target : <<t, c>> \in aged}
  OBVIOUS
<1>7. PICK b \in BOOLEAN : b = (c = "webhook")
  OBVIOUS
<1>8. [q EXCEPT !.pc = "look", !.channel = c, !.todo = S, !.digests = b, !.was = f, !.quiet = quiet, !.aged = A]
        \in RunState
  BY DEF RunState, TypeOK
<1>9. PICK r \in RunState : r = [q EXCEPT !.pc = "look", !.channel = c, !.todo = S, !.digests = b, !.was = f, !.quiet = quiet, !.aged = A]
  BY <1>8
<1>10. run' = [run EXCEPT ![w] = r]
  BY <1>3, <1>4, <1>5, <1>6, <1>7, <1>9 DEF Begin
<1>11. r.pc = "look" /\ r.channel = c /\ r.todo = S /\ r.was = f /\ r.aged = A
  BY <1>9 DEF RunState
<1>12. run' \in [Worker -> RunState] /\ run'[w] = r /\ \A v \in Worker \ {w} : run'[v] = run[v]
  BY <1>10 DEF TypeOK
<1>13. QED
  BY <1>4, <1>5, <1>6, <1>11, <1>12 DEF Begin

LEMMA NextTargetFields ==
  ASSUME NEW w \in Worker, TypeOK, Looking(w) \/ run[w].pc = "record", NextTarget(w)
  PROVE  /\ run' \in [Worker -> RunState]
         /\ \A v \in Worker \ {w} : run'[v] = run[v]
         /\ run'[w].pc = "look" /\ run'[w].channel = run[w].channel
         /\ run'[w].todo = run[w].todo \ {Current(w)}
         /\ run'[w].was = [run[w].was EXCEPT ![Current(w)] = "absent"]
         /\ run'[w].aged = run[w].aged
<1>1. PICK q \in RunState : q = run[w]
  BY DEF TypeOK
<1>2. PICK t \in Target : t = Current(w)
  <2>1. run[w].todo # {} /\ run[w].todo \in SUBSET Target
    BY <1>1 DEF TypeOK, Looking, RunState
  <2> QED BY <2>1, OldestIsOne DEF Current
<1>3. PICK f \in [Target -> State] : f = [q.was EXCEPT ![t] = "absent"]
  <2>1. q.was \in [Target -> State]
    BY DEF RunState
  <2> QED BY <2>1 DEF State
<1>4. [q EXCEPT !.pc = "look", !.todo = @ \ {t}, !.was = f, !.late = @ \ {t}, !.seen = 0, !.outcome = "none"] \in RunState
  BY DEF RunState, Outcome
<1>5. PICK r \in RunState : r = [q EXCEPT !.pc = "look", !.todo = @ \ {t}, !.was = f, !.late = @ \ {t}, !.seen = 0, !.outcome = "none"]
  BY <1>4
<1>6. Without(q, t) = r
  BY <1>3, <1>5 DEF Without
<1>7. r.pc = "look" /\ r.channel = q.channel /\ r.todo = q.todo \ {t} /\ r.was = f /\ r.aged = q.aged
  BY <1>5 DEF RunState
<1>8. run' = [run EXCEPT ![w] = r]
  BY <1>1, <1>2, <1>6 DEF NextTarget
<1>9. run' \in [Worker -> RunState] /\ run'[w] = r /\ \A v \in Worker \ {w} : run'[v] = run[v]
  BY <1>8 DEF TypeOK
<1>10. QED
  BY <1>1, <1>2, <1>3, <1>7, <1>9

LEMMA SelectDigestsFields ==
  ASSUME NEW w \in Worker, TypeOK, SelectDigests(w)
  PROVE  /\ run' \in [Worker -> RunState]
         /\ \A v \in Worker \ {w} : run'[v] = run[v]
         /\ run'[w].pc = "look" /\ run'[w].channel = run[w].channel
         /\ run'[w].todo = EligibleDigests(w)
         /\ run'[w].was = Loaded(EligibleDigests(w), View(w))
         /\ run'[w].aged = run[w].aged
<1>1. PICK q \in RunState : q = run[w]
  BY DEF TypeOK
<1>2. PICK S \in SUBSET Target : S = EligibleDigests(w)
  BY DEF EligibleDigests, FirstOf, Target
<1>3. PICK f \in [Target -> State] : f = Loaded(S, View(w))
  BY DEF Loaded, View, TypeOK, Database, State
<1>4. [q EXCEPT !.digests = FALSE, !.todo = S, !.was = f] \in RunState
  BY DEF RunState
<1>5. PICK r \in RunState : r = [q EXCEPT !.digests = FALSE, !.todo = S, !.was = f]
  BY <1>4
<1>6. r.pc = q.pc /\ r.channel = q.channel /\ r.todo = S /\ r.was = f /\ r.aged = q.aged
  BY <1>5 DEF RunState
<1>7. run' = [run EXCEPT ![w] = r]
  BY <1>1, <1>2, <1>3, <1>5 DEF SelectDigests
<1>8. run' \in [Worker -> RunState] /\ run'[w] = r /\ \A v \in Worker \ {w} : run'[v] = run[v]
  BY <1>7 DEF TypeOK
<1>9. QED
  BY <1>1, <1>2, <1>3, <1>6, <1>8 DEF SelectDigests

LEMMA DeferFields ==
  ASSUME NEW w \in Worker, TypeOK, Defer(w)
  PROVE  /\ run' \in [Worker -> RunState]
         /\ \A v \in Worker \ {w} : run'[v] = run[v]
         /\ run'[w].pc = "record" /\ run'[w].outcome = "deferred" /\ run'[w].channel = run[w].channel
         /\ run'[w].todo = run[w].todo /\ run'[w].was = run[w].was /\ run'[w].aged = run[w].aged
<1>1. PICK q \in RunState : q = run[w]
  BY DEF TypeOK
<1>2. PICK n \in Nat : n = Log(w).n
  <2>1. CurrentPair(w) \in Pair
    BY OldestIsOne DEF Defer, Decides, Looking, CurrentPair, Current, TypeOK, RunState, Pair
  <2>2. View(w) \in Database
    BY DEF View, TypeOK
  <2> QED BY <2>1, <2>2 DEF Log, Database, Attempts
<1>3. [q EXCEPT !.pc = "record", !.seen = n, !.outcome = "deferred"] \in RunState
  BY DEF RunState, Outcome
<1>4. PICK r \in RunState : r = [q EXCEPT !.pc = "record", !.seen = n, !.outcome = "deferred"]
  BY <1>3
<1>5. r.pc = "record" /\ r.outcome = "deferred" /\ r.channel = q.channel /\ r.todo = q.todo /\ r.was = q.was /\ r.aged = q.aged
  BY <1>4 DEF RunState
<1>6. run' = [run EXCEPT ![w] = r]
  BY <1>1, <1>2, <1>4 DEF Defer
<1>7. run' \in [Worker -> RunState] /\ run'[w] = r /\ \A v \in Worker \ {w} : run'[v] = run[v]
  BY <1>6 DEF TypeOK
<1>8. QED
  BY <1>1, <1>5, <1>7

LEMMA AttemptFields ==
  ASSUME NEW w \in Worker, TypeOK, Attempt(w)
  PROVE  /\ run' \in [Worker -> RunState]
         /\ \A v \in Worker \ {w} : run'[v] = run[v]
         /\ run'[w].pc = "send" /\ run'[w].channel = run[w].channel
         /\ run'[w].todo = run[w].todo /\ run'[w].was = run[w].was /\ run'[w].aged = run[w].aged
<1>1. PICK q \in RunState : q = run[w]
  BY DEF TypeOK
<1>2. PICK n \in Nat : n = Log(w).n
  <2>1. CurrentPair(w) \in Pair
    BY OldestIsOne DEF Attempt, Decides, Looking, CurrentPair, Current, TypeOK, RunState, Pair
  <2>2. View(w) \in Database
    BY DEF View, TypeOK
  <2> QED BY <2>1, <2>2 DEF Log, Database, Attempts
<1>3. [q EXCEPT !.pc = "send", !.seen = n] \in RunState
  BY DEF RunState
<1>4. PICK r \in RunState : r = [q EXCEPT !.pc = "send", !.seen = n]
  BY <1>3
<1>5. r.pc = "send" /\ r.channel = q.channel /\ r.todo = q.todo /\ r.was = q.was /\ r.aged = q.aged
  BY <1>4 DEF RunState
<1>6. run' = [run EXCEPT ![w] = r]
  BY <1>1, <1>2, <1>4 DEF Attempt
<1>7. run' \in [Worker -> RunState] /\ run'[w] = r /\ \A v \in Worker \ {w} : run'[v] = run[v]
  BY <1>6 DEF TypeOK
<1>8. QED
  BY <1>1, <1>5, <1>7

LEMMA SendFields ==
  ASSUME NEW w \in Worker, NEW a \in WebhookAnswers, TypeOK, Send(w, a)
  PROVE  /\ run' \in [Worker -> RunState]
         /\ \A v \in Worker \ {w} : run'[v] = run[v]
         /\ run'[w].pc = "record" /\ run'[w].outcome = a.outcome /\ run'[w].channel = run[w].channel
         /\ run'[w].todo = run[w].todo /\ run'[w].was = run[w].was /\ run'[w].aged = run[w].aged
<1>1. PICK q \in RunState : q = run[w]
  BY DEF TypeOK
<1>2. PICK o \in Outcome : o = a.outcome
  BY DEF WebhookAnswers, Outcome
<1>3. [q EXCEPT !.pc = "record", !.outcome = o] \in RunState
  BY DEF RunState, Outcome
<1>4. PICK r \in RunState : r = [q EXCEPT !.pc = "record", !.outcome = o]
  BY <1>3
<1>5. r.pc = "record" /\ r.outcome = o /\ r.channel = q.channel /\ r.todo = q.todo /\ r.was = q.was /\ r.aged = q.aged
  BY <1>4 DEF RunState
<1>6. run' = [run EXCEPT ![w] = r]
  BY <1>1, <1>2, <1>4 DEF Send
<1>7. run' \in [Worker -> RunState] /\ run'[w] = r /\ \A v \in Worker \ {w} : run'[v] = run[v]
  BY <1>6 DEF TypeOK
<1>8. QED
  BY <1>1, <1>2, <1>5, <1>7

\* What TypeOK says of the rows and of the runs, field by field.
LEMMA Typed ==
  ASSUME TypeOK
  PROVE  /\ \A p \in Pair : db.log[p] \in Attempts /\ tx.log[p] \in Attempts
         /\ \A p \in Pair : db.log[p].delivered \in Nat /\ tx.log[p].delivered \in Nat
         /\ \A t \in Target : db.state[t] \in State /\ tx.state[t] \in State
         /\ \A w \in Worker : run[w].todo \in SUBSET Target /\ run[w].aged \in SUBSET Target
         /\ \A w \in Worker : run[w].channel \in Channel \cup {Nil}
         /\ \A w \in Worker : run[w].was \in [Target -> State]
<1>1. \A d \in Database : \A p \in Pair : d.log[p] \in Attempts /\ d.log[p].delivered \in Nat
  <2>1. \A d \in Database : \A p \in Pair : d.log[p] \in Attempts
    BY DEF Database
  <2>2. \A a \in Attempts : a.delivered \in Nat
    BY DEF Attempts
  <2> QED BY <2>1, <2>2
<1>2. \A d \in Database : \A t \in Target : d.state[t] \in State
  BY DEF Database
<1>3. \A r \in RunState : r.todo \in SUBSET Target /\ r.aged \in SUBSET Target /\ r.channel \in Channel \cup {Nil} /\ r.was \in [Target -> State]
  BY DEF RunState
<1>4. QED
  BY <1>1, <1>2, <1>3 DEF TypeOK

\* A run with targets left has a current one, among them.
LEMMA CurrentIsOne ==
  ASSUME NEW w \in Worker, TypeOK, run[w].pc # "idle", run[w].todo # {}
  PROVE  /\ Current(w) \in Target /\ Current(w) \in run[w].todo /\ run[w].channel \in Channel
         /\ CurrentPair(w) \in Pair /\ CurrentPair(w) = PairOf(run[w])
         /\ CurrentPair(w) = <<Current(w), run[w].channel>>
         /\ CurrentPair(w)[1] = Current(w) /\ CurrentPair(w)[2] = run[w].channel
<1>1. Current(w) \in run[w].todo /\ Current(w) \in Target
  BY Typed, OldestIsOne DEF Current
<1>2. QED
  BY <1>1 DEF TypeOK, CurrentPair, PairOf, Current, Pair

\* A run with the write lock, and any run when nobody has it, sees the
\* uncommitted state.
LEMMA ViewIsTx == ASSUME NEW w \in Worker, TypeOK, writer \in {Nil, w} PROVE View(w) = tx
  BY DEF TypeOK, View

LEMMA TargetsAreFinite == ASSUME NEW S \in SUBSET Target PROVE IsFiniteSet(S) /\ Cardinality(S) \in Nat
  BY TargetAssumption, FS_Subset, FS_CardinalityType

LEMMA FewerTargets ==
  ASSUME NEW S \in SUBSET Target, NEW T \in SUBSET Target, S \subseteq T
  PROVE  Cardinality(S) <= Cardinality(T)
  BY TargetsAreFinite, FS_Subset

\* A step that leaves alone the parts of the rows and runs the invariant is
\* about keeps it.
LEMMA NothingMoves ==
  ASSUME IInv, TypeOK',
         UNCHANGED <<writer, inApp, aged, sent, excused, crowded>>,
         \A t \in Target : db'.state[t] = db.state[t] /\ tx'.state[t] = tx.state[t],
         \A p \in Pair : db'.log[p].delivered = db.log[p].delivered /\ tx'.log[p].delivered = tx.log[p].delivered,
         \A w \in Worker : /\ run'[w].pc = run[w].pc /\ run'[w].channel = run[w].channel
                           /\ run'[w].todo = run[w].todo /\ run'[w].was = run[w].was
                           /\ run'[w].outcome = run[w].outcome /\ run'[w].aged = run[w].aged
  PROVE  IInv'
<1>1. OutcomeIsKnown' /\ IdleIsOff'
  BY DEF IInv, OutcomeIsKnown, IdleIsOff
<1>2. TxIsAhead'
  BY DEF IInv, TxIsAhead, TypeOK
<1>3. OneRun'
  BY DEF IInv, OneRun
<1>4. \A w \in Worker, p \in Pair : (HasInHand(run[w], p) <=> HasInHand(run'[w], p)) /\ (HasDelivered(run[w], p) <=> HasDelivered(run'[w], p))
  BY DEF HasInHand, HasDelivered, PairOf
<1>5. OneHand'
  BY <1>4 DEF IInv, OneHand
<1>6. HandIsOpen'
  BY <1>4 DEF IInv, HandIsOpen
<1>7. SentIsAccounted'
  BY <1>4 DEF IInv, SentIsAccounted
<1>8. SelectedOpen'
  BY DEF IInv, SelectedOpen
<1>9. True(db)' /\ True(tx)'
  BY ChannelAssumption DEF IInv, True, Pair
<1>10. AgedIsDelivered'
  BY DEF IInv, AgedIsDelivered, TypeOK
<1>11. \A c \in Channel : Recent(c)' = Recent(c)
  BY DEF Recent, Pair
<1>12. RoomIsLeft' /\ CapHolds'
  BY <1>11 DEF IInv, RoomIsLeft, CapHolds, Recent, Adds
<1>13. QED
  BY <1>1, <1>2, <1>3, <1>5, <1>6, <1>7, <1>8, <1>9, <1>10, <1>12 DEF IInv

-----------------------------------------------------------------------------
(* Time, the operator and the requests *)

\* Quiet hours, dismissals, a new watermark and the switches of the channels
\* touch no row, no run and nothing that was sent.
LEMMA SettingsStep ==
  ASSUME IInv,
         \/ QuietBegins \/ QuietEnds \/ (\E n \in Note : Dismiss(n)) \/ Activate \/ Reconfigure
         \/ (\E ok \in BOOLEAN : TestWebhook(ok))
         \/ (\E on, untested \in BOOLEAN : SetEnabled(on, untested))
         \/ (\E external, desktop \in BOOLEAN : PutSettings(external, desktop))
         \/ (\E on \in BOOLEAN : EnableDesktop(on)) \/ BeginDisabled
  PROVE  IInv'
<1>1. UNCHANGED <<storage, run, inApp, aged, history>>
  BY DEF QuietBegins, QuietEnds, Dismiss, Activate, Reconfigure, TestWebhook, SetEnabled, PutSettings,
         EnableDesktop, BeginDisabled, settings, time, history, storage
<1>2. StatusRow(gate) \in Gate /\ gate \in Gate
  BY DEF IInv, TypeOK, StatusRow, Gate
<1>3. gate' \in Gate
  <2>1. \A g \in Gate, x, y \in BOOLEAN :
          /\ [g EXCEPT !.configured = x] \in Gate /\ [g EXCEPT !.tested = x] \in Gate
          /\ [g EXCEPT !.desktop = x] \in Gate
          /\ [g EXCEPT !.enabled = x, !.external = y] \in Gate
          /\ [g EXCEPT !.external = x, !.desktop = y] \in Gate
    BY DEF Gate
  <2>2. [gate EXCEPT !.configured = ~@] \in Gate
    <3>1. PICK x \in BOOLEAN : x = ~gate.configured
      OBVIOUS
    <3>2. [gate EXCEPT !.configured = x] \in Gate
      BY <1>2, <2>1
    <3> QED BY <3>1, <3>2
  <2>3. UNCHANGED settings => gate' = gate
    BY DEF settings
  <2>4. CASE QuietBegins \/ QuietEnds \/ (\E n \in Note : Dismiss(n)) \/ Activate
    BY <1>2, <2>3, <2>4 DEF QuietBegins, QuietEnds, Dismiss, Activate
  <2>5. CASE Reconfigure \/ BeginDisabled
    BY <1>2, <2>1, <2>2, <2>5 DEF Reconfigure, BeginDisabled
  <2>6. CASE \E ok \in BOOLEAN : TestWebhook(ok)
    BY <1>2, <2>1, <2>6 DEF TestWebhook
  <2>7. CASE \E on, untested \in BOOLEAN : SetEnabled(on, untested)
    BY <1>2, <2>1, <2>7 DEF SetEnabled
  <2>8. CASE \E external, desktop \in BOOLEAN : PutSettings(external, desktop)
    BY <1>2, <2>1, <2>8 DEF PutSettings
  <2>9. CASE \E on \in BOOLEAN : EnableDesktop(on)
    BY <1>2, <2>1, <2>9 DEF EnableDesktop
  <2> QED BY <2>4, <2>5, <2>6, <2>7, <2>8, <2>9
<1>4. dismissed' \subseteq Note /\ retired' \subseteq Target /\ quiet' \in BOOLEAN
  BY DEF IInv, TypeOK, QuietBegins, QuietEnds, Dismiss, Activate, Reconfigure, TestWebhook, SetEnabled, PutSettings,
         EnableDesktop, BeginDisabled, settings, time
<1>5. (acts' = acts \/ acts' = acts + 1) /\ faults' = faults
  BY DEF QuietBegins, QuietEnds, Dismiss, Activate, Reconfigure, TestWebhook, SetEnabled, PutSettings,
         EnableDesktop, BeginDisabled, Act
<1>6. TypeOK'
  BY <1>1, <1>3, <1>4, <1>5 DEF IInv, TypeOK, storage, history
<1>7. QED
  BY <1>1, <1>6, NothingMoves DEF storage, history

\* A request that commits the state of one target: the attempts stay, and
\* nobody has uncommitted work.
LEMMA StateWritten ==
  ASSUME NEW t \in Target, NEW x \in State, TypeOK, Commits([db EXCEPT !.state[t] = x])
  PROVE  /\ writer = Nil /\ writer' = Nil /\ tx' = db' /\ db' \in Database
         /\ db'.log = db.log /\ tx'.log = tx.log
         /\ db'.state[t] = x /\ \A u \in Target \ {t} : db'.state[u] = db.state[u]
<1>1. PICK q \in Database : q = db
  BY DEF TypeOK
<1>2. PICK f \in [Target -> State] : f = [q.state EXCEPT ![t] = x]
  BY DEF Database
<1>3. [q EXCEPT !.state = f] \in Database
  BY DEF Database
<1>4. PICK r \in Database : r = [q EXCEPT !.state = f]
  BY <1>3
<1>5. r.state = f /\ r.log = q.log
  BY <1>4 DEF Database
<1>6. [q EXCEPT !.state[t] = x] = r
  BY <1>2, <1>4 DEF Database
<1>7. db' = r
  BY <1>1, <1>6 DEF Commits
<1>8. f[t] = x /\ \A u \in Target \ {t} : f[u] = q.state[u]
  BY <1>2 DEF Database
<1>9. QED
  BY <1>1, <1>5, <1>7, <1>8 DEF Commits, TypeOK

\* So such a request keeps the invariant if the state it writes is true.
LEMMA StateStep ==
  ASSUME NEW t \in Target, NEW x \in State, IInv, Commits([db EXCEPT !.state[t] = x]),
         UNCHANGED <<run, gate, dismissed, retired, time, history, faults>>,
         inApp \subseteq inApp', inApp' \subseteq Note, acts' \in Nat,
         x = "delivered" => t \in inApp',
         x # "delivered" => db.state[t] # "delivered"
  PROVE  IInv'
<1>1. TypeOK
  BY DEF IInv
<1>2. /\ writer = Nil /\ writer' = Nil /\ tx' = db' /\ db' \in Database
      /\ db'.log = db.log /\ tx'.log = tx.log /\ tx = db
      /\ db'.state[t] = x /\ \A u \in Target \ {t} : db'.state[u] = db.state[u]
  BY <1>1, StateWritten DEF TypeOK
<1>3. TypeOK'
  BY <1>1, <1>2 DEF TypeOK, time, history
<1>4. UNCHANGED <<run, aged, sent, excused, crowded>>
  BY DEF time, history
<1>5. OutcomeIsKnown' /\ IdleIsOff' /\ TxIsAhead' /\ OneRun' /\ OneHand'
  BY <1>2, <1>4 DEF IInv, OutcomeIsKnown, IdleIsOff, TxIsAhead, OneRun, OneHand
<1>6. HandIsOpen' /\ SentIsAccounted' /\ SelectedOpen'
  BY <1>2, <1>4 DEF IInv, HandIsOpen, SentIsAccounted, SelectedOpen
<1>7. True(db)' /\ True(tx)'
  BY <1>2, <1>4 DEF IInv, True
<1>8. AgedIsDelivered' /\ RoomIsLeft' /\ CapHolds'
  BY <1>2, <1>4 DEF IInv, AgedIsDelivered, RoomIsLeft, CapHolds, Recent, Adds
<1>9. QED
  BY <1>3, <1>5, <1>6, <1>7, <1>8 DEF IInv

LEMMA CreateStep == ASSUME NEW t \in Target, IInv, Create(t) PROVE IInv'
<1>1. PICK x \in State : x = IF t \in Silent THEN "suppressed" ELSE "in_app"
  BY DEF State
<1>2. Commits([db EXCEPT !.state[t] = x]) /\ db.state[t] = "absent" /\ x # "delivered"
  BY <1>1 DEF Create
<1>3. QED
  BY <1>2, StateStep DEF Create, IInv, TypeOK, settings

LEMMA DeliverInAppStep == ASSUME NEW n \in Note, IInv, DeliverInApp(n) PROVE IInv'
<1>1. n \in Target /\ "delivered" \in State
  BY DEF Target, State
<1>2. acts' \in Nat
  BY DEF DeliverInApp, Act, IInv, TypeOK
<1>3. inApp' = inApp \cup {n} /\ Commits([db EXCEPT !.state[n] = "delivered"])
  BY DEF DeliverInApp
<1>4. UNCHANGED <<run, gate, dismissed, retired, time, history, faults>>
  BY DEF DeliverInApp
<1>5. QED
  BY <1>1, <1>2, <1>3, <1>4, StateStep DEF IInv, TypeOK

\* The age of a delivery only makes room.
LEMMA AgeStep == ASSUME NEW p \in Pair, IInv, Age(p) PROVE IInv'
<1>1. UNCHANGED <<storage, run, settings, quiet, history, acts, faults>> /\ aged' = aged \cup {p} /\ db.log[p].delivered > 0
  BY DEF Age
<1>2. UNCHANGED <<db, tx, writer, run, dismissed, retired, inApp, gate, quiet, sent, excused, crowded, acts, faults>>
  BY <1>1 DEF storage, settings, history
<1>3. TypeOK' /\ AgedIsDelivered'
  BY <1>1, <1>2 DEF IInv, TypeOK, AgedIsDelivered
<1>4. OutcomeIsKnown' /\ IdleIsOff' /\ TxIsAhead' /\ OneRun' /\ OneHand' /\ HandIsOpen' /\ SentIsAccounted' /\ SelectedOpen' /\ True(db)' /\ True(tx)'
  BY <1>2 DEF IInv, OutcomeIsKnown, IdleIsOff, TxIsAhead, OneRun, OneHand, HandIsOpen, SentIsAccounted, SelectedOpen, True
<1>5. \A c \in Channel : Recent(c) \in SUBSET Target /\ Recent(c)' \in SUBSET Target /\ Recent(c)' \subseteq Recent(c)
  BY <1>1, <1>2 DEF Recent
<1>6. \A c \in Channel : /\ Cardinality(Recent(c)') <= Cardinality(Recent(c))
                         /\ Cardinality(Recent(c)) \in Nat /\ Cardinality(Recent(c)') \in Nat
  BY <1>5, FewerTargets, TargetsAreFinite
<1>7. RoomIsLeft'
  BY <1>2, <1>6, LimitAssumption DEF IInv, RoomIsLeft, Adds
<1>8. \A c \in Channel \ crowded : Cardinality(Recent(c)) <= PerHour
  BY DEF IInv, CapHolds, Recent
<1>9. \A c \in Channel \ crowded' : Cardinality(Recent(c)') <= PerHour
  BY <1>2, <1>6, <1>8, LimitAssumption
<1>10. CapHolds'
  BY <1>9 DEF CapHolds, Recent
<1>11. QED
  BY <1>3, <1>4, <1>7, <1>10 DEF IInv

\* A retry that falls due changes the latest attempt and what the runs know.
LEMMA ElapseStep == ASSUME NEW p \in Pair, IInv, Elapse(p) PROVE IInv'
<1> DEFINE due(d) == [d EXCEPT !.log[p].retry = IF @ = "waiting" THEN "due" ELSE @]
<1>1. TypeOK
  BY DEF IInv
<1>2. ASSUME NEW d \in Database
      PROVE  /\ due(d) \in Database
             /\ \A t \in Target : due(d).state[t] = d.state[t]
             /\ \A q \in Pair : due(d).log[q].delivered = d.log[q].delivered
  <2>1. PICK f \in [Pair -> Attempts] : f = d.log
    BY DEF Database
  <2>2. PICK a \in Attempts : a = f[p]
    OBVIOUS
  <2>3. PICK x \in {"none", "waiting", "due"} : x = IF a.retry = "waiting" THEN "due" ELSE a.retry
    BY DEF Attempts
  <2>4. [a EXCEPT !.retry = x] \in Attempts
    BY DEF Attempts
  <2>5. PICK b \in Attempts : b = [a EXCEPT !.retry = x]
    BY <2>4
  <2>6. b.delivered = a.delivered
    BY <2>5 DEF Attempts
  <2>7. PICK g \in [Pair -> Attempts] : g = [f EXCEPT ![p] = b]
    OBVIOUS
  <2>8. \A q \in Pair : g[q].delivered = f[q].delivered
    BY <2>2, <2>6, <2>7
  <2>9. [d EXCEPT !.log = g] \in Database
    BY DEF Database
  <2>10. PICK e \in Database : e = [d EXCEPT !.log = g]
    BY <2>9
  <2>11. e.log = g /\ e.state = d.state
    BY <2>10 DEF Database
  <2>12. due(d) = e
    BY <2>1, <2>2, <2>3, <2>5, <2>7, <2>10 DEF Database
  <2> QED BY <2>1, <2>8, <2>11, <2>12
<1>3. db' = due(db) /\ tx' = due(tx)
  BY DEF Elapse
<1>4. /\ db' \in Database /\ tx' \in Database
      /\ \A t \in Target : db'.state[t] = db.state[t] /\ tx'.state[t] = tx.state[t]
      /\ \A q \in Pair : db'.log[q].delivered = db.log[q].delivered /\ tx'.log[q].delivered = tx.log[q].delivered
  BY <1>1, <1>2, <1>3 DEF TypeOK
<1>5. UNCHANGED <<writer, dismissed, retired, inApp, gate, quiet, aged, sent, excused, crowded, acts, faults>>
  BY DEF Elapse, settings, time, history
<1>6. ASSUME NEW w \in Worker
      PROVE  /\ run'[w] \in RunState
             /\ run'[w].pc = run[w].pc /\ run'[w].channel = run[w].channel
             /\ run'[w].todo = run[w].todo /\ run'[w].was = run[w].was
             /\ run'[w].outcome = run[w].outcome /\ run'[w].aged = run[w].aged
  <2>1. PICK r \in RunState : r = run[w]
    BY <1>1 DEF TypeOK
  <2>2. p[1] \in Target
    BY DEF Pair
  <2>3. [r EXCEPT !.late = @ \cup {p[1]}] \in RunState
    BY <2>2 DEF RunState
  <2>4. PICK q \in RunState : q = [r EXCEPT !.late = @ \cup {p[1]}]
    BY <2>3
  <2>5. q.pc = r.pc /\ q.channel = r.channel /\ q.todo = r.todo /\ q.was = r.was /\ q.outcome = r.outcome /\ q.aged = r.aged
    BY <2>4 DEF RunState
  <2>6. run'[w] = r \/ run'[w] = q
    BY <2>1, <2>4 DEF Elapse
  <2> QED BY <2>1, <2>5, <2>6
<1>7. run' = [w \in Worker |-> run'[w]]
  BY DEF Elapse
<1>8. run' \in [Worker -> RunState]
  BY <1>6, <1>7
<1>9. TypeOK'
  BY <1>1, <1>3, <1>4, <1>5, <1>6, <1>8 DEF TypeOK
<1>10. QED
  BY <1>4, <1>5, <1>6, <1>9, NothingMoves

-----------------------------------------------------------------------------
(* The steps of a run *)

\* A run that starts on a channel another run is on crowds it.
LEMMA BeginStep == ASSUME NEW w \in Worker, NEW c \in Channel, IInv, Begin(w, c) PROVE IInv'
<1>1. TypeOK
  BY DEF IInv
<1>2. /\ run' \in [Worker -> RunState] /\ \A v \in Worker \ {w} : run'[v] = run[v]
      /\ run[w].pc = "idle" /\ run'[w].pc = "look" /\ run'[w].channel = c
      /\ run'[w].todo = FirstOf(Limit, Eligible(c))
      /\ run'[w].was = Loaded(FirstOf(Limit, Eligible(c)), db)
      /\ run'[w].aged = {t \in Target : <<t, c>> \in aged}
  BY <1>1, BeginFields
<1>3. UNCHANGED <<db, tx, writer, dismissed, retired, inApp, gate, quiet, aged, sent, excused, acts, faults>>
  BY DEF Begin, storage, settings, time
<1>4. /\ crowded' \subseteq Channel /\ crowded \subseteq crowded'
      /\ (\E u \in Worker : run[u].channel = c) => c \in crowded'
  BY <1>1 DEF Begin, TypeOK
<1>5. TypeOK'
  BY <1>1, <1>2, <1>3, <1>4 DEF TypeOK
<1>6. OutcomeIsKnown' /\ IdleIsOff'
  BY <1>2, <1>3 DEF IInv, OutcomeIsKnown, IdleIsOff
<1>7. TxIsAhead'
  BY <1>2, <1>3 DEF IInv, TxIsAhead, IdleIsOff, TypeOK
<1>8. OneRun'
  BY <1>2, <1>4 DEF IInv, OneRun
<1>9. \A v \in Worker, p \in Pair : (HasInHand(run'[v], p) <=> HasInHand(run[v], p)) /\ (HasDelivered(run'[v], p) <=> HasDelivered(run[v], p))
  BY <1>2 DEF HasInHand, HasDelivered
<1>10. OneHand'
  BY <1>3, <1>9 DEF IInv, OneHand
<1>11. HandIsOpen'
  BY <1>3, <1>4, <1>9 DEF IInv, HandIsOpen
<1>12. SentIsAccounted'
  BY <1>3, <1>9 DEF IInv, SentIsAccounted
<1>13. SelectedOpen'
  <2>1. c = "webhook" => \A t \in FirstOf(Limit, Eligible(c)) : t \in Target /\ db.state[t] \in Undelivered
    BY DEF FirstOf, Eligible, ForWebhook, Target
  <2>2. c = "webhook" => \A t \in run'[w].todo : run'[w].was[t] \in Undelivered
    BY <1>2, <2>1 DEF Loaded
  <2> QED BY <1>2, <2>2 DEF IInv, SelectedOpen
<1>14. True(db)' /\ True(tx)'
  BY <1>3 DEF IInv, True
<1>15. AgedIsDelivered'
  BY <1>2, <1>3, <1>4 DEF IInv, AgedIsDelivered
<1>16. \A d \in Channel : Recent(d)' = Recent(d)
  BY <1>3 DEF Recent
<1>17. RoomIsLeft'
  BY <1>2, <1>4, <1>16 DEF IInv, RoomIsLeft, Adds
<1>18. CapHolds'
  BY <1>3, <1>4 DEF IInv, CapHolds
<1>19. QED
  BY <1>5, <1>6, <1>7, <1>8, <1>10, <1>11, <1>12, <1>13, <1>14, <1>15, <1>17, <1>18 DEF IInv

\* A run that goes on to other targets: it had none in hand, and has none.
LEMMA LookStep ==
  ASSUME NEW w \in Worker, IInv,
         UNCHANGED <<storage, settings, time, history, acts, faults>>,
         run' \in [Worker -> RunState], \A v \in Worker \ {w} : run'[v] = run[v],
         run[w].pc = "look", run'[w].pc = "look",
         run'[w].channel = run[w].channel, run'[w].aged = run[w].aged,
         run[w].channel = "webhook" => \A t \in run'[w].todo : run'[w].was[t] \in Undelivered
  PROVE  IInv'
<1>1. TypeOK
  BY DEF IInv
<1>2. UNCHANGED <<db, tx, writer, dismissed, retired, inApp, gate, quiet, aged, sent, excused, crowded, acts, faults>>
  BY DEF storage, settings, time, history
<1>3. TypeOK'
  BY <1>1, <1>2 DEF TypeOK
<1>4. OutcomeIsKnown' /\ IdleIsOff'
  BY <1>2 DEF IInv, OutcomeIsKnown, IdleIsOff
<1>5. \A v \in Worker : run'[v].channel = run[v].channel /\ run'[v].aged = run[v].aged
  OBVIOUS
<1>6. TxIsAhead' /\ OneRun'
  BY <1>2, <1>5 DEF IInv, TxIsAhead, OneRun, TypeOK
<1>7. \A v \in Worker, p \in Pair : (HasInHand(run'[v], p) <=> HasInHand(run[v], p)) /\ (HasDelivered(run'[v], p) <=> HasDelivered(run[v], p))
  BY DEF HasInHand, HasDelivered
<1>8. OneHand'
  BY <1>2, <1>7 DEF IInv, OneHand
<1>9. HandIsOpen'
  BY <1>2, <1>7 DEF IInv, HandIsOpen
<1>10. SentIsAccounted'
  BY <1>2, <1>7 DEF IInv, SentIsAccounted
<1>11. SelectedOpen'
  BY DEF IInv, SelectedOpen
<1>12. True(db)' /\ True(tx)'
  BY <1>2 DEF IInv, True
<1>13. AgedIsDelivered'
  BY <1>2, <1>5 DEF IInv, AgedIsDelivered
<1>14. \A d \in Channel : Recent(d)' = Recent(d)
  BY <1>2 DEF Recent
<1>15. RoomIsLeft'
  BY <1>2, <1>14 DEF IInv, RoomIsLeft, Adds
<1>16. CapHolds'
  BY <1>2 DEF IInv, CapHolds
<1>17. QED
  BY <1>3, <1>4, <1>6, <1>8, <1>9, <1>10, <1>11, <1>12, <1>13, <1>15, <1>16 DEF IInv

LEMMA SelectDigestsStep == ASSUME NEW w \in Worker, IInv, SelectDigests(w) PROVE IInv'
<1>1. TypeOK
  BY DEF IInv
<1>2. \A t \in EligibleDigests(w) : t \in Target /\ View(w).state[t] \in Undelivered
  BY DEF EligibleDigests, FirstOf, Target
<1>3. \A t \in EligibleDigests(w) : Loaded(EligibleDigests(w), View(w))[t] \in Undelivered
  BY <1>2 DEF Loaded
<1>4. UNCHANGED <<storage, settings, time, history, acts, faults>> /\ run[w].pc = "look"
  BY DEF SelectDigests
<1>5. QED
  BY <1>1, <1>3, <1>4, SelectDigestsFields, LookStep

LEMMA PassOverStep == ASSUME NEW w \in Worker, IInv, PassOver(w) PROVE IInv'
<1>1. TypeOK /\ Looking(w) /\ NextTarget(w) /\ run[w].pc = "look"
  BY DEF IInv, PassOver, Looking
<1>2. UNCHANGED <<storage, settings, time, history, acts, faults>>
  BY DEF PassOver
<1>3. run[w].channel = "webhook" => \A t \in run'[w].todo : run'[w].was[t] \in Undelivered
  <2>1. run[w].was \in [Target -> State] /\ run[w].todo \in SUBSET Target
    BY <1>1, Typed
  <2> QED BY <1>1, <2>1, NextTargetFields DEF IInv, SelectedOpen
<1>4. QED
  BY <1>1, <1>2, <1>3, NextTargetFields, LookStep

\* On a channel that is not crowded, a run sees all that there is.
LEMMA UncrowdedView ==
  ASSUME NEW w \in Worker, IInv, run[w].channel \in Channel \ crowded
  PROVE  \A t \in Target : View(w).log[<<t, run[w].channel>>].delivered = tx.log[<<t, run[w].channel>>].delivered
<1>1. CASE writer \in {Nil, w}
  BY <1>1, ViewIsTx DEF IInv
<1>2. CASE writer \notin {Nil, w}
  <2>1. writer \in Worker /\ run[writer].channel # run[w].channel
    BY <1>2 DEF IInv, TypeOK, OneRun
  <2>2. \A t \in Target : <<t, run[w].channel>> \in Pair /\ <<t, run[w].channel>>[2] = run[w].channel
    BY DEF Pair
  <2>3. \A t \in Target : db.log[<<t, run[w].channel>>].delivered = tx.log[<<t, run[w].channel>>].delivered
    BY <2>1, <2>2 DEF IInv, TxIsAhead
  <2> QED BY <1>2, <2>3 DEF View
<1>3. QED
  BY <1>1, <1>2

\* What a run decides about was not delivered, in all that it sees.  Another
\* run that knows better has it in hand.
LEMMA DecisionIsOpen ==
  ASSUME NEW w \in Worker, IInv, Decides(w),
         CurrentPair(w) \notin excused' \/ CurrentPair(w)[2] \notin crowded
  PROVE  tx.log[CurrentPair(w)].delivered = 0
<1> DEFINE p == CurrentPair(w)
<1>1. TypeOK /\ run[w].pc = "look" /\ run[w].todo # {}
  BY DEF IInv, Decides, Looking
<1>2. p \in Pair /\ p[2] = run[w].channel /\ run[w].channel \in Channel
  BY <1>1, CurrentIsOne
<1> HIDE DEF p
<1>3. View(w).log[p].delivered = 0
  <2>1. ~(View(w).log[p].delivered > 0)
    BY DEF Decides, NothingToDo, Log, p
  <2>2. View(w).log[p].delivered \in Nat
    BY <1>1, <1>2, Typed DEF View
  <2> QED BY <2>1, <2>2
<1>4. CASE writer \in {Nil, w}
  BY <1>1, <1>3, <1>4, ViewIsTx DEF p
<1>5. CASE writer \notin {Nil, w}
  <2>1. writer \in Worker \ {w} /\ writer \in Worker
    BY <1>1, <1>5 DEF TypeOK
  <2>2. db.log[p].delivered = 0
    BY <1>3, <1>5 DEF View
  <2>3. SUFFICES ASSUME tx.log[p].delivered # 0 PROVE FALSE
    BY DEF p
  <2>4. tx.log[p].delivered \in Nat
    BY <1>1, <1>2, Typed
  <2>5. run[writer].channel = p[2] /\ tx.log[p].delivered > db.log[p].delivered
    BY <1>2, <2>2, <2>3, <2>4 DEF IInv, TxIsAhead
  <2>6. Claims(writer, p)
    BY <2>5 DEF Claims
  <2>7. p \in excused'
    BY <2>1, <2>6 DEF Decides, p
  <2>8. p[2] \in crowded
    BY <1>2, <2>1, <2>5 DEF IInv, OneRun
  <2> QED BY <2>7, <2>8 DEF p
<1>6. QED
  BY <1>4, <1>5

\* A run decides to defer its target or to try it.
LEMMA DecideStep ==
  ASSUME NEW w \in Worker, IInv, Decides(w),
         UNCHANGED <<storage, settings, time, sent, crowded, faults>>, acts' = acts,
         run' \in [Worker -> RunState], \A v \in Worker \ {w} : run'[v] = run[v],
         run'[w].channel = run[w].channel, run'[w].todo = run[w].todo,
         run'[w].was = run[w].was, run'[w].aged = run[w].aged,
         \/ run'[w].pc = "record" /\ run'[w].outcome = "deferred"
         \/ run'[w].pc = "send" /\ ~Capped(w)
  PROVE  IInv'
<1>1. TypeOK /\ run[w].pc = "look" /\ run[w].todo # {}
  BY DEF IInv, Decides, Looking
<1>2. PICK p \in Pair : p = CurrentPair(w) /\ p = PairOf(run[w]) /\ p[2] = run[w].channel /\ p[1] = Current(w) /\ p = <<p[1], p[2]>>
  BY <1>1, CurrentIsOne
<1>3. UNCHANGED <<db, tx, writer, dismissed, retired, inApp, gate, quiet, aged, sent, crowded, acts, faults>>
  BY DEF storage, settings, time
<1>4. excused' \subseteq Pair /\ excused \subseteq excused'
  BY <1>1, <1>2 DEF Decides, TypeOK
<1>5. \A v \in Worker : run'[v].channel = run[v].channel /\ run'[v].aged = run[v].aged /\ run'[v].todo = run[v].todo /\ run'[v].was = run[v].was
  OBVIOUS
<1>6. TypeOK'
  BY <1>1, <1>3, <1>4, <1>5 DEF TypeOK
<1>7. OutcomeIsKnown' /\ IdleIsOff' /\ TxIsAhead' /\ OneRun'
  BY <1>1, <1>3, <1>5 DEF IInv, OutcomeIsKnown, IdleIsOff, TxIsAhead, OneRun, TypeOK
<1>8. \A v \in Worker \ {w}, q \in Pair : (HasInHand(run'[v], q) <=> HasInHand(run[v], q)) /\ (HasDelivered(run'[v], q) <=> HasDelivered(run[v], q))
  OBVIOUS
<1>9. \A q \in Pair : (HasInHand(run'[w], q) <=> q = p) /\ ~HasDelivered(run[w], q) /\ ~HasDelivered(run'[w], q) /\ ~HasInHand(run[w], q)
  BY <1>1, <1>2 DEF HasInHand, HasDelivered, PairOf
<1>10. \A v \in Worker \ {w} : HasInHand(run[v], p) => p \in excused'
  <2> SUFFICES ASSUME NEW v \in Worker \ {w}, HasInHand(run[v], p) PROVE p \in excused'
    OBVIOUS
  <2>1. run[v].pc \in {"send", "record"} /\ p = <<Oldest(run[v].todo), run[v].channel>>
    BY DEF HasInHand, PairOf
  <2>2. Claims(v, p)
    BY <2>1 DEF Claims, Current
  <2> QED BY <1>2, <2>2 DEF Decides
<1>11. OneHand'
  BY <1>4, <1>8, <1>9, <1>10 DEF IInv, OneHand
<1>12. p \notin excused' \/ p[2] \notin crowded => tx.log[p].delivered = 0
  BY <1>2, DecisionIsOpen
<1>13. HandIsOpen'
  BY <1>3, <1>4, <1>8, <1>9, <1>12 DEF IInv, HandIsOpen
<1>14. SentIsAccounted'
  BY <1>3, <1>4, <1>8, <1>9 DEF IInv, SentIsAccounted
<1>15. SelectedOpen'
  BY <1>5 DEF IInv, SelectedOpen
<1>16. True(db)' /\ True(tx)'
  BY <1>3, <1>4 DEF IInv, True
<1>17. AgedIsDelivered'
  BY <1>3, <1>5 DEF IInv, AgedIsDelivered
<1>18. \A c \in Channel : Recent(c)' = Recent(c)
  BY <1>3 DEF Recent
<1>19. ~Capped(w) /\ run[w].channel \in Channel \ crowded => Cardinality(Recent(run[w].channel)) < PerHour
  <2> SUFFICES ASSUME ~Capped(w), run[w].channel \in Channel \ crowded
               PROVE  Cardinality(Recent(run[w].channel)) < PerHour
    OBVIOUS
  <2>1. PICK S \in SUBSET Target : S = {t \in Target : View(w).log[<<t, run[w].channel>>].delivered > 0 /\ t \notin run[w].aged}
    OBVIOUS
  <2>2. ~(Cardinality(S) >= PerHour)
    BY <2>1 DEF Capped
  <2>3. Recent(run[w].channel) \in SUBSET Target /\ Recent(run[w].channel) \subseteq S
    BY <2>1, UncrowdedView DEF Recent, IInv, AgedIsDelivered
  <2> QED BY <2>2, <2>3, FewerTargets, TargetsAreFinite, LimitAssumption
<1>20. RoomIsLeft'
  BY <1>3, <1>5, <1>18, <1>19 DEF IInv, RoomIsLeft, Adds
<1>21. CapHolds'
  BY <1>3 DEF IInv, CapHolds
<1>22. QED
  BY <1>6, <1>7, <1>11, <1>13, <1>14, <1>15, <1>16, <1>17, <1>20, <1>21 DEF IInv

LEMMA DeferStep == ASSUME NEW w \in Worker, IInv, Defer(w) PROVE IInv'
<1>1. TypeOK /\ Decides(w)
  BY DEF IInv, Defer
<1>2. UNCHANGED <<storage, settings, time, sent, crowded, acts, faults>>
  BY DEF Defer
<1>3. QED
  BY <1>1, <1>2, DeferFields, DecideStep

LEMMA AttemptStep == ASSUME NEW w \in Worker, IInv, Attempt(w) PROVE IInv'
<1>1. TypeOK /\ Decides(w) /\ ~Capped(w)
  BY DEF IInv, Attempt
<1>2. UNCHANGED <<storage, settings, time, sent, crowded, acts, faults>>
  BY DEF Attempt
<1>3. QED
  BY <1>1, <1>2, AttemptFields, DecideStep

\* An adapter answers.  The target was in no other hand and not delivered, so
\* this is its first message; that its record is on the way is what is left
\* to keep.
LEMMA SendStep == ASSUME NEW w \in Worker, NEW a \in WebhookAnswers, IInv, Send(w, a) PROVE IInv'
<1>1. TypeOK /\ run[w].pc = "send" /\ run[w].todo # {}
  BY DEF IInv, TypeOK, Send
<1>2. PICK p \in Pair : p = CurrentPair(w) /\ p = PairOf(run[w])
  BY <1>1, CurrentIsOne
<1>3. UNCHANGED <<db, tx, writer, dismissed, retired, inApp, gate, quiet, aged, crowded, acts>>
  BY DEF Send, storage, settings, time
<1>4. /\ run' \in [Worker -> RunState] /\ \A v \in Worker \ {w} : run'[v] = run[v]
      /\ run'[w].pc = "record" /\ run'[w].outcome = a.outcome /\ run'[w].channel = run[w].channel
      /\ run'[w].todo = run[w].todo /\ run'[w].was = run[w].was /\ run'[w].aged = run[w].aged
  BY <1>1, SendFields
<1>5. a.outcome \in {"delivered", "again", "refused"} /\ a.arrived \in BOOLEAN
  BY DEF WebhookAnswers
<1>6. /\ sent' = [sent EXCEPT ![p] = IF a.arrived THEN @ + 1 ELSE @]
      /\ excused' \subseteq Pair /\ excused \subseteq excused'
      /\ a.arrived /\ a.outcome # "delivered" => p \in excused'
  BY <1>1, <1>2 DEF Send, TypeOK
<1>7. faults' \in Nat
  BY <1>1 DEF Send, Fault, TypeOK
<1>8. TypeOK'
  <2>1. sent' \in [Pair -> Nat]
    BY <1>1, <1>6 DEF TypeOK
  <2> QED BY <1>1, <1>3, <1>4, <1>6, <1>7, <2>1 DEF TypeOK
<1>9. \A v \in Worker : run'[v].channel = run[v].channel /\ run'[v].aged = run[v].aged /\ run'[v].todo = run[v].todo /\ run'[v].was = run[v].was
  BY <1>4
<1>10. OutcomeIsKnown' /\ IdleIsOff' /\ TxIsAhead' /\ OneRun'
  BY <1>1, <1>3, <1>4, <1>5, <1>9 DEF IInv, OutcomeIsKnown, IdleIsOff, TxIsAhead, OneRun, TypeOK
<1>11. \A v \in Worker, q \in Pair : HasInHand(run'[v], q) <=> HasInHand(run[v], q)
  BY <1>1, <1>4 DEF HasInHand, PairOf
<1>12. \A v \in Worker \ {w}, q \in Pair : HasDelivered(run'[v], q) <=> HasDelivered(run[v], q)
  BY <1>4
<1>13. \A q \in Pair : ~HasDelivered(run[w], q)
  BY <1>1 DEF HasDelivered
<1>14. HasInHand(run[w], p) /\ (a.outcome = "delivered" => HasDelivered(run'[w], p))
  BY <1>1, <1>2, <1>4 DEF HasInHand, HasDelivered, PairOf
<1>15. OneHand'
  BY <1>6, <1>11 DEF IInv, OneHand
<1>16. HandIsOpen'
  BY <1>3, <1>6, <1>11 DEF IInv, HandIsOpen
<1>17. SentIsAccounted'
  <2>1. ASSUME NEW q \in Pair \ excused', q # p
        PROVE  sent'[q] <= 1 /\ (sent'[q] > 0 => tx'.log[q].delivered > 0 \/ \E v \in Worker : HasDelivered(run'[v], q))
    <3>1. sent'[q] = sent[q] /\ q \notin excused
      BY <1>1, <1>6, <2>1 DEF TypeOK
    <3> QED BY <1>3, <1>12, <1>13, <3>1 DEF IInv, SentIsAccounted
  <2>2. ASSUME p \notin excused'
        PROVE  sent'[p] <= 1 /\ (sent'[p] > 0 => \E v \in Worker : HasDelivered(run'[v], p))
    <3>1. p \notin excused /\ tx.log[p].delivered = 0
      BY <1>6, <1>14, <2>2 DEF IInv, HandIsOpen
    <3>2. \A v \in Worker : ~HasDelivered(run[v], p)
      <4>1. \A v \in Worker : HasDelivered(run[v], p) => HasInHand(run[v], p)
        BY DEF HasDelivered, HasInHand
      <4> QED BY <1>13, <1>14, <3>1, <4>1 DEF IInv, OneHand
    <3>3. sent[p] = 0
      BY <1>1, <3>1, <3>2 DEF IInv, SentIsAccounted, TypeOK
    <3>4. sent'[p] = IF a.arrived THEN 1 ELSE 0
      BY <1>1, <1>6, <3>3 DEF TypeOK
    <3> QED BY <1>5, <1>6, <1>14, <2>2, <3>4
  <2> QED BY <2>1, <2>2 DEF SentIsAccounted
<1>18. SelectedOpen'
  BY <1>9 DEF IInv, SelectedOpen
<1>19. True(db)' /\ True(tx)'
  BY <1>3, <1>6 DEF IInv, True
<1>20. AgedIsDelivered'
  BY <1>3, <1>9 DEF IInv, AgedIsDelivered
<1>21. \A c \in Channel : Recent(c)' = Recent(c)
  BY <1>3 DEF Recent
<1>22. RoomIsLeft'
  <2>1. \A v \in Worker : Adds(run'[v]) => Adds(run[v])
    BY <1>1, <1>4 DEF Adds
  <2> QED BY <1>3, <1>9, <1>21, <2>1 DEF IInv, RoomIsLeft
<1>23. CapHolds'
  BY <1>3 DEF IInv, CapHolds
<1>24. QED
  BY <1>8, <1>10, <1>15, <1>16, <1>17, <1>18, <1>19, <1>20, <1>22, <1>23 DEF IInv

\* A run that ends, with its work committed or rolled back.
LEMMA Ended ==
  ASSUME NEW w \in Worker, TypeOK, run' = [run EXCEPT ![w] = Idle]
  PROVE  /\ run' \in [Worker -> RunState] /\ \A v \in Worker \ {w} : run'[v] = run[v]
         /\ run'[w].pc = "idle" /\ run'[w].channel = Nil
         /\ \A q \in Pair : ~HasInHand(run'[w], q) /\ ~HasDelivered(run'[w], q)
         /\ ~Adds(run'[w])
  BY IdleIsARun DEF TypeOK, Idle, HasInHand, HasDelivered, Adds

\* A run commits: what was uncommitted is what is on record now.
LEMMA CommitStep == ASSUME NEW w \in Worker, IInv, Commit(w) PROVE IInv'
<1>1. TypeOK /\ run[w].pc = "look"
  BY DEF IInv, Commit
<1>2. UNCHANGED <<tx, dismissed, retired, inApp, gate, quiet, aged, sent, excused, crowded, acts, faults>>
  BY DEF Commit, settings, time, history
<1>3. /\ run' \in [Worker -> RunState] /\ \A v \in Worker \ {w} : run'[v] = run[v]
      /\ run'[w].pc = "idle" /\ run'[w].channel = Nil
      /\ \A q \in Pair : ~HasInHand(run'[w], q) /\ ~HasDelivered(run'[w], q)
      /\ ~Adds(run'[w])
  BY <1>1, Ended DEF Commit
<1>4. \/ writer = w /\ db' = tx /\ writer' = Nil
      \/ writer # w /\ db' = db /\ writer' = writer
  BY DEF Commit
<1>5. TypeOK'
  BY <1>1, <1>2, <1>3, <1>4 DEF TypeOK
<1>6. OutcomeIsKnown' /\ OneRun'
  BY <1>2, <1>3, NilAssumption DEF IInv, OutcomeIsKnown, OneRun
<1>7. IdleIsOff'
  BY <1>3, <1>4, NilAssumption DEF IInv, IdleIsOff
<1>8. TxIsAhead'
  <2>1. CASE writer = w
    BY <1>1, <1>2, <1>4, <2>1, Typed DEF TxIsAhead
  <2>2. CASE writer # w
    BY <1>1, <1>2, <1>3, <1>4, <2>2 DEF IInv, TxIsAhead, TypeOK
  <2> QED BY <2>1, <2>2
<1>9. \A q \in Pair : ~HasInHand(run[w], q) /\ ~HasDelivered(run[w], q)
  BY <1>1 DEF HasInHand, HasDelivered
<1>10. OneHand'
  BY <1>2, <1>3 DEF IInv, OneHand
<1>11. HandIsOpen'
  BY <1>2, <1>3 DEF IInv, HandIsOpen
<1>12. SentIsAccounted'
  BY <1>2, <1>3, <1>9 DEF IInv, SentIsAccounted
<1>13. SelectedOpen'
  BY <1>3, NilAssumption, ChannelAssumption DEF IInv, SelectedOpen
<1>14. True(db)' /\ True(tx)'
  BY <1>2, <1>4 DEF IInv, True
<1>15. \A q \in Pair : db.log[q].delivered > 0 => db'.log[q].delivered > 0
  BY <1>1, <1>4, Typed DEF IInv, TxIsAhead
<1>16. AgedIsDelivered'
  BY <1>1, <1>2, <1>3, <1>15, NilAssumption DEF IInv, AgedIsDelivered, TypeOK
<1>17. \A c \in Channel : Recent(c)' = Recent(c)
  BY <1>2 DEF Recent
<1>18. RoomIsLeft'
  BY <1>2, <1>3, <1>17 DEF IInv, RoomIsLeft
<1>19. CapHolds'
  BY <1>2 DEF IInv, CapHolds
<1>20. QED
  BY <1>5, <1>6, <1>7, <1>8, <1>10, <1>11, <1>12, <1>13, <1>14, <1>16, <1>18, <1>19 DEF IInv

\* A run ends without a commit, and what it did not put on record is excused.
LEMMA AbortStep == ASSUME NEW w \in Worker, IInv, Abort(w) PROVE IInv'
<1>1. TypeOK
  BY DEF IInv
<1>2. UNCHANGED <<db, dismissed, retired, inApp, gate, quiet, aged, sent, crowded, acts>>
  BY DEF Abort, settings, time
<1>3. /\ run' \in [Worker -> RunState] /\ \A v \in Worker \ {w} : run'[v] = run[v]
      /\ run'[w].pc = "idle" /\ run'[w].channel = Nil
      /\ \A q \in Pair : ~HasInHand(run'[w], q) /\ ~HasDelivered(run'[w], q)
      /\ ~Adds(run'[w])
  BY <1>1, Ended DEF Abort
<1>4. \/ writer = w /\ tx' = db /\ writer' = Nil
      \/ writer # w /\ tx' = tx /\ writer' = writer
  BY DEF Abort, RollBack
<1>5. excused' = excused \cup Unrecorded(w) /\ faults' \in Nat
  BY <1>1 DEF Abort, Fault, TypeOK
<1>6. Unrecorded(w) \subseteq Pair
  BY DEF Unrecorded
<1>7. TypeOK'
  BY <1>1, <1>2, <1>3, <1>4, <1>5, <1>6 DEF TypeOK
<1>8. OutcomeIsKnown' /\ OneRun'
  BY <1>2, <1>3, NilAssumption DEF IInv, OutcomeIsKnown, OneRun
<1>9. IdleIsOff'
  BY <1>3, <1>4, NilAssumption DEF IInv, IdleIsOff
<1>10. TxIsAhead'
  <2>1. CASE writer = w
    BY <1>1, <1>2, <1>4, <2>1, Typed DEF TxIsAhead
  <2>2. CASE writer # w
    BY <1>1, <1>2, <1>3, <1>4, <2>2 DEF IInv, TxIsAhead, TypeOK
  <2> QED BY <2>1, <2>2
<1>11. \A q \in Pair : tx'.log[q].delivered <= tx.log[q].delivered /\ tx'.log[q].delivered \in Nat /\ tx.log[q].delivered \in Nat
  BY <1>1, <1>4, Typed DEF IInv, TxIsAhead
<1>12. OneHand'
  BY <1>3, <1>5 DEF IInv, OneHand
<1>13. HandIsOpen'
  <2>1. \A v \in Worker, q \in Pair : HasInHand(run'[v], q) => v # w /\ HasInHand(run[v], q)
    BY <1>3
  <2>2. \A q \in Pair : tx.log[q].delivered = 0 => tx'.log[q].delivered = 0
    BY <1>11
  <2> QED BY <1>2, <1>5, <2>1, <2>2 DEF IInv, HandIsOpen
<1>14. SentIsAccounted'
  <2> SUFFICES ASSUME NEW q \in Pair \ excused'
               PROVE  sent[q] <= 1 /\ (sent[q] > 0 => tx'.log[q].delivered > 0 \/ \E v \in Worker : HasDelivered(run'[v], q))
    BY <1>2 DEF SentIsAccounted
  <2>1. q \in Pair /\ q \notin excused /\ q \notin Unrecorded(w)
    BY <1>5
  <2>2. sent[q] <= 1 /\ (sent[q] > 0 => tx.log[q].delivered > 0 \/ \E v \in Worker : HasDelivered(run[v], q))
    BY <2>1 DEF IInv, SentIsAccounted
  <2>3. tx.log[q].delivered > 0 => tx'.log[q].delivered > 0
    <3>1. writer = w => ~(tx.log[q].delivered > db.log[q].delivered)
      BY <2>1 DEF Unrecorded
    <3> QED BY <1>1, <1>4, <2>1, <3>1, Typed
  <2>4. ~HasDelivered(run[w], q)
    <3>1. HasDelivered(run[w], q) => run[w].pc = "record" /\ run[w].outcome = "delivered" /\ q = CurrentPair(w)
      BY DEF HasDelivered, PairOf, CurrentPair, Current
    <3> QED BY <2>1, <3>1 DEF Unrecorded
  <2> QED BY <1>3, <2>2, <2>3, <2>4
<1>15. SelectedOpen'
  BY <1>3, NilAssumption, ChannelAssumption DEF IInv, SelectedOpen
<1>16. True(db)' /\ True(tx)'
  BY <1>2, <1>4, <1>5 DEF IInv, True
<1>17. AgedIsDelivered'
  BY <1>1, <1>2, <1>3, NilAssumption DEF IInv, AgedIsDelivered, TypeOK
<1>18. \A c \in Channel : Recent(c) \in SUBSET Target /\ Recent(c)' \in SUBSET Target /\ Recent(c)' \subseteq Recent(c)
  <2>1. \A q \in Pair : tx'.log[q].delivered > 0 => tx.log[q].delivered > 0
    BY <1>11
  <2> QED BY <1>2, <2>1 DEF Recent, Pair
<1>19. \A c \in Channel : /\ Cardinality(Recent(c)') <= Cardinality(Recent(c))
                          /\ Cardinality(Recent(c)) \in Nat /\ Cardinality(Recent(c)') \in Nat
  BY <1>18, FewerTargets, TargetsAreFinite
<1>20. RoomIsLeft'
  <2>1. \A v \in Worker, c \in Channel \ crowded :
          run'[v].channel = c /\ Adds(run'[v]) => Cardinality(Recent(c)) < PerHour
    BY <1>3 DEF IInv, RoomIsLeft
  <2>2. \A v \in Worker, c \in Channel \ crowded :
          run'[v].channel = c /\ Adds(run'[v]) => Cardinality(Recent(c)') < PerHour
    BY <1>19, <2>1, LimitAssumption
  <2> QED BY <1>2, <2>2 DEF RoomIsLeft, Adds
<1>21. \A c \in Channel \ crowded : Cardinality(Recent(c)) <= PerHour
  BY DEF IInv, CapHolds, Recent
<1>22. \A c \in Channel \ crowded' : Cardinality(Recent(c)') <= PerHour
  BY <1>2, <1>19, <1>21, LimitAssumption
<1>23. CapHolds'
  BY <1>22 DEF CapHolds, Recent
<1>24. QED
  BY <1>7, <1>8, <1>9, <1>10, <1>12, <1>13, <1>14, <1>15, <1>16, <1>17, <1>20, <1>23 DEF IInv

\* What a run writes: one more attempt at its target, delivered or not, and a
\* state that only the webhook changes.
LEMMA WrittenFields ==
  ASSUME NEW w \in Worker, TypeOK, run[w].pc = "record", run[w].outcome # "none", writer \in {Nil, w},
         NEW p \in Pair, p = CurrentPair(w), NEW t \in Target, p[1] = t
  PROVE  /\ Written(w) \in Database
         /\ \A q \in Pair \ {p} : Written(w).log[q] = tx.log[q]
         /\ run[w].outcome = "delivered" => Written(w).log[p].delivered = tx.log[p].delivered + 1
         /\ run[w].outcome # "delivered" => Written(w).log[p].delivered = tx.log[p].delivered
         /\ \A u \in Target \ {t} : Written(w).state[u] = tx.state[u]
         /\ \/ Written(w).state[t] = tx.state[t]
               /\ (run[w].channel = "windows_desktop" \/ Status(run[w].outcome) = run[w].was[t])
            \/ run[w].channel # "windows_desktop" /\ Written(w).state[t] = Status(run[w].outcome)
<1>1. View(w) = tx
  BY ViewIsTx
<1>2. PICK d \in Database : d = tx
  BY DEF TypeOK
<1>3. run[w].outcome \in {"delivered", "again", "refused", "deferred"} /\ run[w].seen \in Nat
  BY DEF TypeOK, RunState, Outcome
<1>4. PICK x \in {"delivered", "failed", "deferred"} :
        x = Status(run[w].outcome) /\ (x = "delivered" <=> run[w].outcome = "delivered")
  BY <1>3 DEF Status
<1>5. PICK y \in {"none", "waiting", "due"} : y = RetryAfter(w)
  BY DEF RetryAfter
<1>6. PICK f \in [Pair -> Attempts] : f = d.log
  BY DEF Database
<1>7. f[p].n \in Nat /\ f[p].delivered \in Nat
  BY DEF Attempts
<1>8. PICK k \in Nat : k = f[p].delivered + (IF x = "delivered" THEN 1 ELSE 0)
  BY <1>7
<1>9. PICK b \in Attempts : b = [n |-> f[p].n + 1, delivered |-> k, last |-> x, retry |-> y]
  <2>1. PICK m \in Nat : m = f[p].n + 1
    BY <1>7
  <2>2. [n |-> m, delivered |-> k, last |-> x, retry |-> y] \in Attempts
    BY DEF Attempts
  <2> QED BY <2>1, <2>2
<1>10. PICK g \in [Pair -> Attempts] : g = [f EXCEPT ![p] = b]
  OBVIOUS
<1>11. g = [View(w).log EXCEPT ![p] = [n |-> @.n + 1, delivered |-> @.delivered + (IF x = "delivered" THEN 1 ELSE 0), last |-> x, retry |-> y]]
  BY <1>1, <1>2, <1>6, <1>8, <1>9, <1>10
<1>12. PICK h \in [Target -> State] : h = d.state
  BY DEF Database
<1>13. x \in State
  BY DEF State
<1>14. PICK c \in BOOLEAN : c <=> (run[w].channel # "windows_desktop" /\ x # run[w].was[t])
  OBVIOUS
<1>15. PICK e \in [Target -> State] : e = IF c THEN [h EXCEPT ![t] = x] ELSE h
  BY <1>13
<1>16. e = IF run[w].channel # "windows_desktop" /\ x # run[w].was[p[1]] THEN [View(w).state EXCEPT ![p[1]] = x] ELSE View(w).state
  BY <1>1, <1>2, <1>12, <1>14, <1>15
<1>17. Written(w) = [state |-> e, log |-> g]
  BY <1>4, <1>5, <1>11, <1>16 DEF Written
<1>18. Written(w) \in Database /\ Written(w).state = e /\ Written(w).log = g
  BY <1>17 DEF Database
<1>19. /\ \A q \in Pair \ {p} : g[q] = f[q]
       /\ g[p].delivered = k
  BY <1>9, <1>10 DEF Attempts
<1>20. /\ x = "delivered" => k = f[p].delivered + 1
       /\ x # "delivered" => k = f[p].delivered
  BY <1>7, <1>8
<1>21. /\ \A u \in Target \ {t} : e[u] = h[u]
       /\ \/ ~c /\ e[t] = h[t]
          \/ c /\ e[t] = x
  BY <1>15
<1>22. QED
  BY <1>2, <1>4, <1>6, <1>12, <1>14, <1>18, <1>19, <1>20, <1>21

\* A run writes its attempt.
LEMMA RecordStep == ASSUME NEW w \in Worker, IInv, Record(w) PROVE IInv'
<1>1. TypeOK /\ run[w].pc = "record" /\ run[w].todo # {} /\ writer \in {Nil, w} /\ run[w].outcome # "none" /\ NextTarget(w)
  BY DEF IInv, TypeOK, Record, OutcomeIsKnown
<1>2. PICK t \in Target, p \in Pair :
        /\ t = Current(w) /\ t \in run[w].todo /\ p = CurrentPair(w) /\ p = PairOf(run[w])
        /\ p = <<t, run[w].channel>> /\ p[1] = t /\ p[2] = run[w].channel /\ run[w].channel \in Channel
  BY <1>1, CurrentIsOne
<1>3. UNCHANGED <<db, dismissed, retired, inApp, gate, quiet, sent, excused, crowded, acts, faults>>
  BY DEF Record, settings, history
<1>4. /\ run' \in [Worker -> RunState] /\ \A v \in Worker \ {w} : run'[v] = run[v]
      /\ run'[w].pc = "look" /\ run'[w].channel = run[w].channel
      /\ run'[w].todo = run[w].todo \ {t} /\ run'[w].aged = run[w].aged
      /\ run'[w].was = [run[w].was EXCEPT ![t] = "absent"]
  BY <1>1, <1>2, NextTargetFields
<1>5. /\ tx' \in Database
      /\ \A q \in Pair \ {p} : tx'.log[q] = tx.log[q]
      /\ run[w].outcome = "delivered" => tx'.log[p].delivered = tx.log[p].delivered + 1
      /\ run[w].outcome # "delivered" => tx'.log[p].delivered = tx.log[p].delivered
      /\ \A u \in Target \ {t} : tx'.state[u] = tx.state[u]
      /\ \/ tx'.state[t] = tx.state[t]
            /\ (run[w].channel = "windows_desktop" \/ Status(run[w].outcome) = run[w].was[t])
         \/ run[w].channel # "windows_desktop" /\ tx'.state[t] = Status(run[w].outcome)
  BY <1>1, <1>2, WrittenFields DEF Record
<1>6. writer' = w /\ aged' = IF run[w].outcome = "delivered" THEN aged \ {p} ELSE aged
  BY <1>2 DEF Record
<1>7. TypeOK'
  BY <1>1, <1>3, <1>4, <1>5, <1>6, NilAssumption DEF TypeOK
<1>8. \A v \in Worker : run'[v].channel = run[v].channel /\ run'[v].aged = run[v].aged
  BY <1>4
<1>9. OutcomeIsKnown' /\ IdleIsOff' /\ OneRun'
  BY <1>3, <1>4, <1>6, <1>8 DEF IInv, OutcomeIsKnown, IdleIsOff, OneRun
<1>10. /\ \A q \in Pair : tx.log[q].delivered <= tx'.log[q].delivered
       /\ \A q \in Pair \ {p} : tx'.log[q].delivered = tx.log[q].delivered
       /\ \A q \in Pair : tx.log[q].delivered \in Nat /\ tx'.log[q].delivered \in Nat /\ db.log[q].delivered \in Nat
  BY <1>1, <1>5, Typed
<1>11. TxIsAhead'
  <2> SUFFICES ASSUME NEW q \in Pair
               PROVE  /\ db.log[q].delivered <= tx'.log[q].delivered
                      /\ db.log[q].delivered # tx'.log[q].delivered => run[w].channel = q[2]
    BY <1>1, <1>3, <1>6, <1>8, NilAssumption DEF TxIsAhead
  <2>1. db.log[q].delivered <= tx.log[q].delivered
    BY DEF IInv, TxIsAhead
  <2>2. CASE q = p
    BY <1>2, <1>10, <2>1, <2>2
  <2>3. CASE q # p
    <3>1. db.log[q].delivered # tx.log[q].delivered => writer = w /\ run[w].channel = q[2]
      BY <1>1 DEF IInv, TxIsAhead
    <3> QED BY <1>10, <2>1, <2>3, <3>1
  <2> QED BY <2>2, <2>3
<1>12. HasInHand(run[w], p)
  BY <1>1, <1>2 DEF HasInHand
<1>13. \A q \in Pair : ~HasInHand(run'[w], q) /\ ~HasDelivered(run'[w], q)
  BY <1>4 DEF HasInHand, HasDelivered
<1>14. OneHand'
  BY <1>3, <1>4, <1>13 DEF IInv, OneHand
<1>15. HandIsOpen'
  <2> SUFFICES ASSUME NEW v \in Worker, NEW q \in Pair, HasInHand(run'[v], q), q \notin excused \/ q[2] \notin crowded
               PROVE  tx'.log[q].delivered = 0
    BY <1>3 DEF HandIsOpen
  <2>1. v # w /\ HasInHand(run[v], q)
    BY <1>4, <1>13
  <2>2. q # p
    <3>1. q = p => run[v].channel = q[2]
      BY <2>1 DEF HasInHand, PairOf
    <3>2. q = p => q[2] \in Channel
      BY <1>2
    <3> QED BY <1>2, <1>12, <2>1, <3>1, <3>2 DEF IInv, OneHand, OneRun
  <2>3. tx.log[q].delivered = 0
    BY <2>1 DEF IInv, HandIsOpen
  <2> QED BY <1>10, <2>2, <2>3
<1>16. SentIsAccounted'
  <2> SUFFICES ASSUME NEW q \in Pair \ excused
               PROVE  sent[q] <= 1 /\ (sent[q] > 0 => tx'.log[q].delivered > 0 \/ \E v \in Worker : HasDelivered(run'[v], q))
    BY <1>3 DEF SentIsAccounted
  <2>1. sent[q] <= 1 /\ (sent[q] > 0 => tx.log[q].delivered > 0 \/ \E v \in Worker : HasDelivered(run[v], q))
    BY DEF IInv, SentIsAccounted
  <2>2. tx.log[q].delivered > 0 => tx'.log[q].delivered > 0
    BY <1>10
  <2>3. HasDelivered(run[w], q) => tx'.log[q].delivered > 0
    <3>1. HasDelivered(run[w], q) => q = p /\ run[w].outcome = "delivered"
      BY <1>2 DEF HasDelivered
    <3> QED BY <1>5, <1>10, <3>1
  <2> QED BY <1>4, <2>1, <2>2, <2>3
<1>17. SelectedOpen'
  <2>1. run[w].was \in [Target -> State] /\ run[w].todo \in SUBSET Target
    BY <1>1, Typed
  <2>2. \A u \in run'[w].todo : u \in run[w].todo /\ run'[w].was[u] = run[w].was[u]
    BY <1>4, <2>1
  <2> QED BY <1>4, <2>2 DEF IInv, SelectedOpen
<1>18. True(tx)' /\ True(db)'
  <2>1. True(db)'
    BY <1>3 DEF IInv, True
  <2>2. ASSUME NEW u \in Target, u # t
        PROVE  tx'.state[u] = tx.state[u] /\ tx'.log[<<u, "webhook">>].delivered = tx.log[<<u, "webhook">>].delivered
    BY <1>2, <1>5, <1>10, <2>2, ChannelAssumption DEF Pair
  <2>3. /\ tx'.state[t] = "delivered" => tx'.log[<<t, "webhook">>].delivered > 0 \/ t \in inApp
        /\ tx'.log[<<t, "webhook">>].delivered > 0 => tx'.state[t] = "delivered" \/ <<t, "webhook">> \in excused
    <3>1. /\ tx.state[t] = "delivered" => tx.log[<<t, "webhook">>].delivered > 0 \/ t \in inApp
          /\ tx.log[<<t, "webhook">>].delivered > 0 => tx.state[t] = "delivered" \/ <<t, "webhook">> \in excused
      BY DEF IInv, True
    <3>2. <<t, "webhook">> \in Pair
      BY ChannelAssumption DEF Pair
    <3>3. CASE run[w].channel = "windows_desktop"
      <4>1. tx'.state[t] = tx.state[t] /\ <<t, "webhook">> # p
        BY <1>2, <1>5, <3>3
      <4> QED BY <1>10, <3>1, <3>2, <4>1
    <3>4. CASE run[w].channel = "webhook"
      <4>1. run[w].was[t] \in {"in_app", "deferred", "failed"}
        BY <1>2, <3>4 DEF IInv, SelectedOpen, Undelivered
      <4>2. p = <<t, "webhook">>
        BY <1>2, <3>4
      <4>3. CASE run[w].outcome = "delivered"
        <5>1. Status(run[w].outcome) = "delivered"
          BY <4>3 DEF Status
        <5>2. tx'.state[t] = "delivered" /\ tx'.log[p].delivered > 0
          BY <1>5, <1>10, <3>4, <4>1, <4>3, <5>1
        <5> QED BY <4>2, <5>2
      <4>4. CASE run[w].outcome # "delivered"
        <5>1. Status(run[w].outcome) # "delivered" /\ tx'.log[p].delivered = tx.log[p].delivered
          BY <1>5, <4>4 DEF Status
        <5>2. p \notin excused => tx.log[p].delivered = 0
          BY <1>12 DEF IInv, HandIsOpen
        <5> QED BY <1>5, <3>1, <4>2, <5>1, <5>2
      <4> QED BY <4>3, <4>4
    <3> QED BY <1>2, <3>3, <3>4, ChannelAssumption
  <2>4. True(tx)'
    BY <1>3, <2>2, <2>3 DEF IInv, True
  <2> QED BY <2>1, <2>4
<1>19. AgedIsDelivered'
  <2>1. p[2] \notin crowded => p \notin aged
    <3>1. p \in aged => db.log[p].delivered > 0
      BY DEF IInv, AgedIsDelivered
    <3>2. p[2] \notin crowded => tx.log[p].delivered = 0
      BY <1>12 DEF IInv, HandIsOpen
    <3> QED BY <1>10, <3>1, <3>2 DEF IInv, TxIsAhead
  <2>2. \A v \in Worker : run[v].channel \in Channel \ crowded =>
          \A u \in run[v].aged : <<u, run[v].channel>> \in aged'
    <3> SUFFICES ASSUME NEW v \in Worker, run[v].channel \in Channel \ crowded, NEW u \in run[v].aged
                 PROVE  <<u, run[v].channel>> \in aged'
      OBVIOUS
    <3>1. <<u, run[v].channel>> \in aged
      BY DEF IInv, AgedIsDelivered
    <3>2. <<u, run[v].channel>> # p
      BY <1>2, <2>1, <3>1
    <3> QED BY <1>6, <3>1, <3>2
  <2>3. \A q \in aged' : db.log[q].delivered > 0
    BY <1>6 DEF IInv, AgedIsDelivered
  <2> QED BY <1>3, <1>8, <2>2, <2>3 DEF AgedIsDelivered
<1>20. \A c \in Channel : c # run[w].channel => Recent(c)' = Recent(c)
  BY <1>2, <1>6, <1>10 DEF Recent, Pair
<1>21. RoomIsLeft'
  <2>1. \A v \in Worker, c \in Channel \ crowded :
          run'[v].channel = c /\ Adds(run'[v]) => c # run[w].channel /\ Cardinality(Recent(c)) < PerHour
    <3>1. \A v \in Worker : Adds(run'[v]) => v # w /\ Adds(run[v])
      BY <1>4 DEF Adds
    <3> QED BY <1>8, <3>1 DEF IInv, RoomIsLeft, OneRun
  <2>2. \A v \in Worker, c \in Channel \ crowded :
          run'[v].channel = c /\ Adds(run'[v]) => Cardinality(Recent(c)') < PerHour
    BY <1>20, <2>1
  <2> QED BY <1>3, <2>2 DEF RoomIsLeft, Adds
<1>22. CapHolds'
  <2>1. \A c \in Channel \ crowded : Cardinality(Recent(c)) <= PerHour
    BY DEF IInv, CapHolds, Recent
  <2>2. ASSUME NEW c \in Channel \ crowded, c = run[w].channel
        PROVE  Cardinality(Recent(c)') <= PerHour
    <3>1. c = run[w].channel /\ c \notin crowded
      BY <2>2
    <3>2. Recent(c) \in SUBSET Target /\ Recent(c)' \in SUBSET Target
      BY DEF Recent
    <3>3. CASE run[w].outcome = "delivered"
      <4>1. Cardinality(Recent(c)) < PerHour
        BY <1>1, <3>1, <3>3 DEF IInv, RoomIsLeft, Adds
      <4>2. Recent(c)' \subseteq Recent(c) \cup {t}
        BY <1>2, <1>3, <1>6, <1>10, <3>1 DEF Recent, Pair
      <4>3. Cardinality(Recent(c)') <= Cardinality(Recent(c) \cup {t}) /\ Recent(c) \cup {t} \in SUBSET Target
        BY <3>2, <4>2, FewerTargets
      <4>4. Cardinality(Recent(c) \cup {t}) <= Cardinality(Recent(c)) + 1
        BY <3>2, TargetsAreFinite, FS_AddElement
      <4> QED BY <3>1, <3>2, <4>1, <4>3, <4>4, TargetsAreFinite, LimitAssumption
    <3>4. CASE run[w].outcome # "delivered"
      <4>1. Recent(c)' = Recent(c)
        BY <1>2, <1>5, <1>6, <1>10, <3>1, <3>4 DEF Recent, Pair
      <4> QED BY <2>1, <3>1, <4>1
    <3> QED BY <3>3, <3>4
  <2>3. \A c \in Channel \ crowded' : Cardinality(Recent(c)') <= PerHour
    BY <1>3, <1>20, <2>1, <2>2
  <2> QED BY <2>3 DEF CapHolds, Recent
<1>23. QED
  BY <1>7, <1>9, <1>11, <1>14, <1>15, <1>16, <1>17, <1>18, <1>19, <1>21, <1>22 DEF IInv

-----------------------------------------------------------------------------
(* The behaviours *)

LEMMA InitIInv == Init => IInv
<1> SUFFICES ASSUME Init PROVE IInv
  OBVIOUS
<1>1. NoAttempt \in Attempts /\ NoAttempt.delivered = 0
  BY DEF NoAttempt, Attempts
<1>2. /\ db \in Database /\ tx = db /\ writer = Nil
      /\ \A p \in Pair : db.log[p].delivered = 0
      /\ \A t \in Target : db.state[t] = "absent"
  BY <1>1 DEF Init, Database, State
<1>3. run = [w \in Worker |-> Idle] /\ \A w \in Worker : run[w].pc = "idle" /\ run[w].channel = Nil
  BY DEF Init, Idle
<1>4. gate \in Gate
  BY DEF Init, Gate
<1>5. TypeOK
  <2>1. run \in [Worker -> RunState]
    BY <1>3, IdleIsARun
  <2>2. \A w \in Worker : ~(run[w].pc # "idle") /\ run[w].pc \notin {"send", "record"}
    BY <1>3
  <2>3. sent \in [Pair -> Nat]
    BY DEF Init
  <2>4. dismissed = {} /\ retired = {} /\ inApp = {} /\ quiet = FALSE /\ aged = {} /\ excused = {} /\ crowded = {} /\ acts = 0 /\ faults = 0
    BY DEF Init
  <2> QED BY <1>2, <1>4, <2>1, <2>2, <2>3, <2>4 DEF TypeOK
<1>6. OutcomeIsKnown /\ IdleIsOff /\ TxIsAhead /\ OneRun /\ OneHand /\ HandIsOpen
  BY <1>2, <1>3, NilAssumption DEF OutcomeIsKnown, IdleIsOff, TxIsAhead, OneRun, OneHand, HandIsOpen, HasInHand
<1>7. SentIsAccounted
  BY DEF Init, SentIsAccounted
<1>8. SelectedOpen /\ AgedIsDelivered /\ RoomIsLeft
  BY <1>3, NilAssumption, ChannelAssumption DEF Init, SelectedOpen, AgedIsDelivered, RoomIsLeft
<1>9. True(db) /\ True(tx)
  BY <1>2, ChannelAssumption DEF True, Pair
<1>10. CapHolds
  <2>1. \A c \in Channel : Recent(c) = {}
    BY <1>2 DEF Recent, Pair
  <2>2. \A c \in Channel : Cardinality(Recent(c)) <= PerHour
    BY <2>1, FS_EmptySet, LimitAssumption
  <2> QED BY <2>2 DEF CapHolds, Recent
<1>11. QED
  BY <1>5, <1>6, <1>7, <1>8, <1>9, <1>10 DEF IInv

LEMMA NextIInv == IInv /\ [Next]_vars => IInv'
<1> SUFFICES ASSUME IInv, [Next]_vars PROVE IInv'
  OBVIOUS
<1>1. CASE UNCHANGED vars
  <2>1. UNCHANGED <<db, tx, writer, run, dismissed, retired, inApp, gate, quiet, aged, sent, excused, crowded, acts, faults>>
    BY <1>1 DEF vars, storage, settings, time, history
  <2>2. TypeOK'
    BY <2>1 DEF IInv, TypeOK
  <2> QED BY <2>1, <2>2, NothingMoves
<1>2. CASE \E p \in Pair : Elapse(p) \/ Age(p)
  BY <1>2, ElapseStep, AgeStep
<1>3. CASE QuietBegins \/ QuietEnds \/ BeginDisabled
  BY <1>3, SettingsStep
<1>4. CASE \E t \in gate.of.targets : Create(t)
  <2>1. gate.of.targets \in SUBSET Target
    BY InstallationAssumption DEF IInv, TypeOK, Gate
  <2> QED BY <1>4, <2>1, CreateStep
<1>5. CASE Operate
  <2>1. CASE \E n \in Note : DeliverInApp(n)
    BY <2>1, DeliverInAppStep
  <2>2. CASE ~\E n \in Note : DeliverInApp(n)
    BY <1>5, <2>2, SettingsStep DEF Operate
  <2> QED BY <2>1, <2>2
<1>6. CASE \E w \in Worker : (\E c \in Channel : Begin(w, c)) \/ Step(w) \/ Abort(w)
  <2>1. PICK w \in Worker : (\E c \in Channel : Begin(w, c)) \/ Step(w) \/ Abort(w)
    BY <1>6
  <2>2. CASE \E c \in Channel : Begin(w, c)
    BY <2>2, BeginStep
  <2>3. CASE Step(w)
    <3>1. CASE \E c \in Channel : run[w].channel = c /\ \E a \in Answers(c) : Send(w, a)
      <4>1. \A c \in Channel : Answers(c) \subseteq WebhookAnswers
        BY DEF Answers, DesktopAnswers
      <4> QED BY <3>1, <4>1, SendStep
    <3>2. CASE SelectDigests(w) \/ PassOver(w) \/ Defer(w) \/ Attempt(w)
      BY <3>2, SelectDigestsStep, PassOverStep, DeferStep, AttemptStep
    <3>3. CASE Record(w) \/ Commit(w)
      BY <3>3, RecordStep, CommitStep
    <3> QED BY <2>3, <3>1, <3>2, <3>3 DEF Step
  <2>4. CASE Abort(w)
    BY <2>4, AbortStep
  <2> QED BY <2>1, <2>2, <2>3, <2>4
<1>7. QED
  BY <1>1, <1>2, <1>3, <1>4, <1>5, <1>6 DEF Next

LEMMA SpecIInv == Spec => []IInv
  BY InitIInv, NextIInv, PTL DEF Spec

\* Every row, run and setting keeps its type.
THEOREM TypeCorrect == Spec => []TypeOK
<1>1. IInv => TypeOK
  BY DEF IInv
<1>2. QED
  BY <1>1, SpecIInv, PTL

\* With any number of overlapping runs, deaths and lost answers, a target
\* reaches its receiver twice on a channel only if the record of a delivery was
\* lost, an answer was lost, or two runs had it in hand at once.
THEOREM AtMostOnce == Spec => []AtMostOnceUnlessExcused
<1>1. IInv => AtMostOnceUnlessExcused
  <2> SUFFICES ASSUME IInv, NEW p \in Pair, sent[p] > 1, p \notin excused PROVE FALSE
    BY DEF AtMostOnceUnlessExcused
  <2>1. sent[p] \in Nat /\ sent[p] <= 1
    BY DEF IInv, TypeOK, SentIsAccounted
  <2> QED BY <2>1
<1>2. QED
  BY <1>1, SpecIInv, PTL

\* The state shown for a target is the truth about the webhook.
THEOREM StateTellsTheTruth == Spec => []StateIsTrue
<1>1. IInv => StateIsTrue
  BY DEF IInv, True, StateIsTrue
<1>2. QED
  BY <1>1, SpecIInv, PTL

\* A channel that never had two runs at once never has more deliveries on
\* record within an hour than the cap.
THEOREM CapIsKept == Spec => []CapHolds
<1>1. IInv => CapHolds
  BY DEF IInv
<1>2. QED
  BY <1>1, SpecIInv, PTL
=============================================================================
