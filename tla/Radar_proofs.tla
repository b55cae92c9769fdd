----------------------------- MODULE Radar_proofs ----------------------------
(***************************************************************************)
(* The candidates of the radar for every set of items, texts, topics and   *)
(* reviewers, every threshold, age and budget.                             *)
(***************************************************************************)
EXTENDS Radar, FiniteSetTheorems, SequenceTheorems, WellFoundedInduction, TLAPS

Story ==
  [headline : Text, evidence : SUBSET Text, topics : SUBSET Topic, coverage : Nat,
   fresh : Nat, seen : BOOLEAN, latest : 0..MaxNow]

Event == [candidate : Item, story : Nat, automatic : BOOLEAN, at : 0..MaxNow]

Run == [left : 1..Budget, rows : UNION {[D -> Candidate] : D \in SUBSET Item}]

Automatic == [on : BOOLEAN, runs : [Promoter -> {Nil} \cup Run], most : [0..MaxNow -> Nat]]

\* What TypeOK leaves out: the stories, the events, and what the clustering
\* run and the automatic promotions have in hand.
Typed ==
  /\ TypeOK
  /\ stories \in Seq(Story) /\ events \in Seq(Event)
  /\ automatic \in Automatic
  /\ clustering \in {Nil} \cup [item : Item, target : 0..Items, row : Candidate]

-----------------------------------------------------------------------------
(* Items, and their groups *)

LEMMA ItemsAreFinite == ASSUME NEW S \in SUBSET Item PROVE IsFiniteSet(S) /\ Cardinality(S) \in Nat
<1>1. Items \in Nat
  BY RadarNumbers
<1>2. IsFiniteSet(Item)
  BY <1>1, FS_Interval DEF Item
<1>3. QED
  BY <1>2, FS_Subset, FS_CardinalityType

LEMMA NumbersAreNat ==
  /\ Items \in Nat /\ MinMentions \in Nat /\ MaxScore \in Nat /\ Threshold \in Nat
  /\ AttachAge \in Nat /\ StaleAge \in Nat /\ CurrentAge \in Nat /\ MaxAge \in Nat
  /\ Budget \in Nat /\ MaxNow \in Nat /\ MaxOperator \in Nat /\ None = -1
BY RadarNumbers

\* A group has an earliest item.
LEMMA EarliestExists ==
  ASSUME NEW S \in SUBSET Nat, S # {}
  PROVE  \E i \in S : \A j \in S : i <= j
<1> DEFINE less == {p \in Nat \X Nat : p[1] < p[2]}
<1>1. IsWellFoundedOn(less, Nat)
  BY NatLessThanWellFounded DEF OpToRel
<1>2. PICK i \in S : \A j \in S : ~(<<j, i>> \in less)
  <2> HIDE DEF less
  <2> QED BY <1>1, WFMin
<1>3. ASSUME NEW j \in S PROVE i <= j
  <2>1. <<j, i>> \in Nat \X Nat /\ ~(<<j, i>> \in less)
    BY <1>2
  <2>2. <<j, i>>[1] = j /\ <<j, i>>[2] = i
    OBVIOUS
  <2>3. ~(j < i)
    BY <2>1, <2>2
  <2>4. QED
    BY <2>3
<1>4. QED
  BY <1>3

\* A group has an earliest item.
LEMMA OriginIsFirst ==
  ASSUME NEW G \in SUBSET Item, G # {}
  PROVE  Origin(G) \in G /\ \A j \in G : Origin(G) <= j
<1>1. G \in SUBSET Nat
  BY NumbersAreNat DEF Item
<1>2. QED
  BY <1>1, EarliestExists DEF Origin

\* An item is in its own group; a group has no item but those it is made of.
LEMMA GroupOfType ==
  ASSUME NEW S \in SUBSET Item, NEW i \in S
  PROVE  GroupOf(i, S) \subseteq S /\ i \in GroupOf(i, S)
BY DEF GroupOf

LEMMA GroupsAre == ASSUME NEW S \in SUBSET Item PROVE Groups(S) = {GroupOf(i, S) : i \in S}
<1>1. <<S, {GroupOf(i, S) : i \in S}>> \in Grouping
  BY DEF Grouping
<1>2. \A g \in Grouping : g[1] = S => g[2] = {GroupOf(i, S) : i \in S}
  BY DEF Grouping
<1>3. PICK g \in Grouping : g = (CHOOSE h \in Grouping : h[1] = S) /\ g[1] = S
  <2>1. \E h \in Grouping : h[1] = S
    BY <1>1
  <2>2. QED
    BY <2>1
<1>4. QED
  BY <1>2, <1>3 DEF Groups

\* An item is in the group of what it links to.
LEMMA LinkedAreGrouped ==
  ASSUME NEW S \in SUBSET Item, NEW i \in S, NEW j \in S, Linked(i, j)
  PROVE  j \in GroupOf(i, S)
BY DEF GroupOf

\* An item that is a group of its own links to nothing else.
LEMMA AloneLinksNothing ==
  ASSUME NEW S \in SUBSET Item, NEW i \in Item, i \notin S, {i} \in Groups(S \cup {i})
  PROVE  \A j \in S : ~Linked(i, j)
<1> DEFINE T == S \cup {i}
<1>1. T \in SUBSET Item /\ i \in T
  OBVIOUS
<1>2. PICK k \in T : {i} = GroupOf(k, T)
  BY <1>1, GroupsAre
<1>3. k = i
  BY <1>1, <1>2, GroupOfType
<1>4. SUFFICES ASSUME NEW j \in S, Linked(i, j) PROVE FALSE
  OBVIOUS
<1>5. j \in GroupOf(i, T)
  BY <1>1, <1>4, LinkedAreGrouped
<1>6. QED
  BY <1>2, <1>3, <1>5

\* One more item: a group of the new grouping that has an old item has all of
\* the old item's group.
LEMMA GroupsGrow ==
  ASSUME NEW S \in SUBSET Item, NEW i \in Item, NEW k \in S \cup {i},
         NEW m \in S, m \in GroupOf(k, S \cup {i})
  PROVE  GroupOf(m, S) \subseteq GroupOf(k, S \cup {i})
<1> DEFINE T == S \cup {i}
<1>1. SUFFICES ASSUME NEW j \in GroupOf(m, S) PROVE j \in GroupOf(k, T)
  OBVIOUS
<1>2. j \in S
  BY <1>1 DEF GroupOf
<1>3. SUFFICES ASSUME NEW X \in SUBSET T, k \in X,
                      \A a \in X, b \in T : Linked(a, b) => b \in X
               PROVE  j \in X
  BY <1>2 DEF GroupOf
<1>4. m \in X
  BY <1>3 DEF GroupOf
<1>5. X \cap S \in SUBSET S /\ m \in X \cap S
  BY <1>4
<1>6. \A a \in X \cap S, b \in S : Linked(a, b) => b \in X \cap S
  BY <1>3
<1>7. QED
  BY <1>1, <1>5, <1>6 DEF GroupOf

LEMMA ScoreIsAScore == ASSUME NEW row, now \in Int, row.latest \in Int PROVE Score(row) \in 0..MaxScore
BY NumbersAreNat DEF Score

-----------------------------------------------------------------------------
(* The stories: what is told of evidence keeps each of it in one story, and *)
(* the coverage counts it.                                                  *)

Counted(S) ==
  \A n \in DOMAIN S : IsFiniteSet(S[n].evidence) /\ S[n].coverage = Cardinality(S[n].evidence)

Apart(S) == \A n, m \in DOMAIN S : n # m => S[n].evidence \cap S[m].evidence = {}

Book(S) == S \in Seq(Story) /\ Counted(S) /\ Apart(S)

\* More is told, nothing is taken back.
Keeps(S, S2) ==
  /\ Len(S) <= Len(S2)
  /\ \A n \in DOMAIN S : S[n].evidence \subseteq S2[n].evidence

LEMMA StoryOfIs ==
  ASSUME NEW S \in Seq(Story), NEW t
  PROVE  /\ StoryOf(S, t) \in 0..Len(S)
         /\ StoryOf(S, t) # 0 => StoryOf(S, t) \in DOMAIN S /\ t \in S[StoryOf(S, t)].evidence
         /\ StoryOf(S, t) = 0 => \A n \in DOMAIN S : t \notin S[n].evidence
<1>1. DOMAIN S = 1..Len(S) /\ Len(S) \in Nat
  BY LenProperties
<1>2. CASE StoriesOf(S, t) = {}
  BY <1>1, <1>2 DEF StoryOf, StoriesOf
<1>3. CASE StoriesOf(S, t) # {}
  <2>1. StoryOf(S, t) \in StoriesOf(S, t)
    BY <1>3 DEF StoryOf
  <2>2. QED
    BY <1>1, <2>1 DEF StoriesOf
<1>4. QED
  BY <1>2, <1>3

LEMMA KeepsTrans ==
  ASSUME NEW S \in Seq(Story), NEW S2 \in Seq(Story), NEW S3 \in Seq(Story), Keeps(S, S2), Keeps(S2, S3)
  PROVE  Keeps(S, S3)
<1>1. /\ DOMAIN S = 1..Len(S) /\ Len(S) \in Nat
      /\ DOMAIN S2 = 1..Len(S2) /\ Len(S2) \in Nat
      /\ DOMAIN S3 = 1..Len(S3) /\ Len(S3) \in Nat
  BY LenProperties
<1>2. QED
  BY <1>1 DEF Keeps

\* What is in a story stays in one.
LEMMA KeepsStories ==
  ASSUME NEW S \in Seq(Story), NEW S2 \in Seq(Story), Keeps(S, S2), NEW t, StoryOf(S, t) # 0
  PROVE  StoryOf(S2, t) # 0
<1>1. /\ DOMAIN S = 1..Len(S) /\ Len(S) \in Nat
      /\ DOMAIN S2 = 1..Len(S2) /\ Len(S2) \in Nat
  BY LenProperties
<1>2. PICK n \in DOMAIN S : t \in S[n].evidence
  BY StoryOfIs
<1>3. n \in DOMAIN S2 /\ t \in S2[n].evidence
  BY <1>1, <1>2 DEF Keeps
<1>4. QED
  BY <1>3, StoryOfIs

\* One story is told more, of evidence that is in none.
LEMMA TellMore ==
  ASSUME NEW S, Book(S), NEW n \in DOMAIN S, NEW T \in SUBSET Text,
         \A t \in T : StoryOf(S, t) = 0,
         NEW st \in Story, st.evidence = S[n].evidence \cup T,
         IsFiniteSet(st.evidence), st.coverage = Cardinality(st.evidence)
  PROVE  /\ Book([S EXCEPT ![n] = st]) /\ Keeps(S, [S EXCEPT ![n] = st])
         /\ Len([S EXCEPT ![n] = st]) = Len(S)
<1> DEFINE R == [S EXCEPT ![n] = st]
<1>1. S \in Seq(Story) /\ DOMAIN S = 1..Len(S) /\ Len(S) \in Nat
  BY LenProperties DEF Book
<1>2. R \in Seq(Story) /\ Len(R) = Len(S) /\ DOMAIN R = DOMAIN S
  BY <1>1, ExceptSeq
<1>3. \A m \in DOMAIN S : R[m] = IF m = n THEN st ELSE S[m]
  BY <1>1
<1>4. \A t \in T : \A m \in DOMAIN S : t \notin S[m].evidence
  BY <1>1, StoryOfIs
<1>5. Counted(R)
  BY <1>2, <1>3 DEF Counted, Book
<1>6. Apart(R)
  BY <1>2, <1>3, <1>4 DEF Apart, Book
<1>7. Keeps(S, R)
  BY <1>1, <1>2, <1>3 DEF Keeps
<1>8. QED
  BY <1>2, <1>5, <1>6, <1>7 DEF Book

LEMMA CoveredIs ==
  ASSUME NEW s \in Story, NEW T \in SUBSET Text, NEW today \in 0..MaxNow,
         IsFiniteSet(T), IsFiniteSet(s.evidence), s.coverage = Cardinality(s.evidence),
         T \cap s.evidence = {}
  PROVE  /\ Covered(s, T, today) \in Story
         /\ Covered(s, T, today).evidence = s.evidence \cup T
         /\ Covered(s, T, today).topics = s.topics
         /\ IsFiniteSet(Covered(s, T, today).evidence)
         /\ Covered(s, T, today).coverage = Cardinality(Covered(s, T, today).evidence)
<1>1. Cardinality(T) \in Nat /\ Cardinality(s.evidence) \in Nat
  BY FS_CardinalityType
<1>2. s.evidence \cap T = {} /\ Cardinality({}) = 0
  BY FS_EmptySet
<1>3. /\ IsFiniteSet(s.evidence \cup T)
      /\ Cardinality(s.evidence \cup T)
           = Cardinality(s.evidence) + Cardinality(T) - Cardinality(s.evidence \cap T)
  BY FS_Union
<1>4. Cardinality(s.evidence \cup T) = s.coverage + Cardinality(T)
  <2>1. Cardinality(s.evidence \cap T) = 0
    BY <1>2, Zenon
  <2>2. QED
    BY <1>1, <1>3, <2>1
<1>5. PICK k \in Nat : k = Cardinality(T)
  BY <1>1
<1>6. PICK q \in Story : q = s
  OBVIOUS
<1>7. /\ q.evidence \cup T \in SUBSET Text /\ q.coverage + k \in Nat
      /\ (IF q.seen THEN q.fresh + k ELSE q.fresh) \in Nat
      /\ (IF T = {} \/ q.latest >= today THEN q.latest ELSE today) \in 0..MaxNow
  BY <1>5, NumbersAreNat DEF Story
<1> DEFINE fresh == IF q.seen THEN q.fresh + k ELSE q.fresh
           latest == IF T = {} \/ q.latest >= today THEN q.latest ELSE today
           q1 == [q EXCEPT !.evidence = q.evidence \cup T]
           q2 == [q1 EXCEPT !.coverage = q.coverage + k]
           q3 == [q2 EXCEPT !.fresh = fresh]
           q4 == [q3 EXCEPT !.latest = latest]
<1>8. q1 \in Story /\ q2 \in Story /\ q3 \in Story /\ q4 \in Story
  BY <1>7 DEF Story
<1>9. Covered(q, T, today) = q4
  BY <1>5 DEF Covered, Story
<1>10. q4.evidence = q.evidence \cup T /\ q4.topics = q.topics /\ q4.coverage = q.coverage + k
  BY DEF Story
<1>11. QED
  BY <1>3, <1>4, <1>5, <1>6, <1>8, <1>9, <1>10

LEMMA TellNew ==
  ASSUME NEW S, Book(S), NEW t \in Text, StoryOf(S, t) = 0, NEW topics \in SUBSET Topic,
         NEW today \in 0..MaxNow
  PROVE  /\ Book(Append(S, NewStory(t, topics, today)))
         /\ Keeps(S, Append(S, NewStory(t, topics, today)))
         /\ StoryOf(Append(S, NewStory(t, topics, today)), t) # 0
<1> DEFINE st == NewStory(t, topics, today)
           R == Append(S, st)
<1>1. S \in Seq(Story) /\ DOMAIN S = 1..Len(S) /\ Len(S) \in Nat
  BY LenProperties DEF Book
<1>2. st \in Story /\ st.evidence = {t} /\ st.coverage = 1
  BY DEF NewStory, Story
<1>3. IsFiniteSet({t}) /\ Cardinality({t}) = 1
  BY FS_Singleton
<1>4. /\ R \in Seq(Story) /\ DOMAIN R = 1..(Len(S) + 1) /\ Len(R) = Len(S) + 1
      /\ \A m \in 1..Len(S) : R[m] = S[m]
      /\ R[Len(S) + 1] = st
  BY <1>1, <1>2, AppendProperties, LenProperties
<1>5. \A m \in DOMAIN S : t \notin S[m].evidence
  BY <1>1, StoryOfIs
<1> HIDE DEF st, R
<1>6. Counted(R)
  <2>1. SUFFICES ASSUME NEW n \in DOMAIN R
                 PROVE  IsFiniteSet(R[n].evidence) /\ R[n].coverage = Cardinality(R[n].evidence)
    BY DEF Counted
  <2>2. CASE n \in 1..Len(S)
    BY <1>1, <1>4, <2>2 DEF Counted, Book
  <2>3. CASE n = Len(S) + 1
    BY <1>2, <1>3, <1>4, <2>3
  <2>4. QED
    BY <1>1, <1>4, <2>2, <2>3
<1>7. Apart(R)
  <2>1. SUFFICES ASSUME NEW n \in DOMAIN R, NEW m \in DOMAIN R, n # m
                 PROVE  R[n].evidence \cap R[m].evidence = {}
    BY DEF Apart
  <2>2. CASE n \in 1..Len(S) /\ m \in 1..Len(S)
    BY <1>1, <1>4, <2>1, <2>2 DEF Apart, Book
  <2>3. CASE n = Len(S) + 1
    BY <1>1, <1>2, <1>4, <1>5, <2>1, <2>3
  <2>4. CASE m = Len(S) + 1
    BY <1>1, <1>2, <1>4, <1>5, <2>1, <2>4
  <2>5. QED
    BY <1>1, <1>4, <2>1, <2>2, <2>3, <2>4
<1>8. Keeps(S, R)
  BY <1>1, <1>4 DEF Keeps
<1>9. StoryOf(R, t) # 0
  BY <1>1, <1>2, <1>4, StoryOfIs
<1>10. QED
  BY <1>4, <1>6, <1>7, <1>8, <1>9 DEF Book, R, st

\* The evidence of finitely many items is finite.
LEMMA TextsAreFinite ==
  ASSUME NEW S \in SUBSET Item
  PROVE  IsFiniteSet({Trait[i].text : i \in S}) /\ {Trait[i].text : i \in S} \in SUBSET Text
<1> DEFINE T == {Trait[i].text : i \in S}
<1>1. T \in SUBSET Text
  BY ItemAssumption
<1>2. PICK n \in Nat : ExistsSurjection(1..n, S)
  BY ItemsAreFinite, FS_NatSurjection
<1>3. PICK f \in [1..n -> S] : \A i \in S : \E m \in 1..n : f[m] = i
  BY <1>2 DEF ExistsSurjection, Surjection
<1> DEFINE g == [m \in 1..n |-> Trait[f[m]].text]
<1>4. g \in [1..n -> T]
  BY <1>3
<1>5. \A t \in T : \E m \in 1..n : g[m] = t
  BY <1>3
<1>6. g \in Surjection(1..n, T)
  BY <1>4, <1>5 DEF Surjection
<1>7. ExistsSurjection(1..n, T)
  BY <1>6 DEF ExistsSurjection
<1>8. QED
  BY <1>1, <1>7, FS_NatSurjection

LEMMA FindClusterIs ==
  ASSUME NEW S \in Seq(Story), NEW t, NEW topics, NEW today \in 0..MaxNow
  PROVE  FindCluster(S, t, topics, today) \in 0..Len(S)
<1> DEFINE open == {n \in DOMAIN S : /\ S[n].latest >= today - Window
                                     /\ S[n].topics \cap topics # {}
                                     /\ <<t, S[n].headline>> \in Alike}
           left == {MaxNow - S[n].latest : n \in open}
<1>1. DOMAIN S = 1..Len(S) /\ Len(S) \in Nat
  BY LenProperties
<1>2. ASSUME NEW n \in DOMAIN S PROVE S[n].latest \in 0..MaxNow
  <2>1. S[n] \in Story
    BY <1>1, ElementOfSeq
  <2>2. QED
    BY <2>1 DEF Story
<1>3. CASE open = {}
  BY <1>1, <1>3 DEF FindCluster
<1>4. CASE open # {}
  <2>1. left \in SUBSET Nat /\ left # {}
    <3>1. ASSUME NEW n \in open PROVE MaxNow - S[n].latest \in Nat
      <4>1. S[n].latest \in 0..MaxNow
        BY <1>2
      <4>2. QED
        BY <4>1, NumbersAreNat
    <3>2. QED
      BY <1>4, <3>1
  <2>2. PICK i \in left : \A j \in left : i <= j
    <3> HIDE DEF left
    <3> QED BY <2>1, EarliestExists
  <2>3. PICK n \in open : i = MaxNow - S[n].latest
    BY <2>2
  <2>4. \A m \in open : S[n].latest >= S[m].latest
    <3>1. SUFFICES ASSUME NEW m \in open PROVE S[n].latest >= S[m].latest
      OBVIOUS
    <3>2. i <= MaxNow - S[m].latest
      BY <2>2
    <3>3. QED
      BY <1>2, <2>3, <3>2, NumbersAreNat
  <2>5. FindCluster(S, t, topics, today) \in open
    <3>1. FindCluster(S, t, topics, today)
            = CHOOSE n1 \in open : \A m \in open : S[n1].latest >= S[m].latest
      BY <1>4 DEF FindCluster
    <3>2. QED
      BY <2>4, <3>1
  <2>6. QED
    BY <1>1, <2>5
<1>5. QED
  BY <1>3, <1>4

LEMMA ProcessTells ==
  ASSUME NEW S, Book(S), NEW t \in Text, NEW topics \in SUBSET Topic, NEW today \in 0..MaxNow
  PROVE  Book(Process(S, t, topics, today)) /\ Keeps(S, Process(S, t, topics, today))
<1> DEFINE n == FindCluster(S, t, topics, today)
<1>1. S \in Seq(Story) /\ DOMAIN S = 1..Len(S) /\ Len(S) \in Nat
  BY LenProperties DEF Book
<1>2. n \in 0..Len(S)
  BY <1>1, FindClusterIs
<1>3. CASE StoryOf(S, t) # 0 \/ topics = {}
  BY <1>1, <1>3 DEF Process, Keeps
<1>4. CASE StoryOf(S, t) = 0 /\ topics # {} /\ n = 0
  BY <1>4, TellNew DEF Process
<1>5. CASE StoryOf(S, t) = 0 /\ topics # {} /\ n # 0
  <2>1. n \in DOMAIN S
    BY <1>1, <1>2, <1>5
  <2>2. PICK s \in Story : s = S[n]
    BY <1>1, <2>1, ElementOfSeq
  <2>3. IsFiniteSet(s.evidence) /\ s.coverage = Cardinality(s.evidence)
    BY <2>1, <2>2 DEF Book, Counted
  <2>4. {t} \cap s.evidence = {} /\ IsFiniteSet({t}) /\ {t} \in SUBSET Text
    BY <1>1, <1>5, <2>1, <2>2, StoryOfIs, FS_Singleton
  <2>5. PICK q \in Story : q = Covered(s, {t}, today)
    BY <2>3, <2>4, CoveredIs
  <2>6. /\ q.evidence = s.evidence \cup {t} /\ q.topics = s.topics /\ IsFiniteSet(q.evidence)
        /\ q.coverage = Cardinality(q.evidence)
    <3>1. /\ Covered(s, {t}, today).evidence = s.evidence \cup {t}
          /\ Covered(s, {t}, today).topics = s.topics
          /\ IsFiniteSet(Covered(s, {t}, today).evidence)
          /\ Covered(s, {t}, today).coverage = Cardinality(Covered(s, {t}, today).evidence)
      BY <2>3, <2>4, CoveredIs
    <3>2. QED
      BY <2>5, <3>1
  <2>7. PICK st \in Story : st = [q EXCEPT !.topics = @ \cup topics]
    BY <2>6 DEF Story
  <2>8. st.evidence = S[n].evidence \cup {t} /\ IsFiniteSet(st.evidence) /\ st.coverage = Cardinality(st.evidence)
    BY <2>2, <2>6, <2>7 DEF Story
  <2>9. Process(S, t, topics, today) = [S EXCEPT ![n] = st]
    <3>1. Process(S, t, topics, today) = [S EXCEPT ![n] = Joined(@, t, topics, today)]
      BY <1>5 DEF Process
    <3>2. Joined(S[n], t, topics, today) = st
      BY <2>2, <2>5, <2>7 DEF Joined
    <3>3. QED
      BY <3>1, <3>2
  <2>10. Book([S EXCEPT ![n] = st]) /\ Keeps(S, [S EXCEPT ![n] = st])
    BY <1>5, <2>1, <2>4, <2>8, TellMore
  <2>11. QED
    BY <2>9, <2>10
<1>6. QED
  BY <1>3, <1>4, <1>5

LEMMA AttachTells ==
  ASSUME NEW S, Book(S), NEW n \in DOMAIN S, NEW T \in SUBSET Text, IsFiniteSet(T),
         NEW today \in 0..MaxNow
  PROVE  /\ Book(Attach(S, n, T, today)) /\ Keeps(S, Attach(S, n, T, today))
         /\ Len(Attach(S, n, T, today)) = Len(S)
         /\ \A t \in T : StoryOf(Attach(S, n, T, today), t) # 0
<1> DEFINE new == {t \in T : StoryOf(S, t) = 0}
<1>1. S \in Seq(Story) /\ DOMAIN S = 1..Len(S) /\ Len(S) \in Nat
  BY LenProperties DEF Book
<1>2. new \in SUBSET Text /\ IsFiniteSet(new) /\ \A t \in new : StoryOf(S, t) = 0
  BY FS_Subset
<1>3. PICK s \in Story : s = S[n]
  BY <1>1, ElementOfSeq
<1>4. IsFiniteSet(s.evidence) /\ s.coverage = Cardinality(s.evidence)
  BY <1>3 DEF Book, Counted
<1>5. new \cap s.evidence = {}
  BY <1>1, <1>2, <1>3, StoryOfIs
<1> HIDE DEF new
<1>6. PICK q \in Story : q = Covered(s, new, today)
  BY <1>2, <1>4, <1>5, CoveredIs
<1>7. /\ q.evidence = S[n].evidence \cup new /\ IsFiniteSet(q.evidence)
      /\ q.coverage = Cardinality(q.evidence)
  <2>1. /\ Covered(s, new, today).evidence = s.evidence \cup new
        /\ IsFiniteSet(Covered(s, new, today).evidence)
        /\ Covered(s, new, today).coverage = Cardinality(Covered(s, new, today).evidence)
    BY <1>2, <1>4, <1>5, CoveredIs
  <2>2. QED
    BY <1>3, <1>6, <2>1
<1> DEFINE R == [S EXCEPT ![n] = q]
<1>8. Attach(S, n, T, today) = R
  BY <1>3, <1>6 DEF Attach, new
<1>9. Book(R) /\ Keeps(S, R) /\ Len(R) = Len(S)
  BY <1>2, <1>7, TellMore
<1>10. R[n] = q
  BY <1>1
<1> HIDE DEF R
<1>11. \A t \in T : StoryOf(R, t) # 0
  <2>1. SUFFICES ASSUME NEW t \in T PROVE StoryOf(R, t) # 0
    OBVIOUS
  <2>2. R \in Seq(Story) /\ DOMAIN R = 1..Len(R)
    BY <1>9, LenProperties DEF Book
  <2>3. CASE StoryOf(S, t) # 0
    BY <1>1, <1>9, <2>2, <2>3, KeepsStories
  <2>4. CASE t \in new
    BY <1>1, <1>7, <1>9, <1>10, <2>2, <2>4, StoryOfIs
  <2>5. QED
    BY <2>3, <2>4 DEF new
<1>12. QED
  BY <1>8, <1>9, <1>11

\* What a promotion tells: all the evidence of the candidate has a story.
LEMMA ToldTells ==
  ASSUME Book(stories), NEW c \in Item, c \in candidate[c].members,
         candidate[c].members \in SUBSET Item,
         NEW story \in 0..Len(stories), now \in 0..MaxNow
  PROVE  /\ Book(Told(c, story).stories) /\ Keeps(stories, Told(c, story).stories)
         /\ Told(c, story).story \in Nat
         /\ \A i \in candidate[c].members : StoryOf(Told(c, story).stories, Trait[i].text) # 0
<1> DEFINE S == candidate[c].members
           T == {Trait[i].text : i \in S}
           t == Trait[First(S)].text
           p == Process(stories, t, About[t], now)
           started == IF story # 0 THEN stories
                      ELSE IF StoryOf(p, t) # 0 THEN p
                      ELSE Append(p, NewStory(t, {}, now))
           n == IF story # 0 THEN story ELSE StoryOf(started, t)
           told == Attach(started, n, T, now)
<1>1. t \in Text /\ About[t] \in SUBSET Topic
  BY OriginIsFirst, ItemAssumption, TopicAssumption DEF First
<1>2. T \in SUBSET Text /\ IsFiniteSet(T)
  BY TextsAreFinite
<1>3. stories \in Seq(Story) /\ DOMAIN stories = 1..Len(stories) /\ Len(stories) \in Nat
  BY LenProperties DEF Book
<1>4. Book(p) /\ Keeps(stories, p)
  BY <1>1, ProcessTells
<1>5. Book(started) /\ Keeps(stories, started) /\ n \in DOMAIN started
  <2>1. CASE story # 0
    BY <1>3, <2>1 DEF Keeps
  <2>2. CASE story = 0 /\ StoryOf(p, t) # 0
    <3>1. p \in Seq(Story)
      BY <1>4 DEF Book
    <3>2. StoryOf(p, t) \in DOMAIN p
      BY <2>2, <3>1, StoryOfIs
    <3>3. QED
      BY <1>4, <2>2, <3>2
  <2>3. CASE story = 0 /\ StoryOf(p, t) = 0
    <3> DEFINE r == Append(p, NewStory(t, {}, now))
    <3>1. Book(r) /\ Keeps(p, r) /\ StoryOf(r, t) # 0
      BY <1>1, <1>4, <2>3, TellNew
    <3>2. p \in Seq(Story) /\ r \in Seq(Story)
      BY <1>4, <3>1 DEF Book
    <3>3. Keeps(stories, r)
      BY <1>3, <1>4, <3>1, <3>2, KeepsTrans
    <3>4. StoryOf(r, t) \in DOMAIN r
      BY <3>1, <3>2, StoryOfIs
    <3>5. QED
      BY <2>3, <3>1, <3>3, <3>4
  <2>4. QED
    BY <2>1, <2>2, <2>3
<1> HIDE DEF started, n, T, t, p
<1>6. /\ Book(told) /\ Keeps(started, told) /\ Len(told) = Len(started)
      /\ \A u \in T : StoryOf(told, u) # 0
  BY <1>2, <1>5, AttachTells
<1>7. /\ started \in Seq(Story) /\ told \in Seq(Story)
      /\ DOMAIN started = 1..Len(started) /\ Len(started) \in Nat
      /\ DOMAIN told = 1..Len(told)
  BY <1>5, <1>6, LenProperties DEF Book
<1> HIDE DEF told
<1>8. n \in DOMAIN told /\ n \in Nat
  BY <1>5, <1>6, <1>7
<1>9. PICK s \in Story : s = told[n]
  BY <1>7, <1>8, ElementOfSeq
<1>10. TopicsOf(S) \in SUBSET Topic
  BY ItemAssumption, TopicAssumption DEF TopicsOf
<1>11. PICK st \in Story : st = [s EXCEPT !.topics = @ \cup TopicsOf(S)]
  BY <1>10 DEF Story
<1>12. /\ st.evidence = told[n].evidence \cup {} /\ IsFiniteSet(st.evidence)
       /\ st.coverage = Cardinality(st.evidence)
  BY <1>6, <1>8, <1>9, <1>11 DEF Story, Book, Counted
<1> DEFINE R == [told EXCEPT ![n] = st]
<1>13. Book(R) /\ Keeps(told, R)
  BY <1>6, <1>8, <1>12, TellMore
<1>14. Told(c, story) = [stories |-> R, story |-> n]
  BY <1>9, <1>11 DEF Told, told, n, started, p, t, T
<1> HIDE DEF R
<1>15. R \in Seq(Story)
  BY <1>13 DEF Book
<1>16. Keeps(stories, R)
  BY <1>3, <1>5, <1>6, <1>7, <1>13, <1>15, KeepsTrans
<1>17. \A i \in S : StoryOf(R, Trait[i].text) # 0
  BY <1>6, <1>7, <1>13, <1>15, KeepsStories DEF T
<1>18. QED
  BY <1>8, <1>13, <1>14, <1>16, <1>17

-----------------------------------------------------------------------------
(* The invariant *)

\* A candidate has the item that seeded it; where there is none, there is
\* nothing.
SeedIsMember ==
  \A c \in Item : IF candidate[c].state = "none" THEN candidate[c] = NoCandidate
                  ELSE c \in candidate[c].members

\* The item the clustering run has in hand is collected and of no candidate,
\* and the candidate it found for it is there.
FoundIsFree ==
  clustering # Nil =>
    /\ clustering.item \notin Members /\ items[clustering.item] # "none"
    /\ clustering.target # 0 => candidate[clustering.target].state # "none"

\* Items are collected in their order, before they are clustered.
CollectedInOrder ==
  /\ \A i \in Members : items[i] # "none"
  /\ \A i \in Item : posted[i] <= now
  /\ \A i, j \in Item : i < j /\ items[j] # "none" => items[i] # "none" /\ posted[i] <= posted[j]

\* The automatic promotions have candidates in hand.
RunIsOfCandidates ==
  \A p \in Promoter : automatic.runs[p] # Nil =>
    \A c \in DOMAIN automatic.runs[p].rows : candidate[c].state # "none"

\* Each story is true to its evidence, and what was promoted is in one.
PromotedIsTold ==
  /\ Book(stories)
  /\ \A e \in DOMAIN events : StoryOf(stories, Trait[events[e].candidate].text) # 0

\* The promotions that the runs may still make, one by one: the first to the
\* last that each has left.
Slots(runs) ==
  {s \in Promoter \X (1..Budget) : runs[s[1]] # Nil /\ s[2] <= runs[s[1]].left}

\* The automatic promotions of an hour, and those the runs may still make in
\* it, are within the budgets of the runs there were at once.
SpentIsKnown ==
  /\ \A e \in DOMAIN events : events[e].at <= now
  /\ \A hour \in 0..MaxNow : Cardinality(Promoted(events, hour)) <= Budget * automatic.most[hour]
  /\ Cardinality(Promoted(events, now)) + Cardinality(Slots(automatic.runs)) <= Budget * automatic.most[now]

IInv ==
  /\ Typed /\ SeedIsMember /\ FoundIsFree /\ CollectedInOrder /\ RunIsOfCandidates
  /\ PromotedIsTold /\ SpentIsKnown

-----------------------------------------------------------------------------
(* What the runs may still promote *)

LEMMA SlotsAreFinite ==
  ASSUME NEW runs
  PROVE  IsFiniteSet(Slots(runs)) /\ Cardinality(Slots(runs)) \in Nat
<1>1. IsFiniteSet(Promoter \X (1..Budget))
  <2>1. IsFiniteSet(Promoter) /\ IsFiniteSet(1..Budget)
    BY NumbersAreNat, PromoterAssumption, FS_Interval
  <2>2. QED
    BY <2>1, FS_Product
<1>2. Slots(runs) \subseteq Promoter \X (1..Budget)
  BY DEF Slots
<1>3. QED
  BY <1>1, <1>2, FS_Subset, FS_CardinalityType

LEMMA PromotersAreFinite ==
  ASSUME NEW S \in SUBSET Promoter
  PROVE  IsFiniteSet(S) /\ Cardinality(S) \in Nat
BY PromoterAssumption, FS_Subset, FS_CardinalityType

\* A run has a budget left at most.
LEMMA SlotsOfRunning ==
  ASSUME NEW runs, NEW S \in SUBSET Promoter, \A p \in Promoter : runs[p] # Nil => p \in S
  PROVE  Cardinality(Slots(runs)) <= Budget * Cardinality(S)
<1>1. IsFiniteSet(S \X (1..Budget)) /\ Cardinality(S \X (1..Budget)) = Cardinality(S) * Cardinality(1..Budget)
  <2>1. IsFiniteSet(S) /\ IsFiniteSet(1..Budget)
    BY NumbersAreNat, PromotersAreFinite, FS_Interval
  <2>2. QED
    BY <2>1, FS_Product
<1>2. Cardinality(1..Budget) = Budget
  BY NumbersAreNat, FS_Interval
<1>3. Slots(runs) \subseteq S \X (1..Budget)
  BY DEF Slots
<1>4. Cardinality(Slots(runs)) <= Cardinality(S \X (1..Budget))
  BY <1>1, <1>3, FS_Subset
<1>5. Cardinality(S) * Budget = Budget * Cardinality(S)
  BY NumbersAreNat, PromotersAreFinite
<1>6. QED
  BY <1>1, <1>2, <1>4, <1>5

\* A run that begins adds what it has left.
LEMMA SlotsOfOneMore ==
  ASSUME NEW runs, NEW next, NEW p \in Promoter, NEW left \in 1..Budget, next[p].left = left,
         \A q \in Promoter \ {p} : next[q] = runs[q]
  PROVE  Cardinality(Slots(next)) <= Cardinality(Slots(runs)) + left
<1> DEFINE A == Slots(runs)
           B == {p} \X (1..left)
<1>1. IsFiniteSet(A) /\ Cardinality(A) \in Nat
  BY SlotsAreFinite
<1>2. IsFiniteSet(B) /\ Cardinality(B) = left
  <2>1. IsFiniteSet({p}) /\ Cardinality({p}) = 1 /\ IsFiniteSet(1..left) /\ Cardinality(1..left) = left
    <3>1. IsFiniteSet({p}) /\ Cardinality({p}) = 1
      BY FS_Singleton
    <3>2. left \in Nat /\ 1 \in Int /\ left \in Int /\ ~(1 > left) /\ left - 1 + 1 = left
      BY NumbersAreNat
    <3>3. QED
      BY <3>1, <3>2, FS_Interval
  <2>2. IsFiniteSet({p} \X (1..left)) /\ Cardinality({p} \X (1..left)) = Cardinality({p}) * Cardinality(1..left)
    BY <2>1, FS_Product
  <2>3. 1 * left = left
    BY NumbersAreNat
  <2>4. QED
    BY <2>1, <2>2, <2>3
<1>3. Slots(next) \subseteq A \cup B
  BY DEF Slots
<1> HIDE DEF A, B
<1>4. IsFiniteSet(A \cup B) /\ Cardinality(A \cup B) = Cardinality(A) + Cardinality(B) - Cardinality(A \cap B)
  BY <1>1, <1>2, FS_Union
<1>5. Cardinality(A \cap B) \in Nat
  BY <1>1, FS_Subset, FS_CardinalityType
<1>6. Cardinality(Slots(next)) <= Cardinality(A \cup B)
  BY <1>3, <1>4, FS_Subset
<1>7. Cardinality(Slots(next)) <= Cardinality(A) + left
  BY <1>1, <1>2, <1>4, <1>5, <1>6, SlotsAreFinite, NumbersAreNat
<1>8. QED
  BY <1>7 DEF A

\* Runs that end or have no more left add nothing.
LEMMA SlotsOfFewer ==
  ASSUME NEW runs, NEW next,
         \A q \in Promoter : next[q] # Nil => /\ runs[q] # Nil /\ runs[q].left \in Int /\ next[q].left \in Int
                                              /\ next[q].left <= runs[q].left
  PROVE  Cardinality(Slots(next)) <= Cardinality(Slots(runs))
<1>1. Slots(next) \subseteq Slots(runs)
  BY NumbersAreNat DEF Slots
<1>2. QED
  BY <1>1, SlotsAreFinite, FS_Subset

\* A promotion takes one from what its run has left.
LEMMA SlotsOfOneLess ==
  ASSUME NEW runs, NEW next, NEW p \in Promoter, runs[p] # Nil, runs[p].left \in 1..Budget,
         next[p] # Nil => next[p].left = runs[p].left - 1,
         \A q \in Promoter \ {p} : next[q] = runs[q]
  PROVE  Cardinality(Slots(next)) + 1 <= Cardinality(Slots(runs))
<1> DEFINE last == <<p, runs[p].left>>
<1>1. last \in Slots(runs) /\ last \notin Slots(next) /\ Slots(next) \subseteq Slots(runs)
  BY NumbersAreNat DEF Slots
<1> HIDE DEF last
<1>2. Slots(next) \subseteq Slots(runs) \ {last}
  BY <1>1
<1>3. IsFiniteSet(Slots(runs) \ {last}) /\ Cardinality(Slots(runs) \ {last}) = Cardinality(Slots(runs)) - 1
  BY <1>1, SlotsAreFinite, FS_RemoveElement
<1>4. Cardinality(Slots(next)) <= Cardinality(Slots(runs) \ {last})
  BY <1>2, <1>3, FS_Subset
<1>5. Cardinality(Slots(next)) \in Nat /\ Cardinality(Slots(runs)) \in Nat
  BY SlotsAreFinite
<1>6. QED
  BY <1>3, <1>4, <1>5

LEMMA MoreBudgets ==
  ASSUME NEW m \in Nat, NEW n \in Nat
  PROVE  /\ Budget * m \in Nat
         /\ m <= n => Budget * m <= Budget * n
         /\ Budget * (m + 1) = Budget * m + Budget
BY NumbersAreNat

-----------------------------------------------------------------------------
(* The steps *)

LEMMA PromotedIsFinite ==
  ASSUME NEW E \in Seq(Event), NEW hour
  PROVE  IsFiniteSet(Promoted(E, hour)) /\ Cardinality(Promoted(E, hour)) \in Nat
<1>1. DOMAIN E = 1..Len(E) /\ Len(E) \in Nat
  BY LenProperties
<1>2. IsFiniteSet(DOMAIN E)
  BY <1>1, FS_Interval
<1>3. QED
  BY <1>2, FS_Subset, FS_CardinalityType DEF Promoted

\* What one more event adds to its hour.
LEMMA PromotedOnceMore ==
  ASSUME NEW E \in Seq(Event), NEW ev \in Event, NEW hour
  PROVE  Cardinality(Promoted(Append(E, ev), hour))
           = IF ev.automatic /\ ev.at = hour THEN Cardinality(Promoted(E, hour)) + 1
             ELSE Cardinality(Promoted(E, hour))
<1> DEFINE R == Append(E, ev)
<1>1. DOMAIN E = 1..Len(E) /\ Len(E) \in Nat
  BY LenProperties
<1>2. /\ R \in Seq(Event) /\ DOMAIN R = 1..(Len(E) + 1) /\ R[Len(E) + 1] = ev
      /\ \A m \in 1..Len(E) : R[m] = E[m]
  BY <1>1, AppendProperties, LenProperties
<1> HIDE DEF R
<1>3. CASE ev.automatic /\ ev.at = hour
  <2>1. Promoted(R, hour) = Promoted(E, hour) \cup {Len(E) + 1}
    BY <1>1, <1>2, <1>3 DEF Promoted
  <2>2. Len(E) + 1 \notin Promoted(E, hour)
    BY <1>1 DEF Promoted
  <2>3. Cardinality(Promoted(E, hour) \cup {Len(E) + 1}) = Cardinality(Promoted(E, hour)) + 1
    BY <2>2, PromotedIsFinite, FS_AddElement
  <2>4. QED
    BY <1>3, <2>1, <2>3 DEF R
<1>4. CASE ~(ev.automatic /\ ev.at = hour)
  <2>1. Promoted(R, hour) = Promoted(E, hour)
    BY <1>1, <1>2, <1>4 DEF Promoted
  <2>2. QED
    BY <1>4, <2>1 DEF R
<1>5. QED
  BY <1>3, <1>4

LEMMA BudgetIsOfPromoted ==
  ASSUME IInv
  PROVE  PromotionsInLastHour = Cardinality(Promoted(events, now))
<1>1. \A e \in DOMAIN events : events[e].at <= now /\ events[e].at \in Int /\ now \in Int
  <2>1. ASSUME NEW e \in DOMAIN events PROVE events[e] \in Event
    BY LenProperties, ElementOfSeq DEF IInv, Typed
  <2>2. QED
    BY <2>1, NumbersAreNat DEF Event, IInv, SpentIsKnown, Typed, TypeOK
<1>2. {e \in DOMAIN events : events[e].automatic /\ events[e].at >= now} = Promoted(events, now)
  BY <1>1 DEF Promoted
<1>3. QED
  BY <1>2 DEF PromotionsInLastHour

\* The rows of the candidates change, but neither their members nor which of
\* them there are.
SameCandidates ==
  /\ candidate' \in [Item -> Candidate]
  /\ \A c \in Item : /\ candidate'[c].members = candidate[c].members
                     /\ candidate[c].state = "none" => candidate'[c] = candidate[c]
                     /\ candidate[c].state # "none" => candidate'[c].state # "none"

LEMMA SameMembers == ASSUME SameCandidates PROVE Members' = Members
BY DEF SameCandidates, Members

LEMMA RunIsTyped ==
  ASSUME IInv
  PROVE  /\ automatic \in Automatic
         /\ \A p \in Promoter : automatic.runs[p] # Nil =>
              /\ automatic.runs[p] \in Run /\ automatic.runs[p].left \in 1..Budget
              /\ DOMAIN automatic.runs[p].rows \subseteq Item
              /\ automatic.runs[p].rows \in [DOMAIN automatic.runs[p].rows -> Candidate]
<1>1. automatic \in Automatic
  BY DEF IInv, Typed
<1>2. ASSUME NEW p \in Promoter, automatic.runs[p] # Nil
      PROVE  /\ automatic.runs[p] \in Run /\ automatic.runs[p].left \in 1..Budget
             /\ DOMAIN automatic.runs[p].rows \subseteq Item
             /\ automatic.runs[p].rows \in [DOMAIN automatic.runs[p].rows -> Candidate]
  <2>1. automatic.runs[p] \in Run
    BY <1>1, <1>2 DEF Automatic
  <2>2. PICK D \in SUBSET Item : automatic.runs[p].rows \in [D -> Candidate]
    BY <2>1 DEF Run
  <2>3. QED
    BY <2>1, <2>2 DEF Run
<1>3. QED
  BY <1>1, <1>2

LEMMA RestyledKeepsInvariant ==
  ASSUME IInv, SameCandidates,
         UNCHANGED <<items, posted, clustering, stories, events, automatic, now>>,
         DOMAIN evidence' \subseteq Text, suggestion' \in [Name -> Suggestion],
         registry' \subseteq Name, operated' \in 0..MaxOperator
  PROVE  IInv'
<1>1. Typed'
  BY DEF IInv, Typed, TypeOK, SameCandidates
<1>2. SeedIsMember'
  BY DEF IInv, SeedIsMember, SameCandidates
<1>3. FoundIsFree'
  <2>1. clustering # Nil => clustering.target \in 0..Items
    BY DEF IInv, Typed
  <2>2. clustering # Nil /\ clustering.target # 0 => clustering.target \in Item
    BY <2>1, NumbersAreNat DEF Item
  <2>3. QED
    BY <2>2, SameMembers DEF IInv, FoundIsFree, SameCandidates
<1>4. CollectedInOrder'
  BY SameMembers DEF IInv, CollectedInOrder
<1>5. RunIsOfCandidates'
  BY RunIsTyped DEF IInv, RunIsOfCandidates, SameCandidates
<1>6. PromotedIsTold' /\ SpentIsKnown'
  BY DEF IInv, PromotedIsTold, Book, Counted, Apart, StoryOf, StoriesOf, SpentIsKnown, Promoted, Slots
<1>7. QED
  BY <1>1, <1>2, <1>3, <1>4, <1>5, <1>6 DEF IInv

LEMMA MinedIsTyped ==
  ASSUME suggestion \in [Name -> Suggestion], NEW processed
  PROVE  Mined(processed) \in [Name -> Suggestion]
<1>1. SUFFICES ASSUME NEW n \in Name PROVE Mined(processed)[n] \in Suggestion
  BY DEF Mined
<1>2. PICK s \in Suggestion : s = suggestion[n]
  OBVIOUS
<1>3. [s EXCEPT !.status = IF @ = "none" THEN "pending" ELSE @, !.appearances = Max2(@, 1)] \in Suggestion
  <2>1. (IF s.status = "none" THEN "pending" ELSE s.status) \in {"none", "pending", "added", "ignored", "blocked"}
        /\ Max2(s.appearances, 1) \in Nat
    BY DEF Suggestion, Max2
  <2>2. PICK q \in Suggestion : q = [s EXCEPT !.status = IF s.status = "none" THEN "pending" ELSE s.status]
    BY <2>1 DEF Suggestion
  <2>3. [q EXCEPT !.appearances = Max2(s.appearances, 1)] \in Suggestion
    BY <2>1 DEF Suggestion
  <2>4. QED
    BY <2>2, <2>3 DEF Suggestion
<1>4. Mined(processed)[n]
        = IF Kind[n] = "domain" /\ n \in Cited(processed, registry)
          THEN [s EXCEPT !.status = IF @ = "none" THEN "pending" ELSE @, !.appearances = Max2(@, 1)]
          ELSE s
  BY <1>2 DEF Mined
<1>5. QED
  BY <1>3, <1>4

LEMMA Facts ==
  ASSUME IInv
  PROVE  /\ items \in [Item -> {"none", "pending", "processed"}] /\ posted \in [Item -> 0..MaxNow]
         /\ candidate \in [Item -> Candidate] /\ DOMAIN evidence \subseteq Text
         /\ suggestion \in [Name -> Suggestion] /\ registry \subseteq Name
         /\ now \in 0..MaxNow /\ operated \in 0..MaxOperator
         /\ Operator => operated' \in 0..MaxOperator
BY NumbersAreNat DEF IInv, Typed, TypeOK, Operator

LEMMA QuietKeepsInvariant ==
  ASSUME IInv, UNCHANGED <<signals, stories, events, automatic, now>>,
         DOMAIN evidence' \subseteq Text, suggestion' \in [Name -> Suggestion],
         registry' \subseteq Name, operated' \in 0..MaxOperator
  PROVE  IInv'
<1>1. SameCandidates
  BY Facts DEF signals, SameCandidates
<1>2. QED
  BY <1>1, RestyledKeepsInvariant DEF signals

LEMMA PutKeepsInvariant ==
  ASSUME IInv, NEW c \in Item, NEW row \in Candidate, Put(c, row),
         row.members = candidate[c].members, row.state # "none", candidate[c].state # "none"
  PROVE  IInv'
<1>1. SameCandidates
  BY Facts DEF Put, SameCandidates
<1>2. QED
  BY <1>1, Facts, RestyledKeepsInvariant DEF Put, editor, sources

LEMMA RowsArePut ==
  ASSUME IInv, NEW c \in Item, Seen(c) \/ Dismiss(c) \/ Restore(c) \/ Snooze(c)
  PROVE  IInv'
<1>1. PICK q \in Candidate : q = candidate[c]
  BY Facts
<1>2. q.state # "none"
  BY <1>1 DEF Seen, Dismiss, Restore, Snooze, Listed
<1>3. now \in Int /\ None \in Int
  BY Facts, NumbersAreNat
<1>4. CASE Seen(c)
  <2>1. PICK row \in Candidate : row = [q EXCEPT !.seen = IF q.seen = None THEN now ELSE None]
    BY <1>3 DEF Candidate
  <2>2. row.members = q.members /\ row.state = q.state
    BY <2>1 DEF Candidate
  <2>3. Put(c, row)
    BY <1>1, <1>4, <2>1 DEF Seen
  <2>4. QED
    BY <1>1, <1>2, <2>2, <2>3, PutKeepsInvariant
<1>5. CASE Dismiss(c)
  <2>1. PICK row \in Candidate : row = [q EXCEPT !.state = "dismissed"]
    BY DEF Candidate, States
  <2>2. row.members = q.members /\ row.state = "dismissed"
    BY <2>1 DEF Candidate
  <2>3. Put(c, row)
    BY <1>1, <1>5, <2>1 DEF Dismiss
  <2>4. QED
    BY <1>1, <1>2, <2>2, <2>3, PutKeepsInvariant
<1>6. CASE Restore(c)
  <2>1. PICK r \in Candidate : r = [q EXCEPT !.state = "active"]
    BY DEF Candidate, States
  <2>2. PICK row \in Candidate : row = [r EXCEPT !.until = None]
    BY <1>3 DEF Candidate
  <2>3. row.members = q.members /\ row.state = "active" /\ row = [q EXCEPT !.state = "active", !.until = None]
    BY <2>1, <2>2 DEF Candidate
  <2>4. Put(c, row)
    BY <1>1, <1>6, <2>3 DEF Restore
  <2>5. QED
    BY <1>1, <1>2, <2>3, <2>4, PutKeepsInvariant
<1>7. CASE Snooze(c)
  <2>1. PICK r \in Candidate : r = [q EXCEPT !.state = "snoozed"]
    BY DEF Candidate, States
  <2> DEFINE tomorrow == now + 1
  <2>2. PICK row \in Candidate : row = [r EXCEPT !.until = tomorrow]
    <3>1. tomorrow \in Int
      BY <1>3
    <3> HIDE DEF tomorrow
    <3>2. QED
      BY <3>1 DEF Candidate
  <2>3. row.members = q.members /\ row.state = "snoozed" /\ row = [q EXCEPT !.state = "snoozed", !.until = now + 1]
    BY <2>1, <2>2 DEF Candidate
  <2>4. Put(c, row)
    BY <1>1, <1>7, <2>3 DEF Snooze
  <2>5. QED
    BY <1>1, <1>2, <2>3, <2>4, PutKeepsInvariant
<1>8. QED
  BY <1>4, <1>5, <1>6, <1>7

LEMMA RescoreKeeps == ASSUME IInv, Rescore PROVE IInv'
<1>1. ASSUME NEW c \in Item
      PROVE  /\ candidate'[c] \in Candidate /\ candidate'[c].members = candidate[c].members
             /\ candidate[c].state = "none" => candidate'[c] = candidate[c]
             /\ candidate[c].state # "none" => candidate'[c].state # "none"
  <2>1. PICK q \in Candidate : q = candidate[c]
    BY Facts
  <2>2. Score(q) \in 0..MaxScore
    BY Facts, ScoreIsAScore DEF Candidate
  <2>3. candidate'[c] = IF q.state = "active" THEN [q EXCEPT !.score = Score(q)] ELSE q
    BY <2>1 DEF Rescore
  <2>4. QED
    BY <2>1, <2>2, <2>3 DEF Candidate
<1>2. SameCandidates
  BY <1>1 DEF SameCandidates, Rescore
<1>3. QED
  BY <1>2, Facts, RestyledKeepsInvariant DEF Rescore, editor, sources

LEMMA MaintainKeeps == ASSUME IInv, Maintain PROVE IInv'
<1> DEFINE woken(row) == IF row.state = "snoozed" /\ row.until <= now
                         THEN [row EXCEPT !.state = "active", !.until = None] ELSE row
           aged(row) == IF row.state = "active" /\ now - row.latest > StaleAge
                        THEN [row EXCEPT !.state = "stale"] ELSE row
<1>1. ASSUME NEW q \in Candidate
      PROVE  /\ aged(woken(q)) \in Candidate /\ aged(woken(q)).members = q.members
             /\ q.state = "none" => aged(woken(q)) = q
             /\ q.state # "none" => aged(woken(q)).state # "none"
  <2>1. ASSUME NEW r \in Candidate
        PROVE  /\ aged(r) \in Candidate /\ aged(r).members = r.members
               /\ r.state = "none" => aged(r) = r
               /\ r.state # "none" => aged(r).state # "none"
    BY DEF Candidate, States
  <2>2. /\ woken(q) \in Candidate /\ woken(q).members = q.members
        /\ q.state = "none" => woken(q) = q
        /\ q.state # "none" => woken(q).state # "none"
    <3>1. None \in Int
      BY NumbersAreNat
    <3>2. PICK r \in Candidate : r = [q EXCEPT !.state = "active"]
      BY DEF Candidate, States
    <3>3. PICK s \in Candidate : s = [r EXCEPT !.until = None]
      BY <3>1 DEF Candidate
    <3>4. /\ s = [q EXCEPT !.state = "active", !.until = None]
          /\ s.members = q.members /\ s.state = "active"
      BY <3>2, <3>3 DEF Candidate
    <3>5. QED
      BY <3>4
  <2> HIDE DEF woken, aged
  <2>3. QED
    BY <2>1, <2>2
<1>2. candidate' = [c \in Item |-> aged(woken(candidate[c]))]
  BY DEF Maintain
<1> HIDE DEF woken, aged
<1>3. SameCandidates
  BY <1>1, <1>2, Facts DEF SameCandidates
<1>4. QED
  BY <1>3, Facts, RestyledKeepsInvariant DEF Maintain, editor, sources

LEMMA EvidenceIsOfTexts ==
  ASSUME DOMAIN evidence \subseteq Text, NEW S \in SUBSET Item
  PROVE  DOMAIN WithEvidence(evidence, S) \subseteq Text
BY ItemAssumption DEF WithEvidence

LEMMA ScannedIsTyped ==
  ASSUME IInv, NEW kinds, NEW valid
  PROVE  Scanned(kinds, valid) \in [Name -> Suggestion]
<1>1. SUFFICES ASSUME NEW n \in Name PROVE Scanned(kinds, valid)[n] \in Suggestion
  BY DEF Scanned
<1>2. PICK s \in Suggestion : s = suggestion[n]
  BY Facts
<1>3. Mentions(n) \in Nat
  BY ItemsAreFinite DEF Mentions
<1>4. \A f \in BOOLEAN : Upserted(s, Mentions(n), f) \in Suggestion
  BY <1>3 DEF Upserted, Suggestion
<1>5. (Kind[n] \in {"subreddit", "github"} /\ s.status = "none" /\ n \in valid) \in BOOLEAN
  OBVIOUS
<1>6. QED
  BY <1>2, <1>4, <1>5 DEF Scanned

LEMMA SourcesKeep ==
  ASSUME IInv, OfSource \/ RefreshHandles
  PROVE  IInv'
<1>1. CASE RunSourceDiscovery \/ RefreshHandles
  <2>1. PICK kinds : Scan(kinds) /\ operated' \in 0..MaxOperator
    BY <1>1, Facts DEF RunSourceDiscovery, RefreshHandles
  <2>2. suggestion' \in [Name -> Suggestion]
    BY <2>1, ScannedIsTyped DEF Scan
  <2>3. QED
    BY <2>1, <2>2, Facts, QuietKeepsInvariant DEF Scan, editor
<1>2. CASE RecomputeReputations \/ \E a \in Author : Override(a)
  BY <1>2, Facts, QuietKeepsInvariant DEF RecomputeReputations, Override, editor
<1>3. ASSUME NEW n \in Name, NEW s \in {"pending", "ignored", "blocked"},
             Decide(n, s) \/ Accept(n) \/ DiscoverFeed(n) \/ AddSource(n)
      PROVE  IInv'
  <2>1. PICK q \in Suggestion : q = suggestion[n]
    BY Facts
  <2>2. /\ [q EXCEPT !.status = s] \in Suggestion /\ [q EXCEPT !.status = "added"] \in Suggestion
        /\ [q EXCEPT !.feed = TRUE] \in Suggestion
    BY DEF Suggestion
  <2>3. suggestion' \in [Name -> Suggestion]
    BY <1>3, <2>1, <2>2, Facts DEF Decide, Accept, DiscoverFeed, AddSource
  <2>4. registry' \subseteq Name /\ operated' \in 0..MaxOperator
    BY <1>3, Facts DEF Decide, Accept, DiscoverFeed, AddSource
  <2>5. QED
    BY <1>3, <2>3, <2>4, Facts, QuietKeepsInvariant DEF Decide, Accept, DiscoverFeed, AddSource, editor
<1>4. QED
  BY <1>1, <1>2, <1>3 DEF OfSource

LEMMA EvidenceKeeps ==
  ASSUME IInv, \/ \E i \in Item : ItemToEvidence(i)
               \/ \E t \in Text : Ingest(t)
               \/ \E r \in Reviewer : ReviewWrite(r) \/ \E c \in Item : ReviewRead(r, c)
  PROVE  IInv'
<1>1. CASE \E i \in Item : ItemToEvidence(i)
  BY <1>1, Facts, EvidenceIsOfTexts, QuietKeepsInvariant DEF ItemToEvidence, sources
<1>2. CASE \E t \in Text : Ingest(t)
  BY <1>2, Facts, QuietKeepsInvariant DEF Ingest, sources
<1>3. CASE \E r \in Reviewer : ReviewWrite(r)
  BY <1>3, Facts, QuietKeepsInvariant DEF ReviewWrite, sources, editor
<1>4. CASE \E r \in Reviewer, c \in Item : ReviewRead(r, c)
  BY <1>4, Facts, QuietKeepsInvariant DEF ReviewRead, sources, editor
<1>5. QED
  BY <1>1, <1>2, <1>3, <1>4

LEMMA EventsAreTyped ==
  ASSUME IInv
  PROVE  /\ events \in Seq(Event) /\ DOMAIN events = 1..Len(events) /\ Len(events) \in Nat
         /\ \A e \in DOMAIN events : events[e] \in Event
<1>1. events \in Seq(Event)
  BY DEF IInv, Typed
<1>2. DOMAIN events = 1..Len(events) /\ Len(events) \in Nat
  BY <1>1, LenProperties
<1>3. QED
  BY <1>1, <1>2, ElementOfSeq

LEMMA OneMoreEvent ==
  ASSUME NEW E \in Seq(Event), NEW ev \in Event, NEW R, R = Append(E, ev)
  PROVE  /\ R \in Seq(Event) /\ DOMAIN R = 1..(Len(E) + 1) /\ R[Len(E) + 1] = ev
         /\ \A m \in 1..Len(E) : R[m] = E[m]
<1>1. R \in Seq(Event) /\ Len(R) = Len(E) + 1
  BY AppendProperties
<1>2. QED
  BY <1>1, AppendProperties, LenProperties

\* What was promoted stays in a story when more is told, and one more event is
\* of what was told.
LEMMA ToldStays ==
  ASSUME IInv, Book(stories'), Keeps(stories, stories'),
         \/ events' = events
         \/ \E ev \in Event : /\ events' = Append(events, ev)
                              /\ StoryOf(stories', Trait[ev.candidate].text) # 0
  PROVE  PromotedIsTold'
<1>1. stories \in Seq(Story) /\ stories' \in Seq(Story)
  BY DEF IInv, Typed, Book
<1>2. \A e \in DOMAIN events : StoryOf(stories', Trait[events[e].candidate].text) # 0
  BY <1>1, KeepsStories DEF IInv, PromotedIsTold
<1>3. \A e \in DOMAIN events' : StoryOf(stories', Trait[events'[e].candidate].text) # 0
  <2>1. CASE events' = events
    BY <1>2, <2>1
  <2>2. ASSUME NEW ev \in Event, events' = Append(events, ev),
               StoryOf(stories', Trait[ev.candidate].text) # 0
        PROVE  \A e \in DOMAIN events' : StoryOf(stories', Trait[events'[e].candidate].text) # 0
    <3>1. /\ DOMAIN events' = 1..(Len(events) + 1) /\ events'[Len(events) + 1] = ev
          /\ \A m \in 1..Len(events) : events'[m] = events[m]
      <4>1. events \in Seq(Event) /\ events' = Append(events, ev)
        BY <2>2, EventsAreTyped
      <4>2. QED
        BY <4>1, OneMoreEvent
    <3>2. \A m \in 1..(Len(events) + 1) : m \in 1..Len(events) \/ m = Len(events) + 1
      BY EventsAreTyped
    <3>3. QED
      BY <1>2, <2>2, <3>1, <3>2, EventsAreTyped
  <2>3. QED
    BY <2>1, <2>2
<1>4. QED
  BY <1>3 DEF PromotedIsTold, Book, Counted, Apart, StoryOf, StoriesOf

\* A promotion: the story is told, the event written, the candidate keeps its
\* members.
LEMMA PromotionWrites ==
  ASSUME IInv, NEW c \in Item, candidate[c].state # "none", NEW row, row.story = 0,
         NEW story \in 0..Len(stories), NEW auto \in BOOLEAN,
         PromoteLoaded(c, row, story, auto)
  PROVE  /\ SameCandidates /\ PromotedIsTold' /\ stories' \in Seq(Story)
         /\ \E ev \in Event : /\ events' = Append(events, ev)
                              /\ ev.candidate = c /\ ev.automatic = auto /\ ev.at = now
         /\ DOMAIN evidence' \subseteq Text /\ suggestion' \in [Name -> Suggestion]
<1> DEFINE told == Told(c, story)
<1>1. PICK q \in Candidate : q = candidate[c]
  BY Facts
<1>2. c \in candidate[c].members /\ candidate[c].members \in SUBSET Item
  BY <1>1 DEF IInv, SeedIsMember, Candidate
<1>3. Book(stories) /\ now \in 0..MaxNow
  BY Facts DEF IInv, PromotedIsTold
<1>4. /\ Book(told.stories) /\ Keeps(stories, told.stories) /\ told.story \in Nat
      /\ StoryOf(told.stories, Trait[c].text) # 0
  BY <1>2, <1>3, ToldTells
<1> HIDE DEF told
<1>5. /\ evidence' = WithEvidence(evidence, candidate[c].members)
      /\ stories' = told.stories
      /\ candidate' = [candidate EXCEPT ![c].state = "promoted", ![c].story = told.story]
      /\ events' = Append(events, [candidate |-> c, story |-> told.story, automatic |-> auto, at |-> now])
  BY DEF PromoteLoaded, told
<1>6. suggestion' \in [Name -> Suggestion]
  BY Facts, MinedIsTyped DEF PromoteLoaded
<1>7. SameCandidates
  <2>1. PICK r \in Candidate : r = [q EXCEPT !.state = "promoted"]
    BY DEF Candidate, States
  <2>2. PICK s \in Candidate : s = [r EXCEPT !.story = told.story]
    BY <1>4 DEF Candidate
  <2>3. s = [q EXCEPT !.state = "promoted", !.story = told.story] /\ s.members = q.members /\ s.state = "promoted"
    BY <2>1, <2>2 DEF Candidate
  <2>4. candidate' = [candidate EXCEPT ![c] = s]
    BY <1>1, <1>5, <2>3, Facts
  <2>5. QED
    BY <1>1, <2>3, <2>4, Facts DEF SameCandidates
<1>8. PICK ev \in Event : ev = [candidate |-> c, story |-> told.story, automatic |-> auto, at |-> now]
  BY <1>3, <1>4 DEF Event
<1>9. ev.candidate = c /\ ev.automatic = auto /\ ev.at = now
  BY <1>8
<1>10. PromotedIsTold'
  BY <1>4, <1>5, <1>8, <1>9, ToldStays
<1>11. QED
  BY <1>2, <1>4, <1>5, <1>6, <1>7, <1>8, <1>9, <1>10, Facts, EvidenceIsOfTexts DEF Book

\* The candidates of the steps that leave the members as they are.
LEMMA RestyledParts ==
  ASSUME IInv, SameCandidates, UNCHANGED <<items, posted, now, clustering>>
  PROVE  SeedIsMember' /\ FoundIsFree' /\ CollectedInOrder'
<1>1. SeedIsMember'
  BY DEF IInv, SeedIsMember, SameCandidates
<1>2. FoundIsFree'
  <2>1. clustering # Nil => clustering.target \in 0..Items
    BY DEF IInv, Typed
  <2>2. clustering # Nil /\ clustering.target # 0 => clustering.target \in Item
    BY <2>1, NumbersAreNat DEF Item
  <2>3. QED
    BY <2>2, SameMembers DEF IInv, FoundIsFree, SameCandidates
<1>3. CollectedInOrder'
  BY SameMembers DEF IInv, CollectedInOrder
<1>4. QED
  BY <1>1, <1>2, <1>3

LEMMA PromoteKeeps == ASSUME IInv, NEW c \in Item, NEW story \in 0..Len(stories), Promote(c, story) PROVE IInv'
<1>1. CASE candidate[c].story # 0
  BY <1>1, Facts, QuietKeepsInvariant DEF Promote, PromoteLoaded, editor, signals
<1>2. CASE candidate[c].story = 0
  <2>1. PromoteLoaded(c, candidate[c], story, FALSE) /\ candidate[c].state # "none"
    BY DEF Promote
  <2>2. /\ SameCandidates /\ PromotedIsTold' /\ stories' \in Seq(Story)
        /\ DOMAIN evidence' \subseteq Text /\ suggestion' \in [Name -> Suggestion]
    BY <1>2, <2>1, PromotionWrites
  <2>3. PICK ev \in Event : events' = Append(events, ev) /\ ~ev.automatic /\ ev.at = now
    BY <1>2, <2>1, PromotionWrites
  <2>4. UNCHANGED <<items, posted, clustering, automatic, registry, now>> /\ operated' \in 0..MaxOperator
    BY Facts DEF Promote
  <2>5. events' \in Seq(Event)
    BY <2>3, EventsAreTyped, AppendProperties
  <2>6. Typed'
    BY <2>2, <2>4, <2>5, Facts DEF IInv, Typed, TypeOK, SameCandidates
  <2>7. SeedIsMember' /\ FoundIsFree' /\ CollectedInOrder'
    BY <2>2, <2>4, RestyledParts
  <2>8. RunIsOfCandidates'
    BY <2>2, <2>4, RunIsTyped DEF IInv, RunIsOfCandidates, SameCandidates
  <2>9. SpentIsKnown'
    <3>1. \A hour : Cardinality(Promoted(events', hour)) = Cardinality(Promoted(events, hour))
      BY <2>3, EventsAreTyped, PromotedOnceMore
    <3>2. \A e \in DOMAIN events' : events'[e].at <= now
      <4>1. /\ Len(events') = Len(events) + 1 /\ events'[Len(events) + 1] = ev
            /\ \A m \in 1..Len(events) : events'[m] = events[m]
        BY <2>3, EventsAreTyped, AppendProperties
      <4>2. DOMAIN events' = 1..(Len(events) + 1)
        BY <2>5, <4>1, LenProperties
      <4>3. QED
        BY <2>3, <4>1, <4>2, Facts, EventsAreTyped DEF IInv, SpentIsKnown
    <3>3. QED
      BY <2>4, <3>1, <3>2 DEF IInv, SpentIsKnown, Slots
  <2>10. QED
    BY <2>2, <2>6, <2>7, <2>8, <2>9 DEF IInv
<1>3. QED
  BY <1>1, <1>2

\* Steps that leave stories, events and the automatic promotion alone.
LEMMA EditorStays ==
  ASSUME IInv, UNCHANGED <<editor, now, automatic>>
  PROVE  PromotedIsTold' /\ SpentIsKnown'
BY DEF IInv, PromotedIsTold, Book, Counted, Apart, StoryOf, StoriesOf, SpentIsKnown, Promoted, Slots, editor

LEMMA ArriveKeeps == ASSUME IInv, NEW i \in Item, Arrive(i) PROVE IInv'
<1>1. /\ UNCHANGED <<candidate, clustering, editor, automatic, sources, now, operated>>
      /\ items' = [items EXCEPT ![i] = "pending"] /\ posted' = [posted EXCEPT ![i] = now]
      /\ items[i] = "none" /\ \A j \in 1..i - 1 : items[j] # "none"
  BY DEF Arrive
<1>2. Typed'
  BY <1>1, Facts DEF IInv, Typed, TypeOK, editor, sources
<1>3. SeedIsMember' /\ RunIsOfCandidates'
  BY <1>1 DEF IInv, SeedIsMember, RunIsOfCandidates
<1>4. Members' = Members
  BY <1>1 DEF Members
<1>5. FoundIsFree'
  <2>1. clustering # Nil => clustering.item \in Item
    BY DEF IInv, Typed
  <2>2. QED
    BY <1>1, <1>4, <2>1, Facts DEF IInv, FoundIsFree
<1>6. CollectedInOrder'
  <2>1. \A m \in Members' : items'[m] # "none"
    <3>1. Members \subseteq Item
      BY Facts DEF Members, Candidate
    <3>2. QED
      BY <1>1, <1>4, <3>1, Facts DEF IInv, CollectedInOrder
  <2>2. \A m \in Item : posted'[m] <= now'
    BY <1>1, Facts DEF IInv, CollectedInOrder
  <2>3. ASSUME NEW m \in Item, NEW k \in Item, m < k, items'[k] # "none"
        PROVE  items'[m] # "none" /\ posted'[m] <= posted'[k]
    <3>1. items \in [Item -> {"none", "pending", "processed"}] /\ posted \in [Item -> 0..MaxNow]
      BY Facts
    <3>2. m \in Nat /\ k \in Nat /\ i \in Nat /\ m >= 1
      BY NumbersAreNat DEF Item
    <3>3. CASE k = i
      <4>1. m \in 1..i - 1 /\ m # i
        BY <2>3, <3>2, <3>3
      <4>2. QED
        BY <1>1, <3>1, <3>3, <4>1 DEF IInv, CollectedInOrder
    <3>4. CASE k # i
      <4>1. items[k] # "none"
        BY <1>1, <2>3, <3>1, <3>4
      <4>2. items[m] # "none" /\ posted[m] <= posted[k]
        BY <2>3, <4>1 DEF IInv, CollectedInOrder
      <4>3. m # i
        BY <1>1, <4>2
      <4>4. QED
        BY <1>1, <3>1, <3>4, <4>2, <4>3
    <3>5. QED
      BY <3>3, <3>4
  <2>4. QED
    BY <2>1, <2>2, <2>3 DEF CollectedInOrder
<1>7. PromotedIsTold' /\ SpentIsKnown'
  BY <1>1, EditorStays
<1>8. QED
  BY <1>2, <1>3, <1>5, <1>6, <1>7 DEF IInv

LEMMA AnalyzeKeeps == ASSUME IInv, Analyze PROVE IInv'
<1>1. /\ UNCHANGED <<posted, candidate, clustering, editor, automatic, sources, now, operated>>
      /\ items' = [i \in Item |-> IF items[i] = "pending" THEN "processed" ELSE items[i]]
  BY DEF Analyze
<1>2. \A i \in Item : items'[i] = "none" <=> items[i] = "none"
  BY <1>1
<1>3. Typed'
  <2>1. items' \in [Item -> {"none", "pending", "processed"}]
    BY <1>1, Facts
  <2>2. QED
    BY <1>1, <2>1, Facts DEF IInv, Typed, TypeOK, editor, sources
<1>4. SeedIsMember' /\ RunIsOfCandidates'
  BY <1>1 DEF IInv, SeedIsMember, RunIsOfCandidates
<1>5. Members' = Members /\ Members \subseteq Item
  BY <1>1, Facts DEF Members, Candidate
<1>6. FoundIsFree'
  <2>1. clustering # Nil => clustering.item \in Item
    BY DEF IInv, Typed
  <2>2. QED
    BY <1>1, <1>2, <1>5, <2>1 DEF IInv, FoundIsFree
<1>7. CollectedInOrder'
  BY <1>1, <1>2, <1>5 DEF IInv, CollectedInOrder
<1>8. PromotedIsTold' /\ SpentIsKnown'
  BY <1>1, EditorStays
<1>9. QED
  BY <1>3, <1>4, <1>6, <1>7, <1>8 DEF IInv

LEMMA ClusterFindKeeps == ASSUME IInv, NEW i \in Item, ClusterFind(i) PROVE IInv'
<1>1. /\ UNCHANGED <<items, posted, candidate, editor, automatic, sources, now, operated>>
      /\ items[i] = "processed" /\ i \notin Members
  BY DEF ClusterFind
<1>2. PICK c \in 0..Items :
        /\ clustering' = [item |-> i, target |-> c, row |-> IF c = 0 THEN NoCandidate ELSE candidate[c]]
        /\ c # 0 => c \in Item /\ candidate[c].state # "none"
  <2>1. PICK c \in IF LineageParent(i) # {} THEN LineageParent(i)
                   ELSE IF Best(i) # {} THEN Best(i) ELSE {0} :
          clustering' = [item |-> i, target |-> c, row |-> IF c = 0 THEN NoCandidate ELSE candidate[c]]
    BY DEF ClusterFind
  <2>2. c = 0 \/ (c \in Item /\ candidate[c].state # "none")
    BY <2>1 DEF LineageParent, Best, ATTACHABLE_STATES
  <2>3. QED
    BY <2>1, <2>2, NumbersAreNat DEF Item
<1>3. NoCandidate \in Candidate
  BY NumbersAreNat DEF NoCandidate, Candidate, States
<1>4. (IF c = 0 THEN NoCandidate ELSE candidate[c]) \in Candidate
  BY <1>2, <1>3, Facts
<1>5. clustering' \in [item : Item, target : 0..Items, row : Candidate]
  BY <1>2, <1>4
<1>6. Typed'
  BY <1>1, <1>5, Facts DEF IInv, Typed, TypeOK, editor, sources
<1>7. clustering'.item = i /\ clustering'.target = c
  BY <1>2
<1>8. FoundIsFree'
  BY <1>1, <1>2, <1>7 DEF FoundIsFree, Members
<1>9. SeedIsMember' /\ RunIsOfCandidates' /\ CollectedInOrder'
  BY <1>1 DEF IInv, SeedIsMember, RunIsOfCandidates, CollectedInOrder, Members
<1>10. PromotedIsTold' /\ SpentIsKnown'
  BY <1>1, EditorStays
<1>11. QED
  BY <1>6, <1>8, <1>9, <1>10 DEF IInv

LEMMA AttachedIs ==
  ASSUME IInv, NEW q \in Candidate, NEW loaded \in Candidate, NEW i \in Item
  PROVE  /\ Attached(q, loaded, i) \in Candidate
         /\ Attached(q, loaded, i).members = q.members \cup {i}
         /\ Attached(q, loaded, i).state \in {q.state, "active"}
         /\ q.seen # None /\ Attached(q, loaded, i).seen = None => {i} \in Groups(q.members \cup {i})
<1> DEFINE state == IF loaded.state = "stale" THEN "active" ELSE q.state
           seen == IF loaded.seen # None /\ {i} \in Groups(q.members \cup {i}) THEN None ELSE q.seen
           late == Max2(q.latest, posted[i])
<1>1. state \in States /\ seen \in Int
  BY NumbersAreNat DEF Candidate, States
<1>2. late \in Int
  <2>1. posted[i] \in Int /\ q.latest \in Int
    BY Facts DEF Candidate
  <2>2. QED
    BY <2>1 DEF Max2
<1>3. Attached(q, loaded, i)
        = [q EXCEPT !.state = state, !.members = q.members \cup {i}, !.latest = late, !.seen = seen]
  BY DEF Attached, Candidate
<1>4. state \in {q.state, "active"} /\ (q.seen # None /\ seen = None => {i} \in Groups(q.members \cup {i}))
  OBVIOUS
<1> HIDE DEF state, seen, late
<1> DEFINE q1 == [q EXCEPT !.state = state]
           q2 == [q1 EXCEPT !.members = q.members \cup {i}]
           q3 == [q2 EXCEPT !.latest = late]
           q4 == [q3 EXCEPT !.seen = seen]
<1>5. q.members \cup {i} \in SUBSET Item
  BY DEF Candidate
<1>6. q1 \in Candidate /\ q2 \in Candidate /\ q3 \in Candidate /\ q4 \in Candidate
  BY <1>1, <1>2, <1>5 DEF Candidate
<1>7. q4.members = q.members \cup {i} /\ q4.state = state /\ q4.seen = seen
  BY DEF Candidate
<1>8. QED
  BY <1>3, <1>4, <1>6, <1>7

\* What a clustering run writes: one candidate gets the item it has in hand,
\* or the item seeds a candidate where there was none.
LEMMA ClusterWrites ==
  ASSUME IInv, ClusterWrite
  PROVE  \E i \in Item, c \in Item, q \in Candidate :
           /\ i = clustering.item /\ i \notin Members /\ items[i] # "none"
           /\ candidate' = [candidate EXCEPT ![c] = q]
           /\ q.members = candidate[c].members \cup {i} /\ q.state # "none"
           /\ c # i => candidate[c].state # "none"
           /\ candidate[c].state = "none" => c = i
           /\ candidate[c].seen # None /\ q.seen = None => {i} \in Groups(candidate[c].members \cup {i})
<1>1. PICK f \in [item : Item, target : 0..Items, row : Candidate] : f = clustering
  BY DEF ClusterWrite, IInv, Typed
<1>2. f.item \notin Members /\ items[f.item] # "none" /\ (f.target # 0 => candidate[f.target].state # "none")
  BY <1>1 DEF IInv, FoundIsFree, ClusterWrite
<1>3. CASE f.target = 0
  <2>0. PICK i \in Item : i = f.item
    OBVIOUS
  <2> DEFINE new == [NoCandidate EXCEPT !.state = "active", !.first = posted[i], !.latest = posted[i]]
  <2>1. candidate' = [candidate EXCEPT ![i] = Created(i)] 
    BY <1>1, <1>3, <2>0 DEF ClusterWrite
  <2>2. i \notin candidate[i].members
    BY <1>2, <2>0 DEF Members
  <2>3. candidate[i] = NoCandidate
    BY <2>2 DEF IInv, SeedIsMember
  <2>4. NoCandidate \in Candidate
    BY NumbersAreNat DEF NoCandidate, Candidate, States
  <2>5. new \in Candidate /\ new.members = {} /\ new.state = "active"
    <3>1. PICK p \in Int : p = posted[i]
      BY Facts
    <3>2. PICK n0 \in Candidate : n0 = NoCandidate
      BY <2>4
    <3>3. PICK n1 \in Candidate : n1 = [n0 EXCEPT !.state = "active"]
      BY DEF Candidate, States
    <3>4. PICK n2 \in Candidate : n2 = [n1 EXCEPT !.first = p]
      BY DEF Candidate
    <3>5. PICK n3 \in Candidate : n3 = [n2 EXCEPT !.latest = p]
      BY DEF Candidate
    <3>6. n0.members = {}
      BY <3>2 DEF NoCandidate
    <3>7. n3.members = n0.members /\ n3.state = "active"
      BY <3>3, <3>4, <3>5 DEF Candidate
    <3>8. n3 = [n0 EXCEPT !.state = "active", !.first = p, !.latest = p]
      BY <3>3, <3>4, <3>5 DEF Candidate
    <3>9. QED
      BY <3>1, <3>2, <3>6, <3>7, <3>8
  <2>6. Created(i) = Attached(new, NoCandidate, i)
    BY DEF Created
  <2> HIDE DEF new
  <2>7. PICK q \in Candidate : q = Created(i) /\ q.members = {i} /\ q.state # "none"
    <3>1. PICK r \in Candidate, l \in Candidate : r = new /\ l = NoCandidate
      BY <2>4, <2>5
    <3>2. Attached(r, l, i) \in Candidate
      BY AttachedIs
    <3>3. Attached(r, l, i).members = r.members \cup {i}
      BY AttachedIs
    <3>4. Attached(r, l, i).state \in {r.state, "active"}
      BY AttachedIs
    <3>5. r.members \cup {i} = {i} /\ r.state # "none"
      BY <2>5, <3>1
    <3>6. QED
      BY <2>6, <3>1, <3>2, <3>3, <3>4, <3>5
  <2>8. candidate[i].members = {} /\ candidate[i].seen = None
    BY <2>3 DEF NoCandidate
  <2>9. /\ i \in Item /\ i = clustering.item /\ i \notin Members /\ items[i] # "none"
        /\ candidate' = [candidate EXCEPT ![i] = q]
        /\ q.members = candidate[i].members \cup {i} /\ q.state # "none"
    BY <1>1, <1>2, <2>0, <2>1, <2>7, <2>8
  <2>10. QED
    BY <2>8, <2>9
<1>4. CASE f.target # 0
  <2>1. PICK c \in Item, i \in Item : c = f.target /\ i = f.item
    BY <1>4, NumbersAreNat DEF Item
  <2>2. candidate' = [candidate EXCEPT ![c] = Attached(candidate[c], f.row, i)]
    BY <1>1, <1>4, <2>1 DEF ClusterWrite
  <2>3. candidate[c] \in Candidate /\ f.row \in Candidate /\ candidate[c].state # "none"
    BY <1>2, <1>4, <2>1, Facts
  <2>4. PICK q \in Candidate :
          /\ q = Attached(candidate[c], f.row, i)
          /\ q.members = candidate[c].members \cup {i} /\ q.state # "none"
          /\ candidate[c].seen # None /\ q.seen = None => {i} \in Groups(candidate[c].members \cup {i})
    <3>1. PICK r \in Candidate, l \in Candidate : r = candidate[c] /\ l = f.row
      BY <2>3
    <3>2. Attached(r, l, i) \in Candidate
      BY AttachedIs
    <3>3. Attached(r, l, i).members = r.members \cup {i}
      BY AttachedIs
    <3>4. Attached(r, l, i).state \in {r.state, "active"}
      BY AttachedIs
    <3>5. r.seen # None /\ Attached(r, l, i).seen = None => {i} \in Groups(r.members \cup {i})
      BY AttachedIs
    <3>6. QED
      BY <2>3, <3>1, <3>2, <3>3, <3>4, <3>5
  <2>5. candidate' = [candidate EXCEPT ![c] = q] /\ i = clustering.item
    BY <1>1, <2>1, <2>2, <2>4
  <2>6. i \notin Members /\ items[i] # "none"
    BY <1>2, <2>1
  <2>7. QED
    BY <2>1, <2>3, <2>4, <2>5, <2>6
<1>5. QED
  BY <1>3, <1>4

LEMMA ClusterWriteKeeps == ASSUME IInv, ClusterWrite PROVE IInv'
<1>1. PICK i \in Item, c \in Item, q \in Candidate :
        /\ i = clustering.item /\ i \notin Members /\ items[i] # "none"
        /\ candidate' = [candidate EXCEPT ![c] = q]
        /\ q.members = candidate[c].members \cup {i} /\ q.state # "none"
        /\ c # i => candidate[c].state # "none"
  BY ClusterWrites
<1>2. UNCHANGED <<items, posted, editor, automatic, sources, now, operated>> /\ clustering' = Nil
  BY DEF ClusterWrite
<1>3. candidate \in [Item -> Candidate]
  BY Facts
<1>4. Typed'
  BY <1>1, <1>2, <1>3, Facts DEF IInv, Typed, TypeOK, editor, sources
<1>5. SeedIsMember'
  <2>1. c \in q.members
    BY <1>1 DEF IInv, SeedIsMember
  <2>2. QED
    BY <1>1, <1>3, <2>1 DEF IInv, SeedIsMember
<1>6. FoundIsFree'
  BY <1>2 DEF FoundIsFree
<1>7. CollectedInOrder'
  <2>1. Members' \subseteq Members \cup {i}
    BY <1>1, <1>3 DEF Members
  <2>2. QED
    BY <1>1, <1>2, <2>1 DEF IInv, CollectedInOrder
<1>8. RunIsOfCandidates'
  BY <1>1, <1>2, <1>3, RunIsTyped DEF IInv, RunIsOfCandidates
<1>9. PromotedIsTold' /\ SpentIsKnown'
  BY <1>2, EditorStays
<1>10. QED
  BY <1>4, <1>5, <1>6, <1>7, <1>8, <1>9 DEF IInv

LEMMA SpentFacts ==
  ASSUME IInv
  PROVE  /\ \A hour : Cardinality(Promoted(events, hour)) \in Nat
         /\ \A runs : Cardinality(Slots(runs)) \in Nat
         /\ \A hour \in 0..MaxNow : automatic.most[hour] \in Nat /\ Budget * automatic.most[hour] \in Nat
         /\ now \in 0..MaxNow
<1>1. \A hour \in 0..MaxNow : automatic.most[hour] \in Nat
  BY RunIsTyped DEF Automatic
<1>2. QED
  BY <1>1, EventsAreTyped, PromotedIsFinite, SlotsAreFinite, MoreBudgets, Facts

LEMMA TickKeeps == ASSUME IInv, Tick PROVE IInv'
<1>1. /\ now' = now + 1 /\ now < MaxNow /\ UNCHANGED <<signals, editor, sources, operated>>
      /\ automatic' = [automatic EXCEPT !.most[now + 1] = Cardinality(Running)]
  BY DEF Tick
<1>2. now \in 0..MaxNow /\ now' \in 0..MaxNow
  BY <1>1, Facts, NumbersAreNat
<1>3. Running \in SUBSET Promoter /\ Cardinality(Running) \in Nat
  BY PromotersAreFinite DEF Running
<1>4. /\ automatic' \in Automatic /\ automatic'.runs = automatic.runs
      /\ \A hour \in 0..MaxNow :
           automatic'.most[hour] = IF hour = now + 1 THEN Cardinality(Running) ELSE automatic.most[hour]
  <2>1. PICK a \in Automatic : a = automatic
    BY RunIsTyped
  <2>2. [a.most EXCEPT ![now + 1] = Cardinality(Running)] \in [0..MaxNow -> Nat]
    BY <1>3 DEF Automatic
  <2>3. automatic' = [a EXCEPT !.most = [a.most EXCEPT ![now + 1] = Cardinality(Running)]]
    BY <1>1, <2>1 DEF Automatic
  <2>4. QED
    BY <2>1, <2>2, <2>3 DEF Automatic
<1>5. Typed'
  BY <1>1, <1>2, <1>4, Facts DEF IInv, Typed, TypeOK, signals, editor, sources
<1>6. SeedIsMember' /\ FoundIsFree' /\ RunIsOfCandidates' /\ PromotedIsTold'
  BY <1>1, <1>4 DEF IInv, SeedIsMember, FoundIsFree, RunIsOfCandidates, Members, PromotedIsTold, Book, Counted,
              Apart, StoryOf, StoriesOf, signals, editor
<1>7. CollectedInOrder'
  <2>1. \A i \in Item : posted[i] \in Int /\ posted[i] <= now
    BY Facts DEF IInv, CollectedInOrder
  <2>2. QED
    BY <1>1, <1>2, <2>1 DEF IInv, CollectedInOrder, Members, signals
<1>8. SpentIsKnown'
  <2>1. \A e \in DOMAIN events : events[e].at <= now /\ events[e].at \in Int
    BY EventsAreTyped DEF IInv, SpentIsKnown, Event
  <2>2. Promoted(events, now + 1) = {}
    BY <1>2, <2>1 DEF Promoted
  <2>3. Cardinality(Promoted(events, now + 1)) = 0
    BY <2>2, FS_EmptySet
  <2>4. \A e \in DOMAIN events' : events'[e].at <= now'
    BY <1>1, <1>2, <2>1 DEF editor
  <2>5. Budget * Cardinality(Running) \in Nat
    BY <1>3, MoreBudgets
  <2>6. \A hour \in 0..MaxNow : Cardinality(Promoted(events, hour)) <= Budget * automatic'.most[hour]
    <3>1. SUFFICES ASSUME NEW hour \in 0..MaxNow
                   PROVE  Cardinality(Promoted(events, hour)) <= Budget * automatic'.most[hour]
      OBVIOUS
    <3>2. CASE hour = now + 1
      BY <1>4, <2>3, <2>5, <3>2
    <3>3. CASE hour # now + 1
      BY <1>4, <3>3 DEF IInv, SpentIsKnown
    <3>4. QED
      BY <3>2, <3>3
  <2>7. Cardinality(Slots(automatic.runs)) <= Budget * Cardinality(Running)
    BY <1>3, SlotsOfRunning DEF Running
  <2>8. automatic'.most[now + 1] = Cardinality(Running)
    BY <1>1, <1>2, <1>4
  <2>9. Cardinality(Promoted(events', now')) + Cardinality(Slots(automatic'.runs)) <= Budget * automatic'.most[now']
    <3>1. events' = events /\ now' = now + 1
      BY <1>1 DEF editor
    <3>2. Cardinality(Promoted(events', now')) = 0
      BY <2>3, <3>1
    <3>3. QED
      BY <1>4, <2>7, <2>8, <3>1, <3>2, SpentFacts
  <2>10. QED
    BY <1>1, <2>4, <2>6, <2>9 DEF SpentIsKnown, editor
<1>9. QED
  BY <1>5, <1>6, <1>7, <1>8 DEF IInv

LEMMA RunParts ==
  ASSUME IInv, UNCHANGED <<signals, editor, sources, now>>, operated' \in 0..MaxOperator,
         automatic' \in Automatic, RunIsOfCandidates', SpentIsKnown'
  PROVE  IInv'
<1>1. Typed'
  BY Facts DEF IInv, Typed, TypeOK, signals, editor, sources
<1>2. SeedIsMember' /\ FoundIsFree' /\ PromotedIsTold' /\ CollectedInOrder'
  BY DEF IInv, SeedIsMember, FoundIsFree, CollectedInOrder, Members, PromotedIsTold, Book, Counted, Apart,
         StoryOf, StoriesOf, signals, editor
<1>3. QED
  BY <1>1, <1>2 DEF IInv

\* The runs, with another one in the place of one of them.
LEMMA OneRunChanges ==
  ASSUME IInv, NEW p \in Promoter, NEW run \in Run \cup {Nil}, automatic' = [automatic EXCEPT !.runs[p] = run]
  PROVE  /\ automatic' \in Automatic /\ automatic'.runs[p] = run /\ automatic'.most = automatic.most
         /\ \A q \in Promoter \ {p} : automatic'.runs[q] = automatic.runs[q]
<1>1. PICK a \in Automatic : a = automatic
  BY RunIsTyped
<1>2. [a.runs EXCEPT ![p] = run] \in [Promoter -> {Nil} \cup Run]
  BY DEF Automatic
<1>3. automatic' = [a EXCEPT !.runs = [a.runs EXCEPT ![p] = run]]
  BY <1>1 DEF Automatic
<1>4. QED
  BY <1>1, <1>2, <1>3 DEF Automatic

LEMMA AutoBeginKeeps == ASSUME IInv, NEW p \in Promoter, AutoBegin(p) PROVE IInv'
<1> DEFINE active == {c \in Item : candidate[c].state = "active"}
           run == [left |-> BudgetRemaining, rows |-> [c \in active |-> candidate[c]]]
           most == Max2(automatic.most[now], Cardinality(Running) + 1)
<1>1. /\ automatic' = [automatic EXCEPT !.runs[p] = run, !.most[now] = most] /\ BudgetRemaining > 0
      /\ UNCHANGED <<signals, editor, sources, now, operated>>
  BY DEF AutoBegin
<1>2. PromotionsInLastHour = Cardinality(Promoted(events, now)) /\ Cardinality(Promoted(events, now)) \in Nat
  BY BudgetIsOfPromoted, EventsAreTyped, PromotedIsFinite
<1>3. BudgetRemaining \in 1..Budget /\ Cardinality(Promoted(events, now)) + BudgetRemaining <= Budget
  BY <1>1, <1>2, NumbersAreNat DEF BudgetRemaining, Max2
<1>4. [c \in active |-> candidate[c]] \in UNION {[D -> Candidate] : D \in SUBSET Item}
  <2>1. active \in SUBSET Item /\ [c \in active |-> candidate[c]] \in [active -> Candidate]
    BY Facts
  <2>2. QED
    BY <2>1
<1>5. run \in Run
  BY <1>3, <1>4 DEF Run
<1>6. run.left = BudgetRemaining /\ DOMAIN run.rows = active
  OBVIOUS
<1>7. /\ Running \in SUBSET Promoter /\ Cardinality(Running) \in Nat /\ now \in 0..MaxNow
      /\ automatic.most[now] \in Nat
  BY PromotersAreFinite, SpentFacts DEF Running
<1>8. most \in Nat /\ automatic.most[now] <= most /\ Cardinality(Running) + 1 <= most
  BY <1>7 DEF Max2
<1> HIDE DEF run, most
<1>9. /\ automatic' \in Automatic /\ automatic'.runs[p] = run
      /\ \A q \in Promoter \ {p} : automatic'.runs[q] = automatic.runs[q]
      /\ \A hour \in 0..MaxNow : automatic'.most[hour] = IF hour = now THEN most ELSE automatic.most[hour]
  <2>1. PICK a \in Automatic : a = automatic
    BY RunIsTyped
  <2>2. [a.runs EXCEPT ![p] = run] \in [Promoter -> {Nil} \cup Run]
    BY <1>5 DEF Automatic
  <2>3. [a.most EXCEPT ![now] = most] \in [0..MaxNow -> Nat]
    BY <1>8 DEF Automatic
  <2>4. automatic' = [[a EXCEPT !.runs = [a.runs EXCEPT ![p] = run]] EXCEPT !.most = [a.most EXCEPT ![now] = most]]
    BY <1>1, <2>1 DEF Automatic
  <2>5. QED
    BY <1>7, <2>1, <2>2, <2>3, <2>4 DEF Automatic
<1>10. RunIsOfCandidates'
  <2>1. \A c \in DOMAIN run.rows : candidate'[c].state # "none"
    BY <1>1, <1>6 DEF signals
  <2>2. QED
    BY <1>1, <1>9, <2>1 DEF IInv, RunIsOfCandidates, signals
<1>11. SpentIsKnown'
  <2>1. \A e \in DOMAIN events' : events'[e].at <= now'
    BY <1>1 DEF IInv, SpentIsKnown, editor
  <2>2. \A hour \in 0..MaxNow : Budget * automatic.most[hour] <= Budget * automatic'.most[hour]
    <3>1. \A hour \in 0..MaxNow : automatic.most[hour] \in Nat /\ automatic'.most[hour] \in Nat
                                  /\ automatic.most[hour] <= automatic'.most[hour]
      BY <1>8, <1>9, SpentFacts
    <3>2. QED
      BY <3>1, MoreBudgets
  <2>3. \A hour \in 0..MaxNow : Cardinality(Promoted(events, hour)) <= Budget * automatic'.most[hour]
    <3>1. SUFFICES ASSUME NEW hour \in 0..MaxNow
                   PROVE  Cardinality(Promoted(events, hour)) <= Budget * automatic'.most[hour]
      OBVIOUS
    <3>2. Cardinality(Promoted(events, hour)) <= Budget * automatic.most[hour]
      BY DEF IInv, SpentIsKnown
    <3>3. /\ Cardinality(Promoted(events, hour)) \in Nat /\ Budget * automatic.most[hour] \in Nat
          /\ Budget * automatic'.most[hour] \in Nat
      <4>1. automatic'.most[hour] \in Nat
        BY <1>9 DEF Automatic
      <4>2. QED
        BY <4>1, SpentFacts, MoreBudgets
    <3>4. QED
      BY <2>2, <3>2, <3>3
  <2>4. Cardinality(Slots(automatic.runs)) <= Budget * Cardinality(Running)
    BY <1>7, SlotsOfRunning DEF Running
  <2>5. Cardinality(Slots(automatic'.runs)) <= Cardinality(Slots(automatic.runs)) + BudgetRemaining
    <3>1. automatic'.runs[p].left = BudgetRemaining
      BY <1>6, <1>9
    <3>2. QED
      BY <1>3, <1>9, <3>1, SlotsOfOneMore
  <2>6. /\ Budget * (Cardinality(Running) + 1) = Budget * Cardinality(Running) + Budget
        /\ Budget * (Cardinality(Running) + 1) <= Budget * most
        /\ Budget * Cardinality(Running) \in Nat /\ Budget * most \in Nat
    BY <1>7, <1>8, MoreBudgets
  <2>7. automatic'.most[now] = most
    BY <1>7, <1>9
  <2>8. Cardinality(Promoted(events, now)) + Cardinality(Slots(automatic'.runs)) <= Budget * automatic'.most[now]
    <3>1. Cardinality(Slots(automatic'.runs)) \in Nat /\ Cardinality(Slots(automatic.runs)) \in Nat
      BY SpentFacts
    <3>2. Cardinality(Promoted(events, now)) + Cardinality(Slots(automatic'.runs)) <= Budget * most
      BY <1>2, <1>3, <2>4, <2>5, <2>6, <3>1, NumbersAreNat
    <3>3. QED
      BY <2>7, <3>2
  <2>9. QED
    BY <1>1, <2>1, <2>3, <2>8 DEF SpentIsKnown, editor
<1>12. QED
  BY <1>1, <1>9, <1>10, <1>11, Facts, RunParts

\* Runs that end leave what they had.
LEMMA FewerSlotsKeep ==
  ASSUME IInv, UNCHANGED <<events, now>>, automatic'.most = automatic.most,
         Cardinality(Slots(automatic'.runs)) <= Cardinality(Slots(automatic.runs))
  PROVE  SpentIsKnown'
<1>1. Cardinality(Promoted(events, now)) + Cardinality(Slots(automatic'.runs)) <= Budget * automatic.most[now]
  <2>1. Cardinality(Promoted(events, now)) + Cardinality(Slots(automatic.runs)) <= Budget * automatic.most[now]
    BY DEF IInv, SpentIsKnown
  <2>2. /\ Cardinality(Promoted(events, now)) \in Nat /\ Cardinality(Slots(automatic.runs)) \in Nat
        /\ Cardinality(Slots(automatic'.runs)) \in Nat /\ Budget * automatic.most[now] \in Nat
    BY SpentFacts
  <2>3. QED
    BY <2>1, <2>2
<1>2. QED
  BY <1>1 DEF IInv, SpentIsKnown

LEMMA AutoEnds ==
  ASSUME IInv, (\E p \in Promoter : AutoCrash(p)) \/ SettingsUpdate
  PROVE  IInv'
<1>1. /\ UNCHANGED <<signals, editor, sources, now>> /\ operated' \in 0..MaxOperator
      /\ automatic' \in Automatic /\ automatic'.most = automatic.most
      /\ \A p \in Promoter : automatic'.runs[p] \in {automatic.runs[p], Nil}
  <2>1. PICK a \in Automatic : a = automatic
    BY RunIsTyped
  <2>2. CASE \E p \in Promoter : AutoCrash(p)
    <3>1. PICK p \in Promoter : AutoCrash(p)
      BY <2>2
    <3>2. automatic' = [automatic EXCEPT !.runs[p] = Nil]
      BY <3>1 DEF AutoCrash
    <3>3. QED
      BY <3>1, <3>2, Facts, OneRunChanges DEF AutoCrash
  <2>3. CASE SettingsUpdate
    <3>1. [a EXCEPT !.on = ~@] \in Automatic /\ [a EXCEPT !.on = ~@].runs = a.runs /\ [a EXCEPT !.on = ~@].most = a.most
      BY DEF Automatic
    <3>2. QED
      BY <2>1, <2>3, <3>1, Facts DEF SettingsUpdate
  <2>4. QED
    BY <2>2, <2>3
<1>2. RunIsOfCandidates'
  BY <1>1 DEF IInv, RunIsOfCandidates, signals
<1>3. Cardinality(Slots(automatic'.runs)) <= Cardinality(Slots(automatic.runs))
  <2>1. \A q \in Promoter : automatic'.runs[q] # Nil => automatic'.runs[q] = automatic.runs[q]
    BY <1>1
  <2>2. \A q \in Promoter : automatic.runs[q] # Nil => automatic.runs[q].left \in Int
    BY RunIsTyped
  <2>3. QED
    BY <2>1, <2>2, SlotsOfFewer
<1>4. SpentIsKnown'
  BY <1>1, <1>3, FewerSlotsKeep DEF editor
<1>5. QED
  BY <1>1, <1>2, <1>4, RunParts

LEMMA BackfillKeeps == ASSUME IInv, NEW t \in Text, Backfill(t) PROVE IInv'
<1>1. /\ stories' = Process(stories, t, About[t], now) /\ suggestion' = Mined({t})
      /\ UNCHANGED <<signals, evidence, events, automatic, registry, now, operated>>
  BY DEF Backfill
<1>2. Book(stories) /\ About[t] \in SUBSET Topic /\ now \in 0..MaxNow
  BY TopicAssumption, Facts DEF IInv, PromotedIsTold
<1>3. Book(stories') /\ Keeps(stories, stories')
  BY <1>1, <1>2, ProcessTells
<1>4. PromotedIsTold'
  BY <1>1, <1>3, ToldStays
<1>5. suggestion' \in [Name -> Suggestion]
  BY <1>1, Facts, MinedIsTyped
<1>6. Typed'
  BY <1>1, <1>3, <1>5, Facts DEF IInv, Typed, TypeOK, signals, Book
<1>7. SeedIsMember' /\ FoundIsFree' /\ RunIsOfCandidates' /\ CollectedInOrder' /\ SpentIsKnown'
  BY <1>1 DEF IInv, SeedIsMember, FoundIsFree, RunIsOfCandidates, CollectedInOrder, Members, SpentIsKnown,
              Promoted, Slots, signals
<1>8. QED
  BY <1>4, <1>6, <1>7 DEF IInv

\* A visit of the automatic promotion: it goes on with the other candidates
\* and what is left, or ends.
LEMMA VisitGoesOn ==
  ASSUME IInv, NEW p \in Promoter, AutoVisit(p)
  PROVE  \E c \in Item, left \in Nat, run \in Run \cup {Nil} :
           /\ automatic.runs[p] # Nil /\ c \in DOMAIN automatic.runs[p].rows
           /\ automatic' = [automatic EXCEPT !.runs[p] = run]
           /\ run # Nil => run.left = left /\ DOMAIN run.rows \subseteq DOMAIN automatic.runs[p].rows
           /\ \/ /\ left = automatic.runs[p].left - 1
                 /\ PromoteLoaded(c, automatic.runs[p].rows[c], 0, TRUE)
              \/ /\ left = automatic.runs[p].left
                 /\ UNCHANGED <<candidate, editor, suggestion>>
<1>1. automatic.runs[p] # Nil
  BY DEF AutoVisit
<1> DEFINE R == automatic.runs[p]
<1>2. R \in Run
  BY <1>1, RunIsTyped
<1>3. /\ R.left \in 1..Budget /\ DOMAIN R.rows \subseteq Item
      /\ R.rows \in [DOMAIN R.rows -> Candidate]
  BY <1>1, <1>2, RunIsTyped
<1>4. PICK c \in DOMAIN R.rows :
        LET promotes == Eligible(R.rows[c])
            left == IF promotes THEN R.left - 1 ELSE R.left
            rest == DOMAIN R.rows \ {c}
        IN /\ IF promotes THEN PromoteLoaded(c, R.rows[c], 0, TRUE)
              ELSE UNCHANGED <<candidate, editor, suggestion>>
           /\ automatic' = [automatic EXCEPT !.runs[p] =
                IF rest = {} \/ left = 0 THEN Nil
                ELSE [left |-> left, rows |-> [d \in rest |-> R.rows[d]]]]
  BY Zenon DEF AutoVisit
<1> DEFINE promotes == Eligible(R.rows[c])
           left == IF promotes THEN R.left - 1 ELSE R.left
           rest == DOMAIN R.rows \ {c}
           next == [left |-> left, rows |-> [d \in rest |-> R.rows[d]]]
           run == IF rest = {} \/ left = 0 THEN Nil ELSE next
<1>5. left \in 0..Budget
  BY <1>3, NumbersAreNat
<1>6. [d \in rest |-> R.rows[d]] \in UNION {[D -> Candidate] : D \in SUBSET Item}
  <2>1. rest \in SUBSET Item /\ [d \in rest |-> R.rows[d]] \in [rest -> Candidate]
    BY <1>3
  <2>2. QED
    BY <2>1
<1>7. left # 0 => next \in Run
  <2> HIDE DEF left
  <2>1. left # 0 => left \in 1..Budget
    BY <1>5, NumbersAreNat
  <2>2. QED
    BY <1>6, <2>1 DEF Run
<1>8. run # Nil => run = next
  OBVIOUS
<1>9. run \in Run \cup {Nil}
  BY <1>7, <1>8
<1>10. next.left = left /\ DOMAIN next.rows = rest /\ rest \subseteq DOMAIN R.rows
  OBVIOUS
<1>11. automatic' = [automatic EXCEPT !.runs[p] = run]
  BY <1>4
<1>12. \/ left = R.left - 1 /\ PromoteLoaded(c, R.rows[c], 0, TRUE)
       \/ left = R.left /\ UNCHANGED <<candidate, editor, suggestion>>
  BY <1>4
<1> HIDE DEF left, rest, next, run, promotes
<1>13. c \in Item /\ c \in DOMAIN automatic.runs[p].rows /\ left \in Nat
  BY <1>2, <1>3, <1>5
<1>14. run # Nil => run.left = left /\ DOMAIN run.rows \subseteq DOMAIN automatic.runs[p].rows
  BY <1>2, <1>8, <1>10
<1>15. \/ left = automatic.runs[p].left - 1 /\ PromoteLoaded(c, automatic.runs[p].rows[c], 0, TRUE)
       \/ left = automatic.runs[p].left /\ UNCHANGED <<candidate, editor, suggestion>>
  BY <1>2, <1>12
<1>16. QED
  BY <1>1, <1>9, <1>11, <1>13, <1>14, <1>15

LEMMA AutoVisitKeeps == ASSUME IInv, NEW p \in Promoter, AutoVisit(p) PROVE IInv'
<1>1. PICK c \in Item, left \in Nat, run \in Run \cup {Nil} :
        /\ automatic.runs[p] # Nil /\ c \in DOMAIN automatic.runs[p].rows
        /\ automatic' = [automatic EXCEPT !.runs[p] = run]
        /\ run # Nil => run.left = left /\ DOMAIN run.rows \subseteq DOMAIN automatic.runs[p].rows
        /\ \/ /\ left = automatic.runs[p].left - 1
              /\ PromoteLoaded(c, automatic.runs[p].rows[c], 0, TRUE)
           \/ /\ left = automatic.runs[p].left
              /\ UNCHANGED <<candidate, editor, suggestion>>
  BY VisitGoesOn
<1>2. UNCHANGED <<items, posted, clustering, registry, reputation, review, now, operated>>
  BY DEF AutoVisit
<1>3. /\ automatic' \in Automatic /\ automatic'.runs[p] = run /\ automatic'.most = automatic.most
      /\ \A q \in Promoter \ {p} : automatic'.runs[q] = automatic.runs[q]
  BY <1>1, OneRunChanges
<1>4. candidate[c].state # "none"
  BY <1>1 DEF IInv, RunIsOfCandidates
<1>5. /\ automatic.runs[p].left \in 1..Budget
      /\ \A q \in Promoter : automatic.runs[q] # Nil =>
           DOMAIN automatic.runs[q].rows \subseteq Item /\ automatic.runs[q].left \in Int
  BY <1>1, RunIsTyped
<1>6. /\ Cardinality(Slots(automatic'.runs)) \in Nat /\ Cardinality(Slots(automatic.runs)) \in Nat
      /\ \A hour : Cardinality(Promoted(events, hour)) \in Nat
      /\ \A hour \in 0..MaxNow : Budget * automatic.most[hour] \in Nat
      /\ now \in 0..MaxNow
  BY SpentFacts
<1>7. CASE UNCHANGED <<candidate, editor, suggestion>>
  <2>1. RunIsOfCandidates'
    BY <1>1, <1>3, <1>7 DEF IInv, RunIsOfCandidates
  <2>2. Cardinality(Slots(automatic'.runs)) <= Cardinality(Slots(automatic.runs))
    <3>1. left \in Int /\ left <= automatic.runs[p].left
      <4>1. left = automatic.runs[p].left - 1 \/ left = automatic.runs[p].left
        BY <1>1
      <4>2. QED
        BY <1>5, <4>1
    <3>2. \A q \in Promoter :
            automatic'.runs[q] # Nil => /\ automatic.runs[q] # Nil /\ automatic.runs[q].left \in Int
                                        /\ automatic'.runs[q].left \in Int
                                        /\ automatic'.runs[q].left <= automatic.runs[q].left
      BY <1>1, <1>3, <1>5, <3>1
    <3>3. QED
      BY <3>2, SlotsOfFewer
  <2>3. SpentIsKnown'
    BY <1>2, <1>3, <1>7, <2>2, FewerSlotsKeep DEF editor
  <2>4. QED
    BY <1>2, <1>3, <1>7, <2>1, <2>3, Facts, RunParts DEF signals, sources, editor
<1>8. CASE /\ PromoteLoaded(c, automatic.runs[p].rows[c], 0, TRUE) /\ automatic.runs[p].rows[c].story # 0
  <2>1. UNCHANGED <<candidate, editor, suggestion>>
    BY <1>8 DEF PromoteLoaded
  <2>2. QED
    BY <1>7, <2>1
<1>9. CASE /\ left = automatic.runs[p].left - 1
           /\ PromoteLoaded(c, automatic.runs[p].rows[c], 0, TRUE) /\ automatic.runs[p].rows[c].story = 0
  <2>1. 0 \in 0..Len(stories)
    BY LenProperties DEF IInv, Typed
  <2>2. /\ SameCandidates /\ PromotedIsTold' /\ stories' \in Seq(Story)
        /\ DOMAIN evidence' \subseteq Text /\ suggestion' \in [Name -> Suggestion]
    BY <1>4, <1>9, <2>1, PromotionWrites
  <2>3. PICK ev \in Event : events' = Append(events, ev) /\ ev.automatic /\ ev.at = now
    BY <1>4, <1>9, <2>1, PromotionWrites
  <2>4. /\ events' \in Seq(Event) /\ DOMAIN events' = 1..(Len(events) + 1) /\ events'[Len(events) + 1] = ev
        /\ \A m \in 1..Len(events) : events'[m] = events[m]
    BY <2>3, EventsAreTyped, OneMoreEvent
  <2>5. Typed'
    BY <1>2, <1>3, <2>2, <2>4, Facts DEF IInv, Typed, TypeOK, SameCandidates
  <2>6. SeedIsMember' /\ FoundIsFree' /\ CollectedInOrder'
    BY <1>2, <2>2, RestyledParts
  <2>7. RunIsOfCandidates'
    <3>1. \A q \in Promoter : automatic.runs[q] # Nil =>
            \A d \in DOMAIN automatic.runs[q].rows : d \in Item /\ candidate[d].state # "none"
      BY <1>5 DEF IInv, RunIsOfCandidates
    <3>2. \A q \in Promoter : automatic.runs[q] # Nil =>
            \A d \in DOMAIN automatic.runs[q].rows : candidate'[d].state # "none"
      BY <2>2, <3>1 DEF SameCandidates
    <3>3. QED
      BY <1>1, <1>3, <3>2 DEF RunIsOfCandidates
  <2>8. SpentIsKnown'
    <3>1. \A hour : Cardinality(Promoted(events', hour))
                      = IF hour = now THEN Cardinality(Promoted(events, hour)) + 1
                        ELSE Cardinality(Promoted(events, hour))
      BY <2>3, EventsAreTyped, PromotedOnceMore
    <3>2. Cardinality(Promoted(events, now)) + Cardinality(Slots(automatic.runs)) <= Budget * automatic.most[now]
      BY DEF IInv, SpentIsKnown
    <3>3. Cardinality(Slots(automatic'.runs)) + 1 <= Cardinality(Slots(automatic.runs))
      <4>1. automatic'.runs[p] # Nil => automatic'.runs[p].left = automatic.runs[p].left - 1
        BY <1>1, <1>3, <1>9
      <4>2. QED
        BY <1>1, <1>3, <1>5, <4>1, SlotsOfOneLess
    <3>4. \A e \in DOMAIN events' : events'[e].at <= now
      BY <2>3, <2>4, Facts, EventsAreTyped DEF IInv, SpentIsKnown
    <3>5. Cardinality(Promoted(events', now)) = Cardinality(Promoted(events, now)) + 1
      BY <3>1
    <3>6. /\ Cardinality(Promoted(events', now)) + Cardinality(Slots(automatic'.runs)) <= Budget * automatic.most[now]
          /\ Cardinality(Promoted(events', now)) <= Budget * automatic.most[now]
      BY <1>6, <3>2, <3>3, <3>5
    <3>7. \A hour \in 0..MaxNow : Cardinality(Promoted(events', hour)) <= Budget * automatic.most[hour]
      <4>1. \A hour \in 0..MaxNow : Cardinality(Promoted(events, hour)) <= Budget * automatic.most[hour]
        BY DEF IInv, SpentIsKnown
      <4>2. QED
        BY <3>1, <3>6, <4>1
    <3>8. QED
      BY <1>2, <1>3, <3>4, <3>6, <3>7 DEF SpentIsKnown
  <2>9. QED
    BY <2>2, <2>5, <2>6, <2>7, <2>8 DEF IInv
<1>10. QED
  BY <1>1, <1>7, <1>8, <1>9

LEMMA InitIInv == Init => IInv
<1> SUFFICES ASSUME Init PROVE IInv
  OBVIOUS
<1>1. NoCandidate \in Candidate /\ NoCandidate.state = "none" /\ NoCandidate.members = {}
  BY NumbersAreNat DEF NoCandidate, Candidate, States
<1>2. /\ items = [i \in Item |-> "none"] /\ posted = [i \in Item |-> 0]
      /\ candidate = [c \in Item |-> NoCandidate] /\ stories = <<>> /\ events = <<>>
      /\ clustering = Nil /\ now = 0 /\ operated = 0 /\ registry = {} /\ DOMAIN evidence = {}
  BY DEF Init
<1>3. /\ automatic \in Automatic /\ \A p \in Promoter : automatic.runs[p] = Nil
      /\ \A hour \in 0..MaxNow : automatic.most[hour] = 0
  <2>1. PICK on \in BOOLEAN : automatic = [on |-> on, runs |-> [p \in Promoter |-> Nil],
                                           most |-> [hour \in 0..MaxNow |-> 0]]
    BY DEF Init
  <2>2. [p \in Promoter |-> Nil] \in [Promoter -> {Nil} \cup Run] /\ [hour \in 0..MaxNow |-> 0] \in [0..MaxNow -> Nat]
    OBVIOUS
  <2>3. QED
    BY <2>1, <2>2 DEF Automatic
<1>4. suggestion \in [Name -> Suggestion]
  BY DEF Init, Suggestion
<1>5. TypeOK
  BY <1>1, <1>2, <1>4, NumbersAreNat DEF TypeOK
<1>6. stories \in Seq(Story) /\ events \in Seq(Event) /\ DOMAIN stories = {} /\ DOMAIN events = {}
  <2>1. /\ <<>> \in Seq(Story) /\ <<>> \in Seq(Event) /\ Len(<<>>) = 0
    BY EmptySeq
  <2>2. DOMAIN <<>> = {}
    OBVIOUS
  <2>3. QED
    BY <1>2, <2>1, <2>2
<1>7. Typed
  BY <1>2, <1>3, <1>5, <1>6 DEF Typed
<1>8. SeedIsMember /\ FoundIsFree /\ RunIsOfCandidates
  BY <1>1, <1>2, <1>3 DEF SeedIsMember, FoundIsFree, RunIsOfCandidates
<1>9. CollectedInOrder
  BY <1>1, <1>2 DEF CollectedInOrder, Members
<1>10. PromotedIsTold
  BY <1>6 DEF PromotedIsTold, Book, Counted, Apart
<1>11. SpentIsKnown
  <2>1. \A hour : Promoted(events, hour) = {}
    BY <1>6 DEF Promoted
  <2>2. \A hour : Cardinality(Promoted(events, hour)) = 0
    BY <2>1, FS_EmptySet
  <2>3. Slots(automatic.runs) = {}
    BY <1>3 DEF Slots
  <2>4. Cardinality(Slots(automatic.runs)) = 0
    BY <2>3, FS_EmptySet
  <2>5. now \in 0..MaxNow /\ Budget * 0 = 0
    BY <1>2, NumbersAreNat
  <2>6. QED
    BY <1>3, <1>6, <2>2, <2>4, <2>5 DEF SpentIsKnown
<1>12. QED
  BY <1>7, <1>8, <1>9, <1>10, <1>11 DEF IInv

LEMMA NextIInv == IInv /\ [Next]_vars => IInv'
<1> SUFFICES ASSUME IInv, [Next]_vars PROVE IInv'
  OBVIOUS
<1>1. CASE UNCHANGED vars
  BY <1>1, Facts, QuietKeepsInvariant DEF vars, editor, sources
<1>2. CASE \E i \in Item : Arrive(i) \/ ClusterFind(i) \/ ItemToEvidence(i)
  BY <1>2, ArriveKeeps, ClusterFindKeeps, EvidenceKeeps
<1>3. CASE \E c \in Item : OfCandidate(c)
  <2>1. PICK c \in Item : OfCandidate(c)
    BY <1>3
  <2>2. CASE Seen(c) \/ Dismiss(c) \/ Restore(c) \/ Snooze(c) \/ SeenCommand(c) \/ DismissCommand(c)
    BY <2>2, RowsArePut DEF SeenCommand, DismissCommand
  <2>3. CASE \E story \in 0..Len(stories) : Promote(c, story)
    BY <2>3, PromoteKeeps
  <2>4. CASE \E r \in Reviewer : ReviewRead(r, c)
    BY <2>4, EvidenceKeeps
  <2>5. QED
    BY <2>1, <2>2, <2>3, <2>4 DEF OfCandidate
<1>4. CASE Analyze \/ ClusterWrite \/ Rescore \/ Maintain \/ Tick
  BY <1>4, AnalyzeKeeps, ClusterWriteKeeps, RescoreKeeps, MaintainKeeps, TickKeeps
<1>5. CASE (\E p \in Promoter : AutoBegin(p) \/ AutoVisit(p) \/ AutoCrash(p)) \/ SettingsUpdate
  BY <1>5, AutoBeginKeeps, AutoVisitKeeps, AutoEnds
<1>6. CASE \E t \in Text : Ingest(t) \/ Backfill(t)
  BY <1>6, EvidenceKeeps, BackfillKeeps
<1>7. CASE \E r \in Reviewer : ReviewWrite(r)
  BY <1>7, EvidenceKeeps
<1>8. CASE OfSource \/ RefreshHandles
  BY <1>8, SourcesKeep
<1>9. QED
  BY <1>1, <1>2, <1>3, <1>4, <1>5, <1>6, <1>7, <1>8 DEF Next

LEMMA SpecIInv == Spec => []IInv
BY InitIInv, NextIInv, PTL DEF Spec

-----------------------------------------------------------------------------
(* The invariants *)

\* Every variable of the radar has its type.
THEOREM TypeCorrect == Spec => []TypeOK
<1>1. IInv => TypeOK
  BY DEF IInv, Typed
<1>2. QED
  BY <1>1, SpecIInv, PTL

\* Evidence is told in one story, counted once, and what was promoted is in a
\* story, whichever of the operator, the automatic stage and the backfill of
\* the desk comes first, and in whatever order.
THEOREM CoverageIsCounted == Spec => []CoverageCounted
<1>1. IInv => CoverageCounted
  <2>1. SUFFICES ASSUME IInv PROVE CoverageCounted
    OBVIOUS
  <2>2. ASSUME NEW t \in Text PROVE Cardinality(StoriesOf(stories, t)) <= 1
    <3>1. \A n, m \in StoriesOf(stories, t) : n = m
      BY <2>1 DEF StoriesOf, IInv, PromotedIsTold, Book, Apart
    <3>2. CASE StoriesOf(stories, t) = {}
      BY <3>2, FS_EmptySet
    <3>3. CASE \E n : n \in StoriesOf(stories, t)
      <4>1. PICK n : n \in StoriesOf(stories, t)
        BY <3>3
      <4>2. StoriesOf(stories, t) = {n}
        BY <3>1, <4>1
      <4>3. Cardinality({n}) = 1
        BY FS_Singleton
      <4>4. QED
        BY <4>2, <4>3
    <3>4. QED
      BY <3>2, <3>3
  <2>3. QED
    BY <2>1, <2>2 DEF CoverageCounted, IInv, PromotedIsTold, Book, Counted
<1>2. QED
  BY <1>1, SpecIInv, PTL

\* Whatever the runs, how they overlap, the hours they span and the deaths
\* between two promotions: no hour sees more automatic promotions than the
\* budget for each of the runs that there were at once; with one at a time,
\* than the budget.
THEOREM BudgetIsKept == Spec => []BudgetHolds
<1>1. IInv => BudgetHolds
  BY DEF IInv, SpentIsKnown, BudgetHolds
<1>2. QED
  BY <1>1, SpecIInv, PTL

-----------------------------------------------------------------------------
(* Old candidates *)

\* What a step does to the candidates unless it is the clustering run's: the
\* members stay, and whether one was seen is changed by the operator alone.
Undisturbed ==
  /\ \A c \in Item : candidate'[c].members = candidate[c].members
  /\ \A i \in Item : items[i] # "none" => posted'[i] = posted[i]
  /\ now' >= now
  /\ operated' = operated => \A c \in Item : candidate'[c].seen = candidate[c].seen

LEMMA PromotionLeaves ==
  ASSUME IInv, NEW c \in Item, NEW row, NEW story, NEW auto, PromoteLoaded(c, row, story, auto)
  PROVE  \A d \in Item : /\ candidate'[d].members = candidate[d].members
                         /\ candidate'[d].seen = candidate[d].seen
<1>1. CASE candidate' = candidate
  BY <1>1
<1>2. CASE candidate' = [candidate EXCEPT ![c].state = "promoted", ![c].story = Told(c, story).story]
  <2>1. PICK q \in Candidate : q = candidate[c]
    BY Facts
  <2>2. candidate'[c] = [q EXCEPT !.state = "promoted", !.story = Told(c, story).story]
    BY <1>2, <2>1, Facts
  <2>3. candidate'[c].members = q.members /\ candidate'[c].seen = q.seen
    BY <2>2 DEF Candidate
  <2>4. QED
    BY <1>2, <2>1, <2>3, Facts
<1>3. QED
  BY <1>1, <1>2 DEF PromoteLoaded

LEMMA StepsUndisturbed == ASSUME IInv, [Next]_vars PROVE ClusterWrite \/ Undisturbed
<1>1. now \in Nat /\ operated \in Nat
  BY Facts
<1>2. CASE UNCHANGED <<candidate, posted, now>>
  BY <1>1, <1>2 DEF Undisturbed
<1>3. ASSUME Operator, UNCHANGED <<posted, now>>,
             \A c \in Item : candidate'[c].members = candidate[c].members
      PROVE  Undisturbed
  BY <1>1, <1>3 DEF Undisturbed, Operator
<1>4. CASE \/ UNCHANGED vars \/ Analyze \/ RefreshHandles \/ SettingsUpdate \/ OfSource
           \/ \E p \in Promoter : AutoBegin(p) \/ AutoCrash(p)
  BY <1>2, <1>4 DEF vars, signals, Analyze, RefreshHandles, Scan, AutoBegin, AutoCrash, SettingsUpdate, OfSource,
     RunSourceDiscovery, RecomputeReputations, Override, Decide, Accept, DiscoverFeed, AddSource
<1>5. CASE \E i \in Item : Arrive(i)
  BY <1>1, <1>5, Facts DEF Arrive, Undisturbed
<1>6. CASE \E i \in Item : ClusterFind(i) \/ ItemToEvidence(i)
  BY <1>2, <1>6 DEF ClusterFind, ItemToEvidence, signals
<1>7. CASE \E c \in Item : OfCandidate(c)
  <2>1. PICK c \in Item : OfCandidate(c)
    BY <1>7
  <2>2. ASSUME NEW row, Put(c, row), row.members = candidate[c].members PROVE Undisturbed
    <3>1. \A d \in Item : candidate'[d].members = candidate[d].members
      BY <2>2, Facts DEF Put
    <3>2. QED
      BY <1>3, <2>2, <3>1 DEF Put
  <2>3. PICK q \in Candidate : q = candidate[c]
    BY Facts
  <2>4. CASE Seen(c) \/ SeenCommand(c)
    <3>1. [q EXCEPT !.seen = IF @ = None THEN now ELSE None].members = q.members
      BY DEF Candidate
    <3>2. Put(c, [q EXCEPT !.seen = IF @ = None THEN now ELSE None])
      BY <2>3, <2>4 DEF Seen, SeenCommand
    <3>3. QED
      BY <2>2, <2>3, <3>1, <3>2
  <2>5. CASE Dismiss(c) \/ DismissCommand(c)
    <3>1. [q EXCEPT !.state = "dismissed"].members = q.members
      BY DEF Candidate
    <3>2. Put(c, [q EXCEPT !.state = "dismissed"])
      BY <2>3, <2>5 DEF Dismiss, DismissCommand
    <3>3. QED
      BY <2>2, <2>3, <3>1, <3>2
  <2>6. CASE Restore(c)
    <3>1. [q EXCEPT !.state = "active", !.until = None].members = q.members
      BY DEF Candidate
    <3>2. Put(c, [q EXCEPT !.state = "active", !.until = None])
      BY <2>3, <2>6 DEF Restore
    <3>3. QED
      BY <2>2, <2>3, <3>1, <3>2
  <2>7. CASE Snooze(c)
    <3>1. [q EXCEPT !.state = "snoozed", !.until = now + 1].members = q.members
      BY DEF Candidate
    <3>2. Put(c, [q EXCEPT !.state = "snoozed", !.until = now + 1])
      BY <2>3, <2>7 DEF Snooze
    <3>3. QED
      BY <2>2, <2>3, <3>1, <3>2
  <2>8. CASE \E story \in 0..Len(stories) : Promote(c, story)
    <3>1. PICK story \in 0..Len(stories) : Promote(c, story)
      BY <2>8
    <3>2. PromoteLoaded(c, candidate[c], story, FALSE)
      BY <3>1 DEF Promote
    <3>3. \A d \in Item : candidate'[d].members = candidate[d].members
      BY <3>2, PromotionLeaves
    <3>4. QED
      BY <1>3, <3>1, <3>3 DEF Promote
  <2>9. CASE \E r \in Reviewer : ReviewRead(r, c)
    BY <1>2, <2>9 DEF ReviewRead, signals
  <2>10. QED
    BY <2>1, <2>4, <2>5, <2>6, <2>7, <2>8, <2>9 DEF OfCandidate
<1>8. CASE Rescore
  <2>1. ASSUME NEW c \in Item
        PROVE  candidate'[c].members = candidate[c].members /\ candidate'[c].seen = candidate[c].seen
    <3>1. PICK q \in Candidate : q = candidate[c]
      BY Facts
    <3>2. candidate'[c] \in {q, [q EXCEPT !.score = Score(q)]}
      BY <1>8, <3>1 DEF Rescore
    <3>3. QED
      BY <3>1, <3>2 DEF Candidate
  <2>2. QED
    BY <1>1, <1>8, <2>1 DEF Rescore, Undisturbed
<1>9. CASE Maintain
  <2>1. ASSUME NEW c \in Item
        PROVE  candidate'[c].members = candidate[c].members /\ candidate'[c].seen = candidate[c].seen
    <3>1. PICK q \in Candidate : q = candidate[c]
      BY Facts
    <3>2. PICK w : /\ w = IF q.state = "snoozed" /\ q.until <= now
                          THEN [q EXCEPT !.state = "active", !.until = None] ELSE q
                   /\ candidate'[c] = IF w.state = "active" /\ now - w.latest > StaleAge
                                      THEN [w EXCEPT !.state = "stale"] ELSE w
      BY <1>9, <3>1 DEF Maintain
    <3>3. None \in Int
      BY NumbersAreNat
    <3>4. PICK v \in Candidate : v = [q EXCEPT !.state = "active"]
      BY DEF Candidate, States
    <3>5. PICK u \in Candidate : u = [v EXCEPT !.until = None]
      BY <3>3 DEF Candidate
    <3>6. u = [q EXCEPT !.state = "active", !.until = None] /\ u.members = q.members /\ u.seen = q.seen
      BY <3>4, <3>5 DEF Candidate
    <3>7. w \in Candidate /\ w.members = q.members /\ w.seen = q.seen
      BY <3>2, <3>6
    <3>8. [w EXCEPT !.state = "stale"].members = w.members /\ [w EXCEPT !.state = "stale"].seen = w.seen
      BY <3>7 DEF Candidate
    <3>9. QED
      BY <3>1, <3>2, <3>7, <3>8
  <2>2. posted' = posted /\ now' = now
    BY <1>9 DEF Maintain
  <2>3. QED
    BY <1>1, <2>1, <2>2 DEF Undisturbed
<1>10. CASE Tick
  BY <1>1, <1>10 DEF Tick, signals, Undisturbed
<1>11. CASE \E p \in Promoter : AutoVisit(p)
  <2>1. PICK p \in Promoter, c \in Item : \/ PromoteLoaded(c, automatic.runs[p].rows[c], 0, TRUE)
                                         \/ UNCHANGED candidate
    BY <1>11, VisitGoesOn
  <2>2. \A d \in Item : candidate'[d].members = candidate[d].members /\ candidate'[d].seen = candidate[d].seen
    BY <2>1, PromotionLeaves
  <2>3. QED
    BY <1>1, <1>11, <2>2 DEF AutoVisit, Undisturbed
<1>12. CASE \E t \in Text : Ingest(t) \/ Backfill(t)
  BY <1>2, <1>12 DEF Ingest, Backfill, signals
<1>13. CASE \E r \in Reviewer : ReviewWrite(r)
  BY <1>2, <1>13 DEF ReviewWrite, signals
<1>14. QED
  BY <1>4, <1>5, <1>6, <1>7, <1>8, <1>9, <1>10, <1>11, <1>12, <1>13 DEF Next

\* Neither time nor the pipeline brings a candidate back that the operator has
\* seen, but an item that no member links to.
THEOREM SeenStaysSeen == Spec => ResurfacesIndependently
<1> DEFINE A == \A c \in Item :
             candidate[c].seen # None /\ candidate'[c].seen = None /\ operated' = operated
               => \E i \in candidate'[c].members \ candidate[c].members :
                    \A j \in candidate[c].members : ~Linked(i, j)
<1>1. IInv /\ [Next]_vars => A
  <2>1. SUFFICES ASSUME IInv, [Next]_vars, NEW c \in Item,
                        candidate[c].seen # None, candidate'[c].seen = None, operated' = operated
                 PROVE  \E i \in candidate'[c].members \ candidate[c].members :
                          \A j \in candidate[c].members : ~Linked(i, j)
    OBVIOUS
  <2>2. CASE Undisturbed
    BY <2>1, <2>2 DEF Undisturbed
  <2>3. CASE ClusterWrite
    <3>1. PICK i \in Item, d \in Item, q \in Candidate :
            /\ i \notin Members /\ candidate' = [candidate EXCEPT ![d] = q]
            /\ q.members = candidate[d].members \cup {i}
            /\ candidate[d].seen # None /\ q.seen = None => {i} \in Groups(candidate[d].members \cup {i})
      BY <2>1, <2>3, ClusterWrites
    <3>2. c = d /\ candidate'[c] = q
      BY <2>1, <3>1, Facts
    <3>3. {i} \in Groups(candidate[c].members \cup {i})
      BY <2>1, <3>1, <3>2
    <3>4. candidate[c].members \in SUBSET Item /\ i \notin candidate[c].members
      BY <2>1, <3>1, Facts DEF Candidate, Members
    <3>5. \A j \in candidate[c].members : ~Linked(i, j)
      BY <3>3, <3>4, AloneLinksNothing
    <3>6. i \in candidate'[c].members \ candidate[c].members
      BY <3>1, <3>2, <3>4
    <3>7. QED
      BY <3>5, <3>6
  <2>4. QED
    BY <2>1, <2>2, <2>3, StepsUndisturbed
<1>2. QED
  BY <1>1, SpecIInv, PTL DEF Spec, ResurfacesIndependently

\* Of a group of the new members that has an old one, the old groups have a
\* report that is no earlier: it does not make the candidate current.
LEMMA OldGroupIsNoEarlier ==
  ASSUME IInv, NEW c \in Item, NEW i \in Item, i \notin candidate[c].members,
         NEW G \in Groups(candidate[c].members \cup {i}), now - posted[Origin(G)] <= CurrentAge,
         items[i] # "none", G # {i}
  PROVE  Current(c)
<1> DEFINE M == candidate[c].members
<1>1. M \in SUBSET Item /\ M \cup {i} \in SUBSET Item
  BY Facts DEF Candidate
<1>2. PICK k \in M \cup {i} : G = GroupOf(k, M \cup {i})
  BY <1>1, GroupsAre
<1>3. G \subseteq M \cup {i} /\ k \in G
  BY <1>1, <1>2, GroupOfType
<1>4. PICK m \in M : m \in G
  BY <1>3
<1>5. GroupOf(m, M) \subseteq G
  BY <1>1, <1>2, <1>4, GroupsGrow
<1>6. GroupOf(m, M) \subseteq M /\ m \in GroupOf(m, M) /\ GroupOf(m, M) \in Groups(M)
  BY <1>1, GroupOfType, GroupsAre
<1> DEFINE o == Origin(G)
           p == Origin(GroupOf(m, M))
<1>7. o \in G /\ \A j \in G : o <= j
  BY <1>1, <1>3, OriginIsFirst
<1>8. p \in GroupOf(m, M)
  BY <1>1, <1>6, OriginIsFirst
<1>9. o \in Item /\ p \in Item /\ o <= p /\ items[p] # "none"
  <2>1. items[p] # "none"
    BY <1>6, <1>8 DEF IInv, CollectedInOrder, Members
  <2>2. QED
    BY <1>1, <1>3, <1>5, <1>6, <1>7, <1>8, <2>1
<1> HIDE DEF o, p
<1>10. posted[o] <= posted[p]
  <2>1. o \in Nat /\ p \in Nat /\ posted[o] \in Nat
    BY <1>9, NumbersAreNat, Facts DEF Item
  <2>2. CASE o = p
    BY <2>1, <2>2
  <2>3. CASE o < p
    BY <1>9, <2>3 DEF IInv, CollectedInOrder
  <2>4. QED
    BY <1>9, <2>1, <2>2, <2>3
<1>11. posted[o] \in Int /\ posted[p] \in Int /\ now \in Int /\ CurrentAge \in Int
  BY <1>9, NumbersAreNat, Facts
<1>12. now - posted[p] <= CurrentAge
  <2>1. now - posted[o] <= CurrentAge
    BY DEF o
  <2>2. QED
    BY <1>10, <1>11, <2>1
<1>13. QED
  BY <1>6, <1>12 DEF Current, p

\* A copy does not make an old candidate current, however late it comes.
THEOREM OldStaysOld == Spec => CopiesStayOld
<1> DEFINE A == \A c \in Item :
             candidate[c].members # {} /\ ~Current(c) /\ Current(c)'
               => \E i \in candidate'[c].members \ candidate[c].members :
                    \A j \in candidate[c].members : ~Linked(i, j)
<1>1. IInv /\ [Next]_vars => A
  <2>1. SUFFICES ASSUME IInv, [Next]_vars, NEW c \in Item,
                        ~Current(c), Current(c)', candidate[c].members # {}
                 PROVE  \E i \in candidate'[c].members \ candidate[c].members :
                          \A j \in candidate[c].members : ~Linked(i, j)
    OBVIOUS
  <2>2. candidate[c].members \in SUBSET Item
    BY <2>1, Facts DEF Candidate
  <2>3. PICK G \in Groups(candidate'[c].members) : now' - posted'[Origin(G)] <= CurrentAge
    BY <2>1 DEF Current
  <2>4. CASE Undisturbed
    <3>1. candidate'[c].members = candidate[c].members /\ now' >= now
      BY <2>4 DEF Undisturbed
    <3>2. G \in SUBSET candidate[c].members /\ G # {}
      BY <2>2, <2>3, <3>1, GroupsAre, GroupOfType
    <3>3. Origin(G) \in candidate[c].members
      BY <2>2, <3>2, OriginIsFirst
    <3>4. Origin(G) \in Item /\ items[Origin(G)] # "none"
      BY <2>1, <2>2, <3>3 DEF IInv, CollectedInOrder, Members
    <3>5. posted'[Origin(G)] = posted[Origin(G)] /\ posted[Origin(G)] \in Int
      BY <2>1, <2>4, <3>4, Facts DEF Undisturbed
    <3>6. now \in Int /\ now' \in Int /\ CurrentAge \in Int
      BY <2>1, NextIInv, Facts, NumbersAreNat DEF IInv, Typed, TypeOK
    <3>7. now - posted[Origin(G)] <= CurrentAge
      BY <2>3, <3>1, <3>5, <3>6
    <3>8. QED
      BY <2>1, <2>3, <3>1, <3>7 DEF Current
  <2>5. CASE ClusterWrite
    <3>1. PICK i \in Item, d \in Item, q \in Candidate :
            /\ i \notin Members /\ items[i] # "none" /\ candidate' = [candidate EXCEPT ![d] = q]
            /\ q.members = candidate[d].members \cup {i}
      BY <2>1, <2>5, ClusterWrites
    <3>2. posted' = posted /\ now' = now
      BY <2>5 DEF ClusterWrite
    <3>3. CASE c # d
      <4>1. candidate'[c].members = candidate[c].members
        BY <2>1, <3>1, <3>3, Facts
      <4>2. QED
        BY <2>1, <2>3, <3>2, <4>1 DEF Current
    <3>4. CASE c = d
      <4>1. candidate'[c].members = candidate[c].members \cup {i} /\ i \notin candidate[c].members
        BY <2>1, <3>1, <3>4, Facts DEF Members
      <4>2. G = {i}
        BY <2>1, <2>3, <3>1, <3>2, <4>1, OldGroupIsNoEarlier
      <4>3. \A j \in candidate[c].members : ~Linked(i, j)
        BY <2>2, <2>3, <4>1, <4>2, AloneLinksNothing
      <4>4. QED
        BY <4>1, <4>3
    <3>5. QED
      BY <3>3, <3>4
  <2>6. QED
    BY <2>1, <2>4, <2>5, StepsUndisturbed
<1>2. QED
  BY <1>1, SpecIInv, PTL DEF Spec, CopiesStayOld

\* No scan or backfill changes the status of a suggestion there is.
StatusStays == \A n \in Name : suggestion[n].status # "none" => suggestion'[n].status = suggestion[n].status

LEMMA MinedStays ==
  ASSUME IInv, NEW T, suggestion' = Mined(T)
  PROVE  StatusStays
<1>1. SUFFICES ASSUME NEW n \in Name, suggestion[n].status # "none" PROVE suggestion'[n].status = suggestion[n].status
  BY DEF StatusStays
<1>2. PICK row \in Suggestion : row = suggestion[n]
  BY <1>1 DEF IInv, Typed, TypeOK
<1>3. suggestion'[n] = row
       \/ suggestion'[n] = [row EXCEPT !.status = IF @ = "none" THEN "pending" ELSE @, !.appearances = Max2(@, 1)]
  <2>1. \/ suggestion'[n] = suggestion[n]
        \/ suggestion'[n] = [suggestion[n] EXCEPT !.status = IF @ = "none" THEN "pending" ELSE @, !.appearances = Max2(@, 1)]
    BY <1>1, Zenon DEF Mined
  <2>2. QED
    BY <1>2, <2>1
<1>4. [row EXCEPT !.status = IF @ = "none" THEN "pending" ELSE @, !.appearances = Max2(@, 1)].status = row.status
  BY <1>1, <1>2 DEF Suggestion
<1>5. QED
  BY <1>2, <1>3, <1>4

LEMMA ScanStays ==
  ASSUME NEW kinds, Scan(kinds)
  PROVE  StatusStays
<1>1. PICK valid : suggestion' = Scanned(kinds, valid)
  BY DEF Scan
<1>2. \A row, count, feed : row.status # "none" => Upserted(row, count, feed).status = row.status
  BY DEF Upserted
<1>3. \A n \in Name : suggestion'[n] = suggestion[n] \/ \E count, feed : suggestion'[n] = Upserted(suggestion[n], count, feed)
  BY <1>1 DEF Scanned
<1>4. QED
  BY <1>2, <1>3 DEF StatusStays

\* What an operator has decided about a suggested source stands until an
\* operator decides again: no scan of the generators, promotion or backfill
\* asks anew, however often it finds the source.
THEOREM SourceDecisionsStand == Spec => DecisionsSurviveScans
<1> DEFINE A == \A n \in Name : suggestion[n].status \in {"ignored", "blocked", "added"} /\ operated' = operated
                                  => suggestion'[n].status = suggestion[n].status
<1>1. IInv /\ [Next]_vars => A
  <2>1. SUFFICES ASSUME IInv, [Next]_vars, operated' = operated PROVE StatusStays
    BY DEF StatusStays
  <2>2. ~Operator
    BY <2>1, Facts DEF Operator
  <2>3. CASE UNCHANGED suggestion
    BY <2>3 DEF StatusStays
  <2>4. CASE \/ UNCHANGED vars \/ Analyze \/ ClusterWrite \/ Rescore \/ Maintain \/ Tick
             \/ \E p \in Promoter : AutoBegin(p) \/ AutoCrash(p)
    <3>1. UNCHANGED vars => UNCHANGED suggestion
      BY DEF vars, sources
    <3>2. CASE Analyze \/ Rescore
      BY <2>3, <3>2, Zenon DEF sources, Analyze, Rescore
    <3>3. CASE Tick \/ ClusterWrite
      BY <2>3, <3>3, Zenon DEF sources, Tick, ClusterWrite
    <3>4. CASE Maintain
      BY <2>3, <3>4, Zenon DEF sources, Maintain
    <3>5. CASE \E p \in Promoter : AutoBegin(p) \/ AutoCrash(p)
      BY <2>3, <3>5, Zenon DEF sources, AutoBegin, AutoCrash
    <3>6. QED
      BY <2>3, <2>4, <3>1, <3>2, <3>3, <3>4, <3>5
  <2>5. CASE SettingsUpdate \/ OfSource
    BY <2>2, <2>5 DEF SettingsUpdate, OfSource, RunSourceDiscovery, RecomputeReputations, Override, Decide, Accept,
       DiscoverFeed, AddSource
  <2>6. CASE \E i \in Item : Arrive(i) \/ ClusterFind(i) \/ ItemToEvidence(i)
    BY <2>3, <2>6 DEF Arrive, ClusterFind, ItemToEvidence, sources
  <2>7. CASE \E c \in Item : OfCandidate(c)
    BY <2>2, <2>3, <2>7 DEF OfCandidate, Put, Seen, Dismiss, Restore, Snooze, SeenCommand, DismissCommand, Promote,
       ReviewRead, sources
  <2>8. CASE \E r \in Reviewer : ReviewWrite(r)
    BY <2>3, <2>8 DEF ReviewWrite, sources
  <2>9. CASE \E t \in Text : Ingest(t)
    BY <2>3, <2>9 DEF Ingest, sources
  <2>10. CASE \E t \in Text : Backfill(t)
    BY <2>1, <2>10, MinedStays DEF Backfill
  <2>11. CASE RefreshHandles
    BY <2>11, ScanStays DEF RefreshHandles
  <2>12. CASE \E p \in Promoter : AutoVisit(p)
    <3>1. (\E c, row, story, auto : PromoteLoaded(c, row, story, auto)) \/ UNCHANGED suggestion
      BY <2>12 DEF AutoVisit
    <3>2. ASSUME NEW c, NEW row, NEW story, NEW auto, PromoteLoaded(c, row, story, auto)
          PROVE  UNCHANGED suggestion \/ \E T : suggestion' = Mined(T)
      BY <3>2 DEF PromoteLoaded
    <3>3. QED
      BY <2>1, <2>3, <3>1, <3>2, MinedStays
  <2>13. QED
    BY <2>1, <2>4, <2>5, <2>6, <2>7, <2>8, <2>9, <2>10, <2>11, <2>12 DEF Next
<1>2. QED
  BY <1>1, SpecIInv, PTL DEF Spec, DecisionsSurviveScans
=============================================================================
