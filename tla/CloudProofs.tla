---------------------------- MODULE CloudProofs -----------------------------
(***************************************************************************)
(* Proofs about the two components that talk to a service outside: the     *)
(* monitor of the cloud drive's events (LifeMonitor) and the HDHive        *)
(* authorization (OAuthSession).                                           *)
(***************************************************************************)
EXTENDS LifeMonitor, OAuthSession, FiniteSetTheorems, TLAPS

-----------------------------------------------------------------------------
(***************************************************************************)
(* LifeMonitor, for every number of events, every assignment of files, and *)
(* every size of the pages: its types, that the cursor passes no event     *)
(* that was not handed over, and the order of handing over.                *)
(*                                                                         *)
(* The argument is about places in the list.  An event that a pull has not *)
(* read although its place was passed (it arrived late, and pushed others  *)
(* down) is newer than everything in the batch, unless a vanished entry    *)
(* moved it up; so the cursor, set to an event of the batch, stays before  *)
(* it.  While no more events arrived than the first page holds, an event   *)
(* overtaken by an older one stays at a place that was passed, so no page  *)
(* shows it any more behind the older one.                                 *)
(***************************************************************************)
Pulled == {b.event : b \in batch}

(* The newest event when the pull began, and the entries from e up to it.  *)
Top == happened - arrivals
Before(e) == Cardinality({c \in Listed : e <= c /\ c <= Top})

Fate(e) == e \in Pulled \cup Ignored \cup hidden \/ Superseded(e)

Bounded ==
    /\ {base, cursor, arrivals} \subseteq 0..happened
    /\ saved # None => saved <= happened
    /\ Mode = "all" => base = 0

(* An entry overtaken by an older one lies well within the places passed.  *)
Overtaken == \A d \in read, e \in Listed \ read :
                 d < e /\ e <= Top => Before(e) + FirstPage <= offset

Pulling ==
    /\ offset = 0 => read = {} /\ arrivals = 0
    /\ offset > 0 => offset >= FirstPage
    /\ \A e \in read : New(e) /\ Fate(e)
    /\ \A e \in Listed \ (read \cup slipped) :
           New(e) /\ Rank(e) <= offset => \A p \in Pulled : p < e
    /\ arrivals <= FirstPage => Overtaken

Ordered ==
    /\ Pulled \subseteq read
    /\ \A b \in batch : b.at <= offset
    /\ arrivals <= FirstPage => \A b, c \in batch : b.at > c.at => b.event < c.event

Handing ==
    /\ \A p \in Pulled : \A e \in 1..p : New(e) => Done(e) \/ e \in Pulled
    /\ arrivals <= FirstPage => \A p \in Pulled : latest < p

IInv ==
    /\ TypeOK
    /\ Bounded
    /\ NothingSkipped
    /\ pc \in {"loop", "page", "failed"} => latest = cursor
    /\ pc = "page" => Pulling /\ \A b \in batch : b.at < offset
    /\ pc \in {"page", "handle"} => Ordered
    /\ pc = "handle" => Handing

-----------------------------------------------------------------------------
(***************************************************************************)
(* Ranks.                                                                  *)
(***************************************************************************)
Newer(L, e) == {d \in L : d >= e}
RankIn(L, e) == Cardinality(Newer(L, e))

(* The rank of an entry is a positive number, at most the number of        *)
(* entries, and falls as the entry gets newer.                             *)
LEMMA RankFacts ==
  ASSUME NEW L, IsFiniteSet(L), L \subseteq Nat, NEW e \in Nat
  PROVE  /\ Cardinality(L) \in Nat
         /\ IsFiniteSet(Newer(L, e))
         /\ RankIn(L, e) \in Nat
         /\ RankIn(L, e) <= Cardinality(L)
         /\ e \in L => RankIn(L, e) >= 1
         /\ \A d \in L : d < e => RankIn(L, e) < RankIn(L, d)
<1>1. Newer(L, e) \subseteq L
  BY DEF Newer
<1>2. /\ IsFiniteSet(Newer(L, e)) /\ Cardinality(L) \in Nat
      /\ RankIn(L, e) \in Nat /\ RankIn(L, e) <= Cardinality(L)
  BY <1>1, FS_Subset, FS_CardinalityType DEF RankIn
<1>3. e \in L => RankIn(L, e) >= 1
  <2>1. e \in L => e \in Newer(L, e)
    BY DEF Newer
  <2>2. QED  BY <2>1, <1>2, FS_EmptySet DEF RankIn
<1>4. ASSUME NEW d \in L, d < e  PROVE RankIn(L, e) < RankIn(L, d)
  <2>1. Newer(L, d) \subseteq L /\ IsFiniteSet(Newer(L, d))
    BY FS_Subset DEF Newer
  <2>2. Newer(L, e) \subseteq Newer(L, d) /\ d \in Newer(L, d) /\ d \notin Newer(L, e)
    <3>1. \A c \in L : c >= e => c >= d
      BY <1>4
    <3>2. d \in Nat /\ d >= d /\ ~(d >= e)
      BY <1>4
    <3>3. QED  BY <3>1, <3>2 DEF Newer
  <2>3. /\ Cardinality(Newer(L, e)) <= Cardinality(Newer(L, d))
        /\ Cardinality(Newer(L, e)) = Cardinality(Newer(L, d)) => Newer(L, e) = Newer(L, d)
    BY <2>1, <2>2, FS_Subset
  <2>4. Cardinality(Newer(L, e)) \in Nat /\ Cardinality(Newer(L, d)) \in Nat
    BY <1>2, <2>1, FS_CardinalityType
  <2>5. QED  BY <2>2, <2>3, <2>4 DEF RankIn
<1>5. QED  BY <1>2, <1>3, <1>4

(* An entry that leaves the list lifts those behind it by one place.       *)
LEMMA RankVanish ==
  ASSUME NEW L, IsFiniteSet(L), L \subseteq Nat, NEW v \in L, NEW e \in Nat
  PROVE  RankIn(L, e) = IF v >= e THEN RankIn(L \ {v}, e) + 1 ELSE RankIn(L \ {v}, e)
<1>1. CASE v >= e
  <2>1. v \in Newer(L, e) /\ Newer(L \ {v}, e) = Newer(L, e) \ {v}
    BY <1>1 DEF Newer
  <2>2. IsFiniteSet(Newer(L, e))
    BY RankFacts
  <2>3. RankIn(L \ {v}, e) = RankIn(L, e) - 1
    BY <2>1, <2>2, FS_RemoveElement DEF RankIn
  <2>4. RankIn(L, e) \in Nat
    BY RankFacts
  <2>5. QED  BY <1>1, <2>3, <2>4
<1>2. CASE ~(v >= e)
  BY <1>2 DEF RankIn, Newer
<1>3. QED  BY <1>1, <1>2

(* An event that appears leaves no entry a smaller rank.                   *)
LEMMA RankGrows ==
  ASSUME NEW L, NEW M, IsFiniteSet(M), L \subseteq M, M \subseteq Nat, NEW e \in Nat
  PROVE  RankIn(L, e) <= RankIn(M, e)
<1>1. Newer(L, e) \subseteq Newer(M, e) /\ IsFiniteSet(Newer(M, e))
  BY RankFacts DEF Newer
<1>2. QED  BY <1>1, FS_Subset DEF RankIn

(* The rank of an entry: those up to t, and at most one for each number    *)
(* after t.                                                                *)
LEMMA RankSplit ==
  ASSUME NEW t \in Nat, NEW h \in Nat, t <= h, NEW L \in SUBSET (1..h), NEW e \in Nat
  PROVE  /\ Cardinality({c \in L : e <= c /\ c <= t}) \in Nat
         /\ Cardinality({c \in L : e <= c /\ c <= t}) <= RankIn(L, e)
         /\ RankIn(L, e) <= Cardinality({c \in L : e <= c /\ c <= t}) + (h - t)
         /\ e > t => RankIn(L, e) <= h - t
<1> DEFINE U == {c \in L : e <= c /\ c <= t}
           V == (t + 1)..h
<1>1. IsFiniteSet(1..h) /\ IsFiniteSet(V) /\ Cardinality(V) = h - t
  BY FS_Interval
<1>2. IsFiniteSet(L)
  BY <1>1, FS_Subset
<1>3. L \subseteq Nat
  OBVIOUS
<1>4. IsFiniteSet(Newer(L, e)) /\ U \subseteq Newer(L, e)
  BY <1>2, <1>3, RankFacts DEF Newer
<1>5. IsFiniteSet(U) /\ Cardinality(U) <= Cardinality(Newer(L, e))
  BY <1>4, FS_Subset
<1>6. Newer(L, e) \subseteq U \cup V /\ (e > t => Newer(L, e) \subseteq V)
  <2>1. SUFFICES ASSUME NEW c \in Newer(L, e)
                 PROVE  c \in U \cup V /\ (e > t => c \in V)
    OBVIOUS
  <2>2. c \in L /\ c \in Nat /\ c <= h /\ c >= e
    BY DEF Newer
  <2>3. (c <= t \/ c \in V) /\ (e > t => c \in V)
    BY <2>2
  <2>4. QED  BY <2>2, <2>3
<1>7. /\ IsFiniteSet(U \cup V) /\ IsFiniteSet(U \cap V)
      /\ Cardinality(U \cup V) = Cardinality(U) + Cardinality(V) - Cardinality(U \cap V)
  BY <1>1, <1>5, FS_Union, FS_Intersection
<1>8. Cardinality(Newer(L, e)) <= Cardinality(U \cup V)
  BY <1>6, <1>7, FS_Subset
<1>9. e > t => Cardinality(Newer(L, e)) <= Cardinality(V)
  BY <1>1, <1>6, FS_Subset
<1>10. /\ Cardinality(U) \in Nat /\ Cardinality(U \cap V) \in Nat
       /\ Cardinality(Newer(L, e)) \in Nat /\ Cardinality(U \cup V) \in Nat
  BY <1>4, <1>5, <1>7, FS_CardinalityType
<1> HIDE DEF U, V
<1>11. QED
  <2>1. /\ Cardinality(U) \in Nat /\ Cardinality(U) <= RankIn(L, e)
        /\ RankIn(L, e) <= Cardinality(U) + (h - t)
        /\ e > t => RankIn(L, e) <= h - t
    BY <1>1, <1>5, <1>7, <1>8, <1>9, <1>10 DEF RankIn
  <2>2. QED  BY <2>1 DEF U

-----------------------------------------------------------------------------
(***************************************************************************)
(* The list of the cloud.                                                  *)
(***************************************************************************)
LEMMA ListFacts ==
  ASSUME TypeOK
  PROVE  /\ happened \in Nat /\ Events \in Nat /\ happened <= Events
         /\ Listed \in SUBSET (1..happened) /\ Listed \subseteq Nat /\ IsFiniteSet(Listed)
         /\ Count \in Nat /\ Count <= happened
<1>1. happened \in Nat /\ Events \in Nat /\ happened <= Events
  BY LifeAssumption DEF TypeOK
<1>2. Listed \in SUBSET (1..happened) /\ Listed \subseteq Nat
  BY <1>1 DEF Listed
<1>3. IsFiniteSet(1..happened) /\ Cardinality(1..happened) = happened
  BY <1>1, FS_Interval
<1>4. IsFiniteSet(Listed) /\ Cardinality(Listed) <= happened
  BY <1>2, <1>3, FS_Subset
<1>5. QED  BY <1>1, <1>2, <1>4, FS_CardinalityType DEF Count

LEMMA PlaceFacts ==
  ASSUME TypeOK, NEW e \in Nat
  PROVE  /\ Rank(e) = RankIn(Listed, e) /\ Rank(e) \in Nat /\ Rank(e) <= Count
         /\ e \in Listed => Rank(e) >= 1
         /\ \A d \in Listed : d < e => Rank(e) < Rank(d)
<1>1. \A d \in Nat : Rank(d) = RankIn(Listed, d)
  BY DEF Rank, RankIn, Newer
<1>2. QED  BY <1>1, ListFacts, RankFacts DEF Count

(* Where an entry is, seen from the beginning of the pull.                 *)
LEMMA PlaceInPull ==
  ASSUME TypeOK, Bounded, NEW e \in Nat
  PROVE  /\ Before(e) \in Nat /\ Before(e) <= Rank(e)
         /\ Rank(e) <= Before(e) + arrivals
         /\ e > Top => Rank(e) <= arrivals
<1>1. Top \in Nat /\ Top <= happened /\ happened - Top = arrivals
  BY ListFacts DEF Bounded, Top
<1>2. happened \in Nat /\ Listed \in SUBSET (1..happened) /\ Rank(e) = RankIn(Listed, e)
  BY ListFacts, PlaceFacts
<1>3. /\ Before(e) \in Nat /\ Before(e) <= RankIn(Listed, e)
      /\ RankIn(Listed, e) <= Before(e) + (happened - Top)
      /\ e > Top => RankIn(Listed, e) <= happened - Top
  BY <1>1, <1>2, RankSplit DEF Before
<1>4. QED  BY <1>1, <1>2, <1>3

(* While no more events arrived than the first page holds, no page shows   *)
(* an entry behind an older one.                                           *)
LEMMA NotOvertaken ==
  ASSUME IInv, pc = "page", arrivals <= FirstPage,
         NEW e \in Listed \ read, Rank(e) > offset, NEW d \in read
  PROVE  ~(d < e)
<1>1. SUFFICES ASSUME d < e  PROVE FALSE
  OBVIOUS
<1>2. TypeOK /\ Bounded /\ Pulling /\ Overtaken
  BY DEF IInv, Pulling
<1>3. e \in Nat /\ Rank(e) \in Nat /\ arrivals \in Nat /\ offset \in Nat /\ FirstPage \in Nat
  BY <1>2, ListFacts, PlaceFacts, LifeAssumption DEF TypeOK
<1>4. offset >= FirstPage
  BY <1>2, <1>3 DEF Pulling
<1>5. CASE e <= Top
  <2>1. Before(e) + FirstPage <= offset
    BY <1>1, <1>2, <1>5 DEF Overtaken
  <2>2. QED  BY <1>2, <1>3, <2>1, PlaceInPull
<1>6. CASE e > Top
  BY <1>2, <1>3, <1>4, <1>6, PlaceInPull
<1>7. Top \in Int
  BY <1>2, ListFacts DEF Top, Bounded
<1>8. QED  BY <1>3, <1>5, <1>6, <1>7

-----------------------------------------------------------------------------
(***************************************************************************)
(* FetchPage.                                                              *)
(***************************************************************************)
Shown == Entries(offset, Size)
NewShown == {e \in Shown : New(e)}

LEMMA FetchFacts ==
  ASSUME IInv, FetchPage
  PROVE  /\ offset \in Nat /\ Size \in Nat \ {0} /\ Size >= FirstPage
         /\ offset' \in 0..Events /\ offset <= offset'
         /\ offset' < Count => offset' = offset + Size
         /\ batch' = batch \cup [at: {offset}, event: Fresh(Shown)]
         /\ read' = read \cup NewShown
         /\ Pulled' = Pulled \cup Fresh(Shown)
         /\ Fresh(Shown) \subseteq NewShown
         /\ \A e \in Shown : e \in Listed /\ e \in Nat /\ Rank(e) > offset /\ Rank(e) <= offset + Size
         /\ pc' \in {"loop", "page", "handle"}
         /\ pc' = "page" => NewShown = Shown /\ offset' < Count
         /\ pc' = "loop" => batch' = {}
         /\ pc' = "handle" => batch' # {} /\ ~(NewShown = Shown /\ offset' < Count)
<1>1. TypeOK /\ offset \in Nat /\ Size \in Nat \ {0} /\ Size >= FirstPage /\ offset <= Events
  BY LifeAssumption DEF IInv, TypeOK, Size
<1>2. Count \in Nat /\ Count <= Events
  BY <1>1, ListFacts
<1>3. offset' = OffsetAfter
  BY DEF FetchPage
<1>4. offset' \in 0..Events /\ offset <= offset' /\ (offset' < Count => offset' = offset + Size)
  BY <1>1, <1>2, <1>3, LifeAssumption DEF OffsetAfter, Lower
<1>5. batch' = batch \cup [at: {offset}, event: Fresh(Shown)] /\ read' = read \cup NewShown
  BY DEF FetchPage, Shown, NewShown
<1>6. Pulled' = Pulled \cup Fresh(Shown)
  <2>1. Pulled' = {b.event : b \in batch \cup [at: {offset}, event: Fresh(Shown)]}
    BY <1>5 DEF Pulled
  <2>2. {b.event : b \in [at: {offset}, event: Fresh(Shown)]} = Fresh(Shown)
    <3>1. \A e \in Fresh(Shown) : /\ [at |-> offset, event |-> e] \in [at: {offset}, event: Fresh(Shown)]
                                  /\ [at |-> offset, event |-> e].event = e
      OBVIOUS
    <3>2. QED  BY <3>1
  <2>3. QED  BY <2>1, <2>2 DEF Pulled
<1>7. Fresh(Shown) \subseteq NewShown
  BY DEF Fresh, NewShown
<1>8. ASSUME NEW e \in Shown
      PROVE  e \in Listed /\ e \in Nat /\ Rank(e) > offset /\ Rank(e) <= offset + Size
  <2>1. e \in Listed /\ e \in Nat
    BY <1>1, ListFacts DEF Shown, Entries
  <2>2. Rank(e) \in Nat
    BY <1>1, <2>1, PlaceFacts
  <2>3. QED  BY <1>1, <2>1, <2>2 DEF Shown, Entries
<1>9. pc' = IF NewShown = Shown /\ offset' < Count THEN "page"
            ELSE IF batch' = {} THEN "loop" ELSE "handle"
  BY DEF FetchPage, Shown, NewShown
<1>10. QED  BY <1>1, <1>4, <1>5, <1>6, <1>7, <1>8, <1>9

(* What became of every entry that was read.                               *)
LEMMA FetchFate ==
  ASSUME IInv, FetchPage
  PROVE  \A e \in read' : New(e)' /\ Fate(e)'
<1>1. SUFFICES ASSUME NEW e \in read'  PROVE New(e)' /\ Fate(e)'
  OBVIOUS
<1>2. TypeOK /\ Pulling /\ pc = "page" /\ cursor' = cursor /\ happened' = happened
  BY DEF IInv, FetchPage, cloud
<1>3. read \subseteq 1..happened /\ happened \in Nat
  BY <1>2, ListFacts DEF TypeOK
<1>4. hidden \subseteq hidden'
  BY DEF FetchPage
<1>5. Pulled' = Pulled \cup Fresh(Shown) /\ read' = read \cup NewShown
  BY FetchFacts
<1>6. CASE e \in read
  BY <1>2, <1>4, <1>5, <1>6 DEF Pulling, New, Fate, Superseded
<1>7. CASE e \in NewShown \ read
  <2>1. e \in Shown /\ New(e) /\ e \in Listed /\ e \in Nat /\ Rank(e) > offset
    BY <1>7, FetchFacts DEF NewShown
  <2>2. CASE FileOf[e] \in Seen
    <3>1. PICK d \in read : FileOf[d] = FileOf[e]
      BY <2>2 DEF Seen
    <3>2. CASE d > e
      BY <1>2, <1>3, <2>1, <3>1, <3>2 DEF New, Fate, Superseded
    <3>3. CASE d < e
      <4>1. ~(arrivals <= FirstPage)
        BY <1>2, <1>7, <2>1, <3>3, NotOvertaken
      <4>2. e \in hidden'
        BY <1>7, <2>2, <4>1 DEF FetchPage, Shown, NewShown
      <4>3. QED  BY <1>2, <2>1, <4>2 DEF New, Fate
    <3>4. d \in Nat /\ d # e
      BY <1>3, <1>7
    <3>5. QED  BY <2>1, <3>2, <3>3, <3>4
  <2>3. CASE FileOf[e] \notin Seen
    <3>1. CASE \E d \in Shown : FileOf[d] = FileOf[e] /\ ~(d <= e)
      <4>1. PICK d \in Shown : FileOf[d] = FileOf[e] /\ ~(d <= e)
        BY <3>1
      <4>2. d \in 1..happened /\ d > e
        BY <1>2, <2>1, <4>1, FetchFacts, ListFacts
      <4>3. QED  BY <1>2, <2>1, <4>1, <4>2 DEF New, Fate, Superseded
    <3>2. CASE ~\E d \in Shown : FileOf[d] = FileOf[e] /\ ~(d <= e)
      <4>1. e \in Fresh(Shown) \cup Ignored
        BY <2>1, <2>3, <3>2 DEF Fresh
      <4>2. QED  BY <1>2, <1>5, <2>1, <4>1 DEF New, Fate
    <3>3. QED  BY <3>1, <3>2
  <2>4. QED  BY <2>2, <2>3
<1>8. QED  BY <1>1, <1>5, <1>6, <1>7

(* Of what files, and from which page, the batch is.                       *)
LEMMA FetchBatch ==
  ASSUME IInv, FetchPage
  PROVE  /\ \A b \in batch : b.at \in Nat /\ b.at < offset /\ b.event \in read
         /\ \A b \in [at: {offset}, event: Fresh(Shown)] :
                /\ b.at = offset /\ b.event \in Fresh(Shown) /\ b.event \in Shown
                /\ b.event \in Listed \ read /\ Rank(b.event) > offset
<1>1. \A b \in batch : b.at \in Nat /\ b.at < offset /\ b.event \in read
  BY LifeAssumption DEF FetchPage, IInv, TypeOK, Ordered, Pulled
<1>2. \A e \in read : FileOf[e] \in Seen
  BY DEF Seen
<1>3. ASSUME NEW b \in [at: {offset}, event: Fresh(Shown)]
      PROVE  /\ b.at = offset /\ b.event \in Fresh(Shown) /\ b.event \in Shown
             /\ b.event \in Listed \ read /\ Rank(b.event) > offset
  <2>1. b.at = offset /\ b.event \in Fresh(Shown)
    OBVIOUS
  <2>2. b.event \in Shown /\ b.event \notin read
    BY <2>1, <1>2 DEF Fresh
  <2>3. QED  BY <2>1, <2>2, FetchFacts
<1>4. QED  BY <1>1, <1>3

LEMMA FetchOrder ==
  ASSUME IInv, FetchPage
  PROVE  Ordered' /\ \A b \in batch' : b.at \in Nat /\ b.at <= offset
<1>1. /\ pc = "page" /\ arrivals' = arrivals /\ offset \in Nat /\ offset' \in Nat
      /\ offset <= offset' /\ read \subseteq Nat
  <2>1. TypeOK
    BY DEF IInv
  <2>2. read \subseteq 1..happened /\ happened \in Nat
    BY <2>1, ListFacts DEF TypeOK
  <2>3. QED  BY <2>2, FetchFacts, LifeAssumption DEF FetchPage
<1> DEFINE N == [at: {offset}, event: Fresh(Shown)]
<1>2. batch' = batch \cup N /\ read' = read \cup NewShown /\ Pulled' = Pulled \cup Fresh(Shown)
      /\ Fresh(Shown) \subseteq NewShown
  BY FetchFacts
<1>3. Ordered
  BY <1>1 DEF IInv
<1>4. /\ \A b \in batch : b.at \in Nat /\ b.at < offset /\ b.event \in read
      /\ \A b \in N : /\ b.at = offset /\ b.event \in Listed \ read /\ b.event \in Nat
                      /\ Rank(b.event) > offset
  <2>1. TypeOK
    BY DEF IInv
  <2>2. Listed \subseteq Nat
    BY <2>1, ListFacts
  <2>3. QED  BY <2>2, FetchBatch
<1> HIDE DEF N
<1>5. \A b \in batch' : b.at \in Nat /\ b.at <= offset
  BY <1>1, <1>2, <1>4
<1>6. Pulled' \subseteq read'
  BY <1>2, <1>3 DEF Ordered
<1>7. ASSUME arrivals' <= FirstPage, NEW b \in batch', NEW c \in batch', b.at > c.at
      PROVE  b.event < c.event
  <2>1. c \in batch
    BY <1>1, <1>2, <1>4, <1>5, <1>7
  <2>2. CASE b \in batch
    BY <1>1, <1>3, <1>7, <2>1, <2>2 DEF Ordered
  <2>3. CASE b \in N
    <3>1. c.event \in read /\ c.event \in Nat /\ b.event \in Nat /\ b.event # c.event
      BY <1>1, <1>4, <2>1, <2>3
    <3>2. ~(c.event < b.event)
      BY <1>1, <1>4, <1>7, <2>3, <3>1, NotOvertaken
    <3>3. QED  BY <3>1, <3>2
  <2>4. QED  BY <1>2, <2>2, <2>3
<1>8. \A b \in batch' : b.at <= offset'
  BY <1>1, <1>5
<1>9. QED  BY <1>5, <1>6, <1>7, <1>8 DEF Ordered

LEMMA FetchTyped ==
  ASSUME IInv, FetchPage
  PROVE  TypeOK'
<1>1. TypeOK /\ pc = "page"
  BY DEF IInv, FetchPage
<1>2. UNCHANGED <<happened, gone, stopping, cursor, saved, attempt, faults, starts,
                  handled, latest, base, arrivals, slipped>>
  BY DEF FetchPage, cloud, bounds
<1>3. Listed \subseteq 1..happened /\ happened \in Nat /\ Events \in Nat /\ happened <= Events
      /\ Listed \subseteq Event
  BY <1>1, ListFacts DEF Event
<1>4. /\ batch' = batch \cup [at: {offset}, event: Fresh(Shown)]
      /\ read' = read \cup NewShown /\ offset' \in 0..Events /\ offset \in 0..Events
      /\ pc' \in {"loop", "page", "handle"} /\ (pc' = "handle" => batch' # {})
      /\ Fresh(Shown) \subseteq NewShown /\ NewShown \subseteq Listed
  BY <1>1, FetchFacts DEF NewShown, TypeOK
<1>5. batch' \subseteq [at: 0..Events, event: Event]
  BY <1>1, <1>3, <1>4 DEF TypeOK
<1>6. read' \subseteq 1..happened'
  BY <1>1, <1>2, <1>3, <1>4 DEF TypeOK
<1>7. hidden' \subseteq Event
  <2>1. hidden' \subseteq hidden \cup NewShown
    BY DEF FetchPage, Shown, NewShown
  <2>2. QED  BY <1>1, <1>3, <1>4, <2>1 DEF TypeOK
<1>8. \A b \in batch' : b.event > cursor
  <2>1. ASSUME NEW b \in [at: {offset}, event: Fresh(Shown)]  PROVE b.event > cursor
    <3>1. b.event \in NewShown
      BY <1>4, FetchBatch
    <3>2. QED  BY <3>1 DEF NewShown, New
  <2>2. QED  BY <1>1, <1>4, <2>1 DEF TypeOK
<1>9. ASSUME NEW b \in batch', NEW c \in batch', b # c
      PROVE  FileOf[b.event] # FileOf[c.event]
  <2> DEFINE N == [at: {offset}, event: Fresh(Shown)]
  <2>1. \A x \in batch : FileOf[x.event] \in Seen
    BY FetchBatch DEF Seen
  <2>2. \A x \in N : FileOf[x.event] \notin Seen
    BY DEF Fresh
  <2>3. ASSUME b \in N, c \in N  PROVE FileOf[b.event] # FileOf[c.event]
    <3>1. /\ b.event \in Shown /\ c.event \in Shown /\ b.event \in Nat /\ c.event \in Nat
          /\ b.event \in Fresh(Shown) /\ c.event \in Fresh(Shown)
      BY <2>3, FetchBatch, FetchFacts
    <3>2. FileOf[b.event] = FileOf[c.event] => b.event <= c.event /\ c.event <= b.event
      BY <3>1 DEF Fresh
    <3>3. b.event # c.event
      BY <1>9, <2>3
    <3>4. QED  BY <3>1, <3>2, <3>3
  <2>4. CASE b \in batch /\ c \in batch
    BY <1>1, <1>9, <2>4 DEF TypeOK
  <2>5. QED  BY <1>4, <1>9, <2>1, <2>2, <2>3, <2>4
<1>10. QED
  BY <1>1, <1>2, <1>4, <1>5, <1>6, <1>7, <1>8, <1>9 DEF TypeOK

(* The pull goes on: the places passed now end after the page.             *)
LEMMA FetchNext ==
  ASSUME IInv, FetchPage, pc' = "page"
  PROVE  Pulling'
<1>1. TypeOK /\ Bounded /\ Pulling /\ pc = "page"
  BY DEF IInv, FetchPage
<1>2. UNCHANGED <<happened, gone, cursor, arrivals, slipped>>
  BY DEF FetchPage, cloud
<1>3. /\ offset \in Nat /\ Size \in Nat \ {0} /\ Size >= FirstPage /\ offset' = offset + Size
      /\ NewShown = Shown /\ offset' \in Nat /\ FirstPage \in Nat
      /\ read' = read \cup Shown /\ Pulled' = Pulled \cup Fresh(Shown) /\ Fresh(Shown) \subseteq Shown
  BY FetchFacts, LifeAssumption
<1>4. Listed' = Listed /\ (\A e : Rank(e)' = Rank(e) /\ Before(e)' = Before(e)) /\ Top' = Top
  BY <1>2 DEF Listed, Rank, Before, Top
<1>5. Listed \subseteq Nat /\ Pulled \subseteq read /\ read \subseteq Nat
  <2>1. happened \in Nat /\ read \subseteq 1..happened
    BY <1>1, ListFacts DEF TypeOK
  <2>2. QED  BY <1>1, <2>1, ListFacts DEF IInv, Ordered
(* An entry at a place passed that is not read was passed before.          *)
<1>6. \A e \in Listed \ read' : Rank(e) \in Nat /\ (Rank(e) <= offset' => Rank(e) <= offset)
  <2>1. SUFFICES ASSUME NEW e \in Listed \ read', Rank(e) <= offset'
                 PROVE  Rank(e) <= offset
    BY <1>1, <1>5, PlaceFacts
  <2>2. e \in Listed /\ e \notin Shown /\ Rank(e) \in Nat
    BY <1>1, <1>3, <1>5, PlaceFacts
  <2>3. QED  BY <1>3, <2>1, <2>2 DEF Shown, Entries
<1>7. offset' > 0 /\ offset' >= FirstPage
  BY <1>3
<1>8. ASSUME NEW e \in Listed \ (read' \cup slipped), New(e), Rank(e) <= offset', NEW p \in Pulled'
      PROVE  p < e
  <2>1. Rank(e) <= offset /\ Rank(e) \in Nat /\ e \in Nat /\ e \in Listed \ (read \cup slipped)
    BY <1>3, <1>5, <1>6, <1>8
  <2>2. CASE p \in Pulled
    BY <1>1, <1>8, <2>1, <2>2 DEF Pulling
  <2>3. CASE p \in Shown
    <3>1. p \in Listed /\ p \in Nat /\ Rank(p) > offset /\ Rank(p) \in Nat
      BY <1>1, <2>3, FetchFacts, PlaceFacts
    <3>2. p # e /\ ~(e < p)
      BY <1>1, <1>3, <2>1, <3>1, PlaceFacts
    <3>3. QED  BY <2>1, <3>1, <3>2
  <2>4. QED  BY <1>3, <1>8, <2>2, <2>3
<1>9. ASSUME arrivals <= FirstPage, NEW d \in read', NEW e \in Listed \ read', d < e, e <= Top
      PROVE  Before(e) + FirstPage <= offset'
  <2>1. e \in Listed \ read /\ e \in Nat /\ Rank(e) \in Nat /\ Before(e) \in Nat /\ Before(e) <= Rank(e)
    BY <1>1, <1>3, <1>5, <1>9, PlaceFacts, PlaceInPull
  <2>2. CASE d \in read
    <3>1. Before(e) + FirstPage <= offset
      BY <1>1, <1>9, <2>1, <2>2 DEF Pulling, Overtaken
    <3>2. QED  BY <1>3, <2>1, <3>1
  <2>3. CASE d \in Shown
    <3>1. d \in Listed /\ d \in Nat /\ Rank(d) \in Nat /\ Rank(d) <= offset'
      BY <1>1, <1>3, <2>3, FetchFacts, PlaceFacts
    <3>2. Rank(e) < Rank(d)
      BY <1>1, <1>9, <2>1, <3>1, PlaceFacts
    <3>3. Rank(e) <= offset
      BY <1>3, <1>6, <1>9, <2>1, <3>1, <3>2
    <3>4. QED  BY <1>3, <2>1, <3>3
  <2>4. QED  BY <1>3, <1>9, <2>2, <2>3
<1>10. \A e \in read' : New(e)' /\ Fate(e)'
  BY FetchFate
<1>11. \A e : New(e)' = New(e)
  BY <1>2 DEF New
<1>12. (arrivals <= FirstPage => Overtaken)'
  BY <1>2, <1>4, <1>9 DEF Overtaken
<1>13. (offset = 0 => read = {} /\ arrivals = 0)' /\ (offset > 0 => offset >= FirstPage)'
  BY <1>3, <1>7
<1>14. (\A e \in Listed \ (read \cup slipped) :
           New(e) /\ Rank(e) <= offset => \A p \in Pulled : p < e)'
  BY <1>2, <1>4, <1>8, <1>11
<1>15. QED  BY <1>10, <1>12, <1>13, <1>14 DEF Pulling

(* The list has been read down to a known event, or to its end: whatever   *)
(* is older than an event of the batch has been dealt with.                *)
LEMMA FetchLast ==
  ASSUME IInv, FetchPage, pc' = "handle"
  PROVE  Handing'
<1>1. TypeOK /\ Bounded /\ Pulling /\ pc = "page" /\ latest = cursor
  BY DEF IInv, FetchPage
<1>2. UNCHANGED <<happened, gone, cursor, arrivals, slipped, handled, base, latest>>
  BY DEF FetchPage, cloud
<1>3. /\ offset \in Nat /\ Size \in Nat \ {0} /\ offset' \in Nat
      /\ ~(NewShown = Shown /\ offset' < Count) /\ (offset' < Count => offset' = offset + Size)
      /\ read' = read \cup NewShown /\ Pulled' = Pulled \cup Fresh(Shown)
      /\ Fresh(Shown) \subseteq NewShown /\ NewShown \subseteq Shown
      /\ offset <= offset'
  BY FetchFacts DEF NewShown
<1>4. Listed \subseteq Nat /\ Pulled \subseteq read /\ read \subseteq Nat /\ Pulled' \subseteq Nat
      /\ cursor \in Nat /\ happened \in Nat /\ Pulled' \subseteq 1..happened
      /\ Listed = 1..happened \ gone /\ Count \in Nat
  <2>1. happened \in Nat /\ read \subseteq 1..happened /\ cursor \in Nat /\ Count \in Nat
    BY <1>1, ListFacts, LifeAssumption DEF TypeOK
  <2>2. Pulled \subseteq read /\ Listed \subseteq 1..happened
    BY <1>1, ListFacts DEF IInv, Ordered
  <2>3. Shown \subseteq Listed
    BY FetchFacts
  <2>4. Pulled' \subseteq 1..happened
    <3>1. Pulled' \subseteq read \cup Shown /\ Shown \subseteq 1..happened
      BY <1>3, <2>2, <2>3
    <3>2. QED  BY <2>1, <3>1
  <2>5. Listed = 1..happened \ gone /\ Listed \subseteq Nat
    BY <2>1 DEF Listed
  <2>6. read \subseteq Nat /\ Pulled' \subseteq Nat
    BY <2>1, <2>4
  <2>7. QED  BY <2>1, <2>2, <2>4, <2>5, <2>6
(* A new entry that is not read lies at a place passed before.             *)
<1>5. ASSUME NEW e \in Listed \ read', New(e)
      PROVE  Rank(e) <= offset
  <2>1. e \in Nat /\ Rank(e) \in Nat /\ Rank(e) <= Count /\ e \notin Shown
    BY <1>1, <1>3, <1>4, <1>5, PlaceFacts DEF NewShown
  <2>2. ~(offset < Rank(e) /\ Rank(e) <= offset + Size)
    BY <1>5, <2>1 DEF Shown, Entries
  <2>3. CASE Count <= offset'
    <3>1. CASE Count <= offset
      BY <1>3, <1>4, <2>1, <3>1
    <3>2. CASE ~(Count <= offset)
      <4>1. Count <= offset + Size
        BY <1>3, <1>4, <2>3, <3>2 DEF FetchPage, OffsetAfter, Lower
      <4>2. QED  BY <1>3, <1>4, <2>1, <2>2, <4>1
    <3>3. QED  BY <3>1, <3>2
  <2>4. CASE ~(Count <= offset')
    <3>1. PICK d \in Shown : ~New(d)
      BY <1>3, <1>4, <2>4 DEF NewShown
    <3>2. d \in Listed /\ d \in Nat /\ Rank(d) \in Nat /\ Rank(d) <= offset + Size
      BY <1>1, <3>1, FetchFacts, PlaceFacts
    <3>3. d < e
      BY <1>4, <1>5, <2>1, <3>1, <3>2 DEF New
    <3>4. Rank(e) < Rank(d)
      BY <1>1, <2>1, <3>2, <3>3, PlaceFacts
    <3>5. QED  BY <1>3, <2>1, <2>2, <3>2, <3>4
  <2>5. QED  BY <2>3, <2>4
<1>6. ASSUME NEW p \in Pulled', NEW e \in 1..p, New(e)
      PROVE  Done(e)' \/ e \in Pulled'
  <2>1. e \in 1..happened /\ p \in Nat /\ e \in Nat /\ e <= p
    BY <1>4, <1>6
  <2>2. CASE e \in read'
    <3>1. Fate(e)'
      BY <2>2, FetchFate
    <3>2. QED  BY <3>1 DEF Fate, Done
  <2>3. CASE e \in gone \cup slipped
    BY <1>2, <2>3 DEF Done
  <2>4. CASE e \notin read' \cup gone \cup slipped
    <3>1. e \in Listed /\ Rank(e) <= offset
      BY <1>4, <1>5, <1>6, <2>1, <2>4
    <3>2. CASE p \in Pulled
      <4>1. p < e
        BY <1>1, <1>3, <1>6, <2>4, <3>1, <3>2 DEF Pulling
      <4>2. QED  BY <2>1, <4>1
    <3>3. CASE p \in Shown
      <4>1. p \in Listed /\ Rank(p) > offset /\ Rank(p) \in Nat /\ Rank(e) \in Nat
        BY <1>1, <2>1, <3>3, FetchFacts, PlaceFacts
      <4>2. e # p /\ ~(e < p)
        BY <1>1, <1>3, <2>1, <3>1, <4>1, PlaceFacts
      <4>3. QED  BY <2>1, <4>2
    <3>4. QED  BY <1>3, <1>6, <3>2, <3>3
  <2>5. QED  BY <2>2, <2>3, <2>4
<1>7. ASSUME NEW p \in Pulled'  PROVE latest' < p
  <2>1. New(p)'
    BY <1>3, <1>4, <1>7, FetchFate
  <2>2. QED  BY <1>1, <1>2, <1>4, <1>7, <2>1 DEF New
<1>8. \A e : New(e)' = New(e)
  BY <1>2 DEF New
<1>9. QED  BY <1>6, <1>7, <1>8 DEF Handing

LEMMA FetchPageStep ==
  ASSUME IInv, FetchPage
  PROVE  IInv'
<1>1. TypeOK' /\ Ordered' /\ \A b \in batch' : b.at \in Nat /\ b.at <= offset
  BY FetchTyped, FetchOrder
<1>2. UNCHANGED <<happened, gone, saved, cursor, arrivals, slipped, handled, base, latest>>
      /\ hidden \subseteq hidden'
  BY DEF FetchPage, cloud
<1>3. Bounded' /\ latest' = cursor'
  BY <1>2 DEF IInv, Bounded, FetchPage
<1>4. NothingSkipped'
  <2>1. \A e : Done(e) => Done(e)'
    BY <1>2 DEF Done, Superseded
  <2>2. pc = "page"
    BY DEF FetchPage
  <2>3. QED  BY <1>2, <2>1, <2>2 DEF IInv, NothingSkipped
<1>5. pc' = "page" => Pulling' /\ \A b \in batch' : b.at < offset'
  <2>1. SUFFICES ASSUME pc' = "page"  PROVE Pulling' /\ \A b \in batch' : b.at < offset'
    OBVIOUS
  <2>2. offset' = offset + Size /\ offset \in Nat /\ Size \in Nat \ {0}
    BY <2>1, FetchFacts
  <2>3. QED  BY <1>1, <2>1, <2>2, FetchNext
<1>6. pc' = "handle" => Handing'
  BY FetchLast
<1>7. QED  BY <1>1, <1>3, <1>4, <1>5, <1>6 DEF IInv

-----------------------------------------------------------------------------
(***************************************************************************)
(* The other steps.                                                        *)
(***************************************************************************)
LEMMA DoneKept ==
  ASSUME TypeOK, Bounded, happened' \in Nat, happened <= happened', gone \subseteq gone',
         handled \subseteq handled', slipped \subseteq slipped', hidden \subseteq hidden',
         base' \in Nat, base <= base', NEW e \in Nat, Done(e)
  PROVE  Done(e)'
<1>1. happened \in Nat /\ base \in Nat /\ base <= happened
  BY ListFacts DEF Bounded
<1>2. CASE e <= base
  BY <1>1, <1>2 DEF Done
<1>3. CASE Superseded(e)
  <2>1. PICK d \in 1..happened : d > e /\ FileOf[d] = FileOf[e]
    BY <1>3 DEF Superseded
  <2>2. d \in 1..happened'
    BY <1>1, <2>1
  <2>3. QED  BY <2>1, <2>2 DEF Done, Superseded
<1>4. CASE e \in handled \cup gone \cup Ignored \cup slipped \cup hidden
  BY <1>4 DEF Done
<1>5. QED  BY <1>2, <1>3, <1>4 DEF Done

LEMMA SkippedKept ==
  ASSUME TypeOK, Bounded, NothingSkipped, \A e \in Nat : Done(e) => Done(e)',
         UNCHANGED <<cursor, saved>>, pc' # "off" => pc # "off"
  PROVE  NothingSkipped'
<1>1. cursor \in Nat /\ (saved # None => saved \in Nat)
  BY LifeAssumption DEF TypeOK
<1>2. 1..cursor \subseteq Nat /\ (saved # None => 1..saved \subseteq Nat)
  BY <1>1
<1>3. QED  BY <1>2 DEF NothingSkipped

(* A new event is behind nothing that is read, and pushes the rest down.   *)
LEMMA ArriveStep ==
  ASSUME IInv, Arrive
  PROVE  IInv'
<1>1. TypeOK /\ Bounded /\ NothingSkipped /\ happened' = happened + 1 /\ happened < Events
      /\ UNCHANGED <<gone, pc, stopping, cursor, saved, batch, read, offset, attempt, faults,
                     starts, handled, latest, base, slipped, hidden>>
  BY DEF IInv, Arrive, pull, bounds
<1>2. /\ happened \in Nat /\ Events \in Nat /\ read \subseteq 1..happened /\ arrivals \in Nat
      /\ base \in Nat /\ base <= happened /\ cursor \in Nat /\ cursor <= happened
      /\ arrivals <= happened
      /\ saved # None => saved \in Nat
      /\ offset \in Nat
  BY <1>1, ListFacts, LifeAssumption DEF TypeOK, Bounded
<1>3. arrivals' \in 0..happened' /\ arrivals <= arrivals'
      /\ (pc = "page" /\ offset > 0 => arrivals' = arrivals + 1)
      /\ (pc # "page" \/ offset = 0 => arrivals' = arrivals)
  BY <1>1, <1>2 DEF Arrive
<1>4. TypeOK'
  <2>1. happened' \in 0..Events /\ read' \subseteq 1..happened' /\ arrivals' \in Nat
    BY <1>1, <1>2, <1>3
  <2>2. QED  BY <1>1, <2>1 DEF TypeOK
<1>5. Bounded'
  BY <1>1, <1>2, <1>3 DEF Bounded
<1>6. \A e \in Nat : (Done(e) => Done(e)') /\ (Superseded(e) => Superseded(e)')
  <2>1. ASSUME NEW e \in Nat, Superseded(e)  PROVE Superseded(e)'
    BY <1>1, <1>2, <2>1 DEF Superseded
  <2>2. QED  BY <1>1, <1>2, <2>1, DoneKept
<1>7. NothingSkipped'
  BY <1>1, <1>6, SkippedKept
<1>8. Pulled' = Pulled /\ (\A e : New(e)' = New(e))
  BY <1>1 DEF Pulled, New
<1>9. ASSUME Ordered  PROVE Ordered'
  BY <1>1, <1>2, <1>3, <1>8, <1>9, LifeAssumption DEF Ordered
<1>10. ASSUME Handing, Ordered  PROVE Handing'
  <2>1. Pulled \subseteq Nat
    BY <1>2, <1>10 DEF Ordered
  <2>2. ASSUME NEW p \in Pulled, NEW e \in 1..p, New(e)  PROVE Done(e)' \/ e \in Pulled
    <3>1. p \in Nat /\ e \in Nat
      BY <2>1
    <3>2. QED  BY <1>6, <1>10, <2>2, <3>1 DEF Handing
  <2>3. arrivals' <= FirstPage => arrivals <= FirstPage
    BY <1>2, <1>3, LifeAssumption
  <2>4. QED  BY <1>1, <1>8, <1>10, <2>2, <2>3 DEF Handing
<1>11. ASSUME pc = "page", Pulling, Ordered  PROVE Pulling'
  <2>1. Listed' \subseteq Listed \cup {happened + 1} /\ Listed \subseteq Listed'
    BY <1>1, <1>2 DEF Listed
  <2>2. TypeOK' /\ Listed' \subseteq Nat /\ IsFiniteSet(Listed')
    <3>1. happened' \in Nat /\ Listed' \subseteq 1..happened'
      BY <1>1, <1>2 DEF Listed
    <3>2. IsFiniteSet(1..happened')
      BY <3>1, FS_Interval
    <3>3. IsFiniteSet(Listed') /\ Listed' \subseteq Nat
      <4>1. 1..happened' \subseteq Nat
        BY <3>1
      <4>2. QED  BY <3>1, <3>2, <4>1, FS_Subset
    <3>4. QED  BY <1>4, <3>3
  <2>3. ASSUME NEW e \in Nat
        PROVE  /\ Rank(e) \in Nat /\ Rank(e)' \in Nat /\ Rank(e) <= Rank(e)'
               /\ e \in Listed' => Rank(e)' >= 1
    <3>1. Rank(e)' = RankIn(Listed', e) /\ Rank(e) = RankIn(Listed, e)
      BY DEF Rank, RankIn, Newer
    <3>2. Rank(e)' \in Nat /\ (e \in Listed' => Rank(e)' >= 1)
      BY <2>2, <3>1, RankFacts
    <3>3. Rank(e) \in Nat
      BY <1>1, PlaceFacts
    <3>4. RankIn(Listed, e) <= RankIn(Listed', e)
      BY <2>1, <2>2, RankGrows
    <3>5. QED  BY <3>1, <3>2, <3>3, <3>4
  <2>4. (\A e \in read : New(e) /\ Fate(e))'
    <3>1. ASSUME NEW e \in read  PROVE New(e)' /\ Fate(e)'
      <4>1. e \in Nat /\ New(e) /\ Fate(e)
        BY <1>2, <1>11 DEF Pulling
      <4>2. QED  BY <1>1, <1>6, <1>8, <4>1 DEF Fate
    <3>2. QED  BY <1>1, <3>1
  <2>5. ASSUME NEW e \in Listed' \ (read \cup slipped), New(e), Rank(e)' <= offset, NEW p \in Pulled
        PROVE  p < e
    <3>1. p \in 1..happened
      BY <1>2, <1>11 DEF Ordered
    <3>2. CASE e = happened + 1
      BY <1>2, <3>1, <3>2
    <3>3. CASE e \in Listed
      <4>1. e \in Nat /\ Rank(e) <= offset
        <5>1. e \in Nat
          BY <1>1, <3>3, ListFacts
        <5>2. QED  BY <1>2, <2>3, <2>5, <5>1
      <4>2. QED  BY <1>11, <2>5, <3>3, <4>1 DEF Pulling
    <3>4. QED  BY <2>1, <2>5, <3>2, <3>3
  <2>6. ASSUME arrivals' <= FirstPage  PROVE Overtaken'
    <3>1. CASE offset = 0
      BY <1>1, <1>11, <3>1 DEF Pulling, Overtaken
    <3>2. CASE offset > 0
      <4>1. arrivals' = arrivals + 1 /\ Top' = Top /\ Top \in Nat /\ Top <= happened
        BY <1>1, <1>2, <1>3, <1>11, <3>2 DEF Top
      <4>2. \A e : Before(e)' = Before(e)
        <5>1. \A c \in Listed' : c <= Top => c \in Listed
          BY <1>2, <2>1, <4>1
        <5>2. \A e : {c \in Listed' : e <= c /\ c <= Top} = {c \in Listed : e <= c /\ c <= Top}
          BY <2>1, <5>1
        <5>3. QED  BY <4>1, <5>2 DEF Before
      <4>3. Overtaken
        BY <1>2, <1>11, <2>6, <4>1, LifeAssumption DEF Pulling
      <4>4. \A e \in Listed' \ read : e <= Top => e \in Listed \ read
        BY <1>2, <2>1, <4>1
      <4>5. QED  BY <1>1, <4>1, <4>2, <4>3, <4>4 DEF Overtaken
    <3>3. QED  BY <1>2, <3>1, <3>2
  <2>7. (offset = 0 => read = {} /\ arrivals = 0)' /\ (offset > 0 => offset >= FirstPage)'
    BY <1>1, <1>3, <1>11 DEF Pulling
  <2>8. QED  BY <1>1, <1>8, <2>4, <2>5, <2>6, <2>7 DEF Pulling
<1>12. QED  BY <1>1, <1>4, <1>5, <1>7, <1>9, <1>10, <1>11 DEF IInv

(* A vanished entry: the one that moves up to a place passed has slipped.  *)
LEMMA VanishStep ==
  ASSUME IInv, NEW v \in Vanishing, Vanish(v)
  PROVE  IInv'
<1>1. TypeOK /\ Bounded /\ NothingSkipped /\ gone' = gone \cup {v} /\ v \notin gone /\ v <= happened
      /\ UNCHANGED <<happened, pc, stopping, cursor, saved, batch, read, offset, attempt, faults,
                     starts, handled, latest, base, arrivals, hidden>>
  BY DEF IInv, Vanish, pull, bounds
<1>2. /\ happened \in Nat /\ Events \in Nat /\ read \subseteq 1..happened /\ v \in Event
      /\ base \in Nat /\ offset \in Nat /\ v \in Listed /\ v \in Nat /\ arrivals \in Nat
      /\ Top \in Int /\ Listed \subseteq Nat
  <2>1. happened \in Nat /\ Events \in Nat /\ Listed \subseteq Nat
    BY <1>1, ListFacts
  <2>2. v \in Event /\ v \in Nat
    BY <1>1, <2>1, LifeAssumption DEF Event
  <2>3. v \in Listed
    BY <1>1, <2>1, <2>2 DEF Listed, Event
  <2>4. Top \in Int
    BY <1>1, <2>1 DEF TypeOK, Top
  <2>5. QED  BY <1>1, <2>1, <2>2, <2>3, <2>4 DEF TypeOK
<1>3. slipped \subseteq slipped' /\ slipped' \subseteq slipped \cup Entries(offset, 1)
  BY DEF Vanish
<1>4. TypeOK'
  <2>1. Entries(offset, 1) \subseteq Event
    BY <1>1, ListFacts DEF Entries, Event
  <2>2. gone' \subseteq Event /\ slipped' \subseteq Event
    BY <1>1, <1>2, <1>3, <2>1 DEF TypeOK
  <2>3. QED  BY <1>1, <2>2 DEF TypeOK
<1>5. Bounded'
  BY <1>1 DEF Bounded
<1>6. \A e \in Nat : (Done(e) => Done(e)') /\ (Superseded(e) => Superseded(e)')
  BY <1>1, <1>2, <1>3, DoneKept DEF Superseded
<1>7. NothingSkipped'
  BY <1>1, <1>6, SkippedKept
<1>8. Pulled' = Pulled /\ (\A e : New(e)' = New(e)) /\ Top' = Top
  BY <1>1 DEF Pulled, New, Top
<1>9. ASSUME Ordered  PROVE Ordered'
  BY <1>1, <1>8, <1>9 DEF Ordered
<1>10. ASSUME Handing, Ordered  PROVE Handing'
  <2>1. Pulled \subseteq Nat
    BY <1>2, <1>10 DEF Ordered
  <2>2. ASSUME NEW p \in Pulled, NEW e \in 1..p, New(e)  PROVE Done(e)' \/ e \in Pulled
    <3>1. p \in Nat /\ e \in Nat
      BY <2>1
    <3>2. QED  BY <1>6, <1>10, <2>2, <3>1 DEF Handing
  <2>3. QED  BY <1>1, <1>8, <1>10, <2>2 DEF Handing
<1>11. ASSUME pc = "page", Pulling, Ordered  PROVE Pulling'
  <2>1. Listed' = Listed \ {v} /\ IsFiniteSet(Listed)
    BY <1>1, ListFacts DEF Listed
  <2>2. ASSUME NEW e \in Nat
        PROVE  /\ Rank(e) \in Nat /\ Rank(e)' \in Nat
               /\ Rank(e) = IF v >= e THEN Rank(e)' + 1 ELSE Rank(e)'
    <3>1. Rank(e)' = RankIn(Listed \ {v}, e) /\ Rank(e) = RankIn(Listed, e)
      BY <2>1 DEF Rank, RankIn, Newer
    <3>2. Rank(e) \in Nat
      BY <1>1, PlaceFacts
    <3>3. IsFiniteSet(Listed \ {v}) /\ Listed \ {v} \subseteq Nat
      BY <1>2, <2>1, FS_Subset
    <3>4. Rank(e)' \in Nat
      BY <3>1, <3>3, RankFacts
    <3>5. QED  BY <1>2, <2>1, <3>1, <3>2, <3>4, RankVanish
  <2>3. (\A e \in read : New(e) /\ Fate(e))'
    <3>1. ASSUME NEW e \in read  PROVE New(e)' /\ Fate(e)'
      <4>1. e \in Nat /\ New(e) /\ Fate(e)
        BY <1>2, <1>11 DEF Pulling
      <4>2. QED  BY <1>1, <1>6, <1>8, <4>1 DEF Fate
    <3>2. QED  BY <1>1, <3>1
  <2>4. ASSUME NEW e \in Listed' \ (read \cup slipped'), New(e), Rank(e)' <= offset, NEW p \in Pulled
        PROVE  p < e
    <3>1. e \in Listed \ (read \cup slipped) /\ e \in Nat /\ e # v
      BY <1>2, <1>3, <2>1, <2>4
    <3>2. CASE Rank(e) <= offset
      BY <1>11, <2>4, <3>1, <3>2 DEF Pulling
    <3>3. CASE ~(Rank(e) <= offset)
      <4>1. v >= e /\ Rank(e) = offset + 1
        BY <1>2, <2>2, <2>4, <3>1, <3>3
      <4>2. e < v
        BY <1>2, <3>1, <4>1
      <4>3. Rank(v) < Rank(e) /\ Rank(v) >= 1 /\ Rank(v) \in Nat
        BY <1>1, <1>2, <3>1, <4>2, PlaceFacts
      <4>4. v \in Entries(0, offset) /\ e \in Entries(offset, 1)
        BY <1>2, <3>1, <4>1, <4>3 DEF Entries
      <4>5. e \in slipped'
        BY <1>11, <4>4 DEF Vanish
      <4>6. QED  BY <2>4, <4>5
    <3>4. QED  BY <3>2, <3>3
  <2>5. ASSUME Overtaken  PROVE Overtaken'
    <3>1. \A e \in Nat : Before(e) \in Nat /\ Before(e)' \in Nat /\ Before(e)' <= Before(e)
      <4>1. ASSUME NEW e \in Nat
            PROVE  Before(e) \in Nat /\ Before(e)' \in Nat /\ Before(e)' <= Before(e)
        <5> DEFINE S == {c \in Listed : e <= c /\ c <= Top}
        <5>1. IsFiniteSet(S) /\ Before(e) = Cardinality(S)
          BY <2>1, FS_Subset DEF Before
        <5>2. Before(e)' = Cardinality({c \in Listed \ {v} : e <= c /\ c <= Top})
          BY <1>8, <2>1 DEF Before
        <5>3. {c \in Listed \ {v} : e <= c /\ c <= Top} \subseteq S
          OBVIOUS
        <5>4. QED  BY <5>1, <5>2, <5>3, FS_Subset, FS_CardinalityType
      <4>2. QED  BY <4>1
    <3>2. SUFFICES ASSUME NEW d \in read, NEW e \in Listed' \ read, d < e, e <= Top
                   PROVE  Before(e)' + FirstPage <= offset
      BY <1>1, <1>8 DEF Overtaken
    <3>3. e \in Listed \ read /\ e \in Nat
      BY <1>2, <2>1, <3>2
    <3>4. Before(e) + FirstPage <= offset
      BY <2>5, <3>2, <3>3 DEF Overtaken
    <3>5. QED  BY <1>2, <3>1, <3>3, <3>4, LifeAssumption
  <2>6. QED  BY <1>1, <1>8, <1>11, <2>3, <2>4, <2>5 DEF Pulling
<1>12. QED  BY <1>1, <1>4, <1>5, <1>7, <1>9, <1>10, <1>11 DEF IInv

(* A pull that begins, or begins anew, has read nothing.                   *)
LEMMA NewPullStep ==
  ASSUME IInv, NEW n \in 0..Attempts, NewPull(n), pc' = "page", pc \in {"loop", "page"},
         UNCHANGED <<happened, gone, stopping, cursor, saved, starts, handled, latest,
                     base, slipped, hidden>>, faults' \in Nat
  PROVE  IInv'
<1>1. TypeOK /\ Bounded /\ NothingSkipped /\ latest = cursor
  BY DEF IInv
<1>2. batch' = {} /\ read' = {} /\ offset' = 0 /\ arrivals' = 0 /\ Pulled' = {} /\ attempt' = n
  BY DEF NewPull, Pulled
<1>3. TypeOK'
  BY <1>1, <1>2, ListFacts DEF TypeOK
<1>4. Bounded'
  BY <1>1, <1>2, ListFacts DEF Bounded
<1>5. NothingSkipped'
  <2>1. \A e : Done(e) => Done(e)'
    BY DEF Done, Superseded
  <2>2. QED  BY <1>1, <2>1 DEF NothingSkipped
<1>6. Pulling' /\ Ordered'
  BY <1>2 DEF Pulling, Ordered, Overtaken
<1>7. QED  BY <1>1, <1>2, <1>3, <1>4, <1>5, <1>6 DEF IInv

LEMMA HandleEventStep ==
  ASSUME IInv, HandleEvent
  PROVE  IInv' /\ (latest' > latest \/ arrivals > FirstPage)
<1>1. PICK b \in batch : /\ Upcoming(b) /\ handled' = handled \cup {b.event}
                         /\ latest' = b.event /\ batch' = batch \ {b}
                         /\ IF batch' = {} THEN cursor' = b.event /\ pc' = "loop"
                                           ELSE UNCHANGED <<cursor, pc>>
  BY DEF HandleEvent
<1>2. TypeOK /\ Bounded /\ NothingSkipped /\ pc = "handle" /\ Ordered /\ Handing
      /\ UNCHANGED <<happened, gone, stopping, saved, read, offset, attempt, faults, starts,
                     base, arrivals, slipped, hidden>>
  BY DEF IInv, HandleEvent, cloud, bounds
<1>3. /\ happened \in Nat /\ Events \in Nat /\ happened <= Events /\ read \subseteq 1..happened
      /\ Pulled \subseteq 1..happened /\ cursor \in Nat /\ arrivals \in Nat /\ latest \in Nat
      /\ FirstPage \in Nat
      /\ \A c \in batch : c.event \in Pulled /\ c.event \in Nat
  <2>1. happened \in Nat /\ Events \in Nat /\ happened <= Events /\ read \subseteq 1..happened
    BY <1>2, ListFacts DEF TypeOK
  <2>2. Pulled \subseteq 1..happened
    BY <1>2, <2>1 DEF Ordered
  <2>3. \A c \in batch : c.event \in Pulled
    BY DEF Pulled
  <2>4. cursor \in Nat /\ arrivals \in Nat /\ latest \in Nat /\ FirstPage \in Nat
    BY <1>2, LifeAssumption DEF TypeOK
  <2>5. \A c \in batch : c.event \in Nat
    <3>1. 1..happened \subseteq Nat
      BY <2>1
    <3>2. QED  BY <2>2, <2>3, <3>1, Zenon
  <2>6. QED  BY <2>1, <2>2, <2>3, <2>4, <2>5
<1>4. TypeOK'
  <2>1. b.event \in Event /\ b.event \in 0..Events
    BY <1>2, <1>3, LifeAssumption DEF Event, TypeOK
  <2>2. pc' = "handle" => batch' # {} /\ cursor' = cursor
    BY <1>1
  <2>3. pc' \in {"loop", "handle"} /\ cursor' \in 0..Events
    BY <1>1, <1>2, <2>1 DEF TypeOK
  <2>4. QED  BY <1>1, <1>2, <2>1, <2>2, <2>3 DEF TypeOK
<1>5. b.event <= happened /\ cursor' \in {cursor, b.event}
  BY <1>1, <1>3
<1>6. Bounded'
  BY <1>1, <1>2, <1>3, <1>5 DEF Bounded
<1>7. \A e \in Nat : Done(e) => Done(e)'
  BY <1>1, <1>2, <1>3, DoneKept DEF Bounded
<1>8. Done(b.event)' /\ Pulled \subseteq Pulled' \cup {b.event} /\ Pulled' \subseteq Pulled
  BY <1>1 DEF Done, Pulled
<1>9. NothingSkipped'
  <2>1. saved # None => \A e \in 1..saved : Done(e)'
    <3>1. saved # None => saved \in Nat
      BY <1>2, LifeAssumption DEF TypeOK
    <3>2. saved # None => 1..saved \subseteq Nat
      BY <3>1
    <3>3. QED  BY <1>2, <1>7, <3>2 DEF NothingSkipped
  <2>2. \A e \in 1..cursor : Done(e)'
    <3>1. 1..cursor \subseteq Nat
      BY <1>3
    <3>2. QED  BY <1>2, <1>7, <3>1 DEF NothingSkipped
  <2>3. CASE batch' # {}
    BY <1>1, <1>2, <2>1, <2>2, <2>3 DEF NothingSkipped
  <2>4. CASE batch' = {}
    <3>1. Pulled' = {} /\ cursor' = b.event
      BY <1>1, <2>4 DEF Pulled
    <3>2. ASSUME NEW e \in 1..b.event  PROVE Done(e)'
      <4>1. e \in Nat /\ b.event \in Pulled
        BY <1>3, <3>2
      <4>2. CASE ~New(e)
        <5>1. e \in 1..cursor
          BY <1>3, <3>2, <4>1, <4>2 DEF New
        <5>2. QED  BY <2>2, <5>1
      <4>3. CASE New(e)
        <5>1. Done(e) \/ e \in Pulled
          BY <1>2, <3>2, <4>1, <4>3 DEF Handing
        <5>2. Done(e) \/ e = b.event
          BY <1>8, <3>1, <5>1
        <5>3. QED  BY <1>7, <1>8, <4>1, <5>2
      <4>4. QED  BY <4>2, <4>3
    <3>3. QED  BY <1>2, <2>1, <3>1, <3>2 DEF NothingSkipped
  <2>5. QED  BY <2>3, <2>4
<1>10. Ordered'
  BY <1>1, <1>2, <1>8 DEF Ordered
(* The events that are left come after b.                                  *)
<1>11. ASSUME arrivals <= FirstPage, NEW c \in batch'  PROVE b.event < c.event
  <2>1. c \in batch /\ c # b
    BY <1>1, <1>11
  <2>2. b \in [at: 0..Events, event: Event] /\ c \in [at: 0..Events, event: Event]
    BY <1>2, <2>1 DEF TypeOK
  <2>3. b.at > c.at \/ (b.at = c.at /\ b.event <= c.event)
    BY <1>1, <2>1 DEF Upcoming
  <2>4. CASE b.at > c.at
    BY <1>2, <1>11, <2>1, <2>4 DEF Ordered
  <2>5. CASE b.at = c.at /\ b.event <= c.event
    <3>1. b.event # c.event
      BY <2>1, <2>2, <2>5
    <3>2. QED  BY <1>3, <2>1, <2>5, <3>1
  <2>6. QED  BY <2>3, <2>4, <2>5
<1>12. pc' = "handle" => Handing'
  <2>1. SUFFICES ASSUME pc' = "handle"  PROVE Handing'
    OBVIOUS
  <2>2. cursor' = cursor
    BY <1>1, <2>1
  <2>3. ASSUME NEW p \in Pulled', NEW e \in 1..p, New(e)  PROVE Done(e)' \/ e \in Pulled'
    <3>1. p \in Pulled /\ e \in Nat
      BY <1>3, <1>8, <2>3
    <3>2. Done(e) \/ e \in Pulled
      BY <1>2, <2>3, <3>1 DEF Handing
    <3>3. QED  BY <1>7, <1>8, <3>1, <3>2
  <2>4. arrivals <= FirstPage => \A p \in Pulled' : latest' < p
    BY <1>1, <1>11 DEF Pulled
  <2>5. QED  BY <1>2, <2>2, <2>3, <2>4 DEF Handing, New
<1>13. pc' \in {"loop", "page", "failed"} => latest' = cursor' /\ pc' # "page"
  BY <1>1, <1>2
<1>14. IInv'
  BY <1>1, <1>2, <1>4, <1>6, <1>9, <1>10, <1>12, <1>13 DEF IInv
<1>15. latest' > latest \/ arrivals > FirstPage
  <2>1. CASE arrivals <= FirstPage
    BY <1>1, <1>2, <1>3, <2>1 DEF Handing
  <2>2. QED  BY <1>3, <2>1
<1>16. QED  BY <1>14, <1>15

LEMMA HandlerFailsStep ==
  ASSUME IInv, HandlerFails
  PROVE  IInv'
<1>1. PICK b \in batch : latest' = cursor /\ cursor' = cursor
                         /\ handled' \in {handled, handled \cup {b.event}}
  BY DEF HandlerFails, SetBack
<1>2. TypeOK /\ Bounded /\ NothingSkipped /\ pc = "handle" /\ pc' = "failed" /\ faults' = faults + 1
      /\ UNCHANGED <<happened, gone, stopping, saved, batch, read, offset, attempt, starts,
                     base, arrivals, slipped, hidden>>
  BY DEF IInv, HandlerFails, cloud, pull, Fault
<1>3. TypeOK'
  <2>1. handled' \subseteq Event /\ faults' \in Nat
    BY <1>1, <1>2 DEF TypeOK
  <2>2. QED  BY <1>1, <1>2, <2>1 DEF TypeOK
<1>4. Bounded'
  BY <1>1, <1>2 DEF Bounded
<1>5. \A e : Done(e) => Done(e)'
  BY <1>1, <1>2 DEF Done, Superseded
<1>6. NothingSkipped'
  BY <1>1, <1>2, <1>5 DEF NothingSkipped
<1>7. QED  BY <1>1, <1>2, <1>3, <1>4, <1>6 DEF IInv

LEMMA StartStep ==
  ASSUME IInv, Start
  PROVE  IInv'
<1>1. TypeOK /\ Bounded /\ NothingSkipped /\ pc' = "loop" /\ cursor' = FirstCursor
      /\ latest' = FirstCursor /\ stopping' = FALSE /\ starts' = starts + 1
      /\ base' = (IF Mode = "last" /\ saved # None THEN base ELSE FirstCursor)
      /\ UNCHANGED <<happened, gone, saved, batch, read, offset, attempt, faults, handled,
                     arrivals, slipped, hidden>>
  BY DEF IInv, Start, cloud, pull
<1>2. happened \in Nat /\ Events \in Nat /\ happened <= Events /\ base \in Nat /\ base <= happened
      /\ (saved # None => saved \in 0..Events /\ saved <= happened)
  BY <1>1, ListFacts DEF TypeOK, Bounded
<1>3. FirstCursor \in 0..happened /\ base' \in 0..happened /\ base <= base'
  BY <1>1, <1>2 DEF FirstCursor, Bounded
<1>4. TypeOK'
  <2>1. FirstCursor \in 0..Events /\ base' \in 0..Events /\ starts' \in Nat
    BY <1>1, <1>2, <1>3 DEF TypeOK
  <2>2. QED  BY <1>1, <2>1 DEF TypeOK
<1>5. Bounded'
  BY <1>1, <1>2, <1>3 DEF Bounded, FirstCursor
<1>6. \A e \in Nat : Done(e) => Done(e)'
  BY <1>1, <1>2, <1>3, DoneKept
<1>7. saved # None => \A e \in 1..saved : Done(e)'
  <2>1. saved # None => 1..saved \subseteq Nat
    BY <1>2
  <2>2. QED  BY <1>1, <1>6, <2>1 DEF NothingSkipped
<1>8. \A e \in 1..cursor' : Done(e)'
  <2>1. CASE Mode = "last" /\ saved # None
    BY <1>1, <1>7, <2>1 DEF FirstCursor
  <2>2. CASE ~(Mode = "last" /\ saved # None)
    <3>1. cursor' = base'
      BY <1>1, <2>2
    <3>2. QED  BY <3>1 DEF Done
  <2>3. QED  BY <2>1, <2>2
<1>9. NothingSkipped'
  BY <1>1, <1>7, <1>8 DEF NothingSkipped
<1>10. QED  BY <1>1, <1>4, <1>5, <1>9 DEF IInv

(* The thread ends, goes on, or gives a pull up: neither its place in the  *)
(* list nor the list changes.                                              *)
LEMMA OtherSteps ==
  ASSUME IInv,
         UNCHANGED <<happened, gone, cursor, pull, starts, handled, latest, base, arrivals,
                     slipped, hidden>>,
         stopping' \in BOOLEAN, faults' \in Nat, saved' \in {saved, cursor},
         saved' # saved => pc # "off",
         \/ pc' = pc
         \/ pc' \in {"loop", "failed"} /\ pc \in {"loop", "page", "failed"}
         \/ pc' = "off"
  PROVE  IInv'
<1>1. TypeOK /\ Bounded /\ NothingSkipped
      /\ UNCHANGED <<batch, read, offset, attempt>>
  BY DEF IInv, pull
<1>2. pc' \in {"off", "loop", "page", "handle", "failed"} /\ (pc' # "off" => pc # "off")
      /\ (pc' \in {"page", "handle"} => pc' = pc)
  BY <1>1 DEF TypeOK
<1>3. TypeOK'
  BY <1>1, <1>2 DEF TypeOK
<1>4. Bounded'
  BY <1>1 DEF Bounded
<1>5. \A e : (Done(e)' <=> Done(e)) /\ (Superseded(e)' <=> Superseded(e)) /\ New(e)' = New(e)
  BY DEF Done, Superseded, New
<1>6. NothingSkipped'
  <2>1. \A e \in 1..cursor : pc' # "off" => Done(e)'
    BY <1>1, <1>2, <1>5 DEF NothingSkipped
  <2>2. saved' # None => \A e \in 1..saved' : Done(e)'
    BY <1>1, <1>5 DEF NothingSkipped
  <2>3. QED  BY <2>1, <2>2 DEF NothingSkipped
<1>7. Pulled' = Pulled /\ Listed' = Listed /\ Top' = Top
      /\ (\A e : Rank(e)' = Rank(e)) /\ (\A e : Before(e)' = Before(e))
  BY <1>1 DEF Pulled, Listed, Top, Rank, Before
<1>8. ASSUME Pulling  PROVE Pulling'
  <2>1. \A e : Fate(e)' <=> Fate(e)
    BY <1>5, <1>7 DEF Fate
  <2>2. Overtaken' <=> Overtaken
    BY <1>1, <1>7 DEF Overtaken
  <2>3. QED  BY <1>1, <1>5, <1>7, <1>8, <2>1, <2>2 DEF Pulling
<1>9. (Ordered => Ordered') /\ (Handing => Handing')
  BY <1>1, <1>5, <1>7 DEF Ordered, Handing
<1>10. QED  BY <1>1, <1>2, <1>3, <1>4, <1>6, <1>8, <1>9 DEF IInv

-----------------------------------------------------------------------------
(***************************************************************************)
(* The theorems.                                                           *)
(***************************************************************************)
LEMMA InitIInv == Init => IInv
<1>1. SUFFICES ASSUME Init  PROVE IInv
  OBVIOUS
<1>2. Events \in Nat /\ Attempts \in Nat /\ None \notin Nat
  BY LifeAssumption
<1>3. TypeOK
  <2>1. 0 \in 0..Events /\ 0 \in 0..Attempts /\ 0 \in Nat
    BY <1>2
  <2>2. QED  BY <1>1, <2>1 DEF Init, TypeOK
<1>4. Bounded /\ NothingSkipped
  BY <1>1, <1>2 DEF Init, Bounded, NothingSkipped
<1>5. QED  BY <1>1, <1>3, <1>4 DEF Init, IInv

LEMMA Step ==
  ASSUME IInv, [Next]_vars
  PROVE  IInv' /\ (HandleEvent => latest' > latest \/ arrivals > FirstPage)
<1>1. SUFFICES IInv'
  BY HandleEventStep
<1>2. TypeOK /\ cursor \in {cursor} /\ faults \in Nat /\ stopping \in BOOLEAN /\ Attempts \in Nat
      /\ faults + 1 \in Nat
  BY LifeAssumption DEF IInv, TypeOK
<1>3. CASE Start
  BY <1>3, StartStep
<1>4. CASE RequestStop
  BY <1>2, <1>4, OtherSteps DEF RequestStop, cloud, bounds, history
<1>5. CASE StopInLoop
  BY <1>2, <1>5, OtherSteps DEF StopInLoop, cloud, bounds
<1>6. CASE StopAfterFailure
  BY <1>2, <1>6, OtherSteps DEF StopAfterFailure, cloud, bounds
<1>7. CASE RetryAfterFailure
  BY <1>2, <1>7, OtherSteps DEF RetryAfterFailure, cloud, bounds, history
<1>8. CASE BeginPull
  <2>1. 1 \in 0..Attempts
    BY LifeAssumption
  <2>2. QED  BY <1>2, <1>8, <2>1, NewPullStep DEF BeginPull, cloud, bounds
<1>9. CASE FetchPage
  BY <1>9, FetchPageStep
<1>10. CASE HandleEvent
  BY <1>10, HandleEventStep
<1>11. CASE PullFails
  <2>1. pc = "page" /\ faults' \in Nat
        /\ UNCHANGED <<happened, gone, stopping, cursor, saved, starts, handled, latest, base,
                       slipped, hidden>>
    BY <1>2, <1>11 DEF PullFails, Fault, cloud
  <2>2. CASE pc' \in {"loop", "failed"} /\ UNCHANGED <<pull, arrivals>>
    BY <1>2, <2>1, <2>2, OtherSteps
  <2>3. CASE attempt < Attempts /\ NewPull(attempt + 1) /\ UNCHANGED pc
    <3>1. attempt + 1 \in 0..Attempts
      BY <1>2, <2>3 DEF TypeOK
    <3>2. QED  BY <2>1, <2>3, <3>1, NewPullStep
  <2>4. QED  BY <1>11, <2>2, <2>3 DEF PullFails
<1>12. CASE LoginInvalid
  BY <1>2, <1>12, OtherSteps DEF LoginInvalid, Fault, cloud, history
<1>13. CASE HandlerFails
  BY <1>13, HandlerFailsStep
<1>14. CASE Crash
  BY <1>2, <1>14, OtherSteps DEF Crash, Fault, cloud
<1>15. CASE Arrive
  BY <1>15, ArriveStep
<1>16. CASE \E v \in Vanishing : Vanish(v)
  BY <1>16, VanishStep
<1>17. CASE UNCHANGED vars
  BY <1>2, <1>17, OtherSteps DEF vars, cloud, bounds, history
<1>18. QED
  BY <1>3, <1>4, <1>5, <1>6, <1>7, <1>8, <1>9, <1>10, <1>11, <1>12, <1>13, <1>14, <1>15,
     <1>16, <1>17 DEF Next, Thread

(* The strengthened invariant holds in every reachable state.              *)
THEOREM LifeInvariance == Spec => []IInv
<1>1. QED  BY InitIInv, Step, PTL DEF Spec

(* The types; and a batch, while it is pulled and handled, holds events    *)
(* newer than the cursor, one of each file.                                *)
THEOREM LifeTypes == Spec => []TypeOK
<1>1. IInv => TypeOK
  BY DEF IInv
<1>2. QED  BY <1>1, LifeInvariance, PTL

(* The cursor, and the one that is saved, passes no event that was not     *)
(* handed over.                                                            *)
THEOREM CursorSkipsNothing == Spec => []NothingSkipped
<1>1. IInv => NothingSkipped
  BY DEF IInv
<1>2. QED  BY <1>1, LifeInvariance, PTL

(* Events are handed over in the order of their appearance.                *)
THEOREM HandedOverInOrder == Spec => InOrder
<1>1. IInv /\ [Next]_vars => [HandleEvent => latest' > latest \/ arrivals > FirstPage]_vars
  BY Step
<1>2. QED  BY <1>1, LifeInvariance, PTL DEF Spec, InOrder

-----------------------------------------------------------------------------
(***************************************************************************)
(* OAuthSession, for any number of requests, refreshes, authorizations and *)
(* revocations side by side, whether or not a refresh token can be used    *)
(* twice: its types, that no refresh loses the authorization another one   *)
(* has saved, and that revoked data come back only from a token request    *)
(* that was under way.                                                     *)
(*                                                                         *)
(* The bundle is not locked; what saves it is that a token HDHive has just *)
(* issued is known to one call only, until that call saves it: nobody else *)
(* can use it up, and nobody else has an older bundle to save after a      *)
(* newer one that is still accepted.                                       *)
(***************************************************************************)
(* Which call is where.                                                    *)
KindAt ==
    \A c \in Call :
        /\ place[c] \in {"resolve", "ensure", "reload", "send", "load", "lookup", "refresh"}
              => Kind[c] = "request"
        /\ place[c] \in {"submit", "exchange"} => Kind[c] = "complete"
        /\ place[c] = "save" => Kind[c] \in {"request", "complete"}
        /\ place[c] = "start" => Kind[c] = "start"
        /\ place[c] \in {"revoke", "clear", "cleared"} => Kind[c] = "revoke"
        /\ place[c] = "newkey" => Kind[c] # "revoke"

(* A call that needs an instance key has one; only a revocation takes the  *)
(* plugin's away.                                                          *)
Keyed ==
    /\ \A c \in Call : place[c] \in {"refresh", "save", "start", "submit", "exchange"} => ik[c] # 0
    /\ ~Revoking => bundle.key # 0 /\ \A c \in Call : place[c] # "newkey"

(* A token about to be saved is known to one call only.                    *)
Own ==
    \A c \in Call : place[c] = "save" =>
        /\ tok[c] # 0 /\ tok[c] # bundle.pair
        /\ \A d \in Call \ {c} : tok[d] # tok[c]
        /\ ~Revoking => tok[c] \in live

(* After the data were cleared with no token request under way.            *)
NothingBack ==
    IsCleared /\ underway = {} =>
        /\ bundle.pair = 0
        /\ \A c \in Call : place[c] # "refresh" /\ (place[c] = "save" => Kind[c] = "complete")

AuthInv ==
    /\ AuthTypeOK /\ pairs \in Nat /\ keys \in Nat
    /\ KindAt /\ Keyed /\ Own
    /\ AuthorizationKept
    /\ NothingBack

-----------------------------------------------------------------------------
(***************************************************************************)
(* Types.                                                                  *)
(***************************************************************************)
Places == Ends \cup {"idle", "resolve", "ensure", "reload", "send", "load", "lookup",
                     "newkey", "refresh", "save", "start", "submit", "exchange", "revoke", "clear"}

Counted == AuthTypeOK /\ pairs \in Nat /\ keys \in Nat

LEMMA ToTyped ==
  ASSUME place \in [Call -> Places], NEW c \in Call, NEW l \in Places, To(c, l)
  PROVE  place' \in [Call -> Places]
BY DEF To

LEMMA NotRefreshedTyped ==
  ASSUME place \in [Call -> Places], NEW c \in Call, NotRefreshed(c)
  PROVE  place' \in [Call -> Places]
BY DEF NotRefreshed, To, Places, Ends

LEMMA IssueTyped ==
  ASSUME Counted, NEW c \in Call, NEW spent, Issue(c, spent)
  PROVE  /\ pairs' \in Nat /\ pairs < pairs' /\ live' \subseteq 1..pairs' /\ good' \subseteq 1..pairs'
         /\ place' \in [Call -> Places] /\ tok' \in [Call -> 0..pairs']
         /\ lost' \in BOOLEAN /\ losses' \in 0..MaxLosses
<1>1. pairs' = pairs + 1 /\ live' \subseteq live \cup {pairs + 1} /\ good' = good \cup {pairs + 1}
  BY DEF Issue
<1>2. /\ pairs \in Nat /\ live \subseteq 1..pairs /\ good \subseteq 1..pairs
      /\ place \in [Call -> Places] /\ tok \in [Call -> 0..pairs]
      /\ lost \in BOOLEAN /\ losses \in 0..MaxLosses /\ MaxLosses \in Nat
  BY OAuthAssumption DEF Counted, AuthTypeOK, Places
<1>3. pairs' \in Nat /\ pairs < pairs' /\ live' \subseteq 1..pairs' /\ good' \subseteq 1..pairs'
  BY <1>1, <1>2
<1>4. CASE Hold(c, pairs + 1) /\ To(c, "save") /\ UNCHANGED <<lost, losses>>
  <2>1. place' \in [Call -> Places]
    BY <1>2, <1>4, ToTyped DEF Places
  <2>2. tok' \in [Call -> 0..pairs']
    BY <1>1, <1>2, <1>4 DEF Hold
  <2>3. QED  BY <1>2, <1>3, <1>4, <2>1, <2>2
<1>5. CASE /\ losses < MaxLosses /\ losses' = losses + 1 /\ lost' = TRUE
           /\ (IF place[c] = "refresh" THEN NotRefreshed(c) ELSE To(c, "failed"))
           /\ UNCHANGED tok
  <2>1. place' \in [Call -> Places]
    BY <1>2, <1>5, ToTyped, NotRefreshedTyped DEF Places, Ends
  <2>2. tok' \in [Call -> 0..pairs'] /\ losses' \in 0..MaxLosses
    BY <1>1, <1>2, <1>5
  <2>3. QED  BY <1>2, <1>3, <1>5, <2>1, <2>2
<1>6. QED  BY <1>4, <1>5 DEF Issue

LEMMA CallTyped ==
  ASSUME Counted, NEW c \in Call, CallStep(c)
  PROVE  Counted'
<1>1. /\ pairs \in Nat /\ keys \in Nat
      /\ bundle \in [key: 0..keys, pair: 0..pairs, fresh: BOOLEAN]
      /\ states \in [State -> 0..keys]
      /\ live \subseteq 1..pairs /\ good \subseteq 1..pairs
      /\ place \in [Call -> Places] /\ back \in [Call -> {"none", "reload", "resolve"}]
      /\ tok \in [Call -> 0..pairs] /\ ik \in [Call -> 0..keys]
      /\ retried \subseteq Call /\ underway \subseteq Call /\ lost \in BOOLEAN
      /\ expiries \in 0..MaxExpiries /\ losses \in 0..MaxLosses
  BY DEF Counted, AuthTypeOK, Places
<1>2. /\ bundle.key \in 0..keys /\ bundle.pair \in 0..pairs /\ bundle.fresh \in BOOLEAN
      /\ MaxLosses \in Nat
  BY <1>1, OAuthAssumption
<1>3. \A t \in 0..pairs : Hold(c, t) => tok' \in [Call -> 0..pairs]
  BY <1>1 DEF Hold
<1>4. Hold(c, bundle.pair) => tok' \in [Call -> 0..pairs]
  BY <1>2, <1>3
<1>5. \A l \in Places : To(c, l) => place' \in [Call -> Places]
  BY <1>1, ToTyped
<1>6. NotRefreshed(c) => place' \in [Call -> Places]
  BY <1>1, NotRefreshedTyped
<1> USE DEF hdhive
<1>7. CASE Resolve(c)
  <2>1. place' \in [Call -> Places]
    BY <1>5, <1>7 DEF Resolve, Places, Ends
  <2>2. QED  BY <1>1, <1>7, <2>1 DEF Resolve, Counted, AuthTypeOK, Places
<1>8. CASE Ensure(c)
  <2>1. place' \in [Call -> Places]
    BY <1>5, <1>8 DEF Ensure, Places, Ends
  <2>2. tok' \in [Call -> 0..pairs] /\ back' \in [Call -> {"none", "reload", "resolve"}]
    BY <1>1, <1>4, <1>8 DEF Ensure
  <2>3. QED  BY <1>1, <1>8, <2>1, <2>2 DEF Ensure, Counted, AuthTypeOK, Places
<1>9. CASE Reload(c)
  <2>1. place' \in [Call -> Places]
    BY <1>5, <1>9 DEF Reload, Places, Ends
  <2>2. tok' \in [Call -> 0..pairs]
    BY <1>1, <1>4, <1>9 DEF Reload
  <2>3. QED  BY <1>1, <1>9, <2>1, <2>2 DEF Reload, Counted, AuthTypeOK, Places
<1>10. CASE Send(c)
  <2>1. place' \in [Call -> Places]
    BY <1>5, <1>10 DEF Send, Places, Ends
  <2>2. back' \in [Call -> {"none", "reload", "resolve"}] /\ retried' \subseteq Call
    BY <1>1, <1>10 DEF Send
  <2>3. QED  BY <1>1, <1>10, <2>1, <2>2 DEF Send, Counted, AuthTypeOK, Places
<1>11. CASE Load(c)
  <2>1. place' \in [Call -> Places]
    BY <1>5, <1>6, <1>11 DEF Load, Places
  <2>2. tok' \in [Call -> 0..pairs] /\ ik' \in [Call -> 0..keys]
    BY <1>1, <1>2, <1>4, <1>11 DEF Load
  <2>3. QED  BY <1>1, <1>11, <2>1, <2>2 DEF Load, Counted, AuthTypeOK, Places
<1>11a. CASE LoadAgain(c)
  <2>1. place' \in [Call -> Places]
    BY <1>5, <1>6, <1>11a DEF LoadAgain, Places
  <2>2. ik' \in [Call -> 0..keys]
    BY <1>1, <1>2, <1>4, <1>11a DEF LoadAgain
  <2>3. QED  BY <1>1, <1>11a, <2>1, <2>2 DEF LoadAgain, Counted, AuthTypeOK, Places
<1>12. CASE NewKey(c)
  <2>1. place' \in [Call -> Places]
    <3>1. To(c, "start") \/ To(c, "submit") \/ NotRefreshed(c)
      BY <1>12 DEF NewKey
    <3>2. QED  BY <1>5, <1>6, <3>1 DEF Places
  <2>2. keys' = keys + 1 /\ bundle' = [key |-> keys + 1, pair |-> 0, fresh |-> FALSE]
    BY <1>12 DEF NewKey, Empty
  <2>3. bundle' \in [key: 0..keys', pair: 0..pairs, fresh: BOOLEAN] /\ keys' \in Nat
    BY <1>1, <2>2
  <2>4. ik' \in [Call -> 0..keys'] /\ states \in [State -> 0..keys']
    <3>1. 0..keys \subseteq 0..keys' /\ keys + 1 \in 0..keys'
      BY <1>1, <2>2
    <3>2. ik' = [ik EXCEPT ![c] = keys + 1]
      BY <1>12 DEF NewKey
    <3>3. QED  BY <1>1, <3>1, <3>2
  <2>5. QED  BY <1>1, <1>12, <2>1, <2>3, <2>4 DEF NewKey, Counted, AuthTypeOK, Places
<1>13. ASSUME NEW spent, Issue(c, spent),
              UNCHANGED <<bundle, states, keys, back, ik, retried, underway, expiries>>
       PROVE  Counted'
  <2>1. /\ pairs' \in Nat /\ pairs < pairs' /\ live' \subseteq 1..pairs' /\ good' \subseteq 1..pairs'
        /\ place' \in [Call -> Places] /\ tok' \in [Call -> 0..pairs']
        /\ lost' \in BOOLEAN /\ losses' \in 0..MaxLosses
    BY <1>13, IssueTyped
  <2>2. 0..pairs \subseteq 0..pairs'
    BY <1>1, <2>1
  <2>3. bundle' \in [key: 0..keys', pair: 0..pairs', fresh: BOOLEAN]
    BY <1>1, <1>13, <2>2
  <2>4. QED  BY <1>1, <1>13, <2>1, <2>3 DEF Counted, AuthTypeOK, Places
<1>14. CASE Refresh(c)
  <2>1. CASE tok[c] \in live
    BY <1>13, <1>14, <2>1 DEF Refresh
  <2>2. CASE tok[c] \notin live
    <3>1. NotRefreshed(c) /\ UNCHANGED <<live, good, pairs, tok, lost, losses>>
          /\ UNCHANGED <<bundle, states, keys, back, ik, retried, underway, expiries>>
      BY <1>14, <2>2 DEF Refresh
    <3>2. place' \in [Call -> Places]
      BY <1>6, <3>1
    <3>3. QED  BY <1>1, <3>1, <3>2 DEF Counted, AuthTypeOK, Places
  <2>3. QED  BY <2>1, <2>2
<1>15. CASE RefreshLost(c)
  <2>1. losses' \in 0..MaxLosses
    BY <1>1, <1>2, <1>15 DEF RefreshLost
  <2>2. QED  BY <1>1, <1>6, <1>15, <2>1 DEF RefreshLost, Counted, AuthTypeOK, Places
<1>16. CASE Save(c)
  <2>1. place' \in [Call -> Places]
    <3>1. back[c] \in Places
      BY <1>1 DEF Places, Ends
    <3>2. QED  BY <1>5, <1>16, <3>1 DEF Save, Places, Ends
  <2>2. bundle' \in [key: 0..keys, pair: 0..pairs, fresh: BOOLEAN]
    BY <1>1, <1>16 DEF Save, Applied
  <2>3. underway' \subseteq Call
    BY <1>1, <1>16 DEF Save
  <2>4. QED  BY <1>1, <1>16, <2>1, <2>2, <2>3 DEF Save, Counted, AuthTypeOK, Places
<1>17. CASE WithKey(c)
  <2>1. place' \in [Call -> Places]
    BY <1>5, <1>17 DEF WithKey, Begins, Places
  <2>2. ik' \in [Call -> 0..keys]
    BY <1>1, <1>2, <1>17 DEF WithKey
  <2>3. QED  BY <1>1, <1>17, <2>1, <2>2 DEF WithKey, Counted, AuthTypeOK, Places
<1>18. CASE OAuthStart(c)
  <2>1. place' \in [Call -> Places]
    BY <1>5, <1>18 DEF OAuthStart, Places, Ends
  <2>2. states' \in [State -> 0..keys]
    BY <1>1, <1>18 DEF OAuthStart
  <2>3. QED  BY <1>1, <1>18, <2>1, <2>2 DEF OAuthStart, Counted, AuthTypeOK, Places
<1>19. CASE Submit(c)
  <2>1. place' \in [Call -> Places]
    BY <1>5, <1>19 DEF Submit, Places, Ends
  <2>2. states' \in [State -> 0..keys]
    <3>1. states' = [states EXCEPT ![StateOf[c]] = 0] /\ 0 \in 0..keys
      BY <1>1, <1>19 DEF Submit
    <3>2. QED  BY <1>1, <3>1
  <2>3. QED  BY <1>1, <1>19, <2>1, <2>2 DEF Submit, Counted, AuthTypeOK, Places
<1>20. CASE Exchange(c)
  BY <1>13, <1>20 DEF Exchange
<1>21. CASE Revoke(c)
  <2>1. place' \in [Call -> Places]
    BY <1>5, <1>21 DEF Revoke, Begins, Places
  <2>2. QED  BY <1>1, <1>4, <1>21, <2>1 DEF Revoke, Counted, AuthTypeOK, Places
<1>22. CASE Revoked(c)
  <2>1. place' \in [Call -> Places]
    BY <1>5, <1>22 DEF Revoked, Places
  <2>2. live' \subseteq 1..pairs /\ good' \subseteq 1..pairs /\ losses' \in 0..MaxLosses
    <3>1. live' \subseteq live /\ good' \subseteq good
      BY <1>22 DEF Revoked
    <3>2. losses' = losses \/ (losses < MaxLosses /\ losses' = losses + 1)
      BY <1>22 DEF Revoked
    <3>3. QED  BY <1>1, <1>2, <3>1, <3>2
  <2>3. QED  BY <1>1, <1>22, <2>1, <2>2 DEF Revoked, Counted, AuthTypeOK, Places
<1>23. CASE Clear(c)
  <2>1. place' \in [Call -> Places]
    BY <1>5, <1>23 DEF Clear, Places, Ends
  <2>2. bundle' \in [key: 0..keys, pair: 0..pairs, fresh: BOOLEAN]
    BY <1>1, <1>23 DEF Clear, Cleared, Empty
  <2>3. underway' \subseteq Call
    BY <1>1, <1>23 DEF Clear, Underway
  <2>4. QED  BY <1>1, <1>23, <2>1, <2>2, <2>3 DEF Clear, Counted, AuthTypeOK, Places
<1>24. QED
  BY <1>7, <1>8, <1>9, <1>10, <1>11, <1>11a, <1>12, <1>14, <1>15, <1>16, <1>17, <1>18, <1>19, <1>20,
     <1>21, <1>22, <1>23 DEF CallStep

-----------------------------------------------------------------------------
(***************************************************************************)
(* A call goes on from place to place.                                     *)
(***************************************************************************)
LEMMA PlaceOf ==
  ASSUME Counted, NEW c \in Call, NEW l, To(c, l)
  PROVE  place'[c] = l /\ \A d \in Call : d # c => place'[d] = place[d]
BY DEF Counted, AuthTypeOK, To

(* A revocation that has begun stays begun.                                *)
LEMMA StillRevoking ==
  ASSUME \A d \in Call : place'[d] = "idle" => place[d] = "idle"
  PROVE  Revoking => Revoking'
BY DEF Revoking

(* May call c be at place l, as to its kind, its key and the bundle?       *)
Allowed(c, l, k) ==
    /\ l \notin {"idle", "save", "cleared"}
    /\ l \in {"resolve", "ensure", "reload", "send", "load", "lookup", "refresh"}
          => Kind[c] = "request"
    /\ l \in {"submit", "exchange"} => Kind[c] = "complete"
    /\ l = "start" => Kind[c] = "start"
    /\ l \in {"revoke", "clear"} => Kind[c] = "revoke"
    /\ l = "newkey" => Kind[c] # "revoke" /\ bundle.key = 0
    /\ l \in {"refresh", "start", "submit", "exchange"} => k # 0
    /\ l = "refresh" => bundle.pair # 0

(* A step that neither saves nor issues tokens.                            *)
LEMMA Moves ==
  ASSUME AuthInv, Counted', NEW c \in Call, NEW l, To(c, l), place[c] # "save",
         Allowed(c, l, ik'[c]),
         bundle' = bundle, UNCHANGED <<underway, lost>>,
         Revoking \/ live' = live,
         \A d \in Call : d # c => tok'[d] = tok[d] /\ ik'[d] = ik[d],
         tok'[c] \in {tok[c], bundle.pair}
  PROVE  AuthInv'
<1>1. Counted /\ KindAt /\ Keyed /\ Own /\ AuthorizationKept /\ NothingBack
  BY DEF AuthInv, Counted
<1>2. place'[c] = l /\ \A d \in Call : d # c => place'[d] = place[d]
  BY <1>1, PlaceOf
<1>3. Revoking => Revoking'
  BY <1>2, StillRevoking DEF Allowed
<1>4. KindAt'
  BY <1>1, <1>2 DEF KindAt, Allowed
<1>5. Keyed'
  <2>1. \A d \in Call : place'[d] \in {"refresh", "save", "start", "submit", "exchange"} => ik'[d] # 0
    BY <1>1, <1>2 DEF Keyed, Allowed
  <2>2. ~Revoking' => bundle.key # 0 /\ \A d \in Call : place'[d] # "newkey"
    BY <1>1, <1>2, <1>3 DEF Keyed, Allowed
  <2>3. QED  BY <2>1, <2>2 DEF Keyed
<1>6. Own'
  <2>1. SUFFICES ASSUME NEW d \in Call, place'[d] = "save"
                 PROVE  /\ tok'[d] # 0 /\ tok'[d] # bundle.pair
                        /\ \A e \in Call \ {d} : tok'[e] # tok'[d]
                        /\ ~Revoking' => tok'[d] \in live'
    BY DEF Own
  <2>2. d # c /\ place[d] = "save" /\ tok'[d] = tok[d]
    BY <1>2, <2>1 DEF Allowed
  <2>3. QED  BY <1>1, <1>3, <2>2 DEF Own
<1>7. AuthorizationKept'
  <2>1. SUFFICES ASSUME ~lost, ~Revoking'
                 PROVE  bundle.pair \in live' \/ \E d \in Call : place'[d] = "save" /\ tok'[d] \in live'
    BY DEF AuthorizationKept
  <2>2. live' = live
    BY <1>3, <2>1
  <2>3. CASE bundle.pair \in live
    BY <2>2, <2>3
  <2>4. CASE \E d \in Call : place[d] = "save" /\ tok[d] \in live
    BY <1>2, <2>2, <2>4
  <2>5. QED  BY <1>1, <1>3, <2>1, <2>3, <2>4 DEF AuthorizationKept
<1>8. NothingBack'
  <2>1. SUFFICES ASSUME IsCleared', underway = {}
                 PROVE  /\ bundle.pair = 0
                        /\ \A d \in Call : place'[d] # "refresh" /\ (place'[d] = "save" => Kind[d] = "complete")
    BY DEF NothingBack
  <2>2. IsCleared
    BY <1>2, <2>1 DEF IsCleared, Allowed
  <2>3. QED  BY <1>1, <1>2, <2>1, <2>2 DEF NothingBack, Allowed
<1>9. QED  BY <1>4, <1>5, <1>6, <1>7, <1>8 DEF AuthInv, Counted

(* Nobody goes on: a token expires, or the broker forgets.                 *)
LEMMA Stays ==
  ASSUME AuthInv, Counted', UNCHANGED <<place, tok, ik, live, underway, lost>>,
         bundle'.key = bundle.key, bundle'.pair = bundle.pair
  PROVE  AuthInv'
<1>1. Revoking' = Revoking /\ IsCleared' = IsCleared
  BY DEF Revoking, IsCleared
<1>2. KindAt' /\ Keyed' /\ Own' /\ AuthorizationKept' /\ NothingBack'
  BY <1>1 DEF AuthInv, KindAt, Keyed, Own, AuthorizationKept, NothingBack
<1>3. QED  BY <1>2 DEF AuthInv, Counted

(***************************************************************************)
(* Tokens are issued, saved and cleared.                                   *)
(***************************************************************************)
LEMMA IssueStep ==
  ASSUME AuthInv, Counted', NEW c \in Call, NEW spent, Issue(c, spent),
         \/ place[c] = "exchange" /\ spent = {}
         \/ place[c] = "refresh" /\ spent \subseteq {tok[c]},
         UNCHANGED <<bundle, ik, underway>>
  PROVE  AuthInv'
<1>1. /\ Counted /\ KindAt /\ Keyed /\ Own /\ AuthorizationKept /\ NothingBack
      /\ pairs \in Nat /\ tok \in [Call -> 0..pairs] /\ bundle.pair \in 0..pairs
      /\ live' = (live \ spent) \cup {pairs + 1} /\ lost \in BOOLEAN
      /\ place[c] \in {"exchange", "refresh"}
  BY DEF AuthInv, Counted, AuthTypeOK, Issue
<1>2. CASE Hold(c, pairs + 1) /\ To(c, "save") /\ UNCHANGED <<lost, losses>>
  <2>1. place'[c] = "save" /\ \A d \in Call : d # c => place'[d] = place[d] /\ tok'[d] = tok[d]
    BY <1>1, <1>2, PlaceOf DEF Hold
  <2>2. tok'[c] = pairs + 1 /\ pairs + 1 # 0
    BY <1>1, <1>2 DEF Hold
  <2>3. (Revoking => Revoking') /\ (IsCleared' => IsCleared)
    BY <1>1, <2>1, StillRevoking DEF IsCleared
  <2>4. \A d \in Call : tok[d] # pairs + 1
    BY <1>1
  <2>5. KindAt'
    BY <1>1, <2>1 DEF KindAt
  <2>6. Keyed'
    BY <1>1, <2>1, <2>3 DEF Keyed
  <2>7. Own'
    <3>1. SUFFICES ASSUME NEW d \in Call, place'[d] = "save"
                   PROVE  /\ tok'[d] # 0 /\ tok'[d] # bundle.pair
                          /\ \A e \in Call \ {d} : tok'[e] # tok'[d]
                          /\ ~Revoking' => tok'[d] \in live'
      BY DEF Own
    <3>2. CASE d = c
      <4>1. bundle.pair # pairs + 1
        BY <1>1
      <4>2. \A e \in Call \ {d} : tok'[e] # tok'[d]
        BY <2>1, <2>2, <2>4, <3>2
      <4>3. QED  BY <1>1, <2>2, <3>2, <4>1, <4>2
    <3>3. CASE d # c
      <4>1. place[d] = "save" /\ tok'[d] = tok[d] /\ tok[d] # tok[c] /\ tok[d] # pairs + 1
        BY <1>1, <2>1, <2>4, <3>1, <3>3 DEF Own
      <4>2. \A e \in Call \ {d} : tok'[e] # tok'[d]
        BY <1>1, <2>1, <2>2, <4>1 DEF Own
      <4>3. ~Revoking' => tok[d] \in live'
        BY <1>1, <2>3, <4>1 DEF Own
      <4>4. QED  BY <1>1, <4>1, <4>2, <4>3 DEF Own
    <3>4. QED  BY <3>2, <3>3
  <2>8. AuthorizationKept'
    BY <1>1, <2>1, <2>2 DEF AuthorizationKept
  <2>9. NothingBack'
    <3>1. SUFFICES ASSUME IsCleared', underway = {}
                   PROVE  /\ bundle.pair = 0
                          /\ \A d \in Call : place'[d] # "refresh" /\ (place'[d] = "save" => Kind[d] = "complete")
      BY DEF NothingBack
    <3>2. bundle.pair = 0
          /\ \A d \in Call : place[d] # "refresh" /\ (place[d] = "save" => Kind[d] = "complete")
      BY <1>1, <2>3, <3>1 DEF NothingBack
    <3>3. place[c] = "exchange" /\ Kind[c] = "complete"
      BY <1>1, <3>2 DEF KindAt
    <3>4. QED  BY <2>1, <3>2, <3>3
  <2>10. QED  BY <2>5, <2>6, <2>7, <2>8, <2>9 DEF AuthInv, Counted
(* The answer got lost.                                                    *)
<1>3. CASE /\ lost' = TRUE /\ UNCHANGED tok
           /\ (IF place[c] = "refresh" THEN NotRefreshed(c) ELSE To(c, "failed"))
  <2>1. PICK l \in {"reauth", "failed"} : To(c, l)
    BY <1>3 DEF NotRefreshed
  <2>2. place'[c] = l /\ \A d \in Call : d # c => place'[d] = place[d]
    BY <1>1, <2>1, PlaceOf
  <2>3. (Revoking => Revoking') /\ (IsCleared' => IsCleared)
    BY <2>2, StillRevoking DEF IsCleared
  <2>4. KindAt' /\ Keyed'
    BY <1>1, <2>2, <2>3 DEF KindAt, Keyed
  <2>5. Own'
    <3>1. \A d \in Call : place'[d] = "save" => d # c /\ place[d] = "save"
      BY <2>2
    <3>2. \A d \in Call : place'[d] = "save" /\ tok[d] \in live => tok[d] \in live'
      BY <1>1, <3>1 DEF Own
    <3>3. QED  BY <1>1, <1>3, <2>3, <3>1, <3>2 DEF Own
  <2>6. AuthorizationKept'
    BY <1>3 DEF AuthorizationKept
  <2>7. NothingBack'
    BY <1>1, <2>2, <2>3 DEF NothingBack
  <2>8. QED  BY <2>4, <2>5, <2>6, <2>7 DEF AuthInv, Counted
<1>4. QED  BY <1>2, <1>3 DEF Issue

LEMMA SaveStep ==
  ASSUME AuthInv, Counted', NEW c \in Call, Save(c)
  PROVE  AuthInv'
<1>1. /\ Counted /\ KindAt /\ Keyed /\ Own /\ NothingBack /\ place[c] = "save"
      /\ bundle'.key = ik[c] /\ bundle'.pair = tok[c]
      /\ tok' = tok /\ ik' = ik /\ live' = live /\ lost' = lost
      /\ back[c] \in {"none", "reload", "resolve"}
  BY DEF AuthInv, Counted, AuthTypeOK, Save, Applied, hdhive
<1>2. PICK l : /\ To(c, l) /\ l = IF Kind[c] = "request" THEN back[c] ELSE "authorized"
  BY DEF Save
<1>3. place'[c] = l /\ \A d \in Call : d # c => place'[d] = place[d]
  BY <1>1, <1>2, PlaceOf
<1>4. /\ l \in {"none", "reload", "resolve", "authorized"}
      /\ l \in {"reload", "resolve"} => Kind[c] = "request"
  BY <1>1, <1>2
<1>5. (Revoking => Revoking') /\ (IsCleared' => IsCleared)
  BY <1>3, <1>4, StillRevoking DEF IsCleared
<1>6. KindAt'
  BY <1>1, <1>3, <1>4 DEF KindAt
<1>7. Keyed'
  BY <1>1, <1>3, <1>4, <1>5 DEF Keyed
<1>8. Own'
  BY <1>1, <1>3, <1>4, <1>5 DEF Own
<1>9. AuthorizationKept'
  BY <1>1, <1>5 DEF AuthorizationKept, Own
<1>10. NothingBack'
  <2>1. SUFFICES ASSUME IsCleared', underway' = {}  PROVE FALSE
    BY DEF NothingBack
  <2>2. IsCleared /\ Kind[c] # "complete" /\ underway = {}
    BY <1>5, <2>1 DEF Save
  <2>3. QED  BY <1>1, <2>2 DEF NothingBack
<1>11. QED  BY <1>6, <1>7, <1>8, <1>9, <1>10 DEF AuthInv, Counted

(* Only after a revocation has a call to make an instance key: what it     *)
(* saves over is not the authorization.                                    *)
LEMMA NewKeyStep ==
  ASSUME AuthInv, Counted', NEW c \in Call, NewKey(c)
  PROVE  AuthInv'
<1>1. /\ Counted /\ KindAt /\ Keyed /\ Own /\ NothingBack /\ place[c] = "newkey"
      /\ bundle'.pair = 0 /\ tok' = tok /\ live' = live /\ underway' = underway
      /\ ik' = [ik EXCEPT ![c] = keys + 1] /\ keys + 1 # 0
      /\ ik'[c] = keys + 1 /\ \A d \in Call : d # c => ik'[d] = ik[d]
  BY DEF AuthInv, Counted, AuthTypeOK, NewKey, Empty, hdhive
<1>2. Kind[c] \in {"request", "start", "complete"}
  BY <1>1, OAuthAssumption DEF KindAt
<1>3. PICK l \in {"reauth", "failed", "start", "submit"} :
        /\ To(c, l)
        /\ l = "start" => Kind[c] = "start"
        /\ l = "submit" => Kind[c] = "complete"
  BY <1>2 DEF NewKey, NotRefreshed
<1>4. place'[c] = l /\ \A d \in Call : d # c => place'[d] = place[d]
  BY <1>1, <1>3, PlaceOf
<1>5. Revoking /\ Revoking' /\ (IsCleared' => IsCleared)
  BY <1>1, <1>3, <1>4, StillRevoking DEF IsCleared, Keyed
<1>6. KindAt'
  BY <1>1, <1>3, <1>4 DEF KindAt
<1>7. Keyed'
  BY <1>1, <1>3, <1>4, <1>5 DEF Keyed
<1>8. Own'
  BY <1>1, <1>3, <1>4, <1>5 DEF Own
<1>9. AuthorizationKept'
  BY <1>5 DEF AuthorizationKept
<1>10. NothingBack'
  BY <1>1, <1>3, <1>4, <1>5 DEF NothingBack
<1>11. QED  BY <1>6, <1>7, <1>8, <1>9, <1>10 DEF AuthInv, Counted

LEMMA ClearStep ==
  ASSUME AuthInv, Counted', NEW c \in Call, Clear(c)
  PROVE  AuthInv'
<1>1. /\ Counted /\ KindAt /\ Keyed /\ Own /\ NothingBack /\ place[c] = "clear" /\ Kind[c] = "revoke"
      /\ bundle'.pair = 0 /\ tok' = tok /\ ik' = ik /\ underway' = underway \cup Underway
  BY DEF AuthInv, Counted, AuthTypeOK, Clear, Cleared, Empty, KindAt
<1>2. place'[c] = "cleared" /\ \A d \in Call : d # c => place'[d] = place[d]
  BY <1>1, PlaceOf DEF Clear
<1>3. Revoking'
  BY <1>1, <1>2 DEF Revoking
<1>4. KindAt'
  BY <1>1, <1>2 DEF KindAt
<1>5. Keyed'
  BY <1>1, <1>2, <1>3 DEF Keyed
<1>6. Own'
  BY <1>1, <1>2, <1>3 DEF Own
<1>7. AuthorizationKept'
  BY <1>3 DEF AuthorizationKept
<1>8. NothingBack'
  BY <1>1, <1>2 DEF NothingBack, Underway
<1>9. QED  BY <1>4, <1>5, <1>6, <1>7, <1>8 DEF AuthInv, Counted

-----------------------------------------------------------------------------
(***************************************************************************)
(* The invariant.                                                          *)
(***************************************************************************)
LEMMA CallKeeps ==
  ASSUME AuthInv, NEW c \in Call, CallStep(c)
  PROVE  AuthInv' /\ Counted'
<1>1. Counted /\ Counted' /\ KindAt /\ Keyed /\ AuthTypeOK
  BY CallTyped DEF AuthInv, Counted
<1>2. AuthInv'
  <2>1. /\ tok \in [Call -> 0..pairs] /\ ik \in [Call -> 0..keys]
        /\ \A t : Hold(c, t) => tok'[c] = t /\ \A d \in Call : d # c => tok'[d] = tok[d]
    BY <1>1 DEF AuthTypeOK, Hold
  <2>2. \A l : NotRefreshed(c) => \E m \in {"reauth", "failed"} : To(c, m)
    BY DEF NotRefreshed
  <2>3. CASE Resolve(c)
    <3>1. Kind[c] = "request"
      BY <1>1, <2>3 DEF Resolve, KindAt
    <3>2. PICK l \in {"ensure", "none"} : To(c, l)
      BY <2>3 DEF Resolve
    <3>3. QED  BY <1>1, <2>3, <3>1, <3>2, Moves DEF Resolve, Allowed, hdhive
  <2>4. CASE Ensure(c)
    <3>1. Kind[c] = "request"
      BY <1>1, <2>4 DEF Ensure, KindAt
    <3>2. PICK l \in {"send", "load", "reauth"} : To(c, l)
      BY <2>4 DEF Ensure
    <3>3. /\ tok'[c] \in {tok[c], bundle.pair} /\ \A d \in Call : d # c => tok'[d] = tok[d]
      BY <2>1, <2>4 DEF Ensure
    <3>4. QED  BY <1>1, <2>4, <3>1, <3>2, <3>3, Moves DEF Ensure, Allowed, hdhive
  <2>5. CASE Reload(c)
    <3>1. Kind[c] = "request"
      BY <1>1, <2>5 DEF Reload, KindAt
    <3>2. PICK l \in {"send", "reauth"} : To(c, l)
      BY <2>5 DEF Reload
    <3>3. /\ tok'[c] \in {tok[c], bundle.pair} /\ \A d \in Call : d # c => tok'[d] = tok[d]
      BY <2>1, <2>5 DEF Reload
    <3>4. QED  BY <1>1, <2>5, <3>1, <3>2, <3>3, Moves DEF Reload, Allowed, hdhive
  <2>6. CASE Send(c)
    <3>1. Kind[c] = "request"
      BY <1>1, <2>6 DEF Send, KindAt
    <3>2. PICK l \in {"ok", "refused", "failed", "load"} : To(c, l)
      BY <2>6 DEF Send
    <3>3. QED  BY <1>1, <2>6, <3>1, <3>2, Moves DEF Send, Allowed, hdhive
  <2>7. CASE Load(c)
    <3>1. Kind[c] = "request"
      BY <1>1, <2>7 DEF Load, KindAt
    <3>2. PICK l \in {"lookup", "refresh", "reauth", "failed"} :
            /\ To(c, l)
            /\ l = "refresh" => bundle.key # 0 /\ bundle.pair # 0
      BY <2>2, <2>7 DEF Load
    <3>3. /\ tok'[c] = bundle.pair /\ \A d \in Call : d # c => tok'[d] = tok[d]
      BY <2>1, <2>7 DEF Load
    <3>4. ik'[c] = bundle.key /\ \A d \in Call : d # c => ik'[d] = ik[d]
      BY <2>1, <2>7 DEF Load
    <3>5. QED  BY <1>1, <2>7, <3>1, <3>2, <3>3, <3>4, Moves DEF Load, Allowed, hdhive
  <2>7a. CASE LoadAgain(c)
    <3>1. Kind[c] = "request"
      BY <1>1, <2>7a DEF LoadAgain, KindAt
    <3>2. PICK l \in {"newkey", "reauth", "failed"} :
            To(c, l) /\ (l = "newkey" => bundle.key = 0)
      BY <2>2, <2>7a DEF LoadAgain
    <3>3. ik'[c] = bundle.key /\ \A d \in Call : d # c => ik'[d] = ik[d]
      BY <2>1, <2>7a DEF LoadAgain
    <3>4. QED  BY <1>1, <2>7a, <3>1, <3>2, <3>3, Moves DEF LoadAgain, Allowed, hdhive
  <2>8. CASE NewKey(c)
    BY <1>1, <2>8, NewKeyStep
  <2>9. CASE Refresh(c)
    <3>1. CASE tok[c] \in live
      BY <1>1, <2>9, <3>1, IssueStep DEF Refresh
    <3>2. CASE tok[c] \notin live
      <4>1. PICK l \in {"reauth", "failed"} : To(c, l)
        BY <2>2, <2>9, <3>2 DEF Refresh
      <4>2. UNCHANGED <<bundle, live, tok, ik, underway, lost>> /\ place[c] = "refresh"
        BY <2>9, <3>2 DEF Refresh, hdhive
      <4>3. QED  BY <1>1, <4>1, <4>2, Moves DEF Allowed
    <3>3. QED  BY <3>1, <3>2
  <2>10. CASE RefreshLost(c)
    <3>1. PICK l \in {"reauth", "failed"} : To(c, l)
      BY <2>2, <2>10 DEF RefreshLost
    <3>2. QED  BY <1>1, <2>10, <3>1, Moves DEF RefreshLost, Allowed, hdhive
  <2>11. CASE Save(c)
    BY <1>1, <2>11, SaveStep
  <2>12. CASE WithKey(c)
    <3>1. PICK l \in {"newkey", "start", "submit"} :
            /\ To(c, l) /\ place[c] = "idle" /\ Kind[c] \in {"start", "complete"}
            /\ IF bundle.key = 0 THEN l = "newkey"
               ELSE l = IF Kind[c] = "start" THEN "start" ELSE "submit"
      BY <2>12 DEF WithKey, Begins
    <3>2. ik'[c] = bundle.key /\ \A d \in Call : d # c => ik'[d] = ik[d]
      BY <2>1, <2>12 DEF WithKey
    <3>3. Allowed(c, l, ik'[c])
      BY <3>1, <3>2 DEF Allowed
    <3>4. QED  BY <1>1, <2>12, <3>1, <3>2, <3>3, Moves DEF WithKey, hdhive
  <2>13. CASE OAuthStart(c)
    BY <1>1, <2>13, Moves DEF OAuthStart, Allowed, hdhive
  <2>14. CASE Submit(c)
    <3>1. Kind[c] = "complete" /\ ik[c] # 0
      BY <1>1, <2>14 DEF Submit, KindAt, Keyed
    <3>2. PICK l \in {"exchange", "invalid"} : To(c, l)
      BY <2>14 DEF Submit
    <3>3. QED  BY <1>1, <2>14, <3>1, <3>2, Moves DEF Submit, Allowed, hdhive
  <2>15. CASE Exchange(c)
    BY <1>1, <2>15, IssueStep DEF Exchange
  <2>16. CASE Revoke(c)
    <3>1. PICK l \in {"revoke", "clear"} : To(c, l) /\ Kind[c] = "revoke" /\ place[c] = "idle"
      BY <2>16 DEF Revoke, Begins
    <3>2. /\ tok'[c] = bundle.pair /\ \A d \in Call : d # c => tok'[d] = tok[d]
      BY <2>1, <2>16 DEF Revoke
    <3>3. QED  BY <1>1, <2>16, <3>1, <3>2, Moves DEF Revoke, Allowed, hdhive
  <2>17. CASE Revoked(c)
    <3>1. Kind[c] = "revoke" /\ Revoking
      BY <1>1, <2>17 DEF Revoked, KindAt, Revoking
    <3>2. QED  BY <1>1, <2>17, <3>1, Moves DEF Revoked, Allowed
  <2>18. CASE Clear(c)
    BY <1>1, <2>18, ClearStep
  <2>19. QED
    BY <2>3, <2>4, <2>5, <2>6, <2>7, <2>8, <2>9, <2>10, <2>11, <2>12, <2>13, <2>14, <2>15,
       <2>16, <2>17, <2>18, <2>7a DEF CallStep
<1>3. QED  BY <1>1, <1>2

LEMMA InitAuthInv == AuthInit => AuthInv
<1>1. SUFFICES ASSUME AuthInit  PROVE AuthInv
  OBVIOUS
<1>2. /\ bundle.key = 1 /\ bundle.pair = 1 /\ bundle.fresh \in BOOLEAN
      /\ bundle \in [key: 0..keys, pair: 0..pairs, fresh: BOOLEAN]
      /\ pairs = 1 /\ keys = 1 /\ \A c \in Call : place[c] = "idle"
  BY <1>1 DEF AuthInit
<1>3. AuthTypeOK
  <2>1. /\ 0 \in 0..keys /\ 0 \in 0..pairs /\ 0 \in 0..MaxExpiries /\ 0 \in 0..MaxLosses
        /\ {1} \subseteq 1..pairs
    BY <1>2, OAuthAssumption
  <2>2. /\ states \in [State -> 0..keys] /\ tok \in [Call -> 0..pairs] /\ ik \in [Call -> 0..keys]
        /\ back \in [Call -> {"none", "reload", "resolve"}]
    BY <1>1, <2>1 DEF AuthInit
  <2>3. QED  BY <1>1, <1>2, <2>1, <2>2 DEF AuthInit, AuthTypeOK
<1>4. KindAt /\ Keyed /\ Own
  BY <1>2 DEF KindAt, Keyed, Own
<1>5. AuthorizationKept /\ NothingBack
  BY <1>1, <1>2 DEF AuthInit, AuthorizationKept, NothingBack, IsCleared
<1>6. QED  BY <1>2, <1>3, <1>4, <1>5 DEF AuthInv

LEMMA NextAuthInv == AuthInv /\ [AuthNext]_authVars => AuthInv'
<1>1. SUFFICES ASSUME AuthInv, [AuthNext]_authVars  PROVE AuthInv'
  OBVIOUS
<1>2. Counted
  BY <1>1 DEF AuthInv, Counted
<1>3. CASE \E c \in Call : CallStep(c)
  BY <1>1, <1>3, CallKeeps
<1>4. CASE Forget
  <2>1. states' \in [State -> 0..keys]
    BY <1>2, <1>4 DEF Forget, Counted, AuthTypeOK
  <2>2. losses' \in 0..MaxLosses
    BY <1>2, <1>4, OAuthAssumption DEF Forget, Counted, AuthTypeOK
  <2>3. Counted'
    BY <1>2, <1>4, <2>1, <2>2 DEF Forget, Counted, AuthTypeOK, hdhive, local
  <2>4. QED  BY <1>1, <1>4, <2>3, Stays DEF Forget, hdhive, local
<1>5. CASE Expire
  <2>1. /\ bundle' \in [key: 0..keys, pair: 0..pairs, fresh: BOOLEAN] /\ good' \subseteq 1..pairs
        /\ bundle'.key = bundle.key /\ bundle'.pair = bundle.pair
    BY <1>2, <1>5 DEF Expire, Counted, AuthTypeOK
  <2>2. expiries' \in 0..MaxExpiries
    BY <1>2, <1>5, OAuthAssumption DEF Expire, Counted, AuthTypeOK
  <2>3. Counted'
    BY <1>2, <1>5, <2>1, <2>2 DEF Expire, Counted, AuthTypeOK, local
  <2>4. QED  BY <1>1, <1>5, <2>1, <2>3, Stays DEF Expire, local
<1>6. CASE UNCHANGED authVars
  <2>1. Counted'
    BY <1>2, <1>6 DEF authVars, hdhive, local, Counted, AuthTypeOK
  <2>2. QED  BY <1>1, <1>6, <2>1, Stays DEF authVars, hdhive, local
<1>7. QED  BY <1>1, <1>3, <1>4, <1>5, <1>6 DEF AuthNext

(* The strengthened invariant holds in every reachable state.              *)
THEOREM OAuthInvariance == AuthSpec => []AuthInv
<1>1. QED  BY InitAuthInv, NextAuthInv, PTL DEF AuthSpec

(* The types.                                                              *)
THEOREM OAuthTypes == AuthSpec => []AuthTypeOK
<1>1. AuthInv => AuthTypeOK
  BY DEF AuthInv
<1>2. QED  BY <1>1, OAuthInvariance, PTL

(* Refreshes side by side do not lose the authorization.                   *)
THEOREM RefreshesKeepAuthorization == AuthSpec => []AuthorizationKept
<1>1. AuthInv => AuthorizationKept
  BY DEF AuthInv
<1>2. QED  BY <1>1, OAuthInvariance, PTL

(* After a revocation nothing but a request that was under way brings the  *)
(* tokens back.                                                            *)
THEOREM RevokedStaysRevoked == AuthSpec => []BackOnlyFromUnderway
<1>1. AuthInv => BackOnlyFromUnderway
  BY DEF AuthInv, NothingBack, BackOnlyFromUnderway
<1>2. QED  BY <1>1, OAuthInvariance, PTL
=============================================================================
