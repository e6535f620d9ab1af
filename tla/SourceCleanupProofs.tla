------------------------ MODULE SourceCleanupProofs ------------------------
(***************************************************************************)
(* Proofs about SourceCleanup, for any tree of directories, any files and  *)
(* jobs, any number of failures and of keys remembered.                    *)
(*                                                                         *)
(* Safe says that what a call is about to delete was read, and was empty,  *)
(* in the second pass.  Owing says that a directory left empty is owed by  *)
(* a job that is still to come, whose source is still there and not part   *)
(* of any remembered key.                                                  *)
(***************************************************************************)
EXTENDS SourceCleanup, TLAPS, WellFoundedInduction, SequenceTheorems,
        FiniteSetTheorems

First == phase \in {"climb", "item", "scan"}
Running == First \/ Rereading
Moved == {"moved", "waiting", "done"}

Done == {f \in File : task[f] = "done"}

AllKeys == {Batch[f] : f \in File} \X SUBSET File

CloudTyped ==
    /\ there \subseteq Dir
    /\ loc \in [File -> {"home", "away", "gone"}]
    /\ cached \subseteq Entry
    /\ late \subseteq File /\ unsure \subseteq Entry

HostTyped ==
    /\ task \in [File -> {"none", "queued", "moved", "waiting", "done"}]
    /\ completed \in Seq(AllKeys) /\ Len(completed) <= KeysKept
    /\ unclean \subseteq {Job[f] : f \in File}
    /\ failed \in Nat
    /\ failed <= MaxFaults + Cardinality(Done)

CallTyped ==
    /\ phase \in {"idle", "climb", "item", "scan", "recheck", "rescan", "delete", "forget"}
    /\ call \in File \cup {None} /\ (phase = "idle" <=> call = None)
    /\ IF call = None THEN key = None ELSE key \in AllKeys
    /\ cur \in Dir \cup {None}
    /\ phase \in {"item", "scan", "rescan"} => cur \in Dir /\ ~Forbidden(cur)
    /\ todo \subseteq Dir
    /\ folders \in [Dir -> {"unknown", "found", "missing"}]
    /\ lists \in [Dir -> (SUBSET Entry) \cup {None}]
    /\ visited \subseteq Dir /\ cands \subseteq Dir /\ confirmed \subseteq Dir
    /\ observed \subseteq Entry

Typed == CloudTyped /\ HostTyped /\ CallTyped

(* Directories form a tree that is only ever cut, never the roots.         *)
TreeSound ==
    /\ Root \subseteq there
    /\ \A d \in there : Above(d) \subseteq there
    /\ \A f \in File : /\ loc[f] = "home" => Home[f] \in there
                       /\ loc[f] = "gone" => Home[f] \notin there

(* Who has moved its file stays moved.                                     *)
TasksSound ==
    /\ \A f \in File : /\ task[f] # "none" => Job[f] # None
                       /\ task[f] \in Moved => loc[f] = "away"
                       /\ f \notin Later /\ loc[f] = "away" => task[f] \in Moved
    /\ \A n \in 1..Len(completed) : \A f \in completed[n][2] : task[f] \in Moved
    /\ call # None =>
         /\ task[call] = "waiting"
         /\ \A f \in key[2] : task[f] \in Moved /\ Job[f] = Job[call]

(* What is listed is what is there, but for files uploaded afterwards.     *)
IsListed(d) == lists[d] # None
ListsSound ==
    Running => \A d \in Dir : IsListed(d) =>
        /\ d \in there
        /\ \A e \in lists[d] \cap Dir : d \in Above(e) /\ Len(e) = Len(d) + 1
        /\ \A f \in lists[d] \cap File : Home[f] = d
        /\ \A e \in there : d \in Above(e) /\ Len(e) = Len(d) + 1 => e \in lists[d]
        /\ \A f \in File : Home[f] = d /\ loc[f] = "home" =>
             f \in lists[d] \/ (f \notin observed /\ (Rereading => f \in late))
        /\ d \in observed /\ lists[d] \subseteq observed

(* Nothing below c but what may be deleted with it.                        *)
Harmless(c) ==
    \A e \in there \cap Below(c) :
        /\ IsListed(e) /\ lists[e] \cap Media = {}
        /\ ~Bounded(c) => e = c /\ lists[e] = {}

(* A file that forbids the deletion of c.                                  *)
Counts(f, c) == f \in Media \/ ~Bounded(c)

CandsSound ==
    /\ First => confirmed = {} /\ \A c \in cands : Harmless(c)
    /\ Rereading => \A c \in confirmed : Harmless(c)
    /\ Running => /\ \A c \in cands \cup confirmed : c \in visited /\ ~Forbidden(c)
                  /\ phase \in {"item", "scan", "rescan"} => cur \in visited
    /\ phase = "delete" => cands = {}

(* A file that was seen is in a listing of the first pass; in the second,  *)
(* if it lies below a candidate, in the listing made now.  Nobody takes    *)
(* away what belongs to no task.                                           *)
SeenSound ==
    /\ Running => \A f \in observed \cap Later : loc[f] = "home"
    /\ First => \A f \in observed \cap File : IsListed(Home[f]) /\ f \in lists[Home[f]]
    /\ Rereading => \A f \in observed \cap File :
         \A c \in cands \cup confirmed \cup (IF phase = "rescan" THEN {cur} ELSE {}) :
            Home[f] \in Below(c) /\ Counts(f, c)
            => IsListed(Home[f]) /\ f \in lists[Home[f]]

(* The caches.                                                             *)
CacheSound ==
    cached \cap ((Dir \ there) \cup Deleted)
    \subseteq late \cup unsure \cup (IF phase = "forget" THEN Uncached ELSE {})

Safe == Typed /\ TreeSound /\ TasksSound /\ ListsSound /\ CandsSound /\ SeenSound
        /\ CacheSound /\ MediaKept /\ OutsideKept
-----------------------------------------------------------------------------
(* Job j is still to come, whatever becomes of the call under way.         *)
Busy(f) == task[f] \in {"queued", "moved", "waiting"} /\ f # call
ToCome(j) == \/ \E f \in File : Job[f] = j /\ Busy(f)
             \/ j \in unclean /\ (call # None => j # Job[call])

Unremembered(f) == \A n \in 1..Len(completed) : f \notin completed[n][2]
Left(d) == d \in there /\ Emptied(d)

(* Directory d is owed by the task for f.                                  *)
Owes(f, d) ==
    /\ d \in Above(Home[f]) /\ Removable(d)
    /\ task[f] # "none" /\ Home[f] \in there

Called(j) == call # None /\ j = Job[call]
Owed(d) == \E g \in File : Owes(g, d) /\ Unremembered(g) /\ (ToCome(Job[g]) \/ Called(Job[g]))

Owing ==
    \A f \in File : \A d \in Above(Home[f]) :
        task[f] \in Moved /\ Removable(d) /\ Left(d) => Owed(d)

(* The call under way knows every task of its job, or there is another.    *)
Covered ==
    /\ call # None =>
         \A f \in File : Job[f] = Job[call] /\ task[f] # "none"
                         => f \in key[2] \/ ToCome(Job[call])
    /\ phase # "idle" => \A f \in observed \cap File :
         /\ f \notin key[2] /\ Unremembered(f)
         /\ loc[f] = "away" => task[f] \in Moved /\ ToCome(Job[f])

(* A file seen by the call keeps d, or its task will see to it.            *)
Held(d) ==
    \E f \in observed \cap File :
        /\ d \in Above(Home[f]) /\ Home[f] \in there
        /\ IF Bounded(d) THEN f \in Media ELSE Home[f] = d

(* The walk: from each source upwards until something holds.               *)
SourcesRead ==
    Running => \A f \in key[2] :
        Len(Home[f]) > 1 => Home[f] \in visited \cup (IF First THEN todo ELSE {})
Judged ==
    First =>
        /\ \A d \in visited \cap there : Removable(d) =>
             Held(d) \/ d \in cands \/ (phase \in {"item", "scan"} /\ d = cur)
        /\ \A c \in cands : Len(Front(c)) > 1 => Front(c) \in visited
        /\ \A d \in Dir : folders[d] = "missing" => d \notin there
Rejudged ==
    Rereading => \A e \in visited \cap there : \A d \in Above(e) : Removable(d) =>
        Held(d) \/ d \in cands \/ Above(d) \cap confirmed # {} \/ (phase = "rescan" /\ d = cur)
Finished ==
    phase = "forget" => \A f \in key[2] :
        Home[f] \in there => \A d \in Above(Home[f]) : Removable(d) => Held(d)

WalkSound == SourcesRead /\ Judged /\ Rejudged /\ Finished

Answered == Owing /\ Covered /\ WalkSound

IInv == Safe /\ Answered
-----------------------------------------------------------------------------
(* Sequences.                                                              *)

(* A set of numbers that is not empty has a least element.                 *)
LEMMA Least ==
    ASSUME NEW S \in SUBSET Nat, S # {}
    PROVE  \E n \in S : \A m \in S : n <= m
  <1>1. \E n \in S : \A m \in S : ~ (<<m, n>> \in OpToRel(<, Nat))
    BY NatLessThanWellFounded, WFMin, Zenon
  <1>2. OpToRel(<, Nat) = {ss \in Nat \X Nat : ss[1] < ss[2]}
    BY Zenon DEF OpToRel
  <1>3. ASSUME NEW m \in Nat, NEW n \in Nat
        PROVE  <<m, n>> \in OpToRel(<, Nat) <=> m < n
    <2>1. <<m, n>> \in {ss \in Nat \X Nat : ss[1] < ss[2]} <=> m < n
      OBVIOUS
    <2> QED
      BY <2>1, <1>2, Zenon
  <1>4. PICK n \in S : \A m \in S : ~ (<<m, n>> \in OpToRel(<, Nat))
    BY <1>1, Zenon
  <1>5. \A m \in S : ~ (m < n)
    BY <1>3, <1>4, Zenon
  <1> QED
    BY <1>5

(* What it is to be a prefix, element by element.                          *)
LEMMA PrefixFacts ==
    ASSUME NEW s \in Seq(STRING), NEW t \in Seq(STRING)
    PROVE  IsPrefix(s, t) <=> Len(s) <= Len(t) /\ \A n \in 1..Len(s) : s[n] = t[n]
  BY DEF IsPrefix

(* Prefixes of one sequence are ordered by their lengths.                  *)
LEMMA PrefixTrans ==
    ASSUME NEW s \in Seq(STRING), NEW t \in Seq(STRING), NEW u \in Seq(STRING)
    PROVE  /\ IsPrefix(s, s)
           /\ IsPrefix(s, t) /\ IsPrefix(t, u) => IsPrefix(s, u)
           /\ IsPrefix(s, u) /\ IsPrefix(t, u) /\ Len(s) <= Len(t) => IsPrefix(s, t)
           /\ IsPrefix(s, t) /\ Len(s) = Len(t) => s = t
  BY PrefixFacts

(* A sequence without its last element.                                    *)
LEMMA FrontOf ==
    ASSUME NEW A, NEW s \in Seq(A), Len(s) > 0
    PROVE  /\ Front(s) \in Seq(A) /\ Len(Front(s)) = Len(s) - 1
           /\ \A n \in 1..(Len(s) - 1) : Front(s)[n] = s[n]
  <1> DEFINE q == Len(s) - 1
  <1>1. q \in Nat /\ \A n \in 1..q : s[n] \in A
    OBVIOUS
  <1>2. Front(s) = SubSeq(s, 1, q)
    BY Zenon DEF Front
  <1> HIDE DEF q
  <1>3. /\ SubSeq(s, 1, q) \in Seq(A)
        /\ Len(SubSeq(s, 1, q)) = IF 1 <= q THEN q - 1 + 1 ELSE 0
        /\ \A n \in 1..(q - 1 + 1) : SubSeq(s, 1, q)[n] = s[1 + n - 1]
    BY <1>1, SubSeqProperties, SMT
  <1>4. /\ SubSeq(s, 1, q) \in Seq(A) /\ Len(SubSeq(s, 1, q)) = q
        /\ \A n \in 1..q : SubSeq(s, 1, q)[n] = s[n]
    BY <1>1, <1>3
  <1> QED
    BY <1>2, <1>4, Zenon DEF q

(* The parent of a path is its longest proper prefix.                      *)
LEMMA FrontFacts ==
    ASSUME NEW s \in Seq(STRING), Len(s) > 0
    PROVE  Front(s) \in Seq(STRING) /\ Len(Front(s)) = Len(s) - 1 /\ IsPrefix(Front(s), s)
  BY FrontOf, PrefixFacts
-----------------------------------------------------------------------------
(* Directories.                                                            *)

(* Above and Below are one order, that of the tree.                        *)
LEMMA Tree ==
    /\ \A d \in Dir : /\ d \in Seq(STRING) /\ Len(d) \in Nat /\ d # None
                      /\ Above(d) \subseteq Dir /\ Below(d) \subseteq Dir
                      /\ d \in Above(d) /\ d \in Below(d)
    /\ \A d, e \in Dir : d \in Below(e) <=> e \in Above(d)
    /\ \A d, e \in Dir : e \in Above(d) =>
          Len(e) <= Len(d) /\ Above(e) \subseteq Above(d) /\ (Len(e) = Len(d) => e = d)
    /\ \A d, e, x \in Dir :
          e \in Above(d) /\ x \in Above(d) /\ Len(e) <= Len(x) => e \in Above(x)
  <1>1. \A d \in Dir : d \in Seq(STRING) /\ Len(d) \in Nat /\ d # None
    BY CleanupAssumption
  <1>2. \A d \in Dir : IsPrefix(d, d)
    BY <1>1, PrefixTrans
  <1>3. \A d, e \in Dir : IsPrefix(e, d) => Len(e) <= Len(d) /\ (Len(e) = Len(d) => e = d)
    BY <1>1, PrefixTrans, PrefixFacts
  <1>4. \A d, e, x \in Dir : IsPrefix(x, e) /\ IsPrefix(e, d) => IsPrefix(x, d)
    BY <1>1, PrefixTrans
  <1>5. \A d, e, x \in Dir : IsPrefix(e, d) /\ IsPrefix(x, d) /\ Len(e) <= Len(x)
                             => IsPrefix(e, x)
    BY <1>1, PrefixTrans
  <1> HIDE DEF IsPrefix
  <1> QED
    BY <1>1, <1>2, <1>3, <1>4, <1>5 DEF Above, Below

(* The parent of a directory is above it.                                  *)
LEMMA Parent ==
    ASSUME NEW d \in Dir, Len(d) > 1
    PROVE  Front(d) \in Dir /\ Front(d) \in Above(d) /\ Len(Front(d)) = Len(d) - 1
  BY FrontFacts, CleanupAssumption DEF Above

(* Whoever is protected protects all above it.                             *)
LEMMA ForbiddenUp ==
    ASSUME NEW d \in Dir, NEW e \in Above(d), Forbidden(d)
    PROVE  Forbidden(e)
  <1>1. e \in Dir /\ Len(e) <= Len(d) /\ Len(e) \in Nat /\ Len(d) \in Nat
    BY Tree
  <1>2. Below(d) \subseteq Below(e)
    BY Tree
  <1> QED
    BY <1>1, <1>2 DEF Forbidden

(* Above a directory, what may be deleted has the same boundary.           *)
LEMMA SameBound ==
    ASSUME NEW d \in Dir, NEW e \in Above(d)
    PROVE  /\ Bounded(e) => Bounded(d)
           /\ ~Forbidden(e) => (Bounded(d) <=> Bounded(e))
  <1>1. e \in Dir /\ Above(e) \subseteq Above(d)
    BY Tree
  <1>2. ASSUME NEW r \in Above(d) \cap Root, ~Forbidden(e)
        PROVE  r \in Above(e)
    <2>1. r \in Dir /\ Len(r) \in Nat /\ Len(e) \in Nat
      BY <1>1, Tree, CleanupAssumption
    <2>2. r \in Above(e) \/ e \in Above(r)
      BY <1>1, <2>1, Tree
    <2>3. e \notin Above(r)
      BY <1>1, <1>2, <2>1, Tree DEF Forbidden
    <2> QED
      BY <2>2, <2>3
  <1> QED
    BY <1>1, <1>2 DEF Bounded

(* Between a directory and one strictly above it there is a child of the   *)
(* latter.                                                                 *)
LEMMA Child ==
    ASSUME NEW e \in Dir, NEW c \in Above(e), c # e, Len(c) >= 1
    PROVE  \E x \in Above(e) : x \in Below(c) /\ Len(x) = Len(c) + 1 /\ Front(x) = c
  <1> DEFINE Between == {y \in Above(e) \cap Below(c) : y # c}
             Lengths == {Len(y) : y \in Between}
  <1>1. c \in Dir /\ e \in Between
    BY Tree
  <1>2. \A y \in Between : y \in Dir /\ c \in Above(y) /\ Len(y) \in Nat /\ Len(y) > Len(c)
    BY <1>1, Tree
  <1>3. PICK y \in Between : \A z \in Between : Len(y) <= Len(z)
    <2>1. Lengths \in SUBSET Nat /\ Lengths # {}
      BY <1>1, <1>2
    <2>2. PICK n \in Lengths : \A m \in Lengths : n <= m
      BY <2>1, Least, Zenon
    <2> QED
      BY <2>2
  <1>4. y \in Dir /\ c \in Above(y) /\ Len(y) > 1
    BY <1>1, <1>2, Tree
  <1>5. Front(y) \in Dir /\ Front(y) \in Above(y) /\ Len(Front(y)) = Len(y) - 1
    BY <1>4, Parent
  <1>6. Front(y) \in Above(e) /\ Front(y) \in Below(c)
    BY <1>1, <1>2, <1>4, <1>5, Tree
  <1>7. Front(y) = c
    BY <1>2, <1>3, <1>5, <1>6
  <1> QED
    BY <1>2, <1>5, <1>7
-----------------------------------------------------------------------------
(* What eligible() finds out.                                              *)

(* When no directory that the listings lead to is unread, everything that  *)
(* exists below c was reached, so read.                                    *)
LEMMA AllRead ==
    ASSUME TreeSound, ListsSound, Running, NEW c \in Dir, Len(c) > 1, Unread(c) = {},
           NEW e \in there \cap Below(c), there \subseteq Dir
    PROVE  e \in Reached(c) /\ IsListed(e)
  <1> DEFINE OnWay == (Above(e) \cap Below(c)) \ {c}
             Missed == {x \in OnWay : ~(lists[Front(x)] # None /\ x \in lists[Front(x)])}
             Lengths == {Len(y) : y \in Missed}
  <1>1. e \in Dir /\ c \in Above(e)
    BY Tree
  <1>2. \A x \in OnWay : x \in Dir /\ x \in there /\ c \in Above(x) /\ x # c
                         /\ Len(x) \in Nat /\ Len(x) > Len(c) /\ Len(c) \in Nat
    BY <1>1, Tree DEF TreeSound
  <1>3. SUFFICES ASSUME Missed # {}
                 PROVE  FALSE
    BY <1>1 DEF Reached, Unread, IsListed
  <1>4. PICK x \in Missed : \A y \in Missed : Len(x) <= Len(y)
    <2>1. Lengths \in SUBSET Nat /\ Lengths # {}
      BY <1>2, <1>3
    <2>2. PICK n \in Lengths : \A m \in Lengths : n <= m
      BY <2>1, Least, Zenon
    <2> QED
      BY <2>2
  <1>5. x \in Dir /\ Len(x) > 1 /\ x \in there /\ c \in Above(x) /\ Len(c) < Len(x)
    BY <1>2
  <1>6. Front(x) \in Dir /\ Front(x) \in Above(x) /\ Len(Front(x)) = Len(x) - 1
    BY <1>5, Parent
  <1>7. c \in Above(Front(x)) /\ Front(x) \in Below(c)
    BY <1>1, <1>2, <1>5, <1>6, Tree
  <1>8. \A y \in (Above(Front(x)) \cap Below(c)) \ {c} : y \in OnWay /\ Len(y) < Len(x)
    BY <1>1, <1>2, <1>5, <1>6, Tree
  <1>9. Front(x) \in Reached(c)
    BY <1>2, <1>4, <1>7, <1>8 DEF Reached
  <1>10. lists[Front(x)] # None
    BY <1>9 DEF Unread
  <1>11. x \in lists[Front(x)]
    BY <1>2, <1>5, <1>6, <1>10 DEF ListsSound, IsListed
  <1> QED
    BY <1>4, <1>10, <1>11

(* A directory that passes holds nothing that forbids its deletion.        *)
LEMMA PassedHarmless ==
    ASSUME TreeSound, ListsSound, Running, there \subseteq Dir,
           NEW c \in Dir, Len(c) > 1, Passed(c)
    PROVE  Harmless(c)
  <1>1. Unread(c) = {} /\ ~Refused(c)
    BY DEF Passed
  <1>2. ASSUME NEW e \in there \cap Below(c)
        PROVE  IsListed(e) /\ lists[e] \cap Media = {}
    <2>1. e \in Reached(c) /\ IsListed(e)
      BY <1>1, AllRead
    <2>2. lists[e] \subseteq Seen(c)
      BY <2>1 DEF Seen, IsListed
    <2> QED
      BY <1>1, <2>1, <2>2 DEF Refused, HasMedia
  <1>3. ASSUME ~Bounded(c)
        PROVE  IsListed(c) /\ lists[c] = {}
    <2>1. c \in Reached(c)
      BY Tree DEF Reached
    <2> QED
      BY <1>1, <1>3, <2>1 DEF Refused, Occupied, Unread, IsListed
  <1>4. ASSUME NEW e \in there \cap Below(c), ~Bounded(c)
        PROVE  e = c
    <2>1. SUFFICES ASSUME e # c PROVE FALSE
      OBVIOUS
    <2>2. e \in Dir /\ c \in Above(e) /\ Len(c) >= 1 /\ Above(e) \subseteq there
      BY Tree DEF TreeSound
    <2>3. PICK x \in Above(e) : x \in Below(c) /\ Len(x) = Len(c) + 1
      BY <2>1, <2>2, Child
    <2>4. x \in there /\ c \in Above(x)
      BY <2>2, <2>3, Tree
    <2> QED
      BY <1>3, <1>4, <2>3, <2>4 DEF ListsSound
  <1> QED
    BY <1>2, <1>3, <1>4 DEF Harmless
-----------------------------------------------------------------------------
(* Safe holds initially, and whatever the workers and users do.            *)

LEMMA InitSafe == Init => Safe
  <1> SUFFICES ASSUME Init PROVE Safe
    OBVIOUS
  <1>1. Done = {} /\ Cardinality({}) = 0
    BY FS_EmptySet DEF Init, Done
  <1>2. CloudTyped
    BY CleanupAssumption DEF Init, CloudTyped, Entry
  <1>3. HostTyped
    BY <1>1, CleanupAssumption, EmptySeq DEF Init, HostTyped
  <1>4. CallTyped
    <2>1. lists \in [Dir -> (SUBSET Entry) \cup {None}]
      BY DEF Init, Fresh
    <2>2. folders \in [Dir -> {"unknown", "found", "missing"}]
      BY DEF Init
    <2> QED
      BY <2>1, <2>2 DEF Init, CallTyped
  <1>5. TreeSound
    BY CleanupAssumption, Tree DEF Init, TreeSound
  <1>6. TasksSound
    BY CleanupAssumption DEF Init, TasksSound, Moved
  <1>7. ListsSound /\ CandsSound /\ SeenSound
    BY DEF Init, ListsSound, CandsSound, SeenSound, Running, First, Rereading
  <1>8. CacheSound /\ MediaKept /\ OutsideKept
    BY CleanupAssumption DEF Init, CacheSound, MediaKept, OutsideKept, Deleted
  <1> QED
    BY <1>2, <1>3, <1>4, <1>5, <1>6, <1>7, <1>8 DEF Safe, Typed

(* Tasks that end make room for failures.                                  *)
LEMMA DoneGrows ==
    ASSUME Done \subseteq Done'
    PROVE  Cardinality(Done) \in Nat /\ Cardinality(Done') \in Nat
           /\ Cardinality(Done) <= Cardinality(Done')
  <1>1. IsFiniteSet(Done')
    BY FS_Subset, CleanupAssumption DEF Done
  <1> QED
    BY <1>1, FS_Subset, FS_CardinalityType

LEMMA SafeSubmit ==
    ASSUME Safe, NEW f \in File, Submit(f)
    PROVE  Safe'
  <1> USE DEF Submit, cloudVars, runVars
  <1>1. CloudTyped' /\ CallTyped'
    BY DEF Safe, Typed, CloudTyped, CallTyped
  <1>2. HostTyped'
    <2>1. Done \subseteq Done'
      BY DEF Done, Safe, Typed, HostTyped
    <2> QED
      BY <2>1, DoneGrows, CleanupAssumption DEF Safe, Typed, HostTyped
  <1>3. TreeSound' /\ MediaKept' /\ OutsideKept' /\ CacheSound'
    BY DEF Safe, TreeSound, MediaKept, OutsideKept, CacheSound, Deleted, Uncached,
           InConfirmed
  <1>4. TasksSound'
    BY DEF Safe, Typed, HostTyped, TasksSound, Moved
  <1>5. ListsSound' /\ CandsSound' /\ SeenSound'
    BY DEF Safe, ListsSound, CandsSound, SeenSound, Running, First, Rereading,
           IsListed, Harmless
  <1> QED
    BY <1>1, <1>2, <1>3, <1>4, <1>5 DEF Safe, Typed

LEMMA SafeMove ==
    ASSUME Safe, NEW f \in File, Move(f)
    PROVE  Safe'
  <1> USE DEF Move, cloudVars, runVars
  <1>1. CloudTyped' /\ CallTyped'
    BY DEF Safe, Typed, CloudTyped, CallTyped
  <1>2. HostTyped'
    <2>1. Done \subseteq Done'
      BY DEF Done, Safe, Typed, HostTyped
    <2> QED
      BY <2>1, DoneGrows, CleanupAssumption DEF Safe, Typed, HostTyped
  <1>3. TreeSound' /\ MediaKept' /\ OutsideKept' /\ CacheSound'
    BY CleanupAssumption DEF Safe, Typed, CloudTyped, TreeSound, MediaKept, OutsideKept,
       CacheSound, Deleted, Uncached,
           InConfirmed
  <1>4. TasksSound'
    BY DEF Safe, Typed, HostTyped, CloudTyped, TasksSound, Moved
  <1>5. ListsSound' /\ CandsSound'
    BY DEF Safe, Typed, CloudTyped, ListsSound, CandsSound, Running, First, Rereading,
           IsListed, Harmless
  <1>6. SeenSound'
    BY CleanupAssumption DEF Safe, Typed, CloudTyped, TasksSound, SeenSound, Running,
           First, Rereading, IsListed
  <1> QED
    BY <1>1, <1>2, <1>3, <1>4, <1>5, <1>6 DEF Safe, Typed

LEMMA SafeUpload ==
    ASSUME Safe, NEW f \in File, Upload(f)
    PROVE  Safe'
  <1> USE DEF Upload, cloudVars, runVars
  <1>1. CloudTyped' /\ CallTyped' /\ HostTyped'
    BY DEF Safe, Typed, CloudTyped, CallTyped, HostTyped, Entry, Done
  <1>2. TreeSound'
    BY DEF Safe, Typed, CloudTyped, TreeSound
  <1>3. MediaKept' /\ OutsideKept'
    BY DEF Safe, Typed, CloudTyped, MediaKept, OutsideKept, Deleted
  <1>4. CacheSound'
    BY CleanupAssumption DEF Safe, Typed, CloudTyped, CacheSound, Deleted, Uncached,
           InConfirmed
  <1>5. TasksSound'
    BY CleanupAssumption DEF Safe, Typed, HostTyped, CloudTyped, TasksSound, Moved
  <1>6. ListsSound'
    BY DEF Safe, Typed, CloudTyped, ListsSound, SeenSound, Running, First, Rereading,
           IsListed
  <1>7. CandsSound' /\ SeenSound'
    BY DEF Safe, Typed, CloudTyped, CandsSound, SeenSound, Running, First, Rereading,
           IsListed, Harmless
  <1> QED
    BY <1>1, <1>2, <1>3, <1>4, <1>5, <1>6, <1>7 DEF Safe, Typed

LEMMA SafeEnter ==
    ASSUME Safe, NEW f \in File, Enter(f)
    PROVE  Safe'
  <1> USE DEF Enter, cloudVars, runVars
  <1>1. CloudTyped' /\ CallTyped'
    BY DEF Safe, Typed, CloudTyped, CallTyped
  <1>2. HostTyped'
    <2>1. Done \subseteq Done'
      BY DEF Done, Safe, Typed, HostTyped
    <2> QED
      BY <2>1, DoneGrows, CleanupAssumption DEF Safe, Typed, HostTyped
  <1>3. TreeSound' /\ MediaKept' /\ OutsideKept' /\ CacheSound'
    BY DEF Safe, TreeSound, MediaKept, OutsideKept, CacheSound, Deleted, Uncached,
           InConfirmed
  <1>4. TasksSound'
    BY DEF Safe, Typed, HostTyped, TasksSound, Moved
  <1>5. ListsSound' /\ CandsSound' /\ SeenSound'
    BY DEF Safe, ListsSound, CandsSound, SeenSound, Running, First, Rereading,
           IsListed, Harmless
  <1> QED
    BY <1>1, <1>2, <1>3, <1>4, <1>5 DEF Safe, Typed
-----------------------------------------------------------------------------
(* Safe holds while a call reads.                                          *)

Elsewhere == <<cloudVars, task, completed, call, key, unclean, failed>>

LEMMA SafeElsewhere ==
    ASSUME Safe, UNCHANGED Elsewhere, phase # "forget"
    PROVE  /\ CloudTyped' /\ HostTyped' /\ TreeSound' /\ TasksSound'
           /\ CacheSound' /\ MediaKept' /\ OutsideKept'
  <1> USE DEF Elsewhere, cloudVars
  <1>1. CloudTyped' /\ HostTyped'
    BY DEF Safe, Typed, CloudTyped, HostTyped, Done
  <1>2. TreeSound' /\ TasksSound'
    BY DEF Safe, TreeSound, TasksSound
  <1>3. CacheSound' /\ MediaKept' /\ OutsideKept'
    BY DEF Safe, CacheSound, MediaKept, OutsideKept, Deleted
  <1> QED
    BY <1>1, <1>2, <1>3

LEMMA SafeNextSource ==
    ASSUME Safe, NextSource
    PROVE  Safe'
  <1> USE DEF NextSource
  <1>1. UNCHANGED Elsewhere /\ phase = "climb"
    BY DEF Elsewhere
  <1>2. CallTyped'
    BY DEF Safe, Typed, CallTyped, Judge
  <1>3. ListsSound'
    BY DEF Safe, ListsSound, cloudVars, Judge, Running, First, Rereading, IsListed
  <1>4. CandsSound' /\ SeenSound'
    BY DEF Safe, CandsSound, SeenSound, cloudVars, Judge, Running, First, Rereading,
           IsListed, Harmless
  <1> QED
    BY <1>1, <1>2, <1>3, <1>4, SafeElsewhere DEF Safe, Typed

LEMMA SafeGetItem ==
    ASSUME Safe, GetItem
    PROVE  Safe'
  <1> USE DEF GetItem
  <1>1. /\ phase = "item" /\ cur \in Dir /\ UNCHANGED <<there, loc, late, unsure>>
        /\ cached' \subseteq cached \cup there
    BY DEF Safe, Typed, CallTyped
  <1>2. CallTyped'
    BY DEF Safe, Typed, CallTyped
  <1>3. ListsSound'
    BY DEF Safe, ListsSound, Running, First, Rereading, IsListed
  <1>4. CandsSound' /\ SeenSound'
    BY DEF Safe, CandsSound, SeenSound, Running, First, Rereading, IsListed, Harmless
  <1>5. CloudTyped' /\ HostTyped'
    BY <1>1 DEF Safe, Typed, CloudTyped, HostTyped, Done, Entry
  <1>6. TreeSound' /\ TasksSound' /\ MediaKept' /\ OutsideKept'
    BY DEF Safe, TreeSound, TasksSound, MediaKept, OutsideKept, Deleted
  <1>7. CacheSound'
    <2>1. there \cap ((Dir \ there) \cup Deleted) = {}
      BY CleanupAssumption DEF Safe, Typed, CloudTyped, Deleted
    <2>2. cached \cap ((Dir \ there) \cup Deleted) \subseteq late \cup unsure
      BY <1>1 DEF Safe, CacheSound
    <2> QED
      BY <1>1, <2>1, <2>2 DEF CacheSound, Deleted
  <1> QED
    BY <1>2, <1>3, <1>4, <1>5, <1>6, <1>7 DEF Safe, Typed

(* One listing, of either pass.                                            *)
LEMMA SafeList ==
    ASSUME Safe, ListNext, phase \in {"scan", "rescan"}
    PROVE  Safe'
  <1> USE DEF ListNext
  <1>1. UNCHANGED Elsewhere /\ phase # "forget"
    BY DEF Elsewhere
  <1>2. PICK d \in Pending(cur) \cap there :
          /\ lists' = [lists EXCEPT ![d] = Contents(d)]
          /\ observed' = observed \cup {d} \cup Contents(d)
          /\ folders' = [e \in Dir |-> IF e \in Contents(d) THEN "found" ELSE folders[e]]
    OBVIOUS
  <1>3. d \in Dir /\ lists[d] = None /\ lists \in [Dir -> (SUBSET Entry) \cup {None}]
    BY DEF Pending, Unread, Reached, Below, Safe, Typed, CloudTyped, CallTyped
  <1>4. /\ Contents(d) \in SUBSET Entry /\ Contents(d) # None
        /\ \A e \in Contents(d) \cap Dir : e \in there /\ d \in Above(e) /\ Len(e) = Len(d) + 1
        /\ \A f \in Contents(d) \cap File : Home[f] = d /\ loc[f] = "home"
        /\ \A e \in there : d \in Above(e) /\ Len(e) = Len(d) + 1 => e \in Contents(d)
        /\ \A f \in File : Home[f] = d /\ loc[f] = "home" => f \in Contents(d)
    BY <1>3, CleanupAssumption DEF Contents, Above, Entry, Safe, Typed, CloudTyped
  <1>5. lists'[d] = Contents(d) /\ \A e \in Dir : e # d => lists'[e] = lists[e]
    BY <1>2, <1>3
  <1>6. CallTyped'
    BY <1>2, <1>3, <1>4, CleanupAssumption DEF Safe, Typed, CallTyped, CloudTyped, Entry
  <1>7. ListsSound'
    <2>1. ASSUME NEW e \in Dir, IsListed(e)', e # d
          PROVE  /\ e \in there
                 /\ \A x \in lists'[e] \cap Dir : e \in Above(x) /\ Len(x) = Len(e) + 1
                 /\ \A f \in lists'[e] \cap File : Home[f] = e
                 /\ \A x \in there : e \in Above(x) /\ Len(x) = Len(e) + 1 => x \in lists'[e]
                 /\ \A f \in File : Home[f] = e /\ loc[f] = "home" =>
                      f \in lists'[e] \/ (f \notin observed' /\ (Rereading => f \in late))
                 /\ e \in observed' /\ lists'[e] \subseteq observed'
      <3>1. IsListed(e) /\ lists'[e] = lists[e] /\ Running
        BY <1>5, <2>1 DEF IsListed, Running, First, Rereading
      <3>2. \A f \in File : Home[f] = e => f \notin {d} \cup Contents(d)
        BY <1>3, <1>4, <2>1, CleanupAssumption
      <3> QED
        BY <1>2, <3>1, <3>2, <2>1 DEF Safe, ListsSound
    <2>2. d \in there /\ d \in observed' /\ Contents(d) \subseteq observed'
      BY <1>2
    <2> QED
      BY <2>1, <2>2, <1>4, <1>5 DEF ListsSound, cloudVars, Running, Rereading, First
  <1>8. \A c \in Dir : Harmless(c) => Harmless(c)'
    <2>1. ASSUME NEW c \in Dir, Harmless(c)
          PROVE  d \notin Below(c) /\ \A e \in there \cap Below(c) : lists'[e] = lists[e]
      BY <1>2, <1>3, <1>5, <2>1, Tree DEF Harmless, IsListed
    <2> QED
      BY <2>1 DEF Harmless, IsListed, cloudVars
  <1>9. CandsSound'
    BY <1>8 DEF Safe, Typed, CallTyped, CandsSound, Running, First, Rereading
  <1>10. SeenSound'
    <2>1. ASSUME NEW f \in observed' \cap File
          PROVE  \/ f \in observed /\ f \notin Contents(d)
                 \/ f \in Contents(d) /\ Home[f] = d /\ loc[f] = "home"
      BY <1>2, <1>3, <1>4, CleanupAssumption
    <2>2. ASSUME NEW f \in File, IsListed(Home[f]), f \in lists[Home[f]]
          PROVE  IsListed(Home[f])' /\ f \in lists'[Home[f]]
      BY <1>3, <1>5, <2>2, CleanupAssumption DEF IsListed
    <2>3. IsListed(d)' /\ lists'[d] = Contents(d)
      BY <1>4, <1>5 DEF IsListed
    <2> QED
      BY <2>1, <2>2, <2>3, CleanupAssumption DEF Safe, SeenSound, Counts, cloudVars,
         Running,
         First, Rereading
  <1> QED
    BY <1>1, <1>6, <1>7, <1>9, <1>10, SafeElsewhere DEF Safe, Typed

LEMMA SafeCandidate ==
    ASSUME Safe, Candidate
    PROVE  Safe'
  <1> USE DEF Candidate
  <1>1. UNCHANGED Elsewhere /\ phase = "scan"
    BY DEF Elsewhere
  <1>2. cur \in Dir /\ ~Forbidden(cur) /\ Len(cur) > 1
    BY Tree DEF Safe, Typed, CallTyped, Forbidden
  <1>3. Front(cur) \in Dir
    BY <1>2, Parent
  <1>4. CallTyped'
    BY <1>2, <1>3 DEF Safe, Typed, CallTyped, Judge
  <1>5. ListsSound'
    BY DEF Safe, ListsSound, cloudVars, Judge, Running, First, Rereading, IsListed
  <1>6. Harmless(cur)
    BY <1>2, PassedHarmless DEF Running, First, Safe, Typed, CloudTyped
  <1>7. \A c : Harmless(c) => Harmless(c)'
    BY DEF Harmless, IsListed, cloudVars
  <1>8. CandsSound'
    BY <1>2, <1>6, <1>7 DEF Safe, CandsSound, Judge, Running, First, Rereading
  <1>9. SeenSound'
    BY DEF Safe, SeenSound, cloudVars, Judge, Running, First, Rereading, IsListed
  <1> QED
    BY <1>1, <1>4, <1>5, <1>8, <1>9, SafeElsewhere DEF Safe, Typed

LEMMA SafeReject ==
    ASSUME Safe, Reject
    PROVE  Safe'
  <1> USE DEF Reject
  <1>1. UNCHANGED Elsewhere /\ phase = "scan"
    BY DEF Elsewhere
  <1>2. CallTyped'
    BY DEF Safe, Typed, CallTyped
  <1>3. ListsSound'
    BY DEF Safe, ListsSound, cloudVars, Running, First, Rereading, IsListed
  <1>4. CandsSound' /\ SeenSound'
    BY DEF Safe, CandsSound, SeenSound, cloudVars, Running, First, Rereading,
           IsListed, Harmless
  <1> QED
    BY <1>1, <1>2, <1>3, <1>4, SafeElsewhere DEF Safe, Typed

(* A file seen in the first pass is not below a candidate, or does not     *)
(* forbid its deletion.                                                    *)
LEMMA CandidatesFree ==
    ASSUME Safe, First, NEW f \in observed \cap File, NEW c \in cands,
           Home[f] \in Below(c)
    PROVE  ~Counts(f, c)
  <1>1. IsListed(Home[f]) /\ f \in lists[Home[f]]
    BY DEF Safe, SeenSound
  <1>2. Home[f] \in there
    BY <1>1, CleanupAssumption DEF Safe, ListsSound, Running
  <1>3. Harmless(c)
    BY DEF Safe, CandsSound
  <1> QED
    BY <1>1, <1>2, <1>3 DEF Harmless, Counts

LEMMA SafeReread ==
    ASSUME Safe, Reread
    PROVE  Safe'
  <1> USE DEF Reread, Cleared, Fresh
  <1>1. UNCHANGED Elsewhere /\ phase = "climb" /\ First
    BY DEF Elsewhere, First
  <1>2. CallTyped'
    BY DEF Safe, Typed, CallTyped
  <1>3. ListsSound'
    BY DEF ListsSound, IsListed
  <1>4. CandsSound'
    BY <1>1 DEF Safe, CandsSound, Running, First, Rereading
  <1>5. SeenSound'
    BY <1>1, CandidatesFree DEF Safe, SeenSound, CandsSound, cloudVars, Running, First,
       Rereading, Counts
  <1> QED
    BY <1>1, <1>2, <1>3, <1>4, <1>5, SafeElsewhere DEF Safe, Typed

LEMMA SafeRecheck ==
    ASSUME Safe, Recheck
    PROVE  Safe'
  <1> USE DEF Recheck
  <1>1. UNCHANGED Elsewhere /\ phase = "recheck"
    BY DEF Elsewhere
  <1>2. CallTyped'
    BY DEF Safe, Typed, CallTyped
  <1>3. ListsSound'
    BY DEF Safe, ListsSound, cloudVars, Running, First, Rereading, IsListed
  <1>4. CandsSound' /\ SeenSound'
    BY DEF Safe, CandsSound, SeenSound, cloudVars, Running, First, Rereading,
           IsListed, Harmless
  <1> QED
    BY <1>1, <1>2, <1>3, <1>4, SafeElsewhere DEF Safe, Typed

LEMMA SafeConfirm ==
    ASSUME Safe, Confirm
    PROVE  Safe'
  <1> USE DEF Confirm
  <1>1. UNCHANGED Elsewhere /\ phase = "rescan"
    BY DEF Elsewhere
  <1>2. cur \in Dir /\ ~Forbidden(cur) /\ Len(cur) > 1
    BY <1>1, Tree DEF Safe, Typed, CallTyped, Forbidden
  <1>3. CallTyped'
    BY <1>2 DEF Safe, Typed, CallTyped
  <1>4. ListsSound'
    BY DEF Safe, ListsSound, cloudVars, Running, First, Rereading, IsListed
  <1>5. Passed(cur) => Harmless(cur)
    BY <1>2, PassedHarmless DEF Running, Rereading, Safe, Typed, CloudTyped
  <1>6. \A c : Harmless(c) => Harmless(c)'
    BY DEF Harmless, IsListed, cloudVars
  <1>7. CandsSound'
    BY <1>2, <1>5, <1>6 DEF Safe, CandsSound, Running, First, Rereading
  <1>8. SeenSound'
    BY DEF Safe, SeenSound, cloudVars, Running, First, Rereading, IsListed
  <1> QED
    BY <1>1, <1>3, <1>4, <1>7, <1>8, SafeElsewhere DEF Safe, Typed

LEMMA SafeDecide ==
    ASSUME Safe, Decide
    PROVE  Safe'
  <1> USE DEF Decide, runVars
  <1>1. UNCHANGED Elsewhere /\ phase = "recheck"
    BY DEF Elsewhere
  <1>2. CallTyped'
    BY DEF Safe, Typed, CallTyped
  <1>3. ListsSound'
    BY DEF Safe, ListsSound, cloudVars, Running, First, Rereading, IsListed
  <1>4. CandsSound' /\ SeenSound'
    BY DEF Safe, CandsSound, SeenSound, cloudVars, Running, First, Rereading,
           IsListed, Harmless
  <1> QED
    BY <1>1, <1>2, <1>3, <1>4, SafeElsewhere DEF Safe, Typed
-----------------------------------------------------------------------------
(* Safe holds where a call begins, deletes and ends.                       *)

LEMMA SafeAcquire ==
    ASSUME Safe, NEW f \in File, Acquire(f)
    PROVE  Safe'
  <1> USE DEF Acquire, cloudVars, runVars
  <1>1. CloudTyped' /\ TreeSound' /\ MediaKept' /\ OutsideKept'
    BY DEF Safe, Typed, CloudTyped, TreeSound, MediaKept, OutsideKept, Deleted
  <1>2. CacheSound'
    BY DEF Safe, CacheSound, Deleted, Uncached, InConfirmed
  <1>3. CASE Known(f)
    <2>0. /\ task[f] = "waiting" /\ phase = "idle" /\ call = None
          /\ task' = [task EXCEPT ![f] = "done"] /\ unclean' = unclean \ {Job[f]}
          /\ UNCHANGED <<runVars, phase, call, key, cloudVars, completed, failed>>
      BY <1>3 DEF Safe, Typed, CallTyped
    <2>1. HostTyped'
      <3>1. Done \subseteq Done'
        BY <2>0 DEF Done, Safe, Typed, HostTyped
      <3>2. task' \in [File -> {"none", "queued", "moved", "waiting", "done"}]
        BY <2>0 DEF Safe, Typed, HostTyped
      <3> HIDE DEF Acquire
      <3> QED
        BY <2>0, <3>1, <3>2, DoneGrows, CleanupAssumption DEF Safe, Typed, HostTyped
    <2>2. CallTyped'
      BY <1>3 DEF Safe, Typed, CallTyped
    <2>3. TasksSound'
      <3>1. \A g \in File : task'[g] = IF g = f THEN "done" ELSE task[g]
        BY <2>0 DEF Safe, Typed, HostTyped
      <3>2. \A g \in File : /\ task'[g] \in Moved <=> task[g] \in Moved
                            /\ task'[g] # "none" => task[g] # "none"
        BY <2>0, <3>1 DEF Moved
      <3>3. \A n \in 1..Len(completed) : completed[n][2] \subseteq File
        BY ElementOfSeq DEF Safe, Typed, HostTyped, AllKeys
      <3> HIDE DEF Acquire
      <3> QED
        BY <2>0, <3>2, <3>3 DEF Safe, TasksSound
    <2>4. ListsSound' /\ CandsSound' /\ SeenSound'
      BY <1>3 DEF ListsSound, CandsSound, SeenSound, Running, First, Rereading
    <2> QED
      BY <1>1, <1>2, <2>1, <2>2, <2>3, <2>4 DEF Safe, Typed
  <1>4. CASE ~Known(f)
    <2>1. HostTyped'
      BY <1>4 DEF Safe, Typed, HostTyped, Done
    <2>2. CallTyped'
      <3>1. Key(f) \in AllKeys /\ {Home[g] : g \in Paths(f)} \subseteq Dir
        BY CleanupAssumption DEF Key, AllKeys, Paths, Same
      <3>2. lists' \in [Dir -> (SUBSET Entry) \cup {None}]
        BY <1>4 DEF Fresh
      <3>3. folders' \in [Dir -> {"unknown", "found", "missing"}]
        BY <1>4
      <3>4. call' \in File /\ call' # None /\ cur' = None /\ key' \in AllKeys
        BY <1>4, <3>1, CleanupAssumption
      <3> QED
        BY <1>4, <3>1, <3>2, <3>3, <3>4 DEF CallTyped
    <2>3. TasksSound'
      <3>1. \A g \in Key(f)[2] : g \in File /\ task[g] \in Moved /\ Job[g] = Job[f]
        BY DEF Key, Paths, Same, Moved
      <3> QED
        BY <1>4, <3>1, CleanupAssumption DEF Safe, TasksSound
    <2>4. ListsSound' /\ CandsSound' /\ SeenSound'
      BY <1>4 DEF Fresh, ListsSound, CandsSound, SeenSound, Running, First, Rereading,
         IsListed
    <2> QED
      BY <1>1, <1>2, <2>1, <2>2, <2>3, <2>4 DEF Safe, Typed
  <1> QED
    BY <1>3, <1>4

(* The keys that are remembered: those before, and perhaps the new one.    *)
LEMMA Remembered ==
    ASSUME completed \in Seq(AllKeys), Len(completed) <= KeysKept, key \in AllKeys,
           NEW ok \in BOOLEAN
    PROVE  /\ Keys(ok) \in Seq(AllKeys) /\ Len(Keys(ok)) <= KeysKept
           /\ \A n \in 1..Len(Keys(ok)) :
                \/ ok /\ Keys(ok)[n] = key
                \/ \E m \in 1..Len(completed) : Keys(ok)[n] = completed[m]
  <1> DEFINE s == Append(completed, key)
  <1>1. /\ s \in Seq(AllKeys) /\ Len(s) = Len(completed) + 1 /\ Len(completed) \in Nat
        /\ \A n \in 1..Len(s) : s[n] = IF n = Len(s) THEN key ELSE completed[n]
    BY AppendProperties
  <1>2. /\ Tail(s) \in Seq(AllKeys) /\ Len(Tail(s)) = Len(s) - 1
        /\ \A n \in 1..Len(Tail(s)) : Tail(s)[n] = s[n + 1]
    <2>1. s # <<>>
      BY <1>1
    <2> HIDE DEF s
    <2> QED
      BY <1>1, <2>1, HeadTailProperties
  <1>3. KeysKept \in Nat
    BY CleanupAssumption
  <1> HIDE DEF s
  <1>4. CASE Keys(ok) = completed
    BY <1>4
  <1>5. CASE ok /\ Keys(ok) = s /\ Len(s) <= KeysKept
    <2>1. \A n \in 1..Len(s) : n # Len(s) => n \in 1..Len(completed)
      BY <1>1
    <2> QED
      BY <1>1, <1>5, <2>1
  <1>6. CASE ok /\ Keys(ok) = Tail(s) /\ Len(s) > KeysKept
    <2>1. Len(Tail(s)) <= KeysKept
      BY <1>1, <1>2, <1>3, <1>6
    <2>2. ASSUME NEW n \in 1..Len(Tail(s))
          PROVE  Tail(s)[n] = key \/ \E m \in 1..Len(completed) : Tail(s)[n] = completed[m]
      <3>1. n + 1 \in 1..Len(s) /\ (n + 1 # Len(s) => n + 1 \in 1..Len(completed))
        BY <1>1, <1>2
      <3> QED
        BY <1>1, <1>2, <3>1
    <2> QED
      BY <1>2, <1>6, <2>1, <2>2
  <1> QED
    BY <1>1, <1>3, <1>4, <1>5, <1>6 DEF Keys, Remember, s

(* A call returns.                                                         *)
LEMMA SafeReturn ==
    ASSUME Safe, NEW ok \in BOOLEAN, Return(ok), phase # "idle", UNCHANGED runVars,
           \A f \in File : loc[f] = "home" \/ loc'[f] = loc[f],
           \A f \in File : loc[f] = "home" => loc'[f] # "away"
    PROVE  /\ HostTyped' /\ CallTyped' /\ TasksSound'
           /\ ListsSound' /\ CandsSound' /\ SeenSound'
  <1> USE DEF Return, runVars
  <1>1. call \in File /\ call # None /\ key \in AllKeys /\ task[call] = "waiting"
    BY CleanupAssumption DEF Safe, Typed, CallTyped, TasksSound
  <1>2. HostTyped'
    <2>1. Done' = Done \cup {call} /\ call \notin Done /\ IsFiniteSet(Done)
      BY <1>1, FS_Subset, CleanupAssumption DEF Done, Safe, Typed, HostTyped
    <2>2. Cardinality(Done) \in Nat /\ Cardinality(Done') = Cardinality(Done) + 1
      BY <2>1, FS_AddElement, FS_CardinalityType
    <2>3. failed' \in Nat /\ failed' <= MaxFaults + Cardinality(Done')
      BY <2>2, CleanupAssumption DEF Safe, Typed, HostTyped
    <2>4. completed' \in Seq(AllKeys) /\ Len(completed') <= KeysKept
      BY <1>1, Remembered DEF Safe, Typed, HostTyped
    <2>5. unclean' \subseteq {Job[f] : f \in File}
      BY <1>1 DEF Safe, Typed, HostTyped
    <2>6. task' \in [File -> {"none", "queued", "moved", "waiting", "done"}]
      BY <1>1 DEF Safe, Typed, HostTyped
    <2> QED
      BY <2>3, <2>4, <2>5, <2>6 DEF HostTyped
  <1>3. CallTyped'
    BY DEF Safe, Typed, CallTyped
  <1>4. TasksSound'
    <2>1. \A f \in File : task'[f] \in Moved <=> task[f] \in Moved
      BY <1>1 DEF Safe, Typed, HostTyped, Moved
    <2>2. \A f \in File : task'[f] # "none" => task[f] # "none"
      BY <1>1 DEF Safe, Typed, HostTyped
    <2>3. \A n \in 1..Len(completed') : \A f \in completed'[n][2] : task[f] \in Moved
      BY <1>1, Remembered DEF Safe, Typed, HostTyped, TasksSound
    <2>4. \A n \in 1..Len(completed') : completed'[n][2] \subseteq File
      <3>1. completed' \in Seq(AllKeys)
        BY <1>2 DEF HostTyped
      <3> QED
        BY <3>1, ElementOfSeq DEF AllKeys
    <2> QED
      BY <2>1, <2>2, <2>3, <2>4 DEF Safe, TasksSound
  <1>5. ListsSound' /\ CandsSound' /\ SeenSound'
    BY DEF ListsSound, CandsSound, SeenSound, Running, First, Rereading
  <1> QED
    BY <1>2, <1>3, <1>4, <1>5

LEMMA SafeNothingLeft ==
    ASSUME Safe, NothingLeft
    PROVE  Safe'
  <1> USE DEF NothingLeft, cloudVars
  <1>1. CloudTyped' /\ TreeSound' /\ MediaKept' /\ OutsideKept'
    BY DEF Safe, Typed, CloudTyped, TreeSound, MediaKept, OutsideKept, Deleted
  <1>2. CacheSound'
    BY DEF Safe, CacheSound, Deleted, Return
  <1> QED
    BY <1>1, <1>2, SafeReturn DEF Safe, Typed

LEMMA SafeForget ==
    ASSUME Safe, Forget
    PROVE  Safe'
  <1> USE DEF Forget
  <1>1. CloudTyped' /\ TreeSound' /\ MediaKept' /\ OutsideKept'
    BY DEF Safe, Typed, CloudTyped, TreeSound, MediaKept, OutsideKept, Deleted
  <1>2. CacheSound'
    BY DEF Safe, CacheSound, Deleted, Return
  <1> QED
    BY <1>1, <1>2, SafeReturn DEF Safe, Typed

(* One that failed may have taken ids out of the caches.                   *)
LEMMA SafeFail ==
    ASSUME Safe, Fail \/ ListGone
    PROVE  Safe'
  <1>1. /\ Return(FALSE) /\ phase # "idle" /\ phase # "forget"
        /\ UNCHANGED <<there, loc, late, unsure>> /\ UNCHANGED runVars
        /\ cached' \subseteq cached
    BY DEF Fail, ListGone, cloudVars
  <1> USE <1>1
  <1>2. CloudTyped' /\ TreeSound' /\ MediaKept' /\ OutsideKept' /\ CacheSound'
    <2>1. CloudTyped' /\ TreeSound' /\ MediaKept' /\ OutsideKept'
      BY DEF Safe, Typed, CloudTyped, TreeSound, MediaKept, OutsideKept, Deleted
    <2>2. CacheSound'
      BY DEF Safe, CacheSound, Deleted, Return
    <2> QED
      BY <2>1, <2>2
  <1> QED
    BY <1>1, <1>2, SafeReturn DEF Safe, Typed

(* What is deleted was confirmed in the second pass: it holds no root, and *)
(* no file that counts but those that came since.                          *)
LEMMA SafeDelete ==
    ASSUME Safe, Delete
    PROVE  Safe'
  <1> USE DEF Delete
  <1>1. phase = "delete" /\ Running /\ Rereading
    BY DEF Running, Rereading
  <1>2. \A d \in Doomed : d \in Dir /\ d \in there /\ \E c \in confirmed : c \in Above(d)
    BY DEF Doomed, Safe, Typed, CloudTyped
  <1>3. \A f \in File : loc'[f] = IF f \in Inside THEN "gone" ELSE loc[f]
    OBVIOUS
  <1>4. \A f \in Inside : f \in File /\ loc[f] = "home" /\ Home[f] \in Doomed
    BY DEF Inside
  <1>5. CloudTyped'
    BY <1>2, <1>4 DEF Safe, Typed, CloudTyped, Entry, Inside
  <1>6. TreeSound'
    <2>1. Root \cap Doomed = {}
      BY <1>2, Tree, CleanupAssumption DEF Safe, Typed, CallTyped, CandsSound, Running,
         Rereading, Forbidden
    <2>2. \A d \in there' : Above(d) \subseteq there'
      BY Tree DEF Safe, Typed, CloudTyped, TreeSound, Doomed
    <2>3. \A f \in File : /\ loc'[f] = "home" => Home[f] \in there'
                          /\ loc'[f] = "gone" => Home[f] \notin there'
      BY <1>3, <1>4, CleanupAssumption DEF Safe, TreeSound, Inside
    <2> QED
      BY <2>1, <2>2, <2>3 DEF Safe, TreeSound
  <1>7. ASSUME NEW f \in Inside, f \notin late
        PROVE  /\ f \in observed /\ f \notin Media /\ Bounded(Home[f])
    <2>1. PICK c \in confirmed : c \in Above(Home[f])
      BY <1>2, <1>4
    <2>2. Home[f] \in there \cap Below(c) /\ c \in Dir /\ Home[f] \in Dir
      BY <1>2, <1>4, <2>1, Tree, CleanupAssumption DEF Safe, Typed, CallTyped
    <2>3. Harmless(c) /\ IsListed(Home[f])
      BY <1>1, <2>2 DEF Safe, CandsSound, Harmless
    <2>4. f \in lists[Home[f]] /\ f \in observed
      BY <1>1, <1>4, <1>7, <2>2, <2>3 DEF Safe, ListsSound
    <2>5. f \notin Media /\ Bounded(c)
      BY <2>2, <2>3, <2>4 DEF Harmless
    <2> QED
      BY <2>1, <2>2, <2>4, <2>5, SameBound
  <1>8. Deleted' = Deleted \cup Inside
    BY <1>3 DEF Deleted, Inside
  <1>9. MediaKept' /\ OutsideKept'
    BY <1>6, <1>7, <1>8 DEF Safe, MediaKept, OutsideKept, TreeSound
  <1>10. Doomed \cup (Inside \ late) \subseteq Uncached
    <2>1. \A d \in Doomed : d \in observed
      BY <1>1, <1>2, Tree DEF Safe, Typed, CallTyped, CandsSound, Harmless, ListsSound
    <2>2. \A f \in Inside : f \notin Dir
      BY <1>4, CleanupAssumption
    <2>3. \A i \in Doomed : InConfirmed(i)
      BY <1>2 DEF InConfirmed, Path
    <2>4. \A f \in Inside : InConfirmed(f)
      BY <1>2, <1>4, <2>2 DEF InConfirmed, Path
    <2> QED
      BY <1>7, <2>1, <2>3, <2>4 DEF Uncached
  <1>11. cached \cap ((Dir \ there') \cup Deleted')
            \subseteq late \cup unsure \cup Doomed \cup Inside
    BY <1>8 DEF Safe, CacheSound
  <1>12. CASE phase' = "forget"
    <2>1. UNCHANGED <<unsure, task, completed, call, key, unclean, failed>> /\ UNCHANGED runVars
      BY <1>12 DEF Return
    <2>2. CacheSound'
      BY <1>10, <1>11, <1>12, <2>1 DEF CacheSound, Uncached, InConfirmed, runVars
    <2>3. HostTyped' /\ CallTyped'
      BY <1>12, <2>1 DEF Safe, Typed, HostTyped, CallTyped, Done, runVars
    <2>4. TasksSound'
      BY <1>3, <1>4, <2>1 DEF Safe, TasksSound
    <2>5. ListsSound' /\ CandsSound' /\ SeenSound'
      BY <1>12 DEF ListsSound, CandsSound, SeenSound, Running, First, Rereading
    <2> QED
      BY <1>5, <1>6, <1>9, <2>2, <2>3, <2>4, <2>5 DEF Safe, Typed
  <1>13. CASE Return(FALSE) /\ unsure' = unsure \cup Doomed \cup Inside
    <2>1. CacheSound'
      BY <1>11, <1>13 DEF CacheSound, Return
    <2> QED
      BY <1>3, <1>4, <1>5, <1>6, <1>9, <1>13, <2>1, SafeReturn DEF Safe, Typed
  <1> QED
    BY <1>12, <1>13

LEMMA SafeStutter ==
    ASSUME Safe, UNCHANGED vars
    PROVE  Safe'
  <1> USE DEF vars, cloudVars, runVars
  <1>1. CloudTyped' /\ HostTyped' /\ CallTyped'
    BY DEF Safe, Typed, CloudTyped, HostTyped, CallTyped, Done
  <1>2. TreeSound' /\ TasksSound' /\ MediaKept' /\ OutsideKept'
    BY DEF Safe, TreeSound, TasksSound, MediaKept, OutsideKept, Deleted
  <1>3. CacheSound'
    BY DEF Safe, CacheSound, Deleted, Uncached, InConfirmed
  <1>4. ListsSound' /\ CandsSound' /\ SeenSound'
    BY DEF Safe, ListsSound, CandsSound, SeenSound, Running, First, Rereading,
           IsListed, Harmless
  <1> QED
    BY <1>1, <1>2, <1>3, <1>4 DEF Safe, Typed

LEMMA NextSafe == Safe /\ [Next]_vars => Safe'
  <1> SUFFICES ASSUME Safe, [Next]_vars PROVE Safe'
    OBVIOUS
  <1>1. CASE \E f \in File : Submit(f) \/ Move(f) \/ Upload(f) \/ Enter(f) \/ Acquire(f)
    BY <1>1, SafeSubmit, SafeMove, SafeUpload, SafeEnter, SafeAcquire
  <1>2. CASE NextSource \/ GetItem \/ Candidate \/ Reject \/ Reread \/ Recheck \/ Confirm
    BY <1>2, SafeNextSource, SafeGetItem, SafeCandidate, SafeReject, SafeReread,
       SafeRecheck, SafeConfirm
  <1>3. CASE Scan \/ Rescan
    BY <1>3, SafeList DEF Scan, Rescan
  <1>4. CASE NothingLeft \/ Decide \/ Delete \/ Forget \/ ListGone \/ Fail
    BY <1>4, SafeNothingLeft, SafeDecide, SafeDelete, SafeForget, SafeFail
  <1>5. CASE UNCHANGED vars
    BY <1>5, SafeStutter
  <1> QED
    BY <1>1, <1>2, <1>3, <1>4, <1>5 DEF Next

(* What is about to be deleted was read, and found empty, in the second    *)
(* pass, in every reachable state.                                         *)
THEOREM DeletionSafe == Spec => []Safe
  <1> QED
    BY InitSafe, NextSafe, PTL DEF Spec

(* Every variable keeps its type; no more calls fail than the bound allows *)
(* and tasks end.                                                          *)
THEOREM TypeCorrect == Spec => []TypeOK
  <1>1. Safe => TypeOK
    <2> SUFFICES ASSUME Safe PROVE TypeOK
      OBVIOUS
    <2>1. Cardinality(Done) \in Nat /\ Cardinality(File) \in Nat
          /\ Cardinality(Done) <= Cardinality(File)
      BY FS_Subset, FS_CardinalityType, CleanupAssumption DEF Done
    <2>2. failed \in 0..MaxFaults + Cardinality(File)
      BY <2>1, CleanupAssumption DEF Safe, Typed, HostTyped
    <2> QED
      BY <2>2 DEF Safe, Typed, CloudTyped, HostTyped, CallTyped, TypeOK
  <1> QED
    BY <1>1, DeletionSafe, PTL

(* A media file is lost with its directory only when it was uploaded after *)
(* the second reading of that directory.                                   *)
THEOREM MediaIsKept == Spec => []MediaKept
  <1>1. Safe => MediaKept
    BY DEF Safe
  <1> QED
    BY <1>1, DeletionSafe, PTL

(* No configured directory is deleted, and outside of them no file, but    *)
(* those that came after the second reading.                               *)
THEOREM OutsideIsKept == Spec => []OutsideKept
  <1>1. Safe => OutsideKept
    BY DEF Safe
  <1> QED
    BY <1>1, DeletionSafe, PTL

(* Between two calls the id caches know nothing that was deleted by a      *)
(* request whose answer arrived, but files that came late.                 *)
THEOREM CachesClean == Spec => []CacheClean
  <1>1. Safe => CacheClean
    BY DEF Safe, CacheSound, CacheClean
  <1> QED
    BY <1>1, DeletionSafe, PTL
-----------------------------------------------------------------------------
(* Answered holds initially, and whatever the workers and users do.        *)

(* Where neither the files nor the tasks change, nothing else is owed.     *)
LEMMA OwingSame ==
    ASSUME Owing, UNCHANGED <<there, loc, task, completed, call, unclean>>
    PROVE  Owing'
  <1>1. \A d : Left(d)' => Left(d)
    BY DEF Left, Emptied, MediaBelow, Contents
  <1>2. \A g, d : Owes(g, d) => Owes(g, d)'
    BY DEF Owes
  <1>3. \A j : ToCome(j) => ToCome(j)'
    BY DEF ToCome, Busy
  <1>4. \A g : Unremembered(g) => Unremembered(g)'
    BY DEF Unremembered
  <1> QED
    BY <1>1, <1>2, <1>3, <1>4 DEF Owing, Owed, Called

(* What is owed stays owed when the tree stands, each job to come stays to *)
(* come, and what was left is left.                                        *)
LEMMA OwingKept ==
    ASSUME Owing, UNCHANGED <<there, completed, call>>,
           \A f \in File : \A d \in Above(Home[f]) : Removable(d) /\ Left(d)' => Left(d),
           \A f \in File : task'[f] \in Moved => task[f] \in Moved,
           \A f \in File : task[f] # "none" => task'[f] # "none",
           \A j : ToCome(j) => ToCome(j)'
    PROVE  Owing'
  <1>1. \A g \in File : \A d : Owes(g, d) => Owes(g, d)'
    BY DEF Owes
  <1>2. \A g : Unremembered(g) => Unremembered(g)'
    BY DEF Unremembered
  <1> QED
    BY <1>1, <1>2 DEF Owing, Owed, Called

LEMMA InitAnswered == Init => Answered
  <1> SUFFICES ASSUME Init PROVE Answered
    OBVIOUS
  <1>1. Owing
    BY DEF Init, Owing, Moved
  <1>2. Covered /\ WalkSound
    BY DEF Init, Covered, WalkSound, SourcesRead, Judged, Rejudged, Finished, Running,
       First, Rereading
  <1> QED
    BY <1>1, <1>2 DEF Answered

LEMMA AnsweredSubmit ==
    ASSUME Safe, Answered, NEW f \in File, Submit(f)
    PROVE  Answered'
  <1> USE DEF Submit, cloudVars, runVars
  <1>1. \A g \in File : task'[g] = IF g = f THEN "queued" ELSE task[g]
    BY DEF Safe, Typed, HostTyped
  <1>2. call # f
    BY CleanupAssumption DEF Safe, TasksSound
  <1>3. \A j : ToCome(j) => ToCome(j)'
    BY <1>1, <1>2 DEF ToCome, Busy
  <1>4. ToCome(Job[f])'
    BY <1>1, <1>2 DEF ToCome, Busy
  <1>5. \A d : Left(d)' => Left(d)
    BY DEF Left, Emptied, MediaBelow, Contents
  <1>6. Owing'
    <2>1. \A g \in File : /\ task'[g] \in Moved => task[g] \in Moved
                          /\ task[g] # "none" => task'[g] # "none"
      BY <1>1 DEF Moved
    <2> QED
      BY <1>3, <1>5, <2>1, OwingKept DEF Answered
  <1>7. Covered'
    BY <1>1, <1>3, <1>4 DEF Answered, Covered, Unremembered, Moved
  <1>8. WalkSound'
    BY DEF Answered, WalkSound, SourcesRead, Judged, Rejudged,
           Finished, Held, Running, First, Rereading
  <1> QED
    BY <1>6, <1>7, <1>8 DEF Answered

LEMMA AnsweredMove ==
    ASSUME Safe, Answered, NEW f \in File, Move(f)
    PROVE  Answered'
  <1> USE DEF Move, cloudVars, runVars
  <1>1. \A g \in File : /\ task'[g] = IF g = f THEN "moved" ELSE task[g]
                        /\ loc'[g] = IF g = f THEN "away" ELSE loc[g]
    BY DEF Safe, Typed, HostTyped, CloudTyped
  <1>2. call # f /\ Unremembered(f)
    BY CleanupAssumption DEF Safe, TasksSound, Unremembered, Moved
  <1>3. \A j : ToCome(j) => ToCome(j)'
    BY <1>1 DEF ToCome, Busy
  <1>4. ToCome(Job[f])'
    BY <1>1, <1>2 DEF ToCome, Busy
  <1>5. Home[f] \in Dir /\ Home[f] \in there
    BY CleanupAssumption DEF Safe, TreeSound
  <1>6. ASSUME NEW d \in Dir, Left(d)'
        PROVE  Left(d) \/ d \in Above(Home[f])
    <2>1. CASE Bounded(d)
      <3>1. SUFFICES ASSUME d \notin Above(Home[f]) PROVE Left(d)
        OBVIOUS
      <3>2. MediaBelow(d)' = {}
        BY <1>6, <2>1 DEF Left, Emptied, Bounded
      <3>3. Home[f] \notin Below(d)
        BY <1>5, <3>1, Tree
      <3>4. MediaBelow(d) = {}
        BY <1>1, <3>2, <3>3, CleanupAssumption DEF MediaBelow
      <3> QED
        BY <1>6, <2>1, <3>4 DEF Left, Emptied
    <2>2. CASE ~Bounded(d)
      <3>1. SUFFICES ASSUME Home[f] # d PROVE Left(d)
        BY Tree
      <3>2. Contents(d)' = {}
        BY <1>6, <2>2 DEF Left, Emptied, Bounded
      <3>3. Contents(d) = {}
        BY <1>1, <3>1, <3>2 DEF Contents
      <3> QED
        BY <1>6, <2>2, <3>3 DEF Left, Emptied
    <2> QED
      BY <2>1, <2>2
  <1>7. ASSUME NEW d \in Above(Home[f]), Removable(d)
        PROVE  (Owes(f, d) /\ Unremembered(f) /\ ToCome(Job[f]))'
    BY <1>1, <1>2, <1>4, <1>5, <1>7 DEF Owes, Removable, Forbidden, Bounded, Unremembered
  <1>8. Owing'
    <2> SUFFICES ASSUME NEW g \in File, NEW d \in Above(Home[g]),
                        (task[g] \in Moved)', Removable(d)', Left(d)'
                 PROVE  Owed(d)'
      BY DEF Owing
    <2>1. d \in Dir /\ Removable(d)
      BY DEF Above, Removable
    <2>2. CASE d \in Above(Home[f])
      BY <1>7, <2>1, <2>2 DEF Owed
    <2>3. CASE d \notin Above(Home[f])
      <3>1. g # f /\ task[g] \in Moved /\ Left(d)
        BY <1>1, <1>6, <2>1, <2>3
      <3>2. PICK h \in File : /\ Owes(h, d) /\ Unremembered(h)
                              /\ ToCome(Job[h]) \/ Called(Job[h])
        BY <2>1, <3>1 DEF Answered, Owing, Owed
      <3>3. Owes(h, d)' /\ Unremembered(h)'
        BY <1>1, <3>2 DEF Owes, Unremembered, Removable, Forbidden, Bounded
      <3> QED
        BY <1>3, <3>2, <3>3 DEF Owed, Called
    <2> QED
      BY <2>2, <2>3
  <1>9. Covered'
    BY <1>1, <1>3, <1>4 DEF Answered, Covered, Unremembered, Moved
  <1>10. WalkSound'
    BY DEF Answered, WalkSound, SourcesRead, Judged, Rejudged,
           Finished, Held, Running, First, Rereading
  <1> QED
    BY <1>8, <1>9, <1>10 DEF Answered

LEMMA AnsweredUpload ==
    ASSUME Safe, Answered, NEW f \in File, Upload(f)
    PROVE  Answered'
  <1> USE DEF Upload, cloudVars, runVars
  <1>1. \A g \in File : loc'[g] = IF g = f THEN "home" ELSE loc[g]
    BY DEF Safe, Typed, CloudTyped
  <1>2. \A d : Left(d)' => Left(d)
    BY <1>1, CleanupAssumption DEF Left, Emptied, MediaBelow, Contents
  <1>3. Owing'
    <2>1. \A j : ToCome(j) => ToCome(j)'
      BY DEF ToCome, Busy
    <2> QED
      BY <1>2, <2>1, OwingKept DEF Answered
  <1>4. Covered'
    BY <1>1 DEF Answered, Covered, ToCome, Busy, Unremembered
  <1>5. WalkSound'
    BY DEF Answered, WalkSound, SourcesRead, Judged, Rejudged,
           Finished, Held, Running, First, Rereading
  <1> QED
    BY <1>3, <1>4, <1>5 DEF Answered

(* A task that finds its job unfinished leaves another one to come.        *)
LEMMA AnsweredEnter ==
    ASSUME Safe, Answered, NEW f \in File, Enter(f)
    PROVE  Answered'
  <1> USE DEF Enter, cloudVars, runVars
  <1>1. \A g \in File : task'[g] = IF g = f THEN (IF IsSuccess(f) THEN "waiting" ELSE "done")
                                            ELSE task[g]
    BY DEF Safe, Typed, HostTyped
  <1>2. call # f
    BY CleanupAssumption DEF Safe, TasksSound
  <1>3. ASSUME ~IsSuccess(f)
        PROVE  \E g \in File : Job[g] = Job[f] /\ task'[g] = "queued" /\ g # call
    <2>1. PICK g \in Same(f) : task[g] \notin {"moved", "waiting", "done"}
      BY <1>3 DEF IsSuccess
    <2>2. g \in File /\ Job[g] = Job[f] /\ task[g] = "queued"
      BY <2>1 DEF Same, Safe, Typed, HostTyped
    <2>3. g # call
      BY <2>2, CleanupAssumption DEF Safe, TasksSound
    <2> QED
      BY <1>1, <2>2, <2>3
  <1>4. ASSUME NEW j, ToCome(j)
        PROVE  ToCome(j)'
    <2>1. CASE \E g \in File : Job[g] = j /\ Busy(g)
      <3>1. PICK g \in File : Job[g] = j /\ Busy(g)
        BY <2>1
      <3>2. CASE g # f \/ IsSuccess(f)
        BY <1>1, <3>1, <3>2 DEF ToCome, Busy
      <3>3. CASE g = f /\ ~IsSuccess(f)
        BY <1>3, <3>1, <3>3 DEF ToCome, Busy
      <3> QED
        BY <3>2, <3>3
    <2>2. CASE j \in unclean /\ (call # None => j # Job[call])
      BY <2>2 DEF ToCome
    <2> QED
      BY <1>4, <2>1, <2>2 DEF ToCome
  <1>5. Owing'
    <2>1. \A g \in File : /\ task'[g] \in Moved => task[g] \in Moved
                          /\ task[g] # "none" => task'[g] # "none"
      BY <1>1 DEF Moved
    <2>2. \A d : Left(d)' => Left(d)
      BY DEF Left, Emptied, MediaBelow, Contents
    <2> QED
      BY <1>4, <2>1, <2>2, OwingKept DEF Answered
  <1>6. Covered'
    BY <1>1, <1>4 DEF Answered, Covered, Unremembered, Moved
  <1>7. WalkSound'
    BY DEF Answered, WalkSound, SourcesRead, Judged, Rejudged,
           Finished, Held, Running, First, Rereading
  <1> QED
    BY <1>5, <1>6, <1>7 DEF Answered

(* A call that finds its paths remembered gives up only what was judged    *)
(* with them.                                                              *)
LEMMA AnsweredAcquire ==
    ASSUME Safe, Answered, NEW f \in File, Acquire(f)
    PROVE  Answered'
  <1> USE DEF cloudVars, runVars
  <1>1. /\ phase = "idle" /\ task[f] = "waiting" /\ call = None
        /\ UNCHANGED <<there, loc, completed>>
    BY DEF Acquire, Safe, Typed, CallTyped
  <1>2. \A d : Left(d)' => Left(d)
    BY <1>1 DEF Left, Emptied, MediaBelow, Contents
  <1>3. \A g : Unremembered(g) => Unremembered(g)'
    BY <1>1 DEF Unremembered
  <1>4. CASE Known(f)
    <2>1. /\ task' = [task EXCEPT ![f] = "done"] /\ unclean' = unclean \ {Job[f]}
          /\ UNCHANGED <<phase, call>>
      BY <1>4 DEF Acquire
    <2>2. \A g \in File : task'[g] = IF g = f THEN "done" ELSE task[g]
      BY <2>1 DEF Safe, Typed, HostTyped
    <2>3. ASSUME NEW g \in File, NEW d, Owes(g, d), Unremembered(g), ToCome(Job[g])
          PROVE  ToCome(Job[g])'
      <3>1. CASE Job[g] = Job[f]
        <4>1. g \notin Paths(f)
          BY <1>4, <2>3 DEF Known, Contains, Key, Unremembered
        <4>2. task[g] = "queued"
          BY <2>3, <3>1, <4>1 DEF Paths, Same, Owes, Safe, Typed, HostTyped
        <4> QED
          BY <1>1, <2>1, <2>2, <4>2, CleanupAssumption DEF ToCome, Busy
      <3>2. CASE Job[g] # Job[f]
        BY <1>1, <2>1, <2>2, <2>3, <3>2 DEF ToCome, Busy
      <3> QED
        BY <3>1, <3>2
    <2>4. \A g \in File : \A d : Owes(g, d) => Owes(g, d)'
      BY <1>1, <2>2 DEF Owes
    <2>5. \A g \in File : task'[g] \in Moved => task[g] \in Moved
      BY <1>1, <2>2 DEF Moved
    <2>6. ASSUME NEW d, Owed(d)
          PROVE  Owed(d)'
      BY <1>1, <1>3, <2>3, <2>4, <2>6 DEF Owed, Called
    <2>7. Owing'
      BY <1>2, <2>5, <2>6 DEF Answered, Owing
    <2>8. Covered' /\ WalkSound'
      BY <1>1, <2>1 DEF Covered, WalkSound, SourcesRead, Judged, Rejudged, Finished,
         Running, First, Rereading
    <2> QED
      BY <2>7, <2>8 DEF Answered
  <1>5. CASE ~Known(f)
    <2>1. /\ phase' = "climb" /\ call' = f /\ key' = Key(f)
          /\ todo' = {Home[g] : g \in Paths(f)}
          /\ folders' = [d \in Dir |-> "unknown"]
          /\ visited' = {} /\ cands' = {} /\ observed' = {} /\ confirmed' = {}
          /\ UNCHANGED <<task, unclean>>
      BY <1>5 DEF Acquire
    <2>2. f # None
      BY CleanupAssumption
    <2>3. ASSUME NEW j, ToCome(j)
          PROVE  ToCome(j)' \/ Called(j)'
      BY <1>1, <2>1, <2>2, <2>3 DEF ToCome, Busy, Called
    <2>4. ASSUME NEW d, Owed(d)
          PROVE  Owed(d)'
      BY <1>1, <1>3, <2>1, <2>3, <2>4 DEF Owed, Called, Owes
    <2>5. Owing'
      BY <1>2, <2>1, <2>4 DEF Answered, Owing
    <2>6. Covered'
      <3>1. ASSUME NEW g \in File, Job[g] = Job[f], task[g] # "none"
            PROVE  g \in Key(f)[2] \/ ToCome(Job[f])'
        <4>1. CASE g \in Paths(f)
          BY <4>1 DEF Key
        <4>2. CASE g \notin Paths(f)
          <5>1. task[g] = "queued" /\ g # f
            BY <1>1, <3>1, <4>2 DEF Paths, Same, Safe, Typed, HostTyped
          <5> QED
            BY <2>1, <3>1, <5>1 DEF ToCome, Busy
        <4> QED
          BY <4>1, <4>2
      <3> QED
        BY <2>1, <3>1 DEF Covered
    <2>7. WalkSound'
      BY <2>1 DEF WalkSound, SourcesRead, Judged, Rejudged, Finished, Running, First,
         Rereading, Key
    <2> QED
      BY <2>5, <2>6, <2>7 DEF Answered
  <1> QED
    BY <1>4, <1>5
-----------------------------------------------------------------------------
(* Answered holds while a call reads.                                      *)

LEMMA AnsweredElsewhere ==
    ASSUME Answered, UNCHANGED Elsewhere
    PROVE  /\ Owing'
           /\ phase # "idle" /\ UNCHANGED observed => Covered'
  <1> USE DEF Elsewhere, cloudVars
  <1>1. Owing'
    BY OwingSame DEF Answered
  <1>2. ASSUME phase # "idle", UNCHANGED observed
        PROVE  Covered'
    BY <1>2 DEF Answered, Covered, ToCome, Busy, Unremembered
  <1> QED
    BY <1>1, <1>2

(* The walk goes on to d, unless it ends there.                            *)
LEMMA JudgeFacts ==
    ASSUME NEW d, Judge(d)
    PROVE  /\ phase' \in {"climb", "item"}
           /\ visited \subseteq visited' /\ (Len(d) > 1 => d \in visited')
           /\ \A x \in visited' : \/ x \in visited \/ Forbidden(x) \/ folders[x] = "missing"
                                  \/ phase' = "item" /\ x = cur'
  BY DEF Judge

LEMMA AnsweredNextSource ==
    ASSUME Safe, Answered, NextSource
    PROVE  Answered'
  <1> USE DEF NextSource
  <1>1. UNCHANGED Elsewhere /\ UNCHANGED observed /\ phase = "climb"
    BY DEF Elsewhere
  <1>2. WalkSound'
    <2>1. \A d : Held(d) => Held(d)'
      BY DEF Held, cloudVars
    <2>2. First /\ First' /\ ~Rereading'
      BY JudgeFacts DEF First, Rereading
    <2>3. SourcesRead'
      BY <2>2, JudgeFacts DEF Answered, WalkSound, SourcesRead, Running
    <2>4. Judged'
      <3>1. visited \subseteq Dir /\ \A x \in there : folders[x] # "missing"
        BY <2>2 DEF Answered, WalkSound, Judged, Safe, Typed, CloudTyped, CallTyped
      <3>2. ASSUME NEW x \in visited' \cap there, Removable(x)
            PROVE  (Held(x) \/ x \in cands \/ (phase \in {"item", "scan"} /\ x = cur))'
        <4>1. x \in visited \/ (phase' = "item" /\ x = cur')
          BY <3>1, <3>2, JudgeFacts DEF Removable
        <4> QED
          BY <1>1, <2>1, <2>2, <3>2, <4>1 DEF Answered, WalkSound, Judged
      <3>3. \A c \in cands' : Len(Front(c)) > 1 => Front(c) \in visited'
        BY <2>2, JudgeFacts DEF Answered, WalkSound, Judged
      <3> QED
        BY <2>2, <3>2, <3>3 DEF Answered, WalkSound, Judged, cloudVars
    <2> QED
      BY <2>2, <2>3, <2>4, JudgeFacts DEF WalkSound, Rejudged, Finished
  <1> QED
    BY <1>1, <1>2, AnsweredElsewhere DEF Answered

LEMMA AnsweredGetItem ==
    ASSUME Safe, Answered, GetItem
    PROVE  Answered'
  <1> USE DEF GetItem
  <1>1. Owing' /\ Covered'
    <2>1. Owing'
      BY OwingSame DEF Answered
    <2> QED
      BY <2>1 DEF Answered, Covered, ToCome, Busy, Unremembered
  <1>2. WalkSound'
    <2>1. \A d : Held(d) => Held(d)'
      BY DEF Held
    <2>2. \A d \in Dir : folders'[d] = "missing" =>
             folders[d] = "missing" \/ (d = cur /\ d \notin there)
      BY DEF Safe, Typed, CallTyped
    <2>3. folders[cur] = "missing" => cur \notin there
      BY DEF Answered, WalkSound, SourcesRead, Judged, Rejudged, Finished, First, Safe,
         Typed, CallTyped
    <2>4. (phase' = "scan" /\ cur' = cur) \/ cur \notin there
      OBVIOUS
    <2> QED
      BY <2>1, <2>2, <2>4 DEF Answered, WalkSound, SourcesRead, Judged, Rejudged,
           Finished, Running, First, Rereading
  <1> QED
    BY <1>1, <1>2 DEF Answered

LEMMA AnsweredList ==
    ASSUME Safe, Answered, ListNext, phase \in {"scan", "rescan"}
    PROVE  Answered'
  <1> USE DEF ListNext
  <1>1. UNCHANGED Elsewhere
    BY DEF Elsewhere
  <1>2. PICK d \in Pending(cur) \cap there :
          /\ observed' = observed \cup {d} \cup Contents(d)
          /\ folders' = [e \in Dir |-> IF e \in Contents(d) THEN "found" ELSE folders[e]]
    OBVIOUS
  <1>3. \A f \in File : f \in observed' => f \in observed \/ loc[f] = "home"
    BY <1>2, CleanupAssumption DEF Contents, Safe, Typed, CloudTyped
  <1>4. Covered'
    <2>1. \A f \in File : loc[f] = "home" => f \notin key[2] /\ Unremembered(f)
      BY CleanupAssumption DEF Safe, TasksSound, Typed, CallTyped, Unremembered
    <2>2. \A j : ToCome(j) => ToCome(j)'
      BY DEF ToCome, Busy
    <2>3. \A f : Unremembered(f) => Unremembered(f)'
      BY DEF Unremembered
    <2> QED
      BY <1>3, <2>1, <2>2, <2>3 DEF Answered, Covered, cloudVars
  <1>5. WalkSound'
    <2>1. \A x : Held(x) => Held(x)'
      BY <1>2 DEF Held, cloudVars
    <2>2. \A x \in Dir : folders'[x] = "missing" => folders[x] = "missing"
      BY <1>2
    <2> QED
      BY <2>1, <2>2 DEF Answered, WalkSound, SourcesRead, Judged, Rejudged,
           Finished, Running, First, Rereading, cloudVars
  <1> QED
    BY <1>1, <1>4, <1>5, AnsweredElsewhere DEF Answered

LEMMA AnsweredCandidate ==
    ASSUME Safe, Answered, Candidate
    PROVE  Answered'
  <1> USE DEF Candidate
  <1>1. UNCHANGED Elsewhere /\ UNCHANGED observed /\ phase = "scan"
    BY DEF Elsewhere
  <1>2. WalkSound'
    <2>1. \A d : Held(d) => Held(d)'
      BY DEF Held, cloudVars
    <2>2. First /\ First' /\ ~Rereading'
      BY JudgeFacts DEF First, Rereading
    <2>3. SourcesRead'
      BY <2>2, JudgeFacts DEF Answered, WalkSound, SourcesRead, Running
    <2>4. Judged'
      <3>1. visited \subseteq Dir /\ \A x \in there : folders[x] # "missing"
        BY <2>2 DEF Answered, WalkSound, Judged, Safe, Typed, CloudTyped, CallTyped
      <3>2. ASSUME NEW x \in visited' \cap there, Removable(x)
            PROVE  (Held(x) \/ x \in cands \/ (phase \in {"item", "scan"} /\ x = cur))'
        <4>1. x \in visited \/ (phase' = "item" /\ x = cur')
          BY <3>1, <3>2, JudgeFacts DEF Removable
        <4> QED
          BY <1>1, <2>1, <2>2, <3>2, <4>1 DEF Answered, WalkSound, Judged
      <3>3. \A c \in cands' : Len(Front(c)) > 1 => Front(c) \in visited'
        BY <2>2, JudgeFacts DEF Answered, WalkSound, Judged
      <3> QED
        BY <2>2, <3>2, <3>3 DEF Answered, WalkSound, Judged, cloudVars
    <2> QED
      BY <2>2, <2>3, <2>4, JudgeFacts DEF WalkSound, Rejudged, Finished
  <1> QED
    BY <1>1, <1>2, AnsweredElsewhere DEF Answered

(* A directory that is refused is kept by a file that was seen.            *)
LEMMA RefusedHeld ==
    ASSUME Safe, Running, NEW c \in Dir, Removable(c), Refused(c)
    PROVE  Held(c)
  <1>1. \A e \in Dir : lists[e] # None => lists[e] \subseteq Entry
    BY DEF Safe, Typed, CallTyped
  <1>2. ASSUME NEW e \in Below(c), lists[e] # None, NEW f \in lists[e] \cap File
        PROVE  f \in observed /\ c \in Above(Home[f]) /\ Home[f] \in there /\ Home[f] = e
    BY <1>2, Tree DEF Safe, ListsSound, IsListed
  <1>3. CASE HasMedia(c) /\ Bounded(c)
    <2>1. PICK e \in Reached(c), f \in File : lists[e] # None /\ f \in lists[e] /\ f \in Media
      BY <1>3, CleanupAssumption DEF HasMedia, Seen
    <2> QED
      BY <1>2, <1>3, <2>1 DEF Held, Reached
  <1>4. CASE ~Bounded(c)
    <2>1. Below(c) = {c}
      BY <1>4 DEF Removable
    <2>2. lists[c] # None /\ lists[c] # {}
      BY <2>1 DEF Refused, Occupied, HasMedia, Seen, Reached
    <2>3. lists[c] \cap Dir = {}
      BY <2>1, <2>2, Tree DEF Safe, ListsSound, IsListed
    <2>4. PICK f \in File : f \in lists[c]
      BY <1>1, <2>2, <2>3 DEF Entry
    <2> QED
      BY <1>2, <1>4, <2>1, <2>2, <2>4 DEF Held
  <1> QED
    BY <1>3, <1>4 DEF Refused, Occupied

LEMMA AnsweredReject ==
    ASSUME Safe, Answered, Reject
    PROVE  Answered'
  <1> USE DEF Reject
  <1>1. UNCHANGED Elsewhere /\ UNCHANGED observed /\ phase = "scan" /\ cur \in Dir
    BY DEF Elsewhere, Safe, Typed, CallTyped
  <1>2. WalkSound'
    <2>1. \A d : Held(d) => Held(d)'
      BY DEF Held, cloudVars
    <2>2. Removable(cur) => Held(cur)
      BY <1>1, RefusedHeld DEF Running, First
    <2> QED
      BY <2>1, <2>2 DEF Answered, WalkSound, SourcesRead, Judged, Rejudged,
           Finished, Running, First, Rereading, cloudVars
  <1> QED
    BY <1>1, <1>2, AnsweredElsewhere DEF Answered

(* What lies below a removable directory is removable, unless nothing does. *)
LEMMA RemovableBelow ==
    ASSUME NEW e \in Dir, NEW d \in Above(e), Removable(d)
    PROVE  /\ Removable(e) /\ (e # d => Bounded(d))
           /\ \A x \in Above(e) \cap Below(d) : Removable(x)
  <1>1. \A x \in Below(d) : x \in Dir /\ d \in Above(x)
    BY Tree
  <1>2. \A x \in Below(d) : ~Forbidden(x)
    BY <1>1, ForbiddenUp DEF Removable
  <1>3. \A x \in Below(d) : Bounded(d) => Bounded(x)
    BY <1>1, SameBound
  <1>4. e \in Below(d) /\ d \in Dir
    BY Tree
  <1> QED
    BY <1>1, <1>2, <1>3, <1>4 DEF Removable

(* What holds a directory holds those above it.                            *)
LEMMA HeldUp ==
    ASSUME NEW x \in Dir, NEW d \in Above(x), Removable(d), Held(x)
    PROVE  Held(d)
  <1>1. d \in Dir /\ \A e \in Dir : x \in Above(e) => d \in Above(e)
    BY Tree
  <1>2. PICK f \in observed \cap File : /\ x \in Above(Home[f]) /\ Home[f] \in there
                                        /\ IF Bounded(x) THEN f \in Media ELSE Home[f] = x
    BY DEF Held
  <1>3. CASE x # d
    BY <1>1, <1>2, <1>3, RemovableBelow, SameBound, CleanupAssumption DEF Held
  <1> QED
    BY <1>3

(* After the first pass every directory above a visited one is held, or a  *)
(* candidate: the walk stopped at nothing else.                            *)
LEMMA WalkComplete ==
    ASSUME Safe, Answered, phase = "climb", NEW e \in visited \cap there, NEW d \in Above(e),
           Removable(d)
    PROVE  Held(d) \/ d \in cands
  <1> DEFINE Way == {y \in Above(e) \cap Below(d) : y \in visited}
             Lengths == {Len(y) : y \in Way}
  <1>1. e \in Dir /\ d \in Dir /\ e \in Way /\ Above(e) \subseteq there
    BY Tree DEF Safe, Typed, CallTyped, TreeSound
  <1>2. \A y \in Way : y \in Dir /\ d \in Above(y) /\ y \in there /\ Len(y) \in Nat
                       /\ y \in visited /\ Removable(y)
    BY <1>1, Tree, RemovableBelow
  <1>3. PICK x \in Way : \A y \in Way : Len(x) <= Len(y)
    <2>1. Lengths \in SUBSET Nat /\ Lengths # {}
      BY <1>1, <1>2
    <2>2. PICK n \in Lengths : \A m \in Lengths : n <= m
      BY <2>1, Least, Zenon
    <2> QED
      BY <2>2
  <1>4. Held(x) \/ x \in cands
    BY <1>2 DEF Answered, WalkSound, Judged, First
  <1>5. CASE x = d
    BY <1>4, <1>5
  <1>6. CASE x # d /\ Held(x)
    BY <1>2, <1>6, HeldUp
  <1>7. CASE x # d /\ x \in cands
    <2>1. Len(d) > 1 /\ Len(d) < Len(x) /\ Len(x) > 1
      BY <1>1, <1>2, <1>7, Tree DEF Removable, Forbidden
    <2>2. Front(x) \in Dir /\ Front(x) \in Above(x) /\ Len(Front(x)) = Len(x) - 1
      BY <1>2, <2>1, Parent
    <2>3. d \in Above(Front(x)) /\ Front(x) \in Above(e) /\ Front(x) \in Below(d)
      BY <1>1, <1>2, <2>1, <2>2, Tree
    <2>4. Front(x) \in visited
      BY <1>1, <1>2, <1>7, <2>1, <2>2 DEF Answered, WalkSound, Judged, First
    <2> QED
      BY <1>2, <1>3, <2>2, <2>3, <2>4
  <1> QED
    BY <1>4, <1>5, <1>6, <1>7

LEMMA AnsweredReread ==
    ASSUME Safe, Answered, Reread
    PROVE  Answered'
  <1> USE DEF Reread
  <1>1. UNCHANGED Elsewhere /\ UNCHANGED observed /\ phase = "climb"
    BY DEF Elsewhere
  <1>2. \A d : Held(d) => Held(d)'
    BY DEF Held, cloudVars
  <1>3. SourcesRead'
    BY DEF Answered, WalkSound, SourcesRead, Running, First, Rereading
  <1>4. Rejudged'
    BY <1>2, WalkComplete DEF Rejudged, cloudVars
  <1>5. Judged' /\ Finished'
    BY DEF Judged, Finished, First
  <1> QED
    BY <1>1, <1>3, <1>4, <1>5, AnsweredElsewhere DEF Answered, WalkSound

LEMMA AnsweredRecheck ==
    ASSUME Safe, Answered, Recheck
    PROVE  Answered'
  <1> USE DEF Recheck
  <1>1. UNCHANGED Elsewhere /\ UNCHANGED observed /\ phase = "recheck"
    BY DEF Elsewhere
  <1>2. WalkSound'
    <2>1. \A d : Held(d) => Held(d)'
      BY DEF Held, cloudVars
    <2> QED
      BY <2>1 DEF Answered, WalkSound, SourcesRead, Judged, Rejudged, Finished, Running,
         First, Rereading, Removable, cloudVars
  <1> QED
    BY <1>1, <1>2, AnsweredElsewhere DEF Answered

LEMMA AnsweredConfirm ==
    ASSUME Safe, Answered, Confirm
    PROVE  Answered'
  <1> USE DEF Confirm
  <1>1. UNCHANGED Elsewhere /\ UNCHANGED observed /\ phase = "rescan" /\ cur \in Dir
    BY DEF Elsewhere, Safe, Typed, CallTyped
  <1>2. WalkSound'
    <2>1. \A d : Held(d) => Held(d)'
      BY DEF Held, cloudVars
    <2>2. Passed(cur) \/ (Removable(cur) => Held(cur))
      BY <1>1, RefusedHeld DEF Running, Rereading
    <2>3. cur \in Above(cur)
      BY <1>1, Tree
    <2> QED
      BY <2>1, <2>2, <2>3 DEF Answered, WalkSound, SourcesRead, Judged, Rejudged, Finished,
         Running, First, Rereading, cloudVars
  <1> QED
    BY <1>1, <1>2, AnsweredElsewhere DEF Answered

LEMMA AnsweredDecide ==
    ASSUME Safe, Answered, Decide
    PROVE  Answered'
  <1> USE DEF Decide, runVars
  <1>1. UNCHANGED Elsewhere /\ UNCHANGED observed /\ phase = "recheck"
    BY DEF Elsewhere
  <1>2. WalkSound'
    <2>1. \A d : Held(d) => Held(d)'
      BY DEF Held, cloudVars
    <2> QED
      BY <2>1 DEF Answered, WalkSound, SourcesRead, Judged, Rejudged, Finished, Running,
         First, Rereading, cloudVars
  <1> QED
    BY <1>1, <1>2, AnsweredElsewhere DEF Answered
-----------------------------------------------------------------------------
(* Answered holds where a call ends.                                       *)

(* A file that was seen, still has its directory, and is away, is owed for *)
(* by its own task.                                                        *)
LEMMA HeldOwed ==
    ASSUME Safe, Answered, phase # "idle", NEW d \in Dir, Removable(d), Held(d), Left(d)
    PROVE  \E h \in File : Owes(h, d) /\ Unremembered(h) /\ h \notin key[2] /\ ToCome(Job[h])
  <1>1. PICK h \in observed \cap File : /\ d \in Above(Home[h]) /\ Home[h] \in there
                                        /\ IF Bounded(d) THEN h \in Media ELSE Home[h] = d
    BY DEF Held
  <1>2. loc[h] # "home"
    BY <1>1, Tree, CleanupAssumption DEF Left, Emptied, MediaBelow, Contents
  <1>3. loc[h] = "away"
    BY <1>1, <1>2 DEF Safe, Typed, CloudTyped, TreeSound
  <1>4. task[h] \in Moved /\ ToCome(Job[h]) /\ Unremembered(h) /\ h \notin key[2]
    BY <1>3 DEF Answered, Covered
  <1> QED
    BY <1>1, <1>4 DEF Owes, Moved

(* A call that ends as it should has answered for all its sources: what is *)
(* left above them was held by a file of a later task.                     *)
LEMMA OwingReturned ==
    ASSUME Safe, Answered, phase # "idle", Return(TRUE), UNCHANGED <<there, loc>>,
           \A f \in key[2] : Home[f] \in there =>
              \A d \in Above(Home[f]) : Removable(d) => Held(d)
    PROVE  Owing'
  <1> USE DEF Return
  <1>1. call \in File /\ call # None /\ key \in AllKeys /\ task[call] = "waiting"
    BY CleanupAssumption DEF Safe, Typed, CallTyped, TasksSound
  <1>2. \A g \in File : task'[g] = IF g = call THEN "done" ELSE task[g]
    BY DEF Safe, Typed, HostTyped
  <1>3. ASSUME NEW j, ToCome(j)
        PROVE  ToCome(j)'
    BY <1>1, <1>2, <1>3, CleanupAssumption DEF ToCome, Busy
  <1>4. \A g : Unremembered(g) /\ g \notin key[2] => Unremembered(g)'
    BY <1>1, Remembered DEF Unremembered, Safe, Typed, HostTyped
  <1>5. \A d : Left(d)' => Left(d)
    BY DEF Left, Emptied, MediaBelow, Contents
  <1>6. \A g \in File : \A d : Owes(g, d) => Owes(g, d)'
    BY <1>1, <1>2 DEF Owes
  <1>7. ASSUME NEW d \in Dir, Owed(d), Left(d)
        PROVE  Owed(d)'
    <2>1. PICK g \in File : Owes(g, d) /\ Unremembered(g) /\ (ToCome(Job[g]) \/ Called(Job[g]))
      BY <1>7 DEF Owed
    <2>2. CASE g \in key[2]
      <3>1. Removable(d) /\ Held(d)
        BY <2>1, <2>2 DEF Owes
      <3>2. PICK h \in File : Owes(h, d) /\ Unremembered(h) /\ h \notin key[2] /\ ToCome(Job[h])
        BY <1>7, <3>1, HeldOwed
      <3> QED
        BY <1>3, <1>4, <1>6, <3>2 DEF Owed
    <2>3. CASE g \notin key[2]
      <3>1. ToCome(Job[g])
        BY <1>1, <2>1, <2>3 DEF Called, Owes, Answered, Covered
      <3> QED
        BY <1>3, <1>4, <1>6, <2>1, <2>3, <3>1 DEF Owed
    <2> QED
      BY <2>2, <2>3
  <1>8. \A g \in File : task'[g] \in Moved => task[g] \in Moved
    BY <1>1, <1>2 DEF Moved
  <1>9. \A f \in File : \A d \in Above(Home[f]) : d \in Dir
    BY DEF Above
  <1> QED
    BY <1>5, <1>7, <1>8, <1>9 DEF Answered, Owing

(* Nothing is known of a call that has returned.                           *)
LEMMA IdleAnswered ==
    ASSUME phase' = "idle", call' = None
    PROVE  Covered' /\ WalkSound'
  BY DEF Covered, WalkSound, SourcesRead, Judged, Rejudged, Finished, Running, First,
     Rereading

LEMMA AnsweredNothingLeft ==
    ASSUME Safe, Answered, NothingLeft
    PROVE  Answered'
  <1> USE DEF NothingLeft
  <1>1. ASSUME NEW f \in key[2], Home[f] \in there, NEW d \in Above(Home[f]), Removable(d)
        PROVE  Held(d)
    <2>1. f \in File /\ Home[f] \in Dir
      BY CleanupAssumption DEF Safe, Typed, CallTyped, AllKeys
    <2>2. Len(Home[f]) > 1
      BY <1>1, <2>1, Tree DEF Removable, Forbidden
    <2>3. Home[f] \in visited
      BY <1>1, <2>2 DEF Answered, WalkSound, SourcesRead, Running, First, Rereading
    <2> QED
      BY <1>1, <2>3 DEF Answered, WalkSound, Rejudged, Rereading
  <1>2. Owing'
    BY <1>1, OwingReturned DEF cloudVars
  <1> QED
    BY <1>2, IdleAnswered DEF Answered, Return

LEMMA AnsweredForget ==
    ASSUME Safe, Answered, Forget
    PROVE  Answered'
  <1> USE DEF Forget
  <1>1. Owing'
    BY OwingReturned DEF Answered, WalkSound, Finished
  <1> QED
    BY <1>1, IdleAnswered DEF Answered, Return

(* A call that fails leaves its job unclean.                               *)
LEMMA FailureOwed ==
    ASSUME Safe, Answered, phase # "idle", Return(FALSE), NEW d, Owed(d),
           \A g \in File : Owes(g, d) => Home[g] \in there'
    PROVE  Owed(d)'
  <1> USE DEF Return
  <1>1. call \in File /\ call # None /\ task[call] = "waiting"
    BY CleanupAssumption DEF Safe, Typed, CallTyped, TasksSound
  <1>2. \A g \in File : task'[g] = IF g = call THEN "done" ELSE task[g]
    BY DEF Safe, Typed, HostTyped
  <1>3. ASSUME NEW j, ToCome(j) \/ Called(j)
        PROVE  ToCome(j)'
    BY <1>1, <1>2, <1>3, CleanupAssumption DEF ToCome, Called, Busy
  <1>4. \A g : Unremembered(g) => Unremembered(g)'
    BY DEF Unremembered, Keys
  <1>5. \A g \in File : Owes(g, d) => Owes(g, d)'
    BY <1>1, <1>2 DEF Owes
  <1> QED
    BY <1>3, <1>4, <1>5 DEF Owed

LEMMA AnsweredFail ==
    ASSUME Safe, Answered, Fail \/ ListGone
    PROVE  Answered'
  <1>0. Return(FALSE) /\ phase # "idle" /\ UNCHANGED <<there, loc>>
    BY DEF Fail, ListGone, cloudVars
  <1> USE <1>0
  <1>1. \A d : Left(d)' => Left(d)
    BY DEF Left, Emptied, MediaBelow, Contents
  <1>2. \A d : Owed(d) => Owed(d)'
    BY FailureOwed DEF Owes
  <1>3. \A g \in File : task'[g] \in Moved => task[g] \in Moved
    BY DEF Return, Safe, Typed, HostTyped, CallTyped, TasksSound, Moved
  <1>4. Owing'
    BY <1>1, <1>2, <1>3 DEF Answered, Owing
  <1> QED
    BY <1>4, IdleAnswered DEF Answered, Return

(* A file that holds a directory is not deleted: it was read in the second *)
(* pass, too, and what holds it was not confirmed.                         *)
LEMMA HeldStays ==
    ASSUME Safe, Delete, NEW d \in Dir, Removable(d), d \in there', Held(d)
    PROVE  Held(d)'
  <1>1. phase = "delete" /\ Running /\ Rereading /\ UNCHANGED observed
    BY DEF Delete, Running, Rereading, runVars
  <1>2. PICK h \in observed \cap File : /\ d \in Above(Home[h]) /\ Home[h] \in there
                                        /\ IF Bounded(d) THEN h \in Media ELSE Home[h] = d
    BY DEF Held
  <1>3. Home[h] \in Dir
    BY CleanupAssumption
  <1>4. CASE Bounded(d)
    <2>1. SUFFICES ASSUME Home[h] \in Doomed PROVE FALSE
      BY <1>1, <1>2, <1>4 DEF Held, Delete
    <2>2. PICK c \in confirmed : c \in Above(Home[h])
      BY <2>1 DEF Doomed
    <2>3. c \in Dir /\ Home[h] \in there \cap Below(c) /\ Harmless(c)
      BY <1>1, <1>2, <1>3, <2>2, Tree DEF Safe, Typed, CallTyped, CandsSound
    <2>4. h \in lists[Home[h]] /\ h \in Media
      BY <1>1, <1>2, <1>4, <2>3 DEF Safe, SeenSound, Counts
    <2> QED
      BY <2>3, <2>4 DEF Harmless
  <1>5. CASE ~Bounded(d)
    BY <1>1, <1>2, <1>5 DEF Held
  <1> QED
    BY <1>4, <1>5

(* What remains above something that is deleted is held.                   *)
LEMMA CutHeld ==
    ASSUME Safe, Answered, Delete, NEW d \in Dir, Removable(d), d \in there',
           NEW e \in Doomed, d \in Above(e)
    PROVE  Held(d) /\ Bounded(d)
  <1>1. phase = "delete" /\ Running /\ Rereading /\ d \notin Doomed /\ d \in there
    BY DEF Delete, Running, Rereading
  <1>2. PICK c \in confirmed : c \in Above(e)
    BY DEF Doomed
  <1>3. c \in Dir /\ e \in Dir /\ e \in there
    BY DEF Doomed, Safe, Typed, CloudTyped, CallTyped
  <1>4. c \notin Above(d) /\ Above(d) \cap confirmed = {}
    BY <1>1, <1>2 DEF Doomed
  <1>5. d \in Above(c) /\ c # d
    BY <1>2, <1>3, <1>4, Tree
  <1>6. c \in visited \cap there
    BY <1>1, <1>2, <1>3 DEF Safe, CandsSound, TreeSound
  <1>7. Held(d)
    BY <1>1, <1>4, <1>5, <1>6 DEF Answered, WalkSound, Rejudged, Safe, CandsSound
  <1> QED
    BY <1>3, <1>5, <1>7, RemovableBelow

LEMMA AnsweredDelete ==
    ASSUME Safe, Answered, Delete
    PROVE  Answered'
  <1>1. phase = "delete" /\ Running /\ Rereading /\ phase # "idle"
    BY DEF Delete, Running, Rereading
  <1>2. /\ there' = there \ Doomed
        /\ \A f \in File : loc'[f] = IF f \in Inside THEN "gone" ELSE loc[f]
        /\ UNCHANGED runVars
    BY DEF Delete
  <1>3. Safe'
    BY SafeDelete
  (* What is left is still left, or was cut, so it is held. *)
  <1>4. ASSUME NEW d \in Dir, Removable(d), Left(d)'
        PROVE  Left(d) \/ \E e \in Doomed : d \in Above(e)
    <2>1. SUFFICES ASSUME ~ \E e \in Doomed : d \in Above(e) PROVE Left(d)
      OBVIOUS
    <2>2. \A e \in Dir : e \in Below(d) => e \notin Doomed
      BY <2>1, Tree
    <2>3. \A f \in File : Home[f] \in Below(d) => loc'[f] = loc[f]
      BY <1>2, <2>2, CleanupAssumption DEF Inside
    <2>4. CASE Bounded(d)
      <3>1. MediaBelow(d)' = MediaBelow(d)
        BY <2>3, CleanupAssumption DEF MediaBelow
      <3> QED
        BY <1>2, <1>4, <2>4, <3>1 DEF Left, Emptied, Bounded
    <2>5. CASE ~Bounded(d)
      <3>1. d \in Below(d) /\ \A e \in there : IsPrefix(d, e) => e \in Below(d)
        BY Tree DEF Below, Safe, Typed, CloudTyped
      <3>2. Contents(d)' = Contents(d)
        BY <1>2, <2>2, <2>3, <3>1 DEF Contents, Safe, Typed, CloudTyped
      <3> QED
        BY <1>2, <1>4, <2>5, <3>2 DEF Left, Emptied, Bounded
    <2> QED
      BY <2>4, <2>5
  <1>5. ASSUME NEW j, ToCome(j)
        PROVE  ToCome(j)'
    <2>1. CASE phase' = "forget"
      <3>1. UNCHANGED <<task, call, unclean>>
        BY <2>1 DEF Delete, Return
      <3> QED
        BY <1>5, <3>1 DEF ToCome, Busy
    <2>2. CASE Return(FALSE)
      <3>1. call \in File /\ call # None
        BY <1>1, CleanupAssumption DEF Safe, Typed, CallTyped
      <3>2. \A g \in File : task'[g] = IF g = call THEN "done" ELSE task[g]
        BY <2>2, <3>1 DEF Return, Safe, Typed, HostTyped
      <3> QED
        BY <1>5, <2>2, <3>1, <3>2, CleanupAssumption DEF Return, ToCome, Busy
    <2> QED
      BY <2>1, <2>2 DEF Delete
  <1>6. \A g : Unremembered(g) => Unremembered(g)'
    BY DEF Delete, Return, Unremembered, Keys
  <1>7. \A g \in File : task'[g] \in Moved <=> task[g] \in Moved
    BY DEF Delete, Return, Safe, Typed, HostTyped, CallTyped, TasksSound, Moved
  <1>8. ASSUME NEW d \in Dir, Removable(d), Left(d)', Held(d)'
        PROVE  Owed(d)'
    <2>1. PICK h \in observed \cap File : /\ d \in Above(Home[h]) /\ Home[h] \in there'
                                          /\ IF Bounded(d) THEN h \in Media ELSE Home[h] = d
      BY <1>2, <1>8 DEF Held, runVars, Bounded
    <2>2. loc'[h] # "home"
      BY <1>8, <2>1, Tree, CleanupAssumption DEF Left, Emptied, MediaBelow, Contents,
         Bounded
    <2>3. loc'[h] = "away"
      BY <1>3, <2>1, <2>2 DEF Safe, Typed, CloudTyped, TreeSound
    <2>4. task[h] \in Moved /\ ToCome(Job[h]) /\ Unremembered(h)
      BY <1>1, <1>2, <2>3 DEF Answered, Covered
    <2>5. Owes(h, d)'
      BY <1>7, <1>8, <2>1, <2>4 DEF Owes, Moved, Removable, Forbidden, Bounded
    <2> QED
      BY <1>5, <1>6, <2>4, <2>5 DEF Owed
  <1>9. ASSUME NEW d \in Dir, Removable(d), Left(d)', Owed(d) \/ Held(d)
        PROVE  Owed(d)'
    <2>1. d \in there'
      BY <1>9 DEF Left
    <2>2. CASE \E e \in Doomed : d \in Above(e)
      BY <1>8, <1>9, <2>1, <2>2, CutHeld, HeldStays
    <2>3. CASE Held(d)
      BY <1>8, <1>9, <2>1, <2>3, HeldStays
    <2>4. CASE Owed(d) /\ ~ \E e \in Doomed : d \in Above(e)
      <3>1. \A g \in File : Owes(g, d) => Home[g] \in there'
        BY <1>2, <2>4 DEF Owes
      <3>2. CASE phase' = "forget"
        <4>1. UNCHANGED <<task, completed, call, key, unclean, failed>>
          BY <3>2 DEF Delete, Return
        <4>2. \A g \in File : Owes(g, d) => Owes(g, d)'
          BY <3>1, <4>1 DEF Owes
        <4> QED
          BY <1>5, <1>6, <2>4, <4>1, <4>2 DEF Owed, Called
      <3>3. CASE Return(FALSE)
        BY <1>1, <2>4, <3>1, <3>3, FailureOwed
      <3> QED
        BY <3>2, <3>3 DEF Delete
    <2> QED
      BY <1>9, <2>2, <2>3, <2>4
  <1>10. Owing'
    <2>1. SUFFICES ASSUME NEW f \in File, NEW d \in Above(Home[f]),
                          (task[f] \in Moved)', Removable(d), Left(d)'
                   PROVE  Owed(d)'
      BY DEF Owing, Removable, Forbidden, Bounded
    <2>2. d \in Dir /\ d \in there' /\ task[f] \in Moved
      BY <1>7, <2>1 DEF Above, Left
    <2>3. CASE Left(d)
      BY <1>9, <2>1, <2>2, <2>3 DEF Answered, Owing
    <2>4. CASE \E e \in Doomed : d \in Above(e)
      BY <1>9, <2>1, <2>2, <2>4, CutHeld
    <2> QED
      BY <1>4, <2>1, <2>2, <2>3, <2>4
  <1>11. CASE phase' = "forget"
    <2>1. UNCHANGED <<task, completed, call, key, unclean, failed>>
      BY <1>11 DEF Delete, Return
    <2>2. Covered'
      BY <1>1, <1>2, <1>5, <1>6, <1>11, <2>1 DEF Answered, Covered, runVars
    <2>3. Finished'
      <3>1. SUFFICES ASSUME NEW f \in key[2], Home[f] \in there', NEW d \in Above(Home[f]),
                            Removable(d)
                     PROVE  Held(d)'
        BY <2>1 DEF Finished, Removable, Forbidden, Bounded
      <3>2. f \in File /\ Home[f] \in Dir /\ Home[f] \in there /\ d \in Dir
        <4>1. key \in AllKeys
          BY <1>1, CleanupAssumption DEF Safe, Typed, CallTyped
        <4>2. f \in File /\ Home[f] \in Dir
          BY <3>1, <4>1, CleanupAssumption DEF AllKeys
        <4> QED
          BY <1>2, <3>1, <4>2, Tree
      <3>3. Len(Home[f]) > 1
        BY <3>1, <3>2, Tree DEF Removable, Forbidden
      <3>4. Home[f] \in visited
        BY <1>1, <3>3 DEF Answered, WalkSound, SourcesRead, First
      <3>5. d \in there'
        BY <1>3, <3>1 DEF Safe, TreeSound
      <3>6. Above(d) \cap confirmed = {} /\ cands = {}
        BY <1>1, <1>2, <3>5 DEF Doomed, Safe, CandsSound
      <3>7. Held(d)
        BY <1>1, <3>1, <3>2, <3>4, <3>6 DEF Answered, WalkSound, Rejudged
      <3> QED
        BY <3>1, <3>2, <3>5, <3>7, HeldStays
    <2>4. SourcesRead' /\ Judged' /\ Rejudged'
      BY <1>11 DEF SourcesRead, Judged, Rejudged, Running, First, Rereading
    <2> QED
      BY <1>10, <2>2, <2>3, <2>4 DEF Answered, WalkSound
  <1>12. CASE Return(FALSE)
    BY <1>10, <1>12, IdleAnswered DEF Answered, Return
  <1> QED
    BY <1>11, <1>12 DEF Delete

LEMMA AnsweredStutter ==
    ASSUME Safe, Answered, UNCHANGED vars
    PROVE  Answered'
  <1> USE DEF vars, cloudVars, runVars
  <1>1. Owing'
    BY OwingSame DEF Answered
  <1>2. Covered'
    BY DEF Answered, Covered, ToCome, Busy, Unremembered
  <1>3. WalkSound'
    BY DEF Answered, WalkSound, SourcesRead, Judged, Rejudged, Finished, Held, Running,
       First, Rereading
  <1> QED
    BY <1>1, <1>2, <1>3 DEF Answered

LEMMA NextAnswered == IInv /\ [Next]_vars => IInv'
  <1> SUFFICES ASSUME Safe, Answered, [Next]_vars PROVE Safe' /\ Answered'
    BY DEF IInv
  <1>1. CASE \E f \in File : Submit(f) \/ Move(f) \/ Upload(f) \/ Enter(f) \/ Acquire(f)
    BY <1>1, AnsweredSubmit, AnsweredMove, AnsweredUpload, AnsweredEnter, AnsweredAcquire,
       NextSafe
  <1>2. CASE NextSource \/ GetItem \/ Candidate \/ Reject \/ Reread \/ Recheck \/ Confirm
    BY <1>2, AnsweredNextSource, AnsweredGetItem, AnsweredCandidate, AnsweredReject,
       AnsweredReread, AnsweredRecheck, AnsweredConfirm, NextSafe
  <1>3. CASE Scan \/ Rescan
    BY <1>3, AnsweredList, NextSafe DEF Scan, Rescan
  <1>4. CASE NothingLeft \/ Decide \/ Delete \/ Forget \/ ListGone \/ Fail
    BY <1>4, AnsweredNothingLeft, AnsweredDecide, AnsweredDelete, AnsweredForget,
       AnsweredFail, NextSafe
  <1>5. CASE UNCHANGED vars
    BY <1>5, AnsweredStutter, NextSafe
  <1> QED
    BY <1>1, <1>2, <1>3, <1>4, <1>5 DEF Next

(* Every directory left empty is owed by a job that is still to come, in   *)
(* every reachable state.                                                  *)
THEOREM CleanupInvariant == Spec => []IInv
  <1>1. Init => IInv
    BY InitSafe, InitAnswered DEF IInv
  <1> QED
    BY <1>1, NextAnswered, PTL DEF Spec

(* When every task has ended and no job's last call failed, no directory   *)
(* above a moved file is left empty.                                       *)
THEOREM NothingLeftEmpty == Spec => []EmptiedGone
  <1>1. IInv => EmptiedGone
    <2> SUFFICES ASSUME IInv, phase = "idle", unclean = {},
                        \A f \in File : task[f] \in {"none", "done"},
                        NEW f \in File, NEW d \in Above(Home[f]),
                        task[f] = "done", Removable(d), d \in there, Emptied(d)
                 PROVE  FALSE
      BY DEF EmptiedGone
    <2>1. Owed(d)
      BY DEF IInv, Answered, Owing, Left, Moved
    <2>2. call = None
      BY DEF IInv, Safe, Typed, CallTyped
    <2> QED
      BY <2>1, <2>2 DEF Owed, Called, ToCome, Busy
  <1> QED
    BY <1>1, CleanupInvariant, PTL
=============================================================================
