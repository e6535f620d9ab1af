---------------------- MODULE TransferPostprocessProofs ----------------------
(***************************************************************************)
(* Proofs about TransferPostprocess, for any events, paths, plans and      *)
(* number of faults.                                                       *)
(*                                                                         *)
(* The library lock leaves one run at a time, so nothing made for an event *)
(* changes between the last check of a run and its file operation; and the *)
(* plan in a run's memory agrees with the one in the database, in all that *)
(* was frozen and all that was counted.  The second half is about the      *)
(* outputs: a version in the library names the event, and the record that  *)
(* wrote it; what is recorded of owners and asked of the cloud names the   *)
(* cloud paths a file may have been made for.                              *)
(***************************************************************************)
EXTENDS TransferPostprocess, FiniteSetTheorems, TLAPS

(* The plan in memory is the one in the database, but for "after".         *)
AgreeOf(e) ==
    pc[e] # "idle" =>
        /\ record[e].plan.before = plan[e].before
        /\ record[e].plan.clean = plan[e].clean
        /\ record[e].plan.effects = plan[e].effects

(* The file being deleted is planned, and was gone or as planned.          *)
VictimOf(e) ==
    /\ pc[e] \in {"probe", "recheck", "unlink", "forget"} =>
          /\ victim[e] \in Path \X OptVersion
          /\ plan[e].clean[victim[e][1]] # None
          /\ victim[e][2] \in {None, plan[e].clean[victim[e][1]].before}
    /\ pc[e] = "unlink" => victim[e][2] # None

(* What was compared is still there, unless another program changed it.    *)
InPlaceOf(e) ==
    /\ pc[e] = "publish" /\ By(disk[Out(e)], Event) => disk[Out(e)] = plan[e].before
    /\ pc[e] = "unlink" /\ By(disk[victim[e][1]], Event)
          => disk[victim[e][1]] = victim[e][2]

CountOf(e) ==
    /\ record[e].state = "none" => record[e].plan.effects = 0
    /\ record[e].state = "done" => record[e].plan.effects = Effects
    /\ record[e].plan.effects <= Effects
    /\ pc[e] \in {"effect", "emit", "mark"} => plan[e].effects < Effects
    /\ pc[e] = "finish" => plan[e].effects = Effects
    /\ record[e].plan.effects <= emitted[e]
    /\ pc[e] = "mark" => record[e].plan.effects < emitted[e]
    /\ emitted[e] <= record[e].plan.effects + interrupts
                     + (IF pc[e] = "mark" THEN 1 ELSE 0)

Sound(e) == AgreeOf(e) /\ VictimOf(e) /\ InPlaceOf(e) /\ CountOf(e)

(* The inductive invariant.                                                *)
IInv == TypeOK /\ \A e \in Event : Sound(e)
-----------------------------------------------------------------------------
LEMMA NoPlanTyped == NoPlan \in Plan
  <1>1. NoPlan.before \in OptVersion
    BY DEF NoPlan, OptVersion
  <1> QED
    BY <1>1 DEF NoPlan, Plan, OptVersion

LEMMA PlanEdits ==
  ASSUME NEW pl \in Plan, NEW v \in OptVersion, NEW p \in Path
  PROVE  /\ [pl EXCEPT !.sized = TRUE] \in Plan
         /\ [pl EXCEPT !.prepared = v] \in Plan
         /\ [pl EXCEPT !.after = v] \in Plan
         /\ [pl EXCEPT !.done = TRUE] \in Plan
         /\ [pl EXCEPT !.effects = @ + 1] \in Plan
         /\ Deleted(pl, p) \in Plan
  <1>1. pl.clean \in [Path -> Deletion \cup {None}] /\ pl.effects \in Nat
    BY DEF Plan
  <1>2. [pl EXCEPT !.sized = TRUE] \in Plan
    BY DEF Plan
  <1>3. [pl EXCEPT !.prepared = v] \in Plan
    BY DEF Plan
  <1>4. [pl EXCEPT !.after = v] \in Plan
    BY DEF Plan
  <1>5. [pl EXCEPT !.done = TRUE] \in Plan
    BY DEF Plan
  <1>6. [pl EXCEPT !.effects = @ + 1] \in Plan
    BY <1>1 DEF Plan
  <1>7. [pl.clean EXCEPT ![p] = None] \in [Path -> Deletion \cup {None}]
    BY <1>1
  <1>8. Deleted(pl, p) = [pl EXCEPT !.clean = [pl.clean EXCEPT ![p] = None]]
    BY DEF Deleted
  <1>9. Deleted(pl, p) \in Plan
    <2> DEFINE cl == [pl.clean EXCEPT ![p] = None]
    <2>1. cl \in [Path -> Deletion \cup {None}]
      BY <1>7
    <2> HIDE DEF cl
    <2>2. [pl EXCEPT !.clean = cl] \in Plan
      BY <2>1 DEF Plan
    <2> QED
      BY <1>8, <2>2 DEF cl
  <1> QED
    BY <1>2, <1>3, <1>4, <1>5, <1>6, <1>9

LEMMA ProbesTyped ==
  ASSUME TypeOK, NEW e \in Event, NEW n \in Readings, NEW p \in Path,
         Asked(e, p, n) # None
  PROVE  /\ Asked(e, p, n) \in Cloud /\ Identity(e, p, n) \in Cloud
         /\ Probes(e, p, n) \subseteq Cloud
  <1>1. owner[p] \in Owner \cup {None} /\ n[p] \in Cloud \cup {None}
        /\ Source[e] \in Cloud \cup {None}
    BY PostAssumption DEF TypeOK, Readings
  <1>2. owner[p] # None => owner[p].at \in Cloud
    BY <1>1 DEF Owner
  <1>3. Asked(e, p, n) \in Cloud
    BY <1>1, <1>2 DEF Asked
  <1> QED
    BY <1>2, <1>3 DEF Identity, Probes

LEMMA BuildTyped ==
  ASSUME TypeOK, NEW e \in Event, NEW n \in Readings
  PROVE  Build(e, n) \in Plan /\ Build(e, n).effects = 0
  <1> DEFINE del(p) == [before |-> disk[p], owner |-> owner[p],
                        at |-> Identity(e, p, n), probes |-> Probes(e, p, n),
                        siblings |-> Entries(Dir[p])
                              \cup (IF Dir[p] = Dir[Out(e)] THEN {Out(e)} ELSE {})]
  <1>1. Out(e) \in Path
    BY PostAssumption DEF Out
  <1>2. ASSUME NEW p \in Path, disk[p] # None, Asked(e, p, n) # None
        PROVE  del(p) \in Deletion
    <2>1. disk[p] \in Version /\ owner[p] \in Owner \cup {None}
      BY <1>2 DEF TypeOK, OptVersion
    <2>2. Probes(e, p, n) \subseteq Cloud /\ Identity(e, p, n) \in Cloud
      BY <1>2, ProbesTyped
    <2>3. Entries(Dir[p]) \subseteq Path \cup Event
      BY DEF Entries
    <2> QED
      BY <2>1, <2>2, <2>3, <1>1 DEF Deletion
  <1>3. disk[Out(e)] \in OptVersion /\ owner[Out(e)] \in Owner \cup {None}
    BY <1>1 DEF TypeOK
  <1> DEFINE cl == [p \in Path |-> IF p \in Candidates(e) /\ disk[p] # None
                                      /\ Asked(e, p, n) # None
                                   THEN del(p) ELSE None]
  <1>4. cl \in [Path -> Deletion \cup {None}]
    BY <1>2
  <1>5. Build(e, n) = [NoPlan EXCEPT !.sized = e \notin Unsized, !.before = disk[Out(e)],
                                     !.owner = owner[Out(e)], !.clean = cl]
    BY DEF Build
  <1> HIDE DEF cl
  <1>6. Build(e, n) = [sized |-> e \notin Unsized, before |-> disk[Out(e)],
                       owner |-> owner[Out(e)], prepared |-> None, after |-> None,
                       done |-> FALSE, clean |-> cl, effects |-> 0]
    BY <1>5 DEF NoPlan
  <1>7. None \in OptVersion /\ (e \notin Unsized) \in BOOLEAN
    BY DEF OptVersion
  <1> QED
    BY <1>3, <1>4, <1>6, <1>7 DEF Plan

THEOREM InitIInv == Init => IInv
  <1> SUFFICES ASSUME Init PROVE IInv
    OBVIOUS
  <1>1. TypeOK
    BY NoPlanTyped, PostAssumption DEF Init, TypeOK, OptVersion, Stages
  <1>2. \A e \in Event : Sound(e)
    BY PostAssumption DEF Init, Sound, AgreeOf, VictimOf, InPlaceOf, CountOf, NoPlan
  <1> QED
    BY <1>1, <1>2 DEF IInv
-----------------------------------------------------------------------------
(* One run at a time.                                                      *)
LEMMA Alone ==
  ASSUME TypeOK, NEW e \in Event, NEW f \in Event, pc[e] # "idle", f # e
  PROVE  pc[f] = "idle" /\ holder = e
  BY DEF TypeOK

LEMMA NobodyRuns ==
  ASSUME TypeOK, NEW e \in Event, LibraryFree
  PROVE  pc[e] = "idle"
  BY PostAssumption DEF TypeOK, LibraryFree

(* The records, plans and stages of runs, with the lock.                   *)
RunTypes ==
    /\ record \in [Event -> [state: {"none", "pending", "superseded", "done"}, plan: Plan]]
    /\ plan \in [Event -> Plan]
    /\ pc \in [Event -> Stages]
    /\ holder \in Event \cup {None}
    /\ \A e \in Event : pc[e] # "idle" <=> holder = e

(* A step changes nothing of the other events.                             *)
Apart(e) ==
    /\ \A f \in Event : f # e => pc'[f] = pc[f] /\ record'[f] = record[f]
    /\ \A f \in Event : f # e => emitted'[f] = emitted[f]
    /\ interrupts' \in {interrupts, interrupts + 1}

LEMMA OthersSound ==
  ASSUME IInv, NEW e \in Event, Apart(e), pc[e] # "idle" \/ LibraryFree,
         NEW f \in Event, f # e
  PROVE  Sound(f)'
  <1>1. TypeOK /\ Sound(f)
    BY DEF IInv
  <1>2. pc[f] = "idle" /\ pc'[f] = "idle"
    BY <1>1, Alone, NobodyRuns DEF Apart
  <1>3. record'[f] = record[f] /\ emitted'[f] = emitted[f]
    BY DEF Apart
  <1>4. interrupts \in Nat /\ emitted[f] \in Nat /\ record[f].plan \in Plan
    BY <1>1 DEF TypeOK
  <1>5. record[f].plan.effects \in Nat
    BY <1>4 DEF Plan
  <1>6. CountOf(f)'
    BY <1>1, <1>2, <1>3, <1>4, <1>5 DEF Sound, CountOf, Apart
  <1> QED
    BY <1>2, <1>6 DEF Sound, AgreeOf, VictimOf, InPlaceOf

LEMMA GoEffect ==
  ASSUME TypeOK, NEW e \in Event, pc[e] # "idle", NEW stage \in Stages \ {"idle"},
         Go(e, stage), UNCHANGED <<record, holder>>, plan' \in [Event -> Plan]
  PROVE  /\ RunTypes' /\ pc'[e] = stage
         /\ \A f \in Event : f # e => pc'[f] = pc[f] /\ record'[f] = record[f]
  BY DEF TypeOK, RunTypes, Go

LEMMA SaveEffect ==
  ASSUME TypeOK, NEW e \in Event, NEW pl \in Plan, NEW stage \in Stages \ {"idle"},
         Save(e, pl, stage),
         \/ pc[e] # "idle" /\ UNCHANGED holder
         \/ LibraryFree /\ holder' = e
  PROVE  /\ RunTypes' /\ pc'[e] = stage /\ plan'[e] = pl
         /\ record'[e] = [state |-> "pending", plan |-> pl]
         /\ \A f \in Event : f # e => pc'[f] = pc[f] /\ record'[f] = record[f]
  <1>1. record' = [record EXCEPT ![e] = [state |-> "pending", plan |-> pl]]
        /\ plan' = [plan EXCEPT ![e] = pl] /\ pc' = [pc EXCEPT ![e] = stage]
    BY DEF Save, Keep, Go
  <1>2. \A f \in Event : pc'[f] # "idle" <=> holder' = f
    BY <1>1, NobodyRuns DEF TypeOK
  <1>3. holder' \in Event \cup {None}
    BY DEF TypeOK
  <1> QED
    BY <1>1, <1>2, <1>3 DEF TypeOK, RunTypes

LEMMA EndEffect ==
  ASSUME TypeOK, NEW e \in Event, pc[e] # "idle", End(e),
         \/ UNCHANGED record
         \/ Keep(e, plan[e], "superseded")
         \/ Keep(e, plan[e], "done")
  PROVE  /\ RunTypes' /\ pc'[e] = "idle"
         /\ victim' \in [Event -> (Path \X OptVersion) \cup {None}]
         /\ \A f \in Event : f # e => pc'[f] = pc[f] /\ record'[f] = record[f]
  <1>1. plan' = [plan EXCEPT ![e] = NoPlan] /\ pc' = [pc EXCEPT ![e] = "idle"]
        /\ holder' = None /\ victim' = [victim EXCEPT ![e] = None]
    BY DEF End, Go
  <1>2. \A f \in Event : pc'[f] # "idle" <=> holder' = f
    BY <1>1, Alone, PostAssumption DEF TypeOK
  <1>3. record' \in [Event -> [state: {"none", "pending", "superseded", "done"}, plan: Plan]]
        /\ \A f \in Event : f # e => record'[f] = record[f]
    BY DEF TypeOK, Keep
  <1>4. "idle" \in Stages
    BY DEF Stages
  <1> QED
    BY <1>1, <1>2, <1>3, <1>4, NoPlanTyped DEF TypeOK, RunTypes

(* A run that ends leaves its event sound.                                 *)
LEMMA EndSound ==
  ASSUME IInv, NEW e \in Event, pc[e] # "idle", End(e), UNCHANGED emitted,
         \/ /\ UNCHANGED record
            /\ \/ UNCHANGED interrupts /\ pc[e] # "mark"
               \/ interrupts' = interrupts + 1
         \/ /\ UNCHANGED interrupts
            /\ \/ pc[e] # "mark" /\ Keep(e, plan[e], "superseded")
               \/ pc[e] = "finish" /\ Keep(e, plan[e], "done")
  PROVE  Sound(e)'
  <1>1. TypeOK /\ Sound(e)
    BY DEF IInv
  <1>2. pc'[e] = "idle"
    BY <1>1, EndEffect
  <1>3. interrupts \in Nat /\ emitted[e] \in Nat /\ record[e].plan.effects \in Nat
        /\ Effects \in Nat
    BY <1>1, PostAssumption DEF TypeOK, Plan
  <1>4. \/ record'[e] = record[e]
        \/ record'[e] = [state |-> "superseded", plan |-> plan[e]]
        \/ record'[e] = [state |-> "done", plan |-> plan[e]] /\ pc[e] = "finish"
    BY <1>1 DEF Keep, TypeOK
  <1>5. record[e].plan.effects = plan[e].effects
    BY <1>1 DEF Sound, AgreeOf
  <1>6. CountOf(e)'
    BY <1>1, <1>2, <1>3, <1>4, <1>5 DEF Sound, CountOf
  <1> QED
    BY <1>2, <1>6 DEF Sound, AgreeOf, VictimOf, InPlaceOf
-----------------------------------------------------------------------------
(* What TypeOK says of the rest.                                           *)
FileTypes ==
    /\ cloud \in [Cloud -> Event \cup {None}]
    /\ arrived \subseteq Event /\ trash \subseteq Event
    /\ disk \in [Path -> OptVersion]
    /\ staged \in [Event -> OptVersion]
    /\ owner \in [Path -> Owner \cup {None}]
    /\ victim \in [Event -> (Path \X OptVersion) \cup {None}]
    /\ emitted \in [Event -> Nat]
    /\ made \in [Event \cup {Other} -> Nat]
    /\ {interrupts, tampers, removals} \subseteq Nat

LEMMA TypeParts == (TypeOK <=> RunTypes /\ FileTypes) /\ (TypeOK' <=> RunTypes' /\ FileTypes')
  BY DEF TypeOK, RunTypes, FileTypes

LEMMA Facts ==
  ASSUME IInv, NEW e \in Event
  PROVE  /\ TypeOK /\ FileTypes /\ Sound(e)
         /\ plan[e] \in Plan /\ record[e].plan \in Plan
         /\ plan[e].effects \in Nat /\ record[e].plan.effects \in Nat
         /\ emitted[e] \in Nat /\ interrupts \in Nat /\ Effects \in Nat
         /\ Out(e) \in Path /\ disk[Out(e)] \in OptVersion /\ staged[e] \in OptVersion
  <1>1. TypeOK /\ Sound(e)
    BY DEF IInv
  <1>2. plan[e] \in Plan /\ record[e].plan \in Plan
    BY <1>1 DEF TypeOK
  <1>3. Out(e) \in Path
    BY PostAssumption DEF Out
  <1> QED
    BY <1>1, <1>2, <1>3, TypeParts, PostAssumption DEF FileTypes, Plan

LEMMA AfterFacts ==
  ASSUME NEW pl
  PROVE  /\ After(pl) \in {"finish", "check"}
         /\ After(pl) \in Stages \ {"idle"}
         /\ After(pl) = "finish" => pl.effects = Effects
  BY DEF After, Complete, Stages

LEMMA SupersedeStep ==
  ASSUME IInv, NEW e \in Event, pc[e] \notin {"idle", "mark"}, Supersede(e),
         UNCHANGED <<disk, owner, emitted, made, interrupts, envVars>>,
         staged' \in [Event -> OptVersion]
  PROVE  TypeOK' /\ Sound(e)' /\ Apart(e)
  <1>1. Keep(e, plan[e], "superseded") /\ End(e)
    BY DEF Supersede
  <1>2. TypeOK /\ FileTypes
    BY Facts
  <1>3. Sound(e)'
    BY <1>1, EndSound
  <1>4. RunTypes' /\ victim' \in [Event -> (Path \X OptVersion) \cup {None}]
        /\ \A f \in Event : f # e => pc'[f] = pc[f] /\ record'[f] = record[f]
    BY <1>1, <1>2, EndEffect
  <1>5. FileTypes'
    BY <1>2, <1>4 DEF FileTypes, envVars
  <1> QED
    BY <1>3, <1>4, <1>5, TypeParts DEF Apart

LEMMA SaveStep ==
  ASSUME IInv, NEW e \in Event, NEW pl \in Plan, NEW stage \in Stages \ {"idle"},
         Save(e, pl, stage),
         \/ pc[e] # "idle" /\ UNCHANGED holder
         \/ LibraryFree /\ holder' = e,
         UNCHANGED <<emitted, interrupts>>,
         stage \notin {"probe", "recheck", "unlink", "forget", "publish",
                       "effect", "emit", "mark"},
         stage = "finish" => pl.effects = Effects,
         \/ pl.effects = record[e].plan.effects /\ pc[e] # "mark"
         \/ pl.effects = record[e].plan.effects + 1 /\ pc[e] = "mark"
  PROVE  RunTypes' /\ Sound(e)' /\ Apart(e)
  <1>1. TypeOK /\ Sound(e)
    BY Facts
  <1>2. /\ RunTypes' /\ pc'[e] = stage /\ plan'[e] = pl
        /\ record'[e] = [state |-> "pending", plan |-> pl]
        /\ \A f \in Event : f # e => pc'[f] = pc[f] /\ record'[f] = record[f]
    BY <1>1, SaveEffect
  <1>3. pc[e] = "mark" => record[e].plan.effects < Effects
    BY <1>1 DEF Sound, AgreeOf, CountOf
  <1>4. CountOf(e)'
    <2>1. record'[e].state = "pending" /\ record'[e].plan.effects = pl.effects
      BY <1>2
    <2>2. /\ record[e].plan.effects <= emitted[e] /\ record[e].plan.effects <= Effects
          /\ emitted[e] <= record[e].plan.effects + interrupts
                           + (IF pc[e] = "mark" THEN 1 ELSE 0)
      BY <1>1 DEF Sound, CountOf
    <2>3. pc[e] = "mark" => record[e].plan.effects < emitted[e]
      BY <1>1 DEF Sound, CountOf
    <2> QED
      BY <1>2, <1>3, <2>1, <2>2, <2>3, Facts DEF CountOf
  <1>5. AgreeOf(e)' /\ VictimOf(e)' /\ InPlaceOf(e)'
    BY <1>2 DEF AgreeOf, VictimOf, InPlaceOf
  <1> QED
    BY <1>2, <1>4, <1>5 DEF Sound, Apart

(* A step that goes on without saving; its files are the caller's care.    *)
LEMMA GoStep ==
  ASSUME IInv, NEW e \in Event, pc[e] \notin {"idle", "mark"},
         NEW stage \in Stages \ {"idle"}, Go(e, stage),
         UNCHANGED <<record, holder, emitted, interrupts>>,
         plan' = plan \/ \E v \in OptVersion : plan' = [plan EXCEPT ![e].after = v],
         VictimOf(e)', InPlaceOf(e)',
         stage # "mark",
         stage \in {"effect", "emit"} => plan[e].effects < Effects,
         stage = "finish" => plan[e].effects = Effects
  PROVE  RunTypes' /\ Sound(e)' /\ Apart(e)
  <1>1. TypeOK /\ Sound(e)
    BY Facts
  <1>2. /\ plan' \in [Event -> Plan] /\ plan'[e].before = plan[e].before
        /\ plan'[e].clean = plan[e].clean /\ plan'[e].effects = plan[e].effects
    <2>1. CASE plan' = plan
      BY <1>1, <2>1 DEF TypeOK
    <2>2. CASE \E v \in OptVersion : plan' = [plan EXCEPT ![e].after = v]
      <3>1. PICK v \in OptVersion : plan' = [plan EXCEPT ![e].after = v]
        BY <2>2
      <3>2. plan' = [plan EXCEPT ![e] = [plan[e] EXCEPT !.after = v]]
        BY <3>1
      <3>3. [plan[e] EXCEPT !.after = v] \in Plan
        BY Facts DEF Plan
      <3> QED
        BY <1>1, <3>2, <3>3, Facts DEF TypeOK, Plan
    <2> QED
      BY <2>1, <2>2
  <1>3. /\ RunTypes' /\ pc'[e] = stage
        /\ \A f \in Event : f # e => pc'[f] = pc[f] /\ record'[f] = record[f]
    BY <1>1, <1>2, GoEffect
  <1>4. CountOf(e)' /\ AgreeOf(e)'
    BY <1>1, <1>2, <1>3, Facts DEF Sound, CountOf, AgreeOf
  <1> QED
    BY <1>3, <1>4 DEF Sound, Apart

Good(e) == TypeOK' /\ Sound(e)' /\ Apart(e)

LEMMA BeginStep ==
  ASSUME IInv, NEW e \in Event, Begin(e)
  PROVE  Good(e)
  <1> DEFINE plan_(n) == IF record[e].state = "none" THEN Build(e, n) ELSE record[e].plan
             st_(pl) == IF pl.sized \/ Started(pl) THEN "check" ELSE "size"
  <1>1. TypeOK /\ FileTypes /\ Sound(e)
    BY Facts
  <1>2. PICK n \in Readings : Save(e, plan_(n), st_(plan_(n)))
    BY DEF Begin
  <1> DEFINE pl == plan_(n)
             st == st_(pl)
  <1>3. pl \in Plan /\ pl.effects = record[e].plan.effects
    BY <1>1, BuildTyped, Facts DEF Sound, CountOf
  <1>4. st \in Stages \ {"idle"} /\ st \in {"check", "size"}
    BY DEF Stages
  <1>5. Save(e, pl, st)
    BY <1>2
  <1> HIDE DEF pl, st
  <1>6. LibraryFree /\ holder' = e /\ pc[e] = "idle"
        /\ UNCHANGED <<disk, staged, owner, victim, emitted, made, interrupts, envVars>>
    BY DEF Begin
  <1>7. RunTypes' /\ Sound(e)' /\ Apart(e)
    BY <1>3, <1>4, <1>5, <1>6, SaveStep
  <1> QED
    BY <1>1, <1>6, <1>7, TypeParts DEF Good, FileTypes, envVars

LEMMA ReopenStep ==
  ASSUME IInv, NEW e \in Event, Reopen(e)
  PROVE  Good(e)
  <1> DEFINE pl == [record[e].plan EXCEPT !.sized = TRUE]
  <1>1. TypeOK /\ FileTypes /\ Sound(e)
    BY Facts
  <1>2. pl \in Plan /\ pl.effects = record[e].plan.effects
    BY Facts DEF Plan
  <1>3. Save(e, pl, "check") /\ LibraryFree /\ holder' = e /\ pc[e] = "idle"
    BY DEF Reopen
  <1> HIDE DEF pl
  <1>4. UNCHANGED <<disk, staged, owner, victim, emitted, made, interrupts, envVars>>
    BY DEF Reopen
  <1>5. "check" \in Stages \ {"idle"}
    BY DEF Stages
  <1>6. RunTypes' /\ Sound(e)' /\ Apart(e)
    BY <1>2, <1>3, <1>4, <1>5, SaveStep
  <1> QED
    BY <1>1, <1>4, <1>6, TypeParts DEF Good, FileTypes, envVars

LEMMA FreezeSizeStep ==
  ASSUME IInv, NEW e \in Event, FreezeSize(e)
  PROVE  Good(e)
  <1> DEFINE pl == [plan[e] EXCEPT !.sized = TRUE]
  <1>1. TypeOK /\ FileTypes /\ Sound(e) /\ pc[e] = "size"
    BY Facts DEF FreezeSize
  <1>2. UNCHANGED <<disk, staged, owner, emitted, made, interrupts, envVars>>
    BY DEF FreezeSize
  <1>3. CASE Current(e)
    <2>1. Save(e, pl, "check") /\ UNCHANGED <<holder, victim>>
      BY <1>3 DEF FreezeSize
    <2>2. pl \in Plan /\ pl.effects = record[e].plan.effects
      BY <1>1, Facts DEF Plan, Sound, AgreeOf
    <2>3. "check" \in Stages \ {"idle"}
      BY DEF Stages
    <2> HIDE DEF pl
    <2>4. RunTypes' /\ Sound(e)' /\ Apart(e)
      BY <1>1, <1>2, <2>1, <2>2, <2>3, SaveStep
    <2> QED
      BY <1>1, <1>2, <2>1, <2>4, TypeParts DEF Good, FileTypes, envVars
  <1>4. CASE ~Current(e)
    <2>1. Supersede(e) /\ staged' \in [Event -> OptVersion]
      BY <1>1, <1>2, <1>4 DEF FreezeSize, FileTypes
    <2> QED
      BY <1>1, <1>2, <2>1, SupersedeStep DEF Good
  <1> QED
    BY <1>3, <1>4

LEMMA CheckStep ==
  ASSUME IInv, NEW e \in Event, Check(e)
  PROVE  Good(e)
  <1>1. TypeOK /\ FileTypes /\ Sound(e) /\ pc[e] = "check"
    BY Facts DEF Check
  <1>2. UNCHANGED <<disk, staged, owner, emitted, made, interrupts, envVars>>
    BY DEF Check
  <1>3. CASE Current(e)
    <2> DEFINE st == IF ~plan[e].done THEN "write"
                     ELSE IF Undeleted(plan[e]) # {} THEN "delete"
                     ELSE IF plan[e].effects < Effects THEN "effect" ELSE "finish"
    <2>1. Go(e, st) /\ UNCHANGED <<record, holder, plan, victim>>
      BY <1>3 DEF Check
    <2>2. st \in Stages \ {"idle"} /\ st \in {"write", "delete", "effect", "finish"}
      BY DEF Stages
    <2>3. plan[e].effects <= Effects
      BY <1>1, Facts DEF Sound, AgreeOf, CountOf
    <2>4. /\ st = "effect" => plan[e].effects < Effects
          /\ st = "finish" => plan[e].effects = Effects
      BY <2>3, Facts
    <2> HIDE DEF st
    <2>5. pc'[e] = st
      BY <1>1, <2>1 DEF Go, TypeOK
    <2>6. VictimOf(e)' /\ InPlaceOf(e)'
      BY <2>2, <2>5 DEF VictimOf, InPlaceOf
    <2>7. RunTypes' /\ Sound(e)' /\ Apart(e)
      BY <1>1, <1>2, <2>1, <2>2, <2>4, <2>6, GoStep
    <2> QED
      BY <1>1, <1>2, <2>1, <2>7, TypeParts DEF Good, FileTypes, envVars
  <1>4. CASE ~Current(e)
    <2>1. Supersede(e) /\ staged' \in [Event -> OptVersion]
      BY <1>1, <1>2, <1>4 DEF Check, FileTypes
    <2> QED
      BY <1>1, <1>2, <2>1, SupersedeStep DEF Good
  <1> QED
    BY <1>3, <1>4

LEMMA WriteStep ==
  ASSUME IInv, NEW e \in Event, Write(e)
  PROVE  Good(e)
  <1>1. TypeOK /\ FileTypes /\ Sound(e) /\ pc[e] = "write"
    BY Facts DEF Write
  <1>2. UNCHANGED <<disk, staged, owner, emitted, made, interrupts, envVars>>
    BY DEF Write
  <1>3. CASE Supersede(e)
    <2>1. staged' \in [Event -> OptVersion]
      BY <1>1, <1>2 DEF FileTypes
    <2> QED
      BY <1>1, <1>2, <1>3, <2>1, SupersedeStep DEF Good
  <1>4. ASSUME NEW st \in {"complete", "confirm", "prepare"}, Go(e, st),
               UNCHANGED <<record, holder, victim>>,
               plan' = plan \/ plan' = [plan EXCEPT ![e].after = disk[Out(e)]]
        PROVE  Good(e)
    <2>1. st \in Stages \ {"idle"}
      BY DEF Stages
    <2>2. pc'[e] = st
      BY <1>1, <1>4 DEF Go, TypeOK
    <2>3. VictimOf(e)' /\ InPlaceOf(e)'
      BY <2>2 DEF VictimOf, InPlaceOf
    <2>4. plan' = plan \/ \E v \in OptVersion : plan' = [plan EXCEPT ![e].after = v]
      BY <1>4, Facts
    <2>5. RunTypes' /\ Sound(e)' /\ Apart(e)
      BY <1>1, <1>2, <1>4, <2>1, <2>3, <2>4, GoStep
    <2> QED
      BY <1>1, <1>2, <1>4, <2>5, TypeParts DEF Good, FileTypes, envVars
  <1>5. CASE Published(e)
    BY <1>4, <1>5 DEF Write
  <1>6. CASE ~Published(e) /\ Untouched(e)
    BY <1>4, <1>6 DEF Write
  <1>7. CASE ~Published(e) /\ ~Untouched(e)
    BY <1>3, <1>7 DEF Write
  <1> QED
    BY <1>5, <1>6, <1>7

LEMMA PrepareStep ==
  ASSUME IInv, NEW e \in Event, Prepare(e)
  PROVE  Good(e)
  <1>1. TypeOK /\ FileTypes /\ Sound(e) /\ pc[e] = "prepare"
    BY Facts DEF Prepare
  <1>2. Go(e, "prepared")
        /\ UNCHANGED <<disk, owner, record, holder, plan, victim, emitted, interrupts, envVars>>
    BY DEF Prepare, dbVars
  <1>3. made[e] + 1 \in Nat \ {0} /\ <<e, made[e] + 1>> \in OptVersion
    BY <1>1 DEF FileTypes, OptVersion, Version
  <1>4. made' \in [Event \cup {Other} -> Nat] /\ staged' \in [Event -> OptVersion]
    BY <1>1, <1>3 DEF Prepare, FileTypes
  <1>5. pc'[e] = "prepared"
    BY <1>1, <1>2 DEF Go, TypeOK
  <1>6. VictimOf(e)' /\ InPlaceOf(e)'
    BY <1>5 DEF VictimOf, InPlaceOf
  <1>7. "prepared" \in Stages \ {"idle"}
    BY DEF Stages
  <1>8. RunTypes' /\ Sound(e)' /\ Apart(e)
    BY <1>1, <1>2, <1>6, <1>7, GoStep
  <1> QED
    BY <1>1, <1>2, <1>4, <1>8, TypeParts DEF Good, FileTypes, envVars

LEMMA SavePreparedStep ==
  ASSUME IInv, NEW e \in Event, SavePrepared(e)
  PROVE  Good(e)
  <1> DEFINE pl == [plan[e] EXCEPT !.prepared = staged[e]]
  <1>1. TypeOK /\ FileTypes /\ Sound(e) /\ pc[e] = "prepared"
    BY Facts DEF SavePrepared
  <1>2. Save(e, pl, "confirm")
        /\ UNCHANGED <<disk, staged, owner, holder, victim, emitted, made, interrupts, envVars>>
    BY DEF SavePrepared
  <1>3. pl \in Plan /\ pl.effects = record[e].plan.effects
    BY <1>1, Facts DEF Plan, Sound, AgreeOf
  <1>4. "confirm" \in Stages \ {"idle"}
    BY DEF Stages
  <1> HIDE DEF pl
  <1>5. RunTypes' /\ Sound(e)' /\ Apart(e)
    BY <1>1, <1>2, <1>3, <1>4, SaveStep
  <1> QED
    BY <1>1, <1>2, <1>5, TypeParts DEF Good, FileTypes, envVars

LEMMA GuardStep ==
  ASSUME IInv, NEW e \in Event, NEW holds, NEW stage \in {"confirm", "compare"},
         NEW next \in {"compare", "publish"}, Guard(e, stage, holds, next),
         holds /\ next = "publish" => disk[Out(e)] = plan[e].before
  PROVE  Good(e)
  <1>1. TypeOK /\ FileTypes /\ Sound(e) /\ pc[e] = stage
    BY Facts DEF Guard
  <1>2. UNCHANGED <<disk, owner, emitted, made, interrupts, envVars>>
    BY DEF Guard
  <1>3. CASE holds
    <2>1. Go(e, next) /\ UNCHANGED <<staged, record, holder, plan, victim>>
      BY <1>3 DEF Guard
    <2>2. next \in Stages \ {"idle"}
      BY DEF Stages
    <2>3. pc'[e] = next
      BY <1>1, <2>1 DEF Go, TypeOK
    <2>4. VictimOf(e)' /\ InPlaceOf(e)'
      BY <1>2, <1>3, <2>1, <2>3 DEF VictimOf, InPlaceOf
    <2>5. RunTypes' /\ Sound(e)' /\ Apart(e)
      BY <1>1, <1>2, <2>1, <2>2, <2>4, GoStep
    <2> QED
      BY <1>1, <1>2, <2>1, <2>5, TypeParts DEF Good, FileTypes, envVars
  <1>4. CASE ~holds
    <2>1. Supersede(e) /\ staged' = [staged EXCEPT ![e] = None]
      BY <1>4 DEF Guard
    <2>2. staged' \in [Event -> OptVersion]
      BY <1>1, <2>1 DEF FileTypes, OptVersion
    <2> QED
      BY <1>1, <1>2, <2>1, <2>2, SupersedeStep DEF Good
  <1> QED
    BY <1>3, <1>4

LEMMA ConfirmStep ==
  ASSUME IInv, NEW e \in Event, Confirm(e)
  PROVE  Good(e)
  BY GuardStep DEF Confirm

LEMMA CompareStep ==
  ASSUME IInv, NEW e \in Event, Compare(e)
  PROVE  Good(e)
  BY GuardStep DEF Compare

LEMMA PublishStep ==
  ASSUME IInv, NEW e \in Event, Publish(e)
  PROVE  Good(e)
  <1>1. TypeOK /\ FileTypes /\ Sound(e) /\ pc[e] = "publish"
    BY Facts DEF Publish
  <1>2. Go(e, "verify")
        /\ UNCHANGED <<owner, record, holder, plan, victim, emitted, made, interrupts, envVars>>
    BY DEF Publish, dbVars
  <1>3. disk' \in [Path -> OptVersion] /\ staged' \in [Event -> OptVersion]
    BY <1>1, Facts DEF Publish, FileTypes, OptVersion
  <1>4. pc'[e] = "verify"
    BY <1>1, <1>2 DEF Go, TypeOK
  <1>5. VictimOf(e)' /\ InPlaceOf(e)'
    BY <1>4 DEF VictimOf, InPlaceOf
  <1>6. "verify" \in Stages \ {"idle"}
    BY DEF Stages
  <1>7. RunTypes' /\ Sound(e)' /\ Apart(e)
    BY <1>1, <1>2, <1>5, <1>6, GoStep
  <1> QED
    BY <1>1, <1>2, <1>3, <1>7, TypeParts DEF Good, FileTypes, envVars

LEMMA VerifyStep ==
  ASSUME IInv, NEW e \in Event, Verify(e)
  PROVE  Good(e)
  <1>1. TypeOK /\ FileTypes /\ Sound(e) /\ pc[e] = "verify"
    BY Facts DEF Verify
  <1>2. UNCHANGED <<disk, staged, owner, emitted, made, interrupts, envVars>>
    BY DEF Verify
  <1>3. CASE disk[Out(e)] = plan[e].prepared
    <2>1. Go(e, "complete") /\ UNCHANGED <<record, holder, victim>>
          /\ plan' = [plan EXCEPT ![e].after = disk[Out(e)]]
      BY <1>3 DEF Verify
    <2>2. \E v \in OptVersion : plan' = [plan EXCEPT ![e].after = v]
      BY <2>1, Facts
    <2>3. pc'[e] = "complete"
      BY <1>1, <2>1 DEF Go, TypeOK
    <2>4. VictimOf(e)' /\ InPlaceOf(e)'
      BY <2>3 DEF VictimOf, InPlaceOf
    <2>5. "complete" \in Stages \ {"idle"}
      BY DEF Stages
    <2>6. RunTypes' /\ Sound(e)' /\ Apart(e)
      BY <1>1, <1>2, <2>1, <2>2, <2>4, <2>5, GoStep
    <2> QED
      BY <1>1, <1>2, <2>1, <2>6, TypeParts DEF Good, FileTypes, envVars
  <1>4. CASE disk[Out(e)] # plan[e].prepared
    <2>1. Supersede(e) /\ staged' \in [Event -> OptVersion]
      BY <1>1, <1>2, <1>4 DEF Verify, FileTypes
    <2> QED
      BY <1>1, <1>2, <2>1, SupersedeStep DEF Good
  <1> QED
    BY <1>3, <1>4

LEMMA CompleteWriteStep ==
  ASSUME IInv, NEW e \in Event, CompleteWrite(e)
  PROVE  Good(e)
  <1> DEFINE pl == [plan[e] EXCEPT !.done = TRUE]
  <1>1. TypeOK /\ FileTypes /\ Sound(e) /\ pc[e] = "complete"
    BY Facts DEF CompleteWrite
  <1>2. Save(e, pl, After(pl))
        /\ owner' = [owner EXCEPT ![Out(e)] = [event |-> e, at |-> Target[e],
                                                  print |-> pl.after]]
        /\ UNCHANGED <<disk, staged, holder, victim, emitted, made, interrupts, envVars>>
    BY DEF CompleteWrite
  <1>3. pl \in Plan /\ pl.effects = record[e].plan.effects
    BY <1>1, Facts DEF Plan, Sound, AgreeOf
  <1> HIDE DEF pl
  <1>4. pl.after \in OptVersion
    BY <1>3 DEF Plan
  <1>5. [event |-> e, at |-> Target[e], print |-> pl.after] \in Owner
    BY <1>4, PostAssumption DEF Owner
  <1>6. owner' \in [Path -> Owner \cup {None}]
    BY <1>1, <1>2, <1>5 DEF FileTypes
  <1>7. RunTypes' /\ Sound(e)' /\ Apart(e)
    BY <1>1, <1>2, <1>3, AfterFacts, SaveStep
  <1> QED
    BY <1>1, <1>2, <1>6, <1>7, TypeParts DEF Good, FileTypes, envVars

(* A file that is skipped, or was deleted, is struck off the plan.         *)
LEMMA SkipStep ==
  ASSUME IInv, NEW e \in Event, NEW p \in Path, Skip(e, p), pc[e] \notin {"idle", "mark"},
         UNCHANGED <<disk, staged, emitted, made, interrupts, envVars>>,
         owner' \in [Path -> Owner \cup {None}]
  PROVE  Good(e)
  <1> DEFINE pl == Deleted(plan[e], p)
  <1>1. TypeOK /\ FileTypes /\ Sound(e)
    BY Facts
  <1>2. Save(e, pl, After(pl)) /\ UNCHANGED <<holder, victim>>
    BY DEF Skip
  <1>3. None \in OptVersion
    BY DEF OptVersion
  <1>4. pl \in Plan
    BY <1>3, Facts, PlanEdits
  <1>5. pl.effects = record[e].plan.effects
    BY <1>1, Facts DEF Plan, Deleted, Sound, AgreeOf
  <1> HIDE DEF pl
  <1>6. RunTypes' /\ Sound(e)' /\ Apart(e)
    BY <1>1, <1>2, <1>4, <1>5, AfterFacts, SaveStep
  <1> QED
    BY <1>1, <1>2, <1>6, TypeParts DEF Good, FileTypes, envVars

LEMMA DeleteStep ==
  ASSUME IInv, NEW e \in Event, Delete(e)
  PROVE  Good(e)
  <1>1. TypeOK /\ FileTypes /\ Sound(e) /\ pc[e] = "delete"
    BY Facts DEF Delete
  <1>2. UNCHANGED <<disk, staged, owner, emitted, made, interrupts, envVars>>
    BY DEF Delete
  <1>3. CASE Supersede(e)
    <2>1. staged' \in [Event -> OptVersion]
      BY <1>1, <1>2 DEF FileTypes
    <2> QED
      BY <1>1, <1>2, <1>3, <2>1, SupersedeStep DEF Good
  <1>4. ASSUME NEW p \in Path, Skip(e, p)
        PROVE  Good(e)
    BY <1>1, <1>2, <1>4, SkipStep DEF FileTypes
  <1>5. ASSUME NEW p \in Undeleted(plan[e]), Deletable(e, p), Go(e, "probe"),
               victim' = [victim EXCEPT ![e] = <<p, disk[p]>>],
               UNCHANGED <<record, holder, plan>>
        PROVE  Good(e)
    <2>1. p \in Path /\ plan[e].clean[p] # None
          /\ disk[p] \in {None, plan[e].clean[p].before}
      BY <1>5 DEF Undeleted, Deletable
    <2>2. victim'[e] = <<p, disk[p]>> /\ <<p, disk[p]>> \in Path \X OptVersion
          /\ victim' \in [Event -> (Path \X OptVersion) \cup {None}]
      BY <1>1, <1>5, <2>1 DEF FileTypes
    <2>3. pc'[e] = "probe"
      BY <1>1, <1>5 DEF Go, TypeOK
    <2>4. victim'[e] \in Path \X OptVersion /\ victim'[e][1] = p /\ victim'[e][2] = disk[p]
      BY <2>2
    <2>5. VictimOf(e)' /\ InPlaceOf(e)'
      BY <1>5, <2>1, <2>3, <2>4 DEF VictimOf, InPlaceOf, OptVersion
    <2>6. "probe" \in Stages \ {"idle"}
      BY DEF Stages
    <2>7. RunTypes' /\ Sound(e)' /\ Apart(e)
      BY <1>1, <1>2, <1>5, <2>5, <2>6, GoStep
    <2> QED
      BY <1>1, <1>2, <2>2, <2>7, TypeParts DEF Good, FileTypes, envVars
  <1> QED
    BY <1>3, <1>4, <1>5 DEF Delete, Undeleted

(* A run that raises, at any stage, or that a redelivery takes up again.   *)
LEMMA EndStep ==
  ASSUME IInv, NEW e \in Event, pc[e] # "idle", End(e),
         UNCHANGED <<disk, staged, owner, record, emitted, made, envVars>>,
         \/ UNCHANGED interrupts /\ pc[e] # "mark"
         \/ interrupts' = interrupts + 1
  PROVE  Good(e)
  <1>1. TypeOK /\ FileTypes /\ Sound(e)
    BY Facts
  <1>2. Sound(e)'
    BY EndSound
  <1>3. RunTypes' /\ victim' \in [Event -> (Path \X OptVersion) \cup {None}]
        /\ \A f \in Event : f # e => pc'[f] = pc[f] /\ record'[f] = record[f]
    BY <1>1, EndEffect
  <1>4. FileTypes'
    BY <1>1, <1>3 DEF FileTypes, envVars
  <1> QED
    BY <1>2, <1>3, <1>4, TypeParts DEF Apart, Good

LEMMA VictimFacts ==
  ASSUME IInv, NEW e \in Event, pc[e] \in {"probe", "recheck", "unlink", "forget"}
  PROVE  /\ victim[e] \in Path \X OptVersion /\ victim[e][1] \in Path
         /\ plan[e].clean[victim[e][1]] # None
         /\ victim[e][2] \in {None, plan[e].clean[victim[e][1]].before}
  BY Facts DEF Sound, VictimOf

LEMMA ProbeStep ==
  ASSUME IInv, NEW e \in Event, Probe(e)
  PROVE  Good(e)
  <1>1. TypeOK /\ FileTypes /\ Sound(e) /\ pc[e] = "probe"
    BY Facts DEF Probe
  <1>2. UNCHANGED <<disk, staged, owner, emitted, made, interrupts, envVars>>
    BY DEF Probe
  <1>3. CASE CloudGone(e, victim[e][1])
    <2>1. Go(e, "recheck") /\ UNCHANGED <<record, holder, plan, victim>>
      BY <1>3 DEF Probe
    <2>2. pc'[e] = "recheck"
      BY <1>1, <2>1 DEF Go, TypeOK
    <2>3. VictimOf(e)' /\ InPlaceOf(e)'
      BY <1>1, <2>1, <2>2, VictimFacts DEF VictimOf, InPlaceOf
    <2>4. "recheck" \in Stages \ {"idle"}
      BY DEF Stages
    <2>5. RunTypes' /\ Sound(e)' /\ Apart(e)
      BY <1>1, <1>2, <2>1, <2>3, <2>4, GoStep
    <2> QED
      BY <1>1, <1>2, <2>1, <2>5, TypeParts DEF Good, FileTypes, envVars
  <1>4. CASE ~CloudGone(e, victim[e][1])
    <2>1. Skip(e, victim[e][1])
      BY <1>4 DEF Probe
    <2> QED
      BY <1>1, <1>2, <2>1, VictimFacts, SkipStep DEF FileTypes
  <1> QED
    BY <1>3, <1>4

LEMMA RecheckStep ==
  ASSUME IInv, NEW e \in Event, Recheck(e)
  PROVE  Good(e)
  <1>1. TypeOK /\ FileTypes /\ Sound(e) /\ pc[e] = "recheck"
    BY Facts DEF Recheck
  <1>2. UNCHANGED <<disk, staged, owner, emitted, made, interrupts, envVars>>
    BY DEF Recheck
  <1>3. CASE End(e) /\ UNCHANGED record
    BY <1>1, <1>2, <1>3, EndStep
  <1>4. CASE Skip(e, victim[e][1])
    BY <1>1, <1>2, <1>4, VictimFacts, SkipStep DEF FileTypes
  <1>5. ASSUME NEW st \in {"forget", "unlink"}, Go(e, st),
               st = "unlink" => victim[e][2] # None,
               disk[victim[e][1]] = victim[e][2],
               UNCHANGED <<record, holder, plan, victim>>
        PROVE  Good(e)
    <2>1. st \in Stages \ {"idle"}
      BY DEF Stages
    <2>2. pc'[e] = st
      BY <1>1, <1>5 DEF Go, TypeOK
    <2>3. VictimOf(e)'
      BY <1>1, <1>5, <2>2, VictimFacts DEF VictimOf
    <2>4. InPlaceOf(e)'
      BY <1>2, <1>5, <2>2 DEF InPlaceOf
    <2>5. RunTypes' /\ Sound(e)' /\ Apart(e)
      BY <1>1, <1>2, <1>5, <2>1, <2>3, <2>4, GoStep
    <2> QED
      BY <1>1, <1>2, <1>5, <2>5, TypeParts DEF Good, FileTypes, envVars
  <1>6. \/ End(e) /\ UNCHANGED record
        \/ Skip(e, victim[e][1])
        \/ /\ disk[victim[e][1]] = victim[e][2]
           /\ Go(e, IF victim[e][2] = None THEN "forget" ELSE "unlink")
           /\ UNCHANGED <<record, holder, plan, victim>>
    BY DEF Recheck
  <1> QED
    BY <1>3, <1>4, <1>5, <1>6

LEMMA UnlinkStep ==
  ASSUME IInv, NEW e \in Event, Unlink(e)
  PROVE  Good(e)
  <1>1. TypeOK /\ FileTypes /\ Sound(e) /\ pc[e] = "unlink"
    BY Facts DEF Unlink
  <1>2. Go(e, "forget")
        /\ UNCHANGED <<staged, owner, record, holder, plan, victim, emitted, made,
                       interrupts, envVars>>
    BY DEF Unlink, dbVars
  <1>3. disk' \in [Path -> OptVersion]
    BY <1>1 DEF Unlink, FileTypes, OptVersion
  <1>4. pc'[e] = "forget"
    BY <1>1, <1>2 DEF Go, TypeOK
  <1>5. VictimOf(e)' /\ InPlaceOf(e)'
    BY <1>1, <1>2, <1>4, VictimFacts DEF VictimOf, InPlaceOf
  <1>6. "forget" \in Stages \ {"idle"}
    BY DEF Stages
  <1>7. RunTypes' /\ Sound(e)' /\ Apart(e)
    BY <1>1, <1>2, <1>5, <1>6, GoStep
  <1> QED
    BY <1>1, <1>2, <1>3, <1>7, TypeParts DEF Good, FileTypes, envVars

LEMMA ForgetStep ==
  ASSUME IInv, NEW e \in Event, Forget(e)
  PROVE  Good(e)
  <1>1. TypeOK /\ FileTypes /\ Sound(e) /\ pc[e] = "forget"
    BY Facts DEF Forget
  <1>2. owner' = [owner EXCEPT ![victim[e][1]] = [event |-> e,
                             at |-> plan[e].clean[victim[e][1]].at, print |-> None]]
        /\ Skip(e, victim[e][1])
        /\ UNCHANGED <<disk, staged, emitted, made, interrupts, envVars>>
    BY DEF Forget
  <1>3. plan[e].clean[victim[e][1]] \in Deletion
    BY Facts, VictimFacts, <1>1 DEF Plan
  <1>5. [event |-> e, at |-> plan[e].clean[victim[e][1]].at, print |-> None] \in Owner
    BY <1>3 DEF Owner, OptVersion, Deletion
  <1>4. owner' \in [Path -> Owner \cup {None}]
    BY <1>1, <1>2, <1>5 DEF FileTypes
  <1> QED
    BY <1>1, <1>2, <1>4, VictimFacts, SkipStep

LEMMA EffectStep ==
  ASSUME IInv, NEW e \in Event, Effect(e)
  PROVE  Good(e)
  <1>1. TypeOK /\ FileTypes /\ Sound(e) /\ pc[e] = "effect"
    BY Facts DEF Effect
  <1>2. UNCHANGED <<disk, staged, owner, emitted, made, interrupts, envVars>>
    BY DEF Effect
  <1>3. CASE disk[Out(e)] = plan[e].after
    <2>1. Go(e, "emit") /\ UNCHANGED <<record, holder, plan, victim>>
      BY <1>3 DEF Effect
    <2>2. pc'[e] = "emit"
      BY <1>1, <2>1 DEF Go, TypeOK
    <2>3. VictimOf(e)' /\ InPlaceOf(e)' /\ plan[e].effects < Effects
      BY <1>1, <2>2 DEF VictimOf, InPlaceOf, Sound, CountOf
    <2>4. "emit" \in Stages \ {"idle"}
      BY DEF Stages
    <2>5. RunTypes' /\ Sound(e)' /\ Apart(e)
      BY <1>1, <1>2, <2>1, <2>3, <2>4, GoStep
    <2> QED
      BY <1>1, <1>2, <2>1, <2>5, TypeParts DEF Good, FileTypes, envVars
  <1>4. CASE disk[Out(e)] # plan[e].after
    <2>1. Supersede(e) /\ staged' \in [Event -> OptVersion]
      BY <1>1, <1>2, <1>4 DEF Effect, FileTypes
    <2> QED
      BY <1>1, <1>2, <2>1, SupersedeStep DEF Good
  <1> QED
    BY <1>3, <1>4

LEMMA EmitStep ==
  ASSUME IInv, NEW e \in Event, Emit(e)
  PROVE  Good(e)
  <1>1. TypeOK /\ FileTypes /\ Sound(e) /\ pc[e] = "emit"
    BY Facts DEF Emit
  <1>2. Go(e, "mark") /\ emitted' = [emitted EXCEPT ![e] = @ + 1]
        /\ UNCHANGED <<disk, staged, owner, record, holder, plan, victim, made,
                       interrupts, envVars>>
    BY DEF Emit, dbVars
  <1>3. "mark" \in Stages \ {"idle"}
    BY DEF Stages
  <1>4. /\ RunTypes' /\ pc'[e] = "mark"
        /\ \A f \in Event : f # e => pc'[f] = pc[f] /\ record'[f] = record[f]
    BY <1>1, <1>2, <1>3, GoEffect DEF TypeOK
  <1>5. emitted'[e] = emitted[e] + 1 /\ emitted' \in [Event -> Nat]
    BY <1>1, <1>2 DEF FileTypes
  <1>6. CountOf(e)'
    BY <1>1, <1>2, <1>4, <1>5, Facts DEF Sound, CountOf
  <1>7. AgreeOf(e)' /\ VictimOf(e)' /\ InPlaceOf(e)'
    BY <1>1, <1>2, <1>4 DEF Sound, AgreeOf, VictimOf, InPlaceOf
  <1>8. Apart(e)
    BY <1>1, <1>2, <1>4 DEF Apart, FileTypes
  <1> QED
    BY <1>1, <1>2, <1>4, <1>5, <1>6, <1>7, <1>8, TypeParts DEF Good, Sound, FileTypes, envVars

LEMMA MarkStep ==
  ASSUME IInv, NEW e \in Event, Mark(e)
  PROVE  Good(e)
  <1> DEFINE pl == [plan[e] EXCEPT !.effects = @ + 1]
  <1>1. TypeOK /\ FileTypes /\ Sound(e) /\ pc[e] = "mark"
    BY Facts DEF Mark
  <1>2. Save(e, pl, After(pl))
        /\ UNCHANGED <<disk, staged, owner, holder, victim, emitted, made, interrupts, envVars>>
    BY DEF Mark
  <1>3. pl \in Plan /\ pl.effects = record[e].plan.effects + 1
    BY <1>1, Facts DEF Plan, Sound, AgreeOf
  <1> HIDE DEF pl
  <1>4. RunTypes' /\ Sound(e)' /\ Apart(e)
    BY <1>1, <1>2, <1>3, AfterFacts, SaveStep
  <1> QED
    BY <1>1, <1>2, <1>4, TypeParts DEF Good, FileTypes, envVars

LEMMA FinishStep ==
  ASSUME IInv, NEW e \in Event, Finish(e)
  PROVE  Good(e)
  <1>1. TypeOK /\ FileTypes /\ Sound(e) /\ pc[e] = "finish"
    BY Facts DEF Finish
  <1>2. Keep(e, plan[e], "done") /\ End(e)
        /\ UNCHANGED <<disk, staged, owner, emitted, made, interrupts, envVars>>
    BY DEF Finish
  <1>3. Sound(e)'
    BY <1>1, <1>2, EndSound
  <1>4. RunTypes' /\ victim' \in [Event -> (Path \X OptVersion) \cup {None}]
        /\ \A f \in Event : f # e => pc'[f] = pc[f] /\ record'[f] = record[f]
    BY <1>1, <1>2, EndEffect
  <1>5. FileTypes'
    BY <1>1, <1>2, <1>4 DEF FileTypes, envVars
  <1> QED
    BY <1>2, <1>3, <1>4, <1>5, TypeParts DEF Apart, Good

LEMMA InterruptStep ==
  ASSUME IInv, NEW e \in Event, Interrupt(e)
  PROVE  Good(e)
  BY EndStep DEF Interrupt, dbVars

-----------------------------------------------------------------------------
(* The surroundings touch nothing the runs rely on, but for the files.     *)
LEMMA CloudStep ==
  ASSUME IInv,
         \/ \E e \in Event : Transfer(e) \/ Restore(e)
         \/ \E c \in Cloud : Remove(c)
  PROVE  IInv'
  <1>1. TypeOK /\ FileTypes /\ RunTypes
    BY TypeParts DEF IInv
  <1>2. UNCHANGED <<disk, staged, owner, record, holder, pc, plan, victim, emitted, made,
                    interrupts>>
    BY DEF Transfer, Restore, Remove, dbVars
  <1>3. cloud' \in [Cloud -> Event \cup {None}]
    BY <1>1, PostAssumption DEF Transfer, Restore, Remove, FileTypes
  <1>4. arrived' \subseteq Event /\ trash' \subseteq Event
        /\ {interrupts', tampers', removals'} \subseteq Nat
    BY <1>1 DEF Transfer, Restore, Remove, FileTypes
  <1>5. TypeOK'
    BY <1>1, <1>2, <1>3, <1>4, TypeParts DEF RunTypes, FileTypes
  <1>6. ASSUME NEW e \in Event  PROVE Sound(e)'
    BY <1>2 DEF IInv, Sound, AgreeOf, VictimOf, InPlaceOf, CountOf, Out, By
  <1> QED
    BY <1>5, <1>6 DEF IInv

LEMMA TamperStep ==
  ASSUME IInv, NEW p \in Path, Tamper(p)
  PROVE  IInv'
  <1>1. TypeOK /\ FileTypes /\ RunTypes
    BY TypeParts DEF IInv
  <1>2. UNCHANGED <<staged, owner, record, holder, pc, plan, victim, emitted, interrupts,
                    cloud, trash, arrived, removals>>
    BY DEF Tamper, dbVars
  <1>3. \/ disk' = [disk EXCEPT ![p] = <<Other, made[Other] + 1>>]
           /\ made' = [made EXCEPT ![Other] = @ + 1]
        \/ disk' = [disk EXCEPT ![p] = None] /\ made' = made
    BY DEF Tamper
  <1>4. <<Other, made[Other] + 1>> \in OptVersion /\ None \in OptVersion
    BY <1>1 DEF FileTypes, OptVersion, Version
  <1>5. disk' \in [Path -> OptVersion] /\ made' \in [Event \cup {Other} -> Nat]
        /\ tampers' \in Nat
    BY <1>1, <1>3, <1>4 DEF FileTypes, Tamper
  <1>6. TypeOK'
    BY <1>1, <1>2, <1>5, TypeParts DEF RunTypes, FileTypes
  <1>7. ASSUME NEW q \in Path, By(disk'[q], Event)  PROVE disk'[q] = disk[q]
    BY <1>1, <1>3, <1>7, PostAssumption DEF FileTypes, By
  <1>8. ASSUME NEW e \in Event  PROVE Sound(e)'
    <2>1. Sound(e) /\ Out(e) \in Path
      BY Facts
    <2>2. pc[e] = "unlink" => victim[e][1] \in Path
      BY VictimFacts
    <2>3. InPlaceOf(e)'
      BY <1>2, <1>7, <2>1, <2>2 DEF Sound, InPlaceOf, Out
    <2>4. AgreeOf(e)' /\ VictimOf(e)' /\ CountOf(e)'
      BY <1>2, <2>1 DEF Sound, AgreeOf, VictimOf, CountOf
    <2> QED
      BY <2>3, <2>4 DEF Sound
  <1> QED
    BY <1>6, <1>8 DEF IInv

(* The operation each step is for comes from one run, or from outside.     *)
LEMMA RunStep ==
  ASSUME IInv, NEW e \in Event, Begin(e) \/ Reopen(e) \/ Step(e) \/ Interrupt(e)
  PROVE  IInv'
  <1>1. Good(e)
    BY BeginStep, ReopenStep, FreezeSizeStep, CheckStep, WriteStep, PrepareStep,
       SavePreparedStep, ConfirmStep, CompareStep, PublishStep, VerifyStep,
       CompleteWriteStep, DeleteStep, ProbeStep, RecheckStep, UnlinkStep, ForgetStep,
       EffectStep, EmitStep, MarkStep, FinishStep, InterruptStep DEF Step
  <1>2. pc[e] # "idle" \/ LibraryFree
    BY DEF Begin, Reopen, Step, Interrupt, FreezeSize, Check, Write, Prepare, SavePrepared,
           Confirm, Compare, Guard, Publish, Verify, CompleteWrite, Delete, Probe, Recheck,
           Unlink, Forget, Effect, Emit, Mark, Finish
  <1>3. \A f \in Event : Sound(f)'
    BY <1>1, <1>2, OthersSound DEF Good
  <1> QED
    BY <1>1, <1>3 DEF Good, IInv

THEOREM NextIInv == IInv /\ [Next]_vars => IInv'
  <1> SUFFICES ASSUME IInv, [Next]_vars PROVE IInv'
    OBVIOUS
  <1>1. CASE \E e \in Event : Begin(e) \/ Reopen(e) \/ Step(e) \/ Interrupt(e)
    BY <1>1, RunStep
  <1>2. CASE \/ \E e \in Event : Transfer(e) \/ Restore(e)
             \/ \E c \in Cloud : Remove(c)
    BY <1>2, CloudStep
  <1>3. CASE \E p \in Path : Tamper(p)
    BY <1>3, TamperStep
  <1>4. CASE UNCHANGED vars
    BY <1>4 DEF vars, dbVars, envVars, IInv, TypeOK, Sound, AgreeOf, VictimOf, InPlaceOf,
                CountOf, Out, By
  <1> QED
    BY <1>1, <1>2, <1>3, <1>4 DEF Next

THEOREM Invariance == Spec => []IInv
  BY InitIInv, NextIInv, PTL DEF Spec

(* Types; and the library lock is held by the one run that is under way    *)
(* (lock_libraries).                                                       *)
THEOREM Typed == Spec => []TypeOK
  <1>1. IInv => TypeOK
    BY DEF IInv
  <1> QED
    BY <1>1, Invariance, PTL

(* Every effect is made before it is recorded, and repeated at most once   *)
(* for each run cut short, for any number of them (_run_effects).          *)
THEOREM EffectsCounted == Spec => []EffectsAtLeastOnce
  <1>1. ASSUME IInv  PROVE EffectsAtLeastOnce
    BY <1>1 DEF IInv, Sound, CountOf, EffectsAtLeastOnce
  <1> QED
    BY <1>1, Invariance, PTL

(* A file made for an event is replaced or deleted only in the version its *)
(* plan was frozen for: the plan in the database at that moment, however   *)
(* many runs of however many events were cut short before (_write,         *)
(* _delete).                                                               *)
THEOREM PlannedOnly == Spec => ActsOnPlanned
  <1>1. ASSUME IInv, [Next]_vars, NEW e \in Event
        PROVE  /\ pc[e] = "publish" /\ pc'[e] = "verify" /\ By(disk[Out(e)], Event)
                     => disk[Out(e)] = record[e].plan.before
               /\ pc[e] = "unlink" /\ pc'[e] = "forget" /\ By(disk[victim[e][1]], Event)
                     => disk[victim[e][1]] = record[e].plan.clean[victim[e][1]].before
    <2>1. Sound(e)
      BY <1>1 DEF IInv
    <2>2. ASSUME pc[e] = "publish", By(disk[Out(e)], Event)
          PROVE  disk[Out(e)] = record[e].plan.before
      BY <2>1, <2>2 DEF Sound, AgreeOf, InPlaceOf
    <2>3. ASSUME pc[e] = "unlink", By(disk[victim[e][1]], Event)
          PROVE  disk[victim[e][1]] = record[e].plan.clean[victim[e][1]].before
      BY <2>1, <2>3 DEF Sound, AgreeOf, VictimOf, InPlaceOf
    <2> QED
      BY <2>2, <2>3
  <1>2. IInv /\ [Next]_vars =>
          [\A e \in Event :
             /\ pc[e] = "publish" /\ pc'[e] = "verify" /\ By(disk[Out(e)], Event)
                  => disk[Out(e)] = record[e].plan.before
             /\ pc[e] = "unlink" /\ pc'[e] = "forget" /\ By(disk[victim[e][1]], Event)
                  => disk[victim[e][1]]
                       = record[e].plan.clean[victim[e][1]].before]_vars
    BY <1>1
  <1> QED
    BY <1>2, Invariance, PTL DEF Spec, ActsOnPlanned
-----------------------------------------------------------------------------
(***************************************************************************)
(* The output of an event: that a run recognises it, and that no other run *)
(* takes it away while its cloud file is in place.                         *)
(***************************************************************************)
(* A version by e itself, or none.                                         *)
OwnVersion(e, v) == v = None \/ By(v, {e})

(* The plan in memory agrees with the one in the database in the rest.     *)
CarriedOf(e) ==
    pc[e] # "idle" =>
        /\ record[e].state = "pending"
        /\ record[e].plan.prepared = plan[e].prepared
        /\ record[e].plan.owner = plan[e].owner
        /\ record[e].plan.done = plan[e].done

Writing == {"write", "prepare", "prepared", "confirm", "compare", "publish", "verify",
            "complete"}
Staging == {"prepare", "prepared", "confirm", "compare", "publish"}
Written == {"delete", "probe", "recheck", "unlink", "forget", "effect", "emit", "mark",
            "finish"}

(* What a run knows of its own output at each stage.                       *)
StageOf(e) ==
    /\ pc[e] \in Writing => ~plan[e].done
    /\ pc[e] \in Written => plan[e].done
    /\ pc[e] \in Staging => ~By(disk[Out(e)], {e}) /\ owner[Out(e)] = plan[e].owner
    /\ pc[e] = "prepared" => staged[e] # None
    /\ pc[e] \in {"confirm", "compare", "publish"} =>
          staged[e] = plan[e].prepared /\ plan[e].prepared # None
    /\ pc[e] \in {"verify", "complete"} =>
          /\ plan[e].prepared # None
          /\ tampers = 0 \/ By(disk[Out(e)], Event) => disk[Out(e)] = plan[e].prepared
    /\ pc[e] = "complete" => plan[e].after = plan[e].prepared
    /\ pc[e] # "idle" /\ plan[e].done =>
          plan[e].prepared # None /\ plan[e].after = plan[e].prepared
    /\ pc[e] = "unlink" => owner[victim[e][1]] = plan[e].clean[victim[e][1]].owner
    /\ pc[e] = "forget" => ~By(disk[victim[e][1]], Event)

(* The frozen plan and its checkpoints.                                    *)
RecordOf(e) ==
    LET pl == record[e].plan
    IN  /\ record[e].state # "none" => e \in arrived
        /\ record[e].state = "done" => pl.done
        /\ pl.done => pl.prepared # None /\ pl.after = pl.prepared
        /\ OwnVersion(e, pl.prepared) /\ OwnVersion(e, staged[e])
        /\ ~By(pl.before, {e})

(* A recorded owner of p is of a cloud path that p is the output of.       *)
OwnerOk(p, o) ==
    o # None => /\ OutOf[o.at] = p
                /\ Out(o.event) = p => o.at = Target[o.event]

CleanOf(e) ==
    \A p \in Path :
        LET op == record[e].plan.clean[p]
        IN  op # None =>
               /\ p # Out(e)
               /\ OutOf[op.at] = p
               /\ op.probes # {} /\ \A c \in op.probes : OutOf[c] = p
               /\ OwnerOk(p, op.owner)
               /\ op.owner # None => op.owner.at \in op.probes

(* A file by e is its planned output, and owned as planned until recorded. *)
OwnOf(e) ==
    \A p \in Path : By(disk[p], {e}) =>
        /\ p = Out(e)
        /\ record[e].state # "none"
        /\ disk[p] = record[e].plan.prepared
        /\ ~record[e].plan.done => owner[p] = record[e].plan.owner

(* No event whose cloud file is in place is asked for at a probed path.    *)
GoneOf(e) ==
    pc[e] \in {"recheck", "unlink"} /\ NothingRestored =>
        \A c \in plan[e].clean[victim[e][1]].probes : \A f \in Event :
            record[f].state # "none" /\ Target[f] = c => cloud[c] # f

(* e began, its cloud file is in place and only it can have its output.    *)
Live(e) ==
    /\ record[e].state # "none"
    /\ Current(e) /\ ~SharedOutput(Out(e))
    /\ tampers = 0 /\ NothingRestored

(* A run of f keeps away from the outputs of the others that are live.     *)
AwayOf(f) ==
    \A e \in Event : e # f /\ Live(e) =>
        /\ Out(f) = Out(e) => pc[f] \in {"idle", "size", "check"}
        /\ pc[f] \in {"recheck", "unlink", "forget"} => victim[f][1] # Out(e)

LiveOf(e) ==
    Live(e) =>
        /\ record[e].state # "superseded"
        /\ record[e].plan.done => By(disk[Out(e)], {e})
        /\ ~record[e].plan.done =>
              \/ By(disk[Out(e)], {e})
              \/ /\ disk[Out(e)] = record[e].plan.before
                 /\ owner[Out(e)] = record[e].plan.owner

RemovalsCounted == IsFiniteSet(trash) /\ Cardinality(trash) <= removals

Kept(e) ==
    CarriedOf(e) /\ StageOf(e) /\ RecordOf(e) /\ CleanOf(e) /\ OwnOf(e) /\ GoneOf(e)
        /\ AwayOf(e) /\ LiveOf(e)

KInv ==
    /\ RemovalsCounted
    /\ \A p \in Path : OwnerOk(p, owner[p])
    /\ \A e \in Event : Kept(e)

LEMMA InitKInv == Init => KInv
  <1> SUFFICES ASSUME Init PROVE KInv
    OBVIOUS
  <1>1. RemovalsCounted
    BY FS_EmptySet DEF Init, RemovalsCounted
  <1>2. \A p \in Path : OwnerOk(p, owner[p])
    BY DEF Init, OwnerOk
  <1>3. ASSUME NEW e \in Event  PROVE Kept(e)
    <2>1. /\ pc[e] = "idle" /\ record[e].state = "none" /\ staged[e] = None
          /\ record[e].plan = NoPlan /\ \A p \in Path : disk[p] = None
      BY DEF Init
    <2> QED
      BY <2>1 DEF Kept, CarriedOf, StageOf, RecordOf, CleanOf, OwnOf, GoneOf, AwayOf,
                  LiveOf, Live, NoPlan, OwnVersion, By, Writing, Written, Staging
  <1> QED
    BY <1>1, <1>2, <1>3 DEF KInv

(* A step of the run of e: the others are idle, and their files as before. *)
Turn(e) ==
    /\ Good(e)
    /\ \A f \in Event : f # e => pc[f] = "idle" /\ pc'[f] = "idle"
                                 /\ staged'[f] = staged[f]
    /\ UNCHANGED envVars

LEMMA CleanSame ==
  ASSUME NEW e \in Event, CleanOf(e),
         \A p \in Path : record'[e].plan.clean[p] \in {None, record[e].plan.clean[p]}
  PROVE  CleanOf(e)'
  <1> SUFFICES ASSUME NEW p \in Path, record'[e].plan.clean[p] # None
               PROVE  LET op == record'[e].plan.clean[p]
                      IN  /\ p # Out(e)
                          /\ OutOf[op.at] = p
                          /\ op.probes # {} /\ \A c \in op.probes : OutOf[c] = p
                          /\ OwnerOk(p, op.owner)
                          /\ op.owner # None => op.owner.at \in op.probes
    BY DEF CleanOf, OwnerOk, Out
  <1>1. record'[e].plan.clean[p] = record[e].plan.clean[p]
    OBVIOUS
  <1> QED
    BY <1>1 DEF CleanOf

LEMMA OthersKept ==
  ASSUME IInv, KInv, NEW e \in Event, Turn(e), NEW f \in Event, f # e,
         \A p \in Path : By(disk'[p], {f}) => disk'[p] = disk[p] /\ owner'[p] = owner[p],
         Live(f) => disk'[Out(f)] = disk[Out(f)] /\ owner'[Out(f)] = owner[Out(f)]
  PROVE  Kept(f)'
  <1>1. Kept(f) /\ record'[f] = record[f] /\ pc'[f] = "idle" /\ staged'[f] = staged[f]
    BY DEF KInv, Turn, Good, Apart
  <1>2. UNCHANGED <<cloud, trash, arrived, tampers, removals>>
    BY DEF Turn, envVars
  <1>3. Live(f)' <=> Live(f)
    BY <1>1, <1>2 DEF Live, Current, NothingRestored, SharedOutput, Out
  <1>4. CarriedOf(f)' /\ StageOf(f)' /\ GoneOf(f)' /\ AwayOf(f)'
    BY <1>1 DEF CarriedOf, StageOf, GoneOf, AwayOf, Writing, Written, Staging
  <1>5. RecordOf(f)' /\ CleanOf(f)'
    <2>1. RecordOf(f)'
      BY <1>1, <1>2 DEF Kept, RecordOf, OwnVersion, By
    <2>2. CleanOf(f)'
      BY <1>1, CleanSame DEF Kept
    <2> QED
      BY <2>1, <2>2
  <1>6. OwnOf(f)'
    BY <1>1 DEF Kept, OwnOf, By, Out
  <1>7. LiveOf(f)'
    <2>1. Out(f)' = Out(f)
      BY DEF Out
    <2> QED
      BY <1>1, <1>3, <2>1 DEF Kept, LiveOf
  <1> QED
    BY <1>4, <1>5, <1>6, <1>7 DEF Kept

(* Files and owners unchanged, so are the rest of the invariants.          *)
LEMMA RestKept ==
  ASSUME IInv, KInv, NEW e \in Event, Turn(e), UNCHANGED <<disk, owner>>, Kept(e)'
  PROVE  KInv'
  <1>1. \A f \in Event : f # e => Kept(f)'
    BY OthersKept DEF Out
  <1>2. RemovalsCounted'
    BY DEF KInv, RemovalsCounted, Turn, envVars
  <1>3. \A p \in Path : OwnerOk(p, owner[p])'
    BY DEF KInv, OwnerOk, Out
  <1> QED
    BY <1>1, <1>2, <1>3 DEF KInv

(* A run keeps away from the live outputs of other events.                 *)
LEMMA AwayKept ==
  ASSUME IInv, KInv, NEW e \in Event, Turn(e),
         pc[e] \notin {"idle", "size", "check"} \/ pc'[e] \in {"idle", "size", "check"}
            \/ Current(e),
         pc'[e] \in {"recheck", "unlink", "forget"} =>
            \/ UNCHANGED victim /\ pc[e] \in {"recheck", "unlink", "forget"}
            \/ /\ victim'[e] \in Path \X OptVersion
               /\ plan[e].clean[victim'[e][1]] # None
               /\ CloudGone(e, victim'[e][1])
               /\ pc[e] # "idle"
  PROVE  AwayOf(e)'
  <1> SUFFICES ASSUME NEW g \in Event, g # e, Live(g)'
               PROVE  /\ Out(e) = Out(g) => pc'[e] \in {"idle", "size", "check"}
                      /\ pc'[e] \in {"recheck", "unlink", "forget"} =>
                            victim'[e][1] # Out(g)
    BY DEF AwayOf, Out
  <1>1. record'[g] = record[g] /\ UNCHANGED <<cloud, trash, arrived, tampers, removals>>
    BY DEF Turn, Good, Apart, envVars
  <1>2. Live(g)
    BY <1>1 DEF Live, Current, NothingRestored, SharedOutput, Out
  <1>3. Kept(e) /\ TypeOK
    BY DEF KInv, IInv
  <1>4. /\ Out(e) = Out(g) => pc[e] \in {"idle", "size", "check"}
        /\ pc[e] \in {"recheck", "unlink", "forget"} => victim[e][1] # Out(g)
    BY <1>2, <1>3 DEF Kept, AwayOf
  <1>5. ASSUME Out(e) = Out(g)  PROVE ~Current(e)
    <2>1. Target[e] = Target[g]
      BY <1>2, <1>5, PostAssumption DEF Live, SharedOutput, Out
    <2> QED
      BY <1>2, <2>1 DEF Live, Current
  <1>6. Out(e) = Out(g) => pc'[e] \in {"idle", "size", "check"}
    BY <1>4, <1>5
  <1>7. ASSUME pc'[e] \in {"recheck", "unlink", "forget"}
        PROVE  victim'[e][1] # Out(g)
    <2>1. CASE UNCHANGED victim /\ pc[e] \in {"recheck", "unlink", "forget"}
      BY <1>4, <2>1
    <2>2. CASE /\ victim'[e] \in Path \X OptVersion
               /\ plan[e].clean[victim'[e][1]] # None
               /\ CloudGone(e, victim'[e][1])
               /\ pc[e] # "idle"
      <3> DEFINE p == victim'[e][1]
                 op == plan[e].clean[p]
      <3>1. p \in Path /\ record[e].plan.clean[p] = op
        BY <2>2, Facts DEF Sound, AgreeOf
      <3>2. op.probes # {} /\ \A c \in op.probes : OutOf[c] = p
        BY <1>3, <2>2, <3>1 DEF Kept, CleanOf
      <3>3. op.probes \subseteq Cloud
        <4>1. op \in Deletion
          BY <2>2, <3>1, Facts DEF Plan
        <4> QED
          BY <4>1 DEF Deletion
      <3>4. PICK c \in op.probes : c \in Cloud /\ OutOf[c] = p /\ cloud[c] = None
        BY <2>2, <3>2, <3>3 DEF CloudGone
      <3>5. p = Out(g) => c = Target[g]
        BY <1>2, <3>4, PostAssumption DEF Live, SharedOutput, Out
      <3> QED
        BY <1>2, <3>4, <3>5, PostAssumption DEF Live, Current
    <2> QED
      BY <1>7, <2>1, <2>2
  <1> QED
    BY <1>6, <1>7

(* The record of e unchanged, as well as the files and the owners.         *)
LEMMA RecordSame ==
  ASSUME IInv, KInv, NEW e \in Event, Turn(e), UNCHANGED <<disk, owner>>,
         record'[e] = record[e], OwnVersion(e, staged'[e])
  PROVE  RecordOf(e)' /\ CleanOf(e)' /\ OwnOf(e)' /\ LiveOf(e)'
  <1>1. Kept(e) /\ UNCHANGED <<cloud, trash, arrived, tampers, removals>>
    BY DEF KInv, Turn, envVars
  <1>2. RecordOf(e)'
    BY <1>1 DEF Kept, RecordOf, OwnVersion, By
  <1>3. CleanOf(e)'
    BY <1>1, CleanSame DEF Kept
  <1>4. OwnOf(e)'
    BY <1>1 DEF Kept, OwnOf, Out, By
  <1>5. LiveOf(e)'
    BY <1>1 DEF Kept, LiveOf, Live, Current, NothingRestored, SharedOutput, Out, By
  <1> QED
    BY <1>2, <1>3, <1>4, <1>5

(* A checkpoint that tells of a planned event no more than was done.       *)
LEMMA RecordSaved ==
  ASSUME IInv, KInv, NEW e \in Event, Turn(e), UNCHANGED <<disk, owner>>,
         OwnVersion(e, staged'[e]), NEW state \in {"pending", "superseded", "done"}, NEW pl \in Plan,
         record'[e] = [state |-> state, plan |-> pl],
         record[e].state # "none",
         pl.before = record[e].plan.before, pl.owner = record[e].plan.owner,
         pl.prepared = record[e].plan.prepared, pl.done = record[e].plan.done,
         \A p \in Path : pl.clean[p] \in {None, record[e].plan.clean[p]},
         pl.done => pl.after = pl.prepared,
         state = "done" => pl.done,
         state = "superseded" => ~Live(e)
  PROVE  RecordOf(e)' /\ CleanOf(e)' /\ OwnOf(e)' /\ LiveOf(e)'
  <1>1. Kept(e) /\ UNCHANGED <<cloud, trash, arrived, tampers, removals>>
    BY DEF KInv, Turn, envVars
  <1>2. record'[e].state = state /\ record'[e].plan = pl
    OBVIOUS
  <1>3. RecordOf(e)'
    <2>1. RecordOf(e) /\ record[e].state # "none" /\ (pl.done => pl.prepared # None)
      BY <1>1 DEF Kept, RecordOf
    <2> QED
      BY <1>1, <1>2, <2>1 DEF RecordOf, OwnVersion, By
  <1>4. CleanOf(e)'
    BY <1>1, <1>2, CleanSame DEF Kept
  <1>5. OwnOf(e)'
    BY <1>1, <1>2 DEF Kept, OwnOf, Out, By
  <1>6. Live(e)' <=> Live(e)
    BY <1>1, <1>2 DEF Live, Current, NothingRestored, SharedOutput, Out
  <1>7. LiveOf(e)'
    BY <1>1, <1>2, <1>6 DEF Kept, LiveOf, Out, By
  <1> QED
    BY <1>3, <1>4, <1>5, <1>7

(* Every step of a run is a turn of its event.                             *)
Act(e) == Begin(e) \/ Reopen(e) \/ Step(e) \/ Interrupt(e)

LEMMA ActGood ==
  ASSUME IInv, NEW e \in Event, Act(e)
  PROVE  Good(e) /\ (pc[e] # "idle" \/ LibraryFree) /\ IInv'
  <1>1. Good(e)
    BY BeginStep, ReopenStep, FreezeSizeStep, CheckStep, WriteStep, PrepareStep,
       SavePreparedStep, ConfirmStep, CompareStep, PublishStep, VerifyStep,
       CompleteWriteStep, DeleteStep, ProbeStep, RecheckStep, UnlinkStep, ForgetStep,
       EffectStep, EmitStep, MarkStep, FinishStep, InterruptStep DEF Step, Act
  <1>2. pc[e] # "idle" \/ LibraryFree
    BY DEF Act, Begin, Reopen, Step, Interrupt, FreezeSize, Check, Write, Prepare,
           SavePrepared, Confirm, Compare, Guard, Publish, Verify, CompleteWrite, Delete,
           Probe, Recheck, Unlink, Forget, Effect, Emit, Mark, Finish
  <1> QED
    BY <1>1, <1>2, RunStep DEF Act

LEMMA ActTurn ==
  ASSUME IInv, NEW e \in Event, Act(e)
  PROVE  Turn(e) /\ IInv'
  <1>1. Good(e) /\ (pc[e] # "idle" \/ LibraryFree) /\ IInv' /\ TypeOK
    BY ActGood DEF IInv
  <1>2. UNCHANGED envVars
    BY DEF Act, Begin, Reopen, Step, Interrupt, FreezeSize, Check, Write, Prepare,
           SavePrepared, Confirm, Compare, Guard, Publish, Verify, CompleteWrite, Delete,
           Probe, Recheck, Unlink, Forget, Effect, Emit, Mark, Finish
  <1>3. \/ UNCHANGED staged
        \/ staged' = [staged EXCEPT ![e] = <<e, made[e] + 1>>]
        \/ staged' = [staged EXCEPT ![e] = None]
    BY DEF Act, Begin, Reopen, Step, Interrupt, FreezeSize, Check, Write, Prepare,
           SavePrepared, Confirm, Compare, Guard, Publish, Verify, CompleteWrite, Delete,
           Probe, Recheck, Unlink, Forget, Effect, Emit, Mark, Finish, Skip
  <1>4. ASSUME NEW f \in Event, f # e
        PROVE  pc[f] = "idle" /\ pc'[f] = "idle" /\ staged'[f] = staged[f]
    <2>1. pc[f] = "idle"
      BY <1>1, <1>4, Alone, NobodyRuns
    <2>2. pc'[f] = pc[f]
      BY <1>1, <1>4 DEF Good, Apart
    <2>3. staged'[f] = staged[f]
      BY <1>1, <1>3, <1>4 DEF TypeOK
    <2> QED
      BY <2>1, <2>2, <2>3
  <1> QED
    BY <1>1, <1>2, <1>4 DEF Turn

(* A run that ends: its record as it was, given up, or done.               *)
LEMMA EndKept ==
  ASSUME IInv, KInv, NEW e \in Event, Turn(e), pc[e] # "idle", End(e),
         UNCHANGED <<disk, owner>>, OwnVersion(e, staged'[e]),
         \/ UNCHANGED record
         \/ Keep(e, plan[e], "superseded") /\ ~Live(e)
         \/ Keep(e, plan[e], "done") /\ pc[e] = "finish"
  PROVE  KInv'
  <1>1. Kept(e) /\ TypeOK /\ Sound(e) /\ plan[e] \in Plan
    BY Facts DEF KInv
  <1>2. pc'[e] = "idle"
    BY <1>1, EndEffect
  <1>3. CarriedOf(e)' /\ StageOf(e)' /\ GoneOf(e)'
    BY <1>2 DEF CarriedOf, StageOf, GoneOf, Writing, Written, Staging
  <1>4. AwayOf(e)'
    BY <1>2, AwayKept
  <1>5. CASE UNCHANGED record
    <2>1. RecordOf(e)' /\ CleanOf(e)' /\ OwnOf(e)' /\ LiveOf(e)'
      BY <1>5, RecordSame
    <2> QED
      BY <1>3, <1>4, <2>1, RestKept DEF Kept
  <1>6. ASSUME NEW state \in {"superseded", "done"}, Keep(e, plan[e], state),
               state = "superseded" => ~Live(e),
               state = "done" => pc[e] = "finish"
        PROVE  KInv'
    <2>1. record'[e] = [state |-> state, plan |-> plan[e]]
      BY <1>1, <1>6 DEF Keep, TypeOK
    <2>2. state = "done" => plan[e].done
      BY <1>1, <1>6 DEF Kept, StageOf, Written
    <2>3. plan[e].done => plan[e].after = plan[e].prepared
      BY <1>1 DEF Kept, StageOf
    <2>4. record[e].plan.clean = plan[e].clean /\ record[e].plan.before = plan[e].before
      BY <1>1 DEF Sound, AgreeOf
    <2>5. RecordOf(e)' /\ CleanOf(e)' /\ OwnOf(e)' /\ LiveOf(e)'
      <3>1. OwnVersion(e, staged'[e]) /\ RecordOf(e) /\ CarriedOf(e)
        BY <1>1 DEF Kept
      <3> QED
        BY <1>1, <1>6, <2>1, <2>2, <2>3, <2>4, <3>1, RecordSaved DEF CarriedOf
    <2> QED
      BY <1>3, <1>4, <2>5, RestKept DEF Kept
  <1> QED
    BY <1>5, <1>6

(* A run that goes on without saving.                                      *)
LEMMA GoKept ==
  ASSUME IInv, KInv, NEW e \in Event, Turn(e), UNCHANGED <<record, disk, owner>>,
         plan' = plan \/ \E v \in OptVersion : plan' = [plan EXCEPT ![e].after = v],
         pc[e] # "idle", OwnVersion(e, staged'[e]), StageOf(e)', GoneOf(e)', AwayOf(e)'
  PROVE  KInv'
  <1>1. Kept(e) /\ TypeOK /\ plan[e] \in Plan
    BY Facts DEF KInv
  <1>2. plan'[e].prepared = plan[e].prepared /\ plan'[e].owner = plan[e].owner
        /\ plan'[e].done = plan[e].done
    BY <1>1 DEF TypeOK, Plan
  <1>3. CarriedOf(e)'
    BY <1>1, <1>2 DEF Kept, CarriedOf
  <1>4. RecordOf(e)' /\ CleanOf(e)' /\ OwnOf(e)' /\ LiveOf(e)'
    BY <1>1, RecordSame
  <1> QED
    BY <1>3, <1>4, RestKept DEF Kept

(* A checkpoint after which the run goes on, or starts, at its checks.     *)
LEMMA SaveKept ==
  ASSUME IInv, KInv, NEW e \in Event, Turn(e), UNCHANGED <<disk, owner, staged>>,
         NEW pl \in Plan, NEW stage \in {"check", "size", "finish"}, Save(e, pl, stage),
         record[e].state # "none",
         pl.before = record[e].plan.before, pl.owner = record[e].plan.owner,
         pl.prepared = record[e].plan.prepared, pl.done = record[e].plan.done,
         \A p \in Path : pl.clean[p] \in {None, record[e].plan.clean[p]},
         pl.done => pl.after = pl.prepared,
         stage = "finish" => pl.done /\ pc[e] \notin {"idle", "size", "check"}
  PROVE  KInv'
  <1>1. Kept(e) /\ TypeOK
    BY Facts DEF KInv
  <1>2. /\ pc'[e] = stage /\ plan'[e] = pl
        /\ record'[e] = [state |-> "pending", plan |-> pl]
    BY <1>1 DEF Save, Keep, Go, TypeOK
  <1>3. CarriedOf(e)'
    BY <1>2 DEF CarriedOf
  <1>4. RecordOf(e)' /\ CleanOf(e)' /\ OwnOf(e)' /\ LiveOf(e)'
    <2>1. OwnVersion(e, staged'[e])
      BY <1>1 DEF Kept, RecordOf
    <2> QED
      BY <1>2, <2>1, RecordSaved
  <1>5. StageOf(e)'
    BY <1>2, <1>4 DEF StageOf, RecordOf, Writing, Written, Staging
  <1>6. GoneOf(e)'
    BY <1>2 DEF GoneOf
  <1>7. AwayOf(e)'
    BY <1>2, AwayKept
  <1> QED
    BY <1>3, <1>4, <1>5, <1>6, <1>7, RestKept DEF Kept

LEMMA BeginKept ==
  ASSUME IInv, KInv, NEW e \in Event, Begin(e)
  PROVE  KInv'
  <1> DEFINE plan_(n) == IF record[e].state = "none" THEN Build(e, n) ELSE record[e].plan
             st_(pl) == IF pl.sized \/ Started(pl) THEN "check" ELSE "size"
  <1>1. TypeOK /\ Kept(e) /\ Turn(e) /\ Out(e) \in Path /\ record[e].plan \in Plan
    BY Facts, ActTurn DEF KInv, Act
  <1>2. PICK n \in Readings : Save(e, plan_(n), st_(plan_(n)))
    BY DEF Begin
  <1>3. UNCHANGED <<disk, staged, owner>> /\ e \in arrived
    BY DEF Begin
  <1>4. CASE record[e].state # "none"
    <2>1. Save(e, record[e].plan, st_(record[e].plan))
      BY <1>2, <1>4
    <2>2. record[e].plan.done => record[e].plan.after = record[e].plan.prepared
      BY <1>1 DEF Kept, RecordOf
    <2> QED
      BY <1>1, <1>3, <1>4, <2>1, <2>2, SaveKept
  <1>5. CASE record[e].state = "none"
    <2> DEFINE pl == Build(e, n)
               st == st_(pl)
    <2>1. Save(e, pl, st) /\ pl \in Plan /\ st \in {"check", "size"}
      BY <1>1, <1>2, <1>5, BuildTyped
    <2>2. /\ pl.before = disk[Out(e)] /\ pl.owner = owner[Out(e)] /\ pl.prepared = None
          /\ pl.done = FALSE
          /\ \A p \in Path : pl.clean[p] =
               IF p \in Candidates(e) /\ disk[p] # None /\ Asked(e, p, n) # None
               THEN [before |-> disk[p], owner |-> owner[p],
                     at |-> Identity(e, p, n), probes |-> Probes(e, p, n),
                     siblings |-> Entries(Dir[p])
                                  \cup (IF Dir[p] = Dir[Out(e)] THEN {Out(e)} ELSE {})]
               ELSE None
      BY DEF Build, NoPlan
    <2> HIDE DEF pl, st
    <2>3. /\ pc'[e] = st /\ plan'[e] = pl
          /\ record'[e] = [state |-> "pending", plan |-> pl]
      BY <1>1, <2>1 DEF Save, Keep, Go, TypeOK
    <2>4. \A p \in Path : ~By(disk[p], {e})
      BY <1>1, <1>5 DEF Kept, OwnOf
    <2>5. CarriedOf(e)'
      BY <2>3 DEF CarriedOf
    <2>6. RecordOf(e)'
      <3>1. arrived' = arrived
        BY <1>1 DEF Turn, envVars
      <3> QED
        BY <1>1, <1>3, <2>2, <2>3, <2>4, <3>1 DEF Kept, RecordOf, OwnVersion, By
    <2>7. OwnOf(e)'
      BY <1>3, <2>4 DEF OwnOf, By
    <2>8. StageOf(e)' /\ GoneOf(e)'
      BY <2>1, <2>2, <2>3 DEF StageOf, GoneOf, Writing, Written, Staging
    <2>9. AwayOf(e)'
      BY <1>1, <2>1, <2>3, AwayKept
    <2>10. LiveOf(e)'
      BY <1>3, <2>2, <2>3 DEF LiveOf, Out
    <2>11. CleanOf(e)'
      <3> SUFFICES ASSUME NEW p \in Path, pl.clean[p] # None
                   PROVE  LET op == pl.clean[p]
                          IN  /\ p # Out(e)
                              /\ OutOf[op.at] = p
                              /\ op.probes # {} /\ \A c \in op.probes : OutOf[c] = p
                              /\ OwnerOk(p, op.owner)
                              /\ op.owner # None => op.owner.at \in op.probes
        BY <2>3 DEF CleanOf, OwnerOk, Out
      <3>1. /\ p \in Candidates(e) /\ disk[p] # None /\ Asked(e, p, n) # None
            /\ pl.clean[p].owner = owner[p] /\ pl.clean[p].at = Identity(e, p, n)
            /\ pl.clean[p].probes = Probes(e, p, n)
        <4>1. p \in Candidates(e) /\ disk[p] # None /\ Asked(e, p, n) # None
          BY <2>2
        <4>2. pl.clean[p] = [before |-> disk[p], owner |-> owner[p],
                  at |-> Identity(e, p, n), probes |-> Probes(e, p, n),
                  siblings |-> Entries(Dir[p])
                               \cup (IF Dir[p] = Dir[Out(e)] THEN {Out(e)} ELSE {})]
          BY <2>2, <4>1
        <4> QED
          BY <4>1, <4>2
      <3>2. OwnerOk(p, owner[p])
        BY DEF KInv
      <3>3. n[p] # None => OutOf[n[p]] = p
        <4>1. n[p] \in Named(p)
          BY DEF Readings
        <4>2. ASSUME disk[p][1] \in Event  PROVE OutOf[Target[disk[p][1]]] = p
          BY <3>1, <4>2 DEF KInv, Kept, OwnOf, By, Out
        <4> QED
          BY <3>1, <4>1, <4>2 DEF Named
      <3>4. OutOf[Asked(e, p, n)] = p /\ OutOf[Identity(e, p, n)] = p
        BY <3>1, <3>2, <3>3 DEF Asked, Identity, Moved, OwnerOk
      <3>5. owner[p] # None => owner[p].at \in Probes(e, p, n)
        BY DEF Probes, Identity
      <3> QED
        BY <3>1, <3>2, <3>4, <3>5 DEF Candidates, Probes
    <2> QED
      BY <1>1, <1>3, <2>5, <2>6, <2>7, <2>8, <2>9, <2>10, <2>11, RestKept DEF Kept
  <1> QED
    BY <1>4, <1>5

LEMMA ReopenKept ==
  ASSUME IInv, KInv, NEW e \in Event, Reopen(e)
  PROVE  KInv'
  <1> DEFINE pl == [record[e].plan EXCEPT !.sized = TRUE]
  <1>1. Kept(e) /\ Turn(e) /\ record[e].plan \in Plan
    BY Facts, ActTurn DEF KInv, Act
  <1>2. Save(e, pl, "check") /\ record[e].state = "superseded"
        /\ UNCHANGED <<disk, staged, owner>>
    BY DEF Reopen
  <1>3. /\ pl \in Plan
        /\ pl.before = record[e].plan.before /\ pl.owner = record[e].plan.owner
        /\ pl.prepared = record[e].plan.prepared /\ pl.done = record[e].plan.done
        /\ pl.clean = record[e].plan.clean /\ pl.after = record[e].plan.after
    BY <1>1 DEF Plan
  <1>4. pl.done => pl.after = pl.prepared
    BY <1>1, <1>3 DEF Kept, RecordOf
  <1> HIDE DEF pl
  <1> QED
    BY <1>1, <1>2, <1>3, <1>4, SaveKept

(* What the invariants say of an event whose run is under way.             *)
LEMMA Running ==
  ASSUME IInv, KInv, NEW e \in Event, pc[e] # "idle"
  PROVE  /\ TypeOK /\ Kept(e) /\ plan[e] \in Plan /\ Out(e) \in Path
         /\ record[e].state = "pending"
         /\ record[e].plan.before = plan[e].before /\ record[e].plan.owner = plan[e].owner
         /\ record[e].plan.clean = plan[e].clean /\ record[e].plan.done = plan[e].done
         /\ record[e].plan.prepared = plan[e].prepared
         /\ OwnVersion(e, staged[e]) /\ OwnVersion(e, plan[e].prepared)
         /\ ~By(plan[e].before, {e})
         /\ plan[e].done => plan[e].prepared # None /\ plan[e].after = plan[e].prepared
  <1>1. Kept(e) /\ Sound(e) /\ TypeOK /\ plan[e] \in Plan /\ Out(e) \in Path
    BY Facts DEF KInv
  <1> QED
    BY <1>1 DEF Kept, Sound, AgreeOf, CarriedOf, RecordOf, StageOf

(* A run that saves its own plan with less to clean up, or one effect more.*)
LEMMA ProgressKept ==
  ASSUME IInv, KInv, NEW e \in Event, Turn(e), pc[e] # "idle",
         UNCHANGED <<disk, owner, staged>>,
         NEW pl \in Plan, NEW stage \in {"check", "finish"}, Save(e, pl, stage),
         pl.before = plan[e].before, pl.owner = plan[e].owner,
         pl.prepared = plan[e].prepared, pl.done = plan[e].done, pl.after = plan[e].after,
         \A p \in Path : pl.clean[p] \in {None, plan[e].clean[p]},
         stage = "finish" => pl.done /\ pc[e] \notin {"size", "check"}
  PROVE  KInv'
  <1>1. pl.done => pl.after = pl.prepared
    BY Running
  <1>2. /\ record[e].state # "none"
        /\ pl.before = record[e].plan.before /\ pl.owner = record[e].plan.owner
        /\ pl.prepared = record[e].plan.prepared /\ pl.done = record[e].plan.done
        /\ \A p \in Path : pl.clean[p] \in {None, record[e].plan.clean[p]}
    BY Running
  <1>3. stage \in {"check", "size", "finish"}
    OBVIOUS
  <1> QED
    BY <1>1, <1>2, <1>3, SaveKept

LEMMA SupersedeKept ==
  ASSUME IInv, KInv, NEW e \in Event, Turn(e), pc[e] # "idle", Supersede(e),
         UNCHANGED <<disk, owner>>, OwnVersion(e, staged'[e]), ~Live(e)
  PROVE  KInv'
  BY EndKept DEF Supersede

LEMMA FreezeSizeKept ==
  ASSUME IInv, KInv, NEW e \in Event, FreezeSize(e)
  PROVE  KInv'
  <1> DEFINE pl == [plan[e] EXCEPT !.sized = TRUE]
  <1>1. Turn(e) /\ pc[e] = "size" /\ UNCHANGED <<disk, staged, owner>>
    BY ActTurn DEF Act, Step, FreezeSize
  <1>2. CASE Current(e)
    <2>1. Save(e, pl, "check")
      BY <1>2 DEF FreezeSize
    <2>2. /\ pl \in Plan
          /\ pl.before = plan[e].before /\ pl.owner = plan[e].owner
          /\ pl.prepared = plan[e].prepared /\ pl.done = plan[e].done
          /\ pl.after = plan[e].after /\ pl.clean = plan[e].clean
      BY <1>1, Running DEF Plan
    <2> HIDE DEF pl
    <2> QED
      BY <1>1, <2>1, <2>2, ProgressKept
  <1>3. CASE ~Current(e)
    <2>1. Supersede(e) /\ ~Live(e)
      BY <1>3 DEF FreezeSize, Live
    <2> QED
      BY <1>1, <2>1, Running, SupersedeKept
  <1> QED
    BY <1>2, <1>3

LEMMA CheckKept ==
  ASSUME IInv, KInv, NEW e \in Event, Check(e)
  PROVE  KInv'
  <1>1. Turn(e) /\ pc[e] = "check" /\ UNCHANGED <<disk, staged, owner>>
    BY ActTurn DEF Act, Step, Check
  <1>2. CASE Current(e)
    <2> DEFINE st == IF ~plan[e].done THEN "write"
                     ELSE IF Undeleted(plan[e]) # {} THEN "delete"
                     ELSE IF plan[e].effects < Effects THEN "effect" ELSE "finish"
    <2>1. Go(e, st) /\ UNCHANGED <<record, plan>>
      BY <1>2 DEF Check
    <2>2. /\ st \in {"write", "delete", "effect", "finish"}
          /\ st = "write" <=> ~plan[e].done
      OBVIOUS
    <2> HIDE DEF st
    <2>3. pc'[e] = st
      BY <1>1, <2>1, Running DEF Go, TypeOK
    <2>4. StageOf(e)'
      BY <1>1, <2>1, <2>2, <2>3, Running DEF StageOf, Writing, Written, Staging
    <2>5. GoneOf(e)'
      BY <2>2, <2>3 DEF GoneOf
    <2>6. AwayOf(e)'
      BY <1>1, <1>2, <2>2, <2>3, AwayKept
    <2> QED
      BY <1>1, <2>1, <2>4, <2>5, <2>6, Running, GoKept
  <1>3. CASE ~Current(e)
    <2>1. Supersede(e) /\ ~Live(e)
      BY <1>3 DEF Check, Live
    <2> QED
      BY <1>1, <2>1, Running, SupersedeKept
  <1> QED
    BY <1>2, <1>3

(* Nothing of the kind of a deletion, or of what waits for its checks.     *)
LEMMA AwayWriting ==
  ASSUME IInv, KInv, NEW e \in Event, Turn(e), pc[e] \notin {"idle", "size", "check"},
         pc'[e] \notin {"recheck", "unlink", "forget"}
  PROVE  AwayOf(e)' /\ GoneOf(e)'
  BY AwayKept DEF GoneOf

LEMMA WriteKept ==
  ASSUME IInv, KInv, NEW e \in Event, Write(e)
  PROVE  KInv'
  <1>1. Turn(e) /\ pc[e] = "write" /\ UNCHANGED <<disk, staged, owner>>
    BY ActTurn DEF Act, Step, Write
  <1>2. Kept(e) /\ ~plan[e].done /\ TypeOK
    BY <1>1, Running DEF Kept, StageOf, Writing
  <1>3. CASE Published(e) /\ plan' = [plan EXCEPT ![e].after = disk[Out(e)]]
             /\ Go(e, "complete") /\ UNCHANGED <<record, holder, victim>>
    <2>1. pc'[e] = "complete"
      BY <1>2, <1>3 DEF Go, TypeOK
    <2>2. /\ plan'[e].after = plan[e].prepared /\ plan'[e].prepared = plan[e].prepared
          /\ plan'[e].done = plan[e].done /\ plan[e].prepared # None
          /\ disk[Out(e)] = plan[e].prepared
      BY <1>1, <1>3, Running DEF Published, TypeOK, Plan
    <2>3. StageOf(e)'
      BY <1>1, <1>2, <2>1, <2>2 DEF StageOf, Writing, Written, Staging, Out
    <2>4. GoneOf(e)' /\ AwayOf(e)'
      BY <1>1, <2>1, AwayWriting
    <2>5. disk[Out(e)] \in OptVersion
      BY <1>1, Facts
    <2> QED
      BY <1>1, <1>3, <2>3, <2>4, <2>5, Running, GoKept
  <1>4. CASE /\ Untouched(e)
             /\ Go(e, IF plan[e].prepared # None /\ staged[e] = plan[e].prepared
                      THEN "confirm" ELSE "prepare")
             /\ UNCHANGED <<record, holder, plan, victim>>
    <2> DEFINE st == IF plan[e].prepared # None /\ staged[e] = plan[e].prepared
                     THEN "confirm" ELSE "prepare"
    <2>1. pc'[e] = st
      BY <1>2, <1>4 DEF Go, TypeOK
    <2>2. /\ st \in {"confirm", "prepare"}
          /\ st = "confirm" => plan[e].prepared # None /\ staged[e] = plan[e].prepared
      OBVIOUS
    <2> HIDE DEF st
    <2>3. ~By(disk[Out(e)], {e}) /\ owner[Out(e)] = plan[e].owner
      BY <1>1, <1>4, Running DEF Untouched
    <2>4. StageOf(e)'
      BY <1>1, <1>2, <1>4, <2>1, <2>2, <2>3
      DEF StageOf, Writing, Written, Staging, Out, By
    <2>5. GoneOf(e)' /\ AwayOf(e)'
      BY <1>1, <2>1, <2>2, AwayWriting
    <2> QED
      BY <1>1, <1>4, <2>4, <2>5, Running, GoKept
  <1>5. CASE ~Published(e) /\ ~Untouched(e) /\ Supersede(e)
    <2>1. By(disk[Out(e)], {e}) => Published(e)
      BY <1>1, <1>2, Running DEF Kept, OwnOf, Published, By
    <2>2. ~Live(e)
      BY <1>1, <1>2, <1>5, <2>1, Running DEF Kept, LiveOf, Untouched
    <2> QED
      BY <1>1, <1>5, <2>2, Running, SupersedeKept
  <1> QED
    BY <1>3, <1>4, <1>5 DEF Write

LEMMA PrepareKept ==
  ASSUME IInv, KInv, NEW e \in Event, Prepare(e)
  PROVE  KInv'
  <1>1. Turn(e) /\ pc[e] = "prepare" /\ UNCHANGED <<disk, record, owner, plan>>
    BY ActTurn DEF Act, Step, Prepare, dbVars
  <1>2. Kept(e) /\ TypeOK
    BY <1>1, Running
  <1>3. pc'[e] = "prepared" /\ staged'[e] = <<e, made[e] + 1>>
    BY <1>2 DEF Prepare, Go, TypeOK
  <1>4. staged'[e] # None
    <2>1. made[e] + 1 \in Nat \ {0}
      BY <1>2 DEF TypeOK
    <2>2. staged'[e] \in Version
      BY <1>3, <2>1 DEF Version
    <2> QED
      BY <2>2, PostAssumption
  <1>5. OwnVersion(e, staged'[e])
    BY <1>3, <1>4 DEF OwnVersion, By
  <1>6. StageOf(e)'
    BY <1>1, <1>2, <1>3, <1>4 DEF Kept, StageOf, Writing, Written, Staging, Out, By
  <1>7. GoneOf(e)' /\ AwayOf(e)'
    BY <1>1, <1>3, AwayWriting
  <1> QED
    BY <1>1, <1>5, <1>6, <1>7, GoKept

LEMMA SavePreparedKept ==
  ASSUME IInv, KInv, NEW e \in Event, SavePrepared(e)
  PROVE  KInv'
  <1> DEFINE pl == [plan[e] EXCEPT !.prepared = staged[e]]
  <1>1. Turn(e) /\ pc[e] = "prepared" /\ UNCHANGED <<disk, staged, owner>>
    BY ActTurn DEF Act, Step, SavePrepared
  <1>2. Kept(e) /\ TypeOK /\ plan[e] \in Plan
    BY <1>1, Running
  <1>3. Save(e, pl, "confirm")
    BY DEF SavePrepared
  <1>4. /\ pl.before = plan[e].before /\ pl.owner = plan[e].owner
        /\ pl.prepared = staged[e] /\ pl.done = plan[e].done
        /\ pl.after = plan[e].after /\ pl.clean = plan[e].clean
    BY <1>2 DEF Plan
  <1> HIDE DEF pl
  <1>5. /\ pc'[e] = "confirm" /\ plan'[e] = pl
        /\ record'[e] = [state |-> "pending", plan |-> pl]
    BY <1>2, <1>3 DEF Save, Keep, Go, TypeOK
  <1>6. record'[e].state = "pending" /\ record'[e].plan = pl
    BY <1>5
  <1>7. /\ ~plan[e].done /\ staged[e] # None
        /\ ~By(disk[Out(e)], {e}) /\ owner[Out(e)] = plan[e].owner
    BY <1>1, <1>2 DEF Kept, StageOf, Writing, Staging
  <1>8. CarriedOf(e)'
    BY <1>5, <1>6 DEF CarriedOf
  <1>9. StageOf(e)'
    BY <1>1, <1>4, <1>5, <1>7 DEF StageOf, Writing, Written, Staging, Out, By
  <1>10. RecordOf(e)'
    <2>1. arrived' = arrived
      BY <1>1 DEF Turn, envVars
    <2> QED
      BY <1>1, <1>2, <1>4, <1>6, <1>7, <2>1, Running DEF Kept, RecordOf, OwnVersion, By
  <1>11. CleanOf(e)'
    BY <1>1, <1>2, <1>4, <1>6, Running, CleanSame DEF Kept
  <1>12. OwnOf(e)'
    BY <1>1, <1>2, <1>7 DEF Kept, OwnOf, Out, By
  <1>13. LiveOf(e)'
    <2>1. Live(e)' <=> Live(e)
      BY <1>1, <1>6, Running
      DEF Live, Current, NothingRestored, SharedOutput, Out, Turn, envVars
    <2> QED
      BY <1>1, <1>2, <1>4, <1>6, <1>7, <2>1, Running DEF Kept, LiveOf, Out, By
  <1>14. GoneOf(e)' /\ AwayOf(e)'
    BY <1>1, <1>5, AwayWriting
  <1> QED
    BY <1>1, <1>8, <1>9, <1>10, <1>11, <1>12, <1>13, <1>14, RestKept DEF Kept

(* A check that holds, or else gives the event up and drops what is staged.*)
LEMMA GuardKept ==
  ASSUME IInv, KInv, NEW e \in Event, Turn(e), NEW stage, NEW next, NEW holds \in BOOLEAN,
         <<stage, next>> \in {<<"confirm", "compare">>, <<"compare", "publish">>},
         Guard(e, stage, holds, next),
         ~holds => ~Live(e)
  PROVE  KInv'
  <1>1. pc[e] = stage /\ pc[e] \in {"confirm", "compare"}
        /\ UNCHANGED <<disk, owner>>
    BY DEF Guard
  <1>2. Kept(e) /\ TypeOK
    BY <1>1, Running
  <1>3. CASE holds
    <2>1. Go(e, next) /\ UNCHANGED <<staged, record, plan>>
      BY <1>3 DEF Guard
    <2>2. pc'[e] = next /\ next \in {"compare", "publish"}
      BY <1>2, <2>1 DEF Go, TypeOK
    <2>3. StageOf(e)'
      BY <1>1, <1>2, <2>1, <2>2 DEF Kept, StageOf, Writing, Written, Staging, Out, By
    <2>4. GoneOf(e)' /\ AwayOf(e)'
      BY <1>1, <2>2, AwayWriting
    <2> QED
      BY <1>1, <2>1, <2>3, <2>4, Running, GoKept
  <1>4. CASE ~holds
    <2>1. staged' = [staged EXCEPT ![e] = None] /\ Supersede(e)
      BY <1>4 DEF Guard
    <2>2. OwnVersion(e, staged'[e])
      BY <1>2, <2>1 DEF OwnVersion, TypeOK
    <2> QED
      BY <1>1, <1>4, <2>1, <2>2, SupersedeKept
  <1> QED
    BY <1>3, <1>4

LEMMA ConfirmKept ==
  ASSUME IInv, KInv, NEW e \in Event, Confirm(e)
  PROVE  KInv'
  <1>1. Turn(e)
    BY ActTurn DEF Act, Step
  <1>2. ~Current(e) => ~Live(e)
    BY DEF Live
  <1>3. Current(e) \in BOOLEAN
    BY DEF Current
  <1> QED
    BY <1>1, <1>2, <1>3, GuardKept DEF Confirm

LEMMA CompareKept ==
  ASSUME IInv, KInv, NEW e \in Event, Compare(e)
  PROVE  KInv'
  <1>1. Turn(e) /\ pc[e] = "compare"
    BY ActTurn DEF Act, Step, Compare, Guard
  <1>2. ASSUME Live(e)  PROVE disk[Out(e)] = plan[e].before
    <2>1. ~By(disk[Out(e)], {e}) /\ ~plan[e].done
      BY <1>1, Running DEF Kept, StageOf, Staging, Writing
    <2> QED
      BY <1>1, <1>2, <2>1, Running DEF Kept, LiveOf
  <1> QED
    BY <1>1, <1>2, GuardKept DEF Compare

(* A file or an owner changed: what it means for the other events.         *)
LEMMA ChangeKept ==
  ASSUME IInv, KInv, NEW e \in Event, Turn(e), Kept(e)',
         \A p \in Path : OwnerOk(p, owner'[p]),
         \A f \in Event \ {e} :
            /\ \A p \in Path : By(disk'[p], {f}) => disk'[p] = disk[p] /\ owner'[p] = owner[p]
            /\ Live(f) => disk'[Out(f)] = disk[Out(f)] /\ owner'[Out(f)] = owner[Out(f)]
  PROVE  KInv'
  <1>1. \A f \in Event : f # e => Kept(f)'
    BY OthersKept
  <1>2. RemovalsCounted'
    BY DEF KInv, RemovalsCounted, Turn, envVars
  <1>3. \A p \in Path : OwnerOk(p, owner[p])'
    BY DEF OwnerOk, Out
  <1> QED
    BY <1>1, <1>2, <1>3 DEF KInv

LEMMA PublishKept ==
  ASSUME IInv, KInv, NEW e \in Event, Publish(e)
  PROVE  KInv'
  <1>1. Turn(e) /\ pc[e] = "publish" /\ UNCHANGED <<owner, record, plan>>
    BY ActTurn DEF Act, Step, Publish, dbVars
  <1>2. Kept(e) /\ TypeOK /\ Out(e) \in Path
    BY <1>1, Running
  <1>3. /\ staged[e] = plan[e].prepared /\ plan[e].prepared # None /\ ~plan[e].done
        /\ owner[Out(e)] = plan[e].owner /\ By(staged[e], {e})
    BY <1>1, <1>2, Running DEF Kept, StageOf, Writing, Staging, OwnVersion
  <1>4. /\ pc'[e] = "verify" /\ staged'[e] = None
        /\ disk'[Out(e)] = plan[e].prepared
        /\ \A p \in Path : p # Out(e) => disk'[p] = disk[p]
    BY <1>2, <1>3 DEF Publish, Go, TypeOK
  <1>5. CarriedOf(e)'
    BY <1>1, <1>2 DEF Kept, CarriedOf
  <1>6. StageOf(e)'
    BY <1>1, <1>3, <1>4 DEF StageOf, Writing, Written, Staging, Out
  <1>7. RecordOf(e)'
    <2>1. arrived' = arrived
      BY <1>1 DEF Turn, envVars
    <2> QED
      BY <1>1, <1>2, <1>4, <2>1 DEF Kept, RecordOf, OwnVersion, By
  <1>8. CleanOf(e)'
    BY <1>1, <1>2, CleanSame DEF Kept
  <1>9. OwnOf(e)'
    <2> SUFFICES ASSUME NEW p \in Path, By(disk'[p], {e})
                 PROVE  /\ p = Out(e)
                        /\ record[e].state # "none"
                        /\ disk'[p] = record[e].plan.prepared
                        /\ ~record[e].plan.done => owner[p] = record[e].plan.owner
      BY <1>1 DEF OwnOf, Out, By
    <2>1. p = Out(e)
      BY <1>2, <1>4 DEF Kept, OwnOf, By
    <2> QED
      BY <1>1, <1>3, <1>4, <2>1, Running
  <1>10. LiveOf(e)'
    <2>1. Live(e)' <=> Live(e)
      BY <1>1 DEF Live, Current, NothingRestored, SharedOutput, Out, Turn, envVars
    <2>2. By(disk'[Out(e)], {e})
      BY <1>3, <1>4
    <2>3. By(disk[Out(e)], {e})'
      BY <2>2 DEF By, Out
    <2> QED
      BY <1>1, <1>2, <2>1, <2>3 DEF Kept, LiveOf
  <1>11. GoneOf(e)' /\ AwayOf(e)'
    BY <1>1, <1>4, AwayWriting
  <1>12. ASSUME NEW f \in Event \ {e}
         PROVE  /\ \A p \in Path : By(disk'[p], {f}) => disk'[p] = disk[p]
                /\ Live(f) => disk'[Out(f)] = disk[Out(f)]
    <2>1. ~By(plan[e].prepared, {f})
      BY <1>3 DEF By
    <2>2. Live(f) => Out(f) # Out(e)
      BY <1>1, <1>2 DEF Kept, AwayOf
    <2>3. Out(f) \in Path
      BY PostAssumption DEF Out
    <2> QED
      BY <1>4, <2>1, <2>2, <2>3 DEF By
  <1>13. \A p \in Path : OwnerOk(p, owner'[p])
    BY <1>1 DEF KInv
  <1>14. Kept(e)'
    BY <1>5, <1>6, <1>7, <1>8, <1>9, <1>10, <1>11 DEF Kept
  <1> QED
    BY <1>1, <1>12, <1>13, <1>14, ChangeKept

LEMMA VerifyKept ==
  ASSUME IInv, KInv, NEW e \in Event, Verify(e)
  PROVE  KInv'
  <1>1. Turn(e) /\ pc[e] = "verify" /\ UNCHANGED <<disk, staged, owner>>
    BY ActTurn DEF Act, Step, Verify
  <1>2. Kept(e) /\ TypeOK /\ plan[e] \in Plan
    BY <1>1, Running
  <1>3. CASE disk[Out(e)] = plan[e].prepared
    <2>1. plan' = [plan EXCEPT ![e].after = disk[Out(e)]] /\ Go(e, "complete")
          /\ UNCHANGED record
      BY <1>3 DEF Verify
    <2>2. /\ plan'[e].after = plan[e].prepared /\ plan'[e].prepared = plan[e].prepared
          /\ plan'[e].done = plan[e].done /\ pc'[e] = "complete"
      BY <1>2, <1>3, <2>1 DEF Go, TypeOK, Plan
    <2>3. StageOf(e)'
      BY <1>1, <1>2, <1>3, <2>2 DEF Kept, StageOf, Writing, Written, Staging, Out
    <2>4. GoneOf(e)' /\ AwayOf(e)'
      BY <1>1, <2>2, AwayWriting
    <2>5. disk[Out(e)] \in OptVersion
      BY Facts
    <2> QED
      BY <1>1, <2>1, <2>3, <2>4, <2>5, Running, GoKept
  <1>4. CASE disk[Out(e)] # plan[e].prepared
    <2>1. Supersede(e)
      BY <1>4 DEF Verify
    <2>2. ~Live(e)
      BY <1>1, <1>2, <1>4 DEF Kept, StageOf, Live
    <2> QED
      BY <1>1, <2>1, <2>2, Running, SupersedeKept
  <1> QED
    BY <1>3, <1>4

LEMMA CompleteWriteKept ==
  ASSUME IInv, KInv, NEW e \in Event, CompleteWrite(e)
  PROVE  KInv'
  <1> DEFINE pl == [plan[e] EXCEPT !.done = TRUE]
  <1>1. Turn(e) /\ pc[e] = "complete" /\ UNCHANGED <<disk, staged>>
    BY ActTurn DEF Act, Step, CompleteWrite
  <1>2. Kept(e) /\ TypeOK /\ plan[e] \in Plan /\ Out(e) \in Path
    BY <1>1, Running
  <1>3. Save(e, pl, After(pl)) /\ owner' = [owner EXCEPT ![Out(e)] =
           [event |-> e, at |-> Target[e], print |-> pl.after]]
    BY DEF CompleteWrite
  <1>4. /\ pl.before = plan[e].before /\ pl.owner = plan[e].owner
        /\ pl.prepared = plan[e].prepared /\ pl.done = TRUE
        /\ pl.after = plan[e].after /\ pl.clean = plan[e].clean
    BY <1>2 DEF Plan
  <1> HIDE DEF pl
  <1>5. /\ pc'[e] = After(pl) /\ plan'[e] = pl
        /\ record'[e] = [state |-> "pending", plan |-> pl]
    BY <1>2, <1>3 DEF Save, Keep, Go, TypeOK
  <1>6. record'[e].state = "pending" /\ record'[e].plan = pl
        /\ pc'[e] \in {"finish", "check"}
    BY <1>5, AfterFacts
  <1>7. /\ plan[e].after = plan[e].prepared /\ plan[e].prepared # None
        /\ tampers = 0 \/ By(disk[Out(e)], Event) => disk[Out(e)] = plan[e].prepared
    BY <1>1, <1>2 DEF Kept, StageOf
  <1>8. CarriedOf(e)'
    BY <1>5, <1>6 DEF CarriedOf
  <1>9. StageOf(e)'
    BY <1>4, <1>5, <1>6, <1>7 DEF StageOf, Writing, Written, Staging
  <1>10. RecordOf(e)'
    <2>1. arrived' = arrived
      BY <1>1 DEF Turn, envVars
    <2> QED
      BY <1>1, <1>2, <1>4, <1>6, <1>7, <2>1, Running DEF Kept, RecordOf, OwnVersion, By
  <1>11. CleanOf(e)'
    BY <1>1, <1>2, <1>4, <1>6, Running, CleanSame DEF Kept
  <1>12. OwnOf(e)'
    BY <1>1, <1>2, <1>4, <1>6, Running DEF Kept, OwnOf, Out, By
  <1>13. LiveOf(e)'
    <2>1. Live(e)' <=> Live(e)
      BY <1>1, <1>6, Running
      DEF Live, Current, NothingRestored, SharedOutput, Out, Turn, envVars
    <2>2. Live(e) => By(disk[Out(e)], {e})
      BY <1>1, <1>7, Running DEF Live, OwnVersion
    <2>3. By(disk[Out(e)], {e})' <=> By(disk[Out(e)], {e})
      BY <1>1 DEF By, Out
    <2> QED
      BY <1>4, <1>6, <2>1, <2>2, <2>3 DEF LiveOf
  <1>14. GoneOf(e)' /\ AwayOf(e)'
    BY <1>1, <1>6, AwayWriting
  <1>15. ASSUME NEW f \in Event \ {e}
         PROVE  /\ \A p \in Path : By(disk'[p], {f}) =>
                                      disk'[p] = disk[p] /\ owner'[p] = owner[p]
                /\ Live(f) => disk'[Out(f)] = disk[Out(f)] /\ owner'[Out(f)] = owner[Out(f)]
    <2>1. ~By(disk[Out(e)], {f})
      BY <1>1, <1>7, Running DEF OwnVersion, By
    <2>2. Live(f) => Out(f) # Out(e)
      BY <1>1, <1>2 DEF Kept, AwayOf
    <2>3. Out(f) \in Path
      BY PostAssumption DEF Out
    <2>4. \A p \in Path : p # Out(e) => owner'[p] = owner[p]
      BY <1>2, <1>3 DEF TypeOK
    <2> QED
      BY <1>1, <2>1, <2>2, <2>3, <2>4
  <1>16. ASSUME NEW p \in Path  PROVE OwnerOk(p, owner'[p])
    <2>1. CASE p = Out(e)
      <3>1. owner'[p] = [event |-> e, at |-> Target[e], print |-> pl.after]
        BY <1>2, <1>3, <2>1 DEF TypeOK
      <3> QED
        BY <2>1, <3>1 DEF OwnerOk, Out
    <2>2. CASE p # Out(e)
      <3>1. owner'[p] = owner[p]
        BY <1>2, <1>3, <2>2 DEF TypeOK
      <3> QED
        BY <3>1 DEF KInv
    <2> QED
      BY <2>1, <2>2
  <1>17. Kept(e)'
    BY <1>8, <1>9, <1>10, <1>11, <1>12, <1>13, <1>14 DEF Kept
  <1> QED
    BY <1>1, <1>15, <1>16, <1>17, ChangeKept

(* A planned file that is skipped is struck off.                           *)
LEMMA SkipKept ==
  ASSUME IInv, KInv, NEW e \in Event, Turn(e), UNCHANGED <<disk, owner, staged>>,
         pc[e] \in Written, NEW p \in Path, Skip(e, p)
  PROVE  KInv'
  <1> DEFINE pl == Deleted(plan[e], p)
  <1>1. pc[e] # "idle" /\ plan[e] \in Plan
    BY Facts DEF Written
  <1>2. Save(e, pl, After(pl)) /\ pl \in Plan
    <2>1. None \in OptVersion
      BY DEF OptVersion
    <2> QED
      BY <1>1, <2>1, PlanEdits DEF Skip
  <1>3. /\ pl.before = plan[e].before /\ pl.owner = plan[e].owner
        /\ pl.prepared = plan[e].prepared /\ pl.done = plan[e].done
        /\ pl.after = plan[e].after
        /\ \A q \in Path : pl.clean[q] \in {None, plan[e].clean[q]}
    BY <1>1 DEF Plan, Deleted
  <1>4. pl.done
    BY <1>1, <1>3, Running DEF Kept, StageOf
  <1> HIDE DEF pl
  <1>5. PICK st \in {"check", "finish"} : st = After(pl)
    BY AfterFacts
  <1>6. Save(e, pl, st) /\ pc[e] \notin {"size", "check"}
    BY <1>2, <1>5 DEF Written
  <1>7. st = "finish" => pl.done /\ pc[e] \notin {"size", "check"}
    BY <1>4, <1>6
  <1>8. pl \in Plan /\ pc[e] # "idle" /\ Save(e, pl, st)
    BY <1>1, <1>2, <1>6
  <1> QED
    BY <1>3, <1>7, <1>8, ProgressKept

LEMMA DeleteKept ==
  ASSUME IInv, KInv, NEW e \in Event, Delete(e)
  PROVE  KInv'
  <1>1. Turn(e) /\ pc[e] = "delete" /\ UNCHANGED <<disk, staged, owner>>
    BY ActTurn DEF Act, Step, Delete
  <1>2. Kept(e) /\ TypeOK /\ plan[e].done
    BY <1>1, Running DEF Kept, StageOf, Written
  <1>3. CASE disk[Out(e)] # plan[e].after /\ Supersede(e)
    <2>1. By(disk[Out(e)], {e}) => disk[Out(e)] = plan[e].after
      BY <1>1, <1>2, Running DEF Kept, OwnOf
    <2>2. ~Live(e)
      BY <1>1, <1>2, <1>3, <2>1, Running DEF Kept, LiveOf
    <2> QED
      BY <1>1, <1>3, <2>2, Running, SupersedeKept
  <1>4. ASSUME NEW p \in Path, Skip(e, p)  PROVE KInv'
    BY <1>1, <1>4, SkipKept DEF Written
  <1>5. CASE Go(e, "probe") /\ UNCHANGED <<record, holder, plan>>
    <2>1. pc'[e] = "probe"
      BY <1>2, <1>5 DEF Go, TypeOK
    <2>2. StageOf(e)'
      BY <1>1, <1>2, <1>5, <2>1, Running DEF StageOf, Writing, Written, Staging
    <2>3. GoneOf(e)' /\ AwayOf(e)'
      BY <1>1, <2>1, AwayWriting
    <2> QED
      BY <1>1, <1>5, <2>2, <2>3, Running, GoKept
  <1> QED
    BY <1>3, <1>4, <1>5 DEF Delete, Undeleted

LEMMA ProbeKept ==
  ASSUME IInv, KInv, NEW e \in Event, Probe(e)
  PROVE  KInv'
  <1>1. Turn(e) /\ pc[e] = "probe" /\ UNCHANGED <<disk, staged, owner>>
    BY ActTurn DEF Act, Step, Probe
  <1>2. Kept(e) /\ TypeOK /\ plan[e].done
    BY <1>1, Running DEF Kept, StageOf, Written
  <1>3. /\ victim[e] \in Path \X OptVersion /\ victim[e][1] \in Path
        /\ plan[e].clean[victim[e][1]] # None
    BY <1>1, VictimFacts
  <1>4. CASE CloudGone(e, victim[e][1])
    <2>1. Go(e, "recheck") /\ UNCHANGED <<record, plan, victim>>
      BY <1>4 DEF Probe
    <2>2. pc'[e] = "recheck"
      BY <1>2, <2>1 DEF Go, TypeOK
    <2>3. StageOf(e)'
      BY <1>1, <1>2, <2>1, <2>2, Running DEF StageOf, Writing, Written, Staging
    <2>4. GoneOf(e)'
      <3>1. cloud' = cloud
        BY <1>1 DEF Turn, envVars
      <3>2. \A c \in plan[e].clean[victim[e][1]].probes : cloud'[c] = None
        BY <1>4, <3>1 DEF CloudGone
      <3> QED
        BY <2>1, <3>2, PostAssumption DEF GoneOf
    <2>5. AwayOf(e)'
      BY <1>1, <1>3, <1>4, <2>1, AwayKept
    <2> QED
      BY <1>1, <2>1, <2>3, <2>4, <2>5, Running, GoKept
  <1>5. CASE ~CloudGone(e, victim[e][1])
    <2>1. Skip(e, victim[e][1])
      BY <1>5 DEF Probe
    <2> QED
      BY <1>1, <1>3, <2>1, SkipKept DEF Written
  <1> QED
    BY <1>4, <1>5

LEMMA RecheckKept ==
  ASSUME IInv, KInv, NEW e \in Event, Recheck(e)
  PROVE  KInv'
  <1>1. Turn(e) /\ pc[e] = "recheck" /\ UNCHANGED <<disk, staged, owner>>
    BY ActTurn DEF Act, Step, Recheck
  <1>2. Kept(e) /\ TypeOK /\ plan[e].done /\ OwnVersion(e, staged[e])
    BY <1>1, Running DEF Kept, StageOf, Written
  <1>3. victim[e][1] \in Path
    BY <1>1, VictimFacts
  <1>4. CASE End(e) /\ UNCHANGED record
    BY <1>1, <1>2, <1>4, EndKept
  <1>5. CASE Skip(e, victim[e][1])
    BY <1>1, <1>3, <1>5, SkipKept DEF Written
  <1>6. CASE /\ disk[victim[e][1]] = victim[e][2]
             /\ owner[victim[e][1]] = plan[e].clean[victim[e][1]].owner
             /\ Go(e, IF victim[e][2] = None THEN "forget" ELSE "unlink")
             /\ UNCHANGED <<record, holder, plan, victim>>
    <2> DEFINE st == IF victim[e][2] = None THEN "forget" ELSE "unlink"
    <2>1. pc'[e] = st
      BY <1>2, <1>6 DEF Go, TypeOK
    <2>2. st \in {"forget", "unlink"} /\ (st = "forget" => victim[e][2] = None)
      OBVIOUS
    <2> HIDE DEF st
    <2>3. StageOf(e)'
      BY <1>1, <1>2, <1>6, <2>1, <2>2, Running DEF StageOf, Writing, Written, Staging, By
    <2>4. GoneOf(e)'
      <3>1. UNCHANGED <<cloud, trash, removals>>
        BY <1>1 DEF Turn, envVars
      <3> QED
        BY <1>1, <1>2, <1>6, <2>1, <2>2, <3>1 DEF Kept, GoneOf, NothingRestored
    <2>5. AwayOf(e)'
      BY <1>1, <1>6, AwayKept
    <2> QED
      BY <1>1, <1>2, <1>6, <2>3, <2>4, <2>5, GoKept
  <1>7. \/ End(e) /\ UNCHANGED record
        \/ Skip(e, victim[e][1])
        \/ /\ disk[victim[e][1]] = victim[e][2]
           /\ owner[victim[e][1]] = plan[e].clean[victim[e][1]].owner
           /\ Go(e, IF victim[e][2] = None THEN "forget" ELSE "unlink")
           /\ UNCHANGED <<record, holder, plan, victim>>
    BY DEF Recheck
  <1> QED
    BY <1>4, <1>5, <1>6, <1>7

(* The file being deleted is not the event's own output.                   *)
LEMMA VictimKept ==
  ASSUME IInv, KInv, NEW e \in Event, pc[e] \in {"recheck", "unlink", "forget"}
  PROVE  /\ victim[e][1] \in Path /\ victim[e][1] # Out(e)
         /\ plan[e].clean[victim[e][1]] \in Deletion
         /\ plan[e].clean[victim[e][1]] # None
         /\ OutOf[plan[e].clean[victim[e][1]].at] = victim[e][1]
         /\ plan[e].done
  <1> DEFINE p == victim[e][1]
  <1>1. p \in Path /\ plan[e].clean[p] # None
    BY VictimFacts
  <1>2. record[e].plan.clean = plan[e].clean /\ Kept(e) /\ plan[e] \in Plan
    BY Running
  <1>3. plan[e].clean[p] \in Deletion
    BY <1>1, <1>2 DEF Plan
  <1>4. p # Out(e) /\ OutOf[plan[e].clean[p].at] = p
    BY <1>1, <1>2 DEF Kept, CleanOf
  <1>5. plan[e].done
    BY <1>2 DEF Kept, StageOf, Written
  <1> QED
    BY <1>1, <1>3, <1>4, <1>5

LEMMA UnlinkKept ==
  ASSUME IInv, KInv, NEW e \in Event, Unlink(e)
  PROVE  KInv'
  <1> DEFINE p == victim[e][1]
  <1>1. Turn(e) /\ pc[e] = "unlink" /\ UNCHANGED <<owner, record, plan, victim, staged>>
    BY ActTurn DEF Act, Step, Unlink, dbVars
  <1>2. Kept(e) /\ TypeOK /\ Out(e) \in Path
    BY <1>1, Running
  <1>3. p \in Path /\ p # Out(e) /\ plan[e].done
    BY <1>1, VictimKept
  <1>4. /\ pc'[e] = "forget" /\ disk'[p] = None
        /\ \A q \in Path : q # p => disk'[q] = disk[q]
    BY <1>2, <1>3 DEF Unlink, Go, TypeOK
  <1>5. CarriedOf(e)'
    BY <1>1, <1>2 DEF Kept, CarriedOf
  <1>6. StageOf(e)'
    BY <1>1, <1>3, <1>4, Running DEF StageOf, Writing, Written, Staging, By
  <1>7. RecordOf(e)'
    <2>1. arrived' = arrived
      BY <1>1 DEF Turn, envVars
    <2> QED
      BY <1>1, <1>2, <2>1 DEF Kept, RecordOf, OwnVersion, By
  <1>8. CleanOf(e)'
    BY <1>1, <1>2, CleanSame DEF Kept
  <1>9. OwnOf(e)'
    BY <1>1, <1>2, <1>4 DEF Kept, OwnOf, Out, By
  <1>10. LiveOf(e)'
    <2>1. Live(e)' <=> Live(e)
      BY <1>1 DEF Live, Current, NothingRestored, SharedOutput, Out, Turn, envVars
    <2>2. disk'[Out(e)] = disk[Out(e)] /\ Out(e)' = Out(e)
      BY <1>2, <1>3, <1>4 DEF Out
    <2> QED
      BY <1>1, <1>2, <2>1, <2>2 DEF Kept, LiveOf
  <1>11. GoneOf(e)'
    BY <1>4 DEF GoneOf
  <1>12. AwayOf(e)'
    BY <1>1, AwayKept
  <1>13. ASSUME NEW f \in Event \ {e}
         PROVE  /\ \A q \in Path : By(disk'[q], {f}) => disk'[q] = disk[q]
                /\ Live(f) => disk'[Out(f)] = disk[Out(f)]
    <2>1. Live(f) => Out(f) # p
      BY <1>1, <1>2 DEF Kept, AwayOf
    <2>2. Out(f) \in Path
      BY PostAssumption DEF Out
    <2> QED
      BY <1>4, <2>1, <2>2 DEF By
  <1>14. \A q \in Path : OwnerOk(q, owner'[q])
    BY <1>1 DEF KInv
  <1>15. Kept(e)'
    BY <1>5, <1>6, <1>7, <1>8, <1>9, <1>10, <1>11, <1>12 DEF Kept
  <1> QED
    BY <1>1, <1>13, <1>14, <1>15, ChangeKept

LEMMA ForgetKept ==
  ASSUME IInv, KInv, NEW e \in Event, Forget(e)
  PROVE  KInv'
  <1> DEFINE p == victim[e][1]
             pl == Deleted(plan[e], p)
             tombstone == [event |-> e, at |-> plan[e].clean[p].at, print |-> None]
  <1>1. Turn(e) /\ pc[e] = "forget" /\ UNCHANGED <<disk, staged>>
    BY ActTurn DEF Act, Step, Forget
  <1>2. Kept(e) /\ TypeOK /\ plan[e] \in Plan /\ Out(e) \in Path
    BY <1>1, Running
  <1>3. p \in Path /\ p # Out(e) /\ plan[e].done /\ OutOf[tombstone.at] = p
    BY <1>1, VictimKept
  <1>4. owner' = [owner EXCEPT ![p] = tombstone] /\ Save(e, pl, After(pl))
    BY DEF Forget, Skip
  <1>5. /\ pl.before = plan[e].before /\ pl.owner = plan[e].owner
        /\ pl.prepared = plan[e].prepared /\ pl.done = plan[e].done
        /\ pl.after = plan[e].after
        /\ \A q \in Path : pl.clean[q] \in {None, plan[e].clean[q]}
        /\ pl.done = TRUE
    BY <1>2, <1>3 DEF Plan, Deleted
  <1> HIDE DEF pl
  <1>6. /\ pc'[e] = After(pl) /\ plan'[e] = pl
        /\ record'[e] = [state |-> "pending", plan |-> pl]
    BY <1>2, <1>4 DEF Save, Keep, Go, TypeOK
  <1>7. record'[e].state = "pending" /\ record'[e].plan = pl
        /\ pc'[e] \in {"finish", "check"}
    BY <1>6, AfterFacts
  <1>8. ~By(disk[p], Event)
    BY <1>1, <1>2 DEF Kept, StageOf
  <1>9. CarriedOf(e)'
    BY <1>6, <1>7 DEF CarriedOf
  <1>10. StageOf(e)'
    <2>1. pl.prepared # None /\ pl.after = pl.prepared
      BY <1>1, <1>3, <1>5, Running
    <2>2. plan'[e].done = TRUE /\ plan'[e].prepared # None
          /\ plan'[e].after = plan'[e].prepared
      BY <1>5, <1>6, <2>1
    <2> QED
      BY <1>7, <2>2 DEF StageOf, Writing, Written, Staging
  <1>11. RecordOf(e)'
    <2>1. arrived' = arrived
      BY <1>1 DEF Turn, envVars
    <2> QED
      BY <1>1, <1>2, <1>3, <1>5, <1>7, <2>1, Running DEF Kept, RecordOf, OwnVersion, By
  <1>12. CleanOf(e)'
    BY <1>1, <1>2, <1>5, <1>7, Running, CleanSame DEF Kept
  <1>13. OwnOf(e)'
    <2>1. record'[e].plan.done = TRUE /\ record'[e].plan.prepared = record[e].plan.prepared
      BY <1>1, <1>5, <1>7, Running
    <2> QED
      BY <1>1, <1>2, <1>7, <2>1 DEF Kept, OwnOf, Out, By
  <1>14. LiveOf(e)'
    <2>1. Live(e)' <=> Live(e)
      BY <1>1, <1>7, Running
      DEF Live, Current, NothingRestored, SharedOutput, Out, Turn, envVars
    <2>2. By(disk[Out(e)], {e})' <=> By(disk[Out(e)], {e})
      BY <1>1 DEF By, Out
    <2> QED
      BY <1>1, <1>2, <1>3, <1>5, <1>7, <2>1, <2>2, Running DEF Kept, LiveOf
  <1>15. GoneOf(e)' /\ AwayOf(e)'
    BY <1>1, <1>7, AwayWriting
  <1>16. ASSUME NEW f \in Event \ {e}
         PROVE  /\ \A q \in Path : By(disk'[q], {f}) =>
                                      disk'[q] = disk[q] /\ owner'[q] = owner[q]
                /\ Live(f) => disk'[Out(f)] = disk[Out(f)] /\ owner'[Out(f)] = owner[Out(f)]
    <2>1. ~By(disk[p], {f})
      BY <1>8 DEF By
    <2>2. Live(f) => Out(f) # p
      BY <1>1, <1>2 DEF Kept, AwayOf
    <2>3. Out(f) \in Path
      BY PostAssumption DEF Out
    <2>4. \A q \in Path : q # p => owner'[q] = owner[q]
      BY <1>2, <1>4 DEF TypeOK
    <2> QED
      BY <1>1, <2>1, <2>2, <2>3, <2>4
  <1>17. ASSUME NEW q \in Path  PROVE OwnerOk(q, owner'[q])
    <2>1. CASE q = p
      <3>1. owner'[q] = tombstone
        BY <1>2, <1>3, <1>4, <2>1 DEF TypeOK
      <3> QED
        BY <1>3, <2>1, <3>1 DEF OwnerOk
    <2>2. CASE q # p
      <3>1. owner'[q] = owner[q]
        BY <1>2, <1>4, <2>2 DEF TypeOK
      <3> QED
        BY <3>1 DEF KInv
    <2> QED
      BY <2>1, <2>2
  <1>18. Kept(e)'
    BY <1>9, <1>10, <1>11, <1>12, <1>13, <1>14, <1>15 DEF Kept
  <1> QED
    BY <1>1, <1>16, <1>17, <1>18, ChangeKept

LEMMA EffectKept ==
  ASSUME IInv, KInv, NEW e \in Event, Effect(e)
  PROVE  KInv'
  <1>1. Turn(e) /\ pc[e] = "effect" /\ UNCHANGED <<disk, staged, owner>>
    BY ActTurn DEF Act, Step, Effect
  <1>2. Kept(e) /\ TypeOK /\ plan[e].done
    BY <1>1, Running DEF Kept, StageOf, Written
  <1>3. CASE disk[Out(e)] = plan[e].after
    <2>1. Go(e, "emit") /\ UNCHANGED <<record, plan>>
      BY <1>3 DEF Effect
    <2>2. pc'[e] = "emit"
      BY <1>2, <2>1 DEF Go, TypeOK
    <2>3. StageOf(e)'
      BY <1>1, <1>2, <2>1, <2>2, Running DEF StageOf, Writing, Written, Staging
    <2>4. GoneOf(e)' /\ AwayOf(e)'
      BY <1>1, <2>2, AwayWriting
    <2> QED
      BY <1>1, <2>1, <2>3, <2>4, Running, GoKept
  <1>4. CASE disk[Out(e)] # plan[e].after
    <2>1. Supersede(e)
      BY <1>4 DEF Effect
    <2>2. By(disk[Out(e)], {e}) => disk[Out(e)] = plan[e].after
      BY <1>1, <1>2, Running DEF Kept, OwnOf
    <2>3. ~Live(e)
      BY <1>1, <1>2, <1>4, <2>2, Running DEF Kept, LiveOf
    <2> QED
      BY <1>1, <2>1, <2>3, Running, SupersedeKept
  <1> QED
    BY <1>3, <1>4

LEMMA EmitKept ==
  ASSUME IInv, KInv, NEW e \in Event, Emit(e)
  PROVE  KInv'
  <1>1. Turn(e) /\ pc[e] = "emit" /\ UNCHANGED <<disk, staged, owner, record, plan>>
    BY ActTurn DEF Act, Step, Emit, dbVars
  <1>2. Kept(e) /\ TypeOK /\ plan[e].done
    BY <1>1, Running DEF Kept, StageOf, Written
  <1>3. pc'[e] = "mark"
    BY <1>2 DEF Emit, Go, TypeOK
  <1>4. StageOf(e)'
    BY <1>1, <1>2, <1>3, Running DEF StageOf, Writing, Written, Staging
  <1>5. GoneOf(e)' /\ AwayOf(e)'
    BY <1>1, <1>3, AwayWriting
  <1> QED
    BY <1>1, <1>4, <1>5, Running, GoKept

LEMMA MarkKept ==
  ASSUME IInv, KInv, NEW e \in Event, Mark(e)
  PROVE  KInv'
  <1> DEFINE pl == [plan[e] EXCEPT !.effects = @ + 1]
  <1>1. Turn(e) /\ pc[e] = "mark" /\ UNCHANGED <<disk, staged, owner>>
        /\ Save(e, pl, After(pl))
    BY ActTurn DEF Act, Step, Mark
  <1>2. Kept(e) /\ plan[e].done /\ plan[e] \in Plan
    BY <1>1, Running DEF Kept, StageOf, Written
  <1>3. /\ pl \in Plan
        /\ pl.before = plan[e].before /\ pl.owner = plan[e].owner
        /\ pl.prepared = plan[e].prepared /\ pl.done = plan[e].done
        /\ pl.after = plan[e].after /\ pl.clean = plan[e].clean
    <2>1. plan[e].effects \in Nat
      BY Facts
    <2>2. pl \in Plan
      BY <1>2, <2>1 DEF Plan
    <2>3. /\ pl.before = plan[e].before /\ pl.owner = plan[e].owner
          /\ pl.prepared = plan[e].prepared /\ pl.done = plan[e].done
          /\ pl.after = plan[e].after /\ pl.clean = plan[e].clean
      BY <1>2 DEF Plan
    <2> QED
      BY <2>2, <2>3
  <1> HIDE DEF pl
  <1>4. PICK st \in {"check", "finish"} : st = After(pl)
    BY AfterFacts
  <1>5. Save(e, pl, st) /\ pc[e] # "idle"
    BY <1>1, <1>4
  <1>6. st = "finish" => pl.done /\ pc[e] \notin {"size", "check"}
    BY <1>1, <1>2, <1>3
  <1> QED
    BY <1>1, <1>3, <1>5, <1>6, ProgressKept

LEMMA FinishKept ==
  ASSUME IInv, KInv, NEW e \in Event, Finish(e) \/ Interrupt(e)
  PROVE  KInv'
  <1>1. Turn(e) /\ UNCHANGED <<disk, staged, owner>> /\ pc[e] # "idle" /\ End(e)
    BY ActTurn DEF Act, Step, Finish, Interrupt, dbVars
  <1>2. \/ UNCHANGED record
        \/ Keep(e, plan[e], "done") /\ pc[e] = "finish"
    BY DEF Finish, Interrupt, dbVars
  <1>3. OwnVersion(e, staged'[e])
    BY <1>1, Running
  <1> QED
    BY <1>1, <1>2, <1>3, EndKept

(* A removal, a restoration or a transfer of the cloud.                    *)
LEMMA CloudKept ==
  ASSUME IInv, KInv,
         \/ \E e \in Event : Transfer(e) \/ Restore(e)
         \/ \E c \in Cloud : Remove(c)
  PROVE  KInv'
  <1>1. UNCHANGED <<disk, staged, owner, record, pc, plan, victim, tampers>>
    BY DEF Transfer, Restore, Remove, dbVars
  <1>2. TypeOK /\ IsFiniteSet(trash) /\ Cardinality(trash) <= removals
        /\ removals \in Nat /\ Cardinality(trash) \in Nat
    BY FS_CardinalityType DEF IInv, KInv, RemovalsCounted, TypeOK
  <1>3. arrived \subseteq arrived'
    BY DEF Transfer, Restore, Remove
  <1>4. /\ RemovalsCounted'
        /\ NothingRestored' =>
             /\ NothingRestored
             /\ \A f \in arrived : Current(f)' => Current(f)
    <2>1. ASSUME NEW e \in Event, Transfer(e)
          PROVE  /\ UNCHANGED <<trash, removals>>
                 /\ \A f \in arrived : Current(f)' => Current(f)
      <3>1. UNCHANGED <<trash, removals>> /\ e \notin arrived
            /\ cloud' = [c \in Cloud |-> IF c = Target[e] THEN e
                                ELSE IF c = Source[e] THEN None ELSE cloud[c]]
        BY <2>1 DEF Transfer
      <3> QED
        BY <1>2, <3>1, PostAssumption DEF Current, TypeOK
    <2>2. ASSUME NEW e \in Event, Restore(e)
          PROVE  RemovalsCounted' /\ ~NothingRestored'
      <3>1. e \in trash /\ trash' = trash \ {e} /\ removals' = removals
        BY <2>2 DEF Restore
      <3>2. IsFiniteSet(trash') /\ Cardinality(trash') = Cardinality(trash) - 1
        BY <1>2, <3>1, FS_RemoveElement
      <3> QED
        BY <1>2, <3>1, <3>2 DEF RemovalsCounted, NothingRestored
    <2>3. ASSUME NEW c \in Cloud, Remove(c)
          PROVE  /\ RemovalsCounted'
                 /\ NothingRestored' => NothingRestored
                 /\ \A f \in arrived : Current(f)' => Current(f)
      <3>1. /\ trash' = trash \cup {cloud[c]} /\ removals' = removals + 1
            /\ cloud' = [cloud EXCEPT ![c] = None]
        BY <2>3 DEF Remove
      <3>2. /\ IsFiniteSet(trash')
            /\ \/ Cardinality(trash') = Cardinality(trash)
               \/ Cardinality(trash') = Cardinality(trash) + 1
        BY <1>2, <3>1, FS_AddElement
      <3>3. RemovalsCounted' /\ (NothingRestored' => NothingRestored)
        BY <1>2, <3>1, <3>2 DEF RemovalsCounted, NothingRestored
      <3>4. \A f \in arrived : Current(f)' => Current(f)
        BY <1>2, <3>1, PostAssumption DEF Current, TypeOK
      <3> QED
        BY <3>3, <3>4
    <2>4. UNCHANGED <<trash, removals>> =>
             RemovalsCounted' /\ (NothingRestored' => NothingRestored)
      BY <1>2 DEF RemovalsCounted, NothingRestored
    <2> QED
      BY <2>1, <2>2, <2>3, <2>4
  <1>5. \A p \in Path : OwnerOk(p, owner[p])'
    BY <1>1 DEF KInv, OwnerOk, Out
  <1>6. ASSUME NEW f \in Event, Live(f)'  PROVE Live(f)
    <2>1. f \in arrived
      BY <1>1, <1>6 DEF KInv, Kept, RecordOf, Live
    <2> QED
      BY <1>1, <1>4, <1>6, <2>1 DEF Live, SharedOutput, Out
  <1>7. ASSUME NEW e \in Event  PROVE Kept(e)'
    <2>1. Kept(e)
      BY DEF KInv
    <2>2. CarriedOf(e)'
      BY <1>1, <2>1 DEF Kept, CarriedOf
    <2>3. StageOf(e)'
      BY <1>1, <2>1 DEF Kept, StageOf, Writing, Written, Staging, Out, By
    <2>4. RecordOf(e)'
      BY <1>1, <1>3, <2>1 DEF Kept, RecordOf, OwnVersion, By
    <2>5. CleanOf(e)'
      BY <1>1, <2>1, CleanSame DEF Kept
    <2>6. OwnOf(e)'
      BY <1>1, <2>1 DEF Kept, OwnOf, Out, By
    <2>7. GoneOf(e)'
      <3> SUFFICES ASSUME pc[e] \in {"recheck", "unlink"}, NothingRestored',
                          NEW c \in plan[e].clean[victim[e][1]].probes, NEW f \in Event,
                          record[f].state # "none", Target[f] = c
                   PROVE  cloud'[c] # f
        BY <1>1 DEF GoneOf
      <3>1. NothingRestored /\ f \in arrived
        BY <1>4 DEF KInv, Kept, RecordOf
      <3>2. ~Current(f)
        BY <2>1, <3>1 DEF Kept, GoneOf, Current
      <3> QED
        BY <1>4, <3>1, <3>2 DEF Current
    <2>8. AwayOf(e)'
      BY <1>1, <1>6, <2>1 DEF Kept, AwayOf, Out
    <2>9. LiveOf(e)'
      BY <1>1, <1>6, <2>1 DEF Kept, LiveOf, Out, By
    <2> QED
      BY <2>2, <2>3, <2>4, <2>5, <2>6, <2>7, <2>8, <2>9 DEF Kept
  <1> QED
    BY <1>4, <1>5, <1>7 DEF KInv

(* Another program writes or deletes a file of the library.                *)
LEMMA TamperKept ==
  ASSUME IInv, KInv, NEW p \in Path, Tamper(p)
  PROVE  KInv'
  <1>1. UNCHANGED <<staged, owner, record, pc, plan, victim, cloud, trash, arrived,
                    removals>> /\ tampers' = tampers + 1
    BY DEF Tamper, dbVars
  <1>2. TypeOK /\ tampers \in Nat
    BY DEF IInv, TypeOK
  <1>3. tampers' # 0
    BY <1>1, <1>2
  <1>4. ASSUME NEW q \in Path, NEW S \in SUBSET Event, By(disk'[q], S)
        PROVE  disk'[q] = disk[q]
    <2>1. \/ disk' = [disk EXCEPT ![p] = <<Other, made[Other] + 1>>]
          \/ disk' = [disk EXCEPT ![p] = None]
      BY DEF Tamper
    <2> QED
      BY <1>2, <1>4, <2>1, PostAssumption DEF TypeOK, By
  <1>5. RemovalsCounted' /\ \A q \in Path : OwnerOk(q, owner[q])'
    BY <1>1 DEF KInv, RemovalsCounted, OwnerOk, Out
  <1>6. \A f \in Event : ~Live(f)'
    BY <1>3 DEF Live
  <1>7. ASSUME NEW e \in Event  PROVE Kept(e)'
    <2>1. Kept(e) /\ Out(e) \in Path
      BY Facts DEF KInv
    <2>2. CarriedOf(e)'
      BY <1>1, <2>1 DEF Kept, CarriedOf
    <2>3. StageOf(e)'
      <3>1. pc[e] = "forget" => victim[e][1] \in Path
        BY VictimFacts
      <3>2. Out(e)' = Out(e)
        BY DEF Out
      <3>3. By(disk'[Out(e)], Event) => disk'[Out(e)] = disk[Out(e)]
        BY <1>4, <2>1
      <3>4. By(disk'[Out(e)], {e}) => disk'[Out(e)] = disk[Out(e)]
        BY <1>4, <2>1
      <3>5. pc[e] = "forget" /\ By(disk'[victim[e][1]], Event) =>
               disk'[victim[e][1]] = disk[victim[e][1]]
        BY <1>4, <3>1
      <3> QED
        BY <1>1, <1>3, <2>1, <3>2, <3>3, <3>4, <3>5
        DEF Kept, StageOf, Writing, Written, Staging, By
    <2>4. RecordOf(e)'
      BY <1>1, <2>1 DEF Kept, RecordOf, OwnVersion, By
    <2>5. CleanOf(e)'
      BY <1>1, <2>1, CleanSame DEF Kept
    <2>6. OwnOf(e)'
      <3>1. \A q \in Path : By(disk'[q], {e}) => disk'[q] = disk[q]
        BY <1>4
      <3> QED
        BY <1>1, <2>1, <3>1 DEF Kept, OwnOf, Out, By
    <2>7. GoneOf(e)'
      BY <1>1, <2>1 DEF Kept, GoneOf, NothingRestored
    <2>8. AwayOf(e)' /\ LiveOf(e)'
      BY <1>6 DEF AwayOf, LiveOf
    <2> QED
      BY <2>2, <2>3, <2>4, <2>5, <2>6, <2>7, <2>8 DEF Kept
  <1> QED
    BY <1>5, <1>7 DEF KInv

THEOREM NextKInv == IInv /\ KInv /\ [Next]_vars => KInv'
  <1> SUFFICES ASSUME IInv, KInv, [Next]_vars PROVE KInv'
    OBVIOUS
  <1>1. ASSUME NEW e \in Event, Act(e)  PROVE KInv'
    BY <1>1, BeginKept, ReopenKept, FreezeSizeKept, CheckKept, WriteKept, PrepareKept,
       SavePreparedKept, ConfirmKept, CompareKept, PublishKept, VerifyKept,
       CompleteWriteKept, DeleteKept, ProbeKept, RecheckKept, UnlinkKept, ForgetKept,
       EffectKept, EmitKept, MarkKept, FinishKept DEF Act, Step
  <1>2. CASE \/ \E e \in Event : Transfer(e) \/ Restore(e)
             \/ \E c \in Cloud : Remove(c)
    BY <1>2, CloudKept
  <1>3. CASE \E p \in Path : Tamper(p)
    BY <1>3, TamperKept
  <1>4. CASE UNCHANGED vars
    <2>1. /\ UNCHANGED <<cloud, arrived, trash, tampers, removals>>
          /\ UNCHANGED <<disk, staged, owner, record, pc, plan, victim>>
      BY <1>4 DEF vars, dbVars, envVars
    <2>2. RemovalsCounted' /\ \A p \in Path : OwnerOk(p, owner[p])'
      BY <2>1 DEF KInv, RemovalsCounted, OwnerOk, Out
    <2>3. ASSUME NEW e \in Event  PROVE Kept(e)'
      <3>1. Kept(e)
        BY DEF KInv
      <3>2. \A f \in Event : Live(f)' <=> Live(f)
        BY <2>1 DEF Live, Current, NothingRestored, SharedOutput, Out
      <3>3. CarriedOf(e)'
        BY <2>1, <3>1 DEF Kept, CarriedOf
      <3>4. StageOf(e)'
        BY <2>1, <3>1 DEF Kept, StageOf, Out, By
      <3>5. RecordOf(e)'
        BY <2>1, <3>1 DEF Kept, RecordOf, OwnVersion, By
      <3>6. CleanOf(e)'
        BY <2>1, <3>1, CleanSame DEF Kept
      <3>7. OwnOf(e)'
        BY <2>1, <3>1 DEF Kept, OwnOf, Out, By
      <3>8. GoneOf(e)'
        BY <2>1, <3>1 DEF Kept, GoneOf, NothingRestored
      <3>9. AwayOf(e)'
        BY <2>1, <3>1, <3>2 DEF Kept, AwayOf, Out
      <3>10. LiveOf(e)'
        BY <2>1, <3>1, <3>2 DEF Kept, LiveOf, Out, By
      <3> QED
        BY <3>3, <3>4, <3>5, <3>6, <3>7, <3>8, <3>9, <3>10 DEF Kept
    <2> QED
      BY <2>2, <2>3 DEF KInv
  <1> QED
    BY <1>1, <1>2, <1>3, <1>4 DEF Next, Act

THEOREM KeptAlways == Spec => [](IInv /\ KInv)
  <1>1. Init => IInv /\ KInv
    BY InitIInv, InitKInv
  <1>2. IInv /\ KInv /\ [Next]_vars => (IInv /\ KInv)'
    BY NextIInv, NextKInv
  <1> QED
    BY <1>1, <1>2, PTL DEF Spec

(* When every event that arrived was dealt with, and neither another       *)
(* program nor a restored file has interfered, an event whose file is in   *)
(* the cloud at its path has its output in the library, or shares it with  *)
(* another cloud path (_write, _delete, CleanupPlanner).                   *)
THEOREM LibrarySettled == Spec => []SettledLibrary
  <1>1. ASSUME IInv, KInv  PROVE SettledLibrary
    <2> SUFFICES ASSUME Quiet, NEW e \in arrived, Current(e), ~SharedOutput(Out(e))
                 PROVE  By(disk[Out(e)], {e})
      BY DEF SettledLibrary
    <2>1. e \in Event /\ Kept(e)
      BY <1>1 DEF IInv, TypeOK, KInv
    <2>2. Live(e)
      BY DEF Live, Quiet, Settled
    <2>3. record[e].state = "done" /\ record[e].plan.done
      BY <2>1, <2>2 DEF Quiet, Settled, Kept, LiveOf, RecordOf
    <2> QED
      BY <2>1, <2>2, <2>3 DEF Kept, LiveOf
  <1> QED
    BY <1>1, KeptAlways, PTL

(* What is asked of the cloud before a deletion covers every event that    *)
(* may have made the file.                                                 *)
LEMMA DeletedIsGone ==
  ASSUME IInv, KInv, NEW e \in Event, NEW f \in Event, pc[e] = "unlink",
         By(disk[victim[e][1]], {f}),
         SharedOutput(victim[e][1]) => Owns(f, victim[e][1])
  PROVE  ~Current(f) \/ ~NothingRestored
  <1> DEFINE p == victim[e][1]
             op == plan[e].clean[p]
  <1>1. p \in Path /\ op # None /\ op \in Deletion
    BY VictimKept
  <1>2. Kept(e) /\ Kept(f) /\ record[e].plan.clean = plan[e].clean
    BY Running DEF KInv
  <1>3. p = Out(f) /\ record[f].state # "none"
    BY <1>1, <1>2 DEF Kept, OwnOf
  <1>4. owner[p] = op.owner
    BY <1>2 DEF Kept, StageOf
  <1>5. /\ op.probes # {} /\ op.probes \subseteq Cloud
        /\ \A c \in op.probes : OutOf[c] = p
        /\ OwnerOk(p, op.owner)
        /\ op.owner # None => op.owner.at \in op.probes
    BY <1>1, <1>2 DEF Kept, CleanOf, Deletion
  <1>6. Target[f] \in op.probes
    <2>1. CASE SharedOutput(p)
      BY <1>3, <1>4, <1>5, <2>1 DEF Owns, OwnerOk
    <2>2. CASE ~SharedOutput(p)
      <3>1. PICK c \in op.probes : c \in Cloud /\ OutOf[c] = p
        BY <1>5
      <3>2. c = Target[f]
        BY <1>3, <2>2, <3>1, PostAssumption DEF SharedOutput, Out
      <3> QED
        BY <3>1, <3>2
    <2> QED
      BY <2>1, <2>2
  <1> QED
    BY <1>2, <1>3, <1>6 DEF Kept, GoneOf, Current

(* A file made for an event is not deleted while that event's cloud file   *)
(* is in place, but for a shared output that is recorded as another's      *)
(* (build_cleanup, _delete).                                               *)
THEOREM LiveOutputIsKept == Spec => LiveOutputKept
  <1>1. ASSUME IInv, KInv, NEW e \in Event, NEW f \in Event
        PROVE  LET p == victim[e][1]
               IN  /\ pc[e] = "unlink" /\ pc'[e] = "forget"
                   /\ By(disk[p], {f}) /\ (SharedOutput(p) => Owns(f, p))
                   => ~Current(f) \/ ~NothingRestored
    BY <1>1, DeletedIsGone
  <1>2. IInv /\ KInv =>
          [\A e, f \in Event :
             LET p == victim[e][1]
             IN  /\ pc[e] = "unlink" /\ pc'[e] = "forget"
                 /\ By(disk[p], {f}) /\ (SharedOutput(p) => Owns(f, p))
                 => ~Current(f) \/ ~NothingRestored]_vars
    BY <1>1
  <1> QED
    BY <1>2, KeptAlways, PTL DEF LiveOutputKept

(* The steps that may give an event up do not, while its own output is in  *)
(* place and its cloud file is current.                                    *)
LEMMA OutputRecognised ==
  ASSUME IInv, KInv, NEW e \in Event, Act(e),
         By(disk[Out(e)], {e}), Current(e), record[e].state = "pending"
  PROVE  record'[e].state # "superseded"
  <1> SUFFICES ASSUME record'[e].state = "superseded" PROVE FALSE
    OBVIOUS
  <1>1. TypeOK /\ Kept(e) /\ Out(e) \in Path
    BY Facts DEF KInv
  <1>2. /\ disk[Out(e)] = record[e].plan.prepared
        /\ ~record[e].plan.done => owner[Out(e)] = record[e].plan.owner
    BY <1>1 DEF Kept, OwnOf
  <1>3. pc[e] # "idle" =>
          /\ plan[e].prepared = disk[Out(e)] /\ disk[Out(e)] # None
          /\ plan[e].done => disk[Out(e)] = plan[e].after
          /\ ~plan[e].done => owner[Out(e)] = plan[e].owner
    BY <1>2, Running DEF By
  <1>4. \A pl, stage : ~Save(e, pl, stage)
    BY <1>1 DEF Save, Keep, TypeOK
  <1>5. ~UNCHANGED record /\ ~UNCHANGED dbVars /\ ~Keep(e, plan[e], "done")
    BY <1>1 DEF Keep, TypeOK, dbVars
  <1>6. \A p : ~Skip(e, p)
    BY <1>4 DEF Skip
  <1>7. ~Begin(e) /\ ~Reopen(e) /\ ~SavePrepared(e) /\ ~CompleteWrite(e) /\ ~Mark(e)
    BY <1>4 DEF Begin, Reopen, SavePrepared, CompleteWrite, Mark
  <1>8. ~Prepare(e) /\ ~Publish(e) /\ ~Unlink(e) /\ ~Emit(e) /\ ~Finish(e) /\ ~Interrupt(e)
    BY <1>5 DEF Prepare, Publish, Unlink, Emit, Finish, Interrupt
  <1>9. ~FreezeSize(e) /\ ~Check(e) /\ ~Confirm(e)
    BY <1>4, <1>5 DEF FreezeSize, Check, Confirm, Guard
  <1>10. ~Probe(e) /\ ~Recheck(e) /\ ~Forget(e)
    BY <1>5, <1>6 DEF Probe, Recheck, Forget
  <1>11. ~Write(e)
    <2>1. pc[e] = "write" => Published(e)
      BY <1>1, <1>3 DEF Published, Kept, StageOf, Writing
    <2> QED
      BY <1>5, <2>1 DEF Write
  <1>12. ~Compare(e)
    <2>1. pc[e] # "compare"
      BY <1>1 DEF Kept, StageOf, Staging
    <2> QED
      BY <2>1 DEF Compare, Guard
  <1>13. ~Verify(e)
    BY <1>3, <1>5 DEF Verify
  <1>14. ~Delete(e) /\ ~Effect(e)
    <2>1. pc[e] \in {"delete", "effect"} => disk[Out(e)] = plan[e].after
      BY <1>1, <1>3 DEF Kept, StageOf, Written
    <2> QED
      BY <1>5, <1>6, <2>1 DEF Delete, Effect
  <1> QED
    BY <1>7, <1>8, <1>9, <1>10, <1>11, <1>12, <1>13, <1>14 DEF Act, Step

(* A version by e is only replaced by none, or by one of another author:   *)
(* an event publishes where its own output is not.                         *)
LEMMA OutputNotRewritten ==
  ASSUME IInv, KInv, [Next]_vars, NEW e \in Event, By(disk[Out(e)], {e}),
         By(disk'[Out(e)], {e})
  PROVE  disk'[Out(e)] = disk[Out(e)]
  <1>1. TypeOK /\ Kept(e) /\ Out(e) \in Path
    BY Facts DEF KInv
  <1>2. ASSUME NEW f \in Event, Publish(f)
        PROVE  disk'[Out(e)] = disk[Out(e)]
    <2>1. Kept(f) /\ Out(f) \in Path /\ pc[f] = "publish"
      BY <1>2, Facts DEF KInv, Publish
    <2>2. /\ disk' = [disk EXCEPT ![Out(f)] = staged[f]] /\ By(staged[f], {f})
          /\ ~By(disk[Out(f)], {f})
      BY <1>2, <2>1, Running DEF Publish, Kept, StageOf, Staging, OwnVersion
    <2> QED
      BY <1>1, <2>1, <2>2 DEF TypeOK, By
  <1>3. ASSUME NEW f \in Event, Unlink(f)
        PROVE  disk'[Out(e)] = disk[Out(e)]
    BY <1>1, <1>3 DEF Unlink, TypeOK, By
  <1>4. ASSUME NEW p \in Path, Tamper(p)
        PROVE  disk'[Out(e)] = disk[Out(e)]
    BY <1>1, <1>4, PostAssumption DEF Tamper, TypeOK, By
  <1>5. \/ UNCHANGED disk
        \/ \E f \in Event : Publish(f) \/ Unlink(f)
        \/ \E p \in Path : Tamper(p)
    <2>1. CASE \E f \in Event : Step(f)
      BY <2>1 DEF Step, FreezeSize, Check, Write, Prepare, SavePrepared, Confirm, Compare,
                  Guard, Verify, CompleteWrite, Delete, Probe, Recheck, Forget, Effect,
                  Emit, Mark, Finish
    <2>2. CASE \E f \in Event : Begin(f) \/ Reopen(f) \/ Interrupt(f) \/ Transfer(f)
                                \/ Restore(f)
      BY <2>2 DEF Begin, Reopen, Interrupt, Transfer, Restore
    <2>3. CASE \E c \in Cloud : Remove(c)
      BY <2>3 DEF Remove
    <2>4. CASE UNCHANGED vars
      BY <2>4 DEF vars
    <2> QED
      BY <2>1, <2>2, <2>3, <2>4 DEF Next
  <1> QED
    BY <1>2, <1>3, <1>4, <1>5

(* A run that was cut short between publication and checkpoint is          *)
(* recognised: no event writes over its own output or is given up while    *)
(* that output is in place and its cloud file is current (_write).         *)
THEOREM PublishedIsRecovered == Spec => RecoversPublished
  <1>1. ASSUME IInv, KInv, [Next]_vars, NEW e \in Event, By(disk[Out(e)], {e})
        PROVE  /\ By(disk'[Out(e)], {e}) => disk'[Out(e)] = disk[Out(e)]
               /\ Current(e) /\ record[e].state = "pending"
                     => record'[e].state # "superseded"
    <2>1. By(disk'[Out(e)], {e}) => disk'[Out(e)] = disk[Out(e)]
      BY <1>1, OutputNotRewritten
    <2>2. ASSUME Current(e), record[e].state = "pending"
          PROVE  record'[e].state # "superseded"
      <3>1. CASE Act(e)
        BY <1>1, <2>2, <3>1, OutputRecognised
      <3>2. ASSUME NEW f \in Event, f # e, Act(f)
            PROVE  record'[e] = record[e]
        BY <1>1, <3>2, ActGood DEF Good, Apart
      <3>3. CASE \/ \E f \in Event : Transfer(f) \/ Restore(f)
                 \/ \E c \in Cloud : Remove(c)
                 \/ \E p \in Path : Tamper(p)
                 \/ UNCHANGED vars
        BY <2>2, <3>3 DEF Transfer, Restore, Remove, Tamper, vars, dbVars
      <3> QED
        BY <1>1, <2>2, <3>1, <3>2, <3>3 DEF Next, Act
    <2> QED
      BY <2>1, <2>2
  <1>2. IInv /\ KInv /\ [Next]_vars =>
          [\A e \in Event : By(disk[Out(e)], {e}) =>
             /\ By(disk'[Out(e)], {e}) => disk'[Out(e)] = disk[Out(e)]
             /\ Current(e) /\ record[e].state = "pending"
                   => record'[e].state # "superseded"]_vars
    BY <1>1
  <1> QED
    BY <1>2, KeptAlways, PTL DEF Spec, RecoversPublished
=============================================================================
