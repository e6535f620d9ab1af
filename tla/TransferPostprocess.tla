------------------------ MODULE TransferPostprocess ------------------------
(***************************************************************************)
(* helper/strm/transfer/postprocess.py: what follows a finished transfer.  *)
(* For each event a plan is frozen - publish one local file, clean up the  *)
(* local files it replaces, then run effects - and carried out under the   *)
(* library lock, with a checkpoint in the database after each part, so     *)
(* that a redelivered event goes on where the last run stopped.            *)
(*                                                                         *)
(* Every query, check and file operation is a step of its own.  Between    *)
(* them the cloud changes, other programs write to the library, a call     *)
(* raises or the process dies; the lock is then released, the in-memory    *)
(* plan is lost, and disk, staged files and database remain.               *)
(*                                                                         *)
(* A file's identity in the cloud is the event of the transfer that put it *)
(* there.  A version is one writing of a local file, by an event or by     *)
(* another program: fingerprint() tells any two apart, and replace() keeps *)
(* it.  Left out: directories (removed only when empty), symbolic links    *)
(* (every operation refuses them), and the related files of a .strm file,  *)
(* which are planned and deleted as it is.                                 *)
(***************************************************************************)
EXTENDS Naturals, FiniteSets

CONSTANTS Event,         \* finished transfers; also their cloud files
          Cloud,         \* paths in the cloud
          Path,          \* files of the local library
          None,          \* nothing there, no event
          Other,         \* author of the files of other programs
          Target,        \* Target[e]: cloud path event e's file went to
          Source,        \* Source[e]: cloud path it was moved from, or None
          OutOf,         \* local_path: OutOf[c] is the file made for cloud path c
          Dir,           \* Dir[p]: directory of a local file
          Older,         \* Older[e]: files of other versions ("latest" mode)
          Unsized,       \* events of u115, whose size is to be read from the cloud
          Effects,       \* number of effects of a plan
          MaxFaults      \* bound: runs that raise or die, writes by other
                         \* programs and cloud files removed, together

Version == (Event \cup {Other}) \X (Nat \ {0})
OptVersion == Version \cup {None}
Owner == [event: Event, at: Cloud, print: OptVersion]

ASSUME PostAssumption ==
    /\ None \notin Event \cup Cloud \cup Path \cup Version \cup Owner
    /\ Other \notin Event \cup {None}
    /\ Target \in [Event -> Cloud]
    /\ Source \in [Event -> Cloud \cup {None}]
    /\ OutOf \in [Cloud -> Path]
    /\ Older \in [Event -> SUBSET Path]
    /\ DOMAIN Dir = Path
    /\ Unsized \subseteq Event
    /\ {Effects, MaxFaults} \subseteq Nat

VARIABLES
    cloud,      \* cloud[c]: the event whose file is there, or None
    arrived,    \* events delivered by the host
    disk,       \* disk[p]: version of the local file, or None
    staged,     \* staged[e]: version in e's .part file, or None
    owner,      \* database, TransferResource: owner[p], or None
    record,     \* database, TransferPostprocess: state and plan of each event
    holder,     \* event whose run holds the library lock, or None
    pc,         \* pc[e]: where the run of e is
    plan,       \* plan[e]: the plan in the memory of the run
    victim,     \* victim[e]: file being deleted and its version when checked
    emitted,    \* emitted[e]: effect calls made for e (history)
    made,       \* made[x]: versions author x has written
    trash,      \* cloud files that were removed
    interrupts, tampers, removals  \* faults so far

dbVars  == <<owner, record>>
envVars == <<cloud, trash, arrived, tampers, removals>>
vars == <<disk, staged, dbVars, holder, pc, plan, victim, emitted, made,
          interrupts, envVars>>

Out(e) == OutOf[Target[e]]
Current(e) == cloud[Target[e]] = e
Settled(e) == record[e].state \in {"done", "superseded"}

(* An entry of a directory is a library file or some event's .part file.   *)
Entries(d) == {p \in Path : Dir[p] = d /\ disk[p] # None}
              \cup {e \in Event : Dir[Out(e)] = d /\ staged[e] # None}

Deletion == [before: Version, owner: Owner \cup {None}, at: Cloud,
             probes: SUBSET Cloud, siblings: SUBSET (Path \cup Event)]
Plan == [sized: BOOLEAN, before: OptVersion, owner: Owner \cup {None},
         prepared: OptVersion, after: OptVersion, done: BOOLEAN,
         clean: [Path -> Deletion \cup {None}], effects: Nat]
NoPlan == [sized |-> FALSE, before |-> None, owner |-> None, prepared |-> None,
           after |-> None, done |-> FALSE, clean |-> [p \in Path |-> None],
           effects |-> 0]

Stages == {"idle", "size", "check", "write", "prepare", "prepared", "confirm",
           "compare", "publish", "verify", "complete", "delete", "probe",
           "recheck", "unlink", "forget", "effect", "emit", "mark", "finish"}

Moved(e) == {p \in Path : Source[e] # None /\ OutOf[Source[e]] = p}

(* The cloud path a file names; that of another program names one that it  *)
(* could have been made for, or none that can be read.                     *)
Named(p) ==
    IF disk[p] = None THEN {None}
    ELSE IF disk[p][1] \in Event THEN {Target[disk[p][1]]}
    ELSE {c \in Cloud : OutOf[c] = p} \cup {None}

Readings == {n \in [Path -> Cloud \cup {None}] : \A p \in Path : n[p] \in Named(p)}

(* Cloud paths that must be empty before the old file p is deleted: the    *)
(* source of the move, or else what the file names, and always the cloud   *)
(* file that p is recorded to be of, which its tombstone keeps.            *)
Asked(e, p, n) == IF p \in Moved(e) THEN Source[e]
                  ELSE IF owner[p] # None THEN owner[p].at ELSE n[p]
Identity(e, p, n) == IF owner[p] # None THEN owner[p].at ELSE Asked(e, p, n)

(* Mutant: the owner's cloud file is not asked for.                        *)
ProbesOfSource(e, p, n) == IF p \in Moved(e) THEN {Source[e]} ELSE {}

Probes(e, p, n) == {Asked(e, p, n), Identity(e, p, n)}

Candidates(e) == (Older[e] \cup Moved(e)) \ {Out(e)}

Build(e, n) ==
    [NoPlan EXCEPT
       !.sized = e \notin Unsized, !.before = disk[Out(e)], !.owner = owner[Out(e)],
       !.clean = [p \in Path |->
           IF p \in Candidates(e) /\ disk[p] # None /\ Asked(e, p, n) # None
           THEN [before |-> disk[p], owner |-> owner[p],
                 at |-> Identity(e, p, n), probes |-> Probes(e, p, n),
                 siblings |-> Entries(Dir[p])
                              \cup (IF Dir[p] = Dir[Out(e)] THEN {Out(e)} ELSE {})]
           ELSE None]]

Undeleted(pl) == {p \in Path : pl.clean[p] # None}
Complete(pl) == pl.done /\ Undeleted(pl) = {} /\ pl.effects = Effects
Started(pl) == pl.prepared # None \/ pl.done \/ pl.effects > 0

Init ==
    /\ cloud = [c \in Cloud |-> None]
    /\ arrived = {}
    /\ disk = [p \in Path |-> None]
    /\ staged = [e \in Event |-> None]
    /\ owner = [p \in Path |-> None]
    /\ record = [e \in Event |-> [state |-> "none", plan |-> NoPlan]]
    /\ holder = None
    /\ pc = [e \in Event |-> "idle"]
    /\ plan = [e \in Event |-> NoPlan]
    /\ victim = [e \in Event |-> None]
    /\ emitted = [e \in Event |-> 0]
    /\ made = [x \in Event \cup {Other} |-> 0]
    /\ trash = {}
    /\ interrupts = 0 /\ tampers = 0 /\ removals = 0

(* Mutant: the lock is not waited for.                                     *)
LibraryFreeAlways == TRUE

(***************************************************************************)
(* Parts of the steps.  Save writes the plan to the database and goes on;  *)
(* Go changes the program counter only; End releases the lock.             *)
(***************************************************************************)
LibraryFree == holder = None

FaultLeft == interrupts + tampers + removals < MaxFaults

Go(e, stage) == pc' = [pc EXCEPT ![e] = stage]

Keep(e, pl, state) ==
    record' = [record EXCEPT ![e] = [state |-> state, plan |-> pl]]

Save(e, pl, stage) ==
    /\ Keep(e, pl, "pending")
    /\ plan' = [plan EXCEPT ![e] = pl]
    /\ Go(e, stage)

(* Mutant: the lock is not released.                                       *)
EndHoldingLock(e) ==
    /\ Go(e, "idle")
    /\ plan' = [plan EXCEPT ![e] = NoPlan]
    /\ victim' = [victim EXCEPT ![e] = None]
    /\ UNCHANGED holder

End(e) ==
    /\ holder' = None
    /\ Go(e, "idle")
    /\ plan' = [plan EXCEPT ![e] = NoPlan]
    /\ victim' = [victim EXCEPT ![e] = None]

Supersede(e) == Keep(e, plan[e], "superseded") /\ End(e)

(* Stage after an operation or effect of plan pl was recorded.             *)
After(pl) == IF Complete(pl) THEN "finish" ELSE "check"

(***************************************************************************)
(* The run of an event.                                                    *)
(***************************************************************************)
Begin(e) ==
    /\ e \in arrived /\ ~Settled(e)
    /\ pc[e] = "idle"
    /\ LibraryFree
    /\ holder' = e
    /\ \E n \in Readings :
          LET pl == IF record[e].state = "none" THEN Build(e, n) ELSE record[e].plan
          IN  Save(e, pl, IF pl.sized \/ Started(pl) THEN "check" ELSE "size")
    /\ UNCHANGED <<disk, staged, owner, victim, emitted, made, interrupts, envVars>>

(* retry_superseded: an administrator reopens an event whose size had only *)
(* been known as displayed, if nothing was done and nothing has changed.   *)
Reopen(e) ==
    LET pl == record[e].plan
    IN  /\ record[e].state = "superseded" /\ pc[e] = "idle" /\ LibraryFree
        /\ ~pl.sized /\ ~Started(pl) /\ Current(e)
        /\ disk[Out(e)] = pl.before /\ owner[Out(e)] = pl.owner
        /\ holder' = e
        /\ Save(e, [pl EXCEPT !.sized = TRUE], "check")
        /\ UNCHANGED <<disk, staged, owner, victim, emitted, made, interrupts, envVars>>

FreezeSize(e) ==
    /\ pc[e] = "size"
    /\ IF Current(e)
       THEN /\ Save(e, [plan[e] EXCEPT !.sized = TRUE], "check")
            /\ UNCHANGED <<holder, victim>>
       ELSE Supersede(e)
    /\ UNCHANGED <<disk, staged, owner, emitted, made, interrupts, envVars>>

(* is_current before the next operation, directory or effect.              *)
Check(e) ==
    /\ pc[e] = "check"
    /\ IF Current(e)
       THEN /\ Go(e, IF ~plan[e].done THEN "write"
                     ELSE IF Undeleted(plan[e]) # {} THEN "delete"
                     ELSE IF plan[e].effects < Effects THEN "effect" ELSE "finish")
            /\ UNCHANGED <<record, holder, plan, victim>>
       ELSE Supersede(e)
    /\ UNCHANGED <<disk, staged, owner, emitted, made, interrupts, envVars>>

(* Mutant: a published file is not recognised.                             *)
PublishedNever(e) == FALSE

Published(e) ==
    /\ plan[e].prepared # None /\ disk[Out(e)] = plan[e].prepared
    /\ owner[Out(e)] = plan[e].owner
Untouched(e) == disk[Out(e)] = plan[e].before /\ owner[Out(e)] = plan[e].owner

Write(e) ==
    /\ pc[e] = "write"
    /\ \/ /\ Published(e)
          /\ plan' = [plan EXCEPT ![e].after = disk[Out(e)]]
          /\ Go(e, "complete")
          /\ UNCHANGED <<record, holder, victim>>
       \/ /\ ~Published(e) /\ Untouched(e)
          /\ Go(e, IF plan[e].prepared # None /\ staged[e] = plan[e].prepared
                   THEN "confirm" ELSE "prepare")
          /\ UNCHANGED <<record, holder, plan, victim>>
       \/ ~Published(e) /\ ~Untouched(e) /\ Supersede(e)
    /\ UNCHANGED <<disk, staged, owner, emitted, made, interrupts, envVars>>

Prepare(e) ==
    /\ pc[e] = "prepare"
    /\ made' = [made EXCEPT ![e] = @ + 1]
    /\ staged' = [staged EXCEPT ![e] = <<e, made[e] + 1>>]
    /\ Go(e, "prepared")
    /\ UNCHANGED <<disk, dbVars, holder, plan, victim, emitted, interrupts, envVars>>

SavePrepared(e) ==
    /\ pc[e] = "prepared"
    /\ Save(e, [plan[e] EXCEPT !.prepared = staged[e]], "confirm")
    /\ UNCHANGED <<disk, staged, owner, holder, victim, emitted, made, interrupts, envVars>>

(* The two checks after staging: the cloud's file, then the local one.     *)
Guard(e, stage, holds, next) ==
    /\ pc[e] = stage
    /\ IF holds
       THEN Go(e, next) /\ UNCHANGED <<staged, record, holder, plan, victim>>
       ELSE staged' = [staged EXCEPT ![e] = None] /\ Supersede(e)
    /\ UNCHANGED <<disk, owner, emitted, made, interrupts, envVars>>

Confirm(e) == Guard(e, "confirm", Current(e), "compare")
Compare(e) == Guard(e, "compare", disk[Out(e)] = plan[e].before, "publish")

Publish(e) ==
    /\ pc[e] = "publish"
    /\ disk' = [disk EXCEPT ![Out(e)] = staged[e]]
    /\ staged' = [staged EXCEPT ![e] = None]
    /\ Go(e, "verify")
    /\ UNCHANGED <<dbVars, holder, plan, victim, emitted, made, interrupts, envVars>>

Verify(e) ==
    /\ pc[e] = "verify"
    /\ IF disk[Out(e)] = plan[e].prepared
       THEN /\ plan' = [plan EXCEPT ![e].after = disk[Out(e)]]
            /\ Go(e, "complete")
            /\ UNCHANGED <<record, holder, victim>>
       ELSE Supersede(e)
    /\ UNCHANGED <<disk, staged, owner, emitted, made, interrupts, envVars>>

(* complete_file: ownership and checkpoint in one transaction.             *)
CompleteWrite(e) ==
    /\ pc[e] = "complete"
    /\ LET pl == [plan[e] EXCEPT !.done = TRUE]
       IN  /\ owner' = [owner EXCEPT ![Out(e)] = [event |-> e, at |-> Target[e],
                                                  print |-> pl.after]]
           /\ Save(e, pl, After(pl))
    /\ UNCHANGED <<disk, staged, holder, victim, emitted, made, interrupts, envVars>>

Deleted(pl, p) == [pl EXCEPT !.clean[p] = None]

Skip(e, p) ==
    /\ Save(e, Deleted(plan[e], p), After(Deleted(plan[e], p)))
    /\ UNCHANGED <<holder, victim>>

(* The first look at an old file p; it is gone if an earlier run unlinked  *)
(* it without a checkpoint.                                                *)
Deletable(e, p) ==
    LET op == plan[e].clean[p]
    IN  /\ disk[p] \in {None, op.before}
        /\ owner[p] = op.owner
        /\ Entries(Dir[p]) \subseteq op.siblings

Delete(e) ==
    /\ pc[e] = "delete"
    /\ \/ disk[Out(e)] # plan[e].after /\ Supersede(e)
       \/ /\ disk[Out(e)] = plan[e].after
          /\ \E p \in Undeleted(plan[e]) :
               \/ ~Deletable(e, p) /\ Skip(e, p)
               \/ /\ Deletable(e, p)
                  /\ victim' = [victim EXCEPT ![e] = <<p, disk[p]>>]
                  /\ Go(e, "probe")
                  /\ UNCHANGED <<record, holder, plan>>
    /\ UNCHANGED <<disk, staged, owner, emitted, made, interrupts, envVars>>

(* Mutant: the cloud is not asked before a deletion.                       *)
CloudGoneUnasked(e, p) == TRUE

CloudGone(e, p) == \A c \in plan[e].clean[p].probes : cloud[c] = None

Probe(e) ==
    /\ pc[e] = "probe"
    /\ LET p == victim[e][1]
       IN  IF CloudGone(e, p)
           THEN Go(e, "recheck") /\ UNCHANGED <<record, holder, plan, victim>>
           ELSE Skip(e, p)
    /\ UNCHANGED <<disk, staged, owner, emitted, made, interrupts, envVars>>

(* A target that is no longer current makes the run raise: it will be      *)
(* redelivered, and superseded then.                                       *)
Recheck(e) ==
    /\ pc[e] = "recheck"
    /\ LET p == victim[e][1]
       IN  \/ ~Current(e) /\ End(e) /\ UNCHANGED record
           \/ /\ Current(e)
              /\ disk[p] # victim[e][2] \/ owner[p] # plan[e].clean[p].owner
              /\ Skip(e, p)
           \/ /\ Current(e)
              /\ disk[p] = victim[e][2] /\ owner[p] = plan[e].clean[p].owner
              /\ Go(e, IF victim[e][2] = None THEN "forget" ELSE "unlink")
              /\ UNCHANGED <<record, holder, plan, victim>>
    /\ UNCHANGED <<disk, staged, owner, emitted, made, interrupts, envVars>>

Unlink(e) ==
    /\ pc[e] = "unlink"
    /\ disk' = [disk EXCEPT ![victim[e][1]] = None]
    /\ Go(e, "forget")
    /\ UNCHANGED <<staged, dbVars, holder, plan, victim, emitted, made, interrupts, envVars>>

Forget(e) ==
    /\ pc[e] = "forget"
    /\ LET p == victim[e][1]
       IN  /\ owner' = [owner EXCEPT ![p] = [event |-> e, at |-> plan[e].clean[p].at,
                                            print |-> None]]
           /\ Skip(e, p)
    /\ UNCHANGED <<disk, staged, emitted, made, interrupts, envVars>>

Effect(e) ==
    /\ pc[e] = "effect"
    /\ IF disk[Out(e)] = plan[e].after
       THEN Go(e, "emit") /\ UNCHANGED <<record, holder, plan, victim>>
       ELSE Supersede(e)
    /\ UNCHANGED <<disk, staged, owner, emitted, made, interrupts, envVars>>

Emit(e) ==
    /\ pc[e] = "emit"
    /\ emitted' = [emitted EXCEPT ![e] = @ + 1]
    /\ Go(e, "mark")
    /\ UNCHANGED <<disk, staged, dbVars, holder, plan, victim, made, interrupts, envVars>>

(* Mutant: the effect is remembered, not saved.                            *)
MarkUnsaved(e) ==
    /\ pc[e] = "mark"
    /\ LET pl == [plan[e] EXCEPT !.effects = @ + 1]
       IN  plan' = [plan EXCEPT ![e] = pl] /\ Go(e, After(pl))
    /\ UNCHANGED <<disk, staged, dbVars, holder, victim, emitted, made, interrupts, envVars>>

Mark(e) ==
    /\ pc[e] = "mark"
    /\ LET pl == [plan[e] EXCEPT !.effects = @ + 1]
       IN  Save(e, pl, After(pl))
    /\ UNCHANGED <<disk, staged, owner, holder, victim, emitted, made, interrupts, envVars>>

Finish(e) ==
    /\ pc[e] = "finish"
    /\ Keep(e, plan[e], "done")
    /\ End(e)
    /\ UNCHANGED <<disk, staged, owner, emitted, made, interrupts, envVars>>

(* A query, a file operation or a save raises, or the process dies.        *)
Interrupt(e) ==
    /\ pc[e] # "idle" /\ FaultLeft
    /\ interrupts' = interrupts + 1
    /\ End(e)
    /\ UNCHANGED <<disk, staged, dbVars, emitted, made, envVars>>

(***************************************************************************)
(* The surroundings.                                                       *)
(***************************************************************************)
Transfer(e) ==
    /\ e \notin arrived
    /\ Source[e] # None => cloud[Source[e]] # None
    /\ arrived' = arrived \cup {e}
    /\ cloud' = [c \in Cloud |-> IF c = Target[e] THEN e
                                 ELSE IF c = Source[e] THEN None ELSE cloud[c]]
    /\ UNCHANGED <<disk, staged, dbVars, holder, pc, plan, victim, emitted, made,
                   interrupts, trash, tampers, removals>>

(* A cloud file is put into the bin, and may come back from it.            *)
Remove(c) ==
    /\ cloud[c] # None /\ FaultLeft
    /\ removals' = removals + 1
    /\ trash' = trash \cup {cloud[c]}
    /\ cloud' = [cloud EXCEPT ![c] = None]
    /\ UNCHANGED <<disk, staged, dbVars, holder, pc, plan, victim, emitted, made,
                   interrupts, arrived, tampers>>

Restore(e) ==
    /\ e \in trash /\ cloud[Target[e]] = None
    /\ trash' = trash \ {e}
    /\ cloud' = [cloud EXCEPT ![Target[e]] = e]
    /\ UNCHANGED <<disk, staged, dbVars, holder, pc, plan, victim, emitted, made,
                   interrupts, arrived, tampers, removals>>

Tamper(p) ==
    /\ FaultLeft
    /\ tampers' = tampers + 1
    /\ \/ /\ made' = [made EXCEPT ![Other] = @ + 1]
          /\ disk' = [disk EXCEPT ![p] = <<Other, made[Other] + 1>>]
       \/ /\ disk[p] # None
          /\ disk' = [disk EXCEPT ![p] = None]
          /\ UNCHANGED made
    /\ UNCHANGED <<staged, dbVars, holder, pc, plan, victim, emitted, interrupts,
                   cloud, trash, arrived, removals>>

Step(e) ==
    \/ FreezeSize(e) \/ Check(e) \/ Write(e) \/ Prepare(e) \/ SavePrepared(e)
    \/ Confirm(e) \/ Compare(e) \/ Publish(e) \/ Verify(e) \/ CompleteWrite(e)
    \/ Delete(e) \/ Probe(e) \/ Recheck(e) \/ Unlink(e) \/ Forget(e)
    \/ Effect(e) \/ Emit(e) \/ Mark(e) \/ Finish(e)

Next ==
    \/ \E e \in Event : Begin(e) \/ Reopen(e) \/ Step(e) \/ Interrupt(e)
                        \/ Transfer(e) \/ Restore(e)
    \/ \E c \in Cloud : Remove(c)
    \/ \E p \in Path : Tamper(p)

Spec == Init /\ [][Next]_vars

(* The host redelivers an event until its handler returns, and a run goes  *)
(* on once it has the lock.  Nothing is assumed of the surroundings.       *)
FairSpec ==
    Spec /\ \A e \in Event : WF_vars(Begin(e)) /\ WF_vars(Step(e))
-----------------------------------------------------------------------------
(* Version v was written by one of the authors.                            *)
By(v, authors) == v # None /\ v[1] \in authors

(* Types; and the library lock is held by the one run that is under way.   *)
TypeOK ==
    /\ cloud \in [Cloud -> Event \cup {None}]
    /\ arrived \subseteq Event /\ trash \subseteq Event
    /\ disk \in [Path -> OptVersion]
    /\ staged \in [Event -> OptVersion]
    /\ owner \in [Path -> Owner \cup {None}]
    /\ record \in [Event -> [state: {"none", "pending", "superseded", "done"},
                             plan: Plan]]
    /\ holder \in Event \cup {None}
    /\ pc \in [Event -> Stages]
    /\ plan \in [Event -> Plan]
    /\ victim \in [Event -> (Path \X OptVersion) \cup {None}]
    /\ emitted \in [Event -> Nat]
    /\ made \in [Event \cup {Other} -> Nat]
    /\ {interrupts, tampers, removals} \subseteq Nat
    /\ \A e \in Event : pc[e] # "idle" <=> holder = e

(* Every event that arrived was dealt with, and neither another program    *)
(* nor somebody restoring removed files has interfered.                    *)
NothingRestored == Cardinality(trash) = removals
Quiet ==
    /\ holder = None /\ \A e \in arrived : Settled(e)
    /\ tampers = 0 /\ NothingRestored

SharedOutput(p) == \E c, d \in Cloud : c # d /\ OutOf[c] = p /\ OutOf[d] = p

(* An event of a file that is still in the cloud, at its path, ends with   *)
(* that file's output in the library, unless two cloud paths have one      *)
(* output (the formats of one film) and the other one may have taken it.   *)
SettledLibrary ==
    Quiet => \A e \in arrived : Current(e) /\ ~SharedOutput(Out(e))
                                => By(disk[Out(e)], {e})

(* plan.py, build_cleanup: what is cleaned up is no longer in the cloud.   *)
(* A file made for an event is not deleted while that event's cloud file   *)
(* is in place.  Exception: a path that is the output of several cloud     *)
(* paths, when the run of the event was cut short before its checkpoint,   *)
(* so that the file is not recorded as its own.                            *)
Owns(f, p) == owner[p] # None /\ owner[p].event = f
LiveOutputKept ==
    [][\A e, f \in Event :
         LET p == victim[e][1]
         IN  /\ pc[e] = "unlink" /\ pc'[e] = "forget"
             /\ By(disk[p], {f}) /\ (SharedOutput(p) => Owns(f, p))
             => ~Current(f) \/ ~NothingRestored]_vars

(* plan.py, operation: a file made for an event is replaced or deleted     *)
(* only in the version the plan was frozen for, however many runs were cut *)
(* short and other events served since.  (For files of other programs this *)
(* holds up to the last check: they do not take the lock.)                 *)
ActsOnPlanned ==
    [][\A e \in Event :
         /\ pc[e] = "publish" /\ pc'[e] = "verify" /\ By(disk[Out(e)], Event)
            => disk[Out(e)] = record[e].plan.before
         /\ pc[e] = "unlink" /\ pc'[e] = "forget" /\ By(disk[victim[e][1]], Event)
            => disk[victim[e][1]] = record[e].plan.clean[victim[e][1]].before]_vars

(* A run that was cut short between publication and checkpoint is          *)
(* recognised: an event never writes over its own output, and is not given *)
(* up while that output is in place and its cloud file is current.         *)
RecoversPublished ==
    [][\A e \in Event : By(disk[Out(e)], {e}) =>
         /\ By(disk'[Out(e)], {e}) => disk'[Out(e)] = disk[Out(e)]
         /\ Current(e) /\ record[e].state = "pending"
               => record'[e].state # "superseded"]_vars

(* An effect is recorded after it was made, so it is repeated at most once *)
(* for every run cut short, and an event is done only after all of them.   *)
EffectsAtLeastOnce ==
    \A e \in Event :
        /\ record[e].state = "done" => record[e].plan.effects = Effects
        /\ record[e].plan.effects <= emitted[e]
        /\ emitted[e] <= record[e].plan.effects + interrupts
                         + (IF pc[e] = "mark" THEN 1 ELSE 0)

(* Every delivered event is carried out or given up for good, if the host  *)
(* goes on redelivering it and faults are finitely many.                   *)
ArrivedIsSettled == \A e \in Event : e \in arrived ~> Settled(e)
=============================================================================
