---------------------------- MODULE SourceCleanup ----------------------------
(***************************************************************************)
(* helper/transfer/cleanup.py: directories emptied by a transfer are       *)
(* deleted.  Every task of a batch that ends calls cleanup(); once its job *)
(* has succeeded the directories above the job's sources are judged, from  *)
(* each source upwards, then judged again from new listings, and those     *)
(* confirmed are deleted with one request.                                 *)
(*                                                                         *)
(* Every request to the cloud is a step of its own.  Between them other    *)
(* workers move their files out, files are uploaded, calls fail, and the   *)
(* answer to the deletion may be lost.  Calls exclude each other (_lock).  *)
(*                                                                         *)
(* A directory is its path, the sequence of its names; one storage.  A     *)
(* file is looked for in one directory only, its Home.  Left out: a folder *)
(* moved, renamed or made during a call, and a job with a failed task,     *)
(* which is never cleaned up.                                              *)
(***************************************************************************)
EXTENDS Naturals, FiniteSets, Sequences, SequencesExt

CONSTANTS Dir,        \* directories: sequences of names
          Root,       \* download and library directories of the configuration
          File,
          Home,       \* Home[f]: directory of file f
          Media,      \* files with an extension of media_exts
          Job,        \* Job[f]: job of the task for file f, or None
          Batch,      \* Batch[f]: transfer_batch_id of that task, or None
          Later,      \* files of no task that are uploaded in between
          None,
          KeysKept,   \* keys remembered in _completed (the code: 128)
          MaxFaults   \* bound: calls that fail

Above(d) == {e \in Dir : IsPrefix(e, d)}
Below(d) == {e \in Dir : IsPrefix(d, e)}

ASSUME CleanupAssumption ==
    /\ Dir \subseteq Seq(STRING) /\ Root \subseteq Dir
    /\ \A d \in Dir : Len(d) > 1 => Front(d) \in Dir
    /\ Home \in [File -> Dir]
    /\ Media \subseteq File
    /\ Later \subseteq {f \in File : Job[f] = None}
    /\ DOMAIN Job = File /\ DOMAIN Batch = File
    /\ IsFiniteSet(File) /\ Dir \cap File = {}
    /\ None \notin Dir \cup File /\ \A s \in SUBSET (Dir \cup File) : s # None
    /\ {KeysKept, MaxFaults} \subseteq Nat

VARIABLES
    there,      \* cloud: directories that exist
    loc,        \* cloud: loc[f] = "home", "gone" (deleted with a directory) or "away"
    cached,     \* directories and files in the storage's id caches
    task,       \* task[f]: how far the task for f is
    completed,  \* _completed: keys, oldest first
    phase,      \* what the call that holds _lock is doing
    call,       \* its task's file
    key,        \* its batch and paths
    todo,       \* source directories still to start from
    cur,        \* directory being judged
    folders,    \* folders[d]: "unknown", "found" or "missing"
    lists,      \* listings[d], or None
    visited, cands, observed,
    confirmed,
    late,       \* files uploaded after the last listing of their directory (history)
    unclean,    \* jobs whose last call failed (history)
    unsure,     \* entries deleted by a request that was reported failed (history)
    failed      \* calls that failed

cloudVars == <<there, loc, cached, late, unsure>>
runVars == <<todo, cur, folders, lists, visited, cands, observed, confirmed>>
vars == <<cloudVars, runVars, task, completed, phase, call, key, unclean, failed>>

Entry == Dir \cup File
Fresh == [d \in Dir |-> None]

Init ==
    /\ there = Dir
    /\ loc = [f \in File |-> IF f \in Later THEN "away" ELSE "home"]
    /\ cached = Dir \cup {f \in File : loc[f] = "home"}
    /\ task = [f \in File |-> "none"]
    /\ completed = <<>>
    /\ phase = "idle" /\ call = None /\ key = None
    /\ todo = {} /\ cur = None
    /\ folders = [d \in Dir |-> "unknown"]
    /\ lists = Fresh
    /\ visited = {} /\ cands = {} /\ observed = {} /\ confirmed = {}
    /\ late = {} /\ unsure = {} /\ unclean = {}
    /\ failed = 0

(***************************************************************************)
(* What surrounds the call.                                                *)
(***************************************************************************)
Same(f) == {g \in File : Job[g] = Job[f] /\ task[g] # "none"}
IsSuccess(f) == \A g \in Same(f) : task[g] \in {"moved", "waiting", "done"}

Contents(d) == {e \in there : Len(e) = Len(d) + 1 /\ IsPrefix(d, e)}
               \cup {f \in File : Home[f] = d /\ loc[f] = "home"}

(* A task of the job begins: the host plans it.                            *)
Submit(f) ==
    /\ Job[f] # None /\ task[f] = "none" /\ loc[f] = "home"
    /\ task' = [task EXCEPT ![f] = "queued"]
    /\ UNCHANGED <<cloudVars, runVars, completed, phase, call, key, unclean, failed>>

(* The batch moved the file to the library; its id stays cached.           *)
Move(f) ==
    /\ task[f] = "queued" /\ loc[f] = "home"
    /\ task' = [task EXCEPT ![f] = "moved"]
    /\ loc' = [loc EXCEPT ![f] = "away"]
    /\ UNCHANGED <<there, cached, late, unsure, runVars, completed, phase, call, key, unclean, failed>>

Rereading == phase \in {"recheck", "rescan", "delete"}

(* Somebody uploads a file of no task.                                     *)
Upload(f) ==
    /\ f \in Later /\ loc[f] = "away" /\ Home[f] \in there
    /\ loc' = [loc EXCEPT ![f] = "home"]
    /\ cached' = cached \cup {f}
    /\ late' = IF Rereading /\ lists[Home[f]] # None THEN late \cup {f} ELSE late
    /\ UNCHANGED <<there, unsure, runVars, task, completed, phase, call, key, unclean, failed>>

(***************************************************************************)
(* cleanup: the job's success is looked at before the lock, its paths      *)
(* behind it.                                                              *)
(***************************************************************************)
Enter(f) ==
    /\ task[f] = "moved"
    /\ task' = [task EXCEPT ![f] = IF IsSuccess(f) THEN "waiting" ELSE "done"]
    /\ UNCHANGED <<cloudVars, runVars, completed, phase, call, key, unclean, failed>>

(* Mutant: the paths are no part of the key.                               *)
KeyOfBatch(f) == <<Batch[f], {}>>

Paths(f) == {g \in Same(f) : task[g] \in {"moved", "waiting", "done"}}
Key(f) == <<Batch[f], Paths(f)>>
Known(f) == Batch[f] # None /\ Contains(completed, Key(f))

Acquire(f) ==
    /\ phase = "idle" /\ task[f] = "waiting"
    /\ IF Known(f)
       THEN /\ task' = [task EXCEPT ![f] = "done"]
            /\ unclean' = unclean \ {Job[f]}
            /\ UNCHANGED <<runVars, phase, call, key>>
       ELSE /\ phase' = "climb" /\ call' = f /\ key' = Key(f)
            /\ todo' = {Home[g] : g \in Paths(f)}
            /\ cur' = None
            /\ folders' = [d \in Dir |-> "unknown"]
            /\ lists' = Fresh
            /\ visited' = {} /\ cands' = {} /\ observed' = {} /\ confirmed' = {}
            /\ UNCHANGED <<task, unclean>>
    /\ UNCHANGED <<cloudVars, completed, failed>>

(* Mutant: the oldest keys are never dropped.                              *)
RememberAll(k) == Append(completed, k)

(* while len(_completed) > 128: popitem                                    *)
Remember(k) == LET s == Append(completed, k)
               IN IF Len(s) > KeysKept THEN Tail(s) ELSE s

(* Mutant: a call that failed is remembered, too.                          *)
KeysAlways(ok) == IF key[1] # None THEN Remember(key) ELSE completed

Keys(ok) == IF ok /\ key[1] # None THEN Remember(key) ELSE completed

Return(ok) ==
    /\ completed' = Keys(ok)
    /\ failed' = IF ok THEN failed ELSE failed + 1
    /\ unclean' = IF ok THEN unclean \ {Job[call]} ELSE unclean \cup {Job[call]}
    /\ task' = [task EXCEPT ![call] = "done"]
    /\ phase' = "idle" /\ call' = None /\ key' = None

(***************************************************************************)
(* eligible(path, boundary): no directory of the first level, none that is *)
(* or holds a root; below a root it must hold no media, elsewhere nothing. *)
(***************************************************************************)
Bounded(d) == Above(d) \cap Root # {}
(* Mutant: only the roots themselves are protected.                        *)
ForbiddenExact(d) == Len(d) <= 1 \/ d \in Root

Forbidden(d) == Len(d) <= 1 \/ Below(d) \cap Root # {}

(* Directories below d that the listings lead to, and what they hold.      *)
Reached(d) == {e \in Below(d) :
                 \A x \in (Above(e) \cap Below(d)) \ {d} :
                    lists[Front(x)] # None /\ x \in lists[Front(x)]}
Seen(d) == UNION {lists[e] : e \in {x \in Reached(d) : lists[x] # None}}
HasMedia(d) == Seen(d) \cap Media # {}
Unread(d) == {e \in Reached(d) : lists[e] = None}

(* list_files(folder) is asked first when there is no boundary.            *)
Occupied(d) == ~Bounded(d) /\ lists[d] # None /\ lists[d] # {}
Refused(d) == HasMedia(d) \/ Occupied(d)
Passed(d) == ~Refused(d) /\ Unread(d) = {}

(* Directories that may be listed next.  contains_media goes into those    *)
(* that a listing names before the media file it stops at.  The order of a *)
(* listing is the cloud's, so any may come before it, or none.             *)
Pending(d) == IF Occupied(d) THEN {} ELSE Unread(d)

(* One listing.                                                            *)
ListNext ==
    /\ \E d \in Pending(cur) \cap there :
         /\ lists' = [lists EXCEPT ![d] = Contents(d)]
         /\ observed' = observed \cup {d} \cup Contents(d)
         /\ folders' = [e \in Dir |-> IF e \in Contents(d) THEN "found" ELSE folders[e]]
    /\ UNCHANGED <<cloudVars, todo, cur, visited, cands, confirmed, task, completed,
                   phase, call, key, unclean, failed>>

(***************************************************************************)
(* First pass: from each source directory upwards.                         *)
(***************************************************************************)
(* The walk goes on to directory d, if it still may.                       *)
Judge(d) ==
    IF Len(d) > 1 /\ d \notin visited
    THEN /\ visited' = visited \cup {d}
         /\ IF Forbidden(d) \/ folders[d] = "missing"
            THEN phase' = "climb" /\ cur' = None
            ELSE phase' = "item" /\ cur' = d
    ELSE phase' = "climb" /\ cur' = None /\ UNCHANGED visited

NextSource ==
    /\ phase = "climb" /\ todo # {}
    /\ \E d \in todo : todo' = todo \ {d} /\ Judge(d)
    /\ UNCHANGED <<cloudVars, folders, lists, cands, observed, confirmed, task,
                   completed, call, key, unclean, failed>>

(* get_item_strict answers from the id cache, which may be stale, or asks  *)
(* the cloud: entries expire.                                              *)
Findable(d) == d \in there \cup cached

(* The item is asked for, unless it is in folders.                         *)
GetItem ==
    /\ phase = "item"
    /\ \/ /\ folders[cur] = "found" \/ Findable(cur)
          /\ folders' = [folders EXCEPT ![cur] = "found"]
          /\ cached' = IF cur \in there THEN cached \cup {cur} ELSE cached
          /\ phase' = "scan" /\ UNCHANGED cur
       \/ /\ folders[cur] # "found" /\ cur \notin there
          /\ folders' = [folders EXCEPT ![cur] = "missing"]
          /\ cached' = cached \ {cur}
          /\ phase' = "climb" /\ cur' = None
    /\ UNCHANGED <<there, loc, late, unsure, todo, lists, visited, cands, observed,
                   confirmed, task, completed, call, key, unclean, failed>>

Scan == phase = "scan" /\ ListNext

Candidate ==
    /\ phase = "scan" /\ Passed(cur)
    /\ cands' = cands \cup {cur}
    /\ Judge(Front(cur))
    /\ UNCHANGED <<cloudVars, todo, folders, lists, observed, confirmed, task,
                   completed, call, key, unclean, failed>>

Reject ==
    /\ phase = "scan" /\ Refused(cur)
    /\ phase' = "climb" /\ cur' = None
    /\ UNCHANGED <<cloudVars, todo, folders, lists, visited, cands, observed,
                   confirmed, task, completed, call, key, unclean, failed>>

(***************************************************************************)
(* Second pass: the listings are cleared, the candidates judged again from *)
(* the shallowest down, what lies below a confirmed one passed over.       *)
(***************************************************************************)
(* Mutant: the listings of the first pass are used again.                  *)
Uncleared == lists

Cleared == Fresh

Reread ==
    /\ phase = "climb" /\ todo = {}
    /\ phase' = "recheck"
    /\ lists' = Cleared
    /\ UNCHANGED <<cloudVars, todo, cur, folders, visited, cands, observed,
                   confirmed, task, completed, call, key, unclean, failed>>

Recheck ==
    /\ phase = "recheck"
    /\ \E d \in cands :
         /\ \A e \in cands : Len(d) <= Len(e)
         /\ cands' = cands \ {d}
         /\ IF Above(d) \cap confirmed # {} \/ Forbidden(d)
            THEN UNCHANGED <<phase, cur>>
            ELSE phase' = "rescan" /\ cur' = d
    /\ UNCHANGED <<cloudVars, todo, folders, lists, visited, observed, confirmed,
                   task, completed, call, key, unclean, failed>>

Rescan == phase = "rescan" /\ ListNext

Confirm ==
    /\ phase = "rescan" /\ (Passed(cur) \/ Refused(cur))
    /\ confirmed' = IF Passed(cur) THEN confirmed \cup {cur} ELSE confirmed
    /\ phase' = "recheck" /\ cur' = None
    /\ UNCHANGED <<cloudVars, todo, folders, lists, visited, cands, observed, task,
                   completed, call, key, unclean, failed>>

NothingLeft ==
    /\ phase = "recheck" /\ cands = {} /\ confirmed = {}
    /\ Return(TRUE)
    /\ UNCHANGED <<cloudVars, runVars>>

Decide ==
    /\ phase = "recheck" /\ cands = {} /\ confirmed # {}
    /\ phase' = "delete"
    /\ UNCHANGED <<cloudVars, runVars, task, completed, call, key, unclean, failed>>

(***************************************************************************)
(* fs_delete of all confirmed directories, then the caches.  An answer     *)
(* that is lost makes the call fail with the caches as they were.          *)
(***************************************************************************)
Doomed == {d \in there : Above(d) \cap confirmed # {}}
Inside == {f \in File : loc[f] = "home" /\ Home[f] \in Doomed}
Path(i) == IF i \in Dir THEN i ELSE Home[i]
InConfirmed(i) == Above(Path(i)) \cap confirmed # {}
(* Mutant: only the ids of the deleted directories themselves.             *)
UncachedRoots == confirmed

Uncached == {i \in observed : InConfirmed(i)}

Delete ==
    /\ phase = "delete"
    /\ there' = there \ Doomed
    /\ loc' = [f \in File |-> IF f \in Inside THEN "gone" ELSE loc[f]]
    /\ UNCHANGED late
    /\ \/ /\ phase' = "forget"
          /\ UNCHANGED <<unsure, task, completed, call, key, unclean, failed>>
       \/ /\ failed < MaxFaults
          /\ unsure' = unsure \cup Doomed \cup Inside
          /\ Return(FALSE)
    /\ UNCHANGED <<cached, runVars>>

Forget ==
    /\ phase = "forget"
    /\ cached' = cached \ Uncached
    /\ Return(TRUE)
    /\ UNCHANGED <<there, loc, late, unsure, runVars>>

(* A directory is listed that no longer exists: list() answers None, and   *)
(* drops the id when the cloud says that it is no directory's.             *)
ListGone ==
    /\ phase \in {"scan", "rescan"}
    /\ \E d \in Pending(cur) \ there : cached' = cached \/ cached' = cached \ {d}
    /\ Return(FALSE)
    /\ UNCHANGED <<there, loc, late, unsure, runVars>>

(* A request fails.                                                        *)
Fail ==
    /\ failed < MaxFaults
    /\ \/ phase = "item" /\ folders[cur] # "found"
       \/ phase \in {"scan", "rescan"} /\ Pending(cur) # {}
       \/ phase = "delete"
    /\ Return(FALSE)
    /\ UNCHANGED <<cloudVars, runVars>>

Next == \/ \E f \in File : \/ Submit(f) \/ Move(f) \/ Upload(f) \/ Enter(f)
                           \/ Acquire(f)
        \/ NextSource \/ GetItem \/ Scan \/ Candidate \/ Reject
        \/ Reread \/ Recheck \/ Rescan \/ Confirm \/ NothingLeft \/ Decide
        \/ Delete \/ Forget \/ ListGone \/ Fail

Spec == Init /\ [][Next]_vars

(***************************************************************************)
(* Properties.                                                             *)
(***************************************************************************)
TypeOK ==
    /\ there \subseteq Dir
    /\ loc \in [File -> {"home", "away", "gone"}]
    /\ cached \subseteq Entry
    /\ task \in [File -> {"none", "queued", "moved", "waiting", "done"}]
    /\ Len(completed) <= KeysKept
    /\ phase \in {"idle", "climb", "item", "scan", "recheck", "rescan", "delete",
                  "forget"}
    /\ call \in File \cup {None} /\ (call = None => key = None)
    /\ cur \in Dir \cup {None}
    /\ todo \subseteq Dir
    /\ folders \in [Dir -> {"unknown", "found", "missing"}]
    /\ lists \in [Dir -> (SUBSET Entry) \cup {None}]
    /\ visited \subseteq Dir /\ cands \subseteq Dir /\ confirmed \subseteq Dir
    /\ observed \subseteq Entry
    /\ late \subseteq File /\ unsure \subseteq Entry
    /\ unclean \subseteq {Job[f] : f \in File}
    /\ failed \in 0..MaxFaults + Cardinality(File)

Deleted == {f \in File : loc[f] = "gone"}

(* A media file is lost with its directory only when it was uploaded after *)
(* the second reading of that directory: whatever other workers and users  *)
(* do between the two readings is seen (cleanup.py:134).                   *)
MediaKept == Deleted \cap Media \subseteq late

(* No configured directory is deleted, nor one that holds it; and outside  *)
(* of them no file at all is lost unless it came after the second reading  *)
(* (the boundary of eligible(), which both passes must apply).             *)
OutsideKept ==
    /\ Root \subseteq there
    /\ \A f \in Deleted \ late : Bounded(Home[f])

(* Between two calls the id caches hold nothing that was deleted, except   *)
(* late files and what a request deleted whose answer was an error.        *)
CacheClean ==
    phase = "idle" => cached \cap ((Dir \ there) \cup Deleted) \subseteq late \cup unsure

MediaBelow(d) == {f \in Media : loc[f] = "home" /\ Home[f] \in Below(d)}
Emptied(d) == IF Bounded(d) THEN MediaBelow(d) = {} ELSE Contents(d) = {}

(* Directories that a call is to delete once they are empty.  Outside of   *)
(* the roots it leaves one whose subdirectory it deletes.                  *)
Removable(d) == ~Forbidden(d) /\ (Bounded(d) \/ Below(d) = {d})

(* When every task has ended and no job's last call failed, no directory   *)
(* above a moved file is left empty: neither the cache of completed        *)
(* batches, nor an ancestor found occupied by another job, nor a directory *)
(* another call has deleted makes the last call skip one.                  *)
EmptiedGone ==
    (phase = "idle" /\ unclean = {} /\ \A f \in File : task[f] \in {"none", "done"})
    => \A f \in File : \A d \in Above(Home[f]) :
          task[f] = "done" /\ Removable(d) => ~(d \in there /\ Emptied(d))
=============================================================================
