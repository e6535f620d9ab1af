---------------------------- MODULE LifeMonitor ----------------------------
(***************************************************************************)
(* service/life/__init__.py, once_pull of helper/life/client.py and        *)
(* iter_life_behavior_once of core/p115.py: one thread pulls the events of *)
(* the cloud drive (uploads, moves, removals) that are newer than a        *)
(* cursor, hands them to their handlers, and moves the cursor on.          *)
(*                                                                         *)
(* The cloud lists events newest first and in pages; between two pages new *)
(* events arrive, and the event of a removal vanishes when the file is     *)
(* restored, so that the rest of the list moves.  A request or a handler   *)
(* may raise; the thread is stopped and started, or dies with the process. *)
(*                                                                         *)
(* An event is the number of its appearance; ids and times grow with it.   *)
(* So the list is the set of its entries, and an entry has a rank in it.   *)
(* What a handler does, the wait for running transfers before a pull and   *)
(* the choice between the two interfaces of the cloud are left out.        *)
(***************************************************************************)
EXTENDS Naturals, FiniteSets

CONSTANTS Events,     \* bound: number of events
          FileOf,     \* FileOf[e]: the file of event e
          Ignored,    \* events of the ignored types
          Vanishing,  \* events whose file may be restored
          FirstPage, Page,   \* sizes of the first and of the later pages
          Attempts,   \* tries of a pull
          Mode,       \* monitor_life_first_pull_mode
          None,
          MaxFaults,  \* bound: requests and handlers that raise, crashes
          MaxStarts   \* bound: starts of the thread

Event == 1..Events

ASSUME LifeAssumption ==
    /\ {Events, MaxFaults, MaxStarts} \subseteq Nat
    /\ {FirstPage, Page, Attempts} \subseteq Nat \ {0}
    /\ FirstPage <= Page   \* the code: 64 or 1000, and 1000
    /\ DOMAIN FileOf = Event
    /\ Ignored \subseteq Event /\ Vanishing \subseteq Event
    /\ Mode \in {"latest", "all", "last"}
    /\ None \notin Nat

VARIABLES
    happened,   \* events 1..happened have appeared
    gone,       \* events that vanished from the list
    pc,         \* where the thread is
    stopping,   \* stop_event
    cursor,     \* from_id
    saved,      \* the cursor in the plugin's data, or None
    batch,      \* events pulled, each with the offset of its page; those handed
                \* over removed
    read,       \* new entries read by this pull; `seen' in the code has their files
    offset,     \* entries read by this pull
    attempt,    \* number of this try
    faults, starts,
    handled,    \* history: events handed over
    latest,     \* history: the last event handed over since the cursor was set back
    base,       \* history: what the first start left out
    arrivals,   \* history: events that appeared between the pages of this pull
    slipped,    \* history: events that moved up to a place already read
    hidden      \* history: events passed over as seen after too many arrivals

pull == <<batch, read, offset, attempt>>
cloud == <<happened, gone>>
bounds == <<faults, starts>>
history == <<handled, latest, base, arrivals, slipped, hidden>>
vars == <<cloud, pc, stopping, cursor, saved, pull, bounds, history>>

(* The list of the cloud, newest first, and n entries of it after k.       *)
Listed == 1..happened \ gone
Count == Cardinality(Listed)
Rank(e) == Cardinality({d \in Listed : d >= e})
Entries(k, n) == {e \in Listed : k < Rank(e) /\ Rank(e) <= k + n}

Lower(m, n) == IF m < n THEN m ELSE n

Init ==
    /\ happened = 0 /\ gone = {}
    /\ pc = "off" /\ stopping = FALSE
    /\ cursor = 0 /\ saved = None
    /\ batch = {} /\ read = {} /\ offset = 0 /\ attempt = 0
    /\ faults = 0 /\ starts = 0
    /\ handled = {} /\ latest = 0 /\ base = 0
    /\ arrivals = 0 /\ slipped = {} /\ hidden = {}

Fault == faults < MaxFaults /\ faults' = faults + 1

(***************************************************************************)
(* Start and end of the thread.                                            *)
(***************************************************************************)
FirstCursor ==
    IF Mode = "all" THEN 0
    ELSE IF Mode = "last" /\ saved # None THEN saved ELSE happened

Start ==
    /\ pc = "off" /\ starts < MaxStarts
    /\ starts' = starts + 1
    /\ pc' = "loop" /\ stopping' = FALSE
    /\ cursor' = FirstCursor
    /\ base' = IF Mode = "last" /\ saved # None THEN base ELSE FirstCursor
    /\ latest' = FirstCursor
    /\ UNCHANGED <<cloud, saved, pull, faults, handled, arrivals, slipped, hidden>>

RequestStop ==
    /\ pc # "off" /\ ~stopping
    /\ stopping' = TRUE
    /\ UNCHANGED <<cloud, pc, cursor, saved, pull, bounds, history>>

StopInLoop ==
    /\ pc = "loop" /\ stopping
    /\ saved' = cursor
    /\ pc' = "off"
    /\ UNCHANGED <<cloud, stopping, cursor, pull, bounds, handled, latest, base, arrivals,
                   slipped, hidden>>

StopAfterFailure ==
    /\ pc = "failed" /\ stopping
    /\ pc' = "off"
    /\ UNCHANGED <<cloud, stopping, cursor, saved, pull, bounds, handled, latest, base,
                   arrivals, slipped, hidden>>

RetryAfterFailure ==
    /\ pc = "failed" /\ ~stopping
    /\ pc' = "loop"
    /\ UNCHANGED <<cloud, stopping, cursor, saved, pull, bounds, history>>

(***************************************************************************)
(* A pull.                                                                 *)
(***************************************************************************)
NewPull(n) ==
    /\ batch' = {} /\ read' = {} /\ offset' = 0 /\ attempt' = n /\ arrivals' = 0

BeginPull ==
    /\ pc = "loop" /\ ~stopping
    /\ pc' = "page"
    /\ NewPull(1)
    /\ UNCHANGED <<cloud, stopping, cursor, saved, bounds, handled, latest, base, slipped,
                   hidden>>

(* Mutant: the event after the cursor counts as known.                     *)
NewSkippingOne(e) == e > cursor + 1

New(e) == e > cursor

(* Mutant: files are not told apart across the events of a pull.           *)
FreshUnseen(page) == {e \in page : New(e) /\ e \notin Ignored}

(* The entries of a page that are yielded: of each file the first entry    *)
(* met, unless it is of an ignored type.                                   *)
Seen == {FileOf[e] : e \in read}
Fresh(page) ==
    {e \in page : /\ New(e) /\ e \notin Ignored /\ FileOf[e] \notin Seen
                  /\ \A d \in page : FileOf[d] = FileOf[e] => d <= e}

(* offset + len(events); a page that is not full ends the list.            *)
Size == IF offset = 0 THEN FirstPage ELSE Page
OffsetAfter == IF offset < Count THEN Lower(offset + Size, Count) ELSE offset

(* A known event, the end of the list and an empty page, which lies beyond *)
(* the end, close the pull.                                                *)
FetchPage ==
    /\ pc = "page"
    /\ LET page == Entries(offset, Size)
           new == {e \in page : New(e)}
       IN  /\ batch' = batch \cup [at: {offset}, event: Fresh(page)]
           /\ read' = read \cup new
           /\ offset' = OffsetAfter
           /\ hidden' = IF arrivals <= FirstPage THEN hidden
                        ELSE hidden \cup {e \in new \ read : FileOf[e] \in Seen}
           /\ pc' = IF new = page /\ offset' < Count THEN "page"
                    ELSE IF batch' = {} THEN "loop" ELSE "handle"
    /\ UNCHANGED <<cloud, stopping, cursor, saved, attempt, bounds, handled, latest, base,
                   arrivals, slipped>>

(* A request raises: the pull begins anew, or is given up.                 *)
PullFails ==
    /\ pc = "page" /\ Fault
    /\ \/ stopping /\ attempt < Attempts /\ pc' = "loop"
          /\ UNCHANGED <<pull, arrivals>>
       \/ ~stopping /\ attempt < Attempts /\ NewPull(attempt + 1) /\ UNCHANGED pc
       \/ attempt = Attempts /\ pc' = "failed" /\ UNCHANGED <<pull, arrivals>>
    /\ UNCHANGED <<cloud, stopping, cursor, saved, starts, handled, latest, base, slipped,
                   hidden>>

(* The login is no longer valid before a first event was found: as if      *)
(* nothing had happened in the cloud.                                      *)
LoginInvalid ==
    /\ pc = "page" /\ batch = {} /\ Fault
    /\ pc' = "loop"
    /\ UNCHANGED <<cloud, stopping, cursor, saved, pull, starts, history>>

(* Mutant: the events are handed over as they are listed.                  *)
UpcomingListed(b) == \A c \in batch : b.at < c.at \/ (b.at = c.at /\ b.event >= c.event)

(* The next event of reversed(events_batch): of the last page, the oldest. *)
Upcoming(b) == \A c \in batch : b.at > c.at \/ (b.at = c.at /\ b.event <= c.event)

HandleEvent ==
    /\ pc = "handle"
    /\ \E b \in batch :
         /\ Upcoming(b)
         /\ handled' = handled \cup {b.event}
         /\ latest' = b.event
         /\ batch' = batch \ {b}
         /\ IF batch' = {} THEN cursor' = b.event /\ pc' = "loop"
                           ELSE UNCHANGED <<cursor, pc>>
    /\ UNCHANGED <<cloud, stopping, saved, read, offset, attempt, bounds, base,
                   arrivals, slipped, hidden>>

(* Mutant: the cursor is moved although a handler failed.                  *)
SetBackNever(b) == cursor' = b.event /\ latest' = b.event

(* The whole batch will be pulled again.                                   *)
SetBack(b) == latest' = cursor /\ UNCHANGED cursor

(* A handler raises, with or without having done its work.                 *)
HandlerFails ==
    /\ pc = "handle" /\ Fault
    /\ pc' = "failed"
    /\ \E b \in batch :
         /\ Upcoming(b)
         /\ SetBack(b)
         /\ handled' \in {handled, handled \cup {b.event}}
    /\ UNCHANGED <<cloud, stopping, saved, pull, starts, base, arrivals, slipped, hidden>>

(***************************************************************************)
(* The surroundings.                                                       *)
(***************************************************************************)
Crash ==
    /\ pc # "off" /\ Fault
    /\ pc' = "off"
    /\ UNCHANGED <<cloud, stopping, cursor, saved, pull, starts, handled, latest, base,
                   arrivals, slipped, hidden>>

Arrive ==
    /\ happened < Events
    /\ happened' = happened + 1
    /\ arrivals' = IF pc = "page" /\ offset > 0 THEN arrivals + 1 ELSE arrivals
    /\ UNCHANGED <<gone, pc, stopping, cursor, saved, pull, bounds, handled, latest, base,
                   slipped, hidden>>

(* If v is at a place already read, the next entry moves up to one.        *)
Vanish(v) ==
    /\ v \in Vanishing \ gone /\ v <= happened
    /\ gone' = gone \cup {v}
    /\ slipped' = IF pc = "page" /\ v \in Entries(0, offset)
                  THEN slipped \cup Entries(offset, 1) ELSE slipped
    /\ UNCHANGED <<happened, pc, stopping, cursor, saved, pull, bounds, handled, latest,
                   base, arrivals, hidden>>

Thread ==
    \/ StopInLoop \/ StopAfterFailure \/ RetryAfterFailure
    \/ BeginPull \/ FetchPage \/ HandleEvent

Next ==
    \/ Start \/ RequestStop \/ Thread
    \/ PullFails \/ LoginInvalid \/ HandlerFails \/ Crash
    \/ Arrive \/ \E v \in Vanishing : Vanish(v)

Spec == Init /\ [][Next]_vars

(* The thread is scheduled, its requests and handlers return or raise.     *)
FairSpec == Spec /\ WF_vars(Thread)
-----------------------------------------------------------------------------
(* A later event of the same file has appeared.                            *)
Superseded(e) == \E d \in 1..happened : d > e /\ FileOf[d] = FileOf[e]

Done(e) == \/ e \in handled \cup gone \cup Ignored
           \/ e \in slipped \cup hidden
           \/ e <= base \/ Superseded(e)

(* The types; a batch holds new events, one of each file.                  *)
TypeOK ==
    /\ happened \in 0..Events /\ gone \subseteq Event
    /\ pc \in {"off", "loop", "page", "handle", "failed"}
    /\ stopping \in BOOLEAN
    /\ cursor \in 0..Events /\ saved \in 0..Events \cup {None}
    /\ batch \subseteq [at: 0..Events, event: Event] /\ read \subseteq 1..happened
    /\ offset \in 0..Events /\ attempt \in 0..Attempts
    /\ {faults, starts, arrivals} \subseteq Nat
    /\ handled \subseteq Event /\ slipped \subseteq Event /\ hidden \subseteq Event
    /\ latest \in 0..Events /\ base \in 0..Events
    /\ pc = "handle" => batch # {}
    /\ pc \in {"page", "handle"} =>
         /\ \A b \in batch : b.event > cursor
         /\ \A b, c \in batch : b # c => FileOf[b.event] # FileOf[c.event]

(* The cursor, and with it the one that is saved, passes no event that was *)
(* not handed over, whatever arrives, fails, stops or dies in between.     *)
(* Exceptions: an event followed by another one of its file; one that a    *)
(* vanished entry moved to a place already read; one passed over for an    *)
(* older one of its file, when between two pages more events had appeared  *)
(* than the first page holds; one before the start that found no cursor.   *)
NothingSkipped ==
    /\ \A e \in 1..cursor : pc # "off" => Done(e)
    /\ saved # None => \A e \in 1..saved : Done(e)

(* Events are handed over in the order of their appearance, and again only *)
(* after a failure or a start, from the cursor on.  Exception: a pull      *)
(* between whose pages more events appear than the first page holds.       *)
InOrder == [][HandleEvent => latest' > latest \/ arrivals > FirstPage]_vars

(* An event is handed over in the end if the thread is not stopped and     *)
(* does not fail for ever - unless a later event of its file, even one of  *)
(* an ignored type, hides it.                                              *)
EventsHandled ==
    \A e \in Event : e <= happened /\ pc # "off" ~> Done(e) \/ pc = "off"
=============================================================================
