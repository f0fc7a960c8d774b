------------------------------- MODULE Inbox -------------------------------
(***************************************************************************)
(* New mail on the inbox page: GET /emails and /emails/wait of             *)
(* api/internal/router on the server's side, the list and the wait loop of *)
(* router/static/ui/app.js on the browser's.                               *)
(*                                                                         *)
(* Every await of the page is a request in flight: the server acts on it   *)
(* at one time, the page hears the answer at a later one, and whatever the *)
(* user clicked or the page heard in between comes first.  Aborting a wait *)
(* loop does not end its request.  The page's list is the set of ids it    *)
(* shows: every use the page makes of it but drawing it is one of a set.   *)
(* The pane with the selected email, the API key and the filter box are    *)
(* left out.                                                               *)
(***************************************************************************)
EXTENDS Integers, FiniteSets

CONSTANTS
    MaxMail,      \* bound: emails that arrive
    MaxTime,      \* bound: the clock of created_at, in seconds
    PageSize,     \* limit=50 of the page's list request
    Loops,        \* bound: wait loops with a request in flight
    Loads,        \* bound: list requests in flight
    MaxClicks,    \* bound: clicks of the user
    MaxFaults     \* bound: requests that fail

ASSUME InboxAssumption ==
    /\ MaxMail \in Nat /\ MaxTime \in Nat /\ PageSize \in Nat \ {0}
    /\ MaxClicks \in Nat /\ MaxFaults \in Nat

Ids  == 1 .. MaxMail
Time == 0 .. MaxTime
None == 0

VARIABLES
    now,
    live,         \* ids of the rows in the table
    created,      \* per id, created_at
    nextId,
    emails,       \* ids in the page's list
    autoWait,     \* its check box
    busy,
    waitAbort,    \* the loop its abort controller belongs to
    loop, load,   \* per slot, a wait loop and a list request
    deleting,     \* per id, the delete request of the page
    clicks, faults

tableVars == <<now, live, created, nextId>>
pageVars  == <<emails, autoWait, busy, waitAbort>>
callVars  == <<loop, load, deleting>>
bounds    == <<clicks, faults>>
vars      == <<tableVars, pageVars, callVars, bounds>>

NoLoop == [at |-> "off", since |-> 0, got |-> None, aborted |-> FALSE]
NoLoad == [at |-> "off", rows |-> {}]

\* The page opens with a list request, the box not checked.
Init ==
    /\ now = 0
    /\ live = {}
    /\ created = [i \in Ids |-> 0]
    /\ nextId = 1
    /\ emails = {}
    /\ autoWait = FALSE
    /\ busy = TRUE
    /\ waitAbort = None
    /\ loop = [l \in Loops |-> NoLoop]
    /\ \E p \in Loads : load = [q \in Loads |-> IF q = p THEN [NoLoad EXCEPT !.at = "asked"]
                                                         ELSE NoLoad]
    /\ deleting = [i \in Ids |-> "no"]
    /\ clicks = 0
    /\ faults = 0

Fault ==
    /\ faults < MaxFaults
    /\ faults' = faults + 1

----------------------------------------------------------------------------
(* The table. *)

Tick ==
    /\ now < MaxTime
    /\ now' = now + 1
    /\ UNCHANGED <<live, created, nextId, pageVars, callVars, bounds>>

\* created_at is the second t in which the message was parsed, the id is drawn
\* by the insert: messages may get them in different orders.
InsertEmail(t) ==
    /\ t <= now
    /\ nextId \in Ids
    /\ live' = live \cup {nextId}
    /\ created' = [created EXCEPT ![nextId] = t]
    /\ nextId' = nextId + 1
    /\ UNCHANGED <<now, pageVars, callVars, bounds>>

\* The cleaner, or another client.
DeleteElsewhere(i) ==
    /\ i \in live
    /\ live' = live \ {i}
    /\ UNCHANGED <<now, created, nextId, pageVars, callVars, bounds>>

\* ORDER BY created_at DESC LIMIT n: of rows with one created_at any come first.
ListEmails(S, n) ==
    {T \in SUBSET S :
       /\ Cardinality(T) = IF Cardinality(S) < n THEN Cardinality(S) ELSE n
       /\ \A i \in T, j \in S \ T : created[j] <= created[i]}

Newest(S) == {i \in S : {i} \in ListEmails(S, 1)}

----------------------------------------------------------------------------
(* The server answers. *)

Since(n) == {i \in live : i > n}

\* One round of wait's poll loop that finds something.
WaitFinds(l) ==
    /\ loop[l].at = "asked"
    /\ \E i \in Newest(Since(loop[l].since)) :
         loop' = [loop EXCEPT ![l].at = "answered", ![l].got = i]
    /\ UNCHANGED <<tableVars, pageVars, load, deleting, bounds>>

\* A round that finds nothing, with the deadline behind it: 408.
WaitTimesOut(l) ==
    /\ loop[l].at = "asked"
    /\ Since(loop[l].since) = {}
    /\ loop' = [loop EXCEPT ![l].at = "timed out"]
    /\ UNCHANGED <<tableVars, pageVars, load, deleting, bounds>>

\* 500, or no connection.
WaitFails(l) ==
    /\ loop[l].at = "asked"
    /\ Fault
    /\ loop' = [loop EXCEPT ![l].at = "failed"]
    /\ UNCHANGED <<tableVars, pageVars, load, deleting, clicks>>

ListAnswers(p) ==
    /\ load[p].at = "asked"
    /\ \E T \in ListEmails(live, PageSize) :
         load' = [load EXCEPT ![p] = [at |-> "answered", rows |-> T]]
    /\ UNCHANGED <<tableVars, pageVars, loop, deleting, bounds>>

ListFails(p) ==
    /\ load[p].at = "asked"
    /\ Fault
    /\ load' = [load EXCEPT ![p].at = "failed"]
    /\ UNCHANGED <<tableVars, pageVars, loop, deleting, clicks>>

\* 404 if the email is gone.
DeleteAnswers(i) ==
    /\ deleting[i] = "asked"
    /\ live' = live \ {i}
    /\ deleting' = [deleting EXCEPT ![i] = IF i \in live THEN "answered" ELSE "failed"]
    /\ UNCHANGED <<now, created, nextId, pageVars, loop, load, bounds>>

\* 500, or the connection is lost before or after the row is deleted.
DeleteFails(i) ==
    /\ deleting[i] = "asked"
    /\ Fault
    /\ live' \in {live, live \ {i}}
    /\ deleting' = [deleting EXCEPT ![i] = "failed"]
    /\ UNCHANGED <<now, created, nextId, pageVars, loop, load, clicks>>

----------------------------------------------------------------------------
(* The wait loop. *)

\* Mutant: Math.max of no numbers is below every id.
NewestIdUnguarded(list) ==
    IF list = {} THEN -1 ELSE CHOOSE i \in list : \A j \in list : j <= i

\* Mutant: the newest by created_at, the first of the list, has the highest id.
NewestIdFirst(list) ==
    IF list = {} THEN 0 ELSE CHOOSE i \in list : \A j \in list : created[j] <= created[i]

NewestId(list) == IF list = {} THEN 0 ELSE CHOOSE i \in list : \A j \in list : j <= i

Ask(list) == [NoLoop EXCEPT !.at = "asked", !.since = NewestId(list)]

Stopped == [l \in Loops |-> IF l = waitAbort THEN [loop[l] EXCEPT !.aborted = TRUE]
                                             ELSE loop[l]]

\* Mutant: the loop before keeps running.
MaybeStartWaitAlso(checked, list) ==
    IF checked
      THEN \E l \in Loops :
             /\ loop[l].at = "off"
             /\ loop' = [loop EXCEPT ![l] = Ask(list)]
             /\ waitAbort' = l
      ELSE loop' = Stopped /\ waitAbort' = None

\* stopWait, and a new loop if the box is checked.
MaybeStartWait(checked, list) ==
    IF checked
      THEN \E l \in Loops :
             /\ loop[l].at = "off"
             /\ loop' = [Stopped EXCEPT ![l] = Ask(list)]
             /\ waitAbort' = l
      ELSE loop' = Stopped /\ waitAbort' = None

\* A new email is added and the loop asks again; an aborted loop ends.
HearMail(l) ==
    /\ loop[l].at = "answered"
    /\ LET list == IF loop[l].aborted THEN emails ELSE emails \cup {loop[l].got}
       IN  /\ emails' = list
           /\ loop' = [loop EXCEPT ![l] = IF loop[l].aborted THEN NoLoop ELSE Ask(list)]
    /\ UNCHANGED <<tableVars, autoWait, busy, waitAbort, load, deleting, bounds>>

\* Mutant: a timeout is an error like any other.
HearTimeoutEnds(l) ==
    /\ loop[l].at = "timed out"
    /\ loop' = [loop EXCEPT ![l] = NoLoop]
    /\ UNCHANGED <<tableVars, pageVars, load, deleting, bounds>>

HearTimeout(l) ==
    /\ loop[l].at = "timed out"
    /\ loop' = [loop EXCEPT ![l] = IF loop[l].aborted THEN NoLoop ELSE Ask(emails)]
    /\ UNCHANGED <<tableVars, pageVars, load, deleting, bounds>>

\* Any other error ends the loop; the box stays checked.
HearFailure(l) ==
    /\ loop[l].at = "failed"
    /\ loop' = [loop EXCEPT ![l] = NoLoop]
    /\ UNCHANGED <<tableVars, pageVars, load, deleting, bounds>>

----------------------------------------------------------------------------
(* The list. *)

Click ==
    /\ clicks < MaxClicks
    /\ clicks' = clicks + 1

Refresh(p) ==
    /\ Click
    /\ ~busy
    /\ load[p].at = "off"
    /\ busy' = TRUE
    /\ load' = [load EXCEPT ![p] = [NoLoad EXCEPT !.at = "asked"]]
    /\ UNCHANGED <<tableVars, emails, autoWait, waitAbort, loop, deleting, faults>>

LoadInbox(p) ==
    /\ load[p].at = "answered"
    /\ emails' = load[p].rows
    /\ MaybeStartWait(autoWait, load[p].rows)
    /\ busy' = FALSE
    /\ load' = [load EXCEPT ![p] = NoLoad]
    /\ UNCHANGED <<tableVars, autoWait, deleting, bounds>>

LoadInboxFails(p) ==
    /\ load[p].at = "failed"
    /\ busy' = FALSE
    /\ load' = [load EXCEPT ![p] = NoLoad]
    /\ UNCHANGED <<tableVars, emails, autoWait, waitAbort, loop, deleting, bounds>>

\* The delete button of a selected email does not ask whether a list is under way.
AskDelete(i) ==
    /\ Click
    /\ i \in emails
    /\ deleting[i] = "no"
    /\ busy' = TRUE
    /\ deleting' = [deleting EXCEPT ![i] = "asked"]
    /\ UNCHANGED <<tableVars, emails, autoWait, waitAbort, loop, load, faults>>

DeleteEmail(i) ==
    /\ deleting[i] = "answered"
    /\ emails' = emails \ {i}
    /\ MaybeStartWait(autoWait, emails \ {i})
    /\ busy' = FALSE
    /\ deleting' = [deleting EXCEPT ![i] = "no"]
    /\ UNCHANGED <<tableVars, autoWait, load, bounds>>

DeleteEmailFails(i) ==
    /\ deleting[i] = "failed"
    /\ busy' = FALSE
    /\ deleting' = [deleting EXCEPT ![i] = "no"]
    /\ UNCHANGED <<tableVars, emails, autoWait, waitAbort, loop, load, bounds>>

ToggleAutoWait ==
    /\ Click
    /\ autoWait' = ~autoWait
    /\ MaybeStartWait(~autoWait, emails)
    /\ UNCHANGED <<tableVars, emails, busy, load, deleting, faults>>

----------------------------------------------------------------------------
Table == \/ Tick
         \/ \E t \in Time : InsertEmail(t)
         \/ \E i \in Ids : DeleteElsewhere(i)

Wait(l) == \/ WaitFinds(l) \/ WaitTimesOut(l)
           \/ HearMail(l) \/ HearTimeout(l) \/ HearFailure(l)

List(p) == ListAnswers(p) \/ LoadInbox(p) \/ LoadInboxFails(p)

Delete(i) == DeleteAnswers(i) \/ DeleteEmail(i) \/ DeleteEmailFails(i)

Next ==
    \/ Table
    \/ \E l \in Loops : Wait(l) \/ WaitFails(l)
    \/ \E p \in Loads : List(p) \/ ListFails(p) \/ Refresh(p)
    \/ \E i \in Ids : Delete(i) \/ DeleteFails(i) \/ AskDelete(i)
    \/ ToggleAutoWait

Spec == Init /\ [][Next]_vars

(* Requests are answered and the browser runs the callbacks.  Neither mail *)
(* nor clicks are bound to come.                                           *)
Fairness ==
    /\ \A l \in Loops : WF_vars(Wait(l))
    /\ \A p \in Loads : WF_vars(List(p))
    /\ \A i \in Ids : WF_vars(Delete(i))

FairSpec == Spec /\ Fairness
----------------------------------------------------------------------------
(* Type invariant.                                                         *)
TypeOK ==
    /\ now \in Time
    /\ nextId \in 1 .. MaxMail + 1
    /\ live \subseteq 1 .. nextId - 1
    /\ created \in [Ids -> Time]
    /\ emails \subseteq 1 .. nextId - 1
    /\ autoWait \in BOOLEAN
    /\ busy \in BOOLEAN
    /\ waitAbort \in Loops \cup {None}
    /\ loop \in [Loops -> [at : {"off", "asked", "answered", "timed out", "failed"},
                           since : 0 .. nextId - 1, got : 0 .. nextId - 1,
                           aborted : BOOLEAN]]
    /\ load \in [Loads -> [at : {"off", "asked", "answered", "failed"}, rows : SUBSET (1 .. nextId - 1)]]
    /\ deleting \in [Ids -> {"no", "asked", "answered", "failed"}]
    /\ clicks \in 0 .. MaxClicks
    /\ faults \in 0 .. MaxFaults

Running(l) == loop[l].at # "off" /\ ~loop[l].aborted

(* However loads, deletes and the check box follow each other, at most one *)
(* loop runs, it is the one the page can abort, and only while the box is  *)
(* checked.                                                                *)
OneLoop == \A l \in Loops : Running(l) => l = waitAbort /\ autoWait

(* What a running loop hears is not in the list yet: the order of ids and  *)
(* the order of the list differ, answers come late, yet no email is        *)
(* announced that the page shows already.                                  *)
WaitBringsNew ==
    \A l \in Loops : Running(l) /\ loop[l].at = "answered" => loop[l].got \notin emails

(* While the box is checked and no request fails, the list catches up with *)
(* every email that stays: with it, or with one that came after it.        *)
Watching == autoWait /\ faults = 0

CatchesUp ==
    \A i \in Ids :
        i \in live /\ Watching ~> \/ \E j \in emails : j >= i
                                  \/ i \notin live
                                  \/ ~Watching
============================================================================
