------------------------------- MODULE Server -------------------------------
(***************************************************************************)
(* The life of the API process: main boots it, serves, and on SIGTERM      *)
(* cancels the cleaner, drains the requests for 10 s, closes the database  *)
(* and exits (api/cmd/server/main.go).  Beside the requests run the        *)
(* cleaner's goroutine (api/internal/cleaner) and one goroutine per event  *)
(* that is posted to WEBHOOK_URL (api/internal/webhook); main waits for    *)
(* neither.  Docker starts the process again.                              *)
(*                                                                         *)
(* Of the routes there are the two kinds that hand over events: ingest,    *)
(* and get for those that track the first opening.  Time is left out: a    *)
(* request may take longer than a shutdown lasts (wait does), the ticker   *)
(* may be ahead of the cancelled context.                                  *)
(***************************************************************************)
EXTENDS Migration

CONSTANTS
    Handlers,      \* requests in progress at the same time
    VacuumEvery,   \* vacuumEvery: successful rounds between two VACUUMs
    MaxMisses,     \* bound: rounds, and VACUUMs, that fail between two VACUUMs
    MaxStarts      \* bound: times the process is started

ASSUME ServerAssumption ==
    /\ VacuumEvery \in Nat \ {0}
    /\ MaxMisses \in Nat
    /\ MaxStarts \in Nat

\* What is reported: the arrival and the first opening of an email, and the
\* k-th round that deleted something.
Events == [kind : {"received", "opened", "cleaned"}, id : Ids]
Event(k, id) == [kind |-> k, id |-> id]

VARIABLES
    req,           \* per handler, the request it serves
    opened,        \* emails marked with opened_at, deleted ones too
    cpc,           \* the cleaner: what it does next
    runCount,      \* modulo vacuumEvery
    posts,         \* events that goroutines are posting
    purges,        \* rounds that deleted something
    seen,          \* history: per event, how often the receiver got it
    dropped,       \* history: events given up, or lost with the process
    hours,         \* history: rounds since the last VACUUM, or the boot,
    misses,        \* those of them whose DELETE failed,
    failed,        \* and the VACUUMs among them that failed
    starts

paceVars  == <<hours, misses, failed>>
cleanVars == <<cpc, runCount, paceVars>>
eventVars == <<posts, purges, seen, dropped>>
vars == <<phase, tableVars, req, opened, cleanVars, eventVars, starts>>

NoReq == [at |-> "idle", id |-> 1]

Init ==
    /\ MigrationInit
    /\ req = [h \in Handlers |-> NoReq]
    /\ opened = {}
    /\ cpc = "off"
    /\ runCount = 0
    /\ posts = {}
    /\ purges = 0
    /\ seen = [e \in Events |-> 0]
    /\ dropped = {}
    /\ hours = 0
    /\ misses = 0
    /\ failed = 0
    /\ starts = 0

At(h, s) == req[h].at = s
Goto(h, s) == req' = [req EXCEPT ![h].at = s]
Busy == {h \in Handlers : ~At(h, "idle")}

\* The database answers until main closes it.
DBOpen == phase \in {"up", "draining"}

----------------------------------------------------------------------------
(* Requests.  They are accepted until the listener is closed. *)

Begin(h, s, id) ==
    /\ phase = "up"
    /\ At(h, "idle")
    /\ req' = [req EXCEPT ![h] = [at |-> s, id |-> id]]
    /\ UNCHANGED <<phase, tableVars, opened, cleanVars, eventVars, starts>>

StartIngest(h) == nextId \in Ids /\ Begin(h, "insert", 1)
StartGet(h)    == \E id \in Live : Begin(h, "track", id)

InsertEmail(h) ==
    /\ At(h, "insert")
    /\ DBOpen
    /\ nextId \in Ids
    /\ otk' = [id \in Live \cup {nextId} |->
                 IF id = nextId THEN [preview |-> nextTok, keep |-> nextTok + 1]
                                ELSE otk[id]]
    /\ sent' = [sent EXCEPT ![nextId] = nextTok + 1]
    /\ nextId' = nextId + 1
    /\ nextTok' = nextTok + 2
    /\ req' = [req EXCEPT ![h] = [at |-> "notify", id |-> nextId]]
    /\ UNCHANGED <<phase, cols, opened, cleanVars, eventVars, starts>>

\* go c.post: the caller does not wait.
Hand(e) == posts' = posts \cup {e}

EmailReceived(h) ==
    /\ At(h, "notify")
    /\ Hand(Event("received", req[h].id))
    /\ Goto(h, "idle")
    /\ UNCHANGED <<phase, tableVars, opened, cleanVars, purges, seen, dropped,
                   starts>>

\* Mutant: the event is built before the statement that marks the email.
TrackEmailOpenLate(h) ==
    /\ At(h, "track")
    /\ DBOpen
    /\ LET id == req[h].id IN
         \/ /\ id \in Live \ opened
            /\ Goto(h, "hook")
         \/ /\ id \notin Live \ opened
            /\ Goto(h, "idle")
    /\ UNCHANGED <<opened, phase, tableVars, cleanVars, eventVars, starts>>

TrackEmailOpen(h) ==
    /\ At(h, "track")
    /\ DBOpen
    /\ LET id == req[h].id IN
         \/ /\ id \in Live \ opened
            /\ opened' = opened \cup {id}
            /\ Goto(h, "hook")
         \/ /\ id \notin Live \ opened
            /\ Goto(h, "idle")
            /\ UNCHANGED opened
    /\ UNCHANGED <<phase, tableVars, cleanVars, eventVars, starts>>

\* trackFirstOpen reads the email for the event; if it cannot, there is none.
EmailOpened(h) ==
    /\ At(h, "hook")
    /\ \/ /\ DBOpen
          /\ req[h].id \in Live
          /\ Hand(Event("opened", req[h].id))
          /\ UNCHANGED dropped
       \/ /\ dropped' = dropped \cup {Event("opened", req[h].id)}
          /\ UNCHANGED posts
    /\ Goto(h, "idle")
    /\ UNCHANGED <<phase, tableVars, opened, cleanVars, purges, seen, starts>>

\* Mutant: ingest reports the arrival although the INSERT failed.
StatementErrorIgnored(h) ==
    /\ req[h].at \in {"insert", "track"}
    /\ Goto(h, IF At(h, "insert") THEN "notify" ELSE "idle")
    /\ UNCHANGED <<phase, tableVars, opened, cleanVars, eventVars, starts>>

\* The request's time is up, SQLite reports an error, or main has closed the
\* database: 500.
StatementFails(h) ==
    /\ req[h].at \in {"insert", "track"}
    /\ Goto(h, "idle")
    /\ UNCHANGED <<phase, tableVars, opened, cleanVars, eventVars, starts>>

----------------------------------------------------------------------------
(* The cleaner.  Its statements do not know the context main cancels. *)

Stage(s, t) ==
    /\ cpc = s
    /\ cpc' = t

\* Mutant: only rounds that deleted something are counted.
CountRunIfPurged ==
    LET n == IF cpc = "report" THEN (runCount + 1) % VacuumEvery ELSE runCount IN
      /\ runCount' = n
      /\ cpc' = IF cpc = "report" /\ n = 0 THEN "vacuum" ELSE "select"

\* runCount++, and VACUUM after every vacuumEvery-th round.
CountRun ==
    /\ runCount' = (runCount + 1) % VacuumEvery
    /\ cpc' = IF runCount' = 0 THEN "vacuum" ELSE "select"

\* Which emails have expired is the business of EmailAPI.
DeleteExpired ==
    /\ cpc = "delete"
    /\ DBOpen
    /\ \/ /\ CountRun
          /\ UNCHANGED <<otk, purges>>
       \/ \E S \in (SUBSET Live) \ {{}} :
            /\ otk' = [id \in Live \ S |-> otk[id]]
            /\ purges' = purges + 1
            /\ cpc' = "report"
            /\ UNCHANGED runCount
    /\ UNCHANGED <<phase, cols, nextId, nextTok, sent, req, opened, paceVars,
                   posts, seen, dropped, starts>>

\* A round that fails is not counted.
DeleteFails ==
    /\ cpc = "delete"
    /\ cpc' = "select"
    /\ misses + failed < MaxMisses
    /\ misses' = misses + 1
    /\ UNCHANGED <<phase, tableVars, req, opened, runCount, hours, failed,
                   eventVars, starts>>

EmailsCleaned ==
    /\ cpc = "report"
    /\ Hand(Event("cleaned", purges))
    /\ CountRun
    /\ UNCHANGED <<phase, tableVars, req, opened, paceVars, purges, seen,
                   dropped, starts>>

Vacuum ==
    /\ Stage("vacuum", "select")
    /\ DBOpen
    /\ hours' = 0
    /\ misses' = 0
    /\ failed' = 0
    /\ UNCHANGED <<phase, tableVars, req, opened, runCount, eventVars, starts>>

\* A VACUUM that fails is only logged; runCount goes on as after one that works.
VacuumFails ==
    /\ Stage("vacuum", "select")
    /\ misses + failed < MaxMisses
    /\ failed' = failed + 1
    /\ UNCHANGED <<phase, tableVars, req, opened, runCount, hours, misses,
                   eventVars, starts>>

\* The ticker fires.  When the context is cancelled too, select takes either.
Tick ==
    /\ cpc = "select"
    /\ cpc' = "delete"
    /\ hours' = hours + 1
    /\ UNCHANGED <<phase, tableVars, req, opened, runCount, misses, failed,
                   eventVars, starts>>

CleanerStops ==
    /\ cpc = "select"
    /\ phase # "up"
    /\ cpc' = "off"
    /\ UNCHANGED <<phase, tableVars, req, opened, runCount, paceVars,
                   eventVars, starts>>

----------------------------------------------------------------------------
(* The goroutines that post events. *)

\* The receiver gets it; the goroutine ends, whatever the status.
Deliver(e) ==
    /\ e \in posts
    /\ posts' = posts \ {e}
    /\ seen' = [seen EXCEPT ![e] = @ + 1]
    /\ UNCHANGED <<phase, tableVars, req, opened, cleanVars, purges, dropped,
                   starts>>

\* No connection, or no answer in 10 s: logged, and the end of it.
PostFails(e) ==
    /\ e \in posts
    /\ posts' = posts \ {e}
    /\ dropped' = dropped \cup {e}
    /\ UNCHANGED <<phase, tableVars, req, opened, cleanVars, purges, seen, starts>>

----------------------------------------------------------------------------
(* main. *)

\* Events whose cause is committed and that are not handed over yet.
Due == {Event("received", req[h].id) : h \in {g \in Handlers : At(g, "notify")}}
       \cup {Event("opened", req[h].id) : h \in {g \in Handlers : At(g, "hook")}}
       \cup (IF cpc = "report" THEN {Event("cleaned", purges)} ELSE {})

\* Goroutines end with the process, wherever they are.
ProcessEnds ==
    /\ phase' = "down"
    /\ req' = [h \in Handlers |-> NoReq]
    /\ cpc' = "off"
    /\ runCount' = 0
    /\ hours' = 0
    /\ misses' = 0
    /\ failed' = 0
    /\ posts' = {}
    /\ dropped' = dropped \cup Due \cup posts
    /\ UNCHANGED <<tableVars, opened, purges, seen>>

Start ==
    /\ Phase("down", "tables")
    /\ starts < MaxStarts
    /\ starts' = starts + 1
    /\ UNCHANGED <<tableVars, req, opened, cleanVars, eventVars>>

Booting ==
    /\ Migrate
    /\ UNCHANGED <<req, opened, cleanVars, eventVars, starts>>

\* The cleaner's first round begins at once.
Serve ==
    /\ Opens
    /\ cpc' = "delete"
    /\ hours' = 1
    /\ UNCHANGED <<req, opened, runCount, misses, failed, eventVars, starts>>

\* cancel, and Shutdown closes the listener.
SigTerm ==
    /\ Phase("up", "draining")
    /\ UNCHANGED <<tableVars, req, opened, cleanVars, eventVars, starts>>

\* Every request is answered; db.Close is the last of the deferred calls.
ShutdownReturns ==
    /\ Phase("draining", "closed")
    /\ Busy = {}
    /\ UNCHANGED <<tableVars, req, opened, cleanVars, eventVars, starts>>

\* Mutant: Shutdown gets the background context.
ShutdownNeverTimesOut == FALSE /\ UNCHANGED vars

ShutdownTimesOut ==
    /\ Phase("draining", "closed")
    /\ Busy # {}
    /\ UNCHANGED <<tableVars, req, opened, cleanVars, eventVars, starts>>

Exit ==
    /\ phase = "closed"
    /\ ProcessEnds
    /\ UNCHANGED starts

\* SIGKILL, a crash, or os.Exit after an error.
Kill ==
    /\ phase # "down"
    /\ ProcessEnds
    /\ UNCHANGED starts

----------------------------------------------------------------------------
Handle(h) == InsertEmail(h) \/ EmailReceived(h) \/ TrackEmailOpen(h)
             \/ EmailOpened(h) \/ StatementFails(h)

Clean == DeleteExpired \/ DeleteFails \/ EmailsCleaned
         \/ Vacuum \/ VacuumFails \/ Tick \/ CleanerStops

Post(e) == Deliver(e) \/ PostFails(e)

Main == Start \/ Booting \/ Serve \/ ShutdownReturns \/ ShutdownTimesOut \/ Exit

Next ==
    \/ \E h \in Handlers : StartIngest(h) \/ StartGet(h) \/ Handle(h)
    \/ Clean
    \/ \E e \in Events : Post(e)
    \/ Main \/ SigTerm \/ Kill

Spec == Init /\ [][Next]_vars

(* The steps of main end, the drain after 10 s; Docker starts the process  *)
(* again.  No request need ever be answered.                               *)
FairSpec == Spec /\ WF_vars(Main)
----------------------------------------------------------------------------
(* Type invariant; while the process is down nothing of it is left, and it *)
(* serves only with a table that has every column.                         *)
TypeOK ==
    /\ MigrationTypeOK
    /\ req \in [Handlers -> [at : {"idle", "insert", "notify", "track", "hook"}, id : Ids]]
    /\ opened \subseteq Ids
    /\ cpc \in {"off", "delete", "report", "vacuum", "select"}
    /\ runCount \in 0 .. VacuumEvery - 1 /\ hours \in Nat
    /\ misses \in 0 .. MaxMisses /\ failed \in 0 .. MaxMisses
    /\ posts \subseteq Events
    /\ purges \in 0 .. MaxMail
    /\ seen \in [Events -> Nat]
    /\ dropped \subseteq Events
    /\ starts \in 0 .. MaxStarts
    /\ phase = "down" => Busy = {} /\ cpc = "off" /\ posts = {}
    /\ DBOpen => cols = Columns

\* What happened and is worth an event.
Happened ==
    {Event("received", id) : id \in OldMail + 1 .. nextId - 1}
    \cup {Event("opened", id) : id \in opened}
    \cup {Event("cleaned", k) : k \in 1 .. purges}

(* No event is lost without a trace: whatever was committed is about to be *)
(* handed over, under way, with the receiver, or dropped by a failed post  *)
(* or with the process.  And nothing is reported that did not happen.    *)
NoEventForgotten ==
    Happened = Due \cup posts \cup dropped \cup {e \in Events : seen[e] > 0}

(* The receiver gets an event once at most, over all restarts: no post is  *)
(* repeated, and what is handed over again after a restart is another one. *)
SeenOnce == \A e \in Events : seen[e] <= 1

(* docs/deployment.md:67: VACUUM runs approximately daily.  A process that *)
(* lives long enough has one done every 24 hours, an hour later for every  *)
(* round that failed, and 24 hours later for every VACUUM that failed: the *)
(* next attempt comes after as many rounds as after one that worked.       *)
VacuumKeepsUp == hours <= VacuumEvery * (failed + 1) + misses

(* A shutdown ends, although requests such as wait may take longer.        *)
ShutdownEnds == phase = "draining" ~> phase = "down"
============================================================================
