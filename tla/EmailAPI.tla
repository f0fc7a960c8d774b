----------------------------- MODULE EmailAPI -----------------------------
(***************************************************************************)
(* The HTTP handlers of api/internal/router and api/internal/mail and the  *)
(* retention cleaner, running against one emails table.                    *)
(*                                                                         *)
(* A handler is a goroutine whose steps are its database statements: every *)
(* statement releases the connection, so other handlers and the cleaner    *)
(* run between two of them.  pc[r] names the statement request r runs      *)
(* next; "idle" is a free slot that still holds the last answer.  Requests *)
(* that are refused before they touch the database (a bad id, a missing    *)
(* header, no API key) change nothing and are left out.                    *)
(*                                                                         *)
(* A statement can fail at any time (the request's 30 s context expires,   *)
(* the client goes away, SQLite reports an error): action Fault.           *)
(***************************************************************************)
EXTENDS EmailStore

CONSTANTS
    Reqs,        \* request slots: the requests in flight at the same time
    Ops,         \* who takes part: the routes clients use, the cleaner
    Mails,       \* the messages that arrive: TRUE for one with attachments
    Retention    \* how long an email that is not kept stays

AllOps == {"ingest", "preview", "get", "raw", "head", "keep", "unkeep",
           "token", "delete", "deleteMany"}

ASSUME APIAssumption ==
    /\ Ops \subseteq AllOps \cup {"clean"}
    /\ Mails \subseteq BOOLEAN
    /\ Retention \in Nat

Statements == {"insert", "consume", "track", "trackSel", "openHook", "row",
               "attach", "exists", "checkKeep", "keep", "keepSel", "unkeep",
               "unkeepSel", "regen", "links", "delete", "deleteMany"}
Labels == Statements \cup {"notify", "idle"}

ApiKey == 0      \* the credential of a request that carries the API key
Creds  == Toks \cup {ApiKey}

Call == [op        : AllOps \cup {"none"},
         id        : Ids,
         cred      : Creds,       \* the API key, or the link's otk
         at        : Time,        \* the clock as the handler last read it
         existed   : BOOLEAN,     \* the email was there when the request came
         contested : BOOLEAN,     \* a keep and an unkeep of it overlapped
         fault     : BOOLEAN]     \* one of its statements failed

Codes == {0, 200, 201, 401, 404, 500}
Reply == [code   : Codes,
          kept   : BOOLEAN,       \* the body's kept
          atts   : BOOLEAN,       \* the body lists attachments
          keep   : Toks \cup {Null}]   \* the keep link's token

VARIABLES
    pc, call, reply,   \* per request
    cpc, cutoff,       \* the cleaner
    mails, regens,     \* bounds: ingest and preview-token requests so far
    events,            \* per id, how many webhook events were handed over
    served,            \* history: per token, previews served on its strength
    promised,          \* history: emails a client was told are kept
    purged             \* history: emails the cleaner deleted

reqVars   == <<pc, call, reply>>
cleanVars == <<cpc, cutoff>>
bounds    == <<mails, regens>>
history   == <<served, promised, purged>>
vars == <<storeVars, reqVars, cleanVars, bounds, events, history>>

NoCall  == [op |-> "none", id |-> 1, cred |-> ApiKey, at |-> 0,
            existed |-> FALSE, contested |-> FALSE, fault |-> FALSE]
NoReply == [code |-> 0, kept |-> FALSE, atts |-> FALSE, keep |-> Null]

Init ==
    /\ StoreInit
    /\ pc = [r \in Reqs |-> "idle"]
    /\ call = [r \in Reqs |-> NoCall]
    /\ reply = [r \in Reqs |-> NoReply]
    /\ cpc = "idle"
    /\ cutoff = 0
    /\ mails = 0
    /\ regens = 0
    /\ events = [id \in Ids |-> [received |-> 0, opened |-> 0]]
    /\ served = [t \in Toks |-> 0]
    /\ promised = {}
    /\ purged = {}

----------------------------------------------------------------------------
(* Control flow inside a handler. *)

At(r, s)   == pc[r] = s
Email(r)   == call[r].id
ByLink(r)  == call[r].cred # ApiKey
Goto(r, s) == pc' = [pc EXCEPT ![r] = s]

\* The handler moves on to statement s, nothing else of the request changes.
Continue(r, s) ==
    /\ Goto(r, s)
    /\ UNCHANGED <<call, reply>>

\* The handler writes its status code and returns.
Answer(r, code) ==
    /\ Goto(r, "idle")
    /\ reply' = [reply EXCEPT ![r].code = code]
    /\ UNCHANGED call

Aside == UNCHANGED <<cleanVars, bounds, events, history>>

\* Keep and unkeep requests on one email, of which one must lose.
Opposite(op) == CASE op = "keep"   -> {"unkeep"}
                  [] op = "unkeep" -> {"keep"}
                  [] OTHER         -> {}
Rivals(r, op, id) == {s \in Reqs \ {r} : /\ pc[s] # "idle"
                                         /\ call[s].op \in Opposite(op)
                                         /\ call[s].id = id}

\* A request arrives; s is the first statement its handler runs.
Begin(r, op, id, cred, s) ==
    /\ op \in Ops
    /\ At(r, "idle")
    /\ Goto(r, s)
    /\ call' = [q \in Reqs |->
                  IF q = r
                    THEN [op |-> op, id |-> id, cred |-> cred, at |-> now,
                          existed |-> id \in Live,
                          contested |-> Rivals(r, op, id) # {},
                          fault |-> FALSE]
                  ELSE IF q \in Rivals(r, op, id)
                    THEN [call[q] EXCEPT !.contested = TRUE]
                  ELSE call[q]]
    /\ reply' = [reply EXCEPT ![r] = NoReply]
    /\ UNCHANGED <<storeVars, cleanVars, events, served, purged>>

BeginPlain(r, op, id, cred, s) ==
    /\ Begin(r, op, id, cred, s)
    /\ UNCHANGED <<bounds, promised>>

(* The routes.  A link request may carry any token drawn so far, spent, *)
(* foreign or current.                                                  *)

StartIngest(r) ==
    /\ mails < MaxMail
    /\ mails' = mails + 1
    /\ Begin(r, "ingest", 1, ApiKey, "insert")
    /\ UNCHANGED <<regens, promised>>

StartPreview(r) ==
    \E id \in Ids, cred \in Creds :
        /\ cred < nextTok
        /\ BeginPlain(r, "preview", id, cred,
                      IF cred = ApiKey THEN "track" ELSE "consume")

StartGet(r) ==
    \E id \in Ids, trackOpen \in BOOLEAN :
        BeginPlain(r, "get", id, ApiKey, IF trackOpen THEN "track" ELSE "row")

StartRaw(r) ==
    \E id \in Ids, trackOpen \in BOOLEAN :
        BeginPlain(r, "raw", id, ApiKey, IF trackOpen THEN "track" ELSE "row")

StartHead(r) ==
    \E id \in Ids : BeginPlain(r, "head", id, ApiKey, "exists")

StartKeep(r) ==
    \E id \in Ids, cred \in Creds :
        /\ cred < nextTok
        /\ BeginPlain(r, "keep", id, cred,
                      IF cred = ApiKey THEN "keep" ELSE "checkKeep")

StartUnkeep(r) ==
    \E id \in Ids :
        /\ Begin(r, "unkeep", id, ApiKey, "unkeep")
        /\ promised' = promised \ {id}
        /\ UNCHANGED bounds

StartPreviewToken(r) ==
    \E id \in Ids :
        /\ regens < MaxRegen
        /\ regens' = regens + 1
        /\ Begin(r, "token", id, ApiKey, "regen")
        /\ UNCHANGED <<mails, promised>>

StartDelete(r) ==
    \E id \in Ids : BeginPlain(r, "delete", id, ApiKey, "delete")

StartDeleteMany(r) ==
    BeginPlain(r, "deleteMany", 1, ApiKey, "deleteMany")

Start(r) ==
    \/ StartIngest(r) \/ StartPreview(r) \/ StartGet(r) \/ StartRaw(r)
    \/ StartHead(r) \/ StartKeep(r) \/ StartUnkeep(r) \/ StartPreviewToken(r)
    \/ StartDelete(r) \/ StartDeleteMany(r)
----------------------------------------------------------------------------
(* ingest: the row is committed before the webhook and the 201. *)

Insert(r) ==
    /\ At(r, "insert")
    /\ \E withAtts \in Mails : InsertRow(call[r].at, withAtts)
    /\ call' = [call EXCEPT ![r].id = nextId]
    /\ Goto(r, "notify")
    /\ UNCHANGED reply
    /\ Aside

EmailReceived(r) ==
    /\ At(r, "notify")
    /\ events' = [events EXCEPT ![Email(r)].received = @ + 1]
    /\ Answer(r, 201)
    /\ UNCHANGED <<storeVars, cleanVars, bounds, history>>
----------------------------------------------------------------------------
(* authorizeEmailLink: a preview link is used up by the statement that *)
(* checks it, a keep link is only looked up.                           *)

\* Mutant: the statement asks for an email that nobody has opened.
ConsumePreviewOTKUnopened(r) ==
    /\ At(r, "consume")
    /\ LET taken == HoldsPreview(Email(r), call[r].cred) /\ Unopened(Email(r)) IN
         \/ /\ taken
            /\ ClearPreview(Email(r))
            /\ call' = [call EXCEPT ![r].at = now]
            /\ Goto(r, "track")
            /\ UNCHANGED reply
         \/ /\ ~taken
            /\ Answer(r, 401)
            /\ UNCHANGED storeVars
    /\ Aside

ConsumePreviewOTK(r) ==
    /\ At(r, "consume")
    /\ \/ /\ HoldsPreview(Email(r), call[r].cred)
          /\ ClearPreview(Email(r))
          /\ call' = [call EXCEPT ![r].at = now]
          /\ Goto(r, "track")
          /\ UNCHANGED reply
       \/ /\ ~HoldsPreview(Email(r), call[r].cred)
          /\ Answer(r, 401)
          /\ UNCHANGED storeVars
    /\ Aside

\* Mutant: the keep link is looked up in the preview column.
ValidKeepOTKByPreview(r) ==
    /\ At(r, "checkKeep")
    /\ IF HoldsPreview(Email(r), call[r].cred) THEN Continue(r, "keep")
                                               ELSE Answer(r, 401)
    /\ UNCHANGED storeVars
    /\ Aside

ValidKeepOTK(r) ==
    /\ At(r, "checkKeep")
    /\ IF HoldsKeep(Email(r), call[r].cred) THEN Continue(r, "keep")
                                            ELSE Answer(r, 401)
    /\ UNCHANGED storeVars
    /\ Aside

(* TrackEmailOpen: an UPDATE, and a SELECT when it changed no row. *)

\* Mutant: the UPDATE forgets "AND opened_at IS NULL".
TrackEmailOpenAgain(r) ==
    /\ At(r, "track")
    /\ \/ /\ Email(r) \in Live
          /\ SetOpened(Email(r), call[r].at)
          /\ Continue(r, "openHook")
       \/ /\ Email(r) \notin Live
          /\ Continue(r, "trackSel")
          /\ UNCHANGED storeVars
    /\ Aside

TrackEmailOpen(r) ==
    /\ At(r, "track")
    /\ \/ /\ Unopened(Email(r))
          /\ SetOpened(Email(r), call[r].at)
          /\ Continue(r, "openHook")
       \/ /\ ~Unopened(Email(r))
          /\ Continue(r, "trackSel")
          /\ UNCHANGED storeVars
    /\ Aside

\* Mutants: an open that is not the first is taken for a missing email, is
\* reported again, or is tried again until the UPDATE changes a row.
TrackSelectMissing(r) ==
    /\ At(r, "trackSel")
    /\ Answer(r, 404)
    /\ UNCHANGED storeVars
    /\ Aside
TrackSelectReports(r) ==
    /\ At(r, "trackSel")
    /\ IF Email(r) \in Live THEN Continue(r, "openHook") ELSE Answer(r, 404)
    /\ UNCHANGED storeVars
    /\ Aside
TrackSelectRetries(r) ==
    /\ At(r, "trackSel")
    /\ Continue(r, IF Email(r) \in Live /\ ~Unopened(Email(r)) THEN "row"
                                                               ELSE "track")
    /\ UNCHANGED storeVars
    /\ Aside

TrackEmailOpenSelect(r) ==
    /\ At(r, "trackSel")
    /\ IF Email(r) \in Live /\ ~Unopened(Email(r)) THEN Continue(r, "row")
                                                   ELSE Answer(r, 404)
    /\ UNCHANGED storeVars
    /\ Aside

\* trackFirstOpen reads the email again for the event and drops the event,
\* without telling the client, when the read fails.
EmailOpened(r) ==
    /\ At(r, "openHook")
    /\ \/ /\ Email(r) \in Live /\ ~Unopened(Email(r))
          /\ events' = [events EXCEPT ![Email(r)].opened = @ + 1]
       \/ /\ Email(r) \notin Live \/ Unopened(Email(r))
          /\ UNCHANGED events
    /\ Continue(r, "row")
    /\ UNCHANGED <<storeVars, cleanVars, bounds, history>>

(* GetEmail: the row, then the attachments.  keep and unkeep answer 500 *)
(* when the row is gone, the others 404.                                *)

\* Mutant: sql.ErrNoRows is not told apart from a failure.
GetEmailRowError(r) ==
    /\ At(r, "row")
    /\ \/ /\ Email(r) \in Live
          /\ Goto(r, "attach")
          /\ reply' = [reply EXCEPT ![r].kept = IsKept(Email(r))]
          /\ UNCHANGED call
       \/ /\ Email(r) \notin Live
          /\ Answer(r, 500)
    /\ UNCHANGED storeVars
    /\ Aside

GetEmailRow(r) ==
    /\ At(r, "row")
    /\ \/ /\ Email(r) \in Live
          /\ Goto(r, "attach")
          /\ reply' = [reply EXCEPT ![r].kept = IsKept(Email(r))]
          /\ UNCHANGED call
       \/ /\ Email(r) \notin Live
          /\ Answer(r, IF call[r].op \in {"keep", "unkeep"} THEN 500 ELSE 404)
    /\ UNCHANGED storeVars
    /\ Aside

AttachmentsFor(r) ==
    /\ At(r, "attach")
    /\ Goto(r, "idle")
    /\ reply' = [reply EXCEPT
                   ![r].code = 200,
                   ![r].atts = Email(r) \in Live /\ emails[Email(r)].atts]
    /\ served' = IF call[r].op = "preview" /\ ByLink(r)
                   THEN [served EXCEPT ![call[r].cred] = @ + 1]
                   ELSE served
    /\ promised' = IF call[r].op = "keep" /\ ~call[r].contested
                     THEN promised \cup {Email(r)}
                     ELSE promised
    /\ UNCHANGED <<storeVars, call, cleanVars, bounds, events, purged>>

EmailExists(r) ==
    /\ At(r, "exists")
    /\ Answer(r, IF Email(r) \in Live THEN 200 ELSE 404)
    /\ UNCHANGED storeVars
    /\ Aside

(* KeepEmail and UnkeepEmail: a conditional UPDATE, and a SELECT when it *)
(* changed no row; the SELECT takes the flag's other value for a missing *)
(* email.                                                                *)

KeepEmail(r) ==
    /\ At(r, "keep")
    /\ \/ /\ IsUnkept(Email(r))
          /\ SetKept(Email(r), TRUE)
          /\ Continue(r, "row")
       \/ /\ ~IsUnkept(Email(r))
          /\ Continue(r, "keepSel")
          /\ UNCHANGED storeVars
    /\ Aside

KeepEmailSelect(r) ==
    /\ At(r, "keepSel")
    /\ IF IsKept(Email(r)) THEN Continue(r, "row") ELSE Answer(r, 404)
    /\ UNCHANGED storeVars
    /\ Aside

UnkeepEmail(r) ==
    /\ At(r, "unkeep")
    /\ \/ /\ IsKept(Email(r))
          /\ SetKept(Email(r), FALSE)
          /\ Continue(r, "row")
       \/ /\ ~IsKept(Email(r))
          /\ Continue(r, "unkeepSel")
          /\ UNCHANGED storeVars
    /\ Aside

UnkeepEmailSelect(r) ==
    /\ At(r, "unkeepSel")
    /\ IF IsUnkept(Email(r)) THEN Continue(r, "row") ELSE Answer(r, 404)
    /\ UNCHANGED storeVars
    /\ Aside

(* previewToken: a new preview token, then the tokens of the links. *)

RegeneratePreviewOTK(r) ==
    /\ At(r, "regen")
    /\ SetPreview(Email(r))
    /\ IF Email(r) \in Live THEN Continue(r, "links") ELSE Answer(r, 404)
    /\ Aside

GetLinkOTKs(r) ==
    /\ At(r, "links")
    /\ Goto(r, "idle")
    /\ reply' = IF Email(r) \in Live
                  THEN [reply EXCEPT ![r].code = 200,
                                     ![r].keep = emails[Email(r)].keep]
                  ELSE [reply EXCEPT ![r].code = 500]
    /\ UNCHANGED <<call, storeVars>>
    /\ Aside

DeleteEmail(r) ==
    /\ At(r, "delete")
    /\ Answer(r, IF Email(r) \in Live THEN 200 ELSE 404)
    /\ DeleteRows({Email(r)})
    /\ Aside

\* The filters of the query string can select any of the emails.
DeleteEmails(r) ==
    /\ At(r, "deleteMany")
    /\ Answer(r, 200)
    /\ \E S \in SUBSET Live : DeleteRows(S)
    /\ Aside

\* The statement fails.  Only the read behind the opened event is optional.
Fault(r) ==
    /\ pc[r] \in Statements
    /\ call' = [call EXCEPT ![r].fault = TRUE]
    /\ IF At(r, "openHook")
         THEN Goto(r, "row") /\ UNCHANGED reply
         ELSE Goto(r, "idle") /\ reply' = [reply EXCEPT ![r].code = 500]
    /\ UNCHANGED storeVars
    /\ Aside

\* What the handler of request r does on its own: its next statement.
Step(r) ==
    \/ Insert(r) \/ EmailReceived(r)
    \/ ConsumePreviewOTK(r) \/ ValidKeepOTK(r)
    \/ TrackEmailOpen(r) \/ TrackEmailOpenSelect(r) \/ EmailOpened(r)
    \/ GetEmailRow(r) \/ AttachmentsFor(r) \/ EmailExists(r)
    \/ KeepEmail(r) \/ KeepEmailSelect(r)
    \/ UnkeepEmail(r) \/ UnkeepEmailSelect(r)
    \/ RegeneratePreviewOTK(r) \/ GetLinkOTKs(r)
    \/ DeleteEmail(r) \/ DeleteEmails(r)
----------------------------------------------------------------------------
(* The cleaner computes the cutoff, waits for the connection, deletes. *)

\* Mutant: the cutoff of the first round is used for ever.
CleanStartStale ==
    /\ "clean" \in Ops
    /\ cpc = "idle"
    /\ cpc' = "delete"
    /\ UNCHANGED <<storeVars, reqVars, cutoff, bounds, events, history>>

CleanStart ==
    /\ "clean" \in Ops
    /\ cpc = "idle"
    /\ cpc' = "delete"
    /\ cutoff' = now - Retention
    /\ UNCHANGED <<storeVars, reqVars, bounds, events, history>>

DeleteExpired ==
    /\ cpc = "delete"
    /\ cpc' = "idle"
    /\ DeleteRows(Expired(cutoff))
    /\ purged' = purged \cup Expired(cutoff)
    /\ UNCHANGED <<reqVars, cutoff, bounds, events, served, promised>>

CleanFail ==
    /\ cpc = "delete"
    /\ cpc' = "idle"
    /\ UNCHANGED <<storeVars, reqVars, cutoff, bounds, events, history>>

TimePasses == Tick /\ UNCHANGED <<reqVars, cleanVars, bounds, events, history>>

Next ==
    \/ \E r \in Reqs : Start(r) \/ Step(r) \/ Fault(r)
    \/ CleanStart \/ DeleteExpired \/ CleanFail
    \/ TimePasses

Spec == Init /\ [][Next]_vars

(* Go runs every goroutine and every handler step ends; the cleaner's *)
(* ticker fires again and again, and its DELETE does not fail for ever.  *)
Fairness ==
    /\ \A r \in Reqs : WF_vars(Step(r))
    /\ WF_vars(CleanStart)
    /\ SF_vars(DeleteExpired)

FairSpec == Spec /\ Fairness
----------------------------------------------------------------------------
(* Type invariant: every variable of the handlers, the cleaner and the    *)
(* table stays in its set.                                                *)
TypeOK ==
    /\ StoreTypeOK
    /\ pc \in [Reqs -> Labels]
    /\ call \in [Reqs -> Call]
    /\ reply \in [Reqs -> Reply]
    /\ cpc \in {"idle", "delete"}
    /\ cutoff \in Int
    /\ mails \in 0 .. MaxMail
    /\ regens \in 0 .. MaxRegen
    /\ events \in [Ids -> [received : Nat, opened : Nat]]
    /\ served \in [Toks -> Nat]
    /\ promised \subseteq Ids
    /\ purged \subseteq Ids

\* Request r passed authorizeEmailLink with a preview link and has not answered.
Entitled(r) ==
    /\ call[r].op = "preview"
    /\ ByLink(r)
    /\ pc[r] \in {"track", "trackSel", "openHook", "row", "attach"}

\* Tokens that can still lead to a view: those in the table and those that
\* requests in flight have just taken out of it.
TableTokens == {emails[id].preview : id \in Live} \ {Null}

(* Each drawn preview token is in one place only: one row, or one request *)
(* in flight that took it from there, or spent.  ConsumePreviewOTK,       *)
(* RegeneratePreviewOTK and InsertEmail move tokens; none may duplicate   *)
(* or revive one.                                                         *)
TokenInOnePlace ==
    /\ \A id \in Live : emails[id].preview < nextTok
    /\ \A i, j \in Live : i # j /\ emails[i].preview # Null
                            => emails[i].preview # emails[j].preview
    /\ \A r \in Reqs : Entitled(r) => /\ call[r].cred < nextTok
                                      /\ call[r].cred \notin TableTokens
                                      /\ served[call[r].cred] = 0
    /\ \A r, s \in Reqs : r # s /\ Entitled(r) /\ Entitled(s)
                            => call[r].cred # call[s].cred
    /\ \A t \in Toks : t \in TableTokens \/ t >= nextTok => served[t] = 0

(* A preview link shows the email once, however many requests race with   *)
(* the same link, with preview-token and with each other                  *)
(* (docs/configuration.md: links are consumed on first view).             *)
OneViewPerToken == \A t \in Toks : served[t] <= 1

\* Where a preview token is in its life.  The tokens of keep links are void.
Stage(t) == CASE t >= nextTok        -> "unborn"
              [] t \in TableTokens   -> "good"
              [] served[t] > 0       -> "shown"
              [] \E r \in Reqs : Entitled(r) /\ call[r].cred = t -> "taken"
              [] OTHER               -> "void"

stage == [t \in Toks |-> Stage(t)]

Links == INSTANCE OneTimeLinks WITH stage <- stage

(* Every statement of every handler moves preview tokens along their one  *)
(* way: none is good again once a request took it (OneTimeLinks).          *)
PreviewsOneTime == Links!Spec

(* A link refused with 401 is dead: its token is not the one the row      *)
(* holds, neither when the answer is written nor at any time later.  For  *)
(* keep links this says that using one never uses it up.                  *)
UnauthorizedMeansDead ==
    \A r \in Reqs : At(r, "idle") /\ reply[r].code = 401 =>
        /\ call[r].op = "preview" => ~HoldsPreview(Email(r), call[r].cred)
        /\ call[r].op = "keep"    => ~HoldsKeep(Email(r), call[r].cred)

(* The keep link handed out with a new preview token works for as long as *)
(* the email is there: new preview tokens do not replace it.              *)
KeepLinkLasts ==
    \A r \in Reqs : /\ At(r, "idle")
                    /\ call[r].op = "token"
                    /\ reply[r].code = 200
                    /\ Email(r) \in Live
                    => HoldsKeep(Email(r), reply[r].keep)

\* A request about an email that was there is answered "email not found".
FalselyNotFound(r) == /\ At(r, "idle")
                      /\ reply[r].code = 404
                      /\ call[r].existed
                      /\ Email(r) \in Live

(* 404 is never said of an email that existed when the request arrived    *)
(* and still exists, unless a keep and an unkeep of it overlapped: the    *)
(* UPDATE and the SELECT of TrackEmailOpen, the opened event and GetEmail *)
(* may be separated by any other handler.                                 *)
NotFoundMeansGone ==
    \A r \in Reqs : ~call[r].contested => ~FalselyNotFound(r)

(* emails.go:270 and 295 say of KeepEmail and UnkeepEmail "ok is false if *)
(* missing": a keep or unkeep is answered 404 only for a missing email.   *)
KeepNotFoundMeansMissing ==
    \A r \in Reqs : call[r].op \in {"keep", "unkeep"} => ~FalselyNotFound(r)

(* 500 means that a statement failed, or that the email disappeared       *)
(* between two statements of keep, unkeep or preview-token.               *)
InternalErrorMeansFault ==
    \A r \in Reqs : At(r, "idle") /\ reply[r].code = 500 =>
        \/ call[r].fault
        \/ call[r].op \in {"keep", "unkeep", "token"} /\ Email(r) \notin Live

(* Retention never deletes an email a client was told is kept, as long as *)
(* nobody asks to unkeep it: neither the conditional UPDATE nor the       *)
(* cleaner's DELETE may act on a flag read earlier.                       *)
PromiseHonoured == promised \cap purged = {}

(* The email in the answer to a keep or unkeep shows the new flag, unless *)
(* the opposite request overlapped: GetEmail runs after the UPDATE.       *)
AnswerShowsFlag ==
    \A r \in Reqs : At(r, "idle") /\ reply[r].code = 200 /\ ~call[r].contested =>
        /\ call[r].op = "keep"   => reply[r].kept
        /\ call[r].op = "unkeep" => ~reply[r].kept

(* The first open of an email is reported at most once and its arrival at *)
(* most once, and an open is reported only of an email that is marked     *)
(* opened, whichever of preview, get and raw come first.                  *)
EventsOnce ==
    \A id \in Ids : /\ events[id].received <= 1
                    /\ events[id].opened <= 1
                    /\ events[id].opened = 1 => ~Unopened(id)

(* GetEmail reads the row and the attachments in two statements: the list *)
(* of attachments is incomplete only if the email was deleted meanwhile.  *)
AttachmentsUnlessDeleted ==
    \A r \in Reqs : /\ At(r, "idle")
                    /\ reply[r].code = 200
                    /\ call[r].op \in {"preview", "get", "raw", "keep", "unkeep"}
                    /\ Email(r) \in Live
                    => reply[r].atts = emails[Email(r)].atts

(* Once set, opened_at never changes: not by a later open, whose time was *)
(* taken before or after, and not by any other statement on the row.      *)
FirstOpenStays ==
    [][\A id \in Live : emails[id].opened # Never /\ id \in Live'
                          => emails'[id].opened = emails[id].opened]_vars

(* Every request is answered, whatever fails and whoever interferes.      *)
EveryRequestAnswered == \A r \in Reqs : ~At(r, "idle") ~> At(r, "idle")

(* An email past its retention that nobody keeps is deleted in the end,   *)
(* although the cleaner deletes with a cutoff read before its statement   *)
(* runs and a failed round is not repeated before the next tick.          *)
ExpiredGo ==
    \A id \in Ids : id \in Expired(now - Retention) ~> ~IsUnkept(id)
============================================================================
