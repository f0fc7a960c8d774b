------------------------------ MODULE Delivery ------------------------------
(***************************************************************************)
(* From Postfix's queue to the emails table: Postfix pipes a queued        *)
(* message to postfix/ingest-mail, which POSTs it to the API's ingest      *)
(* handler and turns the answer into an exit status; Postfix removes the   *)
(* message on 0 and keeps it for another attempt on 75 (EX_TEMPFAIL).      *)
(*                                                                         *)
(* The pipe and the handler are two processes.  Either can die, or lose    *)
(* the connection, while the other goes on: a handler whose client is gone *)
(* may still commit.  Postfix's queue survives its restarts.               *)
(***************************************************************************)
EXTENDS Credentials, FiniteSets

CONSTANTS
    Rcpts,      \* addresses of the domain, all of them accepted
    Msgs,       \* messages that arrive at port 25
    Refused,    \* those ParseRaw or the body limit will not take
    Handlers    \* ingest requests the API can have in progress

ASSUME DeliveryAssumption ==
    /\ Refused \subseteq Msgs
    /\ IsFiniteSet(Handlers)

VARIABLES
    mq,         \* Postfix's queue: per message, what has become of it
    ingest,     \* per handler, the request it serves
    to,         \* per message, the recipients of its SMTP transaction
    stored,     \* history: per message and recipient, rows inserted
    cuts        \* history: per message, attempts cut off before their end

mailVars == <<mq, ingest, to, stored, cuts>>
vars == <<credVars, mailVars>>

\* "taken": ingest-mail saw the 201, Postfix has not removed the message yet.
QueueStates == {"new", "queued", "active", "taken", "done", "bounced"}

NoMsg == "none"
Idle == [at |-> "idle", msg |-> NoMsg, token |-> None, client |-> FALSE]

Init ==
    /\ CredInit
    /\ mq = [m \in Msgs |-> "new"]
    /\ ingest = [h \in Handlers |-> Idle]
    /\ to = [m \in Msgs |-> {}]
    /\ stored = [m \in Msgs |-> [a \in Rcpts |-> 0]]
    /\ cuts = [m \in Msgs |-> 0]

At(h, s) == ingest[h].at = s
Goto(h, s) == ingest' = [ingest EXCEPT ![h].at = s]

Fail ==
    /\ failures < MaxFailures
    /\ failures' = failures + 1

\* The messages whose attempt ends without an answer, back in the queue.
Cut(S) ==
    /\ mq' = [m \in Msgs |-> IF m \in S THEN "queued" ELSE mq[m]]
    /\ cuts' = [m \in Msgs |-> IF m \in S THEN cuts[m] + 1 ELSE cuts[m]]

InState(S) == {m \in Msgs : mq[m] \in S}

----------------------------------------------------------------------------
(* Postfix and ingest-mail. *)

Receive(m) ==
    /\ ppc = "up"
    /\ mq[m] = "new"
    /\ \E S \in (SUBSET Rcpts) \ {{}} : to' = [to EXCEPT ![m] = S]
    /\ mq' = [mq EXCEPT ![m] = "queued"]
    /\ UNCHANGED <<credVars, ingest, stored, cuts>>

\* ${recipient} of master.cf becomes one argument per recipient, and ingest-mail
\* reads the first: one POST per attempt, with one X-Envelope-To.
Named(m) == CHOOSE a \in to[m] : TRUE

\* Mutant: ingest-mail does not wait for curl.
AttemptDetached(m) ==
    /\ ppc = "up"
    /\ mq[m] = "queued"
    /\ Serving
    /\ \E h \in Handlers :
         /\ At(h, "idle")
         /\ ingest' = [ingest EXCEPT ![h] = [at |-> "auth", msg |-> m,
                                             token |-> token, client |-> TRUE]]
    /\ UNCHANGED <<credVars, mq, to, stored, cuts>>

\* curl posts the message with the token.  While the API does not listen curl
\* fails, ingest-mail exits 75 and the message stays where it is.
Attempt(m) ==
    /\ ppc = "up"
    /\ mq[m] = "queued"
    /\ Serving
    /\ \E h \in Handlers :
         /\ At(h, "idle")
         /\ ingest' = [ingest EXCEPT ![h] = [at |-> "auth", msg |-> m,
                                             token |-> token, client |-> TRUE]]
    /\ mq' = [mq EXCEPT ![m] = "active"]
    /\ UNCHANGED <<credVars, to, stored, cuts>>

\* Mutant: ingest-mail takes 200 for success, the API answers 201.
Accepted200(code) == code = 200

\* The status ingest-mail exits 0 for; any other is 75.
Accepted(code) == code = 201

\* Exit 0 reaches Postfix, which forgets the message.
Remove(m) ==
    /\ ppc = "up"
    /\ mq[m] = "taken"
    /\ mq' = [mq EXCEPT ![m] = "done"]
    /\ UNCHANGED <<credVars, ingest, to, stored, cuts>>

\* The message has been in the queue too long.
Bounce(m) ==
    /\ ppc = "up"
    /\ mq[m] = "queued"
    /\ mq' = [mq EXCEPT ![m] = "bounced"]
    /\ UNCHANGED <<credVars, ingest, to, stored, cuts>>

----------------------------------------------------------------------------
(* The ingest handler behind InternalBearerAuth. *)

\* The handler answers; if the client is still there, it hears the answer.
Respond(h, code) ==
    /\ ingest' = [ingest EXCEPT ![h] = Idle]
    /\ mq' = IF ingest[h].client
               THEN [mq EXCEPT ![ingest[h].msg] =
                       IF Accepted(code) THEN "taken" ELSE "queued"]
               ELSE mq
    /\ UNCHANGED <<credVars, cuts>>

Authorize(h) ==
    /\ At(h, "auth")
    /\ \/ /\ ingest[h].token = mem.int
          /\ Goto(h, "parse")
          /\ UNCHANGED <<credVars, mq, cuts>>
       \/ /\ ingest[h].token # mem.int
          /\ Respond(h, 401)
    /\ UNCHANGED <<to, stored>>

ParseRaw(h) ==
    /\ At(h, "parse")
    /\ \/ /\ ingest[h].msg \notin Refused
          /\ Goto(h, "insert")
          /\ UNCHANGED <<credVars, mq, cuts>>
       \/ /\ ingest[h].msg \in Refused
          /\ Respond(h, 400)
    /\ UNCHANGED <<to, stored>>

InsertEmail(h) ==
    /\ At(h, "insert")
    /\ stored' = [stored EXCEPT ![ingest[h].msg][Named(ingest[h].msg)] = @ + 1]
    /\ Goto(h, "answer")
    /\ UNCHANGED <<credVars, mq, to, cuts>>

\* The statement fails, or the context of a client that is gone is cancelled:
\* the transaction is rolled back.  Mutant: the handler goes on to its 201.
InsertFailsUnseen(h) ==
    /\ At(h, "insert")
    /\ Fail
    /\ Goto(h, "answer")
    /\ UNCHANGED <<bootVars, postfixVars, rotations, mq, to, stored, cuts>>

InsertFails(h) ==
    /\ At(h, "insert")
    /\ \/ /\ ~ingest[h].client
          /\ UNCHANGED failures
       \/ /\ ingest[h].client
          /\ Fail
    /\ ingest' = [ingest EXCEPT ![h] = Idle]
    /\ mq' = IF ingest[h].client THEN [mq EXCEPT ![ingest[h].msg] = "queued"] ELSE mq
    /\ UNCHANGED <<bootVars, postfixVars, rotations, to, stored, cuts>>

Answer(h) ==
    /\ At(h, "answer")
    /\ Respond(h, 201)
    /\ UNCHANGED <<to, stored>>

\* The connection breaks; curl fails and the pipe exits 75, the handler goes on.
Disconnect(h) ==
    /\ ~At(h, "idle")
    /\ ingest[h].client
    /\ Fail
    /\ ingest' = [ingest EXCEPT ![h].client = FALSE]
    /\ Cut({ingest[h].msg})
    /\ UNCHANGED <<bootVars, postfixVars, rotations, to, stored>>

----------------------------------------------------------------------------
(* Boots, crashes and rotations, with what they do to mail under way. *)

APIBoots ==
    /\ Boot \/ WriteFails
    /\ UNCHANGED mailVars

APICrashes ==
    /\ Crash
    /\ ingest' = [h \in Handlers |-> Idle]
    /\ Cut(InState({"active"}))
    /\ UNCHANGED <<to, stored>>

PostfixStarts ==
    /\ StartPostfix
    /\ UNCHANGED mailVars

\* The pipes die with the container; the API's handlers do not.
PostfixStops ==
    /\ CrashPostfix \/ ReloadPostfix
    /\ ingest' = [h \in Handlers |-> [ingest[h] EXCEPT !.client = FALSE]]
    /\ Cut(InState({"active", "taken"}))
    /\ UNCHANGED <<to, stored>>

StackRotates ==
    /\ Rotate
    /\ ingest' = [h \in Handlers |-> Idle]
    /\ Cut(InState({"active", "taken"}))
    /\ UNCHANGED <<to, stored>>

Handle(h) == Authorize(h) \/ ParseRaw(h) \/ InsertEmail(h) \/ Answer(h)

Next ==
    \/ \E m \in Msgs : Receive(m) \/ Attempt(m) \/ Remove(m) \/ Bounce(m)
    \/ \E h \in Handlers : Handle(h) \/ InsertFails(h) \/ Disconnect(h)
    \/ APIBoots \/ APICrashes \/ PostfixStarts \/ PostfixStops \/ StackRotates

Spec == Init /\ [][Next]_vars

(* Postfix tries queued mail again and again, handlers run, containers are *)
(* restarted, and after an upgrade the operator reloads Postfix.           *)
Fairness ==
    /\ \A m \in Msgs : WF_vars(Attempt(m)) /\ WF_vars(Remove(m))
    /\ \A h \in Handlers : WF_vars(Handle(h))
    /\ WF_vars(Boot /\ UNCHANGED mailVars)
    /\ WF_vars(PostfixStarts)
    /\ WF_vars(ReloadPostfix /\ PostfixStops)

FairSpec == Spec /\ Fairness
----------------------------------------------------------------------------
(* Type invariant; a message is active exactly while one handler serves it *)
(* for a client that waits.                                                *)
TypeOK ==
    /\ CredTypeOK
    /\ mq \in [Msgs -> QueueStates]
    /\ ingest \in [Handlers -> [at : {"idle", "auth", "parse", "insert", "answer"},
                                msg : Msgs \cup {NoMsg},
                                token : Keys \cup {None},
                                client : BOOLEAN]]
    /\ to \in [Msgs -> SUBSET Rcpts]
    /\ stored \in [Msgs -> [Rcpts -> Nat]]
    /\ cuts \in [Msgs -> Nat]
    /\ \A m \in Msgs : mq[m] = "active" <=>
         \E h \in Handlers : ingest[h].msg = m /\ ingest[h].client

(* What Postfix forgets is in the table: no crash, lost connection, failed *)
(* insert or refused key between the queue and the table loses a message.  *)
RemovedMeansStored ==
    \A m \in InState({"taken", "done"}) : \E a \in to[m] : stored[m][a] > 0

(* Mail is stored twice only by an attempt that was cut off: every row of  *)
(* a message but one is paid for by a lost answer.                         *)
OneRowPerAnswer == \A m \in Msgs, a \in Rcpts : stored[m][a] <= 1 + cuts[m]

(* Unless a half-written credentials file stops the API for good, a queued *)
(* message that can be parsed is stored or bounced.                        *)
EventuallyStored ==
    \A m \in Msgs \ Refused :
        <>[]~Broken => (mq[m] = "queued"
                          ~> \/ \E a \in Rcpts : stored[m][a] > 0
                             \/ mq[m] = "bounced")

(* docs/deployment.md:39: all addresses of the domain are accepted.  A     *)
(* message that Postfix delivered is stored for each of its recipients.    *)
EveryRecipientStored ==
    \A m \in InState({"taken", "done"}) : \A a \in to[m] : stored[m][a] > 0

\* The sender of Transfer is Postfix, the copies are the rows of a message.
fate == [m \in Msgs |-> CASE mq[m] = "new"     -> "unsent"
                          [] mq[m] = "done"    -> "delivered"
                          [] mq[m] = "bounced" -> "returned"
                          [] OTHER             -> "pending"]

copies == [m \in Msgs |-> IF mq[m] = "new" THEN 0 ELSE stored[m][Named(m)]]

Handover == INSTANCE Transfer WITH fate <- fate, copies <- copies

(* The queue, the pipe, the connection and the handler, with their crashes *)
(* and restarts, hand mail over at least once (Transfer).                  *)
AtLeastOnce == Handover!Spec
============================================================================
