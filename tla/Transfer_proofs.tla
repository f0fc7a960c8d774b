-------------------------- MODULE Transfer_proofs --------------------------
(***************************************************************************)
(* Delivery implements Transfer, for any number of messages, recipients,   *)
(* handlers, crashes, lost connections and rotations: mail is handed over  *)
(* at least once, and again only after an attempt that was cut off.        *)
(***************************************************************************)
EXTENDS Delivery_proofs, Credentials_proofs, FiniteSetTheorems

Slot == [at : {"idle", "auth", "parse", "insert", "answer"},
         msg : Msgs \cup {NoMsg},
         token : Keys \cup {None},
         client : BOOLEAN]

QueueTyped ==
    /\ mq \in [Msgs -> QueueStates]
    /\ ingest \in [Handlers -> Slot]
    /\ to \in [Msgs -> SUBSET Rcpts]
    /\ stored \in [Msgs -> [Rcpts -> Nat]]
    /\ cuts \in [Msgs -> Nat]

\* A message is active exactly while one handler serves it for a client.
OneClient ==
    /\ \A h \in Handlers : ingest[h].at = "idle" => ~ingest[h].client
    /\ \A h \in Handlers : ingest[h].at # "idle" => ingest[h].msg \in Msgs
    /\ \A h \in Handlers : ingest[h].client => mq[ingest[h].msg] = "active"
    /\ \A h, k \in Handlers : /\ ingest[h].client /\ ingest[k].client
                              /\ ingest[h].msg = ingest[k].msg
                              => h = k
    /\ \A m \in Msgs : mq[m] = "active" =>
         \E h \in Handlers : ingest[h].client /\ ingest[h].msg = m

TypeInv == CredInv /\ QueueTyped /\ OneClient

LEMMA FailKeepsKeys ==
    ASSUME CredInv, Fail, UNCHANGED <<bootVars, postfixVars, rotations>>
    PROVE  CredInv'
<1> USE CredentialsAssumption DEF Fail, bootVars, postfixVars
<1>1. CredTypeOK'
      BY SMT DEF CredInv, CredTypeOK
<1>2. KeyBudget'
      BY SMT DEF CredInv, CredTypeOK, KeyBudget, Full
<1>3. FileShape' /\ BootShape' /\ FreshKeys' /\ PrintedFull' /\ TokenInFile'
      BY SMT DEF CredInv, FileShape, BootShape, FreshKeys, PrintedFull, TokenInFile, Full, Broken
<1>. QED  BY <1>1, <1>2, <1>3 DEF CredInv

LEMMA KeysNextInv == CredInv /\ [Next]_vars => CredInv'
<1> SUFFICES ASSUME CredInv, [Next]_vars
             PROVE  CredInv'
    OBVIOUS
<1>1. CASE UNCHANGED credVars
      BY <1>1, CredNextInv
<1>2. CASE Fail /\ UNCHANGED <<bootVars, postfixVars, rotations>>
      BY <1>2, FailKeepsKeys
<1>3. CASE CredNext
      BY <1>3, CredNextInv
<1>4. ASSUME NEW m \in Msgs, Receive(m) \/ Attempt(m) \/ Remove(m) \/ Bounce(m)
      PROVE  UNCHANGED credVars
      BY <1>4, Zenon DEF Receive, Attempt, Remove, Bounce
<1>5. ASSUME NEW h \in Handlers, Handle(h)
      PROVE  UNCHANGED credVars
      BY <1>5, Zenon DEF Handle, Authorize, ParseRaw, InsertEmail, Answer, Respond
<1>6. ASSUME NEW h \in Handlers, InsertFails(h) \/ Disconnect(h)
      PROVE  \/ UNCHANGED credVars
             \/ Fail /\ UNCHANGED <<bootVars, postfixVars, rotations>>
      BY <1>6, Zenon DEF InsertFails, Disconnect, credVars, spent
<1>7. CASE APIBoots \/ APICrashes \/ PostfixStarts \/ PostfixStops \/ StackRotates
      BY <1>3, <1>7, Zenon DEF APIBoots, APICrashes, PostfixStarts, PostfixStops,
         StackRotates, CredNext
<1>. QED  BY <1>1, <1>2, <1>4, <1>5, <1>6, <1>7, Zenon DEF Next, vars

LEMMA IdleTyped == Idle \in Slot
BY SMT DEF Idle, Slot, NoMsg, None

LEMMA ClientGone ==
    ASSUME NEW r \in Slot
    PROVE  /\ [r EXCEPT !.client = FALSE] \in Slot
           /\ [r EXCEPT !.client = FALSE].client = FALSE
           /\ [r EXCEPT !.client = FALSE].at = r.at
           /\ [r EXCEPT !.client = FALSE].msg = r.msg
<1>1. \A f \in BOOLEAN : [r EXCEPT !.client = f] \in Slot
      BY SMT DEF Slot
<1>2. [r EXCEPT !.client = FALSE].client = FALSE
      BY SMT DEF Slot
<1>3. [r EXCEPT !.client = FALSE].at = r.at
      BY SMT DEF Slot
<1>4. [r EXCEPT !.client = FALSE].msg = r.msg
      BY SMT DEF Slot
<1>. QED  BY <1>1, <1>2, <1>3, <1>4

LEMMA TypeInitInv == Init => TypeInv
<1> SUFFICES ASSUME Init PROVE TypeInv
    OBVIOUS
<1>1. CredInv
      BY CredInitInv DEF Init
<1>2. QueueTyped
      BY IdleTyped, SMT DEF Init, QueueTyped, QueueStates
<1>3. OneClient
      BY SMT DEF Init, OneClient, Idle
<1>. QED  BY <1>1, <1>2, <1>3 DEF TypeInv

LEMMA ReceiveTyped == ASSUME TypeInv, NEW m \in Msgs, Receive(m) PROVE QueueTyped' /\ OneClient'
BY SMT DEF TypeInv, QueueTyped, OneClient, Receive, QueueStates, Slot

LEMMA AttemptTyped == ASSUME TypeInv, NEW m \in Msgs, Attempt(m) PROVE QueueTyped' /\ OneClient'
<1>1. token \in Keys \cup {None}
      BY DEF TypeInv, CredInv, CredTypeOK
<1>. QED  BY <1>1, SMT DEF TypeInv, QueueTyped, OneClient, Attempt, QueueStates, Slot, At

LEMMA MoveTyped ==
    ASSUME TypeInv, NEW m \in Msgs, Remove(m) \/ Bounce(m)
    PROVE  QueueTyped' /\ OneClient'
<1>1. PICK s \in {"done", "bounced"} : mq' = [mq EXCEPT ![m] = s]
      BY Zenon DEF Remove, Bounce
<1>2. mq[m] # "active" /\ UNCHANGED <<ingest, to, stored, cuts>>
      BY SMT DEF Remove, Bounce
<1>3. QueueTyped'
      BY <1>1, <1>2, SMT DEF TypeInv, QueueTyped, QueueStates
<1>4. \A k \in Msgs : mq'[k] = IF k = m THEN s ELSE mq[k]
      BY <1>1, SMT DEF TypeInv, QueueTyped
<1>5. s # "active"
      OBVIOUS
<1>6. \A h \in Handlers : ingest'[h] = ingest[h]
      BY <1>2
<1>7. \A h \in Handlers : ingest[h].client => ingest[h].msg \in Msgs
      BY DEF TypeInv, OneClient
<1>8. OneClient'
      BY <1>2, <1>4, <1>5, <1>6, <1>7, SMT DEF TypeInv, OneClient
<1>. QED  BY <1>3, <1>8

\* A handler goes on, for the same client if it has one.
LEMMA GotoTyped ==
    ASSUME TypeInv, NEW h \in Handlers, ~At(h, "idle"),
           NEW s \in {"auth", "parse", "insert", "answer"}, Goto(h, s),
           UNCHANGED <<mq, to, cuts>>, stored' \in [Msgs -> [Rcpts -> Nat]]
    PROVE  QueueTyped' /\ OneClient'
<1>1. \A k \in Handlers : /\ ingest[k] \in Slot
                          /\ ingest'[k] = IF k = h THEN [ingest[h] EXCEPT !.at = s]
                                                   ELSE ingest[k]
      BY SMT DEF TypeInv, QueueTyped, Goto
<1>2. [ingest[h] EXCEPT !.at = s] \in Slot
      BY <1>1, SMT DEF Slot
<1>3. QueueTyped'
      BY <1>1, <1>2, SMT DEF TypeInv, QueueTyped, Goto
<1>4. \A k \in Handlers : /\ ingest'[k].client = ingest[k].client
                          /\ ingest'[k].msg = ingest[k].msg
                          /\ ingest'[k].at = IF k = h THEN s ELSE ingest[k].at
      BY <1>1, SMT DEF Slot
<1>5. OneClient'
      BY <1>4, SMT DEF TypeInv, OneClient, At
<1>. QED  BY <1>3, <1>5

\* A handler ends, and its client, if it has one, hears of it.
LEMMA EndTyped ==
    ASSUME TypeInv, NEW h \in Handlers, ~At(h, "idle"), NEW s \in {"queued", "taken"},
           ingest' = [ingest EXCEPT ![h] = Idle],
           mq' = IF ingest[h].client THEN [mq EXCEPT ![ingest[h].msg] = s] ELSE mq,
           UNCHANGED <<to, stored, cuts>>
    PROVE  QueueTyped' /\ OneClient'
<1>1. QueueTyped'
      BY IdleTyped, SMT DEF TypeInv, QueueTyped, OneClient, At, QueueStates, Slot
<1>2. Idle.at = "idle" /\ ~Idle.client
      BY DEF Idle
<1>3. OneClient'
      BY <1>2, SMT DEF TypeInv, QueueTyped, OneClient, At, QueueStates, Slot
<1>. QED  BY <1>1, <1>3

\* Attempts are cut off: their handlers go, or go on without a client.
CutKind(S) ==
    /\ Cut(S)
    /\ ingest' = [h \in Handlers |-> ingest'[h]]
    /\ \A h \in Handlers : \/ ingest'[h] = Idle
                           \/ ingest'[h] = ingest[h]
                           \/ ingest'[h] = [ingest[h] EXCEPT !.client = FALSE]
    /\ \A h \in Handlers : ingest[h].client => (ingest'[h].client <=> ingest[h].msg \notin S)
    /\ \A h \in Handlers : ingest'[h] = Idle => ingest[h] = Idle \/ ~ingest[h].client
                                               \/ ingest[h].msg \in S
    /\ S \subseteq InState({"active", "taken"})
    /\ UNCHANGED <<to, stored>>

LEMMA CutTyped ==
    ASSUME TypeInv, NEW S, CutKind(S)
    PROVE  QueueTyped' /\ OneClient'
<1>1. Idle.at = "idle" /\ ~Idle.client /\ Idle \in Slot
      BY IdleTyped DEF Idle
<1>2. \A h \in Handlers : /\ ingest'[h] \in Slot
                          /\ ingest'[h].client => ingest'[h] = ingest[h]
                          /\ ingest'[h].at # "idle" => ingest'[h].at = ingest[h].at
                                                       /\ ingest'[h].msg = ingest[h].msg
  <2> SUFFICES ASSUME NEW h \in Handlers
               PROVE  /\ ingest'[h] \in Slot
                      /\ ingest'[h].client => ingest'[h] = ingest[h]
                      /\ ingest'[h].at # "idle" => ingest'[h].at = ingest[h].at
                                                   /\ ingest'[h].msg = ingest[h].msg
      OBVIOUS
  <2>1. ingest[h] \in Slot
        BY DEF TypeInv, QueueTyped
  <2>2. \/ ingest'[h] = Idle
        \/ ingest'[h] = ingest[h]
        \/ ingest'[h] = [ingest[h] EXCEPT !.client = FALSE]
        BY DEF CutKind
  <2>. QED  BY <1>1, <2>1, <2>2, ClientGone, Zenon
<1>3. /\ mq' \in [Msgs -> QueueStates] /\ cuts' \in [Msgs -> Nat]
      /\ \A m \in Msgs : mq'[m] = IF m \in S THEN "queued" ELSE mq[m]
      BY SMT DEF TypeInv, QueueTyped, CutKind, Cut, QueueStates
<1>4. QueueTyped'
      BY <1>2, <1>3, Zenon DEF TypeInv, QueueTyped, CutKind
<1>5. \A h \in Handlers : ingest'[h].at = "idle" => ~ingest'[h].client
      BY <1>2, Zenon DEF TypeInv, OneClient
<1>6. \A h \in Handlers : ingest'[h].client => mq'[ingest'[h].msg] = "active"
      BY <1>2, <1>3, SMT DEF TypeInv, QueueTyped, OneClient, CutKind
<1>7. \A m \in Msgs : mq'[m] = "active" =>
         \E h \in Handlers : ingest'[h].client /\ ingest'[h].msg = m
      BY <1>2, <1>3, SMT DEF TypeInv, QueueTyped, OneClient, CutKind
<1>8. OneClient'
      BY <1>2, <1>5, <1>6, <1>7, SMT DEF TypeInv, OneClient
<1>. QED  BY <1>4, <1>8

\* A broken connection cuts off one attempt.
LEMMA DisconnectCuts ==
    ASSUME TypeInv, NEW h \in Handlers, Disconnect(h)
    PROVE  CutKind({ingest[h].msg})
<1> DEFINE n == ingest[h].msg
<1>1. /\ ingest[h].client
      /\ ingest' = [ingest EXCEPT ![h].client = FALSE]
      /\ Cut({n}) /\ UNCHANGED <<to, stored>>
      BY Zenon DEF Disconnect
<1>0. ingest = [k \in Handlers |-> ingest[k]]
      BY Zenon DEF TypeInv, QueueTyped
<1>2. \A k \in Handlers : ingest'[k] = IF k = h THEN [ingest[h] EXCEPT !.client = FALSE]
                                                ELSE ingest[k]
      BY <1>0, <1>1, Zenon
<1>3. ingest' = [k \in Handlers |-> ingest'[k]]
      BY <1>0, <1>1, Zenon
<1>4. \A k \in Handlers : ingest[k] \in Slot
      BY DEF TypeInv, QueueTyped
<1>5. ~ingest'[h].client
      BY <1>2, <1>4, ClientGone, Zenon
<1>6. \A k \in Handlers : ingest[k].client => (ingest'[k].client <=> ingest[k].msg \notin {n})
      BY <1>1, <1>2, <1>5, Zenon DEF TypeInv, OneClient
<1>7. \A k \in Handlers : ingest'[k] = Idle => \/ ingest[k] = Idle \/ ~ingest[k].client
                                              \/ ingest[k].msg \in {n}
      BY <1>2, Zenon
<1>8. {n} \subseteq InState({"active", "taken"})
  <2>1. ingest[h].at # "idle"
        BY <1>1, Zenon DEF TypeInv, OneClient
  <2>2. n \in Msgs /\ mq[n] = "active"
        BY <1>1, <2>1, Zenon DEF TypeInv, OneClient
  <2>. QED  BY <2>2, Zenon DEF InState
<1>. QED  BY <1>1, <1>2, <1>3, <1>6, <1>7, <1>8, Zenon DEF CutKind

\* What ends or stops a process cuts off the attempts under way.
LEMMA CutsWithoutHandler ==
    ASSUME TypeInv, APICrashes \/ PostfixStops \/ StackRotates
    PROVE  \E S : CutKind(S)
<1>1. Idle.at = "idle" /\ ~Idle.client /\ Idle \in Slot
      BY IdleTyped DEF Idle
<1>3. CASE APICrashes
  <2>1. CutKind(InState({"active"}))
        BY <1>1, <1>3, SMT DEF CutKind, APICrashes, InState, TypeInv, QueueTyped, OneClient, Slot
  <2>. QED  BY <2>1
<1>4. CASE PostfixStops
  <2>1. CutKind(InState({"active", "taken"}))
        BY <1>1, <1>4, SMT DEF CutKind, PostfixStops, InState, TypeInv, QueueTyped, OneClient, Slot
  <2>. QED  BY <2>1
<1>5. CASE StackRotates
  <2>1. CutKind(InState({"active", "taken"}))
        BY <1>1, <1>5, SMT DEF CutKind, StackRotates, InState, TypeInv, QueueTyped, OneClient, Slot
  <2>. QED  BY <2>1
<1>. QED  BY <1>3, <1>4, <1>5

LEMMA RespondTyped ==
    ASSUME TypeInv, NEW h \in Handlers, ~At(h, "idle"), NEW code, Respond(h, code),
           UNCHANGED <<to, stored>>
    PROVE  QueueTyped' /\ OneClient'
<1>1. PICK s \in {"queued", "taken"} :
        mq' = IF ingest[h].client THEN [mq EXCEPT ![ingest[h].msg] = s] ELSE mq
      BY Zenon DEF Respond
<1>2. ingest' = [ingest EXCEPT ![h] = Idle] /\ UNCHANGED cuts
      BY Zenon DEF Respond
<1>. QED  BY <1>1, <1>2, EndTyped

LEMMA InsertTyped ==
    ASSUME TypeInv, MailInv, NEW h \in Handlers, InsertEmail(h)
    PROVE  QueueTyped' /\ OneClient'
<1>1. ~At(h, "idle") /\ Goto(h, "answer") /\ UNCHANGED <<mq, to, cuts>>
      BY SMT DEF InsertEmail, At
<1>2. stored' \in [Msgs -> [Rcpts -> Nat]]
      BY InsertStep DEF MailInv, MailShape
<1>. QED  BY <1>1, <1>2, GotoTyped

LEMMA TypeNextInv == TypeInv /\ MailInv /\ [Next]_vars => TypeInv'
<1> SUFFICES ASSUME TypeInv, MailInv, [Next]_vars
             PROVE  TypeInv'
    OBVIOUS
<1>1. CredInv'
      BY KeysNextInv DEF TypeInv
<1> SUFFICES QueueTyped' /\ OneClient'
    BY <1>1 DEF TypeInv
<1>2. ASSUME NEW m \in Msgs, Receive(m) \/ Attempt(m) \/ Remove(m) \/ Bounce(m)
      PROVE  QueueTyped' /\ OneClient'
      BY <1>2, ReceiveTyped, AttemptTyped, MoveTyped
<1>3. ASSUME NEW h \in Handlers, Handle(h) \/ InsertFails(h) \/ Disconnect(h)
      PROVE  QueueTyped' /\ OneClient'
  <2>1. CASE Authorize(h)
    <3>1. ~At(h, "idle") /\ UNCHANGED <<to, stored>>
          BY <2>1, SMT DEF Authorize, At
    <3>2. CASE Goto(h, "parse") /\ UNCHANGED <<mq, cuts>>
          BY <3>1, <3>2, GotoTyped, SMT DEF TypeInv, QueueTyped
    <3>3. CASE Respond(h, 401)
          BY <3>1, <3>3, RespondTyped
    <3>. QED  BY <2>1, <3>2, <3>3, Zenon DEF Authorize
  <2>2. CASE ParseRaw(h)
    <3>1. ~At(h, "idle") /\ UNCHANGED <<to, stored>>
          BY <2>2, SMT DEF ParseRaw, At
    <3>2. CASE Goto(h, "insert") /\ UNCHANGED <<mq, cuts>>
          BY <3>1, <3>2, GotoTyped, SMT DEF TypeInv, QueueTyped
    <3>3. CASE Respond(h, 400)
          BY <3>1, <3>3, RespondTyped
    <3>. QED  BY <2>2, <3>2, <3>3, Zenon DEF ParseRaw
  <2>3. CASE InsertEmail(h)
        BY <2>3, InsertTyped
  <2>4. CASE Answer(h)
    <3>1. ~At(h, "idle") /\ UNCHANGED <<to, stored>> /\ Respond(h, 201)
          BY <2>4, SMT DEF Answer, At
    <3>. QED  BY <3>1, RespondTyped
  <2>5. CASE InsertFails(h)
    <3>1. /\ ~At(h, "idle") /\ UNCHANGED <<to, stored, cuts>>
          /\ ingest' = [ingest EXCEPT ![h] = Idle]
          /\ mq' = IF ingest[h].client THEN [mq EXCEPT ![ingest[h].msg] = "queued"] ELSE mq
          BY <2>5, SMT DEF InsertFails, At
    <3>. QED  BY <3>1, EndTyped
  <2>6. CASE Disconnect(h)
        BY <2>6, DisconnectCuts, CutTyped
  <2>. QED  BY <1>3, <2>1, <2>2, <2>3, <2>4, <2>5, <2>6, Zenon DEF Handle
<1>4. CASE APICrashes \/ PostfixStops \/ StackRotates
  <2>1. PICK S : CutKind(S)
        BY <1>4, CutsWithoutHandler
  <2>. QED  BY <2>1, CutTyped
<1>5. CASE UNCHANGED mailVars
      BY <1>5, SMT DEF mailVars, TypeInv, QueueTyped, OneClient
<1>6. CASE APIBoots \/ PostfixStarts \/ UNCHANGED vars
      BY <1>5, <1>6, Zenon DEF APIBoots, PostfixStarts, vars
<1>. QED  BY <1>2, <1>3, <1>4, <1>6, Zenon DEF Next
----------------------------------------------------------------------------
(* Rows and lost answers. *)

Before == {"auth", "parse", "insert"}

\* Handlers that go on with a message although their client is gone.
Orphans(m) == {h \in Handlers : /\ ingest[h].at \in Before
                                /\ ingest[h].msg = m
                                /\ ~ingest[h].client}

\* The handler that serves the message has stored it and its client waits.
Answering(m) == \E h \in Handlers : /\ ingest[h].at = "answer"
                                    /\ ingest[h].msg = m
                                    /\ ingest[h].client

Acknowledged(m) == mq[m] \in {"taken", "done"} \/ Answering(m)

\* Every row, and every row an orphan may still add, is paid for by a lost
\* answer or by the one that is not lost.
Bound(m) == stored[m][Named(m)] + Cardinality(Orphans(m))
              <= cuts[m] + (IF Acknowledged(m) THEN 1 ELSE 0)

RowsBound == \A m \in Msgs : mq[m] # "new" => Bound(m)
RowsNamed == \A m \in Msgs, a \in Rcpts :
               mq[m] = "new" \/ a # Named(m) => stored[m][a] = 0

TransferInv == TypeInv /\ MailInv /\ RowsBound /\ RowsNamed

LEMMA NamedTyped ==
    ASSUME TypeInv, MailInv, NEW m \in Msgs, mq[m] # "new"
    PROVE  Named(m) \in Rcpts
<1>1. to[m] # {} /\ to[m] \subseteq Rcpts
      BY Zenon DEF MailInv, Addressed
<1>2. Named(m) \in to[m]
      BY <1>1, Zenon DEF Named
<1>. QED  BY <1>1, <1>2, Zenon

LEMMA OrphansFinite ==
    ASSUME NEW S, S \subseteq Handlers
    PROVE  IsFiniteSet(S) /\ Cardinality(S) \in Nat
BY DeliveryAssumption, FS_Subset, FS_CardinalityType

\* A message of which no row, no orphan and no answer is new.
LEMMA BoundKept ==
    ASSUME TypeInv, MailInv, RowsBound, TypeInv',
           NEW m \in Msgs, mq[m] # "new", to'[m] = to[m], stored'[m] = stored[m],
           Orphans(m)' \subseteq Orphans(m),
           \/ cuts'[m] = cuts[m] /\ (Acknowledged(m) => Acknowledged(m)')
           \/ cuts'[m] = cuts[m] + 1
    PROVE  Bound(m)'
<1> DEFINE O == Orphans(m)
           P == Orphans(m)'
<1>1. Cardinality(P) <= Cardinality(O) /\ Cardinality(P) \in Nat /\ Cardinality(O) \in Nat
  <2>1. O \subseteq Handlers
        BY DEF Orphans
  <2>2. P \subseteq O /\ P \subseteq Handlers
        BY <2>1
  <2>. QED  BY <2>1, <2>2, OrphansFinite, FS_Subset
<1>2. Bound(m)
      BY DEF RowsBound
<1>3. Named(m)' = Named(m) /\ stored[m][Named(m)] \in Nat /\ cuts[m] \in Nat
  <2>1. Named(m) \in Rcpts
        BY NamedTyped
  <2>2. stored[m][Named(m)] \in Nat /\ cuts[m] \in Nat
        BY <2>1 DEF TypeInv, QueueTyped
  <2>3. Named(m)' = Named(m)
        BY Zenon DEF Named
  <2>. QED  BY <2>2, <2>3
<1> DEFINE r == stored[m][Named(m)]
           p == stored'[m][Named(m)']
<1>4. r = p
      BY <1>3
<1>5. p + Cardinality(P) <= cuts'[m] + (IF Acknowledged(m)' THEN 1 ELSE 0)
  <2>1. r + Cardinality(O) <= cuts[m] + (IF Acknowledged(m) THEN 1 ELSE 0)
        BY <1>2 DEF Bound
  <2>2. r \in Nat /\ cuts[m] \in Nat
        BY <1>3
  <2> HIDE DEF O, P, r, p
  <2>. QED  BY <1>1, <1>4, <2>1, <2>2, SMT
<1>. QED  BY <1>5 DEF Bound

\* The attempt of a message that is not acknowledged is cut off.
LEMMA BoundCut ==
    ASSUME TypeInv, MailInv, RowsBound, TypeInv',
           NEW m \in Msgs, mq[m] # "new", to'[m] = to[m], stored'[m] = stored[m],
           NEW h \in Handlers, Orphans(m)' \subseteq Orphans(m) \cup {h},
           cuts'[m] = cuts[m] + 1, ~Acknowledged(m)
    PROVE  Bound(m)'
<1> DEFINE O == Orphans(m)
           P == Orphans(m)'
<1>1. Cardinality(P) <= Cardinality(O) + 1 /\ Cardinality(P) \in Nat /\ Cardinality(O) \in Nat
  <2>1. O \subseteq Handlers
        BY DEF Orphans
  <2>2. P \subseteq O \cup {h} /\ P \subseteq Handlers
        BY <2>1
  <2>3. IsFiniteSet(O) /\ Cardinality(O) \in Nat
        BY <2>1, OrphansFinite
  <2>4. Cardinality(P) \in Nat
        BY <2>2, OrphansFinite
  <2>5. /\ IsFiniteSet(O \cup {h})
        /\ Cardinality(O \cup {h}) = IF h \in O THEN Cardinality(O) ELSE Cardinality(O) + 1
        BY <2>3, FS_AddElement
  <2>6. Cardinality(P) <= Cardinality(O \cup {h})
        BY <2>2, <2>5, FS_Subset
  <2> HIDE DEF O, P
  <2>. QED  BY <2>3, <2>4, <2>5, <2>6, SMT
<1>2. Bound(m)
      BY DEF RowsBound
<1>3. Named(m)' = Named(m) /\ stored[m][Named(m)] \in Nat /\ cuts[m] \in Nat
  <2>1. Named(m) \in Rcpts
        BY NamedTyped
  <2>2. stored[m][Named(m)] \in Nat /\ cuts[m] \in Nat
        BY <2>1 DEF TypeInv, QueueTyped
  <2>3. Named(m)' = Named(m)
        BY Zenon DEF Named
  <2>. QED  BY <2>2, <2>3
<1> DEFINE r == stored[m][Named(m)]
           p == stored'[m][Named(m)']
<1>4. r = p
      BY <1>3
<1>5. p + Cardinality(P) <= cuts'[m] + (IF Acknowledged(m)' THEN 1 ELSE 0)
  <2>1. r + Cardinality(O) <= cuts[m]
        BY <1>1, <1>2, <1>3, SMT DEF Bound
  <2>2. r \in Nat /\ cuts[m] \in Nat
        BY <1>3
  <2> HIDE DEF O, P, r, p
  <2>. QED  BY <1>1, <1>4, <2>1, <2>2, SMT
<1>. QED  BY <1>5 DEF Bound

\* The row of a handler that is an orphan, or whose client will be told.
LEMMA BoundInsert ==
    ASSUME TypeInv, MailInv, RowsBound, TypeInv',
           NEW h \in Handlers, ingest[h].at = "insert",
           NEW m \in Msgs, m = ingest[h].msg, mq[m] # "new", to'[m] = to[m],
           stored'[m][Named(m)] = stored[m][Named(m)] + 1, cuts'[m] = cuts[m],
           Orphans(m)' \subseteq Orphans(m) \ {h},
           Acknowledged(m) => Acknowledged(m)',
           ingest[h].client => ~Acknowledged(m) /\ Acknowledged(m)'
    PROVE  Bound(m)'
<1> DEFINE O == Orphans(m)
           P == Orphans(m)'
<1>1. /\ Cardinality(P) \in Nat /\ Cardinality(O) \in Nat
      /\ Cardinality(P) <= IF ingest[h].client THEN Cardinality(O) ELSE Cardinality(O) - 1
  <2>1. O \subseteq Handlers /\ (h \in O <=> ~ingest[h].client)
        BY DEF Orphans, Before
  <2>2. P \subseteq O \ {h} /\ P \subseteq Handlers
        BY <2>1
  <2>3. IsFiniteSet(O) /\ Cardinality(O) \in Nat
        BY <2>1, OrphansFinite
  <2>4. Cardinality(P) \in Nat
        BY <2>2, OrphansFinite
  <2>5. /\ IsFiniteSet(O \ {h})
        /\ Cardinality(O \ {h}) = IF h \in O THEN Cardinality(O) - 1 ELSE Cardinality(O)
        BY <2>3, FS_RemoveElement
  <2>6. Cardinality(P) <= Cardinality(O \ {h})
        BY <2>2, <2>5, FS_Subset
  <2> HIDE DEF O, P
  <2>. QED  BY <2>1, <2>3, <2>4, <2>5, <2>6, SMT
<1>2. Bound(m)
      BY DEF RowsBound
<1>3. Named(m)' = Named(m) /\ stored[m][Named(m)] \in Nat /\ cuts[m] \in Nat
  <2>1. Named(m) \in Rcpts
        BY NamedTyped
  <2>2. stored[m][Named(m)] \in Nat /\ cuts[m] \in Nat
        BY <2>1 DEF TypeInv, QueueTyped
  <2>3. Named(m)' = Named(m)
        BY Zenon DEF Named
  <2>. QED  BY <2>2, <2>3
<1> DEFINE r == stored[m][Named(m)]
           p == stored'[m][Named(m)']
<1>4. p = r + 1
      BY <1>3
<1>5. p + Cardinality(P) <= cuts'[m] + (IF Acknowledged(m)' THEN 1 ELSE 0)
  <2>1. r + Cardinality(O) <= cuts[m] + (IF Acknowledged(m) THEN 1 ELSE 0)
        BY <1>2 DEF Bound
  <2>2. r \in Nat /\ cuts[m] \in Nat
        BY <1>3
  <2>3. ingest[h].client \in BOOLEAN
        BY SMT DEF TypeInv, QueueTyped, Slot
  <2>4. CASE ingest[h].client
    <3> HIDE DEF O, P, r, p
    <3>. QED  BY <1>1, <1>4, <2>1, <2>2, <2>4, SMT
  <2>5. CASE ~ingest[h].client
    <3> HIDE DEF O, P, r, p
    <3>. QED  BY <1>1, <1>4, <2>1, <2>2, <2>5, SMT
  <2>. QED  BY <2>4, <2>5
<1>. QED  BY <1>5 DEF Bound

\* The table is as before, and so are the recipients.
LEMMA NamedKept ==
    ASSUME RowsNamed, UNCHANGED <<to, stored>>,
           \A m \in Msgs : mq'[m] = "new" => mq[m] = "new"
    PROVE  RowsNamed'
<1>1. \A m : Named(m)' = Named(m)
      BY Zenon DEF Named
<1>. QED  BY <1>1, Zenon DEF RowsNamed

\* A message is acknowledged through its one client.
LEMMA ClientAnswers ==
    ASSUME TypeInv, NEW h \in Handlers, ingest[h].client
    PROVE  Acknowledged(ingest[h].msg) <=> ingest[h].at = "answer"
<1>1. mq[ingest[h].msg] = "active"
      BY DEF TypeInv, OneClient
<1>2. ASSUME NEW k \in Handlers, ingest[k].at = "answer",
             ingest[k].msg = ingest[h].msg, ingest[k].client
      PROVE  ingest[h].at = "answer"
  <2>1. k = h
        BY <1>2 DEF TypeInv, OneClient
  <2>. QED  BY <1>2, <2>1
<1>. QED  BY <1>1, <1>2 DEF Acknowledged, Answering

LEMMA ReceiveCounted ==
    ASSUME TransferInv, TypeInv', MailInv', NEW n \in Msgs, Receive(n)
    PROVE  RowsBound' /\ RowsNamed'
<1>1. /\ mq[n] = "new" /\ UNCHANGED <<ingest, stored, cuts>>
      /\ mq' = [mq EXCEPT ![n] = "queued"]
      BY Zenon DEF Receive
<1>2. \A m \in Msgs : mq'[m] = IF m = n THEN "queued" ELSE mq[m]
      BY <1>1, SMT DEF TransferInv, TypeInv, QueueTyped
<1>3. \A m \in Msgs : m # n => to'[m] = to[m]
      BY SMT DEF Receive, TransferInv, TypeInv, QueueTyped
<1>4. \A m \in Msgs : Orphans(m)' = Orphans(m) /\ (Answering(m)' <=> Answering(m))
      BY <1>1, Zenon DEF Orphans, Answering
<1>5. \A a \in Rcpts : stored[n][a] = 0
      BY <1>1 DEF TransferInv, RowsNamed
<1>6. ASSUME NEW m \in Msgs, m # n, mq'[m] # "new"
      PROVE  Bound(m)'
  <2>1. mq[m] # "new" /\ to'[m] = to[m] /\ stored'[m] = stored[m] /\ cuts'[m] = cuts[m]
        BY <1>1, <1>2, <1>3, <1>6
  <2>2. Acknowledged(m) => Acknowledged(m)'
        BY <1>2, <1>4, <1>6 DEF Acknowledged
  <2>3. Orphans(m)' \subseteq Orphans(m)
        BY <1>4
  <2>. QED  BY <2>1, <2>2, <2>3, BoundKept DEF TransferInv
<1>7. Bound(n)'
  <2>1. Orphans(n)' = {}
    <3>1. \A h \in Handlers : ingest[h].at # "idle" => ingest[h].msg # n
          BY <1>1, Zenon DEF TransferInv, MailInv, Pending
    <3>2. Orphans(n) = {}
          BY <3>1 DEF Orphans, Before
    <3>. QED  BY <1>4, <3>2
  <2>2. Cardinality(Orphans(n)') = 0
        BY <2>1, FS_EmptySet
  <2>3. (mq[n] # "new")'
        BY <1>2
  <2>4. Named(n)' \in Rcpts
    <3>1. (to[n] # {} /\ to[n] \subseteq Rcpts)'
          BY <2>3, Zenon DEF MailInv, Addressed
    <3>2. (Named(n) \in to[n])'
          BY <3>1, Zenon DEF Named
    <3>. QED  BY <3>1, <3>2, Zenon
  <2>5. stored'[n][Named(n)'] = 0
        BY <1>1, <1>5, <2>4
  <2>6. cuts'[n] \in Nat
        BY DEF TypeInv, QueueTyped
  <2> DEFINE c == Cardinality(Orphans(n)')
             r == stored'[n][Named(n)']
  <2>7. r + c <= cuts'[n] + (IF Acknowledged(n)' THEN 1 ELSE 0)
    <3>1. r = 0 /\ c = 0
          BY <2>2, <2>5
    <3> HIDE DEF r, c
    <3>. QED  BY <2>6, <3>1, SMT
  <2>. QED  BY <2>7 DEF Bound
<1>8. RowsNamed'
  <2> SUFFICES ASSUME NEW m \in Msgs, NEW a \in Rcpts, mq'[m] = "new" \/ a # Named(m)'
               PROVE  stored'[m][a] = 0
      BY Zenon DEF RowsNamed
  <2>1. CASE m = n
        BY <1>1, <1>5, <2>1
  <2>2. CASE m # n
    <3>1. Named(m)' = Named(m)
          BY <1>3, <2>2, Zenon DEF Named
    <3>. QED  BY <1>1, <1>2, <2>2, <3>1 DEF TransferInv, RowsNamed
  <2>. QED  BY <2>1, <2>2
<1>. QED  BY <1>6, <1>7, <1>8, Zenon DEF RowsBound

\* Steps that leave the table alone and cut nothing off.
LEMMA QuietCounted ==
    ASSUME TransferInv, TypeInv', UNCHANGED <<to, stored, cuts>>,
           \A m \in Msgs : mq[m] # "new" <=> mq'[m] # "new",
           \A m \in Msgs : Orphans(m)' \subseteq Orphans(m),
           \A m \in Msgs : Acknowledged(m) => Acknowledged(m)'
    PROVE  RowsBound' /\ RowsNamed'
<1>1. RowsNamed'
      BY NamedKept DEF TransferInv
<1>2. ASSUME NEW m \in Msgs, mq'[m] # "new"
      PROVE  Bound(m)'
      BY <1>2, BoundKept DEF TransferInv
<1>. QED  BY <1>1, <1>2, Zenon DEF RowsBound

LEMMA AttemptCounted ==
    ASSUME TransferInv, TypeInv', NEW n \in Msgs, Attempt(n)
    PROVE  RowsBound' /\ RowsNamed'
<1>1. PICK h \in Handlers :
        /\ ingest[h].at = "idle"
        /\ ingest' = [ingest EXCEPT ![h] = [at |-> "auth", msg |-> n,
                                            token |-> token, client |-> TRUE]]
      BY Zenon DEF Attempt, At
<1>2. \A k \in Handlers : k # h => ingest'[k] = ingest[k]
      BY <1>1, SMT DEF TransferInv, TypeInv, QueueTyped
<1>3. ingest'[h].at = "auth" /\ ingest'[h].client
      BY <1>1, SMT DEF TransferInv, TypeInv, QueueTyped
<1>4. mq[n] = "queued" /\ UNCHANGED <<to, stored, cuts>>
      BY Zenon DEF Attempt
<1>5. \A m \in Msgs : mq'[m] = IF m = n THEN "active" ELSE mq[m]
      BY SMT DEF Attempt, TransferInv, TypeInv, QueueTyped
<1>6. ASSUME NEW m \in Msgs
      PROVE  /\ Orphans(m)' \subseteq Orphans(m)
             /\ Acknowledged(m) => Acknowledged(m)'
  <2>1. Orphans(m)' \subseteq Orphans(m)
        BY <1>2, <1>3, Zenon DEF Orphans
  <2>2. Answering(m) => Answering(m)'
        BY <1>1, <1>2, Zenon DEF Answering
  <2>. QED  BY <1>4, <1>5, <2>1, <2>2 DEF Acknowledged
<1>. QED  BY <1>4, <1>5, <1>6, QuietCounted

LEMMA MoveCounted ==
    ASSUME TransferInv, TypeInv', NEW n \in Msgs, Remove(n) \/ Bounce(n)
    PROVE  RowsBound' /\ RowsNamed'
<1>1. PICK s \in {"done", "bounced"} :
        /\ mq' = [mq EXCEPT ![n] = s]
        /\ mq[n] = IF s = "done" THEN "taken" ELSE "queued"
      BY SMT DEF Remove, Bounce
<1>2. UNCHANGED <<ingest, to, stored, cuts>>
      BY Zenon DEF Remove, Bounce
<1>3. \A m \in Msgs : mq'[m] = IF m = n THEN s ELSE mq[m]
      BY <1>1, SMT DEF TransferInv, TypeInv, QueueTyped
<1>4. \A m \in Msgs : Orphans(m)' = Orphans(m) /\ (Answering(m)' <=> Answering(m))
      BY <1>2, Zenon DEF Orphans, Answering
<1>5. \A m \in Msgs : Acknowledged(m) => Acknowledged(m)'
      BY <1>1, <1>3, <1>4, SMT DEF Acknowledged
<1>6. \A m \in Msgs : mq[m] # "new" <=> mq'[m] # "new"
      BY <1>1, <1>3, SMT
<1>. QED  BY <1>2, <1>4, <1>5, <1>6, QuietCounted

LEMMA GotoCounted ==
    ASSUME TransferInv, TypeInv', NEW h \in Handlers, ingest[h].at \in Before,
           NEW s \in Before, Goto(h, s), UNCHANGED <<mq, to, stored, cuts>>
    PROVE  RowsBound' /\ RowsNamed'
<1>1. \A k \in Handlers : /\ ingest'[k].client = ingest[k].client
                          /\ ingest'[k].msg = ingest[k].msg
                          /\ ingest'[k].at = IF k = h THEN s ELSE ingest[k].at
  <2>1. \A k \in Handlers : /\ ingest[k] \in Slot
                            /\ ingest'[k] = IF k = h THEN [ingest[h] EXCEPT !.at = s]
                                                     ELSE ingest[k]
        BY SMT DEF TransferInv, TypeInv, QueueTyped, Goto
  <2>. QED  BY <2>1, SMT DEF Slot
<1>2. \A m \in Msgs : Orphans(m)' \subseteq Orphans(m)
      BY <1>1, Zenon DEF Orphans
<1>3. s # "answer" /\ ingest[h].at # "answer"
      BY DEF Before
<1>4. \A m \in Msgs : Answering(m) => Answering(m)'
      BY <1>1, <1>3, Zenon DEF Answering
<1>5. \A m \in Msgs : Acknowledged(m) => Acknowledged(m)'
      BY <1>4, Zenon DEF Acknowledged
<1>. QED  BY <1>2, <1>5, QuietCounted

\* Only after the row is there a client is told that it is.
LEMMA EndCounted ==
    ASSUME TransferInv, TypeInv', NEW h \in Handlers, ingest[h].at # "idle",
           NEW s \in {"queued", "taken"}, s = "taken" <=> ingest[h].at = "answer",
           ingest' = [ingest EXCEPT ![h] = Idle],
           mq' = IF ingest[h].client THEN [mq EXCEPT ![ingest[h].msg] = s] ELSE mq,
           UNCHANGED <<to, stored, cuts>>
    PROVE  RowsBound' /\ RowsNamed'
<1>1. \A k \in Handlers : ingest'[k] = IF k = h THEN Idle ELSE ingest[k]
      BY SMT DEF TransferInv, TypeInv, QueueTyped
<1>2. Idle.at = "idle" /\ ~Idle.client
      BY DEF Idle
<1>3. ingest[h].msg \in Msgs /\ mq[ingest[h].msg] # "new"
      BY Zenon DEF TransferInv, MailInv, Pending
<1>4. \A m \in Msgs : mq'[m] = IF ingest[h].client /\ m = ingest[h].msg THEN s ELSE mq[m]
      BY <1>3, SMT DEF TransferInv, TypeInv, QueueTyped
<1>5. \A m \in Msgs : mq[m] # "new" <=> mq'[m] # "new"
      BY <1>3, <1>4, SMT
<1>6. \A m \in Msgs : Orphans(m)' \subseteq Orphans(m)
      BY <1>1, <1>2, SMT DEF Orphans, Before
<1>7. ASSUME NEW m \in Msgs, Acknowledged(m)
      PROVE  Acknowledged(m)'
  <2>1. CASE ingest[h].client /\ m = ingest[h].msg
    <3>1. ingest[h].at = "answer"
          BY <1>7, <2>1, ClientAnswers DEF TransferInv
    <3>2. mq'[m] = "taken"
          BY <1>4, <2>1, <3>1
    <3>. QED  BY <3>2 DEF Acknowledged
  <2>2. CASE ~(ingest[h].client /\ m = ingest[h].msg)
    <3>1. mq'[m] = mq[m]
          BY <1>4, <2>2
    <3>2. Answering(m) => Answering(m)'
          BY <1>1, <2>2, Zenon DEF Answering
    <3>. QED  BY <1>7, <3>1, <3>2 DEF Acknowledged
  <2>. QED  BY <2>1, <2>2
<1>. QED  BY <1>5, <1>6, <1>7, QuietCounted

LEMMA RespondCounted ==
    ASSUME TransferInv, TypeInv', NEW h \in Handlers, ingest[h].at # "idle", NEW code,
           Accepted(code) <=> ingest[h].at = "answer", Respond(h, code),
           UNCHANGED <<to, stored>>
    PROVE  RowsBound' /\ RowsNamed'
<1>1. CASE Accepted(code)
  <2>1. mq' = IF ingest[h].client THEN [mq EXCEPT ![ingest[h].msg] = "taken"] ELSE mq
        BY <1>1, Zenon DEF Respond
  <2>. QED  BY <1>1, <2>1, EndCounted, Zenon DEF Respond
<1>2. CASE ~Accepted(code)
  <2>1. mq' = IF ingest[h].client THEN [mq EXCEPT ![ingest[h].msg] = "queued"] ELSE mq
        BY <1>2, Zenon DEF Respond
  <2>2. "queued" # "taken"
        OBVIOUS
  <2>. QED  BY <1>2, <2>1, <2>2, EndCounted, Zenon DEF Respond
<1>. QED  BY <1>1, <1>2

LEMMA InsertCounted ==
    ASSUME TransferInv, TypeInv', NEW h \in Handlers, InsertEmail(h)
    PROVE  RowsBound' /\ RowsNamed'
<1>0. PICK n : n = ingest[h].msg
      OBVIOUS
<1>1. /\ ingest[h].at = "insert" /\ UNCHANGED <<mq, to, cuts>>
      /\ stored' = [stored EXCEPT ![n][Named(n)] = @ + 1]
      /\ ingest' = [ingest EXCEPT ![h].at = "answer"]
      BY <1>0, Zenon DEF InsertEmail, At, Goto
<1>2. n \in Msgs /\ mq[n] # "new"
      BY <1>0, <1>1, Zenon DEF TransferInv, MailInv, Pending
<1>3. Named(n) \in Rcpts
      BY <1>2, NamedTyped DEF TransferInv
<1>4. \A m \in Msgs : Named(m)' = Named(m)
      BY <1>1, Zenon DEF Named
<1>5. \A m \in Msgs, a \in Rcpts :
        stored'[m][a] = IF m = n /\ a = Named(n) THEN stored[m][a] + 1 ELSE stored[m][a]
      BY <1>1, <1>2, <1>3, SMT DEF TransferInv, TypeInv, QueueTyped
<1>6. \A m \in Msgs : m # n => stored'[m] = stored[m]
      BY <1>1, <1>2, SMT DEF TransferInv, TypeInv, QueueTyped
<1>7. \A k \in Handlers : /\ ingest'[k].client = ingest[k].client
                          /\ ingest'[k].msg = ingest[k].msg
                          /\ ingest'[k].at = IF k = h THEN "answer" ELSE ingest[k].at
  <2>1. \A k \in Handlers : /\ ingest[k] \in Slot
                            /\ ingest'[k] = IF k = h THEN [ingest[h] EXCEPT !.at = "answer"]
                                                     ELSE ingest[k]
        BY <1>1, SMT DEF TransferInv, TypeInv, QueueTyped
  <2>. QED  BY <2>1, SMT DEF Slot
<1>8. \A m \in Msgs : Orphans(m)' \subseteq Orphans(m) \ {h}
      BY <1>7, SMT DEF Orphans, Before
<1>9. \A m \in Msgs : Acknowledged(m) => Acknowledged(m)'
  <2>1. \A m \in Msgs : Answering(m) => Answering(m)'
        BY <1>7, SMT DEF Answering
  <2>. QED  BY <1>1, <2>1, Zenon DEF Acknowledged
<1>10. RowsNamed'
      BY <1>1, <1>2, <1>4, <1>5, SMT DEF TransferInv, RowsNamed
<1>11. ASSUME NEW m \in Msgs, m # n, mq'[m] # "new"
       PROVE  Bound(m)'
       BY <1>1, <1>6, <1>8, <1>9, <1>11, BoundKept DEF TransferInv
<1>12. Bound(n)'
  <2>1. ingest[h].client => ~Acknowledged(n) /\ Acknowledged(n)'
    <3>1. ingest[h].client => ~Acknowledged(n)
          BY <1>0, <1>1, ClientAnswers DEF TransferInv
    <3>2. ingest[h].client => Acknowledged(n)'
          BY <1>0, <1>7, SMT DEF Answering, Acknowledged
    <3>. QED  BY <3>1, <3>2
  <2>2. stored'[n][Named(n)] = stored[n][Named(n)] + 1
        BY <1>2, <1>3, <1>5
  <2>. QED  BY <1>0, <1>1, <1>2, <1>8, <1>9, <2>1, <2>2, BoundInsert DEF TransferInv
<1>. QED  BY <1>10, <1>11, <1>12, Zenon DEF RowsBound

LEMMA CutCounted ==
    ASSUME TransferInv, TypeInv', NEW S, CutKind(S)
    PROVE  RowsBound' /\ RowsNamed'
<1>1. \A m \in Msgs : /\ mq'[m] = IF m \in S THEN "queued" ELSE mq[m]
                      /\ cuts'[m] = IF m \in S THEN cuts[m] + 1 ELSE cuts[m]
      BY SMT DEF CutKind, Cut
<1>2. \A m \in S : m \in Msgs /\ mq[m] \in {"active", "taken"}
      BY DEF CutKind, InState
<1>3. Idle.at = "idle" /\ ~Idle.client
      BY DEF Idle
<1>4. \A k \in Handlers : /\ ingest'[k].client => ingest'[k] = ingest[k]
                          /\ ingest'[k].at # "idle" => ingest'[k].at = ingest[k].at
                                                       /\ ingest'[k].msg = ingest[k].msg
  <2> SUFFICES ASSUME NEW k \in Handlers
               PROVE  /\ ingest'[k].client => ingest'[k] = ingest[k]
                      /\ ingest'[k].at # "idle" => ingest'[k].at = ingest[k].at
                                                   /\ ingest'[k].msg = ingest[k].msg
      OBVIOUS
  <2>1. ingest[k] \in Slot
        BY DEF TransferInv, TypeInv, QueueTyped
  <2>2. \/ ingest'[k] = Idle
        \/ ingest'[k] = ingest[k]
        \/ ingest'[k] = [ingest[k] EXCEPT !.client = FALSE]
        BY DEF CutKind
  <2>. QED  BY <1>3, <2>1, <2>2, ClientGone, Zenon
<1>5. \A k \in Handlers : ingest[k].client /\ ingest[k].msg \notin S => ingest'[k] = ingest[k]
      BY <1>4, Zenon DEF CutKind
<1>6. \A k \in Handlers : ingest'[k].at \in Before => ingest'[k].at # "idle"
      BY DEF Before
<1>7. RowsNamed'
  <2>1. \A m \in Msgs : mq'[m] = "new" => mq[m] = "new"
        BY <1>1
  <2>. QED  BY <2>1, NamedKept DEF TransferInv, CutKind
<1>8. ASSUME NEW m \in Msgs, mq'[m] # "new"
      PROVE  Bound(m)'
  <2>0. UNCHANGED <<to, stored>> /\ mq[m] # "new"
        BY <1>1, <1>2, <1>8 DEF CutKind
  <2>1. CASE m \notin S
    <3>1. Orphans(m)' \subseteq Orphans(m)
          BY <1>4, <1>5, <1>6, <2>1, Zenon DEF Orphans
    <3>2. Answering(m) => Answering(m)'
          BY <1>5, <2>1, Zenon DEF Answering
    <3>3. Acknowledged(m) => Acknowledged(m)'
          BY <1>1, <2>1, <3>2 DEF Acknowledged
    <3>. QED  BY <1>1, <2>0, <2>1, <3>1, <3>3, BoundKept DEF TransferInv
  <2>2. CASE m \in S /\ mq[m] = "taken"
    <3>1. \A k \in Handlers : ingest[k].client => ingest[k].msg # m
          BY <2>2, Zenon DEF TransferInv, TypeInv, OneClient
    <3>2. Orphans(m)' \subseteq Orphans(m)
          BY <1>4, <1>6, <3>1, Zenon DEF Orphans
    <3>. QED  BY <1>1, <2>0, <2>2, <3>2, BoundKept DEF TransferInv
  <2>3. CASE m \in S /\ mq[m] = "active"
    <3>1. PICK h \in Handlers : ingest[h].client /\ ingest[h].msg = m
          BY <2>3 DEF TransferInv, TypeInv, OneClient
    <3>2. \A k \in Handlers : ingest[k].client /\ ingest[k].msg = m => k = h
          BY <3>1, Zenon DEF TransferInv, TypeInv, OneClient
    <3>3. Orphans(m)' \subseteq Orphans(m) \cup {h}
          BY <1>4, <1>6, <3>2, Zenon DEF Orphans
    <3>4. CASE ingest[h].at = "answer"
      <4>1. h \notin Orphans(m)'
            BY <1>4, <1>6, <3>4, SMT DEF Orphans, Before
      <4>2. Orphans(m)' \subseteq Orphans(m)
            BY <3>3, <4>1
      <4>. QED  BY <1>1, <2>0, <2>3, <4>2, BoundKept DEF TransferInv
    <3>5. CASE ingest[h].at # "answer"
      <4>1. ~Acknowledged(m)
            BY <3>1, <3>5, ClientAnswers DEF TransferInv
      <4>. QED  BY <1>1, <2>0, <2>3, <3>3, <4>1, BoundCut DEF TransferInv
    <3>. QED  BY <3>4, <3>5
  <2>. QED  BY <1>2, <2>1, <2>2, <2>3
<1>. QED  BY <1>7, <1>8, Zenon DEF RowsBound

LEMMA TransferInitInv == Init => TransferInv
<1> SUFFICES ASSUME Init PROVE TransferInv
    OBVIOUS
<1>1. TypeInv /\ MailInv
      BY TypeInitInv, MailInitInv
<1>2. mq = [m \in Msgs |-> "new"] /\ stored = [m \in Msgs |-> [a \in Rcpts |-> 0]]
      BY DEF Init
<1>3. RowsBound
      BY <1>2, Zenon DEF RowsBound
<1>4. RowsNamed
      BY <1>2, Zenon DEF RowsNamed
<1>. QED  BY <1>1, <1>3, <1>4 DEF TransferInv

LEMMA TransferNextInv == TransferInv /\ [Next]_vars => TransferInv'
<1> SUFFICES ASSUME TransferInv, [Next]_vars
             PROVE  TransferInv'
    OBVIOUS
<1>1. TypeInv' /\ MailInv'
      BY TypeNextInv, MailNextInv DEF TransferInv
<1> SUFFICES RowsBound' /\ RowsNamed'
    BY <1>1 DEF TransferInv
<1>2. ASSUME NEW m \in Msgs, Receive(m) \/ Attempt(m) \/ Remove(m) \/ Bounce(m)
      PROVE  RowsBound' /\ RowsNamed'
      BY <1>1, <1>2, ReceiveCounted, AttemptCounted, MoveCounted
<1>3. ASSUME NEW h \in Handlers, Handle(h) \/ InsertFails(h) \/ Disconnect(h)
      PROVE  RowsBound' /\ RowsNamed'
  <2>1. CASE Authorize(h)
    <3>1. ingest[h].at = "auth" /\ UNCHANGED <<to, stored>>
          BY <2>1, SMT DEF Authorize, At
    <3>2. CASE Goto(h, "parse") /\ UNCHANGED <<mq, cuts>>
          BY <1>1, <3>1, <3>2, GotoCounted DEF Before
    <3>3. CASE Respond(h, 401)
      <4>1. ~Accepted(401)
            BY SMT DEF Accepted
      <4>. QED  BY <1>1, <3>1, <3>3, <4>1, RespondCounted
    <3>. QED  BY <2>1, <3>2, <3>3, Zenon DEF Authorize
  <2>2. CASE ParseRaw(h)
    <3>1. ingest[h].at = "parse" /\ UNCHANGED <<to, stored>>
          BY <2>2, SMT DEF ParseRaw, At
    <3>2. CASE Goto(h, "insert") /\ UNCHANGED <<mq, cuts>>
          BY <1>1, <3>1, <3>2, GotoCounted DEF Before
    <3>3. CASE Respond(h, 400)
      <4>1. ~Accepted(400)
            BY SMT DEF Accepted
      <4>. QED  BY <1>1, <3>1, <3>3, <4>1, RespondCounted
    <3>. QED  BY <2>2, <3>2, <3>3, Zenon DEF ParseRaw
  <2>3. CASE InsertEmail(h)
        BY <1>1, <2>3, InsertCounted
  <2>4. CASE Answer(h)
    <3>1. ingest[h].at = "answer" /\ UNCHANGED <<to, stored>> /\ Respond(h, 201)
          BY <2>4, SMT DEF Answer, At
    <3>. QED  BY <1>1, <3>1, RespondCounted DEF Accepted
  <2>5. CASE InsertFails(h)
    <3>1. /\ ingest[h].at = "insert" /\ UNCHANGED <<to, stored, cuts>>
          /\ ingest' = [ingest EXCEPT ![h] = Idle]
          /\ mq' = IF ingest[h].client THEN [mq EXCEPT ![ingest[h].msg] = "queued"] ELSE mq
          BY <2>5, SMT DEF InsertFails, At
    <3>. QED  BY <1>1, <3>1, EndCounted
  <2>6. CASE Disconnect(h)
        BY <1>1, <2>6, DisconnectCuts, CutCounted DEF TransferInv
  <2>. QED  BY <1>3, <2>1, <2>2, <2>3, <2>4, <2>5, <2>6, Zenon DEF Handle
<1>4. CASE APICrashes \/ PostfixStops \/ StackRotates
  <2>1. PICK S : CutKind(S)
        BY <1>4, CutsWithoutHandler DEF TransferInv
  <2>. QED  BY <1>1, <2>1, CutCounted
<1>5. CASE UNCHANGED mailVars
  <2>1. \A m \in Msgs : Orphans(m)' = Orphans(m) /\ (Acknowledged(m)' <=> Acknowledged(m))
        BY <1>5, Zenon DEF mailVars, Orphans, Acknowledged, Answering
  <2>. QED  BY <1>1, <1>5, <2>1, QuietCounted DEF mailVars
<1>6. CASE APIBoots \/ PostfixStarts \/ UNCHANGED vars
      BY <1>5, <1>6, Zenon DEF APIBoots, PostfixStarts, vars
<1>. QED  BY <1>2, <1>3, <1>4, <1>6, Zenon DEF Next

LEMMA TransferInvariant == Spec => []TransferInv
BY TransferInitInv, TransferNextInv, PTL DEF Spec

(* Type correctness of Delivery, with the keys: a message is active exactly *)
(* while one handler serves it for a client that waits.                     *)
THEOREM DeliveryTypeCorrect == Spec => []TypeOK
<1>1. TransferInv => TypeOK
  <2> SUFFICES ASSUME TransferInv PROVE TypeOK
      OBVIOUS
  <2>1. CredTypeOK
        BY DEF TransferInv, TypeInv, CredInv
  <2>2. \A m \in Msgs : mq[m] = "active" <=>
          \E h \in Handlers : ingest[h].msg = m /\ ingest[h].client
        BY DEF TransferInv, TypeInv, OneClient
  <2>. QED  BY <2>1, <2>2 DEF TransferInv, TypeInv, QueueTyped, Slot, TypeOK
<1>. QED  BY <1>1, TransferInvariant, PTL

(* While messages travel, the keys keep what Credentials promises: printed  *)
(* keys last, the API serves what is saved, Postfix holds the right key.    *)
THEOREM KeysWhileMailTravels ==
    Spec => [](CredTypeOK /\ PrintedKeysLast /\ ServesWhatIsSaved /\ TokenAccepted)
<1>1. TransferInv => CredTypeOK /\ PrintedKeysLast /\ ServesWhatIsSaved /\ TokenAccepted
  <2>1. CredInv => PrintedKeysLast
        BY DEF CredInv, PrintedFull, PrintedKeysLast, Full
  <2>2. CredInv => ServesWhatIsSaved
        BY DEF CredInv, BootShape, ServesWhatIsSaved, Serving
  <2>3. CredInv => TokenAccepted
        BY DEF CredInv, BootShape, TokenInFile, TokenAccepted, Serving
  <2>. QED  BY <2>1, <2>2, <2>3 DEF TransferInv, TypeInv, CredInv
<1>. QED  BY <1>1, TransferInvariant, PTL

(* A message is stored twice only after an attempt that was cut off: at most *)
(* one row more than there were lost answers, in any interleaving of         *)
(* orphaned handlers with new attempts.                                      *)
THEOREM RowsPaidFor == Spec => []OneRowPerAnswer
<1>1. TransferInv => OneRowPerAnswer
  <2> SUFFICES ASSUME TransferInv, NEW m \in Msgs, NEW a \in Rcpts
               PROVE  stored[m][a] <= 1 + cuts[m]
      BY DEF OneRowPerAnswer
  <2>1. cuts[m] \in Nat
        BY DEF TransferInv, TypeInv, QueueTyped
  <2>2. CASE mq[m] = "new" \/ a # Named(m)
    <3>1. stored[m][a] = 0
          BY <2>2 DEF TransferInv, RowsNamed
    <3>. QED  BY <2>1, <3>1, SMT
  <2>3. CASE mq[m] # "new" /\ a = Named(m)
    <3> DEFINE c == Cardinality(Orphans(m))
               r == stored[m][a]
    <3>1. c \in Nat
      <4>1. Orphans(m) \subseteq Handlers
            BY DEF Orphans
      <4>. QED  BY <4>1, OrphansFinite
    <3>2. r \in Nat
          BY DEF TransferInv, TypeInv, QueueTyped
    <3>3. r + c <= cuts[m] + (IF Acknowledged(m) THEN 1 ELSE 0)
          BY <2>3 DEF TransferInv, RowsBound, Bound
    <3> HIDE DEF r, c
    <3>4. r <= 1 + cuts[m]
          BY <2>1, <3>1, <3>2, <3>3, SMT
    <3>. QED  BY <3>4 DEF r
  <2>. QED  BY <2>2, <2>3
<1>. QED  BY <1>1, TransferInvariant, PTL

----------------------------------------------------------------------------
(* Delivery implements Transfer. *)

\* Per message, what Postfix makes of it and its rows.
LEMMA Mapped ==
    /\ fate = [m \in Msgs |-> fate[m]]
    /\ copies = [m \in Msgs |-> copies[m]]
    /\ \A m \in Msgs :
         /\ fate[m] = CASE mq[m] = "new" -> "unsent"
                        [] mq[m] = "done" -> "delivered"
                        [] mq[m] = "bounced" -> "returned"
                        [] OTHER -> "pending"
         /\ copies[m] = IF mq[m] = "new" THEN 0 ELSE stored[m][Named(m)]
BY DEF fate, copies

LEMMA InitMapped == Init => Handover!Init
<1> SUFFICES ASSUME Init PROVE Handover!Init
    OBVIOUS
<1>1. /\ \A m \in Msgs : mq[m] = "new"
      /\ cuts = [m \in Msgs |-> 0]
      BY DEF Init
<1>2. fate = [m \in Msgs |-> "unsent"]
      BY <1>1 DEF fate
<1>3. copies = [m \in Msgs |-> 0]
      BY <1>1 DEF copies
<1>. QED  BY <1>1, <1>2, <1>3 DEF Handover!Init

\* Steps that only move messages between states in which they are pending.
LEMMA StutterMapped ==
    ASSUME UNCHANGED <<to, stored, cuts>>,
           \A m \in Msgs : \/ mq'[m] = mq[m]
                           \/ /\ mq[m] \in {"queued", "active", "taken"}
                              /\ mq'[m] \in {"queued", "active", "taken"}
    PROVE  UNCHANGED <<fate, copies, cuts>>
<1>1. \A m : Named(m)' = Named(m)
      BY Zenon DEF Named
<1>2. \A m \in Msgs : fate'[m] = fate[m]
      BY Mapped, SMT DEF fate
<1>3. \A m \in Msgs : copies'[m] = copies[m]
      BY <1>1, SMT DEF copies
<1>4. fate' = fate
      BY <1>2, Zenon DEF fate
<1>5. copies' = copies
      BY <1>3, Zenon DEF copies
<1>. QED  BY <1>4, <1>5

LEMMA OneChanged ==
    ASSUME NEW f, f = [m \in Msgs |-> f[m]], NEW g, g = [m \in Msgs |-> g[m]],
           NEW n \in Msgs, NEW v, \A m \in Msgs : g[m] = IF m = n THEN v ELSE f[m]
    PROVE  g = [f EXCEPT ![n] = v]
BY Zenon

LEMMA ReceiveMapped ==
    ASSUME TransferInv, MailInv', NEW n \in Msgs, Receive(n)
    PROVE  Handover!Send(n)
<1>1. mq[n] = "new" /\ UNCHANGED <<stored, cuts>>
      BY Zenon DEF Receive
<1>2. \A m \in Msgs : mq'[m] = IF m = n THEN "queued" ELSE mq[m]
      BY SMT DEF Receive, TransferInv, TypeInv, QueueTyped
<1>3. \A m \in Msgs : m # n => to'[m] = to[m]
      BY SMT DEF Receive, TransferInv, TypeInv, QueueTyped
<1>4. fate[n] = "unsent" /\ fate' = [fate EXCEPT ![n] = "pending"]
  <2>1. \A m \in Msgs : fate'[m] = IF m = n THEN "pending" ELSE fate[m]
        BY <1>2, SMT DEF fate
  <2>2. fate' = [fate EXCEPT ![n] = "pending"]
        BY <2>1, Mapped, OneChanged, Zenon DEF fate
  <2>. QED  BY <1>1, <2>2, SMT DEF fate
<1>5. \A m \in Msgs : copies'[m] = copies[m]
  <2>1. copies'[n] = copies[n]
    <3>1. Named(n)' \in Rcpts
      <4>1. (to[n] # {} /\ to[n] \subseteq Rcpts)'
            BY <1>2, Zenon DEF MailInv, Addressed
      <4>2. (Named(n) \in to[n])'
            BY <4>1, Zenon DEF Named
      <4>. QED  BY <4>1, <4>2, Zenon
    <3>2. stored[n][Named(n)'] = 0
          BY <1>1, <3>1 DEF TransferInv, RowsNamed
    <3>. QED  BY <1>1, <1>2, <3>2, SMT DEF copies
  <2>2. ASSUME NEW m \in Msgs, m # n
        PROVE  copies'[m] = copies[m]
    <3>1. Named(m)' = Named(m)
          BY <1>3, <2>2, Zenon DEF Named
    <3>. QED  BY <1>1, <1>2, <2>2, <3>1, SMT DEF copies
  <2>. QED  BY <2>1, <2>2
<1>6. copies' = copies
      BY <1>5, Zenon DEF copies
<1>. QED  BY <1>1, <1>4, <1>6, Zenon DEF Handover!Send, Handover!Settle

\* A message is settled, the rows stay.
LEMMA SettleMapped ==
    ASSUME TransferInv, NEW n \in Msgs, NEW s \in {"done", "bounced"},
           mq[n] \in {"queued", "taken"}, mq' = [mq EXCEPT ![n] = s],
           UNCHANGED <<to, stored, cuts>>
    PROVE  Handover!Settle(n, "pending", IF s = "done" THEN "delivered" ELSE "returned")
<1>1. \A m \in Msgs : mq'[m] = IF m = n THEN s ELSE mq[m]
      BY SMT DEF TransferInv, TypeInv, QueueTyped
<1>2. \A m : Named(m)' = Named(m)
      BY Zenon DEF Named
<1>3. fate[n] = "pending"
      BY SMT DEF fate
<1> DEFINE g == IF s = "done" THEN "delivered" ELSE "returned"
<1>4. fate' = [fate EXCEPT ![n] = g]
  <2>1. \A m \in Msgs : fate'[m] = IF m = n THEN g ELSE fate[m]
        BY <1>1, SMT DEF fate
  <2> HIDE DEF g
  <2>. QED  BY <2>1, Mapped, OneChanged, Zenon DEF fate
<1>5. \A m \in Msgs : copies'[m] = copies[m]
      BY <1>1, <1>2, SMT DEF copies
<1>6. copies' = copies
      BY <1>5, Zenon DEF copies
<1>. QED  BY <1>3, <1>4, <1>6, Zenon DEF Handover!Settle

LEMMA RemoveMapped ==
    ASSUME TransferInv, NEW n \in Msgs, Remove(n)
    PROVE  Handover!Confirm(n)
<1>1. mq[n] = "taken" /\ mq' = [mq EXCEPT ![n] = "done"] /\ UNCHANGED <<to, stored, cuts>>
      BY Zenon DEF Remove
<1>2. Handover!Settle(n, "pending", "delivered")
      BY <1>1, SettleMapped
<1>3. stored[n][Named(n)] > 0
      BY <1>1, SMT DEF TransferInv, MailInv, Forgotten, Paid
<1>4. copies[n] > 0
      BY <1>1, <1>3, SMT DEF copies
<1>. QED  BY <1>2, <1>4, Zenon DEF Handover!Confirm

LEMMA BounceMapped ==
    ASSUME TransferInv, NEW n \in Msgs, Bounce(n)
    PROVE  Handover!Return(n)
<1>1. mq[n] = "queued" /\ mq' = [mq EXCEPT ![n] = "bounced"] /\ UNCHANGED <<to, stored, cuts>>
      BY Zenon DEF Bounce
<1>2. "bounced" # "done"
      OBVIOUS
<1>. QED  BY <1>1, <1>2, SettleMapped, Zenon DEF Handover!Return

\* The bound that makes the new row one that is paid for.
LEMMA RoomForRow ==
    ASSUME TransferInv, NEW h \in Handlers, ingest[h].at = "insert"
    PROVE  /\ ingest[h].msg \in Msgs /\ mq[ingest[h].msg] # "new"
           /\ stored[ingest[h].msg][Named(ingest[h].msg)] <= cuts[ingest[h].msg]
<1>1. PICK n : n = ingest[h].msg
      OBVIOUS
<1>2. n \in Msgs /\ mq[n] # "new"
      BY <1>1, Zenon DEF TransferInv, MailInv, Pending
<1>3. Named(n) \in Rcpts
      BY <1>2, NamedTyped DEF TransferInv
<1> DEFINE c == Cardinality(Orphans(n))
           r == stored[n][Named(n)]
<1>4. r \in Nat /\ cuts[n] \in Nat
      BY <1>2, <1>3 DEF TransferInv, TypeInv, QueueTyped
<1>5. Orphans(n) \subseteq Handlers
      BY DEF Orphans
<1>6. IsFiniteSet(Orphans(n)) /\ c \in Nat
      BY <1>5, OrphansFinite
<1>7. r + c <= cuts[n] + (IF Acknowledged(n) THEN 1 ELSE 0)
      BY <1>2 DEF TransferInv, RowsBound, Bound
<1>8. r <= cuts[n]
  <2>1. CASE ingest[h].client
    <3>1. ~Acknowledged(n)
          BY <1>1, <2>1, ClientAnswers DEF TransferInv
    <3> HIDE DEF c, r
    <3>. QED  BY <1>4, <1>6, <1>7, <3>1, SMT
  <2>2. CASE ~ingest[h].client
    <3>1. h \in Orphans(n)
          BY <1>1, <2>2 DEF Orphans, Before
    <3>2. c # 0
          BY <1>6, <3>1, FS_EmptySet
    <3> HIDE DEF c, r
    <3>. QED  BY <1>4, <1>6, <1>7, <3>2, SMT
  <2>. QED  BY <2>1, <2>2
<1>. QED  BY <1>1, <1>2, <1>8

LEMMA InsertMapped ==
    ASSUME TransferInv, NEW h \in Handlers, InsertEmail(h)
    PROVE  \E m \in Msgs : Handover!Store(m)
<1>1. PICK n : n = ingest[h].msg
      OBVIOUS
<1>2. /\ ingest[h].at = "insert" /\ UNCHANGED <<mq, to, cuts>>
      /\ stored' = [stored EXCEPT ![n][Named(n)] = @ + 1]
      BY <1>1, Zenon DEF InsertEmail, At
<1>3. n \in Msgs /\ mq[n] # "new" /\ stored[n][Named(n)] <= cuts[n]
      BY <1>1, <1>2, RoomForRow
<1>4. Named(n) \in Rcpts
      BY <1>3, NamedTyped DEF TransferInv
<1>5. \A m : Named(m)' = Named(m)
      BY <1>2, Zenon DEF Named
<1>6. /\ stored'[n][Named(n)] = stored[n][Named(n)] + 1
      /\ \A m \in Msgs : m # n => stored'[m] = stored[m]
      BY <1>2, <1>3, <1>4, SMT DEF TransferInv, TypeInv, QueueTyped
<1>7. fate[n] # "unsent"
      BY <1>3, SMT DEF fate
<1>8. fate' = fate
      BY <1>2, Zenon DEF fate
<1>9. copies[n] = stored[n][Named(n)] /\ copies[n] <= cuts[n]
      BY <1>3, SMT DEF copies
<1>10. \A m \in Msgs : copies'[m] = IF m = n THEN copies[n] + 1 ELSE copies[m]
  <2>1. copies'[n] = copies[n] + 1
        BY <1>2, <1>3, <1>5, <1>6, <1>9, SMT DEF copies
  <2>2. ASSUME NEW m \in Msgs, m # n
        PROVE  copies'[m] = copies[m]
        BY <1>2, <1>5, <1>6, <2>2, SMT DEF copies
  <2>. QED  BY <2>1, <2>2
<1>11. copies' = [copies EXCEPT ![n] = copies[n] + 1]
      BY <1>3, <1>10, Mapped, OneChanged, Zenon DEF copies
<1>. QED  BY <1>2, <1>3, <1>7, <1>8, <1>9, <1>11, Zenon DEF Handover!Store

LEMMA CutMapped ==
    ASSUME TransferInv, NEW S, CutKind(S)
    PROVE  \E T \in SUBSET Msgs : Handover!CutOff(T)
<1>1. S \subseteq Msgs /\ \A m \in S : mq[m] \in {"active", "taken"}
      BY DEF CutKind, InState
<1>2. \A m \in S : fate[m] = "pending"
      BY <1>1, SMT DEF fate
<1>3. /\ \A m \in Msgs : mq'[m] = IF m \in S THEN "queued" ELSE mq[m]
      /\ cuts' = [m \in Msgs |-> IF m \in S THEN cuts[m] + 1 ELSE cuts[m]]
      /\ UNCHANGED <<to, stored>>
      BY SMT DEF CutKind, Cut
<1>4. \A m : Named(m)' = Named(m)
      BY <1>3, Zenon DEF Named
<1>5. \A m \in Msgs : fate'[m] = fate[m] /\ copies'[m] = copies[m]
      BY <1>1, <1>3, <1>4, SMT DEF fate, copies
<1>6. fate' = fate
      BY <1>5, Zenon DEF fate
<1>7. copies' = copies
      BY <1>5, Zenon DEF copies
<1>8. Handover!CutOff(S)
      BY <1>2, <1>3, <1>6, <1>7, Zenon DEF Handover!CutOff
<1>. QED  BY <1>1, <1>8

\* A handler moves its message between states in which it is pending, or not.
LEMMA HandlerMapped ==
    ASSUME TransferInv, NEW h \in Handlers, ingest[h].at # "idle",
           UNCHANGED <<to, stored, cuts>>, NEW s \in {"queued", "taken"},
           \/ UNCHANGED mq
           \/ mq' = IF ingest[h].client THEN [mq EXCEPT ![ingest[h].msg] = s] ELSE mq
    PROVE  UNCHANGED <<fate, copies, cuts>>
<1>1. ingest[h].client => mq[ingest[h].msg] = "active"
      BY DEF TransferInv, TypeInv, OneClient
<1>2. ASSUME NEW m \in Msgs
      PROVE  \/ mq'[m] = mq[m]
             \/ /\ mq[m] \in {"queued", "active", "taken"}
                /\ mq'[m] \in {"queued", "active", "taken"}
      BY <1>1, SMT DEF TransferInv, TypeInv, QueueTyped
<1>. QED  BY <1>2, StutterMapped

LEMMA NextMapped ==
    TransferInv /\ MailInv' /\ [Next]_vars => [Handover!Next]_<<fate, copies, cuts>>
<1> SUFFICES ASSUME TransferInv, MailInv', [Next]_vars
             PROVE  Handover!Next \/ UNCHANGED <<fate, copies, cuts>>
    OBVIOUS
<1>1. ASSUME NEW m \in Msgs, Receive(m) \/ Remove(m) \/ Bounce(m)
      PROVE  Handover!Next
      BY <1>1, ReceiveMapped, RemoveMapped, BounceMapped, Zenon DEF Handover!Next
<1>2. ASSUME NEW m \in Msgs, Attempt(m)
      PROVE  UNCHANGED <<fate, copies, cuts>>
  <2>1. \A k \in Msgs : mq'[k] = IF k = m THEN "active" ELSE mq[k]
        BY <1>2, SMT DEF Attempt, TransferInv, TypeInv, QueueTyped
  <2>2. mq[m] = "queued" /\ UNCHANGED <<to, stored, cuts>>
        BY <1>2, Zenon DEF Attempt
  <2>. QED  BY <2>1, <2>2, StutterMapped
<1>3. ASSUME NEW h \in Handlers, Authorize(h) \/ ParseRaw(h) \/ Answer(h) \/ InsertFails(h)
      PROVE  UNCHANGED <<fate, copies, cuts>>
  <2>1. ingest[h].at # "idle" /\ UNCHANGED <<to, stored, cuts>>
        BY <1>3, SMT DEF Authorize, ParseRaw, Answer, InsertFails, At, Respond
  <2>2. \E s \in {"queued", "taken"} :
          \/ UNCHANGED mq
          \/ mq' = IF ingest[h].client THEN [mq EXCEPT ![ingest[h].msg] = s] ELSE mq
        BY <1>3, Zenon DEF Authorize, ParseRaw, Answer, InsertFails, Respond
  <2>. QED  BY <2>1, <2>2, HandlerMapped
<1>4. ASSUME NEW h \in Handlers, InsertEmail(h)
      PROVE  Handover!Next
      BY <1>4, InsertMapped, Zenon DEF Handover!Next
<1>5. ASSUME NEW h \in Handlers, Disconnect(h)
      PROVE  Handover!Next
  <2>1. CutKind({ingest[h].msg})
        BY <1>5, DisconnectCuts DEF TransferInv
  <2>. QED  BY <2>1, CutMapped, Zenon DEF Handover!Next
<1>6. CASE APICrashes \/ PostfixStops \/ StackRotates
  <2>1. PICK S : CutKind(S)
        BY <1>6, CutsWithoutHandler DEF TransferInv
  <2>. QED  BY <2>1, CutMapped, Zenon DEF Handover!Next
<1>7. CASE APIBoots \/ PostfixStarts \/ UNCHANGED vars
  <2>1. UNCHANGED <<mq, to, stored, cuts>>
        BY <1>7, Zenon DEF APIBoots, PostfixStarts, vars, mailVars
  <2>. QED  BY <2>1, StutterMapped
<1>. QED  BY <1>1, <1>2, <1>3, <1>4, <1>5, <1>6, <1>7, Zenon DEF Next, Handle

(* The queue, the pipe, the connection and the ingest handler hand mail over *)
(* at least once, and once more at most for each attempt that was cut off:   *)
(* Delivery implements Transfer.                                             *)
THEOREM HandoverIsAtLeastOnce == Spec => AtLeastOnce
<1>1. Init => Handover!Init
      BY InitMapped
<1>2. TransferInv /\ TransferInv' /\ [Next]_vars => [Handover!Next]_<<fate, copies, cuts>>
      BY NextMapped DEF TransferInv
<1>3. Spec => []TransferInv
      BY TransferInvariant
<1>. QED  BY <1>1, <1>2, <1>3, PTL DEF Spec, AtLeastOnce, Handover!Spec
============================================================================
