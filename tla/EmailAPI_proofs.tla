-------------------------- MODULE EmailAPI_proofs --------------------------
(* Proofs about the table and the handlers, for every number of requests,  *)
(* emails, tokens and instants: first what each statement of EmailStore    *)
(* does to the table, then what each step of a handler does to its         *)
(* request, so that the proof of an action names statements and steps and  *)
(* does not expand them.                                                   *)
EXTENDS EmailAPI, TLAPS
----------------------------------------------------------------------------
(* EmailStore: what each statement does to the table.  The proofs about    *)
(* the handlers cite these lemmas instead of expanding the statements.     *)

(* The table starts empty and well typed. *)
LEMMA StoreInitType == StoreInit => StoreTypeOK
  BY BoundsAssumption, SMT
  DEF StoreInit, StoreTypeOK, Live, Ids, Toks, Time

(* The insert adds one row, whose id and tokens were never used. *)
LEMMA InsertRowType ==
  ASSUME StoreTypeOK, NEW at \in Time, NEW a \in BOOLEAN, InsertRow(at, a)
  PROVE  /\ StoreTypeOK'
         /\ nextId \in Ids /\ nextId \notin Live
         /\ nextTok \in Toks /\ nextTok' = nextTok + 2 /\ nextTok' \in Nat
         /\ now' = now
         /\ Live' = Live \cup {nextId}
         /\ emails'[nextId].preview = nextTok
         /\ ~emails'[nextId].kept
         /\ \A id \in Live : emails'[id] = emails[id]
<1>1. nextId \in Ids /\ nextId \notin Live /\ nextTok \in Toks
  BY BoundsAssumption, SMT DEF StoreTypeOK, InsertRow, Ids, Toks, Live
<1> DEFINE new == NewRow(at, a)
<1>2. new \in Row
  BY <1>1, SMT DEF Row, InsertRow, NewRow
<1>3. /\ emails' = [id \in Live \cup {nextId} |->
                      IF id = nextId THEN new ELSE emails[id]]
      /\ nextId' = nextId + 1 /\ nextTok' = nextTok + 2 /\ now' = now
      /\ nextTok + 1 \in Toks
  BY DEF InsertRow
<1> HIDE DEF new
<1>4. Live' = Live \cup {nextId}
  BY <1>3 DEF Live
<1>5. emails'[nextId] = new /\ \A id \in Live : emails'[id] = emails[id]
  BY <1>1, <1>3
<1>6. emails' \in [Live' -> Row]
  BY <1>2, <1>3, <1>4, <1>5 DEF StoreTypeOK
<1>7. StoreTypeOK'
  BY <1>1, <1>3, <1>4, <1>6, BoundsAssumption, SMT
  DEF StoreTypeOK, Ids, Toks, Time
<1>8. new.preview = nextTok /\ ~new.kept
  BY DEF new, NewRow
<1>9. nextTok' \in Nat
  BY <1>1, <1>3, BoundsAssumption, SMT DEF Toks
<1> QED
  BY <1>1, <1>3, <1>4, <1>5, <1>7, <1>8, <1>9

(* The UPDATEs of one row leave the set of rows alone. *)
LEMMA ClearPreviewType ==
  ASSUME StoreTypeOK, NEW id \in Live, ClearPreview(id)
  PROVE  /\ StoreTypeOK' /\ Live' = Live
         /\ nextTok' = nextTok /\ now' = now
         /\ emails'[id].preview = Null
         /\ \A i \in Live : emails'[i].kept = emails[i].kept
         /\ \A i \in Live \ {id} : emails'[i] = emails[i]
  BY SMT DEF StoreTypeOK, ClearPreview, Live, Row

LEMMA SetPreviewType ==
  ASSUME StoreTypeOK, NEW id \in Ids, SetPreview(id)
  PROVE  /\ StoreTypeOK' /\ Live' = Live
         /\ nextTok \in Toks /\ nextTok' = nextTok + 1 /\ now' = now
         /\ id \in Live => emails'[id].preview = nextTok
         /\ \A i \in Live : emails'[i].kept = emails[i].kept
         /\ \A i \in Live \ {id} : emails'[i] = emails[i]
<1>1. nextTok \in Toks /\ nextTok' = nextTok + 1 /\ nextId' = nextId /\ now' = now
  BY DEF SetPreview
<1>2. CASE id \in Live
  <2>1. emails' = [emails EXCEPT ![id].preview = nextTok]
    BY <1>2 DEF SetPreview
  <2>2. /\ emails' \in [Live -> Row] /\ Live' = Live
        /\ emails'[id].preview = nextTok
        /\ \A i \in Live : emails'[i].kept = emails[i].kept
        /\ \A i \in Live \ {id} : emails'[i] = emails[i]
    BY <1>1, <1>2, <2>1, SMT DEF StoreTypeOK, Live, Row
  <2> QED
    BY <1>1, <2>2, BoundsAssumption, SMT DEF StoreTypeOK, Toks
<1>3. CASE id \notin Live
  <2>1. emails' = emails /\ Live' = Live
    BY <1>3 DEF SetPreview, Live
  <2> QED
    BY <1>1, <1>3, <2>1, BoundsAssumption, SMT DEF StoreTypeOK, Toks
<1> QED
  BY <1>2, <1>3

LEMMA SetKeptType ==
  ASSUME StoreTypeOK, NEW id \in Live, NEW flag \in BOOLEAN, SetKept(id, flag)
  PROVE  /\ StoreTypeOK' /\ Live' = Live
         /\ nextTok' = nextTok /\ now' = now
         /\ emails'[id].kept = flag
         /\ \A i \in Live : emails'[i].preview = emails[i].preview
         /\ \A i \in Live \ {id} : emails'[i] = emails[i]
  BY SMT DEF StoreTypeOK, SetKept, Live, Row

LEMMA SetOpenedType ==
  ASSUME StoreTypeOK, NEW id \in Live, NEW at \in Time, SetOpened(id, at)
  PROVE  /\ StoreTypeOK' /\ Live' = Live
         /\ nextTok' = nextTok /\ now' = now
         /\ \A i \in Live : /\ emails'[i].preview = emails[i].preview
                            /\ emails'[i].kept = emails[i].kept
  BY SMT DEF StoreTypeOK, SetOpened, Live, Row

(* A DELETE removes rows and changes none of the others. *)
LEMMA DeleteRowsType ==
  ASSUME StoreTypeOK, NEW S, DeleteRows(S)
  PROVE  /\ StoreTypeOK' /\ Live' = Live \ S
         /\ nextTok' = nextTok /\ now' = now
         /\ \A i \in Live \ S : emails'[i] = emails[i]
  BY SMT DEF StoreTypeOK, DeleteRows, Live

LEMMA TickType ==
  ASSUME StoreTypeOK, Tick
  PROVE  StoreTypeOK' /\ emails' = emails /\ nextTok' = nextTok
  BY BoundsAssumption, SMT DEF StoreTypeOK, Tick, Live, Time

(* A statement that only reads leaves the table well typed. *)
LEMMA UnchangedType ==
  ASSUME StoreTypeOK, UNCHANGED storeVars
  PROVE  /\ StoreTypeOK' /\ Live' = Live /\ emails' = emails
         /\ nextTok' = nextTok /\ now' = now
  BY DEF StoreTypeOK, storeVars, Live
----------------------------------------------------------------------------
(* The handlers: types. *)

\* The two parts of TypeOK besides the table's.
ReqType ==
    /\ pc \in [Reqs -> Labels]
    /\ call \in [Reqs -> Call]
    /\ reply \in [Reqs -> Reply]

RestType ==
    /\ cpc \in {"idle", "delete"}
    /\ cutoff \in Int
    /\ mails \in 0 .. MaxMail
    /\ regens \in 0 .. MaxRegen
    /\ events \in [Ids -> [received : Nat, opened : Nat]]
    /\ served \in [Toks -> Nat]
    /\ promised \subseteq Ids
    /\ purged \subseteq Ids

LEMMA TypeParts == TypeOK <=> StoreTypeOK /\ ReqType /\ RestType
  BY DEF TypeOK, ReqType, RestType

(* The control-flow helpers keep the requests well typed. *)
LEMMA GotoType ==
  ASSUME ReqType, NEW r \in Reqs, NEW s \in Labels, Goto(r, s)
  PROVE  pc' \in [Reqs -> Labels] /\ pc'[r] = s
         /\ \A q \in Reqs \ {r} : pc'[q] = pc[q]
  BY DEF ReqType, Goto

LEMMA ContinueType ==
  ASSUME ReqType, NEW r \in Reqs, NEW s \in Labels, Continue(r, s)
  PROVE  /\ ReqType' /\ pc'[r] = s
         /\ \A q \in Reqs \ {r} : pc'[q] = pc[q]
         /\ call' = call /\ reply' = reply
  BY GotoType DEF ReqType, Continue

LEMMA AnswerType ==
  ASSUME ReqType, NEW r \in Reqs, NEW c \in Codes, Answer(r, c)
  PROVE  /\ ReqType' /\ pc'[r] = "idle"
         /\ \A q \in Reqs \ {r} : pc'[q] = pc[q]
         /\ call' = call
<1>1. "idle" \in Labels /\ Goto(r, "idle") /\ call' = call
  BY DEF Labels, Answer
<1>2. reply' \in [Reqs -> Reply]
  BY SMT DEF Answer, ReqType, Reply
<1> QED
  BY <1>1, <1>2, GotoType DEF ReqType

LEMMA AsideType ==
  ASSUME RestType, Aside
  PROVE  RestType'
  BY DEF RestType, Aside, cleanVars, bounds, history

LEMMA ContestedType ==
  ASSUME NEW c \in Call
  PROVE  /\ [c EXCEPT !.contested = TRUE] \in Call
         /\ [c EXCEPT !.contested = TRUE].op = c.op
         /\ [c EXCEPT !.contested = TRUE].id = c.id
         /\ [c EXCEPT !.contested = TRUE].cred = c.cred
         /\ [c EXCEPT !.contested = TRUE].existed = c.existed
         /\ [c EXCEPT !.contested = TRUE].fault = c.fault
         /\ [c EXCEPT !.contested = TRUE].contested
  BY Zenon DEF Call

LEMMA BeginType ==
  ASSUME StoreTypeOK, ReqType, NEW r \in Reqs, NEW op \in AllOps,
         NEW id \in Ids, NEW cred \in Creds, NEW s \in Labels,
         Begin(r, op, id, cred, s)
  PROVE  /\ StoreTypeOK' /\ ReqType'
         /\ pc[r] = "idle" /\ pc'[r] = s
         /\ \A q \in Reqs \ {r} : pc'[q] = pc[q]
         /\ call'[r].op = op /\ call'[r].id = id /\ call'[r].cred = cred
         /\ call'[r].existed = (id \in Live) /\ reply'[r] = NoReply
         /\ call'[r].contested <=> Rivals(r, op, id) # {}
         /\ \A q \in Reqs \ {r} :
              /\ reply'[q] = reply[q]
              /\ call'[q].op = call[q].op
              /\ call'[q].id = call[q].id
              /\ call'[q].cred = call[q].cred
              /\ call'[q].existed = call[q].existed
              /\ call'[q].fault = call[q].fault
              /\ call'[q].contested <=> call[q].contested \/ q \in Rivals(r, op, id)
         /\ UNCHANGED <<emails, nextTok, cleanVars, events, served, purged>>
<1>1. StoreTypeOK' /\ UNCHANGED <<emails, nextTok, cleanVars, events, served, purged>>
  BY UnchangedType DEF Begin, storeVars
<1>2. pc[r] = "idle" /\ Goto(r, s)
  BY DEF Begin, At
<1>3. /\ reply' \in [Reqs -> Reply] /\ reply'[r] = NoReply
      /\ \A q \in Reqs \ {r} : reply'[q] = reply[q]
  <2>1. NoReply \in Reply
    BY SMT DEF NoReply, Reply, Codes
  <2> QED
    BY <2>1 DEF Begin, ReqType
<1> DEFINE new == [op |-> op, id |-> id, cred |-> cred, at |-> now,
                   existed |-> id \in Live,
                   contested |-> Rivals(r, op, id) # {},
                   fault |-> FALSE]
           upd(q) == IF q = r THEN new
                     ELSE IF q \in Rivals(r, op, id)
                       THEN [call[q] EXCEPT !.contested = TRUE]
                       ELSE call[q]
<1>4. call' = [q \in Reqs |-> upd(q)]
  BY DEF Begin
<1>5. new \in Call
  BY SMT DEF Call, StoreTypeOK
<1>6. \A q \in Reqs : call[q] \in Call
  BY DEF ReqType
<1>7. \A q \in Reqs \ {r} :
        /\ upd(q) \in Call
        /\ upd(q).op = call[q].op
        /\ upd(q).id = call[q].id
        /\ upd(q).cred = call[q].cred
        /\ upd(q).existed = call[q].existed
        /\ upd(q).fault = call[q].fault
        /\ upd(q).contested <=> call[q].contested \/ q \in Rivals(r, op, id)
  <2> TAKE q \in Reqs \ {r}
  <2>1. CASE q \in Rivals(r, op, id)
    <3> DEFINE c == [call[q] EXCEPT !.contested = TRUE]
    <3>1. upd(q) = c
      BY <2>1
    <3>2. call[q] \in Call
      BY <1>6
    <3>3. /\ c \in Call /\ c.op = call[q].op /\ c.id = call[q].id
          /\ c.cred = call[q].cred /\ c.existed = call[q].existed
          /\ c.fault = call[q].fault /\ c.contested
      BY <3>2, ContestedType
    <3> QED
      BY <2>1, <3>1, <3>3
  <2>2. CASE q \notin Rivals(r, op, id)
    BY <1>6, <2>2, SMT
  <2> QED
    BY <2>1, <2>2
<1>8. /\ upd(r).op = op /\ upd(r).id = id /\ upd(r).cred = cred
      /\ upd(r).existed = (id \in Live)
      /\ upd(r).contested <=> Rivals(r, op, id) # {}
  <2>1. upd(r) = new
    OBVIOUS
  <2>2. new.op = op /\ new.id = id /\ new.cred = cred
    OBVIOUS
  <2>3. /\ new.contested = (Rivals(r, op, id) # {})
        /\ new.existed = (id \in Live)
    OBVIOUS
  <2> HIDE DEF new, upd
  <2> QED
    BY <2>1, <2>2, <2>3
<1>9. upd(r) \in Call
  BY <1>5
<1> HIDE DEF new, upd
<1>10. call' \in [Reqs -> Call]
  BY <1>4, <1>7, <1>9
<1>11. ReqType'
  BY <1>2, <1>3, <1>10, GotoType DEF ReqType
<1> QED
  BY <1>1, <1>2, <1>3, <1>4, <1>7, <1>8, <1>11, GotoType
----------------------------------------------------------------------------
(* Type correctness. *)

LEMMA LabelFacts ==
  /\ {"insert", "consume", "track", "trackSel", "openHook", "row", "attach",
      "exists", "checkKeep", "keep", "keepSel", "unkeep", "unkeepSel",
      "regen", "links", "delete", "deleteMany", "notify", "idle"} \subseteq Labels
  /\ {0, 200, 201, 401, 404, 500} \subseteq Codes
  /\ AllOps \subseteq AllOps \cup {"none"}
  /\ ApiKey \in Creds
  /\ 1 \in Ids
  BY BoundsAssumption, SMT
  DEF Labels, Statements, Codes, AllOps, ApiKey, Creds, Ids

(* The fields of a call that statements read. *)
LEMMA CallFields ==
  ASSUME TypeOK, NEW r \in Reqs
  PROVE  call[r].id \in Ids /\ call[r].cred \in Nat
<1>1. call[r] \in Call
  BY Zenon DEF TypeOK
<1>2. call[r].id \in Ids /\ call[r].cred \in Creds
  BY <1>1 DEF Call
<1>3. Creds \subseteq Nat
  BY BoundsAssumption, SMT DEF Creds, Toks, ApiKey
<1> QED
  BY <1>2, <1>3

(* Where the statements of a keep and an unkeep start and what they go on to. *)
LEMMA KeepControl ==
  ASSUME NEW r \in Reqs
  PROVE  /\ KeepEmail(r) =>
              pc[r] = "keep" /\ Aside /\ (Continue(r, "row") \/ Continue(r, "keepSel"))
         /\ KeepEmailSelect(r) =>
              pc[r] = "keepSel" /\ Aside /\ (Continue(r, "row") \/ Answer(r, 404))
         /\ UnkeepEmail(r) =>
              pc[r] = "unkeep" /\ Aside /\ (Continue(r, "row") \/ Continue(r, "unkeepSel"))
         /\ UnkeepEmailSelect(r) =>
              pc[r] = "unkeepSel" /\ Aside /\ (Continue(r, "row") \/ Answer(r, 404))
<1>1. KeepEmail(r) =>
        pc[r] = "keep" /\ Aside /\ (Continue(r, "row") \/ Continue(r, "keepSel"))
  BY DEF KeepEmail, At
<1>2. KeepEmailSelect(r) =>
        pc[r] = "keepSel" /\ Aside /\ (Continue(r, "row") \/ Answer(r, 404))
  BY DEF KeepEmailSelect, At
<1>3. UnkeepEmail(r) =>
        pc[r] = "unkeep" /\ Aside /\ (Continue(r, "row") \/ Continue(r, "unkeepSel"))
  BY DEF UnkeepEmail, At
<1>4. UnkeepEmailSelect(r) =>
        pc[r] = "unkeepSel" /\ Aside /\ (Continue(r, "row") \/ Answer(r, 404))
  BY DEF UnkeepEmailSelect, At
<1> QED
  BY <1>1, <1>2, <1>3, <1>4

LEMMA CodeType ==
  ASSUME NEW c \in Codes, NEW p \in Reply
  PROVE  [p EXCEPT !.code = c] \in Reply
  BY Zenon DEF Reply

LEMMA InitType == Init => TypeOK
<1> SUFFICES ASSUME Init PROVE TypeOK
  OBVIOUS
<1>1. StoreTypeOK
  BY StoreInitType DEF Init
<1>2. NoCall \in Call
  BY LabelFacts, BoundsAssumption, SMT DEF NoCall, Call, Time
<1>3. NoReply \in Reply
  BY SMT DEF NoReply, Reply, Codes
<1>4. ReqType
  BY <1>2, <1>3, LabelFacts DEF Init, ReqType
<1>5. RestType
  BY BoundsAssumption, SMT DEF Init, RestType
<1> QED
  BY <1>1, <1>4, <1>5, TypeParts

(* What a request's arrival may touch besides its own slot. *)
LEMMA StartType ==
  ASSUME TypeOK, NEW r \in Reqs, Start(r)
  PROVE  TypeOK'
<1>1. StoreTypeOK /\ ReqType /\ RestType
  BY TypeParts
<1>2. ASSUME NEW op \in AllOps, NEW id \in Ids, NEW cred \in Creds,
             NEW s \in Labels, Begin(r, op, id, cred, s),
             mails' \in 0 .. MaxMail, regens' \in 0 .. MaxRegen,
             promised' \subseteq Ids
      PROVE  TypeOK'
  <2>1. StoreTypeOK' /\ ReqType' /\ UNCHANGED <<cleanVars, events, served, purged>>
    BY <1>1, <1>2, BeginType
  <2>2. RestType'
    BY <1>1, <1>2, <2>1 DEF RestType, cleanVars
  <2> QED
    BY <2>1, <2>2, TypeParts DEF TypeOK, ReqType, RestType
<1>3. ASSUME NEW op \in AllOps, NEW id \in Ids, NEW cred \in Creds,
             NEW s \in Labels, BeginPlain(r, op, id, cred, s)
      PROVE  TypeOK'
  BY <1>1, <1>2, <1>3 DEF BeginPlain, bounds, RestType
<1>4. CASE StartIngest(r)
  <2>1. mails' \in 0 .. MaxMail
    BY <1>1, <1>4, BoundsAssumption, SMT DEF StartIngest, RestType
  <2>2. "ingest" \in AllOps
    BY DEF AllOps
  <2> QED
    BY <1>1, <1>2, <1>4, <2>1, <2>2, LabelFacts DEF StartIngest, RestType
<1>5. CASE StartPreview(r)
  BY <1>3, <1>5, LabelFacts DEF StartPreview, AllOps
<1>6. CASE StartGet(r)
  BY <1>3, <1>6, LabelFacts DEF StartGet, AllOps
<1>7. CASE StartRaw(r)
  BY <1>3, <1>7, LabelFacts DEF StartRaw, AllOps
<1>8. CASE StartHead(r)
  BY <1>3, <1>8, LabelFacts DEF StartHead, AllOps
<1>9. CASE StartKeep(r)
  BY <1>3, <1>9, LabelFacts DEF StartKeep, AllOps
<1>10. CASE StartUnkeep(r)
  BY <1>1, <1>2, <1>10, LabelFacts DEF StartUnkeep, AllOps, bounds, RestType
<1>11. CASE StartPreviewToken(r)
  <2>1. regens' \in 0 .. MaxRegen
    BY <1>1, <1>11, BoundsAssumption, SMT DEF StartPreviewToken, RestType
  <2>2. "token" \in AllOps
    BY DEF AllOps
  <2> QED
    BY <1>1, <1>2, <1>11, <2>1, <2>2, LabelFacts DEF StartPreviewToken, RestType
<1>12. CASE StartDelete(r)
  BY <1>3, <1>12, LabelFacts DEF StartDelete, AllOps
<1>13. CASE StartDeleteMany(r)
  BY <1>3, <1>13, LabelFacts DEF StartDeleteMany, AllOps
<1> QED
  BY <1>4, <1>5, <1>6, <1>7, <1>8, <1>9, <1>10, <1>11, <1>12, <1>13 DEF Start

LEMMA StepType ==
  ASSUME TypeOK, NEW r \in Reqs, Step(r)
  PROVE  TypeOK'
<1>1. StoreTypeOK /\ ReqType /\ RestType
  BY TypeParts
<1>2. ASSUME StoreTypeOK', ReqType', Aside
      PROVE  TypeOK'
  BY <1>1, <1>2, AsideType DEF TypeOK, ReqType, RestType
<1>3. /\ call[r] \in Call /\ reply[r] \in Reply
      /\ Email(r) \in Ids /\ call[r].cred \in Creds /\ call[r].at \in Time
  BY <1>1, SMT DEF ReqType, Call, Email
<1>4. /\ UNCHANGED storeVars => StoreTypeOK'
      /\ \A s \in Labels : Continue(r, s) => ReqType'
      /\ \A c \in Codes : Answer(r, c) => ReqType'
  BY <1>1, UnchangedType, ContinueType, AnswerType
<1>5. CASE Insert(r)
  <2>1. PICK a \in Mails : InsertRow(call[r].at, a)
    BY <1>5 DEF Insert
  <2>2. a \in BOOLEAN
    BY APIAssumption
  <2>3. StoreTypeOK' /\ nextId \in Ids
    BY <1>1, <1>3, <2>1, <2>2, InsertRowType
  <2>4. call' = [call EXCEPT ![r].id = nextId] /\ reply' = reply
    BY <1>5 DEF Insert
  <2>5. [call[r] EXCEPT !.id = nextId] \in Call
    BY <1>3, <2>3, Zenon DEF Call
  <2>6. call' \in [Reqs -> Call]
    BY <1>1, <2>4, <2>5 DEF ReqType
  <2>7. ReqType'
    BY <1>1, <1>5, <2>4, <2>6, GotoType, LabelFacts DEF ReqType, Insert
  <2> QED
    BY <1>2, <1>5, <2>3, <2>7 DEF Insert
<1>6. CASE EmailReceived(r)
  <2>1. StoreTypeOK' /\ ReqType'
    BY <1>4, <1>6, LabelFacts DEF EmailReceived
  <2>2. events' \in [Ids -> [received : Nat, opened : Nat]]
    BY <1>1, <1>3, <1>6, SMT DEF EmailReceived, RestType
  <2>3. RestType'
    BY <1>1, <1>6, <2>2 DEF EmailReceived, RestType, cleanVars, bounds, history
  <2> QED
    BY <2>1, <2>3, TypeParts DEF TypeOK, ReqType, RestType
<1>7. CASE ConsumePreviewOTK(r)
  <2>1. CASE ~HoldsPreview(Email(r), call[r].cred)
    BY <1>2, <1>4, <1>7, <2>1, LabelFacts DEF ConsumePreviewOTK
  <2>2. CASE HoldsPreview(Email(r), call[r].cred)
    <3>1. StoreTypeOK'
      BY <1>1, <1>7, <2>2, ClearPreviewType DEF ConsumePreviewOTK, HoldsPreview
    <3>2. [call[r] EXCEPT !.at = now] \in Call
      BY <1>1, <1>3, Zenon DEF Call, StoreTypeOK
    <3>3. call' = [call EXCEPT ![r].at = now] /\ reply' = reply
      BY <1>7, <2>2 DEF ConsumePreviewOTK
    <3>4. ReqType'
      BY <1>1, <1>7, <2>2, <3>2, <3>3, GotoType, LabelFacts
      DEF ReqType, ConsumePreviewOTK
    <3> QED
      BY <1>2, <1>7, <3>1, <3>4 DEF ConsumePreviewOTK
  <2> QED
    BY <2>1, <2>2
<1>8. CASE ValidKeepOTK(r)
  BY <1>2, <1>4, <1>8, LabelFacts DEF ValidKeepOTK
<1>9. CASE TrackEmailOpen(r)
  <2>1. StoreTypeOK'
    BY <1>1, <1>3, <1>4, <1>9, SetOpenedType DEF TrackEmailOpen, Unopened
  <2> QED
    BY <1>2, <1>4, <1>9, <2>1, LabelFacts DEF TrackEmailOpen
<1>10. CASE TrackEmailOpenSelect(r)
  BY <1>2, <1>4, <1>10, LabelFacts DEF TrackEmailOpenSelect
<1>11. CASE EmailOpened(r)
  <2>1. StoreTypeOK' /\ ReqType'
    BY <1>4, <1>11, LabelFacts DEF EmailOpened
  <2>2. events' \in [Ids -> [received : Nat, opened : Nat]]
    BY <1>1, <1>3, <1>11, SMT DEF EmailOpened, RestType
  <2>3. RestType'
    BY <1>1, <1>11, <2>2 DEF EmailOpened, RestType, cleanVars, bounds, history
  <2> QED
    BY <2>1, <2>3, TypeParts DEF TypeOK, ReqType, RestType
<1>12. CASE GetEmailRow(r)
  <2>1. CASE Email(r) \notin Live
    BY <1>2, <1>4, <1>12, <2>1, LabelFacts DEF GetEmailRow
  <2>2. CASE Email(r) \in Live
    <3>1. reply' = [reply EXCEPT ![r].kept = IsKept(Email(r))] /\ call' = call
      BY <1>12, <2>2 DEF GetEmailRow
    <3>2. IsKept(Email(r)) \in BOOLEAN
      BY DEF IsKept
    <3>3. [reply[r] EXCEPT !.kept = IsKept(Email(r))] \in Reply
      BY <1>3, <3>2, Zenon DEF Reply
    <3>4. reply' \in [Reqs -> Reply]
      BY <1>1, <3>1, <3>3 DEF ReqType
    <3>5. ReqType'
      BY <1>1, <1>12, <2>2, <3>1, <3>4, GotoType, LabelFacts
      DEF ReqType, GetEmailRow
    <3> QED
      BY <1>2, <1>4, <1>12, <3>5 DEF GetEmailRow
  <2> QED
    BY <2>1, <2>2
<1>13. CASE AttachmentsFor(r)
  <2> DEFINE a == Email(r) \in Live /\ emails[Email(r)].atts
  <2>1. reply' = [reply EXCEPT ![r].code = 200, ![r].atts = a] /\ call' = call
    BY <1>13 DEF AttachmentsFor
  <2>2. a \in BOOLEAN
    BY <1>1, SMT DEF StoreTypeOK, Row
  <2> HIDE DEF a
  <2>3. [[reply[r] EXCEPT !.code = 200] EXCEPT !.atts = a] \in Reply
    <3>1. [reply[r] EXCEPT !.code = 200] \in Reply
      BY <1>3, CodeType, LabelFacts
    <3> QED
      BY <2>2, <3>1, ZenonT(30) DEF Reply
  <2>4. reply' \in [Reqs -> Reply]
    BY <1>1, <2>1, <2>3 DEF ReqType
  <2>5. ReqType'
    BY <1>1, <1>13, <2>1, <2>4, GotoType, LabelFacts DEF ReqType, AttachmentsFor
  <2>6. served' \in [Toks -> Nat]
    <3>1. CASE call[r].op = "preview" /\ ByLink(r)
      <4>1. call[r].cred \in Toks
        BY <1>3, <3>1 DEF ByLink, Creds
      <4> QED
        BY <1>1, <1>13, <3>1, <4>1, SMT DEF AttachmentsFor, RestType
    <3>2. CASE ~(call[r].op = "preview" /\ ByLink(r))
      BY <1>1, <1>13, <3>2 DEF AttachmentsFor, RestType
    <3> QED
      BY <3>1, <3>2
  <2>7. promised' \subseteq Ids
    BY <1>1, <1>3, <1>13 DEF AttachmentsFor, RestType
  <2>8. RestType'
    BY <1>1, <1>13, <2>6, <2>7 DEF AttachmentsFor, RestType, cleanVars, bounds
  <2> QED
    BY <1>4, <1>13, <2>5, <2>8, TypeParts
    DEF AttachmentsFor, TypeOK, ReqType, RestType
<1>14. CASE EmailExists(r)
  BY <1>2, <1>4, <1>14, LabelFacts DEF EmailExists
<1>15. CASE KeepEmail(r)
  <2>1. StoreTypeOK'
    BY <1>1, <1>4, <1>15, SetKeptType DEF KeepEmail, IsUnkept
  <2> QED
    BY <1>2, <1>4, <1>15, <2>1, KeepControl, LabelFacts
<1>16. CASE KeepEmailSelect(r)
  BY <1>2, <1>4, <1>16, LabelFacts DEF KeepEmailSelect
<1>17. CASE UnkeepEmail(r)
  <2>1. StoreTypeOK'
    BY <1>1, <1>4, <1>17, SetKeptType DEF UnkeepEmail, IsKept
  <2> QED
    BY <1>2, <1>4, <1>17, <2>1, KeepControl, LabelFacts
<1>18. CASE UnkeepEmailSelect(r)
  BY <1>2, <1>4, <1>18, LabelFacts DEF UnkeepEmailSelect
<1>19. CASE RegeneratePreviewOTK(r)
  <2>1. StoreTypeOK'
    BY <1>1, <1>3, <1>19, SetPreviewType DEF RegeneratePreviewOTK
  <2> QED
    BY <1>2, <1>4, <1>19, <2>1, LabelFacts DEF RegeneratePreviewOTK
<1>20. CASE GetLinkOTKs(r)
  <2>1. Email(r) \in Live => emails[Email(r)].keep \in Toks \cup {Null}
    BY <1>1, SMT DEF StoreTypeOK, Row
  <2>2. call' = call
    BY <1>20 DEF GetLinkOTKs
  <2>3. reply' \in [Reqs -> Reply]
    <3>1. CASE Email(r) \in Live
      <4>1. reply' = [reply EXCEPT ![r].code = 200,
                                   ![r].keep = emails[Email(r)].keep]
        BY <1>20, <3>1 DEF GetLinkOTKs
      <4>2. [[reply[r] EXCEPT !.code = 200] EXCEPT !.keep = emails[Email(r)].keep]
              \in Reply
        <5>1. [reply[r] EXCEPT !.code = 200] \in Reply
          BY <1>3, CodeType, LabelFacts
        <5> QED
          BY <2>1, <3>1, <5>1, Zenon DEF Reply
      <4> QED
        BY <1>1, <4>1, <4>2 DEF ReqType
    <3>2. CASE Email(r) \notin Live
      <4>1. reply' = [reply EXCEPT ![r].code = 500]
        BY <1>20, <3>2 DEF GetLinkOTKs
      <4>2. [reply[r] EXCEPT !.code = 500] \in Reply
        BY <1>3, CodeType, LabelFacts
      <4> QED
        BY <1>1, <4>1, <4>2 DEF ReqType
    <3> QED
      BY <3>1, <3>2
  <2>4. ReqType'
    BY <1>1, <1>20, <2>2, <2>3, GotoType, LabelFacts DEF ReqType, GetLinkOTKs
  <2> QED
    BY <1>2, <1>4, <1>20, <2>4 DEF GetLinkOTKs
<1>21. CASE DeleteEmail(r)
  <2>1. StoreTypeOK'
    BY <1>1, <1>21, DeleteRowsType DEF DeleteEmail
  <2> QED
    BY <1>2, <1>4, <1>21, <2>1, LabelFacts DEF DeleteEmail
<1>22. CASE DeleteEmails(r)
  <2>1. StoreTypeOK'
    BY <1>1, <1>22, DeleteRowsType DEF DeleteEmails
  <2> QED
    BY <1>2, <1>4, <1>22, <2>1, LabelFacts DEF DeleteEmails
<1> QED
  BY <1>5, <1>6, <1>7, <1>8, <1>9, <1>10, <1>11, <1>12, <1>13, <1>14, <1>15,
     <1>16, <1>17, <1>18, <1>19, <1>20, <1>21, <1>22 DEF Step

LEMMA FaultType ==
  ASSUME TypeOK, NEW r \in Reqs, Fault(r)
  PROVE  TypeOK'
<1>1. StoreTypeOK /\ ReqType /\ RestType
  BY TypeParts
<1>2. call' \in [Reqs -> Call]
  <2>1. [call[r] EXCEPT !.fault = TRUE] \in Call
    BY <1>1, Zenon DEF Call, ReqType
  <2> QED
    BY <1>1, <2>1 DEF Fault, ReqType
<1>3. pc' \in [Reqs -> Labels] /\ reply' \in [Reqs -> Reply]
  <2>1. [reply[r] EXCEPT !.code = 500] \in Reply
    BY <1>1, CodeType, LabelFacts DEF ReqType
  <2>2. CASE At(r, "openHook")
    BY <1>1, <2>2, GotoType, LabelFacts DEF Fault, ReqType
  <2>3. CASE ~At(r, "openHook")
    BY <1>1, <2>1, <2>3, GotoType, LabelFacts DEF Fault, ReqType
  <2> QED
    BY <2>2, <2>3
<1>4. StoreTypeOK' /\ RestType'
  BY <1>1, UnchangedType, AsideType DEF Fault
<1> QED
  BY <1>2, <1>3, <1>4, TypeParts DEF TypeOK, ReqType, RestType

LEMMA TypeStep == TypeOK /\ [Next]_vars => TypeOK'
<1> SUFFICES ASSUME TypeOK, [Next]_vars PROVE TypeOK'
  OBVIOUS
<1>1. StoreTypeOK /\ ReqType /\ RestType
  BY TypeParts
<1>2. ASSUME NEW r \in Reqs, Start(r) \/ Step(r) \/ Fault(r)
      PROVE  TypeOK'
  BY <1>2, StartType, StepType, FaultType
<1>3. ASSUME UNCHANGED reqVars, StoreTypeOK', RestType'
      PROVE  TypeOK'
  BY <1>1, <1>3 DEF TypeOK, ReqType, RestType, reqVars
<1>4. CASE CleanStart
  <2>1. cutoff' \in Int
    BY <1>1, <1>4, BoundsAssumption, APIAssumption, SMT DEF CleanStart, StoreTypeOK, Time
  <2>2. RestType'
    BY <1>1, <1>4, <2>1 DEF CleanStart, RestType, bounds, history
  <2> QED
    BY <1>1, <1>3, <1>4, <2>2, UnchangedType DEF CleanStart
<1>5. CASE DeleteExpired
  <2>1. StoreTypeOK'
    BY <1>1, <1>5, DeleteRowsType DEF DeleteExpired
  <2>2. Expired(cutoff) \subseteq Ids
    BY <1>1 DEF Expired, StoreTypeOK
  <2>3. RestType'
    BY <1>1, <1>5, <2>2 DEF DeleteExpired, RestType, bounds
  <2> QED
    BY <1>3, <1>5, <2>1, <2>3 DEF DeleteExpired
<1>6. CASE CleanFail
  <2>1. RestType'
    BY <1>1, <1>6 DEF CleanFail, RestType, bounds, history
  <2> QED
    BY <1>1, <1>3, <1>6, <2>1, UnchangedType DEF CleanFail
<1>7. CASE TimePasses
  <2>1. RestType'
    BY <1>1, <1>7 DEF TimePasses, RestType, bounds, history, cleanVars
  <2> QED
    BY <1>1, <1>3, <1>7, <2>1, TickType DEF TimePasses
<1>8. CASE UNCHANGED vars
  <2>1. RestType'
    BY <1>1, <1>8 DEF vars, RestType, bounds, history, cleanVars
  <2> QED
    BY <1>1, <1>3, <1>8, <2>1, UnchangedType DEF vars
<1> QED
  BY <1>2, <1>4, <1>5, <1>6, <1>7, <1>8 DEF Next

(* Every variable of the table, the handlers and the cleaner stays in its  *)
(* set, for any number of requests: in particular AUTOINCREMENT and the    *)
(* token counter never run past their bounds' last value.                  *)
THEOREM TypeCorrect == Spec => []TypeOK
  BY InitType, TypeStep, PTL DEF Spec
----------------------------------------------------------------------------
(* The preview tokens.  TokenInOnePlace is inductive together with         *)
(* KeepRoute: the statements of keep and unkeep, which continue with       *)
(* GetEmail like a preview does, are never run by a preview request.       *)

ViewSteps == {"track", "trackSel", "openHook", "row", "attach"}
KeepSteps == {"checkKeep", "keep", "keepSel", "unkeep", "unkeepSel"}

KeepRoute == \A r \in Reqs : pc[r] \in KeepSteps => call[r].op # "preview"

TokenInv == TypeOK /\ KeepRoute /\ TokenInOnePlace /\ OneViewPerToken

LEMMA InitTokens == Init => TokenInv
<1> SUFFICES ASSUME Init PROVE TokenInv
  OBVIOUS
<1>1. TypeOK
  BY InitType
<1>2. Live = {} /\ \A r \in Reqs : pc[r] = "idle"
  BY DEF Init, StoreInit, Live
<1>3. \A t \in Toks : served[t] = 0
  BY DEF Init
<1>4. \A r \in Reqs : ~Entitled(r)
  BY <1>2, SMT DEF Entitled
<1>5. KeepRoute
  BY <1>2, SMT DEF KeepRoute, KeepSteps
<1>6. TokenInOnePlace
  BY <1>2, <1>3, <1>4 DEF TokenInOnePlace
<1>7. OneViewPerToken
  BY <1>3, SMT DEF OneViewPerToken
<1> QED
  BY <1>1, <1>5, <1>6, <1>7 DEF TokenInv

(* Steps that move no token: rows may go, previews stay as they are, and   *)
(* no request gains a claim to a token.                                    *)
LEMMA TokenFrame ==
  ASSUME TypeOK, TokenInOnePlace, OneViewPerToken,
         nextTok' \in Nat, nextTok' >= nextTok,
         Live' \subseteq Live,
         \A id \in Live' : emails'[id].preview = emails[id].preview,
         served' = served,
         \A r \in Reqs : Entitled(r)' => /\ Entitled(r)
                                         /\ call'[r].cred = call[r].cred
  PROVE  TokenInOnePlace' /\ OneViewPerToken'
<1>1. nextTok \in Nat
  BY BoundsAssumption, SMT DEF TypeOK, StoreTypeOK
<1>2. TableTokens' \subseteq TableTokens
  BY DEF TableTokens
<1>3. \A id \in Live : emails[id].preview \in Nat
  <2>1. Live \subseteq Ids /\ \A id \in Live : emails[id] \in Row
    BY DEF TypeOK, StoreTypeOK
  <2>2. \A e \in Row : e.preview \in Toks \cup {Null}
    BY DEF Row
  <2>3. Toks \cup {Null} \subseteq Nat
    BY BoundsAssumption, SMT DEF Toks, Null
  <2> QED
    BY <2>1, <2>2, <2>3
<1>4. \A r \in Reqs : call[r].cred \in Nat
  BY CallFields
<1>5. \A id \in Live' : emails'[id].preview < nextTok'
  BY <1>1, <1>3, SMT DEF TokenInOnePlace
<1>6. \A i, j \in Live' : i # j /\ emails'[i].preview # Null
                            => emails'[i].preview # emails'[j].preview
  BY DEF TokenInOnePlace
<1>7. \A r \in Reqs : Entitled(r)' => /\ call'[r].cred < nextTok'
                                      /\ call'[r].cred \notin TableTokens'
                                      /\ served'[call'[r].cred] = 0
  <2> SUFFICES ASSUME NEW r \in Reqs, Entitled(r)'
               PROVE  /\ call'[r].cred < nextTok'
                      /\ call'[r].cred \notin TableTokens'
                      /\ served'[call'[r].cred] = 0
    OBVIOUS
  <2>1. /\ call'[r].cred = call[r].cred /\ call[r].cred < nextTok
        /\ call[r].cred \notin TableTokens /\ served[call[r].cred] = 0
    BY DEF TokenInOnePlace
  <2>2. call[r].cred < nextTok'
    BY <1>1, <1>4, <2>1, SMT
  <2> QED
    BY <1>2, <2>1, <2>2
<1>8. \A r, s \in Reqs : r # s /\ Entitled(r)' /\ Entitled(s)'
                            => call'[r].cred # call'[s].cred
  BY DEF TokenInOnePlace
<1>9. \A t \in Toks : t \in TableTokens' \/ t >= nextTok' => served'[t] = 0
  <2> SUFFICES ASSUME NEW t \in Toks, t \in TableTokens' \/ t >= nextTok'
               PROVE  served[t] = 0
    OBVIOUS
  <2>1. t \in TableTokens \/ t >= nextTok
    BY <1>1, <1>2, BoundsAssumption, SMT DEF Toks
  <2> QED
    BY <2>1 DEF TokenInOnePlace
<1>10. TokenInOnePlace'
  BY <1>5, <1>6, <1>7, <1>8, <1>9 DEF TokenInOnePlace
<1>11. OneViewPerToken'
  BY DEF OneViewPerToken
<1> QED
  BY <1>10, <1>11

\* The handler moves between steps that change no claim to a token.
Stays(r) ==
    /\ \A q \in Reqs : /\ call'[q].op = call[q].op
                       /\ call'[q].cred = call[q].cred
    /\ \A q \in Reqs \ {r} : pc'[q] = pc[q]
    /\ pc'[r] \in ViewSteps => pc[r] \in ViewSteps \cup KeepSteps
    /\ pc'[r] \in KeepSteps => pc[r] \in KeepSteps

LEMMA StaysKeepsRoute ==
  ASSUME TokenInv, NEW r \in Reqs, Stays(r)
  PROVE  /\ KeepRoute'
         /\ \A q \in Reqs : Entitled(q)' => /\ Entitled(q)
                                            /\ call'[q].cred = call[q].cred
<1>1. KeepRoute'
  BY DEF TokenInv, KeepRoute, Stays
<1>2. ASSUME NEW q \in Reqs, Entitled(q)'
      PROVE  Entitled(q) /\ call'[q].cred = call[q].cred
  <2>1. call[q].op = "preview" /\ ByLink(q) /\ pc'[q] \in ViewSteps
    BY <1>2 DEF Entitled, ByLink, Stays, ViewSteps
  <2>2. pc[q] \in ViewSteps
    BY <2>1 DEF TokenInv, KeepRoute, Stays
  <2> QED
    BY <2>1, <2>2 DEF Entitled, Stays, ViewSteps
<1> QED
  BY <1>1, <1>2

LEMMA StepFrame ==
  ASSUME TokenInv, NEW r \in Reqs, Stays(r), TypeOK',
         nextTok' \in Nat, nextTok' >= nextTok,
         Live' \subseteq Live,
         \A id \in Live' : emails'[id].preview = emails[id].preview,
         served' = served
  PROVE  TokenInv'
  BY StaysKeepsRoute, TokenFrame DEF TokenInv

LEMMA NextTokNat == TypeOK => nextTok \in Nat /\ nextTok >= nextTok
  BY BoundsAssumption, SMT DEF TypeOK, StoreTypeOK

\* A request that arrives has no claim yet.
LEMMA BeginTokens ==
  ASSUME TokenInv, TypeOK', NEW r \in Reqs, NEW op \in AllOps,
         NEW id \in Ids, NEW cred \in Creds, NEW s \in Labels,
         Begin(r, op, id, cred, s),
         op = "preview" => /\ s \notin KeepSteps
                           /\ s \in ViewSteps => cred = ApiKey
  PROVE  TokenInv'
<1>1. StoreTypeOK /\ ReqType
  BY TypeParts DEF TokenInv
<1>2. /\ pc'[r] = s /\ \A q \in Reqs \ {r} : pc'[q] = pc[q]
      /\ call'[r].op = op /\ call'[r].cred = cred
      /\ \A q \in Reqs \ {r} : /\ call'[q].op = call[q].op
                               /\ call'[q].cred = call[q].cred
      /\ emails' = emails /\ nextTok' = nextTok /\ served' = served
  BY <1>1, BeginType
<1>3. KeepRoute'
  BY <1>2 DEF KeepRoute, TokenInv
<1>4. ~Entitled(r)'
  BY <1>2, SMT DEF Entitled, ByLink, ViewSteps
<1>5. \A q \in Reqs : Entitled(q)' => Entitled(q) /\ call'[q].cred = call[q].cred
  BY <1>2, <1>4 DEF Entitled, ByLink
<1>6. /\ Live' \subseteq Live
      /\ \A i \in Live' : emails'[i].preview = emails[i].preview
  BY <1>2 DEF Live
<1> QED
  BY <1>2, <1>3, <1>5, <1>6, NextTokNat, TokenFrame DEF TokenInv

LEMMA StartTokens ==
  ASSUME TokenInv, NEW r \in Reqs, Start(r)
  PROVE  TokenInv'
<1>1. TypeOK /\ TypeOK'
  BY StartType DEF TokenInv
<1>2. ASSUME NEW op \in AllOps, NEW id \in Ids, NEW s \in Labels,
             op # "preview", Begin(r, op, id, ApiKey, s)
      PROVE  TokenInv'
  BY <1>1, <1>2, LabelFacts, BeginTokens
<1>3. CASE StartIngest(r)
  BY <1>2, <1>3, LabelFacts DEF StartIngest, AllOps
<1>4. CASE StartPreview(r)
  <2>1. PICK id \in Ids, cred \in Creds :
          Begin(r, "preview", id, cred,
                IF cred = ApiKey THEN "track" ELSE "consume")
    BY <1>4 DEF StartPreview, BeginPlain
  <2> DEFINE s == IF cred = ApiKey THEN "track" ELSE "consume"
  <2>2. /\ s \in Labels /\ s \notin KeepSteps
        /\ s \in ViewSteps => cred = ApiKey
        /\ "preview" \in AllOps
    BY LabelFacts, SMT DEF KeepSteps, ViewSteps, AllOps
  <2>3. Begin(r, "preview", id, cred, s)
    BY <2>1
  <2> HIDE DEF s
  <2> QED
    BY <1>1, <2>2, <2>3, BeginTokens
<1>5. CASE StartGet(r)
  BY <1>2, <1>5, LabelFacts DEF StartGet, AllOps, BeginPlain
<1>6. CASE StartRaw(r)
  BY <1>2, <1>6, LabelFacts DEF StartRaw, AllOps, BeginPlain
<1>7. CASE StartHead(r)
  BY <1>2, <1>7, LabelFacts DEF StartHead, AllOps, BeginPlain
<1>8. CASE StartKeep(r)
  <2>1. PICK id \in Ids, cred \in Creds :
          Begin(r, "keep", id, cred,
                IF cred = ApiKey THEN "keep" ELSE "checkKeep")
    BY <1>8 DEF StartKeep, BeginPlain
  <2>2. "keep" \in AllOps /\ "keep" # "preview"
    BY DEF AllOps
  <2> QED
    BY <1>1, <2>1, <2>2, LabelFacts, BeginTokens
<1>9. CASE StartUnkeep(r)
  BY <1>2, <1>9, LabelFacts DEF StartUnkeep, AllOps
<1>10. CASE StartPreviewToken(r)
  BY <1>2, <1>10, LabelFacts DEF StartPreviewToken, AllOps
<1>11. CASE StartDelete(r)
  BY <1>2, <1>11, LabelFacts DEF StartDelete, AllOps, BeginPlain
<1>12. CASE StartDeleteMany(r)
  BY <1>2, <1>12, LabelFacts DEF StartDeleteMany, AllOps, BeginPlain
<1> QED
  BY <1>3, <1>4, <1>5, <1>6, <1>7, <1>8, <1>9, <1>10, <1>11, <1>12 DEF Start

\* The facts about single tokens that the four token-moving steps need.
LEMMA TokenTypes ==
  ASSUME TypeOK
  PROVE  /\ nextTok \in Nat
         /\ \A id \in Live : emails[id].preview \in Toks \cup {Null}
         /\ \A r \in Reqs : call[r].cred \in Toks \cup {ApiKey}
         /\ Toks \subseteq Nat \ {0} /\ Null = 0 /\ ApiKey = 0
         /\ served \in [Toks -> Nat]
  BY BoundsAssumption, SMT
  DEF TypeOK, StoreTypeOK, Row, Call, Creds, Toks, Null, ApiKey

\* InsertEmail stores a token that was never in the table before.
LEMMA InsertTokens ==
  ASSUME TokenInv, NEW r \in Reqs, Insert(r), TypeOK'
  PROVE  TokenInv'
<1>1. TypeOK /\ StoreTypeOK /\ ReqType
  BY TypeParts DEF TokenInv
<1>2. PICK a \in Mails : InsertRow(call[r].at, a)
  BY DEF Insert
<1>3. a \in BOOLEAN /\ call[r].at \in Time
  BY <1>1, APIAssumption, SMT DEF ReqType, Call
<1>4. /\ nextId \notin Live /\ nextTok \in Toks /\ nextTok' = nextTok + 2
      /\ nextTok' \in Nat
      /\ Live' = Live \cup {nextId} /\ emails'[nextId].preview = nextTok
      /\ \A id \in Live : emails'[id] = emails[id]
  BY <1>1, <1>2, <1>3, InsertRowType
<1>5. /\ \A q \in Reqs : call'[q].op = call[q].op /\ call'[q].cred = call[q].cred
      /\ served' = served
  BY <1>1 DEF Insert, ReqType, Aside, history
<1>6. pc'[r] = "notify" /\ \A q \in Reqs \ {r} : pc'[q] = pc[q]
  BY <1>1, GotoType, LabelFacts DEF Insert
<1>7. Stays(r)
  BY <1>5, <1>6, SMT DEF Stays, ViewSteps, KeepSteps
<1>8. /\ KeepRoute'
      /\ \A q \in Reqs : Entitled(q)' => /\ Entitled(q)
                                         /\ call'[q].cred = call[q].cred
  BY <1>7, StaysKeepsRoute
<1>9. \A id \in Live : emails[id].preview < nextTok
  BY DEF TokenInv, TokenInOnePlace
<1>10. TableTokens' = TableTokens \cup {nextTok}
  BY <1>1, <1>4, TokenTypes, SMT DEF TableTokens
<1>11. \A id \in Live' : emails'[id].preview < nextTok'
  BY <1>1, <1>4, <1>9, TokenTypes, SMT
<1>12. \A i, j \in Live' : i # j /\ emails'[i].preview # Null
                             => emails'[i].preview # emails'[j].preview
  <2> SUFFICES ASSUME NEW i \in Live', NEW j \in Live', i # j,
                      emails'[i].preview # Null
               PROVE  emails'[i].preview # emails'[j].preview
    OBVIOUS
  <2>1. CASE i \in Live /\ j \in Live
    BY <1>4, <2>1 DEF TokenInv, TokenInOnePlace
  <2>2. CASE i = nextId \/ j = nextId
    BY <1>1, <1>4, <1>9, <2>2, TokenTypes, SMT
  <2> QED
    BY <1>4, <2>1, <2>2
<1>13. \A q \in Reqs : Entitled(q)' => /\ call'[q].cred < nextTok'
                                       /\ call'[q].cred \notin TableTokens'
                                       /\ served'[call'[q].cred] = 0
  <2> SUFFICES ASSUME NEW q \in Reqs, Entitled(q)'
               PROVE  /\ call'[q].cred < nextTok'
                      /\ call'[q].cred \notin TableTokens'
                      /\ served'[call'[q].cred] = 0
    OBVIOUS
  <2>1. /\ call'[q].cred = call[q].cred /\ call[q].cred < nextTok
        /\ call[q].cred \notin TableTokens /\ served[call[q].cred] = 0
    BY <1>8 DEF TokenInv, TokenInOnePlace
  <2>2. call[q].cred < nextTok' /\ call[q].cred # nextTok
    BY <1>1, <1>4, <2>1, TokenTypes, SMT
  <2> QED
    BY <1>5, <1>10, <2>1, <2>2
<1>14. \A q, s \in Reqs : q # s /\ Entitled(q)' /\ Entitled(s)'
                             => call'[q].cred # call'[s].cred
  BY <1>8 DEF TokenInv, TokenInOnePlace
<1>15. \A t \in Toks : t \in TableTokens' \/ t >= nextTok' => served'[t] = 0
  <2> SUFFICES ASSUME NEW t \in Toks, t \in TableTokens' \/ t >= nextTok'
               PROVE  served[t] = 0
    BY <1>5
  <2>1. t \in TableTokens \/ t >= nextTok
    BY <1>1, <1>4, <1>10, TokenTypes, SMT
  <2> QED
    BY <2>1 DEF TokenInv, TokenInOnePlace
<1>16. TokenInOnePlace'
  BY <1>11, <1>12, <1>13, <1>14, <1>15 DEF TokenInOnePlace
<1>17. OneViewPerToken'
  BY <1>5 DEF TokenInv, OneViewPerToken
<1> QED
  BY <1>8, <1>16, <1>17 DEF TokenInv

\* ConsumePreviewOTK moves a token from its row to the request.
LEMMA ConsumeTokens ==
  ASSUME TokenInv, NEW r \in Reqs, ConsumePreviewOTK(r), TypeOK',
         HoldsPreview(Email(r), call[r].cred)
  PROVE  TokenInv'
<1>1. TypeOK /\ StoreTypeOK /\ ReqType
  BY TypeParts DEF TokenInv
<1> DEFINE id == Email(r)
           tok == call[r].cred
<1>2. /\ id \in Live /\ emails[id].preview = tok
      /\ ClearPreview(id) /\ Goto(r, "track") /\ pc[r] = "consume"
      /\ call' = [call EXCEPT ![r].at = now] /\ served' = served
  BY DEF ConsumePreviewOTK, HoldsPreview, Aside, history, At
<1>3. /\ Live' = Live /\ nextTok' = nextTok
      /\ emails'[id].preview = Null
      /\ \A i \in Live \ {id} : emails'[i] = emails[i]
  BY <1>1, <1>2, ClearPreviewType
<1>4. pc'[r] = "track" /\ \A q \in Reqs \ {r} : pc'[q] = pc[q]
  BY <1>1, <1>2, GotoType, LabelFacts
<1>5. \A q \in Reqs : call'[q].op = call[q].op /\ call'[q].cred = call[q].cred
  BY <1>1, <1>2 DEF ReqType
<1> HIDE DEF id, tok
<1>6. KeepRoute'
  BY <1>4, <1>5, SMT DEF TokenInv, KeepRoute, KeepSteps
<1>7. \A q \in Reqs : Entitled(q)' => q = r \/ Entitled(q)
  BY <1>4, <1>5 DEF Entitled, ByLink
<1>8. Entitled(r)' => tok # Null
  BY <1>5, TokenTypes DEF Entitled, ByLink, tok, ApiKey, Null
<1>9. /\ TableTokens' \subseteq TableTokens
      /\ tok # Null => tok \notin TableTokens' /\ tok \in TableTokens
  <2>1. \A i \in Live : i # id /\ emails[i].preview # Null => emails[i].preview # tok
    BY <1>2 DEF TokenInv, TokenInOnePlace
  <2> QED
    BY <1>2, <1>3, <2>1 DEF TableTokens
<1>10. tok # Null => /\ tok < nextTok /\ served[tok] = 0
                     /\ \A q \in Reqs : Entitled(q) => call[q].cred # tok
  <2>1. tok \in Toks \cup {Null}
    BY <1>1, TokenTypes DEF tok, ApiKey, Null
  <2> QED
    BY <1>2, <1>9, <2>1 DEF TokenInv, TokenInOnePlace
<1>11. \A i \in Live' : emails'[i].preview < nextTok'
  <2>1. Null < nextTok
    BY <1>1, BoundsAssumption, SMT DEF StoreTypeOK, Null
  <2> QED
    BY <1>3, <2>1 DEF TokenInv, TokenInOnePlace
<1>12. \A i, j \in Live' : i # j /\ emails'[i].preview # Null
                             => emails'[i].preview # emails'[j].preview
  BY <1>3 DEF TokenInv, TokenInOnePlace
<1>13. \A q \in Reqs : Entitled(q)' => /\ call'[q].cred < nextTok'
                                       /\ call'[q].cred \notin TableTokens'
                                       /\ served'[call'[q].cred] = 0
  <2> SUFFICES ASSUME NEW q \in Reqs, Entitled(q)'
               PROVE  /\ call[q].cred < nextTok
                      /\ call[q].cred \notin TableTokens'
                      /\ served[call[q].cred] = 0
    BY <1>2, <1>3, <1>5
  <2>1. CASE q = r
    BY <1>8, <1>9, <1>10, <2>1 DEF tok
  <2>2. CASE q # r
    BY <1>7, <1>9, <2>2 DEF TokenInv, TokenInOnePlace
  <2> QED
    BY <2>1, <2>2
<1>14. \A q, s \in Reqs : q # s /\ Entitled(q)' /\ Entitled(s)'
                             => call'[q].cred # call'[s].cred
  <2> SUFFICES ASSUME NEW q \in Reqs, NEW s \in Reqs, q # s,
                      Entitled(q)', Entitled(s)'
               PROVE  call[q].cred # call[s].cred
    BY <1>5
  <2>1. CASE q = r
    BY <1>7, <1>8, <1>10, <2>1 DEF tok
  <2>2. CASE s = r
    BY <1>7, <1>8, <1>10, <2>2 DEF tok
  <2>3. CASE q # r /\ s # r
    BY <1>7, <2>3 DEF TokenInv, TokenInOnePlace
  <2> QED
    BY <2>1, <2>2, <2>3
<1>15. \A t \in Toks : t \in TableTokens' \/ t >= nextTok' => served'[t] = 0
  BY <1>2, <1>3, <1>9 DEF TokenInv, TokenInOnePlace
<1>16. TokenInOnePlace'
  BY <1>11, <1>12, <1>13, <1>14, <1>15 DEF TokenInOnePlace
<1>17. OneViewPerToken'
  BY <1>2 DEF TokenInv, OneViewPerToken
<1> QED
  BY <1>6, <1>16, <1>17 DEF TokenInv

\* RegeneratePreviewOTK forgets the row's token and stores a new one.
LEMMA RegenTokens ==
  ASSUME TokenInv, NEW r \in Reqs, RegeneratePreviewOTK(r), TypeOK'
  PROVE  TokenInv'
<1>1. TypeOK /\ StoreTypeOK /\ ReqType
  BY TypeParts DEF TokenInv
<1> DEFINE id == Email(r)
<1>2. id \in Ids
  BY <1>1, SMT DEF ReqType, Call, Email
<1>3. SetPreview(id) /\ served' = served /\ call' = call
  BY DEF RegeneratePreviewOTK, Aside, history, Continue, Answer
<1>4. /\ Live' = Live /\ nextTok \in Toks /\ nextTok' = nextTok + 1
      /\ id \in Live => emails'[id].preview = nextTok
      /\ \A i \in Live \ {id} : emails'[i] = emails[i]
  BY <1>1, <1>2, <1>3, SetPreviewType
<1>5. pc'[r] \in {"links", "idle"} /\ \A q \in Reqs \ {r} : pc'[q] = pc[q]
  BY <1>1, ContinueType, AnswerType, LabelFacts DEF RegeneratePreviewOTK
<1> HIDE DEF id
<1>6. Stays(r)
  BY <1>3, <1>5, SMT DEF Stays, ViewSteps, KeepSteps
<1>7. /\ KeepRoute'
      /\ \A q \in Reqs : Entitled(q)' => /\ Entitled(q)
                                         /\ call'[q].cred = call[q].cred
  BY <1>6, StaysKeepsRoute
<1>8. \A i \in Live : emails[i].preview < nextTok
  BY DEF TokenInv, TokenInOnePlace
<1>9. nextTok' \in Nat /\ nextTok' > nextTok /\ nextTok \in Nat
  BY <1>1, <1>4, TokenTypes, SMT
<1>10. TableTokens' \subseteq TableTokens \cup {nextTok}
  BY <1>4 DEF TableTokens
<1>11. \A i \in Live' : emails'[i].preview < nextTok'
  <2> SUFFICES ASSUME NEW i \in Live PROVE emails'[i].preview < nextTok'
    BY <1>4
  <2>1. CASE i = id
    BY <1>4, <1>9, <2>1, SMT
  <2>2. CASE i # id
    <3>1. emails'[i].preview = emails[i].preview /\ emails[i].preview < nextTok
      BY <1>4, <1>8, <2>2, Zenon
    <3>2. emails[i].preview \in Nat
      BY <1>1, TokenTypes
    <3> QED
      BY <1>9, <3>1, <3>2, SMT
  <2> QED
    BY <2>1, <2>2
<1>12. \A i, j \in Live' : i # j /\ emails'[i].preview # Null
                             => emails'[i].preview # emails'[j].preview
  <2> SUFFICES ASSUME NEW i \in Live, NEW j \in Live, i # j,
                      emails'[i].preview # Null
               PROVE  emails'[i].preview # emails'[j].preview
    BY <1>4
  <2>1. CASE i # id /\ j # id
    BY <1>4, <2>1 DEF TokenInv, TokenInOnePlace
  <2>2. CASE i = id \/ j = id
    BY <1>1, <1>4, <1>8, <2>2, TokenTypes, SMT
  <2> QED
    BY <2>1, <2>2
<1>13. \A q \in Reqs : Entitled(q)' => /\ call'[q].cred < nextTok'
                                       /\ call'[q].cred \notin TableTokens'
                                       /\ served'[call'[q].cred] = 0
  <2> SUFFICES ASSUME NEW q \in Reqs, Entitled(q)'
               PROVE  /\ call'[q].cred < nextTok'
                      /\ call'[q].cred \notin TableTokens'
                      /\ served'[call'[q].cred] = 0
    OBVIOUS
  <2>1. /\ call'[q].cred = call[q].cred /\ call[q].cred < nextTok
        /\ call[q].cred \notin TableTokens /\ served[call[q].cred] = 0
    BY <1>7 DEF TokenInv, TokenInOnePlace
  <2>2. call[q].cred < nextTok' /\ call[q].cred # nextTok
    BY <1>1, <1>9, <2>1, TokenTypes, SMT
  <2> QED
    BY <1>3, <1>10, <2>1, <2>2
<1>14. \A q, s \in Reqs : q # s /\ Entitled(q)' /\ Entitled(s)'
                             => call'[q].cred # call'[s].cred
  BY <1>7 DEF TokenInv, TokenInOnePlace
<1>15. \A t \in Toks : t \in TableTokens' \/ t >= nextTok' => served'[t] = 0
  <2> SUFFICES ASSUME NEW t \in Toks, t \in TableTokens' \/ t >= nextTok'
               PROVE  served[t] = 0
    BY <1>3
  <2>1. t \in TableTokens \/ t >= nextTok
    BY <1>1, <1>9, <1>10, TokenTypes, SMT
  <2> QED
    BY <2>1 DEF TokenInv, TokenInOnePlace
<1>16. TokenInOnePlace'
  BY <1>11, <1>12, <1>13, <1>14, <1>15 DEF TokenInOnePlace
<1>17. OneViewPerToken'
  BY <1>3 DEF TokenInv, OneViewPerToken
<1> QED
  BY <1>7, <1>16, <1>17 DEF TokenInv

\* The last statement of a view spends the claim it was made on.
LEMMA AttachTokens ==
  ASSUME TokenInv, NEW r \in Reqs, AttachmentsFor(r), TypeOK'
  PROVE  TokenInv'
<1>1. TypeOK /\ StoreTypeOK /\ ReqType
  BY TypeParts DEF TokenInv
<1>2. /\ pc[r] = "attach" /\ Goto(r, "idle") /\ call' = call
      /\ emails' = emails /\ nextTok' = nextTok /\ Live' = Live
  BY DEF AttachmentsFor, storeVars, At, Live
<1>3. pc'[r] = "idle" /\ \A q \in Reqs \ {r} : pc'[q] = pc[q]
  BY <1>1, <1>2, GotoType, LabelFacts
<1>4. Stays(r)
  BY <1>2, <1>3, SMT DEF Stays, ViewSteps, KeepSteps
<1>5. KeepRoute' /\ \A q \in Reqs : Entitled(q)' => q # r /\ Entitled(q)
  <2>1. ~Entitled(r)'
    BY <1>3, SMT DEF Entitled
  <2> QED
    BY <1>4, <2>1, StaysKeepsRoute
<1>6. CASE ~(call[r].op = "preview" /\ ByLink(r))
  <2>1. served' = served
    BY <1>6 DEF AttachmentsFor
  <2>2. \A i \in Live' : emails'[i].preview = emails[i].preview
    BY <1>2
  <2> QED
    BY <1>1, <1>2, <1>4, <2>1, <2>2, NextTokNat, StepFrame
<1>7. CASE call[r].op = "preview" /\ ByLink(r)
  <2> DEFINE tok == call[r].cred
  <2>1. Entitled(r)
    BY <1>2, <1>7, SMT DEF Entitled
  <2>2. tok \in Toks
    BY <1>1, <1>7, TokenTypes DEF ByLink
  <2>3. served' = [served EXCEPT ![tok] = @ + 1]
    BY <1>7 DEF AttachmentsFor
  <2> HIDE DEF tok
  <2>4. tok < nextTok /\ tok \notin TableTokens /\ served[tok] = 0
    BY <2>1 DEF TokenInv, TokenInOnePlace, tok
  <2>5. served'[tok] = 1 /\ \A t \in Toks \ {tok} : served'[t] = served[t]
    BY <1>1, <2>2, <2>3, <2>4, TokenTypes, SMT
  <2>6. TableTokens' = TableTokens
    BY <1>2 DEF TableTokens
  <2>7. \A q \in Reqs : Entitled(q)' => /\ call'[q].cred < nextTok'
                                        /\ call'[q].cred \notin TableTokens'
                                        /\ served'[call'[q].cred] = 0
    <3> SUFFICES ASSUME NEW q \in Reqs, Entitled(q)'
                 PROVE  /\ call[q].cred < nextTok
                        /\ call[q].cred \notin TableTokens
                        /\ served'[call[q].cred] = 0
      BY <1>2, <2>6
    <3>1. Entitled(q) /\ q # r
      BY <1>5
    <3>2. call[q].cred # tok /\ call[q].cred \in Toks
      BY <1>1, <2>1, <3>1, TokenTypes
      DEF TokenInv, TokenInOnePlace, tok, Entitled, ByLink
    <3> QED
      BY <2>5, <3>1, <3>2 DEF TokenInv, TokenInOnePlace
  <2>8. \A t \in Toks : t \in TableTokens' \/ t >= nextTok' => served'[t] = 0
    <3> SUFFICES ASSUME NEW t \in Toks, t \in TableTokens \/ t >= nextTok
                 PROVE  served'[t] = 0
      BY <1>2, <2>6
    <3>1. t # tok
      BY <1>1, <2>4, TokenTypes, SMT
    <3> QED
      BY <2>5, <3>1 DEF TokenInv, TokenInOnePlace
  <2>9. /\ \A i \in Live' : emails'[i].preview < nextTok'
        /\ \A i, j \in Live' : i # j /\ emails'[i].preview # Null
                                 => emails'[i].preview # emails'[j].preview
        /\ \A q, s \in Reqs : q # s /\ Entitled(q)' /\ Entitled(s)'
                                => call'[q].cred # call'[s].cred
    BY <1>2, <1>5 DEF TokenInv, TokenInOnePlace
  <2>10. TokenInOnePlace'
    BY <2>7, <2>8, <2>9 DEF TokenInOnePlace
  <2>11. OneViewPerToken'
    BY <2>5, SMT DEF TokenInv, OneViewPerToken
  <2> QED
    BY <1>5, <2>10, <2>11 DEF TokenInv
<1> QED
  BY <1>6, <1>7

LEMMA StepTokens ==
  ASSUME TokenInv, NEW r \in Reqs, Step(r)
  PROVE  TokenInv'
<1>1. TypeOK /\ TypeOK' /\ StoreTypeOK /\ ReqType
  BY StepType, TypeParts DEF TokenInv
<1>2. nextTok \in Nat /\ nextTok >= nextTok
  BY <1>1, NextTokNat
\* Statements that leave the preview column of the surviving rows alone.
<1>3. ASSUME Stays(r), nextTok' = nextTok, Live' \subseteq Live, served' = served,
             \A id \in Live' : emails'[id].preview = emails[id].preview
      PROVE  TokenInv'
  BY <1>1, <1>2, <1>3, StepFrame
<1>4. ASSUME Stays(r), UNCHANGED storeVars, served' = served
      PROVE  TokenInv'
  <2>1. Live' = Live /\ emails' = emails /\ nextTok' = nextTok
    BY <1>1, <1>4, UnchangedType
  <2> QED
    BY <1>3, <1>4, <2>1
\* What the handler's next label may be.
<1>5. ASSUME NEW s \in Labels, Continue(r, s),
             s \in ViewSteps => pc[r] \in ViewSteps \cup KeepSteps,
             s \in KeepSteps => pc[r] \in KeepSteps
      PROVE  Stays(r)
  BY <1>1, <1>5, ContinueType DEF Stays
<1>6. ASSUME NEW c \in Codes, Answer(r, c)
      PROVE  Stays(r)
  <2>1. "idle" \notin ViewSteps /\ "idle" \notin KeepSteps
    BY SMT DEF ViewSteps, KeepSteps
  <2> QED
    BY <1>1, <1>6, <2>1, AnswerType DEF Stays
<1>7. Aside => served' = served
  BY DEF Aside, history
<1>8. Email(r) \in Ids /\ call[r].at \in Time
  BY <1>1, SMT DEF ReqType, Call, Email
<1>9. CASE Insert(r)
  BY <1>1, <1>9, InsertTokens
<1>10. CASE EmailReceived(r)
  BY <1>4, <1>6, <1>10, LabelFacts DEF EmailReceived, history
<1>11. CASE ConsumePreviewOTK(r)
  <2>1. CASE HoldsPreview(Email(r), call[r].cred)
    BY <1>1, <1>11, <2>1, ConsumeTokens
  <2>2. CASE ~HoldsPreview(Email(r), call[r].cred)
    BY <1>4, <1>6, <1>7, <1>11, <2>2, LabelFacts DEF ConsumePreviewOTK
  <2> QED
    BY <2>1, <2>2
<1>12. CASE ValidKeepOTK(r)
  <2>1. Stays(r)
    BY <1>5, <1>6, <1>12, LabelFacts DEF ValidKeepOTK, At, KeepSteps, ViewSteps
  <2> QED
    BY <1>4, <1>7, <1>12, <2>1 DEF ValidKeepOTK
<1>13. CASE TrackEmailOpen(r)
  <2>1. Stays(r)
    <3>1. /\ pc[r] = "track"
          /\ Continue(r, "openHook") \/ Continue(r, "trackSel")
      BY <1>13, Zenon DEF TrackEmailOpen, At
    <3> QED
      BY <1>5, <3>1, LabelFacts, ZenonT(30) DEF KeepSteps, ViewSteps
  <2>2. CASE Unopened(Email(r))
    <3>1. Email(r) \in Live /\ SetOpened(Email(r), call[r].at)
      BY <1>13, <2>2 DEF TrackEmailOpen, Unopened
    <3>2. /\ Live' = Live /\ nextTok' = nextTok
          /\ \A i \in Live : emails'[i].preview = emails[i].preview
      BY <1>1, <1>8, <3>1, SetOpenedType
    <3> QED
      BY <1>3, <1>7, <1>13, <2>1, <3>2 DEF TrackEmailOpen
  <2>3. CASE ~Unopened(Email(r))
    <3>1. UNCHANGED storeVars /\ Aside
      BY <1>13, <2>3, Zenon DEF TrackEmailOpen
    <3> QED
      BY <1>4, <1>7, <2>1, <3>1, Zenon
  <2> QED
    BY <2>2, <2>3
<1>14. CASE TrackEmailOpenSelect(r)
  <2>1. Continue(r, "row") \/ Answer(r, 404)
    BY <1>14, SMT DEF TrackEmailOpenSelect
  <2>2. pc[r] = "trackSel" /\ UNCHANGED storeVars /\ Aside
    BY <1>14, Zenon DEF TrackEmailOpenSelect, At
  <2>3. Continue(r, "row") => Stays(r)
    BY <1>5, <2>2, LabelFacts, ZenonT(30) DEF KeepSteps, ViewSteps
  <2>4. Answer(r, 404) => Stays(r)
    BY <1>6, LabelFacts
  <2> QED
    BY <1>4, <1>7, <2>1, <2>2, <2>3, <2>4
<1>15. CASE EmailOpened(r)
  <2>1. Stays(r)
    BY <1>5, <1>15, LabelFacts, ZenonT(30) DEF EmailOpened, At, KeepSteps, ViewSteps
  <2> QED
    BY <1>4, <1>15, <2>1 DEF EmailOpened, history
<1>16. CASE GetEmailRow(r)
  <2>1. Stays(r)
    <3>1. CASE Email(r) \in Live
      <4>1. pc[r] = "row" /\ Goto(r, "attach") /\ call' = call
        BY <1>16, <3>1 DEF GetEmailRow, At
      <4>2. pc'[r] = "attach" /\ \A q \in Reqs \ {r} : pc'[q] = pc[q]
        BY <1>1, <4>1, GotoType, LabelFacts
      <4> QED
        BY <4>1, <4>2, SMT DEF Stays, ViewSteps, KeepSteps
    <3>2. CASE Email(r) \notin Live
      BY <1>6, <1>16, <3>2, LabelFacts DEF GetEmailRow
    <3> QED
      BY <3>1, <3>2
  <2> QED
    BY <1>4, <1>7, <1>16, <2>1 DEF GetEmailRow
<1>17. CASE AttachmentsFor(r)
  BY <1>1, <1>17, AttachTokens
<1>18. CASE EmailExists(r)
  BY <1>4, <1>6, <1>7, <1>18, LabelFacts DEF EmailExists
<1>19. CASE KeepEmail(r)
  <2>1. Stays(r)
    <3>1. /\ pc[r] = "keep"
          /\ Continue(r, "row") \/ Continue(r, "keepSel")
      BY <1>19, KeepControl
    <3> QED
      BY <1>5, <3>1, LabelFacts, ZenonT(30) DEF KeepSteps, ViewSteps
  <2>2. CASE IsUnkept(Email(r))
    <3>1. Email(r) \in Live /\ SetKept(Email(r), TRUE)
      BY <1>19, <2>2 DEF KeepEmail, IsUnkept
    <3>2. /\ Live' = Live /\ nextTok' = nextTok
          /\ \A i \in Live : emails'[i].preview = emails[i].preview
      BY <1>1, <3>1, SetKeptType
    <3> QED
      BY <1>3, <1>7, <1>19, <2>1, <3>2 DEF KeepEmail
  <2>3. CASE ~IsUnkept(Email(r))
    BY <1>4, <1>7, <1>19, <2>1, <2>3 DEF KeepEmail
  <2> QED
    BY <2>2, <2>3
<1>20. CASE KeepEmailSelect(r)
  <2>1. Stays(r)
    <3>1. /\ pc[r] = "keepSel"
          /\ Continue(r, "row") \/ Answer(r, 404)
      BY <1>20, KeepControl
    <3>2. Continue(r, "row") => Stays(r)
      BY <1>5, <3>1, LabelFacts, ZenonT(30) DEF KeepSteps, ViewSteps
    <3> QED
      BY <1>6, <3>1, <3>2, LabelFacts
  <2> QED
    BY <1>4, <1>7, <1>20, <2>1 DEF KeepEmailSelect
<1>21. CASE UnkeepEmail(r)
  <2>1. Stays(r)
    <3>1. /\ pc[r] = "unkeep"
          /\ Continue(r, "row") \/ Continue(r, "unkeepSel")
      BY <1>21, KeepControl
    <3> QED
      BY <1>5, <3>1, LabelFacts, ZenonT(30) DEF KeepSteps, ViewSteps
  <2>2. CASE IsKept(Email(r))
    <3>1. Email(r) \in Live /\ SetKept(Email(r), FALSE)
      BY <1>21, <2>2 DEF UnkeepEmail, IsKept
    <3>2. /\ Live' = Live /\ nextTok' = nextTok
          /\ \A i \in Live : emails'[i].preview = emails[i].preview
      BY <1>1, <3>1, SetKeptType
    <3> QED
      BY <1>3, <1>7, <1>21, <2>1, <3>2 DEF UnkeepEmail
  <2>3. CASE ~IsKept(Email(r))
    BY <1>4, <1>7, <1>21, <2>1, <2>3 DEF UnkeepEmail
  <2> QED
    BY <2>2, <2>3
<1>22. CASE UnkeepEmailSelect(r)
  <2>1. Stays(r)
    <3>1. /\ pc[r] = "unkeepSel"
          /\ Continue(r, "row") \/ Answer(r, 404)
      BY <1>22, KeepControl
    <3>2. Continue(r, "row") => Stays(r)
      BY <1>5, <3>1, LabelFacts, ZenonT(30) DEF KeepSteps, ViewSteps
    <3> QED
      BY <1>6, <3>1, <3>2, LabelFacts
  <2> QED
    BY <1>4, <1>7, <1>22, <2>1 DEF UnkeepEmailSelect
<1>23. CASE RegeneratePreviewOTK(r)
  BY <1>1, <1>23, RegenTokens
<1>24. CASE GetLinkOTKs(r)
  <2>1. Goto(r, "idle") /\ call' = call
    BY <1>24 DEF GetLinkOTKs
  <2>2. pc'[r] = "idle" /\ \A q \in Reqs \ {r} : pc'[q] = pc[q]
    BY <1>1, <2>1, GotoType, LabelFacts
  <2>3. Stays(r)
    BY <2>1, <2>2, SMT DEF Stays, ViewSteps, KeepSteps
  <2> QED
    BY <1>4, <1>7, <1>24, <2>3 DEF GetLinkOTKs
<1>25. CASE DeleteEmail(r) \/ DeleteEmails(r)
  <2>1. Stays(r) /\ served' = served
    BY <1>6, <1>7, <1>25, LabelFacts DEF DeleteEmail, DeleteEmails
  <2>2. PICK S : DeleteRows(S)
    BY <1>25 DEF DeleteEmail, DeleteEmails
  <2>3. /\ Live' \subseteq Live /\ nextTok' = nextTok
        /\ \A i \in Live' : emails'[i].preview = emails[i].preview
    BY <1>1, <2>2, DeleteRowsType
  <2> QED
    BY <1>3, <2>1, <2>3
<1> QED
  BY <1>9, <1>10, <1>11, <1>12, <1>13, <1>14, <1>15, <1>16, <1>17, <1>18, <1>19,
     <1>20, <1>21, <1>22, <1>23, <1>24, <1>25 DEF Step

\* A failed statement ends a request's claim, or drops the opened event only.
LEMMA FaultTokens ==
  ASSUME TokenInv, NEW r \in Reqs, Fault(r)
  PROVE  TokenInv'
<1>1. TypeOK /\ TypeOK' /\ StoreTypeOK /\ ReqType
  BY FaultType, TypeParts DEF TokenInv
<1>2. \A q \in Reqs : call'[q].op = call[q].op /\ call'[q].cred = call[q].cred
  BY <1>1 DEF Fault, ReqType
<1>3. /\ pc'[r] = "idle" \/ (pc[r] = "openHook" /\ pc'[r] = "row")
      /\ \A q \in Reqs \ {r} : pc'[q] = pc[q]
  <2>1. CASE At(r, "openHook")
    BY <1>1, <2>1, GotoType, LabelFacts DEF Fault, At
  <2>2. CASE ~At(r, "openHook")
    BY <1>1, <2>2, GotoType, LabelFacts DEF Fault
  <2> QED
    BY <2>1, <2>2
<1>4. Stays(r)
  BY <1>2, <1>3, SMT DEF Stays, ViewSteps, KeepSteps
<1>5. Live' = Live /\ emails' = emails /\ nextTok' = nextTok /\ served' = served
  BY <1>1, UnchangedType DEF Fault, Aside, history
<1>6. nextTok \in Nat /\ nextTok >= nextTok
  BY <1>1, NextTokNat
<1> QED
  BY <1>1, <1>4, <1>5, <1>6, StepFrame

LEMMA TokenStep == TokenInv /\ [Next]_vars => TokenInv'
<1> SUFFICES ASSUME TokenInv, [Next]_vars PROVE TokenInv'
  OBVIOUS
<1>1. TypeOK /\ TypeOK' /\ StoreTypeOK
  BY TypeStep, TypeParts DEF TokenInv
<1>2. nextTok \in Nat /\ nextTok >= nextTok
  BY <1>1, NextTokNat
<1>3. ASSUME NEW r \in Reqs, Start(r) \/ Step(r) \/ Fault(r)
      PROVE  TokenInv'
  BY <1>3, StartTokens, StepTokens, FaultTokens
<1>4. ASSUME UNCHANGED reqVars, nextTok' = nextTok, Live' \subseteq Live,
             \A id \in Live' : emails'[id].preview = emails[id].preview,
             served' = served
      PROVE  TokenInv'
  <2>1. KeepRoute'
    BY <1>4 DEF KeepRoute, TokenInv, reqVars
  <2>2. \A r \in Reqs : Entitled(r)' => Entitled(r) /\ call'[r].cred = call[r].cred
    BY <1>4 DEF Entitled, ByLink, reqVars
  <2> QED
    BY <1>1, <1>2, <1>4, <2>1, <2>2, TokenFrame DEF TokenInv
<1>5. ASSUME UNCHANGED reqVars, UNCHANGED storeVars, served' = served
      PROVE  TokenInv'
  BY <1>1, <1>4, <1>5, UnchangedType
<1>6. CASE CleanStart \/ CleanFail
  BY <1>5, <1>6 DEF CleanStart, CleanFail, history
<1>7. CASE DeleteExpired
  <2>1. /\ Live' \subseteq Live /\ nextTok' = nextTok
        /\ \A i \in Live' : emails'[i].preview = emails[i].preview
    BY <1>1, <1>7, DeleteRowsType DEF DeleteExpired
  <2> QED
    BY <1>4, <1>7, <2>1 DEF DeleteExpired
<1>8. CASE TimePasses
  <2>1. emails' = emails /\ nextTok' = nextTok /\ Live' = Live
    BY <1>1, <1>8, TickType DEF TimePasses, Live
  <2> QED
    BY <1>4, <1>8, <2>1 DEF TimePasses, history
<1>9. CASE UNCHANGED vars
  BY <1>5, <1>9 DEF vars, history
<1> QED
  BY <1>3, <1>6, <1>7, <1>8, <1>9 DEF Next

(* Each preview token is in one row, or with one request in flight, or     *)
(* spent, however many handlers insert, consume and regenerate tokens.     *)
THEOREM TokensInOnePlace == Spec => []TokenInOnePlace
<1>1. Init => TokenInv
  BY InitTokens
<1>2. TokenInv /\ [Next]_vars => TokenInv'
  BY TokenStep
<1>3. TokenInv => TokenInOnePlace
  BY DEF TokenInv
<1> QED
  BY <1>1, <1>2, <1>3, PTL DEF Spec

(* A preview link shows its email at most once, for any number of requests *)
(* racing with the same link.                                              *)
THEOREM OneView == Spec => []OneViewPerToken
<1>1. Init => TokenInv
  BY InitTokens
<1>2. TokenInv /\ [Next]_vars => TokenInv'
  BY TokenStep
<1>3. TokenInv => OneViewPerToken
  BY DEF TokenInv
<1> QED
  BY <1>1, <1>2, <1>3, PTL DEF Spec
============================================================================
