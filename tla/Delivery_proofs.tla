-------------------------- MODULE Delivery_proofs --------------------------
(***************************************************************************)
(* What Postfix forgets is stored, for any number of messages, recipients, *)
(* handlers, crashes, lost connections and rotations.                      *)
(***************************************************************************)
EXTENDS Delivery, TLAPS

\* ingest and mq are functions whose values have the fields that count.
MailShape ==
    /\ mq = [m \in Msgs |-> mq[m]]
    /\ ingest = [h \in Handlers |-> ingest[h]]
    /\ \A h \in Handlers : /\ "at" \in DOMAIN ingest[h]
                           /\ "msg" \in DOMAIN ingest[h]
    /\ stored \in [Msgs -> [Rcpts -> Nat]]
    /\ to = [m \in Msgs |-> to[m]]

\* A message that arrived has recipients.
Addressed == \A m \in Msgs : mq[m] # "new" => to[m] # {} /\ to[m] \subseteq Rcpts

Paid(m) == stored[m][Named(m)] > 0

\* A handler works on a message that arrived, and answers once it is stored.
Pending(ing, q) ==
    \A h \in Handlers : ing[h].at # "idle" =>
        /\ ing[h].msg \in Msgs
        /\ q[ing[h].msg] # "new"
        /\ ing[h].at = "answer" => Paid(ing[h].msg)

\* The row is the one of the recipient that was named.
Forgotten(q) == \A m \in Msgs : q[m] \in {"taken", "done"} => Paid(m)

MailInv ==
    /\ MailShape
    /\ Addressed
    /\ Pending(ingest, mq)
    /\ Forgotten(mq)

\* Steps that leave the recipients and the table alone.
LEMMA QueueStep ==
    ASSUME MailInv, MailShape',
           \A m \in Msgs : mq'[m] # "new" => mq[m] # "new",
           UNCHANGED <<to, stored>>,
           Pending(ingest', mq'),
           Forgotten(mq')
    PROVE  MailInv'
<1>1. \A m : Named(m)' = Named(m)
      BY Zenon DEF Named
<1>2. \A m : Paid(m)' <=> Paid(m)
      BY <1>1, Zenon DEF Paid
<1>3. Addressed'
      BY Zenon DEF MailInv, Addressed
<1>4. Pending(ingest, mq)'
      BY <1>2, Zenon DEF Pending
<1>5. Forgotten(mq)'
      BY <1>2, Zenon DEF Forgotten
<1>. QED  BY <1>3, <1>4, <1>5 DEF MailInv

LEMMA IdleShape == "at" \in DOMAIN Idle /\ "msg" \in DOMAIN Idle /\ Idle.at = "idle"
BY Zenon DEF Idle

LEMMA GotoShape ==
    ASSUME NEW r, "at" \in DOMAIN r, "msg" \in DOMAIN r, NEW s
    PROVE  /\ "at" \in DOMAIN [r EXCEPT !.at = s]
           /\ "msg" \in DOMAIN [r EXCEPT !.at = s]
           /\ [r EXCEPT !.at = s].at = s
           /\ [r EXCEPT !.at = s].msg = r.msg
BY Zenon

LEMMA ClientShape ==
    ASSUME NEW r, "at" \in DOMAIN r, "msg" \in DOMAIN r
    PROVE  /\ "at" \in DOMAIN [r EXCEPT !.client = FALSE]
           /\ "msg" \in DOMAIN [r EXCEPT !.client = FALSE]
           /\ [r EXCEPT !.client = FALSE].at = r.at
           /\ [r EXCEPT !.client = FALSE].msg = r.msg
BY Zenon

\* A handler becomes idle and its message changes its place in the queue.
LEMMA EndStep ==
    ASSUME MailInv, NEW h \in Handlers, ingest[h].at # "idle",
           ingest' = [ingest EXCEPT ![h] = Idle],
           NEW s, s # "new", s \in {"taken", "done"} => ingest[h].at = "answer",
           \/ mq' = [mq EXCEPT ![ingest[h].msg] = s]
           \/ mq' = mq,
           UNCHANGED <<to, stored>>
    PROVE  MailInv'
<1> DEFINE n == ingest[h].msg
<1>1. n \in Msgs /\ mq[n] # "new" /\ (s \in {"taken", "done"} => Paid(n))
      BY Zenon DEF MailInv, Pending
<1>2. \A k \in Handlers : ingest'[k] = IF k = h THEN Idle ELSE ingest[k]
      BY Zenon DEF MailInv, MailShape
<1>3. \A m \in Msgs : mq'[m] = mq[m] \/ (m = n /\ mq'[m] = s)
      BY Zenon DEF MailInv, MailShape
<1>4. mq' = [m \in Msgs |-> mq'[m]]
      BY <1>1, Zenon DEF MailInv, MailShape
<1>5. ingest' = [k \in Handlers |-> ingest'[k]]
      BY Zenon DEF MailInv, MailShape
<1>6. \A k \in Handlers : "at" \in DOMAIN ingest'[k] /\ "msg" \in DOMAIN ingest'[k]
      BY <1>2, IdleShape, Zenon DEF MailInv, MailShape
<1>7. MailShape'
      BY <1>4, <1>5, <1>6, Zenon DEF MailInv, MailShape
<1>8. Pending(ingest', mq')
  <2> SUFFICES ASSUME NEW k \in Handlers, ingest'[k].at # "idle"
               PROVE  /\ ingest'[k].msg \in Msgs
                      /\ mq'[ingest'[k].msg] # "new"
                      /\ ingest'[k].at = "answer" => Paid(ingest'[k].msg)
      BY Zenon DEF Pending
  <2>1. k # h /\ ingest'[k] = ingest[k]
        BY <1>2, IdleShape, Zenon
  <2>2. /\ ingest[k].msg \in Msgs
        /\ mq[ingest[k].msg] # "new"
        /\ ingest[k].at = "answer" => Paid(ingest[k].msg)
        BY <2>1, Zenon DEF MailInv, Pending
  <2>. QED  BY <1>3, <2>1, <2>2, Zenon
<1>9. Forgotten(mq')
      BY <1>1, <1>3, Zenon DEF MailInv, Forgotten
<1>10. \A m \in Msgs : mq'[m] # "new" => mq[m] # "new"
      BY <1>1, <1>3, Zenon
<1>. QED  BY <1>7, <1>8, <1>9, <1>10, QueueStep

\* A handler goes on without storing anything.
LEMMA GotoStep ==
    ASSUME MailInv, NEW h \in Handlers, ingest[h].at # "idle", NEW s, s # "answer",
           Goto(h, s), UNCHANGED <<mq, to, stored>>
    PROVE  MailInv'
<1>1. \A k \in Handlers : ingest'[k] = IF k = h THEN [ingest[h] EXCEPT !.at = s] ELSE ingest[k]
      BY Zenon DEF MailInv, MailShape, Goto
<1>2. /\ "at" \in DOMAIN [ingest[h] EXCEPT !.at = s]
      /\ "msg" \in DOMAIN [ingest[h] EXCEPT !.at = s]
      /\ [ingest[h] EXCEPT !.at = s].at = s
      /\ [ingest[h] EXCEPT !.at = s].msg = ingest[h].msg
  <2>1. "at" \in DOMAIN ingest[h] /\ "msg" \in DOMAIN ingest[h]
        BY Zenon DEF MailInv, MailShape
  <2>. QED  BY <2>1, GotoShape
<1>3. ingest' = [k \in Handlers |-> ingest'[k]]
      BY Zenon DEF MailInv, MailShape, Goto
<1>4. MailShape'
      BY <1>1, <1>2, <1>3, Zenon DEF MailInv, MailShape
<1>5. Pending(ingest', mq')
      BY <1>1, <1>2, Zenon DEF MailInv, Pending
<1>6. Forgotten(mq')
      BY Zenon DEF MailInv
<1>. QED  BY <1>4, <1>5, <1>6, QueueStep

\* Attempts are cut off: their handlers go, or go on without a client.
LEMMA CutStep ==
    ASSUME MailInv, NEW S, Cut(S), \A m \in Msgs \cap S : mq[m] # "new",
           ingest' = [h \in Handlers |-> ingest'[h]],
           \A h \in Handlers : \/ ingest'[h] = Idle
                               \/ ingest'[h] = ingest[h]
                               \/ ingest'[h] = [ingest[h] EXCEPT !.client = FALSE],
           UNCHANGED <<to, stored>>
    PROVE  MailInv'
<1>1. \A m \in Msgs : mq'[m] = mq[m] \/ (m \in S /\ mq'[m] = "queued")
      BY Zenon DEF Cut
<1>2. \A h \in Handlers :
         /\ "at" \in DOMAIN ingest'[h] /\ "msg" \in DOMAIN ingest'[h]
         /\ \/ ingest'[h].at = "idle"
            \/ ingest'[h].at = ingest[h].at /\ ingest'[h].msg = ingest[h].msg
  <2> SUFFICES ASSUME NEW h \in Handlers
               PROVE  /\ "at" \in DOMAIN ingest'[h] /\ "msg" \in DOMAIN ingest'[h]
                      /\ \/ ingest'[h].at = "idle"
                         \/ ingest'[h].at = ingest[h].at /\ ingest'[h].msg = ingest[h].msg
      OBVIOUS
  <2>1. "at" \in DOMAIN ingest[h] /\ "msg" \in DOMAIN ingest[h]
        BY Zenon DEF MailInv, MailShape
  <2>2. CASE ingest'[h] = [ingest[h] EXCEPT !.client = FALSE]
        BY <2>1, <2>2, ClientShape, Zenon
  <2>3. CASE ingest'[h] = Idle
        BY <2>3, IdleShape, Zenon
  <2>4. CASE ingest'[h] = ingest[h]
        BY <2>1, <2>4, Zenon
  <2>. QED  BY <2>2, <2>3, <2>4
<1>3. mq' = [m \in Msgs |-> mq'[m]]
      BY Zenon DEF Cut
<1>4. MailShape'
      BY <1>2, <1>3, Zenon DEF MailInv, MailShape
<1>5. Pending(ingest', mq')
      BY <1>1, <1>2, Zenon DEF MailInv, Pending
<1>6. Forgotten(mq')
      BY <1>1, Zenon DEF MailInv, Forgotten
<1>7. \A m \in Msgs : mq'[m] # "new" => mq[m] # "new"
      BY <1>1, Zenon
<1>. QED  BY <1>4, <1>5, <1>6, <1>7, QueueStep

LEMMA MailInitInv == Init => MailInv
<1> SUFFICES ASSUME Init PROVE MailInv
    OBVIOUS
<1>1. stored \in [Msgs -> [Rcpts -> Nat]]
      BY SMT DEF Init
<1>2. ingest = [h \in Handlers |-> Idle] /\ mq = [m \in Msgs |-> "new"]
      BY DEF Init
<1>3. to = [m \in Msgs |-> to[m]]
      BY Zenon DEF Init
<1>4. MailShape
      BY <1>1, <1>2, <1>3, IdleShape, Zenon DEF MailShape
<1>5. Addressed /\ Pending(ingest, mq) /\ Forgotten(mq)
      BY <1>2, IdleShape, Zenon DEF Addressed, Pending, Forgotten
<1>. QED  BY <1>4, <1>5 DEF MailInv

LEMMA ReceiveStep == ASSUME MailInv, NEW m \in Msgs, Receive(m) PROVE MailInv'
<1>1. PICK S \in (SUBSET Rcpts) \ {{}} : to' = [to EXCEPT ![m] = S]
      BY Zenon DEF Receive
<1>2. /\ mq[m] = "new"
      /\ mq' = [mq EXCEPT ![m] = "queued"]
      /\ UNCHANGED <<ingest, stored>>
      BY Zenon DEF Receive
<1>3. \A k \in Msgs : /\ mq'[k] = IF k = m THEN "queued" ELSE mq[k]
                      /\ to'[k] = IF k = m THEN S ELSE to[k]
      BY <1>1, <1>2, Zenon DEF MailInv, MailShape
<1>4. \A k \in Msgs : k # m => (Paid(k)' <=> Paid(k))
      BY <1>2, <1>3, Zenon DEF Paid, Named
<1>5. MailShape'
      BY <1>1, <1>2, Zenon DEF MailInv, MailShape
<1>6. Addressed'
      BY <1>3, Zenon DEF MailInv, Addressed
<1>7. Pending(ingest, mq)'
  <2> SUFFICES ASSUME NEW h \in Handlers, ingest'[h].at # "idle"
               PROVE  /\ (ingest[h].msg \in Msgs)'
                      /\ (mq[ingest[h].msg] # "new")'
                      /\ (ingest[h].at = "answer" => Paid(ingest[h].msg))'
      BY Zenon DEF Pending
  <2>0. PICK n : n = ingest[h].msg
        OBVIOUS
  <2>1. n \in Msgs /\ mq[n] # "new" /\ (ingest[h].at = "answer" => Paid(n))
        BY <1>2, <2>0, Zenon DEF MailInv, Pending
  <2>2. n # m /\ mq'[n] # "new"
        BY <1>2, <1>3, <2>1, Zenon
  <2>3. ingest[h].at = "answer" => Paid(n)'
        BY <1>4, <2>1, <2>2, Zenon
  <2>4. Paid(n)' => Paid(ingest[h].msg)'
        BY <1>2, <2>0, Zenon DEF Paid, Named
  <2>. QED  BY <1>2, <2>0, <2>1, <2>2, <2>3, <2>4, Zenon
<1>8. Forgotten(mq)'
  <2> SUFFICES ASSUME NEW k \in Msgs, mq'[k] \in {"taken", "done"}
               PROVE  Paid(k)'
      BY Zenon DEF Forgotten
  <2>1. k # m /\ mq[k] \in {"taken", "done"}
        BY <1>3, Zenon
  <2>. QED  BY <1>4, <2>1, Zenon DEF MailInv, Forgotten
<1>. QED  BY <1>5, <1>6, <1>7, <1>8 DEF MailInv

LEMMA AttemptStep == ASSUME MailInv, NEW m \in Msgs, Attempt(m) PROVE MailInv'
<1> DEFINE rec == [at |-> "auth", msg |-> m, token |-> token, client |-> TRUE]
<1>1. PICK h \in Handlers : ingest' = [ingest EXCEPT ![h] = rec]
      BY Zenon DEF Attempt
<1>2. /\ mq[m] = "queued"
      /\ mq' = [mq EXCEPT ![m] = "active"]
      /\ UNCHANGED <<to, stored>>
      BY Zenon DEF Attempt
<1>3. "at" \in DOMAIN rec /\ "msg" \in DOMAIN rec /\ rec.at = "auth" /\ rec.msg = m
      BY Zenon
<1> HIDE DEF rec
<1>4. \A k \in Handlers : ingest'[k] = IF k = h THEN rec ELSE ingest[k]
      BY <1>1, Zenon DEF MailInv, MailShape
<1>5. \A k \in Msgs : mq'[k] = IF k = m THEN "active" ELSE mq[k]
      BY <1>2, Zenon DEF MailInv, MailShape
<1>6. MailShape'
  <2>1. mq' = [k \in Msgs |-> mq'[k]] /\ ingest' = [k \in Handlers |-> ingest'[k]]
        BY <1>1, <1>2, Zenon DEF MailInv, MailShape
  <2>2. \A k \in Handlers : "at" \in DOMAIN ingest'[k] /\ "msg" \in DOMAIN ingest'[k]
        BY <1>3, <1>4, Zenon DEF MailInv, MailShape
  <2>. QED  BY <1>2, <2>1, <2>2, Zenon DEF MailInv, MailShape
<1>7. Pending(ingest', mq')
  <2> SUFFICES ASSUME NEW k \in Handlers, ingest'[k].at # "idle"
               PROVE  /\ ingest'[k].msg \in Msgs
                      /\ mq'[ingest'[k].msg] # "new"
                      /\ ingest'[k].at = "answer" => Paid(ingest'[k].msg)
      BY Zenon DEF Pending
  <2>1. CASE k = h
        BY <1>3, <1>4, <1>5, <2>1, Zenon
  <2>2. CASE k # h
    <3>1. ingest'[k] = ingest[k]
          BY <1>4, <2>2, Zenon
    <3>2. /\ ingest[k].msg \in Msgs
          /\ mq[ingest[k].msg] # "new"
          /\ ingest[k].at = "answer" => Paid(ingest[k].msg)
          BY <3>1, Zenon DEF MailInv, Pending
    <3>. QED  BY <1>5, <3>1, <3>2, Zenon
  <2>. QED  BY <2>1, <2>2
<1>8. Forgotten(mq')
      BY <1>5, Zenon DEF MailInv, Forgotten
<1>9. \A k \in Msgs : mq'[k] # "new" => mq[k] # "new"
      BY <1>2, <1>5, Zenon
<1>. QED  BY <1>2, <1>6, <1>7, <1>8, <1>9, QueueStep

\* Postfix moves a message that is not new within the queue.
LEMMA MoveStep ==
    ASSUME MailInv, NEW m \in Msgs, mq[m] # "new", NEW s, s # "new",
           mq' = [mq EXCEPT ![m] = s],
           s \in {"taken", "done"} => mq[m] \in {"taken", "done"},
           UNCHANGED <<ingest, to, stored>>
    PROVE  MailInv'
<1>1. \A k \in Msgs : mq'[k] = IF k = m THEN s ELSE mq[k]
      BY Zenon DEF MailInv, MailShape
<1>2. MailShape'
      BY Zenon DEF MailInv, MailShape
<1>3. Pending(ingest', mq')
      BY <1>1, Zenon DEF MailInv, Pending
<1>4. Forgotten(mq')
      BY <1>1, Zenon DEF MailInv, Forgotten
<1>5. \A k \in Msgs : mq'[k] # "new" => mq[k] # "new"
      BY <1>1, Zenon
<1>. QED  BY <1>2, <1>3, <1>4, <1>5, QueueStep

LEMMA InsertStep == ASSUME MailInv, NEW h \in Handlers, InsertEmail(h) PROVE MailInv'
<1>0. PICK n, a : n = ingest[h].msg /\ a = Named(n)
      BY Zenon
<1>1. /\ ingest[h].at = "insert"
      /\ stored' = [stored EXCEPT ![n][a] = @ + 1]
      /\ ingest' = [ingest EXCEPT ![h].at = "answer"]
      /\ UNCHANGED <<mq, to>>
      BY <1>0, Zenon DEF InsertEmail, At, Goto
<1>2. n \in Msgs /\ mq[n] # "new"
      BY <1>0, <1>1, Zenon DEF MailInv, Pending
<1>3. \A m \in Msgs : mq[m] # "new" => Named(m) \in Rcpts
  <2> SUFFICES ASSUME NEW m \in Msgs, mq[m] # "new"
               PROVE  Named(m) \in Rcpts
      OBVIOUS
  <2>1. to[m] # {} /\ to[m] \subseteq Rcpts
        BY Zenon DEF MailInv, Addressed
  <2>2. Named(m) \in to[m]
        BY <2>1, Zenon DEF Named
  <2>. QED  BY <2>1, <2>2, Zenon
<1>4. /\ stored' \in [Msgs -> [Rcpts -> Nat]]
      /\ stored'[n][a] > 0
      /\ \A m \in Msgs, b \in Rcpts : stored[m][b] > 0 => stored'[m][b] > 0
  <2>1. stored \in [Msgs -> [Rcpts -> Nat]]
        BY Zenon DEF MailInv, MailShape
  <2>2. a \in Rcpts
        BY <1>0, <1>2, <1>3, Zenon
  <2>. QED  BY <1>1, <1>2, <2>1, <2>2, SMT
<1>5. \A m : Named(m)' = Named(m)
      BY <1>1, Zenon DEF Named
<1>6. \A m \in Msgs : mq[m] # "new" /\ Paid(m) => Paid(m)'
      BY <1>3, <1>4, <1>5, Zenon DEF Paid
<1>7. Paid(n)'
  <2>1. Named(n)' = a
        BY <1>0, <1>5, Zenon
  <2>. QED  BY <1>4, <2>1, Zenon DEF Paid
<1>8. \A k \in Handlers : /\ "at" \in DOMAIN ingest'[k] /\ "msg" \in DOMAIN ingest'[k]
                          /\ ingest'[k].msg = ingest[k].msg
                          /\ k # h => ingest'[k] = ingest[k]
  <2>1. \A k \in Handlers : ingest'[k] = IF k = h THEN [ingest[h] EXCEPT !.at = "answer"]
                                                  ELSE ingest[k]
        BY <1>1, Zenon DEF MailInv, MailShape
  <2>2. \A k \in Handlers : "at" \in DOMAIN ingest[k] /\ "msg" \in DOMAIN ingest[k]
        BY Zenon DEF MailInv, MailShape
  <2>3. /\ "at" \in DOMAIN [ingest[h] EXCEPT !.at = "answer"]
        /\ "msg" \in DOMAIN [ingest[h] EXCEPT !.at = "answer"]
        /\ [ingest[h] EXCEPT !.at = "answer"].msg = ingest[h].msg
        BY <2>2, GotoShape
  <2>. QED  BY <2>1, <2>2, <2>3, Zenon
<1>9. MailShape'
  <2>1. ingest' = [k \in Handlers |-> ingest'[k]]
        BY <1>1, Zenon DEF MailInv, MailShape
  <2>. QED  BY <1>1, <1>4, <1>8, <2>1, Zenon DEF MailInv, MailShape
<1>10. Addressed'
      BY <1>1, Zenon DEF MailInv, Addressed
<1>11. Pending(ingest, mq)'
  <2> SUFFICES ASSUME NEW k \in Handlers, ingest'[k].at # "idle"
               PROVE  /\ (ingest[k].msg \in Msgs)'
                      /\ (mq[ingest[k].msg] # "new")'
                      /\ (ingest[k].at = "answer" => Paid(ingest[k].msg))'
      BY Zenon DEF Pending
  <2>0. PICK i : i = ingest[k].msg
        OBVIOUS
  <2>1. ingest'[k].msg = i
        BY <1>8, <2>0, Zenon
  <2>2. i \in Msgs /\ mq[i] # "new"
    <3>1. CASE k = h
          BY <1>0, <1>2, <2>0, <3>1, Zenon
    <3>2. CASE k # h
          BY <1>8, <2>0, <3>2, Zenon DEF MailInv, Pending
    <3>. QED  BY <3>1, <3>2
  <2>3. ingest'[k].at = "answer" => Paid(i)'
    <3>1. CASE k = h
      <4>1. i = n
            BY <1>0, <2>0, <3>1, Zenon
      <4>. QED  BY <1>7, <4>1, Zenon DEF Paid, Named
    <3>2. CASE k # h
      <4>1. ingest'[k].at = "answer" => Paid(i)
            BY <1>8, <2>0, <3>2, Zenon DEF MailInv, Pending
      <4>. QED  BY <1>6, <2>2, <4>1, Zenon
    <3>. QED  BY <3>1, <3>2
  <2>4. Paid(i)' => Paid(ingest[k].msg)'
        BY <2>1, Zenon DEF Paid, Named
  <2>. QED  BY <1>1, <2>1, <2>2, <2>3, <2>4, Zenon
<1>12. Forgotten(mq)'
  <2> SUFFICES ASSUME NEW m \in Msgs, mq'[m] \in {"taken", "done"}
               PROVE  Paid(m)'
      BY Zenon DEF Forgotten
  <2>1. mq[m] # "new" /\ Paid(m)
        BY <1>1, Zenon DEF MailInv, Forgotten
  <2>. QED  BY <1>6, <2>1, Zenon
<1>. QED  BY <1>9, <1>10, <1>11, <1>12 DEF MailInv

LEMMA MailNextInv == MailInv /\ [Next]_vars => MailInv'
<1> SUFFICES ASSUME MailInv, [Next]_vars
             PROVE  MailInv'
    OBVIOUS
<1>0. ASSUME UNCHANGED mailVars
      PROVE  MailInv'
  <2>1. UNCHANGED <<mq, ingest, to, stored>>
        BY <1>0, Zenon DEF mailVars
  <2>. QED  BY <2>1, QueueStep, Zenon DEF MailInv, MailShape
<1>1. ASSUME NEW m \in Msgs, Receive(m) \/ Attempt(m) \/ Remove(m) \/ Bounce(m)
      PROVE  MailInv'
  <2>1. CASE Receive(m)
        BY <2>1, ReceiveStep
  <2>2. CASE Attempt(m)
        BY <2>2, AttemptStep
  <2>3. CASE Remove(m)
        BY <2>3, MoveStep, Zenon DEF Remove
  <2>4. CASE Bounce(m)
        BY <2>4, MoveStep, Zenon DEF Bounce
  <2>. QED  BY <1>1, <2>1, <2>2, <2>3, <2>4
<1>2. ASSUME NEW h \in Handlers, Handle(h) \/ InsertFails(h) \/ Disconnect(h)
      PROVE  MailInv'
  <2>1. CASE Authorize(h)
    <3>1. ingest[h].at # "idle" /\ UNCHANGED <<to, stored>>
          BY <2>1, Zenon DEF Authorize, At
    <3>2. CASE Goto(h, "parse") /\ UNCHANGED mq
          BY <3>1, <3>2, GotoStep, Zenon
    <3>3. CASE Respond(h, 401)
      <4>1. ~Accepted(401)
            BY SMT DEF Accepted
      <4>2. /\ ingest' = [ingest EXCEPT ![h] = Idle]
            /\ \/ mq' = [mq EXCEPT ![ingest[h].msg] = "queued"]
               \/ mq' = mq
            BY <3>3, <4>1, Zenon DEF Respond
      <4>3. "queued" # "new" /\ "queued" \notin {"taken", "done"}
            OBVIOUS
      <4>. QED  BY <3>1, <4>2, <4>3, EndStep
    <3>. QED  BY <2>1, <3>2, <3>3, Zenon DEF Authorize
  <2>2. CASE ParseRaw(h)
    <3>1. ingest[h].at # "idle" /\ UNCHANGED <<to, stored>>
          BY <2>2, Zenon DEF ParseRaw, At
    <3>2. CASE Goto(h, "insert") /\ UNCHANGED mq
          BY <3>1, <3>2, GotoStep, Zenon
    <3>3. CASE Respond(h, 400)
      <4>1. ~Accepted(400)
            BY SMT DEF Accepted
      <4>2. /\ ingest' = [ingest EXCEPT ![h] = Idle]
            /\ \/ mq' = [mq EXCEPT ![ingest[h].msg] = "queued"]
               \/ mq' = mq
            BY <3>3, <4>1, Zenon DEF Respond
      <4>3. "queued" # "new" /\ "queued" \notin {"taken", "done"}
            OBVIOUS
      <4>. QED  BY <3>1, <4>2, <4>3, EndStep
    <3>. QED  BY <2>2, <3>2, <3>3, Zenon DEF ParseRaw
  <2>3. CASE InsertEmail(h)
        BY <2>3, InsertStep
  <2>4. CASE Answer(h)
    <3>1. ingest[h].at = "answer" /\ UNCHANGED <<to, stored>> /\ Respond(h, 201)
          BY <2>4, Zenon DEF Answer, At
    <3>. QED  BY <3>1, EndStep, Zenon DEF Respond, Accepted
  <2>5. CASE InsertFails(h)
        BY <2>5, EndStep, Zenon DEF InsertFails, At
  <2>6. CASE Disconnect(h)
    <3>0. PICK n : n = ingest[h].msg
          OBVIOUS
    <3>1. ingest[h].at # "idle" /\ Cut({n}) /\ UNCHANGED <<to, stored>>
          BY <2>6, <3>0, Zenon DEF Disconnect, At
    <3>2. mq[n] # "new"
          BY <3>0, <3>1, Zenon DEF MailInv, Pending
    <3>3. ingest' = [ingest EXCEPT ![h].client = FALSE]
          BY <2>6, Zenon DEF Disconnect
    <3>4. /\ ingest' = [k \in Handlers |-> ingest'[k]]
          /\ \A k \in Handlers : \/ ingest'[k] = ingest[k]
                                 \/ ingest'[k] = [ingest[k] EXCEPT !.client = FALSE]
          BY <3>3, Zenon DEF MailInv, MailShape
    <3>. QED  BY <3>1, <3>2, <3>4, CutStep, Zenon
  <2>. QED  BY <1>2, <2>1, <2>2, <2>3, <2>4, <2>5, <2>6, Zenon DEF Handle
<1>3. CASE APIBoots \/ PostfixStarts
      BY <1>0, <1>3, Zenon DEF APIBoots, PostfixStarts
<1>4. CASE APICrashes
      BY <1>4, CutStep, Zenon DEF APICrashes, InState
<1>5. CASE PostfixStops
      BY <1>5, CutStep, Zenon DEF PostfixStops, InState
<1>6. CASE StackRotates
      BY <1>6, CutStep, Zenon DEF StackRotates, InState
<1>7. CASE UNCHANGED vars
      BY <1>0, <1>7, Zenon DEF vars
<1>. QED  BY <1>1, <1>2, <1>3, <1>4, <1>5, <1>6, <1>7, Zenon DEF Next

(* What Postfix forgets is in the table under the recipient that was named: *)
(* no crash, lost connection, failed insert, refused key or rotation        *)
(* between the queue and the table loses a message.                         *)
THEOREM NothingForgotten == Spec => []RemovedMeansStored
<1>1. MailInv => RemovedMeansStored
  <2> SUFFICES ASSUME MailInv, NEW m \in InState({"taken", "done"})
               PROVE  \E a \in to[m] : stored[m][a] > 0
      BY Zenon DEF RemovedMeansStored
  <2>1. m \in Msgs /\ mq[m] \in {"taken", "done"}
        BY Zenon DEF InState
  <2>2. to[m] # {} /\ Paid(m)
        BY <2>1, Zenon DEF MailInv, Addressed, Forgotten
  <2>3. Named(m) \in to[m]
        BY <2>2, Zenon DEF Named
  <2>. QED  BY <2>2, <2>3, Zenon DEF Paid
<1>. QED  BY <1>1, MailInitInv, MailNextInv, PTL DEF Spec
============================================================================
