----------------------------- MODULE AiRunProofs -----------------------------
(***************************************************************************)
(* What AiRun keeps, whatever the triggers, engines, callback requests and *)
(* reviewers: whole answers, one active run, one reply to a trigger and    *)
(* decisions that stand.                                                   *)
(***************************************************************************)
EXTENDS AiRun, TLAPS, FiniteSetTheorems

(* The type invariant, in the parts the actions leave alone one by one.    *)
StatusOK   == status \in [Runs -> {"none"} \cup Active \cup Ended]
ExpectedOK == expected \in [Runs -> 1..MaxSeq + 1]
ConvsOK    == convs \subseteq Runs /\ locked \subseteq Runs
SessionOK  == session \in [Runs -> Runs \cup {Nobody}]
TriggerOK  ==
  /\ trigger \in [Runs -> {"no", "open", "accepted", "refused", "over"}]
  /\ turn    \in [Runs -> 0..MaxSeq]
StoredOK   == stored \subseteq Callback
HandlerOK  == handler \in [Handlers -> Reading \cup {Nobody}]
TaskOK     == task \in [Runs -> {"none", "queued", "dropping", "calling", "settling", "over"}]
CancelOK   == cancelling \subseteq Runs
ClockOK    == overdue \subseteq Runs /\ sweep \subseteq Runs
ReviewOK   ==
  /\ made     \in [Runs -> Nat]
  /\ parts    \in [Runs -> SUBSET (1..MaxSeq)]
  /\ approval \in [Runs -> {"none", "pending", "approved", "rejected"}]
  /\ aged     \subseteq Runs
  /\ judging  \in [Reviewers -> Decision \cup {Nobody}]
  /\ jobs     \in [Runs -> Nat]

LEMMA TypeParts ==
  /\ TypeOK <=> /\ StatusOK /\ ExpectedOK /\ ConvsOK /\ SessionOK /\ TriggerOK /\ StoredOK
                /\ HandlerOK /\ TaskOK /\ CancelOK /\ ClockOK /\ ReviewOK
  /\ TypeOK' <=> /\ StatusOK' /\ ExpectedOK' /\ ConvsOK' /\ SessionOK' /\ TriggerOK'
                 /\ StoredOK' /\ HandlerOK' /\ TaskOK' /\ CancelOK' /\ ClockOK' /\ ReviewOK'
BY DEF TypeOK, StatusOK, ExpectedOK, ConvsOK, SessionOK, TriggerOK, StoredOK, HandlerOK,
       TaskOK, CancelOK, ClockOK, ReviewOK

(* A part nobody touches keeps its type.                                   *)
LEMMA PartsStay ==
  /\ StatusOK /\ UNCHANGED status => StatusOK'
  /\ ExpectedOK /\ UNCHANGED expected => ExpectedOK'
  /\ ConvsOK /\ UNCHANGED <<convs, locked>> => ConvsOK'
  /\ SessionOK /\ UNCHANGED session => SessionOK'
  /\ TriggerOK /\ UNCHANGED <<trigger, turn>> => TriggerOK'
  /\ StoredOK /\ UNCHANGED stored => StoredOK'
  /\ HandlerOK /\ UNCHANGED handler => HandlerOK'
  /\ TaskOK /\ UNCHANGED task => TaskOK'
  /\ CancelOK /\ UNCHANGED cancelling => CancelOK'
  /\ ClockOK /\ UNCHANGED clock => ClockOK'
  /\ ReviewOK /\ UNCHANGED review => ReviewOK'
BY DEF StatusOK, ExpectedOK, ConvsOK, SessionOK, TriggerOK, StoredOK, HandlerOK,
       TaskOK, CancelOK, ClockOK, ReviewOK, clock, review

LEMMA ReadingFields ==
  ASSUME HandlerOK, NEW h \in Handlers, handler[h] # Nobody
  PROVE  /\ handler[h].to \in Runs
         /\ handler[h].seq \in 1..MaxSeq
         /\ handler[h].run \in Runs \cup {Nobody}
         /\ handler[h].exp \in 1..MaxSeq + 1
BY DEF HandlerOK, Reading

LEMMA DecisionFields ==
  ASSUME ReviewOK, NEW v \in Reviewers, judging[v] # Nobody
  PROVE  /\ judging[v].run \in Runs
         /\ judging[v].verdict \in {"approved", "rejected"}
BY DEF ReviewOK, Decision

LEMMA InitTypes == Init => TypeOK
BY ConstantsAssumption DEF Init, TypeOK, ConstantsAssumption

(* What an offer leaves.                                                   *)
LEMMA OfferTypes ==
  ASSUME ReviewOK, NEW r \in Runs, NEW text \in SUBSET (1..MaxSeq), NEW auto,
         Offer(r, text, auto)
  PROVE  ReviewOK'
<1>1. made' \in [Runs -> Nat] BY DEF ReviewOK, Offer
<1>2. parts' \in [Runs -> SUBSET (1..MaxSeq)] BY DEF ReviewOK, Offer
<1>3. approval' \in [Runs -> {"none", "pending", "approved", "rejected"}]
  BY DEF ReviewOK, Offer
<1>4. jobs' \in [Runs -> Nat] BY DEF ReviewOK, Offer
<1> QED BY <1>1, <1>2, <1>3, <1>4 DEF ReviewOK, Offer

LEMMA FinishTypes ==
  ASSUME StatusOK, ConvsOK, NEW r \in Runs, NEW st \in Ended, Finish(r, st)
  PROVE  StatusOK' /\ locked' \subseteq Runs
BY DEF StatusOK, ConvsOK, Finish

-----------------------------------------------------------------------------
(* What is true of a run by how far its trigger and its task have come,    *)
(* and of those who have read it as active.                                *)
RunsOK ==
  \A r \in Runs :
    /\ trigger[r] # "no" => session[r] \in Runs
    /\ trigger[r] # "over" => status[r] = "none"
    /\ status[r] # "none" => session[r] \in convs
    /\ turn[r] # 0 => trigger[r] \notin {"no", "open"} /\ Engine[r] = "langbot"
    /\ task[r] # "none" => Engine[r] = "deferred" /\ trigger[r] # "no"
    /\ task[r] \in {"dropping", "settling"} => status[r] # "none"
    /\ Engine[r] = "person" => trigger[r] = "no"

HoldersOK ==
  /\ \A r \in cancelling \cup sweep : status[r] # "none"
  /\ \A h \in Handlers : handler[h] # Nobody /\ handler[h].run # Nobody
       => status[handler[h].run] # "none"

Base == TypeOK /\ RunsOK /\ HoldersOK

(* A committed run stays committed.                                        *)
Lasting == \A r \in Runs : status[r] # "none" => status'[r] # "none"

LEMMA FinishLasts ==
  ASSUME StatusOK, NEW r \in Runs, NEW st \in Ended, Finish(r, st)
  PROVE  Lasting
BY DEF StatusOK, Finish, Lasting, Ended

(* Steps that only move runs that are there, or their tasks.               *)
LEMMA RunsStay ==
  ASSUME RunsOK, Lasting, UNCHANGED <<session, trigger, turn>>, convs \subseteq convs',
         \A r \in Runs : status[r] = "none" => status'[r] = "none",
         \A r \in Runs : \/ task'[r] = task[r]
                         \/ /\ task[r] # "none"
                            /\ task'[r] \in {"dropping", "settling"} => status[r] # "none"
  PROVE  RunsOK'
BY DEF RunsOK, Lasting

LEMMA HoldersStay ==
  ASSUME HoldersOK, HandlerOK, CancelOK, ClockOK, Lasting,
         cancelling' \subseteq cancelling, sweep' \subseteq sweep,
         \A h \in Handlers : handler'[h] = handler[h] \/ handler'[h] = Nobody
  PROVE  HoldersOK'
<1>1. \A r \in cancelling' \cup sweep' : status'[r] # "none"
  BY DEF HoldersOK, Lasting, CancelOK, ClockOK
<1>2. ASSUME NEW h \in Handlers, handler'[h] # Nobody, handler'[h].run # Nobody
      PROVE  status'[handler'[h].run] # "none"
  <2>1. handler'[h] = handler[h] BY <1>2
  <2>2. handler[h].run \in Runs BY <1>2, <2>1, ReadingFields
  <2> QED BY <1>2, <2>1, <2>2 DEF HoldersOK, Lasting
<1> QED BY <1>1, <1>2 DEF HoldersOK

LEMMA InitBase == Init => Base
BY InitTypes DEF Init, Base, RunsOK, HoldersOK

-----------------------------------------------------------------------------
LEMMA BeginBase ==
  ASSUME Base, NEW r \in Runs, Begin(r)
  PROVE  Base'
<1> USE TypeParts, PartsStay DEF Base
<1>1. SessionOK' BY DEF Begin, Conversation, SessionOK, ConvsOK
<1>2. TriggerOK' BY DEF Begin, TriggerOK
<1>3. TaskOK' BY DEF Begin, TaskOK
<1>4. TypeOK' BY <1>1, <1>2, <1>3 DEF Begin
<1>5. PICK s \in Runs : session' = [session EXCEPT ![r] = s]
  BY DEF Begin, Conversation, ConvsOK
<1>6. /\ trigger[r] = "no" /\ Engine[r] # "person"
      /\ trigger' = [trigger EXCEPT ![r] = "open"]
      /\ task' = [task EXCEPT ![r] = IF Engine[r] = "deferred" THEN "queued" ELSE @]
      /\ UNCHANGED <<status, convs, turn, handler, cancelling, clock>>
  BY DEF Begin
<1>7. ASSUME NEW q \in Runs PROVE
    /\ trigger'[q] # "no" => session'[q] \in Runs
    /\ trigger'[q] # "over" => status'[q] = "none"
    /\ status'[q] # "none" => session'[q] \in convs'
    /\ turn'[q] # 0 => trigger'[q] \notin {"no", "open"} /\ Engine[q] = "langbot"
    /\ task'[q] # "none" => Engine[q] = "deferred" /\ trigger'[q] # "no"
    /\ task'[q] \in {"dropping", "settling"} => status'[q] # "none"
    /\ Engine[q] = "person" => trigger'[q] = "no"
  <2>1. CASE q = r
    BY <1>5, <1>6, <2>1 DEF RunsOK, SessionOK, TriggerOK, TaskOK
  <2>2. CASE q # r
    BY <1>5, <1>6, <2>2 DEF RunsOK, SessionOK, TriggerOK, TaskOK
  <2> QED BY <2>1, <2>2
<1>8. RunsOK' BY <1>7 DEF RunsOK
<1>9. HoldersOK' BY <1>6, HoldersStay DEF Lasting, clock
<1> QED BY <1>4, <1>8, <1>9

LEMMA SubmitBase ==
  ASSUME Base, NEW r \in Runs, Submit(r)
  PROVE  Base'
<1> USE TypeParts, PartsStay DEF Base
<1>1. TriggerOK' BY ConstantsAssumption DEF Submit, TriggerOK, ConstantsAssumption
<1>2. TypeOK' BY <1>1 DEF Submit, rows
<1>3. /\ trigger[r] = "open" /\ Engine[r] = "langbot"
      /\ trigger'[r] \in {"accepted", "refused"}
      /\ \A q \in Runs \ {r} : trigger'[q] = trigger[q] /\ turn'[q] = turn[q]
      /\ UNCHANGED <<status, session, convs, task, handler, cancelling, clock>>
  BY DEF Submit, TriggerOK, rows
<1>4. RunsOK' BY <1>3 DEF RunsOK
<1>5. HoldersOK' BY <1>3, HoldersStay DEF Lasting, clock
<1> QED BY <1>2, <1>4, <1>5

LEMMA CommitBase ==
  ASSUME Base, NEW r \in Runs,
         CommitDispatched(r) \/ CommitFailed(r) \/ CommitPending(r) \/ CommitAnswered(r)
  PROVE  Base'
<1> USE TypeParts, PartsStay DEF Base
<1>1. PICK st \in Active \cup Ended : Committed(r, st)
  BY DEF CommitDispatched, CommitFailed, CommitPending, CommitAnswered, Active, Ended
<1>2. trigger[r] \in {"open", "accepted", "refused"}
  BY DEF CommitDispatched, CommitFailed, CommitPending, CommitAnswered
<1>3. session[r] \in Runs BY <1>2 DEF RunsOK
<1>4. /\ status'  = [status EXCEPT ![r] = st]
      /\ convs'   = convs \cup {session[r]}
      /\ trigger' = [trigger EXCEPT ![r] = "over"]
      /\ UNCHANGED <<expected, session, turn, stored, handler, task, cancelling, clock>>
  BY <1>1 DEF Committed
<1>5. locked' \subseteq Runs
  BY <1>3 DEF CommitDispatched, CommitFailed, CommitPending, CommitAnswered, ConvsOK
<1>6. ReviewOK'
  <2>1. CASE CommitAnswered(r)
    <3>1. Offer(r, {}, r \in AutoApprove) BY <2>1 DEF CommitAnswered
    <3> QED BY <3>1, OfferTypes
  <2>2. CASE CommitDispatched(r) \/ CommitFailed(r) \/ CommitPending(r)
    BY <2>2 DEF CommitDispatched, CommitFailed, CommitPending
  <2> QED BY <2>1, <2>2
<1>7. StatusOK' BY <1>4 DEF StatusOK
<1>8. ConvsOK' BY <1>3, <1>4, <1>5 DEF ConvsOK
<1>9. TriggerOK' BY <1>4 DEF TriggerOK
<1>10. TypeOK' BY <1>4, <1>6, <1>7, <1>8, <1>9
<1>11. status[r] = "none" /\ st # "none" BY <1>2 DEF RunsOK, Active, Ended
<1>12. RunsOK'
  <2>1. /\ status'[r] = st /\ trigger'[r] = "over"
        /\ \A q \in Runs \ {r} : status'[q] = status[q] /\ trigger'[q] = trigger[q]
    BY <1>4 DEF StatusOK, TriggerOK
  <2> QED BY <1>2, <1>3, <1>4, <1>11, <2>1 DEF RunsOK
<1>13. HoldersOK'
  <2>1. Lasting BY <1>4, <1>11 DEF Lasting, StatusOK
  <2> QED BY <1>4, <2>1, HoldersStay DEF clock
<1> QED BY <1>10, <1>12, <1>13

LEMMA RollbackBase ==
  ASSUME Base, NEW r \in Runs, Rollback(r) \/ CreateCandidate(r)
  PROVE  Base'
<1> USE TypeParts, PartsStay DEF Base
<1>1. CASE Rollback(r)
  <2>1. /\ trigger[r] \in {"open", "accepted", "refused"}
        /\ trigger' = [trigger EXCEPT ![r] = "over"]
        /\ UNCHANGED <<rows, turn, stored, handler, task, cancelling, clock, review>>
    BY <1>1 DEF Rollback, Inserted
  <2>2. TriggerOK' BY <2>1 DEF TriggerOK
  <2>3. TypeOK' BY <2>1, <2>2 DEF rows
  <2>4. RunsOK' BY <2>1 DEF RunsOK, TriggerOK, rows
  <2>5. HoldersOK' BY <2>1, HoldersStay DEF Lasting, rows, clock
  <2> QED BY <2>3, <2>4, <2>5
<1>2. CASE CreateCandidate(r)
  <2>1. ReviewOK'
    <3>1. Offer(r, {}, FALSE) BY <1>2 DEF CreateCandidate
    <3> QED BY <3>1, OfferTypes
  <2>2. UNCHANGED <<rows, requests, clock>> BY <1>2 DEF CreateCandidate
  <2>3. TypeOK' BY <2>1, <2>2 DEF rows, requests
  <2> QED BY <2>2, <2>3 DEF RunsOK, HoldersOK, rows, requests, clock
<1> QED BY <1>1, <1>2

LEMMA ReceiveBase ==
  ASSUME Base, NEW h \in Handlers, NEW to \in Runs, NEW seq \in 1..MaxSeq, Receive(h, to, seq)
  PROVE  Base'
<1> USE TypeParts, PartsStay DEF Base
<1>1. PICK r \in IF Linked(to) = {} THEN {Nobody} ELSE Linked(to) :
        handler' = [handler EXCEPT ![h] =
          [to |-> to, seq |-> seq, run |-> r, exp |-> IF r = Nobody THEN 1 ELSE expected[r]]]
  BY DEF Receive
<1>2. r = Nobody \/ (r \in Runs /\ IsActive(r))
  BY <1>1 DEF Linked
<1>3. PICK e \in 1..MaxSeq + 1 : e = IF r = Nobody THEN 1 ELSE expected[r]
  BY <1>2, ConstantsAssumption DEF ExpectedOK, ConstantsAssumption
<1> DEFINE m == [to |-> to, seq |-> seq, run |-> r, exp |-> e]
<1>4. m \in Reading /\ m.run = r BY <1>2, <1>3 DEF Reading
<1>5. handler' = [handler EXCEPT ![h] = m] BY <1>1, <1>3
<1> HIDE DEF m
<1>6. HandlerOK' BY <1>4, <1>5 DEF HandlerOK
<1>7. UNCHANGED <<rows, trigger, turn, stored, task, cancelling, clock, review>>
  BY DEF Receive
<1>8. TypeOK' BY <1>6, <1>7 DEF rows
<1>9. HoldersOK'
  <2>1. \A q \in cancelling' \cup sweep' : status'[q] # "none"
    BY <1>7 DEF HoldersOK, rows, clock
  <2>2. ASSUME NEW g \in Handlers, handler'[g] # Nobody, handler'[g].run # Nobody
        PROVE  status'[handler'[g].run] # "none"
    <3>1. CASE g = h
      <4>1. handler'[g] = m BY <1>5, <3>1 DEF HandlerOK
      <4> QED BY <1>2, <1>4, <1>7, <2>2, <4>1 DEF IsActive, Active, rows
    <3>2. CASE g # h
      <4>1. handler'[g] = handler[g] BY <1>5, <3>2 DEF HandlerOK
      <4> QED BY <1>7, <2>2, <4>1 DEF HoldersOK, rows
    <3> QED BY <3>1, <3>2
  <2> QED BY <2>1, <2>2 DEF HoldersOK
<1> QED BY <1>7, <1>8, <1>9 DEF RunsOK, rows

(* A callback request that ends: whatever it stores, writes and offers, it *)
(* writes to the run it has read.                                          *)
EndsCallback(h) ==
  Dedup(h) \/ StoreUnlinked(h) \/ StoreGap(h) \/ Advance(h) \/ Complete(h) \/ CallbackFails(h)

LEMMA EndsCallbackEffect ==
  ASSUME Base, NEW h \in Handlers, EndsCallback(h)
  PROVE  /\ handler[h] # Nobody /\ Answered(h)
         /\ \/ UNCHANGED <<status, locked>>
            \/ /\ handler[h].run \in Runs
               /\ \/ \E st \in {"incomplete", "completed"} : Finish(handler[h].run, st)
                  \/ /\ status' = [status EXCEPT ![handler[h].run] = "running"]
                     /\ UNCHANGED locked
         /\ \/ UNCHANGED expected
            \/ /\ handler[h].run \in Runs
               /\ expected' = [expected EXCEPT ![handler[h].run] = handler[h].seq + 1]
         /\ UNCHANGED stored \/ Keep(handler[h])
         /\ \/ UNCHANGED review
            \/ handler[h].run \in Runs
               /\ Offer(handler[h].run, Assembled(handler[h].run), FALSE)
<1>1. handler[h] # Nobody /\ Answered(h)
  BY DEF EndsCallback, Dedup, StoreUnlinked, StoreGap, Advance, Complete, CallbackFails
<1>2. handler[h].run \in Runs \cup {Nobody}
  BY <1>1, ReadingFields, TypeParts DEF Base
<1> QED BY <1>1, <1>2
        DEF EndsCallback, Dedup, StoreUnlinked, StoreGap, Advance, Complete, CallbackFails

LEMMA EndsCallbackBase ==
  ASSUME Base, NEW h \in Handlers, EndsCallback(h)
  PROVE  Base'
<1> USE TypeParts, PartsStay DEF Base
<1>1. handler[h] # Nobody /\ Answered(h)
  BY EndsCallbackEffect
<1> DEFINE m == handler[h]
<1>2. /\ m.to \in Runs /\ m.seq \in 1..MaxSeq /\ m.run \in Runs \cup {Nobody}
      /\ m.exp \in 1..MaxSeq + 1
  BY <1>1, ReadingFields
<1>3. HandlerOK' BY <1>1 DEF Answered, HandlerOK
<1>4. StoredOK'
  <2>1. CASE UNCHANGED stored BY <2>1
  <2>2. CASE Keep(m)
    <3>1. [to |-> m.to, seq |-> m.seq, run |-> m.run] \in Callback BY <1>2 DEF Callback
    <3> QED BY <2>2, <3>1 DEF Keep, StoredOK
  <2> QED BY <2>1, <2>2, EndsCallbackEffect
<1>5. StatusOK' /\ ConvsOK' /\ Lasting
      /\ \A q \in Runs : status[q] = "none" => status'[q] = "none"
  <2>1. CASE UNCHANGED <<status, locked>>
    BY <1>1, <2>1 DEF Answered, Lasting
  <2>2. ASSUME m.run \in Runs, NEW st \in {"incomplete", "completed"}, Finish(m.run, st)
        PROVE  /\ StatusOK' /\ ConvsOK' /\ Lasting
               /\ \A q \in Runs : status[q] = "none" => status'[q] = "none"
    <3>1. st \in Ended BY DEF Ended
    <3>2. status[m.run] # "none" BY <1>1, <2>2, ConstantsAssumption DEF HoldersOK, ConstantsAssumption
    <3>3. StatusOK' /\ locked' \subseteq Runs /\ Lasting BY <2>2, <3>1, FinishTypes, FinishLasts
    <3>4. \A q \in Runs : status[q] = "none" => status'[q] = "none"
      BY <2>2, <3>2 DEF Finish, StatusOK
    <3> QED BY <1>1, <3>3, <3>4 DEF Answered, ConvsOK
  <2>3. ASSUME m.run \in Runs, status' = [status EXCEPT ![m.run] = "running"], UNCHANGED locked
        PROVE  /\ StatusOK' /\ ConvsOK' /\ Lasting
               /\ \A q \in Runs : status[q] = "none" => status'[q] = "none"
    <3>1. status[m.run] # "none" BY <1>1, <2>3, ConstantsAssumption DEF HoldersOK, ConstantsAssumption
    <3> QED BY <1>1, <2>3, <3>1 DEF Answered, StatusOK, Lasting, Active
  <2> QED BY <2>1, <2>2, <2>3, EndsCallbackEffect
<1>6. ExpectedOK'
  <2>1. m.seq + 1 \in 1..MaxSeq + 1
    BY <1>2, ConstantsAssumption DEF ConstantsAssumption
  <2> QED BY <2>1, EndsCallbackEffect DEF ExpectedOK
<1>7. ReviewOK'
  <2>1. ASSUME m.run \in Runs, Offer(m.run, Assembled(m.run), FALSE)
        PROVE  ReviewOK'
    <3>1. Assembled(m.run) \in SUBSET (1..MaxSeq)
      BY <1>4 DEF Assembled, StoredOK, Callback
    <3> QED BY <2>1, <3>1, OfferTypes
  <2> QED BY <2>1, EndsCallbackEffect
<1>8. UNCHANGED <<session, convs, trigger, turn, task, cancelling, clock>>
  BY <1>1 DEF Answered
<1>9. TypeOK' BY <1>3, <1>4, <1>5, <1>6, <1>7, <1>8
<1>10. RunsOK' BY <1>5, <1>8, RunsStay
<1>11. HoldersOK'
  <2>1. \A g \in Handlers : handler'[g] = handler[g] \/ handler'[g] = Nobody
    BY <1>1 DEF Answered, HandlerOK
  <2> QED BY <1>5, <1>8, <2>1, HoldersStay DEF clock
<1> QED BY <1>9, <1>10, <1>11

(* A task that ends its run or leaves it, and offers what it made.         *)
LEMMA TaskEffect ==
  ASSUME Base, NEW r \in Runs, TaskNext(r)
  PROVE  /\ UNCHANGED InTask
         /\ task[r] # "none" /\ Engine[r] = "deferred"
         /\ \E at \in {"queued", "dropping", "calling", "settling", "over"} :
              /\ TaskAt(r, at)
              /\ at \in {"dropping", "settling"} => status[r] # "none"
         /\ \/ UNCHANGED <<status, locked>>
            \/ /\ status[r] # "none"
               /\ \E st \in {"cancelled", "failed", "completed"} : Finish(r, st)
         /\ UNCHANGED review \/ Offer(r, {}, r \in AutoApprove)
<1>1. /\ UNCHANGED InTask /\ task[r] # "none"
      /\ UNCHANGED review \/ Offer(r, {}, r \in AutoApprove)
  BY DEF TaskNext, TaskFindsNothing, TaskStarts, TaskDrops, TaskRefreshes, TaskFails,
         TaskCompletes, TaskDies, InTask
<1>2. Engine[r] = "deferred" BY <1>1 DEF Base, RunsOK
<1>3. \E at \in {"queued", "dropping", "calling", "settling", "over"} :
        TaskAt(r, at) /\ (at \in {"dropping", "settling"} => status[r] # "none")
  BY DEF TaskNext, TaskFindsNothing, TaskStarts, TaskDrops, TaskRefreshes, TaskFails,
         TaskCompletes, TaskDies, InTask
<1>4. \/ UNCHANGED <<status, locked>>
      \/ /\ status[r] # "none"
         /\ \E st \in {"cancelled", "failed", "completed"} : Finish(r, st)
  BY DEF TaskNext, TaskFindsNothing, TaskStarts, TaskDrops, TaskRefreshes, TaskFails,
         TaskCompletes, TaskDies, InTask, Base, RunsOK
<1> QED BY <1>1, <1>2, <1>3, <1>4

LEMMA TaskBase ==
  ASSUME Base, NEW r \in Runs, TaskNext(r)
  PROVE  Base'
<1> USE TypeParts, PartsStay DEF Base
<1>1. PICK at \in {"queued", "dropping", "calling", "settling", "over"} :
        TaskAt(r, at) /\ (at \in {"dropping", "settling"} => status[r] # "none")
  BY TaskEffect
<1>2. UNCHANGED <<expected, session, convs, trigger, turn, stored, handler, cancelling, clock>>
  BY TaskEffect DEF InTask
<1>3. TaskOK' BY <1>1 DEF TaskAt, TaskOK
<1>4. StatusOK' /\ locked' \subseteq Runs /\ Lasting
      /\ \A q \in Runs : status[q] = "none" => status'[q] = "none"
  <2>1. CASE UNCHANGED <<status, locked>>
    BY <2>1 DEF Lasting, ConvsOK
  <2>2. ASSUME NEW st \in Ended, Finish(r, st), status[r] # "none"
        PROVE  StatusOK' /\ locked' \subseteq Runs /\ Lasting
               /\ \A q \in Runs : status[q] = "none" => status'[q] = "none"
    <3>1. StatusOK' /\ locked' \subseteq Runs /\ Lasting
      BY <2>2, FinishTypes, FinishLasts
    <3>2. \A q \in Runs : status[q] = "none" => status'[q] = "none"
      BY <2>2 DEF Finish, StatusOK
    <3> QED BY <3>1, <3>2
  <2> QED BY <2>1, <2>2, TaskEffect DEF Ended
<1>5. ConvsOK' BY <1>2, <1>4 DEF ConvsOK
<1>6. ReviewOK' BY TaskEffect, OfferTypes
<1>7. TypeOK' BY <1>2, <1>3, <1>4, <1>5, <1>6
<1>8. \A q \in Runs : \/ task'[q] = task[q]
                      \/ /\ task[q] # "none"
                         /\ task'[q] \in {"dropping", "settling"} => status[q] # "none"
  BY <1>1, TaskEffect DEF TaskAt, TaskOK
<1>9. RunsOK' BY <1>2, <1>4, <1>8, RunsStay
<1>10. HoldersOK' BY <1>2, <1>4, HoldersStay DEF clock
<1> QED BY <1>7, <1>9, <1>10

LEMMA CancelBase ==
  ASSUME Base, NEW r \in Runs, AskCancel(r) \/ WriteCancel(r) \/ DeadlinePasses(r)
  PROVE  Base'
<1> USE TypeParts, PartsStay DEF Base
<1>1. CASE AskCancel(r)
  <2>1. /\ cancelling' = cancelling \cup {r} /\ status[r] # "none"
        /\ UNCHANGED <<rows, trigger, turn, stored, handler, task, clock, review>>
    BY <1>1 DEF AskCancel, IsActive, Active
  <2>2. TypeOK' BY <2>1 DEF CancelOK, rows
  <2>3. RunsOK' BY <2>1 DEF RunsOK, rows
  <2>4. HoldersOK' BY <2>1 DEF HoldersOK, rows, clock
  <2> QED BY <2>2, <2>3, <2>4
<1>2. CASE WriteCancel(r)
  <2>1. /\ cancelling' = cancelling \ {r} /\ Finish(r, "cancelled") /\ status[r] # "none"
        /\ UNCHANGED <<expected, session, convs, trigger, turn, stored, handler, task,
                       clock, review>>
    BY <1>2 DEF WriteCancel, HoldersOK
  <2>2. StatusOK' /\ locked' \subseteq Runs /\ Lasting
    BY <2>1, FinishTypes, FinishLasts DEF Ended
  <2>3. \A q \in Runs : status[q] = "none" => status'[q] = "none"
    BY <2>1 DEF Finish, StatusOK
  <2>4. TypeOK' BY <2>1, <2>2 DEF CancelOK, ConvsOK
  <2>5. RunsOK' BY <2>1, <2>2, <2>3, RunsStay
  <2>6. HoldersOK' BY <2>1, <2>2, HoldersStay DEF clock
  <2> QED BY <2>4, <2>5, <2>6
<1>3. CASE DeadlinePasses(r)
  <2>1. /\ overdue' = overdue \cup {r}
        /\ UNCHANGED <<rows, requests, sweep, review>>
    BY <1>3 DEF DeadlinePasses
  <2>2. TypeOK' BY <2>1 DEF ClockOK, rows, requests
  <2> QED BY <2>1, <2>2 DEF RunsOK, HoldersOK, rows, requests
<1> QED BY <1>1, <1>2, <1>3

LEMMA SweepBase ==
  ASSUME Base, SweepBegins \/ SweepEnds
  PROVE  Base'
<1> USE TypeParts, PartsStay DEF Base
<1>1. CASE SweepBegins
  <2>1. /\ sweep' = Sweepable /\ UNCHANGED <<rows, requests, overdue, review>>
    BY <1>1 DEF SweepBegins
  <2>2. TypeOK' BY <2>1 DEF ClockOK, Sweepable, rows, requests
  <2>3. \A r \in sweep' : status[r] # "none" BY <2>1 DEF Sweepable, IsActive, Active
  <2> QED BY <2>1, <2>2, <2>3 DEF RunsOK, HoldersOK, rows, requests
<1>2. CASE SweepEnds
  <2>1. /\ sweep' = {}
        /\ status' = [r \in Runs |-> IF r \in sweep THEN "incomplete" ELSE status[r]]
        /\ locked' \subseteq locked
        /\ UNCHANGED <<expected, session, convs, requests, overdue, review>>
    BY <1>2 DEF SweepEnds
  <2>2. StatusOK' BY <2>1 DEF StatusOK, Ended
  <2>3. TypeOK' BY <2>1, <2>2 DEF ClockOK, ConvsOK, requests
  <2>4. Lasting BY <2>1 DEF Lasting
  <2>5. \A q \in Runs : status[q] = "none" => status'[q] = "none"
    BY <2>1 DEF HoldersOK
  <2>6. RunsOK' BY <2>1, <2>4, <2>5, RunsStay DEF requests
  <2>7. HoldersOK' BY <2>1, <2>4, HoldersStay DEF requests
  <2> QED BY <2>3, <2>6, <2>7
<1> QED BY <1>1, <1>2

LEMMA ReviewBase ==
  ASSUME Base, ReviewNext
  PROVE  Base'
<1> USE TypeParts, PartsStay DEF Base
<1>1. UNCHANGED <<rows, requests, clock>>
  BY DEF ReviewNext, Judge, Decide, CandidateAges
<1>2. ReviewOK'
  <2>1. ASSUME NEW v \in Reviewers, NEW r \in Runs, NEW verdict \in {"approved", "rejected"},
               Judge(v, r, verdict)
        PROVE  ReviewOK'
    <3>1. [run |-> r, verdict |-> verdict] \in Decision BY DEF Decision
    <3> QED BY <2>1, <3>1 DEF Judge, ReviewOK
  <2>2. ASSUME NEW v \in Reviewers, Decide(v)
        PROVE  ReviewOK'
    <3>1. judging[v] # Nobody BY <2>2 DEF Decide
    <3>2. PICK r \in Runs, verdict \in {"approved", "rejected"} :
            r = judging[v].run /\ verdict = judging[v].verdict
      BY <3>1, DecisionFields
    <3>3. /\ judging'  = [judging EXCEPT ![v] = Nobody]
          /\ approval' = [approval EXCEPT ![r] = verdict]
          /\ jobs'     = [jobs EXCEPT ![r] = JobsAfter(r, verdict)]
          /\ UNCHANGED <<made, parts, aged>>
      BY <2>2, <3>2 DEF Decide
    <3>4. JobsAfter(r, verdict) \in Nat BY DEF JobsAfter, ReviewOK
    <3> QED BY <3>3, <3>4 DEF ReviewOK
  <2>3. ASSUME NEW r \in Runs, CandidateAges(r)
        PROVE  ReviewOK'
    BY <2>3 DEF CandidateAges, ReviewOK
  <2> QED BY <2>1, <2>2, <2>3 DEF ReviewNext
<1>3. TypeOK' BY <1>1, <1>2 DEF rows, requests
<1> QED BY <1>1, <1>3 DEF RunsOK, HoldersOK, rows, requests, clock

(* The steps, as the proofs below tell them apart.                         *)
LEMMA NextCases ==
  Next <=> \/ \E r \in Runs : TriggerNext(r) \/ TaskNext(r)
           \/ \E h \in Handlers : \/ \E to \in Runs, seq \in 1..MaxSeq : Receive(h, to, seq)
                                  \/ EndsCallback(h)
           \/ \E r \in Runs : AskCancel(r) \/ WriteCancel(r) \/ DeadlinePasses(r)
           \/ SweepBegins \/ SweepEnds
           \/ ReviewNext
BY DEF Next, CallbackNext, EndsCallback

LEMMA BaseStep == Base /\ [Next]_vars => Base'
<1> SUFFICES ASSUME Base, [Next]_vars PROVE Base' OBVIOUS
<1>1. CASE UNCHANGED vars
  BY <1>1, TypeParts, PartsStay
     DEF Base, RunsOK, HoldersOK, vars, rows, requests, clock
<1>2. ASSUME NEW r \in Runs, TriggerNext(r) PROVE Base'
  BY <1>2, BeginBase, SubmitBase, CommitBase, RollbackBase DEF TriggerNext
<1> QED BY <1>1, <1>2, TaskBase, ReceiveBase, EndsCallbackBase, CancelBase, SweepBase,
           ReviewBase, NextCases

(* Every variable keeps to its values.                                     *)
THEOREM TypeCorrect == Spec => []TypeOK
<1>1. Base => TypeOK BY DEF Base
<1> QED BY <1>1, InitBase, BaseStep, PTL DEF Spec

-----------------------------------------------------------------------------
(* Whole answers.  What is stored for a run of LangBot's is a segment of   *)
(* its own answer; all segments before the expected one are stored, now    *)
(* and when a request read the run; and the candidate comes with the last. *)
Kept(r, n) == [to |-> r, seq |-> n, run |-> r] \in stored

OfOneRun(x) == /\ x.seq <= turn[x.to]
               /\ x.run \in Runs /\ Engine[x.run] = "langbot" => x.to = x.run

StoredWhole  == \A c \in stored : OfOneRun(c)
HandlerWhole ==
  \A h \in Handlers : handler[h] # Nobody =>
    /\ OfOneRun(handler[h])
    /\ handler[h].run \in Runs /\ Engine[handler[h].run] = "langbot" =>
         \A n \in 1..(handler[h].exp - 1) : Kept(handler[h].run, n)
ExpectedWhole ==
  \A r \in Runs : Engine[r] = "langbot" => \A n \in 1..(expected[r] - 1) : Kept(r, n)
MadeWhole ==
  \A r \in Runs : Engine[r] = "langbot" /\ made[r] > 0 =>
    turn[r] # 0 /\ \E c \in stored : c.to = r /\ c.seq = turn[r]

Whole == StoredWhole /\ HandlerWhole /\ ExpectedWhole /\ MadeWhole /\ CandidateIsWhole

LEMMA InitWhole == Init => Whole
BY DEF Init, Whole, StoredWhole, HandlerWhole, ExpectedWhole, MadeWhole, CandidateIsWhole

(* Candidates of runs that are not LangBot's are not concerned.            *)
LEMMA OtherOffer ==
  ASSUME ReviewOK, NEW r \in Runs, Engine[r] # "langbot", NEW text, NEW auto, Offer(r, text, auto)
  PROVE  \A q \in Runs : Engine[q] = "langbot" => made'[q] = made[q] /\ parts'[q] = parts[q]
BY DEF Offer, ReviewOK

LEMMA WholeStays ==
  ASSUME Whole, UNCHANGED <<turn, stored, handler, expected>>,
         \A q \in Runs : Engine[q] = "langbot" => made'[q] = made[q] /\ parts'[q] = parts[q]
  PROVE  Whole'
BY DEF Whole, StoredWhole, HandlerWhole, ExpectedWhole, MadeWhole, CandidateIsWhole,
       OfOneRun, Kept

LEMMA SubmitWhole ==
  ASSUME Base, Whole, NEW r \in Runs, Submit(r)
  PROVE  Whole'
<1> USE TypeParts DEF Base
<1>1. /\ UNCHANGED <<rows, stored, handler, review>>
      /\ \A q \in Runs \ {r} : turn'[q] = turn[q]
      /\ trigger[r] = "open"
  BY DEF Submit, TriggerOK
<1>2. turn[r] = 0 BY <1>1 DEF RunsOK
<1>3. \A c \in stored : c.to \in Runs /\ c.to # r
  BY <1>2 DEF Whole, StoredWhole, OfOneRun, StoredOK, Callback
<1>4. ASSUME NEW h \in Handlers, handler[h] # Nobody
      PROVE  handler[h].to \in Runs /\ handler[h].to # r
  <2>1. handler[h].to \in Runs /\ handler[h].seq \in 1..MaxSeq BY <1>4, ReadingFields
  <2>2. handler[h].seq <= turn[handler[h].to] BY <1>4 DEF Whole, HandlerWhole, OfOneRun
  <2> QED BY <1>2, <2>1, <2>2
<1>5. StoredWhole' BY <1>1, <1>3 DEF Whole, StoredWhole, OfOneRun
<1>6. HandlerWhole' BY <1>1, <1>4 DEF Whole, HandlerWhole, OfOneRun, Kept
<1>7. ExpectedWhole' BY <1>1 DEF Whole, ExpectedWhole, Kept, rows
<1>8. Engine[r] = "langbot" => ~(made[r] > 0) BY <1>2 DEF Whole, MadeWhole
<1>9. MadeWhole' BY <1>1, <1>8 DEF Whole, MadeWhole, review
<1>10. CandidateIsWhole' BY <1>1, <1>8 DEF Whole, CandidateIsWhole, review
<1> QED BY <1>5, <1>6, <1>7, <1>9, <1>10 DEF Whole

LEMMA ReceiveWhole ==
  ASSUME Base, Whole, NEW h \in Handlers, NEW to \in Runs, NEW seq \in 1..MaxSeq,
         Receive(h, to, seq)
  PROVE  Whole'
<1> USE TypeParts DEF Base
<1>1. PICK r \in IF Linked(to) = {} THEN {Nobody} ELSE Linked(to) :
        handler' = [handler EXCEPT ![h] =
          [to |-> to, seq |-> seq, run |-> r, exp |-> IF r = Nobody THEN 1 ELSE expected[r]]]
  BY DEF Receive
<1>2. r \in Runs => r # Nobody /\ (Engine[r] = "langbot" => r = to)
  BY <1>1, ConstantsAssumption DEF Linked, ConstantsAssumption
<1>3. seq <= turn[to] BY DEF Receive, TriggerOK
<1>4. PICK m, e : /\ handler' = [handler EXCEPT ![h] = m]
                  /\ m.to = to /\ m.seq = seq /\ m.run = r /\ m.exp = e
                  /\ r \in Runs => e = expected[r]
  <2> DEFINE old == IF r = Nobody THEN 1 ELSE expected[r]
             new == [to |-> to, seq |-> seq, run |-> r, exp |-> old]
  <2>1. handler' = [handler EXCEPT ![h] = new] BY <1>1
  <2>2. new.to = to /\ new.seq = seq /\ new.run = r /\ new.exp = old OBVIOUS
  <2>3. r \in Runs => old = expected[r] BY <1>2
  <2> QED BY <2>1, <2>2, <2>3
<1>5. UNCHANGED <<rows, trigger, turn, stored, task, cancelling, clock, review>>
  BY DEF Receive
<1>8. HandlerWhole'
  <2> SUFFICES ASSUME NEW g \in Handlers, handler'[g] # Nobody
               PROVE  /\ handler'[g].seq <= turn[handler'[g].to]
                      /\ handler'[g].run \in Runs /\ Engine[handler'[g].run] = "langbot" =>
                           /\ handler'[g].to = handler'[g].run
                           /\ \A n \in 1..(handler'[g].exp - 1) : Kept(handler'[g].run, n)
    BY <1>5 DEF HandlerWhole, OfOneRun, Kept
  <2>1. CASE g = h
    <3>1. handler'[g] = m BY <1>4, <2>1 DEF HandlerOK
    <3>2. m.seq <= turn[m.to] BY <1>3, <1>4
    <3>3. m.run \in Runs /\ Engine[m.run] = "langbot" => m.to = m.run
      BY <1>2, <1>4
    <3>4. m.run \in Runs /\ Engine[m.run] = "langbot" =>
            \A n \in 1..(m.exp - 1) : Kept(m.run, n)
      BY <1>4 DEF Whole, ExpectedWhole
    <3> QED BY <3>1, <3>2, <3>3, <3>4
  <2>2. CASE g # h
    <3>1. handler'[g] = handler[g] BY <1>4, <2>2 DEF HandlerOK
    <3> QED BY <2>2, <3>1 DEF Whole, HandlerWhole, OfOneRun
  <2> QED BY <2>1, <2>2
<1> QED BY <1>5, <1>8
        DEF Whole, StoredWhole, ExpectedWhole, MadeWhole, CandidateIsWhole, OfOneRun, Kept,
            rows, review

(* What a request stores is what it has read; who advances a run of        *)
(* LangBot's stores the segment that was expected, and who completes it    *)
(* the last.                                                               *)
LEMMA EndsCallbackKeeps ==
  ASSUME Base, NEW h \in Handlers, EndsCallback(h)
  PROVE  LET m == handler[h] IN
         /\ UNCHANGED stored \/ Keep(m)
         /\ UNCHANGED expected \/ /\ Keep(m) /\ m.seq = m.exp /\ m.run \in Runs
                                  /\ expected' = [expected EXCEPT ![m.run] = m.seq + 1]
         /\ UNCHANGED review \/ /\ Keep(m) /\ m.seq = m.exp /\ m.run \in Runs
                                /\ m.seq = turn[m.to] /\ ~IsDuplicate(m)
                                /\ Offer(m.run, Assembled(m.run), FALSE)
<1>1. handler[h] # Nobody
  BY DEF EndsCallback, Dedup, StoreUnlinked, StoreGap, Advance, Complete, CallbackFails
<1>2. handler[h].run \in Runs \cup {Nobody}
  BY <1>1, ReadingFields, TypeParts DEF Base
<1> QED BY <1>1, <1>2
        DEF EndsCallback, Dedup, StoreUnlinked, StoreGap, Advance, Complete, CallbackFails,
            IsFinal

LEMMA EndsCallbackWhole ==
  ASSUME Base, Whole, NEW h \in Handlers, EndsCallback(h)
  PROVE  Whole'
<1> USE TypeParts DEF Base
<1>1. PICK m : m = handler[h] OBVIOUS
<1>2. m # Nobody /\ Answered(h) BY <1>1, EndsCallbackEffect
<1>3. /\ UNCHANGED stored \/ Keep(m)
      /\ UNCHANGED expected \/ /\ Keep(m) /\ m.seq = m.exp /\ m.run \in Runs
                               /\ expected' = [expected EXCEPT ![m.run] = m.seq + 1]
      /\ UNCHANGED review \/ /\ Keep(m) /\ m.seq = m.exp /\ m.run \in Runs
                             /\ m.seq = turn[m.to] /\ ~IsDuplicate(m)
                             /\ Offer(m.run, Assembled(m.run), FALSE)
  BY <1>1, EndsCallbackKeeps
<1>4. /\ m.to \in Runs /\ m.seq \in 1..MaxSeq /\ m.run \in Runs \cup {Nobody}
      /\ m.exp \in 1..MaxSeq + 1
  BY <1>1, <1>2, ReadingFields
<1>5. /\ m.seq <= turn[m.to]
      /\ m.run \in Runs /\ Engine[m.run] = "langbot" =>
           m.to = m.run /\ \A n \in 1..(m.exp - 1) : Kept(m.run, n)
  BY <1>1, <1>2 DEF Whole, HandlerWhole, OfOneRun
<1>6. /\ turn' = turn /\ \A g \in Handlers : handler'[g] = handler[g] \/ handler'[g] = Nobody
  BY <1>2 DEF Answered, HandlerOK
<1>7. stored \subseteq stored' BY <1>3 DEF Keep
<1>8. PICK new : /\ new = [to |-> m.to, seq |-> m.seq, run |-> m.run]
                 /\ new.to = m.to /\ new.seq = m.seq /\ new.run = m.run
  <2> DEFINE c == [to |-> m.to, seq |-> m.seq, run |-> m.run]
  <2>1. c.to = m.to /\ c.seq = m.seq /\ c.run = m.run OBVIOUS
  <2> QED BY <2>1
<1>9. Keep(m) => stored' = stored \cup {new} BY <1>8 DEF Keep
<1>10. StoredWhole'
  <2> SUFFICES ASSUME NEW c \in stored'
               PROVE  /\ c.seq <= turn[c.to]
                      /\ c.run \in Runs /\ Engine[c.run] = "langbot" => c.to = c.run
    BY <1>6 DEF StoredWhole, OfOneRun
  <2>1. CASE c \in stored BY <2>1 DEF Whole, StoredWhole, OfOneRun
  <2>2. CASE c = new BY <1>5, <1>8, <2>2
  <2> QED BY <1>3, <1>9, <2>1, <2>2
<1>11. HandlerWhole' BY <1>6, <1>7 DEF Whole, HandlerWhole, OfOneRun, Kept
<1>12. ExpectedWhole'
  <2> SUFFICES ASSUME NEW r \in Runs, Engine[r] = "langbot", NEW n \in 1..(expected'[r] - 1)
               PROVE  [to |-> r, seq |-> n, run |-> r] \in stored'
    BY DEF ExpectedWhole, Kept
  <2>1. CASE expected'[r] = expected[r]
    BY <1>7, <2>1 DEF Whole, ExpectedWhole, Kept
  <2>2. CASE expected'[r] # expected[r]
    <3>1. /\ Keep(m) /\ m.seq = m.exp /\ m.run = r /\ expected'[r] = m.seq + 1
      BY <1>3, <2>2 DEF ExpectedOK
    <3>2. m.to = r BY <1>5, <3>1
    <3>3. CASE n = m.seq
      BY <1>8, <1>9, <3>1, <3>2, <3>3
    <3>4. CASE n # m.seq
      <4>1. n \in 1..(m.exp - 1) BY <1>4, <3>1, <3>4
      <4> QED BY <1>5, <1>7, <3>1, <4>1 DEF Kept
    <3> QED BY <3>3, <3>4
  <2> QED BY <2>1, <2>2
<1>13. CASE UNCHANGED review
  <2>1. MadeWhole' BY <1>6, <1>7, <1>13 DEF Whole, MadeWhole, review
  <2>2. CandidateIsWhole' BY <1>6, <1>13 DEF Whole, CandidateIsWhole, review
  <2> QED BY <1>10, <1>11, <1>12, <2>1, <2>2 DEF Whole
<1>14. CASE /\ Keep(m) /\ m.seq = m.exp /\ m.run \in Runs /\ m.seq = turn[m.to]
            /\ Offer(m.run, Assembled(m.run), FALSE)
  <2>1. CASE Engine[m.run] # "langbot"
    <3>1. \A q \in Runs : Engine[q] = "langbot" => made'[q] = made[q] /\ parts'[q] = parts[q]
      BY <1>14, <2>1, OtherOffer
    <3>2. MadeWhole' BY <1>6, <1>7, <3>1 DEF Whole, MadeWhole
    <3>3. CandidateIsWhole' BY <1>6, <3>1 DEF Whole, CandidateIsWhole
    <3> QED BY <1>10, <1>11, <1>12, <3>2, <3>3 DEF Whole
  <2>2. CASE Engine[m.run] = "langbot"
    <3>1. m.to = m.run BY <1>5, <1>14, <2>2
    <3>2. \A q \in Runs \ {m.run} : made'[q] = made[q] /\ parts'[q] = parts[q]
      BY <1>14 DEF Offer, ReviewOK
    <3>3. parts'[m.run] = Assembled(m.run)
      BY <1>14 DEF Offer, ReviewOK
    <3>4. new \in stored' BY <1>9, <1>14
    <3>5. MadeWhole'
      BY <1>4, <1>6, <1>7, <1>8, <1>14, <3>1, <3>2, <3>4 DEF Whole, MadeWhole
    <3>6. Assembled(m.run) \subseteq 1..turn[m.run]
      <4> SUFFICES ASSUME NEW c \in stored', c.run = m.run
                   PROVE  c.seq \in 1..turn[m.run]
        BY DEF Assembled
      <4>1. c.seq <= turn[c.to] /\ c.to = m.run
        BY <1>6, <1>10, <1>14, <2>2 DEF StoredWhole, OfOneRun
      <4>2. c.seq \in 1..MaxSeq
        <5>1. CASE c \in stored BY <5>1 DEF StoredOK, Callback
        <5>2. CASE c = new BY <1>4, <1>8, <5>2
        <5> QED BY <1>9, <1>14, <5>1, <5>2
      <4> QED BY <1>14, <4>1, <4>2 DEF TriggerOK
    <3>7. 1..turn[m.run] \subseteq Assembled(m.run)
      <4> SUFFICES ASSUME NEW n \in 1..turn[m.run]
                   PROVE  \E c \in stored' : c.run = m.run /\ c.seq = n
        BY DEF Assembled
      <4>1. CASE n = m.seq BY <1>8, <3>4, <4>1
      <4>2. CASE n # m.seq
        <5>1. n \in 1..(m.exp - 1) BY <1>4, <1>14, <3>1, <4>2
        <5>2. PICK c \in stored : c = [to |-> m.run, seq |-> n, run |-> m.run]
          BY <1>5, <1>14, <2>2, <5>1 DEF Kept
        <5> QED BY <1>7, <5>2
      <4> QED BY <4>1, <4>2
    <3>8. CandidateIsWhole'
      BY <1>6, <3>2, <3>3, <3>6, <3>7 DEF Whole, CandidateIsWhole
    <3> QED BY <1>10, <1>11, <1>12, <3>5, <3>8 DEF Whole
  <2> QED BY <2>1, <2>2
<1> QED BY <1>3, <1>13, <1>14

LEMMA WholeStep == Base /\ Whole /\ [Next]_vars => Whole'
<1> SUFFICES ASSUME Base, Whole, [Next]_vars PROVE Whole' OBVIOUS
<1> USE TypeParts DEF Base
<1>1. ASSUME UNCHANGED <<turn, stored, handler, expected>>,
             \/ UNCHANGED <<made, parts>>
             \/ \E r \in Runs : Engine[r] # "langbot" /\ Offer(r, {}, r \in AutoApprove)
             \/ \E r \in Runs : Engine[r] # "langbot" /\ Offer(r, {}, FALSE)
      PROVE  Whole'
  BY <1>1, WholeStays, OtherOffer
<1>2. ASSUME NEW r \in Runs, TriggerNext(r) PROVE Whole'
  <2>1. CASE Submit(r) BY <2>1, SubmitWhole
  <2>2. CASE CommitAnswered(r)
    BY <1>1, <2>2 DEF CommitAnswered, Committed
  <2>3. CASE CreateCandidate(r)
    BY <1>1, <2>3 DEF CreateCandidate, rows, requests
  <2>4. CASE Begin(r) \/ CommitDispatched(r) \/ CommitFailed(r) \/ CommitPending(r) \/ Rollback(r)
    BY <1>1, <2>4
       DEF Begin, CommitDispatched, CommitFailed, CommitPending, Rollback, Committed, rows, review
  <2> QED BY <1>2, <2>1, <2>2, <2>3, <2>4 DEF TriggerNext
<1>3. ASSUME NEW r \in Runs, TaskNext(r) PROVE Whole'
  BY <1>1, <1>3, TaskEffect DEF InTask, review
<1>4. ASSUME NEW r \in Runs, AskCancel(r) \/ WriteCancel(r) \/ DeadlinePasses(r) PROVE Whole'
  BY <1>1, <1>4 DEF AskCancel, WriteCancel, DeadlinePasses, rows, requests, review
<1>5. CASE SweepBegins \/ SweepEnds
  BY <1>1, <1>5 DEF SweepBegins, SweepEnds, rows, requests, review
<1>6. CASE ReviewNext
  BY <1>1, <1>6 DEF ReviewNext, Judge, Decide, CandidateAges, rows, requests
<1>7. CASE UNCHANGED vars
  BY <1>1, <1>7 DEF vars, rows, requests, review
<1> QED BY <1>2, <1>3, <1>4, <1>5, <1>6, <1>7, ReceiveWhole, EndsCallbackWhole, NextCases

(* No half answer is ever offered, however callbacks are reordered,        *)
(* repeated or handled at once.                                            *)
THEOREM AnswersAreWhole == Spec => []CandidateIsWhole
<1>1. Whole => CandidateIsWhole BY DEF Whole
<1> QED BY <1>1, InitWhole, WholeStep, InitBase, BaseStep, PTL DEF Spec

-----------------------------------------------------------------------------
(* Ended runs.                                                             *)
EndedStep ==
  \A r \in Runs : status[r] \in Ended /\ ~HeldActive(r)
    => status'[r] = status[r] /\ made'[r] = made[r]

LEMMA OnlyFinish ==
  ASSUME StatusOK, NEW r \in Runs, NEW st, Finish(r, st)
  PROVE  \A q \in Runs \ {r} : status'[q] = status[q]
BY DEF StatusOK, Finish

LEMMA OnlyOffer ==
  ASSUME ReviewOK, NEW r \in Runs, NEW text, NEW auto, Offer(r, text, auto)
  PROVE  \A q \in Runs \ {r} : /\ made'[q] = made[q] /\ parts'[q] = parts[q]
                               /\ approval'[q] = approval[q] /\ jobs'[q] = jobs[q]
BY DEF ReviewOK, Offer

LEMMA EndedStays == Base /\ [Next]_vars => EndedStep
<1> SUFFICES ASSUME Base, [Next]_vars PROVE EndedStep OBVIOUS
<1> USE TypeParts DEF Base
<1>1. ASSUME NEW r \in Runs, TriggerNext(r) PROVE EndedStep
  <2>1. CASE CommitDispatched(r) \/ CommitFailed(r) \/ CommitPending(r) \/ CommitAnswered(r)
    <3>1. status[r] = "none"
      BY <2>1 DEF CommitDispatched, CommitFailed, CommitPending, CommitAnswered, RunsOK
    <3>2. \A q \in Runs \ {r} : status'[q] = status[q]
      BY <2>1 DEF CommitDispatched, CommitFailed, CommitPending, CommitAnswered, Committed,
                  StatusOK
    <3>3. \A q \in Runs \ {r} : made'[q] = made[q]
      BY <2>1, OnlyOffer
         DEF CommitDispatched, CommitFailed, CommitPending, CommitAnswered, review
    <3> QED BY <3>1, <3>2, <3>3 DEF EndedStep, Ended
  <2>2. CASE CreateCandidate(r)
    <3>1. status[r] = "none" BY <2>2 DEF CreateCandidate, RunsOK
    <3>2. UNCHANGED status /\ \A q \in Runs \ {r} : made'[q] = made[q]
      BY <2>2, OnlyOffer DEF CreateCandidate, rows
    <3> QED BY <3>1, <3>2 DEF EndedStep, Ended
  <2>3. CASE Begin(r) \/ Submit(r) \/ Rollback(r)
    BY <2>3 DEF Begin, Submit, Rollback, rows, review, EndedStep
  <2> QED BY <1>1, <2>1, <2>2, <2>3 DEF TriggerNext
<1>2. ASSUME NEW r \in Runs, TaskNext(r) PROVE EndedStep
  <2>1. CASE task[r] \in {"dropping", "settling"}
    <3>1. \A q \in Runs \ {r} : status'[q] = status[q] /\ made'[q] = made[q]
      BY <1>2, TaskEffect, OnlyFinish, OnlyOffer DEF review
    <3> QED BY <2>1, <3>1 DEF EndedStep, HeldActive
  <2>2. CASE task[r] \notin {"dropping", "settling"}
    <3>1. UNCHANGED <<status, review>>
      BY <1>2, <2>2 DEF TaskNext, TaskFindsNothing, TaskStarts, TaskDrops, TaskRefreshes,
                        TaskFails, TaskCompletes, TaskDies
    <3> QED BY <3>1 DEF EndedStep, review
  <2> QED BY <2>1, <2>2
<1>3. ASSUME NEW h \in Handlers, EndsCallback(h) PROVE EndedStep
  <2>1. \A q \in Runs : q # handler[h].run => status'[q] = status[q] /\ made'[q] = made[q]
    <3>1. ASSUME NEW q \in Runs, q # handler[h].run PROVE status'[q] = status[q]
      <4>1. CASE UNCHANGED status BY <4>1
      <4>2. ASSUME handler[h].run \in Runs, NEW st, Finish(handler[h].run, st)
            PROVE  status'[q] = status[q]
        BY <3>1, <4>2, OnlyFinish
      <4>3. ASSUME status' = [status EXCEPT ![handler[h].run] = "running"]
            PROVE  status'[q] = status[q]
        BY <3>1, <4>3 DEF StatusOK
      <4> QED BY <1>3, <4>1, <4>2, <4>3, EndsCallbackEffect
    <3>2. ASSUME NEW q \in Runs, q # handler[h].run PROVE made'[q] = made[q]
      BY <1>3, <3>2, EndsCallbackEffect, OnlyOffer DEF review
    <3> QED BY <3>1, <3>2
  <2>2. handler[h] # Nobody BY <1>3, EndsCallbackEffect
  <2> QED BY <2>1, <2>2 DEF EndedStep, HeldActive
<1>4. ASSUME NEW r \in Runs, AskCancel(r) \/ WriteCancel(r) \/ DeadlinePasses(r)
      PROVE  EndedStep
  <2>1. CASE WriteCancel(r)
    BY <2>1, OnlyFinish DEF WriteCancel, EndedStep, HeldActive, review
  <2>2. CASE AskCancel(r) \/ DeadlinePasses(r)
    BY <2>2 DEF AskCancel, DeadlinePasses, EndedStep, rows, review
  <2> QED BY <1>4, <2>1, <2>2
<1>5. CASE SweepBegins \/ SweepEnds
  BY <1>5 DEF SweepBegins, SweepEnds, EndedStep, HeldActive, rows, review
<1>6. CASE ReviewNext
  BY <1>6 DEF ReviewNext, Judge, Decide, CandidateAges, EndedStep, rows
<1>7. ASSUME NEW h \in Handlers, NEW to \in Runs, NEW seq \in 1..MaxSeq, Receive(h, to, seq)
      PROVE  EndedStep
  BY <1>7 DEF Receive, EndedStep, rows, review
<1>8. CASE UNCHANGED vars
  BY <1>8 DEF vars, EndedStep, rows, review
<1> QED BY <1>1, <1>2, <1>3, <1>4, <1>5, <1>6, <1>7, <1>8, NextCases

(* An ended run is touched only by who has read it before it ended.        *)
THEOREM EndedIsOver == Spec => EndedStaysEnded
<1>1. Base /\ [Next]_vars => [EndedStep]_vars BY EndedStays
<1>2. Spec => [][EndedStep]_vars BY <1>1, InitBase, BaseStep, PTL DEF Spec
<1> QED BY <1>2 DEF EndedStaysEnded, EndedStep

-----------------------------------------------------------------------------
(* One active run.  Of the runs of a conversation at most one is active or *)
(* about to be committed, and a keyed scope has one conversation.          *)
Up(r) == IsActive(r) \/ Inserted(r)

Alone == \A q, r \in Runs : session[q] = session[r] /\ Up(q) /\ Up(r) => q = r

Known == convs \cup {session[q] : q \in {p \in Runs : Inserted(p)}}

OneScope == KeyedScope => \A s, t \in Known : s = t

(* Steps that put nothing up.                                              *)
LEMMA AloneStays ==
  ASSUME Alone, UNCHANGED session, \A r \in Runs : Up(r)' => Up(r)
  PROVE  Alone'
BY DEF Alone

LEMMA OneScopeStays ==
  ASSUME OneScope, UNCHANGED <<session, trigger, convs>>
  PROVE  OneScope'
BY DEF OneScope, Known, Inserted

LEMMA FinishesDown ==
  ASSUME StatusOK, NEW r \in Runs, NEW st \in Ended, Finish(r, st)
  PROVE  \A q \in Runs : IsActive(q)' => IsActive(q)
BY DEF StatusOK, Finish, IsActive, Active, Ended

LEMMA BeginScope ==
  ASSUME Base, Alone, OneScope, NEW r \in Runs, Begin(r)
  PROVE  Alone' /\ OneScope'
<1> USE TypeParts DEF Base
<1>1. PICK s \in Conversation(r) : /\ s = r => NoOtherMakesIt(r)
                                   /\ SessionFree(s, r)
                                   /\ session' = [session EXCEPT ![r] = s]
  BY DEF Begin
<1>2. /\ trigger[r] = "no" /\ trigger' = [trigger EXCEPT ![r] = "open"]
      /\ UNCHANGED <<status, convs>>
  BY DEF Begin
<1>3. /\ session'[r] = s
      /\ \A q \in Runs \ {r} : session'[q] = session[q] /\ trigger'[q] = trigger[q]
  BY <1>1, <1>2 DEF SessionOK, TriggerOK
<1>4. \A q \in Runs \ {r} : Up(q)' => Up(q)
  BY <1>2, <1>3 DEF Up, IsActive, Inserted
<1>5. \A q \in Runs \ {r} : session'[q] = s => ~Up(q)'
  BY <1>1, <1>3, <1>4 DEF SessionFree, Up
<1>6. Alone' BY <1>3, <1>4, <1>5 DEF Alone
<1>7. Known' \subseteq Known \cup {s}
  BY <1>2, <1>3 DEF Known, Inserted
<1>8. ASSUME KeyedScope PROVE \A t \in Known : t = s
  <2>1. CASE convs = {}
    <3>1. s = r BY <2>1 DEF Conversation
    <3>2. \A q \in Runs : ~Inserted(q) BY <1>1, <1>8, <2>1, <3>1 DEF NoOtherMakesIt
    <3> QED BY <2>1, <3>2 DEF Known
  <2>2. CASE convs # {}
    <3>1. s \in convs BY <2>2 DEF Conversation
    <3> QED BY <1>8, <3>1 DEF OneScope, Known
  <2> QED BY <2>1, <2>2
<1>9. OneScope' BY <1>7, <1>8 DEF OneScope
<1> QED BY <1>6, <1>9

LEMMA CommitScope ==
  ASSUME Base, Alone, OneScope, NEW r \in Runs,
         \/ CommitDispatched(r) \/ CommitFailed(r) \/ CommitPending(r) \/ CommitAnswered(r)
         \/ Rollback(r)
  PROVE  Alone' /\ OneScope'
<1> USE TypeParts DEF Base
<1>1. /\ Inserted(r) /\ trigger' = [trigger EXCEPT ![r] = "over"] /\ UNCHANGED session
      /\ \A q \in Runs \ {r} : status'[q] = status[q]
      /\ convs' \subseteq convs \cup {session[r]}
  BY DEF CommitDispatched, CommitFailed, CommitPending, CommitAnswered, Committed, Rollback,
         Inserted, StatusOK, rows
<1>2. \A q \in Runs \ {r} : trigger'[q] = trigger[q] BY <1>1 DEF TriggerOK
<1>3. \A q \in Runs : Up(q)' => Up(q)
  BY <1>1, <1>2 DEF Up, IsActive, Inserted
<1>4. Alone' BY <1>1, <1>3, AloneStays
<1>5. ~Inserted(r)' BY <1>1 DEF Inserted, TriggerOK
<1>6. Known' \subseteq Known
  BY <1>1, <1>2, <1>5 DEF Known, Inserted
<1>7. OneScope' BY <1>6 DEF OneScope
<1> QED BY <1>4, <1>7

LEMMA CallbackScope ==
  ASSUME Base, Alone, OneScope, NEW h \in Handlers, EndsCallback(h)
  PROVE  Alone' /\ OneScope'
<1> USE TypeParts DEF Base
<1>1. handler[h] # Nobody /\ UNCHANGED <<session, convs, trigger>>
  BY EndsCallbackEffect DEF Answered
<1>2. OneScope' BY <1>1, OneScopeStays
<1>3. CASE Advance(h)
  <2>1. PICK r \in Runs : r = handler[h].run /\ SessionFree(session[r], r)
                          /\ status' = [status EXCEPT ![r] = "running"]
    BY <1>1, <1>3, ReadingFields DEF Advance
  <2>2. \A q \in Runs \ {r} : (Up(q)' => Up(q)) /\ (session[q] = session[r] => ~Up(q))
    BY <1>1, <2>1 DEF StatusOK, Up, IsActive, Inserted, SessionFree
  <2> QED BY <1>1, <1>2, <2>2 DEF Alone
<1>4. CASE ~Advance(h)
  <2>1. \/ UNCHANGED status
        \/ /\ handler[h].run \in Runs
           /\ \E st \in {"incomplete", "completed"} : Finish(handler[h].run, st)
    BY <1>1, <1>4, ReadingFields
       DEF EndsCallback, Dedup, StoreUnlinked, StoreGap, Complete, CallbackFails
  <2>2. \A q \in Runs : IsActive(q)' => IsActive(q)
    BY <2>1, FinishesDown DEF Ended, IsActive
  <2>3. \A q \in Runs : Up(q)' => Up(q) BY <1>1, <2>2 DEF Up, Inserted
  <2> QED BY <1>1, <1>2, <2>3, AloneStays
<1> QED BY <1>3, <1>4

LEMMA ScopeStep == Base /\ Alone /\ OneScope /\ [Next]_vars => Alone' /\ OneScope'
<1> SUFFICES ASSUME Base, Alone, OneScope, [Next]_vars PROVE Alone' /\ OneScope' OBVIOUS
<1> USE TypeParts DEF Base
<1>1. ASSUME UNCHANGED <<session, trigger, convs>>,
             \A q \in Runs : IsActive(q)' => IsActive(q)
      PROVE  Alone' /\ OneScope'
  BY <1>1, AloneStays, OneScopeStays DEF Up, Inserted
<1>2. ASSUME UNCHANGED <<session, trigger, convs, status>> PROVE Alone' /\ OneScope'
  BY <1>1, <1>2 DEF IsActive
<1>3. ASSUME NEW r \in Runs, TriggerNext(r) PROVE Alone' /\ OneScope'
  <2>1. CASE Submit(r)
    <3>1. UNCHANGED <<session, convs, status>> /\ \A q \in Runs : Inserted(q)' <=> Inserted(q)
      BY <2>1 DEF Submit, TriggerOK, Inserted, rows
    <3>2. Alone' BY <3>1, AloneStays DEF Up, IsActive
    <3>3. OneScope' BY <3>1 DEF OneScope, Known
    <3> QED BY <3>2, <3>3
  <2>2. CASE CreateCandidate(r)
    BY <1>2, <2>2 DEF CreateCandidate, rows, requests
  <2> QED BY <1>3, <2>1, <2>2, BeginScope, CommitScope DEF TriggerNext
<1>4. ASSUME NEW r \in Runs, TaskNext(r) PROVE Alone' /\ OneScope'
  <2>1. \A q \in Runs : IsActive(q)' => IsActive(q)
    BY <1>4, TaskEffect, FinishesDown DEF Ended, IsActive
  <2> QED BY <1>1, <1>4, <2>1, TaskEffect DEF InTask
<1>5. ASSUME NEW r \in Runs, AskCancel(r) \/ WriteCancel(r) \/ DeadlinePasses(r)
      PROVE  Alone' /\ OneScope'
  <2>1. CASE WriteCancel(r)
    <3>1. \A q \in Runs : IsActive(q)' => IsActive(q)
      BY <2>1, FinishesDown DEF WriteCancel, Ended
    <3> QED BY <1>1, <2>1, <3>1 DEF WriteCancel
  <2>2. CASE AskCancel(r) \/ DeadlinePasses(r)
    BY <1>2, <2>2 DEF AskCancel, DeadlinePasses, rows, requests
  <2> QED BY <1>5, <2>1, <2>2
<1>6. CASE SweepBegins
  BY <1>2, <1>6 DEF SweepBegins, rows, requests
<1>7. CASE SweepEnds
  <2>1. \A q \in Runs : IsActive(q)' => IsActive(q)
    BY <1>7 DEF SweepEnds, IsActive, Active
  <2> QED BY <1>1, <1>7, <2>1 DEF SweepEnds, requests
<1>8. CASE ReviewNext
  BY <1>2, <1>8 DEF ReviewNext, Judge, Decide, CandidateAges, rows, requests
<1>9. ASSUME NEW h \in Handlers, NEW to \in Runs, NEW seq \in 1..MaxSeq, Receive(h, to, seq)
      PROVE  Alone' /\ OneScope'
  BY <1>2, <1>9 DEF Receive, rows
<1>10. CASE UNCHANGED vars
  BY <1>2, <1>10 DEF vars, rows, requests
<1> QED BY <1>3, <1>4, <1>5, <1>6, <1>7, <1>8, <1>9, <1>10, CallbackScope, NextCases

(* One scope generates one answer at a time, if the key of its             *)
(* conversations tells duplicates.                                         *)
THEOREM OneRunAtATime == ASSUME KeyedScope PROVE Spec => []OneActiveRun
<1>1. Init => Alone /\ OneScope
  BY DEF Init, Alone, OneScope, Known, Up, IsActive, Active, Inserted
<1>2. Base /\ Alone /\ OneScope => OneActiveRun
  <2> SUFFICES ASSUME Base, Alone, OneScope
               PROVE  Cardinality({r \in Runs : IsActive(r)}) <= 1
    BY DEF OneActiveRun
  <2>1. \A q, r \in Runs : IsActive(q) /\ IsActive(r) => q = r
    BY DEF Base, RunsOK, Alone, OneScope, Known, Up, IsActive, Active
  <2>2. CASE {r \in Runs : IsActive(r)} = {}
    BY <2>2, FS_EmptySet
  <2>3. ASSUME NEW q \in Runs, IsActive(q)
        PROVE  Cardinality({r \in Runs : IsActive(r)}) <= 1
    <3>1. {r \in Runs : IsActive(r)} = {q} BY <2>1, <2>3
    <3>2. Cardinality({q}) = 1 BY FS_Singleton
    <3> QED BY <3>1, <3>2
  <2> QED BY <2>2, <2>3
<1> QED BY <1>1, <1>2, ScopeStep, InitBase, BaseStep, PTL DEF Spec

-----------------------------------------------------------------------------
(* One reply to a trigger.  An agent's engine is LangBot or it is not: a   *)
(* late callback of an agent that was moved to another engine could link   *)
(* to a run of the new one.                                                *)
Unmixed == \/ \A r \in Runs : Engine[r] = "langbot"
           \/ \A r \in Runs : Engine[r] # "langbot"

(* What has been offered is behind its run: the task is over, the trigger  *)
(* committed, or (MadeWhole) the last segment stored.                      *)
Behind == \A r \in Runs : made[r] > 0 =>
            /\ Engine[r] = "deferred" => task[r] = "over"
            /\ Engine[r] = "direct" => trigger[r] = "over"

Counted ==
  /\ \A r \in Runs : /\ made[r] <= 1 /\ jobs[r] <= made[r]
                     /\ approval[r] # "none" => made[r] = 1
                     /\ approval[r] = "approved" => jobs[r] = 1
  /\ \A v \in Reviewers : judging[v] # Nobody => made[judging[v].run] = 1

Replies == Base /\ Whole /\ Behind /\ Counted

(* A first offer, after which the run is behind.                           *)
OfferFirst == \E r \in Runs : \E text \in SUBSET (1..MaxSeq) :
                /\ made[r] = 0 /\ (Offer(r, text, TRUE) \/ Offer(r, text, FALSE))
                /\ Engine[r] = "deferred" => task'[r] = "over"
                /\ Engine[r] = "direct" => trigger'[r] = "over"

LEMMA OfferCases ==
  ASSUME NEW r \in Runs, Offer(r, {}, r \in AutoApprove)
  PROVE  Offer(r, {}, TRUE) \/ Offer(r, {}, FALSE)
<1>1. CASE r \in AutoApprove BY <1>1 DEF Offer
<1>2. CASE r \notin AutoApprove BY <1>2 DEF Offer
<1> QED BY <1>1, <1>2

(* Who is over stays over.                                                 *)
OverStays ==
  \A r \in Runs : /\ task[r] = "over" => task'[r] = "over"
                  /\ trigger[r] = "over" => trigger'[r] = "over"

LEMMA StaysOver == Base /\ [Next]_vars => OverStays
<1> SUFFICES ASSUME Base, [Next]_vars PROVE OverStays OBVIOUS
<1> USE TypeParts DEF Base
<1>1. ASSUME NEW r \in Runs, TriggerNext(r) PROVE OverStays
  <2>1. CASE Begin(r)
    <3>1. trigger[r] = "no" /\ (task[r] = "none" \/ Engine[r] # "deferred")
      BY <2>1 DEF Begin, RunsOK
    <3>2. task[r] # "over" BY <3>1 DEF RunsOK
    <3> QED BY <2>1, <3>1, <3>2 DEF Begin, OverStays, TaskOK, TriggerOK
  <2>2. CASE ~Begin(r)
    <3>1. UNCHANGED task
      BY <1>1, <2>2 DEF TriggerNext, Submit, CommitDispatched, CommitFailed, CommitPending,
                        CommitAnswered, Committed, Rollback, CreateCandidate, requests
    <3>2. \/ UNCHANGED trigger
          \/ trigger' = [trigger EXCEPT ![r] = "over"]
          \/ trigger[r] = "open" /\ \A q \in Runs \ {r} : trigger'[q] = trigger[q]
      BY <1>1, <2>2 DEF TriggerNext, Submit, CommitDispatched, CommitFailed, CommitPending,
                        CommitAnswered, Committed, Rollback, CreateCandidate, requests,
                        TriggerOK
    <3> QED BY <3>1, <3>2 DEF OverStays, TriggerOK
  <2> QED BY <2>1, <2>2
<1>2. ASSUME NEW r \in Runs, TaskNext(r) PROVE OverStays
  <2>1. task[r] # "over" /\ UNCHANGED trigger
    BY <1>2 DEF TaskNext, TaskFindsNothing, TaskStarts, TaskDrops, TaskRefreshes, TaskFails,
                TaskCompletes, TaskDies, InTask
  <2>2. \A q \in Runs \ {r} : task'[q] = task[q]
    BY <1>2, TaskEffect DEF TaskAt, TaskOK
  <2> QED BY <2>1, <2>2 DEF OverStays
<1>3. CASE UNCHANGED <<task, trigger>> BY <1>3 DEF OverStays
<1>4. ASSUME NEW h \in Handlers, EndsCallback(h) PROVE UNCHANGED <<task, trigger>>
  BY <1>4, EndsCallbackEffect DEF Answered
<1>5. ASSUME NEW h \in Handlers, NEW to \in Runs, NEW seq \in 1..MaxSeq, Receive(h, to, seq)
      PROVE  UNCHANGED <<task, trigger>>
  BY <1>5 DEF Receive
<1>6. ASSUME NEW r \in Runs, AskCancel(r) \/ WriteCancel(r) \/ DeadlinePasses(r)
      PROVE  UNCHANGED <<task, trigger>>
  BY <1>6 DEF AskCancel, WriteCancel, DeadlinePasses, requests
<1>7. SweepBegins \/ SweepEnds \/ ReviewNext \/ UNCHANGED vars => UNCHANGED <<task, trigger>>
  BY DEF SweepBegins, SweepEnds, ReviewNext, Judge, Decide, CandidateAges, requests, vars
<1> QED BY <1>1, <1>2, <1>3, <1>4, <1>5, <1>6, <1>7, NextCases

(* A step offers nothing, or offers for the first time.                    *)
LEMMA OffersOnce ==
  ASSUME Unmixed, Base, Whole, Behind, Counted, [Next]_vars
  PROVE  UNCHANGED review \/ OfferFirst \/ ReviewNext
<1> USE TypeParts DEF Base
<1>0. \A r \in Runs : made[r] > 0 \/ made[r] = 0 BY DEF ReviewOK
<1>1. ASSUME NEW r \in Runs, TriggerNext(r) PROVE UNCHANGED review \/ OfferFirst
  <2>1. CASE CommitAnswered(r)
    <3>1. Offer(r, {}, r \in AutoApprove) /\ Engine[r] = "direct" /\ trigger[r] = "open"
          /\ trigger' = [trigger EXCEPT ![r] = "over"]
      BY <2>1 DEF CommitAnswered, Committed
    <3>2. made[r] = 0 BY <1>0, <3>1 DEF Behind
    <3>3. trigger'[r] = "over" BY <3>1 DEF TriggerOK
    <3>4. Offer(r, {}, TRUE) \/ Offer(r, {}, FALSE) BY <3>1, OfferCases
    <3> QED BY <3>1, <3>2, <3>3, <3>4 DEF OfferFirst
  <2>2. CASE CreateCandidate(r)
    BY <2>2 DEF CreateCandidate, OfferFirst
  <2>3. CASE ~CommitAnswered(r) /\ ~CreateCandidate(r)
    BY <1>1, <2>3 DEF TriggerNext, Begin, Submit, CommitDispatched, CommitFailed,
                      CommitPending, Rollback
  <2> QED BY <2>1, <2>2, <2>3
<1>2. ASSUME NEW r \in Runs, TaskNext(r) PROVE UNCHANGED review \/ OfferFirst
  <2>1. CASE TaskCompletes(r)
    <3>1. Offer(r, {}, r \in AutoApprove) /\ task[r] = "settling"
          /\ task' = [task EXCEPT ![r] = "over"]
      BY <2>1 DEF TaskCompletes, TaskAt
    <3>2. Engine[r] = "deferred" BY <3>1 DEF RunsOK
    <3>3. made[r] = 0 BY <1>0, <3>1, <3>2 DEF Behind
    <3>4. task'[r] = "over" BY <3>1 DEF TaskOK
    <3>5. Offer(r, {}, TRUE) \/ Offer(r, {}, FALSE) BY <3>1, OfferCases
    <3> QED BY <3>2, <3>3, <3>4, <3>5 DEF OfferFirst
  <2>2. CASE ~TaskCompletes(r)
    BY <1>2, <2>2 DEF TaskNext, TaskFindsNothing, TaskStarts, TaskDrops, TaskRefreshes,
                      TaskFails, TaskDies
  <2> QED BY <2>1, <2>2
<1>3. ASSUME NEW h \in Handlers, EndsCallback(h) PROVE UNCHANGED review \/ OfferFirst
  <2>1. PICK m : m = handler[h] OBVIOUS
  <2>2. m # Nobody /\ Answered(h) BY <1>3, <2>1, EndsCallbackEffect
  <2>3. CASE UNCHANGED review BY <2>3
  <2>4. ASSUME /\ Keep(m) /\ m.run \in Runs /\ m.seq = turn[m.to] /\ ~IsDuplicate(m)
               /\ Offer(m.run, Assembled(m.run), FALSE)
        PROVE  OfferFirst
    <3>1. m.to \in Runs /\ m.seq \in 1..MaxSeq
      BY <2>1, <2>2, ReadingFields
    <3>2. turn[m.to] # 0 BY <2>4, <3>1
    <3>3. Engine[m.run] = "langbot" BY <2>4, <3>1, <3>2 DEF RunsOK, Unmixed
    <3>4. m.to = m.run
      BY <2>1, <2>2, <2>4, <3>3 DEF Whole, HandlerWhole, OfOneRun
    <3>5. made[m.run] = 0
      BY <1>0, <2>4, <3>3, <3>4 DEF Whole, MadeWhole, IsDuplicate
    <3>6. Assembled(m.run) \in SUBSET (1..MaxSeq)
      <4>1. StoredOK'
        <5>1. [to |-> m.to, seq |-> m.seq, run |-> m.run] \in Callback
          BY <2>4, <3>1 DEF Callback
        <5> QED BY <2>4, <5>1 DEF Keep, StoredOK
      <4> QED BY <4>1 DEF Assembled, StoredOK, Callback
    <3> QED BY <2>4, <3>3, <3>5, <3>6 DEF OfferFirst
  <2> QED BY <1>3, <2>1, <2>3, <2>4, EndsCallbackKeeps
<1>4. ASSUME NEW h \in Handlers, NEW to \in Runs, NEW seq \in 1..MaxSeq, Receive(h, to, seq)
      PROVE  UNCHANGED review
  BY <1>4 DEF Receive
<1>5. ASSUME NEW r \in Runs, AskCancel(r) \/ WriteCancel(r) \/ DeadlinePasses(r)
      PROVE  UNCHANGED review
  BY <1>5 DEF AskCancel, WriteCancel, DeadlinePasses
<1>6. SweepBegins \/ SweepEnds \/ UNCHANGED vars => UNCHANGED review
  BY DEF SweepBegins, SweepEnds, vars
<1> QED BY <1>1, <1>2, <1>3, <1>4, <1>5, <1>6, NextCases

LEMMA BehindStep ==
  ASSUME Base, Behind, OverStays, UNCHANGED review \/ OfferFirst \/ ReviewNext
  PROVE  Behind'
<1> USE TypeParts DEF Base
<1>1. CASE UNCHANGED made BY <1>1 DEF Behind, OverStays
<1>2. UNCHANGED review \/ ReviewNext => UNCHANGED made
  BY DEF review, ReviewNext, Judge, Decide, CandidateAges
<1>3. CASE OfferFirst
  <2>1. PICK r \in Runs, text \in SUBSET (1..MaxSeq) :
          /\ Offer(r, text, TRUE) \/ Offer(r, text, FALSE)
          /\ Engine[r] = "deferred" => task'[r] = "over"
          /\ Engine[r] = "direct" => trigger'[r] = "over"
    BY <1>3 DEF OfferFirst
  <2>2. \A q \in Runs \ {r} : made'[q] = made[q] BY <2>1, OnlyOffer
  <2> QED BY <2>1, <2>2 DEF Behind, OverStays
<1> QED BY <1>1, <1>2, <1>3

DecisionStep ==
  \A r \in Runs : Closed(r) => Closed(r)' /\ approval'[r] = approval[r] /\ jobs'[r] = jobs[r]
JobStep ==
  \A r \in Runs : jobs'[r] # jobs[r]
    => jobs'[r] = 1 /\ approval[r] # "approved" /\ approval'[r] = "approved" /\ made'[r] = 1

LEMMA FirstOfferCounts ==
  ASSUME ReviewOK, Counted, OfferFirst
  PROVE  Counted' /\ DecisionStep /\ JobStep
<1>1. PICK r \in Runs, text \in SUBSET (1..MaxSeq) :
        made[r] = 0 /\ (Offer(r, text, TRUE) \/ Offer(r, text, FALSE))
  BY DEF OfferFirst
<1>2. /\ jobs[r] = 0 /\ approval[r] = "none" BY <1>1 DEF Counted, ReviewOK
<1>3. made'[r] = 1 BY <1>1 DEF Offer, ReviewOK
<1>4. \/ approval'[r] = "approved" /\ jobs'[r] = 1
      \/ approval'[r] = "pending" /\ jobs'[r] = 0
  <2>1. CASE Offer(r, text, TRUE) BY <1>2, <2>1 DEF Offer, ReviewOK
  <2>2. CASE Offer(r, text, FALSE) BY <1>2, <2>2 DEF Offer, ReviewOK
  <2> QED BY <1>1, <2>1, <2>2
<1>5. \A q \in Runs \ {r} : /\ made'[q] = made[q] /\ approval'[q] = approval[q]
                            /\ jobs'[q] = jobs[q]
  BY <1>1, OnlyOffer
<1>6. UNCHANGED <<aged, judging>> BY <1>1 DEF Offer
<1>7. \A q \in Runs : /\ made'[q] <= 1 /\ jobs'[q] <= made'[q]
                      /\ approval'[q] # "none" => made'[q] = 1
                      /\ approval'[q] = "approved" => jobs'[q] = 1
  BY <1>3, <1>4, <1>5 DEF Counted
<1>8. ASSUME NEW v \in Reviewers, judging'[v] # Nobody PROVE made'[judging'[v].run] = 1
  <2>1. judging[v].run \in Runs /\ made[judging[v].run] = 1
    BY <1>6, <1>8, DecisionFields DEF Counted
  <2> QED BY <1>3, <1>5, <1>6, <2>1
<1>9. Counted' BY <1>7, <1>8 DEF Counted
<1>10. DecisionStep BY <1>2, <1>5, <1>6 DEF DecisionStep, Closed
<1>11. JobStep BY <1>2, <1>3, <1>4, <1>5 DEF JobStep
<1> QED BY <1>9, <1>10, <1>11

LEMMA ReviewCounts ==
  ASSUME ReviewOK, Counted, ReviewNext
  PROVE  Counted' /\ DecisionStep /\ JobStep
<1>1. ASSUME NEW v \in Reviewers, NEW r \in Runs, NEW verdict \in {"approved", "rejected"},
             Judge(v, r, verdict)
      PROVE  Counted' /\ DecisionStep /\ JobStep
  <2>1. /\ approval[r] = "pending" /\ r \notin aged
        /\ UNCHANGED <<made, approval, aged, jobs>>
    BY <1>1 DEF Judge
  <2>2. PICK d : d = [run |-> r, verdict |-> verdict] OBVIOUS
  <2>3. d.run = r /\ judging' = [judging EXCEPT ![v] = d] BY <1>1, <2>2 DEF Judge
  <2>4. \A u \in Reviewers : judging'[u] = judging[u] \/ judging'[u].run = r
    BY <2>3 DEF ReviewOK
  <2>5. made[r] = 1 BY <2>1 DEF Counted
  <2>6. Counted' BY <2>1, <2>4, <2>5 DEF Counted
  <2>7. DecisionStep
    <3> SUFFICES ASSUME NEW q \in Runs, Closed(q)
                 PROVE  Closed(q)' /\ approval'[q] = approval[q] /\ jobs'[q] = jobs[q]
      BY DEF DecisionStep
    <3>1. q # r BY <2>1 DEF Closed
    <3> QED BY <2>1, <2>4, <3>1 DEF Closed
  <2>8. JobStep BY <2>1 DEF JobStep
  <2> QED BY <2>6, <2>7, <2>8
<1>2. ASSUME NEW v \in Reviewers, Decide(v)
      PROVE  Counted' /\ DecisionStep /\ JobStep
  <2>1. judging[v] # Nobody BY <1>2 DEF Decide
  <2>2. PICK r \in Runs, verdict \in {"approved", "rejected"} :
          r = judging[v].run /\ verdict = judging[v].verdict
    BY <2>1, DecisionFields
  <2>3. /\ judging'  = [judging EXCEPT ![v] = Nobody]
        /\ approval' = [approval EXCEPT ![r] = verdict]
        /\ jobs'     = [jobs EXCEPT ![r] = JobsAfter(r, verdict)]
        /\ UNCHANGED <<made, aged>>
    BY <1>2, <2>2 DEF Decide
  <2>4. made[r] = 1 BY <2>1, <2>2 DEF Counted
  <2>5. /\ approval'[r] = verdict /\ jobs'[r] = JobsAfter(r, verdict)
        /\ \A q \in Runs \ {r} : approval'[q] = approval[q] /\ jobs'[q] = jobs[q]
    BY <2>3 DEF ReviewOK
  <2>6. jobs[r] \in {0, 1} BY <2>4 DEF Counted, ReviewOK
  <2>7. /\ JobsAfter(r, verdict) \in {0, 1}
        /\ verdict = "approved" => JobsAfter(r, verdict) = 1
        /\ JobsAfter(r, verdict) # jobs[r] => verdict = "approved" /\ jobs[r] = 0
    BY <2>6 DEF JobsAfter
  <2>8. \A u \in Reviewers : judging'[u] = judging[u] \/ judging'[u] = Nobody
    BY <2>3 DEF ReviewOK
  <2>9. Counted' BY <2>3, <2>4, <2>5, <2>7, <2>8 DEF Counted
  <2>10. DecisionStep
    <3> SUFFICES ASSUME NEW q \in Runs, Closed(q)
                 PROVE  Closed(q)' /\ approval'[q] = approval[q] /\ jobs'[q] = jobs[q]
      BY DEF DecisionStep
    <3>1. q # r BY <2>1, <2>2 DEF Closed
    <3>2. UNCHANGED aged /\ approval'[q] = approval[q] /\ jobs'[q] = jobs[q]
      BY <2>3, <2>5, <3>1
    <3> QED BY <2>8, <3>2 DEF Closed
  <2>11. JobStep BY <2>3, <2>4, <2>5, <2>7 DEF JobStep, Counted
  <2> QED BY <2>9, <2>10, <2>11
<1>3. ASSUME NEW r \in Runs, CandidateAges(r)
      PROVE  Counted' /\ DecisionStep /\ JobStep
  BY <1>3 DEF CandidateAges, Counted, DecisionStep, JobStep, Closed
<1> QED BY <1>1, <1>2, <1>3 DEF ReviewNext

LEMMA RepliesStep ==
  ASSUME Unmixed
  PROVE  Replies /\ [Next]_vars => Replies' /\ DecisionStep /\ JobStep
<1> SUFFICES ASSUME Replies, [Next]_vars PROVE Replies' /\ DecisionStep /\ JobStep OBVIOUS
<1> USE DEF Replies
<1>1. Base' /\ Whole' BY BaseStep, WholeStep
<1>2. UNCHANGED review \/ OfferFirst \/ ReviewNext BY OffersOnce
<1>3. Behind' BY <1>2, StaysOver, BehindStep
<1>4. ReviewOK BY TypeParts DEF Base
<1>5. ASSUME UNCHANGED review PROVE Counted' /\ DecisionStep /\ JobStep
  <2>1. UNCHANGED <<made, approval, aged, judging, jobs>> BY <1>5 DEF review
  <2>2. Counted' BY <2>1 DEF Counted
  <2>3. DecisionStep BY <2>1 DEF DecisionStep, Closed
  <2>4. JobStep BY <2>1 DEF JobStep
  <2> QED BY <2>2, <2>3, <2>4
<1>6. Counted' /\ DecisionStep /\ JobStep
  BY <1>2, <1>4, <1>5, FirstOfferCounts, ReviewCounts
<1> QED BY <1>1, <1>3, <1>6

LEMMA InitReplies == Init => Replies
<1> SUFFICES ASSUME Init PROVE Replies OBVIOUS
<1>1. Behind /\ Counted BY DEF Init, Behind, Counted
<1> QED BY <1>1, InitBase, InitWhole DEF Replies

(* A trigger is answered at most once, whatever is retried.                *)
THEOREM OneReply == ASSUME Unmixed PROVE Spec => []OneReplyPerTrigger
<1>1. Replies => OneReplyPerTrigger
  <2> SUFFICES ASSUME Replies, NEW r \in Runs PROVE made[r] <= 1 /\ jobs[r] <= 1
    BY DEF OneReplyPerTrigger
  <2>1. made[r] \in Nat /\ jobs[r] \in Nat BY TypeParts DEF Replies, Base, ReviewOK
  <2> QED BY <2>1 DEF Replies, Counted
<1> QED BY <1>1, InitReplies, RepliesStep, PTL DEF Spec

(* What was decided, or has expired, is closed for good.                   *)
THEOREM DecisionsStand == ASSUME Unmixed PROVE Spec => DecisionStands
<1>1. Replies /\ [Next]_vars => [DecisionStep]_vars BY RepliesStep
<1>2. Spec => [][DecisionStep]_vars BY <1>1, InitReplies, RepliesStep, PTL DEF Spec
<1> QED BY <1>2 DEF DecisionStands, DecisionStep

(* Nothing is queued without an approval.                                  *)
THEOREM JobsAreApproved == ASSUME Unmixed PROVE Spec => JobIsApproved
<1>1. Replies /\ [Next]_vars => [JobStep]_vars BY RepliesStep
<1>2. Spec => [][JobStep]_vars BY <1>1, InitReplies, RepliesStep, PTL DEF Spec
<1> QED BY <1>2 DEF JobIsApproved, JobStep
=============================================================================
