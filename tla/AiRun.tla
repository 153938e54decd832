-------------------------------- MODULE AiRun --------------------------------
(***************************************************************************)
(* One AI conversation of the platform, from the trigger to the delivery   *)
(* job: AiService (ai_service.py) creates a run, hands it to LangBot or to *)
(* a Celery task, assembles the answer from callbacks, and offers it as a  *)
(* reply candidate; ApprovalService (approval_service.py) decides on the   *)
(* candidate and queues the job Delivery then models.                      *)
(*                                                                         *)
(* Every handler is one database transaction under READ COMMITTED: it      *)
(* reads rows, and overwrites them by primary key when it commits.  What   *)
(* was read in between is kept in the handler's own variable.  A row a     *)
(* transaction has inserted is invisible until its commit, but holds its   *)
(* place in the unique indexes: whoever collides with it waits.            *)
(***************************************************************************)
EXTENDS Naturals, FiniteSets

CONSTANTS
  Runs,        (* triggers of one (tenant, project, chat, topic, agent)    *)
  Engine,      (* Runs -> how the answer is made                           *)
  MaxSeq,      (* bound: segments of one LangBot answer                    *)
  Handlers,    (* callback requests served at a time                       *)
  Reviewers,   (* approval requests served at a time                       *)
  AutoApprove, (* the runs of a group or binding with auto_approve         *)
  KeyedScope,  (* no NULL in topic_id and agent_key: the key of the        *)
               (* conversation table tells duplicates                      *)
  Nobody

Engines == {"langbot",    \* answered by signed callbacks
            "deferred",   \* by a Celery task (group members)
            "direct",     \* inside the trigger's own transaction
            "person"}     \* a candidate made through the API

ASSUME ConstantsAssumption ==
  /\ Engine \in [Runs -> Engines]
  /\ MaxSeq \in Nat \ {0}
  /\ AutoApprove \subseteq Runs
  /\ KeyedScope \in BOOLEAN
  /\ Nobody \notin Runs

VARIABLES
  status,    (* tg_ai_run.status, "none" while there is no committed row   *)
  expected,  (* tg_ai_run.expected_seq                                     *)
  session,   (* the conversation of a run, named by the trigger that made it *)
  convs,     (* committed tg_ai_conversation rows                          *)
  locked,    (* those with status locked                                   *)
  trigger,   (* how far the trigger's transaction is                       *)
  turn,      (* LangBot: segments of its answer, 0 without one             *)
  stored,    (* tg_ai_callback rows                                        *)
  handler,   (* callback requests between their reads and their commit     *)
  task,      (* the run's Celery task                                      *)
  cancelling,(* cancel requests that found the run active                  *)
  overdue,   (* runs past their deadline                                   *)
  sweep,     (* the overdue runs a sweep in progress has read              *)
  made,      (* candidates offered for the run                             *)
  parts,     (* the segments the candidate was put together from           *)
  approval,  (* tg_approval.status of the candidate                        *)
  aged,      (* candidates past expires_at                                 *)
  judging,   (* decisions that found the approval pending                  *)
  jobs       (* delivery_job rows queued for the candidate                 *)

rows     == <<status, expected, session, convs, locked>>
requests == <<trigger, turn, stored, handler, task, cancelling>>
clock    == <<overdue, sweep>>
review   == <<made, parts, approval, aged, judging, jobs>>
vars     == <<rows, requests, clock, review>>

Active   == {"pending", "dispatched", "running"}
Ended    == {"completed", "incomplete", "failed", "cancelled"}
Segment  == [to : Runs, seq : 1..MaxSeq]
Callback == [to : Runs, seq : 1..MaxSeq, run : Runs \cup {Nobody}]
Reading  == [to : Runs, seq : 1..MaxSeq, run : Runs \cup {Nobody},
             exp : 1..MaxSeq + 1]
Decision == [run : Runs, verdict : {"approved", "rejected"}]

TypeOK ==
  /\ status   \in [Runs -> {"none"} \cup Active \cup Ended]
  /\ expected \in [Runs -> 1..MaxSeq + 1]
  /\ session  \in [Runs -> Runs \cup {Nobody}]
  /\ convs    \subseteq Runs
  /\ locked   \subseteq Runs
  /\ trigger  \in [Runs -> {"no", "open", "accepted", "refused", "over"}]
  /\ turn     \in [Runs -> 0..MaxSeq]
  /\ stored   \subseteq Callback
  /\ handler  \in [Handlers -> Reading \cup {Nobody}]
  /\ task     \in [Runs -> {"none", "queued", "dropping", "calling", "settling", "over"}]
  /\ cancelling \subseteq Runs
  /\ overdue  \subseteq Runs
  /\ sweep    \subseteq Runs
  /\ made     \in [Runs -> Nat]
  /\ parts    \in [Runs -> SUBSET (1..MaxSeq)]
  /\ approval \in [Runs -> {"none", "pending", "approved", "rejected"}]
  /\ aged     \subseteq Runs
  /\ judging  \in [Reviewers -> Decision \cup {Nobody}]
  /\ jobs     \in [Runs -> Nat]

Init ==
  /\ status   = [r \in Runs |-> "none"]
  /\ expected = [r \in Runs |-> 1]
  /\ session  = [r \in Runs |-> Nobody]
  /\ convs = {} /\ locked = {}
  /\ trigger  = [r \in Runs |-> "no"]
  /\ turn     = [r \in Runs |-> 0]
  /\ stored = {}
  /\ handler  = [h \in Handlers |-> Nobody]
  /\ task     = [r \in Runs |-> "none"]
  /\ cancelling = {} /\ overdue = {} /\ sweep = {}
  /\ made     = [r \in Runs |-> 0]
  /\ parts    = [r \in Runs |-> {}]
  /\ approval = [r \in Runs |-> "none"]
  /\ aged = {}
  /\ judging  = [v \in Reviewers |-> Nobody]
  /\ jobs     = [r \in Runs |-> 0]

IsActive(r) == status[r] \in Active

(* The row inserted by a trigger that has not committed yet.               *)
Inserted(r) == trigger[r] \in {"open", "accepted", "refused"}

SessionLooksFree(s, r) ==  \* mutation: only the SELECT, no index
  \A q \in Runs \ {r} : session[q] = s => ~IsActive(q)

(* uq_tg_ai_run_active_session: at most one active row of a session.       *)
SessionFree(s, r) == \A q \in Runs \ {r} : session[q] = s => ~IsActive(q) /\ ~Inserted(q)

(* update_fields and _unlock_conversation: unconditional, by primary key.  *)
Finish(r, st) ==
  /\ status' = [status EXCEPT ![r] = st]
  /\ locked' = locked \ {session[r]}

(* _create_candidate: the candidate with its approval, and the delivery    *)
(* job at once if it needs no reviewer.                                    *)
Offer(r, text, auto) ==
  /\ made'     = [made EXCEPT ![r] = @ + 1]
  /\ parts'    = [parts EXCEPT ![r] = text]
  /\ approval' = [approval EXCEPT ![r] = IF auto THEN "approved" ELSE "pending"]
  /\ jobs'     = [jobs EXCEPT ![r] = IF auto THEN @ + 1 ELSE @]
  /\ UNCHANGED <<aged, judging>>

-----------------------------------------------------------------------------
(* trigger: the conversation is looked up by its scope or made, the run    *)
(* inserted, and the engine asked before the transaction commits.          *)

(* get_by_scope finds a committed conversation of the scope.               *)
Conversation(r) == IF convs = {} THEN {r} ELSE convs

NoOtherMakesIt(r) ==
  KeyedScope => \A q \in Runs : Inserted(q) => session[q] \in convs

Begin(r) ==
  /\ Engine[r] # "person" /\ trigger[r] = "no"
  /\ \E s \in Conversation(r) :
       /\ s = r => NoOtherMakesIt(r)
       /\ SessionFree(s, r)
       /\ session' = [session EXCEPT ![r] = s]
  /\ trigger' = [trigger EXCEPT ![r] = "open"]
  /\ task' = [task EXCEPT ![r] = IF Engine[r] = "deferred" THEN "queued" ELSE @]
  /\ UNCHANGED <<status, expected, convs, locked, turn, stored, handler,
                 cancelling, clock, review>>

(* submit: 202, or an error that leaves open whether LangBot took it.      *)
Submit(r) ==
  /\ Engine[r] = "langbot" /\ trigger[r] = "open"
  /\ \/ /\ trigger' = [trigger EXCEPT ![r] = "accepted"]
        /\ \E n \in 1..MaxSeq : turn' = [turn EXCEPT ![r] = n]
     \/ /\ trigger' = [trigger EXCEPT ![r] = "refused"]
        /\ \E n \in 0..MaxSeq : turn' = [turn EXCEPT ![r] = n]
  /\ UNCHANGED <<rows, stored, handler, task, cancelling, clock, review>>

Committed(r, st) ==
  /\ status'  = [status EXCEPT ![r] = st]
  /\ convs'   = convs \cup {session[r]}
  /\ trigger' = [trigger EXCEPT ![r] = "over"]
  /\ UNCHANGED <<expected, session, turn, stored, handler, task, cancelling, clock>>

CommitDispatched(r) ==
  /\ trigger[r] = "accepted"
  /\ Committed(r, "dispatched")
  /\ locked' = locked \cup {session[r]}
  /\ UNCHANGED review

CommitFailed(r) ==
  /\ trigger[r] = "refused" \/ (Engine[r] = "direct" /\ trigger[r] = "open")
  /\ Committed(r, "failed")
  /\ locked' = IF Engine[r] = "direct" THEN locked \ {session[r]} ELSE locked
  /\ UNCHANGED review

CommitPending(r) ==
  /\ Engine[r] = "deferred" /\ trigger[r] = "open"
  /\ Committed(r, "pending")
  /\ UNCHANGED <<locked, review>>

CommitAnswered(r) ==
  /\ Engine[r] = "direct" /\ trigger[r] = "open"
  /\ Committed(r, "completed")
  /\ Offer(r, {}, r \in AutoApprove)
  /\ locked' = locked \ {session[r]}

(* The request dies, or its commit fails: nothing of it was ever there.    *)
Rollback(r) ==
  /\ Inserted(r)
  /\ trigger' = [trigger EXCEPT ![r] = "over"]
  /\ UNCHANGED <<rows, turn, stored, handler, task, cancelling, clock, review>>

(* create_candidate: offered by a person, without a run.                   *)
CreateCandidate(r) ==
  /\ Engine[r] = "person" /\ made[r] = 0
  /\ Offer(r, {}, FALSE)
  /\ UNCHANGED <<rows, requests, clock>>

TriggerNext(r) ==
  \/ Begin(r) \/ Submit(r) \/ CommitDispatched(r) \/ CommitFailed(r)
  \/ CommitPending(r) \/ CommitAnswered(r) \/ Rollback(r) \/ CreateCandidate(r)

-----------------------------------------------------------------------------
(* LangBot's callbacks.  Each segment may come late, more than once, or    *)
(* not at all; it stays in LangBot's memory only.                          *)

LinkedToAny(to) ==  \* mutation: the status is not looked at
  {r \in Runs : session[to] \in convs /\ session[r] = session[to] /\ r = to}

(* _link_run: an active run of the session with this accepted_message_id,  *)
(* or with none.                                                           *)
Linked(to) ==
  {r \in Runs : /\ session[to] \in convs /\ session[r] = session[to]
                /\ IsActive(r)
                /\ Engine[r] = "langbot" => r = to}

(* handle_callback up to the INSERT: the run is found and its row read.    *)
Receive(h, to, seq) ==
  /\ handler[h] = Nobody /\ seq \in 1..turn[to]
  /\ \E r \in IF Linked(to) = {} THEN {Nobody} ELSE Linked(to) :
       handler' = [handler EXCEPT ![h] =
         [to |-> to, seq |-> seq, run |-> r, exp |-> IF r = Nobody THEN 1 ELSE expected[r]]]
  /\ UNCHANGED <<rows, trigger, turn, stored, task, cancelling, clock, review>>

IsFinal(m) == m.seq = turn[m.to]

(* uq_tg_ai_callback_seq.                                                  *)
IsDuplicate(m) == \E c \in stored : c.to = m.to /\ c.seq = m.seq

Keep(m) == stored' = stored \cup {[to |-> m.to, seq |-> m.seq, run |-> m.run]}

(* get_all_for_run, joined by _assemble.                                   *)
Assembled(r) == {c.seq : c \in {d \in stored' : d.run = r}}

(* The request is answered, and LangBot goes on; or it fails, and LangBot  *)
(* may try again.                                                          *)
Answered(h) ==
  /\ handler' = [handler EXCEPT ![h] = Nobody]
  /\ UNCHANGED <<session, convs, trigger, turn, task, cancelling, clock>>

Dedup(h) ==
  /\ handler[h] # Nobody /\ IsDuplicate(handler[h])
  /\ Answered(h)
  /\ UNCHANGED <<status, expected, locked, stored, review>>

StoreUnlinked(h) ==
  LET m == handler[h] IN
  /\ m # Nobody /\ ~IsDuplicate(m) /\ m.run = Nobody
  /\ Answered(h) /\ Keep(m)
  /\ UNCHANGED <<status, expected, locked, review>>

GapOffered(h) ==  \* mutation: the last segment completes the run anyway
  LET m == handler[h] IN
  /\ m # Nobody /\ ~IsDuplicate(m) /\ m.run # Nobody /\ m.seq # m.exp
  /\ Answered(h) /\ Keep(m)
  /\ IF IsFinal(m)
     THEN Finish(m.run, "completed") /\ Offer(m.run, Assembled(m.run), FALSE)
     ELSE UNCHANGED <<status, locked, review>>
  /\ UNCHANGED expected

(* _advance_run on a segment out of order: kept, and the end of the run if *)
(* it is the last.                                                         *)
StoreGap(h) ==
  LET m == handler[h] IN
  /\ m # Nobody /\ ~IsDuplicate(m) /\ m.run # Nobody /\ m.seq # m.exp
  /\ Answered(h) /\ Keep(m)
  /\ IF IsFinal(m) THEN Finish(m.run, "incomplete") ELSE UNCHANGED <<status, locked>>
  /\ UNCHANGED <<expected, review>>

(* ... in order: the next is expected, whatever became of the run.  The    *)
(* index refuses a row that is active again beside another.                *)
Advance(h) ==
  LET m == handler[h] IN
  /\ m # Nobody /\ ~IsDuplicate(m) /\ m.run # Nobody /\ m.seq = m.exp /\ ~IsFinal(m)
  /\ SessionFree(session[m.run], m.run)
  /\ Answered(h) /\ Keep(m)
  /\ status'   = [status EXCEPT ![m.run] = "running"]
  /\ expected' = [expected EXCEPT ![m.run] = m.seq + 1]
  /\ UNCHANGED <<locked, review>>

Complete(h) ==
  LET m == handler[h] IN
  /\ m # Nobody /\ ~IsDuplicate(m) /\ m.run # Nobody /\ m.seq = m.exp /\ IsFinal(m)
  /\ Answered(h) /\ Keep(m)
  /\ Finish(m.run, "completed")
  /\ expected' = [expected EXCEPT ![m.run] = m.seq + 1]
  /\ Offer(m.run, Assembled(m.run), FALSE)

(* An IntegrityError of the run row, a lost connection, a crash.           *)
CallbackFails(h) ==
  /\ handler[h] # Nobody
  /\ Answered(h)
  /\ UNCHANGED <<status, expected, locked, stored, review>>

CallbackNext(h) ==
  \/ \E to \in Runs, seq \in 1..MaxSeq : Receive(h, to, seq)
  \/ Dedup(h) \/ StoreUnlinked(h) \/ StoreGap(h) \/ Advance(h) \/ Complete(h)
  \/ CallbackFails(h)

-----------------------------------------------------------------------------
(* The Celery task of a deferred run (tg_ai_openai_generate).              *)

TaskAt(r, at) == task' = [task EXCEPT ![r] = at]
InTask == <<expected, session, convs, trigger, turn, stored, handler, cancelling, clock>>

(* missing after three tries, or skipped.                                  *)
TaskFindsNothing(r) ==
  /\ task[r] = "queued" /\ status[r] # "pending"
  /\ TaskAt(r, "over")
  /\ UNCHANGED <<InTask, status, locked, review>>

(* Pending: given up (binding or group inactive, stale) or generated.      *)
TaskStarts(r) ==
  /\ task[r] = "queued" /\ status[r] = "pending"
  /\ TaskAt(r, "dropping") \/ TaskAt(r, "calling")
  /\ UNCHANGED <<InTask, status, locked, review>>

TaskDrops(r) ==
  /\ task[r] = "dropping"
  /\ TaskAt(r, "over") /\ Finish(r, "cancelled")
  /\ UNCHANGED <<InTask, review>>

(* The model has answered, or failed: db.refresh reads the status again.   *)
TaskRefreshes(r) ==
  /\ task[r] = "calling"
  /\ TaskAt(r, IF status[r] = "pending" THEN "settling" ELSE "over")
  /\ UNCHANGED <<InTask, status, locked, review>>

(* _fail_run: the model failed, or the gate refused its text.              *)
TaskFails(r) ==
  /\ task[r] = "settling"
  /\ TaskAt(r, "over") /\ Finish(r, "failed")
  /\ UNCHANGED <<InTask, review>>

TaskCompletes(r) ==
  /\ task[r] = "settling"
  /\ TaskAt(r, "over") /\ Finish(r, "completed")
  /\ Offer(r, {}, r \in AutoApprove)
  /\ UNCHANGED InTask

(* The task is lost, or rolled back by a database error and run again      *)
(* (autoretry_for of TaskBase).                                            *)
TaskDies(r) ==
  /\ task[r] \in {"queued", "dropping", "calling", "settling"}
  /\ TaskAt(r, "over") \/ TaskAt(r, "queued")
  /\ UNCHANGED <<InTask, status, locked, review>>

TaskNext(r) ==
  \/ TaskFindsNothing(r) \/ TaskStarts(r) \/ TaskDrops(r) \/ TaskRefreshes(r)
  \/ TaskFails(r) \/ TaskCompletes(r) \/ TaskDies(r)

-----------------------------------------------------------------------------
(* cancel_run and sweep_deadlines: the status is read, then overwritten.   *)

AskCancel(r) ==
  /\ IsActive(r) /\ r \notin cancelling
  /\ cancelling' = cancelling \cup {r}
  /\ UNCHANGED <<rows, trigger, turn, stored, handler, task, clock, review>>

WriteCancel(r) ==
  /\ r \in cancelling
  /\ cancelling' = cancelling \ {r}
  /\ Finish(r, "cancelled")
  /\ UNCHANGED <<expected, session, convs, trigger, turn, stored, handler, task,
                 clock, review>>

DeadlinePasses(r) ==
  /\ status[r] # "none" /\ r \notin overdue
  /\ overdue' = overdue \cup {r}
  /\ UNCHANGED <<rows, requests, sweep, review>>

SweepableSent ==  \* mutation: runs still pending are forgotten
  {r \in overdue : status[r] \in {"dispatched", "running"}}

Sweepable == {r \in overdue : IsActive(r)}

SweepBegins ==
  /\ sweep = {} /\ Sweepable # {}
  /\ sweep' = Sweepable
  /\ UNCHANGED <<rows, requests, overdue, review>>

SweepEnds ==
  /\ sweep # {}
  /\ sweep' = {}
  /\ status' = [r \in Runs |-> IF r \in sweep THEN "incomplete" ELSE status[r]]
  /\ locked' = locked \ {session[r] : r \in sweep}
  /\ UNCHANGED <<expected, session, convs, requests, overdue, review>>

-----------------------------------------------------------------------------
(* Decisions (_decide).  Past expires_at the row's "expired" is written    *)
(* and the request refused by an exception, which rolls the write back:    *)
(* nothing happens.                                                        *)

JudgeAgain(v, r, verdict) ==  \* mutation: a decided approval is decided again
  /\ judging[v] = Nobody
  /\ approval[r] # "none" /\ r \notin aged
  /\ judging' = [judging EXCEPT ![v] = [run |-> r, verdict |-> verdict]]
  /\ UNCHANGED <<rows, requests, clock, made, parts, approval, aged, jobs>>

Judge(v, r, verdict) ==
  /\ judging[v] = Nobody
  /\ approval[r] = "pending" /\ r \notin aged
  /\ judging' = [judging EXCEPT ![v] = [run |-> r, verdict |-> verdict]]
  /\ UNCHANGED <<rows, requests, clock, made, parts, approval, aged, jobs>>

JobAgain(r, verdict) ==  \* mutation: no idempotency key
  IF verdict = "approved" THEN jobs[r] + 1 ELSE jobs[r]

JobForAny(r, verdict) ==  \* mutation: queued whatever the verdict
  IF jobs[r] = 0 THEN 1 ELSE jobs[r]

(* _create_send_job: the job of an approval is made once.                  *)
JobsAfter(r, verdict) == IF verdict = "approved" /\ jobs[r] = 0 THEN 1 ELSE jobs[r]

Decide(v) ==
  LET d == judging[v] IN
  /\ d # Nobody
  /\ judging'  = [judging EXCEPT ![v] = Nobody]
  /\ approval' = [approval EXCEPT ![d.run] = d.verdict]
  /\ jobs'     = [jobs EXCEPT ![d.run] = JobsAfter(d.run, d.verdict)]
  /\ UNCHANGED <<rows, requests, clock, made, parts, aged>>

CandidateAges(r) ==
  /\ approval[r] = "pending" /\ r \notin aged
  /\ aged' = aged \cup {r}
  /\ UNCHANGED <<rows, requests, clock, made, parts, approval, judging, jobs>>

ReviewNext ==
  \/ \E v \in Reviewers, r \in Runs, verdict \in {"approved", "rejected"} : Judge(v, r, verdict)
  \/ \E v \in Reviewers : Decide(v)
  \/ \E r \in Runs : CandidateAges(r)

Next ==
  \/ \E r \in Runs : TriggerNext(r) \/ TaskNext(r)
  \/ \E h \in Handlers : CallbackNext(h)
  \/ \E r \in Runs : AskCancel(r) \/ WriteCancel(r) \/ DeadlinePasses(r)
  \/ SweepBegins \/ SweepEnds
  \/ ReviewNext

Spec == Init /\ [][Next]_vars

(* Celery beat starts the sweep every minute, time passes, and a request   *)
(* under way ends.  LangBot owes nothing, and a task may be lost.          *)
Fairness ==
  /\ \A r \in Runs : WF_vars(DeadlinePasses(r))
  /\ WF_vars(SweepBegins) /\ WF_vars(SweepEnds)

FairSpec == Spec /\ Fairness

-----------------------------------------------------------------------------
(* Safety.                                                                 *)

(* No half answer is offered: the candidate of a LangBot run is made of    *)
(* every segment of the answer and of no other run's, however the          *)
(* callbacks were reordered, repeated or handled at once                   *)
(* (_advance_run, _assemble).                                              *)
CandidateIsWhole ==
  \A r \in Runs : Engine[r] = "langbot" /\ made[r] > 0 => parts[r] = 1..turn[r]

(* A trigger is answered at most once: one candidate, one delivery job,    *)
(* whatever is retried (uq_tg_ai_callback_seq, the pending check of the    *)
(* task, the idempotency key approval:{uuid}).                             *)
OneReplyPerTrigger == \A r \in Runs : made[r] <= 1 /\ jobs[r] <= 1

(* One scope generates one answer at a time, though a callback may put a   *)
(* cancelled or swept run back to running.                                 *)
OneActiveRun == Cardinality({r \in Runs : IsActive(r)}) <= 1

(* expected_seq is backed by the rows: all earlier segments are stored,    *)
(* and linked to this run.                                                 *)
ExpectedIsStored ==
  \A r \in Runs : \A n \in 1..(expected[r] - 1) :
    [to |-> r, seq |-> n, run |-> r] \in stored

-----------------------------------------------------------------------------
(* Action properties.                                                      *)

(* A request in progress has read the run while it was active.             *)
HeldActive(r) ==
  \/ \E h \in Handlers : handler[h] # Nobody /\ handler[h].run = r
  \/ task[r] \in {"dropping", "settling"} \/ r \in cancelling \cup sweep

(* An ended run is over: only a request that had read it as active may     *)
(* still change it or offer an answer for it.                              *)
EndedStaysEnded ==
  [][\A r \in Runs : status[r] \in Ended /\ ~HeldActive(r)
       => status'[r] = status[r] /\ made'[r] = made[r]]_vars

(* Nothing is left to decide, and no reviewer still believes there is.     *)
Closed(r) ==
  /\ approval[r] \in {"approved", "rejected"} \/ (approval[r] = "pending" /\ r \in aged)
  /\ \A v \in Reviewers : judging[v] # Nobody => judging[v].run # r

(* A decided or expired approval is closed for good: only a reviewer who   *)
(* had read it before may still overturn it or queue its job (_decide).    *)
DecisionStands ==
  [][\A r \in Runs : Closed(r) =>
       Closed(r)' /\ approval'[r] = approval[r] /\ jobs'[r] = jobs[r]]_vars

(* Nothing is queued without an approval: a job comes with the step that   *)
(* approves its candidate, the first time.                                 *)
JobIsApproved ==
  [][\A r \in Runs : jobs'[r] # jobs[r]
       => jobs'[r] = 1 /\ approval[r] # "approved" /\ approval'[r] = "approved"
          /\ made'[r] = 1]_vars

(* Liveness.  A run that waits for its callbacks, its task or its model    *)
(* does not hold its conversation for ever (sweep_deadlines).              *)
RunEnds == \A r \in Runs : IsActive(r) ~> ~IsActive(r)

(* Refuted claims.  A cancelled run brings nothing into the send queue.    *)
CancelledIsSilent == \A r \in Runs : status[r] = "cancelled" => jobs[r] = 0

(* What a reviewer rejected is not sent.                                   *)
RejectedIsNotSent == \A r \in Runs : approval[r] = "rejected" => jobs[r] = 0

(* A conversation is locked while it has an unfinished run of LangBot's.   *)
LockedWhileActive ==
  \A r \in Runs : Engine[r] = "langbot" /\ IsActive(r) => session[r] \in locked
=============================================================================
