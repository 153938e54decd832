------------------------------ MODULE Delivery ------------------------------
(***************************************************************************)
(* The delivery jobs of one account, and everything that writes them:      *)
(*   - the AccountRunner of each worker process that hosts the account     *)
(*     (claim -> gate -> execute -> record, runtime/worker/runner.py) over *)
(*     the job repository (runtime/storage/repos.py);                      *)
(*   - the platform's retry and cancel endpoints (delivery_service.py),    *)
(*     which read a status and later overwrite it;                         *)
(*   - the CancelJob command of a worker host;                             *)
(*   - time: back-offs and flood windows end, rows in 'sending' grow old;  *)
(*   - crashes of a worker at any point.                                   *)
(* A step of a runner is one database transaction, or one exchange with    *)
(* Telegram: exactly the points between which another process can act.     *)
(*                                                                         *)
(* The module is open: which workers host the account (Attach, Release),   *)
(* what the live registry, the policy and the approvals answer, and when   *)
(* jobs are created are inputs.  Two workers may host the account at once: *)
(* the lease does not prevent it (see Lease).                              *)
(***************************************************************************)
EXTENDS JobModel, Integers, FiniteSets

CONSTANTS
  Jobs,          (* the account's jobs; a smaller number was created first  *)
  Workers,       (* worker processes that may host the account              *)
  Operators,     (* concurrent retry/cancel requests to the platform        *)
  Kind,          (* Jobs -> the job's kind column                           *)
  Source,        (* Jobs -> the (route, source message) the job is about    *)
  NeedsApproval, (* the jobs planned with requires_approval                 *)
  NoTarget,      (* message_map has no row                                  *)
  TryBound,      (* bound: a job is claimed at most this often              *)
  FaultBound     (* bound: number of faults and storage errors             *)

JobKind == {"send", "send_message", "edit", "delete"}

ASSUME ConstantsAssumption ==
  /\ Jobs \subseteq Nat
  /\ Kind \in [Jobs -> JobKind]
  /\ NeedsApproval \subseteq Jobs
  /\ NoTarget \notin Jobs \X (Nat \ {0})
  /\ TryBound \in Nat
  /\ FaultBound \in Nat

VARIABLES
  (* delivery_job *)
  status,    (* Jobs -> status, "absent" before the row exists              *)
  tries,     (* attempt_count                                               *)
  backoff,   (* the jobs whose next_attempt_at lies in the future           *)
  flooded,   (* the jobs whose flood_wait_until lies in the future          *)
  aged,      (* the jobs with updated_at more than _SENDING_STALE_S ago     *)
  (* delivery_attempt, rows named by (job, attempt_no) *)
  rows,      (* all rows                                                    *)
  open,      (* the rows with finished_at NULL                              *)
  won,       (* the rows with result_status 'succeeded'                     *)
  (* message_map *)
  map,       (* source -> the attempt whose message the row names           *)
  (* the AccountRunner of each worker *)
  pc,        (* where send_next is                                          *)
  seen,      (* candidates of claim_next: job -> attempt_count as selected  *)
  held,      (* the (job, attempt_no) being worked on                       *)
  outcome,   (* DeliveryResult                                              *)
  (* platform requests between their read and their write *)
  request,
  (* outside the database *)
  acted,     (* the attempts whose request Telegram carried out             *)
  reopened,  (* history: how often a reclaim or a retry made the job ready  *)
  faults     (* history: faults and storage errors so far                  *)

jobRow  == <<status, tries, backoff, flooded, aged>>
logRows == <<rows, open, won>>
runner  == <<pc, seen, held, outcome>>
vars == <<jobRow, logRows, map, runner, request, acted, reopened, faults>>

Attempt  == Jobs \X (Nat \ {0})
Sources  == {Source[j] : j \in Jobs}
NoResult == "none"
NoCandidates == [j \in {} |-> 0]
Idle     == [op |-> "none", job |-> 0]

Loc == {"off", "parked", "reclaim", "select", "claim", "gate", "exec",
        "wire", "record", "halted"}

TypeOK ==
  /\ status  \in [Jobs -> Status \cup {"absent"}]
  /\ tries   \in [Jobs -> Nat]
  /\ backoff \subseteq Jobs
  /\ flooded \subseteq Jobs
  /\ aged    \subseteq Jobs
  /\ rows \subseteq Attempt
  /\ open \subseteq rows
  /\ won  \subseteq rows
  /\ map     \in [Sources -> Attempt \cup {NoTarget}]
  /\ pc      \in [Workers -> Loc]
  /\ DOMAIN seen = Workers
  /\ \A w \in Workers : /\ DOMAIN seen[w] \subseteq Jobs
                        /\ seen[w] \in [DOMAIN seen[w] -> Nat]
  /\ held    \in [Workers -> Attempt \cup {NoTarget}]
  /\ outcome \in [Workers -> Outcome \cup {NoResult}]
  /\ request \in [Operators -> {Idle} \cup [op : {"retry", "cancel"}, job : Jobs]]
  /\ acted \subseteq Attempt
  /\ reopened \in [Jobs -> Nat]
  /\ faults  \in Nat

Init ==
  /\ status  = [j \in Jobs |-> "absent"]
  /\ tries   = [j \in Jobs |-> 0]
  /\ backoff = {} /\ flooded = {} /\ aged = {}
  /\ rows = {} /\ open = {} /\ won = {}
  /\ map     = [s \in Sources |-> NoTarget]
  /\ pc      = [w \in Workers |-> "off"]
  /\ seen    = [w \in Workers |-> NoCandidates]
  /\ held    = [w \in Workers |-> NoTarget]
  /\ outcome = [w \in Workers |-> NoResult]
  /\ request = [o \in Operators |-> Idle]
  /\ acted = {}
  /\ reopened = [j \in Jobs |-> 0]
  /\ faults  = 0

-----------------------------------------------------------------------------
(* Writes of the job row.                                                  *)

(* UPDATE delivery_job SET status, next_attempt_at, flood_wait_until; the  *)
(* column's onupdate refreshes updated_at.                                 *)
WriteJob(j, st, wait, flood) ==
  /\ status'  = [status EXCEPT ![j] = st]
  /\ backoff' = IF wait  THEN backoff \cup {j} ELSE backoff \ {j}
  /\ flooded' = IF flood THEN flooded \cup {j} ELSE flooded \ {j}
  /\ aged'    = aged \ {j}
  /\ UNCHANGED tries

(* DeliveryJobRepository.transition: ... WHERE status = src.               *)
Transition(j, src, dst, wait) ==
  IF status[j] = src THEN WriteJob(j, dst, wait, FALSE) ELSE UNCHANGED jobRow

Goto(w, from, to) ==
  /\ pc[w] = from
  /\ pc' = [pc EXCEPT ![w] = to]

-----------------------------------------------------------------------------
(* Jobs appear: the planner's drain of the inbox, or an approved candidate. *)
(* The platform writes its jobs ready, whatever requires_approval says.     *)

CreateJob(j) ==
  /\ status[j] = "absent"
  /\ WriteJob(j, IF Kind[j] # "send_message" /\ j \in NeedsApproval
                 THEN "waiting_approval" ELSE "ready", FALSE, FALSE)
  /\ UNCHANGED <<logRows, map, runner, request, acted, reopened, faults>>

(* WorkerHost.assign, after the lease was won.                             *)
Attach(w) ==
  /\ Goto(w, "off", "parked")
  /\ UNCHANGED <<jobRow, logRows, map, seen, held, outcome, request, acted,
                 reopened, faults>>

(* The host drops a runner between two rounds, a halted one always.        *)
Release(w) ==
  /\ pc[w] \in {"parked", "halted"}
  /\ pc' = [pc EXCEPT ![w] = "off"]
  /\ UNCHANGED <<jobRow, logRows, map, seen, held, outcome, request, acted,
                 reopened, faults>>

(* What a runner knew is gone; the rows stay as the last commit left them. *)
Forget(w, next) ==
  /\ faults < FaultBound
  /\ faults'  = faults + 1
  /\ pc'      = [pc      EXCEPT ![w] = next]
  /\ seen'    = [seen    EXCEPT ![w] = NoCandidates]
  /\ held'    = [held    EXCEPT ![w] = NoTarget]
  /\ outcome' = [outcome EXCEPT ![w] = NoResult]
  /\ UNCHANGED <<jobRow, logRows, map, request, acted, reopened>>

(* The worker process dies.                                                *)
Crash(w) == pc[w] # "off" /\ Forget(w, "off")

(* A statement fails: the exception leaves send_next and is swallowed by   *)
(* the gather of WorkerHost.run_once.  Exceptions on the wire are not:     *)
(* send_next records those as uncertain.                                   *)
StorageError(w) ==
  /\ pc[w] \in {"reclaim", "select", "claim", "gate", "exec", "record"}
  /\ Forget(w, "parked")

-----------------------------------------------------------------------------
(* AccountRunner.run_once and send_next.                                   *)

BeginRound(w) ==
  /\ Goto(w, "parked", "reclaim")
  /\ UNCHANGED <<jobRow, logRows, map, seen, held, outcome, request, acted,
                 reopened, faults>>

(* _reclaim_stale_sending: rows long in 'sending' go back to ready, their   *)
(* unfinished attempts are marked abandoned.                                *)
StaleInBudget == {j \in Jobs : /\ status[j] = "sending" /\ j \in aged
                               /\ tries[j] < MaxAttempts}  \* mutation

Stale == {j \in Jobs : status[j] = "sending" /\ j \in aged}

ReclaimStale(w) ==
  /\ Goto(w, "reclaim", "select")
  /\ status'   = [j \in Jobs |-> IF j \in Stale THEN "ready" ELSE status[j]]
  /\ aged'     = aged \ Stale
  /\ reopened' = [j \in Jobs |-> IF j \in Stale THEN reopened[j] + 1
                                                ELSE reopened[j]]
  /\ open'     = {r \in open : r[1] \notin Stale}
  /\ UNCHANGED <<tries, backoff, flooded, rows, won, map, seen, held, outcome,
                 request, acted, faults>>

(* claim_next, the SELECT: the ready jobs that are due, with the            *)
(* attempt_count they have now.  No due job: send_next answers None and the *)
(* round ends.  (TryBound bounds the model.)                                *)
Due == {j \in Jobs : /\ status[j] = "ready" /\ j \notin backoff \cup flooded
                     /\ tries[j] < TryBound}

SelectReady(w) ==
  /\ Goto(w, "select", IF Due = {} THEN "parked" ELSE "claim")
  /\ seen' = [seen EXCEPT ![w] = [j \in Due |-> tries[j]]]
  /\ UNCHANGED <<jobRow, logRows, map, held, outcome, request, acted,
                 reopened, faults>>

(* j is the oldest candidate left.                                          *)
IsFirst(j, S) == j \in S /\ \A k \in S : j <= k

(* uq_attempt_no on (job, attempt_no). *)
FreshUnchecked(a) == TRUE  \* mutation: no unique constraint

Fresh(a) == a \notin rows

(* The attempt row, committed with the claim.                               *)
LogAttempt(a) ==
  /\ rows' = rows \cup {a}
  /\ open' = open \cup {a}
  /\ UNCHANGED won

(* claim_next, the conditional UPDATE and the attempt row, one transaction. *)
(* The count written is the one selected, plus one.                         *)
Claim(w, j) ==
  LET a == <<j, seen[w][j] + 1>> IN
  /\ status[j] = "ready"
  /\ Fresh(a)
  /\ pc'     = [pc EXCEPT ![w] = "gate"]
  /\ status' = [status EXCEPT ![j] = "leased"]
  /\ tries'  = [tries  EXCEPT ![j] = a[2]]
  /\ aged'   = aged \ {j}
  /\ LogAttempt(a)
  /\ held'   = [held EXCEPT ![w] = a]
  /\ seen'   = [seen EXCEPT ![w] = NoCandidates]
  /\ UNCHANGED <<backoff, flooded>>

(* uq_attempt_no: the insert fails, the exception ends the runner's round.  *)
ClaimFails(w, j) ==
  /\ status[j] = "ready"
  /\ ~Fresh(<<j, seen[w][j] + 1>>)
  /\ pc'   = [pc   EXCEPT ![w] = "parked"]
  /\ seen' = [seen EXCEPT ![w] = NoCandidates]
  /\ UNCHANGED <<jobRow, logRows, held>>

(* Another writer was first: on to the next candidate.                      *)
LoseRace(w, j) ==
  LET rest == DOMAIN seen[w] \ {j} IN
  /\ status[j] # "ready"
  /\ pc'   = [pc   EXCEPT ![w] = IF rest = {} THEN "parked" ELSE "claim"]
  /\ seen' = [seen EXCEPT ![w] = [k \in rest |-> seen[w][k]]]
  /\ UNCHANGED <<jobRow, logRows, held>>

TryClaim(w) ==
  /\ pc[w] = "claim"
  /\ \E j \in Jobs : /\ IsFirst(j, DOMAIN seen[w])
                    /\ (Claim(w, j) \/ ClaimFails(w, j) \/ LoseRace(w, j))
  /\ UNCHANGED <<map, outcome, request, acted, reopened, faults>>

-----------------------------------------------------------------------------
(* The gate and the execution.                                             *)

(* SendPolicy.check on what the live registry, the policy and the approval *)
(* provider answer now.  Its decision moves the job on, or back; nobody     *)
(* looks at whether the transition found the job in 'leased'.               *)
Admit(w) ==
  /\ pc' = [pc EXCEPT ![w] = "exec"]
  /\ Transition(held[w][1], "leased", "sending", FALSE)
  /\ UNCHANGED held

Bounce(w, dst, wait, next) ==
  /\ pc' = [pc EXCEPT ![w] = next]
  /\ Transition(held[w][1], "leased", dst, wait)
  /\ held' = [held EXCEPT ![w] = NoTarget]

Gate(w) ==
  /\ pc[w] = "gate"
  /\ \E live \in LiveState, off, limited, approved \in BOOLEAN :
       LET d == Check(live, off, limited, held[w][1] \in NeedsApproval, approved)
       IN \/ d = "allow"         /\ Admit(w)
          \/ d = "blocked_lease" /\ Bounce(w, "ready", FALSE, "halted")
          \/ d = "blocked_rate"  /\ Bounce(w, "ready", RetryLeft(held[w][2]),
                                           "reclaim")
          \/ /\ d \in {"blocked_policy", "blocked_account", "blocked_approval"}
             /\ Bounce(w, "blocked", FALSE, "reclaim")
  /\ UNCHANGED <<logRows, map, seen, outcome, request, acted, reopened, faults>>

(* What the executor answers without a request to Telegram, if it does: its *)
(* second policy check denies, an edit has no mapped target, a delete has   *)
(* none.                                                                    *)
Target(j) == map[Source[j]]

Unperformed(j, denied) ==
  IF denied                                          THEN "denied"
  ELSE IF Kind[j] = "edit"   /\ Target(j) = NoTarget THEN "content"
  ELSE IF Kind[j] = "delete" /\ Target(j) = NoTarget THEN "succeeded"
  ELSE NoResult

(* find_target_message_ids, then DeliveryExecutor.execute up to the request. *)
Prepare(w) ==
  \E denied \in BOOLEAN :
    LET r == Unperformed(held[w][1], denied) IN
    /\ Goto(w, "exec", IF r = NoResult THEN "wire" ELSE "record")
    /\ outcome' = [outcome EXCEPT ![w] = r]
    /\ UNCHANGED <<jobRow, logRows, map, seen, held, request, acted, reopened,
                   faults>>

(* Telegram carries the request out; its answer arrives, or is lost         *)
(* (RESULT_UNKNOWN, or an exception past the transport).                    *)
Perform(w) ==
  /\ Goto(w, "wire", "record")
  /\ acted' = acted \cup {held[w]}
  /\ \E r \in {"succeeded", "unknown"} : outcome' = [outcome EXCEPT ![w] = r]
  /\ UNCHANGED <<jobRow, logRows, map, seen, held, request, reopened, faults>>

(* Nothing is carried out: refused, or a timeout before the request arrived *)
(* (while the source is fetched, say).                                      *)
Fail(w) ==
  /\ Goto(w, "wire", "record")
  /\ \E r \in Failure : outcome' = [outcome EXCEPT ![w] = r]
  /\ UNCHANGED <<jobRow, logRows, map, seen, held, request, acted, reopened,
                 faults>>

(* record_result: job, attempt and message_map in one transaction, only     *)
(* while the job is in 'sending' -- by whichever attempt.                   *)
RecordableLate(j) == status[j] \notin Terminal  \* mutation

Recordable(j) == status[j] = "sending"

(* Mutations: any kind; over an existing row; only a first attempt.         *)
MapsAnyKind(j, r)  == r = "succeeded" /\ Target(j) = NoTarget
MapsFirstTry(j, r) == /\ r = "succeeded" /\ Kind[j] = "send"
                      /\ Target(j) = NoTarget /\ tries[j] = 1

MapsResult(j, r) == r = "succeeded" /\ Kind[j] = "send" /\ Target(j) = NoTarget

(* The attempt row gets its result, even one marked abandoned before.       *)
FinishUnlessAbandoned(a, r) ==  \* mutation
  /\ open' = open \ {a}
  /\ won'  = IF r = "succeeded" /\ a \in open THEN won \cup {a} ELSE won
  /\ UNCHANGED rows

FinishHopefully(a, r) ==  \* mutation: unknown taken for success
  /\ open' = open \ {a}
  /\ won'  = IF r \in {"succeeded", "unknown"} THEN won \cup {a} ELSE won
  /\ UNCHANGED rows

FinishAttempt(a, r) ==
  /\ open' = open \ {a}
  /\ won'  = IF r = "succeeded" THEN won \cup {a} ELSE won
  /\ UNCHANGED rows

RecordResult(a, r) ==
  LET j == a[1] IN
  /\ WriteJob(j, StatusAfter(r, a[2]), r = "transient" /\ RetryLeft(a[2]),
              r = "flood")
  /\ FinishAttempt(a, r)
  /\ map' = IF MapsResult(j, r) THEN [map EXCEPT ![Source[j]] = a] ELSE map

Record(w) ==
  /\ Goto(w, "record", IF HaltsWorker(outcome[w]) THEN "halted" ELSE "reclaim")
  /\ IF Recordable(held[w][1])
       THEN RecordResult(held[w], outcome[w])
       ELSE UNCHANGED <<jobRow, logRows, map>>
  /\ held'    = [held    EXCEPT ![w] = NoTarget]
  /\ outcome' = [outcome EXCEPT ![w] = NoResult]
  /\ UNCHANGED <<seen, request, acted, reopened, faults>>

-----------------------------------------------------------------------------
(* The platform: DeliveryService.retry and cancel.  The status is read and  *)
(* judged in one statement and overwritten, unconditionally, in a later one. *)

RetryableToo == {"failed_permanent", "dead_letter", "uncertain"}  \* mutation

Retryable   == {"failed_permanent", "dead_letter"}
Cancellable == {"pending", "waiting_approval", "ready", "retry_wait",
                "blocked", "uncertain"}

AskRetry(o, j) ==
  /\ request[o] = Idle
  /\ status[j] \in Retryable
  /\ request' = [request EXCEPT ![o] = [op |-> "retry", job |-> j]]
  /\ UNCHANGED <<jobRow, logRows, map, runner, acted, reopened, faults>>

AskCancel(o, j) ==
  /\ request[o] = Idle
  /\ status[j] \in Cancellable
  /\ request' = [request EXCEPT ![o] = [op |-> "cancel", job |-> j]]
  /\ UNCHANGED <<jobRow, logRows, map, runner, acted, reopened, faults>>

WriteRetry(o) ==
  LET j == request[o].job IN
  /\ request[o].op = "retry"
  /\ WriteJob(j, "ready", FALSE, j \in flooded)
  /\ reopened' = [reopened EXCEPT ![j] = @ + 1]
  /\ request'  = [request EXCEPT ![o] = Idle]
  /\ UNCHANGED <<logRows, map, runner, acted, faults>>

WriteCancel(o) ==
  LET j == request[o].job IN
  /\ request[o].op = "cancel"
  /\ WriteJob(j, "cancelled", j \in backoff, j \in flooded)
  /\ request' = [request EXCEPT ![o] = Idle]
  /\ UNCHANGED <<logRows, map, runner, acted, reopened, faults>>

(* WorkerHostMain._cancel_job: a CancelJob command, between two rounds of   *)
(* the host that received it.                                               *)
HostCancel(w, j) ==
  /\ pc[w] = "parked"
  /\ status[j] \in {"ready", "retry_wait", "leased"}
  /\ Transition(j, status[j], "cancelled", FALSE)
  /\ UNCHANGED <<logRows, map, runner, request, acted, reopened, faults>>

-----------------------------------------------------------------------------
(* Time.                                                                    *)

BackoffEnds(j) ==
  /\ j \in backoff
  /\ backoff' = backoff \ {j}
  /\ UNCHANGED <<status, tries, flooded, aged, logRows, map, runner, request,
                 acted, reopened, faults>>

FloodEnds(j) ==
  /\ j \in flooded
  /\ flooded' = flooded \ {j}
  /\ UNCHANGED <<status, tries, backoff, aged, logRows, map, runner, request,
                 acted, reopened, faults>>

(* _SENDING_STALE_S pass.  A send may take longer than that while its       *)
(* runner lives: a copy is up to five requests of up to 120 s each.         *)
GrowsOld(j) ==
  /\ status[j] = "sending" /\ j \notin aged
  /\ aged' = aged \cup {j}
  /\ UNCHANGED <<status, tries, backoff, flooded, logRows, map, runner,
                 request, acted, reopened, faults>>

-----------------------------------------------------------------------------
RunnerStep(w) ==
  \/ BeginRound(w) \/ ReclaimStale(w) \/ SelectReady(w) \/ TryClaim(w)
  \/ Gate(w) \/ Prepare(w) \/ Perform(w) \/ Fail(w) \/ Record(w)

HostStep(w) ==
  \/ Attach(w) \/ Release(w) \/ Crash(w) \/ StorageError(w)
  \/ \E j \in Jobs : HostCancel(w, j)

PlatformStep(o) ==
  \/ \E j \in Jobs : AskRetry(o, j) \/ AskCancel(o, j)
  \/ WriteRetry(o) \/ WriteCancel(o)

JobStep(j) == CreateJob(j) \/ BackoffEnds(j) \/ FloodEnds(j) \/ GrowsOld(j)

Next ==
  \/ \E w \in Workers : RunnerStep(w) \/ HostStep(w)
  \/ \E o \in Operators : PlatformStep(o)
  \/ \E j \in Jobs : JobStep(j)

Spec == Init /\ [][Next]_vars

(* A desired account is attached again, and a host that attaches a runner   *)
(* gives it a round in the same tick (tick: reconcile, then run_once), so   *)
(* releases cannot starve it: strong fairness.  A runner's coroutine and a  *)
(* platform request run on; a halted runner is released by the next         *)
(* reconcile; time passes.  Nothing makes a host crash, or Telegram succeed. *)
Fairness ==
  /\ \A w \in Workers : /\ WF_vars(Attach(w))
                       /\ SF_vars(BeginRound(w))
                       /\ WF_vars(pc[w] # "parked" /\ RunnerStep(w))
                       /\ WF_vars(pc[w] = "halted" /\ Release(w))
  /\ \A j \in Jobs : /\ WF_vars(BackoffEnds(j))
                     /\ WF_vars(FloodEnds(j))
                     /\ WF_vars(GrowsOld(j))
  /\ \A o \in Operators : WF_vars(WriteRetry(o) \/ WriteCancel(o))

FairSpec == Spec /\ Fairness

-----------------------------------------------------------------------------
(* Properties.                                                             *)

(* The attempt log is gapless: a job's rows are exactly 1..attempt_count.  *)
(* claim_next writes a count it read earlier; a twin that claimed and gave *)
(* the job back in between is caught by uq_attempt_no alone.               *)
LogIsGapless ==
  \A j \in Jobs : {a \in rows : a[1] = j} = {j} \X (1..tries[j])

(* No two runners ever work on the same attempt, whatever reclaims,        *)
(* retries and twins do to the job in between (claim_next).                *)
AttemptHasOneOwner ==
  \A v, w \in Workers : v # w /\ held[v] # NoTarget => held[v] # held[w]

(* An attempt reaches Telegram at most once: a runner about to send holds  *)
(* an attempt that Telegram has not carried out (send_next, claim_next).   *)
AttemptActsOnce ==
  \A w \in Workers : pc[w] \in {"gate", "exec", "wire"} => held[w] \notin acted

(* Everything Telegram did for a job has its attempt row, committed before *)
(* the request left: no crash and no lost update hides a send (6.4.3).     *)
EffectIsLogged == acted \subseteq rows

(* The duplicates of a job are accounted for: Telegram carries it out at   *)
(* most once more than reclaims and retries made it ready again.  Twin     *)
(* runners, lost claims, rate-limit bounces and crashes add nothing.       *)
Effects(j) == {a \in acted : a[1] = j}

DuplicatesAreAccounted ==
  \A j \in Jobs : Cardinality(Effects(j)) <= 1 + reopened[j]

(* An attempt recorded 'succeeded' was carried out, or was a delete with   *)
(* nothing mapped to delete (executor.execute, record_result).             *)
SuccessIsReal == \A a \in won : a \in acted \/ Kind[a[1]] = "delete"

(* A job reads 'succeeded' only if one of its attempts does, even when     *)
(* a reclaimed attempt records into the 'sending' of its successor.        *)
SucceededHasAttempt ==
  \A j \in Jobs : status[j] = "succeeded" => \E a \in won : a[1] = j

(* A message_map row names a message that exists: one a copy job of that   *)
(* very source sent; edits and deletes act on nothing else (6.3).          *)
MapNamesRealMessage ==
  \A s \in Sources : map[s] # NoTarget =>
    /\ map[s] \in acted
    /\ Kind[map[s][1]] = "send" /\ Source[map[s][1]] = s

(* A copy job that reads 'succeeded' has its source in the message map, so *)
(* later edits, deletes and replies find a target (record_result).         *)
SucceededIsMapped ==
  \A j \in Jobs : status[j] = "succeeded" /\ Kind[j] = "send"
                   => map[Source[j]] # NoTarget

(* Jobs are given up only after the whole retry budget was claimed, and    *)
(* the stale counts of concurrent claims never lower it (RetryPolicy).     *)
GivesUpLate ==
  \A j \in Jobs : status[j] = "dead_letter" => tries[j] >= MaxAttempts

(* attempt_count never moves back although claim_next writes a count read  *)
(* in an earlier statement.                                                *)
TriesOnlyGrow == [][\A j \in Jobs : tries'[j] \in {tries[j], tries[j] + 1}]_vars

(* The first message mapped for a source stays its target: a twin's late   *)
(* success never re-points edits and deletes (uq_message_map_route_output). *)
MapIsFinal ==
  [][\A s \in Sources : map[s] # NoTarget => map'[s] = map[s]]_vars

(* A job of unknown result stays put until an operator cancels it: it is   *)
(* never sent again blindly (8.4, "uncertain never auto-retries").         *)
UncertainIsHeld ==
  [][\A j \in Jobs : status[j] = "uncertain"
                      => status'[j] \in {"uncertain", "cancelled"}]_vars

(* Every status change is an edge of the documented table, a reclaim, or a *)
(* write of the platform.                                                  *)
ChangesAreEdges ==
  [][\A j \in Jobs : status'[j] # status[j] =>
       \/ status[j] = "absent" /\ status'[j] \in {"ready", "waiting_approval"}
       \/ CanTransition(status[j], status'[j])
       \/ j \in Stale /\ status'[j] = "ready"
       \/ request' # request]_vars

(* All of it together: the runners, whatever they interleave with, keep    *)
(* the ledger of attempts that AttemptLedger promises.                     *)
Promise == INSTANCE AttemptLedger WITH
  count <- tries, Unmapped <- NoTarget,
  Copies  <- {j \in Jobs : Kind[j] = "send"},
  Deletes <- {j \in Jobs : Kind[j] = "delete"}

KeepsTheLedger == Promise!Spec

(* No job stays in 'sending' forever, though workers crash in the middle:  *)
(* that is what the reclaim of stale rows is for.                          *)
SendingIsResolved ==
  \A j \in Jobs : status[j] = "sending" ~> status[j] # "sending"

(* Sending is never undone: the documentation sends a job whose worker     *)
(* vanished to uncertain, never back to ready.                             *)
SendingNeverReopens ==
  [][\A j \in Jobs : status[j] = "sending" => status'[j] # "ready"]_vars

(* A finished job stays finished.                                          *)
SucceededIsFinal ==
  [][\A j \in Jobs : status[j] = "succeeded" => status'[j] = "succeeded"]_vars

(* The network call follows a claim whose conditional update succeeded.    *)
ExecutesOnlySending ==
  [][\A w \in Workers : pc[w] = "gate" /\ pc'[w] = "exec"
                         => status'[held[w][1]] = "sending"]_vars

(* What waits for its retry is retried.                                    *)
RetryWaitEnds ==
  \A j \in Jobs : status[j] = "retry_wait" ~> status[j] # "retry_wait"

(* A restart resumes what was unfinished: no claim outlives its worker.    *)
LeasedIsResolved ==
  \A j \in Jobs : status[j] = "leased" ~> status[j] # "leased"

=============================================================================
