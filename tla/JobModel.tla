------------------------------ MODULE JobModel ------------------------------
(***************************************************************************)
(* The pure part of the delivery path: the job statuses and their legal    *)
(* edges, the error taxonomy and the retry budget                          *)
(* (runtime/delivery/model.py), the send-policy gate                       *)
(* (runtime/delivery/policy.py) and the tables by which the executor and   *)
(* the runner turn a transport error into a new job status                 *)
(* (runtime/delivery/executor.py, runtime/worker/runner.py).               *)
(* No state: every definition is a constant operator, used by Delivery.    *)
(***************************************************************************)
EXTENDS Naturals

CONSTANT MaxAttempts  (* RetryPolicy.max_attempts, 5 in the code           *)

ASSUME MaxAttemptsAssumption == MaxAttempts \in Nat \ {0}

-----------------------------------------------------------------------------
(* JobStatus.  "absent" is not a status of the code: it marks a job whose  *)
(* row has not been inserted yet.                                          *)

Status == {"pending", "waiting_approval", "ready", "leased", "sending",
           "succeeded", "retry_wait", "blocked", "failed_permanent",
           "dead_letter", "uncertain", "reconciled_succeeded",
           "confirmed_not_sent", "manual_review", "cancelled", "expired",
           "superseded"}

Terminal == {"succeeded", "reconciled_succeeded", "failed_permanent",
             "dead_letter", "manual_review", "cancelled", "expired",
             "superseded"}

Withdrawn == {"cancelled", "expired", "superseded"}

(* _EDGES: "Anything not listed is a bug, not a transition."               *)
Edges ==
  LET From(s, D) == {<<s, d>> : d \in D}
  IN From("pending", Withdrawn \cup {"waiting_approval", "ready"})
     \cup From("waiting_approval", Withdrawn \cup {"ready"})
     \cup From("ready", Withdrawn \cup {"leased", "blocked"})
     \cup From("leased", Withdrawn \cup {"sending", "ready", "blocked"})
     \cup From("sending", {"succeeded", "retry_wait", "blocked",
                           "failed_permanent", "dead_letter", "uncertain",
                           "superseded"})
     \cup From("retry_wait", Withdrawn \cup {"ready", "blocked", "dead_letter"})
     \cup From("blocked", Withdrawn \cup {"ready"})
     \cup From("uncertain", {"reconciled_succeeded", "confirmed_not_sent",
                             "manual_review", "cancelled"})
     \cup From("confirmed_not_sent", Withdrawn \cup {"ready"})

CanTransition(src, dst) == <<src, dst>> \in Edges

-----------------------------------------------------------------------------
(* What one call of the transport can come back with.  "denied" is the     *)
(* executor's own policy check; the other failures are the TransportError  *)
(* kinds.  STORAGE_DOWN and CACHE_DOWN are never produced by the executor. *)

Failure == {"flood", "transient", "unknown", "permission", "content", "auth"}
Outcome == Failure \cup {"succeeded", "denied"}

(* next_attempt_at: a delay while attempts are left, None afterwards.      *)
RetryLeftEarly(no) == no + 1 < MaxAttempts  \* mutation: one attempt short

RetryLeft(no) == no < MaxAttempts

(* classify_error and AccountRunner._record: the status a finished attempt *)
(* number `no` leaves its job in.                                          *)
StatusAfterBlind(outcome, no) ==  \* mutation: an unknown result is retried
  IF outcome = "unknown" THEN "ready"
  ELSE IF outcome = "succeeded" THEN "succeeded" ELSE "failed_permanent"

StatusAfter(outcome, no) ==
  IF outcome = "succeeded"                  THEN "succeeded"
  ELSE IF outcome \in {"denied", "permission"} THEN "blocked"
  ELSE IF outcome = "unknown"               THEN "uncertain"
  ELSE IF outcome \in {"content", "auth"}   THEN "failed_permanent"
  ELSE IF outcome = "flood" \/ RetryLeft(no) THEN "retry_wait"
  ELSE "dead_letter"

(* ErrorAction.worker_halts, as _record applies it.                        *)
HaltsWorker(outcome) == outcome = "auth"

-----------------------------------------------------------------------------
(* SendPolicy.check.  `live` is what deps.live answers: the send state of  *)
(* the hosted account, "gone" when the registry has no row of the runner's *)
(* generation (generation -1).  A flood window that has passed reads       *)
(* "sendable".  `off` is any level of PolicySnapshot disabled, `limited`   *)
(* the route's rate limit, `approved` that the approval provider answers   *)
(* with an unexpired approval of the job's own content hash.               *)

LiveState == {"sendable", "paused", "flood_wait", "auth_dead", "gone"}

Check(live, off, limited, needs, approved) ==
  IF live = "gone"                     THEN "blocked_lease"
  ELSE IF off                          THEN "blocked_policy"
  ELSE IF live \in {"paused", "auth_dead"} THEN "blocked_account"
  ELSE IF live = "flood_wait" \/ limited   THEN "blocked_rate"
  ELSE IF needs /\ ~approved           THEN "blocked_approval"
  ELSE "allow"

=============================================================================
