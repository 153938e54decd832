-------------------------------- MODULE Clone --------------------------------
(***************************************************************************)
(* From a Telegram update to the delivery jobs it calls for: the ingest    *)
(* handler of every hosted account (worker/live.py), the inbox             *)
(* (EventInboxRepository, storage/repos.py), the drain at the beginning of *)
(* a runner's round (worker/runner.py) with the rules its host has cached  *)
(* (worker/host.py), and the planner (planner/planner.py).                 *)
(*                                                                         *)
(* Delivery models what becomes of a job.  Here a job is delivered or      *)
(* given up in one step, in any order: a back-off or a flood window lets   *)
(* later jobs of the same account overtake, and the jobs of different      *)
(* accounts are never ordered.                                             *)
(***************************************************************************)
EXTENDS Naturals, Sequences, FiniteSets

CONSTANTS
  Accounts, Workers,
  Messages,    (* source messages of one chat                              *)
  Small,       (* those in a basic group, whose ids are an account's own   *)
  Top,         (* revision of a deletion, 2^31 - 1 in the code             *)
  Rules,       (* one per rule and route                                   *)
  Listen,      (* Rules -> account_id, the account that receives           *)
  Pool,        (* Rules -> sender_account_ids, or the listener alone       *)
  Accepts,     (* Rules -> the messages whose creation passes the filters  *)
  SyncEdit, SyncDelete,  (* the rules with sync_edit, sync_delete          *)
  Nobody,
  BatchLimit,  (* rows of one drain, 200 in the code                       *)
  MoveBound    (* bound: releases, crashes and failed calls                *)

ASSUME ConstantsAssumption ==
  /\ Small \subseteq Messages
  /\ Top \in Nat /\ Top > 1
  /\ Listen \in [Rules -> Accounts]
  /\ Pool \in [Rules -> Seq(Accounts) \ {<<>>}]
  /\ Accepts \in [Rules -> SUBSET Messages]
  /\ Nobody \notin Accounts
  /\ BatchLimit \in Nat \ {0}
  /\ MoveBound \in Nat

VARIABLES
  posted,    (* what happened in the chat: <<message, revision>>           *)
  updates,   (* updates a handler has not begun: <<worker, account, event>> *)
  reading,   (* handlers between their SELECT and their commit             *)
  handled,   (* history: updates whose handler returned                    *)
  latest,    (* source_message.latest_revision, 0 without a row            *)
  tomb,      (* source_message.tombstone                                   *)
  inbox,     (* event_inbox rows                                           *)
  processed, (* those with processed set                                   *)
  host,      (* Workers -> the accounts hosted                             *)
  cached,    (* Workers -> the accounts with an entry in _rules_cache      *)
  drain,     (* Workers -> the drains in progress, by runner               *)
  jobs,      (* delivery_job rows                                          *)
  done,      (* those delivered                                            *)
  failed,    (* those given up                                             *)
  map,       (* message_map: <<rule, source>> -> sender_account_id         *)
  copies,    (* what stands in the targets: <<rule, source>>               *)
  moves      (* bound                                                      *)

ingest == <<updates, reading, handled, latest, tomb>>
hosts  == <<host, cached>>
target == <<done, failed, map, copies>>
vars   == <<posted, ingest, inbox, processed, hosts, drain, jobs, target, moves>>

Revisions == 1..Top
Events    == Messages \X Revisions

(* source_scope_for: a canonical peer, or the receiving account's view.    *)
SourceOf(a, m) == <<m, IF m \in Small THEN a ELSE Nobody>>
Sources == {SourceOf(a, m) : a \in Accounts, m \in Messages}

InboxRow == [src : Sources, rev : Revisions, acct : Accounts]
Job      == [rule : Rules, src : Sources, rev : Revisions, sender : Accounts]
Reader   == [worker : Workers, acct : Accounts, msg : Messages, rev : Revisions,
             seen : Revisions \cup {0}]
Round    == [at : {"idle", "select", "lookup"}, rows : SUBSET InboxRow,
             view : SUBSET (Rules \X Sources \X (Accounts \cup {Nobody}))]
Idle     == [at |-> "idle", rows |-> {}, view |-> {}]

TypeOK ==
  /\ posted  \subseteq Events
  /\ updates \subseteq Workers \X Accounts \X Events
  /\ reading \subseteq Reader
  /\ handled \subseteq Accounts \X Events
  /\ latest  \in [Sources -> Revisions \cup {0}]
  /\ tomb    \subseteq Sources
  /\ inbox   \subseteq InboxRow
  /\ processed \subseteq inbox
  /\ host    \in [Workers -> SUBSET Accounts]
  /\ cached  \in [Workers -> SUBSET Accounts]
  /\ drain   \in [Workers -> [Accounts -> Round]]
  /\ \A w \in Workers :
       /\ cached[w] \subseteq host[w]
       /\ \A a \in Accounts : /\ drain[w][a].rows \subseteq inbox
                              /\ drain[w][a].at # "idle" => a \in host[w]
  /\ jobs    \subseteq Job
  /\ done    \subseteq jobs
  /\ failed  \subseteq jobs \ done
  /\ map     \in [Rules \X Sources -> Accounts \cup {Nobody}]
  /\ copies  \subseteq Rules \X Sources
  /\ moves   \in Nat

Init ==
  /\ posted = {} /\ updates = {} /\ reading = {} /\ handled = {}
  /\ latest = [s \in Sources |-> 0] /\ tomb = {}
  /\ inbox = {} /\ processed = {}
  /\ host   = [w \in Workers |-> {}]
  /\ cached = [w \in Workers |-> {}]
  /\ drain  = [w \in Workers |-> [a \in Accounts |-> Idle]]
  /\ jobs = {} /\ done = {} /\ failed = {}
  /\ map = [k \in Rules \X Sources |-> Nobody]
  /\ copies = {}
  /\ moves = 0

Move == moves < MoveBound /\ moves' = moves + 1

-----------------------------------------------------------------------------
(* Hosting.  Assignments and releases come between two rounds of a host.   *)

BetweenRounds(w) == \A a \in Accounts : drain[w][a] = Idle

(* _assign: events are listened to, the rules pulled if the pull succeeds. *)
Assign(w, a) ==
  /\ BetweenRounds(w) /\ a \notin host[w]
  /\ host' = [host EXCEPT ![w] = @ \cup {a}]
  /\ \/ cached' = [cached EXCEPT ![w] = @ \cup {a}] /\ UNCHANGED moves
     \/ Move /\ UNCHANGED cached
  /\ UNCHANGED <<posted, ingest, inbox, processed, drain, jobs, target>>

(* _refresh_rules: on ReloadConfig, and once a minute.                     *)
RefreshRules(w, a) ==
  /\ BetweenRounds(w) /\ a \in host[w] \ cached[w]
  /\ cached' = [cached EXCEPT ![w] = @ \cup {a}]
  /\ UNCHANGED <<posted, ingest, inbox, processed, host, drain, jobs, target, moves>>

(* _release drops the account's rules; updates it had not handled are gone. *)
Release(w, a) ==
  /\ BetweenRounds(w) /\ a \in host[w]
  /\ Move
  /\ host'    = [host   EXCEPT ![w] = @ \ {a}]
  /\ cached'  = [cached EXCEPT ![w] = @ \ {a}]
  /\ updates' = {u \in updates : u[1] # w \/ u[2] # a}
  /\ UNCHANGED <<posted, reading, handled, latest, tomb, inbox, processed,
                 drain, jobs, target>>

Crash(w) ==
  /\ host[w] # {}
  /\ Move
  /\ host'    = [host   EXCEPT ![w] = {}]
  /\ cached'  = [cached EXCEPT ![w] = {}]
  /\ drain'   = [drain  EXCEPT ![w] = [a \in Accounts |-> Idle]]
  /\ updates' = {u \in updates : u[1] # w}
  /\ reading' = {r \in reading : r.worker # w}
  /\ UNCHANGED <<posted, handled, latest, tomb, inbox, processed, jobs, target>>

-----------------------------------------------------------------------------
(* Telegram: a message is created, edited with rising revisions, deleted.  *)
(* Every hosted account is a member of the chat and gets the update.       *)

Post(m, rev) ==
  /\ IF rev = 1 THEN \A v \in Revisions : <<m, v>> \notin posted
     ELSE <<m, 1>> \in posted /\ \A v \in rev..Top : <<m, v>> \notin posted
  /\ posted'  = posted \cup {<<m, rev>>}
  /\ updates' = updates \cup
       {<<h[1], h[2], <<m, rev>>>> :
          h \in {p \in Workers \X Accounts : p[2] \in host[p[1]]}}
  /\ UNCHANGED <<reading, handled, latest, tomb, inbox, processed, hosts, drain,
                 jobs, target, moves>>

-----------------------------------------------------------------------------
(* on_update: a task of its own for every update, in any order.            *)

(* ingest, the SELECT of the source row.                                   *)
ReadSource(w, a, m, rev) ==
  /\ <<w, a, <<m, rev>>>> \in updates
  /\ updates' = updates \ {<<w, a, <<m, rev>>>>}
  /\ reading' = reading \cup
       {[worker |-> w, acct |-> a, msg |-> m, rev |-> rev,
         seen |-> latest[SourceOf(a, m)]]}
  /\ UNCHANGED <<posted, handled, latest, tomb, inbox, processed, hosts, drain,
                 jobs, target, moves>>

(* ingest, the commit: uq_source_message_identity refuses a second insert  *)
(* of the source, uq_event_inbox_dedup a second row of the event.  Either  *)
(* way everything is rolled back and the answer is "a duplicate".          *)
Refused(s, r) ==
  \/ r.seen = 0 /\ latest[s] # 0
  \/ \E row \in inbox : row.src = s /\ row.rev = r.rev

Ingest(r) ==
  LET s == SourceOf(r.acct, r.msg) IN
  /\ r \in reading
  /\ reading' = reading \ {r}
  /\ handled' = handled \cup {<<r.acct, <<r.msg, r.rev>>>>}
  /\ IF Refused(s, r)
       THEN UNCHANGED <<latest, tomb, inbox>>
       ELSE /\ latest' = IF r.rev > r.seen THEN [latest EXCEPT ![s] = r.rev]
                                           ELSE latest
            /\ tomb'   = IF r.rev = Top /\ r.seen # 0 THEN tomb \cup {s} ELSE tomb
            /\ inbox'  = inbox \cup {[src |-> s, rev |-> r.rev, acct |-> r.acct]}
  /\ UNCHANGED <<posted, updates, processed, hosts, drain, jobs, target, moves>>

(* Any other failure is logged, and the update is gone.                    *)
IngestFails(r) ==
  /\ r \in reading /\ Move
  /\ reading' = reading \ {r}
  /\ UNCHANGED <<posted, updates, handled, latest, tomb, inbox, processed, hosts,
                 drain, jobs, target>>

-----------------------------------------------------------------------------
(* drain_inbox of the runner of account a at worker w.                     *)

Unprocessed == inbox \ processed

(* next_unprocessed: of any account.  ingest_seq is 0 in every row, so the *)
(* order, and the choice when there are more than the limit, is open.      *)
NextUnprocessed(w, a) ==
  /\ a \in host[w] /\ drain[w][a] = Idle
  /\ Unprocessed # {}
  /\ \E rows \in SUBSET Unprocessed :
       /\ Cardinality(rows) <= BatchLimit
       /\ Cardinality(rows) = BatchLimit \/ rows = Unprocessed
       /\ drain' = [drain EXCEPT ![w][a] =
                      [at |-> "select", rows |-> rows, view |-> {}]]
  /\ UNCHANGED <<posted, ingest, inbox, processed, hosts, jobs, target, moves>>

(* lookup_many: the mapping the planner will see.                          *)
View(rows) == {<<r, row.src, map[<<r, row.src>>]>> : r \in Rules, row \in rows}

LookupMany(w, a) ==
  /\ drain[w][a].at = "select"
  /\ drain' = [drain EXCEPT ![w][a] =
                 [at |-> "lookup", rows |-> @.rows, view |-> View(@.rows)]]
  /\ UNCHANGED <<posted, ingest, inbox, processed, hosts, jobs, target, moves>>

(* _matches_rule and _plan_for_rule: whether rule r plans a job for a row.  *)
MatchesAnyAccount(r, row) == TRUE  \* mutation: the receiving account is ignored

MatchesRule(r, row) == Listen[r] = row.acct

Wants(r, row) ==
  IF row.rev = 1        THEN row.src[1] \in Accepts[r]
  ELSE IF row.rev = Top THEN r \in SyncDelete
  ELSE r \in SyncEdit

(* _sender_for: any account of the pool for a creation, else the one that  *)
(* made the copy as far as the view knows, else the first of the pool.     *)
MaySend(r, row, view, a) ==
  IF row.rev = 1 THEN a \in {Pool[r][i] : i \in DOMAIN Pool[r]}
  ELSE IF \E b \in Accounts : <<r, row.src, b>> \in view
    THEN <<r, row.src, a>> \in view
    ELSE a = Pool[r][1]

(* uq_delivery_job_idem: rule, route, source, revision and kind.           *)
SameAction(j, k) == j.rule = k.rule /\ j.src = k.src /\ j.rev = k.rev

NewJobsBlind(planned) == planned  \* mutation: no idempotency key
NewJobsAllOrNone(planned) ==       \* mutation: a conflict undoes the batch
  IF \E j \in planned, k \in jobs : SameAction(j, k) THEN {} ELSE planned

NewJobs(planned) == {j \in planned : \A k \in jobs : ~SameAction(j, k)}

MarkedIfPlanned(rows, planned) ==  \* mutation: a row without a plan stays
  {row \in rows : \E j \in planned : j.src = row.src /\ j.rev = row.rev}

(* drain_to_jobs: plans from the rules the host has now, one commit.  Rows  *)
(* of accounts without cached rules are marked processed all the same.     *)
Marked(rows, planned) == rows

DrainToJobs(w, a) ==
  LET rows  == drain[w][a].rows
      plans == {p \in Rules \X rows :
                  /\ p[2].acct \in cached[w]
                  /\ MatchesRule(p[1], p[2]) /\ Wants(p[1], p[2])}
  IN /\ drain[w][a].at = "lookup"
     /\ \E sender \in [plans -> Accounts] :
          LET planned == {[rule |-> p[1], src |-> p[2].src, rev |-> p[2].rev,
                           sender |-> sender[p]] : p \in plans}
          IN /\ \A p \in plans : MaySend(p[1], p[2], drain[w][a].view, sender[p])
             /\ jobs' = jobs \cup NewJobs(planned)
             /\ processed' = processed \cup Marked(rows, planned)
     /\ drain' = [drain EXCEPT ![w][a] = Idle]
     /\ UNCHANGED <<posted, ingest, inbox, hosts, target, moves>>

(* The database fails, or two drains deadlock on their keys: run_once of   *)
(* the host gathers the exception and the next round starts over.          *)
DrainFails(w, a) ==
  /\ drain[w][a] # Idle /\ Move
  /\ drain' = [drain EXCEPT ![w][a] = Idle]
  /\ UNCHANGED <<posted, ingest, inbox, processed, hosts, jobs, target>>

-----------------------------------------------------------------------------
(* The sender's runner delivers the job, or gives it up.  An edit without a *)
(* mapped target fails, a deletion without one succeeds.                   *)

Deliver(j) ==
  LET k == <<j.rule, j.src>> IN
  /\ j \in jobs \ (done \cup failed)
  /\ \E w \in Workers : j.sender \in host[w]
  /\ done' = done \cup {j}
  /\ IF j.rev = 1
       THEN /\ copies' = copies \cup {k}
            /\ map' = [map EXCEPT ![k] = IF @ = Nobody THEN j.sender ELSE @]
       ELSE /\ copies' = IF j.rev = Top /\ map[k] # Nobody THEN copies \ {k} ELSE copies
            /\ UNCHANGED map
  /\ UNCHANGED <<posted, ingest, inbox, processed, hosts, drain, jobs, failed, moves>>

GiveUp(j) ==
  /\ j \in jobs \ (done \cup failed)
  /\ \E w \in Workers : j.sender \in host[w]
  /\ failed' = failed \cup {j}
  /\ UNCHANGED <<posted, ingest, inbox, processed, hosts, drain, jobs, done,
                 map, copies, moves>>

-----------------------------------------------------------------------------
Hosting(w) ==
  \/ Crash(w)
  \/ \E a \in Accounts : Assign(w, a) \/ RefreshRules(w, a) \/ Release(w, a)

Update ==
  \/ \E m \in Messages, rev \in Revisions :
       Post(m, rev) \/ \E w \in Workers, a \in Accounts : ReadSource(w, a, m, rev)
  \/ \E r \in reading : Ingest(r) \/ IngestFails(r)

Drain(w, a) == NextUnprocessed(w, a) \/ LookupMany(w, a) \/ DrainToJobs(w, a)

Next ==
  \/ Update
  \/ \E w \in Workers :
       Hosting(w) \/ \E a \in Accounts : Drain(w, a) \/ DrainFails(w, a)
  \/ \E j \in jobs : Deliver(j) \/ GiveUp(j)

Spec == Init /\ [][Next]_vars

(* Desired accounts are assigned, and a hosted account's runner begins each *)
(* round with a drain that runs on.                                        *)
FairSpec ==
  /\ Spec
  /\ \A w \in Workers, a \in Accounts : SF_vars(Assign(w, a)) /\ WF_vars(Drain(w, a))

-----------------------------------------------------------------------------
(* Properties.                                                             *)

(* However often a row is drained -- by the runners of one host, by several *)
(* hosts, again after a crash -- an action is planned once, for one sender. *)
JobsAreUnique == \A j, k \in jobs : SameAction(j, k) => j = k

(* What stands in a target was received by the listener of that rule:      *)
(* another account's view of a chat is never copied for it.                *)
CopiesAreTheListeners ==
  \A k \in copies : \E row \in inbox :
    row.src = k[2] /\ row.rev = 1 /\ row.acct = Listen[k[1]]

(* What was received is planned for: a processed row has its jobs.         *)
EventIsPlanned ==
  \A row \in processed, r \in Rules :
    MatchesRule(r, row) /\ Wants(r, row)
      => \E j \in jobs : j.rule = r /\ j.src = row.src /\ j.rev = row.rev

(* No row is left in the inbox.                                            *)
InboxDrains ==
  \A s \in Sources, rev \in Revisions, a \in Accounts :
    LET row == [src |-> s, rev |-> rev, acct |-> a]
    IN row \in inbox ~> row \in processed

(* An update is refused only when the inbox already has that event.        *)
RefusedIsDuplicate ==
  \A h \in handled : \E row \in inbox :
    row.src = SourceOf(h[1], h[2][1]) /\ row.rev = h[2][2]

(* An event of a chat a rule listens to reaches that rule: the row of an   *)
(* event the listener handled is the listener's.                           *)
EventReachesListener ==
  \A r \in Rules, h \in handled : h[1] = Listen[r] =>
    \E row \in inbox :
      row.src = SourceOf(h[1], h[2][1]) /\ row.rev = h[2][2] /\ row.acct = Listen[r]

(* latest_revision is the latest revision received.                        *)
LatestIsLatest == \A row \in inbox : row.rev <= latest[row.src]

(* Edits and deletions go to the account that sends the copy.              *)
EditsFollowSender ==
  \A j, k \in jobs :
    j.rule = k.rule /\ j.src = k.src /\ j.rev = 1 => k.sender = j.sender

(* A copy does not appear, or stay, after its deletion was carried out.    *)
DeletedStaysDeleted ==
  \A j \in done : j.rev = Top /\ j.rule \in SyncDelete => <<j.rule, j.src>> \notin copies

=============================================================================
