-------------------------------- MODULE Lease --------------------------------
(***************************************************************************)
(* Ownership of accounts: the account_lease rows (LeaseRepository,         *)
(* runtime/storage/repos.py), the heartbeat of each hosted account         *)
(* (runtime/account/lease_heartbeat.py) and the tick of each worker host   *)
(* (runtime/worker/host.py): reconcile, commands, one round of every       *)
(* runner, in that order and in one coroutine.  Heartbeats are tasks of    *)
(* their own and run at every await of the tick.                           *)
(*                                                                         *)
(* A step is one database statement, or what the coroutine does between    *)
(* two awaits.  What a runner does in its round is in Delivery; here it    *)
(* only is or is not in the middle of a send.                              *)
(***************************************************************************)
EXTENDS Naturals

CONSTANTS
  Accounts,
  Workers,    (* worker processes; their worker_ids differ                  *)
  Nobody,     (* account_lease has no row; no account                       *)
  GenBound,   (* bound: a lease of this generation does not expire any more *)
  FaultBound  (* bound: crashes, storage errors and aborted ticks           *)

ASSUME ConstantsAssumption ==
  /\ Nobody \notin Workers \cup Accounts
  /\ GenBound \in Nat
  /\ FaultBound \in Nat

VARIABLES
  (* account_lease *)
  owner,    (* worker_id                                                    *)
  gen,      (* generation, 0 without a row                                  *)
  live,     (* the accounts whose lease_until is in the future              *)
  (* WorkerHostMain *)
  pc,       (* where the tick is                                            *)
  drop,     (* accounts the loops of reconcile still have to release        *)
  add,      (* accounts reconcile still has to assign                       *)
  row,      (* LeaseRepository.acquire: the row selected, then the one won  *)
  host,     (* _hosted: the generation an account is hosted under, or 0     *)
  beating,  (* the accounts whose heartbeat task runs                       *)
  lost,     (* _lost                                                        *)
  running,  (* runners in the middle of run_once                            *)
  busy,     (* runners in the middle of send_next                           *)
  halted,   (* runners with halted set                                      *)
  faults    (* history: faults so far                                       *)

lease  == <<owner, gen, live>>
tick   == <<pc, drop, add, row>>
hosted == <<host, beating>>
work   == <<running, busy, halted>>
vars   == <<lease, tick, hosted, lost, work, faults>>

Hosted(w) == {a \in Accounts : host[w][a] # 0}
LeaseRow  == [acct : Accounts \cup {Nobody}, by : Workers \cup {Nobody},
              gen : Nat]
NoRow     == [acct |-> Nobody, by |-> Nobody, gen |-> 0]

Loc == {"down", "reconcile", "release", "assign", "acquire", "connect",
        "drop", "commands", "round"}

TypeOK ==
  /\ owner \in [Accounts -> Workers \cup {Nobody}]
  /\ gen   \in [Accounts -> Nat]
  /\ live \subseteq Accounts
  /\ pc    \in [Workers -> Loc]
  /\ drop  \in [Workers -> SUBSET Accounts]
  /\ add   \in [Workers -> SUBSET Accounts]
  /\ row   \in [Workers -> LeaseRow]
  /\ host  \in [Workers -> [Accounts -> Nat]]
  /\ beating \in [Workers -> SUBSET Accounts]
  /\ lost    \in [Workers -> SUBSET Accounts]
  /\ running \in [Workers -> SUBSET Accounts]
  /\ busy    \in [Workers -> SUBSET Accounts]
  /\ halted  \in [Workers -> SUBSET Accounts]
  /\ \A w \in Workers : /\ beating[w] \subseteq Hosted(w)
                        /\ busy[w] \subseteq running[w]
                        /\ running[w] \subseteq Hosted(w)
                        /\ halted[w] \subseteq Hosted(w)
                        /\ pc[w] \in {"acquire", "connect"} => row[w].acct \in add[w]
  /\ faults \in Nat

Init ==
  /\ owner = [a \in Accounts |-> Nobody]
  /\ gen   = [a \in Accounts |-> 0]
  /\ live  = {}
  /\ pc    = [w \in Workers |-> "down"]
  /\ drop = [w \in Workers |-> {}] /\ add = [w \in Workers |-> {}]
  /\ row   = [w \in Workers |-> NoRow]
  /\ host  = [w \in Workers |-> [a \in Accounts |-> 0]]
  /\ beating = [w \in Workers |-> {}]
  /\ lost    = [w \in Workers |-> {}]
  /\ running = [w \in Workers |-> {}]
  /\ busy    = [w \in Workers |-> {}]
  /\ halted  = [w \in Workers |-> {}]
  /\ faults = 0

Goto(w, from, to) ==
  /\ pc[w] = from
  /\ pc' = [pc EXCEPT ![w] = to]

Fault ==
  /\ faults < FaultBound
  /\ faults' = faults + 1

-----------------------------------------------------------------------------
(* Life of a worker process.                                               *)

Start(w) ==
  /\ Goto(w, "down", "reconcile")
  /\ UNCHANGED <<lease, drop, add, row, hosted, lost, work, faults>>

(* Everything in memory is gone; the lease rows are left to their TTL, as  *)
(* they are by an orderly stop, which comes between two ticks.             *)
Vanish(w) ==
  /\ pc'      = [pc      EXCEPT ![w] = "down"]
  /\ drop'    = [drop    EXCEPT ![w] = {}]
  /\ add'     = [add     EXCEPT ![w] = {}]
  /\ row'     = [row     EXCEPT ![w] = NoRow]
  /\ host'    = [host    EXCEPT ![w] = [a \in Accounts |-> 0]]
  /\ beating' = [beating EXCEPT ![w] = {}]
  /\ lost'    = [lost    EXCEPT ![w] = {}]
  /\ running' = [running EXCEPT ![w] = {}]
  /\ busy'    = [busy    EXCEPT ![w] = {}]
  /\ halted'  = [halted  EXCEPT ![w] = {}]
  /\ UNCHANGED lease

Stop(w)  == pc[w] = "reconcile" /\ Vanish(w) /\ UNCHANGED faults
Crash(w) == pc[w] # "down" /\ Fault /\ Vanish(w)

(* A statement or a control call raises out of the tick; run() logs it and *)
(* begins the next tick.  What _assign was doing is closed again.          *)
AbortTick(w) ==
  /\ pc[w] \in {"assign", "acquire", "connect", "commands"}
  /\ Fault
  /\ pc'   = [pc   EXCEPT ![w] = "reconcile"]
  /\ drop' = [drop EXCEPT ![w] = {}]
  /\ add'  = [add  EXCEPT ![w] = {}]
  /\ row'  = [row  EXCEPT ![w] = NoRow]
  /\ UNCHANGED <<lease, hosted, lost, work>>

-----------------------------------------------------------------------------
(* reconcile.                                                              *)

(* _release: the account, its runner and its heartbeat are forgotten.      *)
Release(w, a) ==
  /\ host'    = [host    EXCEPT ![w][a] = 0]
  /\ beating' = [beating EXCEPT ![w] = @ \ {a}]
  /\ halted'  = [halted  EXCEPT ![w] = @ \ {a}]
  /\ UNCHANGED <<lease, lost, running, busy, faults>>

(* list_accounts fails: what is hosted stays.                              *)
PullFails(w) ==
  /\ Goto(w, "reconcile", "assign")
  /\ UNCHANGED <<lease, drop, add, row, hosted, lost, work, faults>>

(* ... or it answers with the desired accounts that have a session.        *)
Pull(w) ==
  \E desired \in SUBSET Accounts :
    /\ Goto(w, "reconcile", "release")
    /\ drop' = [drop EXCEPT ![w] = Hosted(w) \ desired]
    /\ add'  = [add  EXCEPT ![w] = desired \ Hosted(w)]
    /\ UNCHANGED <<lease, row, hosted, lost, work, faults>>

ReleaseUnassigned(w) ==
  \/ \E a \in drop[w] :
       /\ pc[w] = "release"
       /\ drop' = [drop EXCEPT ![w] = @ \ {a}]
       /\ Release(w, a)
       /\ UNCHANGED <<pc, add, row>>
  \/ /\ drop[w] = {}
     /\ Goto(w, "release", "assign")
     /\ UNCHANGED <<lease, drop, add, row, hosted, lost, work, faults>>

(* acquire, the SELECT.  Somebody else's live lease ends it there.         *)
Contended(w, a) == owner[a] \notin {w, Nobody} /\ a \in live

ReadLease(w) ==
  \E a \in add[w] :
    /\ pc[w] = "assign"
    /\ IF Contended(w, a)
         THEN /\ add' = [add EXCEPT ![w] = @ \ {a}]
              /\ UNCHANGED <<pc, row>>
         ELSE /\ pc'  = [pc  EXCEPT ![w] = "acquire"]
              /\ row' = [row EXCEPT ![w] = [acct |-> a, by |-> owner[a],
                                            gen |-> gen[a]]]
              /\ UNCHANGED add
    /\ UNCHANGED <<lease, drop, hosted, lost, work, faults>>

(* acquire, the INSERT or UPDATE the row read calls for, which may find    *)
(* the row changed.                                                        *)
Won(w, g) ==
  LET a == row[w].acct IN
  /\ owner' = [owner EXCEPT ![a] = w]
  /\ gen'   = [gen   EXCEPT ![a] = g]
  /\ live'  = live \cup {a}
  /\ pc'    = [pc    EXCEPT ![w] = "connect"]
  /\ row'   = [row   EXCEPT ![w] = [acct |-> a, by |-> w, gen |-> g]]
  /\ UNCHANGED add

NextAccount(w) ==
  /\ pc'  = [pc  EXCEPT ![w] = "assign"]
  /\ add' = [add EXCEPT ![w] = @ \ {row[w].acct}]
  /\ row' = [row EXCEPT ![w] = NoRow]

NotWon(w) == NextAccount(w) /\ UNCHANGED lease

InsertOrReplace(w) ==  \* mutation: the insert overwrites a row made meanwhile
  row[w].by = Nobody /\ Won(w, 1)

InsertLease(w) ==
  /\ row[w].by = Nobody
  /\ IF owner[row[w].acct] = Nobody THEN Won(w, 1) ELSE NotWon(w)

(* The same worker: only lease_until moves; the generation is the one read. *)
ReacquireLease(w) ==
  LET a == row[w].acct IN
  /\ row[w].by = w
  /\ IF owner[a] = w
       THEN /\ live' = live \cup {a}
            /\ pc'   = [pc EXCEPT ![w] = "connect"]
            /\ UNCHANGED <<owner, gen, row, add>>
       ELSE NotWon(w)

(* Another's lease that had expired: compare and swap on the generation,    *)
(* and still expired.                                                      *)
StealableOnce(r) == gen[r.acct] = r.gen  \* mutation: expiry not re-checked

Stealable(r) == gen[r.acct] = r.gen /\ r.acct \notin live

StealLease(w) ==
  /\ row[w].by \notin {w, Nobody}
  /\ IF Stealable(row[w])
       THEN Won(w, row[w].gen + 1)
       ELSE NotWon(w)

WriteLease(w) ==
  /\ pc[w] = "acquire"
  /\ InsertLease(w) \/ ReacquireLease(w) \/ StealLease(w)
  /\ UNCHANGED <<drop, hosted, lost, work, faults>>

(* _assign after the lease was won: the session connects, the runner, the  *)
(* heartbeat and the _Hosted entry are made under the generation won.      *)
Connect(w) ==
  /\ pc[w] = "connect"
  /\ host'    = [host    EXCEPT ![w][row[w].acct] = row[w].gen]
  /\ beating' = [beating EXCEPT ![w] = @ \cup {row[w].acct}]
  /\ NextAccount(w)
  /\ UNCHANGED <<lease, drop, lost, work, faults>>

(* fetch_session or connect fails: the lease stays ours, unused.           *)
ConnectFails(w) ==
  /\ pc[w] = "connect"
  /\ NextAccount(w)
  /\ UNCHANGED <<lease, drop, hosted, lost, work, faults>>

(* The last loop of reconcile visits what was lost when it begins, with an *)
(* await in every release; then the whole set is cleared.                  *)
BeginDrop(w) ==
  LET doomed == lost[w] \cap Hosted(w) IN
  /\ add[w] = {}
  /\ Goto(w, "assign", IF doomed = {} THEN "commands" ELSE "drop")
  /\ drop' = [drop EXCEPT ![w] = doomed]
  /\ lost' = IF doomed = {} THEN [lost EXCEPT ![w] = {}] ELSE lost
  /\ UNCHANGED <<lease, add, row, hosted, work, faults>>

DropLost(w) ==
  \E a \in drop[w] :
    /\ pc[w] = "drop"
    /\ drop' = [drop EXCEPT ![w] = @ \ {a}]
    /\ Release(w, a)
    /\ UNCHANGED <<pc, add, row>>

ClearLost(w) ==
  /\ drop[w] = {}
  /\ Goto(w, "drop", "commands")
  /\ lost' = [lost EXCEPT ![w] = {}]
  /\ UNCHANGED <<lease, drop, add, row, hosted, work, faults>>

-----------------------------------------------------------------------------
(* poll_commands and run_once.                                             *)

StopAccount(w) ==
  \E a \in Hosted(w) :
    /\ pc[w] = "commands"
    /\ Release(w, a)
    /\ UNCHANGED tick

BeginRound(w) ==
  /\ Goto(w, "commands", "round")
  /\ running' = [running EXCEPT ![w] = Hosted(w) \ halted[w]]
  /\ UNCHANGED <<lease, drop, add, row, hosted, lost, busy, halted, faults>>

(* The runner claims a job, under the generation it was made with.         *)
ClaimJob(w, a) ==
  /\ pc[w] = "round" /\ a \in running[w] \ busy[w]
  /\ busy' = [busy EXCEPT ![w] = @ \cup {a}]
  /\ UNCHANGED <<lease, tick, hosted, lost, running, halted, faults>>

(* The result is recorded; a dead authorization halts the runner.          *)
FinishJob(w, a) ==
  /\ a \in busy[w]
  /\ busy' = [busy EXCEPT ![w] = @ \ {a}]
  /\ \/ UNCHANGED <<halted, running>>
     \/ /\ halted'  = [halted  EXCEPT ![w] = @ \cup {a}]
        /\ running' = [running EXCEPT ![w] = @ \ {a}]
  /\ UNCHANGED <<lease, tick, hosted, lost, faults>>

(* No due job is left, or the round of this runner raised.                 *)
EndRunner(w, a) ==
  /\ a \in running[w] \ busy[w]
  /\ running' = [running EXCEPT ![w] = @ \ {a}]
  /\ UNCHANGED <<lease, tick, hosted, lost, busy, halted, faults>>

(* The gather returned; halted runners count as lost.                      *)
LostInRound(w) == lost[w]  \* mutation: halted runners are not collected

LostAfterRound(w) == lost[w] \cup halted[w]

EndTick(w) ==
  /\ running[w] = {}
  /\ Goto(w, "round", "reconcile")
  /\ lost' = [lost EXCEPT ![w] = LostAfterRound(w)]
  /\ UNCHANGED <<lease, drop, add, row, hosted, work, faults>>

-----------------------------------------------------------------------------
(* Heartbeats and time.                                                    *)

(* LeaseHeartbeat.tick and LeaseRepository.renew.                          *)
Renewable(w, a) == owner[a] = w /\ gen[a] = host[w][a]

LoseSilently(w, a) ==  \* mutation: on_lost is not called
  /\ beating' = [beating EXCEPT ![w] = @ \ {a}]
  /\ UNCHANGED lost

LoseHeartbeat(w, a) ==
  /\ beating' = [beating EXCEPT ![w] = @ \ {a}]
  /\ lost'    = [lost    EXCEPT ![w] = @ \cup {a}]

Heartbeat(w, a) ==
  /\ a \in beating[w]
  /\ IF Renewable(w, a)
       THEN live' = live \cup {a} /\ UNCHANGED <<beating, lost>>
       ELSE LoseHeartbeat(w, a) /\ UNCHANGED live
  /\ UNCHANGED <<owner, gen, tick, host, work, faults>>

(* The renewal raises: the same as losing the lease.                       *)
HeartbeatFails(w, a) ==
  /\ a \in beating[w]
  /\ Fault
  /\ LoseHeartbeat(w, a)
  /\ UNCHANGED <<lease, tick, host, work>>

(* lease_until passes.  A heartbeat may be late by any amount.             *)
Expire(a) ==
  /\ a \in live
  /\ gen[a] < GenBound
  /\ live' = live \ {a}
  /\ UNCHANGED <<owner, gen, tick, hosted, lost, work, faults>>

-----------------------------------------------------------------------------
Reconcile(w) ==
  \/ PullFails(w) \/ Pull(w) \/ ReleaseUnassigned(w)
  \/ ReadLease(w) \/ WriteLease(w) \/ Connect(w) \/ ConnectFails(w)
  \/ BeginDrop(w) \/ DropLost(w) \/ ClearLost(w)

Round(w) ==
  \/ StopAccount(w) \/ BeginRound(w) \/ EndTick(w)
  \/ \E a \in Accounts : ClaimJob(w, a) \/ FinishJob(w, a) \/ EndRunner(w, a)

Beat(w) == \E a \in Accounts : Heartbeat(w, a) \/ HeartbeatFails(w, a)

Process(w) == Start(w) \/ Stop(w) \/ Crash(w) \/ AbortTick(w)

Next ==
  \/ \E w \in Workers : Reconcile(w) \/ Round(w) \/ Beat(w) \/ Process(w)
  \/ \E a \in Accounts : Expire(a)

Spec == Init /\ [][Next]_vars

(* The tick's coroutine goes on, a send ends (every request has a timeout) *)
(* and a runner's queue of due jobs runs dry.                              *)
Fairness ==
  \A w \in Workers :
    /\ WF_vars(Start(w))
    /\ WF_vars(Reconcile(w))
    /\ WF_vars(BeginRound(w))
    /\ WF_vars(EndTick(w))
    /\ \A a \in Accounts : /\ WF_vars(FinishJob(w, a))
                           /\ SF_vars(EndRunner(w, a))
                           /\ WF_vars(Heartbeat(w, a))

FairSpec == Spec /\ Fairness

-----------------------------------------------------------------------------
(* Properties.                                                             *)

(* The generation fences: no two workers host an account under the same    *)
(* one, however reads of the row, renewals and steals interleave (acquire). *)
GenerationIsExclusive ==
  \A v, w \in Workers : \A a \in Hosted(v) \cap Hosted(w) :
    v # w => host[v][a] # host[w][a]

(* Whoever hosts an account under the row's generation is the row's owner, *)
(* and nobody hosts it under a later one.                                  *)
HostsBehindRow ==
  \A w \in Workers : \A a \in Hosted(w) :
    /\ host[w][a] <= gen[a]
    /\ host[w][a] = gen[a] => owner[a] = w

(* A live lease is never taken away, though acquire decides on a row it    *)
(* read in an earlier statement.                                           *)
LiveLeaseIsKept ==
  [][\A a \in live : owner[a] # Nobody => owner'[a] = owner[a]]_vars

(* Each change of hands is a generation of its own.                        *)
GenerationCounts ==
  [][\A a \in Accounts :
       gen'[a] = IF owner'[a] = owner[a] THEN gen[a] ELSE gen[a] + 1]_vars

(* A host that lost an account's heartbeat lets go of the account: the     *)
(* worker must stop claiming new sends (lease_heartbeat.py).               *)
LostIsReleased ==
  \A w \in Workers, a \in Accounts :
    (a \in Hosted(w) /\ a \notin beating[w]) ~> (a \notin Hosted(w))

(* A halted runner is released: its peers go on, it does not stay.         *)
HaltedIsReleased ==
  \A w \in Workers, a \in Accounts :
    (a \in halted[w]) ~> (a \notin halted[w])

(* Jobs are claimed by the owner of the lease only, under its generation.  *)
ClaimsAsOwner ==
  [][\A w \in Workers, a \in Accounts :
       a \in busy'[w] \ busy[w] => owner[a] = w /\ gen[a] = host[w][a]]_vars

(* An account is taken over only when its old host has let go of it.       *)
TakeoverAfterExit ==
  [][\A a \in Accounts : owner'[a] # owner[a] /\ owner[a] # Nobody
                           => host[owner[a]][a] = 0]_vars

=============================================================================
