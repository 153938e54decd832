------------------------------- MODULE RuleSync -------------------------------
(***************************************************************************)
(* A clone rule on its way from the console to the workers.  The platform  *)
(* edits rules, publishes them as numbered snapshots and moves them to     *)
(* another listener when theirs is dead (rule_service.py), and leaves      *)
(* commands for the workers (command_service.py).  A worker host pulls     *)
(* commands and the snapshots of the accounts it hosts, keeps them in a    *)
(* cache and remembers which rules have gone (host.py).                    *)
(*                                                                         *)
(* A request of the platform is a transaction; publish and failover join   *)
(* Telegram groups between their reads and their writes, which takes       *)
(* seconds.  A host does one thing at a time: a pull and what it does with *)
(* the answer are two steps.                                               *)
(***************************************************************************)
EXTENDS Naturals, Sequences, FiniteSets

CONSTANTS
  Rules, Accounts, Hosts,
  First,        (* Rules -> the listener a rule is created with            *)
  Publishers,   (* publish requests served at a time                       *)
  MaxChanges,   (* bound: changes made to rules and their listeners        *)
  MaxCommands,  (* bound: commands issued                                  *)
  MaxFaults,    (* bound: crashes, failed calls and releases               *)
  Nobody

ASSUME ConstantsAssumption ==
  /\ First \in [Rules -> Accounts]
  /\ MaxChanges \in Nat /\ MaxCommands \in Nat /\ MaxFaults \in Nat

VARIABLES
  rule,       (* tg_clone_rule: listener, on, off or deleted,              *)
              (* current_version, and the draft its fields and targets     *)
              (* make up                                                   *)
  versions,   (* tg_clone_rule_version: the n-th is the snapshot n         *)
  publishing, (* publish requests that have read rule and targets          *)
  failover,   (* failovers that have found a dead listener and its heir    *)
  changes,    (* changes so far                                            *)
  command,    (* tg_runtime_command: one ReloadConfig each                 *)
  hosted,     (* the accounts a host holds the lease of                    *)
  cache,      (* _rules_cache: version by account and rule, 0 without      *)
  disabled,   (* _disabled_rule_ids                                        *)
  seen,       (* _seen_cmds                                                *)
  pulled,     (* the answer to a pull of rules, before it is used          *)
  due,        (* hosts whose _rules_refreshed_at is RULES_REFRESH_S old    *)
  round,      (* accounts the periodic refresh has still to visit          *)
  faults

platform == <<rule, versions, publishing, failover, changes>>
hostVars == <<hosted, cache, disabled, seen, pulled, due, round>>
vars     == <<platform, command, hostVars, faults>>

Versions == 0..MaxChanges
Held     == [Rules -> Versions]
Commands == 1..MaxCommands
NoRules  == [r \in Rules |-> 0]

RuleRow == [account : Accounts, state : {"on", "off", "deleted"}, current : Versions,
            draft : Nat]
Publish == [rule : Rules, account : Accounts, next : Nat, draft : Nat]
Reload  == [account : Accounts, status : {"pending", "done"}]
Answer  == [account : Accounts, rows : Held, for : Commands \cup {0}]

TypeOK ==
  /\ rule \in [Rules -> RuleRow]
  /\ versions \in [Rules -> Seq(Nat)]
  /\ publishing \in [Publishers -> Publish \cup {Nobody}]
  /\ failover \subseteq [rule : Rules, heir : Accounts]
  /\ changes \in 0..MaxChanges
  /\ command \in Seq(Reload)
  /\ Len(command) <= MaxCommands
  /\ hosted \in [Hosts -> SUBSET Accounts]
  /\ cache \in [Hosts -> [Accounts -> Held]]
  /\ disabled \in [Hosts -> SUBSET Rules]
  /\ seen \in [Hosts -> SUBSET Commands]
  /\ pulled \in [Hosts -> Answer \cup {Nobody}]
  /\ due \subseteq Hosts
  /\ round \in [Hosts -> SUBSET Accounts]
  /\ faults \in 0..MaxFaults

Init ==
  /\ rule = [r \in Rules |-> [account |-> First[r], state |-> "on", current |-> 0, draft |-> 0]]
  /\ versions = [r \in Rules |-> <<>>]
  /\ publishing = [p \in Publishers |-> Nobody]
  /\ failover = {} /\ changes = 0
  /\ command = <<>>
  /\ hosted = [h \in Hosts |-> {}]
  /\ cache = [h \in Hosts |-> [a \in Accounts |-> NoRules]]
  /\ disabled = [h \in Hosts |-> {}]
  /\ seen = [h \in Hosts |-> {}]
  /\ pulled = [h \in Hosts |-> Nobody]
  /\ due = {}
  /\ round = [h \in Hosts |-> {}]
  /\ faults = 0

-----------------------------------------------------------------------------
(* Requests of the console.                                                *)

Change == changes < MaxChanges /\ changes' = changes + 1

(* _notify_reload, issue: a command of its own key; a command that is not  *)
(* picked up before its deadline counts for nothing, nor do those over the *)
(* bound.                                                                  *)
Notify(a) ==
  \/ command' = command
  \/ /\ Len(command) < MaxCommands
     /\ command' = Append(command, [account |-> a, status |-> "pending"])

(* update, add_target, update_target, retire_target: the draft changes, or *)
(* the rule is switched on or off.                                         *)
Update(r) ==
  /\ rule[r].state # "deleted" /\ Change
  /\ \E to \in {"on", "off"} :
       rule' = [rule EXCEPT ![r].draft = @ + 1, ![r].state = to]
  /\ Notify(rule[r].account)
  /\ UNCHANGED <<versions, publishing, failover, hostVars, faults>>

Delete(r) ==
  /\ rule[r].state # "deleted" /\ Change
  /\ rule' = [rule EXCEPT ![r].state = "deleted"]
  /\ Notify(rule[r].account)
  /\ UNCHANGED <<versions, publishing, failover, hostVars, faults>>

(* publish, up to _auto_join: expected_version is the current one.         *)
PublishReads(p, r) ==
  /\ publishing[p] = Nobody /\ rule[r].state # "deleted" /\ Change
  /\ publishing' = [publishing EXCEPT ![p] =
       [rule |-> r, account |-> rule[r].account, next |-> rule[r].current + 1,
        draft |-> rule[r].draft]]
  /\ UNCHANGED <<rule, versions, failover, command, hostVars, faults>>

RowIsFree(q) ==  \* mutation: no unique key
  TRUE

(* uk_tg_rule_version.                                                     *)
VersionIsFree(q) == q.next > Len(versions[q.rule])

(* The row n of the versions; what was there under that number is gone.    *)
Written(snapshots, n, draft) ==
  [i \in DOMAIN snapshots \cup {n} |-> IF i = n THEN draft ELSE snapshots[i]]

PublishWrites(p) ==
  LET q == publishing[p] IN
  /\ q # Nobody /\ VersionIsFree(q)
  /\ publishing' = [publishing EXCEPT ![p] = Nobody]
  /\ versions' = [versions EXCEPT ![q.rule] = Written(@, q.next, q.draft)]
  /\ rule' = [rule EXCEPT ![q.rule].current = q.next]
  /\ Notify(q.account)
  /\ UNCHANGED <<failover, changes, hostVars, faults>>

(* An account could not join, the key was taken, the request was cut off.  *)
PublishFails(p) ==
  /\ publishing[p] # Nobody
  /\ publishing' = [publishing EXCEPT ![p] = Nobody]
  /\ UNCHANGED <<rule, versions, failover, changes, command, hostVars, faults>>

IsLive(r) == rule[r].current > 0 /\ rule[r].state = "on"

(* failover_listener_if_dead: the listener is reported dead, an account of *)
(* the pool joins the source groups.                                       *)
FailoverReads(r, heir) ==
  /\ IsLive(r) /\ heir # rule[r].account /\ Change
  /\ failover' = failover \cup {[rule |-> r, heir |-> heir]}
  /\ UNCHANGED <<rule, versions, publishing, command, hostVars, faults>>

FailoverWrites(f) ==
  /\ f \in failover
  /\ failover' = failover \ {f}
  /\ rule' = [rule EXCEPT ![f.rule].account = f.heir]
  /\ Notify(f.heir)
  /\ UNCHANGED <<versions, publishing, changes, hostVars, faults>>

FailoverFails(f) ==
  /\ f \in failover
  /\ failover' = failover \ {f}
  /\ UNCHANGED <<rule, versions, publishing, changes, command, hostVars, faults>>

-----------------------------------------------------------------------------
(* A host: reconcile, poll_commands, the periodic refresh of tick.         *)

Idle(h) == pulled[h] = Nobody

(* pull_rules: the current snapshots of the live rules an account listens  *)
(* for.                                                                    *)
Published(a) ==
  [r \in Rules |-> IF IsLive(r) /\ rule[r].account = a THEN rule[r].current ELSE 0]

Pull(h, a, why) ==
  pulled' = [pulled EXCEPT ![h] = [account |-> a, rows |-> Published(a), for |-> why]]

(* _assign, with the lease; a host that holds an account has pulled its    *)
(* rules, or tried to.                                                     *)
Assign(h, a) ==
  /\ Idle(h) /\ round[h] = {} /\ \A g \in Hosts : a \notin hosted[g]
  /\ hosted' = [hosted EXCEPT ![h] = @ \cup {a}]
  /\ Pull(h, a, 0)
  /\ UNCHANGED <<platform, command, cache, disabled, seen, due, round, faults>>

Fault == faults < MaxFaults /\ faults' = faults + 1

(* _release.                                                               *)
Release(h, a) ==
  /\ Idle(h) /\ a \in hosted[h] /\ Fault
  /\ hosted' = [hosted EXCEPT ![h] = @ \ {a}]
  /\ cache' = [cache EXCEPT ![h][a] = NoRules]
  /\ round' = [round EXCEPT ![h] = @ \ {a}]
  /\ UNCHANGED <<platform, command, disabled, seen, pulled, due>>

Crash(h) ==
  /\ Fault
  /\ hosted' = [hosted EXCEPT ![h] = {}]
  /\ cache' = [cache EXCEPT ![h] = [a \in Accounts |-> NoRules]]
  /\ disabled' = [disabled EXCEPT ![h] = {}]
  /\ seen' = [seen EXCEPT ![h] = {}]
  /\ pulled' = [pulled EXCEPT ![h] = Nobody]
  /\ due' = due \ {h}
  /\ round' = [round EXCEPT ![h] = {}]
  /\ UNCHANGED <<platform, command>>

(* pull_commands; the id is remembered before the command is carried out.  *)
TakeCommand(h, c) ==
  /\ Idle(h) /\ round[h] = {} /\ c \in DOMAIN command /\ c \notin seen[h]
  /\ command[c].status = "pending" /\ command[c].account \in hosted[h]
  /\ seen' = [seen EXCEPT ![h] = @ \cup {c}]
  /\ Pull(h, command[c].account, c)
  /\ UNCHANGED <<platform, command, hosted, cache, disabled, due, round, faults>>

(* ack_command: done, or the call fails and the command stays pending.     *)
Ack(c) ==
  \/ c = 0 /\ UNCHANGED <<command, faults>>
  \/ c # 0 /\ command' = [command EXCEPT ![c].status = "done"] /\ UNCHANGED faults
  \/ c # 0 /\ Fault /\ UNCHANGED command

Ids(held) == {r \in Rules : held[r] # 0}

DisabledForGood(h, a, rows) ==  \* mutation: a rule that comes back stays disabled
  disabled[h] \cup (Ids(cache[h][a]) \ Ids(rows))

DisabledAfter(h, a, rows) ==
  (disabled[h] \cup (Ids(cache[h][a]) \ Ids(rows))) \ Ids(rows)

CacheKept(h, a, rows) ==  \* mutation: rules are added and updated, never removed
  [r \in Rules |-> IF rows[r] = 0 THEN cache[h][a][r] ELSE rows[r]]

CacheAfter(h, a, rows) == rows

(* _refresh_rules.  The time of the last refresh is the host's, not the    *)
(* account's.                                                              *)
UseRules(h) ==
  LET q == pulled[h] IN
  /\ q # Nobody
  /\ cache' = [cache EXCEPT ![h][q.account] = CacheAfter(h, q.account, q.rows)]
  /\ disabled' = [disabled EXCEPT ![h] = DisabledAfter(h, q.account, q.rows)]
  /\ due' = due \ {h}
  /\ pulled' = [pulled EXCEPT ![h] = Nobody]
  /\ Ack(q.for)
  /\ UNCHANGED <<platform, hosted, seen, round>>

(* The pull has failed: logged, and a command is done all the same.        *)
PullFails(h) ==
  /\ pulled[h] # Nobody /\ Fault
  /\ pulled' = [pulled EXCEPT ![h] = Nobody]
  /\ command' = IF pulled[h].for = 0 THEN command
                ELSE [command EXCEPT ![pulled[h].for].status = "done"]
  /\ UNCHANGED <<platform, hosted, cache, disabled, seen, due, round>>

TimePasses(h) ==
  /\ h \notin due
  /\ due' = due \cup {h}
  /\ UNCHANGED <<platform, command, hosted, cache, disabled, seen, pulled, round, faults>>

BeginRound(h) ==
  /\ Idle(h) /\ round[h] = {} /\ h \in due /\ hosted[h] # {}
  /\ round' = [round EXCEPT ![h] = hosted[h]]
  /\ UNCHANGED <<platform, command, hosted, cache, disabled, seen, pulled, due, faults>>

PullNext(h, a) ==
  /\ Idle(h) /\ a \in round[h]
  /\ round' = [round EXCEPT ![h] = @ \ {a}]
  /\ Pull(h, a, 0)
  /\ UNCHANGED <<platform, command, hosted, cache, disabled, seen, due, faults>>

HostNext(h) ==
  \/ \E a \in Accounts : Assign(h, a) \/ PullNext(h, a)
  \/ \E c \in Commands : TakeCommand(h, c)
  \/ UseRules(h) \/ BeginRound(h)

Next ==
  \/ \E r \in Rules : Update(r) \/ Delete(r)
  \/ \E p \in Publishers : \/ \E r \in Rules : PublishReads(p, r)
                           \/ PublishWrites(p) \/ PublishFails(p)
  \/ \E r \in Rules, a \in Accounts : FailoverReads(r, a)
  \/ \E f \in failover : FailoverWrites(f) \/ FailoverFails(f)
  \/ \E h \in Hosts : \/ HostNext(h) \/ PullFails(h) \/ TimePasses(h) \/ Crash(h)
                      \/ \E a \in Accounts : Release(h, a)

Spec == Init /\ [][Next]_vars

(* A host goes on with its tick, and time passes.  The console owes        *)
(* nothing.                                                                *)
Fairness == \A h \in Hosts : WF_vars(HostNext(h)) /\ WF_vars(TimePasses(h))

FairSpec == Spec /\ Fairness

-----------------------------------------------------------------------------
(* A published snapshot is never published over, nor a number left out:    *)
(* the expected version is read long before the row is written             *)
(* (publish, uk_tg_rule_version).                                          *)
SnapshotsStand ==
  [][\A r \in Rules : /\ DOMAIN versions[r] \subseteq DOMAIN versions'[r]
                      /\ \A n \in DOMAIN versions[r] : versions'[r][n] = versions[r][n]
                      /\ rule'[r].current = Len(versions'[r])]_vars

(* Whatever commands were lost, late or sent to the wrong account, a host  *)
(* ends up with the snapshots the platform publishes for its accounts, and *)
(* blocks none of them.                                                    *)
InStep(h) ==
  \A a \in hosted[h] : /\ cache[h][a] = Published(a)
                       /\ disabled[h] \cap Ids(Published(a)) = {}

HostsFallInStep == <>[](\A h \in Hosts : InStep(h))

(* A rule switched off or deleted goes from every cache, unless it comes   *)
(* back ("停用优先于快照", tick).                                          *)
StopArrives ==
  \A h \in Hosts, r \in Rules :
    (~IsLive(r) /\ \E a \in Accounts : cache[h][a][r] # 0)
      ~> \/ IsLive(r)
         \/ \A a \in Accounts : cache[h][a][r] = 0

(* Refuted: a rule that is live and cached here is not blocked here.       *)
LiveIsNotBlocked ==
  \A h \in Hosts, r \in Rules :
    IsLive(r) /\ cache[h][rule[r].account][r] = rule[r].current => r \notin disabled[h]

(* Refuted: a rule that was switched off is blocked wherever its queue may *)
(* be sent ("拦截已停用规则的残留队列").                                   *)
StoppedIsBlocked ==
  \A r \in Rules : rule[r].current > 0 ~>
    \/ IsLive(r)
    \/ \A h \in Hosts : hosted[h] = {} \/ r \in disabled[h]

(* Refuted: "rules_refreshed".                                             *)
DoneIsRefreshed ==
  [][\A c \in DOMAIN command : command[c].status = "pending" /\ command'[c].status = "done"
       => \E h \in Hosts : cache'[h][command[c].account] = pulled[h].rows]_vars
=============================================================================
