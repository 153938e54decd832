-------------------------------- MODULE Account --------------------------------
(***************************************************************************)
(* The life of a Telegram account: it comes in by the import of a session  *)
(* package or by a login with a code (account_service.py), the console     *)
(* starts, stops and deletes it (api/v1/account.py), and the worker hosts  *)
(* take up and let go of what the platform lists for them and report how   *)
(* it goes (api/v1/runtime.py, worker/host.py).                            *)
(*                                                                         *)
(* A request is a transaction that looks for the identity long before it   *)
(* commits: it waits for a subprocess that talks to Telegram.  Session     *)
(* files and the Redis key of a pending login follow no transaction.       *)
(* Lease is the detail of the leases, which are never stolen here.         *)
(***************************************************************************)
EXTENDS Naturals, Sequences, FiniteSets

CONSTANTS
  Identities,  (* Telegram users                                           *)
  Unknown,     (* telegram_user_id NULL: the session could not say         *)
  Imports,     (* import requests                                          *)
  Package,     (* Imports -> the identities of the sessions in the package *)
  Logins,      (* logins begun with a phone number                         *)
  LoginAs,     (* Logins -> whose number it is                             *)
  Completions, (* requests with a code                                     *)
  For,         (* Completions -> the login they complete                   *)
  Hosts, Nobody,
  MaxActs,     (* bound: what the console does                             *)
  MaxFaults    (* bound: crashes and accounts found frozen                 *)

ASSUME ConstantsAssumption ==
  /\ Package \in [Imports -> Seq(Identities \cup {Unknown})]
  /\ LoginAs \in [Logins -> Identities]
  /\ For \in [Completions -> Logins]
  /\ Unknown \notin Identities /\ Nobody \notin Hosts
  /\ MaxActs \in Nat /\ MaxFaults \in Nat

(* A row of tg_telegram_account is named by what it was made from: a       *)
(* session of a package or a completed login.  Its secret_ref is a file    *)
(* of the same name, in a directory of that request's own.                 *)
Items == UNION {{<<q, i>> : i \in DOMAIN Package[q]} : q \in Imports}
Rows  == Items \cup {<<c, 0>> : c \in Completions}

Who(r) == IF r \in Items THEN Package[r[1]][r[2]] ELSE LoginAs[For[r[1]]]

VARIABLES
  row,        (* Rows -> none, live or deleted                             *)
  desired,    (* desired_status                                            *)
  observed,   (* observed_status                                           *)
  files,      (* session files of rows                                     *)
  importing,  (* Imports -> how far                                        *)
  planned,    (* Imports -> the rows the import has found to be new        *)
  begun,      (* logins that have sent their code                          *)
  pending,    (* those whose key was saved in Redis and not taken away     *)
  draft,      (* those with a session file in .pending                     *)
  completing, (* Completions -> how far                                    *)
  cleaning,   (* what delete_frozen has read                               *)
  enabled,    (* history: rows the console has set to running              *)
  acts,       (* bound                                                     *)
  listing,    (* Hosts -> the rows listed, while reconcile goes over them  *)
  todo,       (* Hosts -> those to be assigned yet                         *)
  held,       (* _hosted                                                   *)
  lease,      (* account_lease                                             *)
  faults      (* bound                                                     *)

table    == <<row, desired, observed>>
requests == <<files, importing, planned, begun, pending, draft, completing>>
console  == <<cleaning, enabled, acts>>
hosts    == <<listing, todo, held, lease>>
vars     == <<table, requests, console, hosts, faults>>

Statuses == {"imported_quarantine", "reauth_required", "active", "stopped",
             "error", "frozen"}

TypeOK ==
  /\ row      \in [Rows -> {"none", "live", "deleted"}]
  /\ desired  \in [Rows -> {"running", "stopped"}]
  /\ observed \in [Rows -> Statuses]
  /\ files \subseteq Rows
  /\ importing \in [Imports -> {"no", "checking", "planned", "over"}]
  /\ planned \in [Imports -> SUBSET Items]
  /\ begun \subseteq Logins /\ pending \subseteq Logins
  /\ draft \subseteq Logins
  /\ completing \in [Completions -> {"no", "signing", "signed", "moved", "over"}]
  /\ cleaning \subseteq Rows /\ enabled \subseteq Rows
  /\ acts \in 0..MaxActs
  /\ listing \in [Hosts -> {Nobody} \cup (SUBSET Rows)]
  /\ todo \in [Hosts -> SUBSET Rows]
  /\ held \in [Hosts -> SUBSET Rows]
  /\ lease \in [Rows -> Hosts \cup {Nobody}]
  /\ faults \in 0..MaxFaults

Init ==
  /\ row      = [r \in Rows |-> "none"]
  /\ desired  = [r \in Rows |-> "stopped"]
  /\ observed = [r \in Rows |-> "imported_quarantine"]
  /\ files = {}
  /\ importing = [q \in Imports |-> "no"]
  /\ planned = [q \in Imports |-> {}]
  /\ begun = {} /\ pending = {} /\ draft = {}
  /\ completing = [c \in Completions |-> "no"]
  /\ cleaning = {} /\ enabled = {} /\ acts = 0
  /\ listing = [h \in Hosts |-> Nobody]
  /\ todo = [h \in Hosts |-> {}]
  /\ held = [h \in Hosts |-> {}]
  /\ lease = [r \in Rows |-> Nobody]
  /\ faults = 0

-----------------------------------------------------------------------------
Live(r) == row[r] = "live"

(* get_by_tg_user; rows still unflushed are not seen.                      *)
Exists(r) == Who(r) # Unknown /\ \E s \in Rows : Live(s) /\ Who(s) = Who(r)

KeyIgnored(new) == TRUE  \* mutation: no unique key

(* uk_tg_account_tguser_deleted, at the commit: one live row per identity. *)
KeyFree(new) ==
  /\ \A r \in new : ~Exists(r)
  /\ \A r, s \in new : Who(r) = Who(s) /\ Who(r) # Unknown => r = s

(* CreateTgAccountParam: desired_status "running".                         *)
Create(new) ==
  /\ row'      = [r \in Rows |-> IF r \in new THEN "live" ELSE row[r]]
  /\ desired'  = [r \in Rows |-> IF r \in new THEN "running" ELSE desired[r]]
  /\ observed' = [r \in Rows |-> IF r \notin new THEN observed[r]
                                 ELSE IF Who(r) = Unknown THEN "reauth_required"
                                 ELSE "imported_quarantine"]

-----------------------------------------------------------------------------
(* import_zip.                                                             *)

ImportAt(q, at) == importing' = [importing EXCEPT ![q] = at]
LoginsStay == UNCHANGED <<begun, pending, draft, completing>>

ImportBegins(q) ==
  /\ importing[q] = "no" /\ ImportAt(q, "checking")
  /\ LoginsStay /\ UNCHANGED <<table, files, planned, console, hosts, faults>>

(* The subprocess has validated the package: who is there is a duplicate,  *)
(* the files of the others are copied.                                     *)
ImportPlans(q) ==
  LET new == {r \in Items : r[1] = q /\ ~Exists(r)} IN
  /\ importing[q] = "checking" /\ ImportAt(q, "planned")
  /\ planned' = [planned EXCEPT ![q] = new]
  /\ files' = files \cup new
  /\ LoginsStay /\ UNCHANGED <<table, console, hosts, faults>>

ImportCommits(q) ==
  /\ importing[q] = "planned" /\ KeyFree(planned[q])
  /\ ImportAt(q, "over") /\ Create(planned[q])
  /\ LoginsStay /\ UNCHANGED <<files, planned, console, hosts, faults>>

(* The subprocess fails, the key is taken, the request is cut off: rolled  *)
(* back with the batch and its "failed"; copied files stay.                *)
ImportFails(q) ==
  /\ importing[q] \in {"checking", "planned"} /\ ImportAt(q, "over")
  /\ LoginsStay /\ UNCHANGED <<table, files, planned, console, hosts, faults>>

-----------------------------------------------------------------------------
(* login_start, login_complete.                                            *)

(* _purge_pending, first thing in both: files older than _LOGIN_TTL_S.     *)
Purge(keep) == \E old \in SUBSET draft : draft' = (draft \ old) \cup keep

(* The request may die before it has saved the key.                        *)
LoginStarts(l) ==
  /\ l \notin begun
  /\ begun' = begun \cup {l}
  /\ Purge({l})
  /\ pending' \in {pending, pending \cup {l}}
  /\ UNCHANGED <<table, files, importing, planned, completing, console, hosts, faults>>

CompletionAt(c, at) == completing' = [completing EXCEPT ![c] = at]
Elsewhere == UNCHANGED <<importing, planned, begun, console, hosts, faults>>

(* The key is there, or has expired.                                       *)
CompleteBegins(c) ==
  /\ completing[c] = "no" /\ For[c] \in begun
  /\ CompletionAt(c, "over") \/ (For[c] \in pending /\ CompletionAt(c, "signing"))
  /\ Purge({})
  /\ UNCHANGED <<table, files, pending>> /\ Elsewhere

(* The subprocess opens the session file, making a new one if it is gone,  *)
(* and Telegram accepts the code, or not.                                  *)
SignsIn(c) ==
  /\ completing[c] = "signing"
  /\ CompletionAt(c, "signed") \/ CompletionAt(c, "over")
  /\ draft' = draft \cup {For[c]}
  /\ UNCHANGED <<table, files, pending>> /\ Elsewhere

(* The identity has an account: the login is given up.                     *)
FindsAccount(c) ==
  /\ completing[c] = "signed" /\ Exists(<<c, 0>>)
  /\ CompletionAt(c, "over")
  /\ draft' = draft \ {For[c]} /\ pending' = pending \ {For[c]}
  /\ UNCHANGED <<table, files>> /\ Elsewhere

AssumedThere(c) == TRUE  \* mutation: a failed move goes unnoticed

IsThere(c) == For[c] \in draft

MovesFile(c) ==
  /\ completing[c] = "signed" /\ ~Exists(<<c, 0>>) /\ IsThere(c)
  /\ CompletionAt(c, "moved")
  /\ files' = IF For[c] \in draft THEN files \cup {<<c, 0>>} ELSE files
  /\ draft' = draft \ {For[c]} /\ pending' = pending \ {For[c]}
  /\ UNCHANGED table /\ Elsewhere

CompleteCommits(c) ==
  /\ completing[c] = "moved" /\ KeyFree({<<c, 0>>})
  /\ CompletionAt(c, "over") /\ Create({<<c, 0>>})
  /\ UNCHANGED <<files, draft, pending>> /\ Elsewhere

(* The file is gone, the key taken, the request cut off.                   *)
CompleteFails(c) ==
  /\ completing[c] \in {"signing", "signed", "moved"}
  /\ CompletionAt(c, "over")
  /\ UNCHANGED <<table, files, draft, pending>> /\ Elsewhere

-----------------------------------------------------------------------------
(* The console.                                                            *)

Act == acts < MaxActs /\ acts' = acts + 1

Update(r, to) ==
  /\ Live(r) /\ Act
  /\ desired' = [desired EXCEPT ![r] = to]
  /\ enabled' = IF to = "running" THEN enabled \cup {r} ELSE enabled
  /\ UNCHANGED <<row, observed, requests, cleaning, hosts, faults>>

Delete(r) ==
  /\ Live(r) /\ Act
  /\ row' = [row EXCEPT ![r] = "deleted"]
  /\ UNCHANGED <<desired, observed, requests, cleaning, enabled, hosts, faults>>

(* delete_frozen: selected by their status, deleted by their key.          *)
DeleteFrozenReads ==
  /\ cleaning = {} /\ Act
  /\ cleaning' = {r \in Rows : Live(r) /\ observed[r] = "frozen"}
  /\ cleaning' # {}
  /\ UNCHANGED <<table, requests, enabled, hosts, faults>>

DeleteFrozenWrites ==
  /\ cleaning # {}
  /\ row' = [r \in Rows |-> IF r \in cleaning THEN "deleted" ELSE row[r]]
  /\ cleaning' = {}
  /\ UNCHANGED <<desired, observed, requests, enabled, acts, hosts, faults>>

-----------------------------------------------------------------------------
(* A host: reconcile, one thing after the other.                           *)

Listed(h) == listing[h] # Nobody
Unwanted(h) == held[h] \ listing[h]

RunningDeletedToo(r) ==  \* mutation: deleted rows are not left out
  row[r] # "none" /\ desired[r] = "running"

(* get_running.                                                            *)
Running(r) == Live(r) /\ desired[r] = "running"

(* A list that asks for nothing is not remembered.                         *)
Pull(h) ==
  LET list == {r \in Rows : Running(r)} IN
  /\ ~Listed(h) /\ list # held[h]
  /\ listing' = [listing EXCEPT ![h] = list]
  /\ todo' = [todo EXCEPT ![h] = list \ held[h]]
  /\ UNCHANGED <<table, requests, console, held, lease, faults>>

(* _report_status: report_account_status writes what it is told, or the    *)
(* call fails.                                                             *)
Report(r, status) ==
  /\ \/ Live(r) /\ observed' = [observed EXCEPT ![r] = status]
     \/ UNCHANGED observed
  /\ UNCHANGED <<row, desired>>

(* _release: the lease is left to expire.                                  *)
Release(h, r) ==
  /\ Listed(h) /\ r \in Unwanted(h)
  /\ held' = [held EXCEPT ![h] = @ \ {r}]
  /\ Report(r, "stopped")
  /\ UNCHANGED <<requests, console, listing, todo, lease, faults>>

(* _assign: the lease, the session (pull_session asks for the row again),  *)
(* the connection.                                                         *)
MayAssign(h, r) ==
  /\ Listed(h) /\ Unwanted(h) = {} /\ r \in todo[h]
  /\ todo' = [todo EXCEPT ![h] = @ \ {r}]

Assign(h, r) ==
  /\ MayAssign(h, r) /\ lease[r] \in {Nobody, h}
  /\ lease' = [lease EXCEPT ![r] = h]
  /\ \/ /\ Running(r) /\ r \in files
        /\ held' = [held EXCEPT ![h] = @ \cup {r}]
        /\ Report(r, "active")
     \/ Report(r, "error") /\ UNCHANGED held
  /\ UNCHANGED <<requests, console, listing, faults>>

HeldElsewhere(h, r) ==
  /\ MayAssign(h, r) /\ lease[r] \notin {Nobody, h}
  /\ UNCHANGED <<table, requests, console, listing, held, lease, faults>>

EndReconcile(h) ==
  /\ Listed(h) /\ Unwanted(h) = {} /\ todo[h] = {}
  /\ listing' = [listing EXCEPT ![h] = Nobody]
  /\ UNCHANGED <<table, requests, console, todo, held, lease, faults>>

Fault == faults < MaxFaults /\ faults' = faults + 1

(* _on_status: Telegram refuses the account; it stays hosted.              *)
FindsFrozen(h, r) ==
  /\ r \in held[h] /\ Fault
  /\ Report(r, "frozen")
  /\ UNCHANGED <<requests, console, hosts>>

Crash(h) ==
  /\ Fault
  /\ listing' = [listing EXCEPT ![h] = Nobody]
  /\ todo' = [todo EXCEPT ![h] = {}]
  /\ held' = [held EXCEPT ![h] = {}]
  /\ UNCHANGED <<table, requests, console, lease>>

(* Nobody renews the lease of an account that is not hosted.               *)
LeaseExpires(r) ==
  /\ lease[r] # Nobody /\ r \notin held[lease[r]]
  /\ lease' = [lease EXCEPT ![r] = Nobody]
  /\ UNCHANGED <<table, requests, console, listing, todo, held, faults>>

HostNext(h) ==
  \/ Pull(h) \/ EndReconcile(h)
  \/ \E r \in Rows : Release(h, r) \/ Assign(h, r) \/ HeldElsewhere(h, r)

CompleteNext(c) ==
  \/ CompleteBegins(c) \/ SignsIn(c) \/ FindsAccount(c) \/ MovesFile(c)
  \/ CompleteCommits(c) \/ CompleteFails(c)

Next ==
  \/ \E q \in Imports : \/ ImportBegins(q) \/ ImportPlans(q)
                        \/ ImportCommits(q) \/ ImportFails(q)
  \/ \E l \in Logins : LoginStarts(l)
  \/ \E c \in Completions : CompleteNext(c)
  \/ \E r \in Rows : Update(r, "running") \/ Update(r, "stopped") \/ Delete(r)
  \/ DeleteFrozenReads \/ DeleteFrozenWrites
  \/ \E h \in Hosts : \/ HostNext(h) \/ Crash(h)
                      \/ \E r \in Rows : FindsFrozen(h, r)
  \/ \E r \in Rows : LeaseExpires(r)

Spec == Init /\ [][Next]_vars

(* A host goes on with its tick; the platform answers in the end.          *)
Fairness == \A h \in Hosts : WF_vars(HostNext(h))

FairSpec == Spec /\ Fairness

-----------------------------------------------------------------------------
(* One account per Telegram identity, whatever packages and logins are     *)
(* under way at once ("同一 Telegram 身份默认唯一", get_by_tg_user).       *)
IdentityIsUnique ==
  \A r, s \in Rows : Live(r) /\ Live(s) /\ Who(r) = Who(s) /\ Who(r) # Unknown => r = s

(* The session an account refers to is there: no sweep of the pending      *)
(* directory and no second completion of the login takes it away           *)
(* (pull_session answers "会话文件缺失" without it).                       *)
RowHasSession == \A r \in Rows : Live(r) => r \in files

(* An account that was stopped or deleted is let go of, unless it is       *)
(* started again first (reconcile).                                        *)
StopArrives ==
  \A r \in Rows :
    LET stopped == row[r] = "deleted" \/ desired[r] = "stopped"
        hosted  == \E h \in Hosts : r \in held[h]
    IN hosted /\ stopped ~> ~hosted \/ ~stopped

(* Refuted: an account nobody has enabled is not brought online            *)
(* ("尚未人工启用的账号默认进入隔离态").                                   *)
QuarantineHolds == \A h \in Hosts : held[h] \subseteq enabled

(* Refuted: what delete_frozen deletes is frozen.                          *)
OnlyFrozenGo ==
  [][\A r \in cleaning : Live(r) /\ row'[r] = "deleted" /\ cleaning' = {}
       => observed[r] = "frozen"]_vars

(* Refuted: a duplicate in a package is left out, and no reason for the    *)
(* import to fail ("幂等:同一 Telegram 身份已存在则不重复建账号").         *)
DuplicateIsSkipped == \A q \in Imports : importing[q] = "planned" => KeyFree(planned[q])
=============================================================================
