---------------------------- MODULE AttemptLedger ----------------------------
(***************************************************************************)
(* What the delivery path promises about the attempts of the jobs, told    *)
(* without runners, claims, statuses or time: attempts are opened one      *)
(* after the other, an opened attempt reaches Telegram at most once, a     *)
(* success is recorded of an attempt that did, and the first copy of a     *)
(* source message that succeeds is its target for good.  Delivery          *)
(* implements this module.                                                 *)
(***************************************************************************)
EXTENDS Naturals

CONSTANTS
  Jobs,
  Source,   (* Jobs -> the (route, source message) the job is about         *)
  Copies,   (* the jobs whose message becomes the target of their source    *)
  Deletes,  (* the jobs that may succeed with nothing to do                 *)
  Unmapped

VARIABLES count, acted, won, map

vars == <<count, acted, won, map>>

Opened == UNION {{j} \X (1..count[j]) : j \in Jobs}

Init ==
  /\ count = [j \in Jobs |-> 0]
  /\ acted = {} /\ won = {}
  /\ map = [s \in {Source[j] : j \in Jobs} |-> Unmapped]

(* An attempt is put on record before anything is done for it.             *)
Open(j) ==
  /\ count' = [count EXCEPT ![j] = @ + 1]
  /\ UNCHANGED <<acted, won, map>>

(* Telegram carries an attempt out.                                        *)
Act(a) ==
  /\ a \notin acted
  /\ acted' = acted \cup {a}
  /\ UNCHANGED <<count, won, map>>

(* Its success is recorded, and mapped if it is the first of its source.   *)
Win(a) ==
  LET s == Source[a[1]] IN
  /\ a \in acted \/ a[1] \in Deletes
  /\ won' = won \cup {a}
  /\ map' = IF a[1] \in Copies /\ map[s] = Unmapped
              THEN [map EXCEPT ![s] = a] ELSE map
  /\ UNCHANGED <<count, acted>>

Next ==
  \/ \E j \in Jobs : Open(j)
  \/ \E a \in Opened : Act(a) \/ Win(a)

Spec == Init /\ [][Next]_vars

=============================================================================
