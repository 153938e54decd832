------------------------------- MODULE AiScript -------------------------------
(***************************************************************************)
(* A script of a group: a list of lines, each for a member to say, played  *)
(* once from the first to the last.  AiGroupService starts, stops, edits   *)
(* and deletes it (ai_group_service.py); every line is one Celery task,    *)
(* AiService.script_step (ai_service.py), that sends the task of the next. *)
(*                                                                         *)
(* script_step locks the script's row until it commits.  The broker holds  *)
(* a task back for its countdown, may deliver it again when that is longer *)
(* than its visibility timeout, and loses it with the process that took it.*)
(***************************************************************************)
EXTENDS Naturals, Sequences, FiniteSets

CONSTANTS
  Members,   (* the group's members                                        *)
  Versions,  (* what the lines may be: sequences of members                *)
  MaxPlays,  (* bound: times the script is started                         *)
  MaxTasks,  (* bound: tasks of one play waiting at a time                 *)
  MaxTalk,   (* bound: times a member is busy with something else          *)
  MaxRepeats,(* bound: tasks delivered or tried again                      *)
  Workers,   (* Celery workers                                             *)
  Nobody

ASSUME ConstantsAssumption ==
  /\ Versions \subseteq Seq(Members) \ {<<>>} /\ Versions # {}
  /\ MaxPlays \in Nat /\ MaxTalk \in Nat /\ MaxRepeats \in Nat /\ MaxTasks \in Nat \ {0}

VARIABLES
  row,      (* the tg_ai_script row: lines, status, run_token, cursor      *)
  group,    (* tg_ai_group.status, or "gone" once deleted                  *)
  members,  (* the members still in the group                              *)
  busy,     (* those with a run that has not ended                         *)
  talk,     (* runs of members that are no line of the script              *)
  plays,    (* tokens given so far: the n-th is the number n               *)
  starting, (* started, the first task not sent yet                        *)
  tasks,    (* token -> script_step tasks waiting                          *)
  repeats,  (* tasks delivered again by the broker, or tried again         *)
  step,     (* worker -> the task it executes, and the row as it read it   *)
  saving,   (* save requests that found the script idle                    *)
  said,     (* token -> the lines handed to a member, in order             *)
  lost      (* a task of the current play was lost                         *)

vars == <<row, group, members, busy, talk, plays, starting, tasks, repeats,
          step, saving, said, lost>>

Tokens == 1..MaxPlays
NoToken == 0
Rows == [exists : BOOLEAN, lines : Versions, status : {"idle", "running"},
         token : 0..MaxPlays, cursor : Nat]

TypeOK ==
  /\ row \in Rows
  /\ group \in {"active", "paused", "gone"}
  /\ members \subseteq Members /\ busy \subseteq Members
  /\ talk \in 0..MaxTalk
  /\ plays \in 0..MaxPlays
  /\ starting \subseteq Tokens
  /\ tasks \in [Tokens -> 0..MaxTasks]
  /\ repeats \in 0..MaxRepeats
  /\ step \in [Workers -> [token : Tokens, row : Rows] \cup {Nobody}]
  /\ saving \subseteq Versions
  /\ said \in [Tokens -> Seq(Nat)]
  /\ lost \in BOOLEAN

Init ==
  /\ \E v \in Versions :
       row = [exists |-> TRUE, lines |-> v, status |-> "idle", token |-> NoToken, cursor |-> 1]
  /\ group = "active"
  /\ members = Members /\ busy = {} /\ talk = 0
  /\ plays = 0 /\ starting = {}
  /\ tasks = [t \in Tokens |-> 0] /\ repeats = 0
  /\ step = [w \in Workers |-> Nobody]
  /\ saving = {}
  /\ said = [t \in Tokens |-> <<>>]
  /\ lost = FALSE

Unlocked == TRUE  \* mutation: the row is read without FOR UPDATE

(* SELECT ... FOR UPDATE, UPDATE and DELETE wait for the step that holds   *)
(* the row.                                                                *)
RowFree == \A w \in Workers : step[w] = Nobody

Send(t) == tasks' = [tasks EXCEPT ![t] = IF @ < MaxTasks THEN @ + 1 ELSE @]

-----------------------------------------------------------------------------
(* Requests of the console.                                                *)

(* start_script: a new token, from the first line.  The route commits,     *)
(* then sends the first task.                                              *)
Start ==
  /\ row.exists /\ group = "active" /\ plays < MaxPlays /\ RowFree
  /\ plays' = plays + 1
  /\ row' = [row EXCEPT !.status = "running", !.token = plays', !.cursor = 1]
  /\ starting' = starting \cup {plays'}
  /\ lost' = FALSE
  /\ UNCHANGED <<group, members, busy, talk, tasks, step, repeats, saving, said>>

StartSends(t) ==
  /\ t \in starting
  /\ starting' = starting \ {t}
  /\ Send(t)
  /\ UNCHANGED <<row, group, members, busy, talk, plays, step, repeats, saving, said, lost>>

(* The process ends between the commit and the task.                       *)
StartDies(t) ==
  /\ t \in starting
  /\ starting' = starting \ {t}
  /\ lost' = (lost \/ t = row.token)
  /\ UNCHANGED <<row, group, members, busy, talk, plays, tasks, step, repeats, saving, said>>

Stop ==
  /\ row.exists /\ RowFree
  /\ row' = [row EXCEPT !.status = "idle", !.token = NoToken]
  /\ UNCHANGED <<group, members, busy, talk, plays, starting, tasks, step, repeats, saving, said, lost>>

(* save_script: refused while the script plays; the lines are written by   *)
(* primary key.                                                            *)
SaveReads(v) ==
  /\ row.exists /\ row.status # "running" /\ v \notin saving
  /\ saving' = saving \cup {v}
  /\ UNCHANGED <<row, group, members, busy, talk, plays, starting, tasks, step, repeats, said, lost>>

SaveWrites(v) ==
  /\ v \in saving /\ RowFree
  /\ saving' = saving \ {v}
  /\ row' = IF row.exists THEN [row EXCEPT !.lines = v] ELSE row
  /\ UNCHANGED <<group, members, busy, talk, plays, starting, tasks, step, repeats, said, lost>>

DeleteScript ==
  /\ row.exists /\ RowFree
  /\ row' = [row EXCEPT !.exists = FALSE]
  /\ UNCHANGED <<group, members, busy, talk, plays, starting, tasks, step, repeats, saving, said, lost>>

(* update_group and delete_group, which takes members and scripts along.   *)
SetGroup(st) ==
  /\ group # "gone" /\ group # st
  /\ group' = st
  /\ UNCHANGED <<row, members, busy, talk, plays, starting, tasks, step, repeats, saving, said, lost>>

DeleteGroup ==
  /\ group # "gone" /\ RowFree
  /\ group' = "gone" /\ members' = {}
  /\ row' = [row EXCEPT !.exists = FALSE]
  /\ UNCHANGED <<busy, talk, plays, starting, tasks, step, repeats, saving, said, lost>>

DeleteMember(m) ==
  /\ m \in members
  /\ members' = members \ {m}
  /\ UNCHANGED <<row, group, busy, talk, plays, starting, tasks, step, repeats, saving, said, lost>>

-----------------------------------------------------------------------------
(* script_step.                                                            *)

(* A worker takes a task, locks the row and reads it.                      *)
Take(w, t) ==
  /\ step[w] = Nobody /\ tasks[t] > 0 /\ RowFree
  /\ tasks' = [tasks EXCEPT ![t] = @ - 1]
  /\ step' = [step EXCEPT ![w] = [token |-> t, row |-> row]]
  /\ UNCHANGED <<row, group, members, busy, talk, plays, starting, repeats, saving, said, lost>>

AnyPlay(s) ==  \* mutation: the token is not compared
  s.row.exists /\ s.row.status = "running"

IsCurrent(s) == s.row.exists /\ s.row.status = "running" /\ s.row.token = s.token
LinesLeft(s) == s.row.cursor <= Len(s.row.lines)
Line(s)      == s.row.lines[s.row.cursor]

Free(w) == step' = [step EXCEPT ![w] = Nobody]

(* stopped: not the play the row names.                                    *)
Stopped(w) ==
  /\ step[w] # Nobody /\ ~IsCurrent(step[w])
  /\ Free(w)
  /\ UNCHANGED <<row, group, members, busy, talk, plays, starting, tasks, repeats, saving, said, lost>>

Over(r) == [r EXCEPT !.status = "idle", !.token = NoToken]

(* done: the group is no longer active, or nothing is left.                *)
Finished(w) ==
  /\ step[w] # Nobody /\ IsCurrent(step[w])
  /\ group # "active" \/ ~LinesLeft(step[w])
  /\ row' = Over(row)
  /\ Free(w)
  /\ UNCHANGED <<group, members, busy, talk, plays, starting, tasks, repeats, saving, said, lost>>

MayGoOn(w) ==
  /\ step[w] # Nobody /\ IsCurrent(step[w])
  /\ group = "active" /\ LinesLeft(step[w])

NoRetry(w) ==  \* mutation: a busy member ends the chain of tasks
  /\ MayGoOn(w) /\ Line(step[w]) \in members \cap busy
  /\ Free(w)
  /\ UNCHANGED <<row, group, members, busy, talk, plays, starting, tasks, repeats, saving, said, lost>>

(* retry: the member generates something else, try the line in a while.    *)
Retry(w) ==
  /\ MayGoOn(w) /\ Line(step[w]) \in members \cap busy
  /\ Send(step[w].token)
  /\ Free(w)
  /\ UNCHANGED <<row, group, members, busy, talk, plays, starting, repeats, saving, said, lost>>

(* The cursor moves, and the play ends or the next task is sent.           *)
Advance(w) ==
  LET s == step[w]  next == s.row.cursor + 1 IN
  /\ Free(w)
  /\ IF next > Len(s.row.lines)
     THEN row' = [Over(row) EXCEPT !.cursor = next] /\ UNCHANGED tasks
     ELSE row' = [row EXCEPT !.cursor = next] /\ Send(s.token)

(* The line is handed to the member: a run in the same transaction.        *)
Say(w) ==
  LET s == step[w] IN
  /\ MayGoOn(w) /\ Line(s) \in members \ busy
  /\ busy' = busy \cup {Line(s)}
  /\ said' = [said EXCEPT ![s.token] = Append(@, s.row.cursor)]
  /\ Advance(w)
  /\ UNCHANGED <<group, members, talk, plays, starting, repeats, saving, lost>>

(* Its member has left the group: the line is passed over.                 *)
Skip(w) ==
  /\ MayGoOn(w) /\ Line(step[w]) \notin members
  /\ Advance(w)
  /\ UNCHANGED <<group, members, busy, talk, plays, starting, repeats, saving, said, lost>>

(* The transaction is rolled back: after the next task was sent, or the    *)
(* task is tried again (autoretry_for of TaskBase), or neither.            *)
StepFails(w) ==
  /\ step[w] # Nobody
  /\ Free(w)
  /\ \/ MayGoOn(w) /\ Send(step[w].token) /\ UNCHANGED repeats
     \/ repeats < MaxRepeats /\ Send(step[w].token) /\ repeats' = repeats + 1
     \/ UNCHANGED <<tasks, repeats>>
  /\ lost' = (lost \/ step[w].token = row.token)
  /\ UNCHANGED <<row, group, members, busy, talk, plays, starting, saving, said>>

TaskLost(t) ==
  /\ tasks[t] > 0
  /\ tasks' = [tasks EXCEPT ![t] = @ - 1]
  /\ lost' = (lost \/ t = row.token)
  /\ UNCHANGED <<row, group, members, busy, talk, plays, starting, step, repeats, saving, said>>

(* Redis hands out a task again whose countdown outlasts the visibility    *)
(* timeout: interval_s may be 3600, and is stretched by 30 percent.        *)
TaskRepeated(t) ==
  /\ tasks[t] > 0 /\ tasks[t] < MaxTasks /\ repeats < MaxRepeats
  /\ Send(t) /\ repeats' = repeats + 1
  /\ UNCHANGED <<row, group, members, busy, talk, plays, starting, step, saving, said, lost>>

-----------------------------------------------------------------------------
(* The members' runs: AiRun ends them all (sweep_deadlines); a reply or a  *)
(* warm-up makes a member busy.                                            *)

RunBegins(m) ==
  /\ m \in members \ busy /\ talk < MaxTalk
  /\ busy' = busy \cup {m} /\ talk' = talk + 1
  /\ UNCHANGED <<row, group, members, plays, starting, tasks, step, repeats, saving, said, lost>>

RunEnds(m) ==
  /\ m \in busy
  /\ busy' = busy \ {m}
  /\ UNCHANGED <<row, group, members, talk, plays, starting, tasks, step, repeats, saving, said, lost>>

StepNext(w) ==
  \/ \E t \in Tokens : Take(w, t)
  \/ Stopped(w) \/ Finished(w) \/ Retry(w) \/ Say(w) \/ Skip(w)

Next ==
  \/ Start \/ Stop \/ DeleteScript \/ DeleteGroup
  \/ \E t \in Tokens : StartSends(t) \/ StartDies(t) \/ TaskLost(t) \/ TaskRepeated(t)
  \/ \E v \in Versions : SaveReads(v) \/ SaveWrites(v)
  \/ \E st \in {"active", "paused"} : SetGroup(st)
  \/ \E w \in Workers : StepNext(w) \/ StepFails(w)
  \/ \E m \in Members : DeleteMember(m) \/ RunBegins(m) \/ RunEnds(m)

Spec == Init /\ [][Next]_vars

(* A route that has committed sends its task, the broker hands tasks out,  *)
(* a step ends, and so does a run.                                         *)
Fairness ==
  /\ \A t \in Tokens : WF_vars(StartSends(t))
  /\ WF_vars(\E w \in Workers : StepNext(w))
  /\ \A m \in Members : WF_vars(RunEnds(m))

FairSpec == Spec /\ Fairness

-----------------------------------------------------------------------------
(* Each play says its lines in order and none twice, though tasks are      *)
(* repeated and retried and workers run side by side: the row lock, the    *)
(* token and the cursor of script_step.                                    *)
LinesInOrder ==
  \A t \in Tokens : \A i, j \in 1..Len(said[t]) : i < j => said[t][i] < said[t][j]

(* A play that was stopped, started anew or deleted says nothing more: "旧   *)
(* 令牌的排队步骤会自然失效" of start_script.                              *)
OldPlayIsSilent ==
  [][\A t \in Tokens : said'[t] # said[t]
       => row.exists /\ row.status = "running" /\ row.token = t]_vars

(* A play ends, unless a task of it is lost or rolled back: a busy member  *)
(* delays it, a member who left does not hold it up.                       *)
PlayEnds == row.exists /\ row.status = "running" ~>
              (~row.exists \/ row.status # "running" \/ lost)

(* Refuted: save_script refuses to change a script that plays ("剧本正在播 *)
(* 放,先停止再修改").                                                      *)
PlayedAsItStands ==
  [][row.status = "running" /\ row'.token = row.token => row'.lines = row.lines]_vars

(* Refuted: every play ends.                                               *)
EveryPlayEnds == row.exists /\ row.status = "running" ~>
                   (~row.exists \/ row.status # "running")
=============================================================================
