---------------------------- MODULE AiScriptProofs ----------------------------
(***************************************************************************)
(* Theorems about AiScript, for any number of workers, plays and members:  *)
(* the row lock of script_step keeps a worker's view of the row current,   *)
(* so a play says its lines in order and an old play says nothing.         *)
(***************************************************************************)
EXTENDS AiScript, TLAPS

(* FOR UPDATE: one step at a time, and the row is as that step read it.    *)
Locked ==
  \A w \in Workers : step[w] # Nobody =>
    /\ step[w].row = row
    /\ \A v \in Workers : step[v] # Nobody => v = w

(* Tokens are not given twice, and only a play that was started has lines. *)
TokensAreFresh ==
  /\ row.token <= plays
  /\ \A t \in Tokens : t > plays => said[t] = <<>>

(* The cursor of a play is behind all it has said.                         *)
SaidBefore ==
  \A t \in Tokens : row.token = t => \A i \in 1..Len(said[t]) : said[t][i] < row.cursor

Played == Locked /\ TokensAreFresh /\ SaidBefore /\ LinesInOrder

IInv == TypeOK /\ Played

-----------------------------------------------------------------------------
(* Types.                                                                  *)

LEMMA SendTyped ==
  ASSUME TypeOK, NEW t \in Tokens, Send(t)
  PROVE  tasks' \in [Tokens -> 0..MaxTasks]
<1>1. \A u \in Tokens : tasks[u] \in 0..MaxTasks
  BY DEF TypeOK
<1> QED BY <1>1, ConstantsAssumption DEF Send, TypeOK

LEMMA FreeTyped ==
  ASSUME TypeOK, NEW w \in Workers, Free(w)
  PROVE  /\ step' \in [Workers -> [token : Tokens, row : Rows] \cup {Nobody}]
         /\ \A v \in Workers : step'[v] = IF v = w THEN Nobody ELSE step[v]
BY DEF Free, TypeOK

LEMMA NoTokenTyped == NoToken \in 0..MaxPlays
BY ConstantsAssumption DEF NoToken

LEMMA OverTyped == ASSUME NEW r \in Rows PROVE Over(r) \in Rows
BY NoTokenTyped DEF Over, Rows

(* The cursor moves: what Say and Skip do to the row and the tasks.        *)
LEMMA AdvanceTyped ==
  ASSUME TypeOK, Locked, NEW w \in Workers, step[w] # Nobody, Advance(w)
  PROVE  /\ row' \in Rows /\ tasks' \in [Tokens -> 0..MaxTasks]
         /\ row'.cursor = row.cursor + 1 /\ row'.token \in {row.token, NoToken}
<1>1. step[w].row = row /\ step[w].token \in Tokens /\ row \in Rows
  BY DEF Locked, TypeOK
<1>2. row.cursor + 1 \in Nat
  BY <1>1 DEF Rows
<1>3. CASE row.cursor + 1 > Len(row.lines)
  <2>1. row' = [Over(row) EXCEPT !.cursor = row.cursor + 1] /\ UNCHANGED tasks
    BY <1>1, <1>3 DEF Advance
  <2>2. Over(row) \in Rows /\ Over(row).token = NoToken
    BY <1>1, OverTyped DEF Over, Rows
  <2>3. row' \in Rows /\ row'.cursor = row.cursor + 1 /\ row'.token = NoToken
    BY <1>2, <2>1, <2>2 DEF Rows
  <2> QED BY <2>1, <2>3 DEF TypeOK
<1>4. CASE ~(row.cursor + 1 > Len(row.lines))
  <2>1. row' = [row EXCEPT !.cursor = row.cursor + 1] /\ Send(step[w].token)
    BY <1>1, <1>4 DEF Advance
  <2>2. row' \in Rows /\ row'.cursor = row.cursor + 1 /\ row'.token = row.token
    BY <1>1, <1>2, <2>1 DEF Rows
  <2> QED BY <1>1, <2>1, <2>2, SendTyped
<1> QED BY <1>3, <1>4

LEMMA StepTyped == ASSUME TypeOK, Locked, [Next]_vars PROVE TypeOK'
<1> USE ConstantsAssumption
<1>1. ASSUME Start PROVE TypeOK'
  <2>1. plays' \in Tokens /\ plays' \in 0..MaxPlays
    BY <1>1 DEF Start, TypeOK, Tokens
  <2>2. row' \in Rows
    BY <1>1, <2>1 DEF Start, TypeOK, Rows
  <2> QED BY <1>1, <2>1, <2>2 DEF Start, TypeOK
<1>2. ASSUME Stop PROVE TypeOK'
  <2>1. row' \in Rows
    BY <1>2, NoTokenTyped DEF Stop, TypeOK, Rows
  <2> QED BY <1>2, <2>1 DEF Stop, TypeOK
<1>3. ASSUME DeleteScript PROVE TypeOK'
  <2>1. row' \in Rows
    BY <1>3 DEF DeleteScript, TypeOK, Rows
  <2> QED BY <1>3, <2>1 DEF DeleteScript, TypeOK
<1>4. ASSUME DeleteGroup PROVE TypeOK'
  <2>1. row' \in Rows
    BY <1>4 DEF DeleteGroup, TypeOK, Rows
  <2> QED BY <1>4, <2>1 DEF DeleteGroup, TypeOK
<1>5. ASSUME NEW t \in Tokens, StartSends(t) PROVE TypeOK'
  BY <1>5, SendTyped DEF StartSends, TypeOK
<1>6. ASSUME NEW t \in Tokens, StartDies(t) PROVE TypeOK'
  BY <1>6 DEF StartDies, TypeOK
<1>7. ASSUME NEW t \in Tokens, TaskLost(t) PROVE TypeOK'
  <2>1. tasks[t] - 1 \in 0..MaxTasks
    BY <1>7 DEF TaskLost, TypeOK
  <2> QED BY <1>7, <2>1 DEF TaskLost, TypeOK
<1>8. ASSUME NEW t \in Tokens, TaskRepeated(t) PROVE TypeOK'
  <2>1. repeats' \in 0..MaxRepeats
    BY <1>8 DEF TaskRepeated, TypeOK
  <2> QED BY <1>8, <2>1, SendTyped DEF TaskRepeated, TypeOK
<1>9. ASSUME NEW v \in Versions, SaveReads(v) PROVE TypeOK'
  BY <1>9 DEF SaveReads, TypeOK
<1>10. ASSUME NEW v \in Versions, SaveWrites(v) PROVE TypeOK'
  <2>1. row' \in Rows
    BY <1>10 DEF SaveWrites, TypeOK, Rows
  <2> QED BY <1>10, <2>1 DEF SaveWrites, TypeOK
<1>11. ASSUME NEW st \in {"active", "paused"}, SetGroup(st) PROVE TypeOK'
  BY <1>11 DEF SetGroup, TypeOK
<1>12. ASSUME NEW m \in Members, DeleteMember(m) \/ RunBegins(m) \/ RunEnds(m) PROVE TypeOK'
  BY <1>12 DEF DeleteMember, RunBegins, RunEnds, TypeOK
<1>13. ASSUME NEW w \in Workers, NEW t \in Tokens, Take(w, t) PROVE TypeOK'
  <2>1. tasks[t] - 1 \in 0..MaxTasks /\ [token |-> t, row |-> row] \in [token : Tokens, row : Rows]
    BY <1>13 DEF Take, TypeOK
  <2> QED BY <1>13, <2>1 DEF Take, TypeOK
<1>14. ASSUME NEW w \in Workers, Stopped(w) PROVE TypeOK'
  BY <1>14, FreeTyped DEF Stopped, TypeOK
<1>15. ASSUME NEW w \in Workers, Finished(w) PROVE TypeOK'
  BY <1>15, FreeTyped, OverTyped DEF Finished, TypeOK
<1>16. ASSUME NEW w \in Workers, Retry(w) PROVE TypeOK'
  <2>1. step[w].token \in Tokens
    BY <1>16 DEF Retry, MayGoOn, TypeOK
  <2> QED BY <1>16, <2>1, FreeTyped, SendTyped DEF Retry, TypeOK
<1>17. ASSUME NEW w \in Workers, Say(w) PROVE TypeOK'
  <2>1. step[w] # Nobody /\ step[w].token \in Tokens /\ Free(w) /\ Advance(w)
    BY <1>17 DEF Say, Advance, MayGoOn, TypeOK
  <2>2. step[w].row = row /\ row.cursor \in Nat
    BY <2>1 DEF Locked, TypeOK, Rows
  <2>3. said' \in [Tokens -> Seq(Nat)]
    BY <1>17, <2>1, <2>2 DEF Say, TypeOK
  <2>4. busy' \subseteq Members
    BY <1>17 DEF Say, TypeOK
  <2> QED BY <1>17, <2>1, <2>3, <2>4, FreeTyped, AdvanceTyped DEF Say, TypeOK
<1>18. ASSUME NEW w \in Workers, Skip(w) PROVE TypeOK'
  <2>1. step[w] # Nobody /\ Free(w) /\ Advance(w)
    BY <1>18 DEF Skip, Advance, MayGoOn
  <2> QED BY <1>18, <2>1, FreeTyped, AdvanceTyped DEF Skip, TypeOK
<1>19. ASSUME NEW w \in Workers, StepFails(w) PROVE TypeOK'
  <2>1. step[w].token \in Tokens
    BY <1>19 DEF StepFails, TypeOK
  <2>2. tasks' \in [Tokens -> 0..MaxTasks]
    BY <1>19, <2>1, SendTyped DEF StepFails, TypeOK
  <2>3. lost' \in BOOLEAN /\ repeats' \in 0..MaxRepeats
    BY <1>19 DEF StepFails, TypeOK
  <2> QED BY <1>19, <2>2, <2>3, FreeTyped DEF StepFails, TypeOK
<1>20. ASSUME UNCHANGED vars PROVE TypeOK'
  BY <1>20 DEF vars, TypeOK
<1> QED
  BY <1>1, <1>2, <1>3, <1>4, <1>5, <1>6, <1>7, <1>8, <1>9, <1>10, <1>11, <1>12, <1>13,
     <1>14, <1>15, <1>16, <1>17, <1>18, <1>19, <1>20 DEF Next, StepNext

-----------------------------------------------------------------------------
(* The lock, the token and the cursor.                                     *)

(* A step that leaves the row and what was said alone, and takes no lock.  *)
LEMMA QuietKeepsPlayed ==
  ASSUME TypeOK, Played, UNCHANGED <<row, plays, said>>,
         \A w \in Workers : step'[w] = Nobody \/ step'[w] = step[w]
  PROVE  Played'
BY DEF Played, Locked, TokensAreFresh, SaidBefore, LinesInOrder

(* A request writes the row only when no step holds it.                    *)
LEMMA RequestKeepsPlayed ==
  ASSUME TypeOK, Played, RowFree, UNCHANGED <<plays, step, said>>,
         row'.token \in {row.token, NoToken}, row'.cursor = row.cursor
  PROVE  Played'
<1>1. Locked'
  BY DEF Locked, RowFree
<1>2. NoToken <= plays /\ NoToken \notin Tokens
  BY DEF NoToken, Tokens, TypeOK
<1>3. TokensAreFresh' /\ SaidBefore' /\ LinesInOrder'
  BY <1>2 DEF Played, TokensAreFresh, SaidBefore, LinesInOrder
<1> QED BY <1>1, <1>3 DEF Played

(* The lock is released by a step that may have written the row.           *)
LEMMA FreeUnlocks ==
  ASSUME TypeOK, Locked, NEW w \in Workers, step[w] # Nobody, Free(w)
  PROVE  \A v \in Workers : step'[v] = Nobody
BY FreeTyped DEF Locked

LEMMA StartKeepsPlayed == ASSUME TypeOK, Played, Start PROVE Played'
<1>1. Locked'
  BY DEF Start, Locked, RowFree
<1>2. row'.token = plays + 1 /\ plays' = plays + 1 /\ plays + 1 \in Tokens /\ said' = said
  BY ConstantsAssumption DEF Start, TypeOK, Rows, Tokens
<1>3. said[plays + 1] = <<>>
  BY <1>2 DEF Played, TokensAreFresh, TypeOK
<1>4. TokensAreFresh'
  BY <1>2 DEF Played, TokensAreFresh, TypeOK, Tokens
<1>5. SaidBefore'
  <2> SUFFICES ASSUME NEW t \in Tokens, row'.token = t PROVE Len(said[t]) = 0
    BY <1>2 DEF SaidBefore
  <2> QED BY <1>2, <1>3
<1> QED BY <1>1, <1>2, <1>4, <1>5 DEF Played, LinesInOrder

(* A line is said at the cursor, which then moves past it.                 *)
LEMMA SayKeepsPlayed == ASSUME TypeOK, Played, NEW w \in Workers, Say(w) PROVE Played'
<1> DEFINE t == step[w].token
           c == row.cursor
<1>1. step[w] # Nobody /\ t \in Tokens /\ Free(w) /\ Advance(w) /\ IsCurrent(step[w])
  BY DEF Say, Advance, MayGoOn, TypeOK
<1>2. step[w].row = row /\ row.token = t /\ c \in Nat
  BY <1>1 DEF Played, Locked, IsCurrent, TypeOK, Rows
<1>3. said' = [said EXCEPT ![t] = Append(@, c)] /\ plays' = plays
  BY <1>2 DEF Say
<1>4. row'.cursor = c + 1 /\ row'.token \in {t, NoToken}
  BY <1>1, <1>2, AdvanceTyped DEF Played
<1> HIDE DEF t, c
<1>5. said[t] \in Seq(Nat) /\ said \in [Tokens -> Seq(Nat)]
  BY <1>1 DEF TypeOK
<1>6. /\ said'[t] = Append(said[t], c)
      /\ \A u \in Tokens : u # t => said'[u] = said[u]
  BY <1>1, <1>3, <1>5
<1>7. /\ Len(said'[t]) = Len(said[t]) + 1 /\ Len(said[t]) \in Nat
      /\ said'[t][Len(said[t]) + 1] = c
      /\ \A i \in 1..Len(said[t]) : said'[t][i] = said[t][i] /\ said[t][i] \in Nat
  BY <1>2, <1>5, <1>6
<1>8. \A i \in 1..Len(said[t]) : said[t][i] < c
  BY <1>1, <1>2 DEF Played, SaidBefore, c
<1>9. \A i \in 1..Len(said'[t]) : i \in 1..Len(said[t]) \/ i = Len(said[t]) + 1
  BY <1>7
<1>10. LinesInOrder'
  <2> SUFFICES ASSUME NEW u \in Tokens, NEW i \in 1..Len(said'[u]),
                      NEW j \in 1..Len(said'[u]), i < j
               PROVE  said'[u][i] < said'[u][j]
    BY DEF LinesInOrder
  <2>1. CASE u # t
    <3>1. said'[u] = said[u]
      BY <1>6, <2>1
    <3> QED BY <3>1 DEF Played, LinesInOrder
  <2>2. CASE u = t /\ j \in 1..Len(said[t])
    <3>1. i \in 1..Len(said[t])
      BY <1>7, <2>2
    <3>2. said[t][i] < said[t][j]
      BY <1>1, <2>2, <3>1 DEF Played, LinesInOrder
    <3> QED BY <1>7, <2>2, <3>1, <3>2
  <2>3. CASE u = t /\ j = Len(said[t]) + 1
    BY <1>7, <1>8, <2>3
  <2> QED BY <1>9, <2>1, <2>2, <2>3
<1>11. SaidBefore'
  <2> SUFFICES ASSUME NEW u \in Tokens, row'.token = u, NEW i \in 1..Len(said'[u])
               PROVE  said'[u][i] < row'.cursor
    BY DEF SaidBefore
  <2>1. u = t
    BY <1>4 DEF NoToken, Tokens
  <2>2. CASE i \in 1..Len(said[t])
    BY <1>2, <1>4, <1>7, <1>8, <2>1, <2>2
  <2>3. CASE i = Len(said[t]) + 1
    BY <1>2, <1>4, <1>7, <2>1, <2>3
  <2> QED BY <1>9, <2>1, <2>2, <2>3
<1>12. TokensAreFresh'
  <2>1. t <= plays /\ NoToken <= plays
    BY <1>2 DEF Played, TokensAreFresh, TypeOK, NoToken
  <2>2. row'.token <= plays'
    BY <1>3, <1>4, <2>1
  <2>3. ASSUME NEW u \in Tokens, u > plays PROVE said'[u] = <<>>
    <3>1. u # t /\ said[u] = <<>>
      BY <2>1, <2>3 DEF Played, TokensAreFresh, TypeOK, Tokens
    <3> QED BY <1>6, <3>1
  <2> QED BY <1>3, <2>2, <2>3 DEF TokensAreFresh
<1>13. Locked'
  BY <1>1, FreeUnlocks DEF Played, Locked
<1> QED BY <1>10, <1>11, <1>12, <1>13 DEF Played

(* A line that is passed over moves the cursor only.                       *)
LEMMA SkipKeepsPlayed == ASSUME TypeOK, Played, NEW w \in Workers, Skip(w) PROVE Played'
<1>1. step[w] # Nobody /\ Free(w) /\ Advance(w) /\ said' = said /\ plays' = plays
  BY DEF Skip, Advance, MayGoOn
<1>2. row'.cursor = row.cursor + 1 /\ row'.token \in {row.token, NoToken}
  BY <1>1, AdvanceTyped DEF Played
<1>3. NoToken <= plays /\ NoToken \notin Tokens /\ row.cursor \in Nat
  BY DEF NoToken, Tokens, TypeOK, Rows
<1>4. TokensAreFresh' /\ LinesInOrder'
  BY <1>1, <1>2, <1>3 DEF Played, TokensAreFresh, LinesInOrder
<1>5. SaidBefore'
  <2> SUFFICES ASSUME NEW t \in Tokens, row'.token = t, NEW i \in 1..Len(said[t])
               PROVE  said[t][i] < row'.cursor
    BY <1>1 DEF SaidBefore
  <2>1. row.token = t
    BY <1>2, <1>3
  <2>2. said[t][i] \in Nat /\ said[t][i] < row.cursor
    BY <2>1 DEF Played, SaidBefore, TypeOK
  <2> QED BY <1>2, <1>3, <2>2
<1>6. Locked'
  BY <1>1, FreeUnlocks DEF Played, Locked
<1> QED BY <1>4, <1>5, <1>6 DEF Played

LEMMA StepPlayed == ASSUME TypeOK, Played, [Next]_vars PROVE Played'
<1>1. ASSUME Start PROVE Played'
  BY <1>1, StartKeepsPlayed
<1>2. ASSUME Stop \/ DeleteScript \/ DeleteGroup PROVE Played'
  BY <1>2, RequestKeepsPlayed DEF Stop, DeleteScript, DeleteGroup, TypeOK, Rows
<1>3. ASSUME NEW v \in Versions, SaveWrites(v) PROVE Played'
  BY <1>3, RequestKeepsPlayed DEF SaveWrites, TypeOK, Rows
<1>4. ASSUME NEW t \in Tokens, StartSends(t) \/ StartDies(t) \/ TaskLost(t) \/ TaskRepeated(t)
      PROVE  Played'
  BY <1>4, QuietKeepsPlayed DEF StartSends, StartDies, TaskLost, TaskRepeated
<1>5. ASSUME NEW v \in Versions, SaveReads(v) PROVE Played'
  BY <1>5, QuietKeepsPlayed DEF SaveReads
<1>6. ASSUME NEW st \in {"active", "paused"}, SetGroup(st) PROVE Played'
  BY <1>6, QuietKeepsPlayed DEF SetGroup
<1>7. ASSUME NEW m \in Members, DeleteMember(m) \/ RunBegins(m) \/ RunEnds(m) PROVE Played'
  BY <1>7, QuietKeepsPlayed DEF DeleteMember, RunBegins, RunEnds
<1>8. ASSUME NEW w \in Workers, NEW t \in Tokens, Take(w, t) PROVE Played'
  <2>1. \A v \in Workers : step'[v] = IF v = w THEN [token |-> t, row |-> row] ELSE Nobody
    BY <1>8 DEF Take, RowFree, TypeOK
  <2>2. UNCHANGED <<row, plays, said>>
    BY <1>8 DEF Take
  <2>3. Locked'
    BY <2>1, <2>2 DEF Locked
  <2> QED BY <2>2, <2>3 DEF Played, TokensAreFresh, SaidBefore, LinesInOrder
<1>9. ASSUME NEW w \in Workers, Stopped(w) \/ Retry(w) \/ StepFails(w) PROVE Played'
  BY <1>9, FreeTyped, QuietKeepsPlayed DEF Stopped, Retry, StepFails
<1>10. ASSUME NEW w \in Workers, Finished(w) PROVE Played'
  <2>1. step[w] # Nobody /\ Free(w) /\ UNCHANGED <<plays, said>> /\ row' = Over(row)
    BY <1>10 DEF Finished
  <2>2. row'.token = NoToken
    BY <2>1 DEF Over, TypeOK, Rows
  <2>3. NoToken <= plays /\ NoToken \notin Tokens
    BY DEF NoToken, Tokens, TypeOK
  <2>4. Locked'
    BY <2>1, FreeUnlocks DEF Played, Locked
  <2> QED BY <2>1, <2>2, <2>3, <2>4 DEF Played, TokensAreFresh, SaidBefore, LinesInOrder
<1>11. ASSUME NEW w \in Workers, Say(w) PROVE Played'
  BY <1>11, SayKeepsPlayed
<1>12. ASSUME NEW w \in Workers, Skip(w) PROVE Played'
  BY <1>12, SkipKeepsPlayed
<1>13. ASSUME UNCHANGED vars PROVE Played'
  BY <1>13, QuietKeepsPlayed DEF vars
<1> QED
  BY <1>1, <1>2, <1>3, <1>4, <1>5, <1>6, <1>7, <1>8, <1>9, <1>10, <1>11, <1>12, <1>13
     DEF Next, StepNext

-----------------------------------------------------------------------------
(* Theorems.                                                               *)

LEMMA InitHolds == Init => IInv
<1> SUFFICES ASSUME Init PROVE IInv
  OBVIOUS
<1>1. row \in Rows
  BY ConstantsAssumption, NoTokenTyped DEF Init, Rows
<1>2. TypeOK
  <2>1. tasks \in [Tokens -> 0..MaxTasks] /\ plays \in 0..MaxPlays /\ talk \in 0..MaxTalk
        /\ repeats \in 0..MaxRepeats
    BY ConstantsAssumption DEF Init
  <2>2. said \in [Tokens -> Seq(Nat)]
    BY DEF Init
  <2>3. step \in [Workers -> [token : Tokens, row : Rows] \cup {Nobody}]
    BY DEF Init
  <2> QED BY <1>1, <2>1, <2>2, <2>3 DEF Init, TypeOK
<1>3. Played
  BY DEF Init, Played, Locked, TokensAreFresh, SaidBefore, LinesInOrder, NoToken, Tokens
<1> QED BY <1>2, <1>3 DEF IInv

LEMMA Invariant == Spec => []IInv
<1>1. Init => IInv
  BY InitHolds
<1>2. IInv /\ [Next]_vars => IInv'
  BY StepTyped, StepPlayed DEF IInv, Played
<1> QED BY <1>1, <1>2, PTL DEF Spec

(* The script's row, its tasks and the steps stay within their types.      *)
THEOREM TypeCorrect == Spec => []TypeOK
<1>1. IInv => TypeOK
  BY DEF IInv
<1> QED BY <1>1, Invariant, PTL

(* However tasks are repeated and workers interleave, each play says its   *)
(* lines in order, none twice.                                             *)
THEOREM InOrder == Spec => []LinesInOrder
<1>1. IInv => LinesInOrder
  BY DEF IInv, Played
<1> QED BY <1>1, Invariant, PTL

(* A step speaks for the play the row names at that moment, because the    *)
(* row it read is locked: a stopped or restarted play says nothing more.   *)
THEOREM OldPlaysAreSilent == Spec => OldPlayIsSilent
<1>1. ASSUME IInv, [Next]_vars, NEW t \in Tokens, said'[t] # said[t]
      PROVE  row.exists /\ row.status = "running" /\ row.token = t
  <2>1. PICK w \in Workers : Say(w)
    BY <1>1 DEF Next, StepNext, vars, Start, Stop, DeleteScript, DeleteGroup, StartSends,
       StartDies, TaskLost, TaskRepeated, SaveReads, SaveWrites, SetGroup, DeleteMember,
       RunBegins, RunEnds, Take, Stopped, Finished, Retry, Skip, StepFails
  <2>2. step[w].row = row /\ IsCurrent(step[w])
    BY <1>1, <2>1 DEF Say, MayGoOn, IInv, Played, Locked
  <2>3. step[w].token = t
    BY <1>1, <2>1 DEF Say, IInv, TypeOK
  <2> QED BY <2>2, <2>3 DEF IsCurrent
<1>2. IInv /\ [Next]_vars =>
        [\A t \in Tokens : said'[t] # said[t]
           => row.exists /\ row.status = "running" /\ row.token = t]_vars
  BY <1>1
<1> QED BY <1>2, Invariant, PTL DEF Spec, OldPlayIsSilent

=============================================================================
