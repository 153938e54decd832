------------------------------- MODULE AiGroup -------------------------------
(***************************************************************************)
(* A group of accounts that chats (ai_service.py, ai_group_service.py):    *)
(* every worker reports the messages its account sees (/ai/event), and the *)
(* platform decides who answers, among its own members, whose answers are  *)
(* messages of the same group.                                             *)
(*                                                                         *)
(* Reports come from several accounts for the same message, in any order,  *)
(* more than once or not at all (Telethon runs its handlers side by side,  *)
(* and a report that fails is not made again).  handle_group_event finds   *)
(* the group without a lock, then locks and reloads its row and keeps the  *)
(* lock until it commits: from there on it is one step.                    *)
(***************************************************************************)
EXTENDS Naturals, Sequences, FiniteSets, SequencesExt

CONSTANTS
  Accounts,   (* accounts of the tenant                                    *)
  Bindings,   (* tg_ai_binding rows that may come to be                    *)
  Account,    (* Bindings -> the account the row makes a member            *)
  Handlers,   (* reports served at a time                                  *)
  ReplyMax,   (* members that answer a message nobody is named in, at most *)
  ChainMax,   (* bot_chain_max: own messages in a row that are answered    *)
  CacheSize,  (* messages the group's row remembers                        *)
  MaxRoom,    (* bound: messages of the group                              *)
  MaxTaken,   (* bound: messages taken in                                  *)
  Others,     (* who else writes: "person", "bot", "clone"                 *)
  Calls,      (* the accounts a person's message names or replies to       *)
  Nobody

ASSUME ConstantsAssumption ==
  /\ Account \in [Bindings -> Accounts]
  /\ ReplyMax \in Nat \ {0}
  /\ IsFiniteSet(Bindings)
  /\ ChainMax \in Nat /\ CacheSize \in Nat \ {0} /\ MaxRoom \in Nat
  /\ ChainMax <= CacheSize  (* at most 10, and 100 messages *)
  /\ MaxTaken \in Nat
  /\ Others \subseteq {"person", "bot", "clone"}
  /\ Calls \subseteq SUBSET Accounts
  /\ Accounts \cap {"person", "bot", "clone"} = {}

VARIABLES
  room,     (* the group's messages in Telegram: who wrote it, whom it calls *)
  cache,    (* tg_ai_group.recent_messages                                 *)
  members,  (* the group's bindings                                        *)
  joining,  (* add_member requests that found the account not a member     *)
  running,  (* bindings with a run that has not ended                      *)
  handler,  (* reports that have found the group, and what its row knew     *)
  taken,    (* history: the messages taken in, in order                    *)
  streak    (* history: runs started since the last message of others      *)

vars == <<room, cache, members, joining, running, handler, taken, streak>>

Message == [from : Accounts \cup Others, called : SUBSET Accounts]
Entry   == [mid : 1..MaxRoom, ours : BOOLEAN]

TypeOK ==
  /\ room \in Seq(Message) /\ Len(room) <= MaxRoom
  /\ cache \in Seq(Entry) /\ Len(cache) <= CacheSize
  /\ members \subseteq Bindings /\ joining \subseteq Bindings
  /\ running \subseteq Bindings
  /\ handler \in [Handlers -> [mid : 1..MaxRoom, known : BOOLEAN] \cup {Nobody}]
  /\ taken \in Seq(1..MaxRoom)
  /\ streak \in Nat

Init ==
  /\ room = <<>> /\ cache = <<>>
  /\ members = {} /\ joining = {} /\ running = {}
  /\ handler = [h \in Handlers |-> Nobody]
  /\ taken = <<>> /\ streak = 0

-----------------------------------------------------------------------------
(* Telegram's side of the group.                                           *)

Write(who, called) ==
  /\ Len(room) < MaxRoom
  /\ room' = Append(room, [from |-> who, called |-> called])

OtherWrites(who, called) ==
  /\ who = "person" \/ called = {}
  /\ Write(who, called)
  /\ UNCHANGED <<cache, members, joining, running, handler, taken, streak>>

(* The run of a member ends: with its answer in the group, or without.     *)
RunAnswers(b) ==
  /\ b \in running
  /\ running' = running \ {b}
  /\ Write(Account[b], {})
  /\ UNCHANGED <<cache, members, joining, handler, taken, streak>>

RunEnds(b) ==
  /\ b \in running
  /\ running' = running \ {b}
  /\ UNCHANGED <<room, cache, members, joining, handler, taken, streak>>

-----------------------------------------------------------------------------
(* handle_group_event.                                                     *)

IsKnown(mid) == \E k \in DOMAIN cache : cache[k].mid = mid

(* _find_group, before the lock.                                           *)
Report(h, i) ==
  /\ handler[h] = Nobody /\ i \in DOMAIN room
  /\ handler' = [handler EXCEPT ![h] = [mid |-> i, known |-> IsKnown(i)]]
  /\ UNCHANGED <<room, cache, members, joining, running, taken, streak>>

KnownAtFirst(h) ==  \* mutation: the locked row is not reloaded
  handler[h].known

(* The row under the lock (populate_existing) has the message.             *)
IsRepeated(h) == IsKnown(handler[h].mid)

IsOurs(m) == m.from \in Accounts

(* _record_group_message.                                                  *)
Recorded(h) ==
  Append(cache, [mid |-> handler[h].mid, ours |-> IsOurs(room[handler[h].mid])])

Untrimmed(seq) ==  \* mutation: the row grows with every message
  seq

Trimmed(seq) == IF Len(seq) > CacheSize THEN Tail(seq) ELSE seq

(* The run of own messages the entry ends.                                 *)
Chain(seq) ==
  LET before == {0} \cup {k \in DOMAIN seq : ~seq[k].ours} IN Len(seq) - Max(before)

ChainUnbounded(seq) ==  \* mutation: off or on, not counted
  ChainMax > 0

ChainAllowed(seq) == ChainMax > 0 /\ Chain(seq) <= ChainMax

(* _pick_speakers: members that are not speaking; of an own message one,   *)
(* and not its author.  A paused group, the hour, a member's cooldown or   *)
(* state and the dice may rule out any of them, and all.                   *)
Speakers(m) ==
  {b \in members \ running : IsOurs(m) => Account[b] # m.from}

Called(m) == {b \in Speakers(m) : Account[b] \in m.called}

Wanted(m) == IF IsOurs(m) THEN 1 ELSE ReplyMax

Chosen(m) ==
  {c \in SUBSET Speakers(m) : \/ Cardinality(c) <= Wanted(m)
                              \/ ~IsOurs(m) /\ c \subseteq Called(m)}

Close(h) == handler' = [handler EXCEPT ![h] = Nobody]

(* Recorded before, by the report of another account.                      *)
Dedup(h) ==
  /\ handler[h] # Nobody /\ IsRepeated(h)
  /\ Close(h)
  /\ UNCHANGED <<room, cache, members, joining, running, taken, streak>>

IsAnswered(h) ==
  LET m == room[handler[h].mid] IN
  /\ m.from \notin {"bot", "clone"}
  /\ IsOurs(m) => ChainAllowed(Recorded(h))

Record(h) ==
  LET m == room[handler[h].mid] IN
  /\ handler[h] # Nobody /\ ~IsRepeated(h) /\ Len(taken) < MaxTaken
  /\ taken' = Append(taken, handler[h].mid)
  /\ cache' = Trimmed(Recorded(h))
  /\ \E c \in IF IsAnswered(h) THEN Chosen(m) ELSE {{}} :
       /\ running' = running \cup c
       /\ streak' = (IF IsOurs(m) THEN streak ELSE 0) + Cardinality(c)
  /\ Close(h)
  /\ UNCHANGED <<room, members, joining>>

(* The request fails: the worker logs it and goes on.                      *)
ReportFails(h) ==
  /\ handler[h] # Nobody
  /\ Close(h)
  /\ UNCHANGED <<room, cache, members, joining, running, taken, streak>>

-----------------------------------------------------------------------------
(* warmup_group (the tick, or the console's button) and the lines of a     *)
(* script make a member speak whom no message asked.                       *)
Unasked(b) ==
  /\ b \in members \ running
  /\ running' = running \cup {b}
  /\ UNCHANGED <<room, cache, members, joining, handler, taken, streak>>

-----------------------------------------------------------------------------
(* The console.                                                            *)

IsMember(a) == \E b \in members : Account[b] = a

(* add_member: between the check and the insert the account joins the      *)
(* group in Telegram, which takes seconds.                                 *)
AddMember(b) ==
  /\ b \notin members \cup joining /\ ~IsMember(Account[b])
  /\ joining' = joining \cup {b}
  /\ UNCHANGED <<room, cache, members, running, handler, taken, streak>>

Joined(b) ==
  /\ b \in joining
  /\ joining' = joining \ {b}
  /\ members' = members \cup {b}
  /\ UNCHANGED <<room, cache, running, handler, taken, streak>>

JoinFails(b) ==
  /\ b \in joining
  /\ joining' = joining \ {b}
  /\ UNCHANGED <<room, cache, members, running, handler, taken, streak>>

DeleteMember(b) ==
  /\ b \in members
  /\ members' = members \ {b}
  /\ UNCHANGED <<room, cache, joining, running, handler, taken, streak>>

HandlerNext(h) ==
  \/ \E i \in 1..MaxRoom : Report(h, i)
  \/ Dedup(h) \/ Record(h) \/ ReportFails(h)

MemberNext(b) ==
  \/ RunAnswers(b) \/ RunEnds(b) \/ Unasked(b)
  \/ AddMember(b) \/ Joined(b) \/ JoinFails(b) \/ DeleteMember(b)

Next ==
  \/ \E who \in Others, called \in Calls : OtherWrites(who, called)
  \/ \E h \in Handlers : HandlerNext(h)
  \/ \E b \in Bindings : MemberNext(b)

Spec == Init /\ [][Next]_vars

-----------------------------------------------------------------------------
(* However many accounts report a message at once, it is decided once:     *)
(* again only after CacheSize others (the lock and the reload of           *)
(* _find_group, the check of _record_group_message).                       *)
TakenOnce ==
  \A i, j \in DOMAIN taken : i < j /\ taken[i] = taken[j] => j - i > CacheSize

(* The members do not keep each other talking: between two messages of     *)
(* others, reports start a limited number of runs (_chain_allowed,         *)
(* _pick_speakers).                                                        *)
TalkDiesDown ==
  streak <= (IF ReplyMax > Cardinality(Bindings) THEN ReplyMax ELSE Cardinality(Bindings)) + ChainMax

(* Refuted: an account is a member once ("该账号已是本群成员").            *)
MemberOnce == \A b, c \in members : Account[b] = Account[c] => b = c
=============================================================================
