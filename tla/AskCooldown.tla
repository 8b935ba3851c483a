---------------------------- MODULE AskCooldown ----------------------------
(***************************************************************************)
(* The cooldown of the paid /ask command: handle_ask of bot/commands.rs    *)
(* over check_ask_cooldown of storage/redis.rs, a TTL query and, one round *)
(* trip later, a SET EX.  An error of either counts as "no cooldown".      *)
(*                                                                         *)
(* A chat's worker handles one command at a time; the same user may ask in *)
(* several chats at once.  TTLs count down in ticks.                       *)
(***************************************************************************)
EXTENDS Naturals, FiniteSets

CONSTANTS Users, Chats,
          Nobody,      \* no user
          Minute,      \* the 60 seconds of the cooldown, in ticks
          MaxFaults    \* bound on failed commands

ASSUME AskAssumption ==
  /\ IsFiniteSet(Users) /\ IsFiniteSet(Chats)
  /\ Nobody \notin Users
  /\ Minute \in Nat \ {0} /\ MaxFaults \in Nat

VARIABLES ttl,       \* rl:ask:<id>: remaining TTL, 0 when absent
          asker,     \* the user whose /ask a chat's worker is between TTL and SET
          sinceAsk,  \* ticks since the user's last admitted /ask, by chat (saturating)
          faults

vars == <<ttl, asker, sinceAsk, faults>>

Init ==
  /\ ttl = [u \in Users |-> 0]
  /\ asker = [c \in Chats |-> Nobody]
  /\ sinceAsk = [c \in Chats |-> [u \in Users |-> Minute]]
  /\ faults = 0

Admit(c, u) == sinceAsk' = [sinceAsk EXCEPT ![c][u] = 0]

(* Mutant of OnCooldown: the last tick of a cooldown does not count. *)
OnCooldownButLast(u) == ttl[u] > 1

OnCooldown(u) == ttl[u] > 0

(* TTL says the user is free.  (On cooldown he is told to wait; no state of  *)
(* the cooldown changes.)                                                    *)
AskFree(c, u) ==
  /\ asker[c] = Nobody
  /\ ~OnCooldown(u)
  /\ asker' = [asker EXCEPT ![c] = u]
  /\ UNCHANGED <<ttl, sinceAsk, faults>>

(* SET EX, whatever the key holds by now, and the question goes to the model. *)
AskSet(c) ==
  /\ asker[c] # Nobody
  /\ ttl' = [ttl EXCEPT ![asker[c]] = Minute]
  /\ Admit(c, asker[c])
  /\ asker' = [asker EXCEPT ![c] = Nobody]
  /\ UNCHANGED faults

Tick ==
  /\ ttl' = [u \in Users |-> IF ttl[u] = 0 THEN 0 ELSE ttl[u] - 1]
  /\ sinceAsk' = [c \in Chats |-> [u \in Users |->
       IF sinceAsk[c][u] = Minute THEN Minute ELSE sinceAsk[c][u] + 1]]
  /\ UNCHANGED <<asker, faults>>

Fault == faults < MaxFaults /\ faults' = faults + 1

(* TTL fails: unwrap_or(0) admits the question and sets no cooldown. *)
TtlFails(c, u) ==
  /\ Fault
  /\ asker[c] = Nobody
  /\ Admit(c, u)
  /\ UNCHANGED <<ttl, asker>>

(* SET fails, applied or not: admitted all the same. *)
SetFails(c) ==
  /\ Fault
  /\ asker[c] # Nobody
  /\ ttl' \in {ttl, [ttl EXCEPT ![asker[c]] = Minute]}
  /\ Admit(c, asker[c])
  /\ asker' = [asker EXCEPT ![c] = Nobody]

(* The bot restarts; Redis keeps the keys. *)
Crash ==
  /\ asker' = [c \in Chats |-> Nobody]
  /\ UNCHANGED <<ttl, sinceAsk, faults>>

Next ==
  \/ \E c \in Chats, u \in Users : AskFree(c, u) \/ TtlFails(c, u)
  \/ \E c \in Chats : AskSet(c) \/ SetFails(c)
  \/ Tick
  \/ Crash

Spec == Init /\ [][Next]_vars

-----------------------------------------------------------------------------

(* Every variable stays in its range. *)
TypeOK ==
  /\ ttl \in [Users -> 0..Minute]
  /\ asker \in [Chats -> Users \cup {Nobody}]
  /\ sinceAsk \in [Chats -> [Users -> 0..Minute]]
  /\ faults \in 0..MaxFaults

(* While Redis answers, two questions a user asks in one chat are admitted at  *)
(* least a Minute apart, whatever he asks elsewhere and however often the bot *)
(* restarts (redis.rs:53-84).                                                 *)
AskSpacingInChat ==
  [][\A c \in Chats :
       AskSet(c) /\ faults = 0 => sinceAsk[c][asker[c]] = Minute]_vars
=============================================================================
