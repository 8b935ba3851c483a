----------------------------- MODULE RateLimit -----------------------------
(***************************************************************************)
(* The two gates in front of a reply: rate_limit_pass of bot/handlers.rs   *)
(* over check_user_cooldown and check_chat_quota of storage/redis.rs.      *)
(*                                                                         *)
(* One worker per chat takes the chat's messages one at a time; workers of *)
(* different chats run concurrently and may see the same user.  TTLs are   *)
(* counted down in ticks, so that a run of any length has finitely many    *)
(* states.                                                                 *)
(*                                                                         *)
(* Names that VisionSlots uses as well carry "Rate": RedisCountersProofs   *)
(* extends both modules.                                                   *)
(***************************************************************************)
EXTENDS Naturals, FiniteSets, Functions

CONSTANTS Users, Chats,
          Cooldown,     \* ratelimit.user_cooldown_sec, in ticks; 0 disables
          Quotas,       \* values of ratelimit.chat_max_per_min
          Minute,       \* the 60 seconds of the quota key, in ticks
          MaxRateFaults \* bound on failed commands and crashes

ASSUME RateAssumption ==
  /\ IsFiniteSet(Users) /\ IsFiniteSet(Chats)
  /\ Cooldown \in Nat /\ Quotas \subseteq Nat /\ Minute \in Nat \ {0}
  /\ MaxRateFaults \in Nat

VARIABLES chatMax,    \* the quota of this process; 0 disables it
          userTtl,    \* rl:user:<id>: remaining TTL, 0 when absent
          chatCount,  \* rl:chat:<id>: counter, 0 when absent
          chatTtl,    \* its remaining TTL, 0 when it has none
          worker,     \* where rate_limit_pass of each chat stands
          passAge,    \* ticks since the user last passed the cooldown (saturating)
          recent,     \* replies let through in each chat, by age in ticks
          bare,       \* chats whose counter a fault left without TTL
          rateFaults  \* failed commands and crashes so far

rateVars == <<chatMax, userTtl, chatCount, chatTtl, worker, passAge, recent, bare, rateFaults>>

Ages == 0..(Minute - 1)

RateInit ==
  /\ chatMax \in Quotas
  /\ userTtl = [u \in Users |-> 0]
  /\ chatCount = [c \in Chats |-> 0]
  /\ chatTtl = [c \in Chats |-> 0]
  /\ worker = [c \in Chats |-> "idle"]
  /\ passAge = [u \in Users |-> Cooldown]
  /\ recent = [c \in Chats |-> [a \in Ages |-> 0]]
  /\ bare = {}
  /\ rateFaults = 0

Go(c, step) == worker' = [worker EXCEPT ![c] = step]

(* rate_limit_pass returned true: the reply starts now.  Replies are counted *)
(* only while a quota bounds them.                                          *)
LetThrough(c) ==
  /\ Go(c, "idle")
  /\ recent' = IF chatMax = 0 THEN recent ELSE [recent EXCEPT ![c][0] = @ + 1]

(* Above chatMax all values of the counter act alike. *)
Increased(n) == IF n > chatMax THEN n ELSE n + 1

(* Mutant of CooldownFree: SET EX without NX always answers OK. *)
CooldownFreeWithoutNX(u) == TRUE

(* SET rl:user NX EX answers OK, or the gate is disabled. *)
CooldownFree(u) == Cooldown = 0 \/ userTtl[u] = 0

UserPasses(c, u) ==
  /\ worker[c] = "idle"
  /\ CooldownFree(u)
  /\ userTtl' = [userTtl EXCEPT ![u] = Cooldown]
  /\ passAge' = [passAge EXCEPT ![u] = 0]
  /\ Go(c, "quota")
  /\ UNCHANGED <<chatMax, chatCount, chatTtl, recent, bare, rateFaults>>

(* A message without an author skips the user gate.  (A user on cooldown is *)
(* dropped without any change of state.)                                    *)
Anonymous(c) ==
  /\ worker[c] = "idle"
  /\ Go(c, "quota")
  /\ UNCHANGED <<chatMax, userTtl, chatCount, chatTtl, passAge, recent, bare, rateFaults>>

QuotaDisabled(c) ==
  /\ worker[c] = "quota"
  /\ chatMax = 0
  /\ LetThrough(c)
  /\ UNCHANGED <<chatMax, userTtl, chatCount, chatTtl, passAge, bare, rateFaults>>

(* INCR answered 1: the window's first hit sets the TTL next. *)
QuotaFirst(c) ==
  /\ worker[c] = "quota"
  /\ chatMax > 0
  /\ chatCount[c] = 0
  /\ chatCount' = [chatCount EXCEPT ![c] = 1]
  /\ Go(c, "expire")
  /\ UNCHANGED <<chatMax, userTtl, chatTtl, passAge, recent, bare, rateFaults>>

(* Mutant of WithinQuota: `<` and `<=` mixed up. *)
WithinQuotaOffByOne(n) == n < chatMax + 2

WithinQuota(n) == n <= chatMax

QuotaNext(c) ==
  /\ worker[c] = "quota"
  /\ chatMax > 0
  /\ chatCount[c] > 0
  /\ chatCount' = [chatCount EXCEPT ![c] = Increased(@)]
  /\ \/ WithinQuota(chatCount[c] + 1) /\ LetThrough(c)
     \/ ~WithinQuota(chatCount[c] + 1) /\ Go(c, "idle") /\ UNCHANGED recent
  /\ UNCHANGED <<chatMax, userTtl, chatTtl, passAge, bare, rateFaults>>

(* Mutant of QuotaExpire: EXPIRE is forgotten. *)
QuotaExpireForgotten(c) ==
  /\ worker[c] = "expire"
  /\ LetThrough(c)
  /\ UNCHANGED <<chatMax, userTtl, chatCount, chatTtl, passAge, bare, rateFaults>>

QuotaExpire(c) ==
  /\ worker[c] = "expire"
  /\ chatTtl' = [chatTtl EXCEPT ![c] = Minute]
  /\ LetThrough(c)
  /\ UNCHANGED <<chatMax, userTtl, chatCount, passAge, bare, rateFaults>>

(* A tick of the clock: TTLs run down, an expired key is gone. *)
Tick ==
  /\ userTtl' = [u \in Users |-> IF userTtl[u] = 0 THEN 0 ELSE userTtl[u] - 1]
  /\ chatTtl' = [c \in Chats |-> IF chatTtl[c] = 0 THEN 0 ELSE chatTtl[c] - 1]
  /\ chatCount' = [c \in Chats |-> IF chatTtl[c] = 1 THEN 0 ELSE chatCount[c]]
  /\ passAge' = [u \in Users |-> IF passAge[u] = Cooldown THEN Cooldown ELSE passAge[u] + 1]
  /\ recent' = [c \in Chats |-> [a \in Ages |-> IF a = 0 THEN 0 ELSE recent[c][a - 1]]]
  /\ UNCHANGED <<chatMax, worker, bare, rateFaults>>

-----------------------------------------------------------------------------
(* Faults.  An error of either gate is logged and the reply skipped.        *)

RateFault == rateFaults < MaxRateFaults /\ rateFaults' = rateFaults + 1

(* SET NX EX applied, reply lost. *)
CooldownLost(c, u) ==
  /\ RateFault
  /\ worker[c] = "idle"
  /\ Cooldown > 0 /\ userTtl[u] = 0
  /\ userTtl' = [userTtl EXCEPT ![u] = Cooldown]
  /\ UNCHANGED <<chatMax, chatCount, chatTtl, worker, passAge, recent, bare>>

(* INCR or EXPIRE failed, applied or not. *)
QuotaLost(c) ==
  /\ RateFault
  /\ chatMax > 0
  /\ \/ /\ worker[c] = "quota"
        /\ chatCount' = [chatCount EXCEPT ![c] = Increased(@)]
        /\ bare' = IF chatCount[c] = 0 THEN bare \cup {c} ELSE bare
        /\ UNCHANGED chatTtl
     \/ /\ worker[c] = "expire"
        /\ chatTtl' = [chatTtl EXCEPT ![c] = Minute]
        /\ UNCHANGED <<chatCount, bare>>
     \/ /\ worker[c] = "quota"
        /\ UNCHANGED <<chatCount, chatTtl, bare>>
     \/ /\ worker[c] = "expire"
        /\ bare' = bare \cup {c}
        /\ UNCHANGED <<chatCount, chatTtl>>
  /\ Go(c, "idle")
  /\ UNCHANGED <<chatMax, userTtl, passAge, recent>>

(* The bot restarts; Redis keeps the keys. *)
Restart ==
  /\ RateFault
  /\ worker' = [c \in Chats |-> "idle"]
  /\ bare' = bare \cup {c \in Chats : worker[c] = "expire"}
  /\ UNCHANGED <<chatMax, userTtl, chatCount, chatTtl, passAge, recent>>

WorkerStep(c) == QuotaDisabled(c) \/ QuotaFirst(c) \/ QuotaNext(c) \/ QuotaExpire(c)

RateNext ==
  \/ \E c \in Chats, u \in Users : UserPasses(c, u) \/ CooldownLost(c, u)
  \/ \E c \in Chats : Anonymous(c) \/ WorkerStep(c) \/ QuotaLost(c)
  \/ Tick
  \/ Restart

RateSpec == RateInit /\ [][RateNext]_rateVars

(* The clock runs, and a command that was sent is answered or fails. *)
FairRateSpec == RateSpec /\ WF_rateVars(Tick) /\ \A c \in Chats : WF_rateVars(WorkerStep(c))

-----------------------------------------------------------------------------

(* Replies let through in a chat during the last Minute. *)
Replies(c) == SumFunction(recent[c])

(* Every variable stays in its range, and only a key with a counter has a TTL. *)
RateTypeOK ==
  /\ chatMax \in Quotas
  /\ userTtl \in [Users -> 0..Cooldown]
  /\ chatCount \in [Chats -> 0..(chatMax + 1)]
  /\ chatTtl \in [Chats -> 0..Minute]
  /\ worker \in [Chats -> {"idle", "quota", "expire"}]
  /\ passAge \in [Users -> 0..Cooldown]
  /\ recent \in [Chats -> [Ages -> Nat]]
  /\ bare \subseteq Chats
  /\ rateFaults \in 0..MaxRateFaults
  /\ \A c \in Chats : chatTtl[c] > 0 => chatCount[c] > 0

(* A user passes the cooldown at most once per Cooldown, whichever chats and   *)
(* however concurrently he writes in (redis.rs:20-51, one atomic SET NX EX).  *)
UserSpacing ==
  [][\A c \in Chats, u \in Users : UserPasses(c, u) => passAge[u] = Cooldown]_rateVars

(* A fixed window of one Minute lets fewer than two quotas of replies through  *)
(* in any Minute, wherever that minute starts, and whatever failed or crashed  *)
(* (redis.rs:207-231).                                                        *)
RollingBound == chatMax > 0 => \A c \in Chats : Replies(c) <= 2 * chatMax - 1

(* A chat that used up its quota gets a new one, unless a fault separated the  *)
(* first INCR from its EXPIRE (redis.rs:222-229).                             *)
QuotaReopens ==
  \A c \in Chats : []<>(chatMax = 0 \/ c \in bare \/ chatCount[c] < chatMax)
=============================================================================
