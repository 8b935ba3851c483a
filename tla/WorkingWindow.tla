--------------------------- MODULE WorkingWindow ---------------------------
(***************************************************************************)
(* The working memory of one chat: a Redis list, newest entry first, that  *)
(* the chat's worker pushes to (save_message and persist_bot_reply of      *)
(* bot/handlers.rs) while detached perception tasks patch descriptions     *)
(* into it (memory/working.rs).  A push is one MULTI transaction; a patch   *)
(* is a LRANGE followed, one round trip later, by a LSET on the position   *)
(* the entry was found at.                                                 *)
(*                                                                         *)
(* Telegram numbers the messages of a chat, the bot's own included, in the *)
(* order it accepts them.  The worker takes the chat's updates one at a    *)
(* time and answers inline, so users may write while it is replying.       *)
(***************************************************************************)
EXTENDS Naturals, Sequences, FiniteSets, SequencesExt

CONSTANTS WindowSize,   \* memory.working_window_size; 0 disables the window
          MaxId,        \* bound on the messages of the chat
          MaxFaults     \* bound on failing Redis and Telegram calls

ASSUME WindowAssumption ==
  WindowSize \in Nat /\ MaxId \in Nat /\ MaxFaults \in Nat

VARIABLES inbox,     \* ids of user messages the worker has not taken yet
          lastId,    \* last message id Telegram gave out
          worker,    \* "idle", or "replying" between the reply decision and its end
          window,    \* the Redis list, as [id, desc]
          patch,     \* perception task of each message
          pushed,    \* ids pushed since the key was created, newest first
          raced,     \* did a push come between the LRANGE and the LSET of a patch?
          faults

vars == <<inbox, lastId, worker, window, patch, pushed, raced, faults>>

Ids == 1..MaxId
NoDesc == 0                       \* media_desc: None
Idle == [at |-> "none"]           \* no perception task

(* A description is named after the message it describes. *)
Entry(id, desc) == [id |-> id, desc |-> desc]

EntryIds(w) == [i \in DOMAIN w |-> w[i].id]

Init ==
  /\ inbox = <<>>
  /\ lastId = 0
  /\ worker = "idle"
  /\ window = <<>>
  /\ patch = [id \in Ids |-> Idle]
  /\ pushed = <<>>
  /\ raced = FALSE
  /\ faults = 0

(* Mutant of Newest: LTRIM 0 window_size instead of window_size - 1. *)
NewestPlusOne(s) == SubSeq(s, 1, IF Len(s) <= WindowSize THEN Len(s) ELSE WindowSize + 1)

(* LTRIM key 0 window_size-1; with window_size = 0 nothing was ever pushed. *)
Newest(s) == SubSeq(s, 1, IF Len(s) < WindowSize THEN Len(s) ELSE WindowSize)

(* working::push: a patch between its LRANGE and its LSET now holds an old *)
(* position.                                                               *)
Push(id) ==
  /\ window' = Newest(<<Entry(id, NoDesc)>> \o window)
  /\ pushed' = <<id>> \o pushed

Shifted(p) == [id \in Ids |-> IF p[id].at = "found" THEN [p[id] EXCEPT !.shifted = TRUE]
                                                  ELSE p[id]]

(* A user writes; Telegram numbers the message and queues the update. *)
UserPosts ==
  /\ lastId < MaxId
  /\ lastId' = lastId + 1
  /\ inbox' = Append(inbox, lastId')
  /\ UNCHANGED <<worker, window, patch, pushed, raced, faults>>

Perceiving(p, id, media) ==
  [p EXCEPT ![id] = IF media THEN [at |-> "describing"] ELSE Idle]

(* handle_message for a message with text or media: push, spawn perception *)
(* for media, then decide on a reply.                                      *)
HandleMessage(media, answer) ==
  /\ worker = "idle"
  /\ inbox # <<>>
  /\ inbox' = Tail(inbox)
  /\ Push(Head(inbox))
  /\ patch' = Perceiving(Shifted(patch), Head(inbox), media)
  /\ worker' = IF answer THEN "replying" ELSE "idle"
  /\ UNCHANGED <<lastId, raced, faults>>

(* A message without an author is not saved at all, one without text or     *)
(* media is not pushed; handle_message goes on as for any other.            *)
HandleUnpushed(media, answer) ==
  /\ worker = "idle"
  /\ inbox # <<>>
  /\ inbox' = Tail(inbox)
  /\ patch' = Perceiving(patch, Head(inbox), media)
  /\ worker' = IF answer THEN "replying" ELSE "idle"
  /\ UNCHANGED <<lastId, window, pushed, raced, faults>>

Fault == faults < MaxFaults /\ faults' = faults + 1

(* save_message fails: no perception and no reply, whether the push that    *)
(* failed was applied by the server or not.                                 *)
HandleUnsaved ==
  /\ Fault
  /\ worker = "idle"
  /\ inbox # <<>>
  /\ inbox' = Tail(inbox)
  /\ UNCHANGED <<lastId, worker, window, patch, pushed, raced>>

HandlePushLost ==
  /\ Fault
  /\ worker = "idle"
  /\ inbox # <<>>
  /\ inbox' = Tail(inbox)
  /\ Push(Head(inbox))
  /\ patch' = Shifted(patch)
  /\ UNCHANGED <<lastId, worker, raced>>

(* The reply is sent, numbered by Telegram at that moment, and pushed. *)
BotReply ==
  /\ worker = "replying"
  /\ lastId < MaxId
  /\ lastId' = lastId + 1
  /\ Push(lastId')
  /\ patch' = Shifted(patch)
  /\ worker' = "idle"
  /\ UNCHANGED <<inbox, raced, faults>>

(* The reply is sent, persist_bot_reply fails before its push. *)
BotReplyUnsaved ==
  /\ Fault
  /\ worker = "replying"
  /\ lastId < MaxId
  /\ lastId' = lastId + 1
  /\ worker' = "idle"
  /\ UNCHANGED <<inbox, window, patch, pushed, raced>>

(* No reply after all: LLM error, empty completion, failed send. *)
ReplyFails ==
  /\ worker = "replying"
  /\ worker' = "idle"
  /\ UNCHANGED <<inbox, lastId, window, patch, pushed, raced, faults>>

(* Perception without a description (failed, oversized, busy), whose UPDATE *)
(* of SQLite failed, or that an error or a shutdown stops before its LSET.  *)
PerceptionFails(id) ==
  /\ patch[id].at \in {"describing", "found"}
  /\ patch' = [patch EXCEPT ![id] = [at |-> "failed"]]
  /\ UNCHANGED <<inbox, lastId, worker, window, pushed, raced, faults>>

PositionsOf(id) == {i \in DOMAIN window : window[i].id = id}

(* LRANGE 0 -1 and the search for the first entry of the message. *)
PatchFind(id) ==
  /\ patch[id].at = "describing"
  /\ \/ /\ PositionsOf(id) = {}
        /\ patch' = [patch EXCEPT ![id] = [at |-> "missed"]]
     \/ \E first \in PositionsOf(id) :
          /\ \A i \in PositionsOf(id) : first <= i
          /\ patch' = [patch EXCEPT ![id] =
               [at |-> "found", shifted |-> FALSE, pos |-> first]]
  /\ UNCHANGED <<inbox, lastId, worker, window, pushed, raced, faults>>

(* Mutant of PatchSet: the entry is written back without its description. *)
PatchSetUnchanged(id) ==
  /\ patch[id].at = "found"
  /\ window' = [window EXCEPT ![patch[id].pos] = Entry(id, NoDesc)]
  /\ raced' = (raced \/ patch[id].shifted)
  /\ patch' = [patch EXCEPT ![id] = [at |-> "patched"]]
  /\ UNCHANGED <<inbox, lastId, worker, pushed, faults>>

(* LSET of the whole entry, as read, with its description. *)
PatchSet(id) ==
  /\ patch[id].at = "found"
  /\ window' = [window EXCEPT ![patch[id].pos] = Entry(id, id)]
  /\ raced' = (raced \/ patch[id].shifted)
  /\ patch' = [patch EXCEPT ![id] = [at |-> "patched"]]
  /\ UNCHANGED <<inbox, lastId, worker, pushed, faults>>

(* The TTL (days) runs out on a silent chat: no perception is under way. *)
WindowExpires ==
  /\ window # <<>>
  /\ worker = "idle"
  /\ \A id \in Ids : patch[id].at \notin {"describing", "found"}
  /\ window' = <<>>
  /\ pushed' = <<>>
  /\ UNCHANGED <<inbox, lastId, worker, patch, raced, faults>>

Next ==
  \/ UserPosts
  \/ \E media, answer \in BOOLEAN : HandleMessage(media, answer)
  \/ \E media, answer \in BOOLEAN : HandleUnpushed(media, answer)
  \/ HandleUnsaved
  \/ HandlePushLost
  \/ BotReply
  \/ BotReplyUnsaved
  \/ ReplyFails
  \/ \E id \in Ids : PerceptionFails(id) \/ PatchFind(id) \/ PatchSet(id)
  \/ WindowExpires

Spec == Init /\ [][Next]_vars

-----------------------------------------------------------------------------

(* Every variable stays in its range, and a found position is one that exists. *)
TypeOK ==
  /\ inbox \in Seq(Ids)
  /\ lastId \in 0..MaxId
  /\ worker \in {"idle", "replying"}
  /\ window \in Seq([id : Ids, desc : Ids \cup {NoDesc}])
  /\ pushed \in Seq(Ids)
  /\ raced \in BOOLEAN
  /\ faults \in 0..MaxFaults
  /\ patch \in [Ids -> [at : {"none", "describing", "failed", "missed", "patched"}]
                       \cup [at : {"found"}, shifted : BOOLEAN, pos : DOMAIN window]]

(* As long as no push came between the two round trips of a patch, the window *)
(* is exactly the WindowSize newest pushes, whatever patches ran              *)
(* (working.rs:27-66 and 68-111).                                             *)
WindowIsTail ==
  ~raced => /\ Len(window) = IF Len(pushed) < WindowSize THEN Len(pushed) ELSE WindowSize
            /\ \A i \in DOMAIN window : window[i].id = pushed[i]

(* Even when the patch hits a moved position, no message ever carries the     *)
(* description of another one: LSET writes the entry it read as a whole       *)
(* (working.rs:92-108).                                                       *)
DescBelongs == \A i \in DOMAIN window : window[i].desc \in {NoDesc, window[i].id}

(* A description that was patched in stays for as long as its message is in   *)
(* the window, at the newest entry of the message: later patches of other     *)
(* messages do not undo it (working.rs:92).                                   *)
PatchSticks ==
  ~raced => \A i \in DOMAIN window :
              /\ patch[window[i].id].at = "patched"
              /\ \A j \in 1..i - 1 : window[j].id # window[i].id
              => window[i].desc = window[i].id

(* working.rs:73-77 says a push between LRANGE and LSET does not matter: at    *)
(* worst a neighbouring entry with the same id is patched.  So no LSET ever    *)
(* replaces the entry of another message.                                      *)
PatchHitsOwnEntry ==
  [][\A id \in Ids : PatchSet(id) => EntryIds(window') = EntryIds(window)]_vars
=============================================================================
