----------------------------- MODULE ChatMemory -----------------------------
(***************************************************************************)
(* One chat's messages in both of its memories, and the replies made from   *)
(* them: save_message, reply, wait_for_media_desc, perceive_and_persist and *)
(* persist_bot_reply of bot/handlers.rs, over the window of WorkingWindow.  *)
(*                                                                         *)
(* A message is a row of SQLite before it is an entry of the window.  A     *)
(* perception task writes the description into the row(s) of its message,   *)
(* then into the window; a reply reads the window first and, for a message  *)
(* with media, then polls the row for up to eight seconds.                  *)
(*                                                                         *)
(* When the bot restarts, its tasks are gone, and Telegram delivers again   *)
(* every update that was not confirmed, whether it was handled or not; the  *)
(* confirmed ones still waiting in the chat's queue are lost.               *)
(***************************************************************************)
EXTENDS WorkingWindow

VARIABLES rows,      \* descriptions of the rows of each message, oldest row first
          posts,     \* ids of the users' messages, in order
          described, \* messages whose perception task has run its UPDATE
          reply      \* the reply the worker is making

memoryVars == <<vars, rows, posts, described, reply>>

(* at: "window" before get_window, "media" while polling, "model" after that; *)
(* context: the messages quoted to the model; sees: the description used.     *)
NoReply == [at |-> "none", to |-> 0, context |-> <<>>, sees |-> NoDesc]

MemoryInit ==
  /\ Init
  /\ rows = [id \in Ids |-> <<>>]
  /\ posts = <<>>
  /\ described = {}
  /\ reply = NoReply

WithRow(r, id) == [r EXCEPT ![id] = Append(@, NoDesc)]

Asked(id, answer) == reply' = IF answer THEN [NoReply EXCEPT !.at = "window", !.to = id]
                              ELSE NoReply

UserWrites ==
  /\ UserPosts
  /\ posts' = Append(posts, lastId')
  /\ UNCHANGED <<rows, described, reply>>

(* A message with an author and text or media: row, then window. *)
SaveAndPush(media, answer) ==
  /\ HandleMessage(media, answer)
  /\ rows' = WithRow(rows, Head(inbox))
  /\ described' = described \ {Head(inbox)}
  /\ Asked(Head(inbox), answer)
  /\ UNCHANGED posts

(* Without an author there is neither a row nor an entry, without text and   *)
(* media only a row; the message may be answered all the same.               *)
SaveWithoutPush(media, answer) ==
  /\ HandleUnpushed(media, answer)
  /\ \/ rows' = rows
     \/ ~media /\ rows' = WithRow(rows, Head(inbox))
  /\ described' = described \ {Head(inbox)}
  /\ Asked(Head(inbox), answer)
  /\ UNCHANGED posts

SaveFails ==
  /\ \/ HandleUnsaved /\ rows' \in {rows, WithRow(rows, Head(inbox))}
     \/ HandlePushLost /\ rows' = WithRow(rows, Head(inbox))
  /\ UNCHANGED <<posts, described, reply>>

(* A message is known to have media by the perception task it got. *)
HasMedia(id) == patch[id] # Idle

(* The filter on the id of the message to answer. *)
Quoted(ids, to) == SelectSeq(ids, LAMBDA id : id # to)

(* Mutant of Context: the newest entry is taken for the current message. *)
ContextOfOlder == IF window = <<>> THEN <<>> ELSE Tail(EntryIds(window))

(* get_window without every entry of the message to answer. *)
Context == Quoted(EntryIds(window), reply.to)

(* An error of get_window is answered without context. *)
ReadWindow ==
  /\ reply.at = "window"
  /\ \/ reply' = [reply EXCEPT !.at = IF HasMedia(reply.to) THEN "media" ELSE "model",
                               !.context = Context]
        /\ UNCHANGED vars
     \/ /\ Fault
        /\ reply' = [reply EXCEPT !.at = IF HasMedia(reply.to) THEN "media" ELSE "model"]
        /\ UNCHANGED <<inbox, lastId, worker, window, patch, pushed, raced>>
  /\ UNCHANGED <<rows, posts, described>>

(* Some row of the message (LIMIT 1, in no order) has a description. *)
SeeDescription ==
  /\ reply.at = "media"
  /\ \E k \in DOMAIN rows[reply.to] :
       /\ rows[reply.to][k] # NoDesc
       /\ reply' = [reply EXCEPT !.at = "model", !.sees = rows[reply.to][k]]
  /\ UNCHANGED <<vars, rows, posts, described>>

(* Mutant of WaitOver: the poll goes on until there is a description. *)
WaitOverNever ==
  /\ reply.at = "media"
  /\ ~\E k \in DOMAIN rows[reply.to] : rows[reply.to][k] = NoDesc
  /\ reply' = [reply EXCEPT !.at = "model"]
  /\ UNCHANGED <<vars, rows, posts, described>>

(* Eight seconds have passed, or the query failed: answered blind. *)
WaitOver ==
  /\ reply.at = "media"
  /\ reply' = [reply EXCEPT !.at = "model"]
  /\ UNCHANGED <<vars, rows, posts, described>>

(* The answer is sent and persisted: row, then window. *)
SendReply ==
  /\ reply.at = "model"
  /\ BotReply
  /\ rows' = WithRow(rows, lastId')
  /\ reply' = NoReply
  /\ UNCHANGED <<posts, described>>

(* Sent, but the answer of Telegram or of a store is an error. *)
SendReplyUnsaved ==
  /\ reply.at = "model"
  /\ BotReplyUnsaved
  /\ rows' \in {rows, WithRow(rows, lastId')}
  /\ reply' = NoReply
  /\ UNCHANGED <<posts, described>>

(* The model fails or has nothing to say, or the answer cannot be sent. *)
DropReply ==
  /\ reply.at = "model"
  /\ ReplyFails
  /\ reply' = NoReply
  /\ UNCHANGED <<rows, posts, described>>

(* Mutant of DescribeRow: UPDATE ... WHERE chat_id = ?. *)
DescribeRowOfChat(id) ==
  /\ patch[id].at = "describing"
  /\ id \notin described
  /\ rows' = [m \in Ids |-> [k \in DOMAIN rows[m] |-> id]]
  /\ described' = described \cup {id}
  /\ UNCHANGED <<vars, posts, reply>>

(* Mutant of DescribeRow: an UPDATE of nothing, by a row id taken too early. *)
DescribeRowLost(id) ==
  /\ patch[id].at = "describing"
  /\ id \notin described
  /\ described' = described \cup {id}
  /\ UNCHANGED <<vars, rows, posts, reply>>

(* perceive_media has a description: UPDATE of every row of the message. *)
DescribeRow(id) ==
  /\ patch[id].at = "describing"
  /\ id \notin described
  /\ rows' = [rows EXCEPT ![id] = [k \in DOMAIN @ |-> id]]
  /\ described' = described \cup {id}
  /\ UNCHANGED <<vars, posts, reply>>

(* The row first, then the window; an error of the UPDATE ends the task. *)
PatchWindow(id) ==
  /\ \/ id \in described /\ (PatchFind(id) \/ PatchSet(id))
     \/ PerceptionFails(id)
  /\ UNCHANGED <<rows, posts, described, reply>>

ExpireWindow == WindowExpires /\ UNCHANGED <<rows, posts, described, reply>>

(* MaxFaults bounds the restarts too. *)
Restart ==
  /\ Fault
  /\ \E confirmed \in 0..Len(posts) :
       inbox' = SubSeq(posts, confirmed + 1, Len(posts))
  /\ worker' = "idle"
  /\ reply' = NoReply
  /\ patch' = [id \in Ids |-> Idle]
  /\ described' = {}
  /\ UNCHANGED <<lastId, window, pushed, raced, rows, posts>>

(* What the chat's worker does about a message it has taken. *)
ReplyStep ==
  \/ ReadWindow \/ SeeDescription \/ WaitOver
  \/ SendReply \/ SendReplyUnsaved \/ DropReply

MemoryNext ==
  \/ UserWrites
  \/ \E media, answer \in BOOLEAN : SaveAndPush(media, answer) \/ SaveWithoutPush(media, answer)
  \/ SaveFails
  \/ ReplyStep
  \/ \E id \in Ids : DescribeRow(id) \/ PatchWindow(id)
  \/ ExpireWindow
  \/ Restart

MemorySpec == MemoryInit /\ [][MemoryNext]_memoryVars

(* The worker does not stop in the middle of a reply: every call it awaits   *)
(* answers or times out.                                                     *)
FairMemorySpec == MemorySpec /\ WF_memoryVars(ReplyStep)

-----------------------------------------------------------------------------

(* Rows and replies stay in their ranges, and a reply is under way exactly   *)
(* while the worker makes one.                                               *)
MemoryTypeOK ==
  /\ rows \in [Ids -> Seq(Ids \cup {NoDesc})]
  /\ posts \in Seq(Ids)
  /\ described \subseteq Ids
  /\ reply.at \in {"none", "window", "media", "model"}
  /\ reply.to \in Ids \cup {0}
  /\ reply.sees \in Ids \cup {NoDesc}
  /\ reply.at = "none" <=> worker = "idle"

(* The window is never ahead of the table: each of its entries has a row, and *)
(* a description it shows is also in a row of the message, across restarts,   *)
(* redeliveries and lost pushes (handlers.rs:137-248 and 648-705).            *)
RowsBehindWindow ==
  \A i \in DOMAIN window :
    /\ rows[window[i].id] # <<>>
    /\ window[i].desc # NoDesc => window[i].desc \in ToSet(rows[window[i].id])

(* No window entry, no row and no reply ever uses the description of another   *)
(* message (handlers.rs:598-643 and 670-681, working.rs:92-108).              *)
OwnDescriptions ==
  /\ DescBelongs
  /\ \A id \in Ids : ToSet(rows[id]) \subseteq {id, NoDesc}
  /\ reply.sees \in {reply.to, NoDesc}

(* As long as no patch overwrote an entry, a reply quotes exactly what was    *)
(* pushed just before it was asked for, never the question itself, however    *)
(* often that was delivered, and nothing pushed while it waited; or, when     *)
(* get_window failed, nothing (handlers.rs:250-274).                          *)
ContextIsRecent ==
  ~raced /\ reply.at \in {"media", "model"} =>
    reply.context \in {<<>>, Quoted(Newest(pushed), reply.to)}

(* A reply that was begun ends, whatever becomes of the perception it waits   *)
(* for (handlers.rs:604-642).                                                 *)
ReplyEnds == (worker = "replying") ~> (worker = "idle")
=============================================================================
