---------------------------- MODULE AnswerStream ----------------------------
(***************************************************************************)
(* What follows a question of /ask or /askfree: stream_to_chat of           *)
(* bot/commands.rs, run by the chat's worker behind the cooldown of         *)
(* AskCooldown.  A wait message is sent, the model's stream is started (up  *)
(* to three times), the wait message is edited while deltas arrive, and the *)
(* text is shown at last in chunks: the first replaces the wait message,    *)
(* the others are sent after it, each as HTML and, when that call reports   *)
(* an error, as plain text.                                                 *)
(*                                                                         *)
(* A delta is as long as a chunk here, and chunks are numbered.  A call of  *)
(* Telegram that is lost reports an error, whether it was applied or not.   *)
(***************************************************************************)
EXTENDS AskCooldown, Sequences, SequencesExt

CONSTANTS MaxParts,    \* bound on the chunks of an answer (max_tokens, in chunks)
          MaxLosses    \* bound on the lost Telegram calls of one answer

ASSUME AnswerAssumption == MaxParts \in Nat /\ MaxLosses \in Nat

VARIABLE answer   \* stream_to_chat of each chat, and what its messages show

answerVars == <<vars, answer>>

MaxAttempts == 3

(* head is what the wait message shows, tail the chunks sent after it. *)
NoAnswer == [stage |-> "none", attempt |-> 0, parts |-> 0, next |-> 1,
             head |-> "nothing", tail |-> <<>>, lost |-> 0]

AnswerInit == Init /\ answer = [c \in Chats |-> NoAnswer]

WorkerFree(c) == answer[c].stage \in {"none", "over"}

(* stream_to_chat is called. *)
Begin(c) == answer' = [answer EXCEPT ![c] = [NoAnswer EXCEPT !.stage = "greet"]]

(* One step of stream_to_chat leaves the cooldown's variables alone. *)
Becomes(c, a) == answer' = [answer EXCEPT ![c] = a] /\ UNCHANGED vars

Over(a) == [a EXCEPT !.stage = "over", !.next = 1]

At(c, stage) == answer[c].stage = stage

(* A lost call; the message shows either what it did or what was sent. *)
Lost(a) == [a EXCEPT !.lost = @ + 1]
MayLose(c) == answer[c].lost < MaxLosses

(* The wait message is sent; an error ends the question with it. *)
Greet(c) ==
  /\ At(c, "greet")
  /\ \/ Becomes(c, [answer[c] EXCEPT !.stage = "start", !.head = "wait"])
     \/ /\ MayLose(c)
        /\ \E head \in {"nothing", "wait"} :
             Becomes(c, [Over(Lost(answer[c])) EXCEPT !.head = head])

StreamStarts(c) ==
  /\ At(c, "start")
  /\ Becomes(c, [answer[c] EXCEPT !.stage = "read", !.attempt = 0])

(* Mutant of StartFails: every failure is retried. *)
StartFailsAgain(c) ==
  /\ At(c, "start")
  /\ Becomes(c, [answer[c] EXCEPT !.attempt = (@ + 1) % MaxAttempts])

(* 500 ms << attempt later it is tried again, until the attempts are used up. *)
StartFails(c) ==
  /\ At(c, "start")
  /\ IF answer[c].attempt + 1 < MaxAttempts
     THEN Becomes(c, [answer[c] EXCEPT !.attempt = @ + 1])
     ELSE Becomes(c, [answer[c] EXCEPT !.stage = "sorry", !.attempt = 0])

(* The last word on an answer without text, whose error changes nothing. *)
Verdict(c, stage, text) ==
  /\ At(c, stage)
  /\ \/ Becomes(c, [Over(answer[c]) EXCEPT !.head = text])
     \/ /\ MayLose(c)
        /\ \E head \in {answer[c].head, text} :
             Becomes(c, [Over(Lost(answer[c])) EXCEPT !.head = head])

Sorry(c) == Verdict(c, "sorry", "overloaded")
Blank(c) == Verdict(c, "blank", "empty")

Delta(c) ==
  /\ At(c, "read")
  /\ answer[c].parts < MaxParts
  /\ Becomes(c, [answer[c] EXCEPT !.parts = @ + 1])

(* The wait message is edited when a delta comes 1.5 s after the last edit; *)
(* whether that works is not looked at.                                     *)
Preview(c) ==
  /\ At(c, "read")
  /\ answer[c].head # "preview"
  /\ Becomes(c, [answer[c] EXCEPT !.head = "preview"])

(* Mutant of StreamEnds: an empty answer is shown like any other. *)
StreamEndsBlank(c) ==
  /\ At(c, "read")
  /\ Becomes(c, IF answer[c].parts = 0 THEN Over(answer[c])
                ELSE [answer[c] EXCEPT !.stage = "html"])

(* The stream ends or breaks: what came of the text is the answer. *)
StreamEnds(c) ==
  /\ At(c, "read")
  /\ Becomes(c, [answer[c] EXCEPT !.stage = IF answer[c].parts = 0 THEN "blank" ELSE "html"])

(* The first chunk is an edit of the wait message, the others are sent. *)
Shown(a) == IF a.next = 1 THEN [a EXCEPT !.head = "first"]
                          ELSE [a EXCEPT !.tail = Append(@, a.next)]

Advance(a) == IF a.next = a.parts THEN Over(a)
              ELSE [a EXCEPT !.stage = "html", !.next = @ + 1]

ShowHtml(c) == At(c, "html") /\ Becomes(c, Advance(Shown(answer[c])))

(* Mutant of HtmlRefused: the plain text follows an HTML chunk that was shown. *)
HtmlRefusedShown(c) ==
  /\ At(c, "html")
  /\ Becomes(c, [Shown(answer[c]) EXCEPT !.stage = "plain"])

(* Telegram cannot parse the markup of the model, or the call is lost: the *)
(* chunk is shown once more as plain text.                                 *)
HtmlRefused(c) ==
  /\ At(c, "html")
  /\ Becomes(c, [answer[c] EXCEPT !.stage = "plain"])

HtmlLost(c) ==
  /\ At(c, "html")
  /\ MayLose(c)
  /\ \E a \in {answer[c], Shown(answer[c])} :
       Becomes(c, [Lost(a) EXCEPT !.stage = "plain"])

ShowPlain(c) == At(c, "plain") /\ Becomes(c, Advance(Shown(answer[c])))

(* The error is logged and the next chunk follows. *)
PlainLost(c) ==
  /\ At(c, "plain")
  /\ MayLose(c)
  /\ \E a \in {answer[c], Shown(answer[c])} : Becomes(c, Advance(Lost(a)))

AnswerStep(c) ==
  \/ Greet(c)
  \/ StreamStarts(c) \/ StartFails(c)
  \/ Sorry(c) \/ Blank(c)
  \/ Delta(c) \/ Preview(c) \/ StreamEnds(c)
  \/ ShowHtml(c) \/ HtmlRefused(c) \/ HtmlLost(c)
  \/ ShowPlain(c) \/ PlainLost(c)

(* /askfree, and /ask of an administrator: no cooldown. *)
AskUnlimited(c) ==
  /\ WorkerFree(c)
  /\ asker[c] = Nobody
  /\ Begin(c)
  /\ UNCHANGED vars

(* /ask: TTL, then SET EX, then the answer; an error of either is passed over. *)
AskPaid(c) ==
  \/ /\ WorkerFree(c)
     /\ \E u \in Users : AskFree(c, u)
     /\ UNCHANGED answer
  \/ /\ WorkerFree(c)
     /\ \E u \in Users : TtlFails(c, u)
     /\ Begin(c)
  \/ /\ AskSet(c) \/ SetFails(c)
     /\ Begin(c)

(* The bot restarts: nobody goes on with the answers it was giving, whose    *)
(* messages stay as they are and are not followed any further.               *)
CrashAnswers ==
  /\ Crash
  /\ answer' = [c \in Chats |-> NoAnswer]

AnswerNext ==
  \/ \E c \in Chats : AskPaid(c) \/ AskUnlimited(c) \/ AnswerStep(c)
  \/ Tick /\ UNCHANGED answer
  \/ CrashAnswers

AnswerSpec == AnswerInit /\ [][AnswerNext]_answerVars

(* Redis, Telegram and the model answer or time out, so a worker that can go *)
(* on does.                                                                  *)
FairAnswerSpec ==
  /\ AnswerSpec
  /\ \A c \in Chats : /\ WF_answerVars(AnswerStep(c))
                      /\ WF_answerVars((AskSet(c) \/ SetFails(c)) /\ Begin(c))

-----------------------------------------------------------------------------

(* What the worker of a chat is doing and what its messages show stay in    *)
(* their ranges.                                                            *)
AnswerTypeOK ==
  \A c \in Chats :
    /\ answer[c].stage \in {"none", "greet", "start", "sorry", "read", "blank", "html",
                            "plain", "over"}
    /\ answer[c].attempt \in 0..MaxAttempts - 1
    /\ answer[c].parts \in 0..MaxParts
    /\ answer[c].next \in 1..MaxParts + 1
    /\ answer[c].head \in {"nothing", "wait", "preview", "overloaded", "empty", "first"}
    /\ answer[c].tail \in Seq(2..MaxParts)
    /\ answer[c].lost \in 0..MaxLosses

(* An answer none of whose calls was lost is shown whole: the wait message   *)
(* ends as its first chunk, followed by each other chunk once, or as the     *)
(* reason why there is no answer; never as a preview (commands.rs:241-357).  *)
ShownWhole ==
  \A c \in Chats :
    LET a == answer[c] IN
    a.stage = "over" /\ a.lost = 0 =>
      \/ a.parts = 0 /\ a.head \in {"overloaded", "empty"} /\ a.tail = <<>>
      \/ a.parts > 0 /\ a.head = "first" /\ a.tail = [i \in 1..a.parts - 1 |-> i + 1]

(* Whatever is lost or refused, and wherever it stops, the chunks of an answer *)
(* never change places, and there is no more than one surplus or missing     *)
(* chunk per lost call: a chunk follows another only where the reader has    *)
(* every chunk between them but those the losses took (commands.rs:331-357). *)
ChunksInOrder ==
  \A c \in Chats :
    LET a == answer[c]
        dealtWith == 2..IF a.stage = "over" THEN a.parts ELSE a.next - 1
    IN
    /\ \A i, j \in DOMAIN a.tail : i < j => a.tail[i] <= a.tail[j]
    /\ Len(a.tail) - Cardinality(ToSet(a.tail)) <= a.lost
    /\ Cardinality(dealtWith \ ToSet(a.tail)) <= a.lost

(* A question that was let through ends: its chat is not silent for ever,    *)
(* however the start of the stream fails (commands.rs:254-274).              *)
AnswerEnds == \A c \in Chats : ~WorkerFree(c) ~> WorkerFree(c)
=============================================================================
