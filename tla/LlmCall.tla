------------------------------ MODULE LlmCall ------------------------------
(***************************************************************************)
(* One question to the model service, by any of its three clients, each    *)
(* with a retry loop of its own:                                           *)
(*  - "chat": describe_image of llm/perception.rs and                       *)
(*    try_score_with_fallback of tasks/score_events.rs ask the models of a  *)
(*    list one after the other, each through chat_completion of             *)
(*    llm/client.rs (a reply or a voice message has a list of one model);   *)
(*  - "embed": embed of llm/embeddings.rs, for which fewer failures pass;   *)
(*  - "stream": stream_to_chat of bot/commands.rs starts the stream of an   *)
(*    answer, taking every failure for a passing one.  The client's timeout *)
(*    covers the streamed body, so a request is the whole stream.           *)
(*                                                                         *)
(* Time is in half seconds, the unit of the shortest pause.                 *)
(***************************************************************************)
EXTENDS Naturals

CONSTANTS Models,      \* length of a chat list: the primary model and its fallbacks
          MaxRetries,  \* openrouter.max_retries
          Timeout      \* openrouter.timeout_sec, a whole request with its body

ASSUME CallAssumption ==
  /\ Models \in Nat \ {0} /\ MaxRetries \in Nat
  /\ Timeout \in Nat \ {0}

VARIABLES client,    \* who asks
          model,     \* position in the list
          attempt,   \* attempts before this one
          pc,        \* "send": a request is out, "wait": the pause before the next
          elapsed,   \* since the question was asked
          requests,  \* requests so far
          passing    \* did every request so far fail for a passing reason?

vars == <<client, model, attempt, pc, elapsed, requests, passing>>

Clients == {"chat", "embed", "stream"}

(* max_attempts = 3 is two retries. *)
Retries == IF client = "stream" THEN 2 ELSE MaxRetries

ListLength == IF client = "chat" THEN Models ELSE 1

Init ==
  /\ client \in Clients
  /\ model = 1
  /\ attempt = 0
  /\ pc = "send"
  /\ elapsed = 0
  /\ requests = 0
  /\ passing = TRUE

(* A request is answered, or refused, at once or after up to its timeout. *)
Durations == {0, Timeout}

Spend(d) ==
  /\ pc = "send"
  /\ elapsed' = elapsed + d
  /\ requests' = requests + 1

(* Mutant of Pause: the cap is forgotten. *)
PauseUncapped(a) == 2 ^ a

(* backoff_ms: 0.5 s, 1 s, 2 s, 4 s, then 8 s each; a stream does not get     *)
(* past the second.                                                         *)
Pause(a) == IF a < 4 THEN <<1, 2, 4, 8>>[a + 1] ELSE 16

(* Text worth returning, vectors, a stream that started. *)
Answered(d) ==
  /\ Spend(d)
  /\ pc' = "ok"
  /\ UNCHANGED <<client, model, attempt, passing>>

(* Mutant of GiveUpModel: the next model goes on with the attempts made. *)
GiveUpModelKeepsAttempts ==
  IF model < ListLength
  THEN model' = model + 1 /\ pc' = "send" /\ UNCHANGED attempt
  ELSE pc' = "failed" /\ UNCHANGED <<model, attempt>>

(* The client returns Err, or no text: on to the next model of the list. *)
GiveUpModel ==
  IF model < ListLength
  THEN model' = model + 1 /\ attempt' = 0 /\ pc' = "send"
  ELSE pc' = "failed" /\ UNCHANGED <<model, attempt>>

MayRetry == attempt < Retries

(* 429, 5xx, no connection, a timeout before the headers; for "chat" also a  *)
(* 200 that does not parse or holds nothing, for "stream" everything else.   *)
FailsPassing(d) ==
  /\ Spend(d)
  /\ \/ MayRetry /\ pc' = "wait" /\ UNCHANGED <<model, attempt>>
     \/ ~MayRetry /\ GiveUpModel
  /\ UNCHANGED <<client, passing>>

(* Another status or error; a 200 with an empty body (or one that timed out  *)
(* while it was read), reasoning without an answer, and for "embed" any 200  *)
(* that does not parse.                                                     *)
FailsForGood(d) ==
  /\ client # "stream"
  /\ Spend(d)
  /\ GiveUpModel
  /\ passing' = FALSE
  /\ UNCHANGED client

Retry ==
  /\ pc = "wait"
  /\ elapsed' = elapsed + Pause(attempt)
  /\ attempt' = attempt + 1
  /\ pc' = "send"
  /\ UNCHANGED <<client, model, requests, passing>>

Done == pc \in {"ok", "failed"}

Next ==
  \/ \E d \in Durations : Answered(d) \/ FailsPassing(d) \/ FailsForGood(d)
  \/ Retry

Spec == Init /\ [][Next]_vars

-----------------------------------------------------------------------------

Attempts == Retries + 1

(* What the pauses before the first n retries of a model add up to. *)
Paused(n) == IF n < 4 THEN <<0, 1, 3, 7>>[n + 1] ELSE 15 + 16 * (n - 4)

PerModel == Attempts * Timeout + Paused(Retries)

(* Every variable stays in its range. *)
TypeOK ==
  /\ client \in Clients
  /\ model \in 1..ListLength
  /\ attempt \in 0..Retries
  /\ pc \in {"send", "wait", "ok", "failed"}
  /\ elapsed \in Nat
  /\ requests \in Nat
  /\ passing \in BOOLEAN

(* A question is never given up while a retry could help: when nothing but     *)
(* passing failures came, every model got all its attempts                    *)
(* (perception.rs:51-81, client.rs:364-406, commands.rs:254-274).             *)
GivesUpLate == pc = "failed" /\ passing => requests = ListLength * Attempts

(* However the models fail, a question takes at most the timeouts and pauses   *)
(* of all attempts of all models, and a streamed answer no longer than the    *)
(* retries of its start and one timeout (client.rs:412-416, embeddings.rs:92). *)
LongestCall == elapsed <= ListLength * PerModel

=============================================================================
