---------------------------- MODULE AgentContext ----------------------------
(* The conversation a run of an agent starts with (internal/api/              *)
(* agent_context.go): the earlier turns of its session, read back from the    *)
(* events their runs recorded, and its own question.                          *)
(*                                                                            *)
(* A message is a record:                                                     *)
(*   role   system, user, assistant or tool                                   *)
(*   turn   the run it was first said in                                      *)
(*   text   what an assistant says, NoText when it only calls tools           *)
(*   calls  the ids of the tool calls an assistant makes, tools their tools   *)
(*   call   the tool call a tool message answers, tool the tool               *)
(*   size   of a tool's content: empty, small, large (more than 4000 runes)   *)
(*          or huge (more than 32768 bytes); compact, omitted or summary once *)
(*          cut                                                               *)
(* An event is a record with a type and what the readers below take from it.  *)
EXTENDS AgentRetention, Subsequences, FiniteSets, SequencesExt

NoText == <<>>

Said(role, turn) ==
  [role |-> role, turn |-> turn, text |-> NoText, calls |-> <<>>, tools |-> <<>>,
   call |-> None, tool |-> "none", size |-> "small"]

Question(r) == Said("user", r)
Answered(r, text) == [Said("assistant", r) EXCEPT !.text = text]

-----------------------------------------------------------------------------
(* What one run left in the log.                                              *)

\* compactHistoricalToolReplayMessage: only the beginning of a long output.
Compacted(m) ==
  IF m.role = "tool" /\ m.size \in {"large", "huge"} THEN [m EXCEPT !.size = "compact"]
  ELSE m

\* visibleConversationFromCompletionRequestData: without the system messages,
\* and without an assistant that says nothing and calls nothing.
Visible(messages) ==
  LET shown == {i \in DOMAIN messages :
                  \/ messages[i].role \in {"user", "tool"}
                  \/ /\ messages[i].role = "assistant"
                     /\ messages[i].text # NoText \/ messages[i].calls # <<>>}
      kept  == Picked(messages, shown)
  IN  [i \in DOMAIN kept |-> Compacted(kept[i])]

\* visibleConversationFromLatestCompletionRequest.
LatestTranscript(events) ==
  LET requests == {i \in DOMAIN events :
                     events[i].type = "completion.request" /\ Visible(events[i].messages) # <<>>}
  IN  IF requests = {} THEN <<>> ELSE Visible(events[Max(requests)].messages)

\* finalAnswerForRunContext: the last thing an assistant finished saying, be it
\* the answer or what it said before it called a tool.
FinalAnswer(events) ==
  LET spoken == {i \in DOMAIN events :
                   events[i].type \in {"answer.final", "message.done"} /\ events[i].text # NoText}
  IN  IF spoken = {} THEN NoText ELSE events[Max(spoken)].text

\* Mutant: the transcript of a request is taken to be complete.
TranscriptOnly(r, events, messages) == messages
\* appendFinalAnswerIfMissing. A request never holds the answer to itself.
WithAnswer(r, events, messages) ==
  LET answer == FinalAnswer(events)
  IN  IF \/ answer = NoText
         \/ messages # <<>> /\ Last(messages).role = "assistant" /\ Last(messages).text = answer
      THEN messages
      ELSE Append(messages, Answered(r, answer))

\* completionToolResultFromEventData: the summary stands for a content that is
\* empty or was left out of the event.
StoredResult(m) == IF m.size \in {"omitted", "empty"} THEN [m EXCEPT !.size = "summary"] ELSE m

\* conversationFromCompletionEvents, one run.
FromEvents(r, events) ==
  LET seen == Picked(events, {i \in DOMAIN events :
                events[i].type \in {"completion.message", "completion.tool_result"}})
      said == [i \in DOMAIN seen |-> StoredResult(seen[i].message)]
  IN  IF seen = <<>> THEN WithAnswer(r, events, <<Question(r)>>)
      ELSE IF \E i \in DOMAIN said : said[i].role = "assistant" THEN said
      ELSE WithAnswer(r, events, said)

-----------------------------------------------------------------------------
\* Mutant: told from the completion events, which know no tool calls.
TurnFromEvents(r, events) == FromEvents(r, events)
\* conversationFromLatestCompletionRequests, one run: the latest request when
\* there is one (bestAvailableConversationForPriorRun otherwise).
TurnOf(r, events) ==
  LET transcript == LatestTranscript(events)
  IN  IF transcript # <<>> THEN WithAnswer(r, events, transcript) ELSE FromEvents(r, events)

\* Build: the turns of the active branch, one after the other. That a request
\* holds the turns before its own is not taken into account.
Conversation(rs, log, r) ==
  LET prior == PriorRuns(rs, r)
  IN  FlattenSeq([i \in DOMAIN prior |-> TurnOf(prior[i], log[prior[i]])])

\* agentMessagesForRun: what the client told about itself stands between the
\* conversation and the question.
MessagesForRun(rs, log, r) ==
  Conversation(rs, log, r) \o <<Said("system", r), Question(r)>>

-----------------------------------------------------------------------------
(* What is asked of a conversation.                                           *)

\* Every tool message answers a call an assistant made before it.
ToolsAnswerCalls(messages) ==
  \A i \in DOMAIN messages : messages[i].role = "tool" =>
    \E j \in 1 .. i - 1 :
      messages[j].role = "assistant" /\ messages[i].call \in ToSet(messages[j].calls)

\* The turn of p is there: its question, and after it the answer it ended with.
HasTurn(messages, p, events) ==
  \E i \in DOMAIN messages :
    /\ messages[i] = Question(p)
    /\ FinalAnswer(events) # NoText =>
         \E j \in i + 1 .. Len(messages) :
           messages[j].role = "assistant" /\ messages[j].text = FinalAnswer(events)
=============================================================================
