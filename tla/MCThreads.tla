---- MODULE MCThreads ----
(* The threads of the Studio with their two stores, and what a thread says to its model: two systems in one model, of *)
(* which a behaviour runs one.                                                                                        *)
EXTENDS RunHistory

CONSTANTS A, B, r1, r2, r3, Replies, Calls, maxSteps, MaxTurns

VARIABLES system, provider, thread, messages, phase, step, at, aborted, ended, turns, ids, spoken

threadVars == <<provider, thread, messages, phase, step, at, aborted, ended, turns, ids, spoken>>

\* Two folders; the browser and one of them share a thread that either may have advanced.
Old(r, last, n, status) ==
    [id |-> r, created |-> IF r = r2 THEN 0 ELSE 1, last |-> last, lines |-> [i \in 1 .. n |-> i], status |-> status, title |-> "own"]

MCHistories ==
    {[idb |-> i, persisted |-> A, disk |-> (A :> d) @@ (B :> <<Old(r2, 1, 1, "review")>>)] :
        i \in {<<Old(r1, 2, 2, "running")>>}, d \in {<<Old(r1, 3, 1, "done")>>, <<Old(r1, 1, 1, "done")>>}}
    \cup {[idb |-> <<>>, persisted |-> None, disk |-> (A :> None) @@ (B :> <<Old(r2, 1, 1, "review")>>)]}

\* Answers with and without thinking and text, of one and two calls.
Piece(type, n) == [type |-> type, id |-> n]
Thinking == Piece("thinking", 0)
Text == Piece("text", 0)
Use(n) == Piece("tool_use", n)
MCReplies == {<<Thinking, Text>>, <<Thinking, Use(1)>>, <<Thinking, Text, Use(1), Use(2)>>, <<Use(1), Thinking, Use(2)>>}
MCCalls == {<<"null">>, <<"broken", "object">>}

T == INSTANCE AgentThread

\* What the models of a thread answer, and the steps of a turn.
ASSUME ThreadAssumption ==
    /\ Replies \subseteq Seq([type : {"thinking", "text", "tool_use"}, id : Nat])
    /\ \A blocks \in Replies : \A k \in DOMAIN T!IdsOf(blocks, "tool_use") : T!IdsOf(blocks, "tool_use")[k] = k
    /\ Calls \subseteq Seq({"object", "null", "broken"})
    /\ maxSteps \in Nat /\ MaxTurns \in Nat

----
\* Bound: transactions and writes in flight; files change while a reset is under way only, which is when it matters.
FewStores == Len(puts) <= 2 /\ Len(writes) <= 1 /\ (saveTimer => wiping # "no")

\* Bound: one call of the model in the later turns.
FewAnswers == turns > 1 => step <= 1

HistoryStep == system = "history" /\ FewStores' /\ UNCHANGED <<system, threadVars>>
ThreadStep == system = "thread" /\ FewAnswers' /\ UNCHANGED <<system, vars>>

MCInit ==
    /\ system \in {"history", "thread"} /\ Init /\ T!Init
    /\ system = "history" => provider = "anthropic"
    /\ system = "thread" => persisted = None

MCNext ==
    \/ (Committed /\ HistoryStep) \/ (Written /\ HistoryStep) \/ (RunsTimer /\ HistoryStep) \/ (StateTimer /\ HistoryStep)
    \/ (Announced /\ HistoryStep) \/ (StartTurn /\ HistoryStep) \/ (appendLine /\ HistoryStep) \/ (FlushTurn /\ HistoryStep)
    \/ \E s \in {"review", "done", "error"} : EndTurn(s) /\ HistoryStep
    \/ \E r \in RunId :
         \/ (startRun(r) /\ HistoryStep) \/ (replyToRun(r) /\ HistoryStep) \/ (TitleArrives(r) /\ HistoryStep)
         \/ (renameRun(r) /\ HistoryStep) \/ (deleteRun(r) /\ HistoryStep) \/ (markReviewed(r) /\ HistoryStep)
         \/ \E F \in Folder : ReplyElsewhere(F, r) /\ HistoryStep
    \/ \E F \in Folder : (Pick(F) /\ HistoryStep) \/ (Swap(F) /\ HistoryStep)
    \/ (SwapFlushed /\ HistoryStep) \/ (SetMount /\ HistoryStep) \/ (Hydrate /\ HistoryStep) \/ (unmount /\ HistoryStep)
    \/ (boot /\ HistoryStep) \/ (Reload /\ HistoryStep) \/ (resetProject /\ HistoryStep) \/ (SnapshotDeleted /\ HistoryStep)
    \/ (Wiped /\ HistoryStep) \/ (FileChanged /\ HistoryStep) \/ (SaveTimer /\ HistoryStep)
    \/ (T!Reply /\ ThreadStep) \/ (T!Switch /\ ThreadStep) \/ (T!Stop /\ ThreadStep) \/ (T!Ask /\ ThreadStep) \/ (T!Fails /\ ThreadStep)
    \/ (T!AnthropicAnswers /\ ThreadStep) \/ (T!OpenaiAnswers /\ ThreadStep) \/ (T!NextCall /\ ThreadStep) \/ (T!CallsDone /\ ThreadStep)

MCSpec == MCInit /\ [][MCNext]_<<vars, system, threadVars>>

----
\* RunHistory: threads stay with their project, their lines apart, and what a reset has deleted stays away.
HistoryTrue == OneProject /\ LinesDistinct /\ ResetForgets

\* AgentThread: every request can be made of the transcript, with the calls answered and the thinking as it was.
RequestsTrue == T!WireValid /\ T!ThinkingEchoed
====
