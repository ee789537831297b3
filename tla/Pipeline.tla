------------------------------ MODULE Pipeline ------------------------------
(***************************************************************************)
(* What one execution of the hybrid pipeline returns on the live path,     *)
(* where the scheduler and the Telegram bot build the container with       *)
(* create_from_legacy, so that the stages hand data frames on.             *)
(*                                                                         *)
(* An execution e is what its surroundings do to it:                       *)
(*   key       the idempotency key of the candle: fresh, marked, error     *)
(*   scan      the end of the risk stage: a coin was chosen, the scan      *)
(*             failed, no coin was chosen, no room (positions, capital),   *)
(*             error                                                       *)
(*   chart     whether the charts could be fetched: yes, no, raises        *)
(*   backtest  whether the fallback coin passes its backtest               *)
(* EntryPipeline and TradingCycle let the analysis answer buy as well: they *)
(* cover what the stages do once they are given lists.                     *)
(***************************************************************************)
EXTENDS AiAnalysis

Executions ==
    [key : {"fresh", "marked", "error"}, scan : {"chosen", "failed", "unchosen", "full", "error"},
     chart : {"yes", "no", "raises"}, backtest : BOOLEAN]

\* The coin the later stages work on.
Analysed(e) == IF e.scan = "chosen" THEN "chosen" ELSE "configured"

-----------------------------------------------------------------------------
(* Stages.  A result is its action and, where the stage ends the pipeline, *)
(* the response it leads to.                                               *)

Continue == [action |-> "continue"]
Error == [action |-> "stop"]
Exit(data) == [action |-> "exit", data |-> data]

\* answered: an AI answer made the decision.
Held(e) ==
    [status |-> "success", decision |-> "hold", level |-> "medium", about |-> Analysed(e), answered |-> FALSE]

\* The loss limits of the portfolio never block: every execution has a manager of its own.
HybridStage(e) ==
    IF e.scan = "error" THEN Error
    ELSE IF e.scan \in {"chosen", "failed"} THEN Continue ELSE Exit(Held(e))

CollectData(e) == IF e.chart = "yes" THEN Continue ELSE Error

\* The response to a failed backtest has no status, which its readers take for a failure.
BacktestFilter(e) ==
    IF Analysed(e) = "chosen" \/ e.backtest THEN Continue ELSE Exit([Held(e) EXCEPT !.status = "failed"])

\* The decision of the analysis, which its validation leaves as it is.
AiResult(reply) == Analyze("frame", reply)

ExecutionStage(e, reply) ==
    Exit([Held(e) EXCEPT !.decision = AiResult(reply).decision,
                         !.level = ConfidenceLevel(AiResult(reply)), !.answered = Asks("frame")])

Failed(e) == [Held(e) EXCEPT !.status = "failed"]

\* The first stage that does not continue makes the response.
ExecutePipeline(e, reply) ==
    LET stages == <<HybridStage(e), CollectData(e), BacktestFilter(e), ExecutionStage(e, reply)>>
        last == Head(SelectSeq(stages, LAMBDA s : s.action # "continue"))
    IN IF last.action = "stop" THEN Failed(e) ELSE last.data

\* The position management pipeline has the risk stage only and never sells.
ManagePositions(e) == IF HybridStage(e) = Error THEN Failed(e) ELSE Held(e)

\* The scan's results are sent before the next stage runs, whatever becomes of it.
ScanTold(e) ==
    \/ e.scan \in {"chosen", "unchosen"}
    \/ e.scan = "failed" /\ e.chart = "yes" /\ e.backtest

-----------------------------------------------------------------------------
(* The orchestrator: the key is asked first, and marked after a success.   *)

TradingCycleResult(e, reply) ==
    IF e.key = "marked" THEN [Held(e) EXCEPT !.status = "skipped"]
    ELSE IF e.key = "error" THEN [Held(e) EXCEPT !.status = "blocked"]
    ELSE ExecutePipeline(e, reply)

\* Wrong form: the candle of a failure is marked as well.
MarksKeyAlways(e, result) == e.key = "fresh"

MarksKey(e, result) == e.key = "fresh" /\ result.status = "success"
=============================================================================
