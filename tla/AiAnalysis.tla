----------------------------- MODULE AiAnalysis -----------------------------
(***************************************************************************)
(* What becomes of an answer of the AI: the reading of its text            *)
(* (src/src/infrastructure/adapters/ai/openai_adapter.py), the market      *)
(* analysis use case around it, and the checks and the override of the     *)
(* breakout analysis.  Confidences are in percent.                         *)
(***************************************************************************)
EXTENDS MarketRules

CONSTANT Overbought      \* rsi_overbought_threshold, in hundredths (7500)

ASSUME AiAssumption == Overbought \in Nat

-----------------------------------------------------------------------------
(* The text answer of a market analysis.  form is "json" when a JSON       *)
(* object can be read from it, "text" when it cannot, "error" when the     *)
(* call raises or there is no text.  words are the key words of the text.  *)

NoReply == [form |-> "error", decision |-> "none", confidence |-> "none", number |-> 0, words |-> {}]
Hold(confidence) == [decision |-> "hold", confidence |-> confidence]

\* A number is taken as it is: nothing keeps it between 0 and 1.
ConfidenceOf(reply) ==
    IF reply.confidence = "number" THEN reply.number
    ELSE IF reply.confidence = "high" THEN 80 ELSE IF reply.confidence = "low" THEN 30 ELSE 50

\* A value of the wrong kind under one of the keys: the exception is not among those caught.
Malformed(reply) == reply.form = "json" /\ "object" \in {reply.decision, reply.confidence}

\* Wrong form: whatever is no purchase is a sale.
KeywordsEager(words) ==
    [decision |-> IF "buy" \in words /\ "don't buy" \notin words THEN "buy" ELSE "sell", confidence |-> 50]

Keywords(words) ==
    [decision |-> IF "buy" \in words /\ "don't buy" \notin words THEN "buy"
                  ELSE IF "sell" \in words THEN "sell" ELSE "hold",
     confidence |-> 50]

ParseDecision(reply) ==
    IF reply.form = "text" THEN Keywords(reply.words)
    ELSE [decision |-> IF reply.decision \in {"buy", "sell"} THEN reply.decision ELSE "hold",
          confidence |-> ConfidenceOf(reply)]

\* OpenAIAdapter.analyze: whatever goes wrong is a hold without confidence.
AiDecision(reply) ==
    IF reply.form = "error" \/ Malformed(reply) THEN Hold(0) ELSE ParseDecision(reply)

ValidateSignal(reply, action) == action \in {"buy", "sell"} /\ AiDecision(reply).decision = action

MarketSentiment(reply) ==
    IF reply.form = "text" /\ reply.words \in {{"bullish"}, {"bearish"}}
    THEN CHOOSE w \in reply.words : TRUE ELSE "neutral"

\* The bars of an analysis request are a list; a data frame raises in its constructor, and
\* the use case makes a hold of that, as of missing data.
Asks(data) == data = "list"
Analyze(data, reply) == IF Asks(data) THEN AiDecision(reply) ELSE Hold(0)

ConfidenceLevel(decision) ==
    IF decision.confidence >= 70 THEN "high"
    ELSE IF decision.confidence >= 40 THEN "medium" ELSE "low"

-----------------------------------------------------------------------------
(* Breakout analysis.  A response is [decision, confidence, number], where *)
(* confidence says how the number is written: "int", "fraction" (a text    *)
(* with a decimal point), "word" or "missing".                             *)

Fallback == [decision |-> "hold", confidence |-> 0]

Aliases == [allow |-> "allow", buy |-> "allow", block |-> "block", sell |-> "block",
            hold |-> "hold", wait |-> "hold"]

\* No minimal confidence is configured.
ValidResponse(r) ==
    /\ r.decision \in DOMAIN Aliases
    /\ r.confidence \in {"int", "fraction"}
    /\ r.number \in 0 .. 100

\* int() of a text with a decimal point raises.
FromAiResponse(r) == [decision |-> Aliases[r.decision], confidence |-> Max({0, Min({100, r.number})})]

\* Wrong form: a confident permission is not held against the RSI.
ValidDecisionConfident(d, rsi) == d.decision # "allow" \/ d.confidence >= 60

\* rsi is the reading the caller passed among its additional context; without one nothing
\* is checked.
ValidDecision(d, rsi) == d.decision # "allow" \/ ~Over(rsi, Overbought)
ApplyOverride(d) == [decision |-> "hold", confidence |-> 30]

\* The call itself fails, or the decision cannot be made from a valid answer.
Raises(r) == r.decision = "raise" \/ (ValidResponse(r) /\ r.confidence = "fraction")

BreakoutDecision(r, rsi) ==
    IF Raises(r) THEN Fallback
    ELSE IF ~ValidResponse(r) THEN [decision |-> "hold", confidence |-> 50]
    ELSE IF ValidDecision(FromAiResponse(r), rsi) THEN FromAiResponse(r)
    ELSE ApplyOverride(FromAiResponse(r))

ShouldExecute(d) == d.decision = "allow" /\ d.confidence >= 60

DecisionLevel(d) ==
    Grade(0 - d.confidence, <<<<-80, "very_high">>, <<-60, "high">>, <<-40, "medium">>,
                              <<-20, "low">>, <<0, "very_low">>>>)
=============================================================================
