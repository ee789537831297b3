------------------------------- MODULE Ports -------------------------------
(***************************************************************************)
(* The adapters that share a port: the stores in memory, which the tests   *)
(* run on, and in PostgreSQL, which the programs run on; the risk ledger   *)
(* as a file and as a table; the exchange through the new adapter and      *)
(* through the bridge to the old client; a stop or a target on the close   *)
(* of a bar, within the bar, and on the price of the moment.               *)
(*                                                                         *)
(* A store is what a sequence of calls leaves.  Trades and orders carry    *)
(* the local time of their entity; what PostgreSQL stamps itself, and the  *)
(* cutoffs it computes, are in UTC, Offset behind.                         *)
(***************************************************************************)
EXTENDS Integers, Sequences, FiniteSets, FiniteSetsExt, SequencesExt

CONSTANTS
    Offset,      \* of the local clock, ahead of UTC
    Keep,        \* age at which a row is cleaned up
    Ttl,         \* life of an idempotency key
    Window,      \* age of what statistics and histories look at
    Week         \* days of a week of the risk ledger

ASSUME PortsAssumption == {Offset, Keep, Ttl, Window, Week} \subseteq Nat /\ Window <= Keep

Rows(rows, id) == {row \in rows : row.id = id}
Upsert(rows, row) == (rows \ Rows(rows, row.id)) \cup {row}
From(rows, cutoff) == {row \in rows : row.at >= cutoff}

EmptyStore == [now |-> 0, trades |-> {}, orders |-> {}, decisions |-> {}, made |-> 0, snapshots |-> {}, keys |-> {}]

OrderStatuses == {"pending", "filled", "partially_filled", "cancelled", "failed"}

-----------------------------------------------------------------------------
(* In memory: dictionaries, so that what is saved again replaces.          *)

MemorySaveTrade(s, c) == [s EXCEPT !.trades = Upsert(@, [id |-> c.id, at |-> c.at])]
MemorySaveOrder(s, c) ==
    [s EXCEPT !.orders = Upsert(@, [id |-> c.id, at |-> s.now, status |-> "pending", sized |-> c.sized])]

\* A status that is none keeps the old one.
MemoryUpdate(s, c) ==
    [s EXCEPT !.orders = {IF o.id = c.id /\ c.status \in OrderStatuses THEN [o EXCEPT !.status = c.status] ELSE o : o \in @}]

MemoryOpen(s) == {o \in s.orders : o.status \in {"pending", "partially_filled"}}

\* The decisions are numbered as they are made: by the list here, by their id in the table.
MemoryDecision(s, c) ==
    [s EXCEPT !.decisions = @ \cup {[no |-> s.made, at |-> s.now, confidence |-> {c.confidence}]}, !.made = @ + 1]
MemorySnapshot(s, c) == [s EXCEPT !.snapshots = @ \cup {[id |-> c.id, at |-> s.now]}]

\* The newest decisions.
Latest(s, limit) == {d \in s.decisions : Cardinality({e \in s.decisions : e.no > d.no}) < limit}

MemoryTrades(s) == From(s.trades, s.now - Window)
MemoryHistory(s) == From(s.snapshots, s.now - Window)

MemoryCleanup(s) ==
    LET cutoff == s.now - Keep
    IN [s EXCEPT !.trades = From(@, cutoff), !.orders = From(@, cutoff), !.snapshots = From(@, cutoff),
                 !.decisions = From(@, cutoff)]

LiveKey(s, id) == \E k \in Rows(s.keys, id) : s.now < k.until
MemoryKeys(s, c) ==
    CASE c.do = "mark" -> [s EXCEPT !.keys = Upsert(@, [id |-> c.id, until |-> s.now + Ttl])]
      [] c.do = "check" -> [s EXCEPT !.keys = {k \in @ : k.id # c.id \/ LiveKey(s, c.id)}]
      [] c.do = "sweep" -> [s EXCEPT !.keys = {k \in @ : LiveKey(s, k.id)}]

-----------------------------------------------------------------------------
(* In PostgreSQL: an id is unique, and a call that would repeat it fails.  *)

Utc(s) == s.now - Offset

PostgresSaveTrade(s, c) ==
    IF Rows(s.trades, c.id) # {} THEN s ELSE [s EXCEPT !.trades = @ \cup {[id |-> c.id, at |-> c.at]}]

\* Neither is an order without a volume stored: the column takes no NULL.
PostgresSaveOrder(s, c) ==
    IF Rows(s.orders, c.id) # {} \/ ~c.sized THEN s
    ELSE [s EXCEPT !.orders = @ \cup {[id |-> c.id, at |-> s.now, status |-> "pending", sized |-> TRUE]}]

\* Any word is written, and read as pending when it is none.
PostgresUpdate(s, c) ==
    [s EXCEPT !.orders = {IF o.id = c.id THEN [o EXCEPT !.status = c.status] ELSE o : o \in @}]
StatusOf(o) == IF o.status \in OrderStatuses THEN o.status ELSE "pending"

\* Wrong form: a partial execution is forgotten.
PostgresOpenWhole(s) == {o \in s.orders : o.status \in {"pending", "open"}}

PostgresOpen(s) == {o \in s.orders : o.status \in {"pending", "open", "partially_filled"}}

\* A confidence of zero is stored as none.
PostgresDecision(s, c) ==
    [s EXCEPT !.decisions = @ \cup {[no |-> s.made, at |-> Utc(s), confidence |-> {c.confidence} \ {0}]},
              !.made = @ + 1]

PostgresSnapshot(s, c) == [s EXCEPT !.snapshots = @ \cup {[id |-> c.id, at |-> Utc(s)]}]

PostgresTrades(s) == From(s.trades, Utc(s) - Window)
PostgresHistory(s) == From(s.snapshots, Utc(s) - Window)

PostgresCleanup(s) ==
    LET cutoff == Utc(s) - Keep
    IN [s EXCEPT !.trades = From(@, cutoff), !.orders = From(@, cutoff), !.snapshots = From(@, cutoff),
                 !.decisions = From(@, cutoff)]

\* To mark a key whose row is there changes nothing, be it expired or not.
PostgresKeys(s, c) ==
    CASE c.do = "mark" -> [s EXCEPT !.keys = IF Rows(@, c.id) # {} THEN @ ELSE @ \cup {[id |-> c.id, until |-> s.now + Ttl]}]
      [] c.do = "check" -> s
      [] c.do = "sweep" -> [s EXCEPT !.keys = {k \in @ : LiveKey(s, k.id)}]

-----------------------------------------------------------------------------
(* The calls, on either.                                                   *)

Later(s) == [s EXCEPT !.now = @ + 1]

OnMemory(s, c) ==
    CASE c.do = "later" -> Later(s)
      [] c.do = "trade" -> MemorySaveTrade(s, c)
      [] c.do = "order" -> MemorySaveOrder(s, c)
      [] c.do = "update" -> MemoryUpdate(s, c)
      [] c.do = "decision" -> MemoryDecision(s, c)
      [] c.do = "snapshot" -> MemorySnapshot(s, c)
      [] c.do = "cleanup" -> MemoryCleanup(s)
      [] OTHER -> MemoryKeys(s, c)

OnPostgres(s, c) ==
    CASE c.do = "later" -> Later(s)
      [] c.do = "trade" -> PostgresSaveTrade(s, c)
      [] c.do = "order" -> PostgresSaveOrder(s, c)
      [] c.do = "update" -> PostgresUpdate(s, c)
      [] c.do = "decision" -> PostgresDecision(s, c)
      [] c.do = "snapshot" -> PostgresSnapshot(s, c)
      [] c.do = "cleanup" -> PostgresCleanup(s)
      [] OTHER -> PostgresKeys(s, c)

\* Both, after each of the calls.
StoresAlong(calls) ==
    LET after[i \in 0 .. Len(calls)] ==
            IF i = 0 THEN [memory |-> EmptyStore, postgres |-> EmptyStore]
            ELSE [memory |-> OnMemory(after[i - 1].memory, calls[i]),
                  postgres |-> OnPostgres(after[i - 1].postgres, calls[i])]
    IN after

-----------------------------------------------------------------------------
(* The risk ledger.  A call saves the result of a day, or is the midnight. *)

EmptyLedger == [today |-> 0, rows |-> {}]
LedgerRow(l, pnl) == [id |-> l.today, at |-> l.today, pnl |-> pnl]
OnRepository(l, c) ==
    IF c.do = "midnight" THEN [l EXCEPT !.today = @ + 1] ELSE [l EXCEPT !.rows = Upsert(@, LedgerRow(l, c.pnl))]
OnFile(l, c) ==
    IF c.do = "midnight" THEN [l EXCEPT !.today = @ + 1]
    ELSE [l EXCEPT !.rows = From(Upsert(@, LedgerRow(l, c.pnl)), l.today - Week)]

LedgersAlong(calls) ==
    LET after[i \in 0 .. Len(calls)] ==
            IF i = 0 THEN [file |-> EmptyLedger, table |-> EmptyLedger]
            ELSE [file |-> OnFile(after[i - 1].file, calls[i]),
                  table |-> OnRepository(after[i - 1].table, calls[i])]
    IN after

PnlOf(rows) == SumFunction([row \in rows |-> row.pnl])
RepositoryWeek(l) == PnlOf(From(l.rows, l.today - Week))
FileWeek(l) == PnlOf({row \in l.rows : \E i \in 0 .. Week - 1 : row.at = l.today - i})

-----------------------------------------------------------------------------
(* The exchange.  An account is a set of balances, and a price is {} when  *)
(* it cannot be read, which both adapters turn into zero.                  *)

Price(p) == IF p = {} THEN 0 ELSE CHOOSE n \in p : TRUE

UpbitBalances(account) ==
    {[currency |-> b.currency, total |-> b.free + b.locked, available |-> b.free] :
        b \in {a \in account : a.free > 0 \/ a.locked > 0}}
LegacyBalances(account) ==
    {[currency |-> b.currency, total |-> b.free, available |-> b.free] : b \in {a \in account : a.free > 0}}

\* get_position reads what is free, whatever the listing says; the coins of the listing are asked one by one.
UpbitPosition(account, currency) ==
    {[currency |-> b.currency, volume |-> b.free, value |-> b.free * Price(b.price)] :
        b \in {a \in account : a.currency = currency /\ a.free # 0}}
LegacyPosition(account, currency) == UpbitPosition(account, currency)
UpbitPositions(account) ==
    UNION {UpbitPosition(account, b.currency) : b \in {a \in UpbitBalances(account) : a.currency # "KRW"}}
LegacyPositions(account) ==
    UNION {LegacyPosition(account, b.currency) : b \in {a \in LegacyBalances(account) : a.currency # "KRW"}}

\* What is made of an answer to an order.  form is "raises", "none", "empty" or "order"; price
\* and volume are {} where the exchange says null, from which no number can be made.
Refusal == [success |-> FALSE, price |-> 0, volume |-> 0]
UpbitBuy(answer, amount) ==
    IF answer.form \in {"raises", "none"} \/ answer.price = {} \/ answer.volume = {} THEN Refusal
    ELSE [success |-> TRUE, price |-> IF Price(answer.price) > 0 THEN Price(answer.price) ELSE amount,
          volume |-> Price(answer.volume)]
LegacyBuy(answer, amount) ==
    IF answer.form \in {"raises", "none", "empty"} \/ answer.volume = {} THEN Refusal
    ELSE [success |-> TRUE, price |-> amount, volume |-> Price(answer.volume)]
UpbitSell(answer, volume, current) ==
    IF answer.form \in {"raises", "none"} THEN Refusal
    ELSE [success |-> TRUE, price |-> IF Price(answer.price) = 0 THEN Price(current) ELSE Price(answer.price), volume |-> volume]
LegacySell(answer, volume, current) ==
    IF answer.form \in {"raises", "none", "empty"} THEN Refusal
    ELSE [success |-> TRUE, price |-> Price(current), volume |-> volume]

\* The bridge takes every order that the exchange knows for filled.
UpbitStatus(answer, state) ==
    IF answer.form \in {"raises", "none"} THEN "failed"
    ELSE IF answer.form = "empty" THEN "pending"
    ELSE CASE state = "done" -> "filled" [] state = "cancel" -> "cancelled" [] OTHER -> "pending"
LegacyStatus(answer, state) == IF answer.form \in {"raises", "none", "empty"} THEN "failed" ELSE "filled"

-----------------------------------------------------------------------------
(* Stops and targets.                                                      *)

CloseStops(bar, stop) == bar.close <= stop
CloseTargets(bar, target) == bar.close >= target
BarStops(bar, stop) == bar.low <= stop
BarTargets(bar, target) == bar.high >= target
MomentStops(price, stop) == price <= stop
MomentTargets(price, target) == price >= target

StopPrice(bar, stop) == IF bar.open < stop THEN bar.open ELSE stop
TargetPrice(bar, target) == IF bar.open > target THEN bar.open ELSE target

ExitPriority(bar, stop, target) ==
    CASE BarStops(bar, stop) -> "stop_loss"
      [] ~BarStops(bar, stop) /\ BarTargets(bar, target) -> "take_profit"
      [] OTHER -> "none"
=============================================================================
