------------------------------ MODULE DataSync ------------------------------
(***************************************************************************)
(* The history files of the backtests (src/src/scanner/data_sync.py).      *)
(*                                                                         *)
(* A sync reads the file of a coin, asks the exchange for the daily        *)
(* candles that are missing, newest page first, and writes the merged      *)
(* history back.  A few coins are synced at a time; calls, coins and the   *)
(* whole sync have timeouts.  A candle is the number of its day; the clock *)
(* counts ticks, DayLength of them a day.                                  *)
(***************************************************************************)
EXTENDS Integers, FiniteSetsExt

CONSTANTS
    Coins,
    Listed,          \* Listed[c]: the day of the first candle of c
    DayLength,       \* ticks of a day, more than one
    FirstTime,       \* the clock at the start
    MaxTime,         \* bound of the clock
    Window,          \* days of a full download (years * 365)
    Keep,            \* days that a file keeps (max_years * 365)
    PageSize,        \* MAX_CANDLES_PER_REQUEST
    MaxConcurrent,   \* max_concurrent
    MaxRetries,      \* max_retries
    ApiTimeout,      \* API_TIMEOUT_SECONDS + the sleep before the retry
    SyncTimeout,     \* SYNC_TIMEOUT_SECONDS
    MaxFaults        \* bound of errors and timeouts

ASSUME SyncAssumption ==
    /\ IsFiniteSet(Coins) /\ Listed \in [Coins -> Nat]
    /\ {DayLength, Window, PageSize, MaxConcurrent, MaxRetries} \subseteq Nat \ {0}
    /\ DayLength > 1 /\ Window > 1
    /\ Keep \in Nat /\ Keep > Window
    /\ {FirstTime, MaxTime, ApiTimeout, SyncTimeout, MaxFaults} \subseteq Nat
    /\ FirstTime >= Keep * DayLength /\ FirstTime <= MaxTime

VARIABLES
    now,         \* datetime.now()
    file,        \* file[c]: the days saved for c
    unfinished,  \* unfinished[c]: those that were saved before their day was over
    broken,      \* coins whose file a crash cut off while it was written
    job,         \* job[c]: the sync of c
    torn,        \* coins of which a page was lost (history)
    hit,         \* coins that a fault of the present scan concerned (history)
    faults

syncVars == <<now, file, unfinished, broken, job, torn, hit, faults>>

Days == 0 .. (MaxTime \div DayLength)
Today == now \div DayLength

NoJob == [at |-> "idle", start |-> 0, to |-> 0, rows |-> {}, open |-> {}, spent |-> 0, tries |-> 0]
Phases == {"idle", "wait", "fetch", "done"}
Jobs == [at : Phases, start : Int, to : Int, rows : SUBSET Days, open : SUBSET Days,
         spent : Nat, tries : 0 .. MaxRetries]

\* Files of earlier syncs: nothing, or a finished day at the start of the window.
SyncInit ==
    /\ now = FirstTime
    /\ file \in [Coins -> {{}, {Today - Window}}]
    /\ \A c \in Coins : \A d \in file[c] : d >= Listed[c]
    /\ unfinished = [c \in Coins |-> {}]
    /\ broken = {}
    /\ job = [c \in Coins |-> NoJob]
    /\ torn = {} /\ hit = {}
    /\ faults = 0

Fault(c) ==
    /\ faults < MaxFaults
    /\ faults' = faults + 1
    /\ hit' = hit \cup {c}

-----------------------------------------------------------------------------
(* One coin.                                                               *)

\* load_data: the rows that a reader of the file gets.
Loaded(c) == IF c \in broken THEN {} ELSE file[c]

\* Wrong form: one day too late.
StartLate(c) == IF file[c] = {} THEN now - Window * DayLength ELSE (Max(file[c]) + 2) * DayLength

\* The day after the last candle, or the start of the window.
StartDate(c) == IF file[c] = {} THEN now - Window * DayLength ELSE (Max(file[c]) + 1) * DayLength

EndJob(c) == job' = [job EXCEPT ![c] = [NoJob EXCEPT !.at = "done"]]

Syncing == {c \in Coins : job[c].at = "fetch"}

\* Wrong form: the semaphore lets one coin less through.
BeginSyncStrict(c) ==
    /\ job[c].at = "wait"
    /\ Cardinality(Syncing) < MaxConcurrent - 1
    /\ IF c \in broken \/ StartDate(c) >= now THEN EndJob(c)
       ELSE job' = [job EXCEPT ![c] =
              [NoJob EXCEPT !.at = "fetch", !.start = StartDate(c), !.to = now]]
    /\ UNCHANGED <<now, file, unfinished, broken, torn, hit, faults>>

\* Under the semaphore: read the file and decide what to ask for.
BeginSync(c) ==
    /\ job[c].at = "wait"
    /\ Cardinality(Syncing) < MaxConcurrent
    /\ IF c \in broken \/ StartDate(c) >= now
       THEN EndJob(c)                                 \* failed or skipped
       ELSE job' = [job EXCEPT ![c] =
              [NoJob EXCEPT !.at = "fetch", !.start = StartDate(c), !.to = now]]
    /\ UNCHANGED <<now, file, unfinished, broken, torn, hit, faults>>

Kept(days) == {d \in days : d * DayLength >= now - Keep * DayLength}

\* Merge and write.  Of two rows of a day the new one is kept.
Store(c, rows, open) ==
    /\ file' = [file EXCEPT ![c] = IF rows = {} THEN @ ELSE Kept(@ \cup rows)]
    /\ unfinished' = [unfinished EXCEPT ![c] =
          IF rows = {} THEN @ ELSE ((@ \ rows) \cup open) \cap Kept(file[c] \cup rows)]
    /\ EndJob(c)

\* The newest candles of c not after a time.
Page(c, time) ==
    LET candles == {d \in Days : d >= Listed[c] /\ d * DayLength <= time /\ d <= Today}
    IN {d \in candles : Cardinality({e \in candles : e > d}) < PageSize}

\* A page arrives.  A page without a day of the window has no first row to look
\* at: the sync fails and drops the pages that it has.
FetchPage(c) ==
    /\ job[c].at = "fetch"
    /\ LET page == Page(c, job[c].to)
           new == {d \in page : d * DayLength >= job[c].start}
           rows == job[c].rows \cup new
           open == job[c].open \cup (new \cap {Today})
           next == Min(new) * DayLength - 1
       IN IF page = {} THEN Store(c, job[c].rows, job[c].open)
          ELSE IF new = {} THEN EndJob(c) /\ UNCHANGED <<file, unfinished>>
          ELSE IF next <= job[c].start THEN Store(c, rows, open)
          ELSE /\ job' = [job EXCEPT ![c].rows = rows, ![c].open = open,
                                     ![c].to = next, ![c].tries = 0]
               /\ UNCHANGED <<file, unfinished>>
    /\ UNCHANGED <<now, broken, torn, hit, faults>>

\* Whatever has arrived is stored as if it were all.
Salvage(c) ==
    /\ Store(c, job[c].rows, job[c].open)
    /\ torn' = IF job[c].rows = {} THEN torn ELSE torn \cup {c}

FetchError(c) ==
    /\ job[c].at = "fetch"
    /\ Fault(c) /\ Salvage(c)
    /\ UNCHANGED <<now, broken>>

\* A call times out and is tried again, as long as the time of the coin lasts.
FetchTimeout(c) ==
    /\ job[c].at = "fetch"
    /\ Fault(c)
    /\ job[c].spent + ApiTimeout <= SyncTimeout
    /\ IF job[c].tries + 1 >= MaxRetries THEN Salvage(c)
       ELSE /\ job' = [job EXCEPT ![c].spent = @ + ApiTimeout, ![c].tries = @ + 1]
            /\ UNCHANGED <<file, unfinished, torn>>
    /\ UNCHANGED <<now, broken>>

\* The time of the coin is over: what has arrived is dropped.
CoinTimeout(c) ==
    /\ job[c].at = "fetch"
    /\ Fault(c)
    /\ EndJob(c)
    /\ UNCHANGED <<now, file, unfinished, broken, torn>>

-----------------------------------------------------------------------------
(* All coins of a scan.                                                    *)

\* Wrong form: the first coin that is done ends the sync.
SyncDoneFirst == \E c \in Coins : job[c].at = "done"

SyncDone == \A c \in Coins : job[c].at \in {"idle", "done"}

\* The sync as a whole takes too long: every sync that still runs is cancelled.
SyncAllTimeout ==
    /\ ~SyncDone
    /\ faults < MaxFaults /\ faults' = faults + 1
    /\ hit' = hit \cup {c \in Coins : job[c].at \in {"wait", "fetch"}}
    /\ job' = [c \in Coins |-> IF job[c].at = "idle" THEN NoJob ELSE [NoJob EXCEPT !.at = "done"]]
    /\ UNCHANGED <<now, file, unfinished, broken, torn>>

Tick ==
    /\ now < MaxTime
    /\ now' = now + 1
    /\ UNCHANGED <<file, unfinished, broken, job, torn, hit, faults>>

SyncStep(c) ==
    \/ BeginSync(c) \/ FetchPage(c)
    \/ FetchError(c) \/ FetchTimeout(c) \/ CoinTimeout(c)

-----------------------------------------------------------------------------
SyncTypeOK ==
    /\ now \in 0 .. MaxTime
    /\ file \in [Coins -> SUBSET Days]
    /\ unfinished \in [Coins -> SUBSET Days]
    /\ broken \subseteq Coins /\ torn \subseteq Coins /\ hit \subseteq Coins
    /\ job \in [Coins -> Jobs]
    /\ faults \in 0 .. MaxFaults

\* A history has no hole, however often it was extended, unless an error cost a page:
\* then the newest pages are stored alone and no later sync fills the gap.
\* (sync_coin_data, _fetch_historical_data.)
HistoryUnbroken ==
    \A c \in Coins \ torn : file[c] # {} => file[c] = Min(file[c]) .. Max(file[c])

\* What data_sync.py and ARCHITECTURE.md say of a new coin: without an error the sync
\* downloads all of the window, as far as the coin is old enough.
NewCoinDownloaded ==
    \A c \in Coins \ hit : job[c].at = "done" => c \in broken \/ file[c] # {}
=============================================================================
