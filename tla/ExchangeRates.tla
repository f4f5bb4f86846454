--------------------------- MODULE ExchangeRates ---------------------------
(***************************************************************************)
(* Exchange rates (store/exchange_rates.go, store/exchange_watchlist.go and *)
(* their handlers): the table of the home page and the conversion of an    *)
(* amount read a cache in the database and ask a service on the Internet   *)
(* for what it lacks.                                                      *)
(*                                                                         *)
(* None of this code takes Store.mu.  A request reads the settings, the    *)
(* list of currencies, the clock and the cache at different moments; other *)
(* requests, the settings page and midnight come in between.  A cache      *)
(* write is one transaction.                                               *)
(*                                                                         *)
(* A rate is what is known of its age; the window of five weekdays is the  *)
(* days up to the one asked for.  The service answers with every code it   *)
(* knows, or fails.                                                        *)
(***************************************************************************)
EXTENDS Integers, FiniteSets

CONSTANTS
    Readers,        \* requests in flight at the same time
    Codes,          \* currency codes
    Bases,          \* those the settings page may choose as base currency
    Defaults,       \* the list a new database gets
    Quoted,         \* those the service knows
    LastDay         \* bound: days

ASSUME RatesAssumption ==
    /\ Bases \subseteq Codes
    /\ Defaults \subseteq Codes
    /\ Quoted \subseteq Codes
    /\ LastDay \in Nat \ {0}

Days == 1 .. LastDay

VARIABLES
    base,       \* app_settings.base_currency
    watch,      \* the codes in exchange_rate_watchlist
    rate,       \* exchange_rates: day, base, code -> what its rate is
    today,      \* the clock
    reader,     \* the requests in flight
    ahead       \* history: days that a request came for before they began

ratesVars == <<base, watch, rate, today, reader, ahead>>

(* "final": fetched when the day was over; "moving": before that.          *)
Ages == {"none", "final", "moving"}
Age(d, fetched) == IF fetched > d THEN "final" ELSE "moving"

(* The days of a request that had not begun when it read the clock: their  *)
(* rates are saved like those of a day gone by.                            *)
ToCome(days) == {d \in days : d > today}

NoCode == "none"
Reader ==
    [pc : {"idle", "seed", "watch", "day", "live", "fetch", "save", "read",
           "answer", "convert", "cached"},
     grid : BOOLEAN,            \* the table, or a conversion
     base : Codes \cup {NoCode}, codes : SUBSET Codes,
     dates : SUBSET Days,       \* the days of the answer
     left : SUBSET Days,        \* those not yet looked at
     asked : Days,              \* the clock when the request read it
     fetched : Days,            \* the clock when the service answered
     persist : BOOLEAN,
     shown : SUBSET (Days \X Codes)]

Idle(r) == reader[r].pc = "idle"
Set(r, f) == reader' = [reader EXCEPT ![r] = f]
Goto(r, pc) == Set(r, [reader[r] EXCEPT !.pc = pc])

NoReader ==
    [pc |-> "idle", grid |-> FALSE, base |-> NoCode, codes |-> {}, dates |-> {},
     left |-> {}, asked |-> 1, fetched |-> 1, persist |-> FALSE,
     shown |-> {}]

(* The first of the days left.                                             *)
IsNext(d, left) == d \in left /\ \A e \in left : d <= e

RatesInit ==
    /\ base \in Bases
    /\ watch = {}
    /\ rate = [k \in Days \X Codes \X Codes |-> "none"]
    /\ today = 1
    /\ reader = [r \in Readers |-> NoReader]
    /\ ahead = {}

-----------------------------------------------------------------------------
(* The table: settings, ...                                                *)
GridSettings(r, d) ==
    /\ Idle(r)
    /\ Set(r, [NoReader EXCEPT !.pc = "seed", !.grid = TRUE, !.base = base,
                               !.dates = 1 .. d])
    /\ UNCHANGED <<base, watch, rate, today, ahead>>

(* ... an empty list gets the defaults, ...                                *)
SeedWatchlist(r) ==
    /\ reader[r].pc = "seed"
    /\ watch' = IF watch = {} THEN Defaults ELSE watch
    /\ Goto(r, "watch")
    /\ UNCHANGED <<base, rate, today, ahead>>

(* ... the list without the base, and the clock, once for all days, ...    *)
ReadWatchlist(r) ==
    /\ reader[r].pc = "watch"
    /\ LET codes == watch \ {reader[r].base}
       IN  Set(r, [reader[r] EXCEPT !.pc = IF codes = {} THEN "read" ELSE "day",
                                    !.codes = codes,
                                    !.left = reader[r].dates,
                                    !.asked = today])
    /\ ahead' = ahead \cup ToCome(reader[r].dates)
    /\ UNCHANGED <<base, watch, rate, today>>

(* ... then day by day: today's rates are fetched, the others counted in   *)
(* the cache and fetched when one is not there.                            *)
Cached(b, d, codes) == \A c \in codes : rate[<<d, b, c>>] # "none"
GridDay(r, d) ==
    /\ reader[r].pc = "day"
    /\ IsNext(d, reader[r].left)
    /\ IF d = reader[r].asked THEN Goto(r, "live")
       ELSE IF Cached(reader[r].base, d, reader[r].codes)
            THEN Set(r, [reader[r] EXCEPT !.left = @ \ {d}])
            ELSE Goto(r, "fetch")
    /\ UNCHANGED <<base, watch, rate, today, ahead>>

(* What the service can answer to this request.                            *)
Answer(r) == reader[r].codes \cap Quoted

FetchLive(r, d) ==
    /\ reader[r].pc = "live"
    /\ IsNext(d, reader[r].left)
    /\ Answer(r) # {}
    /\ Set(r, [reader[r] EXCEPT !.pc = "day", !.left = @ \ {d},
                                !.shown = @ \cup ({d} \X Answer(r))])
    /\ UNCHANGED <<base, watch, rate, today, ahead>>

Fetch(r) ==
    /\ reader[r].pc = "fetch"
    /\ Answer(r) # {}
    /\ Set(r, [reader[r] EXCEPT !.pc = "save", !.fetched = today])
    /\ UNCHANGED <<base, watch, rate, today, ahead>>

FetchFails(r) ==
    /\ reader[r].pc \in {"live", "fetch"}
    /\ Set(r, NoReader)
    /\ UNCHANGED <<base, watch, rate, today, ahead>>

(* ReplaceExchangeQuotesForDate: the rows of the codes in the answer.      *)
Replace(b, d, codes, age) ==
    rate' = [k \in DOMAIN rate |->
                IF k[1] = d /\ k[2] = b /\ k[3] \in codes THEN age ELSE rate[k]]
SaveLater(r, d) == today # d                                \* mutant
Saves(r, d) == reader[r].persist
SaveRates(r, d) ==
    /\ reader[r].pc = "save"
    /\ IsNext(d, reader[r].left)
    /\ IF reader[r].grid \/ Saves(r, d)
       THEN Replace(reader[r].base, d, Answer(r), Age(d, reader[r].fetched))
       ELSE UNCHANGED rate
    /\ IF reader[r].grid THEN Set(r, [reader[r] EXCEPT !.pc = "day",
                                                       !.left = @ \ {d},
                                                       !.fetched = 1])
       ELSE Set(r, NoReader)
    /\ UNCHANGED <<base, watch, today, ahead>>

(* All days done: the answer is read from the cache, with the live rates.  *)
BaseOfNow(r) == base                                        \* mutant
BaseOf(r) == reader[r].base
ReadGrid(r) ==
    /\ reader[r].pc \in {"day", "read"}
    /\ reader[r].left = {} \/ reader[r].pc = "read"
    /\ Set(r, [reader[r] EXCEPT !.pc = "answer",
                  !.shown = @ \cup {k \in reader[r].dates \X reader[r].codes :
                                       rate[<<k[1], BaseOf(r), k[2]>>] # "none"}])
    /\ UNCHANGED <<base, watch, rate, today, ahead>>

Answered(r) ==
    /\ reader[r].pc = "answer"
    /\ Set(r, NoReader)
    /\ UNCHANGED <<base, watch, rate, today, ahead>>

-----------------------------------------------------------------------------
(* A conversion: the settings, ...                                         *)
ConvertSettings(r, d, codes) ==
    /\ Idle(r)
    /\ codes \ {base} # {}
    /\ Set(r, [NoReader EXCEPT !.pc = "convert", !.base = base,
                               !.codes = codes \ {base}, !.left = {d}])
    /\ UNCHANGED <<base, watch, rate, today, ahead>>

(* ... persist := !dateStrIsToday(dateStr), ...                            *)
ConvertPersist(r, d) ==
    /\ reader[r].pc = "convert"
    /\ d \in reader[r].left
    /\ Set(r, [reader[r] EXCEPT !.pc = "cached", !.asked = today,
                                !.persist = (d # today)])
    /\ ahead' = ahead \cup ToCome({d})
    /\ UNCHANGED <<base, watch, rate, today>>

(* ... and ensureRatesForQuotes looks at the clock once more: today's       *)
(* rates are fetched and not saved, of another day those not in the cache. *)
EnsureRatesForQuotes(r, d) ==
    /\ reader[r].pc = "cached"
    /\ d \in reader[r].left
    /\ LET missing == {c \in reader[r].codes :
                          rate[<<d, reader[r].base, c>>] = "none"}
       IN  IF d = today
           THEN Set(r, [reader[r] EXCEPT !.pc = "fetch", !.persist = FALSE])
           ELSE IF missing = {} THEN Set(r, NoReader)
                ELSE Set(r, [reader[r] EXCEPT !.pc = "fetch", !.codes = missing])
    /\ UNCHANGED <<base, watch, rate, today, ahead>>

-----------------------------------------------------------------------------
ListExchangeRateWatchlist ==
    /\ watch = {}
    /\ watch' = Defaults
    /\ UNCHANGED <<base, rate, today, reader, ahead>>

AddExchangeRateWatchlist(c) ==
    /\ watch' = watch \cup {c}
    /\ UNCHANGED <<base, rate, today, reader, ahead>>

DeleteExchangeRateWatchlist(c) ==
    /\ c \in watch
    /\ watch' = watch \ {c}
    /\ UNCHANGED <<base, rate, today, reader, ahead>>

SetBaseCurrency(b) ==
    /\ base' = b
    /\ UNCHANGED <<watch, rate, today, reader, ahead>>

Midnight ==
    /\ today < LastDay
    /\ today' = today + 1
    /\ UNCHANGED <<base, watch, rate, reader, ahead>>

HandleExchangeRates(r) ==
    \/ \E d \in Days : GridSettings(r, d) \/ GridDay(r, d) \/ FetchLive(r, d)
    \/ SeedWatchlist(r) \/ ReadWatchlist(r) \/ ReadGrid(r) \/ Answered(r)

HandleExchangeRatesConvert(r) ==
    \E d \in Days :
        \/ ConvertPersist(r, d) \/ EnsureRatesForQuotes(r, d)
        \/ \E from, to \in Codes : ConvertSettings(r, d, {from, to})

HandleExchangeRateCodes ==
    \/ ListExchangeRateWatchlist
    \/ \E c \in Codes :
          AddExchangeRateWatchlist(c) \/ DeleteExchangeRateWatchlist(c)

RatesNext ==
    \/ \E r \in Readers :
          \/ HandleExchangeRates(r) \/ HandleExchangeRatesConvert(r)
          \/ Fetch(r) \/ FetchFails(r)
          \/ \E d \in Days : SaveRates(r, d)
    \/ HandleExchangeRateCodes
    \/ \E b \in Bases : SetBaseCurrency(b)
    \/ Midnight

RatesSpec == RatesInit /\ [][RatesNext]_ratesVars

-----------------------------------------------------------------------------
RatesTypeOK ==
    /\ base \in Bases
    /\ watch \subseteq Codes
    /\ rate \in [Days \X Codes \X Codes -> Ages]
    /\ today \in Days
    /\ reader \in [Readers -> Reader]
    /\ ahead \subseteq Days

(* What the cache has of a day was fetched after the day was over, whoever *)
(* asks for it, whichever of the looks at the clock midnight comes between *)
(* and whatever is saved late (persist=false, exchange_convert.go:63-103). *)
(* A day that some request came for before it began is excepted: such a    *)
(* request keeps what the service answers then, or later on the day.       *)
NoMovingRateKept ==
    \A d \in Days \ ahead, b \in Codes, c \in Codes :
        rate[<<d, b, c>>] # "moving"

(* A table the page gets has a rate for every listed currency the service  *)
(* knows on every day of the window, though the base currency, the list    *)
(* and the date may have changed while it was put together                 *)
(* (handleExchangeRates, exchange_rates.go:103-248).                       *)
TableWhole ==
    \A r \in Readers : reader[r].pc = "answer" =>
        \A d \in reader[r].dates, c \in reader[r].codes \cap Quoted :
            <<d, c>> \in reader[r].shown
=============================================================================
