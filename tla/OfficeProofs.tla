---------------------------- MODULE OfficeProofs ----------------------------
(***************************************************************************)
(* Theorems about the start of the server, the exchange rates and the      *)
(* deductions of a year, and about the five parts of MCOffice side by      *)
(* side: for any tasks and companies and any number of stops, any readers, *)
(* currencies and days, any pays, earnings codes and published rates.      *)
(***************************************************************************)
EXTENDS MCOffice, BankAccountsProofs, AccountsProofs
-----------------------------------------------------------------------------
(* Exchange rates.  Inductive: the day a request is about to save is not   *)
(* the one its clock showed (a table), or the request knows that it is not *)
(* (a conversion); it asked before the service answered, so what it saves  *)
(* is final or of a day that had not begun.  Of a table, the days already  *)
(* looked at have their rates, in the cache or among those just fetched; a *)
(* cached rate never goes away, whatever other requests save meanwhile.    *)

ReaderAsked(w, now) ==
    /\ w.asked <= now
    /\ w.pc = "save" => w.asked <= w.fetched

ReaderStage(w) ==
    /\ w.pc # "idle" => w.base \in Codes
    /\ w.pc \in {"seed", "watch", "day", "live", "read", "answer"} => w.grid
    /\ w.pc \in {"convert", "cached"} => ~w.grid
    /\ w.pc = "convert" => \A d, e \in w.left : d = e
    /\ w.pc = "read" => w.codes = {}

NotOfToday(w) ==
    /\ w.persist => ~w.grid /\ w.asked \notin w.left
    /\ w.grid /\ w.pc \in {"fetch", "save"} =>
          \A d \in w.left : IsNext(d, w.left) => d # w.asked

CameEarly(w, days) ==
    w.persist \/ (w.grid /\ w.pc \in {"day", "live", "fetch", "save"}) =>
        \A d \in w.left : d > w.asked => d \in days

Known(w, d, c, table) ==
    <<d, c>> \in w.shown \/ table[<<d, w.base, c>>] # "none"
ReaderWhole(w, table) ==
    /\ w.grid /\ w.pc \in {"day", "live", "fetch", "save"} =>
          \A d \in w.dates \ w.left, c \in w.codes \cap Quoted :
              Known(w, d, c, table)
    /\ w.pc = "answer" =>
          \A d \in w.dates, c \in w.codes \cap Quoted : <<d, c>> \in w.shown

ReaderOK(w, now, table, days) ==
    /\ w \in Reader
    /\ ReaderAsked(w, now) /\ ReaderStage(w) /\ NotOfToday(w)
    /\ ReaderWhole(w, table) /\ CameEarly(w, days)

RatesInv ==
    /\ RatesTypeOK
    /\ \A r \in Readers : ReaderOK(reader[r], today, rate, ahead)
    /\ NoMovingRateKept

LEMMA DaysAre == Days \subseteq Nat /\ 1 \in Days /\ \A d \in Days : 1 <= d
BY RatesAssumption DEF Days

LEMMA NoReaderOK ==
    ASSUME today \in Days
    PROVE  ReaderOK(NoReader, today, rate, ahead)
<1>1. NoReader \in Reader
    BY DaysAre DEF NoReader, Reader
<1>2. ReaderAsked(NoReader, today)
    BY DaysAre DEF NoReader, ReaderAsked
<1>3. QED
    BY <1>1, <1>2 DEF ReaderOK, NoReader, ReaderStage, NotOfToday, CameEarly,
        ReaderWhole

(* Time passing and other requests' rates do not disturb a request.        *)
LEMMA ReaderStays ==
    ASSUME NEW w, ReaderOK(w, today, rate, ahead), today \in Days,
           today' \in Days, today <= today', ahead \subseteq ahead',
           \A k \in Days \X Codes \X Codes :
               rate[k] # "none" => rate'[k] # "none"
    PROVE  ReaderOK(w, today', rate', ahead')
<1>1. w \in Reader /\ w.asked \in Days /\ w.fetched \in Days
      /\ w.codes \subseteq Codes /\ w.dates \subseteq Days
    BY DEF ReaderOK, Reader
<1>2. ReaderAsked(w, today')
    <2>1. w.asked \in Nat /\ today \in Nat /\ today' \in Nat
        BY <1>1, DaysAre
    <2>2. QED
        BY <2>1 DEF ReaderOK, ReaderAsked
<1>3. ReaderWhole(w, rate')
    BY <1>1 DEF ReaderOK, ReaderStage, ReaderWhole, Known
<1>4. CameEarly(w, ahead')
    BY DEF ReaderOK, CameEarly
<1>5. QED
    BY <1>1, <1>2, <1>3, <1>4 DEF ReaderOK

(* What a step has to show: its own request, and the rates it saves.       *)
LEMMA RatesMove ==
    ASSUME RatesInv, base' \in Bases, watch' \subseteq Codes,
           today' \in Days, today <= today',
           ahead \subseteq ahead', ahead' \subseteq Days,
           rate' \in [Days \X Codes \X Codes -> Ages],
           \A k \in Days \X Codes \X Codes :
               /\ rate[k] # "none" => rate'[k] # "none"
               /\ rate'[k] = "moving" => rate[k] = "moving" \/ k[1] \in ahead',
           \/ UNCHANGED reader
           \/ \E r \in Readers : \E w :
                 /\ reader' = [reader EXCEPT ![r] = w]
                 /\ ReaderOK(w, today', rate', ahead')
    PROVE  RatesInv'
<1>1. \A r \in Readers : ReaderOK(reader[r], today', rate', ahead')
    BY ReaderStays DEF RatesInv, RatesTypeOK
<1>2. reader \in [Readers -> Reader]
    BY DEF RatesInv, RatesTypeOK
<1>3. \A r \in Readers : ReaderOK(reader'[r], today', rate', ahead')
    BY <1>1, <1>2
<1>4. reader' \in [Readers -> Reader]
    BY <1>2 DEF ReaderOK
<1>5. NoMovingRateKept'
    BY DEF NoMovingRateKept, RatesInv
<1>6. QED
    BY <1>3, <1>4, <1>5 DEF RatesInv, RatesTypeOK

(* The request of a step that saves nothing.                               *)
LEMMA ReaderStep ==
    ASSUME RatesInv, NEW r \in Readers, NEW w, Set(r, w),
           ReaderOK(w, today, rate, ahead'), UNCHANGED <<base, rate, today>>,
           ahead \subseteq ahead', ahead' \subseteq Days,
           watch' \subseteq Codes
    PROVE  RatesInv'
<1>1. /\ base \in Bases /\ rate \in [Days \X Codes \X Codes -> Ages]
      /\ today \in Days
    BY DEF RatesInv, RatesTypeOK
<1>2. today <= today
    BY <1>1, DaysAre
<1>3. ReaderOK(w, today', rate', ahead')
    OBVIOUS
<1>4. QED
    BY <1>1, <1>2, <1>3, RatesMove DEF Set

(* ... and knows of no day to come that was not known of.                  *)
LEMMA ReaderGoes ==
    ASSUME RatesInv, NEW r \in Readers, NEW w, Set(r, w),
           ReaderOK(w, today, rate, ahead),
           UNCHANGED <<base, rate, today, ahead>>,
           watch' \subseteq Codes
    PROVE  RatesInv'
BY ReaderStep DEF RatesInv, RatesTypeOK

LEMMA GridSettingsStep ==
    ASSUME RatesInv, NEW r \in Readers, NEW d \in Days, GridSettings(r, d)
    PROVE  RatesInv'
<1> DEFINE w == [NoReader EXCEPT !.pc = "seed", !.grid = TRUE, !.base = base,
                               !.dates = 1 .. d]
<1>1. /\ base \in Codes /\ today \in Days /\ watch \subseteq Codes
      /\ 1 .. d \subseteq Days
    BY RatesAssumption DEF RatesInv, RatesTypeOK, Days
<1>2. w \in Reader
    BY <1>1, DaysAre DEF NoReader, Reader
<1>3. ReaderOK(w, today, rate, ahead)
    BY <1>1, <1>2, DaysAre DEF NoReader, ReaderOK, ReaderAsked, ReaderStage,
        NotOfToday, CameEarly, ReaderWhole
<1>4. QED
    BY <1>1, <1>3, ReaderGoes DEF GridSettings

LEMMA SeedWatchlistStep ==
    ASSUME RatesInv, NEW r \in Readers, SeedWatchlist(r)
    PROVE  RatesInv'
<1> DEFINE w == [reader[r] EXCEPT !.pc = "watch"]
<1>1. /\ ReaderOK(reader[r], today, rate, ahead) /\ reader[r] \in Reader
      /\ watch' \subseteq Codes
    BY RatesAssumption DEF RatesInv, RatesTypeOK, SeedWatchlist, ReaderOK
<1>2. w \in Reader
    BY <1>1 DEF Reader
<1>3. ReaderOK(w, today, rate, ahead)
    BY <1>1, <1>2 DEF SeedWatchlist, Reader, ReaderOK, ReaderAsked,
        ReaderStage, NotOfToday, CameEarly, ReaderWhole
<1>4. QED
    BY <1>1, <1>3, ReaderGoes DEF SeedWatchlist, Goto

LEMMA ReadWatchlistStep ==
    ASSUME RatesInv, NEW r \in Readers, ReadWatchlist(r)
    PROVE  RatesInv'
<1> DEFINE codes == watch \ {reader[r].base}
           w == [reader[r] EXCEPT !.pc = IF codes = {} THEN "read" ELSE "day",
                                  !.codes = codes,
                                  !.left = reader[r].dates,
                                  !.asked = today]
<1>1. /\ ReaderOK(reader[r], today, rate, ahead) /\ reader[r] \in Reader
      /\ watch \subseteq Codes /\ today \in Days
    BY DEF RatesInv, RatesTypeOK, ReaderOK
<1>2. w \in Reader
    BY <1>1 DEF Reader
<1>3. /\ w.pc \in {"read", "day"} /\ w.codes = codes
      /\ w.left = reader[r].dates /\ w.asked = today
      /\ w.grid = reader[r].grid /\ w.base = reader[r].base
      /\ w.dates = reader[r].dates /\ w.persist = reader[r].persist
      /\ w.pc = "read" => codes = {}
    BY <1>1 DEF Reader
<1> HIDE DEF codes, w
<1>4. /\ ahead' = ahead \cup ToCome(reader[r].dates)
      /\ ahead \subseteq Days /\ reader[r].dates \subseteq Days
    BY <1>1 DEF ReadWatchlist, RatesInv, RatesTypeOK, Reader
<1>5. CameEarly(w, ahead')
    BY <1>1, <1>3, <1>4 DEF ReadWatchlist, ReaderOK, NotOfToday, ReaderStage,
        CameEarly, ToCome
<1>6. ReaderOK(w, today, rate, ahead')
    BY <1>1, <1>2, <1>3, <1>5, DaysAre
    DEF ReadWatchlist, ReaderOK, ReaderAsked,
        ReaderStage, NotOfToday, ReaderWhole
<1>7. ahead \subseteq ahead' /\ ahead' \subseteq Days
    BY <1>4 DEF ToCome
<1>8. QED
    BY <1>1, <1>6, <1>7, ReaderStep DEF ReadWatchlist, w, codes

(* The request a step starts from.                                         *)
LEMMA ReaderIs ==
    ASSUME RatesInv, NEW r \in Readers
    PROVE  /\ reader[r] \in Reader /\ ReaderOK(reader[r], today, rate, ahead)
           /\ today \in Days /\ watch \subseteq Codes
BY DEF RatesInv, RatesTypeOK, ReaderOK

LEMMA GridDayStep ==
    ASSUME RatesInv, NEW r \in Readers, NEW d \in Days, GridDay(r, d)
    PROVE  RatesInv'
<1> DEFINE live == [reader[r] EXCEPT !.pc = "live"]
           next == [reader[r] EXCEPT !.left = @ \ {d}]
           fetch == [reader[r] EXCEPT !.pc = "fetch"]
<1> USE ReaderIs
<1>1. /\ live \in Reader /\ next \in Reader /\ fetch \in Reader
      /\ watch' \subseteq Codes
    BY DEF Reader, GridDay
<1>2. ReaderOK(live, today, rate, ahead)
    BY <1>1 DEF GridDay, Reader, ReaderOK, ReaderAsked, ReaderStage,
        NotOfToday, CameEarly, ReaderWhole, Known
<1>3. ASSUME d # reader[r].asked PROVE ReaderOK(fetch, today, rate, ahead)
    <2>1. \A e \in fetch.left : IsNext(e, fetch.left) => e = d
        BY <1>1, DaysAre DEF GridDay, IsNext, Reader
    <2>2. QED
        BY <1>1, <1>3, <2>1 DEF GridDay, Reader, ReaderOK, ReaderAsked,
            ReaderStage, NotOfToday, CameEarly, ReaderWhole, Known
<1>4. ASSUME Cached(reader[r].base, d, reader[r].codes)
      PROVE  ReaderOK(next, today, rate, ahead)
    <2>1. /\ next.left = reader[r].left \ {d} /\ next.dates = reader[r].dates
          /\ next.codes = reader[r].codes /\ next.shown = reader[r].shown
          /\ next.base = reader[r].base /\ next.pc = "day"
          /\ next.grid = reader[r].grid /\ next.asked = reader[r].asked
          /\ next.persist = reader[r].persist
          /\ reader[r].pc = "day"
        BY DEF Reader, GridDay
    <2> HIDE DEF next
    <2>2. ReaderWhole(next, rate)
        BY <1>4, <2>1 DEF Reader, ReaderOK, ReaderWhole, Known, Cached
    <2>3. QED
        BY <1>1, <2>1, <2>2 DEF ReaderOK, ReaderAsked, ReaderStage, NotOfToday,
            CameEarly
<1>5. UNCHANGED <<base, rate, today, ahead>>
    BY DEF GridDay
<1>6. \/ Set(r, live)
      \/ Set(r, next) /\ Cached(reader[r].base, d, reader[r].codes)
      \/ Set(r, fetch) /\ d # reader[r].asked
    BY DEF GridDay, Goto
<1> HIDE DEF live, next, fetch
<1>7. QED
    BY <1>1, <1>2, <1>3, <1>4, <1>5, <1>6, ReaderGoes

LEMMA FetchLiveStep ==
    ASSUME RatesInv, NEW r \in Readers, NEW d \in Days, FetchLive(r, d)
    PROVE  RatesInv'
<1> DEFINE w == [reader[r] EXCEPT !.pc = "day", !.left = @ \ {d},
                                  !.shown = @ \cup ({d} \X Answer(r))]
<1> USE ReaderIs
<1>1. w \in Reader /\ watch' \subseteq Codes
    <2>1. reader[r] \in Reader
        OBVIOUS
    <2>2. Answer(r) \subseteq Codes
        BY <2>1 DEF Reader, Answer
    <2>3. {d} \X Answer(r) \subseteq Days \X Codes
        BY <2>2
    <2>4. w \in Reader
        BY <2>1, <2>3 DEF Reader
    <2>5. QED
        BY <2>4 DEF FetchLive
<1>2. /\ w.left = reader[r].left \ {d} /\ w.dates = reader[r].dates
      /\ w.codes = reader[r].codes /\ w.base = reader[r].base
      /\ w.pc = "day" /\ w.grid = reader[r].grid
      /\ w.asked = reader[r].asked /\ w.persist = reader[r].persist
      /\ w.shown = reader[r].shown \cup ({d} \X Answer(r))
      /\ reader[r].pc = "live"
    BY DEF Reader, FetchLive
<1> HIDE DEF w
<1>3. ReaderWhole(w, rate)
    BY <1>2 DEF Reader, ReaderOK, ReaderWhole, Known, Answer
<1>4. ReaderOK(w, today, rate, ahead)
    BY <1>1, <1>2, <1>3 DEF ReaderOK, ReaderAsked, ReaderStage, NotOfToday,
        CameEarly
<1>5. QED
    BY <1>1, <1>4, ReaderGoes DEF FetchLive, w

LEMMA FetchStep ==
    ASSUME RatesInv, NEW r \in Readers, Fetch(r)
    PROVE  RatesInv'
<1> DEFINE w == [reader[r] EXCEPT !.pc = "save", !.fetched = today]
<1> USE ReaderIs
<1>1. w \in Reader /\ watch' \subseteq Codes
    BY DEF Fetch, Reader
<1>2. ReaderOK(w, today, rate, ahead)
    BY <1>1 DEF Fetch, Reader, ReaderOK, ReaderAsked, ReaderStage,
        NotOfToday, CameEarly, ReaderWhole, Known
<1>3. QED
    BY <1>1, <1>2, ReaderGoes DEF Fetch

LEMMA GivenUp ==
    ASSUME RatesInv, NEW r \in Readers, FetchFails(r) \/ Answered(r)
    PROVE  RatesInv'
<1>1. Set(r, NoReader) /\ UNCHANGED <<base, watch, rate, today, ahead>>
    BY DEF FetchFails, Answered
<1>2. QED
    BY <1>1, ReaderIs, NoReaderOK, ReaderGoes

LEMMA ReadGridStep ==
    ASSUME RatesInv, NEW r \in Readers, ReadGrid(r)
    PROVE  RatesInv'
<1> DEFINE seen == {k \in reader[r].dates \X reader[r].codes :
                        rate[<<k[1], BaseOf(r), k[2]>>] # "none"}
           w == [reader[r] EXCEPT !.pc = "answer", !.shown = @ \cup seen]
<1> USE ReaderIs
<1>1. w \in Reader /\ watch' \subseteq Codes
    BY DEF ReadGrid, Reader
<1>2. /\ w.left = reader[r].left /\ w.dates = reader[r].dates
      /\ w.codes = reader[r].codes /\ w.base = reader[r].base
      /\ w.pc = "answer" /\ w.grid = reader[r].grid
      /\ w.asked = reader[r].asked /\ w.persist = reader[r].persist
      /\ w.shown = reader[r].shown \cup seen
      /\ reader[r].pc = "read" \/ (reader[r].pc = "day" /\ reader[r].left = {})
    BY DEF Reader, ReadGrid
<1> HIDE DEF w
<1>3. \A d \in w.dates, c \in w.codes \cap Quoted : <<d, c>> \in w.shown
    <2>1. CASE reader[r].pc = "read"
        BY <1>2, <2>1 DEF ReaderOK, ReaderStage
    <2>2. CASE reader[r].pc = "day" /\ reader[r].left = {}
        <3>1. reader[r].grid /\ reader[r].dates \ reader[r].left = w.dates
            BY <1>2, <2>2 DEF ReaderOK, ReaderStage
        <3>2. \A d \in w.dates, c \in w.codes \cap Quoted :
                Known(reader[r], d, c, rate)
            BY <1>2, <2>2, <3>1 DEF ReaderOK, ReaderWhole
        <3>3. SUFFICES ASSUME NEW d \in w.dates, NEW c \in w.codes \cap Quoted,
                              <<d, c>> \notin reader[r].shown
                       PROVE  <<d, c>> \in seen
            BY <1>2
        <3>4. rate[<<d, BaseOf(r), c>>] # "none"
            BY <3>2, <3>3 DEF Known, BaseOf
        <3>5. QED
            BY <1>2, <3>4
    <2>3. QED
        BY <1>2, <2>1, <2>2
<1>4. ReaderOK(w, today, rate, ahead)
    BY <1>1, <1>2, <1>3 DEF ReaderOK, ReaderAsked, ReaderStage, NotOfToday,
        CameEarly, ReaderWhole
<1>5. QED
    BY <1>1, <1>4, ReaderGoes DEF ReadGrid, w

LEMMA ConvertSettingsStep ==
    ASSUME RatesInv, NEW r \in Readers, NEW d \in Days, NEW codes \in SUBSET Codes,
           ConvertSettings(r, d, codes)
    PROVE  RatesInv'
<1> DEFINE w == [NoReader EXCEPT !.pc = "convert", !.base = base,
                               !.codes = codes \ {base}, !.left = {d}]
<1>1. base \in Codes /\ today \in Days /\ watch' \subseteq Codes
    BY RatesAssumption DEF RatesInv, RatesTypeOK, ConvertSettings
<1>2. w \in Reader
    BY <1>1, DaysAre DEF NoReader, Reader
<1>3. ReaderOK(w, today, rate, ahead)
    BY <1>1, <1>2, DaysAre DEF NoReader, ReaderOK, ReaderAsked, ReaderStage,
        NotOfToday, CameEarly, ReaderWhole
<1>4. QED
    BY <1>1, <1>3, ReaderGoes DEF ConvertSettings

LEMMA ConvertPersistStep ==
    ASSUME RatesInv, NEW r \in Readers, NEW d \in Days, ConvertPersist(r, d)
    PROVE  RatesInv'
<1> DEFINE w == [reader[r] EXCEPT !.pc = "cached", !.asked = today,
                                  !.persist = (d # today)]
<1> USE ReaderIs
<1>1. w \in Reader /\ watch' \subseteq Codes
    BY DEF ConvertPersist, Reader
<1>2. /\ w.pc = "cached" /\ w.asked = today /\ w.persist = (d # today)
      /\ w.left = reader[r].left /\ w.grid = reader[r].grid
      /\ w.base = reader[r].base /\ reader[r].pc = "convert"
      /\ d \in reader[r].left
    BY DEF ConvertPersist, Reader
<1> HIDE DEF w
<1>3. NotOfToday(w)
    <2>1. (\A e \in w.left : e = d) /\ ~w.grid
        BY <1>2 DEF ReaderOK, ReaderStage
    <2>2. QED
        BY <1>2, <2>1 DEF NotOfToday, CameEarly
<1>4. ReaderAsked(w, today) /\ ReaderWhole(w, rate)
    <2>1. today \in Days
        OBVIOUS
    <2>2. today <= today
        BY <2>1, DaysAre
    <2>3. QED
        BY <1>2, <2>2 DEF ReaderAsked, ReaderWhole
<1>5. ReaderStage(w)
    BY <1>2 DEF ReaderOK, ReaderStage
<1>6. /\ ahead' = ahead \cup ToCome({d}) /\ ahead \subseteq Days
      /\ d \in Days
    BY DEF ConvertPersist, RatesInv, RatesTypeOK
<1>7. CameEarly(w, ahead')
    <2>1. (\A e \in w.left : e = d) /\ ~w.grid
        BY <1>2 DEF ReaderOK, ReaderStage
    <2>2. QED
        BY <1>2, <1>6, <2>1 DEF CameEarly, ToCome
<1>8. ReaderOK(w, today, rate, ahead')
    BY <1>1, <1>3, <1>4, <1>5, <1>7 DEF ReaderOK
<1>9. ahead \subseteq ahead' /\ ahead' \subseteq Days
    BY <1>6 DEF ToCome
<1>10. QED
    BY <1>1, <1>8, <1>9, ReaderStep DEF ConvertPersist, w

LEMMA EnsureStep ==
    ASSUME RatesInv, NEW r \in Readers, NEW d \in Days,
           EnsureRatesForQuotes(r, d)
    PROVE  RatesInv'
<1> DEFINE missing == {c \in reader[r].codes :
                          rate[<<d, reader[r].base, c>>] = "none"}
           unsaved == [reader[r] EXCEPT !.pc = "fetch", !.persist = FALSE]
           saved == [reader[r] EXCEPT !.pc = "fetch", !.codes = missing]
<1> USE ReaderIs
<1>1. unsaved \in Reader /\ saved \in Reader /\ watch' \subseteq Codes
    BY DEF EnsureRatesForQuotes, Reader
<1>2. ReaderOK(unsaved, today, rate, ahead)
    BY <1>1 DEF EnsureRatesForQuotes, Reader, ReaderOK, ReaderAsked,
        ReaderStage, NotOfToday, CameEarly, ReaderWhole
<1>3. ReaderOK(saved, today, rate, ahead)
    <2> HIDE DEF missing
    <2>1. QED
        BY <1>1 DEF EnsureRatesForQuotes, Reader, ReaderOK, ReaderAsked,
            ReaderStage, NotOfToday, CameEarly, ReaderWhole
<1>4. /\ Set(r, unsaved) \/ Set(r, NoReader) \/ Set(r, saved)
      /\ UNCHANGED <<base, rate, today, ahead>>
    BY DEF EnsureRatesForQuotes
<1> HIDE DEF unsaved, saved
<1>5. QED
    BY <1>1, <1>2, <1>3, <1>4, NoReaderOK, ReaderGoes

(* What is saved is final, or of a day that a request came for before it   *)
(* began.                                                                  *)
LEMMA SavedSettled ==
    ASSUME RatesInv, NEW r \in Readers, NEW d \in Days, SaveRates(r, d),
           reader[r].grid \/ Saves(r, d)
    PROVE  Age(d, reader[r].fetched) = "final" \/ d \in ahead
<1>1. /\ d \in Nat /\ reader[r].asked \in Nat /\ reader[r].fetched \in Nat
      /\ reader[r].pc = "save" /\ IsNext(d, reader[r].left)
      /\ d \in reader[r].left
    BY ReaderIs, DaysAre DEF SaveRates, Reader, IsNext
<1>2. reader[r].asked <= reader[r].fetched
    BY <1>1, ReaderIs DEF ReaderOK, ReaderAsked
<1>3. d # reader[r].asked
    BY <1>1, ReaderIs DEF ReaderOK, NotOfToday, CameEarly, Saves
<1>4. d > reader[r].asked => d \in ahead
    BY <1>1, ReaderIs DEF ReaderOK, CameEarly, Saves
<1>5. QED
    BY <1>1, <1>2, <1>3, <1>4 DEF Age

LEMMA SaveRatesStep ==
    ASSUME RatesInv, NEW r \in Readers, NEW d \in Days, SaveRates(r, d)
    PROVE  RatesInv'
<1> DEFINE w == [reader[r] EXCEPT !.pc = "day", !.left = @ \ {d}, !.fetched = 1]
           age == Age(d, reader[r].fetched)
           b == reader[r].base
<1> USE ReaderIs
<1>1. /\ b \in Codes /\ Answer(r) \subseteq Codes
      /\ rate \in [Days \X Codes \X Codes -> Ages]
      /\ reader[r].pc = "save" /\ d \in reader[r].left
    BY DEF SaveRates, ReaderOK, ReaderStage, Reader, Answer, RatesInv,
        RatesTypeOK, IsNext
<1>2. \/ UNCHANGED rate /\ ~reader[r].grid
      \/ /\ Replace(b, d, Answer(r), age)
         /\ age = "final" \/ d \in ahead
         /\ age \in {"final", "moving"}
    BY SavedSettled DEF SaveRates, Age
<1> HIDE DEF age
<1>3. UNCHANGED ahead /\ ahead \subseteq Days
    BY DEF SaveRates, RatesInv, RatesTypeOK
<1>4. /\ rate' \in [Days \X Codes \X Codes -> Ages]
      /\ \A k \in Days \X Codes \X Codes :
            /\ rate[k] # "none" => rate'[k] # "none"
            /\ rate'[k] = "moving" => rate[k] = "moving" \/ k[1] \in ahead'
    BY <1>1, <1>2, <1>3 DEF Replace, Ages
<1>5. /\ base' \in Bases /\ watch' \subseteq Codes /\ UNCHANGED today
      /\ today' \in Days
    BY DEF SaveRates, RatesInv, RatesTypeOK
<1>6. today <= today'
    BY <1>5, DaysAre
<1>7. ReaderOK(NoReader, today', rate', ahead')
    BY <1>3, <1>4, <1>5, <1>6, NoReaderOK, ReaderStays
<1>8. ASSUME reader[r].grid PROVE ReaderOK(w, today', rate', ahead')
    <2>1. w \in Reader
        BY DaysAre DEF Reader
    <2>2. /\ w.left = reader[r].left \ {d} /\ w.dates = reader[r].dates
          /\ w.codes = reader[r].codes /\ w.base = b
          /\ w.pc = "day" /\ w.grid = reader[r].grid
          /\ w.asked = reader[r].asked /\ w.persist = reader[r].persist
          /\ w.shown = reader[r].shown
        BY DEF Reader
    <2> HIDE DEF w
    <2>3. \A c \in w.codes \cap Quoted : rate'[<<d, b, c>>] # "none"
        BY <1>1, <1>2, <1>8, <2>2 DEF Replace, Answer
    <2>4. ASSUME NEW e \in w.dates \ w.left, NEW c \in w.codes \cap Quoted
          PROVE  Known(w, e, c, rate')
        <3>1. CASE e = d
            BY <2>2, <2>3, <3>1 DEF Known
        <3>2. CASE e # d
            <4>1. <<e, b, c>> \in Days \X Codes \X Codes
                BY <1>1, <2>1, <2>2 DEF Reader
            <4>2. Known(reader[r], e, c, rate)
                BY <1>1, <1>8, <2>2, <3>2 DEF ReaderOK, ReaderWhole
            <4>3. QED
                BY <1>4, <2>2, <4>1, <4>2 DEF Known
        <3>3. QED
            BY <3>1, <3>2
    <2>5. ReaderWhole(w, rate')
        BY <2>2, <2>4 DEF ReaderWhole
    <2>6. ReaderAsked(w, today')
        BY <1>5, <2>2 DEF ReaderOK, ReaderAsked
    <2>7. ReaderStage(w) /\ NotOfToday(w) /\ CameEarly(w, ahead')
        BY <1>1, <1>3, <1>8, <2>2 DEF ReaderOK, ReaderStage, NotOfToday,
            CameEarly
    <2>8. QED
        BY <2>1, <2>5, <2>6, <2>7 DEF ReaderOK
<1>9. Set(r, NoReader) \/ (reader[r].grid /\ Set(r, w))
    BY DEF SaveRates
<1> HIDE DEF w
<1>10. QED
    BY <1>3, <1>4, <1>5, <1>6, <1>7, <1>8, <1>9, RatesMove DEF Set

(* What is not a request: the list, the settings and midnight.             *)
LEMMA OutsideStep ==
    ASSUME RatesInv,
           \/ HandleExchangeRateCodes \/ \E b \in Bases : SetBaseCurrency(b)
           \/ Midnight \/ UNCHANGED ratesVars
    PROVE  RatesInv'
<1>1. /\ base \in Bases /\ rate \in [Days \X Codes \X Codes -> Ages]
      /\ today \in Days /\ watch \subseteq Codes /\ ahead \subseteq Days
    BY DEF RatesInv, RatesTypeOK
<1>2. UNCHANGED <<rate, reader, ahead>> /\ base' \in Bases /\ watch' \subseteq Codes
    BY <1>1, RatesAssumption DEF HandleExchangeRateCodes, SetBaseCurrency,
        Midnight, ratesVars, ListExchangeRateWatchlist,
        AddExchangeRateWatchlist, DeleteExchangeRateWatchlist
<1>3. today' = today \/ (today' = today + 1 /\ today < LastDay)
    BY DEF HandleExchangeRateCodes, SetBaseCurrency, Midnight, ratesVars,
        ListExchangeRateWatchlist, AddExchangeRateWatchlist,
        DeleteExchangeRateWatchlist
<1>4. today' \in Days /\ today <= today'
    BY <1>1, <1>3, RatesAssumption DEF Days
<1>5. QED
    BY <1>1, <1>2, <1>4, RatesMove

LEMMA RatesInvNext == RatesInv /\ [RatesNext]_ratesVars => RatesInv'
<1> SUFFICES ASSUME RatesInv, [RatesNext]_ratesVars PROVE RatesInv'
    OBVIOUS
<1>1. ASSUME NEW r \in Readers, HandleExchangeRates(r) PROVE RatesInv'
    BY <1>1, GridSettingsStep, GridDayStep, FetchLiveStep, SeedWatchlistStep,
        ReadWatchlistStep, ReadGridStep, GivenUp DEF HandleExchangeRates
<1>2. ASSUME NEW r \in Readers, HandleExchangeRatesConvert(r) PROVE RatesInv'
    BY <1>2, ConvertPersistStep, EnsureStep, ConvertSettingsStep
        DEF HandleExchangeRatesConvert
<1>3. ASSUME NEW r \in Readers, Fetch(r) \/ FetchFails(r) PROVE RatesInv'
    BY <1>3, FetchStep, GivenUp
<1>4. ASSUME NEW r \in Readers, NEW d \in Days, SaveRates(r, d) PROVE RatesInv'
    BY <1>4, SaveRatesStep
<1>5. QED
    BY <1>1, <1>2, <1>3, <1>4, OutsideStep DEF RatesNext

LEMMA RatesInvInit == RatesInit => RatesInv
<1> SUFFICES ASSUME RatesInit PROVE RatesInv
    OBVIOUS
<1>1. /\ today \in Days /\ base \in Bases /\ watch \subseteq Codes
      /\ ahead \subseteq Days
      /\ rate \in [Days \X Codes \X Codes -> Ages]
      /\ \A d \in Days, b \in Codes, c \in Codes : rate[<<d, b, c>>] = "none"
    BY DaysAre DEF RatesInit, Ages
<1>2. ReaderOK(NoReader, today, rate, ahead)
    BY <1>1, NoReaderOK
<1>3. \A r \in Readers : reader[r] = NoReader
    BY DEF RatesInit
<1>4. reader \in [Readers -> Reader]
    BY <1>2 DEF RatesInit, ReaderOK
<1>5. NoMovingRateKept
    BY <1>1 DEF NoMovingRateKept
<1>6. QED
    BY <1>1, <1>2, <1>3, <1>4, <1>5 DEF RatesInv, RatesTypeOK

LEMMA RatesInvAlways == RatesSpec => []RatesInv
BY RatesInvInit, RatesInvNext, PTL DEF RatesSpec

(* What is kept of a day was fetched after the day was over, whenever      *)
(* midnight comes between the looks at the clock, the answer of the        *)
(* service and the saving of it (persist=false, exchange_convert.go);      *)
(* unless some request came for the day before it began.                   *)
THEOREM OnlySettledRates == RatesSpec => []NoMovingRateKept
<1>1. RatesInv => NoMovingRateKept
    BY DEF RatesInv
<1>2. QED
    BY <1>1, RatesInvAlways, PTL

(* A table the page gets has a rate for every listed currency the service  *)
(* knows on every day of the window, whatever changed in between           *)
(* (handleExchangeRates).                                                  *)
THEOREM WholeTables == RatesSpec => []TableWhole
<1>1. RatesInv => TableWhole
    BY DEF RatesInv, TableWhole, ReaderOK, ReaderWhole
<1>2. QED
    BY <1>1, RatesInvAlways, PTL
-----------------------------------------------------------------------------
(* The start of the server.  Inductive: what the steps already taken made  *)
(* is there; a customer found for a name has that name; once the tasks     *)
(* without a customer are listed, those still to be linked are just those  *)
(* that have none; and a name that has a customer, and was never cut in    *)
(* two, has a customer at hand or no task left to link.                    *)

Past(op) == \E i \in Steps : i < at /\ Step(i).op = op

MadeSoFar == \A i \in Everything : i < at => i \in made

CustomersOfTheirName ==
    /\ \A n \in Companies : found[n] # 0 => customers[found[n]] = n
    /\ \A t \in OldTasks : RightlyLinked(t)

LinkedSoFar ==
    /\ todo \subseteq Unlinked
    /\ Past("list") => Unlinked \subseteq todo
    /\ Past("link") => todo = {}
    /\ ~Past("list") => todo = {} /\ \A n \in Companies : found[n] = 0

NothingLeftToLink(n) == \A t \in Unlinked : CompanyOf[t] # n
OnlySplitNamesAgain ==
    \A i \in DOMAIN customers :
        \/ customers[i] \in split
        \/ found[customers[i]] # 0
        \/ NothingLeftToLink(customers[i])

BroughtUpToDate ==
    /\ Past("date") => ~undated
    /\ Past("own") /\ orphaned => ~admin \/ late

StartInv ==
    /\ StartTypeOK
    /\ MadeSoFar /\ CustomersOfTheirName /\ LinkedSoFar
    /\ OnlySplitNamesAgain /\ OneCustomerPerName
    /\ BroughtUpToDate

-----------------------------------------------------------------------------
(* The order of the steps: the import, the list and the links follow one   *)
(* another, once each; expenses are dated and companies owned somewhere.   *)

IsSeq(s) == \E S : s \in Seq(S)
OpsIn(s, ops) == IsSeq(s) /\ \A i \in 1 .. Len(s) : s[i].op \in ops
HasOp(s, op) == \E i \in 1 .. Len(s) : s[i].op = op
Making == {"create", "alter"}
Others == Making \cup {"date", "own", "users"}

LEMMA Concat ==
    ASSUME NEW s, NEW t, IsSeq(s), IsSeq(t)
    PROVE  /\ IsSeq(s \o t)
           /\ Len(s) \in Nat /\ Len(t) \in Nat
           /\ Len(s \o t) = Len(s) + Len(t)
           /\ \A i \in 1 .. Len(s) : (s \o t)[i] = s[i]
           /\ \A i \in 1 .. Len(t) : (s \o t)[Len(s) + i] = t[i]
           /\ \A i \in 1 .. Len(s \o t) :
                 i \in 1 .. Len(s) \/ \E j \in 1 .. Len(t) : i = Len(s) + j
<1>1. PICK S, T : s \in Seq(S) /\ t \in Seq(T)
    BY DEF IsSeq
<1> DEFINE ST == S \cup T
<1>2. s \in Seq(ST) /\ t \in Seq(ST)
    BY <1>1
<1> HIDE DEF ST
<1>3. s \o t \in Seq(ST)
    BY <1>2
<1>4. /\ Len(s) \in Nat /\ Len(t) \in Nat
      /\ Len(s \o t) = Len(s) + Len(t)
      /\ \A i \in 1 .. Len(s) : (s \o t)[i] = s[i]
      /\ \A i \in 1 .. Len(t) : (s \o t)[Len(s) + i] = t[i]
    BY <1>2
<1>5. ASSUME NEW i \in 1 .. Len(s \o t), i \notin 1 .. Len(s)
      PROVE  i - Len(s) \in 1 .. Len(t) /\ i = Len(s) + (i - Len(s))
    BY <1>4, <1>5
<1>6. QED
    BY <1>3, <1>4, <1>5 DEF IsSeq

LEMMA ConcatOps ==
    ASSUME NEW s, NEW t, NEW ops, OpsIn(s, ops), OpsIn(t, ops)
    PROVE  OpsIn(s \o t, ops)
BY Concat DEF OpsIn

LEMMA ConcatHas ==
    ASSUME NEW s, NEW t, IsSeq(s), IsSeq(t), NEW op,
           HasOp(s, op) \/ HasOp(t, op)
    PROVE  HasOp(s \o t, op)
<1>1. Len(s \o t) = Len(s) + Len(t) /\ Len(s) \in Nat /\ Len(t) \in Nat
    BY Concat
<1>2. CASE HasOp(s, op)
    <2>1. PICK i \in 1 .. Len(s) : s[i].op = op
        BY <1>2 DEF HasOp
    <2>2. i \in 1 .. Len(s \o t) /\ (s \o t)[i] = s[i]
        BY <1>1, Concat
    <2>3. QED
        BY <2>1, <2>2 DEF HasOp
<1>3. CASE HasOp(t, op)
    <2>1. PICK i \in 1 .. Len(t) : t[i].op = op
        BY <1>3 DEF HasOp
    <2>2. Len(s) + i \in 1 .. Len(s \o t) /\ (s \o t)[Len(s) + i] = t[i]
        BY <1>1, Concat
    <2>3. QED
        BY <2>1, <2>2 DEF HasOp
<1>4. QED
    BY <1>2, <1>3

LEMMA StepOps ==
    /\ \A t, cs : Create(t, cs).op = "create"
    /\ \A t, c : Alter(t, c).op = "alter"
    /\ \A o, t, c : Run(o, t, c).op = o
BY DEF Create, Alter, Run

(* Sequences written out.                                                  *)
LEMMA Written ==
    ASSUME NEW a, NEW b, NEW c, NEW d, NEW e, NEW f, NEW g
    PROVE  /\ IsSeq(<<a>>) /\ IsSeq(<<a, b>>) /\ IsSeq(<<a, b, c>>)
           /\ IsSeq(<<a, b, c, d>>) /\ IsSeq(<<a, b, c, d, e>>)
           /\ IsSeq(<<a, b, c, d, e, f>>) /\ IsSeq(<<a, b, c, d, e, f, g>>)
<1> DEFINE S == {a, b, c, d, e, f, g}
<1>1. a \in S /\ b \in S /\ c \in S /\ d \in S /\ e \in S /\ f \in S /\ g \in S
    OBVIOUS
<1> HIDE DEF S
<1>2. /\ <<a>> \in Seq(S) /\ <<a, b>> \in Seq(S) /\ <<a, b, c>> \in Seq(S)
      /\ <<a, b, c, d>> \in Seq(S) /\ <<a, b, c, d, e>> \in Seq(S)
      /\ <<a, b, c, d, e, f>> \in Seq(S) /\ <<a, b, c, d, e, f, g>> \in Seq(S)
    BY <1>1
<1>3. QED
    BY <1>2 DEF IsSeq

LEMMA Written2 ==
    ASSUME NEW ops, NEW a, NEW b,
           a.op \in ops, b.op \in ops
    PROVE  OpsIn(<<a, b>>, ops)
<1> DEFINE s == <<a, b>>
<1>1. IsSeq(s) /\ Len(s) = 2
    BY Written
<1>2. ASSUME NEW i \in 1 .. 2 PROVE s[i].op \in ops
    OBVIOUS
<1> HIDE DEF s
<1>3. OpsIn(s, ops)
    BY <1>1, <1>2 DEF OpsIn
<1>4. QED
    BY <1>3 DEF s

LEMMA Written4 ==
    ASSUME NEW ops, NEW a, NEW b, NEW c, NEW d,
           a.op \in ops, b.op \in ops, c.op \in ops, d.op \in ops
    PROVE  OpsIn(<<a, b, c, d>>, ops)
<1> DEFINE s == <<a, b, c, d>>
<1>1. IsSeq(s) /\ Len(s) = 4
    BY Written
<1>2. ASSUME NEW i \in 1 .. 4 PROVE s[i].op \in ops
    OBVIOUS
<1> HIDE DEF s
<1>3. OpsIn(s, ops)
    BY <1>1, <1>2 DEF OpsIn
<1>4. QED
    BY <1>3 DEF s

LEMMA Written5 ==
    ASSUME NEW ops, NEW a, NEW b, NEW c, NEW d, NEW e,
           a.op \in ops, b.op \in ops, c.op \in ops, d.op \in ops,
           e.op \in ops
    PROVE  OpsIn(<<a, b, c, d, e>>, ops)
<1> DEFINE s == <<a, b, c, d, e>>
<1>1. IsSeq(s) /\ Len(s) = 5
    BY Written
<1>2. ASSUME NEW i \in 1 .. 5 PROVE s[i].op \in ops
    OBVIOUS
<1> HIDE DEF s
<1>3. OpsIn(s, ops)
    BY <1>1, <1>2 DEF OpsIn
<1>4. QED
    BY <1>3 DEF s

LEMMA Written6 ==
    ASSUME NEW ops, NEW a, NEW b, NEW c, NEW d, NEW e, NEW f,
           a.op \in ops, b.op \in ops, c.op \in ops, d.op \in ops,
           e.op \in ops, f.op \in ops
    PROVE  OpsIn(<<a, b, c, d, e, f>>, ops)
<1> DEFINE s == <<a, b, c, d, e, f>>
<1>1. IsSeq(s) /\ Len(s) = 6
    BY Written
<1>2. ASSUME NEW i \in 1 .. 6 PROVE s[i].op \in ops
    OBVIOUS
<1> HIDE DEF s
<1>3. OpsIn(s, ops)
    BY <1>1, <1>2 DEF OpsIn
<1>4. QED
    BY <1>3 DEF s

LEMMA Written7 ==
    ASSUME NEW ops, NEW a, NEW b, NEW c, NEW d, NEW e, NEW f, NEW g,
           a.op \in ops, b.op \in ops, c.op \in ops, d.op \in ops,
           e.op \in ops, f.op \in ops, g.op \in ops
    PROVE  OpsIn(<<a, b, c, d, e, f, g>>, ops)
<1> DEFINE s == <<a, b, c, d, e, f, g>>
<1>1. IsSeq(s) /\ Len(s) = 7
    BY Written
<1>2. ASSUME NEW i \in 1 .. 7 PROVE s[i].op \in ops
    OBVIOUS
<1> HIDE DEF s
<1>3. OpsIn(s, ops)
    BY <1>1, <1>2 DEF OpsIn
<1>4. QED
    BY <1>3 DEF s

LEMMA MakingOps ==
    /\ \A t, cs : Create(t, cs).op \in Making
    /\ \A t, c : Alter(t, c).op \in Making
BY StepOps DEF Making

LEMMA OtherOps ==
    /\ \A t, cs : Create(t, cs).op \in Others
    /\ \A t, c : Alter(t, c).op \in Others
    /\ \A t, c : Run("date", t, c).op \in Others
    /\ \A t, c : Run("own", t, c).op \in Others
    /\ \A t, c : Run("users", t, c).op \in Others
BY StepOps DEF Others, Making

LEMMA BeforeOps == OpsIn(Before \o CustomerSteps, Making)
<1>1. OpsIn(SchemaSteps, Making)
    BY MakingOps, Written6 DEF SchemaSteps
<1>2. OpsIn(UserSteps, Making)
    BY MakingOps, Written5 DEF UserSteps
<1>3. OpsIn(SettingsSteps, Making)
    BY MakingOps, Written5 DEF SettingsSteps
<1>4. OpsIn(CustomerSteps, Making)
    BY MakingOps, Written2 DEF CustomerSteps
<1>5. OpsIn(SchemaSteps \o UserSteps, Making)
    BY <1>1, <1>2, ConcatOps
<1>6. OpsIn(Before, Making)
    BY <1>3, <1>5, ConcatOps DEF Before
<1>7. QED
    BY <1>4, <1>6, ConcatOps

LEMMA AfterOps ==
    /\ OpsIn(After, Others)
    /\ HasOp(After, "date") /\ HasOp(After, "own")
<1> DEFINE
    a == ExpenseSteps
    b == a \o RateSteps
    c == b \o CompanySteps
    d == c \o PayrollSteps
    e == d \o EmployeeSteps
    f == e \o YearEndSteps
    g == f \o RoeSteps
    users == <<Run("users", "app_user", "row 1")>>
<1>1. OpsIn(a, Others) /\ HasOp(a, "date")
    <2>1. OpsIn(ExpenseSteps, Others)
        BY OtherOps, Written7 DEF ExpenseSteps
    <2>2. HasOp(ExpenseSteps, "date")
        BY StepOps DEF ExpenseSteps, HasOp
    <2>3. QED
        BY <2>1, <2>2
<1>2. OpsIn(RateSteps, Others)
    BY OtherOps, Written4 DEF RateSteps
<1>3. OpsIn(CompanySteps, Others) /\ HasOp(CompanySteps, "own")
    <2>1. OpsIn(CompanySteps, Others)
        BY OtherOps, Written4 DEF CompanySteps
    <2>2. HasOp(CompanySteps, "own")
        BY StepOps DEF CompanySteps, HasOp
    <2>3. QED
        BY <2>1, <2>2
<1>4. OpsIn(PayrollSteps, Others)
    BY OtherOps, Written7 DEF PayrollSteps
<1>5. OpsIn(EmployeeSteps, Others)
    BY OtherOps, Written6 DEF EmployeeSteps
<1>6. OpsIn(YearEndSteps, Others)
    BY OtherOps, Written4 DEF YearEndSteps
<1>7. OpsIn(RoeSteps, Others)
    BY OtherOps, Written4 DEF RoeSteps
<1>8. OpsIn(users, Others)
    <2>1. IsSeq(users) /\ Len(users) = 1 /\ users[1].op \in Others
        BY OtherOps, Written
    <2> HIDE DEF users
    <2>2. QED
        BY <2>1 DEF OpsIn
<1> HIDE DEF a, users
<1>9. OpsIn(b, Others) /\ HasOp(b, "date")
    BY <1>1, <1>2, ConcatOps, ConcatHas DEF OpsIn
<1> HIDE DEF b
<1>10. OpsIn(c, Others) /\ HasOp(c, "date") /\ HasOp(c, "own")
    BY <1>3, <1>9, ConcatOps, ConcatHas DEF OpsIn
<1> HIDE DEF c
<1>11. OpsIn(d, Others) /\ HasOp(d, "date") /\ HasOp(d, "own")
    BY <1>4, <1>10, ConcatOps, ConcatHas DEF OpsIn
<1> HIDE DEF d
<1>12. OpsIn(e, Others) /\ HasOp(e, "date") /\ HasOp(e, "own")
    BY <1>5, <1>11, ConcatOps, ConcatHas DEF OpsIn
<1> HIDE DEF e
<1>13. OpsIn(f, Others) /\ HasOp(f, "date") /\ HasOp(f, "own")
    BY <1>6, <1>12, ConcatOps, ConcatHas DEF OpsIn
<1> HIDE DEF f
<1>14. OpsIn(g, Others) /\ HasOp(g, "date") /\ HasOp(g, "own")
    BY <1>7, <1>13, ConcatOps, ConcatHas DEF OpsIn
<1> HIDE DEF g
<1>15. /\ OpsIn(g \o users, Others)
       /\ HasOp(g \o users, "date") /\ HasOp(g \o users, "own")
    BY <1>8, <1>14, ConcatOps, ConcatHas DEF OpsIn
<1>16. After = g \o users
    BY DEF After, a, b, c, d, e, f, g, users
<1>17. QED
    BY <1>15, <1>16

(* Where the import is.                                                    *)
ImportAt == Len(Before \o CustomerSteps) + 1

LEMMA OpenOrder ==
    /\ Len(Open) \in Nat /\ ImportAt \in Nat
    /\ ImportAt \in Steps /\ ImportAt + 1 \in Steps /\ ImportAt + 2 \in Steps
    /\ Step(ImportAt + 1).op = "list" /\ Step(ImportAt + 2).op = "link"
    /\ \A i \in Steps : Step(i).op = "import" => i = ImportAt
    /\ \A i \in Steps : Step(i).op = "list" => i = ImportAt + 1
    /\ \A i \in Steps : Step(i).op = "link" => i = ImportAt + 2
    /\ \E i \in Steps : Step(i).op = "date"
    /\ \E i \in Steps : Step(i).op = "own"
<1> DEFINE s == Before \o CustomerSteps
           t == s \o ImportSteps
<1>1. /\ IsSeq(s) /\ IsSeq(After) /\ IsSeq(ImportSteps)
      /\ Len(ImportSteps) = 3 /\ ImportSteps[1].op = "import"
      /\ ImportSteps[2].op = "list" /\ ImportSteps[3].op = "link"
    <2>1. IsSeq(s) /\ IsSeq(After)
        BY BeforeOps, AfterOps DEF OpsIn
    <2>2. /\ IsSeq(ImportSteps)
          /\ Len(ImportSteps) = 3 /\ ImportSteps[1].op = "import"
          /\ ImportSteps[2].op = "list" /\ ImportSteps[3].op = "link"
        BY StepOps, Written DEF ImportSteps
    <2>3. QED
        BY <2>1, <2>2
<1>2. /\ \A i \in 1 .. Len(s) : s[i].op \in Making
      /\ \A i \in 1 .. Len(After) : After[i].op \in Others
    BY BeforeOps, AfterOps DEF OpsIn
<1>3. HasOp(After, "date") /\ HasOp(After, "own")
    BY AfterOps
<1>4. Open = t \o After /\ ImportAt = Len(s) + 1
    BY DEF Open, ImportAt
<1> HIDE DEF s
<1>5. /\ IsSeq(t) /\ Len(s) \in Nat /\ Len(t) = Len(s) + 3
      /\ \A i \in 1 .. Len(s) : t[i] = s[i]
      /\ \A i \in 1 .. 3 : t[Len(s) + i] = ImportSteps[i]
    <2>1. IsSeq(s) /\ IsSeq(ImportSteps)
        BY <1>1
    <2>2. IsSeq(s \o ImportSteps) /\ Len(s) \in Nat
        BY <2>1, Concat
    <2>3. Len(s \o ImportSteps) = Len(s) + Len(ImportSteps)
        BY <2>1, Concat
    <2>4. \A i \in 1 .. Len(s) : (s \o ImportSteps)[i] = s[i]
        BY <2>1, Concat
    <2>5. \A i \in 1 .. Len(ImportSteps) :
             (s \o ImportSteps)[Len(s) + i] = ImportSteps[i]
        BY <2>1, Concat
    <2>6. QED
        BY <1>1, <2>2, <2>3, <2>4, <2>5
<1> HIDE DEF t
<1>6. /\ Len(Open) = Len(t) + Len(After) /\ Len(After) \in Nat
      /\ \A i \in 1 .. Len(t) : Open[i] = t[i]
      /\ \A i \in 1 .. Len(After) : Open[Len(t) + i] = After[i]
    <2>1. /\ Len(t \o After) = Len(t) + Len(After) /\ Len(After) \in Nat
          /\ \A i \in 1 .. Len(t) : (t \o After)[i] = t[i]
          /\ \A i \in 1 .. Len(After) : (t \o After)[Len(t) + i] = After[i]
        BY <1>1, <1>5, Concat
    <2>2. QED
        BY <1>4, <2>1
<1>7. HasOp(Open, "date") /\ HasOp(Open, "own")
    BY <1>1, <1>3, <1>4, <1>5, ConcatHas
<1>8. /\ Open[Len(s) + 1].op = "import" /\ Open[Len(s) + 2].op = "list"
      /\ Open[Len(s) + 3].op = "link"
    BY <1>1, <1>5, <1>6
<1>9. ASSUME NEW i \in Steps
      PROVE  \/ i = Len(s) + 1 \/ i = Len(s) + 2 \/ i = Len(s) + 3
             \/ Open[i].op \in Others
    <2>1. CASE i <= Len(s)
        <3>1. i \in 1 .. Len(s) /\ i \in 1 .. Len(t)
            BY <1>5, <2>1 DEF Steps
        <3>2. Open[i] = s[i]
            BY <1>5, <1>6, <3>1
        <3>3. QED
            BY <1>2, <3>1, <3>2 DEF Others
    <2>2. CASE i > Len(t)
        <3>1. i - Len(t) \in 1 .. Len(After) /\ i = Len(t) + (i - Len(t))
            BY <1>5, <1>6, <2>2 DEF Steps
        <3>2. Open[i] = After[i - Len(t)]
            BY <1>6, <3>1
        <3>3. QED
            BY <1>2, <3>1, <3>2
    <2>3. QED
        BY <1>5, <2>1, <2>2 DEF Steps
<1>10. \A op \in Others : op # "import" /\ op # "list" /\ op # "link"
    BY DEF Others, Making
<1>11. /\ Len(Open) \in Nat /\ ImportAt \in Nat
       /\ ImportAt \in Steps /\ ImportAt + 1 \in Steps /\ ImportAt + 2 \in Steps
    BY <1>4, <1>5, <1>6 DEF Steps
<1>12. \A i \in Steps :
            /\ Step(i).op = "import" => i = ImportAt
            /\ Step(i).op = "list" => i = ImportAt + 1
            /\ Step(i).op = "link" => i = ImportAt + 2
    <2>1. SUFFICES ASSUME NEW i \in Steps
                   PROVE  /\ Step(i).op = "import" => i = ImportAt
                          /\ Step(i).op = "list" => i = ImportAt + 1
                          /\ Step(i).op = "link" => i = ImportAt + 2
        OBVIOUS
    <2>2. CASE Open[i].op \in Others
        BY <1>10, <2>2 DEF Step
    <2>3. CASE i = Len(s) + 1
        BY <1>4, <1>5, <1>8, <2>3 DEF Step
    <2>4. CASE i = Len(s) + 2
        BY <1>4, <1>5, <1>8, <2>4 DEF Step
    <2>5. CASE i = Len(s) + 3
        BY <1>4, <1>5, <1>8, <2>5 DEF Step
    <2>6. QED
        BY <1>9, <2>2, <2>3, <2>4, <2>5
<1>13. Step(ImportAt + 1).op = "list" /\ Step(ImportAt + 2).op = "link"
    BY <1>4, <1>5, <1>8 DEF Step
<1>14. /\ \E i \in Steps : Step(i).op = "date"
       /\ \E i \in Steps : Step(i).op = "own"
    BY <1>7 DEF Steps, Step, HasOp
<1>15. QED
    BY <1>11, <1>12, <1>13, <1>14

LEMMA PastIs ==
    ASSUME at \in 1 .. Up
    PROVE  /\ Past("list") <=> at > ImportAt + 1
           /\ Past("link") <=> at > ImportAt + 2
           /\ at = Up => Past("list") /\ Past("link")
                            /\ Past("date") /\ Past("own")
<1>1. Len(Open) \in Nat /\ at \in Int /\ Steps = 1 .. Len(Open)
      /\ Up = Len(Open) + 1 /\ ImportAt \in Nat
    BY OpenOrder DEF Steps, Up
<1>2. /\ Past("list") <=> at > ImportAt + 1
      /\ Past("link") <=> at > ImportAt + 2
    BY <1>1, OpenOrder DEF Past
<1>3. ASSUME at = Up, NEW op, NEW i \in Steps, Step(i).op = op PROVE Past(op)
    BY <1>1, <1>3 DEF Past
<1>4. QED
    BY <1>2, <1>3, OpenOrder

-----------------------------------------------------------------------------
(* What a step at an op knows of its place.                                *)
LEMMA Place ==
    ASSUME StartTypeOK
    PROVE  /\ Len(Open) \in Nat /\ ImportAt \in Nat /\ at \in Int
           /\ at \in Steps => at + 1 \in 1 .. Up
           /\ IsAt("import") => at = ImportAt
           /\ IsAt("list") => at = ImportAt + 1
           /\ IsAt("link") => at = ImportAt + 2
           /\ \A op : IsAt(op) => at \in Steps /\ Step(at).op = op
BY OpenOrder DEF StartTypeOK, IsAt, Steps, Up

(* One step on: what was past is past, and the step itself is.             *)
LEMMA PastNext ==
    ASSUME StartTypeOK, at \in Steps, Next1
    PROVE  \A op : Past(op)' <=> Past(op) \/ Step(at).op = op
<1>1. at \in Int /\ at' = at + 1
    BY DEF StartTypeOK, Next1
<1>2. \A i \in Steps : i \in Int
    BY DEF Steps
<1>3. QED
    BY <1>1, <1>2 DEF Past

LEMMA CreateTableStep == ASSUME StartInv, CreateTable PROVE StartInv'
<1>1. /\ StartTypeOK /\ at \in Steps /\ Step(at).op = "create" /\ Next1
      /\ UNCHANGED <<tasks, backfill, others, split, stops>>
      /\ made \subseteq made' /\ at \in made'
      /\ made' \subseteq made \cup {at} \cup ColumnsOf[at]
    BY DEF StartInv, CreateTable, IsAt
<1>2. ColumnsOf[at] \subseteq Everything /\ at \in Everything
    BY <1>1 DEF ColumnsOf, Everything
<1>3. StartTypeOK'
    BY <1>1, <1>2, Place DEF StartTypeOK, Next1, tasks, backfill, others
<1>4. MadeSoFar'
    <2>1. SUFFICES ASSUME NEW i \in Everything, i < at' PROVE i \in made'
        BY DEF MadeSoFar
    <2>2. i \in Int /\ at \in Int
        BY <1>1, Place DEF Everything, Steps
    <2>3. i < at \/ i = at
        BY <1>1, <2>1, <2>2 DEF Next1
    <2>4. QED
        BY <1>1, <2>3 DEF StartInv, MadeSoFar
<1>5. /\ Past("list")' <=> Past("list")
      /\ Past("link")' <=> Past("link")
      /\ Past("date")' <=> Past("date")
      /\ Past("own")' <=> Past("own")
    BY <1>1, PastNext
<1>6. QED
    BY <1>1, <1>3, <1>4, <1>5
    DEF StartInv, CustomersOfTheirName, RightlyLinked, LinkedSoFar, Unlinked,
        OnlySplitNamesAgain, NothingLeftToLink, OneCustomerPerName,
        BroughtUpToDate, tasks, backfill, others

LEMMA AddColumnStep == ASSUME StartInv, AddColumn PROVE StartInv'
<1>1. /\ StartTypeOK /\ at \in Steps /\ Step(at).op = "alter" /\ Next1
      /\ UNCHANGED <<tasks, backfill, others, split, stops>>
      /\ made' = made \cup {at}
    BY DEF StartInv, AddColumn, IsAt
<1>2. at \in Everything
    BY <1>1 DEF Everything
<1>3. StartTypeOK'
    BY <1>1, <1>2, Place DEF StartTypeOK, Next1, tasks, backfill, others
<1>4. MadeSoFar'
    BY <1>1 DEF StartInv, MadeSoFar, Next1, StartTypeOK, Everything, Steps
<1>5. /\ Past("list")' <=> Past("list")
      /\ Past("link")' <=> Past("link")
      /\ Past("date")' <=> Past("date")
      /\ Past("own")' <=> Past("own")
    BY <1>1, PastNext
<1>6. QED
    BY <1>1, <1>3, <1>4, <1>5
    DEF StartInv, CustomersOfTheirName, RightlyLinked, LinkedSoFar, Unlinked,
        OnlySplitNamesAgain, NothingLeftToLink, OneCustomerPerName,
        BroughtUpToDate, tasks, backfill, others

(* The steps that make nothing pass nothing that is to be made.            *)
LEMMA MadeStays ==
    ASSUME StartInv, at \in Steps, Step(at).op \notin {"create", "alter"},
           Next1, UNCHANGED made
    PROVE  MadeSoFar'
<1>1. at \notin Everything
    BY DEF Everything
<1>2. QED
    BY <1>1 DEF StartInv, MadeSoFar, Next1, StartTypeOK, Everything, Steps

LEMMA ImportStep == ASSUME StartInv, MigrateLegacyJSON PROVE StartInv'
<1>1. /\ StartTypeOK /\ at \in Steps /\ Step(at).op = "import" /\ Next1
      /\ at = ImportAt /\ at \in 1 .. Up
      /\ UNCHANGED <<made, json, backfill, others, stops>> /\ priced' = TRUE
    BY Place DEF StartInv, StartTypeOK, MigrateLegacyJSON, IsAt, schema
<1>2. /\ ~Past("list") /\ ~Past("link")
      /\ ~Past("list")' /\ ~Past("link")'
      /\ Past("date")' <=> Past("date")
      /\ Past("own")' <=> Past("own")
    <2>1. ~Past("list") /\ ~Past("link")
        BY <1>1, PastIs, Place
    <2>2. QED
        BY <1>1, <2>1, PastNext
<1>3. MadeSoFar'
    BY <1>1, MadeStays
<1>4. todo = {} /\ \A n \in Companies : found[n] = 0
    BY <1>2 DEF StartInv, LinkedSoFar
<1>5. CASE UNCHANGED <<stored, customer, split>>
    <2>1. StartTypeOK'
        BY <1>1, <1>5, Place DEF StartTypeOK, Next1, backfill, others
    <2>2. QED
        BY <1>1, <1>2, <1>3, <1>5, <2>1
        DEF StartInv, CustomersOfTheirName, RightlyLinked, LinkedSoFar,
            Unlinked, OnlySplitNamesAgain, NothingLeftToLink,
            OneCustomerPerName, BroughtUpToDate, backfill, others
<1>6. CASE /\ stored' = OldTasks
           /\ customer' = [t \in OldTasks |-> 0]
           /\ split' = split \cup {n \in Companies :
                                   \E i \in DOMAIN customers : customers[i] = n}
    <2>1. StartTypeOK'
        BY <1>1, <1>4, <1>6, Place DEF StartTypeOK, Next1, backfill, others
    <2>2. \A i \in DOMAIN customers : customers[i] \in split'
        BY <1>1, <1>6 DEF StartTypeOK
    <2>3. CustomersOfTheirName'
        BY <1>1, <1>4, <1>6
        DEF StartInv, CustomersOfTheirName, RightlyLinked, backfill
    <2>4. LinkedSoFar'
        BY <1>1, <1>2, <1>4 DEF LinkedSoFar, backfill
    <2>5. OnlySplitNamesAgain' /\ OneCustomerPerName' /\ BroughtUpToDate'
        BY <1>1, <1>2, <2>2 DEF StartInv, OnlySplitNamesAgain,
            OneCustomerPerName, BroughtUpToDate, backfill, others
    <2>6. QED
        BY <1>3, <2>1, <2>3, <2>4, <2>5 DEF StartInv
<1>7. QED
    BY <1>5, <1>6 DEF MigrateLegacyJSON

LEMMA ListStep == ASSUME StartInv, ListUnlinked PROVE StartInv'
<1>1. /\ StartTypeOK /\ at \in Steps /\ Step(at).op = "list" /\ Next1
      /\ at = ImportAt + 1 /\ at \in 1 .. Up
      /\ UNCHANGED <<made, tasks, customers, others, split, stops>>
      /\ todo' = Unlinked /\ found' = [n \in Companies |-> 0]
    BY Place DEF StartInv, StartTypeOK, ListUnlinked, IsAt, schema, ToLink
<1>2. /\ ~Past("list") /\ ~Past("link")
      /\ Past("list")' /\ ~Past("link")'
      /\ Past("date")' <=> Past("date")
      /\ Past("own")' <=> Past("own")
    <2>1. ~Past("list") /\ ~Past("link")
        BY <1>1, PastIs, Place
    <2>2. QED
        BY <1>1, <2>1, PastNext
<1>3. MadeSoFar'
    BY <1>1, MadeStays
<1>4. \A n \in Companies : found[n] = 0
    BY <1>2 DEF StartInv, LinkedSoFar
<1>5. StartTypeOK'
    BY <1>1, Place DEF StartTypeOK, Next1, tasks, others, Unlinked
<1>6. LinkedSoFar'
    BY <1>1, <1>2 DEF LinkedSoFar, Unlinked, tasks
<1>7. OnlySplitNamesAgain'
    BY <1>1, <1>4 DEF StartInv, OnlySplitNamesAgain, NothingLeftToLink,
        Unlinked, tasks, StartTypeOK
<1>8. QED
    BY <1>1, <1>2, <1>3, <1>5, <1>6, <1>7
    DEF StartInv, CustomersOfTheirName, RightlyLinked, OneCustomerPerName,
        BroughtUpToDate, tasks, others

LEMMA InsertStep ==
    ASSUME StartInv, NEW t \in OldTasks, InsertCustomer(t) PROVE StartInv'
<1> DEFINE n == CompanyOf[t]
           k == Len(customers) + 1
<1>1. /\ StartTypeOK /\ t \in Unlinked /\ n \in Companies /\ found[n] = 0
      /\ at = ImportAt + 2 /\ at \in 1 .. Up
      /\ UNCHANGED <<made, at, tasks, todo, others, split, stops>>
      /\ customers' = Append(customers, n)
      /\ found' = [found EXCEPT ![n] = k]
    BY Place, StartupAssumption DEF StartInv, StartTypeOK, InsertCustomer,
        IsAt, schema, LinkedSoFar, Unlinked, NeedsCustomer
<1>2. /\ customers' \in Seq(Companies) /\ Len(customers') = k
      /\ Len(customers) \in Nat
      /\ \A i \in 1 .. Len(customers) : customers'[i] = customers[i]
      /\ customers'[k] = n
      /\ DOMAIN customers = 1 .. Len(customers) /\ DOMAIN customers' = 1 .. k
    BY <1>1 DEF StartTypeOK
<1> HIDE DEF n, k
<1>3. StartTypeOK'
    BY <1>1, <1>2 DEF StartTypeOK, tasks, others, k
<1>4. MadeSoFar' /\ BroughtUpToDate'
    BY <1>1 DEF StartInv, MadeSoFar, BroughtUpToDate, Past, others
<1>5. /\ Past("list") /\ Past("list")' /\ (Past("link")' <=> Past("link"))
    BY <1>1, PastIs, Place DEF Past
<1>6. LinkedSoFar'
    BY <1>1, <1>5 DEF StartInv, LinkedSoFar, Unlinked, tasks
<1>7. CustomersOfTheirName'
    <2>1. ASSUME NEW m \in Companies, found'[m] # 0
          PROVE  customers'[found'[m]] = m
        <3>1. CASE m = n
            BY <1>1, <1>2, <3>1 DEF StartTypeOK
        <3>2. CASE m # n
            <4>1. found'[m] = found[m] /\ found[m] \in 1 .. Len(customers)
                BY <1>1, <1>2, <2>1, <3>2 DEF StartTypeOK
            <4>2. QED
                BY <1>2, <2>1, <4>1 DEF StartInv, CustomersOfTheirName
        <3>3. QED
            BY <3>1, <3>2
    <2>2. ASSUME NEW u \in OldTasks, customer'[u] # 0
          PROVE  customers'[customer'[u]] = CompanyOf[u]
        <3>1. customer'[u] = customer[u] /\ customer[u] \in 1 .. Len(customers)
            BY <1>1, <1>2, <2>2 DEF StartTypeOK, tasks
        <3>2. QED
            BY <1>2, <2>2, <3>1 DEF StartInv, CustomersOfTheirName, RightlyLinked
    <2>3. QED
        BY <2>1, <2>2 DEF CustomersOfTheirName, RightlyLinked
<1>8. \A i \in DOMAIN customers : customers[i] = n => n \in split
    BY <1>1, <1>2 DEF StartInv, OnlySplitNamesAgain, NothingLeftToLink, n
<1>9. OneCustomerPerName'
    <2>1. SUFFICES ASSUME NEW i \in 1 .. k, NEW j \in 1 .. k, i < j,
                          customers'[i] = customers'[j]
                   PROVE  customers'[i] \in split
        BY <1>1, <1>2 DEF OneCustomerPerName, k
    <2>2. i \in 1 .. Len(customers) /\ customers'[i] = customers[i]
        BY <1>2, <2>1 DEF k
    <2>3. CASE j = k
        <3>1. customers[i] = n
            BY <1>2, <2>1, <2>2, <2>3
        <3>2. i \in DOMAIN customers
            BY <1>2, <2>2
        <3>3. n \in split
            BY <1>8, <3>1, <3>2
        <3>4. QED
            BY <2>2, <3>1, <3>3
    <2>4. CASE j # k
        <3>1. j \in 1 .. Len(customers) /\ customers'[j] = customers[j]
            BY <1>2, <2>4 DEF k
        <3>2. customers[i] = customers[j]
            BY <2>1, <2>2, <3>1
        <3>3. i \in DOMAIN customers /\ j \in DOMAIN customers /\ i # j
            BY <1>2, <2>1, <2>2, <3>1
        <3>4. QED
            BY <2>2, <3>2, <3>3 DEF StartInv, OneCustomerPerName
    <2>5. QED
        BY <2>3, <2>4
<1>10. OnlySplitNamesAgain'
    <2>1. SUFFICES ASSUME NEW i \in 1 .. k
                   PROVE  \/ customers'[i] \in split
                          \/ found'[customers'[i]] # 0
                          \/ NothingLeftToLink(customers'[i])
        BY <1>1, <1>2 DEF OnlySplitNamesAgain, NothingLeftToLink, Unlinked,
            tasks
    <2>2. CASE i = k
        BY <1>1, <1>2, <2>2 DEF StartTypeOK, k
    <2>3. CASE i # k
        <3>1. i \in 1 .. Len(customers) /\ customers'[i] = customers[i]
            BY <1>2, <2>3 DEF k
        <3>2. customers[i] \in Companies
            BY <1>1, <3>1 DEF StartTypeOK
        <3>3. found[customers[i]] # 0 => found'[customers[i]] # 0
            BY <1>1, <1>2, <3>2 DEF StartTypeOK, k
        <3>4. QED
            BY <1>2, <3>1, <3>3 DEF StartInv, OnlySplitNamesAgain
    <2>4. QED
        BY <2>2, <2>3
<1>11. QED
    BY <1>3, <1>4, <1>6, <1>7, <1>9, <1>10 DEF StartInv

LEMMA LinkStep ==
    ASSUME StartInv, NEW t \in OldTasks, LinkTask(t) PROVE StartInv'
<1> DEFINE n == CompanyOf[t]
<1>1. /\ StartTypeOK /\ t \in Unlinked /\ t \in todo /\ n \in Companies
      /\ found[n] \in 1 .. Len(customers) /\ Len(customers) \in Nat
      /\ UNCHANGED <<made, at, stored, priced, json, customers, found, others,
                     split, stops>>
      /\ customer' = [customer EXCEPT ![t] = found[n]]
      /\ todo' = todo \ {t}
    <2>1. /\ StartTypeOK /\ t \in Unlinked /\ t \in todo /\ n \in Companies
          /\ found[n] # 0
        BY StartupAssumption DEF StartInv, LinkTask, LinkedSoFar, Unlinked
    <2>2. Len(customers) \in Nat
        BY <2>1 DEF StartTypeOK
    <2>3. found[n] \in 1 .. Len(customers)
        BY <2>1, <2>2 DEF StartTypeOK
    <2>4. QED
        BY <2>1, <2>2, <2>3 DEF LinkTask, schema
<1> HIDE DEF n
<1>2. StartTypeOK'
    BY <1>1 DEF StartTypeOK, others
<1>3. MadeSoFar' /\ BroughtUpToDate' /\ OneCustomerPerName'
    BY <1>1 DEF StartInv, MadeSoFar, BroughtUpToDate, Past, others,
        OneCustomerPerName
<1>4. \A op : Past(op)' <=> Past(op)
    BY <1>1 DEF Past
<1>5. Unlinked' = Unlinked \ {t}
    BY <1>1 DEF Unlinked, StartTypeOK
<1>6. LinkedSoFar'
    BY <1>1, <1>4, <1>5 DEF StartInv, LinkedSoFar
<1>7. CustomersOfTheirName'
    BY <1>1 DEF StartInv, CustomersOfTheirName, RightlyLinked, StartTypeOK, n
<1>8. OnlySplitNamesAgain'
    BY <1>1, <1>5 DEF StartInv, OnlySplitNamesAgain, NothingLeftToLink
<1>9. QED
    BY <1>2, <1>3, <1>6, <1>7, <1>8 DEF StartInv

(* The backfill is done, expenses are dated, companies owned, a first user *)
(* made: nothing about tasks and customers changes.                        *)
LEMMA LastSteps ==
    ASSUME StartInv, BackfillDone \/ DateExpenses \/ OwnCompanies \/ FirstUser
    PROVE  StartInv'
<1>1. /\ StartTypeOK /\ at \in Steps /\ at \in 1 .. Up /\ Next1
      /\ Step(at).op \in {"link", "date", "own", "users"}
      /\ Step(at).op = "link" => todo = {}
      /\ UNCHANGED <<made, tasks, backfill, split, stops>>
    BY DEF StartInv, StartTypeOK, BackfillDone, DateExpenses, OwnCompanies,
        FirstUser, IsAt, schema
<1>2. MadeSoFar'
    BY <1>1, MadeStays
<1>3. StartTypeOK'
    BY <1>1, Place DEF StartTypeOK, Next1, tasks, backfill, BackfillDone,
        DateExpenses, OwnCompanies, FirstUser, others
<1>4. \A op : Past(op)' <=> Past(op) \/ Step(at).op = op
    BY <1>1, PastNext
<1>5. BroughtUpToDate'
    <2>1. CASE BackfillDone
        BY <1>4, <2>1
        DEF StartInv, BroughtUpToDate, BackfillDone, IsAt, others
    <2>2. CASE DateExpenses
        BY <1>4, <2>2 DEF StartInv, BroughtUpToDate, DateExpenses, IsAt
    <2>3. CASE OwnCompanies
        BY <1>4, <2>3 DEF StartInv, BroughtUpToDate, OwnCompanies, IsAt
    <2>4. CASE FirstUser
        BY <1>4, <2>4 DEF StartInv, BroughtUpToDate, FirstUser, IsAt
    <2>5. QED
        BY <2>1, <2>2, <2>3, <2>4
<1>6. LinkedSoFar'
    <2>1. Unlinked' = Unlinked
        BY <1>1 DEF Unlinked, tasks
    <2>2. QED
        BY <1>1, <1>4, <2>1 DEF StartInv, LinkedSoFar, backfill
<1>7. QED
    BY <1>1, <1>2, <1>3, <1>5, <1>6
    DEF StartInv, CustomersOfTheirName, RightlyLinked, OneCustomerPerName,
        OnlySplitNamesAgain, NothingLeftToLink, Unlinked, tasks, backfill

LEMMA ServedStep ==
    ASSUME StartInv, Setup \/ DeleteAll PROVE StartInv'
<1>1. /\ StartTypeOK /\ at = Up /\ UNCHANGED <<made, at, backfill, split, stops>>
      /\ UNCHANGED <<json, undated, orphaned>>
    BY DEF StartInv, Setup, DeleteAll, schema, tasks, others
<1>2. \A op : Past(op)' <=> Past(op)
    BY <1>1 DEF Past
<1>3. todo = {}
    BY <1>1, PastIs DEF StartInv, StartTypeOK, LinkedSoFar
<1>4. CASE Setup
    <2>1. StartTypeOK'
        <3>1. admin' = TRUE /\ late' = TRUE /\ UNCHANGED tasks
            BY <1>4 DEF Setup
        <3>2. at' \in 1 .. Up
            BY <1>1 DEF StartTypeOK
        <3>3. UNCHANGED <<stored, priced, json, customer, customers, todo,
                          found>>
            BY <1>1, <3>1 DEF tasks, backfill
        <3>4. /\ made' \subseteq Everything
              /\ stored' \subseteq OldTasks /\ todo' \subseteq stored'
              /\ customers' \in Seq(Companies)
              /\ customer' \in [OldTasks -> 0 .. Len(customers')]
              /\ found' \in [Companies -> 0 .. Len(customers')]
              /\ split' \subseteq Companies /\ stops' \in Nat
            BY <1>1, <3>3 DEF StartTypeOK
        <3>5. /\ priced' \in BOOLEAN /\ json' \in BOOLEAN /\ admin' \in BOOLEAN
              /\ undated' \in BOOLEAN /\ orphaned' \in BOOLEAN
              /\ late' \in BOOLEAN
            BY <1>1, <3>1, <3>3 DEF StartTypeOK
        <3>6. QED
            BY <3>2, <3>4, <3>5 DEF StartTypeOK
    <2>2. QED
        BY <1>1, <1>2, <1>4, <2>1
        DEF StartInv, MadeSoFar, CustomersOfTheirName, RightlyLinked,
            LinkedSoFar, Unlinked, OnlySplitNamesAgain, NothingLeftToLink,
            OneCustomerPerName, BroughtUpToDate, Setup, tasks, backfill
<1>5. CASE DeleteAll
    <2>1. /\ stored' = {} /\ priced' = FALSE /\ UNCHANGED others
          /\ customer' = [t \in OldTasks |-> 0]
        BY <1>5 DEF DeleteAll
    <2>2. StartTypeOK'
        <3>1. UNCHANGED <<customers, todo, found, admin, late>>
            BY <1>1, <2>1 DEF backfill, others
        <3>2. Len(customers) \in Nat
            BY <1>1 DEF StartTypeOK
        <3>3. /\ stored' \subseteq OldTasks /\ todo' \subseteq stored'
              /\ customer' \in [OldTasks -> 0 .. Len(customers')]
              /\ found' \in [Companies -> 0 .. Len(customers')]
            BY <1>1, <1>3, <2>1, <3>1, <3>2 DEF StartTypeOK
        <3>4. QED
            BY <1>1, <2>1, <3>1, <3>3 DEF StartTypeOK
    <2>3. Unlinked' = {}
        BY <2>1 DEF Unlinked
    <2>4. CustomersOfTheirName'
        BY <1>1, <2>1
        DEF StartInv, CustomersOfTheirName, RightlyLinked, backfill
    <2>5. LinkedSoFar' /\ OnlySplitNamesAgain'
        BY <1>1, <1>2, <1>3, <2>3
        DEF StartInv, LinkedSoFar, OnlySplitNamesAgain, NothingLeftToLink,
            backfill
    <2>6. MadeSoFar' /\ OneCustomerPerName' /\ BroughtUpToDate'
        BY <1>1, <1>2, <2>1 DEF StartInv, MadeSoFar, OneCustomerPerName,
            BroughtUpToDate, backfill, others
    <2>7. QED
        BY <2>2, <2>4, <2>5, <2>6 DEF StartInv
<1>6. QED
    BY <1>4, <1>5

(* The process stops: names that have a new customer at hand and tasks     *)
(* left to link are cut in two.                                            *)
LEMMA StopStep == ASSUME StartInv, Stop PROVE StartInv'
<1>1. /\ StartTypeOK /\ at' = 1 /\ todo' = {} /\ split' = split \cup Cut
      /\ found' = [n \in Companies |-> 0] /\ stops' = stops + 1 /\ late' = FALSE
      /\ UNCHANGED <<made, tasks, customers, undated, orphaned, admin>>
    BY DEF StartInv, Stop, schema
<1>2. Cut \subseteq Companies
    BY <1>1, StartupAssumption
    DEF StartInv, Cut, LinkedSoFar, Unlinked, StartTypeOK
<1>3. 1 \in 1 .. Up
    BY OpenOrder DEF Up
<1>4. StartTypeOK'
    <2>1. Len(customers) \in Nat /\ stops' \in Nat
        BY <1>1 DEF StartTypeOK
    <2>2. found' \in [Companies -> 0 .. Len(customers')]
        BY <1>1, <2>1
    <2>3. /\ made' \subseteq Everything /\ at' \in 1 .. Up
          /\ stored' \subseteq OldTasks /\ todo' \subseteq stored'
          /\ customers' \in Seq(Companies)
          /\ customer' \in [OldTasks -> 0 .. Len(customers')]
          /\ split' \subseteq Companies
        BY <1>1, <1>2, <1>3 DEF StartTypeOK, tasks
    <2>4. /\ priced' \in BOOLEAN /\ json' \in BOOLEAN /\ admin' \in BOOLEAN
          /\ undated' \in BOOLEAN /\ orphaned' \in BOOLEAN /\ late' \in BOOLEAN
        BY <1>1 DEF StartTypeOK, tasks
    <2>5. QED
        BY <2>1, <2>2, <2>3, <2>4 DEF StartTypeOK
<1>5. \A op : ~Past(op)'
    BY <1>1 DEF Past, Steps
<1>6. MadeSoFar'
    BY <1>1 DEF MadeSoFar, Everything, Steps
<1>7. Unlinked' = Unlinked
    BY <1>1 DEF Unlinked, tasks
<1>8. LinkedSoFar' /\ BroughtUpToDate' /\ OneCustomerPerName'
    BY <1>1, <1>5 DEF StartInv, LinkedSoFar, BroughtUpToDate,
        OneCustomerPerName
<1>9. CustomersOfTheirName'
    BY <1>1 DEF StartInv, CustomersOfTheirName, RightlyLinked, tasks
<1>10. OnlySplitNamesAgain'
    <2>1. SUFFICES ASSUME NEW i \in DOMAIN customers,
                          customers[i] \notin split, customers[i] \notin Cut
                   PROVE  NothingLeftToLink(customers[i])
        BY <1>1, <1>7 DEF OnlySplitNamesAgain, NothingLeftToLink
    <2>2. CASE found[customers[i]] # 0
        <3>1. customers[i] \in Companies
            BY <1>1 DEF StartTypeOK
        <3>2. Past("list")
            BY <2>2, <3>1 DEF StartInv, LinkedSoFar
        <3>3. QED
            BY <2>1, <2>2, <3>2 DEF StartInv, LinkedSoFar, NothingLeftToLink, Cut
    <2>3. QED
        BY <2>1, <2>2 DEF StartInv, OnlySplitNamesAgain
<1>11. QED
    BY <1>4, <1>6, <1>8, <1>9, <1>10 DEF StartInv

LEMMA StartInvNext == StartInv /\ [StartNext]_startVars => StartInv'
<1> SUFFICES ASSUME StartInv, [StartNext]_startVars PROVE StartInv'
    OBVIOUS
<1>1. CASE Advance
    BY <1>1, CreateTableStep, AddColumnStep, ImportStep, ListStep, InsertStep,
        LinkStep, LastSteps DEF Advance
<1>2. CASE Setup \/ DeleteAll \/ Stop
    BY <1>2, ServedStep, StopStep
<1>3. CASE UNCHANGED startVars
    BY <1>3
    DEF startVars, StartInv, StartTypeOK, MadeSoFar, CustomersOfTheirName,
        RightlyLinked, LinkedSoFar, Past, Unlinked, OnlySplitNamesAgain,
        NothingLeftToLink, OneCustomerPerName, BroughtUpToDate
<1>4. QED
    BY <1>1, <1>2, <1>3 DEF StartNext

LEMMA StartInvInit == StartInit => StartInv
<1> SUFFICES ASSUME StartInit PROVE StartInv
    OBVIOUS
<1>1. /\ made \subseteq Everything /\ at = 1 /\ customers = << >> /\ todo = {}
      /\ customer = [t \in OldTasks |-> 0] /\ found = [n \in Companies |-> 0]
      /\ split = {} /\ stops = 0 /\ late = FALSE
      /\ stored \subseteq OldTasks /\ priced \in BOOLEAN /\ json \in BOOLEAN
      /\ admin \in BOOLEAN
    BY DEF StartInit, Version
<1>2. undated \in BOOLEAN /\ orphaned \in BOOLEAN
    BY DEF StartInit
<1>3. at \in 1 .. Up
    BY <1>1, OpenOrder DEF Up
<1>4. customers \in Seq(Companies) /\ Len(customers) = 0
      /\ DOMAIN customers = {}
    BY <1>1
<1>5. StartTypeOK
    <2>1. 0 \in 0 .. Len(customers)
        BY <1>4
    <2>2. /\ customer \in [OldTasks -> 0 .. Len(customers)]
          /\ found \in [Companies -> 0 .. Len(customers)]
        BY <1>1, <2>1
    <2>3. QED
        BY <1>1, <1>2, <1>3, <1>4, <2>2 DEF StartTypeOK
<1>6. \A op : ~Past(op)
    BY <1>1 DEF Past, Steps
<1>7. MadeSoFar
    BY <1>1 DEF MadeSoFar, Everything, Steps
<1>8. LinkedSoFar /\ BroughtUpToDate
    BY <1>1, <1>6 DEF LinkedSoFar, BroughtUpToDate
<1>9. CustomersOfTheirName /\ OnlySplitNamesAgain /\ OneCustomerPerName
    BY <1>1, <1>4 DEF CustomersOfTheirName, RightlyLinked,
        OnlySplitNamesAgain, OneCustomerPerName
<1>10. QED
    BY <1>5, <1>7, <1>8, <1>9 DEF StartInv

LEMMA StartInvAlways == StartSpec => []StartInv
BY StartInvInit, StartInvNext, PTL DEF StartSpec

(* Once requests are served the database is complete and brought up to     *)
(* date, whatever version it was of and wherever starts were cut short     *)
(* (Open).                                                                 *)
THEOREM ServesWhenReady == StartSpec => []ServedReady
<1>1. ASSUME StartInv PROVE ServedReady
    <2>1. SUFFICES ASSUME at = Up
                   PROVE  /\ Everything \subseteq made
                          /\ \A t \in stored : RightlyLinked(t)
                                /\ (CompanyOf[t] # NoName => customer[t] # 0)
                          /\ ~undated
                          /\ orphaned => ~admin \/ late
        BY DEF ServedReady
    <2>2. Past("list") /\ Past("link") /\ Past("date") /\ Past("own")
        BY <1>1, <2>1, PastIs DEF StartInv, StartTypeOK
    <2>3. Everything \subseteq made
        <3>1. \A i \in Everything : i < at
            BY <2>1, OpenOrder DEF Everything, Steps, Up
        <3>2. QED
            BY <1>1, <3>1 DEF StartInv, MadeSoFar
    <2>4. Unlinked = {}
        BY <1>1, <2>2 DEF StartInv, LinkedSoFar
    <2>5. \A t \in stored : RightlyLinked(t)
                /\ (CompanyOf[t] # NoName => customer[t] # 0)
        BY <1>1, <2>4 DEF StartInv, StartTypeOK, CustomersOfTheirName, Unlinked
    <2>6. QED
        BY <1>1, <2>2, <2>3, <2>5 DEF StartInv, BroughtUpToDate
<1>2. QED
    BY <1>1, StartInvAlways, PTL

(* Tasks of one name share one customer, but where a start died in between *)
(* or the tasks were imported again (migrateCustomersBackfill).            *)
THEOREM CustomersNotDoubled == StartSpec => []OneCustomerPerName
<1>1. StartInv => OneCustomerPerName
    BY DEF StartInv
<1>2. QED
    BY <1>1, StartInvAlways, PTL
-----------------------------------------------------------------------------
(* CPP, CPP2 and EI of one employee.  Inductive: each sum of the year      *)
(* follows the earnings it is due on, to half a cent and half a hundredth  *)
(* of a cent per pay, unless it is at its maximum, where it stays.  First  *)
(* what a product and a cut at the maximum differ from the exact amount.   *)

LEMMA DividedIs ==
    ASSUME NEW x \in Nat, NEW n \in Nat \ {0}
    PROVE  /\ Divided(x, n) \in Nat
           /\ 2 * n * Divided(x, n) <= 2 * x + n
           /\ 2 * x + n < 2 * n * Divided(x, n) + 2 * n
BY DEF Divided

LEMMA DividedByDollar ==
    ASSUME NEW x \in Nat
    PROVE  /\ Divided(x, Dollar) \in Nat
           /\ 20000 * Divided(x, Dollar) <= 2 * x + 10000
           /\ 2 * x + 10000 < 20000 * Divided(x, Dollar) + 20000
BY DividedIs DEF Dollar

LEMMA TimesIs ==
    ASSUME NEW x \in Nat, NEW r \in Nat
    PROVE  /\ Times(x, r) \in Nat
           /\ 20000 * Times(x, r) <= 2 * (x * r) + 10000
           /\ 2 * (x * r) < 20000 * Times(x, r) + 10000
<1> DEFINE d == x \div Dollar
           m == x % Dollar
           q == Divided(m * r, Dollar)
<1>1. d \in Nat /\ m \in Nat /\ x = 10000 * d + m
    BY DEF Dollar
<1> HIDE DEF d, m
<1>2. d * r \in Nat /\ m * r \in Nat /\ x * r = 10000 * (d * r) + m * r
    BY <1>1
<1>3. /\ q \in Nat /\ 20000 * q <= 2 * (m * r) + 10000
      /\ 2 * (m * r) + 10000 < 20000 * q + 20000
    <2>1. PICK p \in Nat : p = m * r
        BY <1>2
    <2>2. q = Divided(p, Dollar)
        BY <2>1
    <2>3. /\ Divided(p, Dollar) \in Nat
          /\ 20000 * Divided(p, Dollar) <= 2 * p + 10000
          /\ 2 * p + 10000 < 20000 * Divided(p, Dollar) + 20000
        BY DividedByDollar
    <2> HIDE DEF q
    <2>4. QED
        BY <2>1, <2>2, <2>3
<1> HIDE DEF q
<1>4. Times(x, r) = d * r + q
    BY DEF Times, d, m, q
<1>5. QED
    BY <1>2, <1>3, <1>4

LEMMA TimesNat ==
    ASSUME NEW x \in Nat, NEW r \in Nat
    PROVE  Times(x, r) \in Nat
BY TimesIs

LEMMA Round2Is ==
    ASSUME NEW x \in Nat
    PROVE  /\ Round2(x) \in Nat /\ Round2(x) % 100 = 0
           /\ 2 * Round2(x) <= 2 * x + 100 /\ 2 * x < 2 * Round2(x) + 100
           /\ x % 100 = 0 => Round2(x) = x
<1> DEFINE q == Divided(x, 100)
<1>1. q \in Nat /\ 200 * q <= 2 * x + 100 /\ 2 * x + 100 < 200 * q + 200
    BY DividedIs
<1>2. Round2(x) = q * 100
    BY DEF Round2, Cent
<1> HIDE DEF q
<1>3. QED
    BY <1>1, <1>2

LEMMA WholeCents ==
    ASSUME NEW a \in Nat, NEW b \in Nat, a % 100 = 0, b % 100 = 0
    PROVE  /\ (a + b) % 100 = 0
           /\ a <= b => (b - a) % 100 = 0
           /\ 2 * a < 2 * b + 100 => a <= b
OBVIOUS

LEMMA CappedIs ==
    ASSUME NEW x \in Nat, NEW max \in Nat, NEW before \in Nat, before <= max,
           max % 100 = 0, before % 100 = 0
    PROVE  /\ Capped(x, max, before) \in Nat
           /\ (before + Capped(x, max, before)) % 100 = 0
           /\ before + Capped(x, max, before) <= max
           /\ 2 * Capped(x, max, before) <= 2 * x + 100
           /\ \/ before + Capped(x, max, before) = max
              \/ 2 * x < 2 * Capped(x, max, before) + 100
<1> DEFINE room == max - before
<1>1. room \in Nat /\ room % 100 = 0 /\ before + room = max
    <2>1. room \in Nat /\ before + room = max
        OBVIOUS
    <2>2. QED
        BY <2>1, WholeCents
<1>2. Higher(0, max - before) = room
    BY <1>1 DEF Higher
<1> HIDE DEF room
<1>3. CASE x < room
    <2> DEFINE c == Round2(x)
    <2>1. Capped(x, max, before) = c
        BY <1>2, <1>3 DEF Capped, Lower
    <2>2. /\ c \in Nat /\ c % 100 = 0
          /\ 2 * c <= 2 * x + 100 /\ 2 * x < 2 * c + 100
        BY Round2Is
    <2> HIDE DEF c
    <2>3. c <= room
        <3>1. 2 * c < 2 * room + 100
            BY <1>1, <1>3, <2>2
        <3>2. QED
            BY <1>1, <2>2, <3>1, WholeCents
    <2>4. (before + c) % 100 = 0
        BY <2>2, WholeCents
    <2>5. QED
        BY <1>1, <2>1, <2>2, <2>3, <2>4
<1>4. CASE ~(x < room)
    <2>1. Capped(x, max, before) = room
        BY <1>1, <1>2, <1>4, Round2Is DEF Capped, Lower
    <2>2. QED
        BY <1>1, <1>4, <2>1
<1>5. QED
    BY <1>3, <1>4

(* A sum of n pays follows the earnings x at this rate: it is not above,   *)
(* and not below unless it is at the maximum, but for half a cent and half *)
(* a hundredth of a cent per pay.                                          *)
NotAbove(sum, n, x, r) == 20000 * sum <= 2 * (x * r) + 1010000 * n
NotBelow(sum, n, x, r) == 2 * (x * r) <= 20000 * sum + 1010000 * n
Cents(sum, max) == sum \in Nat /\ sum % 100 = 0 /\ sum <= max

LEMMA NextPay ==
    ASSUME NEW sum, NEW n \in Nat, NEW x \in Nat, NEW b \in Nat, NEW y \in Nat,
           NEW r \in Nat, NEW max \in Nat, max % 100 = 0, Cents(sum, max)
    PROVE  LET next == sum + Capped(Times(b, r), max, sum)
           IN  /\ Cents(next, max)
               /\ NotAbove(sum, n, x, r) /\ x + b <= y =>
                     NotAbove(next, n + 1, y, r)
               /\ (sum = max \/ NotBelow(sum, n, x, r)) /\ x + b = y =>
                     next = max \/ NotBelow(next, n + 1, y, r)
<1> DEFINE t == Times(b, r)
           c == Capped(t, max, sum)
<1>1. /\ t \in Nat /\ 20000 * t <= 2 * (b * r) + 10000
      /\ 2 * (b * r) < 20000 * t + 10000
    BY TimesIs
<1>2. sum \in Nat /\ sum % 100 = 0 /\ sum <= max
    BY DEF Cents
<1> HIDE DEF t
<1>3. /\ c \in Nat /\ (sum + c) % 100 = 0 /\ sum + c <= max
      /\ 2 * c <= 2 * t + 100
      /\ sum + c = max \/ 2 * t < 2 * c + 100
    <2>1. PICK u \in Nat : u = t
        BY <1>1
    <2>2. c = Capped(u, max, sum)
        BY <2>1
    <2> HIDE DEF c
    <2>3. /\ Capped(u, max, sum) \in Nat
          /\ (sum + Capped(u, max, sum)) % 100 = 0
          /\ sum + Capped(u, max, sum) <= max
          /\ 2 * Capped(u, max, sum) <= 2 * u + 100
          /\ \/ sum + Capped(u, max, sum) = max
             \/ 2 * u < 2 * Capped(u, max, sum) + 100
        BY <1>2, CappedIs
    <2>4. QED
        BY <2>1, <2>2, <2>3
<1> HIDE DEF c
<1>4. /\ x * r \in Nat /\ b * r \in Nat /\ y * r \in Nat
      /\ (x + b) * r = x * r + b * r
    OBVIOUS
<1>5. Cents(sum + c, max)
    BY <1>2, <1>3 DEF Cents
<1>6. ASSUME NotAbove(sum, n, x, r), x + b <= y
      PROVE  NotAbove(sum + c, n + 1, y, r)
    <2>1. (x + b) * r <= y * r
        BY <1>6
    <2>2. QED
        BY <1>1, <1>2, <1>3, <1>4, <1>6, <2>1 DEF NotAbove
<1>7. ASSUME sum = max \/ NotBelow(sum, n, x, r), x + b = y
      PROVE  sum + c = max \/ NotBelow(sum + c, n + 1, y, r)
    <2>1. (x + b) * r = y * r
        BY <1>7
    <2>2. QED
        BY <1>1, <1>2, <1>3, <1>4, <1>7, <2>1 DEF NotBelow
<1>8. QED
    BY <1>5, <1>6, <1>7 DEF c, t

(* With the yearly premium rounded in its turn.                            *)
LEMMA YearlySum ==
    ASSUME NEW sum \in Nat, NEW n \in Nat, NEW x \in Nat, NEW r \in Nat
    PROVE  /\ NotAbove(sum, n, x, r) => sum <= Times(x, r) + n * 51
           /\ NotBelow(sum, n, x, r) /\ (n = 0 => x = 0) =>
                 Times(x, r) <= sum + n * 51
<1>1. /\ Times(x, r) \in Nat /\ x * r \in Nat
      /\ 20000 * Times(x, r) <= 2 * (x * r) + 10000
      /\ 2 * (x * r) < 20000 * Times(x, r) + 10000
    BY TimesIs
<1>2. ASSUME NotAbove(sum, n, x, r) PROVE sum <= Times(x, r) + n * 51
    BY <1>1, <1>2 DEF NotAbove
<1>3. ASSUME NotBelow(sum, n, x, r), n = 0 => x = 0
      PROVE  Times(x, r) <= sum + n * 51
    <2>1. CASE n = 0
        <3>1. x * r = 0
            BY <1>3, <2>1
        <3>2. QED
            BY <1>1, <2>1, <3>1
    <2>2. CASE n # 0
        BY <1>1, <1>3, <2>2 DEF NotBelow
    <2>3. QED
        BY <2>1, <2>2
<1>4. QED
    BY <1>2, <1>3

-----------------------------------------------------------------------------
(* What a sum is due on: the part of the earnings between the two          *)
(* ceilings; and s, the bases of n of N pays, each its pay less a rounded  *)
(* share of the annual exemption.                                          *)
BetweenCeilings(total) == Higher(0, Lower(total, YAMPE) - YMPE)
Exemptions(s, n, gross, N) ==
    /\ 2 * (N * s) <= 2 * (N * gross) - 2 * (YBE * n) + N * n
    /\ 2 * (N * s) >= 2 * (N * gross) - 2 * (YBE * n) - N * n
    /\ N * gross >= YBE * n

LEMMA CeilingsTyped ==
    /\ YMPE \in Nat /\ YBE \in Nat /\ YAMPE \in Nat
    /\ MaxInsurableEarnings \in Nat /\ YMPE <= YAMPE
BY DeductionsAssumption

LEMMA BandIs ==
    ASSUME NEW before \in Nat, NEW share \in Nat, NEW gross \in Nat,
           share <= gross
    PROVE  LET band == Higher(0, Lower(before + share, YAMPE)
                                   - Higher(before, YMPE))
           IN  /\ band \in Nat
               /\ BetweenCeilings(before) + band <= BetweenCeilings(before + gross)
               /\ share = gross =>
                    BetweenCeilings(before) + band = BetweenCeilings(before + gross)
<1> DEFINE low == YMPE
           high == YAMPE
<1>1. low \in Nat /\ high \in Nat /\ low <= high
    BY CeilingsTyped
<1>2. /\ BetweenCeilings(before) = Higher(0, Lower(before, high) - low)
      /\ BetweenCeilings(before + gross)
            = Higher(0, Lower(before + gross, high) - low)
    BY DEF BetweenCeilings
<1> HIDE DEF low, high
<1>3. LET band == Higher(0, Lower(before + share, high) - Higher(before, low))
      IN  /\ band \in Nat
          /\ BetweenCeilings(before) + band <= BetweenCeilings(before + gross)
          /\ share = gross =>
                BetweenCeilings(before) + band = BetweenCeilings(before + gross)
    BY <1>1, <1>2 DEF Higher, Lower
<1>4. QED
    BY <1>3 DEF low, high

LEMMA RoomIs ==
    ASSUME NEW before \in Nat, NEW share \in Nat, NEW gross \in Nat,
           share <= gross
    PROVE  LET insured == Lower(share, Higher(0, MaxInsurableEarnings - before))
               upTo(total) == Lower(total, MaxInsurableEarnings)
           IN  /\ insured \in Nat
               /\ upTo(before) + insured <= upTo(before + gross)
               /\ share = gross => upTo(before) + insured = upTo(before + gross)
BY CeilingsTyped DEF Higher, Lower

LEMMA CeilingsAreNat ==
    ASSUME NEW total \in Nat
    PROVE  /\ BetweenCeilings(total) \in Nat
           /\ Lower(total, MaxInsurableEarnings) \in Nat
           /\ BetweenCeilings(0) = 0 /\ Lower(0, MaxInsurableEarnings) = 0
BY CeilingsTyped DEF Higher, Lower, BetweenCeilings

(* One more pay of at least its share of the annual exemption.             *)
LEMMA OneMoreExemption ==
    ASSUME NEW s \in Nat, NEW n \in Nat, NEW gross \in Nat, NEW N \in Nat \ {0},
           NEW g \in Nat, Exemptions(s, n, gross, N), g * N >= YBE
    PROVE  Exemptions(s + Higher(0, g - Divided(YBE, N)), n + 1, gross + g, N)
<1> DEFINE e == Divided(YBE, N)
<1>0. YBE \in Nat
    BY CeilingsTyped
<1>1. e \in Nat /\ 2 * N * e <= 2 * YBE + N /\ 2 * YBE + N < 2 * N * e + 2 * N
    <2>1. PICK y \in Nat : y = YBE
        BY <1>0
    <2>2. /\ Divided(y, N) \in Nat
          /\ 2 * N * Divided(y, N) <= 2 * y + N
          /\ 2 * y + N < 2 * N * Divided(y, N) + 2 * N
        BY DividedIs
    <2>3. QED
        BY <2>1, <2>2
<1> HIDE DEF e
<1>2. N * e \in Nat /\ 2 * N * e = 2 * (N * e) /\ N * g \in Nat /\ g * N = N * g
    BY <1>1
<1>3. e <= g
    <2>1. SUFFICES ASSUME e >= g + 1 PROVE FALSE
        BY <1>1
    <2>2. N * e >= N * (g + 1) /\ N * (g + 1) = N * g + N
        BY <1>1, <2>1
    <2>3. QED
        BY <1>0, <1>1, <1>2, <2>2
<1>4. Higher(0, g - e) = g - e /\ g - e \in Nat
    BY <1>1, <1>3 DEF Higher
<1>5. /\ N * (s + (g - e)) = N * s + N * g - N * e
      /\ N * (gross + g) = N * gross + N * g
      /\ YBE * (n + 1) = YBE * n + YBE
      /\ N * (n + 1) = N * n + N
    BY <1>0, <1>1
<1>6. N * s \in Nat /\ N * gross \in Nat /\ YBE * n \in Nat /\ N * n \in Nat
    BY <1>0
<1>7. Exemptions(s + (g - e), n + 1, gross + g, N)
    BY <1>0, <1>1, <1>2, <1>5, <1>6 DEF Exemptions
<1>8. QED
    BY <1>4, <1>7 DEF e

(* A full year: what the bases differ from the earnings less one annual    *)
(* exemption is covered by the rounding of the pays, at a rate of at most  *)
(* one half.                                                               *)
LEMMA FullYear ==
    ASSUME NEW s \in Nat, NEW N \in Nat \ {0}, NEW gross \in Nat,
           Exemptions(s, N, gross, N)
    PROVE  LET x == gross - YBE
           IN  /\ x \in Nat /\ Higher(0, x) = x
               /\ 2 * s <= 2 * x + N /\ 2 * x <= 2 * s + N
               /\ N = 1 => s = x
<1> DEFINE x == gross - YBE
<1>0. YBE \in Nat
    BY CeilingsTyped
<1>1. x \in Int /\ N * x = N * gross - YBE * N /\ gross = x + YBE
    BY <1>0
<1>2. N * x >= 0 /\ N * x \in Int
    BY <1>0, <1>1 DEF Exemptions
<1> HIDE DEF x
<1>3. x >= 0
    <2>1. SUFFICES ASSUME x <= 0 - 1 PROVE FALSE
        BY <1>1
    <2>2. N * x <= N * (0 - 1) /\ N * (0 - 1) = 0 - N
        BY <1>1, <2>1
    <2>3. QED
        BY <1>2, <2>2
<1>4. /\ 2 * (N * s) <= 2 * (N * x) + N * N
      /\ 2 * (N * s) >= 2 * (N * x) - N * N
    BY <1>0, <1>1 DEF Exemptions
<1>5. 2 * s <= 2 * x + N
    <2>1. SUFFICES ASSUME 2 * s >= 2 * x + N + 1 PROVE FALSE
        BY <1>1
    <2>2. /\ N * (2 * s) >= N * (2 * x + N + 1)
          /\ N * (2 * x + N + 1) = 2 * (N * x) + N * N + N
          /\ N * (2 * s) = 2 * (N * s)
        BY <1>1, <2>1
    <2>3. N * x \in Int /\ N * N \in Int /\ N * s \in Int
        BY <1>1
    <2>4. QED
        BY <1>4, <2>2, <2>3
<1>6. 2 * x <= 2 * s + N
    <2>1. SUFFICES ASSUME 2 * x >= 2 * s + N + 1 PROVE FALSE
        BY <1>1
    <2>2. /\ N * (2 * x) >= N * (2 * s + N + 1)
          /\ N * (2 * s + N + 1) = 2 * (N * s) + N * N + N
          /\ N * (2 * x) = 2 * (N * x)
        BY <1>1, <2>1
    <2>3. N * x \in Int /\ N * N \in Int /\ N * s \in Int
        BY <1>1
    <2>4. QED
        BY <1>4, <2>2, <2>3
<1>7. x \in Nat /\ Higher(0, x) = x
    BY <1>1, <1>3 DEF Higher
<1>8. N = 1 => s = x
    BY <1>5, <1>6, <1>7
<1>9. QED
    BY <1>5, <1>6, <1>7, <1>8 DEF x

-----------------------------------------------------------------------------
(* Each sum of the year against the earnings it follows.                   *)
CPP2Sum(sum, n, share, gross, r, max) ==
    /\ Cents(sum, max)
    /\ NotAbove(sum, n, BetweenCeilings(gross), r)
    /\ share = gross =>
          sum = max \/ NotBelow(sum, n, BetweenCeilings(gross), r)

EISum(sum, n, share, gross, charged, r, max) ==
    /\ Cents(sum, max)
    /\ NotAbove(sum, n, Lower(gross, MaxInsurableEarnings), r)
    /\ charged \/ NotAbove(sum, n, share, r)
    /\ share = gross =>
          sum = max \/ NotBelow(sum, n, Lower(gross, MaxInsurableEarnings), r)

(* CPP follows the bases of the pays, s their sum; when every pay reached  *)
(* its exemption and was pensionable, s follows the earnings in its turn.  *)
CPPSum(sum, n, share, gross, below, N, r, max) ==
    /\ Cents(sum, max)
    /\ \E s \in Nat :
          /\ NotAbove(sum, n, s, r)
          /\ sum = max \/ NotBelow(sum, n, s, r)
          /\ share = gross /\ ~below => Exemptions(s, n, gross, N)

LEMMA OverrideIs ==
    ASSUME NEW p \in Nat, NEW g \in Nat, p <= g
    PROVE  /\ Override(p, g) \in Nat /\ Override(p, g) <= g
           /\ p = g => Override(p, g) = g
           /\ ~(g > 0 /\ p = 0) => Override(p, g) = p
BY DEF Override

LEMMA NextCPP2 ==
    ASSUME NEW sum, NEW n \in Nat, NEW share \in Nat, NEW gross \in Nat,
           share <= gross, NEW p \in Nat, NEW g \in Nat, p <= g,
           NEW r \in Nat, NEW max \in Nat, max % 100 = 0,
           CPP2Sum(sum, n, share, gross, r, max)
    PROVE  LET band == Higher(0, Lower(gross + Override(p, g), YAMPE)
                                   - Higher(gross, YMPE))
           IN  CPP2Sum(sum + Capped(Times(band, r), max, sum), n + 1,
                       share + p, gross + g, r, max)
<1> DEFINE c == Override(p, g)
           band == Higher(0, Lower(gross + c, YAMPE) - Higher(gross, YMPE))
           next == sum + Capped(Times(band, r), max, sum)
           x == BetweenCeilings(gross)
           y == BetweenCeilings(gross + g)
<1>1. c \in Nat /\ c <= g /\ (p = g => c = g)
    BY OverrideIs
<1> HIDE DEF c
<1>2. band \in Nat /\ x + band <= y /\ (c = g => x + band = y)
    BY <1>1, BandIs
<1>3. x \in Nat /\ y \in Nat
    BY CeilingsAreNat
<1>4. /\ Cents(sum, max) /\ NotAbove(sum, n, x, r)
      /\ share = gross => sum = max \/ NotBelow(sum, n, x, r)
    BY DEF CPP2Sum
<1> HIDE DEF band, x, y
<1>5. /\ Cents(next, max)
      /\ NotAbove(sum, n, x, r) /\ x + band <= y =>
            NotAbove(next, n + 1, y, r)
      /\ (sum = max \/ NotBelow(sum, n, x, r)) /\ x + band = y =>
            next = max \/ NotBelow(next, n + 1, y, r)
    BY <1>2, <1>3, <1>4, NextPay
<1>6. share + p = gross + g => share = gross /\ p = g
    OBVIOUS
<1> HIDE DEF next
<1>7. CPP2Sum(next, n + 1, share + p, gross + g, r, max)
    BY <1>1, <1>2, <1>4, <1>5, <1>6 DEF CPP2Sum, y
<1>8. QED
    BY <1>7 DEF next, band, c

LEMMA NextEI ==
    ASSUME NEW sum, NEW n \in Nat, NEW share \in Nat, NEW gross \in Nat,
           share <= gross, NEW p \in Nat, NEW g \in Nat, p <= g,
           NEW r \in Nat, NEW max \in Nat, max % 100 = 0,
           NEW charged \in BOOLEAN,
           EISum(sum, n, share, gross, charged, r, max)
    PROVE  LET insured == Lower(Override(p, g),
                                Higher(0, MaxInsurableEarnings - gross))
           IN  EISum(sum + Capped(Times(insured, r), max, sum), n + 1,
                     share + p, gross + g, charged \/ (g > 0 /\ p = 0), r, max)
<1> DEFINE c == Override(p, g)
           b == Lower(c, Higher(0, MaxInsurableEarnings - gross))
           next == sum + Capped(Times(b, r), max, sum)
           x == Lower(gross, MaxInsurableEarnings)
           y == Lower(gross + g, MaxInsurableEarnings)
<1>1. /\ c \in Nat /\ c <= g /\ (p = g => c = g)
      /\ ~(g > 0 /\ p = 0) => c = p
    BY OverrideIs
<1> HIDE DEF c
<1>2. b \in Nat /\ x + b <= y /\ (c = g => x + b = y)
    BY <1>1, RoomIs
<1>3. b <= c
    BY <1>1, CeilingsTyped DEF Lower, Higher
<1>4. x \in Nat /\ y \in Nat
    BY CeilingsAreNat
<1>5. /\ Cents(sum, max) /\ NotAbove(sum, n, x, r)
      /\ charged \/ NotAbove(sum, n, share, r)
      /\ share = gross => sum = max \/ NotBelow(sum, n, x, r)
    BY DEF EISum
<1> HIDE DEF b, x, y
<1>6. /\ Cents(next, max)
      /\ NotAbove(sum, n, x, r) /\ x + b <= y => NotAbove(next, n + 1, y, r)
      /\ (sum = max \/ NotBelow(sum, n, x, r)) /\ x + b = y =>
            next = max \/ NotBelow(next, n + 1, y, r)
    BY <1>2, <1>4, <1>5, NextPay
<1>7. NotAbove(sum, n, share, r) /\ share + b <= share + p =>
            NotAbove(next, n + 1, share + p, r)
    <2>1. share + p \in Nat
        OBVIOUS
    <2>2. QED
        BY <1>2, <1>5, <2>1, NextPay
<1> HIDE DEF next
<1>8. charged \/ (g > 0 /\ p = 0) \/ NotAbove(next, n + 1, share + p, r)
    <2>1. SUFFICES ASSUME ~charged, ~(g > 0 /\ p = 0)
                   PROVE  NotAbove(next, n + 1, share + p, r)
        OBVIOUS
    <2>2. b <= p
        BY <1>1, <1>3, <2>1
    <2>3. share + b <= share + p
        BY <1>2, <2>2
    <2>4. QED
        BY <1>5, <1>7, <2>1, <2>3
<1>9. share + p = gross + g => share = gross /\ p = g
    OBVIOUS
<1>10. EISum(next, n + 1, share + p, gross + g, charged \/ (g > 0 /\ p = 0),
             r, max)
    <2>1. NotAbove(next, n + 1, y, r)
        BY <1>2, <1>5, <1>6
    <2>2. share + p = gross + g => next = max \/ NotBelow(next, n + 1, y, r)
        BY <1>1, <1>2, <1>5, <1>6, <1>9
    <2>3. QED
        BY <1>6, <1>8, <2>1, <2>2 DEF EISum, y
<1>11. QED
    BY <1>10 DEF next, b, c

LEMMA NextCPP ==
    ASSUME NEW sum, NEW n \in Nat, NEW share \in Nat, NEW gross \in Nat,
           share <= gross, NEW p \in Nat, NEW g \in Nat, p <= g,
           NEW r \in Nat, NEW max \in Nat, max % 100 = 0,
           NEW below \in BOOLEAN, NEW N \in Nat \ {0},
           CPPSum(sum, n, share, gross, below, N, r, max)
    PROVE  LET c == Override(p, g)
               b == Higher(0, c - Divided(YBE, N))
           IN  CPPSum(sum + Capped(Times(b, r), max, sum), n + 1,
                      share + p, gross + g, below \/ c * N < YBE, N, r, max)
<1> DEFINE c == Override(p, g)
           b == Higher(0, c - Divided(YBE, N))
           next == sum + Capped(Times(b, r), max, sum)
<1>1. c \in Nat /\ c <= g /\ (p = g => c = g)
    BY OverrideIs
<1> HIDE DEF c
<1>2. b \in Nat
    <2>1. PICK y \in Nat : y = YBE
        BY CeilingsTyped
    <2>2. Divided(y, N) \in Nat
        BY DividedIs
    <2>3. QED
        BY <1>1, <2>1, <2>2 DEF Higher
<1>3. Cents(sum, max)
    BY DEF CPPSum
<1>4. PICK s \in Nat :
          /\ NotAbove(sum, n, s, r)
          /\ sum = max \/ NotBelow(sum, n, s, r)
          /\ share = gross /\ ~below => Exemptions(s, n, gross, N)
    BY DEF CPPSum
<1>5. share = gross /\ ~below /\ p = g /\ ~(c * N < YBE) =>
          Exemptions(s + b, n + 1, gross + g, N)
    <2>1. SUFFICES ASSUME share = gross, ~below, p = g, ~(c * N < YBE)
                   PROVE  Exemptions(s + b, n + 1, gross + g, N)
        OBVIOUS
    <2>2. g * N >= YBE
        <3>1. g * N \in Nat /\ c * N = g * N
            BY <1>1, <2>1
        <3>2. QED
            BY <2>1, <3>1, CeilingsTyped
    <2>3. Exemptions(s + Higher(0, g - Divided(YBE, N)), n + 1, gross + g, N)
        BY <1>4, <2>1, <2>2, OneMoreExemption
    <2>4. QED
        BY <1>1, <2>1, <2>3
<1> HIDE DEF b
<1>6. /\ Cents(next, max)
      /\ NotAbove(sum, n, s, r) /\ s + b <= s + b =>
            NotAbove(next, n + 1, s + b, r)
      /\ (sum = max \/ NotBelow(sum, n, s, r)) /\ s + b = s + b =>
            next = max \/ NotBelow(next, n + 1, s + b, r)
    <2>1. s + b \in Nat
        BY <1>2
    <2>2. QED
        BY <1>2, <1>3, <2>1, NextPay
<1> HIDE DEF next
<1>7. share + p = gross + g => share = gross /\ p = g
    OBVIOUS
<1>8. CPPSum(next, n + 1, share + p, gross + g, below \/ c * N < YBE, N, r, max)
    <2>1. s + b \in Nat /\ s + b <= s + b
        BY <1>2
    <2>2. NotAbove(next, n + 1, s + b, r)
        BY <1>4, <1>6, <2>1
    <2>3. next = max \/ NotBelow(next, n + 1, s + b, r)
        BY <1>4, <1>6
    <2>4. share + p = gross + g /\ ~(below \/ c * N < YBE) =>
              Exemptions(s + b, n + 1, gross + g, N)
        BY <1>5, <1>7
    <2>5. QED
        BY <1>6, <2>1, <2>2, <2>3, <2>4 DEF CPPSum
<1>9. QED
    BY <1>8 DEF next, b, c

DedInv ==
    /\ DeductionsTypeOK
    /\ eligible.cpp <= ytd.gross /\ eligible.ei <= ytd.gross
    /\ paid = 0 => ytd.gross = 0
    /\ CPPSum(ytd.cpp, paid, eligible.cpp, ytd.gross, small, perYear,
              CPPRate[quebec], CPPMax[quebec])
    /\ CPP2Sum(ytd.cpp2, paid, eligible.cpp, ytd.gross,
               CPP2Rate[quebec], CPP2Max[quebec])
    /\ EISum(ytd.ei, paid, eligible.ei, ytd.gross, fellBack,
             EIRate[quebec], EIMax[quebec])

LEMMA RatesTyped ==
    ASSUME NEW q \in BOOLEAN
    PROVE  /\ CPPRate[q] \in Nat /\ CPP2Rate[q] \in Nat /\ EIRate[q] \in Nat
           /\ CPPMax[q] \in Nat /\ CPP2Max[q] \in Nat /\ EIMax[q] \in Nat
           /\ CPPMax[q] % 100 = 0 /\ CPP2Max[q] % 100 = 0 /\ EIMax[q] % 100 = 0
           /\ 2 * CPPRate[q] <= 10000
<1>1. /\ CPPRate \in [BOOLEAN -> Nat] /\ CPP2Rate \in [BOOLEAN -> Nat]
      /\ EIRate \in [BOOLEAN -> Nat] /\ CPPMax \in [BOOLEAN -> Nat]
      /\ CPP2Max \in [BOOLEAN -> Nat] /\ EIMax \in [BOOLEAN -> Nat]
    BY DeductionsAssumption
<1>2. QED
    BY <1>1, PublishedRates DEF Cent, Dollar

LEMMA DedInvInit == DeductionsInit => DedInv
<1> SUFFICES ASSUME DeductionsInit PROVE DedInv
    OBVIOUS
<1>1. /\ quebec \in BOOLEAN /\ perYear \in Nat \ {0} /\ perYear \in PayPeriods
      /\ paid = 0
      /\ ytd = [gross |-> 0, cpp |-> 0, cpp2 |-> 0, ei |-> 0]
      /\ eligible = [cpp |-> 0, ei |-> 0]
      /\ fellBack = FALSE /\ small = FALSE
    BY DeductionsAssumption DEF DeductionsInit
<1>2. DeductionsTypeOK
    <2>1. /\ ytd \in [gross : Nat, cpp : Nat, cpp2 : Nat, ei : Nat]
          /\ eligible \in [cpp : Nat, ei : Nat]
        BY <1>1
    <2>2. paid \in 0 .. perYear
        BY <1>1
    <2>3. QED
        BY <1>1, <2>1, <2>2 DEF DeductionsTypeOK
<1>3. \A r \in Nat, max \in Nat :
          Cents(0, max) /\ NotAbove(0, 0, 0, r) /\ NotBelow(0, 0, 0, r)
    BY DEF Cents, NotAbove, NotBelow
<1>4. CPPSum(0, 0, 0, 0, FALSE, perYear, CPPRate[quebec], CPPMax[quebec])
    <2>1. Exemptions(0, 0, 0, perYear)
        <3>1. perYear * 0 = 0 /\ YBE * 0 = 0
            BY <1>1, CeilingsTyped
        <3>2. QED
            BY <3>1 DEF Exemptions
    <2>2. QED
        BY <1>1, <1>3, <2>1, RatesTyped DEF CPPSum
<1>5. CPP2Sum(0, 0, 0, 0, CPP2Rate[quebec], CPP2Max[quebec])
    BY <1>1, <1>3, RatesTyped, CeilingsAreNat DEF CPP2Sum
<1>6. EISum(0, 0, 0, 0, FALSE, EIRate[quebec], EIMax[quebec])
    BY <1>1, <1>3, RatesTyped, CeilingsAreNat DEF EISum
<1>7. /\ ytd.gross = 0 /\ ytd.cpp = 0 /\ ytd.cpp2 = 0 /\ ytd.ei = 0
      /\ eligible.cpp = 0 /\ eligible.ei = 0
    BY <1>1
<1>8. /\ CPPSum(ytd.cpp, paid, eligible.cpp, ytd.gross, small, perYear,
                CPPRate[quebec], CPPMax[quebec])
      /\ CPP2Sum(ytd.cpp2, paid, eligible.cpp, ytd.gross,
                 CPP2Rate[quebec], CPP2Max[quebec])
      /\ EISum(ytd.ei, paid, eligible.ei, ytd.gross, fellBack,
               EIRate[quebec], EIMax[quebec])
    BY <1>1, <1>4, <1>5, <1>6, <1>7
<1>9. eligible.cpp <= ytd.gross /\ eligible.ei <= ytd.gross
    BY <1>7
<1>10. QED
    BY <1>2, <1>7, <1>8, <1>9 DEF DedInv

LEMMA CalculateStep ==
    ASSUME DedInv, NEW pay \in BasePays, NEW line \in Extras,
           NEW code \in EarningsCodes, Calculate(pay, line, code)
    PROVE  DedInv'
<1> DEFINE g == pay + line
           pc == pay + (IF code.cpp THEN line ELSE 0)
           pe == pay + (IF code.ei THEN line ELSE 0)
           cg == Override(pc, g)
           eg == Override(pe, g)
           charged == fellBack \/ (g > 0 /\ pe = 0)
           below == small \/ cg * perYear < YBE
<1>1. g \in Nat /\ pc \in Nat /\ pe \in Nat /\ pc <= g /\ pe <= g
    BY DeductionsAssumption
<1>2. /\ paid < perYear /\ paid' = paid + 1
      /\ ytd' = [gross |-> ytd.gross + g,
                 cpp |-> ytd.cpp + CPP(cg),
                 cpp2 |-> ytd.cpp2 + CPP2(cg),
                 ei |-> ytd.ei + EI(eg)]
      /\ eligible' = [cpp |-> eligible.cpp + pc, ei |-> eligible.ei + pe]
      /\ fellBack' = charged /\ small' = below
      /\ quebec' = quebec /\ perYear' = perYear
    BY DEF Calculate
<1> HIDE DEF g, pc, pe
<1>3. /\ quebec \in BOOLEAN /\ perYear \in PayPeriods /\ perYear \in Nat \ {0}
      /\ paid \in Nat /\ paid \in 0 .. perYear
      /\ ytd.gross \in Nat /\ eligible.cpp \in Nat /\ eligible.ei \in Nat
      /\ fellBack \in BOOLEAN /\ small \in BOOLEAN
    BY DeductionsAssumption DEF DedInv, DeductionsTypeOK
<1>4. /\ eligible.cpp <= ytd.gross /\ eligible.ei <= ytd.gross
      /\ CPPSum(ytd.cpp, paid, eligible.cpp, ytd.gross, small, perYear,
                CPPRate[quebec], CPPMax[quebec])
      /\ CPP2Sum(ytd.cpp2, paid, eligible.cpp, ytd.gross,
                 CPP2Rate[quebec], CPP2Max[quebec])
      /\ EISum(ytd.ei, paid, eligible.ei, ytd.gross, fellBack,
               EIRate[quebec], EIMax[quebec])
    BY DEF DedInv
<1>5. charged \in BOOLEAN /\ below \in BOOLEAN
    BY <1>3
<1>6. CPPSum(ytd.cpp + CPP(cg), paid + 1, eligible.cpp + pc, ytd.gross + g,
             below, perYear, CPPRate[quebec], CPPMax[quebec])
    BY <1>1, <1>3, <1>4, RatesTyped, NextCPP DEF CPP
<1>7. CPP2Sum(ytd.cpp2 + CPP2(cg), paid + 1, eligible.cpp + pc, ytd.gross + g,
              CPP2Rate[quebec], CPP2Max[quebec])
    <2>1. /\ CPP2Rate[quebec] \in Nat /\ CPP2Max[quebec] \in Nat
          /\ CPP2Max[quebec] % 100 = 0
        BY <1>3, RatesTyped
    <2>2. LET band == Higher(0, Lower(ytd.gross + Override(pc, g), YAMPE)
                                   - Higher(ytd.gross, YMPE))
          IN  CPP2Sum(ytd.cpp2
                       + Capped(Times(band, CPP2Rate[quebec]),
                                CPP2Max[quebec], ytd.cpp2),
                      paid + 1, eligible.cpp + pc, ytd.gross + g,
                      CPP2Rate[quebec], CPP2Max[quebec])
        BY <1>1, <1>3, <1>4, <2>1, NextCPP2
    <2>3. QED
        BY <2>2 DEF CPP2, Band
<1>8. EISum(ytd.ei + EI(eg), paid + 1, eligible.ei + pe, ytd.gross + g,
            charged, EIRate[quebec], EIMax[quebec])
    BY <1>1, <1>3, <1>4, RatesTyped, NextEI DEF EI
<1> HIDE DEF cg, eg, charged, below
<1>9. /\ ytd'.gross = ytd.gross + g /\ ytd'.cpp = ytd.cpp + CPP(cg)
      /\ ytd'.cpp2 = ytd.cpp2 + CPP2(cg) /\ ytd'.ei = ytd.ei + EI(eg)
      /\ eligible'.cpp = eligible.cpp + pc /\ eligible'.ei = eligible.ei + pe
    BY <1>2
<1>10. DeductionsTypeOK'
    <2>1. /\ ytd.cpp + CPP(cg) \in Nat /\ ytd.cpp2 + CPP2(cg) \in Nat
          /\ ytd.ei + EI(eg) \in Nat
        BY <1>6, <1>7, <1>8 DEF CPPSum, CPP2Sum, EISum, Cents
    <2>2. ytd' \in [gross : Nat, cpp : Nat, cpp2 : Nat, ei : Nat]
        BY <1>1, <1>2, <1>3, <2>1
    <2>3. eligible' \in [cpp : Nat, ei : Nat]
        BY <1>1, <1>2, <1>3
    <2>4. paid' \in 0 .. perYear'
        BY <1>2, <1>3
    <2>5. fellBack' \in BOOLEAN /\ small' \in BOOLEAN
        BY <1>2, <1>5
    <2>6. QED
        BY <1>2, <1>3, <2>2, <2>3, <2>4, <2>5 DEF DeductionsTypeOK
<1>11. eligible'.cpp <= ytd'.gross /\ eligible'.ei <= ytd'.gross
    BY <1>1, <1>3, <1>4, <1>9
<1>12. CPPSum(ytd'.cpp, paid', eligible'.cpp, ytd'.gross, small', perYear',
              CPPRate[quebec'], CPPMax[quebec'])
    BY <1>2, <1>6, <1>9
<1>13. CPP2Sum(ytd'.cpp2, paid', eligible'.cpp, ytd'.gross,
               CPP2Rate[quebec'], CPP2Max[quebec'])
    BY <1>2, <1>7, <1>9
<1>14. EISum(ytd'.ei, paid', eligible'.ei, ytd'.gross, fellBack',
             EIRate[quebec'], EIMax[quebec'])
    BY <1>2, <1>8, <1>9
<1>15. paid' # 0
    BY <1>2, <1>3
<1>16. QED
    BY <1>10, <1>11, <1>12, <1>13, <1>14, <1>15 DEF DedInv

LEMMA DedInvNext == DedInv /\ [DeductionsNext]_payVars => DedInv'
<1> SUFFICES ASSUME DedInv, [DeductionsNext]_payVars PROVE DedInv'
    OBVIOUS
<1>1. CASE DeductionsNext
    BY <1>1, CalculateStep DEF DeductionsNext
<1>2. CASE UNCHANGED payVars
    BY <1>2 DEF payVars, DedInv, DeductionsTypeOK
<1>3. QED
    BY <1>1, <1>2

LEMMA DedInvAlways == DeductionsSpec => []DedInv
<1>1. QED
    BY DedInvInit, DedInvNext, PTL DEF DeductionsSpec

(* A full year of pays, with the yearly contribution rounded in its turn.  *)
LEMMA FullYearSum ==
    ASSUME NEW sum \in Nat, NEW s \in Nat, NEW N \in Nat \ {0},
           NEW gross \in Nat, NEW r \in Nat, 2 * r <= 10000,
           Exemptions(s, N, gross, N)
    PROVE  LET yearly == Times(Higher(0, gross - YBE), r)
           IN  /\ yearly \in Nat
               /\ NotAbove(sum, N, s, r) => sum <= yearly + N * 51
               /\ NotBelow(sum, N, s, r) => yearly <= sum + N * 51
<1> DEFINE x == gross - YBE
<1>1. /\ x \in Nat /\ Higher(0, x) = x
      /\ 2 * s <= 2 * x + N /\ 2 * x <= 2 * s + N
      /\ N = 1 => s = x
    BY FullYear
<1> HIDE DEF x
<1>2. PICK u \in Nat : u = x
    BY <1>1
<1>3. 2 * s <= 2 * u + N /\ 2 * u <= 2 * s + N /\ (N = 1 => s = u)
    BY <1>1, <1>2
<1> DEFINE t == Times(u, r)
<1>4. u * r \in Nat /\ s * r \in Nat /\ N * r \in Nat
    OBVIOUS
<1>5. /\ t \in Nat
      /\ 20000 * t <= 2 * (u * r) + 10000
      /\ 2 * (u * r) < 20000 * t + 10000
    BY ONLY TimesIs, u \in Nat, r \in Nat
<1>6. 2 * (s * r) <= 2 * (u * r) + N * r /\ 2 * (u * r) <= 2 * (s * r) + N * r
    <2>1. (2 * s) * r <= (2 * u + N) * r /\ (2 * u) * r <= (2 * s + N) * r
        BY <1>3
    <2>2. /\ (2 * s) * r = 2 * (s * r) /\ (2 * u) * r = 2 * (u * r)
          /\ (2 * u + N) * r = 2 * (u * r) + N * r
          /\ (2 * s + N) * r = 2 * (s * r) + N * r
        OBVIOUS
    <2>3. QED
        BY <2>1, <2>2
<1>7. N * r <= 5000 * N
    OBVIOUS
<1> HIDE DEF t
<1>8. ASSUME N = 1
      PROVE  /\ NotAbove(sum, N, s, r) => sum <= t + N * 51
             /\ NotBelow(sum, N, s, r) => t <= sum + N * 51
    <2>1. s * r = u * r
        BY <1>3, <1>8
    <2>2. /\ NotAbove(sum, 1, s, r) => sum <= t + 51
          /\ NotBelow(sum, 1, s, r) => t <= sum + 51
        BY <1>4, <1>5, <2>1 DEF NotAbove, NotBelow
    <2>3. QED
        BY <1>5, <1>8, <2>2
<1>9. ASSUME N >= 2
      PROVE  /\ NotAbove(sum, N, s, r) => sum <= t + N * 51
             /\ NotBelow(sum, N, s, r) => t <= sum + N * 51
    <2>1. ASSUME NotAbove(sum, N, s, r) PROVE sum <= t + N * 51
        BY <1>4, <1>5, <1>6, <1>7, <1>9, <2>1 DEF NotAbove
    <2>2. ASSUME NotBelow(sum, N, s, r) PROVE t <= sum + N * 51
        BY <1>4, <1>5, <1>6, <1>7, <1>9, <2>2 DEF NotBelow
    <2>3. QED
        BY <2>1, <2>2
<1>10. N = 1 \/ N >= 2
    OBVIOUS
<1>11. /\ t \in Nat
       /\ NotAbove(sum, N, s, r) => sum <= t + N * 51
       /\ NotBelow(sum, N, s, r) => t <= sum + N * 51
    BY <1>5, <1>8, <1>9, <1>10
<1>12. Times(Higher(0, x), r) = t
    BY <1>1, <1>2 DEF t
<1>13. QED
    BY <1>11, <1>12 DEF x

(* A sum at or below its maximum, against the lesser of both.              *)
LEMMA AgainstTheLesser ==
    ASSUME NEW sum \in Nat, NEW max \in Nat, NEW y \in Nat, NEW n \in Nat,
           sum <= max, n * 51 \in Nat
    PROVE  /\ Lower(max, y) \in Nat
           /\ sum <= y + n * 51 => sum <= Lower(max, y) + n * 51
           /\ sum = max \/ y <= sum + n * 51 => Lower(max, y) <= sum + n * 51
BY DEF Lower

(* For every employee and every year's rates: the sums of the year follow  *)
(* from its earnings alone, whatever the size and order of the pays        *)
(* (calcCPP).                                                              *)
THEOREM ContributionsOfTheYear ==
    DeductionsSpec => []ContributionsFollowEarnings
<1>1. ASSUME DedInv PROVE ContributionsFollowEarnings
    <2> DEFINE G == ytd.gross
               wholly == eligible.cpp = G
               bet == BetweenCeilings(G)
               r2 == CPP2Rate[quebec]
               m2 == CPP2Max[quebec]
               y2 == Times(bet, r2)
               r == CPPRate[quebec]
               m == CPPMax[quebec]
               y == Times(Higher(0, G - YBE), r)
    <2>1. /\ quebec \in BOOLEAN /\ perYear \in Nat \ {0} /\ paid \in Nat
          /\ G \in Nat /\ paid * 51 \in Nat /\ (paid = 0 => G = 0)
        BY <1>1, DeductionsAssumption DEF DedInv, DeductionsTypeOK
    <2>2. /\ r \in Nat /\ m \in Nat /\ r2 \in Nat /\ m2 \in Nat
          /\ 2 * r <= 10000
        BY <2>1, RatesTyped
    <2>3. bet \in Nat /\ (paid = 0 => bet = 0)
        BY <2>1, CeilingsAreNat
    <2> HIDE DEF r, m, r2, m2, bet
    <2>4. y2 \in Nat
        BY <2>2, <2>3, TimesNat
    <2>5. /\ ytd.cpp2 \in Nat /\ ytd.cpp2 <= m2
          /\ NotAbove(ytd.cpp2, paid, bet, r2)
          /\ wholly => ytd.cpp2 = m2 \/ NotBelow(ytd.cpp2, paid, bet, r2)
        BY <1>1 DEF DedInv, CPP2Sum, Cents, bet, r2, m2
    <2>6. /\ ytd.cpp2 <= y2 + paid * 51
          /\ NotBelow(ytd.cpp2, paid, bet, r2) => y2 <= ytd.cpp2 + paid * 51
        BY <2>1, <2>2, <2>3, <2>5, YearlySum
    <2> HIDE DEF y2
    <2>7. /\ Lower(m2, y2) \in Nat
          /\ ytd.cpp2 <= Lower(m2, y2) + paid * 51
          /\ wholly => Lower(m2, y2) <= ytd.cpp2 + paid * 51
        BY <2>1, <2>2, <2>4, <2>5, <2>6, AgainstTheLesser
    <2>8. PICK s \in Nat :
              /\ NotAbove(ytd.cpp, paid, s, r)
              /\ ytd.cpp = m \/ NotBelow(ytd.cpp, paid, s, r)
              /\ wholly /\ ~small => Exemptions(s, paid, G, perYear)
        BY <1>1 DEF DedInv, CPPSum, r, m
    <2>9. ytd.cpp \in Nat /\ ytd.cpp <= m
        BY <1>1 DEF DedInv, CPPSum, Cents, m
    <2>10. ASSUME wholly, paid = perYear, ~small
           PROVE  /\ ytd.cpp <= Lower(m, y) + paid * 51
                  /\ Lower(m, y) <= ytd.cpp + paid * 51
        <3>1. PICK n \in Nat \ {0} : n = paid
            BY <2>1, <2>10
        <3>2. Exemptions(s, n, G, n)
            BY <2>8, <2>10, <3>1
        <3>3. /\ y \in Nat
              /\ NotAbove(ytd.cpp, n, s, r) => ytd.cpp <= y + n * 51
              /\ NotBelow(ytd.cpp, n, s, r) => y <= ytd.cpp + n * 51
            BY <2>1, <2>2, <2>9, <3>2, FullYearSum
        <3> HIDE DEF y
        <3>4. QED
            BY <2>1, <2>2, <2>8, <2>9, <3>1, <3>3, AgainstTheLesser
    <2>11. Rounding = paid * 51
        BY DEF Rounding, Cent
    <2>12. /\ AtMost(ytd.cpp2, Lower(m2, y2))
           /\ wholly => About(ytd.cpp2, Lower(m2, y2))
           /\ wholly /\ paid = perYear /\ ~small => About(ytd.cpp, Lower(m, y))
        BY <2>7, <2>10, <2>11 DEF AtMost, About
    <2> HIDE DEF y
    <2>13. QED
        BY <2>5, <2>9, <2>12
        DEF ContributionsFollowEarnings, BetweenCeilings, y, y2, m, m2, r, r2, bet
<1>2. QED
    BY <1>1, DedInvAlways, PTL

(* For every employee and every year's rates: EI never exceeds the maximum *)
(* nor the premium on what was insurable, unless a pay of which nothing    *)
(* was insurable was charged in full (calcEI).                             *)
THEOREM PremiumsOfTheYear == DeductionsSpec => []PremiumsFollowEarnings
<1>1. ASSUME DedInv PROVE PremiumsFollowEarnings
    <2> DEFINE G == ytd.gross
               upTo == Lower(G, MaxInsurableEarnings)
               r == EIRate[quebec]
               m == EIMax[quebec]
               y == Times(upTo, r)
    <2>1. /\ quebec \in BOOLEAN /\ paid \in Nat /\ G \in Nat
          /\ eligible.ei \in Nat /\ fellBack \in BOOLEAN
          /\ paid * 51 \in Nat /\ (paid = 0 => G = 0)
        BY <1>1 DEF DedInv, DeductionsTypeOK
    <2>2. r \in Nat /\ m \in Nat
        BY <2>1, RatesTyped
    <2>3. upTo \in Nat /\ (paid = 0 => upTo = 0)
        BY <2>1, CeilingsAreNat
    <2> HIDE DEF r, m, upTo
    <2>4. y \in Nat
        BY <2>2, <2>3, TimesNat
    <2>5. /\ ytd.ei \in Nat /\ ytd.ei <= m
          /\ NotAbove(ytd.ei, paid, upTo, r)
          /\ fellBack \/ NotAbove(ytd.ei, paid, eligible.ei, r)
          /\ eligible.ei = G => ytd.ei = m \/ NotBelow(ytd.ei, paid, upTo, r)
        BY <1>1 DEF DedInv, EISum, Cents, upTo, r, m
    <2>6. /\ ytd.ei <= y + paid * 51
          /\ NotBelow(ytd.ei, paid, upTo, r) => y <= ytd.ei + paid * 51
        BY <2>1, <2>2, <2>3, <2>5, YearlySum
    <2>7. fellBack \/ ytd.ei <= Times(eligible.ei, r) + paid * 51
        BY <2>1, <2>2, <2>5, YearlySum
    <2> HIDE DEF y
    <2>8. /\ ytd.ei <= Lower(m, y) + paid * 51
          /\ eligible.ei = G => Lower(m, y) <= ytd.ei + paid * 51
        BY <2>1, <2>2, <2>4, <2>5, <2>6, AgainstTheLesser
    <2>9. Rounding = paid * 51
        BY DEF Rounding, Cent
    <2>10. /\ AtMost(ytd.ei, Lower(m, y))
           /\ fellBack \/ AtMost(ytd.ei, Times(eligible.ei, r))
           /\ eligible.ei = G => About(ytd.ei, Lower(m, y))
        BY <2>7, <2>8, <2>9 DEF AtMost, About
    <2>11. QED
        BY <2>5, <2>10 DEF PremiumsFollowEarnings, y, m, r, upTo
<1>2. QED
    BY <1>1, DedInvAlways, PTL

-----------------------------------------------------------------------------
(* The five parts side by side: each step is one part's, and leaves the    *)
(* others as they are.                                                     *)
OfficeInv == BankInv /\ StartInv /\ RatesInv /\ AccountsInv /\ DedInv

LEMMA StartOverInv == StartOver => StartInv
<1> SUFFICES ASSUME StartOver PROVE StartInv
    OBVIOUS
<1>1. /\ made = Version(Len(Open)) /\ at = Up /\ stored = {} /\ priced = TRUE
      /\ json = FALSE /\ customers = << >> /\ todo = {}
      /\ customer = [t \in OldTasks |-> 0]
      /\ found = [n \in Companies |-> 0]
      /\ undated = FALSE /\ orphaned = FALSE /\ admin = TRUE /\ late = FALSE
      /\ split = {} /\ stops = 0
    BY DEF StartOver
<1>2. made = Everything /\ at \in 1 .. Up
    BY <1>1, OpenOrder DEF Version, Everything, Steps, Up
<1>3. customers \in Seq(Companies) /\ Len(customers) = 0 /\ DOMAIN customers = {}
    BY <1>1
<1>4. StartTypeOK
    <2>1. 0 \in 0 .. Len(customers)
        BY <1>3
    <2>2. /\ customer \in [OldTasks -> 0 .. Len(customers)]
          /\ found \in [Companies -> 0 .. Len(customers)]
        BY <1>1, <2>1
    <2>3. QED
        BY <1>1, <1>2, <1>3, <2>2 DEF StartTypeOK
<1>5. Unlinked = {}
    BY <1>1 DEF Unlinked
<1>6. MadeSoFar /\ LinkedSoFar /\ BroughtUpToDate
    BY <1>1, <1>2, <1>5 DEF MadeSoFar, LinkedSoFar, BroughtUpToDate
<1>7. CustomersOfTheirName /\ OnlySplitNamesAgain /\ OneCustomerPerName
    BY <1>1, <1>3 DEF CustomersOfTheirName, RightlyLinked,
        OnlySplitNamesAgain, OneCustomerPerName
<1>8. QED
    BY <1>4, <1>6, <1>7 DEF StartInv

LEMMA OfficeInvInit == OfficeInit => OfficeInv
<1> SUFFICES ASSUME OfficeInit PROVE OfficeInv
    OBVIOUS
<1>1. BankInit /\ RatesInit /\ AccountsInit /\ DeductionsInit
    BY DEF OfficeInit
<1>2. StartInit \/ StartOver
    BY DEF OfficeInit
<1>3. QED
    BY <1>1, <1>2, BankInvInit, RatesInvInit, AccountsInvInit, DedInvInit,
        StartInvInit, StartOverInv DEF OfficeInv

LEMMA OfficeInvNext == OfficeInv /\ [OfficeNext]_officeVars => OfficeInv'
<1> SUFFICES ASSUME OfficeInv, [OfficeNext]_officeVars PROVE OfficeInv'
    OBVIOUS
<1>1. [BankNext]_bankVars
    BY DEF OfficeNext, officeVars, BankStep, StartStep, RatesStep, AccountsStep,
        DeductionsStep
<1>2. [StartNext]_startVars
    BY DEF OfficeNext, officeVars, BankStep, StartStep, RatesStep, AccountsStep,
        DeductionsStep
<1>3. [RatesNext]_ratesVars
    BY DEF OfficeNext, officeVars, BankStep, StartStep, RatesStep, AccountsStep,
        DeductionsStep
<1>4. [AccountsNext]_accountVars
    BY DEF OfficeNext, officeVars, BankStep, StartStep, RatesStep, AccountsStep,
        DeductionsStep
<1>5. [DeductionsNext]_payVars
    BY DEF OfficeNext, officeVars, BankStep, StartStep, RatesStep, AccountsStep,
        DeductionsStep
<1>6. QED
    BY <1>1, <1>2, <1>3, <1>4, <1>5, BankInvNext, StartInvNext, RatesInvNext,
        AccountsInvNext, DedInvNext DEF OfficeInv

(* Every part keeps its types, whichever of them is at work.               *)
THEOREM OfficeTypes == OfficeSpec => []OfficeTypeOK
<1>1. OfficeInv => OfficeTypeOK
    BY DEF OfficeInv, OfficeTypeOK, BankInv, StartInv, RatesInv, AccountsInv,
        DedInv
<1>2. QED
    BY <1>1, OfficeInvInit, OfficeInvNext, PTL DEF OfficeSpec
=============================================================================
