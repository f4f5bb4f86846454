---------------------------- MODULE YearEndProofs ----------------------------
(***************************************************************************)
(* Theorems about YearEnd, for any number of employees, periods, requests  *)
(* and crashes.                                                            *)
(***************************************************************************)
EXTENDS YearEnd, TLAPS, FiniteSetTheorems, WellFoundedInduction

Building == {"summary_row", "header", "slips", "log"}

ReqOK == req \in [Requests -> Request]
StatusOK == status \in {"none", "draft", "finalized"}
LogOK == log \in Seq({"generated", "regenerated", "finalized"})

(* Store.mu: between its statements a critical section is alone.           *)
OneHolder ==
    \A q, r \in Requests :
        /\ req[q].pc \in Building \cup {"finalize_log"}
        /\ req[r].pc \in Building \cup {"finalize_log"}
        => q = r

(* Inductive: the section that rebuilds a return found it a draft, and     *)
(* nothing finalizes it before the section ends or the process dies; the   *)
(* section that finalized it has not yet written its audit log.            *)
SealInv ==
    /\ ReqOK /\ StatusOK /\ LogOK /\ OneHolder
    /\ \A r \in Requests : req[r].pc \in Building => status = "draft"
    /\ \A r \in Requests : req[r].pc = "finalize_log" => status = "finalized"
    /\ \A i \in 1 .. Len(log) :
        log[i] = "finalized" =>
            /\ i = Len(log) /\ status = "finalized"
            /\ \A r \in Requests : req[r].pc # "finalize_log"

-----------------------------------------------------------------------------
(* Sums over slips or entries.  The theorems of the library about induction and   *)
(* recursion take an operator, so the induction on their number is done    *)
(* on sets: a set of numbers that is not empty has a least one.       *)

LEMMA Least ==
    ASSUME NEW T, T \subseteq Nat, T # {}
    PROVE  \E m \in T : \A n \in T : m <= n
<1>1. \E x \in T : \A y \in T : ~ (<<y, x>> \in OpToRel(<, Nat))
    BY NatLessThanWellFounded, WFMin
<1>2. PICK x \in T :
        \A y \in T : <<y, x>> \notin {ss \in Nat \X Nat : ss[1] < ss[2]}
    BY <1>1 DEF OpToRel
<1>3. ASSUME NEW y \in T PROVE x <= y
    <2>1. <<y, x>> \in Nat \X Nat /\ <<y, x>>[1] = y /\ <<y, x>>[2] = x
        OBVIOUS
    <2>2. ~ (y < x)
        BY <1>2, <2>1
    <2>3. QED
        BY <2>2
<1>4. QED
    BY <1>3

(* One step of the recursion: the amount of a slip and the sum of the rest *)
(* (sums are looked up in g).                                              *)
First(s) == CHOOSE x \in s : TRUE
SumStep(g, s) == IF s = {} THEN 0 ELSE First(s).amount + g[s \ {First(s)}]

(* The function that MapThenSumSet defines by recursion.                   *)
Sums(ss) ==
    LET iter[s \in SUBSET ss] ==
            IF s = {} THEN 0
            ELSE LET x == CHOOSE x \in s : TRUE
                 IN  x.amount + iter[s \ {x}]
    IN  iter

LEMMA TotalIsSums ==
    ASSUME NEW ss PROVE TotalOf(ss) = Sums(ss)[ss]
BY DEF TotalOf, MapThenSumSet, MapThenFoldSet, Sums

(* Taking the first of at most m slips away leaves less than m.            *)
LEMMA TakeFirst ==
    ASSUME NEW s, IsFiniteSet(s), s # {}, NEW m \in Nat, Cardinality(s) <= m
    PROVE  /\ First(s) \in s
           /\ IsFiniteSet(s \ {First(s)})
           /\ Cardinality(s) \in Nat \ {0}
           /\ Cardinality(s \ {First(s)}) = Cardinality(s) - 1
           /\ m # 0 /\ Cardinality(s \ {First(s)}) <= m - 1
<1>1. First(s) \in s
    BY DEF First
<1>2. Cardinality(s) \in Nat /\ Cardinality(s) # 0
    BY FS_CardinalityType, FS_EmptySet
<1>3. /\ IsFiniteSet(s \ {First(s)})
      /\ Cardinality(s \ {First(s)}) = Cardinality(s) - 1
    BY <1>1, FS_RemoveElement
<1>4. QED
    BY <1>1, <1>2, <1>3

(* The recursion defines a function: there is one on the sets of at most n *)
(* slips for every n.                                                      *)
LEMMA SumsExist ==
    ASSUME NEW ss, IsFiniteSet(ss)
    PROVE  \E g : g = [s \in SUBSET ss |-> SumStep(g, s)]
<1> DEFINE Part(n) == {s \in SUBSET ss : Cardinality(s) <= n}
           Good(n) == \E g : g = [s \in Part(n) |-> SumStep(g, s)]
           bad == {n \in Nat : ~ Good(n)}
<1>1. \A s \in SUBSET ss : /\ IsFiniteSet(s)
                           /\ Cardinality(s) \in Nat
                           /\ Cardinality(s) <= Cardinality(ss)
    BY FS_Subset, FS_CardinalityType
<1>2. Good(0)
    <2>1. \A s \in Part(0) : s = {}
        BY <1>1, FS_EmptySet
    <2> DEFINE g == [s \in Part(0) |-> 0]
    <2>2. \A s \in Part(0) : SumStep(g, s) = 0
        BY <2>1 DEF SumStep
    <2> HIDE DEF Part
    <2>3. g = [s \in Part(0) |-> SumStep(g, s)]
        BY <2>2
    <2>4. QED
        BY <2>3
<1>3. ASSUME NEW m \in Nat, m # 0, Good(m - 1)
      PROVE  Good(m)
    <2>1. PICK g : g = [s \in Part(m - 1) |-> SumStep(g, s)]
        BY <1>3
    <2> DEFINE h == [s \in Part(m) |-> SumStep(g, s)]
    <2>2. ASSUME NEW s \in Part(m) PROVE SumStep(h, s) = SumStep(g, s)
        <3>1. CASE s = {}
            BY <3>1 DEF SumStep
        <3>2. CASE s # {}
            <4> DEFINE t == s \ {First(s)}
            <4>1. /\ First(s) \in s /\ t \in SUBSET ss
                  /\ Cardinality(t) <= m - 1 /\ Cardinality(t) \in Nat
                BY <1>1, <3>2, TakeFirst
            <4>2. t \in Part(m - 1) /\ t \in Part(m)
                BY <4>1
            <4>3. h[t] = g[t]
                <5> HIDE DEF Part, t
                <5>1. h[t] = SumStep(g, t) /\ g[t] = SumStep(g, t)
                    BY <2>1, <4>2
                <5>2. QED
                    BY <5>1
            <4>4. QED
                BY <4>3 DEF SumStep
        <3>3. QED
            BY <3>1, <3>2
    <2> HIDE DEF Part
    <2>3. h = [s \in Part(m) |-> SumStep(h, s)]
        BY <2>2
    <2>4. QED
        BY <2>3
<1> HIDE DEF Good
<1>4. bad = {}
    <2> SUFFICES ASSUME bad # {} PROVE FALSE
        OBVIOUS
    <2>1. PICK m \in bad : \A n \in bad : m <= n
        BY Least
    <2>2. m \in Nat /\ ~ Good(m) /\ m # 0
        BY <1>2
    <2>3. m - 1 \in Nat /\ m - 1 \notin bad
        BY <2>1, <2>2
    <2>4. Good(m - 1)
        BY <2>3
    <2>5. QED
        BY <1>3, <2>2, <2>4
<1>5. Cardinality(ss) \in Nat /\ Good(Cardinality(ss))
    BY <1>4, FS_CardinalityType
<1>6. Part(Cardinality(ss)) = SUBSET ss
    BY <1>1
<1> HIDE DEF Part
<1>7. QED
    BY <1>5, <1>6 DEF Good

LEMMA SumsDef ==
    ASSUME NEW ss, IsFiniteSet(ss)
    PROVE  \A s \in SUBSET ss : Sums(ss)[s] = SumStep(Sums(ss), s)
<1>1. PICK g : g = [s \in SUBSET ss |-> SumStep(g, s)]
    BY SumsExist
<1>2. g = [s \in SUBSET ss |->
            IF s = {} THEN 0
            ELSE LET x == CHOOSE x \in s : TRUE
                 IN  x.amount + g[s \ {x}]]
    BY <1>1 DEF SumStep, First
<1>3. Sums(ss) = [s \in SUBSET ss |->
            IF s = {} THEN 0
            ELSE LET x == CHOOSE x \in s : TRUE
                 IN  x.amount + Sums(ss)[s \ {x}]]
    BY <1>2 DEF Sums
<1>4. QED
    BY <1>3 DEF SumStep, First

(* A total is a number, and nothing adds up to zero.                       *)
LEMMA TotalType ==
    ASSUME NEW ss, IsFiniteSet(ss), \A x \in ss : x.amount \in Nat
    PROVE  TotalOf(ss) \in Nat /\ (ss = {} => TotalOf(ss) = 0)
<1> DEFINE f == Sums(ss)
           Ok(s) == f[s] \in Nat /\ (s = {} => f[s] = 0)
           bad == {n \in Nat :
                    \E s \in SUBSET ss : Cardinality(s) = n /\ ~ Ok(s)}
<1>1. \A s \in SUBSET ss : IsFiniteSet(s) /\ Cardinality(s) \in Nat
    BY FS_Subset, FS_CardinalityType
<1>2. \A s \in SUBSET ss : f[s] = SumStep(f, s)
    BY SumsDef
<1> HIDE DEF f
<1>3. ASSUME NEW s \in SUBSET ss, s # {}, Ok(s \ {First(s)})
      PROVE  Ok(s)
    <2>1. First(s) \in s
        BY <1>3 DEF First
    <2>2. First(s).amount \in Nat
        BY <2>1
    <2>3. f[s] = First(s).amount + f[s \ {First(s)}]
        BY <1>2, <1>3 DEF SumStep
    <2>4. QED
        BY <1>3, <2>2, <2>3
<1>4. Ok({})
    <2>1. {} \in SUBSET ss
        OBVIOUS
    <2>2. f[{}] = SumStep(f, {})
        BY <1>2, <2>1
    <2>3. QED
        BY <2>2 DEF SumStep
<1> HIDE DEF Ok
<1>5. bad = {}
    <2> SUFFICES ASSUME bad # {} PROVE FALSE
        OBVIOUS
    <2>1. PICK m \in bad : \A n \in bad : m <= n
        BY Least
    <2>2. PICK s \in SUBSET ss : Cardinality(s) = m /\ ~ Ok(s)
        BY <2>1
    <2>3. s # {} /\ m \in Nat
        BY <1>4, <2>2
    <2>4. /\ s \ {First(s)} \in SUBSET ss
          /\ Cardinality(s \ {First(s)}) = m - 1 /\ m # 0
        <3>1. IsFiniteSet(s) /\ Cardinality(s) <= m
            BY <1>1, <2>2, <2>3
        <3>2. QED
            BY <2>2, <2>3, <3>1, TakeFirst
    <2>5. m - 1 \in Nat /\ m - 1 \notin bad
        BY <2>1, <2>3, <2>4
    <2>6. Ok(s \ {First(s)})
        BY <2>4, <2>5
    <2>7. QED
        BY <1>3, <2>2, <2>3, <2>6
<1>6. Ok(ss)
    BY <1>1, <1>5
<1>7. QED
    BY <1>6, TotalIsSums DEF Ok, f

-----------------------------------------------------------------------------
(* What the entries of an employee add up to is a number.                  *)
LEMMA AnnualTotalType ==
    ASSUME NEW e, paid \subseteq PayrollEntry, IsFiniteSet(paid)
    PROVE  AnnualTotal(e) \in Nat
<1>1. \A x \in {y \in paid : y.emp = e} : x.amount \in Nat
    BY DEF PayrollEntry
<1>2. IsFiniteSet({y \in paid : y.emp = e})
    BY FS_Subset
<1>3. QED
    BY <1>1, <1>2, TotalType DEF AnnualTotal

LEMMA SealInvInit == Init => SealInv
<1> SUFFICES ASSUME Init PROVE SealInv
    OBVIOUS
<1>1. Idle \in Request
    BY DEF Idle, Request, PCs, NoProfiles, Profiles
<1>2. LogOK /\ Len(log) = 0
    BY DEF Init, LogOK
<1>3. \A r \in Requests : req[r] = Idle
    BY DEF Init
<1>4. \A r \in Requests : req[r].pc \notin Building \cup {"finalize_log"}
    BY <1>3 DEF Idle, Building
<1>5. ReqOK /\ StatusOK /\ OneHolder
    BY <1>1, <1>4 DEF Init, ReqOK, StatusOK, OneHolder
<1>6. \A i \in 1 .. Len(log) : FALSE
    BY <1>2
<1>7. QED
    BY <1>2, <1>4, <1>5, <1>6 DEF SealInv

(* What a step does to one request, and what the invariant needs of it.    *)
LEMMA MoveRequest ==
    ASSUME SealInv, NEW r \in Requests, NEW w \in Request,
           req' = [req EXCEPT ![r] = w]
    PROVE  /\ ReqOK'
           /\ req'[r] = w
           /\ \A q \in Requests \ {r} : req'[q] = req[q]
BY DEF SealInv, ReqOK

(* A step that only moves a request that holds no lock into no lock.       *)
LEMMA OutsideLock ==
    ASSUME SealInv, NEW r \in Requests, NEW w \in Request,
           req' = [req EXCEPT ![r] = w],
           w.pc \notin Building \cup {"finalize_log"},
           UNCHANGED <<status, log>>
    PROVE  SealInv'
<1>1. /\ ReqOK' /\ req'[r] = w
      /\ \A q \in Requests \ {r} : req'[q] = req[q]
    BY MoveRequest
<1>2. OneHolder'
    BY <1>1 DEF SealInv, OneHolder
<1>3. StatusOK' /\ LogOK'
    BY DEF SealInv, StatusOK, LogOK
<1>4. QED
    BY <1>1, <1>2, <1>3 DEF SealInv

(* A step of the section that rebuilds the return.                         *)
LEMMA InsideBuild ==
    ASSUME SealInv, NEW r \in Requests, NEW w \in Request,
           req' = [req EXCEPT ![r] = w],
           w.pc \in Building,
           ~Locked \/ req[r].pc \in Building,
           status' = "draft", status # "finalized", UNCHANGED log
    PROVE  SealInv'
<1>1. /\ ReqOK' /\ req'[r] = w
      /\ \A q \in Requests \ {r} : req'[q] = req[q]
    BY MoveRequest
<1>2. \A q \in Requests \ {r} : req[q].pc \notin Building \cup {"finalize_log"}
    BY DEF SealInv, OneHolder, Locked, Building
<1>3. OneHolder'
    BY <1>1, <1>2 DEF OneHolder
<1>4. StatusOK' /\ LogOK'
    BY DEF SealInv, StatusOK, LogOK
<1>5. \A i \in 1 .. Len(log) : log[i] # "finalized"
    BY DEF SealInv
<1>6. "finalize_log" \notin Building
    BY DEF Building
<1>7. QED
    BY <1>1, <1>2, <1>3, <1>4, <1>5, <1>6 DEF SealInv

(* Writing the audit log ends a section.                                   *)
LEMMA EndOfSection ==
    ASSUME SealInv, NEW r \in Requests,
           NEW a \in {"generated", "regenerated", "finalized"},
           req' = [req EXCEPT ![r] = Idle], log' = Append(log, a),
           \/ req[r].pc = "log" /\ a # "finalized"
           \/ req[r].pc = "finalize_log",
           UNCHANGED status
    PROVE  SealInv'
<1>1. Idle \in Request /\ Idle.pc = "idle"
    BY DEF Idle, Request, PCs, NoProfiles, Profiles
<1>2. /\ ReqOK' /\ req'[r] = Idle
      /\ \A q \in Requests \ {r} : req'[q] = req[q]
    BY <1>1, MoveRequest
<1>3. \A q \in Requests : req'[q].pc \notin Building \cup {"finalize_log"}
    BY <1>1, <1>2 DEF SealInv, OneHolder, Building
<1>4. /\ LogOK' /\ Len(log') = Len(log) + 1
      /\ \A i \in 1 .. Len(log) : log'[i] = log[i]
      /\ log'[Len(log) + 1] = a
    BY DEF SealInv, LogOK
<1>5. \A i \in 1 .. Len(log) : log[i] # "finalized"
    BY DEF SealInv, Building
<1>6. a = "finalized" => status = "finalized"
    BY DEF SealInv
<1>7. \A i \in 1 .. Len(log') : log'[i] = "finalized" => i = Len(log')
    <2>1. Len(log) \in Nat
        BY DEF SealInv, LogOK
    <2>2. QED
        BY <1>4, <1>5, <2>1
<1>8. \A i \in 1 .. Len(log') : log'[i] = "finalized" => status = "finalized"
    <2>1. Len(log) \in Nat
        BY DEF SealInv, LogOK
    <2>2. QED
        BY <1>4, <1>5, <1>6, <2>1
<1>9. OneHolder' /\ StatusOK'
    BY <1>3 DEF OneHolder, SealInv, StatusOK
<1>10. QED
    BY <1>2, <1>3, <1>4, <1>7, <1>8, <1>9 DEF SealInv

-----------------------------------------------------------------------------
(* The payroll, the clerk and a crash.                                     *)

LEMMA QuietStep ==
    ASSUME SealInv, UNCHANGED <<status, log, req>>
    PROVE  SealInv'
BY DEF SealInv, ReqOK, StatusOK, LogOK, OneHolder

LEMMA CrashKeeps ==
    ASSUME SealInv, Crash
    PROVE  SealInv'
<1>1. Idle \in Request /\ Idle.pc = "idle"
    BY DEF Idle, Request, PCs, NoProfiles, Profiles
<1>2. /\ ReqOK'
      /\ \A r \in Requests : req'[r].pc \notin Building \cup {"finalize_log"}
    BY <1>1 DEF Crash, ReqOK, Building
<1>3. OneHolder' /\ StatusOK' /\ LogOK'
    BY <1>2 DEF Crash, OneHolder, SealInv, StatusOK, LogOK
<1>4. QED
    BY <1>2, <1>3 DEF Crash, SealInv

-----------------------------------------------------------------------------
(* The actions of a generation.                                            *)

LEMMA BeginKeeps ==
    ASSUME SealInv, NEW r \in Requests, Begin(r),
           profile \in [Employees -> Profiles]
    PROVE  SealInv'
<1> DEFINE w == [Idle EXCEPT !.pc = "hash", !.emps = profile]
<1>1. w \in Request /\ w.pc = "hash"
    BY DEF Idle, Request, PCs
<1>2. w.pc \notin Building \cup {"finalize_log"}
    BY <1>1 DEF Building
<1>3. QED
    BY <1>1, <1>2, OutsideLock DEF Begin

LEMMA ComputeSourceHashKeeps ==
    ASSUME SealInv, NEW r \in Requests, ComputeSourceHash(r),
           paid \subseteq PayrollEntry
    PROVE  SealInv'
<1> DEFINE w == [req[r] EXCEPT !.pc = "aggregate", !.hash = Finalized]
<1>1. w \in Request /\ w.pc = "aggregate"
    <2>1. Finalized \subseteq PeriodIds
        BY DEF Finalized, PayrollEntry
    <2>2. QED
        BY <2>1 DEF SealInv, ReqOK, Request, PCs
<1>2. w.pc \notin Building \cup {"finalize_log"}
    BY <1>1 DEF Building
<1>3. QED
    BY <1>1, <1>2, OutsideLock DEF ComputeSourceHash

LEMMA AggregateKeeps ==
    ASSUME SealInv, NEW r \in Requests, AggregateT4(r),
           paid \subseteq PayrollEntry, IsFiniteSet(paid)
    PROVE  SealInv'
<1> DEFINE paidEmps == {e \in {x.emp : x \in paid} :
                            req[r].emps[e] # "absent"}
           slip(e) == [emp |-> e, amount |-> AnnualTotal(e),
                       complete |-> req[r].emps[e] = "complete"]
           made == {slip(e) : e \in paidEmps}
           w == [req[r] EXCEPT !.pc = "build", !.emps = NoProfiles,
                               !.made = made, !.todo = made]
<1>1. \A e \in paidEmps : e \in Employees
    BY DEF PayrollEntry
<1>2. \A e \in Employees : slip(e) \in Slip
    BY AnnualTotalType DEF Slip
<1>3. made \subseteq Slip
    BY <1>1, <1>2
<1>4. w \in Request /\ w.pc = "build"
    <2>1. NoProfiles \in [Employees -> Profiles]
        BY DEF NoProfiles, Profiles
    <2>2. req[r] \in Request /\ "build" \in PCs
        BY DEF SealInv, ReqOK, PCs
    <2>3. made \in SUBSET Slip
        BY <1>3
    <2> HIDE DEF made
    <2>4. QED
        BY <2>1, <2>2, <2>3 DEF Request
<1>5. req' = [req EXCEPT ![r] = w] /\ UNCHANGED <<status, log>>
    BY DEF AggregateT4
<1> HIDE DEF w
<1>6. w.pc \notin Building \cup {"finalize_log"}
    BY <1>4 DEF Building
<1>7. QED
    BY <1>4, <1>5, <1>6, OutsideLock

LEMMA BecomeIdle ==
    ASSUME SealInv, NEW r \in Requests, req' = [req EXCEPT ![r] = Idle],
           UNCHANGED <<status, log>>
    PROVE  SealInv'
<1>1. Idle \in Request /\ Idle.pc = "idle"
    BY DEF Idle, Request, PCs, NoProfiles, Profiles
<1>2. Idle.pc \notin Building \cup {"finalize_log"}
    BY <1>1 DEF Building
<1>3. QED
    BY <1>1, <1>2, OutsideLock

LEMMA BuildNewKeeps ==
    ASSUME SealInv, NEW r \in Requests, BuildNew(r)
    PROVE  SealInv'
<1> DEFINE w == [req[r] EXCEPT !.pc = "slips", !.hash = {}]
<1>1. w \in Request /\ w.pc \in Building
    BY DEF SealInv, ReqOK, Request, PCs, Building
<1>2. QED
    BY <1>1, InsideBuild DEF BuildNew

LEMMA DeleteSlipsKeeps ==
    ASSUME SealInv, NEW r \in Requests, DeleteSlips(r)
    PROVE  SealInv'
<1> DEFINE w == [req[r] EXCEPT !.pc = "summary_row", !.action = "regenerated"]
<1>1. w \in Request /\ w.pc \in Building
    BY DEF SealInv, ReqOK, Request, PCs, Building
<1>2. QED
    BY <1>1, InsideBuild DEF DeleteSlips, Rebuild

LEMMA DeleteSummaryKeeps ==
    ASSUME SealInv, NEW r \in Requests, DeleteSummary(r)
    PROVE  SealInv'
<1> DEFINE w == [req[r] EXCEPT !.pc = "header"]
<1>1. w \in Request /\ w.pc \in Building
    BY DEF SealInv, ReqOK, Request, PCs, Building
<1>2. req[r].pc \in Building /\ status = "draft"
    BY DEF DeleteSummary, Building, SealInv
<1>3. QED
    BY <1>1, <1>2, InsideBuild DEF DeleteSummary

LEMMA UpdateHeaderKeeps ==
    ASSUME SealInv, NEW r \in Requests, UpdateHeader(r)
    PROVE  SealInv'
<1> DEFINE w == [req[r] EXCEPT !.pc = "slips", !.hash = {}]
<1>1. w \in Request /\ w.pc \in Building
    BY DEF SealInv, ReqOK, Request, PCs, Building
<1>2. req[r].pc \in Building /\ status = "draft"
    BY DEF UpdateHeader, Building, SealInv
<1>3. QED
    BY <1>1, <1>2, InsideBuild DEF UpdateHeader

LEMMA InsertT4SlipKeeps ==
    ASSUME SealInv, NEW r \in Requests, InsertT4Slip(r)
    PROVE  SealInv'
<1>1. PICK s \in req[r].todo :
        req' = [req EXCEPT ![r].todo = @ \ {s}]
    BY DEF InsertT4Slip
<1> DEFINE w == [req[r] EXCEPT !.todo = @ \ {s}]
<1>2. w \in Request /\ w.pc \in Building
    BY DEF SealInv, ReqOK, Request, Building, InsertT4Slip
<1>3. req[r].pc \in Building /\ status = "draft"
    BY DEF InsertT4Slip, Building, SealInv
<1>4. QED
    BY <1>1, <1>2, <1>3, InsideBuild DEF InsertT4Slip

LEMMA UpsertT4SummaryKeeps ==
    ASSUME SealInv, NEW r \in Requests, UpsertT4Summary(r)
    PROVE  SealInv'
<1> DEFINE w == [req[r] EXCEPT !.pc = "log", !.made = {}]
<1>1. w \in Request /\ w.pc \in Building
    BY DEF SealInv, ReqOK, Request, PCs, Building
<1>2. req[r].pc \in Building /\ status = "draft"
    BY DEF UpsertT4Summary, Building, SealInv
<1>3. QED
    BY <1>1, <1>2, InsideBuild DEF UpsertT4Summary

LEMMA InsertAuditLogKeeps ==
    ASSUME SealInv, NEW r \in Requests, InsertAuditLog(r)
    PROVE  SealInv'
<1>1. /\ req[r].action \in {"generated", "regenerated", "finalized"}
      /\ req[r].action # "finalized"
    BY DEF SealInv, ReqOK, Request
<1>2. QED
    BY <1>1, EndOfSection DEF InsertAuditLog

LEMMA GenerateKeeps ==
    ASSUME SealInv, NEW r \in Requests, Generate(r),
           profile \in [Employees -> Profiles],
           paid \subseteq PayrollEntry, IsFiniteSet(paid)
    PROVE  SealInv'
<1>1. CASE YearEndGenerate(r) \/ YearEndRegenerate(r)
    BY <1>1, BeginKeeps DEF YearEndGenerate, YearEndRegenerate
<1>2. CASE ComputeSourceHash(r)
    BY <1>2, ComputeSourceHashKeeps
<1>3. CASE AggregateT4(r)
    BY <1>3, AggregateKeeps
<1>4. CASE BuildRefused(r)
    BY <1>4, BecomeIdle DEF BuildRefused
<1>5. CASE BuildNew(r)
    BY <1>5, BuildNewKeeps
<1>6. CASE DeleteSlips(r)
    BY <1>6, DeleteSlipsKeeps
<1>7. CASE DeleteSummary(r)
    BY <1>7, DeleteSummaryKeeps
<1>8. CASE UpdateHeader(r)
    BY <1>8, UpdateHeaderKeeps
<1>9. CASE InsertT4Slip(r)
    BY <1>9, InsertT4SlipKeeps
<1>10. CASE UpsertT4Summary(r)
    BY <1>10, UpsertT4SummaryKeeps
<1>11. CASE InsertAuditLog(r)
    BY <1>11, InsertAuditLogKeeps
<1>12. QED
    BY <1>1, <1>2, <1>3, <1>4, <1>5, <1>6, <1>7, <1>8, <1>9, <1>10, <1>11
        DEF Generate

-----------------------------------------------------------------------------
(* The actions of a finalization.                                          *)

LEMMA FinalizeReturnKeeps ==
    ASSUME SealInv, NEW r \in Requests, FinalizeYearEndReturn(r)
    PROVE  SealInv'
<1> DEFINE w == [req[r] EXCEPT !.pc = "finalize_log"]
<1>1. w \in Request /\ w.pc = "finalize_log"
    BY DEF SealInv, ReqOK, Request, PCs
<1>2. /\ ~Locked /\ status = "draft" /\ status' = "finalized"
      /\ req' = [req EXCEPT ![r] = w] /\ UNCHANGED log
    BY DEF FinalizeYearEndReturn, SetFinalized
<1> HIDE DEF w
<1>3. /\ ReqOK' /\ req'[r] = w
      /\ \A q \in Requests \ {r} : req'[q] = req[q]
    BY <1>1, <1>2, MoveRequest
<1>4. \A q \in Requests : req[q].pc \notin Building \cup {"finalize_log"}
    BY <1>2 DEF Locked, Building
<1>5. \A i \in 1 .. Len(log) : log[i] # "finalized"
    BY <1>2 DEF SealInv
<1>6. "finalize_log" \notin Building
    BY DEF Building
<1>7. OneHolder' /\ StatusOK' /\ LogOK'
    BY <1>2, <1>3, <1>4 DEF OneHolder, StatusOK, LogOK, SealInv
<1>8. QED
    BY <1>1, <1>2, <1>3, <1>4, <1>5, <1>6, <1>7 DEF SealInv

LEMMA FinalizeKeeps ==
    ASSUME SealInv, NEW r \in Requests, Finalize(r)
    PROVE  SealInv'
<1>1. CASE YearEndFinalize(r)
    <2> DEFINE w == [Idle EXCEPT !.pc = "finalize"]
    <2>1. w \in Request /\ w.pc = "finalize"
        BY DEF Idle, Request, PCs, NoProfiles, Profiles
    <2>2. w.pc \notin Building \cup {"finalize_log"}
        BY <2>1 DEF Building
    <2>3. QED
        BY <1>1, <2>1, <2>2, OutsideLock DEF YearEndFinalize
<1>2. CASE FinalizeYearEndReturn(r)
    BY <1>2, FinalizeReturnKeeps
<1>3. CASE FinalizeRefused(r)
    BY <1>3, BecomeIdle DEF FinalizeRefused
<1>4. CASE FinalizeAuditLog(r)
    BY <1>4, EndOfSection DEF FinalizeAuditLog
<1>5. QED
    BY <1>1, <1>2, <1>3, <1>4 DEF Finalize

-----------------------------------------------------------------------------
(* The payroll a generation reads keeps its type.                          *)
PayrollOK ==
    /\ paid \subseteq PayrollEntry /\ IsFiniteSet(paid)
    /\ profile \in [Employees -> Profiles]

IInv == PayrollOK /\ SealInv

(* The entries of a period, one for each employee, are finitely many.      *)
LEMMA FinalizeAdds ==
    ASSUME PayrollOK, NEW p \in PeriodIds, NEW emps \in SUBSET Employees,
           FinalizePeriod(p, emps)
    PROVE  paid' \subseteq PayrollEntry /\ IsFiniteSet(paid')
<1>1. PICK pay \in [emps -> UNION {Amounts[e] : e \in emps}] :
        /\ \A e \in emps : pay[e] \in Amounts[e]
        /\ paid' = paid \cup {[period |-> p, emp |-> e, amount |-> pay[e]] :
                                e \in emps}
    BY DEF FinalizePeriod
<1> DEFINE f == [e \in emps |-> [period |-> p, emp |-> e, amount |-> pay[e]]]
           new == {f[e] : e \in emps}
<1>2. \A e \in emps : pay[e] \in Nat
    BY <1>1, YearEndAssumption
<1>3. new \subseteq PayrollEntry
    BY <1>2 DEF PayrollEntry
<1>4. IsFiniteSet(new)
    <2>1. IsFiniteSet(emps)
        BY YearEndAssumption, FS_Subset
    <2>2. f \in [emps -> new]
        OBVIOUS
    <2>3. \A x \in new : \E e \in emps : f[e] = x
        OBVIOUS
    <2> HIDE DEF f, new
    <2>4. f \in Surjection(emps, new)
        BY <2>2, <2>3 DEF Surjection
    <2>5. QED
        BY <2>1, <2>4, FS_Surjection
<1>5. paid' = paid \cup new
    BY <1>1
<1> HIDE DEF new
<1>6. QED
    BY <1>3, <1>4, <1>5, FS_Union DEF PayrollOK

LEMMA PayrollOKNext ==
    ASSUME PayrollOK, [Next]_vars
    PROVE  PayrollOK'
<1>1. CASE Payroll
    <2>1. ASSUME NEW p \in PeriodIds, NEW emps \in SUBSET Employees,
                 FinalizePeriod(p, emps)
          PROVE  PayrollOK'
        BY <2>1, FinalizeAdds DEF PayrollOK, FinalizePeriod
    <2>2. ASSUME NEW p \in PeriodIds, DeletePayrollPeriod(p)
          PROVE  PayrollOK'
        BY <2>2, FS_Subset DEF PayrollOK, DeletePayrollPeriod
    <2>3. ASSUME NEW e \in Employees, NEW st \in Profiles,
                 SaveEmployee(e, st)
          PROVE  PayrollOK'
        BY <2>3 DEF PayrollOK, SaveEmployee
    <2>4. QED
        BY <1>1, <2>1, <2>2, <2>3 DEF Payroll
<1>2. CASE UNCHANGED payroll
    BY <1>2 DEF PayrollOK, payroll
<1>3. Payroll \/ UNCHANGED payroll
    <2>1. ASSUME NEW r \in Requests, Generate(r)
          PROVE  UNCHANGED payroll
        BY <2>1 DEF Generate, YearEndGenerate, YearEndRegenerate, Begin,
            ComputeSourceHash, AggregateT4, BuildRefused, BuildNew,
            DeleteSlips, Rebuild, DeleteSummary, UpdateHeader, InsertT4Slip,
            UpsertT4Summary, InsertAuditLog, payroll
    <2>2. ASSUME NEW r \in Requests, Finalize(r)
          PROVE  UNCHANGED payroll
        BY <2>2 DEF Finalize, YearEndFinalize, FinalizeYearEndReturn,
            SetFinalized, FinalizeRefused, FinalizeAuditLog, payroll
    <2>3. QED
        BY <2>1, <2>2 DEF Next, UpdateT4SummaryContact, Crash, vars, payroll
<1>4. QED
    BY <1>1, <1>2, <1>3

LEMMA IInvInit == Init => IInv
<1>1. Init => PayrollOK
    BY FS_EmptySet DEF Init, PayrollOK, NoProfiles, Profiles
<1>2. QED
    BY <1>1, SealInvInit DEF IInv

LEMMA IInvNext == IInv /\ [Next]_vars => IInv'
<1> SUFFICES ASSUME IInv, [Next]_vars PROVE IInv'
    OBVIOUS
<1>1. PayrollOK'
    BY PayrollOKNext DEF IInv
<1>2. ASSUME Payroll PROVE SealInv'
    BY <1>2, QuietStep DEF IInv, Payroll, FinalizePeriod,
        DeletePayrollPeriod, SaveEmployee
<1>3. ASSUME NEW r \in Requests, Generate(r) \/ Finalize(r)
      PROVE  SealInv'
    BY <1>3, GenerateKeeps, FinalizeKeeps DEF IInv, PayrollOK
<1>4. ASSUME NEW name \in Contacts, UpdateT4SummaryContact(name)
      PROVE  SealInv'
    BY <1>4, QuietStep DEF IInv, UpdateT4SummaryContact
<1>5. ASSUME Crash PROVE SealInv'
    BY <1>5, CrashKeeps DEF IInv
<1>6. ASSUME UNCHANGED vars PROVE SealInv'
    BY <1>6, QuietStep DEF IInv, vars
<1>7. SealInv'
    BY <1>2, <1>3, <1>4, <1>5, <1>6 DEF Next
<1>8. QED
    BY <1>1, <1>7 DEF IInv

LEMMA Inductive == Spec => []IInv
<1>1. Init => IInv
    BY IInvInit
<1>2. IInv /\ [Next]_vars => IInv'
    BY IInvNext
<1>3. QED
    BY <1>1, <1>2, PTL DEF Spec

(* The audit log tells one finalization, the last thing in it: whatever    *)
(* requests overlap and wherever the process dies, nothing is generated    *)
(* or finalized after FinalizeYearEndReturn.                               *)
THEOREM LogEndsWithFinalize == Spec => []FinalizedOnce
<1>1. IInv => FinalizedOnce
    BY DEF IInv, SealInv, FinalizedOnce
<1>2. QED
    BY <1>1, Inductive, PTL

-----------------------------------------------------------------------------
(* The return implements SealedDocument.                                   *)

Content == <<hash, slips, summary>>

(* What a step may do to the return: leave it alone, change a draft, or    *)
(* finalize it as it is.                                                   *)
Mapped ==
    \/ UNCHANGED <<status, hash, slips, summary>>
    \/ status # "finalized" /\ status' = "draft"
    \/ status = "draft" /\ status' = "finalized" /\ UNCHANGED Content

LEMMA MappedIsAllowed ==
    ASSUME StatusOK, Mapped
    PROVE  [Sealed!Next]_(Sealed!vars)
<1>1. CASE UNCHANGED <<status, hash, slips, summary>>
    BY <1>1 DEF Sealed!vars
<1>2. CASE status # "finalized" /\ status' = "draft"
    BY <1>2 DEF StatusOK, Sealed!Next, Sealed!Draft
<1>3. CASE status = "draft" /\ status' = "finalized" /\ UNCHANGED Content
    BY <1>3 DEF Content, Sealed!Next, Sealed!Seal
<1>4. QED
    BY <1>1, <1>2, <1>3 DEF Mapped

LEMMA GenerateMapped ==
    ASSUME SealInv, NEW r \in Requests, Generate(r)
    PROVE  Mapped
<1>1. CASE UNCHANGED <<status, hash, slips, summary>>
    BY <1>1 DEF Mapped
<1>2. CASE BuildNew(r) \/ DeleteSlips(r)
    BY <1>2 DEF BuildNew, DeleteSlips, Rebuild, Mapped
<1>3. CASE DeleteSummary(r) \/ UpdateHeader(r) \/ InsertT4Slip(r)
            \/ UpsertT4Summary(r)
    <2>1. req[r].pc \in Building /\ UNCHANGED status
        BY <1>3 DEF DeleteSummary, UpdateHeader, InsertT4Slip,
            UpsertT4Summary, Building
    <2>2. status = "draft"
        BY <2>1 DEF SealInv
    <2>3. QED
        BY <2>1, <2>2 DEF Mapped
<1>4. \/ UNCHANGED <<status, hash, slips, summary>>
      \/ BuildNew(r) \/ DeleteSlips(r)
      \/ DeleteSummary(r) \/ UpdateHeader(r) \/ InsertT4Slip(r)
      \/ UpsertT4Summary(r)
    BY DEF Generate, YearEndGenerate, YearEndRegenerate, Begin,
        ComputeSourceHash, AggregateT4, BuildRefused, InsertAuditLog
<1>5. QED
    BY <1>1, <1>2, <1>3, <1>4

LEMMA FinalizeMapped ==
    ASSUME NEW r \in Requests, Finalize(r)
    PROVE  Mapped
BY DEF Finalize, YearEndFinalize, FinalizeYearEndReturn, SetFinalized,
    FinalizeRefused, FinalizeAuditLog, Mapped, Content

LEMMA StepMapped ==
    ASSUME SealInv, [Next]_vars
    PROVE  Mapped
<1>1. CASE Payroll
    BY <1>1 DEF Payroll, FinalizePeriod, DeletePayrollPeriod, SaveEmployee,
        Mapped
<1>2. ASSUME NEW r \in Requests, Generate(r) \/ Finalize(r)
      PROVE  Mapped
    BY <1>2, GenerateMapped, FinalizeMapped
<1>3. ASSUME NEW name \in Contacts, UpdateT4SummaryContact(name)
      PROVE  Mapped
    BY <1>3 DEF UpdateT4SummaryContact, Mapped
<1>4. CASE Crash
    BY <1>4 DEF Crash, Mapped
<1>5. CASE UNCHANGED vars
    BY <1>5 DEF vars, Mapped
<1>6. QED
    BY <1>1, <1>2, <1>3, <1>4, <1>5 DEF Next

(* A finalized return never changes: YearEnd implements SealedDocument,    *)
(* for any number of overlapping generations, contact edits, finalizations *)
(* and crashes.                                                            *)
THEOREM Implements == Spec => FollowsSealing
<1>1. Init => Sealed!Init
    BY DEF Init, Sealed!Init
<1>2. IInv /\ [Next]_vars => [Sealed!Next]_(Sealed!vars)
    <2> SUFFICES ASSUME IInv, [Next]_vars
                 PROVE  [Sealed!Next]_(Sealed!vars)
        OBVIOUS
    <2>1. Mapped
        BY StepMapped DEF IInv
    <2>2. QED
        BY <2>1, MappedIsAllowed DEF IInv, SealInv
<1>3. QED
    BY <1>1, <1>2, Inductive, PTL DEF Spec, FollowsSealing, Sealed!Spec

-----------------------------------------------------------------------------
(* The slips and the summary.                                              *)

Rebuilding == {"summary_row", "header", "slips"}
OneEach(ss) == \A s, t \in ss : s.emp = t.emp => s = t

ReturnOK ==
    /\ hash \in SUBSET PeriodIds
    /\ slips \subseteq Slip /\ IsFiniteSet(slips)
    /\ OneEach(slips)
    /\ summary \subseteq Summary
    /\ \E m : summary \subseteq {m}
    /\ status = "none" => slips = {} /\ summary = {}

(* The slips a request has made, one for each employee, and those it still *)
(* has to insert.                                                          *)
MadeAt(w) ==
    /\ IsFiniteSet(w.made) /\ OneEach(w.made)
    /\ w.todo \subseteq w.made
    /\ w.pc \in {"build", "summary_row", "header"} => w.todo = w.made

(* How far the rows of the return are, while a request writes them.        *)
RowsAt(w, ss, ms) ==
    /\ w.pc \in {"summary_row", "header"} => ss = {}
    /\ w.pc \in {"header", "slips"} => ms = {}
    /\ w.pc = "slips" => ss = w.made \ w.todo

(* A summary tells the totals of the slips, or it was left behind by a     *)
(* process that died after deleting the slips.                             *)
SummaryOK == \A m \in summary : Matches(m) \/ slips = {}

(* What was validated may still be filed when it is finalized, unless it   *)
(* is being rebuilt under the lock.                                        *)
MayFile == \E m \in summary : Matches(m) \/ SlipsGone(m)
ValidatedOK ==
    status = "finalized" \/ (\E r \in Requests : req[r].pc = "finalize") =>
        \/ MayFile
        \/ \E r \in Requests : req[r].pc \in Rebuilding

RowsInv ==
    /\ ReturnOK /\ SummaryOK /\ ValidatedOK
    /\ \A r \in Requests : MadeAt(req[r]) /\ RowsAt(req[r], slips, summary)

LEMMA IdleMade == MadeAt(Idle) /\ Idle.pc = "idle" /\ Idle \in Request
<1>1. Idle.made = {} /\ Idle.todo = {} /\ Idle.pc = "idle"
    BY DEF Idle
<1>2. Idle \in Request
    BY DEF Idle, Request, PCs, NoProfiles, Profiles
<1>3. QED
    BY <1>1, <1>2, FS_EmptySet DEF MadeAt, OneEach

(* A step that leaves the rows alone: it may finalize them, or mark them   *)
(* as validated, only when they match.                                     *)
LEMMA MoveKeepsRows ==
    ASSUME ReqOK, RowsInv, NEW r \in Requests, NEW w \in Request,
           req' = [req EXCEPT ![r] = w], MadeAt(w),
           w.pc \notin Rebuilding, req[r].pc \notin Rebuilding,
           UNCHANGED <<hash, slips, summary>>,
           status' = status \/ status' = "finalized",
           \/ status' # "finalized" /\ w.pc # "finalize"
           \/ status = "finalized" \/ req[r].pc = "finalize"
           \/ MayFile
    PROVE  RowsInv'
<1>1. req'[r] = w /\ \A q \in Requests \ {r} : req'[q] = req[q]
    BY DEF ReqOK
<1>2. ReturnOK' /\ SummaryOK'
    BY DEF RowsInv, ReturnOK, SummaryOK, Matches, OneEach
<1>3. \A q \in Requests : (MadeAt(req[q]) /\ RowsAt(req[q], slips, summary))'
    <2>1. ASSUME NEW q \in Requests, q # r
          PROVE  (MadeAt(req[q]) /\ RowsAt(req[q], slips, summary))'
        BY <1>1, <2>1 DEF RowsInv, MadeAt, RowsAt, OneEach
    <2>2. (MadeAt(req[r]) /\ RowsAt(req[r], slips, summary))'
        BY <1>1 DEF MadeAt, RowsAt, Rebuilding, OneEach
    <2>3. QED
        BY <2>1, <2>2
<1>4. ASSUME NEW q \in Requests, req[q].pc \in Rebuilding
      PROVE  req'[q].pc \in Rebuilding
    BY <1>1, <1>4
<1>5. ValidatedOK'
    <2>1. MayFile => MayFile'
        BY DEF MayFile, Matches, SlipsGone
    <2>2. ASSUME status' = "finalized" \/ \E q \in Requests : req'[q].pc = "finalize"
          PROVE  \/ MayFile
                 \/ \E q \in Requests : req[q].pc \in Rebuilding
        <3>1. CASE \E q \in Requests : req[q].pc = "finalize"
            BY <3>1 DEF RowsInv, ValidatedOK
        <3>2. CASE status = "finalized"
            BY <3>2 DEF RowsInv, ValidatedOK
        <3>3. CASE \A q \in Requests : req[q].pc # "finalize"
            BY <1>1, <2>2, <3>2, <3>3
        <3>4. QED
            BY <3>1, <3>3
    <2>3. QED
        BY <1>4, <2>1, <2>2 DEF ValidatedOK
<1>6. QED
    BY <1>2, <1>3, <1>5 DEF RowsInv

(* A step of the section that writes the rows.                             *)
LEMMA BuildKeepsRows ==
    ASSUME SealInv, RowsInv, NEW r \in Requests, NEW w \in Request,
           req' = [req EXCEPT ![r] = w], MadeAt(w),
           ~ Locked \/ req[r].pc \in Building,
           w.pc \in Rebuilding \/ \E m \in summary' : Matches(m)',
           w.pc \in Building, status' = "draft",
           ReturnOK', SummaryOK', RowsAt(w, slips', summary')
    PROVE  RowsInv'
<1>1. req'[r] = w /\ \A q \in Requests \ {r} : req'[q] = req[q]
    BY DEF SealInv, ReqOK
<1>2. \A q \in Requests \ {r} : req[q].pc \notin Building
    BY DEF SealInv, OneHolder, Locked, Building
<1>3. ASSUME NEW q \in Requests
      PROVE  (MadeAt(req[q]) /\ RowsAt(req[q], slips, summary))'
    <2>1. CASE q = r
        BY <1>1, <2>1 DEF MadeAt, OneEach, RowsAt
    <2>2. CASE q # r
        <3>1. MadeAt(req[q])'
            BY <1>1, <2>2 DEF RowsInv, MadeAt, OneEach
        <3>2. RowsAt(req[q], slips, summary)'
            BY <1>1, <1>2, <2>2 DEF RowsAt, Building
        <3>3. QED
            BY <3>1, <3>2
    <2>3. QED
        BY <2>1, <2>2
<1>4. ValidatedOK'
    <2>1. CASE w.pc \in Rebuilding
        BY <1>1, <2>1 DEF ValidatedOK
    <2>2. CASE \E m \in summary' : Matches(m)'
        BY <2>2 DEF ValidatedOK, MayFile
    <2>3. QED
        BY <2>1, <2>2
<1>5. QED
    BY <1>3, <1>4 DEF RowsInv

LEMMA AggregateRows ==
    ASSUME IInv, RowsInv, NEW r \in Requests, AggregateT4(r)
    PROVE  RowsInv'
<1> DEFINE paidEmps == {e \in {x.emp : x \in paid} :
                            req[r].emps[e] # "absent"}
           slip(e) == [emp |-> e, amount |-> AnnualTotal(e),
                       complete |-> req[r].emps[e] = "complete"]
           made == {slip(e) : e \in paidEmps}
           w == [req[r] EXCEPT !.pc = "build", !.emps = NoProfiles,
                               !.made = made, !.todo = made]
<1>1. \A e \in paidEmps : e \in Employees
    BY DEF PayrollEntry, IInv, PayrollOK
<1>2. \A e \in Employees : slip(e) \in Slip
    BY AnnualTotalType DEF Slip, IInv, PayrollOK
<1>3. made \subseteq Slip
    BY <1>1, <1>2
<1>4. OneEach(made)
    <2>1. \A s \in made : \E e \in paidEmps : s = slip(e)
        OBVIOUS
    <2>2. \A e \in paidEmps : slip(e).emp = e
        OBVIOUS
    <2> HIDE DEF made, slip
    <2>3. \A s \in made : s.emp \in paidEmps /\ s = slip(s.emp)
        BY <2>1, <2>2
    <2>4. QED
        BY <1>1, <2>2, <2>3 DEF OneEach
<1>5. IsFiniteSet(made)
    <2> DEFINE f == [e \in paidEmps |-> slip(e)]
    <2>1. IsFiniteSet(paidEmps)
        BY <1>1, YearEndAssumption, FS_Subset
    <2>2. f \in [paidEmps -> made]
        OBVIOUS
    <2>3. \A s \in made : \E e \in paidEmps : f[e] = s
        OBVIOUS
    <2> HIDE DEF f, made
    <2>4. f \in Surjection(paidEmps, made)
        BY <2>2, <2>3 DEF Surjection
    <2>5. QED
        BY <2>1, <2>4, FS_Surjection
<1>6. req[r] \in Request /\ req[r].pc = "aggregate"
    BY DEF AggregateT4, IInv, SealInv, ReqOK
<1>7. /\ req' = [req EXCEPT ![r] = w]
      /\ UNCHANGED <<status, hash, slips, summary>>
    BY DEF AggregateT4
<1> HIDE DEF made
<1>8. w \in Request /\ w.pc = "build" /\ w.made = made /\ w.todo = made
    <2>1. NoProfiles \in [Employees -> Profiles] /\ "build" \in PCs
        BY DEF NoProfiles, Profiles, PCs
    <2>2. QED
        BY <1>3, <1>6, <2>1 DEF Request
<1> HIDE DEF w
<1>9. MadeAt(w)
    BY <1>4, <1>5, <1>8 DEF MadeAt
<1>10. w.pc \notin Rebuilding /\ req[r].pc \notin Rebuilding
    BY <1>6, <1>8 DEF Rebuilding
<1>11. \/ status' # "finalized" /\ w.pc # "finalize"
       \/ status = "finalized"
    BY <1>7, <1>8
<1>12. ReqOK
    BY DEF IInv, SealInv
<1>13. QED
    BY <1>7, <1>8, <1>9, <1>10, <1>11, <1>12, MoveKeepsRows

(* The other steps of a generation outside its last critical section.      *)
LEMMA BeginRows ==
    ASSUME IInv, RowsInv, NEW r \in Requests, Begin(r)
    PROVE  RowsInv'
<1> DEFINE w == [Idle EXCEPT !.pc = "hash", !.emps = profile]
<1>1. w \in Request /\ w.pc = "hash" /\ w.made = {} /\ w.todo = {}
    BY DEF Idle, Request, PCs, IInv, PayrollOK
<1>2. /\ req' = [req EXCEPT ![r] = w] /\ req[r].pc = "idle"
      /\ UNCHANGED <<status, hash, slips, summary>>
    BY DEF Begin
<1> HIDE DEF w
<1>3. MadeAt(w)
    BY <1>1, FS_EmptySet DEF MadeAt, OneEach
<1>4. w.pc \notin Rebuilding /\ req[r].pc \notin Rebuilding
    BY <1>1, <1>2 DEF Rebuilding
<1>5. ReqOK
    BY DEF IInv, SealInv
<1>6. QED
    BY <1>1, <1>2, <1>3, <1>4, <1>5, MoveKeepsRows

LEMMA ComputeSourceHashRows ==
    ASSUME IInv, RowsInv, NEW r \in Requests, ComputeSourceHash(r)
    PROVE  RowsInv'
<1> DEFINE w == [req[r] EXCEPT !.pc = "aggregate", !.hash = Finalized]
<1>1. /\ w \in Request /\ w.pc = "aggregate"
      /\ w.made = req[r].made /\ w.todo = req[r].todo
    <2>1. Finalized \subseteq PeriodIds
        BY DEF Finalized, PayrollEntry, IInv, PayrollOK
    <2>2. QED
        BY <2>1 DEF IInv, SealInv, ReqOK, Request, PCs
<1>2. /\ req' = [req EXCEPT ![r] = w] /\ req[r].pc = "hash"
      /\ UNCHANGED <<status, hash, slips, summary>>
    BY DEF ComputeSourceHash
<1> HIDE DEF w
<1>3. MadeAt(w)
    BY <1>1 DEF RowsInv, MadeAt
<1>4. w.pc \notin Rebuilding /\ req[r].pc \notin Rebuilding
    BY <1>1, <1>2 DEF Rebuilding
<1>5. ReqOK
    BY DEF IInv, SealInv
<1>6. QED
    BY <1>1, <1>2, <1>3, <1>4, <1>5, MoveKeepsRows

(* A request ends outside that section.                                    *)
LEMMA EndRows ==
    ASSUME IInv, RowsInv, NEW r \in Requests,
           req' = [req EXCEPT ![r] = Idle], req[r].pc \notin Rebuilding,
           UNCHANGED <<status, hash, slips, summary>>
    PROVE  RowsInv'
<1>1. Idle.pc \notin Rebuilding /\ Idle.pc # "finalize"
    BY IdleMade DEF Rebuilding
<1>2. ReqOK
    BY DEF IInv, SealInv
<1>3. status' # "finalized" \/ status = "finalized"
    OBVIOUS
<1>4. QED
    BY <1>1, <1>2, <1>3, IdleMade, MoveKeepsRows

-----------------------------------------------------------------------------
(* The last critical section of a generation.                              *)

LEMMA BuildNewRows ==
    ASSUME IInv, RowsInv, NEW r \in Requests, BuildNew(r)
    PROVE  RowsInv'
<1> DEFINE w == [req[r] EXCEPT !.pc = "slips", !.hash = {}]
<1>1. /\ w \in Request /\ w.pc = "slips"
      /\ w.made = req[r].made /\ w.todo = req[r].todo
      /\ req[r].hash \in SUBSET PeriodIds
    BY DEF IInv, SealInv, ReqOK, Request, PCs
<1>2. /\ req' = [req EXCEPT ![r] = w] /\ req[r].pc = "build" /\ ~ Locked
      /\ status = "none" /\ status' = "draft" /\ hash' = req[r].hash
      /\ UNCHANGED <<slips, summary>>
    BY DEF BuildNew
<1> HIDE DEF w
<1>3. MadeAt(w) /\ w.todo = w.made
    BY <1>1, <1>2 DEF RowsInv, MadeAt
<1>4. slips = {} /\ summary = {}
    BY <1>2 DEF RowsInv, ReturnOK
<1>5. ReturnOK' /\ SummaryOK' /\ RowsAt(w, slips', summary')
    BY <1>1, <1>2, <1>3, <1>4
        DEF RowsInv, ReturnOK, SummaryOK, RowsAt, OneEach
<1>6. w.pc \in Rebuilding /\ w.pc \in Building
    BY <1>1 DEF Rebuilding, Building
<1>7. QED
    BY <1>1, <1>2, <1>3, <1>5, <1>6, BuildKeepsRows DEF IInv

LEMMA DeleteSlipsRows ==
    ASSUME IInv, RowsInv, NEW r \in Requests, DeleteSlips(r)
    PROVE  RowsInv'
<1> DEFINE w == [req[r] EXCEPT !.pc = "summary_row", !.action = "regenerated"]
<1>1. /\ w \in Request /\ w.pc = "summary_row"
      /\ w.made = req[r].made /\ w.todo = req[r].todo
    BY DEF IInv, SealInv, ReqOK, Request, PCs
<1>2. /\ req' = [req EXCEPT ![r] = w] /\ req[r].pc = "build" /\ ~ Locked
      /\ status = "draft" /\ slips' = {}
      /\ UNCHANGED <<status, hash, summary>>
    BY DEF DeleteSlips, Rebuild
<1> HIDE DEF w
<1>3. MadeAt(w)
    BY <1>1, <1>2 DEF RowsInv, MadeAt
<1>4. ReturnOK' /\ RowsAt(w, slips', summary')
    BY <1>1, <1>2, FS_EmptySet DEF RowsInv, ReturnOK, RowsAt, OneEach
<1>5. SummaryOK'
    BY <1>2 DEF SummaryOK
<1>6. w.pc \in Rebuilding /\ w.pc \in Building
    BY <1>1 DEF Rebuilding, Building
<1>7. QED
    BY <1>1, <1>2, <1>3, <1>4, <1>5, <1>6, BuildKeepsRows DEF IInv

LEMMA DeleteSummaryRows ==
    ASSUME IInv, RowsInv, NEW r \in Requests, DeleteSummary(r)
    PROVE  RowsInv'
<1> DEFINE w == [req[r] EXCEPT !.pc = "header"]
<1>1. /\ w \in Request /\ w.pc = "header"
      /\ w.made = req[r].made /\ w.todo = req[r].todo
    BY DEF IInv, SealInv, ReqOK, Request, PCs
<1>2. /\ req' = [req EXCEPT ![r] = w] /\ req[r].pc = "summary_row"
      /\ summary' = {} /\ UNCHANGED <<status, hash, slips>>
    BY DEF DeleteSummary
<1> HIDE DEF w
<1>3. MadeAt(w) /\ slips = {}
    BY <1>1, <1>2 DEF RowsInv, MadeAt, RowsAt
<1>4. req[r].pc \in Building /\ status = "draft"
    BY <1>2 DEF Building, IInv, SealInv
<1>5. ReturnOK' /\ SummaryOK' /\ RowsAt(w, slips', summary')
    BY <1>1, <1>2, <1>3
        DEF RowsInv, ReturnOK, SummaryOK, RowsAt, OneEach
<1>6. w.pc \in Rebuilding /\ w.pc \in Building
    BY <1>1 DEF Rebuilding, Building
<1>7. QED
    BY <1>1, <1>2, <1>3, <1>4, <1>5, <1>6, BuildKeepsRows DEF IInv

LEMMA UpdateHeaderRows ==
    ASSUME IInv, RowsInv, NEW r \in Requests, UpdateHeader(r)
    PROVE  RowsInv'
<1> DEFINE w == [req[r] EXCEPT !.pc = "slips", !.hash = {}]
<1>1. /\ w \in Request /\ w.pc = "slips"
      /\ w.made = req[r].made /\ w.todo = req[r].todo
      /\ req[r].hash \in SUBSET PeriodIds
    BY DEF IInv, SealInv, ReqOK, Request, PCs
<1>2. /\ req' = [req EXCEPT ![r] = w] /\ req[r].pc = "header"
      /\ hash' = req[r].hash /\ UNCHANGED <<status, slips, summary>>
    BY DEF UpdateHeader
<1> HIDE DEF w
<1>3. MadeAt(w) /\ w.todo = w.made /\ slips = {} /\ summary = {}
    BY <1>1, <1>2 DEF RowsInv, MadeAt, RowsAt
<1>4. req[r].pc \in Building /\ status = "draft"
    BY <1>2 DEF Building, IInv, SealInv
<1>5. ReturnOK' /\ SummaryOK' /\ RowsAt(w, slips', summary')
    BY <1>1, <1>2, <1>3
        DEF RowsInv, ReturnOK, SummaryOK, RowsAt, OneEach
<1>6. w.pc \in Rebuilding /\ w.pc \in Building
    BY <1>1 DEF Rebuilding, Building
<1>7. QED
    BY <1>1, <1>2, <1>3, <1>4, <1>5, <1>6, BuildKeepsRows DEF IInv

LEMMA InsertT4SlipRows ==
    ASSUME IInv, RowsInv, NEW r \in Requests, InsertT4Slip(r)
    PROVE  RowsInv'
<1>1. PICK s \in req[r].todo :
        /\ slips' = slips \cup {s}
        /\ req' = [req EXCEPT ![r].todo = @ \ {s}]
    BY DEF InsertT4Slip
<1> DEFINE w == [req[r] EXCEPT !.todo = @ \ {s}]
<1>2. /\ req[r].pc = "slips" /\ req[r] \in Request
      /\ req' = [req EXCEPT ![r] = w]
      /\ UNCHANGED <<status, hash, summary>>
    BY <1>1 DEF InsertT4Slip, IInv, SealInv, ReqOK
<1>3. /\ w \in Request /\ w.pc = "slips"
      /\ w.made = req[r].made /\ w.todo = req[r].todo \ {s}
    BY <1>2 DEF Request
<1> HIDE DEF w
<1>4. /\ summary = {} /\ slips = req[r].made \ req[r].todo
      /\ MadeAt(req[r]) /\ req[r].todo \subseteq req[r].made
    BY <1>2 DEF RowsInv, RowsAt, MadeAt
<1>5. MadeAt(w)
    BY <1>3, <1>4 DEF MadeAt
<1>6. slips' = w.made \ w.todo /\ slips' \subseteq req[r].made
    BY <1>1, <1>3, <1>4
<1>7. req[r].pc \in Building /\ status = "draft"
    BY <1>2 DEF Building, IInv, SealInv
<1>8. ReturnOK'
    <2>1. IsFiniteSet(slips')
        BY <1>4, <1>6, FS_Subset DEF MadeAt
    <2>2. OneEach(slips')
        BY <1>4, <1>6 DEF MadeAt, OneEach
    <2>3. slips' \subseteq Slip
        BY <1>2, <1>6 DEF Request
    <2>4. QED
        BY <1>2, <1>7, <2>1, <2>2, <2>3
            DEF RowsInv, ReturnOK, OneEach
<1>9. SummaryOK' /\ RowsAt(w, slips', summary')
    BY <1>2, <1>3, <1>4, <1>6 DEF SummaryOK, RowsAt
<1>10. w.pc \in Rebuilding /\ w.pc \in Building
    BY <1>3 DEF Rebuilding, Building
<1>11. QED
    BY <1>2, <1>3, <1>5, <1>7, <1>8, <1>9, <1>10, BuildKeepsRows DEF IInv

LEMMA UpsertT4SummaryRows ==
    ASSUME IInv, RowsInv, NEW r \in Requests, UpsertT4Summary(r)
    PROVE  RowsInv'
<1> DEFINE w == [req[r] EXCEPT !.pc = "log", !.made = {}]
           m == SummaryOf(req[r].made)
<1>1. /\ req[r].pc = "slips" /\ req[r].todo = {} /\ req[r] \in Request
      /\ summary' = {m} /\ req' = [req EXCEPT ![r] = w]
      /\ UNCHANGED <<status, hash, slips>>
    BY DEF UpsertT4Summary, IInv, SealInv, ReqOK
<1>2. w \in Request /\ w.pc = "log" /\ w.made = {} /\ w.todo = {}
    BY <1>1 DEF Request, PCs
<1> HIDE DEF w
<1>3. slips = req[r].made
    BY <1>1 DEF RowsInv, RowsAt
<1>4. MadeAt(w)
    BY <1>2, FS_EmptySet DEF MadeAt, OneEach
<1>5. req[r].pc \in Building /\ status = "draft"
    BY <1>1 DEF Building, IInv, SealInv
<1>6. m \in Summary
    <2>1. \A s \in slips : s.amount \in Nat
        BY DEF RowsInv, ReturnOK, Slip
    <2>2. TotalOf(slips) \in Nat /\ Cardinality(slips) \in Nat
        BY <2>1, TotalType, FS_CardinalityType DEF RowsInv, ReturnOK
    <2>3. QED
        BY <1>3, <2>2 DEF SummaryOf, Summary
<1>7. m.count = Cardinality(slips) /\ m.total = TotalOf(slips)
    BY <1>3 DEF SummaryOf
<1> HIDE DEF m
<1>8. ReturnOK'
    BY <1>1, <1>5, <1>6 DEF RowsInv, ReturnOK, OneEach
<1>9. SummaryOK' /\ \E x \in summary' : Matches(x)'
    BY <1>1, <1>7 DEF SummaryOK, Matches
<1>10. RowsAt(w, slips', summary') /\ w.pc \in Building
    BY <1>2 DEF RowsAt, Building
<1>11. QED
    BY <1>1, <1>2, <1>4, <1>5, <1>8, <1>9, <1>10, BuildKeepsRows DEF IInv

LEMMA GenerateRows ==
    ASSUME IInv, RowsInv, NEW r \in Requests, Generate(r)
    PROVE  RowsInv'
<1>1. CASE YearEndGenerate(r) \/ YearEndRegenerate(r)
    BY <1>1, BeginRows DEF YearEndGenerate, YearEndRegenerate
<1>2. CASE ComputeSourceHash(r)
    BY <1>2, ComputeSourceHashRows
<1>3. CASE AggregateT4(r)
    BY <1>3, AggregateRows
<1>4. CASE BuildRefused(r)
    BY <1>4, EndRows DEF BuildRefused, Rebuilding
<1>5. CASE BuildNew(r)
    BY <1>5, BuildNewRows
<1>6. CASE DeleteSlips(r)
    BY <1>6, DeleteSlipsRows
<1>7. CASE DeleteSummary(r)
    BY <1>7, DeleteSummaryRows
<1>8. CASE UpdateHeader(r)
    BY <1>8, UpdateHeaderRows
<1>9. CASE InsertT4Slip(r)
    BY <1>9, InsertT4SlipRows
<1>10. CASE UpsertT4Summary(r)
    BY <1>10, UpsertT4SummaryRows
<1>11. CASE InsertAuditLog(r)
    BY <1>11, EndRows DEF InsertAuditLog, Rebuilding
<1>12. QED
    BY <1>1, <1>2, <1>3, <1>4, <1>5, <1>6, <1>7, <1>8, <1>9, <1>10, <1>11
        DEF Generate

-----------------------------------------------------------------------------
(* Validation and finalization, the clerk, a crash.                        *)

(* A summary left behind by a dead process is valid only when what it adds *)
(* up to is within the tolerance for no slips, which is a cent.            *)
LEMMA ValidMayFile ==
    ASSUME RowsInv, Validate
    PROVE  MayFile
<1>1. PICK m \in summary : /\ m.count > 0
                           /\ m.total - TotalOf(slips) <= Tolerance
    BY DEF Validate, SummaryValid
<1>2. CASE Matches(m)
    BY <1>2 DEF MayFile
<1>3. CASE slips = {}
    <2>1. TotalOf({}) = 0
        <3>1. \A x \in {} : x.amount \in Nat
            OBVIOUS
        <3>2. QED
            BY <3>1, FS_EmptySet, TotalType
    <2>2. Cardinality({}) = 0
        BY FS_EmptySet
    <2>3. Tolerance = 1
        BY <1>3, <2>2 DEF Tolerance
    <2>4. m.total \in Nat
        BY DEF RowsInv, ReturnOK, Summary
    <2>5. QED
        BY <1>1, <1>3, <2>1, <2>3, <2>4 DEF MayFile, SlipsGone
<1>4. QED
    BY <1>2, <1>3 DEF RowsInv, SummaryOK

LEMMA FinalizeRows ==
    ASSUME IInv, RowsInv, NEW r \in Requests, Finalize(r)
    PROVE  RowsInv'
<1>1. ReqOK
    BY DEF IInv, SealInv
<1>2. CASE YearEndFinalize(r)
    <2> DEFINE w == [Idle EXCEPT !.pc = "finalize"]
    <2>1. w \in Request /\ w.pc = "finalize" /\ w.made = {} /\ w.todo = {}
        BY DEF Idle, Request, PCs, NoProfiles, Profiles
    <2>2. /\ req' = [req EXCEPT ![r] = w] /\ req[r].pc = "idle"
          /\ UNCHANGED <<status, hash, slips, summary>>
        BY <1>2 DEF YearEndFinalize
    <2> HIDE DEF w
    <2>3. MadeAt(w)
        BY <2>1, FS_EmptySet DEF MadeAt, OneEach
    <2>4. w.pc \notin Rebuilding /\ req[r].pc \notin Rebuilding
        BY <2>1, <2>2 DEF Rebuilding
    <2>5. MayFile
        BY <1>2, ValidMayFile DEF YearEndFinalize
    <2>6. QED
        BY <1>1, <2>1, <2>2, <2>3, <2>4, <2>5, MoveKeepsRows
<1>3. CASE FinalizeYearEndReturn(r)
    <2> DEFINE w == [req[r] EXCEPT !.pc = "finalize_log"]
    <2>1. /\ w \in Request /\ w.pc = "finalize_log"
          /\ w.made = req[r].made /\ w.todo = req[r].todo
        BY <1>1 DEF ReqOK, Request, PCs
    <2>2. /\ req' = [req EXCEPT ![r] = w] /\ req[r].pc = "finalize"
          /\ status' = "finalized" /\ UNCHANGED <<hash, slips, summary>>
        BY <1>3 DEF FinalizeYearEndReturn, SetFinalized
    <2> HIDE DEF w
    <2>3. MadeAt(w)
        BY <2>1 DEF RowsInv, MadeAt
    <2>4. w.pc \notin Rebuilding /\ req[r].pc \notin Rebuilding
        BY <2>1, <2>2 DEF Rebuilding
    <2>5. QED
        BY <1>1, <2>1, <2>2, <2>3, <2>4, MoveKeepsRows
<1>4. CASE FinalizeRefused(r) \/ FinalizeAuditLog(r)
    BY <1>4, EndRows DEF FinalizeRefused, FinalizeAuditLog, Rebuilding
<1>5. QED
    BY <1>2, <1>3, <1>4 DEF Finalize

LEMMA PayrollRows ==
    ASSUME RowsInv, UNCHANGED <<status, hash, slips, summary, req>>
    PROVE  RowsInv'
BY DEF RowsInv, ReturnOK, SummaryOK, ValidatedOK, MayFile, MadeAt, RowsAt,
    OneEach, Matches, SlipsGone

(* Another contact name leaves the totals of the summary as they are.      *)
LEMMA ContactRows ==
    ASSUME IInv, RowsInv, NEW name \in Contacts, UpdateT4SummaryContact(name)
    PROVE  RowsInv'
<1> DEFINE new(m) == [m EXCEPT !.contact = name]
<1>1. /\ summary' = {new(m) : m \in summary} /\ ~ Locked
      /\ UNCHANGED <<status, hash, slips, req>> /\ status = "draft"
    BY DEF UpdateT4SummaryContact
<1>2. \A m \in summary : /\ new(m) \in Summary
                         /\ new(m).count = m.count /\ new(m).total = m.total
    BY DEF RowsInv, ReturnOK, Summary
<1> HIDE DEF new
<1>3. \A r \in Requests : req[r].pc \notin Rebuilding
    BY <1>1 DEF Locked, Rebuilding
<1>4. ReturnOK'
    <2>1. PICK m : summary \subseteq {m}
        BY DEF RowsInv, ReturnOK
    <2>2. summary' \subseteq {new(m)}
        BY <1>1, <2>1
    <2>3. QED
        BY <1>1, <1>2, <2>2 DEF RowsInv, ReturnOK, OneEach
<1>5. SummaryOK'
    BY <1>1, <1>2 DEF RowsInv, SummaryOK, Matches
<1>6. ValidatedOK'
    <2>1. MayFile => MayFile'
        BY <1>1, <1>2 DEF MayFile, Matches, SlipsGone
    <2>2. QED
        BY <1>1, <2>1 DEF RowsInv, ValidatedOK
<1>7. \A r \in Requests :
        (MadeAt(req[r]) /\ RowsAt(req[r], slips, summary))'
    BY <1>1, <1>3 DEF RowsInv, MadeAt, RowsAt, OneEach, Rebuilding
<1>8. QED
    BY <1>4, <1>5, <1>6, <1>7 DEF RowsInv

LEMMA CrashRows ==
    ASSUME IInv, RowsInv, Crash
    PROVE  RowsInv'
<1>1. \A r \in Requests : req'[r] = Idle
    BY DEF Crash
<1>2. UNCHANGED <<status, hash, slips, summary>>
    BY DEF Crash
<1>3. ReturnOK' /\ SummaryOK'
    BY <1>2 DEF RowsInv, ReturnOK, SummaryOK, Matches, OneEach
<1>4. \A r \in Requests :
        (MadeAt(req[r]) /\ RowsAt(req[r], slips, summary))'
    BY <1>1, IdleMade DEF MadeAt, RowsAt, OneEach
<1>5. ValidatedOK'
    <2>1. SUFFICES ASSUME status = "finalized" PROVE MayFile
        BY <1>1, <1>2, IdleMade DEF ValidatedOK, MayFile, Matches, SlipsGone
    <2>2. \A r \in Requests : req[r].pc \notin Rebuilding
        BY <2>1 DEF IInv, SealInv, Building, Rebuilding
    <2>3. QED
        BY <2>1, <2>2 DEF RowsInv, ValidatedOK
<1>6. QED
    BY <1>3, <1>4, <1>5 DEF RowsInv

LEMMA RowsInvInit == Init => RowsInv
<1> SUFFICES ASSUME Init PROVE RowsInv
    OBVIOUS
<1>1. \A r \in Requests : MadeAt(req[r]) /\ req[r].pc = "idle"
    BY IdleMade DEF Init
<1>2. ReturnOK /\ SummaryOK
    BY FS_EmptySet DEF Init, ReturnOK, SummaryOK, OneEach
<1>3. ValidatedOK
    BY <1>1 DEF Init, ValidatedOK
<1>4. QED
    BY <1>1, <1>2, <1>3 DEF RowsInv, RowsAt

LEMMA RowsInvNext == IInv /\ RowsInv /\ [Next]_vars => RowsInv'
<1> SUFFICES ASSUME IInv, RowsInv, [Next]_vars PROVE RowsInv'
    OBVIOUS
<1>1. CASE Payroll \/ UNCHANGED vars
    BY <1>1, PayrollRows DEF Payroll, FinalizePeriod, DeletePayrollPeriod,
        SaveEmployee, vars
<1>2. ASSUME NEW r \in Requests, Generate(r) \/ Finalize(r)
      PROVE  RowsInv'
    BY <1>2, GenerateRows, FinalizeRows
<1>3. ASSUME NEW name \in Contacts, UpdateT4SummaryContact(name)
      PROVE  RowsInv'
    BY <1>3, ContactRows
<1>4. CASE Crash
    BY <1>4, CrashRows
<1>5. QED
    BY <1>1, <1>2, <1>3, <1>4 DEF Next

LEMMA AlwaysRows == Spec => []RowsInv
<1>1. Init => RowsInv
    BY RowsInvInit
<1>2. IInv /\ RowsInv /\ [Next]_vars => RowsInv'
    BY RowsInvNext
<1>3. QED
    BY <1>1, <1>2, Inductive, PTL DEF Spec

(* Every variable keeps its type: in particular a total is a number and    *)
(* the return has at most one summary.                                     *)
THEOREM TypeCorrect == Spec => []TypeOK
<1>1. IInv /\ RowsInv => TypeOK
    <2> SUFFICES ASSUME IInv, RowsInv PROVE TypeOK
        OBVIOUS
    <2>1. Cardinality(summary) <= 1
        <3>1. PICK m : summary \subseteq {m}
            BY DEF RowsInv, ReturnOK
        <3>2. IsFiniteSet({m}) /\ Cardinality({m}) = 1
            BY FS_Singleton
        <3>3. QED
            BY <3>1, <3>2, FS_Subset
    <2>2. QED
        BY <2>1 DEF TypeOK, IInv, PayrollOK, SealInv, ReqOK, StatusOK, LogOK,
            RowsInv, ReturnOK
<1>2. QED
    BY <1>1, Inductive, AlwaysRows, PTL

(* A filed return has a summary with the totals of its slips, wherever a   *)
(* process died in the middle of a generation and whatever was generated   *)
(* again between validation and finalization; or it has no slips and a     *)
(* summary of a cent at most.                                              *)
THEOREM FiledTotals == Spec => []FinalizedTotals
<1>1. IInv /\ RowsInv => FinalizedTotals
    <2> SUFFICES ASSUME IInv, RowsInv, status = "finalized" PROVE MayFile
        BY DEF FinalizedTotals, MayFile
    <2>1. \A r \in Requests : req[r].pc \notin Rebuilding
        BY DEF IInv, SealInv, Building, Rebuilding
    <2>2. QED
        BY <2>1 DEF RowsInv, ValidatedOK
<1>2. QED
    BY <1>1, Inductive, AlwaysRows, PTL

(* An employee has one slip, whatever a generation that was cut short left *)
(* behind.                                                                 *)
THEOREM OneSlip == Spec => []OneSlipPerEmployee
<1>1. RowsInv => OneSlipPerEmployee
    BY DEF RowsInv, ReturnOK, OneEach, OneSlipPerEmployee
<1>2. QED
    BY <1>1, AlwaysRows, PTL
=============================================================================
