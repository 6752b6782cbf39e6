----------------------------- MODULE GatewayBudget -----------------------------
(***************************************************************************)
(* The durable AI budget of the gateway (intelligence/gateway/             *)
(* sql_budget.go): every provider attempt reserves its worst-case cost in  *)
(* four windows before the call and settles it after.  The transactions    *)
(* are taken lock by lock, together with the account erasure               *)
(* (privacy/service.go and the trigger of migration 000068) that deletes   *)
(* the windows and reservations of a candidate.                            *)
(***************************************************************************)
EXTENDS Integers, FiniteSets, Sequences

CONSTANTS
    Calls,       \* provider attempts; each reserves once
    Candidates, Recruiters, Tenants,
    UserOf,      \* [Calls -> Candidates \cup Recruiters]
    ScopeOf,     \* [Calls -> Candidates \cup Tenants]: whose windows are used
    Amounts,     \* worst-case costs Reserve may compute
    LastDay,     \* bound on the calendar
    MonthOf,     \* [0..LastDay -> Nat]
    DailyBudget, MonthlyBudget, TenantDailyBudget, TenantMonthlyBudget

Days == 0..LastDay

Keys == {"global"} \cup Candidates \cup Tenants

ASSUME BudgetAssumption ==
    /\ UserOf \in [Calls -> Candidates \cup Recruiters]
    /\ ScopeOf \in [Calls -> Candidates \cup Tenants]
    /\ \A c \in Calls : ScopeOf[c] \in Tenants \/ ScopeOf[c] = UserOf[c]
    /\ Tenants \cap Candidates = {} /\ "global" \notin Candidates \cup Tenants
    /\ Calls \cap Candidates = {}
    /\ Amounts \subseteq Nat
    /\ LastDay \in Nat
    /\ MonthOf \in [Days -> Nat]
    /\ {DailyBudget, MonthlyBudget, TenantDailyBudget, TenantMonthlyBudget} \subseteq Nat

\* Primary keys of ai_budget_windows, and the limit of each.
Window(k, p, b) == [key |-> k, period |-> p, bucket |-> b]
Windows ==
    {Window(k, "day", d) : k \in Keys, d \in Days}
    \cup {Window(k, "month", MonthOf[d]) : k \in Keys, d \in Days}

Limit(w) ==
    IF w.key = "global"
    THEN IF w.period = "day" THEN DailyBudget ELSE MonthlyBudget
    ELSE IF w.period = "day" THEN TenantDailyBudget ELSE TenantMonthlyBudget

\* The windows of a scope on a date.
WindowsOf(k, d) ==
    <<Window("global", "day", d), Window("global", "month", MonthOf[d]),
      Window(k, "day", d), Window(k, "month", MonthOf[d])>>

VARIABLES
    day,                   \* the date all processes read
    rows,                  \* committed rows of ai_budget_windows
    spent, held,           \* spent_micro_usd, reserved_micro_usd
    reservation,           \* [Calls -> ...]: the row of ai_budget_reservations
    pc, next,              \* a call: its step, the window it locks next
    windows, amount, cost, \* a call: reserved windows, worst case, reported cost
    erasure, taken,        \* a candidate's erasure: its step, window rows it deleted
    counted                \* windows a call's amount is still held in (history)

books == <<rows, spent, held, reservation, counted>>
call == <<pc, next, windows, amount, cost>>
eraser == <<erasure, taken>>
vars == <<day, books, call, eraser>>

Init ==
    /\ day = 0
    /\ rows = {}
    /\ spent = [w \in Windows |-> 0]
    /\ held = [w \in Windows |-> 0]
    /\ reservation = [c \in Calls |-> "none"]
    /\ pc = [c \in Calls |-> "idle"]
    /\ next = [c \in Calls |-> 0]
    /\ windows = [c \in Calls |-> WindowsOf(ScopeOf[c], 0)]
    /\ amount = [c \in Calls |-> 0]
    /\ cost = [c \in Calls |-> 0]
    /\ erasure = [u \in Candidates |-> "none"]
    /\ taken = [u \in Candidates |-> {}]
    /\ counted = [c \in Calls |-> {}]

-----------------------------------------------------------------------------
(* Row locks follow from where the transactions are.                       *)

\* Mutant: Finish goes through the windows in reverse.
OrderUnwound(c) ==
    IF pc[c] = "finish"
    THEN <<windows[c][4], windows[c][3], windows[c][2], windows[c][1]>>
    ELSE windows[c]

\* The order in which Reserve and Finish lock.
Order(c) == windows[c]

Now(c) == Order(c)[next[c]]

Locked(c) ==
    IF pc[c] \in {"reserve", "finish"} THEN {Order(c)[i] : i \in 1..(next[c] - 1)} ELSE {}

Free(w) == /\ \A c \in Calls : w \notin Locked(c)
           /\ \A u \in Candidates : w \notin taken[u]

\* Finish has the reservation row FOR UPDATE.
HasReservation(c) == pc[c] = "finish" /\ next[c] > 0

\* EraseAccount holds the users row FOR UPDATE; a row that references it takes
\* FOR KEY SHARE, which waits for that.
Erasing(u) == u \in Candidates /\ erasure[u] = "windows"

\* A window row inserted and not yet committed references its user.
HasKeyShare(c, u) ==
    pc[c] = "reserve" /\ \E w \in Locked(c) \ rows : w.key = u

-----------------------------------------------------------------------------
(* Reserve                                                                 *)

StartReserve(c) ==
    /\ pc[c] = "idle"
    /\ pc' = [pc EXCEPT ![c] = "reserve"]
    /\ next' = [next EXCEPT ![c] = 1]
    /\ windows' = [windows EXCEPT ![c] = WindowsOf(ScopeOf[c], day)]
    /\ \E a \in Amounts : amount' = [amount EXCEPT ![c] = a]
    /\ UNCHANGED <<day, books, cost, eraser>>

\* Mutant: what other calls hold is forgotten.
FitsSpentOnly(c, w) == spent[w] + amount[c] <= Limit(w)

Fits(c, w) == spent[w] + held[w] + amount[c] <= Limit(w)

\* INSERT .. ON CONFLICT DO NOTHING, SELECT .. FOR UPDATE, the check, UPDATE.
LockWindow(c) ==
    /\ pc[c] = "reserve" /\ next[c] \in 1..4
    /\ Free(Now(c))
    /\ Now(c) \in rows \/ ~Erasing(Now(c).key)
    /\ IF Fits(c, Now(c))
       THEN next' = [next EXCEPT ![c] = @ + 1] /\ UNCHANGED pc
       ELSE pc' = [pc EXCEPT ![c] = "refused"] /\ UNCHANGED next
    /\ UNCHANGED <<day, books, windows, amount, cost, eraser>>

\* The reservation row and the commit; the caller may not learn of it.
Grant(c) ==
    /\ pc[c] = "reserve" /\ next[c] = 5
    /\ ~Erasing(UserOf[c])
    /\ LET reserved == {windows[c][i] : i \in 1..4} IN
        /\ rows' = rows \cup reserved
        /\ held' = [w \in Windows |-> IF w \in reserved THEN held[w] + amount[c] ELSE held[w]]
        /\ counted' = [counted EXCEPT ![c] = reserved]
    /\ reservation' = [reservation EXCEPT ![c] = "open"]
    /\ \E s \in {"calling", "refused"} : pc' = [pc EXCEPT ![c] = s]
    /\ UNCHANGED <<day, spent, next, windows, amount, cost, eraser>>

\* The context ends, the database fails or chooses a deadlock victim.
ReserveFails(c) ==
    /\ pc[c] = "reserve"
    /\ pc' = [pc EXCEPT ![c] = "refused"]
    /\ UNCHANGED <<day, books, next, windows, amount, cost, eraser>>

-----------------------------------------------------------------------------
(* The provider call and Finish                                            *)

\* Unreported usage costs the whole amount; -1 is a cost micro refuses.
Call(c) ==
    /\ pc[c] = "calling"
    /\ pc' = [pc EXCEPT ![c] = "finish"]
    /\ next' = [next EXCEPT ![c] = 0]
    /\ \E x \in {-1} \cup 0..amount[c] : cost' = [cost EXCEPT ![c] = x]
    /\ UNCHANGED <<day, books, windows, amount, eraser>>

\* Mutant: a refused conversion is charged as it is.
ReadReservationUnchecked(c) ==
    /\ pc[c] = "finish" /\ next[c] = 0
    /\ IF reservation[c] = "open"
       THEN next' = [next EXCEPT ![c] = 1] /\ UNCHANGED pc
       ELSE pc' = [pc EXCEPT ![c] = "answered"] /\ UNCHANGED next
    /\ UNCHANGED <<day, books, windows, amount, cost, eraser>>

ReadReservation(c) ==
    /\ pc[c] = "finish" /\ next[c] = 0
    /\ IF reservation[c] = "open" /\ cost[c] >= 0
       THEN next' = [next EXCEPT ![c] = 1] /\ UNCHANGED pc
       ELSE pc' = [pc EXCEPT ![c] = "answered"] /\ UNCHANGED next
    /\ UNCHANGED <<day, books, windows, amount, cost, eraser>>

UpdateWindow(c) ==
    /\ pc[c] = "finish" /\ next[c] \in 1..4
    /\ Free(Now(c))
    /\ next' = [next EXCEPT ![c] = @ + 1]
    /\ UNCHANGED <<day, books, pc, windows, amount, cost, eraser>>

\* GREATEST(0, reserved_micro_usd - n)
Less(h, n) == IF h <= n THEN 0 ELSE h - n

\* Mutant: Finish settles in the windows of the present date.
SettleToday(c) ==
    /\ pc[c] = "finish" /\ next[c] = 5
    /\ LET settled == {WindowsOf(ScopeOf[c], day)[i] : i \in 1..4} \cap rows IN
        /\ held' = [w \in Windows |-> IF w \in settled THEN Less(held[w], amount[c]) ELSE held[w]]
        /\ spent' = [w \in Windows |-> IF w \in settled THEN spent[w] + cost[c] ELSE spent[w]]
    /\ counted' = [counted EXCEPT ![c] = {}]
    /\ reservation' = [reservation EXCEPT ![c] = "finalized"]
    /\ pc' = [pc EXCEPT ![c] = "answered"]
    /\ UNCHANGED <<day, rows, next, windows, amount, cost, eraser>>

\* Finish commits: the recorded windows of the reservation are settled.
Settle(c) ==
    /\ pc[c] = "finish" /\ next[c] = 5
    /\ LET settled == {windows[c][i] : i \in 1..4} \cap rows IN
        /\ held' = [w \in Windows |-> IF w \in settled THEN Less(held[w], amount[c]) ELSE held[w]]
        /\ spent' = [w \in Windows |-> IF w \in settled THEN spent[w] + cost[c] ELSE spent[w]]
    /\ counted' = [counted EXCEPT ![c] = {}]
    /\ reservation' = [reservation EXCEPT ![c] = "finalized"]
    /\ pc' = [pc EXCEPT ![c] = "answered"]
    /\ UNCHANGED <<day, rows, next, windows, amount, cost, eraser>>

\* A crash, or the one second given to Finish runs out: nothing is settled,
\* the amount stays held.
FinishFails(c) ==
    /\ pc[c] \in {"calling", "finish"}
    /\ pc' = [pc EXCEPT ![c] = "answered"]
    /\ UNCHANGED <<day, books, next, windows, amount, cost, eraser>>

-----------------------------------------------------------------------------
(* EraseAccount and the trigger purge_erased_ai_data                       *)

OwnRows(u) == {w \in rows : w.key = u}

\* SELECT .. FROM users .. FOR UPDATE
StartErasure(u) ==
    /\ erasure[u] = "none"
    /\ \A c \in Calls : ~HasKeyShare(c, u)
    /\ erasure' = [erasure EXCEPT ![u] = "windows"]
    /\ UNCHANGED <<day, books, call, taken>>

\* DELETE FROM ai_budget_windows, row by row.
DeleteWindow(u) ==
    /\ erasure[u] = "windows"
    /\ \E w \in OwnRows(u) : Free(w) /\ taken' = [taken EXCEPT ![u] = @ \cup {w}]
    /\ UNCHANGED <<day, books, call, erasure>>

\* DELETE FROM ai_budget_reservations, and the commit.
CommitErasure(u) ==
    /\ erasure[u] = "windows"
    /\ OwnRows(u) = taken[u]
    /\ \A c \in Calls : UserOf[c] = u => ~HasReservation(c)
    /\ rows' = rows \ taken[u]
    /\ spent' = [w \in Windows |-> IF w \in taken[u] THEN 0 ELSE spent[w]]
    /\ held' = [w \in Windows |-> IF w \in taken[u] THEN 0 ELSE held[w]]
    /\ counted' = [c \in Calls |-> counted[c] \ taken[u]]
    /\ reservation' = [c \in Calls |->
          IF UserOf[c] = u /\ reservation[c] # "none" THEN "erased" ELSE reservation[c]]
    /\ erasure' = [erasure EXCEPT ![u] = "done"]
    /\ taken' = [taken EXCEPT ![u] = {}]
    /\ UNCHANGED <<day, call>>

ErasureFails(u) ==
    /\ erasure[u] = "windows"
    /\ erasure' = [erasure EXCEPT ![u] = "none"]
    /\ taken' = [taken EXCEPT ![u] = {}]
    /\ UNCHANGED <<day, books, call>>

NextDay ==
    /\ day < LastDay
    /\ day' = day + 1
    /\ UNCHANGED <<books, call, eraser>>

CallStep(c) ==
    \/ StartReserve(c) \/ LockWindow(c) \/ Grant(c) \/ ReserveFails(c)
    \/ Call(c) \/ ReadReservation(c) \/ UpdateWindow(c) \/ Settle(c) \/ FinishFails(c)

EraserStep(u) == StartErasure(u) \/ DeleteWindow(u) \/ CommitErasure(u) \/ ErasureFails(u)

Next ==
    \/ \E c \in Calls : CallStep(c)
    \/ \E u \in Candidates : EraserStep(u)
    \/ NextDay

Spec == Init /\ [][Next]_vars

\* The same without erasures: what sql_budget.go is by itself.
SpecOfCalls == Init /\ [][NextDay \/ \E c \in Calls : CallStep(c)]_vars

-----------------------------------------------------------------------------
(* Properties                                                              *)

\* Every variable keeps its shape; no amount held or spent is negative.
TypeOK ==
    /\ day \in Days
    /\ rows \subseteq Windows
    /\ spent \in [Windows -> Nat] /\ held \in [Windows -> Nat]
    /\ reservation \in [Calls -> {"none", "open", "finalized", "erased"}]
    /\ pc \in [Calls -> {"idle", "reserve", "calling", "finish", "answered", "refused"}]
    /\ next \in [Calls -> 0..5]
    /\ windows \in [Calls -> {WindowsOf(k, d) : k \in Candidates \cup Tenants, d \in Days}]
    /\ amount \in [Calls -> Amounts \cup {0}]
    /\ cost \in [Calls -> Int]
    /\ erasure \in [Candidates -> {"none", "windows", "done"}]
    /\ taken \in [Candidates -> SUBSET rows]
    /\ counted \in [Calls -> SUBSET Windows]

\* No window is ever committed beyond its limit, whatever calls, failures,
\* midnights and erasures come together (sql_budget.go:54-74, 108-112).
WithinLimits == \A w \in Windows : spent[w] + held[w] <= Limit(w)

\* The micro-dollars of all amounts held in a window, one pair each.
Holdings(w) == UNION {{c} \X (1..amount[c]) : c \in {x \in Calls : w \in counted[x]}}

\* What a window holds is exactly the amounts reserved in it and not settled:
\* none is released twice, in another window, or by another call.
HeldIsReserved == \A w \in Windows : held[w] = Cardinality(Holdings(w))

\* p cannot go on before q ends its transaction.
WaitsFor(p, q) ==
    \/ /\ p \in Calls /\ pc[p] \in {"reserve", "finish"} /\ next[p] \in 1..4
       /\ \/ q \in Calls \ {p} /\ Now(p) \in Locked(q)
          \/ q \in Candidates /\ Now(p) \in taken[q]
          \/ pc[p] = "reserve" /\ Now(p) \notin rows /\ Erasing(q) /\ Now(p).key = q
    \/ p \in Calls /\ pc[p] = "reserve" /\ next[p] = 5 /\ q = UserOf[p] /\ Erasing(q)
    \/ /\ Erasing(p) /\ q \in Calls
       /\ IF OwnRows(p) = taken[p] THEN UserOf[q] = p /\ HasReservation(q)
          ELSE /\ \A w \in OwnRows(p) \ taken[p] : ~Free(w)
               /\ Locked(q) \cap OwnRows(p) # {}

\* "Stable ordering of all four row locks prevents overspend and deadlocks"
\* (sql_budget.go:54): no set of transactions waits only for itself.
NoDeadlock ==
    \A D \in SUBSET (Calls \cup Candidates) :
        D # {} => \E p \in D : \A q \in D : ~WaitsFor(p, q)

=============================================================================
