-------------------------- MODULE GatewayBudgetProofs --------------------------
(***************************************************************************)
(* For any calls, users, tenants, limits and calendar: no budget window is *)
(* ever overcommitted, and what a window holds is what was reserved in it  *)
(* and not settled.  Without erasures no deadlock is possible.             *)
(* Then the rest of the run MCAccounts, each component for any constants:  *)
(* accounts, sessions and telephone numbers; the second factor of an       *)
(* administrator; what administrators put into force; what they record.    *)
(***************************************************************************)
EXTENDS MCAccounts, FiniteSetTheorems, TLAPS

\* The windows a call reserves, and that hold its amount.
Reserved(c) == {windows[c][i] : i \in 1..4}

\* Row locks exclude each other.
Exclusive ==
    /\ \A c, d \in Calls : c # d => Locked(c) \cap Locked(d) = {}
    /\ \A c \in Calls, u \in Candidates : Locked(c) \cap taken[u] = {}

\* A transaction that reserves has checked every window it has locked.
Checked == \A c \in Calls : pc[c] = "reserve" => \A w \in Locked(c) : Fits(c, w)

\* An erasure takes the rows of its own user only.
TakenOwn == \A u \in Candidates : \A w \in taken[u] : w.key = u

\* Life of a reservation.
Life ==
    \A c \in Calls :
        /\ pc[c] \in {"idle", "reserve"} => reservation[c] = "none"
        /\ reservation[c] = "none" => counted[c] = {}
        /\ reservation[c] = "open" => counted[c] = Reserved(c)
        /\ counted[c] \subseteq rows
        /\ pc[c] = "finish" => cost[c] <= amount[c]
        /\ HasReservation(c) => reservation[c] = "open" /\ cost[c] >= 0

\* A call's windows belong to everybody or to its own scope.
OwnWindows == \A c \in Calls : \A w \in Reserved(c) : w.key \in {"global", ScopeOf[c]}

Finite == \A w \in Windows : IsFiniteSet(Holdings(w))

IInv ==
    /\ TypeOK /\ OwnWindows /\ Exclusive /\ Checked /\ TakenOwn /\ Life
    /\ Finite /\ HeldIsReserved /\ WithinLimits

-----------------------------------------------------------------------------
(* Constants and sets                                                      *)

LEMMA LimitType == \A w \in Windows : Limit(w) \in Nat
BY BudgetAssumption DEF Limit

LEMMA WindowsOfType ==
    ASSUME NEW k \in Candidates \cup Tenants, NEW d \in Days
    PROVE  \A i \in 1..4 : /\ WindowsOf(k, d)[i] \in Windows
                           /\ WindowsOf(k, d)[i].key \in {"global", k}
<1> DEFINE g == Window("global", "day", d)
           h == Window("global", "month", MonthOf[d])
           x == Window(k, "day", d)
           y == Window(k, "month", MonthOf[d])
<1>1. {g, h, x, y} \subseteq Windows
  BY DEF Windows, Keys
<1>2. g.key = "global" /\ h.key = "global" /\ x.key = k /\ y.key = k
  BY DEF Window
<1>3. WindowsOf(k, d) = <<g, h, x, y>>
  BY DEF WindowsOf
<1> HIDE DEF g, h, x, y
<1> QED BY <1>1, <1>2, <1>3

LEMMA ReservedType ==
    ASSUME TypeOK, NEW c \in Calls
    PROVE  /\ Reserved(c) \subseteq Windows
           /\ Locked(c) \subseteq Reserved(c)
           /\ next[c] = 5 /\ pc[c] \in {"reserve", "finish"} => Locked(c) = Reserved(c)
           /\ next[c] \in 1..4 => Now(c) \in Windows /\ Now(c) \in Reserved(c)
<1>1. PICK k \in Candidates \cup Tenants, d \in Days : windows[c] = WindowsOf(k, d)
  BY DEF TypeOK
<1>2. \A i \in 1..4 : windows[c][i] \in Windows
  BY <1>1, WindowsOfType
<1>3. next[c] \in 0..5
  BY DEF TypeOK
<1> QED BY <1>2, <1>3 DEF Reserved, Locked, Order, Now

LEMMA AmountCardinality ==
    ASSUME NEW c, NEW a \in Nat
    PROVE  /\ IsFiniteSet({c} \X (1..a))
           /\ Cardinality({c} \X (1..a)) = a
<1>1. IsFiniteSet(1..a) /\ Cardinality(1..a) = a
  BY FS_Interval
<1>2. IsFiniteSet({c}) /\ Cardinality({c}) = 1
  BY FS_Singleton
<1>3. /\ IsFiniteSet({c} \X (1..a))
      /\ Cardinality({c} \X (1..a)) = Cardinality({c}) * Cardinality(1..a)
  BY <1>1, <1>2, FS_Product, ZenonT(30)
<1> QED BY <1>1, <1>2, <1>3

\* Adding a call to a window's holders adds its amount, removing it removes it.
LEMMA HoldingsAdd ==
    ASSUME NEW H, NEW c, NEW a \in Nat, IsFiniteSet(H), H \cap ({c} \X (1..a)) = {}
    PROVE  /\ IsFiniteSet(H \cup ({c} \X (1..a)))
           /\ Cardinality(H \cup ({c} \X (1..a))) = Cardinality(H) + a
<1> DEFINE P == {c} \X (1..a)
<1>1. IsFiniteSet(P) /\ Cardinality(P) = a
  BY AmountCardinality
<1>2. Cardinality(H \cap P) = 0
  BY FS_EmptySet
<1>3. Cardinality(H) \in Nat
  BY FS_CardinalityType
<1> HIDE DEF P
<1>4. IsFiniteSet(H \cup P) /\ Cardinality(H \cup P) = Cardinality(H) + Cardinality(P) - Cardinality(H \cap P)
  BY <1>1, FS_Union
<1>5. Cardinality(H \cup P) = Cardinality(H) + a
  BY <1>1, <1>2, <1>3, <1>4
<1> QED BY <1>4, <1>5 DEF P

LEMMA HoldingsRemove ==
    ASSUME NEW H, NEW c, NEW a \in Nat, IsFiniteSet(H), {c} \X (1..a) \subseteq H
    PROVE  /\ IsFiniteSet(H \ ({c} \X (1..a)))
           /\ Cardinality(H \ ({c} \X (1..a))) = Cardinality(H) - a
           /\ a <= Cardinality(H)
<1> DEFINE P == {c} \X (1..a)
<1>1. IsFiniteSet(P) /\ Cardinality(P) = a
  BY AmountCardinality
<1>2. H \cap P = P
  OBVIOUS
<1> HIDE DEF P
<1>3. IsFiniteSet(H \ P) /\ Cardinality(H \ P) = Cardinality(H) - Cardinality(H \cap P)
  BY FS_Difference
<1>4. Cardinality(H \cap P) <= Cardinality(H)
  BY FS_Intersection
<1> QED BY <1>1, <1>2, <1>3, <1>4 DEF P

LEMMA HoldingsMembers ==
    ASSUME NEW w
    PROVE  \A x : x \in Holdings(w) <=>
               \E c \in Calls : w \in counted[c] /\ x \in {c} \X (1..amount[c])
BY DEF Holdings

LEMMA AmountType ==
    ASSUME TypeOK, NEW c \in Calls
    PROVE  amount[c] \in Nat
<1>1. Amounts \cup {0} \subseteq Nat
  BY BudgetAssumption
<1>2. amount[c] \in Amounts \cup {0}
  BY DEF TypeOK
<1> QED BY <1>1, <1>2

-----------------------------------------------------------------------------
(* Locks                                                                   *)

LEMMA LockedGrows ==
    ASSUME TypeOK, Exclusive, NEW c \in Calls,
           pc[c] \in {"reserve", "finish"}, next[c] \in 1..4, Free(Now(c)),
           next' = [next EXCEPT ![c] = @ + 1], UNCHANGED <<pc, windows, taken>>
    PROVE  Locked(c)' = Locked(c) \cup {Now(c)} /\ Exclusive'
<1>1. next'[c] = next[c] + 1 /\ \A d \in Calls : d # c => next'[d] = next[d]
  BY DEF TypeOK
<1>2. Locked(c)' = Locked(c) \cup {Now(c)}
  BY <1>1 DEF Locked, Order, Now
<1>3. \A d \in Calls : d # c => Locked(d)' = Locked(d)
  BY <1>1 DEF Locked, Order
<1>4. Exclusive'
  BY <1>2, <1>3 DEF Exclusive, Free
<1> QED BY <1>2, <1>4

LEMMA LockedShrinks ==
    ASSUME Exclusive, \A d \in Calls : Locked(d)' \subseteq Locked(d), UNCHANGED taken
    PROVE  Exclusive'
BY DEF Exclusive

\* Steps that settle nothing and grant nothing.
LEMMA BooksUnchanged ==
    ASSUME TypeOK, Finite, HeldIsReserved, WithinLimits, UNCHANGED <<spent, held, counted>>,
           \A c \in Calls : counted[c] # {} => amount'[c] = amount[c]
    PROVE  Finite' /\ HeldIsReserved' /\ WithinLimits'
<1>1. \A w \in Windows : Holdings(w)' = Holdings(w)
  <2> SUFFICES ASSUME NEW w \in Windows
               PROVE  \A x : x \in Holdings(w)' <=> x \in Holdings(w)
    OBVIOUS
  <2>1. \A x : x \in Holdings(w)' <=>
            \E c \in Calls : w \in counted'[c] /\ x \in {c} \X (1..amount'[c])
    BY DEF Holdings
  <2>2. \A c \in Calls : w \in counted[c] => amount'[c] = amount[c]
    OBVIOUS
  <2> QED BY <2>1, <2>2, HoldingsMembers
<1> QED BY <1>1 DEF Finite, HeldIsReserved, WithinLimits

-----------------------------------------------------------------------------
(* The steps of a call                                                     *)

LEMMA StartReservePreserves ==
    ASSUME IInv, NEW c \in Calls, StartReserve(c)
    PROVE  IInv'
<1> USE DEF IInv
<1>1. /\ TypeOK' /\ windows' = [windows EXCEPT ![c] = WindowsOf(ScopeOf[c], day)]
      /\ pc'[c] = "reserve" /\ next'[c] = 1 /\ UNCHANGED <<books, cost, eraser, day>>
  <2>1. ScopeOf[c] \in Candidates \cup Tenants
    BY BudgetAssumption
  <2> QED BY <2>1 DEF StartReserve, TypeOK, books, eraser
<1>2. OwnWindows'
  <2>1. \A w \in Reserved(c)' : w.key \in {"global", ScopeOf[c]}
    <3>1. ScopeOf[c] \in Candidates \cup Tenants /\ day \in Days
      BY BudgetAssumption DEF TypeOK
    <3>2. \A i \in 1..4 : windows'[c][i].key \in {"global", ScopeOf[c]}
      BY <1>1, <3>1, WindowsOfType DEF TypeOK
    <3> QED BY <3>2 DEF Reserved
  <2>2. \A d \in Calls : d # c => Reserved(d)' = Reserved(d)
    BY <1>1 DEF Reserved, TypeOK
  <2> QED BY <2>1, <2>2 DEF OwnWindows
<1>3. \A d \in Calls : Locked(d)' = IF d = c THEN {} ELSE Locked(d)
  <2>1. Locked(c)' = {}
    BY <1>1 DEF Locked
  <2>2. \A d \in Calls : d # c => Locked(d)' = Locked(d)
    BY DEF StartReserve, TypeOK, Locked, Order
  <2> QED BY <2>1, <2>2
<1>4. Exclusive'
  BY <1>1, <1>3, LockedShrinks DEF eraser
<1>5. Checked'
  BY <1>3 DEF Checked, StartReserve, TypeOK, Fits, books
<1>6. TakenOwn'
  BY <1>1 DEF TakenOwn, eraser
<1>7. reservation[c] = "none" /\ counted[c] = {}
  BY DEF StartReserve, Life
<1>8. Life'
  <2> SUFFICES ASSUME NEW d \in Calls PROVE Life!(d)'
    BY DEF Life
  <2>1. CASE d = c
    BY <1>1, <1>7, <2>1 DEF Life, HasReservation, books
  <2>2. CASE d # c
    BY <2>2 DEF StartReserve, TypeOK, Life, HasReservation, Reserved, books
  <2> QED BY <2>1, <2>2
<1>9. Finite' /\ HeldIsReserved' /\ WithinLimits'
  BY <1>7, BooksUnchanged DEF StartReserve, TypeOK, books
<1> QED BY <1>1, <1>2, <1>4, <1>5, <1>6, <1>8, <1>9

\* Steps of a call that change where it is, and its cost, only.
MovesOnly(c) ==
    /\ UNCHANGED <<day, books, windows, amount, eraser>>
    /\ pc' = [pc EXCEPT ![c] = pc'[c]]
    /\ next' = [next EXCEPT ![c] = next'[c]]
    /\ cost' = [cost EXCEPT ![c] = cost'[c]]

LEMMA MovesOnlyKeeps ==
    ASSUME IInv, NEW c \in Calls, MovesOnly(c), TypeOK', Exclusive', Checked',
           pc'[c] \in {"idle", "reserve"} => pc[c] \in {"idle", "reserve"},
           pc'[c] = "finish" => cost'[c] <= amount[c],
           HasReservation(c)' => reservation[c] = "open" /\ cost'[c] >= 0
    PROVE  IInv'
<1> USE DEF IInv
<1>1. OwnWindows' /\ TakenOwn'
  BY DEF MovesOnly, OwnWindows, Reserved, TakenOwn, eraser
<1>2. Finite' /\ HeldIsReserved' /\ WithinLimits'
  BY BooksUnchanged DEF MovesOnly, books
<1>3. Life'
  <2> SUFFICES ASSUME NEW d \in Calls PROVE Life!(d)'
    BY DEF Life
  <2>1. UNCHANGED <<reservation, counted, rows, amount, Reserved(d)>>
    BY DEF MovesOnly, books, Reserved
  <2>2. CASE d = c
    BY <2>1, <2>2 DEF Life
  <2>3. CASE d # c
    <3>1. pc'[d] = pc[d] /\ next'[d] = next[d] /\ cost'[d] = cost[d]
      BY <2>3 DEF MovesOnly, TypeOK
    <3> QED BY <2>1, <3>1 DEF Life, HasReservation
  <2> QED BY <2>2, <2>3
<1> QED BY <1>1, <1>2, <1>3

LEMMA MovesPreserve ==
    ASSUME IInv, NEW c \in Calls,
           \/ LockWindow(c) \/ ReserveFails(c) \/ Call(c)
           \/ ReadReservation(c) \/ UpdateWindow(c) \/ FinishFails(c)
    PROVE  IInv'
<1> USE DEF IInv
<1>1. MovesOnly(c)
  BY DEF LockWindow, ReserveFails, Call, ReadReservation, UpdateWindow, FinishFails,
     MovesOnly, TypeOK, books
<1>2. TypeOK'
  <2>1. UNCHANGED <<day, books, windows, amount, eraser>> /\ next[c] \in 0..5 /\ amount[c] \in Nat
    BY <1>1, AmountType DEF MovesOnly, TypeOK
  <2>2. next' \in [Calls -> 0..5]
    BY <2>1 DEF LockWindow, ReserveFails, Call, ReadReservation, UpdateWindow, FinishFails, TypeOK
  <2>3. pc' \in [Calls -> {"idle", "reserve", "calling", "finish", "answered", "refused"}]
    BY DEF LockWindow, ReserveFails, Call, ReadReservation, UpdateWindow, FinishFails, TypeOK
  <2>4. cost' \in [Calls -> Int]
    BY <2>1 DEF LockWindow, ReserveFails, Call, ReadReservation, UpdateWindow, FinishFails, TypeOK
  <2> QED BY <2>1, <2>2, <2>3, <2>4 DEF TypeOK, books, eraser
<1>3. \A d \in Calls : d # c => pc'[d] = pc[d] /\ next'[d] = next[d] /\ Locked(d)' = Locked(d)
  <2>1. \A d \in Calls : d # c => pc'[d] = pc[d] /\ next'[d] = next[d]
    BY <1>1 DEF MovesOnly, TypeOK
  <2>2. UNCHANGED windows
    BY <1>1 DEF MovesOnly
  <2> QED BY <2>1, <2>2 DEF Locked, Order
<1>4. \A d \in Calls : \A w : Fits(d, w)' <=> Fits(d, w)
  BY <1>1 DEF MovesOnly, Fits, books
<1>5. CASE LockWindow(c) /\ Fits(c, Now(c))
  <2>1. pc[c] = "reserve" /\ next[c] \in 1..4 /\ Free(Now(c)) /\ UNCHANGED <<pc, windows, taken, cost>>
        /\ next' = [next EXCEPT ![c] = @ + 1]
    BY <1>5 DEF LockWindow, eraser
  <2>2. Locked(c)' = Locked(c) \cup {Now(c)} /\ Exclusive'
    BY <2>1, LockedGrows
  <2>3. Checked'
    <3>1. \A w \in Locked(c)' : Fits(c, w)'
      BY <1>4, <1>5, <2>1, <2>2 DEF Checked
    <3> QED BY <1>3, <1>4, <3>1 DEF Checked
  <2> QED BY <1>1, <1>2, <2>1, <2>2, <2>3, MovesOnlyKeeps DEF HasReservation
<1>6. CASE UpdateWindow(c)
  <2>1. pc[c] = "finish" /\ next[c] \in 1..4 /\ Free(Now(c)) /\ UNCHANGED <<pc, windows, taken, cost>>
        /\ next' = [next EXCEPT ![c] = @ + 1]
    BY <1>6 DEF UpdateWindow, eraser
  <2>2. Locked(c)' = Locked(c) \cup {Now(c)} /\ Exclusive'
    BY <2>1, LockedGrows
  <2>3. Checked'
    BY <1>3, <1>4, <2>1 DEF Checked
  <2>4. HasReservation(c) /\ cost[c] <= amount[c] /\ reservation[c] = "open" /\ cost[c] >= 0
    BY <2>1 DEF HasReservation, Life
  <2> QED BY <1>1, <1>2, <2>1, <2>2, <2>3, <2>4, MovesOnlyKeeps
<1>7. CASE ReadReservation(c)
  <2>1. Locked(c)' = {}
    BY <1>7 DEF ReadReservation, TypeOK, Locked
  <2>2. Exclusive' /\ Checked'
    BY <1>1, <1>3, <1>4, <1>7, <2>1, LockedShrinks DEF MovesOnly, Checked, eraser
  <2>3. pc'[c] \notin {"idle", "reserve"} /\ cost'[c] = cost[c] /\ cost[c] <= amount[c]
    BY <1>7 DEF ReadReservation, TypeOK, Life
  <2>4. HasReservation(c)' => reservation[c] = "open" /\ cost[c] >= 0
    BY <1>7 DEF ReadReservation, TypeOK, HasReservation
  <2> QED BY <1>1, <1>2, <2>2, <2>3, <2>4, MovesOnlyKeeps
<1>8. CASE Call(c)
  <2>1. Locked(c)' = {} /\ pc'[c] = "finish" /\ next'[c] = 0
    BY <1>8 DEF Call, TypeOK, Locked
  <2>2. Exclusive' /\ Checked'
    BY <1>1, <1>3, <1>4, <2>1, LockedShrinks DEF MovesOnly, Checked, eraser
  <2>3. cost'[c] <= amount[c]
    <3>1. amount[c] \in Nat
      BY AmountType
    <3> QED BY <1>8, <3>1 DEF Call, TypeOK
  <2> QED BY <1>1, <1>2, <2>1, <2>2, <2>3, MovesOnlyKeeps DEF HasReservation
<1>9. CASE ReserveFails(c) \/ FinishFails(c) \/ (LockWindow(c) /\ ~Fits(c, Now(c)))
  <2>1. pc'[c] \in {"refused", "answered"} /\ Locked(c)' = {}
    BY <1>9 DEF ReserveFails, FinishFails, LockWindow, TypeOK, Locked
  <2>2. Exclusive' /\ Checked'
    BY <1>1, <1>3, <1>4, <2>1, LockedShrinks DEF MovesOnly, Checked, eraser
  <2> QED BY <1>1, <1>2, <2>1, <2>2, MovesOnlyKeeps DEF HasReservation
<1> QED BY <1>5, <1>6, <1>7, <1>8, <1>9

LEMMA GrantPreserves ==
    ASSUME IInv, NEW c \in Calls, Grant(c)
    PROVE  IInv'
<1> USE DEF IInv
<1>1. /\ Locked(c) = Reserved(c) /\ Reserved(c) \subseteq Windows /\ amount[c] \in Nat
      /\ pc[c] = "reserve" /\ reservation[c] = "none" /\ counted[c] = {}
  BY ReservedType, AmountType DEF Grant, Life
<1>2. /\ rows' = rows \cup Reserved(c)
      /\ held' = [w \in Windows |-> IF w \in Reserved(c) THEN held[w] + amount[c] ELSE held[w]]
      /\ counted' = [counted EXCEPT ![c] = Reserved(c)]
      /\ reservation' = [reservation EXCEPT ![c] = "open"]
      /\ pc'[c] \in {"calling", "refused"} /\ \A d \in Calls : d # c => pc'[d] = pc[d]
      /\ UNCHANGED <<day, spent, next, windows, amount, cost, erasure, taken>>
  BY DEF Grant, Reserved, TypeOK, eraser
<1>3. TypeOK'
  <2>1. held' \in [Windows -> Nat]
    BY <1>1, <1>2 DEF TypeOK
  <2>2. pc' \in [Calls -> {"idle", "reserve", "calling", "finish", "answered", "refused"}]
    BY DEF Grant, TypeOK
  <2>3. counted' \in [Calls -> SUBSET Windows]
    BY <1>1, <1>2 DEF TypeOK
  <2>4. rows' \subseteq Windows /\ taken' \in [Candidates -> SUBSET rows']
    BY <1>1, <1>2 DEF TypeOK
  <2> QED BY <1>2, <2>1, <2>2, <2>3, <2>4 DEF TypeOK
<1>4. OwnWindows' /\ TakenOwn'
  BY <1>2 DEF OwnWindows, TakenOwn, Reserved
<1>5. Locked(c)' = {} /\ \A d \in Calls : d # c => Locked(d)' = Locked(d)
  BY <1>2 DEF Locked, Order
<1>6. Exclusive'
  BY <1>2, <1>5, LockedShrinks
<1>7. Checked'
  <2> SUFFICES ASSUME NEW d \in Calls, pc'[d] = "reserve", NEW w \in Locked(d)'
               PROVE  Fits(d, w)'
    BY DEF Checked
  <2>1. d # c /\ pc[d] = "reserve" /\ w \in Locked(d)
    BY <1>2, <1>5
  <2>2. w \in Windows /\ w \notin Reserved(c)
    BY <1>1, <2>1, ReservedType DEF Exclusive
  <2> QED BY <1>2, <2>1, <2>2 DEF Checked, Fits
<1>8. Life'
  <2> SUFFICES ASSUME NEW d \in Calls PROVE Life!(d)'
    BY DEF Life
  <2>1. UNCHANGED <<Reserved(d), next, cost, amount>>
    BY <1>2 DEF Reserved
  <2>2. CASE d = c
    <3>1. counted'[d] = Reserved(d)' /\ reservation'[d] = "open"
      BY <1>2, <2>1, <2>2 DEF TypeOK
    <3> QED BY <1>2, <2>1, <2>2, <3>1 DEF HasReservation
  <2>3. CASE d # c
    <3>1. pc'[d] = pc[d] /\ reservation'[d] = reservation[d] /\ counted'[d] = counted[d]
      BY <1>2, <2>3 DEF TypeOK
    <3> QED BY <1>2, <2>1, <3>1 DEF Life, HasReservation
  <2> QED BY <2>2, <2>3
<1>9. ASSUME NEW w \in Windows
      PROVE  /\ IsFiniteSet(Holdings(w)') /\ held'[w] = Cardinality(Holdings(w)')
             /\ spent'[w] + held'[w] <= Limit(w)
  <2>1. IsFiniteSet(Holdings(w)) /\ held[w] = Cardinality(Holdings(w)) /\ spent[w] + held[w] <= Limit(w)
    BY <1>9 DEF Finite, HeldIsReserved, WithinLimits
  <2>2. \A x : x \in Holdings(w)' <=>
           \E d \in Calls : w \in counted'[d] /\ x \in {d} \X (1..amount[d])
    BY <1>2 DEF Holdings
  <2>3. CASE w \in Reserved(c)
    <3>1. \A d \in Calls : w \in counted'[d] <=> d = c \/ w \in counted[d]
      BY <1>2, <2>3 DEF TypeOK
    <3>2. Holdings(w)' = Holdings(w) \cup ({c} \X (1..amount[c]))
      BY <2>2, <3>1, HoldingsMembers
    <3>3. Holdings(w) \cap ({c} \X (1..amount[c])) = {}
      BY <1>1, HoldingsMembers
    <3>4. /\ IsFiniteSet(Holdings(w)')
          /\ Cardinality(Holdings(w)') = Cardinality(Holdings(w)) + amount[c]
      <4> DEFINE H == Holdings(w)
                 a == amount[c]
                 P == {c} \X (1..a)
      <4>1. IsFiniteSet(H) /\ a \in Nat /\ H \cap P = {}
        BY <1>1, <2>1, <3>3
      <4> HIDE DEF H, a
      <4>2. IsFiniteSet(H \cup P) /\ Cardinality(H \cup P) = Cardinality(H) + a
        BY <4>1, HoldingsAdd, ZenonT(30)
      <4> QED BY <3>2, <4>2 DEF H, a
    <3>5. spent[w] + held[w] + amount[c] <= Limit(w)
      BY <1>1, <2>3 DEF Checked, Fits
    <3>6. held'[w] = held[w] + amount[c] /\ spent'[w] = spent[w] /\ spent[w] \in Nat /\ held[w] \in Nat
      BY <1>2, <2>3 DEF TypeOK
    <3>7. held'[w] = Cardinality(Holdings(w)')
      BY <2>1, <3>4, <3>6
    <3>8. spent'[w] + held'[w] <= Limit(w)
      BY <1>1, <3>5, <3>6, LimitType
    <3> QED BY <3>4, <3>7, <3>8
  <2>4. CASE w \notin Reserved(c)
    <3>1. \A d \in Calls : w \in counted'[d] <=> w \in counted[d]
      BY <1>1, <1>2, <2>4 DEF TypeOK
    <3>2. Holdings(w)' = Holdings(w)
      BY <2>2, <3>1, HoldingsMembers
    <3>3. held'[w] = held[w] /\ spent'[w] = spent[w]
      BY <1>2, <2>4
    <3> QED BY <2>1, <3>2, <3>3
  <2> QED BY <2>3, <2>4
<1>10. Finite' /\ HeldIsReserved' /\ WithinLimits'
  BY <1>9 DEF Finite, HeldIsReserved, WithinLimits, Limit
<1> QED BY <1>3, <1>4, <1>6, <1>7, <1>8, <1>10

LEMMA SettlePreserves ==
    ASSUME IInv, NEW c \in Calls, Settle(c)
    PROVE  IInv'
<1> USE DEF IInv
<1>1. /\ Locked(c) = Reserved(c) /\ Reserved(c) \subseteq Windows /\ amount[c] \in Nat
      /\ reservation[c] = "open" /\ counted[c] = Reserved(c) /\ Reserved(c) \subseteq rows
      /\ cost[c] \in Int /\ cost[c] >= 0 /\ cost[c] <= amount[c]
  BY ReservedType, AmountType DEF Settle, Life, HasReservation, TypeOK
<1>2. /\ held' = [w \in Windows |-> IF w \in Reserved(c) THEN Less(held[w], amount[c]) ELSE held[w]]
      /\ spent' = [w \in Windows |-> IF w \in Reserved(c) THEN spent[w] + cost[c] ELSE spent[w]]
      /\ counted' = [counted EXCEPT ![c] = {}]
      /\ reservation' = [reservation EXCEPT ![c] = "finalized"]
      /\ pc'[c] = "answered" /\ \A d \in Calls : d # c => pc'[d] = pc[d]
      /\ UNCHANGED <<day, rows, next, windows, amount, cost, erasure, taken>>
  <2>1. Reserved(c) \cap rows = Reserved(c)
    BY <1>1
  <2> QED BY <2>1 DEF Settle, Reserved, TypeOK, eraser
<1>3. TypeOK'
  <2>1. held' \in [Windows -> Nat] /\ spent' \in [Windows -> Nat]
    BY <1>1, <1>2 DEF TypeOK, Less
  <2>2. pc' \in [Calls -> {"idle", "reserve", "calling", "finish", "answered", "refused"}]
    BY DEF Settle, TypeOK
  <2>3. counted' \in [Calls -> SUBSET Windows]
    BY <1>2 DEF TypeOK
  <2> QED BY <1>2, <2>1, <2>2, <2>3 DEF TypeOK
<1>4. OwnWindows' /\ TakenOwn'
  BY <1>2 DEF OwnWindows, TakenOwn, Reserved
<1>5. Locked(c)' = {} /\ \A d \in Calls : d # c => Locked(d)' = Locked(d)
  BY <1>2 DEF Locked, Order
<1>6. Exclusive'
  BY <1>2, <1>5, LockedShrinks
<1>7. Checked'
  <2> SUFFICES ASSUME NEW d \in Calls, pc'[d] = "reserve", NEW w \in Locked(d)'
               PROVE  Fits(d, w)'
    BY DEF Checked
  <2>1. d # c /\ pc[d] = "reserve" /\ w \in Locked(d)
    BY <1>2, <1>5
  <2>2. w \in Windows /\ w \notin Reserved(c)
    BY <1>1, <2>1, ReservedType DEF Exclusive
  <2> QED BY <1>2, <2>1, <2>2 DEF Checked, Fits
<1>8. Life'
  <2> SUFFICES ASSUME NEW d \in Calls PROVE Life!(d)'
    BY DEF Life
  <2>1. UNCHANGED <<Reserved(d), next, cost, amount, rows>>
    BY <1>2 DEF Reserved
  <2>2. CASE d = c
    BY <1>2, <2>2 DEF HasReservation, TypeOK
  <2>3. CASE d # c
    <3>1. pc'[d] = pc[d] /\ reservation'[d] = reservation[d] /\ counted'[d] = counted[d]
      BY <1>2, <2>3 DEF TypeOK
    <3> QED BY <2>1, <3>1 DEF Life, HasReservation
  <2> QED BY <2>2, <2>3
<1>9. ASSUME NEW w \in Windows
      PROVE  /\ IsFiniteSet(Holdings(w)') /\ held'[w] = Cardinality(Holdings(w)')
             /\ spent'[w] + held'[w] <= Limit(w)
  <2>1. IsFiniteSet(Holdings(w)) /\ held[w] = Cardinality(Holdings(w)) /\ spent[w] + held[w] <= Limit(w)
    BY <1>9 DEF Finite, HeldIsReserved, WithinLimits
  <2>2. \A x : x \in Holdings(w)' <=>
           \E d \in Calls : w \in counted'[d] /\ x \in {d} \X (1..amount[d])
    BY <1>2 DEF Holdings
  <2>3. CASE w \in Reserved(c)
    <3>1. \A d \in Calls : w \in counted'[d] <=> d # c /\ w \in counted[d]
      BY <1>2, <2>3 DEF TypeOK
    <3>2. Holdings(w)' = Holdings(w) \ ({c} \X (1..amount[c]))
      BY <2>2, <3>1, HoldingsMembers
    <3>3. {c} \X (1..amount[c]) \subseteq Holdings(w)
      BY <1>1, <2>3, HoldingsMembers
    <3>4. /\ IsFiniteSet(Holdings(w)')
          /\ Cardinality(Holdings(w)') = Cardinality(Holdings(w)) - amount[c]
          /\ amount[c] <= Cardinality(Holdings(w))
      <4> DEFINE H == Holdings(w)
                 a == amount[c]
                 P == {c} \X (1..a)
      <4>1. IsFiniteSet(H) /\ a \in Nat /\ P \subseteq H
        BY <1>1, <2>1, <3>3
      <4> HIDE DEF H, a
      <4>2. IsFiniteSet(H \ P) /\ Cardinality(H \ P) = Cardinality(H) - a /\ a <= Cardinality(H)
        BY <4>1, HoldingsRemove, ZenonT(30)
      <4> QED BY <3>2, <4>2 DEF H, a
    <3>5. spent[w] \in Nat /\ held[w] \in Nat
      BY DEF TypeOK
    <3>6. held'[w] = held[w] - amount[c] /\ spent'[w] = spent[w] + cost[c]
      BY <1>1, <1>2, <2>1, <2>3, <3>4, <3>5 DEF Less
    <3>7. held'[w] = Cardinality(Holdings(w)')
      BY <2>1, <3>4, <3>6
    <3>8. spent'[w] + held'[w] <= Limit(w)
      BY <1>1, <2>1, <3>5, <3>6, LimitType
    <3> QED BY <3>4, <3>7, <3>8
  <2>4. CASE w \notin Reserved(c)
    <3>1. \A d \in Calls : w \in counted'[d] <=> w \in counted[d]
      BY <1>1, <1>2, <2>4 DEF TypeOK
    <3>2. Holdings(w)' = Holdings(w)
      BY <2>2, <3>1, HoldingsMembers
    <3>3. held'[w] = held[w] /\ spent'[w] = spent[w]
      BY <1>2, <2>4
    <3> QED BY <2>1, <3>2, <3>3
  <2> QED BY <2>3, <2>4
<1>10. Finite' /\ HeldIsReserved' /\ WithinLimits'
  BY <1>9 DEF Finite, HeldIsReserved, WithinLimits, Limit
<1> QED BY <1>3, <1>4, <1>6, <1>7, <1>8, <1>10

-----------------------------------------------------------------------------
(* The steps of an erasure                                                 *)

\* Starting, deleting a row, giving up: only locks change.
LEMMA ErasingPreserves ==
    ASSUME IInv, NEW u \in Candidates, StartErasure(u) \/ DeleteWindow(u) \/ ErasureFails(u)
    PROVE  IInv'
<1> USE DEF IInv
<1>1. UNCHANGED <<day, books, call>>
  BY DEF StartErasure, DeleteWindow, ErasureFails
<1>2. TypeOK' /\ TakenOwn'
  BY <1>1 DEF StartErasure, DeleteWindow, ErasureFails, TypeOK, TakenOwn, OwnRows, books, call
<1>3. Exclusive'
  <2>1. \A c \in Calls : Locked(c)' = Locked(c)
    BY <1>1 DEF Locked, Order, call
  <2>2. \A v \in Candidates : \A w \in taken'[v] : w \in taken[v] \/ Free(w)
    BY DEF StartErasure, DeleteWindow, ErasureFails, TypeOK
  <2> QED BY <2>1, <2>2 DEF Exclusive, Free
<1>4. OwnWindows' /\ Checked' /\ Life'
  BY <1>1 DEF OwnWindows, Reserved, Checked, Fits, Life, Locked, Order, HasReservation, books, call
<1>5. Finite' /\ HeldIsReserved' /\ WithinLimits'
  BY <1>1, BooksUnchanged DEF books, call
<1> QED BY <1>2, <1>3, <1>4, <1>5

LEMMA CommitErasurePreserves ==
    ASSUME IInv, NEW u \in Candidates, CommitErasure(u)
    PROVE  IInv'
<1> USE DEF IInv
<1>1. /\ rows' = rows \ taken[u]
      /\ spent' = [w \in Windows |-> IF w \in taken[u] THEN 0 ELSE spent[w]]
      /\ held' = [w \in Windows |-> IF w \in taken[u] THEN 0 ELSE held[w]]
      /\ counted' = [c \in Calls |-> counted[c] \ taken[u]]
      /\ \A c \in Calls : reservation'[c] =
            IF UserOf[c] = u /\ reservation[c] # "none" THEN "erased" ELSE reservation[c]
      /\ taken' = [taken EXCEPT ![u] = {}]
      /\ UNCHANGED <<day, pc, next, windows, amount, cost>>
  BY DEF CommitErasure, call
<1>2. TypeOK'
  <2>1. spent' \in [Windows -> Nat] /\ held' \in [Windows -> Nat]
    BY <1>1 DEF TypeOK
  <2>2. rows' \subseteq Windows /\ counted' \in [Calls -> SUBSET Windows]
    BY <1>1 DEF TypeOK
  <2>3. taken' \in [Candidates -> SUBSET rows']
    <3> SUFFICES ASSUME NEW v \in Candidates PROVE taken'[v] \subseteq rows'
      BY <1>1 DEF TypeOK
    <3>1. CASE v = u
      BY <1>1, <3>1 DEF TypeOK
    <3>2. CASE v # u
      BY <1>1, <3>2 DEF TypeOK, TakenOwn
    <3> QED BY <3>1, <3>2
  <2>4. /\ reservation' \in [Calls -> {"none", "open", "finalized", "erased"}]
        /\ erasure' \in [Candidates -> {"none", "windows", "done"}]
    BY DEF CommitErasure, TypeOK
  <2> QED BY <1>1, <2>1, <2>2, <2>3, <2>4 DEF TypeOK
<1>3. OwnWindows' /\ TakenOwn'
  BY <1>1 DEF OwnWindows, Reserved, TakenOwn, TypeOK
<1>4. \A c \in Calls : Locked(c)' = Locked(c)
  BY <1>1 DEF Locked, Order
<1>5. Exclusive'
  BY <1>1, <1>4 DEF Exclusive, TypeOK
<1>6. Checked'
  <2> SUFFICES ASSUME NEW c \in Calls, pc[c] = "reserve", NEW w \in Locked(c)
               PROVE  Fits(c, w)'
    BY <1>1, <1>4 DEF Checked
  <2>1. w \in Windows /\ w \notin taken[u]
    BY ReservedType DEF Exclusive
  <2> QED BY <1>1, <2>1 DEF Checked, Fits
<1>7. Life'
  <2> SUFFICES ASSUME NEW c \in Calls PROVE Life!(c)'
    BY DEF Life
  <2>1. UNCHANGED <<Reserved(c), pc, next, amount, cost>>
    BY <1>1 DEF Reserved
  <2>2. counted'[c] = counted[c] \ taken[u] /\ counted'[c] \subseteq rows'
    BY <1>1 DEF Life
  <2>3. reservation[c] = "none" <=> reservation'[c] = "none"
    BY <1>1
  <2>4. reservation'[c] = "open" => reservation[c] = "open" /\ UserOf[c] # u
    BY <1>1
  <2>5. UserOf[c] # u => Reserved(c) \cap taken[u] = {}
    BY BudgetAssumption DEF OwnWindows, TakenOwn
  <2>6. HasReservation(c) => UserOf[c] # u /\ reservation[c] = "open" /\ reservation'[c] = "open"
    BY <1>1 DEF CommitErasure, Life
  <2> QED BY <2>1, <2>2, <2>3, <2>4, <2>5, <2>6 DEF Life, HasReservation
<1>8. ASSUME NEW w \in Windows
      PROVE  /\ IsFiniteSet(Holdings(w)') /\ held'[w] = Cardinality(Holdings(w)')
             /\ spent'[w] + held'[w] <= Limit(w)
  <2>1. IsFiniteSet(Holdings(w)) /\ held[w] = Cardinality(Holdings(w)) /\ spent[w] + held[w] <= Limit(w)
    BY <1>8 DEF Finite, HeldIsReserved, WithinLimits
  <2>2. \A x : x \in Holdings(w)' <=>
           \E c \in Calls : w \in counted'[c] /\ x \in {c} \X (1..amount[c])
    BY <1>1 DEF Holdings
  <2>3. CASE w \in taken[u]
    <3>1. Holdings(w)' = {}
      BY <1>1, <2>2, <2>3
    <3>2. IsFiniteSet(Holdings(w)') /\ Cardinality(Holdings(w)') = 0
      BY <3>1, FS_EmptySet
    <3>3. held'[w] = 0 /\ spent'[w] = 0
      BY <1>1, <2>3
    <3> QED BY <3>2, <3>3, LimitType
  <2>4. CASE w \notin taken[u]
    <3>1. Holdings(w)' = Holdings(w)
      BY <1>1, <2>2, <2>4, HoldingsMembers
    <3>2. held'[w] = held[w] /\ spent'[w] = spent[w]
      BY <1>1, <2>4
    <3> QED BY <2>1, <3>1, <3>2
  <2> QED BY <2>3, <2>4
<1>9. Finite' /\ HeldIsReserved' /\ WithinLimits'
  BY <1>8 DEF Finite, HeldIsReserved, WithinLimits, Limit
<1> QED BY <1>2, <1>3, <1>5, <1>6, <1>7, <1>9

-----------------------------------------------------------------------------
LEMMA InitHolds == Init => IInv
<1> SUFFICES ASSUME Init PROVE IInv
  OBVIOUS
<1>1. TypeOK
  <2>1. 0 \in Days /\ \A c \in Calls : ScopeOf[c] \in Candidates \cup Tenants
    BY BudgetAssumption DEF Days
  <2> QED BY <2>1 DEF Init, TypeOK
<1>2. OwnWindows
  <2> SUFFICES ASSUME NEW c \in Calls, NEW i \in 1..4
               PROVE  windows[c][i].key \in {"global", ScopeOf[c]}
    BY DEF OwnWindows, Reserved
  <2>1. 0 \in Days /\ ScopeOf[c] \in Candidates \cup Tenants /\ windows[c] = WindowsOf(ScopeOf[c], 0)
    BY BudgetAssumption DEF Init, Days
  <2> QED BY <2>1, WindowsOfType
<1>3. Exclusive /\ Checked /\ TakenOwn
  BY DEF Init, Exclusive, Checked, TakenOwn, Locked
<1>4. Life
  BY DEF Init, Life, HasReservation
<1>5. \A w \in Windows : Holdings(w) = {}
  BY DEF Init, Holdings
<1>6. Finite /\ HeldIsReserved
  BY <1>5, FS_EmptySet DEF Init, Finite, HeldIsReserved
<1>7. WithinLimits
  BY LimitType DEF Init, WithinLimits
<1> QED BY <1>1, <1>2, <1>3, <1>4, <1>6, <1>7 DEF IInv

LEMMA NextPreserves == IInv /\ [Next]_vars => IInv'
<1> SUFFICES ASSUME IInv, [Next]_vars PROVE IInv'
  OBVIOUS
<1>1. ASSUME NEW c \in Calls, CallStep(c) PROVE IInv'
  BY <1>1, StartReservePreserves, GrantPreserves, SettlePreserves, MovesPreserve DEF CallStep
<1>2. ASSUME NEW u \in Candidates, EraserStep(u) PROVE IInv'
  BY <1>2, ErasingPreserves, CommitErasurePreserves DEF EraserStep
<1>3. CASE NextDay \/ UNCHANGED vars
  <2>1. UNCHANGED <<books, call, eraser>> /\ day' \in Days
    BY <1>3, BudgetAssumption DEF NextDay, vars, IInv, TypeOK, Days
  <2>2. TypeOK' /\ TakenOwn' /\ OwnWindows'
    BY <2>1 DEF IInv, TypeOK, TakenOwn, OwnWindows, Reserved, books, call, eraser
  <2>4. Exclusive' /\ Checked'
    <3>1. \A c \in Calls : Locked(c)' = Locked(c)
      BY <2>1 DEF Locked, Order, books, call, eraser
    <3>2. \A c \in Calls : \A w : Fits(c, w)' <=> Fits(c, w)
      BY <2>1 DEF Fits, books, call
    <3>3. Exclusive'
      BY <2>1, <3>1 DEF IInv, Exclusive, eraser
    <3>4. Checked'
      BY <2>1, <3>1, <3>2 DEF IInv, Checked, call
    <3> QED BY <3>3, <3>4
  <2>5. Life'
    BY <2>1 DEF IInv, Life, Reserved, HasReservation, books, call, eraser
  <2>3. Finite' /\ HeldIsReserved' /\ WithinLimits'
    BY <2>1, BooksUnchanged DEF IInv, books, call
  <2> QED BY <2>2, <2>3, <2>4, <2>5 DEF IInv
<1> QED BY <1>1, <1>2, <1>3 DEF Next

\* Every window's books agree with the reservations, locks exclude, checks
\* stay true until the commit: inductive for any calls and calendar.
THEOREM BudgetInvariant == Spec => []IInv
<1>1. IInv /\ [Next]_vars => IInv'
  BY NextPreserves
<1> QED BY <1>1, InitHolds, PTL DEF Spec

\* The budget is never overcommitted, for any number of concurrent calls.
THEOREM NeverOvercommitted == Spec => []WithinLimits
BY BudgetInvariant, PTL DEF IInv

\* What a window holds is what was reserved in it and not settled.
THEOREM HoldsWhatIsReserved == Spec => []HeldIsReserved
BY BudgetInvariant, PTL DEF IInv

-----------------------------------------------------------------------------
(* Deadlocks                                                               *)

\* Where a window stands in the lock order.
Rank(w) == IF w.key = "global" THEN IF w.period = "day" THEN 1 ELSE 2
           ELSE IF w.period = "day" THEN 3 ELSE 4

NoErasure == \A u \in Candidates : erasure[u] = "none" /\ taken[u] = {}

\* The window a call locks next is the one of that rank.
Ordered == \A c \in Calls : \A i \in 1..4 : Rank(windows[c][i]) = i

\* A call waits only for calls that are further along.
LEMMA WaitsForLater ==
    ASSUME TypeOK, NoErasure, Ordered, NEW p \in Calls, NEW q \in Calls \cup Candidates, WaitsFor(p, q)
    PROVE  /\ q \in Calls
           /\ next[p] \in 1..4 /\ next[q] \in 0..5 /\ next[p] < next[q]
<1>1. ~Erasing(p) /\ ~Erasing(q)
  BY DEF NoErasure, Erasing
<1>2. /\ next[p] \in 1..4
      /\ q \in Calls \ {p} /\ Now(p) \in Locked(q)
  BY <1>1 DEF WaitsFor, NoErasure
<1>3. PICK i \in 1..(next[q] - 1) : windows[p][next[p]] = windows[q][i]
  BY <1>2 DEF Now, Locked, Order
<1>4. next[q] \in 0..5
  BY <1>2 DEF TypeOK
<1>5. i \in 1..4
  BY <1>4
<1>6. Rank(windows[p][next[p]]) = next[p] /\ Rank(windows[q][i]) = i
  BY <1>2, <1>5 DEF Ordered
<1> QED BY <1>2, <1>3, <1>4, <1>6

\* An erasure that does not run waits for nobody.
LEMMA IdleErasureWaits ==
    ASSUME NoErasure, NEW u \in Candidates, NEW q
    PROVE  ~WaitsFor(u, q)
BY BudgetAssumption DEF NoErasure, Erasing, WaitsFor

LEMMA NoSetWaits == TypeOK /\ NoErasure /\ Ordered => NoDeadlock
<1> SUFFICES ASSUME TypeOK, NoErasure, Ordered,
                    NEW D \in SUBSET (Calls \cup Candidates), D # {},
                    \A p \in D : \E q \in D : WaitsFor(p, q)
             PROVE  FALSE
  BY DEF NoDeadlock
<1>1. \A p \in D : p \in Calls
  BY IdleErasureWaits
<1>2. \A p \in D : \E q \in D : next[p] \in 1..4 /\ next[q] \in 0..5 /\ next[p] < next[q]
  BY <1>1, WaitsForLater
<1>3. \A p \in D : next[p] \in 1..4
  BY <1>2
<1>4. \A p \in D : next[p] # 4
  <2> SUFFICES ASSUME NEW p \in D, next[p] = 4 PROVE FALSE
    OBVIOUS
  <2>1. PICK q \in D : next[q] \in 0..5 /\ next[p] < next[q]
    BY <1>2
  <2>2. next[q] \in 1..4
    BY <1>3
  <2> QED BY <2>1, <2>2
<1>5. \A p \in D : next[p] # 3
  <2> SUFFICES ASSUME NEW p \in D, next[p] = 3 PROVE FALSE
    OBVIOUS
  <2>1. PICK q \in D : next[q] \in 0..5 /\ next[p] < next[q]
    BY <1>2
  <2>2. next[q] \in 1..4 /\ next[q] # 4
    BY <1>3, <1>4
  <2> QED BY <2>1, <2>2
<1>6. \A p \in D : next[p] # 2
  <2> SUFFICES ASSUME NEW p \in D, next[p] = 2 PROVE FALSE
    OBVIOUS
  <2>1. PICK q \in D : next[q] \in 0..5 /\ next[p] < next[q]
    BY <1>2
  <2>2. next[q] \in 1..4 /\ next[q] # 4 /\ next[q] # 3
    BY <1>3, <1>4, <1>5
  <2> QED BY <2>1, <2>2
<1>7. \A p \in D : next[p] # 1
  <2> SUFFICES ASSUME NEW p \in D, next[p] = 1 PROVE FALSE
    OBVIOUS
  <2>1. PICK q \in D : next[q] \in 0..5 /\ next[p] < next[q]
    BY <1>2
  <2>2. next[q] \in 1..4 /\ next[q] # 4 /\ next[q] # 3 /\ next[q] # 2
    BY <1>3, <1>4, <1>5, <1>6
  <2> QED BY <2>1, <2>2
<1> QED BY <1>3, <1>4, <1>5, <1>6, <1>7

LEMMA WindowsOfRanks ==
    ASSUME NEW k \in Candidates \cup Tenants, NEW d \in Days
    PROVE  \A i \in 1..4 : Rank(WindowsOf(k, d)[i]) = i
<1>1. k # "global"
  BY BudgetAssumption
<1>2. /\ Rank(Window("global", "day", d)) = 1 /\ Rank(Window("global", "month", MonthOf[d])) = 2
      /\ Rank(Window(k, "day", d)) = 3 /\ Rank(Window(k, "month", MonthOf[d])) = 4
  BY <1>1 DEF Rank, Window
<1>3. /\ WindowsOf(k, d)[1] = Window("global", "day", d)
      /\ WindowsOf(k, d)[2] = Window("global", "month", MonthOf[d])
      /\ WindowsOf(k, d)[3] = Window(k, "day", d)
      /\ WindowsOf(k, d)[4] = Window(k, "month", MonthOf[d])
  BY DEF WindowsOf
<1> QED BY <1>2, <1>3

LEMMA TypeIsOrdered == TypeOK => Ordered
<1> SUFFICES ASSUME TypeOK, NEW c \in Calls
             PROVE  \A i \in 1..4 : Rank(windows[c][i]) = i
  BY DEF Ordered
<1>1. PICK k \in Candidates \cup Tenants, d \in Days : windows[c] = WindowsOf(k, d)
  BY DEF TypeOK
<1> QED BY <1>1, WindowsOfRanks

\* Without erasures the four row locks never deadlock, for any number of calls.
THEOREM CallsNeverDeadlock == SpecOfCalls => []NoDeadlock
<1>1. Init => IInv /\ NoErasure
  BY InitHolds DEF Init, NoErasure
<1>2. IInv /\ NoErasure /\ [NextDay \/ \E c \in Calls : CallStep(c)]_vars => IInv' /\ NoErasure'
  <2> SUFFICES ASSUME IInv, NoErasure, [NextDay \/ \E c \in Calls : CallStep(c)]_vars
               PROVE  IInv' /\ NoErasure'
    OBVIOUS
  <2>1. IInv'
    BY NextPreserves DEF Next
  <2>2. UNCHANGED eraser
    BY DEF NextDay, CallStep, StartReserve, LockWindow, Grant, ReserveFails, Call,
       ReadReservation, UpdateWindow, Settle, FinishFails, vars
  <2> QED BY <2>1, <2>2 DEF NoErasure, eraser
<1>3. IInv /\ NoErasure => NoDeadlock
  BY TypeIsOrdered, NoSetWaits DEF IInv
<1> QED BY <1>1, <1>2, <1>3, PTL DEF SpecOfCalls

-----------------------------------------------------------------------------
(* Accounts, their sessions and their telephone numbers                    *)

Account ==
    [status : {"pending", "active", "suspended", "disabled", "erased"},
     verified : BOOLEAN, forced : BOOLEAN, password : Nat,
     profile : {"none", "pending", "verified", "rejected"}]
Session == [owner : People, password : Nat, root : Sessions, live : BOOLEAN]
Found == [owner : People, password : Nat]
Text ==
    [owner : People, number : Numbers, sending : BOOLEAN, sent : BOOLEAN, good : BOOLEAN,
     lapsed : BOOLEAN, tries : Nat]

AccountTypes ==
    /\ account \in [People -> Account \cup {None}]
    /\ review \in [People -> {"pending", "approved", "rejected", None}]
    /\ session \in [Sessions -> Session \cup {None}]
    /\ login \in [LoginRequests -> Found \cup {None}]
    /\ texts \in Seq(Text)

\* What an account may be while the companies V are verified: only a recruiter has a
\* profile, and waiting is for who lacks something.
ProfileFits(u, a, V) ==
    /\ u \in RecruiterAccounts =>
          a.profile # "none" /\ (a.profile = "verified" => CompanyOf[u] \in V)
    /\ u \notin RecruiterAccounts => a.profile = "none"

IsEarned(a) == a.verified /\ a.profile \in {"none", "verified"}

Deserved(u, a, V) ==
    /\ ProfileFits(u, a, V)
    /\ a.status = "active" => IsEarned(a)
    /\ a.status = "pending" => ~IsEarned(a)

AccountsDeserved == \A u \in People : account[u] # None => Deserved(u, account[u], verified)

\* Only recruiters that are registered are reviewed.
ReviewsKnown ==
    \A u \in People : review[u] = "pending" => u \in RecruiterAccounts /\ account[u] # None

\* The session a login began with is still a row.
RootsExist ==
    \A s, t \in Sessions : session[s] # None /\ t = session[s].root => session[t] # None

\* The account may log in.
Lets(u, a) ==
    /\ a.status = "active" /\ ~a.forced /\ a.verified
    /\ u \in RecruiterAccounts => a.profile = "verified"

LiveAreCurrent ==
    \A s \in Sessions : session[s] # None /\ session[s].live =>
        /\ \A u \in People : u = session[s].owner =>
              account[u] # None /\ Lets(u, account[u]) /\ session[s].password = account[u].password
        /\ \A t \in Sessions \ {s} :
              session[t] # None /\ session[t].root = session[s].root => ~session[t].live

AccountInv ==
    AccountTypes /\ AccountsDeserved /\ ReviewsKnown /\ RootsExist /\ LiveAreCurrent /\ A!LastTextCounts

LEMMA NoneIsNoAccount == None \notin Account /\ None \notin Session
BY AccountsAssumption DEF Account, Session

LEMMA AccountsStart == A!Init => AccountInv
<1> SUFFICES ASSUME A!Init PROVE AccountInv
  OBVIOUS
<1>1. AccountTypes
  BY DEF A!Init, AccountTypes
<1>2. AccountsDeserved /\ ReviewsKnown /\ RootsExist /\ LiveAreCurrent
  BY AccountsAssumption DEF A!Init, AccountsDeserved, ReviewsKnown, RootsExist, LiveAreCurrent
<1>3. DOMAIN <<>> = {}
  <2>1. Len(<<>>) = 0 /\ <<>> \in Seq(Text) /\ \A s \in Seq(Text) : DOMAIN s = 1..Len(s)
    OBVIOUS
  <2> QED BY <2>1
<1>4. A!LastTextCounts
  BY <1>3 DEF A!Init, A!LastTextCounts
<1> QED BY <1>1, <1>2, <1>4 DEF AccountInv

LEMMA EligibleLets ==
    ASSUME AccountTypes
    PROVE  \A u \in People : A!Eligible(u) <=> account[u] # None /\ Lets(u, account[u])
BY DEF AccountTypes, Account, A!Eligible, A!Kept, A!Known, Lets

LEMMA AccountsNow == AccountInv => A!ActiveIsEarned /\ A!SessionsAreCurrent /\ A!LastTextCounts
<1> SUFFICES ASSUME AccountInv PROVE A!ActiveIsEarned /\ A!SessionsAreCurrent
  BY DEF AccountInv
<1>1. A!ActiveIsEarned
  BY DEF AccountInv, AccountsDeserved, AccountTypes, Account, Deserved, ProfileFits, IsEarned,
         A!ActiveIsEarned, A!Known
<1>2. \A s \in Sessions : session[s] # None => session[s].owner \in People
  BY DEF AccountInv, AccountTypes, Session
<1>3. A!SessionsAreCurrent
  <2> SUFFICES ASSUME NEW s \in Sessions, session[s] # None, session[s].live
               PROVE  /\ A!Eligible(session[s].owner)
                      /\ session[s].password = account[session[s].owner].password
                      /\ \A t \in Sessions \ {s} :
                            session[t] # None /\ session[t].root = session[s].root => ~session[t].live
    BY DEF A!SessionsAreCurrent
  <2>1. PICK u \in People : u = session[s].owner
    BY <1>2
  <2>2. /\ account[u] # None /\ Lets(u, account[u]) /\ session[s].password = account[u].password
        /\ \A t \in Sessions \ {s} :
              session[t] # None /\ session[t].root = session[s].root => ~session[t].live
    BY <2>1 DEF AccountInv, LiveAreCurrent
  <2>3. A!Eligible(u)
    BY <2>2, EligibleLets DEF AccountInv
  <2> QED BY <2>1, <2>2, <2>3
<1> QED BY <1>1, <1>3

\* An account that deserves what it is does so when more companies are verified.
LEMMA DeservedStays ==
    ASSUME NEW u \in People, NEW a, NEW V, NEW W, V \subseteq W, Deserved(u, a, V)
    PROVE  Deserved(u, a, W)
BY DEF Deserved, ProfileFits

LEMMA ActivatedDeserves ==
    ASSUME NEW u \in People, NEW a \in Account, NEW V, ProfileFits(u, a, V),
           a.status = "active" => IsEarned(a)
    PROVE  \E b \in Account :
              /\ b = A!Activated(a) /\ Deserved(u, b, V)
              /\ b.forced = a.forced /\ b.password = a.password
              /\ b.verified = a.verified /\ b.profile = a.profile
              /\ b.status = a.status \/ a.status = "pending"
<1>1. CASE a.status = "pending" /\ a.verified /\ a.profile \in {"none", "verified"}
  <2>1. PICK b \in Account : b = [a EXCEPT !.status = "active"]
    BY DEF Account
  <2>2. /\ b.forced = a.forced /\ b.password = a.password /\ b.status = "active"
        /\ b.verified = a.verified /\ b.profile = a.profile
    BY <2>1 DEF Account
  <2>3. b = A!Activated(a)
    BY <1>1, <2>1 DEF A!Activated
  <2>4. Deserved(u, b, V)
    BY <1>1, <2>2 DEF Deserved, ProfileFits, IsEarned
  <2> QED BY <1>1, <2>2, <2>3, <2>4
<1>2. CASE ~(a.status = "pending" /\ a.verified /\ a.profile \in {"none", "verified"})
  <2>1. a = A!Activated(a)
    BY <1>2 DEF A!Activated
  <2>2. Deserved(u, a, V)
    BY <1>2 DEF Deserved, IsEarned
  <2> QED BY <2>1, <2>2
<1> QED BY <1>1, <1>2

\* Rows stay, and those that live are rows that lived.
RowsFade ==
    /\ session' \in [Sessions -> Session \cup {None}]
    /\ \A s \in Sessions :
          /\ session[s] = None => session'[s] = None
          /\ session[s] # None =>
                /\ session'[s] # None
                /\ session'[s].owner = session[s].owner /\ session'[s].root = session[s].root
                /\ session'[s].password = session[s].password
                /\ session'[s].live => session[s].live

\* The sessions of an account have ended.
NoneLives(u) == \A s \in Sessions : session'[s] # None /\ session'[s].live => session'[s].owner # u

LEMMA SessionsEnd ==
    ASSUME AccountTypes, NEW u \in People, session' = A!Ended(u)
    PROVE  RowsFade /\ NoneLives(u)
<1>1. ASSUME NEW s \in Sessions
      PROVE  /\ session'[s] \in Session \cup {None}
             /\ session[s] = None => session'[s] = None
             /\ session[s] # None =>
                /\ session'[s] # None
                /\ session'[s].owner = session[s].owner /\ session'[s].root = session[s].root
                /\ session'[s].password = session[s].password
                /\ session'[s].live => session[s].live
             /\ session'[s] # None /\ session'[s].live => session'[s].owner # u
  <2>1. CASE session[s] # None /\ session[s].owner = u
    <3>1. PICK x \in Session : x = session[s]
      BY <2>1 DEF AccountTypes
    <3>2. PICK y \in Session : y = [x EXCEPT !.live = FALSE]
      BY DEF Session
    <3>3. y.owner = x.owner /\ y.root = x.root /\ y.password = x.password /\ ~y.live
      BY <3>2 DEF Session
    <3>4. session'[s] = y
      BY <2>1, <3>1, <3>2 DEF A!Ended
    <3> QED BY <2>1, <3>1, <3>3, <3>4, NoneIsNoAccount
  <2>2. CASE ~(session[s] # None /\ session[s].owner = u)
    BY <2>2 DEF A!Ended, AccountTypes
  <2> QED BY <2>1, <2>2
<1>2. session' \in [Sessions -> Session \cup {None}]
  BY <1>1 DEF A!Ended
<1> QED BY <1>1, <1>2 DEF RowsFade, NoneLives

LEMMA SessionsRest ==
    ASSUME AccountTypes, UNCHANGED session
    PROVE  RowsFade
BY DEF RowsFade, AccountTypes

\* What moderation asks of a step on one account.
KeepsTo(a, b) ==
    /\ a.forced /\ ~b.forced => b.password # a.password
    /\ a.status \in {"disabled", "erased"} => b.status \in {"disabled", "erased"}
    /\ a.status = "erased" => b.status = "erased"

\* One account becomes another, while sessions may end.
LEMMA AccountMoves ==
    ASSUME AccountInv, NEW u \in People, NEW b \in Account,
           account' = [account EXCEPT ![u] = b],
           review' \in [People -> {"pending", "approved", "rejected", None}], ReviewsKnown',
           verified \subseteq verified', Deserved(u, b, verified'),
           account[u] # None => KeepsTo(account[u], b),
           RowsFade, NoneLives(u) \/ Lets(u, b),
           NoneLives(u) \/ (account[u] # None => b.password = account[u].password),
           UNCHANGED <<login, texts>>
    PROVE  AccountInv' /\ A!ModerationIsKept
<1> USE DEF AccountInv
<1>1. account'[u] = b /\ b # None /\ \A o \in People \ {u} : account'[o] = account[o]
  BY NoneIsNoAccount DEF AccountTypes
<1>2. AccountTypes'
  BY DEF AccountTypes, RowsFade
<1>3. AccountsDeserved'
  BY <1>1, DeservedStays DEF AccountsDeserved
<1>4. RootsExist'
  BY DEF RootsExist, RowsFade
<1>5. A!LastTextCounts'
  BY DEF A!LastTextCounts
<1>6. A!ModerationIsKept
  <2> SUFFICES ASSUME NEW o \in People, account[o] # None PROVE KeepsTo(account[o], account'[o])
    BY DEF A!ModerationIsKept, A!Known, KeepsTo
  <2> QED BY <1>1 DEF KeepsTo
<1>7. LiveAreCurrent'
  <2> SUFFICES ASSUME NEW s \in Sessions, session'[s] # None, session'[s].live
               PROVE  /\ \A o \in People : o = session'[s].owner =>
                            account'[o] # None /\ Lets(o, account'[o])
                            /\ session'[s].password = account'[o].password
                      /\ \A t \in Sessions \ {s} :
                            session'[t] # None /\ session'[t].root = session'[s].root => ~session'[t].live
    BY DEF LiveAreCurrent
  <2>1. /\ session[s] # None /\ session[s].live /\ session'[s].owner = session[s].owner
        /\ session'[s].root = session[s].root /\ session'[s].password = session[s].password
    BY DEF RowsFade
  <2>2. ASSUME NEW o \in People, o = session'[s].owner
        PROVE  account'[o] # None /\ Lets(o, account'[o]) /\ session'[s].password = account'[o].password
    <3>1. account[o] # None /\ Lets(o, account[o]) /\ session[s].password = account[o].password
      BY <2>1, <2>2 DEF LiveAreCurrent
    <3>2. CASE o = u
      BY <1>1, <2>1, <2>2, <3>1, <3>2 DEF NoneLives
    <3>3. CASE o # u
      BY <1>1, <2>1, <3>1, <3>3
    <3> QED BY <3>2, <3>3
  <2>3. ASSUME NEW t \in Sessions \ {s}, session'[t] # None, session'[t].root = session'[s].root
        PROVE  ~session'[t].live
    <3>1. session[t] # None /\ session'[t].root = session[t].root /\ (session'[t].live => session[t].live)
      BY <2>3 DEF RowsFade
    <3> QED BY <2>1, <2>3, <3>1 DEF LiveAreCurrent
  <2> QED BY <2>2, <2>3
<1> QED BY <1>2, <1>3, <1>4, <1>5, <1>6, <1>7

\* Steps of sessions: the accounts are what they were.
LEMMA SessionsMove ==
    ASSUME AccountInv, session' \in [Sessions -> Session \cup {None}],
           login' \in [LoginRequests -> Found \cup {None}], RootsExist', LiveAreCurrent',
           UNCHANGED <<account, review, verified, texts>>
    PROVE  AccountInv' /\ A!ModerationIsKept
<1> USE DEF AccountInv
<1>1. AccountTypes' /\ AccountsDeserved' /\ ReviewsKnown'
  BY DEF AccountTypes, AccountsDeserved, ReviewsKnown
<1>2. A!LastTextCounts'
  BY DEF A!LastTextCounts
<1>3. A!ModerationIsKept
  BY DEF A!ModerationIsKept
<1> QED BY <1>1, <1>2, <1>3

\* Some sessions end.
LEMMA FadingPreserves ==
    ASSUME AccountInv, RowsFade, login' \in [LoginRequests -> Found \cup {None}],
           UNCHANGED <<account, review, verified, texts>>
    PROVE  AccountInv' /\ A!ModerationIsKept
<1> USE DEF AccountInv
<1>1. RootsExist'
  BY DEF RootsExist, RowsFade
<1>2. LiveAreCurrent'
  <2> SUFFICES ASSUME NEW s \in Sessions, session'[s] # None, session'[s].live
               PROVE  /\ \A o \in People : o = session'[s].owner =>
                            account[o] # None /\ Lets(o, account[o])
                            /\ session'[s].password = account[o].password
                      /\ \A t \in Sessions \ {s} :
                            session'[t] # None /\ session'[t].root = session'[s].root => ~session'[t].live
    BY DEF LiveAreCurrent
  <2>1. /\ session[s] # None /\ session[s].live /\ session'[s].owner = session[s].owner
        /\ session'[s].root = session[s].root /\ session'[s].password = session[s].password
    BY DEF RowsFade
  <2>2. ASSUME NEW t \in Sessions \ {s}, session'[t] # None, session'[t].root = session'[s].root
        PROVE  ~session'[t].live
    <3>1. session[t] # None /\ session'[t].root = session[t].root /\ (session'[t].live => session[t].live)
      BY <2>2 DEF RowsFade
    <3> QED BY <2>1, <2>2, <3>1 DEF LiveAreCurrent
  <2> QED BY <2>1, <2>2 DEF LiveAreCurrent
<1>3. session' \in [Sessions -> Session \cup {None}]
  BY DEF RowsFade
<1> QED BY <1>1, <1>2, <1>3, SessionsMove

\* A row is granted to an account that may log in; no other of its login lives.
LEMMA GrantedPreserves ==
    ASSUME AccountInv, NEW t \in Sessions, NEW x \in Session,
           session[t] = None, x.live, account[x.owner] # None, Lets(x.owner, account[x.owner]),
           x.password = account[x.owner].password,
           session' \in [Sessions -> Session \cup {None}], session'[t] = x,
           \A s \in Sessions \ {t} :
              /\ session[s] = None => session'[s] = None
              /\ session[s] # None =>
                    /\ session'[s] # None
                    /\ session'[s].owner = session[s].owner /\ session'[s].root = session[s].root
                    /\ session'[s].password = session[s].password
                    /\ session'[s].live => session[s].live,
           x.root = t \/ (session[x.root] # None /\ x.root # t),
           \A s \in Sessions \ {t} :
              session'[s] # None /\ session'[s].root = x.root => ~session'[s].live,
           login' \in [LoginRequests -> Found \cup {None}],
           UNCHANGED <<account, review, verified, texts>>
    PROVE  AccountInv' /\ A!ModerationIsKept
<1> USE DEF AccountInv
<1>1. x # None /\ x.root \in Sessions
  BY NoneIsNoAccount DEF Session
<1>2. RootsExist'
  BY <1>1 DEF RootsExist
<1>3. LiveAreCurrent'
  <2> SUFFICES ASSUME NEW s \in Sessions, session'[s] # None, session'[s].live
               PROVE  /\ \A o \in People : o = session'[s].owner =>
                            account[o] # None /\ Lets(o, account[o])
                            /\ session'[s].password = account[o].password
                      /\ \A r \in Sessions \ {s} :
                            session'[r] # None /\ session'[r].root = session'[s].root => ~session'[r].live
    BY DEF LiveAreCurrent
  <2>1. CASE s = t
    BY <2>1
  <2>2. CASE s # t
    <3>1. /\ session[s] # None /\ session[s].live /\ session'[s].owner = session[s].owner
          /\ session'[s].root = session[s].root /\ session'[s].password = session[s].password
      BY <2>2
    <3>2. ASSUME NEW r \in Sessions \ {s}, session'[r] # None, session'[r].root = session'[s].root
          PROVE  ~session'[r].live
      <4>1. CASE r = t
        BY <2>2, <3>2, <4>1
      <4>2. CASE r # t
        <5>1. session[r] # None /\ session'[r].root = session[r].root
              /\ (session'[r].live => session[r].live)
          BY <3>2, <4>2
        <5> QED BY <3>1, <3>2, <5>1 DEF LiveAreCurrent
      <4> QED BY <4>1, <4>2
    <3> QED BY <3>1, <3>2 DEF LiveAreCurrent
  <2> QED BY <2>1, <2>2
<1> QED BY <1>2, <1>3, SessionsMove

\* Nothing of the accounts and sessions, but codes, numbers and who asks to log in.
LEMMA AccountsRest ==
    ASSUME AccountInv, login' \in [LoginRequests -> Found \cup {None}],
           UNCHANGED <<account, review, verified, session, texts>>
    PROVE  AccountInv' /\ A!ModerationIsKept
BY FadingPreserves, SessionsRest DEF AccountInv

LEMMA RegisterCandidatePreserves ==
    ASSUME AccountInv, NEW u \in People, NEW n, A!RegisterCandidate(u, n)
    PROVE  AccountInv' /\ A!ModerationIsKept
<1> USE DEF AccountInv, A!RegisterCandidate
<1>1. PICK b \in Account : /\ b = A!NewAccount("none") /\ b.status = "pending"
                           /\ b.verified = FALSE /\ b.profile = "none"
  <2>1. A!NewAccount("none") \in Account
    BY DEF Account, A!NewAccount
  <2> QED BY <2>1 DEF A!NewAccount
<1>2. account[u] = None /\ u \notin RecruiterAccounts
  BY DEF A!Known
<1>3. Deserved(u, b, verified)
  BY <1>1, <1>2 DEF Deserved, ProfileFits, IsEarned
<1>4. RowsFade /\ NoneLives(u)
  BY <1>2, SessionsRest DEF LiveAreCurrent, NoneLives
<1>5. b # None
  BY NoneIsNoAccount
<1>6. ReviewsKnown'
  BY <1>1, <1>5 DEF ReviewsKnown, AccountTypes
<1>7. account' = [account EXCEPT ![u] = b]
  BY <1>1
<1>8. review' \in [People -> {"pending", "approved", "rejected", None}]
  BY DEF AccountTypes
<1> QED BY <1>2, <1>3, <1>4, <1>6, <1>7, <1>8, AccountMoves

LEMMA RegisterRecruiterPreserves ==
    ASSUME AccountInv, NEW u \in People, NEW invited \in BOOLEAN, A!RegisterRecruiter(u, invited)
    PROVE  AccountInv' /\ A!ModerationIsKept
<1> USE DEF AccountInv, A!RegisterRecruiter, A!phoneVars
<1>1. PICK profile \in {"verified", "pending"} :
         profile = (IF invited THEN "verified" ELSE "pending") /\ (invited <=> profile = "verified")
  OBVIOUS
<1>2. PICK b \in Account : /\ b = A!NewAccount(profile) /\ b.status = "pending"
                           /\ b.verified = FALSE /\ b.profile = profile
  <2>1. A!NewAccount(profile) \in Account
    BY DEF Account, A!NewAccount
  <2> QED BY <2>1 DEF A!NewAccount
<1>3. account[u] = None /\ u \in RecruiterAccounts
  BY DEF A!Known
<1>4. Deserved(u, b, verified)
  BY <1>1, <1>2, <1>3 DEF Deserved, ProfileFits, IsEarned
<1>5. RowsFade /\ NoneLives(u)
  BY <1>3, SessionsRest DEF LiveAreCurrent, NoneLives
<1>6. account' = [account EXCEPT ![u] = b] /\ review' = [review EXCEPT ![u] = "pending"]
  BY <1>1, <1>2
<1>7. ReviewsKnown'
  BY <1>3, <1>6, NoneIsNoAccount DEF ReviewsKnown, AccountTypes
<1>8. review' \in [People -> {"pending", "approved", "rejected", None}]
  BY <1>6 DEF AccountTypes
<1> QED BY <1>3, <1>4, <1>5, <1>6, <1>7, <1>8, AccountMoves

LEMMA ReviewCompanyPreserves ==
    ASSUME AccountInv, NEW u \in People, NEW approve \in BOOLEAN, A!ReviewCompany(u, approve)
    PROVE  AccountInv' /\ A!ModerationIsKept
<1> USE DEF AccountInv, A!ReviewCompany, A!phoneVars
<1>1. account[u] # None /\ u \in RecruiterAccounts
  BY DEF ReviewsKnown
<1>2. PICK a \in Account : a = account[u] /\ Deserved(u, a, verified)
  BY <1>1 DEF AccountTypes, AccountsDeserved
<1>3. review' \in [People -> {"pending", "approved", "rejected", None}]
  BY DEF AccountTypes
<1>4. ASSUME NEW b \in Account, account' = [account EXCEPT ![u] = b] PROVE ReviewsKnown'
  BY <1>4, NoneIsNoAccount DEF ReviewsKnown, AccountTypes
<1>5. CASE approve
  <2>1. PICK c \in Account : c = [a EXCEPT !.profile = "verified"]
    BY DEF Account
  <2>2. /\ c.profile = "verified" /\ c.status = a.status /\ c.verified = a.verified
        /\ c.forced = a.forced /\ c.password = a.password
    BY <2>1 DEF Account
  <2>3. ProfileFits(u, c, verified') /\ (c.status = "active" => IsEarned(c))
    BY <1>1, <1>2, <1>5, <2>2 DEF ProfileFits, Deserved, IsEarned
  <2>4. PICK b \in Account :
           /\ b = A!Activated(c) /\ Deserved(u, b, verified')
           /\ b.forced = c.forced /\ b.password = c.password
           /\ b.verified = c.verified /\ b.profile = c.profile
           /\ b.status = c.status \/ c.status = "pending"
    BY <2>3, ActivatedDeserves
  <2>5. account' = [account EXCEPT ![u] = b]
    BY <1>2, <1>5, <2>1, <2>4
  <2>6. NoneLives(u) \/ Lets(u, b)
    <3>1. CASE Lets(u, a)
      BY <2>2, <2>4, <3>1 DEF Lets
    <3>2. CASE ~Lets(u, a)
      BY <1>2, <1>5, <3>2 DEF LiveAreCurrent, NoneLives
    <3> QED BY <3>1, <3>2
  <2>7. KeepsTo(account[u], b) /\ b.password = account[u].password
    BY <1>2, <2>2, <2>4 DEF KeepsTo
  <2>8. verified \subseteq verified' /\ RowsFade /\ UNCHANGED <<login, texts>>
    BY <1>5, SessionsRest
  <2>9. ReviewsKnown'
    BY <1>4, <2>5
  <2> QED BY <1>3, <2>4, <2>5, <2>6, <2>7, <2>8, <2>9, AccountMoves
<1>6. CASE ~approve
  <2>1. PICK c \in Account : c = [a EXCEPT !.profile = "rejected"]
    BY DEF Account
  <2> DEFINE status == IF a.status = "erased" THEN "erased" ELSE "disabled"
  <2>2. PICK b \in Account : b = [c EXCEPT !.status = status]
    BY DEF Account
  <2>3. /\ b.profile = "rejected" /\ b.forced = a.forced
        /\ b.status = IF a.status = "erased" THEN "erased" ELSE "disabled"
    BY <2>1, <2>2 DEF Account
  <2>4. account' = [account EXCEPT ![u] = b]
    <3>1. account' = [account EXCEPT ![u].profile = "rejected", ![u].status = status]
      BY <1>2, <1>6 DEF AccountTypes, Account
    <3> HIDE DEF status
    <3> QED BY <1>2, <2>1, <2>2, <3>1 DEF AccountTypes, Account
  <2>5. Deserved(u, b, verified') /\ KeepsTo(account[u], b)
    BY <1>1, <1>2, <1>6, <2>3 DEF Deserved, ProfileFits, KeepsTo
  <2>6. RowsFade /\ NoneLives(u)
    BY <1>6, SessionsEnd
  <2>7. verified \subseteq verified' /\ UNCHANGED <<login, texts>>
    BY <1>6
  <2>8. ReviewsKnown'
    BY <1>4, <2>4
  <2> QED BY <1>3, <2>4, <2>5, <2>6, <2>7, <2>8, AccountMoves
<1> QED BY <1>5, <1>6

LEMMA VerifyEmailPreserves ==
    ASSUME AccountInv, NEW u \in People, NEW n, A!VerifyEmail(u, n)
    PROVE  AccountInv' /\ A!ModerationIsKept
<1> USE DEF AccountInv, A!VerifyEmail, A!phoneVars, A!Kept, A!Known
<1>1. PICK a \in Account : a = account[u] /\ account[u] # None /\ Deserved(u, a, verified)
  BY DEF AccountTypes, AccountsDeserved
<1>2. a.status = "pending"
  BY <1>1
<1>3. PICK c \in Account : c = [a EXCEPT !.verified = TRUE]
  BY DEF Account
<1>4. /\ c.profile = a.profile /\ c.status = a.status
      /\ c.forced = a.forced /\ c.password = a.password
  BY <1>3 DEF Account
<1>5. ProfileFits(u, c, verified) /\ (c.status = "active" => IsEarned(c))
  BY <1>1, <1>2, <1>4 DEF ProfileFits, Deserved
<1>6. PICK b \in Account :
         /\ b = A!Activated(c) /\ Deserved(u, b, verified)
         /\ b.forced = c.forced /\ b.password = c.password
         /\ b.verified = c.verified /\ b.profile = c.profile
         /\ b.status = c.status \/ c.status = "pending"
  BY <1>5, ActivatedDeserves
<1>7. account' = [account EXCEPT ![u] = b]
  BY <1>1, <1>3, <1>6
<1>8. RowsFade /\ NoneLives(u)
  BY <1>1, <1>2, SessionsRest DEF LiveAreCurrent, NoneLives, Lets
<1>9. KeepsTo(account[u], b)
  BY <1>1, <1>2, <1>4, <1>6 DEF KeepsTo
<1>10. ReviewsKnown' /\ review' \in [People -> {"pending", "approved", "rejected", None}]
  BY <1>7, NoneIsNoAccount DEF ReviewsKnown, AccountTypes
<1> QED BY <1>6, <1>7, <1>8, <1>9, <1>10, AccountMoves

\* What ends the sessions of an account: a reset, moderation, the erasure.
LEMMA ModeratedPreserves ==
    ASSUME AccountInv, NEW u \in People, NEW b \in Account, account[u] # None,
           account' = [account EXCEPT ![u] = b], session' = A!Ended(u),
           Deserved(u, b, verified), KeepsTo(account[u], b),
           UNCHANGED <<review, verified, login, texts>>
    PROVE  AccountInv' /\ A!ModerationIsKept
<1> USE DEF AccountInv
<1>1. RowsFade /\ NoneLives(u)
  BY SessionsEnd
<1>2. ReviewsKnown' /\ review' \in [People -> {"pending", "approved", "rejected", None}]
  BY NoneIsNoAccount DEF ReviewsKnown, AccountTypes
<1> QED BY <1>1, <1>2, AccountMoves

LEMMA ResetPasswordPreserves ==
    ASSUME AccountInv, NEW u \in People, NEW n, A!ResetPassword(u, n)
    PROVE  AccountInv' /\ A!ModerationIsKept
<1> USE DEF AccountInv, A!ResetPassword, A!RevokedBy, A!phoneVars, A!Kept, A!Known
<1>1. PICK a \in Account : a = account[u] /\ account[u] # None /\ Deserved(u, a, verified)
  BY DEF AccountTypes, AccountsDeserved
<1>2. PICK k \in Nat : k = a.password + 1 /\ k # a.password
  BY DEF Account
<1>3. PICK c \in Account : c = [a EXCEPT !.password = k]
  BY DEF Account
<1>4. PICK b \in Account : b = [c EXCEPT !.forced = FALSE]
  BY DEF Account
<1>5. /\ b.profile = a.profile /\ b.status = a.status /\ b.verified = a.verified
      /\ b.password = k
  BY <1>3, <1>4 DEF Account
<1>6. account' = [account EXCEPT ![u] = b]
  <2>1. account' = [account EXCEPT ![u].password = k, ![u].forced = FALSE]
    BY <1>1, <1>2 DEF AccountTypes
  <2> QED BY <1>1, <1>3, <1>4, <2>1 DEF AccountTypes, Account
<1>7. Deserved(u, b, verified) /\ KeepsTo(account[u], b)
  BY <1>1, <1>2, <1>5 DEF Deserved, ProfileFits, IsEarned, KeepsTo
<1> QED BY <1>1, <1>6, <1>7, ModeratedPreserves

LEMMA ChangeAccountPreserves ==
    ASSUME AccountInv, NEW u \in People,
           NEW action \in {"suspend", "reactivate", "force", "revoke"}, A!ChangeAccount(u, action)
    PROVE  AccountInv' /\ A!ModerationIsKept
<1> USE DEF AccountInv, A!ChangeAccount, A!phoneVars, A!Kept, A!Known
<1>1. PICK a \in Account : a = account[u] /\ account[u] # None /\ Deserved(u, a, verified)
  BY DEF AccountTypes, AccountsDeserved
<1>2. PICK b \in Account :
         /\ b = A!After(u, action) /\ Deserved(u, b, verified) /\ KeepsTo(a, b)
  <2>1. CASE action = "suspend"
    <3>1. PICK b \in Account : b = [a EXCEPT !.status = "suspended"]
      BY DEF Account
    <3>2. /\ b.profile = a.profile /\ b.status = "suspended" /\ b.verified = a.verified
          /\ b.forced = a.forced
      BY <3>1 DEF Account
    <3>3. a.status \in {"active", "pending"} /\ b = A!After(u, action)
      BY <1>1, <2>1, <3>1 DEF A!After
    <3>4. Deserved(u, b, verified) /\ KeepsTo(a, b)
      BY <1>1, <3>2, <3>3 DEF Deserved, ProfileFits, KeepsTo
    <3> QED BY <3>3, <3>4
  <2>2. CASE action = "reactivate"
    <3>1. PICK b \in Account : b = [a EXCEPT !.status = "active"]
      BY DEF Account
    <3>2. /\ b.profile = a.profile /\ b.status = "active" /\ b.verified = a.verified
          /\ b.forced = a.forced
      BY <3>1 DEF Account
    <3>3. /\ a.status = "suspended" /\ a.verified
          /\ (u \in RecruiterAccounts => a.profile = "verified")
          /\ b = A!After(u, action)
      BY <1>1, <2>2, <3>1 DEF A!After, A!Reactivated
    <3>4. Deserved(u, b, verified) /\ KeepsTo(a, b)
      BY <1>1, <3>2, <3>3 DEF Deserved, ProfileFits, IsEarned, KeepsTo
    <3> QED BY <3>3, <3>4
  <2>3. CASE action = "force"
    <3>1. PICK b \in Account : b = [a EXCEPT !.forced = TRUE]
      BY DEF Account
    <3>2. /\ b.profile = a.profile /\ b.status = a.status /\ b.verified = a.verified
          /\ b.forced = TRUE
      BY <3>1 DEF Account
    <3>3. b = A!After(u, action)
      BY <1>1, <2>3, <3>1 DEF A!After
    <3>4. Deserved(u, b, verified) /\ KeepsTo(a, b)
      BY <1>1, <3>2 DEF Deserved, ProfileFits, IsEarned, KeepsTo
    <3> QED BY <3>3, <3>4
  <2>4. CASE action = "revoke"
    <3>1. a = A!After(u, action)
      BY <1>1, <2>4 DEF A!After
    <3> QED BY <1>1, <3>1 DEF KeepsTo
  <2> QED BY <2>1, <2>2, <2>3, <2>4
<1>3. account' = [account EXCEPT ![u] = b]
  BY <1>2
<1> QED BY <1>1, <1>2, <1>3, ModeratedPreserves

LEMMA EraseAccountPreserves ==
    ASSUME AccountInv, NEW u \in People, A!EraseAccount(u)
    PROVE  AccountInv' /\ A!ModerationIsKept
<1> USE DEF AccountInv, A!EraseAccount, A!Kept, A!Known
<1>1. PICK a \in Account : a = account[u] /\ account[u] # None /\ Deserved(u, a, verified)
  BY DEF AccountTypes, AccountsDeserved
<1>2. PICK c \in Account : c = [a EXCEPT !.status = "erased"]
  BY DEF Account
<1>3. PICK b \in Account : b = [c EXCEPT !.verified = FALSE]
  BY DEF Account
<1>4. b.profile = a.profile /\ b.status = "erased" /\ b.forced = a.forced
  BY <1>2, <1>3 DEF Account
<1>5. account' = [account EXCEPT ![u] = b]
  BY <1>1, <1>2, <1>3 DEF AccountTypes, Account
<1>6. Deserved(u, b, verified) /\ KeepsTo(account[u], b)
  BY <1>1, <1>4 DEF Deserved, ProfileFits, KeepsTo
<1> QED BY <1>1, <1>5, <1>6, ModeratedPreserves

LEMMA CodesPreserve ==
    ASSUME AccountInv, NEW u \in People, NEW purpose, NEW n,
           \/ A!RequestCode(u, purpose) \/ A!WrongCode(u, purpose, n) \/ A!CodeLapses(n)
    PROVE  AccountInv' /\ A!ModerationIsKept
<1>1. UNCHANGED <<account, review, verified, session, login, texts>>
  BY DEF A!RequestCode, A!WrongCode, A!CodeLapses, A!phoneVars
<1>2. login' \in [LoginRequests -> Found \cup {None}]
  BY <1>1 DEF AccountInv, AccountTypes
<1> QED BY <1>1, <1>2, AccountsRest

LEMMA LoginPreserves ==
    ASSUME AccountInv, NEW q \in LoginRequests, NEW u \in People, A!Login(q, u)
    PROVE  AccountInv' /\ A!ModerationIsKept
<1> USE DEF AccountInv, A!Login, A!phoneVars
<1>1. account[u] # None /\ account[u] \in Account
  BY EligibleLets DEF AccountTypes
<1>2. PICK k \in Nat : k = account[u].password
  BY <1>1 DEF Account
<1>3. [owner |-> u, password |-> k] \in Found
  BY DEF Found
<1>4. login' \in [LoginRequests -> Found \cup {None}]
  BY <1>2, <1>3 DEF AccountTypes
<1> QED BY <1>4, AccountsRest

LEMMA CreateSessionPreserves ==
    ASSUME AccountInv, NEW q \in LoginRequests, NEW s \in Sessions, A!CreateSession(q, s)
    PROVE  AccountInv' /\ A!ModerationIsKept
<1> USE DEF AccountInv, A!CreateSession, A!phoneVars
<1>1. login' \in [LoginRequests -> Found \cup {None}]
  BY DEF AccountTypes
<1>2. CASE ~A!StillGood(q)
  BY <1>1, <1>2, AccountsRest
<1>3. CASE A!StillGood(q)
  <2>1. PICK f \in Found : f = login[q]
    BY DEF AccountTypes
  <2>2. PICK x \in Session :
           x = [owner |-> f.owner, password |-> f.password, root |-> s, live |-> TRUE]
    BY DEF Session, Found
  <2>3. x.owner = f.owner /\ x.password = f.password /\ x.root = s /\ x.live
    BY <2>2
  <2>4. f.owner \in People
    BY DEF Found
  <2>5. account[x.owner] # None /\ Lets(x.owner, account[x.owner])
        /\ x.password = account[x.owner].password
    BY <1>3, <2>1, <2>3, <2>4, EligibleLets DEF A!StillGood
  <2>6. session' = [session EXCEPT ![s] = x]
    BY <1>3, <2>1, <2>2
  <2>7. /\ session' \in [Sessions -> Session \cup {None}] /\ session'[s] = x
        /\ \A t \in Sessions \ {s} : session'[t] = session[t]
    BY <2>6 DEF AccountTypes
  <2>8. \A t \in Sessions \ {s} :
           session'[t] # None /\ session'[t].root = x.root => ~session'[t].live
    BY <2>3, <2>7 DEF RootsExist
  <2>9. UNCHANGED <<account, review, verified, texts>> /\ session[s] = None
    OBVIOUS
  <2> HIDE DEF AccountInv, A!CreateSession, A!phoneVars
  <2> QED BY <1>1, <2>3, <2>5, <2>7, <2>8, <2>9, GrantedPreserves
<1> QED BY <1>2, <1>3

LEMMA RefreshPreserves ==
    ASSUME AccountInv, NEW s \in Sessions, NEW t \in Sessions, A!Refresh(s, t)
    PROVE  AccountInv' /\ A!ModerationIsKept
<1> USE DEF AccountInv, A!Refresh, A!phoneVars
<1>1. login' \in [LoginRequests -> Found \cup {None}]
  BY DEF AccountTypes
<1>2. PICK y \in Session : y = session[s] /\ y # None /\ y.live
  BY DEF AccountTypes
<1>3. PICK u \in People : u = y.owner
  BY DEF Session
<1>4. account[u] # None /\ Lets(u, account[u])
  BY <1>2, <1>3, EligibleLets
<1>5. PICK k \in Nat : k = account[u].password
  BY <1>4 DEF AccountTypes, Account
<1>6. PICK x \in Session : x = [owner |-> u, password |-> k, root |-> y.root, live |-> TRUE]
  BY DEF Session
<1>7. x.owner = u /\ x.password = k /\ x.root = y.root /\ x.live
  BY <1>6
<1>8. PICK z \in Session : z = [y EXCEPT !.live = FALSE]
  BY DEF Session
<1>9. z.owner = y.owner /\ z.password = y.password /\ z.root = y.root /\ ~z.live /\ z # None
  BY <1>8, NoneIsNoAccount DEF Session
<1>10. A!Spent(s) = [session EXCEPT ![s] = z]
  BY <1>2, <1>8 DEF A!Spent, AccountTypes
<1>11. session' = [[session EXCEPT ![s] = z] EXCEPT ![t] = x]
  BY <1>2, <1>3, <1>5, <1>6, <1>10
<1>12. s # t
  BY <1>2
<1>13. /\ session' \in [Sessions -> Session \cup {None}] /\ session'[t] = x /\ session'[s] = z
       /\ \A r \in Sessions \ {s, t} : session'[r] = session[r]
  <2>1. session \in [Sessions -> Session \cup {None}]
    BY DEF AccountTypes
  <2> HIDE DEF AccountInv, A!Refresh, A!phoneVars
  <2>2. \A r \in Sessions : session'[r] = IF r = t THEN x ELSE IF r = s THEN z ELSE session[r]
    BY <1>11, <2>1
  <2>3. DOMAIN session' = Sessions /\ session' = [r \in Sessions |-> session'[r]]
    BY <1>11, <2>1
  <2> QED BY <1>12, <2>1, <2>2, <2>3
<1>14. session[x.root] # None /\ x.root \in Sessions
  BY <1>2, <1>7 DEF RootsExist, Session
<1>15. \A r \in Sessions \ {t} : session'[r] # None /\ session'[r].root = x.root => ~session'[r].live
  BY <1>2, <1>7, <1>9, <1>13 DEF LiveAreCurrent
<1>16. \A r \in Sessions \ {t} :
          /\ session[r] = None => session'[r] = None
          /\ session[r] # None =>
                /\ session'[r] # None
                /\ session'[r].owner = session[r].owner /\ session'[r].root = session[r].root
                /\ session'[r].password = session[r].password
                /\ session'[r].live => session[r].live
  BY <1>2, <1>9, <1>13
<1>17. account[x.owner] # None /\ Lets(x.owner, account[x.owner])
       /\ x.password = account[x.owner].password
  BY <1>4, <1>5, <1>7
<1>18. UNCHANGED <<account, review, verified, texts>> /\ session[t] = None
  OBVIOUS
<1>19. x.root # t
  BY <1>14, <1>18
<1> HIDE DEF AccountInv, A!Refresh, A!phoneVars
<1> QED
  BY <1>1, <1>7, <1>13, <1>14, <1>15, <1>16, <1>17, <1>18, <1>19, GrantedPreserves

LEMMA LogoutPreserves ==
    ASSUME AccountInv, NEW s \in Sessions, A!Logout(s)
    PROVE  AccountInv' /\ A!ModerationIsKept
<1> USE DEF AccountInv, A!Logout, A!phoneVars
<1>1. PICK y \in Session : y = session[s] /\ y # None
  BY DEF AccountTypes
<1>2. PICK z \in Session : z = [y EXCEPT !.live = FALSE]
  BY DEF Session
<1>3. z.owner = y.owner /\ z.password = y.password /\ z.root = y.root /\ ~z.live /\ z # None
  BY <1>2, NoneIsNoAccount DEF Session
<1>4. session' = [session EXCEPT ![s] = z]
  BY <1>1, <1>2 DEF AccountTypes
<1>5. RowsFade
  BY <1>1, <1>3, <1>4 DEF RowsFade, AccountTypes
<1>6. login' \in [LoginRequests -> Found \cup {None}]
  BY DEF AccountTypes
<1> QED BY <1>5, <1>6, FadingPreserves

LEMMA LogoutAllPreserves ==
    ASSUME AccountInv, NEW u \in People, A!LogoutAll(u)
    PROVE  AccountInv' /\ A!ModerationIsKept
<1> USE DEF AccountInv, A!LogoutAll, A!phoneVars
<1>1. RowsFade
  BY SessionsEnd
<1>2. login' \in [LoginRequests -> Found \cup {None}]
  BY DEF AccountTypes
<1> QED BY <1>1, <1>2, FadingPreserves

-----------------------------------------------------------------------------
\* Only texts change.
LEMMA TextsMove ==
    ASSUME AccountInv, texts' \in Seq(Text), A!LastTextCounts',
           UNCHANGED <<account, review, verified, session, login>>
    PROVE  AccountInv' /\ A!ModerationIsKept
BY DEF AccountInv, AccountTypes, AccountsDeserved, ReviewsKnown, RootsExist, LiveAreCurrent,
       A!ModerationIsKept

\* One text becomes another, which is good only if the last that was sent.
LEMMA TextChanges ==
    ASSUME AccountInv, NEW i \in DOMAIN texts, NEW y \in Text,
           texts' = [texts EXCEPT ![i] = y], y.owner = texts[i].owner,
           y.good => y.sent /\ A!Activates(i),
           UNCHANGED <<account, review, verified, session, login>>
    PROVE  AccountInv' /\ A!ModerationIsKept
<1> USE DEF AccountInv, AccountTypes
<1>1. texts' \in Seq(Text) /\ DOMAIN texts' = DOMAIN texts
  OBVIOUS
<1>2. texts'[i] = y /\ \A j \in DOMAIN texts \ {i} : texts'[j] = texts[j]
  OBVIOUS
<1>3. \A j \in DOMAIN texts : texts'[j].owner = texts[j].owner
  BY <1>2
<1>4. A!LastTextCounts'
  BY <1>1, <1>2, <1>3 DEF A!LastTextCounts, A!Activates
<1> QED BY <1>1, <1>4, TextsMove

LEMMA TextOf ==
    ASSUME AccountInv, NEW i \in DOMAIN texts
    PROVE  /\ texts[i] \in Text
           /\ texts[i].good => texts[i].sent /\ A!Activates(i)
<1>1. texts \in Seq(Text) /\ A!LastTextCounts
  BY DEF AccountInv, AccountTypes
<1>2. texts[i] \in Text
  BY <1>1
<1> QED BY <1>1, <1>2 DEF A!LastTextCounts, A!Activates

LEMMA RequestPhoneChangePreserves ==
    ASSUME AccountInv, NEW u \in People, NEW n \in Numbers, A!RequestPhoneChange(u, n)
    PROVE  AccountInv' /\ A!ModerationIsKept
<1> USE DEF A!RequestPhoneChange
<1>1. texts \in Seq(Text)
  BY DEF AccountInv, AccountTypes
<1> DEFINE new == [owner |-> u, number |-> n, sending |-> TRUE, sent |-> FALSE,
                   good |-> FALSE, lapsed |-> FALSE, tries |-> 0]
           void == [i \in DOMAIN texts |->
                      IF texts[i].owner = u THEN [texts[i] EXCEPT !.good = FALSE] ELSE texts[i]]
<1>2. new \in Text /\ new.owner = u /\ new.good = FALSE
  BY DEF Text
<1>3. ASSUME NEW i \in DOMAIN texts
      PROVE  /\ void[i] \in Text /\ void[i].owner = texts[i].owner
             /\ void[i].owner = u => void[i].good = FALSE
             /\ void[i].owner # u => void[i] = texts[i]
  <2>1. PICK x \in Text : x = texts[i]
    BY TextOf
  <2>2. CASE x.owner = u
    <3>1. PICK y \in Text : y = [x EXCEPT !.good = FALSE]
      BY DEF Text
    <3>2. y.owner = x.owner /\ y.good = FALSE
      BY <3>1 DEF Text
    <3>3. void[i] = y
      BY <2>1, <2>2, <3>1
    <3> QED BY <2>1, <2>2, <3>2, <3>3
  <2>3. CASE x.owner # u
    BY <2>1, <2>3
  <2> QED BY <2>2, <2>3
<1>4. DOMAIN texts = 1 .. Len(texts) /\ Len(texts) \in Nat
  BY <1>1
<1>5. void \in [1 .. Len(texts) -> Text]
  BY <1>3, <1>4
<1>6. void \in Seq(Text) /\ DOMAIN void = DOMAIN texts
  BY <1>4, <1>5
<1>7. texts' = Append(void, new)
  OBVIOUS
<1> HIDE DEF new, void
<1>8. Len(void) = Len(texts)
  BY <1>4, <1>5, <1>6
<1>9. /\ texts' \in Seq(Text) /\ DOMAIN texts' = 1 .. Len(texts) + 1
      /\ texts'[Len(texts) + 1] = new /\ \A i \in DOMAIN texts : texts'[i] = void[i]
  <2>1. \A v \in Seq(Text), e \in Text :
           /\ Append(v, e) \in Seq(Text) /\ DOMAIN Append(v, e) = 1 .. Len(v) + 1
           /\ Append(v, e)[Len(v) + 1] = e
           /\ \A i \in 1 .. Len(v) : Append(v, e)[i] = v[i]
    OBVIOUS
  <2>2. PICK v \in Seq(Text) : v = void
    BY <1>6
  <2>3. PICK e \in Text : e = new
    BY <1>2
  <2>4. texts' = Append(v, e)
    BY <1>7, <2>2, <2>3
  <2>5. Len(v) = Len(texts)
    BY <1>8, <2>2
  <2>6. texts' \in Seq(Text) /\ DOMAIN texts' = 1 .. Len(texts) + 1
    <3> HIDE DEF A!RequestPhoneChange
    <3> QED BY <2>1, <2>4, <2>5
  <2>7. texts'[Len(v) + 1] = e /\ \A i \in 1 .. Len(v) : texts'[i] = v[i]
    <3> HIDE DEF A!RequestPhoneChange
    <3> QED BY <2>1, <2>4
  <2> QED BY <1>4, <2>2, <2>3, <2>5, <2>6, <2>7
<1>10. A!LastTextCounts'
  <2> SUFFICES ASSUME NEW i \in DOMAIN texts', texts'[i].good
               PROVE  /\ texts'[i].sent
                      /\ \A j \in DOMAIN texts' : texts'[j].owner = texts'[i].owner => j <= i
    BY DEF A!LastTextCounts
  <2>1. i \in DOMAIN texts /\ i # Len(texts) + 1
    BY <1>2, <1>4, <1>9
  <2>2. void[i] = texts[i] /\ void[i].owner # u /\ texts'[i] = void[i]
    BY <1>3, <1>9, <2>1
  <2>3. texts[i].sent /\ A!Activates(i)
    BY <2>1, <2>2, TextOf
  <2>4. ASSUME NEW j \in DOMAIN texts', texts'[j].owner = texts'[i].owner PROVE j <= i
    <3>1. j \in DOMAIN texts
      BY <1>2, <1>4, <1>9, <2>2, <2>4
    <3>2. texts'[j].owner = texts[j].owner
      BY <1>3, <1>9, <3>1
    <3> QED BY <2>2, <2>3, <2>4, <3>1, <3>2 DEF A!Activates
  <2> QED BY <2>2, <2>3, <2>4
<1> QED BY <1>9, <1>10, TextsMove

LEMMA SendTextPreserves ==
    ASSUME AccountInv, NEW i, NEW delivered \in BOOLEAN, NEW cut \in BOOLEAN,
           A!SendText(i, delivered, cut)
    PROVE  AccountInv' /\ A!ModerationIsKept
<1> USE DEF A!SendText
<1>1. PICK x \in Text : x = texts[i] /\ i \in DOMAIN texts
  BY TextOf
<1>2. ~x.good
  BY <1>1, TextOf
<1>3. PICK z \in Text : z = [x EXCEPT !.sent = delivered]
  BY DEF Text
<1>4. PICK open \in BOOLEAN : open = (delivered /\ ~cut)
  OBVIOUS
<1>5. PICK y \in Text : y = [z EXCEPT !.sending = open]
  BY DEF Text
<1>6. y.owner = x.owner /\ y.good = x.good
  BY <1>3, <1>5 DEF Text
<1>7. texts' = [texts EXCEPT ![i] = y]
  <2>1. texts' = [texts EXCEPT ![i].sent = delivered, ![i].sending = open]
    BY <1>4
  <2> QED BY <1>1, <1>3, <1>5, <2>1
<1> QED BY <1>1, <1>2, <1>6, <1>7, TextChanges

LEMMA ActivateTextPreserves ==
    ASSUME AccountInv, NEW i, A!ActivateText(i)
    PROVE  AccountInv' /\ A!ModerationIsKept
<1> USE DEF A!ActivateText
<1>1. PICK x \in Text : x = texts[i] /\ i \in DOMAIN texts /\ x.sent
  BY TextOf
<1>2. PICK good \in BOOLEAN :
         good = (/\ A!Kept(texts[i].owner) /\ account[texts[i].owner].status = "active"
                 /\ ~texts[i].lapsed /\ A!Activates(i))
  OBVIOUS
<1>3. PICK z \in Text : z = [x EXCEPT !.sending = FALSE]
  BY DEF Text
<1>4. PICK y \in Text : y = [z EXCEPT !.good = good]
  BY DEF Text
<1>5. y.owner = x.owner /\ y.sent /\ y.good = good
  BY <1>1, <1>3, <1>4 DEF Text
<1>6. texts' = [texts EXCEPT ![i] = y]
  <2>1. texts' = [texts EXCEPT ![i].sending = FALSE, ![i].good = good]
    BY <1>2
  <2> QED BY <1>1, <1>3, <1>4, <2>1
<1>7. y.good => y.sent /\ A!Activates(i)
  BY <1>2, <1>5
<1> QED BY <1>1, <1>5, <1>6, <1>7, TextChanges

LEMMA TextLapsesPreserves ==
    ASSUME AccountInv, NEW i, A!TextLapses(i)
    PROVE  AccountInv' /\ A!ModerationIsKept
<1> USE DEF A!TextLapses
<1>1. PICK x \in Text : x = texts[i] /\ i \in DOMAIN texts
  BY TextOf
<1>2. PICK y \in Text : y = [x EXCEPT !.lapsed = TRUE]
  BY DEF Text
<1>3. y.owner = x.owner /\ y.good = x.good /\ y.sent = x.sent
  BY <1>2 DEF Text
<1>4. texts' = [texts EXCEPT ![i] = y]
  BY <1>1, <1>2
<1>5. y.good => y.sent /\ A!Activates(i)
  BY <1>1, <1>3, TextOf
<1> QED BY <1>1, <1>3, <1>4, <1>5, TextChanges

LEMMA VerifyPhoneChangePreserves ==
    ASSUME AccountInv, NEW i, NEW right \in BOOLEAN, A!VerifyPhoneChange(i, right)
    PROVE  AccountInv' /\ A!ModerationIsKept
<1> USE DEF A!VerifyPhoneChange
<1>1. PICK x \in Text : x = texts[i] /\ i \in DOMAIN texts
  BY TextOf
<1>2. PICK k \in Nat : k = x.tries + 1
  BY DEF Text
<1>3. CASE right
  <2>1. PICK z \in Text : z = [x EXCEPT !.good = FALSE]
    BY DEF Text
  <2>2. PICK y \in Text : y = [z EXCEPT !.tries = k]
    BY DEF Text
  <2>3. y.owner = x.owner /\ ~y.good
    BY <2>1, <2>2 DEF Text
  <2>4. texts' = [texts EXCEPT ![i] = y]
    <3>1. texts' = [texts EXCEPT ![i].good = FALSE, ![i].tries = k]
      BY <1>1, <1>2, <1>3
    <3> QED BY <1>1, <2>1, <2>2, <3>1
  <2> QED BY <1>1, <2>3, <2>4, TextChanges
<1>4. CASE ~right
  <2>1. PICK y \in Text : y = [x EXCEPT !.tries = k]
    BY DEF Text
  <2>2. y.owner = x.owner /\ y.good = x.good /\ y.sent = x.sent
    BY <2>1 DEF Text
  <2>3. texts' = [texts EXCEPT ![i] = y]
    BY <1>1, <1>2, <1>4, <2>1
  <2>4. y.good => y.sent /\ A!Activates(i)
    BY <1>1, <2>2, TextOf
  <2> QED BY <1>1, <2>2, <2>3, <2>4, TextChanges
<1> QED BY <1>3, <1>4

-----------------------------------------------------------------------------
LEMMA AccountsProceed ==
    AccountInv /\ [A!Next]_A!accountVars => AccountInv' /\ A!ModerationIsKept
<1> SUFFICES ASSUME AccountInv, [A!Next]_A!accountVars
             PROVE  AccountInv' /\ A!ModerationIsKept
  OBVIOUS
<1>1. ASSUME NEW u \in People, A!ActivationStep(u) PROVE AccountInv' /\ A!ModerationIsKept
  <2>1. CASE A!RegisterCandidate(u, None) \/ \E n \in Numbers : A!RegisterCandidate(u, n)
    BY <2>1, RegisterCandidatePreserves
  <2>2. CASE \E yes \in BOOLEAN : A!RegisterRecruiter(u, yes) \/ A!ReviewCompany(u, yes)
    BY <2>2, RegisterRecruiterPreserves, ReviewCompanyPreserves
  <2>3. CASE A!RequestCode(u, "verify")
    BY <2>3, CodesPreserve
  <2>4. CASE \E n \in DOMAIN codes : A!VerifyEmail(u, n) \/ A!WrongCode(u, "verify", n)
    BY <2>4, VerifyEmailPreserves, CodesPreserve
  <2> QED BY <1>1, <2>1, <2>2, <2>3, <2>4 DEF A!ActivationStep
<1>2. ASSUME NEW u \in People, A!PasswordStep(u) PROVE AccountInv' /\ A!ModerationIsKept
  <2>1. CASE A!RequestCode(u, "reset")
    BY <2>1, CodesPreserve
  <2>2. CASE \E n \in DOMAIN codes : A!ResetPassword(u, n) \/ A!WrongCode(u, "reset", n)
    BY <2>2, ResetPasswordPreserves, CodesPreserve
  <2> QED BY <1>2, <2>1, <2>2 DEF A!PasswordStep
<1>3. ASSUME NEW u \in People, A!ModerationStep(u) PROVE AccountInv' /\ A!ModerationIsKept
  BY <1>3, ChangeAccountPreserves, EraseAccountPreserves DEF A!ModerationStep
<1>4. CASE A!SessionStep
  <2>1. CASE \E q \in LoginRequests :
                (\E u \in People : A!Login(q, u)) \/ \E s \in Sessions : A!CreateSession(q, s)
    BY <2>1, LoginPreserves, CreateSessionPreserves
  <2>2. CASE \E s \in Sessions : A!Logout(s) \/ \E t \in Sessions : A!Refresh(s, t)
    BY <2>2, LogoutPreserves, RefreshPreserves
  <2>3. CASE \E u \in People : A!LogoutAll(u)
    BY <2>3, LogoutAllPreserves
  <2> QED BY <1>4, <2>1, <2>2, <2>3 DEF A!SessionStep
<1>5. CASE A!PhoneStep
  <2>1. CASE \E u \in People, n \in Numbers : A!RequestPhoneChange(u, n)
    BY <2>1, RequestPhoneChangePreserves
  <2>2. ASSUME NEW i \in DOMAIN texts,
               \/ \E yes, cut \in BOOLEAN : A!SendText(i, yes, cut)
               \/ A!ActivateText(i) \/ A!TextLapses(i)
               \/ \E right \in BOOLEAN : A!VerifyPhoneChange(i, right)
        PROVE  AccountInv' /\ A!ModerationIsKept
    <3>1. CASE \E yes, cut \in BOOLEAN : A!SendText(i, yes, cut)
      BY <3>1, SendTextPreserves
    <3>2. CASE A!ActivateText(i) \/ A!TextLapses(i)
      BY <3>2, ActivateTextPreserves, TextLapsesPreserves
    <3>3. CASE \E right \in BOOLEAN : A!VerifyPhoneChange(i, right)
      BY <3>3, VerifyPhoneChangePreserves
    <3> QED BY <2>2, <3>1, <3>2, <3>3
  <2> QED BY <1>5, <2>1, <2>2 DEF A!PhoneStep
<1>6. CASE \E n \in DOMAIN codes : A!CodeLapses(n)
  BY <1>6, CodesPreserve, AccountsAssumption
<1>7. CASE UNCHANGED A!accountVars
  <2>1. login' \in [LoginRequests -> Found \cup {None}]
    BY <1>7 DEF AccountInv, AccountTypes, A!accountVars
  <2> QED BY <1>7, <2>1, AccountsRest DEF A!accountVars
<1> QED BY <1>1, <1>2, <1>3, <1>4, <1>5, <1>6, <1>7 DEF A!Next

-----------------------------------------------------------------------------
(* The second factor of an administrator                                   *)

Proof == [at : Nat, until : Nat, secret : Nat]
Credential == [enrolled : BOOLEAN, last : Int, session : Sessions \cup {None}, until : Int]

FactorTypes ==
    /\ now \in Nat /\ secrets \in Nat
    /\ live \subseteq Sessions /\ carrying \subseteq Sessions
    /\ rotated \in [Sessions -> Sessions \cup {None}]
    /\ credential \in Credential \cup {None}
    /\ proof \in [Sessions -> Proof \cup {None}]
    /\ accepted \subseteq Nat \X Nat

\* A session exists before it is used, rotated or given a proof.
SessionsExist ==
    /\ \A s \in live : rotated[s] # None
    /\ \A s \in carrying : rotated[s] # None
    /\ \A s \in Sessions : proof[s] # None => rotated[s] # None

\* A proof was given for a code that was accepted, and for no longer than the window.
ProofsAreEarned ==
    \A s \in Sessions : proof[s] # None =>
        /\ proof[s].at <= now
        /\ proof[s].until = proof[s].at + ProofFor
        /\ \E step \in -1..1 : <<proof[s].secret, proof[s].at + step>> \in accepted

\* A proof of the secret that the credential has.
Current(s) == proof[s] # None => F!Enrolled /\ proof[s].secret = secrets

\* A live session has no other, and is about to be handed no other.
ProofsFollowSecret ==
    \A s \in live : Current(s) /\ (s \in carrying => Current(rotated[s]))

\* The codes accepted for the secret of the credential are those up to the last.
CodesInOrder ==
    /\ \A code \in accepted : code[1] <= secrets
    /\ credential # None =>
          \A code \in accepted : code[1] = secrets => code[2] <= credential.last

FactorInv ==
    FactorTypes /\ SessionsExist /\ ProofsAreEarned /\ ProofsFollowSecret /\ CodesInOrder

LEMMA FactorStarts == F!Init => FactorInv
BY FactorAssumption
DEF F!Init, FactorInv, FactorTypes, SessionsExist, ProofsAreEarned, ProofsFollowSecret, Current,
    CodesInOrder, F!Enrolled

\* What the property asks of a step.
LEMMA FactorNow == FactorInv => F!ProofsAreCurrent
<1> SUFFICES ASSUME FactorInv, NEW s \in Sessions, F!Verified(s)
             PROVE  /\ proof[s].secret = secrets
                    /\ \E step \in -1..1 : <<secrets, proof[s].at + step>> \in accepted
                    /\ proof[s].until = proof[s].at + ProofFor
  BY DEF F!ProofsAreCurrent
<1>1. s \in live /\ proof[s] # None
  BY DEF F!Verified, F!Valid
<1>2. proof[s].secret = secrets
  BY <1>1 DEF FactorInv, ProofsFollowSecret, Current
<1> QED BY <1>1, <1>2 DEF FactorInv, ProofsAreEarned

\* A step that gives no proof and accepts no code.
LEMMA ProofsRest ==
    ASSUME FactorInv, UNCHANGED proof
    PROVE  F!CodesAreUsedOnce /\ F!HandedOnAsItIs
BY DEF F!CodesAreUsedOnce, F!HandedOnAsItIs, FactorInv, FactorTypes, Proof

LEMMA FactorLoginPreserves ==
    ASSUME FactorInv, NEW s \in Sessions, F!Login(s)
    PROVE  FactorInv'
<1> USE DEF F!Login, FactorInv
<1>1. FactorTypes'
  BY DEF FactorTypes
<1>2. SessionsExist'
  BY AccountsAssumption DEF SessionsExist, FactorTypes
<1>3. ProofsAreEarned' /\ CodesInOrder'
  BY DEF ProofsAreEarned, CodesInOrder
<1>4. proof[s] = None /\ s \notin carrying
  BY DEF SessionsExist
<1>5. ProofsFollowSecret'
  BY <1>4 DEF ProofsFollowSecret, Current, F!Enrolled, FactorTypes
<1> QED BY <1>1, <1>2, <1>3, <1>5

LEMMA FactorRefreshPreserves ==
    ASSUME FactorInv, NEW s \in Sessions, NEW t \in Sessions, F!Refresh(s, t)
    PROVE  FactorInv'
<1> USE DEF F!Refresh, FactorInv
<1>1. FactorTypes'
  BY DEF FactorTypes
<1>2. SessionsExist'
  BY AccountsAssumption DEF SessionsExist, FactorTypes
<1>3. ProofsAreEarned' /\ CodesInOrder'
  BY DEF ProofsAreEarned, CodesInOrder
<1>4. proof[t] = None /\ t \notin carrying /\ s # t
  BY DEF SessionsExist
<1>5. rotated'[t] = s /\ \A x \in Sessions \ {t} : rotated'[x] = rotated[x]
  BY DEF FactorTypes
<1>6. \A x \in Sessions : Current(x) => Current(x)'
  BY DEF Current, F!Enrolled
<1>7. Current(t) /\ Current(s)
  BY <1>4 DEF Current, ProofsFollowSecret
<1>8. ASSUME NEW x \in live' PROVE Current(x)' /\ (x \in carrying' => Current(rotated[x])')
  <2>1. CASE x = t
    BY <2>1, <1>5, <1>6, <1>7 DEF Current, F!Enrolled
  <2>2. CASE x # t
    BY <2>2, <1>5, <1>6 DEF ProofsFollowSecret, FactorTypes, Current, F!Enrolled
  <2> QED BY <2>1, <2>2
<1>9. ProofsFollowSecret'
  BY <1>8 DEF ProofsFollowSecret
<1> QED BY <1>1, <1>2, <1>3, <1>9

\* Sessions that end, a handover that fails, time, a failed attempt.
LEMMA LessPreserves ==
    ASSUME FactorInv,
           live' \subseteq live, carrying' \subseteq carrying, now' \in Nat, now <= now',
           UNCHANGED <<rotated, secrets, credential, proof, accepted>>
    PROVE  FactorInv'
<1> USE DEF FactorInv
<1>1. FactorTypes' /\ SessionsExist' /\ CodesInOrder'
  BY DEF FactorTypes, SessionsExist, CodesInOrder
<1>2. ProofsAreEarned'
  BY DEF ProofsAreEarned, FactorTypes, Proof
<1>3. ProofsFollowSecret'
  BY DEF ProofsFollowSecret, Current, F!Enrolled
<1> QED BY <1>1, <1>2, <1>3

LEMMA BeginPreserves ==
    ASSUME FactorInv, NEW s \in Sessions, F!BeginMFA(s)
    PROVE  FactorInv'
<1> USE DEF F!BeginMFA, FactorInv, F!sessionVars
<1> DEFINE new == [enrolled |-> FALSE, last |-> -1, session |-> s, until |-> now + PendingFor]
<1>1. credential' \in Credential /\ credential'.enrolled = FALSE /\ credential'.last = -1
  <2>1. now + PendingFor \in Int
    BY FactorAssumption DEF FactorTypes
  <2>2. new \in Credential
    BY <2>1 DEF Credential
  <2>3. credential' = new
    OBVIOUS
  <2> QED BY <2>2, <2>3
<1>2. FactorTypes'
  BY <1>1 DEF FactorTypes
<1>3. SessionsExist' /\ ProofsAreEarned'
  BY DEF SessionsExist, ProofsAreEarned
<1>4. CodesInOrder'
  BY DEF CodesInOrder, FactorTypes
<1>5. \A x \in live : proof[x] = None /\ (x \in carrying => proof[rotated[x]] = None)
  BY DEF ProofsFollowSecret, Current
<1>6. ProofsFollowSecret'
  BY <1>5 DEF ProofsFollowSecret, Current
<1> QED BY <1>2, <1>3, <1>4, <1>6

LEMMA VerifyPreserves ==
    ASSUME FactorInv, NEW s \in Sessions, NEW step \in (now - 1)..(now + 1), F!VerifyMFA(s, step)
    PROVE  FactorInv' /\ F!CodesAreUsedOnce /\ F!HandedOnAsItIs
<1> USE DEF F!VerifyMFA, FactorInv, F!sessionVars, F!ValidTOTP, F!Unused, F!MayTry
<1> DEFINE new == [at |-> now, until |-> now + ProofFor, secret |-> secrets]
<1>1. new \in Proof /\ new # None
  BY FactorAssumption DEF FactorTypes, Proof
<1>2. step \in Nat /\ <<secrets, step>> \in Nat \X Nat /\ now \in Nat
  BY DEF FactorTypes
<1>3. /\ credential' \in Credential /\ credential' # None
      /\ credential'.enrolled = TRUE /\ credential'.last = step
  <2> DEFINE used == [enrolled |-> TRUE, last |-> step, session |-> None, until |-> 0]
  <2>1. used \in Credential
    BY <1>2 DEF Credential
  <2>2. None \notin Credential
    BY FactorAssumption DEF Credential
  <2>3. credential' = used /\ used.enrolled = TRUE /\ used.last = step
    OBVIOUS
  <2> QED BY <2>1, <2>2, <2>3
<1>4. FactorTypes'
  BY <1>1, <1>2, <1>3 DEF FactorTypes
<1>5. proof'[s] = new /\ \A x \in Sessions \ {s} : proof'[x] = proof[x]
  BY DEF FactorTypes
<1>6. SessionsExist'
  BY <1>5 DEF SessionsExist
<1>7. new.at = now /\ new.until = now + ProofFor /\ new.secret = secrets
  OBVIOUS
<1>8. \E d \in -1..1 : <<secrets, now + d>> \in accepted'
  <2>1. step - now \in -1..1 /\ now + (step - now) = step
    BY <1>2
  <2> QED BY <2>1
<1>9. ProofsAreEarned'
  <2> SUFFICES ASSUME NEW x \in Sessions, proof'[x] # None
               PROVE  /\ proof'[x].at <= now
                      /\ proof'[x].until = proof'[x].at + ProofFor
                      /\ \E d \in -1..1 : <<proof'[x].secret, proof'[x].at + d>> \in accepted'
    BY DEF ProofsAreEarned
  <2>1. CASE x = s
    BY <2>1, <1>2, <1>5, <1>7, <1>8
  <2>2. CASE x # s
    BY <2>2, <1>5 DEF ProofsAreEarned
  <2> QED BY <2>1, <2>2
<1>10. credential # None /\ credential \in Credential /\ step > credential.last
  BY DEF FactorTypes
<1>11. CodesInOrder'
  <2> SUFFICES ASSUME NEW code \in accepted'
               PROVE  code[1] <= secrets /\ (code[1] = secrets => code[2] <= step)
    BY <1>3 DEF CodesInOrder
  <2>1. CASE code = <<secrets, step>>
    BY <2>1, <1>2 DEF FactorTypes
  <2>2. CASE code \in accepted
    BY <2>2, <1>2, <1>10 DEF CodesInOrder, FactorTypes, Credential
  <2> QED BY <2>1, <2>2
<1>12. F!Enrolled'
  BY <1>3 DEF F!Enrolled
<1>13. ASSUME NEW x \in Sessions, Current(x) PROVE Current(x)'
  <2>1. CASE x = s
    BY <2>1, <1>5, <1>7, <1>12 DEF Current
  <2>2. CASE x # s
    BY <2>2, <1>5, <1>13, <1>12 DEF Current
  <2> QED BY <2>1, <2>2
<1>14. \A x \in carrying : rotated[x] \in Sessions
  BY DEF SessionsExist, FactorTypes
<1>15. ProofsFollowSecret'
  <2> SUFFICES ASSUME NEW x \in live PROVE Current(x)' /\ (x \in carrying => Current(rotated[x])')
    BY DEF ProofsFollowSecret
  <2>1. Current(x) /\ (x \in carrying => Current(rotated[x])) /\ x \in Sessions
    BY DEF ProofsFollowSecret, FactorTypes
  <2>2. \A y \in Sessions : y = rotated[x] /\ Current(y) => Current(y)'
    BY <1>13
  <2> QED BY <2>1, <2>2, <1>13, <1>14 DEF Current
<1>16. FactorInv'
  BY <1>4, <1>6, <1>9, <1>11, <1>15
<1>17. <<secrets, step>> \notin accepted
  BY <1>2, <1>10 DEF CodesInOrder, Credential
<1>18. F!CodesAreUsedOnce
  BY <1>17 DEF F!CodesAreUsedOnce
<1>19. F!HandedOnAsItIs
  <2> SUFFICES ASSUME NEW x \in Sessions
               PROVE  /\ proof[x] # None => proof'[x] # None /\ proof'[x].at >= proof[x].at
                      /\ proof'[x] # proof[x] => proof'[x].at = now \/ \E t \in Sessions : proof'[x] = proof[t]
    BY DEF F!HandedOnAsItIs
  <2>1. CASE x = s
    BY <2>1, <1>1, <1>2, <1>5, <1>7 DEF ProofsAreEarned, FactorTypes, Proof
  <2>2. CASE x # s
    BY <2>2, <1>5 DEF FactorTypes, Proof
  <2> QED BY <2>1, <2>2
<1> QED BY <1>16, <1>18, <1>19

LEMMA CarryPreserves ==
    ASSUME FactorInv, NEW s \in Sessions, F!CarryMFAProof(s)
    PROVE  FactorInv' /\ F!CodesAreUsedOnce /\ F!HandedOnAsItIs
<1> USE DEF F!CarryMFAProof, FactorInv
<1>1. s \in carrying /\ s \notin carrying' /\ carrying' \subseteq carrying
  OBVIOUS
<1>2. rotated[s] \in Sessions
  BY <1>1 DEF SessionsExist, FactorTypes
<1>3. F!CodesAreUsedOnce
  BY <1>1 DEF F!CodesAreUsedOnce
<1>4. CASE proof' = proof
  BY <1>1, <1>3, <1>4, ProofsRest, LessPreserves DEF FactorTypes
<1>5. CASE proof' # proof
  <2>1. /\ s \in live /\ proof[s] = None /\ proof[rotated[s]] # None
        /\ proof' = [proof EXCEPT ![s] = proof[rotated[s]]]
    BY <1>5 DEF F!Carried, F!Valid, FactorTypes
  <2>2. PICK r \in Sessions : r = rotated[s]
    BY <1>2
  <2>3. proof'[s] = proof[r] /\ \A x \in Sessions \ {s} : proof'[x] = proof[x]
    BY <2>1, <2>2 DEF FactorTypes
  <2>4. FactorTypes'
    BY <2>1, <2>2, <2>3, <1>1 DEF FactorTypes
  <2>5. SessionsExist'
    BY <2>1, <2>3, <1>1 DEF SessionsExist
  <2>6. ProofsAreEarned'
    BY <2>3 DEF ProofsAreEarned
  <2>7. CodesInOrder'
    BY DEF CodesInOrder
  <2>8. Current(r)
    BY <2>1, <2>2, <1>1 DEF ProofsFollowSecret
  <2>9. \A x \in Sessions : Current(x) => Current(x)'
    BY <2>3, <2>8 DEF Current, F!Enrolled
  <2>10. ProofsFollowSecret'
    <3> SUFFICES ASSUME NEW x \in live PROVE Current(x)' /\ (x \in carrying => Current(rotated[x])')
      BY <1>1 DEF ProofsFollowSecret
    <3>1. Current(x) /\ (x \in carrying => Current(rotated[x])) /\ x \in Sessions
      BY DEF ProofsFollowSecret, FactorTypes
    <3>2. x \in carrying => rotated[x] \in Sessions
      BY DEF SessionsExist, FactorTypes
    <3>3. \A y \in Sessions : y = rotated[x] /\ Current(y) => Current(y)'
      BY <2>9
    <3> QED BY <3>1, <3>2, <3>3, <2>9 DEF Current
  <2>11. FactorInv'
    BY <2>4, <2>5, <2>6, <2>7, <2>10
  <2>12. F!HandedOnAsItIs
    BY <2>1, <2>2, <2>3 DEF F!HandedOnAsItIs, FactorTypes, Proof
  <2> QED BY <2>11, <2>12, <1>3
<1> QED BY <1>4, <1>5

LEMMA RecoverPreserves ==
    ASSUME FactorInv, F!RecoverMFA
    PROVE  FactorInv'
BY DEF F!RecoverMFA, F!Revoked, FactorInv, FactorTypes, SessionsExist, ProofsAreEarned,
       ProofsFollowSecret, CodesInOrder

LEMMA FactorProceeds == FactorInv /\ [F!Next]_F!factorVars => FactorInv' /\ F!SecondFactorHolds
<1> SUFFICES ASSUME FactorInv, [F!Next]_F!factorVars
             PROVE  FactorInv' /\ F!CodesAreUsedOnce /\ F!HandedOnAsItIs
  BY FactorNow, PTL DEF F!SecondFactorHolds
<1>1. now \in Nat
  BY DEF FactorInv, FactorTypes
<1>2. CASE F!StepPasses
  BY <1>1, <1>2, LessPreserves, ProofsRest DEF F!StepPasses, F!sessionVars
<1>3. CASE F!RecoverMFA
  BY <1>3, RecoverPreserves, ProofsRest DEF F!RecoverMFA
<1>4. ASSUME NEW s \in Sessions, F!Login(s)
      PROVE  FactorInv' /\ F!CodesAreUsedOnce /\ F!HandedOnAsItIs
  BY <1>4, FactorLoginPreserves, ProofsRest DEF F!Login
<1>5. ASSUME NEW s \in Sessions, F!Logout(s)
      PROVE  FactorInv' /\ F!CodesAreUsedOnce /\ F!HandedOnAsItIs
  BY <1>1, <1>5, LessPreserves, ProofsRest DEF F!Logout
<1>6. ASSUME NEW s \in Sessions, F!CarryFails(s)
      PROVE  FactorInv' /\ F!CodesAreUsedOnce /\ F!HandedOnAsItIs
  BY <1>1, <1>6, LessPreserves, ProofsRest DEF F!CarryFails
<1>7. ASSUME NEW s \in Sessions, F!BeginMFA(s)
      PROVE  FactorInv' /\ F!CodesAreUsedOnce /\ F!HandedOnAsItIs
  BY <1>7, BeginPreserves, ProofsRest DEF F!BeginMFA
<1>8. ASSUME NEW s \in Sessions, F!FailedSecurityAttempt(s)
      PROVE  FactorInv' /\ F!CodesAreUsedOnce /\ F!HandedOnAsItIs
  BY <1>1, <1>8, LessPreserves, ProofsRest DEF F!FailedSecurityAttempt, F!sessionVars
<1>9. ASSUME NEW s \in Sessions, NEW t \in Sessions, F!Refresh(s, t)
      PROVE  FactorInv' /\ F!CodesAreUsedOnce /\ F!HandedOnAsItIs
  BY <1>9, FactorRefreshPreserves, ProofsRest DEF F!Refresh
<1>10. CASE UNCHANGED F!factorVars
  BY <1>1, <1>10, LessPreserves, ProofsRest DEF F!factorVars
<1> QED
  BY <1>2, <1>3, <1>4, <1>5, <1>6, <1>7, <1>8, <1>9, <1>10, CarryPreserves, VerifyPreserves DEF F!Next

-----------------------------------------------------------------------------
(* What administrators put into force                                      *)

AskedFor == {"put in force", "enable", "set", "organization", "rollout"}
AskedOf == Items \cup Switches \cup Settings \cup Releases \cup {None}

Request ==
    [action : AskedFor, target : AskedOf,
     by : Admins, required : Nat, yes : SUBSET Admins, no : SUBSET Admins,
     status : {"pending", "approved", "rejected", "expired"}, lapsed : BOOLEAN]

Acceptance == [status : G!Rolling \cup {"reviewing", "rejected", "rolled_back"}, approval : Approvals]

GovernanceTypes ==
    /\ request \in [Approvals -> Request \cup {None}]
    /\ item \in [Items -> {"candidate", "evaluating", "approved", "production", "retired",
                           "draft", "active", None}]
    /\ passed \subseteq Items
    /\ seen \in [Items -> (SUBSET Items) \cup {None}]
    /\ release \in [Releases -> Acceptance \cup {None}]

\* An approved request has as many votes as it asked for, at least two; nobody is against
\* it, and no vote is that of the one who asked.
RequestsVouched ==
    \A q \in Approvals : request[q] # None =>
        /\ request[q].required >= 2 /\ request[q].by \notin request[q].yes
        /\ request[q].status = "approved" =>
              request[q].no = {} /\ G!Cardinality(request[q].yes) >= request[q].required

\* What is or was in force.
Settled(i) == item[i] \in {"production", "active", "retired"}

\* A promotion under way is of an item that was never in force, with an approval and, of a
\* model, an evaluation that passed; what it has seen serves the same.
PromotionsApproved ==
    \A i \in Items : seen[i] # None =>
        /\ ~Settled(i) /\ \A j \in seen[i] : Settled(j) /\ SlotOf[j] = SlotOf[i]
        /\ \E q \in Approvals : G!Approved(q, "put in force", i)
        /\ KindOf[i] = "model" => i \in passed

\* The approval of a release was asked for this release.
ReleasesAsked ==
    \A r \in Releases : release[r] # None =>
        \E q \in Approvals :
            /\ q = release[r].approval /\ request[q] # None
            /\ request[q].action = "rollout" /\ request[q].target = r

GovernanceInv ==
    GovernanceTypes /\ RequestsVouched /\ PromotionsApproved /\ ReleasesAsked /\ G!OneInForce

LEMMA NoneIsNoRequest == None \notin Request
BY GovernanceAssumption DEF Request, AskedFor, AskedOf

LEMMA GovernanceStarts == G!Init => GovernanceInv
<1> SUFFICES ASSUME G!Init PROVE GovernanceInv
  OBVIOUS
<1>1. GovernanceTypes
  BY GovernanceAssumption DEF G!Init, G!InForceAs, GovernanceTypes
<1>2. RequestsVouched /\ PromotionsApproved /\ ReleasesAsked
  BY DEF G!Init, RequestsVouched, PromotionsApproved, ReleasesAsked
<1>3. \A i \in Items : G!InForce(i) => i \in Seeded
  BY GovernanceAssumption DEF G!Init, G!InForce
<1>4. G!OneInForce
  BY <1>3, GovernanceAssumption DEF G!OneInForce, G!Rivals
<1> QED BY <1>1, <1>2, <1>4 DEF GovernanceInv

\* Requests only ever gain votes, and are what they were when they were asked for.
RequestsGrow ==
    \A q \in Approvals : request[q] # None =>
        /\ request'[q] # None
        /\ request'[q].action = request[q].action /\ request'[q].target = request[q].target
        /\ request[q].status # "pending" => request'[q].status = request[q].status
        /\ request[q].yes \subseteq request'[q].yes /\ request[q].no \subseteq request'[q].no

\* What the property asks of a step.
StepGoverned == G!FourEyes /\ G!ServiceContinues /\ G!DecisionsStand

LEMMA RequestsStand == RequestsGrow => G!DecisionsStand
BY DEF RequestsGrow, G!DecisionsStand

LEMMA ItemsRest == item' = item => G!ServiceContinues
BY DEF G!ServiceContinues, G!InForce

LEMMA ApprovedIsVouched ==
    ASSUME RequestsVouched, NEW action, NEW target, NEW q \in Approvals,
           G!Approved(q, action, target)
    PROVE  G!Vouched(action, target)
BY DEF RequestsVouched, G!Approved, G!Vouched

\* A step of the requests alone.
LEMMA RequestsPreserve ==
    ASSUME GovernanceInv, GovernanceTypes', RequestsVouched', RequestsGrow,
           UNCHANGED <<item, passed, seen, enabled, risky, release>>
    PROVE  GovernanceInv' /\ StepGoverned
<1> USE DEF GovernanceInv
<1>1. \A q \in Approvals, i \in Items :
         G!Approved(q, "put in force", i) => G!Approved(q, "put in force", i)'
  BY DEF G!Approved, RequestsGrow
<1>2. PromotionsApproved'
  BY <1>1 DEF PromotionsApproved, Settled
<1>3. ReleasesAsked'
  BY DEF ReleasesAsked, RequestsGrow
<1>4. G!OneInForce'
  BY DEF G!OneInForce, G!InForce, G!Rivals
<1>5. G!FourEyes
  BY DEF G!FourEyes, G!InForce
<1> QED BY <1>2, <1>3, <1>4, <1>5, RequestsStand, ItemsRest DEF StepGoverned

\* A request that is new: nobody has decided about it.
Undecided(r) == r.required \in Nat \ {0, 1} /\ r.yes = {} /\ r.status = "pending"

NewRequest(a, n, action, target) ==
    [action |-> action, target |-> target, by |-> a, required |-> n,
     yes |-> {}, no |-> {}, status |-> "pending", lapsed |-> FALSE]

LEMMA NewRequestType ==
    ASSUME NEW a \in Admins, NEW n \in Nat \ {0, 1},
           NEW action \in AskedFor, NEW target \in AskedOf
    PROVE  \E new \in Request :
              /\ new = NewRequest(a, n, action, target) /\ Undecided(new)
              /\ new.action = action /\ new.target = target
<1> DEFINE new == NewRequest(a, n, action, target)
<1>1. new \in Request
  BY DEF Request, NewRequest
<1>2. Undecided(new) /\ new.action = action /\ new.target = target
  BY DEF Undecided, NewRequest
<1> HIDE DEF new
<1>3. new = NewRequest(a, n, action, target)
  BY DEF new
<1> QED BY <1>1, <1>2, <1>3

LEMMA AskPreserves ==
    ASSUME GovernanceTypes, RequestsVouched, NEW q \in Approvals,
           NEW a \in Admins, NEW n \in Nat \ {0, 1}, NEW action \in AskedFor, NEW target \in AskedOf,
           request[q] = None, request' = [request EXCEPT ![q] = NewRequest(a, n, action, target)]
    PROVE  /\ request' \in [Approvals -> Request \cup {None}]
           /\ RequestsVouched' /\ RequestsGrow
<1>1. PICK new \in Request :
         /\ new = NewRequest(a, n, action, target) /\ Undecided(new)
         /\ new.action = action /\ new.target = target
  BY NewRequestType
<1>2. new # None
  BY NoneIsNoRequest
<1>3. request'[q] = new /\ \A x \in Approvals \ {q} : request'[x] = request[x]
  BY <1>1 DEF GovernanceTypes
<1>4. request' \in [Approvals -> Request \cup {None}]
  BY <1>1 DEF GovernanceTypes
<1>5. new.required >= 2 /\ new.yes = {} /\ new.status = "pending"
  BY <1>1 DEF Undecided
<1>6. RequestsVouched'
  BY <1>3, <1>5 DEF RequestsVouched
<1>7. RequestsGrow
  BY <1>3 DEF RequestsGrow
<1> QED BY <1>4, <1>6, <1>7

LEMMA LapsePreserves ==
    ASSUME GovernanceInv, NEW q \in Approvals, G!RequestLapses(q)
    PROVE  GovernanceInv' /\ StepGoverned
<1> USE DEF G!RequestLapses, GovernanceInv
<1>1. PICK r \in Request : r = request[q]
  BY DEF GovernanceTypes
<1>2. request' = [request EXCEPT ![q] = [r EXCEPT !.lapsed = TRUE]]
  BY <1>1
<1>3. [r EXCEPT !.lapsed = TRUE] \in Request
  BY <1>1 DEF Request
<1>4. [r EXCEPT !.lapsed = TRUE] # None
  BY <1>3, NoneIsNoRequest
<1>5. PICK new \in Request : new = [r EXCEPT !.lapsed = TRUE]
  BY <1>3
<1>6. /\ new.action = r.action /\ new.target = r.target /\ new.by = r.by
      /\ new.required = r.required /\ new.yes = r.yes /\ new.no = r.no /\ new.status = r.status
  BY <1>1, <1>5 DEF Request
<1>7. request'[q] = new /\ \A x \in Approvals \ {q} : request'[x] = request[x]
  BY <1>2, <1>5 DEF GovernanceTypes
<1>8. GovernanceTypes'
  BY <1>2, <1>5 DEF GovernanceTypes
<1>9. RequestsVouched'
  BY <1>1, <1>6, <1>7 DEF RequestsVouched
<1>10. RequestsGrow
  BY <1>1, <1>4, <1>5, <1>6, <1>7 DEF RequestsGrow
<1> QED BY <1>8, <1>9, <1>10, RequestsPreserve

LEMMA DecisionPreserves ==
    ASSUME GovernanceInv, NEW a \in Admins, NEW q \in Approvals, NEW approve \in BOOLEAN,
           G!DecideApproval(a, q, approve)
    PROVE  GovernanceInv' /\ StepGoverned
<1> USE DEF GovernanceInv
<1>1. PICK r \in Request : r = request[q]
  BY DEF GovernanceTypes, G!DecideApproval
<1>2. r # None /\ a # r.by /\ r.status = "pending"
  BY <1>1 DEF G!DecideApproval, G!MayDecide
<1>3. PICK voted \in Request :
         voted = IF approve THEN [r EXCEPT !.yes = @ \cup {a}] ELSE [r EXCEPT !.no = @ \cup {a}]
  <2>1. [r EXCEPT !.yes = @ \cup {a}] \in Request /\ [r EXCEPT !.no = @ \cup {a}] \in Request
    BY <1>1 DEF Request
  <2> QED BY <2>1
<1>4. /\ voted.action = r.action /\ voted.target = r.target /\ voted.by = r.by
      /\ voted.required = r.required
      /\ r.yes \subseteq voted.yes /\ voted.yes \subseteq r.yes \cup {a}
      /\ r.no \subseteq voted.no
  BY <1>1, <1>3 DEF Request
<1>5. PICK new \in Request :
         new = IF r.lapsed THEN [r EXCEPT !.status = "expired"]
               ELSE [voted EXCEPT !.status = G!Outcome(voted)]
  <2>1. PICK outcome \in {"pending", "approved", "rejected"} : outcome = G!Outcome(voted)
    BY DEF G!Outcome
  <2>2. [r EXCEPT !.status = "expired"] \in Request
    BY <1>1 DEF Request
  <2>3. [voted EXCEPT !.status = outcome] \in Request
    BY DEF Request
  <2> QED BY <2>1, <2>2, <2>3
<1>6. /\ new.action = r.action /\ new.target = r.target /\ new.by = r.by
      /\ new.required = r.required
      /\ r.yes \subseteq new.yes /\ new.yes \subseteq r.yes \cup {a}
      /\ r.no \subseteq new.no
  BY <1>1, <1>3, <1>4, <1>5 DEF Request
<1>7. new.status = "approved" => new.no = {} /\ G!Cardinality(new.yes) >= new.required
  <2>1. CASE r.lapsed
    BY <2>1, <1>1, <1>5 DEF Request
  <2>2. CASE ~r.lapsed
    <3>1. new.status = G!Outcome(voted) /\ new.no = voted.no /\ new.yes = voted.yes
          /\ new.required = voted.required
      BY <2>2, <1>3, <1>5 DEF Request
    <3> QED BY <3>1 DEF G!Outcome
  <2> QED BY <2>1, <2>2
<1>8. request' = [request EXCEPT ![q] = new]
  BY <1>1, <1>3, <1>5 DEF G!DecideApproval
<1>9. request'[q] = new /\ \A x \in Approvals \ {q} : request'[x] = request[x]
  BY <1>8 DEF GovernanceTypes
<1>10. new # None
  BY NoneIsNoRequest
<1>11. GovernanceTypes'
  BY <1>8 DEF GovernanceTypes, G!DecideApproval
<1>12. RequestsVouched'
  BY <1>1, <1>2, <1>6, <1>7, <1>9 DEF RequestsVouched
<1>13. RequestsGrow
  BY <1>1, <1>2, <1>6, <1>9, <1>10 DEF RequestsGrow
<1> QED BY <1>11, <1>12, <1>13, RequestsPreserve DEF G!DecideApproval

\* A step that touches none of the requests.
LEMMA RequestsRest ==
    ASSUME GovernanceInv, UNCHANGED request
    PROVE  /\ RequestsVouched' /\ RequestsGrow
           /\ \A q \in Approvals, i \in Items :
                 G!Approved(q, "put in force", i) => G!Approved(q, "put in force", i)'
BY DEF GovernanceInv, RequestsVouched, RequestsGrow, G!Approved

\* Items that wait, are registered or evaluated.
LEMMA WaitingPreserves ==
    ASSUME GovernanceInv, UNCHANGED <<request, seen, enabled, risky, release>>,
           NEW i \in Items, NEW status,
           \/ status \in {"candidate", "evaluating", "approved", "draft"} /\ ~Settled(i)
           \/ status = item[i],
           item' = [item EXCEPT ![i] = status],
           passed \subseteq passed', passed' \subseteq Items
    PROVE  GovernanceInv' /\ StepGoverned
<1> USE DEF GovernanceInv
<1>1. GovernanceTypes'
  BY DEF GovernanceTypes
<1>2. \A j \in Items : (Settled(j)' <=> Settled(j)) /\ (Settled(j) => item'[j] = item[j])
  BY DEF Settled, GovernanceTypes
<1>3. RequestsVouched' /\ RequestsGrow /\ PromotionsApproved' /\ ReleasesAsked'
  <2>1. PromotionsApproved'
    BY <1>1, <1>2, RequestsRest DEF PromotionsApproved, GovernanceTypes
  <2> QED BY <2>1, RequestsRest DEF ReleasesAsked
<1>4. \A j \in Items : G!InForce(j)' <=> G!InForce(j)
  BY <1>2 DEF G!InForce, Settled
<1>5. G!OneInForce'
  BY <1>4 DEF G!OneInForce, G!Rivals
<1>6. G!FourEyes
  BY <1>4 DEF G!FourEyes
<1>7. G!ServiceContinues
  BY <1>2, <1>4 DEF G!ServiceContinues, G!InForce, Settled
<1> QED BY <1>1, <1>3, <1>5, <1>6, <1>7, RequestsStand DEF StepGoverned

LEMMA RegisterPreserves ==
    ASSUME GovernanceInv, NEW a \in Admins, NEW i \in Items,
           \/ G!RegisterIntelligenceModel(a, i) \/ G!RegisterIntelligencePrompt(a, i)
           \/ G!RequestModelEvaluation(a, i) \/ G!EvaluatePinned(a, i)
    PROVE  GovernanceInv' /\ StepGoverned
<1>1. PICK status \in {"candidate", "evaluating", "approved", "draft"} :
         item' = [item EXCEPT ![i] = status]
  BY DEF G!RegisterIntelligenceModel, G!RegisterIntelligencePrompt, G!RequestModelEvaluation,
         G!EvaluatePinned
<1>2. ~Settled(i)
  BY GovernanceAssumption
     DEF G!RegisterIntelligenceModel, G!RegisterIntelligencePrompt, G!RequestModelEvaluation,
         G!EvaluatePinned, G!Waiting, Settled
<1>3. /\ UNCHANGED <<request, seen, enabled, risky, release>>
      /\ passed \subseteq passed' /\ passed' \subseteq Items
  BY DEF G!RegisterIntelligenceModel, G!RegisterIntelligencePrompt, G!RequestModelEvaluation,
         G!EvaluatePinned, GovernanceInv, GovernanceTypes
<1> QED BY <1>1, <1>2, <1>3, WaitingPreserves

LEMMA EvaluationPreserves ==
    ASSUME GovernanceInv, NEW i \in Items, NEW gate \in BOOLEAN, G!EvaluateModel(i, gate)
    PROVE  GovernanceInv' /\ StepGoverned
<1>1. PICK status : /\ \/ status \in {"approved", "evaluating"} /\ G!Waiting(i)
                       \/ status = item[i]
                    /\ item' = [item EXCEPT ![i] = status]
  BY DEF G!EvaluateModel
<1>2. G!Waiting(i) => ~Settled(i)
  BY DEF G!Waiting, Settled
<1>3. passed \subseteq passed' /\ passed' \subseteq Items
  BY DEF G!EvaluateModel, GovernanceInv, GovernanceTypes
<1> QED BY <1>1, <1>2, <1>3, WaitingPreserves DEF G!EvaluateModel

LEMMA BeginPromotionPreserves ==
    ASSUME GovernanceInv, NEW a \in Admins, NEW i \in Items, NEW q \in Approvals,
           G!BeginPromotion(a, i, q)
    PROVE  GovernanceInv' /\ StepGoverned
<1> USE DEF GovernanceInv, G!BeginPromotion
<1>1. G!Rivals(i) \in SUBSET Items
  BY DEF G!Rivals
<1>2. GovernanceTypes'
  BY <1>1 DEF GovernanceTypes
<1>3. RequestsVouched' /\ RequestsGrow /\ ReleasesAsked'
  BY RequestsRest DEF ReleasesAsked
<1>4. \A j \in Items \ {i} : seen'[j] = seen[j]
  BY DEF GovernanceTypes
<1>5. PromotionsApproved'
  <2>1. ~Settled(i) /\ \A j \in G!Rivals(i) : Settled(j) /\ SlotOf[j] = SlotOf[i]
    BY DEF G!Waiting, G!Rivals, G!InForce, Settled
  <2>2. seen'[i] = G!Rivals(i)
    BY DEF GovernanceTypes
  <2>3. \A j \in Items : Settled(j)' <=> Settled(j)
    BY DEF Settled
  <2> SUFFICES ASSUME NEW k \in Items, seen'[k] # None
               PROVE  /\ ~Settled(k) /\ \A j \in seen'[k] : Settled(j) /\ SlotOf[j] = SlotOf[k]
                      /\ \E p \in Approvals : G!Approved(p, "put in force", k)'
                      /\ KindOf[k] = "model" => k \in passed
    BY <2>3, <1>2 DEF PromotionsApproved, GovernanceTypes
  <2>4. CASE k = i
    BY <2>1, <2>2, <2>4, RequestsRest
  <2>5. CASE k # i
    BY <1>4, <2>5, RequestsRest DEF PromotionsApproved
  <2> QED BY <2>4, <2>5
<1>6. G!OneInForce'
  BY DEF G!OneInForce, G!InForce, G!Rivals
<1>7. G!FourEyes
  BY DEF G!FourEyes, G!InForce
<1> QED BY <1>2, <1>3, <1>5, <1>6, <1>7, RequestsStand, ItemsRest DEF StepGoverned

\* The unique index and what the promotion has seen make the item the only one in force.
LEMMA EndPromotionPreserves ==
    ASSUME GovernanceInv, NEW i \in Items, G!EndPromotion(i)
    PROVE  GovernanceInv' /\ StepGoverned
<1> USE DEF GovernanceInv, G!EndPromotion
<1>1. PICK status \in {"production", "active"} :
         status = G!InForceAs(i)
  BY DEF G!InForceAs
<1>2. seen[i] # None /\ \A j \in Items \ {i} : seen'[j] = seen[j]
  BY DEF GovernanceTypes
<1>3. PICK q \in Approvals : G!Approved(q, "put in force", i)
  BY <1>2 DEF PromotionsApproved
<1>4. RequestsVouched' /\ RequestsGrow /\ ReleasesAsked'
  BY RequestsRest DEF ReleasesAsked
<1>5. seen' \in [Items -> (SUBSET Items) \cup {None}] /\ seen'[i] = None
  BY DEF GovernanceTypes
<1>6. /\ ~Settled(i) /\ seen[i] \subseteq Items
      /\ \A j \in seen[i] : Settled(j) /\ SlotOf[j] = SlotOf[i]
  BY <1>2 DEF PromotionsApproved, GovernanceTypes
<1>7. CASE ~G!IndexAllows(i)
  <2>1. item' = item
    BY <1>7
  <2>2. GovernanceTypes' /\ G!OneInForce'
    BY <1>5, <2>1 DEF GovernanceTypes, G!OneInForce, G!InForce, G!Rivals
  <2>3. G!FourEyes
    BY <2>1 DEF G!FourEyes, G!InForce
  <2>4. PromotionsApproved'
    BY <1>2, <1>5, <2>1, RequestsRest DEF PromotionsApproved, Settled
  <2> QED BY <1>4, <2>1, <2>2, <2>3, <2>4, RequestsStand, ItemsRest DEF StepGoverned
<1>8. CASE G!IndexAllows(i)
  <2>1. item' = [j \in Items |-> IF j = i THEN status
                                 ELSE IF j \in seen[i] THEN "retired" ELSE item[j]]
    BY <1>1, <1>8
  <2>2. item'[i] = status /\ \A j \in Items \ {i} : item'[j] = item[j] \/ item'[j] = "retired"
    BY <2>1
  <2>3. GovernanceTypes'
    BY <1>5, <2>1, <2>2 DEF GovernanceTypes
  <2>4. \A j \in Items \ {i} : G!InForce(j)' => G!InForce(j) /\ j \notin seen[i]
    BY <2>1 DEF G!InForce
  <2>5. G!Rivals(i)' = {}
    BY <1>8, <2>4 DEF G!Rivals, G!IndexAllows
  <2>6. \A j \in Items \ {i} : G!InForce(j)' => i \notin G!Rivals(j)' /\ G!Rivals(j)' \subseteq G!Rivals(j)
    BY <2>4, <2>5 DEF G!Rivals
  <2>7. KindOf[i] = "model" => i \in passed
    BY <1>2 DEF PromotionsApproved
  <2>8. G!OneInForce'
    <3> SUFFICES ASSUME NEW j \in Items, G!InForce(j)'
                 PROVE  G!Rivals(j)' = {} /\ (KindOf[j] = "model" => j \in passed \cup Seeded)
      BY DEF G!OneInForce
    <3>1. CASE j = i
      BY <3>1, <2>5, <2>7
    <3>2. CASE j # i
      BY <3>2, <2>4, <2>6 DEF G!OneInForce
    <3> QED BY <3>1, <3>2
  <2>9. G!Vouched("put in force", i)
    BY <1>3, ApprovedIsVouched
  <2>10. G!FourEyes
    BY <2>4, <2>9 DEF G!FourEyes
  <2>11. \A j \in Items \ {i} : Settled(j)' <=> Settled(j)
    BY <1>6, <2>1 DEF Settled
  <2>12. PromotionsApproved'
    <3> SUFFICES ASSUME NEW k \in Items, seen'[k] # None
                 PROVE  /\ ~Settled(k)' /\ \A j \in seen'[k] : Settled(j)' /\ SlotOf[j] = SlotOf[k]
                        /\ \E p \in Approvals : G!Approved(p, "put in force", k)'
                        /\ KindOf[k] = "model" => k \in passed
      BY DEF PromotionsApproved
    <3>1. k # i /\ seen'[k] = seen[k] /\ seen[k] # None /\ seen[k] \subseteq Items
      BY <1>2, <1>5 DEF GovernanceTypes
    <3>2. /\ ~Settled(k) /\ \A j \in seen[k] : Settled(j) /\ SlotOf[j] = SlotOf[k]
          /\ \E p \in Approvals : G!Approved(p, "put in force", k)
          /\ KindOf[k] = "model" => k \in passed
      BY <3>1 DEF PromotionsApproved
    <3>3. Settled(i)'
      BY <2>2 DEF Settled
    <3> QED BY <2>11, <3>1, <3>2, <3>3, RequestsRest
  <2>13. G!ServiceContinues
    <3>1. G!InForce(i)'
      BY <2>2 DEF G!InForce
    <3>2. ASSUME NEW j \in Items, G!InForce(j)
          PROVE  \E k \in Items : SlotOf[k] = SlotOf[j] /\ G!InForce(k)'
      <4>1. CASE j \in seen[i]
        BY <1>6, <3>1, <4>1
      <4>2. CASE j \notin seen[i] /\ j # i
        BY <2>1, <3>2, <4>2 DEF G!InForce
      <4>3. CASE j = i
        BY <3>1, <4>3
      <4> QED BY <4>1, <4>2, <4>3
    <3>3. ASSUME NEW j \in Items, Settled(j) PROVE item'[j] \in {item[j], "retired"}
      BY <1>6, <2>2, <3>3
    <3> QED BY <3>2, <3>3 DEF G!ServiceContinues, G!InForce, Settled
  <2> QED BY <1>4, <2>3, <2>8, <2>10, <2>12, <2>13, RequestsStand DEF StepGoverned
<1> QED BY <1>7, <1>8

\* Switches, settings and evidence.
LEMMA SwitchPreserves ==
    ASSUME GovernanceInv, UNCHANGED <<request, item, passed, seen, release>>,
           \A s \in enabled' \ enabled : \E q \in Approvals : G!Approved(q, "enable", s),
           \A k \in risky' \ risky : \E q \in Approvals : G!Approved(q, "set", k)
    PROVE  GovernanceInv' /\ StepGoverned
<1> USE DEF GovernanceInv
<1>1. GovernanceTypes' /\ RequestsVouched' /\ RequestsGrow /\ PromotionsApproved' /\ ReleasesAsked'
  BY RequestsRest DEF GovernanceTypes, PromotionsApproved, Settled, ReleasesAsked
<1>2. G!OneInForce'
  BY DEF G!OneInForce, G!InForce, G!Rivals
<1>3. G!FourEyes
  BY ApprovedIsVouched DEF G!FourEyes, G!InForce
<1> QED BY <1>1, <1>2, <1>3, RequestsStand, ItemsRest DEF StepGoverned

LEMMA CreateReleasePreserves ==
    ASSUME GovernanceInv, NEW a \in Admins, NEW r \in Releases, NEW q \in Approvals,
           G!CreateReleaseAcceptance(a, r, q)
    PROVE  GovernanceInv' /\ StepGoverned
<1> USE DEF GovernanceInv
<1>1. request[q] = None
  BY DEF G!CreateReleaseAcceptance, G!Ask
<1>2. /\ request' \in [Approvals -> Request \cup {None}]
      /\ RequestsVouched' /\ RequestsGrow
      /\ request'[q] # None /\ request'[q].action = "rollout" /\ request'[q].target = r
  <2>1. PICK n \in Nat \ {0, 1}, action \in AskedFor, target \in AskedOf :
           n = 2 /\ action = "rollout" /\ target = r
    BY DEF AskedFor, AskedOf
  <2>2. request' = [request EXCEPT ![q] = NewRequest(a, n, action, target)]
    BY <2>1 DEF G!CreateReleaseAcceptance, G!Ask, NewRequest
  <2>3. request' \in [Approvals -> Request \cup {None}] /\ RequestsVouched' /\ RequestsGrow
    BY <1>1, <2>2, AskPreserves
  <2>4. PICK new \in Request : new = NewRequest(a, n, action, target)
                             /\ new.action = action /\ new.target = target
    BY NewRequestType
  <2>5. request'[q] = new
    BY <2>2, <2>4 DEF GovernanceTypes
  <2> QED BY <2>1, <2>3, <2>4, <2>5, NoneIsNoRequest
<1> DEFINE new == [status |-> "reviewing", approval |-> q]
<1>3. new \in Acceptance /\ new.approval = q /\ new.status = "reviewing"
  BY DEF Acceptance
<1>4. release' = [release EXCEPT ![r] = new] /\ UNCHANGED <<item, passed, seen, enabled, risky>>
  BY DEF G!CreateReleaseAcceptance
<1> HIDE DEF new
<1>5. release'[r] = new /\ \A x \in Releases \ {r} : release'[x] = release[x]
  BY <1>4 DEF GovernanceTypes
<1>6. GovernanceTypes'
  BY <1>2, <1>3, <1>4 DEF GovernanceTypes
<1>7. ReleasesAsked'
  BY <1>2, <1>3, <1>5 DEF ReleasesAsked, RequestsGrow
<1>8. \A x \in Approvals, i \in Items :
         G!Approved(x, "put in force", i) => G!Approved(x, "put in force", i)'
  BY <1>2 DEF G!Approved, RequestsGrow
<1>9. PromotionsApproved' /\ G!OneInForce'
  BY <1>4, <1>8 DEF PromotionsApproved, Settled, G!OneInForce, G!InForce, G!Rivals
<1>10. G!FourEyes
  BY <1>3, <1>4, <1>5 DEF G!FourEyes, G!InForce, G!Rolling
<1> QED BY <1>2, <1>4, <1>6, <1>7, <1>9, <1>10, RequestsStand, ItemsRest DEF StepGoverned

LEMMA UpdateReleasePreserves ==
    ASSUME GovernanceInv, NEW a \in Admins, NEW r \in Releases,
           NEW status \in G!Rolling \cup {"rejected", "rolled_back"},
           G!UpdateReleaseAcceptance(a, r, status)
    PROVE  GovernanceInv' /\ StepGoverned
<1> USE DEF GovernanceInv, G!UpdateReleaseAcceptance
<1>1. PICK old \in Acceptance : old = release[r]
  BY DEF GovernanceTypes
<1>2. PICK new \in Acceptance : new = [old EXCEPT !.status = status]
  BY DEF Acceptance
<1>3. new.approval = old.approval /\ new.status = status
  BY <1>1, <1>2 DEF Acceptance
<1>4. release' = [release EXCEPT ![r] = new]
  BY <1>1, <1>2
<1>5. release'[r] = new /\ \A x \in Releases \ {r} : release'[x] = release[x]
  BY <1>4 DEF GovernanceTypes
<1>6. GovernanceTypes'
  BY <1>4 DEF GovernanceTypes
<1>7. PICK q \in Approvals : /\ q = old.approval /\ request[q] # None
                             /\ request[q].action = "rollout" /\ request[q].target = r
  BY <1>1 DEF ReleasesAsked
<1>8. ReleasesAsked'
  BY <1>3, <1>5, <1>7 DEF ReleasesAsked
<1>9. RequestsVouched' /\ RequestsGrow /\ PromotionsApproved' /\ G!OneInForce'
  BY RequestsRest DEF PromotionsApproved, Settled, G!OneInForce, G!InForce, G!Rivals
<1>10. status \in G!Rolling => G!Vouched("rollout", r)
  <2>1. status \in G!Rolling => G!Approved(q, "rollout", r)
    BY <1>1, <1>7 DEF G!NeedsApproval, G!Approved
  <2> QED BY <2>1, ApprovedIsVouched
<1>11. G!FourEyes
  BY <1>3, <1>5, <1>10 DEF G!FourEyes, G!InForce
<1> QED BY <1>6, <1>8, <1>9, <1>11, RequestsStand, ItemsRest DEF StepGoverned

LEMMA CreateApprovalPreserves ==
    ASSUME GovernanceInv, NEW a \in Admins, NEW q \in Approvals,
           \/ \E about \in G!Subjects, n \in Thresholds : G!CreateApproval(a, q, about, n)
           \/ G!CreateOrganizationGovernanceReview(a, q)
    PROVE  GovernanceInv' /\ StepGoverned
<1> USE DEF GovernanceInv
<1>1. /\ request' \in [Approvals -> Request \cup {None}]
      /\ RequestsVouched' /\ RequestsGrow
  <2>1. CASE \E about \in G!Subjects, n \in Thresholds : G!CreateApproval(a, q, about, n)
    <3>1. PICK about \in G!Subjects, n \in Thresholds : G!CreateApproval(a, q, about, n)
      BY <2>1
    <3>2. PICK action \in AskedFor, target \in AskedOf :
             action = about.action /\ target = about.target
      BY DEF G!Subjects, AskedFor, AskedOf
    <3>3. n \in Nat \ {0, 1}
      BY GovernanceAssumption
    <3>4. request[q] = None /\ request' = [request EXCEPT ![q] = NewRequest(a, n, action, target)]
      BY <3>1, <3>2 DEF G!CreateApproval, G!Ask, NewRequest
    <3> QED BY <3>3, <3>4, AskPreserves
  <2>2. CASE G!CreateOrganizationGovernanceReview(a, q)
    <3>1. 2 \in Nat \ {0, 1} /\ "organization" \in AskedFor /\ None \in AskedOf
      BY DEF AskedFor, AskedOf
    <3>2. /\ request[q] = None
          /\ request' = [request EXCEPT ![q] = NewRequest(a, 2, "organization", None)]
      BY <2>2 DEF G!CreateOrganizationGovernanceReview, G!Ask, NewRequest
    <3> QED BY <3>1, <3>2, AskPreserves
  <2> QED BY <2>1, <2>2
<1>2. UNCHANGED <<item, passed, seen, enabled, risky, release>>
  BY DEF G!CreateApproval, G!CreateOrganizationGovernanceReview
<1>3. GovernanceTypes'
  BY <1>1, <1>2 DEF GovernanceTypes
<1> QED BY <1>1, <1>2, <1>3, RequestsPreserve

LEMMA GovernanceProceeds ==
    GovernanceInv /\ [G!Next]_G!govVars => GovernanceInv' /\ G!GovernanceHolds
<1> SUFFICES ASSUME GovernanceInv, [G!Next]_G!govVars
             PROVE  GovernanceInv' /\ StepGoverned
  BY DEF GovernanceInv, StepGoverned, G!GovernanceHolds
<1>1. ASSUME NEW a \in Admins, G!ApprovalStep(a) PROVE GovernanceInv' /\ StepGoverned
  BY <1>1, CreateApprovalPreserves, DecisionPreserves DEF G!ApprovalStep
<1>2. ASSUME NEW a \in Admins, G!EngineStep(a) PROVE GovernanceInv' /\ StepGoverned
  <2>1. ASSUME NEW s \in Switches, NEW on \in BOOLEAN, G!UpdateIntelligenceSwitch(a, s, on)
        PROVE  GovernanceInv' /\ StepGoverned
    BY <2>1, SwitchPreserves DEF G!UpdateIntelligenceSwitch
  <2> QED
    BY <1>2, <2>1, RegisterPreserves, BeginPromotionPreserves DEF G!EngineStep
<1>3. ASSUME NEW a \in Admins, G!OperationsStep(a) PROVE GovernanceInv' /\ StepGoverned
  <2>1. ASSUME NEW k \in Settings, NEW highRisk \in BOOLEAN, G!SetOperationalSetting(a, k, highRisk)
        PROVE  GovernanceInv' /\ StepGoverned
    BY <2>1, SwitchPreserves DEF G!SetOperationalSetting
  <2>2. ASSUME NEW kind, G!RecordOperationEvidence(a, kind)
        PROVE  GovernanceInv' /\ StepGoverned
    BY <2>2, SwitchPreserves DEF G!RecordOperationEvidence
  <2> QED
    BY <1>3, <2>1, <2>2, CreateReleasePreserves, UpdateReleasePreserves DEF G!OperationsStep
<1>4. ASSUME NEW q \in Approvals, G!RequestLapses(q) PROVE GovernanceInv' /\ StepGoverned
  BY <1>4, LapsePreserves
<1>5. ASSUME NEW i \in Items, G!EndPromotion(i) \/ \E gate \in BOOLEAN : G!EvaluateModel(i, gate)
      PROVE  GovernanceInv' /\ StepGoverned
  BY <1>5, EndPromotionPreserves, EvaluationPreserves
<1>6. ASSUME NEW kind, G!IngestEvidence(kind) PROVE GovernanceInv' /\ StepGoverned
  BY <1>6, SwitchPreserves DEF G!IngestEvidence
<1>7. CASE UNCHANGED G!govVars
  BY <1>7, SwitchPreserves DEF G!govVars
<1> QED BY <1>1, <1>2, <1>3, <1>4, <1>5, <1>6, <1>7 DEF G!Next

-----------------------------------------------------------------------------
(* What administrators record                                              *)

Entry == [from : R!CaseStatuses \cup {None}, to : R!CaseStatuses \cup {None}]
Case == [status : R!CaseStatuses, closed : BOOLEAN, timeline : Seq(Entry)]
Article == [status : R!ArticleStatuses, revision : Nat, revisions : Seq(Nat), published : BOOLEAN]
AlertStatuses == {"open", "acknowledged", "resolved"}
Reviewed ==
    {"pending_review", "reviewing", "in_review", "dismissed", "escalated", "resolved",
     "reviewed", "actioned"}

RecordTypes ==
    /\ case \in [Cases -> Case \cup {None}]
    /\ article \in [Articles -> Article \cup {None}]
    /\ flag \in [R!Judged -> Reviewed]
    /\ alerts \in [Rules -> Seq(AlertStatuses)]
    /\ checking \in [Evaluators -> Rules \cup {None}]

\* A case has been opened.
TimelinesBegin == \A c \in Cases : case[c] # None => Len(case[c].timeline) >= 1

\* A delivery is stored once when it is in the journal, and never answered before.
JournalIsTrue ==
    /\ answered \subseteq journal /\ journal \subseteq Deliveries
    /\ recorded = [d \in Deliveries |-> IF d \in journal THEN 1 ELSE 0]

RecordsInv ==
    RecordTypes /\ TimelinesBegin /\ R!TimelinesTell /\ R!RevisionsCount /\ JournalIsTrue

LEMMA RecordsStart == R!Init => RecordsInv
<1> SUFFICES ASSUME R!Init PROVE RecordsInv
  OBVIOUS
<1>1. RecordTypes
  BY DEF R!Init, RecordTypes, Reviewed
<1>2. TimelinesBegin /\ R!TimelinesTell /\ R!RevisionsCount
  BY DEF R!Init, TimelinesBegin, R!TimelinesTell, R!RevisionsCount
<1>3. JournalIsTrue
  BY DEF R!Init, JournalIsTrue
<1> QED BY <1>1, <1>2, <1>3 DEF RecordsInv

LEMMA StoredOnce == JournalIsTrue => R!AcceptedIsStored
BY DEF JournalIsTrue, R!AcceptedIsStored

LEMMA NextRevisionCounts ==
    ASSUME NEW k \in Nat, NEW s, s = [n \in 1..k |-> n]
    PROVE  s \o <<k + 1>> = [n \in 1..(k + 1) |-> n]
<1>1. s \in Seq(Nat) /\ Len(s) = k
  OBVIOUS
<1>2. Len(s \o <<k + 1>>) = k + 1 /\ s \o <<k + 1>> \in Seq(Nat)
  BY <1>1
<1>3. \A n \in 1..(k + 1) : (s \o <<k + 1>>)[n] = n
  BY <1>1
<1> QED BY <1>2, <1>3

\* The records that a step leaves alone.
LEMMA CasesRest ==
    ASSUME UNCHANGED case, TimelinesBegin, R!TimelinesTell
    PROVE  TimelinesBegin' /\ R!TimelinesTell'
BY DEF TimelinesBegin, R!TimelinesTell

LEMMA CreateCasePreserves ==
    ASSUME RecordsInv, NEW c \in Cases, R!CreateCase(c)
    PROVE  RecordsInv' /\ R!SettledStays
<1> USE DEF RecordsInv
<1> DEFINE entry == [from |-> None, to |-> "open"]
           new == [status |-> "open", closed |-> FALSE, timeline |-> <<entry>>]
<1>1. entry \in Entry /\ entry.to = "open" /\ "open" # None
  BY RecordsAssumption DEF Entry, R!CaseStatuses
<1>2. PICK t \in Seq(Entry) : t = <<entry>> /\ Len(t) = 1 /\ t[1] = entry
  <2>1. <<entry>> \in Seq(Entry) /\ Len(<<entry>>) = 1 /\ <<entry>>[1] = entry
    BY <1>1
  <2> QED BY <2>1
<1>3. PICK x \in Case : x = new /\ x.status = "open" /\ x.closed = FALSE /\ x.timeline = t
  <2>1. new \in Case
    BY <1>2 DEF Case, R!CaseStatuses
  <2> QED BY <1>2, <2>1
<1> HIDE DEF entry
<1>4. case' = [case EXCEPT ![c] = x]
  BY <1>3 DEF R!CreateCase, entry
<1>5. case'[c] = x /\ \A d \in Cases \ {c} : case'[d] = case[d]
  BY <1>4 DEF RecordTypes
<1>6. UNCHANGED <<article, flag, alerts, checking, journal, recorded, answered>>
  BY DEF R!CreateCase, R!alerting, R!collector
<1>7. RecordTypes'
  BY <1>4, <1>6 DEF RecordTypes
<1>8. TimelinesBegin'
  BY <1>2, <1>3, <1>5 DEF TimelinesBegin
<1>9. R!TimelinesTell'
  <2>1. \A d \in Cases \ {c} : case'[d] = case[d]
    BY <1>5
  <2>2. /\ \A n \in 2..Len(t) : FALSE
        /\ x.status = t[Len(t)].to /\ t[Len(t)].to # None
        /\ ~x.closed /\ x.status \notin R!Ended
    BY <1>1, <1>2, <1>3 DEF R!Ended
  <2> DEFINE Follows(v) == IF v.to = None THEN v.from ELSE v.to
  <2>3. ASSUME NEW d \in Cases, case'[d] # None
        PROVE  /\ \A n \in 2 .. Len(case'[d].timeline) :
                     case'[d].timeline[n].from = Follows(case'[d].timeline[n - 1])
               /\ case'[d].status = Follows(case'[d].timeline[Len(case'[d].timeline)])
               /\ case'[d].closed <=> case'[d].status \in R!Ended
    <3>1. CASE d = c
      BY <1>3, <1>5, <2>2, <3>1
    <3>2. CASE d # c
      <4>1. case'[d] = case[d]
        BY <2>1, <3>2
      <4> QED BY <2>3, <4>1 DEF R!TimelinesTell
    <3> QED BY <3>1, <3>2
  <2> QED BY <2>3 DEF R!TimelinesTell
<1>10. R!RevisionsCount' /\ JournalIsTrue' /\ R!SettledStays
  BY <1>6 DEF R!RevisionsCount, JournalIsTrue, R!SettledStays, R!Alerting
<1> QED BY <1>7, <1>8, <1>9, <1>10

LEMMA UpdateCasePreserves ==
    ASSUME RecordsInv, NEW c \in Cases, NEW status \in R!CaseStatuses \cup {None},
           R!UpdateCase(c, status)
    PROVE  RecordsInv' /\ R!SettledStays
<1> USE DEF RecordsInv
<1>1. PICK old \in Case : old = case[c] /\ case[c] # None
  BY DEF R!UpdateCase, RecordTypes
<1>2. PICK entry \in Entry : /\ entry = [from |-> old.status, to |-> status]
                             /\ entry.from = old.status /\ entry.to = status
  <2> DEFINE entry == [from |-> old.status, to |-> status]
  <2>1. entry \in Entry /\ entry.from = old.status /\ entry.to = status
    BY DEF Entry, Case
  <2> QED BY <2>1
<1>3. PICK s \in Seq(Entry) : s = old.timeline /\ Len(s) \in Nat /\ Len(s) >= 1
  BY <1>1 DEF Case, TimelinesBegin
<1>4. PICK t \in Seq(Entry) : /\ t = Append(s, entry) /\ Len(t) = Len(s) + 1
                              /\ t[Len(t)] = entry /\ \A n \in 1..Len(s) : t[n] = s[n]
  <2> DEFINE t == Append(s, entry)
  <2>1. t \in Seq(Entry) /\ Len(t) = Len(s) + 1
    OBVIOUS
  <2>2. t[Len(t)] = entry /\ \A n \in 1..Len(s) : t[n] = s[n]
    BY <1>3, <2>1
  <2> HIDE DEF t
  <2>3. t = Append(s, entry)
    BY DEF t
  <2> QED BY <2>1, <2>2, <2>3
<1>5. PICK x \in Case :
         /\ x.status = IF status = None THEN old.status ELSE status
         /\ x.closed = IF status = None THEN old.closed ELSE status \in R!Ended
         /\ x.timeline = t
         /\ case' = [case EXCEPT ![c] = x]
  <2> DEFINE x == [status |-> IF status = None THEN old.status ELSE status,
                   closed |-> IF status = None THEN old.closed ELSE status \in R!Ended,
                   timeline |-> t]
  <2>1. old.status \in R!CaseStatuses /\ old.closed \in BOOLEAN
    BY DEF Case
  <2>2. x \in Case
    <3>1. CASE status = None
      BY <2>1, <3>1 DEF Case
    <3>2. CASE status # None
      BY <3>2 DEF Case
    <3> QED BY <3>1, <3>2
  <2>3. case' = [case EXCEPT ![c] = x]
    BY <1>1, <1>2, <1>3, <1>4 DEF R!UpdateCase, R!Closed
  <2> QED BY <2>2, <2>3
<1>6. case'[c] = x /\ \A d \in Cases \ {c} : case'[d] = case[d]
  BY <1>5 DEF RecordTypes
<1>7. UNCHANGED <<article, flag, alerts, checking, journal, recorded, answered>>
  BY DEF R!UpdateCase, R!alerting, R!collector
<1>8. RecordTypes'
  BY <1>5, <1>7 DEF RecordTypes
<1>9. TimelinesBegin'
  BY <1>3, <1>4, <1>5, <1>6 DEF TimelinesBegin
<1>10. /\ \A n \in 2..Len(s) : s[n].from = IF s[n - 1].to = None THEN s[n - 1].from ELSE s[n - 1].to
       /\ old.status = IF s[Len(s)].to = None THEN s[Len(s)].from ELSE s[Len(s)].to
       /\ old.closed <=> old.status \in R!Ended
  BY <1>1, <1>3 DEF R!TimelinesTell
<1>11. /\ \A n \in 2..Len(t) : t[n].from = IF t[n - 1].to = None THEN t[n - 1].from ELSE t[n - 1].to
       /\ x.status = IF t[Len(t)].to = None THEN t[Len(t)].from ELSE t[Len(t)].to
       /\ x.closed <=> x.status \in R!Ended
  <2>1. ASSUME NEW n \in 2..Len(t)
        PROVE  t[n].from = IF t[n - 1].to = None THEN t[n - 1].from ELSE t[n - 1].to
    <3>1. CASE n = Len(t)
      BY <3>1, <1>2, <1>3, <1>4, <1>10
    <3>2. CASE n # Len(t)
      <4>1. n \in 2..Len(s) /\ n \in 1..Len(s) /\ n - 1 \in 1..Len(s)
        BY <3>2, <1>3, <1>4
      <4> QED BY <4>1, <1>4, <1>10
    <3> QED BY <3>1, <3>2
  <2>2. x.status = IF t[Len(t)].to = None THEN t[Len(t)].from ELSE t[Len(t)].to
    BY <1>2, <1>4, <1>5
  <2>3. x.closed <=> x.status \in R!Ended
    BY <1>5, <1>10
  <2> QED BY <2>1, <2>2, <2>3
<1>12. R!TimelinesTell'
  BY <1>5, <1>6, <1>11 DEF R!TimelinesTell
<1>13. R!RevisionsCount' /\ JournalIsTrue' /\ R!SettledStays
  BY <1>7 DEF R!RevisionsCount, JournalIsTrue, R!SettledStays, R!Alerting
<1> QED BY <1>8, <1>9, <1>12, <1>13

LEMMA SaveArticlePreserves ==
    ASSUME RecordsInv, NEW x \in Articles, NEW status \in R!ArticleStatuses,
           R!SaveKnowledgeArticle(x, status)
    PROVE  RecordsInv' /\ R!SettledStays
<1> USE DEF RecordsInv
<1>1. PICK k \in Nat, s \in Seq(Nat), before \in BOOLEAN :
         /\ R!NextRevision(x) = k + 1 /\ s = [n \in 1..k |-> n]
         /\ s = IF article[x] = None THEN <<>> ELSE article[x].revisions
         /\ before = (article[x] # None /\ article[x].published)
  <2>1. CASE article[x] = None
    <3>1. <<>> = [n \in 1..0 |-> n] /\ <<>> \in Seq(Nat)
      OBVIOUS
    <3>2. R!NextRevision(x) = 0 + 1 /\ FALSE = (article[x] # None /\ article[x].published)
      BY <2>1 DEF R!NextRevision
    <3> QED BY <2>1, <3>1, <3>2
  <2>2. CASE article[x] # None
    <3>1. PICK old \in Article : old = article[x]
      BY <2>2 DEF RecordTypes
    <3>2. /\ old.revision \in Nat /\ old.revisions \in Seq(Nat) /\ old.published \in BOOLEAN
          /\ old.revisions = [n \in 1..old.revision |-> n]
      BY <2>2, <3>1 DEF Article, R!RevisionsCount
    <3> QED BY <2>2, <3>1, <3>2 DEF R!NextRevision
  <2> QED BY <2>1, <2>2
<1>2. PICK t \in Seq(Nat) : t = s \o <<k + 1>> /\ t = [n \in 1..(k + 1) |-> n]
  <2>1. s \o <<k + 1>> \in Seq(Nat)
    BY <1>1
  <2> QED BY <1>1, <2>1, NextRevisionCounts
<1>3. PICK new \in Article :
         /\ new.revision = k + 1 /\ new.revisions = t
         /\ article' = [article EXCEPT ![x] = new]
  <2> DEFINE new == [status |-> status, revision |-> k + 1, revisions |-> t,
                     published |-> status = "published" \/ before]
  <2>1. new \in Article
    BY <1>1, <1>2 DEF Article
  <2>2. article' = [article EXCEPT ![x] = new]
    BY <1>1, <1>2 DEF R!SaveKnowledgeArticle
  <2> QED BY <2>1, <2>2
<1>4. article'[x] = new /\ \A y \in Articles \ {x} : article'[y] = article[y]
  BY <1>3 DEF RecordTypes
<1>5. UNCHANGED <<case, flag, alerts, checking, journal, recorded, answered>>
  BY DEF R!SaveKnowledgeArticle, R!alerting, R!collector
<1>6. RecordTypes'
  BY <1>3, <1>5 DEF RecordTypes
<1>7. R!RevisionsCount'
  BY <1>2, <1>3, <1>4 DEF R!RevisionsCount
<1>8. JournalIsTrue' /\ R!SettledStays
  BY <1>5 DEF JournalIsTrue, R!SettledStays, R!Alerting
<1> QED BY <1>5, <1>6, <1>7, <1>8, CasesRest

LEMMA ReviewPreserves ==
    ASSUME RecordsInv, NEW f \in R!Judged, NEW status \in R!Verdicts(f),
           R!Review(f, status)
    PROVE  RecordsInv' /\ R!SettledStays
<1> USE DEF RecordsInv
<1>1. status \in Reviewed
  BY DEF R!Verdicts, R!Settled, Reviewed
<1>2. /\ flag' = [flag EXCEPT ![f] = status] /\ flag[f] \notin R!Settled(f)
      /\ UNCHANGED <<case, article, alerts, checking, journal, recorded, answered>>
  BY DEF R!Review, R!MayReview, R!alerting, R!collector
<1>3. RecordTypes'
  BY <1>1, <1>2 DEF RecordTypes
<1>4. R!RevisionsCount' /\ JournalIsTrue'
  BY <1>2 DEF R!RevisionsCount, JournalIsTrue
<1>5. R!SettledStays
  BY <1>2 DEF R!SettledStays, R!Alerting, RecordTypes
<1> QED BY <1>2, <1>3, <1>4, <1>5, CasesRest

\* Alerts: a new one at the end, or another status of one that is not resolved.
LEMMA AlertsPreserve ==
    ASSUME RecordsInv, NEW r \in Rules, NEW s \in Seq(AlertStatuses),
           alerts' = [alerts EXCEPT ![r] = s],
           DOMAIN alerts[r] \subseteq DOMAIN s,
           \A n \in DOMAIN alerts[r] : alerts[r][n] = "resolved" => s[n] = "resolved",
           checking' \in [Evaluators -> Rules \cup {None}],
           UNCHANGED <<case, article, flag, journal, recorded, answered>>
    PROVE  RecordsInv' /\ R!SettledStays
<1> USE DEF RecordsInv
<1>1. alerts'[r] = s /\ \A x \in Rules \ {r} : alerts'[x] = alerts[x]
  BY DEF RecordTypes
<1>2. RecordTypes'
  BY DEF RecordTypes
<1>3. R!RevisionsCount' /\ JournalIsTrue'
  BY DEF R!RevisionsCount, JournalIsTrue
<1>4. R!SettledStays
  BY <1>1 DEF R!SettledStays, R!Alerting
<1> QED BY <1>2, <1>3, <1>4, CasesRest

\* Nothing but what is looked for, measured or delivered.
LEMMA OthersPreserve ==
    ASSUME RecordsInv, checking' \in [Evaluators -> Rules \cup {None}], JournalIsTrue',
           UNCHANGED <<case, article, flag, alerts>>
    PROVE  RecordsInv' /\ R!SettledStays
<1> USE DEF RecordsInv
<1>1. RecordTypes' /\ R!RevisionsCount' /\ R!SettledStays
  BY DEF RecordTypes, R!RevisionsCount, R!SettledStays, R!Alerting
<1> QED BY <1>1, CasesRest

LEMMA AlertStepPreserves ==
    ASSUME RecordsInv, R!AlertStep
    PROVE  RecordsInv' /\ R!SettledStays
<1> USE DEF RecordsInv
<1>1. ASSUME NEW e \in Evaluators, R!InsertAlert(e) PROVE RecordsInv' /\ R!SettledStays
  <2>1. PICK r \in Rules : r = checking[e]
    BY <1>1 DEF R!InsertAlert, RecordTypes
  <2>2. PICK s \in Seq(AlertStatuses) : s = alerts[r]
    BY DEF RecordTypes
  <2>3. "open" \in AlertStatuses
    BY DEF AlertStatuses
  <2>4. PICK t \in Seq(AlertStatuses) :
           /\ t = Append(s, "open") /\ DOMAIN s \subseteq DOMAIN t
           /\ \A n \in DOMAIN s : t[n] = s[n]
    <3>1. Append(s, "open") \in Seq(AlertStatuses)
      BY <2>3
    <3>2. /\ DOMAIN s \subseteq DOMAIN Append(s, "open")
          /\ \A n \in DOMAIN s : Append(s, "open")[n] = s[n]
      OBVIOUS
    <3> QED BY <3>1, <3>2
  <2>5. alerts' = [alerts EXCEPT ![r] = t]
    BY <1>1, <2>1, <2>2, <2>4 DEF R!InsertAlert, RecordTypes
  <2>6. checking' \in [Evaluators -> Rules \cup {None}]
    BY <1>1 DEF R!InsertAlert, RecordTypes
  <2>7. UNCHANGED <<case, article, flag, journal, recorded, answered>>
    BY <1>1 DEF R!InsertAlert, R!collector
  <2> QED BY <2>2, <2>4, <2>5, <2>6, <2>7, AlertsPreserve
<1>2. ASSUME NEW e \in Evaluators, NEW r \in Rules, R!LookForAlert(e, r)
      PROVE  RecordsInv' /\ R!SettledStays
  <2>1. checking' \in [Evaluators -> Rules \cup {None}]
    BY <1>2 DEF R!LookForAlert, RecordTypes
  <2>2. UNCHANGED <<case, article, flag, alerts, journal, recorded, answered>>
    BY <1>2 DEF R!LookForAlert, R!collector
  <2> QED BY <2>1, <2>2, OthersPreserve DEF JournalIsTrue
<1>3. ASSUME NEW r \in Rules, NEW n, NEW status \in {"acknowledged", "resolved"},
             R!UpdateAlert(r, n, status)
      PROVE  RecordsInv' /\ R!SettledStays
  <2>1. PICK s \in Seq(AlertStatuses) : s = alerts[r]
    BY DEF RecordTypes
  <2>2. n \in DOMAIN s /\ s[n] # "resolved"
    BY <1>3, <2>1 DEF R!UpdateAlert, R!Alerting
  <2>3. PICK t \in Seq(AlertStatuses) : t = [s EXCEPT ![n] = status]
    <3>1. [s EXCEPT ![n] = status] \in Seq(AlertStatuses)
      BY <2>2 DEF AlertStatuses
    <3> QED BY <3>1
  <2>4. /\ DOMAIN s \subseteq DOMAIN t
        /\ \A m \in DOMAIN s : s[m] = "resolved" => t[m] = "resolved"
    BY <2>2, <2>3
  <2>5. alerts' = [alerts EXCEPT ![r] = t]
    BY <1>3, <2>1, <2>3 DEF R!UpdateAlert, RecordTypes
  <2>6. UNCHANGED <<case, article, flag, checking, journal, recorded, answered>>
    BY <1>3 DEF R!UpdateAlert, R!collector
  <2>7. checking' \in [Evaluators -> Rules \cup {None}]
    BY <2>6 DEF RecordTypes
  <2> QED BY <2>1, <2>4, <2>5, <2>6, <2>7, AlertsPreserve
<1>4. ASSUME NEW r \in Rules, R!TelemetryChanges(r) PROVE RecordsInv' /\ R!SettledStays
  <2>1. UNCHANGED <<case, article, flag, alerts, checking, journal, recorded, answered>>
    BY <1>4 DEF R!TelemetryChanges, R!collector
  <2> QED BY <2>1, OthersPreserve DEF JournalIsTrue, RecordTypes
<1> QED BY <1>1, <1>2, <1>3, <1>4 DEF R!AlertStep

LEMMA IngestPreserves ==
    ASSUME RecordsInv, NEW d \in Deliveries, NEW valid \in BOOLEAN, NEW lost \in BOOLEAN,
           R!IngestCollector(d, valid, lost)
    PROVE  RecordsInv' /\ R!SettledStays
<1> USE DEF RecordsInv
<1>1. JournalIsTrue'
  <2>1. CASE d \in journal
    BY <2>1 DEF R!IngestCollector, JournalIsTrue
  <2>2. CASE d \notin journal
    <3>1. CASE valid
      BY <2>2, <3>1 DEF R!IngestCollector, R!Journal, JournalIsTrue
    <3>2. CASE ~valid
      BY <2>2, <3>2 DEF R!IngestCollector, R!Journal, JournalIsTrue
    <3> QED BY <3>1, <3>2
  <2> QED BY <2>1, <2>2
<1>2. UNCHANGED <<case, article, flag, alerts, checking>>
  BY DEF R!IngestCollector, R!alerting
<1> QED BY <1>1, <1>2, OthersPreserve DEF RecordTypes

LEMMA RecordsProceed == RecordsInv /\ [R!Next]_R!recordVars => RecordsInv' /\ R!RecordsHold
<1> SUFFICES ASSUME RecordsInv, [R!Next]_R!recordVars
             PROVE  RecordsInv' /\ R!SettledStays
  BY StoredOnce, PTL DEF RecordsInv, R!RecordsHold
<1>1. CASE R!ControlPlaneStep
  BY <1>1, CreateCasePreserves, UpdateCasePreserves, SaveArticlePreserves DEF R!ControlPlaneStep
<1>2. CASE R!ReviewStep
  BY <1>2, ReviewPreserves
     DEF R!ReviewStep, R!ReviewTrustRiskFlag, R!ReviewIntelligenceCase, R!ReviewIntelligenceInsight
<1>3. CASE R!AlertStep
  BY <1>3, AlertStepPreserves
<1>4. CASE R!CollectorStep
  BY <1>4, IngestPreserves DEF R!CollectorStep
<1>5. CASE UNCHANGED R!recordVars
  BY <1>5, OthersPreserve DEF R!recordVars, JournalIsTrue, RecordTypes, RecordsInv
<1> QED BY <1>1, <1>2, <1>3, <1>4, <1>5 DEF R!Next

-----------------------------------------------------------------------------
(* The theorems                                                            *)

\* Of every behaviour of the accounts: who is active earned it, no session outlives the
\* password and the permission it was granted on, the last text counts, moderation stays.
THEOREM AccountsKept == A!Spec => [][A!AccountsHold]_A!accountVars
<1>1. AccountInv /\ [A!Next]_A!accountVars => A!ModerationIsKept /\ AccountInv'
  BY AccountsProceed
<1>2. AccountInv' => A!ActiveIsEarned' /\ A!SessionsAreCurrent' /\ A!LastTextCounts'
  BY AccountsNow, PTL
<1>3. AccountInv /\ [A!Next]_A!accountVars => AccountInv' /\ A!AccountsHold
  BY <1>1, <1>2 DEF A!AccountsHold
<1> QED BY <1>3, AccountsStart, PTL DEF A!Spec

\* Of every behaviour of the second factor: a proof is current, a code is used once, and a
\* rotation hands the proof on as it is.
THEOREM SecondFactorKept == F!Spec => [][F!SecondFactorHolds]_F!factorVars
BY FactorStarts, FactorProceeds, PTL DEF F!Spec

\* Of every behaviour of the approvals: what takes effect has the votes it asked for, none
\* of the one who asked; one item per slot is in force, and but for the migration's own no
\* model that has not passed; a slot that is served stays served; what was decided stays so.
THEOREM GovernanceKept == G!Spec => [][G!GovernanceHolds]_G!govVars
BY GovernanceStarts, GovernanceProceeds, PTL DEF G!Spec

\* Of every behaviour of the records of administrators: a timeline tells the statuses its
\* case had, revisions count, a delivery told accepted is stored once, what is settled stays.
THEOREM RecordsKept == R!Spec => [][R!RecordsHold]_R!recordVars
BY RecordsStart, RecordsProceed, PTL DEF R!Spec

\* AccountsKept for MCAccounts, whose behaviours are about a recruiter or two candidates:
\* every step of the run is one of Accounts or leaves the accounts alone.
THEOREM AccountsHoldThroughout == MCSpec => AccountsHold
<1>1. MCInit => AccountInv
  BY AccountsStart DEF MCInit
<1>2. [MCNext]_<<subject, vars, accountVars, factorVars, govVars, recordVars>>
         => [A!Next]_A!accountVars
  <2> SUFFICES ASSUME [MCNext]_<<subject, vars, accountVars, factorVars, govVars, recordVars>>
               PROVE  [A!Next]_A!accountVars
    OBVIOUS
  <2> USE DEF accountVars, A!accountVars
  <2>1. CASE AccountsRun
    <3>1. A!ActivationStep(rec) \/ A!PasswordStep(rec) \/ A!ModerationStep(rec) => A!Next
      BY AccountsAssumption DEF A!Next
    <3>2. A!ActivationStep(cand) \/ A!ModerationStep(cand) => A!Next
      BY AccountsAssumption DEF A!Next
    <3>3. A!RegisterCandidate(other, sally) => A!Next
      BY AccountsAssumption DEF A!Next, A!ActivationStep
    <3>4. A!SessionStep \/ A!PhoneStep \/ (\E n \in DOMAIN codes : A!CodeLapses(n)) => A!Next
      BY DEF A!Next
    <3> QED BY <2>1, <3>1, <3>2, <3>3, <3>4 DEF AccountsRun
  <2>2. CASE BudgetRun \/ FactorRun \/ GovernanceRun \/ RecordsRun
    BY <2>2 DEF BudgetRun, FactorRun, GovernanceRun, RecordsRun
  <2> QED BY <2>1, <2>2 DEF MCNext
<1>3. AccountInv /\ [A!Next]_A!accountVars => A!ModerationIsKept /\ AccountInv'
  BY AccountsProceed
<1>4. AccountInv' => A!ActiveIsEarned' /\ A!SessionsAreCurrent' /\ A!LastTextCounts'
  BY AccountsNow, PTL
<1>5. AccountInv /\ [A!Next]_A!accountVars
         => AccountInv' /\ (subject \in {"accounts", "phones"} => A!AccountsHold)
  BY <1>3, <1>4 DEF A!AccountsHold
<1> QED BY <1>1, <1>2, <1>5, PTL DEF MCSpec, AccountsHold

\* The last three for MCAccounts, whose behaviours are about one of them: every step of the
\* run is one of the specification in question or leaves its variables alone.
THEOREM AdministratorsHoldThroughout == MCSpec => AdministratorsHold
<1> DEFINE steps == <<subject, vars, accountVars, factorVars, govVars, recordVars>>
           Kept == FactorInv /\ GovernanceInv /\ RecordsInv
<1>1. MCInit => Kept
  BY FactorStarts, GovernanceStarts, RecordsStart DEF MCInit
<1>2. [MCNext]_steps => [F!Next]_F!factorVars
  BY DEF MCNext, BudgetRun, AccountsRun, FactorRun, GovernanceRun, RecordsRun, factorVars, F!factorVars
<1>3. [MCNext]_steps => [G!Next]_G!govVars
  BY DEF MCNext, BudgetRun, AccountsRun, FactorRun, GovernanceRun, RecordsRun, govVars, G!govVars
<1>4. [MCNext]_steps => [R!Next]_R!recordVars
  BY DEF MCNext, BudgetRun, AccountsRun, FactorRun, GovernanceRun, RecordsRun, recordVars,
         R!recordVars, R!Next
<1>5. Kept /\ [MCNext]_steps =>
         /\ Kept'
         /\ (subject = "factor" => F!SecondFactorHolds)
         /\ (subject \in {"models", "gateway", "prompts", "releases"} => G!GovernanceHolds)
         /\ (subject \in {"cases", "reviews", "alerts", "collector"} => R!RecordsHold)
  BY <1>2, <1>3, <1>4, FactorProceeds, GovernanceProceeds, RecordsProceed
<1> QED BY <1>1, <1>5, PTL DEF MCSpec, AdministratorsHold

=============================================================================
