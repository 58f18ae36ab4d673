----------------------------- MODULE TokenRateProofs -----------------------------
(***************************************************************************)
(* Install rows grow slowly: a proof for every limit and window.           *)
(*                                                                         *)
(* The limiter counts hits of fixed windows that open at the first hit     *)
(* after the last window ran out; the property speaks of any interval as   *)
(* long as a window.  Such an interval meets two windows at most.  Of the  *)
(* earlier one it misses the opening hit, so the two together let through  *)
(* less than twice the limit.                                              *)
(***************************************************************************)
EXTENDS TokenExchangeProofs

(* The exchanges of a client admitted in lo .. hi - 1: the rows they left, *)
(* and the requests that may still leave one.                              *)
RowsIn(c, lo, hi) ==
    {row \in installs : row.client = c /\ row.admitted >= lo /\ row.admitted < hi}
Admits(r) == pc[r] \in {"admitted", "tiered"} /\ req[r].kind = "token"
InFlight(c, lo, hi) ==
    {r \in Requests : /\ Admits(r) /\ Client(r) = c
                      /\ admitted[r] >= lo /\ admitted[r] < hi}
Count(c, lo, hi) == Cardinality(RowsIn(c, lo, hi)) + Cardinality(InFlight(c, lo, hi))

Hits(c) == hits[<<"token", c>>]

(* Before the first hit there is nothing to count. *)
Unused(c) ==
    Hits(c).n = 0 => Hits(c).exp = 0 /\ \A lo, hi \in Int : Count(c, lo, hi) = 0

(* The current window opened at w.  Its hits pay for all its admissions,   *)
(* the first one for those of the opening instant; what an interval that   *)
(* reaches into this window can see of the last one leaves a hit out too.  *)
OpenedAt(c, w) ==
    /\ Hits(c).exp = w + RateWindow /\ w <= clock
    /\ \A hi \in Int :
         /\ Count(c, w, hi) <= RateLimit /\ Count(c, w, hi) <= Hits(c).n
         /\ Count(c, w + 1, hi) <= RateLimit - 1
         /\ Count(c, w + 1, hi) <= Hits(c).n - 1
         /\ Count(c, w + RateWindow, hi) = 0
    /\ Count(c, w - RateWindow + 1, w) <= RateLimit - 1
Window(c) == Hits(c).n > 0 => \E w \in Int : OpenedAt(c, w)

Slow(c)  == \A s \in Int : Count(c, s, s + RateWindow) < 2 * RateLimit
Meter(c) == Unused(c) /\ Window(c) /\ Slow(c)
Metered  == \A c \in Clients : Meter(c)

-------------------------------------------------------------------------------
(* Counts are natural numbers. *)
LEMMA CountNat ==
    ASSUME Core, NEW c \in Clients, NEW lo \in Int, NEW hi \in Int
    PROVE  /\ IsFiniteSet(RowsIn(c, lo, hi)) /\ Cardinality(RowsIn(c, lo, hi)) \in Nat
           /\ IsFiniteSet(InFlight(c, lo, hi)) /\ Cardinality(InFlight(c, lo, hi)) \in Nat
           /\ Count(c, lo, hi) \in Nat
<1>1. IsFiniteSet(installs) /\ IsFiniteSet(Busy)
  BY DEF Core, Funded
<1>2. RowsIn(c, lo, hi) \subseteq installs /\ InFlight(c, lo, hi) \subseteq Busy
  BY DEF RowsIn, InFlight, Admits, Busy
<1>3. IsFiniteSet(RowsIn(c, lo, hi)) /\ IsFiniteSet(InFlight(c, lo, hi))
  BY <1>1, <1>2, FS_Subset
<1>4. /\ Cardinality(RowsIn(c, lo, hi)) \in Nat
      /\ Cardinality(InFlight(c, lo, hi)) \in Nat
  BY <1>3, FS_CardinalityType
<1> QED BY <1>3, <1>4 DEF Count

(* A shorter interval holds no more. *)
LEMMA CountMono ==
    ASSUME Core, NEW c \in Clients, NEW lo \in Int, NEW hi \in Int,
           NEW a \in Int, NEW b \in Int, lo <= a, b <= hi
    PROVE  Count(c, a, b) <= Count(c, lo, hi)
<1>1. \A row \in installs : row.admitted \in Int
  BY DEF Core, TypeOK, Times
<1>2. \A r \in Requests : admitted[r] \in Int
  BY DEF Core, TypeOK, Times
<1>3. RowsIn(c, a, b) \subseteq RowsIn(c, lo, hi)
  BY <1>1 DEF RowsIn
<1>4. InFlight(c, a, b) \subseteq InFlight(c, lo, hi)
  BY <1>2 DEF InFlight
<1>5. /\ IsFiniteSet(RowsIn(c, lo, hi)) /\ Cardinality(RowsIn(c, lo, hi)) \in Nat
      /\ IsFiniteSet(InFlight(c, lo, hi)) /\ Cardinality(InFlight(c, lo, hi)) \in Nat
      /\ Cardinality(RowsIn(c, a, b)) \in Nat /\ Cardinality(InFlight(c, a, b)) \in Nat
  BY CountNat
<1>6. /\ Cardinality(RowsIn(c, a, b)) <= Cardinality(RowsIn(c, lo, hi))
      /\ Cardinality(InFlight(c, a, b)) <= Cardinality(InFlight(c, lo, hi))
  BY <1>3, <1>4, <1>5, FS_Subset
<1> QED BY <1>5, <1>6 DEF Count

(* An interval holds no more than its two halves. *)
LEMMA CountSplit ==
    ASSUME Core, NEW c \in Clients, NEW lo \in Int, NEW mid \in Int, NEW hi \in Int
    PROVE  Count(c, lo, hi) <= Count(c, lo, mid) + Count(c, mid, hi)
<1>1. \A row \in installs : row.admitted \in Int
  BY DEF Core, TypeOK, Times
<1>2. \A r \in Requests : admitted[r] \in Int
  BY DEF Core, TypeOK, Times
<1>3. RowsIn(c, lo, hi) \subseteq RowsIn(c, lo, mid) \union RowsIn(c, mid, hi)
  BY <1>1 DEF RowsIn
<1>4. InFlight(c, lo, hi) \subseteq InFlight(c, lo, mid) \union InFlight(c, mid, hi)
  BY <1>2 DEF InFlight
<1>5. ASSUME NEW S, NEW T, NEW U, IsFiniteSet(S), IsFiniteSet(T), U \subseteq S \union T
      PROVE  Cardinality(U) <= Cardinality(S) + Cardinality(T)
  <2>1. /\ IsFiniteSet(S \union T)
        /\ Cardinality(S \union T) = Cardinality(S) + Cardinality(T) - Cardinality(S \intersect T)
    BY <1>5, FS_Union
  <2>2. IsFiniteSet(U) /\ Cardinality(U) <= Cardinality(S \union T)
    BY <1>5, <2>1, FS_Subset
  <2>3. IsFiniteSet(S \intersect T)
    BY <1>5, FS_Subset
  <2>4. /\ Cardinality(U) \in Nat /\ Cardinality(S) \in Nat /\ Cardinality(T) \in Nat
        /\ Cardinality(S \union T) \in Nat /\ Cardinality(S \intersect T) \in Nat
    BY <1>5, <2>1, <2>2, <2>3, FS_CardinalityType
  <2> QED BY <2>1, <2>2, <2>4
<1>6. /\ IsFiniteSet(RowsIn(c, lo, mid)) /\ IsFiniteSet(RowsIn(c, mid, hi))
      /\ IsFiniteSet(InFlight(c, lo, mid)) /\ IsFiniteSet(InFlight(c, mid, hi))
      /\ Cardinality(RowsIn(c, lo, mid)) \in Nat /\ Cardinality(RowsIn(c, mid, hi)) \in Nat
      /\ Cardinality(RowsIn(c, lo, hi)) \in Nat /\ Cardinality(InFlight(c, lo, hi)) \in Nat
      /\ Cardinality(InFlight(c, lo, mid)) \in Nat
      /\ Cardinality(InFlight(c, mid, hi)) \in Nat
  BY CountNat
<1>7. Cardinality(RowsIn(c, lo, hi))
        <= Cardinality(RowsIn(c, lo, mid)) + Cardinality(RowsIn(c, mid, hi))
  BY <1>3, <1>5, <1>6
<1>8. Cardinality(InFlight(c, lo, hi))
        <= Cardinality(InFlight(c, lo, mid)) + Cardinality(InFlight(c, mid, hi))
  BY <1>4, <1>5, <1>6
<1> QED BY <1>6, <1>7, <1>8 DEF Count

-------------------------------------------------------------------------------
(* A step after which no interval holds more than before. *)
Falls(c) == \A lo, hi \in Int : Count(c, lo, hi)' <= Count(c, lo, hi)

(* A hit of the limiter, that admits at most the request that made it. *)
Hit(c) ==
    /\ clock' = clock /\ Hits(c)' = Incr(<<"token", c>>)
    /\ \A lo, hi \in Int :
         /\ Count(c, lo, hi)' <= Count(c, lo, hi) + 1
         /\ ~(lo <= clock /\ clock < hi) \/ ~Allowed(Incr(<<"token", c>>).n)
              => Count(c, lo, hi)' <= Count(c, lo, hi)

(* The counter of a client is a record of two natural numbers. *)
LEMMA HitsType ==
    ASSUME Core, NEW c \in Clients
    PROVE  Hits(c) = hits[<<"token", c>>] /\ Hits(c).n \in Nat /\ Hits(c).exp \in Nat
<1>1. <<"token", c>> \in Endpoints \X Clients
  BY DEF Endpoints
<1>2. hits[<<"token", c>>] \in [n : Nat, exp : Nat]
  BY <1>1 DEF Core, TypeOK
<1> QED BY <1>2 DEF Hits

(* All counts of all clients, before and after a step. *)
Countable == \A c \in Clients, lo, hi \in Int : Count(c, lo, hi) \in Nat

(* CountNat in one formula. *)
LEMMA AllCountable == Core => Countable
  BY CountNat DEF Countable

(* CountNat after a step. *)
LEMMA CountableNext == Core' => Countable'
  BY AllCountable, PTL

(* Without a hit the counts only fall, and time passes. *)
LEMMA MeterStill ==
    ASSUME Core, Core', NEW c \in Clients, Meter(c), Falls(c),
           Hits(c)' = Hits(c), clock <= clock'
    PROVE  Meter(c)'
<1>1. /\ Hits(c).n \in Nat /\ Hits(c).exp \in Nat
      /\ clock \in Int /\ clock' \in Int
  <2>1. clock \in Int /\ clock' \in Int
    BY DEF Core, TypeOK, Times
  <2> QED BY <2>1, HitsType
<1>2. \A lo, hi \in Int : /\ Count(c, lo, hi) \in Nat /\ Count(c, lo, hi)' \in Nat
                          /\ Count(c, lo, hi)' <= Count(c, lo, hi)
  BY AllCountable, CountableNext DEF Countable, Falls
<1>3. Unused(c)'
  BY <1>2 DEF Meter, Unused
<1>4. Slow(c)'
  <2> SUFFICES ASSUME NEW s \in Int PROVE Count(c, s, s + RateWindow)' < 2 * RateLimit
    BY DEF Slow
  <2>1. Count(c, s, s + RateWindow) < 2 * RateLimit /\ s + RateWindow \in Int
    BY ExchangeAssumption DEF Meter, Slow
  <2> QED BY <1>2, <2>1, ExchangeAssumption
<1>5. Window(c)'
  <2> SUFFICES ASSUME Hits(c).n > 0 PROVE \E w \in Int : OpenedAt(c, w)'
    BY DEF Window
  <2>1. PICK w \in Int : OpenedAt(c, w)
    BY DEF Meter, Window
  <2>2. /\ w + 1 \in Int /\ w + RateWindow \in Int /\ w - RateWindow + 1 \in Int
        /\ RateLimit \in Nat
    BY ExchangeAssumption
  <2>3. Hits(c)'.exp = w + RateWindow /\ w <= clock'
    BY <1>1, <2>1 DEF OpenedAt
  <2>4. ASSUME NEW hi \in Int
        PROVE  /\ Count(c, w, hi)' <= RateLimit /\ Count(c, w, hi)' <= Hits(c)'.n
               /\ Count(c, w + 1, hi)' <= RateLimit - 1
               /\ Count(c, w + 1, hi)' <= Hits(c)'.n - 1
               /\ Count(c, w + RateWindow, hi)' = 0
    <3>1. /\ Count(c, w, hi) <= RateLimit /\ Count(c, w, hi) <= Hits(c).n
          /\ Count(c, w + 1, hi) <= RateLimit - 1
          /\ Count(c, w + 1, hi) <= Hits(c).n - 1
          /\ Count(c, w + RateWindow, hi) = 0
      BY <2>1 DEF OpenedAt
    <3>2. /\ Count(c, w, hi) \in Nat /\ Count(c, w, hi)' \in Nat
          /\ Count(c, w, hi)' <= Count(c, w, hi)
      BY <1>2
    <3>3. /\ Count(c, w + 1, hi) \in Nat /\ Count(c, w + 1, hi)' \in Nat
          /\ Count(c, w + 1, hi)' <= Count(c, w + 1, hi)
      BY <1>2, <2>2
    <3>4. /\ Count(c, w + RateWindow, hi) \in Nat /\ Count(c, w + RateWindow, hi)' \in Nat
          /\ Count(c, w + RateWindow, hi)' <= Count(c, w + RateWindow, hi)
      BY <1>2, <2>2
    <3> QED BY <1>1, <2>2, <3>1, <3>2, <3>3, <3>4
  <2>5. Count(c, w - RateWindow + 1, w)' <= RateLimit - 1
    <3>1. Count(c, w - RateWindow + 1, w) <= RateLimit - 1
      BY <2>1 DEF OpenedAt
    <3>2. /\ Count(c, w - RateWindow + 1, w) \in Nat
          /\ Count(c, w - RateWindow + 1, w)' \in Nat
          /\ Count(c, w - RateWindow + 1, w)' <= Count(c, w - RateWindow + 1, w)
      BY <1>2, <2>2
    <3> QED BY <2>2, <3>1, <3>2
  <2>6. OpenedAt(c, w)'
    BY <2>3, <2>4, <2>5 DEF OpenedAt
  <2> QED BY <2>6
<1> QED BY <1>3, <1>4, <1>5 DEF Meter

(* A hit of the current window. *)
LEMMA MeterHitSame ==
    ASSUME Core, Core', NEW c \in Clients, Meter(c), Hit(c), clock < Hits(c).exp
    PROVE  Meter(c)'
<1> DEFINE n == Hits(c).n
           L == RateLimit
           W == RateWindow
           ok == Allowed(Incr(<<"token", c>>).n)
<1>1. /\ L \in Nat \ {0} /\ W \in Nat \ {0}
      /\ clock \in Nat /\ clock' = clock
  BY ExchangeAssumption DEF Core, TypeOK, Times, Hit
<1>2. n \in Nat /\ Hits(c).exp \in Nat /\ Hits(c) = hits[<<"token", c>>]
  BY HitsType
<1>3. Hits(c)'.n = n + 1 /\ Hits(c)'.exp = Hits(c).exp /\ (ok <=> n + 1 <= L)
  <2>1. hits[<<"token", c>>] \in [n : Nat, exp : Nat]
    BY DEF Core, TypeOK, Endpoints
  <2>2. Incr(<<"token", c>>) = [hits[<<"token", c>>] EXCEPT !.n = @ + 1]
    BY <1>2 DEF Incr
  <2>3. Incr(<<"token", c>>).n = n + 1 /\ Incr(<<"token", c>>).exp = Hits(c).exp
    BY <1>2, <2>1, <2>2
  <2> QED BY <2>3 DEF Hit, Allowed
<1>4. n > 0
  BY <1>1, <1>2 DEF Meter, Unused
<1>5. PICK w \in Int : OpenedAt(c, w)
  BY <1>4 DEF Meter, Window
<1>6. w <= clock /\ clock < w + W /\ Hits(c).exp = w + W
  BY <1>5 DEF OpenedAt
<1>7. ASSUME NEW lo \in Int, NEW hi \in Int
      PROVE  /\ Count(c, lo, hi) \in Nat /\ Count(c, lo, hi)' \in Nat
             /\ Count(c, lo, hi)' <= Count(c, lo, hi) + 1
             /\ ~(lo <= clock /\ clock < hi) => Count(c, lo, hi)' <= Count(c, lo, hi)
             /\ ~ok => Count(c, lo, hi)' <= Count(c, lo, hi)
  BY AllCountable, CountableNext DEF Countable, Hit
<1> HIDE DEF n, L, W, ok
<1>8. /\ w + 1 \in Int /\ w + W \in Int /\ w - W + 1 \in Int
  BY <1>1
<1>9. OpenedAt(c, w)'
  <2>1. ASSUME NEW hi \in Int
        PROVE  /\ Count(c, w, hi)' <= L /\ Count(c, w, hi)' <= n + 1
               /\ Count(c, w + 1, hi)' <= L - 1 /\ Count(c, w + 1, hi)' <= (n + 1) - 1
               /\ Count(c, w + W, hi)' = 0
    <3>1. /\ Count(c, w, hi) <= L /\ Count(c, w, hi) <= n
          /\ Count(c, w + 1, hi) <= L - 1 /\ Count(c, w + 1, hi) <= n - 1
          /\ Count(c, w + W, hi) = 0
      BY <1>5 DEF OpenedAt, n, L, W
    <3>2. Count(c, w, hi)' <= L /\ Count(c, w, hi)' <= n + 1
      <4>1. /\ Count(c, w, hi) \in Nat /\ Count(c, w, hi)' \in Nat
            /\ Count(c, w, hi)' <= Count(c, w, hi) + 1
            /\ ~ok => Count(c, w, hi)' <= Count(c, w, hi)
        BY <1>7
      <4>2. n \in Nat
        BY <1>2 DEF n
      <4> QED BY <1>1, <1>3, <3>1, <4>1, <4>2
    <3>3. Count(c, w + 1, hi)' <= L - 1 /\ Count(c, w + 1, hi)' <= (n + 1) - 1
      <4>1. /\ Count(c, w + 1, hi) \in Nat /\ Count(c, w + 1, hi)' \in Nat
            /\ Count(c, w + 1, hi)' <= Count(c, w + 1, hi) + 1
            /\ ~ok => Count(c, w + 1, hi)' <= Count(c, w + 1, hi)
        BY <1>7, <1>8
      <4>2. n \in Nat
        BY <1>2 DEF n
      <4> QED BY <1>1, <1>3, <3>1, <4>1, <4>2
    <3>4. Count(c, w + W, hi)' = 0
      <4>1. /\ Count(c, w + W, hi) \in Nat /\ Count(c, w + W, hi)' \in Nat
            /\ ~(w + W <= clock) => Count(c, w + W, hi)' <= Count(c, w + W, hi)
        BY <1>7, <1>8
      <4> QED BY <1>1, <1>6, <1>8, <3>1, <4>1
    <3> QED BY <3>2, <3>3, <3>4
  <2>2. Count(c, w - W + 1, w)' <= L - 1
    <3>1. Count(c, w - W + 1, w) <= L - 1
      BY <1>5 DEF OpenedAt, L, W
    <3>2. /\ Count(c, w - W + 1, w) \in Nat /\ Count(c, w - W + 1, w)' \in Nat
          /\ ~(clock < w) => Count(c, w - W + 1, w)' <= Count(c, w - W + 1, w)
      BY <1>7, <1>8
    <3> QED BY <1>1, <1>6, <3>1, <3>2
  <2>3. Hits(c)'.exp = w + W /\ w <= clock' /\ Hits(c)'.n = n + 1
    BY <1>1, <1>3, <1>6
  <2> QED BY <2>1, <2>2, <2>3 DEF OpenedAt, L, W
<1>10. Slow(c)'
  <2> SUFFICES ASSUME NEW s \in Int PROVE Count(c, s, s + W)' < 2 * L
    BY DEF Slow, L, W
  <2>1. Count(c, s, s + W) < 2 * L /\ s + W \in Int
    BY <1>1 DEF Meter, Slow, L, W
  <2>2. /\ Count(c, s, s + W) \in Nat /\ Count(c, s, s + W)' \in Nat
        /\ Count(c, s, s + W)' <= Count(c, s, s + W) + 1
        /\ ~(s <= clock /\ clock < s + W) => Count(c, s, s + W)' <= Count(c, s, s + W)
        /\ ~ok => Count(c, s, s + W)' <= Count(c, s, s + W)
    BY <1>7, <2>1
  <2>3. CASE ~(s <= clock /\ clock < s + W) \/ ~ok
    BY <1>1, <2>1, <2>2, <2>3
  <2>4. CASE s <= clock /\ clock < s + W /\ ok
    <3>1. n + 1 <= L /\ n \in Nat
      BY <1>2, <1>3, <2>4 DEF n
    <3>2. Count(c, w, s + W) <= n /\ Count(c, w, s + W) \in Nat
      BY <1>5, <1>7, <2>1 DEF OpenedAt, n
    <3>3. CASE w <= s
      <4>1. s + W <= s + W
        BY <2>1
      <4>2. Count(c, s, s + W) <= Count(c, w, s + W)
        BY <2>1, <3>3, <4>1, CountMono
      <4> QED BY <1>1, <2>2, <3>1, <3>2, <4>2
    <3>4. CASE s < w
      <4>1. w - W + 1 <= s /\ w <= w
        BY <1>1, <1>6, <2>4
      <4>2. Count(c, s, w) <= Count(c, w - W + 1, w)
        BY <1>8, <4>1, CountMono
      <4>3. Count(c, w - W + 1, w) <= L - 1 /\ Count(c, w - W + 1, w) \in Nat
        <5>1. Count(c, w - W + 1, w) <= L - 1
          BY <1>5 DEF OpenedAt, L, W
        <5> QED BY <1>7, <1>8, <5>1
      <4>4. Count(c, s, w) \in Nat
        BY <1>7
      <4>5. Count(c, s, s + W) <= Count(c, s, w) + Count(c, w, s + W)
        BY <2>1, CountSplit
      <4> QED BY <1>1, <2>2, <3>1, <3>2, <4>2, <4>3, <4>4, <4>5
    <3> QED BY <3>3, <3>4
  <2> QED BY <2>3, <2>4
<1>11. Window(c)'
  BY <1>9 DEF Window
<1>12. Unused(c)'
  <2>1. n \in Nat
    BY <1>2 DEF n
  <2>2. n + 1 # 0
    BY <2>1
  <2> QED BY <1>3, <2>2 DEF Unused
<1> QED BY <1>10, <1>11, <1>12 DEF Meter

(* A hit that opens a window. *)
LEMMA MeterHitNew ==
    ASSUME Core, Core', NEW c \in Clients, Meter(c), Hit(c), ~(clock < Hits(c).exp)
    PROVE  Meter(c)'
<1> DEFINE L == RateLimit
           W == RateWindow
<1>1. /\ L \in Nat \ {0} /\ W \in Nat \ {0}
      /\ clock \in Nat /\ clock' = clock
  BY ExchangeAssumption DEF Core, TypeOK, Times, Hit
<1>2. Hits(c).n \in Nat /\ Hits(c).exp \in Nat /\ Hits(c) = hits[<<"token", c>>]
  BY HitsType
<1>3. Hits(c)'.n = 1 /\ Hits(c)'.exp = clock + W
  <2>1. Incr(<<"token", c>>) = [n |-> 1, exp |-> clock + W]
    BY <1>2 DEF Incr
  <2> QED BY <2>1 DEF Hit
<1>4. ASSUME NEW lo \in Int, NEW hi \in Int
      PROVE  /\ Count(c, lo, hi) \in Nat /\ Count(c, lo, hi)' \in Nat
             /\ Count(c, lo, hi)' <= Count(c, lo, hi) + 1
             /\ ~(lo <= clock /\ clock < hi) => Count(c, lo, hi)' <= Count(c, lo, hi)
  BY AllCountable, CountableNext DEF Countable, Hit
<1> HIDE DEF L, W
<1>5. clock \in Int /\ clock + 1 \in Int /\ clock + W \in Int /\ clock - W + 1 \in Int
  BY <1>1
(* The window that ran out. *)
<1>6. /\ \A hi \in Int : Count(c, clock, hi) = 0
      /\ Count(c, clock - W + 1, clock) <= L - 1
  <2>1. CASE Hits(c).n = 0
    <3>1. \A lo, hi \in Int : Count(c, lo, hi) = 0
      BY <2>1 DEF Meter, Unused
    <3>2. Count(c, clock - W + 1, clock) = 0
      BY <1>5, <3>1
    <3> QED BY <1>1, <1>5, <3>1, <3>2
  <2>2. CASE Hits(c).n # 0
    <3>1. PICK w \in Int : OpenedAt(c, w)
      BY <1>2, <2>2 DEF Meter, Window
    <3>2. w + W <= clock /\ w + W \in Int /\ w + 1 \in Int
      BY <1>1, <1>2, <3>1 DEF OpenedAt, W
    <3>3. ASSUME NEW hi \in Int PROVE Count(c, clock, hi) = 0
      <4>1. Count(c, w + W, hi) = 0
        BY <3>1 DEF OpenedAt, W
      <4>2. Count(c, clock, hi) <= Count(c, w + W, hi)
        BY <1>5, <3>2, CountMono
      <4>3. Count(c, clock, hi) \in Nat
        BY <1>4, <1>5
      <4> QED BY <4>1, <4>2, <4>3
    <3>4. Count(c, clock - W + 1, clock) <= L - 1
      <4>1. w + 1 <= clock - W + 1 /\ clock <= clock
        BY <1>1, <3>2
      <4>2. Count(c, clock - W + 1, clock) <= Count(c, w + 1, clock)
        BY <1>5, <3>2, <4>1, CountMono
      <4>3. Count(c, w + 1, clock) <= L - 1
        BY <1>5, <3>1 DEF OpenedAt, L
      <4>4. Count(c, w + 1, clock) \in Nat /\ Count(c, clock - W + 1, clock) \in Nat
        BY <1>4, <1>5, <3>2
      <4> QED BY <1>1, <4>2, <4>3, <4>4
    <3> QED BY <3>3, <3>4
  <2> QED BY <2>1, <2>2
<1>7. PICK w \in Int : w = clock
  BY <1>5
<1>8. OpenedAt(c, w)'
  <2>1. ASSUME NEW hi \in Int
        PROVE  /\ Count(c, w, hi)' <= L /\ Count(c, w, hi)' <= 1
               /\ Count(c, w + 1, hi)' <= L - 1 /\ Count(c, w + 1, hi)' <= 1 - 1
               /\ Count(c, w + W, hi)' = 0
    <3>1. Count(c, w, hi) = 0
      BY <1>6, <1>7
    <3>2. Count(c, w, hi)' \in Nat /\ Count(c, w, hi)' <= 1
      <4>1. Count(c, w, hi)' \in Nat /\ Count(c, w, hi)' <= Count(c, w, hi) + 1
        BY <1>4
      <4> QED BY <3>1, <4>1
    <3>3. ASSUME NEW lo \in Int, w < lo PROVE Count(c, lo, hi)' = 0
      <4>1. w <= lo /\ hi <= hi
        BY <3>3
      <4>2. Count(c, lo, hi) <= Count(c, w, hi)
        BY <4>1, CountMono
      <4>3. /\ Count(c, lo, hi) \in Nat /\ Count(c, lo, hi)' \in Nat
            /\ ~(lo <= w) => Count(c, lo, hi)' <= Count(c, lo, hi)
        BY <1>4, <1>7
      <4> QED BY <3>1, <3>3, <4>2, <4>3
    <3>4. w + 1 \in Int /\ w < w + 1 /\ w + W \in Int /\ w < w + W
      BY <1>1
    <3>5. Count(c, w + 1, hi)' = 0 /\ Count(c, w + W, hi)' = 0
      BY <3>3, <3>4
    <3> QED BY <1>1, <3>2, <3>5
  <2>2. Count(c, w - W + 1, w)' <= L - 1
    <3>1. Count(c, w - W + 1, w) <= L - 1 /\ w - W + 1 \in Int
      BY <1>1, <1>6, <1>7
    <3>2. /\ Count(c, w - W + 1, w) \in Nat /\ Count(c, w - W + 1, w)' \in Nat
          /\ ~(w < w) => Count(c, w - W + 1, w)' <= Count(c, w - W + 1, w)
      BY <1>4, <1>7, <3>1
    <3> QED BY <1>1, <3>1, <3>2
  <2>3. Hits(c)'.exp = w + W /\ w <= clock' /\ Hits(c)'.n = 1
    BY <1>1, <1>3, <1>7
  <2> QED BY <2>1, <2>2, <2>3 DEF OpenedAt, L, W
<1>9. Slow(c)'
  <2> SUFFICES ASSUME NEW s \in Int PROVE Count(c, s, s + W)' < 2 * L
    BY DEF Slow, L, W
  <2>1. Count(c, s, s + W) < 2 * L /\ s + W \in Int
    BY <1>1 DEF Meter, Slow, L, W
  <2>2. /\ Count(c, s, s + W) \in Nat /\ Count(c, s, s + W)' \in Nat
        /\ Count(c, s, s + W)' <= Count(c, s, s + W) + 1
        /\ ~(s <= w /\ w < s + W) => Count(c, s, s + W)' <= Count(c, s, s + W)
    BY <1>4, <1>7, <2>1
  <2>3. CASE ~(s <= w /\ w < s + W)
    BY <1>1, <2>1, <2>2, <2>3
  <2>4. CASE s <= w /\ w < s + W
    <3>1. Count(c, s, s + W) <= Count(c, s, w) + Count(c, w, s + W)
      BY <2>1, CountSplit
    <3>2. Count(c, w, s + W) = 0
      BY <1>6, <1>7, <2>1
    <3>3. w - W + 1 <= s /\ w <= w /\ w - W + 1 \in Int
      BY <1>1, <2>4
    <3>4. Count(c, s, w) <= Count(c, w - W + 1, w)
      BY <3>3, CountMono
    <3>5. Count(c, w - W + 1, w) <= L - 1
      BY <1>6, <1>7
    <3>6. Count(c, s, w) \in Nat /\ Count(c, w - W + 1, w) \in Nat
      BY <1>4, <3>3
    <3> QED BY <1>1, <2>2, <3>1, <3>2, <3>4, <3>5, <3>6
  <2> QED BY <2>3, <2>4
<1>10. Window(c)'
  BY <1>8 DEF Window
<1>11. Unused(c)'
  BY <1>3 DEF Unused
<1> QED BY <1>9, <1>10, <1>11 DEF Meter

-------------------------------------------------------------------------------
(* Fewer rows and fewer requests in flight. *)
LEMMA SubsetFalls ==
    ASSUME Core, Core', NEW c \in Clients,
           \A lo, hi \in Int : /\ RowsIn(c, lo, hi)' \subseteq RowsIn(c, lo, hi)
                               /\ InFlight(c, lo, hi)' \subseteq InFlight(c, lo, hi)
    PROVE  Falls(c)
<1> SUFFICES ASSUME NEW lo \in Int, NEW hi \in Int
             PROVE  Count(c, lo, hi)' <= Count(c, lo, hi)
  BY DEF Falls
<1>1. /\ IsFiniteSet(RowsIn(c, lo, hi)) /\ Cardinality(RowsIn(c, lo, hi)) \in Nat
      /\ IsFiniteSet(InFlight(c, lo, hi)) /\ Cardinality(InFlight(c, lo, hi)) \in Nat
  BY CountNat
<1>2. /\ IsFiniteSet(RowsIn(c, lo, hi)') /\ IsFiniteSet(InFlight(c, lo, hi)')
      /\ Cardinality(RowsIn(c, lo, hi)') <= Cardinality(RowsIn(c, lo, hi))
      /\ Cardinality(InFlight(c, lo, hi)') <= Cardinality(InFlight(c, lo, hi))
  BY <1>1, FS_Subset
<1>3. Cardinality(RowsIn(c, lo, hi)') \in Nat /\ Cardinality(InFlight(c, lo, hi)') \in Nat
  BY <1>2, FS_CardinalityType
<1> QED BY <1>1, <1>2, <1>3 DEF Count

(* A step of a request that admits it to nothing. *)
LEMMA SlotFalls ==
    ASSUME Core, Core', NEW r \in Requests, OnlySlot(r), UNCHANGED installs,
           Admits(r)' => Admits(r) /\ req'[r] = req[r] /\ admitted'[r] = admitted[r],
           NEW c \in Clients
    PROVE  Falls(c)
<1> SUFFICES ASSUME NEW lo \in Int, NEW hi \in Int
             PROVE  /\ RowsIn(c, lo, hi)' \subseteq RowsIn(c, lo, hi)
                    /\ InFlight(c, lo, hi)' \subseteq InFlight(c, lo, hi)
  BY SubsetFalls
<1>1. RowsIn(c, lo, hi)' \subseteq RowsIn(c, lo, hi)
  BY DEF RowsIn
<1>2. InFlight(c, lo, hi)' \subseteq InFlight(c, lo, hi)
  <2> SUFFICES ASSUME NEW q \in Requests, q \in InFlight(c, lo, hi)'
               PROVE  q \in InFlight(c, lo, hi)
    BY DEF InFlight
  <2>1. /\ Admits(q)' /\ Client(q)' = c /\ admitted'[q] >= lo /\ admitted'[q] < hi
    BY DEF InFlight
  <2>2. Admits(q) /\ req'[q] = req[q] /\ admitted'[q] = admitted[q]
    BY <2>1 DEF OnlySlot, Admits
  <2> QED BY <2>1, <2>2 DEF InFlight, Client
<1> QED BY <1>1, <1>2

(* A step that leaves rows and requests alone. *)
LEMMA StillFalls ==
    ASSUME Core, Core', UNCHANGED <<installs, pc, req, admitted>>, NEW c \in Clients
    PROVE  Falls(c)
<1>1. ASSUME NEW lo \in Int, NEW hi \in Int
      PROVE  /\ RowsIn(c, lo, hi)' \subseteq RowsIn(c, lo, hi)
             /\ InFlight(c, lo, hi)' \subseteq InFlight(c, lo, hi)
  BY DEF RowsIn, InFlight, Admits, Client
<1> QED BY <1>1, SubsetFalls

(* The row of an exchange takes the place of its request. *)
LEMMA MintFalls ==
    ASSUME IInv, Core', NEW r \in Requests, Mint(r), NEW c \in Clients
    PROVE  Falls(c)
<1> SUFFICES ASSUME NEW lo \in Int, NEW hi \in Int
             PROVE  Count(c, lo, hi)' <= Count(c, lo, hi)
  BY DEF Falls
<1>1. pc[r] = "tiered" /\ Answer(r) /\ (InsertRow(r) \/ UNCHANGED installs)
  BY DEF Mint
<1>2. OnlySlot(r) /\ pc'[r] = "idle" /\ req[r].kind = "token"
  BY <1>1, AnswerSlot DEF IInv, Core, Underway, Freed
<1>3. installs' \subseteq installs \union {NewRow(r)}
  BY <1>1, RowAdded DEF IInv
<1>4. NewRow(r).client = Client(r) /\ NewRow(r).admitted = admitted[r]
  BY DEF NewRow
<1>5. InFlight(c, lo, hi)' \subseteq InFlight(c, lo, hi) \ {r}
  <2> SUFFICES ASSUME NEW q \in Requests, q \in InFlight(c, lo, hi)'
               PROVE  q \in InFlight(c, lo, hi) /\ q # r
    BY DEF InFlight
  <2>1. Admits(q)' /\ Client(q)' = c /\ admitted'[q] >= lo /\ admitted'[q] < hi
    BY DEF InFlight
  <2>2. q # r
    BY <1>2, <2>1 DEF Admits
  <2>3. Admits(q) /\ Client(q) = c /\ admitted'[q] = admitted[q]
    BY <1>2, <2>1, <2>2 DEF OnlySlot, Admits, Client
  <2> QED BY <2>1, <2>2, <2>3 DEF InFlight
<1>6. /\ IsFiniteSet(RowsIn(c, lo, hi)) /\ Cardinality(RowsIn(c, lo, hi)) \in Nat
      /\ IsFiniteSet(InFlight(c, lo, hi)) /\ Cardinality(InFlight(c, lo, hi)) \in Nat
  BY CountNat DEF IInv
<1>7. /\ IsFiniteSet(InFlight(c, lo, hi) \ {r})
      /\ Cardinality(InFlight(c, lo, hi) \ {r}) =
            IF r \in InFlight(c, lo, hi) THEN Cardinality(InFlight(c, lo, hi)) - 1
                                         ELSE Cardinality(InFlight(c, lo, hi))
  BY <1>6, FS_RemoveElement
<1>8. /\ IsFiniteSet(InFlight(c, lo, hi)')
      /\ Cardinality(InFlight(c, lo, hi)') <= Cardinality(InFlight(c, lo, hi) \ {r})
  BY <1>5, <1>7, FS_Subset
<1>9. /\ Cardinality(InFlight(c, lo, hi)') \in Nat
      /\ Cardinality(InFlight(c, lo, hi) \ {r}) \in Nat
  BY <1>7, <1>8, FS_CardinalityType
<1>10. CASE r \in InFlight(c, lo, hi)
  <2>1. RowsIn(c, lo, hi)' \subseteq RowsIn(c, lo, hi) \union {NewRow(r)}
    BY <1>3 DEF RowsIn
  <2>2. /\ IsFiniteSet(RowsIn(c, lo, hi) \union {NewRow(r)})
        /\ Cardinality(RowsIn(c, lo, hi) \union {NewRow(r)}) =
              IF NewRow(r) \in RowsIn(c, lo, hi) THEN Cardinality(RowsIn(c, lo, hi))
                                                 ELSE Cardinality(RowsIn(c, lo, hi)) + 1
    BY <1>6, FS_AddElement
  <2>3. /\ IsFiniteSet(RowsIn(c, lo, hi)')
        /\ Cardinality(RowsIn(c, lo, hi)')
              <= Cardinality(RowsIn(c, lo, hi) \union {NewRow(r)})
    BY <2>1, <2>2, FS_Subset
  <2>4. /\ Cardinality(RowsIn(c, lo, hi)') \in Nat
        /\ Cardinality(RowsIn(c, lo, hi)') <= Cardinality(RowsIn(c, lo, hi)) + 1
    BY <1>6, <2>2, <2>3, FS_CardinalityType
  <2> QED BY <1>6, <1>7, <1>8, <1>9, <1>10, <2>4 DEF Count
<1>11. CASE r \notin InFlight(c, lo, hi)
  <2>1. ~(Client(r) = c /\ admitted[r] >= lo /\ admitted[r] < hi)
    BY <1>1, <1>2, <1>11 DEF InFlight, Admits
  <2>2. RowsIn(c, lo, hi)' \subseteq RowsIn(c, lo, hi)
    BY <1>3, <1>4, <2>1 DEF RowsIn
  <2>3. /\ IsFiniteSet(RowsIn(c, lo, hi)')
        /\ Cardinality(RowsIn(c, lo, hi)') <= Cardinality(RowsIn(c, lo, hi))
    BY <1>6, <2>2, FS_Subset
  <2>4. Cardinality(RowsIn(c, lo, hi)') \in Nat
    BY <2>3, FS_CardinalityType
  <2> QED BY <1>6, <1>7, <1>8, <1>9, <1>11, <2>3, <2>4 DEF Count
<1> QED BY <1>10, <1>11

(* An admission adds one exchange, to the intervals that hold this moment. *)
LEMMA AdmissionCounts ==
    ASSUME Core, Core', NEW r \in Requests, OnlySlot(r), req'[r] = req[r],
           admitted'[r] = clock, UNCHANGED installs,
           NEW c \in Clients, NEW lo \in Int, NEW hi \in Int
    PROVE  /\ Count(c, lo, hi)' <= Count(c, lo, hi) + 1
           /\ ~(req[r].kind = "token" /\ Client(r) = c /\ lo <= clock /\ clock < hi)
                => Count(c, lo, hi)' <= Count(c, lo, hi)
<1>1. /\ IsFiniteSet(RowsIn(c, lo, hi)) /\ Cardinality(RowsIn(c, lo, hi)) \in Nat
      /\ IsFiniteSet(InFlight(c, lo, hi)) /\ Cardinality(InFlight(c, lo, hi)) \in Nat
  BY CountNat
<1>2. RowsIn(c, lo, hi)' = RowsIn(c, lo, hi)
  BY DEF RowsIn
<1>3. clock \in Int
  BY DEF Core, TypeOK, Times
<1>4. ASSUME NEW q \in Requests, q \in InFlight(c, lo, hi)', q # r
      PROVE  q \in InFlight(c, lo, hi)
  <2>1. Admits(q)' /\ Client(q)' = c /\ admitted'[q] >= lo /\ admitted'[q] < hi
    BY <1>4 DEF InFlight
  <2>2. Admits(q) /\ Client(q) = c /\ admitted'[q] = admitted[q]
    BY <1>4, <2>1 DEF OnlySlot, Admits, Client
  <2> QED BY <2>1, <2>2 DEF InFlight
<1>5. InFlight(c, lo, hi)' \subseteq InFlight(c, lo, hi) \union {r}
  BY <1>4 DEF InFlight
<1>6. /\ IsFiniteSet(InFlight(c, lo, hi) \union {r})
      /\ Cardinality(InFlight(c, lo, hi) \union {r}) =
            IF r \in InFlight(c, lo, hi) THEN Cardinality(InFlight(c, lo, hi))
                                         ELSE Cardinality(InFlight(c, lo, hi)) + 1
  BY <1>1, FS_AddElement
<1>7. /\ IsFiniteSet(InFlight(c, lo, hi)')
      /\ Cardinality(InFlight(c, lo, hi)') <= Cardinality(InFlight(c, lo, hi) \union {r})
  BY <1>5, <1>6, FS_Subset
<1>8. Cardinality(InFlight(c, lo, hi)') \in Nat
  BY <1>7, FS_CardinalityType
<1>9. Count(c, lo, hi)' <= Count(c, lo, hi) + 1
  BY <1>1, <1>2, <1>6, <1>7, <1>8 DEF Count
<1>10. ASSUME ~(req[r].kind = "token" /\ Client(r) = c /\ lo <= clock /\ clock < hi)
       PROVE  Count(c, lo, hi)' <= Count(c, lo, hi)
  <2>1. r \notin InFlight(c, lo, hi)'
    <3> SUFFICES ASSUME r \in InFlight(c, lo, hi)' PROVE FALSE
      OBVIOUS
    <3>1. Admits(r)' /\ Client(r)' = c /\ clock >= lo /\ clock < hi
      BY DEF InFlight
    <3>2. req[r].kind = "token" /\ Client(r) = c
      BY <3>1 DEF Admits, Client
    <3> QED BY <1>3, <1>10, <3>1, <3>2
  <2>2. InFlight(c, lo, hi)' \subseteq InFlight(c, lo, hi)
    BY <1>4, <2>1 DEF InFlight
  <2>3. Cardinality(InFlight(c, lo, hi)') <= Cardinality(InFlight(c, lo, hi))
    BY <1>1, <2>2, FS_Subset
  <2> QED BY <1>1, <1>2, <1>8, <2>3 DEF Count
<1> QED BY <1>9, <1>10

(* The limiter counts its hit before it lets a request pass. *)
LEMMA LimitMeters ==
    ASSUME IInv, Core', Metered, NEW r \in Requests, Limit(r), NEW c \in Clients
    PROVE  Meter(c)'
<1> DEFINE x == <<req[r].kind, Client(r)>>
           y == <<"token", c>>
<1>1. /\ pc[r] = "resolved" /\ clock' = clock /\ UNCHANGED installs
      /\ hits' = [hits EXCEPT ![x] = Incr(x)] \/ UNCHANGED hits
  <2>1. Fault \/ Calm
    BY DEF Limit
  <2>2. clock' = clock
    BY <2>1, Dials DEF IInv, Core
  <2> QED BY <2>2 DEF Limit
<1>2. Core /\ Meter(c)
  BY DEF IInv, Metered
<1>3. x \in Endpoints \X Clients /\ y \in Endpoints \X Clients
  <2>1. req[r].kind \in Endpoints /\ Client(r) \in Clients
    BY <1>1, <1>2, Named
  <2> QED BY <2>1 DEF Endpoints
<1>4. \/ Hits(c)' = Hits(c)
      \/ Hits(c)' = Incr(y) /\ x = y /\ hits' = [hits EXCEPT ![x] = Incr(x)]
  <2>1. hits \in [Endpoints \X Clients -> [n : Nat, exp : Nat]]
    BY <1>2 DEF Core, TypeOK
  <2> HIDE DEF x, y
  <2>2. CASE UNCHANGED hits
    BY <2>2 DEF Hits
  <2>3. CASE hits' = [hits EXCEPT ![x] = Incr(x)]
    <3>1. hits'[y] = IF y = x THEN Incr(x) ELSE hits[y]
      BY <1>3, <2>1, <2>3
    <3>2. Hits(c) = hits[y] /\ Hits(c)' = hits'[y]
      BY DEF Hits, y
    <3> QED BY <2>3, <3>1, <3>2
  <2> QED BY <1>1, <2>2, <2>3
<1>5. clock \in Int
  BY <1>2 DEF Core, TypeOK, Times
<1>6. CASE Answer(r)
  <2>1. OnlySlot(r) /\ ~Admits(r)'
    BY <1>2, <1>6, AnswerSlot DEF Core, Freed, Admits
  <2>2. Falls(c)
    BY <1>1, <1>2, <2>1, SlotFalls
  <2>3. CASE Hits(c)' = Hits(c)
    <3>1. clock <= clock'
      BY <1>1, <1>5
    <3> QED BY <1>2, <2>2, <2>3, <3>1, MeterStill
  <2>4. CASE Hits(c)' = Incr(y)
    <3>1. Hit(c)
      <4> SUFFICES ASSUME NEW lo \in Int, NEW hi \in Int
                   PROVE  /\ Count(c, lo, hi)' <= Count(c, lo, hi) + 1
                          /\ Count(c, lo, hi)' <= Count(c, lo, hi)
        BY <1>1, <2>4 DEF Hit
      <4>1. Count(c, lo, hi) \in Nat /\ Count(c, lo, hi)' \in Nat
        BY <1>2, AllCountable, CountableNext DEF Countable
      <4> QED BY <2>2, <4>1 DEF Falls
    <3> QED BY <1>2, <3>1, MeterHitSame, MeterHitNew
  <2> QED BY <1>4, <2>3, <2>4
<1>7. CASE /\ hits' = [hits EXCEPT ![x] = Incr(x)] /\ Allowed(Incr(x).n)
           /\ admitted' = [admitted EXCEPT ![r] = clock]
           /\ Advance(r, "admitted") /\ UNCHANGED tier
  <2>1. "admitted" \in PcSteps
    BY DEF PcSteps
  <2>2. OnlySlot(r) /\ req'[r] = req[r]
    BY <1>2, <1>7, <2>1, AdvanceSlot DEF Core
  <2>3. admitted'[r] = clock
    BY <1>2, <1>7 DEF Core, TypeOK
  <2>4. ASSUME NEW lo \in Int, NEW hi \in Int
        PROVE  /\ Count(c, lo, hi)' <= Count(c, lo, hi) + 1
               /\ ~(req[r].kind = "token" /\ Client(r) = c /\ lo <= clock /\ clock < hi)
                    => Count(c, lo, hi)' <= Count(c, lo, hi)
    BY <1>1, <1>2, <2>2, <2>3, AdmissionCounts
  <2>5. CASE x = y
    <3>1. Hits(c)' = Incr(y)
      <4>1. hits \in [Endpoints \X Clients -> [n : Nat, exp : Nat]]
        BY <1>2 DEF Core, TypeOK
      <4> HIDE DEF x
      <4>2. hits'[y] = Incr(y)
        BY <1>3, <1>7, <2>5, <4>1
      <4> QED BY <4>2 DEF Hits
    <3>2. Allowed(Incr(y).n)
      BY <1>7, <2>5
    <3> HIDE DEF x, y
    <3>3. Hit(c)
      <4>1. ASSUME NEW lo \in Int, NEW hi \in Int
            PROVE  /\ Count(c, lo, hi)' <= Count(c, lo, hi) + 1
                   /\ ~(lo <= clock /\ clock < hi) \/ ~Allowed(Incr(y).n)
                        => Count(c, lo, hi)' <= Count(c, lo, hi)
        BY <2>4, <3>2
      <4> QED BY <1>1, <3>1, <4>1 DEF Hit, y
    <3> QED BY <1>2, <3>3, MeterHitSame, MeterHitNew
  <2>6. CASE x # y
    <3>1. ~(req[r].kind = "token" /\ Client(r) = c)
      BY <2>6
    <3>2. Falls(c)
      BY <2>4, <3>1 DEF Falls
    <3>3. Hits(c)' = Hits(c) /\ clock <= clock'
      BY <1>1, <1>4, <1>5, <2>6
    <3> QED BY <1>2, <3>2, <3>3, MeterStill
  <2> QED BY <2>5, <2>6
<1> QED BY <1>6, <1>7 DEF Limit

-------------------------------------------------------------------------------
(* Before the first request nothing was hit or admitted. *)
LEMMA InitMetered == Init => Metered
<1> SUFFICES ASSUME Init, NEW c \in Clients PROVE Meter(c)
  BY DEF Metered
<1>1. \A lo, hi \in Int : Count(c, lo, hi) = 0
  <2> SUFFICES ASSUME NEW lo \in Int, NEW hi \in Int PROVE Count(c, lo, hi) = 0
    OBVIOUS
  <2>1. RowsIn(c, lo, hi) = {} /\ InFlight(c, lo, hi) = {}
    BY DEF Init, RowsIn, InFlight, Admits
  <2> QED BY <2>1, FS_EmptySet DEF Count
<1>2. Hits(c) = NoHits
  BY DEF Init, Hits, Endpoints
<1>3. Unused(c) /\ Window(c)
  BY <1>1, <1>2 DEF Unused, Window, NoHits
<1>4. Slow(c)
  <2> SUFFICES ASSUME NEW s \in Int PROVE Count(c, s, s + RateWindow) < 2 * RateLimit
    BY DEF Slow
  <2>1. s + RateWindow \in Int
    BY ExchangeAssumption
  <2>2. Count(c, s, s + RateWindow) = 0
    BY <1>1, <2>1
  <2> QED BY <2>2, ExchangeAssumption
<1> QED BY <1>3, <1>4 DEF Meter

(* Every step keeps the meters. *)
LEMMA NextMetered ==
    ASSUME IInv, IInv', Metered, [Next]_vars PROVE Metered'
<1> SUFFICES ASSUME NEW c \in Clients PROVE Meter(c)'
  BY DEF Metered
<1>1. Core /\ Core' /\ Meter(c) /\ clock \in Int
  BY DEF IInv, Core, TypeOK, Times, Metered
<1>2. ASSUME UNCHANGED hits, clock' = clock \/ clock' = clock + 1, Falls(c)
      PROVE  Meter(c)'
  <2>1. Hits(c)' = Hits(c) /\ clock <= clock'
    BY <1>1, <1>2 DEF Hits
  <2> QED BY <1>1, <1>2, <2>1, MeterStill
<1>3. ASSUME UNCHANGED <<hits, installs, pc, req, admitted>>,
             clock' = clock \/ clock' = clock + 1
      PROVE  Meter(c)'
  BY <1>1, <1>2, <1>3, StillFalls
<1>4. ASSUME NEW r \in Requests, OnlySlot(r), UNCHANGED <<clock, hits, installs>>,
             Admits(r)' => Admits(r) /\ req'[r] = req[r] /\ admitted'[r] = admitted[r]
      PROVE  Meter(c)'
  <2>1. Falls(c)
    BY <1>1, <1>4, SlotFalls
  <2> QED BY <1>2, <1>4, <2>1
<1>5. ASSUME NEW r \in Requests, Answer(r), Fault \/ Calm, UNCHANGED <<hits, installs>>
      PROVE  Meter(c)'
  <2>1. OnlySlot(r) /\ ~Admits(r)' /\ clock' = clock
    BY <1>1, <1>5, AnswerSlot, Dials DEF Core, Freed, Admits
  <2> QED BY <1>4, <1>5, <2>1
<1>6. ASSUME NEW r \in Requests, Ask(r) PROVE Meter(c)'
  <2>1. /\ pc' = [pc EXCEPT ![r] = "arrived"] /\ start' = [start EXCEPT ![r] = clock]
        /\ UNCHANGED <<clock, hits, installs, admitted, tier>>
        /\ \E q : req' = [req EXCEPT ![r] = q]
    BY <1>6, Zenon DEF Ask, stores
  <2>2. OnlySlot(r) /\ ~Admits(r)'
    BY <1>1, <2>1 DEF Core, TypeOK, OnlySlot, Admits
  <2> QED BY <1>4, <2>1, <2>2
<1>7. ASSUME NEW r \in Requests, Resolve(r) PROVE Meter(c)'
  <2>1. UNCHANGED <<hits, installs>>
    BY <1>7 DEF Resolve, stores
  <2>2. CASE (Fault \/ Calm) /\ Answer(r)
    BY <1>5, <2>1, <2>2
  <2>3. CASE Calm /\ Advance(r, "resolved") /\ UNCHANGED <<admitted, tier>>
    <3>1. "resolved" \in PcSteps
      BY DEF PcSteps
    <3>2. OnlySlot(r) /\ pc'[r] = "resolved"
      BY <1>1, <2>3, <3>1, AdvanceSlot DEF Core
    <3>3. ~Admits(r)' /\ clock' = clock
      BY <2>3, <3>2 DEF Admits, Calm, dials
    <3> QED BY <1>4, <2>1, <3>2, <3>3
  <2> QED BY <1>7, <2>2, <2>3 DEF Resolve
<1>8. ASSUME NEW r \in Requests, Issue(r) PROVE Meter(c)'
  <2>1. Answer(r) /\ (Fault \/ Calm) /\ UNCHANGED <<hits, installs>>
    BY <1>8 DEF Issue
  <2> QED BY <1>5, <2>1
<1>9. ASSUME NEW r \in Requests, req[r].kind = "token", Consume(r) PROVE Meter(c)'
  <2>1. /\ pc[r] = "admitted" /\ Advance(r, "tiered") /\ (Fault \/ Calm)
        /\ UNCHANGED <<hits, installs, admitted>>
        /\ \E b \in {0, 1} : tier' = [tier EXCEPT ![r] = b]
    BY <1>9 DEF Consume
  <2>2. "tiered" \in PcSteps
    BY DEF PcSteps
  <2>3. OnlySlot(r) /\ req'[r] = req[r]
    BY <1>1, <2>1, <2>2, AdvanceSlot DEF Core
  <2>4. Admits(r) /\ admitted'[r] = admitted[r] /\ clock' = clock
    BY <1>1, <1>9, <2>1, Dials DEF Admits, Core
  <2> QED BY <1>4, <2>1, <2>3, <2>4
<1>10. ASSUME NEW r \in Requests, Mint(r) PROVE Meter(c)'
  <2>1. Falls(c)
    BY <1>1, <1>10, MintFalls
  <2>2. UNCHANGED hits /\ (Fault \/ Calm)
    BY <1>10 DEF Mint
  <2>3. clock' = clock
    BY <1>1, <2>2, Dials DEF Core
  <2> QED BY <1>2, <2>1, <2>2, <2>3
<1>11. ASSUME NEW r \in Requests, Limit(r) PROVE Meter(c)'
  BY <1>1, <1>11, LimitMeters
<1>12. ASSUME NEW d \in Clients, Revoke(d) PROVE Meter(c)'
  BY <1>3, <1>12 DEF Revoke, dials
<1>13. CASE Tick
  BY <1>3, <1>13 DEF Tick, stores
<1>14. CASE UNCHANGED vars
  BY <1>3, <1>14 DEF vars, dials, stores
<1> QED BY <1>6, <1>7, <1>8, <1>9, <1>10, <1>11, <1>12, <1>13, <1>14
        DEF Next, NewChallenge, NewToken

(* Every reachable state has its admissions paid for by hits. *)
THEOREM AllMetered == Spec => []Metered
<1>1. IInv /\ IInv' /\ Metered /\ [Next]_vars => Metered'
  BY NextMetered
<1> QED BY InitMetered, <1>1, Invariance, PTL DEF Spec

(* Less than twice the limit of the exchanges admitted in an interval of   *)
(* one window leave a new install row, in any interval and for any hints.  *)
THEOREM RowsGrowSlowly == Spec => []RowGrowthBounded
<1>1. IInv /\ Metered => RowGrowthBounded
  <2> SUFFICES ASSUME IInv, Metered, NEW c \in Clients, NEW s \in Times
               PROVE  Cardinality(RowsIn(c, s, s + RateWindow)) < 2 * RateLimit
    BY DEF RowGrowthBounded, RowsIn
  <2>1. s \in Int /\ s + RateWindow \in Int
    BY ExchangeAssumption DEF Times
  <2>2. Count(c, s, s + RateWindow) < 2 * RateLimit
    BY <2>1 DEF Metered, Meter, Slow
  <2>3. /\ Cardinality(RowsIn(c, s, s + RateWindow)) \in Nat
        /\ Cardinality(InFlight(c, s, s + RateWindow)) \in Nat
    BY <2>1, CountNat DEF IInv
  <2> QED BY <2>2, <2>3, ExchangeAssumption DEF Count
<1> QED BY <1>1, AllMetered, Invariance, PTL
==================================================================================
