-------------------------- MODULE RamManagerProofs --------------------------
(***************************************************************************)
(* Why the RAM manager may rely on its lists, for every board: free memory *)
(* is what was added and not handed out, the searches return nothing else, *)
(* and so it implements FreeMemory.                                        *)
(***************************************************************************)
EXTENDS RamManager, FiniteSetTheorems, SequenceTheorems, WellFoundedInduction, TLAPS

\* What fix_size() leaves of a candidate is a non-empty part of it that the
\* avoid range does not touch: find_ram() may go on with it, and never hands
\* out a byte of an avoid range it has passed.
THEOREM FixSizeKeepsClear ==
    ASSUME NEW r \in Ranges, NEW a \in Ranges, r.start < r.end, a.start <= a.end,
           FixSize(r, a) # NoRange
    PROVE  /\ FixSize(r, a) \in Ranges
           /\ r.start <= FixSize(r, a).start /\ FixSize(r, a).start < FixSize(r, a).end
           /\ FixSize(r, a).end <= r.end
           /\ FixSize(r, a).end <= a.start \/ a.end <= FixSize(r, a).start
<1> USE DEF Ranges
<1>1. CASE r.start >= a.end \/ r.end <= a.start
  BY <1>1 DEF FixSize
<1>2. CASE r.start < a.end /\ r.end > a.start /\ r.start >= a.start
  <2>1. FixSize(r, a) = IF r.end <= a.end THEN NoRange ELSE [r EXCEPT !.start = a.end]
    BY <1>2 DEF FixSize
  <2> QED BY <1>2, <2>1
<1>3. CASE r.start < a.end /\ r.end > a.start /\ r.start < a.start
  <2>1. FixSize(r, a) =
            IF r.end < a.end \/ a.start - r.start > r.end - a.end
            THEN [r EXCEPT !.end = a.start] ELSE [r EXCEPT !.start = a.end]
    BY <1>3 DEF FixSize
  <2>2. CASE r.end < a.end \/ a.start - r.start > r.end - a.end
    BY <1>3, <2>1, <2>2
  <2>3. CASE ~(r.end < a.end \/ a.start - r.start > r.end - a.end)
    <3>1. FixSize(r, a) = [r EXCEPT !.start = a.end]
      BY <2>1, <2>3
    <3>2. a.end < r.end
      BY <1>3, <2>3
    <3> QED BY <1>3, <3>1, <3>2
  <2> QED BY <2>2, <2>3
<1> QED BY <1>1, <1>2, <1>3

-----------------------------------------------------------------------------
(* Numbers.                                                                *)

LEMMA LeastNat ==
    ASSUME NEW S, S \subseteq Nat, S # {}
    PROVE  \E n \in S : \A m \in S : n <= m
<1>1. IsWellFoundedOn(OpToRel(<, Nat), Nat)
  BY NatLessThanWellFounded
<1>2. PICK n \in S : \A m \in S : ~(<<m, n>> \in OpToRel(<, Nat))
  BY <1>1, WFMin
<1>3. ASSUME NEW m \in S PROVE n <= m
  <2>1. m \in Nat /\ n \in Nat
    OBVIOUS
  <2>2. <<m, n>> \in Nat \X Nat
    BY <2>1
  <2>3. ~(m < n)
    BY <1>2, <2>2 DEF OpToRel
  <2> QED BY <2>1, <2>3
<1> QED BY <1>3

LEMMA MinOf ==
    ASSUME NEW S, S \subseteq Nat, S # {}
    PROVE  Min(S) \in S /\ \A m \in S : Min(S) <= m
<1>1. \E n \in S : \A m \in S : n <= m
  BY LeastNat
<1> QED BY <1>1 DEF Min

LEMMA MaxOf ==
    ASSUME NEW S, S \subseteq Nat, S # {}, NEW top \in Nat, \A m \in S : m <= top
    PROVE  Max(S) \in S /\ \A m \in S : m <= Max(S)
<1> DEFINE U == {n \in Nat : \A m \in S : m <= n}
<1>1. PICK n \in U : \A m \in U : n <= m
  <2>1. U \subseteq Nat /\ top \in U
    OBVIOUS
  <2> QED BY <2>1, LeastNat
<1>2. n \in S
  <2> SUFFICES ASSUME n \notin S PROVE FALSE
    OBVIOUS
  <2>1. PICK m \in S : TRUE
    OBVIOUS
  <2>2. n \in Nat /\ n > 0 /\ n - 1 \in Nat
    BY <2>1
  <2>3. n - 1 \in U
    BY <2>2
  <2> QED BY <1>1, <2>2, <2>3
<1>3. \E x \in S : \A m \in S : x >= m
  BY <1>2
<1> QED BY <1>3 DEF Max

\* Rounding up, and truncating, to a multiple.
LEMMA DivIs ==
    ASSUME NEW x \in Nat, NEW a \in Nat \ {0}
    PROVE  /\ x \div a \in Nat /\ (x \div a) * a \in Nat
           /\ (x \div a) * a <= x /\ x < (x \div a) * a + a
           /\ ((x \div a) * a) % a = 0
<1>1. x \div a \in Int /\ x % a \in 0 .. a - 1
  OBVIOUS
<1>2. x = a * (x \div a) + (x % a)
  OBVIOUS
<1> QED BY <1>1, <1>2

LEMMA RoundIs ==
    ASSUME NEW x \in Nat, NEW a \in Nat \ {0}
    PROVE  Round(x, a) \in Nat /\ x <= Round(x, a) /\ Round(x, a) % a = 0
<1>1. x + a - 1 \in Nat
  OBVIOUS
<1> QED BY <1>1, DivIs DEF Round

LEMMA TruncIs ==
    ASSUME NEW x \in Nat, NEW a \in Nat \ {0}
    PROVE  Trunc(x, a) \in Nat /\ Trunc(x, a) <= x /\ Trunc(x, a) % a = 0
BY DivIs DEF Trunc
-----------------------------------------------------------------------------
(* What the avoid list leaves of an entry.                                 *)

\* The chain of what is left after each of the first N avoid ranges.
IsChain(left, r, avoid, N) ==
    left = [n \in 0 .. N |-> IF n = 0 THEN r
                             ELSE IF left[n - 1] = NoRange THEN NoRange
                             ELSE FixSize(left[n - 1], avoid[n])]

LEMMA ChainExists ==
    ASSUME NEW r, NEW avoid, NEW N \in Nat
    PROVE  \E left : IsChain(left, r, avoid, N)
<1> DEFINE Bad == {n \in Nat : ~ \E left : IsChain(left, r, avoid, n)}
<1> SUFFICES ASSUME Bad # {} PROVE FALSE
  OBVIOUS
<1>1. PICK n \in Bad : \A m \in Bad : n <= m
  BY LeastNat
<1>2. n \in Nat /\ ~ \E left : IsChain(left, r, avoid, n)
  OBVIOUS
<1>3. n # 0
  <2>1. IsChain([m \in 0 .. 0 |-> r], r, avoid, 0)
    BY DEF IsChain
  <2> QED BY <1>2, <2>1
<1>4. n - 1 \in Nat /\ n - 1 \notin Bad
  BY <1>1, <1>2, <1>3
<1>5. PICK left : IsChain(left, r, avoid, n - 1)
  BY <1>4
<1> DEFINE last == IF left[n - 1] = NoRange THEN NoRange ELSE FixSize(left[n - 1], avoid[n])
           more == [m \in 0 .. n |-> IF m = n THEN last ELSE left[m]]
<1> HIDE DEF last
<1>6. \A m \in 0 .. n : more[m] = IF m = n THEN last ELSE left[m]
  OBVIOUS
<1>7. ASSUME NEW m \in 0 .. n
      PROVE  more[m] = IF m = 0 THEN r ELSE IF more[m - 1] = NoRange THEN NoRange
                                       ELSE FixSize(more[m - 1], avoid[m])
  <2>1. CASE m = n
    <3>1. n - 1 \in 0 .. n /\ n \in 0 .. n /\ n - 1 # n
      BY <1>2, <1>3
    <3>2. more[n] = last /\ more[n - 1] = left[n - 1]
      BY <1>6, <3>1
    <3> QED BY <1>3, <2>1, <3>2 DEF last
  <2>2. CASE m # n
    <3>1. m \in 0 .. n - 1
      BY <1>2, <2>2
    <3>2. left[m] = IF m = 0 THEN r ELSE IF left[m - 1] = NoRange THEN NoRange
                                    ELSE FixSize(left[m - 1], avoid[m])
      BY <1>5, <3>1 DEF IsChain
    <3>3. m # 0 => m - 1 \in 0 .. n /\ m - 1 # n
      BY <1>2, <3>1
    <3>4. more[m] = left[m] /\ (m # 0 => more[m - 1] = left[m - 1])
      BY <1>6, <2>2, <3>3
    <3> QED BY <3>2, <3>4
  <2> QED BY <2>1, <2>2
<1>8. more = [m \in 0 .. n |-> more[m]]
  OBVIOUS
<1> HIDE DEF more
<1>9. IsChain(more, r, avoid, n)
  BY <1>7, <1>8 DEF IsChain
<1> QED BY <1>2, <1>9

LEMMA UsableChain ==
    ASSUME NEW r, NEW avoid, Len(avoid) \in Nat
    PROVE  \E left : IsChain(left, r, avoid, Len(avoid)) /\ Usable(r, avoid) = left[Len(avoid)]
<1>1. \E left : IsChain(left, r, avoid, Len(avoid))
  BY ChainExists
<1> DEFINE it == CHOOSE left : IsChain(left, r, avoid, Len(avoid))
<1>2. IsChain(it, r, avoid, Len(avoid))
  BY <1>1
<1>3. Usable(r, avoid) = it[Len(avoid)]
  BY DEF Usable, IsChain
<1> HIDE DEF it
<1> QED BY <1>2, <1>3

\* A non-empty part of the entry, and clear of every avoid range.
Clear(u, list) == \A k \in DOMAIN list : u.end <= list[k].start \/ list[k].end <= u.start
Upright(list) == \A k \in DOMAIN list : list[k].start <= list[k].end
PartOf(u, r) == u \in Ranges /\ r.start <= u.start /\ u.start < u.end /\ u.end <= r.end

LEMMA UsableIs ==
    ASSUME NEW r \in Ranges, r.start < r.end, NEW avoid \in Seq(Ranges), Upright(avoid),
           Usable(r, avoid) # NoRange
    PROVE  PartOf(Usable(r, avoid), r) /\ Clear(Usable(r, avoid), avoid)
<1>1. PICK N \in Nat : N = Len(avoid)
  OBVIOUS
<1>2. PICK left : IsChain(left, r, avoid, N) /\ Usable(r, avoid) = left[N]
  BY <1>1, UsableChain
<1>3. left[0] = r
  BY <1>2 DEF IsChain
<1>4. \A n \in 1 .. N : left[n] = IF left[n - 1] = NoRange THEN NoRange ELSE FixSize(left[n - 1], avoid[n])
  BY <1>2 DEF IsChain
<1>5. \A n \in 1 .. N : avoid[n] \in Ranges /\ avoid[n].start <= avoid[n].end
  BY <1>1 DEF Upright
<1> DEFINE Good(n) == left[n] # NoRange =>
                        /\ PartOf(left[n], r)
                        /\ \A k \in 1 .. n : left[n].end <= avoid[k].start \/ avoid[k].end <= left[n].start
           Bad == {n \in 0 .. N : ~Good(n)}
<1>6. Bad = {}
  <2> SUFFICES ASSUME Bad # {} PROVE FALSE
    OBVIOUS
  <2>0. Bad \subseteq Nat
    OBVIOUS
  <2>1. PICK n \in Bad : \A m \in Bad : n <= m
    <3> HIDE DEF Bad
    <3> QED BY <2>0, LeastNat
  <2>2. n \in 0 .. N /\ ~Good(n)
    OBVIOUS
  <2>3. n # 0
    <3>1. Good(0)
      BY <1>3 DEF PartOf, Ranges
    <3> QED BY <2>2, <3>1
  <2>4. n - 1 \in 0 .. N /\ n \in 1 .. N /\ Good(n - 1)
    <3>1. n - 1 \in 0 .. N /\ n \in 1 .. N
      BY <2>2, <2>3
    <3>2. n - 1 \notin Bad
      BY <2>1, <2>2
    <3> QED BY <3>1, <3>2
  <2>5. PICK m \in Nat : m = n - 1 /\ n = m + 1
    BY <2>4
  <2>6. left[n] # NoRange => left[m] # NoRange /\ left[n] = FixSize(left[m], avoid[n])
    BY <1>4, <2>4, <2>5
  <2>7. Good(m)
    BY <2>4, <2>5
  <2> SUFFICES ASSUME left[n] # NoRange PROVE Good(n)
    BY <2>2
  <2>8. /\ PartOf(left[m], r)
        /\ \A k \in 1 .. m : left[m].end <= avoid[k].start \/ avoid[k].end <= left[m].start
    BY <2>6, <2>7
  <2>9. PICK u \in Ranges, a \in Ranges, v \in {left[n]} : u = left[m] /\ a = avoid[n] /\ v = left[n]
    BY <1>5, <2>4, <2>8 DEF PartOf
  <2>10. /\ v \in Ranges /\ u.start <= v.start /\ v.start < v.end /\ v.end <= u.end
         /\ v.end <= a.start \/ a.end <= v.start
    <3>1. u.start < u.end /\ a.start <= a.end /\ FixSize(u, a) # NoRange /\ v = FixSize(u, a)
      BY <1>5, <2>4, <2>6, <2>8, <2>9 DEF PartOf
    <3> QED BY <3>1, FixSizeKeepsClear
  <2>11. PartOf(left[n], r)
    <3>1. PartOf(u, r)
      BY <2>8, <2>9
    <3>2. PartOf(v, r)
      BY <3>1, <2>10, SMTT(30) DEF PartOf, Ranges
    <3> QED BY <2>9, <3>2
  <2>12. \A k \in 1 .. n : v.end <= avoid[k].start \/ avoid[k].end <= v.start
    <3> SUFFICES ASSUME NEW k \in 1 .. n PROVE v.end <= avoid[k].start \/ avoid[k].end <= v.start
      OBVIOUS
    <3>1. CASE k = n
      BY <2>9, <2>10, <3>1
    <3>2. CASE k # n
      <4>1. k \in 1 .. m /\ k \in 1 .. N
        BY <2>2, <2>5, <3>2
      <4>2. avoid[k] \in Ranges
        BY <1>5, <4>1
      <4>3. u.end <= avoid[k].start \/ avoid[k].end <= u.start
        BY <2>8, <2>9, <4>1
      <4>4. /\ u.start \in Int /\ u.end \in Int /\ v.start \in Int /\ v.end \in Int
            /\ avoid[k].start \in Int /\ avoid[k].end \in Int
        BY <2>10, <4>2 DEF Ranges
      <4>5. CASE u.end <= avoid[k].start
        BY <2>10, <4>4, <4>5
      <4>6. CASE avoid[k].end <= u.start
        BY <2>10, <4>4, <4>6
      <4> QED BY <4>3, <4>5, <4>6
    <3> QED BY <3>1, <3>2
  <2> QED BY <2>9, <2>11, <2>12
<1>7. Good(N)
  BY <1>6
<1> QED BY <1>1, <1>2, <1>7 DEF Clear
-----------------------------------------------------------------------------
(* What the searches return.                                               *)

LEMMA LowestOf ==
    ASSUME NEW list, list \subseteq Ranges, list # {}
    PROVE  Lowest(list) \in list
<1> DEFINE starts == {r.start : r \in list}
<1>1. starts \subseteq Nat /\ starts # {}
  BY DEF Ranges
<1>2. PICK n \in starts : \A m \in starts : n <= m
  <2> HIDE DEF starts
  <2> QED BY <1>1, LeastNat
<1>3. PICK r \in list : r.start = n
  OBVIOUS
<1>4. \A q \in list : r.start <= q.start
  BY <1>2, <1>3
<1> QED BY <1>4 DEF Lowest

\* Inside of what the avoid list leaves of an entry.
Within(list, avoid, addr, size) ==
    \E r \in list, u \in Ranges :
        PartOf(u, r) /\ Clear(u, avoid) /\ u.start <= addr /\ addr + size <= u.end

\* The list and the avoid list are in the form the searches take them to be.
Searchable(list, avoid) ==
    /\ list \subseteq Ranges /\ \A r \in list : r.start < r.end
    /\ avoid \in Seq(Ranges) /\ Upright(avoid)

LEMMA FindRamFound ==
    ASSUME NEW list, NEW avoid, Searchable(list, avoid), NEW size \in Nat, NEW align \in Nat \ {0},
           FindRam(list, avoid, size, align) # NoAddr
    PROVE  /\ FindRam(list, avoid, size, align) \in Nat
           /\ FindRam(list, avoid, size, align) % align = 0
           /\ Within(list, avoid, FindRam(list, avoid, size, align), size)
<1> DEFINE addr(r) == Round(Usable(r, avoid).start, align)
           fits == {r \in list : /\ Usable(r, avoid) # NoRange /\ addr(r) < Usable(r, avoid).end
                                 /\ size <= Usable(r, avoid).end - addr(r)}
<1>1. fits # {} /\ FindRam(list, avoid, size, align) = addr(Lowest(fits))
  BY DEF FindRam
<1>2. Lowest(fits) \in fits
  <2>1. fits \subseteq Ranges
    BY DEF Searchable
  <2> HIDE DEF fits
  <2> QED BY <1>1, <2>1, LowestOf
<1>3. PICK r \in list : r = Lowest(fits)
  BY <1>2
<1>4. PICK u : u = Usable(r, avoid)
  OBVIOUS
<1>5. u # NoRange /\ size <= u.end - addr(r) /\ addr(r) = Round(u.start, align)
  BY <1>2, <1>3, <1>4
<1>6. u \in Ranges /\ PartOf(u, r) /\ Clear(u, avoid)
  <2>1. PartOf(u, r) /\ Clear(u, avoid)
    BY <1>4, <1>5, UsableIs DEF Searchable
  <2> QED BY <2>1 DEF PartOf
<1>7. u.start \in Nat /\ u.end \in Nat
  BY <1>6 DEF Ranges
<1>8. addr(r) \in Nat /\ u.start <= addr(r) /\ addr(r) % align = 0
  BY <1>5, <1>7, RoundIs
<1> HIDE DEF addr
<1>9. addr(r) + size <= u.end
  BY <1>5, <1>7, <1>8
<1>10. FindRam(list, avoid, size, align) = addr(r)
  BY <1>1, <1>3
<1> QED BY <1>6, <1>8, <1>9, <1>10 DEF Within

\* The block from the top: rounded up to a page, aligned and not above the limit.
LEMMA FindTopFound ==
    ASSUME NEW list, NEW avoid, Searchable(list, avoid), NEW size \in Nat \ {0}, NEW align \in Nat \ {0},
           NEW limit \in Nat, IsFiniteSet(list), FindTop(list, avoid, size, align, limit) # NoAddr
    PROVE  /\ FindTop(list, avoid, size, align, limit) \in Nat
           /\ Within(list, avoid, FindTop(list, avoid, size, align, limit), Round(size, PageSize))
           /\ size <= Round(size, PageSize) /\ Round(size, PageSize) \in Nat
           /\ FindTop(list, avoid, size, align, limit) + Round(size, PageSize) <= limit
           /\ FindTop(list, avoid, size, align, limit) % align = 0
              \/ FindTop(list, avoid, size, align, limit) = limit - Round(size, PageSize)
<1> DEFINE found == FindTop(list, avoid, size, align, limit)
<1>1. PICK n \in Nat : n = Round(size, PageSize) /\ size <= n
  BY RoundIs, RamAssumption
<1> DEFINE top(r) == Trunc(Usable(r, avoid).end - n, align)
           fits == {r \in list : /\ Usable(r, avoid) # NoRange
                                 /\ Usable(r, avoid).end - Usable(r, avoid).start >= n
                                 /\ top(r) >= Usable(r, avoid).start /\ top(r) > 0}
           beyond == {r \in fits : top(r) + n >= limit}
           others == {0} \union {top(r) : r \in fits \ beyond}
<1>2. found = TopOf(list, avoid, n, align, limit) /\ found # 0
  BY <1>1 DEF FindTop
<1>3. ASSUME NEW r \in fits
      PROVE  \E u \in Ranges :
                /\ u = Usable(r, avoid) /\ PartOf(u, r) /\ Clear(u, avoid)
                /\ top(r) \in Nat /\ u.start <= top(r) /\ top(r) + n <= u.end /\ top(r) % align = 0
  <2>1. PICK u : u = Usable(r, avoid)
    OBVIOUS
  <2>2. r \in list /\ u # NoRange /\ u.end - u.start >= n /\ top(r) >= u.start
    BY <2>1
  <2>3. PartOf(u, r) /\ Clear(u, avoid)
    BY <2>1, <2>2, UsableIs DEF Searchable
  <2>4. u \in Ranges /\ u.start \in Nat /\ u.end \in Nat
    BY <2>3 DEF PartOf, Ranges
  <2>5. PICK x \in Nat : x = u.end - n
    BY <2>2, <2>4
  <2>6. top(r) = Trunc(x, align)
    BY <2>1, <2>5
  <2>7. top(r) \in Nat /\ top(r) <= x /\ top(r) % align = 0
    BY <2>6, TruncIs
  <2> HIDE DEF top
  <2> QED BY <2>1, <2>2, <2>3, <2>4, <2>5, <2>7
<1>4. found = IF beyond # {} /\ limit - n >= Usable(Lowest(beyond), avoid).start
              THEN limit - n ELSE Max(others)
  BY <1>2 DEF TopOf
<1>5. CASE beyond # {} /\ limit - n >= Usable(Lowest(beyond), avoid).start
  <2>1. Lowest(beyond) \in beyond
    <3>1. beyond \subseteq Ranges
      BY DEF Searchable
    <3> HIDE DEF beyond
    <3> QED BY <1>5, <3>1, LowestOf
  <2>2. PICK r \in fits : r = Lowest(beyond) /\ top(r) + n >= limit
    BY <2>1
  <2>3. PICK u \in Ranges :
           /\ u = Usable(r, avoid) /\ PartOf(u, r) /\ Clear(u, avoid)
           /\ top(r) \in Nat /\ u.start <= top(r) /\ top(r) + n <= u.end
    BY <1>3
  <2>4. r \in list /\ u.start \in Nat /\ u.end \in Nat
    BY <2>3 DEF Ranges
  <2>5. found = limit - n /\ limit - n >= u.start
    BY <1>4, <1>5, <2>2, <2>3
  <2> HIDE DEF top, found, fits, beyond, others
  <2>6. found \in Nat /\ u.start <= found /\ found + n <= u.end /\ found + n <= limit
    BY <2>2, <2>3, <2>4, <2>5
  <2>7. Within(list, avoid, found, n)
    BY <2>3, <2>4, <2>6 DEF Within
  <2> QED BY <1>1, <2>5, <2>6, <2>7 DEF found
<1>6. CASE ~(beyond # {} /\ limit - n >= Usable(Lowest(beyond), avoid).start)
  <2>1. found = Max(others)
    BY <1>4, <1>6
  <2>2. others \subseteq Nat /\ others # {} /\ \A m \in others : m <= limit
    <3>1. \A r \in fits : top(r) \in Nat
      BY <1>3
    <3>2. ASSUME NEW r \in fits \ beyond PROVE top(r) \in Nat /\ top(r) + n < limit
      BY <3>1, <1>1
    <3> HIDE DEF top, fits, beyond
    <3>3. \A r \in fits \ beyond : top(r) \in Nat /\ top(r) <= limit
      BY <3>2
    <3> QED BY <3>3
  <2>3. found \in others
    <3> HIDE DEF others
    <3> QED BY <2>1, <2>2, MaxOf
  <2>4. PICK r \in fits \ beyond : found = top(r)
    BY <1>2, <2>3
  <2>5. PICK u \in Ranges :
           /\ u = Usable(r, avoid) /\ PartOf(u, r) /\ Clear(u, avoid)
           /\ top(r) \in Nat /\ u.start <= top(r) /\ top(r) + n <= u.end /\ top(r) % align = 0
    BY <1>3
  <2>6. r \in list /\ ~(top(r) + n >= limit)
    BY <2>4
  <2> HIDE DEF top, found, fits, beyond, others
  <2>7. Within(list, avoid, found, n) /\ found + n <= limit
    BY <2>4, <2>5, <2>6 DEF Within
  <2> QED BY <1>1, <2>4, <2>5, <2>7 DEF found
<1> QED BY <1>5, <1>6

\* What lies within is free and avoids what is to be avoided.
LEMMA WithinIsFree ==
    ASSUME NEW list, NEW avoid, Searchable(list, avoid), NEW addr \in Nat, NEW size \in Nat,
           Within(list, avoid, addr, size)
    PROVE  /\ BytesOf(Span(addr, size)) \subseteq Bytes(list)
           /\ BytesOf(Span(addr, size)) \intersect Bytes(Range(avoid)) = {}
<1>1. PICK r \in list, u \in Ranges :
         PartOf(u, r) /\ Clear(u, avoid) /\ u.start <= addr /\ addr + size <= u.end
  BY DEF Within
<1>2. r \in Ranges /\ \A k \in DOMAIN avoid : avoid[k] \in Ranges
  BY DEF Searchable
<1>3. ASSUME NEW b \in BytesOf(Span(addr, size)) PROVE b \in Bytes(list) /\ b \notin Bytes(Range(avoid))
  <2>1. b \in Int /\ u.start <= b /\ b < u.end /\ u.start \in Nat /\ u.end \in Nat
    BY <1>1 DEF BytesOf, Span, Ranges
  <2>2. b \in BytesOf(r)
    BY <1>1, <1>2, <2>1 DEF PartOf, BytesOf, Ranges
  <2>3. ASSUME NEW k \in DOMAIN avoid PROVE b \notin BytesOf(avoid[k])
    BY <1>1, <1>2, <2>1 DEF Clear, BytesOf, Ranges
  <2> QED BY <2>2, <2>3 DEF Bytes, Range
<1> QED BY <1>3

LEMMA OneMore ==
    ASSUME NEW S, IsFiniteSet(S), NEW x
    PROVE  /\ IsFiniteSet(S \union {x}) /\ Cardinality(S) \in Nat
           /\ Cardinality(S \union {x}) \in Nat
           /\ Cardinality(S \union {x}) <= Cardinality(S) + 1
<1>1. IsFiniteSet(S \union {x}) /\ Cardinality(S) \in Nat
  BY FS_AddElement, FS_CardinalityType
<1>2. Cardinality(S \union {x}) = IF x \in S THEN Cardinality(S) ELSE Cardinality(S) + 1
  BY FS_AddElement, Zenon
<1>3. CASE x \in S
  BY <1>1, <1>2, <1>3
<1>4. CASE x \notin S
  BY <1>1, <1>2, <1>4
<1> QED BY <1>3, <1>4

-----------------------------------------------------------------------------
(* What adding and allocating leave of the list.                           *)

\* No entry is empty, and none touches another.
Canon(list) ==
    /\ list \subseteq Ranges /\ \A r \in list : r.start < r.end
    /\ \A r, q \in list : r = q \/ r.end < q.start \/ q.end < r.start

Misses(r, cut) == cut.end <= r.start \/ r.end <= cut.start
Below(r, cut) == [start |-> r.start, end |-> cut.start]
Above(r, cut) == [start |-> cut.end, end |-> r.end]

\* A piece of an entry outside of what is cut.
Remains(p, r, cut) ==
    \/ Misses(r, cut) /\ p = r
    \/ ~Misses(r, cut) /\ r.start < cut.start /\ p = Below(r, cut)
    \/ ~Misses(r, cut) /\ cut.end < r.end /\ p = Above(r, cut)

LEMMA CutIs ==
    ASSUME NEW list, NEW cut, NEW p
    PROVE  p \in Cut(list, cut) <=> \E r \in list : Remains(p, r, cut)
<1>1. \A r : p \in (IF cut.end <= r.start \/ r.end <= cut.start THEN {r}
                    ELSE Part(r.start, cut.start) \union Part(cut.end, r.end))
             <=> Remains(p, r, cut)
  BY DEF Remains, Misses, Part, Below, Above
<1> QED BY <1>1 DEF Cut

LEMMA RemainsIn ==
    ASSUME NEW r \in Ranges, NEW cut \in Ranges, cut.start <= cut.end, r.start < r.end,
           NEW p, Remains(p, r, cut)
    PROVE  p \in Ranges /\ r.start <= p.start /\ p.start < p.end /\ p.end <= r.end /\ Misses(p, cut)
BY DEF Remains, Ranges, Misses, Below, Above

\* Exactly the bytes that are cut leave the list.
LEMMA CutBytes ==
    ASSUME NEW list, Canon(list), NEW cut \in Ranges, cut.start <= cut.end
    PROVE  Bytes(Cut(list, cut)) = Bytes(list) \ BytesOf(cut)
<1>1. ASSUME NEW b \in Bytes(Cut(list, cut)) PROVE b \in Bytes(list) \ BytesOf(cut)
  <2>1. PICK p \in Cut(list, cut) : b \in BytesOf(p)
    BY DEF Bytes
  <2>2. PICK r \in list : Remains(p, r, cut)
    BY CutIs
  <2>3. r \in Ranges /\ r.start < r.end
    BY DEF Canon
  <2>4. p \in Ranges /\ r.start <= p.start /\ p.start < p.end /\ p.end <= r.end /\ Misses(p, cut)
    BY <2>2, <2>3, RemainsIn
  <2>5. b \in BytesOf(r) /\ b \notin BytesOf(cut)
    BY <2>1, <2>3, <2>4 DEF BytesOf, Ranges, Misses
  <2> QED BY <2>5 DEF Bytes
<1>2. ASSUME NEW b \in Bytes(list) \ BytesOf(cut) PROVE b \in Bytes(Cut(list, cut))
  <2>1. PICK r \in list : b \in BytesOf(r)
    BY DEF Bytes
  <2>2. r \in Ranges /\ r.start < r.end
    BY DEF Canon
  <2>3. \E p : Remains(p, r, cut) /\ b \in BytesOf(p)
    <3>1. CASE Misses(r, cut)
      BY <2>1, <3>1 DEF Remains
    <3>2. CASE ~Misses(r, cut) /\ b < cut.start
      <4>1. Remains(Below(r, cut), r, cut)
        BY <2>1, <2>2, <3>2 DEF Remains, BytesOf, Ranges
      <4>2. b \in BytesOf(Below(r, cut))
        BY <2>1, <2>2, <3>2 DEF BytesOf, Below, Ranges
      <4> QED BY <4>1, <4>2
    <3>3. CASE ~Misses(r, cut) /\ ~(b < cut.start)
      <4>1. b \in Nat /\ cut.end <= b
        BY <2>1, <2>2, <3>3 DEF BytesOf, Ranges
      <4>2. Remains(Above(r, cut), r, cut)
        BY <2>1, <2>2, <3>3, <4>1 DEF Remains, BytesOf, Ranges
      <4>3. b \in BytesOf(Above(r, cut))
        BY <2>1, <2>2, <4>1 DEF BytesOf, Above, Ranges
      <4> QED BY <4>2, <4>3
    <3> QED BY <3>1, <3>2, <3>3
  <2>4. PICK p : Remains(p, r, cut) /\ b \in BytesOf(p)
    BY <2>3
  <2>5. p \in Cut(list, cut)
    BY <2>4, CutIs
  <2> QED BY <2>4, <2>5 DEF Bytes
<1> QED BY <1>1, <1>2

\* The list keeps its form, also when an entry is split.
LEMMA CutCanon ==
    ASSUME NEW list, Canon(list), NEW cut \in Ranges, cut.start < cut.end
    PROVE  Canon(Cut(list, cut))
<1>1. ASSUME NEW p \in Cut(list, cut)
      PROVE  \E r \in list : /\ Remains(p, r, cut) /\ p \in Ranges
                             /\ r.start <= p.start /\ p.start < p.end /\ p.end <= r.end
  <2>1. PICK r \in list : Remains(p, r, cut)
    BY CutIs
  <2>2. r \in Ranges /\ r.start < r.end
    BY DEF Canon
  <2>3. cut.start <= cut.end
    BY DEF Ranges
  <2> QED BY <2>1, <2>2, <2>3, RemainsIn
<1>2. ASSUME NEW p \in Cut(list, cut), NEW q \in Cut(list, cut)
      PROVE  p = q \/ p.end < q.start \/ q.end < p.start
  <2>1. PICK r \in list : /\ Remains(p, r, cut) /\ p \in Ranges
                          /\ r.start <= p.start /\ p.start < p.end /\ p.end <= r.end
    BY <1>1
  <2>2. PICK s \in list : /\ Remains(q, s, cut) /\ q \in Ranges
                          /\ s.start <= q.start /\ q.start < q.end /\ q.end <= s.end
    BY <1>1
  <2>3. r \in Ranges /\ s \in Ranges
    BY DEF Canon
  <2>4. CASE r = s
    BY <2>1, <2>2, <2>3, <2>4 DEF Remains, Below, Above, Ranges
  <2>5. CASE r # s
    <3>1. r.end < s.start \/ s.end < r.start
      BY <2>5 DEF Canon
    <3> QED BY <2>1, <2>2, <2>3, <3>1 DEF Ranges
  <2> QED BY <2>4, <2>5
<1> QED BY <1>1, <1>2 DEF Canon

\* It grows by an entry at most, and then there is room.
LEMMA CutRoom ==
    ASSUME NEW list, Canon(list), IsFiniteSet(list), Cardinality(list) <= MaxRam,
           NEW cut \in Ranges, cut.start < cut.end, ~CutOverflows(list, cut)
    PROVE  IsFiniteSet(Cut(list, cut)) /\ Cardinality(Cut(list, cut)) <= MaxRam
<1>1. Cardinality(list) \in Nat /\ MaxRam \in Nat
  BY FS_CardinalityType, RamAssumption
<1>2. \A r \in list : r \in Ranges /\ r.start < r.end
  BY DEF Canon
<1> DEFINE C == Cut(list, cut)
           of(p) == CHOOSE r \in list : Remains(p, r, cut)
           f == [p \in C |-> of(p)]
<1>3. \A p \in C : of(p) \in list /\ Remains(p, of(p), cut)
  BY CutIs
<1>4. CASE \E e \in list : e.start < cut.start /\ cut.end < e.end
  <2>1. PICK e \in list : e.start < cut.start /\ cut.end < e.end
    BY <1>4
  <2>2. ASSUME NEW r \in list, r # e PROVE Misses(r, cut)
    <3>1. r.end < e.start \/ e.end < r.start
      BY <2>2 DEF Canon
    <3> QED BY <1>2, <2>1, <3>1 DEF Misses, Ranges
  <2>3. ASSUME NEW p \in C PROVE p \in (list \ {e}) \union {Below(e, cut), Above(e, cut)}
    <3>1. PICK r \in list : Remains(p, r, cut)
      BY CutIs
    <3>2. ~Misses(e, cut)
      BY <1>2, <2>1 DEF Misses, Ranges
    <3> QED BY <2>2, <3>1, <3>2 DEF Remains
  <2>4. Cardinality(list) < MaxRam
    BY <1>1, <2>1 DEF CutOverflows
  <2>5. /\ IsFiniteSet(list \ {e}) /\ Cardinality(list \ {e}) = Cardinality(list) - 1
    BY FS_RemoveElement
  <2>6. /\ IsFiniteSet((list \ {e}) \union {Below(e, cut)})
        /\ Cardinality((list \ {e}) \union {Below(e, cut)}) <= Cardinality(list)
    BY <1>1, <2>5, FS_AddElement
  <2> DEFINE U == ((list \ {e}) \union {Below(e, cut)}) \union {Above(e, cut)}
  <2>7. IsFiniteSet(U) /\ Cardinality(U) <= Cardinality(list) + 1
    <3>1. Cardinality((list \ {e}) \union {Below(e, cut)}) \in Nat
      BY <2>6, FS_CardinalityType
    <3>2. PICK V : V = (list \ {e}) \union {Below(e, cut)}
      OBVIOUS
    <3>3. IsFiniteSet(V) /\ Cardinality(V) \in Nat /\ Cardinality(V) <= Cardinality(list)
      BY <2>6, <3>1, <3>2
    <3>4. /\ IsFiniteSet(V \union {Above(e, cut)})
          /\ Cardinality(V \union {Above(e, cut)}) <= Cardinality(V) + 1
          /\ Cardinality(V \union {Above(e, cut)}) \in Nat
      BY <3>3, OneMore
    <3> QED BY <1>1, <3>2, <3>3, <3>4
  <2>8. C \in SUBSET U
    BY <2>3
  <2> HIDE DEF U, C
  <2>9. IsFiniteSet(C) /\ Cardinality(C) <= Cardinality(U)
    BY <2>7, <2>8, FS_Subset
  <2>10. Cardinality(C) \in Nat /\ Cardinality(U) \in Nat
    BY <2>7, <2>9, FS_CardinalityType
  <2>11. Cardinality(C) <= MaxRam
    BY <1>1, <2>4, <2>7, <2>9, <2>10
  <2> QED BY <2>9, <2>11 DEF C
<1>5. CASE ~ \E e \in list : e.start < cut.start /\ cut.end < e.end
  <2>1. ASSUME NEW p \in C, NEW q \in C, of(p) = of(q) PROVE p = q
    <3>1. PICK r \in list : r = of(p) /\ Remains(p, r, cut) /\ Remains(q, r, cut)
      BY <1>3, <2>1
    <3>2. ~(r.start < cut.start /\ cut.end < r.end)
      BY <1>5
    <3> QED BY <3>1, <3>2 DEF Remains
  <2>2. f \in [C -> list] /\ \A p, q \in C : f[p] = f[q] => p = q
    BY <1>3, <2>1
  <2> HIDE DEF f, C
  <2>3. f \in Injection(C, list)
    BY <2>2 DEF Injection, IsInjective
  <2>4. IsFiniteSet(C) /\ Cardinality(C) <= Cardinality(list)
    BY <2>3, FS_Injection
  <2>5. Cardinality(C) \in Nat
    BY <2>4, FS_CardinalityType
  <2> QED BY <1>1, <2>4, <2>5 DEF C
<1> QED BY <1>4, <1>5

\* The entry that add_mem() makes of the new one and those it touches.
Near(list, new) == {r \in list : r.start <= new.end /\ new.start <= r.end} \union {new}
Merged(list, new) == [start |-> Min({r.start : r \in Near(list, new)}),
                      end |-> Max({r.end : r \in Near(list, new)})]

LEMMA AddIs ==
    ASSUME NEW list, NEW new
    PROVE  add_mem(list, new) = (list \ Near(list, new)) \union {Merged(list, new)}
BY DEF add_mem, Near, Merged

LEMMA MergedIs ==
    ASSUME NEW list, Canon(list), NEW new \in Ranges, new.start < new.end,
           NEW top \in Nat, new.end <= top, \A r \in list : r.end <= top
    PROVE  LET m == Merged(list, new) IN
           /\ m \in Ranges /\ m.start <= new.start /\ new.end <= m.end
           /\ \E r \in Near(list, new) : r.start = m.start
           /\ \E r \in Near(list, new) : r.end = m.end
           /\ \A r \in Near(list, new) : m.start <= r.start /\ r.end <= m.end
<1> DEFINE starts == {r.start : r \in Near(list, new)}
           ends == {r.end : r \in Near(list, new)}
<1>1. \A r \in Near(list, new) : r \in Ranges /\ r.start \in Nat /\ r.end \in Nat /\ r.end <= top
  BY DEF Near, Canon, Ranges
<1>2. new \in Near(list, new)
  BY DEF Near
<1>3. /\ starts \subseteq Nat /\ starts # {}
      /\ ends \subseteq Nat /\ ends # {} /\ \A n \in ends : n <= top
  BY <1>1, <1>2
<1>4. \A r \in Near(list, new) : r.start \in starts /\ r.end \in ends
  OBVIOUS
<1>5. /\ \A n \in starts : \E r \in Near(list, new) : r.start = n
      /\ \A n \in ends : \E r \in Near(list, new) : r.end = n
  OBVIOUS
<1> HIDE DEF starts, ends
<1>6. Min(starts) \in starts /\ \A n \in starts : Min(starts) <= n
  BY <1>3, MinOf
<1>7. Max(ends) \in ends /\ \A n \in ends : n <= Max(ends)
  BY <1>3, MaxOf
<1>8. Merged(list, new) = [start |-> Min(starts), end |-> Max(ends)]
  BY DEF Merged, starts, ends
<1>9. Merged(list, new) \in Ranges
  <2>1. PICK a \in Nat, b \in Nat : a = Min(starts) /\ b = Max(ends)
    BY <1>3, <1>6, <1>7
  <2> QED BY <1>8, <2>1 DEF Ranges
<1> QED BY <1>2, <1>4, <1>5, <1>6, <1>7, <1>8, <1>9

\* Exactly the bytes that are added join the list.
LEMMA AddBytes ==
    ASSUME NEW list, Canon(list), NEW new \in Ranges, new.start < new.end,
           NEW top \in Nat, new.end <= top, \A r \in list : r.end <= top
    PROVE  Bytes(add_mem(list, new)) = Bytes(list) \union BytesOf(new)
<1>1. PICK m \in Ranges :
         /\ m = Merged(list, new) /\ m.start <= new.start /\ new.end <= m.end
         /\ \E r \in Near(list, new) : r.start = m.start
         /\ \E r \in Near(list, new) : r.end = m.end
         /\ \A r \in Near(list, new) : m.start <= r.start /\ r.end <= m.end
  BY MergedIs
<1>2. add_mem(list, new) = (list \ Near(list, new)) \union {m}
  BY <1>1, AddIs
<1>3. \A r \in Near(list, new) : r \in Ranges /\ r.start <= new.end /\ new.start <= r.end
                                /\ (r \in list \/ r = new)
  BY DEF Near, Canon, Ranges
<1>4. ASSUME NEW b \in BytesOf(m) PROVE b \in Bytes(list) \union BytesOf(new)
  <2>1. PICK r \in Near(list, new) : r.start = m.start
    BY <1>1
  <2>2. PICK q \in Near(list, new) : q.end = m.end
    BY <1>1
  <2>3. b \in BytesOf(r) \/ b \in BytesOf(new) \/ b \in BytesOf(q)
    BY <1>3, <2>1, <2>2 DEF BytesOf, Ranges
  <2> QED BY <1>3, <2>3 DEF Bytes
<1>5. ASSUME NEW r \in Near(list, new) PROVE BytesOf(r) \subseteq BytesOf(m)
  BY <1>1, <1>3 DEF BytesOf, Ranges
<1>6. new \in Near(list, new)
  BY DEF Near
<1> QED BY <1>2, <1>4, <1>5, <1>6 DEF Bytes

LEMMA AddCanon ==
    ASSUME NEW list, Canon(list), NEW new \in Ranges, new.start < new.end,
           NEW top \in Nat, new.end <= top, \A r \in list : r.end <= top
    PROVE  Canon(add_mem(list, new))
<1>1. PICK m \in Ranges :
         /\ m = Merged(list, new) /\ m.start <= new.start /\ new.end <= m.end
         /\ \E r \in Near(list, new) : r.start = m.start
         /\ \E r \in Near(list, new) : r.end = m.end
  BY MergedIs
<1>2. add_mem(list, new) = (list \ Near(list, new)) \union {m}
  BY <1>1, AddIs
<1>3. \A r \in Near(list, new) : r = new \/ (r \in list /\ r \in Ranges)
  BY DEF Near, Canon
<1>4. ASSUME NEW q \in list \ Near(list, new) PROVE q.end < m.start \/ m.end < q.start
  <2>1. q \in Ranges /\ q.start < q.end
    BY DEF Canon
  <2>2. q.start > new.end \/ new.start > q.end
    BY <2>1 DEF Near, Ranges
  <2>3. \A r \in Near(list, new) : q.end < r.start \/ r.end < q.start
    BY <1>3, <2>1, <2>2 DEF Canon, Ranges
  <2>4. PICK r \in Near(list, new) : r.start = m.start
    BY <1>1
  <2>5. PICK s \in Near(list, new) : s.end = m.end
    BY <1>1
  <2>6. r.start <= new.end /\ new.start <= r.end /\ s.start <= new.end /\ new.start <= s.end
    BY DEF Near, Ranges
  <2>7. r \in Ranges /\ s \in Ranges /\ r.start < r.end /\ s.start < s.end
    BY <1>3 DEF Canon
  <2>8. CASE q.start > new.end
    <3>1. s.end < q.start
      BY <2>1, <2>3, <2>6, <2>7, <2>8 DEF Ranges
    <3> QED BY <2>5, <3>1
  <2>9. CASE new.start > q.end
    <3>1. q.end < r.start
      BY <2>1, <2>3, <2>6, <2>7, <2>9 DEF Ranges
    <3> QED BY <2>4, <3>1
  <2> QED BY <2>2, <2>8, <2>9
<1>5. m.start < m.end
  BY <1>1 DEF Ranges
<1> QED BY <1>1, <1>2, <1>4, <1>5 DEF Canon

LEMMA AddRoom ==
    ASSUME NEW list, IsFiniteSet(list), Cardinality(list) < MaxRam, NEW new
    PROVE  IsFiniteSet(add_mem(list, new)) /\ Cardinality(add_mem(list, new)) <= MaxRam
<1>1. PICK rest, m : rest \in SUBSET list /\ add_mem(list, new) = rest \union {m}
  <2>1. list \ Near(list, new) \in SUBSET list
    OBVIOUS
  <2> QED BY <2>1, AddIs
<1>2. /\ IsFiniteSet(rest) /\ Cardinality(rest) <= Cardinality(list)
      /\ Cardinality(rest) \in Nat /\ Cardinality(list) \in Nat
  BY <1>1, FS_Subset, FS_CardinalityType
<1>3. /\ IsFiniteSet(rest \union {m}) /\ Cardinality(rest \union {m}) <= Cardinality(rest) + 1
      /\ Cardinality(rest \union {m}) \in Nat
  BY <1>2, OneMore
<1> QED BY <1>1, <1>2, <1>3, RamAssumption

\* avoid_ram() only ever makes searches avoid more.
LEMMA AvoidKeeps ==
    ASSUME NEW list \in Seq(Ranges), list # <<>>, Upright(list), NEW start \in Nat, NEW size \in Nat
    PROVE  /\ Avoid(list, start, size) \in Seq(Ranges) /\ Avoid(list, start, size) # <<>>
           /\ Upright(Avoid(list, start, size))
           /\ Bytes(Range(list)) \union BytesOf(Span(start, size))
                \subseteq Bytes(Range(Avoid(list, start, size)))
<1>1. PICK n \in Nat : n = Len(list) /\ n > 0 /\ list[n] \in Ranges /\ Last(list) = list[n]
  BY DEF Last
<1>2. \A k \in 1 .. n : list[k] \in Ranges /\ list[k].start <= list[k].end
  BY <1>1 DEF Upright
<1>3. DOMAIN list = 1 .. n
  BY <1>1
<1>4. CASE list[n].end = start
  <2> DEFINE e == [list[n] EXCEPT !.end = @ + size]
             new == [list EXCEPT ![n] = e]
  <2>1. Avoid(list, start, size) = new
    BY <1>1, <1>4 DEF Avoid
  <2>2. e \in Ranges /\ e.start = list[n].start /\ e.end = start + size
        /\ e.start <= e.end
    <3>1. list[n].start \in Nat /\ list[n].end \in Nat /\ list[n].start <= list[n].end
      BY <1>1, <1>2 DEF Ranges
    <3>2. e = [start |-> list[n].start, end |-> list[n].end + size]
      BY SMTT(40), <1>1 DEF Ranges
    <3> HIDE DEF e
    <3>3. e.start = list[n].start /\ e.end = list[n].end + size
      BY <3>2
    <3>4. e.end \in Nat /\ e.start <= e.end
      BY <1>4, <3>1, <3>3
    <3> QED BY <1>4, <3>1, <3>2, <3>3, <3>4 DEF Ranges
  <2> HIDE DEF e
  <2>3. new \in Seq(Ranges) /\ new # <<>> /\ Len(new) = n /\ new[n] = e
        /\ \A k \in 1 .. n : k # n => new[k] = list[k]
    <3>1. n \in 1 .. Len(list)
      BY <1>1
    <3>2. /\ new \in Seq(Ranges) /\ Len(new) = Len(list)
          /\ \A k \in 1 .. Len(list) : new[k] = IF k = n THEN e ELSE list[k]
      BY <2>2, <3>1, ExceptSeq
    <3> HIDE DEF new
    <3> QED BY <1>1, <3>1, <3>2
  <2> HIDE DEF new
  <2>4. Upright(new)
    BY <1>2, <2>2, <2>3 DEF Upright
  <2>5. ASSUME NEW k \in 1 .. n PROVE BytesOf(list[k]) \subseteq BytesOf(new[k])
    <3>1. CASE k = n
      BY <1>1, <1>4, <2>2, <2>3, <3>1 DEF BytesOf, Ranges
    <3>2. CASE k # n
      BY <2>3, <3>2
    <3> QED BY <3>1, <3>2
  <2>6. BytesOf(Span(start, size)) \subseteq BytesOf(new[n])
    BY <1>1, <1>2, <1>4, <2>2, <2>3 DEF BytesOf, Span, Ranges
  <2>7. DOMAIN new = 1 .. n /\ n \in 1 .. n
    BY <1>1, <2>3
  <2> QED BY <1>3, <2>1, <2>3, <2>4, <2>5, <2>6, <2>7 DEF Bytes, Range
<1>5. CASE list[n].end # start
  <2> DEFINE new == Append(list, Span(start, size))
  <2>1. Avoid(list, start, size) = new
    BY <1>1, <1>5 DEF Avoid
  <2>2. Span(start, size) \in Ranges /\ Span(start, size).start <= Span(start, size).end
    BY DEF Span, Ranges
  <2>3. /\ new \in Seq(Ranges) /\ new # <<>> /\ Len(new) = n + 1 /\ new[n + 1] = Span(start, size)
        /\ \A k \in 1 .. n : new[k] = list[k]
    BY <1>1, <2>2
  <2> HIDE DEF new
  <2>4. DOMAIN new = 1 .. n + 1 /\ n + 1 \in 1 .. n + 1 /\ \A k \in 1 .. n : k \in 1 .. n + 1
    BY <2>3
  <2>5. Upright(new)
    <3>1. ASSUME NEW k \in 1 .. n + 1 PROVE new[k].start <= new[k].end
      <4>1. k \in 1 .. n \/ k = n + 1
        OBVIOUS
      <4> QED BY <1>2, <2>2, <2>3, <4>1
    <3> QED BY <2>4, <3>1 DEF Upright
  <2> QED BY <1>3, <2>1, <2>3, <2>4, <2>5 DEF Bytes, Range
<1> QED BY <1>4, <1>5

-----------------------------------------------------------------------------
(* The invariant.                                                          *)

\* The memory of the two lists, behind the image.
ListBytes == BytesOf(Span(Image.end, ListsSize))
Rest == [Image EXCEPT !.start = @ + StartupSize]

\* "We can be fairly sure there's some ram following": in the first bank, and
\* the user does not reserve it.  Banks that -M options add hold neither the
\* image nor what -r options name, which alloc_ram() has taken already.
BoardFits ==
    /\ ListsSize > 0 /\ ListBytes \subseteq BytesOf(Banks[1])
    /\ ListBytes \intersect Bytes(JtagRanges) = {}
    /\ \A bank \in BanksAfter(BoardBanks) :
        BytesOf(bank) \intersect (BytesOf(Image) \union Bytes(JtagRanges)) = {}

HeldFrom ==
    CASE phase = "raminfo" -> BytesOf(Rest)
      [] OTHER -> BytesOf(Image) \union Bytes(JtagRanges) \union Bytes(BanksUpTo(added))

IInv ==
    /\ TypeOK /\ Canon(ramList) /\ HeldNotFree
    /\ avoidList # <<>> /\ Upright(avoidList)
    /\ work \union Bytes(reserved) \union ListBytes \subseteq Bytes(Range(avoidList))
    /\ FreeBytes \subseteq Bytes(BanksUpTo(added))
    /\ added > 0 => ListBytes \subseteq FreeBytes
    /\ held \subseteq HeldFrom
    /\ phase \notin {"raminfo", "crashed"} => added >= BoardBanks

FreeStep == held \subseteq held' /\ FreeBytes \ FreeBytes' \subseteq held'

LEMMA ImageIs ==
    /\ Image \in Ranges /\ Image.start < Image.end
    /\ Rest \in Ranges /\ Rest.start < Rest.end
    /\ BytesOf(Rest) \subseteq BytesOf(Image)
    /\ BytesOf(Image) \intersect ListBytes = {} /\ BytesOf(Rest) \intersect ListBytes = {}
<1>1. Image \in Ranges /\ StartupSize \in Nat /\ Image.start + StartupSize < Image.end /\ StartupSize > 0
      /\ Image.start \in Nat /\ Image.end \in Nat /\ ListsSize \in Nat
  BY RamAssumption DEF Ranges
<1>2. Rest = [start |-> Image.start + StartupSize, end |-> Image.end]
  BY <1>1 DEF Rest, Ranges
<1> QED BY <1>1, <1>2 DEF BytesOf, ListBytes, Span, Ranges

LEMMA BankIs ==
    ASSUME NEW k \in 1 .. Len(Banks)
    PROVE  /\ Banks[k] \in Ranges /\ Banks[k].start < Banks[k].end /\ Banks[k].end <= MemTop + 1
           /\ MemTop \in Nat
<1>1. Banks[k] \in Ranges /\ Banks[k].start < Banks[k].end /\ MemTop \in Nat
  BY RamAssumption
<1>2. Banks[k].end - 1 \in BytesOf(Banks[k])
  BY <1>1 DEF BytesOf, Ranges
<1>3. Banks[k].end - 1 \in 0 .. MemTop
  BY <1>2, RamAssumption DEF Bytes, BanksUpTo
<1> QED BY <1>1, <1>3 DEF Ranges

LEMMA FreeBelow == IInv => \A r \in ramList : r.end <= MemTop + 1
<1> SUFFICES ASSUME IInv, NEW r \in ramList PROVE r.end <= MemTop + 1
  OBVIOUS
<1>1. r \in Ranges /\ r.start < r.end /\ added \in Nat /\ added <= Len(Banks) /\ Len(Banks) \in Nat
  BY RamAssumption DEF IInv, Canon, TypeOK
<1>2. r.end - 1 \in BytesOf(r)
  BY <1>1 DEF BytesOf, Ranges
<1>3. PICK k \in 1 .. added : r.end - 1 \in BytesOf(Banks[k])
  BY <1>2 DEF IInv, FreeBytes, Bytes, BanksUpTo
<1>4. k \in 1 .. Len(Banks)
  BY <1>1
<1> QED BY <1>1, <1>3, <1>4, BankIs DEF BytesOf, Ranges

LEMMA BankKnown ==
    ASSUME NEW n \in 0 .. Len(Banks), n < Len(Banks)
    PROVE  /\ Bytes(BanksUpTo(n + 1)) = Bytes(BanksUpTo(n)) \union BytesOf(Banks[n + 1])
           /\ Bytes(BanksUpTo(n)) \intersect BytesOf(Banks[n + 1]) = {}
           /\ n >= BoardBanks => Banks[n + 1] \in BanksAfter(BoardBanks)
<1>1. n \in Nat /\ Len(Banks) \in Nat /\ n + 1 \in 1 .. Len(Banks) /\ BoardBanks \in Nat
  BY RamAssumption
<1>2. \A k : k \in 1 .. n + 1 <=> k \in 1 .. n \/ k = n + 1
  BY <1>1
<1>3. \A k \in 1 .. n : k \in DOMAIN Banks /\ k # n + 1
  BY <1>1, RamAssumption
<1>4. n + 1 \in DOMAIN Banks
  BY <1>1, RamAssumption
<1>5. BanksUpTo(n + 1) = BanksUpTo(n) \union {Banks[n + 1]}
  BY <1>2 DEF BanksUpTo
<1>6. \A k \in 1 .. n : BytesOf(Banks[k]) \intersect BytesOf(Banks[n + 1]) = {}
  BY <1>3, <1>4, RamAssumption
<1>7. n >= BoardBanks => n + 1 \in BoardBanks + 1 .. Len(Banks)
  BY <1>1
<1> QED BY <1>5, <1>6, <1>7 DEF Bytes, BanksUpTo, BanksAfter

LEMMA SearchableNow == IInv => Searchable(ramList, avoidList) /\ IsFiniteSet(ramList)
BY DEF IInv, Searchable, Canon, TypeOK

\* alloc_ram() of a range that the program may take.
LEMMA AllocKeeps ==
    ASSUME BoardFits, IInv, NEW cut \in Ranges, cut.start < cut.end, ~CutOverflows(ramList, cut),
           ramList' = Cut(ramList, cut), held' = held \union BytesOf(cut),
           BytesOf(cut) \intersect ListBytes = {},
           BytesOf(cut) \subseteq BytesOf(Image) \union Bytes(JtagRanges) \union Bytes(BanksUpTo(added)),
           phase' \in Phases \ {"raminfo", "crashed"}, added >= BoardBanks, calls' \in 0 .. MaxCalls,
           UNCHANGED <<avoidList, wsEarlyNext, tempSyspage, added, reserved, work>>
    PROVE  IInv' /\ FreeStep
<1>1. Canon(ramList) /\ IsFiniteSet(ramList) /\ Cardinality(ramList) <= MaxRam
  BY DEF IInv, TypeOK
<1>2. Canon(ramList') /\ IsFiniteSet(ramList') /\ Cardinality(ramList') <= MaxRam
  BY <1>1, CutCanon, CutRoom
<1>3. FreeBytes' = FreeBytes \ BytesOf(cut)
  <2>1. cut.start <= cut.end
    BY DEF Ranges
  <2> QED BY <1>1, <2>1, CutBytes DEF FreeBytes
<1>4. TypeOK'
  <2>1. BytesOf(cut) \subseteq Nat
    BY DEF BytesOf, Ranges
  <2> QED BY <1>2, <2>1 DEF IInv, TypeOK, Canon
<1>5. HeldNotFree'
  BY <1>3 DEF IInv, HeldNotFree
<1>6. held' \subseteq HeldFrom'
  <2>1. HeldFrom' = BytesOf(Image) \union Bytes(JtagRanges) \union Bytes(BanksUpTo(added))
    BY DEF HeldFrom
  <2>2. held \subseteq BytesOf(Image) \union Bytes(JtagRanges) \union Bytes(BanksUpTo(added))
    BY ImageIs DEF IInv, HeldFrom
  <2> QED BY <2>1, <2>2
<1>7. added' > 0 => ListBytes \subseteq FreeBytes'
  BY <1>3 DEF IInv
<1>8. FreeStep
  BY <1>3 DEF FreeStep
<1>9. FreeBytes' \subseteq Bytes(BanksUpTo(added))
  BY <1>3 DEF IInv
<1> QED BY <1>2, <1>4, <1>5, <1>6, <1>7, <1>8, <1>9 DEF IInv

\* In particular of what a search has found.
LEMMA AllocFound ==
    ASSUME BoardFits, IInv, NEW addr \in Nat, NEW size \in Nat \ {0}, NEW room \in Nat, size <= room,
           Within(ramList, avoidList, addr, room), ~CutOverflows(ramList, Span(addr, size)),
           alloc_ram(addr, size),
           phase' \in Phases \ {"raminfo", "crashed"}, added >= BoardBanks, calls' \in 0 .. MaxCalls,
           UNCHANGED <<avoidList, wsEarlyNext, tempSyspage, added, reserved, work>>
    PROVE  IInv' /\ FreeStep
<1>1. /\ BytesOf(Span(addr, room)) \subseteq FreeBytes
      /\ BytesOf(Span(addr, room)) \intersect Bytes(Range(avoidList)) = {}
  BY SearchableNow, WithinIsFree DEF FreeBytes
<1>2. BytesOf(Span(addr, size)) \subseteq BytesOf(Span(addr, room))
  BY DEF BytesOf, Span
<1>3. Span(addr, size) \in Ranges /\ Span(addr, size).start < Span(addr, size).end
  BY DEF Span, Ranges
<1>4. BytesOf(Span(addr, size)) \intersect ListBytes = {}
  BY <1>1, <1>2 DEF IInv
<1>5. BytesOf(Span(addr, size)) \subseteq Bytes(BanksUpTo(added))
  BY <1>1, <1>2 DEF IInv
<1>6. ramList' = Cut(ramList, Span(addr, size)) /\ held' = held \union BytesOf(Span(addr, size))
  BY DEF alloc_ram
<1> HIDE DEF Span, alloc_ram
<1> QED BY <1>3, <1>4, <1>5, <1>6, AllocKeeps

\* avoid_ram() of a range that becomes part of the work space or is reserved.
LEMMA AvoidStep ==
    ASSUME IInv, NEW start \in Nat, NEW size \in Nat,
           ~AvoidOverflows(Avoid(avoidList, start, size)),
           avoidList' = Avoid(avoidList, start, size)
    PROVE  /\ avoidList' \in Seq(Ranges) /\ Len(avoidList') < MaxAvoid
           /\ avoidList' # <<>> /\ Upright(avoidList')
           /\ Bytes(Range(avoidList)) \union BytesOf(Span(start, size)) \subseteq Bytes(Range(avoidList'))
           /\ BytesOf(Span(start, size)) \subseteq Nat
<1>1. avoidList \in Seq(Ranges) /\ avoidList # <<>> /\ Upright(avoidList)
  BY DEF IInv, TypeOK
<1>2. /\ avoidList' \in Seq(Ranges) /\ avoidList' # <<>> /\ Upright(avoidList')
      /\ Bytes(Range(avoidList)) \union BytesOf(Span(start, size)) \subseteq Bytes(Range(avoidList'))
  BY <1>1, AvoidKeeps
<1>3. Len(avoidList') < MaxAvoid
  BY <1>2, RamAssumption DEF AvoidOverflows
<1>4. BytesOf(Span(start, size)) \subseteq Nat
  BY DEF BytesOf, Span
<1> QED BY <1>2, <1>3, <1>4

LEMMA CrashKeeps == ASSUME IInv, Crash PROVE IInv' /\ FreeStep
<1>1. ramList' = ramList /\ held' = held /\ FreeBytes' = FreeBytes
  BY DEF Crash, FreeBytes
<1>2. HeldFrom \subseteq HeldFrom'
  BY ImageIs DEF HeldFrom, Crash
<1>3. TypeOK' /\ HeldNotFree'
  BY <1>1 DEF Crash, IInv, TypeOK, Phases, HeldNotFree
<1>4. IInv'
  BY <1>1, <1>2, <1>3 DEF Crash, IInv
<1> QED BY <1>1, <1>4 DEF FreeStep

LEMMA OptionRKeeps == ASSUME IInv, OptionR PROVE IInv' /\ FreeStep
<1>1. CASE Crash
  BY <1>1, CrashKeeps
<1>2. CASE ~Crash
  <2>1. PICK r \in JtagRanges \ reserved :
          /\ ~AvoidOverflows(Avoid(avoidList, r.start, r.end - r.start))
          /\ reserved' = reserved \union {r}
          /\ avoidList' = Avoid(avoidList, r.start, r.end - r.start)
          /\ UNCHANGED <<ramList, asinfo, wsEarlyNext, tempSyspage, phase, added, calls, held, work>>
    BY <1>2 DEF OptionR
  <2>2. r.start \in Nat /\ r.end - r.start \in Nat /\ Span(r.start, r.end - r.start) = r
    BY RamAssumption DEF Span, Ranges
  <2>3. /\ avoidList' \in Seq(Ranges) /\ Len(avoidList') < MaxAvoid
        /\ avoidList' # <<>> /\ Upright(avoidList')
        /\ Bytes(Range(avoidList)) \union BytesOf(r) \subseteq Bytes(Range(avoidList'))
    BY <2>1, <2>2, AvoidStep
  <2>4. Bytes(reserved') = Bytes(reserved) \union BytesOf(r)
    BY <2>1 DEF Bytes
  <2>5. TypeOK' /\ HeldNotFree' /\ Canon(ramList') /\ HeldFrom' = HeldFrom /\ FreeBytes' = FreeBytes
    BY <2>1, <2>3 DEF IInv, TypeOK, HeldNotFree, FreeBytes, HeldFrom
  <2>6. IInv'
    BY <2>1, <2>3, <2>4, <2>5 DEF IInv
  <2> QED BY <2>1, <2>5, <2>6 DEF FreeStep
<1> QED BY <1>1, <1>2

LEMMA WsAllocKeeps == ASSUME IInv, WsAlloc PROVE IInv' /\ FreeStep
<1>1. CASE Crash
  BY <1>1, CrashKeeps
<1>2. CASE ~Crash
  <2> DEFINE paddr == IF NoRamYet(ramList) THEN wsEarlyNext ELSE FindRam(ramList, avoidList, 1, 1)
  <2>1. /\ paddr # NoAddr /\ ~AvoidOverflows(Avoid(avoidList, paddr, 1))
        /\ wsEarlyNext' \in {wsEarlyNext, wsEarlyNext + 1}
        /\ avoidList' = Avoid(avoidList, paddr, 1) /\ work' = work \union {paddr}
        /\ calls < MaxCalls /\ calls' = calls + 1
        /\ UNCHANGED <<ramList, asinfo, tempSyspage, phase, added, reserved, held>>
    BY <1>2 DEF WsAlloc
  <2>2. paddr \in Nat
    <3>1. wsEarlyNext \in Nat
      BY DEF IInv, TypeOK
    <3>2. FindRam(ramList, avoidList, 1, 1) # NoAddr => FindRam(ramList, avoidList, 1, 1) \in Nat
      BY SearchableNow, FindRamFound
    <3> QED BY <2>1, <3>1, <3>2
  <2> HIDE DEF paddr
  <2>3. /\ avoidList' \in Seq(Ranges) /\ Len(avoidList') < MaxAvoid
        /\ avoidList' # <<>> /\ Upright(avoidList')
        /\ Bytes(Range(avoidList)) \union BytesOf(Span(paddr, 1)) \subseteq Bytes(Range(avoidList'))
    BY <2>1, <2>2, AvoidStep
  <2>4. BytesOf(Span(paddr, 1)) = {paddr}
    BY <2>2 DEF BytesOf, Span
  <2>5. calls' \in 0 .. MaxCalls /\ wsEarlyNext' \in Nat
    BY <2>1, RamAssumption DEF IInv, TypeOK
  <2>6. TypeOK' /\ HeldNotFree' /\ Canon(ramList') /\ HeldFrom' = HeldFrom /\ FreeBytes' = FreeBytes
    BY <2>1, <2>2, <2>3, <2>5 DEF IInv, TypeOK, HeldNotFree, FreeBytes, HeldFrom
  <2>7. IInv'
    BY <2>1, <2>3, <2>4, <2>6 DEF IInv
  <2> QED BY <2>1, <2>6, <2>7 DEF FreeStep
<1> QED BY <1>1, <1>2

LEMMA ImageRamKeeps == ASSUME BoardFits, IInv, ImageRam PROVE IInv' /\ FreeStep
<1>1. CASE Crash
  BY <1>1, CrashKeeps
<1>2. CASE ~Crash
  <2>1. /\ added = BoardBanks /\ ~CutOverflows(ramList, Image) /\ phase' = "options"
        /\ alloc_ram(Image.start, Image.end - Image.start)
        /\ UNCHANGED <<avoidList, wsEarlyNext, tempSyspage, added, reserved, calls, work>>
    BY <1>2 DEF ImageRam
  <2>2. Span(Image.start, Image.end - Image.start) = Image
    BY ImageIs DEF Span, Ranges
  <2>3. ramList' = Cut(ramList, Image) /\ held' = held \union BytesOf(Image)
    BY <2>1, <2>2 DEF alloc_ram
  <2>4. added >= BoardBanks /\ calls' \in 0 .. MaxCalls /\ phase' \in Phases \ {"raminfo", "crashed"}
    BY <2>1, RamAssumption DEF IInv, TypeOK, Phases
  <2> QED BY <2>1, <2>3, <2>4, ImageIs, AllocKeeps
<1> QED BY <1>1, <1>2

LEMMA JtagKeeps == ASSUME BoardFits, IInv, JtagReserve PROVE IInv' /\ FreeStep
<1>1. CASE Crash
  BY <1>1, CrashKeeps
<1>2. CASE ~Crash
  <2>1. PICK r \in reserved :
          /\ ~CutOverflows(ramList, r) /\ alloc_ram(r.start, r.end - r.start) /\ phase = "options"
          /\ UNCHANGED <<avoidList, wsEarlyNext, tempSyspage, phase, added, reserved, calls, work>>
    BY <1>2 DEF JtagReserve
  <2>2. r \in JtagRanges /\ r \in Ranges /\ r.start < r.end
    BY RamAssumption DEF IInv, TypeOK
  <2>3. Span(r.start, r.end - r.start) = r
    BY <2>2 DEF Span, Ranges
  <2>4. ramList' = Cut(ramList, r) /\ held' = held \union BytesOf(r)
    BY <2>1, <2>3 DEF alloc_ram
  <2>5. BytesOf(r) \subseteq Bytes(JtagRanges)
    BY <2>2 DEF Bytes
  <2>6. BytesOf(r) \intersect ListBytes = {}
    BY <2>5 DEF BoardFits
  <2>7. added >= BoardBanks /\ calls' \in 0 .. MaxCalls /\ phase' \in Phases \ {"raminfo", "crashed"}
    BY <2>1 DEF IInv, TypeOK, Phases
  <2> QED BY <2>1, <2>2, <2>4, <2>5, <2>6, <2>7, AllocKeeps
<1> QED BY <1>1, <1>2

LEMMA AllocAnyKeeps == ASSUME BoardFits, IInv, AllocAny PROVE IInv' /\ FreeStep
<1>1. CASE Crash
  BY <1>1, CrashKeeps
<1>2. CASE ~Crash
  <2> DEFINE Found(q, addr) ==
          /\ addr = FindRam(ramList, avoidList, q.size, q.align) /\ addr # NoAddr
          /\ ~CutOverflows(ramList, Span(addr, q.size)) /\ alloc_ram(addr, q.size)
          /\ calls < MaxCalls /\ calls' = calls + 1 /\ phase \notin {"raminfo", "crashed"}
          /\ UNCHANGED <<avoidList, wsEarlyNext, tempSyspage, phase, added, reserved, work>>
  <2>0. PICK q \in Requests : \E addr : Found(q, addr)
    BY <1>2 DEF AllocAny
  <2>1. PICK addr : Found(q, addr)
    BY <2>0
  <2>2. q.size \in Nat \ {0} /\ q.align \in Nat \ {0}
    BY RamAssumption
  <2>3. addr \in Nat /\ Within(ramList, avoidList, addr, q.size)
    BY <2>1, <2>2, SearchableNow, FindRamFound
  <2>4. /\ added >= BoardBanks /\ calls' \in 0 .. MaxCalls /\ phase' \in Phases \ {"raminfo", "crashed"}
        /\ q.size <= q.size /\ q.size \in Nat
    BY <2>1, <2>2, RamAssumption DEF IInv, TypeOK, Phases
  <2> QED BY <2>1, <2>2, <2>3, <2>4, AllocFound
<1> QED BY <1>1, <1>2

LEMMA ReserveKeeps == ASSUME BoardFits, IInv, ReserveRam PROVE IInv' /\ FreeStep
<1>1. CASE Crash
  BY <1>1, CrashKeeps
<1>2. CASE ~Crash
  <2> DEFINE Found(q, align, addr) ==
          /\ align = IF q.align = 0 THEN PageSize ELSE q.align
          /\ addr = IF q.low THEN FindRam(ramList, avoidList, q.size, align)
                    ELSE FindTop(ramList, avoidList, q.size, align, MemTop + 2)
          /\ addr # NoAddr /\ ~CutOverflows(ramList, Span(addr, q.size)) /\ alloc_ram(addr, q.size)
          /\ calls < MaxCalls /\ calls' = calls + 1 /\ phase' = "reserve"
          /\ phase \notin {"raminfo", "crashed"}
          /\ UNCHANGED <<avoidList, wsEarlyNext, tempSyspage, added, reserved, work>>
  <2>0. PICK q \in Reserves : \E align, addr : Found(q, align, addr)
    BY <1>2 DEF ReserveRam
  <2>1. PICK align, addr : Found(q, align, addr)
    BY <2>0
  <2>2. q.size \in Nat \ {0} /\ align \in Nat \ {0} /\ MemTop + 2 \in Nat
    BY <2>1, RamAssumption
  <2>3. PICK room \in Nat : addr \in Nat /\ q.size <= room /\ Within(ramList, avoidList, addr, room)
    <3>1. CASE q.low
      <4>1. addr \in Nat /\ Within(ramList, avoidList, addr, q.size)
        BY <2>1, <2>2, <3>1, SearchableNow, FindRamFound
      <4>2. q.size \in Nat /\ q.size <= q.size
        BY <2>2
      <4> QED BY <4>1, <4>2
    <3>2. CASE ~q.low
      <4>1. addr = FindTop(ramList, avoidList, q.size, align, MemTop + 2)
        BY <2>1, <3>2
      <4>2. /\ addr \in Nat /\ Within(ramList, avoidList, addr, Round(q.size, PageSize))
            /\ q.size <= Round(q.size, PageSize) /\ Round(q.size, PageSize) \in Nat
        BY <2>1, <2>2, <4>1, SearchableNow, FindTopFound
      <4> QED BY <4>2
    <3> QED BY <3>1, <3>2
  <2>4. /\ added >= BoardBanks /\ calls' \in 0 .. MaxCalls /\ phase' \in Phases \ {"raminfo", "crashed"}
    BY <2>1, RamAssumption DEF IInv, TypeOK, Phases
  <2> QED BY <2>1, <2>2, <2>3, <2>4, AllocFound
<1> QED BY <1>1, <1>2

LEMMA MitigationKeeps == ASSUME BoardFits, IInv, MitigationPage PROVE IInv' /\ FreeStep
<1>1. CASE Crash
  BY <1>1, CrashKeeps
<1>2. CASE ~Crash
  <2>1. PICK addr :
          /\ addr = FindTop(ramList, avoidList, PageSize, PageSize, Limit)
          /\ addr # NoAddr /\ ~CutOverflows(ramList, Span(addr, PageSize)) /\ alloc_ram(addr, PageSize)
          /\ phase' = "mitigated" /\ phase \notin {"raminfo", "crashed"}
          /\ UNCHANGED <<avoidList, wsEarlyNext, tempSyspage, added, reserved, calls, work>>
    BY <1>2 DEF MitigationPage
  <2>2. PageSize \in Nat \ {0} /\ Limit \in Nat
    BY RamAssumption
  <2>3. /\ addr \in Nat /\ Within(ramList, avoidList, addr, Round(PageSize, PageSize))
        /\ PageSize <= Round(PageSize, PageSize) /\ Round(PageSize, PageSize) \in Nat
    BY <2>1, <2>2, SearchableNow, FindTopFound
  <2>4. added >= BoardBanks /\ calls' \in 0 .. MaxCalls /\ phase' \in Phases \ {"raminfo", "crashed"}
    BY <2>1 DEF IInv, TypeOK, Phases
  <2> QED BY <2>1, <2>2, <2>3, <2>4, AllocFound
<1> QED BY <1>1, <1>2

\* A bank joins the list without the image, which includes what has been handed
\* out of it; the place of the temporary system page is one a search returns.
LEMMA AddRamKeeps == ASSUME BoardFits, IInv, AddRam PROVE IInv' /\ FreeStep
<1>1. CASE Crash
  BY <1>1, CrashKeeps
<1>2. CASE ~Crash
  <2> DEFINE bank == Banks[added + 1]
             joined == add_mem(ramList, bank)
  <2>1. PICK temp :
          /\ added < Len(Banks) /\ phase = IF added < BoardBanks THEN "raminfo" ELSE "options"
          /\ Cardinality(ramList) < MaxRam /\ ~CutOverflows(joined, Rest)
          /\ ramList' = Cut(joined, Rest) /\ held' = held \union BytesOf(Rest) /\ added' = added + 1
          /\ temp = IF tempSyspage = NoAddr THEN FindRam(ramList', avoidList, TempSize, PageSize) ELSE NoAddr
          /\ temp # NoAddr => ~AvoidOverflows(Avoid(avoidList, temp, TempSize))
          /\ IF temp = NoAddr THEN UNCHANGED <<tempSyspage, avoidList, work>>
             ELSE /\ tempSyspage' = temp /\ avoidList' = Avoid(avoidList, temp, TempSize)
                  /\ work' = work \union BytesOf(Span(temp, TempSize))
          /\ UNCHANGED <<wsEarlyNext, phase, reserved, calls>>
    <3>1. Cardinality(ramList) \in Nat /\ MaxRam \in Nat
      BY FS_CardinalityType, RamAssumption DEF IInv, TypeOK
    <3> QED BY <1>2, <3>1 DEF AddRam, Rest
  <2>2. /\ added \in 0 .. Len(Banks) /\ added + 1 \in 1 .. Len(Banks) /\ added \in Nat
        /\ bank \in Ranges /\ bank.start < bank.end
    <3>1. added \in 0 .. Len(Banks) /\ Len(Banks) \in Nat
      BY RamAssumption DEF IInv, TypeOK
    <3>2. added + 1 \in 1 .. Len(Banks) /\ added \in Nat
      BY <2>1, <3>1
    <3> QED BY <3>1, <3>2, BankIs
  <2>3. /\ MemTop + 1 \in Nat /\ bank.end <= MemTop + 1
        /\ \A r \in ramList : r.end <= MemTop + 1
    BY <2>2, BankIs, FreeBelow
  <2>4. Canon(ramList) /\ IsFiniteSet(ramList)
    BY DEF IInv, TypeOK
  <2> HIDE DEF bank
  <2>5. Canon(joined) /\ Bytes(joined) = FreeBytes \union BytesOf(bank)
    BY <2>2, <2>3, <2>4, AddCanon, AddBytes DEF FreeBytes
  <2>6. IsFiniteSet(joined) /\ Cardinality(joined) <= MaxRam
    BY <2>1, <2>4, AddRoom
  <2> HIDE DEF joined
  <2>7. Canon(ramList') /\ IsFiniteSet(ramList') /\ Cardinality(ramList') <= MaxRam
    BY <2>1, <2>5, <2>6, ImageIs, CutCanon, CutRoom
  <2>8. FreeBytes' = (FreeBytes \union BytesOf(bank)) \ BytesOf(Rest)
    <3>1. Rest.start <= Rest.end
      BY ImageIs DEF Ranges
    <3> QED BY <2>1, <2>5, <3>1, ImageIs, CutBytes DEF FreeBytes
  <2>9. /\ Bytes(BanksUpTo(added + 1)) = Bytes(BanksUpTo(added)) \union BytesOf(bank)
        /\ Bytes(BanksUpTo(added)) \intersect BytesOf(bank) = {}
        /\ added >= BoardBanks => bank \in BanksAfter(BoardBanks)
    BY <2>1, <2>2, BankKnown DEF bank
  <2>10. FreeBytes' \subseteq Bytes(BanksUpTo(added'))
    BY <2>1, <2>8, <2>9 DEF IInv
  <2>11. (held \intersect BytesOf(bank)) \ BytesOf(Rest) = {}
    <3>1. CASE phase = "raminfo"
      BY <3>1 DEF IInv, HeldFrom
    <3>2. CASE phase # "raminfo"
      <4>1. added >= BoardBanks
        BY <2>1, <2>2, <3>2, RamAssumption
      <4>2. BytesOf(bank) \intersect (BytesOf(Image) \union Bytes(JtagRanges)) = {}
        BY <2>9, <4>1 DEF BoardFits
      <4>3. held \subseteq BytesOf(Image) \union Bytes(JtagRanges) \union Bytes(BanksUpTo(added))
        BY <3>2 DEF IInv, HeldFrom
      <4> QED BY <2>9, <4>2, <4>3
    <3> QED BY <3>1, <3>2
  <2>12. HeldNotFree'
    BY <2>1, <2>8, <2>11 DEF IInv, HeldNotFree
  <2>13. ListBytes \subseteq FreeBytes'
    <3>1. CASE added = 0
      BY <2>8, <3>1, ImageIs DEF BoardFits, bank
    <3>2. CASE added # 0
      BY <2>2, <2>8, <3>2, ImageIs DEF IInv
    <3> QED BY <3>1, <3>2
  <2>14. held' \subseteq HeldFrom'
    BY <2>1, <2>9, ImageIs DEF IInv, HeldFrom
  <2>15. FreeStep
    BY <2>1, <2>8 DEF FreeStep
  <2>16. temp = NoAddr \/ temp \in Nat
    <3> SUFFICES ASSUME temp # NoAddr PROVE temp \in Nat
      OBVIOUS
    <3>1. temp = FindRam(ramList', avoidList, TempSize, PageSize)
      BY <2>1
    <3>2. Searchable(ramList', avoidList)
      BY <2>7 DEF Searchable, Canon, IInv, TypeOK
    <3> QED BY <3>1, <3>2, FindRamFound, RamAssumption
  <2>17. /\ avoidList' \in Seq(Ranges) /\ Len(avoidList') < MaxAvoid
         /\ avoidList' # <<>> /\ Upright(avoidList')
         /\ work' \union Bytes(reserved) \union ListBytes \subseteq Bytes(Range(avoidList'))
         /\ work' \subseteq Nat /\ tempSyspage' \in Nat \union {NoAddr}
    <3>1. CASE temp = NoAddr
      BY <2>1, <3>1 DEF IInv, TypeOK
    <3>2. CASE temp # NoAddr
      <4>1. temp \in Nat /\ TempSize \in Nat /\ ~AvoidOverflows(Avoid(avoidList, temp, TempSize))
            /\ avoidList' = Avoid(avoidList, temp, TempSize)
            /\ work' = work \union BytesOf(Span(temp, TempSize)) /\ tempSyspage' = temp
        BY <2>1, <2>16, <3>2, RamAssumption
      <4>2. /\ avoidList' \in Seq(Ranges) /\ Len(avoidList') < MaxAvoid
            /\ avoidList' # <<>> /\ Upright(avoidList')
            /\ Bytes(Range(avoidList)) \union BytesOf(Span(temp, TempSize)) \subseteq Bytes(Range(avoidList'))
            /\ BytesOf(Span(temp, TempSize)) \subseteq Nat
        BY <4>1, AvoidStep
      <4> QED BY <4>1, <4>2 DEF IInv, TypeOK
    <3> QED BY <3>1, <3>2
  <2>18. TypeOK'
    <3>1. BytesOf(Rest) \subseteq Nat
      BY ImageIs DEF BytesOf, Ranges
    <3>2. added' \in 0 .. Len(Banks)
      BY <2>1, <2>2
    <3> QED BY <2>1, <2>7, <2>17, <3>1, <3>2 DEF IInv, TypeOK, Canon
  <2>19. phase' \notin {"raminfo", "crashed"} => added' >= BoardBanks
    BY <2>1, <2>2, RamAssumption
  <2> QED BY <2>1, <2>7, <2>10, <2>12, <2>13, <2>14, <2>15, <2>17, <2>18, <2>19 DEF IInv
<1> QED BY <1>1, <1>2

LEMMA SysramKeeps == ASSUME IInv, add_sysram PROVE IInv' /\ FreeStep
<1>1. /\ phase \notin {"raminfo", "crashed"} /\ phase' = "sysram"
      /\ UNCHANGED <<ramList, avoidList, wsEarlyNext, tempSyspage, added, reserved, calls, held, work>>
  BY DEF add_sysram
<1>2. TypeOK' /\ HeldNotFree' /\ HeldFrom' = HeldFrom /\ FreeBytes' = FreeBytes
  BY <1>1 DEF IInv, TypeOK, HeldNotFree, FreeBytes, HeldFrom, Phases
<1> QED BY <1>1, <1>2 DEF IInv, FreeStep

LEMMA InitHolds == Init => IInv
<1> SUFFICES ASSUME Init PROVE IInv
  OBVIOUS
<1>1. Image \in Ranges /\ Image.start \in Nat /\ Image.end \in Nat /\ ListsSize \in Nat /\ StartupSize \in Nat
  BY RamAssumption DEF Ranges
<1>2. /\ Span(Image.end, ListsSize) \in Ranges /\ Span(Image.start, StartupSize) \in Ranges
      /\ Span(Image.end, ListsSize).start <= Span(Image.end, ListsSize).end
      /\ Span(Image.start, StartupSize).start <= Span(Image.start, StartupSize).end
  BY <1>1 DEF Span, Ranges
<1>3. avoidList \in Seq(Ranges) /\ Len(avoidList) = 2 /\ avoidList # <<>> /\ Upright(avoidList)
  BY <1>2 DEF Init, Upright
<1>4. Bytes(Range(avoidList)) \subseteq Nat
  <2>1. \A r \in Ranges : BytesOf(r) \subseteq Nat
    BY DEF BytesOf, Ranges
  <2>2. \A r \in Range(avoidList) : r \in Ranges
    BY <1>3 DEF Range
  <2> QED BY <2>1, <2>2 DEF Bytes
<1>5. ListBytes \subseteq Bytes(Range(avoidList))
  <2>1. Span(Image.end, ListsSize) \in Range(avoidList)
    <3>1. 1 \in DOMAIN avoidList /\ avoidList[1] = Span(Image.end, ListsSize)
      BY DEF Init
    <3> QED BY <3>1 DEF Range
  <2> QED BY <2>1 DEF ListBytes, Bytes
<1>6. ramList = {} /\ Cardinality(ramList) = 0 /\ IsFiniteSet(ramList) /\ FreeBytes = {}
  BY FS_EmptySet DEF Init, FreeBytes, Bytes
<1>7. work = Bytes(Range(avoidList)) /\ reserved = {} /\ held = {} /\ added = 0
  BY DEF Init
<1>8. Bytes(reserved) = {}
  BY <1>7 DEF Bytes
<1>9. TypeOK
  <2>1. ramList \subseteq Ranges /\ IsFiniteSet(ramList) /\ Cardinality(ramList) <= MaxRam
    BY <1>6, RamAssumption
  <2>2. avoidList \in Seq(Ranges) /\ Len(avoidList) < MaxAvoid
    BY <1>3, RamAssumption
  <2>3. wsEarlyNext \in Nat /\ tempSyspage \in Nat \union {NoAddr} /\ phase \in Phases
    BY <1>1 DEF Init, Phases
  <2>4. added \in 0 .. Len(Banks) /\ calls \in 0 .. MaxCalls
    BY RamAssumption DEF Init
  <2>5. reserved \subseteq JtagRanges /\ held \subseteq Nat /\ work \subseteq Nat
    BY <1>4, <1>7
  <2> QED BY <2>1, <2>2, <2>3, <2>4, <2>5 DEF TypeOK
<1> QED BY <1>3, <1>5, <1>6, <1>7, <1>8, <1>9 DEF IInv, Init, Canon, HeldNotFree

LEMMA NextKeeps == BoardFits /\ IInv /\ [Next]_vars => IInv' /\ (FreeStep \/ UNCHANGED vars)
<1> SUFFICES ASSUME BoardFits, IInv, [Next]_vars PROVE IInv' /\ (FreeStep \/ UNCHANGED vars)
  OBVIOUS
<1>1. CASE UNCHANGED vars
  <2>1. TypeOK' /\ HeldNotFree' /\ HeldFrom' = HeldFrom /\ FreeBytes' = FreeBytes
    BY <1>1 DEF vars, IInv, TypeOK, HeldNotFree, FreeBytes, HeldFrom
  <2> QED BY <1>1, <2>1 DEF vars, IInv
<1>2. CASE Next
  BY <1>2, OptionRKeeps, AddRamKeeps, ImageRamKeeps, WsAllocKeeps, AllocAnyKeeps, JtagKeeps,
     ReserveKeeps, MitigationKeeps, SysramKeeps DEF Next
<1> QED BY <1>1, <1>2

\* The free list and the avoid list together: the list stays in its form, free
\* memory is what was added and not handed out, whatever searches must not
\* return is on the avoid list, and the memory of the lists is never handed out.
THEOREM Invariant == ASSUME BoardFits PROVE Spec => []IInv
BY BoardFits, InitHolds, NextKeeps, PTL DEF Spec

-----------------------------------------------------------------------------
(* What follows from it.                                                   *)

LEMMA AvailableWhen ==
    ASSUME IInv, NEW addr \in Nat, NEW size \in Nat, Within(ramList, avoidList, addr, size)
    PROVE  Available(BytesOf(Span(addr, size)))
<1>1. /\ BytesOf(Span(addr, size)) \subseteq FreeBytes
      /\ BytesOf(Span(addr, size)) \intersect Bytes(Range(avoidList)) = {}
  BY SearchableNow, WithinIsFree DEF FreeBytes
<1> QED BY <1>1 DEF IInv, HeldNotFree, Available

LEMMA MultipleBelow ==
    ASSUME NEW limit \in Nat, NEW size \in Nat, NEW a \in Nat \ {0},
           limit % a = 0, size % a = 0, limit - size \in Nat
    PROVE  (limit - size) % a = 0
<1>1. ASSUME NEW x \in Nat, x % a = 0
      PROVE  \E k \in Int : x = a * k
  <2>1. x = a * (x \div a) /\ x \div a \in Int
    <3>1. x \div a \in Int /\ x = a * (x \div a) + (x % a)
      OBVIOUS
    <3> QED BY <1>1, <3>1
  <2> QED BY <2>1, Zenon
<1>2. PICK m \in Int, n \in Int : limit = a * m /\ size = a * n
  BY <1>1
<1>3. limit - size = a * (m - n) /\ m - n \in Int
  BY <1>2
<1> QED BY <1>3

LEMMA FoundFollows == IInv => FoundIsFree
<1> SUFFICES ASSUME IInv PROVE FoundIsFree
  OBVIOUS
<1>1. ASSUME NEW q \in Requests, FindRam(ramList, avoidList, q.size, q.align) # NoAddr
      PROVE  /\ FindRam(ramList, avoidList, q.size, q.align) % q.align = 0
             /\ Available(BytesOf(Span(FindRam(ramList, avoidList, q.size, q.align), q.size)))
  <2>1. q.size \in Nat /\ q.align \in Nat \ {0}
    BY RamAssumption
  <2>2. PICK addr : addr = FindRam(ramList, avoidList, q.size, q.align)
    OBVIOUS
  <2>3. addr \in Nat /\ addr % q.align = 0 /\ Within(ramList, avoidList, addr, q.size)
    BY <1>1, <2>1, <2>2, SearchableNow, FindRamFound
  <2> QED BY <2>1, <2>2, <2>3, AvailableWhen
<1>2. ASSUME NEW size \in Nat \ {0}, NEW limit \in {Limit, MemTop + 2},
             FindTop(ramList, avoidList, size, PageSize, limit) # NoAddr
      PROVE  /\ FindTop(ramList, avoidList, size, PageSize, limit) % PageSize = 0
             /\ FindTop(ramList, avoidList, size, PageSize, limit) + Round(size, PageSize) <= limit
             /\ Available(BytesOf(Span(FindTop(ramList, avoidList, size, PageSize, limit),
                                       Round(size, PageSize))))
  <2>1. limit \in Nat /\ PageSize \in Nat \ {0} /\ MemTop \in Nat
    BY RamAssumption
  <2>2. PICK addr, n : addr = FindTop(ramList, avoidList, size, PageSize, limit) /\ n = Round(size, PageSize)
    OBVIOUS
  <2>3. /\ addr \in Nat /\ Within(ramList, avoidList, addr, n) /\ n \in Nat /\ size <= n
        /\ addr + n <= limit
        /\ addr % PageSize = 0 \/ addr = limit - n
    BY <1>2, <2>1, <2>2, SearchableNow, FindTopFound
  <2>4. n % PageSize = 0
    BY <2>1, <2>2, RoundIs
  <2>5. addr % PageSize = 0
    <3>1. CASE addr % PageSize = 0
      BY <3>1
    <3>2. CASE addr = limit - n /\ limit = Limit
      BY <2>1, <2>3, <2>4, <3>2, MultipleBelow, RamAssumption
    <3>3. CASE addr = limit - n /\ limit = MemTop + 2
      <4>1. PICK r \in ramList, u \in Ranges : PartOf(u, r) /\ addr + n <= u.end
        BY <2>3 DEF Within
      <4>2. r.end <= MemTop + 1 /\ r \in Ranges
        BY FreeBelow DEF IInv, Canon
      <4>3. u.end <= MemTop + 1
        BY <2>1, <4>1, <4>2 DEF PartOf, Ranges
      <4> QED BY <2>1, <2>3, <3>3, <4>1, <4>3 DEF Ranges
    <3> QED BY <2>3, <3>1, <3>2, <3>3
  <2> QED BY <2>2, <2>3, <2>5, AvailableWhen
<1>3. \A size \in {q.size : q \in Reserves} \union {PageSize} : size \in Nat \ {0}
  BY RamAssumption
<1> QED BY <1>1, <1>2, <1>3 DEF FoundIsFree

LEMMA CanonicalFollows == BoardFits /\ IInv => RamListCanonical
<1> SUFFICES ASSUME BoardFits, IInv, ramList = {}, added # 0 PROVE FALSE
  BY DEF RamListCanonical, NoRamYet, IInv, Canon
<1>1. ListBytes \subseteq FreeBytes
  BY RamAssumption DEF IInv, TypeOK
<1>2. Image.end \in ListBytes
  BY RamAssumption DEF ListBytes, BytesOf, Span, Ranges, BoardFits
<1> QED BY <1>1, <1>2 DEF FreeBytes, Bytes

\* However add_ram(), the options, the searches and the allocations follow each
\* other, the lists stay in their form and in their memory, nothing is handed
\* out twice, and a search returns free memory only (MemoryAccounted; ram.c).
THEOREM MemoryIsAccounted == ASSUME BoardFits PROVE Spec => []MemoryAccounted
<1>1. IInv => MemoryAccounted
  BY BoardFits, FoundFollows, CanonicalFollows DEF MemoryAccounted, IInv
<1> QED BY <1>1, Invariant, BoardFits, PTL

\* The lists, the searches and the allocator of ram.c implement what FreeMemory
\* promises: allocated memory is never free again, and nothing else is lost.
THEOREM FreeMemoryImplemented == ASSUME BoardFits PROVE Spec => ImplementsFreeMemory
<1>1. Init => Abstract!Init
  BY DEF Init, Abstract!Init, FreeBytes, Bytes
<1>2. BoardFits /\ IInv /\ IInv' /\ [Next]_vars => [Abstract!Step]_<<FreeBytes, held>>
  <2> SUFFICES ASSUME BoardFits, IInv, IInv', [Next]_vars PROVE [Abstract!Step]_<<FreeBytes, held>>
    OBVIOUS
  <2>1. CASE UNCHANGED vars
    BY <2>1 DEF vars, FreeBytes
  <2>2. CASE FreeStep
    <3>1. FreeBytes' \intersect held' = {}
      BY DEF IInv, HeldNotFree
    <3> QED BY <2>2, <3>1 DEF FreeStep, Abstract!Step
  <2> QED BY <2>1, <2>2, NextKeeps
<1> QED BY <1>1, <1>2, BoardFits, Invariant, PTL DEF Spec, ImplementsFreeMemory, Abstract!Spec

-----------------------------------------------------------------------------
(* The asinfo section: walking up the owners of an entry.                  *)

Entries == [start : 0 .. MemTop, end : 0 .. MemTop, owner : Nat, name : AsNames, cont : BOOLEAN]

IsMatch(match, T, name, N) ==
    match = [k \in 0 .. N |-> k # AS_NULL_OFF /\ (T[k].name = name \/ match[T[k].owner])]

LEMMA MatchExists ==
    ASSUME NEW T, NEW name, NEW N \in Nat, \A k \in 1 .. N : T[k].owner \in 0 .. k - 1
    PROVE  \E match : IsMatch(match, T, name, N)
<1> DEFINE Bad == {n \in Nat : n <= N /\ ~ \E match : IsMatch(match, T, name, n)}
<1> SUFFICES ASSUME Bad # {} PROVE FALSE
  OBVIOUS
<1>1. PICK n \in Bad : \A m \in Bad : n <= m
  BY LeastNat
<1>2. n \in Nat /\ n <= N /\ ~ \E match : IsMatch(match, T, name, n)
  OBVIOUS
<1>3. n # 0
  <2> DEFINE none == [k \in 0 .. 0 |-> FALSE]
  <2>a. \A k \in 0 .. 0 : ~(k # AS_NULL_OFF)
    BY DEF AS_NULL_OFF
  <2>1. IsMatch(none, T, name, 0)
    BY <2>a, Zenon DEF IsMatch
  <2> QED BY <1>2, <2>1
<1>4. n - 1 \in Nat /\ n - 1 \notin Bad
  BY <1>1, <1>2, <1>3
<1>5. PICK match : IsMatch(match, T, name, n - 1)
  BY <1>2, <1>4
<1> DEFINE last == T[n].name = name \/ match[T[n].owner]
           more == [m \in 0 .. n |-> IF m = n THEN last ELSE match[m]]
<1> HIDE DEF last
<1>6. \A m \in 0 .. n : more[m] = IF m = n THEN last ELSE match[m]
  OBVIOUS
<1>7. ASSUME NEW m \in 0 .. n
      PROVE  more[m] = (m # AS_NULL_OFF /\ (T[m].name = name \/ more[T[m].owner]))
  <2>0. m \in Nat /\ (m # 0 => T[m].owner \in 0 .. n /\ T[m].owner < m /\ T[m].owner # n)
    BY <1>2
  <2>1. CASE m = n
    <3>1. more[m] = last /\ more[T[m].owner] = match[T[m].owner]
      BY <1>3, <1>6, <2>0, <2>1
    <3> QED BY <1>3, <2>1, <3>1 DEF last, AS_NULL_OFF
  <2>2. CASE m # n
    <3>1. m \in 0 .. n - 1
      BY <1>2, <2>2
    <3>2. match[m] = (m # AS_NULL_OFF /\ (T[m].name = name \/ match[T[m].owner]))
      BY <1>5, <3>1 DEF IsMatch
    <3>3. more[m] = match[m] /\ (m # 0 => more[T[m].owner] = match[T[m].owner])
      BY <1>6, <2>0, <2>2
    <3> QED BY <3>2, <3>3 DEF AS_NULL_OFF
  <2> QED BY <2>1, <2>2
<1>8. more = [m \in 0 .. n |-> more[m]]
  OBVIOUS
<1> HIDE DEF more
<1>9. IsMatch(more, T, name, n)
  BY <1>7, <1>8 DEF IsMatch
<1> QED BY <1>2, <1>9

\* An entry matches by its own name or by its owner.
LEMMA MatchIs ==
    ASSUME NEW T, Len(T) \in Nat, NEW name, \A k \in 1 .. Len(T) : T[k].owner \in 0 .. k - 1,
           NEW i \in 1 .. Len(T)
    PROVE  MatchName(T, i, name) <=>
                \/ T[i].name = name
                \/ T[i].owner # 0 /\ MatchName(T, T[i].owner, name)
<1>1. \E match : IsMatch(match, T, name, Len(T))
  BY MatchExists
<1> DEFINE it == CHOOSE match : IsMatch(match, T, name, Len(T))
<1>2. IsMatch(it, T, name, Len(T))
  BY <1>1
<1>3. \A k : MatchName(T, k, name) = it[k]
  BY DEF MatchName, IsMatch
<1> HIDE DEF it
<1>4. \A k \in 0 .. Len(T) : it[k] = (k # AS_NULL_OFF /\ (T[k].name = name \/ it[T[k].owner]))
  BY <1>2 DEF IsMatch
<1>5. T[i].owner \in 0 .. Len(T) /\ i # 0 /\ i \in 0 .. Len(T) /\ 0 \in 0 .. Len(T)
  OBVIOUS
<1>6. it[i] = (T[i].name = name \/ it[T[i].owner]) /\ it[0] = FALSE
  BY <1>4, <1>5 DEF AS_NULL_OFF
<1>7. T[i].owner = 0 => it[T[i].owner] = FALSE
  BY <1>6
<1> QED BY <1>3, <1>6, <1>7

\* The walk of as_add_containing() up the table.
IsList(list, T, start, end, container, N) ==
    list = [i \in 0 .. N |->
                IF i = 0 THEN <<>>
                ELSE IF i \in Containing(T, start, end, container)
                THEN PlacePiece(list[i - 1], Clip(T, i, start, end)) ELSE list[i - 1]]

LEMMA ListExists ==
    ASSUME NEW T, NEW start, NEW end, NEW container, NEW N \in Nat
    PROVE  \E list : IsList(list, T, start, end, container, N)
<1> DEFINE Bad == {n \in Nat : ~ \E list : IsList(list, T, start, end, container, n)}
<1> SUFFICES ASSUME Bad # {} PROVE FALSE
  OBVIOUS
<1>1. PICK n \in Bad : \A m \in Bad : n <= m
  BY LeastNat
<1>2. n \in Nat /\ ~ \E list : IsList(list, T, start, end, container, n)
  OBVIOUS
<1>3. n # 0
  <2>1. IsList([m \in 0 .. 0 |-> <<>>], T, start, end, container, 0)
    BY DEF IsList
  <2> QED BY <1>2, <2>1
<1>4. n - 1 \in Nat /\ n - 1 \notin Bad
  BY <1>1, <1>2, <1>3
<1>5. PICK list : IsList(list, T, start, end, container, n - 1)
  BY <1>4
<1> DEFINE Next1(i, before) == IF i \in Containing(T, start, end, container)
                               THEN PlacePiece(before, Clip(T, i, start, end)) ELSE before
           last == Next1(n, list[n - 1])
           more == [m \in 0 .. n |-> IF m = n THEN last ELSE list[m]]
<1> HIDE DEF last, Next1
<1>6. \A m \in 0 .. n : more[m] = IF m = n THEN last ELSE list[m]
  OBVIOUS
<1>7. ASSUME NEW m \in 0 .. n
      PROVE  more[m] = IF m = 0 THEN <<>> ELSE Next1(m, more[m - 1])
  <2>1. CASE m = n
    <3>1. n - 1 \in 0 .. n /\ n \in 0 .. n /\ n - 1 # n
      BY <1>2, <1>3
    <3>2. more[n] = last /\ more[n - 1] = list[n - 1]
      BY <1>6, <3>1
    <3> QED BY <1>3, <2>1, <3>2 DEF last
  <2>2. CASE m # n
    <3>1. m \in 0 .. n - 1
      BY <1>2, <2>2
    <3>2. list[m] = IF m = 0 THEN <<>> ELSE Next1(m, list[m - 1])
      BY <1>5, <3>1 DEF IsList, Next1
    <3>3. m # 0 => m - 1 \in 0 .. n /\ m - 1 # n
      BY <1>2, <3>1
    <3>4. more[m] = list[m] /\ (m # 0 => more[m - 1] = list[m - 1])
      BY <1>6, <2>2, <3>3
    <3> QED BY <3>2, <3>4
  <2> QED BY <2>1, <2>2
<1>8. more = [m \in 0 .. n |-> more[m]]
  OBVIOUS
<1> HIDE DEF more
<1>9. IsList(more, T, start, end, container, n)
  BY <1>7, <1>8 DEF IsList, Next1
<1> QED BY <1>2, <1>9

LEMMA PiecesList ==
    ASSUME NEW T, NEW start, NEW end, NEW container, Len(T) \in Nat
    PROVE  \E list : /\ IsList(list, T, start, end, container, Len(T))
                     /\ Pieces(T, start, end, container) = list[Len(T)]
<1>1. \E list : IsList(list, T, start, end, container, Len(T))
  BY ListExists
<1> DEFINE it == CHOOSE list : IsList(list, T, start, end, container, Len(T))
<1>2. IsList(it, T, start, end, container, Len(T))
  BY <1>1
<1>3. Pieces(T, start, end, container) = it[Len(T)]
  BY DEF Pieces, IsList
<1> HIDE DEF it
<1> QED BY <1>2, <1>3

-----------------------------------------------------------------------------
(* What as_add_containing() appends.                                       *)

Roots == <<AsEntry(0, MemTop, AS_NULL_OFF, "memory", FALSE),
           AsEntry(0, Low, 1, "below4G", FALSE)>>

\* A "ram" entry lies on one side of 4G, under the root entry of that side;
\* every other entry that is added lies in a "ram" entry.
RamEntry(T, i) ==
    /\ T[i].name = "ram"
    /\ \/ T[i].owner = 2 /\ T[i].end <= Low
       \/ T[i].owner = 1 /\ Low < T[i].start

InRam(T, i) ==
    /\ T[i].name \in {"reserved", "sp2mmu", "sysram"}
    /\ T[i].owner \in 3 .. i - 1 /\ T[T[i].owner].name = "ram"
    /\ T[T[i].owner].start <= T[i].start /\ T[i].end <= T[T[i].owner].end

Shape(T) ==
    /\ T \in Seq(Entries) /\ Len(T) >= 2 /\ T[1] = Roots[1] /\ T[2] = Roots[2]
    /\ \A i \in 3 .. Len(T) :
        /\ T[i].start <= T[i].end
        /\ RamEntry(T, i) \/ InRam(T, i)
        /\ T[i].cont => i < Len(T) /\ T[i + 1].name = T[i].name

Apart(T, name) ==
    \A i, j \in 1 .. Len(T) :
        T[i].name = name /\ T[j].name = name /\ i # j => AsBytes(T[i]) \cap AsBytes(T[j]) = {}

\* The table has got entries of this name that divide the range among them.
Divided(T, more, name, start, end) ==
    /\ Shape(more) /\ Len(T) <= Len(more)
    /\ \A i \in 1 .. Len(T) : more[i] = T[i]
    /\ \A i \in Len(T) + 1 .. Len(more) :
            more[i].name = name /\ AsBytes(more[i]) \subseteq start .. end
    /\ \A i, j \in Len(T) + 1 .. Len(more) :
            i # j => AsBytes(more[i]) \cap AsBytes(more[j]) = {}
    /\ \A b \in start .. end : \E i \in Len(T) + 1 .. Len(more) : b \in AsBytes(more[i])

LEMMA AsEntryIs ==
    ASSUME NEW start \in 0 .. MemTop, NEW end \in 0 .. MemTop, NEW owner \in Nat,
           NEW name \in AsNames, NEW cont \in BOOLEAN
    PROVE  AsEntry(start, end, owner, name, cont) \in Entries
BY DEF AsEntry, Entries

LEMMA RootsAre ==
    /\ Roots[1].start = 0 /\ Roots[1].end = MemTop /\ Roots[1].owner = 0 /\ Roots[1].name = "memory"
    /\ Roots[2].start = 0 /\ Roots[2].end = Low /\ Roots[2].owner = 1 /\ Roots[2].name = "below4G"
    /\ Roots[1].cont = FALSE /\ Roots[2].cont = FALSE
    /\ Roots \in Seq(Entries) /\ Len(Roots) = 2
    /\ MemTop \in Nat /\ Low \in Nat /\ Low <= MemTop
<1>1. MemTop \in Nat /\ Low \in Nat /\ Low <= MemTop
  BY RamAssumption
<1>2. /\ AsEntry(0, MemTop, AS_NULL_OFF, "memory", FALSE) \in Entries
      /\ AsEntry(0, Low, 1, "below4G", FALSE) \in Entries
  <2>1. 0 \in 0 .. MemTop /\ MemTop \in 0 .. MemTop /\ Low \in 0 .. MemTop /\ 0 \in Nat /\ 1 \in Nat
    BY <1>1
  <2>2. "memory" \in AsNames /\ "below4G" \in AsNames
    BY DEF AsNames
  <2>3. FALSE \in BOOLEAN
    OBVIOUS
  <2> QED BY <2>1, <2>2, <2>3, AsEntryIs DEF AS_NULL_OFF
<1>3. Roots \in Seq(Entries) /\ Len(Roots) = 2
  <2> DEFINE a == AsEntry(0, MemTop, AS_NULL_OFF, "memory", FALSE)
             b == AsEntry(0, Low, 1, "below4G", FALSE)
  <2> HIDE DEF a, b
  <2>1. Roots = <<a, b>>
    BY DEF Roots, a, b
  <2>2. a \in Entries /\ b \in Entries
    BY <1>2 DEF a, b
  <2> QED BY <2>1, <2>2
<1>4. /\ Roots[1] = AsEntry(0, MemTop, AS_NULL_OFF, "memory", FALSE)
      /\ Roots[2] = AsEntry(0, Low, 1, "below4G", FALSE)
  BY DEF Roots
<1> QED BY <1>1, <1>3, <1>4 DEF AsEntry, AS_NULL_OFF

LEMMA EntryIs ==
    ASSUME NEW T, Shape(T), NEW i \in 1 .. Len(T)
    PROVE  /\ Len(T) \in Nat /\ T[i] \in Entries
           /\ T[i].start \in Nat /\ T[i].end \in Nat /\ T[i].end <= MemTop /\ T[i].owner \in Nat
           /\ T[i].start <= T[i].end /\ T[i].owner \in 0 .. i - 1
<1>1. T \in Seq(Entries) /\ Len(T) \in Nat /\ T[i] \in Entries /\ MemTop \in Nat
  BY RamAssumption DEF Shape
<1>2. T[i].start \in Nat /\ T[i].end \in Nat /\ T[i].end <= MemTop /\ T[i].owner \in Nat
  BY <1>1 DEF Entries
<1>3. T[i].start <= T[i].end /\ T[i].owner \in 0 .. i - 1
  <2>1. CASE i \in {1, 2}
    <3>1. T[i] = Roots[i]
      BY <2>1 DEF Shape
    <3> QED BY <2>1, <3>1, RootsAre
  <2>2. CASE i \in 3 .. Len(T)
    BY <1>2, <2>2 DEF Shape, RamEntry, InRam
  <2> QED BY <1>1, <2>1, <2>2
<1> QED BY <1>1, <1>2, <1>3

LEMMA MatchShape ==
    ASSUME NEW T, Shape(T)
    PROVE  /\ MatchName(T, 1, "memory") /\ MatchName(T, 2, "memory")
           /\ ~MatchName(T, 1, "ram") /\ ~MatchName(T, 2, "ram")
           /\ \A i \in 1 .. Len(T) : T[i].name = "ram" => MatchName(T, i, "ram")
           /\ \A i \in 1 .. Len(T) : MatchName(T, i, "sysram") <=> T[i].name = "sysram"
<1>1. Len(T) \in Nat /\ Len(T) >= 2 /\ 1 \in 1 .. Len(T) /\ 2 \in 1 .. Len(T)
      /\ \A k \in 1 .. Len(T) : T[k].owner \in 0 .. k - 1
  <2>1. Len(T) \in Nat /\ Len(T) >= 2
    BY DEF Shape
  <2> QED BY <2>1, EntryIs
<1>2. \A i \in 1 .. Len(T) : \A name : MatchName(T, i, name) <=>
            T[i].name = name \/ (T[i].owner # 0 /\ MatchName(T, T[i].owner, name))
  BY <1>1, MatchIs
<1>3. /\ T[1].owner = 0 /\ T[1].name = "memory" /\ T[2].owner = 1 /\ T[2].name = "below4G"
  BY RootsAre DEF Shape
<1>4. \A name : MatchName(T, 1, name) <=> name = "memory"
  BY <1>1, <1>2, <1>3
<1>5. \A name : MatchName(T, 2, name) <=> name \in {"memory", "below4G"}
  <2>1. ASSUME NEW name PROVE MatchName(T, 2, name) <=> (name = "below4G" \/ MatchName(T, 1, name))
    BY <1>1, <1>2, <1>3
  <2> QED BY <1>4, <2>1
<1>6. \A i \in 1 .. Len(T) : T[i].name = "ram" => ~MatchName(T, i, "sysram")
  <2> SUFFICES ASSUME NEW i \in 1 .. Len(T), T[i].name = "ram" PROVE ~MatchName(T, i, "sysram")
    OBVIOUS
  <2>0. i # 1 /\ i # 2
    BY <1>3
  <2>1. i \in 3 .. Len(T) /\ RamEntry(T, i)
    <3>1. i \in 3 .. Len(T)
      BY <1>1, <2>0
    <3>2. RamEntry(T, i) \/ InRam(T, i)
      BY <3>1 DEF Shape
    <3>3. ~InRam(T, i)
      BY DEF InRam
    <3> QED BY <3>1, <3>2, <3>3
  <2>2. MatchName(T, i, "sysram") <=>
            T[i].name = "sysram" \/ (T[i].owner # 0 /\ MatchName(T, T[i].owner, "sysram"))
    BY <1>2
  <2>3. T[i].owner = 1 \/ T[i].owner = 2
    BY <2>1 DEF RamEntry
  <2> QED BY <1>4, <1>5, <2>2, <2>3
<1>7. ASSUME NEW i \in 1 .. Len(T) PROVE MatchName(T, i, "sysram") <=> T[i].name = "sysram"
  <2>1. CASE i = 1 \/ i = 2
    BY <1>3, <1>4, <1>5, <2>1
  <2>2. CASE i \in 3 .. Len(T) /\ RamEntry(T, i)
    BY <1>6, <2>2 DEF RamEntry
  <2>3. CASE i \in 3 .. Len(T) /\ InRam(T, i)
    <3>1. T[i].owner \in 1 .. Len(T) /\ T[T[i].owner].name = "ram"
      BY <1>1, <2>3 DEF InRam
    <3>2. MatchName(T, i, "sysram") <=>
            T[i].name = "sysram" \/ (T[i].owner # 0 /\ MatchName(T, T[i].owner, "sysram"))
      BY <1>2
    <3> QED BY <1>6, <3>1, <3>2
  <2> QED BY <1>1, <2>1, <2>2, <2>3 DEF Shape
<1>8. \A i \in 1 .. Len(T) : T[i].name = "ram" => MatchName(T, i, "ram")
  BY <1>2
<1> QED BY <1>4, <1>5, <1>7, <1>8

\* The range is clear of every entry that lies in RAM.
ClearOf(T, start, end) == \A i \in 3 .. Len(T) : T[i].name # "ram" => ~Meets(T[i], start, end)

PieceSet == [start : Nat, end : Nat, owner : Nat]

LEMMA ClipIs ==
    ASSUME NEW T, Shape(T), NEW i \in 1 .. Len(T), NEW start \in Nat, NEW end \in Nat, start <= end,
           Meets(T[i], start, end)
    PROVE  LET p == Clip(T, i, start, end) IN
           /\ p \in PieceSet /\ p.owner = i /\ p.start <= p.end
           /\ T[i].start <= p.start /\ start <= p.start /\ p.end <= T[i].end /\ p.end <= end
           /\ AsBytes(p) \subseteq AsBytes(T[i])
           /\ \A b \in start .. end : b \in AsBytes(T[i]) => b \in AsBytes(p)
<1> DEFINE p == Clip(T, i, start, end)
<1>1. T[i].start \in Nat /\ T[i].end \in Nat /\ T[i].start <= T[i].end /\ i \in Nat
  BY EntryIs
<1>2. /\ p \in PieceSet /\ p.owner = i /\ p.start <= p.end
      /\ T[i].start <= p.start /\ start <= p.start /\ p.end <= T[i].end /\ p.end <= end
      /\ p.start = T[i].start \/ p.start = start
      /\ p.end = T[i].end \/ p.end = end
  BY <1>1 DEF Clip, Meets, PieceSet
<1>3. p.start \in Nat /\ p.end \in Nat
  BY <1>2 DEF PieceSet
<1> HIDE DEF p
<1>4. AsBytes(p) \subseteq AsBytes(T[i])
  BY <1>1, <1>2, <1>3 DEF AsBytes
<1>5. \A b \in start .. end : b \in AsBytes(T[i]) => b \in AsBytes(p)
  BY <1>1, <1>2, <1>3 DEF AsBytes
<1> QED BY <1>2, <1>4, <1>5 DEF p

\* Nothing overlaps in a range whose containers are "ram" entries: the list
\* holds, of each container passed, what it has of the range.
RamList(list, T, start, end, n) ==
    /\ list \in Seq(PieceSet)
    /\ \A k \in 1 .. Len(list) :
        /\ list[k].owner \in 1 .. n /\ list[k].owner \in Containing(T, start, end, "ram")
        /\ list[k] = Clip(T, list[k].owner, start, end)
    /\ \A k, l \in 1 .. Len(list) : k # l => list[k].owner # list[l].owner
    /\ \A i \in 1 .. n : i \in Containing(T, start, end, "ram") =>
            \E k \in 1 .. Len(list) : list[k].owner = i

LEMMA RamHits ==
    ASSUME NEW T, Shape(T), NEW start \in Nat, NEW end \in Nat, ClearOf(T, start, end)
    PROVE  \A i : i \in Containing(T, start, end, "ram") <=>
                    i \in 3 .. Len(T) /\ T[i].name = "ram" /\ Meets(T[i], start, end)
<1>1. Len(T) \in Nat /\ Len(T) >= 2 /\ DOMAIN T = 1 .. Len(T) /\ T[1].name # "ram" /\ T[2].name # "ram"
  BY RootsAre DEF Shape
<1> QED BY <1>1, MatchShape DEF Containing, ClearOf

LEMMA PlaceRam ==
    ASSUME NEW T, Shape(T), Apart(T, "ram"), NEW start \in Nat, NEW end \in Nat, start <= end,
           ClearOf(T, start, end), NEW n \in 1 .. Len(T), n \in Containing(T, start, end, "ram"),
           NEW list, RamList(list, T, start, end, n - 1)
    PROVE  RamList(PlacePiece(list, Clip(T, n, start, end)), T, start, end, n)
<1> DEFINE C == Containing(T, start, end, "ram")
           p == Clip(T, n, start, end)
           over == {k \in DOMAIN list : list[k].start <= p.start /\ p.start <= list[k].end}
<1>1. \A i \in C : i \in 1 .. Len(T) /\ T[i].name = "ram" /\ Meets(T[i], start, end)
  <2>1. Len(T) \in Nat
    BY DEF Shape
  <2> QED BY <2>1, RamHits
<1>2. p \in PieceSet /\ p.owner = n /\ p.start \in AsBytes(T[n]) /\ n \in C
  <2>1. T[n].start \in Nat /\ T[n].end \in Nat
    BY EntryIs
  <2> HIDE DEF p
  <2>2. /\ p \in PieceSet /\ p.owner = n /\ p.start <= p.end /\ T[n].start <= p.start /\ p.end <= T[n].end
    BY <1>1, ClipIs DEF p
  <2> QED BY <2>1, <2>2 DEF AsBytes, PieceSet
<1>3. list \in Seq(PieceSet) /\ Len(list) \in Nat /\ DOMAIN list = 1 .. Len(list) /\ n \in Nat
  BY DEF RamList
<1>4. ASSUME NEW k \in 1 .. Len(list) PROVE k \notin over
  <2>1. list[k].owner \in 1 .. n - 1 /\ list[k].owner \in C /\ list[k] = Clip(T, list[k].owner, start, end)
    BY DEF RamList
  <2> DEFINE o == list[k].owner
  <2> HIDE DEF o
  <2>2. o \in 1 .. Len(T) /\ o # n /\ T[o].name = "ram" /\ Meets(T[o], start, end)
        /\ T[n].name = "ram" /\ list[k] = Clip(T, o, start, end)
    BY <1>1, <1>2, <1>3, <2>1 DEF o
  <2>3. AsBytes(T[o]) \cap AsBytes(T[n]) = {}
    BY <2>2 DEF Apart
  <2>4. T[o].start <= list[k].start /\ list[k].end <= T[o].end /\ list[k] \in PieceSet
    BY <2>2, ClipIs
  <2>5. T[o].start \in Nat /\ T[o].end \in Nat
    BY <2>2, EntryIs
  <2>6. p.start \notin AsBytes(T[o]) /\ p.start \in Nat
    BY <1>2, <2>3 DEF PieceSet
  <2> QED BY <2>4, <2>5, <2>6 DEF AsBytes, PieceSet
<1>5. PlacePiece(list, p) = Append(list, p)
  <2>1. over = {}
    BY <1>3, <1>4
  <2> QED BY <2>1 DEF PlacePiece
<1> DEFINE new == Append(list, p)
<1> HIDE DEF p
<1>6. /\ new \in Seq(PieceSet) /\ Len(new) = Len(list) + 1 /\ new[Len(list) + 1] = p
      /\ \A k \in 1 .. Len(list) : new[k] = list[k]
  BY <1>2, <1>3
<1>7. \A k \in 1 .. Len(new) : k \in 1 .. Len(list) \/ k = Len(list) + 1
  BY <1>3, <1>6
<1>8. \A k \in 1 .. Len(list) : list[k].owner \in 1 .. n - 1
  BY DEF RamList
<1>9. ASSUME NEW k \in 1 .. Len(new)
      PROVE  new[k].owner \in 1 .. n /\ new[k].owner \in C /\ new[k] = Clip(T, new[k].owner, start, end)
  <2>1. CASE k \in 1 .. Len(list)
    BY <1>3, <1>6, <2>1 DEF RamList
  <2>2. CASE k = Len(list) + 1
    BY <1>2, <1>3, <1>6, <2>2 DEF p
  <2> QED BY <1>7, <2>1, <2>2
<1>10. ASSUME NEW k \in 1 .. Len(new), NEW l \in 1 .. Len(new), k # l
       PROVE  new[k].owner # new[l].owner
  <2>1. CASE k \in 1 .. Len(list) /\ l \in 1 .. Len(list)
    BY <1>6, <1>10, <2>1 DEF RamList
  <2>2. CASE k \in 1 .. Len(list) /\ l = Len(list) + 1
    BY <1>2, <1>3, <1>6, <1>8, <2>2
  <2>3. CASE l \in 1 .. Len(list) /\ k = Len(list) + 1
    BY <1>2, <1>3, <1>6, <1>8, <2>3
  <2> QED BY <1>7, <1>10, <2>1, <2>2, <2>3
<1>11. ASSUME NEW i \in 1 .. n, i \in C PROVE \E k \in 1 .. Len(new) : new[k].owner = i
  <2>1. CASE i = n
    <3>1. Len(list) + 1 \in 1 .. Len(new) /\ new[Len(list) + 1].owner = n
      BY <1>2, <1>3, <1>6
    <3> QED BY <2>1, <3>1
  <2>2. CASE i # n
    <3>1. i \in 1 .. n - 1
      BY <1>3, <2>2
    <3>2. PICK k \in 1 .. Len(list) : list[k].owner = i
      BY <1>11, <3>1 DEF RamList
    <3>3. k \in 1 .. Len(new) /\ new[k] = list[k]
      BY <1>3, <1>6
    <3> QED BY <3>2, <3>3
  <2> QED BY <2>1, <2>2
<1>12. RamList(new, T, start, end, n)
  BY <1>6, <1>9, <1>10, <1>11 DEF RamList
<1> QED BY <1>5, <1>12 DEF p

LEMMA RamPieces ==
    ASSUME NEW T, Shape(T), Apart(T, "ram"), NEW start \in Nat, NEW end \in Nat, start <= end,
           ClearOf(T, start, end)
    PROVE  RamList(Pieces(T, start, end, "ram"), T, start, end, Len(T))
<1>1. Len(T) \in Nat
  BY DEF Shape
<1>2. PICK list : /\ IsList(list, T, start, end, "ram", Len(T))
                  /\ Pieces(T, start, end, "ram") = list[Len(T)]
  BY <1>1, PiecesList
<1> DEFINE Bad == {n \in Nat : n <= Len(T) /\ ~RamList(list[n], T, start, end, n)}
<1> SUFFICES ASSUME Bad # {} PROVE FALSE
  BY <1>1, <1>2
<1>3. PICK n \in Bad : \A m \in Bad : n <= m
  BY LeastNat
<1>4. n \in 0 .. Len(T) /\ n \in Nat /\ ~RamList(list[n], T, start, end, n)
  BY <1>1
<1>5. list[n] = IF n = 0 THEN <<>>
                ELSE IF n \in Containing(T, start, end, "ram")
                THEN PlacePiece(list[n - 1], Clip(T, n, start, end)) ELSE list[n - 1]
  BY <1>2, <1>4 DEF IsList
<1>6. n # 0
  BY <1>4, <1>5 DEF RamList
<1>7. n - 1 \in Nat /\ n - 1 <= Len(T) /\ n - 1 \notin Bad
  BY <1>1, <1>3, <1>4, <1>6
<1>8. RamList(list[n - 1], T, start, end, n - 1)
  BY <1>7
<1>9. n \notin Containing(T, start, end, "ram")
  BY <1>4, <1>5, <1>6, <1>8, PlaceRam
<1>10. list[n] = list[n - 1]
  BY <1>5, <1>6, <1>9
<1>11. \A i \in 1 .. n : i \in 1 .. n - 1 \/ i = n
  BY <1>4
<1>12. RamList(list[n], T, start, end, n)
  <2>1. \A i \in 1 .. n - 1 : i \in 1 .. n
    BY <1>4
  <2> QED BY <1>8, <1>9, <1>10, <1>11, <2>1 DEF RamList
<1> QED BY <1>4, <1>12

\* The entries made of a list of pieces.
MadeOf(list, name) ==
    [k \in DOMAIN list |->
        AsEntry(list[k].start, list[k].end, list[k].owner, name, k # Len(list))]

\* What a piece must be for the table to keep its shape.
FitsIn(T, p, name) ==
    /\ p \in PieceSet /\ p.start <= p.end /\ p.end <= MemTop
    /\ p.owner \in 1 .. Len(T)
    /\ \/ /\ name = "ram"
          /\ (p.owner = 2 /\ p.end <= Low) \/ (p.owner = 1 /\ Low < p.start)
       \/ /\ name \in {"reserved", "sp2mmu", "sysram"}
          /\ p.owner \in 3 .. Len(T) /\ T[p.owner].name = "ram"
          /\ T[p.owner].start <= p.start /\ p.end <= T[p.owner].end

LEMMA MadeShape ==
    ASSUME NEW T, Shape(T), NEW name \in AsNames, NEW list \in Seq(PieceSet),
           \A k \in 1 .. Len(list) : FitsIn(T, list[k], name)
    PROVE  LET more == T \o MadeOf(list, name) IN
           /\ Shape(more) /\ Len(more) = Len(T) + Len(list)
           /\ \A i \in 1 .. Len(T) : more[i] = T[i]
           /\ \A k \in 1 .. Len(list) :
                /\ more[Len(T) + k].name = name
                /\ AsBytes(more[Len(T) + k]) = list[k].start .. list[k].end
<1> DEFINE made == MadeOf(list, name)
           more == T \o made
<1>1. T \in Seq(Entries) /\ Len(T) \in Nat /\ Len(T) >= 2 /\ Len(list) \in Nat /\ DOMAIN list = 1 .. Len(list)
  BY DEF Shape
<1>2. \A k \in 1 .. Len(list) :
        made[k] = AsEntry(list[k].start, list[k].end, list[k].owner, name, k # Len(list))
  BY <1>1 DEF MadeOf
<1>3. ASSUME NEW k \in 1 .. Len(list) PROVE made[k] \in Entries
  <2> DEFINE s == list[k].start
             e == list[k].end
             o == list[k].owner
             c == k # Len(list)
  <2>1. s \in Nat /\ e \in Nat /\ o \in Nat /\ s <= e /\ e <= MemTop
    BY DEF FitsIn, PieceSet
  <2>2. MemTop \in Nat /\ c \in BOOLEAN
    BY RamAssumption
  <2>3. made[k] = AsEntry(s, e, o, name, c)
    BY <1>2
  <2> HIDE DEF s, e, o, c, made
  <2>4. s \in 0 .. MemTop /\ e \in 0 .. MemTop
    BY <2>1, <2>2
  <2> QED BY <2>1, <2>2, <2>3, <2>4, AsEntryIs
<1>4. made \in Seq(Entries) /\ Len(made) = Len(list)
  <2>1. made = [k \in 1 .. Len(list) |-> made[k]]
    BY <1>1 DEF MadeOf
  <2> HIDE DEF made
  <2>2. made \in [1 .. Len(list) -> Entries]
    BY <1>3, <2>1
  <2> QED BY <1>1, <2>2
<1> HIDE DEF made
<1>5. /\ more \in Seq(Entries) /\ Len(more) = Len(T) + Len(list)
      /\ \A i \in 1 .. Len(T) : more[i] = T[i]
      /\ \A k \in 1 .. Len(list) : more[Len(T) + k] = made[k]
  BY <1>1, <1>4
<1> HIDE DEF more
<1>6. \A i \in 1 .. Len(more) : i \in 1 .. Len(T) \/ \E k \in 1 .. Len(list) : i = Len(T) + k
  <2> SUFFICES ASSUME NEW i \in 1 .. Len(more), i \notin 1 .. Len(T)
               PROVE  \E k \in 1 .. Len(list) : i = Len(T) + k
    OBVIOUS
  <2>1. i - Len(T) \in 1 .. Len(list) /\ i = Len(T) + (i - Len(T))
    BY <1>1, <1>5
  <2> QED BY <2>1
<1>7. \A k \in 1 .. Len(list) :
        /\ more[Len(T) + k].name = name /\ more[Len(T) + k].start = list[k].start
        /\ more[Len(T) + k].end = list[k].end /\ more[Len(T) + k].owner = list[k].owner
        /\ more[Len(T) + k].cont = (k # Len(list))
  <2> SUFFICES ASSUME NEW k \in 1 .. Len(list)
               PROVE  /\ more[Len(T) + k].name = name /\ more[Len(T) + k].start = list[k].start
                      /\ more[Len(T) + k].end = list[k].end /\ more[Len(T) + k].owner = list[k].owner
                      /\ more[Len(T) + k].cont = (k # Len(list))
    OBVIOUS
  <2> DEFINE c == k # Len(list)
  <2>1. more[Len(T) + k] = AsEntry(list[k].start, list[k].end, list[k].owner, name, c)
    BY <1>2, <1>5
  <2> HIDE DEF c
  <2>2. /\ more[Len(T) + k].name = name /\ more[Len(T) + k].start = list[k].start
        /\ more[Len(T) + k].end = list[k].end /\ more[Len(T) + k].owner = list[k].owner
        /\ more[Len(T) + k].cont = c
    BY <2>1 DEF AsEntry
  <2> QED BY <2>2 DEF c
<1>8. ASSUME NEW i \in 3 .. Len(more)
      PROVE  /\ more[i].start <= more[i].end
             /\ RamEntry(more, i) \/ InRam(more, i)
             /\ more[i].cont => i < Len(more) /\ more[i + 1].name = more[i].name
  <2>1. CASE i \in 1 .. Len(T)
    <3>1. i \in 3 .. Len(T) /\ more[i] = T[i]
      BY <1>1, <1>5, <2>1
    <3>2. /\ T[i].start <= T[i].end
          /\ RamEntry(T, i) \/ InRam(T, i)
          /\ T[i].cont => i < Len(T) /\ T[i + 1].name = T[i].name
      BY <3>1 DEF Shape
    <3>3. T[i].cont => i < Len(more) /\ more[i + 1] = T[i + 1]
      BY <1>1, <1>5, <3>1, <3>2
    <3>4. RamEntry(T, i) => RamEntry(more, i)
      BY <3>1 DEF RamEntry
    <3>5. InRam(T, i) => InRam(more, i)
      <4> SUFFICES ASSUME InRam(T, i) PROVE InRam(more, i)
        OBVIOUS
      <4>1. T[i].owner \in 1 .. Len(T)
        BY <1>1, <3>1 DEF InRam
      <4>2. more[T[i].owner] = T[T[i].owner]
        BY <1>5, <4>1
      <4> QED BY <3>1, <4>2 DEF InRam
    <3>6. RamEntry(more, i) \/ InRam(more, i)
      BY <3>2, <3>4, <3>5
    <3>7. more[i].cont => i < Len(more) /\ more[i + 1].name = more[i].name
      BY <3>1, <3>2, <3>3, Zenon
    <3>8. more[i].start <= more[i].end
      BY <3>1, <3>2
    <3> QED BY <3>6, <3>7, <3>8
  <2>2. CASE i \notin 1 .. Len(T)
    <3>1. PICK k \in 1 .. Len(list) : i = Len(T) + k
      BY <1>1, <1>5, <1>6, <2>2
    <3>2. FitsIn(T, list[k], name)
      OBVIOUS
    <3>3. more[i].start <= more[i].end
      BY <1>7, <3>1, <3>2 DEF FitsIn
    <3>4. more[i].cont => i < Len(more) /\ more[i + 1].name = more[i].name
      <4> SUFFICES ASSUME more[i].cont PROVE i < Len(more) /\ more[i + 1].name = more[i].name
        OBVIOUS
      <4>1. k # Len(list)
        BY <1>7, <3>1
      <4>2. k + 1 \in 1 .. Len(list) /\ i + 1 = Len(T) + (k + 1) /\ i < Len(more)
        <5>1. /\ Len(T) \in Nat /\ Len(list) \in Nat /\ Len(more) = Len(T) + Len(list)
              /\ k \in 1 .. Len(list) /\ k # Len(list) /\ i = Len(T) + k
          BY <1>1, <1>5, <3>1, <4>1
        <5> QED BY <5>1
      <4> QED BY <1>7, <3>1, <4>2
    <3>5. CASE name = "ram"
      <4>1. RamEntry(more, i)
        BY <1>7, <3>1, <3>2, <3>5 DEF FitsIn, RamEntry
      <4> QED BY <3>3, <3>4, <4>1
    <3>6. CASE name # "ram"
      <4> DEFINE o == list[k].owner
      <4>1. /\ name \in {"reserved", "sp2mmu", "sysram"}
            /\ o \in 3 .. Len(T) /\ T[o].name = "ram"
            /\ T[o].start <= list[k].start /\ list[k].end <= T[o].end
        BY <3>2, <3>6 DEF FitsIn
      <4>2. /\ more[i].owner = o /\ more[i].name = name /\ more[i].start = list[k].start
            /\ more[i].end = list[k].end
        BY <1>7, <3>1
      <4> HIDE DEF o
      <4>3. more[o] = T[o] /\ o \in 3 .. i - 1
        BY <1>1, <1>5, <3>1, <4>1
      <4>4. InRam(more, i)
        BY <4>1, <4>2, <4>3 DEF InRam
      <4> QED BY <3>3, <3>4, <4>4
    <3> QED BY <3>5, <3>6
  <2> QED BY <2>1, <2>2
<1>9. 1 \in 1 .. Len(T) /\ 2 \in 1 .. Len(T) /\ Len(more) >= 2
  BY <1>1, <1>5
<1>10. Shape(more)
  BY <1>5, <1>8, <1>9 DEF Shape
<1> QED BY <1>5, <1>7, <1>10 DEF AsBytes, more, made

\* A list of pieces that divides the range.
LEMMA MadeDivided ==
    ASSUME NEW T, Shape(T), NEW name \in AsNames, NEW list \in Seq(PieceSet),
           NEW start \in Nat, NEW end \in Nat,
           \A k \in 1 .. Len(list) : FitsIn(T, list[k], name) /\ start <= list[k].start /\ list[k].end <= end,
           \A k, l \in 1 .. Len(list) : k # l => AsBytes(list[k]) \cap AsBytes(list[l]) = {},
           \A b \in start .. end : \E k \in 1 .. Len(list) : b \in AsBytes(list[k])
    PROVE  Divided(T, T \o MadeOf(list, name), name, start, end)
<1> DEFINE more == T \o MadeOf(list, name)
<1> HIDE DEF more
<1>1. /\ Shape(more) /\ Len(more) = Len(T) + Len(list)
      /\ \A i \in 1 .. Len(T) : more[i] = T[i]
      /\ \A k \in 1 .. Len(list) :
            more[Len(T) + k].name = name /\ AsBytes(more[Len(T) + k]) = AsBytes(list[k])
  BY MadeShape DEF more, AsBytes
<1>2. Len(T) \in Nat /\ Len(list) \in Nat
  BY DEF Shape
<1>3. ASSUME NEW i \in Len(T) + 1 .. Len(more)
      PROVE  i - Len(T) \in 1 .. Len(list) /\ more[i].name = name
             /\ AsBytes(more[i]) = AsBytes(list[i - Len(T)])
  <2>1. i - Len(T) \in 1 .. Len(list) /\ i = Len(T) + (i - Len(T))
    BY <1>1, <1>2
  <2> QED BY <1>1, <2>1
<1>4. ASSUME NEW k \in 1 .. Len(list) PROVE AsBytes(list[k]) \subseteq start .. end
  <2>1. list[k].start \in Nat /\ list[k].end \in Nat /\ start <= list[k].start /\ list[k].end <= end
    BY DEF FitsIn, PieceSet
  <2> QED BY <2>1 DEF AsBytes
<1>5. \A i, j \in Len(T) + 1 .. Len(more) : i # j => AsBytes(more[i]) \cap AsBytes(more[j]) = {}
  <2> SUFFICES ASSUME NEW i \in Len(T) + 1 .. Len(more), NEW j \in Len(T) + 1 .. Len(more), i # j
               PROVE  AsBytes(more[i]) \cap AsBytes(more[j]) = {}
    OBVIOUS
  <2>1. i - Len(T) # j - Len(T)
    BY <1>1, <1>2
  <2> QED BY <1>3, <2>1
<1>6. ASSUME NEW b \in start .. end PROVE \E i \in Len(T) + 1 .. Len(more) : b \in AsBytes(more[i])
  <2>1. PICK k \in 1 .. Len(list) : b \in AsBytes(list[k])
    OBVIOUS
  <2>2. Len(T) + k \in Len(T) + 1 .. Len(more)
    BY <1>1, <1>2
  <2> QED BY <1>1, <2>1, <2>2
<1>7. Divided(T, more, name, start, end)
  <2>1. Len(T) <= Len(more)
    BY <1>1, <1>2
  <2>2. ASSUME NEW i \in Len(T) + 1 .. Len(more)
        PROVE  more[i].name = name /\ AsBytes(more[i]) \subseteq start .. end
    BY <1>3, <1>4
  <2> QED BY <1>1, <1>5, <1>6, <2>1, <2>2 DEF Divided
<1> QED BY <1>7 DEF more

LEMMA AddIsMade ==
    ASSUME NEW T, NEW start, NEW end, NEW name, NEW container
    PROVE  as_add_containing(T, start, end, name, container)
               = T \o MadeOf(Pieces(T, start, end, container), name)
BY DEF as_add_containing, MadeOf

\* A range of RAM that no entry uses yet is divided among the "ram" entries it
\* meets.
LEMMA AddInRam ==
    ASSUME NEW T, Shape(T), Apart(T, "ram"), NEW start \in Nat, NEW end \in Nat, start <= end,
           ClearOf(T, start, end), NEW name \in {"reserved", "sp2mmu", "sysram"},
           \A b \in start .. end : \E i \in 1 .. Len(T) : T[i].name = "ram" /\ b \in AsBytes(T[i])
    PROVE  Divided(T, as_add_containing(T, start, end, name, "ram"), name, start, end)
<1> DEFINE list == Pieces(T, start, end, "ram")
<1>1. RamList(list, T, start, end, Len(T))
  BY RamPieces
<1> HIDE DEF list
<1>2. Len(T) \in Nat /\ list \in Seq(PieceSet)
  BY <1>1 DEF Shape, RamList
<1>3. ASSUME NEW k \in 1 .. Len(list)
      PROVE  LET o == list[k].owner IN
             /\ o \in 3 .. Len(T) /\ T[o].name = "ram" /\ list[k] \in PieceSet
             /\ list[k].start <= list[k].end /\ T[o].start <= list[k].start /\ start <= list[k].start
             /\ list[k].end <= T[o].end /\ list[k].end <= end
             /\ AsBytes(list[k]) \subseteq AsBytes(T[o])
             /\ \A b \in start .. end : b \in AsBytes(T[o]) => b \in AsBytes(list[k])
  <2> DEFINE o == list[k].owner
  <2>1. o \in Containing(T, start, end, "ram") /\ list[k] = Clip(T, o, start, end)
    BY <1>1 DEF RamList
  <2> HIDE DEF o
  <2>2. o \in 3 .. Len(T) /\ o \in 1 .. Len(T) /\ T[o].name = "ram" /\ Meets(T[o], start, end)
    BY <1>2, <2>1, RamHits
  <2> QED BY <2>1, <2>2, ClipIs DEF o
<1>4. \A k \in 1 .. Len(list) : FitsIn(T, list[k], name) /\ start <= list[k].start /\ list[k].end <= end
  <2> SUFFICES ASSUME NEW k \in 1 .. Len(list)
               PROVE  FitsIn(T, list[k], name) /\ start <= list[k].start /\ list[k].end <= end
    OBVIOUS
  <2> DEFINE o == list[k].owner
  <2>1. /\ o \in 3 .. Len(T) /\ T[o].name = "ram" /\ list[k] \in PieceSet
        /\ list[k].start <= list[k].end /\ T[o].start <= list[k].start /\ start <= list[k].start
        /\ list[k].end <= T[o].end /\ list[k].end <= end
    BY <1>3
  <2>2. T[o].end \in Nat /\ T[o].end <= MemTop /\ o \in 1 .. Len(T) /\ MemTop \in Nat
    BY <1>2, <2>1, EntryIs, RamAssumption, SMTT(30)
  <2>3. list[k].start \in Nat /\ list[k].end \in Nat
    BY <2>1 DEF PieceSet
  <2> QED BY <2>1, <2>2, <2>3, SMTT(30) DEF FitsIn
<1>5. ASSUME NEW k \in 1 .. Len(list), NEW l \in 1 .. Len(list), k # l
      PROVE  AsBytes(list[k]) \cap AsBytes(list[l]) = {}
  <2> DEFINE o == list[k].owner
             q == list[l].owner
  <2>1. /\ o \in 3 .. Len(T) /\ T[o].name = "ram" /\ list[k] \in PieceSet
        /\ T[o].start <= list[k].start /\ list[k].end <= T[o].end
    BY <1>3
  <2>2. /\ q \in 3 .. Len(T) /\ T[q].name = "ram" /\ list[l] \in PieceSet
        /\ T[q].start <= list[l].start /\ list[l].end <= T[q].end
    BY <1>3
  <2>3. o # q
    BY <1>1, <1>5 DEF RamList
  <2> HIDE DEF o, q
  <2>4. o \in 1 .. Len(T) /\ q \in 1 .. Len(T)
    BY <1>2, <2>1, <2>2
  <2>5. AsBytes(T[o]) \cap AsBytes(T[q]) = {}
    BY <2>1, <2>2, <2>3, <2>4 DEF Apart
  <2>6. AsBytes(list[k]) \subseteq AsBytes(T[o])
    BY <1>3 DEF o
  <2>7. AsBytes(list[l]) \subseteq AsBytes(T[q])
    BY <1>3 DEF q
  <2> QED BY <2>5, <2>6, <2>7
<1>6. ASSUME NEW b \in start .. end PROVE \E k \in 1 .. Len(list) : b \in AsBytes(list[k])
  <2>1. PICK i \in 1 .. Len(T) : T[i].name = "ram" /\ b \in AsBytes(T[i])
    OBVIOUS
  <2>2. T[i].start \in Nat /\ T[i].end \in Nat /\ Meets(T[i], start, end)
    <3>1. T[i].start \in Nat /\ T[i].end \in Nat
      BY EntryIs
    <3> QED BY <2>1, <3>1 DEF Meets, AsBytes
  <2>3. i # 1 /\ i # 2
    BY <2>1, RootsAre DEF Shape
  <2>4. i \in Containing(T, start, end, "ram")
    <3>1. i \in 3 .. Len(T)
      BY <1>2, <2>3
    <3> QED BY <2>1, <2>2, <3>1, RamHits
  <2>5. PICK k \in 1 .. Len(list) : list[k].owner = i
    BY <1>1, <2>4 DEF RamList
  <2> QED BY <1>3, <2>1, <2>5
<1>7. name \in AsNames
  BY DEF AsNames
<1>8. Divided(T, T \o MadeOf(list, name), name, start, end)
  BY <1>2, <1>4, <1>5, <1>6, <1>7, MadeDivided
<1> QED BY <1>8, AddIsMade DEF list

LEMMA Pair ==
    ASSUME NEW S, NEW a \in S, NEW b \in S
    PROVE  <<a>> \o <<b>> = <<a, b>>
<1>1. <<a>> \o <<b>> \in Seq(S) /\ <<a, b>> \in Seq(S)
  OBVIOUS
<1>2. Len(<<a>> \o <<b>>) = 2 /\ (<<a>> \o <<b>>)[1] = a /\ (<<a>> \o <<b>>)[2] = b
  OBVIOUS
<1>3. Len(<<a, b>>) = 2 /\ <<a, b>>[1] = a /\ <<a, b>>[2] = b
  OBVIOUS
<1>4. \A i \in 1 .. 2 : i = 1 \/ i = 2
  OBVIOUS
<1> QED BY <1>1, <1>2, <1>3, <1>4, SeqEqual

\* A piece that starts where the only listed one does.
LEMMA PlaceOnFirst ==
    ASSUME NEW c \in PieceSet, NEW p \in PieceSet, c.start = p.start, c.start <= c.end,
           p.end <= c.end, p.start <= p.end
    PROVE  PlacePiece(<<c>>, p) =
               IF c.end = p.end THEN <<p>>
               ELSE <<p, [start |-> p.end + 1, end |-> c.end, owner |-> c.owner]>>
<1> DEFINE list == <<c>>
           over == {k \in DOMAIN list : list[k].start <= p.start /\ p.start <= list[k].end}
           rest == [c EXCEPT !.start = p.end + 1]
           after == IF c.end <= p.end THEN <<>> ELSE <<rest>>
<1>1. c.start \in Nat /\ c.end \in Nat /\ p.start \in Nat /\ p.end \in Nat
  BY DEF PieceSet
<1>2. over = {1}
  BY <1>1
<1>3. Min(over) = 1
  <2>1. {1} \subseteq Nat /\ {1} # {}
    OBVIOUS
  <2>2. Min({1}) \in {1}
    BY <2>1, MinOf
  <2> QED BY <1>2, <2>2
<1>4. list[1] = c /\ Len(list) = 1
  OBVIOUS
<1>5. rest = [start |-> p.end + 1, end |-> c.end, owner |-> c.owner] /\ rest \in PieceSet
  BY <1>1 DEF PieceSet
<1>6. SubSeq(list, 1, 1 - 1) = <<>> /\ SubSeq(list, 1 + 1, Len(list)) = <<>>
  BY <1>4
<1>7. PlacePiece(list, p) = <<>> \o <<>> \o <<p>> \o after \o <<>>
  <2>1. over # {} /\ c.start = p.start
    BY <1>2
  <2> HIDE DEF rest
  <2> QED BY <1>3, <1>4, <1>6, <2>1 DEF PlacePiece, rest
<1> HIDE DEF rest, list, over
<1>8. after \in Seq(PieceSet)
  BY <1>5
<1> HIDE DEF after
<1>9. PlacePiece(<<c>>, p) = <<p>> \o after
  <2>1. <<>> \o <<>> = <<>> /\ <<>> \o <<p>> = <<p>> /\ <<p>> \o after \in Seq(PieceSet)
    BY <1>8
  <2>2. (<<p>> \o after) \o <<>> = <<p>> \o after
    BY <2>1
  <2> QED BY <1>7, <2>1, <2>2 DEF list
<1>10. CASE c.end = p.end
  <2>1. after = <<>>
    BY <1>1, <1>10 DEF after
  <2>2. <<p>> \o <<>> = <<p>>
    OBVIOUS
  <2> QED BY <1>9, <1>10, <2>1, <2>2
<1>11. CASE c.end # p.end
  <2>1. after = <<rest>>
    BY <1>1, <1>11 DEF after
  <2>2. <<p>> \o <<rest>> = <<p, rest>>
    BY <1>5, Pair
  <2> QED BY <1>5, <1>9, <1>11, <2>1, <2>2
<1> QED BY <1>10, <1>11

LEMMA BankPieces ==
    ASSUME NEW T, Shape(T), NEW start \in Nat, NEW end \in Nat, start <= end, end <= MemTop,
           \A i \in 3 .. Len(T) : ~Meets(T[i], start, end)
    PROVE  Pieces(T, start, end, "memory") =
               IF Low < start THEN <<[start |-> start, end |-> end, owner |-> 1]>>
               ELSE IF end <= Low THEN <<[start |-> start, end |-> end, owner |-> 2]>>
               ELSE <<[start |-> start, end |-> Low, owner |-> 2],
                      [start |-> Low + 1, end |-> end, owner |-> 1]>>
<1> DEFINE C == Containing(T, start, end, "memory")
           whole == [start |-> start, end |-> end, owner |-> 1]
           below == [start |-> start, end |-> IF Low < end THEN Low ELSE end, owner |-> 2]
           both == IF Low < start THEN <<whole>> ELSE PlacePiece(<<whole>>, below)
<1>1. /\ Len(T) \in Nat /\ Len(T) >= 2 /\ DOMAIN T = 1 .. Len(T)
      /\ T[1].start = 0 /\ T[1].end = MemTop /\ T[2].start = 0 /\ T[2].end = Low
      /\ MemTop \in Nat /\ Low \in Nat /\ Low <= MemTop
  BY RootsAre DEF Shape
<1>2. 1 \in C /\ (2 \in C <=> ~(Low < start)) /\ \A i \in 3 .. Len(T) : i \notin C
  <2>1. Meets(T[1], start, end) /\ (Meets(T[2], start, end) <=> ~(Low < start))
    BY <1>1 DEF Meets
  <2> QED BY <1>1, <2>1, MatchShape DEF Containing
<1>3. Clip(T, 1, start, end) = whole /\ (~(Low < start) => Clip(T, 2, start, end) = below)
  BY <1>1 DEF Clip
<1>4. PICK list : /\ IsList(list, T, start, end, "memory", Len(T))
                  /\ Pieces(T, start, end, "memory") = list[Len(T)]
  BY <1>1, PiecesList
<1>5. \A n \in 0 .. Len(T) :
        list[n] = IF n = 0 THEN <<>>
                  ELSE IF n \in C THEN PlacePiece(list[n - 1], Clip(T, n, start, end))
                  ELSE list[n - 1]
  BY <1>4 DEF IsList
<1>6. list[1] = <<whole>>
  <2>1. list[0] = <<>> /\ list[1] = PlacePiece(list[0], Clip(T, 1, start, end))
    BY <1>1, <1>2, <1>5
  <2>2. PlacePiece(<<>>, whole) = Append(<<>>, whole)
    <3>1. DOMAIN <<>> = {}
      OBVIOUS
    <3> HIDE DEF whole
    <3> QED BY <3>1 DEF PlacePiece
  <2> QED BY <1>3, <2>1, <2>2
<1>7. list[2] = both
  <2>1. list[2] = IF 2 \in C THEN PlacePiece(list[1], Clip(T, 2, start, end)) ELSE list[1]
    BY <1>1, <1>5
  <2> QED BY <1>2, <1>3, <1>6, <2>1
<1>8. list[Len(T)] = both
  <2> DEFINE Bad == {n \in Nat : n >= 2 /\ n <= Len(T) /\ list[n] # both}
  <2> HIDE DEF both, C
  <2> SUFFICES ASSUME Bad # {} PROVE FALSE
    BY <1>1
  <2>1. PICK n \in Bad : \A m \in Bad : n <= m
    BY LeastNat
  <2>2. n \in 3 .. Len(T) /\ list[n] # both
    BY <1>1, <1>7, <2>1
  <2>3. list[n] = list[n - 1]
    BY <1>1, <1>2, <1>5, <2>2
  <2>4. n - 1 \notin Bad /\ n - 1 \in Nat /\ n - 1 >= 2 /\ n - 1 <= Len(T)
    BY <1>1, <2>1, <2>2
  <2> QED BY <2>2, <2>3, <2>4
<1>9. CASE Low < start
  BY <1>4, <1>8, <1>9
<1>10. CASE ~(Low < start)
  <2>1. whole \in PieceSet /\ below \in PieceSet /\ whole.start = below.start /\ whole.start <= whole.end
        /\ below.end <= whole.end /\ below.start <= below.end
    BY <1>1, <1>10 DEF PieceSet
  <2>2. both = IF end = below.end THEN <<below>>
               ELSE <<below, [start |-> below.end + 1, end |-> end, owner |-> 1]>>
    BY <1>10, <2>1, PlaceOnFirst
  <2>3. CASE end <= Low
    <3>1. below = [start |-> start, end |-> end, owner |-> 2]
      BY <1>1, <2>3
    <3> QED BY <1>4, <1>8, <1>10, <2>2, <2>3, <3>1
  <2>4. CASE ~(end <= Low)
    <3>1. below = [start |-> start, end |-> Low, owner |-> 2] /\ end # Low
      BY <1>1, <2>4
    <3> QED BY <1>4, <1>8, <1>10, <2>2, <2>4, <3>1
  <2> QED BY <2>3, <2>4
<1> QED BY <1>9, <1>10

\* A bank that overlaps nothing is divided at 4G.
LEMMA AddBank ==
    ASSUME NEW T, Shape(T), NEW start \in Nat, NEW end \in Nat, start <= end, end <= MemTop,
           \A i \in 3 .. Len(T) : ~Meets(T[i], start, end)
    PROVE  Divided(T, as_add_containing(T, start, end, "ram", "memory"), "ram", start, end)
<1> DEFINE list == Pieces(T, start, end, "memory")
           S == [start |-> start, end |-> end, owner |-> 1]
           A == [start |-> start, end |-> end, owner |-> 2]
           B == [start |-> start, end |-> Low, owner |-> 2]
           D == [start |-> Low + 1, end |-> end, owner |-> 1]
<1>1. /\ Len(T) \in Nat /\ Len(T) >= 2 /\ MemTop \in Nat /\ Low \in Nat /\ Low <= MemTop
  BY RootsAre DEF Shape
<1>2. list = IF Low < start THEN <<S>> ELSE IF end <= Low THEN <<A>> ELSE <<B, D>>
  BY BankPieces
<1> DEFINE Good(p) == FitsIn(T, p, "ram") /\ start <= p.start /\ p.end <= end
<1>3. list \in Seq(PieceSet) /\ \A k \in 1 .. Len(list) : Good(list[k])
  <2>1. CASE Low < start
    <3>1. S \in PieceSet /\ Good(S)
      BY <1>1, <2>1 DEF FitsIn, PieceSet
    <3>2. list = <<S>>
      BY <1>2, <2>1
    <3> HIDE DEF list, S, Good
    <3> QED BY <3>1, <3>2
  <2>2. CASE ~(Low < start) /\ end <= Low
    <3>1. A \in PieceSet /\ Good(A)
      BY <1>1, <2>2 DEF FitsIn, PieceSet
    <3>2. list = <<A>>
      BY <1>2, <2>2
    <3> HIDE DEF list, A, Good
    <3> QED BY <3>1, <3>2
  <2>3. CASE ~(Low < start) /\ ~(end <= Low)
    <3>1. B \in PieceSet /\ Good(B) /\ D \in PieceSet /\ Good(D)
      BY <1>1, <2>3 DEF FitsIn, PieceSet
    <3>2. list = <<B, D>>
      BY <1>2, <2>3
    <3> HIDE DEF list, B, D, Good
    <3> QED BY <3>1, <3>2
  <2> QED BY <2>1, <2>2, <2>3
<1>4. \A k, l \in 1 .. Len(list) : k # l => AsBytes(list[k]) \cap AsBytes(list[l]) = {}
  <2>1. CASE Low < start \/ end <= Low
    <3>1. Len(list) = 1
      BY <1>2, <2>1
    <3> HIDE DEF list
    <3> QED BY <3>1
  <2>2. CASE ~(Low < start) /\ ~(end <= Low)
    <3>1. list = <<B, D>>
      BY <1>2, <2>2
    <3>2. AsBytes(B) \cap AsBytes(D) = {}
      BY <1>1 DEF AsBytes
    <3> HIDE DEF list, B, D
    <3>3. Len(list) = 2 /\ list[1] = B /\ list[2] = D
      BY <3>1
    <3> QED BY <3>2, <3>3
  <2> QED BY <2>1, <2>2
<1>5. \A b \in start .. end : \E k \in 1 .. Len(list) : b \in AsBytes(list[k])
  <2> SUFFICES ASSUME NEW b \in start .. end PROVE \E k \in 1 .. Len(list) : b \in AsBytes(list[k])
    OBVIOUS
  <2>1. CASE Low < start \/ end <= Low
    <3>1. Len(list) = 1 /\ (list[1] = S \/ list[1] = A)
      BY <1>2, <2>1
    <3>2. b \in AsBytes(S) /\ b \in AsBytes(A)
      BY DEF AsBytes
    <3> HIDE DEF list, S, A
    <3> QED BY <3>1, <3>2
  <2>2. CASE ~(Low < start) /\ ~(end <= Low)
    <3>1. list = <<B, D>>
      BY <1>2, <2>2
    <3>2. b \in AsBytes(B) \/ b \in AsBytes(D)
      BY <1>1 DEF AsBytes
    <3> HIDE DEF list, B, D
    <3>3. Len(list) = 2 /\ list[1] = B /\ list[2] = D
      BY <3>1
    <3> QED BY <3>2, <3>3
  <2> QED BY <2>1, <2>2
<1>6. "ram" \in AsNames
  BY DEF AsNames
<1> HIDE DEF list
<1>7. Divided(T, T \o MadeOf(list, "ram"), "ram", start, end)
  BY <1>3, <1>4, <1>5, <1>6, MadeDivided
<1> QED BY <1>7, AddIsMade DEF list

-----------------------------------------------------------------------------
(* What the table says of memory.                                          *)

NamedBytes(T, name) == UNION {AsBytes(T[i]) : i \in Named(T, name)}

LEMMA NamedIs ==
    ASSUME NEW T, DOMAIN T = 1 .. Len(T), NEW name, NEW b
    PROVE  b \in NamedBytes(T, name) <=> \E i \in 1 .. Len(T) : T[i].name = name /\ b \in AsBytes(T[i])
BY DEF NamedBytes, Named

LEMMA ShapeDomain == ASSUME NEW T, Shape(T) PROVE DOMAIN T = 1 .. Len(T) /\ Len(T) \in Nat
BY DEF Shape

LEMMA MeetsByte ==
    ASSUME NEW T, Shape(T), NEW i \in 1 .. Len(T), NEW start \in Nat, NEW end \in Nat, start <= end
    PROVE  Meets(T[i], start, end) <=> \E b \in start .. end : b \in AsBytes(T[i])
<1>1. T[i].start \in Nat /\ T[i].end \in Nat /\ T[i].start <= T[i].end
  BY EntryIs
<1>2. ASSUME Meets(T[i], start, end) PROVE \E b \in start .. end : b \in AsBytes(T[i])
  <2> DEFINE b == IF T[i].start <= start THEN start ELSE T[i].start
  <2>1. b \in start .. end /\ b \in AsBytes(T[i])
    BY <1>1, <1>2 DEF Meets, AsBytes
  <2> QED BY <2>1
<1>3. ASSUME NEW b \in start .. end, b \in AsBytes(T[i]) PROVE Meets(T[i], start, end)
  BY <1>1, <1>3 DEF Meets, AsBytes
<1> QED BY <1>2, <1>3

LEMMA DividedBytes ==
    ASSUME NEW T, Shape(T), NEW more, NEW name, NEW start \in Nat, NEW end \in Nat,
           Divided(T, more, name, start, end)
    PROVE  /\ NamedBytes(more, name) = NamedBytes(T, name) \union start .. end
           /\ Apart(T, name) /\ NamedBytes(T, name) \cap (start .. end) = {} => Apart(more, name)
           /\ \A other : other # name =>
                /\ NamedBytes(more, other) = NamedBytes(T, other)
                /\ Apart(T, other) => Apart(more, other)
<1>1. /\ Len(T) \in Nat /\ Len(more) \in Nat /\ Len(T) <= Len(more)
      /\ DOMAIN T = 1 .. Len(T) /\ DOMAIN more = 1 .. Len(more)
  BY ShapeDomain DEF Divided
<1>2. \A i \in 1 .. Len(more) : (i \in 1 .. Len(T) /\ more[i] = T[i]) \/ i \in Len(T) + 1 .. Len(more)
  <2>1. \A i \in 1 .. Len(more) : i \in 1 .. Len(T) \/ i \in Len(T) + 1 .. Len(more)
    BY <1>1
  <2> QED BY <2>1 DEF Divided
<1>3. \A i \in 1 .. Len(T) : i \in 1 .. Len(more) /\ more[i] = T[i]
  BY <1>1 DEF Divided
<1>4. \A i \in Len(T) + 1 .. Len(more) :
        i \in 1 .. Len(more) /\ more[i].name = name /\ AsBytes(more[i]) \subseteq start .. end
  BY <1>1 DEF Divided
<1>5. NamedBytes(more, name) = NamedBytes(T, name) \union start .. end
  <2>1. ASSUME NEW b \in NamedBytes(more, name) PROVE b \in NamedBytes(T, name) \union start .. end
    <3>1. PICK i \in 1 .. Len(more) : more[i].name = name /\ b \in AsBytes(more[i])
      BY <1>1, <2>1, NamedIs
    <3>2. CASE i \in 1 .. Len(T)
      BY <1>1, <1>3, <3>1, <3>2, NamedIs
    <3>3. CASE i \in Len(T) + 1 .. Len(more)
      BY <1>4, <3>1, <3>3
    <3> QED BY <1>2, <3>2, <3>3
  <2>2. ASSUME NEW b \in NamedBytes(T, name) PROVE b \in NamedBytes(more, name)
    <3>1. PICK i \in 1 .. Len(T) : T[i].name = name /\ b \in AsBytes(T[i])
      BY <1>1, <2>2, NamedIs
    <3> QED BY <1>1, <1>3, <3>1, NamedIs
  <2>3. ASSUME NEW b \in start .. end PROVE b \in NamedBytes(more, name)
    <3>1. PICK i \in Len(T) + 1 .. Len(more) : b \in AsBytes(more[i])
      BY DEF Divided
    <3> QED BY <1>1, <1>4, <3>1, NamedIs
  <2> QED BY <2>1, <2>2, <2>3
<1>6. ASSUME Apart(T, name), NamedBytes(T, name) \cap (start .. end) = {} PROVE Apart(more, name)
  <2> SUFFICES ASSUME NEW i \in 1 .. Len(more), NEW j \in 1 .. Len(more),
                      more[i].name = name, more[j].name = name, i # j
               PROVE  AsBytes(more[i]) \cap AsBytes(more[j]) = {}
    BY DEF Apart
  <2>1. \A k \in 1 .. Len(T) : T[k].name = name => AsBytes(T[k]) \subseteq NamedBytes(T, name)
    BY <1>1, NamedIs
  <2>2. CASE i \in 1 .. Len(T) /\ j \in 1 .. Len(T)
    BY <1>3, <1>6, <2>2 DEF Apart
  <2>3. CASE i \in 1 .. Len(T) /\ j \in Len(T) + 1 .. Len(more)
    BY <1>3, <1>4, <1>6, <2>1, <2>3
  <2>4. CASE j \in 1 .. Len(T) /\ i \in Len(T) + 1 .. Len(more)
    BY <1>3, <1>4, <1>6, <2>1, <2>4
  <2>5. CASE i \in Len(T) + 1 .. Len(more) /\ j \in Len(T) + 1 .. Len(more)
    BY <2>5 DEF Divided
  <2> QED BY <1>2, <2>2, <2>3, <2>4, <2>5
<1>7. ASSUME NEW other, other # name
      PROVE  /\ NamedBytes(more, other) = NamedBytes(T, other)
             /\ Apart(T, other) => Apart(more, other)
  <2>1. \A i \in 1 .. Len(more) : more[i].name = other => i \in 1 .. Len(T) /\ more[i] = T[i]
    BY <1>2, <1>4, <1>7
  <2>2. ASSUME NEW b PROVE b \in NamedBytes(more, other) <=> b \in NamedBytes(T, other)
    <3>1. (\E i \in 1 .. Len(more) : more[i].name = other /\ b \in AsBytes(more[i]))
              <=> \E i \in 1 .. Len(T) : T[i].name = other /\ b \in AsBytes(T[i])
      BY <1>3, <2>1
    <3> QED BY <1>1, <3>1, NamedIs
  <2>3. Apart(T, other) => Apart(more, other)
    BY <2>1 DEF Apart
  <2> QED BY <2>2, <2>3
<1> QED BY <1>5, <1>6, <1>7

\* What an entry keeps when it gives up a range.
Keeps(it, new, start, end) ==
    /\ new \in Entries /\ new.name = it.name /\ new.owner = it.owner /\ new.cont = it.cont
    /\ it.start <= new.start /\ new.start <= new.end /\ new.end <= it.end
    /\ it.name # "sysram" => new = it
    /\ it.name = "sysram" =>
        /\ AsBytes(new) \subseteq AsBytes(it) \ (start .. end)
        /\ \A b \in AsBytes(it) \ (start .. end) :
            \/ b \in AsBytes(new)
            \/ it.start < start /\ end < it.end /\ b \in end + 1 .. it.end

LEMMA TrimStart ==
    ASSUME NEW it \in Entries, NEW start \in Nat, NEW end \in Nat, start <= end,
           it.name = "sysram", start <= it.start, it.start <= end, end < it.end
    PROVE  Keeps(it, [it EXCEPT !.start = end + 1], start, end)
<1>0. MemTop \in Nat
  BY RamAssumption
<1>1. it.start \in Nat /\ it.end \in Nat /\ it.end <= MemTop
  BY <1>0 DEF Entries
<1>2. PICK new : new = [it EXCEPT !.start = end + 1]
  OBVIOUS
<1>3. /\ new.name = it.name /\ new.owner = it.owner /\ new.cont = it.cont
      /\ new.start = end + 1 /\ new.end = it.end
  BY <1>2 DEF Entries
<1>4. new \in Entries
  <2>1. end + 1 \in 0 .. MemTop
    BY <1>0, <1>1
  <2> QED BY <1>2, <2>1 DEF Entries
<1>5. AsBytes(new) \subseteq AsBytes(it) \ (start .. end)
  BY <1>1, <1>3 DEF AsBytes
<1>6. \A b \in AsBytes(it) \ (start .. end) : b \in AsBytes(new)
  BY <1>1, <1>3 DEF AsBytes
<1>7. it.start <= new.start /\ new.start <= new.end /\ new.end <= it.end
  BY <1>1, <1>3
<1> QED BY <1>2, <1>3, <1>4, <1>5, <1>6, <1>7 DEF Keeps

LEMMA TrimEnd ==
    ASSUME NEW it \in Entries, NEW start \in Nat, NEW end \in Nat, start <= end,
           it.name = "sysram", it.start < start, start <= it.end
    PROVE  Keeps(it, [it EXCEPT !.end = start - 1], start, end)
<1>0. MemTop \in Nat
  BY RamAssumption
<1>1. it.start \in Nat /\ it.end \in Nat /\ it.end <= MemTop
  BY <1>0 DEF Entries
<1>2. PICK new : new = [it EXCEPT !.end = start - 1]
  OBVIOUS
<1>3. /\ new.name = it.name /\ new.owner = it.owner /\ new.cont = it.cont
      /\ new.start = it.start /\ new.end = start - 1
  BY <1>2 DEF Entries
<1>4. new \in Entries
  <2>1. start - 1 \in 0 .. MemTop
    BY <1>0, <1>1
  <2> QED BY <1>2, <2>1 DEF Entries
<1>5. AsBytes(new) \subseteq AsBytes(it) \ (start .. end)
  BY <1>1, <1>3 DEF AsBytes
<1>6. ASSUME NEW b \in AsBytes(it) \ (start .. end)
      PROVE  \/ b \in AsBytes(new)
             \/ it.start < start /\ end < it.end /\ b \in end + 1 .. it.end
  BY <1>1, <1>3 DEF AsBytes
<1>7. it.start <= new.start /\ new.start <= new.end /\ new.end <= it.end
  BY <1>1, <1>3
<1> QED BY <1>2, <1>3, <1>4, <1>5, <1>6, <1>7 DEF Keeps

\* alloc_ram() of a range, once the sysram entries are there.
LEMMA TrimmedIs ==
    ASSUME Shape(asinfo), NEW start \in Nat, NEW end \in Nat, start <= end,
           ~TrimCrashes(start, end), NEW i \in 1 .. Len(asinfo)
    PROVE  Keeps(asinfo[i], TrimmedEntry(i, start, end), start, end)
<1>1. /\ asinfo[i] \in Entries /\ asinfo[i].start \in Nat /\ asinfo[i].end \in Nat
      /\ asinfo[i].start <= asinfo[i].end
  BY EntryIs
<1>2. i \in TrimmedSysram(start, end) <=> asinfo[i].name = "sysram" /\ Meets(asinfo[i], start, end)
  BY ShapeDomain, MatchShape DEF TrimmedSysram, Containing
<1>3. CASE ~(asinfo[i].name = "sysram" /\ Meets(asinfo[i], start, end))
  <2>1. TrimmedEntry(i, start, end) = asinfo[i]
    BY <1>2, <1>3 DEF TrimmedEntry
  <2>2. asinfo[i].name = "sysram" => ~ \E b \in start .. end : b \in AsBytes(asinfo[i])
    BY <1>3, MeetsByte
  <2> QED BY <1>1, <2>1, <2>2 DEF Keeps
<1>4. CASE asinfo[i].name = "sysram" /\ Meets(asinfo[i], start, end) /\ start <= asinfo[i].start
  <2>1. TrimmedEntry(i, start, end) = [asinfo[i] EXCEPT !.start = end + 1]
    BY <1>2, <1>4 DEF TrimmedEntry
  <2>2. end < asinfo[i].end
    BY <1>1, <1>2, <1>4 DEF TrimCrashes
  <2>3. asinfo[i].start <= end
    BY <1>1, <1>4 DEF Meets
  <2> QED BY <1>1, <1>4, <2>1, <2>2, <2>3, TrimStart
<1>5. CASE asinfo[i].name = "sysram" /\ Meets(asinfo[i], start, end) /\ asinfo[i].start < start
  <2>1. TrimmedEntry(i, start, end) = [asinfo[i] EXCEPT !.end = start - 1]
    BY <1>1, <1>2, <1>5 DEF TrimmedEntry
  <2>2. start <= asinfo[i].end
    BY <1>1, <1>5 DEF Meets
  <2> QED BY <1>1, <1>5, <2>1, <2>2, TrimEnd
<1> QED BY <1>1, <1>3, <1>4, <1>5

LEMMA TrimKeeps ==
    ASSUME Shape(asinfo), Apart(asinfo, "sysram"), NEW start \in Nat, NEW end \in Nat,
           start <= end, ~TrimCrashes(start, end)
    PROVE  LET more == Trim(start, end) IN
           /\ Shape(more) /\ Len(asinfo) <= Len(more)
           /\ \A i \in 1 .. Len(asinfo) : Keeps(asinfo[i], more[i], start, end)
           /\ \A i \in Len(asinfo) + 1 .. Len(more) : more[i].name = "sysram"
           /\ NamedBytes(more, "sysram") = NamedBytes(asinfo, "sysram") \ (start .. end)
           /\ Apart(more, "sysram")
<1> DEFINE N == Len(asinfo)
           S == {i \in 1 .. N : asinfo[i].name = "sysram" /\ asinfo[i].start < start /\ end < asinfo[i].end}
           kept == [i \in 1 .. N |-> TrimmedEntry(i, start, end)]
           tail(j) == AsEntry(end + 1, asinfo[j].end, asinfo[j].owner, "sysram", FALSE)
           more == Trim(start, end)
<1>1. N \in Nat /\ N >= 2 /\ DOMAIN asinfo = 1 .. N /\ MemTop \in Nat
  BY ShapeDomain, RamAssumption DEF Shape
<1>2. \A i \in 1 .. N : /\ asinfo[i].start \in Nat /\ asinfo[i].end \in Nat /\ asinfo[i].end <= MemTop
                        /\ asinfo[i].start <= asinfo[i].end /\ asinfo[i].owner \in Nat
  BY EntryIs
<1>3. S = {i \in TrimmedSysram(start, end) : asinfo[i].start < start /\ end < asinfo[i].end}
  <2>1. ASSUME NEW i PROVE i \in TrimmedSysram(start, end) <=>
                               i \in 1 .. N /\ asinfo[i].name = "sysram" /\ Meets(asinfo[i], start, end)
    BY <1>1, MatchShape DEF TrimmedSysram, Containing
  <2>2. \A i \in 1 .. N : asinfo[i].start < start /\ end < asinfo[i].end => Meets(asinfo[i], start, end)
    BY <1>2 DEF Meets
  <2> QED BY <2>1, <2>2
<1>4. \A i, j \in S : i = j
  <2> SUFFICES ASSUME NEW i \in S, NEW j \in S, i # j PROVE FALSE
    OBVIOUS
  <2>1. AsBytes(asinfo[i]) \cap AsBytes(asinfo[j]) = {}
    BY DEF Apart
  <2>2. start \in AsBytes(asinfo[i]) /\ start \in AsBytes(asinfo[j])
    BY <1>2 DEF AsBytes
  <2> QED BY <2>1, <2>2
<1>5. more = kept \o IF S = {} THEN <<>> ELSE <<tail(Min(S))>>
  BY <1>1, <1>3 DEF Trim
<1> HIDE DEF more, S
<1>6. \A i \in 1 .. N : Keeps(asinfo[i], kept[i], start, end)
  BY TrimmedIs
<1>7. kept \in Seq(Entries) /\ Len(kept) = N
  <2>1. \A i \in 1 .. N : kept[i] \in Entries
    BY <1>6 DEF Keeps
  <2>2. kept = [i \in 1 .. N |-> kept[i]]
    OBVIOUS
  <2> HIDE DEF kept
  <2> QED BY <1>1, <2>1, <2>2
<1> HIDE DEF kept
\* Either no entry is split, or one is.
<1>8. \/ S = {} /\ more = kept
      \/ \E j \in 1 .. N : S = {j} /\ more = kept \o <<tail(j)>>
  <2>1. CASE S = {}
    <3>1. kept \o <<>> = kept
      BY <1>7
    <3> QED BY <1>5, <2>1, <3>1
  <2>2. CASE S # {}
    <3>1. S \subseteq Nat /\ S \subseteq 1 .. N
      BY <1>1 DEF S
    <3>2. Min(S) \in S
      BY <2>2, <3>1, MinOf
    <3>3. S = {Min(S)} /\ Min(S) \in 1 .. N
      BY <1>4, <3>1, <3>2
    <3> QED BY <1>5, <2>2, <3>3
  <2> QED BY <2>1, <2>2
<1>9. /\ more \in Seq(Entries) /\ N <= Len(more) /\ Len(more) \in Nat
      /\ \A i \in 1 .. N : more[i] = kept[i]
      /\ \A j \in S : j \in 1 .. N /\ Len(more) = N + 1 /\ more[N + 1] = tail(j)
      /\ S = {} => Len(more) = N
      /\ \A j \in S : tail(j) \in Entries
  <2>1. CASE S = {} /\ more = kept
    BY <1>1, <1>7, <2>1
  <2>2. CASE \E j \in 1 .. N : S = {j} /\ more = kept \o <<tail(j)>>
    <3>1. PICK j \in 1 .. N : S = {j} /\ more = kept \o <<tail(j)>>
      BY <2>2
    <3>2. tail(j) \in Entries
      <4>1. end < asinfo[j].end /\ asinfo[j].end <= MemTop /\ asinfo[j].end \in Nat /\ asinfo[j].owner \in Nat
        BY <1>2, <3>1 DEF S
      <4>2. end + 1 \in 0 .. MemTop /\ asinfo[j].end \in 0 .. MemTop
        BY <1>1, <4>1
      <4>3. "sysram" \in AsNames /\ FALSE \in BOOLEAN
        BY DEF AsNames
      <4> QED BY <4>1, <4>2, <4>3, AsEntryIs
    <3> HIDE DEF tail
    <3>3. more \in Seq(Entries) /\ Len(more) = N + 1 /\ more[N + 1] = tail(j)
          /\ \A i \in 1 .. N : more[i] = kept[i]
      BY <1>1, <1>7, <3>1, <3>2
    <3>4. S # {} /\ \A k \in S : k = j
      BY <3>1
    <3>5. N <= Len(more) /\ Len(more) \in Nat
      BY <1>1, <3>3
    <3> QED BY <3>2, <3>3, <3>4, <3>5
  <2> QED BY <1>8, <2>1, <2>2
<1>10. \A i \in 1 .. N : Keeps(asinfo[i], more[i], start, end)
  BY <1>6, <1>9
<1>11. ASSUME NEW i \in 1 .. Len(more), i \notin 1 .. N
       PROVE  \E j \in S : i = N + 1 /\ Len(more) = N + 1 /\ more[i] = tail(j)
  <2>1. S # {}
    BY <1>1, <1>9, <1>11
  <2>2. PICK j \in S : TRUE
    BY <2>1
  <2>3. Len(more) = N + 1 /\ more[N + 1] = tail(j)
    BY <1>9
  <2>4. i = N + 1
    BY <1>1, <1>11, <2>3
  <2> QED BY <2>3, <2>4
<1>12. ASSUME NEW j \in S
       PROVE  /\ tail(j).name = "sysram" /\ tail(j).start = end + 1 /\ tail(j).end = asinfo[j].end
              /\ tail(j).owner = asinfo[j].owner /\ tail(j).cont = FALSE
              /\ AsBytes(tail(j)) = end + 1 .. asinfo[j].end
              /\ j \in 1 .. N /\ asinfo[j].name = "sysram" /\ asinfo[j].start < start /\ end < asinfo[j].end
              /\ AsBytes(tail(j)) \subseteq AsBytes(asinfo[j]) \ (start .. end)
  <2>1. j \in 1 .. N /\ asinfo[j].name = "sysram" /\ asinfo[j].start < start /\ end < asinfo[j].end
    BY DEF S
  <2>2. asinfo[j].start \in Nat /\ asinfo[j].end \in Nat
    BY <1>2, <2>1
  <2>3. end + 1 .. asinfo[j].end \subseteq AsBytes(asinfo[j]) \ (start .. end)
    BY <2>1, <2>2 DEF AsBytes
  <2> QED BY <2>1, <2>3 DEF AsEntry, AsBytes
<1> HIDE DEF tail
<1>13. ASSUME NEW i \in 3 .. Len(more)
       PROVE  /\ more[i].start <= more[i].end
              /\ RamEntry(more, i) \/ InRam(more, i)
              /\ more[i].cont => i < Len(more) /\ more[i + 1].name = more[i].name
  <2>1. CASE i \in 1 .. N
    <3>1. i \in 3 .. N /\ Keeps(asinfo[i], more[i], start, end)
      BY <1>1, <1>10, <2>1
    <3>2. /\ RamEntry(asinfo, i) \/ InRam(asinfo, i)
          /\ asinfo[i].cont => i < N /\ asinfo[i + 1].name = asinfo[i].name
      BY <3>1 DEF Shape
    <3>3. more[i].name = asinfo[i].name /\ more[i].cont = asinfo[i].cont /\ more[i].owner = asinfo[i].owner
          /\ more[i].start <= more[i].end /\ asinfo[i].start <= more[i].start /\ more[i].end <= asinfo[i].end
          /\ (asinfo[i].name # "sysram" => more[i] = asinfo[i])
      BY <3>1 DEF Keeps
    <3>4. asinfo[i].cont => i < Len(more) /\ more[i + 1].name = asinfo[i + 1].name
      <4> SUFFICES ASSUME asinfo[i].cont PROVE i < Len(more) /\ more[i + 1].name = asinfo[i + 1].name
        OBVIOUS
      <4>1. i + 1 \in 1 .. N /\ i < Len(more)
        BY <1>1, <1>9, <3>1, <3>2
      <4> QED BY <1>10, <4>1 DEF Keeps
    <3>5. RamEntry(asinfo, i) => RamEntry(more, i)
      BY <3>3 DEF RamEntry
    <3>6. InRam(asinfo, i) => InRam(more, i)
      <4> SUFFICES ASSUME InRam(asinfo, i) PROVE InRam(more, i)
        OBVIOUS
      <4>1. asinfo[i].owner \in 3 .. i - 1 /\ asinfo[i].owner \in 1 .. N
            /\ asinfo[asinfo[i].owner].name = "ram"
        BY <1>1, <3>1 DEF InRam
      <4>2. more[asinfo[i].owner] = asinfo[asinfo[i].owner]
        BY <1>10, <4>1 DEF Keeps
      <4>3. /\ asinfo[asinfo[i].owner].start \in Nat /\ asinfo[asinfo[i].owner].end \in Nat
            /\ asinfo[i].start \in Nat /\ asinfo[i].end \in Nat
        BY <1>2, <2>1, <4>1
      <4>4. more[i].start \in Nat /\ more[i].end \in Nat
        <5>1. more[i] \in Entries
          BY <3>1 DEF Keeps
        <5> QED BY <1>1, <5>1 DEF Entries
      <4>5. asinfo[asinfo[i].owner].start <= more[i].start /\ more[i].end <= asinfo[asinfo[i].owner].end
        BY <3>3, <4>3, <4>4, SMTT(30) DEF InRam
      <4> QED BY <3>3, <4>1, <4>2, <4>5 DEF InRam
    <3>7. RamEntry(more, i) \/ InRam(more, i)
      BY <3>2, <3>5, <3>6
    <3>8. more[i].cont => i < Len(more) /\ more[i + 1].name = more[i].name
      BY <3>2, <3>3, <3>4, Zenon
    <3> QED BY <3>3, <3>7, <3>8
  <2>2. CASE i \notin 1 .. N
    <3>1. PICK j \in S : i = N + 1 /\ Len(more) = N + 1 /\ more[i] = tail(j)
      BY <1>1, <1>9, <1>11, <2>2
    <3>2. /\ more[i].name = "sysram" /\ more[i].start = end + 1 /\ more[i].end = asinfo[j].end
          /\ more[i].owner = asinfo[j].owner /\ more[i].cont = FALSE
          /\ j \in 1 .. N /\ asinfo[j].name = "sysram" /\ asinfo[j].start < start /\ end < asinfo[j].end
      BY <1>12, <3>1
    <3>3. j # 1 /\ j # 2
      BY <3>2, RootsAre DEF Shape
    <3>4. j \in 3 .. N
      BY <1>1, <3>2, <3>3
    <3>5. InRam(asinfo, j)
      <4>1. RamEntry(asinfo, j) \/ InRam(asinfo, j)
        BY <3>4 DEF Shape
      <4>2. ~RamEntry(asinfo, j)
        BY <3>2 DEF RamEntry
      <4> QED BY <4>1, <4>2
    <3>6. /\ asinfo[j].owner \in 3 .. j - 1 /\ asinfo[j].owner \in 1 .. N
          /\ asinfo[asinfo[j].owner].name = "ram"
          /\ asinfo[asinfo[j].owner].start <= asinfo[j].start
          /\ asinfo[j].end <= asinfo[asinfo[j].owner].end
      BY <1>1, <3>4, <3>5 DEF InRam
    <3>7. more[asinfo[j].owner] = asinfo[asinfo[j].owner]
      BY <1>10, <3>6 DEF Keeps
    <3>8. asinfo[asinfo[j].owner].start \in Nat /\ asinfo[j].start \in Nat
      BY <1>2, <3>2, <3>6
    <3>9. asinfo[asinfo[j].owner].start <= end + 1 /\ asinfo[j].owner \in 3 .. i - 1
      BY <1>1, <3>1, <3>2, <3>6, <3>8
    <3>10. InRam(more, i)
      BY <3>2, <3>6, <3>7, <3>9 DEF InRam
    <3>11. more[i].start <= more[i].end
      BY <1>2, <3>2
    <3> QED BY <3>2, <3>10, <3>11
  <2> QED BY <2>1, <2>2
<1>14. Shape(more)
  <2>1. 1 \in 1 .. N /\ 2 \in 1 .. N /\ Len(more) >= 2
    BY <1>1, <1>9
  <2>2. more[1] = asinfo[1] /\ more[2] = asinfo[2]
    <3>1. asinfo[1].name # "sysram" /\ asinfo[2].name # "sysram"
      BY RootsAre DEF Shape
    <3> QED BY <1>10, <2>1, <3>1 DEF Keeps
  <2>3. asinfo[1] = Roots[1] /\ asinfo[2] = Roots[2]
    BY DEF Shape
  <2> QED BY <1>9, <1>13, <2>1, <2>2, <2>3 DEF Shape
<1>15. \A i \in 1 .. Len(more) : more[i].name = "sysram" =>
        \/ i \in 1 .. N /\ asinfo[i].name = "sysram"
           /\ AsBytes(more[i]) \subseteq AsBytes(asinfo[i]) \ (start .. end)
        \/ i = N + 1 /\ \E j \in S : more[i] = tail(j)
  <2> SUFFICES ASSUME NEW i \in 1 .. Len(more), more[i].name = "sysram", i \in 1 .. N
               PROVE  /\ asinfo[i].name = "sysram"
                      /\ AsBytes(more[i]) \subseteq AsBytes(asinfo[i]) \ (start .. end)
    BY <1>11
  <2> QED BY <1>10 DEF Keeps
<1>16. NamedBytes(more, "sysram") = NamedBytes(asinfo, "sysram") \ (start .. end)
  <2>0. DOMAIN more = 1 .. Len(more)
    BY <1>9
  <2>1. ASSUME NEW b \in NamedBytes(more, "sysram")
        PROVE  b \in NamedBytes(asinfo, "sysram") \ (start .. end)
    <3>1. PICK i \in 1 .. Len(more) : more[i].name = "sysram" /\ b \in AsBytes(more[i])
      BY <2>0, <2>1, NamedIs
    <3>2. \E j \in 1 .. N : asinfo[j].name = "sysram" /\ b \in AsBytes(asinfo[j]) \ (start .. end)
      BY <1>12, <1>15, <3>1
    <3> QED BY <1>1, <3>2, NamedIs
  <2>2. ASSUME NEW b \in NamedBytes(asinfo, "sysram"), b \notin start .. end
        PROVE  b \in NamedBytes(more, "sysram")
    <3>1. PICK i \in 1 .. N : asinfo[i].name = "sysram" /\ b \in AsBytes(asinfo[i])
      BY <1>1, <2>2, NamedIs
    <3>2. /\ more[i].name = "sysram"
          /\ \/ b \in AsBytes(more[i])
             \/ asinfo[i].start < start /\ end < asinfo[i].end /\ b \in end + 1 .. asinfo[i].end
      BY <1>10, <2>2, <3>1 DEF Keeps
    <3>3. CASE b \in AsBytes(more[i])
      <4>1. i \in 1 .. Len(more)
        BY <1>1, <1>9
      <4> QED BY <2>0, <3>2, <3>3, <4>1, NamedIs
    <3>4. CASE asinfo[i].start < start /\ end < asinfo[i].end /\ b \in end + 1 .. asinfo[i].end
      <4>1. i \in S
        BY <3>1, <3>4 DEF S
      <4>2. Len(more) = N + 1 /\ more[N + 1] = tail(i) /\ N + 1 \in 1 .. Len(more)
        BY <1>1, <1>9, <4>1
      <4>3. more[N + 1].name = "sysram" /\ b \in AsBytes(more[N + 1])
        BY <1>12, <3>4, <4>1, <4>2
      <4> QED BY <2>0, <4>2, <4>3, NamedIs
    <3> QED BY <3>2, <3>3, <3>4
  <2> QED BY <2>1, <2>2
<1>17. Apart(more, "sysram")
  <2> SUFFICES ASSUME NEW i \in 1 .. Len(more), NEW k \in 1 .. Len(more),
                      more[i].name = "sysram", more[k].name = "sysram", i # k
               PROVE  AsBytes(more[i]) \cap AsBytes(more[k]) = {}
    BY DEF Apart
  \* A part of an old entry and the split-off part of one.
  <2>1. ASSUME NEW m \in 1 .. N, more[m].name = "sysram", NEW j \in S
        PROVE  AsBytes(more[m]) \cap AsBytes(tail(j)) = {}
    <3>0. m \in 1 .. Len(more) /\ m # N + 1
      BY <1>1, <1>9
    <3>1. asinfo[m].name = "sysram" /\ AsBytes(more[m]) \subseteq AsBytes(asinfo[m])
      BY <1>15, <2>1, <3>0
    <3>2. j \in 1 .. N /\ asinfo[j].name = "sysram" /\ AsBytes(tail(j)) \subseteq AsBytes(asinfo[j])
          /\ AsBytes(tail(j)) = end + 1 .. asinfo[j].end /\ asinfo[j].start < start
      BY <1>12
    <3>3. CASE m # j
      <4>1. AsBytes(asinfo[m]) \cap AsBytes(asinfo[j]) = {}
        BY <3>1, <3>2, <3>3 DEF Apart
      <4> QED BY <3>1, <3>2, <4>1
    <3>4. CASE m = j
      <4>1. more[m] = [asinfo[m] EXCEPT !.end = start - 1]
        <5>1. m \in TrimmedSysram(start, end)
          BY <1>3, <3>4 DEF S
        <5>2. ~(start <= asinfo[m].start)
          BY <1>2, <3>2, <3>4
        <5>3. more[m] = TrimmedEntry(m, start, end)
          BY <1>9 DEF kept
        <5> QED BY <5>1, <5>2, <5>3 DEF TrimmedEntry
      <4>2. asinfo[m] \in Entries
        BY EntryIs
      <4>3. more[m].end = start - 1 /\ more[m].start = asinfo[m].start
        BY <4>1, <4>2 DEF Entries
      <4>4. AsBytes(more[m]) = asinfo[m].start .. start - 1
        BY <4>3 DEF AsBytes
      <4>5. asinfo[m].start \in Nat /\ asinfo[j].end \in Nat
        BY <1>2, <3>2
      <4>6. (asinfo[m].start .. start - 1) \cap (end + 1 .. asinfo[j].end) = {}
        BY <4>5
      <4> QED BY <3>2, <4>4, <4>6
    <3> QED BY <3>3, <3>4
  <2>2. CASE i \in 1 .. N /\ k \in 1 .. N
    <3>1. i # N + 1 /\ k # N + 1
      BY <1>1, <2>2
    <3> QED BY <1>15, <2>2, <3>1 DEF Apart
  <2>3. CASE i \in 1 .. N /\ k \notin 1 .. N
    BY <1>11, <2>1, <2>3
  <2>4. CASE i \notin 1 .. N /\ k \in 1 .. N
    <3>1. PICK j \in S : more[i] = tail(j)
      BY <1>11, <2>4
    <3>2. AsBytes(more[k]) \cap AsBytes(tail(j)) = {}
      BY <2>1, <2>4
    <3> QED BY <3>1, <3>2
  <2>5. CASE i \notin 1 .. N /\ k \notin 1 .. N
    BY <1>11, <2>5
  <2> QED BY <2>2, <2>3, <2>4, <2>5
<1>18. \A i \in N + 1 .. Len(more) : more[i].name = "sysram"
  <2> SUFFICES ASSUME NEW i \in N + 1 .. Len(more) PROVE more[i].name = "sysram"
    OBVIOUS
  <2>1. i \in 1 .. Len(more) /\ i \notin 1 .. N
    BY <1>1, <1>9
  <2> QED BY <1>11, <1>12, <2>1
<1> QED BY <1>9, <1>10, <1>14, <1>16, <1>17, <1>18 DEF more

-----------------------------------------------------------------------------
(* The invariant of the table.                                             *)

\* What the entries that lie in RAM stand for.
Taken(T) ==
    \A i \in 3 .. Len(T) : T[i].name \in {"reserved", "sp2mmu"} => AsBytes(T[i]) \subseteq held

AInv ==
    /\ IF added = 0 THEN asinfo = <<>> ELSE Shape(asinfo)
    /\ NamedBytes(asinfo, "ram") = Bytes(BanksUpTo(added)) /\ Apart(asinfo, "ram")
    /\ Taken(asinfo)
    /\ phase \in {"raminfo", "options"} => \A i \in 3 .. Len(asinfo) : asinfo[i].name = "ram"
    /\ phase \notin {"sysram", "crashed"} => \A i \in 3 .. Len(asinfo) : asinfo[i].name # "sysram"
    /\ SysramAdded => NamedBytes(asinfo, "sysram") = FreeBytes /\ Apart(asinfo, "sysram")

LEMMA ShapeNow == ASSUME IInv, AInv, phase \notin {"raminfo", "crashed"} PROVE Shape(asinfo) /\ added \in Nat
<1>1. added >= BoardBanks /\ BoardBanks \in Nat \ {0} /\ added \in Nat
  BY RamAssumption DEF IInv, TypeOK
<1>2. added # 0
  BY <1>1
<1> QED BY <1>1, <1>2 DEF AInv

\* A step that leaves the table alone.
LEMMA SameTable ==
    ASSUME AInv, UNCHANGED <<asinfo, added>>, held \subseteq held',
           phase' # "sysram",
           phase' \in {"raminfo", "options"} => phase \in {"raminfo", "options"},
           phase' # "crashed" => phase \notin {"sysram", "crashed"}
    PROVE  AInv'
BY DEF AInv, Taken, SysramAdded

\* A range of free memory meets no entry that lies in RAM.
LEMMA FreeIsClear ==
    ASSUME IInv, NEW T, Shape(T), NamedBytes(T, "ram") = Bytes(BanksUpTo(added)), Taken(T),
           NEW start \in Nat, NEW end \in Nat, start <= end, start .. end \subseteq FreeBytes,
           NamedBytes(T, "sysram") \cap (start .. end) = {}
    PROVE  /\ ClearOf(T, start, end)
           /\ \A b \in start .. end : \E i \in 1 .. Len(T) : T[i].name = "ram" /\ b \in AsBytes(T[i])
<1>1. Len(T) \in Nat /\ DOMAIN T = 1 .. Len(T)
  BY ShapeDomain
<1>2. ASSUME NEW i \in 3 .. Len(T), T[i].name # "ram" PROVE ~Meets(T[i], start, end)
  <2>1. T[i].name \in {"reserved", "sp2mmu", "sysram"} /\ i \in 1 .. Len(T)
    BY <1>1, <1>2 DEF Shape, RamEntry, InRam
  <2>2. AsBytes(T[i]) \cap (start .. end) = {}
    <3>1. CASE T[i].name = "sysram"
      BY <1>1, <2>1, <3>1, NamedIs
    <3>2. CASE T[i].name # "sysram"
      BY <2>1, <3>2 DEF Taken, IInv, HeldNotFree
    <3> QED BY <3>1, <3>2
  <2> QED BY <2>1, <2>2, MeetsByte
<1>3. start .. end \subseteq NamedBytes(T, "ram")
  BY DEF IInv
<1> QED BY <1>1, <1>2, <1>3, NamedIs DEF ClearOf

\* What an entry under "ram" adds.
LEMMA AddKeeps ==
    ASSUME IInv, NEW T, Shape(T), Apart(T, "ram"), NamedBytes(T, "ram") = Bytes(BanksUpTo(added)),
           Taken(T), NEW start \in Nat, NEW end \in Nat, start <= end, start .. end \subseteq FreeBytes,
           NamedBytes(T, "sysram") \cap (start .. end) = {},
           NEW name \in {"reserved", "sp2mmu", "sysram"}
    PROVE  LET more == as_add_containing(T, start, end, name, "ram") IN
           /\ Divided(T, more, name, start, end) /\ Shape(more)
           /\ NamedBytes(more, "ram") = Bytes(BanksUpTo(added)) /\ Apart(more, "ram")
           /\ \A i \in 3 .. Len(more) : \/ i \in 3 .. Len(T) /\ more[i] = T[i]
                                        \/ more[i].name = name /\ AsBytes(more[i]) \subseteq start .. end
<1> DEFINE more == as_add_containing(T, start, end, name, "ram")
<1> HIDE DEF more
<1>1. Divided(T, more, name, start, end)
  BY FreeIsClear, AddInRam DEF more
<1>2. Shape(more) /\ Len(T) \in Nat /\ Len(more) \in Nat
  BY <1>1, ShapeDomain DEF Divided
<1>3. NamedBytes(more, "ram") = Bytes(BanksUpTo(added)) /\ Apart(more, "ram")
  <2>1. "ram" # name
    OBVIOUS
  <2> QED BY <1>1, <2>1, DividedBytes
<1>4. ASSUME NEW i \in 3 .. Len(more)
      PROVE  \/ i \in 3 .. Len(T) /\ more[i] = T[i]
             \/ more[i].name = name /\ AsBytes(more[i]) \subseteq start .. end
  <2>1. CASE i \in Len(T) + 1 .. Len(more)
    BY <1>1, <2>1 DEF Divided
  <2>2. CASE i \notin Len(T) + 1 .. Len(more)
    <3>1. i \in 3 .. Len(T) /\ i \in 1 .. Len(T)
      BY <1>2, <2>2
    <3> QED BY <1>1, <3>1 DEF Divided
  <2> QED BY <2>1, <2>2
<1> QED BY <1>1, <1>2, <1>3, <1>4 DEF more

\* reserve_ram() and init_mitigation_mem(): what was free is held, and has its
\* entries.
LEMMA AddHeld ==
    ASSUME IInv, AInv, phase \in {"options", "reserve"}, NEW addr \in Nat, NEW size \in Nat \ {0},
           BytesOf(Span(addr, size)) \subseteq FreeBytes, NEW name \in {"reserved", "sp2mmu"},
           asinfo' = as_add_containing(asinfo, addr, addr + size - 1, name, "ram"),
           held' = held \union BytesOf(Span(addr, size)), phase' \in {"reserve", "mitigated"},
           added' = added
    PROVE  AInv'
<1> DEFINE end == addr + size - 1
<1>1. end \in Nat /\ addr <= end /\ BytesOf(Span(addr, size)) = addr .. end
  BY DEF BytesOf, Span
<1> HIDE DEF end
<1>2. Shape(asinfo) /\ added \in Nat
  BY ShapeNow
<1>3. Len(asinfo) \in Nat /\ DOMAIN asinfo = 1 .. Len(asinfo)
  BY <1>2, ShapeDomain
<1>4. NamedBytes(asinfo, "sysram") = {}
  <2> SUFFICES ASSUME NEW b \in NamedBytes(asinfo, "sysram") PROVE FALSE
    OBVIOUS
  <2>1. PICK i \in 1 .. Len(asinfo) : asinfo[i].name = "sysram"
    BY <1>3, NamedIs
  <2>2. i # 1 /\ i # 2
    BY <1>2, <2>1, RootsAre DEF Shape
  <2>3. i \in 3 .. Len(asinfo)
    BY <1>3, <2>2
  <2> QED BY <2>1, <2>3 DEF AInv
<1>5. /\ Shape(asinfo')
      /\ NamedBytes(asinfo', "ram") = Bytes(BanksUpTo(added)) /\ Apart(asinfo', "ram")
      /\ \A i \in 3 .. Len(asinfo') :
            \/ i \in 3 .. Len(asinfo) /\ asinfo'[i] = asinfo[i]
            \/ asinfo'[i].name = name /\ AsBytes(asinfo'[i]) \subseteq addr .. end
  <2>1. /\ NamedBytes(asinfo, "ram") = Bytes(BanksUpTo(added)) /\ Apart(asinfo, "ram") /\ Taken(asinfo)
        /\ addr .. end \subseteq FreeBytes /\ NamedBytes(asinfo, "sysram") \cap (addr .. end) = {}
    BY <1>1, <1>4 DEF AInv
  <2>2. name \in {"reserved", "sp2mmu", "sysram"}
    OBVIOUS
  <2>3. asinfo' = as_add_containing(asinfo, addr, end, name, "ram")
    BY DEF end
  <2> QED BY <1>1, <1>2, <2>1, <2>2, <2>3, AddKeeps
<1>6. Taken(asinfo)' /\ \A i \in 3 .. Len(asinfo') : asinfo'[i].name # "sysram"
  <2> SUFFICES ASSUME NEW i \in 3 .. Len(asinfo')
               PROVE  /\ asinfo'[i].name \in {"reserved", "sp2mmu"} => AsBytes(asinfo'[i]) \subseteq held'
                      /\ asinfo'[i].name # "sysram"
    BY DEF Taken
  <2>1. CASE i \in 3 .. Len(asinfo) /\ asinfo'[i] = asinfo[i]
    <3>1. asinfo[i].name # "sysram"
      BY <2>1 DEF AInv
    <3>2. asinfo[i].name \in {"reserved", "sp2mmu"} => AsBytes(asinfo[i]) \subseteq held
      BY <2>1 DEF AInv, Taken
    <3> QED BY <2>1, <3>1, <3>2
  <2>2. CASE asinfo'[i].name = name /\ AsBytes(asinfo'[i]) \subseteq addr .. end
    BY <1>1, <2>2
  <2> QED BY <1>5, <2>1, <2>2
<1>7. added # 0
  BY RamAssumption DEF IInv, TypeOK
<1> QED BY <1>2, <1>5, <1>6, <1>7 DEF AInv, SysramAdded

LEMMA RootsShape ==
    Shape(Roots) /\ NamedBytes(Roots, "ram") = {} /\ Apart(Roots, "ram") /\ Roots # <<>>
<1>1. Roots \in Seq(Entries) /\ Len(Roots) = 2 /\ DOMAIN Roots = 1 .. Len(Roots)
      /\ Roots[1].name # "ram" /\ Roots[2].name # "ram"
  BY RootsAre
<1>2. \A i \in 1 .. Len(Roots) : i = 1 \/ i = 2
  BY <1>1
<1>3. \A i \in 3 .. Len(Roots) : FALSE
  BY <1>1
<1>4. Shape(Roots) /\ Roots # <<>>
  BY <1>1, <1>3 DEF Shape
<1>5. \A i \in 1 .. Len(Roots) : Roots[i].name # "ram"
  BY <1>1, <1>2
<1> QED BY <1>1, <1>4, <1>5, NamedIs DEF Apart

\* add_ram(): the bank joins the "ram" entries.
LEMMA BankJoins == ASSUME IInv, AInv, AddRam PROVE AInv'
<1>1. CASE Crash
  BY <1>1, SameTable DEF Crash
<1>2. CASE ~Crash
  <2> DEFINE bank == Banks[added + 1]
             T == IF asinfo # <<>> THEN asinfo ELSE Roots
             end == bank.end - 1
  <2>1. /\ added < Len(Banks) /\ phase = IF added < BoardBanks THEN "raminfo" ELSE "options"
        /\ asinfo' = as_add_containing(T, bank.start, end, "ram", "memory")
        /\ held \subseteq held' /\ added' = added + 1 /\ phase' = phase
    BY <1>2 DEF AddRam, Roots
  <2>2. added \in 0 .. Len(Banks) /\ added \in Nat /\ added + 1 \in 1 .. Len(Banks) /\ Len(Banks) \in Nat
    <3>1. added \in 0 .. Len(Banks) /\ Len(Banks) \in Nat
      BY RamAssumption DEF IInv, TypeOK
    <3> QED BY <2>1, <3>1
  <2>3. bank \in Ranges /\ bank.start < bank.end /\ bank.end <= MemTop + 1 /\ MemTop \in Nat
    BY <2>2, BankIs
  <2>4. /\ Bytes(BanksUpTo(added + 1)) = Bytes(BanksUpTo(added)) \union BytesOf(bank)
        /\ Bytes(BanksUpTo(added)) \intersect BytesOf(bank) = {}
    BY <2>1, <2>2, BankKnown
  <2>5. bank.start \in Nat /\ end \in Nat /\ bank.start <= end /\ end <= MemTop
        /\ BytesOf(bank) = bank.start .. end
    BY <2>3 DEF Ranges, BytesOf
  <2> HIDE DEF end
  <2>6. /\ Shape(T) /\ NamedBytes(T, "ram") = Bytes(BanksUpTo(added)) /\ Apart(T, "ram")
        /\ \A i \in 3 .. Len(T) : T[i].name = "ram"
    <3>1. CASE added = 0
      <4>1. T = Roots
        BY <3>1 DEF AInv
      <4>2. Bytes(BanksUpTo(added)) = {}
        BY <3>1 DEF Bytes, BanksUpTo
      <4>3. \A i \in 3 .. Len(Roots) : FALSE
        BY RootsAre
      <4> QED BY <4>1, <4>2, <4>3, RootsShape
    <3>2. CASE added # 0
      <4>1. Shape(asinfo)
        BY <3>2 DEF AInv
      <4>2. asinfo # <<>>
        BY <4>1 DEF Shape
      <4>3. \A i \in 3 .. Len(asinfo) : asinfo[i].name = "ram"
        BY <2>1 DEF AInv
      <4> QED BY <4>1, <4>2, <4>3 DEF AInv
    <3> QED BY <3>1, <3>2
  <2> HIDE DEF T, bank
  <2>7. Len(T) \in Nat /\ DOMAIN T = 1 .. Len(T)
    BY <2>6, ShapeDomain
  <2>8. \A i \in 3 .. Len(T) : ~Meets(T[i], bank.start, end)
    <3> SUFFICES ASSUME NEW i \in 3 .. Len(T), Meets(T[i], bank.start, end) PROVE FALSE
      OBVIOUS
    <3>1. i \in 1 .. Len(T) /\ T[i].name = "ram"
      BY <2>6, <2>7
    <3>2. PICK b \in bank.start .. end : b \in AsBytes(T[i])
      BY <2>5, <2>6, <3>1, MeetsByte
    <3>3. b \in NamedBytes(T, "ram")
      BY <2>7, <3>1, <3>2, NamedIs
    <3> QED BY <2>4, <2>5, <2>6, <3>2, <3>3
  <2>9. Divided(T, asinfo', "ram", bank.start, end)
    BY <2>1, <2>5, <2>6, <2>8, AddBank
  <2>10. NamedBytes(asinfo', "ram") = Bytes(BanksUpTo(added')) /\ Apart(asinfo', "ram")
    <3>1. NamedBytes(T, "ram") \cap (bank.start .. end) = {}
      BY <2>4, <2>5, <2>6
    <3>2. /\ NamedBytes(asinfo', "ram") = NamedBytes(T, "ram") \union bank.start .. end
          /\ Apart(T, "ram") /\ NamedBytes(T, "ram") \cap (bank.start .. end) = {} => Apart(asinfo', "ram")
      BY <2>5, <2>6, <2>9, DividedBytes
    <3>3. added' = added + 1 /\ BytesOf(bank) = bank.start .. end
      BY <2>1, <2>5
    <3> QED BY <2>4, <2>6, <3>1, <3>2, <3>3
  <2>11. Shape(asinfo') /\ Len(asinfo') \in Nat
    BY <2>9, ShapeDomain DEF Divided
  <2>12. \A i \in 3 .. Len(asinfo') : asinfo'[i].name = "ram"
    <3> SUFFICES ASSUME NEW i \in 3 .. Len(asinfo') PROVE asinfo'[i].name = "ram"
      OBVIOUS
    <3>1. CASE i \in Len(T) + 1 .. Len(asinfo')
      BY <2>9, <3>1 DEF Divided
    <3>2. CASE i \notin Len(T) + 1 .. Len(asinfo')
      <4>1. i \in 3 .. Len(T) /\ i \in 1 .. Len(T)
        BY <2>7, <2>11, <3>2
      <4> QED BY <2>6, <2>9, <4>1 DEF Divided
    <3> QED BY <3>1, <3>2
  <2>13. Taken(asinfo)'
    BY <2>12 DEF Taken
  <2>14. added' # 0 /\ phase' \in {"raminfo", "options"}
    BY <2>1, <2>2
  <2> QED BY <2>10, <2>11, <2>12, <2>13, <2>14 DEF AInv, SysramAdded
<1> QED BY <1>1, <1>2

\* alloc_ram() with the sysram entries there.
LEMMA TrimStep ==
    ASSUME IInv, AInv, SysramAdded, NEW addr \in Nat, NEW size \in Nat \ {0},
           ~TrimCrashes(addr, addr + size - 1), asinfo' = Trim(addr, addr + size - 1),
           ramList' = Cut(ramList, Span(addr, size)), held \subseteq held',
           phase' = phase, added' = added
    PROVE  AInv'
<1> DEFINE end == addr + size - 1
           N == Len(asinfo)
<1>1. end \in Nat /\ addr <= end /\ BytesOf(Span(addr, size)) = addr .. end
      /\ Span(addr, size) \in Ranges /\ Span(addr, size).start <= Span(addr, size).end
  BY DEF BytesOf, Span, Ranges
<1>2. ~TrimCrashes(addr, end) /\ asinfo' = Trim(addr, end)
  OBVIOUS
<1> HIDE DEF end
<1>3. phase = "sysram"
  BY DEF SysramAdded
<1>4. Shape(asinfo) /\ added \in Nat
  BY <1>3, ShapeNow
<1>5. NamedBytes(asinfo, "sysram") = FreeBytes /\ Apart(asinfo, "sysram")
  BY DEF AInv
<1>6. /\ Shape(asinfo') /\ N <= Len(asinfo')
      /\ \A i \in 1 .. N : Keeps(asinfo[i], asinfo'[i], addr, end)
      /\ \A i \in N + 1 .. Len(asinfo') : asinfo'[i].name = "sysram"
      /\ NamedBytes(asinfo', "sysram") = NamedBytes(asinfo, "sysram") \ (addr .. end)
      /\ Apart(asinfo', "sysram")
  BY <1>1, <1>2, <1>4, <1>5, TrimKeeps
<1>7. FreeBytes' = FreeBytes \ (addr .. end)
  BY <1>1, CutBytes DEF IInv, FreeBytes
<1>8. N \in Nat /\ DOMAIN asinfo = 1 .. N /\ Len(asinfo') \in Nat /\ DOMAIN asinfo' = 1 .. Len(asinfo')
  BY <1>4, <1>6, ShapeDomain
<1>9. ASSUME NEW i \in 1 .. Len(asinfo'), asinfo'[i].name # "sysram"
      PROVE  i \in 1 .. N /\ asinfo'[i] = asinfo[i]
  <2>1. i \in 1 .. N
    BY <1>6, <1>8, <1>9
  <2> QED BY <1>6, <1>9, <2>1 DEF Keeps
<1>10. ASSUME NEW i \in 1 .. N, asinfo[i].name # "sysram"
       PROVE  i \in 1 .. Len(asinfo') /\ asinfo'[i] = asinfo[i]
  BY <1>6, <1>8, <1>10 DEF Keeps
<1>11. NamedBytes(asinfo', "ram") = NamedBytes(asinfo, "ram")
  <2>1. ASSUME NEW b PROVE b \in NamedBytes(asinfo', "ram") <=> b \in NamedBytes(asinfo, "ram")
    <3>1. (\E i \in 1 .. Len(asinfo') : asinfo'[i].name = "ram" /\ b \in AsBytes(asinfo'[i]))
              <=> \E i \in 1 .. N : asinfo[i].name = "ram" /\ b \in AsBytes(asinfo[i])
      BY <1>9, <1>10
    <3> QED BY <1>8, <3>1, NamedIs
  <2> QED BY <2>1
<1>12. Apart(asinfo', "ram")
  <2>1. Apart(asinfo, "ram")
    BY DEF AInv
  <2>2. ASSUME NEW i \in 1 .. Len(asinfo'), NEW j \in 1 .. Len(asinfo'), i # j,
               asinfo'[i].name = "ram", asinfo'[j].name = "ram"
        PROVE  AsBytes(asinfo'[i]) \cap AsBytes(asinfo'[j]) = {}
    <3>1. /\ i \in 1 .. N /\ asinfo'[i] = asinfo[i]
          /\ j \in 1 .. N /\ asinfo'[j] = asinfo[j]
      BY <1>9, <2>2
    <3>2. AsBytes(asinfo[i]) \cap AsBytes(asinfo[j]) = {}
      BY <2>1, <2>2, <3>1 DEF Apart
    <3> QED BY <3>1, <3>2
  <2> QED BY <2>2 DEF Apart
<1>13. Taken(asinfo)'
  <2> SUFFICES ASSUME NEW i \in 3 .. Len(asinfo'), asinfo'[i].name \in {"reserved", "sp2mmu"}
               PROVE  AsBytes(asinfo'[i]) \subseteq held'
    BY DEF Taken
  <2>1. i \in 1 .. Len(asinfo') /\ asinfo'[i].name # "sysram"
    BY <1>8
  <2>2. i \in 3 .. N /\ asinfo'[i] = asinfo[i]
    BY <1>8, <1>9, <2>1
  <2> QED BY <2>2 DEF AInv, Taken
<1>14. added # 0
  BY <1>3, RamAssumption DEF IInv, TypeOK
<1> QED BY <1>3, <1>4, <1>5, <1>6, <1>7, <1>11, <1>12, <1>13, <1>14 DEF AInv, SysramAdded

-----------------------------------------------------------------------------
(* add_sysram() walks the list.                                            *)

After(it) ==
    LET r == Lowest(it.left)
    IN  [table |-> as_add_containing(it.table, r.start, r.end - 1, "sysram", "ram"),
         left |-> it.left \ {r}]

IsWalk(at, n) ==
    at = [k \in 0 .. n |-> IF k = 0 THEN [table |-> asinfo, left |-> ramList] ELSE After(at[k - 1])]

LEMMA WalkExists == ASSUME NEW N \in Nat PROVE \E at : IsWalk(at, N)
<1> DEFINE Bad == {n \in Nat : ~ \E at : IsWalk(at, n)}
<1> SUFFICES ASSUME Bad # {} PROVE FALSE
  OBVIOUS
<1>1. PICK n \in Bad : \A m \in Bad : n <= m
  BY LeastNat
<1>2. n \in Nat /\ ~ \E at : IsWalk(at, n)
  OBVIOUS
<1>3. n # 0
  <2>1. IsWalk([m \in 0 .. 0 |-> [table |-> asinfo, left |-> ramList]], 0)
    BY DEF IsWalk
  <2> QED BY <1>2, <2>1
<1>4. n - 1 \in Nat /\ n - 1 \notin Bad
  BY <1>1, <1>2, <1>3
<1>5. PICK at : IsWalk(at, n - 1)
  BY <1>4
<1> DEFINE last == After(at[n - 1])
           more == [m \in 0 .. n |-> IF m = n THEN last ELSE at[m]]
<1> HIDE DEF last
<1>6. \A m \in 0 .. n : more[m] = IF m = n THEN last ELSE at[m]
  OBVIOUS
<1>7. ASSUME NEW m \in 0 .. n
      PROVE  more[m] = IF m = 0 THEN [table |-> asinfo, left |-> ramList] ELSE After(more[m - 1])
  <2>1. CASE m = n
    <3>1. n - 1 \in 0 .. n /\ n \in 0 .. n /\ n - 1 # n
      BY <1>2, <1>3
    <3>2. more[n] = last /\ more[n - 1] = at[n - 1]
      BY <1>6, <3>1
    <3> QED BY <1>3, <2>1, <3>2 DEF last
  <2>2. CASE m # n
    <3>1. m \in 0 .. n - 1
      BY <1>2, <2>2
    <3>2. at[m] = IF m = 0 THEN [table |-> asinfo, left |-> ramList] ELSE After(at[m - 1])
      BY <1>5, <3>1 DEF IsWalk
    <3>3. m # 0 => m - 1 \in 0 .. n /\ m - 1 # n
      BY <1>2, <3>1
    <3>4. more[m] = at[m] /\ (m # 0 => more[m - 1] = at[m - 1])
      BY <1>6, <2>2, <3>3
    <3> QED BY <3>2, <3>4
  <2> QED BY <2>1, <2>2
<1>8. more = [m \in 0 .. n |-> more[m]]
  OBVIOUS
<1> HIDE DEF more
<1>9. IsWalk(more, n)
  BY <1>7, <1>8 DEF IsWalk
<1> QED BY <1>2, <1>9

LEMMA SysramWalk ==
    ASSUME NEW N \in Nat
    PROVE  \E at : IsWalk(at, N) /\ SysramAfter(N) = at[N].table
<1>1. \E at : IsWalk(at, N)
  BY WalkExists
<1> DEFINE it == CHOOSE at : IsWalk(at, N)
<1>2. IsWalk(it, N)
  BY <1>1
<1>3. SysramAfter(N) = it[N].table
  BY DEF SysramAfter, IsWalk, After
<1> HIDE DEF it
<1> QED BY <1>2, <1>3

\* What the walk has done when it has come so far.
Walked(it) ==
    /\ it.left \subseteq ramList
    /\ Shape(it.table) /\ NamedBytes(it.table, "ram") = Bytes(BanksUpTo(added))
    /\ Apart(it.table, "ram") /\ Taken(it.table)
    /\ NamedBytes(it.table, "sysram") = Bytes(ramList \ it.left) /\ Apart(it.table, "sysram")

LEMMA WalkStep ==
    ASSUME IInv, NEW it, Walked(it), it.left # {}
    PROVE  Walked(After(it)) /\ \E r \in it.left : After(it).left = it.left \ {r}
<1> DEFINE r == Lowest(it.left)
           T == it.table
           end == r.end - 1
<1>1. r \in it.left /\ r \in ramList
  BY LowestOf DEF Walked, IInv, Canon
<1>2. r \in Ranges /\ r.start < r.end
  BY <1>1 DEF IInv, Canon
<1>3. r.start \in Nat /\ end \in Nat /\ r.start <= end /\ BytesOf(r) = r.start .. end
  BY <1>2 DEF Ranges, BytesOf
<1>4. After(it).table = as_add_containing(T, r.start, end, "sysram", "ram")
      /\ After(it).left = it.left \ {r}
  BY DEF After
<1> HIDE DEF r, T, end
<1>5. r.start .. end \subseteq FreeBytes
  BY <1>1, <1>3 DEF FreeBytes, Bytes
<1>6. Bytes(ramList \ it.left) \cap (r.start .. end) = {}
  <2> SUFFICES ASSUME NEW q \in ramList, q \notin it.left PROVE BytesOf(q) \cap BytesOf(r) = {}
    BY <1>3 DEF Bytes
  <2>1. q # r /\ q \in Ranges /\ (r.end < q.start \/ q.end < r.start)
    BY <1>1 DEF IInv, Canon
  <2> QED BY <1>2, <2>1 DEF BytesOf, Ranges
<1>7. Bytes(ramList \ After(it).left) = Bytes(ramList \ it.left) \union (r.start .. end)
  <2>1. ramList \ After(it).left = (ramList \ it.left) \union {r}
    BY <1>1, <1>4
  <2> QED BY <1>3, <2>1 DEF Bytes
<1>8. /\ Shape(T) /\ NamedBytes(T, "ram") = Bytes(BanksUpTo(added)) /\ Apart(T, "ram") /\ Taken(T)
      /\ NamedBytes(T, "sysram") = Bytes(ramList \ it.left) /\ Apart(T, "sysram")
  BY DEF Walked, T
<1> DEFINE more == After(it).table
<1>9. /\ Divided(T, more, "sysram", r.start, end) /\ Shape(more)
      /\ NamedBytes(more, "ram") = Bytes(BanksUpTo(added)) /\ Apart(more, "ram")
      /\ \A i \in 3 .. Len(more) : \/ i \in 3 .. Len(T) /\ more[i] = T[i]
                                   \/ more[i].name = "sysram" /\ AsBytes(more[i]) \subseteq r.start .. end
  <2>1. NamedBytes(T, "sysram") \cap (r.start .. end) = {} /\ "sysram" \in {"reserved", "sp2mmu", "sysram"}
    BY <1>6, <1>8
  <2> QED BY <1>3, <1>4, <1>5, <1>8, <2>1, AddKeeps
<1> HIDE DEF more
<1>10. NamedBytes(more, "sysram") = Bytes(ramList \ After(it).left) /\ Apart(more, "sysram")
  <2>1. /\ NamedBytes(more, "sysram") = NamedBytes(T, "sysram") \union r.start .. end
        /\ Apart(T, "sysram") /\ NamedBytes(T, "sysram") \cap (r.start .. end) = {} => Apart(more, "sysram")
    BY <1>3, <1>8, <1>9, DividedBytes
  <2> QED BY <1>6, <1>7, <1>8, <2>1
<1>11. Taken(more)
  BY <1>8, <1>9 DEF Taken
<1>12. After(it).left \subseteq ramList
  BY <1>4 DEF Walked
<1>13. Walked(After(it))
  BY <1>9, <1>10, <1>11, <1>12 DEF Walked, more
<1> QED BY <1>1, <1>4, <1>13

LEMMA SysramJoins == ASSUME IInv, AInv, add_sysram PROVE AInv'
<1> DEFINE N == Cardinality(ramList)
<1>1. /\ phase \in {"options", "reserve", "mitigated"} /\ asinfo' = SysramAfter(N) /\ phase' = "sysram"
      /\ UNCHANGED <<ramList, added, held>>
  BY DEF add_sysram
<1>2. IsFiniteSet(ramList) /\ N \in Nat
  BY FS_CardinalityType DEF IInv, TypeOK
<1>3. Shape(asinfo) /\ added \in Nat
  BY <1>1, ShapeNow
<1>4. Len(asinfo) \in Nat /\ DOMAIN asinfo = 1 .. Len(asinfo)
  BY <1>3, ShapeDomain
<1>5. \A i \in 1 .. Len(asinfo) : asinfo[i].name # "sysram"
  <2> SUFFICES ASSUME NEW i \in 1 .. Len(asinfo), asinfo[i].name = "sysram" PROVE FALSE
    OBVIOUS
  <2>1. i # 1 /\ i # 2
    BY <1>3, RootsAre DEF Shape
  <2>2. i \in 3 .. Len(asinfo)
    BY <1>4, <2>1
  <2> QED BY <1>1, <2>2 DEF AInv
<1>6. PICK at : IsWalk(at, N) /\ SysramAfter(N) = at[N].table
  BY <1>2, SysramWalk
<1> HIDE DEF N
<1>7. \A k \in 0 .. N : at[k] = IF k = 0 THEN [table |-> asinfo, left |-> ramList] ELSE After(at[k - 1])
  BY <1>6 DEF IsWalk
<1> DEFINE Good(k) == Walked(at[k]) /\ IsFiniteSet(at[k].left) /\ Cardinality(at[k].left) = N - k
<1>8. Good(0)
  <2>1. at[0].table = asinfo /\ at[0].left = ramList
    BY <1>2, <1>7
  <2>2. NamedBytes(asinfo, "sysram") = {} /\ Apart(asinfo, "sysram")
    BY <1>4, <1>5, NamedIs DEF Apart
  <2>3. Bytes(ramList \ at[0].left) = {}
    BY <2>1 DEF Bytes
  <2>4. Walked(at[0])
    BY <1>3, <2>1, <2>2, <2>3 DEF AInv, Walked
  <2> QED BY <1>2, <2>1, <2>4 DEF N
<1>9. ASSUME NEW k \in 1 .. N, Good(k - 1) PROVE Good(k)
  <2>1. k - 1 \in 0 .. N /\ at[k] = After(at[k - 1])
    BY <1>2, <1>7
  <2>2. at[k - 1].left # {}
    <3>1. N - (k - 1) # 0
      BY <1>2
    <3> QED BY <1>9, <3>1, FS_EmptySet
  <2>3. Walked(at[k]) /\ \E r \in at[k - 1].left : at[k].left = at[k - 1].left \ {r}
    BY <1>9, <2>1, <2>2, WalkStep
  <2>4. PICK r \in at[k - 1].left : at[k].left = at[k - 1].left \ {r}
    BY <2>3
  <2>5. IsFiniteSet(at[k].left) /\ Cardinality(at[k].left) = N - (k - 1) - 1
    BY <1>9, <2>4, FS_RemoveElement
  <2> QED BY <1>2, <2>3, <2>5
<1> HIDE DEF Good
<1>10. Good(N)
  <2> DEFINE Bad == {k \in Nat : k <= N /\ ~Good(k)}
  <2> SUFFICES ASSUME Bad # {} PROVE FALSE
    BY <1>2
  <2>1. PICK k \in Bad : \A m \in Bad : k <= m
    BY LeastNat
  <2>2. k \in 1 .. N
    BY <1>2, <1>8
  <2>3. k - 1 \notin Bad /\ k - 1 \in Nat /\ k - 1 <= N
    BY <1>2, <2>1, <2>2
  <2> QED BY <1>9, <2>2, <2>3
<1>11. Walked(at[N]) /\ at[N].left = {}
  BY <1>2, <1>10, FS_EmptySet DEF Good
<1>12. /\ Shape(asinfo') /\ NamedBytes(asinfo', "ram") = Bytes(BanksUpTo(added)) /\ Apart(asinfo', "ram")
       /\ Taken(asinfo') /\ NamedBytes(asinfo', "sysram") = FreeBytes /\ Apart(asinfo', "sysram")
  <2>1. asinfo' = at[N].table /\ ramList \ at[N].left = ramList
    BY <1>1, <1>6, <1>11
  <2> QED BY <1>11, <2>1 DEF Walked, FreeBytes
<1>13. Taken(asinfo)' /\ FreeBytes' = FreeBytes /\ added' # 0
  <2>1. added # 0
    BY <1>1, RamAssumption DEF IInv, TypeOK
  <2> QED BY <1>1, <1>12, <2>1 DEF Taken, FreeBytes
<1> QED BY <1>1, <1>12, <1>13 DEF AInv, SysramAdded

-----------------------------------------------------------------------------
(* Every step keeps the asinfo section true.                               *)

LEMMA FoundFree ==
    ASSUME IInv, NEW addr \in Nat, NEW size \in Nat, NEW room \in Nat, size <= room,
           Within(ramList, avoidList, addr, room)
    PROVE  BytesOf(Span(addr, size)) \subseteq FreeBytes
<1>1. BytesOf(Span(addr, room)) \subseteq FreeBytes
  BY SearchableNow, WithinIsFree DEF FreeBytes
<1>2. BytesOf(Span(addr, size)) \subseteq BytesOf(Span(addr, room))
  BY DEF BytesOf, Span
<1> QED BY <1>1, <1>2

LEMMA CrashTable == ASSUME AInv, Crash PROVE AInv'
BY SameTable DEF Crash

LEMMA AllocTable == ASSUME IInv, AInv, AllocAny PROVE AInv'
<1>1. CASE Crash
  BY <1>1, CrashTable
<1>2. CASE ~Crash
  <2> DEFINE Found(q, addr) ==
          /\ addr = FindRam(ramList, avoidList, q.size, q.align) /\ addr # NoAddr
          /\ ~(SysramAdded /\ TrimCrashes(addr, Span(addr, q.size).end - 1)) /\ alloc_ram(addr, q.size)
          /\ asinfo' = IF SysramAdded THEN Trim(addr, Span(addr, q.size).end - 1) ELSE asinfo
          /\ phase \in {"options", "reserve", "mitigated", "sysram"} /\ UNCHANGED <<phase, added>>
  <2>0. PICK q \in Requests : \E addr : Found(q, addr)
    BY <1>2 DEF AllocAny
  <2>1. PICK addr : Found(q, addr)
    BY <2>0
  <2>2. q.size \in Nat \ {0} /\ q.align \in Nat \ {0}
    BY RamAssumption
  <2>3. addr \in Nat
    BY <2>1, <2>2, SearchableNow, FindRamFound
  <2>4. held \subseteq held' /\ ramList' = Cut(ramList, Span(addr, q.size))
    BY <2>1 DEF alloc_ram
  <2>5. CASE SysramAdded
    <3>1. Span(addr, q.size).end - 1 = addr + q.size - 1
      BY <2>2, <2>3 DEF Span
    <3>2. /\ ~TrimCrashes(addr, addr + q.size - 1) /\ asinfo' = Trim(addr, addr + q.size - 1)
          /\ phase' = phase /\ added' = added
      BY <2>1, <2>5, <3>1
    <3> QED BY <2>2, <2>3, <2>4, <2>5, <3>2, TrimStep
  <2>6. CASE ~SysramAdded
    BY <2>1, <2>4, <2>6, SameTable DEF SysramAdded
  <2> QED BY <2>5, <2>6
<1> QED BY <1>1, <1>2

LEMMA ReserveTable == ASSUME IInv, AInv, ReserveRam PROVE AInv'
<1>1. CASE Crash
  BY <1>1, CrashTable
<1>2. CASE ~Crash
  <2> DEFINE Found(q, align, addr) ==
          /\ align = IF q.align = 0 THEN PageSize ELSE q.align
          /\ addr = IF q.low THEN FindRam(ramList, avoidList, q.size, align)
                    ELSE FindTop(ramList, avoidList, q.size, align, MemTop + 2)
          /\ addr # NoAddr /\ alloc_ram(addr, q.size)
          /\ asinfo' = as_add_containing(asinfo, addr, addr + q.size - 1, "reserved", "ram")
          /\ phase \in {"options", "reserve"} /\ phase' = "reserve" /\ UNCHANGED added
  <2>0. PICK q \in Reserves : \E align, addr : Found(q, align, addr)
    BY <1>2 DEF ReserveRam
  <2>1. PICK align, addr : Found(q, align, addr)
    BY <2>0
  <2>2. q.size \in Nat \ {0} /\ align \in Nat \ {0} /\ MemTop + 2 \in Nat
    BY <2>1, RamAssumption
  <2>3. addr \in Nat /\ BytesOf(Span(addr, q.size)) \subseteq FreeBytes
    <3>1. CASE q.low
      <4>1. addr \in Nat /\ Within(ramList, avoidList, addr, q.size)
        BY <2>1, <2>2, <3>1, SearchableNow, FindRamFound
      <4>2. q.size \in Nat /\ q.size <= q.size
        BY <2>2
      <4> QED BY <4>1, <4>2, FoundFree
    <3>2. CASE ~q.low
      <4>1. addr = FindTop(ramList, avoidList, q.size, align, MemTop + 2)
        BY <2>1, <3>2
      <4>2. /\ addr \in Nat /\ Within(ramList, avoidList, addr, Round(q.size, PageSize))
            /\ q.size <= Round(q.size, PageSize) /\ Round(q.size, PageSize) \in Nat
        BY <2>1, <2>2, <4>1, SearchableNow, FindTopFound
      <4> QED BY <2>2, <4>2, FoundFree
    <3> QED BY <3>1, <3>2
  <2>4. held' = held \union BytesOf(Span(addr, q.size))
    BY <2>1 DEF alloc_ram
  <2>5. "reserved" \in {"reserved", "sp2mmu"} /\ phase' \in {"reserve", "mitigated"}
    BY <2>1
  <2> QED BY <2>1, <2>2, <2>3, <2>4, <2>5, AddHeld
<1> QED BY <1>1, <1>2

LEMMA MitigationTable == ASSUME IInv, AInv, MitigationPage PROVE AInv'
<1>1. CASE Crash
  BY <1>1, CrashTable
<1>2. CASE ~Crash
  <2>1. PICK addr :
          /\ addr = FindTop(ramList, avoidList, PageSize, PageSize, Limit)
          /\ addr # NoAddr /\ alloc_ram(addr, PageSize)
          /\ asinfo' = as_add_containing(asinfo, addr, addr + PageSize - 1, "sp2mmu", "ram")
          /\ phase' = "mitigated" /\ phase \in {"options", "reserve"} /\ UNCHANGED added
    BY <1>2 DEF MitigationPage
  <2>2. PageSize \in Nat \ {0} /\ Limit \in Nat
    BY RamAssumption
  <2>3. /\ addr \in Nat /\ Within(ramList, avoidList, addr, Round(PageSize, PageSize))
        /\ PageSize <= Round(PageSize, PageSize) /\ Round(PageSize, PageSize) \in Nat
    BY <2>1, <2>2, SearchableNow, FindTopFound
  <2>4. BytesOf(Span(addr, PageSize)) \subseteq FreeBytes
    BY <2>2, <2>3, FoundFree
  <2>5. held' = held \union BytesOf(Span(addr, PageSize))
    BY <2>1 DEF alloc_ram
  <2>6. "sp2mmu" \in {"reserved", "sp2mmu"} /\ phase' \in {"reserve", "mitigated"}
    BY <2>1
  <2> QED BY <2>1, <2>2, <2>3, <2>4, <2>5, <2>6, AddHeld
<1> QED BY <1>1, <1>2

LEMMA TableInit == Init => AInv
<1> SUFFICES ASSUME Init PROVE AInv
  OBVIOUS
<1>1. asinfo = <<>> /\ added = 0 /\ phase = "raminfo" /\ Len(asinfo) = 0 /\ DOMAIN asinfo = 1 .. Len(asinfo)
  BY DEF Init
<1>2. \A i \in 1 .. Len(asinfo) : FALSE
  BY <1>1
<1>3. \A i \in 3 .. Len(asinfo) : FALSE
  BY <1>1
<1>4. \A name : NamedBytes(asinfo, name) = {} /\ Apart(asinfo, name)
  BY <1>1, <1>2, NamedIs DEF Apart
<1>5. Bytes(BanksUpTo(added)) = {}
  BY <1>1 DEF Bytes, BanksUpTo
<1> QED BY <1>1, <1>3, <1>4, <1>5 DEF AInv, Taken, SysramAdded

LEMMA TableNext == BoardFits /\ IInv /\ AInv /\ [Next]_vars => AInv'
<1> SUFFICES ASSUME BoardFits, IInv, AInv, [Next]_vars PROVE AInv'
  OBVIOUS
<1>1. CASE UNCHANGED vars
  BY <1>1 DEF vars, AInv, Taken, SysramAdded, FreeBytes
<1>2. CASE Crash
  BY <1>2, CrashTable
<1>3. CASE OptionR /\ ~Crash
  BY <1>3, SameTable DEF OptionR
<1>4. CASE AddRam
  BY <1>4, BankJoins
<1>5. CASE ImageRam /\ ~Crash
  BY <1>5, SameTable DEF ImageRam, alloc_ram
<1>6. CASE WsAlloc /\ ~Crash
  BY <1>6, SameTable DEF WsAlloc
<1>7. CASE AllocAny
  BY <1>7, AllocTable
<1>8. CASE JtagReserve /\ ~Crash
  BY <1>8, SameTable DEF JtagReserve, alloc_ram
<1>9. CASE ReserveRam
  BY <1>9, ReserveTable
<1>10. CASE MitigationPage
  BY <1>10, MitigationTable
<1>11. CASE add_sysram
  BY <1>11, SysramJoins
<1> QED BY <1>1, <1>2, <1>3, <1>4, <1>5, <1>6, <1>7, <1>8, <1>9, <1>10, <1>11 DEF Next

-----------------------------------------------------------------------------
(* What the kernel reads from it.                                          *)

\* Only a "ram" entry that ends below 4G is found under the chain of names.
LEMMA MatchLow ==
    ASSUME NEW T, Shape(T), NEW i \in 1 .. Len(T)
    PROVE  MatchItem(T, i, <<"memory", "below4G", "ram">>) <=> T[i].name = "ram" /\ T[i].end <= Low
<1> DEFINE names == <<"memory", "below4G", "ram">>
           IsAt(at) == at = [k \in 0 .. Len(names) - 1 |-> IF k = 0 THEN i ELSE
                                IF at[k - 1] = AS_NULL_OFF THEN AS_NULL_OFF ELSE T[at[k - 1]].owner]
           o == T[i].owner
           p == IF o = 0 THEN 0 ELSE T[o].owner
           own == [k \in 0 .. 2 |-> IF k = 0 THEN i ELSE IF k = 1 THEN o ELSE p]
<1>1. Len(names) - 1 = 2 /\ Len(names) = 3 /\ names[1] = "memory" /\ names[2] = "below4G" /\ names[3] = "ram"
  OBVIOUS
<1>2. i # 0 /\ i \in Nat
  BY EntryIs
<1>3. own[0] = i /\ own[1] = o /\ own[2] = p
  OBVIOUS
<1> HIDE DEF o, p
<1>4. \A k \in 0 .. 2 : own[k] = IF k = 0 THEN i ELSE
                                IF own[k - 1] = AS_NULL_OFF THEN AS_NULL_OFF ELSE T[own[k - 1]].owner
  <2>1. o = T[i].owner /\ p = IF o = 0 THEN 0 ELSE T[o].owner
    BY DEF o, p
  <2> SUFFICES ASSUME NEW k \in 0 .. 2
               PROVE  own[k] = IF k = 0 THEN i ELSE
                                IF own[k - 1] = AS_NULL_OFF THEN AS_NULL_OFF ELSE T[own[k - 1]].owner
    OBVIOUS
  <2>2. k = 0 \/ k = 1 \/ k = 2
    OBVIOUS
  <2> QED BY <1>2, <1>3, <2>1, <2>2 DEF AS_NULL_OFF
<1> HIDE DEF own
<1>5. IsAt(own)
  <2>1. own = [k \in 0 .. 2 |-> own[k]]
    BY DEF own
  <2> QED BY <1>1, <1>4, <2>1
<1> DEFINE it == CHOOSE at : IsAt(at)
<1>6. IsAt(it)
  BY <1>5
<1>7. MatchItem(T, i, names) <=>
        \A k \in DOMAIN it : it[k] # AS_NULL_OFF /\ T[it[k]].name = names[Len(names) - k]
  BY DEF MatchItem
<1> HIDE DEF it
<1>8. DOMAIN it = 0 .. 2 /\ it[0] = i /\ it[1] = o /\ it[2] = p
  <2>1. DOMAIN it = 0 .. 2
        /\ \A k \in 0 .. 2 : it[k] = IF k = 0 THEN i ELSE
                                IF it[k - 1] = AS_NULL_OFF THEN AS_NULL_OFF ELSE T[it[k - 1]].owner
    BY <1>1, <1>6
  <2>2. it[0] = i
    BY <2>1
  <2>3. it[1] = o
    BY <1>2, <2>1, <2>2 DEF o, AS_NULL_OFF
  <2>4. it[2] = p
    BY <2>1, <2>3 DEF p, AS_NULL_OFF
  <2> QED BY <2>1, <2>2, <2>3, <2>4
<1>9. MatchItem(T, i, names) <=>
        T[i].name = "ram" /\ o # 0 /\ T[o].name = "below4G" /\ p # 0 /\ T[p].name = "memory"
  <2>1. MatchItem(T, i, names) <=>
            \A k \in 0 .. 2 : it[k] # 0 /\ T[it[k]].name = names[3 - k]
    BY <1>1, <1>7, <1>8 DEF AS_NULL_OFF
  <2>2. \A k : k \in 0 .. 2 <=> k = 0 \/ k = 1 \/ k = 2
    OBVIOUS
  <2> HIDE DEF names
  <2>3. MatchItem(T, i, names) <=>
            /\ it[0] # 0 /\ T[it[0]].name = names[3]
            /\ it[1] # 0 /\ T[it[1]].name = names[2]
            /\ it[2] # 0 /\ T[it[2]].name = names[1]
    BY <2>1, <2>2
  <2> QED BY <1>1, <1>2, <1>8, <2>3
<1>10. /\ T[1].name = "memory" /\ T[1].owner = 0 /\ T[2].name = "below4G" /\ T[2].owner = 1
       /\ T[i].start \in Nat /\ T[i].end \in Nat /\ T[i].start <= T[i].end /\ Low \in Nat
  BY EntryIs, RootsAre DEF Shape
<1>11. ASSUME T[i].name = "ram" PROVE (o = 2 /\ T[i].end <= Low) \/ (o = 1 /\ Low < T[i].start)
  <2>1. i # 1 /\ i # 2
    BY <1>10, <1>11
  <2>2. i \in 3 .. Len(T)
    BY <1>2, <2>1
  <2> QED BY <1>11, <2>2 DEF Shape, RamEntry, InRam, o
<1>12. o = 2 => p = 1
  BY <1>10 DEF p
<1>13. MatchItem(T, i, names) <=> T[i].name = "ram" /\ T[i].end <= Low
  <2>1. CASE T[i].name = "ram" /\ o = 2 /\ T[i].end <= Low
    BY <1>9, <1>10, <1>12, <2>1
  <2>2. CASE T[i].name = "ram" /\ o = 1 /\ Low < T[i].start
    BY <1>9, <1>10, <2>2
  <2>3. CASE T[i].name # "ram"
    BY <1>9, <2>3
  <2> QED BY <1>11, <2>1, <2>2, <2>3
<1> QED BY <1>13

LEMMA RamTiled == ASSUME Shape(asinfo), AInv PROVE RamEntriesTile
<1> DEFINE ram == Named(asinfo, "ram")
<1>1. Len(asinfo) \in Nat /\ DOMAIN asinfo = 1 .. Len(asinfo)
  BY ShapeDomain
<1>2. \A i : i \in ram <=> i \in 1 .. Len(asinfo) /\ asinfo[i].name = "ram"
  BY <1>1 DEF Named
<1>3. UNION {AsBytes(asinfo[i]) : i \in ram} = Bytes(BanksUpTo(added))
  BY DEF AInv, NamedBytes
<1> HIDE DEF ram
<1>4. \A i, j \in ram : i # j => AsBytes(asinfo[i]) \cap AsBytes(asinfo[j]) = {}
  BY <1>2 DEF AInv, Apart
<1>5. ASSUME NEW i \in ram, NEW a \in AsBytes(asinfo[i])
      PROVE  a <= Low <=> asinfo[asinfo[i].owner].name = "below4G"
  <2>1. /\ asinfo[1].name = "memory" /\ asinfo[2].name = "below4G" /\ Low \in Nat
        /\ asinfo[i].start \in Nat /\ asinfo[i].end \in Nat
    BY <1>2, EntryIs, RootsAre DEF Shape
  <2>2. i \in 3 .. Len(asinfo) /\ asinfo[i].name = "ram"
    <3>1. i # 1 /\ i # 2
      BY <1>2, <2>1
    <3> QED BY <1>1, <1>2, <3>1
  <2>3. RamEntry(asinfo, i)
    BY <2>2 DEF Shape, InRam
  <2>4. a \in Nat /\ asinfo[i].start <= a /\ a <= asinfo[i].end
    BY <2>1 DEF AsBytes
  <2>5. CASE asinfo[i].owner = 2 /\ asinfo[i].end <= Low
    BY <2>1, <2>4, <2>5
  <2>6. CASE asinfo[i].owner = 1 /\ Low < asinfo[i].start
    BY <2>1, <2>4, <2>6
  <2> QED BY <2>3, <2>5, <2>6 DEF RamEntry
<1>6. ASSUME NEW start \in 0 .. Len(asinfo)
      PROVE  LET low == {i \in ram : i > start /\ asinfo[i].end <= Low}
             IN  as_find(asinfo, start, <<"memory", "below4G", "ram">>) =
                    IF low = {} THEN AS_NULL_OFF ELSE Min(low)
  <2> DEFINE low == {i \in ram : i > start /\ asinfo[i].end <= Low}
             found == {i \in start + 1 .. Len(asinfo) :
                          MatchItem(asinfo, i, <<"memory", "below4G", "ram">>)}
  <2>1. \A i : i \in ram /\ i > start <=> i \in start + 1 .. Len(asinfo) /\ asinfo[i].name = "ram"
    BY <1>1, <1>2
  <2>2. \A i \in start + 1 .. Len(asinfo) :
            MatchItem(asinfo, i, <<"memory", "below4G", "ram">>) <=>
                asinfo[i].name = "ram" /\ asinfo[i].end <= Low
    BY <1>1, MatchLow
  <2>3. found = low
    BY <2>1, <2>2
  <2> QED BY <2>3 DEF as_find
<1> QED BY <1>3, <1>4, <1>5, <1>6 DEF RamEntriesTile, ram

LEMMA Sound == ASSUME Shape(asinfo) PROVE AsinfoSound
<1>1. asinfo \in Seq(Entries) /\ Len(asinfo) \in Nat /\ DOMAIN asinfo = 1 .. Len(asinfo)
  BY DEF Shape
<1> DEFINE Typed == [start : 0 .. MemTop, end : 0 .. MemTop, owner : 0 .. Len(asinfo),
                     name : AsNames, cont : BOOLEAN]
<1>2. ASSUME NEW i \in 1 .. Len(asinfo) PROVE asinfo[i] \in Typed
  <2>1. asinfo[i] \in Entries /\ asinfo[i].owner \in 0 .. Len(asinfo)
    BY <1>1, EntryIs
  <2> QED BY <2>1 DEF Entries
<1>3. asinfo \in Seq(Typed)
  <2> HIDE DEF Typed
  <2> QED BY <1>1, <1>2
<1>4. ASSUME NEW i \in 1 .. Len(asinfo)
      PROVE  /\ asinfo[i].start <= asinfo[i].end /\ asinfo[i].owner < i
             /\ asinfo[i].owner # AS_NULL_OFF => AsBytes(asinfo[i]) \subseteq AsBytes(asinfo[asinfo[i].owner])
  <2>1. /\ asinfo[i].start \in Nat /\ asinfo[i].end \in Nat /\ asinfo[i].end <= MemTop
        /\ asinfo[i].start <= asinfo[i].end /\ asinfo[i].owner \in 0 .. i - 1 /\ asinfo[i].owner < i
    BY EntryIs
  <2>2. /\ asinfo[1].start = 0 /\ asinfo[1].end = MemTop /\ asinfo[1].owner = 0
        /\ asinfo[2].start = 0 /\ asinfo[2].end = Low /\ asinfo[2].owner = 1
        /\ MemTop \in Nat /\ Low \in Nat /\ Low <= MemTop
    BY RootsAre DEF Shape
  <2>3. ASSUME asinfo[i].owner # AS_NULL_OFF
        PROVE  LET o == asinfo[asinfo[i].owner] IN
               o.start \in Nat /\ o.end \in Nat /\ o.start <= asinfo[i].start /\ asinfo[i].end <= o.end
    <3>1. CASE i = 1
      BY <2>2, <2>3, <3>1 DEF AS_NULL_OFF
    <3>2. CASE i = 2
      BY <2>2, <3>2
    <3>3. CASE i \in 3 .. Len(asinfo)
      <4>1. asinfo[i].owner \in 1 .. Len(asinfo)
        BY <1>1, <2>1, <2>3 DEF AS_NULL_OFF
      <4>2. asinfo[asinfo[i].owner].start \in Nat /\ asinfo[asinfo[i].owner].end \in Nat
        BY <4>1, EntryIs
      <4>3. RamEntry(asinfo, i) \/ InRam(asinfo, i)
        BY <3>3 DEF Shape
      <4>4. CASE RamEntry(asinfo, i)
        BY <2>1, <2>2, <4>4 DEF RamEntry
      <4>5. CASE InRam(asinfo, i)
        BY <4>2, <4>5 DEF InRam
      <4> QED BY <4>3, <4>4, <4>5
    <3> QED BY <1>1, <3>1, <3>2, <3>3
  <2>4. asinfo[i].owner # AS_NULL_OFF => AsBytes(asinfo[i]) \subseteq AsBytes(asinfo[asinfo[i].owner])
    BY <2>1, <2>3 DEF AsBytes
  <2> QED BY <2>1, <2>4
<1>5. Nested(asinfo)
  BY <1>1, <1>4 DEF Nested
<1>6. Chained(asinfo)
  <2> SUFFICES ASSUME NEW i \in 1 .. Len(asinfo), asinfo[i].cont
               PROVE  i < Len(asinfo) /\ asinfo[i + 1].name = asinfo[i].name
    BY <1>1 DEF Chained
  <2>1. i # 1 /\ i # 2
    BY RootsAre DEF Shape
  <2>2. i \in 3 .. Len(asinfo)
    BY <1>1, <2>1
  <2> QED BY <2>2 DEF Shape
<1> QED BY <1>3, <1>5, <1>6 DEF AsinfoSound

LEMMA TableSays == IInv /\ AInv => AsinfoAccounted
<1> SUFFICES ASSUME IInv, AInv PROVE AsinfoAccounted
  OBVIOUS
<1>1. SysramIsFree
  <2> SUFFICES ASSUME SysramAdded
               PROVE  LET sysram == Named(asinfo, "sysram") IN
                      /\ UNION {AsBytes(asinfo[i]) : i \in sysram} = FreeBytes
                      /\ \A i, j \in sysram : i # j => AsBytes(asinfo[i]) \cap AsBytes(asinfo[j]) = {}
    BY DEF SysramIsFree
  <2>1. NamedBytes(asinfo, "sysram") = FreeBytes /\ Apart(asinfo, "sysram")
    BY DEF AInv
  <2>2. DOMAIN asinfo = 1 .. Len(asinfo)
    BY ShapeNow, ShapeDomain DEF SysramAdded
  <2> QED BY <2>1, <2>2 DEF NamedBytes, Named, Apart
<1>2. CASE added # 0
  BY <1>1, <1>2, RamTiled, Sound DEF AInv, AsinfoAccounted
<1>3. CASE added = 0
  <2>1. asinfo = <<>> /\ Len(asinfo) = 0 /\ DOMAIN asinfo = {}
    BY <1>3 DEF AInv
  <2>2. Named(asinfo, "ram") = {}
    BY <2>1 DEF Named
  <2>3. ASSUME NEW start \in 0 .. Len(asinfo) PROVE as_find(asinfo, start, <<"memory", "below4G", "ram">>) = AS_NULL_OFF
    <3>1. start + 1 .. Len(asinfo) = {}
      BY <2>1
    <3> QED BY <3>1 DEF as_find
  <2>4. Bytes(BanksUpTo(added)) = {}
    BY <1>3 DEF Bytes, BanksUpTo
  <2>5. RamEntriesTile
    BY <2>2, <2>3, <2>4 DEF RamEntriesTile
  <2>6. AsinfoSound
    <3>1. asinfo \in Seq([start : 0 .. MemTop, end : 0 .. MemTop, owner : 0 .. Len(asinfo),
                          name : AsNames, cont : BOOLEAN])
      BY <2>1
    <3> QED BY <2>1, <3>1 DEF AsinfoSound, Nested, Chained
  <2> QED BY <1>1, <2>5, <2>6 DEF AsinfoAccounted
<1> QED BY <1>2, <1>3

\* What the kernel reads about memory in the asinfo section is what the RAM
\* manager's lists say, at every moment: the "ram" entries are the banks, each
\* byte once and on the right side of 4G; the "sysram" entries are the free
\* memory, each byte once, however late allocations cut them; entries lie in
\* their owners and chains of continued entries hold together.
\* (as_add_containing(), add_sysram(), alloc_ram())
THEOREM AsinfoIsAccounted == ASSUME BoardFits PROVE Spec => []AsinfoAccounted
<1>1. Init => IInv /\ AInv
  BY InitHolds, TableInit
<1>2. IInv /\ AInv /\ [Next]_vars => IInv' /\ AInv'
  BY NextKeeps, TableNext
<1>3. IInv /\ AInv => AsinfoAccounted
  BY TableSays
<1> QED BY <1>1, <1>2, <1>3, PTL DEF Spec
=============================================================================
