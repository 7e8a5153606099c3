----------------------------- MODULE Millicode -----------------------------
(***************************************************************************)
(* 64-bit arithmetic on a 32-bit machine: common/gcc-millicode, which gcc  *)
(* calls for every long long operation of the kernel and of user programs  *)
(* (file offsets, times).  longlong.h makes everything depend on the       *)
(* number of bits in half an int, here the constant HALF_BITS; a long long *)
(* is its residue modulo LL, and negative from LL \div 2 on.  Division is  *)
(* Program D, a step for each digit of the quotient.                       *)
(***************************************************************************)
EXTENDS Integers, Sequences

CONSTANTS HALF_BITS,
          Sample        \* the digits the arguments are made of

ASSUME HalfAssumption == HALF_BITS \in Nat \ {0} /\ Sample \subseteq 0 .. 2 ^ HALF_BITS - 1

VARIABLES ull, vll,     \* the arguments
          us, vs, qs,   \* uspace, vspace, qspace: index 0 .. 4
          dv            \* [at, n, m, d, j], and arq once it is "done"

mcVars == <<ull, vll, us, vs, qs, dv>>

Base == 2 ^ HALF_BITS           \* B
INT == Base * Base              \* UINT_MAX + 1
LL == INT * INT

HHALF(x) == x \div Base
LHALF(x) == x % Base
LHUP(x) == (x * Base) % INT
COMBINE(a, b) == LHUP(a) + b

\* union uu.
Hi(x) == x \div INT
Lo(x) == x % INT
Uu(h, l) == (h % INT) * INT + (l % INT)
Bit(b) == IF b THEN 1 ELSE 0

Negative(x) == x >= LL \div 2
Signed(x) == IF Negative(x) THEN x - LL ELSE x

adddi3(a, b) ==
    LET l == (Lo(a) + Lo(b)) % INT
    IN  Uu(Hi(a) + Hi(b) + Bit(l < Lo(b)), l)

subdi3(a, b) ==
    LET l == (Lo(a) - Lo(b)) % INT
    IN  Uu(Hi(a) - Hi(b) - Bit(l > Lo(a)), l)

negdi2(a) ==
    LET l == (-Lo(a)) % INT
    IN  Uu(-Hi(a) - Bit(l > 0), l)

\* The high word is signed, the low one is not.
cmpdi2(a, b) ==
    LET sa == IF Hi(a) >= INT \div 2 THEN Hi(a) - INT ELSE Hi(a)
        sb == IF Hi(b) >= INT \div 2 THEN Hi(b) - INT ELSE Hi(b)
    IN  CASE sa < sb -> 0 [] sa > sb -> 2
          [] sa = sb /\ Lo(a) < Lo(b) -> 0 [] sa = sb /\ Lo(a) > Lo(b) -> 2 [] OTHER -> 1

INT_BITS == 2 * HALF_BITS

ashldi3(a, shift) ==
    IF shift = 0 THEN a
    ELSE IF shift >= INT_BITS THEN Uu(Lo(a) * 2 ^ (shift - INT_BITS), 0)
    ELSE Uu(Hi(a) * 2 ^ shift + Lo(a) \div 2 ^ (INT_BITS - shift), Lo(a) * 2 ^ shift)

lshrdi3(a, shift) ==
    IF shift = 0 THEN a
    ELSE IF shift >= INT_BITS THEN Uu(0, Hi(a) \div 2 ^ (shift - INT_BITS))
    ELSE Uu(Hi(a) \div 2 ^ shift, Lo(a) \div 2 ^ shift + Hi(a) * 2 ^ (INT_BITS - shift))

\* The machine shifts a negative int right with sign extension.
ashrdi3(a, shift) ==
    LET h == IF Hi(a) >= INT \div 2 THEN Hi(a) - INT ELSE Hi(a)
    IN  IF shift = 0 THEN a
        ELSE IF shift >= INT_BITS THEN Uu((h \div 2 ^ (INT_BITS - 1)) \div 2, h \div 2 ^ (shift - INT_BITS))
        ELSE Uu(h \div 2 ^ shift, Lo(a) \div 2 ^ shift + Hi(a) * 2 ^ (INT_BITS - shift))

-----------------------------------------------------------------------------
Abs(x) == IF x < 0 THEN -x ELSE x

\* Bug for the checks: the borrow out of the low word is dropped.
NoBorrow(prodl, was, neg) == Bit(~neg /\ prodl < was)

\* Whether adding to (subtracting from) the low word wrapped around.
Carry(prodl, was, neg) == Bit(IF neg THEN prodl > was ELSE prodl < was)

lmulq(u, v) ==
    LET u1 == HHALF(u)  u0 == LHALF(u)
        v1 == HHALF(v)  v0 == LHALF(v)
        low == u0 * v0
        neg == (u1 < u0) # (v0 < v1)
        mid == Abs(u1 - u0) * Abs(v0 - v1)
        high == u1 * v1
        l1 == LHUP(high)
        l2 == (IF neg THEN l1 - LHUP(mid) ELSE l1 + LHUP(mid)) % INT
        k2 == HHALF(mid) + Carry(l2, l1, neg)
        l3 == (l2 + LHUP(low)) % INT
        k3 == HHALF(low) + Carry(l3, l2, FALSE)
        l4 == (l3 + low) % INT
    IN  IF u1 = 0 /\ v1 = 0 THEN low
        ELSE Uu(high + HHALF(high) + (IF neg THEN -k2 ELSE k2) + k3 + Bit(l4 < low), l4)

muldi3(a, b) ==
    LET u == IF Negative(a) THEN negdi2(a) ELSE a
        v == IF Negative(b) THEN negdi2(b) ELSE b
        low == lmulq(Lo(u), Lo(v))
        negmid == (Hi(u) < Lo(u)) # (Lo(v) < Hi(v))
        mid == (Abs(Hi(u) - Lo(u)) * Abs(Lo(v) - Hi(v))) % INT
        prod == IF Hi(u) = 0 /\ Hi(v) = 0 THEN low
                ELSE Uu(Hi(u) * Hi(v) + (IF negmid THEN -mid ELSE mid) + Lo(low) + Hi(low), Lo(low))
    IN  IF Negative(a) # Negative(b) THEN negdi2(prod) ELSE prod

-----------------------------------------------------------------------------
\* __qdivrem.
Digits(x) == [i \in 0 .. 4 |-> IF i = 0 THEN 0 ELSE (x \div Base ^ (4 - i)) % Base]
Number(p) == Uu(COMBINE(p[1], p[2]), COMBINE(p[3], p[4]))
Zeros == [i \in 0 .. 4 |-> 0]

Arguments == {Number(p) : p \in [1 .. 4 -> Sample]}

MillicodeInit ==
    /\ ull \in Arguments /\ vll \in Arguments
    /\ us = Digits(ull) /\ vs = Digits(vll) /\ qs = Zeros
    /\ dv = [at |-> "call"]

\* The least index of a digit that is not zero.
Leading(p) == CHOOSE i \in 1 .. 4 : p[i] # 0 /\ \A k \in 1 .. i - 1 : p[k] = 0

\* A zero divisor traps.
DivideByZero ==
    /\ dv.at = "call" /\ vll = 0
    /\ dv' = [at |-> "trap"]
    /\ UNCHANGED <<ull, vll, us, vs, qs>>

DivideSmall ==
    /\ dv.at = "call" /\ ull < vll
    /\ dv' = [at |-> "done", arq |-> ull]
    /\ UNCHANGED <<ull, vll, us, vs, qs>>

\* A divisor of one digit: exercise 16.
DivideByDigit ==
    LET t == vs[4]
        rbj[i \in 1 .. 4] == IF i = 1 THEN us[1] ELSE COMBINE(rbj[i - 1] % t, us[i])
    IN  /\ dv.at = "call" /\ 0 < vll /\ vll <= ull /\ Leading(vs) = 4
        /\ qs' = [i \in 0 .. 4 |-> IF i = 0 THEN qs[0] ELSE LHALF(rbj[i] \div t)]
        /\ dv' = [at |-> "done", arq |-> rbj[4] % t]
        /\ UNCHANGED <<ull, vll, us, vs>>

\* p[from] .. p[to] shifted left, as shl does it in place.
shl(p, from, to, sh) ==
    [i \in 0 .. 4 |->
        IF i < from \/ i > to THEN p[i]
        ELSE IF i < to THEN LHALF(p[i] * 2 ^ sh) + p[i + 1] \div 2 ^ (HALF_BITS - sh)
        ELSE LHALF(p[i] * 2 ^ sh)]

\* D1.  The C code moves the pointers u and v; here uspace and vspace keep
\* their indices, u[i] being uspace[U + i] and v[i] vspace[V + i].
Normalize ==
    LET V == Leading(vs) - 1
        U == Leading(us) - 1
        n == 4 - V
        m == V - U
        d == CHOOSE k \in 0 .. HALF_BITS - 1 :
                vs[V + 1] * 2 ^ k \in Base \div 2 .. Base - 1
    IN  /\ dv.at = "call" /\ 0 < vll /\ vll <= ull /\ Leading(vs) # 4
        /\ us' = (IF d > 0 THEN shl(us, U, U + m + n, d) ELSE us)
        /\ vs' = (IF d > 0 THEN shl(vs, V + 1, V + n, d) ELSE vs)
        /\ dv' = [at |-> "loop", n |-> n, m |-> m, d |-> d, j |-> 0]
        /\ UNCHANGED <<ull, vll, qs>>

\* Bug for the checks: the second digit of the divisor is not looked at.
NoSecondDigit(v1, v2, qhat, rhat, uj2) == qhat

\* D3: while the guess is too big for the first two digits of the divisor.
RECURSIVE Qhat(_, _, _, _, _)
Qhat(v1, v2, qhat, rhat, uj2) ==
    IF v2 * qhat <= COMBINE(rhat, uj2) THEN qhat
    ELSE IF rhat + v1 >= Base THEN qhat - 1
    ELSE Qhat(v1, v2, qhat - 1, rhat + v1, uj2)

FirstGuess(v1, v2, uj0, uj1, uj2) ==
    LET nn == COMBINE(uj0, uj1)
    IN  IF uj0 # v1 THEN Qhat(v1, v2, nn \div v1, nn % v1, uj2)
        ELSE IF uj1 + v1 >= Base THEN Base - 1
        ELSE Qhat(v1, v2, Base - 1, uj1 + v1, uj2)

\* D4, for v[i], v[i - 1], .. v[1] against the digits of p up to p[k + i]; t
\* is the borrow.
RECURSIVE Subtract(_, _, _, _, _, _)
Subtract(p, k, V, i, qhat, t) ==
    IF i = 0 THEN [p |-> p, t |-> t]
    ELSE LET x == (p[k + i] - vs[V + i] * qhat - t) % INT
         IN  Subtract([p EXCEPT ![k + i] = LHALF(x)], k, V, i - 1, qhat, (Base - HHALF(x)) % Base)

\* D6.
RECURSIVE AddBack(_, _, _, _, _)
AddBack(p, k, V, i, t) ==
    IF i = 0 THEN [p EXCEPT ![k] = LHALF(@ + t)]
    ELSE LET x == t + p[k + i] + vs[V + i]
         IN  AddBack([p EXCEPT ![k + i] = LHALF(x)], k, V, i - 1, HHALF(x))

\* D3 to D7 for one j.
QuotientDigit ==
    LET V == 4 - dv.n
        k == 4 - dv.n - dv.m + dv.j        \* the index of u[j] in uspace
        qhat == FirstGuess(vs[V + 1], vs[V + 2], us[k], us[k + 1], us[k + 2])
        sub == Subtract(us, k, V, dv.n, qhat, 0)
        t == (sub.p[k] - sub.t) % INT
        p == [sub.p EXCEPT ![k] = LHALF(t)]
    IN  /\ dv.at = "loop" /\ dv.j <= dv.m
        /\ us' = (IF HHALF(t) # 0 THEN AddBack(p, k, V, dv.n, 0) ELSE p)
        /\ qs' = [qs EXCEPT ![4 - dv.m + dv.j] = IF HHALF(t) # 0 THEN qhat - 1 ELSE qhat]
        /\ dv' = [dv EXCEPT !.j = @ + 1]
        /\ UNCHANGED <<ull, vll, vs>>

\* The remainder, u[m + 1] .. u[m + n] shifted back.
DivideDone ==
    LET k == 4 - dv.n
        d == dv.d
        back == [i \in 0 .. 4 |-> CASE i > k -> us[i] \div 2 ^ d + LHALF(us[i - 1] * 2 ^ (HALF_BITS - d))
                                     [] i = k -> 0
                                     [] OTHER -> us[i]]
    IN  /\ dv.at = "loop" /\ dv.j > dv.m
        /\ us' = (IF d > 0 THEN back ELSE us)
        /\ dv' = [at |-> "done", arq |-> Number(us')]
        /\ UNCHANGED <<ull, vll, vs, qs>>

MillicodeNext ==
    DivideByZero \/ DivideSmall \/ DivideByDigit \/ Normalize \/ QuotientDigit \/ DivideDone

MillicodeSpec == MillicodeInit /\ [][MillicodeNext]_mcVars

\* divdi3 and moddi3 on top of it, for arguments a and b of these magnitudes.
divdi3(a, b) == IF Negative(a) # Negative(b) THEN negdi2(Number(qs)) ELSE Number(qs)
moddi3(a) == IF Negative(a) THEN negdi2(dv.arq) ELSE dv.arq

-----------------------------------------------------------------------------
(***************************************************************************)
(* Every quotient and remainder is exact, also where the guess of a digit  *)
(* has to be corrected or added back, and for every combination of signs,  *)
(* rounding towards zero.                                                  *)
(***************************************************************************)
QuotientExact ==
    dv.at = "done" =>
        /\ Number(qs) = ull \div vll /\ dv.arq = ull % vll
        /\ \A a \in {ull, negdi2(ull)}, b \in {vll, negdi2(vll)} :
             Abs(Signed(a)) = ull /\ Abs(Signed(b)) = vll =>
                LET q == (ull \div vll) * (IF Negative(a) # Negative(b) THEN -1 ELSE 1)
                IN  /\ divdi3(a, b) = q % LL
                    /\ Signed(moddi3(a)) = Signed(a) - q * Signed(b)

(***************************************************************************)
(* Sums, differences, products and shifts put together from halves are     *)
(* exact modulo the width, with every carry and borrow, and shifts by      *)
(* every count; comparison agrees with the sign.                           *)
(***************************************************************************)
WideExact ==
    dv.at = "call" =>
        LET a == ull  b == vll
        IN  /\ adddi3(a, b) = (a + b) % LL
            /\ subdi3(a, b) = (a - b) % LL
            /\ negdi2(a) = (-a) % LL
            /\ muldi3(a, b) = (a * b) % LL
            /\ cmpdi2(a, b) = (IF Signed(a) < Signed(b) THEN 0 ELSE IF Signed(a) = Signed(b) THEN 1 ELSE 2)
            /\ \A shift \in 0 .. 2 * INT_BITS - 1 :
                 /\ ashldi3(a, shift) = (a * 2 ^ shift) % LL
                 /\ lshrdi3(a, shift) = a \div 2 ^ shift
                 /\ Signed(ashrdi3(a, shift)) = Signed(a) \div 2 ^ shift
=============================================================================
