----------------------------- MODULE KernelProofs -----------------------------
(***************************************************************************)
(* What the results of kernels depend on: that what they compute in the    *)
(* words of the GPU is exact, that the limbs they read are below their     *)
(* primes, and that the contexts and the keys they are launched for exist. *)
(*                                                                         *)
(* For words and primes of any size, the quotients that the modular        *)
(* arithmetic estimates are at most one too small, and no product or       *)
(* difference that is cut to a word loses what counts.                     *)
(*                                                                         *)
(* Whatever the primes, the digits and the size of polynomials, the tables *)
(* of a context Fit: they have residues of the primes they are used with,  *)
(* and sums of their products fit in two words.  So every kernel that reads*)
(* limbs below their primes leaves such limbs.                             *)
(*                                                                         *)
(* Whatever the API contexts and the parameters they share, calls keep the *)
(* state of ContextRegistry Good: what is referred to exists (Sound), the  *)
(* auxiliary contexts registered are those in use (Shared), each API       *)
(* context that bootstraps finds its own (Served), and the devices hold the*)
(* constants of the current one (Uploaded).  A product therefore reads the *)
(* tables of its context in every kernel, and memory is Ready for whichever*)
(* runs next.                                                              *)
(***************************************************************************)
EXTENDS RnsKernels, ListLemmas, TLAPS

(* Arithmetic in words                                                     *)

\* The subtraction at the end
LEMMA CorrectedExact ==
    ASSUME NEW x \in Int, NEW p \in Nat \ {0}, NEW k \in Int, NEW t \in 0..2 * p - 1, x = p * k + t
    PROVE  Corrected(t, p) = x % p
<1>1. CASE t < p
  <2>1. x % p = t  BY <1>1, Remainder
  <2> QED  BY <1>1, <2>1 DEF Corrected
<1>2. CASE t >= p
  <2>1. x = p * (k + 1) + (t - p) /\ t - p \in 0..p - 1 /\ k + 1 \in Int
    BY <1>2
  <2>2. x % p = t - p  BY <2>1, Remainder
  <2> QED  BY <1>2, <2>2 DEF Corrected
<1> QED  BY <1>1, <1>2

\* What is cut to a word twice
LEMMA WordTwice ==
    ASSUME NEW x \in Int, NEW y \in Int, NEW t \in 0..W - 1, x - y = t
    PROVE  Word(x - Word(y)) = t
<1>1. W \in Nat \ {0}  BY WordAssumption
<1>2. y \div W \in Int /\ y = W * (y \div W) + (y % W) /\ y % W \in Int  BY <1>1, Division
<1>3. x - (y % W) = W * (y \div W) + t /\ x - (y % W) \in Int  BY <1>2, <1>1
<1>4. (x - (y % W)) % W = t  BY <1>1, <1>2, <1>3, Remainder
<1> QED  BY <1>4 DEF Word

\* A number below W is the word it is cut to.
LEMMA WordSmall ==
    ASSUME NEW t \in 0..W - 1
    PROVE  Word(t) = t
<1>1. W \in Nat \ {0} /\ t = W * 0 + t  BY WordAssumption
<1>2. t % W = t  BY <1>1, Remainder
<1> QED  BY <1>2 DEF Word

\* Sums and differences of numbers below p are exact when 2p fits in a word (AddSub.cuh).
THEOREM SumExact ==
    ASSUME NEW p \in Nat \ {0}, 2 * p <= W, NEW a \in 0..p - 1, NEW b \in 0..p - 1
    PROVE  modadd(a, b, p) = (a + b) % p
<1>1. a + b \in 0..W - 1 /\ a + b \in 0..2 * p - 1 /\ a + b = p * 0 + (a + b)
       /\ a + b \in Int /\ 0 \in Int
    BY WordAssumption
<1>2. Word(a + b) = a + b  BY <1>1, WordSmall
<1>3. Corrected(a + b, p) = (a + b) % p  BY <1>1, CorrectedExact
<1> QED  BY <1>2, <1>3 DEF modadd

\* A difference that wraps around below zero comes back to its residue (AddSub.cuh).
THEOREM DifferenceExact ==
    ASSUME NEW p \in Nat \ {0}, 2 * p <= W, NEW a \in 0..p - 1, NEW b \in 0..p - 1
    PROVE  modsub(a, b, p) = (a - b) % p
<1>0. W \in Nat \ {0}  BY WordAssumption
<1>1. CASE a >= b
  <2>1. a - b \in 0..W - 1 /\ a - b \in 0..p - 1 /\ a - b = p * 0 + (a - b)  BY <1>0, <1>1
  <2>2. Word(a - b) = a - b  BY <2>1, WordSmall
  <2>3. (a - b) % p = a - b  BY <2>1, Remainder
  <2> QED  BY <2>1, <2>2, <2>3 DEF modsub
<1>2. CASE a < b
  <2>1. W + a - b \in 0..W - 1 /\ a - b = W * (-1) + (W + a - b) /\ a - b \in Int  BY <1>0, <1>2
  <2>2. (a - b) % W = W + a - b  BY <1>0, <2>1, Remainder
  <2>3. Word(a - b) = W + a - b  BY <2>2 DEF Word
  <2>4a. ~(W + a - b < p) /\ W + a - b >= p  BY <1>0
  <2>4. p + a - b \in 0..W - 1 /\ W + a - b + p = W * 1 + (p + a - b) /\ W + a - b + p \in Int  BY <1>0, <1>2
  <2>5. (W + a - b + p) % W = p + a - b  BY <1>0, <2>4, Remainder
  <2>6. modsub(a, b, p) = p + a - b  BY <2>3, <2>4a, <2>5 DEF modsub, Word
  <2>7. a - b = p * (-1) + (p + a - b) /\ p + a - b \in 0..p - 1  BY <1>2
  <2>8. (a - b) % p = p + a - b  BY <2>7, Remainder
  <2> QED  BY <2>6, <2>8
<1> QED  BY <1>1, <1>2

\* The quotient for a constant, of any number of one word, is at most one too small
\* (shoup_precomp, Shoup_mult_64).
THEOREM ShoupExact ==
    ASSUME NEW p \in Nat \ {0}, 2 * p <= W, NEW a \in 0..W - 1, NEW b \in 0..p - 1
    PROVE  Shoup_mult(a, b, shoup_precomp(b, p), p) = (a * b) % p
<1> DEFINE psi == (b * W) \div p
           r == (b * W) % p
           q == (a * psi) \div W
           s == (a * psi) % W
           t == a * b - q * p
<1>0. W \in Nat \ {0} /\ b * W \in Int  BY WordAssumption
<1>1. psi \in Int /\ r \in 0..p - 1 /\ b * W = p * psi + r  BY <1>0, Division
<1>2. a * psi \in Int  BY <1>1
<1>3. q \in Int /\ s \in 0..W - 1 /\ a * psi = W * q + s  BY <1>0, <1>2, Division
<1> HIDE DEF psi, r, q, s
<1>4. W * t = a * r + p * s
  <2>1. W * (a * b) = a * (p * psi + r)  BY <1>0, <1>1
  <2>2. a * (p * psi + r) = p * (a * psi) + a * r  BY <1>1
  <2>3. p * (a * psi) = p * (W * q + s)  BY <1>3
  <2>4. p * (W * q + s) = W * (q * p) + p * s  BY <1>0, <1>3
  <2>5. W * t = W * (a * b) - W * (q * p)  BY <1>0, <1>3
  <2> QED  BY <2>1, <2>2, <2>3, <2>4, <2>5, <1>0, <1>1, <1>3
<1>5. t \in 0..2 * p - 1
  <2>1. a * r \in 0..W * p - 1
    <3>1. a * r >= 0  BY <1>1
    <3>2. a * r <= a * p  BY <1>1
    <3>3. a * p <= (W - 1) * p  BY <1>0
    <3>4. a * r \in Int /\ (W - 1) * p = W * p - p  BY <1>0, <1>1
    <3> QED  BY <3>1, <3>2, <3>3, <3>4, <1>0
  <2>2. p * s \in 0..p * W - 1
    <3>1. p * s >= 0 /\ p * s <= p * (W - 1)  BY <1>0, <1>3
    <3>2. p * s \in Int /\ p * (W - 1) = p * W - p  BY <1>0, <1>3
    <3> QED  BY <3>1, <3>2, <1>0
  <2>3. W * t >= 0 /\ W * t < W * (2 * p) /\ t \in Int
    BY <1>0, <1>3, <1>4, <2>1, <2>2
  <2>4. t >= 0
    <3>1. CASE t <= -1
      <4>1. W * t <= -W  BY <3>1, <2>3, <1>0
      <4> QED  BY <4>1, <2>3, <1>0
    <3> QED  BY <3>1, <2>3
  <2>5. t < 2 * p
    <3>1. CASE t >= 2 * p
      <4>1. W * t >= W * (2 * p)  BY <3>1, <2>3, <1>0
      <4> QED  BY <4>1, <2>3, <1>0
    <3> QED  BY <3>1, <2>3
  <2> QED  BY <2>3, <2>4, <2>5
<1>6. Word(t) = t  BY <1>0, <1>5, WordSmall
<1>7. a * b = p * q + t /\ a * b \in Int  BY <1>3, <1>5
<1>8. Corrected(t, p) = (a * b) % p  BY <1>3, <1>5, <1>7, CorrectedExact
<1> QED  BY <1>6, <1>8 DEF Shoup_mult, shoup_precomp, umulhi, psi, q

\* Barrett reduction is exact for numbers of up to twice the bits of p, as products are;
\* S and T stand for the shifts, by the number of bits of p less 2 and by 62 less that
\* number (mu_new, Neal_reduce).
THEOREM BarrettExact ==
    ASSUME NEW S \in Nat \ {0}, NEW T \in Nat \ {0}, W = 16 * S * T,
           NEW p \in Nat \ {0}, 2 * S <= p, p < 4 * S,
           NEW c \in Nat, c < 16 * S * S
    PROVE  Neal_reduce(c, mu_new(p, S), p, S, T) = c % p
<1> DEFINE mu == (32 * S * S) \div p
           r == (32 * S * S) % p
           rx == c \div S
           u == c % S
           y == rx * T * mu
           h == y \div W
           v == y % W
           rb == h \div 2
           e == h % 2
           w == W * e + v
           t == c - rb * p
           X == 32 * S * T
<1>0. W \in Nat \ {0}  BY WordAssumption
<1>1. mu \in Int /\ r \in 0..p - 1 /\ 32 * S * S = p * mu + r
  <2>1. 32 * S * S \in Int  OBVIOUS
  <2> QED  BY <2>1, Division
<1>2. rx \in Int /\ u \in 0..S - 1 /\ c = S * rx + u  BY Division
<1> HIDE DEF mu, r, rx, u
<1>3. rx \in 0..16 * S - 1
  <2>1. CASE rx >= 16 * S
    <3>1. S * rx >= S * (16 * S)  BY <2>1, <1>2
    <3> QED  BY <3>1, <1>2
  <2>2. CASE rx <= -1
    <3>1. S * rx <= -S  BY <2>2, <1>2
    <3> QED  BY <3>1, <1>2
  <2> QED  BY <1>2, <2>1, <2>2
<1>4. rx * T \in 0..W - 1
  <2>1. rx * T >= 0 /\ rx * T \in Int  BY <1>3
  <2>2a. rx <= 16 * S - 1 /\ 16 * S - 1 \in Int /\ rx \in Int  BY <1>3
  <2>3. rx * T <= (16 * S - 1) * T  BY <2>2a
  <2>2. (16 * S - 1) * T = W - T  OBVIOUS
  <2> QED  BY <2>1, <2>3, <2>2, <1>0
<1>5. y \in Int  BY <1>1, <1>2
<1>6. h \in Int /\ v \in 0..W - 1 /\ y = W * h + v  BY <1>0, <1>5, Division
<1>7. rb \in Int /\ e \in 0..1 /\ h = 2 * rb + e
  <2>1. 2 \in Nat \ {0} /\ h \in Int  BY <1>6
  <2>2. rb \in Int /\ e \in 0..2 - 1 /\ h = 2 * rb + e  BY <2>1, Division
  <2> QED  BY <2>2
<1> HIDE DEF y, h, v, rb, e
<1>8. y = X * rb + w
  <2>1. W * h = W * (2 * rb) + W * e  BY <1>0, <1>7
  <2>2. W * (2 * rb) = X * rb  BY <1>7
  <2> QED  BY <2>1, <2>2, <1>0, <1>6, <1>7
<1>9. w \in 0..2 * W - 1
  <2>1. CASE e = 0  BY <2>1, <1>0, <1>6
  <2>2. CASE e = 1  BY <2>2, <1>0, <1>6
  <2> QED  BY <1>7, <2>1, <2>2
<1> HIDE DEF w
<1>10. X \in Nat \ {0} /\ X * S = T * (32 * S * S)  OBVIOUS
<1>11. X * t = X * u + T * rx * r + p * w
  <2>1. X * c = X * S * rx + X * u  BY <1>2, <1>10
  <2>2. X * S * rx = T * rx * (p * mu + r)  BY <1>1, <1>2, <1>10
  <2>3. T * rx * (p * mu + r) = p * (rx * T * mu) + T * rx * r  BY <1>1, <1>2
  <2>4. rx * T * mu = X * rb + w  BY <1>8 DEF y
  <2>5. p * (X * rb + w) = X * (rb * p) + p * w  BY <1>7, <1>9, <1>10
  <2>6. X * t = X * c - X * (rb * p)  BY <1>7, <1>10
  <2> QED  BY <2>1, <2>2, <2>3, <2>4, <2>5, <2>6, <1>1, <1>2, <1>7, <1>9, <1>10
<1>12. t \in 0..2 * p - 1
  <2>1. X * u >= 0 /\ 2 * (X * u) <= X * p /\ X * u \in Int
    <3>1. 2 * u <= p  BY <1>2
    <3>2. X * (2 * u) <= X * p  BY <3>1, <1>2, <1>10
    <3> QED  BY <3>2, <1>2, <1>10
  <2>2. T * rx * r >= 0 /\ 2 * (T * rx * r) <= X * p /\ T * rx * r \in Int
    <3>1. T * rx <= T * (16 * S) /\ T * rx >= 0 /\ T * rx \in Int  BY <1>3
    <3>2. T * rx * r <= T * rx * p  BY <3>1, <1>1
    <3>3. T * rx * p <= T * (16 * S) * p  BY <3>1
    <3>4. 2 * (T * (16 * S) * p) = X * p  OBVIOUS
    <3>5. T * rx * r >= 0 /\ T * rx * r \in Int /\ T * rx * p \in Int  BY <3>1, <1>1
    <3> QED  BY <3>2, <3>3, <3>4, <3>5
  <2>3. p * w >= 0 /\ p * w < X * p /\ p * w \in Int
    <3>1. X = 2 * W  OBVIOUS
    <3>2. p * w <= p * (2 * W - 1)  BY <1>0, <1>9
    <3>3. p * (2 * W - 1) = X * p - p  BY <1>0, <3>1
    <3> QED  BY <3>2, <3>3, <1>0, <1>9, <1>10
  <2>4. t \in Int  BY <1>7
  <2>5. X * t >= 0 /\ X * t < X * (2 * p)
    <3>1. X * (2 * p) = 2 * (X * p) /\ X * p \in Int  BY <1>10
    <3> QED  BY <3>1, <1>11, <2>1, <2>2, <2>3
  <2> HIDE DEF X, t
  <2>6. t >= 0
    <3>1. CASE t <= -1
      <4>1. X * t <= -X  BY <3>1, <2>4, <1>10
      <4> QED  BY <4>1, <2>4, <2>5, <1>10
    <3> QED  BY <3>1, <2>4
  <2>7. t < 2 * p
    <3>1. CASE t >= 2 * p
      <4>1. X * t >= X * (2 * p)  BY <3>1, <2>4, <1>10
      <4> QED  BY <4>1, <2>4, <2>5, <1>10
    <3> QED  BY <3>1, <2>4
  <2> QED  BY <2>4, <2>6, <2>7
<1>13. t \in 0..W - 1
  <2>1. 8 * S <= W
    <3>1. 16 * S * T >= 16 * S  OBVIOUS
    <3> QED  BY <3>1
  <2> QED  BY <1>12, <2>1
<1>14. Word(c - Word(rb * p)) = t
  <2>1. c \in Int /\ rb * p \in Int /\ c - rb * p = t  BY <1>7
  <2> QED  BY <2>1, <1>13, WordTwice
<1>15. Word(rx) = rx /\ Word(rx * T) = rx * T
  <2>1. 16 * S <= W
    <3>1. 16 * S * T >= 16 * S  OBVIOUS
    <3> QED  BY <3>1
  <2>2. rx \in 0..W - 1  BY <1>3, <2>1, <1>0
  <2> QED  BY <2>2, <1>4, WordSmall
<1>16. Corrected(t, p) = c % p
  <2>1. c = p * rb + t /\ c \in Int  BY <1>7
  <2> QED  BY <2>1, <1>7, <1>12, CorrectedExact
<1>17. umulhi(Word(rx * T), mu) \div 2 = rb  BY <1>15 DEF umulhi, y, h, rb
<1>18. mu_new(p, S) = mu  BY DEF mu_new, mu
<1>19. Neal_reduce(c, mu, p, S, T) = Corrected(Word(c - Word(rb * p)), p)
  <2>1. Word(c \div S) = rx  BY <1>15 DEF rx
  <2> QED  BY <2>1, <1>17 DEF Neal_reduce
<1> QED  BY <1>14, <1>16, <1>18, <1>19

\* The same for a product of two numbers below p, which is reduced by Barrett's method (Neal_mult_64).
THEOREM ProductExact ==
    ASSUME NEW S \in Nat \ {0}, NEW T \in Nat \ {0}, W = 16 * S * T,
           NEW p \in Nat \ {0}, 2 * S <= p, p < 4 * S,
           NEW a \in 0..p - 1, NEW b \in 0..p - 1
    PROVE  Neal_mult(a, b, mu_new(p, S), p, S, T) = (a * b) % p
<1>1. a * b \in Nat /\ a * b < 16 * S * S
  <2>1. a * b >= 0 /\ a * b \in Int  OBVIOUS
  <2>2. a * b <= a * (4 * S)  OBVIOUS
  <2>3. a * (4 * S) < (4 * S) * (4 * S)  OBVIOUS
  <2>4. (4 * S) * (4 * S) = 16 * S * S  OBVIOUS
  <2> QED  BY <2>1, <2>2, <2>3, <2>4
<1> QED  BY <1>1, BarrettExact DEF Neal_mult

\* A number of two words, as a sum of products is, is reduced half by half (modreduce).
THEOREM ReductionExact ==
    ASSUME NEW p \in Nat \ {0}, p > 1, 2 * p <= W, NEW x \in 0..W * W - 1
    PROVE  Shoup_reduce(x, shoup_precomp(1, p), shoup_precomp(W % p, p), p) = x % p
<1> DEFINE h == x \div W
           l == x % W
           q == W \div p
           r == W % p
           t == (h * r) % p
           u == l % p
           qt == (h * r) \div p
           qu == l \div p
<1>0. W \in Nat \ {0}  BY WordAssumption
<1>1. h \in Int /\ l \in 0..W - 1 /\ x = W * h + l  BY <1>0, Division
<1>2. q \in Int /\ r \in 0..p - 1 /\ W = p * q + r  BY <1>0, Division
<1> HIDE DEF h, l, q, r
<1>3. h \in 0..W - 1
  <2>1. CASE h >= W
    <3>1. W * h >= W * W  BY <2>1, <1>0, <1>1
    <3> QED  BY <3>1, <1>0, <1>1
  <2>2. CASE h <= -1
    <3>1. W * h <= -W  BY <2>2, <1>0, <1>1
    <3> QED  BY <3>1, <1>0, <1>1
  <2> QED  BY <1>1, <2>1, <2>2, <1>0
<1>4. h * r \in Int /\ l \in Int  BY <1>1, <1>2
<1>5. qt \in Int /\ t \in 0..p - 1 /\ h * r = p * qt + t  BY <1>4, Division
<1>6. qu \in Int /\ u \in 0..p - 1 /\ l = p * qu + u  BY <1>4, Division
<1>7. Shoup_mult(h, r, shoup_precomp(r, p), p) = t  BY <1>2, <1>3, ShoupExact
<1>8. Shoup_mult(l, 1, shoup_precomp(1, p), p) = u
  <2>1. Shoup_mult(l, 1, shoup_precomp(1, p), p) = (l * 1) % p  BY <1>1, ShoupExact
  <2>2. l * 1 = l  BY <1>4
  <2> QED  BY <2>1, <2>2
<1> HIDE DEF t, u, qt, qu
<1>9. Word(0 - p * shoup_precomp(1, p)) = r
  <2>1. shoup_precomp(1, p) = q  BY <1>0 DEF shoup_precomp, q
  <2>2. 0 - p * q = W * (-1) + r /\ 0 - p * q \in Int /\ r \in 0..W - 1  BY <1>0, <1>2
  <2>3. (0 - p * q) % W = r  BY <1>0, <2>2, Remainder
  <2> QED  BY <2>1, <2>3 DEF Word
<1>10. Corrected(t + u, p) = x % p
  <2>1. x = p * (q * h + qt + qu) + (t + u)
    <3>1. W * h = (p * q) * h + h * r  BY <1>1, <1>2
    <3>2. p * (q * h + qt + qu) = (p * q) * h + p * qt + p * qu  BY <1>1, <1>2, <1>5, <1>6
    <3> QED  BY <3>1, <3>2, <1>1, <1>2, <1>5, <1>6
  <2>2. q * h + qt + qu \in Int /\ t + u \in 0..2 * p - 1 /\ x \in Int  BY <1>0, <1>1, <1>2, <1>5, <1>6
  <2> QED  BY <2>1, <2>2, CorrectedExact
<1>11. Word(x) = l  BY DEF Word, l
<1> QED  BY <1>7, <1>8, <1>9, <1>10, <1>11 DEF Shoup_reduce, h, r

\* A residue modulo om becomes the one modulo nm of the number it stands for, the smallest
\* by absolute value, whichever modulus is larger (SwitchModulus, before a rescale).
THEOREM SwitchExact ==
    ASSUME NEW om \in Nat \ {0}, NEW nm \in Nat \ {0}, nm > 1, 2 * om <= W, 2 * nm <= W,
           NEW a \in 0..om - 1
    PROVE  SwitchModulus(a, om, nm, shoup_precomp(1, nm))
               = (IF a > om \div 2 THEN a - om ELSE a) % nm
<1> DEFINE psi == shoup_precomp(1, nm)
           q == om \div nm
           r == om % nm
<1>0. W \in Nat \ {0}  BY WordAssumption
<1>1. q \in Int /\ r \in 0..nm - 1 /\ om = nm * q + r
  <2>1. om \in Int /\ nm \in Nat \ {0}  OBVIOUS
  <2> QED  BY <2>1, Division
<1>2. ASSUME NEW v \in 0..W - 1 PROVE Shoup_mult(v, 1, psi, nm) = v % nm
  <2>1. Shoup_mult(v, 1, psi, nm) = (v * 1) % nm  BY ShoupExact
  <2>2. v * 1 = v  OBVIOUS
  <2> QED  BY <2>1, <2>2
<1>3. om \in 0..W - 1 /\ a \in 0..W - 1  BY <1>0
<1>4. Shoup_mult(om, 1, psi, nm) = r  BY <1>2, <1>3
<1> HIDE DEF psi, q, r
<1>5. CASE nm > om
  <2>1. CASE a > om \div 2
    <3>1. a - om = nm * (-1) + (a + (nm - om)) /\ a + (nm - om) \in 0..nm - 1 /\ a - om \in Int
      BY <1>5
    <3>2. (a - om) % nm = a + (nm - om)  BY <3>1, Remainder
    <3> QED  BY <1>5, <2>1, <3>2 DEF SwitchModulus, psi
  <2>2. CASE ~(a > om \div 2)
    <3>1. a = nm * 0 + a /\ a \in 0..nm - 1  BY <1>5
    <3>2. a % nm = a  BY <3>1, Remainder
    <3> QED  BY <1>5, <2>2, <3>2 DEF SwitchModulus, psi
  <2> QED  BY <2>1, <2>2
<1>6. CASE ~(nm > om)
  <2> DEFINE v == IF a > om \div 2 THEN a + (nm - r) ELSE a
             value == IF a > om \div 2 THEN a - om ELSE a
             k == IF a > om \div 2 THEN -1 - q ELSE 0
  <2>1. v \in 0..W - 1
    <3>1. a + (nm - r) \in 0..W - 1  BY <1>0, <1>1, <1>6
    <3> QED  BY <3>1, <1>3
  <2>2. value = nm * k + v /\ value \in Int /\ k \in Int
    <3>1. a - om = nm * (-1 - q) + (a + (nm - r))  BY <1>1
    <3> QED  BY <3>1, <1>1
  <2> HIDE DEF v, value, k
  <2>3. v % nm \in 0..nm - 1 /\ v \div nm \in Int /\ v = nm * (v \div nm) + (v % nm)
    <3>1. v \in Int  BY <2>1
    <3> QED  BY <3>1, Division
  <2>4. value % nm = v % nm
    <3>1. value = nm * (k + (v \div nm)) + (v % nm) /\ k + (v \div nm) \in Int
      BY <2>1, <2>2, <2>3
    <3> QED  BY <3>1, <2>2, <2>3, Remainder
  <2>5. SwitchModulus(a, om, nm, psi) = IF v >= nm THEN Shoup_mult(v, 1, psi, nm) ELSE v
    BY <1>4, <1>6 DEF SwitchModulus, v
  <2>6. CASE v >= nm
    BY <2>6, <2>5, <2>4, <2>1, <1>2 DEF psi, value
  <2>7. CASE ~(v >= nm)
    <3>1. v = nm * 0 + v /\ v \in 0..nm - 1 /\ v \in Int  BY <2>7, <2>1
    <3>2. v % nm = v  BY <3>1, Remainder
    <3> QED  BY <2>7, <2>5, <2>4, <3>2 DEF psi, value
  <2> QED  BY <2>6, <2>7
<1> QED  BY <1>5, <1>6
-----------------------------------------------------------------------------
(* Sums and remainders                                                     *)

\* A remainder is below the modulus.
LEMMA Below ==
    ASSUME NEW x \in Int, NEW p \in Nat \ {0}
    PROVE  x % p \in 0..p - 1
BY Division

\* What holds of no summands, and of k + 1 of them if it holds of k, holds of all.
LEMMA SumToKeeps ==
    ASSUME NEW n \in Nat, NEW w, \A k \in 0..n - 1 : w[k] \in Int, NEW G, <<0, 0>> \in G,
           \A k \in 0..n - 1, v \in Int : <<k, v>> \in G => <<k + 1, v + w[k]>> \in G
    PROVE  SumTo(n, w) \in Int /\ <<n, SumTo(n, w)>> \in G
<1> DEFINE IsSumTo(s) == s = [k \in 0..n |-> IF k = 0 THEN 0 ELSE s[k - 1] + w[k - 1]]
           r == CHOOSE s : IsSumTo(s)
<1>1. \E s : IsSumTo(s)
  <2> DEFINE step == [x \in (1..n) \X Int |-> x[2] + w[x[1] - 1]]
  <2>1. \A k \in 1..n : w[k - 1] \in Int
    OBVIOUS
  <2>2. step \in [(1..n) \X Int -> Int] /\ 0 \in Int
    BY <2>1
  <2>3. \A k \in 1..n, v \in Int : step[<<k, v>>] = v + w[k - 1]
    OBVIOUS
  <2> HIDE DEF step
  <2>4. PICK s \in [0..n -> Int] : IsSteps(s, n, 0, step)
    BY <2>2, StepsExist
  <2>5. \A k \in 0..n : k # 0 => step[<<k, s[k - 1]>>] = s[k - 1] + w[k - 1]
    BY <2>3
  <2>6. IsSumTo(s)
    BY <2>4, <2>5 DEF IsSteps
  <2> QED BY <2>6
<1>2. IsSumTo(r)
  <2> HIDE DEF IsSumTo
  <2> QED BY <1>1
<1>3. SumTo(n, w) = r[n]
  BY DEF SumTo
<1> HIDE DEF r
<1>4. r[0] = 0 /\ \A k \in 0..n - 1 : r[k + 1] = r[k] + w[k]
  <2>1. r[0] = 0
    BY <1>2
  <2>2. ASSUME NEW k \in 0..n - 1 PROVE r[k + 1] = r[k] + w[k]
    <3>1. k + 1 \in 0..n /\ k + 1 # 0 /\ (k + 1) - 1 = k
      OBVIOUS
    <3> QED BY <1>2, <3>1
  <2> QED BY <2>1, <2>2
<1> DEFINE H == {k \in 0..n : r[k] \in Int /\ <<k, r[k]>> \in G}
<1>5. 0 \in H
  <2>1. r[0] = 0 /\ 0 \in 0..n /\ 0 \in Int
    BY <1>4
  <2>2. <<0, r[0]>> \in G
    BY <2>1
  <2> QED BY <2>1, <2>2
<1>6. ASSUME NEW k \in 0..n - 1, k \in H PROVE k + 1 \in H
  <2>1. w[k] \in Int /\ r[k] \in Int /\ <<k, r[k]>> \in G /\ k + 1 \in 0..n
    BY <1>6
  <2>2. r[k + 1] = r[k] + w[k]
    BY <1>4
  <2> QED BY <2>1, <2>2
<1>7. 0..n \subseteq H
  <2> HIDE DEF H
  <2> QED BY <1>5, <1>6, UpTo
<1> QED BY <1>3, <1>7

\* A sum of integers is one.
LEMMA SumToType ==
    ASSUME NEW n \in Nat, NEW w \in [0..n - 1 -> Int]
    PROVE  SumTo(n, w) \in Int
<1> DEFINE G == (0..n) \X Int
<1>1. <<0, 0>> \in G
  OBVIOUS
<1>2. ASSUME NEW k \in 0..n - 1, NEW v \in Int PROVE <<k + 1, v + w[k]>> \in G
  OBVIOUS
<1>3. \A k \in 0..n - 1 : w[k] \in Int
  OBVIOUS
<1> HIDE DEF G
<1> QED BY <1>1, <1>2, <1>3, SumToKeeps

\* A sum of n numbers of up to m is at most n * m.
LEMMA SumToBound ==
    ASSUME NEW n \in Nat, NEW m \in Nat, NEW w \in [0..n - 1 -> 0..m]
    PROVE  SumTo(n, w) \in 0..n * m
<1> DEFINE G == {x \in (0..n) \X Int : 0 <= x[2] /\ x[2] <= x[1] * m}
<1>1. <<0, 0>> \in G /\ \A k \in 0..n - 1 : w[k] \in Int
  OBVIOUS
<1>2. ASSUME NEW k \in 0..n - 1, NEW v \in Int, <<k, v>> \in G PROVE <<k + 1, v + w[k]>> \in G
  <2>1. 0 <= v /\ v <= k * m /\ w[k] \in 0..m
    BY <1>2
  <2>2. (k + 1) * m = k * m + m
    OBVIOUS
  <2> DEFINE x == <<k + 1, v + w[k]>>
  <2>3. 0 <= v + w[k] /\ v + w[k] <= (k + 1) * m
    BY <2>1, <2>2
  <2>4. x \in (0..n) \X Int /\ x[1] = k + 1 /\ x[2] = v + w[k]
    BY <2>1
  <2> HIDE DEF x
  <2>5. x \in G
    BY <2>3, <2>4
  <2> QED BY <2>5 DEF x
<1>3. SumTo(n, w) \in Int /\ <<n, SumTo(n, w)>> \in G
  <2> HIDE DEF G
  <2> QED BY <1>1, <1>2, SumToKeeps
<1>4. 0 <= SumTo(n, w) /\ SumTo(n, w) <= n * m
  BY <1>3
<1> QED BY <1>3, <1>4

\* The same for sums over a set.
LEMMA SumOverBound ==
    ASSUME NEW S, IsFiniteSet(S), NEW m \in Nat, NEW w \in [S -> 0..m]
    PROVE  SumOver(w, S) \in 0..Cardinality(S) * m
<1> DEFINE G == {s \in SUBSET S : Total(w, s) \in 0..Cardinality(s) * m}
<1>1. w \in [S -> Nat]
  OBVIOUS
<1>2. ASSUME NEW s \in SUBSET S, \A x \in s : s \ {x} \in G PROVE s \in G
  <2>1. CASE s = {}
    <3>1. Total(w, s) = 0 /\ Cardinality(s) = 0
      BY <1>1, <2>1, TotalWithout, FS_EmptySet
    <3> QED BY <3>1
  <2>2. ASSUME NEW x \in s PROVE s \in G
    <3>1. Total(w, s) = w[x] + Total(w, s \ {x}) /\ w[x] \in 0..m
      BY <1>1, TotalWithout
    <3>2. IsFiniteSet(s) /\ Cardinality(s) \in Nat
      BY FS_Subset, FS_CardinalityType
    <3>3. Cardinality(s \ {x}) = Cardinality(s) - 1
      BY <3>2, FS_RemoveElement
    <3>4. Total(w, s \ {x}) \in 0..(Cardinality(s) - 1) * m
      BY <1>2, <3>3
    <3>5. (Cardinality(s) - 1) * m = Cardinality(s) * m - m
      BY <3>2
    <3>6. Total(w, s) \in 0..Cardinality(s) * m
      BY <3>1, <3>2, <3>4, <3>5
    <3> QED BY <3>6
  <2> QED BY <2>1, <2>2
<1>3. S \in G
  <2> HIDE DEF G
  <2> QED BY <1>2, SetInduction
<1>4. SumOver(w, S) = Total(w, S)
  BY DEF SumOver, Total
<1> QED BY <1>3, <1>4

\* A product of numbers over a set is a number.
LEMMA ModulusType ==
    ASSUME NEW C, NEW S, IsFiniteSet(S), \A i \in S : C.prime[i] \in Nat
    PROVE  Modulus(C, S) \in Nat
<1> DEFINE step == [x \in S \X Nat |-> C.prime[x[1]] * x[2]]
           some(s) == CHOOSE x \in s : TRUE
           IsProduct(t) == t = [s \in SUBSET S |-> IF s = {} THEN 1
                                   ELSE LET x == CHOOSE x \in s : TRUE IN C.prime[x] * t[s \ {x}]]
           r == CHOOSE t : IsProduct(t)
<1>1. step \in [S \X Nat -> Nat] /\ 1 \in Nat
  OBVIOUS
<1>2. \A i \in S, v \in Nat : step[<<i, v>>] = C.prime[i] * v
  OBVIOUS
<1> HIDE DEF step
<1>3. PICK u \in [SUBSET S -> Nat] : IsSetFold(u, S, 1, step)
  BY <1>1, SetFoldExists
<1>4. \A s \in SUBSET S : s # {} => some(s) \in S
  OBVIOUS
<1>5. IsProduct(u)
  <2> HIDE DEF some
  <2>1. u = [s \in SUBSET S |-> IF s = {} THEN 1 ELSE step[<<some(s), u[s \ {some(s)}]>>]]
    BY <1>3 DEF IsSetFold, some
  <2>2. \A s \in SUBSET S : s # {} => step[<<some(s), u[s \ {some(s)}]>>] = C.prime[some(s)] * u[s \ {some(s)}]
    BY <1>2, <1>4
  <2>3. u = [s \in SUBSET S |-> IF s = {} THEN 1 ELSE C.prime[some(s)] * u[s \ {some(s)}]]
    BY <2>1, <2>2
  <2> QED BY <2>3 DEF some
<1>6. IsProduct(r)
  <2>1. \E t : IsProduct(t)
    BY <1>5
  <2> HIDE DEF IsProduct
  <2> QED BY <2>1
<1>7. Modulus(C, S) = r[S]
  BY DEF Modulus, FoldSet, MapThenFoldSet
<1> HIDE DEF r
<1> DEFINE G == {s \in SUBSET S : r[s] \in Nat}
<1>8. ASSUME NEW s \in SUBSET S, \A x \in s : s \ {x} \in G PROVE s \in G
  <2>1. r[s] = IF s = {} THEN 1 ELSE C.prime[some(s)] * r[s \ {some(s)}]
    BY <1>6
  <2>2. s # {} => r[s \ {some(s)}] \in Nat /\ C.prime[some(s)] \in Nat
    <3>1. s # {} => some(s) \in s /\ some(s) \in S
      OBVIOUS
    <3> HIDE DEF some
    <3> QED BY <1>8, <3>1
  <2> HIDE DEF some
  <2>3. r[s] \in Nat
    BY <2>1, <2>2
  <2> QED BY <2>3
<1>9. S \in G
  <2> HIDE DEF G, some
  <2>1. \A s \in SUBSET S : (\A x \in s : s \ {x} \in G) => s \in G
    BY <1>8
  <2>2. \A T : (\A s \in SUBSET S : (\A x \in s : s \ {x} \in T) => s \in T) => SUBSET S \subseteq T
    BY SetInduction
  <2> QED BY <2>1, <2>2
<1> QED BY <1>7, <1>9

\* Powers modulo p
LEMMA modpowBelow ==
    ASSUME NEW p \in Nat, p >= 2, NEW a \in Int, NEW e \in Nat
    PROVE  modpow(a, e, p) \in 0..p - 1
<1> DEFINE value(k, h) == (((h * h) % p) * (IF k % 2 = 1 THEN a ELSE 1)) % p
           IsPower(s) == s = [k \in 0..e |-> IF k = 0 THEN 1 ELSE value(k, s[k \div 2])]
           r == CHOOSE s : IsPower(s)
           V == 0..p - 1
<1>1. ASSUME NEW k \in Int, NEW h \in V PROVE value(k, h) \in V
  <2>1. h * h \in Int
    OBVIOUS
  <2>2. (h * h) % p \in Int
    BY <2>1, Below
  <2>3. ((h * h) % p) * (IF k % 2 = 1 THEN a ELSE 1) \in Int
    BY <2>2
  <2> QED BY <2>3, Below
<1> HIDE DEF value
<1>2. \A k \in 1..e : k \div 2 \in 0..e /\ k \div 2 < k
  OBVIOUS
<1>3. \E s : IsPower(s)
  <2> DEFINE step == [x \in (1..e) \X V |-> value(x[1], x[2])]
             back == [k \in 1..e |-> k \div 2]
  <2>1a. 1 \in V /\ \A k \in 1..e : k \in Int
    OBVIOUS
  <2>1b. \A x \in (1..e) \X V : x[1] \in 1..e /\ x[2] \in V
    OBVIOUS
  <2> HIDE DEF V
  <2>1. step \in [(1..e) \X V -> V] /\ 1 \in V
    BY <1>1, <2>1a, <2>1b
  <2>2. back \in [1..e -> Nat] /\ \A k \in 1..e : back[k] < k /\ back[k] = k \div 2
    BY <1>2
  <2>3. \A k \in 1..e, v \in V : step[<<k, v>>] = value(k, v)
    OBVIOUS
  <2> HIDE DEF step, back
  <2>4. PICK s \in [0..e -> V] : IsRecursion(s, e, 1, back, step)
    BY <2>1, <2>2, RecursionExists
  <2>5. \A k \in 0..e : k # 0 => step[<<k, s[back[k]]>>] = value(k, s[k \div 2])
    BY <2>2, <2>3, <1>2
  <2>6. IsPower(s)
    BY <2>4, <2>5 DEF IsRecursion
  <2> QED BY <2>6
<1>4. IsPower(r)
  <2> HIDE DEF IsPower
  <2> QED BY <1>3
<1>5. modpow(a, e, p) = r[e]
  BY DEF modpow, value
<1> HIDE DEF r
<1> DEFINE G == {k \in Nat : \A j \in 0..k : j <= e => r[j] \in V}
<1>6. ASSUME NEW k \in 0..e PROVE r[k] = IF k = 0 THEN 1 ELSE value(k, r[k \div 2])
  BY <1>4
<1>7. 0 \in G
  <2>1. r[0] = 1
    BY <1>6
  <2> QED BY <2>1
<1>8. ASSUME NEW k \in Nat, k \in G PROVE k + 1 \in G
  <2> SUFFICES ASSUME k + 1 <= e PROVE r[k + 1] \in V
    BY <1>8
  <2>1. (k + 1) \div 2 \in 0..k /\ (k + 1) \div 2 <= e
    OBVIOUS
  <2>2. r[(k + 1) \div 2] \in V
    BY <1>8, <2>1
  <2>3. k + 1 \in 0..e /\ k + 1 # 0
    OBVIOUS
  <2>4. r[k + 1] = value(k + 1, r[(k + 1) \div 2])
    BY <1>6, <2>3
  <2>5. k + 1 \in Int
    OBVIOUS
  <2> HIDE DEF V
  <2>6. value(k + 1, r[(k + 1) \div 2]) \in V
    BY <1>1, <2>2, <2>5
  <2> QED BY <2>4, <2>6
<1>9. e \in G
  <2> HIDE DEF G
  <2> QED BY <1>7, <1>8, Induction
<1> QED BY <1>5, <1>9

\* So is an inverse.
LEMMA modinvBelow ==
    ASSUME NEW p \in Nat, p >= 2, NEW a \in Int
    PROVE  modinv(a, p) \in 0..p - 1
<1>1. a % p \in Int /\ p - 2 \in Nat
  BY Below
<1> QED BY <1>1, modpowBelow DEF modinv

\* Products of primes modulo m
LEMMA HatModuloBelow ==
    ASSUME NEW B, NEW first \in Nat, NEW n \in Nat, NEW i, NEW m \in Nat, m >= 2,
           \A k \in first..first + n - 1 : B.prime[k] \in Nat
    PROVE  HatModulo(B, first, n, i, m) \in 0..m - 1
<1> DEFINE factor(k) == IF first + k - 1 = i THEN 1 ELSE B.prime[first + k - 1]
           IsHat(s) == s = [k \in 0..n |-> IF k = 0 THEN 1 ELSE (s[k - 1] * factor(k)) % m]
           r == CHOOSE s : IsHat(s)
           V == 0..m - 1
<1>1. ASSUME NEW k \in 1..n, NEW v \in V PROVE (v * factor(k)) % m \in V
  <2>1. factor(k) \in Int
    OBVIOUS
  <2> HIDE DEF factor
  <2> DEFINE x == v * factor(k)
  <2>2. x \in Int /\ m \in Nat \ {0}
    BY <2>1
  <2> HIDE DEF x
  <2>3. x % m \in V
    BY <2>2, Below
  <2> QED BY <2>3 DEF x
<1>2. HatModulo(B, first, n, i, m) = r[n]
  BY DEF HatModulo
<1> HIDE DEF factor
<1>3. \E s : IsHat(s)
  <2> DEFINE step == [x \in (1..n) \X V |-> (x[2] * factor(x[1])) % m]
  <2>1. step \in [(1..n) \X V -> V] /\ 1 \in V
    BY <1>1
  <2>2. \A k \in 1..n, v \in V : step[<<k, v>>] = (v * factor(k)) % m
    OBVIOUS
  <2> HIDE DEF step, V
  <2>3. PICK s \in [0..n -> V] : IsSteps(s, n, 1, step)
    BY <2>1, StepsExist
  <2>4. \A k \in 0..n : k # 0 => step[<<k, s[k - 1]>>] = (s[k - 1] * factor(k)) % m
    BY <2>2
  <2>5. IsHat(s)
    BY <2>3, <2>4 DEF IsSteps
  <2> QED BY <2>5
<1>4. IsHat(r)
  <2> HIDE DEF IsHat
  <2> QED BY <1>3
<1> HIDE DEF r
<1> DEFINE G == {k \in 0..n : r[k] \in V}
<1>5. 0 \in G
  BY <1>4
<1>6. ASSUME NEW k \in 0..n - 1, k \in G PROVE k + 1 \in G
  <2>1. k + 1 \in 0..n /\ k + 1 # 0 /\ (k + 1) - 1 = k /\ k + 1 \in 1..n
    OBVIOUS
  <2>2. r[k + 1] = (r[k] * factor(k + 1)) % m
    BY <1>4, <2>1
  <2>3. r[k] \in V
    BY <1>6
  <2> HIDE DEF V
  <2>4. r[k + 1] \in V
    BY <1>1, <2>1, <2>2, <2>3
  <2> QED BY <2>1, <2>4
<1>7. 0..n \subseteq G
  <2> HIDE DEF G
  <2> QED BY <1>5, <1>6, UpTo
<1> QED BY <1>2, <1>7
-----------------------------------------------------------------------------
(* Residues of a prime, and the transforms                                 *)

\* Numbers modulo p, and limbs of them
Residue(p) == 0..p - 1
LimbsBelow(p) == [0..N - 1 -> Residue(p)]

\* A prime with its tables, as the kernels rely on them
PrimeFits(C, i) ==
    LET p == C.prime[i]
    IN  /\ p \in Nat /\ N < p /\ 4 * p < W
        /\ C.S[i] \in Nat \ {0} /\ C.T[i] \in Nat \ {0}
        /\ W = 16 * C.S[i] * C.T[i] /\ 2 * C.S[i] <= p /\ p < 4 * C.S[i]
        /\ C.prime_better_barret_mu[i] = mu_new(p, C.S[i])
        /\ C.roots[i].psi_no \in [0..2 * N - 1 -> Residue(p)]
        /\ C.roots[i].inv_psi_no \in [0..2 * N - 1 -> Residue(p)]
        /\ C.roots[i].psi \in LimbsBelow(p)
        /\ C.roots[i].inv_psi \in LimbsBelow(p)

\* The sizes of polynomials and of words are not zero.
LEMMA NType == N \in Nat \ {0} /\ W \in Nat \ {0} /\ W * W \in Nat
BY WordBitsAssumption, TwoToValue, WordAssumption DEF N

\* Primes fit in a word with a bit to spare.
LEMMA PrimeType ==
    ASSUME NEW C, NEW i, PrimeFits(C, i)
    PROVE  C.prime[i] \in Nat /\ C.prime[i] >= 2 /\ 2 * C.prime[i] <= W /\ C.prime[i] <= W
<1> DEFINE p == C.prime[i]
<1>1. p \in Nat /\ N < p /\ 4 * p < W
  BY DEF PrimeFits
<1> HIDE DEF p
<1>2. p >= 2 /\ 2 * p <= W /\ p <= W
  BY <1>1, NType
<1> QED BY <1>1, <1>2 DEF p

\* What the operations on residues make of them
LEMMA OperationsBelow ==
    ASSUME NEW C, NEW i, PrimeFits(C, i), NEW p, p = C.prime[i],
           NEW a \in Residue(p), NEW b \in Residue(p)
    PROVE  /\ modmult(C, i, a, b) \in Residue(p)
           /\ Scaled(C, i, a, b) \in Residue(p)
           /\ modadd(a, b, p) \in Residue(p)
           /\ modsub(a, b, p) \in Residue(p)
<1> DEFINE S == C.S[i]
           T == C.T[i]
<1>0. p \in Nat /\ p >= 2 /\ 2 * p <= W /\ p <= W
  BY PrimeType
<1>1a. S \in Nat \ {0} /\ T \in Nat \ {0} /\ W = 16 * S * T /\ 2 * S <= p /\ p < 4 * S
  BY DEF PrimeFits
<1>1. /\ p \in Nat \ {0} /\ 2 * p <= W /\ a \in 0..p - 1 /\ b \in 0..p - 1
      /\ S \in Nat \ {0} /\ T \in Nat \ {0} /\ W = 16 * S * T /\ 2 * S <= p /\ p < 4 * S
  <2> HIDE DEF S, T
  <2> QED BY <1>0, <1>1a DEF Residue
<1>2. C.prime_better_barret_mu[i] = mu_new(p, S)
  BY DEF PrimeFits
<1>3. a * b \in Int /\ a + b \in Int /\ a - b \in Int /\ a \in 0..W - 1
  BY <1>0, <1>1, WordAssumption
<1>4. modmult(C, i, a, b) = Neal_mult(a, b, mu_new(p, S), p, S, T)
  BY <1>2 DEF modmult
<1>5. Scaled(C, i, a, b) = Shoup_mult(a, b, shoup_precomp(b, p), p)
  BY DEF Scaled
<1> HIDE DEF S, T
<1>6. Neal_mult(a, b, mu_new(p, S), p, S, T) = (a * b) % p
  BY <1>1, ProductExact
<1>7. Shoup_mult(a, b, shoup_precomp(b, p), p) = (a * b) % p
  BY <1>1, <1>3, ShoupExact
<1>8. modadd(a, b, p) = (a + b) % p /\ modsub(a, b, p) = (a - b) % p
  BY <1>1, SumExact, DifferenceExact
<1>9. (a * b) % p \in 0..p - 1 /\ (a + b) % p \in 0..p - 1 /\ (a - b) % p \in 0..p - 1
  BY <1>1, <1>3, Below
<1> QED BY <1>4, <1>5, <1>6, <1>7, <1>8, <1>9 DEF Residue

\* What the reduction of a number of two words makes of it
LEMMA modreduceBelow ==
    ASSUME NEW C, NEW i, PrimeFits(C, i), NEW x \in 0..W * W - 1
    PROVE  modreduce(C, i, x) \in Residue(C.prime[i])
<1> DEFINE p == C.prime[i]
<1>1. p \in Nat \ {0} /\ 2 * p <= W /\ p > 1
  BY PrimeType
<1>2. modreduce(C, i, x) = Shoup_reduce(x, shoup_precomp(1, p), shoup_precomp(W % p, p), p)
  BY DEF modreduce
<1>3. x \in Int
  BY WordAssumption
<1> HIDE DEF p
<1>4. modreduce(C, i, x) = x % p
  BY <1>1, <1>2, ReductionExact
<1>5. x % p \in 0..p - 1
  BY <1>1, <1>3, Below
<1> QED BY <1>4, <1>5 DEF Residue, p
-----------------------------------------------------------------------------
\* A matrix of a * b elements by rows
LEMMA MatrixIndex ==
    ASSUME NEW a \in Nat \ {0}, NEW b \in Nat \ {0}
    PROVE  /\ \A n \in 0..a * b - 1 : n \div a \in 0..b - 1 /\ n % a \in 0..a - 1
           /\ \A y \in 0..b - 1, x \in 0..a - 1 : a * y + x \in 0..a * b - 1
<1>1. ASSUME NEW n \in 0..a * b - 1
      PROVE  n \div a \in 0..b - 1 /\ n % a \in 0..a - 1
  <2> DEFINE q == n \div a
             r == n % a
  <2>1. a * b \in Int /\ n \in Int
    OBVIOUS
  <2>2. q \in Int /\ r \in 0..a - 1 /\ n = a * q + r
    BY <2>1, Division
  <2> HIDE DEF q, r
  <2>3. CASE q >= b
    <3>1. a * q >= a * b
      BY <2>2, <2>3
    <3> QED BY <2>2, <3>1
  <2>4. CASE q <= -1
    <3>1. a * q <= -a
      BY <2>2, <2>4
    <3> QED BY <2>2, <3>1
  <2>5. q \in 0..b - 1
    BY <2>2, <2>3, <2>4
  <2> QED BY <2>2, <2>5 DEF q, r
<1>2. ASSUME NEW y \in 0..b - 1, NEW x \in 0..a - 1
      PROVE  a * y + x \in 0..a * b - 1
  <2>1. a * y <= a * (b - 1) /\ a * y >= 0 /\ a * y \in Int
    OBVIOUS
  <2>2. a * (b - 1) = a * b - a
    OBVIOUS
  <2> QED BY <2>1, <2>2
<1> QED BY <1>1, <1>2

\* The other half of a pair of a butterfly
LEMMA PairIndex ==
    ASSUME NEW h \in Nat, NEW j \in 0..h - 1, NEW k \in 0..TwoTo(h) - 1
    PROVE  LET m == TwoTo(j)
           IN  /\ m \in Nat \ {0} /\ k \div (2 * m) \in 0..TwoTo(h) - 1
               /\ k % (2 * m) < m => k + m \in 0..TwoTo(h) - 1
               /\ ~(k % (2 * m) < m) => k - m \in 0..TwoTo(h) - 1
<1> DEFINE m == TwoTo(j)
           t == TwoTo(h - (j + 1))
           y == 2 * m
           q == k \div y
           r == k % y
<1>1. m \in Nat \ {0} /\ t \in Nat \ {0} /\ y = TwoTo(j + 1)
  BY TwoToValue
<1>2. TwoTo(h) = y * t
  <2>1. (j + 1) + (h - (j + 1)) = h /\ j + 1 \in Nat /\ h - (j + 1) \in Nat
    OBVIOUS
  <2> QED BY <1>1, <2>1, TwoToSum
<1>3. y \in Nat \ {0} /\ y = 2 * m
  BY <1>1
<1> HIDE DEF m, t, y
<1>4. k \in 0..y * t - 1 /\ k \in Int
  BY <1>1, <1>2, <1>3
<1>5. q \in 0..t - 1
  BY <1>1, <1>3, <1>4, MatrixIndex
<1>6. r \in 0..y - 1 /\ k = y * q + r
  BY <1>3, <1>4, Division
<1> HIDE DEF q, r
<1>7. y * q \in Int /\ 0 <= y * q /\ y * q <= y * (t - 1) /\ y * (t - 1) = y * t - y /\ q <= y * q
      /\ y * t \in Int
  BY <1>1, <1>3, <1>5
<1>9. q \in 0..y * t - 1
  BY <1>3, <1>5, <1>6, <1>7
<1> DEFINE u == y * q
           v == y * t
<1>10. /\ u \in Int /\ v \in Int /\ 0 <= u /\ u <= v - y /\ k = u + r /\ y = 2 * m
       /\ k \in Int /\ 0 <= k /\ k <= v - 1 /\ m \in Int /\ r \in Int /\ 0 <= r /\ r < y
  BY <1>1, <1>3, <1>4, <1>6, <1>7
<1> HIDE DEF u, v
<1>11. r < m => k + m \in 0..v - 1
  BY <1>10
<1>12. ~(r < m) => k - m \in 0..v - 1
  BY <1>10
<1> QED BY <1>1, <1>2, <1>9, <1>11, <1>12 DEF m, q, r, y, v

\* Numbers with reversed bits
LEMMA bit_reverseBelow ==
    ASSUME NEW a \in Nat, NEW w \in Nat
    PROVE  bit_reverse(a, w) \in 0..TwoTo(w) - 1
<1> DEFINE bit == [j \in 0..w - 1 |-> ((a \div TwoTo(j)) % 2) * TwoTo(w - 1 - j)]
           G == {x \in (0..w) \X Int : 0 <= x[2] /\ x[2] <= TwoTo(w) - TwoTo(w - x[1])}
<1>1. \A n \in Nat : TwoTo(n) \in Nat \ {0} /\ TwoTo(n + 1) = 2 * TwoTo(n)
  BY TwoToValue
<1>2. ASSUME NEW j \in 0..w - 1
      PROVE  bit[j] \in Int /\ 0 <= bit[j] /\ bit[j] <= TwoTo(w - 1 - j)
  <2> DEFINE b == (a \div TwoTo(j)) % 2
             t == TwoTo(w - 1 - j)
  <2>1. a \div TwoTo(j) \in Int
    <3>1. a \in Int /\ j \in Nat /\ TwoTo(j) \in Nat \ {0}
      BY <1>1
    <3> QED BY <3>1, Division
  <2>2. b \in 0..1
    <3>1. b \in 0..2 - 1
      BY <2>1, Below
    <3> QED BY <3>1
  <2>3. t \in Nat
    BY <1>1
  <2>4. bit[j] = b * t
    OBVIOUS
  <2> HIDE DEF b, t, bit
  <2>5. b * t = 0 \/ b * t = t
    BY <2>2, <2>3
  <2>6. bit[j] \in Int /\ 0 <= bit[j] /\ bit[j] <= t
    BY <2>3, <2>4, <2>5
  <2> QED BY <2>6 DEF t
<1>3. bit \in [0..w - 1 -> Int]
  <2>1. bit = [j \in 0..w - 1 |-> bit[j]]
    OBVIOUS
  <2> HIDE DEF bit
  <2> QED BY <1>2, <2>1
<1>4. bit_reverse(a, w) = SumTo(w, bit)
  BY DEF bit_reverse
<1> HIDE DEF bit
<1>5. <<0, 0>> \in G
  <2>1. w - 0 = w /\ TwoTo(w) \in Int
    BY <1>1
  <2> QED BY <2>1
<1>6. ASSUME NEW k \in 0..w - 1, NEW v \in Int, <<k, v>> \in G PROVE <<k + 1, v + bit[k]>> \in G
  <2> DEFINE x == <<k + 1, v + bit[k]>>
             t == TwoTo(w - 1 - k)
  <2>1. TwoTo(w - k) = 2 * t /\ t \in Nat /\ w - (k + 1) = w - 1 - k
    <3>1. w - 1 - k \in Nat /\ (w - 1 - k) + 1 = w - k
      OBVIOUS
    <3> QED BY <1>1, <3>1
  <2>2. 0 <= v /\ v <= TwoTo(w) - TwoTo(w - k)
    <3>1. <<k, v>>[1] = k /\ <<k, v>>[2] = v
      OBVIOUS
    <3> QED BY <1>6, <3>1
  <2>3. bit[k] \in Int /\ 0 <= bit[k] /\ bit[k] <= t /\ TwoTo(w) \in Int
    BY <1>1, <1>2
  <2> HIDE DEF t
  <2>4. 0 <= v + bit[k] /\ v + bit[k] <= TwoTo(w) - t
    BY <2>1, <2>2, <2>3
  <2>5. x \in (0..w) \X Int /\ x[1] = k + 1 /\ x[2] = v + bit[k]
    BY <2>3
  <2>6. TwoTo(w - x[1]) = t
    BY <2>1, <2>5 DEF t
  <2> HIDE DEF x
  <2>7. x \in G
    BY <2>4, <2>5, <2>6
  <2> QED BY <2>7 DEF x
<1>7. SumTo(w, bit) \in Int /\ <<w, SumTo(w, bit)>> \in G
  <2> HIDE DEF G
  <2> QED BY <1>3, <1>5, <1>6, SumToKeeps
<1>8. 0 <= SumTo(w, bit) /\ SumTo(w, bit) <= TwoTo(w) - TwoTo(w - w)
  BY <1>7
<1>9. TwoTo(w - w) = 1 /\ TwoTo(w) \in Int
  <2>1. w - w = 0
    OBVIOUS
  <2> QED BY <1>1, <2>1, TwoToValue
<1> QED BY <1>4, <1>7, <1>8, <1>9

\* Columns of 2^h numbers modulo p
Columns(h, p) == [0..TwoTo(h) - 1 -> Residue(p)]

\* A layer of either transform
LEMMA ButterfliesBelow ==
    ASSUME NEW C, NEW i, PrimeFits(C, i), NEW p, p = C.prime[i],
           NEW h \in Nat, TwoTo(h) <= N, NEW j \in 0..h - 1, NEW x \in Columns(h, p)
    PROVE  /\ CT_butterfly(C, i, x, TwoTo(j)) \in Columns(h, p)
           /\ GS_butterfly(C, i, x, TwoTo(j)) \in Columns(h, p)
<1> DEFINE m == TwoTo(j)
           D == 0..TwoTo(h) - 1
           up(k) == C.roots[i].psi[k \div (2 * m)]
           down(k) == C.roots[i].inv_psi[k \div (2 * m)]
<1>1. DOMAIN x = D /\ \A k \in D : x[k] \in Residue(p)
  BY DEF Columns
<1>2. ASSUME NEW k \in D
      PROVE  /\ up(k) \in Residue(p) /\ down(k) \in Residue(p)
             /\ k % (2 * m) < m => x[k + m] \in Residue(p)
             /\ ~(k % (2 * m) < m) => x[k - m] \in Residue(p)
  <2>1. /\ k \div (2 * m) \in D
        /\ k % (2 * m) < m => k + m \in D
        /\ ~(k % (2 * m) < m) => k - m \in D
    BY PairIndex
  <2>2. D \subseteq 0..N - 1
    BY TwoToValue, NType
  <2>3. C.roots[i].psi \in [0..N - 1 -> Residue(p)] /\ C.roots[i].inv_psi \in [0..N - 1 -> Residue(p)]
    BY DEF PrimeFits, LimbsBelow
  <2> HIDE DEF m, D
  <2> QED BY <1>1, <2>1, <2>2, <2>3
<1> HIDE DEF up, down, D
<1>3. ASSUME NEW a \in Residue(p), NEW b \in Residue(p)
      PROVE  /\ Scaled(C, i, a, b) \in Residue(p) /\ modadd(a, b, p) \in Residue(p)
             /\ modsub(a, b, p) \in Residue(p)
  BY OperationsBelow
<1>4. CT_butterfly(C, i, x, m) \in [D -> Residue(p)]
  <2> DEFINE value(k) == IF k % (2 * m) < m THEN modadd(x[k], Scaled(C, i, x[k + m], up(k)), p)
                         ELSE modsub(x[k - m], Scaled(C, i, x[k], up(k)), p)
  <2>1. CT_butterfly(C, i, x, m) = [k \in D |-> value(k)]
    BY <1>1 DEF CT_butterfly, up
  <2>2. ASSUME NEW k \in D PROVE value(k) \in Residue(p)
    <3>1. CASE k % (2 * m) < m
      <4>1. Scaled(C, i, x[k + m], up(k)) \in Residue(p)
        BY <1>2, <1>3, <3>1
      <4> QED BY <1>1, <1>3, <3>1, <4>1
    <3>2. CASE ~(k % (2 * m) < m)
      <4>1. Scaled(C, i, x[k], up(k)) \in Residue(p)
        BY <1>1, <1>2, <1>3
      <4> QED BY <1>2, <1>3, <3>2, <4>1
    <3> QED BY <3>1, <3>2
  <2> HIDE DEF value
  <2> QED BY <2>1, <2>2
<1>5. GS_butterfly(C, i, x, m) \in [D -> Residue(p)]
  <2> DEFINE value(k) == IF k % (2 * m) < m THEN modadd(x[k], x[k + m], p)
                         ELSE Scaled(C, i, modsub(x[k - m], x[k], p), down(k))
  <2>1. GS_butterfly(C, i, x, m) = [k \in D |-> value(k)]
    BY <1>1 DEF GS_butterfly, down
  <2>2. ASSUME NEW k \in D PROVE value(k) \in Residue(p)
    <3>1. CASE k % (2 * m) < m
      BY <1>1, <1>2, <1>3, <3>1
    <3>2. CASE ~(k % (2 * m) < m)
      <4>1. modsub(x[k - m], x[k], p) \in Residue(p)
        BY <1>1, <1>2, <1>3, <3>2
      <4> QED BY <1>2, <1>3, <3>2, <4>1
    <3> QED BY <3>1, <3>2
  <2> HIDE DEF value
  <2> QED BY <2>1, <2>2
<1> QED BY <1>4, <1>5 DEF Columns, D

\* All layers of a column
LEMMA ForwardBelow ==
    ASSUME NEW C, NEW i, PrimeFits(C, i), NEW p, p = C.prime[i],
           NEW h \in Nat, TwoTo(h) <= N, NEW x \in Columns(h, p)
    PROVE  ForwardLayers(C, i, x, h) \in Columns(h, p)
<1> DEFINE V == Columns(h, p)
           After(s) == s = [j \in 0..h |-> IF j = 0 THEN x ELSE CT_butterfly(C, i, s[j - 1], TwoTo(h - j))]
           r == CHOOSE s : After(s)
           step == [y \in (1..h) \X V |-> CT_butterfly(C, i, y[2], TwoTo(h - y[1]))]
<1>1. ASSUME NEW j \in 1..h, NEW y \in V PROVE CT_butterfly(C, i, y, TwoTo(h - j)) \in V
  <2>1. h - j \in 0..h - 1
    OBVIOUS
  <2> QED BY <2>1, ButterfliesBelow
<1> HIDE DEF V
<1>2. step \in [(1..h) \X V -> V] /\ x \in V
  BY <1>1 DEF V
<1>3. \A j \in 1..h, y \in V : step[<<j, y>>] = CT_butterfly(C, i, y, TwoTo(h - j))
  OBVIOUS
<1>4. ForwardLayers(C, i, x, h) = r[h]
  BY DEF ForwardLayers
<1> HIDE DEF step
<1>5. PICK u \in [0..h -> V] : IsSteps(u, h, x, step)
  BY <1>2, StepsExist
<1>6. \A j \in 0..h : j # 0 => step[<<j, u[j - 1]>>] = CT_butterfly(C, i, u[j - 1], TwoTo(h - j))
  BY <1>3
<1>7. After(u)
  BY <1>5, <1>6 DEF IsSteps
<1>8. After(r)
  <2> HIDE DEF After
  <2> QED BY <1>7
<1> HIDE DEF r
<1> DEFINE G == {j \in 0..h : r[j] \in V}
<1>9. 0 \in G
  BY <1>2, <1>8
<1>10. ASSUME NEW j \in 0..h - 1, j \in G PROVE j + 1 \in G
  <2>1. j + 1 \in 0..h /\ j + 1 # 0 /\ (j + 1) - 1 = j /\ j + 1 \in 1..h
    OBVIOUS
  <2>2. r[j + 1] = CT_butterfly(C, i, r[j], TwoTo(h - (j + 1)))
    BY <1>8, <2>1
  <2>3. r[j + 1] \in V
    BY <1>1, <1>10, <2>1, <2>2
  <2> QED BY <2>1, <2>3
<1>11. 0..h \subseteq G
  <2> HIDE DEF G
  <2> QED BY <1>9, <1>10, UpTo
<1> QED BY <1>4, <1>11 DEF V

\* And of the inverse one
LEMMA InverseBelow ==
    ASSUME NEW C, NEW i, PrimeFits(C, i), NEW p, p = C.prime[i],
           NEW h \in Nat, TwoTo(h) <= N, NEW x \in Columns(h, p)
    PROVE  InverseLayers(C, i, x, h) \in Columns(h, p)
<1> DEFINE V == Columns(h, p)
           After(s) == s = [j \in 0..h |-> IF j = 0 THEN x ELSE GS_butterfly(C, i, s[j - 1], TwoTo(j - 1))]
           r == CHOOSE s : After(s)
           step == [y \in (1..h) \X V |-> GS_butterfly(C, i, y[2], TwoTo(y[1] - 1))]
<1>1. ASSUME NEW j \in 1..h, NEW y \in V PROVE GS_butterfly(C, i, y, TwoTo(j - 1)) \in V
  <2>1. j - 1 \in 0..h - 1
    OBVIOUS
  <2> QED BY <2>1, ButterfliesBelow
<1> HIDE DEF V
<1>2. step \in [(1..h) \X V -> V] /\ x \in V
  BY <1>1 DEF V
<1>3. \A j \in 1..h, y \in V : step[<<j, y>>] = GS_butterfly(C, i, y, TwoTo(j - 1))
  OBVIOUS
<1>4. InverseLayers(C, i, x, h) = r[h]
  BY DEF InverseLayers
<1> HIDE DEF step
<1>5. PICK u \in [0..h -> V] : IsSteps(u, h, x, step)
  BY <1>2, StepsExist
<1>6. \A j \in 0..h : j # 0 => step[<<j, u[j - 1]>>] = GS_butterfly(C, i, u[j - 1], TwoTo(j - 1))
  BY <1>3
<1>7. After(u)
  BY <1>5, <1>6 DEF IsSteps
<1>8. After(r)
  <2> HIDE DEF After
  <2> QED BY <1>7
<1> HIDE DEF r
<1> DEFINE G == {j \in 0..h : r[j] \in V}
<1>9. 0 \in G
  BY <1>2, <1>8
<1>10. ASSUME NEW j \in 0..h - 1, j \in G PROVE j + 1 \in G
  <2>1. j + 1 \in 0..h /\ j + 1 # 0 /\ (j + 1) - 1 = j /\ j + 1 \in 1..h
    OBVIOUS
  <2>2. r[j + 1] = GS_butterfly(C, i, r[j], TwoTo(j))
    BY <1>8, <2>1
  <2>3. GS_butterfly(C, i, r[j], TwoTo((j + 1) - 1)) \in V
    BY <1>1, <1>10, <2>1
  <2> QED BY <2>1, <2>2, <2>3
<1>11. 0..h \subseteq G
  <2> HIDE DEF G
  <2> QED BY <1>9, <1>10, UpTo
<1> QED BY <1>4, <1>11 DEF V
-----------------------------------------------------------------------------
\* The matrix that a limb is
LEMMA Matrix ==
    /\ Long \in Nat \ {0} /\ Short \in Nat \ {0} /\ N = Long * Short
    /\ LongLayers \in Nat /\ ShortLayers \in Nat
    /\ Long = TwoTo(LongLayers) /\ Short = TwoTo(ShortLayers) /\ Long <= N /\ Short <= N
    /\ N \div Short = Long
<1>1. LongLayers \in Nat /\ ShortLayers \in Nat /\ LongLayers + ShortLayers = logN
  BY WordBitsAssumption DEF LongLayers, ShortLayers
<1>2. N = Long * Short /\ Long \in Nat \ {0} /\ Short \in Nat \ {0}
  BY <1>1, TwoToSum, TwoToValue DEF N, Long, Short
<1>3. Long <= N /\ Short <= N
  BY <1>2
<1>4. N = Short * Long + 0 /\ 0 \in 0..Short - 1 /\ N \in Int
  BY <1>2
<1>5. N \div Short = Long
  BY <1>2, <1>4, Remainder
<1> QED BY <1>1, <1>2, <1>3, <1>5 DEF Long, Short

\* The factors between both kernels
LEMMA MiddleBelow ==
    ASSUME NEW p, NEW table \in [0..2 * N - 1 -> Residue(p)], NEW c \in 0..Short - 1,
           NEW pos \in 0..Long - 1
    PROVE  Middle(table, c, pos) \in Residue(p)
<1> DEFINE b == bit_reversed[pos]
<1>1. b \in 0..Long - 1
  <2>1. b = bit_reverse(pos, LongLayers) /\ pos \in Nat
    BY DEF bit_reversed
  <2> HIDE DEF b
  <2> QED BY <2>1, Matrix, bit_reverseBelow
<1> HIDE DEF b
<1>2. c * b \in 0..N - 1
  <2>1. Long \in Nat \ {0} /\ Short \in Nat \ {0} /\ N = Long * Short /\ 0 \in 0..Long - 1
    BY Matrix
  <2>2. Long * c + 0 \in 0..N - 1
    BY <2>1, MatrixIndex
  <2>3. c \in Int /\ b \in Int /\ 0 <= c /\ 0 <= b /\ b <= Long
    BY <1>1, <2>1
  <2>4. 0 <= c * b /\ c * b <= c * Long /\ c * b \in Int
    BY <2>1, <2>3
  <2>5. c * Long = Long * c + 0 /\ N \in Int
    BY <2>1, <2>3
  <2> QED BY <2>2, <2>4, <2>5
<1>3. 2 * c * b \in 0..2 * N - 1
  <2>1. 2 * c * b = 2 * (c * b)
    <3>1. c \in Int /\ b \in Int
      BY <1>1, Matrix
    <3> QED BY <3>1
  <2> QED BY <1>2, <2>1, NType
<1> QED BY <1>3 DEF Middle, b

\* The elements of the matrix, row by row and column by column
LEMMA Elements ==
    /\ \A n \in 0..N - 1 : /\ n \div Long \in 0..Short - 1 /\ n % Long \in 0..Long - 1
                           /\ n \div Short \in 0..Long - 1 /\ n % Short \in 0..Short - 1
    /\ \A c \in 0..Short - 1, pos \in 0..Long - 1 : Short * pos + c \in 0..N - 1 /\ Long * c + pos \in 0..N - 1
<1>1. Long \in Nat \ {0} /\ Short \in Nat \ {0} /\ N = Long * Short /\ N = Short * Long
  BY Matrix
<1>2. \A n \in 0..N - 1 : n \div Long \in 0..Short - 1 /\ n % Long \in 0..Long - 1
  BY <1>1, MatrixIndex
<1>3. \A n \in 0..N - 1 : n \div Short \in 0..Long - 1 /\ n % Short \in 0..Short - 1
  BY <1>1, MatrixIndex
<1>4. \A c \in 0..Short - 1, pos \in 0..Long - 1 : Short * pos + c \in 0..N - 1
  BY <1>1, MatrixIndex
<1>5. \A c \in 0..Short - 1, pos \in 0..Long - 1 : Long * c + pos \in 0..N - 1
  BY <1>1, MatrixIndex
<1> QED BY <1>2, <1>3, <1>4, <1>5

\* The four kernels of the transforms take limbs to limbs.
LEMMA NTTFirstBelow ==
    ASSUME NEW C, NEW i, PrimeFits(C, i), NEW x \in LimbsBelow(C.prime[i])
    PROVE  NTTFirst(C, i, x) \in LimbsBelow(C.prime[i])
<1> DEFINE p == C.prime[i]
           psi_no == C.roots[i].psi_no
           Start(c) == [pos \in 0..Long - 1 |-> modmult(C, i, x[Short * pos + c], psi_no[Short * pos + c])]
           column == [c \in 0..Short - 1 |-> ForwardLayers(C, i, Start(c), LongLayers)]
           value(n) == modmult(C, i, column[n \div Long][n % Long], Middle(psi_no, n \div Long, n % Long))
<1> DEFINE Table == psi_no \in [0..2 * N - 1 -> Residue(p)]
<1>0. Table
  BY DEF PrimeFits
<1>1. psi_no \in [0..2 * N - 1 -> Residue(p)] /\ \A n \in 0..N - 1 : n \in 0..2 * N - 1
  <2> HIDE DEF psi_no, p
  <2> QED BY <1>0, NType
<1>2. \A n \in 0..N - 1 : x[n] \in Residue(p)
  BY DEF LimbsBelow
<1> HIDE DEF p, psi_no
<1>3. ASSUME NEW a \in Residue(p), NEW b \in Residue(p) PROVE modmult(C, i, a, b) \in Residue(p)
  BY OperationsBelow DEF p
<1>4. ASSUME NEW c \in 0..Short - 1 PROVE ForwardLayers(C, i, Start(c), LongLayers) \in Columns(LongLayers, p)
  <2>1. ASSUME NEW pos \in 0..Long - 1
        PROVE  modmult(C, i, x[Short * pos + c], psi_no[Short * pos + c]) \in Residue(p)
    <3>1. Short * pos + c \in 0..N - 1
      BY Elements
    <3> QED BY <1>1, <1>2, <1>3, <3>1
  <2>2. Start(c) \in [0..Long - 1 -> Residue(p)]
    BY <2>1
  <2> HIDE DEF Start
  <2>3. Start(c) \in Columns(LongLayers, p)
    BY <2>2, Matrix DEF Columns
  <2> QED BY <2>3, Matrix, ForwardBelow DEF p
<1>5. ASSUME NEW n \in 0..N - 1 PROVE value(n) \in Residue(p)
  <2>1. n \div Long \in 0..Short - 1 /\ n % Long \in 0..Long - 1
    BY Elements
  <2>2. column[n \div Long] \in Columns(LongLayers, p)
    BY <1>4, <2>1
  <2> HIDE DEF column
  <2>3. column[n \div Long][n % Long] \in Residue(p)
    BY <2>1, <2>2, Matrix DEF Columns
  <2>4. Middle(psi_no, n \div Long, n % Long) \in Residue(p)
    BY <1>1, <2>1, MiddleBelow
  <2> QED BY <1>3, <2>3, <2>4
<1>6. NTTFirst(C, i, x) = [n \in 0..N - 1 |-> value(n)]
  BY DEF NTTFirst, psi_no
<1> HIDE DEF value
<1> QED BY <1>5, <1>6 DEF LimbsBelow, p

\* The second kernel of the transform
LEMMA NTTSecondBelow ==
    ASSUME NEW C, NEW i, PrimeFits(C, i), NEW x \in LimbsBelow(C.prime[i])
    PROVE  NTTSecond(C, i, x) \in LimbsBelow(C.prime[i])
<1> DEFINE p == C.prime[i]
           column == [c \in 0..Long - 1 |-> ForwardLayers(C, i, ByColumn(x, Short, c), ShortLayers)]
           value(n) == column[n \div Short][n % Short]
<1>1. \A n \in 0..N - 1 : x[n] \in Residue(p)
  BY DEF LimbsBelow
<1> HIDE DEF p
<1>2. ASSUME NEW c \in 0..Long - 1
      PROVE  ForwardLayers(C, i, ByColumn(x, Short, c), ShortLayers) \in Columns(ShortLayers, p)
  <2>1. ByColumn(x, Short, c) = [pos \in 0..Short - 1 |-> x[Long * pos + c]]
    BY Matrix DEF ByColumn
  <2>2. \A pos \in 0..Short - 1 : x[Long * pos + c] \in Residue(p)
    BY <1>1, Elements
  <2>3. ByColumn(x, Short, c) \in [0..Short - 1 -> Residue(p)]
    BY <2>1, <2>2
  <2>4. ByColumn(x, Short, c) \in Columns(ShortLayers, p)
    BY <2>3, Matrix DEF Columns
  <2> QED BY <2>4, Matrix, ForwardBelow DEF p
<1>3. ASSUME NEW n \in 0..N - 1 PROVE value(n) \in Residue(p)
  <2>1. n \div Short \in 0..Long - 1 /\ n % Short \in 0..Short - 1
    BY Elements
  <2>2. column[n \div Short] \in Columns(ShortLayers, p)
    BY <1>2, <2>1
  <2> HIDE DEF column
  <2> QED BY <2>1, <2>2, Matrix DEF Columns
<1>4. NTTSecond(C, i, x) = [n \in 0..N - 1 |-> value(n)]
  BY DEF NTTSecond
<1> HIDE DEF value
<1> QED BY <1>3, <1>4 DEF LimbsBelow, p

\* The first kernel of the inverse
LEMMA INTTFirstBelow ==
    ASSUME NEW C, NEW i, PrimeFits(C, i), NEW x \in LimbsBelow(C.prime[i])
    PROVE  INTTFirst(C, i, x) \in LimbsBelow(C.prime[i])
<1> DEFINE p == C.prime[i]
           column == [c \in 0..Long - 1 |-> InverseLayers(C, i, ByRow(x, Short, c), ShortLayers)]
           value(n) == column[n % Long][n \div Long]
<1>1. \A n \in 0..N - 1 : x[n] \in Residue(p)
  BY DEF LimbsBelow
<1> HIDE DEF p
<1>2. ASSUME NEW c \in 0..Long - 1
      PROVE  InverseLayers(C, i, ByRow(x, Short, c), ShortLayers) \in Columns(ShortLayers, p)
  <2>1. \A pos \in 0..Short - 1 : x[Short * c + pos] \in Residue(p)
    BY <1>1, Elements
  <2>2. ByRow(x, Short, c) \in [0..Short - 1 -> Residue(p)]
    BY <2>1 DEF ByRow
  <2>3. ByRow(x, Short, c) \in Columns(ShortLayers, p)
    BY <2>2, Matrix DEF Columns
  <2> QED BY <2>3, Matrix, InverseBelow DEF p
<1>3. ASSUME NEW n \in 0..N - 1 PROVE value(n) \in Residue(p)
  <2>1. n \div Long \in 0..Short - 1 /\ n % Long \in 0..Long - 1
    BY Elements
  <2>2. column[n % Long] \in Columns(ShortLayers, p)
    BY <1>2, <2>1
  <2> HIDE DEF column
  <2> QED BY <2>1, <2>2, Matrix DEF Columns
<1>4. INTTFirst(C, i, x) = [n \in 0..N - 1 |-> value(n)]
  BY DEF INTTFirst
<1> HIDE DEF value
<1> QED BY <1>3, <1>4 DEF LimbsBelow, p

\* The second kernel of the inverse
LEMMA INTTSecondBelow ==
    ASSUME NEW C, NEW i, PrimeFits(C, i), NEW x \in LimbsBelow(C.prime[i])
    PROVE  INTTSecond(C, i, x) \in LimbsBelow(C.prime[i])
<1> DEFINE p == C.prime[i]
           inv == C.roots[i].inv_psi_no
           Start(c) == [pos \in 0..Long - 1 |-> modmult(C, i, x[Long * c + pos], Middle(inv, c, pos))]
           column == [c \in 0..Short - 1 |-> InverseLayers(C, i, Start(c), LongLayers)]
           value(n) == modmult(C, i, column[n % Short][n \div Short], Scaled(C, i, inv[n], N))
<1> DEFINE Table == inv \in [0..2 * N - 1 -> Residue(p)]
<1>0. Table
  BY DEF PrimeFits
<1>1. inv \in [0..2 * N - 1 -> Residue(p)] /\ \A n \in 0..N - 1 : n \in 0..2 * N - 1
  <2> HIDE DEF inv, p
  <2> QED BY <1>0, NType
<1>2. \A n \in 0..N - 1 : x[n] \in Residue(p)
  BY DEF LimbsBelow
<1>3. N \in Residue(p)
  <2>1. N < p /\ p \in Nat
    BY DEF PrimeFits
  <2>2. N \in Nat
    BY NType
  <2> HIDE DEF p
  <2> QED BY <2>1, <2>2 DEF Residue
<1> HIDE DEF p, inv
<1>4. ASSUME NEW a \in Residue(p), NEW b \in Residue(p)
      PROVE  modmult(C, i, a, b) \in Residue(p) /\ Scaled(C, i, a, b) \in Residue(p)
  BY OperationsBelow DEF p
<1>5. ASSUME NEW c \in 0..Short - 1 PROVE InverseLayers(C, i, Start(c), LongLayers) \in Columns(LongLayers, p)
  <2>1. ASSUME NEW pos \in 0..Long - 1
        PROVE  modmult(C, i, x[Long * c + pos], Middle(inv, c, pos)) \in Residue(p)
    <3>1. Long * c + pos \in 0..N - 1
      BY Elements
    <3>2. Middle(inv, c, pos) \in Residue(p)
      BY <1>1, MiddleBelow
    <3> QED BY <1>2, <1>4, <3>1, <3>2
  <2>2. Start(c) \in [0..Long - 1 -> Residue(p)]
    BY <2>1
  <2> HIDE DEF Start
  <2>3. Start(c) \in Columns(LongLayers, p)
    BY <2>2, Matrix DEF Columns
  <2> QED BY <2>3, Matrix, InverseBelow DEF p
<1>6. ASSUME NEW n \in 0..N - 1 PROVE value(n) \in Residue(p)
  <2>1. n \div Short \in 0..Long - 1 /\ n % Short \in 0..Short - 1
    BY Elements
  <2>2. column[n % Short] \in Columns(LongLayers, p)
    BY <1>5, <2>1
  <2> HIDE DEF column
  <2>3. column[n % Short][n \div Short] \in Residue(p)
    BY <2>1, <2>2, Matrix DEF Columns
  <2>4. Scaled(C, i, inv[n], N) \in Residue(p)
    BY <1>1, <1>3, <1>4
  <2> QED BY <1>4, <2>3, <2>4
<1>7. INTTSecond(C, i, x) = [n \in 0..N - 1 |-> value(n)]
  BY DEF INTTSecond, inv
<1> HIDE DEF value
<1> QED BY <1>6, <1>7 DEF LimbsBelow, p

\* Transforms take limbs to limbs.
LEMMA TransformsBelow ==
    ASSUME NEW C, NEW i, PrimeFits(C, i), NEW x \in LimbsBelow(C.prime[i])
    PROVE  NTT(C, i, x) \in LimbsBelow(C.prime[i]) /\ INTT(C, i, x) \in LimbsBelow(C.prime[i])
<1>1. NTTFirst(C, i, x) \in LimbsBelow(C.prime[i]) /\ INTTFirst(C, i, x) \in LimbsBelow(C.prime[i])
  BY NTTFirstBelow, INTTFirstBelow
<1>2. NTTSecond(C, i, NTTFirst(C, i, x)) \in LimbsBelow(C.prime[i])
  BY <1>1, NTTSecondBelow
<1>3. INTTSecond(C, i, INTTFirst(C, i, x)) \in LimbsBelow(C.prime[i])
  BY <1>1, INTTSecondBelow
<1> QED BY <1>2, <1>3 DEF NTT, INTT
-----------------------------------------------------------------------------
(* The other kernels                                                       *)

\* All primes of a context, by number
Numbers(C) == 0..C.L + C.K - 1

\* A polynomial with a limb for each prime of a set
IsPoly(C, I, x) == DOMAIN x = I /\ \A i \in I : x[i] \in LimbsBelow(C.prime[i])

\* The limbs of the digits in use that the kernels convert to
IsDigits(C, g) ==
    DOMAIN g = DigitsInUse(C) /\ \A d \in DigitsInUse(C) : IsPoly(C, DigitTo(C, d, Level), g[d])

\* The factors that scale limbs of prime i
FactorsFit(C) ==
    /\ \A l \in 0..C.L - 1, i \in 0..C.L - 1 : C.q_inv[l][i] \in Residue(C.prime[i])
    /\ \A i \in 0..C.L - 1 : C.P_inv[i] \in Residue(C.prime[i])
    /\ \A k \in 0..C.K - 1 : C.ModDown_pre_scale[k] \in Residue(C.prime[C.L + k])
    /\ \A d \in 0..C.dnum - 1, l \in 0..C.L - 1 : \A i \in DigitFrom(C, d, l) :
          C.pre_scale[d][Cardinality(DigitFrom(C, d, l)) - 1][i] \in Residue(C.prime[i])

\* The matrices and the key, whose products are summed up
MatricesFit(C) ==
    /\ \A k \in 0..C.K - 1, i \in 0..C.L - 1 : C.ModDown_matrix[k][i] \in Residue(C.prime[i])
    /\ \A l \in 0..C.L - 1, d \in 0..C.dnum - 1 : \A i \in DigitFrom(C, d, l), j \in DigitTo(C, d, l) :
          \E m \in Numbers(C) : C.matrix[l][i][j] \in Residue(C.prime[m])

\* Both halves of a key have limbs for every digit and every prime.
KeyFits(C, key) ==
    \A d \in 0..C.dnum - 1, i \in Numbers(C), h \in {"a", "b"} : key[d][i][h] \in LimbsBelow(C.prime[i])

\* Tables as the kernels rely on them
BasisFits(C) ==
    /\ C.L \in Nat /\ C.K \in Nat /\ C.dnum \in 1..C.L
    /\ \A i \in Numbers(C) : PrimeFits(C, i)
    /\ \A i, j \in Numbers(C) : (C.L + C.K) * C.prime[i] * C.prime[j] <= W * W
\* All the tables of a context
Fits(C) == BasisFits(C) /\ FactorsFit(C) /\ MatricesFit(C)

\* The product is at a level of the context.
AtLevel(C) == Level \in 0..C.L - 1

\* The primes of ciphertexts, of digits and of keys are primes of the context.
LEMMA Parts ==
    ASSUME NEW C, BasisFits(C), AtLevel(C)
    PROVE  /\ Regular \subseteq Numbers(C) /\ Special(C) \subseteq Numbers(C)
           /\ \A d : DigitFrom(C, d, Level) \subseteq Regular /\ DigitTo(C, d, Level) \subseteq Numbers(C)
           /\ Level \in Nat /\ Level \in Regular
<1>1. C.L \in Nat /\ C.K \in Nat /\ Level \in 0..C.L - 1
  BY DEF BasisFits, AtLevel
<1> HIDE DEF Level
<1>2. Regular \subseteq Numbers(C) /\ Special(C) \subseteq Numbers(C) /\ Level \in Nat /\ Level \in Regular
  BY <1>1 DEF Regular, Numbers, Special
<1> QED BY <1>2 DEF DigitFrom, DigitTo, Regular

\* Limb by limb
LEMMA LimbwiseBelow ==
    ASSUME NEW C, NEW i, PrimeFits(C, i),
           NEW x \in LimbsBelow(C.prime[i]), NEW y \in LimbsBelow(C.prime[i])
    PROVE  /\ modmultLimb(C, i, x, y) \in LimbsBelow(C.prime[i])
           /\ modaddLimb(C, i, x, y) \in LimbsBelow(C.prime[i])
<1> DEFINE p == C.prime[i]
<1>1. \A k \in 0..N - 1 : x[k] \in Residue(p) /\ y[k] \in Residue(p)
  BY DEF LimbsBelow
<1>2. \A k \in 0..N - 1 : modmult(C, i, x[k], y[k]) \in Residue(p) /\ modadd(x[k], y[k], p) \in Residue(p)
  BY <1>1, OperationsBelow
<1> HIDE DEF p
<1> QED BY <1>2 DEF modmultLimb, modaddLimb, LimbsBelow, p

\* Products and sums of polynomials, limb by limb
LEMMA ProductsBelow ==
    ASSUME NEW C, BasisFits(C), AtLevel(C), NEW x, IsPoly(C, Regular, x), NEW y, IsPoly(C, Regular, y)
    PROVE  IsPoly(C, Regular, Products(C, x, y)) /\ IsPoly(C, Regular, Sums(C, x, y))
<1>1. ASSUME NEW i \in Regular
      PROVE  /\ modmultLimb(C, i, x[i], y[i]) \in LimbsBelow(C.prime[i])
             /\ modaddLimb(C, i, x[i], y[i]) \in LimbsBelow(C.prime[i])
  <2>1. PrimeFits(C, i)
    BY Parts DEF BasisFits
  <2>2. x[i] \in LimbsBelow(C.prime[i]) /\ y[i] \in LimbsBelow(C.prime[i])
    BY DEF IsPoly
  <2> QED BY <2>1, <2>2, LimbwiseBelow
<1> QED BY <1>1 DEF IsPoly, Products, Sums

\* Transforms of some limbs or of all
LEMMA BackBelow ==
    ASSUME NEW C, BasisFits(C), AtLevel(C), NEW I \in SUBSET Numbers(C), NEW x, IsPoly(C, I, x)
    PROVE  IsPoly(C, I, AllBack(C, x)) /\ IsPoly(C, I, TopBack(C, x))
<1>1. ASSUME NEW i \in I PROVE INTT(C, i, x[i]) \in LimbsBelow(C.prime[i])
  <2>1. PrimeFits(C, i) /\ x[i] \in LimbsBelow(C.prime[i])
    BY DEF BasisFits, IsPoly
  <2> QED BY <2>1, TransformsBelow
<1>2. IsPoly(C, I, AllBack(C, x))
  BY <1>1 DEF IsPoly, AllBack
<1> DEFINE y == TopBack(C, x)
<1>3. DOMAIN y = I /\ \A i \in I : y[i] = IF i = Level THEN INTT(C, Level, x[Level]) ELSE x[i]
  BY DEF IsPoly, TopBack
<1> HIDE DEF y
<1>4. IsPoly(C, I, y)
  BY <1>1, <1>3 DEF IsPoly
<1> QED BY <1>2, <1>4 DEF y

\* Transforms of the limbs of the digits
LEMMA DigitsForwardBelow ==
    ASSUME NEW C, BasisFits(C), AtLevel(C), NEW g, IsDigits(C, g), NEW primes
    PROVE  IsDigits(C, DigitsForward(C, g, primes))
<1> DEFINE y == DigitsForward(C, g, primes)
           limb(d, i) == IF i \in primes THEN NTT(C, i, g[d][i]) ELSE g[d][i]
<1>1. \A d \in DigitsInUse(C) : y[d] = [i \in DigitTo(C, d, Level) |-> limb(d, i)]
  BY DEF DigitsForward, IsDigits, IsPoly
<1>2. DOMAIN y = DigitsInUse(C)
  BY DEF DigitsForward, IsDigits
<1>3. ASSUME NEW d \in DigitsInUse(C), NEW i \in DigitTo(C, d, Level)
      PROVE  limb(d, i) \in LimbsBelow(C.prime[i])
  <2>1. g[d][i] \in LimbsBelow(C.prime[i])
    BY DEF IsDigits, IsPoly
  <2>2. PrimeFits(C, i)
    BY Parts DEF BasisFits
  <2> QED BY <2>1, <2>2, TransformsBelow
<1> HIDE DEF y, limb
<1>4. IsDigits(C, y)
  BY <1>1, <1>2, <1>3 DEF IsDigits, IsPoly
<1> QED BY <1>4 DEF y

\* Sums of products of residues fit in two words.
Share(C) == (W * W - 1) \div (C.L + C.K)

\* Each product of residues is within a share of two words.
LEMMA ShareBound ==
    ASSUME NEW C, BasisFits(C)
    PROVE  /\ Share(C) \in Nat
           /\ \A n \in Nat : n <= C.L + C.K => n * Share(C) <= W * W - 1
           /\ \A i, j \in Numbers(C) : \A a \in Residue(C.prime[i]), b \in Residue(C.prime[j]) :
                 a * b \in 0..Share(C)
<1> DEFINE M == C.L + C.K
           V == W * W
           s == Share(C)
<1>1. M \in Nat \ {0} /\ V \in Nat \ {0}
  BY NType, WordAssumption DEF BasisFits
<1>2. s = (V - 1) \div M
  BY DEF Share
<1>3. \A i, j \in Numbers(C) : /\ C.prime[i] \in Nat /\ C.prime[j] \in Nat
                              /\ M * C.prime[i] * C.prime[j] <= V
  BY PrimeType DEF BasisFits
<1> HIDE DEF M, V, s
<1> DEFINE z == M * s
<1>4. s \in Nat /\ z <= V - 1 /\ V - 1 < z + M
  <2>1. V - 1 \in Nat
    BY <1>1
  <2> DEFINE r == (V - 1) % M
  <2>2. r \in 0..M - 1 /\ V - 1 = M * s + r /\ s \in Int
    BY <1>1, <1>2, <2>1, Division
  <2> HIDE DEF r
  <2>3. s \in Nat
    <3>1. SUFFICES ASSUME s < 0 PROVE FALSE
      BY <2>2
    <3>2. M * s <= M * (-1)
      BY <1>1, <2>2, <3>1
    <3> QED BY <1>1, <2>1, <2>2, <3>2
  <2> QED BY <2>2, <2>3, <1>1
<1>5. ASSUME NEW n \in Nat, n <= M PROVE n * s <= V - 1
  <2> DEFINE e == M - n
  <2>1. e \in Nat /\ M = n + e
    BY <1>1, <1>5
  <2> HIDE DEF e
  <2>2. e * s \in Nat /\ n * s \in Nat /\ (n + e) * s = n * s + e * s
    BY <1>4, <2>1
  <2> QED BY <1>1, <1>4, <2>1, <2>2
<1>6. ASSUME NEW i \in Numbers(C), NEW j \in Numbers(C),
             NEW a \in Residue(C.prime[i]), NEW b \in Residue(C.prime[j])
      PROVE  a * b \in 0..s
  <2> DEFINE p == C.prime[i]
             q == C.prime[j]
             x == a * b
             y == p * q
  <2>1. p \in Nat /\ q \in Nat /\ M * p * q <= V /\ a \in 0..p - 1 /\ b \in 0..q - 1
    BY <1>3 DEF Residue
  <2> HIDE DEF p, q
  <2>2. x \in Nat /\ y \in Nat /\ x + 1 <= y
    <3>1. a * b <= a * q /\ a * q <= (p - 1) * q /\ (p - 1) * q = y - q
      BY <2>1
    <3> QED BY <2>1, <3>1
  <2>3. M * y <= V
    BY <1>1, <2>1
  <2> HIDE DEF x, y
  <2>4. M * (x + 1) <= M * y
    BY <1>1, <2>2
  <2>5. M * (x + 1) = M * x + M
    BY <1>1, <2>2
  <2>6. SUFFICES ASSUME x > s PROVE FALSE
    BY <2>2, <1>4 DEF x
  <2>7. M * x >= M * (s + 1) /\ M * (s + 1) = M * s + M
    BY <1>1, <1>4, <2>2, <2>6
  <2> DEFINE v == M * x
             w == M * y
  <2>8. v \in Int /\ w \in Int /\ z \in Int /\ v >= z + M /\ v + M <= w /\ w <= V
    BY <1>1, <1>4, <2>2, <2>3, <2>4, <2>5, <2>7
  <2> HIDE DEF v, w, z
  <2> QED BY <1>1, <1>4, <2>8
<1>7. \A i, j \in Numbers(C) : \A a \in Residue(C.prime[i]), b \in Residue(C.prime[j]) : a * b \in 0..s
  BY <1>6
<1> QED BY <1>4, <1>5, <1>7 DEF s, V, M

\* The scaling of a limb by a constant
LEMMA ScaledBelow ==
    ASSUME NEW C, NEW i, PrimeFits(C, i), NEW x \in LimbsBelow(C.prime[i]), NEW b \in Residue(C.prime[i])
    PROVE  \A k \in 0..N - 1 : Scaled(C, i, x[k], b) \in Residue(C.prime[i])
<1>1. \A k \in 0..N - 1 : x[k] \in Residue(C.prime[i])
  BY DEF LimbsBelow
<1> QED BY <1>1, OperationsBelow

\* A sum over some primes or digits, reduced
LEMMA SumReduced ==
    ASSUME NEW C, BasisFits(C), NEW j \in Numbers(C), NEW S, IsFiniteSet(S),
           Cardinality(S) <= C.L + C.K, NEW w \in [S -> 0..Share(C)]
    PROVE  modreduce(C, j, SumOver(w, S)) \in Residue(C.prime[j])
<1> DEFINE m == Share(C)
           n == Cardinality(S)
           v == SumOver(w, S)
           z == n * m
<1>1. m \in Nat /\ n \in Nat /\ z <= W * W - 1
  BY ShareBound, FS_CardinalityType
<1>2. v \in 0..z
  BY <1>1, SumOverBound
<1> HIDE DEF m, n, z, v
<1>3. z \in Nat
  BY <1>1 DEF z
<1>4. v \in 0..W * W - 1
  BY <1>1, <1>2, <1>3, NType
<1>5. PrimeFits(C, j)
  BY DEF BasisFits
<1>6. modreduce(C, j, v) \in Residue(C.prime[j])
  BY <1>4, <1>5, modreduceBelow
<1> QED BY <1>6 DEF v

\* The digits in use, and their primes, are finitely many.
LEMMA DigitSizes ==
    ASSUME NEW C, BasisFits(C), AtLevel(C)
    PROVE  /\ DigitsInUse(C) \subseteq 0..C.dnum - 1
           /\ IsFiniteSet(DigitsInUse(C)) /\ Cardinality(DigitsInUse(C)) <= C.L + C.K
           /\ \A d : /\ IsFiniteSet(DigitFrom(C, d, Level))
                     /\ Cardinality(DigitFrom(C, d, Level)) <= C.L + C.K
<1>1. C.L \in Nat /\ C.K \in Nat /\ C.dnum \in 1..C.L /\ Level \in 0..C.L - 1
  BY DEF BasisFits, AtLevel
<1> HIDE DEF Level
<1>2. ASSUME NEW n \in Nat, n <= C.L + C.K, NEW T, T \subseteq 0..n - 1
      PROVE  IsFiniteSet(T) /\ Cardinality(T) <= C.L + C.K
  <2> DEFINE U == 0..n - 1
  <2>1. IsFiniteSet(U) /\ Cardinality(U) = n
    BY <1>2, FS_Interval
  <2> HIDE DEF U
  <2>2. IsFiniteSet(T) /\ Cardinality(T) <= Cardinality(U)
    BY <1>2, <2>1, FS_Subset DEF U
  <2>3. Cardinality(T) \in Nat
    BY <2>2, FS_CardinalityType
  <2> QED BY <1>1, <1>2, <2>1, <2>2, <2>3
<1>3. DigitsInUse(C) \subseteq 0..C.dnum - 1
  BY DEF DigitsInUse
<1>4. \A d : DigitFrom(C, d, Level) \subseteq 0..(Level + 1) - 1
  BY <1>1 DEF DigitFrom
<1>5. C.dnum \in Nat /\ C.dnum <= C.L + C.K /\ Level + 1 \in Nat /\ Level + 1 <= C.L + C.K
  BY <1>1
<1> QED BY <1>2, <1>3, <1>4, <1>5

\* A digit, taken to the primes it does not have
LEMMA ModUpBelow ==
    ASSUME NEW C, BasisFits(C), FactorsFit(C), MatricesFit(C), AtLevel(C),
           NEW x, IsPoly(C, Regular, x), NEW d \in DigitsInUse(C)
    PROVE  IsPoly(C, DigitTo(C, d, Level), DecompAndModUpConv(C, d, x))
<1> DEFINE from == DigitFrom(C, d, Level)
           scale == C.pre_scale[d][Cardinality(from) - 1]
           scaled == [i \in from |-> [k \in 0..N - 1 |-> Scaled(C, i, x[i][k], scale[i])]]
           w(k, j) == [i \in from |-> scaled[i][k] * C.matrix[Level][i][j]]
           value(k, j) == modreduce(C, j, SumOver(w(k, j), from))
<1>1. d \in 0..C.dnum - 1 /\ Level \in 0..C.L - 1 /\ from \subseteq Regular /\ from \subseteq Numbers(C)
  BY Parts, DigitSizes DEF AtLevel
<1>2. IsFiniteSet(from) /\ Cardinality(from) <= C.L + C.K
  BY DigitSizes
<1>3. \A i \in from : scale[i] \in Residue(C.prime[i])
  BY <1>1 DEF FactorsFit
<1>4. \A i \in from, j \in DigitTo(C, d, Level) :
          \E m \in Numbers(C) : C.matrix[Level][i][j] \in Residue(C.prime[m])
  BY <1>1 DEF MatricesFit
<1>5. DecompAndModUpConv(C, d, x) = [j \in DigitTo(C, d, Level) |-> [k \in 0..N - 1 |-> value(k, j)]]
  BY DEF DecompAndModUpConv
<1>6. DigitTo(C, d, Level) \subseteq Numbers(C)
  BY Parts
<1> HIDE DEF from, scale
<1>7. ASSUME NEW i \in from, NEW k \in 0..N - 1
      PROVE  scaled[i][k] \in Residue(C.prime[i])
  <2>1. PrimeFits(C, i) /\ x[i] \in LimbsBelow(C.prime[i])
    BY <1>1 DEF BasisFits, IsPoly
  <2>2. Scaled(C, i, x[i][k], scale[i]) \in Residue(C.prime[i])
    BY <1>3, <2>1, ScaledBelow
  <2> QED BY <2>2
<1> HIDE DEF scaled
<1>8. ASSUME NEW j \in DigitTo(C, d, Level), NEW k \in 0..N - 1 PROVE value(k, j) \in Residue(C.prime[j])
  <2>1. ASSUME NEW i \in from PROVE scaled[i][k] * C.matrix[Level][i][j] \in 0..Share(C)
    <3>1. PICK m \in Numbers(C) : C.matrix[Level][i][j] \in Residue(C.prime[m])
      BY <1>4
    <3>2. scaled[i][k] \in Residue(C.prime[i]) /\ i \in Numbers(C)
      BY <1>1, <1>7
    <3> QED BY <3>1, <3>2, ShareBound
  <2>2. w(k, j) \in [from -> 0..Share(C)]
    BY <2>1
  <2>3. j \in Numbers(C)
    BY <1>6
  <2> HIDE DEF w
  <2> QED BY <1>2, <2>2, <2>3, SumReduced
<1> HIDE DEF value
<1> QED BY <1>5, <1>8 DEF IsPoly, LimbsBelow

\* The special limbs, taken to the other primes
LEMMA ModDownBelow ==
    ASSUME NEW C, BasisFits(C), FactorsFit(C), MatricesFit(C), AtLevel(C),
           NEW x, IsPoly(C, Special(C), x)
    PROVE  IsPoly(C, Regular, ModDown2(C, x))
<1> DEFINE scaled == [q \in 0..C.K - 1 |-> [k \in 0..N - 1 |->
                         Scaled(C, C.L + q, x[C.L + q][k], C.ModDown_pre_scale[q])]]
           w(k, i) == [q \in 0..C.K - 1 |-> scaled[q][k] * C.ModDown_matrix[q][i]]
           value(k, i) == modreduce(C, i, SumTo(C.K, w(k, i)))
<1>1. C.L \in Nat /\ C.K \in Nat /\ Level \in 0..C.L - 1
  BY DEF BasisFits, AtLevel
<1>2. \A q \in 0..C.K - 1 : C.L + q \in Special(C) /\ C.L + q \in Numbers(C)
  BY <1>1 DEF Special, Numbers
<1>3. \A i \in Regular : i \in 0..C.L - 1 /\ i \in Numbers(C)
  <2> HIDE DEF Level
  <2> QED BY <1>1 DEF Regular, Numbers
<1>4. ModDown2(C, x) = [i \in Regular |-> [k \in 0..N - 1 |-> value(k, i)]]
  BY DEF ModDown2
<1>5. ASSUME NEW q \in 0..C.K - 1, NEW k \in 0..N - 1
      PROVE  scaled[q][k] \in Residue(C.prime[C.L + q])
  <2>1. PrimeFits(C, C.L + q) /\ x[C.L + q] \in LimbsBelow(C.prime[C.L + q])
    BY <1>2 DEF BasisFits, IsPoly
  <2>2. C.ModDown_pre_scale[q] \in Residue(C.prime[C.L + q])
    BY DEF FactorsFit
  <2> DEFINE n == C.L + q
  <2> HIDE DEF n
  <2>3. Scaled(C, n, x[n][k], C.ModDown_pre_scale[q]) \in Residue(C.prime[n])
    BY <2>1, <2>2, ScaledBelow DEF n
  <2> QED BY <2>3 DEF n
<1> HIDE DEF scaled
<1>6. ASSUME NEW i \in Regular, NEW k \in 0..N - 1 PROVE value(k, i) \in Residue(C.prime[i])
  <2> DEFINE m == Share(C)
             v == SumTo(C.K, w(k, i))
             z == C.K * m
  <2>1. ASSUME NEW q \in 0..C.K - 1 PROVE scaled[q][k] * C.ModDown_matrix[q][i] \in 0..m
    <3>1. C.ModDown_matrix[q][i] \in Residue(C.prime[i])
      BY <1>3 DEF MatricesFit
    <3>2. scaled[q][k] \in Residue(C.prime[C.L + q])
      BY <1>5
    <3> QED BY <1>2, <1>3, <3>1, <3>2, ShareBound
  <2>2. w(k, i) \in [0..C.K - 1 -> 0..m]
    BY <2>1
  <2>3. m \in Nat /\ z <= W * W - 1
    BY <1>1, ShareBound
  <2>4. v \in 0..z
    <3> HIDE DEF w, m
    <3> QED BY <1>1, <2>2, <2>3, SumToBound
  <2>5. z \in Nat
    BY <1>1, <2>3
  <2> HIDE DEF v, z, m
  <2>6. v \in 0..W * W - 1
    BY <2>3, <2>4, <2>5, NType
  <2>7. PrimeFits(C, i)
    BY <1>3 DEF BasisFits
  <2>8. modreduce(C, i, v) \in Residue(C.prime[i])
    BY <2>6, <2>7, modreduceBelow
  <2> QED BY <2>8 DEF v
<1> HIDE DEF value
<1> QED BY <1>4, <1>6 DEF IsPoly, LimbsBelow

\* The products with the key, over the digits
LEMMA DotBelow ==
    ASSUME NEW C, BasisFits(C), AtLevel(C), NEW x, IsPoly(C, Regular, x), NEW g, IsDigits(C, g),
           NEW key, KeyFits(C, key), NEW h \in {"a", "b"},
           NEW primes, primes \subseteq Regular \/ primes \subseteq Special(C)
    PROVE  IsPoly(C, primes, fusedDotKSK_2_(C, x, g, key, h, primes))
<1> DEFINE limb(d, i) == IF i < C.L /\ C.digit[i] = d THEN x[i] ELSE g[d][i]
           D == DigitsInUse(C)
           w(k, i) == [d \in D |-> limb(d, i)[k] * key[d][i][h][k]]
           value(k, i) == modreduce(C, i, SumOver(w(k, i), D))
<1>1. C.L \in Nat /\ C.K \in Nat /\ Level \in 0..C.L - 1
  BY DEF BasisFits, AtLevel
<1>2. D \subseteq 0..C.dnum - 1 /\ IsFiniteSet(D) /\ Cardinality(D) <= C.L + C.K
  BY DigitSizes
<1>3. fusedDotKSK_2_(C, x, g, key, h, primes) = [i \in primes |-> [k \in 0..N - 1 |-> value(k, i)]]
  BY DEF fusedDotKSK_2_
<1>4. ASSUME NEW i \in primes
      PROVE  i \in Numbers(C) /\ (i \in Regular \/ (i \in Special(C) /\ ~(i < C.L)))
  <2> HIDE DEF Level
  <2> QED BY <1>1 DEF Numbers, Special, Regular
<1>5. ASSUME NEW i \in primes, NEW d \in D PROVE limb(d, i) \in LimbsBelow(C.prime[i])
  <2>1. CASE i < C.L /\ C.digit[i] = d
    <3>1. i \in Regular
      BY <1>4, <2>1
    <3> QED BY <2>1, <3>1 DEF IsPoly
  <2>2. CASE ~(i < C.L /\ C.digit[i] = d)
    <3>1. i \in DigitTo(C, d, Level)
      <4>1. CASE i \in Special(C)
        BY <4>1 DEF DigitTo
      <4>2. CASE i \in Regular
        <5>1. i < C.L /\ i \in 0..Level
          <6> HIDE DEF Level
          <6> QED BY <1>1, <4>2 DEF Regular
        <5> QED BY <2>2, <5>1 DEF DigitTo
      <4> QED BY <1>4, <4>1, <4>2
    <3> QED BY <2>2, <3>1 DEF IsDigits, IsPoly
  <2> QED BY <2>1, <2>2
<1> HIDE DEF limb, D
<1>6. ASSUME NEW i \in primes, NEW k \in 0..N - 1 PROVE value(k, i) \in Residue(C.prime[i])
  <2>1. ASSUME NEW d \in D PROVE limb(d, i)[k] * key[d][i][h][k] \in 0..Share(C)
    <3>1. limb(d, i)[k] \in Residue(C.prime[i])
      BY <1>5 DEF LimbsBelow
    <3>2. key[d][i][h] \in LimbsBelow(C.prime[i])
      BY <1>2, <1>4 DEF KeyFits
    <3>3. key[d][i][h][k] \in Residue(C.prime[i])
      BY <3>2 DEF LimbsBelow
    <3> QED BY <1>4, <3>1, <3>3, ShareBound
  <2>2. w(k, i) \in [D -> 0..Share(C)]
    BY <2>1
  <2> HIDE DEF w
  <2> QED BY <1>2, <1>4, <2>2, SumReduced
<1> HIDE DEF value
<1> QED BY <1>3, <1>6 DEF IsPoly, LimbsBelow

\* The end of a key switch and of a rescale
LEMMA FusedBelow ==
    ASSUME NEW C, BasisFits(C), FactorsFit(C), AtLevel(C), NEW i \in Regular,
           NEW x \in LimbsBelow(C.prime[i]), NEW y \in LimbsBelow(C.prime[i])
    PROVE  /\ moddown_fusion(C, i, x, y) \in LimbsBelow(C.prime[i])
           /\ rescale_fusion(C, i, x, y) \in LimbsBelow(C.prime[i])
<1> DEFINE p == C.prime[i]
           t(k) == modsub(x[k], y[k], p)
<1>1. PrimeFits(C, i)
  BY Parts DEF BasisFits
<1>2. C.P_inv[i] \in Residue(p) /\ C.q_inv[Level][i] \in Residue(p)
  <2>1. C.L \in Nat /\ Level \in 0..C.L - 1
    BY DEF BasisFits, AtLevel
  <2>2. i \in 0..C.L - 1
    <3> HIDE DEF Level
    <3> QED BY <2>1 DEF Regular
  <2> QED BY <2>1, <2>2 DEF FactorsFit
<1>3. \A k \in 0..N - 1 : x[k] \in Residue(p) /\ y[k] \in Residue(p)
  BY DEF LimbsBelow
<1>4. \A k \in 0..N - 1 : t(k) \in Residue(p)
  BY <1>1, <1>3, OperationsBelow
<1> HIDE DEF t
<1>5. \A k \in 0..N - 1 : /\ Scaled(C, i, t(k), C.P_inv[i]) \in Residue(p)
                          /\ modmult(C, i, C.q_inv[Level][i], t(k)) \in Residue(p)
  BY <1>1, <1>2, <1>4, OperationsBelow
<1>6. /\ moddown_fusion(C, i, x, y) = [k \in 0..N - 1 |-> Scaled(C, i, t(k), C.P_inv[i])]
      /\ rescale_fusion(C, i, x, y) = [k \in 0..N - 1 |-> modmult(C, i, C.q_inv[Level][i], t(k))]
  BY DEF moddown_fusion, rescale_fusion, t
<1> HIDE DEF p
<1> QED BY <1>5, <1>6 DEF LimbsBelow, p

\* The division by the special primes
LEMMA ModDownLimbsBelow ==
    ASSUME NEW C, BasisFits(C), FactorsFit(C), AtLevel(C),
           NEW x, IsPoly(C, Regular, x), NEW y, IsPoly(C, Regular, y)
    PROVE  IsPoly(C, Regular, ModDownLimbs(C, x, y))
<1>1. ASSUME NEW i \in Regular
      PROVE  moddown_fusion(C, i, x[i], NTT(C, i, y[i])) \in LimbsBelow(C.prime[i])
  <2>1. PrimeFits(C, i) /\ x[i] \in LimbsBelow(C.prime[i]) /\ y[i] \in LimbsBelow(C.prime[i])
    BY Parts DEF BasisFits, IsPoly
  <2>2. NTT(C, i, y[i]) \in LimbsBelow(C.prime[i])
    BY <2>1, TransformsBelow
  <2> QED BY <2>1, <2>2, FusedBelow
<1> QED BY <1>1 DEF IsPoly, ModDownLimbs

\* The last limb, taken to another prime
LEMMA SwitchedBelow ==
    ASSUME NEW C, BasisFits(C), AtLevel(C), NEW i \in Regular, NEW x \in LimbsBelow(C.prime[Level])
    PROVE  Switched(C, i, x) \in LimbsBelow(C.prime[i])
<1> DEFINE om == C.prime[Level]
           nm == C.prime[i]
           value(k) == SwitchModulus(x[k], om, nm, shoup_precomp(1, nm))
<1>1. PrimeFits(C, i) /\ PrimeFits(C, Level)
  BY Parts DEF BasisFits
<1>2. om \in Nat \ {0} /\ nm \in Nat \ {0} /\ nm > 1 /\ 2 * om <= W /\ 2 * nm <= W
  BY <1>1, PrimeType
<1>3. Switched(C, i, x) = [k \in 0..N - 1 |-> value(k)]
  BY DEF Switched
<1>4. \A k \in 0..N - 1 : x[k] \in 0..om - 1
  BY DEF LimbsBelow, Residue
<1> HIDE DEF om, nm
<1>5. ASSUME NEW k \in 0..N - 1 PROVE value(k) \in 0..nm - 1
  <2> DEFINE a == x[k]
             b == IF a > om \div 2 THEN a - om ELSE a
  <2>1. a \in 0..om - 1
    BY <1>4
  <2> HIDE DEF a
  <2>2. SwitchModulus(a, om, nm, shoup_precomp(1, nm)) = b % nm
    BY <1>2, <2>1, SwitchExact
  <2>3. b \in Int
    BY <1>2, <2>1
  <2> HIDE DEF b
  <2>4. b % nm \in 0..nm - 1
    BY <1>2, <2>3, Below
  <2> QED BY <2>2, <2>4 DEF a
<1> HIDE DEF value
<1> QED BY <1>3, <1>5 DEF LimbsBelow, Residue, nm

\* The division by the last prime
LEMMA RescaledBelow ==
    ASSUME NEW C, BasisFits(C), FactorsFit(C), AtLevel(C), NEW x, IsPoly(C, Regular, x)
    PROVE  IsPoly(C, 0..Level - 1, RescaledLimbs(C, x))
<1>1. ASSUME NEW i \in 0..Level - 1 PROVE i \in Regular
  <2>1. Level \in Nat
    BY Parts
  <2> HIDE DEF Level
  <2> QED BY <2>1 DEF Regular
<1>2. ASSUME NEW i \in 0..Level - 1
      PROVE  rescale_fusion(C, i, x[i], NTT(C, i, Switched(C, i, x[Level]))) \in LimbsBelow(C.prime[i])
  <2>1. i \in Regular /\ PrimeFits(C, i) /\ x[i] \in LimbsBelow(C.prime[i])
    BY <1>1, Parts DEF BasisFits, IsPoly
  <2>2. x[Level] \in LimbsBelow(C.prime[Level])
    BY Parts DEF IsPoly
  <2>3. Switched(C, i, x[Level]) \in LimbsBelow(C.prime[i])
    BY <2>1, <2>2, SwitchedBelow
  <2>4. NTT(C, i, Switched(C, i, x[Level])) \in LimbsBelow(C.prime[i])
    BY <2>1, <2>3, TransformsBelow
  <2> QED BY <2>1, <2>4, FusedBelow
<1> QED BY <1>2 DEF IsPoly, RescaledLimbs

\* Operands and keys, which are made by formula
LEMMA LimbBelow ==
    ASSUME NEW C, NEW i \in Nat, PrimeFits(C, i), NEW seed \in Nat
    PROVE  Limb(C, i, seed) \in LimbsBelow(C.prime[i])
<1> DEFINE p == C.prime[i]
           value(k) == IF seed = 0 THEN p - 1 ELSE (k * k * (seed + 6) + 31 * (i + seed) + 5 * k) % p
<1>1. p \in Nat \ {0}
  BY PrimeType
<1>2. Limb(C, i, seed) = [k \in 0..N - 1 |-> value(k)]
  BY DEF Limb
<1> HIDE DEF p
<1>3. ASSUME NEW k \in 0..N - 1 PROVE value(k) \in 0..p - 1
  <2> DEFINE x == k * k * (seed + 6) + 31 * (i + seed) + 5 * k
  <2>1. x \in Int
    OBVIOUS
  <2> HIDE DEF x
  <2>2. x % p \in 0..p - 1
    BY <1>1, <2>1, Below
  <2> QED BY <1>1, <2>2 DEF x
<1> HIDE DEF value
<1> QED BY <1>2, <1>3 DEF LimbsBelow, Residue, p

\* An operand, up to its level
LEMMA LimbsAreBelow ==
    ASSUME NEW C, BasisFits(C), NEW l \in 0..C.L - 1, NEW seed \in Nat
    PROVE  IsPoly(C, 0..l, Limbs(C, l, seed))
<1>1. ASSUME NEW i \in 0..l PROVE i \in Nat /\ PrimeFits(C, i)
  BY DEF BasisFits, Numbers
<1>2. ASSUME NEW i \in 0..l PROVE Limb(C, i, seed) \in LimbsBelow(C.prime[i])
  BY <1>1, LimbBelow
<1> QED BY <1>2 DEF IsPoly, Limbs
-----------------------------------------------------------------------------
(* The tables of a context                                                 *)

\* What a basis has
LEMMA BasisFields ==
    ASSUME NEW s, NEW B, B = Basis(s)
    PROVE  /\ B.L = Len(s.q) /\ B.K = Len(s.p) /\ B.dnum = s.dnum
           /\ DOMAIN B = {"L", "K", "dnum", "digit", "whole", "first", "prime"}
BY DEF Basis

\* Its primes by number
LEMMA BasisPrime ==
    ASSUME NEW s, NEW B, B = Basis(s)
    PROVE  LET I == 0..Len(s.q) + Len(s.p) - 1
               primes == s.q \o s.p
           IN  DOMAIN B.prime = I /\ \A i \in I : B.prime[i] = primes[i + 1]
<1> DEFINE I == 0..Len(s.q) + Len(s.p) - 1
           primes == s.q \o s.p
<1>1. B.prime = [i \in I |-> primes[i + 1]]
  BY DEF Basis
<1> HIDE DEF I, primes
<1>2. DOMAIN B.prime = I /\ \A i \in I : B.prime[i] = primes[i + 1]
  BY <1>1
<1> QED BY <1>2 DEF I, primes

\* What is joined has the fields of both.
LEMMA JoinedDomain ==
    ASSUME NEW f, NEW g
    PROVE  DOMAIN Joined(f, g) = DOMAIN f \cup DOMAIN g
BY DEF Joined

\* The fields of the first come first.
LEMMA JoinedValues ==
    ASSUME NEW f, NEW g
    PROVE  /\ \A x \in DOMAIN f : Joined(f, g)[x] = f[x]
           /\ \A x \in DOMAIN g : x \notin DOMAIN f => Joined(f, g)[x] = g[x]
BY DEF Joined

\* C has the tables for basis B.
TablesOf(C, B) ==
    LET P == DOMAIN B.prime
    IN  /\ C.L = B.L /\ C.K = B.K /\ C.dnum = B.dnum /\ C.digit = B.digit /\ C.prime = B.prime
        /\ C.S = [i \in P |-> TwoTo(bit_width(B.prime[i]) - 2)]
        /\ C.T = [i \in P |-> TwoTo(WordBits - 4) \div C.S[i]]
        /\ C.prime_better_barret_mu = [i \in P |-> mu_new(B.prime[i], C.S[i])]
        /\ C.roots = [i \in P |-> Roots(B.prime[i])]
        /\ C.q_inv = [i \in P |-> [j \in P |-> modinv(B.prime[i], B.prime[j])]]
        /\ C.P_inv = [i \in 0..B.L - 1 |-> PInvModq(B, i)]
        /\ C.ModDown_pre_scale = [k \in 0..B.K - 1 |-> PHatInvModp(B, k)]
        /\ C.ModDown_matrix = [k \in 0..B.K - 1 |-> [i \in 0..B.L - 1 |-> PHatModq(B, k, i)]]
        /\ C.pre_scale = [d \in 0..B.dnum - 1 |-> DecompAndModUp_pre_scale(B, d)]
        /\ C.matrix = [l \in 0..B.L - 1 |-> DecompAndModUp_matrix(B, l)]

\* The names of the tables
TableFields == {"L", "K", "dnum", "digit", "whole", "first", "prime", "S", "T", "prime_better_barret_mu",
                "roots", "q_inv", "P_inv", "ModDown_pre_scale", "ModDown_matrix", "pre_scale", "matrix"}

\* SetupConstants makes the tables for the basis of its parameters.
LEMMA SetupFields ==
    ASSUME NEW s, NEW B, B = Basis(s), NEW C, C = SetupConstants(s)
    PROVE  TablesOf(C, B) /\ DOMAIN C = TableFields
<1> DEFINE S == [i \in DOMAIN B.prime |-> TwoTo(bit_width(B.prime[i]) - 2)]
           g == [S |-> S,
                 T |-> [i \in DOMAIN S |-> TwoTo(WordBits - 4) \div S[i]],
                 prime_better_barret_mu |-> [i \in DOMAIN S |-> mu_new(B.prime[i], S[i])],
                 roots |-> [i \in DOMAIN S |-> Roots(B.prime[i])],
                 q_inv |-> [i \in DOMAIN S |-> [j \in DOMAIN S |-> modinv(B.prime[i], B.prime[j])]],
                 P_inv |-> [i \in 0..B.L - 1 |-> PInvModq(B, i)],
                 ModDown_pre_scale |-> [k \in 0..B.K - 1 |-> PHatInvModp(B, k)],
                 ModDown_matrix |-> [k \in 0..B.K - 1 |-> [i \in 0..B.L - 1 |-> PHatModq(B, k, i)]],
                 pre_scale |-> [d \in 0..B.dnum - 1 |-> DecompAndModUp_pre_scale(B, d)],
                 matrix |-> [l \in 0..B.L - 1 |-> DecompAndModUp_matrix(B, l)]]
           D == {"L", "K", "dnum", "digit", "whole", "first", "prime"}
           E == {"S", "T", "prime_better_barret_mu", "roots", "q_inv", "P_inv", "ModDown_pre_scale",
                 "ModDown_matrix", "pre_scale", "matrix"}
           P == DOMAIN B.prime
<1>1. C = Joined(B, g)
  BY DEF SetupConstants
<1>2. DOMAIN g = E
  OBVIOUS
<1>3. DOMAIN S = P
  OBVIOUS
<1>4. /\ g.S = S /\ g.T = [i \in P |-> TwoTo(WordBits - 4) \div S[i]]
      /\ g.prime_better_barret_mu = [i \in P |-> mu_new(B.prime[i], S[i])]
      /\ g.roots = [i \in P |-> Roots(B.prime[i])]
      /\ g.q_inv = [i \in P |-> [j \in P |-> modinv(B.prime[i], B.prime[j])]]
  <2> HIDE DEF P
  <2>1. DOMAIN S = P
    BY <1>3
  <2> HIDE DEF S
  <2> QED BY <2>1
<1>5. /\ g.P_inv = [i \in 0..B.L - 1 |-> PInvModq(B, i)]
      /\ g.ModDown_pre_scale = [k \in 0..B.K - 1 |-> PHatInvModp(B, k)]
      /\ g.ModDown_matrix = [k \in 0..B.K - 1 |-> [i \in 0..B.L - 1 |-> PHatModq(B, k, i)]]
      /\ g.pre_scale = [d \in 0..B.dnum - 1 |-> DecompAndModUp_pre_scale(B, d)]
      /\ g.matrix = [l \in 0..B.L - 1 |-> DecompAndModUp_matrix(B, l)]
  OBVIOUS
<1> HIDE DEF g
<1>6. DOMAIN B = D /\ D \cup E = TableFields
  BY BasisFields DEF TableFields
<1>7. \A x \in D : C[x] = B[x]
  <2> HIDE DEF D
  <2>1. \A x \in DOMAIN B : Joined(B, g)[x] = B[x]
    BY JoinedValues
  <2> QED BY <1>1, <1>6, <2>1
<1>8. \A x \in E : x \notin D
  OBVIOUS
<1>9. \A x \in E : C[x] = g[x]
  <2> HIDE DEF D, E
  <2>1. \A x \in DOMAIN g : x \notin DOMAIN B => Joined(B, g)[x] = g[x]
    BY JoinedValues
  <2> QED BY <1>1, <1>2, <1>6, <1>8, <2>1
<1>10. DOMAIN C = TableFields
  <2> HIDE DEF D, E
  <2> QED BY <1>1, <1>2, <1>6, JoinedDomain
<1>11. C.L = B.L /\ C.K = B.K /\ C.dnum = B.dnum /\ C.digit = B.digit /\ C.prime = B.prime
  BY <1>7
<1>12. /\ C.S = g.S /\ C.T = g.T /\ C.prime_better_barret_mu = g.prime_better_barret_mu
       /\ C.roots = g.roots /\ C.q_inv = g.q_inv /\ C.P_inv = g.P_inv
       /\ C.ModDown_pre_scale = g.ModDown_pre_scale /\ C.ModDown_matrix = g.ModDown_matrix
       /\ C.pre_scale = g.pre_scale /\ C.matrix = g.matrix
  BY <1>9
<1>13. C.S = S
  BY <1>4, <1>12
<1>14. C.T = [i \in P |-> TwoTo(WordBits - 4) \div S[i]]
       /\ C.prime_better_barret_mu = [i \in P |-> mu_new(B.prime[i], S[i])]
  <2> HIDE DEF S, P
  <2> QED BY <1>4, <1>12
<1>15. C.T = [i \in P |-> TwoTo(WordBits - 4) \div C.S[i]]
       /\ C.prime_better_barret_mu = [i \in P |-> mu_new(B.prime[i], C.S[i])]
  <2> HIDE DEF S, P
  <2> QED BY <1>13, <1>14
<1> QED BY <1>4, <1>5, <1>10, <1>11, <1>12, <1>13, <1>15 DEF TablesOf

\* The secret and the key come on top.
LEMMA WithKeysFields ==
    ASSUME NEW s, NEW B, B = Basis(s), NEW C, C = WithKeys(s)
    PROVE  /\ TablesOf(C, B) /\ TablesOf(SetupConstants(s), B)
           /\ \E secret : /\ secret = [i \in DOMAIN SetupConstants(s).prime |-> Values(SetupConstants(s), i, Secret)]
                          /\ C.key = Keys(SetupConstants(s), secret)
<1> DEFINE A == SetupConstants(s)
           secret == [i \in DOMAIN A.prime |-> Values(A, i, Secret)]
           g == [secret |-> secret, key |-> Keys(A, secret)]
<1>1. C = Joined(A, g)
  BY DEF WithKeys
<1>2. DOMAIN g = {"secret", "key"} /\ g.key = Keys(A, secret)
  OBVIOUS
<1>3. TablesOf(A, B) /\ DOMAIN A = TableFields
  BY SetupFields
<1> HIDE DEF g, A
<1>4. \A x \in TableFields : C[x] = A[x]
  <2>1. \A x \in DOMAIN A : Joined(A, g)[x] = A[x]
    BY JoinedValues
  <2> QED BY <1>1, <1>3, <2>1
<1>5. C["key"] = g["key"]
  <2>1. \A x \in DOMAIN g : x \notin DOMAIN A => Joined(A, g)[x] = g[x]
    BY JoinedValues
  <2>2. "key" \in DOMAIN g /\ "key" \notin TableFields
    BY <1>2 DEF TableFields
  <2> QED BY <1>1, <1>3, <2>1, <2>2
<1>6. /\ C.L = A.L /\ C.K = A.K /\ C.dnum = A.dnum /\ C.digit = A.digit /\ C.prime = A.prime
      /\ C.S = A.S /\ C.T = A.T /\ C.prime_better_barret_mu = A.prime_better_barret_mu
      /\ C.roots = A.roots /\ C.q_inv = A.q_inv /\ C.P_inv = A.P_inv
      /\ C.ModDown_pre_scale = A.ModDown_pre_scale /\ C.ModDown_matrix = A.ModDown_matrix
      /\ C.pre_scale = A.pre_scale /\ C.matrix = A.matrix
  BY <1>4 DEF TableFields
<1>7. TablesOf(C, B)
  BY <1>3, <1>6 DEF TablesOf
<1>8. C.key = Keys(A, secret)
  BY <1>2, <1>5
<1> QED BY <1>3, <1>7, <1>8 DEF A

\* The primes of a context are as its parameters are assumed to be.
LEMMA BasisPrimes ==
    ASSUME NEW s \in Param, NEW B, B = Basis(s)
    PROVE  /\ B.L \in Nat /\ B.K \in Nat /\ B.dnum \in 1..B.L
           /\ DOMAIN B.prime = Numbers(B)
           /\ \A i \in Numbers(B) : /\ B.prime[i] \in Nat /\ N < B.prime[i] /\ 4 * B.prime[i] < W
                                    /\ generator(B.prime[i]) \in Nat /\ B.prime[i] >= 2
           /\ \A i, j \in Numbers(B) : (B.L + B.K) * B.prime[i] * B.prime[j] <= W * W
<1> DEFINE primes == s.q \o s.p
           a == Len(s.q)
           b == Len(s.p)
           n == a + b
<1>1. s.q \in Seq(Nat) /\ s.p \in Seq(Nat) /\ s.dnum \in 1..Len(s.q)
      /\ \A i \in DOMAIN primes :
            /\ N < primes[i] /\ 4 * primes[i] < W /\ generator(primes[i]) \in Nat
            /\ \A j \in DOMAIN primes : Len(primes) * primes[i] * primes[j] <= W * W
  BY PrimesAssumption
<1>2. primes \in Seq(Nat) /\ Len(primes) = n /\ Len(s.q) \in Nat /\ Len(s.p) \in Nat
  BY <1>1
<1>3. B.L = Len(s.q) /\ B.K = Len(s.p) /\ B.dnum = s.dnum
  BY BasisFields
<1>5. B.L + B.K = n /\ n \in Nat /\ B.L \in Nat /\ B.K \in Nat
  <2>1. a \in Nat /\ b \in Nat /\ B.L = a /\ B.K = b
    BY <1>2, <1>3
  <2> HIDE DEF a, b
  <2> QED BY <2>1
<1> DEFINE I == 0..a + b - 1
<1>10. DOMAIN B.prime = I /\ \A i \in I : B.prime[i] = primes[i + 1]
  BY BasisPrime, Zenon
<1>4. I = 0..n - 1
  <2>1. a \in Nat /\ b \in Nat
    BY <1>2
  <2> HIDE DEF a, b
  <2> QED BY <2>1
<1> HIDE DEF primes, a, b, n, I
<1>11. DOMAIN primes = 1..n /\ \A i \in 1..n : primes[i] \in Nat
  BY <1>2
<1>12. \A i \in I : i + 1 \in 1..n
  BY <1>4, <1>5
<1>6. Numbers(B) = 0..n - 1
  BY <1>5 DEF Numbers
<1>7. DOMAIN B.prime = 0..n - 1 /\ \A i \in 0..n - 1 : i + 1 \in 1..n /\ B.prime[i] = primes[i + 1]
  BY <1>4, <1>10, <1>12
<1>8. ASSUME NEW i \in Numbers(B)
      PROVE  /\ B.prime[i] \in Nat /\ N < B.prime[i] /\ 4 * B.prime[i] < W
             /\ generator(B.prime[i]) \in Nat /\ B.prime[i] >= 2
  <2>1. i + 1 \in DOMAIN primes /\ B.prime[i] = primes[i + 1] /\ primes[i + 1] \in Nat
    BY <1>6, <1>7, <1>11
  <2>2. N < primes[i + 1] /\ 4 * primes[i + 1] < W /\ generator(primes[i + 1]) \in Nat
    BY <1>1, <2>1
  <2> QED BY <2>1, <2>2, NType
<1>9. ASSUME NEW i \in Numbers(B), NEW j \in Numbers(B)
      PROVE  (B.L + B.K) * B.prime[i] * B.prime[j] <= W * W
  <2>1. i + 1 \in DOMAIN primes /\ j + 1 \in DOMAIN primes
        /\ B.prime[i] = primes[i + 1] /\ B.prime[j] = primes[j + 1]
    BY <1>6, <1>7, <1>11
  <2>2. Len(primes) * primes[i + 1] * primes[j + 1] <= W * W
    BY <1>1, <2>1
  <2> QED BY <1>2, <1>5, <2>1, <2>2
<1> QED BY <1>1, <1>2, <1>3, <1>6, <1>7, <1>8, <1>9

\* How many bits a prime has
LEMMA WidthFound ==
    ASSUME NEW p \in Nat, p >= 2, 4 * p < W
    PROVE  LET b == bit_width(p)
           IN  b \in 2..WordBits - 2 /\ TwoTo(b - 1) <= p /\ p < TwoTo(b)
<1> DEFINE G == {n \in Nat : TwoTo(n) <= p}
           Width(b) == b \in 1..WordBits /\ TwoTo(b - 1) <= p /\ p < TwoTo(b)
           c == bit_width(p)
<1>1. WordBits \in Nat /\ W = TwoTo(WordBits)
  BY WordBitsAssumption
<1>2. \A n \in Nat : TwoTo(n) \in Nat \ {0} /\ TwoTo(n + 1) = 2 * TwoTo(n)
  BY TwoToValue
<1>3. \E b : Width(b)
  <2> SUFFICES ASSUME \A b : ~Width(b) PROVE FALSE
    OBVIOUS
  <2>1. 0 \in G
    BY TwoToValue
  <2>2. ASSUME NEW n \in 0..WordBits - 1, n \in G PROVE n + 1 \in G
    <3>1. n \in Nat /\ n + 1 \in 1..WordBits /\ (n + 1) - 1 = n
      BY <1>1, <2>2
    <3>2. ~(TwoTo((n + 1) - 1) <= p /\ p < TwoTo(n + 1))
      BY <3>1
    <3>3. TwoTo(n) <= p
      BY <2>2
    <3>4. TwoTo(n + 1) \in Nat
      BY <1>2, <3>1
    <3>5. TwoTo(n + 1) <= p
      BY <3>1, <3>2, <3>3, <3>4
    <3> QED BY <3>1, <3>5
  <2> HIDE DEF G
  <2>3. 0..WordBits \subseteq G
    BY <1>1, <2>1, <2>2, UpTo
  <2>4. WordBits \in G
    BY <1>1, <2>3
  <2>5. W <= p
    BY <1>1, <2>4 DEF G
  <2> QED BY <2>5, NType
<1>4. Width(c)
  <2>1. c = CHOOSE b \in 1..WordBits : TwoTo(b - 1) <= p /\ p < TwoTo(b)
    BY DEF bit_width
  <2>2. \E b \in 1..WordBits : TwoTo(b - 1) <= p /\ p < TwoTo(b)
    BY <1>3
  <2> HIDE DEF c
  <2> QED BY <2>1, <2>2
<1> HIDE DEF c
<1>5. c # 1
  <2>1. 0 \in Nat /\ TwoTo(0 + 1) = 2 * TwoTo(0)
    BY <1>2
  <2>2. TwoTo(1) = 2
    BY <2>1, TwoToValue
  <2> QED BY <1>4, <2>2
<1>6. c \in Nat /\ c - 1 \in Nat /\ c + 1 \in Nat /\ TwoTo(c - 1) \in Nat /\ TwoTo(c - 1) <= p
  BY <1>1, <1>2, <1>4
<1>7. TwoTo(c + 1) = 4 * TwoTo(c - 1)
  <2>1. TwoTo((c - 1) + 1) = 2 * TwoTo(c - 1) /\ TwoTo(c + 1) = 2 * TwoTo(c) /\ (c - 1) + 1 = c
    BY <1>2, <1>6
  <2> QED BY <1>6, <2>1
<1>8. TwoTo(c + 1) < TwoTo(WordBits)
  <2> DEFINE x == TwoTo(c - 1)
  <2>1. x \in Nat /\ x <= p /\ TwoTo(c + 1) = 4 * x
    BY <1>6, <1>7
  <2> HIDE DEF x
  <2>2. TwoTo(c + 1) < W
    BY <2>1, NType
  <2> QED BY <1>1, <2>2
<1>9. c + 1 < WordBits
  BY <1>1, <1>6, <1>8, TwoToOrder
<1>10. c \in 2..WordBits - 2 /\ TwoTo(c - 1) <= p /\ p < TwoTo(c)
  BY <1>1, <1>4, <1>5, <1>6, <1>9
<1> QED BY <1>10 DEF c

\* The shifts that Barrett's method takes
LEMMA ShiftsFit ==
    ASSUME NEW p \in Nat, p >= 2, 4 * p < W, NEW S, S = TwoTo(bit_width(p) - 2),
           NEW T, T = TwoTo(WordBits - 4) \div S
    PROVE  /\ S \in Nat \ {0} /\ T \in Nat \ {0} /\ W = 16 * S * T
           /\ 2 * S <= p /\ p < 4 * S
<1> DEFINE b == bit_width(p)
           e == b - 2
           f == WordBits - 2 - b
           U == TwoTo(f)
<1>1. b \in 2..WordBits - 2 /\ TwoTo(b - 1) <= p /\ p < TwoTo(b)
  BY WidthFound
<1>2. WordBits \in Nat /\ W = TwoTo(WordBits)
  BY WordBitsAssumption
<1> HIDE DEF b
<1>3. /\ e \in Nat /\ f \in Nat /\ b - 1 = e + 1 /\ b = (e + 1) + 1 /\ WordBits - 4 = e + f
      /\ WordBits = (e + f) + 4 /\ e + f \in Nat
  BY <1>1, <1>2
<1>4. S = TwoTo(e)
  BY DEF b
<1> HIDE DEF e, f
<1>5. \A n \in Nat : TwoTo(n) \in Nat \ {0} /\ TwoTo(n + 1) = 2 * TwoTo(n)
  BY TwoToValue
<1>6. S \in Nat \ {0} /\ U \in Nat \ {0}
  BY <1>3, <1>4, <1>5
<1>7. TwoTo(b - 1) = 2 * S /\ TwoTo(b) = 4 * S
  <2>1. e + 1 \in Nat
    BY <1>3
  <2>2. TwoTo(e + 1) = 2 * S /\ TwoTo((e + 1) + 1) = 2 * TwoTo(e + 1)
    BY <1>3, <1>4, <1>5, <2>1
  <2> QED BY <1>3, <1>6, <2>2
<1>8. TwoTo(e + f) = S * U
  BY <1>3, <1>4, TwoToSum
<1> HIDE DEF U
<1>9. T = U
  <2>1. S * U = S * U + 0 /\ S * U \in Int /\ 0 \in 0..S - 1 /\ U \in Int
    BY <1>6
  <2>2. (S * U) \div S = U
    BY <1>6, <2>1, Remainder
  <2> QED BY <1>3, <1>8, <2>2
<1>10. TwoTo(4) = 16
  <2>1. /\ TwoTo(0) = 1 /\ TwoTo(0 + 1) = 2 * TwoTo(0) /\ TwoTo(1 + 1) = 2 * TwoTo(1)
        /\ TwoTo(2 + 1) = 2 * TwoTo(2) /\ TwoTo(3 + 1) = 2 * TwoTo(3)
    BY TwoToValue
  <2> QED BY <2>1
<1>11. W = 16 * S * T
  <2>1. TwoTo((e + f) + 4) = TwoTo(e + f) * TwoTo(4)
    BY <1>3, TwoToSum
  <2>2. W = (S * U) * 16
    BY <1>2, <1>3, <1>8, <1>10, <2>1
  <2> QED BY <1>6, <1>9, <2>2
<1> QED BY <1>1, <1>6, <1>7, <1>9, <1>11

\* The tables of powers of a root
LEMMA RootsBelow ==
    ASSUME NEW p \in Nat, p >= 2, generator(p) \in Nat
    PROVE  /\ Roots(p).psi_no \in [0..2 * N - 1 -> Residue(p)]
           /\ Roots(p).inv_psi_no \in [0..2 * N - 1 -> Residue(p)]
           /\ Roots(p).psi \in LimbsBelow(p) /\ Roots(p).inv_psi \in LimbsBelow(p)
<1> DEFINE root == unity_root(p, 2 * N)
           I == 0..2 * N - 1
           back == modinv(root, p)
           up == [j \in I |-> modpow(root, j, p)]
           down == [j \in I |-> modpow(back, j, p)]
           n == modinv(N, p)
<1>1. root \in 0..p - 1
  <2>1. p \div (2 * N) \in Nat /\ generator(p) \in Int
    <3> DEFINE y == 2 * N
               z == p \div y
               r == p % y
    <3>1. y \in Nat \ {0}
      BY NType
    <3> HIDE DEF y
    <3>2. z \in Int /\ r \in 0..y - 1 /\ p = y * z + r
      BY <3>1, Division
    <3> HIDE DEF z, r
    <3>3. z >= 0
      <4> SUFFICES ASSUME z <= -1 PROVE FALSE
        BY <3>2
      <4>1. y * z <= y * (-1)
        BY <3>1, <3>2
      <4> QED BY <3>1, <3>2, <4>1
    <3> QED BY <3>2, <3>3 DEF z, y
  <2> DEFINE e == p \div (2 * N)
  <2>2. root = modpow(generator(p), e, p)
    BY DEF unity_root
  <2> HIDE DEF e
  <2>3. e \in Nat
    BY <2>1 DEF e
  <2>4. modpow(generator(p), e, p) \in 0..p - 1
    BY <2>1, <2>3, modpowBelow
  <2> QED BY <2>2, <2>4
<1> HIDE DEF root
<1>2. back \in 0..p - 1 /\ n \in 0..p - 1
  BY <1>1, NType, modinvBelow
<1> HIDE DEF back, n
<1>3. \A j \in I : modpow(root, j, p) \in 0..p - 1 /\ modpow(back, j, p) \in 0..p - 1
  <2>1. \A j \in I : j \in Nat
    BY NType
  <2>2. root \in Int /\ back \in Int
    BY <1>1, <1>2
  <2> HIDE DEF I
  <2> QED BY <2>1, <2>2, modpowBelow
<1>4. up \in [I -> 0..p - 1] /\ down \in [I -> 0..p - 1]
  BY <1>3
<1> HIDE DEF up, down
<1>5. \A j \in 0..N - 1 : bit_reverse(j, logN) \in I
  <2> SUFFICES ASSUME NEW j \in 0..N - 1 PROVE bit_reverse(j, logN) \in I
    OBVIOUS
  <2>1. j \in Nat /\ logN \in Nat
    BY NType, WordBitsAssumption
  <2>2. bit_reverse(j, logN) \in 0..TwoTo(logN) - 1
    BY <2>1, bit_reverseBelow
  <2> QED BY <2>2, NType DEF N
<1>6. \A j \in I : (down[j] * n) % p \in 0..p - 1
  <2> SUFFICES ASSUME NEW j \in I PROVE (down[j] * n) % p \in 0..p - 1
    OBVIOUS
  <2>1. down[j] \in 0..p - 1
    <3> HIDE DEF I
    <3> QED BY <1>4
  <2> DEFINE x == down[j] * n
  <2>2. x \in Int
    BY <1>2, <2>1
  <2> HIDE DEF x
  <2>3. p \in Nat \ {0}
    OBVIOUS
  <2>4. x % p \in 0..p - 1
    BY <2>2, <2>3, Below
  <2> QED BY <2>4 DEF x
<1> DEFINE R == Roots(p)
<1>7. /\ R.psi_no = up /\ R.psi = [j \in 0..N - 1 |-> up[bit_reverse(j, logN)]]
      /\ R.inv_psi = [j \in 0..N - 1 |-> down[bit_reverse(j, logN)]]
      /\ R.inv_psi_no = [j \in I |-> (down[j] * n) % p]
  BY DEF Roots, up, down, root, back, n
<1> HIDE DEF R, I
<1>8. /\ R.psi_no \in [I -> 0..p - 1] /\ R.inv_psi_no \in [I -> 0..p - 1]
      /\ R.psi \in [0..N - 1 -> 0..p - 1] /\ R.inv_psi \in [0..N - 1 -> 0..p - 1]
  BY <1>4, <1>5, <1>6, <1>7
<1> QED BY <1>8 DEF R, I, LimbsBelow, Residue

\* The tables fit every prime.
LEMMA TablesFitPrime ==
    ASSUME NEW s \in Param, NEW B, B = Basis(s), NEW C, TablesOf(C, B), NEW i \in Numbers(B)
    PROVE  PrimeFits(C, i)
<1> DEFINE p == B.prime[i]
<1>1. /\ p \in Nat /\ N < p /\ 4 * p < W /\ generator(p) \in Nat /\ p >= 2
      /\ i \in DOMAIN B.prime
  BY BasisPrimes
<1>2. /\ C.prime[i] = p /\ C.S[i] = TwoTo(bit_width(p) - 2)
      /\ C.T[i] = TwoTo(WordBits - 4) \div C.S[i]
      /\ C.prime_better_barret_mu[i] = mu_new(p, C.S[i])
      /\ C.roots[i] = Roots(p)
  BY <1>1 DEF TablesOf
<1> HIDE DEF p
<1>3. /\ C.S[i] \in Nat \ {0} /\ C.T[i] \in Nat \ {0}
      /\ W = 16 * C.S[i] * C.T[i] /\ 2 * C.S[i] <= p /\ p < 4 * C.S[i]
  BY <1>1, <1>2, ShiftsFit
<1>4. /\ C.roots[i].psi_no \in [0..2 * N - 1 -> Residue(p)]
      /\ C.roots[i].inv_psi_no \in [0..2 * N - 1 -> Residue(p)]
      /\ C.roots[i].psi \in LimbsBelow(p) /\ C.roots[i].inv_psi \in LimbsBelow(p)
  BY <1>1, <1>2, RootsBelow
<1> QED BY <1>1, <1>2, <1>3, <1>4 DEF PrimeFits

\* A quotient grows with the number that is divided.
LEMMA QuotientOrder ==
    ASSUME NEW x \in Nat, NEW y \in Nat, x <= y, NEW n \in Nat \ {0}
    PROVE  x \div n \in Nat /\ x \div n <= y \div n
<1> DEFINE a == x \div n
           b == y \div n
           r == x % n
           t == y % n
<1>1. a \in Int /\ b \in Int /\ r \in 0..n - 1 /\ t \in 0..n - 1 /\ x = n * a + r /\ y = n * b + t
  BY Division
<1> HIDE DEF a, b, r, t
<1>2. a >= 0
  <2> SUFFICES ASSUME a <= -1 PROVE FALSE
    BY <1>1
  <2>1. n * a <= n * (-1)
    BY <1>1
  <2> QED BY <1>1, <2>1
<1>3. a <= b
  <2> SUFFICES ASSUME b + 1 <= a PROVE FALSE
    BY <1>1
  <2>1. n * (b + 1) <= n * a /\ n * (b + 1) = n * b + n
    BY <1>1
  <2> QED BY <1>1, <2>1
<1> QED BY <1>1, <1>2, <1>3 DEF a, b

\* The number of a digit is below the number of digits.
LEMMA QuotientBelow ==
    ASSUME NEW i \in Nat, NEW m \in Nat \ {0}, NEW n \in Nat \ {0}, i < n
    PROVE  (i * m) \div n \in 0..m - 1
<1> DEFINE x == i * m
           a == x \div n
           r == x % n
<1>1. x \in Nat /\ x <= (n - 1) * m /\ (n - 1) * m = n * m - m
  <2>1. i <= n - 1
    OBVIOUS
  <2>2. i * m <= (n - 1) * m
    BY <2>1
  <2> QED BY <2>2
<1> HIDE DEF x
<1>2. a \in Int /\ r \in 0..n - 1 /\ x = n * a + r
  BY <1>1, Division
<1>3. a \in Nat
  BY <1>1, QuotientOrder
<1> HIDE DEF a, r
<1>4. a < m
  <2> SUFFICES ASSUME m <= a PROVE FALSE
    BY <1>2
  <2>1. n * m <= n * a
    BY <1>2
  <2> QED BY <1>1, <1>2, <2>1
<1> QED BY <1>3, <1>4 DEF a, x

\* A set of numbers with all the smaller ones is an interval.
LEMMA InitialSegment ==
    ASSUME NEW n \in Nat, NEW T, T \subseteq 0..n - 1,
           \A i \in T, j \in 0..n - 1 : j < i => j \in T
    PROVE  \E v \in 0..n : T = 0..v - 1
<1> SUFFICES ASSUME \A v \in 0..n : T # 0..v - 1 PROVE FALSE
  OBVIOUS
<1> DEFINE G == {v \in 0..n : 0..v - 1 \subseteq T}
<1>1. 0 \in G
  OBVIOUS
<1>2. ASSUME NEW v \in 0..n - 1, v \in G PROVE v + 1 \in G
  <2>1. 0..v - 1 \subseteq T /\ v \in 0..n
    BY <1>2
  <2>2. PICK t \in T : t \notin 0..v - 1
    BY <2>1
  <2>3. v = t \/ v < t
    BY <2>1, <2>2
  <2>4. v \in T
    BY <2>2, <2>3
  <2>5. 0..(v + 1) - 1 \subseteq T
    BY <2>1, <2>4
  <2> QED BY <2>5
<1> HIDE DEF G
<1>3. 0..n \subseteq G
  BY <1>1, <1>2, UpTo
<1>4. n \in 0..n /\ n \in G
  BY <1>3
<1>5. T = 0..n - 1
  BY <1>4 DEF G
<1> QED BY <1>4, <1>5

\* The digits are contiguous, one after the other.
DigitsFit(B) ==
    /\ \A i \in 0..B.L - 1 : B.digit[i] \in 0..B.dnum - 1
    /\ \A d \in 0..B.dnum - 1 :
          /\ B.first[d] \in Nat /\ B.whole[d] \in Nat /\ B.first[d] + B.whole[d] <= B.L
          /\ \A i \in 0..B.L - 1 : B.digit[i] = d <=> B.first[d] <= i /\ i < B.first[d] + B.whole[d]

\* Digits are contiguous: the primes of one are those before the first of the next.
LEMMA DigitsContiguous ==
    ASSUME NEW s \in Param, NEW B, B = Basis(s)
    PROVE  DigitsFit(B)
<1> DEFINE L == B.L
           m == B.dnum
           D == 0..L - 1
           digit == B.digit
           whole == B.whole
           Lower(k) == {i \in D : digit[i] < k}
           Exactly(k) == {i \in D : digit[i] = k}
<1>1. L \in Nat /\ m \in 1..L
  BY BasisPrimes
<1>2. digit = [i \in D |-> (i * m) \div L]
  BY DEF Basis
<1>3. whole = [d \in 0..m - 1 |-> Cardinality(Exactly(d))]
  BY DEF Basis
<1>4. \A d \in 0..m - 1 : B.first[d] = SumTo(d, whole)
  BY DEF Basis
<1> HIDE DEF L, m, digit, whole
<1>5. \A i \in D : digit[i] \in 0..m - 1
  <2> SUFFICES ASSUME NEW i \in D PROVE digit[i] \in 0..m - 1
    OBVIOUS
  <2>1. i \in Nat /\ m \in Nat \ {0} /\ L \in Nat \ {0} /\ i < L
    BY <1>1
  <2>2. (i * m) \div L \in 0..m - 1
    BY <2>1, QuotientBelow
  <2> QED BY <1>2, <2>2
<1>6. \A i, j \in D : j < i => digit[j] <= digit[i]
  <2> SUFFICES ASSUME NEW i \in D, NEW j \in D, j < i PROVE digit[j] <= digit[i]
    OBVIOUS
  <2> DEFINE x == j * m
             y == i * m
  <2>1. x \in Nat /\ y \in Nat /\ x <= y /\ L \in Nat \ {0}
    BY <1>1
  <2>2. digit[j] = x \div L /\ digit[i] = y \div L
    BY <1>2
  <2> HIDE DEF x, y
  <2> QED BY <2>1, <2>2, QuotientOrder
<1>7. ASSUME NEW k \in 0..m PROVE \E u \in 0..L : Lower(k) = 0..u - 1
  <2> DEFINE T == Lower(k)
  <2>1. T \subseteq 0..L - 1 /\ \A i \in T, j \in 0..L - 1 : j < i => j \in T
    BY <1>1, <1>5, <1>6
  <2> HIDE DEF T
  <2>2. \E u \in 0..L : T = 0..u - 1
    BY <1>1, <2>1, InitialSegment
  <2> QED BY <2>2 DEF T
<1>8. ASSUME NEW k \in 0..m - 1, NEW v \in 0..L, Lower(k) = 0..v - 1
      PROVE  /\ whole[k] \in Nat /\ v + whole[k] \in 0..L /\ Lower(k + 1) = 0..(v + whole[k]) - 1
             /\ \A i \in D : digit[i] = k <=> v <= i /\ i < v + whole[k]
  <2>1. k + 1 \in 0..m
    BY <1>1
  <2>2. PICK u \in 0..L : Lower(k + 1) = 0..u - 1
    BY <1>7, <2>1
  <2>3. \A i \in D : /\ i < u <=> digit[i] < k + 1
                     /\ i < v <=> digit[i] < k
    <3>1. \A i \in D : i \in 0..u - 1 <=> digit[i] < k + 1
      BY <2>2
    <3>2. \A i \in D : i \in 0..v - 1 <=> digit[i] < k
      BY <1>8
    <3> QED BY <1>1, <3>1, <3>2
  <2>4. v <= u
    <3> SUFFICES ASSUME u < v PROVE FALSE
      BY <1>1
    <3>1. u \in D
      BY <1>1
    <3>2. digit[u] \in Int
      BY <1>5, <3>1
    <3> QED BY <2>3, <3>1, <3>2
  <2>5. \A i \in D : digit[i] = k <=> v <= i /\ i < u
    <3> SUFFICES ASSUME NEW i \in D PROVE digit[i] = k <=> v <= i /\ i < u
      OBVIOUS
    <3>1. digit[i] \in Int
      BY <1>5
    <3>2. digit[i] = k <=> digit[i] < k + 1 /\ ~(digit[i] < k)
      BY <3>1
    <3> QED BY <1>1, <2>3, <3>2
  <2>6. Exactly(k) = v..u - 1
    BY <1>1, <2>5
  <2>7. Cardinality(v..u - 1) = u - v
    <3> DEFINE w == u - 1
    <3>1. v \in Int /\ u \in Int /\ w \in Int /\ w = u - 1
      OBVIOUS
    <3> HIDE DEF w
    <3>2. Cardinality(v..w) = IF v > w THEN 0 ELSE w - v + 1
      BY <3>1, FS_Interval
    <3>3. Cardinality(v..w) = u - v
      BY <2>4, <3>1, <3>2
    <3> QED BY <3>3 DEF w
  <2>8. whole[k] = u - v
    BY <1>3, <2>6, <2>7
  <2> HIDE DEF Lower
  <2> QED BY <1>1, <2>2, <2>4, <2>5, <2>8
<1> DEFINE G == {x \in (0..m) \X Int : x[2] \in 0..L /\ Lower(x[1]) = 0..x[2] - 1}
<1>9. <<0, 0>> \in G
  <2> DEFINE x == <<0, 0>>
  <2>1. x \in (0..m) \X Int /\ x[1] = 0 /\ x[2] = 0 /\ x[2] \in 0..L
    BY <1>1
  <2>2. Lower(0) = 0..0 - 1
    BY <1>1, <1>5
  <2> HIDE DEF x, Lower
  <2>3. x \in G
    BY <2>1, <2>2
  <2> QED BY <2>3 DEF x
<1>10. ASSUME NEW k \in 0..m - 1, NEW v \in Int, <<k, v>> \in G PROVE <<k + 1, v + whole[k]>> \in G
  <2>1. v \in 0..L /\ Lower(k) = 0..v - 1
    BY <1>10
  <2> DEFINE x == <<k + 1, v + whole[k]>>
  <2>2. whole[k] \in Nat /\ v + whole[k] \in 0..L /\ Lower(k + 1) = 0..(v + whole[k]) - 1
    BY <1>8, <2>1
  <2> HIDE DEF Lower
  <2>3. x \in (0..m) \X Int /\ x[1] = k + 1 /\ x[2] = v + whole[k]
    BY <1>1, <2>1, <2>2
  <2> HIDE DEF x
  <2>4. x \in G
    BY <2>2, <2>3
  <2> QED BY <2>4 DEF x
<1>11. ASSUME NEW d \in 0..m - 1
       PROVE  B.first[d] \in 0..L /\ Lower(d) = 0..B.first[d] - 1
  <2> DEFINE f == B.first[d]
  <2>1. d \in Nat /\ \A k \in 0..d - 1 : k \in 0..m - 1 /\ whole[k] \in Int
    <3>1. d \in Nat /\ \A k \in 0..d - 1 : k \in 0..m - 1
      BY <1>1
    <3>2. ASSUME NEW k \in 0..m - 1 PROVE whole[k] \in Nat
      <4> DEFINE T == Exactly(k)
      <4>1. IsFiniteSet(D)
        <5>1. 0 \in Int /\ L - 1 \in Int
          BY <1>1
        <5> QED BY <5>1, FS_Interval
      <4>2. T \subseteq D
        OBVIOUS
      <4>3. whole[k] = Cardinality(T)
        BY <1>3
      <4> HIDE DEF T, D
      <4>4. Cardinality(T) \in Nat
        BY <4>1, <4>2, FS_Subset, FS_CardinalityType
      <4> QED BY <4>3, <4>4
    <3> QED BY <3>1, <3>2
  <2>2. f = SumTo(d, whole)
    BY <1>4
  <2> HIDE DEF G, f
  <2>3. SumTo(d, whole) \in Int /\ <<d, SumTo(d, whole)>> \in G
    BY <1>9, <1>10, <2>1, SumToKeeps
  <2>4. <<d, f>> \in G
    BY <2>2, <2>3
  <2>5. f \in 0..L /\ Lower(d) = 0..f - 1
    BY <2>4 DEF G
  <2> QED BY <2>5 DEF f
<1>12. ASSUME NEW d \in 0..m - 1
       PROVE  /\ B.first[d] \in Nat /\ whole[d] \in Nat /\ B.first[d] + whole[d] <= L
              /\ \A i \in D : digit[i] = d <=> B.first[d] <= i /\ i < B.first[d] + whole[d]
  <2> DEFINE f == B.first[d]
  <2>1. f \in 0..L /\ Lower(d) = 0..f - 1
    BY <1>11
  <2> HIDE DEF f
  <2>2. /\ whole[d] \in Nat /\ f + whole[d] \in 0..L
        /\ \A i \in D : digit[i] = d <=> f <= i /\ i < f + whole[d]
    BY <1>8, <2>1
  <2>3. f \in Nat /\ f + whole[d] <= L
    BY <1>1, <2>1, <2>2
  <2> QED BY <2>2, <2>3 DEF f
<1> QED BY <1>5, <1>12 DEF DigitsFit, L, m, digit, whole

\* Products of primes modulo another one, and their inverses
LEMMA HatFits ==
    ASSUME NEW s \in Param, NEW B, B = Basis(s), NEW first \in Nat, NEW n \in Nat,
           first + n <= B.L + B.K, NEW i, NEW j \in Numbers(B)
    PROVE  /\ HatModulo(B, first, n, i, B.prime[j]) \in Residue(B.prime[j])
           /\ modinv(HatModulo(B, first, n, i, B.prime[j]), B.prime[j]) \in Residue(B.prime[j])
<1> DEFINE m == B.prime[j]
           h == HatModulo(B, first, n, i, m)
<1>1. /\ B.L \in Nat /\ B.K \in Nat /\ m \in Nat /\ m >= 2
      /\ \A k \in Numbers(B) : B.prime[k] \in Nat
  BY BasisPrimes
<1>2. \A k \in first..first + n - 1 : B.prime[k] \in Nat
  <2>1. \A k \in first..first + n - 1 : k \in Numbers(B)
    BY <1>1 DEF Numbers
  <2> QED BY <1>1, <2>1
<1> HIDE DEF m
<1>3. h \in 0..m - 1
  BY <1>1, <1>2, HatModuloBelow
<1> HIDE DEF h
<1>4. modinv(h, m) \in 0..m - 1
  BY <1>1, <1>3, modinvBelow
<1> QED BY <1>3, <1>4 DEF h, m, Residue

\* The primes and their tables are as the kernels rely on them.
LEMMA TablesFitBasis ==
    ASSUME NEW s \in Param, NEW B, B = Basis(s), NEW C, TablesOf(C, B)
    PROVE  BasisFits(C) /\ Numbers(C) = Numbers(B)
<1>1. C.L = B.L /\ C.K = B.K /\ C.dnum = B.dnum /\ C.prime = B.prime
  BY DEF TablesOf
<1>2. Numbers(C) = Numbers(B)
  BY <1>1 DEF Numbers
<1>3. \A i \in Numbers(B) : PrimeFits(C, i)
  BY TablesFitPrime
<1>4. /\ B.L \in Nat /\ B.K \in Nat /\ B.dnum \in 1..B.L
      /\ \A i, j \in Numbers(B) : (B.L + B.K) * B.prime[i] * B.prime[j] <= W * W
  BY BasisPrimes
<1>5. C.L \in Nat /\ C.K \in Nat /\ C.dnum \in 1..C.L
  BY <1>1, <1>4
<1>6. \A i, j \in Numbers(C) : (C.L + C.K) * C.prime[i] * C.prime[j] <= W * W
  <2> SUFFICES ASSUME NEW i \in Numbers(C), NEW j \in Numbers(C)
               PROVE  (C.L + C.K) * C.prime[i] * C.prime[j] <= W * W
    OBVIOUS
  <2>1. (B.L + B.K) * B.prime[i] * B.prime[j] <= W * W
    BY <1>2, <1>4
  <2> QED BY <1>1, <2>1
<1> QED BY <1>2, <1>3, <1>5, <1>6 DEF BasisFits

\* The primes of a digit that are in use at a level
LEMMA DigitInUse ==
    ASSUME NEW s \in Param, NEW B, B = Basis(s), NEW d \in 0..B.dnum - 1, NEW l \in 0..B.L - 1,
           NEW n, n = Cardinality(DigitFrom(B, d, l))
    PROVE  /\ B.first[d] \in Nat /\ B.whole[d] \in Nat /\ B.first[d] + B.whole[d] <= B.L
           /\ n \in Nat /\ n <= B.whole[d] /\ n <= l + 1
           /\ \A i \in DigitFrom(B, d, l) : B.first[d] <= i /\ i < B.first[d] + n
<1> DEFINE f == B.first[d]
           w == B.whole[d]
           L == B.L
           T == DigitFrom(B, d, l)
           e == f + w - 1
           top == IF e <= l THEN e ELSE l
<1>1. L \in Nat
  BY BasisPrimes
<1>2. /\ f \in Nat /\ w \in Nat /\ f + w <= L
      /\ \A i \in 0..L - 1 : B.digit[i] = d <=> f <= i /\ i < f + w
  BY DigitsContiguous DEF DigitsFit
<1> HIDE DEF f, w, L
<1>3. \A i : i \in T <=> i \in 0..l /\ B.digit[i] = d
  BY DEF DigitFrom
<1>4. l \in 0..L - 1
  BY DEF L
<1> HIDE DEF T
<1>5. e \in Int /\ top \in Int /\ top <= e /\ top <= l /\ (top = e \/ top = l)
  BY <1>1, <1>2, <1>4
<1> HIDE DEF top
<1>6. T = f..top
  <2>1. \A i : i \in T <=> i \in f..top
    BY <1>1, <1>2, <1>3, <1>4, <1>5
  <2> QED BY <2>1
<1>7. n = IF f > top THEN 0 ELSE top - f + 1
  <2>1. Cardinality(f..top) = IF f > top THEN 0 ELSE top - f + 1
    BY <1>2, <1>5, FS_Interval
  <2>2. n = Cardinality(T)
    BY DEF T
  <2> QED BY <1>6, <2>1, <2>2
<1>8. n \in Nat /\ n <= w /\ n <= l + 1
  BY <1>1, <1>2, <1>4, <1>5, <1>7
<1>9. \A i \in T : f <= i /\ i < f + n
  BY <1>2, <1>5, <1>6, <1>7
<1> QED BY <1>2, <1>8, <1>9 DEF f, w, L, T

\* So are the factors that scale limbs.
LEMMA TablesFitFactors ==
    ASSUME NEW s \in Param, NEW B, B = Basis(s), NEW C, TablesOf(C, B)
    PROVE  FactorsFit(C)
<1>1. C.L = B.L /\ C.K = B.K /\ C.dnum = B.dnum /\ C.prime = B.prime /\ C.digit = B.digit
  BY DEF TablesOf
<1>2. /\ B.L \in Nat /\ B.K \in Nat /\ B.dnum \in 1..B.L /\ DOMAIN B.prime = Numbers(B)
      /\ \A i \in Numbers(B) : B.prime[i] \in Nat /\ B.prime[i] >= 2
  BY BasisPrimes
<1>3. \A i \in 0..B.L - 1 : i \in Numbers(B)
  BY <1>2 DEF Numbers
<1>4. ASSUME NEW l \in 0..C.L - 1, NEW i \in 0..C.L - 1 PROVE C.q_inv[l][i] \in Residue(C.prime[i])
  <2>1. l \in Numbers(B) /\ i \in Numbers(B)
    BY <1>1, <1>3
  <2>2. C.q_inv[l][i] = modinv(B.prime[l], B.prime[i])
    BY <1>2, <2>1 DEF TablesOf
  <2>3. B.prime[l] \in Int /\ B.prime[i] \in Nat /\ B.prime[i] >= 2
    BY <1>2, <2>1
  <2>4. modinv(B.prime[l], B.prime[i]) \in 0..B.prime[i] - 1
    BY <2>3, modinvBelow
  <2> QED BY <1>1, <2>2, <2>4 DEF Residue
<1>5. ASSUME NEW i \in 0..C.L - 1 PROVE C.P_inv[i] \in Residue(C.prime[i])
  <2>1. i \in Numbers(B) /\ i \in 0..B.L - 1
    BY <1>1, <1>3
  <2>2. C.P_inv[i] = modinv(HatModulo(B, B.L, B.K, B.L + B.K, B.prime[i]), B.prime[i])
    BY <2>1 DEF TablesOf, PInvModq
  <2>3. B.L + B.K <= B.L + B.K
    BY <1>2
  <2>4. modinv(HatModulo(B, B.L, B.K, B.L + B.K, B.prime[i]), B.prime[i]) \in Residue(B.prime[i])
    BY <1>2, <2>1, <2>3, HatFits
  <2> QED BY <1>1, <2>2, <2>4
<1>6. ASSUME NEW k \in 0..C.K - 1 PROVE C.ModDown_pre_scale[k] \in Residue(C.prime[C.L + k])
  <2> DEFINE j == B.L + k
  <2>1. j \in Numbers(B) /\ k \in 0..B.K - 1
    BY <1>1, <1>2 DEF Numbers
  <2>2. C.ModDown_pre_scale[k] = modinv(HatModulo(B, B.L, B.K, j, B.prime[j]), B.prime[j])
    BY <2>1 DEF TablesOf, PHatInvModp
  <2> HIDE DEF j
  <2>3. B.L + B.K <= B.L + B.K
    BY <1>2
  <2>4. modinv(HatModulo(B, B.L, B.K, j, B.prime[j]), B.prime[j]) \in Residue(B.prime[j])
    BY <1>2, <2>1, <2>3, HatFits
  <2> QED BY <1>1, <2>2, <2>4 DEF j
<1>7. ASSUME NEW d \in 0..C.dnum - 1, NEW l \in 0..C.L - 1, NEW i \in DigitFrom(C, d, l)
      PROVE  C.pre_scale[d][Cardinality(DigitFrom(C, d, l)) - 1][i] \in Residue(C.prime[i])
  <2> DEFINE n == Cardinality(DigitFrom(B, d, l))
             f == B.first[d]
             k == n - 1
             j == i - f
  <2>1. DigitFrom(C, d, l) = DigitFrom(B, d, l) /\ d \in 0..B.dnum - 1 /\ l \in 0..B.L - 1
    BY <1>1 DEF DigitFrom
  <2>2. /\ f \in Nat /\ B.whole[d] \in Nat /\ f + B.whole[d] <= B.L
        /\ n \in Nat /\ n <= B.whole[d] /\ n <= l + 1 /\ f <= i /\ i < f + n
    BY <2>1, DigitInUse
  <2>3. i \in 0..B.L - 1
    BY <1>2, <2>1 DEF DigitFrom
  <2> HIDE DEF n, f
  <2>4. k \in 0..B.whole[d] - 1 /\ i \in f..f + k /\ k + 1 = n /\ f + j = i /\ i \in Numbers(B)
    BY <1>3, <2>2, <2>3
  <2>5. C.pre_scale[d] = [x \in 0..B.whole[d] - 1 |-> [y \in f..f + x |-> PartQlHatInvModq(B, d, x, y - f)]]
    BY <2>1 DEF TablesOf, DecompAndModUp_pre_scale, f
  <2>6. C.pre_scale[d][k][i] = PartQlHatInvModq(B, d, k, j)
    <3> HIDE DEF k
    <3> QED BY <2>4, <2>5
  <2>7. PartQlHatInvModq(B, d, k, j) = modinv(HatModulo(B, f, n, i, B.prime[i]), B.prime[i])
    <3> HIDE DEF k, j
    <3> QED BY <2>4 DEF PartQlHatInvModq, f
  <2>8. f + n <= B.L + B.K
    BY <1>2, <2>2
  <2>9. modinv(HatModulo(B, f, n, i, B.prime[i]), B.prime[i]) \in Residue(B.prime[i])
    BY <2>2, <2>4, <2>8, HatFits
  <2> QED BY <1>1, <2>1, <2>6, <2>7, <2>9 DEF n
<1> QED BY <1>4, <1>5, <1>6, <1>7 DEF FactorsFit

\* And the matrices: an entry is a residue of some prime, which need not be its own.
LEMMA TablesFitMatrices ==
    ASSUME NEW s \in Param, NEW B, B = Basis(s), NEW C, TablesOf(C, B)
    PROVE  MatricesFit(C)
<1>1. C.L = B.L /\ C.K = B.K /\ C.dnum = B.dnum /\ C.prime = B.prime /\ C.digit = B.digit
  BY DEF TablesOf
<1>2. /\ B.L \in Nat /\ B.K \in Nat /\ B.dnum \in 1..B.L /\ DOMAIN B.prime = Numbers(B)
      /\ \A i \in Numbers(B) : B.prime[i] \in Nat /\ B.prime[i] >= 2
  BY BasisPrimes
<1>3. \A i \in 0..B.L - 1 : i \in Numbers(B)
  BY <1>2 DEF Numbers
<1>4. ASSUME NEW k \in 0..C.K - 1, NEW i \in 0..C.L - 1
      PROVE  C.ModDown_matrix[k][i] \in Residue(C.prime[i])
  <2>1. i \in Numbers(B) /\ i \in 0..B.L - 1 /\ k \in 0..B.K - 1
    BY <1>1, <1>3
  <2>2. C.ModDown_matrix[k][i] = HatModulo(B, B.L, B.K, B.L + k, B.prime[i])
    BY <2>1 DEF TablesOf, PHatModq
  <2>3. B.L + B.K <= B.L + B.K
    BY <1>2
  <2>4. HatModulo(B, B.L, B.K, B.L + k, B.prime[i]) \in Residue(B.prime[i])
    BY <1>2, <2>1, <2>3, HatFits
  <2> QED BY <1>1, <2>2, <2>4
<1>5. ASSUME NEW l \in 0..C.L - 1, NEW d \in 0..C.dnum - 1, NEW i \in DigitFrom(C, d, l),
             NEW j \in DigitTo(C, d, l)
      PROVE  \E m \in Numbers(C) : C.matrix[l][i][j] \in Residue(C.prime[m])
  <2> DEFINE n == InUse(B, d, l)
             f == B.first[d]
             size == OthersAt(B, d, l)
             P == {pos \in 0..size - 1 : predicted_primeid(B, d, size, pos) = j}
             pos == CHOOSE pos \in P : TRUE
             o == Other(B, d, l, pos)
  <2>1. DigitFrom(C, d, l) = DigitFrom(B, d, l) /\ d \in 0..B.dnum - 1 /\ l \in 0..B.L - 1
    BY <1>1 DEF DigitFrom
  <2>2. /\ f \in Nat /\ B.whole[d] \in Nat /\ f + B.whole[d] <= B.L
        /\ n \in Nat /\ n <= B.whole[d] /\ n <= l + 1
    BY <2>1, DigitInUse DEF InUse
  <2>3. i \in 0..l /\ B.digit[i] = d /\ i \in Numbers(B)
    BY <1>2, <1>3, <2>1 DEF DigitFrom
  <2>4. j \in DOMAIN B.prime /\ Numbers(C) = Numbers(B)
    <3>1. j \in 0..l \/ j \in B.L..B.L + B.K - 1
      BY <1>1 DEF DigitTo, Special
    <3>2. j \in Numbers(B)
      BY <1>2, <2>1, <3>1 DEF Numbers
    <3> QED BY <1>1, <1>2, <3>2 DEF Numbers
  <2>5. C.matrix[l][i][j] = IF P = {} THEN 0 ELSE PartQlHatModp(B, l, d, i - f, pos)
    <3>1. C.matrix[l] = DecompAndModUp_matrix(B, l)
      BY <2>1 DEF TablesOf
    <3> DEFINE value(e) ==
                   LET z == OthersAt(B, e, l)
                       Q == {q \in 0..z - 1 : predicted_primeid(B, e, z, q) = j}
                   IN  IF Q = {} THEN 0 ELSE PartQlHatModp(B, l, e, i - B.first[e], CHOOSE q \in Q : TRUE)
    <3>2. DecompAndModUp_matrix(B, l)[i][j] = value(B.digit[i])
      BY <2>3, <2>4 DEF DecompAndModUp_matrix
    <3>3. value(B.digit[i]) = value(d)
      <4> HIDE DEF value
      <4> QED BY <2>3
    <3> QED BY <3>1, <3>2, <3>3
  <2>6. size = l + 1 - n + B.K
    BY DEF OthersAt
  <2> HIDE DEF n, f, size
  <2>7. CASE P = {}
    <3>1. B.prime[j] \in Nat /\ B.prime[j] >= 2
      BY <1>2, <2>4
    <3>2. 0 \in Residue(B.prime[j])
      BY <3>1 DEF Residue
    <3> HIDE DEF P
    <3> QED BY <1>1, <1>2, <2>4, <2>5, <2>7, <3>2
  <2>8. CASE P # {}
    <3>1. pos \in 0..size - 1
      <4>1. pos \in P
        BY <2>8
      <4> HIDE DEF pos
      <4> QED BY <4>1
    <3> HIDE DEF P, pos
    <3>2. o = IF pos >= size - B.K THEN B.L + B.K + pos - size ELSE IF pos < f THEN pos ELSE pos + n
      BY DEF Other, n, f, size
    <3> HIDE DEF o
    <3>3. o \in Numbers(B)
      <4> DEFINE L == B.L
                 K == B.K
      <4>1. L \in Nat /\ K \in Nat /\ l \in 0..L - 1 /\ f \in Nat /\ n \in Nat /\ n <= l + 1
        BY <1>2, <2>1, <2>2
      <4>2. /\ size = l + 1 - n + K /\ pos \in 0..size - 1
            /\ o = IF pos >= size - K THEN L + K + pos - size ELSE IF pos < f THEN pos ELSE pos + n
        BY <2>6, <3>1, <3>2
      <4> HIDE DEF L, K
      <4>3. size \in Int /\ pos \in Int /\ pos >= 0 /\ pos <= size - 1
        BY <4>1, <4>2
      <4>4. CASE pos >= size - K
        <5>1. o = L + K + pos - size
          BY <4>2, <4>4
        <5>2. o \in 0..L + K - 1
          BY <4>1, <4>2, <4>3, <4>4, <5>1
        <5> QED BY <5>2 DEF Numbers, L, K
      <4>5. CASE pos < size - K
        <5>1. o = pos \/ o = pos + n
          BY <4>1, <4>2, <4>3, <4>5
        <5>2. pos < l + 1 - n
          BY <4>1, <4>2, <4>3, <4>5
        <5>3. o \in 0..L + K - 1
          BY <4>1, <4>3, <5>1, <5>2
        <5> QED BY <5>3 DEF Numbers, L, K
      <4> QED BY <4>1, <4>3, <4>4, <4>5
    <3>4. PartQlHatModp(B, l, d, i - f, pos) = HatModulo(B, f, n, f + (i - f), B.prime[o])
      BY DEF PartQlHatModp, n, f, o
    <3>5. f + n <= B.L + B.K
      BY <1>2, <2>2
    <3>6. HatModulo(B, f, n, f + (i - f), B.prime[o]) \in Residue(B.prime[o])
      BY <2>2, <3>3, <3>5, HatFits
    <3> QED BY <1>1, <2>4, <2>5, <2>8, <3>3, <3>4, <3>6
  <2> HIDE DEF P
  <2> QED BY <2>7, <2>8
<1> QED BY <1>4, <1>5 DEF MatricesFit

\* All tables are.
LEMMA TablesFit ==
    ASSUME NEW s \in Param, NEW B, B = Basis(s), NEW C, TablesOf(C, B)
    PROVE  Fits(C) /\ Numbers(C) = Numbers(B)
BY TablesFitBasis, TablesFitFactors, TablesFitMatrices DEF Fits

\* The values of a polynomial with small coefficients
LEMMA ValuesBelow ==
    ASSUME NEW C, NEW i, PrimeFits(C, i), NEW x \in [0..N - 1 -> Int]
    PROVE  Values(C, i, x) \in LimbsBelow(C.prime[i])
<1> DEFINE p == C.prime[i]
           psi == C.roots[i].psi_no
           w(k) == [n \in 0..N - 1 |-> x[n] * psi[(n * Exponent[k]) % (2 * N)]]
<1>1. p \in Nat \ {0} /\ N \in Nat \ {0} /\ 2 * N \in Nat \ {0} /\ logN \in Nat
  BY PrimeType, NType, WordBitsAssumption
<1>2. psi \in [0..2 * N - 1 -> Residue(p)]
  BY DEF PrimeFits
<1>3. Values(C, i, x) = [k \in 0..N - 1 |-> SumTo(N, w(k)) % p]
  BY DEF Values
<1> HIDE DEF p, psi
<1>4. ASSUME NEW k \in 0..N - 1 PROVE SumTo(N, w(k)) % p \in 0..p - 1
  <2> DEFINE e == Exponent[k]
             b == bit_reverse(k, logN)
  <2>1. b \in 0..TwoTo(logN) - 1
    <3>1. k \in Nat /\ logN \in Nat
      BY <1>1
    <3> QED BY <3>1, bit_reverseBelow
  <2>2. TwoTo(logN) \in Nat
    BY <1>1, TwoToValue
  <2>3. e = 2 * b + 1
    <3> DEFINE f(j) == 2 * bit_reverse(j, logN) + 1
    <3>1. Exponent = [j \in 0..N - 1 |-> f(j)]
      BY DEF Exponent
    <3>2. f(k) = 2 * b + 1
      OBVIOUS
    <3> HIDE DEF f, b
    <3> QED BY <3>1, <3>2
  <2> HIDE DEF b
  <2>4. e \in Nat
    BY <2>1, <2>2, <2>3
  <2>5. w(k) = [n \in 0..N - 1 |-> x[n] * psi[(n * e) % (2 * N)]]
    OBVIOUS
  <2> HIDE DEF e
  <2>6. ASSUME NEW n \in 0..N - 1 PROVE x[n] * psi[(n * e) % (2 * N)] \in Int
    <3> DEFINE z == n * e
               r == z % (2 * N)
    <3>1. z \in Int
      BY <2>4
    <3> HIDE DEF z
    <3>2. r \in 0..2 * N - 1
      BY <1>1, <3>1, Below
    <3>3. r = (n * e) % (2 * N)
      BY DEF z
    <3> HIDE DEF r
    <3>4. psi[r] \in Int
      BY <1>1, <1>2, <3>2 DEF Residue
    <3>5. x[n] \in Int
      OBVIOUS
    <3>6. x[n] * psi[r] \in Int
      BY <3>4, <3>5
    <3> QED BY <3>3, <3>6
  <2> DEFINE v == w(k)
  <2>7. v \in [0..N - 1 -> Int]
    BY <2>5, <2>6
  <2> HIDE DEF v
  <2>8. SumTo(N, v) \in Int
    BY <1>1, <2>7, SumToType
  <2> DEFINE u == SumTo(N, v)
  <2> HIDE DEF u
  <2>9. u % p \in 0..p - 1
    BY <1>1, <2>8, Below DEF u
  <2> QED BY <2>9 DEF u, v
<1> HIDE DEF w
<1> QED BY <1>3, <1>4 DEF LimbsBelow, Residue, p

\* The key of a context
LEMMA KeysFit ==
    ASSUME NEW s \in Param, NEW B, B = Basis(s), NEW A, TablesOf(A, B),
           NEW secret, secret = [i \in DOMAIN A.prime |-> Values(A, i, Secret)]
    PROVE  KeyFits(A, Keys(A, secret))
<1>1. /\ BasisFits(A) /\ A.L \in Nat /\ A.K \in Nat /\ A.dnum \in 1..A.L
      /\ DOMAIN A.prime = Numbers(A)
  <2>1. DOMAIN B.prime = Numbers(B)
    BY BasisPrimes
  <2>2. A.prime = B.prime
    BY DEF TablesOf
  <2> QED BY <2>1, <2>2, TablesFitBasis DEF BasisFits
<1>2. IsFiniteSet(Special(A)) /\ Special(A) \subseteq Numbers(A)
  <2>1. A.L \in Int /\ A.L + A.K - 1 \in Int
    BY <1>1
  <2>2. IsFiniteSet(A.L..A.L + A.K - 1)
    BY <2>1, FS_Interval
  <2>3. Special(A) \subseteq Numbers(A)
    BY <1>1 DEF Special, Numbers
  <2> QED BY <2>2, <2>3 DEF Special
<1>3. Modulus(A, Special(A)) \in Nat
  <2>1. \A i \in Special(A) : A.prime[i] \in Nat
    BY <1>1, <1>2, PrimeType DEF BasisFits
  <2> QED BY <1>2, <2>1, ModulusType
<1>4. Secret \in [0..N - 1 -> Int] /\ \A d : KeyError(d) \in [0..N - 1 -> Int]
  BY DEF Secret, KeyError
<1>5. ASSUME NEW d \in 0..A.dnum - 1, NEW i \in Numbers(A)
      PROVE  /\ Keys(A, secret)[d][i]["a"] \in LimbsBelow(A.prime[i])
             /\ Keys(A, secret)[d][i]["b"] \in LimbsBelow(A.prime[i])
  <2> DEFINE p == A.prime[i]
             t == secret[i]
             a == Limb(A, i, 7 * d + 3)
             e == Values(A, i, KeyError(d))
             P == IF i < A.L /\ A.digit[i] = d THEN Modulus(A, Special(A)) % p ELSE 0
             b == [k \in 0..N - 1 |-> (((P * t[k]) % p) * t[k] + e[k] - a[k] * t[k]) % p]
  <2>1. PrimeFits(A, i) /\ p \in Nat \ {0} /\ i \in Nat /\ 7 * d + 3 \in Nat
    BY <1>1, PrimeType DEF BasisFits, Numbers
  <2>2. Keys(A, secret)[d][i] = [a |-> a, b |-> b]
    BY <1>1 DEF Keys
  <2>3. a \in LimbsBelow(p) /\ e \in LimbsBelow(p) /\ t \in LimbsBelow(p)
    <3>1. t = Values(A, i, Secret)
      BY <1>1
    <3> HIDE DEF t
    <3>2. a \in LimbsBelow(p)
      BY <2>1, LimbBelow
    <3>3. e \in LimbsBelow(p)
      BY <1>4, <2>1, ValuesBelow
    <3>4. t \in LimbsBelow(p)
      BY <1>4, <2>1, <3>1, ValuesBelow
    <3> QED BY <3>2, <3>3, <3>4
  <2>4. P \in Int
    <3> DEFINE M == Modulus(A, Special(A))
    <3>1. M \in Int
      BY <1>3
    <3> HIDE DEF M, p
    <3>2. M % p \in Int
      BY <2>1, <3>1, Below
    <3> QED BY <3>2 DEF M, p
  <2> HIDE DEF p, t, a, e, P
  <2>5. ASSUME NEW k \in 0..N - 1 PROVE b[k] \in 0..p - 1
    <3> DEFINE tk == t[k]
               z == P * tk
               m == z % p
               y == m * tk
               v == a[k] * tk
               u == y + e[k] - v
    <3>1. tk \in Int /\ e[k] \in Int /\ a[k] \in Int
      BY <2>1, <2>3 DEF LimbsBelow, Residue
    <3> HIDE DEF tk
    <3>2. z \in Int
      BY <2>4, <3>1
    <3> HIDE DEF z
    <3>3. m \in Int
      BY <2>1, <3>2, Below
    <3> HIDE DEF m
    <3>4. y \in Int /\ v \in Int
      BY <3>1, <3>3
    <3> HIDE DEF y, v
    <3>5. u \in Int
      BY <3>1, <3>4
    <3>6. b[k] = u % p
      BY DEF u, v, y, m, z, tk
    <3> HIDE DEF u
    <3>7. u % p \in 0..p - 1
      BY <2>1, <3>5, Below
    <3> QED BY <3>6, <3>7
  <2>6. b \in LimbsBelow(p)
    BY <2>5 DEF LimbsBelow, Residue
  <2> HIDE DEF b
  <2> QED BY <2>2, <2>3, <2>6 DEF p
<1> QED BY <1>5 DEF KeyFits

\* The tables of every context are as the kernels rely on them.
LEMMA AllTablesFit ==
    ASSUME NEW s \in Param
    PROVE  Fits(Tables[s]) /\ KeyFits(Tables[s], Tables[s].key) /\ Tables[s].L = Len(s.q)
<1> DEFINE C == WithKeys(s)
           A == SetupConstants(s)
           B == Basis(s)
<1>1. TablesOf(C, B) /\ TablesOf(A, B)
  BY WithKeysFields
<1>2. PICK secret : /\ secret = [i \in DOMAIN A.prime |-> Values(A, i, Secret)]
                    /\ C.key = Keys(A, secret)
  BY WithKeysFields
<1>3. B.L = Len(s.q)
  BY BasisFields
<1>4. Tables[s] = C
  BY DEF Tables
<1> HIDE DEF C, A
<1>5. B = Basis(s)
  OBVIOUS
<1> HIDE DEF B
<1>6. Fits(C) /\ C.L = Len(s.q)
  <2>1. Fits(C)
    BY <1>1, <1>5, TablesFit
  <2>2. C.L = B.L
    BY <1>1 DEF TablesOf
  <2> QED BY <1>3, <2>1, <2>2
<1>7. KeyFits(A, Keys(A, secret))
  BY <1>1, <1>2, <1>5, KeysFit
<1>8. KeyFits(C, C.key)
  <2>1. C.L = A.L /\ C.K = A.K /\ C.dnum = A.dnum /\ C.prime = A.prime
    BY <1>1 DEF TablesOf
  <2> QED BY <1>2, <1>7, <2>1 DEF KeyFits, Numbers
<1> QED BY <1>4, <1>6, <1>8
-----------------------------------------------------------------------------
(* The contexts whose constants, keys and memory the kernels use           *)

\* The switching keys
KeyRec == [from : Param, to : Param, id : Api, on : Data]

\* The states the calls change
StateRec == [registered : [Param -> Data \cup {None}], current : Data \cup {None},
             constants : Param \cup {None}, handle : [Api -> Data \cup {None}],
             paramOf : [Data -> Param \cup {None}], sparse : [Data -> SUBSET Data],
             keys : SUBSET KeyRec]

\* What the registry and the API contexts refer to exists and has their parameters,
\* only main contexts refer to auxiliary ones, which exist, and a key is on a context
\* that has the parameters it leads to.
Sound(st, pm) ==
    /\ st \in StateRec
    /\ \A p \in Param : st.registered[p] # None => st.paramOf[st.registered[p]] = p
    /\ \A a \in Api : st.handle[a] # None => st.paramOf[st.handle[a]] = pm[a]
    /\ \A d \in Data : \A s \in st.sparse[d] : st.paramOf[d] \in Main /\ st.paramOf[s] \in Auxiliary
    /\ \A k \in st.keys : st.paramOf[k.on] = k.to

\* The auxiliary contexts registered are those that registered contexts refer to.
Shared(st) ==
    \A s \in Data :
        (\E p \in Auxiliary : st.registered[p] = s)
        <=> (\E p \in Main : st.registered[p] # None /\ s \in st.sparse[st.registered[p]])

\* API contexts A find the auxiliary context they bootstrap with.
Served(st, pm, ax, A) ==
    \A a \in A : st.handle[a] # None /\ st.registered[pm[a]] = st.handle[a] =>
        st.registered[ax[pm[a]]] \in st.sparse[st.handle[a]]

\* The devices hold the constants of the current context, which exists.
Uploaded(st) ==
    st.current # None => st.paramOf[st.current] # None /\ st.constants = st.paramOf[st.current]

\* All of these together
Good(st, pm, ax, A) == Sound(st, pm) /\ Shared(st) /\ Served(st, pm, ax, A) /\ Uploaded(st)

\* Other contexts, references and keys leave the record a state.
LEMMA Retyped ==
    ASSUME NEW st \in StateRec, NEW f \in [Data -> Param \cup {None}],
           NEW g \in [Data -> SUBSET Data], NEW K \in SUBSET KeyRec,
           NEW e, e = [st EXCEPT !.paramOf = f, !.sparse = g, !.keys = K]
    PROVE  e \in StateRec
BY DEF StateRec

\* What nobody owns goes, and nothing that is referred to does.
LEMMA SettledGood ==
    ASSUME ParametersAssumption,
           NEW pm \in [Api -> Main], NEW ax \in [Main -> Auxiliary], NEW A \in SUBSET Api,
           NEW st, Good(st, pm, ax, A)
    PROVE  Good(Settled(st), pm, ax, A)
<1> DEFINE owned == Range(st.registered) \cup Range(st.handle) \cup {st.current}
           dead  == {d \in Data : st.paramOf[d] # None /\ d \notin owned}
           gone  == {st.paramOf[d] : d \in dead}
           e == Settled(st)
<1>1. st \in StateRec /\ None \notin Data /\ None \notin Param
  BY DEF Good, Sound, ParametersAssumption, Param
<1>2. /\ e.registered = st.registered /\ e.current = st.current /\ e.constants = st.constants
      /\ e.handle = st.handle /\ e.keys = {k \in st.keys : {k.from, k.to} \cap gone = {}}
      /\ e.paramOf = [d \in Data |-> IF d \in dead THEN None ELSE st.paramOf[d]]
      /\ e.sparse = [d \in Data |-> IF d \in dead THEN {} ELSE st.sparse[d] \ dead]
  BY <1>1 DEF StateRec, Settled, Without
<1>3. e \in StateRec
  <2>1. /\ e.registered \in [Param -> Data \cup {None}] /\ e.current \in Data \cup {None}
        /\ e.constants \in Param \cup {None} /\ e.handle \in [Api -> Data \cup {None}]
        /\ e.keys \in SUBSET KeyRec
    BY <1>1, <1>2 DEF StateRec
  <2>2. e.paramOf \in [Data -> Param \cup {None}] /\ e.sparse \in [Data -> SUBSET Data]
    <3>1. st.paramOf \in [Data -> Param \cup {None}] /\ st.sparse \in [Data -> SUBSET Data]
      BY <1>1 DEF StateRec
    <3> HIDE DEF dead, e
    <3>2. /\ \A d \in Data : (IF d \in dead THEN None ELSE st.paramOf[d]) \in Param \cup {None}
          /\ \A d \in Data : (IF d \in dead THEN {} ELSE st.sparse[d] \ dead) \in SUBSET Data
      BY <3>1
    <3> QED BY <1>2, <3>2
  <2> HIDE DEF dead, gone, owned
  <2> DEFINE f == e.paramOf
             g == e.sparse
             K == e.keys
  <2>3. e = [st EXCEPT !.paramOf = f, !.sparse = g, !.keys = K]
    BY <1>1 DEF StateRec, Settled
  <2>4. f \in [Data -> Param \cup {None}] /\ g \in [Data -> SUBSET Data] /\ K \in SUBSET KeyRec
    BY <2>1, <2>2
  <2> HIDE DEF e, f, g, K
  <2> QED BY <1>1, <2>3, <2>4, Retyped
<1>4. /\ \A p \in Param : st.registered[p] \notin dead
      /\ \A a \in Api : st.handle[a] \notin dead
      /\ st.current \notin dead
  BY <1>1 DEF StateRec, Range
<1>5. \A k \in st.keys : k.on \in Data
  BY <1>1 DEF StateRec, KeyRec
<1>6. \A d \in dead : d \in Data /\ st.paramOf[d] \in gone
  OBVIOUS
<1> HIDE DEF owned, dead, gone, e
<1>7. Sound(e, pm)
  <2>1. \A p \in Param : e.registered[p] # None => e.paramOf[e.registered[p]] = p
    <3>1. \A p \in Param : st.registered[p] \in Data \cup {None}
      BY <1>1 DEF StateRec
    <3> QED BY <1>2, <1>4, <3>1 DEF Good, Sound
  <2>2. \A a \in Api : e.handle[a] # None => e.paramOf[e.handle[a]] = pm[a]
    <3>1. \A a \in Api : st.handle[a] \in Data \cup {None}
      BY <1>1 DEF StateRec
    <3> QED BY <1>2, <1>4, <3>1 DEF Good, Sound
  <2>3. \A d \in Data : \A s \in e.sparse[d] : e.paramOf[d] \in Main /\ e.paramOf[s] \in Auxiliary
    <3>1. \A d \in Data : st.sparse[d] \subseteq Data
      BY <1>1 DEF StateRec
    <3> QED BY <1>2, <3>1 DEF Good, Sound
  <2>4. \A k \in e.keys : e.paramOf[k.on] = k.to
    BY <1>2, <1>5, <1>6 DEF Good, Sound
  <2> QED BY <1>3, <2>1, <2>2, <2>3, <2>4 DEF Sound
<1>8. \A p \in Main : st.registered[p] # None => e.sparse[st.registered[p]] = st.sparse[st.registered[p]]
  <2> SUFFICES ASSUME NEW p \in Main, st.registered[p] # None
               PROVE  e.sparse[st.registered[p]] = st.sparse[st.registered[p]]
    OBVIOUS
  <2>1. p \in Param /\ st.registered[p] \in Data /\ st.registered[p] \notin dead
    BY <1>1, <1>4 DEF StateRec, Param
  <2>2. \A s \in st.sparse[st.registered[p]] : s \notin dead
    <3>1. \A s \in st.sparse[st.registered[p]] : s \in Data
      BY <1>1, <2>1 DEF StateRec
    <3>2. \A s \in st.sparse[st.registered[p]] : \E q \in Auxiliary : st.registered[q] = s
      BY <3>1 DEF Good, Shared
    <3> QED BY <1>4, <3>2 DEF Param
  <2>3. st.sparse[st.registered[p]] \ dead = st.sparse[st.registered[p]]
    BY <2>2
  <2> QED BY <1>2, <2>1, <2>3
<1>9. Shared(e)
  <2> SUFFICES ASSUME NEW s \in Data
               PROVE  (\E p \in Auxiliary : e.registered[p] = s)
                      <=> (\E p \in Main : e.registered[p] # None /\ s \in e.sparse[e.registered[p]])
    BY DEF Shared
  <2>1. (\E p \in Auxiliary : st.registered[p] = s)
        <=> (\E p \in Main : st.registered[p] # None /\ s \in st.sparse[st.registered[p]])
    BY DEF Good, Shared
  <2>2. e.registered = st.registered
    BY <1>2
  <2>3. \A p \in Main : e.registered[p] # None /\ s \in e.sparse[e.registered[p]]
                        <=> st.registered[p] # None /\ s \in st.sparse[st.registered[p]]
    BY <1>8, <2>2
  <2> QED BY <2>1, <2>2, <2>3
<1>10. Served(e, pm, ax, A)
  <2> SUFFICES ASSUME NEW a \in A, e.handle[a] # None, e.registered[pm[a]] = e.handle[a]
               PROVE  e.registered[ax[pm[a]]] \in e.sparse[e.handle[a]]
    BY DEF Served
  <2> QED BY <1>2, <1>8 DEF Good, Served
<1>11. Uploaded(e)
  <2>1. st.current \in Data \cup {None} /\ Uploaded(st)
    BY <1>1 DEF StateRec, Good
  <2> QED BY <1>2, <1>4, <2>1 DEF Uploaded
<1> QED BY <1>7, <1>9, <1>10, <1>11 DEF Good, e

\* Making a context the current one changes nothing else, but for the constants.
LEMMA CurrentSet ==
    ASSUME NEW st \in StateRec, NEW d \in Data, NEW g, g = SetCurrentContext(st, d)
    PROVE  /\ g \in StateRec /\ g.current = d
           /\ g.registered = st.registered /\ g.handle = st.handle /\ g.paramOf = st.paramOf
           /\ g.sparse = st.sparse /\ g.keys = st.keys
           /\ g.constants = IF st.current = d THEN st.constants ELSE st.paramOf[d]
BY DEF StateRec, SetCurrentContext

\* Making a context the current one leaves things as they should be.
LEMMA CurrentSetGood ==
    ASSUME NEW pm, NEW ax, NEW A, NEW st, Good(st, pm, ax, A), NEW d \in Data, st.paramOf[d] # None
    PROVE  Good(SetCurrentContext(st, d), pm, ax, A)
<1> DEFINE g == SetCurrentContext(st, d)
<1>1. st \in StateRec
  BY DEF Good, Sound
<1>2. /\ g \in StateRec /\ g.registered = st.registered /\ g.handle = st.handle
      /\ g.paramOf = st.paramOf /\ g.sparse = st.sparse /\ g.keys = st.keys
      /\ g.current = d /\ g.constants = IF st.current = d THEN st.constants ELSE st.paramOf[d]
  BY <1>1, CurrentSet
<1> HIDE DEF g
<1>3. Sound(g, pm) /\ Shared(g) /\ Served(g, pm, ax, A)
  BY <1>2 DEF Good, Sound, Shared, Served
<1>4. Uploaded(g)
  <2>1. st.current = d /\ d # None => st.constants = st.paramOf[d]
    BY DEF Good, Uploaded
  <2> QED BY <1>2, <2>1 DEF Uploaded
<1> QED BY <1>3, <1>4 DEF Good, g

\* The context for p becomes the current one; it is a new one if none was registered.
LEMMA GenSound ==
    ASSUME ParametersAssumption, NEW pm \in [Api -> Main], NEW st, Sound(st, pm),
           NEW p \in Param, st.registered[p] # None \/ \E d \in Data : st.paramOf[d] = None,
           NEW g, g = GenCryptoContextGPU(st, p)
    PROVE  /\ Sound(g, pm) /\ g.current \in Data
           /\ g.registered = [st.registered EXCEPT ![p] = g.current]
           /\ g.handle = st.handle /\ g.sparse = st.sparse /\ g.paramOf[g.current] = p
           /\ \A d \in Data \ {g.current} : g.paramOf[d] = st.paramOf[d]
           /\ IF st.registered[p] = None THEN st.paramOf[g.current] = None
              ELSE g.current = st.registered[p] /\ g.registered = st.registered
<1>1. st \in StateRec /\ None \notin Data /\ None \notin Param
  BY DEF Sound, ParametersAssumption, Param
<1>2. /\ st.registered \in [Param -> Data \cup {None}] /\ st.paramOf \in [Data -> Param \cup {None}]
      /\ st.sparse \in [Data -> SUBSET Data] /\ st.keys \in SUBSET KeyRec
      /\ st.handle \in [Api -> Data \cup {None}]
  BY <1>1 DEF StateRec
<1>3. CASE st.registered[p] # None
  <2> DEFINE d == st.registered[p]
  <2>1. d \in Data /\ st.paramOf[d] = p
    BY <1>1, <1>2, <1>3 DEF Sound
  <2>2. /\ g \in StateRec /\ g.current = d /\ g.registered = st.registered
        /\ g.handle = st.handle /\ g.paramOf = st.paramOf
        /\ g.sparse = st.sparse /\ g.keys \subseteq st.keys
    <3> HIDE DEF d
    <3> DEFINE v == SetCurrentContext(st, d)
               K == Without(v.keys, {p})
    <3>1. g = [v EXCEPT !.keys = K]
      BY <1>3 DEF GenCryptoContextGPU, d
    <3>2. /\ v \in StateRec /\ v.current = d /\ v.registered = st.registered
          /\ v.handle = st.handle /\ v.paramOf = st.paramOf
          /\ v.sparse = st.sparse /\ v.keys = st.keys
      BY <1>1, <2>1, CurrentSet
    <3> HIDE DEF v
    <3>3. K \subseteq st.keys
      BY <3>2 DEF Without
    <3> HIDE DEF K
    <3> QED BY <1>2, <3>1, <3>2, <3>3 DEF StateRec
  <2>3. g.registered = [st.registered EXCEPT ![p] = d]
    BY <1>2, <2>2
  <2>4. Sound(g, pm)
    BY <2>2 DEF Sound
  <2> HIDE DEF d
  <2>5. d = st.registered[p]
    BY DEF d
  <2> QED BY <1>3, <2>1, <2>2, <2>3, <2>4, <2>5
<1>4. CASE st.registered[p] = None
  <2> DEFINE d == CHOOSE d \in Data : st.paramOf[d] = None
             u == [st EXCEPT !.registered[p] = d, !.paramOf[d] = p, !.constants = p]
  <2>1. d \in Data /\ st.paramOf[d] = None
    BY <1>4
  <2>2. g = SetCurrentContext(u, d)
    BY <1>4 DEF GenCryptoContextGPU
  <2> HIDE DEF d
  <2>3. /\ u \in StateRec /\ u.registered = [st.registered EXCEPT ![p] = d]
        /\ u.handle = st.handle /\ u.sparse = st.sparse /\ u.keys = st.keys
        /\ u.paramOf = [st.paramOf EXCEPT ![d] = p]
    BY <1>1, <2>1 DEF StateRec
  <2> HIDE DEF u
  <2>4. /\ g \in StateRec /\ g.registered = [st.registered EXCEPT ![p] = d] /\ g.current = d
        /\ g.handle = st.handle /\ g.sparse = st.sparse /\ g.keys = st.keys
        /\ g.paramOf = [st.paramOf EXCEPT ![d] = p]
    BY <2>1, <2>2, <2>3, CurrentSet
  <2>5. /\ g.paramOf[d] = p /\ \A x \in Data \ {d} : g.paramOf[x] = st.paramOf[x]
        /\ g.registered[p] = d /\ \A q \in Param \ {p} : g.registered[q] = st.registered[q]
    BY <1>2, <2>1, <2>4
  <2>6. \A q \in Param \ {p} : st.registered[q] # d
    BY <1>1, <2>1 DEF Sound
  <2>7. \A q \in Param : g.registered[q] # None => g.paramOf[g.registered[q]] = q
    BY <1>2, <2>5, <2>6 DEF Sound
  <2>8. \A a \in Api : g.handle[a] # None => g.paramOf[g.handle[a]] = pm[a]
    <3>1. \A a \in Api : pm[a] \in Param
      BY DEF Param
    <3> QED BY <1>1, <1>2, <2>1, <2>4, <2>5, <3>1 DEF Sound
  <2>9. \A x \in Data : \A s \in g.sparse[x] : g.paramOf[x] \in Main /\ g.paramOf[s] \in Auxiliary
    <3>1. \A x \in Data : \A s \in st.sparse[x] : s \in Data
      BY <1>2
    <3>2. None \notin Main /\ None \notin Auxiliary
      BY DEF ParametersAssumption
    <3>3. \A x \in Data : \A s \in st.sparse[x] : x # d /\ s # d
      BY <2>1, <3>2 DEF Sound
    <3> QED BY <2>4, <2>5, <3>1, <3>3 DEF Sound
  <2>10. \A k \in g.keys : g.paramOf[k.on] = k.to
    <3>1. \A k \in st.keys : k.on \in Data /\ k.to \in Param
      BY <1>2 DEF KeyRec
    <3> QED BY <1>1, <2>1, <2>4, <2>5, <3>1 DEF Sound
  <2>11. Sound(g, pm)
    BY <2>4, <2>7, <2>8, <2>9, <2>10 DEF Sound
  <2> QED BY <1>4, <2>1, <2>4, <2>5, <2>11
<1> QED BY <1>3, <1>4

\* The devices get its constants, if it is a new one or was not the current one.
LEMMA GenUploaded ==
    ASSUME ParametersAssumption, NEW pm \in [Api -> Main], NEW st, Sound(st, pm), Uploaded(st),
           NEW p \in Param, st.registered[p] # None \/ \E d \in Data : st.paramOf[d] = None
    PROVE  Uploaded(GenCryptoContextGPU(st, p))
<1> DEFINE g == GenCryptoContextGPU(st, p)
<1>1. st \in StateRec /\ None \notin Data /\ p # None
  BY DEF Sound, ParametersAssumption, Param
<1>2. CASE st.registered[p] # None
  <2> DEFINE d == st.registered[p]
             v == SetCurrentContext(st, d)
             K == Without(v.keys, {p})
  <2>1. d \in Data /\ st.paramOf[d] = p
    BY <1>1, <1>2 DEF Sound, StateRec
  <2>2. g = [v EXCEPT !.keys = K]
    BY <1>2 DEF GenCryptoContextGPU
  <2> HIDE DEF d
  <2>3. /\ v \in StateRec /\ v.current = d /\ v.paramOf = st.paramOf
        /\ v.constants = IF st.current = d THEN st.constants ELSE st.paramOf[d]
    BY <1>1, <2>1, CurrentSet
  <2> HIDE DEF v, K
  <2>4. g.current = v.current /\ g.paramOf = v.paramOf /\ g.constants = v.constants
    BY <2>2, <2>3 DEF StateRec
  <2> HIDE DEF g
  <2>5. st.current = d => st.constants = st.paramOf[d]
    BY <1>1, <2>1 DEF Uploaded
  <2>6. Uploaded(g)
    BY <1>1, <2>1, <2>3, <2>4, <2>5 DEF Uploaded
  <2> QED BY <2>6 DEF g
<1>3. CASE st.registered[p] = None
  <2> DEFINE d == CHOOSE d \in Data : st.paramOf[d] = None
             u == [st EXCEPT !.registered[p] = d, !.paramOf[d] = p, !.constants = p]
  <2>1. d \in Data /\ st.paramOf[d] = None
    BY <1>3
  <2>2. g = SetCurrentContext(u, d)
    BY <1>3 DEF GenCryptoContextGPU
  <2> HIDE DEF d, g
  <2>3. /\ u \in StateRec /\ u.constants = p /\ u.current = st.current
        /\ u.paramOf = [st.paramOf EXCEPT ![d] = p]
    BY <1>1, <2>1 DEF StateRec
  <2> HIDE DEF u
  <2>4. u.paramOf[d] = p
    BY <1>1, <2>1, <2>3 DEF StateRec
  <2>5. /\ g.current = d /\ g.paramOf = u.paramOf
        /\ g.constants = IF u.current = d THEN u.constants ELSE u.paramOf[d]
    <3>1. d \in Data /\ u \in StateRec
      BY <2>1, <2>3
    <3> QED BY <2>2, <3>1 DEF SetCurrentContext, StateRec
  <2>6. Uploaded(g)
    BY <1>1, <2>3, <2>4, <2>5 DEF Uploaded
  <2> QED BY <2>6 DEF g
<1> QED BY <1>2, <1>3

\* From st to g, API context a got an auxiliary context.
HasAuxiliary(g, st, a, A) ==
    /\ Good(g, param, auxiliary, A \cup {a})
    /\ g.handle = st.handle /\ g.registered[param[a]] = g.handle[a]
    /\ g.registered[auxiliary[param[a]]] # None

\* API context a gets an auxiliary context, which others may have already.
LEMMA AddBootstrapKeysGood ==
    ASSUME ParametersAssumption, param \in [Api -> Main], auxiliary \in [Main -> Auxiliary],
           NEW A \in SUBSET Api, NEW st, Good(st, param, auxiliary, A), NEW a \in Api,
           st.handle[a] # None, st.registered[param[a]] = st.handle[a],
           st.registered[auxiliary[param[a]]] # None \/ \E d \in Data : st.paramOf[d] = None
    PROVE  HasAuxiliary(AddBootstrapKeys(st, a), st, a, A)
<1> DEFINE g == AddBootstrapKeys(st, a)
           p == param[a]
           q == auxiliary[p]
           h == GenCryptoContextGPU(st, q)
           d == h.handle[a]
           s == h.current
           atob == [from |-> p, to |-> q, id |-> a, on |-> s]
           btoa == [from |-> q, to |-> p, id |-> a, on |-> d]
           K == Emplaced(Emplaced(h.keys, btoa), atob)
           S == [h.sparse EXCEPT ![d] = @ \cup {s}]
           u == [h EXCEPT !.keys = K, !.sparse[d] = @ \cup {s}]
<1>1. /\ p \in Main /\ q \in Auxiliary /\ p \in Param /\ q \in Param
      /\ None \notin Data /\ None \notin Param /\ \A r \in Main : r # q /\ r \in Param
  BY DEF ParametersAssumption, Param
<1>2. g = SetCurrentContext(u, d)
  BY DEF AddBootstrapKeys
<1>3. /\ Sound(st, param) /\ Shared(st) /\ Served(st, param, auxiliary, A) /\ st \in StateRec
      /\ Uploaded(st)
  BY DEF Good, Sound
<1>4. h = GenCryptoContextGPU(st, q)
  OBVIOUS
<1> HIDE DEF h, g
<1>5. /\ Sound(h, param) /\ s \in Data
      /\ h.registered = [st.registered EXCEPT ![q] = s]
      /\ h.handle = st.handle /\ h.sparse = st.sparse /\ h.paramOf[s] = q
      /\ IF st.registered[q] = None THEN st.paramOf[s] = None
         ELSE s = st.registered[q] /\ h.registered = st.registered
  BY <1>1, <1>3, <1>4, GenSound
<1>5a. Uploaded(h)
  BY <1>1, <1>3, <1>4, GenUploaded
<1>6. /\ st.registered \in [Param -> Data \cup {None}] /\ st.sparse \in [Data -> SUBSET Data]
      /\ st.handle \in [Api -> Data \cup {None}] /\ h.keys \in SUBSET KeyRec /\ h \in StateRec
  BY <1>3, <1>5 DEF StateRec, Sound
<1>7. d \in Data /\ d = st.handle[a] /\ h.paramOf[d] = p
  BY <1>5, <1>6 DEF Sound
<1> HIDE DEF p, q, d, s
<1>8. K \in SUBSET KeyRec /\ K \subseteq h.keys \cup {atob, btoa}
  <2>1. atob \in KeyRec /\ btoa \in KeyRec
    BY <1>1, <1>5, <1>7 DEF KeyRec
  <2> HIDE DEF atob, btoa
  <2>2. K \subseteq h.keys \cup {atob, btoa}
    BY DEF Emplaced
  <2> HIDE DEF K
  <2> QED BY <1>6, <2>1, <2>2
<1>9. S \in [Data -> SUBSET Data] /\ S[d] = st.sparse[d] \cup {s}
      /\ \A x \in Data \ {d} : S[x] = st.sparse[x]
  BY <1>5, <1>6, <1>7
<1>10. /\ u.registered = h.registered /\ u.handle = st.handle /\ u.paramOf = h.paramOf
       /\ u.sparse = S /\ u.keys = K /\ u \in StateRec
       /\ u.current = h.current /\ u.constants = h.constants
  <2> HIDE DEF K
  <2>1. /\ u.registered = h.registered /\ u.handle = h.handle /\ u.paramOf = h.paramOf
        /\ u.sparse = S /\ u.keys = K /\ u.current = h.current /\ u.constants = h.constants
    BY <1>6 DEF StateRec
  <2>2. u = [h EXCEPT !.paramOf = h.paramOf, !.sparse = S, !.keys = K]
    BY <1>6 DEF StateRec
  <2>3. h.paramOf \in [Data -> Param \cup {None}]
    BY <1>6 DEF StateRec
  <2> HIDE DEF u, S
  <2> DEFINE f == h.paramOf
  <2>4. u = [h EXCEPT !.paramOf = f, !.sparse = S, !.keys = K] /\ f \in [Data -> Param \cup {None}]
    BY <2>2, <2>3
  <2> HIDE DEF f
  <2>5. u \in StateRec
    BY <1>6, <1>8, <1>9, <2>4, Retyped
  <2> QED BY <1>5, <2>1, <2>5
<1> HIDE DEF u, S, K
<1>11. Sound(u, param)
  <2>1. \A x \in Data : \A y \in u.sparse[x] : u.paramOf[x] \in Main /\ u.paramOf[y] \in Auxiliary
    <3> SUFFICES ASSUME NEW x \in Data, NEW y \in S[x]
                 PROVE  h.paramOf[x] \in Main /\ h.paramOf[y] \in Auxiliary
      BY <1>10
    <3>1. \A z \in Data : \A w \in st.sparse[z] : h.paramOf[z] \in Main /\ h.paramOf[w] \in Auxiliary
      BY <1>5 DEF Sound
    <3> QED BY <1>1, <1>5, <1>7, <1>9, <3>1
  <2>2. \A k \in u.keys : u.paramOf[k.on] = k.to
    <3>1. \A k \in h.keys : h.paramOf[k.on] = k.to
      BY <1>5 DEF Sound
    <3>2. h.paramOf[atob.on] = atob.to /\ h.paramOf[btoa.on] = btoa.to
      BY <1>5, <1>7
    <3> HIDE DEF atob, btoa
    <3> QED BY <1>8, <1>10, <3>1, <3>2
  <2> QED BY <1>5, <1>10, <2>1, <2>2 DEF Sound
<1>12. /\ h.registered[q] = s /\ \A r \in Main : h.registered[r] = st.registered[r]
       /\ \A r \in Param \ {q} : h.registered[r] = st.registered[r]
       /\ st.registered[p] = d
  <2>1. st.registered[p] = d
    BY <1>7 DEF p
  <2> QED BY <1>1, <1>5, <1>6, <2>1
<1>13. Shared(u)
  <2> SUFFICES ASSUME NEW z \in Data
               PROVE  (\E r \in Auxiliary : h.registered[r] = z)
                      <=> (\E r \in Main : h.registered[r] # None /\ z \in S[h.registered[r]])
    BY <1>10 DEF Shared
  <2>1. CASE z = s
    BY <1>1, <1>7, <1>9, <1>12, <2>1
  <2>2. CASE z # s
    <3>1. (\E r \in Auxiliary : h.registered[r] = z) <=> (\E r \in Auxiliary : st.registered[r] = z)
      <4>1. st.registered[q] = s \/ st.registered[q] = None
        BY <1>5
      <4>2. \A r \in Auxiliary : r \in Param
        BY DEF Param
      <4> QED BY <1>1, <1>12, <2>2, <4>1, <4>2
    <3>2. \A x \in Data : z \in S[x] <=> z \in st.sparse[x]
      BY <1>9, <2>2
    <3>3. \A r \in Main : h.registered[r] = st.registered[r]
                         /\ (st.registered[r] # None => st.registered[r] \in Data)
      BY <1>1, <1>6, <1>12
    <3> QED BY <1>3, <3>1, <3>2, <3>3 DEF Shared
  <2> QED BY <2>1, <2>2
<1>14. Served(u, param, auxiliary, A \cup {a})
  <2> SUFFICES ASSUME NEW b \in A \cup {a}, st.handle[b] # None,
                      h.registered[param[b]] = st.handle[b]
               PROVE  h.registered[auxiliary[param[b]]] \in S[st.handle[b]]
    BY <1>10 DEF Served
  <2>1. CASE b = a
    BY <1>7, <1>9, <1>12, <2>1 DEF p, q
  <2>2. CASE b # a
    <3>1. b \in A /\ b \in Api /\ param[b] \in Main /\ auxiliary[param[b]] \in Param
      BY <2>2 DEF Param
    <3>2. st.registered[auxiliary[param[b]]] \in st.sparse[st.handle[b]]
      BY <1>3, <1>12, <3>1 DEF Served
    <3>3. st.handle[b] \in Data
      BY <1>6, <3>1
    <3>4. st.registered[auxiliary[param[b]]] \in Data
      BY <1>6, <3>2, <3>3
    <3>5. h.registered[auxiliary[param[b]]] = st.registered[auxiliary[param[b]]]
      BY <1>1, <1>5, <1>12, <3>1, <3>4
    <3> QED BY <1>7, <1>9, <3>2, <3>3, <3>5
  <2> QED BY <2>1, <2>2
<1>15. Good(u, param, auxiliary, A \cup {a})
  <2>1. Uploaded(u)
    BY <1>5a, <1>10 DEF Uploaded
  <2> QED BY <1>11, <1>13, <1>14, <2>1 DEF Good
<1>16. Good(g, param, auxiliary, A \cup {a})
  <2>1. d \in Data /\ u.paramOf[d] # None
    BY <1>1, <1>7, <1>10
  <2> QED BY <1>2, <1>15, <2>1, CurrentSetGood
<1>17. g.handle = u.handle /\ g.registered = u.registered
  BY <1>2, <1>7, <1>10, CurrentSet
<1>18. HasAuxiliary(g, st, a, A)
  BY <1>1, <1>5, <1>7, <1>10, <1>12, <1>16, <1>17 DEF p, q, HasAuxiliary
<1> QED BY <1>18 DEF g

\* Soundness does not depend on the current context, and on handles as far as parameters.
LEMMA SameSound ==
    ASSUME NEW pm, NEW st, Sound(st, pm), NEW e \in StateRec,
           e.registered = st.registered, e.paramOf = st.paramOf, e.sparse = st.sparse,
           e.keys = st.keys, \A b \in Api : e.handle[b] # None => e.paramOf[e.handle[b]] = pm[b]
    PROVE  Sound(e, pm)
BY DEF Sound

\* The context that LoadContext hands to a
Handed(st, a) ==
    LET h == GenCryptoContextGPU(st, param[a])
    IN  [h EXCEPT !.handle[a] = h.current]

\* From st to g, API context a got a context of its parameters.
HasContext(g, st, a, A) ==
    /\ Good(g, param, auxiliary, A) /\ g.handle[a] \in Data
    /\ \A b \in Api \ {a} : g.handle[b] = st.handle[b]
    /\ g.registered[param[a]] = g.handle[a]
    /\ \A d \in Data \ {g.handle[a]} : g.paramOf[d] = st.paramOf[d]

\* API context a gets a context of its parameters, which others may have already.
LEMMA HandedGood ==
    ASSUME ParametersAssumption, param \in [Api -> Main], auxiliary \in [Main -> Auxiliary],
           NEW A \in SUBSET Api, NEW st, Good(st, param, auxiliary, A), NEW a \in Api \ A,
           \E d \in Data : st.paramOf[d] = None
    PROVE  HasContext(Handed(st, a), st, a, A)
<1> DEFINE g == Handed(st, a)
           p == param[a]
           h == GenCryptoContextGPU(st, p)
           c == h.current
<1>1. /\ p \in Main /\ p \in Param /\ None \notin Data /\ None \notin Param
      /\ \A r \in Main : r \in Param /\ r # None /\ r \notin Auxiliary
      /\ \A r \in Auxiliary : r \in Param /\ r # p
  BY DEF ParametersAssumption, Param
<1>2. /\ Sound(st, param) /\ Shared(st) /\ Served(st, param, auxiliary, A) /\ st \in StateRec
      /\ Uploaded(st)
  BY DEF Good, Sound
<1>2a. Uploaded(h)
  BY <1>1, <1>2, GenUploaded
<1>3. /\ Sound(h, param) /\ c \in Data
      /\ h.registered = [st.registered EXCEPT ![p] = c]
      /\ h.handle = st.handle /\ h.sparse = st.sparse /\ h.paramOf[c] = p
      /\ \A d \in Data \ {c} : h.paramOf[d] = st.paramOf[d]
      /\ IF st.registered[p] = None THEN st.paramOf[c] = None
         ELSE c = st.registered[p] /\ h.registered = st.registered
  BY <1>1, <1>2, GenSound
<1>0. g = [h EXCEPT !.handle[a] = h.current]
  BY DEF Handed
<1> HIDE DEF g, h
<1>4. /\ st.registered \in [Param -> Data \cup {None}] /\ st.sparse \in [Data -> SUBSET Data]
      /\ st.handle \in [Api -> Data \cup {None}] /\ h \in StateRec
  BY <1>2, <1>3 DEF StateRec, Sound
<1> HIDE DEF c, p
<1>5. /\ g \in StateRec /\ g.handle = [st.handle EXCEPT ![a] = c]
      /\ g.registered = h.registered /\ g.paramOf = h.paramOf /\ g.sparse = st.sparse
      /\ g.keys = h.keys /\ g.current = h.current /\ g.constants = h.constants
  BY <1>0, <1>3, <1>4 DEF StateRec, c
<1>6. g.handle[a] = c /\ \A b \in Api \ {a} : g.handle[b] = st.handle[b]
  BY <1>4, <1>5
<1>7. Sound(g, param)
  <2>1. \A b \in Api : g.handle[b] # None => g.paramOf[g.handle[b]] = param[b]
    BY <1>3, <1>5, <1>6 DEF Sound, p
  <2>2. Sound(h, param)
    BY <1>3
  <2>3. g \in StateRec /\ g.registered = h.registered /\ g.paramOf = h.paramOf
    BY <1>5
  <2>4. g.sparse = h.sparse /\ g.keys = h.keys
    BY <1>3, <1>5
  <2> QED BY <2>1, <2>2, <2>3, <2>4, SameSound
<1>8. /\ h.registered[p] = c /\ \A r \in Param \ {p} : h.registered[r] = st.registered[r]
      /\ st.registered[p] = None => st.sparse[c] = {}
      /\ st.registered[p] # None => st.registered[p] = c
  <2>1. st.registered[p] = None => st.sparse[c] = {}
    BY <1>1, <1>3, <1>4 DEF Sound, Good
  <2> QED BY <1>1, <1>3, <1>4, <2>1
<1>9. Shared(g)
  <2> SUFFICES ASSUME NEW z \in Data
               PROVE  (\E r \in Auxiliary : h.registered[r] = z)
                      <=> (\E r \in Main : h.registered[r] # None /\ z \in st.sparse[h.registered[r]])
    BY <1>5 DEF Shared
  <2>1. (\E r \in Auxiliary : h.registered[r] = z) <=> (\E r \in Auxiliary : st.registered[r] = z)
    BY <1>1, <1>8
  <2>2. \A r \in Main : (h.registered[r] # None /\ z \in st.sparse[h.registered[r]])
                        <=> (st.registered[r] # None /\ z \in st.sparse[st.registered[r]])
    <3> SUFFICES ASSUME NEW r \in Main
                 PROVE  (h.registered[r] # None /\ z \in st.sparse[h.registered[r]])
                        <=> (st.registered[r] # None /\ z \in st.sparse[st.registered[r]])
      OBVIOUS
    <3>1. CASE r = p
      BY <1>1, <1>3, <1>8, <3>1
    <3>2. CASE r # p
      BY <1>1, <1>8, <3>2
    <3> QED BY <3>1, <3>2
  <2>3. (\E r \in Auxiliary : st.registered[r] = z)
        <=> (\E r \in Main : st.registered[r] # None /\ z \in st.sparse[st.registered[r]])
    BY <1>2 DEF Shared
  <2> QED BY <2>1, <2>2, <2>3
<1>10. Served(g, param, auxiliary, A)
  <2> SUFFICES ASSUME NEW b \in A, g.handle[b] # None, h.registered[param[b]] = g.handle[b]
               PROVE  h.registered[auxiliary[param[b]]] \in st.sparse[g.handle[b]]
    BY <1>5 DEF Served
  <2>1. /\ b \in Api /\ b # a /\ g.handle[b] = st.handle[b] /\ param[b] \in Main
        /\ auxiliary[param[b]] \in Auxiliary /\ param[b] \in Param
    BY <1>1, <1>6
  <2>2. st.registered[param[b]] = st.handle[b]
    <3>1. st.paramOf[st.handle[b]] = param[b]
      BY <1>2, <2>1 DEF Sound
    <3> QED BY <1>1, <1>3, <1>8, <2>1, <3>1
  <2>3. st.registered[auxiliary[param[b]]] \in st.sparse[st.handle[b]]
    BY <1>2, <2>1, <2>2 DEF Served
  <2> QED BY <1>1, <1>8, <2>1, <2>3
<1>11. Uploaded(g)
  BY <1>2a, <1>5 DEF Uploaded
<1> QED BY <1>3, <1>5, <1>6, <1>7, <1>8, <1>9, <1>10, <1>11 DEF HasContext, Good, c, p, g

\* From st to g, API context a got its context, and is ready for bootstrapping if it was
\* set up for any slot count.
Loads(g, st, a, S, A) ==
    /\ Good(g, param, auxiliary, IF S = {} THEN A ELSE A \cup {a})
    /\ g.handle[a] \in Data /\ \A b \in Api \ {a} : g.handle[b] = st.handle[b]

\* LoadContext leaves things as they should be.
LEMMA LoadingGood ==
    ASSUME ParametersAssumption, param \in [Api -> Main], auxiliary \in [Main -> Auxiliary],
           NEW A \in SUBSET Api, NEW st, Good(st, param, auxiliary, A), NEW a \in Api \ A,
           \E d, e \in Data : d # e /\ st.paramOf[d] = None /\ st.paramOf[e] = None,
           NEW S \in SUBSET Slots
    PROVE  Loads(Loading(st, a, S), st, a, S, A)
<1> DEFINE g == Loading(st, a, S)
           p == param[a]
           q == auxiliary[p]
           base == Handed(st, a)
           free(t) == \E d \in Data : t.paramOf[d] = None
           Kept(t, B) == /\ Good(t, param, auxiliary, B)
                         /\ t.handle = base.handle /\ t.registered[p] = t.handle[a]
                         /\ t.registered[q] # None \/ free(t)
           T == {t \in StateRec : Kept(t, A)}
           some(s) == CHOOSE x \in s : TRUE
           IsIter(f) == f = [s \in SUBSET S |-> IF s = {} THEN base
                                ELSE AddBootstrapKeys(f[s \ {some(s)}], a)]
           iter == CHOOSE f : IsIter(f)
<1>1. g = iter[S]
  BY DEF Loading, Handed, FoldSet, MapThenFoldSet
<1> HIDE DEF base, g
<1>2. /\ Kept(base, A) /\ base.handle[a] \in Data
      /\ \A b \in Api \ {a} : base.handle[b] = st.handle[b]
  <2>1. free(st)
    OBVIOUS
  <2>2. /\ Good(base, param, auxiliary, A) /\ base.handle[a] \in Data
        /\ \A b \in Api \ {a} : base.handle[b] = st.handle[b]
        /\ base.registered[p] = base.handle[a]
        /\ \A d \in Data \ {base.handle[a]} : base.paramOf[d] = st.paramOf[d]
    <3>1. \E d \in Data : st.paramOf[d] = None
      OBVIOUS
    <3>2. HasContext(base, st, a, A)
      BY <3>1, HandedGood, Zenon DEF base
    <3> QED BY <3>2, Zenon DEF HasContext
  <2>3. free(base)
    BY <2>2
  <2> QED BY <2>2, <2>3
<1>3. base \in T /\ None \notin Data
  BY <1>2 DEF ParametersAssumption, Good, Sound
<1>4. ASSUME NEW t \in T
      PROVE  /\ AddBootstrapKeys(t, a) \in StateRec
             /\ Kept(AddBootstrapKeys(t, a), A \cup {a}) /\ Kept(AddBootstrapKeys(t, a), A)
  <2> DEFINE r == AddBootstrapKeys(t, a)
  <2>1. t.handle[a] # None
    BY <1>2, <1>3
  <2>2. /\ Good(r, param, auxiliary, A \cup {a}) /\ r.handle = t.handle
        /\ r.registered[p] = r.handle[a] /\ r.registered[q] # None
    <3>1. /\ Good(t, param, auxiliary, A) /\ t.registered[param[a]] = t.handle[a]
          /\ t.registered[auxiliary[param[a]]] # None \/ \E x \in Data : t.paramOf[x] = None
          /\ a \in Api
      OBVIOUS
    <3>2. HasAuxiliary(r, t, a, A)
      BY <2>1, <3>1, AddBootstrapKeysGood, Zenon
    <3> HIDE DEF r
    <3> QED BY <3>2 DEF HasAuxiliary
  <2> HIDE DEF r
  <2>3. Good(r, param, auxiliary, A) /\ r \in StateRec
    BY <2>2 DEF Good, Served, Sound
  <2> QED BY <2>2, <2>3 DEF r
<1>5. IsFiniteSet(S)
  BY FS_Subset DEF ParametersAssumption
<1>6. IsIter(iter)
  <2> DEFINE step == [pair \in S \X T |-> AddBootstrapKeys(pair[2], a)]
  <2> HIDE DEF T
  <2>1. \A t \in T : AddBootstrapKeys(t, a) \in T
    BY <1>4 DEF T
  <2>2. step \in [S \X T -> T]
    BY <2>1
  <2>3. \A x \in S, t \in T : step[<<x, t>>] = AddBootstrapKeys(t, a)
    OBVIOUS
  <2> HIDE DEF step
  <2>4. PICK u \in [SUBSET S -> T] : IsSetFold(u, S, base, step)
    BY <1>3, <1>5, <2>2, SetFoldExists
  <2>5. ASSUME NEW s \in SUBSET S, s # {}
        PROVE  step[<<some(s), u[s \ {some(s)}]>>] = AddBootstrapKeys(u[s \ {some(s)}], a)
    <3>1. some(s) \in S /\ u[s \ {some(s)}] \in T
      BY <2>5
    <3> HIDE DEF some
    <3> QED BY <2>3, <3>1
  <2>6. u = [s \in SUBSET S |-> IF s = {} THEN base ELSE step[<<some(s), u[s \ {some(s)}]>>]]
    BY <2>4 DEF IsSetFold
  <2> HIDE DEF some
  <2>7. IsIter(u)
    BY <2>5, <2>6
  <2> QED BY <2>7
<1> HIDE DEF iter
<1>7. \A s \in SUBSET S : iter[s] \in T
  <2> DEFINE I == {s \in SUBSET S : iter[s] \in T}
  <2>1. ASSUME NEW s \in SUBSET S, \A x \in s : s \ {x} \in I
        PROVE  s \in I
    <3>1. CASE s = {}
      BY <1>3, <1>6, <3>1
    <3>2. CASE s # {}
      <4>1. some(s) \in s
        BY <3>2
      <4>2. iter[s] = AddBootstrapKeys(iter[s \ {some(s)}], a)
        BY <1>6, <3>2
      <4> HIDE DEF some
      <4>3. iter[s \ {some(s)}] \in T
        BY <2>1, <4>1
      <4> HIDE DEF Fits
      <4>4. AddBootstrapKeys(iter[s \ {some(s)}], a) \in T
        BY <1>4, <4>3
      <4> QED BY <4>2, <4>4
    <3> QED BY <3>1, <3>2
  <2> HIDE DEF I
  <2>2. SUBSET S \subseteq I
    BY <1>5, <2>1, SetInduction
  <2> QED BY <2>2 DEF I
<1>8. CASE S = {}
  <2>1. g = base
    BY <1>1, <1>6, <1>8
  <2> QED BY <1>2, <1>3, <1>8, <2>1 DEF Loads, g
<1>9. CASE S # {}
  <2> DEFINE t == iter[S \ {some(S)}]
  <2>1. some(S) \in S /\ g = AddBootstrapKeys(t, a)
    BY <1>1, <1>6, <1>9
  <2>2. t \in T
    BY <1>7
  <2> HIDE DEF t
  <2>3. Kept(g, A \cup {a})
    BY <1>4, <2>1, <2>2
  <2> QED BY <1>2, <1>9, <2>3 DEF Loads, g
<1> QED BY <1>8, <1>9

\* What Unregistered does to the fields
LEMMA UnregisteredFacts ==
    ASSUME NEW st \in StateRec, NEW P
    PROVE  LET e == Unregistered(st, P)
           IN  /\ e \in StateRec /\ e.handle = st.handle /\ e.paramOf = st.paramOf
               /\ e.sparse = st.sparse /\ e.keys \subseteq st.keys
               /\ e.registered = [r \in Param |-> IF r \in P THEN None ELSE st.registered[r]]
               /\ Uploaded(st) => Uploaded(e)
<1> DEFINE e == Unregistered(st, P)
           new == [r \in Param |-> IF r \in P THEN None ELSE st.registered[r]]
           now == IF st.current # None /\ st.paramOf[st.current] \in P THEN None ELSE st.current
           K == Without(st.keys, P)
<1>1. new \in [Param -> Data \cup {None}] /\ now \in Data \cup {None}
      /\ K \in SUBSET KeyRec /\ K \subseteq st.keys
  BY DEF StateRec, Without
<1>2. e = [st EXCEPT !.registered = new, !.keys = K, !.current = now]
  BY DEF Unregistered
<1> HIDE DEF e, new, now, K
<1>3. /\ e \in StateRec /\ e.handle = st.handle /\ e.paramOf = st.paramOf
      /\ e.sparse = st.sparse /\ e.keys = K /\ e.registered = new
      /\ e.current = now /\ e.constants = st.constants
  BY <1>1, <1>2 DEF StateRec
<1>4. Uploaded(st) => Uploaded(e)
  BY <1>3 DEF Uploaded, now
<1> QED BY <1>1, <1>3, <1>4 DEF e, new

\* A context goes with the auxiliary contexts that no other registered one uses.
LEMMA DeregisterGood ==
    ASSUME ParametersAssumption, param \in [Api -> Main], auxiliary \in [Main -> Auxiliary],
           NEW A \in SUBSET Api, NEW st, Good(st, param, auxiliary, A), NEW p \in Main
    PROVE  /\ Good(DeregisterCryptoContextGPU(st, p), param, auxiliary, A)
           /\ DeregisterCryptoContextGPU(st, p).handle = st.handle
<1> DEFINE retiring == st.registered[p]
           auxiliaries == IF retiring = None THEN {} ELSE st.sparse[retiring]
           rest == Unregistered(st, {p})
           others == Range(rest.registered) \ {None}
           unshared == {s \in auxiliaries : \A d \in others : s \notin st.sparse[d]}
           P == {st.paramOf[s] : s \in unshared}
           e == Unregistered(rest, {st.paramOf[s] : s \in unshared})
<1>1. e = DeregisterCryptoContextGPU(st, p)
  BY DEF DeregisterCryptoContextGPU
<1>2. /\ Sound(st, param) /\ Shared(st) /\ Served(st, param, auxiliary, A) /\ st \in StateRec
      /\ Uploaded(st)
      /\ None \notin Data /\ None \notin Param /\ p \in Param /\ p \notin Auxiliary
      /\ \A r \in Main : r \in Param /\ r \notin Auxiliary
      /\ \A r \in Auxiliary : r \in Param /\ r # p
  BY DEF Good, Sound, ParametersAssumption, Param
<1>3. /\ st.registered \in [Param -> Data \cup {None}] /\ st.paramOf \in [Data -> Param \cup {None}]
      /\ st.sparse \in [Data -> SUBSET Data] /\ st.handle \in [Api -> Data \cup {None}]
  BY <1>2 DEF StateRec
<1>4. /\ rest \in StateRec /\ rest.handle = st.handle /\ rest.paramOf = st.paramOf
      /\ rest.sparse = st.sparse /\ rest.keys \subseteq st.keys
      /\ rest.registered = [r \in Param |-> IF r \in {p} THEN None ELSE st.registered[r]]
      /\ Uploaded(rest)
  BY <1>2, UnregisteredFacts
<1> HIDE DEF rest
<1>5. /\ e \in StateRec /\ e.handle = rest.handle /\ e.paramOf = rest.paramOf
      /\ e.sparse = rest.sparse /\ e.keys \subseteq rest.keys
      /\ e.registered = [r \in Param |-> IF r \in P THEN None ELSE rest.registered[r]]
      /\ Uploaded(e)
  BY <1>4, UnregisteredFacts
<1>6. \A s \in auxiliaries : s \in Data /\ st.paramOf[s] \in Auxiliary /\ st.registered[st.paramOf[s]] = s
  <2> SUFFICES ASSUME NEW s \in auxiliaries
               PROVE  s \in Data /\ st.paramOf[s] \in Auxiliary /\ st.registered[st.paramOf[s]] = s
    OBVIOUS
  <2>1. retiring # None /\ retiring \in Data /\ s \in st.sparse[retiring] /\ s \in Data
    BY <1>2, <1>3
  <2>2. PICK q \in Auxiliary : st.registered[q] = s
    BY <1>2, <2>1 DEF Shared
  <2>3. st.paramOf[s] = q
    BY <1>2, <2>1, <2>2 DEF Sound
  <2> QED BY <2>1, <2>2, <2>3
<1>7. \A s \in auxiliaries :
          s \notin unshared <=> \E r \in Main \ {p} : st.registered[r] # None /\ s \in st.sparse[st.registered[r]]
  <2> SUFFICES ASSUME NEW s \in auxiliaries
               PROVE  s \notin unshared
                      <=> \E r \in Main \ {p} : st.registered[r] # None /\ s \in st.sparse[st.registered[r]]
    OBVIOUS
  <2>1. others = {st.registered[r] : r \in Param \ {p}} \ {None}
    BY <1>4 DEF Range
  <2>2. \A r \in Param : st.registered[r] # None /\ s \in st.sparse[st.registered[r]] => r \in Main
    BY <1>2, <1>3 DEF Sound
  <2> QED BY <1>2, <2>1, <2>2
<1> HIDE DEF others, e
<1>8. \A r \in Main : e.registered[r] = IF r = p THEN None ELSE st.registered[r]
  <2>1. \A r \in Main : r \notin P
    BY <1>2, <1>6
  <2> HIDE DEF P
  <2> QED BY <1>2, <1>4, <1>5, <2>1
<1>9. \A r \in Auxiliary : e.registered[r] = IF st.registered[r] \in unshared THEN None ELSE st.registered[r]
  <2>1. \A r \in Auxiliary : st.registered[r] \in unshared <=> r \in P
    <3> SUFFICES ASSUME NEW r \in Auxiliary
                 PROVE  st.registered[r] \in unshared <=> r \in P
      OBVIOUS
    <3>1. r \in P => st.registered[r] \in unshared
      BY <1>6
    <3>2. st.registered[r] \in unshared => st.paramOf[st.registered[r]] = r
      BY <1>2, <1>6 DEF Sound
    <3> QED BY <3>1, <3>2
  <2> HIDE DEF P, unshared
  <2> QED BY <1>2, <1>4, <1>5, <2>1
<1>10. /\ e.handle = st.handle /\ e.paramOf = st.paramOf /\ e.sparse = st.sparse
       /\ e.keys \subseteq st.keys
       /\ \A r \in Param : e.registered[r] # None => e.registered[r] = st.registered[r]
  BY <1>4, <1>5
<1>11. Sound(e, param)
  <2>1. \A r \in Param : e.registered[r] # None => e.paramOf[e.registered[r]] = r
    BY <1>2, <1>10 DEF Sound
  <2>2. \A k \in e.keys : e.paramOf[k.on] = k.to
    BY <1>2, <1>10 DEF Sound
  <2>3. \A a \in Api : e.handle[a] # None => e.paramOf[e.handle[a]] = param[a]
    BY <1>2, <1>10 DEF Sound
  <2>4. \A d \in Data : \A s \in e.sparse[d] : e.paramOf[d] \in Main /\ e.paramOf[s] \in Auxiliary
    BY <1>2, <1>10 DEF Sound
  <2>5. e \in StateRec
    BY <1>5
  <2> QED BY <2>1, <2>2, <2>3, <2>4, <2>5, Zenon DEF Sound
<1>12. \A s \in unshared : s \in auxiliaries
  OBVIOUS
<1> HIDE DEF P, unshared
<1>13. Shared(e)
  <2> SUFFICES ASSUME NEW z \in Data
               PROVE  (\E r \in Auxiliary : e.registered[r] = z)
                      <=> (\E r \in Main : e.registered[r] # None /\ z \in st.sparse[e.registered[r]])
    BY <1>10 DEF Shared
  <2>1. (\E r \in Auxiliary : st.registered[r] = z)
        <=> (\E r \in Main : st.registered[r] # None /\ z \in st.sparse[st.registered[r]])
    BY <1>2 DEF Shared
  <2>2. (\E r \in Auxiliary : e.registered[r] = z)
        <=> z \notin unshared /\ (\E r \in Auxiliary : st.registered[r] = z)
    BY <1>2, <1>9
  <2>3. (\E r \in Main : e.registered[r] # None /\ z \in st.sparse[e.registered[r]])
        <=> (\E r \in Main \ {p} : st.registered[r] # None /\ z \in st.sparse[st.registered[r]])
    BY <1>2, <1>8
  <2>4. (\E r \in Main : st.registered[r] # None /\ z \in st.sparse[st.registered[r]])
        <=> \/ z \in auxiliaries
            \/ \E r \in Main \ {p} : st.registered[r] # None /\ z \in st.sparse[st.registered[r]]
    OBVIOUS
  <2> HIDE DEF auxiliaries
  <2> QED BY <1>7, <1>12, <2>1, <2>2, <2>3, <2>4
<1>14. Served(e, param, auxiliary, A)
  <2> SUFFICES ASSUME NEW b \in A, st.handle[b] # None, e.registered[param[b]] = st.handle[b]
               PROVE  e.registered[auxiliary[param[b]]] \in st.sparse[st.handle[b]]
    BY <1>10 DEF Served
  <2>1. /\ b \in Api /\ param[b] \in Main \ {p} /\ auxiliary[param[b]] \in Auxiliary
        /\ st.registered[param[b]] = st.handle[b]
    BY <1>8
  <2>2. st.registered[auxiliary[param[b]]] \in st.sparse[st.registered[param[b]]]
    BY <1>2, <2>1 DEF Served
  <2>3. st.registered[auxiliary[param[b]]] \notin unshared
    BY <1>7, <1>12, <2>1, <2>2
  <2> QED BY <1>9, <2>1, <2>2, <2>3
<1>15. Good(e, param, auxiliary, A)
  BY <1>5, <1>11, <1>13, <1>14 DEF Good
<1> QED BY <1>1, <1>10, <1>15
-----------------------------------------------------------------------------
\* The API contexts set up for bootstrapping
Bootstrapping == {a \in Api : loaded[a] = "bootstraps"}

\* The inductive invariant of the registry
RegistryInv ==
    /\ param \in [Api -> Main] /\ auxiliary \in [Main -> Auxiliary]
    /\ loaded \in [Api -> {"no", "plain", "bootstraps"}]
    /\ \A a \in Api : loaded[a] # "no" => handle[a] # None
    /\ Good(State, param, auxiliary, Bootstrapping)

\* A process starts without contexts.
LEMMA InitRegistry == ParametersAssumption /\ RegistryInit => RegistryInv
<1> SUFFICES ASSUME ParametersAssumption, RegistryInit PROVE RegistryInv
  OBVIOUS
<1>1. State \in StateRec
  BY DEF RegistryInit, State, StateRec
<1>2. Sound(State, param)
  BY <1>1 DEF RegistryInit, State, Sound, Param
<1>3. Shared(State)
  BY DEF RegistryInit, State, Shared, Param, ParametersAssumption
<1>4. Served(State, param, auxiliary, Bootstrapping)
  BY DEF RegistryInit, Served, Bootstrapping
<1>5. Uploaded(State)
  BY DEF RegistryInit, State, Uploaded
<1> QED BY <1>2, <1>3, <1>4, <1>5 DEF RegistryInv, Good, RegistryInit

\* A call leaves the state that it makes, without what nobody owns.
LEMMA BecomesGood ==
    ASSUME ParametersAssumption, param \in [Api -> Main], auxiliary \in [Main -> Auxiliary],
           NEW A \in SUBSET Api, NEW st, Good(st, param, auxiliary, A), Becomes(st)
    PROVE  /\ Good(State', param', auxiliary', A) /\ handle' = st.handle
           /\ param' = param /\ auxiliary' = auxiliary
<1> DEFINE e == Settled(st)
<1>1. /\ registered' = e.registered /\ current' = e.current /\ constants' = e.constants
      /\ handle' = e.handle /\ paramOf' = e.paramOf /\ sparse' = e.sparse /\ keys' = e.keys
      /\ param' = param /\ auxiliary' = auxiliary
  BY DEF Becomes
<1>2. Good(e, param, auxiliary, A)
  BY SettledGood
<1>3. e.handle = st.handle
  BY DEF Good, Sound, StateRec, Settled
<1> HIDE DEF e
<1>4. State' = e
  <2>1. e \in StateRec
    BY <1>2 DEF Good, Sound
  <2> QED BY <1>1, <2>1 DEF State, StateRec
<1> QED BY <1>1, <1>2, <1>3, <1>4

\* Every call keeps the invariant.
LEMMA NextRegistry == ParametersAssumption /\ RegistryInv /\ [RegistryNext]_contextVars => RegistryInv'
<1> SUFFICES ASSUME ParametersAssumption, RegistryInv, [RegistryNext]_contextVars PROVE RegistryInv'
  OBVIOUS
<1> DEFINE A == Bootstrapping
<1>1. /\ param \in [Api -> Main] /\ auxiliary \in [Main -> Auxiliary]
      /\ loaded \in [Api -> {"no", "plain", "bootstraps"}]
      /\ \A a \in Api : loaded[a] # "no" => handle[a] # None
      /\ Good(State, param, auxiliary, A)
      /\ State.handle = handle /\ State.paramOf = paramOf
      /\ handle \in [Api -> Data \cup {None}]
      /\ A \in SUBSET Api
  BY DEF RegistryInv, State, Good, Sound, StateRec, Bootstrapping
<1>2. ASSUME NEW a \in Api, NEW S \in SUBSET Slots, loaded[a] = "no", RoomToLoad,
             Becomes(Loading(State, a, S))
      PROVE  /\ Good(State', param', auxiliary', IF S = {} THEN A ELSE A \cup {a})
             /\ Good(State', param', auxiliary', A)
             /\ handle'[a] # None /\ \A b \in Api \ {a} : handle'[b] = handle[b]
             /\ param' = param /\ auxiliary' = auxiliary
  <2> DEFINE g == Loading(State, a, S)
             B == IF S = {} THEN A ELSE A \cup {a}
  <2>1. a \in Api \ A
    BY <1>2 DEF Bootstrapping
  <2>2. \E d, e \in Data : d # e /\ State.paramOf[d] = None /\ State.paramOf[e] = None
    BY <1>1, <1>2 DEF RoomToLoad
  <2> HIDE DEF A
  <2>3. /\ Good(g, param, auxiliary, B)
        /\ g.handle[a] \in Data /\ \A b \in Api \ {a} : g.handle[b] = handle[b]
    <3>1. Loads(g, State, a, S, A)
      BY <1>1, <2>1, <2>2, LoadingGood, Zenon
    <3> QED BY <1>1, <3>1 DEF Loads
  <2>4. Becomes(g) /\ B \in SUBSET Api
    BY <1>1, <1>2
  <2> HIDE DEF g, B
  <2>5. /\ Good(State', param', auxiliary', B) /\ handle' = g.handle
        /\ param' = param /\ auxiliary' = auxiliary
    BY <1>1, <2>3, <2>4, BecomesGood
  <2>6. Good(State', param', auxiliary', A)
    <3>1. A \subseteq B
      BY DEF B
    <3> QED BY <2>5, <3>1 DEF Good, Served
  <2> QED BY <2>3, <2>5, <2>6 DEF B, ParametersAssumption
<1>3. ASSUME NEW a \in Api, NEW S \in SUBSET Slots, LoadContext(a, S)
      PROVE  RegistryInv'
  <2>1. /\ loaded[a] = "no" /\ RoomToLoad /\ Becomes(Loading(State, a, S))
        /\ loaded' = [loaded EXCEPT ![a] = IF S = {} THEN "plain" ELSE "bootstraps"]
    BY <1>3 DEF LoadContext
  <2>2. /\ Good(State', param', auxiliary', IF S = {} THEN A ELSE A \cup {a})
        /\ handle'[a] # None /\ \A b \in Api \ {a} : handle'[b] = handle[b]
        /\ param' = param /\ auxiliary' = auxiliary
    BY <1>2, <2>1
  <2>3. Bootstrapping' = IF S = {} THEN A ELSE A \cup {a}
    BY <1>1, <2>1 DEF Bootstrapping
  <2>4. /\ loaded' \in [Api -> {"no", "plain", "bootstraps"}]
        /\ \A b \in Api : loaded'[b] # "no" => handle'[b] # None
    BY <1>1, <2>1, <2>2
  <2> HIDE DEF A
  <2> QED BY <1>1, <2>2, <2>3, <2>4 DEF RegistryInv
<1>4. ASSUME NEW a \in Api, NEW S \in SUBSET Slots, LoadContextThrows(a, S)
      PROVE  RegistryInv'
  <2>1. /\ loaded[a] = "no" /\ RoomToLoad /\ Becomes(Loading(State, a, S)) /\ loaded' = loaded
    BY <1>4 DEF LoadContextThrows
  <2>2. /\ Good(State', param', auxiliary', A)
        /\ handle'[a] # None /\ \A b \in Api \ {a} : handle'[b] = handle[b]
        /\ param' = param /\ auxiliary' = auxiliary
    BY <1>2, <2>1
  <2>3. Bootstrapping' = A /\ \A b \in Api : loaded'[b] # "no" => handle'[b] # None
    BY <1>1, <2>1, <2>2 DEF Bootstrapping
  <2> HIDE DEF A
  <2> QED BY <1>1, <2>1, <2>2, <2>3 DEF RegistryInv
<1>5. ASSUME NEW a \in Api, Destroy(a)
      PROVE  RegistryInv'
  <2> DEFINE st == IF loaded[a] = "no" THEN State ELSE DeregisterCryptoContextGPU(State, param[a])
             u  == [st EXCEPT !.handle[a] = None]
             B  == A \ {a}
  <2>1. Becomes(u) /\ loaded' = [loaded EXCEPT ![a] = "no"]
    BY <1>5 DEF Destroy
  <2>2. Good(st, param, auxiliary, A) /\ st.handle = handle
    <3>1. param[a] \in Main
      BY <1>1
    <3> HIDE DEF A
    <3>2. /\ Good(DeregisterCryptoContextGPU(State, param[a]), param, auxiliary, A)
          /\ DeregisterCryptoContextGPU(State, param[a]).handle = State.handle
      BY <1>1, <3>1, DeregisterGood
    <3> QED BY <1>1, <3>2
  <2> HIDE DEF st, A
  <2>3. st \in StateRec
    BY <2>2 DEF Good, Sound
  <2>4. /\ u \in StateRec /\ u.registered = st.registered /\ u.paramOf = st.paramOf
        /\ u.sparse = st.sparse /\ u.keys = st.keys
        /\ u.handle = [handle EXCEPT ![a] = None]
        /\ u.current = st.current /\ u.constants = st.constants
    BY <1>1, <2>2, <2>3 DEF StateRec
  <2> HIDE DEF u
  <2>5. Good(u, param, auxiliary, B)
    <3>1. \A b \in Api : b # a => u.handle[b] = st.handle[b]
      BY <1>1, <2>2, <2>4
    <3>2. u.handle[a] = None
      BY <1>1, <2>4
    <3>3. Sound(u, param)
      BY <2>2, <2>4, <3>1, <3>2 DEF Good, Sound
    <3>4. Served(u, param, auxiliary, B)
      BY <1>1, <2>2, <2>4, <3>1 DEF Good, Served
    <3>5. Uploaded(u)
      BY <2>2, <2>4 DEF Good, Uploaded
    <3> QED BY <2>2, <2>4, <3>3, <3>4, <3>5 DEF Good, Shared
  <2>6. /\ Good(State', param', auxiliary', B) /\ handle' = u.handle
        /\ param' = param /\ auxiliary' = auxiliary
    BY <1>1, <2>1, <2>5, BecomesGood
  <2>7. Bootstrapping' = B
    BY <1>1, <2>1 DEF Bootstrapping, A
  <2>8. /\ loaded' \in [Api -> {"no", "plain", "bootstraps"}]
        /\ \A b \in Api : loaded'[b] # "no" => handle'[b] # None
    BY <1>1, <2>1, <2>4, <2>6
  <2> QED BY <1>1, <2>6, <2>7, <2>8 DEF RegistryInv
<1>6. ASSUME NEW a \in Api, Operate(a)
      PROVE  RegistryInv'
  <2> DEFINE u == SetCurrentContext(State, handle[a])
  <2>1. Becomes(u) /\ loaded' = loaded /\ handle[a] \in Data
    BY <1>1, <1>6 DEF Operate
  <2>1a. State.paramOf[handle[a]] # None
    <3>1. State.paramOf[handle[a]] = param[a] /\ param[a] \in Main
      BY <1>1, <1>6, <2>1 DEF Good, Sound, Operate, ParametersAssumption
    <3> QED BY <3>1 DEF ParametersAssumption
  <2> HIDE DEF A
  <2>2. Good(u, param, auxiliary, A)
    BY <1>1, <2>1, <2>1a, CurrentSetGood
  <2>3. u.handle = handle
    <3>1. State \in StateRec
      BY <1>1 DEF Good, Sound
    <3> QED BY <1>1, <2>1, <3>1, CurrentSet
  <2> HIDE DEF u
  <2>4. /\ Good(State', param', auxiliary', A) /\ handle' = handle
        /\ param' = param /\ auxiliary' = auxiliary
    BY <1>1, <2>1, <2>2, <2>3, BecomesGood
  <2>5. Bootstrapping' = A
    BY <2>1 DEF Bootstrapping, A
  <2> QED BY <1>1, <2>1, <2>4, <2>5 DEF RegistryInv
<1>7. ASSUME DeregisterAllContexts
      PROVE  RegistryInv'
  <2> DEFINE u == [State EXCEPT !.keys = {}, !.registered = [p \in Param |-> None], !.current = None]
  <2>1. Becomes(u) /\ loaded' = loaded
    BY <1>7 DEF DeregisterAllContexts
  <2> HIDE DEF A
  <2>2. State \in StateRec /\ Sound(State, param)
    BY <1>1 DEF Good, Sound
  <2>3. /\ u \in StateRec /\ u.registered = [p \in Param |-> None] /\ u.keys = {}
        /\ u.handle = handle /\ u.paramOf = State.paramOf /\ u.sparse = State.sparse
        /\ u.current = None
    BY <1>1, <2>2 DEF StateRec
  <2> HIDE DEF u
  <2>4. Good(u, param, auxiliary, A)
    <3>1. Sound(u, param)
      BY <1>1, <2>2, <2>3 DEF Sound
    <3>2. \A p \in Param : u.registered[p] = None
      BY <2>3
    <3>3. Shared(u)
      BY <3>2 DEF Shared, Param, ParametersAssumption
    <3>4. Served(u, param, auxiliary, A)
      BY <1>1, <3>2 DEF Served, Param
    <3>5. Uploaded(u)
      BY <2>3 DEF Uploaded
    <3> QED BY <3>1, <3>3, <3>4, <3>5 DEF Good
  <2>5. /\ Good(State', param', auxiliary', A) /\ handle' = handle
        /\ param' = param /\ auxiliary' = auxiliary
    BY <1>1, <2>1, <2>3, <2>4, BecomesGood
  <2>6. Bootstrapping' = A
    BY <2>1 DEF Bootstrapping, A
  <2> QED BY <1>1, <2>1, <2>5, <2>6 DEF RegistryInv
<1>8. CASE UNCHANGED contextVars
  BY <1>8 DEF RegistryInv, contextVars, State, Bootstrapping
<1> QED BY <1>3, <1>4, <1>5, <1>6, <1>7, <1>8 DEF RegistryNext, ApiNext

\* The invariant holds of every behaviour.
LEMMA RegistrySound ==
    ASSUME ParametersAssumption PROVE RegistrySpec => []RegistryInv
BY InitRegistry, NextRegistry, PTL DEF RegistrySpec

\* No switching key outlives the context it was built on, whatever the order of loads,
\* failed loads, destructions and deregistrations (GenCryptoContextGPU, AddBootstrapKeys,
\* DeregisterCryptoContextGPU, ~ContextData).
THEOREM KeysAlwaysOutlived ==
    ASSUME ParametersAssumption PROVE RegistrySpec => []KeysOutlived
<1>1. RegistryInv => KeysOutlived
  BY DEF RegistryInv, Good, Sound, State, KeysOutlived
<1> QED BY <1>1, RegistrySound, PTL

\* The auxiliary contexts registered are those that registered contexts use, and an API
\* context that was set up for bootstrapping finds its own (DeregisterCryptoContextGPU).
THEOREM AuxiliariesAlwaysExact ==
    ASSUME ParametersAssumption PROVE RegistrySpec => []AuxiliariesExact
<1>1. ASSUME RegistryInv
      PROVE  AuxiliariesExact
  <2>1. /\ Sound(State, param) /\ Shared(State)
        /\ Served(State, param, auxiliary, Bootstrapping) /\ State \in StateRec
    BY <1>1 DEF RegistryInv, Good, Sound
  <2>2. /\ registered \in [Param -> Data \cup {None}] /\ sparse \in [Data -> SUBSET Data]
        /\ handle \in [Api -> Data \cup {None}] /\ param \in [Api -> Main]
        /\ None \notin Data
    BY <1>1, <2>1 DEF State, StateRec, ParametersAssumption, RegistryInv
  <2>3. Registered(Auxiliary) = UNION {sparse[d] : d \in Registered(Main)}
    <3>1. \A s \in Data :
              (\E p \in Auxiliary : registered[p] = s)
              <=> (\E p \in Main : registered[p] # None /\ s \in sparse[registered[p]])
      BY <2>1 DEF State, Shared
    <3>2. \A s : s \in Registered(Auxiliary) <=> s \in Data /\ \E p \in Auxiliary : registered[p] = s
      BY <2>2 DEF Registered, Param
    <3>3. \A s : s \in UNION {sparse[d] : d \in Registered(Main)}
                 <=> s \in Data /\ \E p \in Main : registered[p] # None /\ s \in sparse[registered[p]]
      BY <2>2 DEF Registered, Param
    <3> QED BY <3>1, <3>2, <3>3
  <2>4. ASSUME NEW a \in Api, loaded[a] = "bootstraps", handle[a] \in Registered(Main)
        PROVE  registered[auxiliary[param[a]]] \in sparse[handle[a]]
    <3>1. PICK p \in Main : registered[p] = handle[a] /\ handle[a] # None
      BY <2>4 DEF Registered
    <3>2. paramOf[registered[p]] = p /\ paramOf[handle[a]] = param[a]
      BY <2>1, <3>1 DEF Sound, State, Param
    <3> QED BY <2>1, <2>4, <3>1, <3>2 DEF Served, State, Bootstrapping
  <2> QED BY <2>3, <2>4 DEF AuxiliariesExact
<1> QED BY <1>1, RegistrySound, PTL
-----------------------------------------------------------------------------
(* Products, kernel by kernel                                              *)

\* The buffers of a product, the ones it starts with, and those with limbs for the primes
\* in use
Buffers == {"c0", "c1", "d0", "d1", "in", "gather", "digit", "special1", "special0",
            "down1", "down0", "aux"}
Operands == {"c0", "c1", "d0", "d1"}
RegularBuffers == {"d0", "d1", "in", "gather", "down1", "down0", "aux"}

\* What is in a buffer: the limbs it should have, all below their primes
Shaped(C, I, b, x) ==
    /\ b \in RegularBuffers => IsPoly(C, Regular, x)
    /\ b \in {"special1", "special0"} => IsPoly(C, Special(C), x)
    /\ b \in {"c0", "c1"} => IsPoly(C, I, x)
    /\ b = "digit" => IsDigits(C, x)

\* The primes of the result: a rescale takes the last one.
ResultPrimes(dn) == IF "nttRescale" \in dn THEN 0..Level - 1 ELSE Regular

\* What memory m holds, after kernels dn
Held(C, m, dn) ==
    /\ Operands \subseteq DOMAIN m /\ DOMAIN m \subseteq Buffers
    /\ \A b \in DOMAIN m : Shaped(C, ResultPrimes(dn), b, m[b])

\* Kernels ran in the order that the streams impose.
Ordered(dn) ==
    /\ "inttDigits" \in dn => "binomialMult" \in dn
    /\ "modup" \in dn => "inttDigits" \in dn
    /\ "nttSpecial" \in dn => "modup" \in dn
    /\ "dotSpecial" \in dn => "nttSpecial" \in dn
    /\ "inttSpecial" \in dn => "dotSpecial" \in dn
    /\ "moddown" \in dn => "inttSpecial" \in dn
    /\ "nttRegular" \in dn => "modup" \in dn
    /\ "dotRegular" \in dn => "nttRegular" \in dn
    /\ "nttModdown" \in dn => {"moddown", "dotRegular"} \subseteq dn
    /\ "add" \in dn => "nttModdown" \in dn
    /\ "inttTop" \in dn => "add" \in dn
    /\ "nttRescale" \in dn => "inttTop" \in dn

\* Each kernel that ran left its buffers.
Present(m, dn) ==
    /\ "binomialMult" \in dn => "in" \in DOMAIN m
    /\ "inttDigits" \in dn => "gather" \in DOMAIN m
    /\ "modup" \in dn => "digit" \in DOMAIN m
    /\ "dotSpecial" \in dn => {"special1", "special0"} \subseteq DOMAIN m
    /\ "moddown" \in dn => {"down1", "down0"} \subseteq DOMAIN m
    /\ "dotRegular" \in dn => "aux" \in DOMAIN m

\* Memory is ready for the kernels that may run next.
Ready(C, m, dn) == Held(C, m, dn) /\ Ordered(dn) /\ Present(m, dn)

\* The inductive invariant of products: the devices have the constants of the context
\* that the product is of.
ProductInv ==
    /\ job = None => done = {}
    /\ job # None => /\ job.owner \in Api /\ constants = param[job.owner]
                     /\ \A C \in {Own} : AtLevel(C) /\ Ready(C, mem, done)

\* A buffer more, or several
LEMMA JoinedShaped ==
    ASSUME NEW C, NEW I, NEW f, \A b \in DOMAIN f : Shaped(C, I, b, f[b]),
           NEW g, \A b \in DOMAIN g : Shaped(C, I, b, g[b]), NEW m, m = Joined(f, g)
    PROVE  DOMAIN m = DOMAIN f \cup DOMAIN g /\ \A b \in DOMAIN m : Shaped(C, I, b, m[b])
<1>1. DOMAIN m = DOMAIN f \cup DOMAIN g
  BY JoinedDomain
<1>2. /\ \A b \in DOMAIN f : m[b] = f[b]
      /\ \A b \in DOMAIN g : b \notin DOMAIN f => m[b] = g[b]
  BY JoinedValues
<1> QED BY <1>1, <1>2

\* What the buffers hold before a rescale
LEMMA BuffersHeld ==
    ASSUME NEW C, NEW m, NEW dn, Held(C, m, dn), "nttRescale" \notin dn
    PROVE  /\ ResultPrimes(dn) = Regular
           /\ \A b \in DOMAIN m : /\ b \in RegularBuffers \cup {"c0", "c1"} => IsPoly(C, Regular, m[b])
                                  /\ b \in {"special1", "special0"} => IsPoly(C, Special(C), m[b])
                                  /\ b = "digit" => IsDigits(C, m[b])
           /\ {"c0", "c1", "d0", "d1"} \subseteq DOMAIN m
BY DEF Held, ResultPrimes, Shaped, Operands

\* A kernel runs once.
LEMMA LaunchedReady ==
    ASSUME NEW C, Ready(C, mem, done), NEW k, NEW after, NEW m, Launch(k, after, m), k # "nttRescale",
           \A b \in DOMAIN m : Shaped(C, ResultPrimes(done), b, m[b]),
           DOMAIN mem \subseteq DOMAIN m, DOMAIN m \subseteq Buffers,
           Ordered(done \cup {k}), Present(m, done \cup {k})
    PROVE  Ready(C, mem', done')
<1>1. mem' = m /\ done' = done \cup {k}
  BY DEF Launch
<1>2. ResultPrimes(done \cup {k}) = ResultPrimes(done)
  BY DEF ResultPrimes
<1>3. Operands \subseteq DOMAIN m
  BY DEF Ready, Held
<1> QED BY <1>1, <1>2, <1>3 DEF Ready, Held

\* The product of the operands
LEMMA binomialMultReady ==
    ASSUME NEW C, Fits(C), AtLevel(C), Ready(C, mem, done), binomialMult(C)
    PROVE  Ready(C, mem', done')
<1> DEFINE x == Products(C, mem.c0, mem.d0)
           y == Sums(C, Products(C, mem.c0, mem.d1), Products(C, mem.c1, mem.d0))
           z == Products(C, mem.c1, mem.d1)
           f == [mem EXCEPT !.c0 = x, !.c1 = y]
           g == [in |-> z]
           m == Joined(f, g)
<1>1. Launch("binomialMult", {}, m)
  BY DEF binomialMult
<1> HIDE DEF m, g, f, x, y, z
<1>2. "binomialMult" \notin done /\ {} \subseteq done
  BY <1>1 DEF Launch
<1>3. "nttRescale" \notin done
  BY <1>2 DEF Ready, Ordered, Present
<1>4. /\ ResultPrimes(done) = Regular /\ Operands \subseteq DOMAIN mem
      /\ IsPoly(C, Regular, mem.c0) /\ IsPoly(C, Regular, mem.c1) /\ IsPoly(C, Regular, mem.d0) /\ IsPoly(C, Regular, mem.d1)
  BY <1>3, BuffersHeld DEF Ready, RegularBuffers, Operands
<1>5. IsPoly(C, Regular, x) /\ IsPoly(C, Regular, y) /\ IsPoly(C, Regular, z)
  BY <1>4, ProductsBelow DEF Fits, x, y, z
<1>6. \A b \in DOMAIN mem : Shaped(C, Regular, b, mem[b])
  BY <1>4 DEF Ready, Held
<1>7. DOMAIN f = DOMAIN mem /\ \A b \in DOMAIN mem : f[b] = IF b = "c0" THEN x ELSE IF b = "c1" THEN y ELSE mem[b]
  BY DEF f
<1>8. \A b \in DOMAIN f : Shaped(C, Regular, b, f[b])
  BY <1>5, <1>6, <1>7 DEF Shaped, RegularBuffers
<1>9. DOMAIN g = {"in"} /\ g["in"] = z
  BY DEF g
<1>10. \A b \in DOMAIN g : Shaped(C, Regular, b, g[b])
  BY <1>5, <1>9 DEF Shaped, RegularBuffers
<1>11. DOMAIN m = DOMAIN mem \cup DOMAIN g /\ \A b \in DOMAIN m : Shaped(C, Regular, b, m[b])
  <2>1. DOMAIN m = DOMAIN f \cup DOMAIN g /\ \A b \in DOMAIN m : Shaped(C, Regular, b, m[b])
    BY <1>8, <1>10, JoinedShaped DEF m
  <2> QED BY <1>7, <2>1
<1>12. DOMAIN mem \subseteq DOMAIN m /\ DOMAIN m \subseteq Buffers
  BY <1>9, <1>11 DEF Ready, Held, Buffers
<1>13. Ordered(done \cup {"binomialMult"}) /\ Present(m, done \cup {"binomialMult"})
  BY <1>2, <1>9, <1>11 DEF Ready, Ordered, Present
<1> QED BY <1>1, <1>4, <1>11, <1>12, <1>13, LaunchedReady

\* Its last part, out of the transform
LEMMA inttDigitsReady ==
    ASSUME NEW C, Fits(C), AtLevel(C), Ready(C, mem, done), inttDigits(C)
    PROVE  Ready(C, mem', done')
<1> DEFINE x == AllBack(C, mem.in)
           g == [gather |-> x]
           m == Joined(mem, g)
<1>1. Launch("inttDigits", {"binomialMult"}, m)
  BY DEF inttDigits
<1> HIDE DEF m, g, x
<1>2. "inttDigits" \notin done /\ {"binomialMult"} \subseteq done
  BY <1>1 DEF Launch
<1>3. "nttRescale" \notin done /\ {"in"} \subseteq DOMAIN mem
  BY <1>2 DEF Ready, Ordered, Present
<1>4. /\ ResultPrimes(done) = Regular /\ Operands \subseteq DOMAIN mem
      /\ IsPoly(C, Regular, mem.in)
  BY <1>3, BuffersHeld DEF Ready, RegularBuffers, Operands
<1>5. IsPoly(C, Regular, x)
  BY <1>4, BackBelow, Parts DEF Fits, x
<1>6. \A b \in DOMAIN mem : Shaped(C, Regular, b, mem[b])
  BY <1>4 DEF Ready, Held
<1>7. DOMAIN g = {"gather"} /\ g["gather"] = x
  BY DEF g
<1>8. \A b \in DOMAIN g : Shaped(C, Regular, b, g[b])
  BY <1>5, <1>7 DEF Shaped, RegularBuffers
<1>9. DOMAIN m = DOMAIN mem \cup DOMAIN g /\ \A b \in DOMAIN m : Shaped(C, Regular, b, m[b])
  BY <1>6, <1>8, JoinedShaped DEF m
<1>10. DOMAIN mem \subseteq DOMAIN m /\ DOMAIN m \subseteq Buffers
  BY <1>7, <1>9 DEF Ready, Held, Buffers
<1>11. Ordered(done \cup {"inttDigits"}) /\ Present(m, done \cup {"inttDigits"})
  BY <1>2, <1>7, <1>9 DEF Ready, Ordered, Present
<1> QED BY <1>1, <1>4, <1>9, <1>10, <1>11, LaunchedReady

\* Its digits, for the primes they do not have
LEMMA modupReady ==
    ASSUME NEW C, Fits(C), AtLevel(C), Ready(C, mem, done), modup(C)
    PROVE  Ready(C, mem', done')
<1> DEFINE x == [d \in DigitsInUse(C) |-> DecompAndModUpConv(C, d, mem.gather)]
           g == [digit |-> x]
           m == Joined(mem, g)
<1>1. Launch("modup", {"inttDigits"}, m)
  BY DEF modup
<1> HIDE DEF m, g, x
<1>2. "modup" \notin done /\ {"inttDigits"} \subseteq done
  BY <1>1 DEF Launch
<1>3. "nttRescale" \notin done /\ {"gather"} \subseteq DOMAIN mem
  BY <1>2 DEF Ready, Ordered, Present
<1>4. /\ ResultPrimes(done) = Regular /\ Operands \subseteq DOMAIN mem
      /\ IsPoly(C, Regular, mem.gather)
  BY <1>3, BuffersHeld DEF Ready, RegularBuffers, Operands
<1>5. IsDigits(C, x)
  BY <1>4, ModUpBelow DEF Fits, IsDigits, x
<1>6. \A b \in DOMAIN mem : Shaped(C, Regular, b, mem[b])
  BY <1>4 DEF Ready, Held
<1>7. DOMAIN g = {"digit"} /\ g["digit"] = x
  BY DEF g
<1>8. \A b \in DOMAIN g : Shaped(C, Regular, b, g[b])
  BY <1>5, <1>7 DEF Shaped, RegularBuffers
<1>9. DOMAIN m = DOMAIN mem \cup DOMAIN g /\ \A b \in DOMAIN m : Shaped(C, Regular, b, m[b])
  BY <1>6, <1>8, JoinedShaped DEF m
<1>10. DOMAIN mem \subseteq DOMAIN m /\ DOMAIN m \subseteq Buffers
  BY <1>7, <1>9 DEF Ready, Held, Buffers
<1>11. Ordered(done \cup {"modup"}) /\ Present(m, done \cup {"modup"})
  BY <1>2, <1>7, <1>9 DEF Ready, Ordered, Present
<1> QED BY <1>1, <1>4, <1>9, <1>10, <1>11, LaunchedReady

\* Limbs of the digits for the special primes, into the transform
LEMMA nttSpecialReady ==
    ASSUME NEW C, Fits(C), AtLevel(C), Ready(C, mem, done), nttSpecial(C)
    PROVE  Ready(C, mem', done')
<1> DEFINE x == DigitsForward(C, mem.digit, Special(C))
           f == [mem EXCEPT !.digit = x]
<1>1. Launch("nttSpecial", {"modup"}, f)
  BY DEF nttSpecial
<1> HIDE DEF f, x
<1>2. "nttSpecial" \notin done /\ {"modup"} \subseteq done
  BY <1>1 DEF Launch
<1>3. "nttRescale" \notin done /\ {"digit"} \subseteq DOMAIN mem
  BY <1>2 DEF Ready, Ordered, Present
<1>4. /\ ResultPrimes(done) = Regular /\ Operands \subseteq DOMAIN mem
      /\ IsDigits(C, mem.digit)
  BY <1>3, BuffersHeld DEF Ready, RegularBuffers, Operands
<1>5. IsDigits(C, x)
  BY <1>4, DigitsForwardBelow DEF Fits, x
<1>6. \A b \in DOMAIN mem : Shaped(C, Regular, b, mem[b])
  BY <1>4 DEF Ready, Held
<1>7. DOMAIN f = DOMAIN mem /\ \A b \in DOMAIN mem : f[b] = IF b = "digit" THEN x ELSE mem[b]
  BY DEF f
<1>8. \A b \in DOMAIN f : Shaped(C, Regular, b, f[b])
  BY <1>5, <1>6, <1>7 DEF Shaped, RegularBuffers
<1>9. DOMAIN mem \subseteq DOMAIN f /\ DOMAIN f \subseteq Buffers
  BY <1>7 DEF Ready, Held
<1>10. Ordered(done \cup {"nttSpecial"}) /\ Present(f, done \cup {"nttSpecial"})
  BY <1>2, <1>7 DEF Ready, Ordered, Present
<1> QED BY <1>1, <1>4, <1>8, <1>9, <1>10, LaunchedReady

\* Those for the others
LEMMA nttRegularReady ==
    ASSUME NEW C, Fits(C), AtLevel(C), Ready(C, mem, done), nttRegular(C)
    PROVE  Ready(C, mem', done')
<1> DEFINE x == DigitsForward(C, mem.digit, Regular)
           f == [mem EXCEPT !.digit = x]
<1>1. Launch("nttRegular", {"modup"}, f)
  BY DEF nttRegular
<1> HIDE DEF f, x
<1>2. "nttRegular" \notin done /\ {"modup"} \subseteq done
  BY <1>1 DEF Launch
<1>3. "nttRescale" \notin done /\ {"digit"} \subseteq DOMAIN mem
  BY <1>2 DEF Ready, Ordered, Present
<1>4. /\ ResultPrimes(done) = Regular /\ Operands \subseteq DOMAIN mem
      /\ IsDigits(C, mem.digit)
  BY <1>3, BuffersHeld DEF Ready, RegularBuffers, Operands
<1>5. IsDigits(C, x)
  BY <1>4, DigitsForwardBelow DEF Fits, x
<1>6. \A b \in DOMAIN mem : Shaped(C, Regular, b, mem[b])
  BY <1>4 DEF Ready, Held
<1>7. DOMAIN f = DOMAIN mem /\ \A b \in DOMAIN mem : f[b] = IF b = "digit" THEN x ELSE mem[b]
  BY DEF f
<1>8. \A b \in DOMAIN f : Shaped(C, Regular, b, f[b])
  BY <1>5, <1>6, <1>7 DEF Shaped, RegularBuffers
<1>9. DOMAIN mem \subseteq DOMAIN f /\ DOMAIN f \subseteq Buffers
  BY <1>7 DEF Ready, Held
<1>10. Ordered(done \cup {"nttRegular"}) /\ Present(f, done \cup {"nttRegular"})
  BY <1>2, <1>7 DEF Ready, Ordered, Present
<1> QED BY <1>1, <1>4, <1>8, <1>9, <1>10, LaunchedReady

\* The key switch of special limbs
LEMMA dotSpecialReady ==
    ASSUME NEW C, Fits(C), AtLevel(C), NEW key, KeyFits(C, key), Ready(C, mem, done), dotSpecial(C, key)
    PROVE  Ready(C, mem', done')
<1> DEFINE x == fusedDotKSK_2_(C, mem.in, mem.digit, key, "a", Special(C))
           y == fusedDotKSK_2_(C, mem.in, mem.digit, key, "b", Special(C))
           g == [special1 |-> x, special0 |-> y]
           m == Joined(mem, g)
<1>1. Launch("dotSpecial", {"nttSpecial"}, m)
  BY DEF dotSpecial
<1> HIDE DEF m, g, x, y
<1>2. "dotSpecial" \notin done /\ {"nttSpecial"} \subseteq done
  BY <1>1 DEF Launch
<1>3. "nttRescale" \notin done /\ {"in", "digit"} \subseteq DOMAIN mem
  BY <1>2 DEF Ready, Ordered, Present
<1>4. /\ ResultPrimes(done) = Regular /\ Operands \subseteq DOMAIN mem
      /\ IsPoly(C, Regular, mem.in) /\ IsDigits(C, mem.digit)
  BY <1>3, BuffersHeld DEF Ready, RegularBuffers, Operands
<1>5. IsPoly(C, Special(C), x) /\ IsPoly(C, Special(C), y)
  BY <1>4, DotBelow DEF Fits, x, y
<1>6. \A b \in DOMAIN mem : Shaped(C, Regular, b, mem[b])
  BY <1>4 DEF Ready, Held
<1>7. DOMAIN g = {"special1", "special0"} /\ g["special1"] = x /\ g["special0"] = y
  BY DEF g
<1>8. \A b \in DOMAIN g : Shaped(C, Regular, b, g[b])
  BY <1>5, <1>7 DEF Shaped, RegularBuffers
<1>9. DOMAIN m = DOMAIN mem \cup DOMAIN g /\ \A b \in DOMAIN m : Shaped(C, Regular, b, m[b])
  BY <1>6, <1>8, JoinedShaped DEF m
<1>10. DOMAIN mem \subseteq DOMAIN m /\ DOMAIN m \subseteq Buffers
  BY <1>7, <1>9 DEF Ready, Held, Buffers
<1>11. Ordered(done \cup {"dotSpecial"}) /\ Present(m, done \cup {"dotSpecial"})
  BY <1>2, <1>7, <1>9 DEF Ready, Ordered, Present
<1> QED BY <1>1, <1>4, <1>9, <1>10, <1>11, LaunchedReady

\* The key switch of the others
LEMMA dotRegularReady ==
    ASSUME NEW C, Fits(C), AtLevel(C), NEW key, KeyFits(C, key), Ready(C, mem, done), dotRegular(C, key)
    PROVE  Ready(C, mem', done')
<1> DEFINE x == fusedDotKSK_2_(C, mem.in, mem.digit, key, "a", Regular)
           y == fusedDotKSK_2_(C, mem.in, mem.digit, key, "b", Regular)
           f == [mem EXCEPT !.in = x]
           g == [aux |-> y]
           m == Joined(f, g)
<1>1. Launch("dotRegular", {"nttRegular"}, m)
  BY DEF dotRegular
<1> HIDE DEF m, g, f, x, y
<1>2. "dotRegular" \notin done /\ {"nttRegular"} \subseteq done
  BY <1>1 DEF Launch
<1>3. "nttRescale" \notin done /\ {"in", "digit"} \subseteq DOMAIN mem
  BY <1>2 DEF Ready, Ordered, Present
<1>4. /\ ResultPrimes(done) = Regular /\ Operands \subseteq DOMAIN mem
      /\ IsPoly(C, Regular, mem.in) /\ IsDigits(C, mem.digit)
  BY <1>3, BuffersHeld DEF Ready, RegularBuffers, Operands
<1>5. IsPoly(C, Regular, x) /\ IsPoly(C, Regular, y)
  BY <1>4, DotBelow DEF Fits, x, y
<1>6. \A b \in DOMAIN mem : Shaped(C, Regular, b, mem[b])
  BY <1>4 DEF Ready, Held
<1>7. DOMAIN f = DOMAIN mem /\ \A b \in DOMAIN mem : f[b] = IF b = "in" THEN x ELSE mem[b]
  BY DEF f
<1>8. \A b \in DOMAIN f : Shaped(C, Regular, b, f[b])
  BY <1>5, <1>6, <1>7 DEF Shaped, RegularBuffers
<1>9. DOMAIN g = {"aux"} /\ g["aux"] = y
  BY DEF g
<1>10. \A b \in DOMAIN g : Shaped(C, Regular, b, g[b])
  BY <1>5, <1>9 DEF Shaped, RegularBuffers
<1>11. DOMAIN m = DOMAIN mem \cup DOMAIN g /\ \A b \in DOMAIN m : Shaped(C, Regular, b, m[b])
  <2>1. DOMAIN m = DOMAIN f \cup DOMAIN g /\ \A b \in DOMAIN m : Shaped(C, Regular, b, m[b])
    BY <1>8, <1>10, JoinedShaped DEF m
  <2> QED BY <1>7, <2>1
<1>12. DOMAIN mem \subseteq DOMAIN m /\ DOMAIN m \subseteq Buffers
  BY <1>9, <1>11 DEF Ready, Held, Buffers
<1>13. Ordered(done \cup {"dotRegular"}) /\ Present(m, done \cup {"dotRegular"})
  BY <1>2, <1>9, <1>11 DEF Ready, Ordered, Present
<1> QED BY <1>1, <1>4, <1>11, <1>12, <1>13, LaunchedReady

\* The special limbs, out of the transform
LEMMA inttSpecialReady ==
    ASSUME NEW C, Fits(C), AtLevel(C), Ready(C, mem, done), inttSpecial(C)
    PROVE  Ready(C, mem', done')
<1> DEFINE x == AllBack(C, mem.special1)
           y == AllBack(C, mem.special0)
           f == [mem EXCEPT !.special1 = x, !.special0 = y]
<1>1. Launch("inttSpecial", {"dotSpecial"}, f)
  BY DEF inttSpecial
<1> HIDE DEF f, x, y
<1>2. "inttSpecial" \notin done /\ {"dotSpecial"} \subseteq done
  BY <1>1 DEF Launch
<1>3. "nttRescale" \notin done /\ {"special1", "special0"} \subseteq DOMAIN mem
  BY <1>2 DEF Ready, Ordered, Present
<1>4. /\ ResultPrimes(done) = Regular /\ Operands \subseteq DOMAIN mem
      /\ IsPoly(C, Special(C), mem.special1) /\ IsPoly(C, Special(C), mem.special0)
  BY <1>3, BuffersHeld DEF Ready, RegularBuffers, Operands
<1>5. IsPoly(C, Special(C), x) /\ IsPoly(C, Special(C), y)
  BY <1>4, BackBelow, Parts DEF Fits, x, y
<1>6. \A b \in DOMAIN mem : Shaped(C, Regular, b, mem[b])
  BY <1>4 DEF Ready, Held
<1>7. DOMAIN f = DOMAIN mem /\ \A b \in DOMAIN mem : f[b] = IF b = "special1" THEN x ELSE IF b = "special0" THEN y ELSE mem[b]
  BY DEF f
<1>8. \A b \in DOMAIN f : Shaped(C, Regular, b, f[b])
  BY <1>5, <1>6, <1>7 DEF Shaped, RegularBuffers
<1>9. DOMAIN mem \subseteq DOMAIN f /\ DOMAIN f \subseteq Buffers
  BY <1>7 DEF Ready, Held
<1>10. Ordered(done \cup {"inttSpecial"}) /\ Present(f, done \cup {"inttSpecial"})
  BY <1>2, <1>7 DEF Ready, Ordered, Present
<1> QED BY <1>1, <1>4, <1>8, <1>9, <1>10, LaunchedReady

\* From the special primes to the others
LEMMA moddownReady ==
    ASSUME NEW C, Fits(C), AtLevel(C), Ready(C, mem, done), moddown(C)
    PROVE  Ready(C, mem', done')
<1> DEFINE x == ModDown2(C, mem.special1)
           y == ModDown2(C, mem.special0)
           g == [down1 |-> x, down0 |-> y]
           m == Joined(mem, g)
<1>1. Launch("moddown", {"inttSpecial"}, m)
  BY DEF moddown
<1> HIDE DEF m, g, x, y
<1>2. "moddown" \notin done /\ {"inttSpecial"} \subseteq done
  BY <1>1 DEF Launch
<1>3. "nttRescale" \notin done /\ {"special1", "special0"} \subseteq DOMAIN mem
  BY <1>2 DEF Ready, Ordered, Present
<1>4. /\ ResultPrimes(done) = Regular /\ Operands \subseteq DOMAIN mem
      /\ IsPoly(C, Special(C), mem.special1) /\ IsPoly(C, Special(C), mem.special0)
  BY <1>3, BuffersHeld DEF Ready, RegularBuffers, Operands
<1>5. IsPoly(C, Regular, x) /\ IsPoly(C, Regular, y)
  BY <1>4, ModDownBelow DEF Fits, x, y
<1>6. \A b \in DOMAIN mem : Shaped(C, Regular, b, mem[b])
  BY <1>4 DEF Ready, Held
<1>7. DOMAIN g = {"down1", "down0"} /\ g["down1"] = x /\ g["down0"] = y
  BY DEF g
<1>8. \A b \in DOMAIN g : Shaped(C, Regular, b, g[b])
  BY <1>5, <1>7 DEF Shaped, RegularBuffers
<1>9. DOMAIN m = DOMAIN mem \cup DOMAIN g /\ \A b \in DOMAIN m : Shaped(C, Regular, b, m[b])
  BY <1>6, <1>8, JoinedShaped DEF m
<1>10. DOMAIN mem \subseteq DOMAIN m /\ DOMAIN m \subseteq Buffers
  BY <1>7, <1>9 DEF Ready, Held, Buffers
<1>11. Ordered(done \cup {"moddown"}) /\ Present(m, done \cup {"moddown"})
  BY <1>2, <1>7, <1>9 DEF Ready, Ordered, Present
<1> QED BY <1>1, <1>4, <1>9, <1>10, <1>11, LaunchedReady

\* The division by the special primes
LEMMA nttModdownReady ==
    ASSUME NEW C, Fits(C), AtLevel(C), Ready(C, mem, done), nttModdown(C)
    PROVE  Ready(C, mem', done')
<1> DEFINE x == ModDownLimbs(C, mem.in, mem.down1)
           y == ModDownLimbs(C, mem.aux, mem.down0)
           f == [mem EXCEPT !.in = x, !.aux = y]
<1>1. Launch("nttModdown", {"moddown", "dotRegular"}, f)
  BY DEF nttModdown
<1> HIDE DEF f, x, y
<1>2. "nttModdown" \notin done /\ {"moddown", "dotRegular"} \subseteq done
  BY <1>1 DEF Launch
<1>3. "nttRescale" \notin done /\ {"in", "aux", "down1", "down0"} \subseteq DOMAIN mem
  BY <1>2 DEF Ready, Ordered, Present
<1>4. /\ ResultPrimes(done) = Regular /\ Operands \subseteq DOMAIN mem
      /\ IsPoly(C, Regular, mem.in) /\ IsPoly(C, Regular, mem.aux) /\ IsPoly(C, Regular, mem.down1) /\ IsPoly(C, Regular, mem.down0)
  BY <1>3, BuffersHeld DEF Ready, RegularBuffers, Operands
<1>5. IsPoly(C, Regular, x) /\ IsPoly(C, Regular, y)
  BY <1>4, ModDownLimbsBelow DEF Fits, x, y
<1>6. \A b \in DOMAIN mem : Shaped(C, Regular, b, mem[b])
  BY <1>4 DEF Ready, Held
<1>7. DOMAIN f = DOMAIN mem /\ \A b \in DOMAIN mem : f[b] = IF b = "in" THEN x ELSE IF b = "aux" THEN y ELSE mem[b]
  BY DEF f
<1>8. \A b \in DOMAIN f : Shaped(C, Regular, b, f[b])
  BY <1>5, <1>6, <1>7 DEF Shaped, RegularBuffers
<1>9. DOMAIN mem \subseteq DOMAIN f /\ DOMAIN f \subseteq Buffers
  BY <1>7 DEF Ready, Held
<1>10. Ordered(done \cup {"nttModdown"}) /\ Present(f, done \cup {"nttModdown"})
  BY <1>2, <1>7 DEF Ready, Ordered, Present
<1> QED BY <1>1, <1>4, <1>8, <1>9, <1>10, LaunchedReady

\* The sum with the other parts
LEMMA addReady ==
    ASSUME NEW C, Fits(C), AtLevel(C), Ready(C, mem, done), add(C)
    PROVE  Ready(C, mem', done')
<1> DEFINE x == Sums(C, mem.c0, mem.aux)
           y == Sums(C, mem.c1, mem.in)
           f == [mem EXCEPT !.c0 = x, !.c1 = y]
<1>1. Launch("add", {"nttModdown"}, f)
  BY DEF add
<1> HIDE DEF f, x, y
<1>2. "add" \notin done /\ {"nttModdown"} \subseteq done
  BY <1>1 DEF Launch
<1>3. "nttRescale" \notin done /\ {"in", "aux"} \subseteq DOMAIN mem
  BY <1>2 DEF Ready, Ordered, Present
<1>4. /\ ResultPrimes(done) = Regular /\ Operands \subseteq DOMAIN mem
      /\ IsPoly(C, Regular, mem.c0) /\ IsPoly(C, Regular, mem.c1) /\ IsPoly(C, Regular, mem.in) /\ IsPoly(C, Regular, mem.aux)
  BY <1>3, BuffersHeld DEF Ready, RegularBuffers, Operands
<1>5. IsPoly(C, Regular, x) /\ IsPoly(C, Regular, y)
  BY <1>4, ProductsBelow DEF Fits, x, y
<1>6. \A b \in DOMAIN mem : Shaped(C, Regular, b, mem[b])
  BY <1>4 DEF Ready, Held
<1>7. DOMAIN f = DOMAIN mem /\ \A b \in DOMAIN mem : f[b] = IF b = "c0" THEN x ELSE IF b = "c1" THEN y ELSE mem[b]
  BY DEF f
<1>8. \A b \in DOMAIN f : Shaped(C, Regular, b, f[b])
  BY <1>5, <1>6, <1>7 DEF Shaped, RegularBuffers
<1>9. DOMAIN mem \subseteq DOMAIN f /\ DOMAIN f \subseteq Buffers
  BY <1>7 DEF Ready, Held
<1>10. Ordered(done \cup {"add"}) /\ Present(f, done \cup {"add"})
  BY <1>2, <1>7 DEF Ready, Ordered, Present
<1> QED BY <1>1, <1>4, <1>8, <1>9, <1>10, LaunchedReady

\* The last limb, out of the transform
LEMMA inttTopReady ==
    ASSUME NEW C, Fits(C), AtLevel(C), Ready(C, mem, done), inttTop(C)
    PROVE  Ready(C, mem', done')
<1> DEFINE x == TopBack(C, mem.c0)
           y == TopBack(C, mem.c1)
           f == [mem EXCEPT !.c0 = x, !.c1 = y]
<1>1. Launch("inttTop", {"add"}, f)
  BY DEF inttTop
<1> HIDE DEF f, x, y
<1>2. "inttTop" \notin done /\ {"add"} \subseteq done
  BY <1>1 DEF Launch
<1>3. "nttRescale" \notin done
  BY <1>2 DEF Ready, Ordered, Present
<1>4. /\ ResultPrimes(done) = Regular /\ Operands \subseteq DOMAIN mem
      /\ IsPoly(C, Regular, mem.c0) /\ IsPoly(C, Regular, mem.c1)
  BY <1>3, BuffersHeld DEF Ready, RegularBuffers, Operands
<1>5. IsPoly(C, Regular, x) /\ IsPoly(C, Regular, y)
  BY <1>4, BackBelow, Parts DEF Fits, x, y
<1>6. \A b \in DOMAIN mem : Shaped(C, Regular, b, mem[b])
  BY <1>4 DEF Ready, Held
<1>7. DOMAIN f = DOMAIN mem /\ \A b \in DOMAIN mem : f[b] = IF b = "c0" THEN x ELSE IF b = "c1" THEN y ELSE mem[b]
  BY DEF f
<1>8. \A b \in DOMAIN f : Shaped(C, Regular, b, f[b])
  BY <1>5, <1>6, <1>7 DEF Shaped, RegularBuffers
<1>9. DOMAIN mem \subseteq DOMAIN f /\ DOMAIN f \subseteq Buffers
  BY <1>7 DEF Ready, Held
<1>10. Ordered(done \cup {"inttTop"}) /\ Present(f, done \cup {"inttTop"})
  BY <1>2, <1>7 DEF Ready, Ordered, Present
<1> QED BY <1>1, <1>4, <1>8, <1>9, <1>10, LaunchedReady

\* The rest of a rescale, which takes the last limb
LEMMA nttRescaleReady ==
    ASSUME NEW C, Fits(C), AtLevel(C), Ready(C, mem, done), nttRescale(C)
    PROVE  Ready(C, mem', done')
<1> DEFINE x == RescaledLimbs(C, mem.c0)
           y == RescaledLimbs(C, mem.c1)
           f == [mem EXCEPT !.c0 = x, !.c1 = y]
           dn == done \cup {"nttRescale"}
<1>1. Launch("nttRescale", {"inttTop"}, f)
  BY DEF nttRescale
<1> HIDE DEF f, x, y
<1>2. "nttRescale" \notin done /\ "inttTop" \in done /\ mem' = f /\ done' = dn
  BY <1>1 DEF Launch
<1>3. Operands \subseteq DOMAIN mem /\ IsPoly(C, Regular, mem.c0) /\ IsPoly(C, Regular, mem.c1)
  BY <1>2, BuffersHeld DEF Ready, RegularBuffers, Operands
<1>4. ResultPrimes(dn) = 0..Level - 1
  BY DEF ResultPrimes
<1>5. IsPoly(C, ResultPrimes(dn), x) /\ IsPoly(C, ResultPrimes(dn), y)
  BY <1>3, <1>4, RescaledBelow DEF Fits, x, y
<1>6. DOMAIN f = DOMAIN mem /\ \A b \in DOMAIN mem : f[b] = IF b = "c0" THEN x ELSE IF b = "c1" THEN y ELSE mem[b]
  BY DEF f
<1>7. \A b \in DOMAIN mem : Shaped(C, ResultPrimes(done), b, mem[b])
  BY DEF Ready, Held
<1>8. \A b \in DOMAIN f : Shaped(C, ResultPrimes(dn), b, f[b])
  BY <1>5, <1>6, <1>7 DEF Shaped, RegularBuffers
<1>9. Held(C, f, dn)
  BY <1>6, <1>8 DEF Held, Ready
<1>10. Ordered(dn) /\ Present(f, dn)
  BY <1>2, <1>6 DEF Ready, Ordered, Present
<1> QED BY <1>2, <1>9, <1>10 DEF Ready

\* The buffers of a product are what they are, whatever the next step changes but the job.
LEMMA SameJobReady ==
    ASSUME NEW C, job' = job, Ready(C, mem', done')
    PROVE  Ready(C, mem, done)'
<1>1. Level' = Level
  BY DEF Level
<1>2. Regular' = Regular
  BY <1>1 DEF Regular
<1>3. ResultPrimes(done)' = ResultPrimes(done')
  BY <1>1, <1>2 DEF ResultPrimes
<1>4. DigitsInUse(C)' = DigitsInUse(C)
  BY <1>1 DEF DigitsInUse
<1>5. ASSUME NEW x PROVE IsDigits(C, x)' <=> IsDigits(C, x)
  BY <1>1, <1>4 DEF IsDigits
<1>6. ASSUME NEW I, NEW b, NEW x PROVE Shaped(C, I, b, x)' <=> Shaped(C, I, b, x)
  BY <1>2, <1>5 DEF Shaped
<1>7. Held(C, mem, done)'
  BY <1>3, <1>6 DEF Ready, Held
<1> QED BY <1>7 DEF Ready, Ordered, Present

\* The constants that the devices hold are those of the context in use.
LEMMA OperateUploads ==
    ASSUME ParametersAssumption, RegistryInv, NEW a \in Api, Operate(a)
    PROVE  constants' = param[a] /\ param' = param
<1> DEFINE u == SetCurrentContext(State, handle[a])
<1>1. /\ Good(State, param, auxiliary, Bootstrapping) /\ State \in StateRec
      /\ handle[a] \in Data /\ paramOf[handle[a]] = param[a] /\ param[a] # None
      /\ State.handle = handle /\ State.paramOf = paramOf
  <2>1. /\ Good(State, param, auxiliary, Bootstrapping) /\ State \in StateRec
        /\ State.handle = handle /\ State.paramOf = paramOf /\ param[a] \in Main
    BY DEF RegistryInv, Good, Sound, State
  <2>2. handle[a] # None
    BY DEF RegistryInv, Operate
  <2>3. handle \in [Api -> Data \cup {None}]
    BY <2>1 DEF StateRec
  <2>4. paramOf[handle[a]] = param[a]
    BY <2>1, <2>2 DEF Good, Sound
  <2> QED BY <2>1, <2>2, <2>3, <2>4 DEF ParametersAssumption
<1>2. Becomes(u)
  BY DEF Operate
<1>3. u.constants = IF State.current = handle[a] THEN State.constants ELSE State.paramOf[handle[a]]
  <2>1. State \in StateRec /\ handle[a] \in Data
    BY <1>1
  <2> HIDE DEF u
  <2>2. u = SetCurrentContext(State, handle[a])
    BY DEF u
  <2> QED BY <2>1, <2>2 DEF SetCurrentContext, StateRec
<1>4. Uploaded(State)
  BY <1>1 DEF Good
<1> HIDE DEF u
<1>5. u.constants = param[a]
  <2>1. State.current = handle[a] => State.constants = State.paramOf[handle[a]]
    BY <1>1, <1>4 DEF Uploaded, ParametersAssumption
  <2> QED BY <1>1, <1>3, <2>1
<1>6. u \in StateRec
  <2>1. u = SetCurrentContext(State, handle[a])
    BY DEF u
  <2> QED BY <1>1, <2>1 DEF SetCurrentContext, StateRec
<1>7. constants' = Settled(u).constants /\ param' = param
  BY <1>2 DEF Becomes
<1>8. Settled(u).constants = u.constants
  BY <1>6 DEF Settled, StateRec
<1> QED BY <1>5, <1>7, <1>8

\* A product starts with operands below the primes.
LEMMA StartReady ==
    ASSUME ParametersAssumption, RegistryInv, ProductInv, job = None, NEW a \in Api, StartProduct(a)
    PROVE  ProductInv'
<1>1. Operate(a) /\ done = {} /\ done' = done
  BY DEF StartProduct, ProductInv
<1>2. param[a] \in Param
  BY DEF RegistryInv, Param
<1>2a. PICK C : C = Tables[param[a]]
  OBVIOUS
<1>3. PICK l \in 0..Len(param[a].q) - 1, seed \in Seeds :
          /\ job' = [owner |-> a, level |-> l, seed |-> seed]
          /\ mem' = [c0 |-> Limbs(C, l, seed), c1 |-> Limbs(C, l, seed + 1),
                     d0 |-> Limbs(C, l, seed), d1 |-> Limbs(C, l, seed + 2)]
  BY <1>2a DEF StartProduct
<1>4. Fits(C) /\ C.L = Len(param[a].q)
  BY <1>2, <1>2a, AllTablesFit
<1>5. constants' = param[a] /\ param' = param
  BY <1>1, OperateUploads
<1>6. job'.owner = a /\ job'.level = l
  BY <1>3
<1>7. Own' = C
  BY <1>2a, <1>5, <1>6 DEF Own
<1>8. seed \in Nat /\ l \in 0..C.L - 1
  BY <1>4, PrimesAssumption
<1>9. \A n \in Nat : IsPoly(C, 0..l, Limbs(C, l, n))
  BY <1>4, <1>8, LimbsAreBelow DEF Fits
<1>10. Level' = l /\ Regular' = 0..l
  BY <1>6 DEF Level, Regular
<1>11. AtLevel(C)'
  BY <1>8, <1>10 DEF AtLevel
<1>12. /\ DOMAIN mem' = Operands
       /\ \A b \in Operands : IsPoly(C, 0..l, mem'[b])
  <2> DEFINE A0 == Limbs(C, l, seed)
             A1 == Limbs(C, l, seed + 1)
             A2 == Limbs(C, l, seed + 2)
  <2>1. IsPoly(C, 0..l, A0) /\ IsPoly(C, 0..l, A1) /\ IsPoly(C, 0..l, A2)
    BY <1>8, <1>9
  <2>2. mem' = [c0 |-> A0, c1 |-> A1, d0 |-> A0, d1 |-> A2]
    BY <1>3
  <2> HIDE DEF A0, A1, A2
  <2> QED BY <2>1, <2>2 DEF Operands
<1>13. done' = {}
  BY <1>1
<1>14. Held(C, mem, done)'
  <2>1. ResultPrimes(done)' = 0..l
    BY <1>10, <1>13 DEF ResultPrimes
  <2>2. \A b \in Operands : Shaped(C, 0..l, b, mem[b])'
    BY <1>10, <1>12 DEF Shaped, Operands
  <2> QED BY <1>12, <2>1, <2>2 DEF Held, Operands, Buffers
<1>15. Ready(C, mem, done)'
  BY <1>13, <1>14 DEF Ready, Ordered, Present
<1> QED BY <1>5, <1>6, <1>7, <1>11, <1>13, <1>15 DEF ProductInv

\* A kernel leaves the contexts and the job alone.
LEMMA KernelsReady ==
    ASSUME NEW C, Fits(C), KeyFits(C, C.key), AtLevel(C), Ready(C, mem, done),
           \/ binomialMult(C) \/ inttDigits(C) \/ modup(C)
           \/ nttSpecial(C) \/ dotSpecial(C, C.key) \/ inttSpecial(C) \/ moddown(C)
           \/ nttRegular(C) \/ dotRegular(C, C.key)
           \/ nttModdown(C) \/ add(C) \/ inttTop(C) \/ nttRescale(C)
    PROVE  Ready(C, mem', done') /\ UNCHANGED <<contextVars, job>>
<1>1. CASE binomialMult(C)
  BY <1>1, binomialMultReady DEF binomialMult, Launch
<1>2. CASE inttDigits(C)
  BY <1>2, inttDigitsReady DEF inttDigits, Launch
<1>3. CASE modup(C)
  BY <1>3, modupReady DEF modup, Launch
<1>4. CASE nttSpecial(C)
  BY <1>4, nttSpecialReady DEF nttSpecial, Launch
<1>5. CASE dotSpecial(C, C.key)
  BY <1>5, dotSpecialReady DEF dotSpecial, Launch
<1>6. CASE inttSpecial(C)
  BY <1>6, inttSpecialReady DEF inttSpecial, Launch
<1>7. CASE moddown(C)
  BY <1>7, moddownReady DEF moddown, Launch
<1>8. CASE nttRegular(C)
  BY <1>8, nttRegularReady DEF nttRegular, Launch
<1>9. CASE dotRegular(C, C.key)
  BY <1>9, dotRegularReady DEF dotRegular, Launch
<1>10. CASE nttModdown(C)
  BY <1>10, nttModdownReady DEF nttModdown, Launch
<1>11. CASE add(C)
  BY <1>11, addReady DEF add, Launch
<1>12. CASE inttTop(C)
  BY <1>12, inttTopReady DEF inttTop, Launch
<1>13. CASE nttRescale(C)
  BY <1>13, nttRescaleReady DEF nttRescale, Launch
<1> QED BY <1>1, <1>2, <1>3, <1>4, <1>5, <1>6, <1>7, <1>8, <1>9, <1>10, <1>11, <1>12, <1>13

\* The tables that a kernel reads and those of the product are the same.
LEMMA ProductKeeps ==
    ASSUME RegistryInv, ProductInv, job # None, ProductNext
    PROVE  ProductInv' /\ UNCHANGED contextVars
<1>1. PICK C : C = Own
  OBVIOUS
<1>2. /\ job.owner \in Api /\ constants = param[job.owner] /\ param[job.owner] \in Param
      /\ AtLevel(C) /\ Ready(C, mem, done)
  BY <1>1 DEF ProductInv, RegistryInv, Param
<1>3. Tables[constants] = C /\ Tables[param[job.owner]] = C
  BY <1>1, <1>2 DEF Own
<1>4. Fits(C) /\ KeyFits(C, C.key)
  BY <1>2, <1>3, AllTablesFit
<1>5. \/ binomialMult(C) \/ inttDigits(C) \/ modup(C)
      \/ nttSpecial(C) \/ dotSpecial(C, C.key) \/ inttSpecial(C) \/ moddown(C)
      \/ nttRegular(C) \/ dotRegular(C, C.key)
      \/ nttModdown(C) \/ add(C) \/ inttTop(C) \/ nttRescale(C)
  BY <1>3, Zenon DEF ProductNext
<1>6. Ready(C, mem', done') /\ UNCHANGED <<contextVars, job>>
  BY <1>2, <1>4, <1>5, KernelsReady
<1>7. job' = job /\ param' = param /\ constants' = constants /\ UNCHANGED contextVars
  BY <1>6 DEF contextVars
<1>8. Own' = C
  BY <1>1, <1>7 DEF Own
<1>9. Ready(C, mem, done)'
  BY <1>6, <1>7, SameJobReady
<1>10. AtLevel(C)'
  BY <1>2, <1>7 DEF AtLevel, Level
<1>11. \A D \in {Own'} : AtLevel(D)' /\ Ready(D, mem, done)'
  BY <1>8, <1>9, <1>10
<1> QED BY <1>2, <1>7, <1>11 DEF ProductInv

\* The inductive invariant
KernelInv == RegistryInv /\ ProductInv

\* It holds before the first call.
LEMMA InitKernel == ParametersAssumption /\ KernelInit => KernelInv
BY InitRegistry DEF KernelInit, KernelInv, ProductInv

\* Calls of the API, kernels and the ends of products keep it.
LEMMA NextKernel ==
    ParametersAssumption /\ KernelInv /\ [KernelNext]_<<contextVars, jobVars>> => KernelInv'
<1> SUFFICES ASSUME ParametersAssumption, KernelInv, [KernelNext]_<<contextVars, jobVars>>
             PROVE  KernelInv'
  OBVIOUS
<1>1. RegistryInv /\ ProductInv
  BY DEF KernelInv
<1>2. CASE UNCHANGED <<contextVars, jobVars>>
  <2>1. RegistryInv'
    BY <1>1, <1>2, NextRegistry
  <2>2. job' = job /\ mem' = mem /\ done' = done /\ param' = param /\ constants' = constants
    BY <1>2 DEF jobVars, contextVars
  <2>3. Own' = Own
    BY <2>2 DEF Own
  <2>4. ASSUME NEW C PROVE /\ AtLevel(C) => AtLevel(C)'
                           /\ Ready(C, mem, done) => Ready(C, mem, done)'
    <3>1. AtLevel(C) => AtLevel(C)'
      BY <2>2 DEF AtLevel, Level
    <3>2. Ready(C, mem, done) => Ready(C, mem', done')
      BY <2>2
    <3> QED BY <2>2, <3>1, <3>2, SameJobReady
  <2>5. \A C \in {Own} : AtLevel(C) /\ Ready(C, mem, done) => AtLevel(C)' /\ Ready(C, mem, done)'
    BY <2>4
  <2>6. ProductInv'
    BY <1>1, <2>2, <2>3, <2>5 DEF ProductInv
  <2> QED BY <2>1, <2>6 DEF KernelInv
<1>3. CASE job = None /\ RegistryNext /\ UNCHANGED jobVars
  <2>1. RegistryInv'
    BY <1>1, <1>3, NextRegistry
  <2>2. job' = None /\ done' = {}
    BY <1>1, <1>3 DEF jobVars, ProductInv
  <2>3. ProductInv'
    BY <2>2 DEF ProductInv
  <2> QED BY <2>1, <2>3 DEF KernelInv
<1>4. ASSUME job = None, NEW a \in Api, StartProduct(a)
      PROVE  KernelInv'
  <2>1. RegistryInv'
    <3>1. RegistryNext
      BY <1>4 DEF StartProduct, RegistryNext, ApiNext
    <3> QED BY <1>1, <3>1, NextRegistry
  <2>2. ProductInv'
    BY <1>1, <1>4, StartReady
  <2> QED BY <2>1, <2>2 DEF KernelInv
<1>5. CASE job # None /\ ProductNext
  <2>1. ProductInv' /\ UNCHANGED contextVars
    BY <1>1, <1>5, ProductKeeps
  <2>2. RegistryInv'
    BY <1>1, <2>1, NextRegistry
  <2> QED BY <2>1, <2>2 DEF KernelInv
<1>6. CASE EndProduct
  <2>1. job' = None /\ done' = {} /\ UNCHANGED contextVars
    BY <1>6 DEF EndProduct
  <2>2. RegistryInv'
    BY <1>1, <2>1, NextRegistry
  <2>3. ProductInv'
    BY <2>1 DEF ProductInv
  <2> QED BY <2>2, <2>3 DEF KernelInv
<1> QED BY <1>2, <1>3, <1>4, <1>5, <1>6 DEF KernelNext

\* It holds of every behaviour.
LEMMA KernelSound == ASSUME ParametersAssumption PROVE KernelSpec => []KernelInv
BY InitKernel, NextKernel, PTL DEF KernelSpec

\* Every limb is less than its prime, as each kernel relies on for what it reads, in
\* whatever order the streams let the kernels run and whichever context was in use before
\* (ModMult.cuh, SetupConstants, SetCurrentContext).
THEOREM LimbsAlwaysCanonical ==
    ASSUME ParametersAssumption PROVE KernelSpec => []Canonical
<1>1. ASSUME KernelInv PROVE Canonical
  <2> SUFFICES ASSUME job # None, NEW C \in {Own}
               PROVE  LET Less(limbs) == \A i \in DOMAIN limbs, k \in 0..N - 1 :
                                             limbs[i][k] \in 0..C.prime[i] - 1
                      IN  /\ \A b \in DOMAIN mem \ {"digit"} : Less(mem[b])
                          /\ "digit" \in DOMAIN mem => \A d \in DOMAIN mem.digit : Less(mem.digit[d])
    BY DEF Canonical
  <2>1. Held(C, mem, done)
    BY <1>1 DEF KernelInv, ProductInv, Ready
  <2>2. ASSUME NEW I, NEW x, IsPoly(C, I, x), NEW i \in DOMAIN x, NEW k \in 0..N - 1
        PROVE  x[i][k] \in 0..C.prime[i] - 1
    BY <2>2 DEF IsPoly, LimbsBelow, Residue
  <2>3. \A b \in DOMAIN mem \ {"digit"} : \E I : IsPoly(C, I, mem[b])
    BY <2>1 DEF Held, Shaped, Buffers, RegularBuffers
  <2>4. "digit" \in DOMAIN mem => \A d \in DOMAIN mem.digit : \E I : IsPoly(C, I, mem.digit[d])
    <3>1. "digit" \in DOMAIN mem => IsDigits(C, mem.digit)
      BY <2>1 DEF Held, Shaped
    <3> QED BY <3>1 DEF IsDigits
  <2> QED BY <2>2, <2>3, <2>4
<1> QED BY <1>1, KernelSound, PTL
=============================================================================
