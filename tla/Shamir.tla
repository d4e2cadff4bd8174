-------------------------------- MODULE Shamir --------------------------------
(***************************************************************************)
(* The arithmetic of src/src/sss.c: GF(256) by its logarithm tables, the   *)
(* evaluation of a share and the interpolation at zero, for one byte.      *)
(***************************************************************************)
EXTENDS Integers, Sequences, FiniteSets, FiniteSetsExt, SequencesExt

(* C's exclusive or, of numbers below 512.                                 *)
xor(a, b) ==
    LET digit(w) == w * ((a \div w + b \div w) % 2)
    IN  digit(1) + digit(2) + digit(4) + digit(8) + digit(16) + digit(32) + digit(64)
        + digit(128) + digit(256)

(* gf_init: the powers of 3 modulo x^8 + x^4 + x^3 + x + 1 (283) from the  *)
(* zeroth on, in runs of 16, and their logarithms.                         *)
TimesThree(x) == LET y == xor(x, 2 * x) IN IF y > 255 THEN xor(y, 283) ELSE y

Powers(x) == FoldSet(LAMBDA i, s : Append(s, TimesThree(Last(s))), <<x>>, 1 .. 15)

gf_exp == FoldSet(LAMBDA i, s : s \o Powers(TimesThree(Last(s))), Powers(1), 1 .. 15)
gf_log == [x \in 1 .. 255 |-> SelectInSeq(gf_exp, LAMBDA y : y = x) - 1]

(* What gf_init leaves in the tables: every byte but zero once, each three *)
(* times the one before in the field, and its logarithm.                   *)
ASSUME TablesAssumption ==
    /\ gf_exp[1] = 1
    /\ \A k \in 1 .. 255 : gf_exp[k] \in 1 .. 255 /\ gf_log[gf_exp[k]] = k - 1
    /\ \A k \in 1 .. 255 : gf_exp[(k % 255) + 1] = TimesThree(gf_exp[k])
    /\ \A x \in 1 .. 255 : gf_log[x] \in 0 .. 254 /\ gf_exp[gf_log[x] + 1] = x

gf_mul(a, b) ==
    IF a = 0 \/ b = 0 THEN 0 ELSE gf_exp[((gf_log[a] + gf_log[b]) % 255) + 1]
gf_div(a, b) ==
    IF a = 0 THEN 0 ELSE gf_exp[((gf_log[a] + 255 - gf_log[b]) % 255) + 1]

(* The polynomial with constant term secret, at x (Horner).                *)
ShareAt(x, secret, coeffs) ==
    LET y[d \in 1 .. (Len(coeffs) + 1)] ==
            IF d > Len(coeffs) THEN 0 ELSE xor(gf_mul(y[d + 1], x), coeffs[d])
    IN  xor(gf_mul(y[1], x), secret)

(* The product of the sequence s, its element i left out.                  *)
Product(s, i) ==
    LET p[k \in 0 .. Len(s)] ==
            IF k = 0 THEN 1 ELSE IF k = i THEN p[k - 1] ELSE gf_mul(p[k - 1], s[k])
    IN  p[Len(s)]

(* Mutant: the denominator of a basis coefficient is left out.             *)
BasisNoDenominator(xs, i) == Product(xs, i)

(* The Lagrange basis at zero for the share indices xs.                    *)
Basis(xs, i) ==
    gf_div(Product(xs, i), Product([k \in DOMAIN xs |-> xor(xs[k], xs[i])], i))

(* The secret: the values ys of the shares, weighted by their basis.       *)
Interpolate(ys, basis) ==
    LET v[k \in 0 .. Len(ys)] ==
            IF k = 0 THEN 0 ELSE xor(v[k - 1], gf_mul(ys[k], basis[k]))
    IN  v[Len(ys)]
===============================================================================
