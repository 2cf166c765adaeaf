------------------------------ MODULE Divider -------------------------------
(***************************************************************************)
(* The division of mult.sv: the serial divider (serdiv.sv) and the         *)
(* selection of word operations around it.  One step is one clock cycle;   *)
(* Accept, Iterate and Deliver are what the state machine does in IDLE,    *)
(* DIVIDE and FINISH, and Flush is a cycle with flush_i.                   *)
(*                                                                         *)
(* Numbers are bit vectors of WIDTH bits, written as naturals.  Operands   *)
(* are aligned first: the divisor is shifted left until its leading bit is *)
(* under the dividend's, and the number of iterations is the shift.        *)
(* Negative divisors are not complemented; the dividend takes the sign of  *)
(* the divisor and the comparison is inverted.                             *)
(***************************************************************************)
EXTENDS Integers

CONSTANTS WIDTH,  \* riscv::XLEN
          WORD    \* width of a word operation, 32 in the code

ASSUME WidthAssumption == WIDTH \in Nat /\ WORD \in 1 .. WIDTH

VARIABLES
    st,    \* state_q
    r,     \* the registers of the datapath
    word,  \* word_op_q
    op     \* history: the division that was accepted last

vars == <<st, r, word, op>>

Value == 0 .. 2^WIDTH - 1

Wrap(v) == v % 2^WIDTH

Not(v) == 2^WIDTH - 1 - v

sign(v) == v >= 2^(WIDTH - 1)

\* Sign extension of the low WORD bits.
sext32(v) ==
    LET w == v % 2^WORD IN IF w >= 2^(WORD - 1) THEN Wrap(w - 2^WORD) ELSE w

Op == [a : Value, b : Value, signed : BOOLEAN, rem : BOOLEAN, word : BOOLEAN]

\* The operands that mult.sv hands to the divider.
operand(v, o) == IF ~o.word THEN v ELSE IF o.signed THEN sext32(v) ELSE v % 2^WORD

-----------------------------------------------------------------------------
(* Alignment.                                                              *)

\* Number of leading zeros; WIDTH if there is no one.
lzc(v) ==
    IF v = 0 THEN WIDTH
    ELSE CHOOSE k \in 0 .. WIDTH - 1 : 2^(WIDTH - 1 - k) <= v /\ v < 2^(WIDTH - k)

\* Mutant: the most negative number is aligned like its complement.
lzc_a_input_NoShift(a, signed) == IF signed /\ sign(a) THEN Not(a) ELSE a

\* A negative dividend counts one bit more: it may be a power of two.
lzc_a_input(a, signed) == IF signed /\ sign(a) THEN Wrap(2 * Not(a)) ELSE a

lzc_b_input(b, signed) == IF signed /\ sign(b) THEN Not(b) ELSE b

div_shift(a, b, signed) ==
    LET zb == lzc(lzc_b_input(b, signed))
    IN  IF zb = WIDTH THEN WIDTH ELSE zb - lzc(lzc_a_input(a, signed))

\* A negative shift, read as an unsigned number, shifts everything out.
shifted(b, k) == IF k < 0 THEN 0 ELSE Wrap(b * 2^k)

\* cnt_q has $clog2(WIDTH + 1) bits.
cntModulus == 2^(CHOOSE n \in 1 .. WIDTH : 2^n > WIDTH /\ 2^(n - 1) <= WIDTH)

cnt_d(cnt) == IF cnt = 0 THEN 0 ELSE cnt - 1

-----------------------------------------------------------------------------
(* The datapath.                                                           *)

\* The registers when a division is accepted.
load(a, b, signed, rem) ==
    LET k    == div_shift(a, b, signed)
        opp  == signed /\ sign(a) # sign(b)
    IN  [a |-> IF opp THEN Wrap(-a) ELSE a,
         b |-> shifted(b, k), res |-> 0, cnt |-> k % cntModulus,
         rem_sel |-> rem, comp_inv |-> signed /\ sign(b), b_zero |-> b = 0,
         res_inv |-> (b # 0 \/ rem) /\ opp, res_zero |-> k < 0]

\* The partial remainder is large enough to subtract the divisor.
ab_comp(q) ==
    /\ q.a = q.b \/ ((q.a > q.b) # q.comp_inv)
    /\ q.a # 0 \/ q.b_zero

\* b moves right by one; a negative divisor is filled with ones.
b_mux(q) == (q.b \div 2) + (IF q.comp_inv THEN 2^(WIDTH - 1) ELSE 0)

res_d(q) == Wrap(2 * q.res + (IF ab_comp(q) THEN 1 ELSE 0))

\* One subtraction and shift, unless the quotient is known to be zero.
iterate(q) ==
    IF q.res_zero THEN [q EXCEPT !.cnt = cnt_d(@)]
    ELSE [q EXCEPT !.a = IF ab_comp(q) THEN Wrap(@ - q.b) ELSE @,
                   !.b = b_mux(q), !.res = res_d(q), !.cnt = cnt_d(@)]

res_o(q) ==
    LET out == IF q.rem_sel THEN q.a ELSE q.res
    IN  IF q.res_inv THEN Wrap(-out) ELSE out

\* The result on the output of mult.sv.
div_result == IF word THEN sext32(res_o(r)) ELSE res_o(r)

out_vld_o == st = "FINISH" \/ (st = "DIVIDE" /\ r.res_zero)

-----------------------------------------------------------------------------
Init ==
    /\ st = "IDLE"
    /\ r = [a |-> 0, b |-> 0, res |-> 0, cnt |-> 0, rem_sel |-> FALSE, comp_inv |-> FALSE,
            b_zero |-> FALSE, res_inv |-> FALSE, res_zero |-> FALSE]
    /\ word = FALSE
    /\ op = [a |-> 0, b |-> 0, signed |-> FALSE, rem |-> FALSE, word |-> FALSE]

\* The issue stage hands over a division only if the divider was ready in the
\* cycle before, and then it is idle.
Accept(o) ==
    /\ st = "IDLE"
    /\ st' = "DIVIDE"
    /\ r' = load(operand(o.a, o), operand(o.b, o), o.signed, o.rem)
    /\ word' = o.word
    /\ op' = o

\* out_rdy_i is low in the cycles in which a product is on the result bus.
Iterate(out_rdy) ==
    /\ st = "DIVIDE"
    /\ st' = IF r.res_zero THEN (IF out_rdy THEN "IDLE" ELSE "FINISH")
             ELSE IF r.cnt = 0 THEN "FINISH" ELSE "DIVIDE"
    /\ r' = iterate(r)
    /\ UNCHANGED <<word, op>>

Deliver(out_rdy) ==
    /\ st = "FINISH"
    /\ st' = IF out_rdy THEN "IDLE" ELSE "FINISH"
    /\ r' = [r EXCEPT !.cnt = cnt_d(@)]
    /\ UNCHANGED <<word, op>>

\* A flush disables the operand registers but not the quotient and the
\* counter, and word_op_q takes the value of a division that is dropped.
Flush(w) ==
    /\ w # word => st = "IDLE"
    /\ st' = "IDLE"
    /\ r' = IF st = "DIVIDE" THEN [iterate(r) EXCEPT !.a = r.a, !.b = r.b]
            ELSE [r EXCEPT !.cnt = cnt_d(@)]
    /\ word' = w
    /\ UNCHANGED op

Next ==
    \/ \E o \in Op : Accept(o)
    \/ \E out_rdy \in BOOLEAN : Iterate(out_rdy) \/ Deliver(out_rdy)
    \/ \E w \in BOOLEAN : Flush(w)

Spec == Init /\ [][Next]_vars

-----------------------------------------------------------------------------
(* The reference: RISC-V division, on WORD or WIDTH bits.                  *)

Signed(v, w) == IF v >= 2^(w - 1) THEN v - 2^w ELSE v

\* The operands as numbers.
number(v, o) ==
    LET w == IF o.word THEN WORD ELSE WIDTH
    IN  IF o.signed THEN Signed(v % 2^w, w) ELSE v % 2^w

Abs(n) == IF n < 0 THEN -n ELSE n

Negative(n) == n < 0

\* Division by zero yields all ones and leaves the dividend as the remainder;
\* otherwise the quotient is rounded towards zero and the remainder has the
\* sign of the dividend.
Quotient(a, b) ==
    IF b = 0 THEN -1
    ELSE IF Negative(a) # Negative(b) THEN -(Abs(a) \div Abs(b)) ELSE Abs(a) \div Abs(b)

Remainder(a, b) == IF b = 0 THEN a ELSE a - b * Quotient(a, b)

Reference(o) ==
    LET x == IF o.rem THEN Remainder(number(o.a, o), number(o.b, o))
                      ELSE Quotient(number(o.a, o), number(o.b, o))
    IN  IF o.word THEN sext32(Wrap(x)) ELSE Wrap(x)

(* Properties.                                                             *)

\* The comment in serdiv.sv on ending early: a division is cut short only if
\* the divisor is larger than the dividend, in absolute value.
EarlyOnlyIfZero ==
    st = "DIVIDE" /\ r.res_zero => Abs(number(op.b, op)) > Abs(number(op.a, op))

\* Whenever serdiv.sv announces a result it is that of the RISC-V instruction
\* that was accepted last: also when it ends early, when it has to wait, and
\* when a flush cut off the division before.  The dividend -1 with divisor 1,
\* which violates EarlyOnlyIfZero, is the only exception among all operands.
ResultCorrect ==
    out_vld_o /\ ~(number(op.a, op) = -1 /\ number(op.b, op) = 1) =>
        div_result = Reference(op)
=============================================================================
