-------------------------------- MODULE Calc --------------------------------
(***************************************************************************)
(* The two calculators: calc, which evaluates the line it is given, and    *)
(* the one with buttons, which puts characters at the cursor and replaces  *)
(* the text by its value.  They share tokenize and the four functions of   *)
(* the grammar.  A number is a fraction in lowest terms, numerator and     *)
(* denominator; what is not one, or too large, is Other, which no input    *)
(* divides by when it may be zero.                                         *)
(***************************************************************************)
EXTENDS Integers, Sequences, SequencesExt

CONSTANTS Inputs,    \* lines given to calc
          Buttons,   \* buttons that are pressed
          MaxPress

VARIABLES entry,      \* the line, or the text of the text box
          entry_i,    \* its cursor
          line,      \* the line the answer is for
          answer,    \* what eval gave for it
          pressed    \* buttons pressed, -1 for calc

vars == <<entry, entry_i, line, answer, pressed>>

RECURSIVE gcd(_, _)
gcd(a, b) == IF b = 0 THEN a ELSE gcd(b, a % b)
abs(n) == IF n < 0 THEN -n ELSE n
Other == <<0, 0>>
frac(n, d) ==
    LET g == gcd(abs(n), abs(d))
    IN  IF d = 0 THEN Other ELSE IF d < 0 THEN <<-n \div g, -d \div g>> ELSE <<n \div g, d \div g>>
add(a, b) == IF Other \in {a, b} THEN Other ELSE frac(a[1] * b[2] + b[1] * a[2], a[2] * b[2])
sub(a, b) == IF Other \in {a, b} THEN Other ELSE frac(a[1] * b[2] - b[1] * a[2], a[2] * b[2])
mul(a, b) == IF Other \in {a, b} THEN Other ELSE frac(a[1] * b[1], a[2] * b[2])
div(a, b) == IF Other \in {a, b} THEN Other ELSE frac(a[1] * b[2], a[2] * b[1])
powf(a, b) ==
    CASE b = <<0, 1>> \/ a = <<1, 1>> -> <<1, 1>>
      [] a = <<0, 1>> /\ b[1] > 0 -> a
      [] OTHER -> IF a = Other \/ b[2] # 1 \/ abs(b[1]) > 6 \/ abs(a[1]) > 30 THEN Other
                  ELSE IF b[1] > 0 THEN frac(a[1] ^ b[1], a[2] ^ b[1]) ELSE frac(a[2] ^ abs(b[1]), a[1] ^ abs(b[1]))

-----------------------------------------------------------------------------
(* tokenize.                                                               *)

Digits == {"0", "1", "2", "3", "4", "5", "6", "7", "8", "9"}
operators == {"+", "-", "*", "/", "^", "(", ")"}
Token(t, v) == [t |-> t, v |-> v]
digit(c) == CHOOSE n \in 0..9 : <<"0", "1", "2", "3", "4", "5", "6", "7", "8", "9">>[n + 1] = c

\* How many characters from the i-th on are a number: digits, and one point.
RECURSIVE consume_number(_, _, _)
consume_number(s, i, point) ==
    IF i > Len(s) \/ s[i] \notin Digits \cup {"."} \/ (s[i] = "." /\ point) THEN 0
    ELSE 1 + consume_number(s, i + 1, point \/ s[i] = ".")
number(s) ==
    LET ds == SelectSeq(s, LAMBDA c : c # ".")
        val[k \in 0..Len(ds)] == IF k = 0 THEN 0 ELSE 10 * val[k - 1] + digit(ds[k])
        after == IF "." \in ToSet(s) THEN Len(s) - CHOOSE k \in DOMAIN s : s[k] = "." ELSE 0
    IN  frac(val[Len(ds)], 10 ^ after)

\* The tokens from the i-th character on, or an error.
RECURSIVE tokenize(_, _)
tokenize(s, i) ==
    IF i > Len(s) THEN [ok |-> TRUE, tokens |-> <<>>]
    ELSE IF s[i] = " " THEN tokenize(s, i + 1)
    ELSE IF s[i] \in operators \cup Digits
         THEN LET n == IF s[i] \in Digits THEN consume_number(s, i, FALSE) ELSE 1
                  rest == tokenize(s, i + n)
                  tok == IF s[i] \in Digits THEN Token("num", number(SubSeq(s, i, i + n - 1))) ELSE Token(s[i], Other)
              IN  [rest EXCEPT !.tokens = <<tok>> \o @]
         ELSE [ok |-> FALSE, tokens |-> <<>>]

-----------------------------------------------------------------------------
(* The grammar: a result is a value and how many tokens it took.           *)

IntermediateResult(v, n) == [ok |-> TRUE, value |-> v, tokens_read |-> n]
Err == [ok |-> FALSE, value |-> Other, tokens_read |-> 0]
from(ts, i) == SubSeq(ts, i, Len(ts))
kind(ts, i) == IF i \in DOMAIN ts THEN ts[i].t ELSE "end"

RECURSIVE e_expr(_), e_rest(_, _), t_rest(_, _), f_expr(_)
\* Numbers and expressions in parentheses.
g_expr(ts) ==
    CASE kind(ts, 1) = "num" -> IntermediateResult(ts[1].v, 1)
      [] kind(ts, 1) = "-" /\ kind(ts, 2) = "num" -> IntermediateResult(mul(<<-1, 1>>, ts[2].v), 2)
      [] kind(ts, 1) = "(" -> LET r == e_expr(from(ts, 2))
                              IN  IF r.ok /\ kind(ts, r.tokens_read + 2) = ")" THEN [r EXCEPT !.tokens_read = @ + 2] ELSE Err
      [] OTHER -> Err
\* Exponentiation.
f_expr(ts) ==
    LET g1 == g_expr(ts)
        f == f_expr(from(ts, g1.tokens_read + 2))
    IN  IF ~g1.ok THEN Err
        ELSE CASE kind(ts, g1.tokens_read + 1) = "^" ->
                      IF f.ok THEN IntermediateResult(powf(g1.value, f.value), g1.tokens_read + f.tokens_read + 1) ELSE Err
               [] kind(ts, g1.tokens_read + 1) = "num" -> Err
               [] OTHER -> g1
\* Multiplication and division, from what was read on.
t_rest(ts, f1) ==
    LET op == kind(ts, f1.tokens_read + 1)
        f2 == f_expr(from(ts, f1.tokens_read + 2))
        read == f1.tokens_read + f2.tokens_read + 1
    IN  IF ~f1.ok \/ op = "num" THEN Err
        ELSE IF op \notin {"*", "/"} THEN f1
        ELSE IF ~f2.ok \/ (op = "/" /\ f2.value = <<0, 1>>) THEN Err
        ELSE t_rest(ts, IntermediateResult(IF op = "*" THEN mul(f1.value, f2.value) ELSE div(f1.value, f2.value), read))
t_expr(ts) == t_rest(ts, f_expr(ts))
\* Addition and subtraction.
e_right(ts) ==
    LET t1 == t_expr(ts)
        op == kind(ts, t1.tokens_read + 1)
        e2 == e_expr(from(ts, t1.tokens_read + 2))
    IN  IF ~t1.ok \/ op \notin {"+", "-"} THEN t1
        ELSE IF ~e2.ok THEN Err
        ELSE IntermediateResult(IF op = "+" THEN add(t1.value, e2.value) ELSE sub(t1.value, e2.value), t1.tokens_read + e2.tokens_read + 1)
e_rest(ts, t1) ==
    LET op == kind(ts, t1.tokens_read + 1)
        t2 == t_expr(from(ts, t1.tokens_read + 2))
    IN  IF ~t1.ok \/ op = "num" THEN Err
        ELSE IF op \notin {"+", "-"} THEN t1
        ELSE IF ~t2.ok THEN Err
        ELSE e_rest(ts, IntermediateResult(IF op = "+" THEN add(t1.value, t2.value) ELSE sub(t1.value, t2.value),
                                           t1.tokens_read + t2.tokens_read + 1))
e_expr(ts) == e_rest(ts, t_expr(ts))

\* What is left after the expression is not looked at.
eval(s) == LET r == tokenize(s, 1) IN IF r.ok THEN e_expr(r.tokens) ELSE Err

-----------------------------------------------------------------------------
(* calc, and the buttons of the other one.                                 *)

Init ==
    /\ line = <<>> /\ answer = Err
    /\ \/ entry \in Inputs /\ pressed = -1 /\ entry_i = 0
       \/ entry = <<>> /\ pressed = 0 /\ entry_i = 0

\* An input that is empty is not evaluated.
calc ==
    /\ pressed = -1 /\ entry # <<>>
    /\ line' = entry /\ answer' = eval(entry) /\ entry' = <<>> /\ UNCHANGED <<entry_i, pressed>>

press(c) ==
    /\ pressed \in 0..(MaxPress - 1) /\ pressed' = pressed + 1
    /\ entry' = InsertAt(entry, entry_i + 1, c) /\ entry_i' = entry_i + 1
    /\ UNCHANGED <<line, answer>>
\* The cursor moved with the keys of the text box.
move == /\ pressed \in 1..(MaxPress - 1) /\ entry_i' \in 0..Len(entry) \ {entry_i} /\ UNCHANGED <<entry, line, answer, pressed>>

\* The value as it is printed: a value of one digit, or something else.
to_string(r) ==
    CASE ~r.ok -> <<"Syntax", " ", "Error">>
      [] r.ok /\ r.value[2] = 1 /\ abs(r.value[1]) < 10 ->
             (IF r.value[1] < 0 THEN <<"-">> ELSE <<>>) \o << <<"0", "1", "2", "3", "4", "5", "6", "7", "8", "9">>[abs(r.value[1]) + 1] >>
      [] OTHER -> <<"long">>
emit_enter ==
    /\ pressed \in 1..MaxPress /\ entry # <<>> /\ "long" \notin ToSet(entry)
    /\ line' = entry /\ answer' = eval(entry)
    /\ entry' = to_string(answer') /\ entry_i' = Len(entry') /\ UNCHANGED pressed

Next == calc \/ emit_enter \/ move \/ \E c \in Buttons : press(c)
Spec == Init /\ [][Next]_vars

-----------------------------------------------------------------------------
(* What an expression means: it is split at the operation done last, the   *)
(* rightmost sum outside parentheses, else the rightmost product, else the *)
(* leftmost power.                                                         *)

depth(ts, i) == Len(SelectSeq(SubSeq(ts, 1, i), LAMBDA x : x.t = "(")) - Len(SelectSeq(SubSeq(ts, 1, i - 1), LAMBDA x : x.t = ")"))
binary(ts, ops) == {i \in 2..Len(ts) : ts[i].t \in ops /\ depth(ts, i) = 0 /\ ts[i - 1].t \in {"num", ")"}}
greatest(S) == CHOOSE i \in S : \A j \in S : j =< i
smallest(S) == CHOOSE i \in S : \A j \in S : i =< j
Bad == [ok |-> FALSE, v |-> Other]
applied(op, a, b) ==
    IF ~a.ok \/ ~b.ok \/ (op = "/" /\ b.v = <<0, 1>>) THEN Bad
    ELSE [ok |-> TRUE, v |-> CASE op = "+" -> add(a.v, b.v) [] op = "-" -> sub(a.v, b.v) [] op = "*" -> mul(a.v, b.v)
                               [] op = "/" -> div(a.v, b.v) [] op = "^" -> powf(a.v, b.v)]
RECURSIVE meaning(_)
meaning(ts) ==
    LET sums == binary(ts, {"+", "-"})
        products == binary(ts, {"*", "/"})
        powers == binary(ts, {"^"})
        at(i) == applied(ts[i].t, meaning(SubSeq(ts, 1, i - 1)), meaning(from(ts, i + 1)))
    IN  CASE sums # {} -> at(greatest(sums))
          [] sums = {} /\ products # {} -> at(greatest(products))
          [] sums = {} /\ products = {} /\ powers # {} -> at(smallest(powers))
          [] OTHER -> CASE Len(ts) = 1 /\ kind(ts, 1) = "num" -> [ok |-> TRUE, v |-> ts[1].v]
                        [] Len(ts) = 2 /\ kind(ts, 1) = "-" /\ kind(ts, 2) = "num" -> [ok |-> TRUE, v |-> sub(<<0, 1>>, ts[2].v)]
                        [] Len(ts) > 2 /\ kind(ts, 1) = "(" /\ kind(ts, Len(ts)) = ")" -> meaning(SubSeq(ts, 2, Len(ts) - 1))
                        [] OTHER -> Bad

\* The answer is what the expression means, and a line that means something
\* has an answer; what a calculator skips after an expression can only begin
\* with a parenthesis (calc.rs and calculator/main.rs, e_expr to g_expr).
CalcExact ==
    line # <<>> =>
        LET r == tokenize(line, 1)
            n == answer.tokens_read
        IN  IF answer.ok THEN /\ r.ok /\ meaning(SubSeq(r.tokens, 1, n)) = [ok |-> TRUE, v |-> answer.value]
                              /\ kind(r.tokens, n + 1) \in {"end", "(", ")"}
                         ELSE ~r.ok \/ ~meaning(r.tokens).ok

\* The cursor stays in the text, so that a button can put its character
\* there (calculator/main.rs, on_click).
CursorInside == entry_i =< Len(entry)
=============================================================================
