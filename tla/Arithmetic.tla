----------------------------- MODULE Arithmetic -----------------------------
(***************************************************************************)
(* $((...)) and ((...)) of agsh (executor.rs, ArithmeticParser): a         *)
(* recursive-descent parser that evaluates as it reads.  The text is a     *)
(* sequence of tokens; integers wrap at Width bits (64 in the code).  Both *)
(* operands of && and || and both branches of ?: are read, and so          *)
(* evaluated, whatever the condition.                                      *)
(***************************************************************************)
EXTENDS Integers, Sequences

CONSTANTS
  Width,       \* bits of an integer
  Literals,    \* the value of each number token
  Variables,   \* the names
  MaxArith     \* MAX_ARITH_DEPTH

Low == -(2 ^ (Width - 1))
Wrap(x) == ((x - Low) % (2 ^ Width)) + Low
Bool(b) == IF b THEN 1 ELSE 0

\* Division truncates towards zero, the remainder has the dividend's sign.
Abs(x) == IF x < 0 THEN -x ELSE x
Quot(a, b) == IF (a < 0) = (b < 0) THEN Abs(a) \div Abs(b) ELSE -(Abs(a) \div Abs(b))
Bits(x) == [k \in 0..(Width - 1) |-> ((x - Low + 2 ^ (Width - 1)) \div (2 ^ k)) % 2]
Number(bits) ==
  LET Sum[k \in 0..Width] == IF k = 0 THEN 0 ELSE Sum[k - 1] + bits[k - 1] * (2 ^ (k - 1))
  IN Wrap(Sum[Width])
BitAnd(a, b) == Number([k \in 0..(Width - 1) |-> Bits(a)[k] * Bits(b)[k]])
BitOr(a, b) == Number([k \in 0..(Width - 1) |-> Bool(Bits(a)[k] + Bits(b)[k] > 0)])
BitXor(a, b) == Number([k \in 0..(Width - 1) |-> (Bits(a)[k] + Bits(b)[k]) % 2])
Pow(a, n) ==
  LET P[k \in 0..n] == IF k = 0 THEN 1 ELSE Wrap(P[k - 1] * a) IN P[n]

\* wrapping_shl, wrapping_shr: the count is taken modulo the width.
Shift(a, n, left) ==
  LET count == n % Width IN IF left THEN Wrap(a * (2 ^ count)) ELSE a \div (2 ^ count)

DivisionByZero(op, b) == op \in {"/", "%"} /\ b = 0
Apply(op, a, b) ==
  CASE op = "||" -> Bool(a # 0 \/ b # 0)
    [] op = "&&" -> Bool(a # 0 /\ b # 0)
    [] op = "|" -> BitOr(a, b)
    [] op = "^" -> BitXor(a, b)
    [] op = "&" -> BitAnd(a, b)
    [] op = "==" -> Bool(a = b)
    [] op = "!=" -> Bool(a # b)
    [] op = "<=" -> Bool(a <= b)
    [] op = ">=" -> Bool(a >= b)
    [] op = "<" -> Bool(a < b)
    [] op = ">" -> Bool(a > b)
    [] op = "<<" -> Shift(a, b, TRUE)
    [] op = ">>" -> Shift(a, b, FALSE)
    [] op = "+" -> Wrap(a + b)
    [] op = "-" -> Wrap(a - b)
    [] op = "*" -> Wrap(a * b)
    [] op = "/" -> Wrap(Quot(a, b))
    [] op = "%" -> Wrap(a - b * Quot(a, b))
    [] op = "**" -> IF b < 0 THEN 0 ELSE Pow(a, b)

\* The binary operators, loosest level first.
LevelsMutant == <<{"||"}, {"&&"}, {"|"}, {"&"}, {"^"}, {"==", "!="}, {"<=", ">=", "<", ">"},
                  {"<<", ">>"}, {"+", "-"}, {"*", "/", "%"}>>
Levels == <<{"||"}, {"&&"}, {"|"}, {"^"}, {"&"}, {"==", "!="}, {"<=", ">=", "<", ">"},
            {"<<", ">>"}, {"+", "-"}, {"*", "/", "%"}>>

AssignmentOps == [op \in {"=", "+=", "-=", "*=", "/=", "%=", "&=", "|=", "^=", "<<=", ">>="} |->
  CASE op = "=" -> "=" [] op = "+=" -> "+" [] op = "-=" -> "-" [] op = "*=" -> "*"
    [] op = "/=" -> "/" [] op = "%=" -> "%" [] op = "&=" -> "&" [] op = "|=" -> "|"
    [] op = "^=" -> "^" [] op = "<<=" -> "<<" [] op = ">>=" -> ">>"]

-----------------------------------------------------------------------------
(* The parser: a result is the next position, the value, the variables and *)
(* an error, which ends everything.                                        *)

Tok(t, i) == IF i \in DOMAIN t THEN t[i] ELSE "end"
Ok(i, v, env) == [i |-> i, v |-> v, env |-> env, err |-> "none"]
Err(env, what) == [i |-> 0, v |-> 0, env |-> env, err |-> what]

\* write_var: a readonly variable is an error.
WriteVar(i, v, env, name, stored) ==
  IF name \in env.readonly THEN Err(env, "readonly")
  ELSE Ok(i, v, [env EXCEPT !.vars[name] = stored])

RECURSIVE Assignment(_, _, _, _), Ternary(_, _, _, _), Level(_, _, _, _, _),
          LevelLoop(_, _, _, _), Power(_, _, _, _), Factor(_, _, _, _)

\* parse_assignment: right associative, the current value is read after the
\* right-hand side.
Assignment(t, i, env, d) ==
  IF Tok(t, i) \in Variables /\ Tok(t, i + 1) \in DOMAIN AssignmentOps
  THEN LET op == AssignmentOps[Tok(t, i + 1)]
           Write(r, value) == WriteVar(r.i, value, r.env, t[i], value)
           Store(r) == IF r.err # "none" THEN r
                       ELSE IF DivisionByZero(op, r.v) THEN Err(r.env, "division")
                       ELSE Write(r, IF op = "=" THEN r.v ELSE Apply(op, r.env.vars[t[i]], r.v))
       IN Store(IF d + 1 > MaxArith THEN Err(env, "depth") ELSE Assignment(t, i + 2, env, d + 1))
  ELSE Ternary(t, i, env, d)

\* parse_ternary: both branches are evaluated.
Ternary(t, i, env, d) ==
  LET Either(c, a, b) == IF b.err # "none" THEN b ELSE [b EXCEPT !.v = IF c.v # 0 THEN a.v ELSE b.v]
      Otherwise(c, a) == IF a.err # "none" THEN a
                         ELSE IF Tok(t, a.i) # ":" THEN Err(a.env, "parse")
                         ELSE Either(c, a, Ternary(t, a.i + 1, a.env, d + 1))
      Branches(c) == IF c.err # "none" \/ Tok(t, c.i) # "?" THEN c
                     ELSE Otherwise(c, IF d + 1 > MaxArith THEN Err(c.env, "depth")
                                       ELSE Ternary(t, c.i + 1, c.env, d + 1))
  IN Branches(Level(1, t, i, env, d))

\* parse_logical_or ... parse_term: left associative.
Level(n, t, i, env, d) ==
  IF n > Len(Levels) THEN Power(t, i, env, d)
  ELSE LevelLoop(n, t, Level(n + 1, t, i, env, d), d)
LevelLoop(n, t, left, d) ==
  IF left.err # "none" \/ Tok(t, left.i) \notin Levels[n] THEN left
  ELSE LET op == t[left.i]
           Combined(r) == IF r.err # "none" THEN r
                          ELSE IF DivisionByZero(op, r.v) THEN Err(r.env, "division")
                          ELSE LevelLoop(n, t, [r EXCEPT !.v = Apply(op, left.v, r.v)], d)
       IN Combined(Level(n + 1, t, left.i + 1, left.env, d))

\* parse_power: right associative.
Power(t, i, env, d) ==
  IF d + 1 > MaxArith THEN Err(env, "depth")
  ELSE LET Raised(b, e) == IF e.err # "none" THEN e ELSE [e EXCEPT !.v = Apply("**", b.v, e.v)]
           Exponent(b) == IF b.err # "none" \/ Tok(t, b.i) # "**" THEN b
                          ELSE Raised(b, Power(t, b.i + 1, b.env, d + 1))
       IN Exponent(Factor(t, i, env, d + 1))

\* parse_factor: signs, increments, parentheses, numbers and variables.
Factor(t, i, env, d) ==
  LET tok == Tok(t, i)
      Unary(v) == CASE tok = "+" -> v [] tok = "-" -> Wrap(-v)
                    [] tok = "!" -> Bool(v = 0) [] tok = "~" -> -v - 1
      Signed(r) == IF r.err # "none" THEN r ELSE [r EXCEPT !.v = Unary(r.v)]
      Closed(r) == IF r.err # "none" THEN r
                   ELSE IF Tok(t, r.i) # ")" THEN Err(r.env, "parse") ELSE [r EXCEPT !.i = @ + 1]
      step == IF tok = "++" THEN 1 ELSE -1
      after == IF Tok(t, i + 1) = "++" THEN 1 ELSE -1
  IN IF d + 1 > MaxArith THEN Err(env, "depth")
     ELSE IF tok \in {"++", "--"}
     THEN IF Tok(t, i + 1) \notin Variables THEN Err(env, "parse")
          ELSE LET v == Wrap(env.vars[t[i + 1]] + step) IN WriteVar(i + 2, v, env, t[i + 1], v)
     ELSE IF tok \in {"+", "-", "!", "~"}
     THEN Signed(Factor(t, i + 1, env, d + 1))
     ELSE IF tok = "("
     THEN Closed(Assignment(t, i + 1, env, d + 1))
     ELSE IF tok \in DOMAIN Literals THEN Ok(i + 1, Wrap(Literals[tok]), env)
     ELSE IF tok \notin Variables THEN Err(env, "parse")
     ELSE IF Tok(t, i + 1) \in {"++", "--"}
     THEN WriteVar(i + 2, env.vars[tok], env, tok, Wrap(env.vars[tok] + after))
     ELSE Ok(i + 1, env.vars[tok], env)

\* eval_arithmetic: empty text is zero, anything left over is an error.
EvalArithmetic(t, env) ==
  IF t = <<>> THEN Ok(1, 0, env)
  ELSE LET Whole(r) == IF r.err = "none" /\ r.i # Len(t) + 1 THEN Err(r.env, "parse") ELSE r
       IN Whole(Assignment(t, 1, env, 0))

=============================================================================
