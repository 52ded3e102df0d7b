------------------------------- MODULE MCJoins -------------------------------
(* Instances of Joins for TLC: employees (x), departments (x, y), a temp    *)
(* table (x) and a derived table (x), joined two and three at a time.       *)
EXTENDS Joins

CONSTANTS emp, dept, tmp, der, e, m, d, x, y

Rels  == {emp, dept, tmp, der}
Names == {emp, dept, tmp, der, e, m, d}
Cols  == {x, y}
Columns == [r \in Rels |-> IF r = dept THEN {x, y} ELSE {x}]

R(vx, vy) == [c \in Cols |-> IF c = x THEN vx ELSE vy]
X(vs)     == {R(v, Null) : v \in vs}

Contents ==
  {[r \in Rels |-> IF r = dept THEN {R(1, Null), R(2, 1)} ELSE X({1, Null})],
   [r \in Rels |-> IF r = dept THEN {R(1, 1), R(Null, 1)} ELSE IF r = emp THEN X({1, 2}) ELSE X({2})],
   [r \in Rels |-> IF r = dept THEN {} ELSE X({2, Null})]}

C(n, c)        == [q |-> n, c |-> c]
P(op, a, b, v) == [op |-> op, a |-> a, b |-> b, v |-> v]
Is(a, v)       == P("eqv", a, a, v)
Same(a, b)     == P("eq", a, b, 1)
IsNull(a)      == P("null", a, a, 1)
NotNull(a)     == P("notnull", a, a, 1)
InSub(a, b)    == P("in", a, b, 1)
One(pr)        == [neg |-> FALSE, any |-> {pr}]
Either(p1, p2) == [neg |-> FALSE, any |-> {p1, p2}]
Neither(p1, p2) == [neg |-> TRUE, any |-> {p1, p2}]

S(a, t, r, jt, on) == [alias |-> a, table |-> t, rel |-> r, type |-> jt, on |-> on]
Some(cs, n) == {s \in SUBSET cs : Cardinality(s) <= n}
Outer == {"inner", "left", "right", "full"}

(* employees e, their bosses m, and departments d, temp or derived rows d *)
Conjuncts ==
  {One(Is(C(e, x), 1)), One(IsNull(C(m, x))), Neither(Is(C(m, x), 2), IsNull(C(m, x))),
   Either(Is(C(d, x), 2), IsNull(C(d, x))), Either(Is(C(m, x), 1), IsNull(C(e, x)))}

Plain ==
  {[src |-> <<S(e, emp, emp, "from", {}), S(m, emp, emp, t1, {One(Same(C(e, x), C(m, x)))}), s3>>, where |-> w] :
     t1 \in Outer,
     s3 \in {S(d, dept, dept, t2, {One(Same(C(e, x), C(d, x)))}) : t2 \in Outer}
          \cup {S(d, tmp, tmp, t2, {One(Same(C(d, x), C(m, x)))}) : t2 \in Outer},
     w \in Some(Conjuncts, 2)}

(* two sources: bare names, subqueries, cross joins, conditions no key is taken from *)
Bare  == C(NoName, y)
InOne == One(InSub(C(e, x), C(d, x)))
Employees == {S(e, emp, emp, "from", {}), S(e, NoName, der, "from", {})}
Departments(types, ons) == {S(d, dept, dept, t, on) : t \in types, on \in ons}

Couples ==
  {[src |-> <<s1, s2>>, where |-> w] :
     s1 \in Employees,
     s2 \in Departments({"inner", "left", "right", "cross"},
                        {{One(Same(C(d, x), C(e, x)))}, {One(Same(Bare, C(e, x)))},
                         {Either(Same(C(e, x), C(d, x)), IsNull(C(d, x)))}}),
     w \in Some({One(Is(Bare, 1)), Neither(Is(C(d, x), 1), Is(Bare, 1)), InOne, One(Same(C(d, y), Bare)),
                 One(Is(C(NoName, x), 1))}, 2)}
  \cup
  {[src |-> <<s1, s2>>, where |-> w] :
     s1 \in Employees, s2 \in Departments(Outer, {{InOne}}),
     w \in {{}, {One(Is(Bare, 1))}, {One(IsNull(C(d, x)))}, {InOne}}}

Plans == Plain \cup Couples

(* the tables joined without aliases for the one, FROM emp JOIN emp m *)
SelfJoin ==
  {[src |-> <<S(emp, emp, emp, "from", {}), S(m, emp, emp, t, {})>>,
    where |-> {One(Is(C(emp, x), 1))}] : t \in {"inner", "cross"}}
=============================================================================
