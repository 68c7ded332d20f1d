----------------------------- MODULE MCBorrowRun -----------------------------
(* Instances of BorrowRun for TLC: x and y are pairs, m1 and m2 mutable    *)
(* references, two one borrowed in two phases, sh and ret shared ones, gd  *)
(* a guard.  Dropping y uses all of it.                                    *)
EXTENDS BorrowRun, TLC

CONSTANTS x, y, m1, m2, two, sh, ret, gd, f, g

Field(v, n) == [local |-> v, projection |-> <<[elem |-> "Field", of |-> "Tuple", field |-> n]>>]
Star(v) == [local |-> v, projection |-> <<[elem |-> "Deref", of |-> IF v \in {sh, ret} THEN "Ref" ELSE "RefMut"]>>]
X == Local(x)
Y == Local(y)
YField == [local |-> y, projection |-> <<[elem |-> "Field", of |-> "Dtor", field |-> f]>>]

Nop == [operands |-> << >>, ref |-> {}, to |-> {}, depth |-> "Shallow", dead |-> {}, drop |-> {}, returns |-> FALSE]
Set(w) == [Nop EXCEPT !.to = {w}]
Read(w) == [Nop EXCEPT !.operands = <<[move |-> FALSE, place |-> w]>>]
Call(w) == [Nop EXCEPT !.operands = <<[move |-> TRUE, place |-> w]>>, !.depth = "Deep"]
Copy(v, w) == [Set(Local(v)) EXCEPT !.operands = <<[move |-> FALSE, place |-> w]>>]
Move(v, w) == [Set(Local(v)) EXCEPT !.operands = <<[move |-> TRUE, place |-> w]>>]
Give(v, w) == [Move(v, w) EXCEPT !.depth = "Deep"]
Ref(v, kind, w) == [Set(Local(v)) EXCEPT !.ref = {[kind |-> kind, place |-> w]}]
Dead(v) == [Nop EXCEPT !.dead = {v}]
Drop(w) == [Nop EXCEPT !.drop = {w}]
Exit == [Nop EXCEPT !.returns = TRUE]

MCPaths == {Local(v) : v \in Locals} \cup {Field(x, f), Field(x, g)}

(* Straight, a diamond, a loop back to its first block.                    *)
Shapes ==
  {[succ |-> <<{2}, {3}, {4}, {5}, {}>>, preorder |-> <<1, 2, 3, 4, 5>>],
   [succ |-> <<{2, 3}, {4}, {4}, {5}, {}>>, preorder |-> <<1, 2, 4, 5, 3>>],
   [succ |-> <<{2}, {3}, {1, 4}, {5}, {}>>, preorder |-> <<1, 2, 3, 4, 5>>]}
LongLine == [succ |-> <<{2}, {3}, {4}, {5}, {6}, {}>>, preorder |-> <<1, 2, 3, 4, 5, 6>>]
Branch == [succ |-> <<{2, 3}, {4}, {4}, {5}, {6}, {}>>, preorder |-> <<1, 2, 4, 5, 6, 3>>]
LongLoop == [succ |-> <<{2}, {3}, {4}, {5}, {2, 6}, {}>>, preorder |-> <<1, 2, 3, 4, 5, 6>>]

Borrows == {Ref(m1, "Mut", X), Ref(two, "TwoPhase", X), Ref(sh, "Shared", Field(x, f)), Ref(m1, "Mut", Field(x, f))}
Others ==
  {Nop, Read(Field(x, f)), Call(Field(x, f)), Ref(m1, "Mut", Y), Set(Field(x, f)), Set(X), Set(Field(x, g)), Call(X), Dead(x), Drop(X),
   Ref(sh, "Shared", X), Ref(m2, "Mut", Star(m1)), Ref(sh, "Shared", Star(m1)),
   Move(m2, Local(m1)), Give(m2, Local(two)), Copy(ret, Local(sh)), Ref(ret, "Shared", Star(sh)),
   Read(Star(m1)), Set(Star(m2)), Read(Star(sh)), Call(Local(two)), Give(m2, Local(m1))}

(* References are set where they are used; a two-phase temporary is used  *)
(* once, or twice in a mutant, which is a bug the compiler reports.        *)
Marked(stmts) ==
  {[stmt |-> s, sets |-> Stores(s) \cap {m1, m2, two, sh}, uses |-> Reads(s) \cap {m1, m2, two, sh}] : s \in stmts}
Sensible(code) ==
  /\ UNION {code[i].sets : i \in DOMAIN code} = UNION {code[i].uses : i \in DOMAIN code}
  /\ Cardinality({i \in DOMAIN code : two \in code[i].uses}) <= 2
Codes(first, then) ==
  {<<c[1].stmt, c[2].stmt, c[3].stmt, c[4].stmt, Exit>> :
     c \in {c \in Marked(first) \X Marked(then) \X Marked(Others) \X Marked(Others) : Sensible(c)}}
Carried ==
  {<<Ref(m2, "Mut", Y), c[1].stmt, c[2].stmt, Ref(two, "TwoPhase", X), Move(m2, Local(two)), Exit>> :
     c \in {c \in Marked(Others) \X Marked(Others) :
             Sensible(c \o <<[sets |-> {m2, two}, uses |-> {two}]>>)}}
Renewed == {<<Ref(m1, "Mut", X), Ref(m2, "Mut", Star(m1)), a, Read(Star(m1)), Set(Star(m2)), Exit>> : a \in Others}
Guarding ==
  {Nop, Set(X), Set(Field(x, f)), Read(Field(x, f)), Drop(Local(gd)), Call(Local(gd)), Dead(gd), Move(gd, Local(m1))}
Guarded ==
  {start \o <<a, b, c, Exit>> : start \in {<<Ref(m1, "Mut", X), Move(gd, Local(m1))>>,
                                          <<Ref(sh, "Shared", Field(x, f)), Copy(gd, Local(sh))>>},
                               a \in Guarding, b \in Guarding, c \in Guarding}

(* What has a destructor is written, moved and dropped in part and as a    *)
(* whole.                                                                  *)
Partial == {Nop, Set(Y), Set(YField), Call(YField), Drop(Y), Read(YField), Ref(m1, "Mut", YField), Set(Star(m1))}
Destructed ==
  {<<c[1].stmt, c[2].stmt, c[3].stmt, c[4].stmt, Exit>> :
     c \in {c \in Marked({Nop, Call(Y), Ref(m1, "Mut", YField)}) \X Marked(Partial) \X Marked(Partial) \X Marked(Partial) :
             Sensible(c)}}

(* A statement both uses a reference and redefines it, as only MIR that is *)
(* written by hand does.                                                   *)
Redefining ==
  {Ref(m1, "Mut", Star(m1)), Give(m1, Local(m1)), Ref(sh, "Shared", Star(sh)), Give(sh, Local(sh))}
Redefined ==
  {code \in {<<start, a, b, then, Exit>> : start \in {Ref(m1, "Mut", X), Ref(sh, "Shared", Field(x, f))},
                                          a \in Others \cup Redefining, b \in Others \cup Redefining,
                                          then \in {Nop, Read(Star(m1)), Read(Star(sh))}} :
     {code[2], code[3]} \cap Redefining # {}}

(* A function with arguments, one with a variable, declared mut or not,    *)
(* and a constant: its arguments, what is mut, whether it is a function,   *)
(* what the compiler made.                                                 *)
Function == <<{x, y}, Locals, TRUE, {}>>
Variable == <<{y}, Locals, TRUE, {m2, two}>>
Immutable == <<{y}, Locals \ {x, m1}, TRUE, {m2, two}>>
Constant == <<{y}, Locals \ {x, m1}, FALSE, {m2, two}>>

Body(code, shape, kind, polonius) ==
  [stmts |-> code, succ |-> shape.succ, preorder |-> shape.preorder, args |-> kind[1],
   mut |-> kind[2], is_fn |-> kind[3], user |-> Locals \ kind[4],
   refs |-> {m1, m2, two, sh, ret, gd}, guards |-> {gd, y}, returned |-> ret,
   polonius |-> polonius]

(* The activation postdominates the reservation, as building MIR ensures.  *)
Built(bodies) ==
  {b \in bodies : b.succ[1] = {2, 3} => two \notin Reads(b.stmts[2]) \cup Reads(b.stmts[3])}
Family(codes, shapes, kinds, polonius) ==
  Built({Body(code, shape, kind, polonius) : code \in codes, shape \in shapes, kind \in kinds})

(* A reference carried around a loop to where x is borrowed again; one     *)
(* reassigned while what it referred to is reborrowed; guards; variables.  *)
Special(polonius) ==
  {Family(Carried, {LongLoop}, {Function}, polonius),
   Family(Renewed, {LongLine, LongLoop}, {Function}, polonius),
   Family(Destructed, Shapes, {Function}, polonius)}
    \cup {Family(Guarded, {shape}, {Function}, polonius) : shape \in {LongLine, Branch, LongLoop}}
    \cup {Family(Codes({Set(X)}, {borrow}), Shapes, {Variable, Immutable, Constant}, polonius) : borrow \in Borrows}
MCBodies ==
  {Family(Codes({borrow}, {then}), Shapes, {Function}, FALSE) : borrow \in Borrows, then \in Others}
    \cup Special(FALSE) \cup Special(TRUE) \cup {Family(Redefined, Shapes, {Function}, TRUE)}

=============================================================================
