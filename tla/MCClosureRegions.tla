--------------------------- MODULE MCClosureRegions ---------------------------
(* Functions of two lifetimes with a closure 1 in them and an item 2 in    *)
(* that or beside it.                                                      *)
EXTENDS ClosureRegions, TLC

OfItems(s) == 0 :> s[1] @@ 1 :> s[2] @@ 2 :> s[3]

Function(kinds, parents, early, upvars, signature, late, c_variadic) ==
  [kind |-> OfItems(kinds), parent |-> parents, early |-> early, upvars |-> OfItems(upvars),
   signature |-> OfItems(signature), late |-> OfItems(late), c_variadic |-> c_variadic]

(* The regions of a closure's arguments outlive its environment, if it is  *)
(* called by reference; and the first lifetime, what its input refers to.  *)
Implied(f, i) ==
  IF f.kind[i] # "Closure" THEN {}
  ELSE {<<Upvar(i, j), Late(i, ClosureEnv)>> : j \in f.early + 1..f.early + f.upvars[i]}
         \cup {<<Early(1), Late(i, n)>> : n \in {m \in Elements(f.signature[i]) : f.early > 0}}

(* Or these outlive a region outside, as the `'x` of `&'static &'x T` does. *)
ImpliedAbove(f, i) ==
  {{<<Late(i, n), r>> : n \in Elements(f.signature[i])} :
     r \in {Static} \cup {Early(k) : k \in {1} \cap 1..f.early}}

(* Or they relate two regions outside, as `&'a &'b T` does, or the way from*)
(* one to the other is through a region of the item's own.  Captured ones  *)
(* are alike: each is given any region.                                    *)
ImpliedAcross(f, i) ==
  LET early == {Early(k) : k \in 1..f.early}
      captured == {Upvar(i, f.early + j) : j \in 1..f.upvars[i]}
      apart == {e \in (early \cup captured) \X (early \cup captured) :
                  e[1] # e[2] /\ (e[1] \in captured /\ e[2] \in captured => e[1][3] < e[2][3])}
  IN  {{e} : e \in apart}
        \cup {{<<e[1], Late(i, n)>>, <<Late(i, n), e[2]>>} : e \in apart, n \in Elements(f.signature[i])}

Shapes ==
  {Function(<<"FnDef", "Closure", "Closure">>, <<0, 1>>, 2, <<0, 0, 0>>,
            <<<< >>, << >>, <<1>>>>, <<<< >>, << >>, <<1>>>>, FALSE),
   Function(<<"FnDef", "Closure", "FnOnceClosure">>, <<0, 1>>, 0, <<0, 1, 2>>,
            <<<<1>>, <<1>>, << >>>>, <<<<1>>, <<1, 2>>, << >>>>, FALSE),
   Function(<<"FnDef", "Coroutine", "InlineConst">>, <<0, 0>>, 1, <<0, 1, 1>>,
            <<<<1>>, << >>, << >>>>, <<<<1>>, << >>, << >>>>, TRUE)}

(* The regions that the code of an item can speak of.                      *)
Named(f, i) ==
  {Static} \cup {Early(k) : k \in 1..f.early} \cup {Upvar(i, f.early + j) : j \in 1..f.upvars[i]}
    \cup UNION {{Late(j, n) : n \in Elements(f.late[j])} :
                  j \in {0, i} \cup (IF i = 2 THEN {f.parent[2]} ELSE {})}

Pairs(rs) == {e \in rs \X rs : e[1] # e[2] /\ e[1] # Static}
AtMostOne(S) == {{}} \cup {{x} : x \in S}

(* What is given to an item for the regions of its arguments: those of its *)
(* creator, or regions that they outlive.                                  *)
Given(f, i) == UNION {{Arg(c, f.early + j) : j \in 1..f.upvars[c]} :
                        c \in {d \in 1..2 : f.parent[d] = i}}
Equal(e) == {e, <<e[2], e[1]>>}
Gifts(f, i) ==
  LET given == [Given(f, i) -> Named(f, i)]
      outlive(g) == {<<g[a], a>> : a \in DOMAIN g}
  IN  {outlive(g) : g \in given} \cup {UNION {Equal(e) : e \in outlive(g)} : g \in given}

(* A creator that gives one region for all asks for a relation of its own; *)
(* what is innermost asks for one, or that T outlives a region.            *)
MCBodies(f, i) ==
  [outlives : Gifts(f, i), types : {{}}]
    \cup IF i = 0 THEN {}
         ELSE [outlives : {UNION {Equal(<<r, a>>) : a \in Given(f, i)} \cup own :
                             r \in Named(f, i), own \in AtMostOne(Pairs(Named(f, i)))},
               types : {{}}]
    \cup IF Given(f, i) # {} THEN {} ELSE [outlives : {{}}, types : AtMostOne(Named(f, i))]

MCPrograms ==
  UNION {
    [kind : {f.kind}, parent : {f.parent}, early : {f.early}, upvars : {f.upvars},
     signature : {f.signature}, late : {f.late}, c_variadic : {f.c_variadic},
     implied : {OfItems(<<{}, Implied(f, 1), implied>>) :
                  implied \in {Implied(f, 2)} \cup ImpliedAbove(f, 2) \cup ImpliedAcross(f, 2)},
     bounds : {{}} \cup {{<<1, k>>} : k \in 2..f.early},
     type_bounds : {{}} \cup {{1} : k \in 1..f.early}] : f \in Shapes}
=============================================================================
