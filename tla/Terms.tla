-------------------------------- MODULE Terms --------------------------------
(***************************************************************************)
(* Sums of monomials, as parsing.cc builds them from terms and simplifies  *)
(* them.  A linear term is a monomial with at most one variable, and a     *)
(* constant is the empty product.                                          *)
(***************************************************************************)
EXTENDS Sums, Sequences

(* A monomial is a coefficient with a sequence of variables.               *)
Mono(co, vs) == [co |-> co, vars |-> vs]

Scaled(es, k) == [i \in DOMAIN es |-> Mono(k * es[i].co, es[i].vars)]
Negated(es) == Scaled(es, -1)

(* The value of a sum under the assignment s.                              *)
MonoValue(e, s) ==
  LET product[n \in 0 .. Len(e.vars)] ==
        IF n = 0 THEN e.co ELSE product[n - 1] * s[e.vars[n]]
  IN  product[Len(e.vars)]

ElemsValue(es, s) == Sum(Len(es), [i \in DOMAIN es |-> MonoValue(es[i], s)])

(* simplify: monomials over the same variables are combined at the first   *)
(* of them, zeros are dropped, and constants go to the right hand side.    *)
Combine_Bug(es, e) ==
  IF \E i \in DOMAIN es : es[i].vars = e.vars
  THEN [i \in DOMAIN es |-> IF es[i].vars = e.vars THEN e ELSE es[i]]
  ELSE Append(es, e)
Combine(es, e) ==
  IF \E i \in DOMAIN es : es[i].vars = e.vars
  THEN [i \in DOMAIN es |->
         IF es[i].vars = e.vars THEN Mono(es[i].co + e.co, e.vars) ELSE es[i]]
  ELSE Append(es, e)

IsConstant(e) == e.vars = <<>>

(* One round of the loop of simplify.                                      *)
Visit(r, e) ==
  IF e.co = 0 THEN r
  ELSE IF IsConstant(e) THEN [r EXCEPT !.rhs = @ - e.co]
  ELSE [r EXCEPT !.elems = Combine(@, e)]

(* The monomials that are left when the loop has ended.                    *)
NonZeros(es) ==
  LET kept[n \in 0 .. Len(es)] ==
        IF n = 0 THEN <<>>
        ELSE IF es[n].co # 0 THEN Append(kept[n - 1], es[n]) ELSE kept[n - 1]
  IN  kept[Len(es)]

Simplify(es) ==
  LET visited[n \in 0 .. Len(es)] ==
        IF n = 0 THEN [elems |-> <<>>, rhs |-> 0] ELSE Visit(visited[n - 1], es[n])
  IN  [elems |-> NonZeros(visited[Len(es)].elems), rhs |-> visited[Len(es)].rhs]
=============================================================================
