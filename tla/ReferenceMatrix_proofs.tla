----------------------- MODULE ReferenceMatrix_proofs -----------------------
(***************************************************************************)
(* The reference matrix buys nothing twice, nothing that is not on record  *)
(* and nothing before what it bought earlier proved good; it changes no    *)
(* evidence, computes all of it from one set of settings, and aggregates   *)
(* only what is complete; its receipts account for what was billed, and    *)
(* every purchase leaves room for those to come: for any number of         *)
(* processes, packs, invocations and kills, any prices, sizes and limits.  *)
(* First the arithmetic of paid calls; then four invariants, each resting  *)
(* on those before it: IInv (who may buy, and what is on record), Basis    *)
(* (the settings), Good (what a process holds of the evidence, and how the *)
(* disk was come by) and Books (the bill of an item is the sum over the    *)
(* turns on the disk, or with the process that is buying it).              *)
(***************************************************************************)
EXTENDS ReferenceMatrix, SequenceTheorems, FiniteSetTheorems, WellFoundedInduction, TLAPS

-----------------------------------------------------------------------------
(* Among subsets of a finite set there is a least: what holds of {} and is *)
(* kept by adding an element holds of the set.                             *)
LEMMA MinimalSubset ==
  ASSUME NEW S, IsFiniteSet(S), NEW Bad, Bad \subseteq SUBSET S, Bad # {}
  PROVE  \E T \in Bad : \A U \in Bad : U \subseteq T => U = T
  <1>1. Bad \subseteq FiniteSubsetsOf(S)
    BY FS_FiniteSubsetsOfFinite
  <1>2. PICK T \in Bad : \A U \in Bad : ~(<<U, T>> \in StrictSubsetOrdering(S))
    BY <1>1, WFMin, FS_StrictSubsetOrderingWellFounded
  <1> QED BY <1>2 DEF StrictSubsetOrdering

LEMMA Induct ==
  ASSUME NEW S, IsFiniteSet(S), NEW Held, {} \in Held,
         \A T \in SUBSET S : \A x \in S \ T : T \in Held => T \cup {x} \in Held
  PROVE  S \in Held
  <1>1. SUFFICES ASSUME S \notin Held PROVE FALSE
    OBVIOUS
  <1>2. PICK Bad : Bad = {T \in SUBSET S : T \notin Held}
    OBVIOUS
  <1>3. PICK T \in Bad : \A U \in Bad : U \subseteq T => U = T
    BY <1>1, <1>2, MinimalSubset
  <1>4. PICK x \in T : TRUE
    BY <1>2, <1>3
  <1>5. PICK U : U = T \ {x}
    OBVIOUS
  <1>6. U \in SUBSET S /\ x \in S \ U /\ U # T /\ U \subseteq T /\ U \cup {x} = T
    BY <1>2, <1>3, <1>4, <1>5
  <1>7. U \in Held
    BY <1>2, <1>3, <1>6
  <1>8. T \in Held
    BY <1>6, <1>7
  <1> QED BY <1>2, <1>3, <1>8

-----------------------------------------------------------------------------
(* The sum of the library is a function on the subsets, defined by itself: *)
(* it exists, it is the same on a part, so it adds up element by element.  *)
chosen(s) == CHOOSE x \in s : TRUE
Sums(f, S, g) == g = [s \in SUBSET S |-> IF s = {} THEN 0 ELSE f[chosen(s)] + g[s \ {chosen(s)}]]

LEMMA OneIs == \A s : s # {} => chosen(s) \in s
  BY DEF chosen

LEMMA SumIs ==
  ASSUME NEW f, NEW S
  PROVE  SumFunctionOnSet(f, S) = (CHOOSE g : Sums(f, S, g))[S]
  BY DEF SumFunctionOnSet, FoldFunctionOnSet, MapThenFoldSet, Sums, chosen

LEMMA SumsAgree ==
  ASSUME NEW f, NEW S, NEW T, IsFiniteSet(T), T \subseteq S, NEW g, NEW h, Sums(f, S, g), Sums(f, T, h)
  PROVE  g[T] = h[T]
  <1>1. SUFFICES ASSUME g[T] # h[T] PROVE FALSE
    OBVIOUS
  <1>2. PICK Bad : Bad = {s \in SUBSET T : g[s] # h[s]}
    OBVIOUS
  <1>3. PICK s \in Bad : \A u \in Bad : u \subseteq s => u = s
    BY <1>1, <1>2, MinimalSubset
  <1>4. s \in SUBSET T /\ s \in SUBSET S /\ g[s] # h[s]
    BY <1>2, <1>3
  <1>5. /\ g[s] = IF s = {} THEN 0 ELSE f[chosen(s)] + g[s \ {chosen(s)}]
        /\ h[s] = IF s = {} THEN 0 ELSE f[chosen(s)] + h[s \ {chosen(s)}]
    BY <1>4 DEF Sums
  <1>6. s # {} /\ chosen(s) \in s
    BY <1>4, <1>5, OneIs
  <1>7. g[s \ {chosen(s)}] # h[s \ {chosen(s)}]
    BY <1>4, <1>5, <1>6
  <1>8. s \ {chosen(s)} \in Bad
    BY <1>2, <1>4, <1>7
  <1> QED BY <1>3, <1>6, <1>8

LEMMA SumsExist ==
  ASSUME NEW f, NEW S, IsFiniteSet(S)
  PROVE  \E g : Sums(f, S, g)
  <1>1. SUFFICES ASSUME ~\E g : Sums(f, S, g) PROVE FALSE
    OBVIOUS
  <1>2. PICK Bad : Bad = {s \in SUBSET S : ~\E g : Sums(f, s, g)}
    OBVIOUS
  <1>3. PICK T \in Bad : \A u \in Bad : u \subseteq T => u = T
    <2>1. S \in Bad /\ Bad \subseteq SUBSET S
      BY <1>1, <1>2
    <2> QED BY <2>1, MinimalSubset
  <1> DEFINE of(s) == CHOOSE h : Sums(f, s, h)
  <1>4. T \in SUBSET S /\ ~\E g : Sums(f, T, g)
    BY <1>2, <1>3
  <1>5. ASSUME NEW u \in SUBSET T, u # T PROVE Sums(f, u, of(u)) /\ IsFiniteSet(u)
    <2>1. \E h : Sums(f, u, h)
      BY <1>2, <1>3, <1>4, <1>5
    <2> QED BY <2>1, <1>4, FS_Subset
  <1> DEFINE rest(s) == s \ {chosen(s)}
             g == [s \in SUBSET T |-> IF s = {} THEN 0 ELSE f[chosen(s)] + of(rest(s))[rest(s)]]
  <1>6. ASSUME NEW s \in SUBSET T, s # {} PROVE rest(s) \in SUBSET T /\ rest(s) # T /\ rest(s) # s
    BY <1>6, OneIs
  <1>7. ASSUME NEW u \in SUBSET T, u # T PROVE g[u] = of(u)[u]
    <2>1. Sums(f, u, of(u))
      BY <1>5, <1>7
    <2>2. of(u)[u] = IF u = {} THEN 0 ELSE f[chosen(u)] + of(u)[rest(u)]
      <3> HIDE DEF of
      <3> QED BY <2>1 DEF Sums
    <2>3. CASE u = {}
      <3> HIDE DEF of
      <3> QED BY <2>2, <2>3
    <2>4. CASE u # {}
      <3>1. rest(u) \in SUBSET u /\ rest(u) \in SUBSET T /\ rest(u) # T
        BY <2>4, <1>6
      <3>2. Sums(f, rest(u), of(rest(u))) /\ IsFiniteSet(rest(u))
        BY <1>5, <3>1
      <3>3. of(u)[rest(u)] = of(rest(u))[rest(u)]
        <4> HIDE DEF of, rest
        <4> QED BY <2>1, <3>1, <3>2, SumsAgree
      <3> HIDE DEF of, rest
      <3> QED BY <2>2, <2>4, <3>3
    <2> QED BY <2>3, <2>4
  <1>8. Sums(f, T, g)
    <2>1. \A s \in SUBSET T : g[s] = IF s = {} THEN 0 ELSE f[chosen(s)] + g[rest(s)]
      <3>1. ASSUME NEW s \in SUBSET T, s # {} PROVE g[s] = f[chosen(s)] + g[rest(s)]
        <4>1. g[s] = f[chosen(s)] + of(rest(s))[rest(s)]
          BY <3>1
        <4> HIDE DEF g, of, rest
        <4> QED BY <3>1, <4>1, <1>6, <1>7
      <3>2. g[{}] = 0
        OBVIOUS
      <3> HIDE DEF g, rest
      <3> QED BY <3>1, <3>2
    <2>2. PICK k : k = g
      OBVIOUS
    <2>3. /\ k = [s \in SUBSET T |-> k[s]]
          /\ \A s \in SUBSET T : k[s] = IF s = {} THEN 0 ELSE f[chosen(s)] + k[s \ {chosen(s)}]
      <3>1. k = [s \in SUBSET T |-> k[s]]
        BY <2>2
      <3> HIDE DEF g
      <3> QED BY <3>1, <2>1, <2>2
    <2>4. Sums(f, T, k)
      BY <2>3, Zenon DEF Sums
    <2> HIDE DEF g
    <2> QED BY <2>2, <2>4
  <1> QED BY <1>4, <1>8

(* The sum is what remains without one element, and that one. *)
LEMMA SumUnfolds ==
  ASSUME NEW f, NEW S, IsFiniteSet(S)
  PROVE  SumFunctionOnSet(f, S)
           = IF S = {} THEN 0 ELSE f[chosen(S)] + SumFunctionOnSet(f, S \ {chosen(S)})
  <1>1. PICK g : g = CHOOSE h : Sums(f, S, h)
    OBVIOUS
  <1>2. Sums(f, S, g)
    BY <1>1, SumsExist
  <1>3. SumFunctionOnSet(f, S) = g[S]
    BY <1>1, SumIs
  <1>4. g[S] = IF S = {} THEN 0 ELSE f[chosen(S)] + g[S \ {chosen(S)}]
    BY <1>2 DEF Sums
  <1>5. CASE S # {}
    <2>1. PICK T : T = S \ {chosen(S)}
      OBVIOUS
    <2>2. IsFiniteSet(T) /\ T \subseteq S
      BY <2>1, FS_Subset
    <2>3. PICK h : h = CHOOSE k : Sums(f, T, k)
      OBVIOUS
    <2>4. Sums(f, T, h) /\ SumFunctionOnSet(f, T) = h[T]
      BY <2>2, <2>3, SumsExist, SumIs
    <2>5. g[T] = h[T]
      BY <1>2, <2>2, <2>4, SumsAgree
    <2> QED BY <1>3, <1>4, <1>5, <2>1, <2>4, <2>5
  <1> QED BY <1>3, <1>4, <1>5

LEMMA SumEmpty ==
  ASSUME NEW f
  PROVE  SumFunctionOnSet(f, {}) = 0
  BY SumUnfolds, FS_EmptySet

LEMMA SumType ==
  ASSUME NEW f, NEW S, IsFiniteSet(S), \A x \in S : f[x] \in Int
  PROVE  SumFunctionOnSet(f, S) \in Int
  <1>1. SUFFICES ASSUME SumFunctionOnSet(f, S) \notin Int PROVE FALSE
    OBVIOUS
  <1>2. PICK Bad : Bad = {T \in SUBSET S : SumFunctionOnSet(f, T) \notin Int}
    OBVIOUS
  <1>3. PICK T \in Bad : \A u \in Bad : u \subseteq T => u = T
    <2>1. S \in Bad /\ Bad \subseteq SUBSET S
      BY <1>1, <1>2
    <2> QED BY <2>1, MinimalSubset
  <1>4. T \subseteq S /\ SumFunctionOnSet(f, T) \notin Int /\ IsFiniteSet(T)
    BY <1>2, <1>3, FS_Subset
  <1>5. PICK x : x = chosen(T)
    OBVIOUS
  <1>6. T # {} /\ SumFunctionOnSet(f, T) = f[x] + SumFunctionOnSet(f, T \ {x})
    BY <1>4, <1>5, SumUnfolds
  <1>7. x \in T /\ f[x] \in Int
    BY <1>4, <1>5, <1>6, OneIs
  <1>8. SumFunctionOnSet(f, T \ {x}) \in Int
    BY <1>2, <1>3, <1>4, <1>7
  <1> QED BY <1>4, <1>6, <1>7, <1>8

(* It does not matter which one: they are taken out in any order. *)
LEMMA SumOneOut ==
  ASSUME NEW f, NEW S, IsFiniteSet(S), \A x \in S : f[x] \in Int, NEW x \in S
  PROVE  SumFunctionOnSet(f, S) = f[x] + SumFunctionOnSet(f, S \ {x})
  <1> DEFINE Holds(T) == \A y \in T : SumFunctionOnSet(f, T) = f[y] + SumFunctionOnSet(f, T \ {y})
  <1>1. SUFFICES ASSUME ~Holds(S) PROVE FALSE
    OBVIOUS
  <1>2. PICK Bad : Bad = {T \in SUBSET S : ~Holds(T)}
    OBVIOUS
  <1>3. PICK T \in Bad : \A u \in Bad : u \subseteq T => u = T
    <2>1. S \in Bad /\ Bad \subseteq SUBSET S
      BY <1>1, <1>2
    <2> QED BY <2>1, MinimalSubset
  <1>4. T \in SUBSET S /\ IsFiniteSet(T) /\ ~Holds(T)
    BY <1>2, <1>3, FS_Subset
  <1>5. PICK y \in T : SumFunctionOnSet(f, T) # f[y] + SumFunctionOnSet(f, T \ {y})
    BY <1>4
  <1>6. PICK c : c = chosen(T)
    OBVIOUS
  <1>7. c \in T /\ SumFunctionOnSet(f, T) = f[c] + SumFunctionOnSet(f, T \ {c})
    BY <1>4, <1>5, <1>6, OneIs, SumUnfolds
  <1>8. c # y
    BY <1>5, <1>7
  <1>9. PICK U, V, W : U = T \ {c} /\ V = T \ {y} /\ W = T \ {c, y}
    OBVIOUS
  <1>10. /\ U \in SUBSET S /\ V \in SUBSET S /\ W \in SUBSET S
         /\ U \subseteq T /\ U # T /\ V \subseteq T /\ V # T
         /\ y \in U /\ c \in V /\ W = U \ {y} /\ W = V \ {c}
    BY <1>4, <1>7, <1>8, <1>9
  <1>11. Holds(U) /\ Holds(V)
    <2> HIDE DEF Holds
    <2> QED BY <1>2, <1>3, <1>10
  <1>12. SumFunctionOnSet(f, U) = f[y] + SumFunctionOnSet(f, W) /\ SumFunctionOnSet(f, V) = f[c] + SumFunctionOnSet(f, W)
    BY <1>10, <1>11
  <1>13. SumFunctionOnSet(f, W) \in Int /\ f[c] \in Int /\ f[y] \in Int
    <2>1. IsFiniteSet(W) /\ \A z \in W : f[z] \in Int
      BY <1>10, FS_Subset
    <2> QED BY <2>1, <1>4, <1>5, <1>7, SumType
  <1> QED BY <1>5, <1>7, <1>9, <1>12, <1>13

LEMMA SumAdds ==
  ASSUME NEW f, NEW S, NEW x, IsFiniteSet(S), x \notin S, f[x] \in Int, \A y \in S : f[y] \in Int
  PROVE  SumFunctionOnSet(f, S \cup {x}) = f[x] + SumFunctionOnSet(f, S)
  <1>1. PICK T : T = S \cup {x}
    OBVIOUS
  <1>2. IsFiniteSet(T) /\ x \in T /\ T \ {x} = S /\ \A y \in T : f[y] \in Int
    BY <1>1, FS_AddElement
  <1> QED BY <1>1, <1>2, SumOneOut

(* The laws of sums the accounts need. *)
LEMMA SumLinear ==
  ASSUME NEW S, IsFiniteSet(S), NEW f, NEW g, NEW h, NEW k,
         NEW a \in Int, NEW b \in Int, NEW c \in Int,
         \A x \in S : f[x] \in Int /\ g[x] \in Int /\ h[x] \in Int
                       /\ k[x] = a * f[x] + b * g[x] + c * h[x]
  PROVE  SumFunctionOnSet(k, S) = a * SumFunctionOnSet(f, S) + b * SumFunctionOnSet(g, S)
                                    + c * SumFunctionOnSet(h, S)
  <1> DEFINE s(e, T) == SumFunctionOnSet(e, T)
             Holds(T) == s(k, T) = a * s(f, T) + b * s(g, T) + c * s(h, T)
  <1>1. PICK Held : Held = {T \in SUBSET S : Holds(T)}
    OBVIOUS
  <1>2. {} \in Held
    <2>1. Holds({})
      BY SumEmpty
    <2> QED BY <1>1, <2>1
  <1>3. ASSUME NEW T \in SUBSET S, NEW x \in S \ T, T \in Held PROVE T \cup {x} \in Held
    <2>1. IsFiniteSet(T) /\ T \subseteq S
      BY FS_Subset
    <2>2. \A y \in S : k[y] \in Int
      OBVIOUS
    <2>3. s(f, T) \in Int /\ s(g, T) \in Int /\ s(h, T) \in Int
      BY <2>1, SumType
    <2>4. /\ s(k, T \cup {x}) = k[x] + s(k, T) /\ s(f, T \cup {x}) = f[x] + s(f, T)
          /\ s(g, T \cup {x}) = g[x] + s(g, T) /\ s(h, T \cup {x}) = h[x] + s(h, T)
      <3>1. ASSUME NEW e, \A y \in S : e[y] \in Int PROVE s(e, T \cup {x}) = e[x] + s(e, T)
        BY <2>1, <3>1, SumAdds
      <3> HIDE DEF s
      <3> QED BY <3>1, <2>2
    <2>5. Holds(T)
      BY <1>1, <1>3
    <2>6. PICK F, G, H, p, q, r : /\ F = s(f, T) /\ G = s(g, T) /\ H = s(h, T)
                                  /\ p = f[x] /\ q = g[x] /\ r = h[x]
      OBVIOUS
    <2>7. /\ a * (p + F) = a * p + a * F /\ b * (q + G) = b * q + b * G /\ c * (r + H) = c * r + c * H
          /\ {a * p, a * F, b * q, b * G, c * r, c * H} \subseteq Int
      BY <2>3, <2>6
    <2>8. Holds(T \cup {x})
      <3>1. k[x] = a * p + b * q + c * r
        BY <2>6
      <3>2. s(k, T) = a * F + b * G + c * H
        BY <2>5, <2>6
      <3> HIDE DEF s
      <3>3. s(k, T \cup {x}) = (a * p + b * q + c * r) + (a * F + b * G + c * H)
        BY <2>4, <3>1, <3>2
      <3>4. s(k, T \cup {x}) = a * (p + F) + b * (q + G) + c * (r + H)
        BY <3>3, <2>7
      <3> QED BY <3>4, <2>4, <2>6
    <2>9. T \cup {x} \in SUBSET S
      OBVIOUS
    <2> HIDE DEF Holds
    <2> QED BY <1>1, <2>8, <2>9
  <1>4. S \in Held
    BY <1>2, <1>3, Induct
  <1> QED BY <1>1, <1>4

LEMMA SumMonotone ==
  ASSUME NEW S, IsFiniteSet(S), NEW f, NEW g,
         \A x \in S : f[x] \in Int /\ g[x] \in Int /\ f[x] <= g[x]
  PROVE  SumFunctionOnSet(f, S) <= SumFunctionOnSet(g, S)
  <1> DEFINE s(e, T) == SumFunctionOnSet(e, T)
  <1>1. PICK Held : Held = {T \in SUBSET S : s(f, T) <= s(g, T)}
    OBVIOUS
  <1>2. {} \in Held
    <2>1. s(f, {}) = 0 /\ s(g, {}) = 0
      BY SumEmpty
    <2> QED BY <1>1, <2>1
  <1>3. ASSUME NEW T \in SUBSET S, NEW x \in S \ T, T \in Held PROVE T \cup {x} \in Held
    <2>1. IsFiniteSet(T)
      BY FS_Subset
    <2>2. s(f, T) \in Int /\ s(g, T) \in Int
      BY <2>1, SumType
    <2>3. s(f, T \cup {x}) = f[x] + s(f, T)
      BY <2>1, SumAdds
    <2>4. s(g, T \cup {x}) = g[x] + s(g, T)
      BY <2>1, SumAdds
    <2>5. s(f, T) <= s(g, T)
      BY <1>1, <1>3
    <2>6. s(f, T \cup {x}) <= s(g, T \cup {x})
      <3> HIDE DEF s
      <3> QED BY <2>2, <2>3, <2>4, <2>5
    <2> QED BY <1>1, <2>6
  <1>4. S \in Held
    BY <1>2, <1>3, Induct
  <1> QED BY <1>1, <1>4

LEMMA SumAgrees ==
  ASSUME NEW S, IsFiniteSet(S), NEW f, NEW g, \A x \in S : f[x] \in Int /\ g[x] = f[x]
  PROVE  SumFunctionOnSet(f, S) = SumFunctionOnSet(g, S)
  <1>1. SumFunctionOnSet(f, S) <= SumFunctionOnSet(g, S) /\ SumFunctionOnSet(g, S) <= SumFunctionOnSet(f, S)
    BY SumMonotone
  <1>2. SumFunctionOnSet(f, S) \in Int /\ SumFunctionOnSet(g, S) \in Int
    BY SumType
  <1> QED BY <1>1, <1>2

(* What is nothing outside a part sums up to the sum over that part. *)
LEMMA SumOfPart ==
  ASSUME NEW S, IsFiniteSet(S), NEW U \in SUBSET S, NEW f, NEW g,
         \A x \in S : f[x] \in Int /\ g[x] = IF x \in U THEN f[x] ELSE 0
  PROVE  SumFunctionOnSet(g, S) = SumFunctionOnSet(f, U)
  <1> DEFINE s(e, T) == SumFunctionOnSet(e, T)
  <1>1. PICK Held : Held = {T \in SUBSET S : s(g, T) = s(f, T \cap U)}
    OBVIOUS
  <1>2. {} \in Held
    <2>1. {} \cap U = {} /\ s(g, {}) = 0 /\ s(f, {}) = 0
      BY SumEmpty
    <2> HIDE DEF s
    <2> QED BY <1>1, <2>1
  <1>3. ASSUME NEW T \in SUBSET S, NEW x \in S \ T, T \in Held PROVE T \cup {x} \in Held
    <2>1. PICK V : V = T \cap U
      OBVIOUS
    <2>2. IsFiniteSet(T) /\ IsFiniteSet(V) /\ V \subseteq S /\ x \notin V /\ T \cup {x} \in SUBSET S
      BY <2>1, FS_Subset
    <2>3. s(g, T) = s(f, V) /\ s(f, V) \in Int
      BY <1>1, <1>3, <2>1, <2>2, SumType
    <2>4. s(g, T \cup {x}) = g[x] + s(g, T)
      <3>1. g[x] \in Int /\ \A y \in T : g[y] \in Int
        OBVIOUS
      <3> QED BY <2>2, <3>1, SumAdds
    <2>5. CASE x \in U
      <3>0. f[x] \in Int /\ \A y \in V : f[y] \in Int
        BY <2>2
      <3>1. s(f, V \cup {x}) = f[x] + s(f, V)
        BY <2>2, <3>0, SumAdds
      <3>2. (T \cup {x}) \cap U = V \cup {x} /\ g[x] = f[x]
        BY <2>1, <2>5
      <3> HIDE DEF s
      <3> QED BY <1>1, <2>2, <2>3, <2>4, <3>1, <3>2
    <2>6. CASE x \notin U
      <3>1. (T \cup {x}) \cap U = V /\ g[x] = 0
        BY <2>1, <2>6
      <3> HIDE DEF s
      <3>2. PICK n \in Int : n = s(f, V)
        BY <2>3
      <3>3. s(g, T \cup {x}) = 0 + n
        BY <2>3, <2>4, <3>1, <3>2
      <3>4. s(g, T \cup {x}) = n
        BY <3>2, <3>3
      <3>5. s(g, T \cup {x}) = s(f, (T \cup {x}) \cap U)
        BY <3>1, <3>2, <3>4, Zenon
      <3> QED BY <1>1, <2>2, <3>5
    <2> QED BY <2>5, <2>6
  <1>4. S \in Held
    BY <1>2, <1>3, Induct
  <1>5. S \cap U = U
    OBVIOUS
  <1> HIDE DEF s
  <1>6. s(g, S) = s(f, U)
    BY <1>1, <1>4, <1>5
  <1> QED BY <1>6 DEF s

LEMMA SumIsNat ==
  ASSUME NEW S, IsFiniteSet(S), NEW f, \A x \in S : f[x] \in Nat
  PROVE  SumFunctionOnSet(f, S) \in Nat
  <1>1. PICK none : none = [x \in S |-> 0]
    OBVIOUS
  <1>2. SumFunctionOnSet(none, S) = 0 * SumFunctionOnSet(none, S) + 0 * SumFunctionOnSet(none, S)
                                      + 0 * SumFunctionOnSet(none, S)
    BY <1>1, SumLinear
  <1>3. SumFunctionOnSet(none, S) \in Int /\ SumFunctionOnSet(f, S) \in Int
    BY <1>1, SumType
  <1>4. SumFunctionOnSet(none, S) <= SumFunctionOnSet(f, S)
    BY <1>1, SumMonotone
  <1> QED BY <1>2, <1>3, <1>4

-----------------------------------------------------------------------------
(* Money in whole quanta. *)
LEMMA Division ==
  ASSUME NEW n \in Int, NEW q \in Nat \ {0}
  PROVE  n \div q \in Int /\ q * (n \div q) <= n /\ n < q * (n \div q) + q
  OBVIOUS

LEMMA Multiples ==
  ASSUME NEW a \in Int, NEW b \in Int, NEW q \in Nat \ {0}
  PROVE  /\ a <= b => q * a <= q * b
         /\ q * a < q * b => a < b
  OBVIOUS

(* A whole number of quanta that covers a sum and no more. *)
LEMMA CeilCovers ==
  ASSUME NEW n \in Nat, NEW q \in Nat \ {0}
  PROVE  /\ ceil_div(n, q) \in Nat /\ n <= q * ceil_div(n, q)
         /\ \A k \in Nat : n <= q * k => ceil_div(n, q) <= k
  <1>1. PICK c : c = (n + q - 1) \div q
    OBVIOUS
  <1>2. c \in Int /\ q * c <= n + q - 1 /\ n + q - 1 < q * c + q
    BY <1>1, Division
  <1>3. n <= q * c
    <2>1. q * c \in Int
      BY <1>2
    <2> QED BY <1>2, <2>1
  <1>4. c >= 0
    <2>1. CASE c < 0
      <3>1. q * c <= q * (-1)
        BY <1>2, <2>1, Multiples
      <3> QED BY <1>2, <1>3, <3>1
    <2> QED BY <1>2, <2>1
  <1>5. ASSUME NEW k \in Nat, n <= q * k PROVE c <= k
    <2>1. q * c < q * (k + 1)
      <3>1. q * (k + 1) = q * k + q /\ q * k \in Int /\ q * c \in Int
        BY <1>2
      <3> QED BY <1>2, <1>5, <3>1
    <2>2. c < k + 1
      BY <1>2, <2>1, Multiples
    <2> QED BY <1>2, <2>2
  <1> QED BY <1>1, <1>2, <1>3, <1>4, <1>5 DEF ceil_div

LEMMA CeilGrows ==
  ASSUME NEW m \in Nat, NEW n \in Nat, m <= n, NEW q \in Nat \ {0}
  PROVE  ceil_div(m, q) <= ceil_div(n, q)
  <1>1. PICK c \in Nat : c = ceil_div(n, q) /\ n <= q * c
    BY CeilCovers
  <1>2. q * c \in Int /\ m <= q * c
    BY <1>1
  <1> QED BY <1>1, <1>2, CeilCovers

LEMMA TextTokens ==
  ASSUME NEW bytes \in Nat, NEW per_token \in Nat \ {0}
  PROVE  /\ estimate_text_tokens(bytes, per_token) \in Nat
         /\ bytes <= estimate_text_tokens(bytes, 1)
  <1>1. ASSUME NEW n \in Nat PROVE Max({1, n}) \in Nat /\ n <= Max({1, n})
    <2>1. \E m \in {1, n} : \A y \in {1, n} : m >= y
      BY <1>1
    <2>2. Max({1, n}) \in {1, n} /\ \A y \in {1, n} : Max({1, n}) >= y
      BY <2>1 DEF Max
    <2> QED BY <1>1, <2>2
  <1>2. ceil_div(bytes, per_token) \in Nat
    BY CeilCovers
  <1>3. ceil_div(bytes, 1) \in Nat /\ bytes <= ceil_div(bytes, 1)
    <2>1. bytes <= 1 * ceil_div(bytes, 1) /\ ceil_div(bytes, 1) \in Nat
      BY CeilCovers
    <2> QED BY <2>1
  <1>4. Max({1, ceil_div(bytes, per_token)}) \in Nat
    BY <1>1, <1>2
  <1>5. Max({1, ceil_div(bytes, 1)}) \in Nat /\ ceil_div(bytes, 1) <= Max({1, ceil_div(bytes, 1)})
    BY <1>1, <1>3
  <1> QED BY <1>3, <1>4, <1>5 DEF estimate_text_tokens

(* What the provider counts of a request. *)
UsageIsCounted(u) == {u.input, u.cached, u.output} \subseteq Nat /\ u.cached <= u.input

LEMMA Products ==
  ASSUME NEW a \in Nat, NEW b \in Nat, NEW c \in Nat
  PROVE  a * b \in Nat /\ (a <= c => a * b <= c * b)
  OBVIOUS

LEMMA PricesAreCounts ==
  /\ InPrice \in Nat /\ CachedPrice \in Nat /\ OutPrice \in Nat
  /\ PromptBytes \in Nat /\ ControlBytes \in Nat /\ RetryBytes \in Nat
  /\ Framing \in Nat /\ AuthorizationFraming \in Nat
  /\ Quantum \in Nat \ {0} /\ BytesPerToken \in Nat \ {0} /\ MaxOutput \in Nat
  /\ Retries \in {0, 1}
  BY PaidCallsAssumption DEF PaidCallsAssumption

LEMMA NumeratorIsCount ==
  ASSUME NEW u, UsageIsCounted(u)
  PROVE  numerator(u) \in Nat
  <1>1. PICK a, b, c \in Nat : a = u.input - u.cached /\ b = u.cached /\ c = u.output
    BY DEF UsageIsCounted
  <1>2. a * InPrice \in Nat /\ b * CachedPrice \in Nat /\ c * OutPrice \in Nat
    BY Products, PricesAreCounts
  <1> QED BY <1>1, <1>2 DEF numerator

LEMMA UsageCovers ==
  ASSUME NEW u, UsageIsCounted(u)
  PROVE  usage_cost(u) \in Nat /\ numerator(u) <= Quantum * usage_cost(u)
  BY NumeratorIsCount, CeilCovers, PricesAreCounts DEF usage_cost
LEMMA RunCostIsCount ==
  ASSUME NEW observation \in Nat, NEW turns \in Nat, NEW attempts \in {1, 2},
         NEW per_token \in Nat \ {0}, NEW framing \in Nat
  PROVE  estimate_run_cost(observation, turns, attempts, per_token, framing) \in Nat
  <1>1. request_tokens(observation, per_token, framing) \in Nat
    BY TextTokens, PricesAreCounts DEF request_tokens
  <1>2. retry_tokens(attempts) \in Nat
    BY TextTokens, PricesAreCounts DEF retry_tokens
  <1>3. PICK u : u = [input  |-> turns * (attempts * request_tokens(observation, per_token, framing)
                                    + retry_tokens(attempts)),
                      cached |-> 0, output |-> turns * attempts * MaxOutput]
    OBVIOUS
  <1>4. u.input \in Nat /\ u.cached = 0 /\ u.output \in Nat
    <2>1. attempts * request_tokens(observation, per_token, framing) \in Nat
      BY <1>1, Products
    <2>2. attempts * request_tokens(observation, per_token, framing) + retry_tokens(attempts) \in Nat
      BY <1>2, <2>1
    <2>3. turns * attempts \in Nat
      BY Products
    <2> QED BY <1>3, <2>2, <2>3, Products, PricesAreCounts
  <1>5. UsageIsCounted(u)
    BY <1>4 DEF UsageIsCounted
  <1> QED BY <1>3, <1>5, UsageCovers DEF estimate_run_cost

-----------------------------------------------------------------------------
(* What a reply, and then a turn, may have cost. *)
ReplyHolds(a, observation, attempt) ==
  /\ UsageIsCounted(a.usage) /\ a.billed \in Nat
  /\ a.kind \in {"action", "invalid", "missed"}
  /\ a.told => a.kind # "missed" /\ a.billed = numerator(a.usage)
  /\ a.kind = "missed" => a.billed <= numerator(full_usage(observation, attempt))

LEMMA RepliesHold ==
  ASSUME NEW observation \in Nat, NEW attempt \in {1, 2}, NEW kinds \in SUBSET AnswerKinds,
         NEW a \in Answers(kinds, observation, attempt)
  PROVE  ReplyHolds(a, observation, attempt)
  <1>1. PICK full, least : full = full_usage(observation, attempt) /\ least = least_usage(observation)
    OBVIOUS
  <1>2. UsageIsCounted(full)
    BY <1>1, PricesAreCounts DEF full_usage, UsageIsCounted
  <1>3. UsageIsCounted(least)
    <2>1. request_tokens(observation, BytesPerToken, 0) \in Nat
      BY TextTokens, PricesAreCounts DEF request_tokens
    <2> QED BY <1>1, <2>1 DEF least_usage, UsageIsCounted
  <1>4. UsageIsCounted(no_usage)
    BY DEF no_usage, UsageIsCounted
  <1>5. numerator(full) \in Nat /\ numerator(least) \in Nat /\ numerator(no_usage) \in Nat
    BY <1>2, <1>3, <1>4, NumeratorIsCount
  <1>6. a \in {Reply("action", full, TRUE), Reply("action", least, TRUE), Reply("action", full, FALSE),
                Reply("invalid", least, TRUE), Miss(0), Miss(numerator(full))}
    <2>1. PICK r1, r2, r3, r4, r5, r6 :
            /\ r1 = Reply("action", full, TRUE) /\ r2 = Reply("action", least, TRUE)
            /\ r3 = Reply("action", full, FALSE) /\ r4 = Reply("invalid", least, TRUE)
            /\ r5 = Miss(0) /\ r6 = Miss(numerator(full))
      OBVIOUS
    <2>2. PICK kind \in kinds :
            a = [full |-> r1, least |-> r2, untold |-> r3, invalid |-> r4, lost |-> r5, late |-> r6][kind]
      BY <1>1, <2>1 DEF Answers
    <2>3. kind \in {"full", "least", "untold", "invalid", "lost", "late"}
      BY DEF AnswerKinds
    <2>4. a \in {r1, r2, r3, r4, r5, r6}
      BY <2>2, <2>3
    <2> QED BY <2>1, <2>4
  <1>7. ASSUME NEW of \in {"action", "invalid"}, NEW u \in {full, least}, NEW told \in BOOLEAN,
               a = Reply(of, u, told)
        PROVE  ReplyHolds(a, observation, attempt)
    BY <1>2, <1>3, <1>4, <1>5, <1>7 DEF Reply, ReplyHolds
  <1>8. ASSUME NEW n \in {0, numerator(full)}, a = Miss(n)
        PROVE  ReplyHolds(a, observation, attempt)
    BY <1>1, <1>4, <1>5, <1>8 DEF Miss, ReplyHolds
  <1> QED BY <1>6, <1>7, <1>8

stored_total(t, field) == SumOver(LAMBDA a : a.usage[field], t.stored)
stored_usage(t) == [input |-> stored_total(t, "input"), cached |-> stored_total(t, "cached"),
                    output |-> stored_total(t, "output")]
turn_reserve(t) == IF t.status = "missed" THEN unpriced_attempt(t) ELSE 0

(* A turn that can be priced was billed for what is stored of it, and at   *)
(* most for a whole request more if the last one was missed.               *)
TurnHolds(t) ==
  /\ UsageIsCounted(stored_usage(t)) /\ t.billed \in Nat /\ turn_reserve(t) \in Nat
  /\ priced(t) =>
       /\ numerator(stored_usage(t)) <= t.billed
       /\ t.billed <= numerator(stored_usage(t)) + Quantum * turn_reserve(t)

LEMMA SumOfOne ==
  ASSUME NEW f, f[1] \in Int
  PROVE  SumFunctionOnSet(f, 1..1) = f[1]
  <1>1. PICK S : S = {1}
    OBVIOUS
  <1>2. IsFiniteSet({}) /\ {} \cup {1} = S /\ 1..1 = S
    BY <1>1, FS_EmptySet
  <1>3. SumFunctionOnSet(f, S) = f[1] + SumFunctionOnSet(f, {})
    BY <1>2, SumAdds
  <1>4. SumFunctionOnSet(f, {}) = 0
    BY SumEmpty
  <1> QED BY <1>2, <1>3, <1>4

LEMMA SumOfTwo ==
  ASSUME NEW f, f[1] \in Int, f[2] \in Int
  PROVE  SumFunctionOnSet(f, 1..2) = f[1] + f[2]
  <1>1. PICK S, T : S = 1..1 /\ T = 1..2
    OBVIOUS
  <1>2. IsFiniteSet(S) /\ 2 \notin S /\ S \cup {2} = T /\ \A y \in S : f[y] \in Int
    <2>1. S = {1} /\ T = {1, 2}
      BY <1>1
    <2>2. IsFiniteSet(S)
      BY <2>1, FS_Singleton
    <2> QED BY <2>1, <2>2
  <1>3. SumFunctionOnSet(f, T) = f[2] + SumFunctionOnSet(f, S)
    BY <1>2, SumAdds
  <1>4. SumFunctionOnSet(f, S) = f[1]
    BY <1>1, SumOfOne
  <1> QED BY <1>1, <1>3, <1>4

(* A request that was missed is reserved for in full. *)
LEMMA MissIsCovered ==
  ASSUME NEW observation \in Nat, NEW attempt \in {1, 2}, NEW t,
         t.observation = observation, t.attempts = attempt
  PROVE  /\ unpriced_attempt(t) \in Nat
         /\ numerator(full_usage(observation, attempt)) <= Quantum * unpriced_attempt(t)
  <1>1. PICK full, all :
          /\ full = full_usage(observation, attempt)
          /\ all = [input |-> request_tokens(observation, 1, AuthorizationFraming) + retry_tokens(attempt),
                    cached |-> 0, output |-> MaxOutput]
    OBVIOUS
  <1>2. /\ full.input \in Nat /\ all.input \in Nat /\ full.input <= all.input
        /\ full.cached = 0 /\ all.cached = 0 /\ full.output = MaxOutput /\ all.output = MaxOutput
    <2>1. /\ estimate_text_tokens(PromptBytes, 1) \in Nat /\ PromptBytes <= estimate_text_tokens(PromptBytes, 1)
          /\ estimate_text_tokens(observation, 1) \in Nat /\ observation <= estimate_text_tokens(observation, 1)
          /\ estimate_text_tokens(ControlBytes, 1) \in Nat /\ ControlBytes <= estimate_text_tokens(ControlBytes, 1)
          /\ estimate_text_tokens(RetryBytes, 1) \in Nat /\ RetryBytes <= estimate_text_tokens(RetryBytes, 1)
      BY TextTokens, PricesAreCounts
    <2> QED BY <1>1, <2>1, PricesAreCounts DEF full_usage, request_tokens, retry_tokens
  <1>3. /\ numerator(full) = full.input * InPrice + 0 + MaxOutput * OutPrice
        /\ numerator(all) = all.input * InPrice + 0 + MaxOutput * OutPrice
    <2>1. 0 * CachedPrice = 0
      BY PricesAreCounts
    <2> QED BY <1>2, <2>1 DEF numerator
  <1>4. full.input * InPrice \in Nat /\ all.input * InPrice \in Nat /\ MaxOutput * OutPrice \in Nat
        /\ full.input * InPrice <= all.input * InPrice
    BY <1>2, Products, PricesAreCounts
  <1>5. numerator(full) \in Nat /\ numerator(full) <= numerator(all)
    BY <1>3, <1>4
  <1>6. UsageIsCounted(all)
    BY <1>2, PricesAreCounts DEF UsageIsCounted
  <1>7. unpriced_attempt(t) = usage_cost(all)
    BY <1>1 DEF unpriced_attempt
  <1>8. PICK c \in Nat : c = usage_cost(all) /\ numerator(all) <= Quantum * c
    BY <1>6, UsageCovers
  <1>9. Quantum * c \in Nat /\ numerator(all) \in Nat
    BY <1>6, Products, PricesAreCounts, NumeratorIsCount
  <1>10. numerator(full) <= Quantum * c
    BY <1>5, <1>8, <1>9
  <1> QED BY <1>1, <1>7, <1>8, <1>10

LEMMA StoredNone ==
  ASSUME NEW t, t.stored = <<>>
  PROVE  UsageIsCounted(stored_usage(t)) /\ numerator(stored_usage(t)) = 0
  <1>1. ASSUME NEW field PROVE stored_total(t, field) = 0
    <2>1. DOMAIN t.stored = {}
      OBVIOUS
    <2>2. PICK f : f = [k \in DOMAIN t.stored |-> t.stored[k].usage[field]]
      OBVIOUS
    <2>3. SumFunctionOnSet(f, {}) = 0
      BY SumEmpty
    <2> QED BY <2>1, <2>2, <2>3 DEF stored_total, SumOver
  <1>2. /\ stored_usage(t).input = 0 /\ stored_usage(t).cached = 0 /\ stored_usage(t).output = 0
    BY <1>1 DEF stored_usage
  <1>3. 0 * InPrice = 0 /\ 0 * CachedPrice = 0 /\ 0 * OutPrice = 0
    BY PricesAreCounts
  <1> QED BY <1>2, <1>3 DEF UsageIsCounted, numerator

LEMMA StoredOne ==
  ASSUME NEW t, NEW a, t.stored = <<a>>, UsageIsCounted(a.usage)
  PROVE  UsageIsCounted(stored_usage(t)) /\ numerator(stored_usage(t)) = numerator(a.usage)
  <1>1. ASSUME NEW field \in {"input", "cached", "output"}
        PROVE  stored_total(t, field) = a.usage[field] /\ a.usage[field] \in Nat
    <2>1. DOMAIN t.stored = 1..1 /\ t.stored[1] = a
      OBVIOUS
    <2>2. PICK f : f = [k \in DOMAIN t.stored |-> t.stored[k].usage[field]]
      OBVIOUS
    <2>3. f[1] = a.usage[field] /\ f[1] \in Nat
      BY <2>1, <2>2 DEF UsageIsCounted
    <2>4. SumFunctionOnSet(f, 1..1) = f[1]
      BY <2>3, SumOfOne
    <2> QED BY <2>1, <2>2, <2>3, <2>4 DEF stored_total, SumOver
  <1>2. /\ stored_usage(t).input = a.usage.input /\ stored_usage(t).cached = a.usage.cached
        /\ stored_usage(t).output = a.usage.output
    BY <1>1 DEF stored_usage
  <1> QED BY <1>2 DEF UsageIsCounted, numerator

LEMMA StoredTwo ==
  ASSUME NEW t, NEW a, NEW b, t.stored = <<a, b>>, UsageIsCounted(a.usage), UsageIsCounted(b.usage)
  PROVE  /\ UsageIsCounted(stored_usage(t))
         /\ numerator(stored_usage(t)) = numerator(a.usage) + numerator(b.usage)
  <1>1. ASSUME NEW field \in {"input", "cached", "output"}
        PROVE  stored_total(t, field) = a.usage[field] + b.usage[field]
    <2>1. DOMAIN t.stored = 1..2 /\ t.stored[1] = a /\ t.stored[2] = b
      OBVIOUS
    <2>2. PICK f : f = [k \in DOMAIN t.stored |-> t.stored[k].usage[field]]
      OBVIOUS
    <2>3. f[1] = a.usage[field] /\ f[1] \in Nat /\ f[2] = b.usage[field] /\ f[2] \in Nat
      BY <2>1, <2>2 DEF UsageIsCounted
    <2>4. SumFunctionOnSet(f, 1..2) = f[1] + f[2]
      BY <2>3, SumOfTwo
    <2> QED BY <2>1, <2>2, <2>3, <2>4 DEF stored_total, SumOver
  <1>2. /\ stored_usage(t).input = a.usage.input + b.usage.input
        /\ stored_usage(t).cached = a.usage.cached + b.usage.cached
        /\ stored_usage(t).output = a.usage.output + b.usage.output
    BY <1>1 DEF stored_usage
  <1>3. PICK p, q, r, x, y, z \in Nat :
          /\ p = a.usage.input - a.usage.cached /\ q = a.usage.cached /\ r = a.usage.output
          /\ x = b.usage.input - b.usage.cached /\ y = b.usage.cached /\ z = b.usage.output
    <2>1. ASSUME NEW u, UsageIsCounted(u)
          PROVE  u.input - u.cached \in Nat /\ u.cached \in Nat /\ u.output \in Nat
      BY <2>1 DEF UsageIsCounted
    <2> QED BY <2>1
  <1>4. /\ (p + x) * InPrice = p * InPrice + x * InPrice /\ {p * InPrice, x * InPrice} \subseteq Nat
        /\ (q + y) * CachedPrice = q * CachedPrice + y * CachedPrice /\ {q * CachedPrice, y * CachedPrice} \subseteq Nat
        /\ (r + z) * OutPrice = r * OutPrice + z * OutPrice /\ {r * OutPrice, z * OutPrice} \subseteq Nat
    BY PricesAreCounts
  <1>5. /\ numerator(a.usage) = p * InPrice + q * CachedPrice + r * OutPrice
        /\ numerator(b.usage) = x * InPrice + y * CachedPrice + z * OutPrice
    BY <1>3 DEF numerator
  <1>6. stored_usage(t).input - stored_usage(t).cached = p + x
    <2>1. a.usage.input \in Nat /\ b.usage.input \in Nat
      BY DEF UsageIsCounted
    <2>2. PICK m, n \in Nat : m = a.usage.input /\ n = b.usage.input
      BY <2>1
    <2>3. p = m - q /\ x = n - y /\ (m + n) - (q + y) = p + x
      BY <1>3, <2>2
    <2> QED BY <1>2, <1>3, <2>2, <2>3
  <1>7. numerator(stored_usage(t)) = (p + x) * InPrice + (q + y) * CachedPrice + (r + z) * OutPrice
    BY <1>2, <1>3, <1>6 DEF numerator
  <1>8. numerator(stored_usage(t)) = numerator(a.usage) + numerator(b.usage)
    BY <1>4, <1>5, <1>7
  <1> QED BY <1>2, <1>8 DEF UsageIsCounted

(* A turn of one request, and of one that was asked again. *)
LEMMA OneReplyHolds ==
  ASSUME NEW observation \in Nat, NEW a, ReplyHolds(a, observation, 1)
  PROVE  TurnHolds(TurnOf(observation, <<a>>))
  <1>1. PICK t : t = TurnOf(observation, <<a>>)
    OBVIOUS
  <1>2. /\ t.observation = observation /\ t.attempts = 1
        /\ t.stored = IF a.kind = "missed" THEN <<>> ELSE <<a>>
        /\ t.status = CASE a.kind = "action" -> "parsed" [] a.kind = "missed" -> "missed"
                         [] a.kind = "invalid" -> "rejected"
        /\ t.billed = SumOver(LAMBDA r : r.billed, <<a>>)
    <2>1. Last(<<a>>) = a /\ Front(<<a>>) = <<>> /\ Len(<<a>>) = 1
      BY DEF Last, Front
    <2> QED BY <1>1, <2>1 DEF TurnOf
  <1>3. t.billed = a.billed /\ a.billed \in Nat
    <2>0. PICK s : s = <<a>>
      OBVIOUS
    <2>1. s = <<a>> /\ DOMAIN s = 1..1 /\ s[1] = a
      BY <2>0
    <2>2. PICK f : f = [k \in DOMAIN s |-> s[k].billed]
      OBVIOUS
    <2>3. f[1] = a.billed /\ f[1] \in Nat
      BY <2>1, <2>2 DEF ReplyHolds
    <2>4. SumFunctionOnSet(f, 1..1) = f[1]
      BY <2>3, SumOfOne
    <2>5. t.billed = SumFunctionOnSet(f, 1..1)
      BY <1>2, <2>1, <2>2 DEF SumOver
    <2> QED BY <2>3, <2>4, <2>5
  <1>4. CASE a.kind = "missed"
    <2>1. UsageIsCounted(stored_usage(t)) /\ numerator(stored_usage(t)) = 0
      BY <1>2, <1>4, StoredNone
    <2>2. turn_reserve(t) = unpriced_attempt(t)
      BY <1>2, <1>4 DEF turn_reserve
    <2>3. /\ turn_reserve(t) \in Nat
          /\ numerator(full_usage(observation, 1)) <= Quantum * turn_reserve(t)
      BY <1>2, <2>2, MissIsCovered
    <2>4. a.billed <= numerator(full_usage(observation, 1))
      BY <1>4 DEF ReplyHolds
    <2>5. numerator(full_usage(observation, 1)) \in Nat
      BY NumeratorIsCount, PricesAreCounts DEF full_usage, UsageIsCounted
    <2>6. Quantum * turn_reserve(t) \in Nat
      BY <2>3, Products, PricesAreCounts
    <2>7. t.billed <= 0 + Quantum * turn_reserve(t)
      BY <1>3, <2>3, <2>4, <2>5, <2>6
    <2> QED BY <1>1, <1>3, <2>1, <2>3, <2>7 DEF TurnHolds
  <1>5. CASE a.kind # "missed"
    <2>1. t.stored = <<a>> /\ t.status # "missed"
      BY <1>2, <1>5 DEF ReplyHolds
    <2>2. UsageIsCounted(stored_usage(t)) /\ numerator(stored_usage(t)) = numerator(a.usage)
      BY <2>1, StoredOne DEF ReplyHolds
    <2>3. turn_reserve(t) = 0
      BY <2>1 DEF turn_reserve
    <2>4. priced(t) => a.told
      BY <2>1 DEF priced
    <2>5. Quantum * 0 = 0
      BY PricesAreCounts
    <2> QED BY <1>1, <1>3, <2>2, <2>3, <2>4, <2>5 DEF TurnHolds, ReplyHolds
  <1> QED BY <1>4, <1>5

LEMMA TwoRepliesHold ==
  ASSUME NEW observation \in Nat, NEW a, NEW b, a.kind = "invalid",
         ReplyHolds(a, observation, 1), ReplyHolds(b, observation, 2)
  PROVE  TurnHolds(TurnOf(observation, <<a, b>>))
  <1>1. PICK t : t = TurnOf(observation, <<a, b>>)
    OBVIOUS
  <1>2. /\ t.observation = observation /\ t.attempts = 2
        /\ t.stored = IF b.kind = "missed" THEN <<a>> ELSE <<a, b>>
        /\ t.status = CASE b.kind = "action" -> "parsed" [] b.kind = "missed" -> "missed"
                         [] b.kind = "invalid" -> "rejected"
        /\ t.billed = SumOver(LAMBDA r : r.billed, <<a, b>>)
    <2>1. Last(<<a, b>>) = b /\ Len(<<a, b>>) = 2
      BY DEF Last
    <2>2. Front(<<a, b>>) = <<a>>
      <3>1. PICK s : s = <<a, b>>
        OBVIOUS
      <3>2. s \in Seq({a, b}) /\ Len(s) = 2 /\ s[1] = a
        BY <3>1
      <3>3. SubSeq(s, 1, 1) \in Seq({a, b}) /\ Len(SubSeq(s, 1, 1)) = 1 /\ SubSeq(s, 1, 1)[1] = a
        BY <3>2
      <3>4. SubSeq(s, 1, 1) = <<a>>
        <4>1. PICK u, v : u = SubSeq(s, 1, 1) /\ v = <<a>>
          OBVIOUS
        <4>2. v \in Seq({a, b}) /\ Len(v) = 1 /\ v[1] = a
          BY <4>1
        <4>3. u \in Seq({a, b}) /\ Len(u) = 1 /\ \A k \in 1..Len(u) : u[k] = v[k]
          BY <3>3, <4>1, <4>2
        <4> QED BY <4>1, <4>2, <4>3, SeqEqual
      <3> QED BY <3>1, <3>2, <3>4 DEF Front
    <2> QED BY <1>1, <2>1, <2>2 DEF TurnOf
  <1>3. t.billed = a.billed + b.billed /\ a.billed \in Nat /\ b.billed \in Nat
    <2>0. PICK s : s = <<a, b>>
      OBVIOUS
    <2>1. s = <<a, b>> /\ DOMAIN s = 1..2 /\ s[1] = a /\ s[2] = b
      BY <2>0
    <2>2. PICK f : f = [k \in DOMAIN s |-> s[k].billed]
      OBVIOUS
    <2>3. f[1] = a.billed /\ f[1] \in Nat /\ f[2] = b.billed /\ f[2] \in Nat
      BY <2>1, <2>2 DEF ReplyHolds
    <2>4. SumFunctionOnSet(f, 1..2) = f[1] + f[2]
      BY <2>3, SumOfTwo
    <2>5. t.billed = SumFunctionOnSet(f, 1..2)
      BY <1>2, <2>1, <2>2 DEF SumOver
    <2> QED BY <2>3, <2>4, <2>5
  <1>4. numerator(a.usage) \in Nat /\ numerator(b.usage) \in Nat
    BY NumeratorIsCount DEF ReplyHolds
  <1>5. CASE b.kind = "missed"
    <2>1. UsageIsCounted(stored_usage(t)) /\ numerator(stored_usage(t)) = numerator(a.usage)
      BY <1>2, <1>5, StoredOne DEF ReplyHolds
    <2>2. turn_reserve(t) = unpriced_attempt(t)
      BY <1>2, <1>5 DEF turn_reserve
    <2>3. /\ turn_reserve(t) \in Nat
          /\ numerator(full_usage(observation, 2)) <= Quantum * turn_reserve(t)
      BY <1>2, <2>2, MissIsCovered
    <2>4. b.billed <= numerator(full_usage(observation, 2))
      BY <1>5 DEF ReplyHolds
    <2>5. numerator(full_usage(observation, 2)) \in Nat
      BY NumeratorIsCount, PricesAreCounts DEF full_usage, UsageIsCounted
    <2>6. Quantum * turn_reserve(t) \in Nat
      BY <2>3, Products, PricesAreCounts
    <2>7. b.billed <= Quantum * turn_reserve(t)
      BY <1>3, <2>3, <2>4, <2>5, <2>6
    <2>8. priced(t) => a.billed = numerator(a.usage)
      <3>1. t.stored = <<a>>
        BY <1>2, <1>5
      <3> QED BY <3>1 DEF priced, ReplyHolds
    <2> QED BY <1>1, <1>3, <1>4, <2>1, <2>3, <2>6, <2>7, <2>8 DEF TurnHolds
  <1>6. CASE b.kind # "missed"
    <2>1. t.stored = <<a, b>> /\ t.status # "missed"
      BY <1>2, <1>6 DEF ReplyHolds
    <2>2. /\ UsageIsCounted(stored_usage(t))
          /\ numerator(stored_usage(t)) = numerator(a.usage) + numerator(b.usage)
      BY <2>1, StoredTwo DEF ReplyHolds
    <2>3. turn_reserve(t) = 0
      BY <2>1 DEF turn_reserve
    <2>4. priced(t) => a.told /\ b.told
      <3>1. DOMAIN <<a, b>> = 1..2 /\ <<a, b>>[1] = a /\ <<a, b>>[2] = b
        OBVIOUS
      <3> QED BY <2>1, <3>1 DEF priced
    <2>5. Quantum * 0 = 0
      BY PricesAreCounts
    <2> QED BY <1>1, <1>3, <1>4, <2>2, <2>3, <2>4, <2>5 DEF TurnHolds, ReplyHolds
  <1> QED BY <1>5, <1>6

LEMMA TurnsHold ==
  ASSUME NEW observation \in Nat, NEW kinds \in SUBSET AnswerKinds
  PROVE  /\ \A turn \in Turns(kinds, observation) : TurnHolds(turn)
         /\ \A a \in Answers(kinds, observation, 1) : TurnHolds(TurnOf(observation, <<a>>))
  <1>1. ASSUME NEW a \in Answers(kinds, observation, 1)
        PROVE  ReplyHolds(a, observation, 1) /\ TurnHolds(TurnOf(observation, <<a>>))
    BY <1>1, RepliesHold, OneReplyHolds
  <1>2. ASSUME NEW a \in Answers(kinds, observation, 1), a.kind = "invalid",
               NEW b \in Answers(kinds, observation, 2)
        PROVE  TurnHolds(TurnOf(observation, <<a, b>>))
    BY <1>1, <1>2, RepliesHold, TwoRepliesHold
  <1>3. ASSUME NEW turn \in Turns(kinds, observation) PROVE TurnHolds(turn)
    <2>1. \/ \E a \in Answers(kinds, observation, 1) : turn = TurnOf(observation, <<a>>)
          \/ \E a \in Answers(kinds, observation, 1), b \in Answers(kinds, observation, 2) :
               a.kind = "invalid" /\ turn = TurnOf(observation, <<a, b>>)
      BY DEF Turns
    <2> QED BY <1>1, <1>2, <2>1
  <1> QED BY <1>1, <1>3

-----------------------------------------------------------------------------
(* The account of a run: from below and from above of what was billed.     *)
bill(turns) == SumOver(LAMBDA t : t.billed, turns)
TurnsAre(turns) ==
  Len(turns) \in Nat /\ DOMAIN turns = 1..Len(turns) /\ \A k \in DOMAIN turns : TurnHolds(turns[k])

LEMMA NumeratorIsLinear ==
  ASSUME NEW u, UsageIsCounted(u)
  PROVE  numerator(u) = InPrice * u.input + (CachedPrice - InPrice) * u.cached + OutPrice * u.output
  <1>1. PICK a, b, c \in Nat : a = u.input /\ b = u.cached /\ c = u.output
    BY DEF UsageIsCounted
  <1>2. PICK p, q, r \in Nat : p = InPrice /\ q = CachedPrice /\ r = OutPrice
    BY PricesAreCounts
  <1>3. (a - b) * p + b * q + c * r = p * a + (q - p) * b + r * c
    OBVIOUS
  <1> QED BY <1>1, <1>2, <1>3 DEF numerator

LEMMA AccountIsRight ==
  ASSUME NEW turns, TurnsAre(turns), usage_is_collected(turns)
  PROVE  /\ bill(turns) \in Nat
         /\ known_cost(turns) \in Nat /\ unpriced_cost_reserve(turns) \in Nat
         /\ accounting_cost_upper_bound(turns) \in Nat
         /\ bill(turns) <= Quantum * accounting_cost_upper_bound(turns)
         /\ known_cost(turns) <= ceil_div(bill(turns), Quantum)
         /\ ceil_div(bill(turns), Quantum) <= accounting_cost_upper_bound(turns)
  <1>1. PICK D : D = DOMAIN turns /\ IsFiniteSet(D)
    BY FS_Interval DEF TurnsAre
  <1>2. PICK b, r, n, x, y, z :
          /\ b = [k \in D |-> turns[k].billed]
          /\ r = [k \in D |-> turn_reserve(turns[k])]
          /\ n = [k \in D |-> numerator(stored_usage(turns[k]))]
          /\ x = [k \in D |-> stored_total(turns[k], "input")]
          /\ y = [k \in D |-> stored_total(turns[k], "cached")]
          /\ z = [k \in D |-> stored_total(turns[k], "output")]
    OBVIOUS
  <1>3. PICK B, R, N, X, Y, Z :
          /\ B = SumFunctionOnSet(b, D) /\ R = SumFunctionOnSet(r, D) /\ N = SumFunctionOnSet(n, D)
          /\ X = SumFunctionOnSet(x, D) /\ Y = SumFunctionOnSet(y, D) /\ Z = SumFunctionOnSet(z, D)
    OBVIOUS
  <1>4. bill(turns) = B
    BY <1>1, <1>2, <1>3 DEF bill, SumOver
  <1>5. unpriced_cost_reserve(turns) = R
    <2>1. r = [k \in D |-> IF turns[k].status = "missed" THEN unpriced_attempt(turns[k]) ELSE 0]
      BY <1>2 DEF turn_reserve
    <2> QED BY <1>1, <1>3, <2>1 DEF unpriced_cost_reserve, SumOver
  <1>6. collected(turns) = [input |-> X, cached |-> Y, output |-> Z]
    BY <1>1, <1>2, <1>3 DEF collected, stored_total, SumOver
  <1>7. ASSUME NEW k \in D
        PROVE  /\ x[k] \in Nat /\ y[k] \in Nat /\ z[k] \in Nat /\ y[k] <= x[k]
               /\ b[k] \in Nat /\ r[k] \in Nat /\ n[k] \in Nat
               /\ n[k] = InPrice * x[k] + (CachedPrice - InPrice) * y[k] + OutPrice * z[k]
               /\ n[k] <= b[k] /\ b[k] <= n[k] + Quantum * r[k]
    <2>1. TurnHolds(turns[k]) /\ priced(turns[k])
      BY <1>1 DEF TurnsAre, usage_is_collected
    <2>2. PICK u : u = stored_usage(turns[k])
      OBVIOUS
    <2>3. u.input = x[k] /\ u.cached = y[k] /\ u.output = z[k] /\ n[k] = numerator(u)
      BY <1>2, <2>2 DEF stored_usage
    <2>4. UsageIsCounted(u)
      BY <2>1, <2>2 DEF TurnHolds
    <2>5. numerator(u) \in Nat /\ numerator(u) = InPrice * u.input + (CachedPrice - InPrice) * u.cached + OutPrice * u.output
      BY <2>4, NumeratorIsCount, NumeratorIsLinear
    <2>6. b[k] = turns[k].billed /\ r[k] = turn_reserve(turns[k])
      BY <1>2
    <2>7. /\ b[k] \in Nat /\ r[k] \in Nat /\ numerator(u) <= b[k] /\ b[k] <= numerator(u) + Quantum * r[k]
      BY <2>1, <2>2, <2>6 DEF TurnHolds
    <2>8. u.input \in Nat /\ u.cached \in Nat /\ u.output \in Nat /\ u.cached <= u.input
      BY <2>4 DEF UsageIsCounted
    <2> QED BY <2>3, <2>5, <2>7, <2>8
  <1>8. B \in Nat /\ R \in Nat /\ N \in Nat /\ X \in Nat /\ Y \in Nat /\ Z \in Nat
    <2>1. ASSUME NEW f, \A k \in D : f[k] \in Nat PROVE SumFunctionOnSet(f, D) \in Nat
      BY <1>1, <2>1, SumIsNat
    <2> QED BY <1>3, <1>7, <2>1
  <1>9. PICK p, q, w \in Int : p = InPrice /\ q = CachedPrice - InPrice /\ w = OutPrice
    BY PricesAreCounts
  <1>10. N = p * X + q * Y + w * Z
    <2>1. \A k \in D : x[k] \in Int /\ y[k] \in Int /\ z[k] \in Int /\ n[k] = p * x[k] + q * y[k] + w * z[k]
      BY <1>7, <1>9
    <2> QED BY <1>1, <1>3, <2>1, SumLinear
  <1>11. PICK u : u = collected(turns)
    OBVIOUS
  <1>12. UsageIsCounted(u)
    <2>1. Y <= X
      <3>1. \A k \in D : y[k] \in Int /\ x[k] \in Int /\ y[k] <= x[k]
        BY <1>7
      <3> QED BY <1>1, <1>3, <3>1, SumMonotone
    <2> QED BY <1>6, <1>8, <1>11, <2>1 DEF UsageIsCounted
  <1>13. numerator(u) = N
    BY <1>6, <1>9, <1>10, <1>11, <1>12, NumeratorIsLinear
  <1>14. N <= B
    <2>1. \A k \in D : n[k] \in Int /\ b[k] \in Int /\ n[k] <= b[k]
      BY <1>7
    <2> QED BY <1>1, <1>3, <2>1, SumMonotone
  <1>15. B <= N + Quantum * R
    <2>1. PICK Q \in Nat : Q = Quantum
      BY PricesAreCounts
    <2>2. PICK m : m = [k \in D |-> n[k] + Q * r[k]]
      OBVIOUS
    <2>3. \A k \in D : /\ n[k] \in Int /\ r[k] \in Int /\ b[k] \in Int /\ Q * r[k] \in Int
                       /\ m[k] = n[k] + Q * r[k] /\ b[k] <= m[k]
      BY <1>7, <2>1, <2>2
    <2>4. \A k \in D : /\ n[k] \in Int /\ r[k] \in Int
                       /\ m[k] = 1 * n[k] + Q * r[k] + 0 * r[k]
      BY <2>3
    <2>5. SumFunctionOnSet(m, D) = 1 * N + Q * R + 0 * R
      BY <1>1, <1>3, <2>4, SumLinear
    <2>6. \A k \in D : b[k] \in Int /\ m[k] \in Int /\ b[k] <= m[k]
      BY <2>3
    <2>7. B <= SumFunctionOnSet(m, D)
      BY <1>1, <1>3, <2>6, SumMonotone
    <2> QED BY <1>8, <2>1, <2>5, <2>7
  <1>16. PICK c \in Nat : c = known_cost(turns) /\ N <= Quantum * c /\ c = ceil_div(N, Quantum)
    BY <1>11, <1>12, <1>13, UsageCovers DEF known_cost, usage_cost
  <1>17. accounting_cost_upper_bound(turns) = c + R
    BY <1>5, <1>16 DEF accounting_cost_upper_bound
  <1>18. B <= Quantum * (c + R)
    <2>1. PICK Q \in Nat : Q = Quantum
      BY PricesAreCounts
    <2>2. Q * (c + R) = Q * c + Q * R /\ Q * c \in Nat /\ Q * R \in Nat
      BY <1>8
    <2> QED BY <1>8, <1>15, <1>16, <2>1, <2>2
  <1>19. ceil_div(B, Quantum) <= c + R
    BY <1>8, <1>18, CeilCovers, PricesAreCounts
  <1>20. c <= ceil_div(B, Quantum)
    BY <1>8, <1>14, <1>16, CeilGrows, PricesAreCounts
  <1> QED BY <1>4, <1>5, <1>8, <1>16, <1>17, <1>18, <1>19, <1>20

(* The bill grows turn by turn. *)
LEMMA NothingBilled == TurnsAre(<<>>) /\ bill(<<>>) = 0
  <1>1. PICK none : none = <<>> /\ DOMAIN none = {} /\ Len(none) = 0
    OBVIOUS
  <1>2. TurnsAre(none)
    BY <1>1 DEF TurnsAre
  <1>3. PICK f : f = [k \in DOMAIN none |-> none[k].billed]
    OBVIOUS
  <1>4. SumFunctionOnSet(f, {}) = 0
    BY SumEmpty
  <1>5. bill(none) = 0
    BY <1>1, <1>3, <1>4 DEF bill, SumOver
  <1> QED BY <1>1, <1>2, <1>5

LEMMA BillAdds ==
  ASSUME NEW S, NEW turns \in Seq(S), TurnsAre(turns), NEW turn, TurnHolds(turn)
  PROVE  /\ TurnsAre(Append(turns, turn))
         /\ bill(turns) \in Nat /\ turn.billed \in Nat
         /\ bill(Append(turns, turn)) = bill(turns) + turn.billed
  <1>0. PICK D, more, n : D = DOMAIN turns /\ more = Append(turns, turn) /\ n = Len(turns) + 1
    OBVIOUS
  <1>1. D = DOMAIN turns /\ IsFiniteSet(D) /\ more = Append(turns, turn) /\ n = Len(turns) + 1
    BY <1>0, FS_Interval DEF TurnsAre
  <1>2. /\ n \in Nat /\ Len(more) = n /\ DOMAIN more = 1..n /\ D = 1..(n - 1) /\ n \notin D /\ 1..n = D \cup {n}
        /\ more[n] = turn /\ \A k \in D : more[k] = turns[k]
    <2>1. more \in Seq(S \cup {turn}) /\ Len(more) = n
      BY <1>1
    <2>2. n \in Nat /\ DOMAIN more = 1..n /\ D = 1..(n - 1)
      BY <1>1, <2>1 DEF TurnsAre
    <2>3. more[n] = turn /\ \A k \in D : more[k] = turns[k]
      BY <1>1, <2>2
    <2>4. n - 1 \in Nat
      BY <1>1, <2>2 DEF TurnsAre
    <2>5. n \notin D /\ 1..n = D \cup {n}
      BY <2>2, <2>4
    <2> QED BY <2>1, <2>2, <2>3, <2>5
  <1>3. TurnsAre(more)
    BY <1>1, <1>2 DEF TurnsAre
  <1>4. PICK f, g : f = [k \in DOMAIN turns |-> turns[k].billed] /\ g = [k \in DOMAIN more |-> more[k].billed]
    OBVIOUS
  <1>5. turn.billed \in Nat /\ \A k \in D : f[k] \in Nat /\ g[k] = f[k]
    BY <1>1, <1>2, <1>4 DEF TurnsAre, TurnHolds
  <1>6. bill(turns) = SumFunctionOnSet(f, D) /\ bill(turns) \in Nat
    <2>1. bill(turns) = SumFunctionOnSet(f, D)
      BY <1>1, <1>4 DEF bill, SumOver
    <2> QED BY <1>1, <1>5, <2>1, SumIsNat
  <1>7. SumFunctionOnSet(f, D) = SumFunctionOnSet(g, D)
    BY <1>1, <1>5, SumAgrees
  <1>8. g[n] = turn.billed
    BY <1>2, <1>4
  <1>9. SumFunctionOnSet(g, D \cup {n}) = g[n] + SumFunctionOnSet(g, D)
    <2>1. g[n] \in Int /\ \A k \in D : g[k] \in Int
      BY <1>5, <1>8
    <2> QED BY <1>1, <1>2, <2>1, SumAdds
  <1>10. bill(more) = SumFunctionOnSet(g, D \cup {n})
    BY <1>2, <1>4 DEF bill, SumOver
  <1> QED BY <1>1, <1>3, <1>5, <1>6, <1>7, <1>8, <1>9, <1>10

LEMMA OneTurnBilled ==
  ASSUME NEW turn, TurnHolds(turn)
  PROVE  /\ TurnsAre(<<turn>>) /\ bill(<<turn>>) = turn.billed /\ turn.billed \in Nat
         /\ turn.status # "missed" => unpriced_cost_reserve(<<turn>>) = 0
  <1>1. PICK one_turn : one_turn = <<turn>>
    OBVIOUS
  <1>2. DOMAIN one_turn = 1..1 /\ one_turn[1] = turn /\ Len(one_turn) = 1
    BY <1>1
  <1>3. TurnsAre(one_turn)
    BY <1>2 DEF TurnsAre
  <1>4. PICK f, g : /\ f = [k \in DOMAIN one_turn |-> one_turn[k].billed]
                    /\ g = [k \in DOMAIN one_turn |-> IF one_turn[k].status = "missed" THEN unpriced_attempt(one_turn[k]) ELSE 0]
    OBVIOUS
  <1>5. f[1] = turn.billed /\ f[1] \in Nat
    BY <1>2, <1>4 DEF TurnHolds
  <1>6. SumFunctionOnSet(f, 1..1) = f[1]
    BY <1>5, SumOfOne
  <1>7. bill(one_turn) = f[1]
    BY <1>2, <1>4, <1>6 DEF bill, SumOver
  <1>8. ASSUME turn.status # "missed" PROVE unpriced_cost_reserve(one_turn) = 0
    <2>1. g[1] = 0
      BY <1>2, <1>4, <1>8
    <2>2. SumFunctionOnSet(g, 1..1) = g[1]
      BY <2>1, SumOfOne
    <2> QED BY <1>2, <1>4, <2>1, <2>2 DEF unpriced_cost_reserve, SumOver
  <1> QED BY <1>1, <1>3, <1>5, <1>7, <1>8

(* What one of the program's runs was billed: each of its turns is one the *)
(* requests, retries and answers of PaidCalls can make.                    *)
RunTurns == UNION {Turns(kinds, observation) : kinds \in SUBSET AnswerKinds, observation \in Nat}

(* The accounts are right: of any run whose usage can be collected, however*)
(* many turns it took, whatever was answered, retried, lost or came late,  *)
(* the cost on record is at most what was billed, in whole quanta, and     *)
(* with the reserve for what was missed it is at least that.               *)
THEOREM AccountBoundsTheBill ==
  ASSUME NEW turns \in Seq(RunTurns), usage_is_collected(turns)
  PROVE  /\ known_cost(turns) <= ceil_div(bill(turns), Quantum)
         /\ ceil_div(bill(turns), Quantum) <= accounting_cost_upper_bound(turns)
         /\ bill(turns) <= Quantum * accounting_cost_upper_bound(turns)
  <1>1. Len(turns) \in Nat /\ DOMAIN turns = 1..Len(turns) /\ \A k \in DOMAIN turns : turns[k] \in RunTurns
    OBVIOUS
  <1>2. ASSUME NEW k \in DOMAIN turns PROVE TurnHolds(turns[k])
    <2>1. PICK kinds \in SUBSET AnswerKinds, observation \in Nat : turns[k] \in Turns(kinds, observation)
      BY <1>1 DEF RunTurns
    <2> QED BY <2>1, TurnsHold
  <1>3. TurnsAre(turns)
    BY <1>1, <1>2 DEF TurnsAre
  <1> QED BY <1>3, AccountIsRight

-----------------------------------------------------------------------------
(* A process is a record of these fields, a document one of those. *)
Process(r) ==
  r = [pc |-> r.pc, by |-> r.by, prior |-> r.prior, resume |-> r.resume,
       at |-> r.at, path |-> r.path, after |-> r.after, temporary |-> r.temporary,
       smoke |-> r.smoke, evidence |-> r.evidence, reported |-> r.reported,
       receipted |-> r.receipted, fresh |-> r.fresh, turns |-> r.turns]

Shape ==
  /\ proc = [i \in Procs |-> proc[i]]
  /\ \A i \in Procs : Process(proc[i])
  /\ disk = [x \in Paths |-> disk[x]]
  /\ \A x \in Paths :
       disk[x] = [by |-> disk[x].by, state |-> disk[x].state, turns |-> disk[x].turns]
  /\ bought \in [Items -> Nat]

Writes(i) == proc[i].pc \in {"link", "unlink"}

(* What a process is doing; while it writes a file, what it will do next. *)
Stage(i) == IF Writes(i) THEN proc[i].after ELSE proc[i].pc

(* The attempt of the item is this process's, until its bundle is sealed. *)
Owner(i) ==
  \/ proc[i].pc \in {"call", "seal"}
  \/ proc[i].pc = "unlink" /\ proc[i].after = "call"

AfterDocuments == {"sandbox", "call", "seal", "close", "failed", "answered", "smoke!",
                   "loop", "reports", "reported", "receipt", "judge"}
AfterSmoke     == {"loop", "reports", "reported", "receipt", "judge"}
Unbought       == {"preflight", "packs?", "pack?", "aggregate?", "root", "documents",
                   "sandbox", "call"} \cup AfterSmoke

(* The fields of a process among themselves. *)
ControlHolds(i) ==
  /\ proc[i].at \in Nat
  /\ proc[i].turns \in Seq(Range_(proc[i].turns))
  /\ Stage(i) \in {"sandbox", "call", "seal"} => proc[i].at <= Len(Packs)
  /\ Stage(i) = "documents" => proc[i].at = 0
  /\ Stage(i) = "seal" => proc[i].at > 0
  /\ proc[i].pc # "call" /\ Stage(i) \in Unbought => proc[i].turns = <<>>

WritesPaper(i) ==
  Writes(i) =>
    /\ proc[i].after \in {"documents", "call", "failed", "answered", "smoke!", "idle",
                          "reported", "judge"}
    /\ \A p \in Range_(Packs) : proc[i].path # Bundle(p)
    /\ proc[i].after = "call" => proc[i].path = Attempt(item(i))
    /\ proc[i].after # "call" => \A x \in Items : proc[i].path # Attempt(x)
    /\ proc[i].after = "smoke!" => proc[i].path = Receipt("smoke")

(* What must be on the disk by then. *)
Filed == \A d \in Range_(Documents) : exists(d)

PapersHold(i) ==
  /\ Stage(i) \in AfterDocuments => Filed
  /\ \/ Stage(i) \in AfterSmoke
     \/ Stage(i) \in {"sandbox", "call", "seal", "close"} /\ proc[i].at > 0
     \/ Stage(i) = "smoke!" /\ proc[i].pc # "link"
     \/ proc[i].smoke # <<>>
     => exists(Receipt("smoke"))

(* What the owner of an attempt finds. *)
OwnershipHolds(i) ==
  Owner(i) =>
    /\ exists(Attempt(item(i)))
    /\ proc[i].turns = <<>> => bought[item(i)] = 0
    /\ proc[i].at > 0 /\ proc[i].pc # "seal" => ~exists(Bundle(item(i)))
    /\ proc[i].pc = "seal" => disk[Bundle(item(i))].state = "partial"

OneOwner ==
  \A i, j \in Procs : i # j /\ Owner(i) /\ Owner(j) => item(i) # item(j)

PaidHolds ==
  /\ \A x \in Items : bought[x] > 0 => exists(Attempt(x))
  /\ \A p \in Range_(Packs) : exists(Bundle(p)) => exists(Attempt(p))

ProcessHolds(i) ==
  ControlHolds(i) /\ WritesPaper(i) /\ PapersHold(i) /\ OwnershipHolds(i)

IInv ==
  /\ Shape
  /\ \A i \in Procs : ProcessHolds(i)
  /\ OneOwner /\ PaidHolds /\ BoughtOnce /\ PaidOnRecord

LEMMA PacksAreListed == Packs \in Seq(Range_(Packs))
  BY MatrixAssumption DEF MatrixAssumption

USE PacksAreListed

-----------------------------------------------------------------------------
(* Files and items. *)
LEMMA ItemsAreThere ==
  /\ "smoke" \in Items
  /\ Range_(Packs) \subseteq Items
  /\ \A i : proc[i].at \in Nat /\ proc[i].at <= Len(Packs) =>
       item(i) \in Items /\ (proc[i].at > 0 => item(i) \in Range_(Packs))
  <1>1. Len(Packs) \in Nat /\ DOMAIN Packs = 1..Len(Packs)
    BY LenProperties
  <1> QED BY <1>1 DEF Items, Range_, item

LEMMA PathsAreThere ==
  /\ {Authorization, Aggregate, Response} \cup Range_(Failures) \subseteq Paths
  /\ \A x \in Items : {Estimate(x), Attempt(x), Receipt(x)} \subseteq Paths
  /\ \A p \in Range_(Packs) : Bundle(p) \in Paths /\ Range_(Reports(p)) \subseteq Paths
  BY DEF Paths

LEMMA PathsDiffer ==
  ASSUME NEW x, NEW y
  PROVE  /\ Attempt(x) # Bundle(y) /\ Estimate(x) # Bundle(y) /\ Receipt(x) # Bundle(y)
         /\ Authorization # Bundle(y) /\ Aggregate # Bundle(y) /\ Response # Bundle(y)
         /\ Estimate(x) # Attempt(y) /\ Receipt(x) # Attempt(y)
         /\ Authorization # Attempt(y) /\ Aggregate # Attempt(y) /\ Response # Attempt(y)
         /\ Attempt(x) = Attempt(y) => x = y
         /\ Bundle(x) = Bundle(y) => x = y
  BY DEF Attempt, Bundle, Estimate, Receipt, Authorization, Aggregate, Response

LEMMA BundlesArePacks ==
  ASSUME NEW x, Bundle(x) \in Paths
  PROVE  x \in Range_(Packs)
  <1>1. \A f \in Range_(Failures) : f # Bundle(x)
    BY DEF Range_, Failures, Bundle
  <1>2. \A y : \A f \in Range_(Reports(y)) : f # Bundle(x)
    BY DEF Range_, Reports, Report, Bundle
  <1>3. PICK y \in Range_(Packs) : Bundle(x) = Bundle(y)
    BY <1>1, <1>2, PathsDiffer DEF Paths
  <1> QED BY <1>3, PathsDiffer

LEMMA ListsDiffer ==
  ASSUME NEW x
  PROVE  /\ \A d \in Range_(Documents) : d \in Paths /\ d # Attempt(x) /\ d # Bundle(x)
         /\ \A f \in Range_(Failures) : f # Attempt(x) /\ f # Bundle(x)
         /\ \A y : \A f \in Range_(Reports(y)) : f # Attempt(x) /\ f # Bundle(x)
  <1>1. \A f \in Range_(Failures) : f # Attempt(x) /\ f # Bundle(x)
    BY DEF Range_, Failures, Attempt, Bundle
  <1>2. \A y : \A f \in Range_(Reports(y)) : f # Attempt(x) /\ f # Bundle(x)
    BY DEF Range_, Reports, Report, Attempt, Bundle
  <1>3. ASSUME NEW d \in Range_(Documents)
        PROVE  d \in {Authorization} \cup {Estimate(y) : y \in Items}
    <2>1. Len(Packs) \in Nat /\ DOMAIN Packs = 1..Len(Packs)
      BY LenProperties
    <2>2. /\ DOMAIN Documents = 1..(2 + Len(Packs))
          /\ \A k \in 1..2 : Documents[k] = <<Authorization, Estimate("smoke")>>[k]
          /\ \A k \in 1..Len(Packs) : Documents[2 + k] = Estimate(Packs[k])
      BY <2>1 DEF Documents
    <2>3. PICK k \in 1..(2 + Len(Packs)) : d = Documents[k]
      BY <2>2 DEF Range_
    <2>4. CASE k \in 1..2
      BY <2>2, <2>3, <2>4, ItemsAreThere
    <2>5. CASE k \notin 1..2
      <3>1. k - 2 \in 1..Len(Packs) /\ k = 2 + (k - 2)
        BY <2>1, <2>3, <2>5
      <3>2. Packs[k - 2] \in Items
        BY <2>1, <3>1, ItemsAreThere DEF Range_
      <3> QED BY <2>2, <2>3, <3>1, <3>2
    <2> QED BY <2>4, <2>5
  <1> QED BY <1>1, <1>2, <1>3, PathsAreThere, PathsDiffer

(* A set of numbers has a least one. *)
LEMMA MinIsThere ==
  ASSUME NEW S, S \subseteq Nat, S # {}
  PROVE  Min(S) \in S
  <1> DEFINE less == {ss \in Nat \X Nat : ss[1] < ss[2]}
  <1>0. IsWellFoundedOn(less, Nat)
    BY NatLessThanWellFounded DEF OpToRel
  <1>1. \E x \in S : \A y \in S : <<y, x>> \notin less
    <2> HIDE DEF less
    <2> QED BY <1>0, WFMin
  <1>2. \A x, y \in Nat : <<y, x>> \notin less => x <= y
    OBVIOUS
  <1>3. \E x \in S : \A y \in S : x <= y
    <2> HIDE DEF less
    <2> QED BY <1>1, <1>2
  <1> QED BY <1>3 DEF Min

(* What is linked is a whole document. *)
LEMMA DocumentIsWhole ==
  ASSUME NEW i
  PROVE  \E t : Document(i) = Whole(proc[i].by, t)
  <1> DEFINE path == proc[i].path
             kept == disk[Bundle(path[2])].turns
             all  == FlattenSeq([k \in DOMAIN Packs |-> disk[Bundle(Packs[k])].turns])
  <1>1. \/ Document(i) = Whole(proc[i].by, <<>>)
        \/ Document(i) = Whole(proc[i].by, all)
        \/ Document(i) = Whole(proc[i].by, proc[i].turns)
        \/ Document(i) = Whole(proc[i].by, kept)
    <2>1. /\ basis_document(i) = Whole(proc[i].by, <<>>)
          /\ aggregate_receipt(i) = Whole(proc[i].by, all)
          /\ smoke_failure(i) = Whole(proc[i].by, proc[i].turns)
          /\ smoke_document(i) = Whole(proc[i].by, proc[i].turns)
          /\ actual_receipt(i, path[2]) = Whole(proc[i].by, kept)
      BY DEF basis_document, smoke_document, smoke_failure, actual_receipt, aggregate_receipt
    <2> HIDE DEF kept, all
    <2> QED BY <2>1 DEF Document
  <1> HIDE DEF kept, all
  <1> QED BY <1>1

LEMMA EmptyIsSequence ==
  ASSUME NEW t, t = <<>>
  PROVE  t \in Seq(Range_(t))
  OBVIOUS

-----------------------------------------------------------------------------
(* How a process moves. *)
OthersStay(i) ==
  /\ proc' = [j \in Procs |-> proc'[j]]
  /\ \A j \in Procs \ {i} : proc'[j] = proc[j]
  /\ Process(proc'[i])

Moved(i, to) ==
  /\ OthersStay(i)
  /\ proc'[i].pc = to
  /\ proc'[i].at = proc[i].at /\ proc'[i].turns = proc[i].turns
  /\ proc'[i].smoke = proc[i].smoke

LEMMA GoMoves ==
  ASSUME Shape, NEW i \in Procs, NEW to, go(i, to)
  PROVE  Moved(i, to)
  <1>1. proc = [j \in Procs |-> proc[j]] /\ Process(proc[i])
    BY DEF Shape
  <1> QED BY <1>1 DEF go, Moved, OthersStay, Process

LEMMA IdleIsProcess == Process(Idle)
  BY DEF Idle, Process

LEMMA RefuseMoves ==
  ASSUME Shape, NEW i \in Procs, refuse(i)
  PROVE  OthersStay(i) /\ proc'[i] = Idle
  <1>1. proc = [j \in Procs |-> proc[j]]
    BY DEF Shape
  <1> QED BY <1>1, IdleIsProcess DEF refuse, OthersStay

LEMMA WriteMoves ==
  ASSUME Shape, NEW i \in Procs, NEW path, NEW after, Write(i, path, after)
  PROVE  \/ refuse(i)
         \/ /\ Moved(i, "link") /\ ~exists(path)
            /\ proc'[i].path = path /\ proc'[i].after = after
  <1>1. proc = [j \in Procs |-> proc[j]] /\ Process(proc[i])
    BY DEF Shape
  <1>2. CASE exists(path)
    BY <1>2 DEF Write
  <1>3. CASE ~exists(path)
    <2>1. proc' = [proc EXCEPT ![i].pc = "link", ![i].path = path, ![i].after = after,
                               ![i].temporary = TRUE]
      BY <1>3 DEF Write
    <2> QED BY <1>1, <1>3, <2>1 DEF Moved, OthersStay, Process
  <1> QED BY <1>2, <1>3

(* A step that leaves disk and purchases alone and takes no attempt. *)
LEMMA MoveKeeps ==
  ASSUME IInv, NEW i \in Procs, OthersStay(i), UNCHANGED <<disk, bought>>,
         ControlHolds(i)', WritesPaper(i)', PapersHold(i)',
         Owner(i)' => /\ Owner(i) /\ proc[i].pc # "seal" /\ proc'[i].pc # "seal"
                      /\ proc'[i].at = proc[i].at /\ proc'[i].turns = proc[i].turns
  PROVE  IInv'
  <1>1. Shape'
    BY DEF IInv, Shape, OthersStay
  <1>2. ASSUME NEW j \in Procs, j # i PROVE ProcessHolds(j)'
    <2>1. ProcessHolds(j) /\ proc'[j] = proc[j]
      BY <1>2 DEF IInv, OthersStay
    <2> QED BY <2>1 DEF ProcessHolds, ControlHolds, WritesPaper, PapersHold, OwnershipHolds,
                        Owner, Stage, Writes, Filed, exists, item
  <1>3. OwnershipHolds(i)'
    <2>1. OwnershipHolds(i)
      BY DEF IInv, ProcessHolds
    <2> QED BY <2>1 DEF OwnershipHolds, exists, item
  <1>4. OneOwner'
    <2>1. \A j \in Procs : Owner(j)' => Owner(j) /\ item(j)' = item(j)
      BY DEF OthersStay, Owner, item
    <2> QED BY <2>1 DEF IInv, OneOwner
  <1>5. PaidHolds' /\ BoughtOnce' /\ PaidOnRecord'
    BY DEF IInv, PaidHolds, BoughtOnce, PaidOnRecord, exists
  <1> QED BY <1>1, <1>2, <1>3, <1>4, <1>5 DEF IInv, ProcessHolds

LEMMA RefuseKeeps ==
  ASSUME IInv, NEW i \in Procs, refuse(i), UNCHANGED <<disk, bought>>
  PROVE  IInv'
  <1>1. OthersStay(i) /\ proc'[i] = Idle
    BY RefuseMoves DEF IInv
  <1>2. /\ Idle.pc = "idle" /\ Idle.at = 0 /\ Idle.turns = <<>> /\ Idle.smoke = <<>>
    BY DEF Idle
  <1>3. ControlHolds(i)' /\ WritesPaper(i)' /\ PapersHold(i)' /\ ~Owner(i)'
    BY <1>1, <1>2 DEF ControlHolds, WritesPaper, PapersHold, Owner, Stage, Writes,
                      AfterDocuments, AfterSmoke, Unbought
  <1> QED BY <1>1, <1>3, MoveKeeps

(* A process gets somewhere without a file to write or an attempt of its   *)
(* own: what must hold there.                                              *)
LEMMA LandingKeeps ==
  ASSUME IInv, NEW i \in Procs, OthersStay(i), UNCHANGED <<disk, bought>>,
         NEW to, proc'[i].pc = to, to \notin {"link", "unlink", "call", "seal"},
         proc'[i].at \in Nat, proc'[i].turns \in Seq(Range_(proc'[i].turns)),
         to = "sandbox" => proc'[i].at <= Len(Packs),
         to = "documents" => proc'[i].at = 0,
         to \in Unbought => proc'[i].turns = <<>>,
         to \in AfterDocuments => Filed,
         \/ to \in AfterSmoke \cup {"smoke!"}
         \/ to \in {"sandbox", "close"} /\ proc'[i].at > 0
         \/ proc'[i].smoke # <<>>
         => exists(Receipt("smoke"))
  PROVE  IInv'
  <1>1. ~Writes(i)' /\ Stage(i)' = to /\ ~Owner(i)'
    BY DEF Writes, Stage, Owner
  <1>2. ControlHolds(i)' /\ WritesPaper(i)'
    BY <1>1 DEF ControlHolds, WritesPaper
  <1>3. PapersHold(i)'
    BY <1>1 DEF PapersHold, Filed, exists
  <1> QED BY <1>1, <1>2, <1>3, MoveKeeps

(* What is known of a process that writes nothing. *)
LEMMA Standing ==
  ASSUME IInv, NEW i \in Procs, ~Writes(i)
  PROVE  /\ proc[i].at \in Nat /\ proc[i].turns \in Seq(Range_(proc[i].turns))
         /\ proc[i].pc \in {"sandbox", "call", "seal"} => proc[i].at <= Len(Packs)
         /\ proc[i].pc = "documents" => proc[i].at = 0
         /\ proc[i].pc # "call" /\ proc[i].pc \in Unbought => proc[i].turns = <<>>
         /\ proc[i].pc \in AfterDocuments => Filed
         /\ \/ proc[i].pc \in AfterSmoke \cup {"smoke!"}
            \/ proc[i].pc \in {"sandbox", "call", "seal", "close"} /\ proc[i].at > 0
            \/ proc[i].smoke # <<>>
            => exists(Receipt("smoke"))
  <1>1. ControlHolds(i) /\ PapersHold(i) /\ Stage(i) = proc[i].pc /\ proc[i].pc # "link"
    BY DEF IInv, ProcessHolds, Stage, Writes
  <1> QED BY <1>1 DEF ControlHolds, PapersHold

(* A file is begun, or its name is taken. *)
LEMMA WriteKeeps ==
  ASSUME IInv, NEW i \in Procs, NEW path, NEW after,
         Write(i, path, after), UNCHANGED <<disk, bought>>, ~Writes(i),
         after \in {"documents", "call", "failed", "answered", "smoke!", "idle",
                    "reported", "judge"},
         \A p \in Range_(Packs) : path # Bundle(p),
         after = "call" => proc[i].pc = "sandbox" /\ path = Attempt(item(i)),
         after # "call" => \A x \in Items : path # Attempt(x),
         after = "smoke!" => path = Receipt("smoke"),
         after \in Unbought => proc[i].pc \in Unbought \ {"call"},
         after = "documents" => proc[i].pc = "documents",
         after \in AfterDocuments => proc[i].pc \in AfterDocuments,
         after \in AfterSmoke => proc[i].pc \in AfterSmoke
  PROVE  IInv'
  <1>1. CASE refuse(i)
    BY <1>1, RefuseKeeps
  <1>2. CASE /\ Moved(i, "link") /\ ~exists(path)
             /\ proc'[i].path = path /\ proc'[i].after = after
    <2>1. /\ OthersStay(i) /\ proc'[i].pc = "link"
          /\ proc'[i].at = proc[i].at /\ proc'[i].turns = proc[i].turns
          /\ proc'[i].smoke = proc[i].smoke
      BY <1>2 DEF Moved
    <2>2. Writes(i)' /\ Stage(i)' = after /\ ~Owner(i)' /\ item(i)' = item(i)
      BY <1>2, <2>1 DEF Writes, Stage, Owner, item
    <2>3. ControlHolds(i)'
      BY <2>1, <2>2, Standing DEF ControlHolds, Unbought
    <2>4. WritesPaper(i)'
      BY <1>2, <2>2 DEF WritesPaper
    <2>5. PapersHold(i)'
      BY <2>1, <2>2, Standing DEF PapersHold, Filed, exists, AfterDocuments, AfterSmoke
    <2> QED BY <2>1, <2>2, <2>3, <2>4, <2>5, MoveKeeps
  <1> QED BY <1>1, <1>2, WriteMoves DEF IInv

-----------------------------------------------------------------------------
(* The invocation and its preflight. *)
LEMMA InvokeKeeps ==
  ASSUME IInv, NEW i \in Procs, Invoke(i)
  PROVE  IInv'
  <1>1. CASE UNCHANGED proc
    <2>1. OthersStay(i) /\ UNCHANGED <<disk, bought>> /\ proc'[i] = proc[i] /\ proc[i].pc = "idle"
      BY <1>1 DEF Invoke, IInv, Shape, OthersStay, at, disk_vars, paid_vars
    <2>2. proc'[i].at \in Nat /\ proc'[i].turns \in Seq(Range_(proc'[i].turns))
          /\ (proc'[i].smoke # <<>> => exists(Receipt("smoke")))
      BY <2>1, Standing DEF Writes
    <2> QED BY <2>1, <2>2, LandingKeeps DEF Unbought, AfterDocuments, AfterSmoke
  <1>2. CASE \E s \in Settings, resume \in BOOLEAN :
               proc' = [proc EXCEPT ![i] = [Idle EXCEPT !.pc = "preflight", !.by = s.name,
                                                        !.prior = s.prior, !.resume = resume]]
    <2>s. PICK s \in Settings, resume \in BOOLEAN :
               proc' = [proc EXCEPT ![i] = [Idle EXCEPT !.pc = "preflight", !.by = s.name,
                                                        !.prior = s.prior, !.resume = resume]]
      BY <1>2
    <2>0. PICK begun : begun = [Idle EXCEPT !.pc = "preflight", !.by = s.name,
                                          !.prior = s.prior, !.resume = resume]
      OBVIOUS
    <2>1. /\ Process(begun) /\ begun.pc = "preflight" /\ begun.at = 0
          /\ begun.turns = <<>> /\ begun.smoke = <<>>
      BY <2>0 DEF Idle, Process
    <2>2. OthersStay(i) /\ proc'[i] = begun
      BY <2>s, <2>0, <2>1 DEF IInv, Shape, OthersStay
    <2>3. UNCHANGED <<disk, bought>>
      BY DEF Invoke, disk_vars, paid_vars
    <2>5. /\ proc'[i].pc = "preflight" /\ proc'[i].at = 0
          /\ proc'[i].turns = <<>> /\ proc'[i].smoke = <<>>
          /\ proc'[i].at \in Nat
      BY <2>1, <2>2
    <2> QED BY <2>2, <2>3, <2>5, EmptyIsSequence, LandingKeeps DEF AfterDocuments, AfterSmoke
  <1> QED BY <1>1, <1>2 DEF Invoke

LEMMA PreflightKeeps ==
  ASSUME IInv, NEW i \in Procs,
         Preflight(i) \/ PreflightPacks(i) \/ PreflightPack(i) \/ PreflightAggregate(i)
  PROVE  IInv'
  <1>0. /\ UNCHANGED <<disk, bought>> /\ ~Writes(i)
        /\ proc = [j \in Procs |-> proc[j]] /\ Process(proc[i])
        /\ proc[i].pc \in {"preflight", "packs?", "pack?", "aggregate?"}
    BY DEF Preflight, PreflightPacks, PreflightPack, PreflightAggregate, disk_vars, paid_vars,
           Writes, at, IInv, Shape
  <1>1. /\ proc[i].turns = <<>> /\ proc[i].at \in Nat
        /\ proc[i].smoke # <<>> => exists(Receipt("smoke"))
    BY <1>0, Standing DEF Unbought
  <1>2. <<>> \in Seq(Range_(<<>>))
    OBVIOUS
  <1>3. ASSUME OthersStay(i), proc'[i].pc \in {"packs?", "pack?", "aggregate?", "root"},
               proc'[i].at \in Nat, proc'[i].turns = proc[i].turns,
               proc'[i].smoke # <<>> => exists(Receipt("smoke"))
        PROVE  IInv'
    BY <1>0, <1>1, <1>2, <1>3, LandingKeeps DEF AfterDocuments, AfterSmoke
  <1>4. CASE refuse(i)
    BY <1>0, <1>4, RefuseKeeps
  <1>5. CASE Preflight(i) /\ ~refuse(i)
    <2>1. /\ proc' = [proc EXCEPT ![i].pc = "packs?", ![i].smoke = disk[Response].turns]
          /\ smoke_untouched(i) \/ smoke_passes(i)
      BY <1>5 DEF Preflight
    <2>2. disk[Response].turns # <<>> => exists(Receipt("smoke"))
      <3>1. CASE smoke_untouched(i)
        BY <3>1 DEF smoke_untouched, exists, NoFile
      <3>2. CASE smoke_passes(i)
        <4>1. disk[Receipt("smoke")].state = "whole"
          BY <3>2 DEF smoke_passes, Whole
        <4> QED BY <4>1 DEF exists, NoFile
      <3> QED BY <2>1, <3>1, <3>2
    <2>3. /\ OthersStay(i) /\ proc'[i].pc = "packs?" /\ proc'[i].at = proc[i].at
          /\ proc'[i].turns = proc[i].turns /\ proc'[i].smoke = disk[Response].turns
      BY <1>0, <2>1 DEF OthersStay, Process
    <2> QED BY <1>1, <1>3, <2>2, <2>3
  <1>6. CASE PreflightPacks(i) /\ ~refuse(i)
    <2>1. \/ proc' = [proc EXCEPT ![i].pc = "root", ![i].resume = FALSE]
          \/ proc' = [proc EXCEPT ![i].pc = "pack?", ![i].at = 1, ![i].resume = FALSE]
      BY <1>6 DEF PreflightPacks
    <2>2. /\ OthersStay(i) /\ proc'[i].pc \in {"root", "pack?"}
          /\ proc'[i].at \in {proc[i].at, 1}
          /\ proc'[i].turns = proc[i].turns /\ proc'[i].smoke = proc[i].smoke
      BY <1>0, <2>1 DEF OthersStay, Process
    <2>3. proc'[i].at \in Nat
      BY <1>1, <2>2
    <2> QED BY <1>1, <1>3, <2>2, <2>3
  <1>7. CASE PreflightPack(i) /\ ~refuse(i)
    <2>1. PICK to \in {"pack?", "aggregate?"}, place \in {0, proc[i].at + 1}, known \in {{}, {item(i)}} :
            proc' = [proc EXCEPT ![i].pc = to, ![i].at = place,
                                 ![i].evidence = @ \cup known,
                                 ![i].reported = @ \cup (known \cap dirs),
                                 ![i].receipted = @ \cup {x \in known : exists(Receipt(x))}]
      BY <1>7 DEF PreflightPack
    <2>2. /\ OthersStay(i) /\ proc'[i].pc = to /\ proc'[i].at = place
          /\ proc'[i].turns = proc[i].turns /\ proc'[i].smoke = proc[i].smoke
      BY <1>0, <2>1 DEF OthersStay, Process
    <2>3. proc'[i].at \in Nat
      BY <1>1, <2>2
    <2> QED BY <1>1, <1>3, <2>2, <2>3
  <1>8. CASE PreflightAggregate(i) /\ ~refuse(i)
    <2>1. Moved(i, "root")
      BY <1>8, GoMoves DEF PreflightAggregate, IInv
    <2> QED BY <1>1, <1>3, <2>1 DEF Moved
  <1> QED BY <1>4, <1>5, <1>6, <1>7, <1>8

-----------------------------------------------------------------------------
(* The documents, the purchase and its judgement, as far as they move.     *)
LEMMA DocumentsKeep ==
  ASSUME IInv, NEW i \in Procs, MakeRoot(i) \/ MaterializeEstimates(i)
  PROVE  IInv'
  <1>0. /\ UNCHANGED <<disk, bought>> /\ ~Writes(i)
        /\ proc = [j \in Procs |-> proc[j]] /\ Process(proc[i])
        /\ proc[i].pc \in {"root", "documents"}
    BY DEF MakeRoot, MaterializeEstimates, paid_vars, Writes, at, IInv, Shape
  <1>1. /\ proc[i].turns = <<>>
        /\ proc[i].smoke # <<>> => exists(Receipt("smoke"))
        /\ proc[i].pc = "documents" => proc[i].at = 0
    BY <1>0, Standing DEF Unbought
  <1>2. CASE MakeRoot(i)
    <2>1. /\ OthersStay(i) /\ proc'[i].pc = "documents" /\ proc'[i].at = 0
          /\ proc'[i].turns = proc[i].turns /\ proc'[i].smoke = proc[i].smoke
      BY <1>0, <1>2 DEF MakeRoot, OthersStay, Process
    <2>2. proc'[i].at \in Nat /\ proc'[i].turns = <<>>
      BY <1>0, <1>1, <2>1
    <2> QED BY <1>0, <1>1, <2>1, <2>2, EmptyIsSequence, LandingKeeps
            DEF AfterDocuments, AfterSmoke
  <1>3. CASE MaterializeEstimates(i)
    <2> DEFINE missing == {k \in DOMAIN Documents : ~exists(Documents[k])}
    <2>0. proc[i].pc = "documents"
      BY <1>3 DEF MaterializeEstimates, at
    <2>1. \/ refuse(i)
          \/ missing # {} /\ Write(i, Documents[Min(missing)], "documents")
          \/ missing = {} /\ go(i, IF proc[i].smoke = <<>> THEN "sandbox" ELSE "smoke!")
      BY <1>3 DEF MaterializeEstimates
    <2>2. CASE missing # {} /\ Write(i, Documents[Min(missing)], "documents")
      <3>1. DOMAIN Documents = 1..(2 + Len(Packs)) /\ Len(Packs) \in Nat
        BY LenProperties DEF Documents
      <3>2. Min(missing) \in missing
        <4>0. missing \subseteq DOMAIN Documents
          OBVIOUS
        <4> HIDE DEF missing
        <4>1. missing \subseteq Nat
          BY <3>1, <4>0
        <4> QED BY <2>2, <4>1, MinIsThere
      <3>3. Documents[Min(missing)] \in Range_(Documents)
        BY <3>2 DEF Range_
      <3> HIDE DEF missing
      <3> QED BY <1>0, <2>0, <2>2, <3>3, ListsDiffer, WriteKeeps
              DEF AfterDocuments, AfterSmoke, Unbought
    <2>3. CASE missing = {} /\ go(i, IF proc[i].smoke = <<>> THEN "sandbox" ELSE "smoke!")
      <3>1. Filed
        BY <2>3 DEF Filed, Range_
      <3>2. PICK to \in {"sandbox", "smoke!"} :
              go(i, to) /\ (to = "smoke!" => proc[i].smoke # <<>>)
        BY <2>3
      <3>3. Moved(i, to)
        BY <3>2, GoMoves DEF IInv
      <3>4. /\ OthersStay(i) /\ proc'[i].pc = to /\ proc'[i].at = 0 /\ proc'[i].turns = <<>>
            /\ proc'[i].smoke = proc[i].smoke /\ proc'[i].at \in Nat
        BY <1>1, <2>0, <3>3 DEF Moved
      <3>5. 0 <= Len(Packs)
        BY LenProperties
      <3>6. /\ proc'[i].turns \in Seq(Range_(proc'[i].turns))
            /\ proc'[i].at <= Len(Packs) /\ ~(proc'[i].at > 0)
        BY <3>4, <3>5, EmptyIsSequence
      <3>7. proc[i].smoke # <<>> => exists(Receipt("smoke"))
        BY <1>1
      <3>8. CASE to = "sandbox"
        BY <1>0, <3>1, <3>4, <3>6, <3>7, <3>8, LandingKeeps DEF AfterSmoke
      <3>9. CASE to = "smoke!"
        BY <1>0, <3>1, <3>2, <3>4, <3>6, <3>7, <3>9, LandingKeeps DEF AfterSmoke
      <3> QED BY <3>8, <3>9
    <2> QED BY <1>0, <2>1, <2>2, <2>3, RefuseKeeps
  <1> QED BY <1>2, <1>3

LEMMA SmokeKeeps ==
  ASSUME IInv, NEW i \in Procs,
         StartSandbox(i) \/ CloseSmoke(i) \/ FailSmoke(i) \/ PassSmoke(i) \/ JudgeSmoke(i)
  PROVE  IInv'
  <1>0. /\ UNCHANGED <<disk, bought>> /\ ~Writes(i)
        /\ proc = [j \in Procs |-> proc[j]] /\ Process(proc[i])
        /\ proc[i].pc \in {"sandbox", "close", "failed", "answered", "smoke!"}
    BY DEF StartSandbox, CloseSmoke, FailSmoke, PassSmoke, JudgeSmoke, disk_vars, paid_vars,
           Writes, at, IInv, Shape
  <1> USE DEF AfterDocuments, AfterSmoke, Unbought
  <1>1. CASE StartSandbox(i)
    <2>1. proc[i].pc = "sandbox" /\ (Write(i, Attempt(item(i)), "call") \/ refuse(i))
      BY <1>1 DEF StartSandbox, at
    <2> QED BY <1>0, <2>1, PathsDiffer, RefuseKeeps, WriteKeeps
  <1>2. CASE CloseSmoke(i)
    <2>1. /\ proc[i].pc = "close"
          /\ \/ Write(i, Response, "answered")
             \/ Write(i, Failures[1], "failed")
             \/ Write(i, Failures[2], "idle")
      BY <1>2 DEF CloseSmoke, fails_smoke, at
    <2>2. Failures[1] \in Range_(Failures) /\ Failures[2] \in Range_(Failures)
      BY DEF Failures, Range_
    <2>3. CASE Write(i, Response, "answered")
      BY <1>0, <2>1, <2>3, PathsDiffer, WriteKeeps
    <2>4. CASE Write(i, Failures[1], "failed")
      BY <1>0, <2>1, <2>2, <2>4, ListsDiffer, WriteKeeps
    <2>5. CASE Write(i, Failures[2], "idle")
      BY <1>0, <2>1, <2>2, <2>5, ListsDiffer, WriteKeeps
    <2> QED BY <2>1, <2>3, <2>4, <2>5
  <1>3. CASE FailSmoke(i)
    <2>1. Failures[2] \in Range_(Failures)
      BY DEF Failures, Range_
    <2>2. proc[i].pc = "failed" /\ Write(i, Failures[2], "idle")
      BY <1>3 DEF FailSmoke, at
    <2> QED BY <1>0, <2>1, <2>2, ListsDiffer, WriteKeeps
  <1>4. CASE PassSmoke(i)
    <2>1. proc[i].pc = "answered" /\ Write(i, Receipt("smoke"), "smoke!")
      BY <1>4 DEF PassSmoke, at
    <2> QED BY <1>0, <2>1, PathsDiffer, WriteKeeps
  <1>5. CASE JudgeSmoke(i)
    <2>1. /\ proc[i].pc = "smoke!"
          /\ \/ refuse(i)
             \/ \E turns : proc' = [proc EXCEPT ![i].pc = "loop", ![i].at = 1,
                                                ![i].smoke = turns, ![i].turns = <<>>]
      BY <1>5 DEF JudgeSmoke, at
    <2>2. ASSUME NEW turns, proc' = [proc EXCEPT ![i].pc = "loop", ![i].at = 1,
                                                 ![i].smoke = turns, ![i].turns = <<>>]
          PROVE  IInv'
      <3>1. /\ OthersStay(i) /\ proc'[i].pc = "loop" /\ proc'[i].at = 1
            /\ proc'[i].turns = <<>> /\ proc'[i].at \in Nat
        BY <1>0, <2>2 DEF OthersStay, Process
      <3>2. Filed /\ exists(Receipt("smoke"))
        BY <1>0, <2>1, Standing
      <3> QED BY <1>0, <3>1, <3>2, EmptyIsSequence, LandingKeeps
    <2> QED BY <1>0, <2>1, <2>2, RefuseKeeps
  <1> QED BY <1>1, <1>2, <1>3, <1>4, <1>5

-----------------------------------------------------------------------------
(* The loop over the packs, as far as it moves. *)
LEMMA LoopKeeps ==
  ASSUME IInv, NEW i \in Procs, Loop(i) \/ ClosePack(i) \/ Judge(i)
  PROVE  IInv'
  <1>0. /\ UNCHANGED <<disk, bought>> /\ ~Writes(i)
        /\ proc = [j \in Procs |-> proc[j]] /\ Process(proc[i])
        /\ proc[i].pc \in {"loop", "close", "judge"}
    BY DEF Loop, ClosePack, Judge, disk_vars, paid_vars, Writes, at, IInv, Shape
  <1> USE DEF AfterDocuments, AfterSmoke, Unbought
  <1>1. Filed /\ proc[i].at \in Nat
    BY <1>0, Standing
  <1>2. CASE Loop(i)
    <2>1. /\ proc[i].pc = "loop" /\ proc[i].at <= Len(Packs)
          /\ \/ refuse(i)
             \/ \E to \in {"reports", "sandbox"} : go(i, to)
      BY <1>2 DEF Loop, at
    <2>2. ASSUME NEW to \in {"reports", "sandbox"}, go(i, to) PROVE IInv'
      <3>1. Moved(i, to)
        BY <2>2, GoMoves DEF IInv
      <3>2. /\ OthersStay(i) /\ proc'[i].pc = to /\ proc'[i].at = proc[i].at
            /\ proc'[i].turns = <<>>
        BY <2>1, <3>1, <1>0, Standing DEF Moved
      <3>3. exists(Receipt("smoke")) /\ proc'[i].at \in Nat /\ proc'[i].at <= Len(Packs)
        BY <1>0, <1>1, <2>1, <3>2, Standing
      <3>4. CASE to = "reports"
        BY <1>0, <1>1, <3>2, <3>3, <3>4, EmptyIsSequence, LandingKeeps
      <3>5. CASE to = "sandbox"
        BY <1>0, <1>1, <3>2, <3>3, <3>5, EmptyIsSequence, LandingKeeps
      <3> QED BY <3>4, <3>5
    <2> QED BY <1>0, <2>1, <2>2, RefuseKeeps
  <1>3. CASE ClosePack(i)
    <2>1. /\ proc[i].pc = "close" /\ proc[i].at > 0
          /\ \/ refuse(i)
             \/ proc' = [proc EXCEPT ![i].pc = "reports", ![i].turns = <<>>, ![i].fresh = TRUE,
                                     ![i].evidence = @ \cup {item(i)},
                                     ![i].reported = @ \cup ({item(i)} \cap dirs),
                                     ![i].receipted = @ \cup {x \in {item(i)} : exists(Receipt(x))}]
      BY <1>3 DEF ClosePack, at
    <2>2. CASE ~refuse(i)
      <3> DEFINE known     == {item(i)}
                 reported  == {item(i)} \cap dirs
                 receipted == {x \in {item(i)} : exists(Receipt(x))}
      <3>0. proc' = [proc EXCEPT ![i].pc = "reports", ![i].turns = <<>>, ![i].fresh = TRUE,
                                 ![i].evidence = @ \cup known,
                                 ![i].reported = @ \cup reported,
                                 ![i].receipted = @ \cup receipted]
        BY <2>1, <2>2, Zenon
      <3> HIDE DEF known, reported, receipted
      <3>1. /\ OthersStay(i) /\ proc'[i].pc = "reports" /\ proc'[i].at = proc[i].at
            /\ proc'[i].turns = <<>>
        BY <1>0, <3>0 DEF OthersStay, Process
      <3>2. exists(Receipt("smoke")) /\ proc'[i].at \in Nat
        BY <1>0, <1>1, <2>1, <3>1, Standing
      <3> QED BY <1>0, <1>1, <3>1, <3>2, EmptyIsSequence, LandingKeeps
    <2> QED BY <1>0, <2>2, RefuseKeeps
  <1>4. CASE Judge(i)
    <2>1. /\ proc[i].pc = "judge"
          /\ \/ refuse(i)
             \/ proc' = [proc EXCEPT ![i].pc = "loop", ![i].at = @ + 1, ![i].fresh = FALSE]
      BY <1>4 DEF Judge, at
    <2>2. CASE ~refuse(i)
      <3>0. PICK place : /\ place = proc[i].at + 1
                         /\ proc' = [proc EXCEPT ![i].pc = "loop", ![i].at = place, ![i].fresh = FALSE]
        BY <2>1, <2>2
      <3>1. /\ OthersStay(i) /\ proc'[i].pc = "loop" /\ proc'[i].at = place
            /\ proc'[i].turns = proc[i].turns
        BY <1>0, <3>0 DEF OthersStay, Process
      <3>2. exists(Receipt("smoke")) /\ proc[i].turns = <<>>
        BY <1>0, <2>1, Standing
      <3>3. proc'[i].at \in Nat /\ proc'[i].turns = <<>>
        BY <1>1, <3>0, <3>1, <3>2
      <3> QED BY <1>0, <1>1, <3>1, <3>2, <3>3, EmptyIsSequence, LandingKeeps
    <2> QED BY <1>0, <2>2, RefuseKeeps
  <1> QED BY <1>2, <1>3, <1>4

LEMMA EvidenceKeeps ==
  ASSUME IInv, NEW i \in Procs,
         BeginReports(i) \/ NextReport(i) \/ WriteReceipt(i) \/ Finish(i)
  PROVE  IInv'
  <1>0. /\ UNCHANGED <<disk, bought>> /\ ~Writes(i)
        /\ proc[i].pc \in {"reports", "reported", "receipt", "loop"}
    BY DEF BeginReports, NextReport, WriteReceipt, Finish, disk_vars, paid_vars, Writes, at
  <1> USE DEF AfterDocuments, AfterSmoke, Unbought
  <1>1. /\ Filed /\ exists(Receipt("smoke")) /\ proc[i].turns = <<>> /\ proc[i].at \in Nat
    BY <1>0, Standing
  <1>2. ASSUME NEW to \in {"receipt", "judge"}, go(i, to) PROVE IInv'
    <2>1. Moved(i, to)
      BY <1>2, GoMoves DEF IInv
    <2>2. /\ OthersStay(i) /\ proc'[i].pc = to /\ proc'[i].at \in Nat /\ proc'[i].turns = <<>>
      BY <1>1, <2>1 DEF Moved
    <2> QED BY <1>0, <1>1, <2>2, EmptyIsSequence, LandingKeeps
  <1>3. ASSUME NEW k \in DOMAIN Report, Write(i, Reports(item(i))[k], "reported"),
               proc[i].pc \in {"reports", "reported"}
        PROVE  IInv'
    <2>1. Reports(item(i))[k] \in Range_(Reports(item(i)))
      BY DEF Reports, Range_
    <2> QED BY <1>0, <1>3, <2>1, ListsDiffer, WriteKeeps
  <1>4. CASE BeginReports(i)
    <2>1. /\ proc[i].pc = "reports"
          /\ \/ go(i, "receipt")
             \/ refuse(i)
             \/ Write(i, Reports(item(i))[1], "reported")
      BY <1>4 DEF BeginReports, at
    <2>2. 1 \in DOMAIN Report
      BY DEF Report
    <2> QED BY <1>0, <1>2, <1>3, <2>1, <2>2, RefuseKeeps
  <1>5. CASE NextReport(i)
    <2> DEFINE missing == {k \in DOMAIN Report : ~exists(Reports(item(i))[k])}
    <2>1. /\ proc[i].pc = "reported"
          /\ \/ go(i, "receipt")
             \/ missing # {} /\ Write(i, Reports(item(i))[Min(missing)], "reported")
      BY <1>5 DEF NextReport, at
    <2>2. missing # {} => Min(missing) \in DOMAIN Report
      <3>1. missing \subseteq DOMAIN Report
        OBVIOUS
      <3>2. DOMAIN Report \subseteq Nat
        BY DEF Report
      <3> HIDE DEF missing
      <3> QED BY <3>1, <3>2, MinIsThere
    <2> HIDE DEF missing
    <2> QED BY <1>2, <1>3, <2>1, <2>2
  <1>6. CASE WriteReceipt(i)
    <2>1. /\ proc[i].pc = "receipt"
          /\ go(i, "judge") \/ Write(i, Receipt(item(i)), "judge")
      BY <1>6 DEF WriteReceipt, at
    <2>2. CASE Write(i, Receipt(item(i)), "judge")
      BY <1>0, <2>1, <2>2, PathsDiffer, WriteKeeps
    <2> QED BY <1>2, <2>1, <2>2
  <1>7. CASE Finish(i)
    <2>1. refuse(i) \/ Write(i, Aggregate, "idle")
      BY <1>7 DEF Finish
    <2>2. CASE Write(i, Aggregate, "idle")
      BY <1>0, <2>2, PathsDiffer, WriteKeeps
    <2> QED BY <1>0, <2>1, <2>2, RefuseKeeps
  <1> QED BY <1>4, <1>5, <1>6, <1>7

-----------------------------------------------------------------------------
(* Publishing a file. *)

(* What a step of another leaves alone keeps what is known of a process. *)
LEMMA OthersKeep ==
  ASSUME IInv, NEW j \in Procs, proc'[j] = proc[j],
         \A x \in Paths : exists(x) => exists(x)',
         Owner(j) => /\ disk'[Bundle(item(j))] = disk[Bundle(item(j))]
                     /\ bought'[item(j)] = bought[item(j)]
  PROVE  ProcessHolds(j)'
  <1>1. ControlHolds(j) /\ WritesPaper(j) /\ PapersHold(j) /\ OwnershipHolds(j)
    BY DEF IInv, ProcessHolds
  <1>2. /\ Stage(j)' = Stage(j) /\ Writes(j)' = Writes(j) /\ item(j)' = item(j)
        /\ Owner(j)' = Owner(j)
    BY DEF Stage, Writes, Owner, item
  <1>3. ControlHolds(j)' /\ WritesPaper(j)'
    BY <1>1, <1>2 DEF ControlHolds, WritesPaper
  <1>4. PapersHold(j)'
    <2>1. Filed => Filed'
      BY ListsDiffer DEF Filed
    <2>2. exists(Receipt("smoke")) => exists(Receipt("smoke"))'
      BY ItemsAreThere, PathsAreThere
    <2> QED BY <1>1, <1>2, <2>1, <2>2 DEF PapersHold
  <1>5. OwnershipHolds(j)'
    <2>1. SUFFICES ASSUME Owner(j) PROVE OwnershipHolds(j)'
      BY <1>2 DEF OwnershipHolds
    <2>2. item(j) \in Items
      <3>1. Stage(j) \in {"call", "seal"}
        BY <2>1 DEF Owner, Stage, Writes
      <3> QED BY <1>1, <3>1, ItemsAreThere DEF ControlHolds
    <2>3. exists(Attempt(item(j)))'
      BY <1>1, <1>2, <2>1, <2>2, PathsAreThere DEF OwnershipHolds
    <2> QED BY <1>1, <1>2, <2>1, <2>3 DEF OwnershipHolds, exists
  <1> QED BY <1>3, <1>4, <1>5 DEF ProcessHolds

LEMMA OwnsAnItem ==
  ASSUME IInv, NEW i \in Procs, Stage(i) \in {"sandbox", "call", "seal"}
  PROVE  /\ item(i) \in Items /\ Attempt(item(i)) \in Paths
         /\ proc[i].at > 0 => item(i) \in Range_(Packs) /\ Bundle(item(i)) \in Paths
  <1>1. proc[i].at \in Nat /\ proc[i].at <= Len(Packs)
    BY DEF IInv, ProcessHolds, ControlHolds
  <1> QED BY <1>1, ItemsAreThere, PathsAreThere

(* Files are added, and what was bought stays: the purchases are on record. *)
LEMMA PaidStays ==
  ASSUME IInv, UNCHANGED bought,
         \A x \in Paths : exists(x) => exists(x)',
         \A p \in Range_(Packs) : exists(Bundle(p))' => exists(Bundle(p)) \/ exists(Attempt(p))
  PROVE  PaidHolds' /\ BoughtOnce' /\ PaidOnRecord'
  <1>1. Filed => Filed'
    BY ListsDiffer DEF Filed
  <1>2. exists(Receipt("smoke")) => exists(Receipt("smoke"))'
    BY ItemsAreThere, PathsAreThere
  <1>3. \A x \in Items : exists(Attempt(x)) => exists(Attempt(x))'
    BY PathsAreThere
  <1>4. PaidHolds'
    BY <1>3, ItemsAreThere DEF IInv, PaidHolds
  <1>5. PaidOnRecord'
    BY <1>1, <1>2, <1>3 DEF IInv, PaidOnRecord, Filed
  <1> QED BY <1>4, <1>5 DEF IInv, BoughtOnce

LEMMA UnlinkKeeps ==
  ASSUME IInv, NEW i \in Procs, Unlink(i)
  PROVE  IInv'
  <1>0. /\ UNCHANGED <<disk, bought>> /\ proc[i].pc = "unlink" /\ Stage(i) = proc[i].after
        /\ proc = [j \in Procs |-> proc[j]] /\ Process(proc[i])
    BY DEF Unlink, disk_vars, paid_vars, at, IInv, Shape, Stage, Writes
  <1>1. PICK to : to = proc[i].after
    OBVIOUS
  <1>2. proc' = [proc EXCEPT ![i].pc = to, ![i].path = NoPath, ![i].after = "idle",
                             ![i].temporary = FALSE]
    BY <1>1 DEF Unlink
  <1>3. /\ OthersStay(i) /\ proc'[i].pc = to /\ proc'[i].at = proc[i].at
        /\ proc'[i].turns = proc[i].turns /\ proc'[i].smoke = proc[i].smoke
    BY <1>0, <1>2 DEF OthersStay, Process
  <1>4. ControlHolds(i) /\ WritesPaper(i) /\ PapersHold(i) /\ Writes(i)
    BY <1>0 DEF IInv, ProcessHolds, Writes
  <1>5. to \in {"documents", "call", "failed", "answered", "smoke!", "idle", "reported", "judge"}
    BY <1>1, <1>4 DEF WritesPaper
  <1>6. ~Writes(i)' /\ Stage(i)' = to
    BY <1>3, <1>5 DEF Writes, Stage
  <1>7. ControlHolds(i)'
    BY <1>0, <1>1, <1>3, <1>4, <1>6 DEF ControlHolds
  <1>8. WritesPaper(i)'
    BY <1>6 DEF WritesPaper
  <1>9. PapersHold(i)'
    BY <1>0, <1>1, <1>3, <1>4, <1>6 DEF PapersHold, Filed, exists
  <1>10. Owner(i)' => /\ Owner(i) /\ proc[i].pc # "seal" /\ proc'[i].pc # "seal"
    BY <1>0, <1>1, <1>3, <1>5 DEF Owner
  <1> QED BY <1>0, <1>3, <1>7, <1>8, <1>9, <1>10, MoveKeeps

LEMMA LinkKeeps ==
  ASSUME IInv, NEW i \in Procs, Link(i)
  PROVE  IInv'
  <1>0. UNCHANGED bought /\ proc[i].pc = "link" /\ Writes(i) /\ Stage(i) = proc[i].after
    BY DEF Link, paid_vars, at, Stage, Writes
  <1>1. ControlHolds(i) /\ WritesPaper(i) /\ PapersHold(i)
    BY DEF IInv, ProcessHolds
  <1>2. CASE ~link(proc[i].path)
    BY <1>0, <1>2, RefuseKeeps DEF Link
  <1>3. CASE link(proc[i].path)
    <2>1. ~exists(proc[i].path) /\ go(i, "unlink") /\ disk' = [disk EXCEPT ![proc[i].path] = Document(i)]
      BY <1>3 DEF Link, link
    <2>2. PICK t : Document(i) = Whole(proc[i].by, t)
      BY DocumentIsWhole
    <2>3. PICK path, new : /\ path = proc[i].path /\ new = [by |-> proc[i].by, state |-> "whole", turns |-> t]
                           /\ disk' = [disk EXCEPT ![path] = new]
      BY <2>1, <2>2 DEF Whole
    <2>4. /\ disk = [x \in Paths |-> disk[x]]
          /\ \A x \in Paths : disk[x] = [by |-> disk[x].by, state |-> disk[x].state, turns |-> disk[x].turns]
      BY DEF IInv, Shape
    <2>5. new # NoFile /\ new = [by |-> new.by, state |-> new.state, turns |-> new.turns]
      BY <2>3 DEF NoFile
    <2>6. /\ disk' = [x \in Paths |-> disk'[x]]
          /\ \A x \in Paths : disk'[x] = IF x = path THEN new ELSE disk[x]
      BY <2>3, <2>4
    <2>7. Moved(i, "unlink") /\ proc'[i].path = proc[i].path /\ proc'[i].after = proc[i].after
      <3>1. proc = [j \in Procs |-> proc[j]] /\ Process(proc[i])
        BY DEF IInv, Shape
      <3> QED BY <2>1, <3>1, GoMoves DEF IInv, go, Process
    <2>8. /\ OthersStay(i) /\ proc'[i].pc = "unlink" /\ proc'[i].at = proc[i].at
          /\ proc'[i].turns = proc[i].turns /\ proc'[i].smoke = proc[i].smoke
      BY <2>7 DEF Moved
    <2>9. Shape'
      <3>1. \A x \in Paths :
              disk'[x] = [by |-> disk'[x].by, state |-> disk'[x].state, turns |-> disk'[x].turns]
        BY <2>4, <2>5, <2>6
      <3> QED BY <1>0, <2>6, <2>8, <3>1 DEF IInv, Shape, OthersStay
    <2>10. /\ \A x \in Paths : exists(x) => exists(x)'
           /\ path \in Paths => exists(path)'
      BY <2>1, <2>3, <2>5, <2>6 DEF exists
    <2>11. \A p \in Range_(Packs) : disk'[Bundle(p)] = disk[Bundle(p)]
      BY <1>0, <1>1, <2>3, <2>6, PathsAreThere DEF WritesPaper
    <2>12. \A x \in Items : exists(Attempt(x))' /\ ~exists(Attempt(x)) =>
             proc[i].after = "call" /\ item(i) = x
      <3>1. ASSUME NEW x \in Items, exists(Attempt(x))', ~exists(Attempt(x))
            PROVE  proc[i].after = "call" /\ item(i) = x
        <4>1. Attempt(x) = proc[i].path
          BY <2>3, <2>6, <3>1, PathsAreThere DEF exists
        <4>2. proc[i].after = "call" /\ proc[i].path = Attempt(item(i))
          BY <1>0, <1>1, <4>1 DEF WritesPaper
        <4> QED BY <4>1, <4>2, PathsDiffer
      <3> QED BY <3>1
    <2>13. /\ Writes(i)' /\ Stage(i)' = Stage(i) /\ item(i)' = item(i)
           /\ Owner(i)' <=> proc[i].after = "call"
      BY <1>0, <2>7, <2>8 DEF Writes, Stage, item, Owner
    <2>14. ASSUME NEW j \in Procs, j # i PROVE ProcessHolds(j)'
      <3>1. proc'[j] = proc[j]
        BY <2>8, <2>14 DEF OthersStay
      <3>2. Owner(j) => disk'[Bundle(item(j))] = disk[Bundle(item(j))]
        <4>1. CASE Bundle(item(j)) = path /\ Owner(j)
          <5>1. Stage(j) \in {"sandbox", "call", "seal"}
            BY <4>1 DEF Owner, Stage, Writes
          <5>2. CASE proc[j].at > 0
            BY <2>11, <5>1, <5>2, OwnsAnItem
          <5>3. CASE ~(proc[j].at > 0)
            <6>1. Bundle("smoke") \notin Paths \/ "smoke" \in Range_(Packs)
              BY BundlesArePacks
            <6>2. item(j) = "smoke"
              <7>1. proc[j].at \in Nat
                BY DEF IInv, ProcessHolds, ControlHolds
              <7> QED BY <5>3, <7>1 DEF item
            <6> QED BY <2>3, <2>4, <2>11, <6>1, <6>2
          <5> QED BY <5>2, <5>3
        <4>2. CASE Bundle(item(j)) # path
          BY <2>3, <2>4, <4>2
        <4> QED BY <4>1, <4>2
      <3> QED BY <1>0, <2>10, <3>1, <3>2, OthersKeep
    <2>15. ProcessHolds(i)'
      <3>1. ControlHolds(i)'
        BY <1>0, <1>1, <2>8, <2>13 DEF ControlHolds
      <3>2. WritesPaper(i)'
        BY <1>0, <1>1, <2>7, <2>13 DEF WritesPaper
      <3>3. PapersHold(i)'
        <4>1. Filed => Filed'
          BY <2>10, ListsDiffer DEF Filed
        <4>2. exists(Receipt("smoke")) => exists(Receipt("smoke"))'
          BY <2>10, ItemsAreThere, PathsAreThere
        <4>3. Stage(i) = "smoke!" => exists(Receipt("smoke"))'
          BY <1>0, <1>1, <2>3, <2>10, ItemsAreThere, PathsAreThere DEF WritesPaper
        <4> QED BY <1>1, <2>8, <2>13, <4>1, <4>2, <4>3 DEF PapersHold
      <3>4. OwnershipHolds(i)'
        <4>1. SUFFICES ASSUME proc[i].after = "call" PROVE OwnershipHolds(i)'
          BY <2>13 DEF OwnershipHolds
        <4>2. /\ item(i) \in Items /\ Attempt(item(i)) \in Paths
              /\ proc[i].at > 0 => item(i) \in Range_(Packs)
          BY <1>0, <4>1, OwnsAnItem
        <4>3. proc[i].path = Attempt(item(i)) /\ ~exists(Attempt(item(i)))
          BY <1>0, <1>1, <2>1, <4>1 DEF WritesPaper
        <4>4. exists(Attempt(item(i)))'
          BY <2>3, <2>10, <2>13, <4>2, <4>3
        <4>5. bought[item(i)] = 0
          <5>1. bought[item(i)] \in Nat /\ ~(bought[item(i)] > 0)
            BY <4>2, <4>3 DEF IInv, Shape, PaidHolds
          <5> QED BY <5>1
        <4>6. proc[i].at > 0 => ~exists(Bundle(item(i)))'
          BY <2>11, <2>13, <4>2, <4>3 DEF IInv, PaidHolds, exists
        <4> QED BY <1>0, <2>8, <2>13, <4>4, <4>5, <4>6 DEF OwnershipHolds, exists
      <3> QED BY <3>1, <3>2, <3>3, <3>4 DEF ProcessHolds
    <2>16. OneOwner'
      <3>1. ASSUME NEW j \in Procs, j # i, Owner(j), proc[i].after = "call"
            PROVE  item(j) # item(i)
        <4>1. exists(Attempt(item(j)))
          BY <3>1 DEF IInv, ProcessHolds, OwnershipHolds
        <4>2. ~exists(Attempt(item(i)))
          BY <1>0, <1>1, <2>1, <3>1 DEF WritesPaper
        <4> QED BY <4>1, <4>2
      <3>2. \A j \in Procs \ {i} : Owner(j)' = Owner(j) /\ item(j)' = item(j)
        BY <2>8 DEF OthersStay, Owner, item
      <3>3. Owner(i)' => proc[i].after = "call" /\ item(i)' = item(i)
        BY <2>13
      <3> QED BY <3>1, <3>2, <3>3 DEF IInv, OneOwner
    <2>17. PaidHolds' /\ BoughtOnce' /\ PaidOnRecord'
      BY <1>0, <2>10, <2>11, PaidStays DEF exists
    <2> QED BY <2>9, <2>14, <2>15, <2>16, <2>17 DEF IInv
  <1> QED BY <1>2, <1>3

-----------------------------------------------------------------------------
(* Buying, recording and sealing. *)

LEMMA Appended ==
  ASSUME NEW s, s \in Seq(Range_(s)), NEW e
  PROVE  Append(s, e) # <<>> /\ Append(s, e) \in Seq(Range_(Append(s, e)))
  <1>1. /\ Len(s) \in Nat /\ s \in [1..Len(s) -> Range_(s)]
    BY LenProperties
  <1>2. /\ Len(Append(s, e)) = Len(s) + 1
        /\ DOMAIN Append(s, e) = 1..(Len(s) + 1)
        /\ Append(s, e) \in Seq(Range_(s) \cup {e})
    <2>1. s \in Seq(Range_(s) \cup {e})
      BY <1>1, SeqDef
    <2> QED BY <1>1, <2>1, AppendProperties
  <1>3. Append(s, e) # <<>>
    BY <1>1, <1>2
  <1>4. Append(s, e) \in [1..(Len(s) + 1) -> Range_(Append(s, e))]
    <2>1. Append(s, e) \in [1..(Len(s) + 1) -> Range_(s) \cup {e}]
      BY <1>1, <1>2, LenProperties
    <2> QED BY <1>2, <2>1 DEF Range_
  <1>5. Len(s) + 1 \in Nat
    BY <1>1
  <1>6. Append(s, e) \in Seq(Range_(Append(s, e)))
    <2>1. PICK t : t = Append(s, e)
      OBVIOUS
    <2>2. PICK n \in Nat : n = Len(s) + 1
      BY <1>5
    <2>3. t \in [1..n -> Range_(t)]
      BY <1>4, <2>1, <2>2
    <2>4. t \in Seq(Range_(t))
      BY <2>3, SeqDef
    <2> QED BY <2>1, <2>4
  <1> QED BY <1>3, <1>6

LEMMA BuyKeeps ==
  ASSUME IInv, NEW i \in Procs, NEW turn, Buy(i, turn), UNCHANGED disk, OthersStay(i),
         proc[i].pc = "call", proc'[i].pc \in {"call", "close"},
         proc'[i].at = proc[i].at, proc'[i].smoke = proc[i].smoke,
         proc'[i].turns # <<>>, proc'[i].turns \in Seq(Range_(proc'[i].turns))
  PROVE  IInv'
  <1>1. /\ Stage(i) = "call" /\ Owner(i)
        /\ ControlHolds(i) /\ PapersHold(i) /\ OwnershipHolds(i)
    BY DEF IInv, ProcessHolds, Stage, Writes, Owner
  <1>2. item(i) \in Items /\ item(i)' = item(i) /\ exists(Attempt(item(i)))
    BY <1>1, OwnsAnItem DEF item, OwnershipHolds
  <1>3. bought \in [Items -> Nat]
    BY DEF IInv, Shape
  <1>4. /\ bought' = [x \in Items |-> bought'[x]]
        /\ \A x \in Items \ {item(i)} : bought'[x] = bought[x]
        /\ bought'[item(i)] \in {bought[item(i)], 1}
    <2>1. CASE proc[i].turns = <<>>
      <3>1. bought' = [bought EXCEPT ![item(i)] = bought[item(i)] + 1] /\ bought[item(i)] = 0
        BY <1>1, <2>1 DEF Buy, OwnershipHolds
      <3>2. bought' = [bought EXCEPT ![item(i)] = 1]
        BY <3>1
      <3> HIDE <3>1
      <3> QED BY <1>2, <1>3, <3>2
    <2>2. CASE proc[i].turns # <<>>
      BY <1>2, <1>3, <2>2 DEF Buy
    <2> QED BY <2>1, <2>2
  <1>5. bought' \in [Items -> Nat] /\ BoughtOnce'
    <2>1. \A x \in Items : bought'[x] \in Nat /\ (bought[x] <= 1 => bought'[x] <= 1)
      BY <1>2, <1>3, <1>4
    <2> QED BY <1>4, <2>1 DEF IInv, BoughtOnce
  <1>6. Shape'
    BY <1>5 DEF IInv, Shape, OthersStay
  <1>7. ASSUME NEW j \in Procs, j # i PROVE ProcessHolds(j)'
    <2>1. proc'[j] = proc[j] /\ (\A x \in Paths : exists(x) => exists(x)')
      BY <1>7 DEF OthersStay, exists
    <2>2. Owner(j) => bought'[item(j)] = bought[item(j)]
      <3>1. SUFFICES ASSUME Owner(j) PROVE bought'[item(j)] = bought[item(j)]
        OBVIOUS
      <3>2. item(j) # item(i)
        BY <1>1, <1>7, <3>1 DEF IInv, OneOwner
      <3>3. item(j) \in Items
        BY <3>1, OwnsAnItem DEF Owner, Stage, Writes
      <3> QED BY <1>4, <3>2, <3>3
    <2> QED BY <2>1, <2>2, OthersKeep
  <1>8. ProcessHolds(i)'
    <2>1. Stage(i)' \in {"call", "close"} /\ ~Writes(i)' /\ Stage(i)' = proc'[i].pc
      BY DEF Stage, Writes
    <2>2. ControlHolds(i)'
      BY <1>1, <2>1 DEF ControlHolds, Unbought, AfterSmoke
    <2>3. WritesPaper(i)'
      BY <2>1 DEF WritesPaper
    <2>4. PapersHold(i)'
      BY <1>1, <2>1 DEF PapersHold, Filed, exists, AfterDocuments, AfterSmoke
    <2>5. OwnershipHolds(i)'
      BY <1>1, <1>2, <2>1 DEF OwnershipHolds, exists, Owner
    <2> QED BY <2>2, <2>3, <2>4, <2>5 DEF ProcessHolds
  <1>9. OneOwner'
    <2>1. \A j \in Procs : Owner(j)' => Owner(j) /\ item(j)' = item(j)
      BY <1>1, <1>2 DEF OthersStay, Owner, item
    <2> QED BY <2>1 DEF IInv, OneOwner
  <1>10. PaidHolds' /\ PaidOnRecord'
    <2>1. Filed /\ (item(i) # "smoke" => exists(Receipt("smoke")))
      <3>1. proc[i].at \in Nat /\ (proc[i].at = 0 => item(i) = "smoke")
        BY <1>1 DEF ControlHolds, item
      <3>2. Filed
        BY <1>1 DEF PapersHold, AfterDocuments
      <3>3. proc[i].at > 0 => exists(Receipt("smoke"))
        BY <1>1 DEF PapersHold
      <3>4. item(i) # "smoke" => proc[i].at > 0
        BY <3>1
      <3> QED BY <3>2, <3>3, <3>4
    <2>2. \A x \in Items : bought'[x] > 0 => bought[x] > 0 \/ x = item(i)
      BY <1>4
    <2> QED BY <1>2, <2>1, <2>2 DEF IInv, PaidHolds, PaidOnRecord, Filed, exists
  <1> QED BY <1>5, <1>6, <1>7, <1>8, <1>9, <1>10 DEF IInv

LEMMA CallKeeps ==
  ASSUME IInv, NEW i \in Procs, CallSmoke(i) \/ CallTurn(i)
  PROVE  IInv'
  <1>0. /\ UNCHANGED disk /\ proc[i].pc = "call"
        /\ proc = [j \in Procs |-> proc[j]] /\ Process(proc[i])
    BY DEF CallSmoke, CallTurn, disk_vars, at, IInv, Shape
  <1>1. CASE CallSmoke(i)
    <2>1. PICK turn : Buy(i, turn) /\ proc' = [proc EXCEPT ![i].pc = "close", ![i].turns = <<turn>>]
      BY <1>1 DEF CallSmoke
    <2>2. PICK turns : turns = <<turn>>
      OBVIOUS
    <2>3. proc' = [proc EXCEPT ![i].pc = "close", ![i].turns = turns]
      BY <2>1, <2>2
    <2>4. /\ OthersStay(i) /\ proc'[i].pc = "close" /\ proc'[i].at = proc[i].at
          /\ proc'[i].turns = turns /\ proc'[i].smoke = proc[i].smoke
      BY <1>0, <2>3 DEF OthersStay, Process
    <2>5. turns # <<>> /\ turns \in Seq(Range_(turns))
      <3>1. turns \in Seq({turn}) /\ turns # <<>> /\ Range_(turns) = {turn}
        BY <2>2 DEF Range_
      <3> QED BY <3>1
    <2> QED BY <1>0, <2>1, <2>4, <2>5, BuyKeeps
  <1>2. CASE CallTurn(i)
    <2>1. PICK turn : Buy(i, turn) /\ proc' = [proc EXCEPT ![i].turns = Append(@, turn)]
      BY <1>2 DEF CallTurn
    <2>2. PICK turns : turns = Append(proc[i].turns, turn)
      OBVIOUS
    <2>3. proc' = [proc EXCEPT ![i].turns = turns]
      BY <2>1, <2>2
    <2>4. /\ OthersStay(i) /\ proc'[i].pc = "call" /\ proc'[i].at = proc[i].at
          /\ proc'[i].turns = turns /\ proc'[i].smoke = proc[i].smoke
      BY <1>0, <2>3 DEF OthersStay, Process
    <2>5. turns # <<>> /\ turns \in Seq(Range_(turns))
      <3>1. proc[i].turns \in Seq(Range_(proc[i].turns))
        BY DEF IInv, ProcessHolds, ControlHolds
      <3> QED BY <2>2, <3>1, Appended
    <2> QED BY <1>0, <2>1, <2>4, <2>5, BuyKeeps
  <1> QED BY <1>1, <1>2

(* The owner of an attempt writes its bundle. *)
LEMMA BundleKeeps ==
  ASSUME IInv, NEW i \in Procs, UNCHANGED bought, proc[i].at > 0,
         NEW from, NEW to, NEW new,
         proc[i].pc = from, Moved(i, to),
         \/ from = "call" /\ to = "seal" /\ proc[i].turns # <<>> /\ new.state = "partial"
         \/ from = "seal" /\ to = "close" /\ new.state = "whole",
         new = [by |-> new.by, state |-> new.state, turns |-> new.turns],
         disk' = [disk EXCEPT ![Bundle(item(i))] = new]
  PROVE  IInv'
  <1>1. /\ Stage(i) = from /\ Owner(i) /\ ~Writes(i)
        /\ ControlHolds(i) /\ PapersHold(i) /\ OwnershipHolds(i)
    BY DEF IInv, ProcessHolds, Stage, Writes, Owner
  <1>2. /\ item(i) \in Range_(Packs) /\ Bundle(item(i)) \in Paths
        /\ exists(Attempt(item(i)))
    BY <1>1, OwnsAnItem DEF OwnershipHolds
  <1>3. /\ OthersStay(i) /\ proc'[i].pc = to /\ proc'[i].at = proc[i].at
        /\ proc'[i].turns = proc[i].turns /\ proc'[i].smoke = proc[i].smoke
    BY DEF Moved
  <1>4. item(i)' = item(i)
    BY <1>3 DEF item
  <1>5. /\ disk = [x \in Paths |-> disk[x]]
        /\ \A x \in Paths : disk[x] = [by |-> disk[x].by, state |-> disk[x].state, turns |-> disk[x].turns]
    BY DEF IInv, Shape
  <1>6. new # NoFile
    BY DEF NoFile
  <1>7. /\ disk' = [x \in Paths |-> disk'[x]]
        /\ \A x \in Paths : disk'[x] = IF x = Bundle(item(i)) THEN new ELSE disk[x]
    BY <1>5
  <1>8. Shape'
    <2>1. \A x \in Paths :
            disk'[x] = [by |-> disk'[x].by, state |-> disk'[x].state, turns |-> disk'[x].turns]
      BY <1>5, <1>7
    <2> QED BY <1>3, <1>7, <2>1 DEF IInv, Shape, OthersStay
  <1>9. \A x \in Paths : exists(x) => exists(x)'
    BY <1>6, <1>7 DEF exists
  <1>10. ASSUME NEW j \in Procs, j # i PROVE ProcessHolds(j)'
    <2>1. proc'[j] = proc[j]
      BY <1>3, <1>10 DEF OthersStay
    <2>2. Owner(j) => disk'[Bundle(item(j))] = disk[Bundle(item(j))]
      <3>1. SUFFICES ASSUME Owner(j) PROVE disk'[Bundle(item(j))] = disk[Bundle(item(j))]
        OBVIOUS
      <3>2. Bundle(item(j)) # Bundle(item(i))
        BY <1>1, <1>10, <3>1, PathsDiffer DEF IInv, OneOwner
      <3> QED BY <3>2
    <2> QED BY <1>9, <2>1, <2>2, OthersKeep
  <1>11. ProcessHolds(i)'
    <2>1. to \in {"seal", "close"} /\ Stage(i)' = to /\ ~Writes(i)' /\ (Owner(i)' => to = "seal")
      BY <1>3 DEF Stage, Writes, Owner
    <2>2. ControlHolds(i)'
      BY <1>1, <1>3, <2>1 DEF ControlHolds, Unbought, AfterSmoke
    <2>3. WritesPaper(i)'
      BY <2>1 DEF WritesPaper
    <2>4. PapersHold(i)'
      <3>1. Filed /\ exists(Receipt("smoke"))
        BY <1>1 DEF PapersHold, AfterDocuments
      <3>2. Filed' /\ exists(Receipt("smoke"))'
        BY <1>9, <3>1, ListsDiffer, ItemsAreThere, PathsAreThere DEF Filed
      <3> QED BY <3>2 DEF PapersHold
    <2>5. OwnershipHolds(i)'
      <3>1. SUFFICES ASSUME to = "seal" PROVE OwnershipHolds(i)'
        BY <2>1 DEF OwnershipHolds
      <3>2. Attempt(item(i)) \in Paths
        BY <1>2, ItemsAreThere, PathsAreThere
      <3>3. exists(Attempt(item(i)))'
        BY <1>2, <1>4, <1>9, <3>2
      <3>4. proc'[i].turns # <<>> /\ disk'[Bundle(item(i))].state = "partial"
        BY <1>2, <1>3, <1>7, <3>1
      <3> QED BY <1>3, <1>4, <3>1, <3>3, <3>4 DEF OwnershipHolds
    <2> QED BY <2>2, <2>3, <2>4, <2>5 DEF ProcessHolds
  <1>12. OneOwner'
    <2>1. \A j \in Procs : Owner(j)' => Owner(j) /\ item(j)' = item(j)
      BY <1>1, <1>3, <1>4 DEF OthersStay, Owner, item
    <2> QED BY <2>1 DEF IInv, OneOwner
  <1>13. PaidHolds' /\ BoughtOnce' /\ PaidOnRecord'
    <2>1. \A p \in Range_(Packs) : exists(Bundle(p))' => exists(Bundle(p)) \/ exists(Attempt(p))
      BY <1>2, <1>7, PathsAreThere, PathsDiffer DEF exists
    <2> QED BY <1>9, <2>1, PaidStays
  <1> QED BY <1>8, <1>10, <1>11, <1>12, <1>13 DEF IInv

LEMMA RecordKeeps ==
  ASSUME IInv, NEW i \in Procs, Record(i)
  PROVE  IInv'
  <1>1. /\ proc[i].pc = "call" /\ proc[i].at > 0 /\ proc[i].turns # <<>> /\ UNCHANGED bought
        /\ Moved(i, "seal")
    BY GoMoves DEF Record, paid_vars, at, IInv
  <1>2. PICK new : /\ new = [by |-> proc[i].by, state |-> "partial", turns |-> proc[i].turns]
                   /\ disk' = [disk EXCEPT ![Bundle(item(i))] = new]
    BY DEF Record
  <1>3. new = [by |-> new.by, state |-> new.state, turns |-> new.turns] /\ new.state = "partial"
    BY <1>2
  <1> QED BY <1>1, <1>2, <1>3, BundleKeeps

LEMMA SealKeeps ==
  ASSUME IInv, NEW i \in Procs, Seal(i)
  PROVE  IInv'
  <1>1. /\ proc[i].pc = "seal" /\ UNCHANGED bought /\ Moved(i, "close")
    BY GoMoves DEF Seal, paid_vars, at, IInv
  <1>2. proc[i].at > 0
    BY <1>1 DEF IInv, ProcessHolds, ControlHolds, Stage, Writes
  <1>3. PICK old : old = disk[Bundle(item(i))]
    OBVIOUS
  <1>4. PICK new : new = [old EXCEPT !.state = "whole"]
    OBVIOUS
  <1>5. disk' = [disk EXCEPT ![Bundle(item(i))] = new]
    BY <1>3, <1>4 DEF Seal
  <1>6. Bundle(item(i)) \in Paths
    BY <1>1, <1>2, OwnsAnItem DEF Stage, Writes
  <1>7. old = [by |-> old.by, state |-> old.state, turns |-> old.turns]
    BY <1>3, <1>6 DEF IInv, Shape
  <1>8. new = [by |-> new.by, state |-> new.state, turns |-> new.turns] /\ new.state = "whole"
    BY <1>4, <1>7
  <1> QED BY <1>1, <1>2, <1>5, <1>8, BundleKeeps

-----------------------------------------------------------------------------
(* The invariant is inductive. *)
LEMMA InitHolds == Init => IInv
  <1>1. ASSUME Init PROVE IInv
    <2>1. /\ proc = [i \in Procs |-> Idle] /\ disk = [x \in Paths |-> NoFile]
          /\ bought = [x \in Items |-> 0]
      BY <1>1 DEF Init
    <2>2. /\ Idle.pc = "idle" /\ Idle.at = 0 /\ Idle.turns = <<>> /\ Idle.smoke = <<>>
      BY DEF Idle
    <2>3. Shape
      <3>1. NoFile = [by |-> NoFile.by, state |-> NoFile.state, turns |-> NoFile.turns]
        BY DEF NoFile
      <3> QED BY <2>1, <3>1, IdleIsProcess DEF Shape
    <2>4. ASSUME NEW i \in Procs PROVE ProcessHolds(i) /\ ~Owner(i)
      <3>1. proc[i].pc = "idle" /\ proc[i].at = 0 /\ proc[i].turns = <<>> /\ proc[i].smoke = <<>>
        BY <2>1, <2>2
      <3>2. ~Writes(i) /\ Stage(i) = "idle" /\ ~Owner(i)
        BY <3>1 DEF Writes, Stage, Owner
      <3>3. ControlHolds(i)
        BY <3>1, <3>2, EmptyIsSequence DEF ControlHolds, Unbought, AfterSmoke
      <3>4. WritesPaper(i) /\ PapersHold(i) /\ OwnershipHolds(i)
        BY <3>1, <3>2 DEF WritesPaper, PapersHold, OwnershipHolds, AfterDocuments, AfterSmoke
      <3> QED BY <3>2, <3>3, <3>4 DEF ProcessHolds
    <2>5. OneOwner
      BY <2>4 DEF OneOwner
    <2>6. PaidHolds /\ BoughtOnce /\ PaidOnRecord
      <3>1. \A x \in Items : bought[x] = 0
        BY <2>1
      <3>2. \A p \in Range_(Packs) : ~exists(Bundle(p))
        BY <2>1, PathsAreThere DEF exists
      <3>3. \A x \in Items : ~(bought[x] > 0) /\ bought[x] <= 1
        BY <3>1
      <3> QED BY <3>2, <3>3 DEF PaidHolds, BoughtOnce, PaidOnRecord
    <2> QED BY <2>3, <2>4, <2>5, <2>6 DEF IInv
  <1> QED BY <1>1

LEMMA Inductive == IInv /\ [Next]_vars => IInv'
  <1>1. ASSUME IInv, NEW i \in Procs, Step(i) PROVE IInv'
    <2>1. CASE Preflight(i) \/ PreflightPacks(i) \/ PreflightPack(i) \/ PreflightAggregate(i)
      BY <1>1, <2>1, PreflightKeeps
    <2>2. CASE MakeRoot(i) \/ MaterializeEstimates(i)
      BY <1>1, <2>2, DocumentsKeep
    <2>3. CASE StartSandbox(i) \/ CloseSmoke(i) \/ FailSmoke(i) \/ PassSmoke(i) \/ JudgeSmoke(i)
      BY <1>1, <2>3, SmokeKeeps
    <2>4. CASE Loop(i) \/ ClosePack(i) \/ Judge(i)
      BY <1>1, <2>4, LoopKeeps
    <2>5. CASE BeginReports(i) \/ NextReport(i) \/ WriteReceipt(i) \/ Finish(i)
      BY <1>1, <2>5, EvidenceKeeps
    <2>6. CASE EpisodeRaises(i)
      BY <1>1, <2>6, RefuseKeeps DEF EpisodeRaises, disk_vars, paid_vars
    <2>7. CASE Link(i)
      BY <1>1, <2>7, LinkKeeps
    <2>8. CASE Unlink(i)
      BY <1>1, <2>8, UnlinkKeeps
    <2>9. CASE CallSmoke(i) \/ CallTurn(i)
      BY <1>1, <2>9, CallKeeps
    <2>10. CASE Record(i)
      BY <1>1, <2>10, RecordKeeps
    <2>11. CASE Seal(i)
      BY <1>1, <2>11, SealKeeps
    <2> QED BY <1>1, <2>1, <2>2, <2>3, <2>4, <2>5, <2>6, <2>7, <2>8, <2>9, <2>10, <2>11 DEF Step
  <1>2. ASSUME IInv, NEW i \in Procs, Invoke(i) PROVE IInv'
    BY <1>2, InvokeKeeps
  <1>3. ASSUME IInv, NEW i \in Procs, Dies(i) PROVE IInv'
    <2>1. refuse(i) /\ UNCHANGED <<disk, bought>>
      BY <1>3 DEF Dies, paid_vars
    <2> QED BY <1>3, <2>1, RefuseKeeps
  <1>4. ASSUME IInv, UNCHANGED vars PROVE IInv'
    <2>1. UNCHANGED <<disk, proc, bought>>
      BY <1>4 DEF vars
    <2>2. Shape' /\ OneOwner' /\ PaidHolds' /\ BoughtOnce' /\ PaidOnRecord'
      BY <1>4, <2>1 DEF IInv, Shape, OneOwner, PaidHolds, BoughtOnce, PaidOnRecord, Owner,
                        exists, item
    <2>3. ASSUME NEW i \in Procs PROVE ProcessHolds(i)'
      BY <1>4, <2>1, OthersKeep DEF exists
    <2> QED BY <2>2, <2>3 DEF IInv
  <1> QED BY <1>1, <1>2, <1>3, <1>4 DEF Next

LEMMA SpecHolds == Spec => []IInv
  BY InitHolds, Inductive, PTL DEF Spec

-----------------------------------------------------------------------------
(* No call and no episode is bought twice by the matrix, however many      *)
(* invocations overlap and wherever they are killed: os.link gives the     *)
(* attempt receipt to one of them, and a bought item keeps its receipt.    *)
THEOREM MatrixBuysOnce == Spec => []BoughtOnce
  <1>1. IInv => BoughtOnce
    BY DEF IInv
  <1> QED BY <1>1, SpecHolds, PTL

(* What was bought had its authorization, its estimates and its attempt on *)
(* the disk first, and a pack the receipt of the passing smoke call: each  *)
(* stage of execute_matrix starts from the files the stages before it left *)
(* or found.                                                               *)
THEOREM MatrixPaysOnRecord == Spec => []PaidOnRecord
  <1>1. IInv => PaidOnRecord
    BY DEF IInv
  <1> QED BY <1>1, SpecHolds, PTL

(* What a step of a process may do to what was published. *)
Untouched(x) ==
  exists(x) =>
    disk'[x] = disk[x] \/ (disk[x].state = "partial" /\ disk'[x] = [disk[x] EXCEPT !.state = "whole"])

LEMMA StepLeavesFiles ==
  ASSUME IInv, NEW i \in Procs, Step(i), NEW x \in Paths
  PROVE  Untouched(x)
  <1>1. CASE Link(i)
    <2>1. CASE ~link(proc[i].path)
      BY <1>1, <2>1 DEF Link, Untouched
    <2>2. CASE link(proc[i].path)
      <3>1. ~exists(proc[i].path) /\ disk' = [disk EXCEPT ![proc[i].path] = Document(i)]
        BY <1>1, <2>2 DEF Link, link
      <3>2. PICK new : new = Document(i)
        OBVIOUS
      <3>3. exists(x) => disk'[x] = disk[x]
        BY <3>1, <3>2 DEF exists, IInv, Shape
      <3> QED BY <3>3 DEF Untouched
    <2> QED BY <2>1, <2>2
  <1>2. CASE Record(i) \/ Seal(i)
    <2>1. PICK new : disk' = [disk EXCEPT ![Bundle(item(i))] = new]
      BY <1>2 DEF Record, Seal
    <2>2. x # Bundle(item(i)) => disk'[x] = disk[x]
      BY <2>1 DEF IInv, Shape
    <2>3. CASE x = Bundle(item(i)) /\ Record(i)
      <3>1. OwnershipHolds(i) /\ proc[i].at > 0 /\ proc[i].pc = "call"
        BY <2>3 DEF IInv, ProcessHolds, Record, at
      <3>2. ~exists(x)
        BY <2>3, <3>1 DEF OwnershipHolds, Owner
      <3> QED BY <3>2 DEF Untouched
    <2>4. CASE x = Bundle(item(i)) /\ Seal(i)
      <3>1. OwnershipHolds(i) /\ proc[i].pc = "seal"
        BY <2>4 DEF IInv, ProcessHolds, Seal, at
      <3>2. disk[x].state = "partial"
        BY <2>4, <3>1 DEF OwnershipHolds, Owner
      <3>3. PICK old : old = disk[x]
        OBVIOUS
      <3>4. disk' = [disk EXCEPT ![x] = [old EXCEPT !.state = "whole"]]
        BY <2>4, <3>3 DEF Seal
      <3>5. disk'[x] = [old EXCEPT !.state = "whole"]
        BY <3>4 DEF IInv, Shape
      <3> QED BY <3>2, <3>3, <3>5 DEF Untouched
    <2> QED BY <1>2, <2>2, <2>3, <2>4 DEF Untouched
  <1>3. CASE ~Link(i) /\ ~Record(i) /\ ~Seal(i)
    <2>1. UNCHANGED disk
      BY <1>3 DEF Step, Unlink, Preflight, PreflightPacks, PreflightPack, PreflightAggregate,
                  MakeRoot, MaterializeEstimates, StartSandbox, CallSmoke, CloseSmoke, FailSmoke,
                  PassSmoke, JudgeSmoke, Loop, CallTurn, EpisodeRaises, ClosePack, BeginReports,
                  NextReport, WriteReceipt, Judge, Finish, disk_vars
    <2> QED BY <2>1 DEF Untouched
  <1> QED BY <1>1, <1>2, <1>3

(* A published file of the matrix is never written again, by the process   *)
(* that wrote it or another: _write_new links to a free name only, and a   *)
(* bundle is completed by the one process that owns its attempt.           *)
THEOREM MatrixEvidenceIsImmutable == Spec => Immutable
  <1> DEFINE Kept == \A x \in Paths :
        exists(x) =>
          disk'[x] = disk[x] \/ (disk[x].state = "partial" /\ disk'[x] = [disk[x] EXCEPT !.state = "whole"])
  <1>1. IInv /\ [Next]_vars => [Kept]_vars
    <2>1. ASSUME IInv, NEW i \in Procs, Step(i) PROVE Kept
      BY <2>1, StepLeavesFiles DEF Untouched
    <2>2. ASSUME NEW i \in Procs, Invoke(i) \/ Dies(i) PROVE Kept
      BY <2>2 DEF Invoke, Dies, disk_vars
    <2> QED BY <2>1, <2>2 DEF Next
  <1>2. Spec => []IInv /\ [][Next]_vars
    BY SpecHolds, PTL DEF Spec
  <1>3. Spec => [][Kept]_vars
    BY <1>1, <1>2, PTL
  <1> QED BY <1>3 DEF Immutable

-----------------------------------------------------------------------------
(* One set of settings. *)

(* Whoever writes anything but the authorization found or made that one. *)
Signed(i) ==
  Stage(i) \in AfterDocuments \/ (Writes(i) /\ proc[i].path # Authorization) =>
    disk[Authorization] = Whole(proc[i].by, <<>>)

Basis ==
  /\ \A i \in Procs : Signed(i)
  /\ \A x \in Paths : exists(x) =>
       exists(Authorization) /\ disk[x].by = disk[Authorization].by

(* A process goes on under its settings, to a file or without one. *)
GoesOn(i) ==
  /\ OthersStay(i)
  /\ proc'[i].by = proc[i].by

LEMMA GoGoesOn ==
  ASSUME Shape, NEW i \in Procs, NEW to, go(i, to)
  PROVE  /\ GoesOn(i) /\ proc'[i].pc = to
         /\ proc'[i].path = proc[i].path /\ proc'[i].after = proc[i].after
  <1>1. proc = [j \in Procs |-> proc[j]] /\ Process(proc[i])
    BY DEF Shape
  <1> QED BY <1>1, GoMoves DEF go, Moved, GoesOn, Process

LEMMA WriteGoesOn ==
  ASSUME Shape, NEW i \in Procs, NEW path, NEW after, Write(i, path, after)
  PROVE  \/ refuse(i)
         \/ /\ GoesOn(i) /\ Moved(i, "link") /\ ~exists(path)
            /\ proc'[i].path = path /\ proc'[i].after = after
  <1>1. proc = [j \in Procs |-> proc[j]] /\ Process(proc[i])
    BY DEF Shape
  <1>2. CASE ~exists(path)
    <2>1. proc' = [proc EXCEPT ![i].pc = "link", ![i].path = path, ![i].after = after,
                               ![i].temporary = TRUE]
      BY <1>2 DEF Write
    <2>2. proc'[i].by = proc[i].by /\ proc'[i].pc = "link"
      BY <1>1, <2>1 DEF Process
    <2> QED BY <2>2, WriteMoves DEF GoesOn, Moved, refuse, Idle
  <1> QED BY <1>2 DEF Write

LEMMA SignedStays ==
  ASSUME Basis, NEW i \in Procs, OthersStay(i), UNCHANGED disk, Signed(i)'
  PROVE  Basis'
  <1>1. ASSUME NEW j \in Procs, j # i PROVE Signed(j)'
    <2>1. proc'[j] = proc[j] /\ Signed(j)
      BY <1>1 DEF OthersStay, Basis
    <2> QED BY <2>1 DEF Signed, Stage, Writes
  <1> QED BY <1>1 DEF Basis, exists

LEMMA RefuseSigned ==
  ASSUME IInv, Basis, NEW i \in Procs, refuse(i), UNCHANGED disk
  PROVE  Basis'
  <1>1. OthersStay(i) /\ proc'[i] = Idle /\ Idle.pc = "idle"
    BY RefuseMoves DEF IInv, Idle
  <1>2. Signed(i)'
    BY <1>1 DEF Signed, Stage, Writes, AfterDocuments
  <1> QED BY <1>1, <1>2, SignedStays

(* A process goes to where the authorization is not needed, or comes from  *)
(* where it is, or has just seen it.                                       *)
LEMMA GoingSigned ==
  ASSUME IInv, Basis, NEW i \in Procs, GoesOn(i), UNCHANGED disk, ~Writes(i),
         proc'[i].pc \notin {"link", "unlink"},
         \/ proc'[i].pc \notin AfterDocuments
         \/ proc[i].pc \in AfterDocuments
         \/ is_doc(Authorization, i)
  PROVE  Basis'
  <1>1. Signed(i)'
    BY DEF Basis, GoesOn, Signed, Stage, Writes, is_doc
  <1> QED BY <1>1, SignedStays DEF GoesOn

LEMMA WritingSigned ==
  ASSUME IInv, Basis, NEW i \in Procs, NEW path, NEW after, Write(i, path, after),
         UNCHANGED disk, ~Writes(i),
         \/ proc[i].pc \in AfterDocuments
         \/ is_doc(Authorization, i)
         \/ path = Authorization /\ after \notin AfterDocuments
  PROVE  Basis'
  <1>1. CASE refuse(i)
    BY <1>1, RefuseSigned
  <1>2. CASE /\ GoesOn(i) /\ Moved(i, "link") /\ ~exists(path)
             /\ proc'[i].path = path /\ proc'[i].after = after
    <2>1. Writes(i)' /\ Stage(i)' = after /\ OthersStay(i)
      BY <1>2 DEF Writes, Stage, Moved
    <2>2. Signed(i)'
      BY <1>2, <2>1 DEF Basis, GoesOn, Signed, Stage, Writes, is_doc
    <2> QED BY <2>1, <2>2, SignedStays
  <1> QED BY <1>1, <1>2, WriteGoesOn DEF IInv

(* The documents are seen in order, the authorization first. *)
LEMMA DocumentsSigned ==
  ASSUME IInv, Basis, NEW i \in Procs, MaterializeEstimates(i)
  PROVE  Basis'
  <1> DEFINE missing == {k \in DOMAIN Documents : ~exists(Documents[k])}
             seen    == IF missing = {} THEN Range_(Documents) ELSE {Documents[k] : k \in 1..(Min(missing) - 1)}
  <1>0. UNCHANGED disk /\ ~Writes(i) /\ proc[i].pc = "documents"
    BY DEF MaterializeEstimates, Writes, at
  <1>1. \/ refuse(i)
        \/ missing # {} /\ (\A x \in seen : is_doc(x, i)) /\ Write(i, Documents[Min(missing)], "documents")
        \/ /\ missing = {} /\ \A x \in seen : is_doc(x, i)
           /\ go(i, IF proc[i].smoke = <<>> THEN "sandbox" ELSE "smoke!")
    BY DEF MaterializeEstimates
  <1>2. /\ DOMAIN Documents = 1..(2 + Len(Packs)) /\ Len(Packs) \in Nat
        /\ Documents[1] = Authorization
    <2>1. Len(Packs) \in Nat /\ DOMAIN Packs = 1..Len(Packs)
      BY LenProperties
    <2> QED BY <2>1 DEF Documents
  <1>3. CASE missing # {} /\ (\A x \in seen : is_doc(x, i)) /\ Write(i, Documents[Min(missing)], "documents")
    <2>1. PICK k : k = Min(missing)
      OBVIOUS
    <2>2. k \in DOMAIN Documents
      <3>1. missing \subseteq DOMAIN Documents
        OBVIOUS
      <3> HIDE DEF missing
      <3>2. missing \subseteq Nat
        BY <1>2, <3>1
      <3> QED BY <1>3, <2>1, <3>1, <3>2, MinIsThere
    <2>3. CASE k = 1
      BY <1>0, <1>2, <1>3, <2>1, <2>3, WritingSigned DEF AfterDocuments
    <2>4. CASE k # 1
      <3>1. Documents[1] \in seen
        <4>1. 1 \in 1..(k - 1)
          BY <1>2, <2>2, <2>4
        <4> QED BY <1>3, <2>1, <4>1
      <3>2. is_doc(Authorization, i)
        BY <1>2, <1>3, <3>1
      <3> HIDE DEF missing, seen
      <3> QED BY <1>0, <1>3, <3>2, WritingSigned
    <2> QED BY <2>3, <2>4
  <1>4. CASE /\ missing = {} /\ \A x \in seen : is_doc(x, i)
             /\ go(i, IF proc[i].smoke = <<>> THEN "sandbox" ELSE "smoke!")
    <2>1. Documents[1] \in Range_(Documents)
      BY <1>2 DEF Range_
    <2>2. is_doc(Authorization, i)
      BY <1>2, <1>4, <2>1
    <2>3. GoesOn(i) /\ proc'[i].pc \in {"sandbox", "smoke!"}
      <3>1. PICK to \in {"sandbox", "smoke!"} : go(i, to)
        BY <1>4
      <3> QED BY <3>1, GoGoesOn DEF IInv
    <2> HIDE DEF missing, seen
    <2> QED BY <1>0, <2>2, <2>3, GoingSigned
  <1> HIDE DEF missing, seen
  <1> QED BY <1>0, <1>1, <1>3, <1>4, RefuseSigned

(* What is linked is of the settings of the authorization. *)
LEMMA LinkSigned ==
  ASSUME IInv, Basis, NEW i \in Procs, Link(i)
  PROVE  Basis'
  <1>0. proc[i].pc = "link" /\ Writes(i)
    BY DEF Link, at, Writes
  <1>1. CASE ~link(proc[i].path)
    BY <1>1, RefuseSigned DEF Link
  <1>2. CASE link(proc[i].path)
    <2>1. ~exists(proc[i].path) /\ go(i, "unlink") /\ disk' = [disk EXCEPT ![proc[i].path] = Document(i)]
      BY <1>2 DEF Link, link
    <2>2. PICK t : Document(i) = Whole(proc[i].by, t)
      BY DocumentIsWhole
    <2>3. PICK path, new : /\ path = proc[i].path /\ new = [by |-> proc[i].by, state |-> "whole", turns |-> t]
                           /\ disk' = [disk EXCEPT ![path] = new]
      BY <2>1, <2>2 DEF Whole
    <2>4. new # NoFile
      BY <2>3 DEF NoFile
    <2>5. \A x \in Paths : disk'[x] = IF x = path THEN new ELSE disk[x]
      BY <2>3 DEF IInv, Shape
    <2>6. /\ GoesOn(i) /\ proc'[i].pc = "unlink"
          /\ proc'[i].path = proc[i].path /\ proc'[i].after = proc[i].after
      BY <2>1, GoGoesOn DEF IInv
    <2>7. /\ Writes(i)' /\ Stage(i)' = Stage(i)
      BY <1>0, <2>6 DEF Writes, Stage
    <2>8. Authorization \in Paths
      BY PathsAreThere
    <2>9. \A by : Whole(by, <<>>) # NoFile
      BY DEF Whole, NoFile
    <2>10. CASE path = Authorization
      <3>1. \A x \in Paths : ~exists(x)
        BY <2>1, <2>3, <2>10 DEF Basis
      <3>2. \A x \in Paths : exists(x)' => x = Authorization
        BY <2>5, <2>10, <3>1 DEF exists
      <3>3. exists(Authorization)'
        BY <2>4, <2>5, <2>8, <2>10 DEF exists
      <3>4. \A j \in Procs : disk[Authorization] # Whole(proc[j].by, <<>>)
        BY <2>8, <2>9, <3>1 DEF exists
      <3>5. ASSUME NEW j \in Procs PROVE Signed(j)'
        <4>1. CASE j = i
          BY <2>3, <2>6, <2>7, <2>10, <3>4, <4>1 DEF Basis, Signed
        <4>2. CASE j # i
          BY <2>6, <3>4, <4>2 DEF Basis, Signed, GoesOn, OthersStay, Writes, Stage
        <4> QED BY <4>1, <4>2
      <3> QED BY <3>2, <3>3, <3>5 DEF Basis
    <2>11. CASE path # Authorization
      <3>1. disk[Authorization] = Whole(proc[i].by, <<>>)
        BY <1>0, <2>3, <2>11 DEF Basis, Signed
      <3>2. /\ disk'[Authorization] = disk[Authorization]
            /\ disk[Authorization].by = proc[i].by /\ exists(Authorization)
        BY <2>5, <2>8, <2>9, <2>11, <3>1 DEF exists, Whole
      <3>3. new.by = proc[i].by
        BY <2>3
      <3>4. ASSUME NEW x \in Paths, exists(x)'
            PROVE  exists(Authorization)' /\ disk'[x].by = disk'[Authorization].by
        BY <2>5, <3>2, <3>3, <3>4 DEF Basis, exists
      <3>5. ASSUME NEW j \in Procs PROVE Signed(j)'
        <4>1. CASE j = i
          BY <2>6, <3>1, <3>2, <4>1 DEF Signed, GoesOn
        <4>2. CASE j # i
          BY <2>6, <3>2, <4>2 DEF Basis, Signed, GoesOn, OthersStay, Writes, Stage
        <4> QED BY <4>1, <4>2
      <3> QED BY <3>4, <3>5 DEF Basis
    <2> QED BY <2>10, <2>11
  <1> QED BY <1>1, <1>2

(* A bundle is of the settings of the process that bought it. *)
LEMMA BundleSigned ==
  ASSUME IInv, Basis, NEW i \in Procs, Record(i) \/ Seal(i)
  PROVE  Basis'
  <1>1. /\ proc[i].pc \in {"call", "seal"} /\ ~Writes(i) /\ Stage(i) = proc[i].pc
        /\ GoesOn(i) /\ proc'[i].pc \in {"seal", "close"}
    BY GoGoesOn DEF Record, Seal, at, Writes, Stage, IInv
  <1>2. disk[Authorization] = Whole(proc[i].by, <<>>)
    BY <1>1 DEF Basis, Signed, AfterDocuments
  <1>3. PICK path, new :
          /\ path = Bundle(item(i)) /\ disk' = [disk EXCEPT ![path] = new]
          /\ \/ path \in Paths => exists(path) /\ new.by = disk[path].by
             \/ new.by = proc[i].by
    <2>1. CASE Record(i)
      <3>1. PICK new : /\ new = [by |-> proc[i].by, state |-> "partial", turns |-> proc[i].turns]
                       /\ disk' = [disk EXCEPT ![Bundle(item(i))] = new]
        BY <2>1 DEF Record
      <3>2. new.by = proc[i].by
        BY <3>1
      <3> QED BY <3>1, <3>2
    <2>2. CASE Seal(i)
      <3>1. PICK path, old, new :
              /\ path = Bundle(item(i)) /\ old = disk[path] /\ new = [old EXCEPT !.state = "whole"]
              /\ disk' = [disk EXCEPT ![path] = new]
        BY <2>2 DEF Seal
      <3>2. ASSUME path \in Paths PROVE exists(path) /\ new.by = disk[path].by
        <4>1. old = [by |-> old.by, state |-> old.state, turns |-> old.turns]
          BY <3>1, <3>2 DEF IInv, Shape
        <4>2. old.state = "partial"
          BY <2>2, <3>1 DEF IInv, ProcessHolds, OwnershipHolds, Owner, Seal, at
        <4> QED BY <3>1, <4>1, <4>2 DEF exists, NoFile
      <3> QED BY <3>1, <3>2
    <2> QED BY <2>1, <2>2
  <1>4. Authorization \in Paths /\ Authorization # path
    BY <1>3, PathsAreThere, PathsDiffer
  <1>5. \A x \in Paths : disk'[x] = IF x = path THEN new ELSE disk[x]
    BY <1>3 DEF IInv, Shape
  <1>6. /\ disk'[Authorization] = disk[Authorization]
        /\ disk[Authorization].by = proc[i].by /\ exists(Authorization)
    BY <1>2, <1>4, <1>5 DEF exists, Whole, NoFile
  <1>7. ASSUME NEW x \in Paths, exists(x)'
        PROVE  exists(Authorization)' /\ disk'[x].by = disk'[Authorization].by
    <2>1. CASE x = path
      BY <1>3, <1>5, <1>6, <1>7, <2>1 DEF Basis, exists
    <2>2. CASE x # path
      BY <1>5, <1>6, <1>7, <2>2 DEF Basis, exists
    <2> QED BY <2>1, <2>2
  <1>8. ASSUME NEW j \in Procs PROVE Signed(j)'
    <2>1. CASE j = i
      BY <1>1, <1>2, <1>6, <2>1 DEF Signed, GoesOn
    <2>2. CASE j # i
      BY <1>1, <1>6, <2>2 DEF Basis, Signed, GoesOn, OthersStay, Writes, Stage
    <2> QED BY <2>1, <2>2
  <1> QED BY <1>7, <1>8 DEF Basis

(* Each other step leaves the disk, and a process where it may be. *)
LEMMA UnlinkSigned ==
  ASSUME IInv, Basis, NEW i \in Procs, Unlink(i)
  PROVE  Basis'
  <1>1. /\ UNCHANGED disk /\ Writes(i) /\ Stage(i) = proc[i].after
        /\ proc = [j \in Procs |-> proc[j]] /\ Process(proc[i])
    BY DEF Unlink, disk_vars, at, IInv, Shape, Stage, Writes
  <1>2. PICK to : to = proc[i].after
    OBVIOUS
  <1>3. proc' = [proc EXCEPT ![i].pc = to, ![i].path = NoPath, ![i].after = "idle",
                             ![i].temporary = FALSE]
    BY <1>2 DEF Unlink
  <1>4. OthersStay(i) /\ proc'[i].pc = to /\ proc'[i].by = proc[i].by
    BY <1>1, <1>3 DEF OthersStay, Process
  <1>5. to \notin {"link", "unlink"}
    BY <1>1, <1>2 DEF IInv, ProcessHolds, WritesPaper
  <1>6. Signed(i)'
    BY <1>1, <1>2, <1>4, <1>5 DEF Basis, Signed, Stage, Writes
  <1> QED BY <1>1, <1>4, <1>6, SignedStays

LEMMA MoveSigned ==
  ASSUME IInv, Basis, NEW i \in Procs,
         \/ Preflight(i) \/ PreflightPacks(i) \/ PreflightPack(i) \/ PreflightAggregate(i)
         \/ MakeRoot(i) \/ CallSmoke(i) \/ JudgeSmoke(i) \/ Loop(i) \/ CallTurn(i)
         \/ EpisodeRaises(i) \/ ClosePack(i) \/ Judge(i)
  PROVE  Basis'
  <1>0. /\ UNCHANGED disk /\ ~Writes(i) /\ proc = [j \in Procs |-> proc[j]] /\ Process(proc[i])
    BY DEF Preflight, PreflightPacks, PreflightPack, PreflightAggregate, MakeRoot, CallSmoke,
           JudgeSmoke, Loop, CallTurn, EpisodeRaises, ClosePack, Judge, disk_vars, Writes, at,
           IInv, Shape
  <1>2. CASE refuse(i)
    BY <1>0, <1>2, RefuseSigned
  <1>3. CASE Preflight(i) /\ ~refuse(i)
    <2>1. PICK smoke : proc' = [proc EXCEPT ![i].pc = "packs?", ![i].smoke = smoke]
      BY <1>3 DEF Preflight
    <2>2. GoesOn(i) /\ proc'[i].pc = "packs?"
      BY <1>0, <2>1 DEF GoesOn, OthersStay, Process
    <2> QED BY <1>0, <2>2, GoingSigned DEF AfterDocuments
  <1>4. CASE PreflightPacks(i) /\ ~refuse(i)
    <2>1. PICK to \in {"root", "pack?"}, place \in {1, proc[i].at} :
            proc' = [proc EXCEPT ![i].pc = to, ![i].at = place, ![i].resume = FALSE]
      <3>1. \/ proc' = [proc EXCEPT ![i].pc = "root", ![i].resume = FALSE]
            \/ proc' = [proc EXCEPT ![i].pc = "pack?", ![i].at = 1, ![i].resume = FALSE]
        BY <1>4 DEF PreflightPacks
      <3>2. CASE proc' = [proc EXCEPT ![i].pc = "root", ![i].resume = FALSE]
        <4>1. proc' = [proc EXCEPT ![i].pc = "root", ![i].at = proc[i].at, ![i].resume = FALSE]
          BY <1>0, <3>2 DEF Process
        <4> QED BY <4>1
      <3> QED BY <3>1, <3>2
    <2>2. GoesOn(i) /\ proc'[i].pc = to
      BY <1>0, <2>1 DEF GoesOn, OthersStay, Process
    <2> QED BY <1>0, <2>2, GoingSigned DEF AfterDocuments
  <1>5. CASE PreflightPack(i) /\ ~refuse(i)
    <2>1. PICK to \in {"pack?", "aggregate?"}, place \in {0, proc[i].at + 1}, known \in {{}, {item(i)}} :
            proc' = [proc EXCEPT ![i].pc = to, ![i].at = place,
                                 ![i].evidence = @ \cup known,
                                 ![i].reported = @ \cup (known \cap dirs),
                                 ![i].receipted = @ \cup {x \in known : exists(Receipt(x))}]
      BY <1>5 DEF PreflightPack
    <2>2. PICK reported, receipted :
            proc' = [proc EXCEPT ![i].pc = to, ![i].at = place,
                                 ![i].evidence = @ \cup known,
                                 ![i].reported = @ \cup reported,
                                 ![i].receipted = @ \cup receipted]
      BY <2>1, Zenon
    <2>3. GoesOn(i) /\ proc'[i].pc = to
      BY <1>0, <2>2 DEF GoesOn, OthersStay, Process
    <2> QED BY <1>0, <2>3, GoingSigned DEF AfterDocuments
  <1>6. CASE PreflightAggregate(i) /\ ~refuse(i)
    <2>1. GoesOn(i) /\ proc'[i].pc = "root"
      BY <1>6, GoGoesOn DEF PreflightAggregate, IInv
    <2> QED BY <1>0, <2>1, GoingSigned DEF AfterDocuments
  <1>7. CASE MakeRoot(i)
    <2>1. GoesOn(i) /\ proc'[i].pc = "documents"
      BY <1>0, <1>7 DEF MakeRoot, GoesOn, OthersStay, Process
    <2> QED BY <1>0, <2>1, GoingSigned DEF AfterDocuments
  <1>8. CASE CallSmoke(i) \/ CallTurn(i)
    <2>1. proc[i].pc = "call"
      BY <1>8 DEF CallSmoke, CallTurn, at
    <2>2. PICK to, turns : /\ (to = "call" \/ to = "close")
                           /\ proc' = [proc EXCEPT ![i].pc = to, ![i].turns = turns]
      <3>1. CASE CallSmoke(i)
        <4>1. PICK turn, turns :
                turns = <<turn>> /\ proc' = [proc EXCEPT ![i].pc = "close", ![i].turns = turns]
          BY <3>1 DEF CallSmoke
        <4> QED BY <4>1
      <3>2. CASE CallTurn(i)
        <4>1. PICK turn, turns : turns = Append(proc[i].turns, turn) /\ proc' = [proc EXCEPT ![i].turns = turns]
          BY <3>2 DEF CallTurn
        <4>2. proc' = [proc EXCEPT ![i].pc = "call", ![i].turns = turns]
          BY <1>0, <2>1, <4>1 DEF Process
        <4> QED BY <4>2
      <3> QED BY <1>8, <3>1, <3>2
    <2>3. GoesOn(i) /\ proc'[i].pc = to
      BY <1>0, <2>2 DEF GoesOn, OthersStay, Process
    <2>4. proc'[i].pc \notin {"link", "unlink"} /\ proc[i].pc \in AfterDocuments
      BY <2>1, <2>2, <2>3 DEF AfterDocuments
    <2> QED BY <1>0, <2>3, <2>4, GoingSigned
  <1>9. CASE JudgeSmoke(i) /\ ~refuse(i)
    <2>1. /\ proc[i].pc = "smoke!"
          /\ \E turns : proc' = [proc EXCEPT ![i].pc = "loop", ![i].at = 1,
                                             ![i].smoke = turns, ![i].turns = <<>>]
      BY <1>9 DEF JudgeSmoke, at
    <2>2. PICK turns : proc' = [proc EXCEPT ![i].pc = "loop", ![i].at = 1,
                                            ![i].smoke = turns, ![i].turns = <<>>]
      BY <2>1
    <2>3. GoesOn(i) /\ proc'[i].pc = "loop"
      BY <1>0, <2>2 DEF GoesOn, OthersStay, Process
    <2> QED BY <1>0, <2>1, <2>3, GoingSigned DEF AfterDocuments
  <1>10. CASE Loop(i) /\ ~refuse(i)
    <2>1. proc[i].pc = "loop" /\ \E to \in {"reports", "sandbox"} : go(i, to)
      BY <1>10 DEF Loop, at
    <2>2. GoesOn(i) /\ proc'[i].pc \in {"reports", "sandbox"}
      BY <2>1, GoGoesOn DEF IInv
    <2> QED BY <1>0, <2>1, <2>2, GoingSigned DEF AfterDocuments
  <1>11. CASE ClosePack(i) /\ ~refuse(i)
    <2>1. /\ proc[i].pc = "close"
          /\ proc' = [proc EXCEPT ![i].pc = "reports", ![i].turns = <<>>, ![i].fresh = TRUE,
                                  ![i].evidence = @ \cup {item(i)},
                                  ![i].reported = @ \cup ({item(i)} \cap dirs),
                                  ![i].receipted = @ \cup {x \in {item(i)} : exists(Receipt(x))}]
      BY <1>11 DEF ClosePack, at
    <2>2. PICK known, reported, receipted :
            proc' = [proc EXCEPT ![i].pc = "reports", ![i].turns = <<>>, ![i].fresh = TRUE,
                                 ![i].evidence = @ \cup known,
                                 ![i].reported = @ \cup reported,
                                 ![i].receipted = @ \cup receipted]
      BY <2>1, Zenon
    <2>3. GoesOn(i) /\ proc'[i].pc = "reports"
      BY <1>0, <2>2 DEF GoesOn, OthersStay, Process
    <2> QED BY <1>0, <2>1, <2>3, GoingSigned DEF AfterDocuments
  <1>12. CASE Judge(i) /\ ~refuse(i)
    <2>1. PICK place : proc' = [proc EXCEPT ![i].pc = "loop", ![i].at = place, ![i].fresh = FALSE]
      BY <1>12 DEF Judge
    <2>2. GoesOn(i) /\ proc'[i].pc = "loop" /\ proc[i].pc = "judge"
      BY <1>0, <1>12, <2>1 DEF GoesOn, OthersStay, Process, Judge, at
    <2> QED BY <1>0, <2>2, GoingSigned DEF AfterDocuments
  <1> QED BY <1>2, <1>3, <1>4, <1>5, <1>6, <1>7, <1>8, <1>9, <1>10, <1>11, <1>12 DEF EpisodeRaises

LEMMA WriteSigned ==
  ASSUME IInv, Basis, NEW i \in Procs,
         \/ StartSandbox(i) \/ CloseSmoke(i) \/ FailSmoke(i) \/ PassSmoke(i)
         \/ BeginReports(i) \/ NextReport(i) \/ WriteReceipt(i) \/ Finish(i)
  PROVE  Basis'
  <1>1. /\ UNCHANGED disk /\ ~Writes(i) /\ proc[i].pc \in AfterDocuments
    BY DEF StartSandbox, CloseSmoke, FailSmoke, PassSmoke, BeginReports, NextReport,
           WriteReceipt, Finish, disk_vars, Writes, at, AfterDocuments
  <1>2. \/ refuse(i)
        \/ \E to \in {"receipt", "judge"} : go(i, to)
        \/ \E path, after : Write(i, path, after)
    BY DEF StartSandbox, CloseSmoke, FailSmoke, PassSmoke, BeginReports, NextReport,
           WriteReceipt, Finish, fails_smoke
  <1>3. ASSUME NEW to \in {"receipt", "judge"}, go(i, to) PROVE Basis'
    BY <1>1, <1>3, GoGoesOn, GoingSigned DEF IInv
  <1>4. ASSUME NEW path, NEW after, Write(i, path, after) PROVE Basis'
    BY <1>1, <1>4, WritingSigned
  <1> QED BY <1>1, <1>2, <1>3, <1>4, RefuseSigned

LEMMA BasisHolds == Spec => []Basis
  <1>1. Init => Basis
    <2>1. ASSUME Init PROVE Basis
      <3>1. Idle.pc = "idle"
        BY DEF Idle
      <3> QED BY <2>1, <3>1 DEF Init, Basis, Signed, Stage, Writes, exists, AfterDocuments
    <2> QED BY <2>1
  <1>2. IInv /\ Basis /\ [Next]_vars => Basis'
    <2>1. ASSUME IInv, Basis, NEW i \in Procs, Step(i) PROVE Basis'
      BY <2>1, LinkSigned, UnlinkSigned, BundleSigned, DocumentsSigned, MoveSigned, WriteSigned
         DEF Step
    <2>2. ASSUME IInv, Basis, NEW i \in Procs, Invoke(i) PROVE Basis'
      <3>1. CASE UNCHANGED proc
        BY <2>2, <3>1 DEF Invoke, disk_vars, Basis, Signed, Stage, Writes, exists
      <3>2. CASE ~UNCHANGED proc
        <4>1. PICK s \in Settings, resume \in BOOLEAN :
                proc' = [proc EXCEPT ![i] = [Idle EXCEPT !.pc = "preflight", !.by = s.name,
                                                         !.prior = s.prior, !.resume = resume]]
          BY <2>2, <3>2 DEF Invoke
        <4>2. PICK begun : begun = [Idle EXCEPT !.pc = "preflight", !.by = s.name,
                                                !.prior = s.prior, !.resume = resume]
          OBVIOUS
        <4>3. Process(begun) /\ begun.pc = "preflight"
          BY <4>2 DEF Idle, Process
        <4>4. OthersStay(i) /\ proc'[i].pc = "preflight"
          BY <2>2, <4>1, <4>2, <4>3 DEF IInv, Shape, OthersStay
        <4>5. Signed(i)'
          BY <4>4 DEF Signed, Stage, Writes, AfterDocuments
        <4>6. UNCHANGED disk
          BY <2>2 DEF Invoke, disk_vars
        <4> QED BY <2>2, <4>4, <4>5, <4>6, SignedStays
      <3> QED BY <3>1, <3>2
    <2>3. ASSUME IInv, Basis, NEW i \in Procs, Dies(i) PROVE Basis'
      BY <2>3, RefuseSigned DEF Dies
    <2>4. ASSUME Basis, UNCHANGED vars PROVE Basis'
      BY <2>4 DEF vars, Basis, Signed, Stage, Writes, exists
    <2> QED BY <2>1, <2>2, <2>3, <2>4 DEF Next
  <1> QED BY <1>1, <1>2, SpecHolds, PTL DEF Spec

(* All the evidence under one output root was computed from one set of     *)
(* settings, whichever processes wrote it: a process publishes nothing     *)
(* before it made, or found as it would make it, the authorization, which  *)
(* only one can make.                                                      *)
THEOREM MatrixHasOneBasis == Spec => []OneBasis
  <1>1. Basis => OneBasis
    <2>1. ASSUME Basis PROVE OneBasis
      <3> DEFINE names == {disk[x].by : x \in {y \in Paths : exists(y)}}
      <3>1. PICK one : one = {disk[Authorization].by}
        OBVIOUS
      <3>2. IsFiniteSet(one) /\ Cardinality(one) = 1
        BY <3>1, FS_Singleton
      <3>3. names \subseteq one
        BY <2>1, <3>1 DEF Basis
      <3>4. Cardinality(names) <= 1
        <4> HIDE DEF names
        <4> QED BY <3>2, <3>3, FS_Subset
      <3> QED BY <3>4 DEF OneBasis
    <2> QED BY <2>1
  <1> QED BY <1>1, BasisHolds, PTL

-----------------------------------------------------------------------------
(* Purchases and the aggregate follow what proved good. *)

(* A process that is past the smoke call, at a pack or between two. *)
Looped(i) ==
  \/ Stage(i) \in AfterSmoke
  \/ Stage(i) \in {"sandbox", "call", "seal", "close"} /\ proc[i].at > 0

(* The packs before the one it is at proved good. *)
PlaceHolds(i) ==
  /\ Stage(i) = "pack?" => proc[i].at \in 1..Len(Packs)
  /\ Looped(i) => /\ proc[i].at \in 1..(Len(Packs) + 1)
                  /\ Stage(i) # "loop" => proc[i].at <= Len(Packs)
                  /\ \A m \in 1..(proc[i].at - 1) : proved_good(Packs[m])

(* What it holds of the smoke call is what is on the disk. *)
AnswerHolds(i) ==
  /\ proc[i].smoke # <<>> => exists(Response) /\ proc[i].smoke = disk[Response].turns
  /\ Writes(i) /\ proc[i].after = "answered" => proc[i].path = Response
  /\ \/ Stage(i) = "answered" /\ proc[i].pc # "link"
     \/ Stage(i) = "smoke!" /\ proc[i].smoke = <<>>
     => exists(Response) /\ proc[i].turns = disk[Response].turns
  /\ \/ Stage(i) \in {"failed", "answered"}
     \/ Stage(i) = "close" /\ proc[i].at = 0
     \/ Writes(i) /\ proc[i].after = "smoke!"
     => bought["smoke"] > 0
  /\ Looped(i) => exists(Response) /\ smoke_estimate_holds(disk[Response].turns)

(* What it holds of the packs is on the disk too. *)
EvidenceHolds(i) ==
  /\ proc[i].evidence \subseteq Range_(Packs)
  /\ proc[i].reported \cup proc[i].receipted \subseteq proc[i].evidence
  /\ \A p \in proc[i].evidence :
       disk[Bundle(p)].state = "whole" /\ accounted(p) <= authorization(p)
  /\ \A p \in proc[i].reported : reports_are_whole(p)
  /\ \A p \in proc[i].receipted : exists(Receipt(p))

(* What it derives is of evidence it holds. *)
DerivedHolds(i) ==
  /\ Stage(i) \in {"reports", "reported", "receipt", "judge"} => item(i) \in proc[i].evidence
  /\ Stage(i) \in {"receipt", "judge"} => reports_are_whole(item(i))
  /\ Stage(i) = "judge" /\ proc[i].pc # "link" => exists(Receipt(item(i)))
  /\ Writes(i) /\ proc[i].after = "judge" => proc[i].path = Receipt(item(i))
  /\ Writes(i) /\ proc[i].after \notin {"smoke!", "judge"} =>
       \A x \in Items : proc[i].path # Receipt(x)
  /\ Writes(i) /\ proc[i].path = Aggregate => \A x \in Items : proved_good(x)
  /\ proc[i].pc = "call" /\ proc[i].turns # <<>> => bought[item(i)] > 0

(* What is on the disk was come by. *)
Earned ==
  /\ exists(Receipt("smoke")) => bought["smoke"] > 0 /\ exists(Response)
  /\ exists(Aggregate) => \A x \in Items : proved_good(x)
  /\ \A p \in Range_(Packs) :
       /\ exists(Receipt(p)) => exists(Bundle(p))
       /\ exists(Bundle(p)) => bought[p] > 0
       /\ bought[p] > 0 =>
            \E l \in DOMAIN Packs : Packs[l] = p /\ \A m \in 1..(l - 1) : proved_good(Packs[m])

HoldsGood(i) == PlaceHolds(i) /\ AnswerHolds(i) /\ EvidenceHolds(i) /\ DerivedHolds(i)

Good == (\A i \in Procs : HoldsGood(i)) /\ Earned

-----------------------------------------------------------------------------
(* What was published and what was bought stays so. *)
Grown ==
  /\ \A x \in Paths : exists(x) =>
       /\ exists(x)' /\ disk'[x].turns = disk[x].turns
       /\ disk[x].state = "whole" => disk'[x].state = "whole"
  /\ \A x \in Items : bought[x] > 0 => bought'[x] > 0

LEMMA PacksAreThere ==
  /\ Len(Packs) \in Nat /\ Len(Packs) > 0 /\ DOMAIN Packs = 1..Len(Packs)
  /\ \A k \in 1..Len(Packs) : Packs[k] \in Range_(Packs)
  /\ \A p \in Range_(Packs) : \E k \in 1..Len(Packs) : Packs[k] = p
  /\ \A p \in Range_(Packs) : p # "smoke" /\ p # "matrix" /\ p \in Items
  /\ \A p \in Range_(Packs) : {Bundle(p), Receipt(p)} \cup Range_(Reports(p)) \subseteq Paths
  /\ {Receipt("smoke"), Response, Aggregate} \subseteq Paths
  <1>1. Len(Packs) \in Nat /\ DOMAIN Packs = 1..Len(Packs)
    BY LenProperties
  <1>2. Len(Packs) # 0
    BY <1>1, EmptySeq, MatrixAssumption DEF MatrixAssumption
  <1>3. Len(Packs) > 0
    BY <1>1, <1>2
  <1>4. /\ \A k \in 1..Len(Packs) : Packs[k] \in Range_(Packs)
        /\ \A p \in Range_(Packs) : \E k \in 1..Len(Packs) : Packs[k] = p
    BY <1>1 DEF Range_
  <1>5. \A p \in Range_(Packs) : p # "smoke" /\ p # "matrix" /\ p \in Items
    BY ItemsAreThere, MatrixAssumption DEF MatrixAssumption
  <1>6. \A p \in Range_(Packs) : {Bundle(p), Receipt(p)} \cup Range_(Reports(p)) \subseteq Paths
    BY <1>5, PathsAreThere
  <1>7. {Receipt("smoke"), Response, Aggregate} \subseteq Paths
    BY ItemsAreThere, PathsAreThere
  <1> QED BY <1>1, <1>3, <1>4, <1>5, <1>6, <1>7

LEMMA WholeIsThere ==
  ASSUME NEW x, disk[x].state = "whole"
  PROVE  exists(x)
  BY DEF exists, NoFile

LEMMA ReportsStay ==
  ASSUME Grown, NEW p \in Range_(Packs), reports_are_whole(p)
  PROVE  reports_are_whole(p)'
  <1>1. \A k \in DOMAIN Report : Reports(p)[k] \in Paths
    BY PacksAreThere DEF Reports, Range_
  <1> QED BY <1>1 DEF reports_are_whole, Grown

LEMMA GoodStays ==
  ASSUME Grown, Earned, NEW x \in Items, proved_good(x)
  PROVE  proved_good(x)'
  <1>1. CASE x = "smoke"
    <2>1. exists(Receipt("smoke")) /\ exists(Response) /\ smoke_estimate_holds(disk[Response].turns)
      BY <1>1 DEF proved_good, Earned
    <2>2. exists(Receipt("smoke"))' /\ disk'[Response].turns = disk[Response].turns
      BY <2>1, PacksAreThere DEF Grown
    <2> QED BY <1>1, <2>1, <2>2 DEF proved_good
  <1>2. CASE x # "smoke"
    <2>1. x \in Range_(Packs)
      BY <1>2 DEF Items
    <2>2. /\ exists(Receipt(x)) /\ exists(Bundle(x)) /\ reports_are_whole(x)
          /\ accounted(x) <= authorization(x) /\ pack_estimate_holds(x)
      BY <1>2, <2>1 DEF proved_good, Earned
    <2>3. exists(Receipt(x))' /\ disk'[Bundle(x)].turns = disk[Bundle(x)].turns
      BY <2>1, <2>2, PacksAreThere DEF Grown
    <2>4. accounted(x)' = accounted(x)
      BY <2>3 DEF accounted
    <2>5. pack_estimate_holds(x)' = pack_estimate_holds(x)
      BY <2>3 DEF pack_estimate_holds
    <2>6. (accounted(x) <= authorization(x))'
      BY <2>2, <2>4 DEF authorization
    <2> QED BY <1>2, <2>1, <2>2, <2>3, <2>5, <2>6, ReportsStay DEF proved_good
  <1> QED BY <1>1, <1>2

(* Evidence that is held stays evidence. *)
LEMMA EvidenceStays ==
  ASSUME Grown, NEW i, EvidenceHolds(i), proc'[i].evidence = proc[i].evidence,
         proc'[i].reported = proc[i].reported, proc'[i].receipted = proc[i].receipted
  PROVE  EvidenceHolds(i)'
  <1>1. ASSUME NEW p \in proc[i].evidence
        PROVE  (disk[Bundle(p)].state = "whole" /\ accounted(p) <= authorization(p))'
    <2>1. p \in Range_(Packs) /\ exists(Bundle(p)) /\ disk[Bundle(p)].state = "whole"
          /\ accounted(p) <= authorization(p)
      BY WholeIsThere DEF EvidenceHolds
    <2>2. disk'[Bundle(p)].state = "whole" /\ disk'[Bundle(p)].turns = disk[Bundle(p)].turns
      BY <2>1, PacksAreThere DEF Grown
    <2>3. accounted(p)' = accounted(p)
      BY <2>2 DEF accounted
    <2> QED BY <2>1, <2>2, <2>3 DEF authorization
  <1>2. ASSUME NEW p \in proc[i].reported PROVE reports_are_whole(p)'
    BY ReportsStay DEF EvidenceHolds
  <1>3. ASSUME NEW p \in proc[i].receipted PROVE exists(Receipt(p))'
    BY PacksAreThere DEF EvidenceHolds, Grown
  <1> QED BY <1>1, <1>2, <1>3 DEF EvidenceHolds

(* What is known of a process that does not move is not lost. *)
LEMMA OthersHoldGood ==
  ASSUME IInv, Good, Grown, NEW j \in Procs, proc'[j] = proc[j]
  PROVE  HoldsGood(j)'
  <1>0. PlaceHolds(j) /\ AnswerHolds(j) /\ EvidenceHolds(j) /\ DerivedHolds(j) /\ Earned
    BY DEF Good, HoldsGood
  <1>1. /\ Stage(j)' = Stage(j) /\ Writes(j)' = Writes(j) /\ Looped(j)' = Looped(j)
        /\ item(j)' = item(j)
    BY DEF Stage, Writes, Looped, item
  <1>2. PlaceHolds(j)'
    <2>1. ASSUME Looped(j), NEW m \in 1..(proc[j].at - 1) PROVE proved_good(Packs[m])'
      <3>1. m \in 1..Len(Packs) /\ proved_good(Packs[m])
        BY <1>0, <2>1, PacksAreThere DEF PlaceHolds
      <3> QED BY <1>0, <3>1, GoodStays, PacksAreThere
    <2> QED BY <1>0, <1>1, <2>1 DEF PlaceHolds
  <1>3. AnswerHolds(j)'
    <2>1. exists(Response) => exists(Response)' /\ disk'[Response].turns = disk[Response].turns
      BY PacksAreThere DEF Grown
    <2>2. bought["smoke"] > 0 => bought'["smoke"] > 0
      BY ItemsAreThere DEF Grown
    <2> QED BY <1>0, <1>1, <2>1, <2>2 DEF AnswerHolds
  <1>4. EvidenceHolds(j)'
    BY <1>0, EvidenceStays
  <1>5. DerivedHolds(j)'
    <2>1. ASSUME item(j) \in proc[j].evidence
          PROVE  /\ reports_are_whole(item(j)) => reports_are_whole(item(j))'
                 /\ exists(Receipt(item(j))) => exists(Receipt(item(j)))'
      <3>1. item(j) \in Range_(Packs)
        BY <1>0, <2>1 DEF EvidenceHolds
      <3>2. reports_are_whole(item(j)) => reports_are_whole(item(j))'
        <4>1. PICK p : p = item(j)
          OBVIOUS
        <4>2. reports_are_whole(p) => reports_are_whole(p)'
          BY <3>1, <4>1, ReportsStay
        <4> QED BY <1>1, <4>1, <4>2 DEF reports_are_whole, exists
      <3>3. exists(Receipt(item(j))) => exists(Receipt(item(j)))'
        BY <1>1, <3>1, PacksAreThere DEF Grown, exists
      <3> QED BY <3>2, <3>3
    <2>2. \A x \in Items : proved_good(x) => proved_good(x)'
      BY <1>0, GoodStays, PacksAreThere
    <2>3. proc[j].pc = "call" /\ bought[item(j)] > 0 => bought'[item(j)] > 0
      BY OwnsAnItem DEF Grown, Stage, Writes
    <2>4. Stage(j) \in {"receipt", "judge"} => reports_are_whole(item(j))'
      BY <1>0, <2>1 DEF DerivedHolds
    <2>5. Stage(j) = "judge" /\ proc[j].pc # "link" => exists(Receipt(item(j)))'
      BY <1>0, <2>1 DEF DerivedHolds
    <2> QED BY <1>0, <1>1, <2>2, <2>3, <2>4, <2>5 DEF DerivedHolds
  <1> QED BY <1>2, <1>3, <1>4, <1>5 DEF HoldsGood

(* A step that publishes and buys nothing. *)
LEMMA QuietGood ==
  ASSUME IInv, Good, NEW i \in Procs, OthersStay(i), UNCHANGED <<disk, bought>>, HoldsGood(i)'
  PROVE  Good'
  <1>1. Grown
    BY DEF Grown, exists
  <1>2. ASSUME NEW j \in Procs, j # i PROVE HoldsGood(j)'
    BY <1>1, <1>2, OthersHoldGood DEF OthersStay
  <1>3. \A p \in Items : proved_good(p) => proved_good(p)'
    BY <1>1, GoodStays DEF Good
  <1>4. Earned'
    <2>1. Earned
      BY DEF Good
    <2>2. ASSUME NEW p \in Range_(Packs), bought[p] > 0
          PROVE  \E l \in DOMAIN Packs : Packs[l] = p /\ \A m \in 1..(l - 1) : proved_good(Packs[m])'
      <3>1. PICK l \in DOMAIN Packs : Packs[l] = p /\ \A m \in 1..(l - 1) : proved_good(Packs[m])
        BY <2>1, <2>2 DEF Earned
      <3>2. \A m \in 1..(l - 1) : Packs[m] \in Items
        BY PacksAreThere
      <3> QED BY <1>3, <3>1, <3>2
    <2> QED BY <1>3, <2>1, <2>2, PacksAreThere DEF Earned, exists
  <1> QED BY <1>2, <1>4 DEF Good

-----------------------------------------------------------------------------
(* How a process moves, with what it holds. *)
Carries(i) ==
  /\ OthersStay(i)
  /\ proc'[i].at = proc[i].at /\ proc'[i].turns = proc[i].turns
  /\ proc'[i].smoke = proc[i].smoke
  /\ proc'[i].evidence = proc[i].evidence
  /\ proc'[i].reported = proc[i].reported
  /\ proc'[i].receipted = proc[i].receipted

LEMMA GoCarries ==
  ASSUME IInv, NEW i \in Procs, NEW to, go(i, to)
  PROVE  /\ Carries(i) /\ proc'[i].pc = to
         /\ proc'[i].path = proc[i].path /\ proc'[i].after = proc[i].after
  <1>1. proc = [j \in Procs |-> proc[j]] /\ Process(proc[i])
    BY DEF IInv, Shape
  <1>2. OthersStay(i)
    BY GoMoves DEF IInv, Moved
  <1> QED BY <1>1, <1>2 DEF go, Carries, Process

LEMMA WriteCarries ==
  ASSUME IInv, NEW i \in Procs, NEW path, NEW after, Write(i, path, after)
  PROVE  \/ refuse(i)
         \/ /\ Carries(i) /\ proc'[i].pc = "link" /\ ~exists(path)
            /\ proc'[i].path = path /\ proc'[i].after = after
  <1>1. proc = [j \in Procs |-> proc[j]] /\ Process(proc[i])
    BY DEF IInv, Shape
  <1>2. CASE ~exists(path)
    <2>1. proc' = [proc EXCEPT ![i].pc = "link", ![i].path = path, ![i].after = after,
                               ![i].temporary = TRUE]
      BY <1>2 DEF Write
    <2>2. OthersStay(i)
      BY <1>1, <2>1 DEF OthersStay, Process
    <2> QED BY <1>1, <1>2, <2>1, <2>2 DEF Carries, Process
  <1> QED BY <1>2 DEF Write

LEMMA RefuseGood ==
  ASSUME IInv, Good, NEW i \in Procs, refuse(i), UNCHANGED <<disk, bought>>
  PROVE  Good'
  <1>1. OthersStay(i) /\ proc'[i] = Idle
    BY RefuseMoves DEF IInv
  <1>2. /\ Idle.pc = "idle" /\ Idle.smoke = <<>>
        /\ Idle.evidence = {} /\ Idle.reported = {} /\ Idle.receipted = {}
    BY DEF Idle
  <1>3. /\ ~Writes(i)' /\ Stage(i)' = "idle" /\ ~Looped(i)' /\ proc'[i].smoke = <<>>
        /\ proc'[i].pc = "idle"
    BY <1>1, <1>2 DEF Writes, Stage, Looped, AfterSmoke
  <1>4. EvidenceHolds(i)'
    BY <1>1, <1>2 DEF EvidenceHolds
  <1>5. HoldsGood(i)'
    BY <1>3, <1>4 DEF HoldsGood, PlaceHolds, AnswerHolds, DerivedHolds
  <1> QED BY <1>1, <1>5, QuietGood

(* A process that carries what it holds to a stage without a file. *)
LEMMA LandingGood ==
  ASSUME IInv, Good, NEW i \in Procs, Carries(i), UNCHANGED <<disk, bought>>, ~Writes(i),
         NEW to \in {"root", "sandbox", "smoke!", "reports", "receipt", "judge"},
         proc'[i].pc = to,
         to = "smoke!" => proc[i].smoke # <<>>,
         to \in AfterSmoke \/ (to = "sandbox" /\ proc[i].at > 0) =>
           Looped(i) /\ proc[i].at <= Len(Packs),
         to \in {"reports", "receipt", "judge"} => item(i) \in proc[i].evidence,
         to \in {"receipt", "judge"} => reports_are_whole(item(i)),
         to = "judge" => exists(Receipt(item(i)))
  PROVE  Good'
  <1>1. /\ ~Writes(i)' /\ Stage(i)' = to /\ item(i)' = item(i) /\ OthersStay(i)
        /\ proc'[i].at = proc[i].at /\ proc'[i].smoke = proc[i].smoke
        /\ proc'[i].evidence = proc[i].evidence
        /\ Looped(i)' => Looped(i) /\ proc[i].at <= Len(Packs)
    BY DEF Carries, Writes, Stage, item, Looped
  <1>2. Grown
    BY DEF Grown, exists
  <1>3. PlaceHolds(i) /\ AnswerHolds(i) /\ EvidenceHolds(i) /\ Earned
    BY DEF Good, HoldsGood
  <1>4. PlaceHolds(i)'
    <2>1. ASSUME Looped(i), proc[i].at <= Len(Packs), NEW m \in 1..(proc[i].at - 1)
          PROVE proved_good(Packs[m])'
      <3>1. m \in 1..Len(Packs) /\ proved_good(Packs[m])
        BY <1>3, <2>1, PacksAreThere DEF PlaceHolds
      <3> QED BY <1>2, <1>3, <3>1, GoodStays, PacksAreThere
    <2> QED BY <1>1, <1>3, <2>1 DEF PlaceHolds
  <1>5. AnswerHolds(i)'
    BY <1>1, <1>3 DEF AnswerHolds, exists
  <1>6. EvidenceHolds(i)'
    BY <1>2, <1>3, EvidenceStays DEF Carries
  <1>7. DerivedHolds(i)'
    BY <1>1 DEF DerivedHolds, reports_are_whole, exists
  <1> QED BY <1>1, <1>4, <1>5, <1>6, <1>7, QuietGood DEF HoldsGood

(* A process that begins a file. *)
LEMMA WritingGood ==
  ASSUME IInv, Good, NEW i \in Procs, UNCHANGED <<disk, bought>>, ~Writes(i),
         NEW path,
         NEW after \in {"documents", "call", "failed", "answered", "smoke!", "idle",
                        "reported", "judge"},
         Write(i, path, after),
         after \in AfterSmoke \/ (after = "call" /\ proc[i].at > 0) =>
           Looped(i) /\ proc[i].at <= Len(Packs),
         after = "answered" => path = Response,
         after = "smoke!" => exists(Response) /\ proc[i].turns = disk[Response].turns,
         after \in {"failed", "answered", "smoke!"} => bought["smoke"] > 0,
         after \in {"reported", "judge"} => item(i) \in proc[i].evidence,
         after = "judge" => reports_are_whole(item(i)) /\ path = Receipt(item(i)),
         after \notin {"smoke!", "judge"} => \A x \in Items : path # Receipt(x),
         path = Aggregate => \A x \in Items : proved_good(x)
  PROVE  Good'
  <1>0. CASE refuse(i)
    BY <1>0, RefuseGood
  <1>1. CASE /\ Carries(i) /\ proc'[i].pc = "link"
             /\ proc'[i].path = path /\ proc'[i].after = after
    <2>1. /\ Writes(i)' /\ Stage(i)' = after /\ item(i)' = item(i) /\ OthersStay(i)
          /\ proc'[i].at = proc[i].at /\ proc'[i].smoke = proc[i].smoke
          /\ proc'[i].turns = proc[i].turns /\ proc'[i].evidence = proc[i].evidence
          /\ Looped(i)' => Looped(i) /\ proc[i].at <= Len(Packs)
      BY <1>1 DEF Carries, Writes, Stage, item, Looped
    <2>2. Grown
      BY DEF Grown, exists
    <2>3. PlaceHolds(i) /\ AnswerHolds(i) /\ EvidenceHolds(i) /\ Earned
      BY DEF Good, HoldsGood
    <2>4. PlaceHolds(i)'
      <3>1. ASSUME Looped(i), proc[i].at <= Len(Packs), NEW m \in 1..(proc[i].at - 1)
            PROVE proved_good(Packs[m])'
        <4>1. m \in 1..Len(Packs) /\ proved_good(Packs[m])
          BY <2>3, <3>1, PacksAreThere DEF PlaceHolds
        <4> QED BY <2>2, <2>3, <4>1, GoodStays, PacksAreThere
      <3> QED BY <2>1, <2>3, <3>1 DEF PlaceHolds
    <2>5. AnswerHolds(i)'
      BY <1>1, <2>1, <2>3 DEF AnswerHolds, exists
    <2>6. EvidenceHolds(i)'
      BY <1>1, <2>2, <2>3, EvidenceStays DEF Carries
    <2>7. DerivedHolds(i)'
      <3>1. path = Aggregate => \A x \in Items : proved_good(x)'
        BY <2>2, <2>3, GoodStays, PacksAreThere
      <3> QED BY <1>1, <2>1, <3>1 DEF DerivedHolds, reports_are_whole, exists
    <2> QED BY <2>1, <2>4, <2>5, <2>6, <2>7, QuietGood DEF HoldsGood
  <1> QED BY <1>0, <1>1, WriteCarries

-----------------------------------------------------------------------------
(* The files that are no receipts. *)
LEMMA ReceiptsApart ==
  ASSUME NEW x
  PROVE  /\ Response # Receipt(x) /\ Response # Aggregate
         /\ x # "matrix" => Receipt(x) # Aggregate
         /\ \A y : Attempt(y) # Receipt(x) /\ Attempt(y) # Aggregate
         /\ \A y : Receipt(y) = Receipt(x) => y = x
         /\ \A d \in Range_(Documents) : d # Receipt(x) /\ d # Aggregate
         /\ \A f \in Range_(Failures) : f # Receipt(x) /\ f # Aggregate
         /\ \A y : \A f \in Range_(Reports(y)) : f # Receipt(x) /\ f # Aggregate
  <1>1. /\ Response # Receipt(x) /\ Response # Aggregate
        /\ x # "matrix" => Receipt(x) # Aggregate
        /\ \A y : Attempt(y) # Receipt(x) /\ Attempt(y) # Aggregate
        /\ \A y : Receipt(y) = Receipt(x) => y = x
    BY DEF Response, Receipt, Aggregate, Attempt
  <1>2. \A f \in Range_(Failures) : f # Receipt(x) /\ f # Aggregate
    BY DEF Range_, Failures, Receipt, Aggregate
  <1>3. \A y : \A f \in Range_(Reports(y)) : f # Receipt(x) /\ f # Aggregate
    BY DEF Range_, Reports, Report, Receipt, Aggregate
  <1>4. ASSUME NEW d \in Range_(Documents) PROVE d # Receipt(x) /\ d # Aggregate
    <2>1. /\ DOMAIN Documents = 1..(2 + Len(Packs)) /\ Len(Packs) \in Nat
          /\ Documents[1] = Authorization /\ Documents[2] = Estimate("smoke")
          /\ \A k \in 1..Len(Packs) : Documents[2 + k] = Estimate(Packs[k])
      <3>1. Len(Packs) \in Nat /\ DOMAIN Packs = 1..Len(Packs)
        BY PacksAreThere
      <3> QED BY <3>1 DEF Documents
    <2>2. PICK k \in 1..(2 + Len(Packs)) : d = Documents[k]
      BY <2>1 DEF Range_
    <2>3. d = Authorization \/ \E y : d = Estimate(y)
      <3>1. CASE k \in 1..2
        BY <2>1, <2>2, <3>1
      <3>2. CASE k \notin 1..2
        <4>1. k - 2 \in 1..Len(Packs) /\ k = 2 + (k - 2)
          BY <2>1, <2>2, <3>2
        <4> QED BY <2>1, <2>2, <4>1
      <3> QED BY <3>1, <3>2
    <2> QED BY <2>3 DEF Authorization, Estimate, Receipt, Aggregate
  <1> QED BY <1>1, <1>2, <1>3, <1>4

LEMMA ItemsApart == \A x \in Items : Receipt(x) # Aggregate
  <1>1. \A x \in Items : x # "matrix"
    BY PacksAreThere DEF Items
  <1> QED BY <1>1, ReceiptsApart

(* What is known of a process that writes nothing. *)
LEMMA StandingGood ==
  ASSUME IInv, Good, NEW i \in Procs, ~Writes(i)
  PROVE  /\ Stage(i) = proc[i].pc /\ proc[i].pc # "link" /\ proc[i].at \in Nat
         /\ PlaceHolds(i) /\ AnswerHolds(i) /\ EvidenceHolds(i) /\ DerivedHolds(i)
         /\ Looped(i) <=> \/ proc[i].pc \in AfterSmoke
                          \/ proc[i].pc \in {"sandbox", "call", "seal", "close"} /\ proc[i].at > 0
         /\ proc = [j \in Procs |-> proc[j]] /\ Process(proc[i])
  BY DEF Good, HoldsGood, Stage, Writes, Looped, IInv, ProcessHolds, ControlHolds, Shape

LEMMA DocumentsGood ==
  ASSUME IInv, Good, NEW i \in Procs, MaterializeEstimates(i)
  PROVE  Good'
  <1> DEFINE missing == {k \in DOMAIN Documents : ~exists(Documents[k])}
  <1>0. UNCHANGED <<disk, bought>> /\ ~Writes(i) /\ proc[i].pc = "documents" /\ proc[i].at = 0
    BY Standing DEF MaterializeEstimates, Writes, at, paid_vars
  <1>1. \/ refuse(i)
        \/ missing # {} /\ Write(i, Documents[Min(missing)], "documents")
        \/ missing = {} /\ go(i, IF proc[i].smoke = <<>> THEN "sandbox" ELSE "smoke!")
    BY DEF MaterializeEstimates
  <1>2. CASE missing # {} /\ Write(i, Documents[Min(missing)], "documents")
    <2>1. DOMAIN Documents = 1..(2 + Len(Packs)) /\ Len(Packs) \in Nat
      BY PacksAreThere DEF Documents
    <2>2. missing \subseteq DOMAIN Documents
      OBVIOUS
    <2> HIDE DEF missing
    <2>3. missing \subseteq Nat
      BY <2>1, <2>2
    <2>4. PICK d : d = Documents[Min(missing)]
      OBVIOUS
    <2>5. d \in Range_(Documents)
      BY <1>2, <2>2, <2>3, <2>4, MinIsThere DEF Range_
    <2>6. d # Aggregate /\ \A x \in Items : d # Receipt(x)
      BY <2>5, ReceiptsApart
    <2> QED BY <1>0, <1>2, <2>4, <2>6, WritingGood DEF AfterSmoke
  <1>3. CASE go(i, IF proc[i].smoke = <<>> THEN "sandbox" ELSE "smoke!")
    <2>1. PICK to \in {"sandbox", "smoke!"} : go(i, to) /\ (to = "smoke!" => proc[i].smoke # <<>>)
      BY <1>3
    <2>2. Carries(i) /\ proc'[i].pc = to
      BY <2>1, GoCarries
    <2>3. to \notin AfterSmoke /\ ~(proc[i].at > 0) /\ to \notin {"reports", "receipt", "judge"}
      BY <1>0 DEF AfterSmoke
    <2>4. to \in {"root", "sandbox", "smoke!", "reports", "receipt", "judge"}
      OBVIOUS
    <2> HIDE DEF missing
    <2> QED BY <1>0, <2>1, <2>2, <2>3, <2>4, LandingGood
  <1> HIDE DEF missing
  <1> QED BY <1>0, <1>1, <1>2, <1>3, RefuseGood

LEMMA SmokeGood ==
  ASSUME IInv, Good, NEW i \in Procs,
         StartSandbox(i) \/ CloseSmoke(i) \/ FailSmoke(i) \/ PassSmoke(i)
  PROVE  Good'
  <1>0. /\ UNCHANGED <<disk, bought>> /\ ~Writes(i)
    BY DEF StartSandbox, CloseSmoke, FailSmoke, PassSmoke, disk_vars, paid_vars, Writes, at
  <1>1. /\ Stage(i) = proc[i].pc /\ proc[i].pc # "link" /\ proc[i].at \in Nat
        /\ PlaceHolds(i) /\ AnswerHolds(i)
    BY <1>0, StandingGood
  <1> USE DEF AfterSmoke
  <1>2. CASE StartSandbox(i)
    <2>1. proc[i].pc = "sandbox" /\ (Write(i, Attempt(item(i)), "call") \/ refuse(i))
      BY <1>2 DEF StartSandbox, at
    <2>2. proc[i].at > 0 => Looped(i) /\ proc[i].at <= Len(Packs)
      BY <1>1, <2>1 DEF Looped, PlaceHolds
    <2>3. PICK path : path = Attempt(item(i)) /\ path # Aggregate /\ \A x \in Items : path # Receipt(x)
      BY ReceiptsApart
    <2>4. CASE Write(i, Attempt(item(i)), "call")
      BY <1>0, <2>2, <2>3, <2>4, WritingGood
    <2> QED BY <1>0, <2>1, <2>4, RefuseGood
  <1>3. CASE CloseSmoke(i)
    <2>1. /\ proc[i].pc = "close" /\ proc[i].at = 0
          /\ \/ Write(i, Response, "answered")
             \/ Write(i, Failures[1], "failed")
             \/ Write(i, Failures[2], "idle")
      BY <1>3 DEF CloseSmoke, fails_smoke, at
    <2>2. bought["smoke"] > 0
      BY <1>1, <2>1 DEF AnswerHolds
    <2>3. Failures[1] \in Range_(Failures) /\ Failures[2] \in Range_(Failures)
      BY DEF Failures, Range_
    <2>4. /\ \A x \in Items : Response # Receipt(x) /\ Failures[1] # Receipt(x) /\ Failures[2] # Receipt(x)
          /\ Response # Aggregate /\ Failures[1] # Aggregate /\ Failures[2] # Aggregate
      BY <2>3, ReceiptsApart
    <2>5. CASE Write(i, Response, "answered")
      BY <1>0, <2>2, <2>4, <2>5, WritingGood
    <2>6. CASE Write(i, Failures[1], "failed")
      BY <1>0, <2>2, <2>4, <2>6, WritingGood
    <2>7. CASE Write(i, Failures[2], "idle")
      BY <1>0, <2>2, <2>4, <2>7, WritingGood
    <2> QED BY <2>1, <2>5, <2>6, <2>7
  <1>4. CASE FailSmoke(i)
    <2>1. Write(i, Failures[2], "idle")
      BY <1>4 DEF FailSmoke
    <2>2. Failures[2] \in Range_(Failures)
      BY DEF Failures, Range_
    <2>3. Failures[2] # Aggregate /\ \A x \in Items : Failures[2] # Receipt(x)
      BY <2>2, ReceiptsApart
    <2> QED BY <1>0, <2>1, <2>3, WritingGood
  <1>5. CASE PassSmoke(i)
    <2>1. proc[i].pc = "answered" /\ Write(i, Receipt("smoke"), "smoke!")
      BY <1>5 DEF PassSmoke, at
    <2>2. bought["smoke"] > 0 /\ exists(Response) /\ proc[i].turns = disk[Response].turns
      BY <1>1, <2>1 DEF AnswerHolds
    <2>3. Receipt("smoke") # Aggregate
      BY ItemsApart, ItemsAreThere
    <2> QED BY <1>0, <2>1, <2>2, <2>3, WritingGood
  <1> QED BY <1>2, <1>3, <1>4, <1>5

LEMMA LoopGood ==
  ASSUME IInv, Good, NEW i \in Procs,
         Loop(i) \/ BeginReports(i) \/ NextReport(i) \/ WriteReceipt(i) \/ Finish(i)
  PROVE  Good'
  <1>0. /\ UNCHANGED <<disk, bought>> /\ ~Writes(i)
    BY DEF Loop, BeginReports, NextReport, WriteReceipt, Finish, disk_vars, paid_vars, Writes, at
  <1>1. /\ Stage(i) = proc[i].pc /\ proc[i].pc # "link" /\ proc[i].at \in Nat
        /\ PlaceHolds(i) /\ AnswerHolds(i) /\ EvidenceHolds(i) /\ DerivedHolds(i)
        /\ proc[i].pc \in AfterSmoke /\ Looped(i)
    BY <1>0, StandingGood DEF Loop, BeginReports, NextReport, WriteReceipt, Finish, at, AfterSmoke
  <1>a. CASE refuse(i)
    BY <1>0, <1>a, RefuseGood
  <1>2. CASE Loop(i) /\ ~refuse(i)
    <2>1. /\ proc[i].at <= Len(Packs)
          /\ \E to \in {"reports", "sandbox"} :
               go(i, to) /\ (to = "reports" => item(i) \in proc[i].evidence)
      BY <1>2 DEF Loop
    <2>2. PICK to \in {"reports", "sandbox"} :
            go(i, to) /\ (to = "reports" => item(i) \in proc[i].evidence)
      BY <2>1
    <2>3. Carries(i) /\ proc'[i].pc = to
      BY <2>2, GoCarries
    <2> QED BY <1>0, <1>1, <2>1, <2>2, <2>3, LandingGood
  <1>3. ASSUME NEW k \in DOMAIN Report, Write(i, Reports(item(i))[k], "reported"),
               proc[i].pc \in {"reports", "reported"}
        PROVE  Good'
    <2>1. item(i) \in proc[i].evidence /\ proc[i].at <= Len(Packs)
      BY <1>1, <1>3 DEF DerivedHolds, PlaceHolds
    <2>2. PICK path : path = Reports(item(i))[k] /\ path \in Range_(Reports(item(i)))
      BY DEF Reports, Range_
    <2>3. path # Aggregate /\ \A x \in Items : path # Receipt(x)
      BY <2>2, ReceiptsApart
    <2> QED BY <1>0, <1>1, <1>3, <2>1, <2>2, <2>3, WritingGood
  <1>4. ASSUME go(i, "receipt"), proc[i].pc \in {"reports", "reported"},
               reports_are_whole(item(i))
        PROVE  Good'
    <2>1. item(i) \in proc[i].evidence /\ proc[i].at <= Len(Packs)
      BY <1>1, <1>4 DEF DerivedHolds, PlaceHolds
    <2>2. Carries(i) /\ proc'[i].pc = "receipt"
      BY <1>4, GoCarries
    <2> QED BY <1>0, <1>1, <1>4, <2>1, <2>2, LandingGood
  <1>5. CASE BeginReports(i) /\ ~refuse(i)
    <2>1. /\ proc[i].pc = "reports"
          /\ \/ item(i) \in proc[i].reported /\ go(i, "receipt")
             \/ Write(i, Reports(item(i))[1], "reported")
      BY <1>5 DEF BeginReports, at
    <2>2. 1 \in DOMAIN Report
      BY DEF Report
    <2>3. item(i) \in proc[i].reported => reports_are_whole(item(i))
      BY <1>1 DEF EvidenceHolds
    <2> QED BY <1>3, <1>4, <2>1, <2>2, <2>3
  <1>6. CASE NextReport(i)
    <2> DEFINE missing == {k \in DOMAIN Report : ~exists(Reports(item(i))[k])}
    <2>1. /\ proc[i].pc = "reported"
          /\ \/ missing = {} /\ go(i, "receipt")
             \/ missing # {} /\ Write(i, Reports(item(i))[Min(missing)], "reported")
      BY <1>6 DEF NextReport, at
    <2>2. missing = {} => reports_are_whole(item(i))
      BY DEF reports_are_whole
    <2>3. missing # {} => Min(missing) \in DOMAIN Report
      <3>1. missing \subseteq DOMAIN Report
        OBVIOUS
      <3>2. DOMAIN Report \subseteq Nat
        BY DEF Report
      <3> HIDE DEF missing
      <3> QED BY <3>1, <3>2, MinIsThere
    <2> HIDE DEF missing
    <2> QED BY <1>3, <1>4, <2>1, <2>2, <2>3
  <1>7. CASE WriteReceipt(i)
    <2>1. /\ proc[i].pc = "receipt"
          /\ \/ item(i) \in proc[i].receipted /\ go(i, "judge")
             \/ Write(i, Receipt(item(i)), "judge")
      BY <1>7 DEF WriteReceipt, at
    <2>2. /\ item(i) \in proc[i].evidence /\ reports_are_whole(item(i))
          /\ proc[i].at <= Len(Packs)
      BY <1>1, <2>1 DEF DerivedHolds, PlaceHolds
    <2>3. CASE item(i) \in proc[i].receipted /\ go(i, "judge")
      <3>1. exists(Receipt(item(i)))
        BY <1>1, <2>3 DEF EvidenceHolds
      <3>2. Carries(i) /\ proc'[i].pc = "judge"
        BY <2>3, GoCarries
      <3> QED BY <1>0, <1>1, <2>2, <3>1, <3>2, LandingGood
    <2>4. CASE Write(i, Receipt(item(i)), "judge")
      <3>1. item(i) \in Items
        BY <1>1, <2>2, PacksAreThere DEF EvidenceHolds
      <3>2. PICK path : path = Receipt(item(i)) /\ path # Aggregate
        BY <3>1, ItemsApart
      <3> QED BY <1>0, <1>1, <2>2, <2>4, <3>2, WritingGood
    <2> QED BY <2>1, <2>3, <2>4
  <1>8. CASE Finish(i) /\ ~refuse(i)
    <2>1. /\ proc[i].at > Len(Packs) /\ Write(i, Aggregate, "idle")
      BY <1>8 DEF Finish
    <2>2. ASSUME NEW x \in Items PROVE proved_good(x)
      <3>1. CASE x = "smoke"
        <4>1. exists(Receipt("smoke"))
          BY <1>0, <1>1, Standing
        <4> QED BY <1>1, <3>1, <4>1 DEF AnswerHolds, proved_good
      <3>2. CASE x # "smoke"
        <4>1. PICK k \in 1..Len(Packs) : Packs[k] = x
          BY <3>2, PacksAreThere DEF Items
        <4>2. k \in 1..(proc[i].at - 1)
          BY <1>1, <2>1, PacksAreThere
        <4> QED BY <1>1, <4>1, <4>2 DEF PlaceHolds
      <3> QED BY <3>1, <3>2
    <2>3. \A x \in Items : Aggregate # Receipt(x)
      BY ItemsApart
    <2> QED BY <1>0, <2>1, <2>2, <2>3, WritingGood DEF AfterSmoke
  <1> QED BY <1>a, <1>2, <1>5, <1>6, <1>7, <1>8

-----------------------------------------------------------------------------
(* Evidence that is checked is evidence that is held from then on. *)
LEMMA EvidenceAdds ==
  ASSUME NEW i, NEW p \in Range_(Packs), EvidenceHolds(i), evidence_holds(i, p), UNCHANGED disk,
         proc'[i].evidence = proc[i].evidence \cup {p},
         proc'[i].reported = proc[i].reported \cup ({p} \cap dirs),
         proc'[i].receipted = proc[i].receipted \cup {x \in {p} : exists(Receipt(x))}
  PROVE  EvidenceHolds(i)'
  <1>1. /\ disk[Bundle(p)].state = "whole" /\ reports_agree(p)
        /\ accounting_cost_upper_bound(disk[Bundle(p)].turns) <= authorization(p)
    BY DEF evidence_holds
  <1>2. ASSUME NEW q \in proc'[i].evidence
        PROVE  disk[Bundle(q)].state = "whole" /\ accounted(q) <= authorization(q)
    BY <1>1 DEF EvidenceHolds, accounted
  <1>3. ASSUME NEW q \in proc'[i].reported PROVE reports_are_whole(q)
    BY <1>1 DEF EvidenceHolds, reports_agree
  <1>4. \A q \in proc'[i].receipted : exists(Receipt(q))
    BY DEF EvidenceHolds
  <1>5. /\ proc'[i].evidence \subseteq Range_(Packs)
        /\ proc'[i].reported \cup proc'[i].receipted \subseteq proc'[i].evidence
    BY DEF EvidenceHolds
  <1>6. UNCHANGED <<disk>>
    OBVIOUS
  <1>7. \A q \in proc'[i].evidence : (disk[Bundle(q)].state = "whole" /\ accounted(q) <= authorization(q))'
    BY <1>2, <1>6 DEF accounted, authorization
  <1>8. \A q \in proc'[i].reported : reports_are_whole(q)'
    BY <1>3, <1>6 DEF reports_are_whole, exists
  <1> QED BY <1>4, <1>5, <1>6, <1>7, <1>8 DEF EvidenceHolds, exists

(* A stage at which nothing is looped over, asked or derived. *)
LEMMA EarlyGood ==
  ASSUME IInv, Good, NEW i \in Procs, OthersStay(i), UNCHANGED <<disk, bought>>,
         NEW to \in {"preflight", "packs?", "pack?", "aggregate?", "root", "documents"},
         proc'[i].pc = to, to = "pack?" => proc'[i].at \in 1..Len(Packs),
         proc'[i].smoke # <<>> => exists(Response) /\ proc'[i].smoke = disk[Response].turns,
         EvidenceHolds(i)'
  PROVE  Good'
  <1>1. ~Writes(i)' /\ Stage(i)' = to /\ ~Looped(i)'
    BY DEF Writes, Stage, Looped, AfterSmoke
  <1>2. PlaceHolds(i)' /\ DerivedHolds(i)'
    BY <1>1 DEF PlaceHolds, DerivedHolds
  <1>3. AnswerHolds(i)'
    BY <1>1 DEF AnswerHolds, exists
  <1> QED BY <1>2, <1>3, QuietGood DEF HoldsGood

LEMMA PreflightGood ==
  ASSUME IInv, Good, NEW i \in Procs,
         \/ Preflight(i) \/ PreflightPacks(i) \/ PreflightPack(i) \/ PreflightAggregate(i)
         \/ MakeRoot(i)
  PROVE  Good'
  <1>0. /\ UNCHANGED <<disk, bought>> /\ ~Writes(i)
        /\ proc = [j \in Procs |-> proc[j]] /\ Process(proc[i])
    BY DEF Preflight, PreflightPacks, PreflightPack, PreflightAggregate, MakeRoot, disk_vars,
           paid_vars, Writes, at, IInv, Shape
  <1>1. /\ Stage(i) = proc[i].pc /\ PlaceHolds(i) /\ AnswerHolds(i) /\ EvidenceHolds(i)
    BY <1>0, StandingGood
  <1>2. Grown
    BY <1>0 DEF Grown, exists
  <1>a. CASE refuse(i)
    BY <1>0, <1>a, RefuseGood
  <1>3. CASE Preflight(i) /\ ~refuse(i)
    <2>1. PICK turns : /\ turns = disk[Response].turns
                       /\ proc' = [proc EXCEPT ![i].pc = "packs?", ![i].smoke = turns]
      BY <1>3 DEF Preflight
    <2>2. /\ OthersStay(i) /\ proc'[i].pc = "packs?" /\ proc'[i].smoke = turns
          /\ proc'[i].evidence = proc[i].evidence
          /\ proc'[i].reported = proc[i].reported /\ proc'[i].receipted = proc[i].receipted
      BY <1>0, <2>1 DEF OthersStay, Process
    <2>3. turns # <<>> => exists(Response)
      BY <2>1 DEF exists, NoFile
    <2>4. EvidenceHolds(i)'
      BY <1>1, <1>2, <2>2, EvidenceStays
    <2> QED BY <1>0, <2>1, <2>2, <2>3, <2>4, EarlyGood
  <1>4. CASE PreflightPacks(i) /\ ~refuse(i)
    <2>1. \/ proc' = [proc EXCEPT ![i].pc = "root", ![i].resume = FALSE]
          \/ proc' = [proc EXCEPT ![i].pc = "pack?", ![i].at = 1, ![i].resume = FALSE]
      BY <1>4 DEF PreflightPacks
    <2>2. /\ OthersStay(i) /\ proc'[i].smoke = proc[i].smoke
          /\ proc'[i].pc \in {"root", "pack?"} /\ (proc'[i].pc = "pack?" => proc'[i].at = 1)
          /\ proc'[i].evidence = proc[i].evidence
          /\ proc'[i].reported = proc[i].reported /\ proc'[i].receipted = proc[i].receipted
      <3>1. CASE proc' = [proc EXCEPT ![i].pc = "root", ![i].resume = FALSE]
        BY <1>0, <3>1 DEF OthersStay, Process
      <3>2. CASE proc' = [proc EXCEPT ![i].pc = "pack?", ![i].at = 1, ![i].resume = FALSE]
        BY <1>0, <3>2 DEF OthersStay, Process
      <3> QED BY <2>1, <3>1, <3>2
    <2>3. EvidenceHolds(i)'
      BY <1>1, <1>2, <2>2, EvidenceStays
    <2>4. 1 \in 1..Len(Packs)
      BY PacksAreThere
    <2> QED BY <1>0, <1>1, <2>2, <2>3, <2>4, EarlyGood DEF AnswerHolds
  <1>5. CASE PreflightPack(i) /\ ~refuse(i)
    <2>0. proc[i].pc = "pack?" /\ proc[i].at \in 1..Len(Packs) /\ Len(Packs) \in Nat
      BY <1>1, <1>5, PacksAreThere DEF PreflightPack, at, PlaceHolds
    <2>1. item(i) \in Range_(Packs)
      BY <2>0, PacksAreThere DEF item
    <2>2. PICK to \in {"pack?", "aggregate?"}, place \in {0, proc[i].at + 1}, known \in {{}, {item(i)}} :
            /\ proc' = [proc EXCEPT ![i].pc = to, ![i].at = place,
                                    ![i].evidence = @ \cup known,
                                    ![i].reported = @ \cup (known \cap dirs),
                                    ![i].receipted = @ \cup {x \in known : exists(Receipt(x))}]
            /\ to = "pack?" => place = proc[i].at + 1 /\ proc[i].at # Len(Packs)
            /\ known # {} => pack_resumes(i, item(i))
      BY <1>5 DEF PreflightPack
    <2>3. PICK evidence, reported, receipted :
            /\ evidence = proc[i].evidence \cup known
            /\ reported = proc[i].reported \cup (known \cap dirs)
            /\ receipted = proc[i].receipted \cup {x \in known : exists(Receipt(x))}
      OBVIOUS
    <2>4. proc' = [proc EXCEPT ![i].pc = to, ![i].at = place, ![i].evidence = evidence,
                               ![i].reported = reported, ![i].receipted = receipted]
      BY <2>2, <2>3, Zenon
    <2>5. /\ OthersStay(i) /\ proc'[i].pc = to /\ proc'[i].at = place
          /\ proc'[i].smoke = proc[i].smoke /\ proc'[i].evidence = evidence
          /\ proc'[i].reported = reported /\ proc'[i].receipted = receipted
      BY <1>0, <2>4 DEF OthersStay, Process
    <2>6. EvidenceHolds(i)'
      <3>1. CASE known = {}
        <4>1. /\ evidence = proc[i].evidence /\ reported = proc[i].reported
              /\ receipted = proc[i].receipted
          BY <2>3, <3>1
        <4> QED BY <1>1, <1>2, <2>5, <4>1, EvidenceStays
      <3>2. CASE known = {item(i)}
        <4>1. evidence_holds(i, item(i))
          BY <2>2, <3>2 DEF pack_resumes
        <4> QED BY <1>0, <1>1, <2>1, <2>3, <2>5, <3>2, <4>1, EvidenceAdds
      <3> QED BY <3>1, <3>2
    <2>7. to = "pack?" => place \in 1..Len(Packs)
      BY <2>0, <2>2
    <2> QED BY <1>0, <1>1, <2>5, <2>6, <2>7, EarlyGood DEF AnswerHolds
  <1>6. CASE PreflightAggregate(i) /\ ~refuse(i)
    <2>1. Carries(i) /\ proc'[i].pc = "root"
      BY <1>6, GoCarries DEF PreflightAggregate
    <2>2. OthersStay(i) /\ proc'[i].smoke = proc[i].smoke
      BY <2>1 DEF Carries
    <2>3. EvidenceHolds(i)'
      BY <1>1, <1>2, <2>1, EvidenceStays DEF Carries
    <2> QED BY <1>0, <1>1, <2>1, <2>2, <2>3, EarlyGood DEF AnswerHolds
  <1>7. CASE MakeRoot(i)
    <2>1. /\ OthersStay(i) /\ proc'[i].pc = "documents" /\ proc'[i].smoke = proc[i].smoke
          /\ proc'[i].evidence = proc[i].evidence
          /\ proc'[i].reported = proc[i].reported /\ proc'[i].receipted = proc[i].receipted
      BY <1>0, <1>7 DEF MakeRoot, OthersStay, Process
    <2>2. EvidenceHolds(i)'
      BY <1>1, <1>2, <2>1, EvidenceStays
    <2> QED BY <1>0, <1>1, <2>1, <2>2, EarlyGood DEF AnswerHolds
  <1> QED BY <1>a, <1>3, <1>4, <1>5, <1>6, <1>7

(* The smoke call and a pack are judged, and the pack's evidence taken. *)
LEMMA JudgeGood ==
  ASSUME IInv, Good, NEW i \in Procs, JudgeSmoke(i) \/ ClosePack(i) \/ Judge(i)
  PROVE  Good'
  <1>0. /\ UNCHANGED <<disk, bought>> /\ ~Writes(i)
        /\ proc = [j \in Procs |-> proc[j]] /\ Process(proc[i])
    BY DEF JudgeSmoke, ClosePack, Judge, disk_vars, paid_vars, Writes, at, IInv, Shape
  <1>1. /\ Stage(i) = proc[i].pc /\ proc[i].pc # "link" /\ proc[i].at \in Nat
        /\ PlaceHolds(i) /\ AnswerHolds(i) /\ EvidenceHolds(i) /\ DerivedHolds(i) /\ Earned
    BY <1>0, StandingGood DEF Good
  <1>2. Grown
    BY <1>0 DEF Grown, exists
  <1> USE DEF AfterSmoke
  <1>a. CASE refuse(i)
    BY <1>0, <1>a, RefuseGood
  <1>3. CASE JudgeSmoke(i) /\ ~refuse(i)
    <2>1. PICK turns :
            /\ proc[i].pc = "smoke!" /\ smoke_estimate_holds(turns)
            /\ turns = IF proc[i].smoke = <<>> THEN proc[i].turns ELSE proc[i].smoke
            /\ proc' = [proc EXCEPT ![i].pc = "loop", ![i].at = 1, ![i].smoke = turns, ![i].turns = <<>>]
      BY <1>3 DEF JudgeSmoke, at
    <2>2. exists(Response) /\ turns = disk[Response].turns
      BY <1>1, <2>1 DEF AnswerHolds
    <2>3. /\ OthersStay(i) /\ proc'[i].pc = "loop" /\ proc'[i].at = 1 /\ proc'[i].smoke = turns
          /\ proc'[i].turns = <<>> /\ proc'[i].evidence = proc[i].evidence
          /\ proc'[i].reported = proc[i].reported /\ proc'[i].receipted = proc[i].receipted
      BY <1>0, <2>1 DEF OthersStay, Process
    <2>4. ~Writes(i)' /\ Stage(i)' = "loop"
      BY <2>3 DEF Writes, Stage
    <2>5. PlaceHolds(i)'
      <3>1. 1 \in 1..(Len(Packs) + 1) /\ 1..(1 - 1) = {}
        BY PacksAreThere
      <3> QED BY <2>3, <2>4, <3>1 DEF PlaceHolds
    <2>6. AnswerHolds(i)'
      BY <1>0, <2>1, <2>2, <2>3, <2>4 DEF AnswerHolds, exists
    <2>7. EvidenceHolds(i)'
      BY <1>1, <1>2, <2>3, EvidenceStays
    <2>8. DerivedHolds(i)'
      BY <2>3, <2>4 DEF DerivedHolds
    <2> QED BY <1>0, <2>3, <2>5, <2>6, <2>7, <2>8, QuietGood DEF HoldsGood
  <1>4. CASE ClosePack(i) /\ ~refuse(i)
    <2>1. /\ proc[i].pc = "close" /\ proc[i].at > 0 /\ evidence_holds(i, item(i))
          /\ proc' = [proc EXCEPT ![i].pc = "reports", ![i].turns = <<>>, ![i].fresh = TRUE,
                                  ![i].evidence = @ \cup {item(i)},
                                  ![i].reported = @ \cup ({item(i)} \cap dirs),
                                  ![i].receipted = @ \cup {x \in {item(i)} : exists(Receipt(x))}]
      BY <1>4 DEF ClosePack, at
    <2>2. Looped(i) /\ proc[i].at \in 1..Len(Packs) /\ Len(Packs) \in Nat
      BY <1>1, <2>1, PacksAreThere DEF Looped, PlaceHolds
    <2>3. item(i) \in Range_(Packs)
      BY <2>2, PacksAreThere DEF item
    <2>4. PICK evidence, reported, receipted :
            /\ evidence = proc[i].evidence \cup {item(i)}
            /\ reported = proc[i].reported \cup ({item(i)} \cap dirs)
            /\ receipted = proc[i].receipted \cup {x \in {item(i)} : exists(Receipt(x))}
      OBVIOUS
    <2>5. proc' = [proc EXCEPT ![i].pc = "reports", ![i].turns = <<>>, ![i].fresh = TRUE,
                               ![i].evidence = evidence, ![i].reported = reported,
                               ![i].receipted = receipted]
      BY <2>1, <2>4, Zenon
    <2>6. /\ OthersStay(i) /\ proc'[i].pc = "reports" /\ proc'[i].at = proc[i].at
          /\ proc'[i].turns = <<>> /\ proc'[i].smoke = proc[i].smoke
          /\ proc'[i].evidence = evidence
          /\ proc'[i].reported = reported /\ proc'[i].receipted = receipted
      BY <1>0, <2>5 DEF OthersStay, Process
    <2>7. ~Writes(i)' /\ Stage(i)' = "reports" /\ item(i)' = item(i)
      BY <2>6 DEF Writes, Stage, item
    <2>8. PlaceHolds(i)'
      <3>1. \A m \in 1..(proc[i].at - 1) : Packs[m] \in Items
        BY <2>2, PacksAreThere
      <3>2. \A m \in 1..(proc[i].at - 1) : proved_good(Packs[m])'
        BY <1>1, <1>2, <2>2, <3>1, GoodStays DEF PlaceHolds
      <3> QED BY <2>2, <2>6, <2>7, <3>2 DEF PlaceHolds
    <2>9. AnswerHolds(i)'
      BY <1>0, <1>1, <2>2, <2>6, <2>7 DEF AnswerHolds, exists
    <2>10. EvidenceHolds(i)'
      BY <1>0, <1>1, <2>1, <2>3, <2>4, <2>6, EvidenceAdds
    <2>11. DerivedHolds(i)'
      BY <2>4, <2>6, <2>7 DEF DerivedHolds
    <2> QED BY <1>0, <2>6, <2>8, <2>9, <2>10, <2>11, QuietGood DEF HoldsGood
  <1>5. CASE Judge(i) /\ ~refuse(i)
    <2>1. /\ proc[i].pc = "judge" /\ pack_estimate_holds(item(i))
          /\ proc' = [proc EXCEPT ![i].pc = "loop", ![i].at = @ + 1, ![i].fresh = FALSE]
      BY <1>5 DEF Judge, judged_good, at
    <2>2. PICK place : /\ place = proc[i].at + 1
                       /\ proc' = [proc EXCEPT ![i].pc = "loop", ![i].at = place, ![i].fresh = FALSE]
      BY <2>1
    <2>3. /\ OthersStay(i) /\ proc'[i].pc = "loop" /\ proc'[i].at = place
          /\ proc'[i].turns = proc[i].turns /\ proc'[i].smoke = proc[i].smoke
          /\ proc'[i].evidence = proc[i].evidence
          /\ proc'[i].reported = proc[i].reported /\ proc'[i].receipted = proc[i].receipted
      BY <1>0, <2>2 DEF OthersStay, Process
    <2>4. ~Writes(i)' /\ Stage(i)' = "loop"
      BY <2>3 DEF Writes, Stage
    <2>5. Looped(i) /\ proc[i].at \in 1..Len(Packs) /\ Len(Packs) \in Nat
      BY <1>1, <2>1, PacksAreThere DEF Looped, PlaceHolds
    <2>6. proved_good(Packs[proc[i].at])
      <3>1. PICK p : p = Packs[proc[i].at] /\ item(i) = p
        BY <2>5 DEF item
      <3>2. /\ exists(Receipt(p)) /\ reports_are_whole(p) /\ p \in proc[i].evidence
        BY <1>1, <2>1, <3>1 DEF DerivedHolds
      <3>3. p # "smoke" /\ accounted(p) <= authorization(p)
        BY <1>1, <3>2, PacksAreThere DEF EvidenceHolds
      <3> QED BY <2>1, <3>1, <3>2, <3>3 DEF proved_good
    <2>7. PlaceHolds(i)'
      <3>1. ASSUME NEW m \in 1..(place - 1) PROVE proved_good(Packs[m])'
        <4>1. m \in 1..Len(Packs) /\ (m = proc[i].at \/ m \in 1..(proc[i].at - 1))
          BY <2>2, <2>5
        <4>2. proved_good(Packs[m])
          BY <1>1, <2>5, <2>6, <4>1 DEF PlaceHolds
        <4> QED BY <1>1, <1>2, <4>1, <4>2, GoodStays, PacksAreThere
      <3>2. place \in 1..(Len(Packs) + 1)
        BY <2>2, <2>5
      <3> QED BY <2>3, <2>4, <3>1, <3>2 DEF PlaceHolds
    <2>8. AnswerHolds(i)'
      BY <1>0, <1>1, <2>3, <2>4, <2>5 DEF AnswerHolds, exists
    <2>9. EvidenceHolds(i)'
      BY <1>1, <1>2, <2>3, EvidenceStays
    <2>10. DerivedHolds(i)'
      BY <2>3, <2>4 DEF DerivedHolds
    <2> QED BY <1>0, <2>3, <2>7, <2>8, <2>9, <2>10, QuietGood DEF HoldsGood
  <1> QED BY <1>a, <1>3, <1>4, <1>5

LEMMA UnlinkGood ==
  ASSUME IInv, Good, NEW i \in Procs, Unlink(i)
  PROVE  Good'
  <1>0. /\ UNCHANGED <<disk, bought>> /\ proc[i].pc = "unlink" /\ Writes(i)
        /\ Stage(i) = proc[i].after
        /\ proc = [j \in Procs |-> proc[j]] /\ Process(proc[i])
    BY DEF Unlink, disk_vars, paid_vars, at, IInv, Shape, Stage, Writes
  <1>1. PICK to : to = proc[i].after
    OBVIOUS
  <1>2. proc' = [proc EXCEPT ![i].pc = to, ![i].path = NoPath, ![i].after = "idle",
                             ![i].temporary = FALSE]
    BY <1>1 DEF Unlink
  <1>3. Carries(i) /\ proc'[i].pc = to
    <2>1. OthersStay(i)
      BY <1>0, <1>2 DEF OthersStay, Process
    <2> QED BY <1>0, <1>2, <2>1 DEF Carries, Process
  <1>4. to \notin {"link", "unlink"}
    BY <1>0, <1>1 DEF IInv, ProcessHolds, WritesPaper
  <1>5. /\ ~Writes(i)' /\ Stage(i)' = Stage(i) /\ Looped(i)' = Looped(i)
        /\ item(i)' = item(i) /\ OthersStay(i)
        /\ proc'[i].at = proc[i].at /\ proc'[i].turns = proc[i].turns
        /\ proc'[i].smoke = proc[i].smoke /\ proc'[i].evidence = proc[i].evidence
    BY <1>0, <1>1, <1>3, <1>4 DEF Carries, Writes, Stage, Looped, item
  <1>6. PlaceHolds(i) /\ AnswerHolds(i) /\ EvidenceHolds(i) /\ DerivedHolds(i) /\ Earned
    BY DEF Good, HoldsGood
  <1>7. Grown
    BY <1>0 DEF Grown, exists
  <1>8. PlaceHolds(i)'
    <2>1. ASSUME Looped(i), NEW m \in 1..(proc[i].at - 1) PROVE proved_good(Packs[m])'
      <3>1. m \in 1..Len(Packs) /\ proved_good(Packs[m])
        BY <1>6, <2>1, PacksAreThere DEF PlaceHolds
      <3> QED BY <1>6, <1>7, <3>1, GoodStays, PacksAreThere
    <2> QED BY <1>5, <1>6, <2>1 DEF PlaceHolds
  <1>9. AnswerHolds(i)'
    BY <1>0, <1>5, <1>6 DEF AnswerHolds, exists
  <1>10. EvidenceHolds(i)'
    BY <1>3, <1>6, <1>7, EvidenceStays DEF Carries
  <1>11. DerivedHolds(i)'
    <2>1. to = "call" => proc[i].turns = <<>>
      BY <1>0, <1>1 DEF IInv, ProcessHolds, ControlHolds, Unbought
    <2> QED BY <1>0, <1>1, <1>3, <1>5, <1>6, <2>1 DEF DerivedHolds, reports_are_whole, exists
  <1> QED BY <1>0, <1>5, <1>8, <1>9, <1>10, <1>11, QuietGood DEF HoldsGood

LEMMA InvokeGood ==
  ASSUME IInv, Good, NEW i \in Procs, Invoke(i)
  PROVE  Good'
  <1>0. UNCHANGED <<disk, bought>> /\ proc = [j \in Procs |-> proc[j]]
    BY DEF Invoke, disk_vars, paid_vars, IInv, Shape
  <1>1. CASE UNCHANGED proc
    <2>1. Grown
      BY <1>0 DEF Grown, exists
    <2>2. OthersStay(i)
      BY <1>1 DEF IInv, Shape, OthersStay
    <2>3. HoldsGood(i)'
      BY <1>1, <2>1, OthersHoldGood
    <2> QED BY <1>0, <2>2, <2>3, QuietGood
  <1>2. CASE ~UNCHANGED proc
    <2>1. PICK s \in Settings, resume \in BOOLEAN :
            proc' = [proc EXCEPT ![i] = [Idle EXCEPT !.pc = "preflight", !.by = s.name,
                                                     !.prior = s.prior, !.resume = resume]]
      BY <1>2 DEF Invoke
    <2>2. PICK begun : begun = [Idle EXCEPT !.pc = "preflight", !.by = s.name,
                                            !.prior = s.prior, !.resume = resume]
      OBVIOUS
    <2>3. /\ Process(begun) /\ begun.pc = "preflight" /\ begun.smoke = <<>>
          /\ begun.evidence = {} /\ begun.reported = {} /\ begun.receipted = {}
      BY <2>2 DEF Idle, Process
    <2>4. OthersStay(i) /\ proc'[i] = begun
      BY <1>0, <2>1, <2>2, <2>3 DEF OthersStay
    <2>5. EvidenceHolds(i)'
      BY <2>3, <2>4 DEF EvidenceHolds
    <2>6. proc'[i].pc = "preflight" /\ proc'[i].smoke = <<>>
      BY <2>3, <2>4
    <2> QED BY <1>0, <2>4, <2>5, <2>6, EarlyGood
  <1> QED BY <1>1, <1>2

-----------------------------------------------------------------------------
(* The steps that publish or buy. *)
LEMMA StepGrows ==
  ASSUME IInv, NEW i \in Procs, Step(i),
         \A x \in Items : bought[x] > 0 => bought'[x] > 0
  PROVE  Grown
  <1>1. ASSUME NEW x \in Paths, exists(x)
        PROVE  /\ exists(x)' /\ disk'[x].turns = disk[x].turns
               /\ disk[x].state = "whole" => disk'[x].state = "whole"
    <2>1. \/ disk'[x] = disk[x]
          \/ disk[x].state = "partial" /\ disk'[x] = [disk[x] EXCEPT !.state = "whole"]
      BY <1>1, StepLeavesFiles DEF Untouched
    <2>2. CASE disk'[x] = disk[x]
      BY <1>1, <2>2 DEF exists
    <2>3. CASE disk[x].state = "partial" /\ disk'[x] = [disk[x] EXCEPT !.state = "whole"]
      <3>1. PICK old, new : old = disk[x] /\ new = [old EXCEPT !.state = "whole"]
        OBVIOUS
      <3>2. old = [by |-> old.by, state |-> old.state, turns |-> old.turns]
        BY <3>1 DEF IInv, Shape
      <3>3. new.state = "whole" /\ new.turns = old.turns
        BY <3>1, <3>2
      <3>4. disk'[x] = new
        BY <2>3, <3>1
      <3> QED BY <2>3, <3>1, <3>3, <3>4 DEF exists, NoFile
    <2> QED BY <2>1, <2>2, <2>3
  <1> QED BY <1>1 DEF Grown

(* The packs that proved good stay so, and so does the order of purchases. *)
LEMMA ChainStays ==
  ASSUME Grown, Earned, NEW p \in Range_(Packs), bought[p] > 0
  PROVE  \E l \in DOMAIN Packs : Packs[l] = p /\ \A m \in 1..(l - 1) : proved_good(Packs[m])'
  <1>1. PICK l \in DOMAIN Packs : Packs[l] = p /\ \A m \in 1..(l - 1) : proved_good(Packs[m])
    BY DEF Earned
  <1>2. \A m \in 1..(l - 1) : Packs[m] \in Items
    BY PacksAreThere
  <1> QED BY <1>1, <1>2, GoodStays

LEMMA LinkGood ==
  ASSUME IInv, Good, NEW i \in Procs, Link(i)
  PROVE  Good'
  <1>0. /\ UNCHANGED bought /\ proc[i].pc = "link" /\ Writes(i) /\ Stage(i) = proc[i].after
        /\ WritesPaper(i)
    BY DEF Link, paid_vars, at, Writes, Stage, IInv, ProcessHolds
  <1>1. CASE ~link(proc[i].path)
    BY <1>0, <1>1, RefuseGood DEF Link
  <1>2. CASE link(proc[i].path)
    <2>1. ~exists(proc[i].path) /\ go(i, "unlink") /\ disk' = [disk EXCEPT ![proc[i].path] = Document(i)]
      BY <1>2 DEF Link, link
    <2>2. PICK path, new : /\ path = proc[i].path /\ new = Document(i) /\ new # NoFile
                           /\ disk' = [disk EXCEPT ![path] = new]
      <3>1. PICK t : Document(i) = Whole(proc[i].by, t)
        BY DocumentIsWhole
      <3>2. Document(i) # NoFile
        BY <3>1 DEF Whole, NoFile
      <3> QED BY <2>1, <3>2
    <2>3. \A x \in Paths : disk'[x] = IF x = path THEN new ELSE disk[x]
      BY <2>2 DEF IInv, Shape
    <2>4. /\ \A x \in Paths : exists(x)' => exists(x) \/ x = path
          /\ path \in Paths => exists(path)'
      BY <2>2, <2>3 DEF exists
    <2>5. Grown
      BY <1>0, StepGrows DEF Step
    <2>6. /\ Carries(i) /\ proc'[i].pc = "unlink"
          /\ proc'[i].path = proc[i].path /\ proc'[i].after = proc[i].after
      BY <2>1, GoCarries
    <2>7. /\ Writes(i)' /\ Stage(i)' = Stage(i) /\ Looped(i)' = Looped(i) /\ item(i)' = item(i)
          /\ proc'[i].at = proc[i].at /\ proc'[i].turns = proc[i].turns
          /\ proc'[i].smoke = proc[i].smoke /\ proc'[i].evidence = proc[i].evidence
      BY <1>0, <2>6 DEF Carries, Writes, Stage, Looped, item
    <2>8. PlaceHolds(i) /\ AnswerHolds(i) /\ EvidenceHolds(i) /\ DerivedHolds(i) /\ Earned
      BY DEF Good, HoldsGood
    <2>9. PlaceHolds(i)'
      <3>1. ASSUME Looped(i), NEW m \in 1..(proc[i].at - 1) PROVE proved_good(Packs[m])'
        <4>1. m \in 1..Len(Packs) /\ proved_good(Packs[m])
          BY <2>8, <3>1, PacksAreThere DEF PlaceHolds
        <4> QED BY <2>5, <2>8, <4>1, GoodStays, PacksAreThere
      <3> QED BY <2>7, <2>8, <3>1 DEF PlaceHolds
    <2>10. AnswerHolds(i)'
      <3>1. exists(Response) => exists(Response)' /\ disk'[Response].turns = disk[Response].turns
        BY <2>5, PacksAreThere DEF Grown
      <3>2. Stage(i) = "answered" => exists(Response)' /\ proc[i].turns = disk'[Response].turns
        <4>1. SUFFICES ASSUME Stage(i) = "answered"
                       PROVE  exists(Response)' /\ proc[i].turns = disk'[Response].turns
          OBVIOUS
        <4>2. path = Response
          BY <1>0, <2>2, <2>8, <4>1 DEF AnswerHolds
        <4>3. new = Whole(proc[i].by, proc[i].turns)
          <5>1. Response # Aggregate /\ Response \notin Range_(Failures)
                /\ Response[1] \notin {"authorization", "estimate", "attempt"}
            BY DEF Response, Aggregate, Range_, Failures
          <5>2. proc[i].path = Response
            BY <2>2, <4>2
          <5>3. Document(i) = smoke_document(i)
            BY <5>1, <5>2 DEF Document
          <5> QED BY <2>2, <5>3 DEF smoke_document
        <4>4. new.turns = proc[i].turns
          BY <4>3 DEF Whole
        <4> QED BY <2>3, <2>4, <4>2, <4>4, PacksAreThere
      <3> QED BY <1>0, <2>6, <2>7, <2>8, <3>1, <3>2 DEF AnswerHolds
    <2>11. EvidenceHolds(i)'
      BY <2>5, <2>6, <2>8, EvidenceStays DEF Carries
    <2>12. DerivedHolds(i)'
      <3>1. Stage(i) = "judge" => reports_are_whole(item(i))' /\ exists(Receipt(item(i)))'
        <4>1. SUFFICES ASSUME Stage(i) = "judge"
                       PROVE  reports_are_whole(item(i))' /\ exists(Receipt(item(i)))'
          OBVIOUS
        <4>2. PICK p \in Range_(Packs) : p = item(i) /\ reports_are_whole(p) /\ path = Receipt(p)
          BY <1>0, <2>2, <2>8, <4>1 DEF DerivedHolds, EvidenceHolds
        <4>3. reports_are_whole(p)' /\ exists(Receipt(p))'
          BY <2>4, <2>5, <4>2, ReportsStay, PacksAreThere
        <4> QED BY <2>7, <4>2, <4>3 DEF reports_are_whole, exists
      <3>2. Stage(i) # "receipt"
        BY <1>0 DEF WritesPaper
      <3>3. \A x \in Items : proved_good(x) => proved_good(x)'
        BY <2>5, <2>8, GoodStays, PacksAreThere
      <3> QED BY <1>0, <2>6, <2>7, <2>8, <3>1, <3>2, <3>3 DEF DerivedHolds
    <2>13. Earned'
      <3>1. ASSUME NEW x \in Items, path = Receipt(x)
            PROVE  \/ proc[i].after = "smoke!" /\ x = "smoke"
                   \/ proc[i].after = "judge" /\ x \in proc[i].evidence
        <4>1. proc[i].after \in {"smoke!", "judge"}
          BY <1>0, <2>2, <2>8, <3>1 DEF DerivedHolds
        <4>2. CASE proc[i].after = "smoke!"
          <5>1. proc[i].path = Receipt("smoke")
            BY <1>0, <4>2 DEF WritesPaper
          <5> QED BY <2>2, <3>1, <4>2, <5>1, ReceiptsApart
        <4>3. CASE proc[i].after = "judge"
          <5>1. proc[i].path = Receipt(item(i)) /\ item(i) \in proc[i].evidence
            BY <1>0, <2>8, <4>3 DEF DerivedHolds
          <5> QED BY <2>2, <3>1, <4>3, <5>1, ReceiptsApart
        <4> QED BY <4>1, <4>2, <4>3
      <3>2. exists(Receipt("smoke"))' => bought'["smoke"] > 0 /\ exists(Response)'
        <4>1. CASE exists(Receipt("smoke"))
          BY <1>0, <2>5, <2>8, <4>1, PacksAreThere DEF Earned, Grown
        <4>2. CASE path = Receipt("smoke")
          <5>1. proc[i].after = "smoke!"
            BY <2>8, <3>1, <4>2, PacksAreThere, ItemsAreThere DEF EvidenceHolds
          <5>2. bought["smoke"] > 0 /\ exists(Response)
            BY <1>0, <2>8, <5>1 DEF AnswerHolds
          <5> QED BY <1>0, <2>5, <5>2, PacksAreThere DEF Grown
        <4> QED BY <2>4, <4>1, <4>2, PacksAreThere
      <3>3. exists(Aggregate)' => \A x \in Items : proved_good(x)'
        <4>1. exists(Aggregate)' => \A x \in Items : proved_good(x)
          BY <1>0, <2>2, <2>4, <2>8, PacksAreThere DEF Earned, DerivedHolds
        <4> QED BY <2>5, <2>8, <4>1, GoodStays, PacksAreThere
      <3>4. ASSUME NEW p \in Range_(Packs)
            PROVE  /\ exists(Receipt(p))' => exists(Bundle(p))'
                   /\ exists(Bundle(p))' => bought[p] > 0
        <4>1. exists(Bundle(p)) => exists(Bundle(p))'
          BY <2>5, PacksAreThere DEF Grown
        <4>2. exists(Receipt(p))' => exists(Bundle(p))
          <5>1. CASE exists(Receipt(p))
            BY <2>8, <5>1 DEF Earned
          <5>2. CASE path = Receipt(p)
            <6>1. p \in proc[i].evidence
              BY <3>1, <5>2, PacksAreThere
            <6> QED BY <2>8, <6>1, WholeIsThere DEF EvidenceHolds
          <5> QED BY <2>4, <5>1, <5>2, PacksAreThere
        <4>3. path # Bundle(p)
          BY <1>0, <2>2 DEF WritesPaper
        <4>4. exists(Bundle(p))' => exists(Bundle(p))
          BY <2>4, <4>3, PacksAreThere
        <4> QED BY <2>8, <4>1, <4>2, <4>4 DEF Earned
      <3>5. \A p \in Range_(Packs) : bought[p] > 0 =>
              \E l \in DOMAIN Packs : Packs[l] = p /\ \A m \in 1..(l - 1) : proved_good(Packs[m])'
        BY <2>5, <2>8, ChainStays
      <3> QED BY <1>0, <3>2, <3>3, <3>4, <3>5 DEF Earned
    <2>14. ASSUME NEW j \in Procs, j # i PROVE HoldsGood(j)'
      BY <2>5, <2>6, <2>14, OthersHoldGood DEF Carries, OthersStay
    <2> QED BY <2>9, <2>10, <2>11, <2>12, <2>13, <2>14 DEF Good, HoldsGood
  <1> QED BY <1>1, <1>2

LEMMA BundleGood ==
  ASSUME IInv, Good, NEW i \in Procs, Record(i) \/ Seal(i)
  PROVE  Good'
  <1>0. /\ UNCHANGED bought /\ ~Writes(i) /\ proc[i].pc \in {"call", "seal"} /\ Carries(i)
        /\ proc'[i].pc \in {"seal", "close"} /\ proc[i].at > 0
    <2>1. CASE Record(i)
      <3>1. go(i, "seal") /\ proc[i].pc = "call" /\ proc[i].at > 0 /\ UNCHANGED bought
        BY <2>1 DEF Record, at, paid_vars
      <3> QED BY <3>1, GoCarries DEF Writes
    <2>2. CASE Seal(i)
      <3>1. go(i, "close") /\ proc[i].pc = "seal" /\ UNCHANGED bought
        BY <2>2 DEF Seal, at, paid_vars
      <3>2. proc[i].at > 0
        BY <3>1 DEF IInv, ProcessHolds, ControlHolds, Stage, Writes
      <3> QED BY <3>1, <3>2, GoCarries DEF Writes
    <2> QED BY <2>1, <2>2
  <1>1. /\ Stage(i) = proc[i].pc /\ proc[i].at \in Nat /\ Looped(i)
        /\ PlaceHolds(i) /\ AnswerHolds(i) /\ EvidenceHolds(i) /\ DerivedHolds(i) /\ Earned
    BY <1>0, StandingGood DEF Good
  <1>2. Grown
    BY <1>0, StepGrows DEF Step
  <1>3. /\ ~Writes(i)' /\ Stage(i)' = proc'[i].pc /\ Looped(i)' /\ item(i)' = item(i)
        /\ proc'[i].at = proc[i].at /\ proc'[i].smoke = proc[i].smoke
    BY <1>0 DEF Carries, Writes, Stage, Looped, item
  <1>4. /\ proc[i].at \in 1..Len(Packs) /\ item(i) \in Range_(Packs)
    <2>1. proc[i].at \in 1..Len(Packs)
      BY <1>0, <1>1, PacksAreThere DEF PlaceHolds
    <2> QED BY <1>0, <2>1, PacksAreThere DEF item
  <1>5. PlaceHolds(i)'
    <2>1. ASSUME NEW m \in 1..(proc[i].at - 1) PROVE proved_good(Packs[m])'
      <3>1. m \in 1..Len(Packs) /\ proved_good(Packs[m])
        BY <1>1, <1>4, PacksAreThere DEF PlaceHolds
      <3> QED BY <1>1, <1>2, <3>1, GoodStays, PacksAreThere
    <2>2. proc[i].at \in 1..(Len(Packs) + 1) /\ proc[i].at <= Len(Packs)
      BY <1>4, PacksAreThere
    <2> QED BY <1>0, <1>3, <2>1, <2>2 DEF PlaceHolds
  <1>6. AnswerHolds(i)'
    <2>1. exists(Response)' /\ disk'[Response].turns = disk[Response].turns
      BY <1>1, <1>2, PacksAreThere DEF AnswerHolds, Grown
    <2> QED BY <1>0, <1>1, <1>3, <2>1 DEF AnswerHolds
  <1>7. EvidenceHolds(i)'
    BY <1>0, <1>1, <1>2, EvidenceStays DEF Carries
  <1>8. DerivedHolds(i)'
    BY <1>0, <1>3 DEF DerivedHolds
  <1>9. bought[item(i)] > 0
    <2>1. CASE Record(i)
      BY <1>1, <2>1 DEF Record, at, DerivedHolds
    <2>2. CASE Seal(i)
      <3>1. disk[Bundle(item(i))].state = "partial"
        BY <2>2 DEF IInv, ProcessHolds, OwnershipHolds, Owner, Seal, at
      <3>2. exists(Bundle(item(i)))
        BY <3>1 DEF exists, NoFile
      <3> QED BY <1>1, <1>4, <3>2 DEF Earned
    <2> QED BY <2>1, <2>2
  <1>10. \A x \in Paths : exists(x)' => exists(x) \/ x = Bundle(item(i))
    <2>1. PICK path, new : path = Bundle(item(i)) /\ disk' = [disk EXCEPT ![path] = new]
      BY DEF Record, Seal
    <2>2. \A x \in Paths : x # path => disk'[x] = disk[x]
      BY <2>1 DEF IInv, Shape
    <2> QED BY <2>1, <2>2 DEF exists
  <1>11. Earned'
    <2>1. \A x \in {Receipt("smoke"), Aggregate} \cup {Receipt(p) : p \in Range_(Packs)} :
            exists(x)' => exists(x)
      BY <1>10, PathsDiffer, PacksAreThere
    <2>2. exists(Response) => exists(Response)'
      BY <1>2, PacksAreThere DEF Grown
    <2>3. \A x \in Items : proved_good(x) => proved_good(x)'
      BY <1>1, <1>2, GoodStays, PacksAreThere
    <2>4. ASSUME NEW p \in Range_(Packs)
          PROVE  /\ exists(Receipt(p))' => exists(Bundle(p))'
                 /\ exists(Bundle(p))' => bought[p] > 0
      <3>1. exists(Bundle(p)) => exists(Bundle(p))'
        BY <1>2, PacksAreThere DEF Grown
      <3>2. exists(Bundle(p))' => exists(Bundle(p)) \/ p = item(i)
        BY <1>10, PathsDiffer, PacksAreThere
      <3> QED BY <1>1, <1>9, <2>1, <3>1, <3>2 DEF Earned
    <2>5. \A p \in Range_(Packs) : bought[p] > 0 =>
            \E l \in DOMAIN Packs : Packs[l] = p /\ \A m \in 1..(l - 1) : proved_good(Packs[m])'
      BY <1>1, <1>2, ChainStays
    <2>6. exists(Receipt("smoke"))' => bought["smoke"] > 0 /\ exists(Response)'
      BY <1>1, <2>1, <2>2 DEF Earned
    <2>7. exists(Aggregate)' => \A x \in Items : proved_good(x)'
      BY <1>1, <2>1, <2>3 DEF Earned
    <2> QED BY <1>0, <2>4, <2>5, <2>6, <2>7 DEF Earned
  <1>12. ASSUME NEW j \in Procs, j # i PROVE HoldsGood(j)'
    BY <1>0, <1>2, <1>12, OthersHoldGood DEF Carries, OthersStay
  <1> QED BY <1>5, <1>6, <1>7, <1>8, <1>11, <1>12 DEF Good, HoldsGood

(* The first call of an item is its purchase. *)
LEMMA CallBuys ==
  ASSUME IInv, NEW i \in Procs, CallSmoke(i) \/ CallTurn(i)
  PROVE  /\ UNCHANGED disk /\ OthersStay(i) /\ proc[i].pc = "call" /\ item(i) \in Items
         /\ proc'[i].at = proc[i].at /\ proc'[i].smoke = proc[i].smoke
         /\ proc'[i].evidence = proc[i].evidence
         /\ proc'[i].reported = proc[i].reported /\ proc'[i].receipted = proc[i].receipted
         /\ \/ CallSmoke(i) /\ proc[i].at = 0 /\ proc'[i].pc = "close"
            \/ CallTurn(i) /\ proc[i].at > 0 /\ proc'[i].pc = "call"
         /\ proc[i].turns = <<>> =>
              /\ \A x \in Items : bought'[x] = IF x = item(i) THEN 1 ELSE bought[x]
              /\ bought[item(i)] = 0
         /\ proc[i].turns # <<>> => UNCHANGED bought
  <1>0. /\ UNCHANGED disk /\ proc[i].pc = "call" /\ Owner(i) /\ Stage(i) = "call"
        /\ proc = [j \in Procs |-> proc[j]] /\ Process(proc[i])
        /\ bought = [x \in Items |-> bought[x]]
    BY DEF CallSmoke, CallTurn, disk_vars, at, IInv, Shape, Owner, Stage, Writes
  <1>1. item(i) \in Items
    BY <1>0, OwnsAnItem
  <1>2. PICK to, turns :
          /\ proc' = [proc EXCEPT ![i].pc = to, ![i].turns = turns]
          /\ \/ CallSmoke(i) /\ proc[i].at = 0 /\ to = "close"
             \/ CallTurn(i) /\ proc[i].at > 0 /\ to = "call"
    <2>1. CASE CallSmoke(i)
      BY <2>1 DEF CallSmoke, at
    <2>2. CASE CallTurn(i)
      <3>1. PICK turn, turns : turns = Append(proc[i].turns, turn) /\ proc' = [proc EXCEPT ![i].turns = turns]
        BY <2>2 DEF CallTurn
      <3>2. proc' = [proc EXCEPT ![i].pc = "call", ![i].turns = turns]
        BY <1>0, <3>1 DEF Process
      <3> QED BY <2>2, <3>2 DEF CallTurn
    <2> QED BY <2>1, <2>2
  <1>3. /\ OthersStay(i) /\ proc'[i].pc = to
        /\ proc'[i].at = proc[i].at /\ proc'[i].smoke = proc[i].smoke
        /\ proc'[i].evidence = proc[i].evidence
        /\ proc'[i].reported = proc[i].reported /\ proc'[i].receipted = proc[i].receipted
    BY <1>0, <1>2 DEF OthersStay, Process
  <1>4. \E turn : Buy(i, turn)
    BY DEF CallSmoke, CallTurn
  <1>5. ASSUME proc[i].turns = <<>>
        PROVE  /\ \A x \in Items : bought'[x] = IF x = item(i) THEN 1 ELSE bought[x]
               /\ bought[item(i)] = 0
    <2>1. bought[item(i)] = 0
      BY <1>0, <1>5 DEF IInv, ProcessHolds, OwnershipHolds
    <2>2. bought' = [bought EXCEPT ![item(i)] = bought[item(i)] + 1]
      BY <1>4, <1>5 DEF Buy
    <2>3. bought' = [bought EXCEPT ![item(i)] = 1]
      BY <2>1, <2>2
    <2> HIDE <2>2
    <2> QED BY <1>0, <2>1, <2>3
  <1>6. proc[i].turns # <<>> => UNCHANGED bought
    BY <1>4 DEF Buy
  <1> QED BY <1>0, <1>1, <1>2, <1>3, <1>5, <1>6

LEMMA CallGood ==
  ASSUME IInv, Good, NEW i \in Procs, CallSmoke(i) \/ CallTurn(i)
  PROVE  Good'
  <1>0. /\ UNCHANGED disk /\ OthersStay(i) /\ proc[i].pc = "call" /\ item(i) \in Items
        /\ proc'[i].at = proc[i].at /\ proc'[i].smoke = proc[i].smoke
        /\ proc'[i].evidence = proc[i].evidence
        /\ proc'[i].reported = proc[i].reported /\ proc'[i].receipted = proc[i].receipted
        /\ proc'[i].pc \in {"call", "close"} /\ ~Writes(i)
        /\ proc'[i].pc = "close" <=> proc[i].at = 0
    BY CallBuys DEF Writes
  <1>1. /\ Stage(i) = proc[i].pc /\ proc[i].at \in Nat
        /\ PlaceHolds(i) /\ AnswerHolds(i) /\ EvidenceHolds(i) /\ DerivedHolds(i) /\ Earned
    BY <1>0, StandingGood DEF Good
  <1>2. /\ \A x \in Items : bought[x] > 0 => bought'[x] > 0
        /\ bought'[item(i)] > 0
        /\ \A x \in Items : bought'[x] > 0 => bought[x] > 0 \/ x = item(i)
    <2>1. CASE proc[i].turns = <<>>
      BY <1>0, <2>1, CallBuys
    <2>2. CASE proc[i].turns # <<>>
      BY <1>0, <1>1, <2>2, CallBuys DEF DerivedHolds
    <2> QED BY <2>1, <2>2
  <1>3. Grown
    BY <1>0, <1>2 DEF Grown, exists
  <1>4. /\ ~Writes(i)' /\ Stage(i)' = proc'[i].pc /\ item(i)' = item(i)
        /\ Looped(i)' => Looped(i) /\ proc[i].at > 0
    BY <1>0, <1>1 DEF Writes, Stage, Looped, item, AfterSmoke
  <1>5. Looped(i) => proc[i].at \in 1..Len(Packs)
    BY <1>0, <1>1, PacksAreThere DEF PlaceHolds
  <1>6. PlaceHolds(i)'
    <2>1. ASSUME Looped(i), NEW m \in 1..(proc[i].at - 1) PROVE proved_good(Packs[m])'
      <3>1. m \in 1..Len(Packs) /\ proved_good(Packs[m])
        BY <1>1, <1>5, <2>1, PacksAreThere DEF PlaceHolds
      <3> QED BY <1>1, <1>3, <3>1, GoodStays, PacksAreThere
    <2> QED BY <1>0, <1>1, <1>4, <1>5, <2>1, PacksAreThere DEF PlaceHolds
  <1>7. AnswerHolds(i)'
    <2>1. proc[i].at = 0 => item(i) = "smoke"
      BY DEF item
    <2> QED BY <1>0, <1>1, <1>2, <1>4, <2>1 DEF AnswerHolds, exists
  <1>8. EvidenceHolds(i)'
    BY <1>0, <1>1, <1>3, EvidenceStays
  <1>9. DerivedHolds(i)'
    BY <1>0, <1>2, <1>4 DEF DerivedHolds
  <1>10. Earned'
    <2>1. \A x \in Items : proved_good(x) => proved_good(x)'
      BY <1>1, <1>3, GoodStays, PacksAreThere
    <2>2. ASSUME NEW p \in Range_(Packs), bought'[p] > 0
          PROVE  \E l \in DOMAIN Packs : Packs[l] = p /\ \A m \in 1..(l - 1) : proved_good(Packs[m])'
      <3>1. CASE bought[p] > 0
        BY <1>1, <1>3, <3>1, ChainStays
      <3>2. CASE ~(bought[p] > 0)
        <4>1. p = item(i) /\ p # "smoke"
          BY <1>2, <2>2, <3>2, PacksAreThere
        <4>2. proc[i].at > 0 /\ Packs[proc[i].at] = p
          BY <1>1, <4>1 DEF item
        <4>3. Looped(i) /\ proc[i].at \in DOMAIN Packs
          BY <1>0, <1>1, <1>5, <4>2, PacksAreThere DEF Looped
        <4>4. \A m \in 1..(proc[i].at - 1) : proved_good(Packs[m])'
          BY <1>4, <1>6, <4>3, <1>0, <4>2 DEF PlaceHolds, Looped
        <4> QED BY <4>2, <4>3, <4>4
      <3> QED BY <3>1, <3>2
    <2>3. \A p \in Items : bought[p] > 0 => bought'[p] > 0
      BY <1>2
    <2>4. exists(Aggregate)' => \A x \in Items : proved_good(x)'
      BY <1>0, <1>1, <2>1 DEF Earned, exists
    <2> QED BY <1>0, <1>1, <2>2, <2>3, <2>4, PacksAreThere, ItemsAreThere DEF Earned, exists
  <1>11. ASSUME NEW j \in Procs, j # i PROVE HoldsGood(j)'
    BY <1>0, <1>3, <1>11, OthersHoldGood DEF OthersStay
  <1> QED BY <1>6, <1>7, <1>8, <1>9, <1>10, <1>11 DEF Good, HoldsGood

-----------------------------------------------------------------------------
LEMMA InitGood == Init => Good
  <1>1. ASSUME Init PROVE Good
    <2>1. /\ proc = [i \in Procs |-> Idle] /\ disk = [x \in Paths |-> NoFile]
          /\ bought = [x \in Items |-> 0]
      BY <1>1 DEF Init
    <2>2. /\ Idle.pc = "idle" /\ Idle.smoke = <<>> /\ Idle.evidence = {}
          /\ Idle.reported = {} /\ Idle.receipted = {}
      BY DEF Idle
    <2>3. ASSUME NEW i \in Procs PROVE HoldsGood(i)
      <3>1. /\ proc[i].pc = "idle" /\ proc[i].smoke = <<>> /\ proc[i].evidence = {}
            /\ proc[i].reported = {} /\ proc[i].receipted = {}
        BY <2>1, <2>2
      <3>2. ~Writes(i) /\ Stage(i) = "idle" /\ ~Looped(i)
        BY <3>1 DEF Writes, Stage, Looped, AfterSmoke
      <3>3. EvidenceHolds(i)
        BY <3>1 DEF EvidenceHolds
      <3> QED BY <3>1, <3>2, <3>3 DEF HoldsGood, PlaceHolds, AnswerHolds, DerivedHolds
    <2>4. \A x \in Paths : ~exists(x)
      BY <2>1 DEF exists
    <2>5. \A x \in Items : ~(bought[x] > 0)
      BY <2>1
    <2>6. Earned
      BY <2>4, <2>5, PacksAreThere DEF Earned
    <2> QED BY <2>3, <2>6 DEF Good
  <1> QED BY <1>1

LEMMA GoodInductive == IInv /\ Good /\ [Next]_vars => Good'
  <1>1. ASSUME IInv, Good, NEW i \in Procs, Step(i) PROVE Good'
    <2>1. CASE EpisodeRaises(i)
      BY <1>1, <2>1, RefuseGood DEF EpisodeRaises, disk_vars, paid_vars
    <2> QED BY <1>1, <2>1, LinkGood, UnlinkGood, PreflightGood, DocumentsGood, SmokeGood,
               JudgeGood, LoopGood, CallGood, BundleGood DEF Step
  <1>2. ASSUME IInv, Good, NEW i \in Procs, Dies(i) PROVE Good'
    BY <1>2, RefuseGood DEF Dies, paid_vars
  <1>3. ASSUME IInv, Good, UNCHANGED vars PROVE Good'
    <2>1. Grown /\ UNCHANGED <<disk, proc, bought>>
      BY <1>3 DEF vars, Grown, exists
    <2>2. ASSUME NEW j \in Procs PROVE HoldsGood(j)'
      BY <1>3, <2>1, OthersHoldGood
    <2>3. \A x \in Items : proved_good(x) => proved_good(x)'
      BY <1>3, <2>1, GoodStays, PacksAreThere DEF Good
    <2>4. Earned'
      BY <1>3, <2>1, <2>3, ChainStays DEF Good, Earned, exists
    <2> QED BY <2>2, <2>4 DEF Good
  <1> QED BY <1>1, <1>2, <1>3, InvokeGood DEF Next

LEMMA GoodHolds == Spec => []Good
  BY SpecHolds, InitGood, GoodInductive, PTL DEF Spec

(* Nothing else is a purchase. *)
LEMMA OnlyCallsBuy ==
  ASSUME NEW i \in Procs, Step(i), ~(CallSmoke(i) \/ CallTurn(i))
  PROVE  UNCHANGED bought
  <1>1. \/ UNCHANGED paid_vars
        \/ Preflight(i) \/ PreflightPacks(i) \/ PreflightPack(i) \/ PreflightAggregate(i)
        \/ JudgeSmoke(i) \/ EpisodeRaises(i) \/ ClosePack(i) \/ Judge(i)
    BY DEF Step, Link, Unlink, MakeRoot, MaterializeEstimates, StartSandbox, CloseSmoke, FailSmoke,
           PassSmoke, Loop, Record, Seal, BeginReports, NextReport, WriteReceipt, Finish
  <1>2. CASE Preflight(i) \/ PreflightPacks(i) \/ PreflightPack(i) \/ PreflightAggregate(i)
    BY <1>2 DEF Preflight, PreflightPacks, PreflightPack, PreflightAggregate, paid_vars
  <1>3. CASE JudgeSmoke(i) \/ EpisodeRaises(i) \/ ClosePack(i) \/ Judge(i)
    BY <1>3 DEF JudgeSmoke, EpisodeRaises, ClosePack, Judge, paid_vars
  <1> QED BY <1>1, <1>2, <1>3 DEF paid_vars

(* At a purchase, whatever was bought before proved good. *)
LEMMA BoughtWasGood ==
  ASSUME IInv, Good, NEW i \in Procs, CallSmoke(i) \/ CallTurn(i), bought' # bought,
         NEW x \in Items, bought[x] > 0
  PROVE  proved_good(x)
  <1>1. /\ proc[i].turns = <<>> /\ bought[item(i)] = 0 /\ proc[i].pc = "call"
        /\ x # item(i) /\ ~Writes(i)
    BY CallBuys DEF Writes
  <1>2. /\ Stage(i) = "call" /\ proc[i].at \in Nat /\ PlaceHolds(i) /\ AnswerHolds(i) /\ Earned
    BY <1>1, StandingGood DEF Good
  <1>3. x # "smoke" => exists(Receipt("smoke"))
    BY DEF IInv, PaidOnRecord
  <1>4. proc[i].at > 0
    <2>1. CASE proc[i].at = 0
      <3>1. item(i) = "smoke"
        BY <2>1 DEF item
      <3>2. bought["smoke"] > 0
        BY <1>1, <1>2, <1>3, <3>1 DEF Earned
      <3> QED BY <1>1, <3>1, <3>2
    <2> QED BY <1>2, <2>1
  <1>5. Looped(i) /\ proc[i].at \in 1..Len(Packs) /\ item(i) = Packs[proc[i].at]
    BY <1>2, <1>4, PacksAreThere DEF Looped, PlaceHolds, item
  <1>6. CASE x = "smoke"
    <2>1. exists(Receipt("smoke"))
      BY <1>1, <1>4 DEF IInv, ProcessHolds, PapersHold, Stage, Writes
    <2> QED BY <1>2, <1>5, <1>6, <2>1 DEF AnswerHolds, proved_good
  <1>7. CASE x # "smoke"
    <2>1. PICK l \in DOMAIN Packs : Packs[l] = x /\ \A m \in 1..(l - 1) : proved_good(Packs[m])
      BY <1>2, <1>7 DEF Earned, Items
    <2>2. l \in 1..Len(Packs) /\ Len(Packs) \in Nat /\ l # proc[i].at
      BY <1>1, <1>5, <2>1, PacksAreThere
    <2>3. CASE l < proc[i].at
      <3>1. l \in 1..(proc[i].at - 1)
        BY <1>5, <2>2, <2>3
      <3> QED BY <1>2, <1>5, <2>1, <3>1 DEF PlaceHolds
    <2>4. CASE l > proc[i].at
      <3>1. proc[i].at \in 1..(l - 1)
        BY <1>5, <2>2, <2>4
      <3>2. proved_good(item(i)) /\ item(i) \in Range_(Packs)
        BY <1>5, <2>1, <3>1, PacksAreThere
      <3>3. exists(Receipt(item(i)))
        BY <3>2 DEF proved_good
      <3>4. bought[item(i)] > 0
        BY <1>2, <3>2, <3>3 DEF Earned
      <3> QED BY <1>1, <3>4
    <2> QED BY <1>5, <2>2, <2>3, <2>4
  <1> QED BY <1>6, <1>7

(* No call and no episode is bought before everything bought earlier, by   *)
(* whichever process, proved good: its receipt is there, a pack's reports  *)
(* too and its account is within the authorization, and what it cost is    *)
(* within a factor of two of its estimate.                                 *)
THEOREM MatrixBuysAfterGoodOnes == Spec => PurchasesFollowGoodOnes
  <1> DEFINE Follows == bought' # bought => \A x \in Items : bought[x] > 0 => proved_good(x)
  <1>1. IInv /\ Good /\ [Next]_vars => [Follows]_vars
    <2>1. ASSUME IInv, Good, NEW i \in Procs, Step(i) PROVE Follows
      <3>1. CASE CallSmoke(i) \/ CallTurn(i)
        BY <2>1, <3>1, BoughtWasGood
      <3>2. CASE ~(CallSmoke(i) \/ CallTurn(i))
        BY <2>1, <3>2, OnlyCallsBuy
      <3> QED BY <3>1, <3>2
    <2>2. ASSUME NEW i \in Procs, Invoke(i) \/ Dies(i) PROVE Follows
      <3>1. UNCHANGED paid_vars
        BY <2>2, Zenon DEF Invoke, Dies
      <3> QED BY <3>1 DEF paid_vars
    <2> QED BY <2>1, <2>2 DEF Next
  <1>2. Spec => []IInv /\ []Good /\ [][Next]_vars
    BY SpecHolds, GoodHolds, PTL DEF Spec
  <1>3. Spec => [][Follows]_vars
    BY <1>1, <1>2, PTL
  <1> QED BY <1>3 DEF PurchasesFollowGoodOnes

(* The aggregate receipt of the matrix is there only when the smoke call   *)
(* and every pack were bought, each exactly once, and all of them proved   *)
(* good.                                                                   *)
THEOREM MatrixAggregatesAll == Spec => []AggregateIsComplete
  <1>1. IInv /\ Good => AggregateIsComplete
    <2>1. ASSUME IInv, Good, exists(Aggregate), NEW x \in Items
          PROVE  bought[x] = 1 /\ proved_good(x)
      <3>1. /\ \A y \in Items : proved_good(y)
            /\ \A p \in Range_(Packs) : exists(Receipt(p))
        <4>1. \A y \in Items : proved_good(y)
          BY <2>1 DEF Good, Earned
        <4> QED BY <4>1, PacksAreThere DEF proved_good
      <3>2. \A p \in Range_(Packs) : bought[p] > 0
        BY <2>1, <3>1 DEF Good, Earned
      <3>3. Packs[1] \in Range_(Packs)
        BY PacksAreThere
      <3>4. exists(Receipt("smoke"))
        BY <2>1, <3>2, <3>3, PacksAreThere DEF IInv, PaidOnRecord
      <3>5. bought["smoke"] > 0
        BY <2>1, <3>4 DEF Good, Earned
      <3>6. bought[x] > 0 /\ bought[x] \in Nat /\ bought[x] <= 1
        BY <2>1, <3>2, <3>5 DEF Items, IInv, Shape, BoughtOnce
      <3> QED BY <3>1, <3>6
    <2> QED BY <2>1 DEF AggregateIsComplete
  <1> QED BY <1>1, SpecHolds, GoodHolds, PTL

-----------------------------------------------------------------------------
(* The money. *)
Accounts(turns, x) == TurnsAre(turns) /\ billed[x] = bill(turns)

(* The turns of a smoke call that passes. *)
SmokeAccounts(turns) ==
  /\ Accounts(turns, "smoke") /\ unpriced_cost_reserve(turns) = 0
  /\ smoke_is_valid(turns) /\ bought["smoke"] > 0

(* Settings under which an invocation was let in. *)
Budgeted(name) ==
  \E s \in Settings : s.name = name /\ prior_failure_holds(s) /\ within_estimate_budget(s.prior)

HoldsBooks(i) ==
  /\ proc[i].pc # "idle" => Budgeted(proc[i].by)
  /\ proc[i].pc = "call" /\ proc[i].at = 0 => proc[i].turns = <<>>
  /\ proc[i].pc = "call" /\ proc[i].at > 0 => Accounts(proc[i].turns, item(i))
  /\ proc[i].pc = "close" /\ proc[i].at = 0 =>
       /\ Accounts(proc[i].turns, "smoke")
       /\ proc[i].turns[1].status # "missed" => unpriced_cost_reserve(proc[i].turns) = 0
  /\ proc[i].pc = "link" /\ proc[i].path = Response => SmokeAccounts(proc[i].turns)
  /\ \A p \in proc[i].evidence : usage_is_collected(disk[Bundle(p)].turns)

Booked ==
  /\ billed \in [Items -> Nat]
  /\ \A x \in Items : bought[x] = 0 => billed[x] = 0
  /\ \A p \in Range_(Packs) :
       /\ exists(Bundle(p)) => Accounts(disk[Bundle(p)].turns, p)
       /\ exists(Receipt(p)) => usage_is_collected(disk[Bundle(p)].turns)
  /\ exists(Response) => SmokeAccounts(disk[Response].turns)
  /\ exists(Aggregate) => Budgeted(disk[Aggregate].by)

Books == Booked /\ \A i \in Procs : HoldsBooks(i)

-----------------------------------------------------------------------------
(* A process that does not move, and one that moves quietly. *)
LEMMA OthersHoldBooks ==
  ASSUME Good, Books, Grown, UNCHANGED <<bought, billed>>, NEW j \in Procs, proc'[j] = proc[j]
  PROVE  HoldsBooks(j)'
  <1>1. HoldsBooks(j) /\ EvidenceHolds(j) /\ item(j)' = item(j)
    BY DEF Books, Good, HoldsGood, item
  <1>2. ASSUME NEW p \in proc[j].evidence PROVE usage_is_collected(disk'[Bundle(p)].turns)
    <2>1. p \in Range_(Packs) /\ exists(Bundle(p)) /\ usage_is_collected(disk[Bundle(p)].turns)
      BY <1>1, WholeIsThere DEF EvidenceHolds, HoldsBooks
    <2>2. disk'[Bundle(p)].turns = disk[Bundle(p)].turns
      BY <2>1, PacksAreThere DEF Grown
    <2> QED BY <2>1, <2>2
  <1> QED BY <1>1, <1>2 DEF HoldsBooks, Accounts, SmokeAccounts

LEMMA QuietBooks ==
  ASSUME Good, Books, NEW i \in Procs, OthersStay(i), UNCHANGED <<disk, bought, billed>>, HoldsBooks(i)'
  PROVE  Books'
  <1>1. Grown
    BY DEF Grown, exists
  <1>2. ASSUME NEW j \in Procs PROVE HoldsBooks(j)'
    BY <1>1, <1>2, OthersHoldBooks DEF OthersStay
  <1>3. Booked'
    BY DEF Books, Booked, Accounts, SmokeAccounts, exists
  <1> QED BY <1>2, <1>3 DEF Books

LEMMA RefuseBooks ==
  ASSUME IInv, Good, Books, NEW i \in Procs, refuse(i), UNCHANGED <<disk, bought, billed>>
  PROVE  Books'
  <1>1. OthersStay(i) /\ proc'[i] = Idle /\ Idle.pc = "idle" /\ Idle.evidence = {}
    BY RefuseMoves DEF IInv, Idle
  <1>2. HoldsBooks(i)'
    BY <1>1 DEF HoldsBooks
  <1> QED BY <1>1, <1>2, QuietBooks

(* A process that goes on with the evidence it holds, or more that can be  *)
(* priced, to where nothing is bought.                                     *)
LEMMA PassingBooks ==
  ASSUME Good, Books, NEW i \in Procs, GoesOn(i), UNCHANGED <<disk, bought, billed>>,
         proc[i].pc # "idle", proc'[i].pc \notin {"call", "close"},
         proc'[i].pc = "link" => proc'[i].path # Response,
         \A p \in proc'[i].evidence : p \in proc[i].evidence \/ usage_is_collected(disk[Bundle(p)].turns)
  PROVE  Books'
  <1>1. HoldsBooks(i)'
    BY DEF Books, HoldsBooks, GoesOn
  <1> QED BY <1>1, QuietBooks DEF GoesOn

LEMMA GoBooks ==
  ASSUME IInv, Good, Books, NEW i \in Procs, NEW to, go(i, to), UNCHANGED <<disk, bought, billed>>,
         proc[i].pc # "idle", to \notin {"call", "close", "link"}
  PROVE  Books'
  <1>1. GoesOn(i) /\ proc'[i].pc = to /\ proc'[i].evidence = proc[i].evidence
    BY GoGoesOn, GoCarries DEF IInv, Carries
  <1> QED BY <1>1, PassingBooks

LEMMA WriteBooks ==
  ASSUME IInv, Good, Books, NEW i \in Procs, NEW path, NEW after, Write(i, path, after),
         UNCHANGED <<disk, bought, billed>>, proc[i].pc # "idle",
         path # Response \/ (SmokeAccounts(proc[i].turns))
  PROVE  Books'
  <1>1. CASE refuse(i)
    BY <1>1, RefuseBooks
  <1>2. CASE ~refuse(i)
    <2>1. /\ GoesOn(i) /\ proc'[i].evidence = proc[i].evidence /\ proc'[i].turns = proc[i].turns
          /\ proc'[i].pc = "link" /\ proc'[i].path = path
      BY <1>2, WriteGoesOn, WriteCarries DEF IInv, Carries
    <2>2. HoldsBooks(i)'
      BY <2>1 DEF Books, HoldsBooks, GoesOn, SmokeAccounts, Accounts
    <2> QED BY <2>1, <2>2, QuietBooks DEF GoesOn
  <1> QED BY <1>1, <1>2

(* The smoke call's response is no other file. *)
LEMMA ResponseApart ==
  /\ Response # Aggregate
  /\ \A x : Attempt(x) # Response /\ Receipt(x) # Response /\ Bundle(x) # Response
  /\ Failures[1] # Response /\ Failures[2] # Response
  /\ \A x : Reports(x)[1] # Response /\ \A k \in DOMAIN Report : Reports(x)[k] # Response
  /\ \A d \in Range_(Documents) : d # Response
  <1>1. \A x : Attempt(x) # Response /\ Receipt(x) # Response /\ Bundle(x) # Response
    BY DEF Attempt, Receipt, Bundle, Response
  <1>2. Failures[1] # Response /\ Failures[2] # Response /\ Response # Aggregate
    BY DEF Failures, Response, Aggregate
  <1>3. ASSUME NEW x, NEW k \in {1, 2, 3} PROVE Reports(x)[k] # Response
    BY DEF Reports, Report, Response
  <1>4. DOMAIN Report = {1, 2, 3}
    BY DEF Report
  <1>5. ASSUME NEW d \in Range_(Documents) PROVE d # Response
    <2>1. /\ DOMAIN Documents = 1..(2 + Len(Packs)) /\ Len(Packs) \in Nat
          /\ Documents[1] = Authorization /\ Documents[2] = Estimate("smoke")
          /\ \A k \in 1..Len(Packs) : Documents[2 + k] = Estimate(Packs[k])
      <3>1. Len(Packs) \in Nat /\ DOMAIN Packs = 1..Len(Packs)
        BY PacksAreThere
      <3> QED BY <3>1 DEF Documents
    <2>2. PICK k \in 1..(2 + Len(Packs)) : d = Documents[k]
      BY <2>1 DEF Range_
    <2>3. d = Authorization \/ \E y : d = Estimate(y)
      <3>1. CASE k \in 1..2
        BY <2>1, <2>2, <3>1
      <3>2. CASE k \notin 1..2
        <4>1. k - 2 \in 1..Len(Packs) /\ k = 2 + (k - 2)
          BY <2>1, <2>2, <3>2
        <4> QED BY <2>1, <2>2, <4>1
      <3> QED BY <3>1, <3>2
    <2> QED BY <2>3 DEF Authorization, Estimate, Response
  <1> QED BY <1>1, <1>2, <1>3, <1>4, <1>5

-----------------------------------------------------------------------------
(* The steps that neither publish nor buy. *)
LEMMA PlainBooks ==
  ASSUME IInv, Good, Books, NEW i \in Procs,
         \/ StartSandbox(i) \/ FailSmoke(i) \/ PassSmoke(i) \/ Loop(i) \/ BeginReports(i)
         \/ NextReport(i) \/ WriteReceipt(i) \/ Finish(i) \/ PreflightAggregate(i)
  PROVE  Books'
  <1>1. UNCHANGED <<disk, bought, billed>> /\ proc[i].pc # "idle"
    BY DEF StartSandbox, FailSmoke, PassSmoke, Loop, BeginReports, NextReport, WriteReceipt,
           Finish, PreflightAggregate, disk_vars, paid_vars, at
  <1>2. \/ refuse(i)
        \/ \E to \in {"root", "reports", "sandbox", "receipt", "judge"} : go(i, to)
        \/ \E path, after : Write(i, path, after) /\ path # Response
    <2>1. CASE StartSandbox(i) \/ FailSmoke(i) \/ PassSmoke(i) \/ WriteReceipt(i) \/ Finish(i)
      BY <2>1, ResponseApart DEF StartSandbox, FailSmoke, PassSmoke, WriteReceipt, Finish
    <2>2. CASE Loop(i) \/ PreflightAggregate(i)
      BY <2>2 DEF Loop, PreflightAggregate
    <2>3. CASE BeginReports(i)
      BY <2>3, ResponseApart DEF BeginReports
    <2>4. CASE NextReport(i)
      <3>1. PICK missing : missing = {k \in DOMAIN Report : ~exists(Reports(item(i))[k])}
        OBVIOUS
      <3>2. \/ go(i, "receipt")
            \/ missing # {} /\ Write(i, Reports(item(i))[Min(missing)], "reported")
        BY <2>4, <3>1 DEF NextReport
      <3>3. missing # {} => Min(missing) \in DOMAIN Report
        <4>1. DOMAIN Report = {1, 2, 3}
          BY DEF Report
        <4>2. missing \subseteq {1, 2, 3}
          BY <3>1, <4>1, Zenon
        <4>3. missing \subseteq Nat
          BY <4>2
        <4> QED BY <3>1, <4>3, MinIsThere
      <3> QED BY <3>2, <3>3, ResponseApart
    <2> QED BY <2>1, <2>2, <2>3, <2>4
  <1>3. ASSUME NEW to \in {"root", "reports", "sandbox", "receipt", "judge"}, go(i, to) PROVE Books'
    BY <1>1, <1>3, GoBooks
  <1>4. ASSUME NEW path, NEW after, Write(i, path, after), path # Response PROVE Books'
    BY <1>1, <1>4, WriteBooks
  <1> QED BY <1>1, <1>2, <1>3, <1>4, RefuseBooks

LEMMA DocumentsBooks ==
  ASSUME IInv, Good, Books, NEW i \in Procs, MaterializeEstimates(i)
  PROVE  Books'
  <1>1. UNCHANGED <<disk, bought, billed>> /\ proc[i].pc # "idle"
    BY DEF MaterializeEstimates, paid_vars, at
  <1>2. PICK missing : missing = {k \in DOMAIN Documents : ~exists(Documents[k])}
    OBVIOUS
  <1>3. \/ refuse(i)
        \/ \E to \in {"sandbox", "smoke!"} : go(i, to)
        \/ missing # {} /\ Write(i, Documents[Min(missing)], "documents")
    BY <1>2 DEF MaterializeEstimates
  <1>4. missing # {} => Documents[Min(missing)] # Response
    <2>1. missing \subseteq Nat
      <3>1. Len(Packs) \in Nat /\ DOMAIN Packs = 1..Len(Packs)
        BY PacksAreThere
      <3>2. DOMAIN Documents = 1..(2 + Len(Packs))
        BY <3>1 DEF Documents
      <3>3. DOMAIN Documents \subseteq Nat
        BY <3>1, <3>2
      <3> QED BY <1>2, <3>3, Zenon
    <2>2. missing # {} => Min(missing) \in DOMAIN Documents
      BY <1>2, <2>1, MinIsThere
    <2> QED BY <2>2, ResponseApart DEF Range_
  <1>5. ASSUME NEW to \in {"sandbox", "smoke!"}, go(i, to) PROVE Books'
    BY <1>1, <1>5, GoBooks
  <1>6. ASSUME missing # {}, Write(i, Documents[Min(missing)], "documents") PROVE Books'
    BY <1>1, <1>4, <1>6, WriteBooks
  <1> QED BY <1>1, <1>3, <1>5, <1>6, RefuseBooks

(* A smoke call that passes files its own turns. *)
LEMMA CloseSmokeBooks ==
  ASSUME IInv, Good, Books, NEW i \in Procs, CloseSmoke(i)
  PROVE  Books'
  <1>1. /\ UNCHANGED <<disk, bought, billed>> /\ proc[i].pc = "close" /\ proc[i].at = 0
        /\ ~Writes(i) /\ Stage(i) = "close"
    BY DEF CloseSmoke, paid_vars, at, Writes, Stage
  <1>2. \/ smoke_is_valid(proc[i].turns) /\ Write(i, Response, "answered")
        \/ \E path, after : Write(i, path, after) /\ path # Response
    BY ResponseApart DEF CloseSmoke, fails_smoke
  <1>3. CASE smoke_is_valid(proc[i].turns) /\ Write(i, Response, "answered")
    <2>1. Accounts(proc[i].turns, "smoke") /\ unpriced_cost_reserve(proc[i].turns) = 0
      BY <1>1, <1>3 DEF Books, HoldsBooks, smoke_is_valid
    <2>2. bought["smoke"] > 0
      BY <1>1 DEF Good, HoldsGood, AnswerHolds
    <2>3. SmokeAccounts(proc[i].turns)
      BY <1>3, <2>1, <2>2 DEF SmokeAccounts
    <2> QED BY <1>1, <1>3, <2>3, WriteBooks
  <1>4. ASSUME NEW path, NEW after, Write(i, path, after), path # Response PROVE Books'
    BY <1>1, <1>4, WriteBooks
  <1> QED BY <1>2, <1>3, <1>4

(* What is adopted as evidence can be priced. *)
LEMMA EvidenceIsPriced ==
  ASSUME NEW i, NEW p, evidence_holds(i, p) \/ pack_resumes(i, p)
  PROVE  usage_is_collected(disk[Bundle(p)].turns)
  BY DEF evidence_holds, pack_resumes

LEMMA MovingBooks ==
  ASSUME IInv, Good, Books, NEW i \in Procs,
         \/ Preflight(i) \/ PreflightPacks(i) \/ PreflightPack(i) \/ MakeRoot(i) \/ JudgeSmoke(i)
         \/ ClosePack(i) \/ Judge(i)
  PROVE  Books'
  <1>1. /\ UNCHANGED <<disk, bought, billed>> /\ proc[i].pc # "idle"
        /\ proc = [j \in Procs |-> proc[j]] /\ Process(proc[i])
    BY DEF Preflight, PreflightPacks, PreflightPack, MakeRoot, JudgeSmoke, ClosePack, Judge,
           disk_vars, paid_vars, at, IInv, Shape
  <1>2. SUFFICES ASSUME ~refuse(i) PROVE Books'
    BY <1>1, RefuseBooks
  <1>3. CASE Preflight(i)
    <2>1. PICK smoke : proc' = [proc EXCEPT ![i].pc = "packs?", ![i].smoke = smoke]
      BY <1>2, <1>3 DEF Preflight
    <2>2. GoesOn(i) /\ proc'[i].pc = "packs?" /\ proc'[i].evidence = proc[i].evidence
      BY <1>1, <2>1 DEF GoesOn, OthersStay, Process
    <2> QED BY <1>1, <2>2, PassingBooks
  <1>4. CASE PreflightPacks(i)
    <2>1. \/ proc' = [proc EXCEPT ![i].pc = "root", ![i].resume = FALSE]
          \/ proc' = [proc EXCEPT ![i].pc = "pack?", ![i].at = 1, ![i].resume = FALSE]
      BY <1>2, <1>4 DEF PreflightPacks
    <2>2. GoesOn(i) /\ proc'[i].pc \in {"root", "pack?"} /\ proc'[i].evidence = proc[i].evidence
      BY <1>1, <2>1 DEF GoesOn, OthersStay, Process
    <2> QED BY <1>1, <2>2, PassingBooks
  <1>5. CASE MakeRoot(i)
    <2>1. proc' = [proc EXCEPT ![i].pc = "documents", ![i].at = 0]
      BY <1>5 DEF MakeRoot
    <2>2. GoesOn(i) /\ proc'[i].pc = "documents" /\ proc'[i].evidence = proc[i].evidence
      BY <1>1, <2>1 DEF GoesOn, OthersStay, Process
    <2> QED BY <1>1, <2>2, PassingBooks
  <1>6. CASE JudgeSmoke(i)
    <2>1. PICK turns : proc' = [proc EXCEPT ![i].pc = "loop", ![i].at = 1, ![i].smoke = turns, ![i].turns = <<>>]
      BY <1>2, <1>6 DEF JudgeSmoke
    <2>2. GoesOn(i) /\ proc'[i].pc = "loop" /\ proc'[i].evidence = proc[i].evidence
      BY <1>1, <2>1 DEF GoesOn, OthersStay, Process
    <2> QED BY <1>1, <2>2, PassingBooks
  <1>7. CASE Judge(i)
    <2>1. PICK n : n = proc[i].at + 1
      OBVIOUS
    <2>2. proc' = [proc EXCEPT ![i].pc = "loop", ![i].at = n, ![i].fresh = FALSE]
      BY <1>2, <1>7, <2>1 DEF Judge
    <2>3. GoesOn(i) /\ proc'[i].pc = "loop" /\ proc'[i].evidence = proc[i].evidence
      BY <1>1, <2>2 DEF GoesOn, OthersStay, Process
    <2> QED BY <1>1, <2>3, PassingBooks
  <1>8. CASE PreflightPack(i)
    <2>1. PICK to \in {"pack?", "aggregate?"}, place \in {0, proc[i].at + 1}, known \in {{}, {item(i)}} :
            /\ proc' = [proc EXCEPT ![i].pc = to, ![i].at = place,
                                    ![i].evidence = @ \cup known,
                                    ![i].reported = @ \cup (known \cap dirs),
                                    ![i].receipted = @ \cup {x \in known : exists(Receipt(x))}]
            /\ known # {} => pack_resumes(i, item(i))
      BY <1>2, <1>8 DEF PreflightPack
    <2>2. PICK evidence, reported, receipted :
            /\ evidence = proc[i].evidence \cup known
            /\ reported = proc[i].reported \cup (known \cap dirs)
            /\ receipted = proc[i].receipted \cup {x \in known : exists(Receipt(x))}
      OBVIOUS
    <2>3. proc' = [proc EXCEPT ![i].pc = to, ![i].at = place, ![i].evidence = evidence,
                               ![i].reported = reported, ![i].receipted = receipted]
      BY <2>1, <2>2, Zenon
    <2>4. GoesOn(i) /\ proc'[i].pc = to /\ proc'[i].evidence = evidence
      BY <1>1, <2>3 DEF GoesOn, OthersStay, Process
    <2>5. \A p \in known : usage_is_collected(disk[Bundle(p)].turns)
      BY <2>1, EvidenceIsPriced
    <2> QED BY <1>1, <2>2, <2>4, <2>5, PassingBooks
  <1>9. CASE ClosePack(i)
    <2>1. PICK known, reported, receipted :
            /\ known = {item(i)} /\ reported = {item(i)} \cap dirs
            /\ receipted = {x \in {item(i)} : exists(Receipt(x))}
      OBVIOUS
    <2>2. /\ evidence_holds(i, item(i))
          /\ proc' = [proc EXCEPT ![i].pc = "reports", ![i].turns = <<>>, ![i].fresh = TRUE,
                                  ![i].evidence = @ \cup known, ![i].reported = @ \cup reported,
                                  ![i].receipted = @ \cup receipted]
      BY <1>2, <1>9, <2>1 DEF ClosePack
    <2>3. GoesOn(i) /\ proc'[i].pc = "reports" /\ proc'[i].evidence = proc[i].evidence \cup known
      BY <1>1, <2>2 DEF GoesOn, OthersStay, Process
    <2>4. \A p \in known : usage_is_collected(disk[Bundle(p)].turns)
      BY <2>1, <2>2, EvidenceIsPriced
    <2> QED BY <1>1, <2>3, <2>4, PassingBooks
  <1> QED BY <1>3, <1>4, <1>5, <1>6, <1>7, <1>8, <1>9

-----------------------------------------------------------------------------
(* The steps that publish. *)
LEMMA LinkBooks ==
  ASSUME IInv, Good, Books, NEW i \in Procs, Link(i)
  PROVE  Books'
  <1>0. /\ UNCHANGED <<bought, billed>> /\ proc[i].pc = "link" /\ Writes(i)
        /\ Stage(i) = proc[i].after /\ WritesPaper(i)
        /\ HoldsBooks(i) /\ EvidenceHolds(i) /\ AnswerHolds(i) /\ DerivedHolds(i) /\ Earned /\ Booked
    BY DEF Link, paid_vars, at, Writes, Stage, IInv, ProcessHolds, Good, HoldsGood, Books
  <1>1. CASE ~link(proc[i].path)
    BY <1>0, <1>1, RefuseBooks DEF Link
  <1>2. CASE link(proc[i].path)
    <2>1. ~exists(proc[i].path) /\ go(i, "unlink") /\ disk' = [disk EXCEPT ![proc[i].path] = Document(i)]
      BY <1>2 DEF Link, link
    <2>2. PICK path, new : /\ path = proc[i].path /\ new = Document(i) /\ new.by = proc[i].by
                           /\ disk' = [disk EXCEPT ![path] = new]
      <3>1. PICK t : Document(i) = Whole(proc[i].by, t)
        BY DocumentIsWhole
      <3>2. Document(i).by = proc[i].by
        BY <3>1 DEF Whole
      <3> QED BY <2>1, <3>2
    <2>3. \A x \in Paths : disk'[x] = IF x = path THEN new ELSE disk[x]
      BY <2>2 DEF IInv, Shape
    <2>4. \A x \in Paths : exists(x)' => exists(x) \/ x = path
      BY <2>3 DEF exists
    <2>5. Grown
      BY <1>0, StepGrows DEF Step
    <2>6. /\ GoesOn(i) /\ proc'[i].pc = "unlink" /\ proc'[i].evidence = proc[i].evidence
      BY <2>1, GoCarries, GoGoesOn DEF IInv, Carries
    <2>7. \A p \in Range_(Packs) : disk'[Bundle(p)] = disk[Bundle(p)]
      BY <1>0, <2>2, <2>3, PacksAreThere DEF WritesPaper
    <2>8. ASSUME NEW p \in Range_(Packs)
          PROVE  /\ exists(Bundle(p))' => Accounts(disk[Bundle(p)].turns, p)'
                 /\ exists(Receipt(p))' => usage_is_collected(disk'[Bundle(p)].turns)
      <3>1. exists(Bundle(p))' => Accounts(disk[Bundle(p)].turns, p)'
        BY <1>0, <2>7 DEF Booked, Accounts, exists
      <3>2. CASE exists(Receipt(p))
        BY <1>0, <2>7, <3>1, <3>2 DEF Booked
      <3>3. CASE path = Receipt(p)
        <4>1. p \in Items /\ p # "smoke"
          BY PacksAreThere
        <4>2. proc[i].after # "smoke!"
          BY <1>0, <2>2, <3>3, <4>1, ReceiptsApart DEF WritesPaper
        <4>3. proc[i].after = "judge"
          BY <1>0, <2>2, <3>3, <4>1, <4>2 DEF DerivedHolds
        <4>4. p = item(i) /\ p \in proc[i].evidence
          BY <1>0, <2>2, <3>3, <4>3, ReceiptsApart DEF DerivedHolds
        <4> QED BY <1>0, <2>7, <3>1, <4>4 DEF HoldsBooks
      <3> QED BY <2>4, <3>1, <3>2, <3>3, PacksAreThere
    <2>9. exists(Response)' => SmokeAccounts(disk[Response].turns)'
      <3>1. CASE exists(Response)
        <4>1. disk'[Response].turns = disk[Response].turns
          BY <2>5, <3>1, PacksAreThere DEF Grown
        <4> QED BY <1>0, <3>1, <4>1 DEF Booked, SmokeAccounts, Accounts
      <3>2. CASE path = Response
        <4>1. SmokeAccounts(proc[i].turns)
          BY <1>0, <2>2, <3>2 DEF HoldsBooks
        <4>2. new = Whole(proc[i].by, proc[i].turns)
          <5>1. Response # Aggregate /\ Response \notin Range_(Failures)
                /\ Response[1] \notin {"authorization", "estimate", "attempt"}
            BY DEF Response, Aggregate, Range_, Failures
          <5>2. proc[i].path = Response
            BY <2>2, <3>2
          <5>3. Document(i) = smoke_document(i)
            BY <5>1, <5>2 DEF Document
          <5> QED BY <2>2, <5>3 DEF smoke_document
        <4>3. disk'[Response].turns = proc[i].turns
          BY <2>3, <3>2, <4>2, PacksAreThere DEF Whole
        <4> QED BY <1>0, <4>1, <4>3 DEF SmokeAccounts, Accounts
      <3> QED BY <2>4, <3>1, <3>2, PacksAreThere
    <2>10. exists(Aggregate)' => Budgeted(disk'[Aggregate].by)
      <3>1. CASE path = Aggregate
        <4>1. disk'[Aggregate].by = proc[i].by
          BY <2>2, <2>3, <3>1, PacksAreThere
        <4> QED BY <1>0, <4>1 DEF HoldsBooks
      <3>2. CASE path # Aggregate
        <4>1. disk'[Aggregate] = disk[Aggregate]
          BY <2>3, <3>2, PacksAreThere
        <4> QED BY <1>0, <4>1 DEF Booked, exists
      <3> QED BY <3>1, <3>2
    <2>11. Booked'
      BY <1>0, <2>8, <2>9, <2>10 DEF Booked, Budgeted
    <2>12. HoldsBooks(i)'
      <3>1. ASSUME NEW p \in proc[i].evidence PROVE usage_is_collected(disk'[Bundle(p)].turns)
        BY <1>0, <2>7, <3>1 DEF EvidenceHolds, HoldsBooks
      <3> QED BY <1>0, <2>6, <3>1 DEF HoldsBooks, GoesOn, Budgeted
    <2>13. ASSUME NEW j \in Procs, j # i PROVE HoldsBooks(j)'
      BY <1>0, <2>5, <2>6, <2>13, OthersHoldBooks DEF GoesOn, OthersStay
    <2> QED BY <2>11, <2>12, <2>13 DEF Books
  <1> QED BY <1>1, <1>2

LEMMA UnlinkBooks ==
  ASSUME IInv, Good, Books, NEW i \in Procs, Unlink(i)
  PROVE  Books'
  <1>0. /\ UNCHANGED <<disk, bought, billed>> /\ proc[i].pc = "unlink" /\ Writes(i)
        /\ Stage(i) = proc[i].after
        /\ proc = [j \in Procs |-> proc[j]] /\ Process(proc[i])
        /\ WritesPaper(i) /\ ControlHolds(i) /\ OwnershipHolds(i) /\ HoldsBooks(i) /\ Booked
    BY DEF Unlink, disk_vars, paid_vars, at, IInv, ProcessHolds, Shape, Stage, Writes, Books
  <1>1. PICK to : to = proc[i].after
    OBVIOUS
  <1>2. proc' = [proc EXCEPT ![i].pc = to, ![i].path = NoPath, ![i].after = "idle",
                             ![i].temporary = FALSE]
    BY <1>1 DEF Unlink
  <1>3. /\ OthersStay(i) /\ proc'[i].pc = to /\ proc'[i].by = proc[i].by /\ proc'[i].at = proc[i].at
        /\ proc'[i].turns = proc[i].turns /\ proc'[i].evidence = proc[i].evidence
    BY <1>0, <1>2 DEF OthersStay, Process
  <1>4. to \notin {"link", "unlink", "close"}
    BY <1>0, <1>1 DEF WritesPaper
  <1>5. to = "call" => proc[i].turns = <<>> /\ item(i) \in Items /\ bought[item(i)] = 0
    BY <1>0, <1>1, OwnsAnItem DEF ControlHolds, Unbought, OwnershipHolds, Owner
  <1>6. to = "call" => Accounts(proc[i].turns, item(i))
    BY <1>0, <1>5, NothingBilled DEF Booked, Accounts
  <1>7. HoldsBooks(i)'
    BY <1>0, <1>3, <1>4, <1>5, <1>6 DEF HoldsBooks, Accounts, item, Budgeted
  <1> QED BY <1>0, <1>3, <1>7, QuietBooks

(* A run is recorded with the turns it was billed for. *)
LEMMA BundleBooks ==
  ASSUME IInv, Good, Books, NEW i \in Procs, Record(i) \/ Seal(i)
  PROVE  Books'
  <1>0. /\ UNCHANGED <<bought, billed>> /\ Stage(i) = proc[i].pc /\ proc[i].pc \in {"call", "seal"}
        /\ proc[i].at > 0 /\ Owner(i) /\ proc[i].pc # "idle"
        /\ ControlHolds(i) /\ OwnershipHolds(i) /\ HoldsBooks(i) /\ EvidenceHolds(i) /\ Booked
    <2>1. /\ UNCHANGED <<bought, billed>> /\ proc[i].pc \in {"call", "seal"}
          /\ proc[i].pc = "call" => proc[i].at > 0
      BY DEF Record, Seal, paid_vars, at
    <2>2. Stage(i) = proc[i].pc /\ Owner(i)
      BY <2>1 DEF Stage, Writes, Owner
    <2>3. ControlHolds(i) /\ OwnershipHolds(i) /\ HoldsBooks(i) /\ EvidenceHolds(i) /\ Booked
      BY DEF IInv, ProcessHolds, Good, HoldsGood, Books
    <2> QED BY <2>1, <2>2, <2>3 DEF ControlHolds
  <1>1. item(i) \in Range_(Packs) /\ Bundle(item(i)) \in Paths
    BY <1>0, OwnsAnItem
  <1>2. \A x \in Paths : x # Bundle(item(i)) => disk'[x] = disk[x]
    <2>1. PICK path, new : path = Bundle(item(i)) /\ disk' = [disk EXCEPT ![path] = new]
      BY DEF Record, Seal
    <2> QED BY <2>1 DEF IInv, Shape
  <1>3. Accounts(disk'[Bundle(item(i))].turns, item(i))
    <2>1. CASE Record(i)
      <3>1. PICK path, new : /\ path = Bundle(item(i)) /\ new.turns = proc[i].turns
                             /\ disk' = [disk EXCEPT ![path] = new]
        BY <2>1 DEF Record
      <3>2. disk'[path] = new
        BY <1>1, <3>1 DEF IInv, Shape
      <3>3. proc[i].pc = "call"
        BY <2>1 DEF Record, at
      <3> QED BY <1>0, <3>1, <3>2, <3>3 DEF HoldsBooks
    <2>2. CASE Seal(i)
      <3>1. exists(Bundle(item(i)))
        <4>1. proc[i].pc = "seal"
          BY <2>2 DEF Seal, at
        <4>2. disk[Bundle(item(i))].state = "partial"
          BY <1>0, <4>1 DEF OwnershipHolds
        <4> QED BY <4>2 DEF exists, NoFile
      <3>2. Grown
        BY <1>0, <2>2, StepGrows DEF Step
      <3>3. disk'[Bundle(item(i))].turns = disk[Bundle(item(i))].turns
        BY <1>1, <3>1, <3>2 DEF Grown
      <3> QED BY <1>0, <1>1, <3>1, <3>3 DEF Booked
    <2> QED BY <2>1, <2>2
  <1>4. Grown
    BY <1>0, StepGrows DEF Step
  <1>5. /\ GoesOn(i) /\ proc'[i].pc \in {"seal", "close"} /\ proc'[i].evidence = proc[i].evidence
        /\ proc'[i].at = proc[i].at
    <2>1. PICK to \in {"seal", "close"} : go(i, to)
      BY DEF Record, Seal
    <2> QED BY <2>1, GoCarries, GoGoesOn DEF IInv, Carries
  <1>6. Booked'
    <2>1. ASSUME NEW p \in Range_(Packs)
          PROVE  /\ exists(Bundle(p))' => Accounts(disk[Bundle(p)].turns, p)'
                 /\ exists(Receipt(p))' => usage_is_collected(disk'[Bundle(p)].turns)
      <3>1. Bundle(p) \in Paths /\ Receipt(p) \in Paths /\ Receipt(p) # Bundle(item(i))
        BY PacksAreThere, PathsDiffer
      <3>2. exists(Receipt(p))' => exists(Receipt(p))
        BY <1>2, <3>1 DEF exists
      <3>3. exists(Receipt(p)) => exists(Bundle(p))
        BY DEF Good, Earned
      <3>4. exists(Receipt(p))' => usage_is_collected(disk'[Bundle(p)].turns)
        BY <1>0, <1>4, <3>1, <3>2, <3>3 DEF Grown, Booked
      <3>5. CASE p = item(i)
        BY <1>0, <1>3, <3>4, <3>5 DEF Accounts
      <3>6. CASE p # item(i)
        <4>1. disk'[Bundle(p)] = disk[Bundle(p)]
          BY <1>2, <3>1, <3>6, PathsDiffer
        <4> QED BY <1>0, <3>4, <4>1 DEF Booked, Accounts, exists
      <3> QED BY <3>5, <3>6
    <2>2. disk'[Response] = disk[Response] /\ disk'[Aggregate] = disk[Aggregate]
      BY <1>2, PathsDiffer, PacksAreThere
    <2> QED BY <1>0, <2>1, <2>2 DEF Booked, SmokeAccounts, Accounts, exists
  <1>7. HoldsBooks(i)'
    <2>1. ASSUME NEW p \in proc[i].evidence PROVE usage_is_collected(disk'[Bundle(p)].turns)
      <3>1. p \in Range_(Packs) /\ exists(Bundle(p))
        BY <1>0, WholeIsThere DEF EvidenceHolds
      <3> QED BY <1>0, <1>4, <3>1, PacksAreThere DEF Grown, HoldsBooks
    <2> QED BY <1>0, <1>5, <2>1 DEF HoldsBooks, GoesOn, Budgeted
  <1>8. ASSUME NEW j \in Procs, j # i PROVE HoldsBooks(j)'
    BY <1>0, <1>4, <1>5, <1>8, OthersHoldBooks DEF GoesOn, OthersStay
  <1> QED BY <1>6, <1>7, <1>8 DEF Books

-----------------------------------------------------------------------------
(* A purchase is billed to the item, and to no other. *)
LEMMA BuyBills ==
  ASSUME billed \in [Items -> Nat], NEW i, item(i) \in Items, NEW turn, turn.billed \in Nat, Buy(i, turn)
  PROVE  /\ billed' \in [Items -> Nat]
         /\ billed'[item(i)] = billed[item(i)] + turn.billed
         /\ \A x \in Items : x # item(i) => billed'[x] = billed[x]
  <1>1. PICK x \in Items, b, c \in Nat : /\ x = item(i) /\ b = turn.billed /\ c = billed[x]
    OBVIOUS
  <1>2. PICK n \in Nat : n = c + b
    BY <1>1
  <1>3. billed' = [billed EXCEPT ![x] = n]
    BY <1>1, <1>2 DEF Buy
  <1> QED BY <1>1, <1>2, <1>3

LEMMA BuyBooks ==
  ASSUME IInv, Good, Books, NEW i \in Procs, CallSmoke(i) \/ CallTurn(i),
         NEW turn, turn.billed \in Nat, Buy(i, turn), HoldsBooks(i)'
  PROVE  Books'
  <1>1. /\ UNCHANGED disk /\ OthersStay(i) /\ proc[i].pc = "call" /\ item(i) \in Items
        /\ proc[i].at = 0 => proc[i].turns = <<>> /\ item(i) = "smoke" /\ bought["smoke"] = 0
        /\ proc[i].at # 0 => proc[i].at > 0 /\ item(i) \in Range_(Packs)
    <2>1. Stage(i) = "call" /\ HoldsBooks(i) /\ proc[i].at \in Nat
      BY CallBuys DEF Books, Stage, Writes, IInv, ProcessHolds, ControlHolds
    <2>2. proc[i].at = 0 => proc[i].turns = <<>> /\ item(i) = "smoke"
      BY <2>1, CallBuys DEF HoldsBooks, item
    <2> QED BY <2>1, <2>2, CallBuys, OwnsAnItem
  <1>2. /\ billed' \in [Items -> Nat]
        /\ \A x \in Items : x # item(i) => billed'[x] = billed[x]
    BY <1>1, BuyBills DEF Books, Booked
  <1>3. /\ \A x \in Items : bought[x] > 0 => bought'[x] > 0
        /\ \A x \in Items : bought'[x] = 0 => bought[x] = 0 /\ x # item(i)
    <2>1. CASE proc[i].turns = <<>>
      BY <2>1, CallBuys
    <2>2. CASE proc[i].turns # <<>>
      <3>1. bought[item(i)] > 0
        BY <1>1, <2>2 DEF Good, HoldsGood, DerivedHolds
      <3> QED BY <2>2, <3>1, CallBuys
    <2> QED BY <2>1, <2>2
  <1>4. bought["smoke"] > 0 => item(i) # "smoke"
    BY <1>1, PacksAreThere
  <1>5. ASSUME NEW turns, SmokeAccounts(turns) PROVE SmokeAccounts(turns)'
    BY <1>2, <1>3, <1>4, <1>5, ItemsAreThere DEF SmokeAccounts, Accounts
  <1>6. Booked'
    <2>1. \A p \in Range_(Packs) : exists(Bundle(p)) => p # item(i)
      <3>1. Owner(i) /\ OwnershipHolds(i)
        BY <1>1 DEF Owner, IInv, ProcessHolds
      <3> QED BY <1>1, <3>1, PacksAreThere DEF OwnershipHolds
    <2>2. \A x \in Items : bought'[x] = 0 => billed'[x] = 0
      BY <1>2, <1>3 DEF Books, Booked
    <2>3. \A p \in Range_(Packs) :
            /\ exists(Bundle(p))' => Accounts(disk[Bundle(p)].turns, p)'
            /\ exists(Receipt(p))' => usage_is_collected(disk'[Bundle(p)].turns)
      BY <1>1, <1>2, <2>1, PacksAreThere DEF Books, Booked, Accounts, exists
    <2> QED BY <1>1, <1>2, <1>5, <2>2, <2>3 DEF Books, Booked, exists, Budgeted
  <1>7. ASSUME NEW j \in Procs, j # i PROVE HoldsBooks(j)'
    <2>1. proc'[j] = proc[j] /\ HoldsBooks(j) /\ AnswerHolds(j) /\ item(j)' = item(j)
      BY <1>1, <1>7 DEF OthersStay, Books, Good, HoldsGood, item
    <2>2. proc[j].pc = "call" => item(j) \in Items /\ item(j) # item(i)
      <3>1. SUFFICES ASSUME proc[j].pc = "call" PROVE item(j) \in Items /\ item(j) # item(i)
        OBVIOUS
      <3>2. Stage(j) = "call" /\ Owner(j) /\ Owner(i)
        BY <1>1, <3>1 DEF Stage, Writes, Owner
      <3> QED BY <1>7, <3>2, OwnsAnItem DEF IInv, OneOwner
    <2>3. proc[j].pc = "close" /\ proc[j].at = 0 => item(i) # "smoke"
      <3>1. proc[j].pc = "close" => Stage(j) = "close"
        BY DEF Stage, Writes
      <3> QED BY <1>4, <2>1, <3>1 DEF AnswerHolds
    <2>4. \A p \in proc[j].evidence : usage_is_collected(disk'[Bundle(p)].turns)
      BY <1>1, <2>1 DEF HoldsBooks
    <2> QED BY <1>2, <1>5, <2>1, <2>2, <2>3, <2>4, ItemsAreThere DEF HoldsBooks, Accounts, Budgeted
  <1> QED BY <1>6, <1>7 DEF Books

LEMMA CallSmokeBooks ==
  ASSUME IInv, Good, Books, NEW i \in Procs, CallSmoke(i)
  PROVE  Books'
  <1>0. PICK reply \in Answers(Kinds["smoke"], SmokePack, 1) :
          /\ Buy(i, TurnOf(SmokePack, <<reply>>))
          /\ proc' = [proc EXCEPT ![i].pc = "close", ![i].turns = <<TurnOf(SmokePack, <<reply>>)>>]
    BY DEF CallSmoke
  <1>1. PICK turn :
          /\ turn = TurnOf(SmokePack, <<reply>>) /\ Buy(i, turn)
          /\ proc' = [proc EXCEPT ![i].pc = "close", ![i].turns = <<turn>>]
    BY <1>0
  <1>2. TurnHolds(turn)
    <2>1. SmokePack \in Nat /\ Kinds["smoke"] \in SUBSET AnswerKinds
      BY SizesAssumption, ItemsAreThere DEF SizesAssumption
    <2> QED BY <1>1, <2>1, TurnsHold
  <1>3. /\ proc[i].pc = "call" /\ proc[i].at = 0 /\ item(i) = "smoke" /\ "smoke" \in Items
        /\ UNCHANGED disk /\ HoldsBooks(i) /\ Booked
        /\ proc = [j \in Procs |-> proc[j]] /\ Process(proc[i])
    BY ItemsAreThere DEF CallSmoke, at, item, disk_vars, Books, IInv, Shape
  <1>4. PICK turns : turns = <<turn>>
    OBVIOUS
  <1>5. /\ proc'[i].pc = "close" /\ proc'[i].at = 0 /\ proc'[i].turns = turns
        /\ proc'[i].by = proc[i].by /\ proc'[i].evidence = proc[i].evidence
    <2>1. proc' = [proc EXCEPT ![i].pc = "close", ![i].turns = turns]
      BY <1>1, <1>4
    <2> QED BY <1>3, <2>1 DEF Process
  <1>6. /\ TurnsAre(turns) /\ bill(turns) = turn.billed /\ turn.billed \in Nat
        /\ turns[1].status # "missed" => unpriced_cost_reserve(turns) = 0
    BY <1>2, <1>4, OneTurnBilled
  <1>7. billed'["smoke"] = turn.billed
    <2>1. bought["smoke"] = 0
      BY <1>3, CallBuys DEF HoldsBooks
    <2>2. billed["smoke"] = 0
      BY <1>3, <2>1 DEF Booked
    <2>3. billed'["smoke"] = billed["smoke"] + turn.billed
      BY <1>1, <1>3, <1>6, BuyBills DEF Booked
    <2> QED BY <1>6, <2>2, <2>3
  <1>8. HoldsBooks(i)'
    <2>1. \A p \in proc'[i].evidence : usage_is_collected(disk'[Bundle(p)].turns)
      BY <1>3, <1>5 DEF HoldsBooks
    <2>2. Budgeted(proc'[i].by)
      BY <1>3, <1>5 DEF HoldsBooks
    <2>3. Accounts(turns, "smoke")'
      BY <1>6, <1>7 DEF Accounts
    <2> QED BY <1>5, <1>6, <2>1, <2>2, <2>3 DEF HoldsBooks, Budgeted, Accounts
  <1> QED BY <1>1, <1>6, <1>8, BuyBooks

LEMMA CallTurnBooks ==
  ASSUME IInv, Good, Books, NEW i \in Procs, CallTurn(i)
  PROVE  Books'
  <1>0. PICK p : p = item(i)
    OBVIOUS
  <1>1. PICK observation \in Observed[p] : \E turn \in Turns(Kinds[p], observation) :
          Buy(i, turn) /\ proc' = [proc EXCEPT ![i].turns = Append(@, turn)]
    BY <1>0 DEF CallTurn
  <1>11. PICK turn \in Turns(Kinds[p], observation) :
          /\ p = item(i) /\ Buy(i, turn)
          /\ proc' = [proc EXCEPT ![i].turns = Append(@, turn)]
    BY <1>0, <1>1
  <1>2. /\ proc[i].pc = "call" /\ proc[i].at > 0 /\ UNCHANGED disk /\ HoldsBooks(i) /\ Booked
        /\ proc = [j \in Procs |-> proc[j]] /\ Process(proc[i])
        /\ proc[i].turns \in Seq(Range_(proc[i].turns)) /\ Stage(i) = "call"
    BY DEF CallTurn, at, disk_vars, Books, IInv, ProcessHolds, ControlHolds, Shape, Stage, Writes
  <1>3. p \in Range_(Packs) /\ p \in Items
    BY <1>0, <1>2, OwnsAnItem
  <1>4. TurnHolds(turn)
    <2>1. Observed[p] \subseteq Nat /\ Kinds[p] \in SUBSET AnswerKinds
      BY <1>3, SizesAssumption DEF SizesAssumption
    <2> QED BY <2>1, TurnsHold
  <1>5. PICK turns : turns = Append(proc[i].turns, turn)
    OBVIOUS
  <1>6. /\ proc'[i].pc = "call" /\ proc'[i].at = proc[i].at /\ proc'[i].turns = turns
        /\ proc'[i].by = proc[i].by /\ proc'[i].evidence = proc[i].evidence
    <2>1. proc' = [proc EXCEPT ![i].turns = turns]
      BY <1>11, <1>5
    <2> QED BY <1>2, <2>1 DEF Process
  <1>7. TurnsAre(proc[i].turns) /\ billed[p] = bill(proc[i].turns)
    BY <1>0, <1>2 DEF HoldsBooks, Accounts
  <1>8. TurnsAre(turns) /\ bill(turns) = bill(proc[i].turns) + turn.billed /\ turn.billed \in Nat
    BY <1>2, <1>4, <1>5, <1>7, BillAdds
  <1>9. billed'[p] = billed[p] + turn.billed
    BY <1>11, <1>2, <1>3, <1>8, BuyBills DEF Booked
  <1>10. HoldsBooks(i)'
    <2>1. \A q \in proc'[i].evidence : usage_is_collected(disk'[Bundle(q)].turns)
      BY <1>2, <1>6 DEF HoldsBooks
    <2>2. Budgeted(proc'[i].by)
      BY <1>2, <1>6 DEF HoldsBooks
    <2>3. Accounts(turns, p)'
      BY <1>7, <1>8, <1>9 DEF Accounts
    <2>4. item(i)' = p
      BY <1>0, <1>6 DEF item
    <2> QED BY <1>2, <1>6, <2>1, <2>2, <2>3, <2>4 DEF HoldsBooks, Budgeted, Accounts
  <1> QED BY <1>8, <1>10, <1>11, BuyBooks

-----------------------------------------------------------------------------
(* An invocation is let in under settings that leave room for all it may buy. *)
LEMMA InvokeBooks ==
  ASSUME IInv, Good, Books, NEW i \in Procs, Invoke(i)
  PROVE  Books'
  <1>0. UNCHANGED <<disk, bought, billed>> /\ proc = [j \in Procs |-> proc[j]]
    BY DEF Invoke, disk_vars, paid_vars, IInv, Shape
  <1>1. CASE UNCHANGED proc
    <2>1. Grown
      BY <1>0 DEF Grown, exists
    <2>2. OthersStay(i)
      BY <1>1 DEF IInv, Shape, OthersStay
    <2>3. HoldsBooks(i)'
      BY <1>0, <1>1, <2>1, OthersHoldBooks
    <2> QED BY <1>0, <2>2, <2>3, QuietBooks
  <1>2. CASE ~UNCHANGED proc
    <2>1. PICK s \in Settings, resume \in BOOLEAN :
            /\ prior_failure_holds(s) /\ within_estimate_budget(s.prior)
            /\ proc' = [proc EXCEPT ![i] = [Idle EXCEPT !.pc = "preflight", !.by = s.name,
                                                        !.prior = s.prior, !.resume = resume]]
      BY <1>2 DEF Invoke
    <2>2. PICK begun : begun = [Idle EXCEPT !.pc = "preflight", !.by = s.name,
                                            !.prior = s.prior, !.resume = resume]
      OBVIOUS
    <2>3. /\ Process(begun) /\ begun.pc = "preflight" /\ begun.by = s.name /\ begun.evidence = {}
      BY <2>2 DEF Idle, Process
    <2>4. OthersStay(i) /\ proc'[i] = begun
      BY <1>0, <2>1, <2>2, <2>3 DEF OthersStay
    <2>5. Budgeted(begun.by)
      BY <2>1, <2>3 DEF Budgeted
    <2>6. HoldsBooks(i)'
      BY <2>3, <2>4, <2>5 DEF HoldsBooks, Budgeted
    <2> QED BY <1>0, <2>4, <2>6, QuietBooks
  <1> QED BY <1>1, <1>2

LEMMA InitBooks == Init => Books
  <1>1. ASSUME Init PROVE Books
    <2>1. /\ proc = [i \in Procs |-> Idle] /\ disk = [x \in Paths |-> NoFile]
          /\ billed = [x \in Items |-> 0]
      BY <1>1 DEF Init
    <2>2. Idle.pc = "idle" /\ Idle.evidence = {}
      BY DEF Idle
    <2>3. \A i \in Procs : HoldsBooks(i)
      BY <2>1, <2>2 DEF HoldsBooks
    <2>4. \A x \in Paths : ~exists(x)
      BY <2>1 DEF exists
    <2>5. Booked
      BY <2>1, <2>4, PacksAreThere DEF Booked
    <2> QED BY <2>3, <2>5 DEF Books
  <1> QED BY <1>1

LEMMA BooksInductive == IInv /\ Good /\ Books /\ [Next]_vars => Books'
  <1>1. ASSUME IInv, Good, Books, NEW i \in Procs, Step(i) PROVE Books'
    <2>1. CASE EpisodeRaises(i)
      BY <1>1, <2>1, RefuseBooks DEF EpisodeRaises, disk_vars, paid_vars
    <2> QED BY <1>1, <2>1, LinkBooks, UnlinkBooks, PlainBooks, DocumentsBooks, CloseSmokeBooks,
               MovingBooks, CallSmokeBooks, CallTurnBooks, BundleBooks DEF Step
  <1>2. ASSUME IInv, Good, Books, NEW i \in Procs, Dies(i) PROVE Books'
    BY <1>2, RefuseBooks DEF Dies, paid_vars
  <1>3. ASSUME IInv, Good, Books, UNCHANGED vars PROVE Books'
    <2>1. Grown /\ UNCHANGED <<disk, proc, bought, billed>>
      BY <1>3 DEF vars, Grown, exists
    <2>2. ASSUME NEW j \in Procs PROVE HoldsBooks(j)'
      BY <1>3, <2>1, OthersHoldBooks
    <2>3. Booked'
      BY <1>3, <2>1 DEF Books, Booked, Accounts, SmokeAccounts, exists, Budgeted
    <2> QED BY <2>2, <2>3 DEF Books
  <1> QED BY <1>1, <1>2, <1>3, InvokeBooks DEF Next

LEMMA BooksHold == Spec => []Books
  BY SpecHolds, GoodHolds, InitBooks, BooksInductive, PTL DEF Spec

-----------------------------------------------------------------------------
(* What an item may cost, and what it was estimated at, are counts. *)
LEMMA BoundsAreCounts ==
  ASSUME NEW x \in Items
  PROVE  authorization(x) \in Nat /\ estimate(x) \in Nat
  <1>1. CASE x = "smoke"
    <2>1. SmokePack \in Nat
      BY SizesAssumption DEF SizesAssumption
    <2>2. PICK once \in Nat \ {0} : once = 1 /\ once \in {1, 2}
      OBVIOUS
    <2>3. estimate_run_cost(SmokePack, once, once, once, AuthorizationFraming) \in Nat
      BY <2>1, <2>2, RunCostIsCount, PricesAreCounts
    <2>4. estimate_run_cost(SmokePack, once, once, BytesPerToken, Framing) \in Nat
      BY <2>1, <2>2, RunCostIsCount, PricesAreCounts
    <2> QED BY <1>1, <2>2, <2>3, <2>4 DEF authorization, estimate, smoke_authorization_cost, estimated_cost
  <1>2. CASE x # "smoke"
    <2>1. Sample[x] \in Nat /\ TurnsOf[x] \in Nat
      BY <1>2, SizesAssumption DEF SizesAssumption, Items
    <2>2. 1 + Retries \in {1, 2}
      BY PricesAreCounts
    <2>3. PICK size, length, attempts \in Nat :
            size = Sample[x] /\ length = TurnsOf[x] /\ attempts = 1 + Retries /\ attempts \in {1, 2}
      BY <2>1, <2>2
    <2>4. PICK once \in Nat \ {0} : once = 1 /\ once \in {1, 2}
      OBVIOUS
    <2>5. estimate_run_cost(size, length, attempts, once, AuthorizationFraming) \in Nat
      BY <2>3, <2>4, RunCostIsCount, PricesAreCounts
    <2>6. estimate_run_cost(size, length, once, BytesPerToken, Framing) \in Nat
      BY <2>3, <2>4, RunCostIsCount, PricesAreCounts
    <2> QED BY <1>2, <2>3, <2>4, <2>5, <2>6 DEF authorization, estimate, authorization_cost, estimated_cost
  <1> QED BY <1>1, <1>2

LEMMA ItemsAreFinite == IsFiniteSet(Items)
  <1>1. PICK n \in Nat : n = Len(Packs) /\ DOMAIN Packs = 1..n
    BY PacksAreThere
  <1>2. IsFiniteSet(Range_(Packs))
    <2>1. Packs \in [1..n -> Range_(Packs)]
      BY <1>1, PacksAreListed, LenProperties
    <2>2. Packs \in Surjection(1..n, Range_(Packs))
      BY <1>1, <2>1 DEF Surjection, Range_
    <2>3. IsFiniteSet(1..n)
      BY FS_Interval
    <2> QED BY <2>2, <2>3, FS_Surjection
  <1>3. IsFiniteSet({"smoke"} \cup Range_(Packs))
    BY <1>2, FS_Singleton, FS_Union
  <1> QED BY <1>3 DEF Items

(* What was billed for a pack lies between what its receipt knows and what *)
(* it accounts for.                                                        *)
LEMMA PackIsAccounted ==
  ASSUME Good, Books, NEW p \in Range_(Packs), exists(Receipt(p))
  PROVE  LET turns == disk[Bundle(p)].turns
         IN /\ billed[p] \in Nat /\ known_cost(turns) \in Nat /\ accounted(p) \in Nat
            /\ billed[p] <= Quantum * accounted(p) /\ true_cost(p) \in Nat
            /\ known_cost(turns) <= true_cost(p) /\ true_cost(p) <= accounted(p)
  <1>1. PICK turns : turns = disk[Bundle(p)].turns
    OBVIOUS
  <1>2. TurnsAre(turns) /\ billed[p] = bill(turns) /\ usage_is_collected(turns)
    BY <1>1 DEF Good, Earned, Books, Booked, Accounts
  <1>3. /\ bill(turns) \in Nat /\ known_cost(turns) \in Nat /\ accounting_cost_upper_bound(turns) \in Nat
        /\ bill(turns) <= Quantum * accounting_cost_upper_bound(turns)
        /\ known_cost(turns) <= ceil_div(bill(turns), Quantum)
        /\ ceil_div(bill(turns), Quantum) <= accounting_cost_upper_bound(turns)
    BY <1>2, AccountIsRight
  <1>4. ceil_div(bill(turns), Quantum) \in Nat
    BY <1>3, CeilCovers, PricesAreCounts
  <1> QED BY <1>1, <1>2, <1>3, <1>4 DEF accounted, true_cost

(* The smoke call that passed was billed what its answer reports. *)
LEMMA SmokeIsAccounted ==
  ASSUME Good, Books, exists(Receipt("smoke"))
  PROVE  LET known == known_cost(disk[Response].turns)
         IN /\ billed["smoke"] \in Nat /\ true_cost("smoke") = known /\ known \in Nat
            /\ known <= authorization("smoke") /\ billed["smoke"] <= Quantum * known
  <1>1. PICK turns : turns = disk[Response].turns
    OBVIOUS
  <1>2. /\ TurnsAre(turns) /\ billed["smoke"] = bill(turns) /\ unpriced_cost_reserve(turns) = 0
        /\ usage_is_collected(turns) /\ known_cost(turns) <= authorization("smoke")
    BY <1>1 DEF Good, Earned, Books, Booked, SmokeAccounts, Accounts, smoke_is_valid
  <1>3. /\ bill(turns) \in Nat /\ known_cost(turns) \in Nat /\ accounting_cost_upper_bound(turns) \in Nat
        /\ bill(turns) <= Quantum * accounting_cost_upper_bound(turns)
        /\ known_cost(turns) <= ceil_div(bill(turns), Quantum)
        /\ ceil_div(bill(turns), Quantum) <= accounting_cost_upper_bound(turns)
    BY <1>2, AccountIsRight
  <1>4. accounting_cost_upper_bound(turns) = known_cost(turns)
    BY <1>2, <1>3 DEF accounting_cost_upper_bound
  <1>5. ceil_div(bill(turns), Quantum) \in Nat
    BY <1>3, CeilCovers, PricesAreCounts
  <1> QED BY <1>1, <1>2, <1>3, <1>4, <1>5 DEF true_cost

(* The receipts under the root are the whole account of what was bought:   *)
(* every call and episode is there before its bill, once, computed from    *)
(* one set of settings, and the receipt of a pack never accounts for less  *)
(* than the provider billed, that of the smoke call for exactly as much.   *)
THEOREM MatrixSpendingIsOnRecord == Spec => []SpendingIsOnRecord
  <1>1. Good /\ Books => AccountsCoverTheBills
    BY PackIsAccounted, SmokeIsAccounted DEF AccountsCoverTheBills
  <1>2. Spec => []AccountsCoverTheBills
    BY <1>1, GoodHolds, BooksHold, PTL
  <1>3. BoughtOnce /\ PaidOnRecord /\ OneBasis /\ AccountsCoverTheBills => SpendingIsOnRecord
    BY DEF SpendingIsOnRecord
  <1> QED BY <1>2, <1>3, MatrixBuysOnce, MatrixPaysOnRecord, MatrixHasOneBasis, PTL

-----------------------------------------------------------------------------
(* What proved good was billed within its estimate and its authorization.  *)
LEMMA GoodOnesAreWithin ==
  ASSUME Good, Books, NEW x \in Items, proved_good(x)
  PROVE  /\ within_two_x(estimate(x), true_cost(x))
         /\ true_cost(x) \in Nat /\ true_cost(x) <= authorization(x)
         /\ billed[x] \in Nat /\ billed[x] <= Quantum * authorization(x)
  <1>1. CASE x = "smoke"
    <2>1. exists(Receipt("smoke")) /\ within_two_x(estimate("smoke"), known_cost(disk[Response].turns))
      BY <1>1 DEF proved_good, smoke_estimate_holds
    <2>2. PICK known \in Nat : /\ known = known_cost(disk[Response].turns) /\ true_cost("smoke") = known
                               /\ known <= authorization("smoke") /\ billed["smoke"] <= Quantum * known
                               /\ billed["smoke"] \in Nat
      BY <2>1, SmokeIsAccounted
    <2>3. PICK bound \in Nat : bound = authorization("smoke")
      BY BoundsAreCounts, ItemsAreThere
    <2>4. Quantum * known <= Quantum * bound /\ Quantum * known \in Nat /\ Quantum * bound \in Nat
      BY <2>2, <2>3, Multiples, Products, PricesAreCounts
    <2>5. billed["smoke"] <= Quantum * bound
      BY <2>2, <2>4
    <2> QED BY <1>1, <2>1, <2>2, <2>3, <2>5
  <1>2. CASE x # "smoke"
    <2>1. /\ x \in Range_(Packs) /\ exists(Receipt(x)) /\ accounted(x) <= authorization(x)
          /\ pack_estimate_holds(x)
      BY <1>2 DEF proved_good, Items
    <2>2. PICK known, upper, cost \in Nat :
            /\ known = known_cost(disk[Bundle(x)].turns) /\ upper = accounted(x) /\ cost = true_cost(x)
            /\ billed[x] \in Nat /\ billed[x] <= Quantum * upper /\ known <= cost /\ cost <= upper
      BY <2>1, PackIsAccounted
    <2>3. PICK bound, expected \in Nat : bound = authorization(x) /\ expected = estimate(x)
      BY BoundsAreCounts
    <2>4. within_two_x_interval(expected, known, upper)
      BY <2>1, <2>2, <2>3 DEF pack_estimate_holds, accounted
    <2>5. within_two_x(expected, cost)
      <3>1. CASE known = upper
        <4>1. cost = known
          BY <2>2, <3>1
        <4> QED BY <2>4, <3>1, <4>1 DEF within_two_x_interval
      <3>2. CASE known # upper
        BY <2>2, <2>3, <2>4, <3>2 DEF within_two_x_interval, within_two_x
      <3> QED BY <3>1, <3>2
    <2>6. upper <= bound /\ Quantum * upper <= Quantum * bound /\ Quantum * upper \in Nat /\ Quantum * bound \in Nat
      BY <2>1, <2>2, <2>3, Multiples, Products, PricesAreCounts
    <2>7. billed[x] <= Quantum * bound /\ cost <= bound
      BY <2>2, <2>6
    <2> QED BY <2>2, <2>3, <2>5, <2>7
  <1> QED BY <1>1, <1>2

(* The aggregate receipt is there only when everything was bought and      *)
(* proved good; then each bill was within a factor of two of its estimate  *)
(* and all of them, with the reserve carried over, below the limit.        *)
THEOREM MatrixAggregateIsEarned == Spec => []AggregateIsEarned
  <1>1. ASSUME Good, Books, exists(Aggregate)
        PROVE  /\ \A x \in Items : within_two_x(estimate(x), true_cost(x))
               /\ \A s \in Settings : s.name = disk[Aggregate].by =>
                    s.prior + sum_of(true_cost, Items) < MatrixLimit
    <2>1. \A x \in Items : proved_good(x)
      BY <1>1 DEF Good, Earned
    <2>2. \A x \in Items : /\ within_two_x(estimate(x), true_cost(x))
                           /\ true_cost(x) \in Nat /\ true_cost(x) <= authorization(x)
      BY <1>1, <2>1, GoodOnesAreWithin
    <2>3. ASSUME NEW s \in Settings, s.name = disk[Aggregate].by
          PROVE  s.prior + sum_of(true_cost, Items) < MatrixLimit
      <3>1. within_estimate_budget(s.prior)
        BY <1>1, <2>3, SettingsAssumption DEF SettingsAssumption, Books, Booked, Budgeted
      <3>2. PICK f, g : f = [x \in Items |-> true_cost(x)] /\ g = [x \in Items |-> authorization(x)]
        OBVIOUS
      <3>3. \A x \in Items : f[x] \in Int /\ g[x] \in Int /\ f[x] <= g[x]
        BY <2>2, <3>2, BoundsAreCounts
      <3>4. /\ SumFunctionOnSet(f, Items) <= SumFunctionOnSet(g, Items)
            /\ SumFunctionOnSet(f, Items) \in Int /\ SumFunctionOnSet(g, Items) \in Int
        BY <3>3, ItemsAreFinite, SumMonotone, SumType
      <3>5. s.prior + SumFunctionOnSet(g, Items) < MatrixLimit
        BY <3>1, <3>2 DEF within_estimate_budget, sum_of
      <3>6. s.prior \in Nat /\ MatrixLimit \in Nat
        BY SettingsAssumption, SizesAssumption DEF SettingsAssumption, SizesAssumption
      <3>7. sum_of(true_cost, Items) = SumFunctionOnSet(f, Items)
        BY <3>2 DEF sum_of
      <3> QED BY <3>4, <3>5, <3>6, <3>7
    <2> QED BY <2>2, <2>3
  <1>2. Good /\ Books /\ AggregateIsComplete => AggregateIsEarned
    BY <1>1 DEF AggregateIsEarned
  <1> QED BY <1>2, GoodHolds, BooksHold, MatrixAggregatesAll, PTL

-----------------------------------------------------------------------------
(* What a failed run left to pay is within the reserve it is carried over  *)
(* with.                                                                   *)
LEMMA ReserveCovers ==
  ASSUME NEW s \in Settings, prior_failure_holds(s)
  PROVE  s.prior \in Nat /\ carried(s) \in Nat /\ carried(s) <= Quantum * s.prior
  <1>0. PICK reserve \in Nat : reserve = s.prior
    BY SettingsAssumption DEF SettingsAssumption
  <1>1. CASE s.receipt = <<>>
    <2>1. carried(s) = 0 /\ Quantum * reserve \in Nat
      BY <1>1, Products, PricesAreCounts DEF carried
    <2> QED BY <1>0, <2>1
  <1>2. CASE s.receipt # <<>> /\ s.receipt[1].linked = <<>>
    <2>1. s.receipt[1].reserve = reserve /\ carried(s) = Quantum * s.receipt[1].reserve
      BY <1>0, <1>2 DEF prior_failure_holds, carried
    <2>2. Quantum * reserve \in Nat
      BY Products, PricesAreCounts
    <2> QED BY <1>0, <2>1, <2>2
  <1>3. CASE s.receipt # <<>> /\ s.receipt[1].linked # <<>>
    <2>1. PICK basis, usage : basis = s.receipt[1].linked[1] /\ usage = basis.answer.usage
      OBVIOUS
    <2>2. /\ {basis.prior, basis.actual} \subseteq Nat /\ UsageIsCounted(usage)
          /\ basis.answer.billed = numerator(usage)
      BY <1>3, <2>1, SettingsAssumption DEF SettingsAssumption, UsageIsCounted
    <2>3. basis.prior + basis.actual = s.receipt[1].reserve /\ usage_cost(usage) = basis.actual
          /\ s.receipt[1].reserve = s.prior
      BY <1>3, <2>1 DEF prior_failure_holds, v3_basis_holds
    <2>4. PICK m, n, b \in Nat : m = basis.prior /\ n = basis.actual /\ b = numerator(usage)
      BY <2>2, NumeratorIsCount
    <2>5. b <= Quantum * n
      BY <2>2, <2>3, <2>4, UsageCovers
    <2>6. Quantum * m \in Nat /\ Quantum * n \in Nat /\ Quantum * (m + n) = Quantum * m + Quantum * n
      BY Products, PricesAreCounts
    <2>7. carried(s) = Quantum * m + b
      BY <1>3, <2>1, <2>2, <2>4 DEF carried
    <2>8. reserve = m + n
      BY <1>0, <2>3, <2>4
    <2> QED BY <1>0, <2>5, <2>6, <2>7, <2>8
  <1> QED BY <1>1, <1>2, <1>3

(* What was billed, and what may yet be, is authorized in all. *)
LEMMA BillsLeaveRoom ==
  ASSUME \A x \in Items : /\ billed[x] \in Nat /\ billed[x] <= Quantum * authorization(x)
                          /\ x \in unbought => billed[x] = 0
  PROVE  /\ sum_of(LAMBDA x : billed[x], Items) \in Nat
         /\ sum_of(authorization, unbought) \in Nat /\ sum_of(authorization, Items) \in Nat
         /\ sum_of(LAMBDA x : billed[x], Items) + Quantum * sum_of(authorization, unbought)
              <= Quantum * sum_of(authorization, Items)
  <1>1. PICK S, U : S = Items /\ U = unbought /\ U \in SUBSET S /\ IsFiniteSet(S) /\ IsFiniteSet(U)
    <2>1. unbought \in SUBSET Items
      BY DEF unbought
    <2> QED BY <2>1, ItemsAreFinite, FS_Subset
  <1>2. PICK f, g, h, u, all, k :
          /\ f = [x \in S |-> billed[x]] /\ g = [x \in S |-> authorization(x)]
          /\ h = [x \in U |-> authorization(x)]
          /\ u = [x \in S |-> IF x \in U THEN authorization(x) ELSE 0]
          /\ k = [x \in S |-> billed[x] + Quantum * (IF x \in U THEN authorization(x) ELSE 0)]
          /\ all = [x \in S |-> Quantum * authorization(x)]
    OBVIOUS
  <1>3. PICK q \in Nat \ {0} : q = Quantum
    BY PricesAreCounts
  <1>4. ASSUME NEW x \in S
        PROVE  /\ f[x] \in Nat /\ g[x] \in Nat /\ u[x] \in Nat /\ k[x] \in Nat /\ all[x] \in Nat
               /\ u[x] = IF x \in U THEN g[x] ELSE 0
               /\ k[x] = 1 * f[x] + q * u[x] + 0 * u[x]
               /\ all[x] = q * g[x] + 0 * g[x] + 0 * g[x]
               /\ k[x] <= all[x]
    <2>1. PICK a, b \in Nat : a = authorization(x) /\ b = billed[x] /\ b <= q * a /\ (x \in U => b = 0)
      BY <1>1, <1>3, <1>4, BoundsAreCounts
    <2>2. q * a \in Nat /\ q * 0 = 0
      BY Products
    <2>3. f[x] = b /\ g[x] = a /\ all[x] = q * a
      BY <1>2, <1>3, <2>1
    <2>4. CASE x \in U
      <3>1. u[x] = a /\ k[x] = b + q * a /\ b = 0
        BY <1>2, <1>3, <2>1, <2>4
      <3> QED BY <2>2, <2>3, <2>4, <3>1
    <2>5. CASE x \notin U
      <3>1. u[x] = 0 /\ k[x] = b + q * 0
        BY <1>2, <1>3, <2>1, <2>5
      <3> QED BY <2>1, <2>2, <2>3, <2>5, <3>1
    <2> QED BY <2>4, <2>5
  <1>5. PICK F, G, H, X, K, A : /\ F = SumFunctionOnSet(f, S) /\ G = SumFunctionOnSet(g, S)
                                /\ H = SumFunctionOnSet(h, U) /\ X = SumFunctionOnSet(u, S)
                                /\ K = SumFunctionOnSet(k, S) /\ A = SumFunctionOnSet(all, S)
    OBVIOUS
  <1>6. F \in Nat /\ G \in Nat /\ X \in Nat
    BY <1>1, <1>4, <1>5, SumIsNat
  <1>7. X = H
    <2>1. X = SumFunctionOnSet(g, U)
      <3>1. \A x \in S : g[x] \in Int /\ u[x] = IF x \in U THEN g[x] ELSE 0
        BY <1>4
      <3>2. SumFunctionOnSet(u, S) = SumFunctionOnSet(g, U)
        BY <1>1, <3>1, SumOfPart
      <3> QED BY <1>5, <3>2
    <2>2. \A x \in U : g[x] \in Int /\ h[x] = g[x]
      BY <1>1, <1>2, <1>4
    <2> QED BY <1>1, <1>5, <2>1, <2>2, SumAgrees
  <1>8. K = 1 * F + q * X + 0 * X
    <2>1. \A x \in S : f[x] \in Int /\ u[x] \in Int /\ k[x] = 1 * f[x] + q * u[x] + 0 * u[x]
      BY <1>4
    <2>2. 1 \in Int /\ q \in Int /\ 0 \in Int
      OBVIOUS
    <2> QED BY <1>1, <1>5, <2>1, <2>2, SumLinear
  <1>9. A = q * G + 0 * G + 0 * G
    <2>1. \A x \in S : g[x] \in Int /\ all[x] = q * g[x] + 0 * g[x] + 0 * g[x]
      BY <1>4
    <2>2. q \in Int /\ 0 \in Int
      OBVIOUS
    <2> QED BY <1>1, <1>5, <2>1, <2>2, SumLinear
  <1>10. K <= A
    <2>1. \A x \in S : k[x] \in Int /\ all[x] \in Int /\ k[x] <= all[x]
      BY <1>4
    <2> QED BY <1>1, <1>5, <2>1, SumMonotone
  <1>11. F + q * X <= q * G
    <2>1. q * X \in Nat /\ q * G \in Nat
      BY <1>6, Products
    <2> QED BY <1>6, <1>8, <1>9, <1>10, <2>1
  <1>12. /\ sum_of(LAMBDA x : billed[x], Items) = F
         /\ sum_of(authorization, unbought) = H /\ sum_of(authorization, Items) = G
    BY <1>1, <1>2, <1>5 DEF sum_of
  <1> QED BY <1>3, <1>6, <1>7, <1>11, <1>12

(* Whoever makes a purchase was let in under these settings. *)
LEMMA PurchaseIsWithin ==
  ASSUME IInv, Good, Books, NEW i \in Procs, CallSmoke(i) \/ CallTurn(i), bought' # bought,
         NEW s \in Settings, s.name = proc[i].by
  PROVE  carried(s) + sum_of(LAMBDA x : billed[x], Items) + Quantum * sum_of(authorization, unbought)
           < Quantum * MatrixLimit
  <1>1. prior_failure_holds(s) /\ within_estimate_budget(s.prior)
    <2>1. proc[i].pc = "call"
      BY CallBuys
    <2> QED BY <2>1, SettingsAssumption DEF SettingsAssumption, Books, HoldsBooks, Budgeted
  <1>2. ASSUME NEW x \in Items
        PROVE  /\ billed[x] \in Nat /\ billed[x] <= Quantum * authorization(x)
               /\ x \in unbought => billed[x] = 0
    <2>1. bought[x] \in Nat /\ billed[x] \in Nat /\ (bought[x] = 0 => billed[x] = 0)
      BY <1>2 DEF IInv, Shape, Books, Booked
    <2>2. CASE bought[x] = 0
      <3>1. PICK bound \in Nat : bound = authorization(x)
        BY <1>2, BoundsAreCounts
      <3>2. Quantum * bound \in Nat
        BY Products, PricesAreCounts
      <3> QED BY <2>1, <2>2, <3>1, <3>2
    <2>3. CASE bought[x] > 0
      <3>1. proved_good(x)
        BY <1>2, <2>3, BoughtWasGood
      <3>2. x \notin unbought
        BY <2>3 DEF unbought
      <3> QED BY <1>2, <2>1, <3>1, <3>2, GoodOnesAreWithin
    <2> QED BY <2>1, <2>2, <2>3
  <1>3. PICK bills, rest, bounds \in Nat :
          /\ bills = sum_of(LAMBDA x : billed[x], Items) /\ rest = sum_of(authorization, unbought)
          /\ bounds = sum_of(authorization, Items) /\ bills + Quantum * rest <= Quantum * bounds
    BY <1>2, BillsLeaveRoom
  <1>4. PICK reserve, owed \in Nat : reserve = s.prior /\ owed = carried(s) /\ owed <= Quantum * reserve
    BY <1>1, ReserveCovers
  <1>5. reserve + bounds < MatrixLimit /\ MatrixLimit \in Nat
    BY <1>1, <1>3, <1>4, SizesAssumption DEF within_estimate_budget, SizesAssumption
  <1>6. PICK q \in Nat \ {0} : q = Quantum
    BY PricesAreCounts
  <1>7. /\ q * reserve \in Nat /\ q * bounds \in Nat /\ q * rest \in Nat /\ q * MatrixLimit \in Nat
        /\ q * (reserve + bounds) = q * reserve + q * bounds
        /\ q * (reserve + bounds) < q * MatrixLimit
    <2>1. PICK limit \in Nat : limit = MatrixLimit
      BY <1>5
    <2>2. PICK n \in Nat : n = reserve + bounds /\ n + 1 <= limit
      BY <1>5, <2>1
    <2>3. q * (n + 1) <= q * limit /\ q * (n + 1) = q * n + q /\ q * n \in Nat /\ q * limit \in Nat
      BY <2>2, Multiples, Products
    <2>4. q * n < q * limit
      BY <2>3
    <2>5. q * reserve \in Nat /\ q * bounds \in Nat /\ q * rest \in Nat
          /\ q * (reserve + bounds) = q * reserve + q * bounds
      BY Products
    <2>6. q * (reserve + bounds) = q * n
      BY <2>2
    <2>7. q * MatrixLimit = q * limit
      BY <2>1
    <2> QED BY <2>3, <2>4, <2>5, <2>6, <2>7
  <1>8. PICK w, x, y, z : w = q * reserve /\ x = q * bounds /\ y = q * rest /\ z = q * MatrixLimit
    OBVIOUS
  <1>9. w \in Nat /\ x \in Nat /\ y \in Nat /\ z \in Nat /\ w + x < z
    BY <1>7, <1>8
  <1>10. bills \in Nat /\ owed \in Nat /\ bills + y <= x /\ owed <= w
    BY <1>3, <1>4, <1>6, <1>8
  <1>11. owed + bills + y < z
    BY <1>9, <1>10
  <1> QED BY <1>3, <1>4, <1>6, <1>8, <1>11

(* When something is bought, what was billed so far, in this run and in    *)
(* the failed one it carries over, with all that is still authorized, is   *)
(* below the matrix limit, and what was bought before proved good.         *)
THEOREM MatrixPurchasesAreJustified == Spec => PurchasesAreJustified
  <1> DEFINE Within(i, s) ==
               proc[i] # proc'[i] /\ s.name = proc[i].by =>
                 carried(s) + sum_of(LAMBDA x : billed[x], Items)
                   + Quantum * sum_of(authorization, unbought) < Quantum * MatrixLimit
             Budget == bought' # bought => \A i \in Procs, s \in Settings : Within(i, s)
  <1>1. IInv /\ Good /\ Books /\ [Next]_vars => [Budget]_vars
    <2>1. ASSUME IInv, Good, Books, NEW i \in Procs, Step(i), bought' # bought,
                 NEW j \in Procs, NEW s \in Settings, proc[j] # proc'[j], s.name = proc[j].by
          PROVE  Within(j, s)
      <3>1. CallSmoke(i) \/ CallTurn(i)
        BY <2>1, OnlyCallsBuy
      <3>2. j = i
        BY <2>1, <3>1, CallBuys DEF OthersStay
      <3> QED BY <2>1, <3>1, <3>2, PurchaseIsWithin
    <2>2. ASSUME NEW i \in Procs, Invoke(i) \/ Dies(i) PROVE UNCHANGED bought
      <3>1. UNCHANGED paid_vars
        BY <2>2, Zenon DEF Invoke, Dies
      <3> QED BY <3>1 DEF paid_vars
    <2> QED BY <2>1, <2>2 DEF Next
  <1>2. Spec => []IInv /\ []Good /\ []Books /\ [][Next]_vars
    BY SpecHolds, GoodHolds, BooksHold, PTL DEF Spec
  <1>3. Spec => [][Budget]_vars
    BY <1>1, <1>2, PTL
  <1>4. Spec => PurchaseWithinBudget
    BY <1>3 DEF PurchaseWithinBudget
  <1> QED BY <1>4, MatrixBuysAfterGoodOnes DEF PurchasesAreJustified
=============================================================================
