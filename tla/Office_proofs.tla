----------------------------- MODULE Office_proofs ----------------------------
(***************************************************************************)
(* What TLAPS proves about the ticket desk, the limits on purchases, the   *)
(* data keys, the roles, the voting booth and the count of the ballots,    *)
(* each a specification of its own, for every value of the constants; and  *)
(* the lemmas on sums over finite sets that the counts of tickets and      *)
(* votes rest on.                                                          *)
(***************************************************************************)
EXTENDS Roles, Billing, Tickets, Limits, Booth, DataKeys, Count, FiniteSetTheorems, SequenceTheorems, TLAPS

-----------------------------------------------------------------------------
(* Sums over finite sets, as MapThenSumSet adds them up: element by element, *)
(* in the order in which CHOOSE picks them. A claim about all finite sets is *)
(* proved by looking at a smallest one for which it fails.                   *)

FirstOf(s) == CHOOSE x \in s : TRUE
Adds(it, f, S) == it = [s \in SUBSET S |-> IF s = {} THEN 0 ELSE f[FirstOf(s)] + it[s \ {FirstOf(s)}]]
SumOf(f, S) == (CHOOSE it : Adds(it, f, S))[S]

LEMMA FirstIsIn == ASSUME NEW s, s # {} PROVE FirstOf(s) \in s /\ s \ {FirstOf(s)} # s
  BY DEF FirstOf

LEMMA Smallest ==
  ASSUME NEW S, IsFiniteSet(S), NEW Bad, Bad \subseteq SUBSET S, Bad # {}
  PROVE  \E T \in Bad : /\ IsFiniteSet(T) /\ T \subseteq S
                        /\ \A U \in SUBSET T : U # T => U \notin Bad
<1>1. \A T \in SUBSET S : IsFiniteSet(T)
  BY FS_Subset
<1>2. Bad \subseteq FiniteSubsetsOf(S)
  BY <1>1 DEF FiniteSubsetsOf
<1>3. IsWellFoundedOn(StrictSubsetOrdering(S), FiniteSubsetsOf(S))
  BY FS_StrictSubsetOrderingWellFounded
<1>4. \E T \in Bad : \A U \in Bad : <<U, T>> \notin StrictSubsetOrdering(S)
  BY <1>2, <1>3, WFMin
<1>5. PICK T \in Bad : \A U \in Bad : <<U, T>> \notin StrictSubsetOrdering(S)
  BY <1>4
<1>6. ASSUME NEW U \in SUBSET T, U # T, U \in Bad PROVE FALSE
  <2>1. U \in SUBSET S /\ T \in SUBSET S
    BY <1>6
  <2>2. <<U, T>> \in StrictSubsetOrdering(S)
    BY <1>6, <2>1 DEF StrictSubsetOrdering
  <2> QED
    BY <1>5, <1>6, <2>2
<1> QED
  BY <1>1, <1>5, <1>6

(* Two ways to add agree where both do. *)
LEMMA AddsAgree ==
  ASSUME NEW f, NEW A, NEW B, NEW i, NEW j, Adds(i, f, A), Adds(j, f, B),
         NEW s, IsFiniteSet(s), s \subseteq A, s \subseteq B
  PROVE  i[s] = j[s]
<1> DEFINE Bad == {t \in SUBSET s : i[t] # j[t]}
<1>1. SUFFICES ASSUME Bad # {} PROVE FALSE
  OBVIOUS
<1>2. PICK T \in Bad : T \subseteq s /\ \A U \in SUBSET T : U # T => U \notin Bad
  <2> HIDE DEF Bad
  <2>1. Bad \subseteq SUBSET s
    BY DEF Bad
  <2> QED
    BY <1>1, <2>1, Smallest
<1>3. T \in SUBSET A /\ T \in SUBSET B
  BY <1>2
<1>4. /\ i[T] = IF T = {} THEN 0 ELSE f[FirstOf(T)] + i[T \ {FirstOf(T)}]
      /\ j[T] = IF T = {} THEN 0 ELSE f[FirstOf(T)] + j[T \ {FirstOf(T)}]
  BY <1>3 DEF Adds
<1>5. CASE T = {}
  BY <1>2, <1>4, <1>5
<1>6. CASE T # {}
  <2> DEFINE U == T \ {FirstOf(T)}
  <2>1. U \in SUBSET T /\ U # T
    BY <1>6, FirstIsIn
  <2>2. i[U] = j[U]
    BY <1>2, <2>1
  <2> QED
    BY <1>2, <1>4, <1>6, <2>2
<1> QED
  BY <1>5, <1>6

LEMMA SumIs ==
  ASSUME NEW f, NEW A, NEW i, Adds(i, f, A), NEW s, IsFiniteSet(s), s \subseteq A
  PROVE  SumOf(f, s) = i[s]
<1> DEFINE r == [t \in SUBSET s |-> i[t]]
<1>1. \A t \in SUBSET s : i[t] = IF t = {} THEN 0 ELSE f[FirstOf(t)] + i[t \ {FirstOf(t)}]
  BY DEF Adds
<1>2. \A t \in SUBSET s : t \ {FirstOf(t)} \in SUBSET s
  OBVIOUS
<1>3. r = [t \in SUBSET s |-> IF t = {} THEN 0 ELSE f[FirstOf(t)] + r[t \ {FirstOf(t)}]]
  BY <1>1, <1>2
<1> HIDE DEF r
<1>4. Adds(r, f, s)
  BY <1>3 DEF Adds
<1>5. Adds((CHOOSE it : Adds(it, f, s)), f, s)
  BY <1>4
<1> QED
  BY <1>5, AddsAgree DEF SumOf

LEMMA SomeAdds ==
  ASSUME NEW f, NEW S, IsFiniteSet(S)
  PROVE  \E it : Adds(it, f, S)
<1> DEFINE Bad == {t \in SUBSET S : ~\E it : Adds(it, f, t)}
<1>1. SUFFICES ASSUME Bad # {} PROVE FALSE
  BY DEF Bad
<1>2. PICK T \in Bad : IsFiniteSet(T) /\ T \subseteq S /\ \A U \in SUBSET T : U # T => U \notin Bad
  <2>1. Bad \subseteq SUBSET S
    BY DEF Bad
  <2> HIDE DEF Bad
  <2> QED
    BY <1>1, <2>1, Smallest
<1>3. \A U \in SUBSET T : U # T => \E it : Adds(it, f, U)
  BY <1>2
<1> DEFINE it == [s \in SUBSET T |-> IF s = {} THEN 0 ELSE f[FirstOf(s)] + SumOf(f, s \ {FirstOf(s)})]
<1>4. ASSUME NEW s \in SUBSET T, s # T PROVE it[s] = SumOf(f, s)
  <2>0. IsFiniteSet(s)
    BY <1>2, FS_Subset
  <2>1. PICK i : Adds(i, f, s)
    BY <1>3, <1>4
  <2>2. SumOf(f, s) = i[s]
    BY <2>0, <2>1, SumIs
  <2>3. i[s] = IF s = {} THEN 0 ELSE f[FirstOf(s)] + i[s \ {FirstOf(s)}]
    BY <2>1 DEF Adds
  <2>4. SumOf(f, s \ {FirstOf(s)}) = i[s \ {FirstOf(s)}]
    <3>1. IsFiniteSet(s \ {FirstOf(s)}) /\ s \ {FirstOf(s)} \subseteq s
      BY <2>0, FS_RemoveElement
    <3> QED
      BY <2>1, <3>1, SumIs
  <2> QED
    BY <2>2, <2>3, <2>4
<1>5. \A s \in SUBSET T : s # {} => it[s \ {FirstOf(s)}] = SumOf(f, s \ {FirstOf(s)})
  <2>1. ASSUME NEW s \in SUBSET T, s # {} PROVE it[s \ {FirstOf(s)}] = SumOf(f, s \ {FirstOf(s)})
    <3>1. s \ {FirstOf(s)} \in SUBSET T /\ s \ {FirstOf(s)} # T
      BY <2>1, FirstIsIn
    <3> QED
      BY <1>4, <3>1
  <2> QED
    BY <2>1
<1>6. it = [s \in SUBSET T |-> IF s = {} THEN 0 ELSE f[FirstOf(s)] + it[s \ {FirstOf(s)}]]
  BY <1>5
<1>7. Adds(it, f, T)
  <2> HIDE DEF it
  <2> QED
    BY <1>6 DEF Adds
<1> QED
  BY <1>2, <1>7

LEMMA SumUnfolds ==
  ASSUME NEW f, NEW S, IsFiniteSet(S)
  PROVE  /\ S = {} => SumOf(f, S) = 0
         /\ S # {} => SumOf(f, S) = f[FirstOf(S)] + SumOf(f, S \ {FirstOf(S)})
<1>1. PICK i : Adds(i, f, S)
  BY SomeAdds
<1>2. i[S] = IF S = {} THEN 0 ELSE f[FirstOf(S)] + i[S \ {FirstOf(S)}]
  BY <1>1 DEF Adds
<1>3. SumOf(f, S) = i[S]
  BY <1>1, SumIs
<1>4. SumOf(f, S \ {FirstOf(S)}) = i[S \ {FirstOf(S)}]
  BY <1>1, SumIs, FS_RemoveElement
<1> QED
  BY <1>2, <1>3, <1>4

LEMMA SumType ==
  ASSUME NEW S, IsFiniteSet(S), NEW f, \A x \in S : f[x] \in Nat
  PROVE  SumOf(f, S) \in Nat
<1> DEFINE Bad == {t \in SUBSET S : SumOf(f, t) \notin Nat}
<1>1. SUFFICES ASSUME Bad # {} PROVE FALSE
  OBVIOUS
<1>2. PICK T \in Bad : IsFiniteSet(T) /\ T \subseteq S /\ \A U \in SUBSET T : U # T => U \notin Bad
  <2>1. Bad \subseteq SUBSET S
    OBVIOUS
  <2> HIDE DEF Bad
  <2> QED
    BY <1>1, <2>1, Smallest
<1>3. CASE T = {}
  <2>1. SumOf(f, T) = 0
    BY <1>2, <1>3, SumUnfolds
  <2> QED
    BY <1>2, <2>1
<1>4. CASE T # {}
  <2> DEFINE U == T \ {FirstOf(T)}
  <2>1. U \in SUBSET T /\ U # T /\ FirstOf(T) \in S
    BY <1>2, <1>4, FirstIsIn
  <2>2. SumOf(f, U) \in Nat
    BY <1>2, <2>1
  <2>3. SumOf(f, T) = f[FirstOf(T)] + SumOf(f, U)
    BY <1>2, <1>4, SumUnfolds
  <2>4. f[FirstOf(T)] \in Nat
    BY <2>1
  <2>5. SumOf(f, T) \in Nat
    BY <2>2, <2>3, <2>4
  <2> QED
    BY <1>2, <2>5
<1> QED
  BY <1>3, <1>4

(* Whatever element is taken out. *)
LEMMA SumTakes ==
  ASSUME NEW S, IsFiniteSet(S), NEW f, \A x \in S : f[x] \in Nat, NEW y \in S
  PROVE  SumOf(f, S) = f[y] + SumOf(f, S \ {y})
<1> DEFINE Bad == {t \in SUBSET S : \E x \in t : SumOf(f, t) # f[x] + SumOf(f, t \ {x})}
<1>1. SUFFICES ASSUME Bad # {} PROVE FALSE
  OBVIOUS
<1>2. PICK T \in Bad : IsFiniteSet(T) /\ T \subseteq S /\ \A U \in SUBSET T : U # T => U \notin Bad
  <2>1. Bad \subseteq SUBSET S
    OBVIOUS
  <2> HIDE DEF Bad
  <2> QED
    BY <1>1, <2>1, Smallest
<1>3. PICK x \in T : SumOf(f, T) # f[x] + SumOf(f, T \ {x})
  BY <1>2
<1> DEFINE c == FirstOf(T)
           V == T \ {c}
           W == T \ {x}
<1>4. c \in T /\ SumOf(f, T) = f[c] + SumOf(f, V)
  BY <1>2, <1>3, FirstIsIn, SumUnfolds
<1>5. c # x
  BY <1>3, <1>4
<1>6. /\ V \in SUBSET T /\ V # T /\ x \in V
      /\ W \in SUBSET T /\ W # T /\ c \in W
      /\ V \ {x} = W \ {c}
  BY <1>3, <1>4, <1>5
<1>7. V \in SUBSET S /\ W \in SUBSET S
  BY <1>2
<1>8. SumOf(f, V) = f[x] + SumOf(f, V \ {x}) /\ SumOf(f, W) = f[c] + SumOf(f, W \ {c})
  <2>1. V \notin Bad /\ W \notin Bad
    BY <1>2, <1>6
  <2> QED
    BY <1>6, <1>7, <2>1
<1>9. f[c] \in Nat /\ f[x] \in Nat /\ SumOf(f, W \ {c}) \in Nat
  <2>1. IsFiniteSet(W \ {c}) /\ W \ {c} \subseteq S
    BY <1>2, <1>7, FS_RemoveElement
  <2>2. c \in S /\ x \in S
    BY <1>2, <1>3, <1>4
  <2> HIDE DEF c, W
  <2> QED
    BY <2>1, <2>2, SumType
<1>10. SumOf(f, T) = f[x] + SumOf(f, W)
  <2>1. SumOf(f, V \ {x}) = SumOf(f, W \ {c})
    BY <1>6
  <2> HIDE DEF c, V, W
  <2> QED
    BY <1>4, <1>8, <1>9, <2>1
<1> QED
  BY <1>3, <1>10

(* The values count, not how they are given. *)
LEMMA SumSame ==
  ASSUME NEW S, IsFiniteSet(S), NEW f, NEW g, \A x \in S : f[x] = g[x]
  PROVE  SumOf(f, S) = SumOf(g, S)
<1> DEFINE Bad == {t \in SUBSET S : SumOf(f, t) # SumOf(g, t)}
<1>1. SUFFICES ASSUME Bad # {} PROVE FALSE
  OBVIOUS
<1>2. PICK T \in Bad : IsFiniteSet(T) /\ T \subseteq S /\ \A U \in SUBSET T : U # T => U \notin Bad
  <2>1. Bad \subseteq SUBSET S
    OBVIOUS
  <2> HIDE DEF Bad
  <2> QED
    BY <1>1, <2>1, Smallest
<1>3. CASE T = {}
  BY <1>2, <1>3, SumUnfolds
<1>4. CASE T # {}
  <2> DEFINE U == T \ {FirstOf(T)}
  <2>1. U \in SUBSET T /\ U # T /\ FirstOf(T) \in S
    BY <1>2, <1>4, FirstIsIn
  <2>2. U \in SUBSET S /\ U \notin Bad
    BY <1>2, <2>1
  <2>3. SumOf(f, U) = SumOf(g, U)
    BY <2>2
  <2>4. /\ SumOf(f, T) = f[FirstOf(T)] + SumOf(f, U)
        /\ SumOf(g, T) = g[FirstOf(T)] + SumOf(g, U)
    BY <1>2, <1>4, SumUnfolds
  <2>5. SumOf(f, T) = SumOf(g, T)
    BY <2>1, <2>3, <2>4
  <2> QED
    BY <1>2, <2>5
<1> QED
  BY <1>3, <1>4

(* A part is no more than the whole. *)
LEMMA SumOfPart ==
  ASSUME NEW S, IsFiniteSet(S), NEW f, \A x \in S : f[x] \in Nat, NEW P \in SUBSET S
  PROVE  SumOf(f, P) <= SumOf(f, S)
<1> DEFINE Bad == {t \in SUBSET S : P \subseteq t /\ ~(SumOf(f, P) <= SumOf(f, t))}
<1>1. SUFFICES ASSUME Bad # {} PROVE FALSE
  OBVIOUS
<1>2. PICK T \in Bad : IsFiniteSet(T) /\ T \subseteq S /\ \A U \in SUBSET T : U # T => U \notin Bad
  <2>1. Bad \subseteq SUBSET S
    OBVIOUS
  <2> HIDE DEF Bad
  <2> QED
    BY <1>1, <2>1, Smallest
<1>3. IsFiniteSet(P) /\ SumOf(f, P) \in Nat
  BY FS_Subset, SumType
<1>4. T # P
  BY <1>2, <1>3
<1>5. PICK y \in T : y \notin P
  BY <1>2, <1>4
<1> DEFINE U == T \ {y}
<1>6. U \in SUBSET T /\ U # T /\ P \subseteq U /\ U \in SUBSET S
  BY <1>2, <1>5
<1>7. SumOf(f, P) <= SumOf(f, U)
  BY <1>2, <1>6
<1>8. SumOf(f, T) = f[y] + SumOf(f, U)
  BY <1>2, <1>5, SumTakes
<1>9. f[y] \in Nat /\ SumOf(f, U) \in Nat
  <2>1. IsFiniteSet(U)
    BY <1>6, FS_Subset
  <2> HIDE DEF U
  <2> QED
    BY <1>2, <1>5, <1>6, <2>1, SumType
<1>10. SumOf(f, P) <= SumOf(f, T)
  <2> HIDE DEF U
  <2> QED
    BY <1>3, <1>7, <1>8, <1>9
<1> QED
  BY <1>2, <1>10

(* From one function to another: a part with the same values is no more ... *)
LEMMA SumShrinks ==
  ASSUME NEW T, IsFiniteSet(T), NEW f, \A x \in T : f[x] \in Nat,
         NEW S \in SUBSET T, NEW g, \A x \in S : g[x] = f[x]
  PROVE  SumOf(g, S) <= SumOf(f, T) /\ SumOf(g, S) \in Nat /\ SumOf(f, T) \in Nat
<1>1. IsFiniteSet(S)
  BY FS_Subset
<1>2. SumOf(g, S) = SumOf(f, S)
  BY <1>1, SumSame
<1> QED
  BY <1>1, <1>2, SumOfPart, SumType

(* ... and one element more adds its value. *)
LEMMA SumGrows ==
  ASSUME NEW S, IsFiniteSet(S), NEW f, NEW g, NEW y, y \notin S, g[y] \in Nat,
         \A x \in S : g[x] = f[x] /\ f[x] \in Nat
  PROVE  SumOf(g, S \cup {y}) = g[y] + SumOf(f, S) /\ SumOf(f, S) \in Nat
<1>1. IsFiniteSet(S \cup {y}) /\ (S \cup {y}) \ {y} = S
  BY FS_AddElement
<1>2. \A x \in S \cup {y} : g[x] \in Nat
  OBVIOUS
<1>3. SumOf(g, S \cup {y}) = g[y] + SumOf(g, S)
  BY <1>1, <1>2, SumTakes
<1>4. SumOf(g, S) = SumOf(f, S)
  BY SumSame
<1> QED
  BY <1>3, <1>4, SumType

-----------------------------------------------------------------------------
(* Tickets: the sums.                                                        *)

Amount(q) == [p \in Purchases |-> q[p].quantity]
Reserving(q) == {p \in Purchases : q[p].status \in {"Success", "Pending"}}
Admitted(q) == {p \in Purchases : q[p].inside}
Voting(q) == {p \in Purchases : q[p].voted}
PurchaseRows == [Purchases -> PurchaseRow]

LEMMA HeadsAre ==
  ASSUME NEW q, NEW S \in SUBSET Purchases
  PROVE  IsFiniteSet(S) /\ MapThenSumSet(LAMBDA p : q[p].quantity, S) = SumOf(Amount(q), S)
<1> DEFINE g == Amount(q)
<1>0. IsFiniteSet(S) /\ \A p \in S : g[p] = q[p].quantity
  BY TicketsAssumption, FS_Subset DEF TicketsAssumption, Amount
<1>1. ASSUME NEW i
      PROVE  i = [s \in SUBSET S |-> IF s = {} THEN 0 ELSE q[CHOOSE x \in s : TRUE].quantity + i[s \ {CHOOSE x \in s : TRUE}]]
               <=> Adds(i, g, S)
  <2>1. \A s \in SUBSET S : s # {} => g[FirstOf(s)] = q[FirstOf(s)].quantity
    BY <1>0, FirstIsIn
  <2> HIDE DEF g
  <2> QED
    BY <2>1 DEF Adds, FirstOf
<1>2. (CHOOSE i : i = [s \in SUBSET S |-> IF s = {} THEN 0 ELSE q[CHOOSE x \in s : TRUE].quantity + i[s \ {CHOOSE x \in s : TRUE}]])
        = CHOOSE i : Adds(i, g, S)
  BY <1>1, Zenon
<1> QED
  BY <1>0, <1>2 DEF MapThenSumSet, MapThenFoldSet, SumOf

LEMMA SumsNow ==
  /\ Reserved = SumOf(Amount(bought), Reserving(bought))
  /\ Heads(Admitted(bought)) = SumOf(Amount(bought), Admitted(bought))
  /\ Heads(Voting(bought)) = SumOf(Amount(bought), Voting(bought))
<1>1. Reserving(bought) \in SUBSET Purchases /\ Admitted(bought) \in SUBSET Purchases /\ Voting(bought) \in SUBSET Purchases
  BY DEF Reserving, Admitted, Voting
<1> QED
  BY <1>1, HeadsAre DEF Reserved, Heads, Reserving, MapThenSumSet, MapThenFoldSet

LEMMA SumsThen ==
  /\ Reserved' = SumOf(Amount(bought'), Reserving(bought'))
  /\ Heads(Admitted(bought))' = SumOf(Amount(bought'), Admitted(bought'))
  /\ Heads(Voting(bought))' = SumOf(Amount(bought'), Voting(bought'))
<1>1. Reserving(bought') \in SUBSET Purchases /\ Admitted(bought') \in SUBSET Purchases /\ Voting(bought') \in SUBSET Purchases
  BY DEF Reserving, Admitted, Voting
<1>2. PICK q : q = bought'
  OBVIOUS
<1> QED
  BY <1>1, <1>2, HeadsAre DEF Reserved, Heads, Reserving, Admitted, Voting, MapThenSumSet, MapThenFoldSet

LEMMA AmountTyped ==
  ASSUME NEW q \in PurchaseRows, NEW S \in SUBSET Purchases
  PROVE  /\ IsFiniteSet(S) /\ \A p \in Purchases : Amount(q)[p] = q[p].quantity /\ Amount(q)[p] \in Nat
         /\ SumOf(Amount(q), S) \in Nat
<1>1. IsFiniteSet(S)
  BY TicketsAssumption, FS_Subset DEF TicketsAssumption
<1>2. \A p \in Purchases : Amount(q)[p] = q[p].quantity /\ Amount(q)[p] \in Nat
  BY TicketsAssumption DEF TicketsAssumption, Amount, PurchaseRows, PurchaseRow
<1> QED
  BY <1>1, <1>2, SumType

LEMMA AmountGrows ==
  ASSUME NEW q \in PurchaseRows, NEW w \in PurchaseRows, NEW S \in SUBSET Purchases, NEW p \in Purchases,
         p \notin S, \A x \in S : w[x].quantity = q[x].quantity
  PROVE  /\ SumOf(Amount(w), S \cup {p}) = w[p].quantity + SumOf(Amount(q), S)
         /\ SumOf(Amount(q), S) \in Nat
<1>1. IsFiniteSet(S) /\ Amount(w)[p] = w[p].quantity /\ Amount(w)[p] \in Nat
  BY AmountTyped
<1>2. \A x \in S : Amount(w)[x] = Amount(q)[x] /\ Amount(q)[x] \in Nat
  BY AmountTyped
<1>3. PICK f, g : f = Amount(q) /\ g = Amount(w)
  OBVIOUS
<1>4. (\A x \in S : g[x] = f[x] /\ f[x] \in Nat) /\ g[p] \in Nat
  BY <1>1, <1>2, <1>3
<1>5. SumOf(g, S \cup {p}) = g[p] + SumOf(f, S) /\ SumOf(f, S) \in Nat
  BY <1>1, <1>4, SumGrows
<1> QED
  BY <1>1, <1>3, <1>5

-----------------------------------------------------------------------------
(* Tickets: the inductive invariant. *)

Errand ==
    {AtEase} \cup [op : {"edit", "hide", "delete"}]
    \cup [op : {"buy"}, quantity : 1..MaxBought, asked : Nat, web : BOOLEAN]
    \cup [op : {"charge", "fail", "expire"}, purchase : Purchases]
    \cup [op : {"apply"}, purchase : Purchases, heard : {"none", "open", "paid", "failed", "nothing"}, expiry : BOOLEAN]

Asking == {"charge", "fail"}
About == {"charge", "fail", "apply", "expire"}

TicketsTyped == TicketsTypeOK /\ doing \in [Handlers -> Errand]

(* A purchase nobody made has an empty row and no charge, and no handler is  *)
(* about it; one handler asks the gateway for a purchase, once.              *)
OneAsks ==
    /\ \A p \in Purchases : bought[p].status = "none" => bought[p] = NoPurchase /\ charge[p] = "none"
    /\ \A h \in Handlers : doing[h].op \in About => bought[doing[h].purchase].status # "none"
    /\ \A h \in Handlers : doing[h].op = "charge" => charge[doing[h].purchase] = "none"
    /\ \A h, g \in Handlers : doing[h].op \in Asking /\ doing[g].op \in Asking /\ h # g
                                => doing[h].purchase # doing[g].purchase

(* What was heard of a payment is true, and an error means that nothing      *)
(* happened, if the gateway is honest. *)
HeardIsTrue == \A h \in Handlers :
    /\ doing[h].op = "apply" /\ doing[h].heard = "paid" => charge[doing[h].purchase] = "paid"
    /\ honest /\ doing[h].op = "fail" => charge[doing[h].purchase] = "none"

(* The sums, as sums. *)
Fits == ticket.quantity <= offered /\ SumOf(Amount(bought), Reserving(bought)) <= offered
Counted == freeVotes = SumOf(Amount(bought), Voting(bought))

PaidFor == \A p \in Purchases : bought[p].status = "Success" => charge[p] = "paid"
UsedCounts == honest => \A p \in Purchases : bought[p].inside \/ bought[p].voted => bought[p].status \in {"Success", "deleted"}

TicketsIInv == TicketsTyped /\ OneAsks /\ HeardIsTrue /\ Fits /\ Counted /\ PaidFor /\ UsedCounts

-----------------------------------------------------------------------------
(* Tickets: what the steps keep. *)

LEMMA ErrandsTyped ==
  ASSUME TicketsTyped, NEW h \in Handlers, NEW todo \in Errand, Does(h, todo)
  PROVE  /\ doing' \in [Handlers -> Errand]
         /\ doing'[h] = todo /\ \A g \in Handlers : g # h => doing'[g] = doing[g]
  BY DEF TicketsTyped, Does

(* The purchase of an errand about one. *)
LEMMA AboutPurchase ==
  ASSUME NEW e \in Errand, e.op \in About
  PROVE  e.purchase \in Purchases
  BY DEF Errand, About, AtEase

(* An errand that asks nothing of the gateway. *)
LEMMA ErrandMoves ==
  ASSUME TicketsTyped, OneAsks, HeardIsTrue,
         NEW h \in Handlers, NEW todo \in Errand, Does(h, todo), todo.op \notin Asking,
         todo.op \in About => bought[todo.purchase].status # "none",
         todo.op = "apply" /\ todo.heard = "paid" => charge[todo.purchase] = "paid",
         UNCHANGED <<honest, charge>>,
         \A p \in Purchases : /\ bought'[p].status = "none" <=> bought[p].status = "none"
                              /\ bought'[p].status = "none" => bought'[p] = NoPurchase
  PROVE  doing' \in [Handlers -> Errand] /\ OneAsks' /\ HeardIsTrue'
<1>1. /\ doing' \in [Handlers -> Errand]
      /\ doing'[h] = todo /\ \A g \in Handlers : g # h => doing'[g] = doing[g]
  BY ErrandsTyped
<1>2. \A g \in Handlers : doing'[g].op \in About => doing'[g].purchase \in Purchases
  BY <1>1, AboutPurchase
<1>3. \A p \in Purchases : bought'[p].status = "none" => bought'[p] = NoPurchase /\ charge'[p] = "none"
  BY DEF OneAsks
<1>4. \A g \in Handlers : doing'[g].op \in About => bought'[doing'[g].purchase].status # "none"
  BY <1>1, <1>2 DEF OneAsks
<1>5. \A g \in Handlers : doing'[g].op = "charge" => charge'[doing'[g].purchase] = "none"
  BY <1>1 DEF OneAsks, Asking
<1>6. \A g, k \in Handlers : doing'[g].op \in Asking /\ doing'[k].op \in Asking /\ g # k
                               => doing'[g].purchase # doing'[k].purchase
  BY <1>1 DEF OneAsks
<1>7. HeardIsTrue'
  BY <1>1 DEF HeardIsTrue, Asking
<1> QED
  BY <1>1, <1>3, <1>4, <1>5, <1>6, <1>7 DEF OneAsks

LEMMA Eased ==
  ASSUME NEW h \in Handlers, Eases(h)
  PROVE  Does(h, AtEase) /\ AtEase \in Errand /\ AtEase.op \notin About \cup Asking
  BY DEF Eases, Does, AtEase, Errand, About, Asking

(* The sums, when no quantity changes. *)
LEMMA SumsKept ==
  ASSUME bought \in PurchaseRows, bought' \in PurchaseRows, Counted,
         \A p \in Purchases : bought'[p].quantity = bought[p].quantity,
         Reserving(bought') \subseteq Reserving(bought),
         Voting(bought') = Voting(bought), freeVotes' = freeVotes
  PROVE  /\ Counted'
         /\ SumOf(Amount(bought'), Reserving(bought')) \in Nat /\ SumOf(Amount(bought), Reserving(bought)) \in Nat
         /\ SumOf(Amount(bought'), Reserving(bought')) <= SumOf(Amount(bought), Reserving(bought))
<1>1. PICK q \in PurchaseRows : q = bought'
  OBVIOUS
<1>2. Reserving(bought) \in SUBSET Purchases /\ Voting(bought) \in SUBSET Purchases /\ Reserving(q) \in SUBSET Reserving(bought)
  BY <1>1 DEF Reserving, Voting
<1>3. IsFiniteSet(Reserving(bought)) /\ IsFiniteSet(Voting(bought))
  BY <1>2, AmountTyped
<1>4. /\ \A p \in Reserving(bought) : Amount(bought)[p] \in Nat
      /\ \A p \in Voting(bought) : Amount(bought)[p] \in Nat
  BY <1>2, AmountTyped
<1>5. \A p \in Purchases : Amount(q)[p] = Amount(bought)[p]
  BY <1>1 DEF Amount
<1>6. SumOf(Amount(q), Voting(bought)) = SumOf(Amount(bought), Voting(bought))
  BY <1>2, <1>3, <1>5, SumSame
<1>7. /\ SumOf(Amount(q), Reserving(q)) <= SumOf(Amount(bought), Reserving(bought))
      /\ SumOf(Amount(q), Reserving(q)) \in Nat /\ SumOf(Amount(bought), Reserving(bought)) \in Nat
  BY <1>2, <1>3, <1>4, <1>5, SumShrinks
<1> QED
  BY <1>1, <1>6, <1>7 DEF Counted

(* A purchase fails or succeeds. *)
LEMMA StatusChanges ==
  ASSUME TicketsTyped, NEW p \in Purchases, NEW s \in {"Success", "Failed"}, Becomes(p, s),
         bought[p].status # "none", s = "Success" => bought[p].status = "Pending"
  PROVE  /\ bought' \in PurchaseRows
         /\ \A q \in Purchases : /\ bought'[q].quantity = bought[q].quantity
                                 /\ bought'[q].inside = bought[q].inside /\ bought'[q].voted = bought[q].voted
                                 /\ bought'[q].status = IF q = p THEN s ELSE bought[q].status
                                 /\ q # p => bought'[q] = bought[q]
         /\ Reserving(bought') \subseteq Reserving(bought) /\ Voting(bought') = Voting(bought)
<1>1. bought \in PurchaseRows /\ bought[p] \in PurchaseRow
  BY DEF TicketsTyped, TicketsTypeOK, PurchaseRows
<1>2. PICK r : r = [bought[p] EXCEPT !.status = s]
  OBVIOUS
<1>3. r \in PurchaseRow /\ r.status = s /\ r.quantity = bought[p].quantity /\ r.inside = bought[p].inside /\ r.voted = bought[p].voted
  BY <1>1, <1>2 DEF PurchaseRow
<1>4. bought' = [bought EXCEPT ![p] = r]
  BY <1>2 DEF Becomes
<1>5. bought'[p] = r /\ \A q \in Purchases : q # p => bought'[q] = bought[q]
  BY <1>1, <1>4 DEF PurchaseRows
<1>6. bought' \in PurchaseRows
  BY <1>1, <1>3, <1>4 DEF PurchaseRows
<1> QED
  BY <1>3, <1>5, <1>6 DEF Reserving, Voting

(* The rest follows when no purchase changes ... *)
LEMMA PurchasesStand ==
  ASSUME TicketsIInv, UNCHANGED <<honest, bought, freeVotes>>,
         charge' \in [Purchases -> {"none", "open", "paid", "failed"}],
         \A p \in Purchases : charge[p] = "paid" => charge'[p] = "paid",
         ticket' \in TicketRow, offered' \in Stock, offered <= offered', ticket'.quantity <= offered',
         doing' \in [Handlers -> Errand], OneAsks', HeardIsTrue'
  PROVE  TicketsIInv'
<1>1. TicketsTyped'
  BY DEF TicketsIInv, TicketsTyped, TicketsTypeOK
<1>2. Fits'
  <2>1. bought \in PurchaseRows /\ Reserving(bought) \in SUBSET Purchases
    BY DEF TicketsIInv, TicketsTyped, TicketsTypeOK, PurchaseRows, Reserving
  <2>2. SumOf(Amount(bought), Reserving(bought)) \in Nat
    BY <2>1, AmountTyped
  <2>3. offered \in Nat /\ offered' \in Nat /\ SumOf(Amount(bought), Reserving(bought)) <= offered
    BY TicketsAssumption DEF TicketsAssumption, TicketsIInv, Fits, TicketsTyped, TicketsTypeOK
  <2> QED
    BY <2>2, <2>3 DEF Fits
<1>3. Counted' /\ PaidFor' /\ UsedCounts'
  BY DEF TicketsIInv, Counted, PaidFor, UsedCounts
<1> QED
  BY <1>1, <1>2, <1>3 DEF TicketsIInv

(* ... and when none grows. *)
LEMMA PurchasesMove ==
  ASSUME TicketsIInv, UNCHANGED <<honest, charge, freeVotes, offered>>,
         ticket' \in TicketRow, ticket'.quantity = ticket.quantity,
         bought' \in PurchaseRows, \A p \in Purchases : bought'[p].quantity = bought[p].quantity,
         Reserving(bought') \subseteq Reserving(bought), Voting(bought') = Voting(bought),
         doing' \in [Handlers -> Errand], OneAsks', HeardIsTrue', PaidFor', UsedCounts'
  PROVE  TicketsIInv'
<1>1. TicketsTyped'
  BY DEF TicketsIInv, TicketsTyped, TicketsTypeOK, PurchaseRows
<1>2. bought \in PurchaseRows /\ Counted
  BY DEF TicketsIInv, TicketsTyped, TicketsTypeOK, PurchaseRows
<1>3. /\ Counted'
      /\ SumOf(Amount(bought'), Reserving(bought')) \in Nat /\ SumOf(Amount(bought), Reserving(bought)) \in Nat
      /\ SumOf(Amount(bought'), Reserving(bought')) <= SumOf(Amount(bought), Reserving(bought))
  BY <1>2, SumsKept
<1>4. Fits'
  <2>1. offered \in Nat /\ ticket.quantity <= offered /\ SumOf(Amount(bought), Reserving(bought)) <= offered
    BY TicketsAssumption DEF TicketsAssumption, TicketsIInv, Fits, TicketsTyped, TicketsTypeOK
  <2> QED
    BY <1>3, <2>1 DEF Fits
<1> QED
  BY <1>1, <1>3, <1>4 DEF TicketsIInv

-----------------------------------------------------------------------------
(* Tickets: the steps. *)

LEMMA ErrandsOnly ==
  ASSUME TicketsIInv, NEW h \in Handlers, NEW todo \in Errand, Does(h, todo), todo.op \notin Asking,
         todo.op \in About => bought[todo.purchase].status # "none",
         todo.op = "apply" /\ todo.heard = "paid" => charge[todo.purchase] = "paid",
         UNCHANGED <<honest, bought, charge, freeVotes>>,
         ticket' \in TicketRow, offered' \in Stock, offered <= offered', ticket'.quantity <= offered'
  PROVE  TicketsIInv'
<1>1. doing' \in [Handlers -> Errand] /\ OneAsks' /\ HeardIsTrue'
  <2>1. \A p \in Purchases : /\ bought'[p].status = "none" <=> bought[p].status = "none"
                             /\ bought'[p].status = "none" => bought'[p] = NoPurchase
    BY DEF TicketsIInv, OneAsks
  <2> QED
    BY <2>1, ErrandMoves DEF TicketsIInv
<1>2. /\ charge' \in [Purchases -> {"none", "open", "paid", "failed"}]
      /\ \A p \in Purchases : charge[p] = "paid" => charge'[p] = "paid"
  BY DEF TicketsIInv, TicketsTyped, TicketsTypeOK
<1> QED
  BY <1>1, <1>2, PurchasesStand

LEMMA TicketStands ==
  ASSUME TicketsIInv, UNCHANGED <<ticket, offered>>
  PROVE  ticket' \in TicketRow /\ offered' \in Stock /\ offered <= offered' /\ ticket'.quantity <= offered'
<1>1. offered \in Nat /\ offered \in Stock /\ ticket \in TicketRow /\ ticket.quantity <= offered
  BY TicketsAssumption DEF TicketsAssumption, TicketsIInv, TicketsTyped, TicketsTypeOK, Fits
<1> QED
  BY <1>1

LEMMA LoadingSteps ==
  ASSUME TicketsIInv, NEW h \in Handlers,
         \/ \E n \in 1..MaxBought, web \in BOOLEAN : BuyLoad(h, n, web)
         \/ EditLoad(h) \/ DeleteCheck(h) \/ GivesUp(h)
         \/ \E p \in Purchases : Hear(h, p) \/ \E expiry \in BOOLEAN : Verify(h, p, expiry)
  PROVE  TicketsIInv'
<1>0. ASSUME UNCHANGED <<honest, ticket, offered, bought, charge, freeVotes>>,
             NEW todo \in Errand, Does(h, todo), todo.op \notin Asking,
             todo.op \in About => bought[todo.purchase].status # "none",
             todo.op = "apply" /\ todo.heard = "paid" => charge[todo.purchase] = "paid"
      PROVE  TicketsIInv'
  BY <1>0, TicketStands, ErrandsOnly
<1>1. ASSUME NEW n \in 1..MaxBought, NEW web \in BOOLEAN, BuyLoad(h, n, web) PROVE TicketsIInv'
  <2>0. ticket.price \in Prices /\ MaxBought \in Nat /\ Prices \subseteq Nat
    BY TicketsAssumption DEF TicketsAssumption, TicketsIInv, TicketsTyped, TicketsTypeOK, TicketRow
  <2>1. n \in Nat
    BY <2>0
  <2>2. ticket.price \in Nat
    BY <2>0
  <2>3. n * ticket.price \in Nat
    BY <2>1, <2>2
  <2> DEFINE todo == [op |-> "buy", quantity |-> n, asked |-> n * ticket.price, web |-> web]
  <2>4. todo \in Errand /\ todo.op = "buy"
    BY <2>3 DEF Errand
  <2>5. Does(h, todo)
    BY <1>1 DEF BuyLoad
  <2> HIDE DEF todo
  <2> QED
    BY <1>0, <1>1, <2>4, <2>5 DEF BuyLoad, Asking, About
<1>2. ASSUME EditLoad(h) PROVE TicketsIInv'
  <2>1. [op |-> "edit"] \in Errand /\ Does(h, [op |-> "edit"])
    BY <1>2 DEF Errand, EditLoad
  <2> QED
    BY <1>0, <1>2, <2>1 DEF EditLoad, Asking, About
<1>3. ASSUME DeleteCheck(h) PROVE TicketsIInv'
  <2>1. PICK todo \in {[op |-> "hide"], [op |-> "delete"]} : Does(h, todo)
    BY <1>3 DEF DeleteCheck
  <2>2. todo \in Errand /\ todo.op \in {"hide", "delete"}
    BY <2>1 DEF Errand
  <2> QED
    BY <1>0, <1>3, <2>1, <2>2 DEF DeleteCheck, Asking, About
<1>4. ASSUME GivesUp(h) PROVE TicketsIInv'
  <2>1. Does(h, AtEase) /\ AtEase \in Errand /\ AtEase.op \notin About \cup Asking
    BY <1>4, Eased DEF GivesUp
  <2> QED
    BY <1>0, <1>4, <2>1 DEF GivesUp, About
<1>5. ASSUME NEW p \in Purchases, Hear(h, p) PROVE TicketsIInv'
  <2> DEFINE todo == [op |-> "apply", purchase |-> p, heard |-> "paid", expiry |-> FALSE]
  <2>1. todo \in Errand /\ todo.op = "apply" /\ todo.purchase = p
    BY DEF Errand
  <2>2. Does(h, todo)
    BY <1>5 DEF Hear
  <2> HIDE DEF todo
  <2> QED
    BY <1>0, <1>5, <2>1, <2>2 DEF Hear, Asking
<1>6. ASSUME NEW p \in Purchases, NEW expiry \in BOOLEAN, Verify(h, p, expiry) PROVE TicketsIInv'
  <2>1. PICK heard \in {charge[p], "nothing"} : Does(h, [op |-> "apply", purchase |-> p, heard |-> heard, expiry |-> expiry])
    BY <1>6 DEF Verify
  <2> DEFINE todo == [op |-> "apply", purchase |-> p, heard |-> heard, expiry |-> expiry]
  <2>2. heard \in {"none", "open", "paid", "failed", "nothing"}
    BY DEF TicketsIInv, TicketsTyped, TicketsTypeOK
  <2>3. todo \in Errand /\ todo.op = "apply" /\ todo.purchase = p /\ (todo.heard = "paid" => charge[p] = "paid")
    BY <2>1, <2>2 DEF Errand
  <2>4. Does(h, todo)
    BY <2>1
  <2> HIDE DEF todo
  <2> QED
    BY <1>0, <1>6, <2>3, <2>4 DEF Verify, Asking
<1> QED
  BY <1>1, <1>2, <1>3, <1>4, <1>5, <1>6

LEMMA EditingSteps ==
  ASSUME TicketsIInv, NEW h \in Handlers,
         \/ Hide(h)
         \/ \E price \in Prices, quantity \in Stock, active \in BOOLEAN : EditSave(h, price, quantity, active)
  PROVE  TicketsIInv'
<1>0. offered \in Nat /\ offered \in Stock /\ ticket \in TicketRow /\ ticket.quantity <= offered
  BY TicketsAssumption DEF TicketsAssumption, TicketsIInv, TicketsTyped, TicketsTypeOK, Fits
<1>1. ASSUME Hide(h) PROVE TicketsIInv'
  <2>1. Does(h, AtEase) /\ AtEase \in Errand /\ AtEase.op \notin About \cup Asking
    BY <1>1, Eased DEF Hide
  <2>2. ticket' \in TicketRow /\ ticket'.quantity = ticket.quantity
    BY <1>0, <1>1 DEF Hide, TicketRow
  <2>3. offered' = offered /\ offered' \in Stock /\ offered <= offered' /\ ticket'.quantity <= offered'
    BY <1>0, <1>1, <2>2 DEF Hide
  <2> QED
    BY <1>1, <2>1, <2>2, <2>3, ErrandsOnly DEF Hide, About
<1>2. ASSUME NEW price \in Prices, NEW quantity \in Stock, NEW active \in BOOLEAN,
             EditSave(h, price, quantity, active)
      PROVE  TicketsIInv'
  <2>1. Does(h, AtEase) /\ AtEase \in Errand /\ AtEase.op \notin About \cup Asking
    BY <1>2, Eased DEF EditSave
  <2>2. ticket' \in TicketRow /\ ticket'.quantity = quantity
    BY <1>2 DEF EditSave, TicketRow
  <2>3. quantity \in Nat
    BY TicketsAssumption DEF TicketsAssumption
  <2>4. offered' \in Stock /\ offered <= offered' /\ quantity <= offered'
    BY <1>0, <1>2, <2>3 DEF EditSave
  <2> QED
    BY <1>2, <2>1, <2>2, <2>4, ErrandsOnly DEF EditSave, About
<1> QED
  BY <1>1, <1>2

(* The gateway is asked: by the one handler that asks for this purchase. *)
LEMMA ChargingSteps ==
  ASSUME TicketsIInv, NEW h \in Handlers, BuyCharge(h) \/ BuyError(h)
  PROVE  TicketsIInv'
<1> DEFINE p == doing[h].purchase
<1>0. /\ doing[h].op = "charge" /\ doing[h] \in Errand /\ p \in Purchases
      /\ doing[h] = [op |-> "charge", purchase |-> p]
  <2>1. doing[h].op = "charge" /\ doing[h] \in Errand
    BY DEF BuyCharge, BuyError, TicketsIInv, TicketsTyped
  <2> QED
    BY <2>1, AboutPurchase DEF About, Errand, AtEase
<1>1. charge[p] = "none" /\ bought[p].status # "none"
  BY <1>0 DEF TicketsIInv, OneAsks, About
<1>2. charge \in [Purchases -> {"none", "open", "paid", "failed"}]
  BY DEF TicketsIInv, TicketsTyped, TicketsTypeOK
<1>3. charge' = charge \/ charge' = [charge EXCEPT ![p] = "open"]
  BY DEF BuyCharge, BuyError
<1>4. /\ charge' \in [Purchases -> {"none", "open", "paid", "failed"}]
      /\ \A q \in Purchases : charge[q] = "paid" => charge'[q] = "paid"
      /\ \A q \in Purchases : q # p => charge'[q] = charge[q]
      /\ honest /\ BuyError(h) => charge' = charge
  BY <1>1, <1>2, <1>3 DEF BuyError
<1>5. PICK todo \in {AtEase, [op |-> "fail", purchase |-> p]} :
         Does(h, todo) /\ (todo = AtEase => BuyCharge(h)) /\ (todo # AtEase => BuyError(h))
  <2>1. CASE BuyCharge(h)
    BY <2>1, Eased DEF BuyCharge
  <2>2. CASE BuyError(h)
    <3>1. [doing[h] EXCEPT !.op = "fail"] = [op |-> "fail", purchase |-> p]
      BY <1>0
    <3>2. Does(h, [op |-> "fail", purchase |-> p])
      BY <2>2, <3>1 DEF BuyError
    <3>3. [op |-> "fail", purchase |-> p] # AtEase
      <4>1. [op |-> "fail", purchase |-> p].op # AtEase.op
        BY DEF AtEase
      <4> QED
        BY <4>1
    <3> QED
      BY <2>2, <3>2, <3>3
  <2> QED
    BY <2>1, <2>2
<1>6. /\ todo \in Errand /\ todo.op \in {"ease", "fail"} /\ (todo.op = "fail" => todo.purchase = p /\ todo # AtEase)
  BY <1>0 DEF Errand, AtEase
<1>7. /\ doing' \in [Handlers -> Errand]
      /\ doing'[h] = todo /\ \A g \in Handlers : g # h => doing'[g] = doing[g]
  <2>1. TicketsTyped /\ todo \in Errand
    BY <1>6 DEF TicketsIInv
  <2>2. Does(h, todo)
    BY <1>5
  <2> HIDE DEF p
  <2> QED
    BY <2>1, <2>2, ErrandsTyped
<1>8. UNCHANGED <<honest, ticket, offered, bought, freeVotes>>
  BY DEF BuyCharge, BuyError
<1> HIDE DEF p
<1>9. OneAsks'
  <2>1. \A q \in Purchases : bought'[q].status = "none" => bought'[q] = NoPurchase /\ charge'[q] = "none"
    BY <1>1, <1>4, <1>8 DEF TicketsIInv, OneAsks
  <2>2. \A g \in Handlers : doing'[g].op \in About => bought'[doing'[g].purchase].status # "none"
    BY <1>1, <1>6, <1>7, <1>8 DEF TicketsIInv, OneAsks, About
  <2>3. ASSUME NEW g \in Handlers, doing'[g].op = "charge" PROVE charge'[doing'[g].purchase] = "none"
    <3>1. g # h /\ doing'[g] = doing[g]
      BY <1>6, <1>7, <2>3
    <3>2. doing[g].purchase # p /\ doing[g].purchase \in Purchases
      <4>1. doing[g] \in Errand /\ doing[g].purchase \in Purchases
        BY <2>3, <3>1, AboutPurchase DEF TicketsIInv, TicketsTyped, About
      <4> QED
        BY <1>0, <2>3, <3>1, <4>1 DEF TicketsIInv, OneAsks, Asking, p
    <3> QED
      BY <1>4, <2>3, <3>1, <3>2 DEF TicketsIInv, OneAsks
  <2>4. ASSUME NEW g \in Handlers, NEW k \in Handlers, doing'[g].op \in Asking, doing'[k].op \in Asking, g # k
        PROVE  doing'[g].purchase # doing'[k].purchase
    <3>1. \A j \in Handlers : doing'[j].op \in Asking => doing[j].op \in Asking /\ doing'[j].purchase = doing[j].purchase
      BY <1>0, <1>6, <1>7 DEF Asking, p
    <3> QED
      BY <2>4, <3>1 DEF TicketsIInv, OneAsks
  <2> QED
    BY <2>1, <2>2, <2>3, <2>4 DEF OneAsks
<1>10. HeardIsTrue'
  <2>1. ASSUME NEW g \in Handlers, doing'[g].op = "apply", doing'[g].heard = "paid"
        PROVE  charge'[doing'[g].purchase] = "paid"
    <3>1. g # h /\ doing'[g] = doing[g]
      BY <1>6, <1>7, <2>1
    <3>2. doing[g].purchase \in Purchases
      BY <2>1, <3>1, AboutPurchase DEF TicketsIInv, TicketsTyped, About
    <3> QED
      BY <1>4, <2>1, <3>1, <3>2 DEF TicketsIInv, HeardIsTrue
  <2>2. ASSUME NEW g \in Handlers, honest', doing'[g].op = "fail" PROVE charge'[doing'[g].purchase] = "none"
    <3>1. CASE g = h
      <4>1. todo.op = "fail" /\ todo # AtEase /\ todo.purchase = p /\ doing'[g].purchase = p
        BY <1>6, <1>7, <2>2, <3>1
      <4>2. honest /\ BuyError(h)
        BY <1>5, <1>8, <2>2, <4>1, Zenon
      <4>3. charge' = charge
        BY <1>4, <4>2
      <4> QED
        BY <1>1, <4>1, <4>3
    <3>2. CASE g # h
      <4>1. doing'[g] = doing[g] /\ doing[g].purchase \in Purchases
        BY <1>7, <2>2, <3>2, AboutPurchase DEF TicketsIInv, TicketsTyped, About
      <4>2. doing[g].purchase # p
        BY <1>0, <2>2, <3>2, <4>1 DEF TicketsIInv, OneAsks, Asking, p
      <4> QED
        BY <1>4, <1>8, <2>2, <4>1, <4>2 DEF TicketsIInv, HeardIsTrue
    <3> QED
      BY <3>1, <3>2
  <2> QED
    BY <2>1, <2>2 DEF HeardIsTrue
<1> QED
  BY <1>4, <1>7, <1>8, <1>9, <1>10, TicketStands, PurchasesStand

LEMMA GatewaySettlesKeeps ==
  ASSUME TicketsIInv, NEW p \in Purchases, NEW result \in {"paid", "failed"}, GatewaySettles(p, result)
  PROVE  TicketsIInv'
<1>0. UNCHANGED <<honest, ticket, offered, bought, freeVotes, doing>>
  BY DEF GatewaySettles
<1>1. /\ charge' \in [Purchases -> {"none", "open", "paid", "failed"}]
      /\ charge[p] = "open"
      /\ \A q \in Purchases : q # p => charge'[q] = charge[q]
  BY DEF GatewaySettles, TicketsIInv, TicketsTyped, TicketsTypeOK
<1>2. \A q \in Purchases : charge[q] \in {"none", "paid"} => charge'[q] = charge[q]
  BY <1>1
<1>3. \A g \in Handlers : doing[g].op \in About => doing[g].purchase \in Purchases
  BY AboutPurchase DEF TicketsIInv, TicketsTyped
<1>4. OneAsks'
  <2>1. \A q \in Purchases : bought'[q].status = "none" => bought'[q] = NoPurchase /\ charge'[q] = "none"
    BY <1>0, <1>2 DEF TicketsIInv, OneAsks
  <2>2. \A g \in Handlers : doing'[g].op = "charge" => charge'[doing'[g].purchase] = "none"
    BY <1>0, <1>2, <1>3 DEF TicketsIInv, OneAsks, About
  <2> QED
    BY <1>0, <2>1, <2>2 DEF TicketsIInv, OneAsks
<1>5. HeardIsTrue'
  BY <1>0, <1>2, <1>3 DEF TicketsIInv, HeardIsTrue, About
<1> QED
  BY <1>0, <1>1, <1>2, <1>4, <1>5, TicketStands, PurchasesStand DEF TicketsIInv, TicketsTyped

(* A purchase is made: it fits, and this handler alone asks for it. *)
LEMMA BuyReserveKeeps ==
  ASSUME TicketsIInv, NEW h \in Handlers, NEW p \in Purchases, BuyReserve(h, p)
  PROVE  TicketsIInv'
<1> DEFINE e == doing[h]
<1>0. UNCHANGED <<honest, ticket, offered, charge, freeVotes>>
  BY DEF BuyReserve
<1>1. /\ e.quantity \in 1..MaxBought /\ e.asked \in Nat /\ e.web \in BOOLEAN
  <2>1. e \in Errand /\ e.op = "buy"
    BY DEF BuyReserve, TicketsIInv, TicketsTyped
  <2> QED
    BY <2>1 DEF Errand, AtEase
<1>2. PICK r : r = [NoPurchase EXCEPT !.status = "Pending", !.quantity = e.quantity, !.asked = e.asked, !.web = e.web]
  OBVIOUS
<1>3. /\ r = [status |-> "Pending", quantity |-> e.quantity, asked |-> e.asked, web |-> e.web, inside |-> FALSE, voted |-> FALSE]
  BY <1>2 DEF NoPurchase
<1>4. MaxBought \in Nat /\ e.quantity \in 0..MaxBought /\ e.quantity \in Nat
  <2>1. MaxBought \in Nat
    BY TicketsAssumption DEF TicketsAssumption
  <2> HIDE DEF e
  <2> QED
    BY <1>1, <2>1
<1>5. r \in PurchaseRow
  BY <1>1, <1>3, <1>4 DEF PurchaseRow
<1>6. bought' = [bought EXCEPT ![p] = r] /\ bought[p] = NoPurchase /\ bought \in PurchaseRows
  BY <1>2 DEF BuyReserve, TicketsIInv, TicketsTyped, TicketsTypeOK, PurchaseRows
<1>7. bought'[p] = r /\ (\A q \in Purchases : q # p => bought'[q] = bought[q]) /\ bought' \in PurchaseRows
  BY <1>5, <1>6 DEF PurchaseRows
<1>8. bought[p].status = "none" /\ ~bought[p].voted
  BY <1>6 DEF NoPurchase
<1>9. charge[p] = "none" /\ \A g \in Handlers : doing[g].op \in About => doing[g].purchase # p
  BY <1>8 DEF TicketsIInv, OneAsks
<1> DEFINE todo == [op |-> "charge", purchase |-> p]
<1>10. todo \in Errand /\ Does(h, todo)
  BY DEF Errand, BuyReserve
<1>11. /\ doing' \in [Handlers -> Errand]
       /\ doing'[h] = todo /\ \A g \in Handlers : g # h => doing'[g] = doing[g]
  <2>1. TicketsTyped
    BY DEF TicketsIInv
  <2> HIDE DEF todo
  <2> QED
    BY <1>10, <2>1, ErrandsTyped
<1> HIDE DEF e
<1>12. OneAsks'
  <2>1. \A q \in Purchases : bought'[q].status = "none" => bought'[q] = NoPurchase /\ charge'[q] = "none"
    BY <1>0, <1>3, <1>7 DEF TicketsIInv, OneAsks
  <2>2. ASSUME NEW g \in Handlers, doing'[g].op \in About PROVE bought'[doing'[g].purchase].status # "none"
    <3>1. CASE g = h
      BY <1>3, <1>7, <1>11, <3>1
    <3>2. CASE g # h
      <4>1. doing'[g] = doing[g] /\ doing[g].purchase \in Purchases
        BY <1>11, <2>2, <3>2, AboutPurchase DEF TicketsIInv, TicketsTyped
      <4> QED
        BY <1>7, <1>9, <2>2, <4>1 DEF TicketsIInv, OneAsks
    <3> QED
      BY <3>1, <3>2
  <2>3. \A g \in Handlers : doing'[g].op = "charge" => charge'[doing'[g].purchase] = "none"
    BY <1>0, <1>9, <1>11 DEF TicketsIInv, OneAsks
  <2>4. ASSUME NEW g \in Handlers, NEW k \in Handlers, doing'[g].op \in Asking, doing'[k].op \in Asking, g # k
        PROVE  doing'[g].purchase # doing'[k].purchase
    BY <1>9, <1>11, <2>4 DEF TicketsIInv, OneAsks, Asking, About
  <2> QED
    BY <2>1, <2>2, <2>3, <2>4 DEF OneAsks
<1>13. HeardIsTrue'
  BY <1>0, <1>11 DEF TicketsIInv, HeardIsTrue
<1>14. Fits' /\ Counted'
  <2>1. PICK q \in PurchaseRows : q = bought'
    BY <1>7
  <2>2. Reserving(q) = Reserving(bought) \cup {p} /\ p \notin Reserving(bought) /\ Reserving(bought) \in SUBSET Purchases
    BY <1>3, <1>7, <1>8, <2>1 DEF Reserving
  <2>3. Voting(q) = Voting(bought) /\ p \notin Voting(bought) /\ Voting(bought) \in SUBSET Purchases
    BY <1>3, <1>7, <1>8, <2>1 DEF Voting
  <2>4. IsFiniteSet(Reserving(bought)) /\ IsFiniteSet(Voting(bought))
    BY <1>6, <2>2, <2>3, AmountTyped
  <2>5. Amount(q)[p] = e.quantity /\ \A x \in Purchases : x # p => Amount(q)[x] = Amount(bought)[x] /\ Amount(bought)[x] \in Nat
    <3>1. q[p] = r /\ r.quantity = e.quantity
      BY <1>3, <1>7, <2>1
    <3>2. Amount(q)[p] = e.quantity
      BY <3>1 DEF Amount
    <3>3. ASSUME NEW x \in Purchases, x # p PROVE Amount(q)[x] = Amount(bought)[x] /\ Amount(bought)[x] \in Nat
      <4>1. q[x] = bought[x]
        BY <1>7, <2>1, <3>3
      <4>2. Amount(bought)[x] \in Nat
        BY <1>6, AmountTyped
      <4> QED
        BY <4>1, <4>2 DEF Amount
    <3> QED
      BY <3>2, <3>3
  <2>6. /\ SumOf(Amount(q), Reserving(q)) = e.quantity + SumOf(Amount(bought), Reserving(bought))
        /\ SumOf(Amount(bought), Reserving(bought)) \in Nat
    <3>1. \A x \in Reserving(bought) : q[x].quantity = bought[x].quantity
      BY <1>7, <2>1, <2>2
    <3>2. q[p].quantity = e.quantity
      BY <1>3, <1>7, <2>1
    <3>3. PICK old : old = bought
      OBVIOUS
    <3>4. /\ SumOf(Amount(q), Reserving(old) \cup {p}) = q[p].quantity + SumOf(Amount(old), Reserving(old))
          /\ SumOf(Amount(old), Reserving(old)) \in Nat
      <4>1. /\ old \in PurchaseRows /\ q \in PurchaseRows /\ Reserving(old) \in SUBSET Purchases /\ p \notin Reserving(old)
            /\ \A x \in Reserving(old) : q[x].quantity = old[x].quantity
        BY <1>6, <2>1, <2>2, <3>1, <3>3 DEF Reserving
      <4> QED
        BY <4>1, AmountGrows
    <3> QED
      BY <2>2, <3>2, <3>3, <3>4
  <2>7. SumOf(Amount(q), Voting(q)) = SumOf(Amount(bought), Voting(bought))
    BY <2>3, <2>4, <2>5, SumSame
  <2>8. Reserved + e.quantity <= ticket.quantity /\ Reserved = SumOf(Amount(bought), Reserving(bought))
    BY SumsNow DEF BuyReserve, e
  <2>9. ticket.quantity <= offered /\ ticket.quantity \in Nat /\ offered \in Nat
    BY TicketsAssumption DEF TicketsAssumption, TicketsIInv, Fits, TicketsTyped, TicketsTypeOK, TicketRow
  <2>10. SumOf(Amount(q), Reserving(q)) <= offered
    BY <1>4, <2>6, <2>8, <2>9
  <2> QED
    BY <1>0, <2>1, <2>7, <2>9, <2>10 DEF TicketsIInv, Fits, Counted
<1>15. PaidFor' /\ UsedCounts'
  <2>1. PaidFor'
    BY <1>0, <1>3, <1>7 DEF TicketsIInv, PaidFor
  <2>2. UsedCounts'
    BY <1>0, <1>3, <1>7 DEF TicketsIInv, UsedCounts
  <2> QED
    BY <2>1, <2>2
<1>16. TicketsTyped'
  BY <1>0, <1>7, <1>11 DEF TicketsIInv, TicketsTyped, TicketsTypeOK, PurchaseRows
<1> QED
  BY <1>12, <1>13, <1>14, <1>15, <1>16 DEF TicketsIInv

(* A handler that settles a purchase. *)
LEMMA Settling ==
  ASSUME TicketsIInv, NEW h \in Handlers, NEW todo \in Errand, Does(h, todo),
         todo \in {AtEase, [op |-> "expire", purchase |-> doing[h].purchase]}, doing[h].op \in About,
         NEW p \in Purchases, p = doing[h].purchase,
         \/ UNCHANGED bought
         \/ Becomes(p, "Failed") /\ bought[p].status # "deleted" /\ (bought[p].status = "Success" => ~honest)
         \/ Becomes(p, "Success") /\ bought[p].status = "Pending" /\ charge[p] = "paid",
         UNCHANGED <<honest, ticket, offered, charge, freeVotes>>
  PROVE  TicketsIInv'
<1>1. bought[p].status # "none"
  BY DEF TicketsIInv, OneAsks
<1>2. todo.op \notin Asking /\ (todo.op \in About => todo.purchase = p) /\ todo.op # "apply"
  BY DEF AtEase, About, Asking
<1>3. CASE UNCHANGED bought
  BY <1>1, <1>2, <1>3, TicketStands, ErrandsOnly
<1>4. ASSUME NEW s \in {"Success", "Failed"}, Becomes(p, s), s = "Success" => bought[p].status = "Pending" /\ charge[p] = "paid",
             s = "Failed" => bought[p].status # "deleted" /\ (bought[p].status = "Success" => ~honest)
      PROVE  TicketsIInv'
  <2>1. /\ bought' \in PurchaseRows
        /\ \A q \in Purchases : /\ bought'[q].quantity = bought[q].quantity
                                /\ bought'[q].inside = bought[q].inside /\ bought'[q].voted = bought[q].voted
                                /\ bought'[q].status = IF q = p THEN s ELSE bought[q].status
                                /\ q # p => bought'[q] = bought[q]
        /\ Reserving(bought') \subseteq Reserving(bought) /\ Voting(bought') = Voting(bought)
    <3>1. TicketsTyped
      BY DEF TicketsIInv
    <3> QED
      BY <1>1, <1>4, <3>1, StatusChanges
  <2>2. \A q \in Purchases : /\ bought'[q].status = "none" <=> bought[q].status = "none"
                             /\ bought'[q].status = "none" => bought'[q] = NoPurchase
    BY <1>1, <1>4, <2>1 DEF TicketsIInv, OneAsks
  <2>3. doing' \in [Handlers -> Errand] /\ OneAsks' /\ HeardIsTrue'
    <3>1. TicketsTyped /\ OneAsks /\ HeardIsTrue
      BY DEF TicketsIInv
    <3> QED
      BY <1>1, <1>2, <2>2, <3>1, ErrandMoves
  <2>4. PaidFor'
    BY <1>4, <2>1 DEF TicketsIInv, PaidFor
  <2>5. UsedCounts'
    <3>1. ASSUME NEW q \in Purchases, honest', bought'[q].inside \/ bought'[q].voted
          PROVE  bought'[q].status \in {"Success", "deleted"}
      <4>1. bought[q].status \in {"Success", "deleted"} /\ honest
        BY <2>1, <3>1 DEF TicketsIInv, UsedCounts
      <4>2. CASE q # p
        BY <2>1, <4>1, <4>2
      <4>3. CASE q = p /\ s = "Success"
        BY <2>1, <4>3
      <4>4. CASE q = p /\ s = "Failed"
        BY <1>4, <4>1, <4>4
      <4> QED
        BY <4>2, <4>3, <4>4
    <3> QED
      BY <3>1 DEF UsedCounts
  <2>6. ticket' \in TicketRow /\ ticket'.quantity = ticket.quantity
    BY TicketStands
  <2> QED
    BY <2>1, <2>3, <2>4, <2>5, <2>6, PurchasesMove
<1> QED
  BY <1>3, <1>4

LEMMA SettlingSteps ==
  ASSUME TicketsIInv, NEW h \in Handlers, BuyFail(h) \/ Apply(h) \/ Expire(h)
  PROVE  TicketsIInv'
<1> DEFINE p == doing[h].purchase
<1>1. doing[h] \in Errand /\ doing[h].op \in {"fail", "apply", "expire"} /\ doing[h].op \in About
  BY DEF BuyFail, Apply, Expire, TicketsIInv, TicketsTyped, About
<1>2. p \in Purchases
  BY <1>1, AboutPurchase
<1>3. UNCHANGED <<honest, ticket, offered, charge, freeVotes>>
  BY DEF BuyFail, Apply, Expire
<1>4. CASE BuyFail(h)
  <2>1. Does(h, AtEase) /\ AtEase \in Errand
    BY <1>4, Eased DEF BuyFail
  <2>2. bought[p].status = "Success" => ~honest
    BY <1>2, <1>4 DEF BuyFail, TicketsIInv, HeardIsTrue, PaidFor
  <2>3. UNCHANGED bought \/ (Becomes(p, "Failed") /\ bought[p].status # "deleted")
    BY <1>4 DEF BuyFail
  <2> QED
    BY <1>1, <1>2, <1>3, <2>1, <2>2, <2>3, Settling
<1>5. CASE Apply(h)
  <2>1. PICK todo \in {AtEase, [op |-> "expire", purchase |-> p]} : Does(h, todo) /\ todo \in Errand
    <3>1. [op |-> "expire", purchase |-> p] \in Errand
      BY <1>2 DEF Errand
    <3> QED
      BY <1>5, <3>1, Eased DEF Apply
  <2>2. \/ UNCHANGED bought
        \/ Becomes(p, "Failed") /\ bought[p].status = "Pending"
        \/ Becomes(p, "Success") /\ bought[p].status = "Pending" /\ doing[h].heard = "paid"
    BY <1>5 DEF Apply
  <2>3. doing[h].heard = "paid" => charge[p] = "paid"
    BY <1>5 DEF Apply, TicketsIInv, HeardIsTrue
  <2> QED
    BY <1>1, <1>2, <1>3, <2>1, <2>2, <2>3, Settling
<1>6. CASE Expire(h)
  <2>1. Does(h, AtEase) /\ AtEase \in Errand
    BY <1>6, Eased DEF Expire
  <2>2. UNCHANGED bought \/ (Becomes(p, "Failed") /\ bought[p].status = "Pending")
    BY <1>6 DEF Expire
  <2> QED
    BY <1>1, <1>2, <1>3, <2>1, <2>2, Settling
<1> QED
  BY <1>4, <1>5, <1>6

(* The ticket goes, and with it what was bought; nothing of it counts now. *)
LEMMA DeleteKeeps ==
  ASSUME TicketsIInv, NEW h \in Handlers, Delete(h)
  PROVE  TicketsIInv'
<1>0. UNCHANGED <<honest, offered, charge, freeVotes>>
  BY DEF Delete
<1>1. ticket' \in TicketRow /\ ticket'.quantity = ticket.quantity
  BY DEF Delete, TicketsIInv, TicketsTyped, TicketsTypeOK, TicketRow
<1>2. bought \in PurchaseRows
  BY DEF TicketsIInv, TicketsTyped, TicketsTypeOK, PurchaseRows
<1>3. ASSUME NEW q \in Purchases
      PROVE  /\ bought'[q] \in PurchaseRow
             /\ bought'[q].quantity = bought[q].quantity
             /\ bought'[q].inside = bought[q].inside /\ bought'[q].voted = bought[q].voted
             /\ bought[q].status = "none" => bought'[q] = NoPurchase /\ bought'[q].status = "none"
             /\ bought[q].status # "none" => bought'[q].status = "deleted"
  <2>0. bought[q] \in PurchaseRow /\ bought'[q] = IF bought[q].status = "none" THEN NoPurchase ELSE [bought[q] EXCEPT !.status = "deleted"]
    BY <1>2 DEF Delete, PurchaseRows
  <2>1. CASE bought[q].status = "none"
    <3>1. bought[q] = NoPurchase
      BY <2>1 DEF TicketsIInv, OneAsks
    <3> QED
      BY <2>0, <2>1, <3>1
  <2>2. CASE bought[q].status # "none"
    <3>1. PICK r : r = [bought[q] EXCEPT !.status = "deleted"]
      OBVIOUS
    <3>2. r \in PurchaseRow /\ r.status = "deleted" /\ r.quantity = bought[q].quantity /\ r.inside = bought[q].inside /\ r.voted = bought[q].voted
      BY <2>0, <3>1 DEF PurchaseRow
    <3> QED
      BY <2>0, <2>2, <3>1, <3>2
  <2> QED
    BY <2>1, <2>2
<1>4. bought' \in PurchaseRows
  <2>1. bought' = [q \in Purchases |-> bought'[q]]
    BY DEF Delete
  <2> QED
    BY <1>3, <2>1 DEF PurchaseRows
<1>5. Reserving(bought') \subseteq Reserving(bought) /\ Voting(bought') = Voting(bought)
  BY <1>3 DEF Reserving, Voting
<1>6. doing' \in [Handlers -> Errand] /\ OneAsks' /\ HeardIsTrue'
  <2>1. TicketsTyped /\ OneAsks /\ HeardIsTrue
    BY DEF TicketsIInv
  <2>2. Does(h, AtEase) /\ AtEase \in Errand /\ AtEase.op \notin About \cup Asking
    BY Eased DEF Delete
  <2>3. \A p \in Purchases : /\ bought'[p].status = "none" <=> bought[p].status = "none"
                             /\ bought'[p].status = "none" => bought'[p] = NoPurchase
    BY <1>3
  <2> QED
    BY <1>0, <2>1, <2>2, <2>3, ErrandMoves DEF About
<1>7. PaidFor' /\ UsedCounts'
  <2>1. PaidFor'
    BY <1>3 DEF PaidFor
  <2>2. UsedCounts'
    BY <1>0, <1>3 DEF TicketsIInv, UsedCounts
  <2> QED
    BY <2>1, <2>2
<1> QED
  BY <1>0, <1>1, <1>3, <1>4, <1>5, <1>6, <1>7, PurchasesMove

LEMMA ScanKeeps ==
  ASSUME TicketsIInv, NEW p \in Purchases, Scan(p)
  PROVE  TicketsIInv'
<1>0. UNCHANGED <<honest, ticket, offered, charge, freeVotes, doing>>
  BY DEF Scan
<1>1. bought \in PurchaseRows /\ bought[p] \in PurchaseRow /\ bought[p].status = "Success"
  BY DEF Scan, TicketsIInv, TicketsTyped, TicketsTypeOK, PurchaseRows
<1>2. PICK r : r = [bought[p] EXCEPT !.inside = TRUE]
  OBVIOUS
<1>3. r \in PurchaseRow /\ r.status = bought[p].status /\ r.quantity = bought[p].quantity /\ r.voted = bought[p].voted
  BY <1>1, <1>2 DEF PurchaseRow
<1>4. bought'[p] = r /\ (\A q \in Purchases : q # p => bought'[q] = bought[q]) /\ bought' \in PurchaseRows
  BY <1>1, <1>2, <1>3 DEF Scan, PurchaseRows
<1>5. \A q \in Purchases : bought'[q].status = bought[q].status /\ bought'[q].quantity = bought[q].quantity /\ bought'[q].voted = bought[q].voted
  BY <1>3, <1>4
<1>6. Reserving(bought') \subseteq Reserving(bought) /\ Voting(bought') = Voting(bought)
  BY <1>5 DEF Reserving, Voting
<1>7. OneAsks' /\ HeardIsTrue' /\ doing' \in [Handlers -> Errand]
  <2>1. \A h \in Handlers : doing[h].op \in About => doing[h].purchase \in Purchases
    BY AboutPurchase DEF TicketsIInv, TicketsTyped
  <2>2. OneAsks'
    <3>1. \A q \in Purchases : bought'[q].status = "none" => bought'[q] = NoPurchase /\ charge'[q] = "none"
      BY <1>0, <1>1, <1>3, <1>4 DEF TicketsIInv, OneAsks
    <3>2. \A h \in Handlers : doing'[h].op \in About => bought'[doing'[h].purchase].status # "none"
      BY <1>0, <1>5, <2>1 DEF TicketsIInv, OneAsks
    <3> QED
      BY <1>0, <3>1, <3>2 DEF TicketsIInv, OneAsks
  <2> QED
    BY <1>0, <2>2 DEF TicketsIInv, HeardIsTrue, TicketsTyped
<1>8. PaidFor' /\ UsedCounts'
  <2>1. PaidFor'
    BY <1>0, <1>5 DEF TicketsIInv, PaidFor
  <2>2. UsedCounts'
    BY <1>0, <1>1, <1>3, <1>4 DEF TicketsIInv, UsedCounts
  <2> QED
    BY <2>1, <2>2
<1>9. ticket' \in TicketRow /\ ticket'.quantity = ticket.quantity
  BY <1>0, TicketStands
<1> QED
  BY <1>0, <1>4, <1>5, <1>6, <1>7, <1>8, <1>9, PurchasesMove

(* The free vote counts once, with the tickets of its purchase. *)
LEMMA FreeVoteKeeps ==
  ASSUME TicketsIInv, NEW p \in Purchases, FreeVote(p)
  PROVE  TicketsIInv'
<1>0. UNCHANGED <<honest, ticket, offered, charge, doing>> /\ freeVotes' = freeVotes + bought[p].quantity
  BY DEF FreeVote
<1>1. bought \in PurchaseRows /\ bought[p] \in PurchaseRow /\ bought[p].status = "Success" /\ ~bought[p].voted
  BY DEF FreeVote, TicketsIInv, TicketsTyped, TicketsTypeOK, PurchaseRows
<1>2. PICK r : r = [bought[p] EXCEPT !.voted = TRUE]
  OBVIOUS
<1>3. r \in PurchaseRow /\ r.status = bought[p].status /\ r.quantity = bought[p].quantity /\ r.inside = bought[p].inside /\ r.voted
  BY <1>1, <1>2 DEF PurchaseRow
<1>4. bought'[p] = r /\ (\A q \in Purchases : q # p => bought'[q] = bought[q]) /\ bought' \in PurchaseRows
  BY <1>1, <1>2, <1>3 DEF FreeVote, PurchaseRows
<1>5. \A q \in Purchases : bought'[q].status = bought[q].status /\ bought'[q].quantity = bought[q].quantity
  BY <1>3, <1>4
<1>6. OneAsks' /\ HeardIsTrue'
  <2>1. \A h \in Handlers : doing[h].op \in About => doing[h].purchase \in Purchases
    BY AboutPurchase DEF TicketsIInv, TicketsTyped
  <2>2. OneAsks'
    <3>1. \A q \in Purchases : bought'[q].status = "none" => bought'[q] = NoPurchase /\ charge'[q] = "none"
      BY <1>0, <1>1, <1>3, <1>4 DEF TicketsIInv, OneAsks
    <3>2. \A h \in Handlers : doing'[h].op \in About => bought'[doing'[h].purchase].status # "none"
      BY <1>0, <1>5, <2>1 DEF TicketsIInv, OneAsks
    <3> QED
      BY <1>0, <3>1, <3>2 DEF TicketsIInv, OneAsks
  <2> QED
    BY <1>0, <2>2 DEF TicketsIInv, HeardIsTrue
<1>7. PaidFor' /\ UsedCounts'
  <2>1. PaidFor'
    BY <1>0, <1>5 DEF TicketsIInv, PaidFor
  <2>2. UsedCounts'
    BY <1>0, <1>1, <1>3, <1>4 DEF TicketsIInv, UsedCounts
  <2> QED
    BY <2>1, <2>2
<1>8. PICK q \in PurchaseRows : q = bought'
  BY <1>4
<1>9. PICK f, g, S, V : f = Amount(bought) /\ g = Amount(q) /\ S = Reserving(bought) /\ V = Voting(bought)
  OBVIOUS
<1>10. /\ S \in SUBSET Purchases /\ V \in SUBSET Purchases /\ p \notin V
       /\ Reserving(q) = S /\ Voting(q) = V \cup {p}
  BY <1>1, <1>3, <1>4, <1>5, <1>8, <1>9 DEF Reserving, Voting
<1>11. \A x \in Purchases : g[x] = f[x] /\ f[x] \in Nat /\ f[x] = bought[x].quantity
  BY <1>1, <1>5, <1>8, <1>9, AmountTyped DEF Amount
<1>12. IsFiniteSet(S) /\ IsFiniteSet(V)
  BY <1>1, <1>10, AmountTyped
<1>13. SumOf(g, S) = SumOf(f, S)
  BY <1>10, <1>11, <1>12, SumSame
<1>14. SumOf(g, V \cup {p}) = g[p] + SumOf(f, V) /\ SumOf(f, V) \in Nat
  <2>1. p \notin V /\ g[p] \in Nat /\ \A x \in V : g[x] = f[x] /\ f[x] \in Nat
    BY <1>10, <1>11
  <2> QED
    BY <1>12, <2>1, SumGrows
<1>15. g[p] = bought[p].quantity /\ g[p] \in Nat
  BY <1>11
<1>16. Fits'
  BY <1>0, <1>8, <1>9, <1>10, <1>13 DEF TicketsIInv, Fits
<1>17. freeVotes = SumOf(f, V)
  BY <1>9 DEF TicketsIInv, Counted
<1>18. Counted' /\ freeVotes' \in Nat
  BY <1>0, <1>8, <1>9, <1>10, <1>14, <1>15, <1>17 DEF Counted
<1>19. TicketsTyped'
  BY <1>0, <1>4, <1>18 DEF TicketsIInv, TicketsTyped, TicketsTypeOK, PurchaseRows
<1> QED
  BY <1>6, <1>7, <1>16, <1>18, <1>19 DEF TicketsIInv

LEMMA TicketsStart == TicketsInit => TicketsIInv
<1> SUFFICES ASSUME TicketsInit PROVE TicketsIInv
  OBVIOUS
<1>0. \A p \in Purchases : bought[p] = NoPurchase /\ charge[p] = "none"
  BY DEF TicketsInit
<1>1. NoPurchase \in PurchaseRow /\ AtEase \in Errand /\ AtEase.op \notin About \cup Asking
  <2>1. 0 \in 0..MaxBought
    BY TicketsAssumption DEF TicketsAssumption
  <2> QED
    BY <2>1 DEF NoPurchase, PurchaseRow, AtEase, Errand, About, Asking
<1>2. TicketsTyped
  BY <1>1 DEF TicketsInit, TicketsTyped, TicketsTypeOK, TicketRow
<1>3. OneAsks /\ HeardIsTrue
  <2>1. \A h \in Handlers : doing[h].op = "ease"
    BY DEF TicketsInit, AtEase
  <2> QED
    BY <1>0, <2>1 DEF OneAsks, HeardIsTrue, About, Asking
<1>4. Reserving(bought) = {} /\ Voting(bought) = {}
  BY <1>0 DEF Reserving, Voting, NoPurchase
<1>5. SumOf(Amount(bought), {}) = 0
  BY SumUnfolds, FS_EmptySet
<1>6. Fits /\ Counted
  <2>1. ticket.quantity = offered /\ offered \in Nat /\ freeVotes = 0
    BY TicketsAssumption DEF TicketsAssumption, TicketsInit
  <2> QED
    BY <1>4, <1>5, <2>1 DEF Fits, Counted
<1>7. PaidFor /\ UsedCounts
  BY <1>0 DEF PaidFor, UsedCounts, NoPurchase
<1> QED
  BY <1>2, <1>3, <1>6, <1>7 DEF TicketsIInv

LEMMA TicketsStep == TicketsIInv /\ [TicketsNext]_ticketVars => TicketsIInv'
<1> SUFFICES ASSUME TicketsIInv, [TicketsNext]_ticketVars PROVE TicketsIInv'
  OBVIOUS
<1>1. CASE UNCHANGED ticketVars
  <2>1. UNCHANGED <<honest, ticket, offered, bought, charge, freeVotes, doing>>
    BY <1>1 DEF ticketVars
  <2>2. TicketsTyped'
    BY <2>1 DEF TicketsIInv, TicketsTyped, TicketsTypeOK
  <2>3. OneAsks' /\ HeardIsTrue' /\ PaidFor' /\ UsedCounts'
    BY <2>1 DEF TicketsIInv, OneAsks, HeardIsTrue, PaidFor, UsedCounts
  <2>4. Fits' /\ Counted'
    BY <2>1 DEF TicketsIInv, Fits, Counted
  <2> QED
    BY <2>2, <2>3, <2>4 DEF TicketsIInv
<1>2. ASSUME NEW h \in Handlers,
             \/ \E n \in 1..MaxBought, web \in BOOLEAN : BuyLoad(h, n, web)
             \/ EditLoad(h) \/ DeleteCheck(h) \/ GivesUp(h)
             \/ \E p \in Purchases : Hear(h, p) \/ \E expiry \in BOOLEAN : Verify(h, p, expiry)
      PROVE  TicketsIInv'
  BY <1>2, LoadingSteps
<1>3. ASSUME NEW h \in Handlers,
             \/ Hide(h)
             \/ \E price \in Prices, quantity \in Stock, active \in BOOLEAN : EditSave(h, price, quantity, active)
      PROVE  TicketsIInv'
  BY <1>3, EditingSteps
<1>4. ASSUME NEW h \in Handlers, BuyCharge(h) \/ BuyError(h) PROVE TicketsIInv'
  BY <1>4, ChargingSteps
<1>5. ASSUME NEW h \in Handlers, BuyFail(h) \/ Apply(h) \/ Expire(h) PROVE TicketsIInv'
  BY <1>5, SettlingSteps
<1>6. ASSUME NEW h \in Handlers, \/ Delete(h)
                                 \/ \E p \in Purchases : BuyReserve(h, p)
      PROVE TicketsIInv'
  BY <1>6, DeleteKeeps, BuyReserveKeeps
<1>7. ASSUME NEW p \in Purchases,
             \/ Scan(p) \/ FreeVote(p)
             \/ \E result \in {"paid", "failed"} : GatewaySettles(p, result)
      PROVE  TicketsIInv'
  BY <1>7, ScanKeeps, FreeVoteKeeps, GatewaySettlesKeeps
<1> QED
  BY <1>1, <1>2, <1>3, <1>4, <1>5, <1>6, <1>7 DEF TicketsNext

LEMMA TicketsFollow == TicketsIInv => TicketsHold
<1> SUFFICES ASSUME TicketsIInv PROVE TicketsHold
  OBVIOUS
<1>1. bought \in PurchaseRows
  BY DEF TicketsIInv, TicketsTyped, TicketsTypeOK, PurchaseRows
<1>2. SoldIsPaid
  <2>1. Reserved <= offered
    BY SumsNow DEF TicketsIInv, Fits
  <2>2. \A p \in Sold : charge[p] = "paid"
    BY DEF TicketsIInv, PaidFor, Sold
  <2> QED
    BY <2>1, <2>2 DEF SoldIsPaid
<1>3. freeVotes = Heads({p \in Purchases : bought[p].voted})
  <2>1. freeVotes = Heads(Voting(bought))
    BY SumsNow DEF TicketsIInv, Counted
  <2> QED
    BY <2>1 DEF Voting
<1>4. ASSUME honest, ticket.there, \A p \in Purchases : bought[p].status # "deleted"
      PROVE  Heads({p \in Purchases : bought[p].inside}) <= offered
  <2>1. Admitted(bought) \in SUBSET Reserving(bought) /\ Reserving(bought) \in SUBSET Purchases
    BY <1>4 DEF TicketsIInv, UsedCounts, Admitted, Reserving
  <2>2. IsFiniteSet(Reserving(bought)) /\ \A p \in Reserving(bought) : Amount(bought)[p] \in Nat
    BY <1>1, <2>1, AmountTyped
  <2>3. /\ SumOf(Amount(bought), Admitted(bought)) <= SumOf(Amount(bought), Reserving(bought))
        /\ SumOf(Amount(bought), Admitted(bought)) \in Nat /\ SumOf(Amount(bought), Reserving(bought)) \in Nat
    BY <2>1, <2>2, SumShrinks
  <2>4. SumOf(Amount(bought), Reserving(bought)) <= offered /\ offered \in Nat
    BY TicketsAssumption DEF TicketsAssumption, TicketsIInv, Fits, TicketsTyped, TicketsTypeOK
  <2>5. Heads(Admitted(bought)) <= offered
    BY <2>3, <2>4, SumsNow
  <2> QED
    BY <2>5 DEF Admitted
<1>5. honest => \A p \in Purchases : bought[p].inside \/ bought[p].voted => bought[p].status \in {"Success", "deleted"}
  BY DEF TicketsIInv, UsedCounts
<1> QED
  BY <1>2, <1>3, <1>4, <1>5 DEF TicketsHold, UsedIsSold

THEOREM TicketsInvariant == TicketsSpec => []TicketsIInv
  BY TicketsStart, TicketsStep, PTL DEF TicketsSpec

(* PurchaseRows, charges and votes keep their types. *)
THEOREM TicketsTypeCorrect == TicketsSpec => []TicketsTypeOK
<1>1. TicketsIInv => TicketsTypeOK
  BY DEF TicketsIInv, TicketsTyped
<1> QED
  BY <1>1, TicketsInvariant, PTL

(* buy_ticket, apply_ticket_result, process_scan, cast_ticket_vote: never    *)
(* more tickets are sold or reserved than were offered, what is sold was     *)
(* paid, what admitted somebody or voted stays sold unless the gateway's     *)
(* errors deceive, and the free votes are those of the tickets that voted.   *)
THEOREM TicketsSound == TicketsSpec => []TicketsHold
  BY TicketsInvariant, TicketsFollow, PTL

-----------------------------------------------------------------------------
(* Limits: the sums and the inductive invariant.                             *)

Ledger == [Sales -> SaleRow \cup {Unsold}]
VotesOf(q) == [s \in Sales |-> q[s].votes]
LiveAt(q, i, v) == {s \in Sales : q[s] # Unsold /\ q[s].live /\ q[s].buyer[i] = v}
LiveOn(q, i, v, c) == {s \in LiveAt(q, i, v) : q[s].contestant = c}
LivePacks(q, i, v) == {s \in LiveAt(q, i, v) : q[s].package}

(* The caps of one address or number, and the room it has for one more. *)
Within(q, i, v) ==
    /\ SumOf(VotesOf(q), LiveAt(q, i, v)) <= MaxPerVoter
    /\ \A c \in Contestants : SumOf(VotesOf(q), LiveOn(q, i, v, c)) <= MaxOnContestant
    /\ Cardinality(LivePacks(q, i, v)) <= MaxPackages
Room(q, i, row) ==
    /\ SumOf(VotesOf(q), LiveAt(q, i, row.buyer[i])) + row.votes <= MaxPerVoter
    /\ SumOf(VotesOf(q), LiveOn(q, i, row.buyer[i], row.contestant)) + row.votes <= MaxOnContestant
    /\ row.package => Cardinality(LivePacks(q, i, row.buyer[i])) + 1 <= MaxPackages
RoomFor(q, row) == \A i \in 1..2 : row.buyer[i] # Blank => Room(q, i, row)

(* A sale that may still be credited; one by one there is one of them, or a  *)
(* checkout.                                                                 *)
Creditable(row) == row # Unsold /\ row.status \in {"PENDING", "SUCCESS", "DISPUTED"} /\ ~row.credited
OneAwaits == oneByOne =>
    /\ \A s, t \in Sales : Creditable(sale[s]) /\ Creditable(sale[t]) => s = t
    /\ checkout # NoCheckout => \A s \in Sales : ~Creditable(sale[s])

LiveIsCredited ==
    /\ \A s \in Made : sale[s].live => sale[s].credited /\ sale[s].status \in {"SUCCESS", "REFUNDED"}
    /\ checkout # NoCheckout => checkout.status = "PENDING" /\ ~checkout.live /\ ~checkout.credited

(* No refund has left its votes. *)
NoneLeft == \A s \in Made : sale[s].live => sale[s].status = "SUCCESS"
CapsHold == oneByOne /\ NoneLeft =>
    /\ \A b \in Buyers, i \in 1..2 : b[i] # Blank => Within(sale, i, b[i])
    /\ checkout # NoCheckout => RoomFor(sale, checkout)
    /\ \A s \in Sales : Creditable(sale[s]) => RoomFor(sale, sale[s])

CodeHolds ==
    /\ redeemedBy = Cardinality({s \in Made : sale[s].code /\ sale[s].credited})
    /\ oneByOne => /\ redeemedBy <= MaxUses
                   /\ checkout # NoCheckout /\ checkout.code => redeemedBy < MaxUses
                   /\ \A s \in Sales : Creditable(sale[s]) /\ sale[s].code => redeemedBy < MaxUses

LimitsIInv == LimitsTypeOK /\ OneAwaits /\ LiveIsCredited /\ CapsHold /\ CodeHolds

LEMMA VotesInAre ==
  ASSUME NEW q, NEW S \in SUBSET Sales
  PROVE  IsFiniteSet(S) /\ MapThenSumSet(LAMBDA s : q[s].votes, S) = SumOf(VotesOf(q), S)
<1> DEFINE g == VotesOf(q)
<1>0. IsFiniteSet(S) /\ \A s \in S : g[s] = q[s].votes
  BY LimitsAssumption, FS_Subset DEF LimitsAssumption, VotesOf
<1>1. ASSUME NEW i
      PROVE  i = [s \in SUBSET S |-> IF s = {} THEN 0 ELSE q[CHOOSE x \in s : TRUE].votes + i[s \ {CHOOSE x \in s : TRUE}]]
               <=> Adds(i, g, S)
  <2>1. \A s \in SUBSET S : s # {} => g[FirstOf(s)] = q[FirstOf(s)].votes
    BY <1>0, FirstIsIn
  <2> HIDE DEF g
  <2> QED
    BY <2>1 DEF Adds, FirstOf
<1>2. (CHOOSE i : i = [s \in SUBSET S |-> IF s = {} THEN 0 ELSE q[CHOOSE x \in s : TRUE].votes + i[s \ {CHOOSE x \in s : TRUE}]])
        = CHOOSE i : Adds(i, g, S)
  BY <1>1, Zenon
<1> QED
  BY <1>0, <1>2 DEF MapThenSumSet, MapThenFoldSet, SumOf

LEMMA VotesNow ==
  ASSUME NEW S \in SUBSET Sales
  PROVE  VotesIn(S) = SumOf(VotesOf(sale), S)
  BY VotesInAre DEF VotesIn, MapThenSumSet, MapThenFoldSet

(* What is not made is no sale, what is not quoted no checkout. *)
LEMMA SalesDiffer ==
  ASSUME NEW row \in SaleRow
  PROVE  row # Unsold /\ row # NoCheckout
<1>1. "buyer" \in DOMAIN row
  BY DEF SaleRow
<1>2. "buyer" \notin DOMAIN Unsold /\ "buyer" \notin DOMAIN NoCheckout
  BY DEF Unsold, NoCheckout
<1> QED
  BY <1>1, <1>2

LEMMA LiveTyped ==
  ASSUME NEW q \in Ledger, NEW i \in 1..2, NEW v
  PROVE  /\ LiveAt(q, i, v) \in SUBSET Sales /\ IsFiniteSet(LiveAt(q, i, v))
         /\ \A s \in LiveAt(q, i, v) : q[s] \in SaleRow /\ VotesOf(q)[s] = q[s].votes /\ VotesOf(q)[s] \in Nat
         /\ IsFiniteSet(LivePacks(q, i, v)) /\ Cardinality(LivePacks(q, i, v)) \in Nat
         /\ \A c : IsFiniteSet(LiveOn(q, i, v, c))
<1>1. LiveAt(q, i, v) \in SUBSET Sales
  BY DEF LiveAt
<1>2. IsFiniteSet(LiveAt(q, i, v))
  BY <1>1, LimitsAssumption, FS_Subset DEF LimitsAssumption
<1>3. ASSUME NEW s \in LiveAt(q, i, v)
      PROVE  q[s] \in SaleRow /\ VotesOf(q)[s] = q[s].votes /\ VotesOf(q)[s] \in Nat
  <2>1. s \in Sales /\ q[s] \in SaleRow
    BY DEF LiveAt, Ledger
  <2>2. q[s].votes \in Nat
    BY <2>1 DEF SaleRow
  <2> QED
    BY <2>1, <2>2 DEF VotesOf
<1>4. LivePacks(q, i, v) \in SUBSET LiveAt(q, i, v) /\ \A c : LiveOn(q, i, v, c) \in SUBSET LiveAt(q, i, v)
  BY DEF LivePacks, LiveOn
<1>5. IsFiniteSet(LivePacks(q, i, v)) /\ \A c : IsFiniteSet(LiveOn(q, i, v, c))
  BY <1>2, <1>4, FS_Subset
<1>6. Cardinality(LivePacks(q, i, v)) \in Nat
  BY <1>5, FS_CardinalityType
<1> QED
  BY <1>1, <1>2, <1>3, <1>5, <1>6

(* With fewer live sales there are fewer votes of a person, and more room.   *)
LEMMA LessIsLive ==
  ASSUME NEW q \in Ledger, NEW r \in Ledger, NEW i \in 1..2, NEW v,
         \A s \in Sales : r[s] # Unsold /\ r[s].live =>
            /\ q[s] # Unsold /\ q[s].live /\ q[s].buyer = r[s].buyer /\ q[s].contestant = r[s].contestant
            /\ q[s].votes = r[s].votes /\ q[s].package = r[s].package
  PROVE  /\ SumOf(VotesOf(r), LiveAt(r, i, v)) <= SumOf(VotesOf(q), LiveAt(q, i, v))
         /\ SumOf(VotesOf(r), LiveAt(r, i, v)) \in Nat /\ SumOf(VotesOf(q), LiveAt(q, i, v)) \in Nat
         /\ \A c : /\ SumOf(VotesOf(r), LiveOn(r, i, v, c)) <= SumOf(VotesOf(q), LiveOn(q, i, v, c))
                   /\ SumOf(VotesOf(r), LiveOn(r, i, v, c)) \in Nat /\ SumOf(VotesOf(q), LiveOn(q, i, v, c)) \in Nat
         /\ Cardinality(LivePacks(r, i, v)) <= Cardinality(LivePacks(q, i, v))
         /\ Cardinality(LivePacks(r, i, v)) \in Nat /\ Cardinality(LivePacks(q, i, v)) \in Nat
<1>1. LiveAt(r, i, v) \in SUBSET LiveAt(q, i, v) /\ \A s \in LiveAt(r, i, v) : r[s].votes = q[s].votes
  BY DEF LiveAt
<1>2. /\ IsFiniteSet(LiveAt(q, i, v)) /\ (\A s \in LiveAt(q, i, v) : VotesOf(q)[s] \in Nat)
      /\ (\A s \in LiveAt(r, i, v) : VotesOf(r)[s] = VotesOf(q)[s])
  BY <1>1, LiveTyped
<1>3. /\ SumOf(VotesOf(r), LiveAt(r, i, v)) <= SumOf(VotesOf(q), LiveAt(q, i, v))
      /\ SumOf(VotesOf(r), LiveAt(r, i, v)) \in Nat /\ SumOf(VotesOf(q), LiveAt(q, i, v)) \in Nat
  BY <1>1, <1>2, SumShrinks
<1>4. ASSUME NEW c
      PROVE  /\ SumOf(VotesOf(r), LiveOn(r, i, v, c)) <= SumOf(VotesOf(q), LiveOn(q, i, v, c))
             /\ SumOf(VotesOf(r), LiveOn(r, i, v, c)) \in Nat /\ SumOf(VotesOf(q), LiveOn(q, i, v, c)) \in Nat
  <2>1. IsFiniteSet(LiveOn(q, i, v, c)) /\ LiveOn(r, i, v, c) \in SUBSET LiveOn(q, i, v, c)
    <3>1. IsFiniteSet(LiveOn(q, i, v, c))
      BY LiveTyped
    <3>2. LiveOn(r, i, v, c) \in SUBSET LiveOn(q, i, v, c)
      BY <1>1 DEF LiveOn, LiveAt
    <3> QED
      BY <3>1, <3>2
  <2>2. /\ (\A s \in LiveOn(q, i, v, c) : VotesOf(q)[s] \in Nat)
        /\ (\A s \in LiveOn(r, i, v, c) : VotesOf(r)[s] = VotesOf(q)[s])
    BY <1>2 DEF LiveOn
  <2> QED
    BY <2>1, <2>2, SumShrinks
<1>5. LivePacks(r, i, v) \subseteq LivePacks(q, i, v)
  BY <1>1 DEF LivePacks, LiveAt
<1>6. /\ Cardinality(LivePacks(r, i, v)) <= Cardinality(LivePacks(q, i, v))
      /\ Cardinality(LivePacks(r, i, v)) \in Nat /\ Cardinality(LivePacks(q, i, v)) \in Nat
  BY <1>5, LiveTyped, FS_Subset
<1> QED
  BY <1>3, <1>4, <1>6

LEMMA LimitsAreNumbers ==
  MaxPerVoter \in Nat /\ MaxOnContestant \in Nat /\ MaxPackages \in Nat /\ MaxUses \in Nat
  BY LimitsAssumption DEF LimitsAssumption

LEMMA LiveShrinks ==
  ASSUME NEW q \in Ledger, NEW r \in Ledger,
         \A s \in Sales : r[s] # Unsold /\ r[s].live =>
            /\ q[s] # Unsold /\ q[s].live /\ q[s].buyer = r[s].buyer /\ q[s].contestant = r[s].contestant
            /\ q[s].votes = r[s].votes /\ q[s].package = r[s].package
  PROVE  /\ \A i \in 1..2 : \A v : Within(q, i, v) => Within(r, i, v)
         /\ \A row \in SaleRow : RoomFor(q, row) => RoomFor(r, row)
<1>1. ASSUME NEW i \in 1..2, NEW v, Within(q, i, v) PROVE Within(r, i, v)
  <2>1. SumOf(VotesOf(r), LiveAt(r, i, v)) <= MaxPerVoter
    BY <1>1, LessIsLive, LimitsAreNumbers DEF Within
  <2>2. ASSUME NEW c \in Contestants PROVE SumOf(VotesOf(r), LiveOn(r, i, v, c)) <= MaxOnContestant
    BY <1>1, LessIsLive, LimitsAreNumbers DEF Within
  <2>3. Cardinality(LivePacks(r, i, v)) <= MaxPackages
    BY <1>1, LessIsLive, LimitsAreNumbers DEF Within
  <2> QED
    BY <2>1, <2>2, <2>3 DEF Within
<1>2. ASSUME NEW row \in SaleRow, NEW i \in 1..2, Room(q, i, row) PROVE Room(r, i, row)
  <2>0. PICK v, c, n : v = row.buyer[i] /\ c = row.contestant /\ n = row.votes /\ n \in Nat
    BY DEF SaleRow
  <2>1. SumOf(VotesOf(r), LiveAt(r, i, v)) + n <= MaxPerVoter
    BY <1>2, <2>0, LessIsLive, LimitsAreNumbers DEF Room
  <2>2. SumOf(VotesOf(r), LiveOn(r, i, v, c)) + n <= MaxOnContestant
    BY <1>2, <2>0, LessIsLive, LimitsAreNumbers DEF Room
  <2>3. row.package => Cardinality(LivePacks(r, i, v)) + 1 <= MaxPackages
    BY <1>2, <2>0, LessIsLive, LimitsAreNumbers DEF Room
  <2> QED
    BY <2>0, <2>1, <2>2, <2>3 DEF Room
<1> QED
  BY <1>1, <1>2 DEF RoomFor

(* One more live sale, for which there was room. *)
LEMMA LiveGrows ==
  ASSUME NEW q \in Ledger, NEW r \in Ledger, NEW y \in Sales, NEW i \in 1..2, NEW v,
         r[y] # Unsold, q[y] # Unsold, ~q[y].live, r[y].contestant \in Contestants,
         \A s \in Sales : s # y => r[s] = q[s],
         Within(q, i, v), r[y].buyer[i] = v => Room(q, i, r[y])
  PROVE  Within(r, i, v)
<1>1. CASE r[y].live /\ r[y].buyer[i] = v
  <2> DEFINE A == LiveAt(q, i, v)
  <2>1. /\ LiveAt(r, i, v) = A \cup {y} /\ y \notin A /\ A \subseteq Sales
        /\ r[y] \in SaleRow /\ r[y].votes \in Nat /\ VotesOf(r)[y] = r[y].votes
    <3>1. r[y] \in SaleRow
      BY DEF Ledger
    <3>2. r[y].votes \in Nat
      BY <3>1 DEF SaleRow
    <3> QED
      BY <1>1, <3>1, <3>2 DEF LiveAt, VotesOf
  <2>2. /\ IsFiniteSet(A)
        /\ \A s \in A : VotesOf(r)[s] = VotesOf(q)[s] /\ VotesOf(q)[s] \in Nat
    BY <2>1, LiveTyped DEF VotesOf
  <2>3. SumOf(VotesOf(r), LiveAt(r, i, v)) <= MaxPerVoter
    <3>1. /\ SumOf(VotesOf(r), A \cup {y}) = VotesOf(r)[y] + SumOf(VotesOf(q), A)
          /\ SumOf(VotesOf(q), A) \in Nat
      <4> HIDE DEF A
      <4> QED
        BY <2>1, <2>2, SumGrows
    <3>2. SumOf(VotesOf(q), A) + r[y].votes <= MaxPerVoter
      BY <1>1 DEF Room
    <3> HIDE DEF A
    <3> QED
      BY <2>1, <3>1, <3>2, LimitsAreNumbers
  <2>4. ASSUME NEW c \in Contestants PROVE SumOf(VotesOf(r), LiveOn(r, i, v, c)) <= MaxOnContestant
    <3> DEFINE B == LiveOn(q, i, v, c)
    <3>0. /\ B \in SUBSET A /\ IsFiniteSet(B) /\ y \notin B
          /\ \A s \in B : VotesOf(r)[s] = VotesOf(q)[s] /\ VotesOf(q)[s] \in Nat
      <4>1. IsFiniteSet(B)
        BY LiveTyped
      <4>2. B \in SUBSET A
        BY DEF LiveOn
      <4> QED
        BY <2>1, <2>2, <4>1, <4>2
    <3>1. CASE r[y].contestant = c
      <4>1. LiveOn(r, i, v, c) = B \cup {y}
        BY <2>1, <3>1 DEF LiveOn, LiveAt
      <4>2. /\ SumOf(VotesOf(r), B \cup {y}) = VotesOf(r)[y] + SumOf(VotesOf(q), B)
            /\ SumOf(VotesOf(q), B) \in Nat
        <5> HIDE DEF A, B
        <5> QED
          BY <2>1, <3>0, SumGrows
      <4>3. SumOf(VotesOf(q), B) + r[y].votes <= MaxOnContestant
        BY <1>1, <3>1 DEF Room
      <4> HIDE DEF A, B
      <4> QED
        BY <2>1, <4>1, <4>2, <4>3, LimitsAreNumbers
    <3>2. CASE r[y].contestant # c
      <4>1. LiveOn(r, i, v, c) = B
        BY <2>1, <3>2 DEF LiveOn, LiveAt
      <4>2. SumOf(VotesOf(r), B) = SumOf(VotesOf(q), B)
        <5> HIDE DEF A, B
        <5> QED
          BY <3>0, SumSame
      <4>3. SumOf(VotesOf(q), B) <= MaxOnContestant
        BY DEF Within
      <4> QED
        BY <4>1, <4>2, <4>3
    <3> QED
      BY <3>1, <3>2
  <2>5. Cardinality(LivePacks(r, i, v)) <= MaxPackages
    <3> DEFINE P == LivePacks(q, i, v)
    <3>0. IsFiniteSet(P) /\ y \notin P /\ Cardinality(P) \in Nat
      BY <2>1, LiveTyped DEF LivePacks
    <3>1. CASE r[y].package
      <4>1. LivePacks(r, i, v) = P \cup {y}
        BY <2>1, <3>1 DEF LivePacks, LiveAt
      <4>2. Cardinality(P \cup {y}) = Cardinality(P) + 1
        <5> HIDE DEF P
        <5> QED
          BY <3>0, FS_AddElement
      <4>3. Cardinality(P) + 1 <= MaxPackages
        BY <1>1, <3>1 DEF Room
      <4> QED
        BY <4>1, <4>2, <4>3
    <3>2. CASE ~r[y].package
      <4>1. LivePacks(r, i, v) = P
        BY <2>1, <3>2 DEF LivePacks, LiveAt
      <4> QED
        BY <4>1 DEF Within
    <3> QED
      BY <3>1, <3>2
  <2> QED
    BY <2>3, <2>4, <2>5 DEF Within
<1>2. CASE ~(r[y].live /\ r[y].buyer[i] = v)
  <2>1. /\ LiveAt(r, i, v) = LiveAt(q, i, v)
        /\ (\A c : LiveOn(r, i, v, c) = LiveOn(q, i, v, c))
        /\ LivePacks(r, i, v) = LivePacks(q, i, v)
    BY <1>2 DEF LiveAt, LiveOn, LivePacks
  <2>2. /\ IsFiniteSet(LiveAt(q, i, v))
        /\ \A s \in LiveAt(q, i, v) : VotesOf(r)[s] = VotesOf(q)[s]
    <3>1. y \notin LiveAt(q, i, v)
      BY DEF LiveAt
    <3> QED
      BY <3>1, LiveTyped DEF VotesOf
  <2>3. SumOf(VotesOf(r), LiveAt(q, i, v)) = SumOf(VotesOf(q), LiveAt(q, i, v))
    BY <2>2, SumSame
  <2>4. ASSUME NEW c \in Contestants
        PROVE  SumOf(VotesOf(r), LiveOn(q, i, v, c)) = SumOf(VotesOf(q), LiveOn(q, i, v, c))
    <3>1. IsFiniteSet(LiveOn(q, i, v, c))
      BY LiveTyped
    <3>2. \A s \in LiveOn(q, i, v, c) : VotesOf(r)[s] = VotesOf(q)[s]
      BY <2>2 DEF LiveOn
    <3> QED
      BY <3>1, <3>2, SumSame
  <2> QED
    BY <2>1, <2>3, <2>4 DEF Within
<1> QED
  BY <1>1, <1>2

(* What follows of a sale row: it is in the ledger, its buyer is known.      *)
LEMMA SaleFields ==
  ASSUME NEW row \in SaleRow
  PROVE  /\ row.buyer \in Buyers /\ row.contestant \in Contestants /\ row.votes \in Nat
         /\ row.package \in BOOLEAN /\ row.code \in BOOLEAN /\ row.held \in BOOLEAN
         /\ row.credited \in BOOLEAN /\ row.live \in BOOLEAN
         /\ row.status \in {"none", "PENDING", "SUCCESS", "FAILED", "REFUNDED", "DISPUTED", "REVERSED"}
  BY DEF SaleRow

CodeUses(q) == {s \in Sales : q[s] # Unsold /\ q[s].code /\ q[s].credited}

LEMMA UsesFinite ==
  ASSUME NEW q
  PROVE  IsFiniteSet(CodeUses(q)) /\ Cardinality(CodeUses(q)) \in Nat
<1>1. CodeUses(q) \subseteq Sales /\ IsFiniteSet(Sales)
  BY LimitsAssumption DEF LimitsAssumption, CodeUses
<1> QED
  BY <1>1, FS_Subset, FS_CardinalityType

(* A sale keeps what was bought, and is not credited or is so no longer.     *)
LEMMA RowMoves ==
  ASSUME LimitsIInv, NEW s \in Sales, NEW r \in SaleRow,
         sale[s] # Unsold, sale[s].status # "REFUNDED",
         r.buyer = sale[s].buyer, r.contestant = sale[s].contestant, r.votes = sale[s].votes,
         r.package = sale[s].package, r.code = sale[s].code,
         r.credited = sale[s].credited, r.live => sale[s].live,
         r.live => r.status \in {"SUCCESS", "REFUNDED"},
         oneByOne /\ Creditable(r) => Creditable(sale[s]),
         sale' = [sale EXCEPT ![s] = r], UNCHANGED <<oneByOne, redeemedBy, checkout>>
  PROVE  LimitsIInv'
<1>0. PICK q, z : q = sale /\ z = sale' /\ q \in Ledger /\ z \in Ledger /\ z[s] = r /\ (\A t \in Sales : t # s => z[t] = q[t])
  <2>1. sale \in Ledger /\ sale' \in Ledger
    BY DEF LimitsIInv, LimitsTypeOK, Ledger
  <2> QED
    BY <2>1 DEF Ledger
<1>1. r # Unsold
  BY SalesDiffer
<1>2. LimitsTypeOK'
  BY <1>0 DEF LimitsIInv, LimitsTypeOK, Ledger
<1>3. \A t \in Sales : Creditable(z[t]) /\ oneByOne => Creditable(q[t])
  BY <1>0
<1>4. OneAwaits'
  BY <1>0, <1>3 DEF LimitsIInv, OneAwaits
<1>5. LiveIsCredited'
  <2>1. \A t \in Sales : z[t] # Unsold /\ z[t].live => z[t].credited /\ z[t].status \in {"SUCCESS", "REFUNDED"}
    BY <1>0 DEF LimitsIInv, LiveIsCredited, Made
  <2> QED
    BY <1>0, <2>1 DEF LimitsIInv, LiveIsCredited, Made
<1>6. \A t \in Sales : z[t] # Unsold /\ z[t].live =>
         /\ q[t] # Unsold /\ q[t].live /\ q[t].buyer = z[t].buyer /\ q[t].contestant = z[t].contestant
         /\ q[t].votes = z[t].votes /\ q[t].package = z[t].package
  BY <1>0
<1>7. /\ \A i \in 1..2 : \A v : Within(q, i, v) => Within(z, i, v)
      /\ \A row \in SaleRow : RoomFor(q, row) => RoomFor(z, row)
  <2>1. q \in Ledger /\ z \in Ledger
    BY <1>0
  <2> QED
    BY <1>6, <2>1, LiveShrinks, Zenon
<1>8. CapsHold'
  <2>1. SUFFICES ASSUME oneByOne', NoneLeft'
        PROVE  /\ \A b \in Buyers, i \in 1..2 : b[i] # Blank => Within(z, i, b[i])
               /\ checkout # NoCheckout => RoomFor(z, checkout)
               /\ \A t \in Sales : Creditable(z[t]) => RoomFor(z, z[t])
    BY <1>0 DEF CapsHold
  <2>2. NoneLeft
    <3>1. \A t \in Sales : z[t] # Unsold /\ z[t].live => z[t].status = "SUCCESS"
      BY <1>0, <2>1 DEF NoneLeft, Made
    <3>2. \A t \in Sales : q[t] # Unsold /\ q[t].live => q[t].status \in {"SUCCESS", "REFUNDED"}
      BY <1>0 DEF LimitsIInv, LiveIsCredited, Made
    <3> QED
      BY <1>0, <3>1, <3>2 DEF NoneLeft, Made
  <2>3. /\ \A b \in Buyers, i \in 1..2 : b[i] # Blank => Within(q, i, b[i])
        /\ checkout # NoCheckout => RoomFor(q, checkout)
        /\ \A t \in Sales : Creditable(q[t]) => RoomFor(q, q[t])
    BY <1>0, <2>1, <2>2 DEF LimitsIInv, CapsHold
  <2>4. \A b \in Buyers, i \in 1..2 : b[i] # Blank => Within(z, i, b[i])
    BY <1>7, <2>3
  <2>5. checkout # NoCheckout => RoomFor(z, checkout)
    <3>1. checkout # NoCheckout => checkout \in SaleRow
      BY DEF LimitsIInv, LimitsTypeOK
    <3> QED
      BY <1>7, <2>3, <3>1
  <2>6. ASSUME NEW t \in Sales, Creditable(z[t]) PROVE RoomFor(z, z[t])
    <3>1. z[t] \in SaleRow /\ q[t] \in SaleRow /\ Creditable(q[t])
      BY <1>0, <1>3, <2>1, <2>6 DEF Ledger, Creditable
    <3>2. RoomFor(z, q[t])
      BY <1>7, <2>3, <3>1
    <3>3. z[t].buyer = q[t].buyer /\ z[t].votes = q[t].votes /\ z[t].contestant = q[t].contestant /\ z[t].package = q[t].package
      BY <1>0
    <3>4. PICK x \in SaleRow, y \in SaleRow : x = q[t] /\ y = z[t]
      BY <3>1
    <3>5. RoomFor(z, x)
      BY <3>2, <3>4
    <3>6. y.buyer = x.buyer /\ y.votes = x.votes /\ y.contestant = x.contestant /\ y.package = x.package
      BY <3>3, <3>4
    <3>7. RoomFor(z, y)
      BY <3>5, <3>6 DEF RoomFor, Room
    <3> QED
      BY <3>4, <3>7
  <2> QED
    BY <2>4, <2>5, <2>6
<1>9. CodeHolds'
  <2>1. CodeUses(z) = CodeUses(q)
    BY <1>0, <1>1 DEF CodeUses
  <2>2. \A t \in Sales : Creditable(z[t]) /\ z[t].code /\ oneByOne => Creditable(q[t]) /\ q[t].code
    BY <1>0, <1>3
  <2>3. redeemedBy' = Cardinality({t \in Made : sale[t].code /\ sale[t].credited})'
    <3>1. {t \in Made : sale[t].code /\ sale[t].credited} = CodeUses(q)
      BY <1>0 DEF CodeUses, Made
    <3>2. {t \in Made : sale[t].code /\ sale[t].credited}' = CodeUses(z)
      BY <1>0 DEF CodeUses, Made
    <3>3. redeemedBy = Cardinality({t \in Made : sale[t].code /\ sale[t].credited})
      BY DEF LimitsIInv, CodeHolds
    <3> QED
      BY <1>0, <2>1, <3>1, <3>2, <3>3
  <2> QED
    BY <1>0, <2>2, <2>3 DEF LimitsIInv, CodeHolds
<1> QED
  BY <1>2, <1>4, <1>5, <1>8, <1>9 DEF LimitsIInv

(* A sale is credited: of those under way it was the only one.               *)
LEMMA RowCredited ==
  ASSUME LimitsIInv, NEW s \in Sales, NEW r \in SaleRow,
         sale[s] # Unsold,
         r.buyer = sale[s].buyer, r.contestant = sale[s].contestant, r.votes = sale[s].votes,
         r.package = sale[s].package, r.code = sale[s].code,
         r.credited, r.live, r.status = "SUCCESS", ~sale[s].credited,
         oneByOne => Creditable(sale[s]),
         sale' = [sale EXCEPT ![s] = r], UNCHANGED <<oneByOne, checkout>>,
         redeemedBy' = IF r.code THEN redeemedBy + 1 ELSE redeemedBy
  PROVE  LimitsIInv'
<1>0. PICK q, z : q = sale /\ z = sale' /\ q \in Ledger /\ z \in Ledger /\ z[s] = r /\ (\A t \in Sales : t # s => z[t] = q[t])
  <2>1. sale \in Ledger /\ sale' \in Ledger
    BY DEF LimitsIInv, LimitsTypeOK, Ledger
  <2> QED
    BY <2>1 DEF Ledger
<1>1. r # Unsold /\ ~sale[s].live
  BY SalesDiffer DEF LimitsIInv, LiveIsCredited, Made
<1>2. LimitsTypeOK'
  <2>1. redeemedBy' \in Nat
    BY DEF LimitsIInv, LimitsTypeOK
  <2> QED
    BY <1>0, <2>1 DEF LimitsIInv, LimitsTypeOK, Ledger
<1>3. oneByOne => checkout = NoCheckout /\ \A t \in Sales : ~Creditable(z[t])
  <2>1. ~Creditable(r)
    BY DEF Creditable
  <2> QED
    BY <1>0, <2>1 DEF LimitsIInv, OneAwaits
<1>4. OneAwaits'
  BY <1>0, <1>3 DEF OneAwaits
<1>5. LiveIsCredited'
  <2>1. \A t \in Sales : z[t] # Unsold /\ z[t].live => z[t].credited /\ z[t].status \in {"SUCCESS", "REFUNDED"}
    BY <1>0 DEF LimitsIInv, LiveIsCredited, Made
  <2> QED
    BY <1>0, <2>1 DEF LimitsIInv, LiveIsCredited, Made
<1>6. CapsHold'
  <2>1. SUFFICES ASSUME oneByOne', NoneLeft'
        PROVE  \A b \in Buyers, i \in 1..2 : b[i] # Blank => Within(z, i, b[i])
    BY <1>0, <1>3 DEF CapsHold
  <2>2. NoneLeft
    BY <1>0, <1>1, <2>1 DEF NoneLeft, Made
  <2>3. ASSUME NEW b \in Buyers, NEW i \in 1..2, b[i] # Blank PROVE Within(z, i, b[i])
    <3>1. Within(q, i, b[i])
      BY <1>0, <2>1, <2>2, <2>3 DEF LimitsIInv, CapsHold
    <3>2. RoomFor(q, q[s])
      BY <1>0, <2>1, <2>2 DEF LimitsIInv, CapsHold
    <3>3. z[s].buyer[i] = b[i] => Room(q, i, z[s])
      <4>1. z[s].buyer = q[s].buyer /\ z[s].votes = q[s].votes /\ z[s].contestant = q[s].contestant /\ z[s].package = q[s].package
        BY <1>0
      <4> QED
        BY <2>3, <3>2, <4>1 DEF RoomFor, Room
    <3>4. z[s] # Unsold /\ q[s] # Unsold /\ ~q[s].live /\ z[s].contestant \in Contestants
      BY <1>0, <1>1, SaleFields
    <3>5. PICK v : v = b[i]
      OBVIOUS
    <3>6. Within(q, i, v) /\ (z[s].buyer[i] = v => Room(q, i, z[s]))
      BY <3>1, <3>3, <3>5
    <3>7. q \in Ledger /\ z \in Ledger /\ \A t \in Sales : t # s => z[t] = q[t]
      BY <1>0
    <3>8. Within(z, i, v)
      BY <3>4, <3>6, <3>7, LiveGrows
    <3> QED
      BY <3>5, <3>8
  <2> QED
    BY <2>3
<1>7. CodeHolds'
  <2>0. redeemedBy = Cardinality(CodeUses(q)) /\ redeemedBy \in Nat
    <3>1. CodeUses(q) = {t \in Made : sale[t].code /\ sale[t].credited}
      BY <1>0 DEF CodeUses, Made
    <3> QED
      BY <3>1 DEF LimitsIInv, CodeHolds, LimitsTypeOK
  <2>1. redeemedBy' = Cardinality(CodeUses(z))
    <3>1. CASE r.code
      <4>1. CodeUses(z) = CodeUses(q) \cup {s} /\ s \notin CodeUses(q)
        BY <1>0, <1>1, <3>1 DEF CodeUses
      <4>2. Cardinality(CodeUses(q) \cup {s}) = Cardinality(CodeUses(q)) + 1
        BY <4>1, UsesFinite, FS_AddElement
      <4> QED
        BY <2>0, <3>1, <4>1, <4>2
    <3>2. CASE ~r.code
      <4>1. CodeUses(z) = CodeUses(q)
        BY <1>0, <1>1, <3>2 DEF CodeUses
      <4> QED
        BY <2>0, <3>2, <4>1
    <3> QED
      BY <3>1, <3>2
  <2>2. redeemedBy' = Cardinality({t \in Made : sale[t].code /\ sale[t].credited})'
    <3>1. CodeUses(z) = {t \in Made : sale[t].code /\ sale[t].credited}'
      BY <1>0 DEF CodeUses, Made
    <3> QED
      BY <2>1, <3>1
  <2>3. oneByOne => redeemedBy' <= MaxUses
    <3>1. oneByOne => redeemedBy <= MaxUses /\ (sale[s].code => redeemedBy < MaxUses)
      BY DEF LimitsIInv, CodeHolds
    <3> QED
      BY <2>0, <3>1, LimitsAreNumbers
  <2> QED
    BY <1>0, <1>3, <2>2, <2>3 DEF CodeHolds
<1> QED
  BY <1>2, <1>4, <1>5, <1>6, <1>7 DEF LimitsIInv

(* What confirming, releasing, refunding or disputing makes of a sale.       *)
LEMMA BecomesKeeps ==
  ASSUME LimitsIInv, NEW s \in Sales, NEW row \in SaleRow, SaleBecomes(s, row),
         sale[s] # Unsold, sale[s].status # "REFUNDED",
         row.buyer = sale[s].buyer, row.contestant = sale[s].contestant, row.votes = sale[s].votes,
         row.package = sale[s].package, row.code = sale[s].code, row.credited = sale[s].credited,
         row.live => sale[s].live, row.live => row.status \in {"SUCCESS", "REFUNDED"},
         oneByOne /\ Creditable(row) => Creditable(sale[s])
  PROVE  LimitsIInv'
<1>1. CASE Credits(row)
  <2>1. PICK r : r = [row EXCEPT !.credited = TRUE, !.live = TRUE]
    OBVIOUS
  <2>2. r \in SaleRow
    BY <2>1 DEF SaleRow
  <2>3. /\ r.buyer = row.buyer /\ r.contestant = row.contestant /\ r.votes = row.votes
        /\ r.package = row.package /\ r.code = row.code /\ r.status = row.status
        /\ r.credited /\ r.live
    BY <2>1 DEF SaleRow
  <2>4. sale' = [sale EXCEPT ![s] = r] /\ UNCHANGED <<oneByOne, checkout>>
    BY <1>1, <2>1 DEF SaleBecomes
  <2>5. redeemedBy' = IF r.code THEN redeemedBy + 1 ELSE redeemedBy
    BY <1>1, <2>3 DEF SaleBecomes
  <2>6. r.status = "SUCCESS" /\ ~sale[s].credited /\ (oneByOne => Creditable(sale[s]))
    <3>1. row # Unsold
      BY SalesDiffer
    <3> QED
      BY <1>1, <2>3, <3>1 DEF Credits, Creditable
  <2> QED
    BY <2>2, <2>3, <2>4, <2>5, <2>6, RowCredited
<1>2. CASE ~Credits(row)
  <2>1. sale' = [sale EXCEPT ![s] = row] /\ UNCHANGED <<oneByOne, redeemedBy, checkout>>
    BY <1>2 DEF SaleBecomes
  <2> QED
    BY <2>1, RowMoves
<1> QED
  BY <1>1, <1>2

LEMMA SaleSteps ==
  ASSUME LimitsIInv, NEW s \in Sales, NEW yes \in BOOLEAN,
         Fail(s) \/ Release(s) \/ Dispute(s) \/ Confirm(s, yes) \/ RefundSale(s, yes) \/ Resolve(s, yes)
  PROVE  LimitsIInv'
<1>0. PICK q : q = sale[s]
  OBVIOUS
<1>1. /\ q \in SaleRow /\ q # Unsold /\ q.status # "REFUNDED"
      /\ q.status \in {"PENDING", "SUCCESS", "FAILED", "DISPUTED"}
  <2>1. q.status \in {"PENDING", "SUCCESS", "FAILED", "DISPUTED"}
    BY <1>0 DEF Fail, Release, Dispute, Confirm, RefundSale, Resolve
  <2>2. q # Unsold
    BY <2>1 DEF Unsold
  <2> QED
    BY <1>0, <2>1, <2>2 DEF LimitsIInv, LimitsTypeOK
<1>2. q.live => q.credited /\ q.status \in {"SUCCESS", "REFUNDED"}
  BY <1>0, <1>1 DEF LimitsIInv, LiveIsCredited, Made
<1>3. ASSUME NEW row \in SaleRow, SaleBecomes(s, row),
             row.buyer = q.buyer, row.contestant = q.contestant, row.votes = q.votes,
             row.package = q.package, row.code = q.code, row.credited = q.credited,
             row.live => q.live, row.live => row.status \in {"SUCCESS", "REFUNDED"},
             oneByOne /\ Creditable(row) => Creditable(q)
      PROVE  LimitsIInv'
  BY <1>0, <1>1, <1>3, BecomesKeeps
<1>4. CASE Fail(s)
  <2>1. PICK row : row = [q EXCEPT !.status = "FAILED"]
    OBVIOUS
  <2>2. row \in SaleRow /\ row.status = "FAILED" /\ SaleBecomes(s, row) /\ ~q.live
    BY <1>0, <1>1, <1>2, <1>4, <2>1 DEF Fail, SaleRow
  <2>3. /\ row.buyer = q.buyer /\ row.contestant = q.contestant /\ row.votes = q.votes
        /\ row.package = q.package /\ row.code = q.code /\ row.credited = q.credited /\ row.live = q.live
    BY <1>1, <2>1 DEF SaleRow
  <2> QED
    BY <1>3, <2>2, <2>3 DEF Creditable
<1>5. CASE Release(s)
  <2>1. PICK row : row = [q EXCEPT !.held = FALSE]
    OBVIOUS
  <2>2. row \in SaleRow /\ row.status = q.status /\ q.status = "SUCCESS" /\ SaleBecomes(s, row)
    BY <1>0, <1>1, <1>5, <2>1 DEF Release, SaleRow
  <2>3. /\ row.buyer = q.buyer /\ row.contestant = q.contestant /\ row.votes = q.votes
        /\ row.package = q.package /\ row.code = q.code /\ row.credited = q.credited /\ row.live = q.live
    BY <1>1, <2>1 DEF SaleRow
  <2> QED
    BY <1>1, <1>3, <2>2, <2>3 DEF Creditable
<1>6. CASE Dispute(s)
  <2>1. PICK row : row = [q EXCEPT !.status = "DISPUTED", !.live = FALSE]
    OBVIOUS
  <2>2. row \in SaleRow /\ row.status = "DISPUTED" /\ q.status = "SUCCESS" /\ SaleBecomes(s, row) /\ ~row.live
    BY <1>0, <1>1, <1>6, <2>1 DEF Dispute, SaleRow
  <2>3. /\ row.buyer = q.buyer /\ row.contestant = q.contestant /\ row.votes = q.votes
        /\ row.package = q.package /\ row.code = q.code /\ row.credited = q.credited
    BY <1>1, <2>1 DEF SaleRow
  <2> QED
    BY <1>1, <1>3, <2>2, <2>3 DEF Creditable
<1>7. CASE Confirm(s, yes)
  <2>1. PICK row : row = [q EXCEPT !.status = "SUCCESS", !.held = yes \/ q.held]
    OBVIOUS
  <2>2. row \in SaleRow /\ row.status = "SUCCESS" /\ (oneByOne => q.status = "PENDING") /\ SaleBecomes(s, row)
    BY <1>0, <1>1, <1>7, <2>1 DEF Confirm, SaleRow
  <2>3. /\ row.buyer = q.buyer /\ row.contestant = q.contestant /\ row.votes = q.votes
        /\ row.package = q.package /\ row.code = q.code /\ row.credited = q.credited /\ row.live = q.live
    BY <1>1, <2>1 DEF SaleRow
  <2> QED
    BY <1>1, <1>3, <2>2, <2>3 DEF Creditable
<1>8. CASE RefundSale(s, yes)
  <2>1. PICK row : row = [q EXCEPT !.status = "REFUNDED", !.live = q.live /\ ~yes]
    OBVIOUS
  <2>2. row \in SaleRow /\ row.status = "REFUNDED" /\ SaleBecomes(s, row) /\ (row.live => q.live)
    BY <1>0, <1>1, <1>8, <2>1 DEF RefundSale, SaleRow
  <2>3. /\ row.buyer = q.buyer /\ row.contestant = q.contestant /\ row.votes = q.votes
        /\ row.package = q.package /\ row.code = q.code /\ row.credited = q.credited
    BY <1>1, <2>1 DEF SaleRow
  <2> QED
    BY <1>3, <2>2, <2>3 DEF Creditable
<1>9. CASE Resolve(s, yes)
  <2>1. PICK row : row = [q EXCEPT !.status = IF yes THEN "SUCCESS" ELSE "REVERSED"]
    OBVIOUS
  <2>2. row \in SaleRow /\ row.status \in {"SUCCESS", "REVERSED"} /\ q.status = "DISPUTED" /\ ~q.live
    BY <1>0, <1>1, <1>2, <1>9, <2>1 DEF Resolve, SaleRow
  <2>3. /\ row.buyer = q.buyer /\ row.contestant = q.contestant /\ row.votes = q.votes
        /\ row.package = q.package /\ row.code = q.code /\ row.credited = q.credited /\ row.live = q.live
    BY <1>1, <2>1 DEF SaleRow
  <2>4. sale' = [sale EXCEPT ![s] = row] /\ UNCHANGED <<oneByOne, redeemedBy, checkout>>
    BY <1>0, <1>9, <2>1 DEF Resolve
  <2>5. Creditable(row) => Creditable(q)
    BY <1>1, <2>2, <2>3 DEF Creditable
  <2> QED
    BY <1>0, <1>1, <2>2, <2>3, <2>4, <2>5, RowMoves
<1> QED
  BY <1>4, <1>5, <1>6, <1>7, <1>8, <1>9

(* One by one, a quote is made when nothing is under way: what counts for    *)
(* either the email or the phone is then part of the payer's prior sales.    *)
LEMMA QuoteLeavesRoom ==
  ASSUME LimitsIInv, NEW b \in Buyers, NEW c \in Contestants, NEW n \in Nat, NEW package \in BOOLEAN,
         NoneLeft, WithinCaps(b, c, n, package), NEW i \in 1..2, b[i] # Blank,
         NEW row \in SaleRow, row.buyer = b, row.contestant = c, row.votes = n, row.package = package
  PROVE  Room(sale, i, row)
<1> DEFINE L == LiveAt(sale, i, b[i])
           P == Prior(b)
<1>0. sale \in Ledger
  BY DEF LimitsIInv, LimitsTypeOK, Ledger
<1>1. L \in SUBSET P /\ P \in SUBSET Sales
  <2>1. ASSUME NEW s \in L PROVE s \in P
    BY DEF LimitsIInv, LiveIsCredited, NoneLeft, Made, LiveAt, Prior, SamePerson
  <2> QED
    BY <2>1 DEF Prior, Made
<1>2. \A s \in P : VotesOf(sale)[s] \in Nat
  <2>1. \A s \in P : s \in Sales /\ sale[s] \in SaleRow
    BY <1>0 DEF Prior, Made, Ledger
  <2> QED
    BY <2>1, SaleFields DEF VotesOf
<1>3. /\ P \in SUBSET Sales /\ IsFiniteSet(P) /\ VotesIn(P) = SumOf(VotesOf(sale), P)
  BY <1>1, VotesInAre, VotesNow
<1>4. SumOf(VotesOf(sale), L) + n <= MaxPerVoter
  <2>1. SumOf(VotesOf(sale), L) <= SumOf(VotesOf(sale), P) /\ SumOf(VotesOf(sale), L) \in Nat /\ SumOf(VotesOf(sale), P) \in Nat
    <3> HIDE DEF L, P
    <3> QED
      BY <1>1, <1>2, <1>3, SumShrinks
  <2>2. SumOf(VotesOf(sale), P) + n <= MaxPerVoter
    BY <1>3 DEF WithinCaps
  <2> HIDE DEF L, P
  <2> QED
    BY <2>1, <2>2, LimitsAreNumbers
<1>5. SumOf(VotesOf(sale), LiveOn(sale, i, b[i], c)) + n <= MaxOnContestant
  <2> DEFINE A == {s \in P : sale[s].contestant = c}
             B == LiveOn(sale, i, b[i], c)
  <2>1. A \in SUBSET P /\ A \in SUBSET Sales /\ B \in SUBSET A
    <3>1. A \in SUBSET P
      OBVIOUS
    <3>2. B \in SUBSET A
      BY <1>1 DEF LiveOn
    <3> HIDE DEF A, B, P
    <3> QED
      BY <1>1, <3>1, <3>2
  <2>2. IsFiniteSet(A) /\ VotesIn(A) = SumOf(VotesOf(sale), A)
    <3> HIDE DEF A
    <3> QED
      BY <2>1, VotesInAre, VotesNow
  <2>3. SumOf(VotesOf(sale), B) <= SumOf(VotesOf(sale), A) /\ SumOf(VotesOf(sale), B) \in Nat /\ SumOf(VotesOf(sale), A) \in Nat
    <3>1. \A s \in A : VotesOf(sale)[s] \in Nat
      BY <1>2
    <3> HIDE DEF A, B
    <3> QED
      BY <2>1, <2>2, <3>1, SumShrinks
  <2>4. SumOf(VotesOf(sale), A) + n <= MaxOnContestant
    BY <2>2 DEF WithinCaps
  <2> HIDE DEF A, B
  <2>5. SumOf(VotesOf(sale), B) + n <= MaxOnContestant
    BY <2>3, <2>4, LimitsAreNumbers
  <2> QED
    BY <2>5 DEF B
<1>6. package => Cardinality(LivePacks(sale, i, b[i])) + 1 <= MaxPackages
  <2> DEFINE A == {s \in P : sale[s].package}
             B == LivePacks(sale, i, b[i])
  <2>1. A \subseteq P /\ B \subseteq A
    BY <1>1 DEF LivePacks
  <2>2. IsFiniteSet(A) /\ Cardinality(B) <= Cardinality(A) /\ Cardinality(A) \in Nat /\ Cardinality(B) \in Nat
    <3> HIDE DEF A, B, P
    <3> QED
      BY <1>3, <2>1, FS_Subset, FS_CardinalityType
  <2>3. package => Cardinality(A) < MaxPackages
    BY DEF WithinCaps
  <2> HIDE DEF A, B
  <2>4. package => Cardinality(B) + 1 <= MaxPackages
    BY <2>2, <2>3, LimitsAreNumbers
  <2> QED
    BY <2>4 DEF B
<1> QED
  BY <1>4, <1>5, <1>6 DEF Room

LEMMA QuoteKeeps ==
  ASSUME LimitsIInv, NEW b \in Buyers, NEW c \in Contestants, NEW n \in 1..MaxAtOnce,
         NEW package \in BOOLEAN, NEW code \in BOOLEAN, NEW held \in BOOLEAN,
         Quote(b, c, n, package, code, held)
  PROVE  LimitsIInv'
<1>0. n \in Nat
  OBVIOUS
<1>1. PICK row : row = [status |-> "PENDING", buyer |-> b, contestant |-> c, votes |-> n,
                        package |-> package, code |-> code, held |-> held, credited |-> FALSE, live |-> FALSE]
  OBVIOUS
<1>2. /\ row \in SaleRow /\ row.buyer = b /\ row.contestant = c /\ row.votes = n /\ row.package = package
      /\ row.code = code /\ row.status = "PENDING" /\ ~row.live /\ ~row.credited
  BY <1>0, <1>1 DEF SaleRow
<1>3. checkout' = row /\ UNCHANGED <<oneByOne, sale, redeemedBy>> /\ row # NoCheckout
  BY <1>1, <1>2, SalesDiffer DEF Quote
<1>4. oneByOne => \A s \in Sales : ~Creditable(sale[s])
  BY DEF Quote, Settled, Made, Creditable
<1>5. LimitsTypeOK'
  BY <1>2, <1>3 DEF LimitsIInv, LimitsTypeOK
<1>6. OneAwaits' /\ LiveIsCredited'
  BY <1>2, <1>3, <1>4 DEF LimitsIInv, OneAwaits, LiveIsCredited, Made
<1>7. CapsHold'
  <2>1. ASSUME oneByOne, NoneLeft PROVE RoomFor(sale, row)
    <3>1. WithinCaps(b, c, n, package)
      BY DEF Quote
    <3>2. ASSUME NEW i \in 1..2, b[i] # Blank PROVE Room(sale, i, row)
      BY <1>0, <1>2, <2>1, <3>1, <3>2, QuoteLeavesRoom
    <3> QED
      BY <1>2, <3>2 DEF RoomFor
  <2>2. NoneLeft' => NoneLeft
    BY <1>3 DEF NoneLeft, Made
  <2>3. oneByOne /\ NoneLeft => \A a \in Buyers, i \in 1..2 : a[i] # Blank => Within(sale, i, a[i])
    BY DEF LimitsIInv, CapsHold
  <2> QED
    BY <1>3, <1>4, <2>1, <2>2, <2>3 DEF CapsHold
<1>8. CodeHolds'
  <2>1. code => redeemedBy < MaxUses
    BY DEF Quote, CodeUsable
  <2>2. redeemedBy' = Cardinality({s \in Made : sale[s].code /\ sale[s].credited})'
    BY <1>3 DEF LimitsIInv, CodeHolds, Made
  <2> QED
    BY <1>2, <1>3, <1>4, <2>1, <2>2 DEF LimitsIInv, CodeHolds
<1> QED
  BY <1>5, <1>6, <1>7, <1>8 DEF LimitsIInv

LEMMA SaveKeeps ==
  ASSUME LimitsIInv, NEW s \in Sales, Save(s)
  PROVE  LimitsIInv'
<1>0. PICK q, z, r : (q = sale) /\ (z = sale') /\ (r = checkout) /\ (r \in SaleRow) /\ (q \in Ledger) /\ (z \in Ledger)
                     /\ (z[s] = r) /\ (q[s] = Unsold) /\ (\A t \in Sales : t # s => z[t] = q[t])
  <2>1. sale \in Ledger /\ checkout \in SaleRow
    BY DEF Save, LimitsIInv, LimitsTypeOK, Ledger
  <2>2. sale' = [sale EXCEPT ![s] = checkout] /\ sale[s] = Unsold
    BY DEF Save
  <2> QED
    BY <2>1, <2>2 DEF Ledger
<1>1. checkout' = NoCheckout /\ r # Unsold /\ r # NoCheckout /\ UNCHANGED <<oneByOne, redeemedBy>>
  BY <1>0, SalesDiffer DEF Save
<1>2. r.status = "PENDING" /\ ~r.live /\ ~r.credited
  BY <1>0, <1>1 DEF LimitsIInv, LiveIsCredited
<1>3. oneByOne => \A t \in Sales : Creditable(z[t]) => t = s
  BY <1>0, <1>1 DEF LimitsIInv, OneAwaits
<1>4. LimitsTypeOK'
  BY <1>0, <1>1 DEF LimitsIInv, LimitsTypeOK, Ledger
<1>5. OneAwaits'
  BY <1>0, <1>1, <1>3 DEF OneAwaits
<1>6. LiveIsCredited'
  <2>1. \A t \in Sales : z[t] # Unsold /\ z[t].live => z[t].credited /\ z[t].status \in {"SUCCESS", "REFUNDED"}
    BY <1>0, <1>2 DEF LimitsIInv, LiveIsCredited, Made
  <2> QED
    BY <1>0, <1>1, <2>1 DEF LiveIsCredited, Made
<1>7. /\ \A i \in 1..2 : \A v : Within(q, i, v) => Within(z, i, v)
      /\ \A row \in SaleRow : RoomFor(q, row) => RoomFor(z, row)
  <2>1. q \in Ledger /\ z \in Ledger
    BY <1>0
  <2>2. \A t \in Sales : z[t] # Unsold /\ z[t].live =>
           /\ q[t] # Unsold /\ q[t].live /\ q[t].buyer = z[t].buyer /\ q[t].contestant = z[t].contestant
           /\ q[t].votes = z[t].votes /\ q[t].package = z[t].package
    BY <1>0, <1>2
  <2> QED
    BY <2>1, <2>2, LiveShrinks, Zenon
<1>8. CapsHold'
  <2>1. SUFFICES ASSUME oneByOne', NoneLeft'
        PROVE  /\ \A b \in Buyers, i \in 1..2 : b[i] # Blank => Within(z, i, b[i])
               /\ \A t \in Sales : Creditable(z[t]) => RoomFor(z, z[t])
    BY <1>0, <1>1 DEF CapsHold
  <2>2. NoneLeft
    BY <1>0, <2>1 DEF NoneLeft, Made
  <2>3. (\A b \in Buyers, i \in 1..2 : b[i] # Blank => Within(q, i, b[i])) /\ RoomFor(q, r)
    BY <1>0, <1>1, <2>1, <2>2 DEF LimitsIInv, CapsHold
  <2> QED
    BY <1>0, <1>1, <1>3, <1>7, <2>1, <2>3
<1>9. CodeHolds'
  <2>1. CodeUses(z) = CodeUses(q)
    BY <1>0, <1>2 DEF CodeUses
  <2>2. redeemedBy' = Cardinality({t \in Made : sale[t].code /\ sale[t].credited})'
    BY <1>0, <1>1, <2>1 DEF LimitsIInv, CodeHolds, CodeUses, Made
  <2>3. oneByOne => redeemedBy <= MaxUses /\ (r.code => redeemedBy < MaxUses)
    BY <1>0, <1>1 DEF LimitsIInv, CodeHolds
  <2> QED
    BY <1>0, <1>1, <1>3, <2>2, <2>3 DEF CodeHolds
<1> QED
  BY <1>4, <1>5, <1>6, <1>8, <1>9 DEF LimitsIInv

LEMMA RefuseKeeps ==
  ASSUME LimitsIInv, Refuse
  PROVE  LimitsIInv'
<1>1. checkout' = NoCheckout /\ UNCHANGED <<oneByOne, sale, redeemedBy>>
  BY DEF Refuse
<1>2. LimitsTypeOK' /\ OneAwaits' /\ LiveIsCredited'
  BY <1>1 DEF LimitsIInv, LimitsTypeOK, OneAwaits, LiveIsCredited, Made
<1>3. CapsHold'
  BY <1>1 DEF LimitsIInv, CapsHold, NoneLeft, Made
<1>4. CodeHolds'
  BY <1>1 DEF LimitsIInv, CodeHolds, Made
<1> QED
  BY <1>2, <1>3, <1>4 DEF LimitsIInv

LEMMA LimitsStart == LimitsInit => LimitsIInv
<1> SUFFICES ASSUME LimitsInit PROVE LimitsIInv
  OBVIOUS
<1>1. \A s \in Sales : sale[s] = Unsold
  BY DEF LimitsInit
<1>2. Made = {} /\ (\A s \in Sales : ~Creditable(sale[s])) /\ checkout = NoCheckout /\ redeemedBy = 0
  BY <1>1 DEF LimitsInit, Made, Creditable
<1>3. LimitsTypeOK /\ OneAwaits /\ LiveIsCredited
  BY <1>2 DEF LimitsInit, LimitsTypeOK, OneAwaits, LiveIsCredited
<1>4. CapsHold
  <2>1. ASSUME NEW v, NEW i \in 1..2 PROVE Within(sale, i, v)
    <3>1. /\ LiveAt(sale, i, v) = {} /\ (\A c : LiveOn(sale, i, v, c) = {}) /\ LivePacks(sale, i, v) = {}
      BY <1>1 DEF LiveAt, LiveOn, LivePacks
    <3>2. SumOf(VotesOf(sale), {}) = 0 /\ Cardinality({}) = 0
      BY SumUnfolds, FS_EmptySet
    <3> QED
      BY <3>1, <3>2, LimitsAreNumbers DEF Within
  <2> QED
    BY <1>2, <2>1 DEF CapsHold
<1>5. CodeHolds
  <2>1. {s \in Made : sale[s].code /\ sale[s].credited} = {} /\ Cardinality({}) = 0
    BY <1>2, FS_EmptySet
  <2> QED
    BY <1>2, <2>1, LimitsAreNumbers DEF CodeHolds
<1> QED
  BY <1>3, <1>4, <1>5 DEF LimitsIInv

LEMMA LimitsStep == LimitsIInv /\ [LimitsNext]_limitVars => LimitsIInv'
<1> SUFFICES ASSUME LimitsIInv, [LimitsNext]_limitVars PROVE LimitsIInv'
  OBVIOUS
<1>1. ASSUME NEW b \in Buyers, NEW c \in Contestants, NEW n \in 1..MaxAtOnce,
             NEW package \in BOOLEAN, NEW code \in BOOLEAN, NEW held \in BOOLEAN,
             Quote(b, c, n, package, code, held)
      PROVE  LimitsIInv'
  BY <1>1, QuoteKeeps
<1>2. ASSUME Refuse PROVE LimitsIInv'
  BY <1>2, RefuseKeeps
<1>3. ASSUME NEW s \in Sales, Save(s) PROVE LimitsIInv'
  BY <1>3, SaveKeeps
<1>4. ASSUME NEW s \in Sales, Fail(s) \/ Release(s) \/ Dispute(s) PROVE LimitsIInv'
  <2>1. TRUE \in BOOLEAN
    OBVIOUS
  <2> QED
    BY <1>4, <2>1, SaleSteps
<1>5. ASSUME NEW s \in Sales, NEW yes \in BOOLEAN, Confirm(s, yes) \/ RefundSale(s, yes) \/ Resolve(s, yes)
      PROVE  LimitsIInv'
  BY <1>5, SaleSteps
<1>6. ASSUME UNCHANGED limitVars PROVE LimitsIInv'
  <2>1. UNCHANGED <<oneByOne, sale, redeemedBy, checkout>>
    BY <1>6 DEF limitVars
  <2>2. LimitsTypeOK' /\ OneAwaits' /\ LiveIsCredited'
    BY <2>1 DEF LimitsIInv, LimitsTypeOK, OneAwaits, LiveIsCredited, Made
  <2>3. CapsHold'
    BY <2>1 DEF LimitsIInv, CapsHold, NoneLeft, Made
  <2>4. CodeHolds'
    BY <2>1 DEF LimitsIInv, CodeHolds, Made
  <2> QED
    BY <2>2, <2>3, <2>4 DEF LimitsIInv
<1>7. ASSUME \E b \in Buyers, c \in Contestants, n \in 1..MaxAtOnce, package, code, held \in BOOLEAN :
                Quote(b, c, n, package, code, held)
      PROVE  LimitsIInv'
  <2>1. PICK b \in Buyers, c \in Contestants, n \in 1..MaxAtOnce, package \in BOOLEAN, code \in BOOLEAN, held \in BOOLEAN :
           Quote(b, c, n, package, code, held)
    BY <1>7
  <2> QED
    BY <1>1, <2>1
<1>8. ASSUME NEW s \in Sales, Save(s) \/ Fail(s) \/ Release(s) \/ Dispute(s)
             \/ \E yes \in BOOLEAN : Confirm(s, yes) \/ RefundSale(s, yes) \/ Resolve(s, yes)
      PROVE  LimitsIInv'
  BY <1>3, <1>4, <1>5, <1>8
<1> QED
  BY <1>2, <1>6, <1>7, <1>8 DEF LimitsNext

LEMMA LimitsFollow == LimitsIInv => LimitsHold
<1> SUFFICES ASSUME LimitsIInv PROVE LimitsHold
  OBVIOUS
<1>1. redeemedBy = Cardinality({s \in Made : sale[s].code /\ sale[s].credited}) /\ (oneByOne => redeemedBy <= MaxUses)
  BY DEF LimitsIInv, CodeHolds
<1>2. ASSUME oneByOne, \A s \in Made : sale[s].live => sale[s].status = "SUCCESS",
             NEW s \in Made, NEW i \in 1..2, sale[s].buyer[i] # Blank
      PROVE  LET live == LiveOf(i, sale[s].buyer[i]) IN
             /\ VotesIn(live) <= MaxPerVoter
             /\ \A c \in Contestants : VotesIn({l \in live : sale[l].contestant = c}) <= MaxOnContestant
             /\ Cardinality({l \in live : sale[l].package}) <= MaxPackages
  <2>1. PICK v : v = sale[s].buyer[i]
    OBVIOUS
  <2>2. Within(sale, i, v)
    <3>1. sale[s].buyer \in Buyers
      <4>1. sale[s] \in SaleRow
        BY DEF LimitsIInv, LimitsTypeOK, Made
      <4> QED
        BY <4>1, SaleFields
    <3> QED
      BY <1>2, <2>1, <3>1 DEF LimitsIInv, CapsHold, NoneLeft
  <2>3. /\ LiveOf(i, v) = LiveAt(sale, i, v)
        /\ (\A c : {l \in LiveOf(i, v) : sale[l].contestant = c} = LiveOn(sale, i, v, c))
        /\ {l \in LiveOf(i, v) : sale[l].package} = LivePacks(sale, i, v)
    BY DEF LiveOf, LiveAt, LiveOn, LivePacks, Made
  <2>4. LiveAt(sale, i, v) \in SUBSET Sales /\ \A c : LiveOn(sale, i, v, c) \in SUBSET Sales
    BY DEF LiveAt, LiveOn
  <2>5. VotesIn(LiveOf(i, v)) <= MaxPerVoter
    BY <2>2, <2>3, <2>4, VotesNow DEF Within
  <2>6. ASSUME NEW c \in Contestants PROVE VotesIn({l \in LiveOf(i, v) : sale[l].contestant = c}) <= MaxOnContestant
    BY <2>2, <2>3, <2>4, VotesNow DEF Within
  <2>7. Cardinality({l \in LiveOf(i, v) : sale[l].package}) <= MaxPackages
    BY <2>2, <2>3 DEF Within
  <2> QED
    BY <2>1, <2>5, <2>6, <2>7
<1> QED
  BY <1>1, <1>2 DEF LimitsHold

THEOREM LimitsInvariant == LimitsSpec => []LimitsIInv
  BY LimitsStart, LimitsStep, PTL DEF LimitsSpec

(* Sales, the checkout and the code's counter keep their types. *)
THEOREM LimitsTypeCorrect == LimitsSpec => []LimitsTypeOK
<1>1. LimitsIInv => LimitsTypeOK
  BY DEF LimitsIInv
<1> QED
  BY <1>1, LimitsInvariant, PTL

(* quote, credit_votes, _complete_refund: when purchases do not overlap and  *)
(* no refund leaves its votes, what counts for one email or one phone stays  *)
(* within every cap; the code's counter is exact, and then within its limit. *)
THEOREM CapsKept == LimitsSpec => []LimitsHold
  BY LimitsInvariant, LimitsFollow, PTL

-----------------------------------------------------------------------------
(* DataKeys: the inductive invariant.                                         *)

AllKeks == Keks \cup {Dev, Kms}
KeyRow == [active : BOOLEAN, kek : AllKeks]
KekConfig == {s \in [first : AllKeks, listed : SUBSET Keks] : s.first \in s.listed \cup {Dev, Kms}}
StoredValue == [plain : 0..MaxWrites, key : 0..MaxDataKeys]
KeysProcess == [with : KekConfig, cache : SUBSET Nat, active : 0..MaxDataKeys,
            creates : {"no", "found none", "cleared"}]
Rotation == [op : {"rotating"}, todo : SUBSET Columns, holds : Columns \cup {Dev},
             plain : 0..MaxWrites, key : 0..MaxDataKeys]

KeysTyped ==
    /\ careful \in BOOLEAN
    /\ keyring \in Seq(KeyRow) /\ Len(keyring) <= MaxDataKeys
    /\ stored \in [Columns -> StoredValue] /\ written \in [Columns -> 0..MaxWrites]
    /\ settings \in KekConfig /\ running \in [Processes -> KeysProcess]
    /\ command \in {NotRunning, [op |-> "creating"]} \cup Rotation

(* Data keys that are named exist, and of the active ones one is newest. *)
KeysNamed ==
    /\ \A c \in Columns : stored[c].key <= Len(keyring)
    /\ \A p \in Processes : running[p].active <= Len(keyring)
    /\ command \in Rotation => command.key <= Len(keyring)
    /\ ActiveRows # {} => \E k \in ActiveRows : \A l \in ActiveRows : l <= k

(* Every process unwraps every data key, and so does one that starts now. *)
AllUnwrap == \A k \in DOMAIN keyring :
    /\ Unwraps(settings, keyring[k].kek)
    /\ \A p \in Processes : Unwraps(running[p].with, keyring[k].kek)

(* When a data key may be created, all wrap it with the same KEK. *)
Creating == ActiveRows = {} \/ command # NotRunning \/ \E p \in Processes : running[p].creates # "no"
OneWraps == Creating => \A p \in Processes : running[p].with.first = settings.first

(* What the rotation has in hand is still what is stored. *)
HoldsValue(c) == command \in Rotation /\ command.holds = c /\ c # Dev
ValuesKept == careful => \A c \in Columns : stored[c].plain = written[c] /\ (HoldsValue(c) => command.plain = written[c])

KeysIInv == KeysTyped /\ KeysNamed /\ AllUnwrap /\ OneWraps /\ ValuesKept

-----------------------------------------------------------------------------
LEMMA UnwrapsFirst ==
  ASSUME NEW s \in KekConfig
  PROVE  Unwraps(s, s.first)
  BY DEF KekConfig, Unwraps

LEMMA NewestIsThere ==
  ASSUME KeysTyped, KeysNamed, ActiveRows # {}
  PROVE  Newest \in DOMAIN keyring /\ Newest \in 1..Len(keyring)
<1>1. Newest \in ActiveRows
  BY DEF Newest, KeysNamed
<1> QED
  BY <1>1 DEF ActiveRows, KeysTyped

(* A longer keyring still holds the data keys that are named. *)
LEMMA NamedStill ==
  ASSUME KeysTyped, KeysNamed, NEW n \in Nat, Len(keyring) <= n
  PROVE  /\ \A c \in Columns : stored[c].key <= n
         /\ \A p \in Processes : running[p].active <= n
         /\ command \in Rotation => command.key <= n
<1>0. MaxDataKeys \in Nat /\ Len(keyring) \in Nat
  BY DataKeysAssumption DEF KeysTyped
<1>1. ASSUME NEW c \in Columns PROVE stored[c].key <= n
  <2>1. stored[c] \in StoredValue
    BY DEF KeysTyped
  <2> QED
    BY <1>0, <2>1 DEF KeysNamed, StoredValue
<1>2. ASSUME NEW p \in Processes PROVE running[p].active <= n
  <2>1. running[p].active \in 0..MaxDataKeys /\ running[p].active <= Len(keyring)
    BY DEF KeysTyped, KeysNamed, KeysProcess
  <2> QED
    BY <1>0, <2>1
<1>3. ASSUME command \in Rotation PROVE command.key <= n
  BY <1>0, <1>3 DEF KeysNamed, Rotation
<1> QED
  BY <1>1, <1>2, <1>3

(* create_data_key adds a row every process unwraps. *)
LEMMA KeyAdded ==
  ASSUME KeysIInv, NEW with \in KekConfig, with.first = settings.first, Creating, Len(keyring) < MaxDataKeys,
         keyring' = WithNewKey(with), settings' = settings,
         \A p \in Processes : running'[p].with = running[p].with
  PROVE  /\ keyring' \in Seq(KeyRow) /\ Len(keyring') = Len(keyring) + 1 /\ Len(keyring') <= MaxDataKeys
         /\ \E k \in ActiveRows' : \A l \in ActiveRows' : l <= k
         /\ AllUnwrap'
<1>1. PICK row : row = [active |-> TRUE, kek |-> with.first]
  OBVIOUS
<1>2. row \in KeyRow /\ row.active /\ row.kek = settings.first
  BY <1>1 DEF KeyRow, KekConfig
<1>3. keyring \in Seq(KeyRow) /\ Len(keyring) \in Nat /\ keyring' = Append(keyring, row) /\ MaxDataKeys \in Nat
  BY <1>1, DataKeysAssumption DEF KeysIInv, KeysTyped, WithNewKey
<1>4. /\ keyring' \in Seq(KeyRow) /\ Len(keyring') = Len(keyring) + 1
      /\ DOMAIN keyring = 1..Len(keyring) /\ DOMAIN keyring' = 1..(Len(keyring) + 1)
      /\ keyring'[Len(keyring) + 1] = row
      /\ \A k \in DOMAIN keyring : keyring'[k] = keyring[k]
  BY <1>2, <1>3
<1>5. Len(keyring) + 1 \in ActiveRows' /\ \A l \in ActiveRows' : l <= Len(keyring) + 1
  BY <1>2, <1>3, <1>4 DEF ActiveRows
<1>6. ASSUME NEW k \in DOMAIN keyring'
      PROVE  /\ Unwraps(settings, keyring'[k].kek)
             /\ \A p \in Processes : Unwraps(running[p].with, keyring'[k].kek)
  <2>1. CASE k \in DOMAIN keyring
    BY <1>4, <2>1 DEF KeysIInv, AllUnwrap
  <2>2. CASE k = Len(keyring) + 1
    <3>1. settings \in KekConfig /\ \A p \in Processes : running[p].with \in KekConfig
      BY DEF KeysIInv, KeysTyped, KeysProcess
    <3>2. \A p \in Processes : running[p].with.first = settings.first
      BY DEF KeysIInv, OneWraps
    <3> QED
      BY <1>2, <1>4, <2>2, <3>1, <3>2, UnwrapsFirst
  <2> QED
    BY <1>3, <1>4, <2>1, <2>2
<1>7. AllUnwrap'
  BY <1>6 DEF AllUnwrap, Unwraps
<1> QED
  BY <1>3, <1>4, <1>5, <1>7

(* Rows that keep their KEK, or all get that of the settings. *)
LEMMA RowsCleared ==
  ASSUME KeysIInv, keyring' = Deactivated
  PROVE  /\ keyring' \in Seq(KeyRow) /\ Len(keyring') = Len(keyring) /\ DOMAIN keyring' = DOMAIN keyring
         /\ \A k \in DOMAIN keyring : keyring'[k].kek = keyring[k].kek
         /\ ActiveRows' = {}
<1>1. keyring \in Seq(KeyRow) /\ DOMAIN keyring = 1..Len(keyring) /\ Len(keyring) \in Nat
  BY DEF KeysIInv, KeysTyped
<1>2. \A k \in DOMAIN keyring : /\ keyring'[k] \in KeyRow /\ keyring'[k].kek = keyring[k].kek
                                /\ ~keyring'[k].active
  <2> SUFFICES ASSUME NEW k \in DOMAIN keyring
               PROVE  keyring'[k] \in KeyRow /\ keyring'[k].kek = keyring[k].kek /\ ~keyring'[k].active
    OBVIOUS
  <2>1. keyring[k] \in KeyRow /\ keyring'[k] = [keyring[k] EXCEPT !.active = FALSE]
    BY <1>1 DEF Deactivated
  <2> QED
    BY <2>1 DEF KeyRow
<1>3. keyring' \in [1..Len(keyring) -> KeyRow]
  <2>1. keyring' = [k \in 1..Len(keyring) |-> keyring'[k]]
    BY <1>1 DEF Deactivated
  <2> QED
    BY <1>1, <1>2, <2>1
<1>4. keyring' \in Seq(KeyRow) /\ Len(keyring') = Len(keyring) /\ DOMAIN keyring' = DOMAIN keyring
  BY <1>1, <1>3
<1> QED
  BY <1>2, <1>4 DEF ActiveRows

LEMMA RowsRewrapped ==
  ASSUME KeysIInv, keyring' = Rewrapped
  PROVE  /\ keyring' \in Seq(KeyRow) /\ Len(keyring') = Len(keyring) /\ DOMAIN keyring' = DOMAIN keyring
         /\ \A k \in DOMAIN keyring : keyring'[k].kek = settings.first
         /\ ActiveRows' = ActiveRows
<1>1. /\ keyring \in Seq(KeyRow) /\ DOMAIN keyring = 1..Len(keyring) /\ Len(keyring) \in Nat
      /\ settings.first \in AllKeks
  BY DEF KeysIInv, KeysTyped, KekConfig
<1>2. \A k \in DOMAIN keyring : /\ keyring'[k] \in KeyRow /\ keyring'[k].kek = settings.first
                                /\ keyring'[k].active = keyring[k].active
  <2> SUFFICES ASSUME NEW k \in DOMAIN keyring
               PROVE  /\ keyring'[k] \in KeyRow /\ keyring'[k].kek = settings.first
                      /\ keyring'[k].active = keyring[k].active
    OBVIOUS
  <2>1. keyring[k] \in KeyRow /\ keyring'[k] = [keyring[k] EXCEPT !.kek = settings.first]
    BY <1>1 DEF Rewrapped
  <2> QED
    BY <1>1, <2>1 DEF KeyRow
<1>3. keyring' \in [1..Len(keyring) -> KeyRow]
  <2>1. keyring' = [k \in 1..Len(keyring) |-> keyring'[k]]
    BY <1>1 DEF Rewrapped
  <2> QED
    BY <1>1, <1>2, <2>1
<1>4. keyring' \in Seq(KeyRow) /\ Len(keyring') = Len(keyring) /\ DOMAIN keyring' = DOMAIN keyring
  BY <1>1, <1>3
<1> QED
  BY <1>2, <1>4 DEF ActiveRows

-----------------------------------------------------------------------------
(* Processes. *)

LEMMA ProcessMoves ==
  ASSUME KeysTyped, NEW p \in Processes, NEW q \in KeysProcess, running' = [running EXCEPT ![p] = q]
  PROVE  /\ running' \in [Processes -> KeysProcess]
         /\ \A s \in Processes : running'[s] = IF s = p THEN q ELSE running[s]
  BY DEF KeysTyped

(* A process that only reads, or starts anew. *)
LEMMA ProcessQuiet ==
  ASSUME KeysIInv, NEW p \in Processes, NEW q \in KeysProcess, running' = [running EXCEPT ![p] = q],
         q.with = running[p].with \/ q.with = settings,
         q.active <= Len(keyring), q.creates # "no" => Creating,
         UNCHANGED <<careful, keyring, stored, settings, command, written>>
  PROVE  KeysIInv'
<1>1. /\ running' \in [Processes -> KeysProcess]
      /\ \A s \in Processes : running'[s] = IF s = p THEN q ELSE running[s]
  BY ProcessMoves DEF KeysIInv
<1>2. KeysTyped'
  BY <1>1 DEF KeysIInv, KeysTyped
<1>3. KeysNamed'
  BY <1>1 DEF KeysIInv, KeysNamed, ActiveRows
<1>4. AllUnwrap'
  <2>1. ASSUME NEW k \in DOMAIN keyring, NEW s \in Processes
        PROVE  Unwraps(settings, keyring[k].kek) /\ Unwraps(running'[s].with, keyring[k].kek)
    BY <1>1 DEF KeysIInv, AllUnwrap
  <2>2. AllUnwrap' = \A k \in DOMAIN keyring : /\ Unwraps(settings, keyring[k].kek)
                                              /\ \A s \in Processes : Unwraps(running'[s].with, keyring[k].kek)
    BY DEF AllUnwrap, Unwraps
  <2> QED
    BY <2>1, <2>2 DEF KeysIInv, AllUnwrap
<1>5. OneWraps'
  <2>1. Creating' => Creating
    BY <1>1 DEF Creating, ActiveRows
  <2> QED
    BY <1>1, <2>1 DEF KeysIInv, OneWraps
<1>6. ValuesKept'
  BY DEF KeysIInv, ValuesKept, HoldsValue
<1> QED
  BY <1>2, <1>3, <1>4, <1>5, <1>6 DEF KeysIInv

LEMMA ReadersKeep ==
  ASSUME KeysIInv, NEW p \in Processes, FirstUse(p) \/ Restarts(p) \/ \E c \in Columns : ReadsBack(p, c)
  PROVE  KeysIInv'
<1>0. running[p] \in KeysProcess /\ settings \in KekConfig /\ running[p].active <= Len(keyring)
      /\ MaxDataKeys \in Nat /\ Len(keyring) \in Nat
  BY DataKeysAssumption DEF KeysIInv, KeysTyped, KeysNamed
<1>1. CASE FirstUse(p)
  <2>1. PICK q : q = [running[p] EXCEPT !.creates = "found none"]
    OBVIOUS
  <2>2. q \in KeysProcess /\ q.with = running[p].with /\ q.active = running[p].active
    BY <1>0, <2>1 DEF KeysProcess
  <2>3. running' = [running EXCEPT ![p] = q] /\ Creating
        /\ UNCHANGED <<careful, keyring, stored, settings, command, written>>
    BY <1>1, <2>1 DEF FirstUse, Creating
  <2> QED
    BY <1>0, <2>2, <2>3, ProcessQuiet
<1>2. CASE Restarts(p)
  <2>1. PICK q : q = Started
    OBVIOUS
  <2>0. 0 \in 0..MaxDataKeys /\ {} \in SUBSET Nat /\ 0 <= Len(keyring)
    BY <1>0
  <2>2. q \in KeysProcess /\ q.with = settings /\ q.active = 0 /\ q.creates = "no"
    BY <1>0, <2>0, <2>1 DEF KeysProcess, Started
  <2>3. running' = [running EXCEPT ![p] = q]
        /\ UNCHANGED <<careful, keyring, stored, settings, command, written>>
    BY <1>2, <2>1 DEF Restarts
  <2>4. q.active <= Len(keyring) /\ (q.creates # "no" => Creating)
    BY <2>0, <2>2
  <2> QED
    BY <2>2, <2>3, <2>4, ProcessQuiet
<1>3. ASSUME NEW c \in Columns, ReadsBack(p, c) PROVE KeysIInv'
  <2>1. PICK q : q = [running[p] EXCEPT !.cache = @ \cup {stored[c].key}]
    OBVIOUS
  <2>2. stored[c].key \in Nat
    BY <1>0 DEF KeysIInv, KeysTyped, StoredValue
  <2>3. q \in KeysProcess /\ q.with = running[p].with /\ q.active = running[p].active /\ q.creates = running[p].creates
    BY <1>0, <2>1, <2>2 DEF KeysProcess
  <2>4. running' = [running EXCEPT ![p] = q]
        /\ UNCHANGED <<careful, keyring, stored, settings, command, written>>
    BY <1>3, <2>1 DEF ReadsBack
  <2>5. q.creates # "no" => Creating
    BY <2>3 DEF Creating
  <2> QED
    BY <1>0, <2>3, <2>4, <2>5, ProcessQuiet
<1> QED
  BY <1>1, <1>2, <1>3

LEMMA FirstUseClearsKeeps ==
  ASSUME KeysIInv, NEW p \in Processes, FirstUseClears(p)
  PROVE  KeysIInv'
<1>0. running[p] \in KeysProcess /\ running[p].creates = "found none"
  BY DEF KeysIInv, KeysTyped, FirstUseClears
<1>1. PICK q : q = [running[p] EXCEPT !.creates = "cleared"]
  OBVIOUS
<1>2. q \in KeysProcess /\ q.with = running[p].with /\ q.active = running[p].active
  BY <1>0, <1>1 DEF KeysProcess
<1>3. /\ running' = [running EXCEPT ![p] = q] /\ keyring' = Deactivated
      /\ UNCHANGED <<careful, stored, settings, command, written>>
  BY <1>1 DEF FirstUseClears
<1>4. /\ running' \in [Processes -> KeysProcess]
      /\ \A s \in Processes : running'[s] = IF s = p THEN q ELSE running[s]
  BY <1>2, <1>3, ProcessMoves DEF KeysIInv
<1>5. /\ keyring' \in Seq(KeyRow) /\ Len(keyring') = Len(keyring) /\ DOMAIN keyring' = DOMAIN keyring
      /\ \A k \in DOMAIN keyring : keyring'[k].kek = keyring[k].kek
      /\ ActiveRows' = {}
  BY <1>3, RowsCleared
<1>6. KeysTyped'
  BY <1>3, <1>4, <1>5 DEF KeysIInv, KeysTyped
<1>7. KeysNamed'
  BY <1>2, <1>3, <1>4, <1>5 DEF KeysIInv, KeysNamed
<1>8. AllUnwrap'
  BY <1>2, <1>3, <1>4, <1>5 DEF KeysIInv, AllUnwrap, Unwraps
<1>9. OneWraps'
  BY <1>0, <1>2, <1>3, <1>4 DEF KeysIInv, OneWraps, Creating
<1>10. ValuesKept'
  BY <1>3 DEF KeysIInv, ValuesKept, HoldsValue
<1> QED
  BY <1>6, <1>7, <1>8, <1>9, <1>10 DEF KeysIInv

LEMMA FirstUseEndsKeeps ==
  ASSUME KeysIInv, NEW p \in Processes, FirstUseEnds(p)
  PROVE  KeysIInv'
<1>0. running[p] \in KeysProcess /\ running[p].creates = "cleared" /\ Len(keyring) \in Nat /\ MaxDataKeys \in Nat
  BY DataKeysAssumption DEF KeysIInv, KeysTyped, FirstUseEnds
<1>1. PICK with : with = running[p].with
  OBVIOUS
<1>2. Creating
  BY <1>0 DEF Creating
<1>3. with \in KekConfig /\ with.first = settings.first
  BY <1>0, <1>1, <1>2 DEF KeysProcess, KeysIInv, OneWraps
<1>4. PICK n : n = Len(keyring) + 1
  OBVIOUS
<1>5. /\ keyring' = WithNewKey(with) /\ Len(keyring) < MaxDataKeys
      /\ UNCHANGED <<careful, stored, settings, command, written>>
  BY <1>1 DEF FirstUseEnds
<1>6. Len(keyring') = n
  BY <1>0, <1>4, <1>5 DEF WithNewKey, KeysIInv, KeysTyped
<1>7. PICK q : q = [running[p] EXCEPT !.creates = "no", !.cache = @ \cup {n}, !.active = n]
  OBVIOUS
<1>8. q \in KeysProcess /\ q.with = running[p].with /\ q.active = n /\ q.creates = "no"
  <2>1. n \in Nat /\ n \in 0..MaxDataKeys
    BY <1>0, <1>4, <1>5
  <2>2. running[p].cache \cup {n} \in SUBSET Nat
    BY <1>0, <2>1 DEF KeysProcess
  <2> QED
    BY <1>0, <1>7, <2>1, <2>2 DEF KeysProcess
<1>9. running' = [running EXCEPT ![p] = q]
  <2>1. running' = [running EXCEPT ![p].creates = "no", ![p].cache = @ \cup {n}, ![p].active = n]
    BY <1>6 DEF FirstUseEnds
  <2>2. running \in [Processes -> KeysProcess]
    BY DEF KeysIInv, KeysTyped
  <2>3. running' = [s \in Processes |-> IF s = p THEN q ELSE running[s]]
    BY <1>0, <1>7, <2>1, <2>2 DEF KeysProcess
  <2> QED
    BY <2>2, <2>3
<1>10. /\ running' \in [Processes -> KeysProcess]
       /\ \A s \in Processes : running'[s] = IF s = p THEN q ELSE running[s]
  BY <1>8, <1>9, ProcessMoves DEF KeysIInv
<1>11. \A s \in Processes : running'[s].with = running[s].with
  BY <1>8, <1>10
<1>12. /\ keyring' \in Seq(KeyRow) /\ Len(keyring') <= MaxDataKeys
       /\ \E k \in ActiveRows' : \A l \in ActiveRows' : l <= k
       /\ AllUnwrap'
  BY <1>2, <1>3, <1>5, <1>11, KeyAdded
<1>13. KeysTyped'
  BY <1>5, <1>10, <1>12 DEF KeysIInv, KeysTyped
<1>14. KeysNamed'
  <2> QED
    BY <1>0, <1>4, <1>5, <1>6, <1>8, <1>10, <1>12, NamedStill DEF KeysIInv, KeysNamed
<1>15. OneWraps'
  BY <1>2, <1>5, <1>11 DEF KeysIInv, OneWraps
<1>16. ValuesKept'
  BY <1>5 DEF KeysIInv, ValuesKept, HoldsValue
<1> QED
  BY <1>12, <1>13, <1>14, <1>15, <1>16 DEF KeysIInv

LEMMA WritesKeeps ==
  ASSUME KeysIInv, NEW p \in Processes, NEW c \in Columns, Writes(p, c)
  PROVE  KeysIInv'
<1>0. running[p] \in KeysProcess /\ Len(keyring) \in Nat /\ MaxDataKeys \in Nat /\ MaxWrites \in Nat
      /\ Len(keyring) <= MaxDataKeys
  BY DataKeysAssumption DEF KeysIInv, KeysTyped
<1>1. PICK key : key = IF running[p].active # 0 THEN running[p].active ELSE Newest
  OBVIOUS
<1>2. key \in 1..Len(keyring)
  <2>1. CASE running[p].active # 0
    <3>1. running[p].active \in 0..MaxDataKeys /\ running[p].active <= Len(keyring)
      BY <1>0 DEF KeysIInv, KeysNamed, KeysProcess
    <3> QED
      BY <1>0, <1>1, <2>1, <3>1
  <2>2. CASE running[p].active = 0
    BY <1>1, <2>2, NewestIsThere DEF Writes, KeysIInv
  <2> QED
    BY <2>1, <2>2
<1>3. key \in 0..MaxDataKeys /\ key <= Len(keyring) /\ key \in Nat
  BY <1>0, <1>2
<1>4. /\ stored' = [stored EXCEPT ![c] = [plain |-> written[c] + 1, key |-> key]]
      /\ written' = [written EXCEPT ![c] = written[c] + 1]
      /\ running' = [running EXCEPT ![p].active = key, ![p].cache = @ \cup {key}]
      /\ UNCHANGED <<careful, keyring, settings, command>>
      /\ written[c] < MaxWrites /\ (careful => ~InHand(c))
  BY <1>1 DEF Writes
<1>5. PICK q : q = [running[p] EXCEPT !.active = key, !.cache = @ \cup {key}]
  OBVIOUS
<1>6. q \in KeysProcess /\ q.with = running[p].with /\ q.active = key /\ q.creates = running[p].creates
  BY <1>0, <1>3, <1>5 DEF KeysProcess
<1>7. running' = [running EXCEPT ![p] = q]
  <2>1. running \in [Processes -> KeysProcess]
    BY DEF KeysIInv, KeysTyped
  <2>2. running' = [s \in Processes |-> IF s = p THEN q ELSE running[s]]
    BY <1>0, <1>4, <1>5, <2>1 DEF KeysProcess
  <2> QED
    BY <2>1, <2>2
<1>8. /\ running' \in [Processes -> KeysProcess]
      /\ \A s \in Processes : running'[s] = IF s = p THEN q ELSE running[s]
  BY <1>6, <1>7, ProcessMoves DEF KeysIInv
<1>9. written[c] \in 0..MaxWrites /\ written[c] + 1 \in 0..MaxWrites
  BY <1>0, <1>4 DEF KeysIInv, KeysTyped
<1>10. PICK value : value = [plain |-> written[c] + 1, key |-> key]
  OBVIOUS
<1>11. value \in StoredValue /\ value.plain = written[c] + 1 /\ value.key = key
  BY <1>3, <1>9, <1>10 DEF StoredValue
<1>12. /\ stored' \in [Columns -> StoredValue] /\ written' \in [Columns -> 0..MaxWrites]
       /\ \A d \in Columns : /\ stored'[d] = IF d = c THEN value ELSE stored[d]
                             /\ written'[d] = IF d = c THEN written[c] + 1 ELSE written[d]
  BY <1>4, <1>9, <1>10, <1>11 DEF KeysIInv, KeysTyped
<1>13. KeysTyped'
  BY <1>4, <1>8, <1>12 DEF KeysIInv, KeysTyped
<1>14. KeysNamed'
  BY <1>3, <1>4, <1>6, <1>8, <1>11, <1>12 DEF KeysIInv, KeysNamed, ActiveRows
<1>15. AllUnwrap'
  BY <1>4, <1>6, <1>8 DEF KeysIInv, AllUnwrap, Unwraps
<1>16. OneWraps'
  BY <1>4, <1>6, <1>8 DEF KeysIInv, OneWraps, Creating, ActiveRows
<1>17. ValuesKept'
  <2>1. ASSUME careful, NEW d \in Columns
        PROVE  stored'[d].plain = written'[d] /\ (HoldsValue(d) => command.plain = written'[d])
    <3>1. CASE d = c
      <4>1. ~HoldsValue(c)
        BY <1>4, <2>1 DEF InHand, HoldsValue, Rotation
      <4> QED
        BY <1>11, <1>12, <3>1, <4>1
    <3>2. CASE d # c
      BY <1>12, <2>1, <3>2 DEF KeysIInv, ValuesKept
    <3> QED
      BY <3>1, <3>2
  <2> QED
    BY <1>4, <2>1 DEF ValuesKept, HoldsValue
<1> QED
  BY <1>13, <1>14, <1>15, <1>16, <1>17 DEF KeysIInv

-----------------------------------------------------------------------------
(* keys rotate. *)

LEMMA RotatesKeeps ==
  ASSUME KeysIInv, Rotates
  PROVE  KeysIInv'
<1>1. /\ keyring' = Deactivated /\ command' = [op |-> "creating"]
      /\ UNCHANGED <<careful, stored, settings, running, written>>
  BY DEF Rotates
<1>2. /\ keyring' \in Seq(KeyRow) /\ Len(keyring') = Len(keyring) /\ DOMAIN keyring' = DOMAIN keyring
      /\ \A k \in DOMAIN keyring : keyring'[k].kek = keyring[k].kek
      /\ ActiveRows' = {}
  BY <1>1, RowsCleared
<1>3. command' \notin Rotation
  BY <1>1 DEF Rotation
<1>4. KeysTyped'
  BY <1>1, <1>2 DEF KeysIInv, KeysTyped
<1>5. KeysNamed'
  BY <1>1, <1>2, <1>3 DEF KeysIInv, KeysNamed
<1>6. AllUnwrap'
  BY <1>1, <1>2 DEF KeysIInv, AllUnwrap, Unwraps
<1>7. OneWraps'
  BY <1>1 DEF OneWraps, Rotates, AtRest, Deployed
<1>8. ValuesKept'
  BY <1>1, <1>3 DEF KeysIInv, ValuesKept, HoldsValue
<1> QED
  BY <1>4, <1>5, <1>6, <1>7, <1>8 DEF KeysIInv

LEMMA RotatesToKeeps ==
  ASSUME KeysIInv, RotatesTo \/ RotateAgain
  PROVE  KeysIInv'
<1>0. Len(keyring) \in Nat /\ MaxDataKeys \in Nat /\ MaxWrites \in Nat /\ settings \in KekConfig
  BY DataKeysAssumption DEF KeysIInv, KeysTyped
<1>1. /\ keyring' = WithNewKey(settings) /\ Len(keyring) < MaxDataKeys
      /\ UNCHANGED <<careful, stored, settings, running, written>>
  BY DEF RotatesTo, RotateAgain
<1>2. command # NotRunning
  BY DEF RotatesTo, RotateAgain, NotRunning
<1>3. Creating
  BY <1>2 DEF Creating
<1>4. /\ keyring' \in Seq(KeyRow) /\ Len(keyring') = Len(keyring) + 1 /\ Len(keyring') <= MaxDataKeys
      /\ \E k \in ActiveRows' : \A l \in ActiveRows' : l <= k
      /\ AllUnwrap'
  BY <1>0, <1>1, <1>3, KeyAdded
<1>5. PICK start : start = [op |-> "rotating", todo |-> Columns, holds |-> Dev, plain |-> 0, key |-> 0]
  OBVIOUS
<1>6. start \in Rotation /\ start.key = 0 /\ start.holds = Dev
  <2>1. 0 \in 0..MaxWrites /\ 0 \in 0..MaxDataKeys /\ Columns \in SUBSET Columns
    BY <1>0
  <2> QED
    BY <1>5, <2>1 DEF Rotation
<1>7. command' = start \/ command' = command
  BY <1>5 DEF RotatesTo, RotateAgain
<1>8. KeysTyped'
  BY <1>1, <1>4, <1>6, <1>7 DEF KeysIInv, KeysTyped
<1>9. KeysNamed'
  <2>1. PICK n \in Nat : n = Len(keyring) + 1
    BY <1>0
  <2>2. /\ \A c \in Columns : stored[c].key <= n
        /\ \A s \in Processes : running[s].active <= n
        /\ command \in Rotation => command.key <= n
    BY <1>0, <2>1, NamedStill DEF KeysIInv
  <2>3. command' \in Rotation => command'.key <= n
    BY <1>0, <1>6, <1>7, <2>1, <2>2
  <2> QED
    BY <1>1, <1>4, <2>1, <2>2, <2>3 DEF KeysNamed
<1>10. OneWraps'
  BY <1>1, <1>3 DEF KeysIInv, OneWraps
<1>11. ValuesKept'
  BY <1>1, <1>6, <1>7 DEF KeysIInv, ValuesKept, HoldsValue
<1> QED
  BY <1>4, <1>8, <1>9, <1>10, <1>11 DEF KeysIInv

(* Nothing but the command and a column moves, and every key is one there. *)
LEMMA CommandMoves ==
  ASSUME KeysIInv, UNCHANGED <<careful, keyring, settings, running, written>>, Creating,
         stored' \in [Columns -> StoredValue], \A c \in Columns : stored'[c].key <= Len(keyring),
         command' \in {NotRunning} \cup Rotation, command' \in Rotation => command'.key <= Len(keyring), ValuesKept'
  PROVE  KeysIInv'
<1>1. KeysTyped'
  BY DEF KeysIInv, KeysTyped
<1>2. KeysNamed'
  BY DEF KeysIInv, KeysNamed, ActiveRows
<1>3. AllUnwrap'
  BY DEF KeysIInv, AllUnwrap, Unwraps
<1>4. OneWraps'
  BY DEF KeysIInv, OneWraps
<1> QED
  BY <1>1, <1>2, <1>3, <1>4 DEF KeysIInv

LEMMA RotateReadKeeps ==
  ASSUME KeysIInv, NEW c \in Columns, RotateRead(c)
  PROVE  KeysIInv'
<1>1. command \in Rotation /\ command # NotRunning /\ command.holds = Dev
  BY DEF KeysIInv, KeysTyped, RotateRead, NotRunning
<1>2. PICK done : done = [command EXCEPT !.todo = @ \ {c}]
  OBVIOUS
<1>3. PICK read : read = [command EXCEPT !.holds = c, !.plain = stored[c].plain]
  OBVIOUS
<1>4. stored[c] \in StoredValue
  BY DEF KeysIInv, KeysTyped
<1>5. /\ done \in Rotation /\ done.key = command.key /\ done.holds = Dev
      /\ read \in Rotation /\ read.key = command.key /\ read.holds = c /\ read.plain = stored[c].plain
  BY <1>1, <1>2, <1>3, <1>4 DEF Rotation, StoredValue
<1>6. /\ command' = done \/ command' = read
      /\ UNCHANGED <<careful, keyring, stored, settings, running, written>>
  BY <1>2, <1>3 DEF RotateRead
<1>7. ValuesKept'
  BY <1>5, <1>6 DEF KeysIInv, ValuesKept, HoldsValue
<1>8. Creating /\ command.key <= Len(keyring)
  BY <1>1 DEF Creating, KeysIInv, KeysNamed
<1>9. stored' \in [Columns -> StoredValue] /\ \A d \in Columns : stored'[d].key <= Len(keyring)
  BY <1>6 DEF KeysIInv, KeysTyped, KeysNamed
<1> QED
  BY <1>5, <1>6, <1>7, <1>8, <1>9, CommandMoves

LEMMA RotateSaveKeeps ==
  ASSUME KeysIInv, RotateSave
  PROVE  KeysIInv'
<1>0. Len(keyring) \in Nat /\ MaxDataKeys \in Nat /\ Len(keyring) <= MaxDataKeys
  BY DataKeysAssumption DEF KeysIInv, KeysTyped
<1>1. command \in Rotation /\ command # NotRunning
  BY DEF KeysIInv, KeysTyped, RotateSave, NotRunning
<1>2. PICK h \in Columns : h = command.holds /\ h # Dev
  BY <1>1 DEF RotateSave, Rotation
<1>3. PICK key : key = IF command.key # 0 THEN command.key ELSE Newest
  OBVIOUS
<1>4. key \in 1..Len(keyring)
  <2>1. CASE command.key # 0
    <3>1. command.key \in 0..MaxDataKeys /\ command.key <= Len(keyring)
      BY <1>1 DEF KeysIInv, KeysNamed, Rotation
    <3> QED
      BY <1>0, <1>3, <2>1, <3>1
  <2>2. CASE command.key = 0
    BY <1>3, <2>2, NewestIsThere DEF RotateSave, KeysIInv
  <2> QED
    BY <2>1, <2>2
<1>5. key \in 0..MaxDataKeys /\ key <= Len(keyring)
  BY <1>0, <1>4
<1>6. PICK value : value = [plain |-> command.plain, key |-> key]
  OBVIOUS
<1>7. value \in StoredValue /\ value.plain = command.plain /\ value.key = key
  BY <1>1, <1>5, <1>6 DEF StoredValue, Rotation
<1>8. PICK next : next = [command EXCEPT !.todo = @ \ {command.holds}, !.holds = Dev, !.key = key]
  OBVIOUS
<1>9. next \in Rotation /\ next.key = key /\ next.holds = Dev
  BY <1>1, <1>5, <1>8 DEF Rotation
<1>10. /\ stored' = [stored EXCEPT ![h] = value] /\ command' = next
       /\ UNCHANGED <<careful, keyring, settings, running, written>>
  BY <1>2, <1>3, <1>6, <1>8 DEF RotateSave
<1>11. /\ stored' \in [Columns -> StoredValue]
       /\ \A d \in Columns : stored'[d] = IF d = h THEN value ELSE stored[d]
  BY <1>7, <1>10 DEF KeysIInv, KeysTyped
<1>12. \A d \in Columns : stored'[d].key <= Len(keyring)
  BY <1>5, <1>7, <1>11 DEF KeysIInv, KeysNamed
<1>13. careful => command.plain = written[h]
  BY <1>1, <1>2 DEF KeysIInv, ValuesKept, HoldsValue
<1>14. ValuesKept'
  BY <1>7, <1>9, <1>10, <1>11, <1>13 DEF KeysIInv, ValuesKept, HoldsValue
<1>15. Creating
  BY <1>1 DEF Creating
<1> QED
  BY <1>5, <1>9, <1>10, <1>11, <1>12, <1>14, <1>15, CommandMoves

LEMMA CommandEndsKeeps ==
  ASSUME KeysIInv, CommandEnds
  PROVE  KeysIInv'
<1>1. /\ command' = NotRunning /\ Creating
      /\ UNCHANGED <<careful, keyring, stored, settings, running, written>>
  BY DEF CommandEnds, Creating
<1>2. command' \notin Rotation
  BY <1>1 DEF NotRunning, Rotation
<1>3. ValuesKept'
  BY <1>1, <1>2 DEF KeysIInv, ValuesKept, HoldsValue
<1>4. stored' \in [Columns -> StoredValue] /\ \A d \in Columns : stored'[d].key <= Len(keyring)
  BY <1>1 DEF KeysIInv, KeysTyped, KeysNamed
<1> QED
  BY <1>1, <1>2, <1>3, <1>4, CommandMoves

-----------------------------------------------------------------------------
(* The runbook: a KEK is prepended, the keys re-wrapped, the old KEK removed. *)

LEMMA RewrapsKeeps ==
  ASSUME KeysIInv, Rewraps
  PROVE  KeysIInv'
<1>1. keyring' = Rewrapped /\ UNCHANGED <<careful, stored, settings, running, command, written>>
  BY DEF Rewraps
<1>2. /\ keyring' \in Seq(KeyRow) /\ Len(keyring') = Len(keyring) /\ DOMAIN keyring' = DOMAIN keyring
      /\ \A k \in DOMAIN keyring : keyring'[k].kek = settings.first
      /\ ActiveRows' = ActiveRows
  BY <1>1, RowsRewrapped
<1>3. Unwraps(settings, settings.first) /\ \A p \in Processes : running[p].with = settings
  BY UnwrapsFirst DEF KeysIInv, KeysTyped, Rewraps, AtRest, Deployed
<1>4. KeysTyped'
  BY <1>1, <1>2 DEF KeysIInv, KeysTyped
<1>5. KeysNamed'
  BY <1>1, <1>2 DEF KeysIInv, KeysNamed
<1>6. AllUnwrap'
  <2>1. ASSUME NEW k \in DOMAIN keyring', NEW p \in Processes
        PROVE  Unwraps(settings, keyring'[k].kek) /\ Unwraps(running[p].with, keyring'[k].kek)
    BY <1>2, <1>3
  <2>2. ASSUME NEW k \in DOMAIN keyring' PROVE Unwraps(settings, keyring'[k].kek)
    BY <1>2, <1>3
  <2> QED
    BY <1>1, <2>1, <2>2 DEF AllUnwrap, Unwraps
<1>7. OneWraps'
  BY <1>1, <1>2 DEF KeysIInv, OneWraps, Creating
<1>8. ValuesKept'
  BY <1>1 DEF KeysIInv, ValuesKept, HoldsValue
<1> QED
  BY <1>4, <1>5, <1>6, <1>7, <1>8 DEF KeysIInv

(* Settings that unwrap all keys replace the old ones. *)
LEMMA SettingsChange ==
  ASSUME KeysIInv, UNCHANGED <<careful, keyring, stored, running, command, written>>, settings' \in KekConfig,
         \A k \in DOMAIN keyring : Unwraps(settings', keyring[k].kek),
         settings'.first = settings.first \/ ~Creating
  PROVE  KeysIInv'
<1>1. KeysTyped'
  BY DEF KeysIInv, KeysTyped
<1>2. KeysNamed'
  BY DEF KeysIInv, KeysNamed, ActiveRows
<1>3. AllUnwrap'
  BY DEF KeysIInv, AllUnwrap, Unwraps
<1>4. OneWraps'
  BY DEF KeysIInv, OneWraps, Creating, ActiveRows
<1>5. ValuesKept'
  BY DEF KeysIInv, ValuesKept, HoldsValue
<1> QED
  BY <1>1, <1>2, <1>3, <1>4, <1>5 DEF KeysIInv

LEMMA PrependsKekKeeps ==
  ASSUME KeysIInv, NEW kek \in Keks \cup {Kms}, PrependsKek(kek)
  PROVE  KeysIInv'
<1>1. PICK s : s = [first |-> kek, listed |-> settings.listed \cup ({kek} \ {Kms})]
  OBVIOUS
<1>2. settings \in KekConfig /\ settings.listed \subseteq Keks
  BY DEF KeysIInv, KeysTyped, KekConfig
<1>3. s \in KekConfig /\ s.first = kek /\ settings.listed \subseteq s.listed
  <2>1. settings.listed \cup ({kek} \ {Kms}) \in SUBSET Keks /\ kek \in AllKeks
    BY <1>2 DEF AllKeks
  <2> QED
    BY <1>1, <2>1 DEF KekConfig
<1>4. /\ settings' = s /\ settings.first # Kms
      /\ UNCHANGED <<careful, keyring, stored, running, command, written>>
  BY <1>1 DEF PrependsKek
<1>5. \A k \in DOMAIN keyring : Unwraps(s, keyring[k].kek)
  BY <1>3, <1>4 DEF KeysIInv, AllUnwrap, Unwraps
<1>6. ~Creating
  BY DEF PrependsKek, AtRest, Creating
<1> QED
  BY <1>3, <1>4, <1>5, <1>6, SettingsChange

LEMMA RemovesOldKekKeeps ==
  ASSUME KeysIInv, RemovesOldKek
  PROVE  KeysIInv'
<1>1. PICK s : s = [settings EXCEPT !.listed = @ \cap {settings.first}]
  OBVIOUS
<1>2. settings \in KekConfig
  BY DEF KeysIInv, KeysTyped
<1>3. s \in KekConfig /\ s.first = settings.first
  BY <1>1, <1>2 DEF KekConfig
<1>4. settings' = s /\ UNCHANGED <<careful, keyring, stored, running, command, written>>
  BY <1>1 DEF RemovesOldKek
<1>5. \A k \in DOMAIN keyring : keyring[k].kek = s.first
  BY <1>3 DEF RemovesOldKek, StaleKeys
<1>6. \A k \in DOMAIN keyring : Unwraps(s, keyring[k].kek)
  BY <1>3, <1>5, UnwrapsFirst
<1> QED
  BY <1>3, <1>4, <1>6, SettingsChange

-----------------------------------------------------------------------------
LEMMA KeysStart == KeysInit => KeysIInv
<1> SUFFICES ASSUME KeysInit PROVE KeysIInv
  OBVIOUS
<1>0. 0 \in 0..MaxDataKeys /\ 0 \in 0..MaxWrites /\ 0 <= MaxDataKeys /\ MaxDataKeys \in Nat
  BY DataKeysAssumption
<1>1. keyring \in Seq(KeyRow) /\ Len(keyring) = 0 /\ DOMAIN keyring = {}
  BY DEF KeysInit
<1>2. settings \in KekConfig /\ \A c \in Columns : stored[c] \in StoredValue
  <2>1. {} \in SUBSET Keks /\ Dev \in AllKeks
    BY DEF AllKeks
  <2> QED
    BY <1>0, <2>1 DEF KeysInit, KekConfig, StoredValue
<1>3. \A p \in Processes : /\ running[p] \in KeysProcess /\ running[p].with = settings
                           /\ running[p].active = 0
  <2>1. {} \in SUBSET Nat
    OBVIOUS
  <2> QED
    BY <1>0, <1>2, <2>1 DEF KeysInit, Started, KeysProcess
<1>4. command = NotRunning /\ command \notin Rotation
  BY DEF KeysInit, NotRunning, Rotation
<1>5. KeysTyped
  <2>1. running \in [Processes -> KeysProcess]
    BY <1>3 DEF KeysInit
  <2>2. stored \in [Columns -> StoredValue] /\ written \in [Columns -> 0..MaxWrites]
    BY <1>0, <1>2 DEF KeysInit
  <2> QED
    BY <1>0, <1>1, <1>2, <1>4, <2>1, <2>2 DEF KeysInit, KeysTyped
<1>6. KeysNamed
  <2>1. ActiveRows = {}
    BY <1>1 DEF ActiveRows
  <2>2. \A c \in Columns : stored[c].key = 0
    BY DEF KeysInit
  <2> QED
    BY <1>1, <1>3, <1>4, <2>1, <2>2 DEF KeysNamed
<1>7. AllUnwrap
  BY <1>1 DEF AllUnwrap
<1>8. OneWraps
  BY <1>3 DEF OneWraps
<1>9. ValuesKept
  BY <1>4 DEF KeysInit, ValuesKept, HoldsValue
<1> QED
  BY <1>5, <1>6, <1>7, <1>8, <1>9 DEF KeysIInv

LEMMA KeysStep == KeysIInv /\ [KeysNext]_keyVars => KeysIInv'
<1> SUFFICES ASSUME KeysIInv, [KeysNext]_keyVars PROVE KeysIInv'
  OBVIOUS
<1>1. CASE UNCHANGED keyVars
  BY <1>1 DEF keyVars, KeysIInv, KeysTyped, KeysNamed, ActiveRows, AllUnwrap, Unwraps, OneWraps, Creating, ValuesKept, HoldsValue
<1>2. ASSUME NEW p \in Processes,
             \/ FirstUse(p) \/ FirstUseClears(p) \/ FirstUseEnds(p) \/ Restarts(p)
             \/ \E c \in Columns : Writes(p, c) \/ ReadsBack(p, c)
      PROVE  KeysIInv'
  BY <1>2, ReadersKeep, FirstUseClearsKeeps, FirstUseEndsKeeps, WritesKeeps
<1>3. ASSUME Rotates \/ RotatesTo \/ RotateSave \/ RotateAgain \/ CommandEnds \/ Rewraps \/ RemovesOldKek
      PROVE  KeysIInv'
  BY <1>3, RotatesKeeps, RotatesToKeeps, RotateSaveKeeps, CommandEndsKeeps, RewrapsKeeps, RemovesOldKekKeeps
<1>4. ASSUME NEW c \in Columns, RotateRead(c) PROVE KeysIInv'
  BY <1>4, RotateReadKeeps
<1>5. ASSUME NEW kek \in Keks \cup {Kms}, PrependsKek(kek) PROVE KeysIInv'
  BY <1>5, PrependsKekKeeps
<1> QED
  BY <1>1, <1>2, <1>3, <1>4, <1>5 DEF KeysNext

THEOREM KeysInvariant == KeysSpec => []KeysIInv
<1> QED
  BY KeysStart, KeysStep, PTL DEF KeysSpec

(* Every variable keeps its type: what is stored names a key and a value     *)
(* that were there, and the settings list only KEKs of the deployment.       *)
THEOREM KeysTypeCorrect == KeysSpec => []KeysTypeOK
<1>1. KeysIInv => KeysTypeOK
  BY DEF KeysIInv, KeysTyped, KeysTypeOK, KeyRow, KekConfig, StoredValue, AllKeks
<1> QED
  BY <1>1, KeysInvariant, PTL

(* OPERATIONS.md, replacing a KEK: every process can decrypt every value at  *)
(* any moment, and crypto/keys.py:do_rotate changes only ciphertext when no  *)
(* value is written between its read and its write.                          *)
THEOREM AlwaysReadable == KeysSpec => []KeysHold
<1>1. KeysIInv => KeysHold
  <2> SUFFICES ASSUME KeysIInv PROVE KeysHold
    OBVIOUS
  <2>1. ASSUME NEW c \in Columns, stored[c].key # 0
        PROVE  /\ \A p \in Processes : Loads(running[p], stored[c].key)
               /\ Unwraps(settings, keyring[stored[c].key].kek)
    <3>1. stored[c].key \in 0..MaxDataKeys /\ stored[c].key <= Len(keyring)
      BY DEF KeysIInv, KeysTyped, KeysNamed, StoredValue
    <3>2. stored[c].key \in DOMAIN keyring
      BY <2>1, <3>1, DataKeysAssumption DEF KeysIInv, KeysTyped
    <3> QED
      BY <3>2 DEF KeysIInv, AllUnwrap, Loads
  <2> QED
    BY <2>1 DEF KeysHold, Readable, WritesKept, KeysIInv, ValuesKept
<1> QED
  BY <1>1, KeysInvariant, PTL

-----------------------------------------------------------------------------
(* Roles: who is granted what, and the inductive invariant.                  *)

Request == {Waiting, [op |-> "personal"]} \cup [op : {"create"}, grant : Grant] \cup [op : {"delete"}, row : Rows]
RolesTyped == RolesTypeOK /\ task \in [Users -> Request]

(* No page makes an administrator of the platform. *)
NoneGranted ==
    /\ \A i \in Rows : rows[i] # NoRow => rows[i].role # "SUPER_ADMIN"
    /\ \A u \in Users : task[u].op = "create" => task[u].grant.role # "SUPER_ADMIN"

(* In order, one request is at work, and the row it deletes is not the last. *)
OneRequests == orderly => \A u, v \in Users : task[u] # Waiting /\ task[v] # Waiting => u = v
AnotherStays == orderly =>
    /\ \A o \in orgs : Admins(o) # {}
    /\ \A u \in Users : task[u].op = "delete" => \A o \in orgs : Admins(o) \ {task[u].row} # {}

RolesIInv == RolesTyped /\ NoneGranted /\ OneRequests /\ AnotherStays

LEMMA RolesDiffer == RoleCodes = {"SUPER_ADMIN", "ORG_ADMIN", "ELECTION_ADMIN", "ELECTION_REVIEWER", "VOTER"}
  BY DEF RoleCodes, RolePermissions

LEMMA PlatformIsApart ==
  /\ \A r \in RoleCodes : r # "SUPER_ADMIN" => "platform.admin" \notin RolePermissions[r]
  /\ "platform.admin" \notin OrganizerPermissions
  /\ \A r \in RoleCodes : RolePermissions[r] \subseteq Permissions
  BY RolesDiffer DEF RolePermissions, OrganizerPermissions, Permissions

LEMMA GrantsAreRows == NoRow \notin Grant
<1>1. \A g \in Grant : "role" \in DOMAIN g
  BY DEF Grant
<1>2. "role" \notin DOMAIN NoRow
  BY DEF NoRow
<1> QED
  BY <1>1, <1>2

LEMMA AdminIsGrant ==
  ASSUME NEW o \in Orgs, NEW u \in Users
  PROVE  /\ AdminOf(o, u) \in Grant /\ AdminOf(o, u).role = "ORG_ADMIN"
         /\ AdminOf(o, u).org = o /\ AdminOf(o, u).event = Everywhere
<1>1. "ORG_ADMIN" \in RoleCodes
  BY RolesDiffer
<1> QED
  BY <1>1 DEF AdminOf, Grant

LEMMA GrantedTo ==
  ASSUME NEW u \in Users, NEW e \in Events, u \notin PlatformStaff, NEW p
  PROVE  p \in OnEvent(u, e) <=>
            \/ \E a \in Assignments :
                  /\ a.user = u /\ p \in RolePermissions[a.role]
                  /\ \/ a.org = Everywhere /\ a.event = Everywhere
                     \/ a.event = e
                     \/ a.event = Everywhere /\ a.org = Owner[e] /\ a.org # Everywhere
            \/ p \in OrganizerPermissions /\ Organizer[e] = u
<1> DEFINE A == {b \in Assignments : b.user = u
                    /\ \/ b.org = Everywhere /\ b.event = Everywhere
                       \/ b.event = e
                       \/ b.event = Everywhere /\ b.org = Owner[e] /\ b.org # Everywhere}
           O == IF Organizer[e] = u THEN OrganizerPermissions ELSE {}
<1>1. OnEvent(u, e) = UNION ({RolePermissions[a.role] : a \in A} \cup {O})
  BY DEF OnEvent
<1>2. p \in OnEvent(u, e) <=> (\E a \in A : p \in RolePermissions[a.role]) \/ p \in O
  <2> HIDE DEF A, O
  <2> QED
    BY <1>1
<1>3. p \in O <=> p \in OrganizerPermissions /\ Organizer[e] = u
  OBVIOUS
<1> QED
  BY <1>2, <1>3

(* events_for_user lists what has_perm grants, whatever was granted.         *)
LEMMA ListedIsGranted ==
  ASSUME RolesTyped
  PROVE  ListsAgree
<1> SUFFICES ASSUME NEW u \in Users, NEW p \in Permissions
             PROVE  /\ EventsFor(u, p) = {e \in Events : p \in OnEvent(u, e)}
                    /\ OrgsFor(u, p) \subseteq {o \in Orgs : p \in OnOrg(u, o)}
  BY DEF ListsAgree
<1>0. orgs \subseteq Orgs /\ Everywhere \notin Orgs /\ Everywhere \notin Events
  BY RolesAssumption DEF RolesAssumption, RolesTyped, RolesTypeOK
<1>1. EventsFor(u, p) = {e \in Events : p \in OnEvent(u, e)}
  <2>1. CASE u \in PlatformStaff
    BY <2>1 DEF EventsFor, OnEvent
  <2>2. CASE u \notin PlatformStaff
    <3> DEFINE granted == {a \in Assignments : a.user = u /\ p \in RolePermissions[a.role]}
               platform == \E a \in granted : a.org = Everywhere /\ a.event = Everywhere
               eventIds == {a.event : a \in granted} \ {Everywhere}
               orgIds == {a.org : a \in {b \in granted : b.event = Everywhere}} \ {Everywhere}
    <3>1. EventsFor(u, p) = IF platform THEN Events
                            ELSE {e \in Events : \/ Owner[e] \in orgIds
                                                 \/ e \in eventIds
                                                 \/ p \in OrganizerPermissions /\ Organizer[e] = u}
      BY <2>2 DEF EventsFor
    <3>2. ASSUME NEW e \in Events
          PROVE  p \in OnEvent(u, e) <=> \/ platform \/ Owner[e] \in orgIds \/ e \in eventIds
                                         \/ p \in OrganizerPermissions /\ Organizer[e] = u
      <4>1. Owner[e] \in orgIds <=> \E a \in granted : a.event = Everywhere /\ a.org = Owner[e] /\ a.org # Everywhere
        OBVIOUS
      <4>2. e \in eventIds <=> \E a \in granted : a.event = e
        BY <1>0
      <4> QED
        BY <2>2, <4>1, <4>2, GrantedTo
    <3> HIDE DEF platform, eventIds, orgIds
    <3> QED
      BY <3>1, <3>2
  <2> QED
    BY <2>1, <2>2
<1>2. ASSUME NEW o \in OrgsFor(u, p) PROVE o \in Orgs /\ p \in OnOrg(u, o)
  <2>1. CASE u \in PlatformStaff
    BY <1>0, <2>1 DEF OrgsFor, OnOrg
  <2>2. CASE u \notin PlatformStaff
    <3>1. PICK b \in Assignments : b.user = u /\ b.event = Everywhere /\ p \in RolePermissions[b.role] /\ b.org = o
      BY <2>2 DEF OrgsFor
    <3>2. o \in Orgs
      BY <1>0, <2>2 DEF OrgsFor
    <3> QED
      BY <2>2, <3>1, <3>2 DEF OnOrg
  <2> QED
    BY <2>1, <2>2
<1> QED
  BY <1>1, <1>2

LEMMA RolesFollow == RolesIInv => ListsAgree /\ AdminsRemain
<1> SUFFICES ASSUME RolesIInv PROVE ListsAgree /\ AdminsRemain
  OBVIOUS
<1>1. ListsAgree
  BY ListedIsGranted DEF RolesIInv
<1>2. orderly => \A o \in orgs : Admins(o) # {}
  BY DEF RolesIInv, AnotherStays
<1>3. ASSUME NEW u \in Users \ PlatformStaff, NEW e \in Events PROVE "platform.admin" \notin OnEvent(u, e)
  <2>1. \A a \in Assignments : a.role \in RoleCodes /\ a.role # "SUPER_ADMIN"
    BY DEF RolesIInv, RolesTyped, RolesTypeOK, NoneGranted, Assignments, Grant
  <2> QED
    BY <2>1, GrantedTo, PlatformIsApart
<1> QED
  BY <1>1, <1>2, <1>3 DEF AdminsRemain

-----------------------------------------------------------------------------
(* Roles: the steps.                                                         *)

(* A request goes on to "todo", the table and the organizations stand.       *)
LEMMA RequestMoves ==
  ASSUME RolesIInv, NEW u \in Users, NEW todo \in Request, task' = [task EXCEPT ![u] = todo],
         UNCHANGED <<orderly, orgs, rows>>,
         todo.op = "create" => todo.grant.role # "SUPER_ADMIN",
         todo # Waiting /\ orderly => \A v \in Users : task[v] = Waiting,
         orderly /\ todo.op = "delete" => \A o \in orgs : Admins(o) \ {todo.row} # {}
  PROVE  RolesIInv'
<1>1. task \in [Users -> Request] /\ task' \in [Users -> Request]
  BY DEF RolesIInv, RolesTyped
<1>2. task'[u] = todo /\ \A v \in Users : v # u => task'[v] = task[v]
  BY <1>1
<1>3. RolesTyped'
  BY <1>1 DEF RolesIInv, RolesTyped, RolesTypeOK
<1>4. NoneGranted'
  BY <1>2 DEF RolesIInv, NoneGranted
<1>5. OneRequests'
  BY <1>2 DEF RolesIInv, OneRequests
<1>6. AnotherStays'
  <2>1. \A o : Admins(o)' = Admins(o)
    BY DEF Admins
  <2> QED
    BY <1>2, <2>1 DEF RolesIInv, AnotherStays
<1> QED
  BY <1>3, <1>4, <1>5, <1>6 DEF RolesIInv

(* A request ends: the table changes to "r", the organizations to "new".     *)
LEMMA RequestEnds ==
  ASSUME RolesIInv, NEW u \in Users, task[u] # Waiting, Finished(u), UNCHANGED orderly,
         NEW r \in [Rows -> Grant \cup {NoRow}], rows' = r, NEW new \in SUBSET Orgs, orgs' = new,
         \A i \in Rows : r[i] # NoRow => r[i].role # "SUPER_ADMIN",
         orderly => \A o \in new : \E i \in Rows : /\ r[i] # NoRow /\ r[i].role = "ORG_ADMIN"
                                                   /\ r[i].org = o /\ r[i].event = Everywhere
  PROVE  RolesIInv'
<1>1. task' \in [Users -> Request] /\ task'[u] = Waiting /\ \A v \in Users : v # u => task'[v] = task[v]
  BY DEF RolesIInv, RolesTyped, Finished, Request
<1>2. RolesTyped'
  BY <1>1 DEF RolesIInv, RolesTyped, RolesTypeOK
<1>3. Waiting.op = "waiting"
  BY DEF Waiting
<1>4. NoneGranted'
  BY <1>1, <1>3 DEF RolesIInv, NoneGranted
<1>5. OneRequests'
  BY <1>1 DEF RolesIInv, OneRequests
<1>6. AnotherStays'
  <2>1. orderly => \A v \in Users : task'[v].op # "delete"
    BY <1>1, <1>3 DEF RolesIInv, OneRequests
  <2> QED
    BY <2>1 DEF AnotherStays, Admins
<1> QED
  BY <1>2, <1>4, <1>5, <1>6 DEF RolesIInv

LEMMA GrantLookupKeeps ==
  ASSUME RolesIInv, NEW u \in Users, NEW g \in Grant, GrantLookup(u, g)
  PROVE  RolesIInv'
<1> DEFINE todo == [op |-> "create", grant |-> g]
<1>1. todo \in Request /\ todo.op = "create" /\ todo.grant = g
  BY DEF Request
<1>2. /\ task' = [task EXCEPT ![u] = todo] /\ UNCHANGED <<orderly, orgs, rows>>
      /\ g.role # "SUPER_ADMIN" /\ (orderly => \A v \in Users : task[v] = Waiting)
  BY DEF GrantLookup, Available
<1> HIDE DEF todo
<1> QED
  BY <1>1, <1>2, RequestMoves

LEMMA PersonalLookupKeeps ==
  ASSUME RolesIInv, NEW u \in Users, PersonalLookup(u)
  PROVE  RolesIInv'
<1> DEFINE todo == [op |-> "personal"]
<1>1. todo \in Request /\ todo.op = "personal"
  BY DEF Request
<1>2. /\ task' = [task EXCEPT ![u] = todo] /\ UNCHANGED <<orderly, orgs, rows>>
      /\ (orderly => \A v \in Users : task[v] = Waiting)
  BY DEF PersonalLookup, Available
<1> HIDE DEF todo
<1> QED
  BY <1>1, <1>2, RequestMoves

(* revoke_role: of two administrators one stays.                             *)
LEMMA RevokeCheckKeeps ==
  ASSUME RolesIInv, NEW u \in Users, NEW i \in Rows, RevokeCheck(u, i)
  PROVE  RolesIInv'
<1> DEFINE todo == [op |-> "delete", row |-> i]
<1>1. todo \in Request /\ todo.op = "delete" /\ todo.row = i
  BY DEF Request
<1>2. /\ task' = [task EXCEPT ![u] = todo] /\ UNCHANGED <<orderly, orgs, rows>>
      /\ ~LastAdmin(rows[i]) /\ (orderly => \A v \in Users : task[v] = Waiting)
  BY DEF RevokeCheck, Available
<1>3. ASSUME orderly, NEW o \in orgs PROVE Admins(o) \ {i} # {}
  <2>1. Admins(o) # {}
    BY <1>3 DEF RolesIInv, AnotherStays
  <2>2. SUFFICES ASSUME Admins(o) = {i} PROVE FALSE
    BY <2>1
  <2>3. rows[i].role = "ORG_ADMIN" /\ rows[i].org = o
    BY <2>2 DEF Admins
  <2>4. Cardinality(Admins(o)) = 1
    BY <2>2, FS_Singleton
  <2> QED
    BY <1>2, <2>3, <2>4 DEF LastAdmin
<1> HIDE DEF todo
<1> QED
  BY <1>1, <1>2, <1>3, RequestMoves

LEMMA RefusedKeeps ==
  ASSUME RolesIInv, NEW u \in Users, Refused(u)
  PROVE  RolesIInv'
<1>1. rows \in [Rows -> Grant \cup {NoRow}] /\ orgs \in SUBSET Orgs
  BY DEF RolesIInv, RolesTyped, RolesTypeOK
<1>2. /\ \A i \in Rows : rows[i] # NoRow => rows[i].role # "SUPER_ADMIN"
      /\ orderly => \A o \in orgs : \E i \in Rows : /\ rows[i] # NoRow /\ rows[i].role = "ORG_ADMIN"
                                                    /\ rows[i].org = o /\ rows[i].event = Everywhere
  BY DEF RolesIInv, NoneGranted, AnotherStays, Admins
<1>3. task[u] # Waiting /\ Finished(u) /\ UNCHANGED <<orderly, orgs, rows>>
  BY DEF Refused
<1>4. PICK r, new : r = rows /\ new = orgs
  OBVIOUS
<1> QED
  BY <1>1, <1>2, <1>3, <1>4, RequestEnds

LEMMA GrantCreateKeeps ==
  ASSUME RolesIInv, NEW u \in Users, GrantCreate(u)
  PROVE  RolesIInv'
<1>1. rows \in [Rows -> Grant \cup {NoRow}] /\ orgs \in SUBSET Orgs
  BY DEF RolesIInv, RolesTyped, RolesTypeOK
<1>2. task[u].op = "create" /\ task[u] # Waiting /\ task[u].grant \in Grant /\ task[u].grant.role # "SUPER_ADMIN"
  <2>1. task[u] \in Request /\ task[u].op = "create"
    BY DEF GrantCreate, RolesIInv, RolesTyped
  <2> QED
    BY <2>1 DEF Request, Waiting, RolesIInv, NoneGranted
<1>3. PICK g : g = task[u].grant
  OBVIOUS
<1>4. PICK r \in [Rows -> Grant \cup {NoRow}] :
         /\ rows' = r /\ (\A j \in Rows : rows[j] # NoRow => r[j] = rows[j])
         /\ (\A j \in Rows : r[j] # NoRow => r[j] = g \/ r[j] = rows[j])
  <2>1. CASE UNCHANGED rows
    BY <1>1, <2>1
  <2>2. CASE Insert(g)
    <3>1. PICK i \in Rows : rows[i] = NoRow /\ rows' = [rows EXCEPT ![i] = g]
      BY <2>2 DEF Insert
    <3> QED
      BY <1>1, <1>2, <1>3, <3>1
  <2> QED
    BY <1>3, <2>1, <2>2 DEF GrantCreate
<1>5. \A i \in Rows : r[i] # NoRow => r[i].role # "SUPER_ADMIN"
  BY <1>2, <1>3, <1>4 DEF RolesIInv, NoneGranted
<1>6. orderly => \A o \in orgs : \E i \in Rows : /\ r[i] # NoRow /\ r[i].role = "ORG_ADMIN"
                                                 /\ r[i].org = o /\ r[i].event = Everywhere
  BY <1>4 DEF RolesIInv, AnotherStays, Admins
<1>7. PICK new : new = orgs
  OBVIOUS
<1>8. Finished(u) /\ UNCHANGED <<orderly, orgs>>
  BY DEF GrantCreate
<1> QED
  BY <1>1, <1>2, <1>4, <1>5, <1>6, <1>7, <1>8, RequestEnds

LEMMA RevokeDeleteKeeps ==
  ASSUME RolesIInv, NEW u \in Users, RevokeDelete(u)
  PROVE  RolesIInv'
<1>1. rows \in [Rows -> Grant \cup {NoRow}] /\ orgs \in SUBSET Orgs
  BY DEF RolesIInv, RolesTyped, RolesTypeOK
<1>2. task[u].op = "delete" /\ task[u] # Waiting /\ task[u].row \in Rows
  <2>1. task[u] \in Request /\ task[u].op = "delete"
    BY DEF RevokeDelete, RolesIInv, RolesTyped
  <2> QED
    BY <2>1 DEF Request, Waiting
<1>3. PICK i \in Rows : i = task[u].row
  BY <1>2
<1>4. PICK r \in [Rows -> Grant \cup {NoRow}] : rows' = r /\ r[i] = NoRow /\ \A j \in Rows : j # i => r[j] = rows[j]
  BY <1>1, <1>3 DEF RevokeDelete
<1>5. \A j \in Rows : r[j] # NoRow => r[j].role # "SUPER_ADMIN"
  BY <1>4 DEF RolesIInv, NoneGranted
<1>6. ASSUME orderly, NEW o \in orgs
      PROVE  \E j \in Rows : /\ r[j] # NoRow /\ r[j].role = "ORG_ADMIN" /\ r[j].org = o /\ r[j].event = Everywhere
  <2>1. PICK j \in Admins(o) : j # i
    BY <1>2, <1>3, <1>6 DEF RolesIInv, AnotherStays
  <2> QED
    BY <1>4, <2>1 DEF Admins
<1>7. PICK new : new = orgs
  OBVIOUS
<1>8. Finished(u) /\ UNCHANGED <<orderly, orgs>>
  BY DEF RevokeDelete
<1> QED
  BY <1>1, <1>2, <1>4, <1>5, <1>6, <1>7, <1>8, RequestEnds

LEMMA PersonalCreateKeeps ==
  ASSUME RolesIInv, NEW u \in Users, PersonalCreate(u)
  PROVE  RolesIInv'
<1>1. rows \in [Rows -> Grant \cup {NoRow}] /\ orgs \in SUBSET Orgs
  BY DEF RolesIInv, RolesTyped, RolesTypeOK
<1>2. task[u] # Waiting
  BY DEF PersonalCreate, Waiting
<1>3. PICK o \in Orgs \ orgs : orgs' = orgs \cup {o} /\ Insert(AdminOf(o, u))
  BY DEF PersonalCreate
<1>4. PICK g : g = AdminOf(o, u) /\ g \in Grant /\ g.role = "ORG_ADMIN" /\ g.org = o /\ g.event = Everywhere
  BY AdminIsGrant
<1>5. PICK i \in Rows : rows[i] = NoRow /\ rows' = [rows EXCEPT ![i] = g]
  BY <1>3, <1>4 DEF Insert
<1>6. PICK r \in [Rows -> Grant \cup {NoRow}] : rows' = r /\ r[i] = g /\ \A j \in Rows : j # i => r[j] = rows[j]
  BY <1>1, <1>4, <1>5
<1>7. \A j \in Rows : r[j] # NoRow => r[j].role # "SUPER_ADMIN"
  BY <1>4, <1>6 DEF RolesIInv, NoneGranted
<1>8. PICK new \in SUBSET Orgs : new = orgs \cup {o}
  BY <1>1
<1>9. ASSUME orderly, NEW x \in new
      PROVE  \E j \in Rows : /\ r[j] # NoRow /\ r[j].role = "ORG_ADMIN" /\ r[j].org = x /\ r[j].event = Everywhere
  <2>1. CASE x = o
    BY <1>4, <1>6, <2>1, GrantsAreRows
  <2>2. CASE x \in orgs
    <3>1. PICK j \in Admins(x) : TRUE
      BY <1>9, <2>2 DEF RolesIInv, AnotherStays
    <3> QED
      BY <1>5, <1>6, <3>1 DEF Admins
  <2> QED
    BY <1>8, <2>1, <2>2
<1>10. Finished(u) /\ UNCHANGED orderly /\ orgs' = new
  BY <1>3, <1>8 DEF PersonalCreate
<1> QED
  BY <1>2, <1>6, <1>7, <1>9, <1>10, RequestEnds

LEMMA RolesStart == RolesInit => RolesIInv
<1> SUFFICES ASSUME RolesInit PROVE RolesIInv
  OBVIOUS
<1>1. FirstOrg \in Orgs /\ FirstAdmin \in Users /\ 1 \in Rows
  BY RolesAssumption DEF RolesAssumption
<1>2. PICK g : g = AdminOf(FirstOrg, FirstAdmin) /\ g \in Grant /\ g.role = "ORG_ADMIN" /\ g.org = FirstOrg /\ g.event = Everywhere
  BY <1>1, AdminIsGrant
<1>3. rows = [i \in Rows |-> IF i = 1 THEN g ELSE NoRow] /\ orgs = {FirstOrg} /\ \A u \in Users : task[u] = Waiting
  BY <1>2 DEF RolesInit
<1>4. RolesTyped
  BY <1>1, <1>2, <1>3 DEF RolesInit, RolesTyped, RolesTypeOK, Request
<1>5. NoneGranted /\ OneRequests
  BY <1>2, <1>3 DEF NoneGranted, OneRequests, Waiting
<1>6. AnotherStays
  <2>1. 1 \in Admins(FirstOrg)
    BY <1>1, <1>2, <1>3, GrantsAreRows DEF Admins
  <2> QED
    BY <1>3, <2>1 DEF AnotherStays, Waiting
<1> QED
  BY <1>4, <1>5, <1>6 DEF RolesIInv

LEMMA RolesStep == RolesIInv /\ [RolesNext]_rolesVars => RolesIInv'
<1> SUFFICES ASSUME RolesIInv, [RolesNext]_rolesVars PROVE RolesIInv'
  OBVIOUS
<1>1. ASSUME NEW u \in Users, NEW v \in Users, NEW role \in Grantable, NEW o \in Orgs, NEW e \in Events \cup {Everywhere},
             GrantLookup(u, [user |-> v, role |-> role, org |-> o, event |-> e])
      PROVE  RolesIInv'
  <2>1. [user |-> v, role |-> role, org |-> o, event |-> e] \in Grant
    BY RolesAssumption DEF RolesAssumption, Grant
  <2> QED
    BY <1>1, <2>1, GrantLookupKeeps
<1>2. ASSUME NEW u \in Users,
             GrantCreate(u) \/ RevokeDelete(u) \/ PersonalLookup(u) \/ PersonalCreate(u) \/ Refused(u)
      PROVE  RolesIInv'
  BY <1>2, GrantCreateKeeps, RevokeDeleteKeeps, PersonalLookupKeeps, PersonalCreateKeeps, RefusedKeeps
<1>3. ASSUME NEW u \in Users, NEW i \in Rows, RevokeCheck(u, i) PROVE RolesIInv'
  BY <1>3, RevokeCheckKeeps
<1>4. ASSUME UNCHANGED rolesVars PROVE RolesIInv'
  BY <1>4 DEF rolesVars, RolesIInv, RolesTyped, RolesTypeOK, NoneGranted, OneRequests, AnotherStays, Admins
<1> QED
  BY <1>1, <1>2, <1>3, <1>4 DEF RolesNext

THEOREM RolesInvariant == RolesSpec => []RolesIInv
  BY RolesStart, RolesStep, PTL DEF RolesSpec

(* Assignments, organizations and requests keep their types. *)
THEOREM RolesTypeCorrect == RolesSpec => []RolesTypeOK
<1>1. RolesIInv => RolesTypeOK
  BY DEF RolesIInv, RolesTyped
<1> QED
  BY <1>1, RolesInvariant, PTL

(* grant_role, revoke_role, events_for_user: after every change of the       *)
(* table the lists and the checks agree, nobody was made an administrator of *)
(* the platform and, when requests do not overlap, every organization keeps  *)
(* an administrator.                                                         *)
THEOREM AdministratorsStay == RolesSpec => RolesHold
<1>1. (ListsAgree /\ AdminsRemain)' => [rows' # rows => (ListsAgree /\ AdminsRemain)']_rolesVars
  OBVIOUS
<1> QED
  BY <1>1, RolesFollow, RolesInvariant, PTL DEF RolesHold

-----------------------------------------------------------------------------
(* Booth: the inductive invariant.                                           *)

AllOffices == UNION {Offices[e] : e \in Elections}
AnyMethod == (UNION {SignInMethods[e] : e \in Elections}) \cup CodeMethods \cup {"SSO"}
Purposes == {"VOTER_2FA", "VOTER_LOGIN", "VOTER_REGISTRATION"}
CodeRow == [voter : Voters, purpose : Purposes, channel : Channels,
            state : {"live", "used"}, guesses : Nat, at : Nat]
PassRow == [voter : Voters, status : {"ISSUED", "REVOKED", "CONSUMED"}, style : SUBSET AllOffices, until : Nat]
SignedIn == [voter : Voters, method : AnyMethod, mfa : BOOLEAN, at : Nat]
CodeSlot == [election : Elections, voter : Voters \cup {Nobody}, code : Nat, channel : Channels, purpose : Purposes]
InProgress == [token : Nat, style : SUBSET AllOffices, form : Nat]

BoothTyped ==
    /\ hour \in 0..LastHour /\ forms \in 0..MaxForms
    /\ voter \in [Voters -> OnRoll]
    /\ codes \in Seq(CodeRow) /\ passes \in Seq(PassRow)
    /\ signed \in [Elections -> {NotSigned} \cup SignedIn]
    /\ slot \in {NoSlot} \cup CodeSlot
    /\ progress \in [Elections -> InProgress]

Proved(v) == \E c \in DOMAIN codes : codes[c].voter = v /\ codes[c].state = "used"

(* Nobody's address is verified before they are on the roll. *)
RollSound == \A v \in Voters : voter[v].status = "ABSENT" => voter[v].verified = {}

(* Who is signed in is on this roll; a code they entered stands behind every *)
(* sign-in that counts as two factors.                                       *)
SignedFor(e, s) == s # NotSigned => /\ Home[s.voter] = e
                                    /\ s.mfa \/ s.method \in CodeMethods => Proved(s.voter)
SignedSound == \A e \in Elections : SignedFor(e, signed[e])

(* The code awaited was sent to the voter of the slot; where it is a second  *)
(* factor, it is that of whoever is signed in, or of somebody else who has   *)
(* no need of one.                                                           *)
SlotFits(t) ==
    /\ Home[t.voter] = t.election /\ voter[t.voter].status # "ABSENT"
    /\ t.code \in DOMAIN codes /\ codes[t.code].voter = t.voter
    /\ t.purpose = "VOTER_2FA" =>
         /\ t.election \in TwoFactor
         /\ \/ signed[t.election] = NotSigned
            \/ signed[t.election].voter = t.voter
            \/ Proved(signed[t.election].voter)
SlotSound == slot # NoSlot /\ slot.voter # Nobody => SlotFits(slot)

PassFits(row) == /\ Home[row.voter] \in TwoFactor => Proved(row.voter)
                 /\ row.style \subseteq BallotStyle(Home[row.voter], row.voter)
PassesSound == \A i \in DOMAIN passes : PassFits(passes[i])
TokensThere == \A e \in Elections : progress[e].token <= Len(passes)

(* Who cast a ballot has voted. *)
CastsSound == ConfirmedIsCast /\ \A b \in casts : b.voter \in Voters /\ voter[b.voter].status = "VOTED"

BoothIInv == BoothTyped /\ RollSound /\ SignedSound /\ SlotSound /\ PassesSound /\ TokensThere
             /\ CastsSound /\ NothingLeftBehind

-----------------------------------------------------------------------------
(* Booth: what each part rests on.                                           *)

LEMMA BoothNumbers ==
  /\ SessionTtl \in Nat /\ OtpLife \in Nat /\ PassTtl \in Nat /\ MaxGuesses \in Nat /\ MaxForms \in Nat /\ LastHour \in Nat
  /\ Nobody \notin Voters /\ Nobody \notin Elections
  /\ Home \in [Voters -> Elections]
  /\ \A e \in Elections : e \in Covered[e]
  BY BoothAssumption DEF BoothAssumption

LEMMA NotSignedIsNobody == ASSUME NEW s \in SignedIn PROVE s # NotSigned /\ s.voter \in Voters
  BY BoothNumbers DEF NotSigned, SignedIn

LEMMA CodesAreMethods == \A m \in CodeMethods : m \in AnyMethod
  BY DEF AnyMethod

(* The rows of codes: more of them, none unused again. *)
CodesGrow ==
    /\ codes' \in Seq(CodeRow)
    /\ \A i \in DOMAIN codes : /\ i \in DOMAIN codes' /\ codes'[i].voter = codes[i].voter
                               /\ codes[i].state = "used" => codes'[i].state = "used"
(* The roll: nobody leaves it, unverifies an address or takes back a vote.   *)
RollGrows ==
    /\ voter' \in [Voters -> OnRoll] /\ RollSound'
    /\ \A v \in Voters : /\ voter[v].verified \subseteq voter'[v].verified
                         /\ voter[v].status # "ABSENT" => voter'[v].status # "ABSENT"
                         /\ voter[v].status = "VOTED" => voter'[v].status = "VOTED"

LEMMA CodesStand ==
  ASSUME BoothIInv, UNCHANGED codes
  PROVE  CodesGrow
  BY DEF BoothIInv, BoothTyped, CodesGrow

LEMMA RollStands ==
  ASSUME BoothIInv, UNCHANGED voter
  PROVE  RollGrows
  BY DEF BoothIInv, BoothTyped, RollGrows, RollSound

LEMMA StillProved ==
  ASSUME CodesGrow, NEW v, Proved(v)
  PROVE  Proved(v)'
  BY DEF CodesGrow, Proved

LEMMA StyleGrows ==
  ASSUME RollGrows, NEW e, NEW v \in Voters
  PROVE  BallotStyle(e, v) \subseteq BallotStyle(e, v)'
<1>1. voter[v].verified \subseteq voter'[v].verified
  BY DEF RollGrows
<1>2. ASSUME NEW rule, RulePasses(rule, v) PROVE RulePasses(rule, v)'
  BY <1>1, <1>2 DEF RulePasses
<1>3. ASSUME NEW o, Passes(o, v) PROVE Passes(o, v)'
  BY <1>2, <1>3 DEF Passes
<1> QED
  BY <1>3 DEF BallotStyle

LEMMA CodeSent ==
  ASSUME BoothIInv, NEW v \in Voters, NEW channel \in Channels, NEW purpose \in Purposes, Sends(v, channel, purpose)
  PROVE  /\ CodesGrow /\ Len(codes') \in DOMAIN codes' /\ Len(codes') \in Nat
         /\ codes'[Len(codes')].voter = v
<1> DEFINE row == [voter |-> v, purpose |-> purpose, channel |-> channel, state |-> "live", guesses |-> 0, at |-> hour]
<1>1. codes \in Seq(CodeRow) /\ hour \in Nat
  BY BoothNumbers DEF BoothIInv, BoothTyped
<1>2. row \in CodeRow /\ row.voter = v
  BY <1>1 DEF CodeRow
<1>3. codes' = Append(codes, row)
  BY DEF Sends
<1> HIDE DEF row
<1>4. /\ codes' \in Seq(CodeRow) /\ Len(codes') = Len(codes) + 1 /\ Len(codes) \in Nat
      /\ DOMAIN codes = 1..Len(codes) /\ DOMAIN codes' = 1..Len(codes')
      /\ codes'[Len(codes')] = row /\ \A i \in 1..Len(codes) : codes'[i] = codes[i]
  BY <1>1, <1>2, <1>3, AppendProperties
<1> QED
  BY <1>2, <1>4 DEF CodesGrow

LEMMA PassFitsStill ==
  ASSUME CodesGrow, RollGrows, NEW row \in PassRow, PassFits(row)
  PROVE  PassFits(row)'
<1>1. PICK v \in Voters : v = row.voter
  BY DEF PassRow
<1>2. (Home[v] \in TwoFactor => Proved(v)) /\ row.style \subseteq BallotStyle(Home[v], v)
  BY <1>1 DEF PassFits
<1>3. (Proved(v) => Proved(v)') /\ BallotStyle(Home[v], v) \subseteq BallotStyle(Home[v], v)'
  BY StillProved, StyleGrows
<1> QED
  BY <1>1, <1>2, <1>3 DEF PassFits

LEMMA PassesStand ==
  ASSUME BoothIInv, CodesGrow, RollGrows, UNCHANGED passes
  PROVE  PassesSound' /\ passes' \in Seq(PassRow) /\ Len(passes') = Len(passes)
<1>1. passes \in Seq(PassRow)
  BY DEF BoothIInv, BoothTyped
<1>2. \A row \in PassRow : PassFits(row) => PassFits(row)'
  BY PassFitsStill
<1>3. \A i \in DOMAIN passes : passes[i] \in PassRow /\ PassFits(passes[i])
  BY <1>1 DEF BoothIInv, PassesSound
<1>4. PICK p : p = passes /\ p = passes'
  OBVIOUS
<1>5. \A i \in DOMAIN p : PassFits(p[i])'
  BY <1>2, <1>3, <1>4
<1> QED
  BY <1>1, <1>4, <1>5 DEF PassesSound

LEMMA CastsStand ==
  ASSUME BoothIInv, RollGrows, UNCHANGED casts
  PROVE  CastsSound'
<1>1. \A b \in casts : b.voter \in Voters /\ voter'[b.voter].status = "VOTED"
  BY DEF BoothIInv, CastsSound, RollGrows
<1>2. ASSUME NEW b \in casts PROVE b.style \subseteq BallotStyle(Home[b.voter], b.voter)'
  <2>1. PICK v \in Voters : v = b.voter
    BY <1>1
  <2>2. b.style \subseteq BallotStyle(Home[v], v)
    BY <2>1 DEF BoothIInv, CastsSound, ConfirmedIsCast
  <2> QED
    BY <2>1, <2>2, StyleGrows
<1> QED
  BY <1>1, <1>2 DEF BoothIInv, CastsSound, ConfirmedIsCast

(* A session of one election becomes "s", of a voter who is on its roll.     *)
LEMMA SignedForStill ==
  ASSUME CodesGrow, NEW e, NEW s, SignedFor(e, s)
  PROVE  SignedFor(e, s)'
<1>1. PICK v : v = s.voter
  OBVIOUS
<1>2. Proved(v) => Proved(v)'
  BY StillProved
<1> QED
  BY <1>1, <1>2 DEF SignedFor

LEMMA SignedMoves ==
  ASSUME BoothIInv, CodesGrow, NEW e \in Elections, NEW s \in {NotSigned} \cup SignedIn,
         signed' = [signed EXCEPT ![e] = s], SignedFor(e, s)'
  PROVE  SignedSound' /\ signed' \in [Elections -> {NotSigned} \cup SignedIn]
<1>1. PICK z : z = signed' /\ z \in [Elections -> {NotSigned} \cup SignedIn] /\ z[e] = s
               /\ \A f \in Elections : f # e => z[f] = signed[f]
  BY DEF BoothIInv, BoothTyped
<1>2. ASSUME NEW f \in Elections, f # e PROVE SignedFor(f, z[f])'
  <2>1. SignedFor(f, z[f])
    BY <1>1, <1>2 DEF BoothIInv, SignedSound
  <2> QED
    BY <2>1, SignedForStill
<1>3. \A f \in Elections : SignedFor(f, z[f])'
  BY <1>1, <1>2
<1> QED
  BY <1>1, <1>3 DEF SignedSound

LEMMA SignedStands ==
  ASSUME BoothIInv, CodesGrow, UNCHANGED signed
  PROVE  SignedSound' /\ signed' \in [Elections -> {NotSigned} \cup SignedIn]
<1>1. PICK z : z = signed /\ z = signed'
  OBVIOUS
<1>2. ASSUME NEW f \in Elections PROVE SignedFor(f, z[f])'
  <2>1. SignedFor(f, z[f])
    BY <1>1 DEF BoothIInv, SignedSound
  <2> QED
    BY <2>1, SignedForStill
<1> QED
  BY <1>1, <1>2 DEF SignedSound, BoothIInv, BoothTyped

(* The slot stands while nobody comes in without a code where two factors    *)
(* are required.                                                             *)
LEMMA SlotStands ==
  ASSUME BoothIInv, CodesGrow, RollGrows, UNCHANGED slot,
         NEW z \in [Elections -> {NotSigned} \cup SignedIn], signed' = z,
         \A e \in Elections : e \in TwoFactor =>
            z[e] = NotSigned \/ Proved(z[e].voter)' \/ (signed[e] # NotSigned /\ z[e].voter = signed[e].voter)
  PROVE  SlotSound' /\ slot' \in {NoSlot} \cup CodeSlot
<1>1. slot \in {NoSlot} \cup CodeSlot
  BY DEF BoothIInv, BoothTyped
<1>2. SUFFICES ASSUME slot # NoSlot, slot.voter # Nobody PROVE SlotSound'
  BY <1>1 DEF SlotSound
<1>3. PICK t \in CodeSlot : t = slot /\ t = slot' /\ t.voter \in Voters /\ t.election \in Elections
  BY <1>1, <1>2 DEF CodeSlot
<1>4. SlotFits(t)
  BY <1>2, <1>3 DEF BoothIInv, SlotSound
<1>5. t.code \in DOMAIN codes' /\ codes'[t.code].voter = t.voter /\ voter'[t.voter].status # "ABSENT"
  BY <1>3, <1>4 DEF SlotFits, CodesGrow, RollGrows
<1>6. ASSUME t.purpose = "VOTER_2FA"
      PROVE  /\ t.election \in TwoFactor
             /\ z[t.election] = NotSigned \/ z[t.election].voter = t.voter \/ Proved(z[t.election].voter)'
  <2>1. PICK e, v : e = t.election /\ v = z[e].voter
    OBVIOUS
  <2>2. /\ e \in TwoFactor
        /\ signed[e] = NotSigned \/ signed[e].voter = t.voter \/ Proved(signed[e].voter)
    BY <1>4, <1>6, <2>1 DEF SlotFits
  <2>3. Proved(v) => Proved(v)'
    BY StillProved
  <2> QED
    BY <1>3, <2>1, <2>2, <2>3
<1>7. SlotFits(t)'
  BY <1>4, <1>5, <1>6 DEF SlotFits
<1> QED
  BY <1>3, <1>7 DEF SlotSound

(* A code was sent to the voter of the new slot. *)
LEMMA SlotAwaits ==
  ASSUME BoothIInv, NEW e \in Elections, NEW v \in Voters, NEW channel \in Channels, NEW purpose \in Purposes,
         Sends(v, channel, purpose), Awaits(e, v, channel, purpose), Home[v] = e, voter'[v].status # "ABSENT",
         purpose = "VOTER_2FA" =>
            /\ e \in TwoFactor
            /\ signed'[e] = NotSigned \/ signed'[e].voter = v \/ Proved(signed[e].voter)'
  PROVE  SlotSound' /\ slot' \in {NoSlot} \cup CodeSlot
<1>1. Len(codes') \in DOMAIN codes' /\ Len(codes') \in Nat /\ codes'[Len(codes')].voter = v
  BY CodeSent
<1>2. PICK t : t = [election |-> e, voter |-> v, code |-> Len(codes'), channel |-> channel, purpose |-> purpose]
  OBVIOUS
<1>3. slot' = t /\ t \in CodeSlot
  BY <1>1, <1>2 DEF Awaits, CodeSlot
<1>4. t.election = e /\ t.voter = v /\ t.purpose = purpose /\ t.code = Len(codes')
  BY <1>2
<1>5. SlotFits(t)'
  BY <1>1, <1>4 DEF SlotFits
<1> QED
  BY <1>3, <1>5 DEF SlotSound

(* The ballots in progress stand while nobody is signed out. *)
LEMMA ProgressStands ==
  ASSUME BoothIInv, UNCHANGED progress, Len(passes') = Len(passes),
         \A e \in Elections : signed'[e] = NotSigned => signed[e] = NotSigned
  PROVE  TokensThere' /\ NothingLeftBehind' /\ progress' \in [Elections -> InProgress]
  BY DEF BoothIInv, BoothTyped, TokensThere, NothingLeftBehind

LEMMA LogsOut ==
  ASSUME BoothIInv, CodesGrow, NEW e \in Elections, LogoutVoter(e), Len(passes') = Len(passes)
  PROVE  /\ SignedSound' /\ signed' \in [Elections -> {NotSigned} \cup SignedIn]
         /\ signed'[e] = NotSigned /\ \A f \in Elections : f # e => signed'[f] = signed[f]
         /\ TokensThere' /\ NothingLeftBehind' /\ progress' \in [Elections -> InProgress]
<1>1. signed' = [signed EXCEPT ![e] = NotSigned]
  BY DEF LogoutVoter
<1>2. SignedFor(e, NotSigned)'
  BY DEF SignedFor
<1>3. SignedSound' /\ signed' \in [Elections -> {NotSigned} \cup SignedIn]
  BY <1>1, <1>2, SignedMoves
<1>4. signed'[e] = NotSigned /\ \A f \in Elections : f # e => signed'[f] = signed[f]
  BY <1>1 DEF BoothIInv, BoothTyped
<1>5. NoBallot \in InProgress /\ NoBallot.token = 0
  BY DEF NoBallot, InProgress
<1>6. \A f \in Elections : progress'[f] = IF f \in Covered[e] THEN NoBallot ELSE progress[f]
  BY DEF LogoutVoter
<1>7. progress' \in [Elections -> InProgress]
  BY <1>5 DEF LogoutVoter, BoothIInv, BoothTyped
<1>8. TokensThere'
  <2>1. Len(passes) \in Nat
    BY DEF BoothIInv, BoothTyped
  <2> QED
    BY <1>5, <1>6, <2>1 DEF BoothIInv, TokensThere
<1>9. NothingLeftBehind'
  BY <1>4, <1>6, BoothNumbers DEF BoothIInv, NothingLeftBehind
<1> QED
  BY <1>3, <1>4, <1>7, <1>8, <1>9

(* The session is sound again ... *)
Session == /\ signed \in [Elections -> {NotSigned} \cup SignedIn] /\ slot \in {NoSlot} \cup CodeSlot
           /\ progress \in [Elections -> InProgress]
           /\ SignedSound /\ SlotSound /\ TokensThere /\ NothingLeftBehind

(* ... and so is the rest, while no token is issued and no ballot cast. *)
LEMMA SessionIsAll ==
  ASSUME BoothIInv, CodesGrow, RollGrows, Session', UNCHANGED <<passes, casts>>,
         hour' \in 0..LastHour, forms' \in 0..MaxForms
  PROVE  BoothIInv'
<1>1. PassesSound' /\ passes' \in Seq(PassRow) /\ CastsSound'
  BY PassesStand, CastsStand
<1> QED
  BY <1>1 DEF BoothIInv, BoothTyped, Session, CodesGrow, RollGrows

(* Signed in by "method", which is not a code: if a second factor is needed, *)
(* a code is sent or the voter is signed out.                                *)
LEMMA AfterPrimaryAuthKeeps ==
  ASSUME BoothIInv, RollGrows, NEW e \in Elections, NEW v \in Voters, NEW method \in AnyMethod \ CodeMethods,
         Home[v] = e, voter'[v].status # "ABSENT", AfterPrimaryAuth(e, v, method), UNCHANGED passes
  PROVE  CodesGrow /\ Session'
<1>0. hour \in Nat
  BY BoothNumbers DEF BoothIInv, BoothTyped
<1>1. PICK s : s = [voter |-> v, method |-> method, mfa |-> FALSE, at |-> hour]
  OBVIOUS
<1>2. s \in SignedIn /\ s.voter = v /\ ~s.mfa /\ s.method = method /\ s # NotSigned
  <2>1. s \in SignedIn /\ s.voter = v /\ ~s.mfa /\ s.method = method
    BY <1>0, <1>1 DEF SignedIn
  <2> QED
    BY <2>1, NotSignedIsNobody
<1>3. SignedFor(e, s)'
  BY <1>2 DEF SignedFor
<1>4. ASSUME LoginVoter(e, v, method, FALSE), CodesGrow, UNCHANGED progress
      PROVE  /\ SignedSound' /\ signed' \in [Elections -> {NotSigned} \cup SignedIn]
             /\ signed'[e] = s /\ (\A f \in Elections : f # e => signed'[f] = signed[f])
             /\ TokensThere' /\ NothingLeftBehind' /\ progress' \in [Elections -> InProgress]
  <2>1. signed' = [signed EXCEPT ![e] = s]
    BY <1>1, <1>4 DEF LoginVoter
  <2>2. SignedSound' /\ signed' \in [Elections -> {NotSigned} \cup SignedIn]
    BY <1>2, <1>3, <1>4, <2>1, SignedMoves
  <2>3. signed'[e] = s /\ \A f \in Elections : f # e => signed'[f] = signed[f]
    BY <2>1 DEF BoothIInv, BoothTyped
  <2>4. TokensThere' /\ NothingLeftBehind' /\ progress' \in [Elections -> InProgress]
    <3>1. \A f \in Elections : signed'[f] = NotSigned => signed[f] = NotSigned
      BY <1>2, <2>3
    <3> QED
      BY <1>4, <3>1, ProgressStands
  <2> QED
    BY <2>2, <2>3, <2>4
<1>5. CASE ~NeedsSecondFactor(e, method, FALSE)
  <2>1. LoginVoter(e, v, method, FALSE) /\ UNCHANGED <<codes, slot, progress>> /\ e \notin TwoFactor
    BY <1>5 DEF AfterPrimaryAuth, NeedsSecondFactor
  <2>2. CodesGrow
    BY <2>1, CodesStand
  <2>3. PICK z \in [Elections -> {NotSigned} \cup SignedIn] :
           z = signed' /\ z[e] = s /\ (\A f \in Elections : f # e => z[f] = signed[f])
    BY <1>4, <2>1, <2>2
  <2>4. \A f \in Elections : f \in TwoFactor =>
           z[f] = NotSigned \/ Proved(z[f].voter)' \/ (signed[f] # NotSigned /\ z[f].voter = signed[f].voter)
    BY <2>1, <2>3
  <2>5. SlotSound' /\ slot' \in {NoSlot} \cup CodeSlot
    BY <2>1, <2>2, <2>3, <2>4, SlotStands
  <2> QED
    BY <1>4, <2>1, <2>2, <2>5 DEF Session
<1>6. CASE NeedsSecondFactor(e, method, FALSE)
  <2>0. PICK channel \in Channels :
           \/ /\ Sends(v, channel, "VOTER_2FA") /\ Awaits(e, v, channel, "VOTER_2FA")
              /\ LoginVoter(e, v, method, FALSE) /\ UNCHANGED progress
           \/ /\ RefusesToSend(v, channel, "VOTER_2FA") /\ NoCodeSent(e, v, method)
              /\ UNCHANGED slot
    <3>1. PICK channel : channel = IF "EMAIL" \in Contacts[v] THEN "EMAIL" ELSE "SMS"
      OBVIOUS
    <3>2. channel \in Channels
      BY <3>1 DEF Channels
    <3> QED
      BY <1>6, <3>1, <3>2 DEF AfterPrimaryAuth
  <2>1. CASE /\ Sends(v, channel, "VOTER_2FA") /\ Awaits(e, v, channel, "VOTER_2FA")
             /\ LoginVoter(e, v, method, FALSE) /\ UNCHANGED progress
    <3>1. "VOTER_2FA" \in Purposes
      BY DEF Purposes
    <3>2. CodesGrow
      BY <2>1, <3>1, CodeSent
    <3>3. signed'[e].voter = v
      BY <1>2, <1>4, <2>1, <3>2
    <3>4. e \in TwoFactor
      BY <1>6 DEF NeedsSecondFactor
    <3>5. SlotSound' /\ slot' \in {NoSlot} \cup CodeSlot
      BY <2>1, <3>1, <3>3, <3>4, SlotAwaits
    <3> QED
      BY <1>4, <2>1, <3>2, <3>5 DEF Session
  <2>2. CASE /\ RefusesToSend(v, channel, "VOTER_2FA") /\ NoCodeSent(e, v, method)
             /\ UNCHANGED slot
    <3>1. LogoutVoter(e) /\ UNCHANGED codes
      BY <2>2 DEF RefusesToSend, NoCodeSent
    <3>2. CodesGrow
      BY <3>1, CodesStand
    <3>3. /\ SignedSound' /\ signed' \in [Elections -> {NotSigned} \cup SignedIn]
          /\ signed'[e] = NotSigned /\ (\A f \in Elections : f # e => signed'[f] = signed[f])
          /\ TokensThere' /\ NothingLeftBehind' /\ progress' \in [Elections -> InProgress]
      BY <3>1, <3>2, LogsOut
    <3>4. PICK z \in [Elections -> {NotSigned} \cup SignedIn] :
             z = signed' /\ z[e] = NotSigned /\ (\A f \in Elections : f # e => z[f] = signed[f])
      BY <3>3
    <3>5. \A f \in Elections : f \in TwoFactor =>
             z[f] = NotSigned \/ Proved(z[f].voter)' \/ (signed[f] # NotSigned /\ z[f].voter = signed[f].voter)
      BY <3>4
    <3>6. SlotSound' /\ slot' \in {NoSlot} \cup CodeSlot
      BY <2>2, <3>2, <3>4, <3>5, SlotStands
    <3> QED
      BY <3>2, <3>3, <3>6 DEF Session
  <2> QED
    BY <2>0, <2>1, <2>2
<1> QED
  BY <1>5, <1>6

-----------------------------------------------------------------------------
(* Booth: the steps.                                                         *)

LEMMA ClockAndForms ==
  ASSUME BoothIInv
  PROVE  hour \in 0..LastHour /\ hour \in Nat /\ forms \in 0..MaxForms
  BY BoothNumbers DEF BoothIInv, BoothTyped

(* What changes neither the session nor the tokens and ballots. *)
LEMMA SessionStands ==
  ASSUME BoothIInv, CodesGrow, RollGrows, UNCHANGED <<signed, slot, progress>>, Len(passes') = Len(passes)
  PROVE  Session'
<1>1. SignedSound' /\ signed' \in [Elections -> {NotSigned} \cup SignedIn]
  BY SignedStands
<1>2. SlotSound' /\ slot' \in {NoSlot} \cup CodeSlot
  <2>1. PICK z \in [Elections -> {NotSigned} \cup SignedIn] : z = signed' /\ z = signed
    BY <1>1
  <2> QED
    BY <2>1, SlotStands
<1>3. TokensThere' /\ NothingLeftBehind' /\ progress' \in [Elections -> InProgress]
  BY ProgressStands
<1> QED
  BY <1>1, <1>2, <1>3 DEF Session

LEMMA HourPassesKeeps == ASSUME BoothIInv, HourPasses PROVE BoothIInv'
<1>1. hour' \in 0..LastHour /\ forms' \in 0..MaxForms /\ UNCHANGED <<voter, codes, passes, signed, slot, progress, casts>>
  BY ClockAndForms, BoothNumbers DEF HourPasses
<1>2. CodesGrow /\ RollGrows
  BY <1>1, CodesStand, RollStands
<1> QED
  BY <1>1, <1>2, SessionStands, SessionIsAll

(* One voter's row changes: addresses are verified, no vote is taken back.   *)
LEMMA RowGrows ==
  ASSUME BoothIInv, NEW v \in Voters, NEW row \in OnRoll, voter' = [voter EXCEPT ![v] = row],
         voter[v].verified \subseteq row.verified, row.status # "ABSENT",
         voter[v].status = "VOTED" => row.status = "VOTED"
  PROVE  RollGrows /\ voter'[v] = row
<1>1. voter' \in [Voters -> OnRoll] /\ voter'[v] = row /\ \A w \in Voters : w # v => voter'[w] = voter[w]
  BY DEF BoothIInv, BoothTyped
<1>2. RollSound'
  BY <1>1 DEF BoothIInv, RollSound
<1> QED
  BY <1>1, <1>2 DEF RollGrows

LEMMA SignsInKeeps ==
  ASSUME BoothIInv, NEW e \in Elections, NEW v \in Voters, NEW m \in SignInMethods[e], SignsIn(e, v, m)
  PROVE  BoothIInv'
<1>1. /\ Home[v] = e /\ voter[v].status # "ABSENT" /\ m \in AnyMethod \ CodeMethods
      /\ AfterPrimaryAuth(e, v, m) /\ UNCHANGED <<hour, voter, passes, forms, casts>>
  BY DEF SignsIn, MayCast, AnyMethod
<1>2. RollGrows
  BY <1>1, RollStands
<1>3. voter'[v].status # "ABSENT"
  BY <1>1
<1>4. CodesGrow /\ Session'
  BY <1>1, <1>2, <1>3, AfterPrimaryAuthKeeps
<1> QED
  BY <1>1, <1>2, <1>4, ClockAndForms, SessionIsAll

LEMMA SignsInBySsoKeeps ==
  ASSUME BoothIInv, NEW e \in Elections, NEW v \in Voters, SignsInBySso(e, v)
  PROVE  BoothIInv'
<1>1. PICK row : row = [voter[v] EXCEPT !.verified = @ \cup {"EMAIL"}]
  OBVIOUS
<1>2. voter[v] \in OnRoll /\ voter[v].status # "ABSENT" /\ Home[v] = e
  BY DEF SignsInBySso, BoothIInv, BoothTyped
<1>3. row \in OnRoll /\ row.status = voter[v].status /\ voter[v].verified \subseteq row.verified
  BY <1>1, <1>2 DEF OnRoll, Channels
<1>4. voter' = [voter EXCEPT ![v] = row]
  BY <1>1 DEF SignsInBySso
<1>5. RollGrows /\ voter'[v].status # "ABSENT"
  BY <1>2, <1>3, <1>4, RowGrows
<1>6. UNCHANGED <<hour, passes, forms, casts>>
  BY DEF SignsInBySso
<1>7. CASE MayCast(v)
  <2>1. AfterPrimaryAuth(e, v, "SSO") /\ "SSO" \in AnyMethod \ CodeMethods
    BY <1>7 DEF SignsInBySso, AnyMethod, CodeMethods
  <2>2. CodesGrow /\ Session'
    BY <1>2, <1>5, <1>6, <2>1, AfterPrimaryAuthKeeps
  <2> QED
    BY <1>5, <1>6, <2>2, ClockAndForms, SessionIsAll
<1>8. CASE ~MayCast(v)
  <2>1. UNCHANGED <<codes, signed, slot, progress>>
    BY <1>8 DEF SignsInBySso
  <2>2. CodesGrow
    BY <2>1, CodesStand
  <2>3. Session'
    BY <1>5, <1>6, <2>1, <2>2, SessionStands
  <2> QED
    BY <1>5, <1>6, <2>2, <2>3, ClockAndForms, SessionIsAll
<1> QED
  BY <1>7, <1>8

(* Asking for a code, and asking again: the slot alone changes. *)
LEMMA NewSlotKeeps ==
  ASSUME BoothIInv, CodesGrow, SlotSound', slot' \in {NoSlot} \cup CodeSlot,
         UNCHANGED <<hour, voter, passes, signed, progress, forms, casts>>
  PROVE  BoothIInv'
<1>1. RollGrows
  BY RollStands
<1>2. SignedSound' /\ signed' \in [Elections -> {NotSigned} \cup SignedIn]
  BY SignedStands
<1>3. TokensThere' /\ NothingLeftBehind' /\ progress' \in [Elections -> InProgress]
  BY ProgressStands
<1>4. Session'
  BY <1>2, <1>3 DEF Session
<1> QED
  BY <1>1, <1>4, ClockAndForms, SessionIsAll

LEMMA AsksForCodeKeeps ==
  ASSUME BoothIInv, NEW e \in Elections, NEW v \in Voters, NEW m \in SignInMethods[e], AsksForCode(e, v, m)
  PROVE  BoothIInv'
<1>0. /\ Home[v] = e /\ m \in CodeMethods
      /\ UNCHANGED <<hour, voter, passes, signed, progress, forms, casts>>
  BY DEF AsksForCode
<1>1. PICK channel \in Channels : channel = CodeBy[m]
  BY <1>0 DEF CodeBy, CodeMethods, Channels
<1>2. "VOTER_LOGIN" \in Purposes
  BY DEF Purposes
<1>3. CASE MayCast(v) /\ Sends(v, channel, "VOTER_LOGIN") /\ Awaits(e, v, channel, "VOTER_LOGIN")
  <2>1. CodesGrow
    BY <1>2, <1>3, CodeSent
  <2>2. voter'[v].status # "ABSENT"
    BY <1>0, <1>3 DEF MayCast
  <2>3. SlotSound' /\ slot' \in {NoSlot} \cup CodeSlot
    BY <1>0, <1>2, <1>3, <2>2, SlotAwaits
  <2> QED
    BY <1>0, <2>1, <2>3, NewSlotKeeps
<1>4. CASE UNCHANGED <<codes, slot>>
  <2>1. CodesGrow /\ RollGrows
    BY <1>0, <1>4, CodesStand, RollStands
  <2>2. Session'
    BY <1>0, <1>4, <2>1, SessionStands
  <2> QED
    BY <1>0, <2>1, <2>2, NewSlotKeeps DEF Session
<1>5. CASE /\ slot' = [election |-> e, voter |-> Nobody, code |-> 0, channel |-> channel, purpose |-> "VOTER_LOGIN"]
           /\ UNCHANGED codes
  <2>1. CodesGrow
    BY <1>5, CodesStand
  <2>2. slot' \in CodeSlot /\ slot'.voter = Nobody
    BY <1>2, <1>5 DEF CodeSlot
  <2>3. SlotSound'
    BY <2>2 DEF SlotSound
  <2> QED
    BY <1>0, <2>1, <2>2, <2>3, NewSlotKeeps
<1> QED
  BY <1>1, <1>3, <1>4, <1>5 DEF AsksForCode, RefusesToSend

LEMMA AtCodeIsTheirs ==
  ASSUME BoothIInv, NEW e \in Elections, AtCode(e)
  PROVE  slot \in CodeSlot /\ slot.voter \in Voters /\ slot.election = e /\ SlotFits(slot) /\ Home[slot.voter] = e
<1>1. slot # NoSlot
  <2>1. NoSlot.election = Nobody
    BY DEF NoSlot
  <2> QED
    BY <2>1, BoothNumbers DEF AtCode
<1>2. slot \in CodeSlot /\ slot.voter \in Voters /\ slot.election = e
  BY <1>1 DEF AtCode, BoothIInv, BoothTyped, CodeSlot
<1>3. SlotFits(slot)
  BY <1>1 DEF AtCode, BoothIInv, SlotSound
<1> QED
  BY <1>2, <1>3 DEF SlotFits

LEMMA ResendsKeeps ==
  ASSUME BoothIInv, NEW e \in Elections, Resends(e)
  PROVE  BoothIInv'
<1>0. /\ AtCode(e) /\ Sends(slot.voter, slot.channel, slot.purpose) /\ Awaits(e, slot.voter, slot.channel, slot.purpose)
      /\ UNCHANGED <<hour, voter, passes, signed, progress, forms, casts>>
  BY DEF Resends
<1>1. PICK t \in CodeSlot : t = slot /\ t.voter \in Voters /\ t.election = e /\ SlotFits(t) /\ Home[t.voter] = e
  BY <1>0, AtCodeIsTheirs
<1>2. PICK v, channel, purpose : /\ v = t.voter /\ channel = t.channel /\ purpose = t.purpose
                                 /\ v \in Voters /\ channel \in Channels /\ purpose \in Purposes
  BY <1>1 DEF CodeSlot
<1>3. Sends(v, channel, purpose) /\ Awaits(e, v, channel, purpose)
  BY <1>0, <1>1, <1>2
<1>4. CodesGrow
  BY <1>2, <1>3, CodeSent
<1>5. voter'[v].status # "ABSENT"
  BY <1>0, <1>1, <1>2 DEF SlotFits
<1>6. purpose = "VOTER_2FA" =>
         /\ e \in TwoFactor
         /\ signed'[e] = NotSigned \/ signed'[e].voter = v \/ Proved(signed[e].voter)'
  <2>1. PICK w : w = signed[e].voter
    OBVIOUS
  <2>2. Proved(w) => Proved(w)'
    BY <1>4, StillProved
  <2>3. purpose = "VOTER_2FA" => e \in TwoFactor /\ (signed[e] = NotSigned \/ signed[e].voter = v \/ Proved(w))
    BY <1>1, <1>2, <2>1 DEF SlotFits
  <2>4. Proved(w)' => Proved(signed[e].voter)'
    BY <1>0, <2>1
  <2> QED
    BY <1>0, <2>2, <2>3, <2>4
<1>7. SlotSound' /\ slot' \in {NoSlot} \cup CodeSlot
  BY <1>1, <1>2, <1>3, <1>5, <1>6, SlotAwaits
<1> QED
  BY <1>0, <1>4, <1>7, NewSlotKeeps

(* A code is tried: it stays the same voter's. *)
LEMMA CodeTried ==
  ASSUME BoothIInv, NEW c \in DOMAIN codes, NEW row \in CodeRow, codes' = [codes EXCEPT ![c] = row],
         row.voter = codes[c].voter, codes[c].state = "used" => row.state = "used"
  PROVE  CodesGrow /\ c \in DOMAIN codes' /\ codes'[c] = row
<1>1. codes \in Seq(CodeRow) /\ c \in 1..Len(codes)
  BY DEF BoothIInv, BoothTyped
<1>2. codes' \in Seq(CodeRow) /\ DOMAIN codes' = DOMAIN codes
  BY <1>1, ExceptSeq
<1>3. codes'[c] = row /\ \A i \in DOMAIN codes : i # c => codes'[i] = codes[i]
  BY <1>1
<1> QED
  BY <1>2, <1>3 DEF CodesGrow

LEMMA GuessesWrongKeeps ==
  ASSUME BoothIInv, NEW e \in Elections, GuessesWrong(e)
  PROVE  BoothIInv'
<1>0. AtCode(e) /\ UNCHANGED <<hour, voter, passes, signed, slot, progress, forms, casts>>
  BY DEF GuessesWrong
<1>1. PICK c \in DOMAIN codes : c = slot.code
  BY <1>0, AtCodeIsTheirs DEF SlotFits
<1>2. codes[c] \in CodeRow
  BY DEF BoothIInv, BoothTyped
<1>3. PICK row : row = [codes[c] EXCEPT !.guesses = @ + 1]
  OBVIOUS
<1>4. row \in CodeRow /\ row.voter = codes[c].voter /\ row.state = codes[c].state
  BY <1>2, <1>3 DEF CodeRow
<1>5. codes' = [codes EXCEPT ![c] = row]
  BY <1>1, <1>3 DEF GuessesWrong
<1>6. CodesGrow
  BY <1>4, <1>5, CodeTried
<1>7. RollGrows
  BY <1>0, RollStands
<1>8. Session'
  BY <1>0, <1>6, <1>7, SessionStands
<1> QED
  BY <1>0, <1>6, <1>7, <1>8, ClockAndForms, SessionIsAll

(* A code that was entered proves its voter, and whoever the second factor   *)
(* was asked of.                                                             *)
LEMMA EntersCodeKeeps ==
  ASSUME BoothIInv, NEW e \in Elections, EntersCode(e)
  PROVE  BoothIInv'
<1>0. AtCode(e) /\ slot' = NoSlot /\ UNCHANGED <<hour, passes, progress, forms, casts>>
  BY DEF EntersCode
<1>1. PICK t \in CodeSlot : t = slot /\ t.voter \in Voters /\ t.election = e /\ SlotFits(t) /\ Home[t.voter] = e
  BY <1>0, AtCodeIsTheirs
<1>2. PICK c \in DOMAIN codes, v \in Voters : c = t.code /\ v = t.voter /\ codes[c].voter = v /\ voter[v].status # "ABSENT"
  BY <1>1 DEF SlotFits
<1>3. CodesGrow /\ Proved(v)'
  <2>1. codes[c] \in CodeRow
    BY DEF BoothIInv, BoothTyped
  <2>2. PICK row : row = [codes[c] EXCEPT !.state = "used"]
    OBVIOUS
  <2>3. row \in CodeRow /\ row.voter = v /\ row.state = "used"
    BY <1>2, <2>1, <2>2 DEF CodeRow
  <2>4. codes' = [codes EXCEPT ![c] = row]
    BY <1>1, <1>2, <2>2 DEF EntersCode
  <2>5. CodesGrow /\ c \in DOMAIN codes' /\ codes'[c] = row
    BY <1>2, <2>3, <2>4, CodeTried
  <2> QED
    BY <2>3, <2>5 DEF Proved
<1>4. RollGrows
  <2>1. PICK row : row = [voter[v] EXCEPT !.verified = @ \cup {t.channel},
                                          !.status = IF @ = "ELIGIBLE" THEN "VERIFIED" ELSE @]
    OBVIOUS
  <2>2. voter[v] \in OnRoll /\ t.channel \in Channels
    BY DEF BoothIInv, BoothTyped, CodeSlot
  <2>3. /\ row \in OnRoll /\ voter[v].verified \subseteq row.verified
        /\ row.status = IF voter[v].status = "ELIGIBLE" THEN "VERIFIED" ELSE voter[v].status
    BY <2>1, <2>2 DEF OnRoll
  <2>4. voter' = [voter EXCEPT ![v] = row]
    <3>1. voter' = [voter EXCEPT ![v].verified = @ \cup {t.channel},
                                 ![v].status = IF @ = "ELIGIBLE" THEN "VERIFIED" ELSE @]
      BY <1>1, <1>2 DEF EntersCode
    <3>2. voter \in [Voters -> OnRoll]
      BY DEF BoothIInv, BoothTyped
    <3>3. voter' = [w \in Voters |-> IF w = v THEN row ELSE voter[w]]
      BY <2>1, <3>1, <3>2
    <3> QED
      BY <3>2, <3>3
  <2> QED
    BY <1>2, <2>3, <2>4, RowGrows
<1>5. PICK s \in {NotSigned} \cup SignedIn :
         /\ signed' = [signed EXCEPT ![e] = s]
         /\ s = NotSigned => signed[e] = NotSigned
         /\ s # NotSigned => s.voter = v \/ (s.voter = signed[e].voter /\ signed[e] # NotSigned /\ t.purpose = "VOTER_2FA")
  <2>0. hour \in Nat
    BY ClockAndForms
  <2>1. CASE t.purpose = "VOTER_2FA"
    <3>1. signed' = [signed EXCEPT ![e] = IF @ = NotSigned THEN @ ELSE [@ EXCEPT !.mfa = TRUE, !.at = hour]]
      BY <1>1, <2>1 DEF EntersCode, MarkSecondFactor
    <3>2. PICK s : s = IF signed[e] = NotSigned THEN signed[e] ELSE [signed[e] EXCEPT !.mfa = TRUE, !.at = hour]
      OBVIOUS
    <3>3. signed' = [signed EXCEPT ![e] = s]
      BY <3>1, <3>2
    <3>4. signed[e] \in {NotSigned} \cup SignedIn
      BY DEF BoothIInv, BoothTyped
    <3>5. CASE signed[e] = NotSigned
      BY <3>2, <3>3, <3>5
    <3>6. CASE signed[e] # NotSigned
      <4>1. s \in SignedIn /\ s.voter = signed[e].voter
        BY <2>0, <3>2, <3>4, <3>6 DEF SignedIn
      <4> QED
        BY <2>1, <3>3, <3>6, <4>1, NotSignedIsNobody
    <3> QED
      BY <3>5, <3>6
  <2>2. CASE t.purpose # "VOTER_2FA"
    <3>1. PICK m \in CodeMethods : LoginVoter(e, v, m, TRUE)
      BY <1>1, <1>2, <2>2 DEF EntersCode, CodeMethods
    <3>2. PICK s : s = [voter |-> v, method |-> m, mfa |-> TRUE, at |-> hour]
      OBVIOUS
    <3>3. m \in AnyMethod
      BY CodesAreMethods
    <3>4. s \in SignedIn /\ s.voter = v
      BY <2>0, <3>2, <3>3 DEF SignedIn
    <3>5. signed' = [signed EXCEPT ![e] = s]
      BY <3>1, <3>2 DEF LoginVoter
    <3> QED
      BY <3>4, <3>5, NotSignedIsNobody
  <2> QED
    BY <2>1, <2>2
<1>6. SignedFor(e, s)'
  <2>1. CASE s = NotSigned
    BY <2>1 DEF SignedFor
  <2>2. CASE s # NotSigned /\ s.voter = v
    BY <1>1, <1>2, <1>3, <2>2 DEF SignedFor
  <2>3. CASE s # NotSigned /\ s.voter = signed[e].voter /\ signed[e] # NotSigned /\ t.purpose = "VOTER_2FA" /\ s.voter # v
    <3>1. PICK w : w = s.voter /\ w = signed[e].voter
      BY <2>3
    <3>2. Proved(w) /\ Home[w] = e
      BY <1>1, <1>2, <2>3, <3>1 DEF SlotFits, BoothIInv, SignedSound, SignedFor
    <3>3. Proved(w)'
      BY <1>3, <3>2, StillProved
    <3> QED
      BY <3>1, <3>2, <3>3 DEF SignedFor
  <2> QED
    BY <1>5, <2>1, <2>2, <2>3
<1>7. SignedSound' /\ signed' \in [Elections -> {NotSigned} \cup SignedIn]
  BY <1>3, <1>5, <1>6, SignedMoves
<1>8. \A f \in Elections : signed'[f] = NotSigned => signed[f] = NotSigned
  BY <1>5 DEF BoothIInv, BoothTyped
<1>9. TokensThere' /\ NothingLeftBehind' /\ progress' \in [Elections -> InProgress]
  BY <1>0, <1>8, ProgressStands
<1>10. SlotSound' /\ slot' \in {NoSlot} \cup CodeSlot
  BY <1>0 DEF SlotSound
<1>11. Session'
  BY <1>7, <1>9, <1>10 DEF Session
<1> QED
  BY <1>0, <1>3, <1>4, <1>11, ClockAndForms, SessionIsAll

LEMMA RegistersKeeps ==
  ASSUME BoothIInv, NEW e \in Elections, NEW v \in Voters, Registers(e, v)
  PROVE  BoothIInv'
<1>0. /\ Home[v] = e /\ voter[v].status = "ABSENT" /\ LoginVoter(e, v, "EMAIL_OTP", TRUE)
      /\ UNCHANGED <<hour, passes, slot, progress, forms, casts>>
  BY DEF Registers
<1>1. hour \in Nat
  BY ClockAndForms
<1>2. CodesGrow /\ Proved(v)'
  <2>1. codes \in Seq(CodeRow)
    BY DEF BoothIInv, BoothTyped
  <2>2. PICK row : row = [voter |-> v, purpose |-> "VOTER_REGISTRATION", channel |-> "EMAIL",
                          state |-> "used", guesses |-> 0, at |-> hour]
    OBVIOUS
  <2>3. row \in CodeRow /\ row.voter = v /\ row.state = "used"
    BY <1>1, <2>2 DEF CodeRow, Purposes, Channels
  <2>4. codes' = Append(codes, row)
    BY <2>2 DEF Registers
  <2>5. /\ codes' \in Seq(CodeRow) /\ Len(codes') = Len(codes) + 1 /\ Len(codes) \in Nat
        /\ DOMAIN codes = 1..Len(codes) /\ DOMAIN codes' = 1..Len(codes')
        /\ codes'[Len(codes')] = row /\ \A i \in 1..Len(codes) : codes'[i] = codes[i]
    BY <2>1, <2>3, <2>4, AppendProperties
  <2>6. CodesGrow
    BY <2>5 DEF CodesGrow
  <2>7. Len(codes') \in DOMAIN codes' /\ codes'[Len(codes')].voter = v /\ codes'[Len(codes')].state = "used"
    BY <2>3, <2>5
  <2> QED
    BY <2>6, <2>7 DEF Proved
<1>3. RollGrows
  <2>1. PICK row : row = [status |-> "VERIFIED", verified |-> {"EMAIL"}]
    OBVIOUS
  <2>2. row \in OnRoll /\ row.status = "VERIFIED"
    BY <2>1 DEF OnRoll, Channels
  <2>3. voter[v].verified = {}
    BY <1>0 DEF BoothIInv, RollSound
  <2>4. voter' = [voter EXCEPT ![v] = row]
    BY <2>1 DEF Registers
  <2> QED
    BY <1>0, <2>2, <2>3, <2>4, RowGrows
<1>4. PICK s : s = [voter |-> v, method |-> "EMAIL_OTP", mfa |-> TRUE, at |-> hour]
  OBVIOUS
<1>5. s \in SignedIn /\ s.voter = v
  <2>1. "EMAIL_OTP" \in AnyMethod
    BY CodesAreMethods DEF CodeMethods
  <2> QED
    BY <1>1, <1>4, <2>1 DEF SignedIn
<1>6. s # NotSigned
  BY <1>5, NotSignedIsNobody
<1>7. signed' = [signed EXCEPT ![e] = s]
  BY <1>0, <1>4 DEF LoginVoter
<1>8. SignedFor(e, s)'
  BY <1>0, <1>2, <1>5 DEF SignedFor
<1>9. SignedSound' /\ signed' \in [Elections -> {NotSigned} \cup SignedIn]
  BY <1>2, <1>5, <1>7, <1>8, SignedMoves
<1>10. PICK z \in [Elections -> {NotSigned} \cup SignedIn] :
          z = signed' /\ z[e] = s /\ (\A f \in Elections : f # e => z[f] = signed[f])
  BY <1>7, <1>9 DEF BoothIInv, BoothTyped
<1>11. SlotSound' /\ slot' \in {NoSlot} \cup CodeSlot
  <2>1. Proved(z[e].voter)'
    <3>1. z[e].voter = v
      BY <1>5, <1>10
    <3> QED
      BY <1>2, <3>1
  <2>2. \A f \in Elections : f \in TwoFactor =>
           z[f] = NotSigned \/ Proved(z[f].voter)' \/ (signed[f] # NotSigned /\ z[f].voter = signed[f].voter)
    BY <1>10, <2>1
  <2> QED
    BY <1>0, <1>2, <1>3, <1>10, <2>2, SlotStands
<1>12. TokensThere' /\ NothingLeftBehind' /\ progress' \in [Elections -> InProgress]
  <2>1. \A f \in Elections : signed'[f] = NotSigned => signed[f] = NotSigned
    BY <1>6, <1>10
  <2> QED
    BY <1>0, <2>1, ProgressStands
<1>13. Session'
  BY <1>9, <1>11, <1>12 DEF Session
<1> QED
  BY <1>0, <1>2, <1>3, <1>13, ClockAndForms, SessionIsAll

-----------------------------------------------------------------------------
(* Booth: tokens and ballots.                                                *)

(* Who is present has proved themselves where two factors are required. *)
LEMMA PresentIsProved ==
  ASSUME BoothIInv, NEW e \in Elections, Present(e)
  PROVE  /\ signed[e] \in SignedIn /\ signed[e].voter \in Voters /\ Home[signed[e].voter] = e
         /\ e \in TwoFactor => Proved(signed[e].voter)
<1>1. signed[e] # NotSigned /\ ~NeedsSecondFactor(e, signed[e].method, signed[e].mfa)
  BY DEF Present
<1>2. signed[e] \in SignedIn
  BY <1>1 DEF BoothIInv, BoothTyped
<1>3. SignedFor(e, signed[e])
  BY DEF BoothIInv, SignedSound
<1> QED
  BY <1>1, <1>2, <1>3, NotSignedIsNobody DEF SignedFor, NeedsSecondFactor

LEMMA StyleIsOffices == ASSUME NEW e \in Elections, NEW v PROVE BallotStyle(e, v) \in SUBSET AllOffices
  BY DEF BallotStyle, AllOffices

(* Rows that keep their voter and style. *)
SameTokens(rs) ==
    /\ rs \in Seq(PassRow) /\ Len(rs) = Len(passes)
    /\ \A i \in DOMAIN passes : i \in DOMAIN rs /\ rs[i].voter = passes[i].voter /\ rs[i].style = passes[i].style

LEMMA RevokedAreSame ==
  ASSUME BoothIInv, NEW v
  PROVE  SameTokens([i \in DOMAIN passes |-> IF passes[i].voter = v /\ passes[i].status = "ISSUED"
                                             THEN [passes[i] EXCEPT !.status = "REVOKED"] ELSE passes[i]])
<1> DEFINE rs == [i \in DOMAIN passes |-> IF passes[i].voter = v /\ passes[i].status = "ISSUED"
                                            THEN [passes[i] EXCEPT !.status = "REVOKED"] ELSE passes[i]]
<1>1. passes \in Seq(PassRow) /\ Len(passes) \in Nat /\ DOMAIN passes = 1..Len(passes)
  BY DEF BoothIInv, BoothTyped
<1>2. ASSUME NEW i \in DOMAIN passes
      PROVE  rs[i] \in PassRow /\ rs[i].voter = passes[i].voter /\ rs[i].style = passes[i].style
  <2>1. PICK r \in PassRow : r = passes[i]
    BY <1>1
  <2>2. PICK q : q = [r EXCEPT !.status = "REVOKED"]
    OBVIOUS
  <2>3. q \in PassRow /\ q.voter = r.voter /\ q.style = r.style
    BY <2>2 DEF PassRow
  <2>4. rs[i] = q \/ rs[i] = r
    BY <2>1, <2>2
  <2> QED
    BY <2>1, <2>3, <2>4
<1>3. DOMAIN rs = 1..Len(passes)
  BY <1>1
<1>4. rs = [i \in 1..Len(passes) |-> rs[i]]
  BY <1>1
<1> HIDE DEF rs
<1>5. rs \in Seq(PassRow) /\ Len(rs) = Len(passes)
  BY <1>1, <1>2, <1>3, <1>4
<1>6. SameTokens(rs)
  BY <1>1, <1>2, <1>3, <1>5 DEF SameTokens
<1> QED
  BY <1>6 DEF rs

LEMMA RowFits ==
  ASSUME NEW row, NEW old, PassFits(old), row.voter = old.voter, row.style = old.style
  PROVE  PassFits(row)
  BY DEF PassFits

LEMMA SameTokensFit ==
  ASSUME BoothIInv, CodesGrow, RollGrows, NEW rs, SameTokens(rs)
  PROVE  \A i \in DOMAIN rs : PassFits(rs[i])'
<1>1. ASSUME NEW i \in DOMAIN rs PROVE PassFits(rs[i])'
  <2>1. i \in DOMAIN passes
    BY <1>1 DEF SameTokens, BoothIInv, BoothTyped
  <2>2. rs[i] \in PassRow /\ PassFits(passes[i]) /\ rs[i].voter = passes[i].voter /\ rs[i].style = passes[i].style
    BY <1>1, <2>1 DEF SameTokens, BoothIInv, PassesSound
  <2>3. PICK row \in PassRow : row = rs[i]
    BY <2>2
  <2>4. PassFits(row)
    BY <2>2, <2>3, RowFits
  <2>5. PassFits(row)'
    BY <2>4, PassFitsStill
  <2> QED
    BY <2>3, <2>5
<1> QED
  BY <1>1

LEMMA SameTokensKeep ==
  ASSUME BoothIInv, CodesGrow, RollGrows, SameTokens(passes')
  PROVE  PassesSound' /\ passes' \in Seq(PassRow) /\ Len(passes') = Len(passes)
<1>1. PICK rs : rs = passes' /\ SameTokens(rs)
  OBVIOUS
<1>2. \A i \in DOMAIN rs : PassFits(rs[i])'
  BY <1>1, SameTokensFit
<1> QED
  BY <1>1, <1>2 DEF PassesSound, SameTokens

(* The token of a page: there, the voter's own, and found sound.             *)
LEMMA PassForKeeps ==
  ASSUME BoothIInv, NEW e \in Elections, Present(e), NEW token, PassFor(e, signed[e].voter, token),
         UNCHANGED <<hour, voter, codes>>
  PROVE  /\ PassesSound' /\ passes' \in Seq(PassRow) /\ Len(passes) <= Len(passes')
         /\ token \in DOMAIN passes' /\ token \in Nat /\ token <= Len(passes')
         /\ passes'[token].style \in SUBSET AllOffices
<1>1. PICK v \in Voters : v = signed[e].voter /\ Home[v] = e /\ (e \in TwoFactor => Proved(v))
  BY PresentIsProved
<1>2. CodesGrow /\ RollGrows
  BY CodesStand, RollStands
<1>3. hour \in Nat /\ PassTtl \in Nat
  BY ClockAndForms, BoothNumbers
<1>4. passes \in Seq(PassRow) /\ Len(passes) \in Nat /\ DOMAIN passes = 1..Len(passes)
  BY DEF BoothIInv, BoothTyped
<1>5. CASE LiveToken(progress[e].token, v)
  <2>1. token = progress[e].token /\ UNCHANGED passes /\ token # 0
    BY <1>1, <1>5 DEF PassFor, LiveToken
  <2>2. token \in Nat /\ token <= Len(passes)
    BY <2>1 DEF BoothIInv, BoothTyped, TokensThere, InProgress
  <2>3. PassesSound' /\ passes' \in Seq(PassRow) /\ Len(passes') = Len(passes)
    BY <1>2, <2>1, PassesStand
  <2>4. token \in DOMAIN passes
    BY <1>4, <2>1, <2>2
  <2>5. passes'[token].style \in SUBSET AllOffices
    <3>1. passes'[token] \in PassRow
      BY <1>4, <2>1, <2>4
    <3> QED
      BY <3>1 DEF PassRow
  <2> QED
    BY <1>4, <2>1, <2>2, <2>3, <2>4, <2>5
<1>6. CASE ~LiveToken(progress[e].token, v)
  <2>1. PICK row : row = [voter |-> v, status |-> "ISSUED", style |-> BallotStyle(e, v), until |-> hour + PassTtl]
    OBVIOUS
  <2>2. PICK rs : rs = [i \in DOMAIN passes |-> IF passes[i].voter = v /\ passes[i].status = "ISSUED"
                                                    THEN [passes[i] EXCEPT !.status = "REVOKED"] ELSE passes[i]]
    OBVIOUS
  <2>3. token = Len(passes) + 1 /\ passes' = Append(rs, row) /\ SameTokens(rs)
    BY <1>1, <1>6, <2>1, <2>2, RevokedAreSame DEF PassFor
  <2>4. row \in PassRow /\ row.voter = v /\ row.style = BallotStyle(e, v)
    <3>1. BallotStyle(e, v) \in SUBSET AllOffices /\ hour + PassTtl \in Nat
      BY <1>3, StyleIsOffices
    <3>2. PICK b, u : b = BallotStyle(e, v) /\ u = hour + PassTtl /\ b \in SUBSET AllOffices /\ u \in Nat
      BY <3>1
    <3> QED
      BY <2>1, <3>2 DEF PassRow
  <2>5. PassFits(row)
    BY <1>1, <2>4 DEF PassFits
  <2>6. PassFits(row)'
    BY <1>2, <2>4, <2>5, PassFitsStill
  <2>7. rs \in Seq(PassRow) /\ Len(rs) = Len(passes)
    BY <2>3 DEF SameTokens
  <2>8. PICK p : p = passes'
    OBVIOUS
  <2>9. /\ p \in Seq(PassRow) /\ Len(p) = Len(passes) + 1 /\ p[Len(passes) + 1] = row
        /\ DOMAIN p = 1..(Len(passes) + 1) /\ DOMAIN rs = 1..Len(passes)
        /\ \A i \in 1..Len(passes) : p[i] = rs[i]
    BY <1>4, <2>3, <2>4, <2>7, <2>8, AppendProperties
  <2>10. \A i \in DOMAIN rs : PassFits(rs[i])'
    BY <1>2, <2>3, SameTokensFit
  <2>11. ASSUME NEW i \in DOMAIN p PROVE PassFits(p[i])'
    <3>1. CASE i = Len(passes) + 1
      BY <2>6, <2>9, <3>1
    <3>2. CASE i # Len(passes) + 1
      <4>1. i \in DOMAIN rs /\ p[i] = rs[i]
        BY <1>4, <2>9, <2>11, <3>2
      <4> QED
        BY <2>10, <4>1
    <3> QED
      BY <3>1, <3>2
  <2>12. PassesSound'
    BY <2>8, <2>11 DEF PassesSound
  <2>13. token \in DOMAIN p /\ p[token] = row /\ token \in Nat /\ token <= Len(p) /\ Len(passes) <= Len(p)
    BY <1>4, <2>3, <2>9
  <2>14. p[token].style \in SUBSET AllOffices
    BY <2>4, <2>13 DEF PassRow
  <2> QED
    BY <2>8, <2>9, <2>12, <2>13, <2>14
<1> QED
  BY <1>5, <1>6

(* The ballot in progress of whoever is present moves on with the token.     *)
LEMMA PageKeeps ==
  ASSUME BoothIInv, NEW e \in Elections, Present(e), NEW token, PassFor(e, signed[e].voter, token),
         UNCHANGED <<hour, voter, codes, signed, slot, casts>>, forms' \in 0..MaxForms,
         NEW b \in InProgress, b.token = token, progress' = [progress EXCEPT ![e] = b]
  PROVE  BoothIInv'
<1>1. CodesGrow /\ RollGrows
  BY CodesStand, RollStands
<1>2. /\ PassesSound' /\ passes' \in Seq(PassRow) /\ Len(passes) <= Len(passes') /\ token <= Len(passes')
  BY PassForKeeps
<1>3. SignedSound' /\ signed' \in [Elections -> {NotSigned} \cup SignedIn]
  BY <1>1, SignedStands
<1>4. SlotSound' /\ slot' \in {NoSlot} \cup CodeSlot
  <2>1. PICK z \in [Elections -> {NotSigned} \cup SignedIn] : z = signed' /\ z = signed
    BY <1>3
  <2> QED
    BY <1>1, <2>1, SlotStands
<1>5. /\ progress' \in [Elections -> InProgress] /\ progress'[e] = b
      /\ \A f \in Elections : f # e => progress'[f] = progress[f]
  BY DEF BoothIInv, BoothTyped
<1>6. Len(passes) \in Nat /\ Len(passes') \in Nat
  BY <1>2 DEF BoothIInv, BoothTyped
<1>7. TokensThere'
  BY <1>2, <1>5, <1>6 DEF BoothIInv, BoothTyped, TokensThere, InProgress
<1>8. signed[e] # NotSigned
  BY DEF Present
<1>9. NothingLeftBehind'
  BY <1>5, <1>8 DEF BoothIInv, NothingLeftBehind
<1>10. CastsSound'
  BY <1>1, CastsStand
<1>11. hour' \in 0..LastHour
  BY ClockAndForms
<1>12. BoothTyped'
  BY <1>1, <1>2, <1>3, <1>4, <1>5, <1>11 DEF BoothTyped, CodesGrow, RollGrows
<1> QED
  BY <1>1, <1>2, <1>3, <1>4, <1>7, <1>9, <1>10, <1>12 DEF BoothIInv, RollGrows

LEMMA ShowsBallotKeeps ==
  ASSUME BoothIInv, NEW e \in Elections, ShowsBallot(e)
  PROVE  BoothIInv'
<1>1. PICK token \in 1..MaxPasses :
         PassFor(e, signed[e].voter, token) /\ progress' = [progress EXCEPT ![e].token = token]
  BY DEF ShowsBallot
<1>2. Present(e) /\ UNCHANGED <<hour, voter, codes, signed, slot, forms, casts>> /\ forms' \in 0..MaxForms
  BY ClockAndForms DEF ShowsBallot
<1>3. token \in Nat
  BY <1>1, <1>2, PassForKeeps
<1>4. PICK b : b = [progress[e] EXCEPT !.token = token]
  OBVIOUS
<1>5. progress[e] \in InProgress
  BY DEF BoothIInv, BoothTyped
<1>6. b \in InProgress /\ b.token = token
  BY <1>3, <1>4, <1>5 DEF InProgress
<1>7. progress' = [progress EXCEPT ![e] = b]
  BY <1>1, <1>4
<1> QED
  BY <1>1, <1>2, <1>6, <1>7, PageKeeps

LEMMA SelectsKeeps ==
  ASSUME BoothIInv, NEW e \in Elections, Selects(e)
  PROVE  BoothIInv'
<1>1. PICK token \in 1..MaxPasses :
         /\ PassFor(e, signed[e].voter, token)
         /\ progress' = [progress EXCEPT ![e] = [token |-> token, form |-> forms + 1, style |-> passes'[token].style]]
  BY DEF Selects
<1>2. Present(e) /\ forms < MaxForms /\ forms' = forms + 1 /\ UNCHANGED <<hour, voter, codes, signed, slot, casts>>
  BY DEF Selects
<1>3. forms' \in 0..MaxForms /\ forms + 1 \in Nat
  BY <1>2, ClockAndForms, BoothNumbers
<1>4. token \in Nat /\ passes'[token].style \in SUBSET AllOffices
  BY <1>1, <1>2, PassForKeeps
<1>5. PICK b, style : b = [token |-> token, form |-> forms + 1, style |-> style] /\ style = passes'[token].style
  OBVIOUS
<1>6. b \in InProgress /\ b.token = token
  BY <1>3, <1>4, <1>5 DEF InProgress
<1>7. progress' = [progress EXCEPT ![e] = b]
  BY <1>1, <1>5
<1> QED
  BY <1>1, <1>2, <1>3, <1>6, <1>7, PageKeeps

(* The session of a voter who is signed out. *)
LEMMA SignedOut ==
  ASSUME BoothIInv, CodesGrow, RollGrows, NEW e \in Elections, LogoutVoter(e), UNCHANGED slot, Len(passes') = Len(passes)
  PROVE  Session'
<1>1. /\ SignedSound' /\ signed' \in [Elections -> {NotSigned} \cup SignedIn]
      /\ signed'[e] = NotSigned /\ (\A f \in Elections : f # e => signed'[f] = signed[f])
      /\ TokensThere' /\ NothingLeftBehind' /\ progress' \in [Elections -> InProgress]
  BY LogsOut
<1>2. PICK z \in [Elections -> {NotSigned} \cup SignedIn] :
         z = signed' /\ z[e] = NotSigned /\ (\A f \in Elections : f # e => z[f] = signed[f])
  BY <1>1
<1>3. \A f \in Elections : f \in TwoFactor =>
         z[f] = NotSigned \/ Proved(z[f].voter)' \/ (signed[f] # NotSigned /\ z[f].voter = signed[f].voter)
  BY <1>2
<1>4. SlotSound' /\ slot' \in {NoSlot} \cup CodeSlot
  BY <1>2, <1>3, SlotStands
<1> QED
  BY <1>1, <1>4 DEF Session

LEMMA LeavesKeeps ==
  ASSUME BoothIInv, NEW e \in Elections, TurnsAway(e) \/ LeavesBooth(e)
  PROVE  BoothIInv'
<1>1. LogoutVoter(e) /\ UNCHANGED <<hour, voter, codes, passes, slot, forms, casts>>
  BY DEF TurnsAway, LeavesBooth
<1>2. CodesGrow /\ RollGrows
  BY <1>1, CodesStand, RollStands
<1>3. Session'
  BY <1>1, <1>2, SignedOut
<1> QED
  BY <1>1, <1>2, <1>3, ClockAndForms, SessionIsAll

(* A voter whose row says they may vote votes, here or elsewhere. *)
LEMMA VotesOnRoll ==
  ASSUME BoothIInv, NEW v \in Voters, MayCast(v), voter' = [voter EXCEPT ![v].status = "VOTED"]
  PROVE  RollGrows /\ voter'[v].status = "VOTED"
<1>1. PICK row : row = [voter[v] EXCEPT !.status = "VOTED"]
  OBVIOUS
<1>2. voter[v] \in OnRoll
  BY DEF BoothIInv, BoothTyped
<1>3. row \in OnRoll /\ row.status = "VOTED" /\ row.verified = voter[v].verified
  BY <1>1, <1>2 DEF OnRoll
<1>4. voter' = [voter EXCEPT ![v] = row]
  BY <1>1
<1> QED
  BY <1>3, <1>4, RowGrows

LEMMA VotesElsewhereKeeps ==
  ASSUME BoothIInv, NEW v \in Voters, VotesElsewhere(v)
  PROVE  BoothIInv'
<1>1. MayCast(v) /\ voter' = [voter EXCEPT ![v].status = "VOTED"] /\ UNCHANGED <<hour, codes, signed, slot, progress, forms, casts>>
  BY DEF VotesElsewhere
<1>2. CodesGrow /\ RollGrows
  BY <1>1, CodesStand, VotesOnRoll
<1>3. SameTokens(passes')
  BY RevokedAreSame DEF VotesElsewhere
<1>4. PassesSound' /\ passes' \in Seq(PassRow) /\ Len(passes') = Len(passes)
  BY <1>2, <1>3, SameTokensKeep
<1>5. Session' /\ CastsSound'
  BY <1>1, <1>2, <1>4, SessionStands, CastsStand
<1>6. hour' \in 0..LastHour /\ forms' \in 0..MaxForms
  BY <1>1, ClockAndForms
<1> QED
  BY <1>2, <1>4, <1>5, <1>6 DEF BoothIInv, BoothTyped, Session, CodesGrow, RollGrows

(* A form is confirmed: its ballot is that of the voter signed in, who had   *)
(* cast none.                                                                *)
LEMMA ConfirmsFormKeeps ==
  ASSUME BoothIInv, NEW e \in Elections, NEW form \in 1..MaxForms, ConfirmsForm(e, form)
  PROVE  BoothIInv'
<1>0. Present(e) /\ LogoutVoter(e) /\ UNCHANGED <<hour, codes, slot, forms>>
  BY DEF ConfirmsForm
<1>1. PICK v, t : v \in Voters /\ v = signed[e].voter /\ Home[v] = e /\ t = progress[e].token
  BY <1>0, PresentIsProved
<1>2. LiveToken(t, v) /\ MayCast(v) /\ progress[e].form = form
  BY <1>1 DEF ConfirmsForm, Shown
<1>3. passes \in Seq(PassRow) /\ Len(passes) \in Nat /\ DOMAIN passes = 1..Len(passes)
  BY DEF BoothIInv, BoothTyped
<1>4. t \in DOMAIN passes
  <2>1. t \in Nat /\ t <= Len(passes) /\ t # 0
    BY <1>1, <1>2 DEF BoothIInv, BoothTyped, TokensThere, InProgress, LiveToken
  <2> QED
    BY <1>3, <2>1
<1>5. PICK p \in PassRow : p = passes[t] /\ p.voter = v
  BY <1>2, <1>3, <1>4 DEF LiveToken
<1>6. CodesGrow
  BY <1>0, CodesStand
<1>7. RollGrows /\ voter'[v].status = "VOTED"
  <2>1. voter' = [voter EXCEPT ![v].status = "VOTED"]
    BY <1>1 DEF ConfirmsForm
  <2> QED
    BY <1>1, <1>2, <2>1, VotesOnRoll
<1>8. SameTokens(passes')
  <2>1. PICK q : q = [p EXCEPT !.status = "CONSUMED"]
    OBVIOUS
  <2>2. q \in PassRow /\ q.voter = p.voter /\ q.style = p.style
    BY <2>1 DEF PassRow
  <2>3. passes' = [passes EXCEPT ![t] = q]
    BY <1>1, <1>5, <2>1 DEF ConfirmsForm
  <2>4. passes' \in Seq(PassRow) /\ Len(passes') = Len(passes) /\ DOMAIN passes' = DOMAIN passes
    BY <1>3, <1>4, <2>2, <2>3, ExceptSeq
  <2>5. passes'[t] = q /\ \A i \in DOMAIN passes : i # t => passes'[i] = passes[i]
    BY <1>4, <2>3
  <2> QED
    BY <1>5, <2>2, <2>4, <2>5 DEF SameTokens
<1>9. PassesSound' /\ passes' \in Seq(PassRow) /\ Len(passes') = Len(passes)
  BY <1>6, <1>7, <1>8, SameTokensKeep
<1>10. Session'
  BY <1>0, <1>6, <1>7, <1>9, SignedOut
<1>11. PICK b : /\ casts' = casts \cup {b}
                /\ b = [voter |-> v, signed |-> v, form |-> form, selected |-> form, style |-> p.style]
  BY <1>1, <1>2, <1>5 DEF ConfirmsForm
<1>12. p.style \subseteq BallotStyle(Home[v], v)'
  <2>1. p.style \subseteq BallotStyle(Home[v], v)
    BY <1>4, <1>5 DEF BoothIInv, PassesSound, PassFits
  <2> QED
    BY <1>1, <1>7, <2>1, StyleGrows
<1>13. \A c \in casts : c.voter # v
  BY <1>2 DEF MayCast, BoothIInv, CastsSound
<1>14. PICK old : old = casts
  OBVIOUS
<1>15. \A c \in old : /\ c.voter = c.signed /\ c.form = c.selected /\ c.voter \in Voters
                      /\ voter'[c.voter].status = "VOTED"
  BY <1>7, <1>14 DEF BoothIInv, CastsSound, ConfirmedIsCast, RollGrows
<1>16. ASSUME NEW c \in old PROVE c.style \subseteq BallotStyle(Home[c.voter], c.voter)'
  <2>1. PICK w \in Voters : w = c.voter
    BY <1>15
  <2>2. c.style \subseteq BallotStyle(Home[w], w)
    BY <1>14, <2>1 DEF BoothIInv, CastsSound, ConfirmedIsCast
  <2>3. BallotStyle(Home[w], w) \subseteq BallotStyle(Home[w], w)'
    BY <1>7, StyleGrows
  <2> QED
    BY <2>1, <2>2, <2>3
<1>17. b.voter = v /\ b.signed = v /\ b.form = b.selected /\ b.style = p.style
  BY <1>11
<1>18. b.style \subseteq BallotStyle(Home[b.voter], b.voter)'
  BY <1>12, <1>17
<1>19. \A c, d \in casts' : c.voter = d.voter => c = d
  BY <1>11, <1>13, <1>17 DEF BoothIInv, CastsSound, ConfirmedIsCast
<1>20. ConfirmedIsCast'
  <2>1. ASSUME NEW c \in casts'
        PROVE  c.voter = c.signed /\ c.form = c.selected /\ c.style \subseteq BallotStyle(Home[c.voter], c.voter)'
    <3>1. CASE c = b
      BY <1>17, <1>18, <3>1
    <3>2. CASE c \in old
      BY <1>15, <1>16, <3>2
    <3> QED
      BY <1>11, <1>14, <2>1, <3>1, <3>2
  <2> QED
    BY <1>19, <2>1 DEF ConfirmedIsCast
<1>21. CastsSound'
  <2>1. \A c \in casts' : c.voter \in Voters /\ voter'[c.voter].status = "VOTED"
    BY <1>1, <1>7, <1>11, <1>14, <1>15, <1>17
  <2> QED
    BY <1>20, <2>1 DEF CastsSound
<1>22. hour' \in 0..LastHour /\ forms' \in 0..MaxForms
  BY <1>0, ClockAndForms
<1> QED
  BY <1>6, <1>7, <1>9, <1>10, <1>21, <1>22 DEF BoothIInv, BoothTyped, Session, CodesGrow, RollGrows

-----------------------------------------------------------------------------
(* Booth: the theorems.                                                      *)

LEMMA BoothStart == ASSUME BoothInit PROVE BoothIInv
<1>1. 0 \in 0..LastHour /\ 0 \in 0..MaxForms
  BY BoothNumbers
<1>2. voter \in [Voters -> OnRoll] /\ \A v \in Voters : voter[v].verified = {}
  BY DEF BoothInit, OnRoll
<1>3. NoBallot \in InProgress /\ NoBallot.token = 0
  BY DEF NoBallot, InProgress
<1>4. /\ codes = <<>> /\ passes = <<>> /\ slot = NoSlot /\ casts = {} /\ hour = 0 /\ forms = 0
      /\ signed = [e \in Elections |-> NotSigned] /\ progress = [e \in Elections |-> NoBallot]
  BY DEF BoothInit
<1>5. codes \in Seq(CodeRow) /\ passes \in Seq(PassRow) /\ Len(passes) = 0 /\ DOMAIN passes = {}
  BY <1>4
<1>6. BoothTyped
  BY <1>1, <1>2, <1>3, <1>4, <1>5 DEF BoothTyped
<1>7. RollSound /\ SlotSound /\ NothingLeftBehind
  BY <1>2, <1>4 DEF RollSound, SlotSound, NothingLeftBehind
<1>8. SignedSound
  BY <1>4 DEF SignedSound, SignedFor
<1>9. PassesSound /\ TokensThere
  BY <1>3, <1>4, <1>5 DEF PassesSound, TokensThere
<1>10. CastsSound
  BY <1>4 DEF CastsSound, ConfirmedIsCast
<1> QED
  BY <1>6, <1>7, <1>8, <1>9, <1>10 DEF BoothIInv

LEMMA BoothStep == ASSUME BoothIInv, [BoothNext]_boothVars PROVE BoothIInv'
<1>1. CASE UNCHANGED boothVars
  <2>1. /\ hour' = hour /\ forms' = forms
        /\ UNCHANGED <<hour, voter, codes, passes, signed, slot, progress, forms, casts>>
    BY <1>1 DEF boothVars
  <2>2. CodesGrow /\ RollGrows
    BY <2>1, CodesStand, RollStands
  <2>3. Session'
    BY <2>1, <2>2, SessionStands
  <2> QED
    BY <2>1, <2>2, <2>3, ClockAndForms, SessionIsAll
<1>2. CASE HourPasses
  BY <1>2, HourPassesKeeps
<1>3. CASE \E v \in Voters : VotesElsewhere(v)
  BY <1>3, VotesElsewhereKeeps
<1>4. CASE \E e \in Elections : \E v \in Voters, m \in SignInMethods[e] : SignsIn(e, v, m) \/ AsksForCode(e, v, m)
  BY <1>4, SignsInKeeps, AsksForCodeKeeps
<1>5. CASE \E e \in Elections : \E v \in Voters : SignsInBySso(e, v) \/ Registers(e, v)
  BY <1>5, SignsInBySsoKeeps, RegistersKeeps
<1>6. CASE \E e \in Elections : Resends(e) \/ GuessesWrong(e) \/ EntersCode(e)
  BY <1>6, ResendsKeeps, GuessesWrongKeeps, EntersCodeKeeps
<1>7. CASE \E e \in Elections : ShowsBallot(e) \/ Selects(e) \/ TurnsAway(e) \/ LeavesBooth(e)
  BY <1>7, ShowsBallotKeeps, SelectsKeeps, LeavesKeeps
<1>8. CASE \E e \in Elections : \E form \in 1..MaxForms : ConfirmsForm(e, form)
  BY <1>8, ConfirmsFormKeeps
<1> QED
  BY <1>1, <1>2, <1>3, <1>4, <1>5, <1>6, <1>7, <1>8 DEF BoothNext

LEMMA BoothFollow == ASSUME BoothIInv PROVE BoothTypeOK /\ BoothHolds
<1>1. BoothTypeOK
  BY NotSignedIsNobody DEF BoothIInv, BoothTyped, BoothTypeOK
<1>2. SecondFactorIsTheirs
  BY DEF BoothIInv, PassesSound, PassFits, Proved, SecondFactorIsTheirs
<1> QED
  BY <1>1, <1>2 DEF BoothIInv, CastsSound, BoothHolds

(* The invariant holds in every state. *)
THEOREM BoothInvariant == BoothSpec => []BoothIInv
<1>1. BoothInit => BoothIInv
  BY BoothStart
<1>2. BoothIInv /\ [BoothNext]_boothVars => BoothIInv'
  BY BoothStep
<1> QED
  BY <1>1, <1>2, PTL DEF BoothSpec

(* Types: whoever a session names is a voter. *)
THEOREM BoothTypeCorrect == BoothSpec => []BoothTypeOK
<1>1. BoothIInv => BoothTypeOK
  BY BoothFollow
<1> QED
  BY <1>1, BoothInvariant, PTL

(* vote_start, vote_otp, vote_ballot, vote_review: whoever takes turns at a  *)
(* browser and in whatever order, a ballot is issued only to who entered a   *)
(* code sent to them where two factors are required, is cast for who is      *)
(* signed in with the selections of the form confirmed, once, and leaves     *)
(* nothing behind.                                                           *)
THEOREM TheirOwnBallots == BoothSpec => []BoothHolds
<1>1. BoothIInv => BoothHolds
  BY BoothFollow
<1> QED
  BY <1>1, BoothInvariant, PTL

-----------------------------------------------------------------------------
(* Count: more on sums, and what is first or last in a finite set.           *)

(* A sum falls apart into the sums of two parts. *)
LEMMA SumSplits ==
  ASSUME NEW S, IsFiniteSet(S), NEW f, \A x \in S : f[x] \in Nat, NEW P \in SUBSET S
  PROVE  /\ SumOf(f, S) = SumOf(f, P) + SumOf(f, S \ P)
         /\ SumOf(f, P) \in Nat /\ SumOf(f, S \ P) \in Nat /\ SumOf(f, S) \in Nat
<1> DEFINE Bad == {t \in SUBSET S : P \subseteq t /\ SumOf(f, t) # SumOf(f, P) + SumOf(f, t \ P)}
<1>0. SumOf(f, P) \in Nat /\ SumOf(f, S \ P) \in Nat /\ SumOf(f, S) \in Nat
  <2>1. IsFiniteSet(P) /\ IsFiniteSet(S \ P)
    BY FS_Subset
  <2> QED
    BY <2>1, SumType
<1>1. SUFFICES ASSUME Bad # {} PROVE FALSE
  BY <1>0
<1>2. PICK T \in Bad : IsFiniteSet(T) /\ T \subseteq S /\ \A U \in SUBSET T : U # T => U \notin Bad
  <2>1. Bad \subseteq SUBSET S
    OBVIOUS
  <2> HIDE DEF Bad
  <2> QED
    BY <1>1, <2>1, Smallest
<1>3. T # P
  <2>1. SumOf(f, {}) = 0
    BY FS_EmptySet, SumUnfolds
  <2>2. SUFFICES ASSUME T = P PROVE FALSE
    OBVIOUS
  <2>3. SumOf(f, T) = SumOf(f, P) + SumOf(f, T \ P) /\ T \ P = {}
    <3>1. T \ P = {}
      BY <2>2
    <3> QED
      BY <1>0, <2>1, <2>2, <3>1
  <2> QED
    BY <1>2, <2>3
<1>4. PICK y \in T : y \notin P
  BY <1>2, <1>3
<1> DEFINE U == T \ {y}
<1>5. U \in SUBSET T /\ U # T /\ P \subseteq U /\ U \in SUBSET S
  BY <1>2, <1>4
<1>6. SumOf(f, U) = SumOf(f, P) + SumOf(f, U \ P)
  BY <1>2, <1>5
<1>7. SumOf(f, T) = f[y] + SumOf(f, U) /\ f[y] \in Nat
  BY <1>2, <1>4, SumTakes
<1>8. SumOf(f, T \ P) = f[y] + SumOf(f, U \ P) /\ SumOf(f, U \ P) \in Nat
  <2>1. IsFiniteSet(T \ P) /\ IsFiniteSet(U \ P) /\ y \in T \ P /\ U \ P = (T \ P) \ {y}
    <3>1. T \ P \subseteq S /\ U \ P \subseteq S
      BY <1>2
    <3> QED
      BY <1>4, <3>1, FS_Subset
  <2>2. (\A x \in T \ P : f[x] \in Nat) /\ (\A x \in U \ P : f[x] \in Nat)
    BY <1>2
  <2> HIDE DEF U
  <2> QED
    BY <2>1, <2>2, SumTakes, SumType
<1>9. SumOf(f, T) = SumOf(f, P) + SumOf(f, T \ P)
  <2> HIDE DEF U
  <2> QED
    BY <1>0, <1>6, <1>7, <1>8
<1> QED
  BY <1>2, <1>9

(* Nothing adds nothing. *)
LEMMA SumOfNothing ==
  ASSUME NEW S, IsFiniteSet(S), NEW f, \A x \in S : f[x] = 0
  PROVE  SumOf(f, S) = 0
<1> DEFINE Bad == {t \in SUBSET S : SumOf(f, t) # 0}
<1>1. SUFFICES ASSUME Bad # {} PROVE FALSE
  OBVIOUS
<1>2. PICK T \in Bad : IsFiniteSet(T) /\ T \subseteq S /\ \A U \in SUBSET T : U # T => U \notin Bad
  <2>1. Bad \subseteq SUBSET S
    OBVIOUS
  <2> HIDE DEF Bad
  <2> QED
    BY <1>1, <2>1, Smallest
<1>3. T # {}
  BY <1>2, SumUnfolds
<1> DEFINE U == T \ {FirstOf(T)}
<1>4. U \in SUBSET T /\ U # T /\ FirstOf(T) \in S
  BY <1>2, <1>3, FirstIsIn
<1>5. SumOf(f, U) = 0
  BY <1>2, <1>4
<1>6. SumOf(f, T) = f[FirstOf(T)] + SumOf(f, U) /\ f[FirstOf(T)] = 0
  BY <1>2, <1>3, <1>4, SumUnfolds
<1>7. SumOf(f, T) = 0
  <2> HIDE DEF U
  <2> QED
    BY <1>5, <1>6
<1> QED
  BY <1>2, <1>7

(* What counts in a part only is the sum over that part. *)
LEMMA SumOverPart ==
  ASSUME NEW S, IsFiniteSet(S), NEW f, NEW P \in SUBSET S, NEW g,
         \A x \in P : g[x] = f[x], \A x \in P : f[x] \in Nat, \A x \in S \ P : g[x] = 0
  PROVE  SumOf(g, S) = SumOf(f, P) /\ SumOf(f, P) \in Nat
<1>1. IsFiniteSet(P) /\ IsFiniteSet(S \ P)
  BY FS_Subset
<1>2. \A x \in S : g[x] \in Nat
  OBVIOUS
<1>3. SumOf(g, S) = SumOf(g, P) + SumOf(g, S \ P)
  BY <1>2, SumSplits
<1>4. SumOf(g, S \ P) = 0
  BY <1>1, SumOfNothing
<1>5. SumOf(g, P) = SumOf(f, P)
  BY <1>1, SumSame
<1>6. SumOf(f, P) \in Nat
  BY <1>1, SumType
<1> QED
  BY <1>3, <1>4, <1>5, <1>6

LEMMA Distributes ==
  ASSUME NEW a \in Int, NEW b \in Int, NEW c \in Int
  PROVE  a * (b + c) = a * b + a * c /\ a * (b - c) = a * b - a * c
         /\ (b + c) * a = b * a + c * a /\ (b - c) * a = b * a - c * a
  OBVIOUS

LEMMA ProductType ==
  ASSUME NEW a \in Nat, NEW b \in Nat
  PROVE  a * b \in Nat
  OBVIOUS

(* A factor common to all is a factor of the sum. *)
LEMMA SumScales ==
  ASSUME NEW S, IsFiniteSet(S), NEW f, \A x \in S : f[x] \in Nat, NEW a \in Nat,
         NEW g, \A x \in S : g[x] = a * f[x]
  PROVE  SumOf(g, S) = a * SumOf(f, S) /\ SumOf(f, S) \in Nat
<1> DEFINE Bad == {t \in SUBSET S : SumOf(g, t) # a * SumOf(f, t)}
<1>1. SUFFICES ASSUME Bad # {} PROVE FALSE
  BY SumType
<1>2. PICK T \in Bad : IsFiniteSet(T) /\ T \subseteq S /\ \A U \in SUBSET T : U # T => U \notin Bad
  <2>1. Bad \subseteq SUBSET S
    OBVIOUS
  <2> HIDE DEF Bad
  <2> QED
    BY <1>1, <2>1, Smallest
<1>3. T # {}
  <2>1. a * 0 = 0
    OBVIOUS
  <2> QED
    BY <1>2, <2>1, SumUnfolds
<1> DEFINE U == T \ {FirstOf(T)}
<1>4. U \in SUBSET T /\ U # T /\ FirstOf(T) \in S
  BY <1>2, <1>3, FirstIsIn
<1>5. SumOf(g, U) = a * SumOf(f, U)
  BY <1>2, <1>4
<1>6. /\ SumOf(f, T) = f[FirstOf(T)] + SumOf(f, U)
      /\ SumOf(g, T) = g[FirstOf(T)] + SumOf(g, U)
      /\ g[FirstOf(T)] = a * f[FirstOf(T)]
  BY <1>2, <1>3, <1>4, SumUnfolds
<1>7. f[FirstOf(T)] \in Nat /\ SumOf(f, U) \in Nat
  <2>1. IsFiniteSet(U) /\ U \subseteq S
    BY <1>2, <1>4, FS_Subset
  <2> HIDE DEF U
  <2> QED
    BY <1>4, <2>1, SumType
<1>8. SumOf(g, T) = a * SumOf(f, T)
  <2> HIDE DEF U
  <2>1. a * (f[FirstOf(T)] + SumOf(f, U)) = a * f[FirstOf(T)] + a * SumOf(f, U)
    BY <1>7, Distributes
  <2> QED
    BY <1>5, <1>6, <2>1
<1> QED
  BY <1>2, <1>8

(* So many numbers, none above the bound. *)
LEMMA SumBounded ==
  ASSUME NEW S, IsFiniteSet(S), NEW q \in Nat, NEW f, \A x \in S : f[x] \in Nat /\ f[x] <= q
  PROVE  SumOf(f, S) <= Cardinality(S) * q
<1> DEFINE Bad == {t \in SUBSET S : ~(SumOf(f, t) <= Cardinality(t) * q)}
<1>1. SUFFICES ASSUME Bad # {} PROVE FALSE
  OBVIOUS
<1>2. PICK T \in Bad : IsFiniteSet(T) /\ T \subseteq S /\ \A U \in SUBSET T : U # T => U \notin Bad
  <2>1. Bad \subseteq SUBSET S
    OBVIOUS
  <2> HIDE DEF Bad
  <2> QED
    BY <1>1, <2>1, Smallest
<1>3. T # {}
  <2>0. Cardinality({}) = 0 /\ IsFiniteSet({})
    BY FS_EmptySet
  <2>1. SumOf(f, {}) = 0
    BY <2>0, SumUnfolds
  <2>2. SumOf(f, {}) <= Cardinality({}) * q
    <3>1. 0 * q = 0
      OBVIOUS
    <3> QED
      BY <2>0, <2>1, <3>1
  <2> QED
    BY <1>2, <2>2
<1> DEFINE x == FirstOf(T)
           U == T \ {x}
<1>4. U \in SUBSET T /\ U # T /\ x \in S /\ x \in T
  BY <1>2, <1>3, FirstIsIn
<1>5. SumOf(f, U) <= Cardinality(U) * q
  BY <1>2, <1>4
<1>6. SumOf(f, T) = f[x] + SumOf(f, U) /\ f[x] \in Nat /\ f[x] <= q
  BY <1>2, <1>3, <1>4, SumUnfolds
<1>7. IsFiniteSet(U) /\ Cardinality(T) = Cardinality(U) + 1 /\ Cardinality(U) \in Nat
  <2>1. IsFiniteSet(U) /\ Cardinality(U) = Cardinality(T) - 1
    BY <1>2, <1>4, FS_RemoveElement
  <2>2. Cardinality(T) \in Nat /\ Cardinality(U) \in Nat
    BY <1>2, <2>1, FS_CardinalityType
  <2> QED
    BY <2>1, <2>2
<1>8. SumOf(f, U) \in Nat
  <2>1. U \subseteq S
    BY <1>2
  <2> HIDE DEF U
  <2> QED
    BY <1>7, <2>1, SumType
<1>9. SumOf(f, T) <= Cardinality(T) * q
  <2> HIDE DEF U, x
  <2>1. (Cardinality(U) + 1) * q = Cardinality(U) * q + q /\ Cardinality(U) * q \in Nat
    BY <1>7
  <2> QED
    BY <1>5, <1>6, <1>7, <1>8, <2>1
<1> QED
  BY <1>2, <1>9

(* What is counted for each of several groups is counted for the group it is *)
(* in, if the groups do not overlap.                                         *)
AllOf(G, E) == UNION {G[d] : d \in E}

LEMMA SumOfGroups ==
  ASSUME NEW S, IsFiniteSet(S), NEW f, \A x \in S : f[x] \in Nat,
         NEW D, IsFiniteSet(D), NEW G, \A d \in D : G[d] \in SUBSET S,
         \A d, e \in D : d # e => G[d] \cap G[e] = {},
         NEW t, \A d \in D : t[d] = SumOf(f, G[d])
  PROVE  SumOf(t, D) = SumOf(f, AllOf(G, D)) /\ SumOf(t, D) \in Nat
<1> USE DEF AllOf
<1> DEFINE All(E) == AllOf(G, E)
           Bad == {E \in SUBSET D : SumOf(t, E) # SumOf(f, All(E))}
<1>0. \A d \in D : t[d] \in Nat
  <2>1. \A d \in D : IsFiniteSet(G[d])
    BY FS_Subset
  <2> QED
    BY <2>1, SumType
<1>00. SumOf(t, D) \in Nat
  BY <1>0, SumType
<1>1. SUFFICES ASSUME Bad # {} PROVE FALSE
  BY <1>00
<1>2. PICK E \in Bad : IsFiniteSet(E) /\ E \subseteq D /\ \A U \in SUBSET E : U # E => U \notin Bad
  <2>1. Bad \subseteq SUBSET D
    OBVIOUS
  <2> HIDE DEF Bad
  <2> QED
    BY <1>1, <2>1, Smallest
<1>3. E # {}
  <2>1. All({}) = {} /\ IsFiniteSet({})
    BY FS_EmptySet
  <2>2. SumOf(t, {}) = 0 /\ SumOf(f, {}) = 0
    BY <2>1, SumUnfolds
  <2> QED
    BY <1>2, <2>1, <2>2
<1> DEFINE d == FirstOf(E)
           U == E \ {d}
<1>4. U \in SUBSET E /\ U # E /\ d \in D /\ d \in E /\ U \subseteq D
  BY <1>2, <1>3, FirstIsIn
<1>5. SumOf(t, U) = SumOf(f, All(U))
  BY <1>2, <1>4
<1>6. SumOf(t, E) = t[d] + SumOf(t, U)
  BY <1>2, <1>3, SumUnfolds
<1>7. /\ All(E) \subseteq S /\ G[d] \subseteq All(E) /\ All(E) \ G[d] = All(U)
  <2>1. All(E) = G[d] \cup All(U)
    BY <1>4
  <2>2. G[d] \cap All(U) = {}
    BY <1>4
  <2>3. All(E) \subseteq S
    BY <1>2
  <2> HIDE DEF All
  <2> QED
    BY <2>1, <2>2, <2>3
<1>8. SumOf(f, All(E)) = SumOf(f, G[d]) + SumOf(f, All(U))
  <2>1. IsFiniteSet(All(E)) /\ \A x \in All(E) : f[x] \in Nat
    BY <1>7, FS_Subset
  <2> HIDE DEF All, d, U
  <2> QED
    BY <1>7, <2>1, SumSplits
<1>9. SumOf(t, E) = SumOf(f, All(E))
  <2>1. t[d] = SumOf(f, G[d])
    BY <1>4
  <2> HIDE DEF All, d, U
  <2> QED
    BY <1>5, <1>6, <1>8, <2>1
<1> QED
  BY <1>2, <1>9

(* In a finite set something has the most, and something the least. *)
LEMMA SomeMost ==
  ASSUME NEW S, IsFiniteSet(S), S # {}, NEW f, \A x \in S : f[x] \in Int
  PROVE  \E x \in S : \A y \in S : f[y] <= f[x]
<1> DEFINE Bad == {t \in SUBSET S : t # {} /\ ~\E x \in t : \A y \in t : f[y] <= f[x]}
<1>1. SUFFICES ASSUME Bad # {} PROVE FALSE
  OBVIOUS
<1>2. PICK T \in Bad : IsFiniteSet(T) /\ T \subseteq S /\ \A U \in SUBSET T : U # T => U \notin Bad
  <2>1. Bad \subseteq SUBSET S
    OBVIOUS
  <2> HIDE DEF Bad
  <2> QED
    BY <1>1, <2>1, Smallest
<1>3. PICK y \in T : TRUE
  BY <1>2
<1> DEFINE U == T \ {y}
<1>4. U \in SUBSET T /\ U # T /\ U \in SUBSET S
  BY <1>2, <1>3
<1>5. CASE U = {}
  <2>1. T = {y} /\ f[y] \in Int
    BY <1>2, <1>3, <1>5
  <2> QED
    BY <1>2, <2>1
<1>6. CASE U # {}
  <2>1. PICK x \in U : \A z \in U : f[z] <= f[x]
    BY <1>2, <1>4, <1>6
  <2>2. \A z \in T : f[z] \in Int
    BY <1>2
  <2>3. CASE f[y] <= f[x]
    BY <1>2, <2>1, <2>3
  <2>4. CASE f[x] <= f[y]
    <3>1. ASSUME NEW z \in T PROVE f[z] <= f[y]
      <4>1. z = y \/ f[z] <= f[x]
        BY <2>1
      <4> QED
        BY <1>3, <2>1, <2>2, <2>4, <4>1
    <3> QED
      BY <1>2, <1>3, <3>1
  <2> QED
    BY <1>3, <2>1, <2>2, <2>3, <2>4
<1> QED
  BY <1>5, <1>6

LEMMA SomeLeast ==
  ASSUME NEW S, IsFiniteSet(S), S # {}, NEW f, \A x \in S : f[x] \in Int
  PROVE  \E x \in S : \A y \in S : f[x] <= f[y]
<1> DEFINE g == [x \in S |-> 0 - f[x]]
<1>1. \A x \in S : g[x] = 0 - f[x] /\ g[x] \in Int
  OBVIOUS
<1> HIDE DEF g
<1>2. PICK x \in S : \A y \in S : g[y] <= g[x]
  BY <1>1, SomeMost
<1>3. \A y \in S : f[x] <= f[y]
  BY <1>1, <1>2
<1> QED
  BY <1>3

-----------------------------------------------------------------------------
(* Count: the sums of the model are such sums.                               *)

Weigh(b, w, F) == [s \in F |-> b[s] * w[s]]

LEMMA ProductsAdded ==
  ASSUME NEW b, NEW of, NEW S, IsFiniteSet(S)
  PROVE  MapThenSumSet(LAMBDA s : b[s] * of[s], S) = SumOf(Weigh(b, of, S), S)
<1> DEFINE g == Weigh(b, of, S)
<1>0. \A p \in S : g[p] = b[p] * of[p]
  BY DEF Weigh
<1>1. ASSUME NEW i
      PROVE  i = [s \in SUBSET S |-> IF s = {} THEN 0 ELSE (b[CHOOSE x \in s : TRUE] * of[CHOOSE x \in s : TRUE]) + i[s \ {CHOOSE x \in s : TRUE}]]
               <=> Adds(i, g, S)
  <2>1. \A s \in SUBSET S : s # {} => g[FirstOf(s)] = b[FirstOf(s)] * of[FirstOf(s)]
    BY <1>0, FirstIsIn
  <2> HIDE DEF g
  <2> QED
    BY <2>1 DEF Adds, FirstOf
<1>2. (CHOOSE i : i = [s \in SUBSET S |-> IF s = {} THEN 0 ELSE (b[CHOOSE x \in s : TRUE] * of[CHOOSE x \in s : TRUE]) + i[s \ {CHOOSE x \in s : TRUE}]])
        = CHOOSE i : Adds(i, g, S)
  BY <1>1, Zenon
<1> QED
  BY <1>0, <1>2 DEF MapThenSumSet, MapThenFoldSet, SumOf

LEMMA ValuesAdded ==
  ASSUME NEW g, NEW S, IsFiniteSet(S)
  PROVE  MapThenSumSet(LAMBDA d : g[d], S) = SumOf(g, S)
<1>1. ASSUME NEW i
      PROVE  i = [s \in SUBSET S |-> IF s = {} THEN 0 ELSE g[CHOOSE x \in s : TRUE] + i[s \ {CHOOSE x \in s : TRUE}]]
               <=> Adds(i, g, S)
  BY DEF Adds, FirstOf
<1>2. (CHOOSE i : i = [s \in SUBSET S |-> IF s = {} THEN 0 ELSE g[CHOOSE x \in s : TRUE] + i[s \ {CHOOSE x \in s : TRUE}]])
        = CHOOSE i : Adds(i, g, S)
  BY <1>1, Zenon
<1> QED
  BY <1>2 DEF MapThenSumSet, MapThenFoldSet, SumOf

LEMMA CopiesAre ==
  ASSUME IsFiniteSet(Forms), NEW of
  PROVE  Copies(of) = SumOf(Weigh(box, of, Forms), Forms)
  BY ProductsAdded DEF Copies, MapThenSumSet, MapThenFoldSet

(* How many ballots put the candidates of C first. *)
SolidIn(b, F, C) == SumOf(b, {s \in F : InFront(s, C)})

LEMMA Multiplied ==
  ASSUME NEW b, NEW F, NEW w
  PROVE  \A s \in F : Weigh(b, w, F)[s] = b[s] * w[s]
  BY DEF Weigh

LEMMA ValidIs ==
  IsFiniteSet(Forms) /\ (\A s \in Forms : box[s] \in Nat) => Valid = SumOf(box, Forms) /\ Valid \in Nat
<1> SUFFICES ASSUME IsFiniteSet(Forms), \A s \in Forms : box[s] \in Nat
             PROVE  Valid = SumOf(box, Forms) /\ Valid \in Nat
  OBVIOUS
<1> DEFINE one == [s \in Forms |-> 1]
<1>1. Valid = SumOf(Weigh(box, one, Forms), Forms)
  BY CopiesAre DEF Valid
<1>2. \A s \in Forms : Weigh(box, one, Forms)[s] = box[s]
  <2>1. \A s \in Forms : one[s] = 1
    OBVIOUS
  <2> HIDE DEF one
  <2> QED
    BY <2>1, Multiplied
<1> HIDE DEF one
<1>3. SumOf(Weigh(box, one, Forms), Forms) = SumOf(box, Forms)
  BY <1>2, SumSame
<1> QED
  BY <1>1, <1>3, SumType

LEMMA SolidIs ==
  IsFiniteSet(Forms) /\ (\A s \in Forms : box[s] \in Nat)
    => \A C : Solid(C) = SolidIn(box, Forms, C) /\ Solid(C) \in Nat /\ Solid(C) <= SumOf(box, Forms)
<1> SUFFICES ASSUME IsFiniteSet(Forms), \A s \in Forms : box[s] \in Nat, NEW C
             PROVE  Solid(C) = SolidIn(box, Forms, C) /\ Solid(C) \in Nat /\ Solid(C) <= SumOf(box, Forms)
  OBVIOUS
<1> DEFINE of == [s \in Forms |-> IF InFront(s, C) THEN 1 ELSE 0]
           P == {s \in Forms : InFront(s, C)}
<1>1. Solid(C) = SumOf(Weigh(box, of, Forms), Forms)
  BY CopiesAre DEF Solid
<1>2. /\ \A s \in P : Weigh(box, of, Forms)[s] = box[s]
      /\ \A s \in Forms \ P : Weigh(box, of, Forms)[s] = 0
  <2>1. (\A s \in P : of[s] = 1) /\ (\A s \in Forms \ P : of[s] = 0)
    OBVIOUS
  <2> HIDE DEF of
  <2> QED
    BY <2>1, Multiplied
<1>3. P \in SUBSET Forms
  OBVIOUS
<1> HIDE DEF of
<1>4. SumOf(Weigh(box, of, Forms), Forms) = SumOf(box, P) /\ SumOf(box, P) \in Nat
  <2> HIDE DEF P
  <2> QED
    BY <1>2, <1>3, SumOverPart
<1>5. SumOf(box, P) <= SumOf(box, Forms)
  BY <1>3, SumOfPart
<1> QED
  BY <1>1, <1>4, <1>5 DEF SolidIn

-----------------------------------------------------------------------------
(* Count: seats by votes. Ahead of a candidate are those with more votes or  *)
(* as many and an earlier name; the first so many have fewer ahead of them.  *)

AheadOf(v, c) == {d \in DOMAIN v : v[d] > v[c] \/ (v[d] = v[c] /\ d < c)}

LEMMA Fewer ==
  ASSUME NEW K, IsFiniteSet(K), NEW A \in SUBSET K, NEW B \in SUBSET K, A \subseteq B
  PROVE  /\ Cardinality(A) \in Nat /\ Cardinality(B) \in Nat /\ Cardinality(A) <= Cardinality(B)
         /\ IsFiniteSet(A) /\ IsFiniteSet(B)
<1>1. IsFiniteSet(A) /\ IsFiniteSet(B)
  BY FS_Subset
<1> QED
  BY <1>1, FS_Subset, FS_CardinalityType

LEMMA OneMore ==
  ASSUME NEW K, IsFiniteSet(K), NEW B \in SUBSET K, NEW y \in B
  PROVE  Cardinality(B) = Cardinality(B \ {y}) + 1 /\ Cardinality(B \ {y}) \in Nat
<1>1. IsFiniteSet(B) /\ Cardinality(B) \in Nat
  BY FS_Subset, FS_CardinalityType
<1>2. IsFiniteSet(B \ {y}) /\ Cardinality(B \ {y}) = Cardinality(B) - 1
  BY <1>1, FS_RemoveElement
<1> QED
  BY <1>1, <1>2, FS_CardinalityType

LEMMA SeatsByVotes ==
  ASSUME NEW K, IsFiniteSet(K), K \subseteq Nat, NEW v \in [K -> Nat], Seats \in Nat
  PROVE  LET won == {c \in K : Cardinality(NotBehindOf(v, c)) < Seats}
         IN  WinnersWithTies(v) = <<won, {c \in K \ won : Cardinality(MoreThan(v, c)) < Seats}>>
<1> DEFINE n == Seats
           first == FirstRanked(v, n)
           won == {c \in K : Cardinality(NotBehindOf(v, c)) < n}
           open == {c \in K \ won : Cardinality(MoreThan(v, c)) < n}
<1>0. DOMAIN v = K /\ \A c \in K : v[c] \in Nat /\ c \in Nat
  OBVIOUS
<1>1. \A c \in K : /\ AheadOf(v, c) \in SUBSET K /\ NotBehindOf(v, c) \in SUBSET K /\ MoreThan(v, c) \in SUBSET K
                   /\ AheadOf(v, c) \subseteq NotBehindOf(v, c) /\ MoreThan(v, c) \subseteq AheadOf(v, c)
  <2>1. ASSUME NEW c \in K
        PROVE  /\ AheadOf(v, c) \in SUBSET K /\ NotBehindOf(v, c) \in SUBSET K /\ MoreThan(v, c) \in SUBSET K
               /\ MoreThan(v, c) \subseteq AheadOf(v, c)
    BY <1>0 DEF AheadOf, NotBehindOf, MoreThan
  <2>2. ASSUME NEW c \in K, NEW d \in AheadOf(v, c) PROVE d \in NotBehindOf(v, c)
    <3>1. d \in K /\ v[d] \in Nat /\ v[c] \in Nat /\ d \in Nat /\ c \in Nat
      BY <1>0, <2>2 DEF AheadOf
    <3>2. v[d] > v[c] \/ (v[d] = v[c] /\ d < c)
      BY <2>2 DEF AheadOf
    <3>3. d # c /\ v[d] >= v[c]
      BY <3>1, <3>2
    <3> QED
      BY <1>0, <3>1, <3>3 DEF NotBehindOf
  <2> QED
    BY <2>1, <2>2
<1>2. \A c \in K : /\ Cardinality(AheadOf(v, c)) \in Nat /\ Cardinality(NotBehindOf(v, c)) \in Nat
                   /\ Cardinality(MoreThan(v, c)) \in Nat
                   /\ Cardinality(AheadOf(v, c)) <= Cardinality(NotBehindOf(v, c))
                   /\ Cardinality(MoreThan(v, c)) <= Cardinality(AheadOf(v, c))
  BY <1>1, Fewer
<1>3. first = {c \in K : Cardinality(AheadOf(v, c)) < n}
  BY <1>0 DEF FirstRanked, AheadOf
<1>5. n \in Nat
  OBVIOUS
<1>4. won \subseteq first /\ first \subseteq K /\ IsFiniteSet(first)
  <2>1. won \subseteq first /\ first \subseteq K
    <3>1. ASSUME NEW c \in won PROVE c \in first
      <4>1. c \in K /\ Cardinality(NotBehindOf(v, c)) < n
        OBVIOUS
      <4> HIDE DEF n, first, won
      <4> QED
        BY <1>2, <1>3, <1>5, <4>1
    <3>2. first \subseteq K
      <4> HIDE DEF n, first
      <4> QED
        BY <1>3
    <3> QED
      BY <3>1, <3>2
  <2> QED
    BY <2>1, FS_Subset
<1> HIDE DEF n, first, won, open
<1>w. \A c \in K : c \in won <=> Cardinality(NotBehindOf(v, c)) < n
  BY DEF won
<1>o. \A c : c \in open <=> c \in K /\ c \notin won /\ Cardinality(MoreThan(v, c)) < n
  BY DEF open
<1>ws. won \subseteq K
  BY DEF won
(* Nobody is first: there is no seat, or nobody stands.                      *)
<1>6. CASE first = {}
  <2>1. K = {} \/ n = 0
    <3>1. SUFFICES ASSUME K # {} PROVE n = 0
      OBVIOUS
    <3>2. PICK b \in K : \A d \in K : v[d] <= v[b]
      <4>1. \A d \in K : v[d] \in Int
        BY <1>0
      <4> QED
        BY <3>1, <4>1, SomeMost
    <3> DEFINE top == {d \in K : v[d] = v[b]}
               id == [d \in K |-> d]
    <3>3. IsFiniteSet(top) /\ top # {} /\ \A d \in top : id[d] = d /\ id[d] \in Int
      <4>1. top \subseteq K /\ b \in top
        BY <1>0
      <4> QED
        BY <1>0, <4>1, FS_Subset
    <3> HIDE DEF id
    <3>4. PICK c \in top : \A d \in top : id[c] <= id[d]
      <4> HIDE DEF top
      <4> QED
        BY <3>3, SomeLeast
    <3>5. AheadOf(v, c) = {} /\ c \in K
      <4>1. ASSUME NEW d \in K, v[d] > v[c] \/ (v[d] = v[c] /\ d < c) PROVE FALSE
        <5>1. v[c] = v[b] /\ v[d] <= v[b] /\ v[c] \in Nat /\ v[d] \in Nat /\ c \in Nat /\ d \in Nat
          BY <1>0, <3>2
        <5>2. v[d] = v[c] /\ d < c
          BY <4>1, <5>1
        <5>3. id[c] <= id[d] /\ id[c] = c /\ id[d] = d
          BY <3>3, <3>4, <5>1, <5>2
        <5> QED
          BY <5>1, <5>2, <5>3
      <4> QED
        BY <1>0, <4>1 DEF AheadOf
    <3>6. Cardinality(AheadOf(v, c)) = 0
      BY <3>5, FS_EmptySet
    <3> QED
      BY <1>3, <1>5, <1>6, <3>5, <3>6
  <2>2. won = {} /\ open = {}
    <3>1. \A c \in K : ~(Cardinality(MoreThan(v, c)) < n)
      BY <1>2, <1>5, <2>1
    <3> QED
      BY <1>4, <1>6, <1>o, <3>1
  <2>3. WinnersWithTies(v) = <<first, {}>>
    BY <1>6 DEF WinnersWithTies, first, n
  <2> QED
    BY <1>6, <2>2, <2>3 DEF won, open, n
(* Otherwise somebody is first with the fewest votes of the first.           *)
<1>7. CASE first # {}
  <2> DEFINE cutoff == CHOOSE m \in {v[c] : c \in first} : \A c \in first : m <= v[c]
             tied == {c \in K : v[c] = cutoff}
             high == {c \in K : v[c] >= cutoff}
  <2>1. PICK y \in first : \A c \in first : v[y] <= v[c]
    <3>1. \A c \in first : v[c] \in Int
      BY <1>0, <1>4
    <3> QED
      BY <1>4, <1>7, <3>1, SomeLeast
  <2>2. cutoff = v[y]
    <3>1. v[y] \in {v[c] : c \in first} /\ \A c \in first : v[y] <= v[c]
      BY <2>1
    <3>2. cutoff \in {v[c] : c \in first} /\ \A c \in first : cutoff <= v[c]
      BY <3>1
    <3>3. PICK z \in first : cutoff = v[z]
      BY <3>2
    <3>4. cutoff <= v[y] /\ v[y] <= v[z] /\ v[y] \in Nat /\ v[z] \in Nat
      BY <1>0, <1>4, <2>1, <3>2
    <3> HIDE DEF cutoff
    <3> QED
      BY <3>3, <3>4
  <2>3. WinnersWithTies(v) = IF ~(tied \subseteq first) THEN <<{c \in first : v[c] > cutoff}, tied>>
                             ELSE <<first, {}>>
    BY <1>0, <1>7 DEF WinnersWithTies, first, n
  <2> HIDE DEF cutoff
  <2>4. cutoff \in Nat /\ y \in K /\ \A c \in first : cutoff <= v[c]
    BY <1>0, <1>4, <2>1, <2>2
  <2>5. \A c \in K : c \in first <=> Cardinality(AheadOf(v, c)) < n
    BY <1>3
  (* More votes than the last of the first: sure of a seat.                  *)
  <2>6. ASSUME NEW c \in K, v[c] > cutoff PROVE c \in won
    <3>1. c \in AheadOf(v, y) /\ NotBehindOf(v, c) \subseteq AheadOf(v, y) \ {c}
      <4>1. c \in AheadOf(v, y)
        BY <1>0, <2>2, <2>4, <2>6 DEF AheadOf
      <4>2. ASSUME NEW d \in K, d # c, v[d] >= v[c] PROVE d \in AheadOf(v, y)
        <5>1. v[d] > v[y]
          BY <1>0, <2>2, <2>4, <2>6, <4>2
        <5> QED
          BY <1>0, <5>1 DEF AheadOf
      <4> QED
        BY <1>0, <4>1, <4>2 DEF NotBehindOf
    <3>2. Cardinality(AheadOf(v, y)) = Cardinality(AheadOf(v, y) \ {c}) + 1 /\ Cardinality(AheadOf(v, y) \ {c}) \in Nat
      BY <1>1, <2>4, <3>1, OneMore
    <3>3. Cardinality(NotBehindOf(v, c)) <= Cardinality(AheadOf(v, y) \ {c})
      <4>1. AheadOf(v, y) \ {c} \in SUBSET K /\ NotBehindOf(v, c) \in SUBSET K
        BY <1>1, <2>4
      <4> QED
        BY <3>1, <4>1, Fewer
    <3>4. Cardinality(AheadOf(v, y)) < n
      BY <2>4, <2>5
    <3> QED
      BY <1>2, <1>5, <1>w, <3>2, <3>3, <3>4
  (* Fewer votes: none.                                                      *)
  <2>7. ASSUME NEW c \in K, c \in first PROVE v[c] >= cutoff
    BY <1>0, <2>4, <2>7
  <2>8. CASE ~(tied \subseteq first)
    <3>1. PICK z \in tied : z \notin first
      BY <2>8
    <3>2. z \in K /\ v[z] = cutoff /\ ~(Cardinality(AheadOf(v, z)) < n) /\ Cardinality(AheadOf(v, z)) \in Nat
      BY <1>2, <2>5, <3>1
    <3>3. won = {c \in first : v[c] > cutoff}
      <4>1. ASSUME NEW c \in won PROVE c \in first /\ v[c] > cutoff
        <5>1. c \in first /\ c \in K /\ v[c] >= cutoff /\ v[c] \in Nat
          BY <1>0, <1>4, <1>ws, <2>7, <4>1
        <5>2. ASSUME v[c] = cutoff PROVE FALSE
          <6>1. z # c
            BY <3>1, <5>1
          <6>2. z \in NotBehindOf(v, c) /\ NotBehindOf(v, c) \in SUBSET K
            BY <1>0, <1>1, <2>4, <3>2, <5>1, <5>2, <6>1 DEF NotBehindOf
          <6>3. AheadOf(v, z) \subseteq (NotBehindOf(v, c) \ {z}) \cup {c}
            <7>1. ASSUME NEW d \in K, v[d] > v[z] \/ (v[d] = v[z] /\ d < z), d # c
                  PROVE  d \in NotBehindOf(v, c) \ {z}
              <8>1. v[d] >= v[c]
                BY <1>0, <2>4, <3>2, <5>2, <7>1
              <8>2. d # z
                BY <1>0, <3>2, <7>1
              <8> QED
                BY <1>0, <7>1, <8>1, <8>2 DEF NotBehindOf
            <7> QED
              BY <1>0, <7>1 DEF AheadOf
          <6> DEFINE B == NotBehindOf(v, c) \ {z}
          <6>4. Cardinality(NotBehindOf(v, c)) = Cardinality(B) + 1 /\ Cardinality(B) \in Nat
            BY <6>2, OneMore
          <6>5. c \notin B /\ B \cup {c} \in SUBSET K
            BY <5>1, <6>2 DEF NotBehindOf
          <6>6. Cardinality(AheadOf(v, z)) <= Cardinality(B \cup {c})
            <7>1. AheadOf(v, z) \in SUBSET K
              BY <1>1, <3>2
            <7> HIDE DEF B
            <7> QED
              BY <6>3, <6>5, <7>1, Fewer DEF B
          <6>7. Cardinality(B \cup {c}) = Cardinality(B) + 1
            <7>1. (B \cup {c}) \ {c} = B
              BY <6>5
            <7> HIDE DEF B
            <7> QED
              BY <6>5, <7>1, OneMore
          <6>8. Cardinality(NotBehindOf(v, c)) < n
            BY <1>w, <4>1, <5>1
          <6> HIDE DEF B
          <6> QED
            BY <1>5, <3>2, <6>4, <6>6, <6>7, <6>8
        <5> QED
          BY <2>4, <5>1, <5>2
      <4>2. ASSUME NEW c \in first, v[c] > cutoff PROVE c \in won
        BY <1>4, <2>6, <4>2
      <4> QED
        BY <4>1, <4>2
    <3>4. open = tied
      <4>1. ASSUME NEW c \in tied PROVE c \in open
        <5>1. c \in K /\ v[c] = cutoff /\ c \notin won
          BY <2>4, <3>3
        <5>2. MoreThan(v, c) \subseteq AheadOf(v, y)
          BY <1>0, <2>2, <5>1 DEF MoreThan, AheadOf
        <5>3. Cardinality(MoreThan(v, c)) <= Cardinality(AheadOf(v, y))
          <6>1. MoreThan(v, c) \in SUBSET K /\ AheadOf(v, y) \in SUBSET K
            BY <1>1, <2>4, <5>1
          <6> QED
            BY <5>2, <6>1, Fewer
        <5>4. Cardinality(AheadOf(v, y)) < n
          BY <2>4, <2>5
        <5> QED
          BY <1>2, <1>5, <1>o, <2>4, <5>1, <5>3, <5>4
      <4>2. ASSUME NEW c \in open PROVE c \in tied
        <5>1. c \in K /\ c \notin won /\ Cardinality(MoreThan(v, c)) < n /\ v[c] \in Nat
          BY <1>0, <1>o
        <5>2. ~(v[c] > cutoff)
          BY <2>6, <5>1
        <5>3. ASSUME v[c] < cutoff PROVE FALSE
          <6>1. AheadOf(v, z) \subseteq MoreThan(v, c)
            <7>1. ASSUME NEW d \in K, v[d] > v[z] \/ v[d] = v[z] PROVE v[d] > v[c]
              BY <1>0, <2>4, <3>2, <5>1, <5>3, <7>1
            <7> QED
              BY <1>0, <7>1 DEF AheadOf, MoreThan
          <6>2. Cardinality(AheadOf(v, z)) <= Cardinality(MoreThan(v, c))
            <7>1. MoreThan(v, c) \in SUBSET K /\ AheadOf(v, z) \in SUBSET K
              BY <1>1, <3>2, <5>1
            <7> QED
              BY <6>1, <7>1, Fewer
          <6> QED
            BY <1>2, <1>5, <3>2, <5>1, <6>2
        <5> QED
          BY <2>4, <5>1, <5>2, <5>3
      <4> QED
        BY <4>1, <4>2
    <3> QED
      BY <2>3, <2>8, <3>3, <3>4 DEF won, open, n
  <2>9. CASE tied \subseteq first
    <3>1. high \subseteq first /\ high \in SUBSET K /\ tied \in SUBSET K /\ y \in tied
      <4>1. ASSUME NEW c \in high PROVE c \in first
        <5>1. c \in tied \/ v[c] > cutoff
          BY <1>0, <2>4
        <5> QED
          BY <1>4, <2>6, <2>9, <5>1
      <4> QED
        BY <2>2, <2>4, <4>1
    (* The last of the tied by name has all the others that reach the cutoff *)
    (* ahead of it.                                                          *)
    <3>2. PICK m \in tied : \A d \in tied : d <= m
      <4> DEFINE id == [d \in K |-> d]
      <4>1. IsFiniteSet(tied) /\ tied # {} /\ \A d \in tied : id[d] = d /\ id[d] \in Int
        BY <1>0, <3>1, FS_Subset
      <4> HIDE DEF id, tied
      <4>2. PICK m \in tied : \A d \in tied : id[d] <= id[m]
        BY <4>1, SomeMost
      <4> QED
        BY <4>1, <4>2
    <3>3. m \in K /\ m \in first /\ m \in high /\ v[m] = cutoff /\ AheadOf(v, m) = high \ {m}
      <4>1. m \in K /\ m \in first /\ m \in high /\ v[m] = cutoff
        BY <2>4, <2>9, <3>2
      <4>2. ASSUME NEW d \in K PROVE (v[d] > v[m] \/ (v[d] = v[m] /\ d < m)) <=> (v[d] >= cutoff /\ d # m)
        <5>1. v[d] \in Nat /\ d \in Nat /\ m \in Nat
          BY <1>0, <4>1
        <5>2. v[d] = cutoff => d <= m
          BY <3>2
        <5> QED
          BY <2>4, <4>1, <5>1, <5>2
      <4> QED
        BY <1>0, <4>1, <4>2 DEF AheadOf
    <3>4. Cardinality(high) <= n
      <4>1. Cardinality(high) = Cardinality(high \ {m}) + 1 /\ Cardinality(high \ {m}) \in Nat
        <5> HIDE DEF high
        <5> QED
          BY <3>1, <3>3, OneMore
      <4>2. Cardinality(high \ {m}) < n
        BY <2>5, <3>3
      <4> HIDE DEF high
      <4> QED
        BY <1>5, <4>1, <4>2
    <3>5. won = first
      <4>1. ASSUME NEW c \in first PROVE c \in won
        <5>1. c \in K /\ c \in high /\ NotBehindOf(v, c) \subseteq high \ {c}
          <6>1. c \in K /\ v[c] >= cutoff
            BY <1>4, <2>7
          <6>2. ASSUME NEW d \in K, v[d] >= v[c] PROVE v[d] >= cutoff
            BY <1>0, <2>4, <6>1, <6>2
          <6> QED
            BY <1>0, <6>1, <6>2 DEF NotBehindOf
        <5>2. Cardinality(high) = Cardinality(high \ {c}) + 1 /\ Cardinality(high \ {c}) \in Nat
          <6> HIDE DEF high
          <6> QED
            BY <3>1, <5>1, OneMore
        <5>3. Cardinality(NotBehindOf(v, c)) <= Cardinality(high \ {c})
          <6>1. NotBehindOf(v, c) \in SUBSET K /\ high \ {c} \in SUBSET K
            BY <1>1, <3>1, <5>1
          <6> HIDE DEF high
          <6> QED
            BY <5>1, <6>1, Fewer
        <5> HIDE DEF high
        <5> QED
          BY <1>2, <1>5, <1>w, <3>4, <5>1, <5>2, <5>3
      <4> QED
        BY <1>4, <4>1
    <3>6. open = {}
      <4>1. SUFFICES ASSUME NEW c \in open PROVE FALSE
        OBVIOUS
      <4>2. c \in K /\ c \notin first /\ Cardinality(MoreThan(v, c)) < n /\ v[c] < cutoff
        <5>1. c \in K /\ c \notin first /\ Cardinality(MoreThan(v, c)) < n
          BY <1>o, <3>5, <4>1
        <5>2. c \notin high
          BY <3>1, <5>1
        <5> QED
          BY <1>0, <2>4, <5>1, <5>2
      (* Of those who are not first, one has only the first ahead.           *)
      <4> DEFINE rest == K \ first
                 id == [d \in K |-> d]
      <4>3. IsFiniteSet(rest) /\ c \in rest /\ \A d \in rest : v[d] \in Int /\ id[d] = d /\ id[d] \in Int
        <5>1. rest \subseteq K
          OBVIOUS
        <5> QED
          BY <1>0, <4>2, <5>1, FS_Subset
      <4>4. PICK b \in rest : \A d \in rest : v[d] <= v[b]
        <5> HIDE DEF rest, id
        <5> QED
          BY <4>3, SomeMost
      <4> DEFINE top == {d \in rest : v[d] = v[b]}
      <4>5. PICK e \in top : \A d \in top : id[e] <= id[d]
        <5>1. IsFiniteSet(top) /\ b \in top /\ \A d \in top : id[d] \in Int
          <6>1. top \subseteq rest /\ b \in top
            OBVIOUS
          <6> HIDE DEF rest, top, id
          <6> QED
            BY <4>3, <6>1, FS_Subset
        <5> HIDE DEF rest, top, id
        <5> QED
          BY <5>1, SomeLeast
      <4>6. e \in K /\ e \notin first /\ AheadOf(v, e) \subseteq first
        <5>1. ASSUME NEW d \in K, d \notin first, v[d] > v[e] \/ (v[d] = v[e] /\ d < e) PROVE FALSE
          <6>1. /\ d \in rest /\ e \in rest /\ v[e] = v[b] /\ v[d] <= v[b]
                /\ v[d] \in Nat /\ v[e] \in Nat /\ d \in Nat /\ e \in Nat
            BY <1>0, <4>4, <5>1
          <6>2. v[d] = v[e] /\ d < e
            BY <5>1, <6>1
          <6>3. d \in top
            BY <6>1, <6>2
          <6>4. e <= d
            BY <4>3, <4>5, <6>1, <6>3
          <6> QED
            BY <6>1, <6>2, <6>4
        <5> QED
          BY <1>0, <5>1 DEF AheadOf
      <4>7. AheadOf(v, e) \subseteq MoreThan(v, c)
        <5>1. ASSUME NEW d \in first PROVE d \in MoreThan(v, c)
          <6>1. d \in K /\ v[d] >= cutoff
            BY <1>4, <2>7, <5>1
          <6> QED
            BY <1>0, <2>4, <4>2, <6>1 DEF MoreThan
        <5> QED
          BY <4>6, <5>1
      <4>8. Cardinality(AheadOf(v, e)) <= Cardinality(MoreThan(v, c))
        <5>1. MoreThan(v, c) \in SUBSET K /\ AheadOf(v, e) \in SUBSET K
          BY <1>1, <4>2, <4>6
        <5> QED
          BY <4>7, <5>1, Fewer
      <4>9. ~(Cardinality(AheadOf(v, e)) < n)
        BY <2>5, <4>6
      <4> QED
        BY <1>2, <1>5, <4>2, <4>6, <4>8, <4>9
    <3> QED
      BY <2>3, <2>9, <3>5, <3>6 DEF won, open, n
  <2> QED
    BY <2>8, <2>9
<1> QED
  BY <1>6, <1>7

-----------------------------------------------------------------------------
(* Count: types, and what stays as long as the box does.                     *)

(* Of the constants and the row of the position. *)
LEMMA PositionTyped ==
  CountTypeOK =>
    /\ position \in Position /\ IsFiniteSet(position.standing) /\ position.standing \subseteq Candidates
    /\ Cardinality(position.standing) \in Nat /\ Candidates \subseteq Nat
    /\ position.seats \in Nat /\ position.threshold \in Nat /\ Seats \in Nat
    /\ IsFiniteSet(Forms) /\ (\A s \in Forms : box[s] \in Nat)
    /\ RankedSeats \in Nat /\ RankedSeats >= 1
    /\ position.type # "REFERENDUM" => RankedSeats <= Cardinality(position.standing)
    /\ Stv <=> RankedSeats > 1
<1> SUFFICES ASSUME CountTypeOK
             PROVE  /\ position \in Position /\ IsFiniteSet(position.standing) /\ position.standing \subseteq Candidates
                    /\ Cardinality(position.standing) \in Nat /\ Candidates \subseteq Nat
                    /\ position.seats \in Nat /\ position.threshold \in Nat /\ Seats \in Nat
                    /\ IsFiniteSet(Forms) /\ (\A s \in Forms : box[s] \in Nat)
                    /\ RankedSeats \in Nat /\ RankedSeats >= 1
                    /\ position.type # "REFERENDUM" => RankedSeats <= Cardinality(position.standing)
                    /\ Stv <=> RankedSeats > 1
  OBVIOUS
<1>1. position \in Position /\ IsFiniteSet(Candidates) /\ Candidates \subseteq Nat
  BY CountAssumption DEF CountTypeOK
<1>2. position.standing \subseteq Candidates /\ position.seats \in Nat /\ position.threshold \in Nat
  BY <1>1 DEF Position
<1>3. IsFiniteSet(position.standing) /\ Cardinality(position.standing) \in Nat
  BY <1>1, <1>2, FS_Subset, FS_CardinalityType
<1>4. Seats \in Nat
  BY <1>2 DEF Seats
<1>5. IsFiniteSet(Forms) /\ \A s \in Forms : box[s] \in Nat
  <2>1. Forms \subseteq DOMAIN box
    BY DEF Forms, BagToSet
  <2> QED
    BY <2>1, FS_Subset DEF CountTypeOK
<1>6. RankedSeats \in Nat /\ RankedSeats >= 1
  BY <1>2, <1>3 DEF RankedSeats, AtLeast, AtMost
<1>7. position.type # "REFERENDUM" => RankedSeats <= Cardinality(position.standing)
  <2>1. position.type # "REFERENDUM" => Cardinality(position.standing) # 0
    BY DEF CountTypeOK, Problem
  <2> QED
    BY <1>2, <1>3, <2>1 DEF RankedSeats, AtLeast, AtMost
<1> QED
  BY <1>1, <1>2, <1>3, <1>4, <1>5, <1>6, <1>7 DEF Stv

LEMMA SameForms ==
  ASSUME box' = box, position' = position
  PROVE  Forms' = Forms /\ Seats' = Seats /\ RankedSeats' = RankedSeats /\ Stv' = Stv
<1>1. Forms' = Forms
  BY DEF Forms, Abstention, BagToSet, Recorded, Empty, Named
<1>2. Seats' = Seats /\ RankedSeats' = RankedSeats
  BY DEF Seats, RankedSeats, AtLeast, AtMost
<1> QED
  BY <1>1, <1>2 DEF Stv

LEMMA SameBox ==
  ASSUME CountTypeOK, box' = box, position' = position
  PROVE  Valid' = Valid /\ Valid \in Nat /\ \A C : Solid(C)' = Solid(C) /\ Solid(C) \in Nat
<1>0. IsFiniteSet(Forms) /\ \A s \in Forms : box[s] \in Nat
  BY PositionTyped
<1>1. (IsFiniteSet(Forms) /\ (\A s \in Forms : box[s] \in Nat) => Valid = SumOf(box, Forms) /\ Valid \in Nat)'
  BY ValidIs, PTL
<1>2. (IsFiniteSet(Forms) /\ (\A s \in Forms : box[s] \in Nat)
        => \A C : Solid(C) = SolidIn(box, Forms, C) /\ Solid(C) \in Nat /\ Solid(C) <= SumOf(box, Forms))'
  BY SolidIs, PTL
<1>3. Forms' = Forms
  BY SameForms
<1>4. Valid' = Valid /\ Valid \in Nat
  BY <1>0, <1>1, <1>3, ValidIs
<1>5. \A C : Solid(C)' = SolidIn(box, Forms, C)
  BY <1>0, <1>2, <1>3
<1> QED
  BY <1>0, <1>4, <1>5, SolidIs

LEMMA AnswersAre ==
  IsFiniteSet(Forms) /\ (\A s \in Forms : box[s] \in Nat)
    => \A a : Answers(a) = SumOf(box, {s \in Forms : s = a}) /\ Answers(a) \in Nat
<1> SUFFICES ASSUME IsFiniteSet(Forms), \A s \in Forms : box[s] \in Nat, NEW a
             PROVE  Answers(a) = SumOf(box, {s \in Forms : s = a}) /\ Answers(a) \in Nat
  OBVIOUS
<1> DEFINE of == [s \in Forms |-> IF s = a THEN 1 ELSE 0]
           P == {s \in Forms : s = a}
<1>1. Answers(a) = SumOf(Weigh(box, of, Forms), Forms)
  BY CopiesAre DEF Answers
<1>2. /\ \A s \in P : Weigh(box, of, Forms)[s] = box[s]
      /\ \A s \in Forms \ P : Weigh(box, of, Forms)[s] = 0
  <2>1. (\A s \in P : of[s] = 1) /\ (\A s \in Forms \ P : of[s] = 0)
    OBVIOUS
  <2> HIDE DEF of
  <2> QED
    BY <2>1, Multiplied
<1>3. P \in SUBSET Forms
  OBVIOUS
<1> HIDE DEF of
<1>4. SumOf(Weigh(box, of, Forms), Forms) = SumOf(box, P) /\ SumOf(box, P) \in Nat
  <2> HIDE DEF P
  <2> QED
    BY <1>2, <1>3, SumOverPart
<1> QED
  BY <1>1, <1>4

(* The votes of a candidate, by what each form holds for it. *)
Points(type, s, c) == IF type = "SCORE" THEN (IF c \in DOMAIN s THEN s[c] ELSE 0)
                      ELSE (IF c \in s THEN 1 ELSE 0)
PointsOf(type, F, c) == [s \in F |-> Points(type, s, c)]

LEMMA VotesAre ==
  CountTypeOK
    => \A c : Votes(c) = SumOf(Weigh(box, PointsOf(position.type, Forms, c), Forms), Forms) /\ Votes(c) \in Nat
<1> SUFFICES ASSUME CountTypeOK, NEW c
             PROVE  Votes(c) = SumOf(Weigh(box, PointsOf(position.type, Forms, c), Forms), Forms) /\ Votes(c) \in Nat
  OBVIOUS
<1> DEFINE of == PointsOf(position.type, Forms, c)
<1>0. IsFiniteSet(Forms) /\ \A s \in Forms : box[s] \in Nat
  BY PositionTyped
<1>1. \A s \in Forms : of[s] \in Nat
  BY DEF CountTypeOK, PointsOf, Points
<1>2. Copies(of) = SumOf(Weigh(box, of, Forms), Forms)
  <2> HIDE DEF of
  <2> QED
    BY <1>0, CopiesAre
<1>3. \A s \in Forms : Weigh(box, of, Forms)[s] \in Nat
  <2>1. \A s \in Forms : box[s] * of[s] \in Nat
    <3> HIDE DEF of
    <3> QED
      BY <1>0, <1>1, ProductType
  <2> HIDE DEF of
  <2> QED
    BY <2>1, Multiplied
<1>4. SumOf(Weigh(box, of, Forms), Forms) \in Nat
  <2> HIDE DEF of
  <2> QED
    BY <1>0, <1>3, SumType
<1>5. CASE position.type = "SCORE"
  <2>1. of = [s \in Forms |-> IF c \in DOMAIN s THEN s[c] ELSE 0]
    BY <1>5 DEF PointsOf, Points
  <2> QED
    BY <1>2, <1>4, <1>5, <2>1 DEF Votes
<1>6. CASE position.type # "SCORE"
  <2>1. of = [s \in Forms |-> IF c \in s THEN 1 ELSE 0]
    BY <1>6 DEF PointsOf, Points
  <2> QED
    BY <1>2, <1>4, <1>6, <2>1 DEF Votes
<1> QED
  BY <1>5, <1>6

LEMMA SameVotes ==
  ASSUME CountTypeOK, CountTypeOK', box' = box, position' = position
  PROVE  /\ \A a : Answers(a)' = Answers(a) /\ Answers(a) \in Nat
         /\ \A c : Votes(c)' = Votes(c) /\ Votes(c) \in Nat
<1>0. IsFiniteSet(Forms) /\ (\A s \in Forms : box[s] \in Nat) /\ Forms' = Forms
  BY PositionTyped, SameForms
<1>1. (IsFiniteSet(Forms) /\ (\A s \in Forms : box[s] \in Nat)
        => \A a : Answers(a) = SumOf(box, {s \in Forms : s = a}) /\ Answers(a) \in Nat)'
  BY AnswersAre, PTL
<1>2. (CountTypeOK
        => \A c : Votes(c) = SumOf(Weigh(box, PointsOf(position.type, Forms, c), Forms), Forms) /\ Votes(c) \in Nat)'
  BY VotesAre, PTL
<1>3. \A a : Answers(a)' = SumOf(box, {s \in Forms : s = a})
  BY <1>0, <1>1
<1>4. \A c : Votes(c)' = SumOf(Weigh(box, PointsOf(position.type, Forms, c), Forms), Forms)
  BY <1>0, <1>2
<1> QED
  BY <1>0, <1>3, <1>4, AnswersAre, VotesAre

-----------------------------------------------------------------------------
(* Count: plurality, scores and referendums.                                 *)

LEMMA TimesMore ==
  ASSUME NEW a \in Int, NEW b \in Int, NEW c \in Nat, a <= b
  PROVE  a * c <= b * c
<1>1. (b - a) * c = b * c - a * c
  BY Distributes
<1>2. (b - a) * c >= 0
  OBVIOUS
<1> QED
  BY <1>1, <1>2

LEMMA Rounding ==
  ASSUME NEW y \in Nat, NEW v \in Nat, v > 0
  PROVE  LET p == Pct(y, v) IN p \in Int /\ 2 * (p * v) <= 20000 * y + v /\ 20000 * y + v < 2 * (p * v) + 2 * v
<1> DEFINE p == (20000 * y + v) \div (2 * v)
           r == (20000 * y + v) % (2 * v)
<1>1. p \in Int /\ r \in 0..(2 * v - 1) /\ 20000 * y + v = (2 * v) * p + r
  OBVIOUS
<1>2. Pct(y, v) = p
  BY DEF Pct
<1> HIDE DEF p, r
<1>3. (2 * v) * p = 2 * (p * v) /\ p * v \in Int
  BY <1>1
<1>4. r \in Int /\ 0 <= r /\ r < 2 * v
  BY <1>1
<1>5. 2 * (p * v) <= 20000 * y + v /\ 20000 * y + v < 2 * (p * v) + 2 * v
  BY <1>1, <1>3, <1>4
<1> QED
  BY <1>1, <1>2, <1>5

LEMMA MotionsPass ==
  ASSUME CountTypeOK
  PROVE  /\ Passed => 100 * Answers("YES") > position.threshold * Valid
         /\ Valid > 0 /\ 10000 * Answers("YES") >= (100 * position.threshold + 1) * Valid => Passed
<1> DEFINE y == Answers("YES")
           v == Valid
           n == position.threshold
           p == Pct(y, v)
<1>1. y \in Nat /\ v \in Nat /\ n \in Nat
  BY PositionTyped, ValidIs, AnswersAre
<1>2. Passed <=> v > 0 /\ p > 100 * n
  BY DEF Passed
<1>3. v > 0 => p \in Int /\ 2 * (p * v) <= 20000 * y + v /\ 20000 * y + v < 2 * (p * v) + 2 * v
  <2> HIDE DEF y, v
  <2> QED
    BY <1>1, Rounding
<1> HIDE DEF y, v, n, p
<1>4. (100 * n + 1) * v = 100 * (n * v) + v /\ n * v \in Nat
  BY <1>1
<1>5. ASSUME v > 0, p > 100 * n PROVE 100 * y > n * v
  <2>1. (100 * n + 1) * v <= p * v
    <3>1. 100 * n + 1 <= p /\ p \in Int /\ 100 * n + 1 \in Int
      BY <1>1, <1>3, <1>5
    <3> QED
      BY <1>1, <3>1, TimesMore
  <2>2. p * v \in Int
    BY <1>1, <1>3, <1>5
  <2> QED
    BY <1>1, <1>3, <1>4, <1>5, <2>1, <2>2
<1>6. ASSUME v > 0, 10000 * y >= (100 * n + 1) * v, ~(p > 100 * n) PROVE FALSE
  <2>1. p * v <= (100 * n) * v /\ (100 * n) * v = 100 * (n * v)
    <3>1. p <= 100 * n /\ p \in Int /\ 100 * n \in Int
      BY <1>1, <1>3, <1>6
    <3>2. p * v <= (100 * n) * v
      BY <1>1, <3>1, TimesMore
    <3> QED
      BY <1>1, <3>2
  <2>2. p * v \in Int
    BY <1>1, <1>3, <1>6
  <2> QED
    BY <1>1, <1>3, <1>4, <1>6, <2>1, <2>2
<1> QED
  BY <1>2, <1>5, <1>6 DEF y, v, n

LEMMA TallyIsFair ==
  ASSUME CountTypeOK, CountTypeOK', TallyPosition
  PROVE  SeatsAreEarned'
<1>1. box' = box /\ position' = position /\ winners' = Result[1] /\ ties' = Result[2] /\ position.type # "RANKED"
  BY DEF TallyPosition
<1>2. /\ Valid' = Valid /\ Seats' = Seats
      /\ \A a : Answers(a)' = Answers(a) /\ Answers(a) \in Nat
      /\ \A c : Votes(c)' = Votes(c) /\ Votes(c) \in Nat
  BY <1>1, SameBox, SameForms, SameVotes
<1>3. CASE position.type = "REFERENDUM"
  <2>1. "YES" \in winners' <=> Passed
    BY <1>1, <1>3 DEF Result
  <2>2. /\ "YES" \in winners' => 100 * Answers("YES") > position.threshold * Valid
        /\ Valid > 0 /\ 10000 * Answers("YES") >= (100 * position.threshold + 1) * Valid => "YES" \in winners'
    BY <2>1, MotionsPass
  <2> QED
    BY <1>1, <1>2, <1>3, <2>2 DEF SeatsAreEarned
<1>4. CASE position.type # "REFERENDUM"
  <2> DEFINE K == position.standing
             v == [c \in K |-> Votes(c)]
             won == {c \in K : Cardinality(NotBehindOf(v, c)) < Seats}
             open == {c \in K \ won : Cardinality(MoreThan(v, c)) < Seats}
  <2>1. IsFiniteSet(K) /\ K \subseteq Nat /\ v \in [K -> Nat] /\ Seats \in Nat
    BY <1>2, PositionTyped
  <2>2. Result = <<won, open>>
    <3>1. Result = WinnersWithTies(v)
      BY <1>4 DEF Result
    <3> HIDE DEF K, v
    <3> QED
      BY <2>1, <3>1, SeatsByVotes DEF won, open
  <2>3. winners' = won /\ ties' = open
    BY <1>1, <2>2
  <2>4. K' = K /\ v' = v
    BY <1>1, <1>2
  <2>5. /\ winners' = {c \in K' : Cardinality(NotBehindOf(v', c)) < Seats'}
        /\ ties' = {c \in K' \ winners' : Cardinality(MoreThan(v', c)) < Seats'}
    <3> HIDE DEF K, v
    <3> QED
      BY <1>2, <2>3, <2>4
  <2> QED
    BY <1>1, <1>4, <2>5 DEF SeatsAreEarned
<1> QED
  BY <1>3, <1>4

-----------------------------------------------------------------------------
(* Count: the tallies of a round. A ballot is for one candidate at most, and *)
(* one that puts C first is for a candidate of C while one continues.        *)

Weights == Weigh(box, weight, Forms)
ForThem(D) == {s \in Forms : \E c \in D : For(s, c)}
Loyal(C) == {s \in Forms : InFront(s, C)}
InCount == CountTypeOK /\ phase = "count"

LEMMA WeightsTyped ==
  ASSUME InCount
  PROVE  /\ IsFiniteSet(Forms) /\ \A s \in Forms : Weights[s] \in Nat
         /\ \A P \in SUBSET Forms : SumOf(Weights, P) \in Nat /\ SumOf(Weights, P) <= SumOf(Weights, Forms)
<1>1. IsFiniteSet(Forms) /\ (\A s \in Forms : box[s] \in Nat) /\ \A s \in Forms : weight[s] \in Nat
  BY PositionTyped DEF InCount, CountTypeOK
<1>2. \A s \in Forms : Weights[s] \in Nat
  <2>1. \A s \in Forms : box[s] * weight[s] \in Nat
    BY <1>1, ProductType
  <2> QED
    BY <2>1, Multiplied DEF Weights
<1>3. ASSUME NEW P \in SUBSET Forms PROVE SumOf(Weights, P) \in Nat /\ SumOf(Weights, P) <= SumOf(Weights, Forms)
  <2>1. IsFiniteSet(P)
    BY <1>1, FS_Subset
  <2> QED
    BY <1>1, <1>2, <2>1, SumType, SumOfPart
<1> QED
  BY <1>1, <1>2, <1>3

LEMMA ForOne ==
  ASSUME InCount, NEW s \in Forms, NEW c \in continuing, NEW d \in continuing, For(s, c), For(s, d)
  PROVE  c = d
<1>1. s \in Seq(Candidates)
  BY DEF InCount, CountTypeOK
<1>2. PICK i \in DOMAIN s : s[i] = c /\ \A n \in 1..(i - 1) : s[n] \notin continuing
  BY DEF For
<1>3. PICK j \in DOMAIN s : s[j] = d /\ \A n \in 1..(j - 1) : s[n] \notin continuing
  BY DEF For
<1>4. i \in Nat /\ j \in Nat /\ i >= 1 /\ j >= 1
  BY <1>1
<1>5. ~(i < j) /\ ~(j < i)
  <2>1. i < j => i \in 1..(j - 1)
    BY <1>4
  <2>2. j < i => j \in 1..(i - 1)
    BY <1>4
  <2> QED
    BY <1>2, <1>3, <2>1, <2>2
<1>6. i = j
  BY <1>4, <1>5
<1> QED
  BY <1>2, <1>3, <1>6

LEMMA LoyalToThem ==
  ASSUME InCount, NEW C \in SUBSET position.standing, continuing \cap C # {}
  PROVE  /\ Loyal(C) \subseteq ForThem(continuing \cap C)
         /\ \A d \in continuing \ C : Loyal(C) \cap ForThem({d}) = {}
<1>1. ASSUME NEW s \in Loyal(C) PROVE \E c \in continuing \cap C : For(s, c)
  <2>1. s \in Forms /\ s \in Seq(Candidates) /\ Len(s) >= Cardinality(C) /\ {s[i] : i \in 1..Cardinality(C)} = C
    BY DEF InCount, CountTypeOK, Loyal, InFront
  <2>2. Cardinality(C) \in Nat
    <3>1. IsFiniteSet(C)
      BY PositionTyped, FS_Subset DEF InCount
    <3> QED
      BY <3>1, FS_CardinalityType
  <2> DEFINE here == {i \in 1..Cardinality(C) : s[i] \in continuing}
             id == [i \in 1..Cardinality(C) |-> i]
  <2>3. IsFiniteSet(here) /\ here # {} /\ \A i \in here : id[i] = i /\ id[i] \in Int
    <3>1. IsFiniteSet(1..Cardinality(C)) /\ here \subseteq 1..Cardinality(C)
      BY <2>2, FS_Interval
    <3>2. here # {}
      BY <2>1
    <3>3. IsFiniteSet(here)
      BY <3>1, FS_Subset
    <3>4. \A i \in here : id[i] = i /\ id[i] \in Int
      BY <2>2
    <3> QED
      BY <3>2, <3>3, <3>4
  <2>4. PICK i \in here : \A j \in here : id[i] <= id[j]
    <3> HIDE DEF here, id
    <3> QED
      BY <2>3, SomeLeast
  <2>5. i \in 1..Cardinality(C) /\ s[i] \in continuing /\ s[i] \in C /\ i \in DOMAIN s
    BY <2>1, <2>2
  <2>6. ASSUME NEW j \in 1..(i - 1), s[j] \in continuing PROVE FALSE
    <3>1. j \in here
      BY <2>2, <2>5, <2>6
    <3>2. i <= j
      BY <2>3, <2>4, <3>1
    <3> QED
      BY <2>2, <2>5, <3>2
  <2>7. For(s, s[i])
    BY <2>5, <2>6 DEF For
  <2> QED
    BY <2>5, <2>7
<1>2. ASSUME NEW d \in continuing \ C, NEW s \in Loyal(C), For(s, d) PROVE FALSE
  <2>1. PICK c \in continuing \cap C : For(s, c)
    BY <1>1
  <2>2. s \in Forms
    BY DEF Loyal
  <2>3. c = d
    BY <1>2, <2>1, <2>2, ForOne
  <2> QED
    BY <2>1, <2>3
<1> QED
  BY <1>1, <1>2 DEF ForThem, Loyal

LEMMA TallyIs ==
  ASSUME InCount, NEW c \in continuing
  PROVE  Tallies[c] = SumOf(Weights, ForThem({c})) /\ Tallies[c] \in Nat
<1> DEFINE of == [s \in Forms |-> IF For(s, c) THEN weight[s] ELSE 0]
           P == ForThem({c})
<1>0. IsFiniteSet(Forms) /\ (\A s \in Forms : Weights[s] \in Nat) /\ P \in SUBSET Forms
      /\ (\A s \in Forms : box[s] \in Nat)
  BY WeightsTyped, PositionTyped DEF ForThem, InCount
<1>1. Tallies[c] = SumOf(Weigh(box, of, Forms), Forms)
  BY <1>0, CopiesAre DEF Tallies
<1>2. /\ \A s \in P : Weigh(box, of, Forms)[s] = Weights[s]
      /\ \A s \in Forms \ P : Weigh(box, of, Forms)[s] = 0
  <2>1. (\A s \in P : of[s] = weight[s]) /\ (\A s \in Forms \ P : of[s] = 0)
    BY DEF ForThem
  <2>2. \A s \in Forms : Weights[s] = box[s] * weight[s]
    BY Multiplied DEF Weights
  <2> HIDE DEF of, P
  <2> QED
    BY <1>0, <2>1, <2>2, Multiplied
<1> HIDE DEF of, P
<1>3. SumOf(Weigh(box, of, Forms), Forms) = SumOf(Weights, P) /\ SumOf(Weights, P) \in Nat
  BY <1>0, <1>2, SumOverPart
<1> QED
  BY <1>1, <1>3 DEF P

LEMMA TalliesAdd ==
  ASSUME InCount, NEW D \in SUBSET continuing
  PROVE  /\ SumOf(Tallies, D) = SumOf(Weights, ForThem(D)) /\ SumOf(Tallies, D) \in Nat
         /\ IsFiniteSet(D) /\ \A c \in D : Tallies[c] \in Nat
<1> DEFINE G == [d \in D |-> ForThem({d})]
<1>1. IsFiniteSet(D)
  BY PositionTyped, FS_Subset DEF InCount, CountTypeOK
<1>2. \A d \in D : Tallies[d] = SumOf(Weights, G[d]) /\ Tallies[d] \in Nat
  BY TallyIs
<1>3. \A d \in D : G[d] \in SUBSET Forms
  BY DEF ForThem
<1>4. ASSUME NEW d \in D, NEW e \in D, d # e PROVE G[d] \cap G[e] = {}
  <2>1. ASSUME NEW s \in Forms, For(s, d), For(s, e) PROVE FALSE
    BY <1>4, <2>1, ForOne
  <2> QED
    BY <2>1 DEF ForThem
<1>5. AllOf(G, D) = ForThem(D)
  BY DEF AllOf, ForThem
<1> HIDE DEF G
<1>6. SumOf(Tallies, D) = SumOf(Weights, AllOf(G, D)) /\ SumOf(Tallies, D) \in Nat
  <2>1. IsFiniteSet(Forms) /\ \A s \in Forms : Weights[s] \in Nat
    BY WeightsTyped
  <2>2. \A d \in D : Tallies[d] = SumOf(Weights, G[d])
    BY <1>2
  <2> QED
    BY <1>1, <1>3, <1>4, <2>1, <2>2, SumOfGroups
<1> QED
  BY <1>1, <1>2, <1>5, <1>6

(* The whole of what continues is the sum of the tallies. *)
LEMMA ReachedIs ==
  ASSUME InCount
  PROVE  Reached(Tallies) = IF Stv THEN {c \in continuing : Tallies[c] >= Quota}
                            ELSE {c \in continuing : 2 * Tallies[c] > SumOf(Tallies, continuing)}
<1>1. IsFiniteSet(continuing)
  BY TalliesAdd
<1> DEFINE t == Tallies
<1> HIDE DEF t
<1>2. Reached(t) = IF Stv THEN {c \in continuing : t[c] >= Quota}
                   ELSE {c \in continuing : 2 * t[c] > SumOf(t, continuing)}
  BY <1>1, ValuesAdded DEF Reached, MapThenSumSet, MapThenFoldSet
<1> QED
  BY <1>2 DEF t

LEMMA LotsDraw ==
  ASSUME InCount, NEW C \in SUBSET continuing, C # {}
  PROVE  \E c \in C : \A d \in C : Lot[c] <= Lot[d]
<1>1. IsFiniteSet(C) /\ \A c \in C : Lot[c] \in Int
  <2>1. C \subseteq Candidates /\ IsFiniteSet(C)
    BY PositionTyped, FS_Subset DEF InCount, CountTypeOK
  <2> QED
    BY <2>1, CountAssumption DEF CountAssumption
<1> QED
  BY <1>1, SomeLeast

LEMMA BestIsReached ==
  ASSUME InCount, Reached(Tallies) # {}
  PROVE  Best(Tallies, Reached(Tallies)) \in Reached(Tallies) /\ Reached(Tallies) \subseteq continuing
<1> DEFINE t == Tallies
           R == Reached(t)
<1>1. R \subseteq continuing
  BY DEF Reached
<1>2. IsFiniteSet(R) /\ \A c \in R : t[c] \in Int
  BY <1>1, TalliesAdd
<1>3. PICK b \in R : \A d \in R : t[d] <= t[b]
  <2> HIDE DEF t, R
  <2>1. R # {}
    BY DEF t, R
  <2> QED
    BY <1>2, <2>1, SomeMost
<1> DEFINE top == {d \in R : t[d] = t[b]}
<1>4. PICK c \in top : \A d \in top : Lot[c] <= Lot[d]
  <2>1. top \subseteq continuing /\ top # {}
    BY <1>1, <1>3
  <2> HIDE DEF top
  <2> QED
    BY <2>1, LotsDraw
<1>5. \A d \in R : t[c] > t[d] \/ (t[c] = t[d] /\ Lot[c] <= Lot[d])
  <2>1. ASSUME NEW d \in R PROVE t[c] > t[d] \/ (t[c] = t[d] /\ Lot[c] <= Lot[d])
    <3>1. t[c] = t[b] /\ c \in R /\ t[d] <= t[b] /\ t[d] \in Int /\ t[c] \in Int
      BY <1>2, <1>3, <1>4
    <3>2. t[d] = t[b] => Lot[c] <= Lot[d]
      BY <1>4
    <3> HIDE DEF t, R
    <3> QED
      BY <3>1, <3>2
  <2> QED
    BY <2>1
<1>6. c \in R
  BY <1>4
<1> HIDE DEF R, t
<1>7. Best(t, R) \in R
  BY <1>5, <1>6 DEF Best
<1> QED
  BY <1>1, <1>7 DEF R, t

LEMMA LoserContinues ==
  ASSUME InCount, continuing # {}
  PROVE  Loser(Tallies) \in continuing
<1> DEFINE t == Tallies
           L == Lowest(t)
<1>1. IsFiniteSet(continuing) /\ \A c \in continuing : t[c] \in Int
  <2>1. IsFiniteSet(continuing) /\ \A c \in continuing : Tallies[c] \in Nat
    BY TalliesAdd
  <2> QED
    BY <2>1
<1>2. L # {} /\ L \subseteq continuing /\ IsFiniteSet(L)
  <2>1. PICK b \in continuing : \A d \in continuing : t[b] <= t[d]
    <3> HIDE DEF t
    <3> QED
      BY <1>1, SomeLeast
  <2>2. L \subseteq continuing /\ b \in L
    BY <2>1 DEF Lowest
  <2> QED
    BY <1>1, <2>2, FS_Subset
<1> DEFINE first == [c \in continuing |-> FirstPrefs(c)]
<1>3. \A c \in continuing : first[c] = FirstPrefs(c) /\ first[c] \in Int
  <2>1. ASSUME NEW c \in continuing PROVE FirstPrefs(c) \in Nat
    <3> DEFINE of == [s \in Forms |-> IF s[1] = c THEN 1 ELSE 0]
    <3>1. IsFiniteSet(Forms) /\ \A s \in Forms : box[s] \in Nat
      BY PositionTyped DEF InCount
    <3>2. FirstPrefs(c) = SumOf(Weigh(box, of, Forms), Forms)
      BY <3>1, CopiesAre DEF FirstPrefs
    <3>3. \A s \in Forms : of[s] \in Nat
      OBVIOUS
    <3> HIDE DEF of
    <3>4. \A s \in Forms : Weigh(box, of, Forms)[s] \in Nat
      <4>1. \A s \in Forms : box[s] * of[s] \in Nat
        BY <3>1, <3>3, ProductType
      <4> QED
        BY <4>1, Multiplied
    <3> QED
      BY <3>1, <3>2, <3>4, SumType
  <2> QED
    BY <2>1
<1> HIDE DEF first
<1>4. PICK b \in L : \A d \in L : first[b] <= first[d]
  <2> HIDE DEF L
  <2>1. \A c \in L : first[c] \in Int
    BY <1>2, <1>3
  <2> QED
    BY <1>2, <2>1, SomeLeast
<1> DEFINE fewest == {c \in L : \A d \in L : FirstPrefs(c) <= FirstPrefs(d)}
<1>5. b \in fewest /\ fewest \subseteq continuing
  <2>1. \A d \in L : first[d] = FirstPrefs(d)
    BY <1>2, <1>3
  <2> HIDE DEF L
  <2> QED
    BY <1>2, <1>4, <2>1
<1>6. PICK c \in fewest : \A d \in fewest : Lot[c] <= Lot[d]
  <2> HIDE DEF fewest
  <2> QED
    BY <1>5, LotsDraw
<1>7. Loser(t) = CHOOSE x \in fewest : \A d \in fewest : Lot[x] <= Lot[d]
  BY DEF Loser
<1>8. Loser(t) \in fewest
  <2> HIDE DEF fewest, t
  <2> QED
    BY <1>6, <1>7
<1> HIDE DEF fewest
<1> QED
  BY <1>5, <1>8

-----------------------------------------------------------------------------
(* Count: what a round keeps. Owed: C's voters are more than k quotas. At    *)
(* the scale m a vote weighs (seats + 1) * m to begin with, and the quota is *)
(* as many units as there are valid ballots, times m.                        *)

Owed(C, k) == C # {} /\ Solid(C) * (RankedSeats + 1) > k * Valid

AtScale(m) ==
    /\ unit = (RankedSeats + 1) * m /\ (Valid > 0 => m > 0)
    /\ SumOf(Weights, Forms) = (RankedSeats + 1 - Cardinality(winners)) * (Valid * m)
    /\ \A C \in SUBSET position.standing, k \in 1..RankedSeats :
          Owed(C, k) /\ continuing \cap C # {} /\ Cardinality(winners \cap C) < k
            => SumOf(Weights, Loyal(C)) > (k - Cardinality(winners \cap C)) * (Valid * m)

RoundOK == phase = "count" =>
    /\ Cardinality(winners) <= RankedSeats
    /\ Cardinality(winners) + Cardinality(continuing) >= RankedSeats
    /\ \A C \in SUBSET position.standing, k \in 1..RankedSeats :
          Owed(C, k) => Cardinality(winners \cap C) + Cardinality(continuing \cap C) >= AtMost(k, Cardinality(C))
    /\ Stv => \E m \in Nat : AtScale(m)
    /\ ~Stv => /\ \A s \in Forms : weight[s] = 1
               /\ \A C \in SUBSET position.standing, k \in 1..RankedSeats :
                     Owed(C, k) /\ winners # {} => winners \cap C # {}

LEMMA DivExact ==
  ASSUME NEW a \in Nat, NEW b \in Nat, b > 0
  PROVE  (a * b) \div b = a
<1> DEFINE p == (a * b) \div b
           r == (a * b) % b
<1>1. p \in Int /\ r \in 0..(b - 1) /\ a * b = b * p + r
  OBVIOUS
<1> HIDE DEF p, r
<1>2. (a - p) * b = a * b - p * b /\ b * p = p * b
  BY <1>1, Distributes
<1>3. (a - p) * b = r /\ r \in Int /\ 0 <= r /\ r < b
  BY <1>1, <1>2
<1>4. ~(a - p >= 1)
  <2>1. a - p >= 1 => 1 * b <= (a - p) * b
    BY <1>1, TimesMore
  <2> QED
    BY <1>3, <2>1
<1>5. ~(a - p <= -1)
  <2>1. a - p <= -1 => (a - p) * b <= (-1) * b
    BY <1>1, TimesMore
  <2> QED
    BY <1>3, <2>1
<1>6. a = p
  BY <1>1, <1>4, <1>5
<1> QED
  BY <1>6 DEF p

LEMMA QuotaIs ==
  ASSUME InCount, NEW m \in Nat, AtScale(m)
  PROVE  Quota = Valid * m /\ Quota \in Nat
<1>1. Valid \in Nat /\ RankedSeats \in Nat /\ RankedSeats >= 1
  BY PositionTyped, ValidIs DEF InCount
<1>2. Valid * unit = (Valid * m) * (RankedSeats + 1)
  BY <1>1 DEF AtScale
<1>3. Valid * m \in Nat
  BY <1>1
<1>4. ((Valid * m) * (RankedSeats + 1)) \div (RankedSeats + 1) = Valid * m
  BY <1>1, <1>3, DivExact
<1> QED
  BY <1>2, <1>3, <1>4 DEF Quota

LEMMA ElectArithmetic ==
  ASSUME NEW t \in Nat, NEW q \in Nat, q <= t
  PROVE  /\ \A r \in Nat, n \in Int : t + r = n * q => (t - q) * t + t * r = (n - 1) * (q * t)
         /\ \A a \in Nat, b \in Nat, j \in Nat :
               t > 0 /\ a <= t /\ a + b > j * q => (t - q) * a + t * b > (j - 1) * (q * t)
         /\ \A b \in Nat, j \in Nat : t > 0 /\ b > j * q => t * b > j * (q * t)
<1>1. ASSUME NEW r \in Nat, NEW n \in Int, t + r = n * q
      PROVE  (t - q) * t + t * r = (n - 1) * (q * t)
  <2>1. (t - q) * t = t * t - q * t /\ t * (t + r) = t * t + t * r /\ (n - 1) * (q * t) = n * (q * t) - q * t
    BY Distributes
  <2>2. t * (n * q) = n * (q * t)
    OBVIOUS
  <2>3. t * (t + r) = n * (q * t)
    BY <1>1, <2>2
  <2>4. t * t \in Int /\ q * t \in Int /\ t * r \in Int /\ n * (q * t) \in Int
    OBVIOUS
  <2> QED
    BY <2>1, <2>3, <2>4
<1>2. ASSUME NEW b \in Nat, NEW j \in Nat, t > 0, b > j * q
      PROVE  t * b >= j * (q * t) + t
  <2>1. j * q \in Nat
    OBVIOUS
  <2>2. (j * q + 1) * t <= b * t
    BY <1>2, <2>1, TimesMore
  <2>3. (j * q + 1) * t = j * (q * t) + t /\ b * t = t * b
    OBVIOUS
  <2> QED
    BY <2>2, <2>3
<1>3. ASSUME NEW a \in Nat, NEW b \in Nat, NEW j \in Nat, t > 0, a <= t, a + b > j * q
      PROVE  (t - q) * a + t * b > (j - 1) * (q * t)
  <2>1. t * (a + b) >= j * (q * t) + t
    BY <1>2, <1>3
  <2>2. (t - q) * a = t * a - q * a /\ t * (a + b) = t * a + t * b /\ (j - 1) * (q * t) = j * (q * t) - q * t
    BY Distributes
  <2>3. a * q <= t * q /\ a * q = q * a /\ t * q = q * t
    BY <1>3, TimesMore
  <2>4. t * a \in Int /\ q * a \in Int /\ t * b \in Int /\ j * (q * t) \in Int /\ q * t \in Int
    OBVIOUS
  <2> QED
    BY <1>3, <2>1, <2>2, <2>3, <2>4
<1>4. \A b \in Nat, j \in Nat : t > 0 /\ b > j * q => t * b > j * (q * t)
  <2>1. ASSUME NEW b \in Nat, NEW j \in Nat, t > 0, b > j * q PROVE t * b > j * (q * t)
    <3>1. t * b >= j * (q * t) + t
      BY <1>2, <2>1
    <3>2. t * b \in Int /\ j * (q * t) \in Int
      OBVIOUS
    <3> QED
      BY <2>1, <3>1, <3>2
  <2> QED
    BY <2>1
<1> QED
  BY <1>1, <1>3, <1>4

(* The sizes of what is elected and of what continues. *)
LEMMA SizesTyped ==
  ASSUME InCount
  PROVE  /\ IsFiniteSet(winners) /\ IsFiniteSet(continuing)
         /\ Cardinality(winners) \in Nat /\ Cardinality(continuing) \in Nat
         /\ \A C \in SUBSET position.standing :
              /\ IsFiniteSet(C) /\ IsFiniteSet(winners \cap C) /\ IsFiniteSet(continuing \cap C)
              /\ Cardinality(C) \in Nat /\ Cardinality(winners \cap C) \in Nat /\ Cardinality(continuing \cap C) \in Nat
              /\ Cardinality(winners \cap C) <= Cardinality(winners)
              /\ winners \cap C # {} <=> Cardinality(winners \cap C) >= 1
              /\ continuing \cap C # {} <=> Cardinality(continuing \cap C) >= 1
<1>1. IsFiniteSet(position.standing) /\ winners \subseteq position.standing /\ continuing \subseteq position.standing
  BY PositionTyped DEF InCount, CountTypeOK
<1>2. IsFiniteSet(winners) /\ IsFiniteSet(continuing) /\ Cardinality(winners) \in Nat /\ Cardinality(continuing) \in Nat
  BY <1>1, FS_Subset, FS_CardinalityType
<1>3. ASSUME NEW C \in SUBSET position.standing
      PROVE  /\ IsFiniteSet(C) /\ IsFiniteSet(winners \cap C) /\ IsFiniteSet(continuing \cap C)
             /\ Cardinality(C) \in Nat /\ Cardinality(winners \cap C) \in Nat /\ Cardinality(continuing \cap C) \in Nat
             /\ Cardinality(winners \cap C) <= Cardinality(winners)
             /\ winners \cap C # {} <=> Cardinality(winners \cap C) >= 1
             /\ continuing \cap C # {} <=> Cardinality(continuing \cap C) >= 1
  <2>1. IsFiniteSet(C) /\ IsFiniteSet(winners \cap C) /\ IsFiniteSet(continuing \cap C)
    BY <1>1, <1>2, FS_Subset
  <2>2. Cardinality(C) \in Nat /\ Cardinality(winners \cap C) \in Nat /\ Cardinality(continuing \cap C) \in Nat
    BY <2>1, FS_CardinalityType
  <2>3. Cardinality(winners \cap C) <= Cardinality(winners)
    BY <1>2, FS_Subset
  <2>4. winners \cap C # {} <=> Cardinality(winners \cap C) # 0
    BY <2>1, FS_EmptySet
  <2>5. continuing \cap C # {} <=> Cardinality(continuing \cap C) # 0
    BY <2>1, FS_EmptySet
  <2> QED
    BY <2>1, <2>2, <2>3, <2>4, <2>5
<1> QED
  BY <1>2, <1>3

(* A candidate leaves for the elected, or for good. *)
LEMMA OneLeaves ==
  ASSUME InCount, NEW w \in continuing
  PROVE  /\ Cardinality(continuing \ {w}) = Cardinality(continuing) - 1
         /\ Cardinality(winners \cup {w}) = Cardinality(winners) + 1
         /\ \A C \in SUBSET position.standing :
              /\ w \in C => /\ Cardinality((continuing \ {w}) \cap C) = Cardinality(continuing \cap C) - 1
                            /\ Cardinality((winners \cup {w}) \cap C) = Cardinality(winners \cap C) + 1
              /\ w \notin C => /\ (continuing \ {w}) \cap C = continuing \cap C
                               /\ (winners \cup {w}) \cap C = winners \cap C
<1>1. w \notin winners /\ w \in position.standing
  BY DEF InCount, CountTypeOK
<1>2. /\ Cardinality(continuing \ {w}) = Cardinality(continuing) - 1
      /\ Cardinality(winners \cup {w}) = Cardinality(winners) + 1
  BY <1>1, SizesTyped, FS_RemoveElement, FS_AddElement
<1>3. ASSUME NEW C \in SUBSET position.standing, w \in C
      PROVE  /\ Cardinality((continuing \ {w}) \cap C) = Cardinality(continuing \cap C) - 1
             /\ Cardinality((winners \cup {w}) \cap C) = Cardinality(winners \cap C) + 1
  <2>1. (continuing \ {w}) \cap C = (continuing \cap C) \ {w} /\ w \in continuing \cap C
    BY <1>3
  <2>2. (winners \cup {w}) \cap C = (winners \cap C) \cup {w} /\ w \notin winners \cap C
    BY <1>1, <1>3
  <2>3. IsFiniteSet(winners \cap C) /\ IsFiniteSet(continuing \cap C)
    BY SizesTyped
  <2>4. Cardinality((continuing \cap C) \ {w}) = Cardinality(continuing \cap C) - 1
    BY <2>1, <2>3, FS_RemoveElement
  <2>5. Cardinality((winners \cap C) \cup {w}) = Cardinality(winners \cap C) + 1
    BY <2>2, <2>3, FS_AddElement
  <2> QED
    BY <2>1, <2>2, <2>4, <2>5
<1>4. ASSUME NEW C \in SUBSET position.standing, w \notin C
      PROVE  (continuing \ {w}) \cap C = continuing \cap C /\ (winners \cup {w}) \cap C = winners \cap C
  BY <1>4
<1> QED
  BY <1>2, <1>3, <1>4

(* Who is owed seats has voters, and so there is a quota. *)
LEMMA OwedHasVoters ==
  ASSUME CountTypeOK, NEW C, NEW k \in 1..RankedSeats, Owed(C, k)
  PROVE  Valid > 0 /\ Valid \in Nat /\ Solid(C) \in Nat /\ Solid(C) * (RankedSeats + 1) > k * Valid
<1>1. Valid \in Nat /\ Solid(C) \in Nat /\ Solid(C) <= Valid /\ RankedSeats \in Nat
  BY PositionTyped, ValidIs, SolidIs
<1>2. ASSUME Valid = 0 PROVE FALSE
  <2>1. Solid(C) = 0
    BY <1>1, <1>2
  <2>2. 0 * (RankedSeats + 1) = 0 /\ k * 0 = 0
    BY <1>1
  <2> QED
    BY <1>2, <2>1, <2>2 DEF Owed
<1> QED
  BY <1>1, <1>2 DEF Owed

-----------------------------------------------------------------------------
(* Count: the rounds, one by one.                                            *)

LEMMA FirstRound ==
  ASSUME CountTypeOK, CountTypeOK', TallyRanked
  PROVE  RoundOK'
<1>1. /\ box' = box /\ position' = position /\ winners = {} /\ winners' = {}
      /\ continuing' = position.standing /\ position.type = "RANKED" /\ phase' = "count"
      /\ unit' = (IF Stv THEN RankedSeats + 1 ELSE 1) /\ weight' = [s \in Forms |-> unit']
  BY DEF TallyRanked, CountTypeOK
<1>2. /\ Valid' = Valid /\ Valid \in Nat /\ (\A C : Solid(C)' = Solid(C) /\ Solid(C) \in Nat)
      /\ Forms' = Forms /\ RankedSeats' = RankedSeats /\ Stv' = Stv
  BY <1>1, SameBox, SameForms
<1> DEFINE K == position.standing
           n == RankedSeats
<1>3. /\ IsFiniteSet(K) /\ Cardinality(K) \in Nat /\ n \in Nat /\ n >= 1 /\ n <= Cardinality(K)
      /\ IsFiniteSet(Forms) /\ \A s \in Forms : box[s] \in Nat
  BY <1>1, PositionTyped
<1>4. \A C \in SUBSET K : /\ IsFiniteSet(C) /\ Cardinality(C) \in Nat /\ {} \cap C = {} /\ K \cap C = C
                          /\ Cardinality({} \cap C) = 0
  <2>1. ASSUME NEW C \in SUBSET K PROVE IsFiniteSet(C) /\ Cardinality(C) \in Nat /\ {} \cap C = {} /\ K \cap C = C
    BY <1>3, FS_Subset, FS_CardinalityType
  <2> QED
    BY <2>1, FS_EmptySet
<1>5. Cardinality({}) = 0
  BY FS_EmptySet
<1>6. \A C, k : Owed(C, k)' <=> Owed(C, k)
  BY <1>2 DEF Owed
<1>7. \A C \in SUBSET K, k \in 1..n :
        Cardinality({} \cap C) + Cardinality(K \cap C) >= AtMost(k, Cardinality(C))
  BY <1>3, <1>4 DEF AtMost
<1>8. ASSUME Stv PROVE AtScale(1)'
  <2>1. unit' = n + 1 /\ \A s \in Forms : weight'[s] = n + 1
    BY <1>1, <1>8
  <2> DEFINE W == Weigh(box, weight', Forms)
  <2>2. \A s \in Forms : W[s] = (n + 1) * box[s]
    <3>1. \A s \in Forms : W[s] = box[s] * (n + 1)
      BY <2>1, Multiplied
    <3> HIDE DEF W, n
    <3> QED
      BY <1>3, <3>1
  <2>3. \A P \in SUBSET Forms : SumOf(W, P) = (n + 1) * SumOf(box, P) /\ SumOf(box, P) \in Nat
    <3>1. ASSUME NEW P \in SUBSET Forms PROVE SumOf(W, P) = (n + 1) * SumOf(box, P) /\ SumOf(box, P) \in Nat
      <4>1. IsFiniteSet(P) /\ n + 1 \in Nat /\ (\A s \in P : box[s] \in Nat) /\ \A s \in P : W[s] = (n + 1) * box[s]
        BY <1>3, <2>2, FS_Subset
      <4> HIDE DEF W, n
      <4> QED
        BY <4>1, SumScales
    <3> QED
      BY <3>1
  <2>4. Valid = SumOf(box, Forms) /\ \A C : Solid(C) = SumOf(box, Loyal(C))
    BY <1>3, ValidIs, SolidIs DEF SolidIn, Loyal
  <2>5. Weights' = W /\ \A C : Loyal(C)' = Loyal(C)
    BY <1>1, <1>2 DEF Weights, Loyal
  <2>6. SumOf(W, Forms) = (n + 1 - 0) * (Valid * 1)
    <3>1. SumOf(W, Forms) = (n + 1) * Valid
      BY <2>3, <2>4
    <3> HIDE DEF W, n
    <3> QED
      BY <1>2, <1>3, <3>1
  <2>7. ASSUME NEW C \in SUBSET K, NEW k \in 1..n, Owed(C, k)
        PROVE  SumOf(W, Loyal(C)) > (k - 0) * (Valid * 1)
    <3>1. SumOf(W, Loyal(C)) = (n + 1) * Solid(C)
      BY <2>3, <2>4 DEF Loyal
    <3>2. Solid(C) * (n + 1) > k * Valid
      BY <2>7 DEF Owed
    <3> HIDE DEF W, n
    <3>3. (n + 1) * Solid(C) = Solid(C) * (n + 1) /\ (k - 0) * (Valid * 1) = k * Valid
      BY <1>2, <1>3
    <3> QED
      BY <3>1, <3>2, <3>3
  <2>8. unit' = (n + 1) * 1
    BY <1>3, <2>1
  <2> HIDE DEF W, K, n
  <2>9. /\ unit' = (RankedSeats' + 1) * 1
        /\ SumOf(Weights', Forms') = (RankedSeats' + 1 - Cardinality(winners')) * (Valid' * 1)
    BY <1>1, <1>2, <1>5, <2>5, <2>6, <2>8 DEF n
  <2>10. \A C \in SUBSET position'.standing, k \in 1..RankedSeats' :
           Owed(C, k)' /\ continuing' \cap C # {} /\ Cardinality(winners' \cap C) < k
             => SumOf(Weights', Loyal(C)') > (k - Cardinality(winners' \cap C)) * (Valid' * 1)
    <3>1. ASSUME NEW C \in SUBSET K, NEW k \in 1..n, Owed(C, k)
          PROVE  SumOf(Weights', Loyal(C)') > (k - Cardinality(winners' \cap C)) * (Valid' * 1)
      <4>1. winners' \cap C = {} \cap C
        BY <1>1
      <4> QED
        BY <1>2, <1>4, <2>5, <2>7, <3>1, <4>1
    <3> QED
      BY <1>1, <1>2, <1>6, <3>1 DEF K, n
  <2> QED
    BY <2>9, <2>10 DEF AtScale
<1>9. ASSUME ~Stv PROVE \A s \in Forms' : weight'[s] = 1
  BY <1>1, <1>2, <1>9
<1> HIDE DEF K, n
<1>10. (Stv => \E m \in Nat : AtScale(m))'
  <2>1. 1 \in Nat
    OBVIOUS
  <2> QED
    BY <1>2, <1>8, <2>1
<1>11. Cardinality(winners') <= RankedSeats' /\ Cardinality(winners') + Cardinality(continuing') >= RankedSeats'
  BY <1>1, <1>2, <1>3, <1>5 DEF K, n
<1>12. \A C \in SUBSET position'.standing, k \in 1..RankedSeats' :
          Owed(C, k)' => Cardinality(winners' \cap C) + Cardinality(continuing' \cap C) >= AtMost(k, Cardinality(C))
  BY <1>1, <1>2, <1>7 DEF K, n
<1> QED
  BY <1>1, <1>2, <1>9, <1>10, <1>11, <1>12 DEF RoundOK

(* What is at stake in a round in which nobody is elected. *)
LEMMA LoyalAreCounted ==
  ASSUME InCount, NEW C \in SUBSET position.standing, continuing \cap C # {}
  PROVE  SumOf(Weights, Loyal(C)) <= SumOf(Tallies, continuing \cap C)
         /\ SumOf(Weights, Loyal(C)) \in Nat /\ SumOf(Tallies, continuing \cap C) \in Nat
<1> DEFINE D == continuing \cap C
<1>1. SumOf(Tallies, D) = SumOf(Weights, ForThem(D)) /\ SumOf(Tallies, D) \in Nat
  <2>1. D \in SUBSET continuing
    OBVIOUS
  <2> HIDE DEF D
  <2> QED
    BY <2>1, TalliesAdd
<1>2. Loyal(C) \subseteq ForThem(D) /\ ForThem(D) \in SUBSET Forms /\ Loyal(C) \in SUBSET Forms
  BY LoyalToThem DEF ForThem, Loyal
<1>3. IsFiniteSet(ForThem(D)) /\ \A s \in ForThem(D) : Weights[s] \in Nat
  BY <1>2, WeightsTyped, FS_Subset
<1> HIDE DEF D
<1>4. SumOf(Weights, Loyal(C)) <= SumOf(Weights, ForThem(D))
  BY <1>2, <1>3, SumOfPart
<1> QED
  BY <1>1, <1>2, <1>4, WeightsTyped DEF D

(* Where no candidate has the quota, C's are more than the seats it is still *)
(* owed.                                                                     *)
LEMMA NoneToSpare ==
  ASSUME InCount, RoundOK, Reached(Tallies) = {},
         NEW C \in SUBSET position.standing, NEW k \in 1..RankedSeats, Owed(C, k), continuing \cap C # {}
  PROVE  Cardinality(winners \cap C) + Cardinality(continuing \cap C) > AtMost(k, Cardinality(C))
<1> DEFINE j == Cardinality(winners \cap C)
           r == Cardinality(continuing \cap C)
           total == SumOf(Tallies, continuing \cap C)
           mine == SumOf(Weights, Loyal(C))
<1>1. j \in Nat /\ r \in Nat /\ r >= 1 /\ Cardinality(C) \in Nat /\ k \in Nat /\ RankedSeats \in Nat /\ k <= RankedSeats
  <2>1. RankedSeats \in Nat
    BY PositionTyped DEF InCount
  <2>2. k \in Nat /\ k <= RankedSeats
    BY <2>1
  <2>3. j \in Nat /\ r \in Nat /\ r >= 1 /\ Cardinality(C) \in Nat
    BY SizesTyped
  <2> QED
    BY <2>1, <2>2, <2>3
<1>2. j + r >= AtMost(k, Cardinality(C)) /\ AtMost(k, Cardinality(C)) \in Nat /\ AtMost(k, Cardinality(C)) <= k
  <2>1. AtMost(k, Cardinality(C)) \in Nat /\ AtMost(k, Cardinality(C)) <= k
    BY <1>1 DEF AtMost
  <2> QED
    BY <2>1 DEF RoundOK, InCount
<1>3. mine <= total /\ mine \in Nat /\ total \in Nat
  BY LoyalAreCounted
<1>4. SUFFICES ASSUME j + r = AtMost(k, Cardinality(C)) PROVE FALSE
  <2> HIDE DEF j, r
  <2> QED
    BY <1>1, <1>2 DEF j, r
<1>5. j + r <= k
  BY <1>2, <1>4
<1>6. IsFiniteSet(continuing \cap C) /\ \A c \in continuing \cap C : c \in continuing /\ Tallies[c] \in Nat
  <2>1. \A c \in continuing : Tallies[c] \in Nat
    BY TallyIs
  <2> QED
    BY <2>1, SizesTyped
<1>7. Valid > 0 /\ Valid \in Nat /\ Solid(C) \in Nat /\ Solid(C) * (RankedSeats + 1) > k * Valid
  BY OwedHasVoters DEF InCount
<1> HIDE DEF j, r, total, mine
<1>8. CASE Stv
  <2>1. PICK m \in Nat : AtScale(m)
    BY <1>8 DEF RoundOK, InCount
  <2> DEFINE q == Valid * m
  <2>2. Quota = q /\ q \in Nat
    BY <2>1, QuotaIs
  <2>3. mine > (k - j) * q
    <3>1. j < k
      BY <1>1, <1>5
    <3> QED
      BY <2>1, <3>1 DEF AtScale, j, mine
  <2>4. total <= r * q
    <3>1. \A c \in continuing \cap C : Tallies[c] \in Nat /\ Tallies[c] <= q
      <4>1. ASSUME NEW c \in continuing \cap C PROVE ~(Tallies[c] >= q)
        BY <1>8, <2>2, ReachedIs
      <4> HIDE DEF q
      <4> QED
        BY <1>6, <2>2, <4>1
    <3> HIDE DEF q
    <3> QED
      BY <1>6, <2>2, <3>1, SumBounded DEF total, r
  <2> HIDE DEF q
  <2>5. r * q <= (k - j) * q
    <3>1. r <= k - j /\ r \in Int /\ k - j \in Int
      BY <1>1, <1>5
    <3> QED
      BY <2>2, <3>1, TimesMore
  <2>6. r * q \in Int /\ (k - j) * q \in Int
    BY <1>1, <2>2
  <2> QED
    BY <1>3, <2>3, <2>4, <2>5, <2>6
<1>9. CASE ~Stv
  <2>1. RankedSeats = 1 /\ k = 1 /\ r = 1 /\ j = 0
    <3>1. RankedSeats = 1
      BY <1>9, PositionTyped DEF InCount
    <3> QED
      BY <1>1, <1>5, <3>1
  <2>2. PICK c : continuing \cap C = {c}
    BY <1>6, <2>1, FS_Singleton DEF r
  <2>3. c \in continuing /\ Tallies[c] \in Nat /\ total = Tallies[c]
    <3>1. c \in continuing /\ Tallies[c] \in Nat
      BY <1>6, <2>2
    <3>2. total = Tallies[c] + SumOf(Tallies, {c} \ {c})
      BY <1>6, <2>2, SumTakes DEF total
    <3>3. {c} \ {c} = {} /\ SumOf(Tallies, {}) = 0
      BY FS_EmptySet, SumUnfolds
    <3> QED
      BY <3>1, <3>2, <3>3
  <2>4. mine = Solid(C) /\ SumOf(Weights, Forms) = Valid
    <3>1. IsFiniteSet(Forms) /\ \A s \in Forms : box[s] \in Nat
      BY PositionTyped DEF InCount
    <3>2. \A s \in Forms : Weights[s] = box[s]
      <4>1. \A s \in Forms : weight[s] = 1 /\ Weights[s] = box[s] * weight[s]
        BY <1>9, Multiplied DEF RoundOK, InCount, Weights
      <4> QED
        BY <3>1, <4>1
    <3>3. IsFiniteSet(Loyal(C)) /\ Loyal(C) \subseteq Forms
      BY <3>1, FS_Subset DEF Loyal
    <3>4. SumOf(Weights, Loyal(C)) = SumOf(box, Loyal(C)) /\ SumOf(Weights, Forms) = SumOf(box, Forms)
      BY <3>1, <3>2, <3>3, SumSame
    <3> QED
      BY <3>1, <3>4, ValidIs, SolidIs DEF SolidIn, Loyal, mine
  <2>5. SumOf(Tallies, continuing) <= Valid /\ SumOf(Tallies, continuing) \in Nat
    <3>1. SumOf(Tallies, continuing) = SumOf(Weights, ForThem(continuing)) /\ SumOf(Tallies, continuing) \in Nat
      BY TalliesAdd
    <3>2. SumOf(Weights, ForThem(continuing)) <= SumOf(Weights, Forms)
      <4>1. ForThem(continuing) \in SUBSET Forms
        BY DEF ForThem
      <4> QED
        BY <4>1, WeightsTyped
    <3> QED
      BY <2>4, <3>1, <3>2
  <2>6. ~(2 * Tallies[c] > SumOf(Tallies, continuing))
    BY <1>9, <2>3, ReachedIs
  <2>7. Solid(C) * (RankedSeats + 1) = 2 * Solid(C) /\ k * Valid = Valid
    BY <1>7, <2>1
  <2> QED
    BY <1>3, <1>7, <2>3, <2>4, <2>5, <2>6, <2>7
<1> QED
  BY <1>8, <1>9

(* A seat is filled: what C's voters have left pays for the seats C has not. *)
LEMMA ElectKeepsScale ==
  ASSUME InCount, RoundOK, Stv, Elect, InCount', NEW m \in Nat, AtScale(m)
  PROVE  \E n \in Nat : AtScale(n)'
<1> DEFINE w == Best(Tallies, Reached(Tallies))
           t == Tallies[w]
           q == Valid * m
           S == RankedSeats
           F == ForThem({w})
           W == Weights'
           j == Cardinality(winners)
<1>1. /\ box' = box /\ position' = position /\ winners' = winners \cup {w} /\ continuing' = continuing \ {w}
      /\ unit' = unit * t /\ weight' = [s \in Forms |-> weight[s] * (IF For(s, w) THEN Kept(t) ELSE t)]
      /\ Reached(Tallies) # {}
  BY DEF Elect
<1>2. /\ Valid' = Valid /\ Valid \in Nat /\ (\A C : Solid(C)' = Solid(C) /\ Solid(C) \in Nat)
      /\ Forms' = Forms /\ RankedSeats' = S
  BY <1>1, SameBox, SameForms DEF InCount
<1>3. w \in continuing /\ t \in Nat /\ t >= Quota /\ t = SumOf(Weights, F)
  <2>1. w \in Reached(Tallies) /\ w \in continuing
    BY <1>1, BestIsReached
  <2>2. t \in Nat /\ t = SumOf(Weights, F)
    BY <2>1, TallyIs
  <2>3. \A c \in Reached(Tallies) : Tallies[c] >= Quota
    BY ReachedIs
  <2> QED
    BY <2>1, <2>2, <2>3
<1>4. Quota = q /\ q \in Nat
  BY QuotaIs
<1>5. Kept(t) = t - q /\ t - q \in Nat /\ q <= t
  BY <1>3, <1>4 DEF Kept
<1>6. S \in Nat /\ S >= 1 /\ j \in Nat
  BY PositionTyped, SizesTyped DEF InCount
<1>7. F \in SUBSET Forms /\ \A s \in Forms : s \in F <=> For(s, w)
  BY DEF ForThem
<1>8. /\ \A s \in Forms : W[s] = Weigh(box, weight', Forms)[s]
      /\ \A s \in F : W[s] = (t - q) * Weights[s]
      /\ \A s \in Forms \ F : W[s] = t * Weights[s]
  <2>1. W = Weigh(box, weight', Forms)
    BY <1>1, <1>2 DEF Weights
  <2>2. \A s \in Forms : W[s] = box[s] * weight'[s] /\ Weights[s] = box[s] * weight[s]
    BY <2>1, Multiplied DEF Weights
  <2>3. \A s \in Forms : box[s] \in Nat /\ weight[s] \in Nat
    BY PositionTyped DEF InCount, CountTypeOK
  <2>4. \A s \in F : weight'[s] = weight[s] * (t - q)
    BY <1>1, <1>5, <1>7
  <2>5. \A s \in Forms \ F : weight'[s] = weight[s] * t
    BY <1>1, <1>7
  <2> HIDE DEF w, t, q, F, W
  <2>6. ASSUME NEW s \in F PROVE W[s] = (t - q) * Weights[s]
    <3>1. box[s] \in Nat /\ weight[s] \in Nat /\ W[s] = box[s] * (weight[s] * (t - q)) /\ Weights[s] = box[s] * weight[s]
      BY <1>7, <2>2, <2>3, <2>4
    <3>2. box[s] * (weight[s] * (t - q)) = (t - q) * (box[s] * weight[s])
      BY <1>5, <3>1
    <3> QED
      BY <3>1, <3>2
  <2>7. ASSUME NEW s \in Forms \ F PROVE W[s] = t * Weights[s]
    <3>1. box[s] \in Nat /\ weight[s] \in Nat /\ W[s] = box[s] * (weight[s] * t) /\ Weights[s] = box[s] * weight[s]
      BY <1>7, <2>2, <2>3, <2>5
    <3>2. box[s] * (weight[s] * t) = t * (box[s] * weight[s])
      BY <1>3, <3>1
    <3> QED
      BY <3>1, <3>2
  <2> QED
    BY <2>1, <2>6, <2>7
<1> HIDE DEF w, t, q, S, F, W, j
<1>9. \A P \in SUBSET Forms :
        /\ SumOf(W, P) = (t - q) * SumOf(Weights, P \cap F) + t * SumOf(Weights, P \ F)
        /\ SumOf(Weights, P) = SumOf(Weights, P \cap F) + SumOf(Weights, P \ F)
        /\ SumOf(Weights, P \cap F) \in Nat /\ SumOf(Weights, P \ F) \in Nat
        /\ SumOf(Weights, P \cap F) <= t
  <2>1. ASSUME NEW P \in SUBSET Forms
        PROVE  /\ SumOf(W, P) = (t - q) * SumOf(Weights, P \cap F) + t * SumOf(Weights, P \ F)
               /\ SumOf(Weights, P) = SumOf(Weights, P \cap F) + SumOf(Weights, P \ F)
               /\ SumOf(Weights, P \cap F) \in Nat /\ SumOf(Weights, P \ F) \in Nat
               /\ SumOf(Weights, P \cap F) <= t
    <3>1. IsFiniteSet(P) /\ IsFiniteSet(F) /\ (\A s \in P : Weights[s] \in Nat) /\ \A s \in F : Weights[s] \in Nat
      BY <1>7, WeightsTyped, FS_Subset
    <3>2. P \cap F \in SUBSET P /\ P \ (P \cap F) = P \ F /\ P \cap F \in SUBSET F
      OBVIOUS
    <3>3. (\A s \in P \cap F : W[s] = (t - q) * Weights[s]) /\ \A s \in P \ (P \cap F) : W[s] = t * Weights[s]
      BY <1>8
    <3> DEFINE A == P \cap F
               f == Weights
               d == t - q
    <3>4. /\ SumOf(W, P) = (t - q) * SumOf(f, A) + t * SumOf(f, P \ A)
          /\ SumOf(f, P) = SumOf(f, A) + SumOf(f, P \ A)
          /\ SumOf(f, A) \in Nat /\ SumOf(f, P \ A) \in Nat
      <4>1. /\ IsFiniteSet(P) /\ (\A s \in P : f[s] \in Nat) /\ A \in SUBSET P
            /\ (\A s \in A : W[s] = d * f[s]) /\ (\A s \in P \ A : W[s] = t * f[s])
            /\ d \in Nat /\ t \in Nat
        BY <1>3, <1>5, <3>1, <3>2, <3>3
      <4> HIDE DEF A, f, d
      <4>2. \A s \in P : W[s] \in Nat
        <5>1. \A s \in P : d * f[s] \in Nat /\ t * f[s] \in Nat
          BY <4>1, ProductType
        <5> QED
          BY <4>1, <5>1
      <4>3. SumOf(W, P) = SumOf(W, A) + SumOf(W, P \ A)
        BY <4>1, <4>2, SumSplits
      <4>4. /\ SumOf(f, P) = SumOf(f, A) + SumOf(f, P \ A)
            /\ SumOf(f, A) \in Nat /\ SumOf(f, P \ A) \in Nat
        BY <4>1, SumSplits
      <4>5. IsFiniteSet(A) /\ IsFiniteSet(P \ A) /\ A \subseteq P /\ P \ A \subseteq P
        BY <4>1, FS_Subset
      <4>6. SumOf(W, A) = d * SumOf(f, A)
        <5>1. \A s \in A : f[s] \in Nat /\ W[s] = d * f[s]
          BY <4>1
        <5> QED
          BY <4>1, <4>5, <5>1, SumScales
      <4>7. SumOf(W, P \ A) = t * SumOf(f, P \ A)
        <5> DEFINE B == P \ A
        <5>1. IsFiniteSet(B) /\ \A s \in B : f[s] \in Nat /\ W[s] = t * f[s]
          BY <4>1, <4>5
        <5> HIDE DEF B
        <5>2. SumOf(W, B) = t * SumOf(f, B)
          BY <4>1, <5>1, SumScales
        <5> QED
          BY <5>2 DEF B
      <4> QED
        BY <4>3, <4>4, <4>6, <4>7 DEF d
    <3>5. SumOf(Weights, P \cap F) <= SumOf(Weights, F)
      BY <3>1, <3>2, SumOfPart
    <3> QED
      BY <1>3, <3>2, <3>4, <3>5
  <2> QED
    BY <2>1
<1>10. m * t \in Nat /\ Valid * (m * t) = q * t /\ q * t \in Nat
  <2>1. q * t = Valid * (m * t)
    BY <1>2, <1>3 DEF q
  <2> QED
    BY <1>3, <1>4, <2>1
<1>11. Valid > 0 => t > 0 /\ m > 0 /\ m * t > 0
  <2>1. ASSUME Valid > 0 PROVE m > 0 /\ q > 0
    <3>1. m > 0
      BY <2>1 DEF AtScale
    <3> QED
      BY <1>2, <2>1, <3>1 DEF q
  <2>2. ASSUME t > 0, m > 0 PROVE m * t > 0
    BY <1>3, <2>2
  <2> QED
    BY <1>3, <1>4, <1>5, <2>1, <2>2
<1>12. unit' = (S + 1) * (m * t)
  <2>1. unit = (S + 1) * m
    BY DEF AtScale, S
  <2> QED
    BY <1>1, <1>3, <1>6, <2>1
<1>13. SumOf(W, Forms) = (S + 1 - Cardinality(winners')) * (Valid * (m * t))
  <2>1. Forms \cap F = F /\ Forms \in SUBSET Forms
    BY <1>7
  <2> DEFINE r == SumOf(Weights, Forms \ F)
  <2>2. SumOf(W, Forms) = (t - q) * t + t * r /\ SumOf(Weights, Forms) = t + r /\ r \in Nat
    BY <1>3, <1>9, <2>1
  <2>3. SumOf(Weights, Forms) = (S + 1 - j) * q
    BY DEF AtScale, S, j, q
  <2>4. Cardinality(winners') = j + 1
    BY <1>1, <1>3, OneLeaves DEF j
  <2> HIDE DEF r
  <2>5. (t - q) * t + t * r = ((S + 1 - j) - 1) * (q * t)
    <3> DEFINE z == S + 1 - j
    <3>1. t + r = z * q /\ z \in Int
      BY <1>6, <2>2, <2>3
    <3>2. \A x \in Nat, y \in Int : t + x = y * q => (t - q) * t + t * x = (y - 1) * (q * t)
      BY <1>3, <1>4, <1>5, ElectArithmetic
    <3> HIDE DEF z
    <3>3. (t - q) * t + t * r = (z - 1) * (q * t)
      BY <2>2, <3>1, <3>2
    <3> QED
      BY <3>3 DEF z
  <2>6. (S + 1 - j) - 1 = S + 1 - (j + 1)
    BY <1>6
  <2> QED
    BY <1>10, <2>2, <2>4, <2>5, <2>6
<1>14. ASSUME NEW C \in SUBSET position.standing, NEW k \in 1..S, Owed(C, k),
              continuing' \cap C # {}, Cardinality(winners' \cap C) < k
       PROVE  SumOf(W, Loyal(C)) > (k - Cardinality(winners' \cap C)) * (Valid * (m * t))
  <2> DEFINE P == Loyal(C)
             a == SumOf(Weights, P \cap F)
             b == SumOf(Weights, P \ F)
             n == Cardinality(winners \cap C)
  <2>1. P \in SUBSET Forms /\ continuing \cap C # {} /\ n \in Nat /\ k \in Nat /\ k >= 1
    <3>1. n \in Nat
      BY SizesTyped
    <3> QED
      BY <1>1, <1>6, <1>14, <3>1 DEF Loyal
  <2>2. SumOf(W, P) = (t - q) * a + t * b /\ SumOf(Weights, P) = a + b /\ a \in Nat /\ b \in Nat /\ a <= t
    <3> HIDE DEF P
    <3> QED
      BY <1>9, <2>1
  <2>3. Valid > 0
    BY <1>14, OwedHasVoters DEF InCount, S
  <2>4. ASSUME n < k PROVE a + b > (k - n) * q
    BY <1>14, <2>1, <2>2, <2>4 DEF AtScale, S, q
  <2>5. CASE w \in C
    <3>1. Cardinality(winners' \cap C) = n + 1
      BY <1>1, <1>3, <2>5, OneLeaves
    <3> HIDE DEF P, a, b, n
    <3>2. n + 1 < k /\ k - n \in Nat
      BY <1>14, <2>1, <3>1
    <3>3. (t - q) * a + t * b > ((k - n) - 1) * (q * t)
      <4>1. a + b > (k - n) * q
        BY <2>1, <2>4, <3>2
      <4> QED
        BY <1>3, <1>4, <1>5, <1>11, <2>2, <2>3, <3>2, <4>1, ElectArithmetic
    <3>4. (k - n) - 1 = k - (n + 1)
      BY <2>1
    <3> QED
      BY <1>10, <2>2, <3>1, <3>3, <3>4 DEF P
  <2>6. CASE w \notin C
    <3>1. winners' \cap C = winners \cap C
      BY <1>1, <1>3, <2>6, OneLeaves
    <3>2. P \cap F = {} /\ a = 0
      <4>1. P \cap F = {}
        BY <1>3, <2>1, <2>6, LoyalToThem DEF F
      <4>2. SumOf(Weights, {}) = 0
        BY FS_EmptySet, SumUnfolds
      <4> QED
        BY <4>1, <4>2
    <3>3. n < k
      BY <1>14, <3>1
    <3> HIDE DEF P, a, b
    <3>4. k - n \in Nat /\ b > (k - n) * q
      <4>1. a + b > (k - n) * q
        BY <2>4, <3>3
      <4> HIDE DEF n
      <4> QED
        BY <2>1, <2>2, <3>2, <3>3, <4>1
    <3>5. t * b > (k - n) * (q * t)
      <4> HIDE DEF n
      <4> QED
        BY <1>3, <1>4, <1>5, <1>11, <2>2, <2>3, <3>4, ElectArithmetic
    <3>6. (t - q) * a = 0 /\ t * b \in Nat
      BY <1>3, <1>5, <2>2, <3>2
    <3>7. SumOf(W, P) = t * b
      BY <2>2, <3>6
    <3> QED
      BY <1>10, <3>1, <3>5, <3>7 DEF P
  <2> QED
    BY <2>5, <2>6
<1>15. (\A C : Loyal(C)' = Loyal(C)) /\ (\A C, k : Owed(C, k)' <=> Owed(C, k)) /\ Weights' = W
  <2>1. \A C : Loyal(C)' = Loyal(C)
    BY <1>2 DEF Loyal
  <2>2. \A C, k : Owed(C, k)' <=> Owed(C, k)
    BY <1>2 DEF Owed, S
  <2> QED
    BY <2>1, <2>2 DEF W
<1>16. PICK n \in Nat : n = m * t
  BY <1>10
<1>17. unit' = (RankedSeats' + 1) * n /\ (Valid' > 0 => n > 0)
       /\ SumOf(Weights', Forms') = (RankedSeats' + 1 - Cardinality(winners')) * (Valid' * n)
  BY <1>2, <1>11, <1>12, <1>13, <1>15, <1>16
<1>18. \A C \in SUBSET position'.standing, k \in 1..RankedSeats' :
         Owed(C, k)' /\ continuing' \cap C # {} /\ Cardinality(winners' \cap C) < k
           => SumOf(Weights', Loyal(C)') > (k - Cardinality(winners' \cap C)) * (Valid' * n)
  BY <1>1, <1>2, <1>14, <1>15, <1>16
<1>19. AtScale(n)'
  BY <1>17, <1>18 DEF AtScale
<1> QED
  BY <1>16, <1>19

(* The one seat of an instant run-off goes to the choice of a majority. *)
LEMMA ElectKeepsMajority ==
  ASSUME InCount, RoundOK, ~Stv, Elect,
         NEW C \in SUBSET position.standing, NEW k \in 1..RankedSeats, Owed(C, k)
  PROVE  (winners \cup {Best(Tallies, Reached(Tallies))}) \cap C # {}
<1> DEFINE w == Best(Tallies, Reached(Tallies))
           D == continuing \cap C
           total == SumOf(Tallies, continuing)
           mine == SumOf(Weights, Loyal(C))
<1>1. SUFFICES ASSUME (winners \cup {w}) \cap C = {} PROVE FALSE
  OBVIOUS
<1>2. Reached(Tallies) # {} /\ w \in continuing /\ 2 * Tallies[w] > total /\ Tallies[w] \in Nat
  <2>1. Reached(Tallies) # {}
    BY DEF Elect
  <2>2. w \in Reached(Tallies) /\ w \in continuing
    BY <2>1, BestIsReached
  <2>3. \A c \in Reached(Tallies) : 2 * Tallies[c] > total
    BY ReachedIs
  <2>4. Tallies[w] \in Nat
    BY <2>2, TallyIs
  <2> HIDE DEF w, total
  <2> QED
    BY <2>1, <2>2, <2>3, <2>4
<1>3. RankedSeats = 1 /\ k = 1
  <2>1. RankedSeats = 1
    BY PositionTyped DEF InCount
  <2> QED
    BY <2>1
<1>4. winners \cap C = {} /\ w \notin C
  BY <1>1
<1>5. D # {}
  <2>1. Cardinality(winners \cap C) = 0
    BY <1>4, FS_EmptySet
  <2>2. Cardinality(C) >= 1 /\ Cardinality(C) \in Nat
    <3>1. Cardinality(C) \in Nat /\ IsFiniteSet(C)
      BY SizesTyped
    <3>2. Cardinality(C) # 0
      BY <3>1, FS_EmptySet DEF Owed
    <3> QED
      BY <3>1, <3>2
  <2>3. Cardinality(winners \cap C) + Cardinality(D) >= AtMost(k, Cardinality(C))
    BY DEF RoundOK, InCount
  <2>4. Cardinality(D) # 0
    <3>1. Cardinality(D) \in Nat
      BY SizesTyped
    <3> HIDE DEF D
    <3> QED
      BY <1>3, <2>1, <2>2, <2>3, <3>1 DEF AtMost
  <2> QED
    BY <2>4, FS_EmptySet
<1>6. mine = Solid(C) /\ SumOf(Weights, Forms) = Valid /\ Valid \in Nat /\ Solid(C) \in Nat
  <2>1. IsFiniteSet(Forms) /\ \A s \in Forms : box[s] \in Nat
    BY PositionTyped DEF InCount
  <2>2. \A s \in Forms : Weights[s] = box[s]
    <3>1. \A s \in Forms : weight[s] = 1 /\ Weights[s] = box[s] * weight[s]
      BY Multiplied DEF RoundOK, InCount, Weights
    <3> QED
      BY <2>1, <3>1
  <2>3. IsFiniteSet(Loyal(C)) /\ Loyal(C) \subseteq Forms
    BY <2>1, FS_Subset DEF Loyal
  <2>4. SumOf(Weights, Loyal(C)) = SumOf(box, Loyal(C)) /\ SumOf(Weights, Forms) = SumOf(box, Forms)
    BY <2>1, <2>2, <2>3, SumSame
  <2> QED
    BY <2>1, <2>4, ValidIs, SolidIs DEF SolidIn, Loyal
<1>7. 2 * Solid(C) > Valid
  <2>1. Solid(C) * (RankedSeats + 1) > k * Valid
    BY DEF Owed
  <2> QED
    BY <1>3, <1>6, <2>1
(* Their votes and w's are different votes. *)
<1>8. Tallies[w] + mine <= Valid
  <2> DEFINE A == ForThem({w})
             B == Loyal(C)
  <2>1. A \cap B = {} /\ A \in SUBSET Forms /\ B \in SUBSET Forms
    <3>1. B \cap ForThem({w}) = {}
      BY <1>2, <1>4, <1>5, LoyalToThem
    <3> QED
      BY <3>1 DEF ForThem, Loyal
  <2>2. IsFiniteSet(A \cup B) /\ A \cup B \in SUBSET Forms /\ \A s \in A \cup B : Weights[s] \in Nat
    BY <2>1, WeightsTyped, FS_Subset
  <2>3. A \in SUBSET (A \cup B) /\ (A \cup B) \ A = B
    BY <2>1
  <2> HIDE DEF A, B
  <2>4. SumOf(Weights, A \cup B) = SumOf(Weights, A) + SumOf(Weights, B)
    BY <2>2, <2>3, SumSplits
  <2>5. SumOf(Weights, A \cup B) <= SumOf(Weights, Forms)
    BY <2>2, WeightsTyped
  <2>6. Tallies[w] = SumOf(Weights, A)
    BY <1>2, TallyIs DEF A
  <2> QED
    BY <1>6, <2>4, <2>5, <2>6 DEF B
(* And both are votes for a candidate who continues. *)
<1>9. Tallies[w] + mine <= total
  <2> DEFINE R == continuing \ {w}
  <2>1. mine <= SumOf(Tallies, D) /\ mine \in Nat /\ SumOf(Tallies, D) \in Nat
    BY <1>5, LoyalAreCounted
  <2>2. IsFiniteSet(continuing) /\ IsFiniteSet(R) /\ D \in SUBSET R /\ \A c \in continuing : Tallies[c] \in Nat
    <3>1. IsFiniteSet(continuing) /\ \A c \in continuing : Tallies[c] \in Nat
      BY TalliesAdd
    <3> QED
      BY <1>4, <3>1, FS_RemoveElement
  <2>3. total = Tallies[w] + SumOf(Tallies, R)
    BY <1>2, <2>2, SumTakes
  <2>4. SumOf(Tallies, D) <= SumOf(Tallies, R) /\ SumOf(Tallies, R) \in Nat
    <3>1. \A c \in R : Tallies[c] \in Nat
      BY <2>2
    <3> HIDE DEF D, R
    <3> QED
      BY <2>2, <3>1, SumOfPart, SumType
  <2> HIDE DEF w, total, mine, D, R
  <2> QED
    BY <1>2, <2>1, <2>3, <2>4
<1> HIDE DEF w, total, mine
<1>10. total \in Nat
  BY TalliesAdd DEF total
<1> QED
  BY <1>2, <1>6, <1>7, <1>8, <1>9, <1>10

LEMMA ElectKeepsRound ==
  ASSUME InCount, RoundOK, Elect, CountTypeOK'
  PROVE  RoundOK'
<1> DEFINE w == Best(Tallies, Reached(Tallies))
           j == Cardinality(winners)
           r == Cardinality(continuing)
<1>1. /\ box' = box /\ position' = position /\ winners' = winners \cup {w} /\ continuing' = continuing \ {w}
      /\ phase' = phase /\ Reached(Tallies) # {} /\ Cardinality(continuing) > RankedSeats - Cardinality(winners)
      /\ Cardinality(winners) < RankedSeats
      /\ ~Stv => weight' = weight
  BY DEF Elect, Counting
<1>2. /\ Valid' = Valid /\ (\A C : Solid(C)' = Solid(C))
      /\ Forms' = Forms /\ RankedSeats' = RankedSeats /\ Stv' = Stv
  BY <1>1, SameBox, SameForms DEF InCount
<1>3. w \in continuing
  BY <1>1, BestIsReached
<1>4. InCount'
  BY <1>1 DEF InCount
<1>5. \A C, k : Owed(C, k)' <=> Owed(C, k)
  BY <1>2 DEF Owed
<1>6. Stv' => (\E m \in Nat : AtScale(m))'
  <2>1. ASSUME Stv PROVE (\E m \in Nat : AtScale(m))'
    <3>1. PICK m \in Nat : AtScale(m)
      BY <2>1 DEF RoundOK, InCount
    <3>2. \E n \in Nat : AtScale(n)'
      BY <1>4, <2>1, <3>1, ElectKeepsScale
    <3> QED
      BY <3>2
  <2> QED
    BY <1>2, <2>1
<1> HIDE DEF w
<1>7. Cardinality(winners') = j + 1 /\ Cardinality(continuing') = r - 1 /\ j \in Nat /\ r \in Nat /\ RankedSeats \in Nat
  BY <1>1, <1>3, OneLeaves, SizesTyped, PositionTyped DEF InCount
<1>8. Cardinality(winners') <= RankedSeats /\ Cardinality(winners') + Cardinality(continuing') >= RankedSeats
  BY <1>1, <1>7
<1>9. ASSUME NEW C \in SUBSET position.standing, NEW k \in 1..RankedSeats, Owed(C, k)
      PROVE  Cardinality(winners' \cap C) + Cardinality(continuing' \cap C) >= AtMost(k, Cardinality(C))
  <2>1. Cardinality(winners \cap C) + Cardinality(continuing \cap C) >= AtMost(k, Cardinality(C))
    BY <1>9 DEF RoundOK, InCount
  <2>2. Cardinality(winners' \cap C) + Cardinality(continuing' \cap C) = Cardinality(winners \cap C) + Cardinality(continuing \cap C)
    <3>1. Cardinality(winners \cap C) \in Nat /\ Cardinality(continuing \cap C) \in Nat
      BY SizesTyped
    <3>2. CASE w \in C
      <4>1. /\ Cardinality(winners' \cap C) = Cardinality(winners \cap C) + 1
            /\ Cardinality(continuing' \cap C) = Cardinality(continuing \cap C) - 1
        BY <1>1, <1>3, <3>2, OneLeaves
      <4> QED
        BY <3>1, <4>1
    <3>3. CASE w \notin C
      <4>1. winners' \cap C = winners \cap C /\ continuing' \cap C = continuing \cap C
        BY <1>1, <1>3, <3>3, OneLeaves
      <4> QED
        BY <4>1
    <3> QED
      BY <3>2, <3>3
  <2> QED
    BY <2>1, <2>2
<1>10. ASSUME ~Stv PROVE /\ \A s \in Forms : weight'[s] = 1
                         /\ \A C \in SUBSET position.standing, k \in 1..RankedSeats :
                               Owed(C, k) => winners' \cap C # {}
  <2>1. \A s \in Forms : weight'[s] = 1
    BY <1>1, <1>10 DEF RoundOK, InCount
  <2>2. \A C \in SUBSET position.standing, k \in 1..RankedSeats : Owed(C, k) => winners' \cap C # {}
    BY <1>1, <1>10, ElectKeepsMajority DEF w
  <2> QED
    BY <2>1, <2>2
<1> HIDE DEF j, r
<1>11. \A C \in SUBSET position'.standing, k \in 1..RankedSeats' :
          Owed(C, k)' => Cardinality(winners' \cap C) + Cardinality(continuing' \cap C) >= AtMost(k, Cardinality(C))
  BY <1>1, <1>2, <1>5, <1>9
<1>12. Cardinality(winners') <= RankedSeats' /\ Cardinality(winners') + Cardinality(continuing') >= RankedSeats'
  BY <1>2, <1>8
<1>13. ~Stv' => /\ \A s \in Forms' : weight'[s] = 1
                /\ \A C \in SUBSET position'.standing, k \in 1..RankedSeats' :
                      Owed(C, k)' /\ winners' # {} => winners' \cap C # {}
  BY <1>1, <1>2, <1>5, <1>10
<1> QED
  BY <1>6, <1>11, <1>12, <1>13 DEF RoundOK

(* One is struck off: not one C's voters still need. *)
LEMMA EliminateKeepsRound ==
  ASSUME InCount, RoundOK, Eliminate, CountTypeOK'
  PROVE  RoundOK'
<1> DEFINE x == Loser(Tallies)
<1>1. /\ box' = box /\ position' = position /\ winners' = winners /\ continuing' = continuing \ {x}
      /\ phase' = phase /\ weight' = weight /\ unit' = unit
      /\ Reached(Tallies) = {} /\ Cardinality(continuing) > RankedSeats - Cardinality(winners)
      /\ continuing # {}
  BY DEF Eliminate, Counting
<1>2. /\ Valid' = Valid /\ (\A C : Solid(C)' = Solid(C))
      /\ Forms' = Forms /\ RankedSeats' = RankedSeats /\ Stv' = Stv
  BY <1>1, SameBox, SameForms DEF InCount
<1>3. x \in continuing
  BY <1>1, LoserContinues
<1>4. \A C, k : Owed(C, k)' <=> Owed(C, k)
  BY <1>2 DEF Owed
<1> HIDE DEF x
<1>5. Cardinality(winners') <= RankedSeats /\ Cardinality(winners') + Cardinality(continuing') >= RankedSeats
  <2>1. Cardinality(continuing') = Cardinality(continuing) - 1
    BY <1>1, <1>3, OneLeaves
  <2>2. Cardinality(winners) \in Nat /\ Cardinality(continuing) \in Nat /\ RankedSeats \in Nat
    BY SizesTyped, PositionTyped DEF InCount
  <2>3. Cardinality(winners) <= RankedSeats
    BY DEF RoundOK, InCount
  <2> QED
    BY <1>1, <2>1, <2>2, <2>3
<1>6. ASSUME NEW C \in SUBSET position.standing, NEW k \in 1..RankedSeats, Owed(C, k)
      PROVE  Cardinality(winners \cap C) + Cardinality(continuing' \cap C) >= AtMost(k, Cardinality(C))
  <2>1. Cardinality(winners \cap C) + Cardinality(continuing \cap C) >= AtMost(k, Cardinality(C))
    BY <1>6 DEF RoundOK, InCount
  <2>2. CASE x \in C
    <3>1. continuing \cap C # {}
      BY <1>3, <2>2
    <3>2. Cardinality(winners \cap C) + Cardinality(continuing \cap C) > AtMost(k, Cardinality(C))
      BY <1>1, <1>6, <3>1, NoneToSpare
    <3>3. Cardinality(continuing' \cap C) = Cardinality(continuing \cap C) - 1
      BY <1>1, <1>3, <2>2, OneLeaves
    <3>4. Cardinality(winners \cap C) \in Nat /\ Cardinality(continuing \cap C) \in Nat /\ AtMost(k, Cardinality(C)) \in Int
      <4>1. Cardinality(C) \in Nat /\ k \in Int
        <5>1. RankedSeats \in Nat
          BY PositionTyped DEF InCount
        <5>2. k \in Int
          BY <5>1
        <5> QED
          BY <5>2, SizesTyped
      <4>2. AtMost(k, Cardinality(C)) \in Int
        BY <4>1 DEF AtMost
      <4> QED
        BY <4>2, SizesTyped
    <3> QED
      BY <3>2, <3>3, <3>4
  <2>3. CASE x \notin C
    <3>1. continuing' \cap C = continuing \cap C
      BY <1>1, <2>3
    <3> QED
      BY <2>1, <3>1
  <2> QED
    BY <2>2, <2>3
<1>7. (Stv => \E m \in Nat : AtScale(m))'
  <2>1. ASSUME Stv PROVE (\E m \in Nat : AtScale(m))'
    <3>1. PICK m \in Nat : AtScale(m)
      BY <2>1 DEF RoundOK, InCount
    <3>2. Weights' = Weights /\ \A C : Loyal(C)' = Loyal(C)
      BY <1>1, <1>2 DEF Weights, Loyal
    <3>3. /\ unit' = (RankedSeats' + 1) * m /\ (Valid' > 0 => m > 0)
          /\ SumOf(Weights', Forms') = (RankedSeats' + 1 - Cardinality(winners')) * (Valid' * m)
      BY <1>1, <1>2, <3>1, <3>2 DEF AtScale
    <3>4. ASSUME NEW C \in SUBSET position.standing, NEW k \in 1..RankedSeats,
                 Owed(C, k), continuing' \cap C # {}, Cardinality(winners \cap C) < k
          PROVE  SumOf(Weights, Loyal(C)) > (k - Cardinality(winners \cap C)) * (Valid * m)
      <4>1. continuing \cap C # {}
        BY <1>1, <3>4
      <4> QED
        BY <3>1, <3>4, <4>1 DEF AtScale
    <3>5. \A C \in SUBSET position'.standing, k \in 1..RankedSeats' :
            Owed(C, k)' /\ continuing' \cap C # {} /\ Cardinality(winners' \cap C) < k
              => SumOf(Weights', Loyal(C)') > (k - Cardinality(winners' \cap C)) * (Valid' * m)
      BY <1>1, <1>2, <1>4, <3>2, <3>4
    <3>6. AtScale(m)'
      BY <3>3, <3>5 DEF AtScale
    <3> QED
      BY <3>6
  <2> QED
    BY <1>2, <2>1
<1>8. ~Stv' => /\ \A s \in Forms' : weight'[s] = 1
               /\ \A C \in SUBSET position'.standing, k \in 1..RankedSeats' :
                     Owed(C, k)' /\ winners' # {} => winners' \cap C # {}
  BY <1>1, <1>2, <1>4 DEF RoundOK, InCount
<1>9. \A C \in SUBSET position'.standing, k \in 1..RankedSeats' :
         Owed(C, k)' => Cardinality(winners' \cap C) + Cardinality(continuing' \cap C) >= AtMost(k, Cardinality(C))
  BY <1>1, <1>2, <1>4, <1>6
<1>10. Cardinality(winners') <= RankedSeats' /\ Cardinality(winners') + Cardinality(continuing') >= RankedSeats'
  BY <1>2, <1>5
<1> QED
  BY <1>7, <1>8, <1>9, <1>10 DEF RoundOK

(* What the last round leaves: the seats filled, and by whom they are owed. *)
LEMMA LastRound ==
  ASSUME InCount, RoundOK, Fill \/ Finish
  PROVE  SolidCoalitions'
<1>1. box' = box /\ position' = position /\ (Fill => winners' = winners \cup continuing) /\ (Finish => winners' = winners)
  BY DEF Fill, Finish
<1>2. /\ Valid' = Valid /\ (\A C : Solid(C)' = Solid(C)) /\ RankedSeats' = RankedSeats /\ Stv' = Stv
      /\ RankedSeats \in Nat /\ RankedSeats >= 1
  BY <1>1, SameBox, SameForms, PositionTyped DEF InCount
<1> DEFINE j == Cardinality(winners)
           r == Cardinality(continuing)
<1>3. j \in Nat /\ r \in Nat /\ j <= RankedSeats /\ j + r >= RankedSeats /\ winners \cap continuing = {}
      /\ IsFiniteSet(winners) /\ IsFiniteSet(continuing)
  BY SizesTyped DEF RoundOK, InCount, CountTypeOK
<1> HIDE DEF j, r
<1>4. ASSUME NEW C \in SUBSET position.standing, NEW k \in 1..RankedSeats, Owed(C, k)
      PROVE  /\ Cardinality(winners \cap C) + Cardinality(continuing \cap C) >= AtMost(k, Cardinality(C))
             /\ Cardinality(winners \cap C) \in Nat /\ Cardinality(continuing \cap C) \in Nat
             /\ k \in Nat /\ k <= RankedSeats /\ Cardinality(C) \in Nat /\ AtMost(k, Cardinality(C)) \in Nat
             /\ AtMost(k, Cardinality(C)) <= k
             /\ continuing \cap C # {} <=> Cardinality(continuing \cap C) >= 1
  <2>1. k \in Nat /\ k <= RankedSeats
    BY <1>2
  <2>2. /\ Cardinality(winners \cap C) \in Nat /\ Cardinality(continuing \cap C) \in Nat /\ Cardinality(C) \in Nat
        /\ continuing \cap C # {} <=> Cardinality(continuing \cap C) >= 1
    BY SizesTyped
  <2>3. AtMost(k, Cardinality(C)) \in Nat /\ AtMost(k, Cardinality(C)) <= k
    BY <2>1, <2>2 DEF AtMost
  <2>4. Cardinality(winners \cap C) + Cardinality(continuing \cap C) >= AtMost(k, Cardinality(C))
    BY <1>4 DEF RoundOK, InCount
  <2> QED
    BY <2>1, <2>2, <2>3, <2>4
<1>5. CASE Fill
  <2>1. winners' = winners \cup continuing /\ r <= RankedSeats - j
    BY <1>1, <1>5 DEF Fill, r, j
  <2>2. Cardinality(winners') = j + r
    <3>1. Cardinality(winners \cup continuing) = j + r - Cardinality(winners \cap continuing)
      BY <1>3, FS_Union DEF j, r
    <3>2. Cardinality(winners \cap continuing) = 0
      BY <1>3, FS_EmptySet
    <3> QED
      BY <1>3, <2>1, <3>1, <3>2
  <2>3. Cardinality(winners') = RankedSeats
    BY <1>2, <1>3, <2>1, <2>2
  <2>4. ASSUME NEW C \in SUBSET position.standing, NEW k \in 1..RankedSeats, Owed(C, k)
        PROVE  Cardinality(winners' \cap C) >= AtMost(k, Cardinality(C))
    <3>1. winners' \cap C = (winners \cap C) \cup (continuing \cap C) /\ (winners \cap C) \cap (continuing \cap C) = {}
      BY <1>3, <2>1
    <3>2. IsFiniteSet(winners \cap C) /\ IsFiniteSet(continuing \cap C)
      BY SizesTyped
    <3> DEFINE A == winners \cap C
               B == continuing \cap C
    <3>3. Cardinality(A \cup B) = Cardinality(A) + Cardinality(B) - Cardinality(A \cap B)
      BY <3>2, FS_Union
    <3>4. Cardinality(A \cap B) = 0
      BY <3>1, FS_EmptySet
    <3>5. /\ Cardinality(A) + Cardinality(B) >= AtMost(k, Cardinality(C))
          /\ Cardinality(A) \in Nat /\ Cardinality(B) \in Nat
      BY <1>4, <2>4
    <3> HIDE DEF A, B
    <3>6. Cardinality(A \cup B) >= AtMost(k, Cardinality(C))
      BY <3>3, <3>4, <3>5
    <3> QED
      BY <3>1, <3>6 DEF A, B
  <2>5. \A C \in (SUBSET position'.standing) \ {{}}, k \in 1..RankedSeats' :
           Solid(C)' * (RankedSeats' + 1) > k * Valid' => Cardinality(winners' \cap C) >= AtMost(k, Cardinality(C))
    <3>1. ASSUME NEW C \in (SUBSET position'.standing) \ {{}}, NEW k \in 1..RankedSeats',
                 Solid(C)' * (RankedSeats' + 1) > k * Valid'
          PROVE  Cardinality(winners' \cap C) >= AtMost(k, Cardinality(C))
      <4>1. C \in SUBSET position.standing /\ C # {} /\ k \in 1..RankedSeats
        <5>1. C \in (SUBSET position'.standing) \ {{}} /\ k \in 1..RankedSeats'
          OBVIOUS
        <5>2. position' = position /\ RankedSeats' = RankedSeats
          BY <1>1, <1>2
        <5>3. C \in SUBSET position.standing /\ C # {}
          BY <5>1, <5>2, Zenon
        <5>4. k \in 1..RankedSeats
          BY <5>1, <5>2, Zenon
        <5> QED
          BY <5>3, <5>4
      <4>2. Owed(C, k)
        BY <1>2, <3>1, <4>1 DEF Owed
      <4> QED
        BY <2>4, <4>1, <4>2
    <3> QED
      BY <3>1
  <2>6. Cardinality(winners') = RankedSeats'
    BY <1>2, <2>3
  <2> QED
    BY <2>5, <2>6 DEF SolidCoalitions, AtMost
<1>6. CASE Finish
  <2>1. winners' = winners /\ (continuing = {} \/ ~(j < RankedSeats))
    BY <1>1, <1>6 DEF Finish, Counting, InCount, j
  <2>2. j = RankedSeats
    <3>1. continuing = {} => r = 0
      BY FS_EmptySet DEF r
    <3> QED
      BY <1>2, <1>3, <2>1, <3>1
  <2>3. ASSUME NEW C \in SUBSET position.standing, NEW k \in 1..RankedSeats, Owed(C, k),
               ~(Cardinality(winners \cap C) >= AtMost(k, Cardinality(C)))
        PROVE  FALSE
    <3> DEFINE n == Cardinality(winners \cap C)
    <3>1. continuing \cap C # {} /\ n < k /\ n \in Nat /\ k \in Nat
      <4> DEFINE left == Cardinality(continuing \cap C)
                 due == AtMost(k, Cardinality(C))
      <4>1. /\ n + left >= due /\ n \in Nat /\ left \in Nat /\ k \in Nat /\ due \in Nat /\ due <= k
            /\ continuing \cap C # {} <=> left >= 1
        BY <1>4, <2>3
      <4>2. ~(n >= due)
        BY <2>3
      <4> HIDE DEF n, left, due
      <4>3. left >= 1 /\ n < k
        BY <4>1, <4>2
      <4> QED
        BY <4>1, <4>3
    <3>2. CASE Stv
      <4>1. PICK m \in Nat : AtScale(m)
        BY <3>2 DEF RoundOK, InCount
      <4> DEFINE q == Valid * m
      <4>2. Quota = q /\ q \in Nat
        BY <4>1, QuotaIs
      <4>3. SumOf(Weights, Loyal(C)) > (k - n) * q
        BY <2>3, <3>1, <4>1 DEF AtScale
      <4>4. SumOf(Weights, Forms) = (RankedSeats + 1 - j) * q
        BY <4>1 DEF AtScale, j
      <4>5. SumOf(Weights, Loyal(C)) <= SumOf(Weights, Forms) /\ SumOf(Weights, Loyal(C)) \in Nat
        <5>1. Loyal(C) \in SUBSET Forms
          BY DEF Loyal
        <5> QED
          BY <5>1, WeightsTyped
      <4> HIDE DEF q, n
      <4>6. (RankedSeats + 1 - j) * q = q
        <5>1. RankedSeats + 1 - j = 1
          BY <1>2, <1>3, <2>2
        <5> QED
          BY <4>2, <5>1
      <4>7. 1 * q <= (k - n) * q
        <5>1. 1 <= k - n /\ k - n \in Int
          BY <3>1
        <5> QED
          BY <4>2, <5>1, TimesMore
      <4>8. (k - n) * q \in Int
        BY <3>1, <4>2
      <4> QED
        BY <4>2, <4>3, <4>4, <4>5, <4>6, <4>7, <4>8
    <3>3. CASE ~Stv
      <4>1. winners # {}
        <5>1. j # 0
          BY <1>2, <2>2
        <5> QED
          BY <5>1, FS_EmptySet DEF j
      <4>2. winners \cap C # {}
        BY <2>3, <3>3, <4>1 DEF RoundOK, InCount
      <4>3. n >= 1
        BY <4>2, SizesTyped
      <4>4. RankedSeats = 1
        BY <3>3, PositionTyped DEF InCount
      <4>5. k = 1
        BY <4>4
      <4> QED
        BY <3>1, <4>3, <4>5
    <3> QED
      BY <3>2, <3>3
  <2>4. Cardinality(winners') = RankedSeats'
    BY <1>2, <2>1, <2>2 DEF j
  <2>5. \A C \in SUBSET position.standing, k \in 1..RankedSeats :
           Owed(C, k) => Cardinality(winners' \cap C) >= AtMost(k, Cardinality(C))
    BY <2>1, <2>3
  <2>6. \A C \in (SUBSET position'.standing) \ {{}}, k \in 1..RankedSeats' :
           Solid(C)' * (RankedSeats' + 1) > k * Valid' => Cardinality(winners' \cap C) >= AtMost(k, Cardinality(C))
    <3>1. ASSUME NEW C \in (SUBSET position'.standing) \ {{}}, NEW k \in 1..RankedSeats',
                 Solid(C)' * (RankedSeats' + 1) > k * Valid'
          PROVE  Cardinality(winners' \cap C) >= AtMost(k, Cardinality(C))
      <4>1. C \in SUBSET position.standing /\ C # {} /\ k \in 1..RankedSeats
        <5>1. C \in (SUBSET position'.standing) \ {{}} /\ k \in 1..RankedSeats'
          OBVIOUS
        <5>2. position' = position /\ RankedSeats' = RankedSeats
          BY <1>1, <1>2
        <5>3. C \in SUBSET position.standing /\ C # {}
          BY <5>1, <5>2, Zenon
        <5>4. k \in 1..RankedSeats
          BY <5>1, <5>2, Zenon
        <5> QED
          BY <5>3, <5>4
      <4>2. Owed(C, k)
        BY <1>2, <3>1, <4>1 DEF Owed
      <4> QED
        BY <2>5, <4>1, <4>2
    <3> QED
      BY <3>1
  <2> QED
    BY <2>4, <2>6 DEF SolidCoalitions, AtMost
<1> QED
  BY <1>5, <1>6

-----------------------------------------------------------------------------
(* Count: every step.                                                        *)

(* What holds throughout: in the rounds, what RoundOK says of the weights;   *)
(* once the count is done, what the result is to be.                         *)
CountIInv == CountTypeOK /\ RoundOK /\ SeatsAreEarned /\ SolidCoalitions

LEMMA CountStarts == CountInit => CountIInv
<1> SUFFICES ASSUME CountInit PROVE CountIInv
  OBVIOUS
<1>1. DOMAIN box = {} /\ IsFiniteSet({})
  BY FS_EmptySet DEF CountInit, EmptyBag, SetToBag
<1>2. Forms = {}
  BY <1>1 DEF Forms, BagToSet
<1>3. CountTypeOK
  BY <1>1, <1>2 DEF CountInit, CountTypeOK
<1> QED
  BY <1>3 DEF CountInit, CountIInv, RoundOK, SeatsAreEarned, SolidCoalitions

(* validate_ballot records only what has the form of a ballot of its type.   *)
LEMMA CastKeepsType ==
  ASSUME CountTypeOK, NEW raw \in Raw(position), Cast(raw)
  PROVE  CountTypeOK'
<1> DEFINE r == Recorded(position, raw)
           one == SetToBag({r})
<1>1. /\ position' = position /\ phase' = "voting" /\ winners' = winners /\ phase = "voting"
      /\ box' = box (+) one /\ position \in Position
  BY CountAssumption DEF Cast, CountTypeOK
<1>2. DOMAIN one = {r} /\ one[r] = 1
  BY DEF SetToBag
<1> HIDE DEF r, one
<1>3. /\ box' = [e \in DOMAIN box \cup {r} |-> (IF e \in DOMAIN box THEN box[e] ELSE 0) + (IF e \in {r} THEN one[e] ELSE 0)]
  BY <1>1, <1>2 DEF (+)
<1>4. DOMAIN box' = DOMAIN box \cup {r} /\ IsFiniteSet(DOMAIN box')
  BY <1>3, FS_AddElement DEF CountTypeOK
<1>5. \A s \in DOMAIN box' : box'[s] \in Nat
  <2>1. \A e \in DOMAIN box : box[e] \in Nat
    BY DEF CountTypeOK
  <2>2. ASSUME NEW s \in DOMAIN box' PROVE box'[s] \in Nat
    <3>1. box'[s] = (IF s \in DOMAIN box THEN box[s] ELSE 0) + (IF s \in {r} THEN one[s] ELSE 0)
      BY <1>3, <1>4, <2>2
    <3>2. (IF s \in DOMAIN box THEN box[s] ELSE 0) \in Nat /\ (IF s \in {r} THEN one[s] ELSE 0) \in Nat
      BY <1>2, <2>1
    <3> QED
      BY <3>1, <3>2
  <2> QED
    BY <2>2
<1>6. /\ position.type = "SCORE" => \A c \in DOMAIN r : r[c] \in Nat
      /\ position.type = "RANKED" => r \in Seq(Candidates)
  <2>1. ASSUME position.type = "SCORE" PROVE \A c \in DOMAIN r : r[c] \in Nat
    <3>1. r = raw /\ raw \in UNION {[C -> 0..(position.score + 1)] : C \in SUBSET Candidates}
      BY <2>1 DEF Raw, Recorded, r
    <3>2. PICK C \in SUBSET Candidates : raw \in [C -> 0..(position.score + 1)]
      BY <3>1
    <3>3. position.score \in Nat
      BY <1>1 DEF Position
    <3> QED
      BY <3>1, <3>2, <3>3
  <2>2. ASSUME position.type = "RANKED" PROVE r \in Seq(Candidates)
    <3>1. r = raw /\ raw \in UNION {[1..n -> Candidates] : n \in 0..Cardinality(Candidates)}
      BY <2>2 DEF Raw, Recorded, r
    <3>2. PICK n \in 0..Cardinality(Candidates) : raw \in [1..n -> Candidates]
      BY <3>1
    <3>3. n \in Nat
      BY CountAssumption, FS_CardinalityType DEF CountAssumption
    <3> QED
      BY <3>1, <3>2, <3>3
  <2> QED
    BY <2>1, <2>2
<1>7. Forms' = (DOMAIN box \cup {r}) \ {Abstention} /\ Forms = DOMAIN box \ {Abstention}
  <2>1. Abstention' = Abstention
    BY <1>1 DEF Abstention, Recorded, Empty, Named
  <2> QED
    BY <1>4, <2>1 DEF Forms, BagToSet
<1>8. \A s \in Forms' : /\ position.type = "SCORE" => \A c \in DOMAIN s : s[c] \in Nat
                        /\ position.type = "RANKED" => s \in Seq(Candidates)
  <2>1. ASSUME NEW s \in Forms' PROVE s \in Forms \/ s = r
    BY <1>7
  <2> QED
    BY <1>6, <2>1 DEF CountTypeOK
<1>9. position \in Positions /\ (~Problem(position))'
  <2>1. ~Problem(position)
    BY DEF CountTypeOK
  <2> QED
    BY <1>1, <2>1 DEF CountTypeOK
<1> QED
  BY <1>1, <1>4, <1>5, <1>8, <1>9 DEF CountTypeOK

(* A count leaves the position and the box alone.                            *)
LEMMA RoundKeepsType ==
  ASSUME CountTypeOK, TallyPosition \/ TallyRanked \/ Fill \/ Elect \/ Eliminate \/ Finish \/ UNCHANGED countVars
  PROVE  CountTypeOK'
<1>1. box' = box /\ position' = position
  BY DEF TallyPosition, TallyRanked, Fill, Elect, Eliminate, Finish, countVars
<1>2. Forms' = Forms /\ RankedSeats \in Nat
  BY <1>1, SameForms, PositionTyped
<1>3. /\ position' \in Positions /\ ~Problem(position')
      /\ IsFiniteSet(DOMAIN box') /\ \A s \in DOMAIN box' : box'[s] \in Nat
      /\ \A s \in Forms' : /\ position'.type = "SCORE" => \A c \in DOMAIN s : s[c] \in Nat
                           /\ position'.type = "RANKED" => s \in Seq(Candidates)
  BY <1>1, <1>2 DEF CountTypeOK
<1>4. CASE TallyPosition \/ Fill \/ Finish
  BY <1>3, <1>4 DEF CountTypeOK, TallyPosition, Fill, Finish
<1>5. CASE TallyRanked
  <2>1. /\ phase' = "count" /\ continuing' = position.standing /\ winners' = {} /\ position.type = "RANKED"
        /\ unit' = (IF Stv THEN RankedSeats + 1 ELSE 1) /\ weight' = [s \in Forms |-> unit']
    BY <1>5 DEF TallyRanked, CountTypeOK
  <2>2. unit' \in Nat
    BY <1>2, <2>1
  <2> QED
    BY <1>1, <1>2, <1>3, <2>1, <2>2 DEF CountTypeOK
<1>6. CASE Elect
  <2> DEFINE w == Best(Tallies, Reached(Tallies))
             t == Tallies[w]
  <2>1. /\ InCount /\ phase' = phase /\ winners' = winners \cup {w} /\ continuing' = continuing \ {w}
        /\ Reached(Tallies) # {} /\ phase = "count"
        /\ IF Stv THEN /\ unit' = unit * t
                       /\ weight' = [s \in Forms |-> weight[s] * (IF For(s, w) THEN Kept(t) ELSE t)]
           ELSE unit' = unit /\ weight' = weight
    BY <1>6 DEF Elect, Counting, InCount
  <2>2. w \in continuing /\ t \in Nat
    <3>1. w \in continuing
      BY <2>1, BestIsReached
    <3> QED
      BY <2>1, <3>1, TallyIs
  <2> HIDE DEF w, t
  <2>3. Quota \in Nat
    <3>1. Valid \in Nat
      BY PositionTyped, ValidIs
    <3>2. Valid * unit \in Nat /\ RankedSeats + 1 \in Nat /\ RankedSeats + 1 > 0
      BY <1>2, <2>1, <3>1 DEF CountTypeOK
    <3> DEFINE a == Valid * unit
               b == RankedSeats + 1
    <3> HIDE DEF a, b
    <3>3. a \div b \in Nat
      BY <3>2 DEF a, b
    <3> QED
      BY <3>3 DEF a, b, Quota
  <2>4. Kept(t) \in Nat
    BY <2>2, <2>3 DEF Kept
  <2>5. unit' \in Nat /\ weight' \in [Forms -> Nat]
    <3>1. unit \in Nat /\ weight \in [Forms -> Nat]
      BY <2>1 DEF CountTypeOK
    <3>2. unit * t \in Nat /\ \A s \in Forms : weight[s] * Kept(t) \in Nat /\ weight[s] * t \in Nat
      BY <2>2, <2>4, <3>1, ProductType
    <3> QED
      BY <2>1, <3>1, <3>2
  <2> QED
    BY <1>1, <1>2, <1>3, <2>1, <2>2, <2>5 DEF CountTypeOK
<1>7. CASE Eliminate
  <2>1. /\ phase = "count" /\ phase' = phase /\ winners' = winners /\ continuing' \subseteq continuing
        /\ weight' = weight /\ unit' = unit
    BY <1>7 DEF Eliminate, Counting
  <2> QED
    BY <1>1, <1>2, <1>3, <2>1 DEF CountTypeOK
<1>8. CASE UNCHANGED countVars
  BY <1>1, <1>2, <1>3, <1>8 DEF CountTypeOK, countVars
<1> QED
  BY <1>4, <1>5, <1>6, <1>7, <1>8

(* Nothing happens to a count that is done, nor to a round in which nothing  *)
(* happens.                                                                  *)
LEMMA CountStutters ==
  ASSUME CountIInv, CountTypeOK', UNCHANGED countVars
  PROVE  CountIInv'
<1>1. /\ box' = box /\ position' = position /\ winners' = winners /\ ties' = ties /\ phase' = phase
      /\ continuing' = continuing /\ weight' = weight /\ unit' = unit
  BY DEF countVars
<1>2. /\ Valid' = Valid /\ (\A C : Solid(C)' = Solid(C)) /\ Forms' = Forms
      /\ Seats' = Seats /\ RankedSeats' = RankedSeats /\ Stv' = Stv
      /\ \A a : Answers(a)' = Answers(a)
      /\ \A c : Votes(c)' = Votes(c)
  BY <1>1, SameBox, SameForms, SameVotes DEF CountIInv
<1>3. SeatsAreEarned'
  <2> DEFINE K == position.standing
             v == [c \in K |-> Votes(c)]
  <2>1. CASE ~(phase = "done" /\ position.type # "RANKED")
    <3>1. ~(phase' = "done" /\ position'.type # "RANKED")
      BY <1>1, <2>1
    <3> QED
      BY <3>1 DEF SeatsAreEarned
  <2>2. CASE phase = "done" /\ position.type = "REFERENDUM"
    BY <1>1, <1>2, <2>2 DEF CountIInv, SeatsAreEarned
  <2>3. CASE phase = "done" /\ position.type \notin {"REFERENDUM", "RANKED"}
    <3>1. /\ winners = {c \in K : Cardinality(NotBehindOf(v, c)) < Seats}
          /\ ties = {c \in K \ winners : Cardinality(MoreThan(v, c)) < Seats}
      BY <2>3 DEF CountIInv, SeatsAreEarned
    <3>2. K' = K /\ v' = v
      BY <1>1, <1>2
    <3>3. /\ winners' = {c \in K' : Cardinality(NotBehindOf(v', c)) < Seats'}
          /\ ties' = {c \in K' \ winners' : Cardinality(MoreThan(v', c)) < Seats'}
      <4> HIDE DEF K, v
      <4> QED
        BY <1>1, <1>2, <3>1, <3>2
    <3> QED
      BY <1>1, <2>3, <3>3 DEF SeatsAreEarned
  <2> QED
    BY <2>1, <2>2, <2>3
<1>4. SolidCoalitions'
  BY <1>1, <1>2 DEF CountIInv, SolidCoalitions
<1>5. RoundOK'
  <2>1. /\ Weights' = Weights /\ (\A C : Loyal(C)' = Loyal(C)) /\ (\A C, k : Owed(C, k)' <=> Owed(C, k))
    BY <1>1, <1>2 DEF Weights, Loyal, Owed
  <2>2. \A m : AtScale(m)' <=> AtScale(m)
    BY <1>1, <1>2, <2>1 DEF AtScale
  <2> QED
    BY <1>1, <1>2, <2>1, <2>2 DEF CountIInv, RoundOK
<1> QED
  BY <1>3, <1>4, <1>5 DEF CountIInv

LEMMA CountSteps == CountIInv /\ [CountNext]_countVars => CountIInv'
<1> SUFFICES ASSUME CountIInv, [CountNext]_countVars PROVE CountIInv'
  OBVIOUS
<1>1. CASE \E raw \in Raw(position) : Cast(raw)
  <2>1. PICK raw \in Raw(position) : Cast(raw)
    BY <1>1
  <2>2. CountTypeOK' /\ phase' = "voting"
    BY <2>1, CastKeepsType DEF CountIInv, Cast
  <2> QED
    BY <2>2 DEF CountIInv, RoundOK, SeatsAreEarned, SolidCoalitions
<1>2. CASE TallyPosition
  <2>1. CountTypeOK'
    BY <1>2, RoundKeepsType DEF CountIInv
  <2>2. SeatsAreEarned'
    BY <1>2, <2>1, TallyIsFair DEF CountIInv
  <2>3. phase' = "done" /\ position'.type # "RANKED"
    BY <1>2 DEF TallyPosition
  <2> QED
    BY <2>1, <2>2, <2>3 DEF CountIInv, RoundOK, SolidCoalitions
<1>3. CASE TallyRanked
  <2>1. CountTypeOK'
    BY <1>3, RoundKeepsType DEF CountIInv
  <2>2. RoundOK'
    BY <1>3, <2>1, FirstRound DEF CountIInv
  <2>3. phase' = "count"
    BY <1>3 DEF TallyRanked
  <2> QED
    BY <2>1, <2>2, <2>3 DEF CountIInv, SeatsAreEarned, SolidCoalitions
<1>4. CASE Elect \/ Eliminate
  <2>1. CountTypeOK'
    BY <1>4, RoundKeepsType DEF CountIInv
  <2>2. InCount /\ RoundOK /\ phase' = "count"
    BY <1>4 DEF CountIInv, InCount, Elect, Eliminate, Counting
  <2>3. RoundOK'
    BY <1>4, <2>1, <2>2, ElectKeepsRound, EliminateKeepsRound
  <2> QED
    BY <2>1, <2>2, <2>3 DEF CountIInv, SeatsAreEarned, SolidCoalitions
<1>5. CASE Fill \/ Finish
  <2>1. CountTypeOK'
    BY <1>5, RoundKeepsType DEF CountIInv
  <2>2. InCount /\ RoundOK /\ phase' = "done" /\ position' = position /\ position.type = "RANKED"
    BY <1>5 DEF CountIInv, CountTypeOK, InCount, Fill, Finish, Counting
  <2>3. SolidCoalitions'
    BY <1>5, <2>2, LastRound
  <2> QED
    BY <2>1, <2>2, <2>3 DEF CountIInv, RoundOK, SeatsAreEarned
<1>6. CASE UNCHANGED countVars
  <2>1. CountTypeOK'
    BY <1>6, RoundKeepsType DEF CountIInv
  <2> QED
    BY <1>6, <2>1, CountStutters
<1> QED
  BY <1>1, <1>2, <1>3, <1>4, <1>5, <1>6 DEF CountNext

(* At any time, for any candidates, positions and ballots: the box holds     *)
(* ballots that normalize_selection accepts, and before every round of       *)
(* ranked the weights bear out what the coalitions are still owed.           *)
THEOREM CountInvariant == CountSpec => []CountIInv
  BY CountStarts, CountSteps, PTL DEF CountSpec

(* tally_position gives the seats to those who have earned them: without     *)
(* rounds to those whom too few others equal, with the rest reported as tied *)
(* and a motion passed only beyond its threshold; in ranked, whatever the    *)
(* eliminations, lots and transfers, it fills the seats and elects k of the  *)
(* candidates (or all of them) whom more than k quotas of voters put first.  *)
THEOREM SeatsAreDeserved == CountSpec => []CountHolds
<1>1. CountIInv => CountHolds
  BY DEF CountIInv, CountHolds
<1> QED
  BY <1>1, CountInvariant, PTL
=============================================================================
