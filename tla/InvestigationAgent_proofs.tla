----------------------- MODULE InvestigationAgent_proofs -----------------------
(***************************************************************************)
(* Theorems about InvestigationAgent, for any budgets, tools, calls a      *)
(* turn, and usages.  Selections from a trace or a conversation grow by    *)
(* one element at a time, and so do sums over them; the lemmas that say so *)
(* argue by the least number that would be a counterexample.               *)
(***************************************************************************)
EXTENDS InvestigationAgent, TLAPS, FiniteSetTheorems, SequenceTheorems

Investigating == {"checking", "generating", "calling"}

(* The part of TypeOK that the invariants rest on.                         *)
AgentTypes ==
    /\ phase \in Phases
    /\ budget \in Budgets
    /\ step \in 0..budget.steps
    /\ turn \in Turns /\ answered \in 0..Len(turn)
    /\ toolCalls \in Nat /\ tokens \in Nat
    /\ messages \in Seq(Message)
    /\ trace \in Seq(Event)
    /\ phase \in {"preparing", "building"} => step = 0
    /\ phase \in Investigating => step >= 1

(* An agent has a result exactly from its return on.                       *)
Ended ==
    /\ termination \in Terminations \cup {None}
    /\ phase \notin {"returned", "recorded"} => termination = None
    /\ phase = "returned" => termination \in Terminations
    /\ phase # "recorded" => record = None

TypeInv == AgentTypes /\ Ended

(* A budget is a positive number of steps and three optional limits.       *)
LEMMA BudgetTypes ==
  ASSUME budget \in Budgets
  PROVE  /\ budget.steps \in Nat \ {0}
         /\ budget.toolCalls \subseteq Nat
         /\ budget.tokens \subseteq Nat
BY AgentAssumption DEF IsLimit

(* A turn is a sequence of calls.                                          *)
LEMMA TurnTypes ==
  ASSUME NEW t \in Turns
  PROVE  /\ t \in Seq(ToolCalls)
         /\ DOMAIN t = 1..Len(t)
         /\ \A k \in DOMAIN t : t[k] \in ToolCalls
<1>1. PICK n \in 0..MaxTurn : t \in [1..n -> ToolCalls]
  BY DEF Turns
<1>2. n \in Nat
  BY AgentAssumption
<1> QED  BY <1>1, <1>2

(* The empty turn is one.                                                  *)
LEMMA NoTurn == <<>> \in Turns
<1>1. 0 \in 0..MaxTurn
  BY AgentAssumption
<1>2. <<>> \in [1..0 -> ToolCalls]
  OBVIOUS
<1> QED  BY <1>1, <1>2 DEF Turns

(* Appending leaves the earlier elements where they are.                   *)
LEMMA Appended ==
  ASSUME NEW S, NEW s \in Seq(S), NEW x \in S
  PROVE  /\ Append(s, x) \in Seq(S)
         /\ Len(s) \in Nat
         /\ DOMAIN s = 1..Len(s)
         /\ DOMAIN Append(s, x) = 1..(Len(s) + 1)
         /\ Len(Append(s, x)) = Len(s) + 1
         /\ \A i \in DOMAIN s : Append(s, x)[i] = s[i]
         /\ Append(s, x)[Len(s) + 1] = x
OBVIOUS

-----------------------------------------------------------------------------
(* Selections.                                                             *)

(* The places of a set up to one of them.                                  *)
UpTo(S, i) == {j \in S : j <= i}

(* The k-th place of a set of places is in it, has k places up to it, and  *)
(* is the only one.                                                        *)
LEMMA PlaceIs ==
  ASSUME NEW n \in Nat, NEW S, S \subseteq 1..n
  PROVE  /\ IsFiniteSet(S) /\ Cardinality(S) \in Nat
         /\ \A k \in 1..Cardinality(S) :
               Place(S, k) \in S /\ Cardinality(UpTo(S, Place(S, k))) = k
         /\ \A i, j \in S : Cardinality(UpTo(S, i)) = Cardinality(UpTo(S, j)) => i = j
<1> DEFINE c == Cardinality(S)
           f == [i \in S |-> Cardinality(UpTo(S, i))]
<1>1. IsFiniteSet(1..n) /\ \A i \in S : i \in Int
  BY FS_Interval
<1>2. IsFiniteSet(S) /\ c \in Nat
  BY <1>1, FS_Subset, FS_CardinalityType
<1>3. ASSUME NEW i \in S
      PROVE  IsFiniteSet(UpTo(S, i)) /\ Cardinality(UpTo(S, i)) \in 1..c
  <2>1. UpTo(S, i) \subseteq S /\ i \in UpTo(S, i)
    BY DEF UpTo
  <2>2. /\ IsFiniteSet(UpTo(S, i)) /\ Cardinality(UpTo(S, i)) <= c
        /\ Cardinality(UpTo(S, i)) \in Nat
    BY <1>2, <2>1, FS_Subset, FS_CardinalityType
  <2>3. Cardinality(UpTo(S, i)) # 0
    BY <2>1, <2>2, FS_EmptySet
  <2> QED  BY <1>2, <2>2, <2>3
<1>4. ASSUME NEW i \in S, NEW j \in S, i < j
      PROVE  Cardinality(UpTo(S, i)) # Cardinality(UpTo(S, j))
  <2>1. \A k \in S : k <= i => k <= j
    BY <1>1, <1>4
  <2>2. ~(j <= i) /\ j <= j
    BY <1>1, <1>4
  <2>3. UpTo(S, i) \subseteq UpTo(S, j) /\ j \in UpTo(S, j) /\ j \notin UpTo(S, i)
    BY <2>1, <2>2 DEF UpTo
  <2> QED  BY <1>3, <2>3, FS_Subset
<1>5. \A i, j \in S : Cardinality(UpTo(S, i)) = Cardinality(UpTo(S, j)) => i = j
  BY <1>4
<1>6. f \in Injection(S, 1..c)
  <2>1. f \in [S -> 1..c] /\ \A i, j \in S : f[i] = f[j] => i = j
    BY <1>3, <1>5
  <2> QED  BY <2>1 DEF Injection, IsInjective
<1>7. IsFiniteSet(1..c) /\ Cardinality(1..c) = c
  BY <1>2, FS_Interval
<1>8. f \in Surjection(S, 1..c)
  <2> HIDE DEF f
  <2> QED  BY <1>2, <1>6, <1>7, FS_Injection
<1>9. \A k \in 1..c : \E i \in S : f[i] = k
  BY <1>8 DEF Surjection
<1>10. \A k \in 1..c : \E i \in S : Cardinality({j \in S : j <= i}) = k
  BY <1>9 DEF UpTo
<1> QED  BY <1>2, <1>5, <1>10 DEF Place, UpTo

(* A later place comes last and moves none of the others.                  *)
LEMMA LaterPlace ==
  ASSUME NEW n \in Nat, NEW S, S \subseteq 1..n
  PROVE  /\ Cardinality(S \cup {n + 1}) = Cardinality(S) + 1
         /\ \A k \in 1..Cardinality(S) : Place(S \cup {n + 1}, k) = Place(S, k)
         /\ Place(S \cup {n + 1}, Cardinality(S) + 1) = n + 1
<1> DEFINE T == S \cup {n + 1}
           c == Cardinality(S)
<1>1. T \subseteq 1..(n + 1) /\ n + 1 \in Nat /\ n + 1 \notin S
  OBVIOUS
<1>2. IsFiniteSet(S) /\ c \in Nat
  BY PlaceIs
<1>3. Cardinality(T) = c + 1
  BY <1>1, <1>2, FS_AddElement
<1>4. UpTo(T, n + 1) = T
  <2>1. \A i \in T : i <= n + 1
    BY <1>1
  <2> QED  BY <2>1 DEF UpTo
<1>5. \A i \in S : UpTo(T, i) = UpTo(S, i)
  BY DEF UpTo
<1> HIDE DEF T
<1>6. /\ \A k \in 1..(c + 1) : Place(T, k) \in T /\ Cardinality(UpTo(T, Place(T, k))) = k
      /\ \A i, j \in T : Cardinality(UpTo(T, i)) = Cardinality(UpTo(T, j)) => i = j
  BY <1>1, <1>3, PlaceIs
<1>7. n + 1 \in T /\ S \subseteq T
  BY DEF T
<1>8. ASSUME NEW k \in 1..c PROVE Place(T, k) = Place(S, k)
  <2>1. Place(S, k) \in S /\ Cardinality(UpTo(S, Place(S, k))) = k
    BY PlaceIs
  <2>2. k \in 1..(c + 1)
    BY <1>2
  <2> QED  BY <1>5, <1>6, <1>7, <2>1, <2>2
<1>9. Place(T, c + 1) = n + 1
  <2>1. c + 1 \in 1..(c + 1)
    BY <1>2
  <2> QED  BY <1>3, <1>4, <1>6, <1>7, <2>1
<1> QED  BY <1>3, <1>8, <1>9 DEF T

(* What is chosen from a sequence is a sequence of its elements.           *)
LEMMA ChosenIs ==
  ASSUME NEW X, NEW s \in Seq(X), NEW S, S \subseteq DOMAIN s
  PROVE  /\ Cardinality(S) \in Nat
         /\ Chosen(s, S) \in Seq(X) /\ Len(Chosen(s, S)) = Cardinality(S)
         /\ DOMAIN Chosen(s, S) = 1..Cardinality(S)
         /\ \A k \in DOMAIN Chosen(s, S) :
               Place(S, k) \in S /\ Chosen(s, S)[k] = s[Place(S, k)]
<1>1. Len(s) \in Nat /\ DOMAIN s = 1..Len(s) /\ \A i \in DOMAIN s : s[i] \in X
  OBVIOUS
<1>2. Cardinality(S) \in Nat /\ \A k \in 1..Cardinality(S) : Place(S, k) \in S
  BY <1>1, PlaceIs
<1>3. Chosen(s, S) \in [1..Cardinality(S) -> X]
  BY <1>1, <1>2 DEF Chosen
<1>4. \A k \in 1..Cardinality(S) : Chosen(s, S)[k] = s[Place(S, k)]
  BY DEF Chosen
<1> QED  BY <1>2, <1>3, <1>4

(* A longer sequence has the same at the same places.                      *)
LEMMA ChosenStays ==
  ASSUME NEW X, NEW s \in Seq(X), NEW x \in X, NEW S, S \subseteq DOMAIN s
  PROVE  Chosen(Append(s, x), S) = Chosen(s, S)
<1>1. \A k \in 1..Cardinality(S) : Append(s, x)[Place(S, k)] = s[Place(S, k)]
  BY ChosenIs
<1> QED  BY <1>1 DEF Chosen

(* With its last place, a longer sequence has its last element as well.    *)
LEMMA ChosenGrows ==
  ASSUME NEW X, NEW s \in Seq(X), NEW x \in X, NEW S, S \subseteq DOMAIN s
  PROVE  Chosen(Append(s, x), S \cup {Len(s) + 1}) = Append(Chosen(s, S), x)
<1> DEFINE T == S \cup {Len(s) + 1}
           c == Cardinality(S)
           longer == Append(s, x)
           left == Chosen(longer, T)
           old == Chosen(s, S)
<1>1. Len(s) \in Nat /\ DOMAIN s = 1..Len(s)
  OBVIOUS
<1>2. /\ Cardinality(T) = c + 1
      /\ \A k \in 1..c : Place(T, k) = Place(S, k)
      /\ Place(T, c + 1) = Len(s) + 1
  BY <1>1, LaterPlace
<1>3. /\ c \in Nat /\ old \in Seq(X) /\ Len(old) = c
      /\ \A k \in 1..c : Place(S, k) \in S /\ old[k] = s[Place(S, k)]
  BY ChosenIs
<1> HIDE DEF T
<1>4. \A k \in 1..(c + 1) : left[k] = longer[Place(T, k)]
  BY <1>2 DEF Chosen
<1>5. left \in Seq(X) /\ Len(left) = c + 1
  <2>1. longer \in Seq(X) /\ T \subseteq DOMAIN longer
    BY <1>1 DEF T
  <2> QED  BY <1>2, <2>1, ChosenIs
<1>6. /\ \A i \in DOMAIN s : longer[i] = s[i]
      /\ longer[Len(s) + 1] = x
  BY <1>1
<1> HIDE DEF left, old, longer
<1>7. \A k \in 1..c : left[k] = old[k]
  <2> SUFFICES ASSUME NEW k \in 1..c PROVE left[k] = old[k]
    OBVIOUS
  <2>1. k \in 1..(c + 1)
    BY <1>3
  <2>2. left[k] = longer[Place(S, k)]
    BY <1>2, <1>4, <2>1
  <2>3. Place(S, k) \in DOMAIN s
    BY <1>3
  <2> QED  BY <1>3, <1>6, <2>2, <2>3
<1>8. left[c + 1] = x
  <2>1. left[c + 1] = longer[Len(s) + 1]
    BY <1>2, <1>3, <1>4
  <2> QED  BY <1>6, <2>1
<1>9. left = Append(old, x)
  <2>1. /\ Append(old, x) \in Seq(X) /\ Len(Append(old, x)) = c + 1
        /\ \A k \in 1..c : Append(old, x)[k] = old[k]
        /\ Append(old, x)[c + 1] = x
    BY <1>3
  <2>2. \A k \in 1..(c + 1) : left[k] = Append(old, x)[k]
    BY <1>3, <1>7, <1>8, <2>1
  <2> QED  BY <1>5, <2>1, <2>2, SeqEqual
<1> QED  BY <1>9 DEF left, old, longer, T

-----------------------------------------------------------------------------
(* Sums.                                                                   *)

(* A set of numbers that is not empty has a least one.                     *)
LEMMA LeastNumber ==
  ASSUME NEW S, S \subseteq Nat, S # {}
  PROVE  \E n \in S : \A m \in S : n <= m
<1> DEFINE R == {p \in Nat \X Nat : p[1] < p[2]}
<1>1. IsWellFoundedOn(R, Nat)
  BY NatLessThanWellFounded DEF OpToRel
<1> HIDE DEF R
<1>2. PICK n \in S : \A m \in S : <<m, n>> \notin R
  BY <1>1, WFMin
<1>3. \A m \in S : ~(m < n)
  BY <1>2 DEF R
<1> QED  BY <1>3

(* A running total of the first n events.                                  *)
IsTotal(f, events, n) ==
    f = [i \in 0..n |-> IF i = 0 THEN 0 ELSE f[i - 1] + Usage(events[i])]

(* What a running total does up to the first n events.                     *)
Adds(f, events, n) ==
    \A i \in 0..n : f[i] = IF i = 0 THEN 0 ELSE f[i - 1] + Usage(events[i])

(* Events use a number of tokens.                                          *)
LEMMA UsageIsNumber ==
  ASSUME NEW events \in Seq(Event), NEW i \in 1..Len(events)
  PROVE  Usage(events[i]) \in Nat
<1>1. events[i] \in Event
  OBVIOUS
<1> QED  BY <1>1 DEF Event, Usage

(* Two running totals are the same as far as the events are.               *)
LEMMA TotalsAgree ==
  ASSUME NEW s, NEW t, NEW f, NEW g, NEW n \in Nat,
         \A i \in 1..n : s[i] = t[i], Adds(f, s, n), Adds(g, t, n)
  PROVE  \A i \in 0..n : f[i] = g[i]
<1> DEFINE differ == {i \in 0..n : f[i] # g[i]}
<1> SUFFICES ASSUME differ # {} PROVE FALSE
  OBVIOUS
<1>1. differ \subseteq Nat
  OBVIOUS
<1>2. PICK k \in differ : \A i \in differ : k <= i
  BY <1>1, LeastNumber
<1>3. k \in 0..n /\ f[k] # g[k]
  OBVIOUS
<1>4. k # 0
  BY <1>3 DEF Adds
<1>5. k - 1 \in 0..n /\ k \in 1..n /\ ~(k <= k - 1)
  BY <1>3, <1>4
<1>6. f[k - 1] = g[k - 1]
  BY <1>2, <1>5
<1>7. f[k] = f[k - 1] + Usage(s[k]) /\ g[k] = g[k - 1] + Usage(t[k])
  BY <1>3, <1>4 DEF Adds
<1> QED  BY <1>3, <1>5, <1>6, <1>7

(* There is a running total of any number of the events.                   *)
LEMMA TotalExists ==
  ASSUME NEW s \in Seq(Event), NEW n \in 0..Len(s)
  PROVE  \E f \in [0..n -> Nat] : IsTotal(f, s, n)
<1> DEFINE none == {k \in 0..Len(s) : ~ \E f \in [0..k -> Nat] : IsTotal(f, s, k)}
<1> SUFFICES ASSUME none # {} PROVE FALSE
  OBVIOUS
<1>1. none \subseteq Nat /\ Len(s) \in Nat
  OBVIOUS
<1>2. PICK k \in none : \A i \in none : k <= i
  BY <1>1, LeastNumber
<1>3. k \in 0..Len(s)
  OBVIOUS
<1>4. k # 0
  <2> SUFFICES ASSUME k = 0 PROVE FALSE
    OBVIOUS
  <2> DEFINE f == [i \in 0..0 |-> 0]
  <2>1. f \in [0..0 -> Nat] /\ \A i \in 0..0 : i = 0
    OBVIOUS
  <2>2. IsTotal(f, s, 0)
    BY <2>1 DEF IsTotal
  <2> QED  BY <2>1, <2>2
<1>5. k - 1 \in 0..Len(s) /\ k - 1 \notin none /\ k \in 1..Len(s)
  <2>1. k - 1 \in 0..Len(s) /\ k \in 1..Len(s) /\ ~(k <= k - 1)
    BY <1>1, <1>3, <1>4
  <2> QED  BY <1>2, <2>1
<1>6. PICK f \in [0..(k - 1) -> Nat] : IsTotal(f, s, k - 1)
  BY <1>5
<1> HIDE DEF none
<1> DEFINE g == [i \in 0..k |-> IF i = k THEN f[k - 1] + Usage(s[k]) ELSE f[i]]
<1>7. \A i \in 0..(k - 1) : f[i] = IF i = 0 THEN 0 ELSE f[i - 1] + Usage(s[i])
  BY <1>6 DEF IsTotal
<1>8. g \in [0..k -> Nat]
  <2>1. f[k - 1] \in Nat /\ Usage(s[k]) \in Nat
    BY <1>5, UsageIsNumber
  <2>2. \A i \in 0..k : i # k => i \in 0..(k - 1)
    BY <1>5
  <2> QED  BY <2>1, <2>2
<1>9. ASSUME NEW i \in 0..k
      PROVE  g[i] = IF i = 0 THEN 0 ELSE g[i - 1] + Usage(s[i])
  <2>1. CASE i = k
    <3>1. k # 0 /\ k - 1 \in 0..k /\ k - 1 # k
      BY <1>4, <1>5
    <3> QED  BY <2>1, <3>1
  <2>2. CASE i # k
    <3>1. i \in 0..(k - 1) /\ (i # 0 => i - 1 \in 0..k /\ i - 1 # k)
      BY <1>5, <2>2
    <3> QED  BY <1>7, <2>2, <3>1
  <2> QED  BY <2>1, <2>2
<1>10. IsTotal(g, s, k)
  <2>1. g = [i \in 0..k |-> g[i]]
    BY <1>8
  <2> HIDE DEF g
  <2> QED  BY <1>9, <2>1 DEF IsTotal
<1> QED  BY <1>2, <1>8, <1>10 DEF none

(* RunningTotal is one.                                                    *)
LEMMA RunningTotalIs ==
  ASSUME NEW s \in Seq(Event)
  PROVE  IsTotal(RunningTotal(s), s, Len(s)) /\ RunningTotal(s) \in [0..Len(s) -> Nat]
<1>1. Len(s) \in 0..Len(s) /\ Len(s) \in Nat
  OBVIOUS
<1>2. PICK f \in [0..Len(s) -> Nat] : IsTotal(f, s, Len(s))
  BY <1>1, TotalExists
<1>3. RunningTotal(s) = CHOOSE g : IsTotal(g, s, Len(s))
  BY DEF RunningTotal, IsTotal
<1>4. IsTotal(RunningTotal(s), s, Len(s))
  BY <1>2, <1>3
<1>5. \A i \in 0..Len(s) : RunningTotal(s)[i] = f[i]
  <2>1. Adds(RunningTotal(s), s, Len(s)) /\ Adds(f, s, Len(s))
    BY <1>2, <1>4 DEF IsTotal, Adds
  <2> QED  BY <1>1, <2>1, TotalsAgree
<1>6. RunningTotal(s) = [i \in 0..Len(s) |-> RunningTotal(s)[i]]
  BY <1>4 DEF IsTotal
<1> QED  BY <1>2, <1>4, <1>5, <1>6

(* One more event adds its usage.                                          *)
LEMMA TotalGrows ==
  ASSUME NEW s \in Seq(Event), NEW e \in Event
  PROVE  /\ SumTotalTokens(s) \in Nat
         /\ SumTotalTokens(Append(s, e)) = SumTotalTokens(s) + Usage(e)
<1> DEFINE t == Append(s, e)
           n == Len(s)
<1>1. /\ t \in Seq(Event) /\ Len(t) = n + 1 /\ n \in Nat
      /\ \A i \in 1..n : s[i] = t[i]
      /\ t[n + 1] = e
  OBVIOUS
<1> HIDE DEF t
<1>2. /\ IsTotal(RunningTotal(s), s, n) /\ RunningTotal(s) \in [0..n -> Nat]
      /\ IsTotal(RunningTotal(t), t, n + 1)
  BY <1>1, RunningTotalIs
<1>3. RunningTotal(s)[n] = RunningTotal(t)[n]
  <2>1. Adds(RunningTotal(s), s, n)
    BY <1>2 DEF IsTotal, Adds
  <2>2. \A i \in 0..n : i \in 0..(n + 1)
    BY <1>1
  <2>3. Adds(RunningTotal(t), t, n)
    BY <1>2, <2>2 DEF IsTotal, Adds
  <2>4. n \in 0..n
    BY <1>1
  <2> QED  BY <1>1, <2>1, <2>3, <2>4, TotalsAgree
<1>4. RunningTotal(t)[n + 1] = RunningTotal(t)[n] + Usage(e)
  <2>1. n + 1 \in 0..(n + 1) /\ n + 1 # 0 /\ (n + 1) - 1 = n
    BY <1>1
  <2> QED  BY <1>1, <1>2, <2>1 DEF IsTotal
<1>5. RunningTotal(s)[n] \in Nat
  BY <1>1, <1>2
<1> QED  BY <1>1, <1>3, <1>4, <1>5 DEF SumTotalTokens, t

(* No events use nothing.                                                  *)
LEMMA NoUsage == SumTotalTokens(<<>>) = 0
<1>1. <<>> \in Seq(Event) /\ Len(<<>>) = 0 /\ 0 \in 0..0
  OBVIOUS
<1>2. IsTotal(RunningTotal(<<>>), <<>>, 0)
  BY <1>1, RunningTotalIs
<1> QED  BY <1>1, <1>2 DEF IsTotal, SumTotalTokens

-----------------------------------------------------------------------------
(* The message an answer or a turn adds to the conversation.               *)
Opening(calls) == [role |-> "assistant", step |-> step, calls |-> calls]
Answer(call, result) ==
    [role |-> "tool", step |-> step, index |-> answered + 1, call |-> call,
     result |-> result]

(* The conversation opens with two messages.                               *)
LEMMA OpeningType ==
  ASSUME step \in Nat, NEW calls \in Turns
  PROVE  Opening(calls) \in Message
BY DEF Opening, Message

(* The answer to a call is a message.                                      *)
LEMMA AnswerType ==
  ASSUME step \in Nat, answered \in Nat, NEW call \in ToolCalls, NEW result \in Outcomes
  PROVE  Answer(call, result) \in Message
BY DEF Answer, Message

(* The usage of a response is an event.                                    *)
LEMMA UsageEventType ==
  ASSUME step \in Nat, NEW usage \in Nat
  PROVE  [action |-> "llm_generate", step |-> step, tokens |-> usage] \in Event
BY DEF Event

(* A call that was answered is an event.                                   *)
LEMMA CallEventType ==
  ASSUME step \in Nat, NEW call \in ToolCalls, NEW result \in Outcomes
  PROVE  [action |-> "tool_call", step |-> step, tool |-> call.name,
          result |-> result, acquired |-> call.target] \in Event
<1>1. call \in [name : ToolNames, target : Targets \cup {None}]
  BY AgentAssumption
<1>2. call.name \in ToolNames /\ call.target \in Targets \cup {None}
  BY <1>1
<1> QED  BY <1>2 DEF Event

-----------------------------------------------------------------------------
(* A run starts typed.                                                     *)
LEMMA InitTypeInv == Init => TypeInv
<1> SUFFICES ASSUME Init PROVE TypeInv
  OBVIOUS
<1>1. budget.steps \in Nat \ {0}
  BY BudgetTypes DEF Init
<1>2. <<>> \in Turns
  BY NoTurn
<1> QED  BY <1>1, <1>2 DEF Init, TypeInv, AgentTypes, Ended, Phases, Investigating

(* TypeInv is inductive: one step per action.                              *)
LEMMA NextTypeInv == TypeInv /\ [Next]_vars => TypeInv'
<1> SUFFICES ASSUME TypeInv, [Next]_vars PROVE TypeInv'
  OBVIOUS
<1> USE DEF TypeInv
<1>0. /\ budget.steps \in Nat \ {0} /\ step \in Nat /\ answered \in Nat
      /\ Len(turn) \in Nat
  <2>1. turn \in Seq(ToolCalls)
    BY TurnTypes DEF AgentTypes
  <2> QED  BY <2>1, BudgetTypes DEF AgentTypes
<1>1. ASSUME Prepare \/ BuildRaises \/ GenerateRaises \/ CallRaises PROVE TypeInv'
  BY <1>1, <1>0 DEF Prepare, BuildRaises, GenerateRaises, CallRaises, CallPending, agentVars, AgentTypes,
     Ended, Phases, Investigating
<1>2. ASSUME BuildAgent PROVE TypeInv'
  BY <1>2, <1>0 DEF BuildAgent, AgentTypes, Ended, Phases, Investigating
<1>3. ASSUME CheckWallTime PROVE TypeInv'
  BY <1>3, <1>0 DEF CheckWallTime, Return, AgentTypes, Ended, Phases,
     Investigating, Terminations
<1>4. ASSUME NEW calls \in Turns, NEW usage \in Usages, Generate(calls, usage)
      PROVE TypeInv'
  <2>1. usage \in Nat
    BY AgentAssumption
  <2>2. trace' \in Seq(Event) /\ tokens' \in Nat
    <3> DEFINE event == [action |-> "llm_generate", step |-> step, tokens |-> usage]
    <3>1. event \in Event
      BY <1>0, <2>1, UsageEventType
    <3>2. trace' = trace \/ trace' = Append(trace, event)
      BY <1>4 DEF Generate, AccountUsage, Traced
    <3>3. tokens' = tokens + usage
      BY <1>4 DEF Generate, AccountUsage
    <3> HIDE DEF event
    <3> QED  BY <2>1, <3>1, <3>2, <3>3, Appended DEF AgentTypes
  <2>3. messages' \in Seq(Message)
    <3>1. Opening(calls) \in Message
      BY <1>0, OpeningType
    <3>2. messages' = messages \/ messages' = Append(messages, Opening(calls))
      BY <1>4 DEF Generate, Opening
    <3> QED  BY <3>1, <3>2, Appended DEF AgentTypes
  <2>4. turn' \in Turns /\ answered' \in 0..Len(turn')
    <3>1. Len(calls) \in Nat
      BY TurnTypes
    <3> QED  BY <1>4, <1>0, <3>1 DEF Generate, AgentTypes
  <2>5. phase' \in {"returned", "calling"} /\ phase = "generating"
    BY <1>4 DEF Generate, Return
  <2>6. Ended'
    BY <1>4, <2>5 DEF Generate, Return, Ended, Terminations
  <2> QED
    BY <1>4, <2>2, <2>3, <2>4, <2>5, <2>6 DEF Generate, AgentTypes, Phases,
       Investigating
<1>5. ASSUME StopAtCall PROVE TypeInv'
  BY <1>5 DEF StopAtCall, CallPending, Return, AgentTypes, Ended, Phases, Investigating,
     Terminations
<1>6. ASSUME NEW result \in Outcomes, AnswerCall(result) PROVE TypeInv'
  <2> DEFINE call == turn[answered + 1]
  <2>1. answered + 1 \in 1..Len(turn) /\ call \in ToolCalls
    <3>1. answered < Len(turn)
      BY <1>6 DEF AnswerCall, CallPending
    <3> QED  BY <3>1, <1>0, TurnTypes DEF AgentTypes
  <2>2. trace' \in Seq(Event)
    <3>1. ExecuteTool(call, result)
      BY <1>6 DEF AnswerCall
    <3>2. CASE UNCHANGED trace
      BY <3>2 DEF AgentTypes
    <3>3. CASE trace' = Append(trace, [action |-> "tool_call", step |-> step,
                          tool |-> call.name, result |-> result,
                          acquired |-> call.target])
      BY <3>3, <1>0, <2>1, CallEventType, Appended DEF AgentTypes
    <3> QED  BY <3>1, <3>2, <3>3 DEF ExecuteTool, Traced
  <2>3. messages' \in Seq(Message)
    <3>1. messages' = Append(messages, Answer(call, result))
      BY <1>6 DEF AnswerCall, Reply, Answer
    <3>2. Answer(call, result) \in Message
      BY <1>0, <2>1, AnswerType
    <3> QED  BY <3>1, <3>2, Appended DEF AgentTypes
  <2>4. phase = "calling" /\ UNCHANGED <<phase, budget, step, turn, termination, record>>
        /\ toolCalls' = toolCalls + 1 /\ answered' = answered + 1 /\ tokens' = tokens
    BY <1>6 DEF AnswerCall, CallPending
  <2>5. answered' \in 0..Len(turn')
    BY <2>4, <2>1, <1>0
  <2> QED
    BY <2>2, <2>3, <2>4, <2>5 DEF AgentTypes, Ended, Phases, Investigating
<1>7. ASSUME EndTurn PROVE TypeInv'
  <2>1. turn' \in Turns /\ answered' \in 0..Len(turn')
    BY <1>7, NoTurn DEF EndTurn
  <2> QED
    BY <1>7, <1>0, <2>1 DEF EndTurn, NextTurn, Return, AgentTypes, Ended, Phases,
       Investigating, Terminations
<1>8. ASSUME StoreReturned \/ StoreRaised \/ StoreUnprepared PROVE TypeInv'
  <2>1. phase' = "recorded" /\ UNCHANGED <<budget, granted, agentVars>>
    BY <1>8 DEF StoreReturned, StoreRaised, StoreUnprepared, Store
  <2> QED
    BY <2>1 DEF agentVars, AgentTypes, Ended, Phases, Investigating
<1>9. ASSUME Done \/ UNCHANGED vars PROVE TypeInv'
  BY <1>9 DEF Done, vars, agentVars, AgentTypes, Ended
<1> QED
  BY <1>1, <1>2, <1>3, <1>4, <1>5, <1>6, <1>7, <1>8, <1>9 DEF Next

(* The types hold throughout.                                              *)
LEMMA TypeInvariant == Spec => []TypeInv
BY InitTypeInv, NextTypeInv, PTL DEF Spec

-----------------------------------------------------------------------------
(* How a step may extend the trace: by the usage of one response, or by a  *)
(* call of a granted tool.                                                 *)
LEMMA TraceStep ==
  ASSUME TypeInv, [Next]_vars
  PROVE  /\ granted' = granted
         /\ \/ trace' = trace
            \/ \E event : /\ event.action = "tool_call" => event.tool \in granted
                          /\ trace' = Append(trace, event)
<1>1. ASSUME NEW calls \in Turns, NEW usage \in Usages, Generate(calls, usage)
      PROVE  /\ granted' = granted
             /\ \/ trace' = trace
                \/ trace' = Append(trace, [action |-> "llm_generate", step |-> step,
                                          tokens |-> usage])
  BY <1>1 DEF Generate, AccountUsage, Traced
<1>2. ASSUME NEW result \in Outcomes, AnswerCall(result)
      PROVE  /\ granted' = granted
             /\ \/ trace' = trace
                \/ /\ turn[answered + 1].name \in granted
                   /\ trace' = Append(trace,
                        [action |-> "tool_call", step |-> step,
                         tool |-> turn[answered + 1].name, result |-> result,
                         acquired |-> turn[answered + 1].target])
  BY <1>2 DEF AnswerCall, ExecuteTool, Traced
<1>3. ASSUME \/ Prepare \/ BuildRaises \/ BuildAgent \/ CheckWallTime \/ GenerateRaises
             \/ StopAtCall \/ CallRaises \/ EndTurn \/ StoreReturned \/ StoreRaised
             \/ StoreUnprepared \/ Done \/ UNCHANGED vars
      PROVE  granted' = granted /\ trace' = trace
  BY <1>3 DEF Prepare, BuildRaises, BuildAgent, CheckWallTime, GenerateRaises,
     StopAtCall, CallRaises, EndTurn, StoreReturned, StoreRaised, StoreUnprepared, Store, Done,
     vars, agentVars
<1>4. CASE \E calls \in Turns, usage \in Usages : Generate(calls, usage)
  <2>1. PICK calls \in Turns, usage \in Usages : Generate(calls, usage)
    BY <1>4
  <2> DEFINE event == [action |-> "llm_generate", step |-> step, tokens |-> usage]
  <2>2. event.action # "tool_call"
    OBVIOUS
  <2>3. granted' = granted /\ (trace' = trace \/ trace' = Append(trace, event))
    BY <1>1, <2>1
  <2> HIDE DEF event
  <2> QED  BY <2>2, <2>3
<1>5. CASE \E result \in Outcomes : AnswerCall(result)
  <2>1. PICK result \in Outcomes : AnswerCall(result)
    BY <1>5
  <2> DEFINE event == [action |-> "tool_call", step |-> step,
                       tool |-> turn[answered + 1].name, result |-> result,
                       acquired |-> turn[answered + 1].target]
  <2>2. event.tool = turn[answered + 1].name
    OBVIOUS
  <2>3. /\ granted' = granted
        /\ \/ trace' = trace
           \/ turn[answered + 1].name \in granted /\ trace' = Append(trace, event)
    BY <1>2, <2>1
  <2> HIDE DEF event
  <2> QED  BY <2>2, <2>3
<1> QED  BY <1>3, <1>4, <1>5 DEF Next

(* No traced call is outside the tools the arm was granted, whatever the   *)
(* model asks for in whatever turn (agent.py _execute_tool 209-232).       *)
THEOREM GrantRespected == Spec => []OnlyGrantedTools
<1>1. Init => OnlyGrantedTools
  BY DEF Init, OnlyGrantedTools
<1>2. TypeInv /\ OnlyGrantedTools /\ [Next]_vars => OnlyGrantedTools'
  <2> SUFFICES ASSUME TypeInv, OnlyGrantedTools, [Next]_vars,
                      NEW i \in DOMAIN trace', trace'[i].action = "tool_call"
               PROVE  trace'[i].tool \in granted'
    BY DEF OnlyGrantedTools
  <2>1. granted' = granted
    BY TraceStep
  <2>2. CASE trace' = trace
    BY <2>1, <2>2 DEF OnlyGrantedTools
  <2>3. CASE trace' # trace
    <3>1. PICK event : /\ event.action = "tool_call" => event.tool \in granted
                       /\ trace' = Append(trace, event)
      BY <2>3, TraceStep
    <3>2. trace \in Seq(Event)
      BY DEF TypeInv, AgentTypes
    <3>3. CASE i \in DOMAIN trace
      <4>1. trace'[i] = trace[i]
        BY <3>1, <3>2, <3>3
      <4> QED  BY <4>1, <2>1, <3>3 DEF OnlyGrantedTools
    <3>4. CASE i \notin DOMAIN trace
      <4>1. trace'[i] = event
        BY <3>1, <3>2, <3>4
      <4> QED  BY <4>1, <2>1, <3>1
    <3> QED  BY <3>3, <3>4
  <2> QED  BY <2>2, <2>3
<1> QED  BY <1>1, <1>2, TypeInvariant, PTL DEF Spec

-----------------------------------------------------------------------------
(* The turns the conversation holds: all before this one, and this one     *)
(* while its calls are answered.                                           *)
TurnsSeen == {messages[i].step : i \in DOMAIN messages}

BudgetInv ==
    /\ BudgetsHold
    /\ phase \in {"preparing", "building"} =>
          messages = <<>> /\ ~Exceeded(budget.tokens, tokens)
    /\ phase \in {"checking", "generating"} => TurnsSeen = 1..(step - 1)
    /\ phase = "calling" => TurnsSeen = 1..step

(* A message of this turn adds this turn.                                  *)
LEMMA SeenGrows ==
  ASSUME messages \in Seq(Message), NEW m \in Message, m.step = step,
         messages' = Append(messages, m)
  PROVE  TurnsSeen' = TurnsSeen \cup {step}
<1>1. /\ Len(messages) \in Nat
      /\ DOMAIN messages' = DOMAIN messages \cup {Len(messages) + 1}
      /\ \A i \in DOMAIN messages : messages'[i] = messages[i]
      /\ messages'[Len(messages) + 1] = m
  BY Appended
<1> QED  BY <1>1 DEF TurnsSeen

(* A run starts with its budgets unspent.                                  *)
LEMMA InitBudgetInv == Init => BudgetInv
<1> SUFFICES ASSUME Init PROVE BudgetInv
  OBVIOUS
<1>1. budget.toolCalls \subseteq Nat \ {0} /\ budget.tokens \subseteq Nat \ {0}
  BY AgentAssumption DEF Init, IsLimit
<1>2. ~Exceeded(budget.toolCalls, toolCalls) /\ ~Exceeded(budget.tokens, tokens)
  BY <1>1 DEF Init, Exceeded
<1>3. termination = None /\ None \notin Terminations
  BY AgentAssumption DEF Init
<1>4. termination \notin {"token_budget_exceeded", "tool_call_budget_exceeded",
                          "step_budget_exceeded"}
  BY <1>3 DEF Terminations
<1> QED  BY <1>2, <1>4 DEF Init, BudgetInv, BudgetsHold

(* Steps that leave the budgets, what was used and the conversation alone  *)
(* and end no run by a budget.                                             *)
LEMMA BudgetKept ==
  ASSUME BudgetInv,
         UNCHANGED <<budget, toolCalls, tokens, messages>>,
         \/ termination' = termination
         \/ termination' \notin {"token_budget_exceeded", "tool_call_budget_exceeded",
                                 "step_budget_exceeded"},
         \/ phase' \in {"returned", "raised", "recorded"}
         \/ phase = "preparing" /\ phase' = "building"
         \/ phase = "checking" /\ phase' = "generating" /\ step' = step
         \/ UNCHANGED <<phase, step>>
  PROVE  BudgetInv'
<1>1. UNCHANGED TurnsSeen
  BY DEF TurnsSeen
<1> QED  BY <1>1 DEF BudgetInv, BudgetsHold, Exceeded, Exhausted, TurnsSeen

(* BudgetInv is inductive: one step per action.                            *)
LEMMA NextBudgetInv == TypeInv /\ BudgetInv /\ [Next]_vars => BudgetInv'
<1> SUFFICES ASSUME TypeInv, BudgetInv, [Next]_vars PROVE BudgetInv'
  OBVIOUS
<1>0. /\ budget.steps \in Nat \ {0} /\ step \in 0..budget.steps
      /\ budget.toolCalls \subseteq Nat /\ budget.tokens \subseteq Nat
      /\ toolCalls \in Nat /\ tokens \in Nat /\ messages \in Seq(Message)
      /\ phase \in Phases
      /\ phase \in Investigating => step >= 1
      /\ phase \in Investigating => termination = None
      /\ None \notin Terminations
  BY BudgetTypes, AgentAssumption DEF TypeInv, AgentTypes, Ended, Investigating
<1>1. ASSUME Prepare \/ BuildRaises \/ GenerateRaises \/ CallRaises PROVE BudgetInv'
  BY <1>1, BudgetKept DEF Prepare, BuildRaises, GenerateRaises, CallRaises, agentVars
<1>2. ASSUME BuildAgent PROVE BudgetInv'
  <2>1. TurnsSeen' = 1..0
    BY <1>2 DEF BuildAgent, BudgetInv, TurnsSeen
  <2> QED
    BY <1>2, <2>1 DEF BuildAgent, BudgetInv, BudgetsHold, Exceeded, Exhausted
<1>3. ASSUME CheckWallTime PROVE BudgetInv'
  BY <1>3, BudgetKept DEF CheckWallTime, Return
<1>4. ASSUME NEW calls \in Turns, NEW usage \in Usages, Generate(calls, usage)
      PROVE BudgetInv'
  <2>0. usage \in Nat
    BY AgentAssumption
  <2>1. /\ UNCHANGED <<budget, toolCalls, step>> /\ tokens' = tokens + usage
        /\ phase = "generating"
    BY <1>4 DEF Generate, AccountUsage
  <2>2. TurnsSeen = 1..(step - 1) /\ ~Exceeded(budget.tokens, tokens)
        /\ ~Exceeded(budget.toolCalls, toolCalls)
    BY <2>1 DEF BudgetInv, BudgetsHold
  <2>3. ~OverTokens(usage) => ~Exceeded(budget.tokens, tokens')
    <3>1. CASE usage = 0
      <4>1. tokens' = tokens
        BY <2>1, <1>0, <3>1
      <4> QED  BY <4>1, <2>2
    <3>2. CASE usage # 0
      BY <3>2, <2>1 DEF OverTokens
    <3> QED  BY <3>1, <3>2
  <2>4. CASE OverTokens(usage)
    <3>1. phase' = "returned" /\ termination' = "token_budget_exceeded"
          /\ messages' = messages
      BY <1>4, <2>4 DEF Generate, Return
    <3>2. Exceeded(budget'.tokens, tokens')
      BY <2>1, <2>4 DEF OverTokens
    <3> QED
      BY <2>1, <2>2, <3>1, <3>2 DEF BudgetInv, BudgetsHold
  <2>5. CASE ~OverTokens(usage) /\ calls = <<>>
    <3>1. phase' = "returned" /\ termination' = "no_tool_call"
      BY <1>4, <2>5 DEF Generate, Return
    <3> QED
      BY <2>1, <2>2, <3>1 DEF BudgetInv, BudgetsHold
  <2>6. CASE ~OverTokens(usage) /\ calls # <<>>
    <3>1. /\ phase' = "calling" /\ termination' = termination
          /\ messages' = Append(messages, Opening(calls))
      BY <1>4, <2>6 DEF Generate, Opening
    <3>2. Opening(calls) \in Message /\ Opening(calls).step = step
      BY <1>0, OpeningType DEF Opening
    <3>3. TurnsSeen' = TurnsSeen \cup {step}
      BY <1>0, <3>1, <3>2, SeenGrows
    <3>4. TurnsSeen' = 1..step'
      <4>1. step \in Nat /\ step >= 1
        BY <1>0, <2>1 DEF Investigating
      <4> QED  BY <4>1, <2>1, <2>2, <3>3
    <3>5. termination' \notin {"token_budget_exceeded", "tool_call_budget_exceeded",
                               "step_budget_exceeded"}
      BY <3>1, <2>1, <1>0 DEF Investigating, Terminations
    <3> QED
      BY <2>1, <2>2, <2>3, <2>6, <3>1, <3>4, <3>5 DEF BudgetInv, BudgetsHold
  <2> QED  BY <2>4, <2>5, <2>6
<1>5. ASSUME StopAtCall PROVE BudgetInv'
  <2>1. CASE termination' = "submitted"
    BY <1>5, <2>1, BudgetKept DEF StopAtCall, Return
  <2>2. CASE SpentToolCalls /\ termination' = "tool_call_budget_exceeded"
    BY <1>5, <2>2 DEF StopAtCall, CallPending, Return, SpentToolCalls, BudgetInv,
       BudgetsHold
  <2> QED  BY <1>5, <2>1, <2>2 DEF StopAtCall, Return
<1>6. ASSUME NEW result \in Outcomes, AnswerCall(result) PROVE BudgetInv'
  <2>1. /\ phase = "calling" /\ toolCalls' = toolCalls + 1
        /\ UNCHANGED <<phase, budget, step, tokens, termination>>
    BY <1>6 DEF AnswerCall, CallPending
  <2>2. ~Exceeded(budget'.toolCalls, toolCalls')
    <3>1. \A n \in budget.toolCalls : ~(toolCalls >= n)
      BY <1>6 DEF AnswerCall, SpentToolCalls, Exhausted
    <3>2. \A n \in budget.toolCalls : ~(toolCalls + 1 > n)
      BY <3>1, <1>0
    <3> QED  BY <3>2, <2>1 DEF Exceeded
  <2>3. messages' = Append(messages, Answer(turn[answered + 1], result))
    BY <1>6 DEF AnswerCall, Reply, Answer
  <2>4. Answer(turn[answered + 1], result) \in Message
    <3>1. /\ answered < Len(turn) /\ answered \in 0..Len(turn)
          /\ Len(turn) \in Nat /\ turn \in Turns
      BY <1>6, TurnTypes DEF AnswerCall, CallPending, TypeInv, AgentTypes
    <3>2. answered + 1 \in 1..Len(turn) /\ answered \in Nat
      BY <3>1
    <3>3. turn[answered + 1] \in ToolCalls
      BY <3>1, <3>2, TurnTypes
    <3> QED  BY <3>2, <3>3, <1>0, AnswerType
  <2>5. TurnsSeen' = 1..step'
    <3>1. TurnsSeen' = TurnsSeen \cup {step}
      BY <1>0, <2>3, <2>4, SeenGrows DEF Answer
    <3>2. TurnsSeen = 1..step /\ step \in Nat /\ step >= 1
      BY <2>1, <1>0 DEF BudgetInv, Investigating
    <3> QED  BY <3>1, <3>2, <2>1
  <2>6. termination' \notin {"token_budget_exceeded", "tool_call_budget_exceeded",
                             "step_budget_exceeded"}
    BY <2>1, <1>0 DEF Investigating, Terminations
  <2> QED
    BY <2>1, <2>2, <2>5, <2>6 DEF BudgetInv, BudgetsHold
<1>7. ASSUME EndTurn PROVE BudgetInv'
  <2>1. /\ phase = "calling" /\ TurnsSeen = 1..step /\ step \in Nat
        /\ UNCHANGED <<budget, toolCalls, tokens, messages, TurnsSeen>>
    BY <1>7, <1>0 DEF EndTurn, BudgetInv, TurnsSeen
  <2>2. CASE step < budget.steps
    <3>1. step' = step + 1 /\ phase' = "checking" /\ termination' = termination
      BY <1>7, <2>2 DEF EndTurn, NextTurn
    <3>2. TurnsSeen' = 1..(step' - 1)
      BY <2>1, <3>1
    <3> QED
      BY <2>1, <3>1, <3>2 DEF BudgetInv, BudgetsHold, TurnsSeen
  <2>3. CASE ~(step < budget.steps)
    <3>1. phase' = "returned" /\ termination' = "step_budget_exceeded"
      BY <1>7, <2>3 DEF EndTurn, NextTurn, Return
    <3>2. step = budget.steps
      BY <2>3, <1>0
    <3> QED
      BY <2>1, <3>1, <3>2 DEF BudgetInv, BudgetsHold, TurnsSeen
  <2> QED  BY <2>2, <2>3
<1>8. ASSUME StoreReturned \/ StoreRaised \/ StoreUnprepared PROVE BudgetInv'
  BY <1>8, BudgetKept DEF StoreReturned, StoreRaised, StoreUnprepared, Store, agentVars
<1>9. ASSUME Done \/ UNCHANGED vars PROVE BudgetInv'
  BY <1>9, BudgetKept DEF Done, vars, agentVars
<1> QED
  BY <1>1, <1>2, <1>3, <1>4, <1>5, <1>6, <1>7, <1>8, <1>9 DEF Next

(* Whatever the limits, no call and no turn past them, and a run that says *)
(* a budget stopped it had spent that budget (agent.py run 119-207).       *)
THEOREM BudgetsRespected == Spec => []BudgetsHold
<1>1. BudgetInv => BudgetsHold
  BY DEF BudgetInv
<1> QED
  BY <1>1, InitBudgetInv, NextBudgetInv, TypeInvariant, PTL DEF Spec

-----------------------------------------------------------------------------
(* Where a record comes from: it is stored once, by one of three actions.  *)
LEMMA RecordStep ==
  ASSUME TypeInv, [Next]_vars
  PROVE  \/ record' = None
         \/ UNCHANGED vars
         \/ StoreReturned \/ StoreRaised \/ StoreUnprepared
<1>1. ASSUME \/ Prepare \/ BuildRaises \/ BuildAgent \/ CheckWallTime \/ GenerateRaises
             \/ StopAtCall \/ CallRaises \/ EndTurn
             \/ \E calls \in Turns, usage \in Usages : Generate(calls, usage)
             \/ \E result \in Outcomes : AnswerCall(result)
      PROVE  record' = None
  <2>1. record' = record /\ phase # "recorded"
    BY <1>1 DEF Prepare, BuildRaises, BuildAgent, CheckWallTime, GenerateRaises,
       StopAtCall, CallRaises, EndTurn, Generate, AnswerCall, CallPending, agentVars
  <2> QED  BY <2>1 DEF TypeInv, Ended
<1> QED  BY <1>1 DEF Next, Done

(* A COMPLETED record has a result, its evaluation and its whole trace; a  *)
(* FAILED one has no evaluation, no result, and its trace exactly when     *)
(* _run_prepared outlived a raising agent (experiments/runner.py 302-367,  *)
(* benchmark/_execution.py 145-183).                                       *)
THEOREM RecordsTruthful == Spec => []RecordTellsRun
<1>1. Init => RecordTellsRun
  BY DEF Init, RecordTellsRun
<1>2. TypeInv /\ RecordTellsRun /\ [Next]_vars => RecordTellsRun'
  <2> SUFFICES ASSUME TypeInv, RecordTellsRun, [Next]_vars PROVE RecordTellsRun'
    OBVIOUS
  <2>1. CASE record' = None
    BY <2>1 DEF RecordTellsRun
  <2>2. CASE UNCHANGED vars
    BY <2>2 DEF RecordTellsRun, vars, agentVars
  <2>3. CASE StoreReturned
    <3>1. /\ record'.status = "COMPLETED" /\ record'.evaluated
          /\ record'.trace = trace /\ UNCHANGED agentVars
      BY <2>3 DEF StoreReturned, Store
    <3>2. termination # None
      BY <2>3, AgentAssumption DEF StoreReturned, TypeInv, Ended
    <3> QED  BY <3>1, <3>2 DEF RecordTellsRun, agentVars
  <2>4. CASE StoreRaised
    <3>1. /\ record'.status = "FAILED" /\ record'.evaluated = FALSE
          /\ record'.prepared = TRUE /\ record'.trace = trace /\ UNCHANGED agentVars
      BY <2>4 DEF StoreRaised, Store
    <3>2. termination = None
      BY <2>4 DEF StoreRaised, TypeInv, Ended
    <3> QED  BY <3>1, <3>2 DEF RecordTellsRun, agentVars
  <2>5. CASE StoreUnprepared
    <3>1. /\ record'.status = "FAILED" /\ record'.evaluated = FALSE
          /\ record'.prepared = FALSE /\ record'.trace = <<>>
      BY <2>5 DEF StoreUnprepared, Store
    <3> QED  BY <3>1 DEF RecordTellsRun
  <2> QED  BY <2>1, <2>2, <2>3, <2>4, <2>5, RecordStep
<1> QED  BY <1>1, <1>2, TypeInvariant, PTL DEF Spec

-----------------------------------------------------------------------------
AllAnswered(i) == \A k \in DOMAIN messages[i].calls : AnsweredAt(i, k)

(* Where the assistant message of the running turn stands.                 *)
Here == Len(messages) - answered

(* Before a turn, every call is answered.  In a turn, the conversation     *)
(* ends in its assistant message and the answers given so far.             *)
AnswerInv ==
    /\ phase \in {"preparing", "building"} => messages = <<>>
    /\ phase \in {"checking", "generating"} =>
          \A i \in DOMAIN messages : messages[i].role = "assistant" => AllAnswered(i)
    /\ phase = "calling" =>
          /\ Here \in DOMAIN messages
          /\ messages[Here].step = step /\ messages[Here].calls = turn
          /\ \A k \in 1..answered : AnsweredAt(Here, k)
          /\ \A i \in DOMAIN messages :
                messages[i].role = "assistant" /\ i # Here => AllAnswered(i)

(* An answer stays where it is when the conversation grows.                *)
LEMMA AnswerStays ==
  ASSUME messages \in Seq(Message), NEW m \in Message,
         messages' = Append(messages, m),
         NEW i \in DOMAIN messages, NEW k, AnsweredAt(i, k)
  PROVE  AnsweredAt(i, k)'
<1>1. /\ DOMAIN messages \subseteq DOMAIN messages'
      /\ \A j \in DOMAIN messages : messages'[j] = messages[j]
  BY Appended
<1> QED  BY <1>1 DEF AnsweredAt

(* AnswerInv is inductive: one step per action.                            *)
LEMMA NextAnswerInv == TypeInv /\ AnswerInv /\ [Next]_vars => AnswerInv'
<1> SUFFICES ASSUME TypeInv, AnswerInv, [Next]_vars PROVE AnswerInv'
  OBVIOUS
<1>0. /\ messages \in Seq(Message) /\ turn \in Turns /\ Len(turn) \in Nat
      /\ answered \in 0..Len(turn) /\ answered \in Nat /\ step \in Nat
      /\ Len(messages) \in Nat /\ DOMAIN messages = 1..Len(messages)
  BY TurnTypes, BudgetTypes DEF TypeInv, AgentTypes
<1>1. ASSUME phase' \in {"returned", "raised", "recorded"} PROVE AnswerInv'
  BY <1>1 DEF AnswerInv
<1>2. ASSUME Prepare \/ BuildAgent PROVE AnswerInv'
  BY <1>2 DEF Prepare, BuildAgent, agentVars, AnswerInv
<1>3. ASSUME CheckWallTime PROVE AnswerInv'
  BY <1>3, <1>1 DEF CheckWallTime, Return, AnswerInv, AllAnswered, AnsweredAt
<1>4. ASSUME NEW calls \in Turns, NEW usage \in Usages, Generate(calls, usage)
      PROVE AnswerInv'
  <2>1. CASE phase' = "returned"
    BY <2>1, <1>1
  <2>2. CASE phase' # "returned"
    <3>1. /\ phase' = "calling" /\ answered' = 0 /\ turn' = calls /\ step' = step
          /\ messages' = Append(messages, Opening(calls)) /\ phase = "generating"
      BY <1>4, <2>2 DEF Generate, Return, Opening
    <3>2. Opening(calls) \in Message
      BY <1>0, OpeningType
    <3>3. /\ Len(messages') = Len(messages) + 1 /\ DOMAIN messages' = 1..(Len(messages) + 1)
          /\ \A j \in DOMAIN messages : messages'[j] = messages[j]
          /\ messages'[Len(messages) + 1] = Opening(calls)
      BY <1>0, <3>1, <3>2, Appended
    <3>4. Here' = Len(messages) + 1
      BY <3>1, <3>3, <1>0 DEF Here
    <3>5. ASSUME NEW i \in DOMAIN messages', messages'[i].role = "assistant", i # Here'
          PROVE  AllAnswered(i)'
      <4>1. i \in DOMAIN messages
        BY <3>5, <3>3, <3>4, <1>0
      <4>2. messages'[i] = messages[i]
        BY <4>1, <3>3
      <4>3. AllAnswered(i)
        BY <4>1, <4>2, <3>5, <3>1 DEF AnswerInv
      <4> QED
        BY <4>1, <4>2, <4>3, <3>1, <3>2, <1>0, AnswerStays DEF AllAnswered
    <3> QED
      BY <3>1, <3>3, <3>4, <3>5, <1>0 DEF AnswerInv, Opening
  <2> QED  BY <2>1, <2>2
<1>5. ASSUME NEW result \in Outcomes, AnswerCall(result) PROVE AnswerInv'
  <2> DEFINE call == turn[answered + 1]
  <2>1. /\ phase = "calling" /\ answered < Len(turn)
        /\ UNCHANGED <<phase, step, turn>> /\ answered' = answered + 1
        /\ messages' = Append(messages, Answer(call, result))
    BY <1>5 DEF AnswerCall, CallPending, Reply, Answer
  <2>2. call \in ToolCalls
    <3>1. answered + 1 \in 1..Len(turn)
      BY <2>1, <1>0
    <3> QED  BY <3>1, <1>0, TurnTypes
  <2>3. Answer(call, result) \in Message
    BY <1>0, <2>2, AnswerType
  <2>4. /\ Len(messages') = Len(messages) + 1 /\ DOMAIN messages' = 1..(Len(messages) + 1)
        /\ \A j \in DOMAIN messages : messages'[j] = messages[j]
        /\ messages'[Len(messages) + 1] = Answer(call, result)
    BY <1>0, <2>1, <2>3, Appended
  <2>5. Here' = Here /\ Here \in DOMAIN messages /\ Here + (answered + 1) = Len(messages) + 1
    BY <2>1, <2>4, <1>0 DEF Here, AnswerInv
  <2>6. messages'[Here'] = messages[Here]
    BY <2>4, <2>5
  <2>7. AnsweredAt(Here, answered)'
    <3>1. messages[Here].step = step /\ messages[Here].calls = turn
      BY <2>1 DEF AnswerInv
    <3>2. messages'[Here + (answered + 1)] = Answer(call, result)
      BY <2>4, <2>5
    <3>3. Here + (answered + 1) \in DOMAIN messages'
      BY <2>4, <2>5, <1>0
    <3>4. /\ Answer(call, result).role = "tool" /\ Answer(call, result).step = step
          /\ Answer(call, result).index = answered + 1
          /\ Answer(call, result).call = turn[answered + 1]
      BY DEF Answer
    <3> QED  BY <3>1, <3>2, <3>3, <3>4, <2>1, <2>5, <2>6 DEF AnsweredAt
  <2>8. ASSUME NEW k \in 1..answered' PROVE AnsweredAt(Here, k)'
    <3>1. CASE k = answered'
      BY <3>1, <2>7
    <3>2. CASE k # answered'
      <4>1. k \in 1..answered
        BY <3>2, <2>1, <1>0
      <4>2. AnsweredAt(Here, k)
        BY <4>1, <2>1 DEF AnswerInv
      <4>3. \A i \in DOMAIN messages : AnsweredAt(i, k) =>
               i + k \in DOMAIN messages' /\ messages'[i + k] = messages[i + k]
        BY <2>4, <1>0 DEF AnsweredAt
      <4> QED  BY <4>2, <4>3, <2>4, <2>5, <2>6 DEF AnsweredAt
    <3> QED  BY <3>1, <3>2
  <2>9. ASSUME NEW i \in DOMAIN messages', messages'[i].role = "assistant", i # Here'
        PROVE  AllAnswered(i)'
    <3>1. i # Len(messages) + 1
      BY <2>9, <2>4 DEF Answer
    <3>2. i \in DOMAIN messages
      BY <3>1, <2>4, <1>0
    <3>3. messages'[i] = messages[i]
      BY <3>2, <2>4
    <3>4. AllAnswered(i)
      BY <3>2, <3>3, <2>9, <2>5, <2>1 DEF AnswerInv
    <3> QED
      BY <3>2, <3>3, <3>4, <2>1, <2>3, <1>0, AnswerStays DEF AllAnswered
  <2>10. /\ Here' \in DOMAIN messages'
         /\ messages'[Here'].step = step' /\ messages'[Here'].calls = turn'
    BY <2>1, <2>4, <2>5, <2>6, <1>0 DEF AnswerInv
  <2>11. \A k \in 1..answered' : AnsweredAt(Here, k)'
    BY <2>8
  <2> QED
    BY <2>1, <2>5, <2>9, <2>10, <2>11 DEF AnswerInv, AnsweredAt
<1>6. ASSUME EndTurn PROVE AnswerInv'
  <2>1. CASE phase' = "returned"
    BY <2>1, <1>1
  <2>2. CASE phase' # "returned"
    <3>1. /\ phase = "calling" /\ answered = Len(turn) /\ phase' = "checking"
          /\ messages' = messages
      BY <1>6, <2>2 DEF EndTurn, NextTurn, Return
    <3>2. AllAnswered(Here)
      BY <3>1, <1>0, TurnTypes DEF AnswerInv, AllAnswered
    <3>3. \A i \in DOMAIN messages : messages[i].role = "assistant" => AllAnswered(i)
      BY <3>1, <3>2 DEF AnswerInv
    <3> QED  BY <3>1, <3>3 DEF AnswerInv, AllAnswered, AnsweredAt
  <2> QED  BY <2>1, <2>2
<1>7. ASSUME Done \/ UNCHANGED vars PROVE AnswerInv'
  BY <1>7 DEF Done, vars, agentVars, AnswerInv, AllAnswered, AnsweredAt, Here
<1>8. ASSUME \/ BuildRaises \/ GenerateRaises \/ CallRaises \/ StopAtCall
             \/ StoreReturned \/ StoreRaised \/ StoreUnprepared
      PROVE  AnswerInv'
  BY <1>8, <1>1 DEF BuildRaises, GenerateRaises, CallRaises, StopAtCall, Return, StoreReturned,
     StoreRaised, StoreUnprepared, Store
<1> QED
  BY <1>2, <1>3, <1>4, <1>5, <1>6, <1>7, <1>8 DEF Next

(* The provider is never called with a dangling tool call, however long    *)
(* the conversation, and whichever calls failed, named no tool or returned *)
(* what (agent.py run 169-207, _execute_tool 209-232).                     *)
THEOREM CallsAnswered == Spec => []TurnsAnswered
<1>1. Init => AnswerInv
  BY DEF Init, AnswerInv
<1>2. AnswerInv => TurnsAnswered
  BY DEF AnswerInv, TurnsAnswered, AllAnswered
<1> QED
  BY <1>1, <1>2, NextAnswerInv, TypeInvariant, PTL DEF Spec

-----------------------------------------------------------------------------
(* What the conversation, the trace and the answers are selected by.       *)
Told(s) == Chosen(s, {i \in DOMAIN s : s[i].role = "tool"})
Seen(s) == Chosen(s, {i \in DOMAIN s : s[i].result = "value"})

ToolMessage == {m \in Message : m.role = "tool"}
CallEvent == {e \in Event : e.action = "tool_call"}

(* A selection of a longer sequence is that of the shorter one, with the   *)
(* last element if it is selected.                                         *)
LEMMA SelectionGrows ==
  ASSUME NEW X, NEW s \in Seq(X), NEW x \in X,
         NEW places, NEW later, places \subseteq DOMAIN s,
         later = IF Len(s) + 1 \in later THEN places \cup {Len(s) + 1} ELSE places
  PROVE  Chosen(Append(s, x), later) =
           IF Len(s) + 1 \in later THEN Append(Chosen(s, places), x)
                                   ELSE Chosen(s, places)
<1>1. Chosen(Append(s, x), places) = Chosen(s, places)
  BY ChosenStays
<1>2. Chosen(Append(s, x), places \cup {Len(s) + 1}) = Append(Chosen(s, places), x)
  BY ChosenGrows
<1> QED  BY <1>1, <1>2

(* So it is for the answers of a conversation.                             *)
LEMMA ToldGrows ==
  ASSUME NEW X, NEW s \in Seq(X), NEW x \in X
  PROVE  Told(Append(s, x)) = IF x.role = "tool" THEN Append(Told(s), x) ELSE Told(s)
<1> DEFINE places == {i \in DOMAIN s : s[i].role = "tool"}
           later == {i \in DOMAIN Append(s, x) : Append(s, x)[i].role = "tool"}
<1>1. /\ Len(s) + 1 \in later <=> x.role = "tool"
      /\ places \subseteq DOMAIN s
      /\ later = IF Len(s) + 1 \in later THEN places \cup {Len(s) + 1} ELSE places
  BY Appended
<1>2. Told(s) = Chosen(s, places) /\ Told(Append(s, x)) = Chosen(Append(s, x), later)
  BY DEF Told
<1> HIDE DEF places, later
<1> QED  BY <1>1, <1>2, SelectionGrows

(* So it is for the answers with a value.                                  *)
LEMMA ValuesGrow ==
  ASSUME NEW X, NEW s \in Seq(X), NEW x \in X
  PROVE  Seen(Append(s, x)) = IF x.result = "value" THEN Append(Seen(s), x) ELSE Seen(s)
<1> DEFINE places == {i \in DOMAIN s : s[i].result = "value"}
           later == {i \in DOMAIN Append(s, x) : Append(s, x)[i].result = "value"}
<1>1. /\ Len(s) + 1 \in later <=> x.result = "value"
      /\ places \subseteq DOMAIN s
      /\ later = IF Len(s) + 1 \in later THEN places \cup {Len(s) + 1} ELSE places
  BY Appended
<1>2. Seen(s) = Chosen(s, places) /\ Seen(Append(s, x)) = Chosen(Append(s, x), later)
  BY DEF Seen
<1> HIDE DEF places, later
<1> QED  BY <1>1, <1>2, SelectionGrows

(* So it is for the calls of a trace.                                      *)
LEMMA ToolEventsGrow ==
  ASSUME NEW X, NEW s \in Seq(X), NEW x \in X
  PROVE  ToolEvents(Append(s, x)) =
           IF x.action = "tool_call" THEN Append(ToolEvents(s), x) ELSE ToolEvents(s)
<1> DEFINE places == {i \in DOMAIN s : s[i].action = "tool_call"}
           later == {i \in DOMAIN Append(s, x) : Append(s, x)[i].action = "tool_call"}
<1>1. /\ Len(s) + 1 \in later <=> x.action = "tool_call"
      /\ places \subseteq DOMAIN s
      /\ later = IF Len(s) + 1 \in later THEN places \cup {Len(s) + 1} ELSE places
  BY Appended
<1>2. ToolEvents(s) = Chosen(s, places) /\ ToolEvents(Append(s, x)) = Chosen(Append(s, x), later)
  BY DEF ToolEvents
<1> HIDE DEF places, later
<1> QED  BY <1>1, <1>2, SelectionGrows

(* The answers of a conversation are tool messages, the tool events of a   *)
(* trace calls; of nothing nothing is selected.                            *)
LEMMA SelectionTypes ==
  /\ \A s \in Seq(Message) : Told(s) \in Seq(ToolMessage)
  /\ \A s \in Seq(ToolMessage) : Seen(s) \in Seq(ToolMessage)
  /\ \A s \in Seq(Event) : ToolEvents(s) \in Seq(CallEvent)
  /\ Told(<<>>) = <<>> /\ Seen(<<>>) = <<>> /\ ToolEvents(<<>>) = <<>>
<1>1. ASSUME NEW X, NEW s \in Seq(X), NEW S, S \subseteq DOMAIN s,
             NEW Y, \A i \in S : s[i] \in Y
      PROVE  Chosen(s, S) \in Seq(Y)
  <2>1. /\ Cardinality(S) \in Nat /\ DOMAIN Chosen(s, S) = 1..Cardinality(S)
        /\ \A k \in DOMAIN Chosen(s, S) : Chosen(s, S)[k] \in Y
    BY <1>1, ChosenIs
  <2>2. Chosen(s, S) \in [1..Cardinality(S) -> Y]
    <3>1. Chosen(s, S) = [k \in 1..Cardinality(S) |-> Chosen(s, S)[k]]
      BY DEF Chosen
    <3> QED  BY <2>1, <3>1
  <2> QED  BY <2>1, <2>2
<1>2. \A s \in Seq(Message) : Told(s) \in Seq(ToolMessage)
  <2> SUFFICES ASSUME NEW s \in Seq(Message) PROVE Told(s) \in Seq(ToolMessage)
    OBVIOUS
  <2> DEFINE S == {i \in DOMAIN s : s[i].role = "tool"}
  <2>1. S \subseteq DOMAIN s /\ \A i \in S : s[i] \in ToolMessage
    BY DEF ToolMessage
  <2> HIDE DEF S
  <2>2. Chosen(s, S) \in Seq(ToolMessage)
    BY <1>1, <2>1
  <2> QED  BY <2>2 DEF Told, S
<1>3. \A s \in Seq(ToolMessage) : Seen(s) \in Seq(ToolMessage)
  <2> SUFFICES ASSUME NEW s \in Seq(ToolMessage) PROVE Seen(s) \in Seq(ToolMessage)
    OBVIOUS
  <2> DEFINE S == {i \in DOMAIN s : s[i].result = "value"}
  <2>1. S \subseteq DOMAIN s /\ \A i \in S : s[i] \in ToolMessage
    OBVIOUS
  <2> HIDE DEF S
  <2>2. Chosen(s, S) \in Seq(ToolMessage)
    BY <1>1, <2>1
  <2> QED  BY <2>2 DEF Seen, S
<1>4. \A s \in Seq(Event) : ToolEvents(s) \in Seq(CallEvent)
  <2> SUFFICES ASSUME NEW s \in Seq(Event) PROVE ToolEvents(s) \in Seq(CallEvent)
    OBVIOUS
  <2> DEFINE S == {i \in DOMAIN s : s[i].action = "tool_call"}
  <2>1. S \subseteq DOMAIN s /\ \A i \in S : s[i] \in CallEvent
    BY DEF CallEvent
  <2> HIDE DEF S
  <2>2. Chosen(s, S) \in Seq(CallEvent)
    BY <1>1, <2>1
  <2> QED  BY <2>2 DEF ToolEvents, S
<1>5. Chosen(<<>>, {}) = <<>>
  <2>1. /\ Chosen(<<>>, {}) \in Seq({}) /\ Len(Chosen(<<>>, {})) = Cardinality({})
    <3>1. <<>> \in Seq({}) /\ {} \subseteq DOMAIN <<>>
      OBVIOUS
    <3> QED  BY <3>1, ChosenIs
  <2>2. Cardinality({}) = 0
    BY FS_EmptySet
  <2> QED  BY <2>1, <2>2
<1>6. Told(<<>>) = <<>> /\ Seen(<<>>) = <<>> /\ ToolEvents(<<>>) = <<>>
  <2>1. DOMAIN <<>> = {}
    OBVIOUS
  <2> QED  BY <1>5, <2>1 DEF Told, Seen, ToolEvents
<1> QED  BY <1>2, <1>3, <1>4, <1>6

-----------------------------------------------------------------------------
Claims == <<messages, trace, tokens, toolCalls, findings, evidence>>

(* Only a response and an answered call add to what a run claims.          *)
LEMMA ClaimStep ==
  ASSUME TypeInv, [Next]_vars
  PROVE  \/ UNCHANGED Claims /\ (step' = step \/ step' = step + 1)
         \/ \E calls \in Turns, usage \in Usages : Generate(calls, usage)
         \/ \E result \in Outcomes : AnswerCall(result)
<1>1. ASSUME \/ Prepare \/ BuildRaises \/ CheckWallTime \/ GenerateRaises
             \/ StopAtCall \/ CallRaises \/ EndTurn \/ StoreReturned \/ StoreRaised
             \/ StoreUnprepared \/ Done \/ UNCHANGED vars
      PROVE  UNCHANGED Claims /\ (step' = step \/ step' = step + 1)
  BY <1>1 DEF Prepare, BuildRaises, CheckWallTime, GenerateRaises, StopAtCall, CallRaises, EndTurn,
     NextTurn, StoreReturned, StoreRaised, StoreUnprepared, Store, Done, vars, agentVars,
     Claims
<1>2. ASSUME BuildAgent
      PROVE  UNCHANGED Claims /\ (step' = step \/ step' = step + 1)
  BY <1>2 DEF BuildAgent, TypeInv, AgentTypes, Claims
<1> QED  BY <1>1, <1>2 DEF Next

(* What a response adds: a message that is no answer, and its usage.       *)
LEMMA GenerateClaims ==
  ASSUME TypeInv, NEW calls \in Turns, NEW usage \in Usages, Generate(calls, usage)
  PROVE  /\ UNCHANGED <<step, toolCalls, findings, evidence>>
         /\ tokens' = tokens + usage /\ usage \in Nat
         /\ messages' = messages \/ messages' = Append(messages, Opening(calls))
         /\ Opening(calls) \in Message /\ Opening(calls).role = "assistant"
         /\ \/ usage = 0 /\ trace' = trace
            \/ \E event \in Event :
                  /\ event.action = "llm_generate" /\ event.step = step
                  /\ event.tokens = usage /\ trace' = Append(trace, event)
<1> DEFINE event == [action |-> "llm_generate", step |-> step, tokens |-> usage]
<1>1. usage \in Nat /\ step \in Nat
  BY AgentAssumption, BudgetTypes DEF TypeInv, AgentTypes
<1>2. /\ event \in Event /\ event.action = "llm_generate" /\ event.step = step
      /\ event.tokens = usage
  BY <1>1, UsageEventType
<1>3. \/ usage = 0 /\ trace' = trace
      \/ trace' = Append(trace, event)
  BY DEF Generate, AccountUsage, Traced
<1> HIDE DEF event
<1>4. /\ UNCHANGED <<step, toolCalls, findings, evidence>>
      /\ tokens' = tokens + usage
      /\ messages' = messages \/ messages' = Append(messages, Opening(calls))
  BY DEF Generate, AccountUsage, Opening
<1>5. Opening(calls) \in Message /\ Opening(calls).role = "assistant"
  BY <1>1, OpeningType DEF Opening
<1> QED  BY <1>1, <1>2, <1>3, <1>4, <1>5

(* What an answered call adds: its answer, its evidence and its finding,   *)
(* and an event of its turn exactly if it was answered with a value.       *)
LEMMA AnswerClaims ==
  ASSUME TypeInv, NEW result \in Outcomes, AnswerCall(result)
  PROVE  \E call \in ToolCalls, answer \in ToolMessage :
            /\ UNCHANGED <<step, tokens>> /\ toolCalls' = toolCalls + 1
            /\ answer.call = call /\ answer.result = result /\ answer.step = step
            /\ messages' = Append(messages, answer)
            /\ evidence' = Append(evidence, EvidenceFor(call))
            /\ Find(call, result) /\ step \in 1..step
            /\ \/ result # "value" /\ trace' = trace
               \/ /\ result = "value"
                  /\ \E event \in Event :
                        /\ event.action = "tool_call" /\ event.step = step
                        /\ event.tool = call.name /\ trace' = Append(trace, event)
<1> DEFINE call == turn[answered + 1]
           answer == Answer(call, result)
           event == [action |-> "tool_call", step |-> step, tool |-> call.name,
                     result |-> result, acquired |-> call.target]
<1>1. /\ step \in Nat /\ step >= 1 /\ answered \in Nat /\ answered < Len(turn)
      /\ turn \in Turns /\ Len(turn) \in Nat
  BY TurnTypes, BudgetTypes DEF AnswerCall, CallPending, TypeInv, AgentTypes, Investigating
<1>2. call \in ToolCalls
  <2>1. answered + 1 \in 1..Len(turn)
    BY <1>1
  <2> QED  BY <1>1, <2>1, TurnTypes
<1>3. /\ answer \in ToolMessage /\ answer.call = call /\ answer.result = result
      /\ answer.step = step
  BY <1>1, <1>2, AnswerType DEF Answer, ToolMessage
<1>4. /\ event \in Event /\ event.action = "tool_call" /\ event.step = step
      /\ event.tool = call.name
  BY <1>1, <1>2, CallEventType
<1>5. /\ UNCHANGED <<step, tokens>> /\ toolCalls' = toolCalls + 1
      /\ messages' = Append(messages, answer)
      /\ evidence' = Append(evidence, EvidenceFor(call))
      /\ Find(call, result) /\ ExecuteTool(call, result)
  BY DEF AnswerCall, Reply, Answer
<1>6. \/ result # "value" /\ trace' = trace
      \/ result = "value" /\ trace' = Append(trace, event)
  BY <1>5 DEF ExecuteTool, Traced, Outcomes
<1>7. step \in 1..step
  BY <1>1
<1> HIDE DEF call, answer, event
<1> QED  BY <1>2, <1>3, <1>4, <1>5, <1>6, <1>7

-----------------------------------------------------------------------------
(* The agent's count of tokens is the sum over its trace.                  *)
UsageInv == SumTotalTokens(trace) = tokens /\ UsageAccounted

(* A record's total is the sum over its trace, and a trace's sum what the  *)
(* agent counted itself: one step per action.                              *)
LEMMA NextUsageInv == TypeInv /\ UsageInv /\ [Next]_vars => UsageInv'
<1> SUFFICES ASSUME TypeInv, UsageInv, [Next]_vars PROVE UsageInv'
  OBVIOUS
<1>0. trace \in Seq(Event) /\ tokens \in Nat
  BY DEF TypeInv, AgentTypes
<1>1. SumTotalTokens(trace') = tokens'
  <2>1. CASE UNCHANGED Claims
    BY <2>1 DEF UsageInv, Claims
  <2>2. ASSUME NEW calls \in Turns, NEW usage \in Usages, Generate(calls, usage)
        PROVE  SumTotalTokens(trace') = tokens'
    <3>1. tokens' = tokens + usage /\ usage \in Nat
      BY <2>2, GenerateClaims
    <3>2. CASE usage = 0 /\ trace' = trace
      BY <1>0, <3>1, <3>2 DEF UsageInv
    <3>3. CASE ~(usage = 0 /\ trace' = trace)
      <4>1. PICK event \in Event : /\ event.action = "llm_generate"
                                   /\ event.tokens = usage /\ trace' = Append(trace, event)
        BY <2>2, <3>3, GenerateClaims
      <4> QED  BY <1>0, <3>1, <4>1, TotalGrows DEF UsageInv, Usage
    <3> QED  BY <3>2, <3>3
  <2>3. ASSUME NEW result \in Outcomes, AnswerCall(result)
        PROVE  SumTotalTokens(trace') = tokens'
    <3>1. tokens' = tokens
      BY <2>3, AnswerClaims
    <3>2. CASE trace' = trace
      BY <3>1, <3>2 DEF UsageInv
    <3>3. CASE trace' # trace
      <4>1. PICK event \in Event : event.action = "tool_call" /\ trace' = Append(trace, event)
        BY <2>3, <3>3, AnswerClaims
      <4>2. Usage(event) = 0
        BY <4>1 DEF Usage
      <4> QED  BY <1>0, <3>1, <4>1, <4>2, TotalGrows DEF UsageInv
    <3> QED  BY <3>2, <3>3
  <2> QED  BY <2>1, <2>2, <2>3, ClaimStep
<1>2. UsageAccounted'
  <2>1. CASE record' = None
    BY <2>1 DEF UsageAccounted
  <2>2. CASE UNCHANGED vars
    BY <2>2 DEF UsageInv, UsageAccounted, vars, agentVars
  <2>3. CASE StoreReturned \/ StoreRaised
    <3>1. record'.totalTokens = SumTotalTokens(trace) /\ tokens' = tokens
      BY <2>3 DEF StoreReturned, StoreRaised, Store, agentVars
    <3> QED  BY <3>1 DEF UsageInv, UsageAccounted
  <2>4. CASE StoreUnprepared
    <3>1. record'.prepared = FALSE
      BY <2>4 DEF StoreUnprepared, Store
    <3> QED  BY <3>1 DEF UsageAccounted
  <2> QED  BY <2>1, <2>2, <2>3, <2>4, RecordStep
<1> QED  BY <1>1, <1>2 DEF UsageInv

(* The stored total of any run is the usage of every response, the one     *)
(* that broke the budget and those before a failure included, although     *)
(* the agent and the runner keep two sums (experiments/runner.py           *)
(* _sum_total_tokens).                                                     *)
THEOREM UsageExact == Spec => []UsageAccounted
<1>1. Init => UsageInv
  BY NoUsage DEF Init, UsageInv, UsageAccounted
<1>2. UsageInv => UsageAccounted
  BY DEF UsageInv
<1> QED  BY <1>1, <1>2, NextUsageInv, TypeInvariant, PTL DEF Spec

-----------------------------------------------------------------------------
(* The events of the calls tell the answers with a value, one for one.     *)
Tells(told, seen) ==
    /\ Len(told) = Len(seen)
    /\ \A i \in DOMAIN told : told[i].step = seen[i].step /\ told[i].tool = seen[i].call.name

InTurnOrder == \A i, j \in DOMAIN trace : i < j => trace[i].step <= trace[j].step

TraceInv ==
    /\ Tells(ToolEvents(trace), Seen(Told(messages)))
    /\ InTurnOrder
    /\ \A i \in DOMAIN trace : trace[i].step <= step

(* TraceTellsAnswers, in these terms.                                      *)
LEMMA TraceTellsIs ==
  TraceTellsAnswers <=> Tells(ToolEvents(trace), Seen(Told(messages))) /\ InTurnOrder
BY DEF TraceTellsAnswers, Tells, InTurnOrder, Seen, Told, Answers

(* One more event for one more answer.                                     *)
LEMMA OneMoreTells ==
  ASSUME NEW told \in Seq(CallEvent), NEW seen \in Seq(ToolMessage),
         NEW event \in CallEvent, NEW answer \in ToolMessage,
         event.step = answer.step, event.tool = answer.call.name, Tells(told, seen)
  PROVE  Tells(Append(told, event), Append(seen, answer))
<1> DEFINE told2 == Append(told, event)
           seen2 == Append(seen, answer)
<1>1. Len(told) = Len(seen) /\ DOMAIN told = 1..Len(told) /\ DOMAIN seen = 1..Len(told)
  BY DEF Tells
<1>2. /\ Len(told2) = Len(told) + 1 /\ DOMAIN told2 = DOMAIN told \cup {Len(told) + 1}
      /\ \A i \in DOMAIN told : told2[i] = told[i]
      /\ told2[Len(told) + 1] = event
  BY Appended
<1>3. /\ Len(seen2) = Len(told) + 1
      /\ \A i \in DOMAIN told : seen2[i] = seen[i]
      /\ seen2[Len(told) + 1] = answer
  BY <1>1, Appended
<1> HIDE DEF told2, seen2
<1>4. ASSUME NEW i \in DOMAIN told2
      PROVE  told2[i].step = seen2[i].step /\ told2[i].tool = seen2[i].call.name
  <2>1. CASE i \in DOMAIN told
    BY <1>2, <1>3, <2>1 DEF Tells
  <2>2. CASE i = Len(told) + 1
    BY <1>2, <1>3, <2>2
  <2> QED  BY <1>2, <2>1, <2>2
<1>5. Tells(told2, seen2)
  BY <1>2, <1>3, <1>4 DEF Tells
<1> QED  BY <1>5 DEF told2, seen2

(* An event of the running turn keeps the order of turns.                  *)
LEMMA InOrderStill ==
  ASSUME trace \in Seq(Event), step \in Nat, InTurnOrder, UNCHANGED step,
         \A i \in DOMAIN trace : trace[i].step <= step,
         NEW event \in Event, event.step = step, trace' = Append(trace, event)
  PROVE  InTurnOrder' /\ \A i \in DOMAIN trace' : trace'[i].step <= step'
<1>1. /\ Len(trace) \in Nat /\ DOMAIN trace = 1..Len(trace)
      /\ DOMAIN trace' = 1..(Len(trace) + 1)
      /\ \A i \in DOMAIN trace : trace'[i] = trace[i]
      /\ trace'[Len(trace) + 1] = event
  BY Appended
<1>2. ASSUME NEW i \in DOMAIN trace' PROVE trace'[i].step <= step
  <2>1. CASE i \in DOMAIN trace
    BY <1>1, <2>1
  <2>2. CASE i = Len(trace) + 1
    BY <1>1, <2>2
  <2> QED  BY <1>1, <2>1, <2>2
<1>3. ASSUME NEW i \in DOMAIN trace', NEW j \in DOMAIN trace', i < j
      PROVE  trace'[i].step <= trace'[j].step
  <2>1. i \in DOMAIN trace
    BY <1>1, <1>3
  <2>2. CASE j \in DOMAIN trace
    BY <1>1, <1>3, <2>1, <2>2 DEF InTurnOrder
  <2>3. CASE j = Len(trace) + 1
    BY <1>1, <2>1, <2>3
  <2> QED  BY <1>1, <2>2, <2>3
<1> QED  BY <1>2, <1>3 DEF InTurnOrder

(* TraceInv is inductive: one step per kind of claim.                      *)
LEMMA NextTraceInv == TypeInv /\ TraceInv /\ [Next]_vars => TraceInv'
<1> SUFFICES ASSUME TypeInv, TraceInv, [Next]_vars PROVE TraceInv'
  OBVIOUS
<1>0. /\ trace \in Seq(Event) /\ messages \in Seq(Message) /\ step \in Nat
      /\ \A i \in DOMAIN trace : trace[i].step \in Nat
  <2>1. trace \in Seq(Event) /\ messages \in Seq(Message) /\ step \in Nat
    BY BudgetTypes DEF TypeInv, AgentTypes
  <2>2. \A event \in Event : event.step \in Nat
    BY DEF Event
  <2> QED  BY <2>1, <2>2
<1>1. CASE UNCHANGED Claims /\ (step' = step \/ step' = step + 1)
  <2>1. \A i \in DOMAIN trace : trace[i].step <= step'
    BY <1>0, <1>1 DEF TraceInv
  <2> QED  BY <1>1, <2>1 DEF TraceInv, Claims, InTurnOrder
<1>2. ASSUME NEW calls \in Turns, NEW usage \in Usages, Generate(calls, usage)
      PROVE  TraceInv'
  <2>1. step' = step /\ Told(messages') = Told(messages)
    <3>1. /\ step' = step /\ Opening(calls) \in Message
          /\ Opening(calls).role # "tool"
          /\ messages' = messages \/ messages' = Append(messages, Opening(calls))
      BY <1>2, GenerateClaims
    <3> QED  BY <1>0, <3>1, ToldGrows
  <2>2. CASE trace' = trace
    BY <2>1, <2>2 DEF TraceInv, InTurnOrder
  <2>3. CASE trace' # trace
    <3>1. PICK event \in Event : /\ event.action = "llm_generate" /\ event.step = step
                                 /\ trace' = Append(trace, event)
      BY <1>2, <2>3, GenerateClaims
    <3>2. ToolEvents(trace') = ToolEvents(trace)
      BY <1>0, <3>1, ToolEventsGrow
    <3>3. InTurnOrder' /\ \A i \in DOMAIN trace' : trace'[i].step <= step'
      BY <1>0, <2>1, <3>1, InOrderStill DEF TraceInv
    <3> QED  BY <2>1, <3>2, <3>3 DEF TraceInv
  <2> QED  BY <2>2, <2>3
<1>3. ASSUME NEW result \in Outcomes, AnswerCall(result)
      PROVE  TraceInv'
  <2>1. PICK call \in ToolCalls, answer \in ToolMessage :
            /\ step' = step
            /\ answer.call = call /\ answer.result = result /\ answer.step = step
            /\ messages' = Append(messages, answer)
            /\ \/ result # "value" /\ trace' = trace
               \/ /\ result = "value"
                  /\ \E event \in Event :
                        /\ event.action = "tool_call" /\ event.step = step
                        /\ event.tool = call.name /\ trace' = Append(trace, event)
    BY <1>3, AnswerClaims
  <2>2. /\ answer \in Message
        /\ Told(messages) \in Seq(ToolMessage)
        /\ Told(messages') = Append(Told(messages), answer)
    <3>1. answer \in Message /\ answer.role = "tool"
      BY DEF ToolMessage
    <3> QED  BY <1>0, <2>1, <3>1, ToldGrows, SelectionTypes
  <2>3. CASE result # "value" /\ trace' = trace
    <3>1. Seen(Told(messages')) = Seen(Told(messages))
      BY <2>1, <2>2, <2>3, ValuesGrow
    <3> QED  BY <2>1, <2>3, <3>1 DEF TraceInv, InTurnOrder
  <2>4. CASE result = "value" /\ trace' # trace
    <3>1. PICK event \in Event : /\ event.action = "tool_call" /\ event.step = step
                                 /\ event.tool = call.name /\ trace' = Append(trace, event)
      BY <2>1, <2>4
    <3>2. Seen(Told(messages')) = Append(Seen(Told(messages)), answer)
      BY <2>1, <2>2, <2>4, ValuesGrow
    <3>3. ToolEvents(trace') = Append(ToolEvents(trace), event) /\ event \in CallEvent
      BY <1>0, <3>1, ToolEventsGrow DEF CallEvent
    <3>4. ToolEvents(trace) \in Seq(CallEvent) /\ Seen(Told(messages)) \in Seq(ToolMessage)
      BY <1>0, <2>2, SelectionTypes
    <3>5. Tells(ToolEvents(trace'), Seen(Told(messages')))
      BY <2>1, <3>1, <3>2, <3>3, <3>4, OneMoreTells DEF TraceInv
    <3>6. InTurnOrder' /\ \A i \in DOMAIN trace' : trace'[i].step <= step'
      BY <1>0, <2>1, <3>1, InOrderStill DEF TraceInv
    <3> QED  BY <3>5, <3>6 DEF TraceInv
  <2>5. result = "value" => trace' # trace
    <3>1. \A event \in Event : Append(trace, event) # trace
      <4>1. \A event \in Event : Len(Append(trace, event)) # Len(trace)
        BY <1>0, Appended
      <4> QED  BY <4>1
    <3> QED  BY <2>1, <3>1
  <2> QED  BY <2>1, <2>3, <2>4, <2>5
<1> QED  BY <1>1, <1>2, <1>3, ClaimStep

(* However long the run, whichever calls fail or are refused, the tool     *)
(* events of the trace are exactly the answers with a value, in the order  *)
(* the model saw them, and no turn's events come after a later turn's      *)
(* (agent/client.py call_tool, trace/collector.py events).                 *)
THEOREM TraceTellsTruth == Spec => []TraceTellsAnswers
<1>1. Init => TraceInv
  <2> SUFFICES ASSUME Init PROVE TraceInv
    OBVIOUS
  <2>1. trace = <<>> /\ messages = <<>> /\ DOMAIN <<>> = {} /\ Len(<<>>) = 0
    BY DEF Init
  <2> QED  BY <2>1, SelectionTypes DEF TraceInv, InTurnOrder, Tells
<1>2. TraceInv => TraceTellsAnswers
  BY TraceTellsIs DEF TraceInv
<1> QED  BY <1>1, <1>2, NextTraceInv, TypeInvariant, PTL DEF Spec

-----------------------------------------------------------------------------
(* What a result may claim of a sequence of answers.                       *)
EvidenceTells(answers) ==
    /\ Len(evidence) = Len(answers) /\ toolCalls = Len(answers)
    /\ \A i \in DOMAIN evidence : evidence[i] = EvidenceFor(answers[i].call)

FindingKey(answer) == <<answer.call.name, answer.step>>

FindingsTell(found, answers) ==
    /\ DOMAIN found = {FindingKey(answers[i]) : i \in DOMAIN answers}
    /\ \A i \in DOMAIN answers :
          \/ found[FindingKey(answers[i])] = answers[i].result
          \/ \E j \in DOMAIN answers :
                j > i /\ FindingKey(answers[j]) = FindingKey(answers[i])

EvidenceType == [source : ToolNames, identifier : Targets \cup ToolNames]

ResultInv ==
    /\ evidence \in Seq(EvidenceType)
    /\ EvidenceTells(Told(messages)) /\ FindingsTell(findings, Told(messages))

(* ResultTellsAnswers, in these terms.                                     *)
LEMMA ResultTellsIs ==
  ResultTellsAnswers <=> EvidenceTells(Answers) /\ FindingsTell(findings, Answers)
<1>1. \A a, b : FindingKey(a) = FindingKey(b)
                  <=> a.step = b.step /\ a.call.name = b.call.name
  BY DEF FindingKey
<1> DEFINE as == Answers
<1>2. ResultTellsAnswers <=>
        /\ EvidenceTells(as)
        /\ DOMAIN findings = {<<as[i].call.name, as[i].step>> : i \in DOMAIN as}
        /\ \A i \in DOMAIN as :
              \/ findings[<<as[i].call.name, as[i].step>>] = as[i].result
              \/ \E j \in DOMAIN as : /\ j > i /\ as[j].step = as[i].step
                                      /\ as[j].call.name = as[i].call.name
  BY DEF ResultTellsAnswers, EvidenceTells
<1> HIDE DEF as
<1>3. /\ {<<as[i].call.name, as[i].step>> : i \in DOMAIN as}
           = {FindingKey(as[i]) : i \in DOMAIN as}
      /\ \A i \in DOMAIN as : FindingKey(as[i]) = <<as[i].call.name, as[i].step>>
  BY DEF FindingKey
<1>4. ASSUME NEW i \in DOMAIN as
      PROVE  (\E j \in DOMAIN as : /\ j > i /\ as[j].step = as[i].step
                                   /\ as[j].call.name = as[i].call.name)
             <=> \E j \in DOMAIN as : j > i /\ FindingKey(as[j]) = FindingKey(as[i])
  BY <1>1
<1>5. ResultTellsAnswers <=> EvidenceTells(as) /\ FindingsTell(findings, as)
  BY <1>2, <1>3, <1>4, Zenon DEF FindingsTell
<1> QED  BY <1>5 DEF as

(* An evidence reference is one.                                           *)
LEMMA EvidenceTyped ==
  ASSUME NEW call \in ToolCalls
  PROVE  EvidenceFor(call) \in EvidenceType
<1>1. call.name \in ToolNames /\ call.target \in Targets \cup {None}
  BY AgentAssumption
<1> QED  BY <1>1 DEF EvidenceFor, EvidenceType

(* The finding of the last answer of a tool in a turn is the one kept.     *)
LEMMA FindingsStillTell ==
  ASSUME NEW answers \in Seq(ToolMessage), NEW answer \in ToolMessage,
         NEW found, FindingsTell(found, answers),
         NEW found2, found2 = [k \in DOMAIN found \cup {FindingKey(answer)} |->
                                 IF k = FindingKey(answer) THEN answer.result ELSE found[k]]
  PROVE  FindingsTell(found2, Append(answers, answer))
<1> DEFINE more == Append(answers, answer)
           n == Len(answers)
<1>1. /\ n \in Nat /\ DOMAIN answers = 1..n /\ DOMAIN more = 1..(n + 1)
      /\ \A i \in DOMAIN answers : more[i] = answers[i]
      /\ more[n + 1] = answer
  BY Appended
<1> HIDE DEF more
<1>2. /\ DOMAIN found2 = DOMAIN found \cup {FindingKey(answer)}
      /\ found2[FindingKey(answer)] = answer.result
      /\ \A k \in DOMAIN found : k # FindingKey(answer) => found2[k] = found[k]
  OBVIOUS
<1>3. DOMAIN found2 = {FindingKey(more[i]) : i \in DOMAIN more}
  <2>1. DOMAIN found = {FindingKey(answers[i]) : i \in DOMAIN answers}
    BY DEF FindingsTell
  <2>2. DOMAIN more = DOMAIN answers \cup {n + 1}
    BY <1>1
  <2> HIDE DEF n
  <2> QED  BY <1>1, <1>2, <2>1, <2>2
<1>4. ASSUME NEW i \in DOMAIN more
      PROVE  \/ found2[FindingKey(more[i])] = more[i].result
             \/ \E j \in DOMAIN more : j > i /\ FindingKey(more[j]) = FindingKey(more[i])
  <2>1. CASE i = n + 1
    BY <1>1, <1>2, <2>1
  <2>2. CASE i # n + 1 /\ FindingKey(more[i]) = FindingKey(answer)
    <3>1. n + 1 \in DOMAIN more /\ n + 1 > i
      BY <1>1, <2>2
    <3> QED  BY <1>1, <2>2, <3>1
  <2>3. CASE i # n + 1 /\ FindingKey(more[i]) # FindingKey(answer)
    <3>1. i \in DOMAIN answers /\ more[i] = answers[i]
      BY <1>1, <2>3
    <3>2. FindingKey(answers[i]) \in DOMAIN found
      BY <3>1 DEF FindingsTell
    <3>3. found2[FindingKey(more[i])] = found[FindingKey(answers[i])]
      BY <1>2, <2>3, <3>1, <3>2
    <3>4. CASE found[FindingKey(answers[i])] = answers[i].result
      BY <3>1, <3>3, <3>4
    <3>5. CASE \E j \in DOMAIN answers :
                  j > i /\ FindingKey(answers[j]) = FindingKey(answers[i])
      <4>1. PICK j \in DOMAIN answers :
                  j > i /\ FindingKey(answers[j]) = FindingKey(answers[i])
        BY <3>5
      <4>2. j \in DOMAIN more /\ more[j] = answers[j]
        BY <1>1
      <4> QED  BY <3>1, <4>1, <4>2
    <3> QED  BY <3>1, <3>4, <3>5 DEF FindingsTell
  <2> QED  BY <2>1, <2>2, <2>3
<1>5. FindingsTell(found2, more)
  BY <1>3, <1>4 DEF FindingsTell
<1> QED  BY <1>5 DEF more

(* ResultInv is inductive: one step per kind of claim.                     *)
LEMMA NextResultInv == TypeInv /\ ResultInv /\ [Next]_vars => ResultInv'
<1> SUFFICES ASSUME TypeInv, ResultInv, [Next]_vars PROVE ResultInv'
  OBVIOUS
<1>0. messages \in Seq(Message) /\ toolCalls \in Nat
  BY DEF TypeInv, AgentTypes
<1>1. CASE UNCHANGED Claims
  BY <1>1 DEF Claims, ResultInv, EvidenceTells, FindingsTell
<1>2. ASSUME NEW calls \in Turns, NEW usage \in Usages, Generate(calls, usage)
      PROVE  ResultInv'
  <2>1. UNCHANGED <<toolCalls, findings, evidence>> /\ Told(messages') = Told(messages)
    <3>1. /\ UNCHANGED <<toolCalls, findings, evidence>> /\ Opening(calls) \in Message
          /\ Opening(calls).role # "tool"
          /\ messages' = messages \/ messages' = Append(messages, Opening(calls))
      BY <1>2, GenerateClaims
    <3> QED  BY <1>0, <3>1, ToldGrows
  <2> QED  BY <2>1 DEF ResultInv, EvidenceTells, FindingsTell
<1>3. ASSUME NEW result \in Outcomes, AnswerCall(result)
      PROVE  ResultInv'
  <2>1. PICK call \in ToolCalls, answer \in ToolMessage :
            /\ answer.call = call /\ answer.result = result /\ answer.step = step
            /\ messages' = Append(messages, answer) /\ toolCalls' = toolCalls + 1
            /\ evidence' = Append(evidence, EvidenceFor(call))
            /\ Find(call, result)
    BY <1>3, AnswerClaims
  <2> DEFINE answers == Told(messages)
  <2>2. answers \in Seq(ToolMessage) /\ Told(messages') = Append(answers, answer)
    <3>1. answer \in Message /\ answer.role = "tool"
      BY DEF ToolMessage
    <3> QED  BY <1>0, <2>1, <3>1, ToldGrows, SelectionTypes
  <2> HIDE DEF answers
  <2>3. EvidenceTells(answers) /\ FindingsTell(findings, answers) /\ evidence \in Seq(EvidenceType)
    BY DEF ResultInv, answers
  <2>4. EvidenceFor(call) \in EvidenceType
    BY EvidenceTyped
  <2>5. /\ Len(answers) \in Nat /\ Len(evidence) = Len(answers)
        /\ DOMAIN evidence = 1..Len(answers) /\ DOMAIN answers = 1..Len(answers)
    BY <2>2, <2>3 DEF EvidenceTells
  <2>6. /\ Len(Append(answers, answer)) = Len(answers) + 1
        /\ \A i \in DOMAIN answers : Append(answers, answer)[i] = answers[i]
        /\ Append(answers, answer)[Len(answers) + 1] = answer
    BY <2>2, Appended
  <2>7. /\ evidence' \in Seq(EvidenceType) /\ Len(evidence') = Len(answers) + 1
        /\ DOMAIN evidence' = 1..(Len(answers) + 1)
        /\ \A i \in DOMAIN evidence : evidence'[i] = evidence[i]
        /\ evidence'[Len(answers) + 1] = EvidenceFor(call)
    BY <2>1, <2>3, <2>4, <2>5, Appended
  <2>8. ASSUME NEW i \in DOMAIN evidence'
        PROVE  evidence'[i] = EvidenceFor(Append(answers, answer)[i].call)
    <3>1. CASE i \in DOMAIN evidence
      BY <2>3, <2>5, <2>6, <2>7, <3>1 DEF EvidenceTells
    <3>2. CASE i = Len(answers) + 1
      BY <2>1, <2>6, <2>7, <3>2
    <3> QED  BY <2>5, <2>7, <3>1, <3>2
  <2>9. EvidenceTells(Told(messages))'
    <3>1. toolCalls' = Len(answers) + 1
      BY <2>1, <2>3 DEF EvidenceTells
    <3> QED  BY <2>2, <2>6, <2>7, <2>8, <3>1 DEF EvidenceTells
  <2>10. FindingsTell(findings', Told(messages'))
    <3>1. FindingKey(answer) = <<call.name, step>>
      BY <2>1 DEF FindingKey
    <3>2. findings' = [k \in DOMAIN findings \cup {FindingKey(answer)} |->
                         IF k = FindingKey(answer) THEN answer.result ELSE findings[k]]
      BY <2>1, <3>1 DEF Find
    <3> QED  BY <2>2, <2>3, <3>2, FindingsStillTell
  <2> QED  BY <2>7, <2>9, <2>10 DEF ResultInv
<1> QED  BY <1>1, <1>2, <1>3, ClaimStep

(* It holds throughout.                                                    *)
LEMMA ResultInvariant == Spec => []ResultInv
<1>1. Init => ResultInv
  <2> SUFFICES ASSUME Init PROVE ResultInv
    OBVIOUS
  <2>1. /\ evidence = <<>> /\ messages = <<>> /\ findings = <<>> /\ toolCalls = 0
        /\ DOMAIN <<>> = {} /\ Len(<<>>) = 0 /\ <<>> \in Seq(EvidenceType)
    BY DEF Init
  <2> QED  BY <2>1, SelectionTypes DEF ResultInv, EvidenceTells, FindingsTell
<1> QED  BY <1>1, NextResultInv, TypeInvariant, PTL DEF Spec

(* Whatever the run and however it fails, its result claims what happened: *)
(* one reference per answered call, in order, and per tool and turn the    *)
(* finding of the last call (agent.py run, the key "name#step").           *)
THEOREM ResultTellsTruth == Spec => []ResultTellsAnswers
<1>1. ResultInv => ResultTellsAnswers
  BY ResultTellsIs DEF ResultInv, Answers, Told
<1> QED  BY <1>1, ResultInvariant, PTL

-----------------------------------------------------------------------------
(* The part of TypeOK that AgentTypes and ResultInv leave out.             *)
MoreTypes ==
    /\ granted \in Grants /\ clock \in 0..MaxClock
    /\ DOMAIN findings \subseteq ToolNames \X (1..step)
    /\ \A key \in DOMAIN findings : findings[key] \in Outcomes
    /\ record = None <=> phase # "recorded"
    /\ record # None => record \in Record

(* A trace has a total and a number of errors.                             *)
LEMMA CountsAreNumbers ==
  ASSUME NEW events \in Seq(Event)
  PROVE  SumTotalTokens(events) \in Nat /\ ToolErrorCount(events) \in Nat
<1>1. Len(events) \in Nat /\ DOMAIN events = 1..Len(events) /\ Len(events) \in 0..Len(events)
  OBVIOUS
<1>2. SumTotalTokens(events) \in Nat
  BY <1>1, RunningTotalIs DEF SumTotalTokens
<1> DEFINE errors == {i \in DOMAIN events :
                        events[i].action = "tool_call" /\ events[i].result = "error"}
<1>3. errors \subseteq 1..Len(events)
  BY <1>1
<1> HIDE DEF errors
<1>4. Cardinality(errors) \in Nat
  BY <1>1, <1>3, PlaceIs
<1> QED  BY <1>2, <1>4 DEF ToolErrorCount, errors

(* What is stored is a record.                                             *)
LEMMA StoredIsRecord ==
  ASSUME NEW status \in {"COMPLETED", "FAILED"}, NEW prepared \in BOOLEAN,
         NEW evaluated \in BOOLEAN, NEW events \in Seq(Event),
         Store(status, prepared, evaluated, events)
  PROVE  phase' = "recorded" /\ record' # None /\ record' \in Record
<1>1. SumTotalTokens(events) \in Nat /\ ToolErrorCount(events) \in Nat
  BY CountsAreNumbers
<1>2. record' \in Record
  BY <1>1 DEF Store, Record
<1> QED  BY <1>2, RecordAssumption DEF Store

(* MoreTypes is inductive: one step per action that disturbs it.           *)
LEMMA NextMoreTypes == TypeInv /\ MoreTypes /\ [Next]_vars => MoreTypes'
<1> SUFFICES ASSUME TypeInv, MoreTypes, [Next]_vars PROVE MoreTypes'
  OBVIOUS
<1>0. /\ trace \in Seq(Event) /\ step \in Nat /\ MaxClock \in Nat
      /\ phase # "recorded" => record = None
  BY BudgetTypes, AgentAssumption DEF TypeInv, AgentTypes, MoreTypes
<1>1. ASSUME \/ Prepare \/ BuildRaises \/ CheckWallTime \/ StopAtCall \/ CallRaises
      PROVE  MoreTypes'
  <2>1. /\ UNCHANGED <<granted, clock, step, findings, record>>
        /\ phase # "recorded" /\ phase' # "recorded"
    BY <1>1 DEF Prepare, BuildRaises, CheckWallTime, StopAtCall, CallRaises, CallPending, Return,
       agentVars
  <2> QED  BY <2>1 DEF MoreTypes
<1>2. ASSUME BuildAgent \/ EndTurn PROVE MoreTypes'
  <2>1. /\ UNCHANGED <<granted, clock, findings, record>>
        /\ phase # "recorded" /\ phase' # "recorded"
        /\ step' \in Nat /\ step' >= step
    <3>1. ASSUME BuildAgent PROVE step' \in Nat /\ step' >= step
      BY <3>1 DEF BuildAgent, TypeInv, AgentTypes
    <3>2. ASSUME EndTurn PROVE step' \in Nat /\ step' >= step
      BY <3>2, <1>0 DEF EndTurn, NextTurn
    <3>3. /\ UNCHANGED <<granted, clock, findings, record>>
          /\ phase # "recorded" /\ phase' # "recorded"
      BY <1>2 DEF BuildAgent, EndTurn, NextTurn, Return
    <3> QED  BY <1>2, <3>1, <3>2, <3>3
  <2>2. \A k \in 1..step : k \in 1..step'
    BY <2>1, <1>0
  <2>3. ToolNames \X (1..step) \subseteq ToolNames \X (1..step')
    BY <2>2
  <2> QED  BY <2>1, <2>3 DEF MoreTypes
<1>3. ASSUME \/ GenerateRaises
             \/ \E calls \in Turns, usage \in Usages : Generate(calls, usage)
      PROVE  MoreTypes'
  <2>1. /\ UNCHANGED <<granted, step, findings, record>> /\ Tick
        /\ phase # "recorded" /\ phase' # "recorded"
    BY <1>3 DEF GenerateRaises, Generate, Return
  <2>2. clock' \in 0..MaxClock
    BY <2>1, <1>0 DEF Tick, MoreTypes
  <2> QED  BY <2>1, <2>2 DEF MoreTypes
<1>4. ASSUME NEW result \in Outcomes, AnswerCall(result) PROVE MoreTypes'
  <2>1. PICK call \in ToolCalls : Find(call, result) /\ step \in 1..step
    BY <1>4, AnswerClaims
  <2>2. /\ UNCHANGED <<granted, step, record>> /\ Tick
        /\ phase # "recorded" /\ phase' # "recorded"
    BY <1>4 DEF AnswerCall, CallPending
  <2>3. clock' \in 0..MaxClock
    BY <2>2, <1>0 DEF Tick, MoreTypes
  <2>4. call.name \in ToolNames
    BY AgentAssumption
  <2> DEFINE key == <<call.name, step>>
  <2>5. key \in ToolNames \X (1..step)
    BY <2>1, <2>4
  <2>6. findings' = [k \in DOMAIN findings \cup {key} |->
                       IF k = key THEN result ELSE findings[k]]
    BY <2>1 DEF Find
  <2> HIDE DEF key
  <2> QED  BY <2>2, <2>3, <2>5, <2>6 DEF MoreTypes
<1>5. ASSUME StoreReturned \/ StoreRaised \/ StoreUnprepared PROVE MoreTypes'
  <2>1. UNCHANGED <<granted, clock, step, findings>>
    BY <1>5 DEF StoreReturned, StoreRaised, StoreUnprepared, Store, agentVars
  <2>2. <<>> \in Seq(Event)
    OBVIOUS
  <2>3. phase' = "recorded" /\ record' # None /\ record' \in Record
    BY <1>5, <1>0, <2>2, StoredIsRecord DEF StoreReturned, StoreRaised, StoreUnprepared
  <2> QED  BY <2>1, <2>3 DEF MoreTypes
<1>6. ASSUME Done \/ UNCHANGED vars PROVE MoreTypes'
  BY <1>6 DEF Done, vars, agentVars, MoreTypes
<1> QED  BY <1>1, <1>2, <1>3, <1>4, <1>5, <1>6 DEF Next

(* Type correctness of any run, its conversation, trace, result and        *)
(* record.                                                                 *)
THEOREM TypeCorrect == Spec => []TypeOK
<1>1. Init => MoreTypes
  BY AgentAssumption DEF Init, MoreTypes
<1>2. TypeInv /\ ResultInv /\ MoreTypes => TypeOK
  BY DEF TypeInv, AgentTypes, Ended, ResultInv, EvidenceType, MoreTypes, TypeOK
<1> QED
  BY <1>1, <1>2, NextMoreTypes, ResultInvariant, TypeInvariant, PTL DEF Spec
=============================================================================
