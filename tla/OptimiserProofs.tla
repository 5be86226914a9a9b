--------------------------- MODULE OptimiserProofs ---------------------------
(***************************************************************************)
(* Theorems about the optimiser, for every script and every cap on the     *)
(* passes: first for every table of rules that parseOptimisationRules      *)
(* accepts; then, with what its own table keeps to, that every rewrite     *)
(* makes the script lighter, so that optimiseBytecode ends by itself, and  *)
(* that operands stay behind the opcodes that read them.                   *)
(***************************************************************************)
EXTENDS OptimiserMeaning, SequenceTheorems, FiniteSetTheorems, TLAPS

IsRule(r) == /\ r \in DOMAIN Rules
             /\ Rules[r].lhs \in Seq(Opcodes)
             /\ Rules[r].rhs \in Seq(Opcodes)
             /\ Len(Rules[r].lhs) \in Nat \ {0}
             /\ Len(Rules[r].rhs) \in Nat
             /\ Len(Rules[r].rhs) <= Len(Rules[r].lhs)

LEMMA RulesAreRules == ASSUME NEW r \in 1 .. Len(Rules) PROVE IsRule(r)
  <1>1. Rules \in Seq([lhs : Seq(Opcodes), rhs : Seq(Opcodes)])
    BY ParsedRules
  <1>2. r \in DOMAIN Rules /\ Rules[r] \in [lhs : Seq(Opcodes), rhs : Seq(Opcodes)]
    BY <1>1, ElementOfSeq, LenProperties
  <1>3. Rules[r].lhs \in Seq(Opcodes) /\ Rules[r].rhs \in Seq(Opcodes)
    BY <1>2
  <1>4. Len(Rules[r].lhs) > 0 /\ Len(Rules[r].rhs) <= Len(Rules[r].lhs)
    BY <1>2, ParsedRules
  <1>5. Len(Rules[r].lhs) \in Nat /\ Len(Rules[r].rhs) \in Nat
    BY <1>3
  <1> QED
    BY <1>2, <1>3, <1>4, <1>5 DEF IsRule

LEMMA NumberOfRules == Len(Rules) \in Nat
  BY ParsedRules

LEMMA PartOfSeq ==
  ASSUME NEW S, NEW s \in Seq(S), NEW m \in Nat \ {0}, NEW n \in 0 .. Len(s), m <= n + 1
  PROVE  SubSeq(s, m, n) \in Seq(S) /\ Len(SubSeq(s, m, n)) = n - m + 1
  <1>1. Len(s) \in Nat
    BY LenProperties
  <1>2. m \in Int /\ n \in Int /\ \A k \in m .. n : s[k] \in S
    BY <1>1, ElementOfSeq
  <1>3. /\ SubSeq(s, m, n) \in Seq(S)
        /\ Len(SubSeq(s, m, n)) = IF m <= n THEN n - m + 1 ELSE 0
    BY <1>2, SubSeqProperties
  <1> QED
    BY <1>1, <1>3

LEMMA ThreeParts ==
  ASSUME NEW S, NEW a \in Seq(S), NEW b \in Seq(S), NEW c \in Seq(S)
  PROVE  a \o b \o c \in Seq(S) /\ Len(a \o b \o c) = Len(a) + Len(b) + Len(c)
  <1>1. a \o b \in Seq(S) /\ Len(a \o b) = Len(a) + Len(b)
    BY ConcatProperties
  <1> QED
    BY <1>1, ConcatProperties

\* A replacement gives a script, shorter by what the rule saves.
LEMMA ReplacedIsScript ==
  ASSUME NEW s \in Seq(Elements), NEW r \in 1 .. Len(Rules), NEW k \in 1 .. Len(s),
         Matches(s, r, k)
  PROVE  /\ Replaced(s, r, k) \in Seq(Elements)
         /\ Len(Replaced(s, r, k)) = Len(s) - Len(Rules[r].lhs) + Len(Rules[r].rhs)
         /\ k + Len(Rules[r].rhs) \in 1 .. Len(Replaced(s, r, k)) + 1
  <1>1. PICK lhs, rhs : lhs = Rules[r].lhs /\ rhs = Rules[r].rhs
    OBVIOUS
  <1>2. /\ Len(lhs) \in Nat \ {0} /\ Len(rhs) \in Nat /\ Len(s) \in Nat /\ k \in Nat \ {0}
        /\ rhs \in Seq(Opcodes)
    BY <1>1, RulesAreRules, LenProperties DEF IsRule
  <1>3. k + Len(lhs) - 1 <= Len(s)
    BY <1>1 DEF Matches
  <1>4. rhs \in Seq(Elements)
    BY <1>2 DEF Elements
  <1>5. PICK before, after : /\ before = SubSeq(s, 1, k - 1)
                             /\ after = SubSeq(s, k + Len(lhs), Len(s))
    OBVIOUS
  <1>6. before \in Seq(Elements) /\ Len(before) = k - 1
    <2>1. 1 \in Nat \ {0} /\ k - 1 \in 0 .. Len(s) /\ 1 <= k - 1 + 1
      BY <1>2
    <2>2. Len(SubSeq(s, 1, k - 1)) = k - 1 - 1 + 1
      BY <2>1, PartOfSeq
    <2> QED
      BY <1>2, <1>5, <2>1, <2>2, PartOfSeq
  <1>7. after \in Seq(Elements) /\ Len(after) = Len(s) - (k + Len(lhs)) + 1
    <2>1. k + Len(lhs) \in Nat \ {0} /\ Len(s) \in 0 .. Len(s) /\ k + Len(lhs) <= Len(s) + 1
      BY <1>2, <1>3
    <2> QED
      BY <1>5, <2>1, PartOfSeq
  <1>8. Replaced(s, r, k) = before \o rhs \o after
    BY <1>1, <1>5 DEF Replaced
  <1>9. /\ Replaced(s, r, k) \in Seq(Elements)
        /\ Len(Replaced(s, r, k)) = Len(before) + Len(rhs) + Len(after)
    <2>1. before \in Seq(Elements) /\ after \in Seq(Elements)
      BY <1>6, <1>7
    <2>2. /\ before \o rhs \o after \in Seq(Elements)
          /\ Len(before \o rhs \o after) = Len(before) + Len(rhs) + Len(after)
      BY <1>4, <2>1, ThreeParts
    <2> QED
      BY <1>8, <2>2
  <1>10. Len(Replaced(s, r, k)) = Len(s) - Len(lhs) + Len(rhs)
    BY <1>2, <1>6, <1>7, <1>9
  <1>11. k + Len(rhs) \in 1 .. Len(Replaced(s, r, k)) + 1
    BY <1>2, <1>3, <1>10
  <1> QED
    BY <1>1, <1>9, <1>10, <1>11

LEMMA CanonicalIsScript ==
  ASSUME NEW s \in Seq(Elements)
  PROVE  canonicaliseScript(s) \in Seq(Elements) /\ Len(canonicaliseScript(s)) = Len(s)
  <1> DEFINE each == [k \in 1 .. Len(s) |-> IF s[k] = "0x" THEN "0" ELSE s[k]]
  <1>1. Len(s) \in Nat
    OBVIOUS
  <1>2. \A k \in 1 .. Len(s) : s[k] \in Elements
    OBVIOUS
  <1>3. "0" \in Elements
    BY ScriptsAssumption DEF Elements
  <1>4. each \in Seq(Elements) /\ Len(each) = Len(s)
    BY <1>1, <1>2, <1>3
  <1> HIDE DEF each
  <1>5. SubSeq(each, 1, Len(s)) \in Seq(Elements) /\ Len(SubSeq(each, 1, Len(s))) = Len(s)
    BY <1>1, <1>4
  <1> QED
    BY <1>5 DEF canonicaliseScript, each

-----------------------------------------------------------------------------
\* Nothing to replace anywhere by the rules below r.
NothingBelow(r) == \A lower \in 1 .. r - 1 : MatchesFrom(script, lower, 1) = {}

\* As long as a pass has changed nothing, the rules behind it have nothing to replace
\* and the one at hand is tried from the start.
Scanned ==
    /\ ~done => i < Runs
    /\ ~iterationChanged => position = 1
    /\ ~iterationChanged /\ ~done => NothingBelow(rule)
    /\ done => /\ rule = Len(Rules) + 1
               /\ i = Runs \/ NothingBelow(rule)

IInv == TypeOK /\ NeverGrows /\ Scanned

LEMMA InitIInv == Init => IInv
  <1> SUFFICES ASSUME Init PROVE IInv
    OBVIOUS
  <1>1. original \in Seq(Elements)
    BY ScriptsAssumption DEF Init
  <1>2. script \in Seq(Elements) /\ Len(script) = Len(original)
    BY <1>1, CanonicalIsScript DEF Init
  <1>3. Len(script) \in Nat
    BY <1>2
  <1>4. 1 \in 1 .. Len(Rules) + 1 /\ 1 \in 1 .. Len(script) + 1 /\ 0 \in 0 .. Runs
    BY <1>3, NumberOfRules, ScriptsAssumption
  <1>5. TypeOK
    BY <1>1, <1>2, <1>4 DEF Init, TypeOK
  <1>6. NeverGrows
    BY <1>2, <1>3 DEF NeverGrows
  <1>7. Scanned
    BY ScriptsAssumption DEF Init, Scanned, NothingBelow
  <1> QED
    BY <1>5, <1>6, <1>7 DEF IInv

LEMMA ReplaceIInv == IInv /\ Replace => IInv'
  <1> SUFFICES ASSUME IInv, Replace PROVE IInv'
    OBVIOUS
  <1>1. rule \in 1 .. Len(Rules)
    BY NumberOfRules DEF IInv, TypeOK, Replace
  <1>2. PICK k \in MatchesFrom(script, rule, position) :
          /\ script' = Replaced(script, rule, k)
          /\ position' = k + Len(Rules[rule].rhs)
    BY DEF Replace
  <1>3. Len(script) \in Nat /\ position \in 1 .. Len(script) + 1 /\ script \in Seq(Elements)
    BY DEF IInv, TypeOK
  <1>4. k \in 1 .. Len(script) /\ Matches(script, rule, k)
    BY <1>2, <1>3 DEF MatchesFrom
  <1>5. /\ script' \in Seq(Elements)
        /\ Len(script') = Len(script) - Len(Rules[rule].lhs) + Len(Rules[rule].rhs)
        /\ position' \in 1 .. Len(script') + 1
    BY <1>1, <1>2, <1>3, <1>4, ReplacedIsScript
  <1>6. /\ Len(Rules[rule].lhs) \in Nat /\ Len(Rules[rule].rhs) \in Nat
        /\ Len(Rules[rule].rhs) <= Len(Rules[rule].lhs)
    BY <1>1, RulesAreRules DEF IsRule
  <1>7. TypeOK'
    <2>1. applied' \subseteq DOMAIN Rules
      BY <1>1, RulesAreRules DEF IInv, TypeOK, Replace, IsRule
    <2> QED
      BY <1>5, <2>1 DEF IInv, TypeOK, Replace
  <1>8. NeverGrows'
    <2>1. Len(original) \in Nat /\ Len(script) <= Len(original) /\ original' = original
      BY DEF IInv, TypeOK, NeverGrows, Replace
    <2> QED
      BY <1>3, <1>5, <1>6, <2>1 DEF NeverGrows
  <1>9. Scanned'
    <2>1. iterationChanged' = TRUE /\ done' = done /\ i' = i
      BY DEF Replace
    <2>2. ~done
      BY <1>1, NumberOfRules DEF IInv, Scanned
    <2> QED
      BY <2>1, <2>2 DEF IInv, Scanned
  <1> QED
    BY <1>7, <1>8, <1>9 DEF IInv

LEMMA StretchOf ==
  ASSUME NEW s, NEW from \in DOMAIN s, NEW to \in DOMAIN s
  PROVE  SubSeq(s, from, to) \in Stretches(s)
  <1> DEFINE stretches(m) == {SubSeq(s, m, n) : n \in DOMAIN s}
  <1>1. SubSeq(s, from, to) \in stretches(from)
    OBVIOUS
  <1>2. Stretches(s) = UNION {stretches(m) : m \in DOMAIN s}
    BY DEF Stretches
  <1>3. stretches(from) \in {stretches(m) : m \in DOMAIN s}
    OBVIOUS
  <1> HIDE DEF stretches
  <1> QED
    BY <1>1, <1>2, <1>3, Zenon

\* NextRule passes over no rule that has something to replace.
LEMMA NothingPassedOver ==
  ASSUME NEW s \in Seq(Elements), NEW k \in 1 .. Len(Rules) + 1, NEW next \in NextRule(s, k)
  PROVE  /\ next \in k .. Len(Rules) + 1
         /\ \A r \in k .. next - 1 : MatchesFrom(s, r, 1) = {}
  <1> DEFINE left == {r \in k .. Len(Rules) : Rules[r].lhs \in Stretches(s)} \cup {Len(Rules) + 1}
  <1>1. next \in left /\ \A m \in left : next <= m
    BY DEF NextRule
  <1>2. next \in k .. Len(Rules) + 1
    BY <1>1, NumberOfRules
  <1>3. ASSUME NEW r \in k .. next - 1, MatchesFrom(s, r, 1) # {} PROVE FALSE
    <2>1. PICK m \in 1 .. Len(s) : Matches(s, r, m)
      BY <1>3 DEF MatchesFrom
    <2>2. r \in 1 .. Len(Rules) /\ r < next
      BY <1>2, <1>3, NumberOfRules
    <2>3. Len(Rules[r].lhs) \in Nat \ {0} /\ Len(s) \in Nat
      BY <2>2, RulesAreRules DEF IsRule
    <2>4. m + Len(Rules[r].lhs) - 1 \in 1 .. Len(s)
      BY <2>1, <2>3 DEF Matches
    <2>5. Rules[r].lhs = SubSeq(s, m, m + Len(Rules[r].lhs) - 1)
      BY <2>1 DEF Matches
    <2>6. Rules[r].lhs \in Stretches(s)
      <3>1. m \in DOMAIN s /\ m + Len(Rules[r].lhs) - 1 \in DOMAIN s
        BY <2>1, <2>4, LenProperties
      <3> QED
        BY <2>5, <3>1, StretchOf
    <2>7. r \in left
      BY <1>3, <2>2, <2>6
    <2> QED
      BY <1>1, <1>2, <2>2, <2>7, NumberOfRules
  <1> QED
    BY <1>2, <1>3

LEMMA ToNextRuleIInv == IInv /\ ToNextRule => IInv'
  <1> SUFFICES ASSUME IInv, ToNextRule PROVE IInv'
    OBVIOUS
  <1>1. rule \in 1 .. Len(Rules) /\ script \in Seq(Elements) /\ Len(script) \in Nat
    BY NumberOfRules DEF IInv, TypeOK, ToNextRule
  <1>2. PICK next : next = rule' /\ next \in NextRule(script, rule + 1)
    BY DEF ToNextRule
  <1>3. PICK this : this = rule /\ this \in 1 .. Len(Rules)
    BY <1>1
  <1>4. this + 1 \in 1 .. Len(Rules) + 1
    BY <1>3, NumberOfRules
  <1>5. /\ next \in this + 1 .. Len(Rules) + 1
        /\ \A r \in this + 1 .. next - 1 : MatchesFrom(script, r, 1) = {}
    BY <1>1, <1>2, <1>3, <1>4, NothingPassedOver
  <1>6. TypeOK'
    BY <1>1, <1>2, <1>3, <1>5, NumberOfRules DEF IInv, TypeOK, ToNextRule
  <1>7. NeverGrows'
    BY DEF IInv, NeverGrows, ToNextRule
  <1>8. ~done
    BY <1>1, NumberOfRules DEF IInv, Scanned
  <1>9. ASSUME ~iterationChanged PROVE NothingBelow(rule)'
    <2>1. /\ \A r \in 1 .. this - 1 : MatchesFrom(script, r, 1) = {}
          /\ position = 1
      BY <1>3, <1>8, <1>9 DEF IInv, Scanned, NothingBelow
    <2>2. MatchesFrom(script, this, 1) = {}
      BY <1>3, <2>1 DEF ToNextRule
    <2>3. ASSUME NEW r \in 1 .. next - 1 PROVE MatchesFrom(script, r, 1) = {}
      <3>1. r \in 1 .. this - 1 \/ r = this \/ r \in this + 1 .. next - 1
        BY <1>3, <1>5, NumberOfRules
      <3> QED
        BY <1>5, <2>1, <2>2, <3>1
    <2>4. script' = script
      BY DEF ToNextRule
    <2> QED
      BY <1>2, <2>3, <2>4 DEF NothingBelow, MatchesFrom, Matches
  <1>10. Scanned'
    BY <1>8, <1>9 DEF IInv, Scanned, ToNextRule
  <1> QED
    BY <1>6, <1>7, <1>10 DEF IInv

LEMMA EndPassIInv == IInv /\ EndPass => IInv'
  <1> SUFFICES ASSUME IInv, EndPass PROVE IInv'
    OBVIOUS
  <1>1. Len(script) \in Nat /\ i \in Nat /\ Runs \in Nat /\ rule = Len(Rules) + 1
    BY ScriptsAssumption DEF IInv, TypeOK, EndPass
  <1>2. ~done /\ i < Runs
    BY DEF IInv, Scanned, EndPass
  <1>3. i' \in 1 .. Runs /\ (i' # Runs => i' < Runs)
    BY <1>1, <1>2 DEF EndPass
  <1>4. rule' \in 1 .. Len(Rules) + 1 /\ done' \in BOOLEAN
    BY <1>1, NumberOfRules DEF EndPass
  <1>5. TypeOK'
    <2>1. position' \in 1 .. Len(script) + 1 /\ i' \in 0 .. Runs
      BY <1>1, <1>3 DEF EndPass
    <2>2. iterationChanged' = FALSE /\ UNCHANGED <<original, script, applied>>
      BY DEF EndPass
    <2> QED
      BY <1>4, <2>1, <2>2 DEF IInv, TypeOK
  <1>6. NeverGrows'
    BY DEF IInv, NeverGrows, EndPass
  <1>7. CASE ~done'
    <2>1. iterationChanged' = FALSE /\ position' = 1 /\ rule' = 1 /\ i' # Runs
      BY <1>7 DEF EndPass
    <2>2. NothingBelow(rule)'
      BY <2>1 DEF NothingBelow
    <2>3. Scanned'
      BY <1>3, <1>7, <2>1, <2>2 DEF Scanned
    <2> QED
      BY <1>5, <1>6, <2>3 DEF IInv
  <1>8. CASE done'
    <2>1. iterationChanged' = FALSE /\ position' = 1 /\ rule' = rule /\ script' = script
      BY <1>8 DEF EndPass
    <2>2. i' = Runs \/ ~iterationChanged
      BY <1>8 DEF EndPass
    <2>3. ASSUME ~iterationChanged PROVE NothingBelow(rule)'
      <3>1. NothingBelow(rule)
        BY <1>2, <2>3 DEF IInv, Scanned
      <3> QED
        BY <2>1, <3>1 DEF NothingBelow, MatchesFrom, Matches
    <2>4. Scanned'
      BY <1>1, <1>8, <2>1, <2>2, <2>3 DEF Scanned
    <2> QED
      BY <1>5, <1>6, <2>4 DEF IInv
  <1> QED
    BY <1>7, <1>8

LEMMA StutterIInv == IInv /\ UNCHANGED vars => IInv'
  <1> SUFFICES ASSUME IInv, UNCHANGED vars PROVE IInv'
    OBVIOUS
  <1>1. TypeOK'
    BY DEF IInv, TypeOK, vars
  <1>2. NeverGrows'
    BY DEF IInv, NeverGrows, vars
  <1>3. Scanned'
    BY DEF IInv, Scanned, NothingBelow, MatchesFrom, Matches, vars
  <1> QED
    BY <1>1, <1>2, <1>3 DEF IInv

LEMMA Inductive == Spec => []IInv
  <1>1. IInv /\ [Next]_vars => IInv'
    BY ReplaceIInv, ToNextRuleIInv, EndPassIInv, StutterIInv DEF Next
  <1> QED
    BY InitIInv, <1>1, PTL DEF Spec

\* Every state of a run of optimiseBytecode has the types it should: no scan leaves its
\* script, whatever the rules are, and the cap on the passes is kept.
THEOREM TypeCorrect == Spec => []TypeOK
  <1>1. IInv => TypeOK
    BY DEF IInv
  <1> QED
    BY Inductive, <1>1, PTL

\* "optimiseBytecode never grows the script", with any table that parseOptimisationRules
\* accepts: its check of each rule is enough.
THEOREM ScriptNeverGrows == Spec => []NeverGrows
  <1>1. IInv => NeverGrows
    BY DEF IInv
  <1> QED
    BY Inductive, <1>1, PTL

\* A call that ends before the cap leaves nothing to rewrite, although the rules that did
\* nothing in the last pass were tried before others of that pass: a second call would
\* change nothing.
EndsAtFixedPoint ==
    done /\ i # Runs => \A r \in DOMAIN Rules : MatchesFrom(script, r, 1) = {}

THEOREM FixedPointUnlessCapped == Spec => []EndsAtFixedPoint
  <1>1. IInv => EndsAtFixedPoint
    <2> SUFFICES ASSUME IInv, done, i # Runs, NEW r \in DOMAIN Rules
                 PROVE  MatchesFrom(script, r, 1) = {}
      BY DEF EndsAtFixedPoint
    <2>1. NothingBelow(Len(Rules) + 1)
      BY DEF IInv, Scanned
    <2>2. r \in 1 .. (Len(Rules) + 1) - 1
      BY ParsedRules, NumberOfRules
    <2> QED
      BY <2>1, <2>2 DEF NothingBelow
  <1> QED
    BY Inductive, <1>1, PTL

-----------------------------------------------------------------------------
(* With what its table keeps to.                                          *)

\* What a rewrite takes out, what it puts in and what it leaves on either side.
Parts(s, r, k, before, after) ==
    /\ before \in Seq(Elements) /\ Len(before) = k - 1
    /\ after \in Seq(Elements)
    /\ s = before \o (Rules[r].lhs \o after)
    /\ Replaced(s, r, k) = before \o (Rules[r].rhs \o after)

LEMMA SidesAreScripts ==
  ASSUME NEW r \in 1 .. Len(Rules)
  PROVE  /\ Rules[r].lhs \in Seq(Elements) /\ Len(Rules[r].lhs) \in Nat \ {0}
         /\ Rules[r].rhs \in Seq(Elements) /\ Len(Rules[r].rhs) \in Nat
         /\ Len(Rules[r].rhs) <= Len(Rules[r].lhs)
  <1>1. IsRule(r)
    BY RulesAreRules
  <1>2. Rules[r].lhs \in Seq(Elements) /\ Rules[r].rhs \in Seq(Elements)
    BY <1>1 DEF IsRule, Elements
  <1> QED
    BY <1>1, <1>2 DEF IsRule

LEMMA Grouping == \A a, b, c \in Seq(Elements) : (a \o b) \o c = a \o (b \o c)
  <1> TAKE a, b, c \in Seq(Elements)
  <1> QED
    BY ConcatAssociative

LEMMA ScriptParts ==
  ASSUME NEW s \in Seq(Elements), NEW r \in 1 .. Len(Rules), NEW k \in 1 .. Len(s),
         Matches(s, r, k)
  PROVE  \E before, after : Parts(s, r, k, before, after)
  <1>1. PICK lhs, rhs : lhs = Rules[r].lhs /\ rhs = Rules[r].rhs
    OBVIOUS
  <1>2. /\ lhs \in Seq(Elements) /\ Len(lhs) \in Nat \ {0}
        /\ rhs \in Seq(Elements) /\ Len(rhs) \in Nat
        /\ Len(s) \in Nat /\ k \in Nat \ {0}
    BY <1>1, SidesAreScripts, LenProperties
  <1>3. k + Len(lhs) - 1 <= Len(s) /\ SubSeq(s, k, k + Len(lhs) - 1) = lhs
    BY <1>1 DEF Matches
  <1>4. PICK before, after : /\ before = SubSeq(s, 1, k - 1)
                             /\ after = SubSeq(s, k + Len(lhs), Len(s))
    OBVIOUS
  <1>5. \A m \in 1 .. Len(s) : s[m] \in Elements
    BY ElementOfSeq
  <1>6. /\ before \in Seq(Elements) /\ Len(before) = k - 1
        /\ \A m \in 1 .. k - 1 : before[m] = s[m]
    <2>1. 1 \in Int /\ k - 1 \in Int /\ \A m \in 1 .. k - 1 : s[m] \in Elements
      BY <1>2, <1>5
    <2>2. /\ SubSeq(s, 1, k - 1) \in Seq(Elements)
          /\ Len(SubSeq(s, 1, k - 1)) = IF 1 <= k - 1 THEN (k - 1) - 1 + 1 ELSE 0
          /\ \A m \in 1 .. (k - 1) - 1 + 1 : SubSeq(s, 1, k - 1)[m] = s[1 + m - 1]
      BY <2>1, SubSeqProperties
    <2> QED
      BY <1>2, <1>4, <2>2
  <1>7. /\ after \in Seq(Elements) /\ Len(after) = Len(s) - (k + Len(lhs)) + 1
        /\ \A m \in 1 .. Len(after) : after[m] = s[k + Len(lhs) + m - 1]
    <2>1. /\ k + Len(lhs) \in Int /\ Len(s) \in Int
          /\ \A m \in k + Len(lhs) .. Len(s) : s[m] \in Elements
      BY <1>2, <1>5
    <2>2. /\ SubSeq(s, k + Len(lhs), Len(s)) \in Seq(Elements)
          /\ Len(SubSeq(s, k + Len(lhs), Len(s)))
               = IF k + Len(lhs) <= Len(s) THEN Len(s) - (k + Len(lhs)) + 1 ELSE 0
          /\ \A m \in 1 .. Len(s) - (k + Len(lhs)) + 1 :
               SubSeq(s, k + Len(lhs), Len(s))[m] = s[k + Len(lhs) + m - 1]
      BY <2>1, SubSeqProperties
    <2>3. Len(after) = IF k + Len(lhs) <= Len(s) THEN Len(s) - (k + Len(lhs)) + 1 ELSE 0
      BY <1>4, <2>2
    <2>4. PICK length, taken, total : length = Len(after) /\ taken = Len(lhs) /\ total = Len(s)
      OBVIOUS
    <2>5. /\ k \in Nat /\ taken \in Nat /\ total \in Nat /\ k + taken - 1 <= total
          /\ length = IF k + taken <= total THEN total - (k + taken) + 1 ELSE 0
      BY <1>2, <1>3, <2>3, <2>4
    <2>6. length = total - (k + taken) + 1
      BY <2>5
    <2> QED
      BY <1>4, <2>2, <2>4, <2>6
  <1>8. \A m \in 1 .. Len(lhs) : lhs[m] = s[k + m - 1]
    <2>1. k \in Int /\ k + Len(lhs) - 1 \in Int
          /\ \A m \in k .. k + Len(lhs) - 1 : s[m] \in Elements
      BY <1>2, <1>3, <1>5
    <2>2. \A m \in 1 .. (k + Len(lhs) - 1) - k + 1 :
            SubSeq(s, k, k + Len(lhs) - 1)[m] = s[k + m - 1]
      BY <2>1, SubSeqProperties
    <2> QED
      BY <1>2, <1>3, <2>2
  <1>9. PICK rest : rest = lhs \o after
    OBVIOUS
  <1>10. /\ rest \in Seq(Elements) /\ Len(rest) = Len(lhs) + Len(after)
         /\ \A m \in 1 .. Len(lhs) + Len(after) :
              rest[m] = IF m <= Len(lhs) THEN lhs[m] ELSE after[m - Len(lhs)]
    BY <1>2, <1>7, <1>9, ConcatProperties
  <1>11. /\ before \o rest \in Seq(Elements)
         /\ Len(before \o rest) = Len(before) + Len(rest)
         /\ \A m \in 1 .. Len(before) + Len(rest) :
              (before \o rest)[m] = IF m <= Len(before) THEN before[m] ELSE rest[m - Len(before)]
    <2>1. before \in Seq(Elements) /\ rest \in Seq(Elements)
      BY <1>6, <1>10
    <2> QED
      BY <2>1, ConcatProperties
  <1>12. Len(before \o rest) = Len(s)
    BY <1>2, <1>6, <1>7, <1>10, <1>11
  <1>13. ASSUME NEW m \in 1 .. Len(s) PROVE s[m] = (before \o rest)[m]
    <2>1. m \in Nat /\ m <= Len(s) /\ m \in 1 .. Len(before) + Len(rest)
      BY <1>2, <1>11, <1>12
    <2>2. CASE m <= k - 1
      BY <1>2, <1>6, <1>11, <2>1, <2>2
    <2>3. CASE m > k - 1 /\ m - (k - 1) <= Len(lhs)
      <3>1. m - (k - 1) \in 1 .. Len(lhs)
        BY <1>2, <2>1, <2>3
      <3>2. (before \o rest)[m] = rest[m - (k - 1)]
        BY <1>2, <1>6, <1>11, <2>1, <2>3
      <3>3. m - (k - 1) \in 1 .. Len(lhs) + Len(after)
        BY <1>2, <1>3, <1>7, <3>1
      <3>4. rest[m - (k - 1)] = lhs[m - (k - 1)]
        BY <1>10, <2>3, <3>3
      <3>5. lhs[m - (k - 1)] = s[k + (m - (k - 1)) - 1]
        BY <1>8, <3>1
      <3> QED
        BY <1>2, <2>1, <3>2, <3>4, <3>5
    <2>4. CASE m > k - 1 /\ m - (k - 1) > Len(lhs)
      <3>1. m - (k - 1) \in 1 .. Len(lhs) + Len(after)
        BY <1>2, <1>3, <1>7, <2>1, <2>4
      <3>2. (before \o rest)[m] = rest[m - (k - 1)]
        BY <1>2, <1>6, <1>11, <2>1, <2>4
      <3>3. rest[m - (k - 1)] = after[m - (k - 1) - Len(lhs)]
        BY <1>2, <1>10, <2>4, <3>1
      <3>4. m - (k - 1) - Len(lhs) \in 1 .. Len(after)
        BY <1>2, <1>3, <1>7, <2>4, <3>1
      <3>5. after[m - (k - 1) - Len(lhs)] = s[k + Len(lhs) + (m - (k - 1) - Len(lhs)) - 1]
        BY <1>7, <3>4
      <3> QED
        BY <1>2, <2>1, <3>2, <3>3, <3>5
    <2> QED
      BY <1>2, <2>1, <2>2, <2>3, <2>4
  <1>14. s = before \o rest
    BY <1>11, <1>12, <1>13, SeqEqual
  <1>15. Replaced(s, r, k) = before \o (rhs \o after)
    <2>1. Replaced(s, r, k) = (before \o rhs) \o after
      BY <1>1, <1>4 DEF Replaced
    <2>2. before \in Seq(Elements) /\ rhs \in Seq(Elements) /\ after \in Seq(Elements)
      BY <1>2, <1>6, <1>7
    <2>3. (before \o rhs) \o after = before \o (rhs \o after)
      BY <2>2, Grouping, Zenon
    <2> QED
      BY <2>1, <2>3
  <1>16. Parts(s, r, k, before, after)
    BY <1>1, <1>6, <1>7, <1>9, <1>14, <1>15 DEF Parts
  <1> QED
    BY <1>16

-----------------------------------------------------------------------------
\* The places Untidy counts.
Places(s) == {k \in DOMAIN s : s[k] \in {"OVER", "NIP"}}

LEMMA PlacesFinite ==
  ASSUME NEW s \in Seq(Elements)
  PROVE  /\ IsFiniteSet(Places(s))
         /\ Untidy(s) = Cardinality(Places(s))
         /\ Untidy(s) \in Nat
         /\ Untidy(s) <= Len(s)
  <1>1. Len(s) \in Nat /\ DOMAIN s = 1 .. Len(s)
    BY LenProperties
  <1>2. IsFiniteSet(1 .. Len(s)) /\ Cardinality(1 .. Len(s)) = Len(s)
    BY <1>1, FS_Interval
  <1>3. Places(s) \in SUBSET (1 .. Len(s))
    BY <1>1 DEF Places
  <1>4. IsFiniteSet(Places(s)) /\ Cardinality(Places(s)) <= Cardinality(1 .. Len(s))
    BY <1>2, <1>3, FS_Subset
  <1>5. Cardinality(Places(s)) \in Nat
    BY <1>4, FS_CardinalityType
  <1>6. Untidy(s) = Cardinality(Places(s))
    BY DEF Untidy, Places
  <1> QED
    BY <1>2, <1>4, <1>5, <1>6

LEMMA UntidyOfBoth ==
  ASSUME NEW a \in Seq(Elements), NEW b \in Seq(Elements)
  PROVE  Untidy(a \o b) = Untidy(a) + Untidy(b)
  <1> DEFINE shifted == {k + Len(a) : k \in Places(b)}
             shift == [k \in Places(b) |-> k + Len(a)]
  <1>1. /\ Len(a) \in Nat /\ DOMAIN a = 1 .. Len(a)
        /\ Len(b) \in Nat /\ DOMAIN b = 1 .. Len(b)
    BY LenProperties
  <1>2. /\ a \o b \in Seq(Elements) /\ Len(a \o b) = Len(a) + Len(b)
        /\ \A k \in 1 .. Len(a) + Len(b) :
             (a \o b)[k] = IF k <= Len(a) THEN a[k] ELSE b[k - Len(a)]
    BY ConcatProperties
  <1>3. DOMAIN (a \o b) = 1 .. Len(a) + Len(b)
    BY <1>2, LenProperties
  <1>4. \A k \in Places(b) : k \in Nat \ {0}
    BY <1>1 DEF Places
  <1>5. shift \in Bijection(Places(b), shifted)
    <2>1. shift \in [Places(b) -> shifted]
      OBVIOUS
    <2>2. \A k, m \in Places(b) : shift[k] = shift[m] => k = m
      BY <1>1, <1>4
    <2>3. \A n \in shifted : \E k \in Places(b) : shift[k] = n
      OBVIOUS
    <2>4. shift \in Injection(Places(b), shifted)
      BY <2>1, <2>2 DEF Injection, IsInjective
    <2>5. shift \in Surjection(Places(b), shifted)
      BY <2>1, <2>3 DEF Surjection
    <2> QED
      BY <2>4, <2>5 DEF Bijection
  <1>6. IsFiniteSet(shifted) /\ Cardinality(shifted) = Cardinality(Places(b))
    <2>1. ExistsBijection(Places(b), shifted)
      BY <1>5 DEF ExistsBijection
    <2>2. IsFiniteSet(Places(b))
      BY PlacesFinite
    <2> HIDE DEF shifted
    <2> QED
      BY <2>1, <2>2, FS_Bijection
  <1>7. Places(a \o b) = Places(a) \cup shifted
    <2>1. ASSUME NEW k \in Places(a \o b) PROVE k \in Places(a) \cup shifted
      <3>1. k \in 1 .. Len(a) + Len(b) /\ (a \o b)[k] \in {"OVER", "NIP"}
        BY <1>3 DEF Places
      <3>2. CASE k <= Len(a)
        <4>1. k \in 1 .. Len(a) /\ (a \o b)[k] = a[k]
          BY <1>1, <1>2, <3>1, <3>2
        <4> QED
          BY <1>1, <3>1, <4>1 DEF Places
      <3>3. CASE k > Len(a)
        <4>1. /\ k - Len(a) \in 1 .. Len(b) /\ (a \o b)[k] = b[k - Len(a)]
              /\ k = (k - Len(a)) + Len(a)
          BY <1>1, <1>2, <3>1, <3>3
        <4>2. k - Len(a) \in Places(b)
          BY <1>1, <3>1, <4>1 DEF Places
        <4> QED
          BY <4>1, <4>2
      <3> QED
        BY <1>1, <3>1, <3>2, <3>3
    <2>2. ASSUME NEW k \in Places(a) PROVE k \in Places(a \o b)
      <3>1. k \in 1 .. Len(a) /\ a[k] \in {"OVER", "NIP"}
        BY <1>1 DEF Places
      <3>2. k \in 1 .. Len(a) + Len(b) /\ (a \o b)[k] = a[k]
        BY <1>1, <1>2, <3>1
      <3> QED
        BY <1>3, <3>1, <3>2 DEF Places
    <2>3. ASSUME NEW k \in Places(b) PROVE k + Len(a) \in Places(a \o b)
      <3>1. k \in 1 .. Len(b) /\ b[k] \in {"OVER", "NIP"}
        BY <1>1 DEF Places
      <3>2. k + Len(a) \in 1 .. Len(a) + Len(b) /\ ~(k + Len(a) <= Len(a))
            /\ (k + Len(a)) - Len(a) = k
        BY <1>1, <3>1
      <3>3. (a \o b)[k + Len(a)] = b[k]
        BY <1>2, <3>2
      <3> QED
        BY <1>3, <3>1, <3>2, <3>3 DEF Places
    <2> QED
      BY <2>1, <2>2, <2>3
  <1>8. Places(a) \cap shifted = {}
    <2>1. \A k \in Places(a) : k \in Nat /\ k <= Len(a)
      BY <1>1 DEF Places
    <2>2. \A k \in shifted : k \in Nat /\ k > Len(a)
      BY <1>1, <1>4
    <2> HIDE DEF shifted
    <2>3. ASSUME NEW k \in Places(a), k \in shifted PROVE FALSE
      BY <1>1, <2>1, <2>2, <2>3
    <2> QED
      BY <2>3
  <1> HIDE DEF shifted
  <1>9. /\ IsFiniteSet(Places(a)) /\ Untidy(a) = Cardinality(Places(a)) /\ Untidy(a) \in Nat
        /\ Untidy(b) = Cardinality(Places(b)) /\ Untidy(b) \in Nat
        /\ Untidy(a \o b) = Cardinality(Places(a \o b))
    BY <1>2, PlacesFinite
  <1>10. Cardinality(Places(a) \cup shifted)
           = Cardinality(Places(a)) + Cardinality(shifted) - Cardinality(Places(a) \cap shifted)
    BY <1>6, <1>9, FS_Union
  <1>11. Cardinality(Places(a) \cap shifted) = 0
    BY <1>8, FS_EmptySet
  <1> QED
    BY <1>6, <1>7, <1>9, <1>10, <1>11

LEMMA WeightType ==
  ASSUME NEW s \in Seq(Elements)
  PROVE  Weight(s) \in Nat /\ Weight(s) <= 3 * Len(s)
  <1>1. Len(s) \in Nat /\ Untidy(s) \in Nat /\ Untidy(s) <= Len(s)
    BY LenProperties, PlacesFinite
  <1> QED
    BY <1>1 DEF Weight

LEMMA WeightOfBoth ==
  ASSUME NEW a \in Seq(Elements), NEW b \in Seq(Elements)
  PROVE  Weight(a \o b) = Weight(a) + Weight(b)
  <1>1. /\ Len(a) \in Nat /\ Untidy(a) \in Nat /\ Len(b) \in Nat /\ Untidy(b) \in Nat
        /\ Len(a \o b) = Len(a) + Len(b)
    BY LenProperties, PlacesFinite, ConcatProperties
  <1>2. Untidy(a \o b) = Untidy(a) + Untidy(b)
    BY UntidyOfBoth
  <1> QED
    BY <1>1, <1>2 DEF Weight

\* A rewrite makes a script as much lighter as its rule says, and so by one at least.
LEMMA RewriteIsLighter ==
  ASSUME NEW s \in Seq(Elements), NEW r \in 1 .. Len(Rules), NEW k \in 1 .. Len(s),
         Matches(s, r, k)
  PROVE  Weight(Replaced(s, r, k)) + 1 <= Weight(s)
  <1>1. PICK before, after : Parts(s, r, k, before, after)
    BY ScriptParts
  <1>2. PICK lhs, rhs : lhs = Rules[r].lhs /\ rhs = Rules[r].rhs
    OBVIOUS
  <1>3. /\ lhs \in Seq(Elements) /\ rhs \in Seq(Elements)
        /\ before \in Seq(Elements) /\ after \in Seq(Elements)
    BY <1>1, <1>2, SidesAreScripts DEF Parts
  <1>4. lhs \o after \in Seq(Elements) /\ rhs \o after \in Seq(Elements)
    BY <1>3, ConcatProperties
  <1>5. /\ Weight(lhs \o after) = Weight(lhs) + Weight(after)
        /\ Weight(rhs \o after) = Weight(rhs) + Weight(after)
    BY <1>3, WeightOfBoth
  <1>6. /\ Weight(before \o (lhs \o after)) = Weight(before) + Weight(lhs \o after)
        /\ Weight(before \o (rhs \o after)) = Weight(before) + Weight(rhs \o after)
    BY <1>3, <1>4, WeightOfBoth
  <1>7. s = before \o (lhs \o after) /\ Replaced(s, r, k) = before \o (rhs \o after)
    BY <1>1, <1>2 DEF Parts
  <1>8. Weight(rhs) < Weight(lhs)
    <2>1. r \in DOMAIN Rules
      BY RulesAreRules DEF IsRule
    <2> QED
      BY <1>2, <2>1, RulesAssumption
  <1>9. /\ Weight(before) \in Nat /\ Weight(after) \in Nat
        /\ Weight(lhs) \in Nat /\ Weight(rhs) \in Nat
    BY <1>3, WeightType
  <1> QED
    BY <1>5, <1>6, <1>7, <1>8, <1>9

-----------------------------------------------------------------------------
\* A step that rewrites: what it does to the script.
LEMMA ReplaceRewrites ==
  ASSUME IInv, Replace
  PROVE  /\ rule \in 1 .. Len(Rules) /\ script \in Seq(Elements)
         /\ \E k \in 1 .. Len(script) :
              Matches(script, rule, k) /\ script' = Replaced(script, rule, k)
  <1>1. rule \in 1 .. Len(Rules) /\ script \in Seq(Elements)
    BY NumberOfRules DEF IInv, TypeOK, Replace
  <1>2. PICK k \in MatchesFrom(script, rule, position) : script' = Replaced(script, rule, k)
    BY DEF Replace
  <1>3. Len(script) \in Nat /\ position \in 1 .. Len(script) + 1
    BY DEF IInv, TypeOK
  <1>4. k \in 1 .. Len(script) /\ Matches(script, rule, k)
    BY <1>2, <1>3 DEF MatchesFrom
  <1> QED
    BY <1>1, <1>2, <1>4

\* The places of OVER and NIP, the length and the weight of a script are numbers.
LEMMA Measures ==
  ASSUME NEW s \in Seq(Elements)
  PROVE  Len(s) \in Nat /\ Untidy(s) \in Nat /\ Weight(s) = 2 * Len(s) + Untidy(s)
  BY LenProperties, PlacesFinite DEF Weight

\* Every replacement makes progress: the script gets shorter, or keeps its length and loses
\* an OP_OVER or an OP_NIP, wherever in it and in whatever order rules are applied.
THEOREM EveryRewriteProgressesAlways == Spec => EveryRewriteProgresses
  <1>1. ASSUME IInv, Replace
        PROVE  \/ Len(script') < Len(script)
               \/ Len(script') = Len(script) /\ Untidy(script') < Untidy(script)
    <2>1. /\ rule \in 1 .. Len(Rules) /\ script \in Seq(Elements)
          /\ \E k \in 1 .. Len(script) :
               Matches(script, rule, k) /\ script' = Replaced(script, rule, k)
      BY <1>1, ReplaceRewrites
    <2>2. PICK k \in 1 .. Len(script) :
            Matches(script, rule, k) /\ script' = Replaced(script, rule, k)
      BY <2>1
    <2>3. /\ script' \in Seq(Elements)
          /\ Len(script') = Len(script) - Len(Rules[rule].lhs) + Len(Rules[rule].rhs)
      BY <2>1, <2>2, ReplacedIsScript
    <2>4. Weight(script') + 1 <= Weight(script)
      BY <2>1, <2>2, RewriteIsLighter
    <2>5. /\ Len(Rules[rule].lhs) \in Nat /\ Len(Rules[rule].rhs) \in Nat
          /\ Len(Rules[rule].rhs) <= Len(Rules[rule].lhs)
      BY <2>1, SidesAreScripts
    <2>6. /\ Len(script) \in Nat /\ Untidy(script) \in Nat
          /\ Weight(script) = 2 * Len(script) + Untidy(script)
      BY <2>1, Measures
    <2>7. /\ Len(script') \in Nat /\ Untidy(script') \in Nat
          /\ Weight(script') = 2 * Len(script') + Untidy(script')
      BY <2>3, Measures
    <2>8. Len(script') <= Len(script)
      BY <2>3, <2>5, <2>6
    <2> QED
      BY <2>4, <2>6, <2>7, <2>8
  <1>2. IInv /\ [Next]_vars =>
          [Replace => \/ Len(script') < Len(script)
                      \/ Len(script') = Len(script) /\ Untidy(script') < Untidy(script)]_vars
    BY <1>1
  <1> QED
    BY Inductive, <1>2, PTL DEF Spec, EveryRewriteProgresses

-----------------------------------------------------------------------------
\* While it goes on, what a script weighs pays for the passes still to come: a pass that
\* changed something made it lighter.  When it ends, its last pass found nothing.
Paid ==
    /\ ~done => Weight(script) + i + (IF iterationChanged THEN 1 ELSE 0) <= 3 * Len(original)
    /\ done => NothingBelow(Len(Rules) + 1)

\* The argument, and what is known of it.
Given == original \in Scripts

PInv == IInv /\ Given /\ Paid

LEMMA InitPInv == Init => PInv
  <1> SUFFICES ASSUME Init PROVE PInv
    OBVIOUS
  <1>1. IInv
    BY InitIInv
  <1>2. original \in Seq(Elements)
    BY ScriptsAssumption DEF Init
  <1>3. script \in Seq(Elements) /\ Len(script) = Len(original)
    BY <1>2, CanonicalIsScript DEF Init
  <1>4. Weight(script) \in Nat /\ Weight(script) <= 3 * Len(script) /\ Len(original) \in Nat
    BY <1>2, <1>3, WeightType, LenProperties
  <1>5. i = 0 /\ iterationChanged = FALSE /\ done = FALSE
    BY DEF Init
  <1>6. Weight(script) + 0 + 0 <= 3 * Len(original)
    BY <1>3, <1>4
  <1>7. Paid
    BY <1>5, <1>6 DEF Paid
  <1> QED
    BY <1>1, <1>7 DEF PInv, Given, Init

LEMMA ReplacePInv == PInv /\ Replace => PInv'
  <1> SUFFICES ASSUME PInv, Replace PROVE PInv'
    OBVIOUS
  <1>1. IInv /\ IInv'
    BY ReplaceIInv DEF PInv
  <1>2. /\ rule \in 1 .. Len(Rules) /\ script \in Seq(Elements)
        /\ \E k \in 1 .. Len(script) :
             Matches(script, rule, k) /\ script' = Replaced(script, rule, k)
    BY <1>1, ReplaceRewrites
  <1>3. Weight(script') + 1 <= Weight(script)
    BY <1>2, RewriteIsLighter
  <1>4. script' \in Seq(Elements)
    BY <1>1 DEF IInv, TypeOK
  <1>5. Weight(script) \in Nat /\ Weight(script') \in Nat
    BY <1>2, <1>4, WeightType
  <1>6. original \in Seq(Elements) /\ Len(original) \in Nat /\ i \in Nat
    BY <1>1, LenProperties, ScriptsAssumption DEF IInv, TypeOK
  <1>7. ~done
    BY <1>1, <1>2, NumberOfRules DEF IInv, Scanned
  <1>8. /\ iterationChanged' = TRUE /\ done' = done /\ i' = i /\ original' = original
    BY DEF Replace
  <1>9. Weight(script) + i <= 3 * Len(original)
    BY <1>5, <1>6, <1>7 DEF PInv, Paid
  <1>10. Weight(script') + i + 1 <= 3 * Len(original)
    BY <1>3, <1>5, <1>6, <1>9
  <1>11. Paid'
    BY <1>7, <1>8, <1>10 DEF Paid
  <1> QED
    BY <1>1, <1>8, <1>11 DEF PInv, Given

LEMMA ToNextRulePInv == PInv /\ ToNextRule => PInv'
  <1> SUFFICES ASSUME PInv, ToNextRule PROVE PInv'
    OBVIOUS
  <1>1. IInv /\ IInv'
    BY ToNextRuleIInv DEF PInv
  <1>2. ~done
    BY <1>1, NumberOfRules DEF IInv, Scanned, ToNextRule
  <1>3. UNCHANGED <<original, script, iterationChanged, i, done>>
    BY DEF ToNextRule
  <1>4. Paid'
    BY <1>2, <1>3 DEF PInv, Paid
  <1> QED
    BY <1>1, <1>3, <1>4 DEF PInv, Given

LEMMA EndPassPInv == CapSuffices /\ PInv /\ EndPass => PInv'
  <1> SUFFICES ASSUME CapSuffices, PInv, EndPass PROVE PInv'
    OBVIOUS
  <1>1. IInv /\ IInv'
    BY EndPassIInv DEF PInv
  <1>2. ~done /\ rule = Len(Rules) + 1 /\ i' = i + 1
    BY DEF EndPass
  <1>3. iterationChanged' = FALSE /\ script' = script /\ original' = original
    BY DEF EndPass
  <1>4. i \in Nat /\ Runs \in Nat /\ iterationChanged \in BOOLEAN
    BY <1>1, ScriptsAssumption DEF IInv, TypeOK
  <1>5. Weight(script) \in Nat
    BY <1>1, WeightType DEF IInv, TypeOK
  <1>6. Len(original) \in Nat /\ 3 * Len(original) < Runs
    BY <1>1, LenProperties DEF PInv, Given, CapSuffices, IInv, TypeOK
  <1>7. CASE iterationChanged
    <2>1. Weight(script) + i + 1 <= 3 * Len(original)
      BY <1>2, <1>7 DEF PInv, Paid
    <2>2. Weight(script) + (i + 1) + 0 <= 3 * Len(original) /\ i + 1 # Runs
      BY <1>4, <1>5, <1>6, <2>1
    <2>3. ~done'
      BY <1>7, <2>2 DEF EndPass
    <2>4. Paid'
      BY <1>2, <1>3, <2>2, <2>3 DEF Paid
    <2> QED
      BY <1>1, <1>3, <2>4 DEF PInv, Given
  <1>8. CASE ~iterationChanged
    <2>1. done'
      BY <1>8 DEF EndPass
    <2>2. NothingBelow(Len(Rules) + 1)
      BY <1>1, <1>2, <1>8 DEF IInv, Scanned
    <2>3. NothingBelow(Len(Rules) + 1)'
      BY <1>3, <2>2 DEF NothingBelow, MatchesFrom, Matches
    <2>4. Paid'
      BY <2>1, <2>3 DEF Paid
    <2> QED
      BY <1>1, <1>3, <2>4 DEF PInv, Given
  <1> QED
    BY <1>4, <1>7, <1>8

LEMMA StutterPInv == PInv /\ UNCHANGED vars => PInv'
  <1> SUFFICES ASSUME PInv, UNCHANGED vars PROVE PInv'
    OBVIOUS
  <1>1. IInv'
    BY StutterIInv DEF PInv
  <1>2. UNCHANGED <<original, script, iterationChanged, i, done>>
    BY DEF vars
  <1>3. Paid'
    BY <1>2 DEF PInv, Paid, NothingBelow, MatchesFrom, Matches
  <1> QED
    BY <1>1, <1>2, <1>3 DEF PInv, Given

\* optimiseBytecode always ends by itself with nothing left to rewrite, for every script
\* less than a third as long as the cap on its passes: up to 333 elements with the code's
\* 1000.
THEOREM ReachesFixedPointAlways == ASSUME CapSuffices PROVE Spec => []ReachesFixedPoint
  <1>1. PInv /\ [Next]_vars => PInv'
    BY CapSuffices, ReplacePInv, ToNextRulePInv, EndPassPInv, StutterPInv DEF Next
  <1>2. PInv => ReachesFixedPoint
    <2> SUFFICES ASSUME PInv, done, NEW r \in DOMAIN Rules
                 PROVE  MatchesFrom(script, r, 1) = {}
      BY DEF ReachesFixedPoint
    <2>1. NothingBelow(Len(Rules) + 1)
      BY DEF PInv, Paid
    <2>2. r \in 1 .. (Len(Rules) + 1) - 1
      BY ParsedRules, NumberOfRules
    <2> QED
      BY <2>1, <2>2 DEF NothingBelow
  <1> QED
    BY InitPInv, <1>1, <1>2, PTL DEF Spec

-----------------------------------------------------------------------------
\* Where the elements of three parts are in the whole.
Joined(whole, a, b, c) ==
    /\ whole \in Seq(Elements) /\ Len(whole) = Len(a) + Len(b) + Len(c)
    /\ \A m \in 1 .. Len(a) : whole[m] = a[m]
    /\ \A m \in 1 .. Len(b) : whole[Len(a) + m] = b[m]
    /\ \A m \in 1 .. Len(c) : whole[Len(a) + Len(b) + m] = c[m]

LEMMA ElementsOfParts ==
  ASSUME NEW a \in Seq(Elements), NEW b \in Seq(Elements), NEW c \in Seq(Elements)
  PROVE  Joined(a \o (b \o c), a, b, c)
  <1>0. PICK whole : whole = a \o (b \o c)
    OBVIOUS
  <1>1. PICK rest : rest = b \o c
    OBVIOUS
  <1>2. /\ rest \in Seq(Elements) /\ Len(rest) = Len(b) + Len(c)
        /\ \A m \in 1 .. Len(b) + Len(c) : rest[m] = IF m <= Len(b) THEN b[m] ELSE c[m - Len(b)]
    BY <1>1, ConcatProperties
  <1>3. /\ whole \in Seq(Elements) /\ Len(whole) = Len(a) + Len(rest)
        /\ \A m \in 1 .. Len(a) + Len(rest) :
             whole[m] = IF m <= Len(a) THEN a[m] ELSE rest[m - Len(a)]
    BY <1>0, <1>1, <1>2, ConcatProperties
  <1>4. Len(a) \in Nat /\ Len(b) \in Nat /\ Len(c) \in Nat
    BY LenProperties
  <1>5. Len(whole) = Len(a) + Len(b) + Len(c)
    BY <1>2, <1>3, <1>4
  <1>6. ASSUME NEW m \in 1 .. Len(a) PROVE whole[m] = a[m]
    <2>1. m \in 1 .. Len(a) + Len(rest) /\ m <= Len(a)
      BY <1>2, <1>4
    <2> QED
      BY <1>3, <2>1
  <1>7. ASSUME NEW m \in 1 .. Len(b) PROVE whole[Len(a) + m] = b[m]
    <2>1. /\ Len(a) + m \in 1 .. Len(a) + Len(rest) /\ ~(Len(a) + m <= Len(a))
          /\ (Len(a) + m) - Len(a) = m
          /\ m \in 1 .. Len(b) + Len(c) /\ m <= Len(b)
      BY <1>2, <1>4
    <2>2. whole[Len(a) + m] = rest[m]
      BY <1>3, <2>1
    <2> QED
      BY <1>2, <2>1, <2>2
  <1>8. ASSUME NEW m \in 1 .. Len(c) PROVE whole[Len(a) + Len(b) + m] = c[m]
    <2>1. /\ Len(a) + Len(b) + m \in 1 .. Len(a) + Len(rest)
          /\ ~(Len(a) + Len(b) + m <= Len(a))
          /\ (Len(a) + Len(b) + m) - Len(a) = Len(b) + m
          /\ Len(b) + m \in 1 .. Len(b) + Len(c) /\ ~(Len(b) + m <= Len(b))
          /\ (Len(b) + m) - Len(b) = m
      BY <1>2, <1>4
    <2>2. whole[Len(a) + Len(b) + m] = rest[Len(b) + m]
      BY <1>3, <2>1
    <2>3. rest[Len(b) + m] = c[m]
      BY <1>2, <2>1
    <2> QED
      BY <2>2, <2>3
  <1> QED
    BY <1>0, <1>3, <1>5, <1>6, <1>7, <1>8 DEF Joined

\* Each inline opcode of s is followed by what it reads.
Followed(s) == \A k \in DOMAIN s : s[k] \in Inline => k < Len(s) /\ s[k + 1] \in Data

LEMMA CanonicalFollowed ==
  ASSUME NEW s \in Scripts PROVE Followed(canonicaliseScript(s))
  <1> DEFINE each == [k \in 1 .. Len(s) |-> IF s[k] = "0x" THEN "0" ELSE s[k]]
  <1>1. s \in Seq(Elements) /\ Len(s) \in Nat /\ DOMAIN s = 1 .. Len(s)
    BY ScriptsAssumption, LenProperties
  <1>2. PICK c : c = canonicaliseScript(s)
    OBVIOUS
  <1>3. c \in Seq(Elements) /\ Len(c) = Len(s) /\ DOMAIN c = 1 .. Len(s)
    BY <1>1, <1>2, CanonicalIsScript, LenProperties
  <1>4. \A k \in 1 .. Len(s) : c[k] = IF s[k] = "0x" THEN "0" ELSE s[k]
    <2>1. \A k \in 1 .. Len(s) : each[k] \in Elements
      <3>1. "0" \in Elements /\ \A k \in 1 .. Len(s) : s[k] \in Elements
        BY <1>1, ElementOfSeq, ScriptsAssumption DEF Elements
      <3> QED
        BY <3>1
    <2>2. \A k \in 1 .. Len(s) : each[k] = IF s[k] = "0x" THEN "0" ELSE s[k]
      OBVIOUS
    <2>3. c = SubSeq(each, 1, Len(s))
      BY <1>2 DEF canonicaliseScript
    <2> HIDE DEF each
    <2>4. \A k \in 1 .. Len(s) - 1 + 1 : SubSeq(each, 1, Len(s))[k] = each[1 + k - 1]
      <3>1. 1 \in Int /\ Len(s) \in Int
        BY <1>1
      <3> QED
        BY <2>1, <3>1, SubSeqProperties
    <2>5. ASSUME NEW k \in 1 .. Len(s) PROVE c[k] = each[k]
      <3>1. k \in 1 .. Len(s) - 1 + 1 /\ 1 + k - 1 = k
        BY <1>1
      <3> QED
        BY <2>3, <2>4, <3>1
    <2> QED
      BY <2>2, <2>5
  <1>5. ASSUME NEW k \in DOMAIN c, c[k] \in Inline PROVE k < Len(c) /\ c[k + 1] \in Data
    <2>1. k \in 1 .. Len(s) /\ s[k] \in Inline
      BY <1>3, <1>4, <1>5 DEF Inline
    <2>2. k < Len(s) /\ s[k + 1] \in Data \ {"0x"}
      BY <1>1, <2>1, OperandsAssumption
    <2>3. k + 1 \in 1 .. Len(s)
      BY <1>1, <2>1, <2>2
    <2>4. c[k + 1] = s[k + 1]
      BY <1>4, <2>2, <2>3
    <2> QED
      BY <1>3, <2>2, <2>4
  <1> QED
    BY <1>2, <1>5 DEF Followed

LEMMA RewriteFollowed ==
  ASSUME NEW s \in Seq(Elements), NEW r \in 1 .. Len(Rules), NEW k \in 1 .. Len(s),
         Matches(s, r, k), Followed(s)
  PROVE  Followed(Replaced(s, r, k))
  <1>1. PICK before, after : Parts(s, r, k, before, after)
    BY ScriptParts
  <1>2. PICK lhs, rhs, next : lhs = Rules[r].lhs /\ rhs = Rules[r].rhs /\ next = Replaced(s, r, k)
    OBVIOUS
  <1>3. /\ before \in Seq(Elements) /\ after \in Seq(Elements)
        /\ lhs \in Seq(Elements) /\ rhs \in Seq(Elements)
        /\ s = before \o (lhs \o after) /\ next = before \o (rhs \o after)
    BY <1>1, <1>2, SidesAreScripts DEF Parts
  <1>4. /\ Len(before) \in Nat /\ Len(after) \in Nat /\ Len(lhs) \in Nat \ {0} /\ Len(rhs) \in Nat
        /\ DOMAIN lhs = 1 .. Len(lhs) /\ DOMAIN rhs = 1 .. Len(rhs)
    BY <1>2, <1>3, SidesAreScripts, LenProperties
  <1>5. /\ DOMAIN s = 1 .. Len(s) /\ Len(s) = Len(before) + Len(lhs) + Len(after)
        /\ \A m \in 1 .. Len(before) : s[m] = before[m]
        /\ \A m \in 1 .. Len(lhs) : s[Len(before) + m] = lhs[m]
        /\ \A m \in 1 .. Len(after) : s[Len(before) + Len(lhs) + m] = after[m]
    <2>1. Joined(s, before, lhs, after)
      BY <1>3, ElementsOfParts, Zenon
    <2> QED
      BY <2>1, LenProperties DEF Joined
  <1>6. /\ next \in Seq(Elements) /\ Len(next) = Len(before) + Len(rhs) + Len(after)
        /\ \A m \in 1 .. Len(before) : next[m] = before[m]
        /\ \A m \in 1 .. Len(rhs) : next[Len(before) + m] = rhs[m]
        /\ \A m \in 1 .. Len(after) : next[Len(before) + Len(rhs) + m] = after[m]
    <2>1. Joined(next, before, rhs, after)
      BY <1>3, ElementsOfParts, Zenon
    <2> QED
      BY <2>1 DEF Joined
  <1>7. DOMAIN next = 1 .. Len(next)
    BY <1>6, LenProperties
  <1>8. lhs[1] \notin Data /\ \A m \in 1 .. Len(rhs) : rhs[m] \notin Inline
    <2>1. r \in DOMAIN Rules /\ lhs \in Seq(Opcodes)
      BY <1>2, RulesAreRules DEF IsRule
    <2>2. 1 \in 1 .. Len(lhs)
      BY <1>4
    <2>3. lhs[1] \in Opcodes
      BY <2>1, <2>2, ElementOfSeq
    <2>4. \A m \in DOMAIN rhs : rhs[m] \notin Inline
      BY <1>2, <2>1, RulesAssumption
    <2> QED
      BY <1>4, <2>3, <2>4, ScriptsAssumption
  <1>9. ASSUME NEW n \in DOMAIN next, next[n] \in Inline
        PROVE  n < Len(next) /\ next[n + 1] \in Data
    <2>1. n \in Nat \ {0} /\ n <= Len(before) + Len(rhs) + Len(after)
      BY <1>4, <1>6, <1>7
    <2>2. CASE n < Len(before)
      <3>1. n \in 1 .. Len(before) /\ n + 1 \in 1 .. Len(before) /\ n \in 1 .. Len(s)
        BY <1>4, <1>5, <2>1, <2>2
      <3>2. s[n] = next[n] /\ s[n + 1] = next[n + 1]
        BY <1>5, <1>6, <3>1
      <3>3. s[n + 1] \in Data
        BY <1>5, <1>9, <3>1, <3>2 DEF Followed
      <3>4. n < Len(next)
        BY <1>4, <1>6, <2>1, <2>2
      <3> QED
        BY <3>2, <3>3, <3>4
    <2>3. CASE n = Len(before)
      <3>1. n \in 1 .. Len(before) /\ n \in 1 .. Len(s) /\ 1 \in 1 .. Len(lhs)
        BY <1>4, <1>5, <2>1, <2>3
      <3>2. s[n] = next[n] /\ s[n + 1] = lhs[1]
        BY <1>5, <1>6, <2>3, <3>1
      <3>3. s[n + 1] \in Data
        BY <1>5, <1>9, <3>1, <3>2 DEF Followed
      <3> QED
        BY <1>8, <3>2, <3>3
    <2>4. CASE n > Len(before) /\ n <= Len(before) + Len(rhs)
      <3>1. n - Len(before) \in 1 .. Len(rhs) /\ Len(before) + (n - Len(before)) = n
        BY <1>4, <2>1, <2>4
      <3>2. next[n] = rhs[n - Len(before)]
        BY <1>6, <3>1
      <3> QED
        BY <1>8, <1>9, <3>1, <3>2
    <2>5. CASE n > Len(before) + Len(rhs)
      <3>1. PICK a, b, c : a = Len(before) /\ b = Len(rhs) /\ c = Len(after)
        OBVIOUS
      <3>2. a \in Nat /\ b \in Nat /\ c \in Nat /\ n \in Nat /\ n > a + b /\ n <= a + b + c
        BY <1>4, <2>1, <2>5, <3>1
      <3>3. PICK m \in 1 .. c : n = a + b + m
        <4>1. n - (a + b) \in 1 .. c /\ n = a + b + (n - (a + b))
          BY <3>2
        <4> QED
          BY <4>1
      <3>4. m \in 1 .. Len(after) /\ n = Len(before) + Len(rhs) + m
        BY <3>1, <3>3
      <3>5. PICK place : place = Len(before) + Len(lhs) + m
        OBVIOUS
      <3>6. place \in 1 .. Len(s)
        BY <1>4, <1>5, <3>4, <3>5
      <3>7. s[place] = after[m] /\ next[n] = after[m]
        BY <1>5, <1>6, <3>4, <3>5
      <3>8. place < Len(s) /\ s[place + 1] \in Data
        BY <1>5, <1>9, <3>6, <3>7 DEF Followed
      <3>9. /\ m + 1 \in 1 .. Len(after) /\ place + 1 = Len(before) + Len(lhs) + (m + 1)
            /\ n + 1 = Len(before) + Len(rhs) + (m + 1) /\ n < Len(next)
        BY <1>4, <1>5, <1>6, <3>4, <3>5, <3>8
      <3>10. s[place + 1] = after[m + 1] /\ next[n + 1] = after[m + 1]
        <4>1. PICK following \in 1 .. Len(after) : following = m + 1
          BY <3>9
        <4>2. /\ s[Len(before) + Len(lhs) + following] = after[following]
              /\ next[Len(before) + Len(rhs) + following] = after[following]
          BY <1>5, <1>6
        <4> QED
          BY <3>9, <4>1, <4>2
      <3> QED
        BY <3>8, <3>9, <3>10
    <2> QED
      BY <1>4, <2>1, <2>2, <2>3, <2>4, <2>5
  <1> QED
    BY <1>2, <1>9 DEF Followed

\* The operand of a reference operation or of a placeholder stays behind it: no rewrite
\* ends between the two, takes one without the other or puts something in between.
THEOREM OperandsFollowAlways == Spec => []OperandsFollow
  <1>1. Init => OperandsFollow
    BY CanonicalFollowed DEF Init, OperandsFollow, Followed
  <1>2. ASSUME IInv, OperandsFollow, Replace PROVE OperandsFollow'
    <2>1. /\ rule \in 1 .. Len(Rules) /\ script \in Seq(Elements)
          /\ \E k \in 1 .. Len(script) :
               Matches(script, rule, k) /\ script' = Replaced(script, rule, k)
      BY <1>2, ReplaceRewrites
    <2>2. Followed(script)
      BY <1>2 DEF OperandsFollow, Followed
    <2>3. Followed(script')
      BY <2>1, <2>2, RewriteFollowed
    <2> QED
      BY <2>3 DEF OperandsFollow, Followed
  <1>3. IInv /\ OperandsFollow /\ [Next]_vars => OperandsFollow'
    <2>1. UNCHANGED script /\ OperandsFollow => OperandsFollow'
      BY DEF OperandsFollow
    <2> QED
      BY <1>2, <2>1 DEF Next, ToNextRule, EndPass, vars
  <1> QED
    BY Inductive, <1>1, <1>3, PTL DEF Spec
=============================================================================
