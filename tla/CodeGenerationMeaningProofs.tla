---------------------- MODULE CodeGenerationMeaningProofs ----------------------
(***************************************************************************)
(* Theorems about the code generator and the values it works on: every     *)
(* slot of a variable that is still mentioned holds the value of the       *)
(* variable, and each operator computes with the values it should have.    *)
(***************************************************************************)
EXTENDS CodeGenerationProofs

-----------------------------------------------------------------------------
(* What an operation does to the values.                                   *)

\* One value more on the main stack, and nothing else.
OneMore(next, m, n, x) ==
    /\ next.main[1] = x /\ \A i \in 1 .. n : next.main[i + 1] = m.main[i]
    /\ next.alt = m.alt /\ next.operands = m.operands

LEMMA PushEffect ==
  ASSUME NEW S, NEW m, NEW n \in Nat, NEW k, Sized(m, S, n, k), NEW x \in S,
         NEW next, next = Exec(m, <<"PUSH", <<x>>>>)
  PROVE  Sized(next, S, 1 + n, k) /\ OneMore(next, m, n, x)
  <1>1. m.main \in Seq(S) /\ Len(m.main) = n
    BY DEF Sized, MachinesOf
  <1>2. next = [m EXCEPT !.main = <<x>> \o m.main]
    BY DEF Exec
  <1>3. next.main = <<x>> \o m.main /\ next.alt = m.alt /\ next.operands = m.operands
    BY <1>2 DEF Sized, MachinesOf
  <1>4. <<x>> \in Seq(S) /\ Len(<<x>>) = 1
    OBVIOUS
  <1>5. Sized(next, S, 1 + n, k)
    BY <1>4, ExecPush
  <1>6. (<<x>> \o m.main)[1] = x /\ \A i \in 1 .. n : (<<x>> \o m.main)[i + 1] = m.main[i]
    BY <1>1, PushedType
  <1> QED
    BY <1>3, <1>5, <1>6 DEF OneMore

LEMMA PickEffect ==
  ASSUME NEW S, Missing \in S, NEW m, NEW n \in Nat, NEW k, Sized(m, S, n, k), NEW depth \in Nat,
         depth < n, NEW next, next = Exec(m, <<"PICK", depth>>)
  PROVE  Sized(next, S, 1 + n, k) /\ OneMore(next, m, n, m.main[depth + 1])
  <1>1. m.main \in Seq(S) /\ Len(m.main) = n
    BY DEF Sized, MachinesOf
  <1>2. At(m.main, depth) = m.main[depth + 1] /\ At(m.main, depth) \in S
    BY <1>1, AtType DEF At
  <1>3. next = [m EXCEPT !.main = <<m.main[depth + 1]>> \o m.main]
    BY <1>2 DEF Exec
  <1>4. /\ next.main = <<m.main[depth + 1]>> \o m.main
        /\ next.alt = m.alt /\ next.operands = m.operands
    BY <1>3 DEF Sized, MachinesOf
  <1>5. Sized(next, S, 1 + n, k)
    BY ExecPick
  <1>6. PICK x \in S : x = m.main[depth + 1]
    BY <1>2
  <1>7. (<<x>> \o m.main)[1] = x /\ \A i \in 1 .. n : (<<x>> \o m.main)[i + 1] = m.main[i]
    BY <1>1, PushedType
  <1> QED
    BY <1>4, <1>5, <1>6, <1>7 DEF OneMore

\* A value comes to the top.
Raised(next, m, n, depth) ==
    /\ next.main[1] = m.main[depth + 1]
    /\ \A i \in 1 .. depth : next.main[i + 1] = m.main[i]
    /\ \A i \in depth + 2 .. n : next.main[i] = m.main[i]
    /\ next.alt = m.alt /\ next.operands = m.operands

LEMMA RollEffect ==
  ASSUME NEW S, Missing \in S, NEW m, NEW n \in Nat, NEW k, Sized(m, S, n, k), NEW depth \in Nat,
         depth < n, NEW next, next = Exec(m, <<"ROLL", depth>>)
  PROVE  Sized(next, S, n, k) /\ Raised(next, m, n, depth)
  <1>1. m.main \in Seq(S) /\ Len(m.main) = n
    BY DEF Sized, MachinesOf
  <1>2. At(m.main, depth) = m.main[depth + 1] /\ At(m.main, depth) \in S
    BY <1>1, AtType DEF At
  <1>3. PICK rest : rest = Without(m.main, depth)
    OBVIOUS
  <1>4. /\ rest \in Seq(S) /\ Len(rest) = n - 1
        /\ \A i \in 1 .. n - 1 : rest[i] = IF i <= depth THEN m.main[i] ELSE m.main[i + 1]
    <2>1. PICK s \in Seq(S) : s = m.main /\ Len(s) = n
      BY <1>1
    <2>2. Without(s, depth) \in Seq(S) /\ Len(Without(s, depth)) = Len(s) - 1
      BY <2>1, WithoutType
    <2>3. \A i \in 1 .. Len(s) - 1 : Without(s, depth)[i] = IF i <= depth THEN s[i] ELSE s[i + 1]
      BY <2>1, SlotsAfterRemoval
    <2> QED
      BY <1>3, <2>1, <2>2, <2>3
  <1>5. next = [m EXCEPT !.main = <<m.main[depth + 1]>> \o rest]
    BY <1>2, <1>3 DEF Exec
  <1>6. /\ next.main = <<m.main[depth + 1]>> \o rest
        /\ next.alt = m.alt /\ next.operands = m.operands
    BY <1>5 DEF Sized, MachinesOf
  <1>7. next.main[1] = m.main[depth + 1] /\ \A i \in 1 .. n - 1 : next.main[i + 1] = rest[i]
    <2>1. PICK x \in S : x = m.main[depth + 1]
      BY <1>2
    <2>2. (<<x>> \o rest)[1] = x /\ \A i \in 1 .. n - 1 : (<<x>> \o rest)[i + 1] = rest[i]
      BY <1>4, PushedType
    <2> QED
      BY <1>6, <2>1, <2>2
  <1>8. ASSUME NEW i \in 1 .. depth PROVE next.main[i + 1] = m.main[i]
    <2>1. i \in 1 .. n - 1 /\ i <= depth
      OBVIOUS
    <2> QED
      BY <1>4, <1>7, <2>1
  <1>9. ASSUME NEW i \in depth + 2 .. n PROVE next.main[i] = m.main[i]
    <2>1. PICK h \in Nat : i = h + 1
      BY <1>9
    <2>2. h \in 1 .. n - 1 /\ ~(h <= depth)
      BY <1>9, <2>1
    <2> QED
      BY <1>4, <1>7, <2>1, <2>2
  <1>10. Sized(next, S, n, k)
    BY ExecRoll
  <1> QED
    BY <1>6, <1>7, <1>8, <1>9, <1>10 DEF Raised

\* The value on top goes.
OneLess(next, m, n) ==
    /\ \A i \in 1 .. n - 1 : next.main[i] = m.main[i + 1]
    /\ next.alt = m.alt /\ next.operands = m.operands

LEMMA DropEffect ==
  ASSUME NEW S, NEW m, NEW n \in Nat \ {0}, NEW k, Sized(m, S, n, k),
         NEW next, next = Exec(m, <<"DROP">>)
  PROVE  Sized(next, S, n - 1, k) /\ OneLess(next, m, n)
  <1>1. m.main \in Seq(S) /\ Len(m.main) = n
    BY DEF Sized, MachinesOf
  <1>2. next = [m EXCEPT !.main = Without(m.main, 0)]
    BY DEF Exec
  <1>3. next.main = Without(m.main, 0) /\ next.alt = m.alt /\ next.operands = m.operands
    BY <1>2 DEF Sized, MachinesOf
  <1>4. \A i \in 1 .. n - 1 : next.main[i] = m.main[i + 1]
    BY <1>1, <1>3, SlotsAfterRemoval
  <1>5. Sized(next, S, n - 1, k)
    BY ExecDrop
  <1> QED
    BY <1>3, <1>4, <1>5 DEF OneLess

\* Results take the place of the operands.
Yields(next, m, n, arity, results, r) ==
    /\ \A i \in 1 .. r : next.main[i] = results[i]
    /\ \A i \in 1 .. n - arity : next.main[r + i] = m.main[arity + i]
    /\ next.alt = m.alt
    /\ next.operands = [i \in 1 .. arity |-> m.main[arity - i + 1]]

LEMMA ComputeEffect ==
  ASSUME NEW S, Missing \in S, NEW m, NEW n \in Nat, NEW k, Sized(m, S, n, k),
         NEW arity \in Nat, arity <= n, NEW results \in Seq(S), NEW r, r = Len(results),
         NEW next, next = Exec(m, <<"COMPUTE", arity, results>>)
  PROVE  Sized(next, S, r + (n - arity), k) /\ Yields(next, m, n, arity, results, r)
  <1>1. m.main \in Seq(S) /\ Len(m.main) = n
    BY DEF Sized, MachinesOf
  <1>2. PICK rest : rest = From(m.main, arity)
    OBVIOUS
  <1>3. /\ rest \in Seq(S) /\ Len(rest) = n - arity
        /\ \A i \in 1 .. n - arity : rest[i] = m.main[arity + i]
    BY <1>1, <1>2, SlotsBehind
  <1>4. next = [m EXCEPT !.main = results \o rest,
                         !.operands = [i \in 1 .. arity |-> At(m.main, arity - i)]]
    BY <1>2 DEF Exec
  <1>5. /\ next.main = results \o rest /\ next.alt = m.alt
        /\ next.operands = [i \in 1 .. arity |-> At(m.main, arity - i)]
    BY <1>4 DEF Sized, MachinesOf
  <1>6. ASSUME NEW i \in 1 .. arity PROVE At(m.main, arity - i) = m.main[arity - i + 1]
    <2>1. arity - i < Len(m.main)
      BY <1>1
    <2> QED
      BY <2>1 DEF At
  <1>7. /\ \A i \in 1 .. r : next.main[i] = results[i]
        /\ \A i \in 1 .. n - arity : next.main[r + i] = rest[i]
    <2>1. PICK e : e = n - arity
      OBVIOUS
    <2>2. Len(rest) = e
      BY <1>3, <2>1
    <2>3. /\ \A i \in 1 .. r : (results \o rest)[i] = results[i]
          /\ \A i \in 1 .. e : (results \o rest)[r + i] = rest[i]
      BY <1>3, <2>2, JoinedSlots
    <2> QED
      BY <1>5, <2>1, <2>3
  <1>8. Sized(next, S, r + (n - arity), k)
    BY ExecCompute
  <1> QED
    BY <1>3, <1>5, <1>6, <1>7, <1>8 DEF Yields

LEMMA SwapEffect ==
  ASSUME NEW S, Missing \in S, NEW m, NEW n \in Nat, NEW k, Sized(m, S, n, k), n >= 2,
         NEW next, next = Exec(m, <<"SWAP">>)
  PROVE  /\ Sized(next, S, n, k) /\ next.main[1] = m.main[2] /\ next.main[2] = m.main[1]
         /\ \A i \in 3 .. n : next.main[i] = m.main[i]
         /\ next.alt = m.alt /\ next.operands = m.operands
  <1>1. m.main \in Seq(S) /\ Len(m.main) = n
    BY DEF Sized, MachinesOf
  <1>2. PICK rest : rest = From(m.main, 2)
    OBVIOUS
  <1>3. /\ rest \in Seq(S) /\ Len(rest) = n - 2
        /\ \A i \in 1 .. n - 2 : rest[i] = m.main[2 + i]
    <2>1. PICK two \in Nat : two = 2
      OBVIOUS
    <2>2. two <= Len(m.main)
      BY <1>1, <2>1
    <2>3. /\ From(m.main, two) \in Seq(S) /\ Len(From(m.main, two)) = Len(m.main) - two
          /\ \A i \in 1 .. Len(m.main) - two : From(m.main, two)[i] = m.main[two + i]
      BY <1>1, <2>2, SlotsBehind
    <2> QED
      BY <1>1, <1>2, <2>1, <2>3
  <1>4. At(m.main, 1) = m.main[2] /\ At(m.main, 0) = m.main[1]
    BY <1>1 DEF At
  <1>5. PICK x, y : x = m.main[2] /\ y = m.main[1]
    OBVIOUS
  <1>6. x \in S /\ y \in S
    BY <1>1, <1>5
  <1>7. next = [m EXCEPT !.main = <<x, y>> \o rest]
    BY <1>2, <1>4, <1>5 DEF Exec
  <1>8. next.main = <<x, y>> \o rest /\ next.alt = m.alt /\ next.operands = m.operands
    BY <1>7 DEF Sized, MachinesOf
  <1>9. <<x, y>> \in Seq(S) /\ Len(<<x, y>>) = 2 /\ <<x, y>>[1] = x /\ <<x, y>>[2] = y
    BY <1>6
  <1>10. PICK two \in Seq(S) : two = <<x, y>> /\ Len(two) = 2 /\ two[1] = x /\ two[2] = y
    BY <1>9
  <1>11. /\ \A i \in 1 .. 2 : next.main[i] = two[i]
         /\ \A i \in 1 .. n - 2 : next.main[2 + i] = rest[i]
    BY <1>3, <1>8, <1>10, JoinedSlots
  <1>12. ASSUME NEW i \in 3 .. n PROVE next.main[i] = m.main[i]
    <2>1. PICK h \in Nat : i = 2 + h
      BY <1>12
    <2>2. h \in 1 .. n - 2
      BY <1>12, <2>1
    <2> QED
      BY <1>3, <1>11, <2>1, <2>2
  <1>13. Sized(next, S, n, k)
    BY ExecSwap
  <1> QED
    BY <1>5, <1>8, <1>10, <1>11, <1>12, <1>13

LEMMA ToAltEffect ==
  ASSUME NEW S, Missing \in S, NEW m, NEW n \in Nat \ {0}, NEW k \in Nat, Sized(m, S, n, k),
         NEW next, next = Exec(m, <<"TOALTSTACK">>)
  PROVE  /\ Sized(next, S, n - 1, k + 1)
         /\ \A i \in 1 .. n - 1 : next.main[i] = m.main[i + 1]
         /\ next.alt[1] = m.main[1] /\ \A i \in 1 .. k : next.alt[i + 1] = m.alt[i]
         /\ next.operands = m.operands
  <1>1. m.main \in Seq(S) /\ Len(m.main) = n /\ m.alt \in Seq(S) /\ Len(m.alt) = k
    BY DEF Sized, MachinesOf
  <1>2. At(m.main, 0) = m.main[1]
    BY <1>1 DEF At
  <1>3. PICK x \in S : x = m.main[1]
    BY <1>1
  <1>4. next = [m EXCEPT !.main = Without(m.main, 0), !.alt = <<x>> \o m.alt]
    BY <1>2, <1>3 DEF Exec
  <1>5. /\ next.main = Without(m.main, 0) /\ next.alt = <<x>> \o m.alt
        /\ next.operands = m.operands
    BY <1>4 DEF Sized, MachinesOf
  <1>6. \A i \in 1 .. n - 1 : next.main[i] = m.main[i + 1]
    <2>1. PICK s \in Seq(S), z \in Nat : s = m.main /\ z = 0 /\ Len(s) = n
      BY <1>1
    <2>2. z < Len(s)
      BY <2>1
    <2>3. \A i \in 1 .. Len(s) - 1 : Without(s, z)[i] = IF i <= z THEN s[i] ELSE s[i + 1]
      BY ONLY <2>2, s \in Seq(S), z \in Nat, SlotsAfterRemoval
    <2>4. \A i \in 1 .. Len(s) - 1 : ~(i <= z)
      BY <2>1
    <2> QED
      BY <1>5, <2>1, <2>3, <2>4
  <1>7. (<<x>> \o m.alt)[1] = x /\ \A i \in 1 .. k : (<<x>> \o m.alt)[i + 1] = m.alt[i]
    BY <1>1, PushedType
  <1>8. Sized(next, S, n - 1, k + 1)
    <2>1. Sized(next, S, n - 1, 1 + k) /\ 1 + k = k + 1
      BY ExecToAlt
    <2> QED
      BY <2>1
  <1> QED
    BY <1>3, <1>5, <1>6, <1>7, <1>8

LEMMA FromAltEffect ==
  ASSUME NEW S, Missing \in S, NEW m, NEW n \in Nat, NEW k \in Nat \ {0}, Sized(m, S, n, k),
         NEW next, next = Exec(m, <<"FROMALTSTACK">>)
  PROVE  /\ Sized(next, S, n + 1, k - 1)
         /\ next.main[1] = m.alt[1] /\ \A i \in 1 .. n : next.main[i + 1] = m.main[i]
         /\ \A i \in 1 .. k - 1 : next.alt[i] = m.alt[i + 1]
         /\ next.operands = m.operands
  <1>1. m.main \in Seq(S) /\ Len(m.main) = n /\ m.alt \in Seq(S) /\ Len(m.alt) = k
    BY DEF Sized, MachinesOf
  <1>2. At(m.alt, 0) = m.alt[1]
    BY <1>1 DEF At
  <1>3. PICK x \in S : x = m.alt[1]
    BY <1>1
  <1>4. next = [m EXCEPT !.main = <<x>> \o m.main, !.alt = Without(m.alt, 0)]
    BY <1>2, <1>3 DEF Exec
  <1>5. /\ next.main = <<x>> \o m.main /\ next.alt = Without(m.alt, 0)
        /\ next.operands = m.operands
    BY <1>4 DEF Sized, MachinesOf
  <1>6. \A i \in 1 .. k - 1 : next.alt[i] = m.alt[i + 1]
    <2>1. PICK s \in Seq(S), z \in Nat : s = m.alt /\ z = 0 /\ Len(s) = k
      BY <1>1
    <2>2. z < Len(s)
      BY <2>1
    <2>3. \A i \in 1 .. Len(s) - 1 : Without(s, z)[i] = IF i <= z THEN s[i] ELSE s[i + 1]
      BY ONLY <2>2, s \in Seq(S), z \in Nat, SlotsAfterRemoval
    <2>4. \A i \in 1 .. Len(s) - 1 : ~(i <= z)
      BY <2>1
    <2> QED
      BY <1>5, <2>1, <2>3, <2>4
  <1>7. (<<x>> \o m.main)[1] = x /\ \A i \in 1 .. n : (<<x>> \o m.main)[i + 1] = m.main[i]
    BY <1>1, PushedType
  <1>8. Sized(next, S, n + 1, k - 1)
    <2>1. Sized(next, S, 1 + n, k - 1) /\ 1 + n = n + 1
      BY ExecFromAlt
    <2> QED
      BY <2>1
  <1> QED
    BY <1>3, <1>5, <1>6, <1>7, <1>8

\* The values below the top one are set aside, one after the other.
SetAside(next, m, S, n, j) ==
    /\ Sized(next, S, n - j, j)
    /\ next.main[1] = m.main[1]
    /\ \A i \in 2 .. n - j : next.main[i] = m.main[j + i]
    /\ \A i \in 1 .. j : next.alt[i] = m.main[j + 2 - i]
    /\ next.operands = m.operands

LEMMA OneMoreAside ==
  ASSUME NEW S, Missing \in S, NEW m, NEW n \in Nat, NEW j \in Nat, j + 1 < n,
         NEW next, SetAside(next, m, S, n, j)
  PROVE  SetAside(Exec(Exec(next, <<"SWAP">>), <<"TOALTSTACK">>), m, S, n, j + 1)
  <1>1. PICK e \in Nat : e = n - j /\ e >= 2
    OBVIOUS
  <1>2. PICK swapped : swapped = Exec(next, <<"SWAP">>)
    OBVIOUS
  <1>3. Sized(next, S, e, j)
    BY <1>1 DEF SetAside
  <1>4. /\ Sized(swapped, S, e, j) /\ swapped.main[1] = next.main[2] /\ swapped.main[2] = next.main[1]
        /\ \A i \in 3 .. e : swapped.main[i] = next.main[i]
        /\ swapped.alt = next.alt /\ swapped.operands = next.operands
    BY <1>1, <1>2, <1>3, SwapEffect
  <1>5. PICK last : last = Exec(swapped, <<"TOALTSTACK">>)
    OBVIOUS
  <1>6. e \in Nat \ {0}
    BY <1>1
  <1>7. /\ Sized(last, S, e - 1, j + 1)
        /\ \A i \in 1 .. e - 1 : last.main[i] = swapped.main[i + 1]
        /\ last.alt[1] = swapped.main[1] /\ \A i \in 1 .. j : last.alt[i + 1] = swapped.alt[i]
        /\ last.operands = swapped.operands
    BY <1>4, <1>5, <1>6, ToAltEffect
  <1>8. /\ next.main[1] = m.main[1]
        /\ \A i \in 2 .. e : next.main[i] = m.main[j + i]
        /\ \A i \in 1 .. j : next.alt[i] = m.main[j + 2 - i]
        /\ next.operands = m.operands
    BY <1>1 DEF SetAside
  <1>9. last.main[1] = m.main[1]
    <2>1. 1 \in 1 .. e - 1
      BY <1>1
    <2> QED
      BY <1>4, <1>7, <1>8, <2>1
  <1>10. ASSUME NEW i \in 2 .. n - (j + 1) PROVE last.main[i] = m.main[(j + 1) + i]
    <2>1. i \in 1 .. e - 1 /\ i + 1 \in 3 .. e /\ i + 1 \in 2 .. e /\ j + (i + 1) = (j + 1) + i
      BY <1>1
    <2> QED
      BY <1>4, <1>7, <1>8, <2>1
  <1>11. ASSUME NEW i \in 1 .. j + 1 PROVE last.alt[i] = m.main[(j + 1) + 2 - i]
    <2>1. CASE i = 1
      <3>1. (j + 1) + 2 - i = j + 2 /\ 2 \in 2 .. e
        BY <1>1, <2>1
      <3> QED
        BY <1>4, <1>7, <1>8, <2>1, <3>1
    <2>2. CASE i # 1
      <3>1. PICK h \in Nat : i = h + 1
        BY <2>2
      <3>2. h \in 1 .. j /\ j + 2 - h = (j + 1) + 2 - i
        BY <2>2, <3>1
      <3> QED
        BY <1>4, <1>7, <1>8, <3>1, <3>2
    <2> QED
      BY <2>1, <2>2
  <1>12. Sized(last, S, n - (j + 1), j + 1)
    <2>1. e - 1 = n - (j + 1)
      BY <1>1
    <2> QED
      BY <1>7, <2>1
  <1>13. SetAside(last, m, S, n, j + 1)
    BY <1>4, <1>7, <1>8, <1>9, <1>10, <1>11, <1>12 DEF SetAside
  <1> QED
    BY <1>2, <1>5, <1>13

LEMMA AsideEffect ==
  ASSUME NEW S, Missing \in S, NEW m, NEW n \in Nat, Sized(m, S, n, 0), NEW j \in Nat, j < n
  PROVE  SetAside(Run(m, InTurn(j, <<"SWAP">>, <<"TOALTSTACK">>)), m, S, n, j)
  <1> DEFINE Aside(i) == InTurn(i, <<"SWAP">>, <<"TOALTSTACK">>)
             D == {i \in Nat : i < n => SetAside(Run(m, Aside(i)), m, S, n, i)}
  <1>1. 0 \in D
    <2>1. Run(m, Aside(0)) = m /\ n - 0 = n
      BY RunOfNone, InTurnNone
    <2>2. SetAside(m, m, S, n, 0)
      BY DEF SetAside
    <2> QED
      BY <2>1, <2>2
  <1>2. ASSUME NEW i \in Nat, i \in D PROVE i + 1 \in D
    <2> SUFFICES ASSUME i + 1 < n
                 PROVE  SetAside(Run(m, Aside(i + 1)), m, S, n, i + 1)
      OBVIOUS
    <2>1. SetAside(Run(m, Aside(i)), m, S, n, i)
      BY <1>2
    <2> DEFINE two == <<<<"SWAP">>, <<"TOALTSTACK">>>>
               T == {<<"SWAP">>, <<"TOALTSTACK">>}
    <2>2. Aside(i + 1) = Aside(i) \o two
      BY InTurnMore
    <2>3. Aside(i) \in Seq(T)
      BY InTurnMore
    <2>4. two \in Seq(T)
      OBVIOUS
    <2>5. Run(m, Aside(i + 1)) = Run(Run(m, Aside(i)), two)
      <3> HIDE DEF Aside, two, T
      <3>1. PICK a \in Seq(T), b \in Seq(T) : a = Aside(i) /\ b = two
        BY <2>3, <2>4
      <3>2. Run(m, a \o b) = Run(Run(m, a), b)
        BY RunOfBoth
      <3> QED
        BY <2>2, <3>1, <3>2
    <2>6. Run(Run(m, Aside(i)), two) = Exec(Exec(Run(m, Aside(i)), <<"SWAP">>), <<"TOALTSTACK">>)
      BY RunOfTwo
    <2> HIDE DEF Aside, two
    <2>7. PICK next : next = Run(m, Aside(i))
      OBVIOUS
    <2>8. SetAside(Exec(Exec(next, <<"SWAP">>), <<"TOALTSTACK">>), m, S, n, i + 1)
      BY <2>1, <2>7, OneMoreAside
    <2> QED
      BY <2>5, <2>6, <2>7, <2>8
  <1>3. \A i \in Nat : i \in D
    <2> HIDE DEF D
    <2> QED
      BY <1>1, <1>2, InductionOnSet
  <1> QED
    BY <1>3

\* And put back, the last one first.
PutBack(next, m, S, n, k, j) ==
    /\ Sized(next, S, n + j, k - j)
    /\ \A i \in 1 .. j : next.main[i] = m.alt[j + 1 - i]
    /\ \A i \in 1 .. n : next.main[j + i] = m.main[i]
    /\ \A i \in 1 .. k - j : next.alt[i] = m.alt[j + i]
    /\ next.operands = m.operands

LEMMA OneMoreBack ==
  ASSUME NEW S, Missing \in S, NEW m, NEW n \in Nat, NEW k \in Nat, NEW j \in Nat, j + 1 <= k,
         NEW next, PutBack(next, m, S, n, k, j)
  PROVE  PutBack(Exec(next, <<"FROMALTSTACK">>), m, S, n, k, j + 1)
  <1>1. PICK e \in Nat, d \in Nat \ {0} : e = n + j /\ d = k - j
    OBVIOUS
  <1>2. PICK last : last = Exec(next, <<"FROMALTSTACK">>)
    OBVIOUS
  <1>3. /\ Sized(next, S, e, d)
        /\ \A i \in 1 .. j : next.main[i] = m.alt[j + 1 - i]
        /\ \A i \in 1 .. n : next.main[j + i] = m.main[i]
        /\ \A i \in 1 .. d : next.alt[i] = m.alt[j + i]
        /\ next.operands = m.operands
    BY <1>1 DEF PutBack
  <1>4. /\ Sized(last, S, e + 1, d - 1)
        /\ last.main[1] = next.alt[1] /\ \A i \in 1 .. e : last.main[i + 1] = next.main[i]
        /\ \A i \in 1 .. d - 1 : last.alt[i] = next.alt[i + 1]
        /\ last.operands = next.operands
    BY <1>1, <1>2, <1>3, FromAltEffect
  <1>5. ASSUME NEW i \in 1 .. j + 1 PROVE last.main[i] = m.alt[(j + 1) + 1 - i]
    <2>1. CASE i = 1
      <3>1. (j + 1) + 1 - i = j + 1 /\ 1 \in 1 .. d
        BY <2>1
      <3> QED
        BY <1>3, <1>4, <2>1, <3>1
    <2>2. CASE i # 1
      <3>1. PICK h \in Nat : i = h + 1
        BY <2>2
      <3>2. h \in 1 .. j /\ h \in 1 .. e /\ j + 1 - h = (j + 1) + 1 - i
        BY <1>1, <2>2, <3>1
      <3> QED
        BY <1>3, <1>4, <3>1, <3>2
    <2> QED
      BY <2>1, <2>2
  <1>6. ASSUME NEW i \in 1 .. n PROVE last.main[(j + 1) + i] = m.main[i]
    <2>1. j + i \in 1 .. e /\ (j + i) + 1 = (j + 1) + i
      BY <1>1
    <2> QED
      BY <1>3, <1>4, <2>1
  <1>7. ASSUME NEW i \in 1 .. k - (j + 1) PROVE last.alt[i] = m.alt[(j + 1) + i]
    <2>1. i \in 1 .. d - 1 /\ i + 1 \in 1 .. d /\ j + (i + 1) = (j + 1) + i
      BY <1>1
    <2> QED
      BY <1>3, <1>4, <2>1
  <1>8. Sized(last, S, n + (j + 1), k - (j + 1))
    <2>1. e + 1 = n + (j + 1) /\ d - 1 = k - (j + 1)
      BY <1>1
    <2> QED
      BY <1>4, <2>1
  <1>9. PutBack(last, m, S, n, k, j + 1)
    BY <1>3, <1>4, <1>5, <1>6, <1>7, <1>8 DEF PutBack
  <1> QED
    BY <1>2, <1>9

LEMMA BackEffect ==
  ASSUME NEW S, Missing \in S, NEW m, NEW n \in Nat, NEW k \in Nat, Sized(m, S, n, k)
  PROVE  PutBack(Run(m, Times(k, <<"FROMALTSTACK">>)), m, S, n, k, k)
  <1> DEFINE D == {i \in Nat : i <= k => PutBack(Run(m, Times(i, <<"FROMALTSTACK">>)), m, S, n, k, i)}
  <1>1. 0 \in D
    <2>1. Run(m, Times(0, <<"FROMALTSTACK">>)) = m /\ n + 0 = n /\ k - 0 = k
      BY RunOfNone, TimesNone
    <2>2. PutBack(m, m, S, n, k, 0)
      BY DEF PutBack
    <2> QED
      BY <2>1, <2>2
  <1>2. ASSUME NEW i \in Nat, i \in D PROVE i + 1 \in D
    <2> SUFFICES ASSUME i + 1 <= k
                 PROVE  PutBack(Run(m, Times(i + 1, <<"FROMALTSTACK">>)), m, S, n, k, i + 1)
      OBVIOUS
    <2>1. PICK next : next = Run(m, Times(i, <<"FROMALTSTACK">>))
      OBVIOUS
    <2>2. PutBack(next, m, S, n, k, i)
      BY <1>2, <2>1
    <2>3. Run(m, Times(i + 1, <<"FROMALTSTACK">>)) = Exec(next, <<"FROMALTSTACK">>)
      <3>1. /\ Times(i + 1, <<"FROMALTSTACK">>) =
                 Append(Times(i, <<"FROMALTSTACK">>), <<"FROMALTSTACK">>)
            /\ Times(i, <<"FROMALTSTACK">>) \in Seq({<<"FROMALTSTACK">>})
            /\ <<"FROMALTSTACK">> \in {<<"FROMALTSTACK">>}
        BY TimesMore
      <3> QED
        BY <2>1, <3>1, RunOfMore
    <2>4. PutBack(Exec(next, <<"FROMALTSTACK">>), m, S, n, k, i + 1)
      BY <2>2, OneMoreBack
    <2> QED
      BY <2>3, <2>4
  <1>3. \A i \in Nat : i \in D
    <2> HIDE DEF D
    <2> QED
      BY <1>1, <1>2, InductionOnSet
  <1> QED
    BY <1>3

\* The value on top takes the place of the one at a depth, which goes.
Replaced(next, m, S, n, index) ==
    /\ Sized(next, S, n - 1, 0)
    /\ next.main[index] = m.main[1]
    /\ \A i \in 1 .. n - 1 : i # index => next.main[i] = m.main[i + 1]
    /\ next.operands = m.operands

LEMMA RemoveEffect ==
  ASSUME NEW S, Missing \in S, NEW m, NEW n \in Nat, Sized(m, S, n, 0),
         NEW index \in Nat \ {0}, index < n,
         NEW next, next = Exec(Exec(m, <<"ROLL", index>>), <<"DROP">>)
  PROVE  /\ Sized(next, S, n - 1, 0) /\ next.operands = m.operands
         /\ \A i \in 1 .. index : next.main[i] = m.main[i]
         /\ \A i \in index + 1 .. n - 1 : next.main[i] = m.main[i + 1]
  <1>1. PICK raised : raised = Exec(m, <<"ROLL", index>>)
    OBVIOUS
  <1>2. Sized(raised, S, n, 0) /\ Raised(raised, m, n, index)
    BY <1>1, RollEffect
  <1>3. n \in Nat \ {0} /\ next = Exec(raised, <<"DROP">>)
    BY <1>1
  <1>4. Sized(next, S, n - 1, 0) /\ OneLess(next, raised, n)
    BY <1>2, <1>3, DropEffect
  <1>5. ASSUME NEW i \in 1 .. index PROVE next.main[i] = m.main[i]
    <2>1. i \in 1 .. n - 1
      OBVIOUS
    <2> QED
      BY <1>2, <1>4, <2>1 DEF OneLess, Raised
  <1>6. ASSUME NEW i \in index + 1 .. n - 1 PROVE next.main[i] = m.main[i + 1]
    <2>1. i \in 1 .. n - 1 /\ i + 1 \in index + 2 .. n
      OBVIOUS
    <2> QED
      BY <1>2, <1>4, <2>1 DEF OneLess, Raised
  <1> QED
    BY <1>2, <1>4, <1>5, <1>6 DEF OneLess, Raised

LEMMA ReplaceEffect ==
  ASSUME NEW S, Missing \in S, NEW m, NEW n \in Nat, Sized(m, S, n, 0),
         NEW index \in Nat \ {0}, index < n
  PROVE  Replaced(Run(m, EmitReplace(index)), m, S, n, index)
  <1>1. PICK removed : removed = Exec(Exec(m, <<"ROLL", index>>), <<"DROP">>)
    OBVIOUS
  <1>2. /\ Sized(removed, S, n - 1, 0) /\ removed.operands = m.operands
        /\ \A i \in 1 .. index : removed.main[i] = m.main[i]
        /\ \A i \in index + 1 .. n - 1 : removed.main[i] = m.main[i + 1]
    BY <1>1, RemoveEffect
  <1>3. CASE index < 2
    <2>1. Run(m, EmitReplace(index)) = removed /\ index = 1
      BY <1>1, <1>3, ReplaceRuns
    <2>2. removed.main[index] = m.main[1]
      BY <1>2, <2>1
    <2>3. ASSUME NEW i \in 1 .. n - 1, i # index PROVE removed.main[i] = m.main[i + 1]
      <3>1. i \in index + 1 .. n - 1
        BY <2>1, <2>3
      <3> QED
        BY <1>2, <3>1
    <2>4. Replaced(removed, m, S, n, index)
      BY <1>2, <2>2, <2>3 DEF Replaced
    <2> QED
      BY <2>1, <2>4
  <1>4. CASE index >= 2
    <2>1. PICK j \in Nat : index = j + 2 /\ index - 2 = j
      BY <1>4
    <2>2. PICK l \in Nat : l = n - 1 /\ j < l /\ j + 1 < l
      BY <2>1
    <2>3. PICK aside, swapped, last :
            /\ aside = Run(removed, InTurn(j, <<"SWAP">>, <<"TOALTSTACK">>))
            /\ swapped = Exec(aside, <<"SWAP">>)
            /\ last = Run(swapped, Times(j, <<"FROMALTSTACK">>))
      OBVIOUS
    <2>4. Run(m, EmitReplace(index)) = last
      BY <1>1, <1>4, <2>1, <2>3, ReplaceRuns
    <2>5. SetAside(aside, removed, S, l, j)
      <3>1. Sized(removed, S, l, 0)
        BY <1>2, <2>2
      <3> QED
        BY <2>2, <2>3, <3>1, AsideEffect
    <2>6. PICK d \in Nat : d = l - j /\ d >= 2
      BY <2>2
    <2>7. /\ Sized(aside, S, d, j) /\ aside.main[1] = removed.main[1]
          /\ \A i \in 2 .. d : aside.main[i] = removed.main[j + i]
          /\ \A i \in 1 .. j : aside.alt[i] = removed.main[j + 2 - i]
          /\ aside.operands = removed.operands
      BY <2>5, <2>6 DEF SetAside
    <2>8. /\ Sized(swapped, S, d, j)
          /\ swapped.main[1] = aside.main[2] /\ swapped.main[2] = aside.main[1]
          /\ \A i \in 3 .. d : swapped.main[i] = aside.main[i]
          /\ swapped.alt = aside.alt /\ swapped.operands = aside.operands
      BY <2>3, <2>6, <2>7, SwapEffect
    <2>9. PutBack(last, swapped, S, d, j, j)
      BY <2>3, <2>8, BackEffect
    <2>10. /\ Sized(last, S, d + j, j - j)
           /\ \A i \in 1 .. j : last.main[i] = swapped.alt[j + 1 - i]
           /\ \A i \in 1 .. d : last.main[j + i] = swapped.main[i]
           /\ last.operands = swapped.operands
      BY <2>9 DEF PutBack
    <2>11. Sized(last, S, n - 1, 0)
      <3>1. d + j = n - 1 /\ j - j = 0
        BY <2>2, <2>6
      <3> QED
        BY <2>10, <3>1
    <2>12. last.main[index] = m.main[1]
      <3>1. 2 \in 1 .. d /\ index = j + 2 /\ 1 \in 1 .. index
        BY <2>1, <2>6
      <3> QED
        BY <1>2, <2>7, <2>8, <2>10, <3>1
    <2>13. ASSUME NEW i \in 1 .. n - 1, i # index PROVE last.main[i] = m.main[i + 1]
      <3>1. CASE i <= j
        <4>1. i \in 1 .. j /\ j + 1 - i \in 1 .. j /\ j + 2 - (j + 1 - i) = i + 1
              /\ i + 1 \in 1 .. index
          BY <2>1, <3>1
        <4>2. last.main[i] = aside.alt[j + 1 - i]
          BY <2>8, <2>10, <4>1
        <4>3. aside.alt[j + 1 - i] = removed.main[i + 1]
          BY <2>7, <4>1
        <4> QED
          BY <1>2, <4>1, <4>2, <4>3
      <3>2. CASE i = j + 1
        <4>1. 1 \in 1 .. d /\ 2 \in 2 .. d /\ i + 1 = j + 2 /\ i + 1 \in 1 .. index
          BY <2>1, <2>6, <3>2
        <4>2. last.main[i] = aside.main[2]
          BY <2>8, <2>10, <3>2, <4>1
        <4>3. aside.main[2] = removed.main[i + 1]
          BY <2>7, <4>1
        <4> QED
          BY <1>2, <4>1, <4>2, <4>3
      <3>3. CASE i > j + 1
        <4>1. PICK h \in Nat : i = j + h
          BY <3>3
        <4>2. h \in 3 .. d /\ h \in 1 .. d /\ h \in 2 .. d /\ i \in index + 1 .. n - 1
          BY <2>1, <2>2, <2>6, <2>13, <3>3, <4>1
        <4>3. last.main[i] = aside.main[h]
          BY <2>8, <2>10, <4>1, <4>2
        <4>4. aside.main[h] = removed.main[i]
          BY <2>7, <4>1, <4>2
        <4> QED
          BY <1>2, <4>2, <4>3, <4>4
      <3> QED
        BY <3>1, <3>2, <3>3
    <2>14. Replaced(last, m, S, n, index)
      BY <1>2, <2>7, <2>8, <2>10, <2>11, <2>12, <2>13 DEF Replaced
    <2> QED
      BY <2>4, <2>14
  <1> QED
    BY <1>3, <1>4

\* Some values less on top.
LessBy(last, m, n, j) ==
    /\ last.alt = m.alt /\ last.operands = m.operands
    /\ \A i \in 1 .. n - j : last.main[i] = m.main[j + i]

LEMMA DropsEffect ==
  ASSUME NEW S, NEW m, NEW n \in Nat, NEW k, Sized(m, S, n, k), NEW j \in Nat, j <= n,
         NEW last, last = Run(m, Times(j, <<"DROP">>))
  PROVE  Sized(last, S, n - j, k) /\ LessBy(last, m, n, j)
  <1> DEFINE Effect(next, i) ==
               /\ Sized(next, S, n - i, k) /\ next.alt = m.alt /\ next.operands = m.operands
               /\ \A h \in 1 .. n - i : next.main[h] = m.main[i + h]
             D == {i \in Nat : i <= n => Effect(Run(m, Times(i, <<"DROP">>)), i)}
  <1>1. 0 \in D
    <2>1. Run(m, Times(0, <<"DROP">>)) = m /\ n - 0 = n
      BY RunOfNone, TimesNone
    <2>2. Effect(m, 0)
      OBVIOUS
    <2> QED
      BY <2>1, <2>2
  <1>2. ASSUME NEW i \in Nat, i \in D PROVE i + 1 \in D
    <2> SUFFICES ASSUME i + 1 <= n
                 PROVE  Effect(Run(m, Times(i + 1, <<"DROP">>)), i + 1)
      OBVIOUS
    <2>1. PICK before : before = Run(m, Times(i, <<"DROP">>))
      OBVIOUS
    <2>2. Effect(before, i)
      BY <1>2, <2>1
    <2>3. Run(m, Times(i + 1, <<"DROP">>)) = Exec(before, <<"DROP">>)
      <3>1. /\ Times(i + 1, <<"DROP">>) = Append(Times(i, <<"DROP">>), <<"DROP">>)
            /\ Times(i, <<"DROP">>) \in Seq({<<"DROP">>}) /\ <<"DROP">> \in {<<"DROP">>}
        BY TimesMore
      <3> QED
        BY <2>1, <3>1, RunOfMore
    <2>4. PICK l \in Nat \ {0} : l = n - i
      OBVIOUS
    <2>5. PICK next : next = Exec(before, <<"DROP">>)
      OBVIOUS
    <2>6. Sized(next, S, l - 1, k) /\ OneLess(next, before, l)
      BY <2>2, <2>4, <2>5, DropEffect
    <2>7. l - 1 = n - (i + 1)
      BY <2>4
    <2>8. ASSUME NEW h \in 1 .. n - (i + 1) PROVE next.main[h] = m.main[(i + 1) + h]
      <3>1. h \in 1 .. l - 1 /\ h + 1 \in 1 .. n - i /\ i + (h + 1) = (i + 1) + h
        BY <2>4
      <3> QED
        BY <2>2, <2>6, <3>1 DEF OneLess
    <2>9. Effect(next, i + 1)
      BY <2>2, <2>6, <2>7, <2>8 DEF OneLess
    <2> HIDE DEF Effect
    <2> QED
      BY <2>3, <2>5, <2>9
  <1>3. \A i \in Nat : i \in D
    <2> HIDE DEF D
    <2> QED
      BY <1>1, <1>2, InductionOnSet
  <1> QED
    BY <1>3 DEF LessBy

-----------------------------------------------------------------------------
(* The values of the slots.                                                *)

\* What a slot is worth if env is e.
Worth(e, name) == IF name = "$$" THEN Selector ELSE e[name]

First(st, i) == \A j \in 1 .. i - 1 : st[j] # st[i]

\* A machine has the values of the slots, as far as their names matter, and the rest of
\* the arguments below.  Of several slots of a name the first is the one that is found.
Mirrors(st, m, rest, W, e) ==
    /\ Len(st) \in Nat /\ Len(rest) \in Nat
    /\ Sized(m, Contents, Len(st) + Len(rest), 0)
    /\ \A i \in 1 .. Len(rest) : m.main[Len(st) + i] = rest[i]
    /\ \A i \in 1 .. Len(st) : st[i] \in W /\ First(st, i) => m.main[i] = Worth(e, st[i])

\* With k slots instead of the first r.
MirroredOnTop(st, k, lower, r, m, before, more) ==
    /\ Len(st) = k + (Len(lower) - r) /\ \A i \in 1 .. Len(lower) - r : st[k + i] = lower[r + i]
    /\ Sized(m, Contents, Len(st) + more, 0)
    /\ \A i \in 1 .. (Len(lower) - r) + more : m.main[k + i] = before.main[r + i]

LEMMA MirrorsOnTop ==
  ASSUME NEW lower, NEW before, NEW rest, NEW W, NEW e, Mirrors(lower, before, rest, W, e),
         NEW r \in Nat, r <= Len(lower), NEW k \in Nat, NEW st, NEW m, NEW more, more = Len(rest),
         MirroredOnTop(st, k, lower, r, m, before, more),
         NEW V, NEW d, \A i \in 1 .. r : lower[i] \notin V,
         \A i \in 1 .. k : st[i] \in V /\ First(st, i) => m.main[i] = Worth(d, st[i]),
         \A x \in V : (\E i \in 1 .. k : st[i] = x) \/ (x \in W /\ Worth(d, x) = Worth(e, x))
  PROVE  Mirrors(st, m, rest, V, d)
  <1>1. PICK l \in Nat, c \in Nat : l = Len(lower) /\ c = l - r /\ more \in Nat /\ r <= l
    BY DEF Mirrors
  <1>2. /\ Len(st) = k + c /\ \A i \in 1 .. c : st[k + i] = lower[r + i]
        /\ Sized(m, Contents, Len(st) + more, 0)
        /\ \A i \in 1 .. c + more : m.main[k + i] = before.main[r + i]
    BY <1>1 DEF MirroredOnTop
  <1>3. /\ \A i \in 1 .. more : before.main[l + i] = rest[i]
        /\ \A i \in 1 .. l : lower[i] \in W /\ First(lower, i) => before.main[i] = Worth(e, lower[i])
    BY <1>1 DEF Mirrors
  <1>4. ASSUME NEW i \in 1 .. more PROVE m.main[Len(st) + i] = rest[i]
    <2>1. c + i \in 1 .. c + more /\ Len(st) + i = k + (c + i) /\ r + (c + i) = l + i
      BY <1>1, <1>2
    <2> QED
      BY <1>2, <1>3, <2>1
  <1>5. ASSUME NEW i \in 1 .. Len(st), st[i] \in V, First(st, i)
        PROVE  m.main[i] = Worth(d, st[i])
    <2>1. CASE i <= k
      <3>1. i \in 1 .. k
        BY <1>2, <2>1
      <3> QED
        BY <1>5, <3>1
    <2>2. CASE ~(i <= k)
      <3>1. PICK h \in 1 .. c : i = k + h
        <4>1. i - k \in 1 .. c /\ i = k + (i - k)
          BY <1>2, <2>2
        <4> QED
          BY <4>1
      <3>2. st[i] = lower[r + h] /\ m.main[i] = before.main[r + h]
        <4>1. h \in 1 .. c + more
          BY <1>1
        <4> QED
          BY <1>2, <3>1, <4>1
      <3>3. \A j \in 1 .. k : st[j] # st[i]
        <4>1. \A j \in 1 .. k : j \in 1 .. i - 1
          BY <3>1
        <4> QED
          BY <1>5, <4>1 DEF First
      <3>4. st[i] \in W /\ Worth(d, st[i]) = Worth(e, st[i])
        BY <1>5, <3>3
      <3>5. ASSUME NEW j \in 1 .. r + h - 1 PROVE lower[j] # lower[r + h]
        <4>1. CASE j <= r
          <5>1. j \in 1 .. r
            BY <4>1
          <5> QED
            BY <1>5, <3>2, <5>1
        <4>2. CASE ~(j <= r)
          <5>1. PICK g \in 1 .. c : j = r + g /\ k + g \in 1 .. i - 1
            <6>1. j - r \in 1 .. c /\ j = r + (j - r) /\ k + (j - r) \in 1 .. i - 1
              BY <3>1, <4>2
            <6> QED
              BY <6>1
          <5>2. st[k + g] # st[i]
            BY <1>5, <5>1 DEF First
          <5> QED
            BY <1>2, <3>2, <5>1, <5>2
        <4> QED
          BY <4>1, <4>2
      <3>6. First(lower, r + h) /\ r + h \in 1 .. l
        BY <1>1, <3>5 DEF First
      <3> QED
        BY <1>3, <3>2, <3>4, <3>6
    <2> QED
      BY <2>1, <2>2
  <1>6. Len(st) \in Nat /\ Len(rest) \in Nat
    BY <1>1, <1>2
  <1> QED
    BY <1>2, <1>4, <1>5, <1>6 DEF Mirrors

LEMMA MirrorsRolled ==
  ASSUME NEW lower \in Seq(Slots), NEW before, NEW rest, NEW W, NEW e, Mirrors(lower, before, rest, W, e),
         NEW depth \in Nat, depth < Len(lower), NEW V, V \subseteq W, Value \notin V,
         lower[depth + 1] \notin V, NEW m, m = Exec(before, <<"ROLL", depth>>)
  PROVE  Mirrors(<<Value>> \o Without(lower, depth), m, rest, V, e)
  <1>1. PICK l \in Nat, more \in Nat, n \in Nat : l = Len(lower) /\ more = Len(rest) /\ n = l + more
    BY DEF Mirrors
  <1>2. /\ Sized(before, Contents, n, 0)
        /\ \A i \in 1 .. more : before.main[l + i] = rest[i]
        /\ \A i \in 1 .. l : lower[i] \in W /\ First(lower, i) => before.main[i] = Worth(e, lower[i])
    BY <1>1 DEF Mirrors
  <1>3. Sized(m, Contents, n, 0) /\ Raised(m, before, n, depth)
    <2>1. depth < n /\ Missing \in Contents
      BY <1>1, MachineTypes
    <2> QED
      BY <1>2, <2>1, RollEffect
  <1>4. PICK out : out = Without(lower, depth)
    OBVIOUS
  <1>5. /\ out \in Seq(Slots) /\ Len(out) = l - 1
        /\ \A i \in 1 .. l - 1 : out[i] = IF i <= depth THEN lower[i] ELSE lower[i + 1]
    <2>1. out \in Seq(Slots) /\ Len(out) = l - 1
      BY <1>1, <1>4, WithoutType
    <2>2. \A i \in 1 .. Len(lower) - 1 :
            Without(lower, depth)[i] = IF i <= depth THEN lower[i] ELSE lower[i + 1]
      BY SlotsAfterRemoval
    <2> QED
      BY <1>1, <1>4, <2>1, <2>2
  <1>6. PICK st : st = <<Value>> \o out
    OBVIOUS
  <1>7. Len(st) = l /\ st[1] = Value /\ \A i \in 1 .. l - 1 : st[i + 1] = out[i]
    <2>1. Value \in Slots
      BY DEF Slots
    <2>2. /\ Len(st) = 1 + Len(out) /\ st[1] = Value
          /\ \A i \in 1 .. Len(out) : st[i + 1] = out[i]
      BY <1>5, <1>6, <2>1, PushedType
    <2> QED
      BY <1>1, <1>5, <2>2
  <1>8. \A i \in 1 .. depth : m.main[i + 1] = before.main[i] /\ st[i + 1] = lower[i]
    <2> TAKE i \in 1 .. depth
    <2>1. i \in 1 .. l - 1 /\ i <= depth
      BY <1>1
    <2> QED
      BY <1>3, <1>5, <1>7, <2>1 DEF Raised
  <1>9. \A i \in depth + 2 .. l : m.main[i] = before.main[i] /\ st[i] = lower[i]
    <2> TAKE i \in depth + 2 .. l
    <2>1. PICK h \in Nat : i = h + 1
      BY <1>1
    <2>2. h \in 1 .. l - 1 /\ ~(h <= depth) /\ i \in depth + 2 .. n
      BY <1>1, <2>1
    <2> QED
      BY <1>3, <1>5, <1>7, <2>1, <2>2 DEF Raised
  <1>10. ASSUME NEW i \in 1 .. l, st[i] \in V, First(st, i) PROVE m.main[i] = Worth(e, st[i])
    <2>1. i # 1
      BY <1>7, <1>10
    <2>2. CASE i <= depth + 1
      <3>1. PICK h \in 1 .. depth : i = h + 1
        <4>1. i - 1 \in 1 .. depth /\ i = (i - 1) + 1
          BY <2>1, <2>2
        <4> QED
          BY <4>1
      <3>2. ASSUME NEW j \in 1 .. h - 1 PROVE lower[j] # lower[h]
        <4>1. j + 1 \in 1 .. i - 1 /\ j \in 1 .. depth
          BY <3>1
        <4> QED
          BY <1>8, <1>10, <3>1, <4>1 DEF First
      <3>3. First(lower, h) /\ h \in 1 .. l
        BY <1>1, <3>2 DEF First
      <3> QED
        BY <1>2, <1>8, <1>10, <3>1, <3>3
    <2>3. CASE ~(i <= depth + 1)
      <3>1. i \in depth + 2 .. l
        BY <2>3
      <3>2. ASSUME NEW j \in 1 .. i - 1 PROVE lower[j] # lower[i]
        <4>1. CASE j <= depth
          <5>1. j \in 1 .. depth /\ j + 1 \in 1 .. i - 1
            BY <3>1, <4>1
          <5> QED
            BY <1>8, <1>9, <1>10, <3>1, <5>1 DEF First
        <4>2. CASE j = depth + 1
          BY <1>9, <1>10, <3>1, <4>2
        <4>3. CASE j > depth + 1
          <5>1. j \in depth + 2 .. l
            BY <4>3
          <5> QED
            BY <1>9, <1>10, <3>1, <5>1 DEF First
        <4> QED
          BY <4>1, <4>2, <4>3
      <3>3. First(lower, i)
        BY <3>2 DEF First
      <3> QED
        BY <1>2, <1>9, <1>10, <3>1, <3>3
    <2> QED
      BY <2>2, <2>3
  <1>11. ASSUME NEW i \in 1 .. more PROVE m.main[l + i] = rest[i]
    <2>1. l + i \in depth + 2 .. n
      BY <1>1
    <2> QED
      BY <1>2, <1>3, <2>1 DEF Raised
  <1>12. Mirrors(st, m, rest, V, e)
    BY <1>1, <1>3, <1>7, <1>10, <1>11 DEF Mirrors
  <1> QED
    BY <1>4, <1>6, <1>12

\* After k identifiers the values of those are on top, the last one first, and below them
\* the values of the slots that are still needed.
Computing(code, m, k, rest) ==
    /\ Mirrors(code.stack, m, rest, Needs(k), env)
    /\ \A i \in 1 .. k : m.main[i] = env[Node.operands[k + 1 - i]]

LEMMA NeedsNext ==
  ASSUME ScopeInv, GeneratorInv, phase = "generate", Node.kind # "function",
         NEW k \in Nat, k < Len(Node.operands)
  PROVE  /\ Needs(k + 1) \subseteq Needs(k) /\ Needs(k) \subseteq Names
         /\ Value \notin Needs(k) /\ "$$" \notin Needs(k)
         /\ Node.operands[k + 1] \notin Inline => Node.operands[k + 1] \in Needs(k)
         /\ Node.operands[k + 1] \in Names
  <1>1. header \in Headers /\ Node.operands \in Seq(Names) /\ program[at] = Node
        /\ at \in 1 .. Len(program)
    BY NodeIs, AtIs
  <1>2. PICK n \in Nat : n = Len(Node.operands)
    BY <1>1, LenProperties
  <1>3. Needs(k) \subseteq Names
    BY DEF Needs, Wanted
  <1>4. Value \notin Needs(k) /\ "$$" \notin Needs(k)
    BY <1>1, <1>3, NamesAreNoMarks
  <1>5. Needs(k + 1) \subseteq Needs(k)
    <2> SUFFICES ASSUME NEW name \in Needs(k + 1) PROVE name \in Needs(k)
      OBVIOUS
    <2>1. \A j \in k + 1 + 1 .. n : j \in k + 1 .. n
      OBVIOUS
    <2> QED
      BY <1>2, <2>1 DEF Needs
  <1>6. PICK name : name = Node.operands[k + 1]
    OBVIOUS
  <1>7. k + 1 \in 1 .. n /\ k + 1 \in k + 1 .. n
    BY <1>2
  <1>8. name \in Names
    BY <1>1, <1>2, <1>6, <1>7, ElementOfSeq
  <1>9. ASSUME name \notin Inline PROVE name \in Needs(k)
    <2>1. MentionedBy(program, at, name)
      <3>1. name \in Range(Node.operands)
        BY <1>1, <1>2, <1>6, <1>7, LenProperties DEF Range
      <3> QED
        BY <1>1, <3>1 DEF MentionedBy
    <2>2. name \in Wanted(at, Current)
      BY <1>9, <2>1, MentionsAreWanted
    <2> QED
      BY <1>2, <1>6, <1>7, <2>2 DEF Needs
  <1> QED
    BY <1>3, <1>4, <1>5, <1>6, <1>8, <1>9

LEMMA OperandComputed ==
  ASSUME ScopeInv, GeneratorInv, phase = "generate", Node.kind # "function",
         \A name \in Inline : env[name] = Argument(name),
         NEW k \in Nat, k < Len(Node.operands), NEW code, Identified(code, k),
         NEW before, NEW rest, Computing(code, Run(before, code.ops), k, rest),
         NEW next, IsVisit(code, next, k + 1)
  PROVE  /\ Computing(next, Run(before, next.ops), k + 1, rest)
         /\ Run(before, next.ops).operands = Run(before, code.ops).operands
  <1>1. PICK s, o, c : /\ code = [stack |-> s, ops |-> o, crashed |-> c]
                       /\ s \in Seq(Slots) /\ c \in BOOLEAN
                       /\ \E T : o \in Seq(T)
    BY DEF Identified, IsCode
  <1>2. code.stack = s /\ code.ops = o
    BY <1>1
  <1>3. PICK m : m = Run(before, code.ops)
    OBVIOUS
  <1>4. ASSUME NEW op, next.ops = Append(code.ops, op) PROVE Run(before, next.ops) = Exec(m, op)
    <2>1. PICK T : o \in Seq(T)
      BY <1>1
    <2>2. Run(before, Append(o, op)) = Exec(Run(before, o), op)
      BY <1>1, <2>1, OneMoreOp
    <2> QED
      BY <1>2, <1>3, <1>4, <2>2
  <1>5. PICK l \in Nat, more \in Nat, n \in Nat : l = Len(s) /\ more = Len(rest) /\ n = l + more
    BY <1>2 DEF Computing, Mirrors
  <1>6. /\ Mirrors(s, m, rest, Needs(k), env) /\ Sized(m, Contents, n, 0)
        /\ \A i \in 1 .. k : m.main[i] = env[Node.operands[k + 1 - i]]
    BY <1>2, <1>3, <1>5 DEF Computing, Mirrors
  <1>7. k <= l /\ \A i \in 1 .. k : s[i] = Value
    BY <1>2, <1>5 DEF Identified
  <1>8. PICK name : name = Node.operands[k + 1]
    OBVIOUS
  <1>9. /\ Needs(k + 1) \subseteq Needs(k) /\ Needs(k) \subseteq Names
        /\ Value \notin Needs(k) /\ "$$" \notin Needs(k)
        /\ name \notin Inline => name \in Needs(k)
        /\ name \in Names
    BY <1>8, NeedsNext
  <1>10. Missing \in Contents /\ Value \in Slots /\ Argument(name) \in Contents
    BY <1>9, MachineTypes
  <1>11. ASSUME NEW st, st = <<Value>> \o s, NEW x, x = env[name], NEW m2,
                Sized(m2, Contents, 1 + n, 0), OneMore(m2, m, n, x), next.stack = st
         PROVE  Computing(next, m2, k + 1, rest)
    <2>1. /\ Len(st) = l + 1 /\ st[1] = Value
          /\ \A i \in 1 .. l : st[i + 1] = s[i]
      <3>1. /\ Len(st) = 1 + Len(s) /\ st[1] = Value
            /\ \A i \in 1 .. Len(s) : st[i + 1] = s[i]
        BY <1>1, <1>10, <1>11, PushedType
      <3> QED
        BY <1>5, <3>1
    <2>2. MirroredOnTop(st, 1, s, 0, m2, m, more)
      <3>1. Len(st) = 1 + (l - 0) /\ Len(st) + more = 1 + n
        BY <1>5, <2>1
      <3>2. \A i \in 1 .. l - 0 : st[1 + i] = s[0 + i]
        BY <2>1
      <3>3. \A i \in 1 .. (l - 0) + more : m2.main[1 + i] = m.main[0 + i]
        BY <1>5, <1>11 DEF OneMore
      <3> QED
        BY <1>5, <1>11, <3>1, <3>2, <3>3 DEF MirroredOnTop
    <2>3. Mirrors(st, m2, rest, Needs(k + 1), env)
      <3>1. 0 \in Nat /\ 1 \in Nat /\ 0 <= Len(s)
        BY <1>5
      <3>2. \A i \in 1 .. 0 : s[i] \notin Needs(k + 1)
        OBVIOUS
      <3>3. \A i \in 1 .. 1 : st[i] \in Needs(k + 1) /\ First(st, i) => m2.main[i] = Worth(env, st[i])
        BY <1>9, <2>1
      <3>4. \A y \in Needs(k + 1) : (\E i \in 1 .. 1 : st[i] = y)
                                    \/ (y \in Needs(k) /\ Worth(env, y) = Worth(env, y))
        BY <1>9
      <3> QED
        <4>1. PICK V, W : /\ V = Needs(k + 1) /\ W = Needs(k) /\ Mirrors(s, m, rest, W, env)
                          /\ \A i \in 1 .. 0 : s[i] \notin V
                          /\ \A i \in 1 .. 1 : st[i] \in V /\ First(st, i) => m2.main[i] = Worth(env, st[i])
                          /\ \A y \in V : (\E i \in 1 .. 1 : st[i] = y)
                                          \/ (y \in W /\ Worth(env, y) = Worth(env, y))
          BY ONLY <1>6, <3>2, <3>3, <3>4
        <4>2. Mirrors(st, m2, rest, V, env)
          BY ONLY <1>5, <2>2, <3>1, <4>1, MirrorsOnTop
        <4> QED
          BY <4>1, <4>2
    <2>4. \A i \in 1 .. k + 1 : m2.main[i] = env[Node.operands[k + 1 + 1 - i]]
      <3> TAKE i \in 1 .. k + 1
      <3>1. CASE i = 1
        BY <1>8, <1>11, <3>1 DEF OneMore
      <3>2. CASE i # 1
        <4>1. PICK j \in 1 .. k : i = j + 1 /\ k + 1 + 1 - i = k + 1 - j
          <5>1. i - 1 \in 1 .. k /\ i = (i - 1) + 1 /\ k + 1 + 1 - i = k + 1 - (i - 1)
            BY <3>2
          <5> QED
            BY <5>1
        <4>2. j \in 1 .. n
          BY <1>5, <1>7
        <4> QED
          BY <1>6, <1>11, <4>1, <4>2 DEF OneMore
      <3> QED
        BY <3>1, <3>2
    <2> QED
      BY <1>11, <2>3, <2>4 DEF Computing
  <1>12. CASE /\ name \in Inline
              /\ next.stack = <<Value>> \o code.stack
              /\ next.ops = Append(code.ops, <<"PUSH", <<Argument(name)>>>>)
    <2>1. PICK m2 : m2 = Exec(m, <<"PUSH", <<Argument(name)>>>>)
      OBVIOUS
    <2>2. Sized(m2, Contents, 1 + n, 0) /\ OneMore(m2, m, n, Argument(name))
      BY <1>5, <1>6, <1>10, <2>1, PushEffect
    <2>3. Run(before, next.ops) = m2
      BY <1>4, <1>12, <2>1
    <2>4. env[name] = Argument(name)
      BY <1>12
    <2>5. Computing(next, m2, k + 1, rest)
      BY <1>2, <1>11, <1>12, <2>2, <2>4
    <2> QED
      BY <1>3, <2>2, <2>3, <2>5 DEF OneMore
  <1>13. CASE name \notin Inline
    <2>1. PICK index \in 0 .. Len(code.stack) - 1 :
            /\ code.stack[index + 1] = name
            /\ \A j \in 1 .. index : code.stack[j] # name
            /\ \/ /\ next.stack = <<Value>> \o code.stack
                  /\ next.ops = Append(code.ops, <<"PICK", index>>)
               \/ /\ depths = <<>> /\ name \notin Needs(k + 1)
                  /\ next.stack = <<Value>> \o Without(code.stack, index)
                  /\ next.ops = Append(code.ops, <<"ROLL", index>>)
      BY <1>8, <1>13 DEF IsVisit
    <2>2. index \in Nat /\ index < l /\ index < n /\ index + 1 \in 1 .. l
      <3>1. l \in Nat /\ index \in 0 .. l - 1 /\ n \in Nat /\ l <= n
        BY <1>2, <1>5, <2>1
      <3> QED
        BY ONLY <3>1
    <2>3. First(s, index + 1)
      BY <1>2, <2>1, <2>2 DEF First
    <2>4. m.main[index + 1] = env[name]
      <3>1. s[index + 1] = name /\ name \in Needs(k) /\ name # "$$"
        BY <1>2, <1>9, <1>13, <2>1
      <3>2. m.main[index + 1] = Worth(env, s[index + 1])
        BY <1>5, <1>6, <2>2, <2>3, <3>1 DEF Mirrors
      <3> QED
        BY <3>1, <3>2 DEF Worth
    <2>5. CASE /\ next.stack = <<Value>> \o code.stack
               /\ next.ops = Append(code.ops, <<"PICK", index>>)
      <3>1. PICK m2 : m2 = Exec(m, <<"PICK", index>>)
        OBVIOUS
      <3>2. Sized(m2, Contents, 1 + n, 0) /\ OneMore(m2, m, n, m.main[index + 1])
        BY <1>5, <1>6, <1>10, <2>2, <3>1, PickEffect
      <3>3. Run(before, next.ops) = m2
        BY <1>4, <2>5, <3>1
      <3>4. Computing(next, m2, k + 1, rest)
        BY <1>2, <1>11, <2>4, <2>5, <3>2
      <3> QED
        BY <1>3, <3>2, <3>3, <3>4 DEF OneMore
    <2>6. CASE /\ depths = <<>> /\ name \notin Needs(k + 1)
               /\ next.stack = <<Value>> \o Without(code.stack, index)
               /\ next.ops = Append(code.ops, <<"ROLL", index>>)
      <3>1. PICK m2 : m2 = Exec(m, <<"ROLL", index>>)
        OBVIOUS
      <3>2. Raised(m2, m, n, index)
        BY <1>5, <1>6, <1>10, <2>2, <3>1, RollEffect
      <3>3. Run(before, next.ops) = m2
        BY <1>4, <2>6, <3>1
      <3>4. Mirrors(<<Value>> \o Without(s, index), m2, rest, Needs(k + 1), env)
        <4>1. Value \notin Needs(k + 1) /\ s[index + 1] \notin Needs(k + 1) /\ index < Len(s)
          BY <1>2, <1>5, <1>9, <2>1, <2>2, <2>6
        <4> QED
          BY <1>1, <1>6, <1>9, <2>2, <3>1, <4>1, MirrorsRolled
      <3>5. k <= index
        <4>1. ASSUME ~(k <= index) PROVE FALSE
          <5>1. index + 1 \in 1 .. k
            BY <2>2, <4>1
          <5> QED
            BY <1>2, <1>7, <1>9, <1>13, <2>1, <5>1
        <4> QED
          BY <4>1
      <3>6. \A i \in 1 .. k + 1 : m2.main[i] = env[Node.operands[k + 1 + 1 - i]]
        <4> TAKE i \in 1 .. k + 1
        <4>1. CASE i = 1
          BY <1>8, <2>4, <3>2, <4>1 DEF Raised
        <4>2. CASE i # 1
          <5>1. PICK j \in 1 .. k : i = j + 1 /\ k + 1 + 1 - i = k + 1 - j
            <6>1. i - 1 \in 1 .. k /\ i = (i - 1) + 1 /\ k + 1 + 1 - i = k + 1 - (i - 1)
              BY <4>2
            <6> QED
              BY <6>1
          <5>2. j \in 1 .. index
            BY <2>2, <3>5
          <5> QED
            BY <1>6, <3>2, <5>1, <5>2 DEF Raised
        <4> QED
          BY <4>1, <4>2
      <3>7. Computing(next, m2, k + 1, rest)
        BY <1>2, <2>6, <3>4, <3>6 DEF Computing
      <3> QED
        BY <1>3, <3>2, <3>3, <3>7 DEF Raised
    <2> QED
      BY <2>1, <2>5, <2>6
  <1>14. \/ /\ name \in Inline
            /\ next.stack = <<Value>> \o code.stack
            /\ next.ops = Append(code.ops, <<"PUSH", <<Argument(name)>>>>)
         \/ name \notin Inline
    BY <1>8 DEF IsVisit
  <1> QED
    BY <1>12, <1>13, <1>14

LEMMA OperandsComputed ==
  ASSUME ScopeInv, GeneratorInv, SymbolsInv, phase = "generate", Node.kind # "function",
         \A name \in Inline : env[name] = Argument(name),
         NEW before, NEW rest, Mirrors(stack, before, rest, Wanted(at, Current), env),
         NEW visited, AreVisits(visited), NEW n \in Nat, n = Len(Node.operands)
  PROVE  Computing(visited[n], Run(before, visited[n].ops), n, rest)
  <1> DEFINE D == {k \in Nat : k <= n => Computing(visited[k], Run(before, visited[k].ops), k, rest)}
             first == [stack |-> stack, ops |-> <<>>, crashed |-> FALSE]
  <1>1. /\ \A k \in 0 .. n : Identified(visited[k], k)
        /\ \A k \in 0 .. n - 1 : IsVisit(visited[k], visited[k + 1], k + 1)
    BY VisitsHold
  <1>2. 0 \in D
    <2>1. visited[0] = first
      BY DEF AreVisits
    <2>2. first.stack = stack /\ Run(before, first.ops) = before
      BY RunOfNone
    <2> HIDE DEF first
    <2>3. Needs(0) \subseteq Wanted(at, Current)
      BY DEF Needs
    <2>4. Mirrors(stack, before, rest, Needs(0), env)
      BY <2>3 DEF Mirrors
    <2>5. Computing(first, before, 0, rest)
      BY <2>2, <2>4 DEF Computing
    <2> QED
      BY <2>1, <2>2, <2>5
  <1>3. ASSUME NEW k \in Nat, k \in D PROVE k + 1 \in D
    <2> SUFFICES ASSUME k + 1 <= n
                 PROVE  Computing(visited[k + 1], Run(before, visited[k + 1].ops), k + 1, rest)
      OBVIOUS
    <2>1. k \in 0 .. n /\ k \in 0 .. n - 1 /\ k < Len(Node.operands)
      OBVIOUS
    <2>2. Computing(visited[k], Run(before, visited[k].ops), k, rest)
      BY <1>3, <2>1
    <2>3. Identified(visited[k], k) /\ IsVisit(visited[k], visited[k + 1], k + 1)
      BY <1>1, <2>1
    <2> HIDE DEF D
    <2> QED
      BY <2>1, <2>2, <2>3, OperandComputed
  <1>4. n \in D
    <2> HIDE DEF D
    <2> QED
      BY <1>2, <1>3, InductionOnSet
  <1> QED
    BY <1>4

\* What the operators of an expression have computed with, and left.
Computes(code, m, rest, results) ==
    /\ Mirrors(code.stack, m, rest, Needs(Len(Node.operands)), env)
    /\ m.operands = [k \in DOMAIN Node.operands |-> env[Node.operands[k]]]
    /\ \A i \in 1 .. Len(results) : m.main[i] = results[i]

LEMMA ExpressionComputes ==
  ASSUME ScopeInv, GeneratorInv, SymbolsInv, phase = "generate", Node.kind # "function",
         \A name \in Inline : env[name] = Argument(name),
         NEW before, NEW rest, Mirrors(stack, before, rest, Wanted(at, Current), env),
         NEW results \in Seq(Contents), NEW code, code = Expression(results)
  PROVE  Computes(code, Run(before, code.ops), rest, results)
  <1>1. header \in Headers /\ Node.operands \in Seq(Names)
    BY NodeIs
  <1>2. PICK n \in Nat, r \in Nat : n = Len(Node.operands) /\ r = Len(results)
    BY <1>1, LenProperties
  <1>3. PICK visited : AreVisits(visited) /\ Identifiers = visited[n]
    <2>1. \E visited : AreVisits(visited) /\ Identifiers = visited[Len(Node.operands)]
      BY <1>1, VisitsExist DEF AreVisits, Identifiers
    <2> QED
      BY <1>2, <2>1
  <1>4. Identified(Identifiers, n) /\ Computing(Identifiers, Run(before, Identifiers.ops), n, rest)
    <2>1. \A k \in 0 .. n : Identified(visited[k], k)
      BY <1>2, <1>3, VisitsHold
    <2>2. Computing(visited[n], Run(before, visited[n].ops), n, rest)
      BY <1>2, <1>3, OperandsComputed
    <2> QED
      BY <1>2, <1>3, <2>1, <2>2
  <1>5. PICK s, o, c : /\ Identifiers = [stack |-> s, ops |-> o, crashed |-> c]
                       /\ s \in Seq(Slots) /\ c \in BOOLEAN
                       /\ \E T : o \in Seq(T)
    BY <1>4 DEF IsCode, Identified
  <1>6. PICK m : m = Run(before, o)
    OBVIOUS
  <1>7. PICK l \in Nat, more \in Nat : l = Len(s) /\ more = Len(rest)
    BY <1>4, <1>5 DEF Computing, Mirrors
  <1>8. /\ n <= l /\ Mirrors(s, m, rest, Needs(n), env) /\ Sized(m, Contents, l + more, 0)
        /\ \A i \in 1 .. n : s[i] = Value
        /\ \A i \in 1 .. n : m.main[i] = env[Node.operands[n + 1 - i]]
    BY <1>4, <1>5, <1>6, <1>7 DEF Identified, Computing, Mirrors
  <1>9. PICK values, left, op : /\ values = Times(r, Value) /\ left = From(s, n)
                                /\ op = <<"COMPUTE", n, results>>
    OBVIOUS
  <1>10. code.stack = values \o left /\ code.ops = Append(o, op)
    <2>1. code = [Identifiers EXCEPT !.stack = values \o left, !.ops = Append(@, op)]
      <3>1. Times(Len(results), Value) = values /\ From(Identifiers.stack, n) = left
        BY <1>2, <1>5, <1>9
      <3> QED
        BY <1>2, <1>9, <3>1 DEF Expression
    <2> QED
      BY <1>5, <2>1
  <1>11. PICK m2 : m2 = Run(before, code.ops) /\ m2 = Exec(m, op)
    <2>1. PICK T : o \in Seq(T)
      BY <1>5
    <2> QED
      BY <1>5, <1>6, <1>10, <2>1, OneMoreOp
  <1>12. /\ Sized(m2, Contents, r + (l + more - n), 0)
         /\ \A i \in 1 .. r : m2.main[i] = results[i]
         /\ \A i \in 1 .. l + more - n : m2.main[r + i] = m.main[n + i]
         /\ m2.operands = [i \in 1 .. n |-> m.main[n - i + 1]]
    <2>1. PICK q \in Nat : q = l + more
      OBVIOUS
    <2>2. Sized(m, Contents, q, 0) /\ n <= q /\ Missing \in Contents
      BY <1>8, <2>1, MachineTypes
    <2>3. m2 = Exec(m, <<"COMPUTE", n, results>>)
      BY <1>9, <1>11
    <2>4. Sized(m2, Contents, r + (q - n), 0) /\ Yields(m2, m, q, n, results, r)
      BY ONLY n \in Nat, q \in Nat, results \in Seq(Contents), <1>2, <2>2, <2>3, ComputeEffect
    <2> QED
      BY <2>1, <2>4 DEF Yields
  <1>13. /\ left \in Seq(Slots) /\ Len(left) = l - n
         /\ \A i \in 1 .. l - n : left[i] = s[n + i]
    <2>1. s \in Seq(Slots) /\ n <= Len(s)
      BY <1>5, <1>7, <1>8
    <2>2. /\ From(s, n) \in Seq(Slots) /\ Len(From(s, n)) = Len(s) - n
          /\ \A i \in 1 .. Len(s) - n : From(s, n)[i] = s[n + i]
      BY <2>1, SlotsBehind
    <2> QED
      BY <1>7, <1>9, <2>2
  <1>14. values \in Seq(Slots) /\ Len(values) = r /\ \A i \in 1 .. r : values[i] = Value
    BY <1>9, TimesValue
  <1>15. PICK t : t = values \o left
    OBVIOUS
  <1>16. /\ Len(t) = r + (l - n) /\ \A i \in 1 .. l - n : t[r + i] = s[n + i]
         /\ \A i \in 1 .. r : t[i] = Value
    <2>1. /\ Len(t) = r + (l - n) /\ \A i \in 1 .. r : t[i] = values[i]
          /\ \A i \in 1 .. l - n : t[r + i] = left[i]
      <3>1. PICK b : b = l - n
        OBVIOUS
      <3>2. r = Len(values) /\ b = Len(left)
        BY <1>13, <1>14, <3>1
      <3>3. /\ Len(t) = r + b /\ \A i \in 1 .. r : t[i] = values[i]
            /\ \A i \in 1 .. b : t[r + i] = left[i]
        <4>1. /\ Len(values \o left) = r + b
              /\ \A i \in 1 .. r : (values \o left)[i] = values[i]
              /\ \A i \in 1 .. b : (values \o left)[r + i] = left[i]
          <5>1. PICK v, w : v = values /\ w = left
            OBVIOUS
          <5>2. v \in Seq(Slots) /\ w \in Seq(Slots) /\ r = Len(v) /\ b = Len(w)
            BY <1>13, <1>14, <3>2, <5>1
          <5>3. /\ Len(v \o w) = r + b
                /\ \A i \in 1 .. r : (v \o w)[i] = v[i]
                /\ \A i \in 1 .. b : (v \o w)[r + i] = w[i]
            BY ONLY <5>2, JoinedSlots
          <5> QED
            BY <5>1, <5>3
        <4> QED
          BY <1>15, <4>1
      <3> QED
        BY <3>1, <3>3
    <2> QED
      BY <1>13, <1>14, <2>1
  <1>17. Value \notin Needs(n)
    BY <1>1, NamesAreNoMarks DEF Needs, Wanted
  <1>18. MirroredOnTop(t, r, s, n, m2, m, more)
    <2>1. l + more - n = (l - n) + more /\ Len(t) + more = r + (l + more - n)
      BY <1>16
    <2> QED
      BY <1>7, <1>12, <1>16, <2>1 DEF MirroredOnTop
  <1>19. Mirrors(t, m2, rest, Needs(n), env)
    <2>1. \A i \in 1 .. n : s[i] \notin Needs(n)
      BY <1>8, <1>17
    <2>2. \A i \in 1 .. r : t[i] \in Needs(n) /\ First(t, i) => m2.main[i] = Worth(env, t[i])
      BY <1>16, <1>17
    <2>3. \A y \in Needs(n) : (\E i \in 1 .. r : t[i] = y)
                              \/ (y \in Needs(n) /\ Worth(env, y) = Worth(env, y))
      OBVIOUS
    <2>4. n <= Len(s)
      BY <1>7, <1>8
    <2> QED
      BY <1>7, <1>8, <1>18, <2>1, <2>2, <2>3, <2>4, MirrorsOnTop
  <1>20. m2.operands = [k \in DOMAIN Node.operands |-> env[Node.operands[k]]]
    <2>1. DOMAIN Node.operands = 1 .. n
      BY <1>1, <1>2, LenProperties
    <2>2. ASSUME NEW k \in 1 .. n PROVE m.main[n - k + 1] = env[Node.operands[k]]
      <3>1. n - k + 1 \in 1 .. n /\ n + 1 - (n - k + 1) = k
        OBVIOUS
      <3> QED
        BY <1>8, <3>1
    <2> QED
      BY <1>12, <2>1, <2>2
  <1> QED
    BY <1>2, <1>10, <1>11, <1>12, <1>15, <1>19, <1>20 DEF Computes

-----------------------------------------------------------------------------
(* What the machine holds.                                                 *)

\* The arguments below the slots, while the f-th function is visited.
RestOf(f) ==
    IF f = selected THEN <<>>
      ELSE (IF f = 0 /\ Len(Functions) > 1 THEN <<Selector>> ELSE <<>>)
             \o Values(Reverse(Functions[selected]))

\* The slots of the names that are wanted have their values.
SlotsHold(a, f, st, m, e) == Mirrors(st, m, RestOf(f), Wanted(a, f), e)

\* The slots the next function starts with, until the selected one is reached.
CopyValues(a, f, copy, m, e) ==
    f > 0 /\ Len(Functions) > 1 /\ f < selected =>
      Mirrors(copy, m, RestOf(f), Later(a, f) \cup {"$$"}, e)

\* Outermost side of the path that is not executed.
Outer(t) == t <= Len(taken) /\ ~taken[t] /\ \A u \in t + 1 .. Len(taken) : taken[u]

\* On the path the machine has the values of the slots.  While a side is visited that is
\* not on it, it keeps those it had at the branch.
ValuesInv ==
    /\ Live /\ Current \in {0, selected} => SlotsHold(at, Current, stack, Settled, env)
    /\ \A t \in 1 .. Len(depths) : Outer(t) =>
         SlotsHold(at, Current, From(stack, Len(stack) - depths[t]), Settled, env)
    /\ CopyValues(at, Current, stackCopy, Settled, env)
    /\ \A name \in Inline : env[name] = Argument(name)
    /\ machine.operands = meant

LEMMA ValuesNext ==
  ASSUME header' = header, program' = program, selected' = selected,
         NEW a \in Nat, at' = a, NEW f, Current' = f,
         Live' /\ f \in {0, selected} => SlotsHold(a, f, stack', Settled', env'),
         \A t \in 1 .. Len(depths') : Outer(t)' =>
           SlotsHold(a, f, From(stack', Len(stack') - depths'[t]), Settled', env'),
         CopyValues(a, f, stackCopy', Settled', env'),
         \A name \in Inline : env'[name] = Argument(name),
         machine'.operands = meant'
  PROVE  ValuesInv'
  <1>1. RestOf(Current)' = RestOf(f) /\ Inline' = Inline /\ Functions' = Functions
    BY HeaderFixed DEF RestOf, Inline
  <1>2. Wanted(at, Current)' = Wanted(a, f)
    BY ScopesKept, HeaderFixed DEF Wanted, Inline
  <1>3. Later(at, Current)' = Later(a, f)
    <2>1. \A name : \A i \in Nat : FunctionOf(DeclarationOf(name, i))' = FunctionOf(DeclarationOf(name, i))
      BY DEF FunctionOf, DeclarationOf, IsNode, Nodes
    <2> QED
      BY <2>1, ScopesKept, HeaderFixed DEF Later, Inline
  <1>4. Contents' = Contents
    BY HeaderFixed
  <1>5. SlotsHold(a, f, stack', Settled', env') => SlotsHold(at, Current, stack, Settled, env)'
    BY <1>1, <1>2, <1>4 DEF SlotsHold, Mirrors, Sized, MachinesOf, First, Worth
  <1>6. ASSUME NEW t, SlotsHold(a, f, From(stack', Len(stack') - depths'[t]), Settled', env')
        PROVE  SlotsHold(at, Current, From(stack, Len(stack) - depths[t]), Settled, env)'
    <2>1. From(stack, Len(stack) - depths[t])' = From(stack', Len(stack') - depths'[t])
      BY DEF From
    <2> QED
      BY <1>1, <1>2, <1>4, <1>6, <2>1 DEF SlotsHold, Mirrors, Sized, MachinesOf, First, Worth
  <1>7. Mirrors(stackCopy', Settled', RestOf(f), Later(a, f) \cup {"$$"}, env') =>
          Mirrors(stackCopy, Settled, RestOf(Current), Later(at, Current) \cup {"$$"}, env)'
    BY <1>1, <1>3, <1>4 DEF Mirrors, Sized, MachinesOf, First, Worth
  <1>8. CopyValues(at, Current, stackCopy, Settled, env)'
    BY <1>1, <1>7 DEF CopyValues
  <1> QED
    BY <1>1, <1>5, <1>6, <1>8 DEF ValuesInv

\* What is wanted behind a node was wanted before it, or is declared there.
LEMMA NeedsBehind ==
  ASSUME ScopeInv, GeneratorInv, phase = "generate", NEW name \in Wanted(at + 1, Current)
  PROVE  Declares(program, at, name) \/ \A k : name \in Needs(k)
  <1>1. at \in 1 .. Len(program)
    BY AtIs
  <1>2. Declares(program, at, name) \/ name \in Wanted(at, Current)
    BY <1>1, WantedNext
  <1> QED
    BY <1>2 DEF Needs

\* A statement puts names on top of what its expression leaves below its r results, and
\* values on top of the values of that.
Named(st, names, m2, code, m, r, more) ==
    /\ names \in Seq(Names) /\ st = names \o From(code.stack, r)
    /\ code.stack \in Seq(Slots) /\ r <= Len(code.stack)
    /\ \A i \in 1 .. r : code.stack[i] = Value
    /\ Sized(m2, Contents, Len(names) + (Len(code.stack) - r + more), 0)
    /\ \A i \in 1 .. Len(code.stack) - r + more : m2.main[Len(names) + i] = m.main[r + i]

\* The names are given the values, and nothing else is.
Assigned(names, m2, d) ==
    /\ \A i \in 1 .. Len(names) : m2.main[i] = d[names[i]]
    /\ \A name \in Names : name \in Range(names) \/ d[name] = env[name]
    /\ \A name : Declares(program, at, name) => name \in Range(names)

LEMMA StatementValues ==
  ASSUME ScopeInv, GeneratorInv, phase = "generate",
         NEW code, NEW m, NEW rest, NEW results, Computes(code, m, rest, results),
         NEW r \in Nat, NEW names, NEW st, NEW m2, Named(st, names, m2, code, m, r, Len(rest)),
         NEW d, Assigned(names, m2, d)
  PROVE  Mirrors(st, m2, rest, Wanted(at + 1, Current), d)
  <1>1. header \in Headers
    BY NodeIs
  <1>2. PICK lower \in Seq(Slots) : lower = code.stack
    BY DEF Named
  <1>3. PICK l \in Nat, more \in Nat : l = Len(lower) /\ more = Len(rest)
    BY <1>2 DEF Computes, Mirrors
  <1> DEFINE n == Len(Node.operands)
  <1>4. PICK c \in Nat : Mirrors(lower, m, rest, Needs(n), env) /\ r <= l /\ c = l - r + more
    <2>1. Mirrors(lower, m, rest, Needs(n), env) /\ r <= l
      BY <1>2, <1>3 DEF Computes, Named
    <2>2. l - r + more \in Nat
      BY <1>3, <2>1
    <2> QED
      BY <2>1, <2>2
  <1>5. PICK b \in Nat : b = l - r
    BY <1>4
  <1> DEFINE k == Len(names)
             below == From(lower, r)
  <1>6. /\ names \in Seq(Names) /\ k \in Nat /\ st = names \o below
        /\ \A i \in 1 .. r : lower[i] = Value
        /\ Sized(m2, Contents, k + c, 0) /\ \A i \in 1 .. c : m2.main[k + i] = m.main[r + i]
    <2>1. c = Len(code.stack) - r + Len(rest)
      BY <1>2, <1>3, <1>4
    <2> QED
      BY <1>2, <2>1, LenProperties DEF Named
  <1> HIDE DEF k, below
  <1>7. below \in Seq(Slots) /\ Len(below) = b /\ \A i \in 1 .. b : below[i] = lower[r + i]
    <2>1. /\ From(lower, r) \in Seq(Slots) /\ Len(From(lower, r)) = Len(lower) - r
          /\ \A i \in 1 .. Len(lower) - r : From(lower, r)[i] = lower[r + i]
      <3>1. r <= Len(lower)
        BY <1>3, <1>4
      <3> QED
        BY ONLY lower \in Seq(Slots), r \in Nat, <3>1, SlotsBehind
    <2> QED
      BY <1>3, <1>5, <2>1 DEF below
  <1>8. names \in Seq(Slots)
    <2>1. Names \subseteq Slots
      BY MachineTypes
    <2> QED
      BY <1>6, <2>1
  <1>9. /\ Len(st) = k + b /\ \A i \in 1 .. k : st[i] = names[i]
        /\ \A i \in 1 .. b : st[k + i] = lower[r + i]
    <2>1. /\ Len(names \o below) = k + b /\ \A i \in 1 .. k : (names \o below)[i] = names[i]
          /\ \A i \in 1 .. b : (names \o below)[k + i] = below[i]
      <3>1. PICK v, w : v = names /\ w = below
        OBVIOUS
      <3>2. v \in Seq(Slots) /\ w \in Seq(Slots) /\ k = Len(v) /\ b = Len(w)
        BY <1>7, <1>8, <3>1 DEF k
      <3>3. /\ Len(v \o w) = k + b /\ \A i \in 1 .. k : (v \o w)[i] = v[i]
            /\ \A i \in 1 .. b : (v \o w)[k + i] = w[i]
        BY ONLY <3>2, JoinedSlots
      <3> QED
        BY <3>1, <3>3
    <2> QED
      BY <1>6, <1>7, <2>1
  <1>10. MirroredOnTop(st, k, lower, r, m2, m, more)
    <2>1. Len(st) = k + (l - r) /\ Len(st) + more = k + c /\ (l - r) + more = c
      <3>1. c = l - r + more /\ b = l - r /\ Len(st) = k + b
        BY <1>4, <1>5, <1>9
      <3> QED
        BY ONLY l \in Nat, more \in Nat, b \in Nat, c \in Nat, <1>6, r \in Nat, <3>1
    <2> QED
      BY <1>3, <1>5, <1>6, <1>9, <2>1 DEF MirroredOnTop
  <1>11. PICK V : V = Wanted(at + 1, Current) /\ V \subseteq Names
    BY DEF Wanted
  <1>12. Value \notin V /\ "$$" \notin V
    BY <1>1, <1>11, NamesAreNoMarks
  <1>13. \A i \in 1 .. r : lower[i] \notin V
    BY <1>6, <1>12
  <1>14. \A i \in 1 .. k : st[i] \in V /\ First(st, i) => m2.main[i] = Worth(d, st[i])
    BY <1>9, <1>12 DEF Worth, Assigned, k
  <1>15. ASSUME NEW x \in V, ~\E i \in 1 .. k : st[i] = x
         PROVE  x \in Needs(n) /\ Worth(d, x) = Worth(env, x)
    <2>1. x \notin Range(names)
      <3>1. DOMAIN names = 1 .. k
        BY <1>6, LenProperties DEF k
      <3> QED
        BY <1>9, <1>15, <3>1 DEF Range
    <2>2. x \in Needs(n)
      BY <1>11, <2>1, NeedsBehind DEF Assigned
    <2>3. x \in Wanted(at, Current) /\ x # "$$"
      BY <1>12, <2>2 DEF Needs
    <2> QED
      BY <1>11, <2>1, <2>2, <2>3 DEF Worth, Assigned
  <1>16. Mirrors(st, m2, rest, V, d)
    <2>1. r <= Len(lower)
      BY <1>3, <1>4
    <2>2. PICK before, W : before = m /\ W = Needs(n) /\ Mirrors(lower, before, rest, W, env)
      BY <1>4
    <2>3. \A x \in V : (\E i \in 1 .. k : st[i] = x) \/ (x \in W /\ Worth(d, x) = Worth(env, x))
      BY <1>15, <2>2
    <2>4. MirroredOnTop(st, k, lower, r, m2, before, more)
      BY <1>10, <2>2
    <2>5. k \in Nat
      BY <1>6
    <2> QED
      BY ONLY r \in Nat, <1>3, <2>5, <1>13, <1>14, <2>1, <2>2, <2>3, <2>4, MirrorsOnTop
  <1> QED
    BY <1>11, <1>16

\* The same slots, of fewer names that matter.
LEMMA MirrorsSame ==
  ASSUME NEW lower, NEW m, NEW rest, NEW W, NEW e, Mirrors(lower, m, rest, W, e),
         NEW st, Len(st) = Len(lower), \A i \in 1 .. Len(lower) : st[i] = lower[i],
         NEW V, \A i \in 1 .. Len(lower) : lower[i] \in V => lower[i] \in W
  PROVE  Mirrors(st, m, rest, V, e)
  <1>1. PICK l \in Nat, more \in Nat : l = Len(lower) /\ l = Len(st) /\ more = Len(rest)
    BY DEF Mirrors
  <1>2. /\ Sized(m, Contents, l + more, 0) /\ \A i \in 1 .. more : m.main[l + i] = rest[i]
        /\ \A i \in 1 .. l : lower[i] \in W /\ First(lower, i) => m.main[i] = Worth(e, lower[i])
    BY <1>1 DEF Mirrors
  <1>3. ASSUME NEW i \in 1 .. l, st[i] \in V, First(st, i) PROVE m.main[i] = Worth(e, st[i])
    <2>1. \A j \in 1 .. i - 1 : lower[j] = st[j] /\ lower[i] = st[i]
      BY <1>1
    <2>2. First(lower, i) /\ lower[i] = st[i]
      BY <1>1, <1>3, <2>1 DEF First
    <2> QED
      BY <1>1, <1>2, <1>3, <2>2
  <1> QED
    BY <1>1, <1>2, <1>3 DEF Mirrors

LEMMA SidesAre ==
  ASSUME GeneratorInv, phase = "generate", Node.kind # "function"
  PROVE  /\ Before # "end" /\ Len(taken) = Len(depths) + In(Current)
         /\ Current > 0 => taken[Len(taken)] = (Current = selected)
         /\ Live => Current \in {0, selected}
         /\ Current > 0 /\ Current < selected => ~Live
  <1>1. Before # "end"
    BY NodeIs DEF NodeFits
  <1>2. /\ Len(taken) = Len(depths) + In(Current)
        /\ Current > 0 => taken[Len(taken)] = (Current = selected)
    BY <1>1 DEF GeneratorInv, Sides, In
  <1>3. DOMAIN taken = 1 .. Len(taken) /\ Len(taken) \in Nat /\ Len(depths) \in Nat /\ Current \in Nat
    BY PathTypes
  <1>4. ASSUME Current > 0, Current # selected PROVE ~Live
    <2>1. Len(taken) \in DOMAIN taken
      BY <1>2, <1>3, <1>4 DEF In
    <2> QED
      BY <1>2, <1>4, <2>1 DEF Live
  <1> QED
    BY <1>1, <1>2, <1>3, <1>4

\* What is not on the path stays as it was at the branch, when nothing becomes wanted but
\* what is declared anew.
LEMMA SlotsStay ==
  ASSUME ScopeInv, GeneratorInv, SymbolsInv, phase = "generate", NEW m, NEW e,
         NEW lower, SlotsHold(at, Current, lower, m, e),
         \A i \in 1 .. Len(lower) : lower[i] \in Range(stack),
         NEW st, Len(st) = Len(lower), \A i \in 1 .. Len(lower) : st[i] = lower[i]
  PROVE  SlotsHold(at + 1, Current, st, m, e)
  <1>1. at \in 1 .. Len(program) /\ at \in Nat \ {0}
    BY AtIs
  <1>2. stack \in Seq(Slots) /\ DOMAIN stack = 1 .. Len(stack)
    BY PathTypes, LenProperties
  <1>3. ASSUME NEW i \in 1 .. Len(lower), lower[i] \in Wanted(at + 1, Current)
        PROVE  lower[i] \in Wanted(at, Current)
    <2>1. PICK p \in 1 .. Len(stack) : lower[i] = stack[p]
      BY <1>2 DEF Range
    <2>2. stack[p] \in Names
      BY <1>3, <2>1 DEF Wanted
    <2>3. VisibleAt(program, stack[p], at)
      BY <2>2 DEF SymbolsInv, SymbolsHold, SlotsScoped
    <2>4. ~Declares(program, at, stack[p])
      BY <1>1, <2>3, VisibleNext
    <2> QED
      BY <1>1, <1>3, <2>1, <2>4, WantedNext
  <1>4. Mirrors(lower, m, RestOf(Current), Wanted(at, Current), e)
    BY DEF SlotsHold
  <1> QED
    BY <1>3, <1>4, MirrorsSame DEF SlotsHold

LEMMA CopyStays ==
  ASSUME GeneratorInv, phase = "generate", NEW copy, NEW m, NEW e, CopyValues(at, Current, copy, m, e)
  PROVE  CopyValues(at + 1, Current, copy, m, e)
  <1>1. at \in Nat /\ Current \in Nat
    BY NodeIs
  <1>2. ASSUME Mirrors(copy, m, RestOf(Current), Later(at, Current) \cup {"$$"}, e)
        PROVE  Mirrors(copy, m, RestOf(Current), Later(at + 1, Current) \cup {"$$"}, e)
    <2>1. Later(at + 1, Current) \subseteq Later(at, Current)
      BY <1>1, LaterNext
    <2>2. PICK V, W : V = Later(at + 1, Current) \cup {"$$"} /\ W = Later(at, Current) \cup {"$$"}
      OBVIOUS
    <2>3. V \subseteq W
      BY <2>1, <2>2
    <2> QED
      BY <1>2, <2>2, <2>3, MirrorsSame
  <1> QED
    BY <1>2 DEF CopyValues

\* The same slots of the symbolic stack.
SameSlots(st, lower) ==
    Len(st) = Len(lower) /\ \A i \in 1 .. Len(lower) : st[i] = lower[i] /\ lower[i] \in Range(stack)

\* What lies below a depth is the same on two stacks that agree up to some slots on top.
LEMMA SameBelow ==
  ASSUME stack \in Seq(Slots), NEW st \in Seq(Slots), NEW k \in Nat, Len(st) = Len(stack) + k,
         \A i \in 1 .. Len(stack) : st[k + i] = stack[i], NEW d \in Nat, d <= Len(stack),
         NEW lower, lower = From(stack, Len(stack) - d), NEW below, below = From(st, Len(st) - d)
  PROVE  SameSlots(below, lower)
  <1>1. PICK l \in Nat : l = Len(stack) /\ DOMAIN stack = 1 .. l
    BY LenProperties
  <1>2. PICK c \in Nat : c = l - d /\ d <= l
    <2>1. d <= l /\ l - d \in Nat
      BY <1>1
    <2> QED
      BY <2>1
  <1>3. Len(lower) = d /\ \A i \in 1 .. d : lower[i] = stack[c + i]
    <2>1. c <= Len(stack) /\ Len(stack) - c = d /\ lower = From(stack, c)
      BY <1>1, <1>2
    <2>2. /\ Len(From(stack, c)) = Len(stack) - c
          /\ \A i \in 1 .. Len(stack) - c : From(stack, c)[i] = stack[c + i]
      BY ONLY stack \in Seq(Slots), c \in Nat, <2>1, SlotsBehind
    <2> QED
      BY <2>1, <2>2
  <1>4. Len(below) = d /\ \A i \in 1 .. d : below[i] = st[k + (c + i)]
    <2>1. PICK b \in Nat : b = c + k
      OBVIOUS
    <2>2. b <= Len(st) /\ Len(st) - b = d /\ below = From(st, b)
      BY <1>1, <1>2, <2>1
    <2>3. Len(below) = d /\ \A i \in 1 .. d : below[i] = st[b + i]
      <3>1. /\ Len(From(st, b)) = Len(st) - b
            /\ \A i \in 1 .. Len(st) - b : From(st, b)[i] = st[b + i]
        BY ONLY st \in Seq(Slots), b \in Nat, <2>2, SlotsBehind
      <3> QED
        BY <2>2, <3>1
    <2>4. \A i \in 1 .. d : b + i = k + (c + i)
      BY <2>1
    <2> QED
      BY <2>3, <2>4
  <1>5. \A i \in 1 .. d : c + i \in 1 .. l
    BY <1>2
  <1> QED
    BY <1>1, <1>3, <1>4, <1>5 DEF Range, SameSlots

\* A statement executes on the path; elsewhere it changes only slots on top.
LEMMA StraightValues ==
  ASSUME ScopeInv, GeneratorInv, SymbolsInv, ValuesInv, phase = "generate", Visited,
         Node.kind # "function", depths' = depths, taken' = taken, stackCopy' = stackCopy,
         Live => SlotsHold(at + 1, Current, stack', Settled', env'),
         ~Live => machine' = machine /\ env' = env,
         depths # <<>> => stack' \in Seq(Slots) /\ \E k \in Nat :
           Len(stack') = Len(stack) + k /\ \A i \in 1 .. Len(stack) : stack'[k + i] = stack[i],
         \A name \in Inline : env'[name] = Argument(name), machine'.operands = meant'
  PROVE  ValuesInv'
  <1>1. /\ header' = header /\ program' = program /\ selected' = selected /\ at' = at + 1
        /\ Current' = Current /\ at + 1 \in Nat
    BY VisitedMeans, UnnamedKept, NodeIs
  <1>2. Live' <=> Live
    BY DEF Live
  <1>3. ~Live => Settled = machine /\ Settled' = machine
    BY <1>2 DEF Settled
  <1>4. /\ stack \in Seq(Slots) /\ Len(depths) \in Nat
        /\ \A i \in 1 .. Len(depths) : depths[i] \in Nat /\ depths[i] <= Len(stack)
    BY PathTypes
  <1>5. Live' /\ Current \in {0, selected} => SlotsHold(at + 1, Current, stack', Settled', env')
    BY <1>2
  <1>6. ASSUME NEW t \in 1 .. Len(depths'), Outer(t)'
        PROVE  SlotsHold(at + 1, Current, From(stack', Len(stack') - depths'[t]), Settled', env')
    <2>1. Outer(t) /\ t \in 1 .. Len(depths)
      BY <1>6 DEF Outer
    <2>2. ~Live
      <3>1. t \in DOMAIN taken
        <4>1. DOMAIN taken = 1 .. Len(taken) /\ Len(taken) \in Nat /\ t \in Nat /\ 1 <= t
          BY <1>4, <2>1, PathTypes
        <4> QED
          BY <2>1, <4>1 DEF Outer
      <3> QED
        BY <2>1, <3>1 DEF Outer, Live
    <2>3. PICK lower, below : /\ lower = From(stack, Len(stack) - depths[t])
                              /\ below = From(stack', Len(stack') - depths[t])
      OBVIOUS
    <2>4. SlotsHold(at, Current, lower, machine, env)
      BY <1>3, <2>1, <2>2, <2>3 DEF ValuesInv
    <2>5. depths # <<>>
      BY <2>1
    <2>6. PICK k \in Nat : /\ Len(stack') = Len(stack) + k
                           /\ \A i \in 1 .. Len(stack) : stack'[k + i] = stack[i]
      BY <2>5
    <2>7. PICK d \in Nat, st \in Seq(Slots) : st = stack' /\ d = depths[t] /\ d <= Len(stack)
      BY <1>4, <2>1, <2>5
    <2>8. SameSlots(below, lower)
      <3>1. /\ Len(st) = Len(stack) + k /\ \A i \in 1 .. Len(stack) : st[k + i] = stack[i]
            /\ lower = From(stack, Len(stack) - d) /\ below = From(st, Len(st) - d)
        BY <2>3, <2>6, <2>7
      <3> QED
        BY ONLY <1>4, <2>7, st \in Seq(Slots), d \in Nat, k \in Nat, <3>1, SameBelow
    <2>9. SlotsHold(at + 1, Current, below, machine, env)
      BY <2>4, <2>8, SlotsStay DEF SameSlots
    <2> QED
      BY <1>3, <2>2, <2>3, <2>9
  <1>7. CopyValues(at + 1, Current, stackCopy', Settled', env')
    <2>1. CASE Current > 0 /\ Current < selected
      <3>1. ~Live
        BY <2>1, SidesAre
      <3>2. CopyValues(at, Current, stackCopy, machine, env)
        BY <1>3, <3>1 DEF ValuesInv
      <3> QED
        BY <1>3, <3>1, <3>2, CopyStays
    <2>2. CASE ~(Current > 0 /\ Current < selected)
      BY <2>2 DEF CopyValues
    <2> QED
      BY <2>1, <2>2
  <1> QED
    BY <1>1, <1>5, <1>6, <1>7, ValuesNext

\* What a compiled expression leaves on the path, and that it has computed with what it
\* means.
LEMMA CompiledValues ==
  ASSUME ScopeInv, GeneratorInv, SymbolsInv, ValuesInv, phase = "generate", Node.kind # "function",
         NEW results \in Seq(Contents), NEW code, code = Expression(results),
         NEW T, NEW ops \in Seq(T), NEW newStack, Compile(code, ops, newStack),
         NEW m, m = Run(Settled, code.ops)
  PROVE  /\ Live => /\ SlotsHold(at, Current, stack, Settled, env)
                    /\ Computes(code, m, RestOf(Current), results)
                    /\ machine' = Run(m, ops) /\ meant' = m.operands
         /\ ~Live => machine' = machine /\ meant' = machine.operands
  <1>1. ~code.crashed /\ Execute(code.ops \o ops) /\ Means
    BY DEF Compile
  <1>2. ASSUME Live PROVE SlotsHold(at, Current, stack, Settled, env)
    <2>1. Current \in {0, selected}
      BY <1>2, SidesAre
    <2> QED
      BY <1>2, <2>1 DEF ValuesInv
  <1>3. ASSUME Live PROVE Computes(code, m, RestOf(Current), results)
    <2>1. Mirrors(stack, Settled, RestOf(Current), Wanted(at, Current), env)
      BY <1>2, <1>3 DEF SlotsHold
    <2>2. \A name \in Inline : env[name] = Argument(name)
      BY DEF ValuesInv
    <2> QED
      BY <2>1, <2>2, ExpressionComputes
  <1>4. ASSUME Live PROVE machine' = Run(m, ops)
    <2>1. Run(Settled, code.ops \o ops) = Run(Run(Settled, code.ops), ops)
      BY <1>1, CompiledIs
    <2> QED
      BY <1>1, <1>4, <2>1 DEF Execute
  <1>5. ASSUME Live PROVE meant' = m.operands
    <2>1. meant' = [k \in DOMAIN Node.operands |-> env[Node.operands[k]]]
      BY <1>1, <1>5 DEF Means
    <2> QED
      BY <1>3, <1>5, <2>1 DEF Computes
  <1>6. ASSUME ~Live PROVE machine' = machine /\ meant' = machine.operands
    BY <1>1, <1>6 DEF Execute, Means, ValuesInv
  <1> QED
    BY <1>2, <1>3, <1>4, <1>5, <1>6

\* The results get names.
Defines(names, results, d) ==
    /\ names \in Seq(Names) /\ Len(results) = Len(names)
    /\ \A i \in 1 .. Len(names) : d[names[i]] = results[i]
    /\ \A name \in Names : name \in Range(names) \/ d[name] = env[name]
    /\ \A name : Declares(program, at, name) => name \in Range(names)
    /\ Inline \cap Range(names) = {}

LEMMA PushedValues ==
  ASSUME ScopeInv, GeneratorInv, SymbolsInv, ValuesInv, phase = "generate",
         Node.kind \in {"define", "tuple", "assign"},
         NEW results \in Seq(Contents), NEW code, code = Expression(results),
         NEW names, NEW d, Defines(names, results, d),
         NEW newStack, newStack = names \o From(code.stack, Len(names)),
         Compile(code, <<>>, newStack), env' = (IF Live THEN d ELSE env),
         depths' = depths, taken' = taken, verify' = FALSE
  PROVE  ValuesInv'
  <1> DEFINE r == Len(names)
  <1>0. /\ names \in Seq(Names) /\ r \in Nat /\ r = Len(results)
        /\ newStack = names \o From(code.stack, r)
        /\ \A i \in 1 .. r : d[names[i]] = results[i]
        /\ \A name \in Names : name \in Range(names) \/ d[name] = env[name]
        /\ \A name : Declares(program, at, name) => name \in Range(names)
        /\ Inline \cap Range(names) = {}
    BY LenProperties DEF Defines
  <1> HIDE DEF r
  <1>1. /\ ~code.crashed /\ Visited /\ stack' = newStack /\ stackCopy' = stackCopy
    BY DEF Compile
  <1>2. PICK lower \in Seq(Slots), l \in Nat :
          /\ lower = code.stack /\ l = Len(lower) /\ r <= l
          /\ \A i \in 1 .. r : lower[i] = Value
    <2>1. /\ code.stack \in Seq(Slots) /\ Len(code.stack) \in Nat /\ Len(code.stack) >= Len(results)
          /\ \A i \in 1 .. Len(results) : code.stack[i] = Value
      BY <1>1, CompiledIs
    <2> QED
      BY <1>0, <2>1
  <1>3. PICK m : m = Run(Settled, code.ops)
    OBVIOUS
  <1>4. <<>> \in Seq({}) /\ Run(m, <<>>) = m
    BY EmptySeq, RunOfNone
  <1>5. /\ Live => /\ SlotsHold(at, Current, stack, Settled, env)
                   /\ Computes(code, m, RestOf(Current), results)
                   /\ machine' = m /\ meant' = m.operands
        /\ ~Live => machine' = machine /\ meant' = machine.operands
    BY <1>3, <1>4, CompiledValues
  <1>6. machine'.operands = meant'
    BY <1>5
  <1>7. Settled' = machine'
    BY DEF Settled
  <1>8. ASSUME Live PROVE SlotsHold(at + 1, Current, stack', Settled', env')
    <2>1. Computes(code, m, RestOf(Current), results) /\ machine' = m
      BY <1>5, <1>8
    <2>2. PICK more \in Nat : more = Len(RestOf(Current)) /\ Sized(m, Contents, l + more, 0)
      BY <1>2, <2>1 DEF Computes, Mirrors
    <2>3. Sized(m, Contents, r + (Len(code.stack) - r + more), 0)
      <3>1. r + (l - r + more) = l + more
        BY <1>0
      <3> QED
        BY <1>2, <2>2, <3>1
    <2>4. Named(newStack, names, m, code, m, r, more)
      BY <1>0, <1>2, <2>3 DEF Named, r
    <2>5. Assigned(names, m, d)
      BY <1>0, <2>1 DEF Computes, Assigned, r
    <2>6. PICK rest : rest = RestOf(Current)
      OBVIOUS
    <2>7. Mirrors(newStack, m, rest, Wanted(at + 1, Current), d)
      BY <1>0, <2>1, <2>2, <2>4, <2>5, <2>6, StatementValues
    <2>8. Mirrors(newStack, m, RestOf(Current), Wanted(at + 1, Current), d)
      BY <2>6, <2>7
    <2> QED
      BY <1>1, <1>7, <1>8, <2>1, <2>8 DEF SlotsHold
  <1>9. ASSUME depths # <<>>
        PROVE  stack' \in Seq(Slots) /\ \E k \in Nat :
                 Len(stack') = Len(stack) + k /\ \A i \in 1 .. Len(stack) : stack'[k + i] = stack[i]
    <2>1. Leaves(code, r)
      BY <1>0, ExpressionLeaves
    <2>2. PICK n \in Nat : n = Len(stack)
      BY PathTypes
    <2>3. l = n + r /\ \A i \in 1 .. n : lower[r + i] = stack[i]
      BY <1>0, <1>2, <1>9, <2>1, <2>2 DEF Leaves
    <2>4. PICK below \in Seq(Slots) : /\ below = From(code.stack, r) /\ Len(below) = n
                                      /\ \A i \in 1 .. n : below[i] = lower[r + i]
      <3>1. r <= Len(lower) /\ Len(lower) - r = n
        BY <1>0, <1>2, <2>3
      <3>3. r \in Nat
        BY <1>0
      <3>2. /\ From(lower, r) \in Seq(Slots) /\ Len(From(lower, r)) = Len(lower) - r
            /\ \A i \in 1 .. Len(lower) - r : From(lower, r)[i] = lower[r + i]
        BY ONLY lower \in Seq(Slots), <3>1, <3>3, SlotsBehind
      <3> QED
        BY <1>2, <3>1, <3>2
    <2>5. PICK v \in Seq(Slots) : v = names
      <3>1. Names \subseteq Slots
        BY MachineTypes
      <3> QED
        BY <1>0, <3>1
    <2>6. /\ v \o below \in Seq(Slots) /\ Len(v \o below) = r + n
          /\ \A i \in 1 .. n : (v \o below)[r + i] = below[i]
      <3>1. r = Len(v) /\ n = Len(below)
        BY <1>0, <2>4, <2>5 DEF r
      <3> QED
        BY ONLY v \in Seq(Slots), below \in Seq(Slots), <3>1, JoinedSlots
    <2>7. stack' = v \o below
      BY <1>0, <1>1, <2>4, <2>5
    <2>8. stack' \in Seq(Slots) /\ Len(stack') = n + r /\ \A i \in 1 .. n : stack'[r + i] = stack[i]
      <3>1. \A i \in 1 .. n : below[i] = stack[i]
        BY ONLY <2>3, <2>4
      <3>2. r + n = n + r
        BY <1>0
      <3> QED
        BY ONLY <2>6, <2>7, <3>1, <3>2
    <2> QED
      BY <1>0, <2>2, <2>8
  <1>10. \A name \in Inline : env'[name] = Argument(name)
    <2>1. Inline \subseteq Names
      BY DEF Inline, Names, NamesOf
    <2> QED
      BY <1>0, <2>1 DEF ValuesInv
  <1>11. ~Live => env' = env /\ machine' = machine
    BY <1>5
  <1> QED
    BY <1>1, <1>6, <1>8, <1>9, <1>10, <1>11, StraightValues

LEMMA DeclaredIsNew ==
  ASSUME ScopeInv, GeneratorInv, phase = "generate"
  PROVE  /\ \A name : Declares(program, at, name) => name \notin Inline
         /\ Inline \subseteq Names
         /\ \A name : Declares(program, at, name) =>
              Node.kind \in {"define", "tuple", "function"} /\ name \in Range(Node.targets)
         /\ Node.kind = "tuple" => Node.targets[1] # Node.targets[2]
         /\ Node.kind = "assign" => Node.targets[1] \in header.assigned
         /\ at \in Nat /\ Computed(at) \in Contents /\ ComputedToo(at) \in Contents
         /\ env \in [Names -> Contents] /\ Node.targets \in Seq(Names)
  <1>1. /\ NodeScoped(program, at) /\ program[at] = Node
        /\ \A name : Declares(program, at, name) <=>
             Node.kind \in {"define", "tuple", "function"} /\ name \in Range(Node.targets)
    BY AtIs
  <1>2. \A name \in Inline : VisibleAt(program, name, at)
    BY DEF VisibleAt, Outermost
  <1>3. at \in Nat /\ Node.targets \in Seq(Names) /\ Inline \subseteq Names
    BY NodeIs DEF Inline, Names, NamesOf
  <1>4. Computed(at) \in Contents /\ ComputedToo(at) \in Contents
    BY <1>3, MachineTypes
  <1> QED
    BY <1>1, <1>2, <1>3, <1>4, HistoryTypes DEF NodeScoped

LEMMA DefinitionValues ==
  ASSUME ScopeInv, GeneratorInv, SymbolsInv, ValuesInv, phase = "generate", GenerateDefinition
  PROVE  ValuesInv'
  <1>1. PICK code, results : code = Expression(results) /\ results = <<Computed(at)>>
    OBVIOUS
  <1>2. /\ Node.kind = "define" /\ Compile(code, <<>>, Node.targets \o Tail(code.stack))
        /\ env' = (IF Live THEN [env EXCEPT ![Node.targets[1]] = Computed(at)] ELSE env)
        /\ verify' = FALSE /\ depths' = depths /\ taken' = taken
    BY <1>1 DEF GenerateDefinition, Becomes, OneResult
  <1>3. PICK names \in Seq(Names), x \in Names :
          names = Node.targets /\ Len(names) = 1 /\ x = names[1] /\ Range(names) = {x}
    <2>1. Node.targets \in Seq(Names) /\ Len(Node.targets) = 1
      BY <1>2, NodeIs DEF NodeFits
    <2>2. DOMAIN Node.targets = 1 .. 1 /\ Node.targets[1] \in Names
      BY <2>1, LenProperties, ElementOfSeq
    <2> QED
      BY <2>1, <2>2 DEF Range
  <1>4. results \in Seq(Contents) /\ Len(results) = 1 /\ results[1] = Computed(at)
    BY <1>1, DeclaredIsNew
  <1>5. Tail(code.stack) = From(code.stack, 1)
    <2>1. code.stack \in Seq(Slots) /\ Len(code.stack) \in Nat \ {0}
      BY <1>1, <1>2, OneResultIs DEF Compile, OneResult
    <2> QED
      BY <2>1, TailIsBehind
  <1>6. PICK d : d = [env EXCEPT ![x] = Computed(at)]
    OBVIOUS
  <1>7. /\ \A i \in 1 .. 1 : d[names[i]] = results[i]
        /\ \A name \in Names : name \in Range(names) \/ d[name] = env[name]
    BY <1>3, <1>4, <1>6, DeclaredIsNew
  <1>8. /\ \A name : Declares(program, at, name) => name \in Range(names)
        /\ Inline \cap Range(names) = {}
    BY <1>2, <1>3, AtIs, DeclaredIsNew
  <1>9. PICK newStack : newStack = names \o From(code.stack, 1)
    OBVIOUS
  <1>10. Compile(code, <<>>, newStack) /\ env' = (IF Live THEN d ELSE env)
    BY <1>2, <1>3, <1>5, <1>6, <1>9
  <1>11. Defines(names, results, d) /\ newStack = names \o From(code.stack, Len(names))
    BY <1>3, <1>4, <1>7, <1>8, <1>9 DEF Defines
  <1> QED
    BY <1>1, <1>2, <1>4, <1>10, <1>11, PushedValues

LEMMA TupleAssignmentValues ==
  ASSUME ScopeInv, GeneratorInv, SymbolsInv, ValuesInv, phase = "generate", GenerateTupleAssignment
  PROVE  ValuesInv'
  <1>1. PICK code, results : /\ code = Expression(results)
                             /\ results = <<ComputedToo(at), Computed(at)>>
    OBVIOUS
  <1>2. /\ Node.kind = "tuple" /\ Compile(code, <<>>, TupleSlots \o From(code.stack, 2))
        /\ env' = (IF Live THEN [env EXCEPT ![Node.targets[1]] = Computed(at),
                                            ![Node.targets[2]] = ComputedToo(at)] ELSE env)
        /\ verify' = FALSE /\ depths' = depths /\ taken' = taken
    BY <1>1 DEF GenerateTupleAssignment
  <1>3. PICK x \in Names, y \in Names : /\ x = Node.targets[1] /\ y = Node.targets[2] /\ x # y
                                        /\ Range(Node.targets) = {x, y}
    <2>1. Node.targets \in Seq(Names) /\ Len(Node.targets) = 2
      BY <1>2, NodeIs DEF NodeFits
    <2>2. DOMAIN Node.targets = 1 .. 2 /\ Node.targets[1] \in Names /\ Node.targets[2] \in Names
      BY <2>1, LenProperties, ElementOfSeq
    <2>3. Range(Node.targets) = {Node.targets[1], Node.targets[2]}
      BY <2>2 DEF Range
    <2> QED
      BY <1>2, <2>2, <2>3, DeclaredIsNew
  <1>4. /\ results \in Seq(Contents) /\ Len(results) = 2
        /\ results[1] = ComputedToo(at) /\ results[2] = Computed(at)
    BY <1>1, DeclaredIsNew
  <1>5. PICK names \in Seq(Names) : /\ names = TupleSlots /\ Len(names) = 2
                                    /\ names[1] = y /\ names[2] = x /\ Range(names) = {x, y}
    <2>1. Node.targets \in Seq(Names) /\ Len(Node.targets) = 2
      BY <1>2, NodeIs DEF NodeFits
    <2>2. TupleSlots = [i \in 1 .. 2 |-> Node.targets[2 - i + 1]]
      BY <2>1 DEF TupleSlots, Reverse
    <2>3. TupleSlots \in Seq(Names) /\ Len(TupleSlots) = 2
      BY <2>1, ReverseType DEF TupleSlots
    <2>4. TupleSlots[1] = y /\ TupleSlots[2] = x
      BY <1>3, <2>2
    <2>5. Range(TupleSlots) = {x, y}
      <3>1. DOMAIN TupleSlots = {1, 2}
        BY <2>2
      <3> QED
        BY <2>4, <3>1 DEF Range
    <2> QED
      BY <2>3, <2>4, <2>5
  <1>6. PICK d : d = [env EXCEPT ![x] = Computed(at), ![y] = ComputedToo(at)]
    OBVIOUS
  <1>7. /\ d[x] = Computed(at) /\ d[y] = ComputedToo(at)
        /\ \A name \in Names : name \in Range(names) \/ d[name] = env[name]
    BY <1>3, <1>5, <1>6, DeclaredIsNew
  <1>8. \A i \in 1 .. 2 : d[names[i]] = results[i]
    BY <1>4, <1>5, <1>7
  <1>9. /\ \A name : Declares(program, at, name) => name \in Range(names)
        /\ Inline \cap Range(names) = {}
    BY <1>2, <1>3, <1>5, AtIs, DeclaredIsNew
  <1>10. PICK newStack : newStack = names \o From(code.stack, 2)
    OBVIOUS
  <1>11. Compile(code, <<>>, newStack) /\ env' = (IF Live THEN d ELSE env)
    BY <1>2, <1>3, <1>5, <1>6, <1>10
  <1>12. Defines(names, results, d) /\ newStack = names \o From(code.stack, Len(names))
    BY <1>4, <1>5, <1>7, <1>8, <1>9, <1>10 DEF Defines
  <1> QED
    BY <1>1, <1>2, <1>4, <1>11, <1>12, PushedValues

LEMMA AssignedIsVariable ==
  ASSUME ValuesTraceable(Headers), ScopeInv, GeneratorInv, phase = "generate", Node.kind = "assign"
  PROVE  Node.targets \in Seq(Names) /\ Len(Node.targets) = 1 /\ Node.targets[1] \in Names \ Inline
         /\ Range(Node.targets) = {Node.targets[1]} /\ Node.targets = <<Node.targets[1]>>
  <1>1. Node.targets \in Seq(Names) /\ Len(Node.targets) = 1 /\ header \in Headers
    BY NodeIs DEF NodeFits
  <1>2. DOMAIN Node.targets = 1 .. 1 /\ Node.targets[1] \in Names
    BY <1>1, LenProperties, ElementOfSeq
  <1>3. Node.targets[1] \notin Inline
    <2>1. Node.targets[1] \in header.assigned
      BY DeclaredIsNew
    <2> QED
      BY <1>1, <2>1 DEF ValuesTraceable, Inline
  <1>4. Node.targets = <<Node.targets[1]>>
    BY <1>1
  <1>5. Range(Node.targets) = {Node.targets[1]}
    BY <1>2 DEF Range
  <1> QED
    BY <1>1, <1>2, <1>3, <1>4, <1>5

\* Outside the branches an assignment gives the name a new slot.
LEMMA MovedValues ==
  ASSUME ValuesTraceable(Headers), ScopeInv, GeneratorInv, SymbolsInv, ValuesInv,
         phase = "generate", Node.kind = "assign", NEW code, code = OneResult,
         Compile(code, <<>>, <<Node.targets[1]>> \o Tail(code.stack)),
         Becomes(Node.targets[1], Computed(at)),
         verify' = FALSE, depths' = depths, taken' = taken
  PROVE  ValuesInv'
  <1>1. PICK results : code = Expression(results) /\ results = <<Computed(at)>>
    BY DEF OneResult
  <1>2. results \in Seq(Contents) /\ Len(results) = 1 /\ results[1] = Computed(at)
    BY <1>1, DeclaredIsNew
  <1>3. PICK names \in Seq(Names), x \in Names : /\ names = <<x>> /\ Len(names) = 1 /\ x = names[1]
                                                 /\ Range(names) = {x} /\ x = Node.targets[1]
                                                 /\ x \notin Inline
    BY AssignedIsVariable
  <1>4. Tail(code.stack) = From(code.stack, 1)
    <2>1. code.stack \in Seq(Slots) /\ Len(code.stack) \in Nat \ {0}
      BY OneResultIs DEF Compile
    <2> QED
      BY <2>1, TailIsBehind
  <1>5. PICK d : d = [env EXCEPT ![x] = Computed(at)]
    OBVIOUS
  <1>6. /\ \A i \in 1 .. 1 : d[names[i]] = results[i]
        /\ \A name \in Names : name \in Range(names) \/ d[name] = env[name]
    BY <1>2, <1>3, <1>5, DeclaredIsNew
  <1>7. \A name : ~Declares(program, at, name)
    BY DeclaredIsNew
  <1>8. PICK newStack : newStack = names \o From(code.stack, Len(names))
    OBVIOUS
  <1>9. Compile(code, <<>>, newStack) /\ env' = (IF Live THEN d ELSE env)
    BY <1>3, <1>4, <1>5, <1>8 DEF Becomes
  <1>10. Defines(names, results, d)
    BY <1>2, <1>3, <1>6, <1>7 DEF Defines
  <1> QED
    BY <1>1, <1>2, <1>8, <1>9, <1>10, PushedValues

\* A condition is checked and its value dropped.
LEMMA CheckedHold ==
  ASSUME ScopeInv, GeneratorInv, SymbolsInv, phase = "generate",
         Node.kind \in {"require", "time", "if"}, NEW code, code = OneResult, ~code.crashed,
         NEW m, Computes(code, m, RestOf(Current), <<Computed(at)>>),
         NEW next, next = Exec(m, <<"DROP">>)
  PROVE  SlotsHold(at + 1, Current, Tail(code.stack), next, env) /\ next.operands = m.operands
  <1>1. PICK lower \in Seq(Slots), l \in Nat \ {0} :
          lower = code.stack /\ l = Len(lower) /\ lower[1] = Value
    BY OneResultIs
  <1>2. PICK rest : /\ rest = RestOf(Current) /\ Len(rest) \in Nat
                    /\ Sized(m, Contents, l + Len(rest), 0)
    BY <1>1 DEF Computes, Mirrors
  <1> DEFINE more == Len(rest)
  <1>3. PICK c \in Nat : c = l + more - 1 /\ c = l - 1 + more /\ l + more = 1 + c
    <2>1. l + more - 1 \in Nat
      OBVIOUS
    <2> QED
      BY <2>1
  <1>4. Sized(next, Contents, c, 0) /\ OneLess(next, m, l + more)
    <2>1. PICK n \in Nat \ {0} : n = l + more /\ n - 1 = c
      BY <1>3
    <2> QED
      BY <1>2, <2>1, DropEffect
  <1>5. Named(Tail(lower), <<>>, next, code, m, 1, more)
    <2>1. Tail(lower) = From(lower, 1) /\ From(lower, 1) \in Seq(Slots)
      <3>1. 1 \in Nat
        OBVIOUS
      <3> QED
        BY <1>1, <3>1, TailIsBehind, FromType
    <2>2. Tail(lower) = <<>> \o From(lower, 1)
      BY <2>1
    <2>3. <<>> \in Seq(Names) /\ Len(<<>>) = 0 /\ 1 <= l
      OBVIOUS
    <2>4. \A i \in 1 .. c : next.main[0 + i] = m.main[1 + i]
      BY <1>3, <1>4 DEF OneLess
    <2>5. 0 + (l - 1 + more) = c
      BY <1>3
    <2>6. \A i \in 1 .. 1 : lower[i] = Value
      BY <1>1
    <2> QED
      BY <1>1, <1>3, <1>4, <2>2, <2>3, <2>4, <2>5, <2>6 DEF Named
  <1>6. Assigned(<<>>, next, env)
    <2>1. \A name : ~Declares(program, at, name)
      BY DeclaredIsNew
    <2>2. Len(<<>>) = 0
      OBVIOUS
    <2> QED
      BY <2>1, <2>2 DEF Assigned
  <1>7. Mirrors(Tail(lower), next, rest, Wanted(at + 1, Current), env)
    <2>1. PICK results, names, st : results = <<Computed(at)>> /\ names = <<>> /\ st = Tail(lower)
      OBVIOUS
    <2>2. /\ Computes(code, m, rest, results) /\ Named(st, names, next, code, m, 1, Len(rest))
          /\ Assigned(names, next, env) /\ 1 \in Nat
      BY <1>2, <1>5, <1>6, <2>1
    <2>3. Mirrors(st, next, rest, Wanted(at + 1, Current), env)
      BY <2>2, StatementValues
    <2> QED
      BY <2>1, <2>3
  <1> QED
    BY <1>1, <1>2, <1>4, <1>7 DEF SlotsHold, OneLess

\* In a branch the slots are those of before, once the value on top is gone.
ConditionLeaves(code) ==
    /\ Tail(code.stack) \in Seq(Slots)
    /\ depths # <<>> => \E k \in Nat :
         /\ Len(Tail(code.stack)) = Len(stack) + k
         /\ \A i \in 1 .. Len(stack) : Tail(code.stack)[k + i] = stack[i]

LEMMA ConditionSlots ==
  ASSUME ScopeInv, GeneratorInv, SymbolsInv, phase = "generate", Node.kind # "function",
         NEW code, code = OneResult, ~code.crashed
  PROVE  ConditionLeaves(code)
  <1>1. PICK lower \in Seq(Slots), l \in Nat \ {0} : lower = code.stack /\ l = Len(lower)
    BY OneResultIs
  <1>2. PICK n \in Nat : n = Len(stack)
    BY PathTypes
  <1>3. PICK results : results = <<Computed(at)>> /\ code = Expression(results)
    BY DEF OneResult
  <1>4. results \in Seq(Contents) /\ Len(results) = 1
    BY <1>3, DeclaredIsNew
  <1>5. Leaves(code, 1)
    BY <1>3, <1>4, ExpressionLeaves
  <1>6. /\ Tail(lower) = From(lower, 1) /\ From(lower, 1) \in Seq(Slots)
        /\ Len(From(lower, 1)) = l - 1 /\ \A i \in 1 .. l - 1 : From(lower, 1)[i] = lower[1 + i]
    <2>1. 1 \in Nat /\ 1 <= Len(lower)
      BY <1>1
    <2>2. Tail(lower) = From(lower, 1)
      BY <1>1, TailIsBehind
    <2>3. /\ From(lower, 1) \in Seq(Slots) /\ Len(From(lower, 1)) = Len(lower) - 1
          /\ \A i \in 1 .. Len(lower) - 1 : From(lower, 1)[i] = lower[1 + i]
      BY ONLY lower \in Seq(Slots), <2>1, SlotsBehind
    <2> QED
      BY <1>1, <2>2, <2>3
  <1>7. ASSUME depths # <<>>
        PROVE  Len(Tail(lower)) = n + 0 /\ \A i \in 1 .. n : Tail(lower)[0 + i] = stack[i]
    <2>1. l = n + 1 /\ \A i \in 1 .. n : lower[1 + i] = stack[i]
      BY <1>1, <1>2, <1>5, <1>7 DEF Leaves
    <2>2. l - 1 = n /\ n + 0 = n /\ \A i \in 1 .. n : 0 + i = i
      BY <2>1
    <2> QED
      BY <1>6, <2>1, <2>2
  <1>8. 0 \in Nat
    OBVIOUS
  <1> QED
    BY <1>1, <1>2, <1>6, <1>7, <1>8 DEF ConditionLeaves

LEMMA CheckedValues ==
  ASSUME ScopeInv, GeneratorInv, SymbolsInv, ValuesInv, phase = "generate",
         GenerateRequire \/ GenerateTimeOp
  PROVE  ValuesInv'
  <1>1. PICK code, results : code = OneResult /\ results = <<Computed(at)>> /\ code = Expression(results)
    BY DEF OneResult
  <1>2. PICK ops : ops = IF Node.kind = "require" THEN <<>> ELSE <<<<"DROP">>>>
    OBVIOUS
  <1>3. /\ Node.kind \in {"require", "time"} /\ Compile(code, ops, Tail(code.stack))
        /\ verify' = (Node.kind = "require") /\ depths' = depths /\ taken' = taken /\ env' = env
    BY <1>1, <1>2 DEF GenerateRequire, GenerateTimeOp
  <1>4. ~code.crashed /\ Visited /\ stack' = Tail(code.stack) /\ stackCopy' = stackCopy
    BY <1>3 DEF Compile
  <1>5. PICK m, T : m = Run(Settled, code.ops) /\ ops \in Seq(T)
    <2>1. <<>> \in Seq({<<"DROP">>}) /\ <<<<"DROP">>>> \in Seq({<<"DROP">>})
      OBVIOUS
    <2> QED
      BY <1>2, <2>1
  <1>6. /\ Live => /\ Computes(code, m, RestOf(Current), results)
                   /\ machine' = Run(m, ops) /\ meant' = m.operands
        /\ ~Live => machine' = machine /\ meant' = machine.operands
    <2>1. results \in Seq(Contents)
      BY <1>1, DeclaredIsNew
    <2>2. PICK newStack : newStack = Tail(code.stack)
      OBVIOUS
    <2> QED
      BY <1>1, <1>3, <1>5, <2>1, <2>2, CompiledValues
  <1>7. PICK next : next = Exec(m, <<"DROP">>)
    OBVIOUS
  <1>8. ASSUME Live
        PROVE  SlotsHold(at + 1, Current, stack', next, env) /\ next.operands = m.operands
    BY <1>1, <1>3, <1>4, <1>6, <1>7, <1>8, CheckedHold
  <1>9. ASSUME Live PROVE Settled' = next /\ machine'.operands = m.operands
    <2>1. Live'
      BY <1>3, <1>9 DEF Live
    <2>2. CASE Node.kind = "require"
      <3>1. machine' = m
        BY <1>2, <1>6, <1>9, <2>2, RunOfNone
      <3>2. Settled' = Run(machine', <<<<"DROP">>>>)
        BY <1>3, <2>1, <2>2 DEF Settled
      <3> QED
        BY <1>7, <3>1, <3>2, RunOfOne
    <2>3. CASE Node.kind = "time"
      <3>1. machine' = next
        BY <1>2, <1>6, <1>7, <1>9, <2>3, RunOfOne
      <3>2. Settled' = machine'
        BY <1>3, <2>3 DEF Settled
      <3> QED
        BY <1>8, <1>9, <3>1, <3>2
    <2> QED
      BY <1>3, <2>2, <2>3
  <1>10. machine'.operands = meant'
    BY <1>6, <1>9
  <1>11. ASSUME depths # <<>>
         PROVE  stack' \in Seq(Slots) /\ \E k \in Nat :
                  Len(stack') = Len(stack) + k /\ \A i \in 1 .. Len(stack) : stack'[k + i] = stack[i]
    <2>1. ConditionLeaves(code)
      BY <1>1, <1>3, <1>4, ConditionSlots
    <2> QED
      BY <1>4, <1>11, <2>1 DEF ConditionLeaves
  <1>12. \A name \in Inline : env'[name] = Argument(name)
    BY <1>3 DEF ValuesInv
  <1> QED
    BY <1>3, <1>4, <1>6, <1>8, <1>9, <1>10, <1>11, <1>12, StraightValues

\* The slot of the target is found, and env changes for the target alone.
Overwrites(code, index, d) ==
    /\ code.stack \in Seq(Slots) /\ Len(code.stack) \in Nat \ {0} /\ code.stack[1] = Value
    /\ Node.targets[1] \in Names
    /\ index \in Nat /\ index = StackIndex(code.stack, Node.targets[1])
    /\ d[Node.targets[1]] = Computed(at)
    /\ \A x \in Names : x = Node.targets[1] \/ d[x] = env[x]

\* The slot an assignment overwrites gets its value, the first one of the name.
LEMMA ReplacedHold ==
  ASSUME ScopeInv, GeneratorInv, phase = "generate", Node.kind = "assign",
         NEW code, NEW m, NEW rest, NEW results, results = <<Computed(at)>>,
         Computes(code, m, rest, results),
         NEW index, NEW d, Overwrites(code, index, d), NEW next, next = Run(m, EmitReplace(index))
  PROVE  Mirrors(Tail(code.stack), next, rest, Wanted(at + 1, Current), d)
         /\ next.operands = m.operands
  <1>0. PICK name \in Names :
          /\ name = Node.targets[1] /\ index \in Nat /\ index = StackIndex(code.stack, name)
          /\ d[name] = Computed(at) /\ \A x \in Names : x = name \/ d[x] = env[x]
    BY DEF Overwrites
  <1>1. PICK lower \in Seq(Slots), l \in Nat \ {0}, more \in Nat :
          /\ lower = code.stack /\ l = Len(lower) /\ lower[1] = Value /\ more = Len(rest)
    <2>1. /\ code.stack \in Seq(Slots) /\ Len(code.stack) \in Nat \ {0} /\ code.stack[1] = Value
          /\ Len(rest) \in Nat
      BY DEF Computes, Mirrors, Overwrites
    <2> QED
      BY <2>1
  <1>2. PICK W : /\ W = Needs(Len(Node.operands)) /\ Mirrors(lower, m, rest, W, env)
                 /\ m.main[1] = Computed(at)
    BY <1>1 DEF Computes
  <1>3. Value \notin Names /\ "$$" \notin Names
    BY NodeIs, NamesAreNoMarks
  <1>4. /\ index + 1 \in 1 .. l /\ lower[index + 1] = name
        /\ \A j \in 1 .. index : lower[j] # name
    <2>1. index <= l - 1 /\ lower[index + 1] = name
      BY <1>0, <1>1, StackIndexIs
    <2>2. index + 1 \in 1 .. Len(lower)
      BY <1>0, <1>1, <2>1
    <2>3. \A j \in 1 .. StackIndex(lower, name) : lower[j] # name
      BY <1>0, <1>1, <2>1, <2>2, StackIndexFirst
    <2> QED
      BY <1>0, <1>1, <2>1, <2>2, <2>3
  <1>5. index \in Nat \ {0} /\ index < l
    <2>1. index # 0
      BY <1>1, <1>3, <1>4
    <2> QED
      BY <1>0, <1>1, <1>4, <2>1
  <1>6. PICK p \in Nat, c \in Nat : p = l - 1 /\ c = p + more /\ l + more - 1 = c /\ l = p + 1
    <2>1. l - 1 \in Nat /\ (l - 1) + more \in Nat /\ l + more - 1 = (l - 1) + more /\ l = (l - 1) + 1
      BY <1>1
    <2> QED
      BY <2>1
  <1>7. /\ Sized(next, Contents, c, 0) /\ next.main[index] = Computed(at)
        /\ \A i \in 1 .. c : i # index => next.main[i] = m.main[i + 1]
        /\ next.operands = m.operands
    <2>1. PICK n \in Nat : n = l + more /\ n - 1 = c /\ index < n
      BY <1>1, <1>5, <1>6
    <2>2. Sized(m, Contents, n, 0)
      BY <1>1, <1>2, <2>1 DEF Mirrors
    <2>3. Replaced(next, m, Contents, n, index)
      BY <1>1, <1>5, <2>1, <2>2, MachineTypes, ReplaceEffect
    <2> QED
      BY <1>2, <2>1, <2>3 DEF Replaced
  <1>8. PICK st : /\ st = Tail(lower) /\ Len(st) = p /\ \A i \in 1 .. p : st[i] = lower[i + 1]
    <2>1. 1 \in Nat /\ 1 <= Len(lower) /\ Len(lower) - 1 = p
      BY <1>1, <1>6
    <2>2. PICK tail : tail = Tail(lower) /\ tail = From(lower, 1)
      BY <1>1, TailIsBehind
    <2>3. Len(tail) = Len(lower) - 1 /\ \A i \in 1 .. Len(lower) - 1 : tail[i] = lower[1 + i]
      <3>1. lower \in Seq(Slots)
        BY <1>1
      <3> QED
        BY ONLY <3>1, <2>1, <2>2, SlotsBehind
    <2>4. \A i \in 1 .. p : tail[i] = lower[i + 1]
      <3>1. \A i \in 1 .. p : 1 + i = i + 1
        OBVIOUS
      <3> QED
        BY ONLY <2>1, <2>3, <3>1
    <2>5. Len(tail) = p
      BY ONLY <2>1, <2>3
    <2> QED
      BY ONLY <2>2, <2>4, <2>5
  <1>9. PICK V : V = Wanted(at + 1, Current) /\ V \subseteq Names /\ V \subseteq W
    <2>1. \A x : ~Declares(program, at, x)
      BY DeclaredIsNew
    <2>2. Wanted(at + 1, Current) \subseteq Needs(Len(Node.operands))
      BY <2>1, NeedsBehind
    <2> QED
      BY <1>2, <2>2 DEF Wanted
  <1>10. ASSUME NEW i \in 1 .. p, st[i] \in V, First(st, i) PROVE next.main[i] = Worth(d, st[i])
    <2>1. st[i] \in Names /\ st[i] # "$$"
      BY <1>3, <1>9, <1>10
    <2>2. CASE i = index
      <3>1. st[i] = name
        BY <1>4, <1>8, <2>2
      <3> QED
        BY <1>0, <1>7, <2>1, <2>2, <3>1 DEF Worth
    <2>3. CASE i # index
      <3>1. st[i] # name
        <4>1. CASE i < index
          <5>1. i + 1 \in 1 .. index
            BY <1>5, <4>1
          <5> QED
            BY <1>4, <1>8, <5>1
        <4>2. CASE i > index
          <5>1. index \in 1 .. i - 1 /\ index \in 1 .. p
            BY <1>5, <4>2
          <5>2. st[index] = name
            BY <1>4, <1>8, <5>1
          <5> QED
            BY <1>10, <5>1, <5>2 DEF First
        <4> QED
          BY <1>5, <2>3, <4>1, <4>2
      <3>2. i + 1 \in 1 .. l /\ lower[i + 1] = st[i] /\ st[i] \in W
        BY <1>6, <1>8, <1>9, <1>10
      <3>3. First(lower, i + 1)
        <4>1. ASSUME NEW j \in 1 .. (i + 1) - 1 PROVE lower[j] # lower[i + 1]
          <5>1. CASE j = 1
            BY <1>1, <1>3, <2>1, <3>2, <5>1
          <5>2. CASE j # 1
            <6>1. PICK h \in Nat : h = j - 1 /\ j = h + 1 /\ h \in 1 .. i - 1 /\ h \in 1 .. p
              <7>1. j - 1 \in Nat /\ j = (j - 1) + 1 /\ j - 1 \in 1 .. i - 1 /\ j - 1 \in 1 .. p
                BY <5>2
              <7> QED
                BY <7>1
            <6>2. st[h] # st[i] /\ st[h] = lower[h + 1]
              BY <1>8, <1>10, <6>1 DEF First
            <6> QED
              BY <3>2, <6>1, <6>2
          <5> QED
            BY <5>1, <5>2
        <4> QED
          BY <4>1 DEF First
      <3>4. m.main[i + 1] = Worth(env, st[i])
        BY <1>1, <1>2, <3>2, <3>3 DEF Mirrors
      <3>5. i \in 1 .. c
        BY <1>6
      <3>6. d[st[i]] = env[st[i]]
        BY <1>0, <2>1, <3>1
      <3> QED
        BY <1>7, <2>1, <2>3, <3>4, <3>5, <3>6 DEF Worth
    <2> QED
      BY <2>2, <2>3
  <1>11. ASSUME NEW i \in 1 .. more PROVE next.main[p + i] = rest[i]
    <2>1. p + i \in 1 .. c /\ p + i # index /\ (p + i) + 1 = l + i
      BY <1>5, <1>6
    <2>2. m.main[l + i] = rest[i]
      BY <1>1, <1>2 DEF Mirrors
    <2> QED
      BY <1>7, <2>1, <2>2
  <1>12. Mirrors(st, next, rest, V, d)
    BY <1>1, <1>6, <1>7, <1>8, <1>10, <1>11 DEF Mirrors
  <1> QED
    BY <1>1, <1>7, <1>8, <1>9, <1>12

LEMMA ReplacedValues ==
  ASSUME ValuesTraceable(Headers), ScopeInv, GeneratorInv, SymbolsInv, ValuesInv,
         phase = "generate", Node.kind = "assign", NEW code, code = OneResult,
         NEW index, index = StackIndex(code.stack, Node.targets[1]), index >= 0,
         Compile(code, EmitReplace(index), Tail(code.stack)),
         Becomes(Node.targets[1], Computed(at)),
         verify' = FALSE, depths' = depths, taken' = taken
  PROVE  ValuesInv'
  <1>1. PICK results : results = <<Computed(at)>> /\ code = Expression(results)
    BY DEF OneResult
  <1>2. ~code.crashed /\ Visited /\ stack' = Tail(code.stack) /\ stackCopy' = stackCopy
    BY DEF Compile
  <1>3. PICK x \in Names : x = Node.targets[1] /\ x \notin Inline
    BY AssignedIsVariable
  <1>4. code.stack \in Seq(Slots) /\ Len(code.stack) \in Nat \ {0} /\ code.stack[1] = Value
    BY <1>2, OneResultIs
  <1>5. index \in Nat
    BY <1>3, <1>4, StackIndexIs
  <1>6. PICK m : m = Run(Settled, code.ops)
    OBVIOUS
  <1>7. PICK T, ops : ops = EmitReplace(index) /\ ops \in Seq(T)
    BY <1>5, EmitReplaceType
  <1>8. /\ Live => /\ Computes(code, m, RestOf(Current), results)
                   /\ machine' = Run(m, ops) /\ meant' = m.operands
        /\ ~Live => machine' = machine /\ meant' = machine.operands
    <2>1. results \in Seq(Contents)
      BY <1>1, DeclaredIsNew
    <2>2. PICK newStack : newStack = Tail(code.stack)
      OBVIOUS
    <2> QED
      BY <1>1, <1>6, <1>7, <2>1, <2>2, CompiledValues
  <1>9. Settled' = machine'
    BY DEF Settled
  <1>10. PICK d : d = [env EXCEPT ![x] = Computed(at)]
    OBVIOUS
  <1>11. env' = IF Live THEN d ELSE env
    BY <1>3, <1>10 DEF Becomes
  <1>12. ASSUME Live
         PROVE  /\ SlotsHold(at + 1, Current, stack', Settled', env')
                /\ machine'.operands = m.operands
    <2>1. PICK rest, next : rest = RestOf(Current) /\ next = Run(m, EmitReplace(index))
      OBVIOUS
    <2>2. Mirrors(Tail(code.stack), next, rest, Wanted(at + 1, Current), d)
          /\ next.operands = m.operands
      <3>1. Computes(code, m, rest, results)
        BY <1>8, <1>12, <2>1
      <3>2. Overwrites(code, index, d)
        <4>1. d[x] = Computed(at) /\ \A y \in Names : y = x \/ d[y] = env[y]
          BY <1>3, <1>10, DeclaredIsNew
        <4> QED
          BY <1>3, <1>4, <1>5, <4>1 DEF Overwrites
      <3> QED
        BY ONLY ScopeInv, GeneratorInv, phase = "generate", Node.kind = "assign",
                <1>1, <2>1, <3>1, <3>2, ReplacedHold
    <2>3. machine' = next /\ env' = d
      BY <1>7, <1>8, <1>11, <1>12, <2>1
    <2> QED
      BY <1>2, <1>9, <2>1, <2>2, <2>3 DEF SlotsHold
  <1>13. machine'.operands = meant'
    BY <1>8, <1>12
  <1>14. ASSUME depths # <<>>
         PROVE  stack' \in Seq(Slots) /\ \E k \in Nat :
                  Len(stack') = Len(stack) + k /\ \A i \in 1 .. Len(stack) : stack'[k + i] = stack[i]
    <2>1. ConditionLeaves(code)
      BY <1>2, ConditionSlots
    <2> QED
      BY <1>2, <1>14, <2>1 DEF ConditionLeaves
  <1>15. \A name \in Inline : env'[name] = Argument(name)
    <2>1. \A name \in Inline : name \in Names /\ name # x /\ env[name] = Argument(name)
      BY <1>3, DeclaredIsNew DEF ValuesInv
    <2>2. \A name \in Inline : d[name] = env[name]
      BY <1>10, <2>1, DeclaredIsNew
    <2> QED
      BY <1>11, <2>1, <2>2
  <1> QED
    BY <1>2, <1>8, <1>11, <1>12, <1>13, <1>14, <1>15, StraightValues

LEMMA AssignValues ==
  ASSUME ValuesTraceable(Headers), ScopeInv, GeneratorInv, SymbolsInv, ValuesInv,
         phase = "generate", GenerateAssign
  PROVE  ValuesInv'
  <1>1. PICK code, index : code = OneResult /\ index = StackIndex(code.stack, Node.targets[1])
    OBVIOUS
  <1>2. /\ Node.kind = "assign" /\ Becomes(Node.targets[1], Computed(at))
        /\ verify' = FALSE /\ depths' = depths /\ taken' = taken
    BY DEF GenerateAssign
  <1>3. CASE index >= 0 /\ Compile(code, EmitReplace(index), Tail(code.stack))
    BY <1>1, <1>2, <1>3, ReplacedValues
  <1>4. CASE Compile(code, <<>>, <<Node.targets[1]>> \o Tail(code.stack))
    BY <1>1, <1>2, <1>4, MovedValues
  <1> QED
    BY <1>1, <1>3, <1>4 DEF GenerateAssign

LEMMA AllBehindNone ==
  ASSUME NEW S, NEW slots \in Seq(S), NEW d, d = Len(slots)
  PROVE  From(slots, Len(slots) - d) = slots
  <1>1. Len(slots) \in Nat /\ Len(slots) - d = 0
    BY LenProperties
  <1>2. 0 \in Nat /\ 0 <= Len(slots) /\ Len(slots) - 0 = Len(slots) /\ \A i \in 1 .. Len(slots) : 0 + i = i
    BY <1>1
  <1>3. /\ From(slots, 0) \in Seq(S) /\ Len(From(slots, 0)) = Len(slots)
        /\ \A i \in 1 .. Len(slots) : From(slots, 0)[i] = slots[i]
    BY <1>2, SlotsBehind
  <1>4. From(slots, 0) = slots
    BY <1>3, SeqEqual
  <1> QED
    BY <1>1, <1>4

\* What is not on the path, while slots on top come and go.
LEMMA OutsideStays ==
  ASSUME ScopeInv, GeneratorInv, SymbolsInv, ValuesInv, phase = "generate",
         NEW t \in 1 .. Len(depths), Outer(t), NEW lower, lower = From(stack, Len(stack) - depths[t]),
         NEW below, SameSlots(below, lower)
  PROVE  ~Live /\ SlotsHold(at + 1, Current, below, machine, env)
  <1>1. ~Live
    <2>1. t \in DOMAIN taken
      <3>1. /\ DOMAIN taken = 1 .. Len(taken) /\ Len(taken) \in Nat /\ Len(depths) \in Nat
            /\ t \in Nat /\ 1 <= t
        BY PathTypes
      <3> QED
        BY <3>1 DEF Outer
    <2> QED
      BY <2>1 DEF Outer, Live
  <1>2. Settled = machine
    BY <1>1 DEF Settled
  <1>3. SlotsHold(at, Current, lower, machine, env)
    BY <1>2 DEF ValuesInv
  <1> QED
    BY <1>1, <1>3, SlotsStay DEF SameSlots

LEMMA CopyDead ==
  ASSUME GeneratorInv, ValuesInv, phase = "generate", Node.kind # "function",
         ~Live => machine' = machine /\ env' = env /\ stackCopy' = stackCopy /\ Settled' = machine'
  PROVE  CopyValues(at + 1, Current, stackCopy', Settled', env')
  <1>1. CASE Current > 0 /\ Current < selected
    <2>1. ~Live /\ Settled = machine
      BY <1>1, SidesAre DEF Settled
    <2>2. CopyValues(at, Current, stackCopy, machine, env)
      BY <2>1 DEF ValuesInv
    <2> QED
      BY <2>1, <2>2, CopyStays
  <1>2. CASE ~(Current > 0 /\ Current < selected)
    BY <1>2 DEF CopyValues
  <1> QED
    BY <1>1, <1>2

LEMMA IfValues ==
  ASSUME ScopeInv, GeneratorInv, SymbolsInv, ValuesInv, phase = "generate", GenerateIf
  PROVE  ValuesInv'
  <1>1. PICK code, results : code = OneResult /\ results = <<Computed(at)>> /\ code = Expression(results)
    BY DEF OneResult
  <1>2. PICK ops : ops = <<<<"DROP">>>> /\ ops \in Seq({<<"DROP">>})
    <2>1. <<<<"DROP">>>> \in Seq({<<"DROP">>})
      OBVIOUS
    <2> QED
      BY <2>1
  <1>3. /\ Node.kind = "if" /\ Compile(code, ops, Tail(code.stack))
        /\ verify' = FALSE /\ depths' = <<Len(code.stack) - 1>> \o depths /\ env' = env
        /\ \E side \in (IF Live THEN BOOLEAN ELSE {FALSE}) : taken' = <<side>> \o taken
    BY <1>1, <1>2 DEF GenerateIf, StackDepth
  <1>4. ~code.crashed /\ Visited /\ stack' = Tail(code.stack) /\ stackCopy' = stackCopy
    BY <1>3 DEF Compile
  <1>5. /\ header' = header /\ program' = program /\ selected' = selected /\ at' = at + 1
        /\ Current' = Current /\ at + 1 \in Nat
    BY <1>3, <1>4, VisitedMeans, UnnamedKept, NodeIs
  <1>6. PICK side \in BOOLEAN : taken' = <<side>> \o taken /\ (side => Live)
    BY <1>3
  <1>7. PICK a, n : /\ a = Len(depths) /\ a \in Nat /\ n = Len(taken) /\ n \in Nat
                    /\ taken \in Seq(BOOLEAN) /\ depths \in Seq(Nat) /\ DOMAIN taken = 1 .. n
    BY PathTypes
  <1>8. /\ Len(taken') = n + 1 /\ taken'[1] = side /\ \A i \in 1 .. n : taken'[i + 1] = taken[i]
        /\ DOMAIN taken' = 1 .. n + 1
    <2>1. /\ taken' \in Seq(BOOLEAN) /\ Len(taken') = 1 + n /\ taken'[1] = side
          /\ \A i \in 1 .. n : taken'[i + 1] = taken[i]
      BY <1>6, <1>7, PushedType
    <2> QED
      BY <1>7, <2>1, LenProperties
  <1>9. PICK lower \in Seq(Slots), l \in Nat : /\ lower = Tail(code.stack) /\ l = Len(lower)
                                               /\ Len(code.stack) - 1 = l
    <2>1. /\ Tail(code.stack) \in Seq(Slots) /\ Len(Tail(code.stack)) = Len(code.stack) - 1
          /\ Len(Tail(code.stack)) \in Nat
      BY <1>1, <1>4, OneResultIs, LenProperties
    <2> QED
      BY <2>1
  <1>10. /\ Len(depths') = a + 1 /\ depths'[1] = l /\ \A i \in 1 .. a : depths'[i + 1] = depths[i]
    <2>1. <<l>> \o depths = depths'
      BY <1>3, <1>9
    <2>2. /\ Len(<<l>> \o depths) = 1 + a /\ (<<l>> \o depths)[1] = l
          /\ \A i \in 1 .. a : (<<l>> \o depths)[i + 1] = depths[i]
      BY <1>7, PushedType
    <2> QED
      BY <1>7, <2>1, <2>2
  <1>11. PICK m : m = Run(Settled, code.ops)
    OBVIOUS
  <1>12. /\ Live => /\ Computes(code, m, RestOf(Current), results)
                    /\ machine' = Run(m, ops) /\ meant' = m.operands
         /\ ~Live => machine' = machine /\ meant' = machine.operands
    <2>1. results \in Seq(Contents)
      BY <1>1, DeclaredIsNew
    <2>2. PICK newStack : newStack = Tail(code.stack)
      OBVIOUS
    <2> QED
      BY <1>1, <1>2, <1>3, <1>11, <2>1, <2>2, CompiledValues
  <1>13. Settled' = machine'
    BY <1>3 DEF Settled
  <1>14. ASSUME Live
         PROVE  SlotsHold(at + 1, Current, lower, machine', env) /\ machine'.operands = m.operands
    <2>1. PICK next : next = Exec(m, <<"DROP">>)
      OBVIOUS
    <2>2. machine' = next
      BY <1>2, <1>12, <1>14, <2>1, RunOfOne
    <2>3. SlotsHold(at + 1, Current, lower, next, env) /\ next.operands = m.operands
      BY <1>1, <1>3, <1>4, <1>9, <1>12, <1>14, <2>1, CheckedHold
    <2> QED
      BY <2>2, <2>3
  <1>15. machine'.operands = meant'
    BY <1>12, <1>14
  <1>16. ASSUME Live' PROVE SlotsHold(at + 1, Current, stack', Settled', env')
    <2>1. Live
      <3>1. side
        <4>1. 1 \in DOMAIN taken'
          BY <1>7, <1>8
        <4> QED
          BY <1>8, <1>16, <4>1 DEF Live
      <3> QED
        BY <1>6, <3>1
    <2> QED
      BY <1>3, <1>4, <1>9, <1>13, <1>14, <2>1
  <1>17. ASSUME NEW t \in 1 .. Len(depths'), Outer(t)'
         PROVE  SlotsHold(at + 1, Current, From(stack', Len(stack') - depths'[t]), Settled', env')
    <2>1. CASE t = 1
      <3>1. Live
        <4>1. ASSUME NEW i \in 1 .. n PROVE taken[i]
          <5>1. i + 1 \in t + 1 .. Len(taken')
            BY <1>7, <1>8, <2>1
          <5>2. taken'[i + 1]
            BY <1>17, <5>1 DEF Outer
          <5> QED
            BY <1>8, <5>2
        <4> QED
          BY <1>7, <4>1 DEF Live
      <3>2. From(lower, Len(lower) - l) = lower
        BY <1>9, AllBehindNone
      <3> QED
        BY <1>3, <1>4, <1>9, <1>10, <1>13, <1>14, <2>1, <3>1, <3>2
    <2>2. CASE t # 1
      <3>1. PICK s \in 1 .. a : t = s + 1
        <4>1. t - 1 \in 1 .. a /\ t = (t - 1) + 1
          BY <1>7, <1>10, <2>2
        <4> QED
          BY <4>1
      <3>2. Outer(s) /\ s \in 1 .. Len(depths)
        <4>1. s <= n /\ ~taken[s]
          <5>1. s <= n
            BY <1>7, <1>8, <1>17, <3>1 DEF Outer
          <5> QED
            BY <1>7, <1>8, <1>17, <3>1, <5>1 DEF Outer
        <4>2. ASSUME NEW u \in s + 1 .. n PROVE taken[u]
          <5>1. u + 1 \in t + 1 .. Len(taken') /\ u \in 1 .. n
            BY <1>7, <1>8, <3>1
          <5>2. taken'[u + 1]
            BY <1>17, <5>1 DEF Outer
          <5> QED
            BY <1>8, <5>1, <5>2
        <4> QED
          BY <1>7, <4>1, <4>2 DEF Outer
      <3>3. PICK d \in Nat : d = depths[s] /\ d = depths'[t] /\ d <= Len(stack)
        BY <1>7, <1>10, <3>1, PathTypes
      <3>4. PICK above, below : /\ above = From(stack, Len(stack) - d)
                                /\ below = From(lower, Len(lower) - d)
        OBVIOUS
      <3>5. SameSlots(below, above)
        <4>1. ConditionLeaves(code) /\ depths # <<>>
          <5>1. a # 0
            BY <1>7, <3>1
          <5>2. Len(<<>>) = 0
            OBVIOUS
          <5>3. depths # <<>>
            BY <1>7, <5>1, <5>2
          <5> QED
            BY <1>1, <1>3, <1>4, <5>3, ConditionSlots
        <4>2. PICK k \in Nat : /\ Len(lower) = Len(stack) + k
                               /\ \A i \in 1 .. Len(stack) : lower[k + i] = stack[i]
          BY <1>9, <4>1 DEF ConditionLeaves
        <4>3. stack \in Seq(Slots)
          BY PathTypes
        <4> QED
          BY <3>3, <3>4, <4>2, <4>3, SameBelow
      <3>6. ~Live /\ SlotsHold(at + 1, Current, below, machine, env)
        BY <3>2, <3>3, <3>4, <3>5, OutsideStays
      <3>7. Settled' = machine /\ env' = env /\ From(stack', Len(stack') - depths'[t]) = below
        BY <1>3, <1>4, <1>9, <1>12, <1>13, <3>3, <3>4, <3>6
      <3> QED
        BY <3>6, <3>7
    <2> QED
      BY <2>1, <2>2
  <1>18. CopyValues(at + 1, Current, stackCopy', Settled', env')
    BY <1>3, <1>4, <1>12, <1>13, CopyDead
  <1>19. \A name \in Inline : env'[name] = Argument(name)
    BY <1>3 DEF ValuesInv
  <1> QED
    BY <1>5, <1>15, <1>16, <1>17, <1>18, <1>19, ValuesNext

\* A block is left with the slots below its depth.
LEMMA BlockSlots ==
  ASSUME GeneratorInv, phase = "generate", Node.kind \in {"else", "endif"}, LeaveBlock,
         NEW d, d = depths[1]
  PROVE  /\ d \in Nat /\ Scoped \in Nat /\ Len(stack) = Scoped + d /\ Len(depths) >= 1
         /\ stack' = From(stack, Len(stack) - d) /\ stack' = From(stack, Scoped)
         /\ stack' \in Seq(Slots) /\ Len(stack') = d
         /\ \A i \in 1 .. d : stack'[i] = stack[Scoped + i]
         /\ \A t \in 1 .. Len(depths) : depths[t] \in Nat /\ depths[t] <= d
  <1>1. d \in Nat /\ Len(depths) >= 1 /\ Len(stack) - Scoped = d /\ stack' \in Seq(Slots) /\ Len(stack') = d
    BY LeaveBlockIs
  <1>2. PICK l \in Nat : l = Len(stack) /\ stack \in Seq(Slots)
    BY PathTypes
  <1>3. d <= l /\ \A t \in 1 .. Len(depths) : depths[t] \in Nat /\ depths[t] <= d
    <2>1. 1 \in 1 .. Len(depths)
      BY <1>1, PathTypes
    <2>2. Levels
      BY DEF GeneratorInv
    <2> QED
      BY <1>2, <2>1, <2>2, PathTypes DEF Levels
  <1>4. Scoped = l - d /\ l - d \in Nat
    <2>1. Head(depths) = d
      BY LeaveBlockIs
    <2>2. l - d \in Nat
      BY <1>1, <1>2, <1>3
    <2>3. {0, l - d} \subseteq 0 .. l - d /\ {0, l - d} # {}
      BY <2>2
    <2>4. Max({0, l - d}) \in {0, l - d} /\ \A x \in {0, l - d} : x <= Max({0, l - d})
      BY <2>2, <2>3, GreatestElement
    <2>5. Max({0, l - d}) = l - d
      BY <2>2, <2>4
    <2> QED
      BY <1>2, <2>1, <2>2, <2>5 DEF Scoped
  <1>5. PICK j \in Nat : j = Scoped /\ j <= l /\ l = j + d /\ l - j = d
    <2>1. l - d <= l /\ l = (l - d) + d /\ l - (l - d) = d
      BY <1>1, <1>2, <1>3
    <2> QED
      BY <1>4, <2>1
  <1>6. stack' = From(stack, j)
    BY <1>5 DEF LeaveBlock
  <1>7. \A i \in 1 .. Len(stack) - j : From(stack, j)[i] = stack[j + i]
    <2>1. j <= Len(stack)
      BY <1>2, <1>5
    <2> QED
      BY ONLY j \in Nat, <1>2, <2>1, SlotsBehind
  <1> QED
    BY <1>1, <1>2, <1>3, <1>4, <1>5, <1>6, <1>7

\* The values in them stay; those dropped were of variables of the block.
LEMMA BlockHolds ==
  ASSUME ScopeInv, GeneratorInv, SymbolsInv, phase = "generate", Node.kind \in {"else", "endif"},
         LeaveBlock, NEW m, NEW e, SlotsHold(at, Current, stack, m, e),
         NEW next, next = Run(m, Times(Scoped, <<"DROP">>))
  PROVE  SlotsHold(at + 1, Current, stack', next, e) /\ next.operands = m.operands
  <1>1. PICK lower \in Seq(Slots), l \in Nat, d \in Nat, j \in Nat :
          lower = stack /\ l = Len(stack) /\ d = depths[1] /\ j = Scoped
    BY PathTypes, BlockSlots
  <1>2. PICK st : st = stack' /\ Len(st) = d /\ \A i \in 1 .. d : st[i] = lower[j + i]
    BY <1>1, BlockSlots
  <1>3. /\ l = j + d /\ l - d = j /\ l - j = d /\ j <= l /\ Len(lower) = l
        /\ Len(depths) \in Nat /\ 1 \in 1 .. Len(depths)
    <2>1. l = j + d /\ Len(depths) >= 1 /\ Len(depths) \in Nat
      BY <1>1, BlockSlots, PathTypes
    <2>2. l - d = j /\ l - j = d /\ j <= l
      BY ONLY <2>1, l \in Nat, j \in Nat, d \in Nat
    <2> QED
      BY <1>1, <2>1, <2>2
  <1>4. PICK rest : rest = RestOf(Current) /\ Mirrors(lower, m, rest, Wanted(at, Current), e)
    BY <1>1 DEF SlotsHold
  <1>5. PICK more \in Nat, c \in Nat : /\ more = Len(rest) /\ c = d + more /\ l + more = j + c
                                       /\ Sized(m, Contents, l + more, 0)
    <2>1. Len(rest) \in Nat /\ Sized(m, Contents, l + Len(rest), 0)
      BY <1>1, <1>4 DEF Mirrors
    <2>2. d + Len(rest) \in Nat /\ l + Len(rest) = j + (d + Len(rest))
      BY <1>3, <2>1
    <2> QED
      BY <2>1, <2>2
  <1>6. /\ Sized(next, Contents, c, 0) /\ next.operands = m.operands
        /\ \A i \in 1 .. c : next.main[i] = m.main[j + i]
    <2>1. l + more \in Nat /\ j <= l + more /\ (l + more) - j = c
      BY ONLY <1>5, l \in Nat, more \in Nat, j \in Nat, c \in Nat
    <2>2. PICK n \in Nat : n = l + more /\ j <= n /\ n - j = c
      BY <2>1
    <2>3. Sized(m, Contents, n, 0) /\ next = Run(m, Times(j, <<"DROP">>))
      BY <1>1, <1>5, <2>2
    <2>4. /\ Sized(next, Contents, n - j, 0) /\ next.operands = m.operands
          /\ \A i \in 1 .. n - j : next.main[i] = m.main[j + i]
      <3>1. Sized(next, Contents, n - j, 0) /\ LessBy(next, m, n, j)
        BY <2>2, <2>3, DropsEffect
      <3> QED
        BY <3>1 DEF LessBy
    <2> QED
      BY <2>2, <2>4
  <1>7. PICK V, W : V = Wanted(at + 1, Current) /\ W = Wanted(at, Current)
    OBVIOUS
  <1>8. V \subseteq W /\ V \subseteq Names
    BY <1>7, ClosedAreNotWanted DEF Wanted
  <1>9. ASSUME NEW i \in 1 .. j PROVE lower[i] \notin V
    <2> SUFFICES ASSUME lower[i] \in V PROVE FALSE
      OBVIOUS
    <2>1. DeclaredLevel(lower[i], at) < Len(depths) + In(Current)
      BY <1>7, ClosedAreNotWanted
    <2>2. i \in 1 .. Len(stack) /\ stack[i] \in Names /\ i <= Len(stack) - depths[1]
      <3>1. i \in 1 .. l /\ i <= l - d
        BY <1>3
      <3> QED
        BY <1>1, <1>8, <3>1
    <2>3. DeclaredLevel(lower[i], at) > Len(depths) - 1 + In(Current)
      BY <1>1, <1>3, <2>2 DEF SymbolsInv, SymbolsHold, SlotsScoped
    <2>4. PICK v \in Nat, o \in Nat, h \in Nat :
            v = DeclaredLevel(lower[i], at) /\ o = In(Current) /\ h = Len(depths)
      <3>1. at \in Nat /\ DeclaredLevel(lower[i], at) \in Nat
        BY NodeIs, LevelType
      <3>2. In(Current) \in Nat
        BY DEF In
      <3> QED
        BY <1>3, <3>1, <3>2
    <2>5. v < h + o /\ v > h - 1 + o
      BY <2>1, <2>3, <2>4
    <2> QED
      BY <2>5
  <1>10. MirroredOnTop(st, 0, lower, j, next, m, more)
    <2>1. Len(lower) - j = d /\ Len(st) = 0 + d /\ Len(st) + more = c /\ d + more = c
      <3>1. l - j = d /\ Len(lower) = l /\ Len(st) = d /\ c = d + more
        BY <1>2, <1>3, <1>5
      <3> QED
        BY <3>1
    <2>2. \A i \in 1 .. d : st[0 + i] = lower[j + i]
      BY <1>2
    <2>3. \A i \in 1 .. c : next.main[0 + i] = m.main[j + i]
      BY <1>6
    <2> QED
      BY <1>6, <2>1, <2>2, <2>3 DEF MirroredOnTop
  <1>11. Mirrors(st, next, rest, V, e)
    <2>1. 0 \in Nat /\ j <= Len(lower) /\ Mirrors(lower, m, rest, W, e)
      BY <1>1, <1>3, <1>4, <1>7
    <2>2. \A x \in V : (\E i \in 1 .. 0 : st[i] = x) \/ (x \in W /\ Worth(e, x) = Worth(e, x))
      BY <1>8
    <2>3. \A i \in 1 .. 0 : st[i] \in V /\ First(st, i) => next.main[i] = Worth(e, st[i])
      OBVIOUS
    <2> QED
      BY ONLY j \in Nat, <1>5, <1>9, <1>10, <2>1, <2>2, <2>3, MirrorsOnTop
  <1> QED
    BY <1>2, <1>4, <1>6, <1>7, <1>11 DEF SlotsHold

LEMMA SettledOperands ==
  ASSUME GeneratorInv, phase = "generate", Live
  PROVE  Settled.operands = machine.operands
  <1>1. machine \in MachinesOf(Contents)
    BY PathTypes, MachineTypes
  <1>2. Run(machine, <<<<"DROP">>>>) = Exec(machine, <<"DROP">>)
    BY RunOfOne
  <1>3. Exec(machine, <<"DROP">>).operands = machine.operands
    BY <1>1 DEF Exec, MachinesOf
  <1> QED
    BY <1>2, <1>3 DEF Settled

\* What lies below a depth does so behind the block.
LEMMA LeftSlots ==
  ASSUME GeneratorInv, phase = "generate", Node.kind \in {"else", "endif"}, LeaveBlock,
         NEW s \in 1 .. Len(depths), NEW above, above = From(stack, Len(stack) - depths[s]),
         NEW below, below = From(stack', Len(stack') - depths[s])
  PROVE  SameSlots(below, above)
  <1>1. PICK j \in Nat, d \in Nat, e \in Nat, l \in Nat :
          /\ j = Scoped /\ d = depths[1] /\ e = depths[s] /\ e <= d /\ l = Len(stack) /\ l = j + d
    <2>1. PICK d : d = depths[1]
      OBVIOUS
    <2>2. d \in Nat /\ Scoped \in Nat /\ Len(stack) = Scoped + d
      BY <2>1, BlockSlots
    <2>3. depths[s] \in Nat /\ depths[s] <= d
      BY <2>1, BlockSlots
    <2>4. Len(stack) \in Nat
      BY PathTypes
    <2> QED
      BY <2>1, <2>2, <2>3, <2>4
  <1>2. PICK st \in Seq(Slots), lower \in Seq(Slots) :
          /\ st = stack' /\ lower = stack /\ Len(st) = d /\ \A i \in 1 .. d : st[i] = lower[j + i]
    BY <1>1, BlockSlots, PathTypes
  <1>3. PICK b \in Nat, c \in Nat : /\ b = d - e /\ c = l - e /\ c = j + b /\ b + e = d /\ c + e = l
                                    /\ b <= d /\ d - b = e /\ c <= l /\ l - c = e
    <2>1. e <= d /\ l = j + d
      BY <1>1
    <2>2. /\ d - e \in Nat /\ l - e \in Nat /\ l - e = j + (d - e) /\ (d - e) + e = d /\ (l - e) + e = l
          /\ d - e <= d /\ d - (d - e) = e /\ l - e <= l /\ l - (l - e) = e
      BY ONLY <2>1, e \in Nat, d \in Nat, l \in Nat, j \in Nat
    <2> QED
      BY <2>2
  <1>4. Len(below) = e /\ \A i \in 1 .. e : below[i] = st[b + i]
    <2>1. b <= Len(st) /\ Len(st) - b = e /\ below = From(st, b)
      BY <1>1, <1>2, <1>3
    <2>2. /\ Len(From(st, b)) = Len(st) - b
          /\ \A i \in 1 .. Len(st) - b : From(st, b)[i] = st[b + i]
      BY ONLY st \in Seq(Slots), b \in Nat, <2>1, SlotsBehind
    <2> QED
      BY <2>1, <2>2
  <1>5. Len(above) = e /\ \A i \in 1 .. e : above[i] = lower[c + i]
    <2>1. c <= Len(lower) /\ Len(lower) - c = e /\ above = From(lower, c)
      BY <1>1, <1>2, <1>3
    <2>2. /\ Len(From(lower, c)) = Len(lower) - c
          /\ \A i \in 1 .. Len(lower) - c : From(lower, c)[i] = lower[c + i]
      BY ONLY lower \in Seq(Slots), c \in Nat, <2>1, SlotsBehind
    <2> QED
      BY <2>1, <2>2
  <1>6. ASSUME NEW i \in 1 .. e PROVE below[i] = above[i] /\ above[i] \in Range(stack)
    <2>1. b + i \in 1 .. d /\ c + i \in 1 .. l /\ j + (b + i) = c + i
      BY <1>3
    <2>2. below[i] = above[i]
      BY <1>2, <1>4, <1>5, <2>1
    <2>3. DOMAIN lower = 1 .. l
      BY <1>1, <1>2, LenProperties
    <2> QED
      BY <1>2, <1>5, <2>1, <2>2, <2>3 DEF Range
  <1> QED
    BY <1>4, <1>5, <1>6 DEF SameSlots

\* A block is left on the path, or behind a side that was not on it, and either way the
\* values are those of the slots below its depth.
LEMMA LeaveValues ==
  ASSUME ScopeInv, GeneratorInv, SymbolsInv, ValuesInv, phase = "generate",
         Node.kind \in {"else", "endif"}, LeaveBlock,
         NEW k, k = IF Node.kind = "endif" THEN 1 ELSE 0,
         Len(depths') = Len(depths) - k, \A i \in 1 .. Len(depths') : depths'[i] = depths[i + k],
         taken' \in Seq(BOOLEAN), Len(taken') = Len(taken) - k,
         \A i \in 1 .. Len(taken') : i + k > 1 => taken'[i] = taken[i + k]
  PROVE  ValuesInv'
  <1>1. /\ Visited /\ Execute(Times(Scoped, <<"DROP">>)) /\ verify' = FALSE
        /\ stackCopy' = stackCopy /\ env' = env /\ meant' = meant
    BY DEF LeaveBlock
  <1>2. /\ header' = header /\ program' = program /\ selected' = selected /\ at' = at + 1
        /\ Current' = Current /\ at + 1 \in Nat
    BY <1>1, VisitedMeans, UnnamedKept, NodeIs
  <1>3. PICK a \in Nat, n \in Nat, d \in Nat : /\ a = Len(depths) /\ n = Len(taken) /\ d = depths[1]
                                              /\ a >= 1 /\ DOMAIN taken = 1 .. n
    BY PathTypes, BlockSlots
  <1>4. k \in {0, 1} /\ n >= 1 /\ DOMAIN taken' = 1 .. n - k
    <2>1. n >= 1
      BY <1>3, LeaveBlockIs
    <2> QED
      BY <1>3, <2>1, LenProperties
  <1>5. Settled' = machine' /\ (~Live => machine' = machine)
    BY <1>1 DEF Execute, Settled
  <1>6. ASSUME Live
        PROVE  SlotsHold(at + 1, Current, stack', machine', env) /\ machine'.operands = machine.operands
    <2>1. Current \in {0, selected}
      BY <1>6, SidesAre
    <2>2. SlotsHold(at, Current, stack, Settled, env)
      BY <1>6, <2>1 DEF ValuesInv
    <2>3. machine' = Run(Settled, Times(Scoped, <<"DROP">>))
      BY <1>1, <1>6 DEF Execute
    <2>4. SlotsHold(at + 1, Current, stack', machine', env) /\ machine'.operands = Settled.operands
      BY <2>2, <2>3, BlockHolds
    <2> QED
      BY <1>6, <2>4, SettledOperands
  <1>7. ASSUME \A i \in 2 .. n : taken[i] PROVE SlotsHold(at + 1, Current, stack', machine', env)
    <2>1. CASE taken[1]
      <3>1. Live
        BY <1>3, <1>7, <2>1 DEF Live
      <3> QED
        BY <1>6, <3>1
    <2>2. CASE ~taken[1]
      <3>1. Outer(1) /\ 1 \in 1 .. Len(depths)
        BY <1>3, <1>4, <1>7, <2>2 DEF Outer
      <3>2. PICK below, above : below = stack' /\ above = From(stack, Len(stack) - depths[1])
        OBVIOUS
      <3>3. SameSlots(below, above)
        <4>1. PICK s \in 1 .. Len(depths) : s = 1
          BY <3>1
        <4>2. Len(stack') = d /\ d = depths[s] /\ stack' \in Seq(Slots)
          BY <1>3, <4>1, BlockSlots
        <4>3. below = From(stack', Len(stack') - depths[s])
          BY <3>2, <4>2, AllBehindNone
        <4>4. above = From(stack, Len(stack) - depths[s])
          BY <3>2, <4>1
        <4> QED
          BY <4>3, <4>4, LeftSlots
      <3>4. ~Live /\ SlotsHold(at + 1, Current, below, machine, env)
        BY <3>1, <3>2, <3>3, OutsideStays
      <3> QED
        BY <1>5, <3>2, <3>4
    <2> QED
      BY <2>1, <2>2
  <1>8. ASSUME Live' PROVE SlotsHold(at + 1, Current, stack', Settled', env')
    <2>1. ASSUME NEW i \in 2 .. n PROVE taken[i]
      <3>1. PICK h \in 1 .. n - k : i = h + k
        <4>1. i - k \in 1 .. n - k /\ i = (i - k) + k
          BY <1>4
        <4> QED
          BY <4>1
      <3>2. h \in DOMAIN taken' /\ h \in 1 .. Len(taken') /\ h + k > 1
        BY <1>3, <1>4, <3>1
      <3>3. taken'[h]
        BY <1>8, <3>2 DEF Live
      <3> QED
        BY <3>1, <3>2, <3>3
    <2> QED
      BY <1>1, <1>5, <1>7, <2>1
  <1>9. ASSUME NEW t \in 1 .. Len(depths'), Outer(t)'
        PROVE  SlotsHold(at + 1, Current, From(stack', Len(stack') - depths'[t]), Settled', env')
    <2>1. t \in Nat \ {0} /\ t + k \in 1 .. a /\ depths'[t] = depths[t + k] /\ t + k \in Nat
      BY <1>3, <1>4
    <2>2. t <= Len(taken') /\ ~taken'[t] /\ \A u \in t + 1 .. Len(taken') : taken'[u]
      BY <1>9 DEF Outer
    <2>3. ASSUME NEW i \in (t + k) + 1 .. n PROVE taken[i]
      <3>1. PICK h \in t + 1 .. n - k : i = h + k
        <4>1. i - k \in t + 1 .. n - k /\ i = (i - k) + k
          BY <1>4, <2>1
        <4> QED
          BY <4>1
      <3>2. h \in 1 .. Len(taken') /\ h \in t + 1 .. Len(taken') /\ h + k > 1
        <4>1. Len(taken') = n - k /\ k >= 0 /\ k \in Nat
          BY <1>3, <1>4
        <4>2. h \in 1 .. n - k /\ h + k > 1
          BY <1>4, <2>1, <4>1
        <4> QED
          BY <4>1, <4>2
      <3>3. taken'[h]
        BY <2>2, <3>2
      <3> QED
        BY <3>1, <3>2, <3>3
    <2>4. CASE t + k = 1
      <3>1. From(stack', Len(stack') - d) = stack'
        BY <1>3, BlockSlots, AllBehindNone
      <3>2. \A i \in 2 .. n : taken[i]
        BY <2>3, <2>4
      <3> QED
        BY <1>1, <1>3, <1>5, <1>7, <2>1, <2>4, <3>1, <3>2
    <2>5. CASE t + k # 1
      <3>1. t + k > 1 /\ t + k <= n /\ ~taken[t + k]
        BY <1>3, <1>4, <2>1, <2>2, <2>5
      <3>2. Outer(t + k)
        BY <1>3, <2>3, <3>1 DEF Outer
      <3>3. PICK s \in 1 .. Len(depths) : s = t + k
        BY <1>3, <2>1
      <3> DEFINE above == From(stack, Len(stack) - depths[s])
                 below == From(stack', Len(stack') - depths[s])
      <3>4. SameSlots(below, above)
        BY <3>3, LeftSlots
      <3>5. ~Live /\ SlotsHold(at + 1, Current, below, machine, env)
        BY <3>2, <3>3, <3>4, OutsideStays
      <3> QED
        BY <1>1, <1>5, <2>1, <3>3, <3>5
    <2> QED
      BY <2>4, <2>5
  <1>10. CopyValues(at + 1, Current, stackCopy', Settled', env')
    BY <1>1, <1>5, CopyDead
  <1>11. machine'.operands = meant'
    BY <1>1, <1>5, <1>6 DEF ValuesInv
  <1>12. \A name \in Inline : env'[name] = Argument(name)
    BY <1>1 DEF ValuesInv
  <1> QED
    BY <1>1, <1>2, <1>8, <1>9, <1>10, <1>11, <1>12, ValuesNext

LEMMA LeftValues ==
  ASSUME ScopeInv, GeneratorInv, SymbolsInv, ValuesInv, phase = "generate",
         GenerateElse \/ GenerateEndIf
  PROVE  ValuesInv'
  <1>1. PICK k : k = IF Node.kind = "endif" THEN 1 ELSE 0
    OBVIOUS
  <1>2. Node.kind \in {"else", "endif"} /\ LeaveBlock /\ LeavesLevel(k)
    <2>1. CASE GenerateElse
      BY <1>1, <2>1, ElseLeaves DEF GenerateElse
    <2>2. CASE GenerateEndIf
      BY <1>1, <2>2, EndIfLeaves DEF GenerateEndIf
    <2> QED
      BY <2>1, <2>2
  <1> QED
    BY <1>1, <1>2, LeaveValues DEF LeavesLevel

LEMMA SeparatorValues ==
  ASSUME ScopeInv, GeneratorInv, SymbolsInv, ValuesInv, StateNamesOnce, phase = "generate",
         GenerateStateSeparator
  PROVE  ValuesInv'
  <1>1. /\ Node.kind = "separator" /\ Visited /\ machine' = [Settled EXCEPT !.main = Kept(@)]
        /\ stack' = Kept(stack) /\ verify' = FALSE /\ stackCopy' = stackCopy /\ depths' = depths
        /\ taken' = taken /\ env' = env /\ meant' = meant
    BY DEF GenerateStateSeparator
  <1>2. Current = 0 /\ depths = <<>> /\ Len(taken) = 0 /\ Live
    <2>1. Len(depths) = 0 /\ Current = 0
      BY <1>1, NodeIs DEF NodeFits
    <2>2. Len(taken) = 0
      BY <1>1, <2>1, SidesAre DEF In
    <2>3. Live
      BY <2>2, PathTypes DEF Live
    <2> QED
      BY <2>1, <2>2, <2>3, PathTypes
  <1>3. SlotsHold(at, Current, stack, Settled, env)
    BY <1>2 DEF ValuesInv
  <1>4. PICK rest, V, W : /\ rest = RestOf(Current) /\ W = Wanted(at, Current)
                          /\ V = Wanted(at + 1, Current)
    OBVIOUS
  <1>5. PICK n \in Nat, more \in Nat, lower \in Seq(Contents) :
          /\ n = Len(stack) /\ more = Len(rest) /\ lower = Settled.main /\ Len(lower) = n + more
    <2>1. Settled \in MachinesOf(Contents) /\ Len(stack) \in Nat /\ Len(rest) \in Nat
          /\ Len(Settled.main) = Len(stack) + Len(rest)
      BY <1>3, <1>4 DEF SlotsHold, Mirrors, Sized
    <2>2. Settled.main \in Seq(Contents)
      BY <2>1 DEF MachinesOf
    <2> QED
      BY <2>1, <2>2
  <1>6. /\ Settled \in MachinesOf(Contents) /\ Len(Settled.alt) = 0
        /\ \A i \in 1 .. more : lower[n + i] = rest[i]
        /\ \A i \in 1 .. n : stack[i] \in W /\ First(stack, i) => lower[i] = Worth(env, stack[i])
    BY <1>3, <1>4, <1>5 DEF SlotsHold, Mirrors, Sized
  <1>7. PICK m \in Nat : /\ m = Len(Kept(stack)) /\ Kept(lower) \in Seq(Contents)
                         /\ KeptBeside(lower, n, m, more)
    BY <1>5, PathTypes, KeptSlots
  <1>8. \A x \in V : x \notin DeadNames /\ x \in W
    BY <1>1, <1>4, WantedIsNotDead
  <1>9. ASSUME NEW i \in 1 .. m, Kept(stack)[i] \in V, First(Kept(stack), i)
        PROVE  Kept(lower)[i] = Worth(env, Kept(stack)[i])
    <2>1. PICK j \in 1 .. n :
            /\ Kept(stack)[i] = stack[j] /\ Kept(lower)[i] = lower[j]
            /\ \A h \in 1 .. j - 1 : ~Dropped(h) => \E g \in 1 .. i - 1 : Kept(stack)[g] = stack[h]
      BY <1>7 DEF KeptBeside
    <2>2. ASSUME NEW h \in 1 .. j - 1 PROVE stack[h] # stack[j]
      <3> SUFFICES ASSUME stack[h] = stack[j] PROVE FALSE
        OBVIOUS
      <3>1. ~Dropped(h)
        BY <1>8, <1>9, <2>1 DEF Dropped
      <3>2. PICK g \in 1 .. i - 1 : Kept(stack)[g] = stack[h]
        BY <2>1, <3>1
      <3> QED
        BY <1>9, <2>1, <3>2 DEF First
    <2> QED
      BY <1>6, <1>8, <1>9, <2>1, <2>2 DEF First
  <1>10. PICK next : next = machine'
    OBVIOUS
  <1>11. /\ next.main = Kept(lower) /\ next.operands = Settled.operands
         /\ Sized(next, Contents, m + more, 0)
    <2>1. next = [Settled EXCEPT !.main = Kept(lower)]
      BY <1>1, <1>5, <1>10
    <2> QED
      BY <1>6, <1>7, <2>1 DEF Sized, MachinesOf, KeptBeside
  <1>12. Mirrors(Kept(stack), next, rest, V, env)
    BY <1>5, <1>7, <1>9, <1>11, <1>6 DEF Mirrors, KeptBeside
  <1>13. SlotsHold(at + 1, Current, stack', Settled', env')
    <2>1. Settled' = next
      BY <1>1, <1>10 DEF Settled
    <2> QED
      BY <1>1, <1>4, <1>12, <2>1 DEF SlotsHold
  <1>14. machine'.operands = meant'
    BY <1>1, <1>2, <1>10, <1>11, SettledOperands DEF ValuesInv
  <1>15. \A name \in Inline : env'[name] = Argument(name)
    BY <1>1 DEF ValuesInv
  <1> QED
    BY <1>1, <1>2, <1>13, <1>14, <1>15, StraightValues

-----------------------------------------------------------------------------
(* The functions and their values.                                         *)

\* The first slot of the selector has its value.
LEMMA SelectorFound ==
  ASSUME NEW slots \in Seq(Slots), NEW m, NEW rest, NEW W, NEW e, Mirrors(slots, m, rest, W, e),
         "$$" \in W, "$$" \in Range(slots), NEW index, index = StackIndex(slots, "$$")
  PROVE  /\ index \in Nat /\ index < Len(slots) /\ slots[index + 1] = "$$"
         /\ m.main[index + 1] = Selector
  <1>1. PICK l \in Nat : l = Len(slots) /\ DOMAIN slots = 1 .. l
    BY LenProperties
  <1>2. PICK i \in 1 .. l : slots[i] = "$$"
    BY <1>1 DEF Range
  <1>3. /\ index \in Nat /\ index < i /\ slots[index + 1] = "$$"
        /\ \A j \in 1 .. index : slots[j] # "$$"
    BY <1>1, <1>2, StackIndexFirst
  <1>4. index + 1 \in 1 .. l /\ index < l
    BY <1>3
  <1>5. First(slots, index + 1)
    BY <1>3 DEF First
  <1>6. m.main[index + 1] = Worth(e, slots[index + 1])
    BY <1>1, <1>3, <1>4, <1>5 DEF Mirrors
  <1> QED
    BY <1>1, <1>3, <1>4, <1>6 DEF Worth

\* It is compared.
LEMMA Compared ==
  ASSUME NEW m, NEW n \in Nat, Sized(m, Contents, 1 + n, 0), m.main[1] = Selector,
         NEW next, next = Exec(m, <<"COMPUTE", 1, <<>>>>)
  PROVE  /\ Sized(next, Contents, n, 0) /\ \A i \in 1 .. n : next.main[i] = m.main[i + 1]
         /\ next.operands = <<Selector>>
  <1>1. PICK more \in Nat : more = 1 + n /\ 1 <= more /\ more - 1 = n
    OBVIOUS
  <1>2. <<>> \in Seq(Contents) /\ Len(<<>>) = 0 /\ Missing \in Contents
    BY MachineTypes
  <1>3. PICK arity \in Nat, r \in Nat, results \in Seq(Contents) : arity = 1 /\ r = 0 /\ results = <<>>
    BY <1>2
  <1>4. Sized(next, Contents, r + (more - arity), 0) /\ Yields(next, m, more, arity, results, r)
    <2>1. Sized(m, Contents, more, 0) /\ arity <= more /\ r = Len(results)
          /\ next = Exec(m, <<"COMPUTE", arity, results>>)
      BY <1>1, <1>2, <1>3
    <2> QED
      BY <1>2, <2>1, ComputeEffect
  <1>5. Sized(next, Contents, n, 0)
    BY <1>1, <1>3, <1>4
  <1>6. /\ \A i \in 1 .. n : next.main[0 + i] = m.main[1 + i]
        /\ next.operands = [i \in 1 .. 1 |-> m.main[1 - i + 1]]
    BY <1>1, <1>3, <1>4 DEF Yields
  <1>7. next.operands = <<Selector>>
    <2>1. \A i \in 1 .. 1 : m.main[1 - i + 1] = Selector
      <3>1. \A i \in 1 .. 1 : 1 - i + 1 = 1
        OBVIOUS
      <3> QED
        BY <3>1
    <2>2. [i \in 1 .. 1 |-> m.main[1 - i + 1]] = [i \in 1 .. 1 |-> Selector]
      BY <2>1
    <2>3. [i \in 1 .. 1 |-> Selector] = <<Selector>>
      OBVIOUS
    <2> QED
      BY <1>6, <2>2, <2>3
  <1>8. \A i \in 1 .. n : next.main[i] = m.main[i + 1]
    BY <1>6
  <1> QED
    BY <1>5, <1>7, <1>8

\* The last function takes the selector,
LEMMA SelectorTaken ==
  ASSUME NEW slots \in Seq(Slots), NEW m, NEW rest, NEW W, NEW e, Mirrors(slots, m, rest, W, e),
         "$$" \in W, "$$" \in Range(slots), NEW index, index = StackIndex(slots, "$$"),
         NEW V, V \subseteq W, Value \notin V, "$$" \notin V,
         NEW next, next = Run(m, <<<<"ROLL", index>>, <<"COMPUTE", 1, <<>>>>>>)
  PROVE  Mirrors(Without(slots, index), next, rest, V, e) /\ next.operands = <<Selector>>
  <1>1. PICK l \in Nat, more \in Nat, n \in Nat : l = Len(slots) /\ more = Len(rest) /\ n = l + more
    <2>1. Len(slots) \in Nat /\ Len(rest) \in Nat
      BY DEF Mirrors
    <2> QED
      BY ONLY <2>1
  <1>2. /\ index \in Nat /\ index < l /\ slots[index + 1] = "$$"
        /\ m.main[index + 1] = Selector /\ Sized(m, Contents, n, 0)
    <2>1. Sized(m, Contents, n, 0)
      BY <1>1 DEF Mirrors
    <2>2. /\ index \in Nat /\ index < Len(slots) /\ slots[index + 1] = "$$"
          /\ m.main[index + 1] = Selector
      BY SelectorFound
    <2> QED
      BY <1>1, <2>1, <2>2
  <1>3. PICK rolled : rolled = Exec(m, <<"ROLL", index>>)
    OBVIOUS
  <1>4. next = Exec(rolled, <<"COMPUTE", 1, <<>>>>)
    BY <1>3, RunOfTwo
  <1>5. Sized(rolled, Contents, n, 0) /\ rolled.main[1] = Selector
    <2>1. index < n /\ Missing \in Contents
      BY <1>1, <1>2, MachineTypes
    <2>2. Sized(rolled, Contents, n, 0) /\ Raised(rolled, m, n, index)
      BY <1>2, <1>3, <2>1, RollEffect
    <2> QED
      BY <1>2, <2>2 DEF Raised
  <1>6. PICK b \in Nat : n = 1 + b /\ b = (l - 1) + more
    <2>1. n - 1 \in Nat /\ n = 1 + (n - 1) /\ n - 1 = (l - 1) + more
      BY <1>1, <1>2
    <2> QED
      BY <2>1
  <1>7. /\ Sized(next, Contents, b, 0) /\ \A i \in 1 .. b : next.main[i] = rolled.main[i + 1]
        /\ next.operands = <<Selector>>
    <2>1. Sized(rolled, Contents, 1 + b, 0)
      BY <1>5, <1>6
    <2> QED
      BY <1>4, <1>5, <2>1, Compared
  <1>8. PICK out, lower : out = Without(slots, index) /\ lower = <<Value>> \o out
    OBVIOUS
  <1>9. Mirrors(lower, rolled, rest, V, e)
    BY <1>1, <1>2, <1>3, <1>8, MirrorsRolled
  <1>10. out \in Seq(Slots) /\ Len(out) = l - 1
    BY <1>1, <1>2, <1>8, WithoutType
  <1>11. Len(lower) = l /\ lower[1] = Value /\ \A i \in 1 .. l - 1 : lower[i + 1] = out[i]
    <2>1. Value \in Slots
      BY DEF Slots
    <2>2. /\ Len(lower) = 1 + Len(out) /\ lower[1] = Value
          /\ \A i \in 1 .. Len(out) : lower[i + 1] = out[i]
      BY <1>8, <1>10, <2>1, PushedType
    <2> QED
      BY <1>1, <1>10, <2>2
  <1>12. MirroredOnTop(out, 0, lower, 1, next, rolled, more)
    <2>1. Len(out) = 0 + (l - 1) /\ Len(out) + more = b /\ (l - 1) + more = b
      BY <1>1, <1>6, <1>10
    <2>2. \A i \in 1 .. l - 1 : out[0 + i] = lower[1 + i]
      BY <1>11
    <2>3. \A i \in 1 .. b : next.main[0 + i] = rolled.main[1 + i]
      <3> TAKE i \in 1 .. b
      <3>1. 0 + i = i /\ 1 + i = i + 1
        OBVIOUS
      <3> QED
        BY <1>7, <3>1
    <2> QED
      BY <1>7, <1>11, <2>1, <2>2, <2>3 DEF MirroredOnTop
  <1>13. Mirrors(out, next, rest, V, e)
    <2>1. \A i \in 1 .. 1 : lower[i] \notin V
      BY <1>11
    <2>2. \A i \in 1 .. 0 : out[i] \in V /\ First(out, i) => next.main[i] = Worth(e, out[i])
      OBVIOUS
    <2>3. \A x \in V : (\E i \in 1 .. 0 : out[i] = x) \/ (x \in V /\ Worth(e, x) = Worth(e, x))
      OBVIOUS
    <2>4. 1 <= Len(lower) /\ 1 \in Nat /\ 0 \in Nat
      BY <1>1, <1>2, <1>11
    <2> QED
      BY ONLY <1>1, <1>9, <1>12, <2>1, <2>2, <2>3, <2>4, MirrorsOnTop
  <1> QED
    BY <1>7, <1>8, <1>13

\* the others leave it.
LEMMA SelectorCopied ==
  ASSUME NEW slots \in Seq(Slots), NEW m, NEW rest, NEW W, NEW e, Mirrors(slots, m, rest, W, e),
         "$$" \in W, "$$" \in Range(slots), NEW index, index = StackIndex(slots, "$$"),
         NEW next, next = Run(m, <<<<"PICK", index>>, <<"COMPUTE", 1, <<>>>>>>)
  PROVE  Mirrors(slots, next, rest, W, e) /\ next.operands = <<Selector>>
  <1>1. PICK l \in Nat, more \in Nat, n \in Nat : l = Len(slots) /\ more = Len(rest) /\ n = l + more
    <2>1. Len(slots) \in Nat /\ Len(rest) \in Nat
      BY DEF Mirrors
    <2> QED
      BY ONLY <2>1
  <1>2. /\ index \in Nat /\ index < l /\ slots[index + 1] = "$$"
        /\ m.main[index + 1] = Selector /\ Sized(m, Contents, n, 0)
    <2>1. Sized(m, Contents, n, 0)
      BY <1>1 DEF Mirrors
    <2>2. /\ index \in Nat /\ index < Len(slots) /\ slots[index + 1] = "$$"
          /\ m.main[index + 1] = Selector
      BY SelectorFound
    <2> QED
      BY <1>1, <2>1, <2>2
  <1>3. PICK picked : picked = Exec(m, <<"PICK", index>>)
    OBVIOUS
  <1>4. next = Exec(picked, <<"COMPUTE", 1, <<>>>>)
    BY <1>3, RunOfTwo
  <1>5. Sized(picked, Contents, 1 + n, 0) /\ OneMore(picked, m, n, Selector)
    <2>1. index < n /\ Missing \in Contents
      BY <1>1, <1>2, MachineTypes
    <2> QED
      BY <1>2, <1>3, <2>1, PickEffect
  <1>6. /\ Sized(next, Contents, n, 0) /\ \A i \in 1 .. n : next.main[i] = picked.main[i + 1]
        /\ next.operands = <<Selector>>
    BY <1>4, <1>5, Compared DEF OneMore
  <1>7. \A i \in 1 .. n : next.main[i] = m.main[i]
    BY <1>5, <1>6 DEF OneMore
  <1>8. Mirrors(slots, next, rest, W, e)
    <2>1. \A i \in 1 .. more : l + i \in 1 .. n
      BY <1>1
    <2>2. \A i \in 1 .. l : i \in 1 .. n
      BY <1>1
    <2> QED
      BY <1>1, <1>6, <1>7, <2>1, <2>2 DEF Mirrors
  <1> QED
    BY <1>6, <1>8

LEMMA RestIs ==
  ASSUME GeneratorInv, phase = "generate", selected \in 1 .. Len(Functions),
         NEW own, own = Values(Reverse(Functions[selected]))
  PROVE  /\ own \in Seq(Contents) /\ Len(own) = Len(Functions[selected]) /\ Len(own) \in Nat
         /\ \A f : f # selected /\ ~(f = 0 /\ Len(Functions) > 1) => RestOf(f) = own
         /\ Len(Functions) > 1 => RestOf(0) = <<Selector>> \o own
         /\ RestOf(selected) = <<>>
  <1>1. header \in Headers /\ 0 # selected
    BY NodeIs
  <1>2. PICK names \in Seq(Names) : names = Functions[selected] /\ Len(names) \in Nat
    BY <1>1, FunctionParameters
  <1>3. PICK turned \in Seq(Names) : turned = Reverse(names) /\ Len(turned) = Len(names)
    BY ReverseType
  <1>4. own \in Seq(Contents) /\ Len(own) = Len(turned)
    <2>1. Values(turned) \in Seq(Contents) /\ Len(Values(turned)) = Len(turned)
      BY ValuesType
    <2> QED
      BY <1>2, <1>3, <2>1
  <1>5. <<>> \o own = own
    BY <1>4, ConcatEmptySeq
  <1>6. \A f : RestOf(f) = IF f = selected THEN <<>>
                             ELSE (IF f = 0 /\ Len(Functions) > 1 THEN <<Selector>> ELSE <<>>) \o own
    BY DEF RestOf
  <1> QED
    BY <1>1, <1>2, <1>3, <1>4, <1>5, <1>6

\* One argument gets a slot, which is that of the selector.
LEMMA SelectorNamed ==
  ASSUME stack \in Seq(Slots), "$$" \notin Range(stack), NEW m, NEW own \in Seq(Contents), NEW W, NEW e,
         Mirrors(stack, m, <<Selector>> \o own, W, e)
  PROVE  Mirrors(WithSelector(stack), m, own, W \cup {"$$"}, e)
  <1>1. PICK l \in Nat, k \in Nat : l = Len(stack) /\ k = Len(own) /\ DOMAIN stack = 1 .. l
    BY LenProperties
  <1>2. PICK rest : rest = <<Selector>> \o own
    OBVIOUS
  <1>3. Len(rest) = 1 + k /\ rest[1] = Selector /\ \A i \in 1 .. k : rest[i + 1] = own[i]
    <2>1. Selector \in Contents
      BY MachineTypes
    <2>2. PICK x \in Contents : x = Selector
      BY <2>1
    <2>3. /\ Len(<<x>> \o own) = 1 + k /\ (<<x>> \o own)[1] = x
          /\ \A i \in 1 .. k : (<<x>> \o own)[i + 1] = own[i]
      BY <1>1, PushedType
    <2> QED
      BY <1>2, <2>2, <2>3
  <1>4. /\ Sized(m, Contents, l + (1 + k), 0) /\ \A i \in 1 .. 1 + k : m.main[l + i] = rest[i]
        /\ \A i \in 1 .. l : stack[i] \in W /\ First(stack, i) => m.main[i] = Worth(e, stack[i])
    <2>1. Mirrors(stack, m, rest, W, e)
      BY <1>2
    <2> QED
      BY <1>1, <1>3, <2>1 DEF Mirrors
  <1>5. PICK slots : slots = WithSelector(stack)
    OBVIOUS
  <1>6. /\ Len(slots) = l + 1 /\ slots[l + 1] = "$$" /\ \A i \in 1 .. l : slots[i] = stack[i]
    <2>1. PICK x \in Slots : x = "$$"
      BY MachineTypes
    <2>2. /\ Len(Append(stack, x)) = l + 1 /\ Append(stack, x)[l + 1] = x
          /\ \A i \in 1 .. l : Append(stack, x)[i] = stack[i]
      BY <1>1, OneMoreSlot
    <2> QED
      BY <1>5, <2>1, <2>2 DEF WithSelector
  <1>7. ASSUME NEW i \in 1 .. k PROVE m.main[(l + 1) + i] = own[i]
    <2>1. i + 1 \in 1 .. 1 + k /\ (l + 1) + i = l + (i + 1)
      OBVIOUS
    <2> QED
      BY <1>3, <1>4, <2>1
  <1>8. ASSUME NEW i \in 1 .. l + 1, slots[i] \in W \cup {"$$"}, First(slots, i)
        PROVE  m.main[i] = Worth(e, slots[i])
    <2>1. CASE i = l + 1
      <3>1. 1 \in 1 .. 1 + k
        OBVIOUS
      <3> QED
        BY <1>3, <1>4, <1>6, <2>1, <3>1 DEF Worth
    <2>2. CASE i # l + 1
      <3>1. i \in 1 .. l /\ \A j \in 1 .. i - 1 : j \in 1 .. l
        BY <2>2
      <3>2. slots[i] = stack[i] /\ stack[i] # "$$"
        BY <1>1, <1>6, <3>1 DEF Range
      <3>3. First(stack, i)
        BY <1>6, <1>8, <3>1, <3>2 DEF First
      <3> QED
        BY <1>4, <1>8, <3>1, <3>2, <3>3
    <2> QED
      BY <2>1, <2>2
  <1>9. Sized(m, Contents, (l + 1) + k, 0) /\ l + 1 \in Nat
    <2>1. (l + 1) + k = l + (1 + k) /\ l + 1 \in Nat
      OBVIOUS
    <2> QED
      BY <1>4, <2>1
  <1>10. Mirrors(slots, m, own, W \cup {"$$"}, e)
    BY <1>1, <1>6, <1>7, <1>8, <1>9 DEF Mirrors
  <1> QED
    BY <1>5, <1>10

\* What the machine holds where the path comes to a function.
LEMMA FunctionBegins ==
  ASSUME ScopeInv, GeneratorInv, SymbolsInv, ValuesInv, phase = "generate", Node.kind = "function",
         NEW f, f = FunctionOf(at),
         NEW slots, slots = IF Len(Functions) > 1 /\ f = 1 THEN WithSelector(stack) ELSE stack,
         NEW before, before = IF Current = 0 THEN Wanted(at, 0) ELSE Later(at, Current),
         NEW own, own = Values(Reverse(Functions[selected])), Live
  PROVE  Mirrors(slots, Settled, own, before \cup {"$$"}, env)
  <1>1. /\ f = Current + 1 /\ selected \in 1 .. Len(Functions) /\ f <= selected /\ Current \in Nat
        /\ stack \in Seq(Slots) /\ selected \in Nat
    BY FunctionStarts, PathTypes
  <1>2. /\ own \in Seq(Contents)
        /\ Current # selected /\ ~(Current = 0 /\ Len(Functions) > 1) => RestOf(Current) = own
        /\ Len(Functions) > 1 => RestOf(0) = <<Selector>> \o own
    BY <1>1, RestIs
  <1>3. Current < selected /\ Current # selected
    BY <1>1
  <1>4. CASE Current = 0
    <2>1. Mirrors(stack, Settled, RestOf(0), before, env)
      BY <1>4 DEF ValuesInv, SlotsHold
    <2>2. "$$" \notin Range(stack)
      BY <1>4, FunctionInherits
    <2>3. CASE Len(Functions) > 1
      <3>1. slots = WithSelector(stack) /\ Mirrors(stack, Settled, <<Selector>> \o own, before, env)
        <4>1. f = 1
          BY <1>1, <1>4
        <4> QED
          BY <1>2, <2>1, <2>3, <4>1
      <3>2. Mirrors(WithSelector(stack), Settled, own, before \cup {"$$"}, env)
        BY <1>1, <1>2, <2>2, <3>1, SelectorNamed
      <3> QED
        BY <3>1, <3>2
    <2>4. CASE ~(Len(Functions) > 1)
      <3>1. slots = stack /\ Mirrors(stack, Settled, own, before, env)
        BY <1>2, <1>3, <1>4, <2>1, <2>4
      <3>2. PICK V : V = before \cup {"$$"}
        OBVIOUS
      <3>3. \A i \in 1 .. Len(stack) : stack[i] \in V => stack[i] \in before
        <4>1. DOMAIN stack = 1 .. Len(stack)
          BY <1>1, LenProperties
        <4> QED
          BY <2>2, <3>2, <4>1 DEF Range
      <3>4. Mirrors(stack, Settled, own, V, env)
        BY <3>1, <3>3, MirrorsSame
      <3> QED
        BY <3>1, <3>2, <3>4
    <2> QED
      BY <2>3, <2>4
  <1>5. CASE Current # 0
    <2>1. Before = "end"
      <3>1. f # 1
        BY <1>1, <1>5
      <3> QED
        BY <3>1, NodeIs DEF NodeFits
    <2>2. stack = stackCopy /\ Len(Functions) > 1
      BY <2>1 DEF GeneratorInv, Sides
    <2>3. slots = stackCopy /\ RestOf(Current) = own /\ Current > 0
      BY <1>1, <1>2, <1>3, <1>5, <2>2
    <2>4. Mirrors(stackCopy, Settled, RestOf(Current), Later(at, Current) \cup {"$$"}, env)
      BY <1>3, <2>2, <2>3 DEF ValuesInv, CopyValues
    <2> QED
      BY <1>5, <2>3, <2>4
  <1> QED
    BY <1>4, <1>5

\* The selected function names the arguments that are left.
LEMMA ArgumentsNamed ==
  ASSUME header \in Headers, NEW top \in Seq(Slots), NEW m, NEW names \in Seq(Names), NEW W,
         Mirrors(top, m, Values(names), W, env),
         \A x \in Range(top) : x \notin Range(names),
         NEW d, \A name \in Range(names) : d[name] = Argument(name),
         \A name \in Names : name \in Range(names) \/ d[name] = env[name],
         NEW V, V \subseteq Names, V \subseteq W \cup Range(names),
         NEW st, st = top \o names
  PROVE  Mirrors(st, m, <<>>, V, d)
  <1>1. PICK l \in Nat, k \in Nat : /\ l = Len(top) /\ k = Len(names)
                                    /\ DOMAIN top = 1 .. l /\ DOMAIN names = 1 .. k
    BY LenProperties
  <1>2. Values(names) \in Seq(Contents) /\ Len(Values(names)) = k
    BY <1>1, ValuesType
  <1>3. /\ Sized(m, Contents, l + k, 0) /\ \A i \in 1 .. k : m.main[l + i] = Argument(names[i])
        /\ \A i \in 1 .. l : top[i] \in W /\ First(top, i) => m.main[i] = Worth(env, top[i])
    <2>1. \A i \in 1 .. k : Values(names)[i] = Argument(names[i])
      BY <1>1 DEF Values
    <2> QED
      BY <1>1, <1>2, <2>1 DEF Mirrors
  <1>4. /\ Len(st) = l + k /\ \A i \in 1 .. l : st[i] = top[i]
        /\ \A i \in 1 .. k : st[l + i] = names[i]
    <2>1. PICK a \in Seq(Slots), b \in Seq(Slots) : a = top /\ b = names
      BY MachineTypes
    <2>2. /\ Len(a \o b) = l + k /\ \A i \in 1 .. l : (a \o b)[i] = a[i]
          /\ \A i \in 1 .. k : (a \o b)[l + i] = b[i]
      BY <1>1, <2>1, JoinedSlots
    <2> QED
      BY <2>1, <2>2
  <1>5. \A name \in V : name # "$$"
    BY NamesAreNoMarks
  <1>6. ASSUME NEW i \in 1 .. l + k, st[i] \in V, First(st, i) PROVE m.main[i] = Worth(d, st[i])
    <2>1. CASE i <= l
      <3>1. i \in 1 .. l /\ \A j \in 1 .. i - 1 : j \in 1 .. l
        BY <2>1
      <3>2. st[i] = top[i] /\ top[i] \in Range(top)
        BY <1>1, <1>4, <3>1 DEF Range
      <3>3. First(top, i)
        BY <1>4, <1>6, <3>1 DEF First
      <3>4. top[i] \in W /\ top[i] \in Names /\ d[top[i]] = env[top[i]]
        BY <1>6, <3>2
      <3>5. m.main[i] = Worth(env, top[i])
        BY <1>3, <3>1, <3>3, <3>4
      <3> QED
        BY <1>5, <1>6, <3>2, <3>4, <3>5 DEF Worth
    <2>2. CASE ~(i <= l)
      <3>1. PICK h \in 1 .. k : i = l + h
        <4>1. i - l \in 1 .. k /\ i = l + (i - l)
          BY <2>2
        <4> QED
          BY <4>1
      <3>2. st[i] = names[h] /\ m.main[i] = Argument(names[h]) /\ names[h] \in Range(names)
        BY <1>1, <1>3, <1>4, <3>1 DEF Range
      <3> QED
        BY <1>5, <1>6, <3>2 DEF Worth
    <2> QED
      BY <2>1, <2>2
  <1>7. Len(<<>>) = 0 /\ Len(st) + 0 = l + k
    BY <1>4
  <1> QED
    BY <1>3, <1>4, <1>6, <1>7 DEF Mirrors

\* A function, the slots it starts with, those that are left of them, the names that may
\* be mentioned, and the arguments of the one that is called.
Begins(f, slots, index, top, before, own) ==
    /\ f = FunctionOf(at)
    /\ slots = IF Len(Functions) > 1 /\ f = 1 THEN WithSelector(stack) ELSE stack
    /\ index = StackIndex(slots, "$$")
    /\ top = IF Len(Functions) > 1 /\ f = Len(Functions) THEN Without(slots, index) ELSE slots
    /\ before = IF Current = 0 THEN Wanted(at, 0) ELSE Later(at, Current)
    /\ own = Values(Reverse(Functions[selected]))

\* On the path the slots have their values; the next function finds the selector.
Dispatches(f, slots, top, before, own) ==
    /\ Mirrors(top, machine', own, before, env) /\ machine'.operands = meant'
    /\ Len(Functions) > 1 /\ f # Len(Functions) =>
         Mirrors(slots, machine', own, before \cup {"$$"}, env)

\* The dispatcher leaves the slots below the arguments of the function.
LEMMA Dispatched ==
  ASSUME ScopeInv, GeneratorInv, SymbolsInv, ValuesInv, phase = "generate", GenerateFunction, Live,
         NEW f, NEW slots, NEW index, NEW top, NEW before, NEW own,
         Begins(f, slots, index, top, before, own)
  PROVE  Dispatches(f, slots, top, before, own)
  <1> USE DEF Begins
  <1>1. /\ Node.kind = "function" /\ header \in Headers
        /\ machine' = Run(Settled, IF ~(Len(Functions) > 1) THEN <<>>
                            ELSE <<<<IF f = Len(Functions) THEN "ROLL" ELSE "PICK", index>>>>
                                   \o <<<<"COMPUTE", 1, <<>>>>>>)
        /\ meant' = IF Len(Functions) > 1 THEN <<Selector>> ELSE meant
    BY NodeIs DEF GenerateFunction, Execute
  <1>2. PICK m, W : m = Settled /\ W = before \cup {"$$"} /\ Mirrors(slots, m, own, W, env)
    BY <1>1, FunctionBegins
  <1>3. slots \in Seq(Slots) /\ (Len(Functions) > 1 => "$$" \in Range(slots))
    BY <1>1, FunctionStarts
  <1>4. before \subseteq Names /\ before \subseteq W /\ "$$" \in W /\ Value \notin before /\ "$$" \notin before
    <2>1. before \subseteq Names
      BY DEF Wanted, Later
    <2> QED
      BY <1>1, <1>2, <2>1, NamesAreNoMarks
  <1>5. CASE ~(Len(Functions) > 1)
    <2>1. machine' = m /\ top = slots /\ meant' = meant
      BY <1>1, <1>2, <1>5, RunOfNone
    <2>2. Mirrors(slots, m, own, before, env)
      BY <1>2, <1>4, MirrorsSame
    <2>3. m.operands = machine.operands /\ machine.operands = meant
      BY <1>2, SettledOperands DEF ValuesInv
    <2> QED
      BY <1>5, <2>1, <2>2, <2>3 DEF Dispatches
  <1>6. CASE Len(Functions) > 1
    <2>1. machine' = Run(m, <<<<IF f = Len(Functions) THEN "ROLL" ELSE "PICK", index>>, <<"COMPUTE", 1, <<>>>>>>)
          /\ meant' = <<Selector>>
      <3>1. \A a, b : <<a>> \o <<b>> = <<a, b>>
        BY PairIs
      <3> QED
        BY <1>1, <1>2, <1>6, <3>1
    <2>2. CASE f = Len(Functions)
      <3>1. machine' = Run(m, <<<<"ROLL", index>>, <<"COMPUTE", 1, <<>>>>>>) /\ top = Without(slots, index)
        BY <1>6, <2>1, <2>2
      <3>2. PICK next : next = machine'
        OBVIOUS
      <3>3. Mirrors(Without(slots, index), next, own, before, env) /\ next.operands = <<Selector>>
        <4>1. /\ slots \in Seq(Slots) /\ Mirrors(slots, m, own, W, env)
              /\ "$$" \in W /\ "$$" \in Range(slots) /\ index = StackIndex(slots, "$$")
          BY <1>2, <1>3, <1>4, <1>6
        <4>2. /\ next = Run(m, <<<<"ROLL", index>>, <<"COMPUTE", 1, <<>>>>>>)
              /\ before \subseteq W /\ Value \notin before /\ "$$" \notin before
          BY <1>4, <3>1, <3>2
        <4> QED
          BY ONLY <4>1, <4>2, SelectorTaken
      <3> QED
        BY <2>1, <2>2, <3>1, <3>2, <3>3 DEF Dispatches
    <2>3. CASE f # Len(Functions)
      <3>1. machine' = Run(m, <<<<"PICK", index>>, <<"COMPUTE", 1, <<>>>>>>) /\ top = slots
        BY <1>6, <2>1, <2>3
      <3>2. PICK next : next = machine'
        OBVIOUS
      <3>3. Mirrors(slots, next, own, W, env) /\ next.operands = <<Selector>>
        <4>1. /\ slots \in Seq(Slots) /\ Mirrors(slots, m, own, W, env)
              /\ "$$" \in W /\ "$$" \in Range(slots) /\ index = StackIndex(slots, "$$")
          BY <1>2, <1>3, <1>4, <1>6
        <4>2. next = Run(m, <<<<"PICK", index>>, <<"COMPUTE", 1, <<>>>>>>)
          BY <3>1, <3>2
        <4> QED
          BY ONLY <4>1, <4>2, SelectorCopied
      <3>4. Mirrors(slots, next, own, before, env)
        BY <1>4, <3>3, MirrorsSame
      <3> QED
        BY <1>2, <2>1, <3>1, <3>2, <3>3, <3>4 DEF Dispatches
    <2> QED
      BY <2>2, <2>3
  <1> QED
    BY <1>5, <1>6 DEF Dispatches

LEMMA FunctionValues ==
  ASSUME ScopeInv, GeneratorInv, SymbolsInv, ValuesInv, phase = "generate", GenerateFunction
  PROVE  ValuesInv'
  <1>1. PICK f, slots, before, own : 
          /\ f = FunctionOf(at)
          /\ slots = (IF Len(Functions) > 1 /\ f = 1 THEN WithSelector(stack) ELSE stack)
          /\ before = (IF Current = 0 THEN Wanted(at, 0) ELSE Later(at, Current))
          /\ own = Values(Reverse(Functions[selected]))
    OBVIOUS
  <1>2. PICK index, top : /\ index = StackIndex(slots, "$$")
                          /\ top = IF Len(Functions) > 1 /\ f = Len(Functions)
                                     THEN Without(slots, index) ELSE slots
    OBVIOUS
  <1>3. /\ Node.kind = "function" /\ Visited /\ stackCopy' = slots /\ verify' = FALSE
        /\ stack' = top \o Reverse(Node.targets) /\ depths' = depths
        /\ taken' = <<Live /\ f = selected>>
        /\ env' = IF Live /\ f = selected
                    THEN [name \in Names |-> IF name \in Range(Node.targets) THEN Argument(name)
                                                                           ELSE env[name]]
                    ELSE env
        /\ ~Live => machine' = machine /\ meant' = meant
    BY <1>1, <1>2 DEF GenerateFunction, Execute
  <1>4. /\ f = Current + 1 /\ f \in 1 .. Len(Functions) /\ Node.targets = Functions[f]
        /\ selected \in 1 .. Len(Functions) /\ depths = <<>> /\ slots \in Seq(Slots)
        /\ Len(Functions) > 1 => "$$" \in Range(slots)
        /\ f <= selected => Live
        /\ header \in Headers /\ at \in Nat /\ Node.targets \in Seq(Names) /\ selected \in Nat /\ f \in Nat
    BY <1>1, <1>3, FunctionStarts, NodeIs
  <1>5. Settled' = machine'
    BY <1>3 DEF Settled
  <1>6. ASSUME Live
        PROVE  /\ Mirrors(top, machine', own, before, env) /\ machine'.operands = meant'
               /\ Len(Functions) > 1 /\ f # Len(Functions) =>
                    Mirrors(slots, machine', own, before \cup {"$$"}, env)
    <2>1. Begins(f, slots, index, top, before, own)
      BY <1>1, <1>2 DEF Begins
    <2> QED
      BY <1>6, <2>1, Dispatched DEF Dispatches
  <1>7. machine'.operands = meant'
    BY <1>3, <1>6 DEF ValuesInv
  <1>8. Live' => Live /\ f = selected
    <2> SUFFICES ASSUME ~(Live /\ f = selected) PROVE ~Live'
      OBVIOUS
    <2>1. (Live /\ f = selected) = FALSE
      OBVIOUS
    <2>2. taken' = <<FALSE>>
      BY <1>3, <2>1
    <2>3. 1 \in DOMAIN taken' /\ ~taken'[1]
      BY <2>2
    <2> QED
      BY <2>3 DEF Live
  <1>9. ASSUME Live' PROVE SlotsHold(at + 1, f, stack', Settled', env')
    <2>1. Live /\ f = selected
      BY <1>8, <1>9
    <2>2. PICK names \in Seq(Names) : names = Reverse(Node.targets) /\ Range(names) = Range(Node.targets)
      BY <1>4, ReverseType, ReversedRange
    <2>3. Mirrors(top, machine', Values(names), before, env)
      BY <1>1, <1>4, <1>6, <2>1, <2>2
    <2>4. top \in Seq(Slots) /\ Range(top) \subseteq Range(slots)
      <3>1. CASE Len(Functions) > 1 /\ f = Len(Functions)
        <4>1. index \in Nat /\ index < Len(slots)
          <5>1. StackIndex(slots, "$$") \in -1 .. Len(slots) - 1 /\ StackIndex(slots, "$$") >= 0
            BY <1>4, <3>1, StackIndexIs
          <5>2. Len(slots) \in Nat
            BY <1>4, LenProperties
          <5> QED
            BY <1>2, <5>1, <5>2
        <4> QED
          BY <1>2, <1>4, <3>1, <4>1, WithoutType, WithoutRange
      <3>2. CASE ~(Len(Functions) > 1 /\ f = Len(Functions))
        BY <1>2, <1>4, <3>2
      <3> QED
        BY <3>1, <3>2
    <2>5. \A x \in Range(top) : x \notin Range(names)
      <3>1. CopyScoped(at, slots)
        BY <1>1, <1>3, FunctionInherits
      <3>2. \A x \in Range(slots) : x \in Names => VisibleAt(program, x, at)
        <4>1. DOMAIN slots = 1 .. Len(slots)
          BY <1>4, LenProperties
        <4> QED
          BY <3>1, <4>1 DEF CopyScoped, Range
      <3>3. /\ NodeScoped(program, at) /\ program[at] = Node
            /\ \A name : Declares(program, at, name) <=>
                 Node.kind \in {"define", "tuple", "function"} /\ name \in Range(Node.targets)
        BY AtIs
      <3>4. \A name \in Range(Node.targets) : ~VisibleAt(program, name, at)
        BY <1>3, <3>3 DEF NodeScoped
      <3>5. Range(names) \subseteq Names
        <4>1. DOMAIN names = 1 .. Len(names)
          BY LenProperties
        <4> QED
          BY <4>1, ElementOfSeq DEF Range
      <3> QED
        BY <2>2, <2>4, <3>2, <3>4, <3>5
    <2>6. PICK d : /\ d = env'
                   /\ \A name \in Range(names) : d[name] = Argument(name)
                   /\ \A name \in Names : name \in Range(names) \/ d[name] = env[name]
      <3>1. env' = [name \in Names |-> IF name \in Range(names) THEN Argument(name) ELSE env[name]]
        BY <1>3, <2>1, <2>2
      <3>2. Range(names) \subseteq Names
        <4>1. DOMAIN names = 1 .. Len(names)
          BY LenProperties
        <4> QED
          BY <4>1, ElementOfSeq DEF Range
      <3> QED
        BY <3>1, <3>2
    <2>7. PICK V : V = Wanted(at + 1, f) /\ V \subseteq Names /\ V \subseteq before \cup Range(names)
      <3>1. \A name \in Wanted(at + 1, f) : Declares(program, at, name) \/ name \in before
        BY <1>1, <1>3, FunctionWants
      <3>2. \A name : Declares(program, at, name) => name \in Range(Node.targets)
        BY DeclaredIsNew
      <3> QED
        BY <2>2, <3>1, <3>2 DEF Wanted
    <2>8. PICK st, m : st = stack' /\ st = top \o names /\ m = machine'
      BY <1>3, <2>2
    <2>9. Mirrors(st, m, <<>>, V, d)
      BY <1>4, <2>3, <2>4, <2>5, <2>6, <2>7, <2>8, ArgumentsNamed
    <2>10. RestOf(f) = <<>>
      BY <2>1 DEF RestOf
    <2> QED
      BY <1>5, <2>6, <2>7, <2>8, <2>9, <2>10 DEF SlotsHold
  <1>10. CopyValues(at + 1, f, stackCopy', Settled', env')
    <2> SUFFICES ASSUME Len(Functions) > 1, f < selected
                 PROVE  Mirrors(slots, machine', RestOf(f), Later(at + 1, f) \cup {"$$"}, env)
      <3>1. f < selected => env' = env
        BY <1>3, <1>4
      <3> QED
        BY <1>3, <1>5, <3>1 DEF CopyValues
    <2>1. Live /\ f # Len(Functions) /\ f # selected /\ f # 0
      BY <1>4
    <2>2. Mirrors(slots, machine', own, before \cup {"$$"}, env) /\ RestOf(f) = own
      BY <1>1, <1>4, <1>6, <2>1, RestIs
    <2>3. Later(at + 1, f) \subseteq before
      BY <1>1, <1>3, FunctionWants
    <2>4. PICK V, W, m : /\ V = Later(at + 1, f) \cup {"$$"} /\ W = before \cup {"$$"} /\ V \subseteq W
                         /\ m = machine'
      BY <2>3
    <2>5. Mirrors(slots, m, own, V, env)
      BY <2>2, <2>4, MirrorsSame
    <2> QED
      BY <2>2, <2>4, <2>5
  <1>11. \A name \in Inline : env'[name] = Argument(name)
    <2> SUFFICES ASSUME NEW name \in Inline PROVE env'[name] = Argument(name)
      OBVIOUS
    <2>1. env[name] = Argument(name) /\ name \in Names
      BY DeclaredIsNew DEF ValuesInv
    <2> QED
      BY <1>3, <2>1
  <1>12. /\ header' = header /\ program' = program /\ selected' = selected /\ at' = at + 1
         /\ Current' = f /\ at + 1 \in Nat
    BY <1>3, <1>4, VisitedMeans
  <1>13. \A t \in 1 .. Len(depths') : Outer(t)' =>
           SlotsHold(at + 1, f, From(stack', Len(stack') - depths'[t]), Settled', env')
    <2>1. Len(depths') = 0
      BY <1>3, <1>4
    <2> QED
      BY <2>1
  <1> QED
    BY <1>7, <1>9, <1>10, <1>11, <1>12, <1>13, ValuesNext

-----------------------------------------------------------------------------
(* The end of a body and its values.                                       *)

LEMMA NipsKeepOperands ==
  ASSUME NEW S, NEW m \in MachinesOf(S), NEW j \in Nat
  PROVE  Run(m, Times(j, <<"NIP">>)).operands = m.operands
  <1> DEFINE D == {i \in Nat : Run(m, Times(i, <<"NIP">>)).operands = m.operands}
  <1>1. 0 \in D
    BY RunOfNone, TimesNone
  <1>2. ASSUME NEW i \in Nat, i \in D PROVE i + 1 \in D
    <2>1. PICK before : before = Run(m, Times(i, <<"NIP">>)) /\ before \in MachinesOf(S)
      BY RunNips
    <2>2. /\ Times(i, <<"NIP">>) \in Seq({<<"NIP">>}) /\ <<"NIP">> \in {<<"NIP">>}
          /\ Times(i + 1, <<"NIP">>) = Append(Times(i, <<"NIP">>), <<"NIP">>)
      BY TimesMore
    <2>3. Run(m, Times(i + 1, <<"NIP">>)) = Exec(before, <<"NIP">>)
      BY <2>1, <2>2, RunOfMore
    <2>4. Exec(before, <<"NIP">>).operands = before.operands
      BY <2>1 DEF Exec, MachinesOf
    <2> QED
      BY <1>2, <2>1, <2>3, <2>4
  <1>3. \A i \in Nat : i \in D
    <2> HIDE DEF D
    <2> QED
      BY <1>1, <1>2, InductionOnSet
  <1> QED
    BY <1>3

\* The last operation on the path that computed anything is still that of the body.
LEMMA EndOperands ==
  ASSUME GeneratorInv, ValuesInv, phase = "generate", GenerateEnd
  PROVE  machine'.operands = meant'
  <1>1. PICK before : before = IF KeepsValue THEN machine
                                 ELSE Run(Settled, <<<<"PUSH", <<<<"OP_1", 0>>>>>>>>)
    OBVIOUS
  <1>2. /\ machine' = IF Live THEN Run(before, Times(Len(stack), <<"NIP">>)) ELSE machine
        /\ meant' = meant
    BY <1>1 DEF GenerateEnd, CleanStack
  <1>3. CASE Live
    <2>1. Settled \in MachinesOf(Contents) /\ machine \in MachinesOf(Contents) /\ Len(stack) \in Nat
      BY <1>3, PathTypes, MachineTypes DEF Sized
    <2>2. PICK values \in Seq(Contents) : values = <<<<"OP_1", 0>>>>
      <3>1. PICK result \in Contents : result = <<"OP_1", 0>>
        BY MachineTypes
      <3>2. <<result>> \in Seq(Contents)
        OBVIOUS
      <3> QED
        BY <3>1, <3>2
    <2>3. PICK pushed : pushed = Exec(Settled, <<"PUSH", values>>)
      OBVIOUS
    <2>4. pushed \in MachinesOf(Contents)
      <3>1. Sized(Settled, Contents, Len(Settled.main), Len(Settled.alt))
        BY <2>1 DEF Sized
      <3> QED
        BY <2>3, <3>1, ExecPush DEF Sized
    <2>5. pushed.operands = machine.operands
      <3>1. pushed.operands = Settled.operands
        BY <2>1, <2>3 DEF Exec, MachinesOf
      <3> QED
        BY <1>3, <3>1, SettledOperands
    <2>6. before = machine \/ before = pushed
      <3>1. Run(Settled, <<<<"PUSH", values>>>>) = pushed
        BY <2>3, RunOfOne
      <3> QED
        BY <1>1, <2>2, <3>1
    <2>7. before \in MachinesOf(Contents) /\ before.operands = machine.operands
      BY <2>1, <2>4, <2>5, <2>6
    <2>8. Run(before, Times(Len(stack), <<"NIP">>)).operands = before.operands
      BY <2>1, <2>7, NipsKeepOperands
    <2> QED
      BY <1>2, <1>3, <2>7, <2>8 DEF ValuesInv
  <1>4. CASE ~Live
    BY <1>2, <1>4 DEF ValuesInv
  <1> QED
    BY <1>3, <1>4

LEMMA EndValues ==
  ASSUME ScopeInv, GeneratorInv, SymbolsInv, ValuesInv, phase = "generate", GenerateEnd,
         at # Len(program)
  PROVE  ValuesInv'
  <1>1. /\ Node.kind = "end" /\ Visited /\ stackCopy' = stackCopy /\ depths' = depths
        /\ verify' = FALSE /\ taken' = <<FunctionOf(at) < selected>> /\ env' = env
        /\ ~Live => machine' = machine
    BY DEF GenerateEnd
  <1>2. Len(depths) = 0 /\ FunctionOf(at) = Current /\ Current > 0 /\ Current \in Nat
    BY <1>1, EndIsFollowed, NodeIs
  <1>3. /\ header' = header /\ program' = program /\ selected' = selected /\ at' = at + 1
        /\ Current' = Current /\ at + 1 \in Nat
    BY <1>1, VisitedMeans, UnnamedKept, NodeIs
  <1>4. Settled' = machine'
    BY <1>1 DEF Settled
  <1>5. ~(Live' /\ Current \in {0, selected})
    <2> SUFFICES ASSUME Current \in {0, selected} PROVE ~Live'
      OBVIOUS
    <2>1. (Current < selected) = FALSE
      BY <1>2
    <2>2. taken' = <<FALSE>>
      BY <1>1, <1>2, <2>1
    <2>3. 1 \in DOMAIN taken' /\ ~taken'[1]
      BY <2>2
    <2> QED
      BY <2>3 DEF Live
  <1>6. CopyValues(at + 1, Current, stackCopy', Settled', env')
    BY <1>1, <1>4, CopyDead
  <1>7. \A name \in Inline : env'[name] = Argument(name)
    BY <1>1 DEF ValuesInv
  <1>8. machine'.operands = meant'
    BY EndOperands
  <1>9. \A t \in 1 .. Len(depths') : Outer(t)' =>
          SlotsHold(at + 1, Current, From(stack', Len(stack') - depths'[t]), Settled', env')
    <2>1. Len(depths') = 0
      BY <1>1, <1>2
    <2> QED
      BY <2>1
  <1> QED
    BY <1>3, <1>5, <1>6, <1>7, <1>8, <1>9, ValuesNext

\* At the start the arguments are in their slots.
LEMMA FreshValues ==
  ASSUME ValuesTraceable(Headers), ScopeInv, GeneratorInv, phase = "generate", Fresh
  PROVE  ValuesInv
  <1>1. /\ header \in Headers /\ Current = 0 /\ at = 1 /\ header.argumentOrder = "rad-scryptlib"
        /\ Params \in Seq(Names) /\ Functions \in Seq(Seq(Names)) /\ Inline \subseteq Names
    <2>1. header \in Headers
      BY ProgramIs
    <2>2. Inline \subseteq Names
      BY DEF Inline, Names, NamesOf
    <2> QED
      BY <2>1, <2>2, AtTheFirstNode, ParamsAre DEF Fresh, ValuesTraceable
  <1>2. selected \in 0 .. Len(Functions) /\ (selected = 0 => Functions = <<>>)
    BY DEF GeneratorInv, TypeOK
  <1>3. PICK own \in Seq(Names) : own = IF selected = 0 THEN <<>> ELSE Functions[selected]
    <2>1. <<>> \in Seq(Names)
      OBVIOUS
    <2>2. selected # 0 => selected \in 1 .. Len(Functions)
      BY <1>2
    <2>3. selected # 0 => Functions[selected] \in Seq(Names)
      BY <1>1, <2>2, FunctionParameters
    <2> QED
      BY <2>1, <2>3
  <1>4. PICK selector \in Seq(Contents) :
          selector = (IF Len(Functions) > 1 THEN <<Selector>> ELSE <<>>)
    <2>1. PICK x \in Contents : x = Selector
      BY MachineTypes
    <2>2. <<x>> \in Seq(Contents) /\ <<>> \in Seq(Contents)
      OBVIOUS
    <2> QED
      BY <2>1, <2>2
  <1>5. PICK lower \in Seq(Names), upper \in Seq(Names) : 
          lower = Reverse(Params) /\ upper = Reverse(own) /\ Len(upper) = Len(own)
    BY <1>1, <1>3, ReverseType
  <1>6. PICK first \in Seq(Contents), last \in Seq(Contents) :
          /\ first = Values(lower) /\ Len(first) = Len(lower)
          /\ last = Values(upper) /\ Len(last) = Len(upper)
    BY ValuesType
  <1>7. PICK rest : rest = selector \o last
    OBVIOUS
  <1>8. Arguments = first \o rest
    <2>1. Arguments = (first \o selector) \o last
      BY <1>1, <1>3, <1>4, <1>5, <1>6 DEF Arguments
    <2>2. (first \o selector) \o last = first \o (selector \o last)
      BY ConcatAssociative
    <2> QED
      BY <1>7, <2>1, <2>2
  <1>9. RestOf(0) = rest
    <2>1. CASE selected = 0
      <3>1. Functions = <<>> /\ Len(Functions) = 0
        BY <1>2, <2>1
      <3>2. selector = <<>> /\ own = <<>> /\ Len(own) = 0
        BY <1>3, <1>4, <2>1, <3>1
      <3>3. last = <<>>
        BY <1>5, <1>6, <3>2, EmptySeq
      <3>4. rest = <<>>
        BY <1>7, <3>2, <3>3, ConcatEmptySeq
      <3> QED
        BY <2>1, <3>4 DEF RestOf
    <2>2. CASE selected # 0
      BY <1>3, <1>4, <1>5, <1>6, <1>7, <2>2 DEF RestOf
    <2> QED
      BY <2>1, <2>2
  <1>10. PICK l \in Nat, k \in Nat : /\ l = Len(lower) /\ l = Len(first) /\ k = Len(rest)
                                     /\ DOMAIN lower = 1 .. l /\ rest \in Seq(Contents)
    <2>1. rest \in Seq(Contents)
      BY <1>7, JoinedType
    <2> QED
      BY <1>6, <2>1, LenProperties
  <1>11. /\ Arguments \in Seq(Contents) /\ Len(Arguments) = l + k
         /\ \A i \in 1 .. l : Arguments[i] = first[i]
         /\ \A i \in 1 .. k : Arguments[l + i] = rest[i]
    <2>1. /\ first \o rest \in Seq(Contents) /\ Len(first \o rest) = l + k
          /\ \A i \in 1 .. l : (first \o rest)[i] = first[i]
          /\ \A i \in 1 .. k : (first \o rest)[l + i] = rest[i]
      BY <1>10, JoinedSlots
    <2> QED
      BY <1>8, <2>1
  <1>12. PICK m : m = machine /\ m = [main |-> Arguments, alt |-> <<>>, operands |-> <<>>]
    BY DEF Fresh
  <1>13. Sized(m, Contents, l + k, 0)
    <2>1. <<>> \in Seq(Contents) /\ Len(<<>>) = 0
      OBVIOUS
    <2> QED
      BY <1>11, <1>12, <2>1 DEF Sized, MachinesOf
  <1>14. ASSUME NEW i \in 1 .. l PROVE m.main[i] = Worth(env, lower[i])
    <2>1. lower[i] \in Names /\ lower[i] # "$$"
      BY <1>1, <1>10, ElementOfSeq, NamesAreNoMarks
    <2>2. env[lower[i]] = Argument(lower[i])
      BY <2>1 DEF Fresh
    <2>3. first[i] = Argument(lower[i])
      BY <1>6, <1>10 DEF Values
    <2> QED
      BY <1>11, <1>12, <2>1, <2>2, <2>3 DEF Worth
  <1>15. Mirrors(lower, m, rest, Wanted(1, 0), env)
    BY <1>10, <1>11, <1>12, <1>13, <1>14 DEF Mirrors
  <1>16. Settled = machine /\ stack = lower /\ Len(depths) = 0
    BY <1>5 DEF Fresh, Settled
  <1>17. SlotsHold(at, Current, stack, Settled, env)
    BY <1>1, <1>9, <1>12, <1>15, <1>16 DEF SlotsHold
  <1>18. CopyValues(at, Current, stackCopy, Settled, env)
    BY <1>1 DEF CopyValues
  <1>19. machine.operands = meant
    BY <1>12 DEF Fresh
  <1>20. \A name \in Inline : env[name] = Argument(name)
    BY <1>1 DEF Fresh
  <1> QED
    BY <1>16, <1>17, <1>18, <1>19, <1>20 DEF ValuesInv

-----------------------------------------------------------------------------
(* The theorems about values.                                              *)

\* While a contract is compiled that is regular, the slots have the values of their names,
\* and every operator has computed with the values it should have.
MeaningInv ==
    /\ NamesInv
    /\ phase = "generate" /\ Regular => Fresh \/ ValuesInv
    /\ phase = "done" /\ Regular => machine.operands = meant

LEMMA WhileComputing ==
  ASSUME ValuesTraceable(Headers), MeaningInv, phase = "generate", Regular
  PROVE  ValuesInv
  <1>1. ScopeInv /\ GeneratorInv /\ (Fresh \/ ValuesInv)
    BY DEF MeaningInv, NamesInv
  <1> QED
    BY <1>1, FreshValues

\* Whatever the generator does for a node, the next one finds the values where they should be.
LEMMA GenerateValues ==
  ASSUME ValuesTraceable(Headers), ScopeInv, GeneratorInv, SymbolsInv, ValuesInv, Regular,
         phase = "generate", Generate
  PROVE  (phase' = "generate" => ValuesInv') /\ machine'.operands = meant'
  <1>1. NoUnset /\ StateNamesOnce
    BY DEF Regular
  <1>2. ~ShouldNotHappen /\ ~GenerateUnset
    BY <1>1, NothingFails
  <1>3. ValuesInv' => machine'.operands = meant'
    BY DEF ValuesInv
  <1>4. CASE GenerateDefinition
    BY <1>3, <1>4, DefinitionValues
  <1>5. CASE GenerateTupleAssignment
    BY <1>3, <1>5, TupleAssignmentValues
  <1>6. CASE GenerateAssign
    BY <1>3, <1>6, AssignValues
  <1>7. CASE GenerateRequire \/ GenerateTimeOp
    BY <1>3, <1>7, CheckedValues
  <1>8. CASE GenerateIf
    BY <1>3, <1>8, IfValues
  <1>9. CASE GenerateElse \/ GenerateEndIf
    BY <1>3, <1>9, LeftValues
  <1>10. CASE GenerateStateSeparator
    BY <1>1, <1>3, <1>10, SeparatorValues
  <1>11. CASE GenerateFunction
    BY <1>3, <1>11, FunctionValues
  <1>12. CASE GenerateEnd
    <2>1. machine'.operands = meant'
      BY <1>12, EndOperands
    <2>2. phase' = "generate" => ValuesInv'
      BY <1>12, GenerateReads, EndValues
    <2> QED
      BY <2>1, <2>2
  <1> QED
    BY <1>2, <1>4, <1>5, <1>6, <1>7, <1>8, <1>9, <1>10, <1>11, <1>12 DEF Generate

LEMMA ValuesStay ==
  ASSUME GeneratorInv, ValuesInv, UNCHANGED vars
  PROVE  ValuesInv'
  <1>1. /\ header' = header /\ program' = program /\ at' = at /\ stack' = stack
        /\ stackCopy' = stackCopy /\ depths' = depths /\ machine' = machine /\ verify' = verify
        /\ taken' = taken /\ selected' = selected /\ env' = env /\ meant' = meant
    BY DEF vars, analysis, generator, path
  <1>2. at \in Nat /\ Current' = Current
    BY <1>1 DEF GeneratorInv, TypeOK, Current
  <1>3. (Live' <=> Live) /\ \A t : Outer(t)' <=> Outer(t)
    BY <1>1 DEF Live, Outer
  <1>4. Settled' = Settled
    BY <1>1, <1>3 DEF Settled
  <1>5. Live' /\ Current \in {0, selected} => SlotsHold(at, Current, stack', Settled', env')
    BY <1>1, <1>3, <1>4 DEF ValuesInv
  <1>6. \A t \in 1 .. Len(depths') : Outer(t)' =>
          SlotsHold(at, Current, From(stack', Len(stack') - depths'[t]), Settled', env')
    BY <1>1, <1>3, <1>4 DEF ValuesInv
  <1>7. /\ CopyValues(at, Current, stackCopy', Settled', env')
        /\ \A name \in Inline : env'[name] = Argument(name)
        /\ machine'.operands = meant'
    BY <1>1, <1>4 DEF ValuesInv
  <1> QED
    BY <1>1, <1>2, <1>5, <1>6, <1>7, ValuesNext

LEMMA MeaningInitInv == Init => MeaningInv
  <1> SUFFICES ASSUME Init PROVE MeaningInv
    OBVIOUS
  <1>1. NamesInv
    BY NamesInitInv
  <1>2. phase = "analyse"
    BY DEF Init, AnalysisInit
  <1> QED
    BY <1>1, <1>2 DEF MeaningInv

LEMMA MeaningNextInv ==
  ASSUME NoUnsetWithBranches, ValuesTraceable(Headers), MeaningInv, [Next]_vars
  PROVE  MeaningInv'
  <1>1. NamesInv /\ GeneratorInv /\ ScopeInv
    BY DEF MeaningInv, NamesInv
  <1>2. NamesInv'
    BY <1>1, NamesNextInv
  <1>3. CASE Analyse /\ UNCHANGED <<generator, path>>
    <2>1. Fresh'
      BY <1>1, <1>3, FreshStays
    <2>2. machine'.operands = meant'
      <3>1. machine' = [main |-> Arguments', alt |-> <<>>, operands |-> <<>>] /\ meant' = <<>>
        BY <2>1 DEF Fresh
      <3> QED
        BY <3>1
    <2> QED
      BY <1>2, <2>1, <2>2 DEF MeaningInv
  <1>4. CASE phase = "generate" /\ Generate
    <2>1. Regular' <=> Regular
      BY <1>4, GenerateReads, RegularStays
    <2>2. ASSUME Regular PROVE (phase' = "generate" => ValuesInv') /\ machine'.operands = meant'
      <3>1. SymbolsInv /\ ValuesInv
        BY <1>1, <1>4, <2>2, WhileGenerating, WhileComputing
      <3> QED
        BY <1>1, <1>4, <2>2, <3>1, GenerateValues
    <2> QED
      BY <1>2, <2>1, <2>2 DEF MeaningInv
  <1>5. CASE UNCHANGED vars
    <2>1. phase' = phase /\ program' = program /\ machine' = machine /\ meant' = meant
      BY <1>5 DEF vars, analysis, path
    <2>2. Regular' <=> Regular
      BY <2>1, RegularStays
    <2>3. ASSUME phase = "generate", Regular PROVE ValuesInv'
      BY <1>1, <1>5, <2>3, WhileComputing, ValuesStay
    <2> QED
      BY <1>2, <2>1, <2>2, <2>3 DEF MeaningInv
  <1> QED
    BY <1>3, <1>4, <1>5 DEF Next

\* On the path, what may still be mentioned is wanted, and has a slot with its value.
LEMMA NeededIsHeld ==
  ASSUME ScopeInv, GeneratorInv, SymbolsInv, ValuesInv, phase = "generate", Live,
         NEW name \in Needed, NEW index, index = StackIndex(stack, name)
  PROVE  index >= 0 /\ At(Settled.main, index) = env[name]
  <1>1. /\ at \in 1 .. Len(program) /\ at \in Nat /\ Current \in Nat /\ Len(program) \in Nat
        /\ header \in Headers /\ name \in Names /\ name \notin Inline
    BY AtIs, NodeIs DEF Needed
  <1>2. FunctionOf(at - 1) = Current
    BY FunctionOfIsCount DEF Current
  <1>3. PICK i \in at .. Len(program) :
          /\ name \in Range(Mentions(i)) /\ DeclarationOf(name, i) < at
          /\ Current = 0 \/ FunctionOf(i) = Current
    BY <1>2 DEF Needed
  <1>4. i \in 1 .. Len(program) /\ i \in Nat /\ at <= i
    BY <1>1
  <1>5. name \in Wanted(at, Current)
    <2>1. MentionedBy(program, i, name)
      BY <1>3, <1>4, MentionIs
    <2> QED
      BY <1>1, <1>3, <2>1 DEF Wanted
  <1>6. Current \in {0, selected}
    <2>1. CASE Node.kind # "function"
      BY <2>1, SidesAre
    <2>2. CASE Node.kind = "function" /\ Current # 0
      <3>1. FunctionOf(at) = Current + 1
        BY <2>2, FunctionStarts
      <3>2. FunctionOf(at) <= FunctionOf(i)
        BY <1>1, <1>4, FunctionOfGrows
      <3> QED
        BY <1>1, <1>3, <2>2, <3>1, <3>2
    <2> QED
      BY <2>1, <2>2
  <1>7. PICK l \in Nat : stack \in Seq(Slots) /\ l = Len(stack) /\ DOMAIN stack = 1 .. l
    BY PathTypes, LenProperties
  <1>8. PICK j \in 1 .. l : stack[j] = name
    BY <1>5, <1>7 DEF SymbolsInv, SymbolsHold, Range
  <1>9. /\ index \in Nat /\ index < j /\ stack[index + 1] = name
        /\ \A h \in 1 .. index : stack[h] # name
    BY <1>7, <1>8, StackIndexFirst
  <1>10. Mirrors(stack, Settled, RestOf(Current), Wanted(at, Current), env)
    BY <1>6 DEF ValuesInv, SlotsHold
  <1>11. Settled.main[index + 1] = env[name]
    <2>1. index + 1 \in 1 .. l /\ First(stack, index + 1)
      BY <1>9 DEF First
    <2>2. Settled.main[index + 1] = Worth(env, name)
      BY <1>5, <1>7, <1>9, <1>10, <2>1 DEF Mirrors
    <2>3. name # "$$"
      BY <1>1, NamesAreNoMarks
    <2> QED
      BY <2>2, <2>3 DEF Worth
  <1>12. index < Len(Settled.main)
    <2>1. PICK more \in Nat : Len(Settled.main) = l + more
      BY <1>7, <1>10 DEF Mirrors, Sized
    <2> QED
      BY <1>9, <2>1
  <1> QED
    BY <1>9, <1>11, <1>12 DEF At

\* A variable that is still mentioned is found where the generator looks for it, with the
\* value it was last given on the path.
THEOREM SlotsHoldVariablesAlways ==
  ASSUME NoUnsetWithBranches, ValuesTraceable(Headers)
  PROVE  Spec => []SlotsHoldVariables
  <1>1. Init => MeaningInv
    BY MeaningInitInv
  <1>2. MeaningInv /\ [Next]_vars => MeaningInv'
    BY MeaningNextInv
  <1>3. MeaningInv => SlotsHoldVariables
    <2> SUFFICES ASSUME MeaningInv, phase = "generate", Live, Regular, NEW name \in Needed
                 PROVE  /\ StackIndex(stack, name) >= 0
                        /\ At(Settled.main, StackIndex(stack, name)) = env[name]
      BY DEF SlotsHoldVariables, Following
    <2>1. NamesInv /\ ScopeInv /\ GeneratorInv
      BY DEF MeaningInv, NamesInv
    <2>2. SymbolsInv /\ ValuesInv
      BY <2>1, WhileGenerating, WhileComputing
    <2> QED
      BY <2>1, <2>2, NeededIsHeld
  <1> QED
    BY <1>1, <1>2, <1>3, PTL DEF Spec

\* Every operator on the path computes with the values the contract says, in their order.
THEOREM OperandsAreMeantAlways ==
  ASSUME NoUnsetWithBranches, ValuesTraceable(Headers)
  PROVE  Spec => []OperandsAreMeant
  <1>1. Init => MeaningInv
    BY MeaningInitInv
  <1>2. MeaningInv /\ [Next]_vars => MeaningInv'
    BY MeaningNextInv
  <1>3. MeaningInv => OperandsAreMeant
    <2> SUFFICES ASSUME MeaningInv, Regular PROVE machine.operands = meant
      BY DEF OperandsAreMeant
    <2>1. phase \in {"analyse", "generate", "done"}
      BY DEF MeaningInv, NamesInv, GeneratorInv, TypeOK, AnalysisTypeOK
    <2>2. CASE phase = "analyse"
      <3>1. Fresh
        BY <2>2 DEF MeaningInv, NamesInv
      <3>2. machine = [main |-> Arguments, alt |-> <<>>, operands |-> <<>>] /\ meant = <<>>
        BY <3>1 DEF Fresh
      <3> QED
        BY <3>2
    <2>3. CASE phase = "generate"
      BY <2>3, WhileComputing DEF ValuesInv
    <2>4. CASE phase = "done"
      BY <2>4 DEF MeaningInv
    <2> QED
      BY <2>1, <2>2, <2>3, <2>4
  <1> QED
    BY <1>1, <1>2, <1>3, PTL DEF Spec
=============================================================================
