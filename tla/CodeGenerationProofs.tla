------------------------- MODULE CodeGenerationProofs -------------------------
(***************************************************************************)
(* Theorems about the code generator, for any contracts: the symbolic      *)
(* stack it keeps is as deep as the machine's on every path to a node, and *)
(* has a slot for every name that is looked up in it.                      *)
(***************************************************************************)
EXTENDS CodeGeneration, SemanticAnalysisProofs

-----------------------------------------------------------------------------
(* Stacks.                                                                 *)

LEMMA AtType ==
  ASSUME NEW S, NEW slots \in Seq(S), NEW depth \in Nat, Missing \in S
  PROVE  At(slots, depth) \in S
  BY LenProperties DEF At

LEMMA WithoutType ==
  ASSUME NEW S, NEW slots \in Seq(S), NEW depth \in Nat
  PROVE  /\ Without(slots, depth) \in Seq(S)
         /\ Len(Without(slots, depth)) = IF depth < Len(slots) THEN Len(slots) - 1 ELSE Len(slots)
         /\ depth < Len(slots) => \A i \in 1 .. depth : Without(slots, depth)[i] = slots[i]
  <1>1. Len(slots) \in Nat
    BY LenProperties
  <1>2. ASSUME depth < Len(slots)
        PROVE  /\ RemoveAt(slots, depth + 1) \in Seq(S)
               /\ Len(RemoveAt(slots, depth + 1)) = Len(slots) - 1
               /\ \A i \in 1 .. depth : RemoveAt(slots, depth + 1)[i] = slots[i]
    <2>1. /\ \A i \in 1 .. depth : slots[i] \in S
          /\ \A i \in depth + 2 .. Len(slots) : slots[i] \in S
      BY <1>1, <1>2
    <2>2. /\ SubSeq(slots, 1, depth) \in Seq(S) /\ Len(SubSeq(slots, 1, depth)) = depth
          /\ \A i \in 1 .. depth : SubSeq(slots, 1, depth)[i] = slots[i]
      BY <2>1, SubSeqProperties
    <2>3. /\ SubSeq(slots, depth + 2, Len(slots)) \in Seq(S)
          /\ Len(SubSeq(slots, depth + 2, Len(slots))) = Len(slots) - depth - 1
      <3>1. depth + 2 \in Int /\ Len(slots) \in Int
        BY <1>1
      <3>2. /\ SubSeq(slots, depth + 2, Len(slots)) \in Seq(S)
            /\ Len(SubSeq(slots, depth + 2, Len(slots))) =
                 IF depth + 2 <= Len(slots) THEN Len(slots) - (depth + 2) + 1 ELSE 0
        BY <2>1, <3>1, SubSeqProperties
      <3> QED
        BY <1>1, <1>2, <3>2
    <2>4. /\ SubSeq(slots, 1, depth) \o SubSeq(slots, depth + 2, Len(slots)) \in Seq(S)
          /\ Len(SubSeq(slots, 1, depth) \o SubSeq(slots, depth + 2, Len(slots))) =
               depth + (Len(slots) - depth - 1)
          /\ \A i \in 1 .. depth :
               (SubSeq(slots, 1, depth) \o SubSeq(slots, depth + 2, Len(slots)))[i] = slots[i]
      <3>1. PICK a, b : a = SubSeq(slots, 1, depth) /\ b = SubSeq(slots, depth + 2, Len(slots))
        OBVIOUS
      <3>2. /\ a \in Seq(S) /\ b \in Seq(S) /\ Len(a) = depth /\ Len(b) = Len(slots) - depth - 1
            /\ \A i \in 1 .. depth : a[i] = slots[i]
        BY <2>2, <2>3, <3>1
      <3>3. /\ a \o b \in Seq(S) /\ Len(a \o b) = Len(a) + Len(b)
            /\ \A i \in 1 .. Len(a) + Len(b) : (a \o b)[i] = IF i <= Len(a) THEN a[i] ELSE b[i - Len(a)]
        BY <3>2, ConcatProperties
      <3>4. \A i \in 1 .. depth : (a \o b)[i] = slots[i]
        BY <1>1, <1>2, <3>2, <3>3
      <3> QED
        BY <3>1, <3>2, <3>3, <3>4
    <2>5. RemoveAt(slots, depth + 1) =
            SubSeq(slots, 1, depth) \o SubSeq(slots, depth + 2, Len(slots))
      <3>1. \A i : RemoveAt(slots, i) = SubSeq(slots, 1, i - 1) \o SubSeq(slots, i + 1, Len(slots))
        BY DEF RemoveAt
      <3>2. PICK i, low, high : i = depth + 1 /\ low = i - 1 /\ high = i + 1
        OBVIOUS
      <3>3. low = depth /\ high = depth + 2
        BY <3>2
      <3>4. RemoveAt(slots, i) = SubSeq(slots, 1, low) \o SubSeq(slots, high, Len(slots))
        BY <3>1, <3>2
      <3> QED
        BY <3>2, <3>3, <3>4
    <2>6. depth + (Len(slots) - depth - 1) = Len(slots) - 1
      BY <1>1
    <2> QED
      BY <2>4, <2>5, <2>6
  <1> QED
    BY <1>1, <1>2 DEF Without

LEMMA FromType ==
  ASSUME NEW S, NEW slots \in Seq(S), NEW depth \in Nat
  PROVE  /\ From(slots, depth) \in Seq(S)
         /\ depth <= Len(slots) => Len(From(slots, depth)) = Len(slots) - depth
  <1>1. Len(slots) \in Int /\ depth + 1 \in Int /\ \A i \in depth + 1 .. Len(slots) : slots[i] \in S
    BY LenProperties
  <1>2. /\ SubSeq(slots, depth + 1, Len(slots)) \in Seq(S)
        /\ Len(SubSeq(slots, depth + 1, Len(slots))) =
             IF depth + 1 <= Len(slots) THEN Len(slots) - (depth + 1) + 1 ELSE 0
    BY <1>1, SubSeqProperties
  <1> QED
    BY <1>1, <1>2 DEF From

LEMMA PushedType ==
  ASSUME NEW S, NEW slots \in Seq(S), NEW x \in S
  PROVE  /\ <<x>> \o slots \in Seq(S) /\ Len(<<x>> \o slots) = 1 + Len(slots)
         /\ (<<x>> \o slots)[1] = x
         /\ \A i \in 1 .. Len(slots) : (<<x>> \o slots)[i + 1] = slots[i]
  <1>1. <<x>> \in Seq(S) /\ Len(<<x>>) = 1 /\ Len(slots) \in Nat
    BY LenProperties
  <1> QED
    BY <1>1, ConcatProperties

LEMMA JoinedType ==
  ASSUME NEW S, NEW a \in Seq(S), NEW b \in Seq(S)
  PROVE  /\ a \o b \in Seq(S) /\ Len(a \o b) = Len(a) + Len(b)
         /\ Len(a) \in Nat /\ Len(b) \in Nat
  BY ConcatProperties, LenProperties

-----------------------------------------------------------------------------
(* The machine.                                                            *)

MachinesOf(S) == [main : Seq(S), alt : Seq(S), operands : Seq(S)]

\* A machine with so many values on its two stacks.
Sized(m, S, n, k) == m \in MachinesOf(S) /\ Len(m.main) = n /\ Len(m.alt) = k

LEMMA ExecPush ==
  ASSUME NEW S, NEW m, NEW n, NEW k, Sized(m, S, n, k), NEW values \in Seq(S)
  PROVE  Sized(Exec(m, <<"PUSH", values>>), S, Len(values) + n, k)
  <1>1. m.main \in Seq(S)
    BY DEF Sized, MachinesOf
  <1>2. values \o m.main \in Seq(S) /\ Len(values \o m.main) = Len(values) + Len(m.main)
    BY <1>1, ConcatProperties
  <1>3. Exec(m, <<"PUSH", values>>) = [m EXCEPT !.main = values \o m.main]
    BY DEF Exec
  <1> QED
    BY <1>2, <1>3 DEF Sized, MachinesOf

LEMMA ExecPick ==
  ASSUME NEW S, Missing \in S, NEW m, NEW n, NEW k, Sized(m, S, n, k), NEW depth \in Nat
  PROVE  Sized(Exec(m, <<"PICK", depth>>), S, 1 + n, k)
  <1>1. m.main \in Seq(S)
    BY DEF Sized, MachinesOf
  <1>2. /\ <<At(m.main, depth)>> \o m.main \in Seq(S)
        /\ Len(<<At(m.main, depth)>> \o m.main) = 1 + Len(m.main)
    BY <1>1, AtType, PushedType
  <1>3. Exec(m, <<"PICK", depth>>) = [m EXCEPT !.main = <<At(m.main, depth)>> \o m.main]
    BY DEF Exec
  <1> QED
    BY <1>2, <1>3 DEF Sized, MachinesOf

LEMMA ExecRoll ==
  ASSUME NEW S, Missing \in S, NEW m, NEW n, NEW k, Sized(m, S, n, k), NEW depth \in Nat, depth < n
  PROVE  Sized(Exec(m, <<"ROLL", depth>>), S, n, k)
  <1>1. m.main \in Seq(S) /\ Len(m.main) = n /\ n \in Nat
    BY LenProperties DEF Sized, MachinesOf
  <1>2. Without(m.main, depth) \in Seq(S) /\ Len(Without(m.main, depth)) = n - 1
    BY <1>1, WithoutType
  <1>3. /\ <<At(m.main, depth)>> \o Without(m.main, depth) \in Seq(S)
        /\ Len(<<At(m.main, depth)>> \o Without(m.main, depth)) = 1 + (n - 1)
    BY <1>1, <1>2, AtType, PushedType
  <1>5. 1 + (n - 1) = n
    BY <1>1
  <1>4. Exec(m, <<"ROLL", depth>>) =
          [m EXCEPT !.main = <<At(m.main, depth)>> \o Without(m.main, depth)]
    BY DEF Exec
  <1> QED
    BY <1>3, <1>4, <1>5 DEF Sized, MachinesOf

LEMMA ExecDrop ==
  ASSUME NEW S, NEW m, NEW n, NEW k, Sized(m, S, n, k), n > 0
  PROVE  Sized(Exec(m, <<"DROP">>), S, n - 1, k)
  <1>1. m.main \in Seq(S) /\ Len(m.main) = n /\ n \in Nat
    BY LenProperties DEF Sized, MachinesOf
  <1>2. Without(m.main, 0) \in Seq(S) /\ Len(Without(m.main, 0)) = n - 1
    BY <1>1, WithoutType
  <1>3. Exec(m, <<"DROP">>) = [m EXCEPT !.main = Without(m.main, 0)]
    BY DEF Exec
  <1> QED
    BY <1>2, <1>3 DEF Sized, MachinesOf

LEMMA ExecNip ==
  ASSUME NEW S, NEW m \in MachinesOf(S)
  PROVE  Exec(m, <<"NIP">>) \in MachinesOf(S)
  <1>1. Without(m.main, 1) \in Seq(S)
    BY WithoutType DEF MachinesOf
  <1>2. Exec(m, <<"NIP">>) = [m EXCEPT !.main = Without(m.main, 1)]
    BY DEF Exec
  <1> QED
    BY <1>1, <1>2 DEF MachinesOf

LEMMA ExecSwap ==
  ASSUME NEW S, Missing \in S, NEW m, NEW n, NEW k, Sized(m, S, n, k), n >= 2
  PROVE  Sized(Exec(m, <<"SWAP">>), S, n, k)
  <1>1. m.main \in Seq(S) /\ Len(m.main) = n /\ n \in Nat
    BY LenProperties DEF Sized, MachinesOf
  <1>2. From(m.main, 2) \in Seq(S) /\ Len(From(m.main, 2)) = n - 2
    BY <1>1, FromType
  <1>3. <<At(m.main, 1), At(m.main, 0)>> \in Seq(S)
    BY <1>1, AtType
  <1>4. /\ <<At(m.main, 1), At(m.main, 0)>> \o From(m.main, 2) \in Seq(S)
        /\ Len(<<At(m.main, 1), At(m.main, 0)>> \o From(m.main, 2)) = 2 + (n - 2)
    BY <1>2, <1>3, ConcatProperties
  <1>5. Exec(m, <<"SWAP">>) =
          [m EXCEPT !.main = <<At(m.main, 1), At(m.main, 0)>> \o From(m.main, 2)]
    BY DEF Exec
  <1>6. 2 + (n - 2) = n
    BY <1>1
  <1> QED
    BY <1>4, <1>5, <1>6 DEF Sized, MachinesOf

LEMMA ExecToAlt ==
  ASSUME NEW S, Missing \in S, NEW m, NEW n, NEW k, Sized(m, S, n, k), n > 0
  PROVE  Sized(Exec(m, <<"TOALTSTACK">>), S, n - 1, 1 + k)
  <1>1. m.main \in Seq(S) /\ m.alt \in Seq(S) /\ Len(m.main) = n /\ n \in Nat
    BY LenProperties DEF Sized, MachinesOf
  <1>2. Without(m.main, 0) \in Seq(S) /\ Len(Without(m.main, 0)) = n - 1
    BY <1>1, WithoutType
  <1>3. /\ <<At(m.main, 0)>> \o m.alt \in Seq(S)
        /\ Len(<<At(m.main, 0)>> \o m.alt) = 1 + Len(m.alt)
    BY <1>1, AtType, PushedType
  <1>4. Exec(m, <<"TOALTSTACK">>) =
          [m EXCEPT !.main = Without(m.main, 0), !.alt = <<At(m.main, 0)>> \o m.alt]
    BY DEF Exec, Sized, MachinesOf
  <1> QED
    BY <1>2, <1>3, <1>4 DEF Sized, MachinesOf

LEMMA ExecFromAlt ==
  ASSUME NEW S, Missing \in S, NEW m, NEW n, NEW k, Sized(m, S, n, k), k > 0
  PROVE  Sized(Exec(m, <<"FROMALTSTACK">>), S, 1 + n, k - 1)
  <1>1. m.main \in Seq(S) /\ m.alt \in Seq(S) /\ Len(m.alt) = k /\ k \in Nat
    BY LenProperties DEF Sized, MachinesOf
  <1>2. Without(m.alt, 0) \in Seq(S) /\ Len(Without(m.alt, 0)) = k - 1
    BY <1>1, WithoutType
  <1>3. /\ <<At(m.alt, 0)>> \o m.main \in Seq(S)
        /\ Len(<<At(m.alt, 0)>> \o m.main) = 1 + Len(m.main)
    BY <1>1, AtType, PushedType
  <1>4. Exec(m, <<"FROMALTSTACK">>) =
          [m EXCEPT !.main = <<At(m.alt, 0)>> \o m.main, !.alt = Without(m.alt, 0)]
    BY DEF Exec, Sized, MachinesOf
  <1> QED
    BY <1>2, <1>3, <1>4 DEF Sized, MachinesOf

LEMMA ExecCompute ==
  ASSUME NEW S, Missing \in S, NEW m, NEW n, NEW k, Sized(m, S, n, k),
         NEW arity \in Nat, NEW results \in Seq(S), arity <= n
  PROVE  Sized(Exec(m, <<"COMPUTE", arity, results>>), S, Len(results) + (n - arity), k)
  <1>1. m.main \in Seq(S) /\ Len(m.main) = n /\ n \in Nat
    BY LenProperties DEF Sized, MachinesOf
  <1>2. From(m.main, arity) \in Seq(S) /\ Len(From(m.main, arity)) = n - arity
    BY <1>1, FromType
  <1>3. /\ results \o From(m.main, arity) \in Seq(S)
        /\ Len(results \o From(m.main, arity)) = Len(results) + (n - arity)
    BY <1>2, ConcatProperties
  <1>4. [i \in 1 .. arity |-> At(m.main, arity - i)] \in Seq(S)
    <2>1. \A i \in 1 .. arity : At(m.main, arity - i) \in S
      <3> TAKE i \in 1 .. arity
      <3>1. arity - i \in Nat
        OBVIOUS
      <3> QED
        BY <1>1, <3>1, AtType
    <2> QED
      BY <2>1
  <1>5. Exec(m, <<"COMPUTE", arity, results>>) =
          [m EXCEPT !.main     = results \o From(m.main, arity),
                    !.operands = [i \in 1 .. arity |-> At(m.main, arity - i)]]
    BY DEF Exec
  <1> QED
    BY <1>3, <1>4, <1>5 DEF Sized, MachinesOf

-----------------------------------------------------------------------------
(* Several operations.                                                     *)

\* The function Run recurses on: the machines after each operation.
AreMachines(after, m, ops) ==
  after = [n \in 0 .. Len(ops) |-> IF n = 0 THEN m ELSE Exec(after[n - 1], ops[n])]

LEMMA MachinesExist ==
  ASSUME NEW T, NEW ops \in Seq(T), NEW m
  PROVE  \E after : AreMachines(after, m, ops)
  <1> DEFINE UpTo(after, k) ==
               after = [n \in 0 .. k |-> IF n = 0 THEN m ELSE Exec(after[n - 1], ops[n])]
             D == {k \in Nat : \E after : UpTo(after, k)}
  <1>1. 0 \in D
    <2>1. UpTo([n \in 0 .. 0 |-> m], 0)
      OBVIOUS
    <2> QED
      BY <2>1
  <1>2. ASSUME NEW k \in Nat, k \in D PROVE k + 1 \in D
    <2>1. PICK shorter : UpTo(shorter, k)
      BY <1>2
    <2> DEFINE longer == [n \in 0 .. k + 1 |->
                            IF n = k + 1 THEN Exec(shorter[k], ops[k + 1]) ELSE shorter[n]]
    <2>2. UpTo(longer, k + 1)
      BY <2>1
    <2>3. \E after : UpTo(after, k + 1)
      <3> HIDE DEF UpTo, longer
      <3> QED
        BY <2>2
    <2>4. k + 1 \in Nat
      OBVIOUS
    <2> HIDE DEF UpTo
    <2> QED
      BY <2>3, <2>4
  <1>3. \A k \in Nat : k \in D
    <2> HIDE DEF D
    <2> QED
      BY <1>1, <1>2, InductionOnSet
  <1>4. Len(ops) \in D
    BY <1>3, LenProperties
  <1> QED
    BY <1>4 DEF AreMachines

LEMMA RunIsLast ==
  ASSUME NEW T, NEW ops \in Seq(T), NEW m
  PROVE  \E after : AreMachines(after, m, ops) /\ Run(m, ops) = after[Len(ops)]
  <1> DEFINE whole == CHOOSE after : AreMachines(after, m, ops)
  <1>1. AreMachines(whole, m, ops)
    BY MachinesExist
  <1>2. Run(m, ops) = whole[Len(ops)]
    BY DEF Run, AreMachines
  <1> HIDE DEF whole
  <1> QED
    BY <1>1, <1>2

LEMMA RunOfNone ==
  ASSUME NEW m
  PROVE  Run(m, <<>>) = m
  <1>1. <<>> \in Seq({}) /\ Len(<<>>) = 0
    OBVIOUS
  <1>2. PICK after : AreMachines(after, m, <<>>) /\ Run(m, <<>>) = after[Len(<<>>)]
    BY <1>1, RunIsLast
  <1> QED
    BY <1>1, <1>2 DEF AreMachines

\* One run behind another.
LEMMA RunOfBoth ==
  ASSUME NEW T, NEW a \in Seq(T), NEW b \in Seq(T), NEW m
  PROVE  Run(m, a \o b) = Run(Run(m, a), b)
  <1> DEFINE both == a \o b
  <1>1. /\ both \in Seq(T) /\ Len(a) \in Nat /\ Len(b) \in Nat /\ Len(both) = Len(a) + Len(b)
        /\ \A i \in 1 .. Len(a) : both[i] = a[i]
        /\ \A i \in 1 .. Len(b) : both[Len(a) + i] = b[i]
    BY ConcatProperties, LenProperties
  <1> HIDE DEF both
  <1>2. PICK f : AreMachines(f, m, a) /\ Run(m, a) = f[Len(a)]
    BY RunIsLast
  <1>3. PICK g : AreMachines(g, Run(m, a), b) /\ Run(Run(m, a), b) = g[Len(b)]
    BY RunIsLast
  <1>4. PICK h : AreMachines(h, m, both) /\ Run(m, both) = h[Len(both)]
    BY <1>1, RunIsLast
  <1> DEFINE D == {n \in Nat : n <= Len(a) => h[n] = f[n]}
             E == {n \in Nat : n <= Len(b) => h[Len(a) + n] = g[n]}
  <1>5. 0 \in D
    BY <1>1, <1>2, <1>4 DEF AreMachines
  <1>6. ASSUME NEW n \in Nat, n \in D PROVE n + 1 \in D
    <2> SUFFICES ASSUME n + 1 <= Len(a) PROVE h[n + 1] = f[n + 1]
      OBVIOUS
    <2>1. h[n] = f[n] /\ both[n + 1] = a[n + 1]
      BY <1>1, <1>6
    <2>2. f[n + 1] = Exec(f[n], a[n + 1])
      BY <1>1, <1>2 DEF AreMachines
    <2>3. h[n + 1] = Exec(h[n], both[n + 1])
      BY <1>1, <1>4 DEF AreMachines
    <2> QED
      BY <2>1, <2>2, <2>3
  <1>7. \A n \in Nat : n \in D
    <2> HIDE DEF D
    <2> QED
      BY <1>5, <1>6, InductionOnSet
  <1>8. 0 \in E
    <2>1. h[Len(a)] = f[Len(a)]
      BY <1>1, <1>7
    <2>2. g[0] = Run(m, a)
      BY <1>1, <1>3 DEF AreMachines
    <2> QED
      BY <1>1, <1>2, <2>1, <2>2
  <1>9. ASSUME NEW n \in Nat, n \in E PROVE n + 1 \in E
    <2> SUFFICES ASSUME n + 1 <= Len(b) PROVE h[Len(a) + (n + 1)] = g[n + 1]
      OBVIOUS
    <2>1. h[Len(a) + n] = g[n] /\ both[Len(a) + (n + 1)] = b[n + 1]
      BY <1>1, <1>9
    <2>2. g[n + 1] = Exec(g[n], b[n + 1])
      BY <1>1, <1>3 DEF AreMachines
    <2>3. PICK i \in Nat : i = Len(a) + (n + 1)
      BY <1>1
    <2>4. h[i] = Exec(h[i - 1], both[i])
      BY <1>1, <1>4, <2>3 DEF AreMachines
    <2>5. i - 1 = Len(a) + n
      BY <1>1, <2>3
    <2> QED
      BY <2>1, <2>2, <2>3, <2>4, <2>5
  <1>10. \A n \in Nat : n \in E
    <2> HIDE DEF E
    <2> QED
      BY <1>8, <1>9, InductionOnSet
  <1>11. h[Len(a) + Len(b)] = g[Len(b)]
    BY <1>1, <1>10
  <1> QED
    BY <1>1, <1>3, <1>4, <1>11 DEF both

LEMMA RunOfOne ==
  ASSUME NEW m, NEW op
  PROVE  Run(m, <<op>>) = Exec(m, op)
  <1>1. <<op>> \in Seq({op}) /\ Len(<<op>>) = 1 /\ <<op>>[1] = op
    OBVIOUS
  <1>2. PICK after : AreMachines(after, m, <<op>>) /\ Run(m, <<op>>) = after[Len(<<op>>)]
    BY <1>1, RunIsLast
  <1>3. after[1] = Exec(after[0], op) /\ after[0] = m
    BY <1>1, <1>2 DEF AreMachines
  <1> QED
    BY <1>1, <1>2, <1>3

LEMMA RunOfMore ==
  ASSUME NEW T, NEW ops \in Seq(T), NEW op \in T, NEW m
  PROVE  Run(m, Append(ops, op)) = Exec(Run(m, ops), op)
  <1>1. <<op>> \in Seq(T) /\ Append(ops, op) = ops \o <<op>>
    BY AppendIsConcat
  <1>2. Run(m, ops \o <<op>>) = Run(Run(m, ops), <<op>>)
    BY <1>1, RunOfBoth
  <1>3. Run(Run(m, ops), <<op>>) = Exec(Run(m, ops), op)
    BY RunOfOne
  <1> QED
    BY <1>1, <1>2, <1>3

LEMMA RunOfTwo ==
  ASSUME NEW m, NEW a, NEW b
  PROVE  Run(m, <<a, b>>) = Exec(Exec(m, a), b)
  <1>1. <<a>> \in Seq({a, b}) /\ b \in {a, b} /\ <<a, b>> = Append(<<a>>, b)
    OBVIOUS
  <1>2. Run(m, Append(<<a>>, b)) = Exec(Run(m, <<a>>), b)
    BY <1>1, RunOfMore
  <1>3. Run(m, <<a>>) = Exec(m, a)
    BY RunOfOne
  <1> QED
    BY <1>1, <1>2, <1>3

LEMMA TimesNone == \A op : Times(0, op) = <<>>
  BY DEF Times

LEMMA InTurnNone == \A a, b : InTurn(0, a, b) = <<>>
  BY DEF InTurn

LEMMA TimesMore ==
  ASSUME NEW n \in Nat, NEW op
  PROVE  /\ Times(n, op) \in Seq({op}) /\ Len(Times(n, op)) = n
         /\ Times(n + 1, op) = Append(Times(n, op), op)
  <1>2. Times(n, op) \in Seq({op}) /\ Len(Times(n, op)) = n
    BY DEF Times
  <1>3. Times(n + 1, op) \in Seq({op}) /\ Len(Times(n + 1, op)) = n + 1
    BY DEF Times
  <1>4. /\ Append(Times(n, op), op) \in Seq({op}) /\ Len(Append(Times(n, op), op)) = n + 1
        /\ \A i \in 1 .. n : Append(Times(n, op), op)[i] = Times(n, op)[i]
        /\ Append(Times(n, op), op)[n + 1] = op
    BY <1>2, AppendProperties
  <1>5. \A i \in 1 .. n + 1 : Times(n + 1, op)[i] = Append(Times(n, op), op)[i]
    BY <1>4 DEF Times
  <1> QED
    BY <1>2, <1>3, <1>4, <1>5, SeqEqual

LEMMA InTurnMore ==
  ASSUME NEW n \in Nat, NEW a, NEW b
  PROVE  /\ InTurn(n, a, b) \in Seq({a, b})
         /\ InTurn(n + 1, a, b) = InTurn(n, a, b) \o <<a, b>>
  <1>2. PICK k \in Nat : k = 2 * n /\ k + 2 = 2 * (n + 1)
    OBVIOUS
  <1>3. InTurn(n, a, b) = [i \in 1 .. k |-> IF i % 2 = 1 THEN a ELSE b]
    BY <1>2 DEF InTurn
  <1>4. InTurn(n + 1, a, b) = [i \in 1 .. k + 2 |-> IF i % 2 = 1 THEN a ELSE b]
    BY <1>2 DEF InTurn
  <1>5. InTurn(n, a, b) \in Seq({a, b}) /\ Len(InTurn(n, a, b)) = k
    BY <1>3
  <1>6. InTurn(n + 1, a, b) \in Seq({a, b}) /\ Len(InTurn(n + 1, a, b)) = k + 2
    BY <1>4
  <1>7. <<a, b>> \in Seq({a, b}) /\ Len(<<a, b>>) = 2 /\ <<a, b>>[1] = a /\ <<a, b>>[2] = b
    OBVIOUS
  <1>8. /\ InTurn(n, a, b) \o <<a, b>> \in Seq({a, b})
        /\ Len(InTurn(n, a, b) \o <<a, b>>) = k + 2
        /\ \A i \in 1 .. k + 2 : (InTurn(n, a, b) \o <<a, b>>)[i] =
             IF i <= k THEN InTurn(n, a, b)[i] ELSE <<a, b>>[i - k]
    BY <1>5, <1>7, ConcatProperties
  <1>9. (k + 1) % 2 = 1 /\ (k + 2) % 2 = 0
    BY <1>2
  <1>10. ASSUME NEW i \in 1 .. k + 2
         PROVE  InTurn(n + 1, a, b)[i] = (InTurn(n, a, b) \o <<a, b>>)[i]
    <2>1. InTurn(n + 1, a, b)[i] = IF i % 2 = 1 THEN a ELSE b
      BY <1>4
    <2>2. CASE i <= k
      <3>1. InTurn(n, a, b)[i] = IF i % 2 = 1 THEN a ELSE b
        BY <1>3, <2>2
      <3> QED
        BY <1>8, <2>1, <2>2, <3>1
    <2>3. CASE i = k + 1
      <3>0. i - k = 1 /\ ~(i <= k)
        BY <2>3
      <3>1. (InTurn(n, a, b) \o <<a, b>>)[i] = <<a, b>>[1]
        BY <1>8, <3>0
      <3> QED
        BY <1>7, <1>9, <2>1, <2>3, <3>1
    <2>4. CASE i = k + 2
      <3>0. i - k = 2 /\ ~(i <= k)
        BY <2>4
      <3>1. (InTurn(n, a, b) \o <<a, b>>)[i] = <<a, b>>[2]
        BY <1>8, <3>0
      <3> QED
        BY <1>7, <1>9, <2>1, <2>4, <3>1
    <2>5. i <= k \/ i = k + 1 \/ i = k + 2
      OBVIOUS
    <2> QED
      BY <2>2, <2>3, <2>4, <2>5
  <1>11. InTurn(n + 1, a, b) = InTurn(n, a, b) \o <<a, b>>
    BY <1>6, <1>8, <1>10, SeqEqual
  <1> QED
    BY <1>5, <1>11

LEMMA RunDrops ==
  ASSUME NEW S, NEW m, NEW n \in Nat, NEW k, Sized(m, S, n, k), NEW j \in Nat, j <= n
  PROVE  Sized(Run(m, Times(j, <<"DROP">>)), S, n - j, k)
  <1> DEFINE D == {i \in Nat : i <= n => Sized(Run(m, Times(i, <<"DROP">>)), S, n - i, k)}
  <1>1. 0 \in D
    <2>1. Run(m, Times(0, <<"DROP">>)) = m /\ n - 0 = n
      BY RunOfNone, TimesNone
    <2> QED
      BY <2>1
  <1>2. ASSUME NEW i \in Nat, i \in D PROVE i + 1 \in D
    <2> SUFFICES ASSUME i + 1 <= n
                 PROVE  Sized(Run(m, Times(i + 1, <<"DROP">>)), S, n - (i + 1), k)
      OBVIOUS
    <2>1. Sized(Run(m, Times(i, <<"DROP">>)), S, n - i, k) /\ n - i > 0
      BY <1>2
    <2>2. Run(m, Times(i + 1, <<"DROP">>)) = Exec(Run(m, Times(i, <<"DROP">>)), <<"DROP">>)
      <3>1. /\ Times(i + 1, <<"DROP">>) = Append(Times(i, <<"DROP">>), <<"DROP">>)
            /\ Times(i, <<"DROP">>) \in Seq({<<"DROP">>}) /\ <<"DROP">> \in {<<"DROP">>}
        BY TimesMore
      <3> QED
        BY <3>1, RunOfMore
    <2>3. n - i - 1 = n - (i + 1)
      OBVIOUS
    <2> QED
      BY <2>1, <2>2, <2>3, ExecDrop
  <1>3. \A i \in Nat : i \in D
    <2> HIDE DEF D
    <2> QED
      BY <1>1, <1>2, InductionOnSet
  <1> QED
    BY <1>3

LEMMA RunFromAlts ==
  ASSUME NEW S, Missing \in S, NEW m, NEW n \in Nat, NEW k \in Nat, Sized(m, S, n, k)
  PROVE  Sized(Run(m, Times(k, <<"FROMALTSTACK">>)), S, n + k, 0)
  <1> DEFINE D == {i \in Nat : i <= k =>
                     Sized(Run(m, Times(i, <<"FROMALTSTACK">>)), S, n + i, k - i)}
  <1>1. 0 \in D
    <2>1. Run(m, Times(0, <<"FROMALTSTACK">>)) = m /\ n + 0 = n /\ k - 0 = k
      BY RunOfNone, TimesNone
    <2> QED
      BY <2>1
  <1>2. ASSUME NEW i \in Nat, i \in D PROVE i + 1 \in D
    <2> SUFFICES ASSUME i + 1 <= k
                 PROVE  Sized(Run(m, Times(i + 1, <<"FROMALTSTACK">>)), S, n + (i + 1), k - (i + 1))
      OBVIOUS
    <2>1. Sized(Run(m, Times(i, <<"FROMALTSTACK">>)), S, n + i, k - i) /\ k - i > 0
      BY <1>2
    <2>2. Run(m, Times(i + 1, <<"FROMALTSTACK">>)) =
            Exec(Run(m, Times(i, <<"FROMALTSTACK">>)), <<"FROMALTSTACK">>)
      <3>1. /\ Times(i + 1, <<"FROMALTSTACK">>) =
                 Append(Times(i, <<"FROMALTSTACK">>), <<"FROMALTSTACK">>)
            /\ Times(i, <<"FROMALTSTACK">>) \in Seq({<<"FROMALTSTACK">>})
            /\ <<"FROMALTSTACK">> \in {<<"FROMALTSTACK">>}
        BY TimesMore
      <3> QED
        BY <3>1, RunOfMore
    <2>3. 1 + (n + i) = n + (i + 1) /\ k - i - 1 = k - (i + 1)
      OBVIOUS
    <2>4. Sized(Run(m, Times(i + 1, <<"FROMALTSTACK">>)), S, 1 + (n + i), k - i - 1)
      BY <2>1, <2>2, ExecFromAlt
    <2> QED
      BY <2>3, <2>4
  <1>3. \A i \in Nat : i \in D
    <2> HIDE DEF D
    <2> QED
      BY <1>1, <1>2, InductionOnSet
  <1>4. Sized(Run(m, Times(k, <<"FROMALTSTACK">>)), S, n + k, k - k)
    BY <1>3
  <1> QED
    BY <1>4

LEMMA RunNips ==
  ASSUME NEW S, NEW m \in MachinesOf(S), NEW j \in Nat
  PROVE  Run(m, Times(j, <<"NIP">>)) \in MachinesOf(S)
  <1> DEFINE D == {i \in Nat : Run(m, Times(i, <<"NIP">>)) \in MachinesOf(S)}
  <1>1. 0 \in D
    BY RunOfNone, TimesNone
  <1>2. ASSUME NEW i \in Nat, i \in D PROVE i + 1 \in D
    <2>1. Run(m, Times(i + 1, <<"NIP">>)) = Exec(Run(m, Times(i, <<"NIP">>)), <<"NIP">>)
      <3>1. /\ Times(i + 1, <<"NIP">>) = Append(Times(i, <<"NIP">>), <<"NIP">>)
            /\ Times(i, <<"NIP">>) \in Seq({<<"NIP">>}) /\ <<"NIP">> \in {<<"NIP">>}
        BY TimesMore
      <3> QED
        BY <3>1, RunOfMore
    <2> QED
      BY <1>2, <2>1, ExecNip
  <1>3. \A i \in Nat : i \in D
    <2> HIDE DEF D
    <2> QED
      BY <1>1, <1>2, InductionOnSet
  <1> QED
    BY <1>3

\* The slots above one that is replaced go to the alternative stack, but for the value.
LEMMA RunAside ==
  ASSUME NEW S, Missing \in S, NEW m, NEW n \in Nat, Sized(m, S, n, 0), NEW j \in Nat, j < n
  PROVE  Sized(Run(m, InTurn(j, <<"SWAP">>, <<"TOALTSTACK">>)), S, n - j, j)
  <1> DEFINE Aside(i) == InTurn(i, <<"SWAP">>, <<"TOALTSTACK">>)
             D == {i \in Nat : i < n => Sized(Run(m, Aside(i)), S, n - i, i)}
  <1>1. 0 \in D
    <2>1. Run(m, Aside(0)) = m /\ n - 0 = n
      BY RunOfNone, InTurnNone
    <2> QED
      BY <2>1
  <1>2. ASSUME NEW i \in Nat, i \in D PROVE i + 1 \in D
    <2> SUFFICES ASSUME i + 1 < n
                 PROVE  Sized(Run(m, Aside(i + 1)), S, n - (i + 1), i + 1)
      OBVIOUS
    <2>1. Sized(Run(m, Aside(i)), S, n - i, i) /\ n - i >= 2
      BY <1>2
    <2> DEFINE two == <<<<"SWAP">>, <<"TOALTSTACK">>>>
               T == {<<"SWAP">>, <<"TOALTSTACK">>}
    <2>2. Aside(i + 1) = Aside(i) \o two
      BY InTurnMore
    <2>3. Aside(i) \in Seq(T)
      BY InTurnMore
    <2>4. two \in Seq(T)
      OBVIOUS
    <2>5. Run(m, Aside(i + 1)) = Run(Run(m, Aside(i)), two)
      <3> HIDE DEF Aside, two, T
      <3>1. PICK a \in Seq(T), b \in Seq(T) : a = Aside(i) /\ b = two
        BY <2>3, <2>4
      <3>2. Run(m, a \o b) = Run(Run(m, a), b)
        BY RunOfBoth
      <3> QED
        BY <2>2, <3>1, <3>2
    <2>6. Run(Run(m, Aside(i)), two) = Exec(Exec(Run(m, Aside(i)), <<"SWAP">>), <<"TOALTSTACK">>)
      BY RunOfTwo
    <2> HIDE DEF Aside, two
    <2>7. Sized(Exec(Run(m, Aside(i)), <<"SWAP">>), S, n - i, i)
      BY <2>1, ExecSwap
    <2>8. Sized(Exec(Exec(Run(m, Aside(i)), <<"SWAP">>), <<"TOALTSTACK">>), S, n - i - 1, 1 + i)
      BY <2>1, <2>7, ExecToAlt
    <2>9. n - i - 1 = n - (i + 1) /\ 1 + i = i + 1
      OBVIOUS
    <2> QED
      BY <2>5, <2>6, <2>8, <2>9
  <1>3. \A i \in Nat : i \in D
    <2> HIDE DEF D
    <2> QED
      BY <1>1, <1>2, InductionOnSet
  <1> QED
    BY <1>3

\* emitReplace, step by step: the slot is removed, what lies above its place is set aside,
\* the value goes below the last of it, and the rest is put back.
LEMMA ReplaceRuns ==
  ASSUME NEW m, NEW index \in Nat \ {0}
  PROVE  /\ index < 2 =>
              Run(m, EmitReplace(index)) = Exec(Exec(m, <<"ROLL", index>>), <<"DROP">>)
         /\ index >= 2 =>
              Run(m, EmitReplace(index)) =
                Run(Exec(Run(Exec(Exec(m, <<"ROLL", index>>), <<"DROP">>),
                             InTurn(index - 2, <<"SWAP">>, <<"TOALTSTACK">>)), <<"SWAP">>),
                    Times(index - 2, <<"FROMALTSTACK">>))
  <1> DEFINE T == {<<"ROLL", index>>, <<"DROP">>, <<"SWAP">>, <<"TOALTSTACK">>, <<"FROMALTSTACK">>}
             remove == <<<<"ROLL", index>>, <<"DROP">>>>
             aside  == InTurn(index - 2, <<"SWAP">>, <<"TOALTSTACK">>)
             swap   == <<<<"SWAP">>>>
             back   == Times(index - 2, <<"FROMALTSTACK">>)
  <1>1. remove \in Seq(T) /\ swap \in Seq(T)
    OBVIOUS
  <1>2. Run(m, remove) = Exec(Exec(m, <<"ROLL", index>>), <<"DROP">>)
    BY RunOfTwo
  <1>3. ASSUME index < 2
        PROVE  Run(m, EmitReplace(index)) = Exec(Exec(m, <<"ROLL", index>>), <<"DROP">>)
    <2>1. EmitReplace(index) = remove \o <<>>
      BY <1>1, <1>3 DEF EmitReplace
    <2>2. remove \o <<>> = remove
      <3> HIDE DEF remove, T
      <3> QED
        BY <1>1, ConcatEmptySeq
    <2> QED
      BY <1>2, <2>1, <2>2
  <1>4. ASSUME index >= 2
        PROVE  Run(m, EmitReplace(index)) =
                 Run(Exec(Run(Exec(Exec(m, <<"ROLL", index>>), <<"DROP">>), aside), <<"SWAP">>), back)
    <2>1. EmitReplace(index) = remove \o ((aside \o swap) \o back)
      <3>1. EmitReplace(index) = remove \o (aside \o swap \o back)
        BY <1>1, <1>4 DEF EmitReplace
      <3> QED
        BY <3>1
    <2>2. aside \in Seq(T) /\ back \in Seq(T)
      <3>1. index - 2 \in Nat
        BY <1>4
      <3>2. aside \in Seq({<<"SWAP">>, <<"TOALTSTACK">>}) /\ back \in Seq({<<"FROMALTSTACK">>})
        BY <3>1, InTurnMore, TimesMore
      <3>3. {<<"SWAP">>, <<"TOALTSTACK">>} \subseteq T /\ {<<"FROMALTSTACK">>} \subseteq T
        OBVIOUS
      <3> HIDE DEF T, aside, back
      <3> QED
        BY <3>2, <3>3, SeqMonotonic
    <2>3. Run(m, EmitReplace(index)) = Run(Run(Run(Run(m, remove), aside), swap), back)
      <3> HIDE DEF remove, aside, swap, back, T
      <3>1. aside \o swap \in Seq(T)
        BY <1>1, <2>2, ConcatProperties
      <3>2. (aside \o swap) \o back \in Seq(T)
        BY <2>2, <3>1, ConcatProperties
      <3>3. Run(m, EmitReplace(index)) = Run(Run(m, remove), (aside \o swap) \o back)
        <4>1. PICK rest \in Seq(T) : rest = (aside \o swap) \o back
          BY <3>2
        <4>2. Run(m, remove \o rest) = Run(Run(m, remove), rest)
          BY <1>1, RunOfBoth
        <4> QED
          BY <2>1, <4>1, <4>2
      <3>4. Run(Run(m, remove), (aside \o swap) \o back) =
              Run(Run(Run(m, remove), aside \o swap), back)
        BY <2>2, <3>1, RunOfBoth
      <3>5. Run(Run(m, remove), aside \o swap) = Run(Run(Run(m, remove), aside), swap)
        BY <1>1, <2>2, RunOfBoth
      <3> QED
        BY <3>3, <3>4, <3>5
    <2>4. Run(Run(Run(m, remove), aside), swap) = Exec(Run(Run(m, remove), aside), <<"SWAP">>)
      BY RunOfOne
    <2> HIDE DEF remove, aside, swap, back
    <2> QED
      BY <1>2, <2>3, <2>4
  <1> QED
    BY <1>3, <1>4

\* emitReplace consumes the value on top, wherever the slot is.
LEMMA RunReplace ==
  ASSUME NEW S, Missing \in S, NEW m, NEW n \in Nat, Sized(m, S, n, 0),
         NEW index \in Nat \ {0}, index < n
  PROVE  Sized(Run(m, EmitReplace(index)), S, n - 1, 0)
  <1>1. PICK removed : removed = Exec(Exec(m, <<"ROLL", index>>), <<"DROP">>)
    OBVIOUS
  <1>2. Sized(removed, S, n - 1, 0)
    <2>1. Sized(Exec(m, <<"ROLL", index>>), S, n, 0)
      BY ExecRoll
    <2> QED
      BY <1>1, <2>1, ExecDrop
  <1>3. CASE index < 2
    BY <1>1, <1>2, <1>3, ReplaceRuns
  <1>4. CASE index >= 2
    <2>1. PICK j \in Nat : j = index - 2
      BY <1>4
    <2> DEFINE aside   == Run(removed, InTurn(j, <<"SWAP">>, <<"TOALTSTACK">>))
               swapped == Exec(aside, <<"SWAP">>)
    <2>2. Run(m, EmitReplace(index)) = Run(swapped, Times(j, <<"FROMALTSTACK">>))
      BY <1>1, <1>4, <2>1, ReplaceRuns
    <2>3. Sized(aside, S, n - 1 - j, j)
      <3>1. n - 1 \in Nat /\ j < n - 1
        BY <2>1
      <3> QED
        BY <1>2, <2>1, <3>1, RunAside
    <2>4. Sized(swapped, S, n - 1 - j, j)
      <3>1. n - 1 - j >= 2
        BY <2>1
      <3> HIDE DEF aside
      <3> QED
        BY <2>3, <3>1, ExecSwap
    <2>5. Sized(Run(swapped, Times(j, <<"FROMALTSTACK">>)), S, (n - 1 - j) + j, 0)
      <3>1. n - 1 - j \in Nat
        BY <2>1
      <3> HIDE DEF aside, swapped
      <3> QED
        BY <2>1, <2>4, <3>1, RunFromAlts
    <2>6. (n - 1 - j) + j = n - 1
      BY <2>1
    <2> QED
      BY <2>2, <2>5, <2>6
  <1> QED
    BY <1>3, <1>4

-----------------------------------------------------------------------------
(* Names and values.                                                       *)

LEMMA StackIndexIs ==
  ASSUME NEW S, NEW slots \in Seq(S), NEW name
  PROVE  /\ StackIndex(slots, name) \in -1 .. Len(slots) - 1
         /\ StackIndex(slots, name) >= 0 => slots[StackIndex(slots, name) + 1] = name
         /\ name \in Range(slots) => StackIndex(slots, name) >= 0
  <1> DEFINE I == {i \in 1 .. Len(slots) : slots[i] = name}
  <1>1. Len(slots) \in Nat /\ DOMAIN slots = 1 .. Len(slots)
    BY LenProperties
  <1>2. StackIndex(slots, name) = (IF I # {} THEN Min(I) ELSE 0) - 1
    BY DEF StackIndex, SelectInSeq
  <1>3. ASSUME I # {} PROVE Min(I) \in I
    <2>1. I \subseteq Nat
      BY <1>1
    <2>2. \E x \in I : \A y \in I : x <= y
      <3> HIDE DEF I
      <3> QED
        BY <1>3, <2>1, LeastElement
    <2> HIDE DEF I
    <2> QED
      BY <2>2 DEF Min
  <1>4. CASE I # {}
    <2>1. PICK least \in I : least = Min(I) /\ StackIndex(slots, name) = least - 1
      <3> HIDE DEF I
      <3> QED
        BY <1>2, <1>3, <1>4
    <2>2. least \in 1 .. Len(slots) /\ slots[least] = name /\ least - 1 + 1 = least
      BY <1>1, <2>1
    <2> HIDE DEF I
    <2> QED
      BY <1>1, <2>1, <2>2
  <1>5. CASE I = {}
    <2>1. StackIndex(slots, name) = -1
      <3> HIDE DEF I
      <3> QED
        BY <1>2, <1>5
    <2>2. name \notin Range(slots)
      BY <1>1, <1>5 DEF Range
    <2> QED
      BY <1>1, <2>1, <2>2
  <1> QED
    BY <1>4, <1>5

LEMMA MachineTypes ==
  /\ Missing \in Contents
  /\ Value \in Slots
  /\ "$$" \in Slots
  /\ Names \subseteq Slots
  /\ Machines = MachinesOf(Contents)
  /\ \A name \in Names : Argument(name) \in Contents
  /\ \A i \in Nat : Computed(i) \in Contents /\ ComputedToo(i) \in Contents
  /\ Selector \in Contents
  /\ <<"OP_1", 0>> \in Contents
  BY DEF Contents, Slots, Machines, MachinesOf, Argument, Computed, ComputedToo, Selector

LEMMA NamesAreNoMarks ==
  ASSUME header \in Headers
  PROVE  \A name \in Names : name # Value /\ name # "$$"
  BY SlotsAssumption DEF Names

-----------------------------------------------------------------------------
(* Expressions.                                                            *)

\* What an expression has emitted and left on the symbolic stack.
IsCode(code) ==
    \E s, o, c : /\ code = [stack |-> s, ops |-> o, crashed |-> c]
                 /\ s \in Seq(Slots) /\ c \in BOOLEAN
                 /\ \E T : o \in Seq(T)

\* After k identifiers: k values are on top of both stacks, which are as deep.
Evaluated(code, k) ==
    ~code.crashed =>
      /\ Len(code.stack) >= k /\ \A i \in 1 .. k : code.stack[i] = Value
      /\ depths # <<>> => Len(code.stack) = Len(stack) + k
      /\ \A m : \A u \in Nat : Sized(m, Contents, Len(stack) + u, 0)
                             => Sized(Run(m, code.ops), Contents, Len(code.stack) + u, 0)

LEMMA OneMoreOp ==
  ASSUME NEW s \in Seq(Slots), NEW o, NEW c \in BOOLEAN, NEW T, o \in Seq(T), NEW op
  PROVE  /\ IsCode([stack |-> s, ops |-> Append(o, op), crashed |-> c])
         /\ \A m : Run(m, Append(o, op)) = Exec(Run(m, o), op)
  <1>1. T \subseteq T \cup {op} /\ op \in T \cup {op}
    OBVIOUS
  <1>2. o \in Seq(T \cup {op})
    BY <1>1, SeqMonotonic
  <1>3. Append(o, op) \in Seq(T \cup {op})
    BY <1>1, <1>2, AppendProperties
  <1>4. \E T2 : Append(o, op) \in Seq(T2)
    BY <1>3
  <1>5. \A m : Run(m, Append(o, op)) = Exec(Run(m, o), op)
    BY <1>1, <1>2, RunOfMore
  <1>6. PICK more : more = Append(o, op)
    OBVIOUS
  <1>7. IsCode([stack |-> s, ops |-> more, crashed |-> c])
    BY <1>4, <1>6 DEF IsCode
  <1> QED
    BY <1>5, <1>6, <1>7

\* One more value on top of k of them.
LEMMA OneMoreValue ==
  ASSUME NEW S, NEW slots \in Seq(S), NEW v \in S, NEW k \in Nat, k <= Len(slots),
         \A i \in 1 .. k : slots[i] = v
  PROVE  Len(<<v>> \o slots) >= k + 1 /\ \A i \in 1 .. k + 1 : (<<v>> \o slots)[i] = v
  <1>1. /\ Len(<<v>> \o slots) = 1 + Len(slots) /\ (<<v>> \o slots)[1] = v
        /\ \A i \in 1 .. Len(slots) : (<<v>> \o slots)[i + 1] = slots[i]
    BY PushedType
  <1>2. Len(slots) \in Nat
    BY LenProperties
  <1>3. ASSUME NEW i \in 1 .. k + 1 PROVE (<<v>> \o slots)[i] = v
    <2>1. CASE i = 1
      BY <1>1, <2>1
    <2>2. CASE i # 1
      <3>1. PICK j \in 1 .. k : j = i - 1 /\ i = j + 1
        BY <2>2
      <3>2. (<<v>> \o slots)[j + 1] = slots[j]
        BY <1>1, <1>2, <3>1
      <3> QED
        BY <3>1, <3>2
    <2> QED
      BY <2>1, <2>2
  <1> QED
    BY <1>1, <1>2, <1>3

LEMMA VisitIdentifierIs ==
  ASSUME header \in Headers, stack \in Seq(Slots), NEW k \in Nat, Node.operands[k + 1] \in Names,
         NEW code, IsCode(code), Evaluated(code, k)
  PROVE  IsCode(VisitIdentifier(code, k + 1)) /\ Evaluated(VisitIdentifier(code, k + 1), k + 1)
  <1>1. PICK s, o, c : /\ code = [stack |-> s, ops |-> o, crashed |-> c]
                       /\ s \in Seq(Slots) /\ c \in BOOLEAN
                       /\ \E T : o \in Seq(T)
    BY DEF IsCode
  <1>0. s \in Seq(Slots) /\ c \in BOOLEAN
    BY <1>1
  <1> USE <1>0
  <1>2. PICK T : o \in Seq(T)
    BY <1>1
  <1>3. PICK name, index : name = Node.operands[k + 1] /\ index = StackIndex(s, name)
    OBVIOUS
  <1>4. name \in Names /\ name # Value
    BY <1>3, NamesAreNoMarks
  <1>5. index \in -1 .. Len(s) - 1 /\ (index >= 0 => s[index + 1] = name) /\ Len(s) \in Nat
    BY <1>3, StackIndexIs, LenProperties
  <1>6. Len(stack) \in Nat
    BY LenProperties
  <1>7. ~c => /\ Len(s) >= k /\ \A i \in 1 .. k : s[i] = Value
              /\ depths # <<>> => Len(s) = Len(stack) + k
              /\ \A m : \A u \in Nat : Sized(m, Contents, Len(stack) + u, 0)
                                         => Sized(Run(m, o), Contents, Len(s) + u, 0)
    BY <1>1 DEF Evaluated
  <1>8. \A x : /\ x \in Seq(Slots) => <<Value>> \o x \in Seq(Slots)
                                     /\ Len(<<Value>> \o x) = 1 + Len(x)
                                     /\ (<<Value>> \o x)[1] = Value
                                     /\ \A i \in 1 .. Len(x) : (<<Value>> \o x)[i + 1] = x[i]
    BY MachineTypes, PushedType
  <1>9. ASSUME name \in Inline
        PROVE  IsCode(VisitIdentifier(code, k + 1)) /\ Evaluated(VisitIdentifier(code, k + 1), k + 1)
    <2> DEFINE op == <<"PUSH", <<Argument(name)>>>>
               next == [stack |-> <<Value>> \o s, ops |-> Append(o, op), crashed |-> c]
    <2>1. VisitIdentifier(code, k + 1) = next
      BY <1>1, <1>3, <1>9 DEF VisitIdentifier
    <2>2. IsCode(next) /\ \A m : Run(m, Append(o, op)) = Exec(Run(m, o), op)
      BY <1>2, <1>8, OneMoreOp
    <2>3. ASSUME ~c PROVE Evaluated(next, k + 1)
      <3>1. Len(<<Value>> \o s) >= k + 1 /\ \A i \in 1 .. k + 1 : (<<Value>> \o s)[i] = Value
        <4>1. k <= Len(s) /\ \A i \in 1 .. k : s[i] = Value
          BY <1>5, <1>7, <2>3
        <4> QED
          BY <4>1, MachineTypes, OneMoreValue
      <3>2. depths # <<>> => Len(<<Value>> \o s) = Len(stack) + (k + 1)
        BY <1>5, <1>6, <1>7, <1>8, <2>3
      <3>3. ASSUME NEW m, NEW u \in Nat, Sized(m, Contents, Len(stack) + u, 0)
            PROVE  Sized(Run(m, Append(o, op)), Contents, Len(<<Value>> \o s) + u, 0)
        <4>1. Sized(Run(m, o), Contents, Len(s) + u, 0)
          BY <1>7, <2>3, <3>3
        <4>2. <<Argument(name)>> \in Seq(Contents) /\ Len(<<Argument(name)>>) = 1
          BY <1>4, MachineTypes
        <4>3. Sized(Exec(Run(m, o), op), Contents, Len(<<Argument(name)>>) + (Len(s) + u), 0)
          BY <4>1, <4>2, ExecPush
        <4>4. Len(<<Argument(name)>>) + (Len(s) + u) = Len(<<Value>> \o s) + u
          BY <1>5, <1>8, <4>2
        <4> QED
          BY <2>2, <4>3, <4>4
      <3> HIDE DEF op
      <3> QED
        BY <3>1, <3>2, <3>3 DEF Evaluated
    <2>4. c => Evaluated(next, k + 1)
      BY DEF Evaluated
    <2> HIDE DEF next
    <2> QED
      BY <2>1, <2>2, <2>3, <2>4
  <1>13. ASSUME name \notin Inline
         PROVE  /\ index < 0 => VisitIdentifier(code, k + 1) = [code EXCEPT !.crashed = TRUE]
                /\ index >= 0 /\ IsOpRoll(name, k + 1) =>
                     VisitIdentifier(code, k + 1) =
                       [code EXCEPT !.stack = <<Value>> \o Without(s, index),
                                    !.ops = Append(o, <<"ROLL", index>>)]
                /\ index >= 0 /\ ~IsOpRoll(name, k + 1) =>
                     VisitIdentifier(code, k + 1) =
                       [code EXCEPT !.stack = <<Value>> \o s, !.ops = Append(o, <<"PICK", index>>)]
    <2>1. code.stack = s /\ code.ops = o
      BY <1>1
    <2>2. StackIndex(code.stack, Node.operands[k + 1]) = index
      BY <1>3, <2>1
    <2>3. CASE index < 0
      <3>1. ~(index >= 0)
        BY <1>5, <2>3
      <3> QED
        BY <1>3, <1>13, <2>1, <2>2, <2>3, <3>1 DEF VisitIdentifier
    <2>4. CASE index >= 0
      <3>1. ~(index < 0)
        BY <1>5, <2>4
      <3>2. CASE IsOpRoll(name, k + 1)
        BY <1>3, <1>13, <2>1, <2>2, <2>4, <3>1, <3>2 DEF VisitIdentifier
      <3>3. CASE ~IsOpRoll(name, k + 1)
        BY <1>3, <1>13, <2>1, <2>2, <2>4, <3>1, <3>3 DEF VisitIdentifier
      <3> QED
        BY <3>1, <3>2, <3>3
    <2> QED
      BY <1>5, <2>3, <2>4
  <1>10. ASSUME name \notin Inline, index < 0
         PROVE  IsCode(VisitIdentifier(code, k + 1)) /\ Evaluated(VisitIdentifier(code, k + 1), k + 1)
    <2> DEFINE next == [stack |-> s, ops |-> o, crashed |-> TRUE]
    <2>1. VisitIdentifier(code, k + 1) = next
      BY <1>1, <1>10, <1>13
    <2>2. IsCode(next)
      BY <1>1 DEF IsCode
    <2>3. Evaluated(next, k + 1)
      BY DEF Evaluated
    <2> HIDE DEF next
    <2> QED
      BY <2>1, <2>2, <2>3
  <1>11. ASSUME name \notin Inline, index >= 0, IsOpRoll(name, k + 1)
         PROVE  IsCode(VisitIdentifier(code, k + 1)) /\ Evaluated(VisitIdentifier(code, k + 1), k + 1)
    <2> DEFINE op == <<"ROLL", index>>
               rest == Without(s, index)
               next == [stack |-> <<Value>> \o rest, ops |-> Append(o, op), crashed |-> c]
    <2>1. VisitIdentifier(code, k + 1) = next
      BY <1>1, <1>11, <1>13
    <2>2. /\ rest \in Seq(Slots) /\ Len(rest) = Len(s) - 1
          /\ \A i \in 1 .. index : rest[i] = s[i]
      BY <1>5, <1>11, WithoutType
    <2> HIDE DEF rest
    <2>3. IsCode(next) /\ \A m : Run(m, Append(o, op)) = Exec(Run(m, o), op)
      BY <1>2, <1>8, <2>2, OneMoreOp
    <2>4. ASSUME ~c PROVE Evaluated(next, k + 1)
      <3>1. index >= k
        <4>1. index + 1 \notin 1 .. k
          BY <1>4, <1>5, <1>7, <1>11, <2>4
        <4> QED
          BY <1>5, <1>11, <4>1
      <3>2. Len(<<Value>> \o rest) >= k + 1 /\ \A i \in 1 .. k + 1 : (<<Value>> \o rest)[i] = Value
        <4>1. k <= Len(rest) /\ \A i \in 1 .. k : rest[i] = Value
          BY <1>5, <1>7, <2>2, <2>4, <3>1
        <4> QED
          BY <2>2, <4>1, MachineTypes, OneMoreValue
      <3>3. depths = <<>>
        BY <1>11 DEF IsOpRoll
      <3>4. ASSUME NEW m, NEW u \in Nat, Sized(m, Contents, Len(stack) + u, 0)
            PROVE  Sized(Run(m, Append(o, op)), Contents, Len(<<Value>> \o rest) + u, 0)
        <4>1. Sized(Run(m, o), Contents, Len(s) + u, 0)
          BY <1>7, <2>4, <3>4
        <4>2. index \in Nat /\ index < Len(s) + u
          BY <1>5, <1>11
        <4>3. Sized(Exec(Run(m, o), op), Contents, Len(s) + u, 0)
          BY <4>1, <4>2, MachineTypes, ExecRoll
        <4>4. Len(s) = Len(<<Value>> \o rest)
          BY <1>5, <1>8, <2>2
        <4> QED
          BY <2>3, <4>3, <4>4
      <3> HIDE DEF op
      <3> QED
        BY <3>2, <3>3, <3>4 DEF Evaluated
    <2>5. c => Evaluated(next, k + 1)
      BY DEF Evaluated
    <2> HIDE DEF next
    <2> QED
      BY <2>1, <2>3, <2>4, <2>5
  <1>12. ASSUME name \notin Inline, index >= 0, ~IsOpRoll(name, k + 1)
         PROVE  IsCode(VisitIdentifier(code, k + 1)) /\ Evaluated(VisitIdentifier(code, k + 1), k + 1)
    <2> DEFINE op == <<"PICK", index>>
               next == [stack |-> <<Value>> \o s, ops |-> Append(o, op), crashed |-> c]
    <2>1. VisitIdentifier(code, k + 1) = next
      BY <1>1, <1>12, <1>13
    <2>2. IsCode(next) /\ \A m : Run(m, Append(o, op)) = Exec(Run(m, o), op)
      BY <1>2, <1>8, OneMoreOp
    <2>3. ASSUME ~c PROVE Evaluated(next, k + 1)
      <3>1. Len(<<Value>> \o s) >= k + 1 /\ \A i \in 1 .. k + 1 : (<<Value>> \o s)[i] = Value
        <4>1. k <= Len(s) /\ \A i \in 1 .. k : s[i] = Value
          BY <1>5, <1>7, <2>3
        <4> QED
          BY <4>1, MachineTypes, OneMoreValue
      <3>2. depths # <<>> => Len(<<Value>> \o s) = Len(stack) + (k + 1)
        BY <1>5, <1>6, <1>7, <1>8, <2>3
      <3>3. ASSUME NEW m, NEW u \in Nat, Sized(m, Contents, Len(stack) + u, 0)
            PROVE  Sized(Run(m, Append(o, op)), Contents, Len(<<Value>> \o s) + u, 0)
        <4>1. Sized(Run(m, o), Contents, Len(s) + u, 0)
          BY <1>7, <2>3, <3>3
        <4>2. index \in Nat
          BY <1>5, <1>12
        <4>3. Sized(Exec(Run(m, o), op), Contents, 1 + (Len(s) + u), 0)
          BY <4>1, <4>2, MachineTypes, ExecPick
        <4>4. 1 + (Len(s) + u) = Len(<<Value>> \o s) + u
          BY <1>5, <1>8
        <4> QED
          BY <2>2, <4>3, <4>4
      <3> HIDE DEF op
      <3> QED
        BY <3>1, <3>2, <3>3 DEF Evaluated
    <2>4. c => Evaluated(next, k + 1)
      BY DEF Evaluated
    <2> HIDE DEF next
    <2> QED
      BY <2>1, <2>2, <2>3, <2>4
  <1> QED
    BY <1>5, <1>9, <1>10, <1>11, <1>12

\* The function Identifiers recurses on: the code after each identifier.
AreVisits(visited) ==
  visited = [k \in 0 .. Len(Node.operands) |->
               IF k = 0 THEN [stack |-> stack, ops |-> <<>>, crashed |-> FALSE]
                        ELSE VisitIdentifier(visited[k - 1], k)]

LEMMA VisitsExist ==
  ASSUME Node.operands \in Seq(Names)
  PROVE  \E visited : AreVisits(visited)
  <1> DEFINE first == [stack |-> stack, ops |-> <<>>, crashed |-> FALSE]
             UpTo(visited, k) ==
               visited = [n \in 0 .. k |->
                            IF n = 0 THEN first ELSE VisitIdentifier(visited[n - 1], n)]
             D == {k \in Nat : \E visited : UpTo(visited, k)}
  <1>1. 0 \in D
    <2>1. UpTo([n \in 0 .. 0 |-> first], 0)
      OBVIOUS
    <2> QED
      BY <2>1
  <1>2. ASSUME NEW k \in Nat, k \in D PROVE k + 1 \in D
    <2>1. PICK shorter : UpTo(shorter, k)
      BY <1>2
    <2> DEFINE longer == [n \in 0 .. k + 1 |->
                            IF n = k + 1 THEN VisitIdentifier(shorter[k], k + 1) ELSE shorter[n]]
    <2> HIDE DEF first
    <2>2. UpTo(longer, k + 1)
      BY <2>1
    <2>3. \E visited : UpTo(visited, k + 1)
      <3> HIDE DEF UpTo, longer
      <3> QED
        BY <2>2
    <2>4. k + 1 \in Nat
      OBVIOUS
    <2> HIDE DEF UpTo
    <2> QED
      BY <2>3, <2>4
  <1>3. \A k \in Nat : k \in D
    <2> HIDE DEF D
    <2> QED
      BY <1>1, <1>2, InductionOnSet
  <1>4. Len(Node.operands) \in D
    BY <1>3, LenProperties
  <1> QED
    BY <1>4 DEF AreVisits

LEMMA IdentifiersAre ==
  ASSUME header \in Headers, stack \in Seq(Slots), Node.operands \in Seq(Names)
  PROVE  IsCode(Identifiers) /\ Evaluated(Identifiers, Len(Node.operands))
  <1>1. \E visited : AreVisits(visited) /\ Identifiers = visited[Len(Node.operands)]
    BY VisitsExist DEF AreVisits, Identifiers
  <1>2. PICK visited : AreVisits(visited) /\ Identifiers = visited[Len(Node.operands)]
    BY <1>1
  <1>3. PICK n \in Nat : n = Len(Node.operands)
    BY LenProperties
  <1> DEFINE D == {k \in Nat : k <= n => IsCode(visited[k]) /\ Evaluated(visited[k], k)}
             first == [stack |-> stack, ops |-> <<>>, crashed |-> FALSE]
  <1>4. 0 \in D
    <2>1. visited[0] = first
      BY <1>2, <1>3 DEF AreVisits
    <2>2. IsCode(first)
      <3>1. \E T : <<>> \in Seq(T)
        BY EmptySeq
      <3> QED
        BY <3>1 DEF IsCode
    <2>3. Evaluated(first, 0)
      <3>1. Len(stack) \in Nat
        BY LenProperties
      <3> QED
        BY <3>1, RunOfNone DEF Evaluated
    <2> HIDE DEF first
    <2> QED
      BY <2>1, <2>2, <2>3
  <1>5. ASSUME NEW k \in Nat, k \in D PROVE k + 1 \in D
    <2> SUFFICES ASSUME k + 1 <= n
                 PROVE  IsCode(visited[k + 1]) /\ Evaluated(visited[k + 1], k + 1)
      OBVIOUS
    <2>1. IsCode(visited[k]) /\ Evaluated(visited[k], k)
      BY <1>5
    <2>2. visited[k + 1] = VisitIdentifier(visited[k], k + 1)
      <3>1. k + 1 \in 0 .. n /\ k + 1 # 0 /\ k + 1 - 1 = k
        OBVIOUS
      <3>2. \A i \in 0 .. n : i # 0 => visited[i] = VisitIdentifier(visited[i - 1], i)
        BY <1>2, <1>3 DEF AreVisits
      <3> QED
        BY <3>1, <3>2
    <2>3. Node.operands[k + 1] \in Names
      BY <1>3
    <2> QED
      BY <2>1, <2>2, <2>3, VisitIdentifierIs
  <1>6. \A k \in Nat : k \in D
    <2> HIDE DEF D
    <2> QED
      BY <1>4, <1>5, InductionOnSet
  <1> QED
    BY <1>2, <1>3, <1>6

LEMMA TimesValue ==
  \A n \in Nat : /\ Times(n, Value) \in Seq(Slots) /\ Len(Times(n, Value)) = n
                 /\ \A i \in 1 .. n : Times(n, Value)[i] = Value
  BY MachineTypes DEF Times

\* What an expression leaves instead of its operands.
LEMMA ExpressionIs ==
  ASSUME header \in Headers, stack \in Seq(Slots), Node.operands \in Seq(Names),
         NEW results \in Seq(Contents)
  PROVE  IsCode(Expression(results)) /\ Evaluated(Expression(results), Len(results))
  <1>1. PICK n \in Nat, r \in Nat : n = Len(Node.operands) /\ r = Len(results)
    BY LenProperties
  <1>2. IsCode(Identifiers) /\ Evaluated(Identifiers, n)
    BY <1>1, IdentifiersAre
  <1>3. PICK s, o, c : /\ Identifiers = [stack |-> s, ops |-> o, crashed |-> c]
                       /\ s \in Seq(Slots) /\ c \in BOOLEAN
                       /\ \E T : o \in Seq(T)
    BY <1>2 DEF IsCode
  <1>4. PICK T : o \in Seq(T)
    BY <1>3
  <1>5. s \in Seq(Slots) /\ c \in BOOLEAN /\ Len(s) \in Nat /\ Len(stack) \in Nat
    BY <1>3, LenProperties
  <1> USE <1>5
  <1>6. ~c => /\ Len(s) >= n
              /\ depths # <<>> => Len(s) = Len(stack) + n
    BY <1>2, <1>3 DEF Evaluated
  <1>13. ~c => \A m : \A u \in Nat : Sized(m, Contents, Len(stack) + u, 0)
                                       => Sized(Run(m, o), Contents, Len(s) + u, 0)
    BY <1>2, <1>3 DEF Evaluated
  <1> DEFINE op == <<"COMPUTE", n, results>>
             values == Times(r, Value)
             left == From(s, n)
             next == [stack |-> values \o left, ops |-> Append(o, op), crashed |-> c]
  <1>7. Expression(results) = next
    <2>1. Expression(results) =
            [Identifiers EXCEPT !.stack = values \o From(Identifiers.stack, n),
                                !.ops   = Append(Identifiers.ops, op)]
      BY <1>1 DEF Expression
    <2> HIDE DEF values, op
    <2> QED
      BY <1>3, <2>1
  <1>8. /\ values \in Seq(Slots) /\ Len(values) = r /\ \A i \in 1 .. r : values[i] = Value
        /\ left \in Seq(Slots)
        /\ n <= Len(s) => Len(left) = Len(s) - n
    BY TimesValue, FromType
  <1> HIDE DEF values, left
  <1>14. /\ values \o left \in Seq(Slots) /\ Len(values \o left) = r + Len(left)
         /\ \A i \in 1 .. r : (values \o left)[i] = Value
    <2>1. Len(left) \in Nat
      BY <1>8, LenProperties
    <2>2. \A i \in 1 .. Len(values) + Len(left) :
            (values \o left)[i] = IF i <= Len(values) THEN values[i] ELSE left[i - Len(values)]
      BY <1>8, ConcatProperties
    <2>3. \A i \in 1 .. r : i \in 1 .. Len(values) + Len(left) /\ i <= Len(values)
      BY <1>8, <2>1
    <2>4. values \o left \in Seq(Slots) /\ Len(values \o left) = r + Len(left)
      BY <1>8, ConcatProperties
    <2> QED
      BY <1>8, <2>2, <2>3, <2>4
  <1>9. PICK joined \in Seq(Slots) :
          /\ joined = values \o left /\ Len(joined) = r + Len(left)
          /\ \A i \in 1 .. r : joined[i] = Value
    BY <1>14
  <1>10. IsCode(next) /\ \A m : Run(m, Append(o, op)) = Exec(Run(m, o), op)
    <2> HIDE DEF op
    <2> QED
      BY <1>4, <1>9, OneMoreOp
  <1>11. ASSUME ~c PROVE Evaluated(next, r)
    <2>1. Len(left) = Len(s) - n /\ Len(joined) = r + (Len(s) - n) /\ n <= Len(s)
      BY <1>6, <1>8, <1>9, <1>11
    <2>2. Len(joined) >= r /\ \A i \in 1 .. r : joined[i] = Value
      BY <1>9, <2>1
    <2>3. ASSUME depths # <<>> PROVE Len(joined) = Len(stack) + r
      <3>1. Len(s) = Len(stack) + n
        BY <1>6, <1>11, <2>3
      <3>2. Len(stack) \in Nat /\ Len(joined) = r + (Len(s) - n)
        BY <2>1
      <3> QED
        BY <3>1, <3>2
    <2>4. ASSUME NEW m, NEW u \in Nat, Sized(m, Contents, Len(stack) + u, 0)
          PROVE  Sized(Run(m, Append(o, op)), Contents, Len(joined) + u, 0)
      <3>1. Sized(Run(m, o), Contents, Len(s) + u, 0)
        BY <1>11, <1>13, <2>4
      <3>2. n <= Len(s) + u
        BY <2>1
      <3>3. Sized(Exec(Run(m, o), op), Contents, Len(results) + (Len(s) + u - n), 0)
        BY <3>1, <3>2, MachineTypes, ExecCompute
      <3>4. Len(results) + (Len(s) + u - n) = Len(joined) + u
        BY <1>1, <2>1
      <3> QED
        BY <1>10, <3>3, <3>4
    <2> HIDE DEF op
    <2> QED
      BY <1>9, <2>2, <2>3, <2>4 DEF Evaluated
  <1>12. c => Evaluated(next, r)
    BY DEF Evaluated
  <1> HIDE DEF next
  <1> QED
    BY <1>1, <1>7, <1>10, <1>11, <1>12

-----------------------------------------------------------------------------
(* The invariant.                                                          *)

\* The function the generator is in, or behind if the node before is its end.
Current == Count(program, "function", at - 1)
Before  == KindBefore(program, at)

\* The branches in progress: the depths to go back to, innermost first.
Levels ==
    /\ Len(depths) = Opened(program, at)
    /\ \A i \in 1 .. Len(depths) : depths[i] <= Len(stack)
    /\ \A i, j \in 1 .. Len(depths) : i <= j => depths[j] <= depths[i]

\* The sides of the path: one per branch and, outermost, the selected function.
Sides ==
    /\ Current \in 0 .. Len(Functions)
    /\ Len(taken) = Len(depths) + (IF Current > 0 THEN 1 ELSE 0)
    /\ Current > 0 /\ Before # "end" => taken[Len(taken)] = (Current = selected)
    /\ Before = "end" => /\ Current > 0 /\ Len(Functions) > 1
                         /\ taken = <<Current < selected>>
                         /\ stack = stackCopy
    /\ Current > 0 /\ Len(Functions) > 1 => "$$" \in Range(stackCopy)

\* As many values as there are slots and arguments no function has named yet.
Deep(m, n) == Sized(m, Contents, n + Unnamed, 0)

\* A side that is not taken leaves the machine as it was at the branch, so the sides
\* agree where they meet again.
Meets(i) == ~taken[i] /\ (\A j \in i + 1 .. Len(taken) : taken[j]) => Deep(machine, depths[i])

Balance ==
    /\ Live => Deep(Settled, Len(stack))
    /\ \A i \in 1 .. Len(depths) : Meets(i)
    /\ Current > 0 /\ Before # "end" /\ Current < selected =>
         Sized(machine, Contents, Len(stackCopy) + Len(Functions[selected]), 0)

GeneratorInv ==
    /\ AnalysisInv /\ TypeOK
    /\ Functions # <<>> => selected > 0
    /\ phase = "analyse" => at = 1
    /\ phase = "generate" => at <= Len(program)
    /\ phase # "done" => Levels /\ Sides /\ Balance

-----------------------------------------------------------------------------
(* What a step leaves as it is.                                            *)

LEMMA GreatestElement ==
  ASSUME NEW n \in Nat, NEW T, T \subseteq 0 .. n, T # {}
  PROVE  Max(T) \in T /\ \A x \in T : x <= Max(T)
  <1> DEFINE U == {n - x : x \in T}
  <1>1. U \subseteq Nat /\ U # {}
    <2>1. \A x \in T : n - x \in Nat
      OBVIOUS
    <2>2. PICK x : x \in T
      OBVIOUS
    <2>3. n - x \in U
      BY <2>2
    <2> QED
      BY <2>1, <2>3
  <1>2. PICK u \in U : \A v \in U : u <= v
    BY <1>1, LeastElement
  <1>3. PICK x \in T : u = n - x
    BY <1>2
  <1>4. ASSUME NEW y \in T PROVE x >= y
    <2>1. n - y \in U /\ x \in Int /\ y \in Int
      OBVIOUS
    <2>2. n - x <= n - y
      BY <1>2, <1>3, <2>1
    <2> QED
      BY <2>1, <2>2
  <1>5. Max(T) \in T /\ \A y \in T : Max(T) >= y
    BY <1>3, <1>4 DEF Max
  <1> QED
    BY <1>5

LEMMA DeclarationType ==
  ASSUME AnalysisInv, NEW name, NEW i
  PROVE  DeclarationOf(name, i) \in 0 .. header.maxNodes
  <1> DEFINE T == {0} \cup {j \in Nodes : /\ j < i
                                        /\ program[j].kind \in {"define", "tuple", "function"}
                                        /\ name \in Range(program[j].targets)}
  <1>1. /\ Nodes = 1 .. Len(program) /\ Len(program) \in Nat /\ Len(program) <= header.maxNodes
        /\ header.maxNodes \in Nat
    BY LenProperties, HeadersAssumption DEF AnalysisInv, AnalysisTypeOK, Nodes
  <1>2. T \subseteq 0 .. header.maxNodes /\ T # {}
    BY <1>1
  <1>3. DeclarationOf(name, i) = Max(T)
    BY DEF DeclarationOf
  <1> HIDE DEF T
  <1> QED
    BY <1>1, <1>2, <1>3, GreatestElement

LEMMA HeaderFixed ==
  ASSUME header' = header
  PROVE  /\ Names' = Names /\ AnyNode' = AnyNode /\ Slots' = Slots /\ Contents' = Contents
         /\ Machines' = Machines /\ Functions' = Functions
  BY DEF Names, AnyNode, Slots, Contents, Machines, Functions

LEMMA NodeIs ==
  ASSUME GeneratorInv, phase = "generate"
  PROVE  /\ header \in Headers /\ Node \in AnyNode /\ Node.operands \in Seq(Names)
         /\ Node.targets \in Seq(Names)
         /\ at \in Nat \ {0} /\ at <= Len(program) /\ Len(program) <= header.maxNodes
         /\ Len(depths) \in Nat /\ Current \in Nat
         /\ NodeFits(header, Node, Len(depths),
                     Current + (IF Node.kind = "function" THEN 1 ELSE 0), Before)
         /\ FunctionOf(at) = Current + (IF Node.kind = "function" THEN 1 ELSE 0)
  <1>1. /\ AnalysisTypeOK /\ at \in 1 .. header.maxNodes + 1 /\ at <= Len(program)
        /\ depths \in Seq(Nat)
        /\ Structured(header, program) /\ Len(program) <= header.maxNodes
        /\ Len(depths) = Opened(program, at)
    BY DEF GeneratorInv, TypeOK, AnalysisInv, Levels
  <1>2. /\ header \in Headers /\ program \in Seq(AnyNode) /\ Len(program) \in Nat
        /\ header.maxNodes \in Nat
    BY <1>1, LenProperties, HeadersAssumption DEF AnalysisTypeOK, AnyNode
  <1>3. at \in 1 .. Len(program) /\ at \in Nat \ {0} /\ at - 1 \in Nat /\ at - 1 + 1 = at
    BY <1>1, <1>2
  <1>4. Node \in AnyNode
    BY <1>2, <1>3, ElementOfSeq DEF Node
  <1>5. /\ Current \in Nat
        /\ Count(program, "function", at) =
             Current + (IF Node.kind = "function" THEN 1 ELSE 0)
    <2>1. PICK i \in Nat : i = at - 1 /\ i + 1 = at
      BY <1>3
    <2>2. /\ Count(program, "function", i) \in Nat
          /\ Count(program, "function", i + 1) =
               Count(program, "function", i)
                 + (IF program[i + 1].kind = "function" THEN 1 ELSE 0)
      BY CountNext
    <2> QED
      BY <2>1, <2>2 DEF Current, Node
  <1>6. NodeFits(header, program[at], Opened(program, at), Count(program, "function", at),
                 KindBefore(program, at))
    BY <1>1, <1>3 DEF Structured
  <1>7. Len(depths) \in Nat
    BY <1>1, LenProperties
  <1>8. Node.operands \in Seq(Names) /\ Node.targets \in Seq(Names)
    BY <1>4 DEF AnyNode
  <1>9. FunctionOf(at) = Count(program, "function", at)
    BY FunctionOfIsCount
  <1> QED
    BY <1>1, <1>2, <1>3, <1>4, <1>5, <1>6, <1>7, <1>8, <1>9 DEF Before, Node

LEMMA UnnamedIs ==
  ASSUME GeneratorInv, phase # "done"
  PROVE  /\ Current = selected => Unnamed = 0
         /\ Current # selected =>
              /\ selected \in 1 .. Len(Functions)
              /\ Unnamed = Len(Functions[selected]) +
                             (IF Len(Functions) > 1 /\ Current = 0 THEN 1 ELSE 0)
         /\ Unnamed \in Nat
  <1>1. /\ header \in Headers /\ selected \in 0 .. Len(Functions)
        /\ Functions # <<>> => selected > 0
        /\ Current \in 0 .. Len(Functions)
    BY DEF GeneratorInv, TypeOK, AnalysisTypeOK, Sides
  <1>2. FunctionOf(at - 1) = Current
    BY FunctionOfIsCount DEF Current
  <1>3. Functions = <<>> => Len(Functions) = 0
    OBVIOUS
  <1>4. Current # selected => selected \in 1 .. Len(Functions)
    BY <1>1, <1>3
  <1>5. \A f \in 1 .. Len(Functions) : Len(Functions[f]) \in Nat
    BY <1>1, FunctionParameters
  <1>6. CASE Current = selected
    BY <1>2, <1>6 DEF Unnamed
  <1>7. CASE Current # selected
    <2>1. Unnamed = Len(Functions[selected]) +
                      (IF Len(Functions) > 1 /\ Current = 0 THEN 1 ELSE 0)
      BY <1>2, <1>7 DEF Unnamed
    <2>2. selected \in 1 .. Len(Functions) /\ Len(Functions[selected]) \in Nat
      BY <1>4, <1>5, <1>7
    <2>3. PICK own \in Nat, extra \in {0, 1} :
            /\ own = Len(Functions[selected])
            /\ extra = IF Len(Functions) > 1 /\ Current = 0 THEN 1 ELSE 0
      BY <2>2
    <2>5. Unnamed = own + extra
      BY <2>1, <2>3
    <2>4. Unnamed \in Nat
      BY <2>5
    <2> QED
      BY <1>7, <2>1, <2>2, <2>4
  <1> QED
    BY <1>6, <1>7

LEMMA VisitedMeans ==
  ASSUME GeneratorInv, phase = "generate", Visited
  PROVE  /\ AnalysisInv' /\ at' = at + 1 /\ at' \in 1 .. header'.maxNodes + 1
         /\ header' = header /\ program' = program /\ selected' = selected /\ crashed' = crashed
         /\ phase' \in {"generate", "done"}
         /\ phase' = "generate" => at' <= Len(program')
         /\ Current' = Current + (IF Node.kind = "function" THEN 1 ELSE 0)
         /\ Opened(program, at)' = Len(depths) + (IF Node.kind = "if" THEN 1 ELSE 0)
                                               - (IF Node.kind = "endif" THEN 1 ELSE 0)
         /\ Before' = Node.kind
  <1>1. /\ at' = at + 1 /\ phase' = IF at = Len(program) THEN "done" ELSE "generate"
        /\ UNCHANGED <<header, program, tables, open, ends, crashed, selected>>
    BY DEF Visited
  <1>2. at \in Nat \ {0} /\ at <= Len(program) /\ Len(program) <= header.maxNodes
    BY NodeIs
  <1>3. header.maxNodes \in Nat /\ Len(program) \in Nat
    BY HeadersAssumption, LenProperties DEF GeneratorInv, TypeOK, AnalysisTypeOK
  <1>4. at' \in 1 .. header'.maxNodes + 1 /\ (phase' = "generate" => at' <= Len(program'))
    BY <1>1, <1>2, <1>3
  <1>5. phase' \in {"generate", "done"}
    BY <1>1
  <1>6. AnalysisInv'
    <2>1. AnalysisInv
      BY DEF GeneratorInv
    <2>2. AnalysisTypeOK'
      BY <1>1, <1>5, <2>1 DEF AnalysisInv, AnalysisTypeOK, Names
    <2>3. Structured(header, program)' /\ Opened(program, Len(program) + 1)' = Opened(program, Len(program) + 1)
      BY <1>1, <2>1 DEF AnalysisInv
    <2> QED
      BY <1>1, <1>5, <2>1, <2>2, <2>3 DEF AnalysisInv
  <1>7. PICK i \in Nat : i = at - 1 /\ i + 1 = at
    BY <1>2
  <1>8. \A kind : /\ Count(program, kind, i) \in Nat
                 /\ Count(program, kind, at) =
                      Count(program, kind, i) + (IF Node.kind = kind THEN 1 ELSE 0)
    <2>1. \A kind : /\ Count(program, kind, i) \in Nat
                   /\ Count(program, kind, i + 1) =
                        Count(program, kind, i)
                          + (IF program[i + 1].kind = kind THEN 1 ELSE 0)
      BY CountNext
    <2> QED
      BY <1>7, <2>1 DEF Node
  <1>9. at' - 1 = at
    BY <1>1, <1>2
  <1>10. Current' = Current + (IF Node.kind = "function" THEN 1 ELSE 0)
    <2>1. Current' = Count(program, "function", at)
      BY <1>1, <1>9 DEF Current
    <2>2. Current = Count(program, "function", i)
      BY <1>7 DEF Current
    <2> QED
      BY <1>8, <2>1, <2>2
  <1>11. Opened(program, at)' = Len(depths) + (IF Node.kind = "if" THEN 1 ELSE 0)
                                            - (IF Node.kind = "endif" THEN 1 ELSE 0)
    <2>1. Opened(program, at)' = Count(program, "if", at) - Count(program, "endif", at)
      BY <1>1, <1>9 DEF Opened
    <2>2. Len(depths) = Count(program, "if", i) - Count(program, "endif", i)
      BY <1>7 DEF GeneratorInv, Levels, Opened
    <2>3. PICK a \in Nat, b \in Nat : a = Count(program, "if", i) /\ b = Count(program, "endif", i)
      BY <1>8
    <2>4. /\ Count(program, "if", at) = a + (IF Node.kind = "if" THEN 1 ELSE 0)
          /\ Count(program, "endif", at) = b + (IF Node.kind = "endif" THEN 1 ELSE 0)
      BY <1>8, <2>3
    <2>5. PICK x \in {0, 1}, y \in {0, 1} : /\ x = IF Node.kind = "if" THEN 1 ELSE 0
                                            /\ y = IF Node.kind = "endif" THEN 1 ELSE 0
      OBVIOUS
    <2>6. (a + x) - (b + y) = (a - b) + x - y
      BY ONLY a \in Nat, b \in Nat, x \in {0, 1}, y \in {0, 1}
    <2> QED
      BY <2>1, <2>2, <2>3, <2>4, <2>5, <2>6
  <1>12. Before' = Node.kind
    BY <1>1, <1>2, <1>9 DEF Before, KindBefore, Node
  <1> QED
    BY <1>1, <1>4, <1>5, <1>6, <1>10, <1>11, <1>12

\* Unless the node begins a function, no argument gets a name.
LEMMA UnnamedKept ==
  ASSUME GeneratorInv, phase = "generate", Visited, Node.kind # "function"
  PROVE  Unnamed' = Unnamed /\ Current' = Current
  <1>1. header' = header /\ selected' = selected /\ Current' = Current + 0 /\ Current \in Nat
    BY VisitedMeans, NodeIs
  <1>2. FunctionOf(at - 1) = Current /\ FunctionOf(at - 1)' = Current'
    BY DEF FunctionOf, Current, Count, IsNode
  <1>3. Current' = Current /\ Functions' = Functions
    BY <1>1 DEF Functions
  <1> QED
    BY <1>1, <1>2, <1>3 DEF Unnamed

\* A statement, or the separator: nothing happens to the branches.
LEMMA StraightKeeps ==
  ASSUME GeneratorInv, phase = "generate", Visited,
         Node.kind \notin {"if", "else", "endif", "function", "end"},
         depths' = depths, taken' = taken, stackCopy' = stackCopy,
         stack' \in Seq(Slots), depths # <<>> => Len(stack') >= Len(stack),
         usedSymbols' \subseteq Names \X (0 .. header.maxNodes), verify' \in BOOLEAN,
         env' \in [Names -> Contents], lastRun' \in Kinds, machine' \in Machines,
         ~Live => machine' = machine,
         Live => Sized(Settled', Contents, Len(stack') + Unnamed, 0)
  PROVE  GeneratorInv'
  <1>1. TypeOK /\ Levels /\ Sides /\ Balance /\ (Functions # <<>> => selected > 0)
    BY DEF GeneratorInv
  <1>2. /\ AnalysisInv' /\ at' \in 1 .. header'.maxNodes + 1
        /\ header' = header /\ program' = program /\ selected' = selected /\ crashed' = crashed
        /\ phase' \in {"generate", "done"}
        /\ phase' = "generate" => at' <= Len(program')
        /\ Before' = Node.kind
    BY VisitedMeans
  <1>3. /\ Names' = Names /\ Slots' = Slots /\ Contents' = Contents
        /\ Machines' = Machines /\ Functions' = Functions
    BY <1>2, HeaderFixed
  <1>4. Unnamed' = Unnamed /\ Current' = Current
    BY UnnamedKept
  <1>5. Before # "end" /\ Before' # "end"
    BY <1>2, NodeIs DEF NodeFits
  <1>6. TypeOK'
    BY <1>1, <1>2, <1>3 DEF TypeOK, AnalysisInv
  <1>7. /\ Len(stack) \in Nat /\ Len(stack') \in Nat /\ Len(depths) \in Nat /\ Len(taken) \in Nat
        /\ \A i \in 1 .. Len(depths) : depths[i] \in Nat
        /\ DOMAIN taken = 1 .. Len(taken)
    BY <1>1, LenProperties, ElementOfSeq DEF TypeOK
  <1>8. Levels'
    <2>1. Opened(program, at)' = Len(depths)
      <3>1. Opened(program, at)' = Len(depths) + 0 - 0
        BY VisitedMeans
      <3> QED
        BY <1>7, <3>1
    <2>2. ASSUME NEW i \in 1 .. Len(depths) PROVE depths[i] <= Len(stack')
      <3>1. depths # <<>>
        BY <1>7
      <3>2. depths[i] <= Len(stack) /\ Len(stack') >= Len(stack) /\ depths[i] \in Nat
        BY <1>1, <1>7, <3>1 DEF Levels
      <3> QED
        BY <1>7, <3>2
    <2>3. \A i, j \in 1 .. Len(depths) : i <= j => depths[j] <= depths[i]
      BY <1>1 DEF Levels
    <2> QED
      BY <2>1, <2>2, <2>3 DEF Levels
  <1>9. Sides'
    BY <1>1, <1>2, <1>3, <1>4, <1>5 DEF Sides
  <1>10. Live' = Live
    BY DEF Live
  <1>11. \A i \in DOMAIN taken : ~taken[i] => machine' = machine
    BY DEF Live
  <1>12. Balance'
    <2>1. Live' => Deep(Settled, Len(stack))'
      BY <1>3, <1>4, <1>10 DEF Deep
    <2>2. ASSUME NEW i \in 1 .. Len(depths) PROVE Meets(i)'
      <3> SUFFICES ASSUME ~taken[i], \A j \in i + 1 .. Len(taken) : taken[j]
                   PROVE  Deep(machine, depths[i])'
        BY DEF Meets
      <3>1. Deep(machine, depths[i])
        BY <1>1 DEF Balance, Meets
      <3>2. i \in DOMAIN taken
        BY <1>1, <1>7 DEF Sides
      <3>3. machine' = machine
        BY <1>11, <3>2
      <3> QED
        BY <1>3, <1>4, <3>1, <3>3 DEF Deep
    <2>3. ASSUME Current > 0, Current < selected
          PROVE  Sized(machine', Contents', Len(stackCopy') + Len(Functions[selected])', 0)
      <3>1. taken[Len(taken)] = FALSE
        <4>1. taken[Len(taken)] = (Current = selected)
          BY <1>1, <1>5, <2>3 DEF Sides
        <4>2. Current # selected
          BY <2>3, NodeIs
        <4> QED
          BY <4>1, <4>2
      <3>2. Len(taken) \in DOMAIN taken
        BY <1>1, <1>7, <2>3 DEF Sides
      <3>3. machine' = machine
        BY <1>11, <3>1, <3>2
      <3>4. Sized(machine, Contents, Len(stackCopy) + Len(Functions[selected]), 0)
        BY <1>1, <1>5, <2>3 DEF Balance
      <3> QED
        BY <1>2, <1>3, <3>3, <3>4
    <2> QED
      BY <1>2, <1>4, <2>1, <2>2, <2>3 DEF Balance
  <1> QED
    BY <1>1, <1>2, <1>3, <1>6, <1>8, <1>9, <1>12 DEF GeneratorInv

-----------------------------------------------------------------------------
(* Statements.                                                             *)

LEMMA HistoryTypes ==
  ASSUME GeneratorInv, phase = "generate"
  PROVE  /\ usedSymbols \subseteq Names \X (0 .. header.maxNodes)
         /\ env \in [Names -> Contents] /\ lastRun \in Kinds
         /\ Means => lastRun' \in Kinds
         /\ \A names \in SUBSET Names :
              Uses(names) => usedSymbols' \subseteq Names \X (0 .. header.maxNodes)
         /\ \A names \in SUBSET Names :
              {<<n, DeclarationOf(n, at)>> : n \in names} \subseteq Names \X (0 .. header.maxNodes)
         /\ \A name \in Names, value \in Contents :
              Becomes(name, value) => env' \in [Names -> Contents]
  <1>1. /\ usedSymbols \subseteq Names \X (0 .. header.maxNodes)
        /\ env \in [Names -> Contents] /\ lastRun \in Kinds /\ AnalysisInv
    BY DEF GeneratorInv, TypeOK
  <1>2. Means => lastRun' \in Kinds
    BY <1>1, NodeIs DEF Means, AnyNode
  <1>3. \A name : DeclarationOf(name, at) \in 0 .. header.maxNodes
    BY <1>1, DeclarationType
  <1>4. \A names \in SUBSET Names :
          {<<n, DeclarationOf(n, at)>> : n \in names} \subseteq Names \X (0 .. header.maxNodes)
    BY <1>3
  <1>5. \A names \in SUBSET Names :
          Uses(names) => usedSymbols' \subseteq Names \X (0 .. header.maxNodes)
    <2> TAKE names \in SUBSET Names
    <2>1. names \ Inline \in SUBSET Names
      OBVIOUS
    <2>2. {<<n, DeclarationOf(n, at)>> : n \in names \ Inline}
            \subseteq Names \X (0 .. header.maxNodes)
      BY <1>4, <2>1
    <2> QED
      BY <1>1, <2>2 DEF Uses
  <1>6. \A name \in Names, value \in Contents :
          Becomes(name, value) => env' \in [Names -> Contents]
    BY <1>1 DEF Becomes
  <1> QED
    BY <1>1, <1>2, <1>4, <1>5, <1>6

\* An expression on the path, and what is executed behind it.
LEMMA CompiledIs ==
  ASSUME GeneratorInv, phase = "generate", NEW results \in Seq(Contents),
         NEW code, code = Expression(results), ~code.crashed
  PROVE  /\ code.stack \in Seq(Slots) /\ Len(code.stack) \in Nat
         /\ Len(results) \in Nat /\ Len(code.stack) >= Len(results)
         /\ \A i \in 1 .. Len(results) : code.stack[i] = Value
         /\ depths # <<>> => Len(code.stack) = Len(stack) + Len(results)
         /\ Live => Sized(Run(Settled, code.ops), Contents, Len(code.stack) + Unnamed, 0)
         /\ \A T, ops : ops \in Seq(T) =>
              Run(Settled, code.ops \o ops) = Run(Run(Settled, code.ops), ops)
  <1>1. header \in Headers /\ stack \in Seq(Slots) /\ Node.operands \in Seq(Names)
    BY NodeIs DEF GeneratorInv, TypeOK
  <1>2. IsCode(code) /\ Evaluated(code, Len(results))
    BY <1>1, ExpressionIs
  <1>3. PICK s, o, c : /\ code = [stack |-> s, ops |-> o, crashed |-> c]
                       /\ s \in Seq(Slots) /\ c \in BOOLEAN
                       /\ \E T : o \in Seq(T)
    BY <1>2 DEF IsCode
  <1>4. PICK U : code.ops \in Seq(U)
    BY <1>3
  <1>5. ASSUME Live PROVE Sized(Run(Settled, code.ops), Contents, Len(code.stack) + Unnamed, 0)
    <2>1. Unnamed \in Nat
      BY UnnamedIs
    <2>2. Sized(Settled, Contents, Len(stack) + Unnamed, 0)
      BY <1>5 DEF GeneratorInv, Balance, Deep
    <2> QED
      BY <1>2, <2>1, <2>2 DEF Evaluated
  <1>6. ASSUME NEW T, NEW ops, ops \in Seq(T)
        PROVE  Run(Settled, code.ops \o ops) = Run(Run(Settled, code.ops), ops)
    <2>1. U \subseteq U \cup T /\ T \subseteq U \cup T
      OBVIOUS
    <2>2. code.ops \in Seq(U \cup T) /\ ops \in Seq(U \cup T)
      BY <1>4, <1>6, <2>1, SeqMonotonic
    <2> QED
      BY <2>2, RunOfBoth
  <1>7. code.stack \in Seq(Slots) /\ Len(code.stack) \in Nat /\ Len(results) \in Nat
    BY <1>3, LenProperties
  <1> QED
    BY <1>2, <1>5, <1>6, <1>7 DEF Evaluated

LEMMA OneResultIs ==
  ASSUME GeneratorInv, phase = "generate", NEW code, code = OneResult, ~code.crashed
  PROVE  /\ code.stack \in Seq(Slots) /\ Len(code.stack) \in Nat \ {0} /\ code.stack[1] = Value
         /\ Tail(code.stack) \in Seq(Slots) /\ Len(Tail(code.stack)) = Len(code.stack) - 1
         /\ depths # <<>> => Len(code.stack) = Len(stack) + 1
         /\ Live => Sized(Run(Settled, code.ops), Contents, Len(code.stack) + Unnamed, 0)
         /\ \A T, ops : ops \in Seq(T) =>
              Run(Settled, code.ops \o ops) = Run(Run(Settled, code.ops), ops)
  <1>1. at \in Nat
    BY NodeIs
  <1>2. <<Computed(at)>> \in Seq(Contents) /\ Len(<<Computed(at)>>) = 1
    BY <1>1, MachineTypes
  <1>3. PICK results \in Seq(Contents) : results = <<Computed(at)>> /\ Len(results) = 1
    BY <1>2
  <1>4. code = Expression(results)
    BY <1>3 DEF OneResult
  <1>5. /\ code.stack \in Seq(Slots) /\ Len(code.stack) \in Nat
        /\ Len(code.stack) >= 1
        /\ \A i \in 1 .. 1 : code.stack[i] = Value
        /\ depths # <<>> => Len(code.stack) = Len(stack) + 1
        /\ Live => Sized(Run(Settled, code.ops), Contents, Len(code.stack) + Unnamed, 0)
        /\ \A T, ops : ops \in Seq(T) =>
             Run(Settled, code.ops \o ops) = Run(Run(Settled, code.ops), ops)
    BY <1>3, <1>4, CompiledIs
  <1>6. Tail(code.stack) \in Seq(Slots) /\ Len(Tail(code.stack)) = Len(code.stack) - 1
    <2>1. code.stack # <<>>
      BY <1>5
    <2> QED
      BY <1>5, <2>1, HeadTailProperties
  <1> QED
    BY <1>5, <1>6

LEMMA RunDrop ==
  ASSUME NEW S, NEW m, NEW n \in Nat, NEW k, Sized(m, S, 1 + n, k)
  PROVE  Sized(Run(m, <<<<"DROP">>>>), S, n, k)
  <1>1. PICK more \in Nat : more = 1 + n /\ more > 0 /\ more - 1 = n
    OBVIOUS
  <1>2. Sized(m, S, more, k)
    BY <1>1
  <1>3. Sized(Exec(m, <<"DROP">>), S, more - 1, k)
    BY <1>1, <1>2, ExecDrop
  <1> QED
    BY <1>1, <1>3, RunOfOne

\* A statement that leaves the machine with as many values more as the symbolic stack.
LEMMA CompileKeeps ==
  ASSUME GeneratorInv, phase = "generate",
         Node.kind \in {"define", "tuple", "assign", "require", "time"},
         NEW code, NEW ops, NEW newStack \in Seq(Slots), Compile(code, ops, newStack),
         depths # <<>> => Len(newStack) >= Len(stack),
         Live /\ verify' => Sized(Run(Settled, code.ops \o ops), Contents,
                                  1 + (Len(newStack) + Unnamed), 0),
         Live /\ ~verify' => Sized(Run(Settled, code.ops \o ops), Contents,
                                   Len(newStack) + Unnamed, 0),
         depths' = depths, taken' = taken, verify' \in BOOLEAN, env' \in [Names -> Contents],
         usedSymbols' \subseteq Names \X (0 .. header.maxNodes)
  PROVE  GeneratorInv'
  <1>1. /\ Visited /\ Execute(code.ops \o ops) /\ stack' = newStack /\ Means
        /\ stackCopy' = stackCopy
    BY DEF Compile
  <1>2. lastRun' \in Kinds
    BY <1>1, HistoryTypes
  <1>3. Live => machine' = Run(Settled, code.ops \o ops)
    BY <1>1 DEF Execute
  <1>4. ~Live => machine' = machine
    BY <1>1 DEF Execute
  <1>5. machine' \in Machines
    BY <1>3, <1>4, MachineTypes DEF GeneratorInv, TypeOK, Sized
  <1>6. ASSUME Live PROVE Sized(Settled', Contents, Len(stack') + Unnamed, 0)
    <2>1. Live'
      BY <1>6 DEF Live
    <2>2. Len(newStack) \in Nat /\ Unnamed \in Nat
      BY LenProperties, UnnamedIs
    <2>3. CASE verify'
      <3>1. Settled' = Run(machine', <<<<"DROP">>>>)
        BY <2>1, <2>3 DEF Settled
      <3>2. PICK m, n : m = machine' /\ n = Len(newStack) + Unnamed /\ n \in Nat
        BY <2>2
      <3>3. Sized(m, Contents, 1 + n, 0)
        BY <1>3, <1>6, <2>3, <3>2
      <3>4. Sized(Run(m, <<<<"DROP">>>>), Contents, n, 0)
        BY <3>2, <3>3, RunDrop
      <3> QED
        BY <1>1, <3>1, <3>2, <3>4
    <2>4. CASE ~verify'
      <3>1. Settled' = machine'
        BY <2>4 DEF Settled
      <3>2. Sized(machine', Contents, Len(newStack) + Unnamed, 0)
        BY <1>3, <1>6, <2>4
      <3> QED
        BY <1>1, <3>1, <3>2
    <2> QED
      BY <2>3, <2>4
  <1>7. Node.kind \notin {"if", "else", "endif", "function", "end"}
    OBVIOUS
  <1>8. stack' \in Seq(Slots) /\ (depths # <<>> => Len(stack') >= Len(stack))
    BY <1>1
  <1> QED
    BY <1>1, <1>2, <1>4, <1>5, <1>6, <1>7, <1>8, StraightKeeps

LEMMA DefinitionKeeps ==
  ASSUME GeneratorInv, phase = "generate", GenerateDefinition
  PROVE  GeneratorInv'
  <1>1. PICK code : code = OneResult
    OBVIOUS
  <1>2. /\ Node.kind = "define" /\ Compile(code, <<>>, Node.targets \o Tail(code.stack))
        /\ Uses(Range(Node.operands)) /\ Becomes(Node.targets[1], Computed(at))
        /\ verify' = FALSE /\ depths' = depths /\ taken' = taken
    BY <1>1 DEF GenerateDefinition
  <1>3. /\ code.stack \in Seq(Slots) /\ Len(code.stack) \in Nat \ {0}
        /\ Tail(code.stack) \in Seq(Slots) /\ Len(Tail(code.stack)) = Len(code.stack) - 1
        /\ depths # <<>> => Len(code.stack) = Len(stack) + 1
        /\ Live => Sized(Run(Settled, code.ops), Contents, Len(code.stack) + Unnamed, 0)
        /\ \A T, ops : ops \in Seq(T) =>
             Run(Settled, code.ops \o ops) = Run(Run(Settled, code.ops), ops)
    BY <1>1, <1>2, OneResultIs DEF Compile
  <1>4. Node.targets \in Seq(Names) /\ Len(Node.targets) = 1 /\ Node.operands \in Seq(Names)
        /\ at \in Nat
    BY <1>2, NodeIs DEF NodeFits
  <1>5. Node.targets[1] \in Names /\ Range(Node.operands) \in SUBSET Names
        /\ Computed(at) \in Contents
    BY <1>4, RangeOfSeq, ElementOfSeq, MachineTypes
  <1>6. PICK newStack \in Seq(Slots) :
          newStack = Node.targets \o Tail(code.stack) /\ Len(newStack) = Len(code.stack)
    <2>1. Node.targets \in Seq(Slots)
      BY <1>4, SeqMonotonic, MachineTypes
    <2>2. PICK a \in Seq(Slots), b \in Seq(Slots) : a = Node.targets /\ b = Tail(code.stack)
      BY <1>3, <2>1
    <2>3. a \o b \in Seq(Slots) /\ Len(a \o b) = Len(a) + Len(b)
      BY JoinedType
    <2>4. Len(a) = 1 /\ Len(b) = Len(code.stack) - 1
      BY <1>3, <1>4, <2>2
    <2>5. Len(a) + Len(b) = Len(code.stack)
      BY <1>3, <2>4
    <2> QED
      BY <2>2, <2>3, <2>5
  <1>7. Run(Settled, code.ops \o <<>>) = Run(Settled, code.ops)
    BY <1>3, RunOfNone, EmptySeq
  <1>8. Len(stack) \in Nat /\ Unnamed \in Nat
    BY LenProperties, UnnamedIs DEF GeneratorInv, TypeOK
  <1>9. depths # <<>> => Len(newStack) >= Len(stack)
    <2>1. ASSUME depths # <<>> PROVE Len(newStack) = Len(stack) + 1
      BY <1>3, <1>6, <2>1
    <2> QED
      BY <1>8, <2>1
  <1>11. usedSymbols' \subseteq Names \X (0 .. header.maxNodes) /\ env' \in [Names -> Contents]
    BY <1>2, <1>5, HistoryTypes
  <1>12. Compile(code, <<>>, newStack)
    BY <1>2, <1>6
  <1>13. Live => Sized(Run(Settled, code.ops \o <<>>), Contents, Len(newStack) + Unnamed, 0)
    BY <1>3, <1>6, <1>7
  <1> QED
    BY <1>2, <1>9, <1>11, <1>12, <1>13, CompileKeeps

LEMMA ReverseType ==
  ASSUME NEW S, NEW s \in Seq(S)
  PROVE  Reverse(s) \in Seq(S) /\ Len(Reverse(s)) = Len(s)
  <1>1. Len(s) \in Nat
    BY LenProperties
  <1>2. \A i \in 1 .. Len(s) : s[Len(s) - i + 1] \in S
    <2> TAKE i \in 1 .. Len(s)
    <2>1. Len(s) - i + 1 \in 1 .. Len(s)
      BY <1>1
    <2> QED
      BY <2>1, ElementOfSeq
  <1>3. Reverse(s) = [i \in 1 .. Len(s) |-> s[Len(s) - i + 1]]
    BY DEF Reverse
  <1> QED
    BY <1>1, <1>2, <1>3

LEMMA TupleAssignmentKeeps ==
  ASSUME GeneratorInv, phase = "generate", GenerateTupleAssignment
  PROVE  GeneratorInv'
  <1>1. PICK code, results : /\ code = Expression(results)
                             /\ results = <<ComputedToo(at), Computed(at)>>
    OBVIOUS
  <1>2. /\ Node.kind = "tuple" /\ Compile(code, <<>>, TupleSlots \o From(code.stack, 2))
        /\ Uses(Range(Node.operands))
        /\ env' = IF Live THEN [env EXCEPT ![Node.targets[1]] = Computed(at),
                                           ![Node.targets[2]] = ComputedToo(at)] ELSE env
        /\ verify' = FALSE /\ depths' = depths /\ taken' = taken
    BY <1>1 DEF GenerateTupleAssignment
  <1>3. at \in Nat /\ Node.targets \in Seq(Names) /\ Len(Node.targets) = 2
        /\ Node.operands \in Seq(Names)
    BY <1>2, NodeIs DEF NodeFits
  <1>4. results \in Seq(Contents) /\ Len(results) = 2
    <2>1. Computed(at) \in Contents /\ ComputedToo(at) \in Contents
      BY <1>3, MachineTypes
    <2> QED
      BY <1>1, <2>1
  <1>5. /\ code.stack \in Seq(Slots) /\ Len(code.stack) \in Nat /\ Len(code.stack) >= 2
        /\ depths # <<>> => Len(code.stack) = Len(stack) + 2
        /\ Live => Sized(Run(Settled, code.ops), Contents, Len(code.stack) + Unnamed, 0)
        /\ \A T, ops : ops \in Seq(T) =>
             Run(Settled, code.ops \o ops) = Run(Run(Settled, code.ops), ops)
    <2>1. code = Expression(results) /\ ~code.crashed
      BY <1>1, <1>2 DEF Compile
    <2>2. /\ code.stack \in Seq(Slots) /\ Len(code.stack) \in Nat
          /\ Len(code.stack) >= Len(results)
          /\ depths # <<>> => Len(code.stack) = Len(stack) + Len(results)
          /\ Live => Sized(Run(Settled, code.ops), Contents, Len(code.stack) + Unnamed, 0)
          /\ \A T, ops : ops \in Seq(T) =>
               Run(Settled, code.ops \o ops) = Run(Run(Settled, code.ops), ops)
      BY ONLY GeneratorInv, phase = "generate", <1>4, <2>1, CompiledIs
    <2> QED
      BY <1>4, <2>2
  <1>6. Range(Node.operands) \in SUBSET Names
    BY <1>3, RangeOfSeq
  <1>7. env' \in [Names -> Contents]
    <2>1. Computed(at) \in Contents /\ ComputedToo(at) \in Contents
      BY <1>3, MachineTypes
    <2> QED
      BY <1>2, <2>1, HistoryTypes
  <1>8. PICK newStack \in Seq(Slots) :
          newStack = TupleSlots \o From(code.stack, 2) /\ Len(newStack) = Len(code.stack)
    <2>1. TupleSlots \in Seq(Slots) /\ Len(TupleSlots) = 2
      BY <1>3, SeqMonotonic, MachineTypes, ReverseType DEF TupleSlots
    <2>2. From(code.stack, 2) \in Seq(Slots) /\ Len(From(code.stack, 2)) = Len(code.stack) - 2
      BY <1>5, FromType
    <2>3. PICK a \in Seq(Slots), b \in Seq(Slots) : a = TupleSlots /\ b = From(code.stack, 2)
      BY <2>1, <2>2
    <2>4. a \o b \in Seq(Slots) /\ Len(a \o b) = Len(a) + Len(b)
      BY JoinedType
    <2>5. Len(a) = 2 /\ Len(b) = Len(code.stack) - 2
      BY <2>1, <2>2, <2>3
    <2>6. Len(a) + Len(b) = Len(code.stack)
      BY <1>5, <2>5
    <2> QED
      BY <2>3, <2>4, <2>6
  <1>9. Run(Settled, code.ops \o <<>>) = Run(Settled, code.ops)
    BY <1>5, RunOfNone, EmptySeq
  <1>10. Len(stack) \in Nat /\ Unnamed \in Nat
    BY LenProperties, UnnamedIs DEF GeneratorInv, TypeOK
  <1>11. depths # <<>> => Len(newStack) >= Len(stack)
    <2>1. ASSUME depths # <<>> PROVE Len(newStack) = Len(stack) + 2
      BY <1>5, <1>8, <2>1
    <2> QED
      BY <1>10, <2>1
  <1>13. usedSymbols' \subseteq Names \X (0 .. header.maxNodes)
    BY <1>2, <1>6, HistoryTypes
  <1>14. Compile(code, <<>>, newStack)
    BY <1>2, <1>8
  <1>15. Live => Sized(Run(Settled, code.ops \o <<>>), Contents, Len(newStack) + Unnamed, 0)
    BY <1>5, <1>8, <1>9
  <1> QED
    BY <1>2, <1>7, <1>11, <1>13, <1>14, <1>15, CompileKeeps

LEMMA EmitReplaceType ==
  ASSUME NEW index \in Nat
  PROVE  \E T : EmitReplace(index) \in Seq(T)
  <1> DEFINE T == {<<"ROLL", index>>, <<"DROP">>, <<"SWAP">>, <<"TOALTSTACK">>, <<"FROMALTSTACK">>}
             remove == <<<<"ROLL", index>>, <<"DROP">>>>
             aside  == InTurn(index - 2, <<"SWAP">>, <<"TOALTSTACK">>)
             swap   == <<<<"SWAP">>>>
             back   == Times(index - 2, <<"FROMALTSTACK">>)
  <1>1. remove \in Seq(T) /\ swap \in Seq(T) /\ <<>> \in Seq(T)
    OBVIOUS
  <1>2. index >= 2 => aside \in Seq(T) /\ back \in Seq(T)
    <2> SUFFICES ASSUME index >= 2 PROVE aside \in Seq(T) /\ back \in Seq(T)
      OBVIOUS
    <2>1. index - 2 \in Nat
      OBVIOUS
    <2>2. aside \in Seq({<<"SWAP">>, <<"TOALTSTACK">>}) /\ back \in Seq({<<"FROMALTSTACK">>})
      BY <2>1, InTurnMore, TimesMore
    <2>3. {<<"SWAP">>, <<"TOALTSTACK">>} \subseteq T /\ {<<"FROMALTSTACK">>} \subseteq T
      OBVIOUS
    <2> HIDE DEF T, aside, back
    <2>4. PICK A, B : A = {<<"SWAP">>, <<"TOALTSTACK">>} /\ B = {<<"FROMALTSTACK">>}
      OBVIOUS
    <2>5. Seq(A) \subseteq Seq(T) /\ Seq(B) \subseteq Seq(T)
      BY <2>3, <2>4, SeqMonotonic
    <2> QED
      BY <2>2, <2>4, <2>5
  <1>3. EmitReplace(index) = remove \o (IF index < 2 THEN <<>> ELSE aside \o swap \o back)
    BY DEF EmitReplace
  <1> HIDE DEF T, remove, aside, swap, back
  <1>4. index >= 2 => aside \o swap \o back \in Seq(T)
    BY <1>1, <1>2, ConcatProperties
  <1>5. (IF index < 2 THEN <<>> ELSE aside \o swap \o back) \in Seq(T)
    BY <1>1, <1>4
  <1>6. EmitReplace(index) \in Seq(T)
    BY <1>1, <1>3, <1>5, ConcatProperties
  <1> QED
    BY <1>6

LEMMA AssignKeeps ==
  ASSUME GeneratorInv, phase = "generate", GenerateAssign
  PROVE  GeneratorInv'
  <1>1. PICK code, name, index : /\ code = OneResult /\ name = Node.targets[1]
                                /\ index = StackIndex(code.stack, name)
    OBVIOUS
  <1>2. /\ Node.kind = "assign"
        /\ \/ /\ Replaces(name) /\ index >= 0
              /\ Compile(code, EmitReplace(index), Tail(code.stack))
           \/ /\ ~Replaces(name)
              /\ Compile(code, <<>>, <<name>> \o Tail(code.stack))
        /\ usedSymbols' = usedSymbols \cup
             {<<n, DeclarationOf(n, at)>> : n \in (Range(Node.operands) \ Inline) \cup {name}}
        /\ Becomes(name, Computed(at))
        /\ verify' = FALSE /\ depths' = depths /\ taken' = taken
    BY <1>1 DEF GenerateAssign
  <1>3. /\ Node.targets \in Seq(Names) /\ Len(Node.targets) = 1 /\ Node.operands \in Seq(Names)
        /\ at \in Nat /\ header \in Headers
    BY <1>2, NodeIs DEF NodeFits
  <1>4. name \in Names /\ Range(Node.operands) \in SUBSET Names /\ Computed(at) \in Contents
    BY <1>1, <1>3, RangeOfSeq, ElementOfSeq, MachineTypes
  <1>5. usedSymbols' \subseteq Names \X (0 .. header.maxNodes) /\ env' \in [Names -> Contents]
    <2>1. PICK names \in SUBSET Names : names = (Range(Node.operands) \ Inline) \cup {name}
      BY <1>4
    <2>2. {<<n, DeclarationOf(n, at)>> : n \in names} \subseteq Names \X (0 .. header.maxNodes)
      BY HistoryTypes
    <2> QED
      BY <1>2, <1>4, <2>1, <2>2, HistoryTypes
  <1>6. /\ code.stack \in Seq(Slots) /\ Len(code.stack) \in Nat \ {0} /\ code.stack[1] = Value
        /\ Tail(code.stack) \in Seq(Slots) /\ Len(Tail(code.stack)) = Len(code.stack) - 1
        /\ depths # <<>> => Len(code.stack) = Len(stack) + 1
        /\ Live => Sized(Run(Settled, code.ops), Contents, Len(code.stack) + Unnamed, 0)
        /\ \A T, ops : ops \in Seq(T) =>
             Run(Settled, code.ops \o ops) = Run(Run(Settled, code.ops), ops)
    BY <1>1, <1>2, OneResultIs DEF Compile
  <1>7. Len(stack) \in Nat /\ Unnamed \in Nat
    BY LenProperties, UnnamedIs DEF GeneratorInv, TypeOK
  <1>8. ASSUME Replaces(name), index >= 0, Compile(code, EmitReplace(index), Tail(code.stack))
        PROVE  GeneratorInv'
    <2>1. PICK rest \in Seq(Slots) : rest = Tail(code.stack) /\ Len(rest) = Len(code.stack) - 1
      BY <1>6
    <2>2. index \in Nat \ {0} /\ index < Len(code.stack)
      <3>1. index \in -1 .. Len(code.stack) - 1 /\ code.stack[index + 1] = name
        BY <1>1, <1>6, <1>8, StackIndexIs
      <3>2. name # Value
        BY <1>3, <1>4, NamesAreNoMarks
      <3>3. index # 0
        BY <1>6, <3>1, <3>2
      <3> QED
        BY <1>6, <1>8, <3>1, <3>3
    <2>3. depths # <<>> => Len(rest) >= Len(stack)
      <3>1. ASSUME depths # <<>> PROVE Len(rest) = Len(stack)
        <4>1. Len(code.stack) = Len(stack) + 1
          BY <1>6, <3>1
        <4> QED
          BY <1>7, <2>1, <4>1
      <3> QED
        BY <1>7, <3>1
    <2>4. ASSUME Live
          PROVE  Sized(Run(Settled, code.ops \o EmitReplace(index)), Contents, Len(rest) + Unnamed, 0)
      <3>1. Run(Settled, code.ops \o EmitReplace(index)) =
              Run(Run(Settled, code.ops), EmitReplace(index))
        BY <1>6, <2>2, EmitReplaceType
      <3>2. PICK n \in Nat : n = Len(code.stack) + Unnamed /\ index < n /\ n - 1 = Len(rest) + Unnamed
        BY <1>6, <1>7, <2>1, <2>2
      <3>3. Sized(Run(Settled, code.ops), Contents, n, 0)
        BY <1>6, <2>4, <3>2
      <3>4. Sized(Run(Run(Settled, code.ops), EmitReplace(index)), Contents, n - 1, 0)
        BY <2>2, <3>2, <3>3, MachineTypes, RunReplace
      <3> QED
        BY <3>1, <3>2, <3>4
    <2>5. Compile(code, EmitReplace(index), rest)
      BY <1>8, <2>1
    <2> QED
      BY <1>2, <1>5, <2>3, <2>4, <2>5, CompileKeeps
  <1>9. ASSUME Compile(code, <<>>, <<name>> \o Tail(code.stack)) PROVE GeneratorInv'
    <2>1. PICK newStack \in Seq(Slots) :
            newStack = <<name>> \o Tail(code.stack) /\ Len(newStack) = Len(code.stack)
      <3>1. PICK rest \in Seq(Slots) : rest = Tail(code.stack) /\ Len(rest) = Len(code.stack) - 1
        BY <1>6
      <3>2. name \in Slots
        BY <1>4, MachineTypes
      <3>3. <<name>> \o rest \in Seq(Slots) /\ Len(<<name>> \o rest) = 1 + Len(rest)
        BY <3>2, PushedType
      <3>4. 1 + Len(rest) = Len(code.stack)
        BY <1>6, <3>1
      <3> QED
        BY <3>1, <3>3, <3>4
    <2>2. depths # <<>> => Len(newStack) >= Len(stack)
      <3>1. ASSUME depths # <<>> PROVE Len(newStack) = Len(stack) + 1
        BY <1>6, <2>1, <3>1
      <3> QED
        BY <1>7, <3>1
    <2>3. Run(Settled, code.ops \o <<>>) = Run(Settled, code.ops)
      BY <1>6, RunOfNone, EmptySeq
    <2>4. Live => Sized(Run(Settled, code.ops \o <<>>), Contents, Len(newStack) + Unnamed, 0)
      BY <1>6, <2>1, <2>3
    <2>5. Compile(code, <<>>, newStack)
      BY <1>9, <2>1
    <2> QED
      BY <1>2, <1>5, <2>2, <2>4, <2>5, CompileKeeps
  <1> QED
    BY <1>2, <1>8, <1>9

LEMMA RequireKeeps ==
  ASSUME GeneratorInv, phase = "generate", GenerateRequire \/ GenerateTimeOp
  PROVE  GeneratorInv'
  <1>1. PICK code : code = OneResult
    OBVIOUS
  <1>2. /\ \/ /\ Node.kind = "require" /\ Compile(code, <<>>, Tail(code.stack))
              /\ verify' = TRUE
           \/ /\ Node.kind = "time" /\ Compile(code, <<<<"DROP">>>>, Tail(code.stack))
              /\ verify' = FALSE
        /\ Uses(Range(Node.operands)) /\ depths' = depths /\ taken' = taken /\ env' = env
    BY <1>1 DEF GenerateRequire, GenerateTimeOp
  <1>3. /\ code.stack \in Seq(Slots) /\ Len(code.stack) \in Nat \ {0}
        /\ Tail(code.stack) \in Seq(Slots) /\ Len(Tail(code.stack)) = Len(code.stack) - 1
        /\ depths # <<>> => Len(code.stack) = Len(stack) + 1
        /\ Live => Sized(Run(Settled, code.ops), Contents, Len(code.stack) + Unnamed, 0)
        /\ \A T, ops : ops \in Seq(T) =>
             Run(Settled, code.ops \o ops) = Run(Run(Settled, code.ops), ops)
    BY <1>1, <1>2, OneResultIs DEF Compile
  <1>4. usedSymbols' \subseteq Names \X (0 .. header.maxNodes) /\ env' \in [Names -> Contents]
    <2>1. Range(Node.operands) \in SUBSET Names
      BY NodeIs, RangeOfSeq
    <2> QED
      BY <1>2, <2>1, HistoryTypes
  <1>5. Len(stack) \in Nat /\ Unnamed \in Nat
    BY LenProperties, UnnamedIs DEF GeneratorInv, TypeOK
  <1>6. PICK rest \in Seq(Slots) : rest = Tail(code.stack) /\ Len(rest) = Len(code.stack) - 1
    BY <1>3
  <1>7. depths # <<>> => Len(rest) >= Len(stack)
    <2>1. ASSUME depths # <<>> PROVE Len(rest) = Len(stack)
      <3>1. Len(code.stack) = Len(stack) + 1
        BY <1>3, <2>1
      <3> QED
        BY <1>5, <1>6, <3>1
    <2> QED
      BY <1>5, <2>1
  <1>8. PICK n \in Nat : n = Len(rest) + Unnamed /\ 1 + n = Len(code.stack) + Unnamed
    <2>1. PICK d \in Nat \ {0}, u \in Nat : d = Len(code.stack) /\ u = Unnamed
      BY <1>3, <1>5
    <2>2. Len(rest) = d - 1 /\ (d - 1) + u \in Nat /\ 1 + ((d - 1) + u) = d + u
      BY <1>6, <2>1
    <2> QED
      BY <2>1, <2>2
  <1>9. Live => Sized(Run(Settled, code.ops), Contents, 1 + n, 0)
    BY <1>3, <1>8
  <1>10. ASSUME Node.kind = "require", Compile(code, <<>>, rest), verify' = TRUE
         PROVE  GeneratorInv'
    <2>1. Run(Settled, code.ops \o <<>>) = Run(Settled, code.ops)
      BY <1>3, RunOfNone, EmptySeq
    <2>2. Live => Sized(Run(Settled, code.ops \o <<>>), Contents, 1 + (Len(rest) + Unnamed), 0)
      BY <1>8, <1>9, <2>1
    <2> QED
      BY <1>2, <1>4, <1>7, <1>10, <2>2, CompileKeeps
  <1>11. ASSUME Node.kind = "time", Compile(code, <<<<"DROP">>>>, rest), verify' = FALSE
         PROVE  GeneratorInv'
    <2>1. <<<<"DROP">>>> \in Seq({<<"DROP">>})
      OBVIOUS
    <2>2. Run(Settled, code.ops \o <<<<"DROP">>>>) = Run(Run(Settled, code.ops), <<<<"DROP">>>>)
      BY <1>3, <2>1
    <2>3. Live => Sized(Run(Run(Settled, code.ops), <<<<"DROP">>>>), Contents, n, 0)
      BY <1>9, RunDrop
    <2>4. Live => Sized(Run(Settled, code.ops \o <<<<"DROP">>>>), Contents, Len(rest) + Unnamed, 0)
      BY <1>8, <2>2, <2>3
    <2> QED
      BY <1>2, <1>4, <1>7, <1>11, <2>4, CompileKeeps
  <1> QED
    BY <1>2, <1>6, <1>10, <1>11

LEMMA UnsetKeeps ==
  ASSUME GeneratorInv, phase = "generate", GenerateUnset
  PROVE  GeneratorInv'
  <1>1. PICK index : index = StackIndex(stack, Node.targets[1])
    OBVIOUS
  <1>2. /\ Node.kind = "unset" /\ index >= 0 /\ Visited /\ Execute(UnsetSlot(index))
        /\ stack' = Without(stack, index) /\ verify' = FALSE
        /\ UNCHANGED <<stackCopy, depths, usedSymbols, taken, env, meant, lastRun>>
    BY <1>1 DEF GenerateUnset
  <1>3. stack \in Seq(Slots) /\ Len(stack) \in Nat /\ Unnamed \in Nat /\ machine \in Machines
    BY LenProperties, UnnamedIs DEF GeneratorInv, TypeOK
  <1>4. index \in Nat /\ index < Len(stack)
    BY <1>1, <1>2, <1>3, StackIndexIs
  <1>5. stack' \in Seq(Slots) /\ Len(stack') = Len(stack) - 1
    BY <1>2, <1>3, <1>4, WithoutType
  <1>6. depths = <<>>
    <2>1. Len(depths) = 0 /\ depths \in Seq(Nat)
      BY <1>2, NodeIs DEF NodeFits, GeneratorInv, TypeOK
    <2> QED
      BY <2>1
  <1>7. ASSUME Live
        PROVE  Sized(machine', Contents, Len(stack') + Unnamed, 0) /\ Settled' = machine'
    <2>1. machine' = Exec(Exec(Settled, <<"ROLL", index>>), <<"DROP">>)
      BY <1>2, <1>7, RunOfTwo DEF Execute, UnsetSlot
    <2>2. Sized(Settled, Contents, Len(stack) + Unnamed, 0)
      BY <1>7 DEF GeneratorInv, Balance, Deep
    <2>3. PICK n \in Nat : /\ n = Len(stack) + Unnamed /\ index < n /\ n > 0
                           /\ n - 1 = Len(stack') + Unnamed
      BY <1>3, <1>4, <1>5
    <2>4. Sized(Exec(Settled, <<"ROLL", index>>), Contents, n, 0)
      BY <1>4, <2>2, <2>3, MachineTypes, ExecRoll
    <2>5. Sized(Exec(Exec(Settled, <<"ROLL", index>>), <<"DROP">>), Contents, n - 1, 0)
      <3>1. PICK m : m = Exec(Settled, <<"ROLL", index>>)
        OBVIOUS
      <3>2. Sized(Exec(m, <<"DROP">>), Contents, n - 1, 0)
        BY <2>3, <2>4, <3>1, ExecDrop
      <3> QED
        BY <3>1, <3>2
    <2>6. Settled' = machine'
      BY <1>2 DEF Settled
    <2> QED
      BY <2>1, <2>3, <2>5, <2>6
  <1>8. ~Live => machine' = machine
    BY <1>2 DEF Execute
  <1>9. machine' \in Machines
    BY <1>3, <1>7, <1>8, MachineTypes DEF Sized
  <1>10. /\ usedSymbols' \subseteq Names \X (0 .. header.maxNodes)
         /\ env' \in [Names -> Contents] /\ lastRun' \in Kinds
    BY <1>2, HistoryTypes
  <1> QED
    BY <1>2, <1>5, <1>6, <1>7, <1>8, <1>9, <1>10, StraightKeeps

-----------------------------------------------------------------------------
(* The end of the state script.                                            *)

\* The function Kept recurses on.
KeptNext(before, slots, k) == before \o (IF Dropped(k) THEN <<>> ELSE <<slots[k]>>)

AreKept(kept, slots) ==
  kept = [k \in 0 .. Len(slots) |-> IF k = 0 THEN <<>> ELSE KeptNext(kept[k - 1], slots, k)]

LEMMA KeptExist ==
  ASSUME NEW S, NEW slots \in Seq(S)
  PROVE  \E kept : AreKept(kept, slots)
  <1> DEFINE UpTo(kept, k) ==
               kept = [n \in 0 .. k |->
                         IF n = 0 THEN <<>> ELSE KeptNext(kept[n - 1], slots, n)]
             D == {k \in Nat : \E kept : UpTo(kept, k)}
  <1>1. 0 \in D
    <2>1. UpTo([n \in 0 .. 0 |-> <<>>], 0)
      OBVIOUS
    <2> QED
      BY <2>1
  <1>2. ASSUME NEW k \in Nat, k \in D PROVE k + 1 \in D
    <2>1. PICK shorter : UpTo(shorter, k)
      BY <1>2
    <2> DEFINE longer == [n \in 0 .. k + 1 |->
                            IF n = k + 1 THEN KeptNext(shorter[k], slots, k + 1)
                                         ELSE shorter[n]]
    <2>2. UpTo(longer, k + 1)
      BY <2>1
    <2>3. \E kept : UpTo(kept, k + 1)
      <3> HIDE DEF UpTo, longer
      <3> QED
        BY <2>2
    <2>4. k + 1 \in Nat
      OBVIOUS
    <2> HIDE DEF UpTo
    <2> QED
      BY <2>3, <2>4
  <1>3. \A k \in Nat : k \in D
    <2> HIDE DEF D
    <2> QED
      BY <1>1, <1>2, InductionOnSet
  <1>4. Len(slots) \in D
    BY <1>3, LenProperties
  <1> QED
    BY <1>4 DEF AreKept

LEMMA KeptSteps ==
  ASSUME NEW kept, NEW slots, NEW n \in Nat, n = Len(slots), AreKept(kept, slots)
  PROVE  /\ kept[0] = <<>>
         /\ \A k \in 1 .. n : kept[k] = KeptNext(kept[k - 1], slots, k)
  <1> DEFINE step(k) == IF k = 0 THEN <<>> ELSE KeptNext(kept[k - 1], slots, k)
  <1>1. kept = [k \in 0 .. n |-> step(k)]
    BY DEF AreKept
  <1> HIDE DEF step
  <1>2. \A k \in 0 .. n : kept[k] = step(k)
    BY <1>1
  <1>3. step(0) = <<>> /\ \A k \in 1 .. n : step(k) = KeptNext(kept[k - 1], slots, k)
    BY DEF step
  <1>4. 0 \in 0 .. n /\ \A k \in 1 .. n : k \in 0 .. n
    OBVIOUS
  <1> QED
    BY <1>2, <1>3, <1>4

\* The same slots leave both stacks, so the lower one keeps what it has more.
LEMMA KeptTogether ==
  ASSUME stack \in Seq(Slots), NEW T, NEW lower \in Seq(T),
         NEW more \in Nat, Len(lower) = Len(stack) + more
  PROVE  /\ Kept(stack) \in Seq(Slots) /\ Kept(lower) \in Seq(T)
         /\ Len(Kept(lower)) = Len(Kept(stack)) + more
  <1>1. PICK f : AreKept(f, stack) /\ Kept(stack) = f[Len(stack)]
    <2>1. \E f : AreKept(f, stack) /\ Kept(stack) = f[Len(stack)]
      BY KeptExist DEF AreKept, Kept, KeptNext
    <2> QED
      BY <2>1
  <1>2. PICK g : AreKept(g, lower) /\ Kept(lower) = g[Len(lower)]
    <2>1. \E g : AreKept(g, lower) /\ Kept(lower) = g[Len(lower)]
      BY KeptExist DEF AreKept, Kept, KeptNext
    <2> QED
      BY <2>1
  <1>3. PICK n \in Nat : n = Len(stack) /\ Len(lower) = n + more
    BY LenProperties
  <1>4. /\ f[0] = <<>>
        /\ \A k \in 1 .. n : f[k] = KeptNext(f[k - 1], stack, k)
    BY <1>1, <1>3, KeptSteps
  <1>5. /\ g[0] = <<>>
        /\ \A k \in 1 .. n + more : g[k] = KeptNext(g[k - 1], lower, k)
    <2>1. PICK d \in Nat : d = n + more /\ d = Len(lower)
      BY <1>3
    <2>2. g[0] = <<>> /\ \A k \in 1 .. d : g[k] = KeptNext(g[k - 1], lower, k)
      BY <1>2, <2>1, KeptSteps
    <2> QED
      BY <2>1, <2>2
  <1> DEFINE D == {k \in Nat : k <= n => f[k] \in Seq(Slots) /\ g[k] \in Seq(T) /\ Len(g[k]) = Len(f[k])}
             E == {k \in Nat : k <= more => g[n + k] \in Seq(T) /\ Len(g[n + k]) = Len(f[n]) + k}
  <1>6. 0 \in D
    <2>1. f[0] \in Seq(Slots) /\ g[0] \in Seq(T) /\ Len(g[0]) = Len(f[0])
      BY <1>4, <1>5, EmptySeq
    <2> QED
      BY <2>1
  <1>7. ASSUME NEW k \in Nat, k \in D PROVE k + 1 \in D
    <2> SUFFICES ASSUME k + 1 <= n
                 PROVE  /\ f[k + 1] \in Seq(Slots) /\ g[k + 1] \in Seq(T)
                        /\ Len(g[k + 1]) = Len(f[k + 1])
      OBVIOUS
    <2>1. f[k] \in Seq(Slots) /\ g[k] \in Seq(T) /\ Len(g[k]) = Len(f[k])
      BY <1>7
    <2>2. <<stack[k + 1]>> \in Seq(Slots) /\ <<lower[k + 1]>> \in Seq(T)
      BY <1>3, ElementOfSeq
    <2>3. f[k + 1] = KeptNext(f[k], stack, k + 1) /\ g[k + 1] = KeptNext(g[k], lower, k + 1)
      <3>1. PICK i \in 1 .. n : i = k + 1 /\ i - 1 = k /\ i \in 1 .. n + more
        OBVIOUS
      <3> QED
        BY <1>4, <1>5, <3>1
    <2>4. PICK a \in Seq(Slots), b \in Seq(T) :
            f[k + 1] = f[k] \o a /\ g[k + 1] = g[k] \o b /\ Len(a) = Len(b)
      <3>1. CASE Dropped(k + 1)
        <4>1. f[k + 1] = f[k] \o <<>> /\ g[k + 1] = g[k] \o <<>>
          BY <2>3, <3>1 DEF KeptNext
        <4> QED
          BY <4>1, EmptySeq
      <3>2. CASE ~Dropped(k + 1)
        <4>1. f[k + 1] = f[k] \o <<stack[k + 1]>> /\ g[k + 1] = g[k] \o <<lower[k + 1]>>
          BY <2>3, <3>2 DEF KeptNext
        <4>2. Len(<<stack[k + 1]>>) = Len(<<lower[k + 1]>>)
          OBVIOUS
        <4> QED
          BY <2>2, <4>1, <4>2
      <3> QED
        BY <3>1, <3>2
    <2>5. f[k] \o a \in Seq(Slots) /\ Len(f[k] \o a) = Len(f[k]) + Len(a)
      BY <2>1, ConcatProperties
    <2>6. g[k] \o b \in Seq(T) /\ Len(g[k] \o b) = Len(g[k]) + Len(b)
      BY <2>1, ConcatProperties
    <2> QED
      BY <2>1, <2>4, <2>5, <2>6
  <1>8. \A k \in Nat : k \in D
    <2> HIDE DEF D
    <2> QED
      BY <1>6, <1>7, InductionOnSet
  <1>9. f[n] \in Seq(Slots) /\ g[n] \in Seq(T) /\ Len(g[n]) = Len(f[n]) /\ Len(f[n]) \in Nat
    BY <1>8, LenProperties
  <1>10. 0 \in E
    BY <1>9
  <1>11. ASSUME NEW k \in Nat, k \in E, k + 1 <= more
         PROVE  g[n + (k + 1)] \in Seq(T) /\ Len(g[n + (k + 1)]) = Len(f[n]) + (k + 1)
    <2>1. g[n + k] \in Seq(T) /\ Len(g[n + k]) = Len(f[n]) + k
      BY <1>11
    <2>2. PICK i \in 1 .. n + more : i = n + (k + 1) /\ i - 1 = n + k /\ i > n
      <3>1. PICK i \in Nat : i = n + (k + 1)
        OBVIOUS
      <3>2. i \in 1 .. n + more /\ i - 1 = n + k /\ i > n
        BY <1>11, <3>1
      <3> QED
        BY <3>1, <3>2
    <2>3. ~Dropped(i)
      BY <1>3, <2>2 DEF Dropped
    <2>4. g[i] = g[n + k] \o <<lower[i]>>
      <3>1. g[i] = KeptNext(g[i - 1], lower, i)
        BY <1>5
      <3> QED
        BY <2>2, <2>3, <3>1 DEF KeptNext
    <2>5. <<lower[i]>> \in Seq(T) /\ Len(<<lower[i]>>) = 1
      BY <1>3, <2>2, ElementOfSeq
    <2>6. PICK a \in Seq(T), b \in Seq(T) : a = g[n + k] /\ b = <<lower[i]>>
      BY <2>1, <2>5
    <2>7. a \o b \in Seq(T) /\ Len(a \o b) = Len(a) + Len(b)
      BY ConcatProperties
    <2>8. Len(a) + Len(b) = Len(f[n]) + (k + 1)
      <3>1. PICK d \in Nat : d = Len(f[n])
        BY <1>9
      <3>2. Len(a) = d + k /\ Len(b) = 1
        BY <2>1, <2>5, <2>6, <3>1
      <3>3. (d + k) + 1 = d + (k + 1)
        OBVIOUS
      <3> QED
        BY <3>1, <3>2, <3>3
    <2>9. g[n + (k + 1)] = a \o b
      BY <2>2, <2>4, <2>6
    <2> QED
      BY <2>7, <2>8, <2>9
  <1>14. ASSUME NEW k \in Nat, k \in E PROVE k + 1 \in E
    <2>1. k + 1 \in Nat
      OBVIOUS
    <2> QED
      BY <1>11, <1>14, <2>1
  <1>12. \A k \in Nat : k \in E
    <2> HIDE DEF E
    <2> QED
      BY <1>10, <1>14, InductionOnSet
  <1>13. g[n + more] \in Seq(T) /\ Len(g[n + more]) = Len(f[n]) + more
    BY <1>12
  <1> QED
    BY <1>1, <1>2, <1>3, <1>9, <1>13

LEMMA StateSeparatorKeeps ==
  ASSUME GeneratorInv, phase = "generate", GenerateStateSeparator
  PROVE  GeneratorInv'
  <1>1. /\ Node.kind = "separator" /\ Visited
        /\ machine' = [Settled EXCEPT !.main = Kept(Settled.main)]
        /\ stack' = Kept(stack) /\ verify' = FALSE
        /\ UNCHANGED <<stackCopy, depths, usedSymbols, taken, env, meant, lastRun>>
    BY DEF GenerateStateSeparator
  <1>2. stack \in Seq(Slots) /\ Len(stack) \in Nat /\ Unnamed \in Nat
    BY LenProperties, UnnamedIs DEF GeneratorInv, TypeOK
  <1>3. depths = <<>> /\ taken = <<>>
    <2>1. Len(depths) = 0 /\ depths \in Seq(Nat) /\ taken \in Seq(BOOLEAN) /\ Current = 0
      BY <1>1, NodeIs DEF NodeFits, GeneratorInv, TypeOK
    <2>2. Len(taken) = 0
      BY <2>1 DEF GeneratorInv, Sides
    <2> QED
      BY <2>1, <2>2
  <1>4. Live
    BY <1>3 DEF Live
  <1>5. Sized(Settled, Contents, Len(stack) + Unnamed, 0)
    BY <1>4 DEF GeneratorInv, Balance, Deep
  <1>6. Settled.main \in Seq(Contents) /\ Len(Settled.main) = Len(stack) + Unnamed
        /\ Settled \in MachinesOf(Contents)
    BY <1>5 DEF Sized, MachinesOf
  <1>7. /\ Kept(stack) \in Seq(Slots) /\ Kept(Settled.main) \in Seq(Contents)
        /\ Len(Kept(Settled.main)) = Len(Kept(stack)) + Unnamed
    <2>1. PICK lower \in Seq(Contents), more \in Nat : lower = Settled.main /\ more = Unnamed
      BY <1>2, <1>6
    <2>2. Len(lower) = Len(stack) + more
      BY <1>6, <2>1
    <2>3. /\ Kept(stack) \in Seq(Slots) /\ Kept(lower) \in Seq(Contents)
          /\ Len(Kept(lower)) = Len(Kept(stack)) + more
      <3>1. stack \in Seq(Slots)
        BY <1>2
      <3> QED
        BY <2>2, <3>1, KeptTogether
    <2> QED
      BY <2>1, <2>3
  <1>8. Sized(machine', Contents, Len(stack') + Unnamed, 0)
    BY <1>1, <1>5, <1>7 DEF Sized, MachinesOf
  <1>9. machine' \in Machines
    BY <1>8, MachineTypes DEF Sized
  <1>10. Settled' = machine'
    BY <1>1 DEF Settled
  <1>11. /\ usedSymbols' \subseteq Names \X (0 .. header.maxNodes)
         /\ env' \in [Names -> Contents] /\ lastRun' \in Kinds
    BY <1>1, HistoryTypes
  <1>12. stack' \in Seq(Slots)
    BY <1>1, <1>7
  <1> QED
    BY <1>1, <1>3, <1>4, <1>8, <1>9, <1>10, <1>11, <1>12, StraightKeeps

-----------------------------------------------------------------------------
(* Branches.                                                               *)

\* What the path variables are while a node is visited.
LEMMA PathTypes ==
  ASSUME GeneratorInv, phase = "generate"
  PROVE  /\ stack \in Seq(Slots) /\ stackCopy \in Seq(Slots) /\ depths \in Seq(Nat)
         /\ taken \in Seq(BOOLEAN) /\ machine \in Machines /\ DOMAIN taken = 1 .. Len(taken)
         /\ Len(stack) \in Nat /\ Len(stackCopy) \in Nat /\ Len(depths) \in Nat
         /\ Len(taken) \in Nat /\ Unnamed \in Nat /\ Current \in Nat
         /\ \A i \in 1 .. Len(depths) : depths[i] \in Nat /\ depths[i] <= Len(stack)
         /\ \A i \in 1 .. Len(taken) : taken[i] \in BOOLEAN
         /\ Live => Sized(Settled, Contents, Len(stack) + Unnamed, 0)
  <1>1. /\ stack \in Seq(Slots) /\ stackCopy \in Seq(Slots) /\ depths \in Seq(Nat)
        /\ taken \in Seq(BOOLEAN) /\ machine \in Machines
    BY DEF GeneratorInv, TypeOK
  <1>2. \A i \in 1 .. Len(depths) : depths[i] <= Len(stack)
    BY DEF GeneratorInv, Levels
  <1>3. Live => Sized(Settled, Contents, Len(stack) + Unnamed, 0)
    BY DEF GeneratorInv, Balance, Deep
  <1>4. \A i \in 1 .. Len(taken) : taken[i] \in BOOLEAN
    BY <1>1, ElementOfSeq
  <1>5. \A i \in 1 .. Len(depths) : depths[i] \in Nat
    BY <1>1, ElementOfSeq
  <1> QED
    BY <1>1, <1>2, <1>3, <1>4, <1>5, LenProperties, UnnamedIs, NodeIs

\* No side of the path that calls another function is live.
LEMMA ElsewhereIsDead ==
  ASSUME GeneratorInv, phase = "generate", Current > 0, Before # "end", Current < selected
  PROVE  ~Live /\ Sized(machine, Contents, Len(stackCopy) + Len(Functions[selected]), 0)
  <1>1. Sides /\ Balance
    BY DEF GeneratorInv
  <1>2. taken[Len(taken)] = (Current = selected) /\ Len(taken) = Len(depths) + 1
    BY <1>1 DEF Sides
  <1>3. Len(taken) \in DOMAIN taken
    BY <1>2, PathTypes
  <1>4. Current # selected
    BY PathTypes
  <1> QED
    BY <1>1, <1>2, <1>3, <1>4 DEF Live, Balance

\* The unprimed part of the invariant that every step keeps.
LEMMA StepTypes ==
  ASSUME GeneratorInv, phase = "generate", Visited,
         stack' \in Seq(Slots), stackCopy' \in Seq(Slots), depths' \in Seq(Nat),
         taken' \in Seq(BOOLEAN),
         usedSymbols' \subseteq Names \X (0 .. header.maxNodes), verify' \in BOOLEAN,
         env' \in [Names -> Contents], lastRun' \in Kinds, machine' \in Machines,
         phase' = "generate" => Levels' /\ Sides' /\ Balance'
  PROVE  GeneratorInv'
  <1>1. TypeOK /\ (Functions # <<>> => selected > 0)
    BY DEF GeneratorInv
  <1>2. /\ AnalysisInv' /\ at' \in 1 .. header'.maxNodes + 1
        /\ header' = header /\ selected' = selected /\ crashed' = crashed
        /\ phase' \in {"generate", "done"}
        /\ phase' = "generate" => at' <= Len(program')
    BY VisitedMeans
  <1>3. /\ Names' = Names /\ Slots' = Slots /\ Contents' = Contents
        /\ Machines' = Machines /\ Functions' = Functions
    BY <1>2, HeaderFixed
  <1>4. TypeOK'
    BY <1>1, <1>2, <1>3 DEF TypeOK, AnalysisInv
  <1> QED
    BY <1>1, <1>2, <1>3, <1>4 DEF GeneratorInv

LEMMA GenerateIfKeeps ==
  ASSUME GeneratorInv, phase = "generate", GenerateIf
  PROVE  GeneratorInv'
  <1>1. PICK code : code = OneResult
    OBVIOUS
  <1>2. /\ Node.kind = "if" /\ Compile(code, <<<<"DROP">>>>, Tail(code.stack))
        /\ Uses(Range(Node.operands)) /\ depths' = <<Len(code.stack) - 1>> \o depths
        /\ \E side \in (IF Live THEN BOOLEAN ELSE {FALSE}) : taken' = <<side>> \o taken
        /\ verify' = FALSE /\ env' = env
    BY <1>1 DEF GenerateIf, StackDepth
  <1>3. PICK side \in BOOLEAN : taken' = <<side>> \o taken /\ (side => Live)
    BY <1>2
  <1>4. /\ Visited /\ Execute(code.ops \o <<<<"DROP">>>>) /\ stack' = Tail(code.stack) /\ Means
        /\ stackCopy' = stackCopy
    BY <1>2 DEF Compile
  <1>5. /\ code.stack \in Seq(Slots) /\ Len(code.stack) \in Nat \ {0}
        /\ Tail(code.stack) \in Seq(Slots) /\ Len(Tail(code.stack)) = Len(code.stack) - 1
        /\ depths # <<>> => Len(code.stack) = Len(stack) + 1
        /\ Live => Sized(Run(Settled, code.ops), Contents, Len(code.stack) + Unnamed, 0)
        /\ \A T, ops : ops \in Seq(T) =>
             Run(Settled, code.ops \o ops) = Run(Run(Settled, code.ops), ops)
    BY <1>1, <1>2, OneResultIs DEF Compile
  <1>6. PICK d \in Nat : d = Len(code.stack) - 1 /\ Len(code.stack) = 1 + d
    <2>1. PICK e \in Nat \ {0} : e = Len(code.stack)
      BY <1>5
    <2>2. e - 1 \in Nat /\ 1 + (e - 1) = e
      BY <2>1
    <2> QED
      BY <2>1, <2>2
  <1>7. stack' \in Seq(Slots) /\ Len(stack') = d /\ (depths # <<>> => Len(stack) = d)
    BY <1>4, <1>5, <1>6, PathTypes
  <1>8. /\ depths' \in Seq(Nat) /\ Len(depths') = 1 + Len(depths) /\ depths'[1] = d
        /\ \A i \in 1 .. Len(depths) : depths'[i + 1] = depths[i]
    BY <1>2, <1>6, PathTypes, PushedType
  <1>9. /\ taken' \in Seq(BOOLEAN) /\ Len(taken') = 1 + Len(taken) /\ taken'[1] = side
        /\ \A i \in 1 .. Len(taken) : taken'[i + 1] = taken[i]
    BY <1>3, PathTypes, PushedType
  <1>10. ASSUME Live PROVE Sized(machine', Contents, d + Unnamed, 0)
    <2>1. <<<<"DROP">>>> \in Seq({<<"DROP">>})
      OBVIOUS
    <2>2. machine' = Run(Run(Settled, code.ops), <<<<"DROP">>>>)
      BY <1>4, <1>5, <1>10, <2>1 DEF Execute
    <2>3. PICK n \in Nat : n = d + Unnamed /\ 1 + n = (1 + d) + Unnamed
      BY PathTypes
    <2>4. Sized(Run(Settled, code.ops), Contents, 1 + n, 0)
      BY <1>5, <1>6, <1>10, <2>3
    <2>5. Sized(Run(Run(Settled, code.ops), <<<<"DROP">>>>), Contents, n, 0)
      BY <2>4, RunDrop
    <2> QED
      BY <2>2, <2>3, <2>5
  <1>11. ~Live => machine' = machine
    BY <1>4 DEF Execute
  <1>12. machine' \in Machines
    BY <1>10, <1>11, PathTypes, MachineTypes DEF Sized
  <1>13. /\ usedSymbols' \subseteq Names \X (0 .. header.maxNodes)
         /\ env' \in [Names -> Contents] /\ lastRun' \in Kinds
    <2>1. Range(Node.operands) \in SUBSET Names
      BY NodeIs, RangeOfSeq
    <2> QED
      BY <1>2, <1>4, <2>1, HistoryTypes
  <1>14. /\ Unnamed' = Unnamed /\ Current' = Current /\ Before' = "if" /\ Contents' = Contents
         /\ Functions' = Functions /\ selected' = selected /\ Before # "end"
         /\ Opened(program, at)' = Len(depths) + 1
    <2>1. Unnamed' = Unnamed /\ Current' = Current
      BY <1>2, <1>4, UnnamedKept
    <2>2. Before' = "if" /\ header' = header /\ selected' = selected
      BY <1>2, <1>4, VisitedMeans
    <2>3. Opened(program, at)' = Len(depths) + 1 - 0
      BY <1>2, <1>4, VisitedMeans
    <2>4. Before # "end"
      BY <1>2, NodeIs DEF NodeFits
    <2> QED
      BY <2>1, <2>2, <2>3, <2>4, HeaderFixed, PathTypes
  <1>15. Levels'
    <2>1. ASSUME NEW i \in 1 .. Len(depths) PROVE depths[i] <= d
      BY <1>7, PathTypes
    <2>2. \A i \in 1 .. 1 + Len(depths) : i = 1 \/ (i - 1 \in 1 .. Len(depths) /\ depths'[i] = depths[i - 1])
      <3> TAKE i \in 1 .. 1 + Len(depths)
      <3>1. CASE i = 1
        BY <3>1
      <3>2. CASE i # 1
        <4>1. PICK j \in 1 .. Len(depths) : j = i - 1 /\ i = j + 1
          BY <3>2, PathTypes
        <4> QED
          BY <1>8, <4>1
      <3> QED
        BY <3>1, <3>2
    <2>3. \A i \in 1 .. Len(depths') : depths'[i] <= Len(stack')
      <3> SUFFICES ASSUME NEW i \in 1 .. 1 + Len(depths) PROVE depths'[i] <= d
        BY <1>7, <1>8
      <3>1. i = 1 \/ (i - 1 \in 1 .. Len(depths) /\ depths'[i] = depths[i - 1])
        BY <2>2
      <3> QED
        BY <1>8, <2>1, <3>1
    <2>4. \A i, j \in 1 .. Len(depths') : i <= j => depths'[j] <= depths'[i]
      <3> SUFFICES ASSUME NEW i \in 1 .. 1 + Len(depths), NEW j \in 1 .. 1 + Len(depths), i <= j
                   PROVE  depths'[j] <= depths'[i]
        BY <1>8
      <3>1. CASE i = 1
        BY <1>7, <1>8, <2>3, <3>1
      <3>2. CASE i # 1
        <4>1. j # 1 /\ i - 1 <= j - 1
          BY <3>2, PathTypes
        <4>2. PICK k \in 1 .. Len(depths), l \in 1 .. Len(depths) :
                k = i - 1 /\ l = j - 1 /\ k <= l /\ depths'[i] = depths[k] /\ depths'[j] = depths[l]
          BY <2>2, <3>2, <4>1
        <4>3. depths[l] <= depths[k]
          BY <4>2 DEF GeneratorInv, Levels
        <4> QED
          BY <4>2, <4>3
      <3> QED
        BY <3>1, <3>2
    <2>5. Opened(program, at)' = Len(depths')
      BY <1>8, <1>14, PathTypes
    <2> QED
      BY <2>3, <2>4, <2>5 DEF Levels
  <1>16. Sides'
    <2>1. Sides
      BY DEF GeneratorInv
    <2>2. Len(taken') = Len(depths') + (IF Current > 0 THEN 1 ELSE 0)
      BY <1>8, <1>9, <2>1, PathTypes DEF Sides
    <2>3. ASSUME Current > 0 PROVE taken'[Len(taken')] = (Current = selected)
      <3>1. Len(taken) \in 1 .. Len(taken) /\ Len(taken) + 1 = 1 + Len(taken)
        BY <2>1, <2>3, PathTypes DEF Sides
      <3>2. taken'[Len(taken')] = taken[Len(taken)]
        BY <1>9, <3>1
      <3> QED
        BY <1>14, <2>1, <2>3, <3>2 DEF Sides
    <2> QED
      BY <1>4, <1>14, <2>1, <2>2, <2>3 DEF Sides
  <1>17. Balance'
    <2>1. Live' => Live
      <3> SUFFICES ASSUME Live' PROVE Live
        OBVIOUS
      <3>1. 1 \in DOMAIN taken'
        BY <1>9, PathTypes
      <3> QED
        BY <1>3, <1>9, <3>1 DEF Live
    <2>2. Live' => Deep(Settled, Len(stack))'
      <3> SUFFICES ASSUME Live' PROVE Sized(Settled', Contents', Len(stack') + Unnamed', 0)
        BY DEF Deep
      <3>1. Settled' = machine'
        BY <1>2 DEF Settled
      <3> QED
        BY <1>7, <1>10, <1>14, <2>1, <3>1
    <2>3. ASSUME NEW i \in 1 .. Len(depths') PROVE Meets(i)'
      <3> SUFFICES ASSUME ~taken'[i], \A j \in i + 1 .. Len(taken') : taken'[j]
                   PROVE  Sized(machine', Contents, depths'[i] + Unnamed, 0)
        BY <1>14 DEF Meets, Deep
      <3>1. CASE i = 1
        <4>1. \A k \in 1 .. Len(taken) : k + 1 \in 2 .. 1 + Len(taken)
          BY PathTypes
        <4>2. Live
          BY <1>9, <3>1, <4>1, PathTypes DEF Live
        <4> QED
          BY <1>8, <1>10, <3>1, <4>2
      <3>2. CASE i # 1
        <4>1. PICK k \in 1 .. Len(depths) : k = i - 1 /\ i = k + 1
          BY <1>8, <3>2, PathTypes
        <4>2. k \in 1 .. Len(taken)
          BY <4>1, PathTypes DEF GeneratorInv, Sides
        <4>3. ~taken[k] /\ depths'[i] = depths[k]
          BY <1>8, <1>9, <4>1, <4>2
        <4>4. \A j \in k + 1 .. Len(taken) : taken[j]
          <5> TAKE j \in k + 1 .. Len(taken)
          <5>1. j + 1 \in i + 1 .. Len(taken') /\ j \in 1 .. Len(taken)
            BY <1>9, <4>1, PathTypes
          <5> QED
            BY <1>9, <5>1
        <4>5. Sized(machine, Contents, depths[k] + Unnamed, 0)
          BY <4>3, <4>4 DEF GeneratorInv, Balance, Meets, Deep
        <4>6. machine' = machine
          BY <1>11, <4>2, <4>3, PathTypes DEF Live
        <4> QED
          BY <4>3, <4>5, <4>6
      <3> QED
        BY <3>1, <3>2
    <2>4. ASSUME Current > 0, Current < selected
          PROVE  Sized(machine', Contents', Len(stackCopy') + Len(Functions[selected])', 0)
      BY <1>4, <1>11, <1>14, <2>4, ElsewhereIsDead
    <2> QED
      BY <1>14, <2>2, <2>3, <2>4 DEF Balance
  <1>18. stackCopy' \in Seq(Slots) /\ verify' \in BOOLEAN
    BY <1>2, <1>4, PathTypes
  <1> QED
    BY <1>4, <1>7, <1>8, <1>9, <1>12, <1>13, <1>15, <1>16, <1>17, <1>18, StepTypes

\* The scoped slots and their values are dropped; if only the innermost side of the
\* path is in question, the machine is then as it was at the branch.
LEMMA LeaveBlockIs ==
  ASSUME GeneratorInv, phase = "generate", Node.kind \in {"else", "endif"}, LeaveBlock,
         NEW d, d = depths[1]
  PROVE  /\ Len(depths) >= 1 /\ Len(taken) >= Len(depths) /\ d \in Nat
         /\ Head(depths) = d /\ Len(stack) - Scoped = d
         /\ stack' \in Seq(Slots) /\ Len(stack') = d
         /\ machine' \in Machines /\ Settled' = machine'
         /\ ~Live => machine' = machine
         /\ (\A j \in 2 .. Len(taken) : taken[j]) => Sized(machine', Contents, d + Unnamed, 0)
  <1>1. Len(depths) >= 1 /\ Len(taken) >= Len(depths)
    <2>1. Len(depths) > 0
      BY NodeIs DEF NodeFits
    <2> QED
      BY <2>1, PathTypes DEF GeneratorInv, Sides
  <1>2. 1 \in 1 .. Len(depths) /\ 1 \in 1 .. Len(taken) /\ depths # <<>>
    BY <1>1, PathTypes
  <1>3. d \in Nat /\ d <= Len(stack) /\ Head(depths) = d
    BY <1>2, PathTypes
  <1>4. PICK n \in Nat, s \in Nat :
          n = Len(stack) /\ s = n - d /\ n - s = d /\ s <= n /\ n = s + d
    <2>1. PICK n \in Nat : n = Len(stack)
      BY PathTypes
    <2>2. n - d \in Nat
      BY <1>3, <2>1
    <2>3. PICK e \in Nat : e = d /\ e <= n
      BY <1>3, <2>1
    <2>4. n - (n - e) = e /\ n - e <= n /\ n = (n - e) + e
      OBVIOUS
    <2> QED
      BY <2>1, <2>2, <2>3, <2>4
  <1>5. Scoped = s
    <2>1. Scoped = Max({0, s})
      BY <1>3, <1>4 DEF Scoped
    <2>2. Max({0, s}) = s
      <3>1. \E x \in {0, s} : \A y \in {0, s} : x >= y
        BY <1>4
      <3>2. Max({0, s}) \in {0, s} /\ \A y \in {0, s} : Max({0, s}) >= y
        BY <3>1 DEF Max
      <3> QED
        BY <1>4, <3>2
    <2> QED
      BY <2>1, <2>2
  <1>6. /\ stack' = From(stack, s) /\ verify' = FALSE
        /\ Execute(Times(s, <<"DROP">>))
    BY <1>5 DEF LeaveBlock
  <1>7. stack' \in Seq(Slots) /\ Len(stack') = d
    BY <1>4, <1>6, PathTypes, FromType
  <1>8. ~Live => machine' = machine
    BY <1>6 DEF Execute
  <1>9. ASSUME Live PROVE Sized(machine', Contents, d + Unnamed, 0)
    <2>1. machine' = Run(Settled, Times(s, <<"DROP">>))
      BY <1>6, <1>9 DEF Execute
    <2>2. PICK u \in Nat : u = Unnamed
      BY PathTypes
    <2>3. PICK t \in Nat : t = n + u /\ s <= t /\ t - s = d + u
      <3>1. n \in Nat /\ s \in Nat /\ d \in Nat /\ u \in Nat /\ n = s + d
        BY <1>3, <1>4
      <3>2. n + u \in Nat /\ s <= n + u /\ (n + u) - s = d + u
        BY <3>1
      <3> QED
        BY <3>2
    <2>4. Sized(Settled, Contents, t, 0)
      BY <1>4, <1>9, <2>2, <2>3, PathTypes
    <2>5. Sized(Run(Settled, Times(s, <<"DROP">>)), Contents, t - s, 0)
      BY <1>4, <2>3, <2>4, RunDrops
    <2> QED
      BY <2>1, <2>2, <2>3, <2>5
  <1>10. ASSUME \A j \in 2 .. Len(taken) : taken[j]
         PROVE  Sized(machine', Contents, d + Unnamed, 0)
    <2>1. CASE taken[1]
      <3>1. \A j \in 1 .. Len(taken) : j = 1 \/ j \in 2 .. Len(taken)
        BY PathTypes
      <3>2. Live
        BY <1>10, <2>1, <3>1, PathTypes DEF Live
      <3> QED
        BY <1>9, <3>2
    <2>2. CASE ~taken[1]
      <3>1. \A j \in 1 + 1 .. Len(taken) : taken[j]
        BY <1>10
      <3>2. Sized(machine, Contents, depths[1] + Unnamed, 0)
        BY <1>2, <2>2, <3>1 DEF GeneratorInv, Balance, Meets, Deep
      <3>3. machine' = machine
        BY <1>2, <1>8, <2>2, PathTypes DEF Live
      <3> QED
        BY <3>2, <3>3
    <2> QED
      BY <2>1, <2>2
  <1>11. machine' \in Machines
    BY <1>8, <1>9, PathTypes, MachineTypes DEF Sized
  <1>12. Settled' = machine'
    BY <1>6 DEF Settled
  <1> QED
    BY <1>1, <1>3, <1>4, <1>5, <1>7, <1>8, <1>10, <1>11, <1>12

\* A block is left: its level stays for the else block, or goes.
LEMMA LeaveKeeps ==
  ASSUME GeneratorInv, phase = "generate", Node.kind \in {"else", "endif"}, LeaveBlock,
         NEW k, k = IF Node.kind = "endif" THEN 1 ELSE 0,
         depths' \in Seq(Nat), Len(depths') = Len(depths) - k,
         \A i \in 1 .. Len(depths') : depths'[i] = depths[i + k],
         taken' \in Seq(BOOLEAN), Len(taken') = Len(taken) - k,
         \A i \in 1 .. Len(taken') : i + k > 1 => taken'[i] = taken[i + k]
  PROVE  GeneratorInv'
  <1>1. k \in {0, 1} /\ k \in Nat
    OBVIOUS
  <1>2. PICK d : d = depths[1]
    OBVIOUS
  <1>3. /\ Len(depths) >= 1 /\ Len(taken) >= Len(depths) /\ d \in Nat
        /\ stack' \in Seq(Slots) /\ Len(stack') = d
        /\ machine' \in Machines /\ Settled' = machine'
        /\ ~Live => machine' = machine
        /\ (\A j \in 2 .. Len(taken) : taken[j]) => Sized(machine', Contents, d + Unnamed, 0)
    BY <1>2, LeaveBlockIs
  <1>4. /\ Visited /\ verify' = FALSE
        /\ UNCHANGED <<stackCopy, usedSymbols, env, meant, lastRun>>
    BY DEF LeaveBlock
  <1>5. PICK n \in Nat, t \in Nat : n = Len(depths) /\ t = Len(taken) /\ n >= 1 /\ t >= n
    BY <1>3, PathTypes
  <1>6. Len(depths') = n - k /\ Len(taken') = t - k /\ n - k \in Nat /\ t - k \in Nat
    BY <1>1, <1>5
  <1>7. \A i \in 1 .. n - k : i + k \in 1 .. n /\ depths'[i] = depths[i + k]
    BY <1>1, <1>5, <1>6
  <1>8. \A i \in 1 .. t - k : i + k \in 1 .. t /\ (i + k > 1 => taken'[i] = taken[i + k])
    BY <1>1, <1>5, <1>6
  <1>9. /\ Unnamed' = Unnamed /\ Current' = Current /\ Before' = Node.kind
        /\ Contents' = Contents /\ Functions' = Functions /\ selected' = selected
        /\ Before # "end" /\ Opened(program, at)' = n - k
    <2>1. Unnamed' = Unnamed /\ Current' = Current
      BY <1>4, UnnamedKept
    <2>2. Before' = Node.kind /\ header' = header /\ selected' = selected
      BY <1>4, VisitedMeans
    <2>3. Opened(program, at)' = Len(depths) + 0 - k
      BY <1>4, VisitedMeans
    <2>4. Before # "end"
      BY NodeIs DEF NodeFits
    <2> QED
      BY <1>1, <1>5, <2>1, <2>2, <2>3, <2>4, HeaderFixed
  <1>10. \A i \in 1 .. n : depths[i] \in Nat
    BY <1>5, PathTypes
  <1>11. \A i, j \in 1 .. n : i <= j => depths[j] <= depths[i]
    BY <1>5 DEF GeneratorInv, Levels
  <1>12. Levels'
    <2>1. ASSUME NEW i \in 1 .. n - k PROVE depths'[i] <= d
      <3>1. PICK l \in 1 .. n : l = i + k /\ depths'[i] = depths[l] /\ 1 <= l
        BY <1>7
      <3>2. 1 \in 1 .. n
        BY <1>5
      <3> QED
        BY <1>2, <1>11, <3>1, <3>2
    <2>2. ASSUME NEW i \in 1 .. n - k, NEW j \in 1 .. n - k, i <= j
          PROVE  depths'[j] <= depths'[i]
      <3>1. PICK l \in 1 .. n, m \in 1 .. n :
              l = i + k /\ m = j + k /\ depths'[i] = depths[l] /\ depths'[j] = depths[m]
        BY <1>7
      <3>2. l <= m
        BY <1>1, <2>2, <3>1
      <3> QED
        BY <1>11, <3>1, <3>2
    <2> QED
      BY <1>3, <1>6, <1>9, <2>1, <2>2 DEF Levels
  <1>13. Sides'
    <2>1. Sides
      BY DEF GeneratorInv
    <2>2. t = n + (IF Current > 0 THEN 1 ELSE 0)
      BY <1>5, <2>1 DEF Sides
    <2>3. t - k = (n - k) + (IF Current > 0 THEN 1 ELSE 0)
      BY <1>1, <1>5, <2>2
    <2>4. ASSUME Current > 0 PROVE taken'[Len(taken')] = (Current = selected)
      <3>1. PICK last \in 1 .. t - k : last = t - k /\ last + k = t /\ t > 1
        <4>1. t = n + 1
          BY <2>2, <2>4
        <4> QED
          BY <1>1, <1>5, <4>1
      <3>2. taken'[last] = taken[t]
        BY <1>8, <3>1
      <3>3. taken[t] = (Current = selected)
        BY <1>5, <1>9, <2>1, <2>4 DEF Sides
      <3> QED
        BY <1>6, <3>1, <3>2, <3>3
    <2> QED
      BY <1>4, <1>6, <1>9, <2>1, <2>3, <2>4 DEF Sides
  <1>14. Balance'
    <2>1. Live' => Deep(Settled, Len(stack))'
      <3> SUFFICES ASSUME Live' PROVE Sized(machine', Contents, d + Unnamed, 0)
        BY <1>3, <1>9 DEF Deep
      <3>1. \A i \in 1 .. t - k : taken'[i]
        BY <1>6 DEF Live
      <3>2. ASSUME NEW j \in 2 .. t PROVE taken[j]
        <4>1. j - k \in 1 .. t - k /\ (j - k) + k = j
          BY <1>1, <1>5
        <4>2. PICK i \in 1 .. t - k : i + k = j
          BY <4>1
        <4>3. i + k > 1
          BY <4>2
        <4>4. taken'[i] = taken[i + k]
          BY <1>8, <4>3
        <4> QED
          BY <3>1, <4>2, <4>4
      <3> QED
        BY <1>3, <1>5, <3>2
    <2>2. ASSUME NEW i \in 1 .. n - k PROVE Meets(i)'
      <3> SUFFICES ASSUME ~taken'[i], \A j \in i + 1 .. t - k : taken'[j]
                   PROVE  Sized(machine', Contents, depths'[i] + Unnamed, 0)
        BY <1>6, <1>9 DEF Meets, Deep
      <3>1. PICK l \in 1 .. n : l = i + k /\ depths'[i] = depths[l]
        BY <1>7
      <3>2. ASSUME NEW j \in l + 1 .. t PROVE taken[j]
        <4>1. PICK o \in i + 1 .. t - k : o + k = j
          <5>1. j - k \in i + 1 .. t - k /\ (j - k) + k = j
            BY <1>1, <1>5, <3>1
          <5> QED
            BY <5>1
        <4>2. o \in 1 .. t - k /\ o + k > 1
          BY <1>1, <4>1
        <4> QED
          BY <1>8, <4>1, <4>2
      <3>3. CASE l = 1
        BY <1>2, <1>3, <1>5, <3>1, <3>2, <3>3
      <3>4. CASE l # 1
        <4>1. l \in 1 .. t /\ i \in 1 .. t - k /\ l > 1
          BY <1>1, <1>5, <3>1, <3>4
        <4>2. ~taken[l]
          BY <1>8, <3>1, <4>1
        <4>3. Sized(machine, Contents, depths[l] + Unnamed, 0)
          BY <1>5, <3>2, <4>2 DEF GeneratorInv, Balance, Meets, Deep
        <4>4. machine' = machine
          BY <1>3, <1>5, <4>1, <4>2, PathTypes DEF Live
        <4> QED
          BY <3>1, <4>3, <4>4
      <3> QED
        BY <3>3, <3>4
    <2>3. (Current > 0 /\ Before # "end" /\ Current < selected)' =>
            Sized(machine', Contents', Len(stackCopy') + Len(Functions'[selected']), 0)
      BY <1>3, <1>4, <1>9, ElsewhereIsDead
    <2> QED
      BY <1>6, <2>1, <2>2, <2>3 DEF Balance
  <1>15. /\ usedSymbols' \subseteq Names \X (0 .. header.maxNodes)
         /\ env' \in [Names -> Contents] /\ lastRun' \in Kinds
    BY <1>4, HistoryTypes
  <1>16. stackCopy' \in Seq(Slots)
    BY <1>4, PathTypes
  <1> QED
    BY <1>3, <1>4, <1>12, <1>13, <1>14, <1>15, <1>16, StepTypes

\* The else block has the level of the if block, behind both it is gone.
LeavesLevel(k) ==
    /\ depths' \in Seq(Nat) /\ Len(depths') = Len(depths) - k
    /\ \A i \in 1 .. Len(depths') : depths'[i] = depths[i + k]
    /\ taken' \in Seq(BOOLEAN) /\ Len(taken') = Len(taken) - k
    /\ \A i \in 1 .. Len(taken') : i + k > 1 => taken'[i] = taken[i + k]

LEMMA ElseLeaves ==
  ASSUME GeneratorInv, phase = "generate", GenerateElse
  PROVE  LeavesLevel(0)
  <1>1. /\ Node.kind = "else" /\ LeaveBlock
        /\ depths' = <<Len(stack) - Scoped>> \o Tail(depths)
        /\ taken' = <<~Head(taken)>> \o Tail(taken)
    BY DEF GenerateElse
  <1>2. PICK d \in Nat : d = depths[1] /\ Len(stack) - Scoped = d
    BY <1>1, LeaveBlockIs
  <1>3. Len(depths) >= 1 /\ Len(taken) >= Len(depths)
    BY <1>1, LeaveBlockIs
  <1>4. depths # <<>> /\ taken # <<>>
    BY <1>3, PathTypes
  <1>5. /\ depths' \in Seq(Nat) /\ Len(depths') = Len(depths) - 0
        /\ \A i \in 1 .. Len(depths') : depths'[i] = depths[i + 0]
    <2>1. PICK rest \in Seq(Nat) : rest = Tail(depths) /\ Len(rest) = Len(depths) - 1
                                     /\ \A i \in 1 .. Len(rest) : rest[i] = depths[i + 1]
      <3>1. depths \in Seq(Nat)
        BY PathTypes
      <3>2. /\ Tail(depths) \in Seq(Nat) /\ Len(Tail(depths)) = Len(depths) - 1
            /\ \A i \in 1 .. Len(Tail(depths)) : Tail(depths)[i] = depths[i + 1]
        BY ONLY <1>4, <3>1, HeadTailProperties
      <3> QED
        BY <3>2
    <2>2. /\ depths' \in Seq(Nat) /\ Len(depths') = 1 + Len(rest) /\ depths'[1] = depths[1]
          /\ \A i \in 1 .. Len(rest) : depths'[i + 1] = rest[i]
      <3>1. depths' = <<d>> \o rest
        BY <1>1, <1>2, <2>1
      <3> QED
        BY <1>2, <3>1, PushedType
    <2>3. PICK n \in Nat : n = Len(rest) /\ Len(depths) = n + 1 /\ Len(depths') = n + 1
      <3>1. PICK n \in Nat, m \in Nat : n = Len(rest) /\ m = Len(depths)
        BY PathTypes, LenProperties
      <3>2. n = m - 1 /\ Len(depths') = 1 + n
        BY <2>1, <2>2, <3>1
      <3>3. m = n + 1 /\ 1 + n = n + 1
        BY <3>2
      <3> QED
        BY <3>1, <3>2, <3>3
    <2>4. ASSUME NEW i \in 1 .. n + 1 PROVE depths'[i] = depths[i]
      <3>1. CASE i = 1
        BY <2>2, <3>1
      <3>2. CASE i # 1
        <4>1. PICK j \in 1 .. n : i = j + 1
          <5>1. i - 1 \in 1 .. n /\ i = (i - 1) + 1
            BY <3>2
          <5> QED
            BY <5>1
        <4> QED
          BY <2>1, <2>2, <2>3, <4>1
      <3> QED
        BY <3>1, <3>2
    <2> QED
      BY <2>2, <2>3, <2>4
  <1>6. /\ taken' \in Seq(BOOLEAN) /\ Len(taken') = Len(taken) - 0
        /\ \A i \in 1 .. Len(taken') : i + 0 > 1 => taken'[i] = taken[i + 0]
    <2>1. PICK rest \in Seq(BOOLEAN) : rest = Tail(taken) /\ Len(rest) = Len(taken) - 1
                                     /\ \A i \in 1 .. Len(rest) : rest[i] = taken[i + 1]
      <3>1. taken \in Seq(BOOLEAN)
        BY PathTypes
      <3>2. /\ Tail(taken) \in Seq(BOOLEAN) /\ Len(Tail(taken)) = Len(taken) - 1
            /\ \A i \in 1 .. Len(Tail(taken)) : Tail(taken)[i] = taken[i + 1]
        BY ONLY <1>4, <3>1, HeadTailProperties
      <3> QED
        BY <3>2
    <2>2. PICK side \in BOOLEAN : side = ~Head(taken)
      OBVIOUS
    <2>3. /\ taken' \in Seq(BOOLEAN) /\ Len(taken') = 1 + Len(rest)
          /\ \A i \in 1 .. Len(rest) : taken'[i + 1] = rest[i]
      <3>1. taken' = <<side>> \o rest
        BY <1>1, <2>1, <2>2
      <3> QED
        BY <3>1, PushedType
    <2>4. PICK n \in Nat : n = Len(rest) /\ Len(taken) = n + 1 /\ Len(taken') = n + 1
      <3>1. PICK n \in Nat, m \in Nat : n = Len(rest) /\ m = Len(taken)
        BY PathTypes, LenProperties
      <3>2. n = m - 1 /\ Len(taken') = 1 + n
        BY <2>1, <2>3, <3>1
      <3>3. m = n + 1 /\ 1 + n = n + 1
        BY <3>2
      <3> QED
        BY <3>1, <3>2, <3>3
    <2>5. ASSUME NEW i \in 1 .. n + 1, i > 1 PROVE taken'[i] = taken[i]
      <3>1. PICK j \in 1 .. n : i = j + 1
        <4>1. i - 1 \in 1 .. n /\ i = (i - 1) + 1
          BY <2>5
        <4> QED
          BY <4>1
      <3> QED
        BY <2>1, <2>3, <2>4, <3>1
    <2> QED
      BY <2>3, <2>4, <2>5
  <1> QED
    BY <1>5, <1>6 DEF LeavesLevel

LEMMA EndIfLeaves ==
  ASSUME GeneratorInv, phase = "generate", GenerateEndIf
  PROVE  LeavesLevel(1)
  <1>1. /\ Node.kind = "endif" /\ LeaveBlock
        /\ depths' = Tail(depths) /\ taken' = Tail(taken)
    BY DEF GenerateEndIf
  <1>2. PICK d : d = depths[1]
    OBVIOUS
  <1>3. Len(depths) >= 1 /\ Len(taken) >= Len(depths)
    BY <1>1, <1>2, LeaveBlockIs
  <1>4. depths # <<>> /\ taken # <<>>
    BY <1>3, PathTypes
  <1>5. /\ depths' \in Seq(Nat) /\ Len(depths') = Len(depths) - 1
        /\ \A i \in 1 .. Len(depths') : depths'[i] = depths[i + 1]
    BY <1>1, <1>4, PathTypes, HeadTailProperties
  <1>6. /\ taken' \in Seq(BOOLEAN) /\ Len(taken') = Len(taken) - 1
        /\ \A i \in 1 .. Len(taken') : taken'[i] = taken[i + 1]
    BY <1>1, <1>4, PathTypes, HeadTailProperties
  <1> QED
    BY <1>5, <1>6 DEF LeavesLevel

LEMMA GenerateElseKeeps ==
  ASSUME GeneratorInv, phase = "generate", GenerateElse
  PROVE  GeneratorInv'
  <1>1. Node.kind = "else" /\ LeaveBlock /\ LeavesLevel(0)
    BY ElseLeaves DEF GenerateElse
  <1>2. PICK k : k = 0
    OBVIOUS
  <1>3. k = (IF Node.kind = "endif" THEN 1 ELSE 0) /\ LeavesLevel(k)
    BY <1>1, <1>2
  <1> QED
    BY <1>1, <1>3, LeaveKeeps DEF LeavesLevel

LEMMA GenerateEndIfKeeps ==
  ASSUME GeneratorInv, phase = "generate", GenerateEndIf
  PROVE  GeneratorInv'
  <1>1. Node.kind = "endif" /\ LeaveBlock /\ LeavesLevel(1)
    BY EndIfLeaves DEF GenerateEndIf
  <1>2. PICK k : k = 1
    OBVIOUS
  <1>3. k = (IF Node.kind = "endif" THEN 1 ELSE 0) /\ LeavesLevel(k)
    BY <1>1, <1>2
  <1> QED
    BY <1>1, <1>3, LeaveKeeps DEF LeavesLevel

-----------------------------------------------------------------------------
(* The functions.                                                          *)

\* A function is reached once: on the path from the start, or, with several functions,
\* behind the end of the one before; if the path goes there, it has not been selected
\* yet, and all its arguments are still to be named.
LEMMA FunctionStarts ==
  ASSUME GeneratorInv, phase = "generate", Node.kind = "function",
         NEW f, f = FunctionOf(at),
         NEW slots, slots = IF Len(Functions) > 1 /\ f = 1 THEN WithSelector(stack) ELSE stack
  PROVE  /\ f = Current + 1 /\ f \in 1 .. Len(Functions) /\ Node.targets = Functions[f]
         /\ selected \in 1 .. Len(Functions) /\ depths = <<>>
         /\ slots \in Seq(Slots)
         /\ Len(Functions) > 1 => "$$" \in Range(slots)
         /\ Live => f <= selected
         /\ f <= selected => Live
         /\ Live => Sized(Settled, Contents, Len(slots) + Len(Functions[selected]), 0)
  <1>1. /\ f = Current + 1 /\ f \in 1 .. Len(Functions) /\ Node.targets = Functions[f]
        /\ Len(depths) = 0 /\ (f = 1 \/ Before = "end") /\ Current \in Nat
    <2>1. /\ NodeFits(header, Node, Len(depths), f, Before) /\ f = Current + 1 /\ Current \in Nat
      BY NodeIs
    <2>2. /\ f <= Len(Functions) /\ Node.targets = Functions[f] /\ Len(depths) = 0
          /\ (f = 1 \/ Before = "end")
      BY <2>1 DEF NodeFits, Functions
    <2>3. Len(Functions) \in Nat
      BY FunctionParameters, HeadersAssumption, NodeIs, LenProperties DEF Functions
    <2> QED
      BY <2>1, <2>2, <2>3
  <1>2. depths = <<>>
    BY <1>1, PathTypes
  <1>3. selected \in 1 .. Len(Functions)
    <2>1. Functions # <<>> /\ Len(Functions) \in Nat
      BY <1>1
    <2> QED
      BY <2>1 DEF GeneratorInv, TypeOK
  <1>4. PICK own \in Nat : own = Len(Functions[selected])
    BY <1>3, NodeIs, FunctionParameters
  <1>5. Sides
    BY DEF GeneratorInv
  <1>6. CASE Before # "end"
    <2>1. f = 1 /\ Current = 0
      BY <1>1, <1>6
    <2>2. Len(taken) = 0
      BY <1>1, <1>5, <2>1 DEF Sides
    <2>3. Live
      BY <2>2, PathTypes DEF Live
    <2>4. f <= selected
      BY <1>3, <2>1
    <2>5. Unnamed = own + (IF Len(Functions) > 1 THEN 1 ELSE 0)
      <3>1. Current # selected
        BY <1>3, <2>1
      <3> QED
        BY <1>4, <2>1, <3>1, UnnamedIs
    <2>6. /\ slots \in Seq(Slots)
          /\ Len(slots) = Len(stack) + (IF Len(Functions) > 1 THEN 1 ELSE 0)
          /\ Len(Functions) > 1 => slots[Len(stack) + 1] = "$$" /\ Len(slots) = Len(stack) + 1
      <3>1. /\ Append(stack, "$$") \in Seq(Slots) /\ Len(Append(stack, "$$")) = Len(stack) + 1
            /\ Append(stack, "$$")[Len(stack) + 1] = "$$"
        BY PathTypes, MachineTypes, AppendProperties
      <3>2. CASE Len(Functions) > 1
        BY <2>1, <3>1, <3>2 DEF WithSelector
      <3>3. CASE ~(Len(Functions) > 1)
        BY <3>3, PathTypes
      <3> QED
        BY <3>2, <3>3
    <2>7. Len(Functions) > 1 => "$$" \in Range(slots)
      <3> SUFFICES ASSUME Len(Functions) > 1 PROVE "$$" \in Range(slots)
        OBVIOUS
      <3>1. slots[Len(stack) + 1] = "$$" /\ Len(stack) + 1 \in DOMAIN slots
        BY <2>6, PathTypes, LenProperties
      <3> QED
        BY <3>1 DEF Range
    <2>8. Len(stack) + Unnamed = Len(slots) + own
      <3>1. PICK n \in Nat, extra \in {0, 1} :
              n = Len(stack) /\ extra = IF Len(Functions) > 1 THEN 1 ELSE 0
        BY PathTypes
      <3>2. Unnamed = own + extra /\ Len(slots) = n + extra
        BY <2>5, <2>6, <3>1
      <3>3. n + (own + extra) = (n + extra) + own
        OBVIOUS
      <3> QED
        BY <3>1, <3>2, <3>3
    <2> QED
      BY <1>1, <1>2, <1>3, <1>4, <2>3, <2>4, <2>6, <2>7, <2>8, PathTypes
  <1>7. CASE Before = "end"
    <2>1. /\ Current > 0 /\ Len(Functions) > 1 /\ taken = <<Current < selected>>
          /\ stack = stackCopy /\ "$$" \in Range(stackCopy)
      BY <1>5, <1>7 DEF Sides
    <2>2. f # 1 /\ slots = stack
      BY <1>1, <2>1
    <2>3. (Live => Current < selected) /\ (Current < selected => Live)
      <3>1. CASE Current < selected
        <4>1. taken = <<TRUE>>
          BY <2>1, <3>1
        <4>2. DOMAIN taken = {1} /\ taken[1]
          BY <4>1
        <4> QED
          BY <3>1, <4>2 DEF Live
      <3>2. CASE ~(Current < selected)
        <4>1. (Current < selected) = FALSE
          BY <3>2
        <4>2. taken = <<FALSE>>
          BY <2>1, <4>1
        <4>3. DOMAIN taken = {1} /\ ~taken[1]
          BY <4>2
        <4> QED
          BY <3>2, <4>3 DEF Live
      <3> QED
        BY <3>1, <3>2
    <2>4. (Current < selected => f <= selected) /\ (f <= selected => Current < selected)
      BY <1>1, <1>3
    <2>5. ASSUME Live PROVE Unnamed = own
      <3>1. Current # selected /\ Current # 0
        BY <1>3, <2>1, <2>3, <2>5
      <3> QED
        BY <1>4, <3>1, UnnamedIs
    <2> QED
      BY <1>1, <1>2, <1>3, <1>4, <2>1, <2>2, <2>3, <2>4, <2>5, PathTypes
  <1> QED
    BY <1>6, <1>7

\* The selector is compared, and the last function takes it.
LEMMA SelectorCompared ==
  ASSUME NEW m, NEW n \in Nat, Sized(m, Contents, n, 0), NEW index \in Nat, index < n
  PROVE  /\ Sized(Run(m, <<<<"PICK", index>>, <<"COMPUTE", 1, <<>>>>>>), Contents, n, 0)
         /\ Sized(Run(m, <<<<"ROLL", index>>, <<"COMPUTE", 1, <<>>>>>>), Contents, n - 1, 0)
  <1>1. Missing \in Contents
    BY MachineTypes
  <1>2. \A a, b : Run(m, <<a, b>>) = Exec(Exec(m, a), b)
    BY RunOfTwo
  <1>3. <<>> \in Seq(Contents) /\ Len(<<>>) = 0
    OBVIOUS
  <1>4. Sized(Run(m, <<<<"PICK", index>>, <<"COMPUTE", 1, <<>>>>>>), Contents, n, 0)
    <2>1. PICK more \in Nat : more = 1 + n /\ 1 <= more /\ 0 + (more - 1) = n
      OBVIOUS
    <2>2. PICK after : after = Exec(m, <<"PICK", index>>)
      OBVIOUS
    <2>3. Sized(after, Contents, more, 0)
      BY <1>1, <2>1, <2>2, ExecPick
    <2>4. Sized(Exec(after, <<"COMPUTE", 1, <<>>>>), Contents, Len(<<>>) + (more - 1), 0)
      BY <1>1, <1>3, <2>1, <2>3, ExecCompute
    <2> QED
      BY <1>2, <1>3, <2>1, <2>2, <2>4
  <1>5. Sized(Run(m, <<<<"ROLL", index>>, <<"COMPUTE", 1, <<>>>>>>), Contents, n - 1, 0)
    <2>1. 1 <= n /\ 0 + (n - 1) = n - 1
      OBVIOUS
    <2>2. PICK after : after = Exec(m, <<"ROLL", index>>)
      OBVIOUS
    <2>3. Sized(after, Contents, n, 0)
      BY <1>1, <2>2, ExecRoll
    <2>4. Sized(Exec(after, <<"COMPUTE", 1, <<>>>>), Contents, Len(<<>>) + (n - 1), 0)
      BY <1>1, <1>3, <2>1, <2>3, ExecCompute
    <2> QED
      BY <1>2, <1>3, <2>1, <2>2, <2>4
  <1> QED
    BY <1>4, <1>5

LEMMA PairIs ==
  ASSUME NEW a, NEW b
  PROVE  <<a>> \o <<b>> = <<a, b>>
  <1>1. <<a>> \in Seq({a, b}) /\ b \in {a, b} /\ <<a, b>> = Append(<<a>>, b)
    OBVIOUS
  <1> QED
    BY <1>1, AppendIsConcat

LEMMA GenerateFunctionKeeps ==
  ASSUME GeneratorInv, phase = "generate", GenerateFunction
  PROVE  GeneratorInv'
  <1>1. PICK f : f = FunctionOf(at)
    OBVIOUS
  <1>2. PICK slots : slots = IF Len(Functions) > 1 /\ f = 1 THEN WithSelector(stack) ELSE stack
    OBVIOUS
  <1>3. PICK index : index = StackIndex(slots, "$$")
    OBVIOUS
  <1>4. /\ Node.kind = "function" /\ Visited
        /\ Execute(IF ~(Len(Functions) > 1) THEN <<>>
                   ELSE <<<<IF f = Len(Functions) THEN "ROLL" ELSE "PICK", index>>>>
                          \o <<<<"COMPUTE", 1, <<>>>>>>)
        /\ taken' = <<Live /\ f = selected>>
        /\ stackCopy' = slots
        /\ stack' = (IF Len(Functions) > 1 /\ f = Len(Functions) THEN Without(slots, index) ELSE slots)
                      \o Reverse(Node.targets)
        /\ verify' = FALSE
        /\ UNCHANGED <<depths, usedSymbols, lastRun>>
    BY <1>1, <1>2, <1>3 DEF GenerateFunction
  <1>5. /\ f = Current + 1 /\ f \in 1 .. Len(Functions) /\ Node.targets = Functions[f]
        /\ selected \in 1 .. Len(Functions) /\ depths = <<>>
        /\ slots \in Seq(Slots)
        /\ Len(Functions) > 1 => "$$" \in Range(slots)
        /\ Live => f <= selected
        /\ f <= selected => Live
        /\ Live => Sized(Settled, Contents, Len(slots) + Len(Functions[selected]), 0)
    BY <1>1, <1>2, <1>4, FunctionStarts
  <1>6. PICK n \in Nat, own \in Nat : n = Len(slots) /\ own = Len(Functions[selected])
    BY <1>5, NodeIs, FunctionParameters, LenProperties
  <1>7. PICK gone \in {0, 1} : gone = IF Len(Functions) > 1 /\ f = Len(Functions) THEN 1 ELSE 0
    OBVIOUS
  <1>8. Len(Functions) > 1 => index \in Nat /\ index < n
    <2>1. StackIndex(slots, "$$") \in -1 .. Len(slots) - 1
          /\ ("$$" \in Range(slots) => StackIndex(slots, "$$") >= 0)
      BY <1>5, StackIndexIs
    <2> QED
      BY <1>3, <1>5, <1>6, <2>1
  <1>9. /\ stack' \in Seq(Slots) /\ Len(stack') = (n - gone) + Len(Functions[f])
        /\ n - gone \in Nat
    <2>1. PICK upper : upper = IF Len(Functions) > 1 /\ f = Len(Functions) THEN Without(slots, index) ELSE slots
      OBVIOUS
    <2>2. upper \in Seq(Slots) /\ Len(upper) = n - gone /\ n - gone \in Nat
      <3>1. CASE Len(Functions) > 1 /\ f = Len(Functions)
        <4>1. index \in Nat /\ index < Len(slots) /\ n - 1 \in Nat /\ Len(slots) - 1 = n - 1
          BY <1>6, <1>8, <3>1
        <4>2. Without(slots, index) \in Seq(Slots) /\ Len(Without(slots, index)) = Len(slots) - 1
          BY <1>5, <4>1, WithoutType
        <4>3. upper = Without(slots, index) /\ gone = 1
          BY <1>7, <2>1, <3>1
        <4> QED
          BY <4>1, <4>2, <4>3
      <3>2. CASE ~(Len(Functions) > 1 /\ f = Len(Functions))
        BY <1>5, <1>6, <1>7, <2>1, <3>2
      <3> QED
        BY <3>1, <3>2
    <2>3. Functions[f] \in Seq(Slots)
      BY <1>5, NodeIs, FunctionParameters, MachineTypes
    <2>4. PICK lower \in Seq(Slots) : lower = Reverse(Functions[f]) /\ Len(lower) = Len(Functions[f])
      BY <2>3, ReverseType
    <2>5. stack' = upper \o lower
      BY <1>4, <1>5, <2>1, <2>4
    <2> QED
      BY <2>2, <2>4, <2>5, JoinedType
  <1>10. ASSUME Live PROVE Sized(machine', Contents, (n - gone) + own, 0)
    <2>1. Sized(Settled, Contents, n + own, 0)
      BY <1>5, <1>6, <1>10
    <2>2. CASE ~(Len(Functions) > 1)
      <3>1. machine' = Run(Settled, <<>>)
        BY <1>4, <1>10, <2>2 DEF Execute
      <3>2. machine' = Settled /\ n - gone = n
        BY <1>7, <2>2, <3>1, RunOfNone
      <3> QED
        BY <2>1, <3>2
    <2>3. CASE Len(Functions) > 1
      <3>1. PICK size \in Nat : size = n + own /\ index < size /\ index \in Nat
        <4>1. n + own \in Nat /\ index < n + own
          BY <1>8, <2>3
        <4> QED
          BY <1>8, <2>3, <4>1
      <3>2. \A a, b : <<a>> \o <<b>> = <<a, b>>
        BY PairIs
      <3>3. machine' = Run(Settled, <<<<IF f = Len(Functions) THEN "ROLL" ELSE "PICK", index>>, <<"COMPUTE", 1, <<>>>>>>)
        BY <1>4, <1>10, <2>3, <3>2 DEF Execute
      <3>4. /\ Sized(Run(Settled, <<<<"PICK", index>>, <<"COMPUTE", 1, <<>>>>>>), Contents, size, 0)
            /\ Sized(Run(Settled, <<<<"ROLL", index>>, <<"COMPUTE", 1, <<>>>>>>), Contents, size - 1, 0)
        BY <2>1, <3>1, SelectorCompared
      <3>5. CASE f = Len(Functions)
        <4>1. size - 1 = (n - gone) + own
          BY <1>7, <2>3, <3>1, <3>5
        <4> QED
          BY <3>3, <3>4, <3>5, <4>1
      <3>6. CASE f # Len(Functions)
        <4>1. size = (n - gone) + own
          BY <1>7, <3>1, <3>6
        <4> QED
          BY <3>3, <3>4, <3>6, <4>1
      <3> QED
        BY <3>5, <3>6
    <2> QED
      BY <2>2, <2>3
  <1>11. ~Live => machine' = machine
    BY <1>4 DEF Execute
  <1>12. machine' \in Machines
    BY <1>10, <1>11, PathTypes, MachineTypes DEF Sized
  <1>13. /\ Current' = f /\ Before' = "function" /\ header' = header /\ selected' = selected
         /\ Opened(program, at)' = 0
    <2>1. Len(depths) = 0
      BY <1>5
    <2>2. /\ Current' = Current + 1 /\ Before' = "function" /\ header' = header
          /\ selected' = selected /\ Opened(program, at)' = Len(depths) + 0 - 0
      BY <1>4, VisitedMeans
    <2> QED
      BY <1>5, <2>1, <2>2
  <1>14. Functions' = Functions /\ Contents' = Contents
    BY <1>13, HeaderFixed
  <1>15. (f = selected => taken' = <<TRUE>>) /\ (f # selected => taken' = <<FALSE>>)
    <2>1. f = selected => (Live /\ f = selected) = TRUE
      BY <1>5
    <2>2. f # selected => (Live /\ f = selected) = FALSE
      OBVIOUS
    <2> QED
      BY <1>4, <2>1, <2>2
  <1>16. /\ taken' \in Seq(BOOLEAN) /\ Len(taken') = 1 /\ DOMAIN taken' = {1}
         /\ f = selected => taken'[1]
         /\ taken'[1] => f = selected
         /\ taken'[1] \in BOOLEAN
    <2>1. CASE f = selected
      <3>0. taken' = <<TRUE>>
        BY <1>15, <2>1
      <3>1. taken' \in Seq(BOOLEAN) /\ Len(taken') = 1 /\ DOMAIN taken' = {1}
        BY <3>0
      <3>2. taken'[1]
        BY <3>0
      <3>3. taken'[1] \in BOOLEAN
        BY <3>1, ElementOfSeq
      <3> QED
        BY <2>1, <3>1, <3>2, <3>3
    <2>2. CASE f # selected
      <3>0. taken' = <<FALSE>>
        BY <1>15, <2>2
      <3>1. taken' \in Seq(BOOLEAN) /\ Len(taken') = 1 /\ DOMAIN taken' = {1}
        BY <3>0
      <3>2. ~taken'[1]
        BY <3>0
      <3>3. taken'[1] \in BOOLEAN
        BY <3>1, ElementOfSeq
      <3> QED
        BY <2>2, <3>1, <3>2, <3>3
    <2> QED
      BY <2>1, <2>2
  <1>17. f = selected => Unnamed' = 0
    <2>1. FunctionOf(at - 1)' = Current'
      BY DEF FunctionOf, Current, Count, IsNode
    <2> QED
      BY <1>13, <2>1 DEF Unnamed
  <1>18. depths' = <<>> /\ Len(depths') = 0
    BY <1>4, <1>5
  <1>19. Levels'
    BY <1>13, <1>18 DEF Levels
  <1>20. Sides'
    <2>1. Current' \in 0 .. Len(Functions') /\ Current' > 0
      BY <1>5, <1>13, <1>14
    <2>2. Len(taken') = Len(depths') + 1
      BY <1>16, <1>18
    <2>3. taken'[Len(taken')] = (Current' = selected')
      BY <1>13, <1>16
    <2> QED
      BY <1>4, <1>5, <1>13, <1>14, <2>1, <2>2, <2>3 DEF Sides
  <1>21. Balance'
    <2>1. Live' => f = selected /\ Live
      BY <1>5, <1>16 DEF Live
    <2>2. Live' => Deep(Settled, Len(stack))'
      <3> SUFFICES ASSUME Live' PROVE Sized(Settled', Contents', Len(stack') + Unnamed', 0)
        BY DEF Deep
      <3>1. Settled' = machine'
        BY <1>4 DEF Settled
      <3>2. Len(stack') + Unnamed' = (n - gone) + own
        BY <1>6, <1>9, <1>17, <2>1
      <3> QED
        BY <1>10, <1>14, <2>1, <3>1, <3>2
    <2>3. ASSUME Current' < selected'
          PROVE  Sized(machine', Contents', Len(stackCopy') + Len(Functions'[selected']), 0)
      <3>1. f < selected
        BY <1>13, <2>3
      <3>2. f <= selected /\ f # Len(Functions)
        BY <1>5, <3>1
      <3>3. (n - gone) + own = n + own
        BY <1>7, <3>2
      <3> QED
        BY <1>4, <1>5, <1>6, <1>10, <1>13, <1>14, <3>2, <3>3
    <2>4. \A i \in 1 .. Len(depths') : Meets(i)'
      BY <1>18
    <2> QED
      BY <2>2, <2>3, <2>4 DEF Balance
  <1>22. /\ usedSymbols' \subseteq Names \X (0 .. header.maxNodes)
         /\ env' \in [Names -> Contents] /\ lastRun' \in Kinds
    <2>1. /\ usedSymbols' = usedSymbols /\ lastRun' = lastRun
          /\ env \in [Names -> Contents]
      BY <1>4 DEF GeneratorInv, TypeOK
    <2>2. env' = env \/ env' = [name \in Names |-> IF name \in Range(Node.targets) THEN Argument(name)
                                                                              ELSE env[name]]
      BY DEF GenerateFunction
    <2>3. \A name \in Names : Argument(name) \in Contents
      BY MachineTypes
    <2> QED
      BY <2>1, <2>2, <2>3 DEF GeneratorInv, TypeOK, AnalysisInv
  <1>23. depths' \in Seq(Nat) /\ stackCopy' \in Seq(Slots) /\ verify' \in BOOLEAN
    <2>1. depths' = depths /\ stackCopy' = slots /\ verify' = FALSE
      BY <1>4
    <2> QED
      BY <1>5, <2>1, PathTypes
  <1> QED
    BY <1>4, <1>9, <1>12, <1>16, <1>19, <1>20, <1>21, <1>22, <1>23, StepTypes

LEMMA FunctionsCounted ==
  \A i \in Nat : Count(program, "function", i + 1) =
                  Count(program, "function", i) + (IF program[i + 1].kind = "function" THEN 1 ELSE 0)
  BY CountNext

\* Behind the end of a body there is nothing, or the next of several functions.
LEMMA EndIsFollowed ==
  ASSUME GeneratorInv, phase = "generate", Node.kind = "end"
  PROVE  /\ Len(depths) = 0 /\ Before # "end" /\ FunctionOf(at) = Current
         /\ at # Len(program) => Current > 0 /\ Len(Functions) > 1
  <1>1. /\ NodeFits(header, Node, Len(depths), Current + 0, Before)
        /\ FunctionOf(at) = Current + 0 /\ Current \in Nat
        /\ at \in Nat \ {0} /\ at <= Len(program)
    BY NodeIs
  <1>2. /\ Len(depths) = 0 /\ Before # "end" /\ FunctionOf(at) = Current
        /\ Current > 0 \/ Functions = <<>>
    BY <1>1 DEF NodeFits, Functions
  <1>3. ASSUME at # Len(program) PROVE Current > 0 /\ Len(Functions) > 1
    <2>1. Len(program) \in Nat
      BY LenProperties DEF GeneratorInv, TypeOK, AnalysisTypeOK
    <2>2. PICK i \in 1 .. Len(program) : i = at + 1 /\ i - 1 = at /\ i # 1
      <3>1. at + 1 \in 1 .. Len(program) /\ (at + 1) - 1 = at /\ at + 1 # 1
        BY <1>1, <1>3, <2>1
      <3> QED
        BY <3>1
    <2>3. KindBefore(program, i) = "end"
      BY <2>2 DEF KindBefore, Node
    <2>4. NodeFits(header, program[i], Opened(program, i), Count(program, "function", i), "end")
      BY <2>3 DEF GeneratorInv, AnalysisInv, Structured
    <2>5. program[i].kind = "function" /\ Count(program, "function", i) <= Len(Functions)
      BY <2>4 DEF NodeFits, Functions
    <2>6. Count(program, "function", at + 1) = Count(program, "function", at) + 1
      <3>1. Count(program, "function", at + 1) =
              Count(program, "function", at) + (IF program[at + 1].kind = "function" THEN 1 ELSE 0)
        BY <1>1, FunctionsCounted
      <3> QED
        BY <2>2, <2>5, <3>1
    <2>7. Count(program, "function", at) = Current
      BY <1>2, FunctionOfIsCount
    <2>8. Current + 1 <= Len(Functions)
      BY <2>2, <2>5, <2>6, <2>7
    <2>9. Len(Functions) \in Nat /\ (Functions = <<>> => Len(Functions) = 0)
      BY HeadersAssumption, NodeIs, LenProperties DEF Functions
    <2> QED
      BY <1>1, <1>2, <2>8, <2>9
  <1> QED
    BY <1>2, <1>3

LEMMA GenerateEndKeeps ==
  ASSUME GeneratorInv, phase = "generate", GenerateEnd
  PROVE  GeneratorInv'
  <1>1. PICK before : before = IF KeepsValue THEN machine
                                 ELSE Run(Settled, <<<<"PUSH", <<<<"OP_1", 0>>>>>>>>)
    OBVIOUS
  <1>2. /\ Node.kind = "end" /\ Visited
        /\ machine' = IF Live THEN Run(before, Times(Len(stack), <<"NIP">>)) ELSE machine
        /\ stack' = StackAfter /\ verify' = FALSE /\ taken' = <<FunctionOf(at) < selected>>
        /\ UNCHANGED <<stackCopy, depths, usedSymbols, env, meant, lastRun>>
    BY <1>1 DEF GenerateEnd, CleanStack
  <1>3. /\ Len(depths) = 0 /\ Before # "end" /\ FunctionOf(at) = Current
        /\ at # Len(program) => Current > 0 /\ Len(Functions) > 1
    BY <1>2, EndIsFollowed
  <1>4. machine' \in Machines
    <2>1. CASE Live
      <3>1. Settled \in MachinesOf(Contents) /\ machine \in MachinesOf(Contents)
        BY <2>1, PathTypes, MachineTypes DEF Sized
      <3>2. Run(Settled, <<<<"PUSH", <<<<"OP_1", 0>>>>>>>>) \in MachinesOf(Contents)
        <4>1. PICK values \in Seq(Contents) : values = <<<<"OP_1", 0>>>>
          <5>1. PICK result \in Contents : result = <<"OP_1", 0>>
            BY MachineTypes
          <5>2. <<result>> \in Seq(Contents)
            OBVIOUS
          <5> QED
            BY <5>1, <5>2
        <4>2. Sized(Settled, Contents, Len(Settled.main), Len(Settled.alt))
          BY <3>1 DEF Sized
        <4>3. Exec(Settled, <<"PUSH", values>>) \in MachinesOf(Contents)
          BY <4>2, ExecPush DEF Sized
        <4> QED
          BY <4>1, <4>3, RunOfOne
      <3>3. before \in MachinesOf(Contents)
        BY <1>1, <3>1, <3>2
      <3>4. Run(before, Times(Len(stack), <<"NIP">>)) \in MachinesOf(Contents)
        BY <3>3, PathTypes, RunNips
      <3> QED
        BY <1>2, <2>1, <3>4, MachineTypes
    <2>2. CASE ~Live
      BY <1>2, <2>2, PathTypes
    <2> QED
      BY <2>1, <2>2
  <1>5. /\ Unnamed' = Unnamed /\ Current' = Current /\ Before' = "end"
        /\ Contents' = Contents /\ Functions' = Functions /\ selected' = selected
        /\ Opened(program, at)' = 0
    <2>1. Unnamed' = Unnamed /\ Current' = Current
      BY <1>2, UnnamedKept
    <2>2. /\ Before' = "end" /\ header' = header /\ selected' = selected
          /\ Opened(program, at)' = Len(depths) + 0 - 0
      BY <1>2, VisitedMeans
    <2> QED
      BY <1>3, <2>1, <2>2, HeaderFixed
  <1>6. depths' = <<>> /\ Len(depths') = 0 /\ depths' \in Seq(Nat)
    BY <1>2, <1>3, PathTypes
  <1>7. /\ Current < selected => taken' = <<TRUE>>
        /\ ~(Current < selected) => taken' = <<FALSE>>
    <2>1. Current < selected => (Current < selected) = TRUE
      OBVIOUS
    <2>2. ~(Current < selected) => (Current < selected) = FALSE
      OBVIOUS
    <2> QED
      BY <1>2, <1>3, <2>1, <2>2
  <1>8. /\ taken' \in Seq(BOOLEAN) /\ Len(taken') = 1 /\ DOMAIN taken' = {1}
        /\ taken'[1] => Current < selected
    <2>1. CASE Current < selected
      <3>1. taken' = <<TRUE>>
        BY <1>7, <2>1
      <3>2. taken' \in Seq(BOOLEAN) /\ Len(taken') = 1 /\ DOMAIN taken' = {1}
        BY <3>1
      <3> QED
        BY <2>1, <3>2
    <2>2. CASE ~(Current < selected)
      <3>1. taken' = <<FALSE>>
        BY <1>7, <2>2
      <3>2. taken' \in Seq(BOOLEAN) /\ Len(taken') = 1 /\ DOMAIN taken' = {1}
        BY <3>1
      <3>3. ~taken'[1]
        BY <3>1
      <3> QED
        BY <3>2, <3>3
    <2> QED
      BY <2>1, <2>2
  <1>9. /\ stack' \in Seq(Slots) /\ stackCopy' \in Seq(Slots) /\ verify' \in BOOLEAN
        /\ Len(Functions) > 1 => stack' = stackCopy'
    <2>1. <<Value>> \in Seq(Slots)
      BY MachineTypes
    <2>2. CASE Len(Functions) > 1
      <3>1. stack' = stackCopy /\ stackCopy' = stackCopy /\ verify' = FALSE
        BY <1>2, <2>2 DEF StackAfter
      <3> QED
        BY <3>1, PathTypes
    <2>3. CASE ~(Len(Functions) > 1)
      <3>1. stack' = <<Value>> /\ stackCopy' = stackCopy /\ verify' = FALSE
        BY <1>2, <2>3 DEF StackAfter
      <3> QED
        BY <2>1, <2>3, <3>1, PathTypes
    <2> QED
      BY <2>2, <2>3
  <1>10. ASSUME phase' = "generate" PROVE Levels' /\ Sides' /\ Balance'
    <2>1. Current > 0 /\ Len(Functions) > 1
      BY <1>2, <1>3, <1>10 DEF Visited
    <2>2. Sides
      BY DEF GeneratorInv
    <2>3. Levels'
      BY <1>5, <1>6 DEF Levels
    <2>4. Sides'
      <3>1. Current' \in 0 .. Len(Functions') /\ Current' > 0 /\ Len(Functions') > 1
        BY <1>5, <2>1, <2>2 DEF Sides
      <3>2. Len(taken') = Len(depths') + 1
        BY <1>6, <1>8
      <3>3. taken' = <<Current' < selected'>>
        BY <1>2, <1>3, <1>5
      <3>4. "$$" \in Range(stackCopy')
        BY <1>2, <2>1, <2>2 DEF Sides
      <3> QED
        BY <1>5, <1>9, <2>1, <3>1, <3>2, <3>3, <3>4 DEF Sides
    <2>5. Balance'
      <3>1. Live' => Deep(Settled, Len(stack))'
        <4> SUFFICES ASSUME Live' PROVE Sized(machine', Contents, Len(stackCopy) + Unnamed, 0)
          <5>1. Settled' = machine'
            BY <1>2 DEF Settled
          <5> QED
            BY <1>2, <1>5, <1>9, <2>1, <5>1 DEF Deep
        <4>1. Current < selected
          BY <1>8 DEF Live
        <4>2. ~Live /\ Sized(machine, Contents, Len(stackCopy) + Len(Functions[selected]), 0)
          BY <1>3, <2>1, <4>1, ElsewhereIsDead
        <4>3. Current # selected /\ Current # 0
          BY <2>1, <4>1, PathTypes
        <4>4. PICK own \in Nat : own = Len(Functions[selected])
          BY <4>3, UnnamedIs, NodeIs, FunctionParameters
        <4>5. Unnamed = own + 0
          BY <4>3, <4>4, UnnamedIs
        <4> QED
          BY <1>2, <4>2, <4>4, <4>5
      <3> QED
        BY <1>5, <1>6, <3>1 DEF Balance
    <2> QED
      BY <2>3, <2>4, <2>5
  <1>11. /\ usedSymbols' \subseteq Names \X (0 .. header.maxNodes)
         /\ env' \in [Names -> Contents] /\ lastRun' \in Kinds
    BY <1>2, HistoryTypes
  <1> QED
    BY <1>2, <1>4, <1>6, <1>8, <1>9, <1>10, <1>11, StepTypes

\* When the compilation has failed there is nothing left to say but the types.
LEMMA CrashKeeps ==
  ASSUME GeneratorInv, Crash
  PROVE  GeneratorInv'
  <1>1. /\ phase = "generate" /\ crashed' = TRUE /\ phase' = "done"
        /\ UNCHANGED <<header, program, tables, open, ends, path>>
        /\ UNCHANGED <<at, stack, stackCopy, depths, usedSymbols>>
    BY DEF Crash
  <1>2. /\ UNCHANGED <<machine, verify, taken, selected, env, meant, lastRun>>
        /\ header' = header /\ program' = program
    BY <1>1 DEF path
  <1>3. /\ Names' = Names /\ AnyNode' = AnyNode /\ Slots' = Slots /\ Contents' = Contents
        /\ Machines' = Machines /\ Functions' = Functions
    BY <1>2, HeaderFixed
  <1>4. AnalysisInv'
    <2>1. AnalysisInv
      BY DEF GeneratorInv
    <2>2. AnalysisTypeOK'
      BY <1>1, <1>3, <2>1 DEF AnalysisInv, AnalysisTypeOK
    <2>3. Structured(header, program)' /\ Opened(program, Len(program) + 1)' = Opened(program, Len(program) + 1)
      BY <1>2, <2>1 DEF AnalysisInv
    <2> QED
      BY <1>1, <2>1, <2>2, <2>3 DEF AnalysisInv
  <1>5. TypeOK'
    BY <1>1, <1>2, <1>3, <1>4 DEF GeneratorInv, TypeOK, AnalysisInv
  <1> QED
    BY <1>1, <1>2, <1>3, <1>4, <1>5 DEF GeneratorInv

-----------------------------------------------------------------------------
(* The beginning.                                                          *)

\* At the first node nothing depends on what has been written.
LEMMA AtTheFirstNode ==
  ASSUME at = 1
  PROVE  /\ Current = 0 /\ FunctionOf(at - 1) = 0 /\ Opened(program, at) = 0 /\ Before = "none"
  <1>1. at - 1 = 0
    OBVIOUS
  <1>2. \A p, kind : Count(p, kind, 0) = 0
    BY CountNext
  <1> QED
    BY <1>1, <1>2, FunctionOfIsCount DEF Current, Opened, Before, KindBefore

LEMMA AnalyseStepKeeps ==
  ASSUME NoUnsetWithBranches, GeneratorInv, Analyse, UNCHANGED <<generator, path>>
  PROVE  GeneratorInv'
  <1>1. AnalysisInv' /\ header' = header
    BY AnalyseKeeps DEF GeneratorInv, Analyse
  <1>2. phase = "analyse"
    BY DEF Analyse, VisitVariableDefinition, VisitTupleAssignment, VisitAssign, VisitRequire,
       VisitUnset, VisitIf, VisitElse, VisitEndIf, VisitStateScript, VisitFunctionDefinition,
       VisitEnd, Statement, Visit
  <1>3. /\ at' = at /\ stack' = stack /\ stackCopy' = stackCopy /\ depths' = depths
        /\ usedSymbols' = usedSymbols /\ crashed' = crashed /\ machine' = machine
        /\ verify' = verify /\ taken' = taken /\ selected' = selected /\ env' = env
        /\ lastRun' = lastRun
    BY DEF generator, path
  <1>4. at = 1 /\ at' = 1 /\ Levels /\ Sides /\ Balance /\ TypeOK /\ (Functions # <<>> => selected > 0)
    BY <1>2, <1>3 DEF GeneratorInv
  <1>5. /\ Names' = Names /\ Slots' = Slots /\ Contents' = Contents
        /\ Machines' = Machines /\ Functions' = Functions
    BY <1>1, HeaderFixed
  <1>6. /\ Current = 0 /\ FunctionOf(at - 1) = 0 /\ Opened(program, at) = 0 /\ Before = "none"
    BY <1>4, AtTheFirstNode
  <1>7. /\ Current' = 0 /\ FunctionOf(at - 1)' = 0 /\ Opened(program, at)' = 0 /\ Before' = "none"
    <2>1. \A p, kind : Count(p, kind, 0) = 0
      BY CountNext
    <2>2. at' - 1 = 0
      BY <1>4
    <2>3. FunctionOf(at - 1)' = Current'
      BY DEF FunctionOf, Current, Count, IsNode
    <2> QED
      BY <1>4, <2>1, <2>2, <2>3 DEF Current, Opened, Before, KindBefore
  <1>8. Unnamed' = Unnamed
    BY <1>3, <1>5, <1>6, <1>7 DEF Unnamed
  <1>9. TypeOK'
    BY <1>1, <1>3, <1>4, <1>5 DEF TypeOK, AnalysisInv
  <1>10. Levels'
    BY <1>3, <1>4, <1>6, <1>7 DEF Levels
  <1>11. Sides'
    BY <1>3, <1>4, <1>5, <1>6, <1>7 DEF Sides
  <1>12. Balance'
    <2>1. Live' = Live /\ Settled' = Settled
      BY <1>3 DEF Live, Settled
    <2>2. \A m, n : Sized(m, Contents, n + Unnamed, 0) = Sized(m, Contents', n + Unnamed', 0)
      BY <1>5, <1>8
    <2>3. Live' => Deep(Settled, Len(stack))'
      BY <1>3, <1>4, <2>1, <2>2 DEF Balance, Deep
    <2>4. \A i \in 1 .. Len(depths') : Meets(i)'
      BY <1>3, <1>4, <2>2 DEF Balance, Meets, Deep
    <2> QED
      BY <1>7, <2>3, <2>4 DEF Balance
  <1>13. phase' = "generate" => at' <= Len(program')
    <2>1. phase' = "generate" => program' # <<>> /\ program' \in Seq(AnyNode')
      BY <1>1 DEF AnalysisInv, AnalysisTypeOK, AnyNode
    <2> QED
      BY <1>4, <2>1, LenProperties
  <1> QED
    BY <1>1, <1>3, <1>4, <1>5, <1>9, <1>10, <1>11, <1>12, <1>13 DEF GeneratorInv

LEMMA ValuesType ==
  ASSUME NEW names \in Seq(Names)
  PROVE  Values(names) \in Seq(Contents) /\ Len(Values(names)) = Len(names)
  <1>1. DOMAIN names = 1 .. Len(names) /\ Len(names) \in Nat
    BY LenProperties
  <1>2. \A i \in 1 .. Len(names) : Argument(names[i]) \in Contents
    BY ElementOfSeq, MachineTypes
  <1>3. Values(names) = [i \in 1 .. Len(names) |-> Argument(names[i])]
    BY <1>1 DEF Values
  <1> QED
    BY <1>1, <1>2, <1>3

\* The arguments of the path: those of the contract, those of the function, the selector.
LEMMA ArgumentsAre ==
  ASSUME header \in Headers, NEW own \in Seq(Names),
         own = IF selected = 0 THEN <<>> ELSE Functions[selected],
         NEW extra, extra = IF Len(Functions) > 1 THEN 1 ELSE 0
  PROVE  /\ Params \in Seq(Names)
         /\ Arguments \in Seq(Contents)
         /\ Len(Arguments) = Len(Params) + (Len(own) + extra)
  <1>1. Params \in Seq(Names)
    BY HeadersAssumption DEF Params, Names
  <1>2. PICK selector \in Seq(Contents) :
          selector = (IF Len(Functions) > 1 THEN <<Selector>> ELSE <<>>) /\ Len(selector) = extra
    <2>1. PICK x \in Contents : x = Selector
      BY MachineTypes
    <2>2. <<x>> \in Seq(Contents) /\ Len(<<x>>) = 1 /\ <<>> \in Seq(Contents) /\ Len(<<>>) = 0
      OBVIOUS
    <2>3. CASE Len(Functions) > 1
      <3>1. <<x>> = (IF Len(Functions) > 1 THEN <<Selector>> ELSE <<>>) /\ Len(<<x>>) = extra
        BY <2>1, <2>2, <2>3
      <3> QED
        BY <2>2, <3>1
    <2>4. CASE ~(Len(Functions) > 1)
      <3>1. <<>> = (IF Len(Functions) > 1 THEN <<Selector>> ELSE <<>>) /\ Len(<<>>) = extra
        BY <2>2, <2>4
      <3> QED
        BY <2>2, <3>1
    <2> QED
      BY <2>3, <2>4
  <1>3. CASE header.argumentOrder = "sdk"
    <2>1. PICK names \in Seq(Names) : names = own \o Params /\ Len(names) = Len(own) + Len(Params)
      BY <1>1, JoinedType
    <2>2. PICK values \in Seq(Contents) : values = Values(names) /\ Len(values) = Len(names)
      BY ValuesType
    <2>3. Arguments = selector \o values
      BY <1>2, <1>3, <2>1, <2>2 DEF Arguments
    <2>4. selector \o values \in Seq(Contents) /\ Len(selector \o values) = Len(selector) + Len(values)
      BY JoinedType
    <2>5. PICK a \in Nat, b \in Nat, c \in Nat : a = Len(own) /\ b = Len(Params) /\ c = extra
      BY <1>1, LenProperties
    <2>6. c + (a + b) = b + (a + c)
      OBVIOUS
    <2>7. Len(Arguments) = c + (a + b)
      BY <1>2, <2>1, <2>2, <2>3, <2>4, <2>5
    <2> QED
      BY <1>1, <2>3, <2>4, <2>5, <2>6, <2>7
  <1>4. CASE header.argumentOrder # "sdk"
    <2>1. PICK lower \in Seq(Names), upper \in Seq(Names) :
            /\ lower = Reverse(Params) /\ Len(lower) = Len(Params)
            /\ upper = Reverse(own) /\ Len(upper) = Len(own)
      BY <1>1, ReverseType
    <2>2. PICK first \in Seq(Contents), last \in Seq(Contents) :
            /\ first = Values(lower) /\ Len(first) = Len(lower)
            /\ last = Values(upper) /\ Len(last) = Len(upper)
      BY ValuesType
    <2>3. Arguments = first \o selector \o last
      BY <1>2, <1>4, <2>1, <2>2 DEF Arguments
    <2>4. PICK both \in Seq(Contents) : both = first \o selector /\ Len(both) = Len(first) + Len(selector)
      BY JoinedType
    <2>5. both \o last \in Seq(Contents) /\ Len(both \o last) = Len(both) + Len(last)
      BY JoinedType
    <2>6. PICK a \in Nat, b \in Nat, c \in Nat : a = Len(own) /\ b = Len(Params) /\ c = extra
      BY <1>1, LenProperties
    <2>7. (b + c) + a = b + (a + c)
      OBVIOUS
    <2>8. Len(Arguments) = (b + c) + a
      BY <1>2, <2>1, <2>2, <2>3, <2>4, <2>5, <2>6
    <2> QED
      BY <1>1, <2>3, <2>4, <2>5, <2>6, <2>7, <2>8
  <1> QED
    BY <1>3, <1>4

LEMMA InitInv == Init => GeneratorInv
  <1> SUFFICES ASSUME Init PROVE GeneratorInv
    OBVIOUS
  <1>1. AnalysisInv /\ header \in Headers
    BY AnalysisInitInv DEF Init, AnalysisInv, AnalysisTypeOK
  <1>2. /\ at = 1 /\ phase = "analyse" /\ stack = Reverse(Params) /\ stackCopy = <<>>
        /\ depths = <<>> /\ usedSymbols = {} /\ crashed = FALSE
        /\ selected \in (IF Functions = <<>> THEN {0} ELSE DOMAIN Functions)
        /\ machine = [main |-> Arguments, alt |-> <<>>, operands |-> <<>>]
        /\ verify = FALSE /\ taken = <<>>
        /\ env = [name \in Names |-> Argument(name)]
        /\ lastRun = "function"
    BY DEF Init, AnalysisInit
  <1>3. Functions \in Seq(Seq(Names)) /\ Len(Functions) \in Nat /\ header.maxNodes \in Nat
    <2>1. Functions \in Seq(Seq(Names)) /\ header.maxNodes \in Nat
      BY <1>1, HeadersAssumption DEF Functions, Names
    <2> QED
      BY <2>1, LenProperties
  <1>4. /\ selected \in 0 .. Len(Functions)
        /\ Functions = <<>> => selected = 0
        /\ Functions # <<>> => selected > 0 /\ selected \in 1 .. Len(Functions)
    <2>1. CASE Functions = <<>>
      BY <1>2, <1>3, <2>1
    <2>2. CASE Functions # <<>>
      BY <1>2, <1>3, <2>2, LenProperties
    <2> QED
      BY <2>1, <2>2
  <1>5. PICK own \in Seq(Names) :
          own = IF selected = 0 THEN <<>> ELSE Functions[selected]
    <2>1. CASE selected = 0
      <3>1. <<>> \in Seq(Names)
        OBVIOUS
      <3> QED
        BY <2>1, <3>1
    <2>2. CASE selected # 0
      BY <1>3, <1>4, <2>2, ElementOfSeq
    <2> QED
      BY <2>1, <2>2
  <1>6. PICK extra \in {0, 1} : extra = IF Len(Functions) > 1 THEN 1 ELSE 0
    OBVIOUS
  <1>7. /\ Params \in Seq(Names) /\ Arguments \in Seq(Contents)
        /\ Len(Arguments) = Len(Params) + (Len(own) + extra)
    BY <1>1, <1>5, <1>6, ArgumentsAre
  <1>8. /\ Current = 0 /\ FunctionOf(at - 1) = 0 /\ Opened(program, at) = 0 /\ Before = "none"
    BY <1>2, AtTheFirstNode
  <1>9. Unnamed = Len(own) + extra
    <2>1. CASE selected = 0
      <3>1. Functions = <<>>
        BY <1>4, <2>1
      <3>2. extra = 0 /\ Len(own) = 0
        BY <1>5, <1>6, <2>1, <3>1
      <3> QED
        BY <1>8, <2>1, <3>2 DEF Unnamed
    <2>2. CASE selected # 0
      <3>1. Unnamed = Len(Functions[selected]) + (IF Len(Functions) > 1 /\ 0 = 0 THEN 1 ELSE 0)
        BY <1>8, <2>2 DEF Unnamed
      <3> QED
        BY <1>5, <1>6, <2>2, <3>1
    <2> QED
      BY <2>1, <2>2
  <1>10. stack \in Seq(Slots) /\ Len(stack) = Len(Params)
    <2>1. Params \in Seq(Slots)
      BY <1>7, MachineTypes
    <2> QED
      BY <1>2, <2>1, ReverseType
  <1>11. Sized(machine, Contents, Len(stack) + Unnamed, 0) /\ machine \in Machines
    <2>1. <<>> \in Seq(Contents) /\ Len(<<>>) = 0
      OBVIOUS
    <2>2. machine \in MachinesOf(Contents) /\ machine.main = Arguments /\ machine.alt = <<>>
      BY <1>2, <1>7, <2>1 DEF MachinesOf
    <2> QED
      BY <1>7, <1>9, <1>10, <2>1, <2>2, MachineTypes DEF Sized
  <1>12. env \in [Names -> Contents]
    BY <1>2, MachineTypes
  <1>13. TypeOK
    <2>1. <<>> \in Seq(Slots) /\ <<>> \in Seq(Nat) /\ <<>> \in Seq(BOOLEAN)
      OBVIOUS
    <2>2. at \in 1 .. header.maxNodes + 1
      BY <1>2, <1>3
    <2>3. lastRun \in Kinds
      BY <1>2 DEF Kinds
    <2> QED
      BY <1>1, <1>2, <1>4, <1>10, <1>11, <1>12, <2>1, <2>2, <2>3 DEF TypeOK, AnalysisInv
  <1>14. Len(depths) = 0 /\ Len(taken) = 0
    BY <1>2
  <1>15. Levels
    BY <1>8, <1>14 DEF Levels
  <1>16. Sides
    BY <1>3, <1>8, <1>14 DEF Sides
  <1>17. Balance
    <2>1. Settled = machine
      BY <1>2 DEF Settled
    <2> QED
      BY <1>8, <1>11, <1>14, <2>1 DEF Balance, Deep
  <1> QED
    BY <1>1, <1>2, <1>4, <1>13, <1>15, <1>16, <1>17 DEF GeneratorInv

-----------------------------------------------------------------------------
(* The theorems.                                                           *)

LEMMA NextInv ==
  ASSUME NoUnsetWithBranches, GeneratorInv, [Next]_vars
  PROVE  GeneratorInv'
  <1>1. CASE Analyse /\ UNCHANGED <<generator, path>>
    BY <1>1, AnalyseStepKeeps
  <1>2. ASSUME phase = "generate", Generate PROVE GeneratorInv'
    <2>1. CASE GenerateDefinition
      BY <1>2, <2>1, DefinitionKeeps
    <2>2. CASE GenerateTupleAssignment
      BY <1>2, <2>2, TupleAssignmentKeeps
    <2>3. CASE GenerateAssign
      BY <1>2, <2>3, AssignKeeps
    <2>4. CASE GenerateRequire \/ GenerateTimeOp
      BY <1>2, <2>4, RequireKeeps
    <2>5. CASE GenerateUnset
      BY <1>2, <2>5, UnsetKeeps
    <2>6. CASE GenerateIf
      BY <1>2, <2>6, GenerateIfKeeps
    <2>7. CASE GenerateElse
      BY <1>2, <2>7, GenerateElseKeeps
    <2>8. CASE GenerateEndIf
      BY <1>2, <2>8, GenerateEndIfKeeps
    <2>9. CASE GenerateStateSeparator
      BY <1>2, <2>9, StateSeparatorKeeps
    <2>10. CASE GenerateFunction
      BY <1>2, <2>10, GenerateFunctionKeeps
    <2>11. CASE GenerateEnd
      BY <1>2, <2>11, GenerateEndKeeps
    <2>12. CASE ShouldNotHappen
      BY <2>12, CrashKeeps DEF ShouldNotHappen
    <2> QED
      BY <1>2, <2>1, <2>2, <2>3, <2>4, <2>5, <2>6, <2>7, <2>8, <2>9, <2>10, <2>11, <2>12 DEF Generate
  <1>3. CASE UNCHANGED vars
    <2>1. /\ UNCHANGED <<header, phase, program, tables, open, ends>>
          /\ UNCHANGED <<at, stack, stackCopy, depths, usedSymbols, crashed>>
          /\ UNCHANGED <<machine, verify, taken, selected, env, meant, lastRun>>
      BY <1>3 DEF vars, analysis, generator, path
    <2>2. /\ Names' = Names /\ AnyNode' = AnyNode /\ Slots' = Slots /\ Contents' = Contents
          /\ Machines' = Machines /\ Functions' = Functions
      BY <2>1, HeaderFixed
    <2>3. AnalysisInv /\ TypeOK
      BY DEF GeneratorInv
    <2>4. AnalysisInv'
      BY <2>1, <2>2, <2>3 DEF AnalysisInv, AnalysisTypeOK, Structured, Written, InBody, Nodes,
         IsNode, FunctionOf
    <2>5. TypeOK'
      BY <2>1, <2>2, <2>3, <2>4 DEF TypeOK, AnalysisInv
    <2>6. /\ Current' = Current /\ Before' = Before /\ Opened(program, at)' = Opened(program, at)
          /\ Unnamed' = Unnamed /\ Live' = Live /\ Settled' = Settled
      BY <2>1, <2>2 DEF Current, Before, Unnamed, Live, Settled, FunctionOf, IsNode
    <2>7. phase # "done" => Levels' /\ Sides' /\ Balance'
      <3> SUFFICES ASSUME phase # "done" PROVE Levels' /\ Sides' /\ Balance'
        OBVIOUS
      <3>1. Levels /\ Sides /\ Balance
        BY DEF GeneratorInv
      <3>2. Levels' /\ Sides'
        BY <2>1, <2>2, <2>6, <3>1 DEF Levels, Sides
      <3>3. Balance'
        BY <2>1, <2>2, <2>6, <3>1 DEF Balance, Meets, Deep
      <3> QED
        BY <3>2, <3>3
    <2> QED
      BY <2>1, <2>2, <2>4, <2>5, <2>7 DEF GeneratorInv
  <1> QED
    BY <1>1, <1>2, <1>3 DEF Next

\* The symbolic stack holds names and marks, the machine and the history values of the
\* contract, whatever is compiled.
THEOREM TypeCorrect ==
  ASSUME NoUnsetWithBranches
  PROVE  Spec => []TypeOK
  <1>1. Init => GeneratorInv
    BY InitInv
  <1>2. GeneratorInv /\ [Next]_vars => GeneratorInv'
    BY NextInv
  <1>3. GeneratorInv => TypeOK
    BY DEF GeneratorInv
  <1> QED
    BY <1>1, <1>2, <1>3, PTL DEF Spec

\* Whatever is compiled, the symbolic stack is as deep as the machine's on every path to
\* a node, whichever branches it took, with the arguments no function has named yet below
\* it and nothing on the alternative stack: the depths emitted for one path hold for all.
THEOREM StacksAgreeAlways ==
  ASSUME NoUnsetWithBranches
  PROVE  Spec => []StacksAgree
  <1>1. Init => GeneratorInv
    BY InitInv
  <1>2. GeneratorInv /\ [Next]_vars => GeneratorInv'
    BY NextInv
  <1>3. GeneratorInv => StacksAgree
    <2> SUFFICES ASSUME GeneratorInv, Following
                 PROVE  Len(Settled.main) = Len(stack) + Unnamed /\ Settled.alt = <<>>
      BY DEF StacksAgree
    <2>1. Sized(Settled, Contents, Len(stack) + Unnamed, 0)
      BY PathTypes DEF Following
    <2> QED
      BY <2>1 DEF Sized, MachinesOf
  <1> QED
    BY <1>1, <1>2, <1>3, PTL DEF Spec

-----------------------------------------------------------------------------
(* Declarations and what they are visible to.                              *)

LEMMA ProgramIs ==
  ASSUME ScopeInv
  PROVE  /\ header \in Headers /\ Len(program) \in Nat /\ Nodes = 1 .. Len(program)
         /\ \A i \in 1 .. Len(program) :
              /\ program[i] \in AnyNode
              /\ program[i].targets \in Seq(Names) /\ program[i].operands \in Seq(Names)
              /\ NodeScoped(program, i)
              /\ NodeFits(header, program[i], Opened(program, i), Count(program, "function", i),
                          KindBefore(program, i))
  <1>1. program \in Seq(AnyNode) /\ header \in Headers
    BY DEF ScopeInv, AnalysisInv, AnalysisTypeOK, AnyNode
  <1>2. Len(program) \in Nat /\ Nodes = 1 .. Len(program)
    BY <1>1, LenProperties DEF Nodes
  <1>3. \A i \in 1 .. Len(program) : program[i] \in AnyNode
    BY <1>1, ElementOfSeq
  <1> QED
    BY <1>1, <1>2, <1>3 DEF ScopeInv, AnalysisInv, WellScoped, Structured, AnyNode

LEMMA DeclarationIs ==
  ASSUME ScopeInv, NEW name, NEW i \in Nat
  PROVE  /\ DeclarationOf(name, i) \in Nat
         /\ DeclarationOf(name, i) # 0 =>
              /\ DeclarationOf(name, i) \in 1 .. Len(program) /\ DeclarationOf(name, i) < i
              /\ Declares(program, DeclarationOf(name, i), name)
         /\ \A j \in 1 .. Len(program) :
              j < i /\ Declares(program, j, name) => j <= DeclarationOf(name, i)
  <1>1. Len(program) \in Nat /\ Nodes = 1 .. Len(program)
    BY ProgramIs
  <1>2. PICK T : T = {0} \cup {j \in Nodes : j < i /\ Declares(program, j, name)}
    OBVIOUS
  <1>3. DeclarationOf(name, i) = Max(T)
    <2>1. {j \in Nodes : /\ j < i
                         /\ program[j].kind \in {"define", "tuple", "function"}
                         /\ name \in Range(program[j].targets)}
            = {j \in Nodes : j < i /\ Declares(program, j, name)}
      BY DEF Declares
    <2> QED
      BY <1>2, <2>1 DEF DeclarationOf
  <1>4. T \subseteq 0 .. Len(program) /\ T # {}
    BY <1>1, <1>2
  <1>5. Max(T) \in T /\ \A x \in T : x <= Max(T)
    BY <1>1, <1>4, GreatestElement
  <1> QED
    BY <1>1, <1>2, <1>3, <1>4, <1>5

LEMMA DeclarationNext ==
  ASSUME ScopeInv, NEW name, NEW i \in 1 .. Len(program)
  PROVE  DeclarationOf(name, i + 1) =
           IF Declares(program, i, name) THEN i ELSE DeclarationOf(name, i)
  <1>1. i \in Nat /\ i + 1 \in Nat
    BY ProgramIs
  <1>2. /\ DeclarationOf(name, i) \in Nat
        /\ DeclarationOf(name, i) # 0 =>
             /\ DeclarationOf(name, i) \in 1 .. Len(program) /\ DeclarationOf(name, i) < i
             /\ Declares(program, DeclarationOf(name, i), name)
        /\ \A j \in 1 .. Len(program) :
             j < i /\ Declares(program, j, name) => j <= DeclarationOf(name, i)
    BY <1>1, DeclarationIs
  <1>3. /\ DeclarationOf(name, i + 1) \in Nat
        /\ DeclarationOf(name, i + 1) # 0 =>
             /\ DeclarationOf(name, i + 1) \in 1 .. Len(program) /\ DeclarationOf(name, i + 1) < i + 1
             /\ Declares(program, DeclarationOf(name, i + 1), name)
        /\ \A j \in 1 .. Len(program) :
             j < i + 1 /\ Declares(program, j, name) => j <= DeclarationOf(name, i + 1)
    BY <1>1, DeclarationIs
  <1> QED
    BY <1>1, <1>2, <1>3, ProgramIs

\* A mention refers to a declaration before node a: the one in force there.
LEMMA DeclarationBefore ==
  ASSUME ScopeInv, NEW name, NEW a \in Nat, NEW i \in Nat, a <= i, DeclarationOf(name, i) < a
  PROVE  DeclarationOf(name, a) = DeclarationOf(name, i)
  <1>1. /\ DeclarationOf(name, i) \in Nat
        /\ DeclarationOf(name, i) # 0 =>
             /\ DeclarationOf(name, i) \in 1 .. Len(program) /\ DeclarationOf(name, i) < i
             /\ Declares(program, DeclarationOf(name, i), name)
        /\ \A j \in 1 .. Len(program) :
             j < i /\ Declares(program, j, name) => j <= DeclarationOf(name, i)
    BY DeclarationIs
  <1>2. /\ DeclarationOf(name, a) \in Nat
        /\ DeclarationOf(name, a) # 0 =>
             /\ DeclarationOf(name, a) \in 1 .. Len(program) /\ DeclarationOf(name, a) < a
             /\ Declares(program, DeclarationOf(name, a), name)
        /\ \A j \in 1 .. Len(program) :
             j < a /\ Declares(program, j, name) => j <= DeclarationOf(name, a)
    BY DeclarationIs
  <1> QED
    BY <1>1, <1>2

\* A visible name is a parameter nothing has declared anew, or its last declaration is
\* still in scope.
LEMMA VisibleMeans ==
  ASSUME ScopeInv, NEW name, NEW i \in Nat \ {0}, i <= Len(program) + 1, VisibleAt(program, name, i)
  PROVE  /\ DeclarationOf(name, i) = 0 => name \in Outermost
         /\ DeclarationOf(name, i) # 0 => InScope(program, DeclarationOf(name, i), i)
                                          /\ name \notin Outermost
  <1>1. /\ DeclarationOf(name, i) \in Nat
        /\ DeclarationOf(name, i) # 0 =>
             /\ DeclarationOf(name, i) \in 1 .. Len(program) /\ DeclarationOf(name, i) < i
             /\ Declares(program, DeclarationOf(name, i), name)
        /\ \A j \in 1 .. Len(program) :
             j < i /\ Declares(program, j, name) => j <= DeclarationOf(name, i)
    BY DeclarationIs
  <1>2. Len(program) \in Nat /\ \A j \in 1 .. Len(program) :
          Declares(program, j, name) => ~VisibleAt(program, name, j)
    BY ProgramIs DEF NodeScoped
  <1>3. name \in Outermost => DeclarationOf(name, i) = 0
    BY <1>1, <1>2 DEF VisibleAt
  <1>4. ASSUME name \notin Outermost
        PROVE  DeclarationOf(name, i) # 0 /\ InScope(program, DeclarationOf(name, i), i)
    <2>1. PICK j \in 1 .. i - 1 : Declares(program, j, name) /\ InScope(program, j, i)
      BY <1>4 DEF VisibleAt
    <2>2. j \in 1 .. Len(program) /\ j < i /\ j <= DeclarationOf(name, i)
      BY <1>1, <1>2, <2>1
    <2>3. PICK d \in 1 .. Len(program) : d = DeclarationOf(name, i) /\ d < i /\ j <= d
      BY <1>1, <2>2
    <2>4. CASE j < d
      <3>1. InScope(program, j, d)
        BY <1>2, <2>1, <2>3 DEF InScope
      <3>2. VisibleAt(program, name, d)
        BY <1>2, <2>1, <2>2, <2>3, <2>4, <3>1 DEF VisibleAt
      <3> QED
        BY <1>1, <1>2, <2>3, <3>2
    <2> QED
      BY <1>2, <2>1, <2>2, <2>3, <2>4
  <1> QED
    BY <1>3, <1>4

LEMMA InScopeNext ==
  ASSUME NEW i \in Nat, NEW j \in Nat, j < i
  PROVE  /\ InScope(program, j, i + 1) <=>
              InScope(program, j, i) /\ (Closes(program, i) => Level(program, j) < Level(program, i))
         /\ InScope(program, i, i + 1)
  <1>1. \A k : k \in j + 1 .. i + 1 - 1 <=> k \in j + 1 .. i - 1 \/ k = i
    OBVIOUS
  <1>2. \A k : k \notin i + 1 .. i + 1 - 1
    OBVIOUS
  <1> QED
    BY <1>1, <1>2 DEF InScope

\* How deep a name is declared that node i sees.
DeclaredLevel(name, i) ==
    IF DeclarationOf(name, i) = 0 THEN 0 ELSE Level(program, DeclarationOf(name, i))

LEMMA VisibleNext ==
  ASSUME ScopeInv, NEW name, NEW i \in 1 .. Len(program)
  PROVE  /\ Declares(program, i, name) => VisibleAt(program, name, i + 1)
         /\ VisibleAt(program, name, i) =>
              /\ ~Declares(program, i, name)
              /\ DeclarationOf(name, i + 1) = DeclarationOf(name, i)
              /\ DeclaredLevel(name, i + 1) = DeclaredLevel(name, i)
              /\ \/ ~Closes(program, i)
                 \/ DeclaredLevel(name, i) < Level(program, i)
                 => VisibleAt(program, name, i + 1)
  <1>1. Len(program) \in Nat /\ i \in Nat \ {0} /\ i <= Len(program) + 1
    BY ProgramIs
  <1>2. ASSUME Declares(program, i, name) PROVE VisibleAt(program, name, i + 1)
    <2>1. i \in 1 .. i + 1 - 1 /\ 0 \in Nat /\ 0 < i
      BY <1>1
    <2>2. InScope(program, i, i + 1)
      BY <1>1, <2>1, InScopeNext
    <2> QED
      BY <1>2, <2>1, <2>2 DEF VisibleAt
  <1>3. ASSUME VisibleAt(program, name, i)
        PROVE  /\ ~Declares(program, i, name)
               /\ DeclarationOf(name, i + 1) = DeclarationOf(name, i)
               /\ DeclaredLevel(name, i + 1) = DeclaredLevel(name, i)
    <2>1. ~Declares(program, i, name)
      BY <1>3, ProgramIs DEF NodeScoped
    <2>2. DeclarationOf(name, i + 1) = DeclarationOf(name, i)
      BY <2>1, DeclarationNext
    <2> QED
      BY <2>1, <2>2 DEF DeclaredLevel
  <1>4. ASSUME VisibleAt(program, name, i),
               ~Closes(program, i) \/ DeclaredLevel(name, i) < Level(program, i)
        PROVE  VisibleAt(program, name, i + 1)
    <2>1. CASE name \in Outermost
      BY <2>1 DEF VisibleAt
    <2>2. CASE name \notin Outermost
      <3>1. DeclarationOf(name, i) # 0 /\ InScope(program, DeclarationOf(name, i), i)
        BY <1>1, <1>4, <2>2, VisibleMeans
      <3>2. PICK d \in 1 .. Len(program) :
              d = DeclarationOf(name, i) /\ d < i /\ Declares(program, d, name)
        BY <1>1, <3>1, DeclarationIs
      <3>3. d \in Nat /\ d \in 1 .. i + 1 - 1
        BY <1>1, <3>2
      <3>4. Closes(program, i) => Level(program, d) < Level(program, i)
        BY <1>4, <3>1, <3>2 DEF DeclaredLevel
      <3>5. InScope(program, d, i + 1)
        BY <1>1, <3>1, <3>2, <3>3, <3>4, InScopeNext
      <3> QED
        BY <3>2, <3>3, <3>5 DEF VisibleAt
    <2> QED
      BY <2>1, <2>2
  <1> QED
    BY <1>2, <1>3, <1>4

\* A mention of what is declared before node a.
LEMMA MentionMeans ==
  ASSUME ScopeInv, NEW name, NEW a \in Nat \ {0}, NEW i \in 1 .. Len(program), a <= i,
         MentionedBy(program, i, name), DeclarationOf(name, i) < a
  PROVE  /\ DeclarationOf(name, a) = DeclarationOf(name, i)
         /\ DeclaredLevel(name, a) = DeclaredLevel(name, i)
         /\ VisibleAt(program, name, a)
         /\ DeclarationOf(name, a) = 0 => name \in Outermost
         /\ DeclarationOf(name, a) # 0 =>
              \A k \in a .. i - 1 : Closes(program, k) => DeclaredLevel(name, a) < Level(program, k)
  <1>1. Len(program) \in Nat /\ i \in Nat \ {0} /\ i <= Len(program) + 1 /\ a \in Nat
    BY ProgramIs
  <1>2. DeclarationOf(name, a) = DeclarationOf(name, i)
    BY <1>1, DeclarationBefore
  <1>3. VisibleAt(program, name, i)
    BY ProgramIs DEF NodeScoped
  <1>4. CASE DeclarationOf(name, i) = 0
    <2>1. name \in Outermost
      BY <1>1, <1>3, <1>4, VisibleMeans
    <2> QED
      BY <1>2, <1>4, <2>1 DEF VisibleAt, DeclaredLevel
  <1>5. CASE DeclarationOf(name, i) # 0
    <2>1. InScope(program, DeclarationOf(name, i), i)
      BY <1>1, <1>3, <1>5, VisibleMeans
    <2>2. PICK d \in 1 .. Len(program) :
            d = DeclarationOf(name, i) /\ d < i /\ Declares(program, d, name)
      BY <1>1, <1>5, DeclarationIs
    <2>3. d \in Nat /\ d < a /\ d \in 1 .. a - 1
      BY <1>1, <2>2
    <2>4. InScope(program, d, a)
      BY <1>1, <2>1, <2>2, <2>3 DEF InScope
    <2>5. \A k \in a .. i - 1 : Closes(program, k) => Level(program, d) < Level(program, k)
      BY <1>1, <2>1, <2>2, <2>3 DEF InScope
    <2> QED
      BY <1>2, <1>5, <2>2, <2>3, <2>4, <2>5 DEF VisibleAt, DeclaredLevel
  <1> QED
    BY <1>4, <1>5

LEMMA MentionIs ==
  ASSUME ScopeInv, NEW i \in 1 .. Len(program), NEW name
  PROVE  /\ name \in Range(Mentions(i)) <=> MentionedBy(program, i, name)
         /\ MentionedBy(program, i, name) => name \in Names
  <1>1. program[i].targets \in Seq(Names) /\ program[i].operands \in Seq(Names) /\ <<>> \in Seq(Names)
    BY ProgramIs
  <1>2. \A a, b \in Seq(Names) : Range(a \o b) = Range(a) \cup Range(b)
    BY RangeConcatenation
  <1>3. Range(<<>>) = {}
    BY DEF Range
  <1>4. \A a \in Seq(Names) : Range(a) \subseteq Names
    BY RangeOfSeq
  <1>5. PICK a \in Seq(Names) : a = IF program[i].kind = "assign" THEN program[i].targets ELSE <<>>
    <2>1. CASE program[i].kind = "assign"
      BY <1>1, <2>1
    <2>2. CASE program[i].kind # "assign"
      BY <1>1, <2>2
    <2> QED
      BY <2>1, <2>2
  <1>6. Mentions(i) = a \o program[i].operands
    BY <1>5 DEF Mentions, IsNode
  <1>7. Range(Mentions(i)) = Range(a) \cup Range(program[i].operands)
    BY <1>1, <1>2, <1>6
  <1>8. name \in Range(a) <=> program[i].kind = "assign" /\ name \in Range(program[i].targets)
    BY <1>3, <1>5
  <1>9. name \in Range(Mentions(i)) <=> MentionedBy(program, i, name)
    BY <1>7, <1>8 DEF MentionedBy
  <1>10. Range(a) \subseteq Names /\ Range(program[i].operands) \subseteq Names
    BY <1>1, <1>4
  <1> QED
    BY <1>7, <1>9, <1>10

-----------------------------------------------------------------------------
(* The names on the symbolic stack.                                        *)

In(f) == IF f > 0 THEN 1 ELSE 0

\* Only visible names have slots, and the slots above the depth of a branch in progress
\* are those of what is declared in it.
SlotsScoped(a, f, st, ds) ==
    \A p \in 1 .. Len(st) : st[p] \in Names =>
      /\ VisibleAt(program, st[p], a)
      /\ DeclaredLevel(st[p], a) <= Len(ds) + In(f)
      /\ \A t \in 1 .. Len(ds) :
           p <= Len(st) - ds[t] <=> DeclaredLevel(st[p], a) > Len(ds) - t + In(f)

\* What a function leaves to the next one.
CopyScoped(a, copy) ==
    \A p \in 1 .. Len(copy) : copy[p] \in Names =>
      VisibleAt(program, copy[p], a) /\ DeclaredLevel(copy[p], a) = 0

\* A closed branch was open.
LEMMA OpenedType ==
  ASSUME ScopeInv
  PROVE  \A i \in Nat \ {0} : i <= Len(program) + 1 => Opened(program, i) \in Nat
  <1> DEFINE D == {i \in Nat : i <= Len(program) => Opened(program, i + 1) \in Nat}
  <1>1. \A i \in Nat : \A kind : Count(program, kind, i) \in Nat /\ Count(program, kind, 0) = 0
    BY CountNext
  <1>2. 0 \in D
    BY <1>1 DEF Opened
  <1>3. ASSUME NEW i \in Nat, i \in D PROVE i + 1 \in D
    <2> SUFFICES ASSUME i + 1 <= Len(program) PROVE Opened(program, i + 1 + 1) \in Nat
      OBVIOUS
    <2>1. Len(program) \in Nat /\ i + 1 \in 1 .. Len(program)
      BY ProgramIs
    <2>2. Opened(program, i + 1) \in Nat
      BY <1>3, <2>1
    <2>3. program[i + 1].kind = "endif" => Opened(program, i + 1) > 0
      BY <2>1, ProgramIs DEF NodeFits
    <2>4. /\ Count(program, "if", i + 1) =
               Count(program, "if", i) + (IF program[i + 1].kind = "if" THEN 1 ELSE 0)
          /\ Count(program, "endif", i + 1) =
               Count(program, "endif", i) + (IF program[i + 1].kind = "endif" THEN 1 ELSE 0)
      BY CountsNext
    <2>5. PICK o \in Nat, x \in Nat, y \in Nat :
            /\ o = Opened(program, i + 1)
            /\ x = Count(program, "if", i) /\ y = Count(program, "endif", i)
      BY <1>1, <2>2
    <2>6. o = x - y
      <3>1. i + 1 - 1 = i
        OBVIOUS
      <3> QED
        BY <2>5, <3>1 DEF Opened
    <2>7. Opened(program, i + 1 + 1) =
            (x + (IF program[i + 1].kind = "if" THEN 1 ELSE 0))
              - (y + (IF program[i + 1].kind = "endif" THEN 1 ELSE 0))
      <3>1. i + 1 + 1 - 1 = i + 1
        OBVIOUS
      <3> QED
        BY <2>4, <2>5, <3>1 DEF Opened
    <2> QED
      BY <2>3, <2>5, <2>6, <2>7
  <1>4. \A i \in Nat : i \in D
    <2> HIDE DEF D
    <2> QED
      BY <1>2, <1>3, InductionOnSet
  <1>5. ASSUME NEW i \in Nat \ {0}, i <= Len(program) + 1 PROVE Opened(program, i) \in Nat
    <2>1. i - 1 \in Nat /\ i - 1 <= Len(program) /\ i - 1 + 1 = i
      BY <1>5, ProgramIs
    <2> QED
      BY <1>4, <2>1
  <1> QED
    BY <1>5

LEMMA LevelType ==
  ASSUME ScopeInv
  PROVE  /\ \A i \in 1 .. Len(program) : Level(program, i) \in Nat
         /\ \A name : \A i \in Nat : DeclaredLevel(name, i) \in Nat
  <1>1. \A i \in 1 .. Len(program) : Level(program, i) \in Nat
    BY OpenedType, ProgramIs DEF Level
  <1>2. \A name : \A i \in Nat : DeclaredLevel(name, i) \in Nat
    BY <1>1, DeclarationIs DEF DeclaredLevel
  <1> QED
    BY <1>1, <1>2

LEMMA FunctionOfGrows ==
  ASSUME NEW i \in Nat, NEW j \in Nat, i <= j
  PROVE  FunctionOf(i) \in Nat /\ FunctionOf(j) \in Nat /\ FunctionOf(i) <= FunctionOf(j)
  <1>1. PICK A, B : /\ A = {k \in 1 .. i : IsNode(k, "function")}
                    /\ B = {k \in 1 .. j : IsNode(k, "function")}
    OBVIOUS
  <1>2. A \subseteq B /\ B \subseteq 1 .. j
    BY <1>1
  <1>3. IsFiniteSet(B)
    <2>1. 1 \in Int /\ j \in Int
      OBVIOUS
    <2>2. IsFiniteSet(1 .. j)
      BY <2>1, FS_Interval
    <2> QED
      BY <1>2, <2>2, FS_Subset
  <1>4. Cardinality(A) <= Cardinality(B) /\ IsFiniteSet(A)
    BY <1>2, <1>3, FS_Subset
  <1> QED
    BY <1>1, <1>3, <1>4, FS_CardinalityType DEF FunctionOf

LEMMA AtIs ==
  ASSUME ScopeInv, GeneratorInv, phase = "generate"
  PROVE  /\ at \in 1 .. Len(program) /\ at \in Nat \ {0} /\ Len(program) \in Nat
         /\ program[at] = Node /\ NodeScoped(program, at)
         /\ Level(program, at) = Len(depths) + In(FunctionOf(at))
         /\ FunctionOf(at - 1) = Current
         /\ Node.kind # "function" => FunctionOf(at) = Current
         /\ Closes(program, at) <=> Node.kind \in {"else", "endif", "end"}
         /\ \A name : Declares(program, at, name) <=>
              Node.kind \in {"define", "tuple", "function"} /\ name \in Range(Node.targets)
  <1>1. /\ at \in Nat \ {0} /\ at <= Len(program) /\ Current \in Nat
        /\ FunctionOf(at) = Current + (IF Node.kind = "function" THEN 1 ELSE 0)
    BY NodeIs
  <1>2. Len(program) \in Nat /\ \A i \in 1 .. Len(program) : NodeScoped(program, i)
    BY ProgramIs
  <1>3. Level(program, at) = Len(depths) + In(FunctionOf(at))
    BY FunctionOfIsCount DEF GeneratorInv, Levels, Level, In
  <1>4. FunctionOf(at - 1) = Current
    BY FunctionOfIsCount DEF Current
  <1> QED
    BY <1>1, <1>2, <1>3, <1>4 DEF Node, Closes, Declares

LEMMA SlotsStep ==
  ASSUME ScopeInv, GeneratorInv, phase = "generate",
         Node.kind \in {"define", "tuple", "assign", "require", "time", "if", "separator"},
         SlotsScoped(at, Current, stack, depths),
         NEW st, NEW n \in Nat, n = Len(st), NEW k \in Nat,
         depths # <<>> => /\ n = Len(stack) + k
                          /\ \A i \in 1 .. Len(stack) : st[k + i] = stack[i]
                          /\ \A i \in 1 .. k : st[i] \in Names => Declares(program, at, st[i]),
         \A i \in 1 .. n : st[i] \in Names => Declares(program, at, st[i]) \/ st[i] \in Range(stack)
  PROVE  SlotsScoped(at + 1, Current, st, depths)
  <1>1. /\ at \in 1 .. Len(program) /\ at \in Nat \ {0} /\ ~Closes(program, at)
        /\ Level(program, at) = Len(depths) + In(Current)
    BY AtIs
  <1>2. /\ Len(stack) \in Nat /\ DOMAIN stack = 1 .. Len(stack) /\ Len(depths) \in Nat
        /\ In(Current) \in Nat
        /\ \A t \in 1 .. Len(depths) : depths[t] \in Nat /\ depths[t] <= Len(stack)
    BY PathTypes, LenProperties DEF In
  <1>4. ASSUME NEW p \in 1 .. n, st[p] \in Names
        PROVE  /\ VisibleAt(program, st[p], at + 1)
               /\ DeclaredLevel(st[p], at + 1) <= Len(depths) + In(Current)
               /\ \A t \in 1 .. Len(depths) :
                    p <= n - depths[t] <=> DeclaredLevel(st[p], at + 1) > Len(depths) - t + In(Current)
    <2>1. CASE Declares(program, at, st[p])
      <3>1. VisibleAt(program, st[p], at + 1)
        BY <1>1, <2>1, VisibleNext
      <3>2. DeclaredLevel(st[p], at + 1) = Len(depths) + In(Current)
        <4>1. DeclarationOf(st[p], at + 1) = at
          BY <1>1, <2>1, DeclarationNext
        <4> QED
          BY <1>1, <4>1 DEF DeclaredLevel
      <3>3. ASSUME NEW t \in 1 .. Len(depths) PROVE p <= n - depths[t]
        <4>1. Len(depths) # 0
          BY <1>2
        <4>2. depths # <<>>
          BY <4>1
        <4>3. p <= k
          <5>1. SUFFICES ASSUME p > k PROVE FALSE
            BY <1>2
          <5>2. PICK i \in 1 .. Len(stack) : p = k + i
            <6>1. p - k \in 1 .. Len(stack) /\ p = k + (p - k)
              BY <1>2, <4>2, <5>1
            <6> QED
              BY <6>1
          <5>3. stack[i] = st[p]
            BY <4>2, <5>2
          <5>4. VisibleAt(program, st[p], at)
            BY <1>4, <5>3 DEF SlotsScoped
          <5> QED
            BY <1>1, <2>1, <5>4, VisibleNext
        <4> QED
          BY <1>2, <4>2, <4>3
      <3> QED
        BY <1>2, <3>1, <3>2, <3>3
    <2>2. CASE ~Declares(program, at, st[p])
      <3>1. PICK q \in 1 .. Len(stack) : stack[q] = st[p] /\ (depths # <<>> => p = k + q)
        <4>1. CASE depths # <<>>
          <5>1. p > k
            BY <1>2, <1>4, <2>2, <4>1
          <5>2. p - k \in 1 .. Len(stack) /\ p = k + (p - k)
            BY <1>2, <4>1, <5>1
          <5>3. stack[p - k] = st[k + (p - k)]
            BY <4>1, <5>2
          <5> QED
            BY <5>2, <5>3
        <4>2. CASE depths = <<>>
          <5>1. st[p] \in Range(stack)
            BY <1>4, <2>2
          <5> QED
            BY <1>2, <4>2, <5>1 DEF Range
        <4> QED
          BY <4>1, <4>2
      <3>2. /\ VisibleAt(program, st[p], at)
            /\ DeclaredLevel(st[p], at) <= Len(depths) + In(Current)
            /\ \A t \in 1 .. Len(depths) :
                 q <= Len(stack) - depths[t] <=> DeclaredLevel(st[p], at) > Len(depths) - t + In(Current)
        BY <1>4, <3>1 DEF SlotsScoped
      <3>3. VisibleAt(program, st[p], at + 1) /\ DeclaredLevel(st[p], at + 1) = DeclaredLevel(st[p], at)
        BY <1>1, <3>2, VisibleNext
      <3>4. ASSUME NEW t \in 1 .. Len(depths) PROVE p <= n - depths[t] <=> q <= Len(stack) - depths[t]
        <4>1. Len(depths) # 0
          BY <1>2
        <4>2. depths # <<>>
          BY <4>1
        <4>3. PICK e \in Nat, l \in Nat : e = depths[t] /\ l = Len(stack)
          BY <1>2
        <4>4. p = k + q /\ n = l + k
          BY <3>1, <4>2, <4>3
        <4> QED
          BY <4>3, <4>4
      <3> QED
        BY <3>2, <3>3, <3>4
    <2> QED
      BY <2>1, <2>2
  <1> QED
    BY <1>4 DEF SlotsScoped

LEMMA Shifted == \A l, d, e, p \in Nat : l - d + p <= l - e <=> p <= d - e
  OBVIOUS

\* A block is left, with the slots of what is declared in it.
LEMMA SlotsLeft ==
  ASSUME ScopeInv, GeneratorInv, phase = "generate", Node.kind \in {"else", "endif"},
         SlotsScoped(at, Current, stack, depths),
         NEW d \in Nat, d = depths[1], d <= Len(stack), Len(depths) >= 1,
         NEW st, Len(st) = d, \A i \in 1 .. d : st[i] = stack[Len(stack) - d + i],
         NEW k, k = IF Node.kind = "endif" THEN 1 ELSE 0,
         NEW ds, Len(ds) = Len(depths) - k, \A t \in 1 .. Len(ds) : ds[t] = depths[t + k]
  PROVE  SlotsScoped(at + 1, Current, st, ds)
  <1>1. /\ at \in 1 .. Len(program) /\ at \in Nat \ {0}
        /\ Level(program, at) = Len(depths) + In(Current)
    BY AtIs
  <1>2. PICK l \in Nat, n \in Nat, b \in Nat :
          l = Len(stack) /\ n = Len(depths) /\ b = In(Current) /\ d <= l /\ n >= 1
    BY PathTypes DEF In
  <1>3. \A t \in 1 .. n : depths[t] \in Nat
    BY <1>2, PathTypes
  <1>4. ASSUME NEW p \in 1 .. d, st[p] \in Names
        PROVE  /\ VisibleAt(program, st[p], at + 1)
               /\ DeclaredLevel(st[p], at + 1) <= Len(ds) + b
               /\ \A t \in 1 .. Len(ds) :
                    p <= d - ds[t] <=> DeclaredLevel(st[p], at + 1) > Len(ds) - t + b
    <2>1. PICK q \in 1 .. l : q = l - d + p /\ stack[q] = st[p]
      <3>1. l - d + p \in 1 .. l /\ stack[l - d + p] = st[p]
        BY <1>2
      <3> QED
        BY <3>1
    <2>2. /\ VisibleAt(program, st[p], at)
          /\ \A t \in 1 .. n : q <= l - depths[t] <=> DeclaredLevel(st[p], at) > n - t + b
      BY <1>2, <1>4, <2>1 DEF SlotsScoped
    <2>3. PICK x \in Nat : x = DeclaredLevel(st[p], at)
      BY <1>1, LevelType
    <2>4. ~(x > n - 1 + b)
      <3>1. 1 \in 1 .. n /\ ~(q <= l - d)
        BY <1>2, <2>1
      <3> QED
        BY <2>2, <2>3, <3>1
    <2>5. x < Level(program, at) /\ x <= n - 1 + b
      <3>1. Level(program, at) = n + b
        BY <1>1, <1>2
      <3>2. x <= n - 1 + b
        BY ONLY <2>3, <2>4, n \in Nat, b \in Nat
      <3>3. x < n + b
        BY ONLY <2>3, <3>2, n \in Nat, b \in Nat
      <3> QED
        BY <3>1, <3>2, <3>3
    <2>6. VisibleAt(program, st[p], at + 1) /\ DeclaredLevel(st[p], at + 1) = x
      BY <1>1, <2>2, <2>3, <2>5, VisibleNext
    <2>7. x <= Len(ds) + b
      BY <1>2, <2>5
    <2>8. ASSUME NEW t \in 1 .. Len(ds)
          PROVE  p <= d - ds[t] <=> x > Len(ds) - t + b
      <3>1. PICK e \in Nat : e = ds[t] /\ e = depths[t + k] /\ t + k \in 1 .. n
        BY <1>2, <1>3
      <3>2. q <= l - e <=> x > n - (t + k) + b
        BY <2>2, <2>3, <3>1
      <3>3. q <= l - e <=> p <= d - e
        <4>1. q = l - d + p /\ p \in Nat
          BY <2>1
        <4>2. l - d + p <= l - e <=> p <= d - e
          BY <4>1, Shifted
        <4> QED
          BY <4>1, <4>2
      <3>4. n - (t + k) + b = Len(ds) - t + b
        BY <1>2
      <3> QED
        BY <3>1, <3>2, <3>3, <3>4
    <2> QED
      BY <2>6, <2>7, <2>8
  <1> QED
    BY <1>2, <1>4 DEF SlotsScoped

\* No block of a function hides what is declared before all of them.
LEMMA CopyNext ==
  ASSUME ScopeInv, GeneratorInv, phase = "generate", Current > 0,
         NEW copy, CopyScoped(at, copy)
  PROVE  CopyScoped(at + 1, copy)
  <1>1. /\ at \in 1 .. Len(program) /\ at \in Nat \ {0}
        /\ Level(program, at) = Len(depths) + In(FunctionOf(at))
        /\ FunctionOf(at) > 0 /\ Len(depths) \in Nat
    <2>1. FunctionOf(at) >= Current /\ FunctionOf(at) \in Nat /\ Len(depths) \in Nat /\ Current \in Nat
      BY NodeIs
    <2> QED
      BY <2>1, AtIs
  <1>2. 0 < Level(program, at)
    BY <1>1 DEF In
  <1> QED
    BY <1>1, <1>2, VisibleNext DEF CopyScoped

\* A function starts with slots that are visible to all of them, and its parameters.
LEMMA FunctionSlots ==
  ASSUME ScopeInv, GeneratorInv, phase = "generate", Node.kind = "function",
         NEW slots, CopyScoped(at, slots), NEW f \in Nat \ {0},
         NEW st, \A p \in 1 .. Len(st) : st[p] \in Names =>
                   \/ st[p] \in Range(Node.targets)
                   \/ \E q \in 1 .. Len(slots) : st[p] = slots[q]
  PROVE  SlotsScoped(at + 1, f, st, <<>>) /\ CopyScoped(at + 1, slots)
  <1>1. /\ at \in 1 .. Len(program) /\ at \in Nat \ {0} /\ ~Closes(program, at)
        /\ Level(program, at) = Len(depths) + In(FunctionOf(at))
    BY AtIs
  <1>2. Len(depths) = 0 /\ FunctionOf(at) \in Nat
    BY NodeIs DEF NodeFits
  <1>3. Level(program, at) <= 1
    BY <1>1, <1>2 DEF In
  <1>4. CopyScoped(at + 1, slots)
    BY <1>1, VisibleNext DEF CopyScoped
  <1>5. ASSUME NEW p \in 1 .. Len(st), st[p] \in Names
        PROVE  VisibleAt(program, st[p], at + 1) /\ DeclaredLevel(st[p], at + 1) <= 0 + In(f)
    <2>1. CASE st[p] \in Range(Node.targets)
      <3>1. Declares(program, at, st[p])
        BY <2>1, AtIs
      <3>2. DeclarationOf(st[p], at + 1) = at
        BY <1>1, <3>1, DeclarationNext
      <3> QED
        BY <1>1, <1>3, <3>1, <3>2, VisibleNext DEF DeclaredLevel, In
    <2>2. CASE st[p] \notin Range(Node.targets)
      <3>1. PICK q \in 1 .. Len(slots) : st[p] = slots[q]
        BY <1>5, <2>2
      <3> QED
        BY <1>4, <1>5, <3>1 DEF CopyScoped, In
    <2> QED
      BY <2>1, <2>2
  <1> QED
    BY <1>4, <1>5 DEF SlotsScoped

-----------------------------------------------------------------------------
(* The names that are still to be mentioned.                               *)

\* Those the nodes from a on mention, declared before a: all the paths that are open
\* before the functions, in a function only what it mentions itself.
Wanted(a, f) ==
    {name \in Names \ Inline :
       \E i \in a .. Len(program) :
         /\ MentionedBy(program, i, name) /\ DeclarationOf(name, i) < a
         /\ f = 0 \/ FunctionOf(i) = f}

\* Those the functions behind the f-th mention, declared before all of them.
Later(a, f) ==
    {name \in Names \ Inline :
       \E i \in a .. Len(program) :
         /\ MentionedBy(program, i, name)
         /\ FunctionOf(i) > f /\ FunctionOf(DeclarationOf(name, i)) = 0}

LEMMA WantedMeans ==
  ASSUME ScopeInv, NEW a \in Nat \ {0}, NEW f, NEW name \in Wanted(a, f)
  PROVE  /\ name \in Names /\ name \notin Inline
         /\ VisibleAt(program, name, a)
         /\ DeclarationOf(name, a) = 0 => name \in Range(Params)
  <1>1. name \in Names /\ name \notin Inline
    BY DEF Wanted
  <1>2. PICK i \in a .. Len(program) : MentionedBy(program, i, name) /\ DeclarationOf(name, i) < a
    BY DEF Wanted
  <1>3. i \in 1 .. Len(program) /\ a <= i
    BY ProgramIs
  <1>4. VisibleAt(program, name, a) /\ (DeclarationOf(name, a) = 0 => name \in Outermost)
    BY <1>2, <1>3, MentionMeans
  <1> QED
    BY <1>1, <1>4 DEF Outermost

LEMMA WantedNext ==
  ASSUME ScopeInv, NEW a \in 1 .. Len(program), NEW f, NEW name \in Wanted(a + 1, f)
  PROVE  Declares(program, a, name) \/ name \in Wanted(a, f)
  <1>1. PICK i \in a + 1 .. Len(program) :
          /\ MentionedBy(program, i, name) /\ DeclarationOf(name, i) < a + 1
          /\ f = 0 \/ FunctionOf(i) = f
    BY DEF Wanted
  <1>2. i \in a .. Len(program) /\ i \in Nat /\ Len(program) \in Nat
    BY ProgramIs
  <1>3. /\ DeclarationOf(name, i) \in Nat
        /\ DeclarationOf(name, i) # 0 => Declares(program, DeclarationOf(name, i), name)
    BY <1>2, DeclarationIs
  <1>4. DeclarationOf(name, i) = a \/ DeclarationOf(name, i) < a
    BY <1>1, <1>2, <1>3
  <1> QED
    BY <1>1, <1>2, <1>3, <1>4 DEF Wanted

LEMMA LaterNext ==
  ASSUME NEW a \in Nat, NEW f \in Nat, NEW name \in Later(a + 1, f)
  PROVE  name \in Later(a, f)
  <1>1. \A i : i \in a + 1 .. Len(program) => i \in a .. Len(program)
    OBVIOUS
  <1> QED
    BY <1>1 DEF Later

\* What a node mentions is wanted before it.
LEMMA MentionsAreWanted ==
  ASSUME ScopeInv, GeneratorInv, phase = "generate", Node.kind # "function",
         NEW name, MentionedBy(program, at, name), name \notin Inline
  PROVE  name \in Wanted(at, Current)
  <1>1. at \in 1 .. Len(program) /\ at \in Nat /\ FunctionOf(at) = Current /\ Len(program) \in Nat
    BY AtIs
  <1>2. name \in Names
    BY <1>1, MentionIs
  <1>3. DeclarationOf(name, at) \in Nat /\ (DeclarationOf(name, at) # 0 => DeclarationOf(name, at) < at)
    BY <1>1, DeclarationIs
  <1>4. DeclarationOf(name, at) < at /\ at \in at .. Len(program)
    BY <1>1, <1>3
  <1> QED
    BY <1>1, <1>2, <1>4 DEF Wanted

\* A name is rolled away when the rest of the path does not mention it.
LEMMA LastMention ==
  ASSUME ScopeInv, GeneratorInv, phase = "generate", Node.kind # "function",
         NEW name, MentionedBy(program, at, name), OpRoll(name, at) = at
  PROVE  /\ \A i \in at + 1 .. Len(program) :
              MentionedBy(program, i, name) => Current # 0 /\ FunctionOf(i) # Current
         /\ name \notin Wanted(at + 1, Current)
  <1>1. /\ at \in 1 .. Len(program) /\ at \in Nat /\ FunctionOf(at) = Current
        /\ Len(program) \in Nat /\ Nodes = 1 .. Len(program)
    BY AtIs, ProgramIs
  <1>2. PICK T : T = {j \in Nodes : /\ name \in Range(Mentions(j))
                                    /\ FunctionOf(at) \in {0, FunctionOf(j)}}
    OBVIOUS
  <1>3. T \subseteq 0 .. Len(program) /\ at \in T
    BY <1>1, <1>2, MentionIs
  <1>4. Max(T) \in T /\ \A x \in T : x <= Max(T)
    BY <1>1, <1>3, GreatestElement
  <1>5. Max(T) = at
    BY <1>2 DEF OpRoll
  <1>6. ASSUME NEW i \in at + 1 .. Len(program), MentionedBy(program, i, name)
        PROVE  Current # 0 /\ FunctionOf(i) # Current
    <2>1. i \in 1 .. Len(program) /\ ~(i <= at)
      BY <1>1
    <2>2. i \notin T
      BY <1>4, <1>5, <2>1
    <2>3. name \in Range(Mentions(i))
      BY <1>6, <2>1, MentionIs
    <2> QED
      BY <1>1, <1>2, <2>1, <2>2, <2>3
  <1> QED
    BY <1>6 DEF Wanted

\* What a block declares is not wanted behind it.
LEMMA ClosedAreNotWanted ==
  ASSUME ScopeInv, GeneratorInv, phase = "generate", Node.kind \in {"else", "endif"},
         NEW name \in Wanted(at + 1, Current)
  PROVE  name \in Wanted(at, Current) /\ DeclaredLevel(name, at) < Len(depths) + In(Current)
  <1>1. /\ at \in 1 .. Len(program) /\ at \in Nat \ {0} /\ Len(program) \in Nat
        /\ Level(program, at) = Len(depths) + In(Current)
        /\ Closes(program, at) /\ ~Declares(program, at, name)
    BY AtIs
  <1>2. Len(depths) \in Nat /\ Len(depths) > 0 /\ In(Current) \in Nat
    BY NodeIs DEF NodeFits, In
  <1>3. name \in Wanted(at, Current)
    BY <1>1, WantedNext
  <1>4. PICK i \in at + 1 .. Len(program) :
          MentionedBy(program, i, name) /\ DeclarationOf(name, i) < at + 1
    BY DEF Wanted
  <1>5. i \in 1 .. Len(program) /\ at <= i /\ at \in at .. i - 1
    BY <1>1
  <1>6. DeclarationOf(name, i) < at
    <2>1. /\ DeclarationOf(name, i) \in Nat
          /\ DeclarationOf(name, i) # 0 => Declares(program, DeclarationOf(name, i), name)
      BY <1>1, <1>5, DeclarationIs
    <2> QED
      BY <1>1, <1>4, <2>1
  <1>7. DeclarationOf(name, at) # 0 => DeclaredLevel(name, at) < Level(program, at)
    BY <1>1, <1>4, <1>5, <1>6, MentionMeans
  <1>8. DeclarationOf(name, at) = 0 => DeclaredLevel(name, at) = 0
    BY DEF DeclaredLevel
  <1> QED
    BY <1>1, <1>2, <1>3, <1>7, <1>8

LEMMA StartWants ==
  ASSUME ScopeInv, NEW name \in Wanted(1, 0)
  PROVE  name \in Range(Params)
  <1>1. DeclarationOf(name, 1) = 0
    <2>1. /\ DeclarationOf(name, 1) \in Nat
          /\ DeclarationOf(name, 1) # 0 => DeclarationOf(name, 1) < 1
      BY DeclarationIs
    <2> QED
      BY <2>1
  <1> QED
    BY <1>1, WantedMeans

\* What a function mentions of the outside was wanted before it.
LEMMA FunctionWants ==
  ASSUME ScopeInv, GeneratorInv, phase = "generate", Node.kind = "function",
         NEW f, f = FunctionOf(at), NEW name,
         NEW before, before = IF Current = 0 THEN Wanted(at, 0) ELSE Later(at, Current)
  PROVE  /\ name \in Wanted(at + 1, f) => Declares(program, at, name) \/ name \in before
         /\ name \in Later(at + 1, f) => name \in before
  <1>1. /\ at \in 1 .. Len(program) /\ at \in Nat \ {0} /\ Len(program) \in Nat
        /\ f = Current + 1 /\ Current \in Nat
    BY AtIs, NodeIs
  <1>2. ASSUME NEW i \in at + 1 .. Len(program)
        PROVE  /\ i \in at .. Len(program) /\ i \in 1 .. Len(program) /\ i \in Nat /\ at <= i
               /\ DeclarationOf(name, i) \in Nat
               /\ DeclarationOf(name, i) # 0 =>
                    /\ DeclarationOf(name, i) \in 1 .. Len(program) /\ DeclarationOf(name, i) < i
                    /\ Declares(program, DeclarationOf(name, i), name)
    <2>1. i \in at .. Len(program) /\ i \in 1 .. Len(program) /\ i \in Nat /\ at <= i
      BY <1>1
    <2> QED
      BY <2>1, DeclarationIs
  <1>3. ASSUME NEW i \in at + 1 .. Len(program), MentionedBy(program, i, name),
               FunctionOf(DeclarationOf(name, i)) = 0, name \in Names \ Inline,
               FunctionOf(i) > Current
        PROVE  name \in before
    <2>1. CASE Current = 0
      <3>1. DeclarationOf(name, i) < at
        <4>1. ~(at <= DeclarationOf(name, i))
          <5>1. at <= DeclarationOf(name, i) => FunctionOf(at) <= FunctionOf(DeclarationOf(name, i))
            BY <1>1, <1>2, FunctionOfGrows
          <5> QED
            BY <1>1, <1>3, <2>1, <5>1
        <4> QED
          BY <1>1, <1>2, <4>1
      <3>2. i \in at .. Len(program)
        BY <1>2
      <3> QED
        BY <1>3, <2>1, <3>1, <3>2 DEF Wanted
    <2>2. CASE Current # 0
      <3>1. i \in at .. Len(program)
        BY <1>2
      <3> QED
        BY <1>3, <2>2, <3>1 DEF Later
    <2> QED
      BY <2>1, <2>2
  <1>4. ASSUME name \in Later(at + 1, f) PROVE name \in before
    <2>1. PICK i \in at + 1 .. Len(program) :
            /\ MentionedBy(program, i, name)
            /\ FunctionOf(i) > f /\ FunctionOf(DeclarationOf(name, i)) = 0
      BY <1>4 DEF Later
    <2>2. FunctionOf(i) > Current
      <3>1. FunctionOf(i) \in Nat
        BY <1>1, <1>2, FunctionOfGrows
      <3> QED
        BY <1>1, <2>1, <3>1
    <2> QED
      BY <1>3, <1>4, <2>1, <2>2 DEF Later
  <1>5. ASSUME name \in Wanted(at + 1, f), ~Declares(program, at, name) PROVE name \in before
    <2>1. PICK i \in at + 1 .. Len(program) :
            /\ MentionedBy(program, i, name) /\ DeclarationOf(name, i) < at + 1
            /\ f = 0 \/ FunctionOf(i) = f
      BY <1>5 DEF Wanted
    <2>2. FunctionOf(i) > Current
      BY <1>1, <2>1
    <2>3. DeclarationOf(name, i) < at
      BY <1>1, <1>2, <1>5, <2>1
    <2>4. CASE Current = 0
      <3>1. i \in at .. Len(program)
        BY <1>2
      <3> QED
        BY <1>5, <2>1, <2>3, <2>4, <3>1 DEF Wanted
    <2>5. CASE Current # 0
      <3>1. FunctionOf(DeclarationOf(name, i)) = 0
        <4>1. CASE DeclarationOf(name, i) = 0
          <5>1. {j \in 1 .. 0 : IsNode(j, "function")} = {}
            OBVIOUS
          <5> QED
            BY <4>1, <5>1, FS_EmptySet DEF FunctionOf
        <4>2. CASE DeclarationOf(name, i) # 0
          <5>1. PICK d \in 1 .. Len(program) :
                  d = DeclarationOf(name, i) /\ d < at /\ Declares(program, d, name)
            BY <1>2, <2>3, <4>2
          <5>2. Before = "end"
            BY <1>1, <2>5, NodeIs DEF NodeFits
          <5>3. at # 1 /\ program[at - 1].kind = "end"
            BY <5>2 DEF Before, KindBefore
          <5>4. PICK e \in 1 .. Len(program) : e = at - 1 /\ program[e].kind = "end"
            BY <1>1, <5>3
          <5>5. d \in Nat /\ e \in Nat /\ d # e /\ d < e /\ e \in d + 1 .. i - 1 /\ i <= Len(program) + 1
            <6>1. d # e
              BY <5>1, <5>4 DEF Declares
            <6> QED
              BY <1>1, <1>2, <5>1, <5>4, <6>1
          <5>6. Level(program, e) <= 1
            <6>1. Opened(program, e) = 0
              BY <5>4, ProgramIs DEF NodeFits
            <6> QED
              BY <6>1 DEF Level
          <5>7. InScope(program, d, i)
            <6>1. VisibleAt(program, name, i)
              BY <1>2, <2>1, ProgramIs DEF NodeScoped
            <6> QED
              BY <1>1, <1>2, <4>2, <5>1, <5>5, <6>1, VisibleMeans
          <5>8. Level(program, d) < Level(program, e)
            BY <5>4, <5>5, <5>7 DEF InScope, Closes
          <5>9. Level(program, d) \in Nat /\ Level(program, e) \in Nat
            BY <5>1, <5>4, LevelType
          <5>10. Opened(program, d) \in Nat
            BY <5>1, <5>5, OpenedType, ProgramIs
          <5>11. ~(Count(program, "function", d) > 0)
            BY <5>6, <5>8, <5>9, <5>10 DEF Level
          <5>12. FunctionOf(d) \in Nat /\ FunctionOf(d) = Count(program, "function", d)
            BY <5>5, FunctionOfGrows, FunctionOfIsCount
          <5> QED
            BY <5>1, <5>11, <5>12
        <4> QED
          BY <4>1, <4>2
      <3> QED
        BY <1>3, <1>5, <2>1, <2>2, <3>1 DEF Wanted
    <2> QED
      BY <2>4, <2>5
  <1> QED
    BY <1>4, <1>5

\* Between two functions nothing is wanted.
LEMMA EndWants ==
  ASSUME ScopeInv, GeneratorInv, phase = "generate", Node.kind = "end", at # Len(program)
  PROVE  Wanted(at + 1, Current) = {}
  <1>1. /\ at \in 1 .. Len(program) /\ at \in Nat \ {0} /\ Len(program) \in Nat
        /\ FunctionOf(at) = Current /\ Current \in Nat /\ Current > 0
    BY AtIs, NodeIs, EndIsFollowed
  <1>2. at + 1 \in 1 .. Len(program) /\ at + 1 \in Nat /\ at + 1 # 1 /\ at + 1 - 1 = at
    BY <1>1
  <1>3. program[at + 1].kind = "function"
    <2>1. KindBefore(program, at + 1) = "end"
      <3>1. \A i : i # 1 => KindBefore(program, i) = program[i - 1].kind
        BY DEF KindBefore
      <3>2. KindBefore(program, at + 1) = program[at].kind
        BY <1>1, <1>2, <3>1
      <3> QED
        BY <3>2 DEF Node
    <2> QED
      BY <1>2, <2>1, ProgramIs DEF NodeFits
  <1>4. FunctionOf(at + 1) = Current + 1
    BY <1>1, <1>3, CountsNext, FunctionOfIsCount
  <1>5. \A i \in at + 1 .. Len(program) : FunctionOf(i) # Current
    <2> TAKE i \in at + 1 .. Len(program)
    <2>1. i \in Nat /\ at + 1 <= i
      BY <1>1
    <2>2. FunctionOf(at + 1) <= FunctionOf(i) /\ FunctionOf(i) \in Nat
      BY <1>2, <2>1, FunctionOfGrows
    <2> QED
      BY <1>1, <1>4, <2>2
  <1> QED
    BY <1>1, <1>5 DEF Wanted

-----------------------------------------------------------------------------
(* What the symbolic stack holds.                                          *)

\* Every name that is wanted has a slot, and nothing but the dispatcher makes a slot of
\* the selector.
SymbolsHold(a, f, st, ds) ==
    /\ SlotsScoped(a, f, st, ds)
    /\ Wanted(a, f) \subseteq Range(st)
    /\ f = 0 => "$$" \notin Range(st)

CopyHolds(a, f, copy) ==
    f > 0 /\ Len(Functions) > 1 => CopyScoped(a, copy) /\ Later(a, f) \subseteq Range(copy)

\* A symbol that is used has been mentioned.
Recorded(a, symbols) ==
    \A symbol \in symbols : \E i \in 1 .. a - 1 :
      MentionedBy(program, i, symbol[1]) /\ symbol[2] = DeclarationOf(symbol[1], i)

SymbolsInv ==
    /\ SymbolsHold(at, Current, stack, depths)
    /\ CopyHolds(at, Current, stackCopy)
    /\ Recorded(at, usedSymbols)

\* The analysis never changes what the names mean.
LEMMA ScopesKept ==
  ASSUME header' = header, program' = program
  PROVE  /\ \A i \in Nat : \A name : VisibleAt(program, name, i)' <=> VisibleAt(program, name, i)
         /\ \A i \in Nat : \A name : DeclaredLevel(name, i)' = DeclaredLevel(name, i)
         /\ \A i \in Nat : \A name : DeclarationOf(name, i)' = DeclarationOf(name, i)
         /\ \A i \in Nat : \A name : MentionedBy(program, i, name)' <=> MentionedBy(program, i, name)
         /\ \A i \in Nat : FunctionOf(i)' = FunctionOf(i)
  BY DEF VisibleAt, Outermost, Inline, Params, Declares, InScope, Closes, Level, Opened, Count,
         DeclaredLevel, DeclarationOf, Nodes, MentionedBy, FunctionOf, IsNode

LEMMA SymbolsNext ==
  ASSUME header' = header, program' = program, NEW a \in Nat, at' = a, NEW f, Current' = f,
         SymbolsHold(a, f, stack', depths'), CopyHolds(a, f, stackCopy'),
         Recorded(a, usedSymbols')
  PROVE  SymbolsInv'
  <1>1. SlotsScoped(at, Current, stack, depths)'
    BY ScopesKept, HeaderFixed DEF SymbolsHold, SlotsScoped, In
  <1>2. (Wanted(at, Current) \subseteq Range(stack))'
    BY ScopesKept, HeaderFixed DEF SymbolsHold, Wanted, Inline
  <1>3. SymbolsHold(at, Current, stack, depths)'
    BY <1>1, <1>2 DEF SymbolsHold
  <1>4. CopyHolds(at, Current, stackCopy)'
    <2>1. CopyScoped(a, stackCopy') => CopyScoped(at, stackCopy)'
      BY ScopesKept, HeaderFixed DEF CopyScoped
    <2>2. Later(a, f) \subseteq Range(stackCopy') => (Later(at, Current) \subseteq Range(stackCopy))'
      <3>1. \A name : \A i \in Nat : FunctionOf(DeclarationOf(name, i))' = FunctionOf(DeclarationOf(name, i))
        BY DEF FunctionOf, DeclarationOf, IsNode, Nodes
      <3> QED
        BY <3>1, ScopesKept, HeaderFixed DEF Later, Inline
    <2> QED
      BY <2>1, <2>2, HeaderFixed DEF CopyHolds
  <1>5. Recorded(at, usedSymbols)'
    BY DEF Recorded, DeclarationOf, Nodes, MentionedBy
  <1> QED
    BY <1>3, <1>4, <1>5 DEF SymbolsInv

-----------------------------------------------------------------------------
(* What an expression does to the slots.                                   *)

LEMMA SlotsAfterRemoval ==
  ASSUME NEW S, NEW slots \in Seq(S), NEW depth \in Nat, depth < Len(slots)
  PROVE  \A i \in 1 .. Len(slots) - 1 :
           Without(slots, depth)[i] = IF i <= depth THEN slots[i] ELSE slots[i + 1]
  <1>1. Len(slots) \in Nat
    BY LenProperties
  <1>2. PICK k, low, high, n : k = depth + 1 /\ low = k - 1 /\ high = k + 1 /\ n = Len(slots)
    OBVIOUS
  <1>3. low = depth /\ high = depth + 2 /\ n \in Nat /\ low \in Nat /\ high \in Nat
    BY <1>1, <1>2
  <1>4. PICK a, b : a = SubSeq(slots, 1, low) /\ b = SubSeq(slots, high, n)
    OBVIOUS
  <1>5. Without(slots, depth) = a \o b
    <2>1. \A i : RemoveAt(slots, i) = SubSeq(slots, 1, i - 1) \o SubSeq(slots, i + 1, Len(slots))
      BY DEF RemoveAt
    <2>2. RemoveAt(slots, k) = SubSeq(slots, 1, low) \o SubSeq(slots, high, n)
      BY <1>2, <2>1
    <2>3. Without(slots, depth) = RemoveAt(slots, k)
      BY <1>2 DEF Without
    <2> QED
      BY <1>4, <2>2, <2>3
  <1>6. a \in Seq(S) /\ Len(a) = depth /\ \A i \in 1 .. depth : a[i] = slots[i]
    <2>1. \A i \in 1 .. low : slots[i] \in S
      BY <1>1, <1>3
    <2> QED
      BY <1>3, <1>4, <2>1, SubSeqProperties
  <1>7. b \in Seq(S) /\ Len(b) = n - high + 1 /\ \A i \in 1 .. n - high + 1 : b[i] = slots[high + i - 1]
    <2>1. \A i \in high .. n : slots[i] \in S
      BY <1>1, <1>2, <1>3
    <2>2. high <= n \/ n - high + 1 = 0
      BY <1>2, <1>3
    <2>3. /\ b \in Seq(S) /\ Len(b) = IF high <= n THEN n - high + 1 ELSE 0
          /\ \A i \in 1 .. n - high + 1 : b[i] = slots[high + i - 1]
      BY <1>3, <1>4, <2>1, SubSeqProperties
    <2> QED
      BY <2>2, <2>3
  <1>8. \A i \in 1 .. Len(a) + Len(b) : (a \o b)[i] = IF i <= Len(a) THEN a[i] ELSE b[i - Len(a)]
    BY <1>6, <1>7, ConcatProperties
  <1> TAKE i \in 1 .. Len(slots) - 1
  <1>9. i \in 1 .. Len(a) + Len(b)
    BY <1>2, <1>3, <1>6, <1>7
  <1>10. CASE i <= depth
    BY <1>5, <1>6, <1>8, <1>9, <1>10
  <1>11. CASE ~(i <= depth)
    <2>1. i - depth \in 1 .. n - high + 1 /\ high + (i - depth) - 1 = i + 1
      BY <1>2, <1>3, <1>11
    <2>2. b[i - depth] = slots[high + (i - depth) - 1]
      BY <1>7, <2>1
    <2> QED
      BY <1>5, <1>6, <1>8, <1>9, <1>11, <2>1, <2>2
  <1> QED
    BY <1>10, <1>11

LEMMA SlotsBehind ==
  ASSUME NEW S, NEW slots \in Seq(S), NEW depth \in Nat, depth <= Len(slots)
  PROVE  /\ From(slots, depth) \in Seq(S) /\ Len(From(slots, depth)) = Len(slots) - depth
         /\ \A i \in 1 .. Len(slots) - depth : From(slots, depth)[i] = slots[depth + i]
  <1>1. Len(slots) \in Nat
    BY LenProperties
  <1>2. PICK low, n : low = depth + 1 /\ n = Len(slots)
    OBVIOUS
  <1>3. low \in Nat /\ n \in Nat /\ From(slots, depth) = SubSeq(slots, low, n)
    BY <1>1, <1>2 DEF From
  <1>4. \A i \in low .. n : slots[i] \in S
    BY <1>1, <1>2
  <1>5. \A i \in 1 .. n - low + 1 : SubSeq(slots, low, n)[i] = slots[low + i - 1]
    BY <1>3, <1>4, SubSeqProperties
  <1> SUFFICES ASSUME NEW i \in 1 .. Len(slots) - depth
               PROVE  From(slots, depth)[i] = slots[depth + i]
    BY FromType
  <1>6. i \in 1 .. n - low + 1 /\ low + i - 1 = depth + i
    BY <1>2, <1>3
  <1> QED
    BY <1>3, <1>5, <1>6

\* getStackIndex returns the first one.
LEMMA StackIndexFirst ==
  ASSUME NEW S, NEW slots \in Seq(S), NEW name, NEW i \in 1 .. Len(slots), slots[i] = name
  PROVE  /\ StackIndex(slots, name) \in Nat /\ StackIndex(slots, name) < i
         /\ slots[StackIndex(slots, name) + 1] = name
         /\ \A j \in 1 .. StackIndex(slots, name) : slots[j] # name
  <1> DEFINE I == {j \in 1 .. Len(slots) : slots[j] = name}
  <1>1. Len(slots) \in Nat
    BY LenProperties
  <1>2. I # {} /\ i \in I /\ I \subseteq Nat
    BY <1>1
  <1>3. StackIndex(slots, name) = Min(I) - 1
    BY <1>2 DEF StackIndex, SelectInSeq
  <1>4. Min(I) \in I /\ \A y \in I : Min(I) <= y
    <2>1. \E x \in I : \A y \in I : x <= y
      <3> HIDE DEF I
      <3> QED
        BY <1>2, LeastElement
    <2> HIDE DEF I
    <2> QED
      BY <2>1 DEF Min
  <1>5. PICK least \in I : least = Min(I)
    <2> HIDE DEF I
    <2> QED
      BY <1>4
  <1>6. /\ least \in 1 .. Len(slots) /\ slots[least] = name
        /\ \A y \in I : least <= y
        /\ StackIndex(slots, name) = least - 1 /\ least - 1 + 1 = least
    <2>1. \A y \in I : least <= y
      <3> HIDE DEF I
      <3> QED
        BY <1>4, <1>5
    <2>2. StackIndex(slots, name) = least - 1
      <3> HIDE DEF I
      <3> QED
        BY <1>3, <1>5
    <2> QED
      BY <1>1, <2>1, <2>2
  <1>7. \A j \in 1 .. Len(slots) : slots[j] = name => least <= j
    BY <1>6
  <1> HIDE DEF I
  <1> QED
    BY <1>1, <1>6, <1>7

\* The wanted names that are needed behind the first k identifiers of a statement: by the
\* next ones, by the slot to overwrite, or by what follows.
Needs(k) ==
    {name \in Wanted(at, Current) :
       \/ name \in Wanted(at + 1, Current)
       \/ \E j \in k + 1 .. Len(Node.operands) : Node.operands[j] = name
       \/ Node.kind = "assign" /\ name = Node.targets[1] /\ Replaces(name)}

\* After k identifiers there are k values on top of slots of before, and every name that
\* is needed has one.
Identified(code, k) ==
    /\ IsCode(code) /\ code.crashed = FALSE
    /\ Len(code.stack) \in Nat /\ k <= Len(code.stack)
    /\ \A i \in 1 .. k : code.stack[i] = Value
    /\ \A i \in k + 1 .. Len(code.stack) : \E j \in 1 .. Len(stack) : code.stack[i] = stack[j]
    /\ depths # <<>> => /\ Len(code.stack) = Len(stack) + k
                        /\ \A i \in 1 .. Len(stack) : code.stack[k + i] = stack[i]
    /\ \A name \in Needs(k) : \E i \in 1 .. Len(code.stack) : code.stack[i] = name

\* The k-th identifier is pushed, or its first slot is found and picked or rolled, rolled
\* only if nothing needs it any more.
IsVisit(code, next, k) ==
    \/ /\ Node.operands[k] \in Inline
       /\ next.stack = <<Value>> \o code.stack
       /\ next.ops = Append(code.ops, <<"PUSH", <<Argument(Node.operands[k])>>>>)
    \/ /\ Node.operands[k] \notin Inline
       /\ \E index \in 0 .. Len(code.stack) - 1 :
            /\ code.stack[index + 1] = Node.operands[k]
            /\ \A j \in 1 .. index : code.stack[j] # Node.operands[k]
            /\ \/ /\ next.stack = <<Value>> \o code.stack
                  /\ next.ops = Append(code.ops, <<"PICK", index>>)
               \/ /\ depths = <<>> /\ Node.operands[k] \notin Needs(k)
                  /\ next.stack = <<Value>> \o Without(code.stack, index)
                  /\ next.ops = Append(code.ops, <<"ROLL", index>>)

\* An identifier is rolled away if neither the rest of the statement nor what follows it
\* needs it.
LEMMA RolledIsNotNeeded ==
  ASSUME ScopeInv, GeneratorInv, phase = "generate", Node.kind # "function",
         NEW k \in Nat \ {0}, k <= Len(Node.operands), NEW name, name = Node.operands[k],
         IsOpRoll(name, k)
  PROVE  name \notin Needs(k)
  <1>1. /\ depths = <<>> /\ OpRoll(name, at) = at
        /\ \A later \in k + 1 .. Len(Node.operands) : Node.operands[later] # name
    BY DEF IsOpRoll
  <1>2. MentionedBy(program, at, name)
    <2>1. Node.operands \in Seq(Names) /\ k \in DOMAIN Node.operands
      BY NodeIs, LenProperties
    <2> QED
      BY <2>1 DEF MentionedBy, Range, Node
  <1>3. /\ \A i \in at + 1 .. Len(program) :
             MentionedBy(program, i, name) => Current # 0 /\ FunctionOf(i) # Current
        /\ name \notin Wanted(at + 1, Current)
    BY <1>1, <1>2, LastMention
  <1>4. ASSUME Replaces(name) PROVE FALSE
    <2>1. InStateScript(at) /\ <<name, DeclarationOf(name, at)>> \in CodeScriptIdentifiers
      BY <1>1, <1>4 DEF Replaces
    <2>2. /\ at \in 1 .. Len(program) /\ Len(program) \in Nat /\ FunctionOf(at) = Current
          /\ Current \in Nat
      BY AtIs, NodeIs
    <2>3. PICK s \in 1 .. Len(program) : program[s].kind = "separator" /\ at < s
      BY <2>1, ProgramIs DEF InStateScript, Separators, IsNode
    <2>4. Count(program, "function", s) = 0
      BY <2>3, ProgramIs DEF NodeFits
    <2>5. Current = 0
      <3>1. FunctionOf(at) <= FunctionOf(s)
        BY <2>2, <2>3, FunctionOfGrows
      <3> QED
        BY <2>2, <2>4, <3>1, FunctionOfIsCount
    <2>6. PICK i \in Nodes : ~InStateScript(i) /\ name \in Range(Mentions(i))
      BY <2>1 DEF CodeScriptIdentifiers
    <2>7. i \in 1 .. Len(program) /\ ~(i < s)
      BY <2>3, <2>6, ProgramIs DEF InStateScript, Separators, IsNode
    <2>8. i \in at + 1 .. Len(program)
      BY <2>2, <2>3, <2>7
    <2>9. MentionedBy(program, i, name)
      BY <2>6, <2>7, MentionIs
    <2> QED
      BY <1>3, <2>5, <2>8, <2>9
  <1> QED
    BY <1>1, <1>3, <1>4 DEF Needs

LEMMA IdentifierVisited ==
  ASSUME ScopeInv, GeneratorInv, phase = "generate", Node.kind # "function",
         NEW k \in Nat, k < Len(Node.operands), NEW code, Identified(code, k),
         NEW next, next = VisitIdentifier(code, k + 1)
  PROVE  Identified(next, k + 1) /\ IsVisit(code, next, k + 1)
  <1>1. PICK s, o, c : /\ code = [stack |-> s, ops |-> o, crashed |-> c]
                       /\ s \in Seq(Slots) /\ c \in BOOLEAN
                       /\ \E T : o \in Seq(T)
    BY DEF IsCode, Identified
  <1>2. s \in Seq(Slots) /\ code.stack = s /\ code.ops = o /\ code.crashed = c /\ c = FALSE
    BY <1>1 DEF Identified
  <1>3. PICK T : o \in Seq(T)
    BY <1>1
  <1>4. PICK name, index, n : /\ name = Node.operands[k + 1] /\ index = StackIndex(s, name)
                              /\ n = Len(s)
    OBVIOUS
  <1>5. /\ header \in Headers /\ Node.operands \in Seq(Names) /\ Len(Node.operands) \in Nat
        /\ n \in Nat
    BY <1>2, <1>4, NodeIs, LenProperties
  <1>6. name \in Names /\ name # Value /\ name \in Range(Node.operands)
    <2>1. k + 1 \in DOMAIN Node.operands
      BY <1>5, LenProperties
    <2> QED
      BY <1>4, <1>5, <2>1, NamesAreNoMarks DEF Range
  <1>7. MentionedBy(program, at, name)
    BY <1>6 DEF MentionedBy, Node
  <1>8. /\ k <= n
        /\ \A i \in 1 .. k : s[i] = Value
        /\ \A i \in k + 1 .. n : \E j \in 1 .. Len(stack) : s[i] = stack[j]
        /\ depths # <<>> => n = Len(stack) + k /\ \A i \in 1 .. Len(stack) : s[k + i] = stack[i]
        /\ \A x \in Needs(k) : \E i \in 1 .. n : s[i] = x
    BY <1>2, <1>4 DEF Identified
  <1>9. \A x \in Needs(k + 1) : x \in Needs(k)
    <2> TAKE x \in Needs(k + 1)
    <2>1. \A j \in k + 1 + 1 .. Len(Node.operands) : j \in k + 1 .. Len(Node.operands)
      BY <1>5
    <2> QED
      BY <2>1 DEF Needs
  <1>10. /\ <<Value>> \o s \in Seq(Slots) /\ Len(<<Value>> \o s) = 1 + n
         /\ (<<Value>> \o s)[1] = Value /\ \A i \in 1 .. n : (<<Value>> \o s)[i + 1] = s[i]
    BY <1>2, <1>4, MachineTypes, PushedType
  \* a value on top of the same slots
  <1>11. ASSUME NEW op, next = [stack |-> <<Value>> \o s, ops |-> Append(o, op), crashed |-> c]
         PROVE  Identified(next, k + 1)
    <2>1. IsCode(next)
      <3>1. c \in BOOLEAN /\ <<Value>> \o s \in Seq(Slots) /\ o \in Seq(T)
        BY <1>1, <1>3, <1>10
      <3>2. IsCode([stack |-> <<Value>> \o s, ops |-> Append(o, op), crashed |-> c])
        BY <3>1, OneMoreOp
      <3> QED
        BY <1>11, <3>2
    <2>2. next.stack = <<Value>> \o s /\ next.crashed = FALSE
      BY <1>2, <1>11
    <2>3. PICK t : t = <<Value>> \o s
      OBVIOUS
    <2>4. Len(t) = 1 + n /\ t[1] = Value /\ \A i \in 1 .. n : t[i + 1] = s[i]
      BY <1>10, <2>3
    <2>5. \A i \in 2 .. n + 1 : i - 1 \in 1 .. n /\ t[i] = s[i - 1]
      <3> TAKE i \in 2 .. n + 1
      <3>1. PICK j \in 1 .. n : i = j + 1
        BY <1>5
      <3> QED
        BY <2>4, <3>1
    <2>6. \A i \in 1 .. k + 1 : t[i] = Value
      <3> TAKE i \in 1 .. k + 1
      <3>1. CASE i = 1
        BY <2>4, <3>1
      <3>2. CASE i # 1
        <4>1. i \in 2 .. n + 1 /\ i - 1 \in 1 .. k
          BY <1>5, <1>8, <3>2
        <4> QED
          BY <1>8, <2>5, <4>1
      <3> QED
        BY <3>1, <3>2
    <2>7. \A i \in k + 1 + 1 .. 1 + n : \E j \in 1 .. Len(stack) : t[i] = stack[j]
      <3> TAKE i \in k + 1 + 1 .. 1 + n
      <3>1. i - 1 \in k + 1 .. n /\ i \in 2 .. n + 1
        BY <1>5
      <3> QED
        BY <1>8, <2>5, <3>1
    <2>8. depths # <<>> => /\ 1 + n = Len(stack) + (k + 1)
                           /\ \A i \in 1 .. Len(stack) : t[k + 1 + i] = stack[i]
      <3> SUFFICES ASSUME depths # <<>>
                   PROVE  /\ 1 + n = Len(stack) + (k + 1)
                          /\ \A i \in 1 .. Len(stack) : t[k + 1 + i] = stack[i]
        OBVIOUS
      <3>1. Len(stack) \in Nat /\ n = Len(stack) + k
        BY <1>8, PathTypes
      <3>2. \A i \in 1 .. Len(stack) : k + i \in 1 .. n /\ k + i + 1 = k + 1 + i
        BY <3>1
      <3> QED
        BY <1>8, <2>4, <3>1, <3>2
    <2>9. \A x \in Needs(k + 1) : \E i \in 1 .. 1 + n : t[i] = x
      <3> TAKE x \in Needs(k + 1)
      <3>1. PICK i \in 1 .. n : s[i] = x
        BY <1>8, <1>9
      <3>2. i + 1 \in 1 .. 1 + n /\ t[i + 1] = x
        BY <1>5, <2>4, <3>1
      <3> QED
        BY <3>2
    <2>10. next.stack = t /\ Len(t) = 1 + n /\ 1 + n \in Nat /\ k + 1 <= 1 + n
      BY <1>5, <1>8, <2>2, <2>3, <2>4
    <2> QED
      <3>1. PICK l \in Nat, m \in Nat : l = k + 1 /\ m = 1 + n
        BY <1>5
      <3>2. /\ next.stack = t /\ next.crashed = FALSE /\ Len(t) = m /\ l <= m
            /\ \A i \in 1 .. l : t[i] = Value
            /\ \A i \in l + 1 .. m : \E j \in 1 .. Len(stack) : t[i] = stack[j]
            /\ depths # <<>> => m = Len(stack) + l /\ \A i \in 1 .. Len(stack) : t[l + i] = stack[i]
            /\ \A x \in Needs(l) : \E i \in 1 .. m : t[i] = x
        BY <2>2, <2>6, <2>7, <2>8, <2>9, <2>10, <3>1
      <3>3. Identified(next, l)
        BY <2>1, <3>2 DEF Identified
      <3> QED
        BY <3>1, <3>3
  <1>12. CASE name \in Inline
    <2>1. next = [stack |-> <<Value>> \o s, ops |-> Append(o, <<"PUSH", <<Argument(name)>>>>),
                  crashed |-> c]
      BY <1>1, <1>4, <1>12 DEF VisitIdentifier
    <2>2. Identified(next, k + 1)
      BY <1>11, <2>1
    <2>3. next.stack = <<Value>> \o s /\ next.ops = Append(o, <<"PUSH", <<Argument(name)>>>>)
      BY <2>1
    <2> QED
      BY <1>2, <1>4, <1>12, <2>2, <2>3 DEF IsVisit
  <1>13. CASE name \notin Inline
    <2>1. name \in Needs(k)
      <3>1. name \in Wanted(at, Current)
        BY <1>7, <1>13, MentionsAreWanted
      <3>2. k + 1 \in k + 1 .. Len(Node.operands)
        BY <1>5
      <3> QED
        BY <1>4, <3>1, <3>2 DEF Needs
    <2>2. PICK first \in 1 .. n : s[first] = name
      BY <1>8, <2>1
    <2>3. /\ index \in Nat /\ index < n
          /\ s[index + 1] = name /\ \A j \in 1 .. index : s[j] # name
      <3>1. /\ index \in Nat /\ index < first
            /\ s[index + 1] = name /\ \A j \in 1 .. index : s[j] # name
        <4>1. first \in 1 .. Len(s) /\ s[first] = name /\ s \in Seq(Slots)
          BY <1>2, <1>4, <2>2
        <4>2. /\ StackIndex(s, name) \in Nat /\ StackIndex(s, name) < first
              /\ s[StackIndex(s, name) + 1] = name
              /\ \A j \in 1 .. StackIndex(s, name) : s[j] # name
          BY ONLY <4>1, StackIndexFirst
        <4>3. index = StackIndex(s, name)
          BY <1>4
        <4> QED
          BY ONLY <4>2, <4>3
      <3> QED
        BY <1>5, <2>2, <3>1
    <2>4. index >= k
      <3>1. index + 1 \notin 1 .. k
        BY <1>6, <1>8, <2>3
      <3> QED
        BY <2>3, <3>1
    <2>5. /\ IsOpRoll(name, k + 1) =>
               next = [stack |-> <<Value>> \o Without(s, index),
                       ops |-> Append(o, <<"ROLL", index>>), crashed |-> c]
          /\ ~IsOpRoll(name, k + 1) =>
               next = [stack |-> <<Value>> \o s, ops |-> Append(o, <<"PICK", index>>), crashed |-> c]
      <3>1. ~(index < 0) /\ index >= 0
        BY <2>3
      <3>2. StackIndex(code.stack, Node.operands[k + 1]) = index
        BY <1>2, <1>4
      <3>3. CASE IsOpRoll(name, k + 1)
        BY <1>1, <1>4, <1>13, <3>1, <3>2, <3>3 DEF VisitIdentifier
      <3>4. CASE ~IsOpRoll(name, k + 1)
        BY <1>1, <1>4, <1>13, <3>1, <3>2, <3>4 DEF VisitIdentifier
      <3> QED
        BY <3>3, <3>4
    <2>6. index \in 0 .. Len(code.stack) - 1 /\ code.stack = s /\ code.ops = o
      BY <1>2, <1>4, <1>5, <2>3
    <2>7. CASE ~IsOpRoll(name, k + 1)
      <3>1. next = [stack |-> <<Value>> \o s, ops |-> Append(o, <<"PICK", index>>), crashed |-> c]
        BY <2>5, <2>7
      <3>2. Identified(next, k + 1)
        BY <1>11, <3>1
      <3>3. next.stack = <<Value>> \o s /\ next.ops = Append(o, <<"PICK", index>>)
        BY <3>1
      <3> QED
        BY <1>4, <1>13, <2>3, <2>6, <3>2, <3>3 DEF IsVisit
    <2>8. CASE IsOpRoll(name, k + 1)
      <3>1. next = [stack |-> <<Value>> \o Without(s, index),
                    ops |-> Append(o, <<"ROLL", index>>), crashed |-> c]
        BY <2>5, <2>8
      <3>2. name \notin Needs(k + 1) /\ depths = <<>>
        <4>1. k + 1 \in Nat \ {0} /\ k + 1 <= Len(Node.operands)
          BY <1>5
        <4> QED
          BY <1>4, <2>8, <4>1, RolledIsNotNeeded DEF IsOpRoll
      <3>3. PICK rest : rest = Without(s, index)
        OBVIOUS
      <3>4. /\ rest \in Seq(Slots) /\ Len(rest) = n - 1
            /\ \A i \in 1 .. n - 1 : rest[i] = IF i <= index THEN s[i] ELSE s[i + 1]
        <4>1. s \in Seq(Slots) /\ index \in Nat /\ index < Len(s) /\ Len(s) = n
          BY <1>2, <1>4, <2>3
        <4>2. /\ Without(s, index) \in Seq(Slots) /\ Len(Without(s, index)) = Len(s) - 1
              /\ \A i \in 1 .. Len(s) - 1 :
                   Without(s, index)[i] = IF i <= index THEN s[i] ELSE s[i + 1]
          BY ONLY <4>1, WithoutType, SlotsAfterRemoval
        <4> QED
          BY ONLY <3>3, <4>1, <4>2
      <3>5. PICK t : t = <<Value>> \o rest
        OBVIOUS
      <3>6. /\ t \in Seq(Slots) /\ Len(t) = n /\ t[1] = Value
            /\ \A i \in 1 .. n - 1 : t[i + 1] = rest[i]
        <4>1. /\ t \in Seq(Slots) /\ Len(t) = 1 + Len(rest) /\ t[1] = Value
              /\ \A i \in 1 .. Len(rest) : t[i + 1] = rest[i]
          BY <3>4, <3>5, MachineTypes, PushedType
        <4> QED
          BY <1>5, <3>4, <4>1
      <3>7. /\ next.stack = t /\ next.ops = Append(o, <<"ROLL", index>>) /\ next.crashed = FALSE
            /\ IsCode(next)
        <4>1. next = [stack |-> t, ops |-> Append(o, <<"ROLL", index>>), crashed |-> c]
          BY <3>1, <3>3, <3>5
        <4>2. c \in BOOLEAN /\ t \in Seq(Slots) /\ o \in Seq(T)
          BY <1>1, <1>3, <3>6
        <4>3. IsCode([stack |-> t, ops |-> Append(o, <<"ROLL", index>>), crashed |-> c])
          BY <4>2, OneMoreOp
        <4>4. next.stack = t /\ next.ops = Append(o, <<"ROLL", index>>) /\ next.crashed = c
          BY <4>1
        <4> QED
          BY <1>2, <4>1, <4>3, <4>4
      <3>8. \A i \in 2 .. n : t[i] = IF i - 1 <= index THEN s[i - 1] ELSE s[i]
        <4> TAKE i \in 2 .. n
        <4>1. PICK j \in 1 .. n - 1 : i = j + 1 /\ i - 1 = j
          BY <1>5
        <4> QED
          BY <3>4, <3>6, <4>1
      <3>9. \A i \in 1 .. k + 1 : t[i] = Value
        <4> TAKE i \in 1 .. k + 1
        <4>1. CASE i = 1
          BY <3>6, <4>1
        <4>2. CASE i # 1
          <5>1. i \in 2 .. n /\ i - 1 <= index /\ i - 1 \in 1 .. k
            BY <1>5, <2>3, <2>4, <4>2
          <5> QED
            BY <1>8, <3>8, <5>1
        <4> QED
          BY <4>1, <4>2
      <3>10. \A i \in k + 1 + 1 .. n : \E j \in 1 .. Len(stack) : t[i] = stack[j]
        <4> TAKE i \in k + 1 + 1 .. n
        <4>1. i \in 2 .. n /\ i - 1 \in k + 1 .. n /\ i \in k + 1 .. n
          BY <1>5
        <4> QED
          BY <1>8, <3>8, <4>1
      <3>11. \A x \in Needs(k + 1) : \E i \in 1 .. n : t[i] = x
        <4> TAKE x \in Needs(k + 1)
        <4>1. x # name
          BY <3>2
        <4>2. PICK p \in 1 .. n : s[p] = x
          BY <1>8, <1>9
        <4>3. p # index + 1
          BY <2>3, <4>1, <4>2
        <4>4. CASE p <= index
          <5>1. p + 1 \in 2 .. n /\ p + 1 - 1 = p /\ p + 1 \in 1 .. n
            BY <1>5, <2>3, <4>4
          <5>2. t[p + 1] = x
            BY <3>8, <4>2, <4>4, <5>1
          <5> QED
            BY <5>1, <5>2
        <4>5. CASE ~(p <= index)
          <5>1. p \in 2 .. n /\ ~(p - 1 <= index)
            BY <1>5, <2>3, <4>3, <4>5
          <5> QED
            BY <3>8, <4>2, <5>1
        <4> QED
          BY <4>4, <4>5
      <3>12. Identified(next, k + 1)
        <4>1. k + 1 <= n
          BY <1>5, <2>3, <2>4
        <4> QED
          <5>1. PICK l \in Nat : l = k + 1
            OBVIOUS
          <5>2. /\ next.stack = t /\ next.crashed = FALSE /\ Len(t) = n /\ l <= n
                /\ \A i \in 1 .. l : t[i] = Value
                /\ \A i \in l + 1 .. n : \E j \in 1 .. Len(stack) : t[i] = stack[j]
                /\ depths # <<>> => /\ n = Len(stack) + l
                                    /\ \A i \in 1 .. Len(stack) : t[l + i] = stack[i]
                /\ IsCode(next) /\ n \in Nat
                /\ \A x \in Needs(l) : \E i \in 1 .. n : t[i] = x
            BY <1>5, <3>2, <3>6, <3>7, <3>9, <3>10, <3>11, <4>1, <5>1
          <5>3. Identified(next, l)
            BY <5>2 DEF Identified
          <5> QED
            BY <5>1, <5>3
      <3> QED
        BY <1>4, <1>13, <2>3, <2>6, <3>2, <3>3, <3>5, <3>7, <3>12 DEF IsVisit
    <2> QED
      BY <2>7, <2>8
  <1> QED
    BY <1>12, <1>13

LEMMA VisitsHold ==
  ASSUME ScopeInv, GeneratorInv, SymbolsInv, phase = "generate", Node.kind # "function",
         NEW visited, AreVisits(visited), NEW n \in Nat, n = Len(Node.operands)
  PROVE  /\ \A k \in 0 .. n : Identified(visited[k], k)
         /\ \A k \in 0 .. n - 1 : IsVisit(visited[k], visited[k + 1], k + 1)
  <1> DEFINE D == {k \in Nat : k <= n => Identified(visited[k], k)}
             first == [stack |-> stack, ops |-> <<>>, crashed |-> FALSE]
  <1>1. stack \in Seq(Slots) /\ Len(stack) \in Nat
    BY PathTypes
  <1>2. 0 \in D
    <2>1. visited[0] = first
      BY DEF AreVisits
    <2>2. IsCode(first)
      <3>1. \E T : <<>> \in Seq(T)
        BY EmptySeq
      <3> QED
        BY <1>1, <3>1 DEF IsCode
    <2>3. \A name \in Needs(0) : \E i \in 1 .. Len(stack) : stack[i] = name
      <3> TAKE name \in Needs(0)
      <3>1. name \in Range(stack)
        BY DEF Needs, SymbolsInv, SymbolsHold
      <3> QED
        BY <1>1, <3>1, LenProperties DEF Range
    <2>4. first.stack = stack /\ first.crashed = FALSE
      OBVIOUS
    <2>5. \A i \in 0 + 1 .. Len(stack) : \E j \in 1 .. Len(stack) : stack[i] = stack[j]
      BY <1>1
    <2>6. \A i \in 1 .. Len(stack) : 0 + i = i
      BY <1>1
    <2> HIDE DEF first
    <2>7. Identified(first, 0)
      BY <1>1, <2>2, <2>3, <2>4, <2>5, <2>6 DEF Identified
    <2> QED
      BY <2>1, <2>7
  <1>3. ASSUME NEW k \in 0 .. n - 1, Identified(visited[k], k)
        PROVE  Identified(visited[k + 1], k + 1) /\ IsVisit(visited[k], visited[k + 1], k + 1)
    <2>1. visited[k + 1] = VisitIdentifier(visited[k], k + 1)
      <3>1. k + 1 \in 0 .. n /\ k + 1 # 0 /\ k + 1 - 1 = k
        OBVIOUS
      <3>2. \A i \in 0 .. n : i # 0 => visited[i] = VisitIdentifier(visited[i - 1], i)
        BY DEF AreVisits
      <3> QED
        BY <3>1, <3>2
    <2>2. k \in Nat /\ k < Len(Node.operands)
      OBVIOUS
    <2> QED
      BY <1>3, <2>1, <2>2, IdentifierVisited
  <1>4. ASSUME NEW k \in Nat, k \in D PROVE k + 1 \in D
    <2> SUFFICES ASSUME k + 1 <= n PROVE Identified(visited[k + 1], k + 1)
      OBVIOUS
    <2>1. k \in 0 .. n - 1 /\ Identified(visited[k], k)
      BY <1>4
    <2> QED
      BY <1>3, <2>1
  <1>5. \A k \in Nat : k \in D
    <2> HIDE DEF D
    <2> QED
      BY <1>2, <1>4, InductionOnSet
  <1>6. \A k \in 0 .. n : Identified(visited[k], k)
    BY <1>5
  <1>7. \A k \in 0 .. n - 1 : k \in 0 .. n
    OBVIOUS
  <1> HIDE DEF D
  <1> QED
    BY <1>3, <1>6, <1>7

\* What an expression with so many results leaves of the slots.
Leaves(code, r) ==
    /\ code.crashed = FALSE
    /\ Len(code.stack) \in Nat /\ r <= Len(code.stack)
    /\ \A i \in r + 1 .. Len(code.stack) : \E j \in 1 .. Len(stack) : code.stack[i] = stack[j]
    /\ depths # <<>> => /\ Len(code.stack) = Len(stack) + r
                        /\ \A i \in 1 .. Len(stack) : code.stack[r + i] = stack[i]
    /\ \A name \in Needs(Len(Node.operands)) :
         \E i \in r + 1 .. Len(code.stack) : code.stack[i] = name

LEMMA ExpressionLeaves ==
  ASSUME ScopeInv, GeneratorInv, SymbolsInv, phase = "generate", Node.kind # "function",
         NEW results \in Seq(Contents), NEW r, r = Len(results)
  PROVE  Leaves(Expression(results), r)
  <1>1. header \in Headers /\ Node.operands \in Seq(Names) /\ stack \in Seq(Slots)
        /\ Len(stack) \in Nat
    BY NodeIs, PathTypes
  <1>2. PICK n \in Nat : n = Len(Node.operands)
    BY <1>1, LenProperties
  <1>3. r \in Nat
    BY LenProperties
  <1>4. PICK visited : AreVisits(visited) /\ Identifiers = visited[n]
    <2>1. \E visited : AreVisits(visited) /\ Identifiers = visited[Len(Node.operands)]
      BY <1>1, VisitsExist DEF AreVisits, Identifiers
    <2> QED
      BY <1>2, <2>1
  <1>5. Identified(Identifiers, n)
    <2>1. \A k \in 0 .. n : Identified(visited[k], k)
      BY <1>2, <1>4, VisitsHold
    <2> QED
      BY <1>2, <1>4, <2>1
  <1>6. PICK s, o, c : /\ Identifiers = [stack |-> s, ops |-> o, crashed |-> c]
                       /\ s \in Seq(Slots) /\ c \in BOOLEAN
                       /\ \E T : o \in Seq(T)
    BY <1>5 DEF IsCode, Identified
  <1>7. PICK l \in Nat : l = Len(s)
    BY <1>6, LenProperties
  <1>8. Identifiers.stack = s /\ Identifiers.crashed = c
    BY <1>6
  <1>9. /\ c = FALSE /\ n <= l
        /\ \A i \in 1 .. n : s[i] = Value
        /\ \A i \in n + 1 .. l : \E j \in 1 .. Len(stack) : s[i] = stack[j]
        /\ depths # <<>> => l = Len(stack) + n /\ \A i \in 1 .. Len(stack) : s[n + i] = stack[i]
        /\ \A name \in Needs(n) : \E i \in 1 .. l : s[i] = name
    BY <1>5, <1>7, <1>8 DEF Identified
  <1>10. PICK values, left, code :
           values = Times(r, Value) /\ left = From(s, n) /\ code = Expression(results)
    OBVIOUS
  <1>11. code.stack = values \o left /\ code.crashed = c
    <2>1. code = [Identifiers EXCEPT !.stack = values \o left,
                                     !.ops   = Append(@, <<"COMPUTE", n, results>>)]
      <3>1. Times(Len(results), Value) = values /\ From(Identifiers.stack, n) = left
        BY <1>8, <1>10
      <3> QED
        BY <1>2, <1>10, <3>1 DEF Expression
    <2> QED
      BY <1>6, <2>1
  <1>12. /\ left \in Seq(Slots) /\ Len(left) = l - n
         /\ \A i \in 1 .. l - n : left[i] = s[n + i]
    <2>1. s \in Seq(Slots) /\ n <= Len(s)
      BY <1>6, <1>7, <1>9
    <2>2. /\ From(s, n) \in Seq(Slots) /\ Len(From(s, n)) = Len(s) - n
          /\ \A i \in 1 .. Len(s) - n : From(s, n)[i] = s[n + i]
      BY <2>1, SlotsBehind
    <2> QED
      BY <1>7, <1>10, <2>2
  <1>13. values \in Seq(Slots) /\ Len(values) = r
    BY <1>3, <1>10, TimesValue
  <1>14. PICK t : t = values \o left
    OBVIOUS
  <1>15. Len(t) = r + (l - n) /\ \A i \in 1 .. l - n : t[r + i] = left[i]
    <2>1. /\ Len(t) = r + (l - n)
          /\ \A i \in 1 .. r + (l - n) : t[i] = IF i <= r THEN values[i] ELSE left[i - r]
      <3>1. /\ Len(t) = Len(values) + Len(left)
            /\ \A i \in 1 .. Len(values) + Len(left) :
                 t[i] = IF i <= Len(values) THEN values[i] ELSE left[i - Len(values)]
        BY <1>12, <1>13, <1>14, ConcatProperties
      <3> QED
        BY <1>12, <1>13, <3>1
    <2>2. \A i \in 1 .. l - n : r + i \in 1 .. r + (l - n) /\ ~(r + i <= r) /\ r + i - r = i
      BY <1>3
    <2> QED
      BY <2>1, <2>2
  <1>16. Len(t) \in Nat /\ r <= Len(t)
    BY <1>3, <1>9, <1>15
  <1>17. \A i \in r + 1 .. Len(t) : \E j \in 1 .. Len(stack) : t[i] = stack[j]
    <2> TAKE i \in r + 1 .. Len(t)
    <2>1. PICK k \in 1 .. l - n : i = r + k
      <3>1. i - r \in 1 .. l - n /\ i = r + (i - r)
        BY <1>3, <1>9, <1>15
      <3> QED
        BY <3>1
    <2>2. n + k \in n + 1 .. l
      OBVIOUS
    <2>3. t[i] = s[n + k]
      BY <1>12, <1>15, <2>1
    <2> QED
      BY <1>9, <2>2, <2>3
  <1>18. ASSUME depths # <<>>
         PROVE  Len(t) = Len(stack) + r /\ \A i \in 1 .. Len(stack) : t[r + i] = stack[i]
    <2>1. l - n = Len(stack) /\ l = Len(stack) + n
      BY <1>1, <1>9, <1>18
    <2> QED
      <3>1. Len(t) = Len(stack) + r
        BY <1>1, <1>3, <1>15, <2>1
      <3>2. \A i \in 1 .. Len(stack) : t[r + i] = s[n + i] /\ s[n + i] = stack[i]
        BY <1>9, <1>12, <1>15, <1>18, <2>1
      <3> QED
        BY <3>1, <3>2
  <1>19. \A name \in Needs(n) : \E i \in r + 1 .. Len(t) : t[i] = name
    <2> TAKE name \in Needs(n)
    <2>1. PICK i \in 1 .. l : s[i] = name
      BY <1>9
    <2>2. name # Value
      BY <1>1, NamesAreNoMarks DEF Needs, Wanted
    <2>3. ~(i <= n)
      BY <1>9, <2>1, <2>2
    <2>4. i - n \in 1 .. l - n /\ n + (i - n) = i /\ r + (i - n) \in r + 1 .. Len(t)
      <3>1. i \in 1 .. l /\ l \in Nat /\ n \in Nat /\ r \in Nat /\ Len(t) = r + (l - n)
        BY <1>3, <1>15
      <3> QED
        BY ONLY <2>3, <3>1
    <2>5. t[r + (i - n)] = s[i]
      BY <1>12, <1>15, <2>4
    <2> QED
      BY <2>1, <2>4, <2>5
  <1> QED
    <2>1. code.stack = t /\ code.crashed = FALSE
      BY <1>9, <1>11, <1>14
    <2>2. Leaves(code, r)
      BY <1>2, <1>16, <1>17, <1>18, <1>19, <2>1 DEF Leaves
    <2> QED
      BY <1>10, <2>2

-----------------------------------------------------------------------------
(* What a step does to the slots.                                          *)

\* With k names on top of what code has below its r results.
OnTopOf(st, k, code, r) ==
    /\ k \in Nat /\ r \in Nat /\ Len(code.stack) \in Nat /\ r <= Len(code.stack)
    /\ Len(st) = k + (Len(code.stack) - r)
    /\ \A i \in 1 .. Len(code.stack) - r : st[k + i] = code.stack[r + i]

\* A statement puts the names it gives on top of what its expression leaves.
LEMMA StatementHolds ==
  ASSUME ValuesTraceable(Headers), ScopeInv, GeneratorInv, SymbolsInv, phase = "generate",
         Node.kind \in {"define", "tuple", "assign", "require", "time", "if"},
         NEW code, NEW r \in Nat, Leaves(code, r), NEW st, NEW k \in Nat, OnTopOf(st, k, code, r),
         depths # <<>> => k = 0 \/ Node.kind \in {"define", "tuple"},
         Node.kind \in {"define", "tuple"} => k = Len(Node.targets) /\ r = k,
         Node.kind \notin {"define", "tuple"} => r = 1 /\ k \in {0, 1},
         Node.kind \notin {"define", "tuple"} /\ k = 1 => Node.kind = "assign",
         \A i \in 1 .. k : st[i] \in Range(Node.targets),
         Range(Node.targets) \subseteq {st[i] : i \in 1 .. k} \/ Node.kind \notin {"define", "tuple"}
  PROVE  SymbolsHold(at + 1, Current, st, depths)
  <1>0. PICK m \in Nat : /\ m = Len(code.stack) - r /\ Len(st) = k + m
                         /\ \A i \in 1 .. m : st[k + i] = code.stack[r + i]
    BY DEF OnTopOf
  <1>1. /\ header \in Headers /\ Node.targets \in Seq(Names) /\ stack \in Seq(Slots)
        /\ Len(stack) \in Nat /\ Len(depths) \in Nat /\ at \in 1 .. Len(program)
        /\ Len(code.stack) \in Nat
    BY NodeIs, PathTypes, AtIs DEF Leaves
  <1>2. /\ \A i \in r + 1 .. Len(code.stack) : \E j \in 1 .. Len(stack) : code.stack[i] = stack[j]
        /\ depths # <<>> => /\ Len(code.stack) = Len(stack) + r
                            /\ \A i \in 1 .. Len(stack) : code.stack[r + i] = stack[i]
        /\ \A name \in Needs(Len(Node.operands)) :
             \E i \in r + 1 .. Len(code.stack) : code.stack[i] = name
    BY DEF Leaves
  <1>3. /\ SlotsScoped(at, Current, stack, depths) /\ Wanted(at, Current) \subseteq Range(stack)
        /\ Current = 0 => "$$" \notin Range(stack)
    BY DEF SymbolsInv, SymbolsHold
  <1>4. \A name : Declares(program, at, name) <=>
                    Node.kind \in {"define", "tuple"} /\ name \in Range(Node.targets)
    BY AtIs
  <1>5. \A i \in 1 .. m : \E j \in 1 .. Len(stack) : st[k + i] = stack[j]
    <2> TAKE i \in 1 .. m
    <2>1. PICK p : p = r + i
      OBVIOUS
    <2>2. p \in r + 1 .. Len(code.stack)
      <3>1. PICK l \in Nat : l = Len(code.stack)
        BY <1>1
      <3>2. m = l - r
        BY <1>0, <3>1
      <3>3. p \in r + 1 .. l
        BY <2>1, <3>2
      <3> QED
        BY <3>1, <3>3
    <2>3. st[k + i] = code.stack[p]
      BY <1>0, <2>1
    <2> QED
      BY <1>2, <2>2, <2>3
  <1>6. \A i \in 1 .. k : st[i] \in Names
    BY <1>1 DEF Range
  <1>7. ASSUME NEW i \in 1 .. k, Node.kind = "assign" PROVE st[i] \in Range(stack)
    <2>1. st[i] \in Range(Node.targets) /\ Len(Node.targets) = 1
      BY <1>1, <1>7, NodeIs DEF NodeFits
    <2>2. st[i] = Node.targets[1]
      BY <1>1, <2>1, LenProperties DEF Range
    <2>3. MentionedBy(program, at, st[i])
      BY <1>7, <2>1 DEF MentionedBy, Node
    <2>4. st[i] \notin Inline
      <3>1. Node.targets[1] \in header.assigned
        BY <1>7, AtIs DEF NodeScoped, Node
      <3> QED
        BY <1>1, <2>2, <3>1 DEF ValuesTraceable, Inline
    <2>5. st[i] \in Wanted(at, Current)
      BY <1>7, <2>3, <2>4, MentionsAreWanted
    <2> QED
      BY <1>3, <2>5
  <1>8. SlotsScoped(at + 1, Current, st, depths)
    <2>1. PICK n : n = k + m /\ n \in Nat /\ n = Len(st)
      BY <1>0
    <2>2. \A i \in 1 .. n : st[i] \in Names => Declares(program, at, st[i]) \/ st[i] \in Range(stack)
      <3> TAKE i \in 1 .. n
      <3>1. CASE i <= k
        <4>1. i \in 1 .. k
          BY <2>1, <3>1
        <4>2. Node.kind \in {"define", "tuple"} \/ Node.kind = "assign"
          BY <4>1
        <4> QED
          BY <1>4, <1>7, <4>1, <4>2
      <3>2. CASE ~(i <= k)
        <4>1. i - k \in 1 .. m /\ k + (i - k) = i
          BY <2>1, <3>2
        <4>2. \E j \in 1 .. Len(stack) : st[k + (i - k)] = stack[j]
          BY <1>5, <4>1
        <4> QED
          BY <1>1, <4>1, <4>2, LenProperties DEF Range
      <3> QED
        BY <3>1, <3>2
    <2>3. ASSUME depths # <<>>
          PROVE  /\ n = Len(stack) + k
                 /\ \A i \in 1 .. Len(stack) : st[k + i] = stack[i]
                 /\ \A i \in 1 .. k : st[i] \in Names => Declares(program, at, st[i])
      <3>1. m = Len(stack)
        BY <1>0, <1>1, <1>2, <2>3
      <3>2. \A i \in 1 .. k : Declares(program, at, st[i])
        BY <1>4, <2>3
      <3>3. \A i \in 1 .. m : st[k + i] = code.stack[r + i] /\ code.stack[r + i] = stack[i]
        BY <1>0, <1>2, <2>3, <3>1
      <3>4. n = Len(stack) + k
        BY <1>1, <2>1, <3>1
      <3>5. \A i \in 1 .. Len(stack) : st[k + i] = stack[i]
        BY <3>1, <3>3
      <3> QED
        BY <3>2, <3>4, <3>5
    <2> QED
      BY <1>3, <2>1, <2>2, <2>3, SlotsStep
  <1>9. Wanted(at + 1, Current) \subseteq Range(st)
    <2> SUFFICES ASSUME NEW name \in Wanted(at + 1, Current) PROVE name \in Range(st)
      OBVIOUS
    <2>1. \A i \in 1 .. Len(st) : st[i] \in Range(st)
      <3>1. DOMAIN st = 1 .. Len(st)
        BY LenProperties
      <3> QED
        BY <3>1 DEF Range
    <2>2. CASE Declares(program, at, name)
      <3>1. PICK i \in 1 .. k : st[i] = name
        BY <1>4, <2>2
      <3>2. i \in 1 .. Len(st)
        BY <1>0
      <3> QED
        BY <2>1, <3>1, <3>2
    <2>3. CASE ~Declares(program, at, name)
      <3>1. name \in Wanted(at, Current)
        BY <1>1, <2>3, WantedNext
      <3>2. name \in Needs(Len(Node.operands))
        BY <3>1 DEF Needs
      <3>3. PICK i \in r + 1 .. Len(code.stack) : code.stack[i] = name
        BY <1>2, <3>2
      <3>4. PICK p \in 1 .. m : r + p = i
        <4>1. i - r \in 1 .. m /\ r + (i - r) = i
          BY <1>0, <1>1
        <4> QED
          BY <4>1
      <3>5. st[k + p] = code.stack[r + p] /\ k + p \in 1 .. Len(st)
        BY <1>0
      <3> QED
        BY <2>1, <3>3, <3>4, <3>5
    <2> QED
      BY <2>2, <2>3
  <1>10. ASSUME Current = 0, "$$" \in Range(st) PROVE FALSE
    <2>1. PICK i \in 1 .. Len(st) : st[i] = "$$"
      <3>1. DOMAIN st = 1 .. Len(st)
        BY LenProperties
      <3> QED
        BY <1>10, <3>1 DEF Range
    <2>2. ~(i <= k)
      <3>1. "$$" \notin Names
        BY <1>1, NamesAreNoMarks
      <3>2. i \in Nat /\ 1 <= i
        BY <2>1
      <3> QED
        BY <1>6, <2>1, <3>1, <3>2
    <2>3. i - k \in 1 .. m /\ k + (i - k) = i
      BY <1>0, <2>2
    <2>4. PICK j \in 1 .. Len(stack) : st[i] = stack[j]
      BY <1>5, <2>3
    <2> QED
      BY <1>1, <1>3, <1>10, <2>1, <2>4, LenProperties DEF Range
  <1> QED
    BY <1>8, <1>9, <1>10 DEF SymbolsHold

\* The slots the next function starts with stay.
LEMMA CopyKept ==
  ASSUME ScopeInv, GeneratorInv, SymbolsInv, phase = "generate"
  PROVE  CopyHolds(at + 1, Current, stackCopy)
  <1>1. Current \in Nat /\ at \in Nat
    BY NodeIs
  <1>2. CopyHolds(at, Current, stackCopy)
    BY DEF SymbolsInv
  <1> SUFFICES ASSUME Current > 0, Len(Functions) > 1
               PROVE  CopyScoped(at + 1, stackCopy) /\ Later(at + 1, Current) \subseteq Range(stackCopy)
    BY DEF CopyHolds
  <1>3. CopyScoped(at, stackCopy) /\ Later(at, Current) \subseteq Range(stackCopy)
    BY <1>2 DEF CopyHolds
  <1>4. CopyScoped(at + 1, stackCopy)
    BY <1>3, CopyNext
  <1>5. \A name \in Later(at + 1, Current) : name \in Later(at, Current)
    BY <1>1, LaterNext
  <1> QED
    BY <1>3, <1>4, <1>5

LEMMA RecordedNext ==
  ASSUME ScopeInv, GeneratorInv, SymbolsInv, phase = "generate", NEW symbols,
         \A symbol \in symbols : \/ symbol \in usedSymbols
                                 \/ \E name : /\ MentionedBy(program, at, name)
                                              /\ symbol = <<name, DeclarationOf(name, at)>>
  PROVE  Recorded(at + 1, symbols)
  <1>1. at \in Nat \ {0} /\ Recorded(at, usedSymbols)
    BY NodeIs DEF SymbolsInv
  <1>2. /\ \A i \in 1 .. at - 1 : i \in 1 .. at + 1 - 1
        /\ at \in 1 .. at + 1 - 1
    BY <1>1
  <1> QED
    BY <1>1, <1>2 DEF Recorded

LEMMA JoinedSlots ==
  ASSUME NEW S, NEW a \in Seq(S), NEW b \in Seq(S), NEW k, k = Len(a), NEW m, m = Len(b)
  PROVE  /\ a \o b \in Seq(S) /\ k \in Nat /\ m \in Nat /\ Len(a \o b) = k + m
         /\ \A i \in 1 .. k : (a \o b)[i] = a[i]
         /\ \A i \in 1 .. m : (a \o b)[k + i] = b[i]
  <1>1. k \in Nat /\ m \in Nat
    BY LenProperties
  <1>2. /\ a \o b \in Seq(S) /\ Len(a \o b) = k + m
        /\ \A i \in 1 .. k + m : (a \o b)[i] = IF i <= k THEN a[i] ELSE b[i - k]
    BY ConcatProperties
  <1>3. \A i \in 1 .. k : i \in 1 .. k + m
    BY <1>1
  <1>4. \A i \in 1 .. m : k + i \in 1 .. k + m /\ ~(k + i <= k) /\ k + i - k = i
    BY <1>1
  <1> QED
    BY <1>1, <1>2, <1>3, <1>4

LEMMA StatementNext ==
  ASSUME ValuesTraceable(Headers), ScopeInv, GeneratorInv, SymbolsInv, phase = "generate",
         Visited, stackCopy' = stackCopy, depths' = depths,
         Node.kind \in {"define", "tuple", "assign", "require", "time"},
         NEW code, NEW r \in Nat, Leaves(code, r), code.stack \in Seq(Slots),
         NEW names \in Seq(Names), NEW rest, rest = From(code.stack, r), stack' = names \o rest,
         Len(names) = 0 \/ depths = <<>> \/ Node.kind \in {"define", "tuple"},
         Node.kind \in {"define", "tuple"} => r = Len(names) /\ Len(names) = Len(Node.targets),
         Node.kind \notin {"define", "tuple"} => r = 1,
         Len(names) = 0 \/ Node.kind \in {"define", "tuple", "assign"},
         Len(names) = 0 \/ Range(names) = Range(Node.targets),
         Node.kind = "assign" => Len(names) \in {0, 1},
         \A symbol \in usedSymbols' : \/ symbol \in usedSymbols
                                      \/ \E name : /\ MentionedBy(program, at, name)
                                                   /\ symbol = <<name, DeclarationOf(name, at)>>
  PROVE  SymbolsInv'
  <1>1. header' = header /\ program' = program /\ at' = at + 1 /\ Current' = Current /\ at + 1 \in Nat
    <2>1. Node.kind # "function" /\ at \in Nat
      BY NodeIs
    <2> QED
      BY <2>1, VisitedMeans, UnnamedKept
  <1>2. PICK l \in Nat, k \in Nat : l = Len(code.stack) /\ k = Len(names) /\ r <= l
    BY LenProperties DEF Leaves
  <1>0. PICK m \in Nat : m = l - r
    <2>1. l - r \in Nat
      BY <1>2
    <2> QED
      BY <2>1
  <1>3. /\ rest \in Seq(Slots) /\ Len(rest) = m /\ names \in Seq(Slots)
        /\ \A i \in 1 .. m : rest[i] = code.stack[r + i]
    <2>1. names \in Seq(Slots)
      BY MachineTypes
    <2>2. /\ From(code.stack, r) \in Seq(Slots) /\ Len(From(code.stack, r)) = Len(code.stack) - r
          /\ \A i \in 1 .. Len(code.stack) - r : From(code.stack, r)[i] = code.stack[r + i]
      BY <1>2, SlotsBehind
    <2> QED
      BY <1>0, <1>2, <2>1, <2>2
  <1>4. PICK st : st = stack' /\ st = names \o rest
    OBVIOUS
  <1>5. /\ Len(st) = k + m
        /\ \A i \in 1 .. k : st[i] = names[i]
        /\ \A i \in 1 .. m : st[k + i] = rest[i]
    <2>1. k = Len(names) /\ m = Len(rest) /\ names \in Seq(Slots) /\ rest \in Seq(Slots)
      BY <1>2, <1>3
    <2>2. /\ Len(names \o rest) = k + m
          /\ \A i \in 1 .. k : (names \o rest)[i] = names[i]
          /\ \A i \in 1 .. m : (names \o rest)[k + i] = rest[i]
      BY ONLY <2>1, JoinedSlots
    <2> QED
      BY <1>4, <2>2
  <1>6. \A i \in 1 .. m : st[k + i] = code.stack[r + i]
    BY <1>3, <1>5
  <1>7. Range(names) = {st[i] : i \in 1 .. k}
    <2>1. DOMAIN names = 1 .. k
      BY <1>2, LenProperties
    <2>2. \A i \in 1 .. k : st[i] = names[i]
      BY <1>5
    <2> QED
      BY ONLY <2>1, <2>2 DEF Range
  <1>8. SymbolsHold(at + 1, Current, st, depths)
    <2>0. OnTopOf(st, k, code, r)
      BY <1>0, <1>2, <1>5, <1>6 DEF OnTopOf
    <2>1. \A i \in 1 .. k : st[i] \in Range(Node.targets)
      BY <1>2, <1>7
    <2>2. Node.kind \in {"define", "tuple"} => k = Len(Node.targets) /\ r = k /\ k # 0
      <3>1. /\ Node.kind = "define" => Len(Node.targets) = 1
            /\ Node.kind = "tuple" => Len(Node.targets) = 2
        BY NodeIs DEF NodeFits
      <3>2. Node.kind \in {"define", "tuple"} => r = k /\ k = Len(Node.targets)
        BY <1>2
      <3>3. Node.kind = "define" => k = 1
        BY <3>1, <3>2
      <3>4. Node.kind = "tuple" => k = 2
        BY <3>1, <3>2
      <3> QED
        BY <3>2, <3>3, <3>4
    <2>3. Node.kind \notin {"define", "tuple"} => r = 1 /\ k \in {0, 1} /\ (k = 1 => Node.kind = "assign")
      BY <1>2
    <2>4. Range(Node.targets) \subseteq {st[i] : i \in 1 .. k} \/ Node.kind \notin {"define", "tuple"}
      BY <1>2, <1>7, <2>2
    <2>5. depths # <<>> => k = 0 \/ Node.kind \in {"define", "tuple"}
      BY <1>2
    <2> QED
      BY <2>0, <2>1, <2>2, <2>3, <2>4, <2>5, StatementHolds
  <1>9. CopyHolds(at + 1, Current, stackCopy) /\ Recorded(at + 1, usedSymbols')
    BY CopyKept, RecordedNext
  <1> QED
    BY <1>1, <1>4, <1>8, <1>9, SymbolsNext

\* The symbols a statement uses are those it mentions.
LEMMA UsesRecorded ==
  ASSUME GeneratorInv, phase = "generate",
         \/ Uses(Range(Node.operands))
         \/ Node.kind = "assign" /\ usedSymbols' = usedSymbols \cup
              {<<n, DeclarationOf(n, at)>> : n \in (Range(Node.operands) \ Inline) \cup {Node.targets[1]}}
  PROVE  \A symbol \in usedSymbols' : \/ symbol \in usedSymbols
                                      \/ \E name : /\ MentionedBy(program, at, name)
                                                   /\ symbol = <<name, DeclarationOf(name, at)>>
  <1>1. \A name \in Range(Node.operands) : MentionedBy(program, at, name)
    BY DEF MentionedBy, Node
  <1>2. Node.kind = "assign" => MentionedBy(program, at, Node.targets[1])
    <2>1. Node.kind = "assign" => Node.targets[1] \in Range(Node.targets)
      BY NodeIs, LenProperties DEF NodeFits, Range
    <2> QED
      BY <2>1 DEF MentionedBy, Node
  <1>3. CASE Uses(Range(Node.operands))
    BY <1>1, <1>3 DEF Uses
  <1>4. CASE Node.kind = "assign" /\ usedSymbols' = usedSymbols \cup
              {<<n, DeclarationOf(n, at)>> : n \in (Range(Node.operands) \ Inline) \cup {Node.targets[1]}}
    BY <1>1, <1>2, <1>4
  <1> QED
    BY <1>3, <1>4

LEMMA TailIsBehind ==
  ASSUME NEW S, NEW slots \in Seq(S), Len(slots) \in Nat \ {0}
  PROVE  Tail(slots) = From(slots, 1)
  BY DEF From

\* No statement loses a slot that is wanted, and none fails.
LEMMA StatementsHold ==
  ASSUME ValuesTraceable(Headers), ScopeInv, GeneratorInv, SymbolsInv, phase = "generate",
         \/ GenerateDefinition \/ GenerateTupleAssignment \/ GenerateAssign
         \/ GenerateRequire \/ GenerateTimeOp
  PROVE  SymbolsInv'
  <1>1. /\ Node.targets \in Seq(Names) /\ at \in Nat
        /\ Computed(at) \in Contents /\ ComputedToo(at) \in Contents
    BY NodeIs, MachineTypes
  <1>2. PICK one, two : one = OneResult /\ two = Expression(<<ComputedToo(at), Computed(at)>>)
    OBVIOUS
  <1>3. ASSUME Node.kind # "function" PROVE Leaves(one, 1) /\ Leaves(two, 2)
    <2>1. <<Computed(at)>> \in Seq(Contents) /\ Len(<<Computed(at)>>) = 1
      BY <1>1
    <2>2. <<ComputedToo(at), Computed(at)>> \in Seq(Contents)
          /\ Len(<<ComputedToo(at), Computed(at)>>) = 2
      BY <1>1
    <2> QED
      BY <1>2, <1>3, <2>1, <2>2, ExpressionLeaves DEF OneResult
  <1>4. ASSUME Node.kind # "function", ~one.crashed
        PROVE  one.stack \in Seq(Slots) /\ Tail(one.stack) = From(one.stack, 1)
    <2>1. one.stack \in Seq(Slots) /\ Len(one.stack) \in Nat \ {0}
      BY <1>2, <1>4, OneResultIs
    <2> QED
      BY <2>1, TailIsBehind
  <1>5. <<>> \o From(one.stack, 1) = From(one.stack, 1) \/ one.stack \notin Seq(Slots)
                                                     \/ Len(one.stack) = 0
    <2> SUFFICES ASSUME one.stack \in Seq(Slots), Len(one.stack) # 0
                 PROVE  <<>> \o From(one.stack, 1) = From(one.stack, 1)
      OBVIOUS
    <2>1. From(one.stack, 1) \in Seq(Slots)
      BY FromType
    <2> QED
      BY <2>1
  <1>6. ASSUME GenerateDefinition PROVE SymbolsInv'
    <2>1. /\ Node.kind = "define" /\ ~one.crashed /\ Visited /\ stackCopy' = stackCopy
          /\ depths' = depths /\ stack' = Node.targets \o Tail(one.stack)
          /\ Uses(Range(Node.operands))
      BY <1>2, <1>6 DEF GenerateDefinition, Compile
    <2>2. Len(Node.targets) = 1
      BY <2>1, NodeIs DEF NodeFits
    <2> QED
      BY <1>1, <1>3, <1>4, <2>1, <2>2, UsesRecorded, StatementNext
  <1>7. ASSUME GenerateTupleAssignment PROVE SymbolsInv'
    <2>1. /\ Node.kind = "tuple" /\ ~two.crashed /\ Visited /\ stackCopy' = stackCopy
          /\ depths' = depths /\ stack' = TupleSlots \o From(two.stack, 2)
          /\ Uses(Range(Node.operands))
      BY <1>2, <1>7 DEF GenerateTupleAssignment, Compile
    <2>2. Len(Node.targets) = 2
      BY <2>1, NodeIs DEF NodeFits
    <2>3. TupleSlots \in Seq(Names) /\ Len(TupleSlots) = 2
      BY <1>1, <2>2, ReverseType DEF TupleSlots
    <2>4. Range(TupleSlots) = Range(Node.targets)
      BY <1>1, <2>2, <2>3 DEF TupleSlots, Reverse, Range
    <2>5. two.stack \in Seq(Slots)
      <3>1. <<ComputedToo(at), Computed(at)>> \in Seq(Contents)
        BY <1>1
      <3> QED
        BY <1>2, <2>1, <3>1, CompiledIs
    <2> QED
      BY <1>1, <1>3, <2>1, <2>2, <2>3, <2>4, <2>5, UsesRecorded, StatementNext
  <1>8. ASSUME GenerateAssign PROVE SymbolsInv'
    <2>1. /\ Node.kind = "assign" /\ ~one.crashed /\ Visited /\ stackCopy' = stackCopy
          /\ depths' = depths
          /\ \/ stack' = Tail(one.stack)
             \/ ~Replaces(Node.targets[1]) /\ stack' = <<Node.targets[1]>> \o Tail(one.stack)
          /\ usedSymbols' = usedSymbols \cup
              {<<n, DeclarationOf(n, at)>> : n \in (Range(Node.operands) \ Inline) \cup {Node.targets[1]}}
      BY <1>2, <1>8 DEF GenerateAssign, Compile
    <2>2. /\ Len(Node.targets) = 1 /\ Node.targets[1] \in Names
          /\ Node.targets = <<Node.targets[1]>> /\ <<Node.targets[1]>> \in Seq(Names)
      BY <1>1, <2>1, NodeIs DEF NodeFits
    <2>3. one.stack \in Seq(Slots) /\ Tail(one.stack) = From(one.stack, 1) /\ Leaves(one, 1)
          /\ Len(one.stack) # 0
      <3>1. Len(one.stack) # 0
        BY <1>2, <2>1, OneResultIs
      <3> QED
        BY <1>3, <1>4, <2>1, <3>1
    <2>4. CASE stack' = Tail(one.stack)
      <3>1. stack' = <<>> \o From(one.stack, 1) /\ <<>> \in Seq(Names) /\ Len(<<>>) = 0
        BY <1>5, <2>3, <2>4
      <3> QED
        BY <2>1, <2>3, <3>1, UsesRecorded, StatementNext
    <2>5. CASE ~Replaces(Node.targets[1]) /\ stack' = <<Node.targets[1]>> \o Tail(one.stack)
      <3>1. depths = <<>>
        BY <2>5 DEF Replaces
      <3>2. Len(<<Node.targets[1]>>) = 1
        OBVIOUS
      <3> QED
        BY <2>1, <2>2, <2>3, <2>5, <3>1, <3>2, UsesRecorded, StatementNext
    <2> QED
      BY <2>1, <2>4, <2>5
  <1>9. ASSUME GenerateRequire \/ GenerateTimeOp PROVE SymbolsInv'
    <2>1. /\ Node.kind \in {"require", "time"} /\ ~one.crashed /\ Visited
          /\ stackCopy' = stackCopy /\ depths' = depths /\ stack' = Tail(one.stack)
          /\ Uses(Range(Node.operands))
      BY <1>2, <1>9 DEF GenerateRequire, GenerateTimeOp, Compile
    <2>2. one.stack \in Seq(Slots) /\ Tail(one.stack) = From(one.stack, 1) /\ Leaves(one, 1)
          /\ Len(one.stack) # 0
      <3>1. Len(one.stack) # 0
        BY <1>2, <2>1, OneResultIs
      <3> QED
        BY <1>3, <1>4, <2>1, <3>1
    <2>3. stack' = <<>> \o From(one.stack, 1) /\ <<>> \in Seq(Names) /\ Len(<<>>) = 0
      BY <1>5, <2>1, <2>2
    <2> QED
      BY <2>1, <2>2, <2>3, UsesRecorded, StatementNext
  <1> QED
    BY <1>6, <1>7, <1>8, <1>9

\* A branch begins with the slots there are.
LEMMA BranchSlots ==
  ASSUME ScopeInv, NEW a \in Nat, NEW f, NEW st, NEW ds, SlotsScoped(a, f, st, ds),
         NEW l \in Nat, l = Len(st), NEW d \in Nat, d = Len(ds),
         \A t \in 1 .. d : ds[t] \in Nat,
         NEW more, Len(more) = d + 1, more[1] = l, \A t \in 1 .. d : more[t + 1] = ds[t]
  PROVE  SlotsScoped(a, f, st, more)
  <1> SUFFICES ASSUME NEW p \in 1 .. l, st[p] \in Names
               PROVE  /\ VisibleAt(program, st[p], a)
                      /\ DeclaredLevel(st[p], a) <= d + 1 + In(f)
                      /\ \A t \in 1 .. d + 1 :
                           p <= l - more[t] <=> DeclaredLevel(st[p], a) > d + 1 - t + In(f)
    BY DEF SlotsScoped
  <1>1. PICK v \in Nat, o \in Nat : v = DeclaredLevel(st[p], a) /\ o = In(f)
    BY LevelType DEF In
  <1>2. /\ VisibleAt(program, st[p], a) /\ v <= d + o
        /\ \A t \in 1 .. d : p <= l - ds[t] <=> v > d - t + o
    BY <1>1 DEF SlotsScoped
  <1>3. ASSUME NEW t \in 1 .. d + 1 PROVE p <= l - more[t] <=> v > d + 1 - t + o
    <2>1. CASE t = 1
      <3>1. l - more[t] = 0 /\ ~(p <= 0)
        BY <2>1
      <3>2. ~(v > d + 1 - t + o)
        BY <1>2, <2>1
      <3> QED
        BY <3>1, <3>2
    <2>2. CASE t # 1
      <3>1. PICK u \in 1 .. d : u + 1 = t
        <4>1. t - 1 \in 1 .. d /\ t - 1 + 1 = t
          BY <2>2
        <4> QED
          BY <4>1
      <3>2. more[u + 1] = ds[u] /\ d + 1 - (u + 1) = d - u
        OBVIOUS
      <3>3. more[t] = ds[u] /\ d + 1 - t = d - u
        BY <3>1, <3>2
      <3>4. p <= l - ds[u] <=> v > d - u + o
        BY <1>2
      <3> QED
        BY <3>3, <3>4
    <2> QED
      BY <2>1, <2>2
  <1> QED
    BY <1>1, <1>2, <1>3

LEMMA IfHolds ==
  ASSUME ValuesTraceable(Headers), ScopeInv, GeneratorInv, SymbolsInv, phase = "generate",
         GenerateIf
  PROVE  SymbolsInv'
  <1>1. PICK code : code = OneResult
    OBVIOUS
  <1>2. /\ Node.kind = "if" /\ ~code.crashed /\ Visited /\ stackCopy' = stackCopy
        /\ depths' = <<Len(code.stack) - 1>> \o depths /\ stack' = Tail(code.stack)
        /\ Uses(Range(Node.operands))
    BY <1>1 DEF GenerateIf, Compile, StackDepth
  <1>3. PICK l \in Nat : Len(code.stack) = l + 1
    <2>1. Len(code.stack) \in Nat \ {0}
      BY <1>1, <1>2, OneResultIs
    <2>2. Len(code.stack) - 1 \in Nat /\ Len(code.stack) = (Len(code.stack) - 1) + 1
      BY <2>1
    <2> QED
      BY <2>2
  <1>4. /\ code.stack \in Seq(Slots) /\ Leaves(code, 1) /\ at \in Nat
    <2>1. code.stack \in Seq(Slots) /\ Node.kind # "function" /\ at \in Nat
      BY <1>1, <1>2, OneResultIs, NodeIs
    <2>2. <<Computed(at)>> \in Seq(Contents) /\ Len(<<Computed(at)>>) = 1
      BY <2>1, MachineTypes
    <2> QED
      BY <1>1, <2>1, <2>2, ExpressionLeaves DEF OneResult
  <1>5. PICK st : st = Tail(code.stack)
    OBVIOUS
  <1>6. Len(st) = l /\ \A i \in 1 .. l : st[i] = code.stack[1 + i]
    <2>1. 1 \in Nat /\ 1 <= Len(code.stack) /\ Len(code.stack) - 1 = l
      BY <1>3
    <2>2. From(code.stack, 1) = Tail(code.stack)
      <3>1. Len(code.stack) \in Nat \ {0}
        BY <1>3
      <3> QED
        BY <1>4, <3>1, TailIsBehind
    <2>3. /\ Len(From(code.stack, 1)) = Len(code.stack) - 1
          /\ \A i \in 1 .. Len(code.stack) - 1 : From(code.stack, 1)[i] = code.stack[1 + i]
      BY <1>4, <2>1, SlotsBehind
    <2> QED
      BY <1>5, <2>1, <2>2, <2>3
  <1>7. SymbolsHold(at + 1, Current, st, depths)
    <2>1. 0 \in Nat /\ 1 \in Nat /\ OnTopOf(st, 0, code, 1)
      <3>1. Len(code.stack) - 1 = l /\ 1 <= Len(code.stack)
        BY <1>3
      <3>2. \A i \in 1 .. l : st[0 + i] = code.stack[1 + i]
        BY <1>6
      <3> QED
        BY <1>3, <1>6, <3>1, <3>2 DEF OnTopOf
    <2> QED
      BY <1>2, <1>4, <2>1, StatementHolds
  <1>8. PICK d \in Nat : /\ d = Len(depths) /\ \A t \in 1 .. d : depths[t] \in Nat
                         /\ depths \in Seq(Nat)
    BY PathTypes
  <1>9. PICK more : more = depths' /\ more = <<l>> \o depths
    <2>1. Len(code.stack) - 1 = l
      BY <1>3
    <2> QED
      BY <1>2, <2>1
  <1>10. Len(more) = d + 1 /\ more[1] = l /\ \A t \in 1 .. d : more[t + 1] = depths[t]
    BY <1>8, <1>9, PushedType
  <1>11. SymbolsHold(at + 1, Current, st, more)
    <2>1. SlotsScoped(at + 1, Current, st, depths)
      BY <1>7 DEF SymbolsHold
    <2>2. at + 1 \in Nat /\ l = Len(st) /\ d = Len(depths) /\ \A t \in 1 .. d : depths[t] \in Nat
      BY <1>4, <1>6, <1>8
    <2>3. PICK a, f : a \in Nat /\ a = at + 1 /\ f = Current
      BY <2>2
    <2>4. SlotsScoped(at + 1, Current, st, more)
      <3>1. SlotsScoped(a, f, st, depths)
        BY <2>1, <2>3
      <3>2. SlotsScoped(a, f, st, more)
        BY ONLY ScopeInv, <2>3, l \in Nat, d \in Nat, <1>10, <2>2, <3>1, BranchSlots
      <3> QED
        BY <2>3, <3>2
    <2> QED
      BY <1>7, <2>4 DEF SymbolsHold
  <1>12. CopyHolds(at + 1, Current, stackCopy) /\ Recorded(at + 1, usedSymbols')
    BY <1>2, CopyKept, RecordedNext, UsesRecorded
  <1>13. header' = header /\ program' = program /\ at' = at + 1 /\ Current' = Current /\ at + 1 \in Nat
    BY <1>2, <1>4, VisitedMeans, UnnamedKept
  <1> QED
    BY <1>2, <1>5, <1>9, <1>11, <1>12, <1>13, SymbolsNext

\* The slots that stay when a block is left.
LEMMA BlockLeaves ==
  ASSUME ScopeInv, GeneratorInv, SymbolsInv, phase = "generate", Node.kind \in {"else", "endif"},
         LeaveBlock, NEW k, k = IF Node.kind = "endif" THEN 1 ELSE 0,
         Len(depths') = Len(depths) - k, \A i \in 1 .. Len(depths') : depths'[i] = depths[i + k]
  PROVE  SymbolsInv'
  <1>1. PICK d \in Nat : d = depths[1]
    BY LeaveBlockIs
  <1>2. Len(depths) >= 1 /\ Len(stack) - Scoped = d /\ Len(stack') = d
    BY <1>1, LeaveBlockIs
  <1>3. PICK l \in Nat : l = Len(stack) /\ stack \in Seq(Slots) /\ d <= l /\ Len(depths) \in Nat
    <2>1. 1 \in 1 .. Len(depths) /\ Len(stack) \in Nat /\ stack \in Seq(Slots)
      BY <1>2, PathTypes
    <2>2. depths[1] <= Len(stack)
      BY <2>1, PathTypes
    <2> QED
      BY <1>1, <2>1, <2>2, PathTypes
  <1>4. Scoped = l - d /\ l - d \in Nat
    <2>1. Head(depths) = d
      BY <1>1, LeaveBlockIs
    <2>2. l - d \in Nat
      BY <1>3
    <2>3. {0, l - d} \subseteq 0 .. l - d /\ {0, l - d} # {}
      BY <2>2
    <2>4. Max({0, l - d}) \in {0, l - d} /\ \A x \in {0, l - d} : x <= Max({0, l - d})
      BY <2>2, <2>3, GreatestElement
    <2>5. Max({0, l - d}) = l - d
      BY <2>2, <2>4
    <2> QED
      BY <1>3, <2>1, <2>2, <2>5 DEF Scoped
  <1>5. PICK st : st = stack' /\ st = From(stack, l - d)
    BY <1>4 DEF LeaveBlock
  <1>6. Len(st) = d /\ \A i \in 1 .. d : st[i] = stack[l - d + i]
    <2>1. PICK e \in Nat : e = l - d /\ e <= Len(stack) /\ Len(stack) - e = d
      <3>1. l - d \in Nat /\ l - d <= l /\ l - (l - d) = d
        BY <1>1, <1>3
      <3> QED
        BY <1>3, <3>1
    <2>2. stack \in Seq(Slots)
      BY PathTypes
    <2>3. /\ Len(From(stack, e)) = Len(stack) - e
          /\ \A i \in 1 .. Len(stack) - e : From(stack, e)[i] = stack[e + i]
      BY ONLY <2>1, <2>2, SlotsBehind
    <2> QED
      BY ONLY <1>5, <2>1, <2>3
  <1>7. /\ SlotsScoped(at, Current, stack, depths) /\ Wanted(at, Current) \subseteq Range(stack)
        /\ Current = 0 => "$$" \notin Range(stack)
    BY DEF SymbolsInv, SymbolsHold
  <1>8. SlotsScoped(at + 1, Current, st, depths')
    <2>1. d <= Len(stack) /\ \A i \in 1 .. d : st[i] = stack[Len(stack) - d + i]
      BY <1>3, <1>6
    <2>2. \A st1 : /\ Len(st1) = d /\ \A i \in 1 .. d : st1[i] = stack[Len(stack) - d + i]
                   => \A k1 : k1 = (IF Node.kind = "endif" THEN 1 ELSE 0) =>
                      \A ds : Len(ds) = Len(depths) - k1 /\ (\A t \in 1 .. Len(ds) : ds[t] = depths[t + k1])
                              => SlotsScoped(at + 1, Current, st1, ds)
      BY <1>1, <1>2, <1>7, <2>1, SlotsLeft
    <2> QED
      BY <1>6, <2>1, <2>2
  <1>9. Wanted(at + 1, Current) \subseteq Range(st)
    <2> SUFFICES ASSUME NEW name \in Wanted(at + 1, Current) PROVE name \in Range(st)
      OBVIOUS
    <2>1. name \in Wanted(at, Current) /\ DeclaredLevel(name, at) < Len(depths) + In(Current)
      BY ClosedAreNotWanted
    <2>2. PICK p \in 1 .. l : stack[p] = name
      BY <1>3, <1>7, <2>1, LenProperties DEF Range
    <2>3. name \in Names
      BY <2>1 DEF Wanted
    <2>4. p <= l - d <=> DeclaredLevel(name, at) > Len(depths) - 1 + In(Current)
      <3>1. 1 \in 1 .. Len(depths)
        BY <1>2, <1>3
      <3> QED
        BY <1>1, <1>3, <1>7, <2>2, <2>3, <3>1 DEF SlotsScoped
    <2>5. ~(p <= l - d)
      <3>1. PICK v \in Nat, o \in Nat, e \in Nat :
              v = DeclaredLevel(name, at) /\ o = In(Current) /\ e = Len(depths)
        <4>1. at \in Nat
          BY NodeIs
        <4> QED
          BY <1>3, <4>1, LevelType DEF In
      <3>2. v < e + o => ~(v > e - 1 + o)
        OBVIOUS
      <3> QED
        BY <2>1, <2>4, <3>1, <3>2
    <2>6. PICK i \in 1 .. d : l - d + i = p
      <3>1. p - (l - d) \in 1 .. d /\ l - d + (p - (l - d)) = p
        BY <1>3, <2>5
      <3> QED
        BY <3>1
    <2>7. st[i] = name
      BY <1>6, <2>2, <2>6
    <2>8. DOMAIN st = 1 .. d
      BY <1>2, <1>3, <1>5, LeaveBlockIs, LenProperties
    <2> QED
      BY <2>7, <2>8 DEF Range
  <1>10. Current = 0 => "$$" \notin Range(st)
    <2> SUFFICES ASSUME Current = 0, "$$" \in Range(st) PROVE FALSE
      OBVIOUS
    <2>1. DOMAIN st = 1 .. d
      BY <1>2, <1>3, <1>5, LeaveBlockIs, LenProperties
    <2>2. PICK i \in 1 .. d : st[i] = "$$"
      BY <2>1 DEF Range
    <2>3. l - d + i \in 1 .. l
      BY <1>3
    <2>4. stack[l - d + i] = "$$"
      BY <1>6, <2>2
    <2> QED
      BY <1>3, <1>7, <2>3, <2>4, LenProperties DEF Range
  <1>11. Visited /\ stackCopy' = stackCopy /\ usedSymbols' = usedSymbols
    BY DEF LeaveBlock
  <1>12. CopyHolds(at + 1, Current, stackCopy) /\ Recorded(at + 1, usedSymbols)
    BY CopyKept, RecordedNext
  <1>13. header' = header /\ program' = program /\ at' = at + 1 /\ Current' = Current /\ at + 1 \in Nat
    <2>1. at \in Nat
      BY NodeIs
    <2> QED
      BY <1>11, <2>1, VisitedMeans, UnnamedKept
  <1>14. SymbolsHold(at + 1, Current, st, depths')
    BY <1>8, <1>9, <1>10 DEF SymbolsHold
  <1> QED
    BY <1>5, <1>11, <1>12, <1>13, <1>14, SymbolsNext

LEMMA LeaveHolds ==
  ASSUME ScopeInv, GeneratorInv, SymbolsInv, phase = "generate", GenerateElse \/ GenerateEndIf
  PROVE  SymbolsInv'
  <1>1. Node.kind \in {"else", "endif"} /\ LeaveBlock
    BY DEF GenerateElse, GenerateEndIf
  <1>2. depths \in Seq(Nat) /\ Len(depths) \in Nat /\ Len(depths) >= 1
    BY <1>1, PathTypes, LeaveBlockIs
  <1>3. ASSUME GenerateEndIf PROVE SymbolsInv'
    <2>1. depths' = Tail(depths) /\ Node.kind = "endif"
      BY <1>3 DEF GenerateEndIf
    <2>2. Len(depths') = Len(depths) - 1 /\ \A i \in 1 .. Len(depths') : depths'[i] = depths[i + 1]
      BY <1>2, <2>1
    <2> QED
      BY <1>1, <2>1, <2>2, BlockLeaves
  <1>4. ASSUME GenerateElse PROVE SymbolsInv'
    <2>1. Node.kind = "else" /\ depths' = <<Len(stack) - Scoped>> \o Tail(depths)
      BY <1>4 DEF GenerateElse
    <2>2. Len(stack) - Scoped = depths[1]
      BY <1>1, LeaveBlockIs
    <2>3. Len(depths') = Len(depths) /\ \A i \in 1 .. Len(depths') : depths'[i] = depths[i]
      BY <1>2, <2>1, <2>2
    <2>4. Len(depths') = Len(depths) - 0 /\ \A i \in 1 .. Len(depths') : depths'[i] = depths[i + 0]
      BY <1>2, <2>3
    <2> QED
      BY <1>1, <2>1, <2>4, BlockLeaves
  <1> QED
    BY <1>3, <1>4

-----------------------------------------------------------------------------
(* The end of the state script.                                            *)

\* The kept slots are those of the first k that stay, in their order, next to what is
\* beside them on another stack.
AreKeptOf(s, l, lower, k) ==
    /\ s \in Seq(Slots) /\ Len(l) = Len(s)
    /\ \A i \in 1 .. Len(s) : \E j \in 1 .. k :
         /\ s[i] = stack[j] /\ l[i] = lower[j] /\ ~Dropped(j)
         /\ \A h \in 1 .. j - 1 : ~Dropped(h) => \E g \in 1 .. i - 1 : s[g] = stack[h]
    /\ \A j \in 1 .. k : ~Dropped(j) => \E i \in 1 .. Len(s) : s[i] = stack[j]

LEMMA OneMoreSlot ==
  ASSUME NEW S, NEW s \in Seq(S), NEW x \in S, NEW m \in Nat, m = Len(s)
  PROVE  /\ Append(s, x) \in Seq(S) /\ Len(Append(s, x)) = m + 1 /\ Append(s, x)[m + 1] = x
         /\ \A i \in 1 .. m : Append(s, x)[i] = s[i]
  BY AppendProperties

LEMMA KeptOfNext ==
  ASSUME NEW n \in Nat, n = Len(stack), stack \in Seq(Slots), NEW T, NEW lower \in Seq(T),
         NEW k \in Nat, k + 1 <= n, lower[k + 1] \in T,
         NEW s, NEW l \in Seq(T), AreKeptOf(s, l, lower, k)
  PROVE  AreKeptOf(KeptNext(s, stack, k + 1), KeptNext(l, lower, k + 1), lower, k + 1)
  <1>1. PICK m \in Nat : m = Len(s)
    BY LenProperties DEF AreKeptOf
  <1>2. /\ s \in Seq(Slots) /\ Len(l) = m
        /\ \A i \in 1 .. m : \E j \in 1 .. k :
             /\ s[i] = stack[j] /\ l[i] = lower[j] /\ ~Dropped(j)
             /\ \A h \in 1 .. j - 1 : ~Dropped(h) => \E g \in 1 .. i - 1 : s[g] = stack[h]
        /\ \A j \in 1 .. k : ~Dropped(j) => \E i \in 1 .. m : s[i] = stack[j]
    BY <1>1 DEF AreKeptOf
  <1>3. CASE Dropped(k + 1)
    <2>1. KeptNext(s, stack, k + 1) = s /\ KeptNext(l, lower, k + 1) = l
      BY <1>2, <1>3 DEF KeptNext
    <2>2. \A j \in 1 .. k + 1 : j \in 1 .. k \/ j = k + 1
      OBVIOUS
    <2>3. \A j \in 1 .. k : j \in 1 .. k + 1
      OBVIOUS
    <2>4. AreKeptOf(s, l, lower, k + 1)
      BY <1>1, <1>2, <1>3, <2>2, <2>3 DEF AreKeptOf
    <2> QED
      BY <2>1, <2>4
  <1>4. CASE ~Dropped(k + 1)
    <2>1. PICK x, y : x = stack[k + 1] /\ y = lower[k + 1]
      OBVIOUS
    <2>2. PICK a, b : /\ a = KeptNext(s, stack, k + 1) /\ b = KeptNext(l, lower, k + 1)
                      /\ a = Append(s, x) /\ b = Append(l, y)
      <3>1. x \in Slots
        BY <2>1, ElementOfSeq
      <3>2. s \o <<x>> = Append(s, x)
        BY <1>2, <3>1
      <3>3. l \o <<y>> = Append(l, y)
        OBVIOUS
      <3> QED
        BY <1>4, <2>1, <3>2, <3>3 DEF KeptNext
    <2>3. /\ a \in Seq(Slots) /\ Len(a) = m + 1 /\ a[m + 1] = x /\ \A i \in 1 .. m : a[i] = s[i]
      <3>1. x \in Slots /\ s \in Seq(Slots) /\ m = Len(s)
        BY <1>1, <1>2, <2>1, ElementOfSeq
      <3>2. /\ Append(s, x) \in Seq(Slots) /\ Len(Append(s, x)) = m + 1 /\ Append(s, x)[m + 1] = x
            /\ \A i \in 1 .. m : Append(s, x)[i] = s[i]
        BY <3>1, OneMoreSlot
      <3> QED
        BY <2>2, <3>2
    <2>4. /\ Len(b) = m + 1 /\ b[m + 1] = y /\ \A i \in 1 .. m : b[i] = l[i]
      <3>1. y \in T /\ m = Len(l)
        BY <1>2, <2>1
      <3>2. /\ Append(l, y) \in Seq(T) /\ Len(Append(l, y)) = m + 1 /\ Append(l, y)[m + 1] = y
            /\ \A i \in 1 .. m : Append(l, y)[i] = l[i]
        BY <3>1, OneMoreSlot
      <3> QED
        BY <2>2, <3>2
    <2>5. ASSUME NEW i \in 1 .. m + 1
          PROVE  \E j \in 1 .. k + 1 :
                   /\ a[i] = stack[j] /\ b[i] = lower[j] /\ ~Dropped(j)
                   /\ \A h \in 1 .. j - 1 : ~Dropped(h) => \E g \in 1 .. i - 1 : a[g] = stack[h]
      <3>1. CASE i = m + 1
        <4>1. \A h \in 1 .. k : ~Dropped(h) => \E g \in 1 .. m : a[g] = stack[h]
          BY <1>2, <2>3
        <4>2. k + 1 \in 1 .. k + 1 /\ (k + 1) - 1 = k /\ (m + 1) - 1 = m
          BY <1>1
        <4> QED
          BY <1>4, <2>1, <2>3, <2>4, <3>1, <4>1, <4>2
      <3>2. CASE i # m + 1
        <4>1. i \in 1 .. m
          BY <1>1, <3>2
        <4>2. PICK j \in 1 .. k :
                /\ s[i] = stack[j] /\ l[i] = lower[j] /\ ~Dropped(j)
                /\ \A h \in 1 .. j - 1 : ~Dropped(h) => \E g \in 1 .. i - 1 : s[g] = stack[h]
          BY <1>2, <4>1
        <4>3. \A g \in 1 .. i - 1 : g \in 1 .. m
          BY <1>1, <4>1
        <4>4. j \in 1 .. k + 1
          OBVIOUS
        <4>5. \A h \in 1 .. j - 1 : ~Dropped(h) => \E g \in 1 .. i - 1 : a[g] = stack[h]
          BY <2>3, <4>2, <4>3
        <4> QED
          BY <2>3, <2>4, <4>1, <4>2, <4>4, <4>5
      <3> QED
        BY <3>1, <3>2
    <2>6. ASSUME NEW j \in 1 .. k + 1, ~Dropped(j) PROVE \E i \in 1 .. m + 1 : a[i] = stack[j]
      <3>1. CASE j = k + 1
        <4>1. m + 1 \in 1 .. m + 1
          BY <1>1
        <4> QED
          BY <2>1, <2>3, <3>1, <4>1
      <3>2. CASE j # k + 1
        <4>1. j \in 1 .. k
          BY <3>2
        <4>2. PICK i \in 1 .. m : s[i] = stack[j]
          BY <1>2, <2>6, <4>1
        <4>3. i \in 1 .. m + 1
          BY <1>1
        <4> QED
          BY <2>3, <4>2, <4>3
      <3> QED
        BY <3>1, <3>2
    <2>7. AreKeptOf(a, b, lower, k + 1)
      BY <2>3, <2>4, <2>5, <2>6 DEF AreKeptOf
    <2> QED
      BY <2>2, <2>7
  <1> QED
    BY <1>3, <1>4

\* All that is kept of the slots, with what is beside them, and all that is below.
KeptBeside(lower, n, m, more) ==
    /\ Len(Kept(lower)) = m + more
    /\ \A i \in 1 .. m : \E j \in 1 .. n :
         /\ Kept(stack)[i] = stack[j] /\ Kept(lower)[i] = lower[j] /\ ~Dropped(j)
         /\ \A h \in 1 .. j - 1 : ~Dropped(h) => \E g \in 1 .. i - 1 : Kept(stack)[g] = stack[h]
    /\ \A j \in 1 .. n : ~Dropped(j) => \E i \in 1 .. m : Kept(stack)[i] = stack[j]
    /\ \A k \in 1 .. more : Kept(lower)[m + k] = lower[n + k]

LEMMA KeptSlots ==
  ASSUME stack \in Seq(Slots), NEW n \in Nat, n = Len(stack), NEW T, NEW lower \in Seq(T),
         NEW more \in Nat, Len(lower) = n + more,
         NEW m, m = Len(Kept(stack))
  PROVE  /\ Kept(stack) \in Seq(Slots) /\ m \in Nat /\ Kept(lower) \in Seq(T)
         /\ KeptBeside(lower, n, m, more)
  <1>1. PICK f : AreKept(f, stack) /\ Kept(stack) = f[n]
    <2>1. \E f : AreKept(f, stack) /\ Kept(stack) = f[Len(stack)]
      BY KeptExist DEF AreKept, Kept, KeptNext
    <2> QED
      BY <2>1
  <1>2. PICK d \in Nat : d = n + more /\ d = Len(lower)
    OBVIOUS
  <1>3. PICK g : AreKept(g, lower) /\ Kept(lower) = g[d]
    <2>1. \E g : AreKept(g, lower) /\ Kept(lower) = g[Len(lower)]
      BY KeptExist DEF AreKept, Kept, KeptNext
    <2> QED
      BY <1>2, <2>1
  <1>4. f[0] = <<>> /\ \A k \in 1 .. n : f[k] = KeptNext(f[k - 1], stack, k)
    BY <1>1, KeptSteps
  <1>5. g[0] = <<>> /\ \A k \in 1 .. d : g[k] = KeptNext(g[k - 1], lower, k)
    BY <1>2, <1>3, KeptSteps
  <1> DEFINE D == {k \in Nat : k <= n => AreKeptOf(f[k], g[k], lower, k) /\ g[k] \in Seq(T)}
  <1>6. 0 \in D
    <2>1. <<>> \in Seq(Slots) /\ <<>> \in Seq(T) /\ Len(<<>>) = 0
      BY EmptySeq
    <2>2. AreKeptOf(<<>>, <<>>, lower, 0)
      BY <2>1 DEF AreKeptOf
    <2> QED
      BY <1>4, <1>5, <2>1, <2>2
  <1>7. ASSUME NEW k \in Nat, k \in D PROVE k + 1 \in D
    <2> SUFFICES ASSUME k + 1 <= n
                 PROVE  AreKeptOf(f[k + 1], g[k + 1], lower, k + 1) /\ g[k + 1] \in Seq(T)
      OBVIOUS
    <2>1. AreKeptOf(f[k], g[k], lower, k) /\ g[k] \in Seq(T)
      BY <1>7
    <2>2. f[k + 1] = KeptNext(f[k], stack, k + 1) /\ g[k + 1] = KeptNext(g[k], lower, k + 1)
      <3>1. PICK i \in 1 .. n : i = k + 1 /\ i - 1 = k /\ i \in 1 .. d
        BY <1>2
      <3> QED
        BY <1>4, <1>5, <3>1
    <2>5. lower[k + 1] \in T
      BY <1>2, ElementOfSeq
    <2>3. AreKeptOf(f[k + 1], g[k + 1], lower, k + 1)
      BY <2>1, <2>2, <2>5, KeptOfNext
    <2>4. g[k + 1] \in Seq(T)
      BY <2>1, <2>2, <2>5 DEF KeptNext
    <2> QED
      BY <2>3, <2>4
  <1>8. n \in D
    <2> HIDE DEF D
    <2>1. \A k \in Nat : k \in D
      BY <1>6, <1>7, InductionOnSet
    <2> QED
      BY <2>1
  <1>9. AreKeptOf(Kept(stack), g[n], lower, n) /\ g[n] \in Seq(T)
    BY <1>1, <1>8
  <1>10. m \in Nat /\ Kept(stack) \in Seq(Slots) /\ Len(g[n]) = m
    BY <1>9, LenProperties DEF AreKeptOf
  <1> DEFINE Extended(k) == /\ g[n + k] \in Seq(T) /\ Len(g[n + k]) = m + k
                            /\ \A i \in 1 .. m : g[n + k][i] = g[n][i]
                            /\ \A i \in 1 .. k : g[n + k][m + i] = lower[n + i]
             E == {k \in Nat : k <= more => Extended(k)}
  <1>11. 0 \in E
    <2>1. n + 0 = n /\ m + 0 = m
      BY <1>10
    <2>2. \A i : i \notin 1 .. 0
      OBVIOUS
    <2>3. /\ g[n + 0] \in Seq(T) /\ Len(g[n + 0]) = m + 0
          /\ \A i \in 1 .. m : g[n + 0][i] = g[n][i]
      BY <1>9, <1>10, <2>1
    <2>4. \A i \in 1 .. 0 : g[n + 0][m + i] = lower[n + i]
      BY ONLY <2>2
    <2>5. 0 \in Nat /\ 0 <= more
      OBVIOUS
    <2> QED
      BY ONLY <2>3, <2>4, <2>5
  <1>12. ASSUME NEW k \in Nat, k \in E PROVE k + 1 \in E
    <2> HIDE DEF Extended
    <2> SUFFICES ASSUME k + 1 <= more PROVE Extended(k + 1)
      OBVIOUS
    <2> USE DEF Extended
    <2>0. PICK a : a = g[n + k]
      OBVIOUS
    <2>1. /\ a \in Seq(T) /\ Len(a) = m + k
          /\ \A i \in 1 .. m : a[i] = g[n][i]
          /\ \A i \in 1 .. k : a[m + i] = lower[n + i]
      <3>1. k <= more
        OBVIOUS
      <3> QED
        BY <1>12, <2>0, <3>1
    <2>2. PICK i \in 1 .. d : i = n + (k + 1) /\ i - 1 = n + k
      BY <1>2
    <2>3. ~Dropped(i)
      BY <2>2 DEF Dropped
    <2>4. PICK x \in T : x = lower[i]
      BY <1>2, ElementOfSeq
    <2>5. g[i] = a \o <<x>>
      BY <1>5, <2>0, <2>2, <2>3, <2>4 DEF KeptNext
    <2>6. PICK b : b = g[i] /\ b = Append(a, x)
      <3>1. a \o <<x>> = Append(a, x)
        BY <2>1, <2>4
      <3> QED
        BY <2>5, <3>1
    <2>7. /\ b \in Seq(T) /\ Len(b) = m + k + 1 /\ b[m + k + 1] = x
          /\ \A j \in 1 .. m + k : b[j] = a[j]
      <3>1. PICK c \in Nat : c = m + k
        BY <1>10
      <3> QED
        BY <2>1, <2>4, <2>6, <3>1, OneMoreSlot
    <2>8. \A j \in 1 .. m : b[j] = g[n][j]
      BY <1>10, <2>1, <2>7
    <2>9. ASSUME NEW j \in 1 .. k + 1 PROVE b[m + j] = lower[n + j]
      <3>1. CASE j = k + 1
        <4>1. m + j = m + k + 1 /\ n + j = i
          BY <1>10, <2>2, <3>1
        <4> QED
          BY <2>4, <2>7, <4>1
      <3>2. CASE j # k + 1
        <4>1. j \in 1 .. k /\ m + j \in 1 .. m + k
          BY <1>10, <3>2
        <4> QED
          BY <2>1, <2>7, <4>1
      <3> QED
        BY <3>1, <3>2
    <2>10. m + k + 1 = m + (k + 1)
      BY <1>10
    <2> QED
      BY <2>2, <2>6, <2>7, <2>8, <2>9, <2>10
  <1>13. more \in E
    <2> HIDE DEF E
    <2>1. \A k \in Nat : k \in E
      BY <1>11, <1>12, InductionOnSet
    <2> QED
      BY <2>1
  <1>14. /\ Kept(lower) \in Seq(T) /\ Len(Kept(lower)) = m + more
         /\ \A i \in 1 .. m : Kept(lower)[i] = g[n][i]
         /\ \A i \in 1 .. more : Kept(lower)[m + i] = lower[n + i]
    <2>1. /\ g[n + more] \in Seq(T) /\ Len(g[n + more]) = m + more
          /\ \A i \in 1 .. m : g[n + more][i] = g[n][i]
          /\ \A i \in 1 .. more : g[n + more][m + i] = lower[n + i]
      BY <1>13
    <2> QED
      BY <1>2, <1>3, <2>1
  <1>15. /\ \A i \in 1 .. m : \E j \in 1 .. n :
              /\ Kept(stack)[i] = stack[j] /\ g[n][i] = lower[j] /\ ~Dropped(j)
              /\ \A h \in 1 .. j - 1 :
                   ~Dropped(h) => \E e \in 1 .. i - 1 : Kept(stack)[e] = stack[h]
         /\ \A j \in 1 .. n : ~Dropped(j) => \E i \in 1 .. m : Kept(stack)[i] = stack[j]
    BY <1>9 DEF AreKeptOf
  <1>16. \A i \in 1 .. m : \E j \in 1 .. n :
           /\ Kept(stack)[i] = stack[j] /\ Kept(lower)[i] = lower[j] /\ ~Dropped(j)
           /\ \A h \in 1 .. j - 1 :
                ~Dropped(h) => \E e \in 1 .. i - 1 : Kept(stack)[e] = stack[h]
    <2> TAKE i \in 1 .. m
    <2>1. PICK j \in 1 .. n :
            /\ Kept(stack)[i] = stack[j] /\ g[n][i] = lower[j] /\ ~Dropped(j)
            /\ \A h \in 1 .. j - 1 :
                 ~Dropped(h) => \E e \in 1 .. i - 1 : Kept(stack)[e] = stack[h]
      BY <1>15
    <2>2. Kept(lower)[i] = lower[j]
      BY <1>14, <2>1
    <2> QED
      BY <2>1, <2>2
  <1>17. KeptBeside(lower, n, m, more)
    BY <1>14, <1>15, <1>16 DEF KeptBeside
  <1> QED
    BY <1>10, <1>14, <1>17

\* What the code script mentions was not used under its symbol by the state script alone.
LEMMA WantedIsNotDead ==
  ASSUME ScopeInv, GeneratorInv, SymbolsInv, StateNamesOnce, phase = "generate",
         Node.kind = "separator", NEW name \in Wanted(at + 1, Current)
  PROVE  name \notin DeadNames /\ name \in Wanted(at, Current)
  <1>1. /\ at \in 1 .. Len(program) /\ at \in Nat \ {0} /\ Len(program) \in Nat
        /\ program[at] = Node /\ NodeScoped(program, at)
        /\ FunctionOf(at) = Current
        /\ ~Declares(program, at, name)
    BY AtIs
  <1>2. Current = 0
    BY NodeIs DEF NodeFits
  <1>3. name \in Wanted(at, Current)
    BY <1>1, WantedNext
  <1> SUFFICES ASSUME name \in DeadNames PROVE FALSE
    BY <1>3
  <1>4. PICK symbol \in usedSymbols : symbol \notin CodeScriptIdentifiers /\ symbol[1] = name
    BY DEF DeadNames
  <1>5. PICK u \in 1 .. at - 1 : /\ MentionedBy(program, u, name)
                                 /\ symbol[2] = DeclarationOf(name, u)
    BY <1>4 DEF SymbolsInv, Recorded
  <1>6. symbol = <<name, DeclarationOf(name, u)>>
    <2>1. usedSymbols \subseteq Names \X (0 .. header.maxNodes)
      BY DEF GeneratorInv, TypeOK
    <2> QED
      BY <1>4, <1>5, <2>1
  <1>7. PICK i \in at + 1 .. Len(program) :
          MentionedBy(program, i, name) /\ DeclarationOf(name, i) < at + 1
    BY DEF Wanted
  <1>8. i \in 1 .. Len(program) /\ i \in Nat /\ u \in Nat /\ u \in 1 .. Len(program) /\ u < i /\ at < i
        /\ at + 1 <= i /\ at + 1 \in Nat
    BY <1>1
  <1>9. Nodes = 1 .. Len(program)
    BY ProgramIs
  <1>10. ~InStateScript(i)
    <2> SUFFICES ASSUME NEW s \in Separators, i < s PROVE FALSE
      BY DEF InStateScript
    <2>1. s \in 1 .. Len(program) /\ program[s].kind = "separator"
      BY <1>9 DEF Separators, IsNode
    <2>2. \A j \in 1 .. s - 1 : program[j].kind # "separator"
      BY <2>1, ProgramIs DEF NodeScoped
    <2>3. at \in 1 .. s - 1
      BY <1>1, <1>8, <2>1
    <2> QED
      BY <1>1, <2>2, <2>3
  <1>11. <<name, DeclarationOf(name, i)>> \in CodeScriptIdentifiers
    <2>1. name \in Range(Mentions(i))
      BY <1>7, <1>8, MentionIs
    <2> QED
      BY <1>8, <1>9, <1>10, <2>1 DEF CodeScriptIdentifiers
  <1>12. PICK d \in Nat, e \in Nat : d = DeclarationOf(name, u) /\ e = DeclarationOf(name, i)
    BY <1>8, DeclarationIs
  <1>13. /\ d # 0 => d \in 1 .. Len(program) /\ d < u /\ Declares(program, d, name)
         /\ e # 0 => e \in 1 .. Len(program) /\ e < i /\ Declares(program, e, name)
         /\ \A j \in 1 .. Len(program) : j < i /\ Declares(program, j, name) => j <= e
    BY <1>8, <1>12, DeclarationIs
  <1>14. d < e /\ e < at + 1
    <2>1. d # e
      BY <1>4, <1>6, <1>11, <1>12
    <2>2. d <= e
      BY <1>8, <1>13
    <2> QED
      BY <1>7, <1>12, <2>1, <2>2
  <1>15. e \in 1 .. Len(program) /\ Declares(program, e, name) /\ e < at
    BY <1>1, <1>13, <1>14
  <1>16. CASE d = 0
    <2>1. VisibleAt(program, name, u)
      BY <1>5, <1>8, ProgramIs DEF NodeScoped
    <2>2. name \in Outermost
      <3>1. u \in Nat \ {0} /\ u <= Len(program) + 1
        BY <1>1, <1>8
      <3> QED
        BY <1>12, <1>16, <2>1, <3>1, VisibleMeans
    <2>3. VisibleAt(program, name, e)
      BY <2>2 DEF VisibleAt
    <2> QED
      BY <1>15, <2>3, ProgramIs DEF NodeScoped
  <1>17. CASE d # 0
    <2>1. d \in 1 .. Len(program) /\ Declares(program, d, name) /\ d < at
      BY <1>1, <1>12, <1>13, <1>14, <1>15, <1>17
    <2>2. ASSUME NEW j \in 1 .. Len(program), j < at PROVE program[j].kind # "function"
      <3>1. FunctionOf(at) \in Nat /\ FunctionOf(j) <= FunctionOf(at) /\ FunctionOf(j) \in Nat
        BY <1>1, <2>2, FunctionOfGrows
      <3>2. Count(program, "function", j) = 0
        BY <1>1, <1>2, <3>1 DEF FunctionOf, Count, IsNode
      <3>3. PICK k \in Nat : k + 1 = j
        <4>1. j - 1 \in Nat /\ j - 1 + 1 = j
          OBVIOUS
        <4> QED
          BY <4>1
      <3>4. Count(program, "function", k) \in Nat
        BY CountNext
      <3>5. Count(program, "function", j) =
              Count(program, "function", k) + (IF program[j].kind = "function" THEN 1 ELSE 0)
        BY <3>3, FunctionsCounted
      <3> QED
        BY <3>2, <3>4, <3>5
    <2>3. {program[d].kind, program[e].kind} \subseteq {"define", "tuple"}
      BY <1>15, <2>1, <2>2 DEF Declares
    <2>4. InStateScript(e)
      <3>1. at \in Separators
        BY <1>1, <1>9 DEF Separators, IsNode
      <3> QED
        BY <1>15, <3>1 DEF InStateScript
    <2>5. Range(program[d].targets) \cap Range(program[e].targets) = {}
      BY <1>9, <1>14, <1>15, <2>1, <2>3, <2>4 DEF StateNamesOnce
    <2> QED
      BY <1>15, <2>1, <2>5 DEF Declares
  <1> QED
    BY <1>12, <1>16, <1>17

LEMMA SeparatorHolds ==
  ASSUME ScopeInv, GeneratorInv, SymbolsInv, StateNamesOnce, phase = "generate",
         GenerateStateSeparator
  PROVE  SymbolsInv'
  <1>1. /\ Node.kind = "separator" /\ Visited /\ stack' = Kept(stack) /\ stackCopy' = stackCopy
        /\ depths' = depths /\ usedSymbols' = usedSymbols
    BY DEF GenerateStateSeparator
  <1>2. PICK n \in Nat : n = Len(stack) /\ stack \in Seq(Slots)
    BY PathTypes
  <1>3. Current = 0 /\ depths = <<>> /\ at \in Nat
    <2>1. Current = 0 /\ Len(depths) = 0 /\ at \in Nat
      BY <1>1, NodeIs DEF NodeFits
    <2> QED
      BY <2>1, PathTypes
  <1>4. PICK st : st = stack' /\ st = Kept(stack)
    BY <1>1
  <1>5. PICK m \in Nat :
          /\ m = Len(st) /\ st \in Seq(Slots)
          /\ \A i \in 1 .. m : \E j \in 1 .. n : st[i] = stack[j]
          /\ \A j \in 1 .. n : ~Dropped(j) => \E i \in 1 .. m : st[i] = stack[j]
    <2>1. PICK m : m = Len(Kept(stack))
      OBVIOUS
    <2>2. 0 \in Nat /\ Len(stack) = n + 0
      BY <1>2
    <2>3. Kept(stack) \in Seq(Slots) /\ m \in Nat /\ KeptBeside(stack, n, m, 0)
      BY <1>2, <2>1, <2>2, KeptSlots
    <2>4. /\ \A i \in 1 .. m : \E j \in 1 .. n : Kept(stack)[i] = stack[j]
          /\ \A j \in 1 .. n : ~Dropped(j) => \E i \in 1 .. m : Kept(stack)[i] = stack[j]
      BY <2>3 DEF KeptBeside
    <2>5. st = Kept(stack)
      BY <1>4
    <2> QED
      BY ONLY <2>1, <2>3, <2>4, <2>5
  <1>6. DOMAIN st = 1 .. m /\ DOMAIN stack = 1 .. n
    BY <1>2, <1>5, LenProperties
  <1>7. /\ SlotsScoped(at, Current, stack, depths) /\ Wanted(at, Current) \subseteq Range(stack)
        /\ "$$" \notin Range(stack)
    BY <1>3 DEF SymbolsInv, SymbolsHold
  <1>8. SlotsScoped(at + 1, Current, st, depths)
    <2>1. \A i \in 1 .. m : st[i] \in Names => Declares(program, at, st[i]) \/ st[i] \in Range(stack)
      BY <1>5, <1>6 DEF Range
    <2> QED
      BY <1>1, <1>3, <1>5, <1>7, <2>1, SlotsStep
  <1>9. Wanted(at + 1, Current) \subseteq Range(st)
    <2> SUFFICES ASSUME NEW name \in Wanted(at + 1, Current) PROVE name \in Range(st)
      OBVIOUS
    <2>1. name \notin DeadNames /\ name \in Wanted(at, Current)
      BY <1>1, WantedIsNotDead
    <2>2. PICK j \in 1 .. n : stack[j] = name
      BY <1>6, <1>7, <2>1 DEF Range
    <2>3. ~Dropped(j)
      BY <2>1, <2>2 DEF Dropped
    <2>4. PICK i \in 1 .. m : st[i] = name
      BY <1>5, <2>2, <2>3
    <2> QED
      BY <1>6, <2>4 DEF Range
  <1>10. "$$" \notin Range(st)
    <2> SUFFICES ASSUME "$$" \in Range(st) PROVE FALSE
      OBVIOUS
    <2>1. PICK i \in 1 .. m : st[i] = "$$"
      BY <1>6 DEF Range
    <2>2. PICK j \in 1 .. n : stack[j] = "$$"
      BY <1>5, <2>1
    <2> QED
      BY <1>6, <1>7, <2>2 DEF Range
  <1>11. SymbolsHold(at + 1, Current, st, depths)
    BY <1>8, <1>9, <1>10 DEF SymbolsHold
  <1>12. CopyHolds(at + 1, Current, stackCopy) /\ Recorded(at + 1, usedSymbols)
    BY CopyKept, RecordedNext
  <1>13. header' = header /\ program' = program /\ at' = at + 1 /\ Current' = Current /\ at + 1 \in Nat
    BY <1>1, <1>3, VisitedMeans, UnnamedKept
  <1> QED
    BY <1>1, <1>4, <1>11, <1>12, <1>13, SymbolsNext

-----------------------------------------------------------------------------
(* The functions and their ends.                                           *)

LEMMA WithoutRange ==
  ASSUME NEW S, NEW slots \in Seq(S), NEW depth \in Nat, depth < Len(slots)
  PROVE  /\ Range(Without(slots, depth)) \subseteq Range(slots)
         /\ \A x \in Range(slots) : x # slots[depth + 1] => x \in Range(Without(slots, depth))
  <1>1. PICK l \in Nat : l = Len(slots) /\ l - 1 \in Nat
    <2>1. Len(slots) \in Nat
      BY LenProperties
    <2> QED
      BY <2>1
  <1>2. PICK w : w = Without(slots, depth)
    OBVIOUS
  <1>3. w \in Seq(S) /\ Len(w) = l - 1
    BY <1>1, <1>2, WithoutType
  <1>4. \A i \in 1 .. l - 1 : w[i] = IF i <= depth THEN slots[i] ELSE slots[i + 1]
    <2>1. \A i \in 1 .. Len(slots) - 1 :
            Without(slots, depth)[i] = IF i <= depth THEN slots[i] ELSE slots[i + 1]
      BY SlotsAfterRemoval
    <2> QED
      BY <1>1, <1>2, <2>1
  <1>5. DOMAIN slots = 1 .. l /\ DOMAIN w = 1 .. l - 1
    BY <1>1, <1>3, LenProperties
  <1>6. Range(w) \subseteq Range(slots)
    <2> SUFFICES ASSUME NEW i \in 1 .. l - 1 PROVE w[i] \in Range(slots)
      BY <1>5 DEF Range
    <2>1. i \in 1 .. l /\ i + 1 \in 1 .. l
      BY <1>1
    <2> QED
      BY <1>4, <1>5, <2>1 DEF Range
  <1>7. ASSUME NEW x \in Range(slots), x # slots[depth + 1] PROVE x \in Range(w)
    <2>1. PICK p \in 1 .. l : slots[p] = x
      BY <1>5 DEF Range
    <2>2. p # depth + 1
      BY <1>7, <2>1
    <2>3. CASE p <= depth
      <3>1. p \in 1 .. l - 1
        BY <1>1, <2>3
      <3> QED
        BY <1>4, <1>5, <2>1, <2>3, <3>1 DEF Range
    <2>4. CASE ~(p <= depth)
      <3>1. PICK i \in 1 .. l - 1 : i + 1 = p
        <4>1. p - 1 \in 1 .. l - 1 /\ p - 1 + 1 = p
          BY <1>1, <2>2, <2>4
        <4> QED
          BY <4>1
      <3>2. ~(i <= depth)
        BY <2>2, <2>4, <3>1
      <3>3. w[i] = x
        BY <1>4, <2>1, <3>1, <3>2
      <3> QED
        BY <1>5, <3>3 DEF Range
    <2> QED
      BY <2>3, <2>4
  <1> QED
    BY <1>2, <1>6, <1>7

LEMMA JoinedRange ==
  ASSUME NEW S, NEW a \in Seq(S), NEW b \in Seq(S)
  PROVE  Range(a \o b) = Range(a) \cup Range(b)
  <1>1. PICK k \in Nat, m \in Nat : k = Len(a) /\ m = Len(b)
    BY LenProperties
  <1>2. PICK c : c = a \o b
    OBVIOUS
  <1>3. /\ c \in Seq(S) /\ Len(c) = k + m
        /\ \A i \in 1 .. k : c[i] = a[i]
        /\ \A i \in 1 .. m : c[k + i] = b[i]
    BY ONLY <1>1, <1>2, a \in Seq(S), b \in Seq(S), JoinedSlots
  <1>4. DOMAIN a = 1 .. k /\ DOMAIN b = 1 .. m /\ DOMAIN c = 1 .. k + m
    BY <1>1, <1>3, LenProperties
  <1>5. \A i \in 1 .. k : i \in 1 .. k + m
    OBVIOUS
  <1>6. \A i \in 1 .. m : k + i \in 1 .. k + m
    OBVIOUS
  <1>7. Range(a) \cup Range(b) \subseteq Range(c)
    BY <1>3, <1>4, <1>5, <1>6 DEF Range
  <1>8. ASSUME NEW i \in 1 .. k + m PROVE c[i] \in Range(a) \cup Range(b)
    <2>1. CASE i <= k
      <3>1. i \in 1 .. k
        BY <2>1
      <3> QED
        BY <1>3, <1>4, <3>1 DEF Range
    <2>2. CASE ~(i <= k)
      <3>1. i - k \in 1 .. m /\ k + (i - k) = i
        BY <2>2
      <3> QED
        BY <1>3, <1>4, <3>1 DEF Range
    <2> QED
      BY <2>1, <2>2
  <1>9. Range(c) \subseteq Range(a) \cup Range(b)
    <2> SUFFICES ASSUME NEW x \in Range(c) PROVE x \in Range(a) \cup Range(b)
      OBVIOUS
    <2>1. PICK i \in 1 .. k + m : c[i] = x
      BY <1>4 DEF Range
    <2> QED
      BY <1>8, <2>1
  <1> QED
    BY <1>2, <1>7, <1>9

LEMMA ReversedRange ==
  ASSUME NEW S, NEW s \in Seq(S)
  PROVE  Range(Reverse(s)) = Range(s)
  <1>1. PICK n \in Nat : n = Len(s)
    BY LenProperties
  <1>2. DOMAIN s = 1 .. n /\ DOMAIN Reverse(s) = 1 .. n
    BY <1>1, LenProperties, ReverseType
  <1>3. \A i \in 1 .. n : Reverse(s)[i] = s[(n - i) + 1]
    BY <1>1, <1>2 DEF Reverse
  <1>4. \A i \in 1 .. n : (n - i) + 1 \in 1 .. n /\ (n - ((n - i) + 1)) + 1 = i
    OBVIOUS
  <1> QED
    BY <1>2, <1>3, <1>4 DEF Range

\* The slots a function starts with: they hold what any function may still mention of
\* the outside.
LEMMA FunctionInherits ==
  ASSUME ScopeInv, GeneratorInv, SymbolsInv, phase = "generate", Node.kind = "function",
         NEW f, f = FunctionOf(at),
         NEW slots, slots = IF Len(Functions) > 1 /\ f = 1 THEN WithSelector(stack) ELSE stack,
         NEW before, before = IF Current = 0 THEN Wanted(at, 0) ELSE Later(at, Current)
  PROVE  /\ CopyScoped(at, slots) /\ before \subseteq Range(slots)
         /\ Current = 0 => stack \in Seq(Slots) /\ "$$" \notin Range(stack)
  <1>1. PICK n \in Nat : n = Len(stack) /\ stack \in Seq(Slots) /\ DOMAIN stack = 1 .. n
    BY PathTypes, LenProperties
  <1>2. header \in Headers /\ at \in Nat /\ Current \in Nat
    BY NodeIs
  <1>3. f = Current + 1 /\ depths = <<>> /\ slots \in Seq(Slots)
    BY FunctionStarts
  <1>4. CASE Current = 0
    <2>1. SlotsScoped(at, 0, stack, <<>>) /\ Wanted(at, 0) \subseteq Range(stack) /\ "$$" \notin Range(stack)
      BY <1>3, <1>4 DEF SymbolsInv, SymbolsHold
    <2>2. \A p \in 1 .. n : stack[p] \in Names =>
            VisibleAt(program, stack[p], at) /\ DeclaredLevel(stack[p], at) = 0
      <3> SUFFICES ASSUME NEW p \in 1 .. n, stack[p] \in Names
                   PROVE  VisibleAt(program, stack[p], at) /\ DeclaredLevel(stack[p], at) = 0
        OBVIOUS
      <3>1. /\ VisibleAt(program, stack[p], at)
            /\ DeclaredLevel(stack[p], at) <= Len(<<>>) + In(0)
        BY <1>1, <2>1 DEF SlotsScoped
      <3>2. DeclaredLevel(stack[p], at) \in Nat
        BY <1>2, LevelType
      <3>3. Len(<<>>) + In(0) = 0
        BY DEF In
      <3> QED
        BY <3>1, <3>2, <3>3
    <2>3. CASE slots = stack
      BY <1>1, <1>4, <2>1, <2>2, <2>3 DEF CopyScoped
    <2>4. CASE slots = Append(stack, "$$")
      <3>1. PICK s : s = Append(stack, "$$")
        OBVIOUS
      <3>2. "$$" \in Slots /\ "$$" \notin Names
        BY <1>2, MachineTypes, NamesAreNoMarks
      <3>3. /\ Append(stack, "$$") \in Seq(Slots) /\ Len(Append(stack, "$$")) = n + 1
            /\ Append(stack, "$$")[n + 1] = "$$"
            /\ \A i \in 1 .. n : Append(stack, "$$")[i] = stack[i]
        BY <1>1, <3>2, OneMoreSlot
      <3>4. DOMAIN slots = 1 .. n + 1 /\ Len(slots) = n + 1
        BY <2>4, <3>3, LenProperties
      <3>5. \A p \in 1 .. n + 1 : p \in 1 .. n \/ p = n + 1
        OBVIOUS
      <3>6. CopyScoped(at, slots)
        BY <2>2, <2>4, <3>2, <3>3, <3>4, <3>5 DEF CopyScoped
      <3>7. Range(stack) \subseteq Range(slots)
        <4>1. \A i \in 1 .. n : i \in 1 .. n + 1
          OBVIOUS
        <4> QED
          BY <1>1, <2>4, <3>3, <3>4, <4>1 DEF Range
      <3> QED
        BY <1>1, <1>4, <2>1, <3>6, <3>7
    <2> QED
      BY <2>3, <2>4 DEF WithSelector
  <1>5. CASE Current # 0
    <2>1. f # 1 /\ slots = stack
      BY <1>2, <1>3, <1>5
    <2>2. Before = "end"
      BY <1>2, <1>3, <1>5, <2>1, NodeIs DEF NodeFits
    <2>3. stack = stackCopy /\ Len(Functions) > 1
      BY <2>2 DEF GeneratorInv, Sides
    <2>4. CopyScoped(at, stackCopy) /\ Later(at, Current) \subseteq Range(stackCopy)
      BY <1>2, <1>5, <2>3 DEF SymbolsInv, CopyHolds
    <2> QED
      BY <1>5, <2>1, <2>3, <2>4
  <1> QED
    BY <1>4, <1>5

LEMMA FunctionHolds ==
  ASSUME ScopeInv, GeneratorInv, SymbolsInv, phase = "generate", GenerateFunction
  PROVE  SymbolsInv'
  <1>1. PICK f, slots : /\ f = FunctionOf(at)
                        /\ slots = IF Len(Functions) > 1 /\ f = 1 THEN WithSelector(stack) ELSE stack
    OBVIOUS
  <1>2. PICK index, top : /\ index = StackIndex(slots, "$$")
                          /\ top = IF Len(Functions) > 1 /\ f = Len(Functions)
                                     THEN Without(slots, index) ELSE slots
    OBVIOUS
  <1>3. /\ Node.kind = "function" /\ Visited /\ stackCopy' = slots
        /\ stack' = top \o Reverse(Node.targets)
        /\ depths' = depths /\ usedSymbols' = usedSymbols
    BY <1>1, <1>2 DEF GenerateFunction
  <1>4. /\ header \in Headers /\ at \in Nat /\ Current \in Nat /\ Node.targets \in Seq(Names)
        /\ \A name : Declares(program, at, name) <=> name \in Range(Node.targets)
    BY <1>3, NodeIs, AtIs
  <1>5. f = Current + 1 /\ depths = <<>> /\ slots \in Seq(Slots)
        /\ (Len(Functions) > 1 => "$$" \in Range(slots))
    BY <1>1, <1>3, FunctionStarts
  <1>6. PICK before : before = IF Current = 0 THEN Wanted(at, 0) ELSE Later(at, Current)
    OBVIOUS
  <1>7. CopyScoped(at, slots) /\ before \subseteq Range(slots)
    BY <1>1, <1>3, <1>6, FunctionInherits
  <1>8. top \in Seq(Slots) /\ Range(top) \subseteq Range(slots)
        /\ \A x \in Range(slots) : x # "$$" => x \in Range(top)
    <2>1. CASE Len(Functions) > 1 /\ f = Len(Functions)
      <3>1. /\ index \in Nat /\ index < Len(slots) /\ slots[index + 1] = "$$"
        <4>1. StackIndex(slots, "$$") \in -1 .. Len(slots) - 1 /\ StackIndex(slots, "$$") >= 0
              /\ slots[StackIndex(slots, "$$") + 1] = "$$"
          BY <1>5, <2>1, StackIndexIs
        <4>2. Len(slots) \in Nat
          BY <1>5, LenProperties
        <4> QED
          BY <1>2, <4>1, <4>2
      <3>2. top = Without(slots, index)
        BY <1>2, <2>1
      <3>3. top \in Seq(Slots)
        BY <1>5, <3>1, <3>2, WithoutType
      <3>4. /\ Range(Without(slots, index)) \subseteq Range(slots)
            /\ \A x \in Range(slots) : x # slots[index + 1] => x \in Range(Without(slots, index))
        BY <1>5, <3>1, WithoutRange
      <3> QED
        BY <3>1, <3>2, <3>3, <3>4
    <2>2. CASE ~(Len(Functions) > 1 /\ f = Len(Functions))
      BY <1>2, <1>5, <2>2
    <2> QED
      BY <2>1, <2>2
  <1>9. PICK own : own = Reverse(Node.targets)
    OBVIOUS
  <1>10. own \in Seq(Slots) /\ Range(own) = Range(Node.targets)
    <2>1. Node.targets \in Seq(Slots)
      BY <1>4, MachineTypes
    <2> QED
      BY <1>9, <2>1, ReverseType, ReversedRange
  <1>11. PICK st : st = stack' /\ st = top \o own
    BY <1>3, <1>9
  <1>12. Range(st) = Range(top) \cup Range(Node.targets) /\ st \in Seq(Slots)
    BY <1>8, <1>10, <1>11, JoinedRange, JoinedType
  <1>13. SlotsScoped(at + 1, f, st, <<>>) /\ CopyScoped(at + 1, slots)
    <2>1. DOMAIN st = 1 .. Len(st) /\ DOMAIN slots = 1 .. Len(slots)
      BY <1>5, <1>12, LenProperties
    <2>2. \A p \in 1 .. Len(st) : st[p] \in Range(slots) \/ st[p] \in Range(Node.targets)
      BY <1>8, <1>12, <2>1 DEF Range
    <2>3. \A x \in Range(slots) : \E q \in 1 .. Len(slots) : x = slots[q]
      BY <2>1 DEF Range
    <2>4. \A p \in 1 .. Len(st) : st[p] \in Names =>
            st[p] \in Range(Node.targets) \/ \E q \in 1 .. Len(slots) : st[p] = slots[q]
      BY <2>2, <2>3
    <2>5. f \in Nat \ {0}
      BY <1>4, <1>5
    <2> QED
      BY <1>3, <1>7, <2>4, <2>5, FunctionSlots
  <1>14. Wanted(at + 1, f) \subseteq Range(st)
    <2> SUFFICES ASSUME NEW name \in Wanted(at + 1, f) PROVE name \in Range(st)
      OBVIOUS
    <2>1. name \in Range(Node.targets) \/ name \in before
      BY <1>1, <1>3, <1>4, <1>6, FunctionWants
    <2>2. name # "$$"
      BY <1>4, NamesAreNoMarks DEF Wanted
    <2> QED
      BY <1>7, <1>8, <1>12, <2>1, <2>2
  <1>15. Later(at + 1, f) \subseteq Range(slots)
    BY <1>1, <1>3, <1>6, <1>7, FunctionWants
  <1>16. SymbolsHold(at + 1, f, st, <<>>) /\ CopyHolds(at + 1, f, slots) /\ Recorded(at + 1, usedSymbols)
    <2>1. f # 0
      BY <1>4, <1>5
    <2>2. SymbolsHold(at + 1, f, st, <<>>)
      BY <1>13, <1>14, <2>1 DEF SymbolsHold
    <2>3. CopyHolds(at + 1, f, slots)
      BY <1>13, <1>15 DEF CopyHolds
    <2>4. Recorded(at + 1, usedSymbols)
      BY RecordedNext
    <2> QED
      BY <2>2, <2>3, <2>4
  <1>17. header' = header /\ program' = program /\ at' = at + 1 /\ Current' = f /\ at + 1 \in Nat
    BY <1>3, <1>4, <1>5, VisitedMeans
  <1>18. depths' = <<>> /\ stackCopy' = slots /\ usedSymbols' = usedSymbols /\ stack' = st
    BY <1>3, <1>5, <1>11
  <1> QED
    BY <1>16, <1>17, <1>18, SymbolsNext

\* Behind the end of a body the slots are those the next function starts with.
LEMMA EndHolds ==
  ASSUME ScopeInv, GeneratorInv, SymbolsInv, phase = "generate", GenerateEnd, at # Len(program)
  PROVE  SymbolsInv'
  <1>1. /\ Node.kind = "end" /\ Visited /\ stackCopy' = stackCopy /\ depths' = depths
        /\ usedSymbols' = usedSymbols /\ stack' = StackAfter
    BY DEF GenerateEnd
  <1>2. /\ depths = <<>> /\ Current > 0 /\ Len(Functions) > 1 /\ Current \in Nat /\ at \in Nat
    <2>1. Len(depths) = 0 /\ Current > 0 /\ Len(Functions) > 1
      BY <1>1, EndIsFollowed
    <2> QED
      BY <2>1, PathTypes, NodeIs
  <1>3. stack' = stackCopy /\ depths' = <<>>
    BY <1>1, <1>2 DEF StackAfter
  <1>4. CopyHolds(at + 1, Current, stackCopy) /\ Recorded(at + 1, usedSymbols)
    BY CopyKept, RecordedNext
  <1>5. CopyScoped(at + 1, stackCopy)
    BY <1>2, <1>4 DEF CopyHolds
  <1>6. SlotsScoped(at + 1, Current, stackCopy, <<>>)
    <2>1. \A p \in 1 .. Len(stackCopy) : stackCopy[p] \in Names =>
            VisibleAt(program, stackCopy[p], at + 1) /\ DeclaredLevel(stackCopy[p], at + 1) = 0
      BY <1>5 DEF CopyScoped
    <2>2. 0 <= Len(<<>>) + In(Current) /\ \A t \in 1 .. Len(<<>>) : FALSE
      BY <1>2 DEF In
    <2> QED
      BY <2>1, <2>2 DEF SlotsScoped
  <1>7. SymbolsHold(at + 1, Current, stackCopy, <<>>)
    <2>1. Wanted(at + 1, Current) = {}
      BY <1>1, EndWants
    <2> QED
      BY <1>2, <1>6, <2>1 DEF SymbolsHold
  <1>8. header' = header /\ program' = program /\ at' = at + 1 /\ Current' = Current /\ at + 1 \in Nat
    BY <1>1, <1>2, VisitedMeans, UnnamedKept
  <1> QED
    BY <1>1, <1>3, <1>4, <1>7, <1>8, SymbolsNext

-----------------------------------------------------------------------------
(* What the generator never fails on.                                      *)

LEMMA NothingFails ==
  ASSUME ValuesTraceable(Headers), ScopeInv, GeneratorInv, SymbolsInv, NoUnset, phase = "generate"
  PROVE  ~ShouldNotHappen /\ ~GenerateUnset
  <1>1. /\ header \in Headers /\ Node.targets \in Seq(Names) /\ at \in 1 .. Len(program)
        /\ program[at] = Node /\ NodeScoped(program, at) /\ at \in Nat
    BY NodeIs, AtIs
  <1>2. Node.kind # "unset"
    <2>1. Nodes = 1 .. Len(program)
      BY ProgramIs
    <2> QED
      BY <1>1, <2>1 DEF NoUnset, IsNode
  <1>3. PICK code : code = OneResult
    OBVIOUS
  <1>4. Node.kind # "function" => Leaves(code, 1)
    <2>1. <<Computed(at)>> \in Seq(Contents) /\ Len(<<Computed(at)>>) = 1
      BY <1>1, MachineTypes
    <2> QED
      BY <1>3, <2>1, ExpressionLeaves DEF OneResult
  <1>5. Node.kind \in StatementKinds => ~code.crashed
    BY <1>4 DEF StatementKinds, Leaves
  <1>6. ASSUME Node.kind = "assign", Replaces(Node.targets[1])
        PROVE  ~(StackIndex(code.stack, Node.targets[1]) < 0)
    <2>1. PICK name : name = Node.targets[1]
      OBVIOUS
    <2>2. name \in Range(Node.targets)
      <3>1. Len(Node.targets) = 1
        BY <1>6, NodeIs DEF NodeFits
      <3> QED
        BY <1>1, <2>1, <3>1, LenProperties DEF Range
    <2>3. MentionedBy(program, at, name)
      BY <1>1, <1>6, <2>2 DEF MentionedBy
    <2>4. name \notin Inline
      <3>1. name \in header.assigned
        BY <1>1, <1>6, <2>1 DEF NodeScoped
      <3> QED
        BY <1>1, <3>1 DEF ValuesTraceable, Inline
    <2>5. name \in Needs(Len(Node.operands))
      <3>1. name \in Wanted(at, Current)
        BY <1>6, <2>3, <2>4, MentionsAreWanted
      <3> QED
        BY <1>6, <2>1, <3>1 DEF Needs
    <2>6. PICK i \in 1 + 1 .. Len(code.stack) : code.stack[i] = name
      BY <1>4, <1>6, <2>5 DEF Leaves
    <2>7. code.stack \in Seq(Slots) /\ ~code.crashed
      <3>1. ~code.crashed
        BY <1>4, <1>6 DEF Leaves
      <3> QED
        BY <1>3, <3>1, OneResultIs
    <2>8. i \in 1 .. Len(code.stack)
      BY <2>7, LenProperties
    <2>9. StackIndex(code.stack, name) \in Nat
      BY <2>6, <2>7, <2>8, StackIndexFirst
    <2> QED
      BY <2>1, <2>9
  <1> QED
    BY <1>2, <1>3, <1>5, <1>6 DEF ShouldNotHappen, GenerateUnset

-----------------------------------------------------------------------------
(* The beginning.                                                          *)

\* Before the first node is visited nothing has been emitted.
Fresh ==
    /\ at = 1
    /\ stack = Reverse(Params) /\ stackCopy = <<>>
    /\ depths = <<>>
    /\ usedSymbols = {}
    /\ crashed = FALSE
    /\ machine = [main |-> Arguments, alt |-> <<>>, operands |-> <<>>]
    /\ verify = FALSE
    /\ taken = <<>>
    /\ env = [name \in Names |-> Argument(name)]
    /\ meant = <<>>

LEMMA ParamsAre ==
  ASSUME header \in Headers
  PROVE  Params \in Seq(Names) /\ Functions \in Seq(Seq(Names)) /\ IsInjective(Params)
         /\ Inline \cap Range(Params) = {} /\ Range(Params) \subseteq Names
         /\ \A f \in DOMAIN Functions : IsInjective(Functions[f])
  BY HeadersAssumption DEF Params, Functions, Names, Inline, NamesOf

LEMMA FreshSymbols ==
  ASSUME ScopeInv, Fresh
  PROVE  SymbolsInv
  <1>1. header \in Headers
    BY ProgramIs
  <1>2. Current = 0 /\ at = 1 /\ depths = <<>> /\ usedSymbols = {}
    BY AtTheFirstNode DEF Fresh
  <1>3. PICK st : st = Reverse(Params) /\ st = stack
    BY DEF Fresh
  <1>4. st \in Seq(Names) /\ Range(st) = Range(Params)
    BY <1>1, <1>3, ParamsAre, ReverseType, ReversedRange
  <1>5. DOMAIN st = 1 .. Len(st)
    BY <1>4, LenProperties
  <1>6. SlotsScoped(1, 0, st, <<>>)
    <2>1. \A p \in 1 .. Len(st) : st[p] \in Range(Params)
      BY <1>4, <1>5 DEF Range
    <2>2. \A name \in Range(Params) : VisibleAt(program, name, 1)
      BY DEF VisibleAt, Outermost
    <2>3. \A name : DeclaredLevel(name, 1) = 0
      <3> TAKE name
      <3>1. DeclarationOf(name, 1) \in Nat /\ (DeclarationOf(name, 1) # 0 =>
               DeclarationOf(name, 1) \in 1 .. Len(program) /\ DeclarationOf(name, 1) < 1)
        BY DeclarationIs
      <3>2. DeclarationOf(name, 1) = 0
        BY <3>1
      <3> QED
        BY <3>2 DEF DeclaredLevel
    <2>4. 0 <= Len(<<>>) + In(0) /\ \A t \in 1 .. Len(<<>>) : FALSE
      BY DEF In
    <2> QED
      BY <2>1, <2>2, <2>3, <2>4 DEF SlotsScoped
  <1>7. SymbolsHold(1, 0, st, <<>>)
    <2>1. Wanted(1, 0) \subseteq Range(st)
      BY <1>4, StartWants
    <2>2. "$$" \notin Range(st)
      BY <1>1, <1>4, ParamsAre, NamesAreNoMarks
    <2> QED
      BY <1>6, <2>1, <2>2 DEF SymbolsHold
  <1>8. CopyHolds(1, 0, stackCopy) /\ Recorded(1, {})
    BY DEF CopyHolds, Recorded
  <1> QED
    BY <1>2, <1>3, <1>7, <1>8 DEF SymbolsInv

-----------------------------------------------------------------------------
(* The theorems about names.                                               *)

\* While a contract is compiled that is regular, the slots are those of the names that are
\* visible and wanted, and nothing has failed.
NamesInv ==
    /\ ScopeInv /\ GeneratorInv
    /\ phase = "analyse" => Fresh
    /\ phase = "generate" /\ Regular => Fresh \/ SymbolsInv
    /\ Regular => ~crashed

LEMMA NamesInitInv == Init => NamesInv
  <1> SUFFICES ASSUME Init PROVE NamesInv
    OBVIOUS
  <1>1. ScopeInv /\ GeneratorInv
    BY ScopeInitInv, InitInv DEF Init
  <1>2. Fresh /\ phase = "analyse" /\ crashed = FALSE
    BY DEF Init, AnalysisInit, Fresh
  <1> QED
    BY <1>1, <1>2 DEF NamesInv

\* What is known while the generator is at work.
LEMMA WhileGenerating ==
  ASSUME NamesInv, phase = "generate", Regular
  PROVE  SymbolsInv
  BY FreshSymbols DEF NamesInv

LEMMA AnalysisPhase ==
  ASSUME Analyse
  PROVE  phase = "analyse" /\ header' = header
  BY DEF Analyse, VisitVariableDefinition, VisitTupleAssignment, VisitAssign, VisitRequire,
     VisitUnset, VisitIf, VisitElse, VisitEndIf, VisitStateScript, VisitFunctionDefinition,
     VisitEnd, Statement, Visit

\* The generator only reads the contract.
LEMMA GenerateReads ==
  ASSUME Generate
  PROVE  /\ header' = header /\ program' = program
         /\ phase = "generate" /\ phase' \in {"generate", "done"}
         /\ phase' = "generate" => at # Len(program) /\ ~ShouldNotHappen
         /\ crashed' = crashed \/ ShouldNotHappen
  BY DEF Generate, GenerateDefinition, GenerateTupleAssignment, GenerateAssign, GenerateRequire,
     GenerateTimeOp, GenerateUnset, GenerateIf, GenerateElse, GenerateEndIf,
     GenerateStateSeparator, GenerateFunction, GenerateEnd, ShouldNotHappen, Compile, LeaveBlock,
     Visited, Crash

LEMMA ScopesStay ==
  ASSUME ScopeInv, AnalysisInv', header' = header, program' = program,
         phase' # "analyse" \/ (phase' = phase /\ tables' = tables)
  PROVE  ScopeInv'
  <1>1. /\ \A i \in Nat : \A name : VisibleAt(program, name, i)' <=> VisibleAt(program, name, i)
        /\ \A i \in Nat : \A name : MentionedBy(program, i, name)' <=> MentionedBy(program, i, name)
    BY ScopesKept
  <1>2. /\ \A i : \A name : Declares(program, i, name)' <=> Declares(program, i, name)
        /\ \A i, j : InScope(program, j, i)' <=> InScope(program, j, i)
        /\ \A i : Closes(program, i)' <=> Closes(program, i)
        /\ \A i : Level(program, i)' = Level(program, i)
        /\ \A i, l : Declared(program, i, l)' = Declared(program, i, l)
        /\ Outermost' = Outermost /\ Names' = Names
    BY HeaderFixed DEF Declares, InScope, Closes, Level, Opened, Count, Declared, Outermost,
       Inline, Params
  <1>3. WellScoped'
    <2>1. \A i \in 1 .. Len(program) : NodeScoped(program, i)
      BY DEF ScopeInv, WellScoped
    <2>2. \A i \in 1 .. Len(program) : NodeScoped(program, i)'
      BY <1>1, <1>2, <2>1 DEF NodeScoped
    <2> QED
      BY <2>2 DEF WellScoped
  <1>4. phase' = "analyse" => TablesAre'
    <2> SUFFICES ASSUME phase' = "analyse" PROVE TablesAre'
      OBVIOUS
    <2>1. TablesAre /\ tables' = tables
      BY DEF ScopeInv
    <2> QED
      BY <1>2, <2>1 DEF TablesAre
  <1> QED
    BY <1>3, <1>4 DEF ScopeInv

LEMMA RegularStays ==
  ASSUME program' = program
  PROVE  Regular' <=> Regular
  BY DEF Regular, NoUnset, StateNamesOnce, IsNode, InStateScript, Separators, Nodes

\* The analysis leaves the generator where it starts.
LEMMA FreshStays ==
  ASSUME NamesInv, Analyse, UNCHANGED <<generator, path>>
  PROVE  Fresh'
  <1>1. header' = header /\ Fresh
    BY AnalysisPhase DEF NamesInv
  <1>2. /\ at' = at /\ stack' = stack /\ stackCopy' = stackCopy /\ depths' = depths
        /\ usedSymbols' = usedSymbols /\ crashed' = crashed /\ machine' = machine
        /\ verify' = verify /\ taken' = taken /\ selected' = selected /\ env' = env
        /\ meant' = meant
    BY DEF generator, path
  <1>3. Params' = Params /\ Names' = Names /\ Functions' = Functions /\ Arguments' = Arguments
    BY <1>1, <1>2, HeaderFixed DEF Params, Arguments
  <1> QED
    BY <1>1, <1>2, <1>3 DEF Fresh

LEMMA NamesNextInv ==
  ASSUME NoUnsetWithBranches, ValuesTraceable(Headers), NamesInv, [Next]_vars
  PROVE  NamesInv'
  <1>1. GeneratorInv'
    BY NextInv DEF NamesInv
  <1>2. CASE Analyse /\ UNCHANGED <<generator, path>>
    <2>1. phase = "analyse" /\ header' = header /\ Fresh /\ ScopeInv
      BY <1>2, AnalysisPhase DEF NamesInv
    <2>2. ScopeInv'
      BY <1>2, <2>1, AnalyseScoped
    <2>3. Fresh'
      BY <1>2, FreshStays
    <2>4. ~crashed'
      BY <2>3 DEF Fresh
    <2> QED
      BY <1>1, <2>2, <2>3, <2>4 DEF NamesInv
  <1>3. CASE phase = "generate" /\ Generate
    <2>1. /\ header' = header /\ program' = program /\ phase' \in {"generate", "done"}
          /\ phase' = "generate" => at # Len(program) /\ ~ShouldNotHappen
          /\ crashed' = crashed \/ ShouldNotHappen
      BY <1>3, GenerateReads
    <2>2. ScopeInv /\ GeneratorInv /\ (Regular' <=> Regular)
      BY <2>1, RegularStays DEF NamesInv
    <2>3. ScopeInv'
      <3>1. AnalysisInv'
        BY <1>1 DEF GeneratorInv
      <3>2. phase' # "analyse"
        BY <2>1
      <3>3. phase' # "analyse" \/ (phase' = phase /\ tables' = tables)
        BY <3>2
      <3> QED
        BY <2>1, <2>2, <3>1, <3>3, ScopesStay
    <2>4. ASSUME Regular PROVE ~crashed' /\ (phase' = "generate" => SymbolsInv')
      <3>1. SymbolsInv /\ NoUnset /\ StateNamesOnce /\ ~crashed
        BY <1>3, <2>4, WhileGenerating DEF Regular, NamesInv
      <3>2. ~ShouldNotHappen /\ ~GenerateUnset
        BY <1>3, <2>2, <3>1, NothingFails
      <3>3. ~crashed'
        BY <2>1, <3>1, <3>2
      <3>4. ASSUME phase' = "generate" PROVE SymbolsInv'
        <4>1. CASE GenerateDefinition \/ GenerateTupleAssignment \/ GenerateAssign
                   \/ GenerateRequire \/ GenerateTimeOp
          BY <1>3, <2>2, <3>1, <4>1, StatementsHold
        <4>2. CASE GenerateIf
          BY <1>3, <2>2, <3>1, <4>2, IfHolds
        <4>3. CASE GenerateElse \/ GenerateEndIf
          BY <1>3, <2>2, <3>1, <4>3, LeaveHolds
        <4>4. CASE GenerateStateSeparator
          BY <1>3, <2>2, <3>1, <4>4, SeparatorHolds
        <4>5. CASE GenerateFunction
          BY <1>3, <2>2, <3>1, <4>5, FunctionHolds
        <4>6. CASE GenerateEnd
          BY <1>3, <2>1, <2>2, <3>1, <3>4, <4>6, EndHolds
        <4> QED
          BY <1>3, <3>2, <4>1, <4>2, <4>3, <4>4, <4>5, <4>6 DEF Generate
      <3> QED
        BY <3>3, <3>4
    <2> QED
      BY <1>1, <2>1, <2>2, <2>3, <2>4 DEF NamesInv
  <1>4. CASE UNCHANGED vars
    <2>1. /\ header' = header /\ phase' = phase /\ program' = program /\ tables' = tables
          /\ at' = at /\ stack' = stack /\ stackCopy' = stackCopy /\ depths' = depths
          /\ usedSymbols' = usedSymbols /\ crashed' = crashed /\ machine' = machine
          /\ verify' = verify /\ taken' = taken /\ selected' = selected /\ env' = env
          /\ meant' = meant
      BY <1>4 DEF vars, analysis, generator, path
    <2>2. Params' = Params /\ Names' = Names /\ Functions' = Functions /\ Arguments' = Arguments
      BY <2>1, HeaderFixed DEF Params, Arguments
    <2>3. ScopeInv' /\ (Regular' <=> Regular)
      <3>1. AnalysisInv'
        BY <1>1 DEF GeneratorInv
      <3> QED
        BY <2>1, <3>1, ScopesStay, RegularStays DEF NamesInv
    <2>4. Fresh' <=> Fresh
      BY <2>1, <2>2 DEF Fresh
    <2>5. ASSUME SymbolsInv PROVE SymbolsInv'
      <3>1. at \in Nat /\ Current' = Current
        BY <2>1 DEF NamesInv, GeneratorInv, TypeOK, Current
      <3>2. SymbolsHold(at, Current, stack', depths') /\ CopyHolds(at, Current, stackCopy')
            /\ Recorded(at, usedSymbols')
        BY <2>1, <2>5 DEF SymbolsInv
      <3> QED
        BY <2>1, <3>1, <3>2, SymbolsNext
    <2> QED
      BY <1>1, <2>1, <2>3, <2>4, <2>5 DEF NamesInv
  <1> QED
    BY <1>2, <1>3, <1>4 DEF Next

LEMMA ScopesNextInv ==
  ASSUME NoUnsetWithBranches, ScopeInv, GeneratorInv, [Next]_vars
  PROVE  ScopeInv' /\ GeneratorInv'
  <1>1. GeneratorInv' /\ AnalysisInv'
    BY NextInv DEF GeneratorInv
  <1>2. CASE Analyse /\ UNCHANGED <<generator, path>>
    BY <1>1, <1>2, AnalyseScoped
  <1>3. CASE phase = "generate" /\ Generate
    <2>1. header' = header /\ program' = program /\ phase' # "analyse"
      BY <1>3, GenerateReads
    <2>2. phase' # "analyse" \/ (phase' = phase /\ tables' = tables)
      BY <2>1
    <2> QED
      BY <1>1, <2>1, <2>2, ScopesStay
  <1>4. CASE UNCHANGED vars
    <2>1. header' = header /\ program' = program /\ phase' = phase /\ tables' = tables
      BY <1>4 DEF vars, analysis
    <2> QED
      BY <1>1, <2>1, ScopesStay
  <1> QED
    BY <1>2, <1>3, <1>4 DEF Next

\* A node of an accepted contract mentions only what is visible to it, and declares nothing
\* that is: a name has one declaration at a time.
THEOREM ScopesRespected ==
  ASSUME NoUnsetWithBranches
  PROVE  Spec => []WellScoped
  <1>1. Init => ScopeInv /\ GeneratorInv
    BY ScopeInitInv, InitInv DEF Init
  <1>2. ScopeInv /\ GeneratorInv /\ [Next]_vars => (ScopeInv /\ GeneratorInv)'
    BY ScopesNextInv
  <1>3. ScopeInv => WellScoped
    BY DEF ScopeInv
  <1> QED
    BY <1>1, <1>2, <1>3, PTL DEF Spec

\* What the analysis accepts the generator compiles: getStackIndex finds every identifier,
\* and the slot of every assignment that overwrites one.
THEOREM NeverCrashesAlways ==
  ASSUME NoUnsetWithBranches, ValuesTraceable(Headers)
  PROVE  Spec => []NeverCrashes
  <1>1. Init => NamesInv
    BY NamesInitInv
  <1>2. NamesInv /\ [Next]_vars => NamesInv'
    BY NamesNextInv
  <1>3. NamesInv => NeverCrashes
    BY DEF NamesInv, NeverCrashes
  <1> QED
    BY <1>1, <1>2, <1>3, PTL DEF Spec

=============================================================================
