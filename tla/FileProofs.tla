------------------------------- MODULE FileProofs ------------------------------
(***************************************************************************)
(* Proofs about the patch file of GameMemory: that the routines and hooks  *)
(* are cut whole out of the object file, that each entry writes where      *)
(* there is room for it, and what the game reads once all are applied.     *)
(***************************************************************************)
EXTENDS MemoryProofs, FiniteSetTheorems

-------------------------------------------------------------------------------
(* Sequences that are put together of sequences.                           *)

\* What flatten's equation says of its first n values.
Flattens(f, s, n) ==
    f = [i \in 1 .. n |-> IF i = 1 THEN s[i] ELSE f[i - 1] \o s[i]]

\* There is a function as the equation asks for, however many parts there are.
LEMMA FlattenExists ==
    ASSUME NEW s, NEW n \in Nat
    PROVE  \E f : Flattens(f, s, n)
<1> DEFINE Missing == {m \in Nat : ~\E f : Flattens(f, s, m)}
<1> SUFFICES ASSUME Missing # {} PROVE FALSE
  OBVIOUS
<1>1. PICK m \in Missing : \A k \in Missing : m <= k
  BY Least
<1>2. CASE m = 0
  <2> DEFINE f == [i \in {} |-> s[i]]
  <2>1. Flattens(f, s, 0)
    <3>1. 1 .. 0 = {}
      BY SMT
    <3> QED
      BY <3>1, Zenon DEF Flattens
  <2> QED
    BY <1>2, <2>1
<1>3. CASE m # 0
  <2>1. m - 1 \in Nat /\ ~(m <= m - 1)
    BY <1>3
  <2>2. PICK f : Flattens(f, s, m - 1)
    BY <1>1, <2>1
  <2> DEFINE h == [i \in 1 .. m |-> IF i = m THEN (IF i = 1 THEN s[i] ELSE f[i - 1] \o s[i])
                                    ELSE f[i]]
  <2>3. \A i \in 1 .. m : /\ i # m => i \in 1 .. (m - 1)
                          /\ i # 1 => i - 1 \in 1 .. (m - 1) /\ i - 1 \in 1 .. m /\ i - 1 # m
    BY SMT
  <2>4. \A i \in 1 .. (m - 1) : f[i] = IF i = 1 THEN s[i] ELSE f[i - 1] \o s[i]
    BY <2>2, Zenon DEF Flattens
  <2>5. \A i \in 1 .. m : i # 1 => h[i - 1] = f[i - 1]
    BY <2>3, Zenon
  <2>6. \A i \in 1 .. m : h[i] = IF i = 1 THEN s[i] ELSE h[i - 1] \o s[i]
    BY <2>3, <2>4, <2>5, Zenon
  <2>7. Flattens(h, s, m)
    <3>1. h = [i \in 1 .. m |-> h[i]]
      OBVIOUS
    <3> HIDE DEF h
    <3> QED
      BY <2>6, <3>1, Zenon DEF Flattens
  <2> QED
    BY <2>7
<1> QED
  BY <1>2, <1>3

\* FlattenSeq is the last value of one.
LEMMA FlattenIs ==
    ASSUME NEW s, Len(s) \in Nat, Len(s) # 0
    PROVE  \E f : Flattens(f, s, Len(s)) /\ FlattenSeq(s) = f[Len(s)]
<1> DEFINE f == CHOOSE g : Flattens(g, s, Len(s))
<1>1. Flattens(f, s, Len(s))
  BY FlattenExists, Zenon
<1>2. FlattenSeq(s) = f[Len(s)]
  BY Zenon DEF FlattenSeq, Flattens
<1> QED
  BY <1>1, <1>2

\* Two of them agree on what they have in common.
Agree(f, h, m) == \A i \in 1 .. m : h[i] = f[i]

LEMMA FlattenAgree ==
    ASSUME NEW f, NEW h, NEW s, NEW t, NEW n \in Nat, NEW m \in Nat,
           Flattens(f, s, n), Flattens(h, t, m), m <= n,
           \A i \in 1 .. m : t[i] = s[i]
    PROVE  Agree(f, h, m)
<1> DEFINE Differing == {i \in 1 .. m : h[i] # f[i]}
<1> SUFFICES ASSUME Differing # {} PROVE FALSE
  BY DEF Agree
<1>1. PICK i \in Differing : \A k \in Differing : i <= k
  <2>1. Differing \subseteq Nat
    OBVIOUS
  <2> QED
    BY <2>1, Least
<1>2. /\ i \in 1 .. m /\ i \in 1 .. n
      /\ i # 1 => i - 1 \in 1 .. m /\ ~(i <= i - 1)
  OBVIOUS
<1>3. /\ f[i] = IF i = 1 THEN s[i] ELSE f[i - 1] \o s[i]
      /\ h[i] = IF i = 1 THEN t[i] ELSE h[i - 1] \o t[i]
  BY <1>2, Zenon DEF Flattens
<1>4. i # 1 => h[i - 1] = f[i - 1]
  BY <1>1, <1>2, Zenon
<1>5. h[i] = f[i]
  BY <1>2, <1>3, <1>4, Zenon
<1> QED
  BY <1>5

\* A sequence that consists of two.
Made(r, a, b) ==
    /\ Len(r) = Len(a) + Len(b)
    /\ \A k \in 1 .. Len(a) : r[k] = a[k]
    /\ \A k \in 1 .. Len(b) : r[Len(a) + k] = b[k]

LEMMA MadeOf ==
    ASSUME NEW S, NEW a \in Seq(S), NEW b \in Seq(S)
    PROVE  Made(a \o b, a, b)
<1>1. Len(a \o b) = Len(a) + Len(b)
  BY SMT
<1>2. \A k \in 1 .. Len(a) : (a \o b)[k] = a[k]
  BY SMT
<1>3. \A k \in 1 .. Len(b) : (a \o b)[Len(a) + k] = b[k]
  BY SMT
<1> QED
  BY <1>1, <1>2, <1>3, Zenon DEF Made

Grows(S, f, s, n) ==
    /\ \A i \in 1 .. n : f[i] \in Seq(S)
    /\ \A i \in 1 .. n : i # 1 => Made(f[i], f[i - 1], s[i])

\* Its values are sequences, and each begins with the one before it.
LEMMA FlattenGrows ==
    ASSUME NEW S, NEW n \in Nat, NEW s \in [1 .. n -> Seq(S)], NEW f, Flattens(f, s, n)
    PROVE  Grows(S, f, s, n)
<1>1. \A i \in 1 .. n : f[i] = IF i = 1 THEN s[i] ELSE f[i - 1] \o s[i]
  BY Zenon DEF Flattens
<1>2. \A i \in 1 .. n : s[i] \in Seq(S)
  BY Zenon
<1>3. \A i \in 1 .. n : f[i] \in Seq(S)
  <2> DEFINE Odd == {i \in 1 .. n : f[i] \notin Seq(S)}
  <2> SUFFICES ASSUME Odd # {} PROVE FALSE
    OBVIOUS
  <2>1. PICK i \in Odd : \A k \in Odd : i <= k
    <3>1. Odd \subseteq Nat
      OBVIOUS
    <3> QED
      BY <3>1, Least
  <2>2. i \in 1 .. n /\ (i # 1 => i - 1 \in 1 .. n /\ ~(i <= i - 1))
    OBVIOUS
  <2>3. CASE i = 1
    BY <1>1, <1>2, <2>2, <2>3, Zenon
  <2>4. CASE i # 1
    <3>1. f[i - 1] \in Seq(S) /\ s[i] \in Seq(S) /\ f[i] = f[i - 1] \o s[i]
      BY <1>1, <1>2, <2>1, <2>2, <2>4, Zenon
    <3>2. \A a, b \in Seq(S) : a \o b \in Seq(S)
      BY SMT
    <3>3. f[i] \in Seq(S)
      BY <3>1, <3>2, Zenon
    <3> QED
      BY <2>1, <3>3
  <2> QED
    BY <2>3, <2>4
<1>4. ASSUME NEW i \in 1 .. n, i # 1
      PROVE  Made(f[i], f[i - 1], s[i])
  <2>1. i - 1 \in 1 .. n
    BY <1>4
  <2>2. f[i - 1] \in Seq(S) /\ s[i] \in Seq(S)
    BY <1>2, <1>3, <2>1, Zenon
  <2>3. f[i] = f[i - 1] \o s[i]
    BY <1>1, <1>4, Zenon
  <2>4. Made(f[i - 1] \o s[i], f[i - 1], s[i])
    BY <2>2, MadeOf
  <2> QED
    BY <2>3, <2>4
<1> QED
  BY <1>3, <1>4, Zenon DEF Grows

\* So that the last begins with each.
Leads(a, b) == Len(a) <= Len(b) /\ \A k \in 1 .. Len(a) : b[k] = a[k]

LEMMA FlattenBegins ==
    ASSUME NEW S, NEW n \in Nat, NEW s \in [1 .. n -> Seq(S)], NEW f, Flattens(f, s, n),
           NEW i \in 1 .. n
    PROVE  Leads(f[i], f[n])
<1>1. /\ \A j \in 1 .. n : f[j] \in Seq(S)
      /\ \A j \in 1 .. n : j # 1 => Made(f[j], f[j - 1], s[j])
  <2>1. Grows(S, f, s, n)
    BY FlattenGrows
  <2> QED
    BY <2>1, Zenon DEF Grows
<1> DEFINE Begins(j) == Len(f[i]) <= Len(f[j]) /\ \A k \in 1 .. Len(f[i]) : f[j][k] = f[i][k]
           Odd == {j \in i .. n : ~Begins(j)}
<1>2. n \in 1 .. n /\ n \in i .. n /\ Len(f[i]) \in Nat /\ Len(f[n]) \in Nat
  <2>1. n \in 1 .. n /\ n \in i .. n
    OBVIOUS
  <2>2. f[n] \in Seq(S) /\ f[i] \in Seq(S)
    BY <1>1, <2>1, Zenon
  <2> QED
    BY <2>1, <2>2
<1>3. ASSUME Odd # {} PROVE FALSE
  <2>1. PICK j \in Odd : \A k \in Odd : j <= k
    <3>1. Odd \subseteq Nat
      OBVIOUS
    <3> HIDE DEF Odd
    <3> QED
      BY <1>3, <3>1, Least
  <2>2. j \in 1 .. n /\ j \in i .. n
    OBVIOUS
  <2>3. CASE j = i
    <3>1. Begins(i)
      BY <1>2
    <3> QED
      BY <2>1, <2>3, <3>1, Zenon
  <2>4. CASE j # i
    <3>1. j # 1 /\ j - 1 \in 1 .. n /\ j - 1 \in i .. n /\ ~(j <= j - 1)
      BY <2>2, <2>4
    <3>2. Begins(j - 1)
      BY <2>1, <3>1, Zenon
    <3>3. f[j - 1] \in Seq(S) /\ s[j] \in Seq(S)
      BY <1>1, <2>2, <3>1, Zenon
    <3>4. /\ Len(f[j]) = Len(f[j - 1]) + Len(s[j])
          /\ \A k \in 1 .. Len(f[j - 1]) : f[j][k] = f[j - 1][k]
      BY <1>1, <2>2, <3>1, Zenon DEF Made
    <3>5. Len(f[j - 1]) \in Nat /\ Len(s[j]) \in Nat
      BY <3>3
    <3>6. Len(f[i]) <= Len(f[j - 1])
      BY <3>2, Zenon
    <3>7. \A k \in 1 .. Len(f[i]) : k \in 1 .. Len(f[j - 1])
      BY ONLY <1>2, <3>5, <3>6, SMT
    <3>8. Len(f[i]) <= Len(f[j])
      <4>1. Len(f[j]) = Len(f[j - 1]) + Len(s[j])
        BY <3>4
      <4>2. \A a, b, c \in Nat : a <= b => a <= b + c
        OBVIOUS
      <4> QED
        BY <1>2, <3>5, <3>6, <4>1, <4>2, Zenon
    <3>9. \A k \in 1 .. Len(f[i]) : f[j][k] = f[i][k]
      BY <3>2, <3>4, <3>7, Zenon
    <3>10. Begins(j)
      BY <3>8, <3>9, Zenon
    <3> QED
      BY <2>1, <3>10, Zenon
  <2> QED
    BY <2>3, <2>4
<1> HIDE DEF Begins
<1>4. Begins(n)
  BY <1>2, <1>3, Zenon
<1> QED
  BY <1>4, Zenon DEF Begins, Leads

\* One sequence lies in another, behind the first b of its elements.
LiesAt(b, t, whole) ==
    /\ b \in Nat /\ Len(t) \in Nat /\ b + Len(t) <= Len(whole)
    /\ \A k \in 1 .. Len(t) : whole[b + k] = t[k]

\* Where each part begins in the whole, it is cut out again: which is what the
\* linker's symbols and the lengths of offsets.go are for.
LEMMA FlattenParts ==
    ASSUME NEW S, NEW n \in Nat, NEW s \in [1 .. n -> Seq(S)], NEW i \in 1 .. n
    PROVE  /\ FlattenSeq(s) \in Seq(S)
           /\ LiesAt(Len(FlattenSeq(SubSeq(s, 1, i - 1))), s[i], FlattenSeq(s))
<1> DEFINE whole == FlattenSeq(s)
           before == Len(FlattenSeq(SubSeq(s, 1, i - 1)))
<1>1. s \in Seq(Seq(S)) /\ Len(s) = n /\ n # 0
  OBVIOUS
<1>2. PICK f : Flattens(f, s, n) /\ whole = f[n]
  BY <1>1, FlattenIs, Zenon
<1>3. Grows(S, f, s, n)
  BY <1>2, FlattenGrows
<1>8. whole \in Seq(S) /\ f[i] \in Seq(S)
  <2>1. n \in 1 .. n
    OBVIOUS
  <2> QED
    BY <1>2, <1>3, <2>1, Zenon DEF Grows
<1>4. /\ Len(f[i]) <= Len(whole)
      /\ \A k \in 1 .. Len(f[i]) : whole[k] = f[i][k]
  <2> HIDE DEF whole
  <2>1. Leads(f[i], f[n])
    BY <1>2, FlattenBegins
  <2> QED
    BY <1>2, <2>1, Zenon DEF Leads
<1>5. s[i] \in Seq(S) /\ Len(s[i]) \in Nat
  <2>1. s[i] \in Seq(S)
    BY Zenon
  <2> QED
    BY <2>1
<1> HIDE DEF whole
<1>6. CASE i = 1
  <2>1. before = 0
    <3>1. Len(SubSeq(s, 1, i - 1)) = 0 /\ SubSeq(s, 1, i - 1) = <<>>
      BY <1>1, <1>6, SMT
    <3>2. FlattenSeq(SubSeq(s, 1, i - 1)) = <<>>
      BY <3>1, Zenon DEF FlattenSeq
    <3> QED
      BY <3>2
  <2>2. f[i] = s[i]
    BY <1>2, <1>6, Zenon DEF Flattens
  <2>3. \A k \in 1 .. Len(s[i]) : whole[k] = s[i][k]
    BY <1>4, <2>2, Zenon
  <2> HIDE DEF before
  <2>4. 0 + Len(s[i]) = Len(s[i]) /\ \A k \in 1 .. Len(s[i]) : 0 + k = k
    BY <1>5
  <2>5. before + Len(s[i]) <= Len(whole)
    BY <1>4, <2>1, <2>2, <2>4, Zenon
  <2>6. \A k \in 1 .. Len(s[i]) : whole[before + k] = s[i][k]
    BY <2>1, <2>3, <2>4, Zenon
  <2> QED
    <3>1. before \in Nat
      BY <2>1
    <3> QED
      BY <1>5, <1>8, <2>5, <2>6, <3>1, Zenon DEF before, whole, LiesAt
<1>7. CASE i # 1
  <2> DEFINE t == SubSeq(s, 1, i - 1)
  <2>1. i - 1 \in 1 .. n /\ i - 1 \in Nat /\ i - 1 # 0
    BY <1>7
  <2>2. Len(t) = i - 1 /\ \A k \in 1 .. (i - 1) : t[k] = s[k]
    BY <1>1, <2>1
  <2> HIDE DEF t
  <2>3. PICK h : Flattens(h, t, i - 1) /\ FlattenSeq(t) = h[i - 1]
    BY <2>1, <2>2, FlattenIs, Zenon
  <2>4. i - 1 \in 1 .. (i - 1) /\ i - 1 <= n
    BY <2>1
  <2>5. h[i - 1] = f[i - 1]
    <3>1. Agree(f, h, i - 1)
      BY <1>2, <2>1, <2>2, <2>3, <2>4, FlattenAgree
    <3> QED
      BY <2>4, <3>1, Zenon DEF Agree
  <2>6. before = Len(f[i - 1])
    BY <2>3, <2>5, Zenon DEF t
  <2>7. f[i - 1] \in Seq(S)
    BY <1>3, <2>1, Zenon DEF Grows
  <2>8. /\ Len(f[i]) = Len(f[i - 1]) + Len(s[i])
        /\ \A k \in 1 .. Len(s[i]) : f[i][Len(f[i - 1]) + k] = s[i][k]
    BY <1>3, <1>7, Zenon DEF Grows, Made
  <2> HIDE DEF before
  <2>9. before \in Nat
    BY <2>6, <2>7
  <2>10. \A k \in 1 .. Len(s[i]) : before + k \in 1 .. Len(f[i])
    BY <1>5, <2>6, <2>8, <2>9
  <2>11. \A k \in 1 .. Len(s[i]) : whole[before + k] = s[i][k]
    BY <1>4, <2>6, <2>8, <2>10, Zenon
  <2>12. before + Len(s[i]) <= Len(whole)
    BY <1>4, <2>6, <2>8, Zenon
  <2> QED
    BY <1>5, <1>8, <2>9, <2>11, <2>12, Zenon DEF before, whole, LiesAt
<1> QED
  BY <1>6, <1>7

-------------------------------------------------------------------------------
(* The section of the object file, and what is cut out of it.              *)

\* The routines the branches of the checks go to: they end with two absolute
\* branches, and have no other.
EndsTwice(words, n) ==
    /\ Len(words) = n
    /\ words[n].op = "ba" /\ words[n - 1].op = "ba"
    /\ \A k \in 1 .. (n - 2) : words[k].op # "ba"

LEMMA LBP1Hook ==
    EndsTwice(LBP1ScriptHook, 8) /\ \E S : LBP1ScriptHook \in Seq(S)
<1>1. /\ Arg.op = "args" /\ Type("r3").op = "type" /\ Cmp("cr7", "r3").op = "cmp"
      /\ Br("cr7", "eq", 16).op = "branch" /\ Mr("r3", "r25").op = "mr"
      /\ Bla("AddToCSRQueue").op = "call" /\ Ba(\h81BCC).op = "ba" /\ Ba(\h81B40).op = "ba"
  BY SMT DEF Arg, Type, Cmp, Br, Mr, Bla, Ba
<1> DEFINE a == Arg
           b == Type("r3")
           c == Cmp("cr7", "r3")
           d == Br("cr7", "eq", 16)
           e == Mr("r3", "r25")
           f == Bla("AddToCSRQueue")
           h == Ba(\h81BCC)
           i == Ba(\h81B40)
<1>2. LBP1ScriptHook = <<a, b, c, d, e, f, h, i>>
  BY SMT DEF LBP1ScriptHook
<1>3. /\ a.op # "ba" /\ b.op # "ba" /\ c.op # "ba" /\ d.op # "ba" /\ e.op # "ba"
      /\ f.op # "ba" /\ h.op = "ba" /\ i.op = "ba"
  BY <1>1, SMT
<1> HIDE DEF a, b, c, d, e, f, h, i
<1> DEFINE t == <<a, b, c, d, e, f, h, i>>
<1>4. /\ Len(t) = 8 /\ t[1] = a /\ t[2] = b /\ t[3] = c /\ t[4] = d /\ t[5] = e
      /\ t[6] = f /\ t[7] = h /\ t[8] = i
      /\ t \in Seq({a, b, c, d, e, f, h, i})
  BY SMT
<1> HIDE DEF t
<1>5. \A k \in 1 .. (8 - 2) : k = 1 \/ k = 2 \/ k = 3 \/ k = 4 \/ k = 5 \/ k = 6
  BY SMT
<1>6. \A k \in 1 .. (8 - 2) : t[k].op # "ba"
  BY <1>3, <1>4, <1>5, Zenon
<1>7. 8 - 1 = 7
  BY SMT
<1>8. EndsTwice(t, 8)
  BY <1>3, <1>4, <1>6, <1>7, Zenon DEF EndsTwice
<1> QED
  BY <1>2, <1>4, <1>8, Zenon DEF t

LEMMA LBP2Hook ==
    EndsTwice(LBP2ScriptHook, 6) /\ \E S : LBP2ScriptHook \in Seq(S)
<1>1. /\ Br("cr7", "eq", 20).op = "branch" /\ Type("r0").op = "type"
      /\ Cmp("cr7", "r0").op = "cmp" /\ Br("cr7", "eq", 8).op = "branch"
      /\ Ba(\h153D78).op = "ba" /\ Ba(\h153D3C).op = "ba"
  BY SMT DEF Type, Cmp, Br, Ba
<1> DEFINE a == Br("cr7", "eq", 20)
           b == Type("r0")
           c == Cmp("cr7", "r0")
           d == Br("cr7", "eq", 8)
           e == Ba(\h153D78)
           f == Ba(\h153D3C)
<1>2. LBP2ScriptHook = <<a, b, c, d, e, f>>
  BY SMT DEF LBP2ScriptHook
<1>3. /\ a.op # "ba" /\ b.op # "ba" /\ c.op # "ba" /\ d.op # "ba" /\ e.op = "ba"
      /\ f.op = "ba"
  BY <1>1, SMT
<1> HIDE DEF a, b, c, d, e, f
<1> DEFINE t == <<a, b, c, d, e, f>>
<1>4. /\ Len(t) = 6 /\ t[1] = a /\ t[2] = b /\ t[3] = c /\ t[4] = d /\ t[5] = e
      /\ t[6] = f /\ t \in Seq({a, b, c, d, e, f})
  BY SMT
<1> HIDE DEF t
<1>5. \A k \in 1 .. (6 - 2) : k = 1 \/ k = 2 \/ k = 3 \/ k = 4
  BY SMT
<1>6. \A k \in 1 .. (6 - 2) : t[k].op # "ba"
  BY <1>3, <1>4, <1>5, Zenon
<1>7. 6 - 1 = 5
  BY SMT
<1>8. EndsTwice(t, 6)
  BY <1>3, <1>4, <1>6, <1>7, Zenon DEF EndsTwice
<1> QED
  BY <1>2, <1>4, <1>8, Zenon DEF t

LEMMA LBP3Hook ==
    ASSUME NEW continue, NEW bail
    PROVE  /\ EndsTwice(LBP3ScriptHookTo(continue, bail), 7)
           /\ \E S : LBP3ScriptHookTo(continue, bail) \in Seq(S)
<1>1. /\ Cmp("cr0", "r3").op = "cmp" /\ Br("cr0", "ne", 20).op = "branch"
      /\ Type("r3").op = "type" /\ Cmp("cr7", "r3").op = "cmp"
      /\ Br("cr7", "eq", 8).op = "branch" /\ Ba(continue).op = "ba" /\ Ba(bail).op = "ba"
  BY SMT DEF Type, Cmp, Br, Ba
<1> DEFINE a == Cmp("cr0", "r3")
           b == Br("cr0", "ne", 20)
           c == Type("r3")
           d == Cmp("cr7", "r3")
           e == Br("cr7", "eq", 8)
           f == Ba(continue)
           h == Ba(bail)
<1>2. LBP3ScriptHookTo(continue, bail) = <<a, b, c, d, e, f, h>>
  BY Zenon DEF LBP3ScriptHookTo
<1>3. /\ a.op # "ba" /\ b.op # "ba" /\ c.op # "ba" /\ d.op # "ba" /\ e.op # "ba"
      /\ f.op = "ba" /\ h.op = "ba"
  BY <1>1, SMT
<1> HIDE DEF a, b, c, d, e, f, h
<1> DEFINE t == <<a, b, c, d, e, f, h>>
<1>4. /\ Len(t) = 7 /\ t[1] = a /\ t[2] = b /\ t[3] = c /\ t[4] = d /\ t[5] = e
      /\ t[6] = f /\ t[7] = h /\ t \in Seq({a, b, c, d, e, f, h})
  BY SMT
<1> HIDE DEF t
<1>5. \A k \in 1 .. (7 - 2) : k = 1 \/ k = 2 \/ k = 3 \/ k = 4 \/ k = 5
  BY SMT
<1>6. \A k \in 1 .. (7 - 2) : t[k].op # "ba"
  BY <1>3, <1>4, <1>5, Zenon
<1>7. 7 - 1 = 6
  BY SMT
<1>8. EndsTwice(t, 7)
  BY <1>3, <1>4, <1>6, <1>7, Zenon DEF EndsTwice
<1> QED
  BY <1>2, <1>4, <1>8, Zenon DEF t

HookLength(g) == CASE g = "LBP1" -> 8 [] g = "LBP2" -> 6 [] OTHER -> 7

LEMMA HookWhole ==
    ASSUME NEW g \in KnownGames
    PROVE  EndsTwice(ScriptHook[g], HookLength(g)) /\ \E S : ScriptHook[g] \in Seq(S)
<1>1. CASE g = "LBP1"
  <2>1. ScriptHook[g] = LBP1ScriptHook /\ HookLength(g) = 8
    BY <1>1, SMT DEF ScriptHook, HookLength
  <2> QED
    BY <2>1, LBP1Hook, Zenon
<1>2. CASE g = "LBP2"
  <2>1. ScriptHook[g] = LBP2ScriptHook /\ HookLength(g) = 6
    BY <1>2, SMT DEF ScriptHook, HookLength
  <2> QED
    BY <2>1, LBP2Hook, Zenon
<1>3. CASE g \in {"LBP3", "LBP3_JP"}
  <2>1. /\ \E continue, bail : ScriptHook[g] = LBP3ScriptHookTo(continue, bail)
        /\ HookLength(g) = 7
    <3>1. CASE g = "LBP3"
      <4>1. ScriptHook[g] = LBP3ScriptHookTo(\h1CFC78, \h1CFD10) /\ HookLength(g) = 7
        BY <3>1, SMT DEF ScriptHook, HookLength
      <4> QED
        BY <4>1, SMT
    <3>2. CASE g = "LBP3_JP"
      <4>1. ScriptHook[g] = LBP3ScriptHookTo(\h1CFB14, \h1CFBAC) /\ HookLength(g) = 7
        BY <3>2, SMT DEF ScriptHook, HookLength
      <4> QED
        BY <4>1, SMT
    <3> QED
      BY <1>3, <3>1, <3>2
  <2> QED
    BY <2>1, LBP3Hook, Zenon
<1> QED
  BY <1>1, <1>2, <1>3, Zenon DEF KnownGames

LEMMA Into ==
    ASSUME NEW S, NEW T, S \subseteq T, NEW s \in Seq(S)
    PROVE  s \in Seq(T)
  BY SMT

LEMMA AsMany ==
    ASSUME NEW S, NEW n \in Nat, NEW a \in [1 .. n -> S], NEW b \in [1 .. n -> S]
    PROVE  /\ a \o b \in [1 .. (n + n) -> S]
           /\ \A i \in 1 .. n : (a \o b)[i] = a[i] /\ (a \o b)[n + i] = b[i]
<1>1. a \in Seq(S) /\ Len(a) = n /\ b \in Seq(S) /\ Len(b) = n
  OBVIOUS
<1>2. a \o b \in Seq(S) /\ Made(a \o b, a, b)
  BY <1>1, MadeOf
<1> DEFINE t == a \o b
<1>3. t \in Seq(S) /\ Len(t) = n + n
  BY <1>1, <1>2 DEF Made
<1>4. \A i \in 1 .. n : t[i] = a[i] /\ t[n + i] = b[i]
  BY <1>1, <1>2, Zenon DEF Made
<1> HIDE DEF t
<1>5. t \in [1 .. (n + n) -> S]
  BY <1>3
<1> QED
  BY <1>4, <1>5, Zenon DEF t

\* The section holds the routines of every game.
LEMMA SectionsAre ==
    /\ \A i \in 1 .. 4 : Order[i] \in KnownGames /\ Sections[i] = ForceJoin[Order[i]]
                         /\ Sections[4 + i] = ScriptHook[Order[i]]
    /\ \E S : Sections \in [1 .. 8 -> Seq(S)]
<1> DEFINE a == [i \in 1 .. 4 |-> ForceJoin[Order[i]]]
           b == [i \in 1 .. 4 |-> ScriptHook[Order[i]]]
<1>1. \A i \in 1 .. 4 : Order[i] \in KnownGames
  BY SMT DEF Order, KnownGames
<1>2. \E T : /\ \A i \in 1 .. 4 : ForceJoin[Order[i]] \in Seq(T)
             /\ \A i \in 1 .. 4 : ScriptHook[Order[i]] \in Seq(T)
  <2>1. /\ \A i \in 1 .. 4 : \E S : ForceJoin[Order[i]] \in Seq(S)
        /\ \A i \in 1 .. 4 : \E S : ScriptHook[Order[i]] \in Seq(S)
    BY <1>1, JoinWhole, HookWhole, Zenon
  <2>2. 1 \in 1 .. 4 /\ 2 \in 1 .. 4 /\ 3 \in 1 .. 4 /\ 4 \in 1 .. 4
    BY SMT
  <2>3. PICK J1 : ForceJoin[Order[1]] \in Seq(J1)
    BY <2>1, <2>2, Zenon
  <2>4. PICK J2 : ForceJoin[Order[2]] \in Seq(J2)
    BY <2>1, <2>2, Zenon
  <2>5. PICK J3 : ForceJoin[Order[3]] \in Seq(J3)
    BY <2>1, <2>2, Zenon
  <2>6. PICK J4 : ForceJoin[Order[4]] \in Seq(J4)
    BY <2>1, <2>2, Zenon
  <2>7. PICK H1 : ScriptHook[Order[1]] \in Seq(H1)
    BY <2>1, <2>2, Zenon
  <2>8. PICK H2 : ScriptHook[Order[2]] \in Seq(H2)
    BY <2>1, <2>2, Zenon
  <2>9. PICK H3 : ScriptHook[Order[3]] \in Seq(H3)
    BY <2>1, <2>2, Zenon
  <2>10. PICK H4 : ScriptHook[Order[4]] \in Seq(H4)
    BY <2>1, <2>2, Zenon
  <2> DEFINE T == J1 \union J2 \union J3 \union J4 \union H1 \union H2 \union H3 \union H4
  <2>11. /\ ForceJoin[Order[1]] \in Seq(T) /\ ForceJoin[Order[2]] \in Seq(T)
         /\ ForceJoin[Order[3]] \in Seq(T) /\ ForceJoin[Order[4]] \in Seq(T)
    <3>1. J1 \subseteq T /\ J2 \subseteq T /\ J3 \subseteq T /\ J4 \subseteq T
      BY Zenon
    <3> HIDE DEF T
    <3> QED
      BY <2>3, <2>4, <2>5, <2>6, <3>1, Into
  <2>12. /\ ScriptHook[Order[1]] \in Seq(T) /\ ScriptHook[Order[2]] \in Seq(T)
         /\ ScriptHook[Order[3]] \in Seq(T) /\ ScriptHook[Order[4]] \in Seq(T)
    <3>1. H1 \subseteq T /\ H2 \subseteq T /\ H3 \subseteq T /\ H4 \subseteq T
      BY Zenon
    <3> HIDE DEF T
    <3> QED
      BY <2>7, <2>8, <2>9, <2>10, <3>1, Into
  <2> HIDE DEF T
  <2>13. \A i \in 1 .. 4 : i = 1 \/ i = 2 \/ i = 3 \/ i = 4
    BY SMT
  <2> QED
    BY <2>11, <2>12, <2>13, Zenon
<1>3. PICK T : /\ \A i \in 1 .. 4 : ForceJoin[Order[i]] \in Seq(T)
               /\ \A i \in 1 .. 4 : ScriptHook[Order[i]] \in Seq(T)
  BY <1>2
<1>4. a \in [1 .. 4 -> Seq(T)] /\ b \in [1 .. 4 -> Seq(T)]
  BY <1>3, Zenon
<1>5. Sections = a \o b
  BY Zenon DEF Sections
<1>6. \A i \in 1 .. 4 : a[i] = ForceJoin[Order[i]] /\ b[i] = ScriptHook[Order[i]]
  BY Zenon
<1> HIDE DEF a, b
<1> DEFINE S == Seq(T)
<1>7. a \in [1 .. 4 -> S] /\ b \in [1 .. 4 -> S]
  BY <1>4
<1> HIDE DEF S
<1>8. /\ a \o b \in [1 .. 8 -> S]
      /\ \A i \in 1 .. 4 : (a \o b)[i] = a[i] /\ (a \o b)[4 + i] = b[i]
  <2> DEFINE n == 4
  <2>1. n \in Nat /\ n + n = 8 /\ a \in [1 .. n -> S] /\ b \in [1 .. n -> S]
    BY <1>7
  <2> HIDE DEF n
  <2>2. /\ a \o b \in [1 .. (n + n) -> S]
        /\ \A i \in 1 .. n : (a \o b)[i] = a[i] /\ (a \o b)[n + i] = b[i]
    BY <2>1, AsMany
  <2>3. a \o b \in [1 .. 8 -> S]
    BY <2>1, <2>2, Zenon
  <2> QED
    BY <2>2, <2>3, Zenon DEF n
<1> QED
  BY <1>1, <1>5, <1>6, <1>8, Zenon DEF S

\* Each of them lies in it whole.
LEMMA SectionCut ==
    \E S : /\ TextSection \in Seq(S)
           /\ \A i \in 1 .. 8 : /\ Sections[i] \in Seq(S)
                                /\ Symbol(i) \in Nat
                                /\ LiesAt(Symbol(i) - 1, Sections[i], TextSection)
<1> DEFINE s == Sections
           n == 8
<1>1. PICK S : s \in [1 .. n -> Seq(S)]
  BY SectionsAre
<1>2. n \in Nat /\ 1 \in 1 .. n
  OBVIOUS
<1>3. ASSUME NEW i \in 1 .. n
      PROVE  TextSection \in Seq(S) /\ s[i] \in Seq(S)
             /\ Symbol(i) \in Nat /\ LiesAt(Symbol(i) - 1, s[i], TextSection)
  <2> DEFINE before == Len(FlattenSeq(SubSeq(s, 1, i - 1)))
  <2> HIDE DEF s, n
  <2>1. FlattenSeq(s) \in Seq(S) /\ LiesAt(before, s[i], FlattenSeq(s))
    BY <1>1, <1>2, FlattenParts
  <2>2. before \in Nat
    BY <2>1 DEF LiesAt
  <2> HIDE DEF before
  <2>3. Symbol(i) = 1 + before /\ TextSection = FlattenSeq(s)
    BY Zenon DEF Symbol, TextSection, s, before
  <2>4. Symbol(i) - 1 = before /\ Symbol(i) \in Nat
    BY <2>2, <2>3
  <2>5. s[i] \in Seq(S)
    BY <1>1, Zenon
  <2> QED
    BY <2>1, <2>3, <2>4, <2>5, Zenon
<1> QED
  BY <1>2, <1>3, Zenon

LEMMA RankIs ==
    ASSUME NEW g \in KnownGames
    PROVE  /\ Rank(g) \in 1 .. 4 /\ 4 + Rank(g) \in 1 .. 8 /\ Rank(g) \in 1 .. 8
           /\ Sections[Rank(g)] = ForceJoin[g] /\ Sections[4 + Rank(g)] = ScriptHook[g]
<1>1. \E i \in 1 .. 4 : Order[i] = g
  <2>1. /\ Order[1] = "LBP1" /\ Order[2] = "LBP2" /\ Order[3] = "LBP3"
        /\ Order[4] = "LBP3_JP"
    BY SMT DEF Order
  <2>2. 1 \in 1 .. 4 /\ 2 \in 1 .. 4 /\ 3 \in 1 .. 4 /\ 4 \in 1 .. 4
    BY SMT
  <2> QED
    BY <2>1, <2>2, Zenon DEF KnownGames
<1>2. Rank(g) \in 1 .. 4 /\ Order[Rank(g)] = g
  BY <1>1, Zenon DEF Rank
<1>3. 4 + Rank(g) \in 1 .. 8 /\ Rank(g) \in 1 .. 8
  BY <1>2
<1> QED
  BY <1>2, <1>3, SectionsAre, Zenon

\* So much of a sequence is the part that lies there.
LEMMA PartIs ==
    ASSUME NEW S, NEW s \in Seq(S), NEW t \in Seq(S), NEW b, LiesAt(b, t, s)
    PROVE  SubSeq(s, b + 1, b + Len(t)) = t
<1> DEFINE n == Len(t)
<1>1. /\ n \in Nat /\ b \in Nat /\ b + n <= Len(s)
      /\ \A k \in 1 .. n : s[b + k] = t[k]
  BY Zenon DEF LiesAt
<1> HIDE DEF n
<1> DEFINE from == b + 1
           to == b + n
           r == SubSeq(s, from, to)
<1>2. r \in Seq(S) /\ Len(r) = n /\ \A k \in 1 .. n : r[k] = s[b + k]
  <2>1. /\ from \in 1 .. (Len(s) + 1) /\ to \in (from - 1) .. Len(s)
        /\ to - from + 1 = n /\ \A k \in 1 .. n : from + k - 1 = b + k
    <3> DEFINE l == Len(s)
    <3>1. l \in Nat /\ n \in Nat /\ b \in Nat /\ b + n <= l
      BY <1>1
    <3> HIDE DEF l
    <3>2. from \in 1 .. (l + 1) /\ to \in (from - 1) .. l
      BY <3>1
    <3>3. to - from + 1 = n
      BY <3>1
    <3>4. \A k \in 1 .. n : from + k - 1 = b + k
      BY <3>1
    <3> QED
      BY <3>2, <3>3, <3>4, Zenon DEF l
  <2> HIDE DEF from, to
  <2>2. r \in Seq(S)
    BY <2>1
  <2>3. Len(r) = to - from + 1
    BY <2>1
  <2>4. \A k \in 1 .. (to - from + 1) : r[k] = s[from + k - 1]
    BY <2>1
  <2> QED
    BY <2>1, <2>2, <2>3, <2>4, Zenon
<1> HIDE DEF r
<1>3. \A k \in 1 .. n : r[k] = t[k]
  BY <1>1, <1>2, Zenon
<1>4. r = t
  BY <1>2, <1>3 DEF n
<1> QED
  BY <1>4, Zenon DEF r, n, from, to

\* The routine's words, by the symbol and the length of lbpdefs.
LEMMA JoinCut ==
    ASSUME NEW g \in KnownGames
    PROVE  SubSeq(TextSection, Symbol(Rank(g)),
                  Symbol(Rank(g)) + Len(ForceJoin[g]) - 1) = ForceJoin[g]
<1> DEFINE s == TextSection
           t == ForceJoin[g]
           at == Symbol(Rank(g))
           b == at - 1
<1>1. PICK S : s \in Seq(S) /\ t \in Seq(S) /\ at \in Nat /\ LiesAt(b, t, s)
  <2>1. PICK S : /\ TextSection \in Seq(S)
                 /\ \A i \in 1 .. 8 : /\ Sections[i] \in Seq(S)
                                      /\ Symbol(i) \in Nat
                                      /\ LiesAt(Symbol(i) - 1, Sections[i], TextSection)
    BY SectionCut
  <2>2. Rank(g) \in 1 .. 8 /\ Sections[Rank(g)] = ForceJoin[g]
    BY RankIs
  <2> QED
    BY <2>1, <2>2, Zenon
<1> HIDE DEF s, t, at
<1>3. Len(t) \in Nat
  BY <1>1
<1>4. at = b + 1 /\ at + Len(t) - 1 = b + Len(t)
  BY <1>1, <1>3
<1> HIDE DEF b
<1>5. SubSeq(s, b + 1, b + Len(t)) = t
  BY <1>1, PartIs
<1> QED
  BY <1>4, <1>5, Zenon DEF s, t, at

\* GetHook stops at the hook's own second branch, whatever follows it.
LEMMA HookCut ==
    ASSUME NEW g \in KnownGames
    PROVE  GetHook(Symbol(4 + Rank(g))) = ScriptHook[g]
<1> DEFINE s == TextSection
           t == ScriptHook[g]
           n == HookLength(g)
           at == Symbol(4 + Rank(g))
           b == at - 1
           ends == {i \in at .. Len(s) : s[i].op = "ba"}
<1>1. PICK S : s \in Seq(S) /\ t \in Seq(S) /\ at \in Nat /\ LiesAt(b, t, s)
  <2>1. PICK S : /\ TextSection \in Seq(S)
                 /\ \A i \in 1 .. 8 : /\ Sections[i] \in Seq(S)
                                      /\ Symbol(i) \in Nat
                                      /\ LiesAt(Symbol(i) - 1, Sections[i], TextSection)
    BY SectionCut
  <2>2. 4 + Rank(g) \in 1 .. 8 /\ Sections[4 + Rank(g)] = ScriptHook[g]
    BY RankIs
  <2> QED
    BY <2>1, <2>2, Zenon
<1>2. n \in 6 .. 8
  BY SMT DEF HookLength
<1>3. EndsTwice(t, n)
  BY HookWhole, Zenon
<1>4. GetHook(at) = SubSeq(s, at, Min(ends \ {Min(ends)}))
  BY Zenon DEF GetHook
<1> HIDE DEF s, t, n, at
<1>5. Len(t) = n /\ t[n].op = "ba" /\ t[n - 1].op = "ba"
      /\ \A k \in 1 .. (n - 2) : t[k].op # "ba"
  BY <1>3, Zenon DEF EndsTwice
<1>6. Len(s) \in Nat
  BY <1>1
<1> HIDE DEF b
<1>7. b \in Nat /\ b + n <= Len(s) /\ \A k \in 1 .. n : s[b + k] = t[k]
  BY <1>1, <1>5, Zenon DEF LiesAt
<1>8. at = b + 1
  BY <1>1 DEF b
<1>9. /\ n \in 1 .. n /\ n - 1 \in 1 .. n
      /\ b + n \in at .. Len(s) /\ b + (n - 1) \in at .. Len(s)
  BY <1>2, <1>6, <1>7, <1>8
<1>10. b + n \in ends /\ b + (n - 1) \in ends
  BY <1>5, <1>7, <1>9, Zenon
<1>11. ASSUME NEW i \in ends PROVE i >= b + (n - 1)
  <2>1. i \in at .. Len(s) /\ s[i].op = "ba"
    OBVIOUS
  <2> SUFFICES ASSUME i < b + (n - 1) PROVE FALSE
    BY <1>2, <1>6, <1>7, <1>8, <2>1
  <2>2. i - b \in 1 .. (n - 2) /\ i - b \in 1 .. n /\ b + (i - b) = i
    BY <1>2, <1>6, <1>7, <1>8, <2>1
  <2>3. s[b + (i - b)] = t[i - b] /\ t[i - b].op # "ba"
    BY <1>5, <1>7, <2>2, Zenon
  <2> QED
    BY <2>1, <2>2, <2>3
<1>12. ends \subseteq Int
  BY <1>1
<1> HIDE DEF ends
<1>13. Min(ends) = b + (n - 1)
  <2>1. \A x \in ends : (\A y \in ends : x <= y) <=> x = b + (n - 1)
    BY <1>2, <1>7, <1>10, <1>11, <1>12
  <2> QED
    BY <1>10, <2>1, Zenon DEF Min
<1> DEFINE rest == ends \ {b + (n - 1)}
<1>14. Min(rest) = b + n
  <2>1. b + n \in rest /\ \A i \in rest : i >= b + n
    BY <1>2, <1>7, <1>10, <1>11, <1>12
  <2>2. rest \subseteq Int
    BY <1>12
  <2> HIDE DEF rest
  <2>3. \A x \in rest : (\A y \in rest : x <= y) <=> x = b + n
    BY <1>2, <1>7, <2>1, <2>2
  <2> QED
    BY <2>1, <2>3, Zenon DEF Min
<1>15. GetHook(at) = SubSeq(s, b + 1, b + Len(t))
  BY <1>4, <1>5, <1>8, <1>13, <1>14, Zenon
<1>16. SubSeq(s, b + 1, b + Len(t)) = t
  <2>1. LiesAt(b, t, s)
    BY <1>1 DEF b
  <2> QED
    BY <1>1, <2>1, PartIs
<1> QED
  BY <1>15, <1>16, Zenon DEF at, t

-------------------------------------------------------------------------------
(* The tables of the patch file.                                           *)

\* The words of each routine, what is between them and the strings, and the
\* strings by what they are.
Words(g) == CASE g = "LBP1" -> 16 [] g = "LBP2" -> 30 [] OTHER -> 28
Base(g) == Words(g) + 1 + HookLength(g)
Names(g) ==
    IF g \in {"LBP1", "LBP2"} THEN <<"agent", "http", "https", "digest">>
    ELSE <<"agent", "http", "https", "live", "presence", "digest">>

\* Where the routine, the branch and the strings of the file begin, and the room
\* there is for them.
FileStarts ==
    [LBP1 |-> <<\h3ab70c, \h81BC8, \h79FDA0, \h767CF8, \h767C40, \h79FBC0>>,
     LBP2 |-> <<\h285fb8, \h153D74, \hC36320, \hC51C08, \hC51B68, \hC361D0>>,
     LBP3 |-> <<\h285fb8, \h1CFC6C, \hD8BF50, \hD9E4C4, \hD9E5D8, \hD842EC,
                \hD8429C, \hD8BD08>>,
     LBP3_JP |-> <<\h301e34, \h1CFB08, \hD71DE8, \hD84224, \hD84338, \hD842EC,
                   \hD8429C, \hD71BA0>>]
Rooms ==
    [LBP1 |-> <<64, 4, 18, 76, 76, 312>>,
     LBP2 |-> <<120, 4, 18, 76, 76, 312>>,
     LBP3 |-> <<112, 4, 18, 76, 76, 76, 76, 312>>,
     LBP3_JP |-> <<112, 4, 18, 76, 76, 76, 76, 312>>]
Areas(g) == IF g \in {"LBP1", "LBP2"} THEN 6 ELSE 8

RoomsApart(g) ==
    \A i, j \in 1 .. Areas(g) :
        /\ FileStarts[g][i] \in Nat /\ FileStarts[g][i] > 0
        /\ Rooms[g][i] \in 1 .. 312
        /\ FileStarts[g][i] + Rooms[g][i] < \hFFFFFF
        /\ i # j => \/ FileStarts[g][i] + Rooms[g][i] <= FileStarts[g][j]
                    \/ FileStarts[g][j] + Rooms[g][j] <= FileStarts[g][i]

LEMMA FilesApart == \A g \in KnownGames : RoomsApart(g)
<1>1. RoomsApart("LBP1")
  BY SMT DEF RoomsApart, FileStarts, Rooms, Areas
<1>2. RoomsApart("LBP2")
  BY SMT DEF RoomsApart, FileStarts, Rooms, Areas
<1>3. RoomsApart("LBP3")
  BY SMT DEF RoomsApart, FileStarts, Rooms, Areas
<1>4. RoomsApart("LBP3_JP")
  BY SMT DEF RoomsApart, FileStarts, Rooms, Areas
<1> QED
  BY <1>1, <1>2, <1>3, <1>4, Zenon DEF KnownGames

\* What lbpdefs says is where the areas begin.
LEMMA DefinitionIs ==
    ASSUME NEW g \in KnownGames
    PROVE  LET d == Definition[g]
               at == FileStarts[g]
           IN  /\ d.join = at[1] /\ d.check = at[2] /\ d.agent = at[3] /\ d.http = at[4]
               /\ d.https = at[5] /\ d.digest = at[Areas(g)] /\ d.length = Words(g)
               /\ "live" \in DOMAIN d <=> Areas(g) = 8
               /\ Areas(g) = 8 => d.live = at[6] /\ d.presence = at[7]
<1>1. CASE g = "LBP1"
  BY <1>1, SMT DEF Definition, LBP1Definition, FileStarts, Areas, Words
<1>2. CASE g = "LBP2"
  BY <1>2, SMT DEF Definition, LBP2Definition, FileStarts, Areas, Words
<1>3. CASE g = "LBP3"
  BY <1>3, SMT DEF Definition, LBP3Definition, FileStarts, Areas, Words
<1>4. CASE g = "LBP3_JP"
  BY <1>4, SMT DEF Definition, LBP3JPDefinition, FileStarts, Areas, Words
<1> QED
  BY <1>1, <1>2, <1>3, <1>4 DEF KnownGames

\* Sequences of whatever.
IsSeq(s) == \E S : s \in Seq(S)

LEMMA Joining ==
    ASSUME NEW a, NEW b, IsSeq(a), IsSeq(b)
    PROVE  IsSeq(a \o b) /\ Made(a \o b, a, b)
<1>1. PICK S : a \in Seq(S)
  BY DEF IsSeq
<1>2. PICK T : b \in Seq(T)
  BY DEF IsSeq
<1>3. a \in Seq(S \union T) /\ b \in Seq(S \union T)
  BY <1>1, <1>2
<1> DEFINE U == S \union T
<1> HIDE DEF U
<1>4. a \in Seq(U) /\ b \in Seq(U)
  BY <1>3 DEF U
<1>5. a \o b \in Seq(U)
  BY <1>4
<1>6. Made(a \o b, a, b)
  BY <1>4, MadeOf
<1> QED
  BY <1>5, <1>6 DEF IsSeq

LEMMA Numbering ==
    ASSUME NEW n \in Nat, NEW f, f = [i \in 1 .. n |-> f[i]]
    PROVE  IsSeq(f) /\ Len(f) = n
<1> DEFINE S == {f[i] : i \in 1 .. n}
<1>1. \A i \in 1 .. n : f[i] \in S
  BY Zenon
<1> HIDE DEF S
<1>2. f \in [1 .. n -> S]
  BY <1>1, Zenon
<1>3. f \in Seq(S) /\ Len(f) = n
  BY <1>2
<1> QED
  BY <1>3 DEF IsSeq

\* The sequence of a set of at most one.
LEMMA OneByOne ==
    /\ SetToSeq({}) = <<>>
    /\ \A x : SetToSeq({x}) = <<x>>
<1>1. SetToSeq({}) = <<>>
  <2>1. Cardinality({}) = 0 /\ 1 .. 0 = {}
    <3>1. Cardinality({}) = 0
      BY FS_EmptySet
    <3>2. 1 .. 0 = {}
      BY SMT
    <3> QED
      BY <3>1, <3>2
  <2>2. \E f \in [{} -> {}] : IsInjective(f)
    <3>1. [i \in {} |-> i] \in [{} -> {}] /\ IsInjective([i \in {} |-> i])
      BY Zenon DEF IsInjective
    <3> QED
      BY <3>1, Zenon
  <2>3. SetToSeq({}) \in [{} -> {}]
    BY <2>1, <2>2, Zenon DEF SetToSeq
  <2> QED
    BY <2>3
<1>2. ASSUME NEW x PROVE SetToSeq({x}) = <<x>>
  <2>1. Cardinality({x}) = 1
    BY FS_Singleton
  <2>2. \E f \in [1 .. 1 -> {x}] : IsInjective(f)
    <3>1. [i \in 1 .. 1 |-> x] \in [1 .. 1 -> {x}] /\ IsInjective([i \in 1 .. 1 |-> x])
      BY SMT DEF IsInjective
    <3> QED
      BY <3>1, Zenon
  <2>3. SetToSeq({x}) \in [1 .. 1 -> {x}]
    BY <2>1, <2>2, Zenon DEF SetToSeq
  <2> QED
    BY <2>3
<1> QED
  BY <1>1, <1>2

\* The strings of a patch.
Primary == CHOOSE url \in Urls : url \in option.url
StringOf(name) ==
    CASE name = "agent" -> <<"P", "a", "t", "c", "h", "w", "o", "r", "k", "L", "B",
                             "P", Definition[game].digit, " ", "2", ".", "0">>
      [] name = "https" /\ option.https # {} -> CHOOSE url \in Urls : url \in option.https
      [] name = "digest" -> CHOOSE digest \in option.digest : TRUE
      [] OTHER -> Primary

\* The number of entries, and each of them by its number.
LastEntry == Base(game) + (IF option.digest = {} THEN Areas(game) - 3 ELSE Areas(game) - 2)
FileEntry(i) ==
    CASE i <= Words(game) ->
           Be32(FileStarts[game][1] + 4 * (i - 1), ForceJoin[game][i])
      [] i = Words(game) + 1 -> [type |-> "calloc", address |-> FileStarts[game][2]]
      [] i > Words(game) + 1 /\ i <= Base(game) ->
           Be32(0, ScriptHook[game][i - (Words(game) + 1)])
      [] OTHER -> CUtf8(FileStarts[game][i - Base(game) + 2],
                        StringOf(Names(game)[i - Base(game)]))

\* Where an entry with an address writes, and what.
Addressed(i) == i <= Words(game) + 1 \/ i > Base(game)
AreaOf(i) == CASE i <= Words(game) -> 1
               [] i = Words(game) + 1 -> 2
               [] OTHER -> i - Base(game) + 2
StartOf(i) == IF i <= Words(game) THEN FileStarts[game][1] + 4 * (i - 1)
              ELSE FileStarts[game][AreaOf(i)]
WrittenBy(i) ==
    CASE i <= Words(game) -> Code(<<ForceJoin[game][i]>>)
      [] i = Words(game) + 1 -> [k \in 0 .. 3 |-> <<"cave", k>>]
      [] OTHER -> Text(Chars(StringOf(Names(game)[i - Base(game)])),
                       Len(StringOf(Names(game)[i - Base(game)])) + 1)
SizeOf(i) == IF i <= Words(game) + 1 THEN 4
             ELSE Len(StringOf(Names(game)[i - Base(game)])) + 1

\* The words that have been put in the emulator's memory.
InCave == IF next <= Words(game) + 1 THEN 0
          ELSE IF next <= Base(game) THEN next - (Words(game) + 2)
          ELSE HookLength(game)

\* What is in memory is what the entries so far write, and all of it, and the words
\* without an address follow each other in the emulator's.
FileWritten ==
    /\ next \in 1 .. (LastEntry + 1)
    /\ stage = IF next = LastEntry + 1 THEN "done" ELSE "file"
    /\ DOMAIN memory \subseteq Nat
    /\ \A i \in 1 .. (next - 1) : Addressed(i) =>
          \A k \in 0 .. (SizeOf(i) - 1) : /\ StartOf(i) + k \in DOMAIN memory
                                          /\ memory[StartOf(i) + k] = WrittenBy(i)[k]
    /\ \A a \in DOMAIN memory : \E i \in 1 .. (next - 1) :
          Addressed(i) /\ a - StartOf(i) \in 0 .. (SizeOf(i) - 1)
    /\ cave = SubSeq(ScriptHook[game], 1, InCave)

\* What the generator was given.
FileGiven == game \in Games /\ option \in Servers

\* The inductive invariant: a file's installation has done nothing of what start
\* does, and the module's nothing of what the emulator does.
PatchFileInv ==
    /\ installer = "file" =>
          /\ FileGiven /\ FileWritten
          /\ DOMAIN pointer = {} /\ number = "unknown" /\ request = <<>>
    /\ installer = "module" => cave = <<>>

\* The strings that have room for themselves and their end: the live URL of LBP3
\* JP is 76 bytes before its https URL, and nothing else is written in the 312
\* bytes from a digest on, which is as much as a configuration can hold.
Fits == /\ \A url \in Urls : Len(url) <= 75
        /\ \A digest \in Digests : Len(digest) <= 311

LEMMA Counts ==
    ASSUME NEW g \in KnownGames
    PROVE  /\ Words(g) \in 16 .. 30 /\ HookLength(g) \in 6 .. 8
           /\ Base(g) = Words(g) + 1 + HookLength(g) /\ Areas(g) \in {6, 8}
<1>1. CASE g = "LBP1"
  BY <1>1, SMT DEF Words, HookLength, Base, Areas
<1>2. CASE g = "LBP2"
  BY <1>2, SMT DEF Words, HookLength, Base, Areas
<1>3. CASE g \in {"LBP3", "LBP3_JP"}
  BY <1>3, SMT DEF Words, HookLength, Base, Areas
<1> QED
  BY <1>1, <1>2, <1>3 DEF KnownGames

\* The room of the routine and the branch, and of the strings.
LEMMA CodeRooms ==
    ASSUME NEW g \in KnownGames
    PROVE  Rooms[g][1] = 4 * Words(g) /\ Rooms[g][2] = 4
<1>1. CASE g = "LBP1"
  BY <1>1, SMT DEF Words, Rooms
<1>2. CASE g = "LBP2"
  BY <1>2, SMT DEF Words, Rooms
<1>3. CASE g = "LBP3"
  BY <1>3, SMT DEF Words, Rooms
<1>4. CASE g = "LBP3_JP"
  BY <1>4, SMT DEF Words, Rooms
<1> QED
  BY <1>1, <1>2, <1>3, <1>4 DEF KnownGames

LEMMA TextRooms ==
    ASSUME NEW g \in KnownGames
    PROVE  /\ Rooms[g][3] = 18
           /\ \A i \in 4 .. (Areas(g) - 1) : Rooms[g][i] = 76
           /\ Rooms[g][Areas(g)] = 312
<1>1. CASE g = "LBP1"
  <2>1. Areas(g) = 6 /\ \A i \in 4 .. (6 - 1) : i = 4 \/ i = 5
    BY <1>1, SMT DEF Areas
  <2> QED
    BY <1>1, <2>1, SMT DEF Rooms
<1>2. CASE g = "LBP2"
  <2>1. Areas(g) = 6 /\ \A i \in 4 .. (6 - 1) : i = 4 \/ i = 5
    BY <1>2, SMT DEF Areas
  <2> QED
    BY <1>2, <2>1, SMT DEF Rooms
<1>3. CASE g = "LBP3"
  <2>1. Areas(g) = 8 /\ \A i \in 4 .. (8 - 1) : i = 4 \/ i = 5 \/ i = 6 \/ i = 7
    BY <1>3, SMT DEF Areas
  <2> QED
    BY <1>3, <2>1, SMT DEF Rooms
<1>4. CASE g = "LBP3_JP"
  <2>1. Areas(g) = 8 /\ \A i \in 4 .. (8 - 1) : i = 4 \/ i = 5 \/ i = 6 \/ i = 7
    BY <1>4, SMT DEF Areas
  <2> QED
    BY <1>4, <2>1, SMT DEF Rooms
<1> QED
  BY <1>1, <1>2, <1>3, <1>4 DEF KnownGames

\* What a server may be.
LEMMA Served ==
    ASSUME option \in Servers
    PROVE  /\ \E x \in Urls : option.url = {x} /\ Primary = x
           /\ option.https = {} \/ \E x \in Urls : option.https = {x}
           /\ option.digest = {} \/ \E x \in Digests : option.digest = {x}
<1>1. /\ option.url \in {{x} : x \in Urls}
      /\ option.https \in Optional(Urls) /\ option.digest \in Optional(Digests)
  BY DEF Servers
<1>2. PICK x \in Urls : option.url = {x}
  BY <1>1
<1>3. Primary = x
  BY <1>2, Zenon DEF Primary
<1> QED
  BY <1>1, <1>2, <1>3, Zenon DEF Optional

\* Five sequences, one after the other.
Five(t, a, b, c, d, e) ==
    /\ Len(a) \in Nat /\ Len(b) \in Nat /\ Len(c) \in Nat /\ Len(d) \in Nat
    /\ Len(e) \in Nat
    /\ Len(t) = Len(a) + Len(b) + Len(c) + Len(d) + Len(e)
    /\ \A k \in 1 .. Len(a) : t[k] = a[k]
    /\ \A k \in 1 .. Len(b) : t[Len(a) + k] = b[k]
    /\ \A k \in 1 .. Len(c) : t[Len(a) + Len(b) + k] = c[k]
    /\ \A k \in 1 .. Len(d) : t[Len(a) + Len(b) + Len(c) + k] = d[k]
    /\ \A k \in 1 .. Len(e) : t[Len(a) + Len(b) + Len(c) + Len(d) + k] = e[k]

LEMMA FiveParts ==
    ASSUME NEW a, NEW b, NEW c, NEW d, NEW e,
           IsSeq(a), IsSeq(b), IsSeq(c), IsSeq(d), IsSeq(e)
    PROVE  Five(a \o b \o c \o d \o e, a, b, c, d, e)
<1>0. \A s : IsSeq(s) => Len(s) \in Nat
  BY DEF IsSeq
<1> DEFINE p == a \o b
           q == p \o c
           r == q \o d
           t == r \o e
<1>1. IsSeq(p) /\ Made(p, a, b)
  BY Joining
<1> HIDE DEF p
<1>2. IsSeq(q) /\ Made(q, p, c)
  BY <1>1, Joining
<1> HIDE DEF q
<1>3. IsSeq(r) /\ Made(r, q, d)
  BY <1>2, Joining
<1> HIDE DEF r
<1>4. IsSeq(t) /\ Made(t, r, e)
  BY <1>3, Joining
<1> HIDE DEF t
<1>5. PICK i \in Nat, j \in Nat, k \in Nat, l \in Nat, m \in Nat :
        Len(a) = i /\ Len(b) = j /\ Len(c) = k /\ Len(d) = l /\ Len(e) = m
  BY <1>0, Zenon
<1>6. Len(p) = i + j /\ Len(q) = i + j + k /\ Len(r) = i + j + k + l
      /\ Len(t) = i + j + k + l + m
  BY <1>1, <1>2, <1>3, <1>4, <1>5, Zenon DEF Made
<1>7. /\ \A n \in 1 .. i : n \in 1 .. (i + j)
      /\ \A n \in 1 .. j : i + n \in 1 .. (i + j)
      /\ \A n \in 1 .. (i + j) : n \in 1 .. (i + j + k)
      /\ \A n \in 1 .. k : i + j + n \in 1 .. (i + j + k)
      /\ \A n \in 1 .. (i + j + k) : n \in 1 .. (i + j + k + l)
      /\ \A n \in 1 .. l : i + j + k + n \in 1 .. (i + j + k + l)
  BY SMT
<1>8. \A n \in 1 .. (i + j + k + l) : t[n] = r[n]
  BY <1>4, <1>6, Zenon DEF Made
<1>9. \A n \in 1 .. (i + j + k) : t[n] = q[n]
  BY <1>3, <1>6, <1>7, <1>8, Zenon DEF Made
<1>10. \A n \in 1 .. (i + j) : t[n] = p[n]
  BY <1>2, <1>6, <1>7, <1>9, Zenon DEF Made
<1>11. \A n \in 1 .. i : t[n] = a[n]
  BY <1>1, <1>5, <1>7, <1>10, Zenon DEF Made
<1>12. \A n \in 1 .. j : t[i + n] = b[n]
  <2>1. \A n \in 1 .. j : p[i + n] = b[n]
    BY <1>1, <1>5, Zenon DEF Made
  <2> QED
    BY <1>7, <1>10, <2>1, Zenon
<1>13. \A n \in 1 .. k : t[i + j + n] = c[n]
  <2>1. \A n \in 1 .. k : q[i + j + n] = c[n]
    BY <1>2, <1>5, <1>6, Zenon DEF Made
  <2> QED
    BY <1>7, <1>9, <2>1, Zenon
<1>14. \A n \in 1 .. l : t[i + j + k + n] = d[n]
  <2>1. \A n \in 1 .. l : r[i + j + k + n] = d[n]
    BY <1>3, <1>5, <1>6, Zenon DEF Made
  <2> QED
    BY <1>7, <1>8, <2>1, Zenon
<1>15. \A n \in 1 .. m : t[i + j + k + l + n] = e[n]
  BY <1>4, <1>5, <1>6, Zenon DEF Made
<1> QED
  BY <1>5, <1>6, <1>11, <1>12, <1>13, <1>14, <1>15, Zenon DEF t, r, q, p, Five

LEMMA Strings ==
    /\ StringOf("agent") = <<"P", "a", "t", "c", "h", "w", "o", "r", "k", "L", "B",
                             "P", Definition[game].digit, " ", "2", ".", "0">>
    /\ StringOf("http") = Primary /\ StringOf("live") = Primary
    /\ StringOf("presence") = Primary
    /\ StringOf("https") = IF option.https = {} THEN Primary
                           ELSE CHOOSE url \in Urls : url \in option.https
    /\ \A x : option.digest = {x} => StringOf("digest") = x
<1> DEFINE a == <<"P", "a", "t", "c", "h", "w", "o", "r", "k", "L", "B",
                  "P", Definition[game].digit, " ", "2", ".", "0">>
           s == CHOOSE url \in Urls : url \in option.https
           d == CHOOSE digest \in option.digest : TRUE
<1>1. \A name : StringOf(name) = CASE name = "agent" -> a
                                   [] name = "https" /\ option.https # {} -> s
                                   [] name = "digest" -> d
                                   [] OTHER -> Primary
  BY Zenon DEF StringOf
<1>2. \A x : option.digest = {x} => d = x
  BY Zenon
<1> HIDE DEF a, s, d
<1>3. StringOf("agent") = a
  BY <1>1, SMT
<1>4. StringOf("http") = Primary /\ StringOf("live") = Primary
      /\ StringOf("presence") = Primary
  BY <1>1, SMT
<1>5. StringOf("https") = IF option.https = {} THEN Primary ELSE s
  <2>1. CASE option.https = {}
    BY <1>1, <2>1, SMT
  <2>2. CASE option.https # {}
    BY <1>1, <2>2, SMT
  <2> QED
    BY <2>1, <2>2
<1>6. StringOf("digest") = d
  BY <1>1, SMT
<1> QED
  BY <1>2, <1>3, <1>4, <1>5, <1>6, Zenon DEF a, s

\* What of the routine's words and the hook's is put in the file.
RoutineOf(g, address) ==
    MakeOverwritePatch(address, SubSeq(TextSection, Symbol(Rank(g)),
                                       Symbol(Rank(g)) + Definition[g].length - 1))
IsRoutine(t, g, address) ==
    /\ IsSeq(t) /\ Len(t) = Words(g)
    /\ \A i \in 1 .. Words(g) : t[i] = Be32(address + 4 * (i - 1), ForceJoin[g][i])

LEMMA RoutineEntries ==
    ASSUME NEW g \in KnownGames, NEW address
    PROVE  IsRoutine(RoutineOf(g, address), g, address)
<1> DEFINE n == Words(g)
           join == Symbol(Rank(g))
           w == ForceJoin[g]
           t == MakeOverwritePatch(address,
                    SubSeq(TextSection, join, join + Definition[g].length - 1))
<1>1. n \in Nat /\ Len(w) = n /\ Definition[g].length = n
  <2>1. n \in 16 .. 30
    BY Counts
  <2>2. Len(w) = n
    <3>1. /\ Len(ForceJoin[g]) = ForceJoinLength[g] \div 4
          /\ ForceJoinLength[g] \div 4 =
               CASE g = "LBP1" -> 16 [] g = "LBP2" -> 30 [] OTHER -> 28
      BY JoinWhole
    <3> QED
      BY <3>1, Zenon DEF Words
  <2>3. Definition[g].length = n
    BY DefinitionIs, Zenon
  <2> QED
    BY <2>1, <2>2, <2>3
<1>2. SubSeq(TextSection, join, join + n - 1) = w
  BY <1>1, JoinCut
<1>3. t = MakeOverwritePatch(address, w)
  BY <1>1, <1>2, Zenon
<1> HIDE DEF n, w, join
<1>4. DOMAIN w = 1 .. n
  <2>1. \E S : w \in Seq(S)
    BY JoinWhole, Zenon DEF w
  <2> QED
    BY <1>1, <2>1
<1>5. t = [i \in 1 .. n |-> Be32(address + 4 * (i - 1), w[i])]
  BY <1>3, <1>4, Zenon DEF MakeOverwritePatch
<1> HIDE DEF t
<1>6. \A i \in 1 .. n : t[i] = Be32(address + 4 * (i - 1), w[i])
  BY <1>5, Zenon
<1>7. t = [i \in 1 .. n |-> t[i]]
  BY <1>5, <1>6, Zenon
<1>8. IsSeq(t) /\ Len(t) = n
  BY <1>1, <1>7, Numbering
<1> QED
  BY <1>6, <1>8, Zenon DEF t, n, w, join, RoutineOf, IsRoutine

HookOf(g, address) == MakeCodePatch(address, GetHook(Symbol(4 + Rank(g))))
IsHook(t, g, address) ==
    /\ IsSeq(t) /\ Len(t) = 1 + HookLength(g)
    /\ t[1] = [type |-> "calloc", address |-> address]
    /\ \A i \in 1 .. HookLength(g) : t[1 + i] = Be32(0, ScriptHook[g][i])

LEMMA HookEntries ==
    ASSUME NEW g \in KnownGames, NEW address
    PROVE  IsHook(HookOf(g, address), g, address)
<1> DEFINE n == HookLength(g)
           w == ScriptHook[g]
           c == [type |-> "calloc", address |-> address]
           a == <<c>>
           b == [i \in 1 .. n |-> Be32(0, w[i])]
           t == MakeCodePatch(address, GetHook(Symbol(4 + Rank(g))))
<1>1. n \in 6 .. 8 /\ Len(w) = n
  BY Counts, HookWhole, Zenon DEF EndsTwice
<1>2. GetHook(Symbol(4 + Rank(g))) = w
  BY HookCut
<1> HIDE DEF n, w
<1>3. DOMAIN w = 1 .. n
  <2>1. \E S : w \in Seq(S)
    BY HookWhole, Zenon DEF w
  <2> QED
    BY <1>1, <2>1
<1>4. t = a \o b
  BY <1>2, <1>3, Zenon DEF MakeCodePatch
<1> HIDE DEF t
<1>5. \A i \in 1 .. n : b[i] = Be32(0, w[i])
  BY Zenon
<1>6. b = [i \in 1 .. n |-> b[i]]
  OBVIOUS
<1> HIDE DEF b, c
<1>7. IsSeq(b) /\ Len(b) = n
  <2>1. n \in Nat
    BY <1>1
  <2> QED
    BY <1>6, <2>1, Numbering
<1>8. IsSeq(a) /\ Len(a) = 1 /\ a[1] = c
  <2>1. a \in Seq({c}) /\ Len(a) = 1 /\ a[1] = c
    OBVIOUS
  <2> QED
    BY <2>1, Zenon DEF IsSeq
<1> HIDE DEF a
<1>9. IsSeq(t) /\ Made(t, a, b)
  BY <1>4, <1>7, <1>8, Joining
<1>10. Len(t) = 1 + n /\ t[1] = c /\ \A i \in 1 .. n : t[1 + i] = b[i]
  <2>1. 1 \in 1 .. 1
    OBVIOUS
  <2> QED
    BY <1>7, <1>8, <1>9, <2>1, Zenon DEF Made
<1> QED
  BY <1>5, <1>9, <1>10, Zenon DEF t, c, n, w, HookOf, IsHook

\* The last sequences, by the entries there are.
LEMMA Tuples ==
    ASSUME NEW x, NEW y, NEW z
    PROVE  /\ IsSeq(<<>>) /\ Len(<<>>) = 0
           /\ IsSeq(<<x>>) /\ Len(<<x>>) = 1 /\ <<x>>[1] = x
           /\ IsSeq(<<x, y>>) /\ Len(<<x, y>>) = 2
           /\ <<x, y>>[1] = x /\ <<x, y>>[2] = y
           /\ IsSeq(<<x, y, z>>) /\ Len(<<x, y, z>>) = 3
           /\ <<x, y, z>>[1] = x /\ <<x, y, z>>[2] = y /\ <<x, y, z>>[3] = z
<1>1. /\ <<>> \in Seq({x}) /\ <<x>> \in Seq({x}) /\ <<x, y>> \in Seq({x, y})
      /\ <<x, y, z>> \in Seq({x, y, z})
  BY SMT
<1>2. IsSeq(<<>>) /\ IsSeq(<<x>>) /\ IsSeq(<<x, y>>) /\ IsSeq(<<x, y, z>>)
  BY <1>1, Zenon DEF IsSeq
<1>3. /\ Len(<<>>) = 0 /\ Len(<<x>>) = 1 /\ <<x>>[1] = x
      /\ Len(<<x, y>>) = 2 /\ <<x, y>>[1] = x /\ <<x, y>>[2] = y
      /\ Len(<<x, y, z>>) = 3
      /\ <<x, y, z>>[1] = x /\ <<x, y, z>>[2] = y /\ <<x, y, z>>[3] = z
  BY SMT
<1> QED
  BY <1>2, <1>3, Zenon

\* The strings of a patch, behind the words, by their numbers.
LEMMA StringEntries ==
    ASSUME game \in KnownGames, option \in Servers,
           NEW k \in 1 .. (Areas(game) - 2), k < Areas(game) - 2 \/ option.digest # {}
    PROVE  LET d == Definition[game]
               at == FileStarts[game][k + 2]
               name == Names(game)[k]
           IN  CUtf8(at, StringOf(name)) =
                 CASE k = 1 -> CUtf8(d.agent,
                                     <<"P", "a", "t", "c", "h", "w", "o", "r", "k", "L",
                                       "B", "P", d.digit, " ", "2", ".", "0">>)
                   [] k = 2 -> CUtf8(d.http, Primary)
                   [] k = 3 -> CUtf8(d.https,
                                     IF option.https = {} THEN Primary
                                     ELSE CHOOSE url \in Urls : url \in option.https)
                   [] k = 4 /\ Areas(game) = 8 -> CUtf8(d.live, Primary)
                   [] k = 5 /\ Areas(game) = 8 -> CUtf8(d.presence, Primary)
                   [] OTHER -> CUtf8(d.digest, CHOOSE digest \in option.digest : TRUE)
<1> DEFINE d == Definition[game]
           at == FileStarts[game]
           a == <<"P", "a", "t", "c", "h", "w", "o", "r", "k", "L", "B", "P",
                  d.digit, " ", "2", ".", "0">>
           s == IF option.https = {} THEN Primary
                ELSE CHOOSE url \in Urls : url \in option.https
           v == CHOOSE digest \in option.digest : TRUE
           n == Areas(game)
           names == Names(game)
<1>1. /\ StringOf("agent") = a /\ StringOf("http") = Primary /\ StringOf("https") = s
      /\ StringOf("live") = Primary /\ StringOf("presence") = Primary
  BY Strings, Zenon
<1>2. option.digest # {} => StringOf("digest") = v
  <2> SUFFICES ASSUME option.digest # {} PROVE StringOf("digest") = v
    OBVIOUS
  <2>1. PICK x : option.digest = {x}
    BY Served
  <2>2. StringOf("digest") = x
    BY <2>1, Strings, Zenon
  <2>3. v = x
    BY <2>1, Zenon
  <2> QED
    BY <2>2, <2>3
<1>3. /\ d.agent = at[3] /\ d.http = at[4] /\ d.https = at[5] /\ d.digest = at[n]
      /\ n = 8 => d.live = at[6] /\ d.presence = at[7]
  BY DefinitionIs, Zenon
<1>4. /\ n \in {6, 8} /\ names[1] = "agent" /\ names[2] = "http" /\ names[3] = "https"
      /\ names[n - 2] = "digest"
      /\ n = 8 => names[4] = "live" /\ names[5] = "presence"
  <2>1. CASE game \in {"LBP1", "LBP2"}
    BY <2>1, SMT DEF Areas, Names
  <2>2. CASE ~(game \in {"LBP1", "LBP2"})
    BY <2>2, SMT DEF Areas, Names
  <2> QED
    BY <2>1, <2>2
<1> HIDE DEF d, at, a, s, v, n, names
<1> DEFINE Is(address, string) == CUtf8(at[k + 2], StringOf(names[k])) = CUtf8(address, string)
<1> SUFFICES CUtf8(at[k + 2], StringOf(names[k])) =
               CASE k = 1 -> CUtf8(d.agent, a)
                 [] k = 2 -> CUtf8(d.http, Primary)
                 [] k = 3 -> CUtf8(d.https, s)
                 [] k = 4 /\ n = 8 -> CUtf8(d.live, Primary)
                 [] k = 5 /\ n = 8 -> CUtf8(d.presence, Primary)
                 [] OTHER -> CUtf8(d.digest, v)
  BY Zenon DEF d, at, a, s, v, n, names
<1>5. k \in 1 .. (n - 2) /\ (k < n - 2 \/ option.digest # {})
  BY DEF n
<1>6. k = 1 \/ k = 2 \/ k = 3 \/ (k = 4 /\ n = 8) \/ (k = 5 /\ n = 8) \/ k = n - 2
  BY <1>4, <1>5
<1>7. CASE k = 1
  BY <1>1, <1>3, <1>4, <1>7
<1>8. CASE k = 2
  BY <1>1, <1>3, <1>4, <1>8
<1>9. CASE k = 3
  BY <1>1, <1>3, <1>4, <1>9
<1>10. CASE k = 4 /\ n = 8
  BY <1>1, <1>3, <1>4, <1>10
<1>11. CASE k = 5 /\ n = 8
  BY <1>1, <1>3, <1>4, <1>11
<1>12. CASE k = n - 2
  <2>1. /\ k + 2 = n /\ k # 1 /\ k # 2 /\ k # 3 /\ ~(k = 4 /\ n = 8)
        /\ ~(k = 5 /\ n = 8) /\ option.digest # {}
    BY <1>4, <1>5, <1>12
  <2>2. at[k + 2] = d.digest /\ StringOf(names[k]) = v
    BY <1>2, <1>3, <1>4, <1>12, <2>1, Zenon
  <2> QED
    BY <2>1, <2>2, Zenon
<1> QED
  BY <1>6, <1>7, <1>8, <1>9, <1>10, <1>11, <1>12

LEMMA FileTable ==
    ASSUME game \in KnownGames, option \in Servers
    PROVE  /\ Len(MakePatches) = LastEntry
           /\ \A i \in 1 .. LastEntry : MakePatches[i] = FileEntry(i)
<1> DEFINE d == Definition[game]
           at == FileStarts[game]
           v == CHOOSE digest \in option.digest : TRUE
           https == IF option.https = {} THEN Primary
                    ELSE CHOOSE url \in Urls : url \in option.https
           x1 == CUtf8(d.agent, <<"P", "a", "t", "c", "h", "w", "o", "r", "k", "L",
                                  "B", "P", d.digit, " ", "2", ".", "0">>)
           x2 == CUtf8(d.http, Primary)
           x3 == CUtf8(d.https, https)
           x4 == CUtf8(d.live, Primary)
           x5 == CUtf8(d.presence, Primary)
           x6 == CUtf8(d.digest, v)
           a == RoutineOf(game, d.join)
           b == HookOf(game, d.check)
           c == <<x1, x2, x3>>
           live == IF "live" \in DOMAIN d THEN <<x4, x5>> ELSE <<>>
           last == SetToSeq({CUtf8(d.digest, digest) : digest \in option.digest})
           t == a \o b \o c \o live \o last
           w == Words(game)
           h == HookLength(game)
           n == Areas(game)
<1>1. MakePatches = t
  BY Zenon DEF MakePatches, Primary, RoutineOf, HookOf
<1>2. /\ d.join = at[1] /\ d.check = at[2] /\ ("live" \in DOMAIN d <=> n = 8)
  BY DefinitionIs, Zenon
<1>3. /\ IsSeq(a) /\ Len(a) = w
      /\ \A i \in 1 .. w : a[i] = Be32(at[1] + 4 * (i - 1), ForceJoin[game][i])
  <2>1. IsRoutine(a, game, d.join)
    BY RoutineEntries
  <2> HIDE DEF a
  <2> QED
    BY <1>2, <2>1, Zenon DEF IsRoutine
<1>4. /\ IsSeq(b) /\ Len(b) = 1 + h
      /\ b[1] = [type |-> "calloc", address |-> at[2]]
      /\ \A i \in 1 .. h : b[1 + i] = Be32(0, ScriptHook[game][i])
  <2>1. IsHook(b, game, d.check)
    BY HookEntries
  <2> HIDE DEF b
  <2> QED
    BY <1>2, <2>1, Zenon DEF IsHook
<1>5. /\ IsSeq(c) /\ Len(c) = 3 /\ c[1] = x1 /\ c[2] = x2 /\ c[3] = x3
  <2> HIDE DEF x1, x2, x3
  <2> QED
    BY Tuples, Zenon
<1>6. /\ IsSeq(live) /\ Len(live) = n - 6
      /\ n = 8 => live[1] = x4 /\ live[2] = x5
  <2> HIDE DEF d, x4, x5
  <2>1. CASE n = 8
    <3>1. live = <<x4, x5>>
      BY <1>2, <2>1, Zenon
    <3>2. /\ IsSeq(<<x4, x5>>) /\ Len(<<x4, x5>>) = 2
          /\ <<x4, x5>>[1] = x4 /\ <<x4, x5>>[2] = x5
      BY Tuples, Zenon
    <3> HIDE DEF live
    <3>3. n - 6 = 2
      BY <2>1
    <3> QED
      BY <3>1, <3>2, <3>3, Zenon
  <2>2. CASE n # 8
    <3>1. live = <<>>
      BY <1>2, <2>2, Zenon
    <3>2. IsSeq(<<>>) /\ Len(<<>>) = 0
      BY Tuples, Zenon
    <3> HIDE DEF live
    <3>3. n = 6
      BY <2>2, Counts
    <3>4. n - 6 = 0
      BY <3>3
    <3> QED
      BY <2>2, <3>1, <3>2, <3>4, Zenon
  <2> QED
    BY <2>1, <2>2
<1>7. /\ IsSeq(last) /\ Len(last) = IF option.digest = {} THEN 0 ELSE 1
      /\ option.digest # {} => last[1] = x6
  <2> HIDE DEF d
  <2>1. CASE option.digest = {}
    <3>1. {CUtf8(d.digest, digest) : digest \in option.digest} = {}
      BY <2>1
    <3>2. last = <<>>
      BY <3>1, OneByOne, Zenon
    <3> HIDE DEF last
    <3> QED
      BY <2>1, <3>2, Tuples
  <2>2. CASE option.digest # {}
    <3>1. PICK y : option.digest = {y}
      BY <2>2, Served
    <3>2. v = y
      BY <3>1, Zenon
    <3>3. {CUtf8(d.digest, digest) : digest \in option.digest} = {x6}
      BY <3>1, <3>2, Zenon
    <3>4. last = <<x6>>
      BY <3>3, OneByOne, Zenon
    <3> HIDE DEF last, x6
    <3> QED
      BY <2>2, <3>4, Tuples
  <2> QED
    BY <2>1, <2>2
<1>8. /\ w \in 16 .. 30 /\ h \in 6 .. 8 /\ n \in {6, 8} /\ Base(game) = w + 1 + h
  BY Counts, Zenon
<1> HIDE DEF d, at, https, v, x1, x2, x3, x4, x5, x6, a, b, c, live, last, w, h, n
<1>9. /\ Len(t) = w + (1 + h) + 3 + (n - 6) + Len(last)
      /\ \A k \in 1 .. w : t[k] = a[k]
      /\ \A k \in 1 .. (1 + h) : t[w + k] = b[k]
      /\ \A k \in 1 .. 3 : t[w + (1 + h) + k] = c[k]
      /\ \A k \in 1 .. (n - 6) : t[w + (1 + h) + 3 + k] = live[k]
      /\ \A k \in 1 .. Len(last) : t[w + (1 + h) + 3 + (n - 6) + k] = last[k]
  <2>1. /\ Len(t) = Len(a) + Len(b) + Len(c) + Len(live) + Len(last)
        /\ \A k \in 1 .. Len(a) : t[k] = a[k]
        /\ \A k \in 1 .. Len(b) : t[Len(a) + k] = b[k]
        /\ \A k \in 1 .. Len(c) : t[Len(a) + Len(b) + k] = c[k]
        /\ \A k \in 1 .. Len(live) : t[Len(a) + Len(b) + Len(c) + k] = live[k]
        /\ \A k \in 1 .. Len(last) :
              t[Len(a) + Len(b) + Len(c) + Len(live) + k] = last[k]
    <3>1. Five(t, a, b, c, live, last)
      BY <1>3, <1>4, <1>5, <1>6, <1>7, FiveParts, Zenon
    <3> HIDE DEF t
    <3> QED
      BY <3>1, Zenon DEF Five
  <2> HIDE DEF t
  <2> QED
    BY <1>3, <1>4, <1>5, <1>6, <2>1, Zenon
<1> HIDE DEF t
<1>10. Len(t) = LastEntry
  BY <1>7, <1>8, <1>9 DEF LastEntry, n
<1>11. ASSUME NEW i \in 1 .. LastEntry
       PROVE  t[i] = FileEntry(i)
  <2>1. LastEntry = w + 1 + h + (IF option.digest = {} THEN n - 3 ELSE n - 2)
    BY <1>8, Zenon DEF LastEntry, n
  <2> DEFINE word == Be32(at[1] + 4 * (i - 1), ForceJoin[game][i])
             branch == [type |-> "calloc", address |-> at[2]]
             more == Be32(0, ScriptHook[game][i - (w + 1)])
             string == CUtf8(at[i - Base(game) + 2], StringOf(Names(game)[i - Base(game)]))
  <2>2. FileEntry(i) = CASE i <= w -> word
                         [] i = w + 1 -> branch
                         [] i > w + 1 /\ i <= Base(game) -> more
                         [] OTHER -> string
    BY Zenon DEF FileEntry, w, at
  <2>3. CASE i <= w
    <3>1. i \in 1 .. w
      BY <1>8, <2>1, <2>3
    <3>2. t[i] = word
      BY <1>3, <1>9, <3>1, Zenon
    <3>3. ~(i = w + 1) /\ ~(i > w + 1 /\ i <= Base(game))
      BY <1>8, <2>3, <3>1
    <3> HIDE DEF word, branch, more, string
    <3> QED
      BY <2>2, <2>3, <3>2, <3>3, Zenon
  <2>4. CASE i = w + 1
    <3>1. 1 \in 1 .. (1 + h)
      BY <1>8
    <3>2. t[i] = branch
      BY <1>4, <1>9, <2>4, <3>1, Zenon
    <3>3. ~(i <= w) /\ ~(i > w + 1 /\ i <= Base(game))
      BY <1>8, <2>4
    <3> HIDE DEF word, branch, more, string
    <3> QED
      BY <2>2, <2>4, <3>2, <3>3, Zenon
  <2>5. CASE i > w + 1 /\ i <= Base(game)
    <3> DEFINE k == i - (w + 1)
    <3>1. k \in 1 .. h /\ 1 + k \in 1 .. (1 + h) /\ w + (1 + k) = i
      BY <1>8, <2>1, <2>5
    <3> HIDE DEF k
    <3>2. t[w + (1 + k)] = b[1 + k] /\ b[1 + k] = Be32(0, ScriptHook[game][k])
      BY <1>4, <1>9, <3>1, Zenon
    <3>3. t[i] = more
      BY <3>1, <3>2, Zenon DEF k
    <3>4. ~(i <= w) /\ ~(i = w + 1)
      BY <1>8, <2>5
    <3> HIDE DEF word, branch, more, string
    <3> QED
      BY <2>2, <2>5, <3>3, <3>4, Zenon
  <2>6. CASE i > Base(game)
    <3> DEFINE k == i - Base(game)
    <3>1. /\ k \in 1 .. (n - 2) /\ (k < n - 2 \/ option.digest # {})
          /\ i - Base(game) + 2 = k + 2 /\ i = w + (1 + h) + k
      BY <1>8, <2>1, <2>6
    <3>2. ~(i <= w) /\ ~(i = w + 1) /\ ~(i > w + 1 /\ i <= Base(game))
      BY <1>8, <2>1, <2>6
    <3>3. FileEntry(i) = string
      <4> HIDE DEF word, branch, more, string
      <4> QED
        BY <2>2, <3>2, Zenon
    <3> HIDE DEF k
    <3>4. string = CUtf8(at[k + 2], StringOf(Names(game)[k]))
      BY <3>1, Zenon DEF k
    <3>5. CUtf8(at[k + 2], StringOf(Names(game)[k])) =
            CASE k = 1 -> x1 [] k = 2 -> x2 [] k = 3 -> x3
              [] k = 4 /\ n = 8 -> x4 [] k = 5 /\ n = 8 -> x5 [] OTHER -> x6
      <4>1. k \in 1 .. (Areas(game) - 2) /\ (k < Areas(game) - 2 \/ option.digest # {})
        BY <3>1, Zenon DEF n
      <4> QED
        BY <4>1, StringEntries, Zenon DEF at, n, d, x1, x2, x3, x4, x5, x6, https, v
    <3>6. t[i] = CASE k = 1 -> x1 [] k = 2 -> x2 [] k = 3 -> x3
                   [] k = 4 /\ n = 8 -> x4 [] k = 5 /\ n = 8 -> x5 [] OTHER -> x6
      <4>1. CASE k \in 1 .. 3
        <5>1. t[i] = c[k]
          BY <1>9, <3>1, <4>1, Zenon
        <5> QED
          BY <1>5, <4>1, <5>1
      <4>2. CASE k \in 4 .. 5 /\ n = 8
        <5> DEFINE j == k - 3
        <5>1. j \in 1 .. (n - 6) /\ i = w + (1 + h) + 3 + j /\ k = 3 + j /\ (j = 1 \/ j = 2)
          BY <1>8, <3>1, <4>2
        <5> HIDE DEF j
        <5>2. t[i] = live[j]
          BY <1>9, <5>1, Zenon
        <5> QED
          BY <1>6, <4>2, <5>1, <5>2
      <4>3. CASE k = n - 2
        <5>1. option.digest # {} /\ Len(last) = 1 /\ last[1] = x6
          BY <1>7, <3>1, <4>3
        <5>2. i = w + (1 + h) + 3 + (n - 6) + 1 /\ 1 \in 1 .. 1
          BY <1>8, <3>1, <4>3
        <5>3. t[i] = x6
          BY <1>9, <5>1, <5>2, Zenon
        <5>4. /\ k # 1 /\ k # 2 /\ k # 3 /\ ~(k = 4 /\ n = 8) /\ ~(k = 5 /\ n = 8)
          BY <1>8, <4>3
        <5> QED
          BY <5>3, <5>4
      <4>4. k \in 1 .. 3 \/ (k \in 4 .. 5 /\ n = 8) \/ k = n - 2
        BY <1>8, <3>1
      <4> QED
        BY <4>1, <4>2, <4>3, <4>4
    <3> QED
      BY <3>3, <3>4, <3>5, <3>6, Zenon
  <2>7. i <= w \/ i = w + 1 \/ (i > w + 1 /\ i <= Base(game)) \/ i > Base(game)
    BY <1>8, <2>1
  <2> QED
    BY <2>3, <2>4, <2>5, <2>6, <2>7
<1> QED
  BY <1>1, <1>10, <1>11, Zenon

-------------------------------------------------------------------------------
(* What each entry writes, and where there is room for it.                 *)

\* The fields of the entries.
LEMMA Fields ==
    /\ \A a, w : /\ Be32(a, w).type = "be32" /\ Be32(a, w).address = a
                 /\ Be32(a, w).word = w
    /\ \A a, s : /\ CUtf8(a, s).type = "cutf8" /\ CUtf8(a, s).address = a
                 /\ CUtf8(a, s).string = s
<1>1. \A a, w : /\ Be32(a, w).type = "be32" /\ Be32(a, w).address = a
                /\ Be32(a, w).word = w
  BY Zenon DEF Be32
<1>2. \A a, s : /\ CUtf8(a, s).type = "cutf8" /\ CUtf8(a, s).address = a
                /\ CUtf8(a, s).string = s
  BY Zenon DEF CUtf8
<1> QED
  BY <1>1, <1>2, Zenon

\* How many entries there are.
LEMMA LastIs ==
    ASSUME game \in KnownGames
    PROVE  /\ Words(game) \in 16 .. 30 /\ HookLength(game) \in 6 .. 8
           /\ Base(game) = Words(game) + 1 + HookLength(game)
           /\ Areas(game) \in {6, 8}
           /\ LastEntry = Base(game) + Areas(game) - (IF option.digest = {} THEN 3 ELSE 2)
           /\ LastEntry \in Nat /\ Base(game) \in Nat /\ Base(game) < LastEntry
<1>1. /\ Words(game) \in 16 .. 30 /\ HookLength(game) \in 6 .. 8
      /\ Base(game) = Words(game) + 1 + HookLength(game) /\ Areas(game) \in {6, 8}
  BY Counts, Zenon
<1>2. LastEntry = Base(game) + Areas(game) - (IF option.digest = {} THEN 3 ELSE 2)
  BY <1>1, SMT DEF LastEntry
<1> QED
  BY <1>1, <1>2

\* The area an entry writes to.
LEMMA AreaIs ==
    ASSUME game \in KnownGames, NEW i \in 1 .. LastEntry, Addressed(i)
    PROVE  /\ AreaOf(i) \in 1 .. Areas(game)
           /\ StartOf(i) \in Nat /\ StartOf(i) > 0
           /\ i <= Words(game) => StartOf(i) = FileStarts[game][1] + 4 * (i - 1)
           /\ i > Words(game) => StartOf(i) = FileStarts[game][AreaOf(i)]
<1> DEFINE n == Areas(game)
           w == Words(game)
           at == FileStarts[game]
           base == Base(game)
<1>1. /\ w \in 16 .. 30 /\ base \in Nat /\ base > w + 1 /\ n \in {6, 8}
      /\ LastEntry <= base + n - 2 /\ LastEntry \in Nat
  BY LastIs
<1>2. \A j \in 1 .. n : at[j] \in Nat /\ at[j] > 0
  BY FilesApart, SMT DEF RoomsApart
<1>3. i <= w + 1 \/ i > base
  BY DEF Addressed
<1>4. AreaOf(i) = IF i <= w THEN 1 ELSE IF i = w + 1 THEN 2 ELSE i - base + 2
  <2>1. AreaOf(i) = CASE i <= w -> 1 [] i = w + 1 -> 2 [] OTHER -> i - base + 2
    BY Zenon DEF AreaOf
  <2> HIDE DEF w, base
  <2>2. ~(i <= w /\ i = w + 1)
    BY <1>1
  <2> QED
    BY <2>1, <2>2, Zenon
<1>5. StartOf(i) = IF i <= w THEN at[1] + 4 * (i - 1) ELSE at[AreaOf(i)]
  BY Zenon DEF StartOf
<1> HIDE DEF n, w, at, base
<1>6. AreaOf(i) \in 1 .. n
  BY <1>1, <1>3, <1>4
<1>7. 1 \in 1 .. n
  BY <1>1
<1>8. at[1] \in Nat /\ at[1] > 0 /\ at[AreaOf(i)] \in Nat /\ at[AreaOf(i)] > 0
  BY <1>2, <1>6, <1>7, Zenon
<1>9. StartOf(i) \in Nat /\ StartOf(i) > 0
  BY <1>1, <1>5, <1>8
<1> QED
  BY <1>1, <1>5, <1>6, <1>9 DEF n, w, at

\* One entry of the file.
LEMMA EntryEffect ==
    ASSUME game \in KnownGames, option \in Servers,
           next \in 1 .. (LastEntry + 1), stage = IF next = LastEntry + 1 THEN "done" ELSE "file",
           ApplyEntry
    PROVE  /\ next \in 1 .. LastEntry /\ next' = next + 1
           /\ stage' = IF next = LastEntry THEN "done" ELSE "file"
           /\ IF Addressed(next)
              THEN /\ Write(StartOf(next), WrittenBy(next))
                   /\ cave' = IF next = Words(game) + 1 THEN <<>> ELSE cave
              ELSE /\ UNCHANGED memory
                   /\ cave' = Append(cave, ScriptHook[game][next - (Words(game) + 1)])
<1> DEFINE w == Words(game)
           base == Base(game)
           at == FileStarts[game]
<1>1. /\ w \in 16 .. 30 /\ base \in Nat /\ base > w + 1 /\ LastEntry \in Nat /\ base < LastEntry
  BY LastIs
<1>2. stage = "file" /\ next' = next + 1
  BY Zenon DEF ApplyEntry
<1>3. next \in 1 .. LastEntry
  BY <1>1, <1>2
<1> DEFINE entry == MakePatches[next]
<1>4. /\ \/ /\ entry.type = "be32" /\ entry.address # 0
            /\ Write(entry.address, Code(<<entry.word>>))
            /\ UNCHANGED cave
         \/ /\ entry.type = "be32" /\ entry.address = 0
            /\ cave' = Append(cave, entry.word)
            /\ UNCHANGED memory
         \/ /\ entry.type = "calloc"
            /\ Write(entry.address, [k \in 0..3 |-> <<"cave", k>>])
            /\ cave' = <<>>
         \/ /\ entry.type = "cutf8"
            /\ Write(entry.address,
                     Text(Chars(entry.string), Len(entry.string) + 1))
            /\ UNCHANGED cave
      /\ stage' = IF next = Len(MakePatches) THEN "done" ELSE stage
  BY Zenon DEF ApplyEntry
<1>5. Len(MakePatches) = LastEntry /\ entry = FileEntry(next)
  BY <1>3, FileTable, Zenon
<1> HIDE DEF entry
<1>6. \/ /\ entry.type = "be32" /\ entry.address # 0
         /\ Write(entry.address, Code(<<entry.word>>)) /\ cave' = cave
      \/ /\ entry.type = "be32" /\ entry.address = 0
         /\ cave' = Append(cave, entry.word) /\ UNCHANGED memory
      \/ /\ entry.type = "calloc"
         /\ Write(entry.address, [k \in 0..3 |-> <<"cave", k>>]) /\ cave' = <<>>
      \/ /\ entry.type = "cutf8"
         /\ Write(entry.address, Text(Chars(entry.string), Len(entry.string) + 1))
         /\ cave' = cave
  BY <1>4, Zenon
<1>7. CASE next <= w
  <2>0. next # w + 1 /\ ~(next > w + 1 /\ next <= base)
    BY <1>1, <1>3, <1>7
  <2>1. /\ entry.type = "be32" /\ entry.address = at[1] + 4 * (next - 1)
        /\ entry.word = ForceJoin[game][next]
    <3>1. FileEntry(next) = Be32(at[1] + 4 * (next - 1), ForceJoin[game][next])
      BY <1>7, <2>0, Zenon DEF FileEntry
    <3> QED
      BY <1>5, <3>1, Fields
  <2>2. Addressed(next)
    BY <1>1, <1>3, <1>7 DEF Addressed
  <2>3. StartOf(next) = at[1] + 4 * (next - 1) /\ at[1] + 4 * (next - 1) # 0
    <3>1. StartOf(next) = at[1] + 4 * (next - 1)
      BY <1>7, Zenon DEF StartOf
    <3>2. StartOf(next) \in Nat /\ StartOf(next) > 0
      BY <1>3, <2>2, AreaIs
    <3> QED
      BY <3>1, <3>2
  <2>4. WrittenBy(next) = Code(<<ForceJoin[game][next]>>)
    BY <1>7, <2>0, Zenon DEF WrittenBy
  <2>5. Write(StartOf(next), WrittenBy(next)) /\ cave' = cave
    <3> HIDE DEF at, w, base
    <3> QED
      BY <1>6, <2>1, <2>3, <2>4
  <2>6. next # w + 1
    BY <1>1, <1>3, <1>7
  <2> QED
    BY <1>2, <1>3, <1>4, <1>5, <2>2, <2>5, <2>6, Zenon
<1>8. CASE next = w + 1
  <2>0. ~(next <= w) /\ ~(next > w + 1 /\ next <= base)
    BY <1>1, <1>8
  <2>1. entry.type = "calloc" /\ entry.address = at[2]
    <3>1. FileEntry(next) = [type |-> "calloc", address |-> at[2]]
      BY <1>8, <2>0, Zenon DEF FileEntry
    <3> QED
      BY <1>5, <3>1
  <2>2. Addressed(next)
    BY <1>1, <1>3, <1>8 DEF Addressed
  <2>3. StartOf(next) = at[2]
    <3>1. AreaOf(next) = 2
      BY <1>8, <2>0, Zenon DEF AreaOf
    <3> QED
      BY <2>0, <3>1, Zenon DEF StartOf
  <2>4. WrittenBy(next) = [k \in 0 .. 3 |-> <<"cave", k>>]
    BY <1>8, <2>0, Zenon DEF WrittenBy
  <2>5. Write(StartOf(next), WrittenBy(next)) /\ cave' = <<>>
    <3> HIDE DEF at, w, base
    <3> QED
      BY <1>6, <2>1, <2>3, <2>4
  <2> QED
    BY <1>2, <1>3, <1>4, <1>5, <1>8, <2>2, <2>5, Zenon
<1>9. CASE next > w + 1 /\ next <= base
  <2>0. ~(next <= w) /\ next # w + 1 /\ ~(next <= w + 1) /\ ~(next > base)
    BY <1>1, <1>3, <1>9
  <2>1. /\ entry.type = "be32" /\ entry.address = 0
        /\ entry.word = ScriptHook[game][next - (w + 1)]
    <3>1. FileEntry(next) = Be32(0, ScriptHook[game][next - (w + 1)])
      BY <1>9, <2>0, Zenon DEF FileEntry
    <3> QED
      BY <1>5, <3>1, Fields
  <2>2. ~Addressed(next)
    BY <2>0, Zenon DEF Addressed
  <2>3. cave' = Append(cave, ScriptHook[game][next - (w + 1)]) /\ UNCHANGED memory
    BY <1>6, <2>1, Zenon
  <2> QED
    BY <1>2, <1>3, <1>4, <1>5, <2>2, <2>3, Zenon
<1>10. CASE next > base
  <2>0. ~(next <= w) /\ next # w + 1 /\ ~(next > w + 1 /\ next <= base)
    BY <1>1, <1>3, <1>10
  <2> DEFINE s == StringOf(Names(game)[next - base])
  <2>1. /\ entry.type = "cutf8" /\ entry.address = at[next - base + 2]
        /\ entry.string = s
    <3>1. FileEntry(next) = CUtf8(at[next - base + 2], s)
      BY <2>0, Zenon DEF FileEntry
    <3> QED
      BY <1>5, <3>1, Fields
  <2>2. Addressed(next)
    BY <1>10, Zenon DEF Addressed
  <2>3. StartOf(next) = at[next - base + 2]
    <3>1. AreaOf(next) = next - base + 2
      BY <2>0, Zenon DEF AreaOf
    <3> QED
      BY <2>0, <3>1, Zenon DEF StartOf
  <2>4. WrittenBy(next) = Text(Chars(s), Len(s) + 1)
    BY <2>0, Zenon DEF WrittenBy
  <2>5. Write(StartOf(next), WrittenBy(next)) /\ cave' = cave
    <3> HIDE DEF at, w, base
    <3> QED
      BY <1>6, <2>1, <2>3, <2>4
  <2> QED
    BY <1>2, <1>3, <1>4, <1>5, <2>0, <2>2, <2>5, Zenon
<1>11. next <= w \/ next = w + 1 \/ (next > w + 1 /\ next <= base) \/ next > base
  BY <1>1, <1>3
<1> QED
  BY <1>7, <1>8, <1>9, <1>10, <1>11

\* Each string has room where it goes.
LEMMA StringFits ==
    ASSUME game \in KnownGames, option \in Servers, Fits,
           NEW i \in 1 .. LastEntry, i > Base(game)
    PROVE  LET s == StringOf(Names(game)[i - Base(game)])
           IN  /\ IsSeq(s)
               /\ Len(s) + 1 <= Rooms[game][i - Base(game) + 2]
<1> DEFINE k == i - Base(game)
           n == Areas(game)
           names == Names(game)
           room == Rooms[game]
<1>1. /\ k \in 1 .. (n - 2) /\ n \in {6, 8} /\ (k = n - 2 => option.digest # {})
      /\ k + 2 \in 3 .. n
  BY LastIs
<1>2. /\ room[3] = 18 /\ room[n] = 312 /\ \A j \in 4 .. (n - 1) : room[j] = 76
  <2>1. /\ Rooms[game][3] = 18 /\ Rooms[game][Areas(game)] = 312
        /\ \A j \in 4 .. (Areas(game) - 1) : Rooms[game][j] = 76
    BY TextRooms
  <2> QED
    BY <2>1, Zenon
<1>3. /\ n \in {6, 8} /\ names[1] = "agent" /\ names[2] = "http" /\ names[3] = "https"
      /\ names[n - 2] = "digest"
      /\ n = 8 => names[4] = "live" /\ names[5] = "presence"
  <2>1. CASE game \in {"LBP1", "LBP2"}
    BY <2>1, SMT DEF Areas, Names
  <2>2. CASE ~(game \in {"LBP1", "LBP2"})
    BY <2>2, SMT DEF Areas, Names
  <2> QED
    BY <2>1, <2>2
<1>4. \A url \in Urls : IsSeq(url) /\ Len(url) \in Nat /\ Len(url) + 1 <= 76
  <2> SUFFICES ASSUME NEW url \in Urls
               PROVE  IsSeq(url) /\ Len(url) \in Nat /\ Len(url) + 1 <= 76
    OBVIOUS
  <2> DEFINE S == STRING
  <2>1. url \in Seq(S) /\ Len(url) <= 75
    BY StringsAssumption DEF Fits
  <2> HIDE DEF S
  <2>2. Len(url) \in Nat /\ Len(url) + 1 <= 76
    BY <2>1
  <2> QED
    BY <2>1, <2>2, Zenon DEF IsSeq
<1>5. \A x \in Digests : IsSeq(x) /\ Len(x) \in Nat /\ Len(x) + 1 <= 312
  <2> SUFFICES ASSUME NEW x \in Digests
               PROVE  IsSeq(x) /\ Len(x) \in Nat /\ Len(x) + 1 <= 312
    OBVIOUS
  <2> DEFINE S == STRING
  <2>1. x \in Seq(S) /\ Len(x) <= 311
    BY StringsAssumption DEF Fits
  <2> HIDE DEF S
  <2>2. Len(x) \in Nat /\ Len(x) + 1 <= 312
    BY <2>1
  <2> QED
    BY <2>1, <2>2, Zenon DEF IsSeq
<1>6. IsSeq(StringOf("agent")) /\ Len(StringOf("agent")) + 1 = 18
  <2> DEFINE d == Definition[game].digit
             T == {"P", "a", "t", "c", "h", "w", "o", "r", "k", "L", "B", d, " ", "2",
                   ".", "0"}
             s == <<"P", "a", "t", "c", "h", "w", "o", "r", "k", "L", "B", "P", d,
                    " ", "2", ".", "0">>
  <2>1. StringOf("agent") = s
    BY Strings, Zenon
  <2> HIDE DEF d
  <2>2. s \in Seq(T) /\ Len(s) = 17
    BY SMT
  <2> HIDE DEF s, T
  <2>3. Len(s) + 1 = 18
    BY <2>2
  <2> QED
    BY <2>1, <2>2, <2>3, Zenon DEF IsSeq
<1>7. Primary \in Urls
  BY Served, Zenon
<1>8. /\ StringOf("http") \in Urls /\ StringOf("live") \in Urls
      /\ StringOf("presence") \in Urls
  BY <1>7, Strings, Zenon
<1>9. StringOf("https") \in Urls
  <2>1. CASE option.https = {}
    BY <1>7, <2>1, Strings, Zenon
  <2>2. CASE option.https # {}
    <3>1. PICK x \in Urls : option.https = {x}
      BY <2>2, Served
    <3>2. (CHOOSE url \in Urls : url \in option.https) = x
      BY <3>1, Zenon
    <3> QED
      BY <2>2, <3>1, <3>2, Strings, Zenon
  <2> QED
    BY <2>1, <2>2
<1>10. option.digest # {} => StringOf("digest") \in Digests
  <2> SUFFICES ASSUME option.digest # {} PROVE StringOf("digest") \in Digests
    OBVIOUS
  <2>1. PICK x \in Digests : option.digest = {x}
    BY Served
  <2> QED
    BY <2>1, Strings, Zenon
<1> SUFFICES IsSeq(StringOf(names[k])) /\ Len(StringOf(names[k])) + 1 <= room[k + 2]
  OBVIOUS
<1> HIDE DEF k, n, names, room
<1>11. CASE k = 1
  BY <1>2, <1>3, <1>6, <1>11
<1>12. CASE k \in 2 .. (n - 3)
  <2>1. k + 2 \in 4 .. (n - 1) /\ (k = 2 \/ k = 3 \/ (n = 8 /\ (k = 4 \/ k = 5)))
    BY <1>1, <1>12
  <2>2. StringOf(names[k]) \in Urls
    BY <1>3, <1>8, <1>9, <2>1, Zenon
  <2>3. room[k + 2] = 76
    BY <1>2, <2>1
  <2> QED
    BY <1>4, <2>2, <2>3, Zenon
<1>13. CASE k = n - 2
  <2>1. StringOf(names[k]) \in Digests
    BY <1>1, <1>3, <1>10, <1>13, Zenon
  <2>2. k + 2 = n
    BY <1>1, <1>13
  <2> QED
    BY <1>2, <1>5, <2>1, <2>2, Zenon
<1>14. k = 1 \/ k \in 2 .. (n - 3) \/ k = n - 2
  BY <1>1
<1> QED
  BY <1>11, <1>12, <1>13, <1>14

\* Each entry writes in its area, as many bytes as it should.
InArea(i) ==
    LET a == AreaOf(i)
    IN  /\ SizeOf(i) \in Nat /\ SizeOf(i) > 0
        /\ DOMAIN WrittenBy(i) = 0 .. (SizeOf(i) - 1)
        /\ FileStarts[game][a] <= StartOf(i)
        /\ StartOf(i) + SizeOf(i) <= FileStarts[game][a] + Rooms[game][a]

LEMMA EntrySize ==
    ASSUME game \in KnownGames, option \in Servers, Fits,
           NEW i \in 1 .. LastEntry, Addressed(i)
    PROVE  InArea(i)
<1> DEFINE w == Words(game)
           base == Base(game)
           at == FileStarts[game]
           room == Rooms[game]
           n == Areas(game)
           a == AreaOf(i)
<1>1. /\ w \in 16 .. 30 /\ base \in Nat /\ base > w + 1 /\ LastEntry \in Nat /\ base < LastEntry
      /\ n \in {6, 8}
  BY LastIs
<1>2. /\ a \in 1 .. n /\ StartOf(i) \in Nat
      /\ i <= w => StartOf(i) = at[1] + 4 * (i - 1)
      /\ i > w => StartOf(i) = at[a]
  BY AreaIs, Zenon
<1>3. \A j \in 1 .. n : at[j] \in Nat /\ room[j] \in 1 .. 312
  BY FilesApart, SMT DEF RoomsApart
<1>4. room[1] = 4 * w /\ room[2] = 4
  BY CodeRooms, Zenon
<1>5. CASE i <= w
  <2>0. i <= w + 1 /\ i # w + 1
    BY <1>1, <1>5
  <2>1. a = 1 /\ SizeOf(i) = 4
    BY <1>5, <2>0, Zenon DEF AreaOf, SizeOf
  <2>2. DOMAIN WrittenBy(i) = 0 .. 3
    <3>1. WrittenBy(i) = Code(<<ForceJoin[game][i]>>)
      BY <1>5, <2>0, Zenon DEF WrittenBy
    <3> DEFINE x == ForceJoin[game][i]
    <3> HIDE DEF x
    <3> DEFINE words == <<x>>
    <3>2. Len(words) = 1
      BY SMT
    <3> HIDE DEF words
    <3>3. DOMAIN Code(words) = 0 .. (4 * Len(words) - 1)
      <4> HIDE DEF words
      <4>1. Len(words) \in Nat
        BY <3>2
      <4> QED
        BY <4>1, CodeSize, Zenon
    <3>4. DOMAIN Code(words) = 0 .. 3
      BY <3>2, <3>3, SMT
    <3> QED
      BY <3>1, <3>4, Zenon DEF x, words
  <2>3. 1 \in 1 .. n
    BY <1>1
  <2>4. at[1] \in Nat
    BY <1>3, <2>3, Zenon
  <2> HIDE DEF w, base, at, room, n, a
  <2>5. /\ at[1] <= StartOf(i) /\ StartOf(i) + 4 <= at[1] + room[1]
    BY <1>1, <1>2, <1>4, <1>5, <2>4
  <2>6. 4 \in Nat /\ 4 > 0 /\ 0 .. 3 = 0 .. (4 - 1)
    BY SMT
  <2> QED
    BY <2>1, <2>2, <2>5, <2>6, Zenon DEF InArea, at, room, a
<1>6. CASE i = w + 1
  <2>0. i <= w + 1 /\ ~(i <= w) /\ i > w
    BY <1>1, <1>6
  <2>1. a = 2 /\ SizeOf(i) = 4
    BY <1>6, <2>0, Zenon DEF AreaOf, SizeOf
  <2>2. DOMAIN WrittenBy(i) = 0 .. 3
    <3>1. WrittenBy(i) = [k \in 0 .. 3 |-> <<"cave", k>>]
      BY <1>6, <2>0, Zenon DEF WrittenBy
    <3> QED
      BY <3>1, Zenon
  <2> HIDE DEF w, base, at, room, n, a
  <2>5. /\ at[a] <= StartOf(i) /\ StartOf(i) + 4 <= at[a] + room[a]
    BY <1>2, <1>4, <2>0, <2>1
  <2>6. 4 \in Nat /\ 4 > 0 /\ 0 .. 3 = 0 .. (4 - 1)
    BY SMT
  <2> QED
    BY <2>1, <2>2, <2>5, <2>6, Zenon DEF InArea, at, room, a
<1>7. CASE i > base
  <2>0. ~(i <= w + 1) /\ ~(i <= w) /\ i > w /\ i # w + 1
    BY <1>1, <1>7
  <2> DEFINE s == StringOf(Names(game)[i - base])
  <2>1. a = i - base + 2 /\ SizeOf(i) = Len(s) + 1
    BY <2>0, Zenon DEF AreaOf, SizeOf
  <2>2. IsSeq(s) /\ Len(s) + 1 <= room[a]
    <3>1. IsSeq(s) /\ Len(s) + 1 <= room[i - base + 2]
      BY <1>7, StringFits
    <3> QED
      BY <2>1, <3>1, Zenon
  <2>3. WrittenBy(i) = Text(Chars(s), Len(s) + 1)
    BY <2>0, Zenon DEF WrittenBy
  <2> HIDE DEF s, w, base, at, room, n, a
  <2>4. DOMAIN WrittenBy(i) = 0 .. ((Len(s) + 1) - 1)
    BY <2>3, TextSize, Zenon
  <2>5. Len(s) \in Nat
    BY <2>2 DEF IsSeq
  <2>6. at[a] \in Nat /\ room[a] \in 1 .. 312
    BY <1>2, <1>3, Zenon
  <2>7. /\ SizeOf(i) \in Nat /\ SizeOf(i) > 0 /\ at[a] <= StartOf(i)
        /\ StartOf(i) + SizeOf(i) <= at[a] + room[a]
    <3>1. \A p, l \in Nat, r \in 1 .. 312 : l + 1 <= r =>
              l + 1 \in Nat /\ l + 1 > 0 /\ p <= p /\ p + (l + 1) <= p + r
      BY SMT
    <3>2. StartOf(i) = at[a] /\ SizeOf(i) = Len(s) + 1
      BY <1>2, <2>0, <2>1, Zenon
    <3>3. /\ Len(s) + 1 \in Nat /\ Len(s) + 1 > 0 /\ at[a] <= at[a]
          /\ at[a] + (Len(s) + 1) <= at[a] + room[a]
      BY <2>2, <2>5, <2>6, <3>1
    <3> QED
      BY <3>2, <3>3, Zenon
  <2>8. DOMAIN WrittenBy(i) = 0 .. (SizeOf(i) - 1)
    BY <2>1, <2>4, Zenon
  <2> QED
    BY <2>7, <2>8, Zenon DEF InArea, at, room, a
<1>8. i <= w \/ i = w + 1 \/ i > base
  BY <1>1 DEF Addressed
<1> QED
  BY <1>5, <1>6, <1>7, <1>8

\* No two entries of a file write to the same address.
LEMMA FileApart ==
    ASSUME game \in KnownGames, option \in Servers, Fits,
           NEW i \in 1 .. LastEntry, NEW j \in 1 .. LastEntry, i # j,
           Addressed(i), Addressed(j)
    PROVE  \/ StartOf(i) + SizeOf(i) <= StartOf(j)
           \/ StartOf(j) + SizeOf(j) <= StartOf(i)
<1> DEFINE w == Words(game)
           base == Base(game)
           at == FileStarts[game]
           room == Rooms[game]
           n == Areas(game)
           a == AreaOf(i)
           b == AreaOf(j)
<1>1. /\ w \in 16 .. 30 /\ base \in Nat /\ base > w + 1 /\ LastEntry \in Nat /\ base < LastEntry
  BY LastIs
<1>2. /\ a \in 1 .. n /\ StartOf(i) \in Nat
      /\ i <= w => StartOf(i) = at[1] + 4 * (i - 1)
  BY AreaIs, Zenon
<1>3. /\ b \in 1 .. n /\ StartOf(j) \in Nat
      /\ j <= w => StartOf(j) = at[1] + 4 * (j - 1)
  BY AreaIs, Zenon
<1>4. /\ SizeOf(i) \in Nat /\ at[a] <= StartOf(i)
      /\ StartOf(i) + SizeOf(i) <= at[a] + room[a]
  BY EntrySize, Zenon DEF InArea
<1>5. /\ SizeOf(j) \in Nat /\ at[b] <= StartOf(j)
      /\ StartOf(j) + SizeOf(j) <= at[b] + room[b]
  BY EntrySize, Zenon DEF InArea
<1>6. /\ at[a] \in Nat /\ at[b] \in Nat /\ room[a] \in 1 .. 312 /\ room[b] \in 1 .. 312
      /\ a # b => at[a] + room[a] <= at[b] \/ at[b] + room[b] <= at[a]
  <2>1. RoomsApart(game) /\ a \in 1 .. n /\ b \in 1 .. n
    BY <1>2, <1>3, FilesApart, Zenon
  <2> HIDE DEF a, b
  <2> QED
    BY <2>1, SMT DEF RoomsApart
<1>7. CASE a # b
  <2> HIDE DEF w, base, at, room, n, a, b
  <2> QED
    BY <1>2, <1>3, <1>4, <1>5, <1>6, <1>7
<1>8. CASE a = b
  <2>1. /\ (i <= w + 1 \/ i > base) /\ (j <= w + 1 \/ j > base)
    BY DEF Addressed
  <2>2. /\ a = CASE i <= w -> 1 [] i = w + 1 -> 2 [] OTHER -> i - base + 2
        /\ b = CASE j <= w -> 1 [] j = w + 1 -> 2 [] OTHER -> j - base + 2
    BY Zenon DEF AreaOf
  <2>3. i <= w /\ j <= w
    <3> HIDE DEF w, base, at, room, n, a, b
    <3>1. /\ i <= w => a = 1 /\ i # w + 1
          /\ i = w + 1 => a = 2 /\ ~(i <= w)
          /\ i > base => a = i - base + 2 /\ i - base + 2 > 2
      BY <1>1, <2>2
    <3>2. /\ j <= w => b = 1
          /\ j = w + 1 => b = 2
          /\ j > base => b = j - base + 2 /\ j - base + 2 > 2
      BY <1>1, <2>2
    <3> QED
      BY <1>1, <1>8, <2>1, <3>1, <3>2
  <2>4. SizeOf(i) = 4 /\ SizeOf(j) = 4
    <3>1. i <= w + 1 /\ j <= w + 1
      BY <1>1, <2>3
    <3> QED
      BY <3>1, Zenon DEF SizeOf
  <2>5. at[1] \in Nat
    <3>1. a = 1
      BY <1>1, <2>2, <2>3
    <3> QED
      BY <1>6, <3>1, Zenon
  <2> HIDE DEF w, base, at, room, n, a, b
  <2> QED
    BY <1>1, <1>2, <1>3, <2>3, <2>4, <2>5
<1> QED
  BY <1>7, <1>8

-------------------------------------------------------------------------------
(* One entry after the other: the inductive invariant of the patch file.   *)

\* What is said of the entries does not change while they are applied.
LEMMA SameEntries ==
    ASSUME UNCHANGED <<game, option>>
    PROVE  /\ LastEntry' = LastEntry
           /\ \A i : /\ (Addressed(i)' <=> Addressed(i)) /\ StartOf(i)' = StartOf(i)
                     /\ SizeOf(i)' = SizeOf(i) /\ WrittenBy(i)' = WrittenBy(i)
<1>1. LastEntry' = LastEntry
  BY Zenon DEF LastEntry
<1>2. \A i : (Addressed(i)' <=> Addressed(i)) /\ AreaOf(i)' = AreaOf(i)
  BY Zenon DEF Addressed, AreaOf
<1>3. \A i : StartOf(i)' = StartOf(i)
  BY <1>2, Zenon DEF StartOf
<1>4. \A name : StringOf(name)' = StringOf(name)
  BY Zenon DEF StringOf, Primary
<1>5. \A i : SizeOf(i)' = SizeOf(i)
  BY <1>4, Zenon DEF SizeOf
<1>6. \A i : WrittenBy(i)' = WrittenBy(i)
  BY <1>4, Zenon DEF WrittenBy
<1> QED
  BY <1>1, <1>2, <1>3, <1>5, <1>6, Zenon

\* The words in the emulator's memory, one more after each.
LEMMA CaveGrows ==
    ASSUME NEW g \in KnownGames, NEW m \in 0 .. (HookLength(g) - 1)
    PROVE  Append(SubSeq(ScriptHook[g], 1, m), ScriptHook[g][m + 1])
             = SubSeq(ScriptHook[g], 1, m + 1)
<1> DEFINE h == ScriptHook[g]
<1>1. HookLength(g) \in 6 .. 8 /\ Len(h) = HookLength(g) /\ \E S : h \in Seq(S)
  BY Counts, HookWhole, Zenon DEF EndsTwice
<1>2. PICK S : h \in Seq(S)
  BY <1>1
<1> HIDE DEF h
<1>3. m \in Nat /\ m + 1 <= Len(h)
  BY <1>1
<1>4. Append(SubSeq(h, 1, m), h[m + 1]) = SubSeq(h, 1, m + 1)
  <2> DEFINE s == SubSeq(h, 1, m)
             t == SubSeq(h, 1, m + 1)
  <2>1. /\ s \in Seq(S) /\ Len(s) = m /\ \A i \in 1 .. m : s[i] = h[i]
    BY <1>2, <1>3, SMT
  <2>2. /\ t \in Seq(S) /\ Len(t) = m + 1 /\ \A i \in 1 .. (m + 1) : t[i] = h[i]
    BY <1>2, <1>3, SMT
  <2>3. h[m + 1] \in S
    BY <1>2, <1>3
  <2> HIDE DEF s, t
  <2>4. /\ Append(s, h[m + 1]) \in Seq(S) /\ Len(Append(s, h[m + 1])) = m + 1
        /\ \A i \in 1 .. (m + 1) : Append(s, h[m + 1])[i] = h[i]
    BY <1>3, <2>1, <2>3, SMT
  <2> DEFINE u == Append(s, h[m + 1])
  <2> HIDE DEF u
  <2>5. u \in Seq(S) /\ Len(u) = m + 1 /\ \A i \in 1 .. (m + 1) : u[i] = t[i]
    BY <2>2, <2>4, Zenon DEF u
  <2>6. u = t
    BY <1>3, <2>2, <2>5, SMT
  <2> QED
    BY <2>6, Zenon DEF u, s, t
<1> QED
  BY <1>4, Zenon DEF h

\* An entry leaves what has been written.
LEMMA EntryKeeps ==
    ASSUME FileGiven, FileWritten, Fits, ApplyEntry, NEW a \in DOMAIN memory
    PROVE  a \in DOMAIN memory' /\ memory'[a] = memory[a]
<1>1. game \in KnownGames /\ option \in Servers
  BY GamesAssumption DEF FileGiven
<1>2. /\ next \in 1 .. (LastEntry + 1)
      /\ stage = IF next = LastEntry + 1 THEN "done" ELSE "file"
      /\ a \in Nat
      /\ \E i \in 1 .. (next - 1) : Addressed(i) /\ a - StartOf(i) \in 0 .. (SizeOf(i) - 1)
  BY Zenon DEF FileWritten
<1>3. /\ next \in 1 .. LastEntry
      /\ IF Addressed(next) THEN Write(StartOf(next), WrittenBy(next))
         ELSE UNCHANGED memory
  BY <1>1, <1>2, EntryEffect, Zenon
<1>4. CASE ~Addressed(next)
  BY <1>3, <1>4
<1>5. CASE Addressed(next)
  <2> DEFINE at == StartOf(next)
  <2>1. PICK i \in 1 .. (next - 1) :
          Addressed(i) /\ a - StartOf(i) \in 0 .. (SizeOf(i) - 1)
    BY <1>2
  <2>2. i \in 1 .. LastEntry /\ i # next
    BY <1>1, <1>3, LastIs
  <2>3. /\ StartOf(i) \in Nat /\ at \in Nat
        /\ \/ StartOf(i) + SizeOf(i) <= at \/ at + SizeOf(next) <= StartOf(i)
    BY <1>1, <1>3, <1>5, <2>1, <2>2, AreaIs, FileApart, Zenon
  <2>4. /\ SizeOf(i) \in Nat /\ SizeOf(next) \in Nat
        /\ DOMAIN WrittenBy(next) = 0 .. (SizeOf(next) - 1)
    BY <1>1, <1>3, <1>5, <2>1, <2>2, EntrySize, Zenon DEF InArea
  <2> HIDE DEF at
  <2>5. a - at \notin 0 .. (SizeOf(next) - 1)
    <3>1. \A s, z, u, v \in Nat :
             a - s \in 0 .. (z - 1) /\ (s + z <= u \/ u + v <= s)
                => a - u \notin 0 .. (v - 1)
      BY <1>2
    <3> QED
      BY <2>1, <2>3, <2>4, <3>1, Zenon
  <2>6. /\ DOMAIN memory' = DOMAIN memory \union {at + k : k \in DOMAIN WrittenBy(next)}
        /\ \A b \in DOMAIN memory' :
              IF b - at \in DOMAIN WrittenBy(next)
              THEN memory'[b] = WrittenBy(next)[b - at]
              ELSE b \in DOMAIN memory => memory'[b] = memory[b]
    BY <1>3, <1>5, WriteEffect DEF at
  <2> QED
    BY <2>4, <2>5, <2>6, Zenon
<1> QED
  BY <1>4, <1>5

\* And adds its own bytes.
LEMMA EntryAdds ==
    ASSUME FileGiven, FileWritten, Fits, ApplyEntry
    PROVE  /\ DOMAIN memory' \subseteq Nat
           /\ Addressed(next) => \A k \in 0 .. (SizeOf(next) - 1) :
                 /\ StartOf(next) + k \in DOMAIN memory'
                 /\ memory'[StartOf(next) + k] = WrittenBy(next)[k]
           /\ \A a \in DOMAIN memory' :
                 \/ a \in DOMAIN memory
                 \/ Addressed(next) /\ a - StartOf(next) \in 0 .. (SizeOf(next) - 1)
<1>1. game \in KnownGames /\ option \in Servers
  BY GamesAssumption DEF FileGiven
<1>2. /\ next \in 1 .. (LastEntry + 1)
      /\ stage = IF next = LastEntry + 1 THEN "done" ELSE "file"
      /\ DOMAIN memory \subseteq Nat
  BY Zenon DEF FileWritten
<1>3. /\ next \in 1 .. LastEntry
      /\ IF Addressed(next) THEN Write(StartOf(next), WrittenBy(next))
         ELSE UNCHANGED memory
  BY <1>1, <1>2, EntryEffect, Zenon
<1>4. CASE ~Addressed(next)
  BY <1>2, <1>3, <1>4
<1>5. CASE Addressed(next)
  <2> DEFINE at == StartOf(next)
             size == SizeOf(next)
             bytes == WrittenBy(next)
  <2>1. at \in Nat /\ size \in Nat /\ DOMAIN bytes = 0 .. (size - 1)
    BY <1>1, <1>3, <1>5, AreaIs, EntrySize, Zenon DEF InArea
  <2>2. /\ DOMAIN memory' = DOMAIN memory \union {at + k : k \in DOMAIN bytes}
        /\ \A b \in DOMAIN memory' :
              IF b - at \in DOMAIN bytes THEN memory'[b] = bytes[b - at]
              ELSE b \in DOMAIN memory => memory'[b] = memory[b]
    BY <1>3, <1>5, WriteEffect
  <2> HIDE DEF at, size, bytes
  <2>3. \A k \in 0 .. (size - 1) : at + k \in Nat /\ (at + k) - at = k
    BY <2>1, SMT
  <2>4. \A k \in 0 .. (size - 1) : at + k \in DOMAIN memory' /\ memory'[at + k] = bytes[k]
    <3> SUFFICES ASSUME NEW k \in 0 .. (size - 1)
                 PROVE  at + k \in DOMAIN memory' /\ memory'[at + k] = bytes[k]
      OBVIOUS
    <3>1. at + k \in {at + j : j \in DOMAIN bytes}
      BY <2>1, Zenon
    <3>2. at + k \in DOMAIN memory' /\ (at + k) - at \in DOMAIN bytes
      BY <2>1, <2>2, <2>3, <3>1, Zenon
    <3>3. memory'[at + k] = bytes[(at + k) - at]
      BY <2>2, <3>2, Zenon
    <3> QED
      BY <2>3, <3>2, <3>3, Zenon
  <2>5. \A a \in DOMAIN memory' :
          a \in DOMAIN memory \/ (a - at \in 0 .. (size - 1) /\ a \in Nat)
    <3> SUFFICES ASSUME NEW a \in DOMAIN memory', a \notin DOMAIN memory
                 PROVE  a - at \in 0 .. (size - 1) /\ a \in Nat
      OBVIOUS
    <3>1. PICK k \in 0 .. (size - 1) : a = at + k
      BY <2>1, <2>2, Zenon
    <3> QED
      BY <2>3, <3>1, Zenon
  <2> QED
    BY <1>2, <1>5, <2>4, <2>5, Zenon DEF at, size, bytes
<1> QED
  BY <1>4, <1>5

\* The words in the emulator's memory after an entry.
LEMMA CaveStays ==
    ASSUME FileGiven, FileWritten, ApplyEntry
    PROVE  (cave = SubSeq(ScriptHook[game], 1, InCave))'
<1> DEFINE w == Words(game)
           base == Base(game)
           n == HookLength(game)
           h == ScriptHook[game]
<1>1. game \in KnownGames /\ option \in Servers /\ UNCHANGED <<game, option>>
  BY GamesAssumption DEF FileGiven, ApplyEntry
<1>2. /\ next \in 1 .. (LastEntry + 1)
      /\ stage = IF next = LastEntry + 1 THEN "done" ELSE "file"
      /\ cave = SubSeq(h, 1, InCave)
  BY Zenon DEF FileWritten
<1>3. /\ next \in 1 .. LastEntry /\ next' = next + 1
      /\ cave' = IF Addressed(next) THEN IF next = w + 1 THEN <<>> ELSE cave
                 ELSE Append(cave, h[next - (w + 1)])
  <2>1. /\ next \in 1 .. LastEntry /\ next' = next + 1
        /\ IF Addressed(next)
           THEN /\ Write(StartOf(next), WrittenBy(next))
                /\ cave' = IF next = w + 1 THEN <<>> ELSE cave
           ELSE UNCHANGED memory /\ cave' = Append(cave, h[next - (w + 1)])
    BY <1>1, <1>2, EntryEffect, Zenon
  <2> QED
    BY <2>1, Zenon
<1>4. /\ w \in 16 .. 30 /\ n \in 6 .. 8 /\ base = w + 1 + n /\ LastEntry \in Nat
  BY <1>1, LastIs
<1>5. SubSeq(h, 1, 0) = <<>>
  <2>1. PICK S : h \in Seq(S)
    BY <1>1, HookWhole
  <2> HIDE DEF h
  <2> QED
    BY <2>1, SMT
<1>6. InCave = IF next <= w + 1 THEN 0 ELSE IF next <= base THEN next - (w + 2) ELSE n
  BY Zenon DEF InCave
<1>7. InCave' = IF next + 1 <= w + 1 THEN 0
                ELSE IF next + 1 <= base THEN (next + 1) - (w + 2) ELSE n
  BY <1>1, <1>3, Zenon DEF InCave
<1>8. Addressed(next) <=> next <= w + 1 \/ next > base
  BY Zenon DEF Addressed
<1>9. cave' = SubSeq(h, 1, InCave')
  <2> DEFINE c == InCave
             d == InCave'
  <2> HIDE DEF w, base, n, c, d
  <2>1. CASE next <= w
    <3>1. c = 0 /\ d = 0 /\ Addressed(next) /\ next # w + 1
      BY <1>3, <1>4, <1>6, <1>7, <1>8, <2>1 DEF c, d
    <3> QED
      BY <1>2, <1>3, <3>1, Zenon DEF c, d
  <2>2. CASE next = w + 1
    <3>1. d = 0 /\ Addressed(next)
      BY <1>3, <1>4, <1>6, <1>7, <1>8, <2>2 DEF c, d
    <3> QED
      BY <1>3, <1>5, <2>2, <3>1, Zenon DEF d
  <2>3. CASE next > w + 1 /\ next <= base
    <3>1. c \in 0 .. (n - 1) /\ d = c + 1 /\ next - (w + 1) = c + 1 /\ ~Addressed(next)
      BY <1>3, <1>4, <1>6, <1>7, <1>8, <2>3 DEF c, d
    <3>2. Append(SubSeq(h, 1, c), h[c + 1]) = SubSeq(h, 1, c + 1)
      BY <1>1, <3>1, CaveGrows, Zenon DEF n
    <3> QED
      BY <1>2, <1>3, <3>1, <3>2, Zenon DEF c, d
  <2>4. CASE next > base
    <3>1. c = n /\ d = n /\ Addressed(next) /\ next # w + 1
      BY <1>3, <1>4, <1>6, <1>7, <1>8, <2>4 DEF c, d
    <3> QED
      BY <1>2, <1>3, <3>1, Zenon DEF c, d
  <2>5. next <= w \/ next = w + 1 \/ (next > w + 1 /\ next <= base) \/ next > base
    BY <1>3, <1>4
  <2> QED
    BY <2>1, <2>2, <2>3, <2>4, <2>5, Zenon
<1> QED
  BY <1>1, <1>9, Zenon

LEMMA FileWrittenStays ==
    ASSUME FileGiven, FileWritten, Fits, ApplyEntry
    PROVE  FileWritten'
<1>1. game \in KnownGames /\ option \in Servers /\ UNCHANGED <<game, option>>
  BY GamesAssumption DEF FileGiven, ApplyEntry
<1>2. /\ LastEntry' = LastEntry
      /\ \A i : /\ (Addressed(i)' <=> Addressed(i)) /\ StartOf(i)' = StartOf(i)
                /\ SizeOf(i)' = SizeOf(i) /\ WrittenBy(i)' = WrittenBy(i)
  BY <1>1, SameEntries, Zenon
<1>3. /\ next \in 1 .. (LastEntry + 1)
      /\ stage = IF next = LastEntry + 1 THEN "done" ELSE "file"
      /\ \A i \in 1 .. (next - 1) : Addressed(i) =>
            \A k \in 0 .. (SizeOf(i) - 1) : /\ StartOf(i) + k \in DOMAIN memory
                                            /\ memory[StartOf(i) + k] = WrittenBy(i)[k]
      /\ \A a \in DOMAIN memory : \E i \in 1 .. (next - 1) :
            Addressed(i) /\ a - StartOf(i) \in 0 .. (SizeOf(i) - 1)
  BY Zenon DEF FileWritten
<1>4. /\ next \in 1 .. LastEntry /\ next' = next + 1
      /\ stage' = IF next = LastEntry THEN "done" ELSE "file"
  BY <1>1, <1>3, EntryEffect, Zenon
<1>5. LastEntry \in Nat
  BY <1>1, LastIs
<1>6. /\ next' \in 1 .. (LastEntry + 1) /\ (next' = LastEntry + 1 <=> next = LastEntry)
      /\ \A i \in 1 .. (next' - 1) : i \in 1 .. (next - 1) \/ i = next
      /\ \A i \in 1 .. (next - 1) : i \in 1 .. (next' - 1)
      /\ next \in 1 .. (next' - 1)
  BY <1>4, <1>5
<1>7. \A a \in DOMAIN memory : a \in DOMAIN memory' /\ memory'[a] = memory[a]
  BY EntryKeeps
<1>8. /\ DOMAIN memory' \subseteq Nat
      /\ Addressed(next) => \A k \in 0 .. (SizeOf(next) - 1) :
            /\ StartOf(next) + k \in DOMAIN memory'
            /\ memory'[StartOf(next) + k] = WrittenBy(next)[k]
      /\ \A a \in DOMAIN memory' :
            \/ a \in DOMAIN memory
            \/ Addressed(next) /\ a - StartOf(next) \in 0 .. (SizeOf(next) - 1)
  BY EntryAdds
<1>9. \A i \in 1 .. (next' - 1) : Addressed(i) =>
         \A k \in 0 .. (SizeOf(i) - 1) : /\ StartOf(i) + k \in DOMAIN memory'
                                         /\ memory'[StartOf(i) + k] = WrittenBy(i)[k]
  <2> SUFFICES ASSUME NEW i \in 1 .. (next' - 1), Addressed(i),
                      NEW k \in 0 .. (SizeOf(i) - 1)
               PROVE  /\ StartOf(i) + k \in DOMAIN memory'
                      /\ memory'[StartOf(i) + k] = WrittenBy(i)[k]
    BY Zenon
  <2>1. CASE i = next
    BY <1>8, <2>1
  <2>2. CASE i \in 1 .. (next - 1)
    <3>1. /\ StartOf(i) + k \in DOMAIN memory
          /\ memory[StartOf(i) + k] = WrittenBy(i)[k]
      BY <1>3, <2>2, Zenon
    <3> QED
      BY <1>7, <3>1, Zenon
  <2> QED
    BY <1>6, <2>1, <2>2, Zenon
<1>10. \A a \in DOMAIN memory' : \E i \in 1 .. (next' - 1) :
          Addressed(i) /\ a - StartOf(i) \in 0 .. (SizeOf(i) - 1)
  BY <1>3, <1>6, <1>8, Zenon
<1>11. (cave = SubSeq(ScriptHook[game], 1, InCave))'
  BY CaveStays
<1> QED
  BY <1>2, <1>4, <1>6, <1>8, <1>9, <1>10, <1>11, Zenon DEF FileWritten

LEMMA FileWrittenSame ==
    ASSUME FileWritten, UNCHANGED vars
    PROVE  FileWritten'
<1>1. UNCHANGED <<game, option, next, stage, memory, cave>>
  BY Zenon DEF vars
<1>2. /\ LastEntry' = LastEntry
      /\ \A i : /\ (Addressed(i)' <=> Addressed(i)) /\ StartOf(i)' = StartOf(i)
                /\ SizeOf(i)' = SizeOf(i) /\ WrittenBy(i)' = WrittenBy(i)
  BY <1>1, SameEntries, Zenon
<1>3. InCave' = InCave
  BY <1>1, Zenon DEF InCave
<1> QED
  BY <1>1, <1>2, <1>3, Zenon DEF FileWritten

LEMMA InitFile == Init => PatchFileInv
<1> SUFFICES ASSUME Init, installer = "file" PROVE
        /\ FileGiven /\ FileWritten
        /\ DOMAIN pointer = {} /\ number = "unknown" /\ request = <<>>
  <2>1. Init => cave = <<>>
    BY Zenon DEF Init
  <2> QED
    BY <2>1, Zenon DEF PatchFileInv
<1>1. /\ game \in Games /\ option \in Servers /\ stage = "file" /\ next = 1
      /\ DOMAIN memory = {} /\ DOMAIN pointer = {} /\ cave = <<>>
      /\ number = "unknown" /\ request = <<>>
  <2>1. "file" # "module"
    OBVIOUS
  <2> QED
    BY <2>1, Zenon DEF Init
<1>2. FileGiven /\ game \in KnownGames
  BY <1>1, GamesAssumption DEF FileGiven
<1>3. LastEntry \in Nat /\ Base(game) < LastEntry /\ Words(game) \in 16 .. 30 /\ Base(game) \in Nat
  BY <1>2, LastIs
<1>4. 1 .. (next - 1) = {} /\ next \in 1 .. (LastEntry + 1) /\ next # LastEntry + 1
  BY <1>1, <1>3
<1>5. cave = SubSeq(ScriptHook[game], 1, InCave)
  <2>1. InCave = 0
    BY <1>1, <1>3 DEF InCave
  <2>2. PICK S : ScriptHook[game] \in Seq(S)
    BY <1>2, HookWhole
  <2> DEFINE h == ScriptHook[game]
  <2> HIDE DEF h
  <2>3. SubSeq(h, 1, 0) = <<>>
    BY <2>2, SMT DEF h
  <2> QED
    BY <1>1, <2>1, <2>3, Zenon DEF h
<1> QED
  BY <1>1, <1>2, <1>4, <1>5, Zenon DEF FileWritten

LEMMA FileSteps ==
    ASSUME installer = "file", FileGiven, FileWritten, Next
    PROVE  ApplyEntry \/ Installed
<1>1. stage \in {"file", "done"}
  BY Zenon DEF FileWritten
<1> QED
  BY <1>1 DEF Next, SetKey, SetServerURL, SetServerDigest, SetString, DetectGame,
     SetUserAgent, Announce, ApplyPatch, Finish, At

LEMMA ModuleStays ==
    ASSUME installer \in {"module", "file"}, installer # "file", Next
    PROVE  installer' = installer
  BY DEF Next, SetKey, SetServerURL, SetServerDigest, SetString, DetectGame,
     SetUserAgent, Announce, ApplyPatch, Finish, At, ApplyEntry, Installed, vars

LEMMA NextFile == Inv /\ PatchFileInv /\ Fits /\ Next => PatchFileInv'
<1> SUFFICES ASSUME Inv, PatchFileInv, Fits, Next PROVE PatchFileInv'
  OBVIOUS
<1>1. CASE installer = "file"
  <2>1. /\ FileGiven /\ FileWritten
        /\ DOMAIN pointer = {} /\ number = "unknown" /\ request = <<>>
    BY <1>1, Zenon DEF PatchFileInv
  <2>2. CASE ApplyEntry
    <3>1. UNCHANGED <<game, option, pointer, number, request>>
      BY <2>2, Zenon DEF ApplyEntry
    <3>2. FileGiven'
      BY <2>1, <3>1 DEF FileGiven
    <3>3. FileWritten'
      BY <2>1, <2>2, FileWrittenStays
    <3>4. DOMAIN pointer' = {} /\ number' = "unknown" /\ request' = <<>>
      BY <2>1, <3>1, Zenon
    <3>5. installer' = "file"
      BY <1>1, <2>2 DEF ApplyEntry
    <3> QED
      BY <3>2, <3>3, <3>4, <3>5 DEF PatchFileInv
  <2>3. CASE Installed
    <3>1. UNCHANGED vars
      BY <2>3, Zenon DEF Installed
    <3>2. FileWritten'
      BY <2>1, <3>1, FileWrittenSame
    <3>3. UNCHANGED <<game, option, pointer, number, request>>
      BY <3>1, Zenon DEF vars
    <3>4. FileGiven'
      BY <2>1, <3>3 DEF FileGiven
    <3>5. DOMAIN pointer' = {} /\ number' = "unknown" /\ request' = <<>>
      BY <2>1, <3>3, Zenon
    <3>6. installer' = "file"
      BY <1>1, <3>1 DEF vars
    <3> QED
      BY <3>2, <3>4, <3>5, <3>6 DEF PatchFileInv
  <2> QED
    BY <1>1, <2>1, <2>2, <2>3, FileSteps
<1>2. CASE installer # "file"
  <2>1. installer = "module" /\ cave = <<>> /\ Given
    BY <1>2 DEF Inv, ModuleInv, PatchFileInv
  <2>2. installer' = "module"
    BY <1>2, <2>1, ModuleStays DEF Inv
  <2>3. cave' = <<>>
    BY <2>1, ModuleSteps
  <2> QED
    BY <2>2, <2>3 DEF PatchFileInv
<1> QED
  BY <1>1, <1>2

LEMMA StutterFile == PatchFileInv /\ UNCHANGED vars => PatchFileInv'
<1> SUFFICES ASSUME PatchFileInv, UNCHANGED vars PROVE PatchFileInv'
  OBVIOUS
<1>0. installer' = installer
  BY Zenon DEF vars
<1> SUFFICES ASSUME installer = "file" PROVE
        (/\ FileGiven /\ FileWritten
         /\ DOMAIN pointer = {} /\ number = "unknown" /\ request = <<>>)'
  <2>1. cave' = cave
    BY Zenon DEF vars
  <2> QED
    BY <1>0, <2>1, Zenon DEF PatchFileInv
<1>1. UNCHANGED <<game, option, pointer, number, request>>
  BY Zenon DEF vars
<1>2. /\ FileGiven /\ FileWritten
      /\ DOMAIN pointer = {} /\ number = "unknown" /\ request = <<>>
  BY Zenon DEF PatchFileInv
<1>3. FileWritten'
  BY <1>2, FileWrittenSame
<1>4. FileGiven'
  BY <1>1, <1>2 DEF FileGiven
<1>5. DOMAIN pointer' = {} /\ number' = "unknown" /\ request' = <<>>
  BY <1>1, <1>2, Zenon
<1> QED
  BY <1>3, <1>4, <1>5


\* Every byte in memory is one an entry of the patch file wrote, every entry that
\* has been applied is there whole, and the emulator's new memory holds the words of
\* the hook so far: what MakePatches lists is what the emulator puts
\* (helpers.go:17-123, patches.go:56-81).
THEOREM AsTheFileSays == ASSUME Fits PROVE Spec => []PatchFileInv
<1>1. Init => PatchFileInv
  BY InitFile
<1>2. Inv /\ PatchFileInv /\ [Next]_vars => PatchFileInv'
  BY NextFile, StutterFile
<1> QED
  BY <1>1, <1>2, AsTheTablesSay, PTL DEF Spec

-------------------------------------------------------------------------------
(* What is there once all entries are applied.                             *)


\* NothingOverwritten of both ways to install: no entry writes over a byte another
\* has written, whatever server with strings that fit the file is made for
\* (offsets.h:5-62, lbpdefs).
THEOREM NoneOverwritten == ASSUME Fits PROVE Spec => NothingOverwritten
<1>1. Inv /\ PatchFileInv /\ [Next]_vars
        => [\A address \in DOMAIN memory : memory'[address] = memory[address]]_vars
  <2> SUFFICES ASSUME Inv, PatchFileInv, Next \/ UNCHANGED vars, NEW address \in DOMAIN memory
               PROVE  memory'[address] = memory[address] \/ UNCHANGED vars
    BY Zenon
  <2>1. CASE UNCHANGED vars
    BY <2>1
  <2>2. CASE Next /\ installer = "module"
    BY <2>2, Kept
  <2>3. CASE Next /\ installer = "file"
    <3>1. FileGiven /\ FileWritten
      BY <2>3, Zenon DEF PatchFileInv
    <3>2. CASE ApplyEntry
      BY <3>1, <3>2, EntryKeeps
    <3>3. CASE Installed
      BY <3>3, Zenon DEF Installed
    <3> QED
      BY <2>3, <3>1, <3>2, <3>3, FileSteps
  <2> QED
    BY <2>1, <2>2, <2>3 DEF Inv
<1> QED
  BY <1>1, AsTheTablesSay, AsTheFileSays, PTL DEF Spec, NothingOverwritten

\* Once all entries are applied.
LEMMA Delivered ==
    ASSUME FileGiven, FileWritten, stage = "done"
    PROVE  /\ game \in KnownGames /\ option \in Servers
           /\ \A i \in 1 .. LastEntry : Addressed(i) =>
                 \A k \in 0 .. (SizeOf(i) - 1) : Byte(StartOf(i) + k) = WrittenBy(i)[k]
           /\ \A a \in DOMAIN memory : \E i \in 1 .. LastEntry :
                 Addressed(i) /\ a - StartOf(i) \in 0 .. (SizeOf(i) - 1)
           /\ cave = ScriptHook[game]
<1>1. game \in KnownGames /\ option \in Servers
  BY GamesAssumption DEF FileGiven
<1>2. next = LastEntry + 1
  <2>1. "done" # "file"
    OBVIOUS
  <2> QED
    BY <2>1, Zenon DEF FileWritten
<1>3. LastEntry \in Nat /\ Base(game) \in Nat /\ Base(game) < LastEntry
      /\ Words(game) \in 16 .. 30 /\ HookLength(game) \in 6 .. 8
      /\ Base(game) = Words(game) + 1 + HookLength(game)
  BY <1>1, LastIs
<1>4. next - 1 = LastEntry
  BY <1>2, <1>3
<1>5. \A i \in 1 .. LastEntry : Addressed(i) =>
         \A k \in 0 .. (SizeOf(i) - 1) : Byte(StartOf(i) + k) = WrittenBy(i)[k]
  BY <1>4, Zenon DEF FileWritten, Byte
<1>6. \A a \in DOMAIN memory : \E i \in 1 .. LastEntry :
         Addressed(i) /\ a - StartOf(i) \in 0 .. (SizeOf(i) - 1)
  BY <1>4, Zenon DEF FileWritten
<1>7. cave = ScriptHook[game]
  <2>1. InCave = HookLength(game)
    BY <1>2, <1>3 DEF InCave
  <2>2. Len(ScriptHook[game]) = HookLength(game) /\ \E S : ScriptHook[game] \in Seq(S)
    BY <1>1, HookWhole, Zenon DEF EndsTwice
  <2>3. cave = SubSeq(ScriptHook[game], 1, Len(ScriptHook[game]))
    BY <2>1, <2>2, Zenon DEF FileWritten
  <2> DEFINE h == ScriptHook[game]
  <2>4. PICK S : h \in Seq(S)
    BY <2>2
  <2> HIDE DEF h
  <2>5. SubSeq(h, 1, Len(h)) = h
    BY <2>4
  <2> QED
    BY <2>3, <2>5, Zenon DEF h
<1> QED
  BY <1>1, <1>5, <1>6, <1>7, Zenon

LEMMA CheckIs == \A g \in KnownGames : ResourceCheck[g] = FileStarts[g][2]
  BY SMT DEF KnownGames, ResourceCheck, FileStarts

\* A byte of a word's four, and of a sequence of words.
LEMMA CodeByte ==
    ASSUME NEW words, Len(words) \in Nat, NEW k \in 0 .. (4 * Len(words) - 1)
    PROVE  \E i \in 1 .. Len(words), r \in 0 .. 3 :
              k = 4 * (i - 1) + r /\ Code(words)[k] = Code(<<words[i]>>)[r]
<1> DEFINE n == Len(words)
           i == k \div 4 + 1
           r == k % 4
           one == <<words[i]>>
<1>1. i \in 1 .. n /\ r \in 0 .. 3 /\ k = 4 * (i - 1) + r
  BY SMT
<1>2. Code(words)[k] = <<"code", words[i], r>>
  BY Zenon DEF Code
<1> HIDE DEF i, r
<1>3. Len(one) = 1 /\ one[1] = words[i]
  BY SMT
<1> HIDE DEF one
<1>4. r \in 0 .. (4 * Len(one) - 1) /\ (r \div 4) + 1 = 1 /\ r % 4 = r
  BY <1>1, <1>3, SMT
<1>5. Code(one)[r] = <<"code", one[(r \div 4) + 1], r % 4>>
  BY <1>4, Zenon DEF Code
<1>6. Code(one)[r] = <<"code", words[i], r>>
  BY <1>3, <1>4, <1>5, Zenon
<1> QED
  BY <1>1, <1>2, <1>6, Zenon DEF one

\* The file's part of FixesInPlace at the end.
LEMMA FileFixed == Inv /\ PatchFileInv /\ Fits /\ installer = "file" => FixesInPlace
<1> SUFFICES ASSUME Inv, PatchFileInv, Fits, installer = "file", stage = "done"
             PROVE  /\ \A k \in DOMAIN Code(ForceJoin[game]) :
                          Byte(Definition[game].join + k) = Code(ForceJoin[game])[k]
                    /\ \A k \in 0..3 : Byte(ResourceCheck[game] + k) = <<"cave", k>>
                    /\ cave = ScriptHook[game]
  BY Zenon DEF FixesInPlace
<1> DEFINE w == Words(game)
           at == FileStarts[game]
           base == Base(game)
<1>1. FileGiven /\ FileWritten
  BY Zenon DEF PatchFileInv
<1>2. /\ game \in KnownGames /\ option \in Servers
      /\ \A i \in 1 .. LastEntry : Addressed(i) =>
            \A k \in 0 .. (SizeOf(i) - 1) : Byte(StartOf(i) + k) = WrittenBy(i)[k]
      /\ cave = ScriptHook[game]
  BY <1>1, Delivered, Zenon
<1>3. /\ w \in 16 .. 30 /\ base \in Nat /\ base > w + 1 /\ LastEntry \in Nat /\ base < LastEntry
  BY <1>2, LastIs
<1>4. Definition[game].join = at[1]
  BY <1>2, DefinitionIs, Zenon
<1>5. ResourceCheck[game] = at[2]
  BY <1>2, CheckIs, Zenon
<1>6. Len(ForceJoin[game]) = w /\ at[1] \in Nat
  <2>1. /\ Len(ForceJoin[game]) = ForceJoinLength[game] \div 4
        /\ ForceJoinLength[game] \div 4 =
             CASE game = "LBP1" -> 16 [] game = "LBP2" -> 30 [] OTHER -> 28
    BY <1>2, JoinWhole
  <2>2. at[1] \in Nat
    <3>1. 1 \in 1 .. Areas(game)
      BY <1>2, LastIs
    <3> QED
      BY <1>2, <3>1, FilesApart, SMT DEF RoomsApart
  <2> QED
    BY <2>1, <2>2, Zenon DEF Words
<1>7. ASSUME NEW k \in DOMAIN Code(ForceJoin[game])
      PROVE  Byte(Definition[game].join + k) = Code(ForceJoin[game])[k]
  <2> DEFINE words == ForceJoin[game]
  <2>1. k \in 0 .. (4 * Len(words) - 1) /\ Len(words) \in Nat
    <3>1. Len(words) \in Nat
      BY <1>3, <1>6
    <3> QED
      BY <3>1, CodeSize
  <2>2. PICK i \in 1 .. Len(words), r \in 0 .. 3 :
           k = 4 * (i - 1) + r /\ Code(words)[k] = Code(<<words[i]>>)[r]
    BY <2>1, CodeByte
  <2>3. i \in 1 .. w
    BY <1>6
  <2>4. i \in 1 .. LastEntry /\ Addressed(i) /\ i <= w /\ i <= w + 1
    <3>1. i \in 1 .. LastEntry /\ i <= w /\ i <= w + 1
      <4> HIDE DEF w
      <4> QED
        BY <1>3, <2>3
    <3>2. Addressed(i)
      BY <3>1, Zenon DEF Addressed
    <3> QED
      BY <3>1, <3>2, Zenon
  <2>5. i # w + 1
    <3> HIDE DEF w
    <3> QED
      BY <1>3, <2>3
  <2>6. SizeOf(i) = 4 /\ StartOf(i) = at[1] + 4 * (i - 1)
        /\ WrittenBy(i) = Code(<<words[i]>>)
    BY <2>4, <2>5, Zenon DEF SizeOf, StartOf, WrittenBy
  <2>7. r \in 0 .. (SizeOf(i) - 1)
    BY <2>6
  <2>8. Byte(StartOf(i) + r) = WrittenBy(i)[r]
    BY <1>2, <2>4, <2>7, Zenon
  <2>9. at[1] + k = StartOf(i) + r
    <3>1. at[1] + k = (at[1] + 4 * (i - 1)) + r
      <4>1. \A p, x \in Nat, q \in 0 .. 3 : p + (x + q) = (p + x) + q
        BY SMT
      <4>2. 4 * (i - 1) \in Nat
        BY <2>1
      <4> QED
        BY <1>6, <2>2, <4>1, <4>2, Zenon
    <3> QED
      BY <2>6, <3>1, Zenon
  <2> QED
    BY <1>4, <2>2, <2>6, <2>8, <2>9, Zenon
<1>8. ASSUME NEW k \in 0 .. 3
      PROVE  Byte(ResourceCheck[game] + k) = <<"cave", k>>
  <2> DEFINE i == w + 1
  <2>1. i \in 1 .. LastEntry /\ Addressed(i) /\ ~(i <= w) /\ i <= w + 1
    BY <1>3 DEF Addressed
  <2>2. AreaOf(i) = 2
    BY <2>1, Zenon DEF AreaOf
  <2>3. SizeOf(i) = 4 /\ StartOf(i) = at[2] /\ WrittenBy(i) = [j \in 0 .. 3 |-> <<"cave", j>>]
    BY <2>1, <2>2, Zenon DEF SizeOf, StartOf, WrittenBy
  <2>4. k \in 0 .. (SizeOf(i) - 1)
    BY <2>3
  <2> HIDE DEF i
  <2>5. Byte(StartOf(i) + k) = WrittenBy(i)[k]
    BY <1>2, <2>1, <2>4, Zenon
  <2>6. WrittenBy(i)[k] = <<"cave", k>>
    BY <2>3, Zenon
  <2> QED
    BY <1>5, <2>3, <2>5, <2>6, Zenon
<1> QED
  BY <1>2, <1>7, <1>8, Zenon


\* FixesInPlace of both: for the file too, the routine is over the game's code
\* whole, the check is left for new memory, and the hook is there from its first
\* word to its second absolute branch and no further (hooks.go:26-31). Fits keeps
\* the strings away from both.
THEOREM AllFixed == ASSUME Fits PROVE Spec => []FixesInPlace
<1>1. Inv /\ PatchFileInv => FixesInPlace
  BY Fixed, FileFixed DEF Inv
<1> QED
  BY <1>1, AsTheTablesSay, AsTheFileSays, PTL

-------------------------------------------------------------------------------
(* What the game reads.                                                    *)

\* The string of the file that is at a site, but for the two in the wrong place.
LEMMA SiteString ==
    ASSUME NEW g \in KnownGames, NEW site \in UrlSites(g) \union {"digest"},
           ~(g = "LBP3" /\ site \in {"live", "presence"})
    PROVE  \E k \in 1 .. (Areas(g) - 2) :
              /\ Names(g)[k] = site /\ FileStarts[g][k + 2] = Offset[g][site]
              /\ k = Areas(g) - 2 => site = "digest"
<1>1. CASE g = "LBP1"
  <2>1. /\ Areas(g) = 6 /\ Names(g) = <<"agent", "http", "https", "digest">>
        /\ site \in {"https", "http", "digest"}
    BY <1>1, SMT DEF Offset, Areas, Names, UrlSites
  <2>2. /\ Offset[g]["http"] = FileStarts[g][4] /\ Offset[g]["https"] = FileStarts[g][5]
        /\ Offset[g]["digest"] = FileStarts[g][6]
    BY <1>1, SMT DEF Offset, FileStarts
  <2>3. CASE site = "http"
    <3>1. 2 \in 1 .. (Areas(g) - 2) /\ 2 # Areas(g) - 2 /\ 2 + 2 = 4 /\ Names(g)[2] = site
      BY <2>1, <2>3
    <3> QED
      BY <2>2, <2>3, <3>1
  <2>4. CASE site = "https"
    <3>1. 3 \in 1 .. (Areas(g) - 2) /\ 3 # Areas(g) - 2 /\ 3 + 2 = 5 /\ Names(g)[3] = site
      BY <2>1, <2>4
    <3> QED
      BY <2>2, <2>4, <3>1
  <2>5. CASE site = "digest"
    <3>1. 4 \in 1 .. (Areas(g) - 2) /\ 4 + 2 = 6 /\ Names(g)[4] = site
      BY <2>1, <2>5
    <3> QED
      BY <2>2, <2>5, <3>1
  <2> QED
    BY <2>1, <2>3, <2>4, <2>5
<1>2. CASE g = "LBP2"
  <2>1. /\ Areas(g) = 6 /\ Names(g) = <<"agent", "http", "https", "digest">>
        /\ site \in {"https", "http", "digest"}
    BY <1>2, SMT DEF Offset, Areas, Names, UrlSites
  <2>2. /\ Offset[g]["http"] = FileStarts[g][4] /\ Offset[g]["https"] = FileStarts[g][5]
        /\ Offset[g]["digest"] = FileStarts[g][6]
    BY <1>2, SMT DEF Offset, FileStarts
  <2>3. CASE site = "http"
    <3>1. 2 \in 1 .. (Areas(g) - 2) /\ 2 # Areas(g) - 2 /\ 2 + 2 = 4 /\ Names(g)[2] = site
      BY <2>1, <2>3
    <3> QED
      BY <2>2, <2>3, <3>1
  <2>4. CASE site = "https"
    <3>1. 3 \in 1 .. (Areas(g) - 2) /\ 3 # Areas(g) - 2 /\ 3 + 2 = 5 /\ Names(g)[3] = site
      BY <2>1, <2>4
    <3> QED
      BY <2>2, <2>4, <3>1
  <2>5. CASE site = "digest"
    <3>1. 4 \in 1 .. (Areas(g) - 2) /\ 4 + 2 = 6 /\ Names(g)[4] = site
      BY <2>1, <2>5
    <3> QED
      BY <2>2, <2>5, <3>1
  <2> QED
    BY <2>1, <2>3, <2>4, <2>5
<1>3. CASE g \in {"LBP3", "LBP3_JP"}
  <2>1. /\ Areas(g) = 8
        /\ Names(g) = <<"agent", "http", "https", "live", "presence", "digest">>
        /\ site \in {"https", "http", "presence", "live", "digest"}
    BY <1>3, SMT DEF Offset, Areas, Names, UrlSites
  <2>2. /\ Offset[g]["http"] = FileStarts[g][4] /\ Offset[g]["https"] = FileStarts[g][5]
        /\ Offset[g]["digest"] = FileStarts[g][8]
        /\ g = "LBP3_JP" => /\ Offset[g]["live"] = FileStarts[g][6]
                            /\ Offset[g]["presence"] = FileStarts[g][7]
    BY <1>3, SMT DEF Offset, FileStarts
  <2>3. CASE site = "http"
    <3>1. 2 \in 1 .. (Areas(g) - 2) /\ 2 # Areas(g) - 2 /\ 2 + 2 = 4 /\ Names(g)[2] = site
      BY <2>1, <2>3
    <3> QED
      BY <2>2, <2>3, <3>1
  <2>4. CASE site = "https"
    <3>1. 3 \in 1 .. (Areas(g) - 2) /\ 3 # Areas(g) - 2 /\ 3 + 2 = 5 /\ Names(g)[3] = site
      BY <2>1, <2>4
    <3> QED
      BY <2>2, <2>4, <3>1
  <2>5. CASE site = "live"
    <3>1. 4 \in 1 .. (Areas(g) - 2) /\ 4 # Areas(g) - 2 /\ 4 + 2 = 6 /\ Names(g)[4] = site
          /\ g = "LBP3_JP"
      BY <1>3, <2>1, <2>5
    <3> QED
      BY <2>2, <2>5, <3>1
  <2>6. CASE site = "presence"
    <3>1. 5 \in 1 .. (Areas(g) - 2) /\ 5 # Areas(g) - 2 /\ 5 + 2 = 7 /\ Names(g)[5] = site
          /\ g = "LBP3_JP"
      BY <1>3, <2>1, <2>6
    <3> QED
      BY <2>2, <2>6, <3>1
  <2>7. CASE site = "digest"
    <3>1. 6 \in 1 .. (Areas(g) - 2) /\ 6 + 2 = 8 /\ Names(g)[6] = site
      BY <2>1, <2>7
    <3> QED
      BY <2>2, <2>7, <3>1
  <2> QED
    BY <2>1, <2>3, <2>4, <2>5, <2>6, <2>7
<1> QED
  BY <1>1, <1>2, <1>3 DEF KnownGames

LEMMA DigestArea == \A g \in KnownGames : Offset[g]["digest"] = FileStarts[g][Areas(g)]
<1>1. Offset["LBP1"]["digest"] = FileStarts["LBP1"][Areas("LBP1")]
  BY SMT DEF Offset, FileStarts, Areas
<1>2. Offset["LBP2"]["digest"] = FileStarts["LBP2"][Areas("LBP2")]
  BY SMT DEF Offset, FileStarts, Areas
<1>3. Offset["LBP3"]["digest"] = FileStarts["LBP3"][Areas("LBP3")]
  BY SMT DEF Offset, FileStarts, Areas
<1>4. Offset["LBP3_JP"]["digest"] = FileStarts["LBP3_JP"][Areas("LBP3_JP")]
  BY SMT DEF Offset, FileStarts, Areas
<1> QED
  BY <1>1, <1>2, <1>3, <1>4 DEF KnownGames

\* What is wanted at a site is the string of its name.
LEMMA WantedIs ==
    ASSUME option \in Servers, NEW g \in KnownGames,
           NEW site \in UrlSites(g) \union {"digest"}
    PROVE  /\ Wanted(site) = {} <=> site = "digest" /\ option.digest = {}
           /\ \A string \in Wanted(site) : StringOf(site) = string
<1>1. PICK x \in Urls : option.url = {x} /\ Primary = x
  BY Served
<1>2. /\ option.https = {} \/ \E y \in Urls : option.https = {y}
      /\ option.digest = {} \/ \E y \in Digests : option.digest = {y}
  BY Served
<1>3. site \in {"https", "http", "presence", "live", "digest"}
  BY Zenon DEF UrlSites
<1>4. CASE site = "digest"
  <2>1. Wanted(site) = option.digest
    BY <1>4, Zenon DEF Wanted
  <2>2. \A string \in option.digest : StringOf("digest") = string
    <3> SUFFICES ASSUME NEW string \in option.digest PROVE StringOf("digest") = string
      OBVIOUS
    <3>1. option.digest = {string}
      BY <1>2
    <3> QED
      BY <3>1, Strings, Zenon
  <2> QED
    BY <1>4, <2>1, <2>2, Zenon
<1>5. CASE site = "https" /\ option.https # {}
  <2>0. site # "digest"
    BY <1>5
  <2>1. Wanted(site) = option.https
    BY <1>5, <2>0, Zenon DEF Wanted
  <2>2. PICK y \in Urls : option.https = {y}
    BY <1>2, <1>5
  <2>3. (CHOOSE url \in Urls : url \in option.https) = y
    BY <2>2, Zenon
  <2>4. StringOf("https") = y
    BY <1>5, <2>3, Strings, Zenon
  <2> QED
    BY <1>5, <2>0, <2>1, <2>2, <2>4, Zenon
<1>6. CASE site # "digest" /\ ~(site = "https" /\ option.https # {})
  <2>1. Wanted(site) = {x}
    BY <1>1, <1>6, Zenon DEF Wanted
  <2>2. StringOf(site) = x
    <3>1. CASE site = "https"
      <4>1. option.https = {}
        BY <1>6, <3>1
      <4> QED
        BY <1>1, <3>1, <4>1, Strings, Zenon
    <3>2. CASE site \in {"http", "presence", "live"}
      BY <1>1, <3>2, Strings, Zenon
    <3> QED
      BY <1>3, <1>6, <3>1, <3>2
  <2> QED
    BY <1>6, <2>1, <2>2, Zenon
<1> QED
  BY <1>4, <1>5, <1>6

\* A string that was put is read.
LEMMA FileReads ==
    ASSUME PatchFileInv, Fits, installer = "file", stage = "done",
           NEW site \in UrlSites(game) \union {"digest"}, ~Misplaced(site),
           NEW string \in Wanted(site)
    PROVE  /\ SubSeq(string, 1, Len(string)) = string /\ Len(string) \in 0 .. Len(string)
           /\ ReadsAs(Offset[game][site], string)
<1> DEFINE base == Base(game)
           n == Areas(game)
           at == Offset[game][site]
<1>1. FileGiven /\ FileWritten
  BY Zenon DEF PatchFileInv
<1>2. /\ game \in KnownGames /\ option \in Servers
      /\ \A i \in 1 .. LastEntry : Addressed(i) =>
            \A k \in 0 .. (SizeOf(i) - 1) : Byte(StartOf(i) + k) = WrittenBy(i)[k]
  BY <1>1, Delivered, Zenon
<1>3. /\ Words(game) \in 16 .. 30 /\ base \in Nat /\ base > Words(game) + 1 /\ n \in {6, 8}
      /\ LastEntry = base + n - (IF option.digest = {} THEN 3 ELSE 2)
  BY <1>2, LastIs
<1>4. StringOf(site) = string /\ (site = "digest" => option.digest # {})
  BY <1>2, WantedIs, Zenon
<1>5. PICK k \in 1 .. (n - 2) :
        /\ Names(game)[k] = site /\ FileStarts[game][k + 2] = at
        /\ k = n - 2 => site = "digest"
  BY <1>2, SiteString, Zenon DEF Misplaced
<1> HIDE DEF at
<1> DEFINE i == base + k
<1>6. /\ i \in 1 .. LastEntry /\ i > base /\ ~(i <= Words(game) + 1) /\ ~(i <= Words(game))
      /\ i # Words(game) + 1 /\ i - base = k
  <2>1. CASE k = n - 2
    <3>1. option.digest # {}
      BY <1>4, <1>5, <2>1, Zenon
    <3> HIDE DEF base, n
    <3> QED
      BY <1>3, <2>1, <3>1
  <2> HIDE DEF base, n
  <2>2. CASE k # n - 2
    BY <1>3, <2>2
  <2> QED
    BY <2>1, <2>2
<1> HIDE DEF i
<1>7. Addressed(i)
  BY <1>6, Zenon DEF Addressed
<1>8. AreaOf(i) = k + 2
  BY <1>6, Zenon DEF AreaOf
<1>9. /\ StartOf(i) = at
      /\ SizeOf(i) = Len(string) + 1
      /\ WrittenBy(i) = Text(Chars(string), Len(string) + 1)
  BY <1>4, <1>5, <1>6, <1>8, Zenon DEF StartOf, SizeOf, WrittenBy
<1>10. IsSeq(string)
  <2>1. IsSeq(StringOf(Names(game)[i - Base(game)]))
    BY <1>2, <1>6, StringFits
  <2> QED
    BY <1>4, <1>5, <1>6, <2>1, Zenon
<1>11. PICK S : string \in Seq(S)
  BY <1>10 DEF IsSeq
<1>12. Len(string) \in Nat /\ SubSeq(string, 1, Len(string)) = string
  BY <1>11
<1>13. at \in Nat
  BY <1>2, <1>6, <1>7, <1>9, AreaIs
<1> DEFINE size == Len(string) + 1
<1>14. \A j \in 0 .. (size - 1) : Byte(at + j) = Text(Chars(string), size)[j]
  BY <1>2, <1>6, <1>7, <1>9, Zenon
<1>15. size \in Nat /\ Len(string) <= size /\ Len(string) # size
  <2>1. \A l \in Nat : l + 1 \in Nat /\ l <= l + 1 /\ l # l + 1
    OBVIOUS
  <2> QED
    BY <1>12, <2>1, Zenon
<1> HIDE DEF size
<1>16. ReadsAs(at, string)
  BY <1>11, <1>13, <1>14, <1>15, Reads, Zenon
<1>17. Len(string) \in 0 .. Len(string)
  BY <1>12
<1> QED
  BY <1>12, <1>16, <1>17, Zenon DEF at

\* Nothing is put where the digest is, if there is none.
LEMMA NoDigest ==
    ASSUME PatchFileInv, Fits, installer = "file", stage = "done", option.digest = {}
    PROVE  Untouched(Offset[game]["digest"], Size("digest"))
<1> DEFINE n == Areas(game)
           at == FileStarts[game][n]
<1>1. FileGiven /\ FileWritten
  BY Zenon DEF PatchFileInv
<1>2. /\ game \in KnownGames /\ option \in Servers
      /\ \A a \in DOMAIN memory : \E i \in 1 .. LastEntry :
            Addressed(i) /\ a - StartOf(i) \in 0 .. (SizeOf(i) - 1)
  BY <1>1, Delivered, Zenon
<1>3. Size("digest") = 19 /\ Offset[game]["digest"] = at
  <2>1. Size("digest") = 19
    BY SMT DEF Size, LBP_DIGEST_LENGTH
  <2> QED
    BY <1>2, <2>1, DigestArea, Zenon
<1>4. /\ Words(game) \in 16 .. 30 /\ Base(game) \in Nat /\ Base(game) > Words(game) + 1
      /\ n \in {6, 8} /\ LastEntry = Base(game) + n - 3
  BY <1>2, LastIs
<1>5. Rooms[game][n] = 312
  BY <1>2, TextRooms
<1>6. RoomsApart(game) /\ n \in 1 .. n
  BY <1>2, <1>4, FilesApart
<1> SUFFICES ASSUME NEW k \in 0 .. 18, at + k \in DOMAIN memory PROVE FALSE
  <2>1. \A k \in 0 .. (Size("digest") - 1) : k \in 0 .. 18
    BY <1>3
  <2> QED
    BY <1>3, <2>1, Zenon DEF Untouched
<1>7. PICK i \in 1 .. LastEntry :
        Addressed(i) /\ (at + k) - StartOf(i) \in 0 .. (SizeOf(i) - 1)
  BY <1>2, Zenon
<1> DEFINE a == AreaOf(i)
<1>8. a \in 1 .. n /\ a # n
  <2>1. a \in 1 .. n
    BY <1>2, <1>7, AreaIs, Zenon
  <2>2. a = CASE i <= Words(game) -> 1 [] i = Words(game) + 1 -> 2
              [] OTHER -> i - Base(game) + 2
    BY Zenon DEF AreaOf
  <2>3. i <= Words(game) + 1 \/ i > Base(game)
    BY <1>7 DEF Addressed
  <2> HIDE DEF a, n
  <2>4. CASE i <= Words(game)
    <3>1. i # Words(game) + 1
      BY <1>4, <2>4
    <3>2. a = 1
      BY <2>2, <2>4, <3>1, Zenon
    <3> QED
      BY <1>4, <2>1, <3>2
  <2>5. CASE i = Words(game) + 1
    <3>1. ~(i <= Words(game))
      BY <1>4, <2>5
    <3>2. a = 2
      BY <2>2, <2>5, <3>1, Zenon
    <3> QED
      BY <1>4, <2>1, <3>2
  <2>6. CASE i > Base(game)
    <3>1. ~(i <= Words(game)) /\ i # Words(game) + 1
      BY <1>4, <2>6
    <3>2. a = i - Base(game) + 2
      BY <2>2, <3>1, Zenon
    <3> QED
      BY <1>4, <2>1, <3>2
  <2> QED
    BY <1>4, <2>3, <2>4, <2>5, <2>6
<1>9. /\ SizeOf(i) \in Nat /\ FileStarts[game][a] <= StartOf(i)
      /\ StartOf(i) + SizeOf(i) <= FileStarts[game][a] + Rooms[game][a]
  BY <1>2, <1>7, EntrySize, Zenon DEF InArea
<1>10. StartOf(i) \in Nat
  BY <1>2, <1>7, AreaIs
<1> DEFINE p == FileStarts[game][a]
           q == Rooms[game][a]
<1>11. /\ p \in Nat /\ at \in Nat /\ q \in 1 .. 312
       /\ p + q <= at \/ at + 312 <= p
  <2>1. /\ Areas(game) \in 1 .. Areas(game) /\ a \in 1 .. Areas(game) /\ a # Areas(game)
        /\ Rooms[game][Areas(game)] = 312
    BY <1>5, <1>6, <1>8, Zenon
  <2> HIDE DEF a
  <2> QED
    BY <1>6, <2>1, SMT DEF RoomsApart
<1> HIDE DEF a, n, p, q, at
<1>12. /\ p <= StartOf(i) /\ StartOf(i) + SizeOf(i) <= p + q
  BY <1>9, Zenon DEF p, q
<1> QED
  BY <1>7, <1>9, <1>10, <1>11, <1>12

\* The file's part of SettingsArrive at the end.
LEMMA FileArrived == PatchFileInv /\ Fits /\ installer = "file" => SettingsArrive
<1> SUFFICES ASSUME PatchFileInv, Fits, installer = "file", stage = "done"
             PROVE  \A site \in UrlSites(game) \cup {"digest"} :
                      LET address == Offset[game][site]
                          wanted == Wanted(site)
                      IN  /\ wanted = {} => Untouched(address, Size(site))
                          /\ ~Misplaced(site) =>
                                \A string \in wanted :
                                    \E n \in 0..Len(string) :
                                        LET arrived == SubSeq(string, 1, n)
                                        IN  /\ arrived = string
                                            /\ n < Size(site) => ReadsAs(address, arrived)
  BY DEF SettingsArrive
<1>1. FileGiven /\ FileWritten
  BY Zenon DEF PatchFileInv
<1>2. game \in KnownGames /\ option \in Servers
  BY <1>1, Delivered, Zenon
<1> SUFFICES ASSUME NEW site \in UrlSites(game) \cup {"digest"}
             PROVE  /\ Wanted(site) = {} => Untouched(Offset[game][site], Size(site))
                    /\ ~Misplaced(site) =>
                          \A string \in Wanted(site) :
                              \E n \in 0..Len(string) :
                                  /\ SubSeq(string, 1, n) = string
                                  /\ n < Size(site) =>
                                        ReadsAs(Offset[game][site], SubSeq(string, 1, n))
  BY Zenon
<1>3. ASSUME Wanted(site) = {} PROVE Untouched(Offset[game][site], Size(site))
  <2>1. site = "digest" /\ option.digest = {}
    BY <1>2, <1>3, WantedIs, Zenon
  <2>2. Untouched(Offset[game]["digest"], Size("digest"))
    BY <2>1, NoDigest
  <2> QED
    BY <2>1, <2>2, Zenon
<1>4. ASSUME ~Misplaced(site), NEW string \in Wanted(site)
      PROVE  \E n \in 0..Len(string) :
                 /\ SubSeq(string, 1, n) = string
                 /\ n < Size(site) => ReadsAs(Offset[game][site], SubSeq(string, 1, n))
  BY <1>4, FileReads, Zenon
<1> QED
  BY <1>3, <1>4, Zenon


\* SettingsArrive of both: what the game reads is what was configured, or what the
\* chosen server has, with its end where it should be (patches.c:74,
\* helpers.go:92-120), for the strings the generator has room for.
THEOREM AllSettings == ASSUME Fits PROVE Spec => []SettingsArrive
<1>1. Inv /\ PatchFileInv => SettingsArrive
  BY Arrived, FileArrived DEF Inv
<1> QED
  BY <1>1, AsTheTablesSay, AsTheFileSays, PTL

-------------------------------------------------------------------------------
(* The types.                                                              *)

\* What is left of a string is no longer than it was.
LEMMA Shorter ==
    ASSUME NEW S, NEW str \in Seq(S)
    PROVE  /\ Len(Chars(TrimEnd(str))) <= Len(str)
           /\ Len(Chars(TrimEnd(str))) \in Nat
<1>1. PICK n \in 0 .. Len(str) : TrimEnd(str) = SubSeq(str, 1, n)
  BY TrimEndTrims, Zenon
<1> DEFINE kept == SubSeq(str, 1, n)
<1>2. kept \in Seq(S) /\ Len(kept) = n
  BY <1>1
<1> HIDE DEF kept
<1>3. \A k \in Seq(S) : Len([i \in DOMAIN k |-> <<"char", k[i]>>]) = Len(k)
  BY SMT
<1>4. Len(Chars(kept)) = n
  BY <1>2, <1>3, Zenon DEF Chars
<1>5. Chars(TrimEnd(str)) = Chars(kept)
  BY <1>1, Zenon DEF kept
<1>6. n <= Len(str) /\ n \in Nat
  BY <1>1
<1> QED
  BY <1>4, <1>5, <1>6, Zenon

\* The sources that are set are as long as the values allow.
LEMMA PointersFit ==
    ASSUME Given, Pointed, Detected, Fits
    PROVE  \A n \in DOMAIN pointer :
              Len(pointer[n]) <= IF n = "NetworkKey" THEN 32 ELSE 311
<1> DEFINE S == STRING
<1>1. /\ \A x \in Urls : x \in Seq(S)
      /\ \A x \in Digests : x \in Seq(S)
  BY StringsAssumption, Zenon
<1> HIDE DEF S
<1>2. /\ option.url = {} \/ \E x \in Urls : option.url = {x}
      /\ option.digest = {} \/ \E x \in Digests : option.digest = {x}
  BY Settings, Zenon
<1>4. \A x : x \in Seq(S) => /\ Len(x) \in Nat
                          /\ Len(Chars(TrimEnd(x))) <= Len(x)
                          /\ Len(Chars(TrimEnd(x))) \in Nat
  <2>1. \A x \in Seq(S) : Len(x) \in Nat
    OBVIOUS
  <2> QED
    BY <2>1, Shorter, Zenon
<1>5. ASSUME "ServerURL" \in DOMAIN pointer PROVE Len(pointer["ServerURL"]) <= 311
  <2>1. PICK x \in Urls : pointer["ServerURL"] = Chars(TrimEnd(x))
    BY <1>2, <1>5 DEF Pointed
  <2> DEFINE l == Len(x)
             m == Len(Chars(TrimEnd(x)))
  <2>2. l \in Nat /\ m \in Nat /\ l <= 75 /\ m <= l
    <3>1. l <= 75
      BY DEF Fits
    <3>2. l \in Nat /\ m <= l /\ m \in Nat
      BY <1>1, <1>4, Zenon
    <3> HIDE DEF l, m
    <3> QED
      BY <3>1, <3>2
  <2> HIDE DEF l, m
  <2>3. m <= 311
    BY <2>2
  <2> QED
    BY <2>1, <2>3, Zenon DEF m
<1>6. ASSUME "ServerDigest" \in DOMAIN pointer PROVE Len(pointer["ServerDigest"]) <= 311
  <2>1. PICK x \in Digests : pointer["ServerDigest"] = Chars(TrimEnd(x))
    BY <1>2, <1>6 DEF Pointed
  <2> DEFINE l == Len(x)
             m == Len(Chars(TrimEnd(x)))
  <2>2. l \in Nat /\ m \in Nat /\ l <= 311 /\ m <= l
    <3>1. l <= 311
      BY DEF Fits
    <3>2. l \in Nat /\ m <= l /\ m \in Nat
      BY <1>1, <1>4, Zenon
    <3> HIDE DEF l, m
    <3> QED
      BY <3>1, <3>2
  <2> HIDE DEF l, m
  <2>3. m <= 311
    BY <2>2
  <2> QED
    BY <2>1, <2>3, Zenon DEF m
<1>7. ASSUME "UserAgent" \in DOMAIN pointer PROVE Len(pointer["UserAgent"]) <= 311
  <2>1. pointer["UserAgent"] = AgentBytes /\ version \in Versions
    BY <1>7, Zenon DEF Detected, Given
  <2> DEFINE l == Len(AgentBytes)
  <2>2. l \in 18 .. 21
    BY <2>1, AgentIs, Zenon
  <2> HIDE DEF l
  <2>3. l <= 311
    BY <2>2
  <2> QED
    BY <2>1, <2>3, Zenon DEF l
<1>8. ASSUME "NetworkKey" \in DOMAIN pointer PROVE Len(pointer["NetworkKey"]) <= 32
  <2> DEFINE of == {TrimEnd(k) : k \in option.key}
  <2>1. pointer["NetworkKey"] = Digest(of)
    BY <1>8, Zenon DEF Pointed, CopyHashedJoinKey
  <2> HIDE DEF of
  <2>2. Len([k \in 1 .. 32 |-> <<"key", of, k>>]) = 32
    BY SMT
  <2>3. Len(Digest(of)) = 32
    BY <2>2, Zenon DEF Digest
  <2> DEFINE l == Len(pointer["NetworkKey"])
  <2>4. l = 32
    BY <2>1, <2>3, Zenon
  <2> HIDE DEF l
  <2>5. l <= 32
    BY <2>4
  <2> QED
    BY <2>5, Zenon DEF l
<1> SUFFICES ASSUME NEW n \in DOMAIN pointer
             PROVE  Len(pointer[n]) <= IF n = "NetworkKey" THEN 32 ELSE 311
  OBVIOUS
<1>9. n \in Pointers
  BY DEF Pointed
<1>10. CASE n = "NetworkKey"
  BY <1>8, <1>10, Zenon
<1>11. CASE n # "NetworkKey"
  <2>1. n \in {"ServerURL", "ServerDigest", "UserAgent"}
    BY <1>9, <1>11, Zenon DEF Pointers
  <2>2. Len(pointer[n]) <= 311
    BY <1>5, <1>6, <1>7, <2>1, Zenon
  <2> QED
    BY <1>11, <2>2, Zenon
<1> QED
  BY <1>10, <1>11

\* What either way of installing writes is in the game's memory.
InMemory(a) == a \in Nat /\ a > 0 /\ a < \hFFFFFF

LEMMA ModuleAddresses ==
    ASSUME Given, Written
    PROVE  \A a \in DOMAIN memory : InMemory(a)
<1> SUFFICES ASSUME NEW a \in DOMAIN memory PROVE InMemory(a)
  OBVIOUS
<1>1. game \in KnownGames /\ Apart(game)
  BY GamesAssumption, StartsApart DEF Given
<1>2. Entries(game) \in {8, 10} /\ next \in 1 .. (Entries(game) + 1)
  BY DEF Entries, Written
<1>3. a \in Nat
  BY DEF Written
<1>4. PICK i \in 1 .. (next - 1) : a - Starts[game][i] \in 0 .. (Sizes[game][i] - 1)
  BY Zenon DEF Written
<1>5. i \in 1 .. Entries(game)
  BY <1>2
<1> DEFINE start == Starts[game][i]
           size == Sizes[game][i]
<1>6. /\ start \in Nat /\ start > 0 /\ size \in Nat /\ start + size < \hFFFFFF
  BY <1>1, <1>5, SMT DEF Apart
<1> HIDE DEF start, size
<1>7. a - start \in 0 .. (size - 1)
  BY <1>4, Zenon DEF start, size
<1> QED
  BY <1>3, <1>6, <1>7, SMT DEF InMemory

LEMMA FileAddresses ==
    ASSUME FileGiven, FileWritten, Fits
    PROVE  \A a \in DOMAIN memory : InMemory(a)
<1> SUFFICES ASSUME NEW a \in DOMAIN memory PROVE InMemory(a)
  OBVIOUS
<1>1. game \in KnownGames /\ option \in Servers
  BY GamesAssumption DEF FileGiven
<1>2. LastEntry \in Nat
  BY <1>1, LastIs
<1>3. a \in Nat /\ next \in 1 .. (LastEntry + 1)
  BY DEF FileWritten
<1>4. PICK i \in 1 .. (next - 1) :
        Addressed(i) /\ a - StartOf(i) \in 0 .. (SizeOf(i) - 1)
  BY Zenon DEF FileWritten
<1>5. i \in 1 .. LastEntry
  BY <1>2, <1>3
<1>6. InArea(i) /\ AreaOf(i) \in 1 .. Areas(game) /\ StartOf(i) \in Nat /\ StartOf(i) > 0
  BY <1>1, <1>4, <1>5, AreaIs, EntrySize, Zenon
<1> DEFINE start == StartOf(i)
           size == SizeOf(i)
           area == AreaOf(i)
           from == FileStarts[game][area]
           room == Rooms[game][area]
<1>7. RoomsApart(game)
  BY <1>1, FilesApart
<1>8. area \in 1 .. Areas(game)
  BY <1>6
<1> HIDE DEF area
<1>9. from \in Nat /\ room \in Nat /\ from + room < \hFFFFFF
  <2>1. from \in Nat
    BY <1>7, <1>8, SMT DEF RoomsApart
  <2>2. room \in Nat
    BY <1>7, <1>8, SMTT(30) DEF RoomsApart
  <2>3. from + room < \hFFFFFF
    BY <1>7, <1>8, SMT DEF RoomsApart
  <2> QED
    BY <2>1, <2>2, <2>3, SMT
<1>10. size \in Nat /\ from <= start /\ start + size <= from + room
  BY <1>6, Zenon DEF InArea, area
<1>11. start \in Nat /\ start > 0 /\ a - start \in 0 .. (size - 1)
  BY <1>4, <1>6, Zenon
<1> HIDE DEF start, size, from, room
<1> QED
  BY <1>3, <1>9, <1>10, <1>11, SMT DEF InMemory

\* The hooks are short.
LEMMA CaveShort ==
    ASSUME FileGiven, FileWritten
    PROVE  Len(cave) <= 9
<1>1. game \in KnownGames
  BY GamesAssumption DEF FileGiven
<1>2. /\ LastEntry \in Nat /\ Words(game) \in 16 .. 30 /\ HookLength(game) \in 6 .. 8
      /\ Base(game) = Words(game) + 1 + HookLength(game)
  BY <1>1, LastIs
<1>3. next \in Nat
  BY <1>2 DEF FileWritten
<1>4. InCave \in 0 .. HookLength(game)
  BY <1>2, <1>3 DEF InCave
<1> DEFINE h == ScriptHook[game]
           n == InCave
<1>5. PICK S : h \in Seq(S)
  BY <1>1, HookWhole
<1>6. Len(h) = HookLength(game)
  BY <1>1, HookWhole, Zenon DEF EndsTwice
<1>7. cave = SubSeq(h, 1, n)
  BY Zenon DEF FileWritten
<1> HIDE DEF h, n
<1>8. n \in 0 .. Len(h) /\ n <= 9
  BY <1>2, <1>4, <1>6 DEF n
<1>9. Len(SubSeq(h, 1, n)) = n
  BY <1>5, <1>8
<1> QED
  BY <1>7, <1>8, <1>9, Zenon

LEMMA Typed == Inv /\ PatchFileInv /\ Fits => TypeOK
<1> SUFFICES ASSUME Inv, PatchFileInv, Fits PROVE TypeOK
  OBVIOUS
<1>1. CASE installer = "file"
  <2>1. /\ FileGiven /\ FileWritten
        /\ DOMAIN pointer = {} /\ number = "unknown" /\ request = <<>>
    BY <1>1, Zenon DEF PatchFileInv
  <2>2. stage \in {"file", "done"}
    BY <2>1, Zenon DEF FileWritten
  <2>3. \A a \in DOMAIN memory : InMemory(a)
    BY <2>1, FileAddresses
  <2>4. Len(cave) <= 9
    BY <2>1, CaveShort
  <2>5. Len(request) <= 1
    BY <2>1
  <2> QED
    BY <2>1, <2>2, <2>3, <2>4, <2>5, SMT DEF TypeOK, InMemory
<1>2. CASE installer = "module"
  <2>1. Given /\ Pointed /\ Detected /\ Written /\ Asked /\ cave = <<>>
    BY <1>2, Zenon DEF Inv, ModuleInv, PatchFileInv
  <2>2. number \in KnownGames \union {"unknown"}
    BY <2>1, GamesAssumption DEF Given, Detected
  <2>3. /\ stage \in {"key", "url", "digest", "detect", "agent", "announce", "apply",
                      "file", "done"}
        /\ DOMAIN pointer \subseteq Pointers
    BY <2>1 DEF Given, Pointed
  <2>4. \A n \in DOMAIN pointer :
           Len(pointer[n]) <= IF n = "NetworkKey" THEN 32 ELSE 311
    BY <2>1, PointersFit
  <2>5. \A a \in DOMAIN memory : InMemory(a)
    BY <2>1, ModuleAddresses
  <2>6. Len(cave) <= 9
    BY <2>1
  <2>7. Len(request) <= 1
    <3>1. \A x : Len(<<x>>) <= 1
      BY SMT
    <3>2. Len(<<>>) <= 1
      OBVIOUS
    <3> QED
      BY <2>1, <3>1, <3>2, Zenon DEF Asked
  <2> QED
    BY <2>2, <2>3, <2>4, <2>5, <2>6, <2>7, SMT DEF TypeOK, InMemory
<1> QED
  BY <1>1, <1>2 DEF Inv


\* TypeOK: the pointers' strings, the addresses that are written and the words and
\* messages are within their bounds, for every configuration and server whose
\* strings fit.
THEOREM TypesHold == ASSUME Fits PROVE Spec => []TypeOK
<1>1. Inv /\ PatchFileInv => TypeOK
  BY Typed
<1> QED
  BY <1>1, AsTheTablesSay, AsTheFileSays, PTL
================================================================================
