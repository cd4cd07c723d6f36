----------------------------- MODULE EngineProofs -----------------------------
(***************************************************************************)
(* Proofs about the files of the engines: the haproxy.cfg the panel writes *)
(* and reads (HAProxyConfig), the nginx files it writes (NginxConfig) and  *)
(* the nginx.conf it reads (NginxImport).                                  *)
(*                                                                         *)
(* Renderers and parsers are loops over sequences.  The first part shows   *)
(* once what such a loop computes, by induction on the number of rounds.   *)
(***************************************************************************)
EXTENDS HAProxyConfig, NginxConfig, NginxImport, FiniteSetTheorems, WellFoundedInduction, TLAPS

---------------------------------------------------------------------------
(* Numbers.                                                                *)

\* Every non-empty set of numbers has a least element.
LEMMA Least ==
    ASSUME NEW T, T \subseteq Nat, T # {}
    PROVE  \E m \in T : \A y \in T : m <= y
<1> DEFINE R == {p \in Nat \X Nat : p[1] < p[2]}
<1>1. IsWellFoundedOn(R, Nat)
    BY NatLessThanWellFounded, Zenon DEF OpToRel
<1>2. \E m \in T : \A y \in T : ~(<<y, m>> \in R)
    <2> HIDE DEF R
    <2> QED
        BY <1>1, WFMin, Zenon
<1>3. PICK m \in T : \A y \in T : ~(<<y, m>> \in R)
    BY <1>2
<1>4. ASSUME NEW y \in T, y < m PROVE FALSE
    <2>1. y \in Nat /\ m \in Nat
        OBVIOUS
    <2>2. <<y, m>> \in R
        BY <1>4, <2>1
    <2> QED
        BY <1>3, <2>2
<1>5. \A y \in T : y \in Nat /\ m \in Nat
    OBVIOUS
<1> QED
    BY <1>4, <1>5

\* Induction over the numbers, for a set of them.
LEMMA Induction ==
    ASSUME NEW S, 0 \in S, \A k \in Nat : k \in S => k + 1 \in S
    PROVE  \A k \in Nat : k \in S
<1> DEFINE T == {k \in Nat : k \notin S}
<1>1. SUFFICES ASSUME T # {} PROVE FALSE
    OBVIOUS
<1>2. \E m \in T : \A y \in T : m <= y
    <2>1. T \subseteq Nat
        OBVIOUS
    <2> HIDE DEF T
    <2> QED
        BY <1>1, <2>1, Least
<1>3. PICK m \in T : \A y \in T : m <= y
    BY <1>2
<1>4. m \in Nat /\ m \notin S /\ m # 0 /\ m - 1 \in Nat
    OBVIOUS
<1>5. m - 1 \in T
    BY <1>4
<1> QED
    BY <1>3, <1>4, <1>5

\* The greatest element of a set that has one.
LEMMA MaxIs ==
    ASSUME NEW S, S \subseteq Nat, NEW k \in S, \A x \in S : x <= k
    PROVE  Max(S) = k
<1>1. \A y \in S : k >= y
    OBVIOUS
<1>2. Max(S) \in S /\ \A y \in S : Max(S) >= y
    BY <1>1 DEF Max
<1>3. Max(S) \in Nat /\ k \in Nat /\ Max(S) <= k /\ Max(S) >= k
    BY <1>2
<1> QED
    BY <1>3

\* A non-empty set of numbers up to n has a greatest element.
LEMMA MaxExists ==
    ASSUME NEW n \in Nat, NEW S, S \subseteq 0..n, S # {}
    PROVE  Max(S) \in S /\ \A x \in S : x <= Max(S)
<1> DEFINE U == {u \in Nat : \A x \in S : x <= u}
<1>1. U \subseteq Nat /\ U # {}
    <2>1. n \in U
        OBVIOUS
    <2> QED
        BY <2>1
<1>2. \E u \in U : \A w \in U : u <= w
    <2> HIDE DEF U
    <2> QED
        BY <1>1, Least
<1>3. PICK u \in U : \A w \in U : u <= w
    BY <1>2
<1>4. u \in S
    <2>1. SUFFICES ASSUME u \notin S PROVE FALSE
        OBVIOUS
    <2>2. PICK x \in S : TRUE
        OBVIOUS
    <2>3. u - 1 \in U
        BY <2>1, <2>2
    <2> QED
        BY <1>3, <2>3
<1>5. Max(S) = u
    <2>1. S \subseteq Nat /\ \A x \in S : x <= u
        OBVIOUS
    <2> QED
        BY <1>4, <2>1, MaxIs
<1> QED
    BY <1>4, <1>5

---------------------------------------------------------------------------
(* Sequences of whatever elements.                                         *)

IsSeq(s) == \E T : s \in Seq(T)

LEMMA SeqDomain ==
    ASSUME NEW s, IsSeq(s)
    PROVE  /\ Len(s) \in Nat /\ DOMAIN s = 1..Len(s)
           /\ s = [i \in 1..Len(s) |-> s[i]]
           /\ s = <<>> <=> Len(s) = 0
BY DEF IsSeq

LEMMA SeqElem ==
    ASSUME NEW T, NEW s \in Seq(T)
    PROVE  IsSeq(s) /\ Len(s) \in Nat /\ DOMAIN s = 1..Len(s) /\ \A i \in 1..Len(s) : s[i] \in T
BY DEF IsSeq

LEMMA FcnSeq ==
    ASSUME NEW n \in Nat, NEW s, s = [i \in 1..n |-> s[i]]
    PROVE  IsSeq(s) /\ Len(s) = n /\ DOMAIN s = 1..n
<1>1. s \in Seq({s[i] : i \in 1..n})
    OBVIOUS
<1>2. DOMAIN s = 1..n
    OBVIOUS
<1>3. Len(s) \in Nat /\ DOMAIN s = 1..Len(s)
    BY <1>1
<1>4. Len(s) = n
    <2>1. Len(s) < n => Len(s) + 1 \in 1..n
        BY <1>3
    <2>2. n < Len(s) => n + 1 \in 1..Len(s)
        BY <1>3
    <2>3. Len(s) + 1 \notin 1..Len(s) /\ n + 1 \notin 1..n
        BY <1>3
    <2> QED
        BY <1>2, <1>3, <2>1, <2>2, <2>3
<1> QED
    BY <1>1, <1>2, <1>4 DEF IsSeq

LEMMA SeqEmpty == IsSeq(<<>>) /\ Len(<<>>) = 0
<1>1. <<>> \in Seq({})
    OBVIOUS
<1> QED
    BY <1>1 DEF IsSeq

LEMMA SeqOne ==
    ASSUME NEW x
    PROVE  IsSeq(<<x>>) /\ Len(<<x>>) = 1 /\ <<x>>[1] = x /\ DOMAIN <<x>> = 1..1
<1>1. <<x>> \in Seq({x})
    OBVIOUS
<1>2. Len(<<x>>) = 1 /\ <<x>>[1] = x /\ DOMAIN <<x>> = 1..1
    OBVIOUS
<1> QED
    BY <1>1, <1>2 DEF IsSeq

LEMMA SameSeq ==
    ASSUME NEW s, NEW t, IsSeq(s), IsSeq(t), Len(s) = Len(t),
           \A i \in 1..Len(s) : s[i] = t[i]
    PROVE  s = t
<1>1. /\ s = [i \in 1..Len(s) |-> s[i]]
      /\ t = [i \in 1..Len(t) |-> t[i]]
    BY SeqDomain
<1>2. [i \in 1..Len(s) |-> s[i]] = [i \in 1..Len(t) |-> t[i]]
    OBVIOUS
<1> QED
    BY <1>1, <1>2, Zenon

LEMMA SeqConcat ==
    ASSUME NEW s, NEW t, IsSeq(s), IsSeq(t)
    PROVE  /\ IsSeq(s \o t) /\ Len(s \o t) = Len(s) + Len(t)
           /\ \A i \in 1..Len(s) : (s \o t)[i] = s[i]
           /\ \A i \in 1..Len(t) : (s \o t)[Len(s) + i] = t[i]
           /\ \A i \in 1..(Len(s) + Len(t)) : i > Len(s) => (s \o t)[i] = t[i - Len(s)]
<1>1. PICK T : s \in Seq(T)
    BY DEF IsSeq
<1>2. PICK U : t \in Seq(U)
    BY DEF IsSeq
<1>3. s \in Seq(T \cup U) /\ t \in Seq(T \cup U)
    BY <1>1, <1>2
<1>4. s \o t \in Seq(T \cup U)
    BY <1>3
<1>5. IsSeq(s \o t)
    BY <1>4 DEF IsSeq
<1> QED
    BY <1>3, <1>4, <1>5

\* u consists of the elements of s and then those of t.
Joined(u, s, t) ==
    /\ IsSeq(u) /\ Len(u) = Len(s) + Len(t)
    /\ Len(s) \in Nat /\ Len(t) \in Nat
    /\ \A i \in 1..Len(s) : i \in 1..Len(u) /\ u[i] = s[i]
    /\ \A i \in 1..Len(t) : Len(s) + i \in 1..Len(u) /\ u[Len(s) + i] = t[i]
    /\ \A i \in 1..Len(u) : \/ i \in 1..Len(s) /\ u[i] = s[i]
                            \/ i - Len(s) \in 1..Len(t) /\ u[i] = t[i - Len(s)]

LEMMA ConcatIs ==
    ASSUME NEW s, NEW t, IsSeq(s), IsSeq(t)
    PROVE  Joined(s \o t, s, t)
<1>1. Len(s) \in Nat /\ Len(t) \in Nat
    BY SeqDomain
<1>2. /\ IsSeq(s \o t) /\ Len(s \o t) = Len(s) + Len(t)
      /\ \A i \in 1..Len(s) : (s \o t)[i] = s[i]
      /\ \A i \in 1..Len(t) : (s \o t)[Len(s) + i] = t[i]
      /\ \A i \in 1..(Len(s) + Len(t)) : i > Len(s) => (s \o t)[i] = t[i - Len(s)]
    BY SeqConcat
<1>3. ASSUME NEW u, u = s \o t PROVE Joined(u, s, t)
    <2>1. /\ IsSeq(u) /\ Len(u) = Len(s) + Len(t)
          /\ \A i \in 1..Len(s) : u[i] = s[i]
          /\ \A i \in 1..Len(t) : u[Len(s) + i] = t[i]
          /\ \A i \in 1..(Len(s) + Len(t)) : i > Len(s) => u[i] = t[i - Len(s)]
        BY <1>2, <1>3, Zenon
    <2> QED
        BY <1>1, <2>1 DEF Joined
<1> QED
    BY <1>3, Zenon

LEMMA SeqTwo ==
    ASSUME NEW x, NEW y
    PROVE  <<x>> \o <<y>> = <<x, y>> /\ IsSeq(<<x, y>>)
<1> DEFINE u == <<x>> \o <<y>>
           v == <<x, y>>
<1>1. Joined(u, <<x>>, <<y>>)
    BY SeqOne, ConcatIs
<1> HIDE DEF u
<1>2. Len(u) = 2 /\ u[1] = x /\ u[2] = y /\ IsSeq(u)
    <2>1. 1 \in 1..1
        OBVIOUS
    <2>2. u[1] = <<x>>[1] /\ u[1 + 1] = <<y>>[1]
        BY <1>1, <2>1, SeqOne DEF Joined
    <2> QED
        BY <1>1, <2>2, SeqOne DEF Joined
<1>3. Len(v) = 2 /\ v[1] = x /\ v[2] = y /\ v \in Seq({x, y})
    OBVIOUS
<1>4. IsSeq(v)
    BY <1>3 DEF IsSeq
<1> HIDE DEF v
<1>5. u = v
    BY <1>2, <1>3, <1>4, SameSeq
<1> QED
    BY <1>4, <1>5 DEF u, v

LEMMA SeqAppend ==
    ASSUME NEW s, NEW x, IsSeq(s)
    PROVE  /\ Append(s, x) = s \o <<x>>
           /\ IsSeq(Append(s, x)) /\ Len(Append(s, x)) = Len(s) + 1
           /\ \A i \in 1..Len(s) : Append(s, x)[i] = s[i]
           /\ Append(s, x)[Len(s) + 1] = x
<1>1. PICK T : s \in Seq(T)
    BY DEF IsSeq
<1>2. s \in Seq(T \cup {x}) /\ Append(s, x) \in Seq(T \cup {x}) /\ <<x>> \in Seq(T \cup {x})
    BY <1>1
<1>3. IsSeq(Append(s, x))
    BY <1>2 DEF IsSeq
<1>4. Append(s, x) = s \o <<x>>
    BY <1>2
<1> QED
    BY <1>2, <1>3, <1>4

LEMMA ConcatEmpty ==
    ASSUME NEW s, IsSeq(s)
    PROVE  s \o <<>> = s /\ <<>> \o s = s
BY DEF IsSeq

LEMMA ConcatAssoc ==
    ASSUME NEW s, NEW t, NEW u, IsSeq(s), IsSeq(t), IsSeq(u)
    PROVE  (s \o t) \o u = s \o (t \o u)
<1>1. PICK T : s \in Seq(T)
    BY DEF IsSeq
<1>2. PICK U : t \in Seq(U)
    BY DEF IsSeq
<1>3. PICK V : u \in Seq(V)
    BY DEF IsSeq
<1>4. /\ s \in Seq(T \cup U \cup V) /\ t \in Seq(T \cup U \cup V)
      /\ u \in Seq(T \cup U \cup V)
    BY <1>1, <1>2, <1>3
<1> QED
    BY <1>4

---------------------------------------------------------------------------
(* FlattenSeq, round by round.                                             *)

\* The recursive function of FlattenSeq exists: by induction, a function for n
\* rounds is one for n + 1 once it is extended.
LEMMA FlattenExists ==
    ASSUME NEW ss, NEW n \in Nat
    PROVE  \E f : f = [i \in 1..n |-> IF i = 1 THEN ss[i] ELSE f[i - 1] \o ss[i]]
<1> DEFINE P(f, k) == f = [i \in 1..k |-> IF i = 1 THEN ss[i] ELSE f[i - 1] \o ss[i]]
           S == {k \in Nat : \E f : P(f, k)}
<1>1. 0 \in S
    <2>1. P([i \in 1..0 |-> ss[i]], 0)
        OBVIOUS
    <2> QED
        BY <2>1
<1>2. ASSUME NEW k \in Nat, k \in S PROVE k + 1 \in S
    <2>1. PICK f : P(f, k)
        BY <1>2
    <2> DEFINE g == [i \in 1..(k + 1) |-> IF i = k + 1 THEN IF i = 1 THEN ss[i] ELSE f[k] \o ss[i]
                                          ELSE f[i]]
    <2>2. ASSUME NEW i \in 1..(k + 1)
          PROVE  g[i] = IF i = 1 THEN ss[i] ELSE g[i - 1] \o ss[i]
        <3>1. CASE i = k + 1 /\ i # 1
            <4>1. k \in 1..(k + 1) /\ k # k + 1 /\ i - 1 = k
                BY <3>1
            <4>2. g[i - 1] = f[k]
                BY <4>1
            <4> QED
                BY <3>1, <4>2
        <3>2. CASE i # k + 1
            <4>1. i \in 1..k /\ g[i] = f[i]
                BY <3>2
            <4>2. f[i] = IF i = 1 THEN ss[i] ELSE f[i - 1] \o ss[i]
                BY <2>1, <4>1
            <4>3. i # 1 => i - 1 \in 1..(k + 1) /\ i - 1 # k + 1
                BY <4>1
            <4>4. i # 1 => g[i - 1] = f[i - 1]
                BY <4>3
            <4> QED
                BY <4>1, <4>2, <4>4
        <3>3. CASE i = k + 1 /\ i = 1
            BY <3>3
        <3> QED
            BY <3>1, <3>2, <3>3
    <2>3. g = [i \in 1..(k + 1) |-> g[i]]
        OBVIOUS
    <2> HIDE DEF g
    <2>4. P(g, k + 1)
        BY <2>2, <2>3
    <2> HIDE DEF P
    <2>5. \E h : P(h, k + 1)
        BY <2>4, Zenon
    <2> QED
        BY <2>5
<1>3. \A k \in Nat : k \in S
    <2> HIDE DEF S
    <2> QED
        BY <1>1, <1>2, Induction
<1> QED
    BY <1>3

\* The values FlattenSeq goes through.
LEMMA Flatten ==
    ASSUME NEW ss, IsSeq(ss), \A i \in 1..Len(ss) : IsSeq(ss[i])
    PROVE  \E f : /\ f[0] = <<>> /\ f[Len(ss)] = FlattenSeq(ss)
                  /\ \A i \in 0..(Len(ss) - 1) : f[i + 1] = f[i] \o ss[i + 1]
                  /\ \A i \in 0..Len(ss) : IsSeq(f[i])
<1> DEFINE n == Len(ss)
           fl == CHOOSE f : f = [i \in 1..n |-> IF i = 1 THEN ss[i] ELSE f[i - 1] \o ss[i]]
           t == [i \in 0..n |-> IF i = 0 THEN <<>> ELSE fl[i]]
<1>1. n \in Nat /\ (n = 0 => ss = <<>>)
    BY SeqDomain
<1>2. fl = [i \in 1..n |-> IF i = 1 THEN ss[i] ELSE fl[i - 1] \o ss[i]]
    BY <1>1, FlattenExists
<1>3. FlattenSeq(ss) = IF n = 0 THEN ss ELSE fl[n]
    BY DEF FlattenSeq
<1> HIDE DEF fl
<1>4. t[0] = <<>> /\ t[n] = FlattenSeq(ss)
    BY <1>1, <1>3
<1>5. ASSUME NEW i \in 0..(n - 1) PROVE t[i + 1] = t[i] \o ss[i + 1]
    <2>1. t[i + 1] = fl[i + 1] /\ (i # 0 => t[i] = fl[i]) /\ (i = 0 => t[i] = <<>>)
        BY <1>1
    <2>2. i + 1 \in 1..n /\ (i + 1) - 1 = i /\ (i + 1 = 1 <=> i = 0)
        BY <1>1
    <2>3. \A j \in 1..n : /\ j = 1 => fl[j] = ss[j]
                          /\ j # 1 => fl[j] = fl[j - 1] \o ss[j]
        <3> DEFINE G == [j \in 1..n |-> IF j = 1 THEN ss[j] ELSE fl[j - 1] \o ss[j]]
        <3>1. \A j \in 1..n : /\ j = 1 => G[j] = ss[j]
                              /\ j # 1 => G[j] = fl[j - 1] \o ss[j]
            BY Zenon
        <3>2. fl = G
            BY <1>2, Zenon
        <3> HIDE DEF G
        <3> QED
            BY <3>1, <3>2, Zenon
    <2>4. /\ i = 0 => fl[i + 1] = ss[i + 1]
          /\ i # 0 => fl[i + 1] = fl[i] \o ss[i + 1]
        <3> HIDE DEF n
        <3>1. i # 0 => fl[i + 1] = fl[(i + 1) - 1] \o ss[i + 1]
            BY <2>2, <2>3, Zenon
        <3>2. fl[(i + 1) - 1] \o ss[i + 1] = fl[i] \o ss[i + 1]
            BY <2>2, Zenon
        <3>3. i = 0 => fl[i + 1] = ss[i + 1]
            BY <2>2, <2>3, Zenon
        <3> QED
            BY <3>1, <3>2, <3>3, Zenon
    <2>5. <<>> \o ss[i + 1] = ss[i + 1]
        <3>1. i + 1 \in 1..Len(ss)
            BY <1>1
        <3>2. IsSeq(ss[i + 1])
            BY <3>1
        <3> QED
            BY <3>2, ConcatEmpty, Zenon
    <2> HIDE DEF t, n
    <2>6. CASE i = 0
        BY <2>1, <2>4, <2>5, <2>6, Zenon
    <2>7. CASE i # 0
        BY <2>1, <2>4, <2>7, Zenon
    <2> QED
        BY <2>6, <2>7
<1> HIDE DEF t
<1>6. \A i \in 0..n : IsSeq(t[i])
    <2> DEFINE S == {k \in Nat : k <= n => IsSeq(t[k])}
    <2>1. 0 \in S
        BY <1>4, SeqEmpty
    <2>2. ASSUME NEW k \in Nat, k \in S PROVE k + 1 \in S
        <3>1. SUFFICES ASSUME k + 1 <= n PROVE IsSeq(t[k + 1])
            OBVIOUS
        <3>2. k + 1 \in 1..n /\ k <= n /\ k \in 0..(n - 1)
            BY <1>1, <3>1
        <3>3. IsSeq(t[k]) /\ IsSeq(ss[k + 1])
            BY <2>2, <3>2
        <3>4. t[k + 1] = t[k] \o ss[k + 1]
            BY <1>5, <3>2, Zenon
        <3>5. IsSeq(t[k] \o ss[k + 1])
            BY <3>3, SeqConcat, Zenon
        <3> QED
            BY <3>4, <3>5, Zenon
    <2>3. \A k \in Nat : k \in S
        <3> HIDE DEF S
        <3> QED
            BY <2>1, <2>2, Induction
    <2> QED
        BY <1>1, <2>3
<1> QED
    BY <1>4, <1>5, <1>6

\* What a flattened sequence consists of.
LEMMA FlattenRange ==
    ASSUME NEW ss, IsSeq(ss), \A i \in 1..Len(ss) : IsSeq(ss[i])
    PROVE  /\ IsSeq(FlattenSeq(ss))
           /\ \A k \in 1..Len(FlattenSeq(ss)) : \E i \in 1..Len(ss) : \E j \in 1..Len(ss[i]) :
                  FlattenSeq(ss)[k] = ss[i][j]
           /\ \A i \in 1..Len(ss) : \A j \in 1..Len(ss[i]) :
                  \E k \in 1..Len(FlattenSeq(ss)) : FlattenSeq(ss)[k] = ss[i][j]
<1>1. PICK f : /\ f[0] = <<>> /\ f[Len(ss)] = FlattenSeq(ss)
               /\ \A i \in 0..(Len(ss) - 1) : f[i + 1] = f[i] \o ss[i + 1]
               /\ \A i \in 0..Len(ss) : IsSeq(f[i])
    BY Flatten, Zenon
<1> DEFINE Sound(n) == \A k \in 1..Len(f[n]) : \E i \in 1..n : \E j \in 1..Len(ss[i]) :
                           f[n][k] = ss[i][j]
           Complete(n) == \A i \in 1..n : \A j \in 1..Len(ss[i]) :
                              \E k \in 1..Len(f[n]) : f[n][k] = ss[i][j]
           S == {n \in Nat : n <= Len(ss) => Sound(n) /\ Complete(n)}
<1>2. Len(ss) \in Nat
    BY SeqDomain
<1>3. 0 \in S
    BY <1>1, SeqEmpty
<1>4. ASSUME NEW n \in Nat, n \in S PROVE n + 1 \in S
    <2>1. SUFFICES ASSUME n + 1 <= Len(ss) PROVE Sound(n + 1) /\ Complete(n + 1)
        OBVIOUS
    <2>2. n + 1 \in 1..Len(ss) /\ n \in 0..Len(ss) /\ n \in 0..(Len(ss) - 1)
        BY <1>2, <2>1
    <2>3. IsSeq(f[n]) /\ IsSeq(ss[n + 1])
        BY <1>1, <2>2
    <2>4. f[n + 1] = f[n] \o ss[n + 1]
        BY <1>1, <2>2, Zenon
    <2>5. Sound(n) /\ Complete(n)
        BY <1>2, <1>4, <2>2
    <2>9. Joined(f[n] \o ss[n + 1], f[n], ss[n + 1])
        BY <2>3, ConcatIs, Zenon
    <2>10. Joined(f[n + 1], f[n], ss[n + 1])
        BY <2>4, <2>9, Zenon
    <2>6. /\ \A i \in 1..Len(f[n]) : i \in 1..Len(f[n + 1]) /\ f[n + 1][i] = f[n][i]
          /\ \A i \in 1..Len(ss[n + 1]) :
                 /\ Len(f[n]) + i \in 1..Len(f[n + 1])
                 /\ f[n + 1][Len(f[n]) + i] = ss[n + 1][i]
          /\ \A i \in 1..Len(f[n + 1]) :
                 \/ i \in 1..Len(f[n]) /\ f[n + 1][i] = f[n][i]
                 \/ i - Len(f[n]) \in 1..Len(ss[n + 1]) /\ f[n + 1][i] = ss[n + 1][i - Len(f[n])]
        BY <2>10, Zenon DEF Joined
    <2>7. ASSUME NEW k \in 1..Len(f[n + 1])
          PROVE  \E i \in 1..(n + 1) : \E j \in 1..Len(ss[i]) : f[n + 1][k] = ss[i][j]
        <3>1. CASE k \in 1..Len(f[n]) /\ f[n + 1][k] = f[n][k]
            <4>1. PICK i \in 1..n : \E j \in 1..Len(ss[i]) : f[n][k] = ss[i][j]
                BY <2>5, <3>1
            <4>2. i \in 1..(n + 1)
                OBVIOUS
            <4> QED
                BY <3>1, <4>1, <4>2
        <3>2. CASE k - Len(f[n]) \in 1..Len(ss[n + 1]) /\ f[n + 1][k] = ss[n + 1][k - Len(f[n])]
            <4>1. n + 1 \in 1..(n + 1)
                OBVIOUS
            <4> QED
                BY <3>2, <4>1, Zenon
        <3> QED
            BY <2>6, <3>1, <3>2
    <2>8. ASSUME NEW i \in 1..(n + 1), NEW j \in 1..Len(ss[i])
          PROVE  \E k \in 1..Len(f[n + 1]) : f[n + 1][k] = ss[i][j]
        <3>1. CASE i = n + 1
            BY <2>6, <3>1, Zenon
        <3>2. CASE i # n + 1
            <4>1. i \in 1..n
                BY <3>2
            <4>2. PICK k \in 1..Len(f[n]) : f[n][k] = ss[i][j]
                BY <2>5, <4>1, Zenon
            <4> QED
                BY <2>6, <4>2, Zenon
        <3> QED
            BY <3>1, <3>2
    <2> QED
        BY <2>7, <2>8
<1>5. \A n \in Nat : n \in S
    <2> HIDE DEF S
    <2> QED
        BY <1>3, <1>4, Induction
<1>6. Sound(Len(ss)) /\ Complete(Len(ss))
    <2>1. Len(ss) \in S
        BY <1>2, <1>5, Zenon
    <2>2. Len(ss) <= Len(ss)
        BY <1>2
    <2> QED
        BY <2>1, <2>2, Zenon
<1>7. IsSeq(f[Len(ss)])
    BY <1>1, <1>2
<1> DEFINE u == FlattenSeq(ss)
<1>8. f[Len(ss)] = u
    BY <1>1
<1> HIDE DEF u
<1>9. /\ IsSeq(u)
      /\ \A k \in 1..Len(u) : \E i \in 1..Len(ss) : \E j \in 1..Len(ss[i]) : u[k] = ss[i][j]
      /\ \A i \in 1..Len(ss) : \A j \in 1..Len(ss[i]) : \E k \in 1..Len(u) : u[k] = ss[i][j]
    BY <1>6, <1>7, <1>8
<1> QED
    BY <1>9 DEF u

---------------------------------------------------------------------------
(* FoldLeft, round by round.  A lemma cannot be about every operator, so it *)
(* is about the rounds of the loops of the engines.                        *)

\* A round of loop k, from x, with the element e.
Loop(k, x, e) ==
    CASE k.loop = "rules" -> InsertRule(x, e)
      [] k.loop = "locations" -> LongestFirst(x, e)
      [] k.loop = "haproxy" -> ParseHAProxyLine(x, e)
      [] k.loop = "nginx" -> ParseNginxLine(x, e)
      [] k.loop = "frontends" -> ConvertFrontend(k.cfg, x, e)
      [] k.loop = "listens" -> ConvertListen(x, e)

\* The function of MapThenFoldSet, for loop k over the elements D of s.
Rounds(f, k, b, s, D) ==
    f = [u \in SUBSET D |-> IF u = {} THEN b ELSE Loop(k, f[u \ {Max(u)}], s[Max(u)])]

\* It exists.
LEMMA LoopExists ==
    ASSUME NEW k, NEW b, NEW s, NEW n \in Nat
    PROVE  \E f : Rounds(f, k, b, s, 1..n)
<1> USE DEF Rounds
<1> DEFINE P(f, m) == Rounds(f, k, b, s, 1..m)
           S == {m \in Nat : \E f : P(f, m)}
<1>1. 0 \in S
    <2>1. \A u \in SUBSET (1..0) : u = {}
        OBVIOUS
    <2>2. P([u \in SUBSET (1..0) |-> b], 0)
        BY <2>1
    <2> HIDE DEF P
    <2>3. \E f : P(f, 0)
        BY <2>2
    <2> QED
        BY <2>3
<1>2. ASSUME NEW m \in Nat, m \in S PROVE m + 1 \in S
    <2>1. PICK f : P(f, m)
        BY <1>2
    <2> DEFINE g == [u \in SUBSET (1..(m + 1)) |->
                        IF m + 1 \in u THEN Loop(k, f[u \ {m + 1}], s[m + 1]) ELSE f[u]]
    <2>2. ASSUME NEW u \in SUBSET (1..(m + 1))
          PROVE  g[u] = IF u = {} THEN b ELSE Loop(k, g[u \ {Max(u)}], s[Max(u)])
        <3>1. CASE m + 1 \in u
            <4>1. Max(u) = m + 1
                <5>1. u \subseteq Nat /\ \A x \in u : x <= m + 1
                    OBVIOUS
                <5> QED
                    BY <3>1, <5>1, MaxIs
            <4>2. u \ {m + 1} \in SUBSET (1..(m + 1)) /\ m + 1 \notin u \ {m + 1}
                OBVIOUS
            <4>3. g[u \ {m + 1}] = f[u \ {m + 1}]
                BY <4>2
            <4> QED
                BY <3>1, <4>1, <4>3
        <3>2. CASE m + 1 \notin u
            <4>1. u \in SUBSET (1..m)
                BY <3>2
            <4>2. g[u] = f[u]
                BY <3>2
            <4>3. f[u] = IF u = {} THEN b ELSE Loop(k, f[u \ {Max(u)}], s[Max(u)])
                BY <2>1, <4>1
            <4>4. /\ u \ {Max(u)} \in SUBSET (1..(m + 1))
                  /\ m + 1 \notin u \ {Max(u)}
                BY <3>2
            <4>5. g[u \ {Max(u)}] = f[u \ {Max(u)}]
                BY <4>4
            <4> QED
                BY <4>2, <4>3, <4>5
        <3> QED
            BY <3>1, <3>2
    <2>3. g = [u \in SUBSET (1..(m + 1)) |-> g[u]]
        OBVIOUS
    <2> HIDE DEF g
    <2>4. P(g, m + 1)
        BY <2>2, <2>3
    <2> HIDE DEF P, Rounds
    <2>5. \E h : P(h, m + 1)
        BY <2>4, Zenon
    <2> QED
        BY <2>5
<1>3. \A m \in Nat : m \in S
    <2> HIDE DEF S
    <2> QED
        BY <1>1, <1>2, Induction
<1> QED
    BY <1>3

\* t holds the values of loop k over s, from b on.
Trace(t, k, b, s) ==
    t[0] = b /\ \A i \in Nat : i < Len(s) => t[i + 1] = Loop(k, t[i], s[i + 1])

\* The value of loop k after the elements of s.
Folded(k, b, s) == (CHOOSE t : Trace(t, k, b, s))[Len(s)]

\* The function of MapThenFoldSet goes through such values,
LEMMA LoopTrace ==
    ASSUME NEW k, NEW b, NEW s, IsSeq(s), NEW f, Rounds(f, k, b, s, 1..Len(s))
    PROVE  \E t : Trace(t, k, b, s) /\ t[Len(s)] = f[1..Len(s)]
<1> USE DEF Rounds
<1> DEFINE t == [i \in 0..Len(s) |-> f[1..i]]
<1>1. Len(s) \in Nat
    BY SeqDomain
<1>2. t[0] = b
    <2>1. 1..0 = {} /\ {} \in SUBSET (1..Len(s)) /\ 0 \in 0..Len(s)
        BY <1>1
    <2>2. f[{}] = b
        BY <2>1
    <2> QED
        BY <2>1, <2>2
<1>3. ASSUME NEW i \in Nat, i < Len(s) PROVE t[i + 1] = Loop(k, t[i], s[i + 1])
    <2>1. i + 1 \in 0..Len(s) /\ i \in 0..Len(s)
        BY <1>1, <1>3
    <2>2. /\ 1..(i + 1) \in SUBSET (1..Len(s)) /\ 1..(i + 1) # {}
          /\ (1..(i + 1)) \ {i + 1} = 1..i
        <3>1. i + 1 \in 1..(i + 1)
            OBVIOUS
        <3>2. \A x : x \in (1..(i + 1)) \ {i + 1} <=> x \in 1..i
            OBVIOUS
        <3>3. 1..(i + 1) \subseteq 1..Len(s)
            BY <1>1, <2>1
        <3> QED
            BY <3>1, <3>2, <3>3, Zenon
    <2>3. Max(1..(i + 1)) = i + 1
        <3>1. /\ 1..(i + 1) \subseteq Nat /\ i + 1 \in 1..(i + 1)
              /\ \A x \in 1..(i + 1) : x <= i + 1
            OBVIOUS
        <3> QED
            BY <3>1, MaxIs
    <2>4. f[1..(i + 1)] = Loop(k, f[(1..(i + 1)) \ {Max(1..(i + 1))}], s[Max(1..(i + 1))])
        <3> DEFINE v == 1..(i + 1)
        <3> HIDE DEF v
        <3>1. v \in SUBSET (1..Len(s)) /\ v # {}
            BY <2>2 DEF v
        <3>2. \A u \in SUBSET (1..Len(s)) :
                  u # {} => f[u] = Loop(k, f[u \ {Max(u)}], s[Max(u)])
            <4> HIDE DEF t
            <4> QED
                OBVIOUS
        <3>3. f[v] = Loop(k, f[v \ {Max(v)}], s[Max(v)])
            BY <3>1, <3>2, Zenon
        <3> QED
            BY <3>3 DEF v
    <2>5. f[1..(i + 1)] = Loop(k, f[1..i], s[i + 1])
        BY <2>2, <2>3, <2>4
    <2> QED
        BY <2>1, <2>5
<1>4. t[Len(s)] = f[1..Len(s)]
    BY <1>1
<1> HIDE DEF t
<1>5. Trace(t, k, b, s)
    BY <1>2, <1>3 DEF Trace
<1> QED
    BY <1>4, <1>5, Zenon

\* and two of them are the same as far as s goes.
LEMMA TraceUnique ==
    ASSUME NEW k, NEW b, NEW s, NEW t, NEW v, Len(s) \in Nat, Trace(t, k, b, s), Trace(v, k, b, s)
    PROVE  \A i \in 0..Len(s) : t[i] = v[i]
<1> DEFINE S == {i \in Nat : i <= Len(s) => t[i] = v[i]}
<1>1. 0 \in S
    BY DEF Trace
<1>2. ASSUME NEW i \in Nat, i \in S PROVE i + 1 \in S
    <2>1. SUFFICES ASSUME i + 1 <= Len(s) PROVE t[i + 1] = v[i + 1]
        OBVIOUS
    <2>2. i < Len(s) /\ t[i] = v[i]
        BY <1>2, <2>1
    <2> QED
        BY <2>2 DEF Trace
<1>3. \A i \in Nat : i \in S
    <2> HIDE DEF S
    <2> QED
        BY <1>1, <1>2, Induction
<1> QED
    BY <1>3

\* The values of a loop, and what they end in.
LEMMA FoldedTrace ==
    ASSUME NEW k, NEW b, NEW s, IsSeq(s)
    PROVE  \E t : Trace(t, k, b, s) /\ t[Len(s)] = Folded(k, b, s)
<1>1. Len(s) \in Nat
    BY SeqDomain
<1>2. PICK f : Rounds(f, k, b, s, 1..Len(s))
    BY <1>1, LoopExists, Zenon
<1>5. \E t : Trace(t, k, b, s)
    BY <1>2, LoopTrace, Zenon
<1> DEFINE t == CHOOSE t : Trace(t, k, b, s)
<1>3. Trace(t, k, b, s)
    BY <1>5, Zenon
<1>4. t[Len(s)] = Folded(k, b, s)
    BY Zenon DEF Folded
<1> HIDE DEF t
<1> QED
    BY <1>3, <1>4, Zenon

LEMMA FoldedIs ==
    ASSUME NEW k, NEW b, NEW s, IsSeq(s), NEW t, Trace(t, k, b, s)
    PROVE  t[Len(s)] = Folded(k, b, s)
<1>1. PICK v : Trace(v, k, b, s) /\ v[Len(s)] = Folded(k, b, s)
    BY FoldedTrace
<1>2. Len(s) \in Nat /\ Len(s) \in 0..Len(s)
    BY SeqDomain
<1> QED
    BY <1>1, <1>2, TraceUnique

\* So MapThenFoldSet over a loop is its Folded value.
LEMMA FoldedLoop ==
    ASSUME NEW k, NEW b, NEW s, IsSeq(s), NEW f, Rounds(f, k, b, s, DOMAIN s)
    PROVE  f[DOMAIN s] = Folded(k, b, s)
<1>1. DOMAIN s = 1..Len(s)
    BY SeqDomain
<1>2. Rounds(f, k, b, s, 1..Len(s))
    BY <1>1, Zenon
<1>4. PICK t : Trace(t, k, b, s) /\ t[Len(s)] = f[1..Len(s)]
    BY <1>2, LoopTrace, Zenon
<1>3. t[Len(s)] = Folded(k, b, s)
    BY <1>4, FoldedIs, Zenon
<1> QED
    BY <1>1, <1>3, <1>4, Zenon


\* Loops over nothing, one element, and one sequence after another.
LEMMA FoldedEmpty ==
    ASSUME NEW k, NEW b
    PROVE  Folded(k, b, <<>>) = b
<1>1. PICK t : Trace(t, k, b, <<>>) /\ t[Len(<<>>)] = Folded(k, b, <<>>)
    BY SeqEmpty, FoldedTrace, Zenon
<1> QED
    BY <1>1, SeqEmpty DEF Trace

LEMMA FoldedOne ==
    ASSUME NEW k, NEW b, NEW e
    PROVE  Folded(k, b, <<e>>) = Loop(k, b, e)
<1>1. PICK t : Trace(t, k, b, <<e>>) /\ t[Len(<<e>>)] = Folded(k, b, <<e>>)
    BY SeqOne, FoldedTrace, Zenon
<1>2. Len(<<e>>) = 1 /\ <<e>>[1] = e /\ 0 \in Nat /\ 0 < 1 /\ 0 + 1 = 1
    OBVIOUS
<1>3. t[0] = b /\ t[0 + 1] = Loop(k, t[0], <<e>>[0 + 1])
    BY <1>1, <1>2 DEF Trace
<1> QED
    BY <1>1, <1>2, <1>3

LEMMA FoldedConcat ==
    ASSUME NEW k, NEW b, NEW s, NEW t, IsSeq(s), IsSeq(t)
    PROVE  Folded(k, b, s \o t) = Folded(k, Folded(k, b, s), t)
<1> DEFINE u == s \o t
<1>1. Joined(u, s, t)
    BY ConcatIs
<1> HIDE DEF u
<1>2. IsSeq(u) /\ Len(u) = Len(s) + Len(t) /\ Len(s) \in Nat /\ Len(t) \in Nat
    BY <1>1 DEF Joined
<1>3. PICK v : Trace(v, k, b, u) /\ v[Len(u)] = Folded(k, b, u)
    BY <1>2, FoldedTrace
<1>4. Trace(v, k, b, s)
    <2>1. ASSUME NEW i \in Nat, i < Len(s) PROVE v[i + 1] = Loop(k, v[i], s[i + 1])
        <3>1. i + 1 \in 1..Len(s) /\ i < Len(u)
            BY <1>2, <2>1
        <3>2. u[i + 1] = s[i + 1]
            BY <1>1, <3>1 DEF Joined
        <3>3. v[i + 1] = Loop(k, v[i], u[i + 1])
            BY <1>3, <3>1 DEF Trace
        <3> QED
            BY <3>2, <3>3
    <2> QED
        BY <1>3, <2>1 DEF Trace
<1>5. v[Len(s)] = Folded(k, b, s)
    BY <1>4, FoldedIs
<1> DEFINE w == [i \in 0..Len(t) |-> v[Len(s) + i]]
           c == Folded(k, b, s)
<1> HIDE DEF c
<1>6. w[0] = c /\ w[Len(t)] = v[Len(u)]
    BY <1>2, <1>5 DEF c
<1>7. ASSUME NEW i \in Nat, i < Len(t) PROVE w[i + 1] = Loop(k, w[i], t[i + 1])
    <2>1. /\ i + 1 \in 1..Len(t) /\ i + 1 \in 0..Len(t) /\ i \in 0..Len(t)
          /\ Len(s) + i \in Nat /\ Len(s) + i < Len(u) /\ (Len(s) + i) + 1 = Len(s) + (i + 1)
        BY <1>2, <1>7
    <2>2. u[Len(s) + (i + 1)] = t[i + 1]
        BY <1>1, <2>1 DEF Joined
    <2>3. v[(Len(s) + i) + 1] = Loop(k, v[Len(s) + i], u[(Len(s) + i) + 1])
        BY <1>3, <2>1 DEF Trace
    <2>4. w[i + 1] = v[Len(s) + (i + 1)] /\ w[i] = v[Len(s) + i]
        BY <2>1
    <2> QED
        BY <2>1, <2>2, <2>3, <2>4
<1> HIDE DEF w
<1>8. Trace(w, k, c, t)
    BY <1>6, <1>7 DEF Trace
<1>9. w[Len(t)] = Folded(k, c, t)
    BY <1>8, FoldedIs
<1> QED
    BY <1>3, <1>6, <1>9 DEF u, c

\* What every round keeps holds of the end.
LEMMA LoopInvariant ==
    ASSUME NEW k, NEW b, NEW s, IsSeq(s), NEW I, b \in I,
           \A x \in I : \A i \in 1..Len(s) : Loop(k, x, s[i]) \in I
    PROVE  Folded(k, b, s) \in I
<1>1. PICK t : Trace(t, k, b, s) /\ t[Len(s)] = Folded(k, b, s)
    BY FoldedTrace
<1>2. Len(s) \in Nat
    BY SeqDomain
<1> DEFINE S == {i \in Nat : i <= Len(s) => t[i] \in I}
<1>3. 0 \in S
    BY <1>1 DEF Trace
<1>4. ASSUME NEW i \in Nat, i \in S PROVE i + 1 \in S
    <2>1. SUFFICES ASSUME i + 1 <= Len(s) PROVE t[i + 1] \in I
        OBVIOUS
    <2>2. i < Len(s) /\ i + 1 \in 1..Len(s) /\ t[i] \in I
        BY <1>2, <1>4, <2>1
    <2>3. t[i + 1] = Loop(k, t[i], s[i + 1])
        BY <1>1, <2>2 DEF Trace
    <2> QED
        BY <2>2, <2>3
<1>5. \A i \in Nat : i \in S
    <2> HIDE DEF S
    <2> QED
        BY <1>3, <1>4, Induction
<1> QED
    BY <1>1, <1>2, <1>5

---------------------------------------------------------------------------
(* The loops of the engines.                                               *)

\* renderHARouteRules: the rules, inserted one by one.
LEMMA ActiveRulesFold ==
    ASSUME NEW m, IsSeq(m.routes)
    PROVE  ActiveRules(m) = Folded([loop |-> "rules", cfg |-> ""], <<>>, m.routes)
<1> DEFINE k == [loop |-> "rules", cfg |-> ""]
           P(f) == f = [u \in SUBSET DOMAIN m.routes |->
                           IF u = {} THEN <<>> ELSE InsertRule(f[u \ {Max(u)}], m.routes[Max(u)])]
           F == CHOOSE f : P(f)
<1>1. ActiveRules(m) = F[DOMAIN m.routes]
    BY Zenon DEF ActiveRules, FoldLeft, MapThenFoldSet
<1>2. \A x, e : Loop(k, x, e) = InsertRule(x, e)
    BY DEF Loop
<1> HIDE DEF k
<1>3. Len(m.routes) \in Nat /\ DOMAIN m.routes = 1..Len(m.routes)
    BY SeqDomain
<1>4. \A f : P(f) <=> Rounds(f, k, <<>>, m.routes, DOMAIN m.routes)
    BY <1>2 DEF Rounds
<1>5. P(F)
    <2>1. \E f : Rounds(f, k, <<>>, m.routes, DOMAIN m.routes)
        BY <1>3, LoopExists
    <2> HIDE DEF P
    <2>2. \E f : P(f)
        BY <1>4, <2>1, Zenon
    <2> QED
        BY <2>2, Zenon
<1> HIDE DEF F, P
<1>6. Rounds(F, k, <<>>, m.routes, DOMAIN m.routes)
    BY <1>4, <1>5, Zenon
<1>7. F[DOMAIN m.routes] = Folded(k, <<>>, m.routes)
    BY <1>6, FoldedLoop, Zenon
<1> QED
    BY <1>1, <1>7 DEF k

\* renderNginxRouteRules: the locations, inserted one by one.
LEMMA LocationsFold ==
    ASSUME NEW s, IsSeq(s)
    PROVE  FoldLeft(LongestFirst, <<>>, s) = Folded([loop |-> "locations", cfg |-> ""], <<>>, s)
<1> DEFINE k == [loop |-> "locations", cfg |-> ""]
           P(f) == f = [u \in SUBSET DOMAIN s |->
                           IF u = {} THEN <<>> ELSE LongestFirst(f[u \ {Max(u)}], s[Max(u)])]
           F == CHOOSE f : P(f)
<1>1. FoldLeft(LongestFirst, <<>>, s) = F[DOMAIN s]
    BY Zenon DEF FoldLeft, MapThenFoldSet
<1>2. \A x, e : Loop(k, x, e) = LongestFirst(x, e)
    BY DEF Loop
<1> HIDE DEF k
<1>3. Len(s) \in Nat /\ DOMAIN s = 1..Len(s)
    BY SeqDomain
<1>4. \A f : P(f) <=> Rounds(f, k, <<>>, s, DOMAIN s)
    BY <1>2 DEF Rounds
<1>5. P(F)
    <2>1. \E f : Rounds(f, k, <<>>, s, DOMAIN s)
        BY <1>3, LoopExists
    <2> HIDE DEF P
    <2>2. \E f : P(f)
        BY <1>4, <2>1, Zenon
    <2> QED
        BY <2>2, Zenon
<1> HIDE DEF F, P
<1>6. Rounds(F, k, <<>>, s, DOMAIN s)
    BY <1>4, <1>5, Zenon
<1>7. F[DOMAIN s] = Folded(k, <<>>, s)
    BY <1>6, FoldedLoop, Zenon
<1> QED
    BY <1>1, <1>7 DEF k

\* ParseHAProxyConfig, line by line.
LEMMA ParseLinesFold ==
    ASSUME NEW c, NEW s, IsSeq(s)
    PROVE  ParseLines(c, s) = Folded([loop |-> "haproxy", cfg |-> ""], c, s)
<1> DEFINE k == [loop |-> "haproxy", cfg |-> ""]
           P(f) == f = [u \in SUBSET DOMAIN s |->
                           IF u = {} THEN c ELSE ParseHAProxyLine(f[u \ {Max(u)}], s[Max(u)])]
           F == CHOOSE f : P(f)
<1>1. ParseLines(c, s) = F[DOMAIN s]
    BY Zenon DEF ParseLines, FoldLeft, MapThenFoldSet
<1>2. \A x, e : Loop(k, x, e) = ParseHAProxyLine(x, e)
    BY DEF Loop
<1> HIDE DEF k
<1>3. Len(s) \in Nat /\ DOMAIN s = 1..Len(s)
    BY SeqDomain
<1>4. \A f : P(f) <=> Rounds(f, k, c, s, DOMAIN s)
    BY <1>2 DEF Rounds
<1>5. P(F)
    <2>1. \E f : Rounds(f, k, c, s, DOMAIN s)
        BY <1>3, LoopExists
    <2> HIDE DEF P
    <2>2. \E f : P(f)
        BY <1>4, <2>1, Zenon
    <2> QED
        BY <2>2, Zenon
<1> HIDE DEF F, P
<1>6. Rounds(F, k, c, s, DOMAIN s)
    BY <1>4, <1>5, Zenon
<1>7. F[DOMAIN s] = Folded(k, c, s)
    BY <1>6, FoldedLoop, Zenon
<1> QED
    BY <1>1, <1>7 DEF k

\* ParseNginxConfig, line by line.
LEMMA ReadLinesFold ==
    ASSUME NEW c, NEW s, IsSeq(s)
    PROVE  ReadLines(c, s) = Folded([loop |-> "nginx", cfg |-> ""], c, s)
<1> DEFINE k == [loop |-> "nginx", cfg |-> ""]
           P(f) == f = [u \in SUBSET DOMAIN s |->
                           IF u = {} THEN c ELSE ParseNginxLine(f[u \ {Max(u)}], s[Max(u)])]
           F == CHOOSE f : P(f)
<1>1. ReadLines(c, s) = F[DOMAIN s]
    BY Zenon DEF ReadLines, FoldLeft, MapThenFoldSet
<1>2. \A x, e : Loop(k, x, e) = ParseNginxLine(x, e)
    BY DEF Loop
<1> HIDE DEF k
<1>3. Len(s) \in Nat /\ DOMAIN s = 1..Len(s)
    BY SeqDomain
<1>4. \A f : P(f) <=> Rounds(f, k, c, s, DOMAIN s)
    BY <1>2 DEF Rounds
<1>5. P(F)
    <2>1. \E f : Rounds(f, k, c, s, DOMAIN s)
        BY <1>3, LoopExists
    <2> HIDE DEF P
    <2>2. \E f : P(f)
        BY <1>4, <2>1, Zenon
    <2> QED
        BY <2>2, Zenon
<1> HIDE DEF F, P
<1>6. Rounds(F, k, c, s, DOMAIN s)
    BY <1>4, <1>5, Zenon
<1>7. F[DOMAIN s] = Folded(k, c, s)
    BY <1>6, FoldedLoop, Zenon
<1> QED
    BY <1>1, <1>7 DEF k

\* HAProxyCfgToMappings, frontend by frontend
LEMMA FrontendsFold ==
    ASSUME NEW cfg, NEW b, NEW s, IsSeq(s)
    PROVE  FoldLeft(LAMBDA acc, fe : ConvertFrontend(cfg, acc, fe), b, s) = Folded([loop |-> "frontends", cfg |-> cfg], b, s)
<1> DEFINE k == [loop |-> "frontends", cfg |-> cfg]
           P(f) == f = [u \in SUBSET DOMAIN s |->
                           IF u = {} THEN b ELSE ConvertFrontend(cfg, f[u \ {Max(u)}], s[Max(u)])]
           F == CHOOSE f : P(f)
<1>1. FoldLeft(LAMBDA acc, fe : ConvertFrontend(cfg, acc, fe), b, s) = F[DOMAIN s]
    BY Zenon DEF FoldLeft, MapThenFoldSet
<1>2. \A x, e : Loop(k, x, e) = ConvertFrontend(cfg, x, e)
    BY DEF Loop
<1> HIDE DEF k
<1>3. Len(s) \in Nat /\ DOMAIN s = 1..Len(s)
    BY SeqDomain
<1>4. \A f : P(f) <=> Rounds(f, k, b, s, DOMAIN s)
    BY <1>2 DEF Rounds
<1>5. P(F)
    <2>1. \E f : Rounds(f, k, b, s, DOMAIN s)
        BY <1>3, LoopExists
    <2> HIDE DEF P
    <2>2. \E f : P(f)
        BY <1>4, <2>1, Zenon
    <2> QED
        BY <2>2, Zenon
<1> HIDE DEF F, P
<1>6. Rounds(F, k, b, s, DOMAIN s)
    BY <1>4, <1>5, Zenon
<1>7. F[DOMAIN s] = Folded(k, b, s)
    BY <1>6, FoldedLoop, Zenon
<1> QED
    BY <1>1, <1>7 DEF k

\* and listen section by listen section.
LEMMA ListensFold ==
    ASSUME NEW b, NEW s, IsSeq(s)
    PROVE  FoldLeft(ConvertListen, b, s) = Folded([loop |-> "listens", cfg |-> ""], b, s)
<1> DEFINE k == [loop |-> "listens", cfg |-> ""]
           P(f) == f = [u \in SUBSET DOMAIN s |->
                           IF u = {} THEN b ELSE ConvertListen(f[u \ {Max(u)}], s[Max(u)])]
           F == CHOOSE f : P(f)
<1>1. FoldLeft(ConvertListen, b, s) = F[DOMAIN s]
    BY Zenon DEF FoldLeft, MapThenFoldSet
<1>2. \A x, e : Loop(k, x, e) = ConvertListen(x, e)
    BY DEF Loop
<1> HIDE DEF k
<1>3. Len(s) \in Nat /\ DOMAIN s = 1..Len(s)
    BY SeqDomain
<1>4. \A f : P(f) <=> Rounds(f, k, b, s, DOMAIN s)
    BY <1>2 DEF Rounds
<1>5. P(F)
    <2>1. \E f : Rounds(f, k, b, s, DOMAIN s)
        BY <1>3, LoopExists
    <2> HIDE DEF P
    <2>2. \E f : P(f)
        BY <1>4, <2>1, Zenon
    <2> QED
        BY <2>2, Zenon
<1> HIDE DEF F, P
<1>6. Rounds(F, k, b, s, DOMAIN s)
    BY <1>4, <1>5, Zenon
<1>7. F[DOMAIN s] = Folded(k, b, s)
    BY <1>6, FoldedLoop, Zenon
<1> QED
    BY <1>1, <1>7 DEF k

---------------------------------------------------------------------------
(* First elements, parts of sequences.                                     *)

First(S) == CHOOSE i \in S : \A j \in S : i <= j

LEMMA FirstIn ==
    ASSUME NEW S, S \subseteq Nat, S # {}
    PROVE  First(S) \in S /\ First(S) \in Nat /\ \A j \in S : First(S) <= j
<1>1. \E i \in S : \A j \in S : i <= j
    BY Least
<1> QED
    BY <1>1 DEF First

LEMMA FirstIs ==
    ASSUME NEW S, S \subseteq Nat, NEW k \in S, \A j \in S : k <= j
    PROVE  First(S) = k
<1>1. First(S) \in S /\ First(S) \in Nat /\ \A j \in S : First(S) <= j
    BY FirstIn
<1>2. First(S) <= k /\ k <= First(S) /\ k \in Nat
    BY <1>1
<1> QED
    BY <1>1, <1>2

LEMMA SubSeqIs ==
    ASSUME NEW s, IsSeq(s), NEW m \in Nat, NEW n \in Nat, 1 <= m, n <= Len(s), m <= n + 1
    PROVE  /\ IsSeq(SubSeq(s, m, n)) /\ Len(SubSeq(s, m, n)) = n + 1 - m
           /\ \A i \in 1..(n + 1 - m) : SubSeq(s, m, n)[i] = s[m + i - 1]
<1>1. PICK T : s \in Seq(T)
    BY DEF IsSeq
<1>2. /\ SubSeq(s, m, n) \in Seq(T)
      /\ Len(SubSeq(s, m, n)) = n + 1 - m
      /\ \A i \in 1..(n + 1 - m) : SubSeq(s, m, n)[i] = s[m + i - 1]
    BY <1>1
<1> QED
    BY <1>2 DEF IsSeq

\* u has the elements of s and l.
Insertion(u, s, l) ==
    /\ IsSeq(u)
    /\ \A i \in 1..Len(u) : u[i] = l \/ \E j \in 1..Len(s) : u[i] = s[j]
    /\ \E i \in 1..Len(u) : u[i] = l
    /\ \A j \in 1..Len(s) : \E i \in 1..Len(u) : u[i] = s[j]

LEMMA InsertedParts ==
    ASSUME NEW s, NEW l, NEW k \in Nat, NEW a, NEW c, NEW d, NEW u, Len(s) \in Nat, k <= Len(s),
           Len(a) = k, \A i \in 1..k : a[i] = s[i],
           Len(c) = Len(s) - k, \A i \in 1..(Len(s) - k) : c[i] = s[k + i],
           Joined(d, a, <<l>>), Joined(u, d, c)
    PROVE  Insertion(u, s, l)
<1>8. Len(<<l>>) = 1 /\ \A i \in 1..1 : <<l>>[i] = l
    OBVIOUS
<1>9. /\ Len(d) = k + 1 /\ Len(u) = Len(s) + 1 /\ IsSeq(u)
      /\ \A i \in 1..k : d[i] = a[i]
      /\ d[k + 1] = l
    <2>1. /\ Len(d) = Len(a) + 1 /\ Len(u) = Len(d) + Len(c) /\ IsSeq(u)
          /\ \A i \in 1..Len(a) : d[i] = a[i]
        BY <1>8 DEF Joined
    <2>2. 1 \in 1..1 /\ d[Len(a) + 1] = <<l>>[1]
        BY <1>8 DEF Joined
    <2> QED
        BY <1>8, <2>1, <2>2
<1>10. /\ \A i \in 1..k : u[i] = s[i]
       /\ u[k + 1] = l
       /\ \A i \in 1..(Len(s) - k) : u[k + 1 + i] = s[k + i]
    <2>1. /\ \A i \in 1..(k + 1) : u[i] = d[i]
          /\ \A i \in 1..(Len(s) - k) : u[k + 1 + i] = c[i]
        BY <1>9 DEF Joined
    <2> QED
        BY <1>9, <2>1
<1>11. ASSUME NEW i \in 1..Len(u) PROVE u[i] = l \/ \E j \in 1..Len(s) : u[i] = s[j]
    <2>1. CASE i \in 1..k
        <3>1. i \in 1..Len(s)
            BY <2>1
        <3> QED
            BY <1>10, <2>1, <3>1
    <2>2. CASE i = k + 1
        BY <1>10, <2>2
    <2>3. CASE i > k + 1
        <3>1. PICK j \in 1..(Len(s) - k) : k + 1 + j = i
            <4>1. i - (k + 1) \in 1..(Len(s) - k) /\ k + 1 + (i - (k + 1)) = i
                BY <1>9, <2>3
            <4> QED
                BY <4>1
        <3>2. k + j \in 1..Len(s)
            OBVIOUS
        <3>3. u[i] = s[k + j]
            BY <1>10, <3>1, Zenon
        <3> QED
            BY <3>2, <3>3
    <2> QED
        BY <1>9, <2>1, <2>2, <2>3
<1>12. k + 1 \in 1..Len(u)
    BY <1>9
<1>13. ASSUME NEW j \in 1..Len(s) PROVE \E i \in 1..Len(u) : u[i] = s[j]
    <2>1. CASE j <= k
        <3>1. j \in 1..k /\ j \in 1..Len(u)
            BY <1>9, <2>1
        <3> QED
            BY <1>10, <3>1
    <2>2. CASE j > k
        <3>1. PICK i \in 1..(Len(s) - k) : k + i = j
            <4>1. j - k \in 1..(Len(s) - k) /\ k + (j - k) = j
                BY <2>2
            <4> QED
                BY <4>1
        <3>2. k + 1 + i \in 1..Len(u)
            BY <1>9
        <3>3. u[k + 1 + i] = s[j]
            BY <1>10, <3>1, Zenon
        <3> QED
            BY <3>2, <3>3
    <2> QED
        BY <2>1, <2>2
<1> QED
    BY <1>9, <1>10, <1>11, <1>12, <1>13 DEF Insertion

LEMMA Inserted ==
    ASSUME NEW s, IsSeq(s), NEW l, NEW k \in 0..Len(s)
    PROVE  Insertion(SubSeq(s, 1, k) \o <<l>> \o SubSeq(s, k + 1, Len(s)), s, l)
<1> DEFINE a == SubSeq(s, 1, k)
           c == SubSeq(s, k + 1, Len(s))
           d == a \o <<l>>
           u == d \o c
<1>1. Len(s) \in Nat /\ k \in Nat /\ k <= Len(s)
    BY SeqDomain
<1>2. /\ IsSeq(a) /\ Len(a) = k
      /\ \A i \in 1..k : a[i] = s[i]
    BY <1>1, SubSeqIs
<1>3. /\ IsSeq(c) /\ Len(c) = Len(s) - k
      /\ \A i \in 1..(Len(s) - k) : c[i] = s[k + i]
    BY <1>1, SubSeqIs
<1> HIDE DEF a, c
<1>4. Joined(d, a, <<l>>)
    BY <1>2, SeqOne, ConcatIs
<1> HIDE DEF d
<1>7. IsSeq(d)
    BY <1>4 DEF Joined
<1>5. Joined(u, d, c)
    BY <1>3, <1>7, ConcatIs
<1> HIDE DEF u
<1>6. Insertion(u, s, l)
    BY <1>1, <1>2, <1>3, <1>4, <1>5, InsertedParts
<1> QED
    BY <1>6 DEF u, d, a, c

\* The place where an insertion goes.
LEMMA InsertPlace ==
    ASSUME NEW s, IsSeq(s), NEW T, T \subseteq DOMAIN s
    PROVE  Max({0} \cup T) \in 0..Len(s)
<1>1. Len(s) \in Nat /\ DOMAIN s = 1..Len(s)
    BY SeqDomain
<1>2. {0} \cup T \subseteq 0..Len(s) /\ {0} \cup T # {}
    BY <1>1
<1>3. Max({0} \cup T) \in {0} \cup T
    BY <1>1, <1>2, MaxExists
<1> QED
    BY <1>2, <1>3

---------------------------------------------------------------------------
(* HAProxy: the access rules.                                              *)

\* The rules inserted are rules.
LEMMA ActiveRulesSeq ==
    ASSUME NEW m, m.routes \in Seq(HaRoute)
    PROVE  ActiveRules(m) \in Seq(HaRoute)
<1> DEFINE k == [loop |-> "rules", cfg |-> ""]
<1>1. IsSeq(m.routes) /\ <<>> \in Seq(HaRoute) /\ \A i \in 1..Len(m.routes) : m.routes[i] \in HaRoute
    BY DEF IsSeq
<1>2. ActiveRules(m) = Folded(k, <<>>, m.routes)
    BY <1>1, ActiveRulesFold
<1>3. \A x, e : Loop(k, x, e) = InsertRule(x, e)
    BY DEF Loop
<1>4. ASSUME NEW s \in Seq(HaRoute), NEW e \in HaRoute PROVE InsertRule(s, e) \in Seq(HaRoute)
    <2> DEFINE T == {j \in DOMAIN s : Len(s[j].path) >= Len(e.path)}
               p == Max({0} \cup T)
    <2>1. p \in 0..Len(s)
        BY InsertPlace DEF IsSeq
    <2>2. InsertRule(s, e) = IF e.on THEN SubSeq(s, 1, p) \o <<e>> \o SubSeq(s, p + 1, Len(s))
                             ELSE s
        BY DEF InsertRule
    <2> HIDE DEF p
    <2>3. SubSeq(s, 1, p) \in Seq(HaRoute) /\ SubSeq(s, p + 1, Len(s)) \in Seq(HaRoute)
        BY <2>1
    <2>4. SubSeq(s, 1, p) \o <<e>> \in Seq(HaRoute)
        BY <2>3
    <2> QED
        BY <2>2, <2>3, <2>4
<1> HIDE DEF k
<1>5. \A x \in Seq(HaRoute) : \A i \in 1..Len(m.routes) : Loop(k, x, m.routes[i]) \in Seq(HaRoute)
    BY <1>1, <1>3, <1>4
<1>6. Folded(k, <<>>, m.routes) \in Seq(HaRoute)
    BY <1>1, <1>5, LoopInvariant
<1> QED
    BY <1>2, <1>6

\* The rules of a frontend after the access rules.
OwnRules(m, id) ==
    CASE m.proto = "tcp" -> <<Line("default_backend", BeName(id))>>
      [] m.proto # "tcp" /\ m.redirect ->
             <<Line("http-request", [do |-> "redirect", cond |-> Always])>>
      [] OTHER -> RenderHARouteRules(m, id) \o RenderHAPathRoutes(m, id)
                  \o RenderHAPathACL(m, id) \o <<Line("default_backend", BeName(id))>>

\* None of them is a refusal.
NoRefusal(l) ==
    /\ l.kw \in {"http-request", "use_backend", "default_backend"}
    /\ l.kw = "http-request" => l.arg.do \in {"redirect", "404"}
    /\ l.kw = "use_backend" => l.arg.be # <<"deny">>
    /\ l.kw = "default_backend" => l.arg # <<"deny">>
NoRefusals(s) == IsSeq(s) /\ \A i \in 1..Len(s) : NoRefusal(s[i])

LEMMA NoRefusalsConcat ==
    ASSUME NEW s, NEW t, NoRefusals(s), NoRefusals(t)
    PROVE  NoRefusals(s \o t)
<1> DEFINE u == s \o t
<1>1. Joined(u, s, t)
    BY ConcatIs DEF NoRefusals
<1> HIDE DEF u
<1>2. NoRefusals(u)
    BY <1>1 DEF NoRefusals, Joined
<1> QED
    BY <1>2 DEF u

LEMMA NoRefusalsOne ==
    ASSUME NEW l, NoRefusal(l)
    PROVE  NoRefusals(<<l>>)
<1>1. \A i \in 1..Len(<<l>>) : <<l>>[i] = l
    BY SeqOne
<1> QED
    BY <1>1, SeqOne DEF NoRefusals

LEMMA NoRefusalsNone == NoRefusals(<<>>)
BY SeqEmpty DEF NoRefusals

LEMMA BackendNames ==
    ASSUME NEW id, NEW r
    PROVE  BeName(id) # <<"deny">> /\ DynName(id) # <<"deny">> /\ Append(BeName(id), r) # <<"deny">>
<1>1. Len(<<"deny">>) = 1 /\ Len(BeName(id)) = 2 /\ Len(DynName(id)) = 3
    BY DEF BeName, DynName
<1>2. Len(Append(BeName(id), r)) = 3
    <2>1. IsSeq(BeName(id))
        <3>1. <<"be", id>> \in Seq({"be", id})
            OBVIOUS
        <3> QED
            BY <3>1 DEF BeName, IsSeq
    <2> QED
        BY <1>1, <2>1, SeqAppend
<1> QED
    BY <1>1, <1>2

\* A sequence of lines, given line by line.
LEMMA NoRefusalsFcn ==
    ASSUME NEW n \in Nat, NEW s, s = [i \in 1..n |-> s[i]], \A i \in 1..n : NoRefusal(s[i])
    PROVE  NoRefusals(s)
BY FcnSeq DEF NoRefusals

LEMMA NoRefusalsFlatten ==
    ASSUME NEW ss, IsSeq(ss), \A i \in 1..Len(ss) : NoRefusals(ss[i])
    PROVE  NoRefusals(FlattenSeq(ss))
<1> DEFINE u == FlattenSeq(ss)
<1>1. \A i \in 1..Len(ss) : IsSeq(ss[i]) /\ \A j \in 1..Len(ss[i]) : NoRefusal(ss[i][j])
    BY DEF NoRefusals
<1>2. /\ IsSeq(u)
      /\ \A k \in 1..Len(u) : \E i \in 1..Len(ss) : \E j \in 1..Len(ss[i]) : u[k] = ss[i][j]
    BY <1>1, FlattenRange
<1> HIDE DEF u
<1>3. ASSUME NEW k \in 1..Len(u) PROVE NoRefusal(u[k])
    <2>1. PICK i \in 1..Len(ss) : \E j \in 1..Len(ss[i]) : u[k] = ss[i][j]
        BY <1>2
    <2>2. PICK j \in 1..Len(ss[i]) : u[k] = ss[i][j]
        BY <2>1
    <2> QED
        BY <1>1, <2>2
<1>4. NoRefusals(u)
    BY <1>2, <1>3 DEF NoRefusals
<1> QED
    BY <1>4 DEF u

\* The rules of the routes, up to the default.
RoutingRules(m, id) ==
    RenderHARouteRules(m, id) \o RenderHAPathRoutes(m, id) \o RenderHAPathACL(m, id)

LEMMA RoutingRefusesNone ==
    ASSUME NEW m \in HaMapping, NEW id
    PROVE  NoRefusals(RoutingRules(m, id))
<1>1. m.routes \in Seq(HaRoute) /\ m.dyn \in Seq([path : Seq(STRING), upgrade : BOOLEAN])
    BY DEF HaMapping
<1>2. ASSUME NEW c PROVE NoRefusal(Line("http-request", [do |-> "404", cond |-> c]))
    BY DEF NoRefusal, Line
<1>3. NoRefusals(RenderHARouteRules(m, id))
    <2> DEFINE R == ActiveRules(m)
               s == RenderHARouteRules(m, id)
    <2>1. Len(R) \in Nat /\ DOMAIN R = 1..Len(R)
        BY <1>1, ActiveRulesSeq
    <2>2. s = [i \in 1..Len(R) |->
                LET r == R[i]
                    c == Cond("path", r.path, FALSE)
                IN  IF r.redirect THEN Line("http-request", [do |-> "redirect", cond |-> c])
                    ELSE Line("use_backend", [be |-> Append(BeName(id), r.rid), cond |-> c])]
        BY <2>1, Zenon DEF RenderHARouteRules
    <2> HIDE DEF s, R
    <2>3. ASSUME NEW i \in 1..Len(R) PROVE NoRefusal(s[i])
        <3>1. ASSUME NEW c PROVE NoRefusal(Line("http-request", [do |-> "redirect", cond |-> c]))
            BY DEF NoRefusal, Line
        <3>2. ASSUME NEW c
              PROVE  NoRefusal(Line("use_backend", [be |-> Append(BeName(id), R[i].rid), cond |-> c]))
            <4> DEFINE b == Append(BeName(id), R[i].rid)
            <4>1. b # <<"deny">>
                BY BackendNames
            <4> HIDE DEF b
            <4>2. NoRefusal(Line("use_backend", [be |-> b, cond |-> c]))
                BY <4>1 DEF NoRefusal, Line
            <4> QED
                BY <4>2 DEF b
        <3> DEFINE c == Cond("path", R[i].path, FALSE)
        <3>3. s[i] = IF R[i].redirect THEN Line("http-request", [do |-> "redirect", cond |-> c])
                     ELSE Line("use_backend", [be |-> Append(BeName(id), R[i].rid), cond |-> c])
            BY <2>2, Zenon
        <3> QED
            BY <3>1, <3>2, <3>3, Zenon
    <2>4. s = [i \in 1..Len(R) |-> s[i]]
        BY <2>2
    <2> QED
        BY <2>1, <2>3, <2>4, NoRefusalsFcn DEF s
<1>4. NoRefusals(RenderHAPathRoutes(m, id))
    <2> DEFINE ss == [i \in DOMAIN m.dyn |->
                        IF m.dyn[i].upgrade
                        THEN <<Line("http-request", [do |-> "404",
                                       cond |-> Cond("noupgrade", m.dyn[i].path, FALSE)])>>
                        ELSE <<>>]
               b == IF m.dyn = <<>> THEN <<>>
                    ELSE <<Line("use_backend", [be |-> DynName(id), cond |-> Cond("ports", m.dyn, FALSE)])>>
               c == IF m.dyn # <<>> /\ m.targets = <<>>
                    THEN <<Line("http-request", [do |-> "404", cond |-> Cond("ports", m.dyn, TRUE)])>>
                    ELSE <<>>
    <2>1. RenderHAPathRoutes(m, id) = FlattenSeq(ss) \o b \o c
        BY Zenon DEF RenderHAPathRoutes
    <2>2. Len(m.dyn) \in Nat /\ DOMAIN m.dyn = 1..Len(m.dyn)
        BY <1>1
    <2>3. \A i \in 1..Len(m.dyn) : NoRefusals(ss[i])
        BY <1>2, <2>2, NoRefusalsOne, NoRefusalsNone, Zenon
    <2>4. ss = [i \in 1..Len(m.dyn) |-> ss[i]]
        BY <2>2
    <2>5. NoRefusal(Line("use_backend", [be |-> DynName(id), cond |-> Cond("ports", m.dyn, FALSE)]))
        BY BackendNames DEF NoRefusal, Line
    <2>6. NoRefusals(b) /\ NoRefusals(c)
        BY <1>2, <2>5, NoRefusalsOne, NoRefusalsNone, Zenon
    <2> HIDE DEF ss, b, c
    <2>7. IsSeq(ss) /\ Len(ss) = Len(m.dyn)
        BY <2>2, <2>4, FcnSeq
    <2>8. NoRefusals(FlattenSeq(ss))
        BY <2>3, <2>7, NoRefusalsFlatten
    <2> QED
        BY <2>1, <2>6, <2>8, NoRefusalsConcat, Zenon
<1>5. NoRefusals(RenderHAPathACL(m, id))
    <2> DEFINE a == Line("use_backend", [be |-> BeName(id), cond |-> Cond("path", m.prefix, FALSE)])
               b == Line("http-request", [do |-> "404", cond |-> Cond("path", m.prefix, TRUE)])
    <2>1. NoRefusal(a) /\ NoRefusal(b)
        BY <1>2, BackendNames DEF NoRefusal, Line
    <2>2. RenderHAPathACL(m, id) = IF m.prefix = <<>> THEN <<>> ELSE <<a, b>>
        BY DEF RenderHAPathACL
    <2> HIDE DEF a, b
    <2>3. NoRefusals(<<a, b>>)
        <3>1. <<a>> \o <<b>> = <<a, b>>
            BY SeqTwo
        <3>2. NoRefusals(<<a>> \o <<b>>)
            BY <2>1, NoRefusalsOne, NoRefusalsConcat
        <3> QED
            BY <3>1, <3>2, Zenon
    <2> QED
        BY <2>2, <2>3, NoRefusalsNone
<1> QED
    BY <1>3, <1>4, <1>5, NoRefusalsConcat, Zenon DEF RoutingRules

LEMMA OwnRulesRefuseNone ==
    ASSUME NEW m \in HaMapping, NEW id
    PROVE  NoRefusals(OwnRules(m, id))
<1>1. NoRefusals(<<Line("default_backend", BeName(id))>>)
    <2>1. NoRefusal(Line("default_backend", BeName(id)))
        BY BackendNames DEF NoRefusal, Line
    <2> QED
        BY <2>1, NoRefusalsOne
<1>2. NoRefusals(<<Line("http-request", [do |-> "redirect", cond |-> Always])>>)
    <2>1. NoRefusal(Line("http-request", [do |-> "redirect", cond |-> Always]))
        BY DEF NoRefusal, Line
    <2> QED
        BY <2>1, NoRefusalsOne
<1>3. NoRefusals(RoutingRules(m, id) \o <<Line("default_backend", BeName(id))>>)
    BY <1>1, RoutingRefusesNone, NoRefusalsConcat, Zenon
<1> QED
    BY <1>1, <1>2, <1>3, Zenon DEF OwnRules, RoutingRules

\* The lines of the access rules.
LEMMA AccessLines ==
    ASSUME NEW m \in HaMapping
    PROVE  LET A == RenderHAAccessRules(m)
               n == Len(m.access)
               white == \E i \in 1..n : m.access[i].action = "allow"
           IN  /\ IsSeq(A) /\ n \in Nat /\ Len(A) = IF white THEN n + 1 ELSE n
               /\ \A i \in 1..n : A[i] = Line("http-request", [do |-> m.access[i].action,
                                         cond |-> Cond("src", m.access[i].src, FALSE)])
               /\ white => A[n + 1] = Line("http-request", [do |-> "deny", cond |-> Always])
<1> DEFINE n == Len(m.access)
           white == \E i \in 1..n : m.access[i].action = "allow"
           L(i) == Line("http-request", [do |-> m.access[i].action,
                                         cond |-> Cond("src", m.access[i].src, FALSE)])
           a == [i \in 1..n |-> L(i)]
           d == Line("http-request", [do |-> "deny", cond |-> Always])
           b == IF white THEN <<d>> ELSE <<>>
           A == RenderHAAccessRules(m)
<1>1. n \in Nat /\ DOMAIN m.access = 1..n
    BY DEF HaMapping
<1>2. A = a \o b
    BY <1>1, Zenon DEF RenderHAAccessRules
<1>3. \A i \in 1..n : a[i] = L(i)
    BY Zenon
<1>4. a = [i \in 1..n |-> a[i]]
    BY <1>3, Zenon
<1> HIDE DEF a, L, n
<1>5. IsSeq(a) /\ Len(a) = n
    BY <1>1, <1>4, FcnSeq
<1> HIDE DEF white
<1>6. IsSeq(b) /\ Len(b) = (IF white THEN 1 ELSE 0) /\ (white => b[1] = d)
    <2> HIDE DEF d
    <2> QED
        BY SeqOne, SeqEmpty
<1> HIDE DEF A, b
<1>7. Joined(a \o b, a, b)
    BY <1>5, <1>6, ConcatIs
<1>8. Joined(A, a, b)
    BY <1>2, <1>7, Zenon
<1>9. IsSeq(A) /\ Len(A) = (IF white THEN n + 1 ELSE n)
    BY <1>1, <1>5, <1>6, <1>8 DEF Joined
<1>10. \A i \in 1..n : A[i] = L(i)
    BY <1>3, <1>5, <1>8 DEF Joined
<1>11. white => A[n + 1] = d
    <2> HIDE DEF d
    <2>1. white => 1 \in 1..Len(b)
        BY <1>6
    <2> QED
        BY <1>5, <1>6, <1>8, <2>1 DEF Joined
<1> QED
    BY <1>1, <1>9, <1>10, <1>11 DEF A, n, white, L

\* Conditions on the source.
LEMMA MatchesSource ==
    ASSUME NEW v, NEW req
    PROVE  (Matches(Cond("src", v, FALSE), req) <=> req.src = v) /\ Matches(Always, req)
<1> DEFINE c == Cond("src", v, FALSE)
           d == Always
<1>1. c.on = "src" /\ c.v = v /\ d.on = "always"
    BY DEF Cond, Always
<1> HIDE DEF c, d
<1>2. Matches(c, req) <=> req.src = v
    BY <1>1, Zenon DEF Matches
<1>3. Matches(d, req)
    BY <1>1, Zenon DEF Matches
<1> QED
    BY <1>2, <1>3 DEF c, d

\* HAProxy refuses a client iff the access rules do.
LEMMA AccessExact ==
    ASSUME NEW m \in HaMapping, NEW id, NEW req
    PROVE  (Verdict(FrontendRules(m, id), req) = <<"deny">>) <=> Refused(m, req.src)
<1> DEFINE A == RenderHAAccessRules(m)
           O == OwnRules(m, id)
           R == FrontendRules(m, id)
           n == Len(m.access)
           white == \E i \in 1..n : m.access[i].action = "allow"
           hit == {i \in 1..n : m.access[i].src = req.src}
           http == {i \in DOMAIN R : R[i].kw = "http-request" /\ Matches(R[i].arg.cond, req)}
           use == {i \in DOMAIN R : R[i].kw = "use_backend" /\ Matches(R[i].arg.cond, req)}
           def == {i \in DOMAIN R : R[i].kw = "default_backend"}
           first(is) == R[First(is)].arg
<1>1. R = A \o O
    BY Zenon DEF FrontendRules, OwnRules
<1>2. Verdict(R, req) = IF http # {} /\ first(http).do # "allow" THEN <<first(http).do>>
                        ELSE IF use # {} THEN first(use).be
                        ELSE IF def # {} THEN first(def) ELSE <<"503">>
    BY Zenon DEF Verdict, First
<1>3. /\ IsSeq(A) /\ n \in Nat /\ Len(A) = IF white THEN n + 1 ELSE n
      /\ \A i \in 1..n : A[i] = Line("http-request", [do |-> m.access[i].action,
                                    cond |-> Cond("src", m.access[i].src, FALSE)])
      /\ white => A[n + 1] = Line("http-request", [do |-> "deny", cond |-> Always])
    BY AccessLines
<1>4. NoRefusals(O)
    BY OwnRulesRefuseNone
<1>5. /\ \A i \in 1..n : m.access[i].action \in {"allow", "deny"}
      /\ DOMAIN m.access = 1..n
    <2>1. m.access \in Seq([action : {"allow", "deny"}, src : STRING])
        BY DEF HaMapping
    <2>2. ASSUME NEW i \in 1..n PROVE m.access[i] \in [action : {"allow", "deny"}, src : STRING]
        BY <2>1, SeqElem, Zenon
    <2> HIDE DEF hit, http, use, def, first, white
    <2>3. DOMAIN m.access = 1..n
        BY <2>1
    <2>4. ASSUME NEW i \in 1..n PROVE m.access[i].action \in {"allow", "deny"}
        BY <2>2
    <2> QED
        BY <2>3, <2>4
<1> HIDE DEF A, O, R, n, white
<1>6. Joined(R, A, O)
    <2>1. Joined(A \o O, A, O)
        BY <1>3, <1>4, ConcatIs DEF NoRefusals
    <2> QED
        BY <1>1, <2>1, Zenon
<1>7. /\ IsSeq(R) /\ DOMAIN R = 1..Len(R) /\ Len(R) \in Nat /\ Len(A) \in Nat /\ Len(A) <= Len(R)
      /\ \A i \in 1..Len(A) : i \in 1..Len(R) /\ R[i] = A[i]
    BY <1>6, SeqDomain DEF Joined
<1>8. ASSUME NEW i \in 1..Len(R), i > Len(A) PROVE NoRefusal(R[i])
    <2>1. i - Len(A) \in 1..Len(O) /\ R[i] = O[i - Len(A)]
        BY <1>6, <1>7, <1>8 DEF Joined
    <2> QED
        BY <1>4, <2>1 DEF NoRefusals
<1>9. ASSUME NEW i \in 1..n
      PROVE  /\ i \in 1..Len(R) /\ R[i].kw = "http-request" /\ R[i].arg.do = m.access[i].action
             /\ Matches(R[i].arg.cond, req) <=> i \in hit
    <2>1. i \in 1..Len(A)
        BY <1>3
    <2>2. R[i] = Line("http-request", [do |-> m.access[i].action,
                                       cond |-> Cond("src", m.access[i].src, FALSE)])
        BY <1>3, <1>7, <2>1
    <2> HIDE DEF hit
    <2>3. R[i].kw = "http-request" /\ R[i].arg.do = m.access[i].action
          /\ R[i].arg.cond = Cond("src", m.access[i].src, FALSE)
        <3> DEFINE c == Cond("src", m.access[i].src, FALSE)
        <3> HIDE DEF c
        <3>1. R[i] = [kw |-> "http-request", arg |-> [do |-> m.access[i].action, cond |-> c]]
            BY <2>2 DEF Line, c
        <3>2. R[i].kw = "http-request" /\ R[i].arg.do = m.access[i].action /\ R[i].arg.cond = c
            BY <3>1
        <3> QED
            BY <3>2 DEF c
    <2>4. Matches(Cond("src", m.access[i].src, FALSE), req) <=> req.src = m.access[i].src
        BY MatchesSource, Zenon
    <2>5. Matches(R[i].arg.cond, req) <=> req.src = m.access[i].src
        BY <2>3, <2>4, Zenon
    <2> QED
        BY <1>7, <2>1, <2>3, <2>5 DEF hit
<1>10. white => /\ n + 1 \in 1..Len(R) /\ R[n + 1].kw = "http-request"
                /\ R[n + 1].arg.do = "deny" /\ Matches(R[n + 1].arg.cond, req)
    <2>1. SUFFICES ASSUME white PROVE white => /\ n + 1 \in 1..Len(R) /\ R[n + 1].kw = "http-request"
                /\ R[n + 1].arg.do = "deny" /\ Matches(R[n + 1].arg.cond, req)
        OBVIOUS
    <2>2. n + 1 \in 1..Len(A)
        BY <1>3, <2>1
    <2>3. n + 1 \in 1..Len(R) /\ R[n + 1] = Line("http-request", [do |-> "deny", cond |-> Always])
        BY <1>3, <1>7, <2>1, <2>2
    <2>4. R[n + 1].kw = "http-request" /\ R[n + 1].arg.do = "deny" /\ R[n + 1].arg.cond = Always
        BY <2>3 DEF Line
    <2> QED
        BY <2>3, <2>4, MatchesSource
<1>11. ASSUME NEW i \in 1..Len(R), R[i].kw # "http-request" PROVE i > Len(A)
    BY <1>3, <1>7, <1>9, <1>10, <1>11
<1>12. http \subseteq Nat /\ use \subseteq Nat /\ def \subseteq Nat
    BY <1>7
<1>13. use # {} => first(use).be # <<"deny">>
    <2>1. SUFFICES ASSUME use # {} PROVE first(use).be # <<"deny">>
        OBVIOUS
    <2>2. First(use) \in use
        BY <1>12, <2>1, FirstIn
    <2>3. First(use) \in 1..Len(R) /\ R[First(use)].kw = "use_backend"
        BY <1>7, <2>2
    <2> QED
        BY <1>8, <1>11, <2>3 DEF NoRefusal
<1>14. def # {} => first(def) # <<"deny">>
    <2>1. SUFFICES ASSUME def # {} PROVE first(def) # <<"deny">>
        OBVIOUS
    <2>2. First(def) \in def
        BY <1>12, <2>1, FirstIn
    <2>3. First(def) \in 1..Len(R) /\ R[First(def)].kw = "default_backend"
        BY <1>7, <2>2
    <2> QED
        BY <1>8, <1>11, <2>3 DEF NoRefusal
<1>15. (Verdict(R, req) = <<"deny">>) <=> (http # {} /\ first(http).do = "deny")
    <2> HIDE DEF http, use, def, first
    <2>1. <<"503">> # <<"deny">>
        OBVIOUS
    <2>2. \A x : <<x>> = <<"deny">> <=> x = "deny"
        OBVIOUS
    <2>3. "allow" # "deny"
        OBVIOUS
    <2> QED
        BY <1>2, <1>13, <1>14, <2>1, <2>2, <2>3, Zenon
<1>16. CASE hit # {}
    <2> DEFINE f == First(hit)
    <2>1. f \in hit /\ f \in Nat /\ \A j \in hit : f <= j
        <3>1. hit \subseteq Nat
            BY <1>3
        <3> HIDE DEF hit
        <3> QED
            BY <1>16, <3>1, FirstIn
    <2> HIDE DEF f
    <2>2. f \in http
        BY <1>7, <1>9, <2>1
    <2>3. ASSUME NEW j \in http PROVE f <= j
        <3>1. j \in Nat /\ (j <= n => j \in 1..n)
            BY <1>7
        <3> QED
            BY <1>3, <1>9, <2>1, <3>1
    <2>4. First(http) = f
        BY <1>12, <2>2, <2>3, FirstIs
    <2>5. (Verdict(R, req) = <<"deny">>) <=> m.access[f].action = "deny"
        BY <1>9, <1>15, <2>1, <2>2, <2>4
    <2>6. ASSUME NEW i PROVE i \in FirstRule(m, req.src) <=> i = f
        <3>1. ASSUME i \in FirstRule(m, req.src) PROVE i = f
            <4>1. i \in hit /\ i \in Nat /\ \A j \in 1..(i - 1) : m.access[j].src # req.src
                BY <1>3, <1>5, <3>1 DEF FirstRule
            <4>2. f <= i /\ f >= 1 /\ ~(f <= i - 1)
                BY <2>1, <4>1
            <4> QED
                BY <2>1, <4>1, <4>2
        <3>2. f \in FirstRule(m, req.src)
            <4>1. ASSUME NEW j \in 1..(f - 1) PROVE m.access[j].src # req.src
                <5>1. j \in 1..n /\ ~(f <= j)
                    BY <1>3, <2>1
                <5> QED
                    BY <2>1, <5>1
            <4> QED
                BY <1>5, <2>1, <4>1 DEF FirstRule
        <3> QED
            BY <3>1, <3>2
    <2>7. Refused(m, req.src) <=> m.access[f].action = "deny"
        BY <2>6 DEF Refused
    <2> QED
        BY <2>5, <2>7 DEF R
<1>17. CASE hit = {}
    <2>1. Refused(m, req.src) <=> white
        <3>1. FirstRule(m, req.src) = {}
            BY <1>5, <1>17 DEF FirstRule
        <3> QED
            BY <1>5, <3>1 DEF Refused, white
    <2>2. CASE white
        <3>1. n + 1 \in http
            BY <1>7, <1>10, <2>2
        <3>2. ASSUME NEW j \in http PROVE n + 1 <= j
            <4>1. j \in Nat /\ (j <= n => j \in 1..n)
                BY <1>7
            <4> QED
                BY <1>3, <1>9, <1>17, <4>1
        <3>3. First(http) = n + 1
            BY <1>12, <3>1, <3>2, FirstIs
        <3> QED
            BY <1>10, <1>15, <2>1, <2>2, <3>1, <3>3 DEF R
    <2>3. CASE ~white
        <3>1. ASSUME NEW j \in http PROVE R[j].arg.do # "deny"
            <4>1. j \in 1..Len(R) /\ (j <= n => j \in 1..n) /\ R[j].kw = "http-request"
                BY <1>7
            <4>2. j > Len(A)
                BY <1>3, <1>9, <1>17, <2>3, <4>1
            <4> QED
                BY <1>8, <4>1, <4>2 DEF NoRefusal
        <3>2. http # {} => first(http).do # "deny"
            BY <1>12, <3>1, FirstIn
        <3> QED
            BY <1>15, <2>1, <2>3, <3>2 DEF R
    <2> QED
        BY <2>2, <2>3
<1> QED
    BY <1>16, <1>17

(* The mappings the file was written from.                                 *)
HaWritten == \A i \in DOMAIN written : written[i] \in HaMappings

LEMMA HaWrittenInit == HaInit => HaWritten
<1>1. SUFFICES ASSUME HaInit PROVE HaWritten
    OBVIOUS
<1>2. PICK n \in 1..MaxHaMappings : written \in [1..n -> HaMappings]
    BY <1>1 DEF HaInit
<1> QED
    BY <1>2 DEF HaWritten

LEMMA HaWrittenNext == HaWritten /\ [HaNext]_haVars => HaWritten'
<1>1. SUFFICES ASSUME HaWritten, [HaNext]_haVars PROVE written' = written
    BY DEF HaWritten
<1> QED
    BY <1>1 DEF HaNext, WriteText, ParseText, ImportText, haVars

\* renderHAAccessRules, HAProxy: whatever a mapping has beside its access rules, a
\* client is refused exactly when its first matching access rule denies it, or when
\* none matches and some rule allows; for every set of mappings and requests.
THEOREM AccessHolds == HaSpec => []AccessEnforced
<1>1. HaWritten => AccessEnforced
    BY HaAssumption, AccessExact DEF HaWritten, AccessEnforced
<1> QED
    BY <1>1, HaWrittenInit, HaWrittenNext, PTL DEF HaSpec

---------------------------------------------------------------------------
(* Sequences that leave elements out, and prefixes.                        *)

\* F is the sequence of the e[i] for the i of D, in some order.
Selects(F, D, e) ==
    /\ IsSeq(F)
    /\ \A k \in 1..Len(F) : \E i \in D : F[k] = e[i]
    /\ \A i \in D : \E k \in 1..Len(F) : F[k] = e[i]

LEMMA FilterSeq ==
    ASSUME NEW n \in Nat, NEW ss, ss = [i \in 1..n |-> ss[i]], NEW D, D \subseteq 1..n, NEW e,
           \A i \in 1..n : ss[i] = IF i \in D THEN <<e[i]>> ELSE <<>>
    PROVE  Selects(FlattenSeq(ss), D, e)
<1>1. IsSeq(ss) /\ Len(ss) = n
    BY FcnSeq
<1>2. \A i \in 1..n : i \in D => IsSeq(ss[i]) /\ Len(ss[i]) = 1 /\ ss[i][1] = e[i]
    BY SeqOne
<1>3. \A i \in 1..n : i \notin D => IsSeq(ss[i]) /\ Len(ss[i]) = 0
    BY SeqEmpty
<1> DEFINE F == FlattenSeq(ss)
<1>4. /\ IsSeq(F)
      /\ \A k \in 1..Len(F) : \E i \in 1..n : \E j \in 1..Len(ss[i]) : F[k] = ss[i][j]
      /\ \A i \in 1..n : \A j \in 1..Len(ss[i]) : \E k \in 1..Len(F) : F[k] = ss[i][j]
    <2>1. \A i \in 1..Len(ss) : IsSeq(ss[i])
        BY <1>1, <1>2, <1>3
    <2> HIDE DEF F
    <2>2. /\ IsSeq(F)
          /\ \A k \in 1..Len(F) : \E i \in 1..Len(ss) : \E j \in 1..Len(ss[i]) : F[k] = ss[i][j]
          /\ \A i \in 1..Len(ss) : \A j \in 1..Len(ss[i]) : \E k \in 1..Len(F) : F[k] = ss[i][j]
        BY <1>1, <2>1, FlattenRange, Zenon DEF F
    <2> QED
        BY <1>1, <2>2, Zenon
<1> HIDE DEF F
<1>5. ASSUME NEW k \in 1..Len(F) PROVE \E i \in D : F[k] = e[i]
    <2>1. PICK i \in 1..n : \E j \in 1..Len(ss[i]) : F[k] = ss[i][j]
        BY <1>4
    <2>2. PICK j \in 1..Len(ss[i]) : F[k] = ss[i][j]
        BY <2>1
    <2>3. i \in D
        BY <1>3
    <2>5. Len(ss[i]) = 1
        BY <1>2, <2>3
    <2>4. j = 1
        <3>1. j \in 1..1
            BY <2>5, Zenon
        <3>2. \A x \in 1..1 : x = 1
            OBVIOUS
        <3> QED
            BY <3>1, <3>2, Zenon
    <2> QED
        BY <1>2, <2>2, <2>3, <2>4
<1>6. ASSUME NEW i \in D PROVE \E k \in 1..Len(F) : F[k] = e[i]
    <2>1. i \in 1..n /\ Len(ss[i]) = 1 /\ ss[i][1] = e[i]
        BY <1>2
    <2>2. 1 \in 1..Len(ss[i])
        BY <2>1
    <2>3. PICK k \in 1..Len(F) : F[k] = ss[i][1]
        BY <1>4, <2>1, <2>2, Zenon
    <2> QED
        BY <2>1, <2>3, Zenon
<1>7. Selects(F, D, e)
    BY <1>4, <1>5, <1>6 DEF Selects
<1> QED
    BY <1>7 DEF F

LEMMA PrefixIs ==
    ASSUME NEW s, IsSeq(s), NEW t, IsSeq(t)
    PROVE  IsPrefix(s, t) <=> Len(s) <= Len(t) /\ \A i \in 1..Len(s) : s[i] = t[i]
<1>1. Len(s) \in Nat /\ Len(t) \in Nat
    BY SeqDomain
<1> DEFINE n == Len(s)
           u == SubSeq(s, 1, n)
           v == SubSeq(t, 1, n)
<1>2. IsPrefix(s, t) <=> n <= Len(t) /\ u = v
    BY DEF IsPrefix
<1>3. ASSUME n <= Len(t) PROVE u = v <=> \A i \in 1..n : s[i] = t[i]
    <2>1. IsSeq(u) /\ Len(u) = n + 1 - 1 /\ \A i \in 1..(n + 1 - 1) : u[i] = s[1 + i - 1]
        BY <1>1, SubSeqIs
    <2>2. IsSeq(v) /\ Len(v) = n + 1 - 1 /\ \A i \in 1..(n + 1 - 1) : v[i] = t[1 + i - 1]
        BY <1>1, <1>3, SubSeqIs
    <2> HIDE DEF u, v
    <2>3. Len(u) = n /\ Len(v) = n /\ \A i \in 1..n : u[i] = s[i] /\ v[i] = t[i]
        BY <1>1, <2>1, <2>2
    <2>4. (\A i \in 1..n : u[i] = v[i]) => u = v
        BY <2>1, <2>2, <2>3, SameSeq
    <2> QED
        BY <2>3, <2>4
<1> HIDE DEF u, v
<1> QED
    BY <1>2, <1>3

LEMMA PrefixSame ==
    ASSUME NEW s, IsSeq(s), NEW t, IsSeq(t), NEW p, IsSeq(p),
           IsPrefix(s, p), IsPrefix(t, p), Len(s) = Len(t)
    PROVE  s = t
<1>1. \A i \in 1..Len(s) : s[i] = p[i]
    BY PrefixIs
<1>2. \A i \in 1..Len(t) : t[i] = p[i]
    BY PrefixIs
<1> QED
    BY <1>1, <1>2, SameSeq

\* The locations of the rules are the ones inserted.
LEMMA LocationsRange ==
    ASSUME NEW s, IsSeq(s)
    PROVE  LET u == FoldLeft(LongestFirst, <<>>, s)
           IN  /\ IsSeq(u)
               /\ \A k \in 1..Len(u) : \E i \in 1..Len(s) : u[k] = s[i]
               /\ \A i \in 1..Len(s) : \E k \in 1..Len(u) : u[k] = s[i]
<1> DEFINE kk == [loop |-> "locations", cfg |-> ""]
           u == FoldLeft(LongestFirst, <<>>, s)
<1>1. Len(s) \in Nat
    BY SeqDomain
<1>2. PICK t : Trace(t, kk, <<>>, s) /\ t[Len(s)] = Folded(kk, <<>>, s)
    BY FoldedTrace
<1>3. u = t[Len(s)]
    BY <1>2, LocationsFold, Zenon
<1>4. \A x, e : Loop(kk, x, e) = LongestFirst(x, e)
    BY DEF Loop
<1>5. ASSUME NEW x, NEW l, IsSeq(x) PROVE Insertion(LongestFirst(x, l), x, l)
    <2> DEFINE D == {j \in DOMAIN x : Len(x[j].path) >= Len(l.path)}
               p == Max({0} \cup D)
    <2>1. p \in 0..Len(x)
        BY <1>5, InsertPlace
    <2>2. LongestFirst(x, l) = SubSeq(x, 1, p) \o <<l>> \o SubSeq(x, p + 1, Len(x))
        BY Zenon DEF LongestFirst
    <2> HIDE DEF p
    <2>3. Insertion(SubSeq(x, 1, p) \o <<l>> \o SubSeq(x, p + 1, Len(x)), x, l)
        BY <1>5, <2>1, Inserted, Zenon
    <2> QED
        BY <2>2, <2>3, Zenon
<1> HIDE DEF kk, u
<1> DEFINE Good(i, x) == /\ IsSeq(x)
                         /\ \A k \in 1..Len(x) : \E j \in 1..i : x[k] = s[j]
                         /\ \A j \in 1..i : \E k \in 1..Len(x) : x[k] = s[j]
           S == {i \in Nat : i <= Len(s) => Good(i, t[i])}
<1>6. 0 \in S
    BY <1>2, SeqEmpty DEF Trace
<1>7. ASSUME NEW i \in Nat, i \in S PROVE i + 1 \in S
    <2>1. SUFFICES ASSUME i + 1 <= Len(s) PROVE Good(i + 1, t[i + 1])
        OBVIOUS
    <2>2. i < Len(s) /\ i <= Len(s)
        BY <1>1, <2>1
    <2>3. Good(i, t[i])
        BY <1>7, <2>2
    <2>4. t[i + 1] = Loop(kk, t[i], s[i + 1])
        BY <1>2, <2>2 DEF Trace
    <2> DEFINE x == t[i]
               y == t[i + 1]
               l == s[i + 1]
    <2> HIDE DEF x, y, l
    <2>5. Insertion(y, x, l)
        <3>1. IsSeq(x)
            BY <2>3 DEF x
        <3>2. y = LongestFirst(x, l)
            BY <1>4, <2>4, Zenon DEF x, y, l
        <3>3. Insertion(LongestFirst(x, l), x, l)
            BY <1>5, <3>1, Zenon
        <3> QED
            BY <3>2, <3>3, Zenon
    <2>6. Good(i, x)
        BY <2>3 DEF x
    <2>7. ASSUME NEW k \in 1..Len(y) PROVE \E j \in 1..(i + 1) : y[k] = s[j]
        <3>1. CASE y[k] = l
            <4>1. i + 1 \in 1..(i + 1)
                OBVIOUS
            <4> QED
                BY <3>1, <4>1 DEF l
        <3>2. CASE \E j \in 1..Len(x) : y[k] = x[j]
            <4>1. PICK h \in 1..Len(x) : y[k] = x[h]
                BY <3>2
            <4>2. PICK j \in 1..i : x[h] = s[j]
                BY <2>6, <4>1
            <4>3. j \in 1..(i + 1)
                OBVIOUS
            <4> QED
                BY <4>1, <4>2, <4>3
        <3> QED
            BY <2>5, <3>1, <3>2 DEF Insertion
    <2>8. ASSUME NEW j \in 1..(i + 1) PROVE \E k \in 1..Len(y) : y[k] = s[j]
        <3>1. CASE j = i + 1
            BY <2>5, <3>1 DEF Insertion, l
        <3>2. CASE j # i + 1
            <4>1. j \in 1..i
                BY <3>2
            <4>2. PICK h \in 1..Len(x) : x[h] = s[j]
                BY <2>6, <4>1
            <4> QED
                BY <2>5, <4>2 DEF Insertion
        <3> QED
            BY <3>1, <3>2
    <2>9. Good(i + 1, y)
        BY <2>5, <2>7, <2>8 DEF Insertion
    <2> QED
        BY <2>9 DEF y
<1>8. \A i \in Nat : i \in S
    <2> HIDE DEF S
    <2> QED
        BY <1>6, <1>7, Induction
<1>11. Len(s) <= Len(s)
    BY <1>1
<1>9. Len(s) \in S /\ Len(s) <= Len(s)
    BY <1>1, <1>8, <1>11, Zenon
<1>10. Good(Len(s), t[Len(s)])
    BY <1>9, Zenon
<1> QED
    BY <1>3, <1>10, Zenon DEF u

\* x is an element of u.
Has(u, x) == \E k \in 1..Len(u) : u[k] = x

LEMMA HasConcat ==
    ASSUME NEW s, NEW t, IsSeq(s), IsSeq(t)
    PROVE  IsSeq(s \o t) /\ \A x : Has(s \o t, x) <=> Has(s, x) \/ Has(t, x)
<1> DEFINE u == s \o t
<1>1. Joined(u, s, t)
    BY ConcatIs
<1> HIDE DEF u
<1>2. ASSUME NEW x PROVE Has(u, x) <=> Has(s, x) \/ Has(t, x)
    <2>1. ASSUME Has(s, x) PROVE Has(u, x)
        BY <1>1, <2>1 DEF Has, Joined
    <2>2. ASSUME Has(t, x) PROVE Has(u, x)
        BY <1>1, <2>2, Zenon DEF Has, Joined
    <2>3. ASSUME Has(u, x) PROVE Has(s, x) \/ Has(t, x)
        BY <1>1, <2>3, Zenon DEF Has, Joined
    <2> QED
        BY <2>1, <2>2, <2>3
<1>3. IsSeq(u)
    BY <1>1 DEF Joined
<1> QED
    BY <1>2, <1>3 DEF u

LEMMA HasOne ==
    ASSUME NEW y
    PROVE  IsSeq(<<y>>) /\ \A x : Has(<<y>>, x) <=> x = y
<1>1. IsSeq(<<y>>) /\ Len(<<y>>) = 1 /\ <<y>>[1] = y /\ 1 \in 1..1 /\ \A k \in 1..1 : k = 1
    BY SeqOne
<1> DEFINE u == <<y>>
<1> HIDE DEF u
<1>2. IsSeq(u) /\ Len(u) = 1 /\ u[1] = y /\ 1 \in 1..1 /\ \A k \in 1..1 : k = 1
    BY <1>1 DEF u
<1>3. \A x : Has(u, x) <=> x = y
    BY <1>2 DEF Has
<1> QED
    BY <1>2, <1>3 DEF u

LEMMA HasNone == IsSeq(<<>>) /\ \A x : ~Has(<<>>, x)
<1>1. 1..0 = {}
    OBVIOUS
<1> QED
    BY <1>1, SeqEmpty DEF Has

LEMMA HasSelected ==
    ASSUME NEW F, NEW D, NEW e, Selects(F, D, e)
    PROVE  IsSeq(F) /\ \A x : Has(F, x) <=> \E i \in D : x = e[i]
BY DEF Selects, Has

---------------------------------------------------------------------------
(* nginx: the answers of the files the panel writes.                       *)

\* allow and deny refuse whom the access rules refuse.
LEMMA NxDeniedExact ==
    ASSUME NEW m \in NxMapping, NEW s, s.access = RenderNginxAccessRules(m),
           NEW src, src # "all"
    PROVE  NxDenied(s, src) <=> NxRefused(m, src)
<1> DEFINE A == s.access
           M == m.access
           n == Len(M)
           white == \E i \in 1..n : M[i].action = "allow"
           d == [action |-> "deny", src |-> "all"]
           b == IF white THEN <<d>> ELSE <<>>
           hitS == {i \in DOMAIN A : A[i].src \in {src, "all"}}
           hit == {i \in DOMAIN M : M[i].src = src}
<1>1. M \in Seq([action : {"allow", "deny"}, src : STRING \ {"all"}])
    BY DEF NxMapping
<1>2. /\ IsSeq(M) /\ n \in Nat /\ DOMAIN M = 1..n
      /\ \A i \in 1..n : M[i] \in [action : {"allow", "deny"}, src : STRING \ {"all"}]
    BY <1>1, SeqElem, Zenon
<1>3. \A i \in 1..n : M[i].src # "all"
    BY <1>2
<1>4. A = M \o b
    BY <1>2, Zenon DEF RenderNginxAccessRules
<1>5. /\ NxDenied(s, src) <=> \E i \in hitS : A[i].action = "deny" /\ \A j \in hitS : i <= j
      /\ NxRefused(m, src) <=> IF hit # {} THEN \E i \in hit : M[i].action = "deny" /\ \A j \in hit : i <= j
                               ELSE \E i \in DOMAIN M : M[i].action = "allow"
    BY Zenon DEF NxDenied, NxRefused
<1> HIDE DEF A, M, n, white
<1>6. IsSeq(b) /\ Len(b) = (IF white THEN 1 ELSE 0) /\ (white => b[1] = d)
    <2> HIDE DEF d
    <2> QED
        BY SeqOne, SeqEmpty
<1> HIDE DEF b
<1>7. Joined(A, M, b)
    <2>1. Joined(M \o b, M, b)
        BY <1>2, <1>6, ConcatIs
    <2> QED
        BY <1>4, <2>1, Zenon
<1>8. /\ Len(A) \in Nat /\ DOMAIN A = 1..Len(A) /\ Len(A) = IF white THEN n + 1 ELSE n
      /\ \A i \in 1..n : i \in 1..Len(A) /\ A[i] = M[i]
    BY <1>2, <1>6, <1>7, SeqDomain DEF Joined, n
<1>9. white => A[n + 1].src = "all" /\ A[n + 1].action = "deny" /\ n + 1 \in 1..Len(A)
    <2>1. SUFFICES ASSUME white PROVE A[n + 1] = d /\ n + 1 \in 1..Len(A)
        OBVIOUS
    <2>2. 1 \in 1..Len(b)
        BY <1>6, <2>1
    <2>3. A[n + 1] = b[1]
        BY <1>7, <2>2 DEF Joined, n
    <2> QED
        BY <1>2, <1>6, <1>8, <2>1, <2>3
<1>10. \A i \in 1..n : i \in hitS <=> i \in hit
    BY <1>2, <1>3, <1>8
<1>11. hit \subseteq 1..n /\ \A i \in hitS : i \in 1..n \/ (white /\ i = n + 1)
    BY <1>2, <1>8
<1>12. white => n + 1 \in hitS
    BY <1>8, <1>9
<1> HIDE DEF hit, hitS, d
<1>13. CASE hit # {}
    <2> DEFINE f == First(hit)
    <2>1. f \in hit /\ f \in Nat /\ \A j \in hit : f <= j
        <3>1. hit \subseteq Nat
            BY <1>2, <1>11
        <3> QED
            BY <1>13, <3>1, FirstIn
    <2> HIDE DEF f
    <2>2. f \in 1..n /\ f \in hitS /\ A[f] = M[f]
        BY <1>8, <1>10, <1>11, <2>1
    <2>3. \A j \in hitS : f <= j
        BY <1>2, <1>10, <1>11, <2>1, <2>2
    <2>4. \A i \in hitS : (\A j \in hitS : i <= j) <=> i = f
        BY <1>2, <1>11, <2>2, <2>3
    <2>5. \A i \in hit : (\A j \in hit : i <= j) <=> i = f
        BY <1>2, <1>11, <2>1
    <2> QED
        BY <1>5, <1>13, <2>1, <2>2, <2>4, <2>5
<1>14. CASE hit = {}
    <2>1. NxRefused(m, src) <=> white
        BY <1>2, <1>5, <1>14 DEF white
    <2>2. \A i \in hitS : white /\ i = n + 1
        BY <1>10, <1>11, <1>14
    <2> QED
        BY <1>2, <1>5, <1>9, <1>12, <2>1, <2>2
<1> QED
    BY <1>13, <1>14

\* The locations of a mapping that is no redirect.
DynLoc(m, i) ==
    [regex |-> TRUE, path |-> <<"/", m.dyn[i].prefix, "/", "port">>, upgrade |-> m.dyn[i].upgrade,
     act |-> Pass(<<PathRouteHost(m)>>)]
IsDynLoc(m, l) == \E i \in DOMAIN m.dyn : l = DynLoc(m, i)
IsRuleLoc(m, id, l) == \E i \in DOMAIN m.routes : m.routes[i].on /\ l = RuleLocation(id, m.routes[i])
IsOwnLoc(m, id, l) ==
    \/ m.prefix # <<>> /\ l = Prefix(m.prefix, RenderProxyPass(m, id))
    \/ m.prefix = <<>> /\ m.targets # <<>> /\ l = Prefix(Root, RenderProxyPass(m, id))
IsFallback(m, l) ==
    \/ m.decoy # "" /\ l = Prefix(Root, DecoySite)
    \/ m.decoy = "" /\ (m.prefix # <<>> \/ m.dyn # <<>>) /\ l = Prefix(Root, Return("404"))

LEMMA ServerLocs ==
    ASSUME NEW m \in NxMapping, NEW id, ~m.redirect, NEW s, s = RenderHTTPServer(m, id)
    PROVE  /\ IsSeq(s.locs)
           /\ \A l : Has(s.locs, l) <=> \/ IsDynLoc(m, l) \/ IsRuleLoc(m, id, l)
                                        \/ IsOwnLoc(m, id, l) \/ IsFallback(m, l)
           /\ s.ups = <<>> => \A i \in DOMAIN m.routes :
                  m.routes[i].on /\ ~m.routes[i].redirect => Len(m.routes[i].targets) = 1
<1> DEFINE rules == RenderNginxRouteRules(m, id)
           dyn == RenderNginxPathRoutes(m)
           own == IF m.prefix # <<>> THEN <<Prefix(m.prefix, RenderProxyPass(m, id))>>
                  ELSE IF m.targets # <<>> THEN <<Prefix(Root, RenderProxyPass(m, id))>> ELSE <<>>
           fall == RenderNginxFallback(m)
           server == [id |-> id, listens |-> Listens(m), ssl |-> m.proto = "https",
                      access |-> RenderNginxAccessRules(m), redirect |-> m.redirect,
                      ups |-> <<>>, locs |-> <<>>]
<1>1. s = [server EXCEPT !.ups = rules.ups, !.locs = dyn \o rules.locs \o own \o fall]
    <2>1. RenderHTTPServer(m, id)
            = IF m.redirect THEN server
              ELSE [server EXCEPT !.ups = rules.ups, !.locs = dyn \o rules.locs \o own \o fall]
        BY Zenon DEF RenderHTTPServer
    <2> HIDE DEF server, rules, dyn, own, fall
    <2> QED
        BY <2>1, Zenon
<1>2. s.ups = rules.ups /\ s.locs = dyn \o rules.locs \o own \o fall
    <2> DEFINE L == dyn \o rules.locs \o own \o fall
    <2>1. s = [server EXCEPT !.ups = rules.ups, !.locs = L]
        BY <1>1
    <2> HIDE DEF L, rules
    <2> QED
        BY <2>1 DEF L
<1>3. /\ m.dyn \in Seq([prefix : STRING, upgrade : BOOLEAN, ports : SUBSET Nat]) /\ m.routes \in Seq(NxRoute)
      /\ m.decoy \in {"", "builtin", "custom"}
    BY DEF NxMapping
<1>4. Len(m.dyn) \in Nat /\ DOMAIN m.dyn = 1..Len(m.dyn) /\ Len(m.routes) \in Nat
      /\ DOMAIN m.routes = 1..Len(m.routes)
    BY <1>3, SeqElem, Zenon
<1>5. IsSeq(dyn) /\ \A l : Has(dyn, l) <=> IsDynLoc(m, l)
    <2>1. dyn = [i \in 1..Len(m.dyn) |-> DynLoc(m, i)]
        BY <1>4, Zenon DEF RenderNginxPathRoutes, DynLoc
    <2>2. \A i \in 1..Len(m.dyn) : dyn[i] = DynLoc(m, i)
        BY <2>1, Zenon
    <2>3. dyn = [i \in 1..Len(m.dyn) |-> dyn[i]]
        BY <2>1, <2>2, Zenon
    <2> HIDE DEF dyn
    <2>4. IsSeq(dyn) /\ Len(dyn) = Len(m.dyn)
        BY <1>4, <2>3, FcnSeq
    <2> QED
        BY <1>4, <2>2, <2>4 DEF Has, IsDynLoc
<1> DEFINE on == {i \in 1..Len(m.routes) : m.routes[i].on}
           e == [i \in 1..Len(m.routes) |-> RuleLocation(id, m.routes[i])]
           ls == [i \in DOMAIN m.routes |->
                     IF m.routes[i].on THEN <<RuleLocation(id, m.routes[i])>> ELSE <<>>]
           several == {i \in 1..Len(m.routes) : LET r == m.routes[i]
                                                IN  r.on /\ ~r.redirect /\ Len(r.targets) # 1}
           g == [i \in 1..Len(m.routes) |-> [name |-> RuleUp(id, m.routes[i]),
                                             targets |-> m.routes[i].targets]]
           us == [i \in DOMAIN m.routes |->
                     LET r == m.routes[i]
                     IN  IF r.on /\ ~r.redirect /\ Len(r.targets) # 1
                         THEN <<[name |-> RuleUp(id, r), targets |-> r.targets]>> ELSE <<>>]
<1>6. rules.locs = FoldLeft(LongestFirst, <<>>, FlattenSeq(ls)) /\ rules.ups = FlattenSeq(us)
    BY DEF RenderNginxRouteRules
<1>7. Selects(FlattenSeq(ls), on, e)
    <2>1. ls = [i \in 1..Len(m.routes) |-> ls[i]]
        BY <1>4
    <2>2. \A i \in 1..Len(m.routes) : ls[i] = IF i \in on THEN <<e[i]>> ELSE <<>>
        BY <1>4
    <2>3. on \subseteq 1..Len(m.routes)
        OBVIOUS
    <2> HIDE DEF ls, on, e
    <2> QED
        BY <1>4, <2>1, <2>2, <2>3, FilterSeq
<1>8. Selects(FlattenSeq(us), several, g)
    <2>1. us = [i \in 1..Len(m.routes) |-> us[i]]
        BY <1>4
    <2>2. \A i \in 1..Len(m.routes) : us[i] = IF i \in several THEN <<g[i]>> ELSE <<>>
        BY <1>4
    <2>3. several \subseteq 1..Len(m.routes)
        OBVIOUS
    <2> HIDE DEF us, several, g
    <2> QED
        BY <1>4, <2>1, <2>2, <2>3, FilterSeq
<1>9. IsSeq(rules.locs) /\ \A l : Has(rules.locs, l) <=> IsRuleLoc(m, id, l)
    <2> DEFINE F == FlattenSeq(ls)
               R == FoldLeft(LongestFirst, <<>>, F)
    <2>1. IsSeq(F) /\ \A x : Has(F, x) <=> \E i \in on : x = e[i]
        BY <1>7, HasSelected
    <2> HIDE DEF F
    <2>2. /\ IsSeq(R)
          /\ \A k \in 1..Len(R) : \E i \in 1..Len(F) : R[k] = F[i]
          /\ \A i \in 1..Len(F) : \E k \in 1..Len(R) : R[k] = F[i]
        BY <2>1, LocationsRange
    <2>3. R = rules.locs
        BY <1>6 DEF F
    <2> HIDE DEF R
    <2>4. \A x : Has(R, x) <=> Has(F, x)
        BY <2>2 DEF Has
    <2>5. \A x : (\E i \in on : x = e[i]) <=> IsRuleLoc(m, id, x)
        BY <1>4 DEF IsRuleLoc
    <2> HIDE DEF on, e, rules
    <2>6. \A x : Has(R, x) <=> IsRuleLoc(m, id, x)
        BY <2>1, <2>4, <2>5, Zenon
    <2> QED
        BY <2>2, <2>3, <2>6, Zenon
<1>10. IsSeq(own) /\ \A l : Has(own, l) <=> IsOwnLoc(m, id, l)
    BY HasOne, HasNone, Zenon DEF IsOwnLoc
<1>11. IsSeq(fall) /\ \A l : Has(fall, l) <=> IsFallback(m, l)
    BY <1>3, HasOne, HasNone, Zenon DEF IsFallback, RenderNginxFallback
<1>12. rules.ups = <<>> => several = {}
    <2>1. Len(<<>>) = 0 /\ 1..0 = {}
        OBVIOUS
    <2> DEFINE U == FlattenSeq(us)
    <2>2. Selects(U, several, g) /\ rules.ups = U
        BY <1>6, <1>8
    <2> HIDE DEF U, several, g, rules
    <2> QED
        BY <2>1, <2>2 DEF Selects
<1> HIDE DEF rules, dyn, own, fall
<1>13. IsSeq(s.locs) /\ \A l : Has(s.locs, l) <=>
             \/ IsDynLoc(m, l) \/ IsRuleLoc(m, id, l) \/ IsOwnLoc(m, id, l) \/ IsFallback(m, l)
    <2>1. /\ IsSeq(dyn \o rules.locs)
          /\ \A l : Has(dyn \o rules.locs, l) <=> IsDynLoc(m, l) \/ IsRuleLoc(m, id, l)
        BY <1>5, <1>9, HasConcat, Zenon
    <2> DEFINE a == dyn \o rules.locs
    <2> HIDE DEF a
    <2>2. /\ IsSeq(a \o own)
          /\ \A l : Has(a \o own, l) <=> IsDynLoc(m, l) \/ IsRuleLoc(m, id, l) \/ IsOwnLoc(m, id, l)
        <3>1. IsSeq(a) /\ \A l : Has(a, l) <=> IsDynLoc(m, l) \/ IsRuleLoc(m, id, l)
            BY <2>1 DEF a
        <3> QED
            BY <1>10, <3>1, HasConcat, Zenon
    <2> DEFINE c == a \o own
    <2> HIDE DEF c
    <2>3. /\ IsSeq(c \o fall)
          /\ \A l : Has(c \o fall, l) <=> \/ IsDynLoc(m, l) \/ IsRuleLoc(m, id, l)
                                          \/ IsOwnLoc(m, id, l) \/ IsFallback(m, l)
        <3>1. /\ IsSeq(c)
              /\ \A l : Has(c, l) <=> IsDynLoc(m, l) \/ IsRuleLoc(m, id, l) \/ IsOwnLoc(m, id, l)
            BY <2>2 DEF c
        <3> QED
            BY <1>11, <3>1, HasConcat, Zenon
    <2>4. s.locs = c \o fall
        BY <1>2, Zenon DEF c, a
    <2> QED
        BY <2>3, <2>4, Zenon
<1>14. s.ups = <<>> => \A i \in DOMAIN m.routes :
           m.routes[i].on /\ ~m.routes[i].redirect => Len(m.routes[i].targets) = 1
    BY <1>2, <1>4, <1>12
<1> QED
    BY <1>13, <1>14, Zenon

\* The path of a rule's location matches what the rule matches.
LEMMA RulePath ==
    ASSUME NEW p, IsPath(p), p[Len(p)] = "*" => p[Len(p) - 1] = "/"
    PROVE  LET q == RouteRulePathForNginx(p)
           IN  /\ q \in Seq(STRING) /\ Len(q) = RuleLength(p) /\ Len(q) >= 1
               /\ \A path : RuleMatches(p, path) <=> IsPrefix(q, path)
<1> DEFINE q == RouteRulePathForNginx(p)
<1>1. p \in Seq(STRING) /\ p # <<>> /\ p[1] = "/"
    BY DEF IsPath
<1>2. Len(p) \in Nat /\ Len(p) >= 1
    BY <1>1
<1>3. CASE p[Len(p)] = "*"
    <2>1. Len(p) > 1
        <3>1. Len(p) # 1
            BY <1>1, <1>3
        <3> QED
            BY <1>2, <3>1
    <2>2. q = Front(p)
        BY <1>3, <2>1 DEF RouteRulePathForNginx
    <2>3. Front(p) \in Seq(STRING) /\ Len(Front(p)) = Len(p) - 1
        BY <1>1, <2>1 DEF Front
    <2>4. Last(p) = "*"
        BY <1>3 DEF Last
    <2> HIDE DEF q
    <2>5. RuleLength(p) = Len(p) - 1 /\ \A path : RuleMatches(p, path) <=> IsPrefix(Front(p), path)
        BY <2>4 DEF RuleLength, RuleMatches
    <2> QED
        BY <1>2, <2>1, <2>2, <2>3, <2>5 DEF q
<1>4. CASE p[Len(p)] # "*"
    <2>1. q = p
        BY <1>4 DEF RouteRulePathForNginx
    <2>2. Last(p) # "*"
        BY <1>4 DEF Last
    <2> HIDE DEF q
    <2>3. RuleLength(p) = Len(p) /\ \A path : RuleMatches(p, path) <=> IsPrefix(p, path)
        BY <2>2 DEF RuleLength, RuleMatches
    <2> QED
        BY <1>1, <1>2, <2>1, <2>3 DEF q
<1> QED
    BY <1>3, <1>4

\* What is known of a server nginx has loaded when a request reaches it.
Serving(m, id, s, F, ms, req) ==
    /\ ValidNx(m) /\ ~m.redirect /\ ~s.redirect
    /\ IsPath(req.path)
    /\ IsSeq(s.locs)
    /\ \A l : Has(s.locs, l) <=> \/ IsDynLoc(m, l) \/ IsRuleLoc(m, id, l)
                                 \/ IsOwnLoc(m, id, l) \/ IsFallback(m, l)
    /\ \A i, j \in 1..Len(s.locs) :
           ~s.locs[i].regex /\ ~s.locs[j].regex /\ s.locs[i].path = s.locs[j].path => i = j
    /\ \A i \in DOMAIN m.routes :
           m.routes[i].on /\ ~m.routes[i].redirect => Len(m.routes[i].targets) = 1
    /\ \A l : Has(s.locs, l) /\ l.act.up = MainUp(id) => UpTargets(F, l.act) = m.targets
    /\ F.decoy = DecoyFiles(ms)
    /\ NxDenied(s, req.src) <=> NxRefused(m, req.src)

\* The location l is a match for the path.
Fits(s, l, path) == Has(s.locs, l) /\ IsPrefix(l.path, path)

\* The path of a port route.
LEMMA PathTuple ==
    ASSUME NEW x
    PROVE  LET p == <<"/", x, "/", "port">>
           IN  IsSeq(p) /\ Len(p) = 4 /\ p[2] = x
<1> DEFINE p == <<"/", x, "/", "port">>
<1>1. p \in Seq({"/", "port", x})
    OBVIOUS
<1>2. Len(p) = 4 /\ p[2] = x
    OBVIOUS
<1> QED
    BY <1>1, <1>2 DEF IsSeq

\* What each kind of location looks like.
LEMMA LocKinds ==
    ASSUME NEW m, ValidNx(m), NEW id, NEW l
    PROVE  /\ IsDynLoc(m, l) => /\ l.regex = TRUE /\ IsSeq(l.path)
                                /\ l.act.do = "proxy_pass" /\ l.act.up = <<>>
                                /\ l.act.to = <<PathRouteHost(m)>>
                                /\ \E i \in DOMAIN m.dyn : l = DynLoc(m, i)
           /\ IsRuleLoc(m, id, l) =>
                  \E i \in DOMAIN m.routes :
                     /\ m.routes[i].on /\ l = RuleLocation(id, m.routes[i])
                     /\ l.regex = FALSE /\ l.upgrade = FALSE
                     /\ l.path = RouteRulePathForNginx(m.routes[i].path) /\ IsSeq(l.path)
                     /\ Len(l.path) = RuleLength(m.routes[i].path) /\ Len(l.path) >= 1
                     /\ \A path : RuleMatches(m.routes[i].path, path) <=> IsPrefix(l.path, path)
           /\ IsOwnLoc(m, id, l) => /\ l.regex = FALSE /\ l.upgrade = FALSE
                                    /\ IsSeq(l.path) /\ l.act = RenderProxyPass(m, id)
                                    /\ l.path = IF m.prefix # <<>> THEN m.prefix ELSE Root
           /\ IsFallback(m, l) => /\ l.regex = FALSE /\ l.upgrade = FALSE /\ l.path = Root
                                  /\ IsSeq(l.path)
                                  /\ l.act = IF m.decoy # "" THEN DecoySite ELSE Return("404")
<1>1. /\ m.dyn \in Seq([prefix : STRING, upgrade : BOOLEAN, ports : SUBSET Nat]) /\ m.routes \in Seq(NxRoute)
      /\ m.prefix \in Seq(STRING)
    <2>1. m \in NxMapping
        BY Zenon DEF ValidNx
    <2> QED
        BY <2>1 DEF NxMapping
<1>2. /\ DOMAIN m.dyn = 1..Len(m.dyn) /\ DOMAIN m.routes = 1..Len(m.routes)
      /\ \A i \in 1..Len(m.dyn) : m.dyn[i] \in [prefix : STRING, upgrade : BOOLEAN, ports : SUBSET Nat]
    BY <1>1, SeqElem, Zenon
<1>3. IsSeq(Root) /\ IsSeq(m.prefix)
    BY <1>1, SeqOne, SeqElem, Zenon DEF Root
<1>4. ASSUME IsDynLoc(m, l)
      PROVE  /\ l.regex = TRUE /\ IsSeq(l.path)
             /\ l.act.do = "proxy_pass" /\ l.act.up = <<>>
             /\ l.act.to = <<PathRouteHost(m)>>
             /\ \E i \in DOMAIN m.dyn : l = DynLoc(m, i)
    <2>1. PICK i \in DOMAIN m.dyn : l = DynLoc(m, i)
        BY <1>4 DEF IsDynLoc
    <2> DEFINE x == m.dyn[i].prefix
               y == m.dyn[i].upgrade
               h == PathRouteHost(m)
    <2> HIDE DEF x, y, h
    <2>3. IsSeq(<<"/", x, "/", "port">>)
        BY PathTuple, Zenon
    <2>4. l = [regex |-> TRUE, path |-> <<"/", x, "/", "port">>, upgrade |-> y,
               act |-> [do |-> "proxy_pass", to |-> <<h>>, up |-> <<>>]]
        BY <2>1 DEF DynLoc, Pass, x, y, h
    <2>5. /\ l.regex = TRUE /\ IsSeq(l.path)
          /\ l.act.do = "proxy_pass" /\ l.act.up = <<>> /\ l.act.to = <<h>>
        BY <2>3, <2>4
    <2> QED
        BY <2>1, <2>5 DEF h
<1>5. ASSUME IsRuleLoc(m, id, l)
      PROVE  \E i \in DOMAIN m.routes :
                /\ m.routes[i].on /\ l = RuleLocation(id, m.routes[i])
                /\ l.regex = FALSE /\ l.upgrade = FALSE
                /\ l.path = RouteRulePathForNginx(m.routes[i].path) /\ IsSeq(l.path)
                /\ Len(l.path) = RuleLength(m.routes[i].path) /\ Len(l.path) >= 1
                /\ \A path : RuleMatches(m.routes[i].path, path) <=> IsPrefix(l.path, path)
    <2>1. PICK i \in DOMAIN m.routes : m.routes[i].on /\ l = RuleLocation(id, m.routes[i])
        BY <1>5 DEF IsRuleLoc
    <2> DEFINE p == m.routes[i].path
               q == RouteRulePathForNginx(p)
    <2>2. IsPath(p) /\ (p[Len(p)] = "*" => p[Len(p) - 1] = "/")
        BY Zenon DEF ValidNx
    <2>3. /\ q \in Seq(STRING) /\ Len(q) = RuleLength(p) /\ Len(q) >= 1
          /\ \A path : RuleMatches(p, path) <=> IsPrefix(q, path)
        BY <2>2, RulePath
    <2> HIDE DEF q, p
    <2>4. l.regex = FALSE /\ l.upgrade = FALSE /\ l.path = q
        <3> DEFINE a == CASE m.routes[i].redirect -> Return("301")
                          [] ~m.routes[i].redirect /\ Len(m.routes[i].targets) = 1 -> Pass(m.routes[i].targets)
                          [] OTHER -> PassUp(RuleUp(id, m.routes[i]))
        <3>1. l = Prefix(q, a)
            BY <2>1 DEF RuleLocation, q, p
        <3> HIDE DEF a
        <3> QED
            BY <3>1 DEF Prefix
    <2>5. /\ l.path \in Seq(STRING) /\ Len(l.path) = RuleLength(p) /\ Len(l.path) >= 1
          /\ \A path : RuleMatches(p, path) <=> IsPrefix(l.path, path)
        BY <2>3, <2>4
    <2>6. IsSeq(l.path)
        BY <2>5, SeqElem, Zenon
    <2> QED
        BY <2>1, <2>4, <2>5, <2>6 DEF p, q
<1>6. ASSUME IsOwnLoc(m, id, l)
      PROVE  /\ l.regex = FALSE /\ l.upgrade = FALSE
             /\ IsSeq(l.path) /\ l.act = RenderProxyPass(m, id)
             /\ l.path = IF m.prefix # <<>> THEN m.prefix ELSE Root
    <2> DEFINE a == RenderProxyPass(m, id)
    <2>1. \/ m.prefix # <<>> /\ l = Prefix(m.prefix, a)
          \/ m.prefix = <<>> /\ l = Prefix(Root, a)
        BY <1>6 DEF IsOwnLoc
    <2> HIDE DEF a
    <2>2. /\ l.regex = FALSE /\ l.upgrade = FALSE /\ l.act = a
          /\ l.path = IF m.prefix # <<>> THEN m.prefix ELSE Root
        BY <2>1 DEF Prefix
    <2> QED
        BY <1>1, <1>3, <2>2 DEF a
<1>7. ASSUME IsFallback(m, l)
      PROVE  /\ l.regex = FALSE /\ l.upgrade = FALSE /\ l.path = Root
             /\ IsSeq(l.path)
             /\ l.act = IF m.decoy # "" THEN DecoySite ELSE Return("404")
    <2> DEFINE a == IF m.decoy # "" THEN DecoySite ELSE Return("404")
    <2>1. l = Prefix(Root, a)
        BY <1>7, Zenon DEF IsFallback
    <2> HIDE DEF a
    <2>2. l.regex = FALSE /\ l.upgrade = FALSE /\ l.path = Root /\ l.act = a
        BY <2>1 DEF Prefix
    <2> QED
        BY <1>3, <2>2 DEF a
<1> QED
    BY <1>4, <1>5, <1>6, <1>7

\* l is the location nginx takes for the path.
Picked(s, path, l) ==
    /\ Chosen(s, path) # {}
    /\ s.locs[CHOOSE i \in Chosen(s, path) : TRUE] = l

\* The only regular expression that matches is taken.
LEMMA PickRegex ==
    ASSUME NEW s, NEW path, NEW l, IsSeq(s.locs), Fits(s, l, path), l.regex,
           \A x : Fits(s, x, path) /\ x.regex => x = l
    PROVE  Picked(s, path, l)
<1> DEFINE L == s.locs
           regex == {i \in {i \in DOMAIN L : IsPrefix(L[i].path, path)} : L[i].regex}
<1>1. DOMAIN L = 1..Len(L)
    BY SeqDomain
<1>2. \A i \in regex : L[i] = l
    <2>1. \A i \in regex : Fits(s, L[i], path) /\ L[i].regex
        BY <1>1 DEF Fits, Has
    <2> HIDE DEF L, regex
    <2> QED
        BY <2>1, Zenon
<1>3. regex # {}
    <2>1. PICK k \in 1..Len(L) : L[k] = l
        BY DEF Fits, Has
    <2>2. IsPrefix(L[k].path, path) /\ L[k].regex
        BY <2>1, Zenon DEF Fits
    <2> QED
        BY <1>1, <2>1, <2>2
<1>4. regex \subseteq Nat
    BY <1>1, SeqDomain
<1> DEFINE f == First(regex)
<1>5. f \in regex
    <2> HIDE DEF regex
    <2> QED
        BY <1>3, <1>4, FirstIn
<1>6. Chosen(s, path) = {f}
    BY <1>3, Zenon DEF Chosen, First
<1> HIDE DEF f, regex
<1>7. (CHOOSE i \in {f} : TRUE) = f
    OBVIOUS
<1> QED
    BY <1>2, <1>5, <1>6, <1>7 DEF Picked

\* Without regular expressions the longest prefix is taken: no two have one path.
LEMMA PickPrefix ==
    ASSUME NEW s, NEW path, NEW l, IsSeq(s.locs), IsSeq(path), Fits(s, l, path), IsSeq(l.path),
           \A i, j \in 1..Len(s.locs) :
               ~s.locs[i].regex /\ ~s.locs[j].regex /\ s.locs[i].path = s.locs[j].path => i = j,
           \A x : Fits(s, x, path) => ~x.regex /\ IsSeq(x.path) /\ Len(x.path) <= Len(l.path)
    PROVE  Picked(s, path, l)
<1> DEFINE L == s.locs
           match == {i \in DOMAIN L : IsPrefix(L[i].path, path)}
           C == {i \in match : \A j \in match : Len(L[j].path) <= Len(L[i].path)}
<1>1. DOMAIN L = 1..Len(L)
    BY SeqDomain
<1>2. \A i \in match : i \in 1..Len(L) /\ Fits(s, L[i], path)
    BY <1>1 DEF Fits, Has
<1>3. PICK k \in 1..Len(L) : L[k] = l
    BY DEF Fits, Has
<1>4. k \in match
    BY <1>1, <1>3, Zenon DEF Fits
<1>5. {i \in match : L[i].regex} = {}
    <2> HIDE DEF match, L
    <2> QED
        BY <1>2
<1>6. Chosen(s, path) = C
    BY <1>5, Zenon DEF Chosen
<1> HIDE DEF match
<1>7. \A i \in match : /\ ~L[i].regex /\ IsSeq(L[i].path) /\ Len(L[i].path) <= Len(L[k].path)
                       /\ IsPrefix(L[i].path, path)
    <2> HIDE DEF L
    <2> QED
        BY <1>2, <1>3, Zenon DEF Fits
<1>8. C = {k}
    <2> HIDE DEF L
    <2>1. \A i \in match : Len(L[i].path) \in Nat
        BY <1>7, SeqDomain
    <2>2. ASSUME NEW i \in C PROVE i = k
        <3>1. i \in match /\ Len(L[i].path) = Len(L[k].path)
            BY <1>4, <1>7, <2>1
        <3>2. L[i].path = L[k].path
            BY <1>4, <1>7, <3>1, PrefixSame
        <3> QED
            BY <1>2, <1>3, <1>4, <1>7, <3>1, <3>2, Zenon DEF L
    <2>3. k \in C
        BY <1>4, <1>7
    <2> QED
        BY <2>2, <2>3
<1> HIDE DEF C
<1>9. (CHOOSE i \in {k} : TRUE) = k
    OBVIOUS
<1> QED
    BY <1>3, <1>6, <1>8, <1>9 DEF Picked

\* The answer of a location to a client that is not refused.
Answer(F, l, req) ==
    IF l.act.do \in {"301", "404"} THEN <<l.act.do>>
    ELSE IF l.upgrade /\ ~req.upgrade THEN <<"404">> ELSE Content(F, l.act, req.path)

LEMMA Answers ==
    ASSUME NEW F, NEW s, NEW req, ~s.redirect, Chosen(s, req.path) # {}
    PROVE  LET l == s.locs[CHOOSE i \in Chosen(s, req.path) : TRUE]
           IN  NginxAnswer(F, s, req)
                 = IF l.act.do \in {"301", "404"} THEN <<l.act.do>>
                   ELSE IF l.upgrade /\ ~req.upgrade THEN <<"404">>
                   ELSE IF NxDenied(s, req.src) THEN <<"403">> ELSE Content(F, l.act, req.path)
<1> DEFINE is == Chosen(s, req.path)
           l == s.locs[CHOOSE i \in is : TRUE]
           X == IF NxDenied(s, req.src) THEN <<"403">> ELSE <<"default">>
           Y == IF l.act.do \in {"301", "404"} THEN <<l.act.do>>
                ELSE IF l.upgrade /\ ~req.upgrade THEN <<"404">>
                ELSE IF NxDenied(s, req.src) THEN <<"403">> ELSE Content(F, l.act, req.path)
<1>1. NginxAnswer(F, s, req) = CASE s.redirect -> <<"301">>
                                 [] ~s.redirect /\ is = {} -> X
                                 [] OTHER -> Y
    BY Zenon DEF NginxAnswer
<1> HIDE DEF X, Y
<1>2. NginxAnswer(F, s, req) = Y
    <2>1. is # {}
        OBVIOUS
    <2> HIDE DEF is
    <2> QED
        BY <1>1, <2>1
<1> QED
    BY <1>2 DEF Y

LEMMA PickedAnswers ==
    ASSUME NEW F, NEW s, NEW req, NEW l, ~s.redirect, ~NxDenied(s, req.src), Picked(s, req.path, l)
    PROVE  NginxAnswer(F, s, req) = Answer(F, l, req)
BY Answers, Zenon DEF Picked, Answer

\* Whom the access rules refuse gets no content.
LEMMA RefusedAnswers ==
    ASSUME NEW F, NEW s, NEW req, NxDenied(s, req.src)
    PROVE  NginxAnswer(F, s, req) \in {<<"403">>, <<"404">>, <<"301">>}
<1> DEFINE is == Chosen(s, req.path)
           loc == s.locs[CHOOSE i \in is : TRUE]
           a == NginxAnswer(F, s, req)
<1>1. CASE s.redirect
    <2>1. a = <<"301">>
        BY <1>1, Zenon DEF NginxAnswer
    <2> QED
        BY <2>1, Zenon
<1>2. CASE ~s.redirect /\ is = {}
    <2>1. a = <<"403">>
        BY <1>2, Zenon DEF NginxAnswer
    <2> QED
        BY <2>1, Zenon
<1>3. CASE ~s.redirect /\ is # {}
    <2>1. a = IF loc.act.do \in {"301", "404"} THEN <<loc.act.do>>
              ELSE IF loc.upgrade /\ ~req.upgrade THEN <<"404">> ELSE <<"403">>
        BY <1>3, Answers, Zenon
    <2> HIDE DEF a, loc
    <2>2. a \in {<<"403">>, <<"404">>, <<"301">>}
        BY <2>1
    <2> QED
        BY <2>2 DEF a
<1> QED
    BY <1>1, <1>2, <1>3

\* The parts of Wanted: port routes and rules that match, the longest of the rules.
DynOf(m, path) == {i \in DOMAIN m.dyn : IsPrefix(<<"/", m.dyn[i].prefix, "/", "port">>, path)}
OnOf(m, path) == {i \in DOMAIN m.routes : m.routes[i].on /\ RuleMatches(m.routes[i].path, path)}
BestOf(m, path) ==
    {i \in OnOf(m, path) : \A j \in OnOf(m, path) :
        RuleLength(m.routes[j].path) <= RuleLength(m.routes[i].path)}
InPrefix(m, path) == m.prefix # <<>> /\ IsPrefix(m.prefix, path)
RuleOf(m, path) == m.routes[CHOOSE i \in BestOf(m, path) : TRUE]
RuleWins(m, path) ==
    BestOf(m, path) # {} /\ ~(InPrefix(m, path) /\ Len(m.prefix) > RuleLength(RuleOf(m, path).path))

RuleReply(m, path) ==
    IF RuleOf(m, path).redirect THEN <<"301">> ELSE <<"targets", RuleOf(m, path).targets>>

DecoyReply(ms, m, path) ==
    IF m.decoy # "" /\ path \in {Root, Index} THEN <<"page", DecoyFiles(ms)>> ELSE <<"404">>

LEMMA WantedIs ==
    ASSUME NEW ms, NEW m, NEW req
    PROVE  LET w == Wanted(ms, m, req)
           IN  /\ DynOf(m, req.path) # {} =>
                     w = IF \E i \in DynOf(m, req.path) : m.dyn[i].upgrade /\ ~req.upgrade
                         THEN <<"404">> ELSE <<"targets", <<PathRouteHost(m)>>>>
               /\ DynOf(m, req.path) = {} /\ RuleWins(m, req.path) =>
                     w = RuleReply(m, req.path)
               /\ DynOf(m, req.path) = {} /\ ~RuleWins(m, req.path) =>
                     w = IF InPrefix(m, req.path) \/ (m.prefix = <<>> /\ m.targets # <<>>)
                         THEN <<"targets", m.targets>>
                         ELSE DecoyReply(ms, m, req.path)
<1> DEFINE D == DynOf(m, req.path)
           X == IF \E i \in D : m.dyn[i].upgrade /\ ~req.upgrade
                THEN <<"404">> ELSE <<"targets", <<PathRouteHost(m)>>>>
           Y == RuleReply(m, req.path)
           Z == IF InPrefix(m, req.path) \/ (m.prefix = <<>> /\ m.targets # <<>>)
                THEN <<"targets", m.targets>>
                ELSE DecoyReply(ms, m, req.path)
           best == BestOf(m, req.path)
           longer == InPrefix(m, req.path) /\ Len(m.prefix) > RuleLength(RuleOf(m, req.path).path)
<1>1. Wanted(ms, m, req) = CASE D # {} -> X
                             [] D = {} /\ best # {} /\ ~longer -> Y
                             [] OTHER -> Z
    BY Zenon DEF Wanted, DynOf, OnOf, BestOf, RuleOf, InPrefix, RuleReply, DecoyReply
<1>2. RuleWins(m, req.path) <=> best # {} /\ ~longer
    BY Zenon DEF RuleWins
<1> HIDE DEF X, Y, Z, D, best, longer
<1>3. /\ D # {} => Wanted(ms, m, req) = X
      /\ D = {} /\ RuleWins(m, req.path) => Wanted(ms, m, req) = Y
      /\ D = {} /\ ~RuleWins(m, req.path) => Wanted(ms, m, req) = Z
    BY <1>1, <1>2
<1> QED
    BY <1>3, Zenon DEF X, Y, Z, D

\* Among the rules that match, one is the longest.
LEMMA BestExists ==
    ASSUME NEW m, ValidNx(m), NEW path, IsPath(path), OnOf(m, path) # {}
    PROVE  BestOf(m, path) # {}
<1> DEFINE len(i) == RuleLength(m.routes[i].path)
           on == OnOf(m, path)
           S == {len(i) : i \in on}
<1>1. IsSeq(path) /\ Len(path) \in Nat
    <2>1. path \in Seq(STRING)
        BY DEF IsPath
    <2> QED
        BY <2>1, SeqElem, Zenon
<1>2. \A i \in on : len(i) \in 0..Len(path)
    <2> SUFFICES ASSUME NEW i \in on PROVE len(i) \in 0..Len(path)
        OBVIOUS
    <2> DEFINE p == m.routes[i].path
               q == RouteRulePathForNginx(p)
    <2>1. IsPath(p) /\ (p[Len(p)] = "*" => p[Len(p) - 1] = "/") /\ RuleMatches(p, path)
        BY Zenon DEF ValidNx, OnOf
    <2>2. q \in Seq(STRING) /\ Len(q) = RuleLength(p) /\ IsPrefix(q, path)
        BY <2>1, RulePath
    <2>3. IsSeq(q) /\ Len(q) \in Nat
        BY <2>2, SeqElem, Zenon
    <2>4. Len(q) <= Len(path)
        BY <1>1, <2>2, <2>3, PrefixIs
    <2> QED
        BY <1>1, <2>2, <2>3, <2>4
<1> HIDE DEF on, len
<1>3. S \subseteq 0..Len(path) /\ S # {}
    <2>1. on # {}
        BY DEF on
    <2> QED
        BY <1>2, <2>1
<1>4. Max(S) \in S /\ \A x \in S : x <= Max(S)
    <2> HIDE DEF S
    <2> QED
        BY <1>1, <1>3, MaxExists
<1>5. PICK i \in on : Max(S) = len(i)
    BY <1>4
<1>6. \A j \in on : len(j) <= len(i)
    BY <1>4, <1>5
<1> QED
    BY <1>6, Zenon DEF BestOf, on, len

LEMMA ServingPath ==
    ASSUME NEW m, NEW id, NEW s, NEW F, NEW ms, NEW req, Serving(m, id, s, F, ms, req)
    PROVE  /\ ValidNx(m) /\ IsPath(req.path) /\ IsSeq(req.path) /\ Len(req.path) \in Nat
           /\ Len(Root) = 1 /\ IsPrefix(Root, req.path)
           /\ IsSeq(m.prefix) /\ Len(m.prefix) \in Nat /\ (m.prefix # <<>> => Len(m.prefix) >= 1)
           /\ IsSeq(s.locs)
<1>1. ValidNx(m) /\ IsPath(req.path) /\ IsSeq(s.locs)
    BY Zenon DEF Serving
<1>2. req.path \in Seq(STRING) /\ req.path # <<>> /\ req.path[1] = "/"
    BY <1>1 DEF IsPath
<1>3. IsSeq(req.path) /\ Len(req.path) \in Nat /\ Len(req.path) # 0
    BY <1>2, SeqElem, SeqDomain, Zenon
<1>4. IsSeq(Root) /\ Len(Root) = 1 /\ Root[1] = "/"
    BY SeqOne DEF Root
<1>5. IsPrefix(Root, req.path)
    <2>1. IsPrefix(Root, req.path) <=> Len(Root) <= Len(req.path)
                                       /\ \A i \in 1..Len(Root) : Root[i] = req.path[i]
        BY <1>3, <1>4, PrefixIs, Zenon
    <2>2. \A i \in 1..1 : i = 1
        OBVIOUS
    <2>3. \A i \in 1..Len(Root) : Root[i] = req.path[i]
        BY <1>2, <1>4, <2>2, Zenon
    <2> QED
        BY <1>3, <1>4, <2>1, <2>3
<1>6. m.prefix \in Seq(STRING)
    <2>1. m \in NxMapping
        BY <1>1, Zenon DEF ValidNx
    <2> QED
        BY <2>1 DEF NxMapping
<1>7. IsSeq(m.prefix) /\ Len(m.prefix) \in Nat /\ (m.prefix # <<>> => Len(m.prefix) >= 1)
    BY <1>6, SeqElem, SeqDomain
<1> QED
    BY <1>1, <1>3, <1>4, <1>5, <1>7

\* A request for a port route.
LEMMA DynAnswers ==
    ASSUME NEW m, NEW id, NEW s, NEW F, NEW ms, NEW req, Serving(m, id, s, F, ms, req),
           ~NxRefused(m, req.src), DynOf(m, req.path) # {}
    PROVE  NginxAnswer(F, s, req) = Wanted(ms, m, req)
<1> DEFINE D == DynOf(m, req.path)
<1>1. PICK i \in D : TRUE
    OBVIOUS
<1> DEFINE l == DynLoc(m, i)
           path(j) == <<"/", m.dyn[j].prefix, "/", "port">>
<1>2. \A j : IsSeq(path(j)) /\ Len(path(j)) = 4 /\ path(j)[2] = m.dyn[j].prefix
    BY PathTuple
<1>3. \A j : DynLoc(m, j).path = path(j) /\ DynLoc(m, j).upgrade = m.dyn[j].upgrade
    BY DEF DynLoc
<1>4. \A j \in D : j \in DOMAIN m.dyn /\ IsPrefix(path(j), req.path)
    BY Zenon DEF DynOf
<1>5. \A j \in DOMAIN m.dyn : IsPrefix(path(j), req.path) => j = i
    <2> SUFFICES ASSUME NEW j \in DOMAIN m.dyn, IsPrefix(path(j), req.path) PROVE j = i
        OBVIOUS
    <2>1. path(j) = path(i)
        <3> HIDE DEF path
        <3> QED
            BY <1>2, <1>4, ServingPath, PrefixSame
    <2>2. m.dyn[j].prefix = m.dyn[i].prefix
        BY <1>2, <2>1, Zenon
    <2> QED
        BY <1>4, <2>2, ServingPath, Zenon DEF ValidNx
<1>6. IsDynLoc(m, l)
    BY <1>4, Zenon DEF IsDynLoc
<1>7. /\ l.regex = TRUE /\ l.act.do = "proxy_pass" /\ l.act.up = <<>>
      /\ l.act.to = <<PathRouteHost(m)>> /\ l.upgrade = m.dyn[i].upgrade
    <2> HIDE DEF l
    <2> QED
        BY <1>3, <1>6, LocKinds, ServingPath, Zenon DEF l
<1>8. Fits(s, l, req.path)
    <2>1. Has(s.locs, l)
        BY <1>6, Zenon DEF Serving
    <2> QED
        BY <1>3, <1>4, <2>1, Zenon DEF Fits
<1>9. \A x : Fits(s, x, req.path) /\ x.regex => x = l
    <2> SUFFICES ASSUME NEW x, Fits(s, x, req.path), x.regex PROVE x = l
        OBVIOUS
    <2>1. ~IsRuleLoc(m, id, x) /\ ~IsOwnLoc(m, id, x) /\ ~IsFallback(m, x)
        BY ServingPath, LocKinds, Zenon
    <2>2. IsDynLoc(m, x) /\ IsPrefix(x.path, req.path)
        BY <2>1, Zenon DEF Fits, Serving
    <2>3. PICK j \in DOMAIN m.dyn : x = DynLoc(m, j)
        BY <2>2, Zenon DEF IsDynLoc
    <2>4. IsPrefix(path(j), req.path)
        BY <1>3, <2>2, <2>3, Zenon
    <2> QED
        BY <1>5, <2>3, <2>4, Zenon
<1>10. Picked(s, req.path, l)
    <2> HIDE DEF l
    <2> QED
        BY <1>7, <1>8, <1>9, ServingPath, PickRegex, Zenon
<1>11. ~s.redirect /\ ~NxDenied(s, req.src)
    BY Zenon DEF Serving
<1>12. NginxAnswer(F, s, req) = Answer(F, l, req)
    BY <1>10, <1>11, PickedAnswers, Zenon
<1> HIDE DEF l
<1>13. Answer(F, l, req) = IF m.dyn[i].upgrade /\ ~req.upgrade THEN <<"404">>
                           ELSE <<"targets", <<PathRouteHost(m)>>>>
    <2>1. Content(F, l.act, req.path) = <<"targets", <<PathRouteHost(m)>>>>
        <3>1. l.act.do # "decoy"
            BY <1>7
        <3> QED
            BY <1>7, <3>1, Zenon DEF Content, UpTargets
    <2>2. l.act.do \notin {"301", "404"}
        BY <1>7
    <2> QED
        BY <1>7, <2>1, <2>2, Zenon DEF Answer
<1>14. (\E j \in D : m.dyn[j].upgrade /\ ~req.upgrade) <=> m.dyn[i].upgrade /\ ~req.upgrade
    BY <1>4, <1>5, Zenon
<1>15. Wanted(ms, m, req) = IF m.dyn[i].upgrade /\ ~req.upgrade THEN <<"404">>
                            ELSE <<"targets", <<PathRouteHost(m)>>>>
    <2>1. Wanted(ms, m, req) = IF \E j \in D : m.dyn[j].upgrade /\ ~req.upgrade THEN <<"404">>
                            ELSE <<"targets", <<PathRouteHost(m)>>>>
        BY WantedIs, Zenon
    <2> HIDE DEF D
    <2> QED
        BY <1>14, <2>1
<1> QED
    BY <1>12, <1>13, <1>15, Zenon

\* No location but the port routes is a longer match for the path than l.
Longest(l, m, id, path) ==
    /\ IsSeq(l.path) /\ Len(l.path) >= 1 /\ IsPrefix(l.path, path)
    /\ \A i \in OnOf(m, path) : RuleLength(m.routes[i].path) <= Len(l.path)
    /\ \A x : IsOwnLoc(m, id, x) /\ IsPrefix(x.path, path) => Len(x.path) <= Len(l.path)

AnswersAs(F, s, req, l) == NginxAnswer(F, s, req) = Answer(F, l, req)

\* Without a port route, the location of a rule, the own one or the fallback answers,
\* as long as it is the longest that fits.
LEMMA LongestAnswers ==
    ASSUME NEW m, NEW id, NEW s, NEW F, NEW ms, NEW req, Serving(m, id, s, F, ms, req),
           ~NxRefused(m, req.src), DynOf(m, req.path) = {},
           NEW l, Has(s.locs, l), Longest(l, m, id, req.path)
    PROVE  AnswersAs(F, s, req, l)
<1>0. /\ IsSeq(l.path) /\ Len(l.path) >= 1 /\ IsPrefix(l.path, req.path)
      /\ \A i \in OnOf(m, req.path) : RuleLength(m.routes[i].path) <= Len(l.path)
      /\ \A x : IsOwnLoc(m, id, x) /\ IsPrefix(x.path, req.path) => Len(x.path) <= Len(l.path)
    BY Zenon DEF Longest
<1>1. Fits(s, l, req.path)
    BY <1>0, Zenon DEF Fits
<1>2. \A x : Fits(s, x, req.path) => ~x.regex /\ IsSeq(x.path) /\ Len(x.path) <= Len(l.path)
    <2> SUFFICES ASSUME NEW x, Fits(s, x, req.path)
                 PROVE  ~x.regex /\ IsSeq(x.path) /\ Len(x.path) <= Len(l.path)
        OBVIOUS
    <2>1. /\ IsDynLoc(m, x) \/ IsRuleLoc(m, id, x) \/ IsOwnLoc(m, id, x) \/ IsFallback(m, x)
          /\ IsPrefix(x.path, req.path)
        BY Zenon DEF Fits, Serving
    <2>2. ~IsDynLoc(m, x)
        <3>1. SUFFICES ASSUME NEW i \in DOMAIN m.dyn, x = DynLoc(m, i) PROVE FALSE
            BY Zenon DEF IsDynLoc
        <3>2. DynLoc(m, i).path = <<"/", m.dyn[i].prefix, "/", "port">>
            BY DEF DynLoc
        <3> QED
            BY <2>1, <3>1, <3>2, Zenon DEF DynOf
    <2>3. CASE IsRuleLoc(m, id, x)
        <3>1. PICK i \in DOMAIN m.routes :
                 /\ m.routes[i].on /\ x.regex = FALSE /\ IsSeq(x.path)
                 /\ Len(x.path) = RuleLength(m.routes[i].path)
                 /\ \A path : RuleMatches(m.routes[i].path, path) <=> IsPrefix(x.path, path)
            BY <2>3, ServingPath, LocKinds, Zenon
        <3>2. i \in OnOf(m, req.path)
            BY <2>1, <3>1, Zenon DEF OnOf
        <3> QED
            BY <1>0, <3>1, <3>2
    <2>4. CASE IsOwnLoc(m, id, x)
        BY <1>0, <2>1, <2>4, ServingPath, LocKinds, Zenon
    <2>5. CASE IsFallback(m, x)
        <3>1. x.regex = FALSE /\ IsSeq(x.path) /\ Len(x.path) = 1
            BY <2>5, ServingPath, LocKinds, Zenon
        <3> QED
            BY <1>0, <3>1
    <2> QED
        BY <2>1, <2>2, <2>3, <2>4, <2>5
<1>3. \A i, j \in 1..Len(s.locs) :
          ~s.locs[i].regex /\ ~s.locs[j].regex /\ s.locs[i].path = s.locs[j].path => i = j
    BY Zenon DEF Serving
<1>4. Picked(s, req.path, l)
    BY <1>0, <1>1, <1>2, <1>3, ServingPath, PickPrefix, Zenon
<1>5. ~s.redirect /\ ~NxDenied(s, req.src)
    BY Zenon DEF Serving
<1> QED
    BY <1>4, <1>5, PickedAnswers, Zenon DEF AnswersAs

\* A request the longest rule answers.
LEMMA RuleAnswers ==
    ASSUME NEW m, NEW id, NEW s, NEW F, NEW ms, NEW req, Serving(m, id, s, F, ms, req),
           ~NxRefused(m, req.src), DynOf(m, req.path) = {}, RuleWins(m, req.path)
    PROVE  NginxAnswer(F, s, req) = Wanted(ms, m, req)
<1> DEFINE b == CHOOSE i \in BestOf(m, req.path) : TRUE
           r == m.routes[b]
           l == RuleLocation(id, r)
<1>1. b \in BestOf(m, req.path)
    BY Zenon DEF RuleWins
<1>2. r = RuleOf(m, req.path)
    BY Zenon DEF RuleOf
<1> HIDE DEF b
<1>3. /\ b \in DOMAIN m.routes /\ r.on /\ RuleMatches(r.path, req.path)
      /\ \A j \in OnOf(m, req.path) : RuleLength(m.routes[j].path) <= RuleLength(r.path)
    BY <1>1, Zenon DEF BestOf, OnOf
<1>4. IsRuleLoc(m, id, l)
    BY <1>3, Zenon DEF IsRuleLoc
<1> DEFINE q == RouteRulePathForNginx(r.path)
           a == CASE r.redirect -> Return("301")
                  [] ~r.redirect /\ Len(r.targets) = 1 -> Pass(r.targets)
                  [] OTHER -> PassUp(RuleUp(id, r))
<1>5. l.path = q /\ l.act = a /\ l.upgrade = FALSE
    <2>1. l = Prefix(q, a)
        BY Zenon DEF RuleLocation
    <2> HIDE DEF q, a, l
    <2> QED
        BY <2>1 DEF Prefix
<1>6. /\ IsSeq(q) /\ Len(q) = RuleLength(r.path) /\ Len(q) >= 1
      /\ IsPrefix(q, req.path)
    <2>1. IsPath(r.path) /\ (r.path[Len(r.path)] = "*" => r.path[Len(r.path) - 1] = "/")
        BY <1>3, ServingPath, Zenon DEF ValidNx
    <2>2. /\ q \in Seq(STRING) /\ Len(q) = RuleLength(r.path) /\ Len(q) >= 1
          /\ \A path : RuleMatches(r.path, path) <=> IsPrefix(q, path)
        <3> HIDE DEF r
        <3> QED
            BY <2>1, RulePath
    <2> QED
        BY <1>3, <2>2, SeqElem, Zenon
<1> HIDE DEF r, q, a, l
<1>7. \A x : IsOwnLoc(m, id, x) /\ IsPrefix(x.path, req.path) => Len(x.path) <= Len(q)
    <2> SUFFICES ASSUME NEW x, IsOwnLoc(m, id, x), IsPrefix(x.path, req.path)
                 PROVE  Len(x.path) <= Len(q)
        OBVIOUS
    <2>1. x.path = IF m.prefix # <<>> THEN m.prefix ELSE Root
        BY ServingPath, LocKinds, Zenon
    <2>2. CASE m.prefix # <<>>
        <3>1. x.path = m.prefix /\ InPrefix(m, req.path)
            BY <2>1, <2>2, Zenon DEF InPrefix
        <3>2. ~(Len(m.prefix) > RuleLength(r.path))
            BY <1>2, <3>1, Zenon DEF RuleWins
        <3>3. Len(q) \in Nat /\ Len(m.prefix) \in Nat
            BY <1>6, SeqDomain, ServingPath, Zenon
        <3> QED
            BY <1>6, <3>1, <3>2, <3>3
    <2>3. CASE m.prefix = <<>>
        <3>1. Len(x.path) = 1
            BY <2>1, <2>3, ServingPath, Zenon
        <3> QED
            BY <1>6, <3>1
    <2> QED
        BY <2>2, <2>3
<1>8. NginxAnswer(F, s, req) = Answer(F, l, req)
    <2>1. Has(s.locs, l)
        BY <1>4, Zenon DEF Serving
    <2> QED
        <3>1. Longest(l, m, id, req.path)
            BY <1>3, <1>5, <1>6, <1>7 DEF Longest
        <3>2. AnswersAs(F, s, req, l)
            BY <2>1, <3>1, LongestAnswers, Zenon
        <3> QED
            BY <3>2 DEF AnswersAs
<1>9. Wanted(ms, m, req) = IF r.redirect THEN <<"301">> ELSE <<"targets", r.targets>>
    <2> DEFINE R == RuleOf(m, req.path)
    <2>1. Wanted(ms, m, req) = IF R.redirect THEN <<"301">> ELSE <<"targets", R.targets>>
        <3>1. Wanted(ms, m, req) = RuleReply(m, req.path)
            BY WantedIs, Zenon
        <3> QED
            BY <3>1 DEF RuleReply
    <2> HIDE DEF R
    <2>2. r = R
        BY <1>2 DEF R
    <2> QED
        BY <2>1, <2>2
<1>10. CASE r.redirect
    <2>1. a.do = "301"
        BY <1>10 DEF a, Return
    <2>2. Answer(F, l, req) = <<"301">>
        BY <1>5, <2>1, Zenon DEF Answer
    <2> QED
        BY <1>8, <1>9, <1>10, <2>2, Zenon
<1>11. CASE ~r.redirect
    <2>1. Len(r.targets) = 1
        BY <1>3, <1>11, Zenon DEF Serving, r
    <2>2. a = Pass(r.targets)
        BY <1>11, <2>1 DEF a
    <2>3. a.do = "proxy_pass" /\ a.to = r.targets /\ a.up = <<>>
        BY <2>2 DEF Pass
    <2>4. a.do \notin {"301", "404"} /\ a.do # "decoy"
        BY <2>3
    <2>5. Answer(F, l, req) = <<"targets", r.targets>>
        BY <1>5, <2>3, <2>4, Zenon DEF Answer, Content, UpTargets
    <2> QED
        BY <1>8, <1>9, <1>11, <2>5, Zenon
<1> QED
    BY <1>10, <1>11

\* l passes to the mapping.
OwnPass(l, m, id) == l.act = RenderProxyPass(m, id) /\ l.upgrade = FALSE

TargetsAnswer(F, l, req, m) == Answer(F, l, req) = <<"targets", m.targets>>

\* What is passed to the mapping reaches its targets.
LEMMA OwnContent ==
    ASSUME NEW m, NEW id, NEW s, NEW F, NEW ms, NEW req, Serving(m, id, s, F, ms, req),
           NEW l, Has(s.locs, l), OwnPass(l, m, id)
    PROVE  TargetsAnswer(F, l, req, m)
<1>0. l.act = RenderProxyPass(m, id) /\ l.upgrade = FALSE
    BY DEF OwnPass
<1> DEFINE a == RenderProxyPass(m, id)
<1>1. /\ a.do = "proxy_pass"
      /\ (a.up = <<>> /\ a.to = m.targets) \/ (a.up = MainUp(id) /\ a.up # <<>>)
    <2>1. CASE Len(m.targets) = 1
        <3> DEFINE ts == m.targets
        <3>1. a = Pass(ts)
            BY <2>1, Zenon DEF RenderProxyPass
        <3> HIDE DEF ts, a
        <3>2. a.do = "proxy_pass" /\ a.up = <<>> /\ a.to = ts
            BY <3>1 DEF Pass
        <3> QED
            BY <3>2 DEF ts
    <2>2. CASE Len(m.targets) # 1
        <3> DEFINE u == MainUp(id)
        <3>1. a = PassUp(u)
            BY <2>2, Zenon DEF RenderProxyPass
        <3>2. u # <<>>
            BY DEF MainUp
        <3> HIDE DEF u, a
        <3>3. a.do = "proxy_pass" /\ a.up = u
            BY <3>1 DEF PassUp
        <3> QED
            BY <3>2, <3>3 DEF u
    <2> QED
        BY <2>1, <2>2
<1>2. a.do \notin {"301", "404"} /\ a.do # "decoy"
    <2> HIDE DEF a
    <2> QED
        BY <1>1
<1>3. UpTargets(F, l.act) = m.targets
    <2>1. CASE a.up = <<>> /\ a.to = m.targets
        BY <1>0, <2>1, Zenon DEF UpTargets
    <2>2. CASE a.up = MainUp(id)
        BY <1>0, <2>2, Zenon DEF Serving
    <2> QED
        BY <1>1, <2>1, <2>2
<1> HIDE DEF a
<1>4. l.act = a /\ l.upgrade = FALSE
    BY <1>0 DEF a
<1> QED
    BY <1>2, <1>3, <1>4, Zenon DEF Answer, Content, TargetsAnswer

\* A request no port route and no rule answers.
LEMMA OtherAnswers ==
    ASSUME NEW m, NEW id, NEW s, NEW F, NEW ms, NEW req, Serving(m, id, s, F, ms, req),
           ~NxRefused(m, req.src), DynOf(m, req.path) = {}, ~RuleWins(m, req.path)
    PROVE  NginxAnswer(F, s, req) = Wanted(ms, m, req)
<1> DEFINE path == req.path
           inp == InPrefix(m, path)
           on == OnOf(m, path)
           rpp == RenderProxyPass(m, id)
<1>1. Wanted(ms, m, req)
        = IF inp \/ (m.prefix = <<>> /\ m.targets # <<>>) THEN <<"targets", m.targets>>
          ELSE DecoyReply(ms, m, req.path)
    BY WantedIs, Zenon
<1>2. ~inp => on = {}
    <2>1. on # {} => BestOf(m, path) # {}
        BY ServingPath, BestExists, Zenon
    <2> QED
        BY <2>1, Zenon DEF RuleWins
<1>3. \A x : IsOwnLoc(m, id, x) => /\ IsSeq(x.path) /\ x.act = rpp /\ x.upgrade = FALSE
                                   /\ x.path = IF m.prefix # <<>> THEN m.prefix ELSE Root
    BY ServingPath, LocKinds, Zenon
<1>4. ASSUME NEW l, IsOwnLoc(m, id, l), IsPrefix(l.path, path),
             \A i \in on : RuleLength(m.routes[i].path) <= Len(l.path)
      PROVE  NginxAnswer(F, s, req) = <<"targets", m.targets>>
    <2>1. Has(s.locs, l)
        BY <1>4, Zenon DEF Serving
    <2>2. IsSeq(l.path) /\ l.act = rpp /\ l.upgrade = FALSE
        BY <1>3, <1>4, Zenon
    <2>3. Len(l.path) \in Nat /\ Len(l.path) >= 1
        <3>1. CASE m.prefix # <<>>
            BY <1>3, <1>4, <3>1, ServingPath
        <3>2. CASE m.prefix = <<>>
            <4>1. Len(l.path) = 1
                BY <1>3, <1>4, <3>2, ServingPath, Zenon
            <4> QED
                BY <4>1
        <3> QED
            BY <3>1, <3>2
    <2>4. \A x : IsOwnLoc(m, id, x) => x.path = l.path
        BY <1>3, <1>4, Zenon
    <2>5. \A x : IsOwnLoc(m, id, x) /\ IsPrefix(x.path, path) => Len(x.path) <= Len(l.path)
        <3>1. Len(l.path) <= Len(l.path)
            BY <2>3
        <3> QED
            BY <2>4, <3>1, Zenon
    <2>6. NginxAnswer(F, s, req) = Answer(F, l, req)
        <3>1. Longest(l, m, id, path)
            BY <1>4, <2>2, <2>3, <2>5, Zenon DEF Longest
        <3>2. AnswersAs(F, s, req, l)
            BY <2>1, <3>1, LongestAnswers, Zenon
        <3> QED
            BY <3>2 DEF AnswersAs
    <2>7. Answer(F, l, req) = <<"targets", m.targets>>
        <3>1. OwnPass(l, m, id)
            BY <2>2, Zenon DEF OwnPass
        <3>2. TargetsAnswer(F, l, req, m)
            BY <2>1, <3>1, OwnContent, Zenon
        <3> QED
            BY <3>2 DEF TargetsAnswer
    <2> QED
        BY <2>6, <2>7, Zenon
<1>5. CASE inp
    <2> DEFINE l == Prefix(m.prefix, rpp)
    <2>1. m.prefix # <<>> /\ IsPrefix(m.prefix, path) /\ IsOwnLoc(m, id, l)
        BY <1>5, Zenon DEF InPrefix, IsOwnLoc
    <2>2. l.path = m.prefix
        BY <1>3, <2>1, Zenon
    <2> HIDE DEF l
    <2>3. \A i \in on : RuleLength(m.routes[i].path) <= Len(l.path)
        <3> SUFFICES ASSUME NEW i \in on PROVE RuleLength(m.routes[i].path) <= Len(m.prefix)
            BY <2>2, Zenon
        <3> DEFINE b == CHOOSE j \in BestOf(m, path) : TRUE
                   len(j) == RuleLength(m.routes[j].path)
        <3>1. BestOf(m, path) # {}
            BY ServingPath, BestExists, Zenon
        <3>2. b \in BestOf(m, path)
            BY <3>1, Zenon
        <3>3. Len(m.prefix) > len(b)
            BY <1>5, <3>1, Zenon DEF RuleWins, RuleOf
        <3> HIDE DEF b
        <3>4. b \in on /\ len(i) <= len(b)
            BY <3>2, Zenon DEF BestOf
        <3>5. \A j \in on : len(j) \in Nat
            <4> SUFFICES ASSUME NEW j \in on PROVE len(j) \in Nat
                OBVIOUS
            <4> DEFINE p == m.routes[j].path
            <4>1. IsPath(p) /\ (p[Len(p)] = "*" => p[Len(p) - 1] = "/")
                BY ServingPath, Zenon DEF ValidNx, OnOf
            <4> HIDE DEF p
            <4> DEFINE q == RouteRulePathForNginx(p)
            <4>2. q \in Seq(STRING) /\ Len(q) = RuleLength(p)
                BY <4>1, RulePath
            <4> HIDE DEF q
            <4>3. RuleLength(p) \in Nat
                BY <4>2
            <4> QED
                BY <4>3 DEF p
        <3>6. len(b) \in Nat /\ len(i) \in Nat /\ Len(m.prefix) \in Nat
            BY <3>4, <3>5, ServingPath, Zenon
        <3> HIDE DEF len
        <3>7. len(i) <= Len(m.prefix)
            BY <3>3, <3>4, <3>6
        <3> QED
            BY <3>7 DEF len
    <2> QED
        BY <1>1, <1>4, <1>5, <2>1, <2>2, <2>3, Zenon
<1>6. CASE ~inp /\ m.prefix = <<>> /\ m.targets # <<>>
    <2> DEFINE l == Prefix(Root, rpp)
    <2>1. IsOwnLoc(m, id, l)
        BY <1>6, Zenon DEF IsOwnLoc
    <2>2. l.path = Root
        BY <1>3, <1>6, <2>1, Zenon
    <2> HIDE DEF l
    <2> QED
        BY <1>1, <1>2, <1>4, <1>6, <2>1, <2>2, ServingPath, Zenon
<1>7. CASE ~inp /\ ~(m.prefix = <<>> /\ m.targets # <<>>)
    <2> DEFINE a == IF m.decoy # "" THEN DecoySite ELSE Return("404")
               l == Prefix(Root, a)
    <2>1. IsFallback(m, l)
        <3>1. m.decoy # "" \/ m.prefix # <<>> \/ m.dyn # <<>>
            BY <1>7, ServingPath, Zenon DEF Serving, ValidNx
        <3>2. CASE m.decoy # ""
            BY <3>2, Zenon DEF IsFallback
        <3>3. CASE m.decoy = ""
            BY <3>1, <3>3, Zenon DEF IsFallback
        <3> QED
            BY <3>2, <3>3
    <2> HIDE DEF l
    <2>2. l.upgrade = FALSE /\ IsSeq(l.path) /\ l.path = Root /\ l.act = a
        BY <2>1, ServingPath, LocKinds, Zenon
    <2>3. Has(s.locs, l)
        BY <2>1, Zenon DEF Serving
    <2>4. \A x : ~(IsOwnLoc(m, id, x) /\ IsPrefix(x.path, path))
        <3> SUFFICES ASSUME NEW x, IsOwnLoc(m, id, x), IsPrefix(x.path, path) PROVE FALSE
            OBVIOUS
        <3>1. m.prefix # <<>>
            BY <1>7, Zenon DEF IsOwnLoc
        <3>2. x.path = m.prefix
            BY <1>3, <3>1, Zenon
        <3> QED
            BY <1>7, <3>1, <3>2, Zenon DEF InPrefix
    <2>5. IsPrefix(l.path, path) /\ Len(l.path) >= 1
        <3>1. IsPrefix(l.path, path) /\ Len(l.path) = 1
            BY <2>2, ServingPath, Zenon
        <3> QED
            BY <3>1
    <2>6. NginxAnswer(F, s, req) = Answer(F, l, req)
        <3>1. on = {}
            BY <1>2, <1>7, Zenon
        <3>2. Longest(l, m, id, path)
            BY <2>2, <2>4, <2>5, <3>1, Zenon DEF Longest
        <3>3. AnswersAs(F, s, req, l)
            BY <2>3, <3>2, LongestAnswers, Zenon
        <3> QED
            BY <3>3 DEF AnswersAs
    <2>7. CASE m.decoy # ""
        <3>1. a.do = "decoy"
            BY <2>7 DEF DecoySite
        <3>2. a.do \notin {"301", "404"}
            BY <3>1
        <3>3. F.decoy = DecoyFiles(ms)
            BY Zenon DEF Serving
        <3> HIDE DEF a
        <3>4. Content(F, a, path) = DecoyReply(ms, m, path)
            BY <2>7, <3>1, <3>3, Zenon DEF Content, DecoyReply
        <3>5. Answer(F, l, req) = DecoyReply(ms, m, path)
            BY <2>2, <3>2, <3>4, Zenon DEF Answer
        <3> QED
            BY <1>1, <1>7, <2>6, <3>5, Zenon
    <2>8. CASE m.decoy = ""
        <3>1. a.do = "404"
            BY <2>8 DEF Return
        <3> HIDE DEF a
        <3>2. Answer(F, l, req) = <<"404">>
            BY <2>2, <3>1, Zenon DEF Answer
        <3>3. DecoyReply(ms, m, path) = <<"404">>
            BY <2>8, Zenon DEF DecoyReply
        <3> QED
            BY <1>1, <1>7, <2>6, <3>2, <3>3, Zenon
    <2> QED
        BY <2>7, <2>8
<1> QED
    BY <1>5, <1>6, <1>7

\* The answer of a server that is no redirect.
LEMMA ServerAnswers ==
    ASSUME NEW m, NEW id, NEW s, NEW F, NEW ms, NEW req, Serving(m, id, s, F, ms, req),
           ~NxRefused(m, req.src)
    PROVE  NginxAnswer(F, s, req) = Wanted(ms, m, req)
<1>1. CASE DynOf(m, req.path) # {}
    BY <1>1, DynAnswers
<1>2. CASE DynOf(m, req.path) = {} /\ RuleWins(m, req.path)
    BY <1>2, RuleAnswers
<1>3. CASE DynOf(m, req.path) = {} /\ ~RuleWins(m, req.path)
    BY <1>3, OtherAnswers
<1> QED
    BY <1>1, <1>2, <1>3

\* What the files hold: a server per http mapping, a stream per other one, an upstream
\* for the mappings that need it.
FilesHold(F, ms, n) ==
    /\ DOMAIN ms = 1..n /\ IsSeq(F.servers) /\ IsSeq(F.streams) /\ IsSeq(F.ups)
    /\ \A k \in 1..Len(F.servers) : \E i \in 1..n : F.servers[k] = RenderHTTPServer(ms[i], i)
    /\ \A k \in 1..Len(F.streams) : \E i \in 1..n : F.streams[k] = RenderStreamServer(ms[i], i)
    /\ \A k \in 1..Len(F.ups) : \E i \in 1..n :
           F.ups[k] = [name |-> MainUp(i), targets |-> ms[i].targets]
    /\ F.decoy = DecoyFiles(ms)

LEMMA FilesOf ==
    ASSUME NEW n \in Nat, NEW ms, IsSeq(ms), Len(ms) = n, NEW F, F = RenderNginx(ms)
    PROVE  FilesHold(F, ms, n)
<1>1. DOMAIN ms = 1..n
    BY SeqDomain
<1> DEFINE us == [i \in 1..n |-> IF Http(ms[i]) THEN RenderHTTPUpstream(ms[i], i) ELSE <<>>]
           ss == [i \in 1..n |-> IF Http(ms[i]) THEN <<RenderHTTPServer(ms[i], i)>> ELSE <<>>]
           ts == [i \in 1..n |-> IF Http(ms[i]) THEN <<>> ELSE <<RenderStreamServer(ms[i], i)>>]
           U == FlattenSeq(us)
           S == FlattenSeq(ss)
           T == FlattenSeq(ts)
           d == DecoyFiles(ms)
<1>2. F = [ups |-> U, servers |-> S, streams |-> T, decoy |-> d]
    BY <1>1, Zenon DEF RenderNginx
<1>3. F.ups = U /\ F.servers = S /\ F.streams = T /\ F.decoy = d
    <2> HIDE DEF U, S, T, d
    <2> QED
        BY <1>2
<1> DEFINE hs == {i \in 1..n : Http(ms[i])}
           os == {i \in 1..n : ~Http(ms[i])}
           up == {i \in 1..n : Http(ms[i]) /\ ~(ms[i].redirect \/ Len(ms[i].targets) <= 1)}
           eU == [i \in 1..n |-> [name |-> MainUp(i), targets |-> ms[i].targets]]
           eS == [i \in 1..n |-> RenderHTTPServer(ms[i], i)]
           eT == [i \in 1..n |-> RenderStreamServer(ms[i], i)]
<1>4. Selects(U, up, eU)
    <2>1. us = [i \in 1..n |-> us[i]] /\ up \subseteq 1..n
        OBVIOUS
    <2>2. \A i \in 1..n : us[i] = IF i \in up THEN <<eU[i]>> ELSE <<>>
        BY Zenon DEF RenderHTTPUpstream
    <2> HIDE DEF us, up, eU
    <2> QED
        BY <2>1, <2>2, FilterSeq
<1>5. Selects(S, hs, eS)
    <2>1. ss = [i \in 1..n |-> ss[i]] /\ hs \subseteq 1..n
        OBVIOUS
    <2>2. \A i \in 1..n : ss[i] = IF i \in hs THEN <<eS[i]>> ELSE <<>>
        BY Zenon
    <2> HIDE DEF ss, hs, eS
    <2> QED
        BY <2>1, <2>2, FilterSeq
<1>6. Selects(T, os, eT)
    <2>1. ts = [i \in 1..n |-> ts[i]] /\ os \subseteq 1..n
        OBVIOUS
    <2>2. \A i \in 1..n : ts[i] = IF i \in os THEN <<eT[i]>> ELSE <<>>
        BY Zenon
    <2> HIDE DEF ts, os, eT
    <2> QED
        BY <2>1, <2>2, FilterSeq
<1> HIDE DEF U, S, T
<1>7. /\ IsSeq(U) /\ \A k \in 1..Len(U) : \E i \in 1..n : U[k] = [name |-> MainUp(i), targets |-> ms[i].targets]
      /\ IsSeq(S) /\ \A k \in 1..Len(S) : \E i \in 1..n : S[k] = RenderHTTPServer(ms[i], i)
      /\ IsSeq(T) /\ \A k \in 1..Len(T) : \E i \in 1..n : T[k] = RenderStreamServer(ms[i], i)
    BY <1>4, <1>5, <1>6 DEF Selects
<1> QED
    BY <1>1, <1>3, <1>7, Zenon DEF FilesHold

\* The head of a server block.
LEMMA ServerHead ==
    ASSUME NEW m, NEW id
    PROVE  LET s == RenderHTTPServer(m, id)
           IN  s.id = id /\ s.redirect = m.redirect /\ s.access = RenderNginxAccessRules(m)
<1> DEFINE rules == RenderNginxRouteRules(m, id)
           own == IF m.prefix # <<>> THEN <<Prefix(m.prefix, RenderProxyPass(m, id))>>
                  ELSE IF m.targets # <<>> THEN <<Prefix(Root, RenderProxyPass(m, id))>> ELSE <<>>
           L == RenderNginxPathRoutes(m) \o rules.locs \o own \o RenderNginxFallback(m)
           A == RenderNginxAccessRules(m)
           ls == Listens(m)
           server == [id |-> id, listens |-> ls, ssl |-> m.proto = "https",
                      access |-> A, redirect |-> m.redirect, ups |-> <<>>, locs |-> <<>>]
           s == RenderHTTPServer(m, id)
<1>1. s = IF m.redirect THEN server ELSE [server EXCEPT !.ups = rules.ups, !.locs = L]
    BY Zenon DEF RenderHTTPServer
<1> HIDE DEF rules, own, L, A, ls, s
<1>2. s.id = id /\ s.redirect = m.redirect /\ s.access = A
    BY <1>1
<1> QED
    BY <1>2 DEF s, A

\* In files nginx loads, every http mapping is served.
LEMMA LoadedServes ==
    ASSUME NEW n \in Nat, NEW ms, IsSeq(ms), Len(ms) = n, NEW F, F = RenderNginx(ms),
           NginxLoads(F), NEW i \in 1..n, ValidNx(ms[i]), ~ms[i].redirect,
           NEW k \in DOMAIN F.servers, F.servers[k] = RenderHTTPServer(ms[i], i),
           NEW req, IsPath(req.path), req.src \in STRING \ {"all"}
    PROVE  Serving(ms[i], i, F.servers[k], F, ms, req)
<1> DEFINE m == ms[i]
           s == F.servers[k]
<1>0. FilesHold(F, ms, n)
    BY FilesOf
<1>1. m \in NxMapping
    BY Zenon DEF ValidNx
<1>2. s = RenderHTTPServer(m, i) /\ ServerLoads(F, s)
    BY Zenon DEF NginxLoads
<1>3. s.redirect = m.redirect /\ s.access = RenderNginxAccessRules(m)
    <2> HIDE DEF m, s
    <2>1. LET t == RenderHTTPServer(m, i)
          IN  t.id = i /\ t.redirect = m.redirect /\ t.access = RenderNginxAccessRules(m)
        BY ServerHead
    <2> DEFINE t == RenderHTTPServer(m, i)
    <2> HIDE DEF t
    <2>2. s = t /\ t.redirect = m.redirect /\ t.access = RenderNginxAccessRules(m)
        BY <1>2, <2>1 DEF t
    <2> QED
        BY <2>2, Zenon
<1> HIDE DEF m, s
<1>4. ~m.redirect
    BY DEF m
<1>5. /\ s.ups = <<>>
      /\ \A a, b \in DOMAIN s.locs :
             ~s.locs[a].regex /\ ~s.locs[b].regex /\ s.locs[a].path = s.locs[b].path => a = b
      /\ \A a \in DOMAIN s.locs : s.locs[a].act.up # <<>> =>
             \E b \in DOMAIN F.ups : F.ups[b].name = s.locs[a].act.up
    BY <1>2, Zenon DEF ServerLoads
<1>6. /\ IsSeq(s.locs)
      /\ \A l : Has(s.locs, l) <=> \/ IsDynLoc(m, l) \/ IsRuleLoc(m, i, l)
                                   \/ IsOwnLoc(m, i, l) \/ IsFallback(m, l)
      /\ s.ups = <<>> => \A j \in DOMAIN m.routes :
             m.routes[j].on /\ ~m.routes[j].redirect => Len(m.routes[j].targets) = 1
    <2>1. m \in NxMapping /\ s = RenderHTTPServer(m, i)
        BY <1>1, <1>2 DEF m
    <2> QED
        BY <1>4, <2>1, ServerLocs, Zenon
<1>7. DOMAIN s.locs = 1..Len(s.locs)
    BY <1>6, SeqDomain
<1>8. \A l : Has(s.locs, l) /\ l.act.up = MainUp(i) => UpTargets(F, l.act) = m.targets
    <2> SUFFICES ASSUME NEW l, Has(s.locs, l), l.act.up = MainUp(i)
                 PROVE  UpTargets(F, l.act) = m.targets
        OBVIOUS
    <2> DEFINE named == {b \in DOMAIN F.ups : F.ups[b].name = MainUp(i)}
               c == CHOOSE b \in DOMAIN F.ups : F.ups[b].name = l.act.up
    <2>1. MainUp(i) # <<>>
        BY DEF MainUp
    <2>2. PICK a \in 1..Len(s.locs) : s.locs[a] = l
        BY DEF Has
    <2>3. \E b \in DOMAIN F.ups : F.ups[b].name = l.act.up
        BY <1>5, <1>7, <2>1, <2>2, Zenon
    <2>4. c \in DOMAIN F.ups /\ F.ups[c].name = MainUp(i)
        BY <2>3, Zenon
    <2>5. UpTargets(F, l.act) = F.ups[c].targets
        BY <2>1, Zenon DEF UpTargets
    <2> HIDE DEF c
    <2>6. c \in 1..Len(F.ups)
        <3>1. IsSeq(F.ups)
            BY <1>0, Zenon DEF FilesHold
        <3> QED
            BY <2>4, <3>1, SeqDomain, Zenon
    <2>7. PICK j \in 1..n : F.ups[c] = [name |-> MainUp(j), targets |-> ms[j].targets]
        <3>1. \A b \in 1..Len(F.ups) : \E j \in 1..n :
                  F.ups[b] = [name |-> MainUp(j), targets |-> ms[j].targets]
            BY <1>0, Zenon DEF FilesHold
        <3> QED
            BY <2>6, <3>1, Zenon
    <2>8. F.ups[c].name = MainUp(j) /\ F.ups[c].targets = ms[j].targets
        <3> DEFINE u == MainUp(j)
                   t == ms[j].targets
        <3> HIDE DEF u, t
        <3>1. F.ups[c] = [name |-> u, targets |-> t]
            BY <2>7 DEF u, t
        <3>2. F.ups[c].name = u /\ F.ups[c].targets = t
            BY <3>1
        <3> QED
            BY <3>2 DEF u, t
    <2>9. j = i
        <3>1. MainUp(j) = MainUp(i)
            BY <2>4, <2>8, Zenon
        <3> QED
            BY <3>1 DEF MainUp
    <2> QED
        BY <2>5, <2>8, <2>9 DEF m
<1>9. F.decoy = DecoyFiles(ms)
    BY <1>0, Zenon DEF FilesHold
<1>10. NxDenied(s, req.src) <=> NxRefused(m, req.src)
    BY <1>1, <1>3, NxDeniedExact
<1>11. ValidNx(m) /\ ~s.redirect
    BY <1>3, <1>4, Zenon DEF m
<1>12. Serving(m, i, s, F, ms, req)
    BY <1>4, <1>5, <1>6, <1>7, <1>8, <1>9, <1>10, <1>11, Zenon DEF Serving
<1> QED
    BY <1>12 DEF m, s

\* The files on disk are the ones of the mappings, and the answer of `nginx -t` is
\* about them.
NxRendered ==
    /\ \E n \in Nat : nxWritten \in [1..n -> NxMappings]
    /\ nxFiles = NotRendered \/ nxFiles = RenderNginx(nxWritten)
    /\ nxTest # "none" => nxFiles # NotRendered
    /\ nxTest = "ok" => NginxLoads(nxFiles)

LEMMA NxRenderedInit == NxInit => NxRendered
<1> SUFFICES ASSUME NxInit PROVE NxRendered
    OBVIOUS
<1>1. PICK n \in 1..MaxNxMappings : nxWritten \in [1..n -> NxMappings]
    BY DEF NxInit
<1>2. n \in Nat
    BY NxAssumption
<1>3. nxTest = "none" /\ nxFiles = NotRendered
    BY Zenon DEF NxInit
<1>4. nxTest # "ok"
    BY <1>3
<1> QED
    BY <1>1, <1>2, <1>3, <1>4, Zenon DEF NxRendered

LEMMA NxRenderedNext == NxRendered /\ [NxNext]_nxVars => NxRendered'
<1> SUFFICES ASSUME NxRendered, [NxNext]_nxVars PROVE NxRendered'
    OBVIOUS
<1> DEFINE W == \E n \in Nat : nxWritten \in [1..n -> NxMappings]
<1>1. W /\ (nxFiles = NotRendered \/ nxFiles = RenderNginx(nxWritten))
      /\ (nxTest # "none" => nxFiles # NotRendered) /\ (nxTest = "ok" => NginxLoads(nxFiles))
    BY Zenon DEF NxRendered
<1> HIDE DEF W
<1>2. CASE NxRender
    <2>1. nxWritten' = nxWritten /\ nxTest' = nxTest /\ nxFiles = NotRendered
          /\ nxFiles' = RenderNginx(nxWritten)
        BY <1>2, Zenon DEF NxRender
    <2>2. nxTest = "none"
        BY <1>1, <2>1, Zenon
    <2>3. nxTest' # "ok" /\ ~(nxTest' # "none")
        BY <2>1, <2>2
    <2> QED
        BY <1>1, <2>1, <2>3, Zenon DEF NxRendered, W
<1>3. CASE NxValidate
    <2>1. nxWritten' = nxWritten /\ nxFiles' = nxFiles /\ nxFiles # NotRendered
          /\ nxTest' = IF NginxLoads(nxFiles) THEN "ok" ELSE "refused"
        BY <1>3, Zenon DEF NxValidate
    <2>2. nxTest' = "ok" => NginxLoads(nxFiles)
        BY <2>1
    <2> QED
        BY <1>1, <2>1, <2>2, Zenon DEF NxRendered, W
<1>4. CASE UNCHANGED nxVars
    <2>1. nxWritten' = nxWritten /\ nxFiles' = nxFiles /\ nxTest' = nxTest
        BY <1>4 DEF nxVars
    <2> QED
        BY <1>1, <2>1, Zenon DEF NxRendered, W
<1> QED
    BY <1>2, <1>3, <1>4 DEF NxNext

\* The answers of files nginx loads.
LEMMA NxRenderedServes == NxRendered => NginxServes
<1> SUFFICES ASSUME NxRendered, nxTest = "ok" PROVE NginxServes
    BY Zenon DEF NginxServes
<1> DEFINE ms == nxWritten
           F == nxFiles
<1>1. PICK n \in Nat : ms \in [1..n -> NxMappings]
    BY Zenon DEF NxRendered
<1>2. IsSeq(ms) /\ Len(ms) = n /\ \A i \in 1..n : ValidNx(ms[i])
    <2>1. ms = [i \in 1..n |-> ms[i]] /\ \A i \in 1..n : ms[i] \in NxMappings
        BY <1>1
    <2>2. IsSeq(ms) /\ Len(ms) = n
        BY <2>1, FcnSeq
    <2> QED
        BY <2>1, <2>2, NxAssumption, Zenon
<1>3. F = RenderNginx(ms) /\ NginxLoads(F)
    <2>1. nxTest # "none"
        OBVIOUS
    <2> QED
        BY <2>1, Zenon DEF NxRendered
<1>4. FilesHold(F, ms, n)
    BY <1>2, <1>3, FilesOf, Zenon
<1>5. DOMAIN F.servers = 1..Len(F.servers) /\ DOMAIN F.streams = 1..Len(F.streams)
    BY <1>4, SeqDomain, Zenon DEF FilesHold
<1>6. ASSUME NEW k \in DOMAIN F.servers, NEW req \in NxRequests
      PROVE  LET s == F.servers[k]
                 m == ms[s.id]
                 answer == NginxAnswer(F, s, req)
             IN  IF NxRefused(m, req.src) THEN answer \in {<<"403">>, <<"404">>, <<"301">>}
                 ELSE answer = IF m.redirect THEN <<"301">> ELSE Wanted(ms, m, req)
    <2> DEFINE s == F.servers[k]
    <2>1. PICK i \in 1..n : s = RenderHTTPServer(ms[i], i)
        BY <1>4, <1>5, <1>6, Zenon DEF FilesHold
    <2> DEFINE m == ms[i]
               a == NginxAnswer(F, s, req)
    <2>2. s.id = i /\ s.redirect = m.redirect /\ s.access = RenderNginxAccessRules(m)
        <3> DEFINE t == RenderHTTPServer(ms[i], i)
        <3>1. t.id = i /\ t.redirect = m.redirect /\ t.access = RenderNginxAccessRules(m)
            BY ServerHead
        <3> HIDE DEF t
        <3>2. s = t
            BY <2>1 DEF t
        <3> QED
            BY <3>1, <3>2, Zenon
    <2>3. ValidNx(m) /\ m \in NxMapping
        BY <1>2, Zenon DEF ValidNx
    <2>4. IsPath(req.path) /\ req.src \in STRING \ {"all"}
        <3>1. req \in [src : STRING \ {"all"}, path : Seq(STRING), upgrade : BOOLEAN,
                      port : Nat]
            BY NxAssumption, Zenon
        <3>2. IsPath(req.path)
            BY NxAssumption, Zenon
        <3> QED
            BY <3>1, <3>2
    <2>5. NxDenied(s, req.src) <=> NxRefused(m, req.src)
        <3>1. req.src # "all"
            BY <2>4
        <3> HIDE DEF m, s
        <3> QED
            BY <2>2, <2>3, <3>1, NxDeniedExact, Zenon
    <2>6. CASE NxRefused(m, req.src)
        <3>1. a \in {<<"403">>, <<"404">>, <<"301">>}
            BY <2>5, <2>6, RefusedAnswers, Zenon
        <3> QED
            BY <2>2, <2>6, <3>1, Zenon
    <2>7. CASE ~NxRefused(m, req.src) /\ m.redirect
        <3>1. a = <<"301">>
            BY <2>2, <2>7, Zenon DEF NginxAnswer
        <3> QED
            BY <2>2, <2>7, <3>1, Zenon
    <2>8. CASE ~NxRefused(m, req.src) /\ ~m.redirect
        <3>1. Serving(m, i, s, F, ms, req)
            BY <1>2, <1>3, <2>1, <2>3, <2>4, <2>8, LoadedServes
        <3>2. a = Wanted(ms, m, req)
            <4> HIDE DEF m, s
            <4>1. ~NxRefused(m, req.src)
                BY <2>8
            <4> QED
                BY <3>1, <4>1, ServerAnswers
        <3> QED
            BY <2>2, <2>8, <3>2, Zenon
    <2> QED
        BY <2>6, <2>7, <2>8
<1>7. ASSUME NEW k \in DOMAIN F.streams, NEW req \in NxRequests
      PROVE  StreamAnswer(F.streams[k], req.src) = <<"targets", ms[F.streams[k].id].targets>>
    <2>1. PICK i \in 1..n : F.streams[k] = RenderStreamServer(ms[i], i)
        BY <1>4, <1>5, <1>7, Zenon DEF FilesHold
    <2> DEFINE t == F.streams[k]
               ts == ms[i].targets
    <2>2. t.id = i /\ t.up.targets = ts /\ t.access = <<>>
        <3> DEFINE a == <<NginxListenAddr(ms[i].ip, ms[i].port)>>
                   u == ms[i].proto = "udp"
                   nm == <<"stream", i>>
        <3>1. t = [id |-> i, listens |-> a, udp |-> u, access |-> <<>>,
                   up |-> [name |-> nm, targets |-> ts]]
            BY <2>1, Zenon DEF RenderStreamServer
        <3> HIDE DEF a, u, nm, t, ts
        <3> QED
            BY <3>1
    <2> HIDE DEF t, ts
    <2>3. ~NxDenied(t, req.src)
        <3>1. DOMAIN t.access = {}
            BY <2>2
        <3> QED
            BY <3>1, Zenon DEF NxDenied
    <2>4. StreamAnswer(t, req.src) = <<"targets", ts>>
        BY <2>2, <2>3, Zenon DEF StreamAnswer
    <2> QED
        BY <2>2, <2>4, Zenon DEF t, ts
<1> QED
    BY <1>6, <1>7, Zenon DEF NginxServes

\* RenderNginx, renderHTTPServer, nginx: for all mappings ValidateMapping accepts and
\* all requests, files nginx loads refuse whom the access rules of an http mapping
\* refuse, and answer any other request by the port route it names (whatever its range),
\* else the longest enabled rule or prefix, else the targets, the decoy page (at / and
\* /index.html) or a 404; a stream passes every client to its targets.
THEOREM NginxHolds == NxSpec => []NginxServes
BY NxRenderedInit, NxRenderedNext, NxRenderedServes, PTL DEF NxSpec

---------------------------------------------------------------------------
(* Loops over flattened sequences.                                         *)

LEMMA FlattenIsSeq ==
    ASSUME NEW n \in Nat, NEW ss, ss = [i \in 1..n |-> ss[i]], \A i \in 1..n : IsSeq(ss[i])
    PROVE  IsSeq(FlattenSeq(ss)) /\ IsSeq(ss) /\ Len(ss) = n
<1>1. IsSeq(ss) /\ Len(ss) = n
    BY FcnSeq
<1> QED
    BY <1>1, FlattenRange

\* Loop k leads from b over the elements of s to c.
Runs(k, b, s, c) == IsSeq(s) /\ Folded(k, b, s) = c

LEMMA RunsEmpty ==
    ASSUME NEW k, NEW b
    PROVE  Runs(k, b, <<>>, b)
BY SeqEmpty, FoldedEmpty DEF Runs

LEMMA RunsOne ==
    ASSUME NEW k, NEW b, NEW e, NEW c, Loop(k, b, e) = c
    PROVE  Runs(k, b, <<e>>, c)
BY SeqOne, FoldedOne DEF Runs

LEMMA RunsConcat ==
    ASSUME NEW k, NEW b, NEW s, NEW c, NEW t, NEW d, Runs(k, b, s, c), Runs(k, c, t, d)
    PROVE  Runs(k, b, s \o t, d)
<1>1. IsSeq(s) /\ IsSeq(t) /\ Folded(k, b, s) = c /\ Folded(k, c, t) = d
    BY DEF Runs
<1>2. Folded(k, b, s \o t) = Folded(k, Folded(k, b, s), t)
    BY ONLY <1>1, FoldedConcat
<1>3. IsSeq(s \o t)
    BY <1>1, HasConcat, Zenon
<1> QED
    BY <1>1, <1>2, <1>3, Zenon DEF Runs

\* A loop over a flattened sequence is a loop over its parts.
LEMMA RunsFlatten ==
    ASSUME NEW k, NEW n \in Nat, NEW ss, ss = [i \in 1..n |-> ss[i]],
           NEW g, \A i \in 0..(n - 1) : Runs(k, g[i], ss[i + 1], g[i + 1])
    PROVE  Runs(k, g[0], FlattenSeq(ss), g[n])
<1>0. \A i \in 1..n : IsSeq(ss[i])
    <2> SUFFICES ASSUME NEW i \in 1..n PROVE IsSeq(ss[i])
        OBVIOUS
    <2>1. i - 1 \in 0..(n - 1) /\ (i - 1) + 1 = i
        OBVIOUS
    <2>2. Runs(k, g[i - 1], ss[(i - 1) + 1], g[(i - 1) + 1])
        BY <2>1
    <2> QED
        BY <2>1, <2>2 DEF Runs
<1>1. IsSeq(ss) /\ Len(ss) = n
    BY FcnSeq
<1>2. PICK f : /\ f[0] = <<>> /\ f[n] = FlattenSeq(ss)
               /\ \A i \in 0..(n - 1) : f[i + 1] = f[i] \o ss[i + 1]
               /\ \A i \in 0..n : IsSeq(f[i])
    BY <1>0, <1>1, Flatten, Zenon
<1> DEFINE S == {i \in Nat : i <= n => Runs(k, g[0], f[i], g[i])}
<1>3. 0 \in S
    BY <1>2, RunsEmpty
<1>4. ASSUME NEW i \in Nat, i \in S PROVE i + 1 \in S
    <2>1. SUFFICES ASSUME i + 1 <= n PROVE Runs(k, g[0], f[i + 1], g[i + 1])
        OBVIOUS
    <2>2. i \in 0..(n - 1) /\ Runs(k, g[0], f[i], g[i])
        BY <1>4, <2>1
    <2>3. f[i + 1] = f[i] \o ss[i + 1] /\ Runs(k, g[i], ss[i + 1], g[i + 1])
        BY <1>2, <2>2, Zenon
    <2>4. Runs(k, g[0], f[i] \o ss[i + 1], g[i + 1])
        BY <2>2, <2>3, RunsConcat, Zenon
    <2> QED
        BY <2>3, <2>4, Zenon
<1>5. \A i \in Nat : i \in S
    <2> HIDE DEF S
    <2> QED
        BY <1>3, <1>4, Induction
<1>6. Runs(k, g[0], f[n], g[n])
    BY <1>5
<1> QED
    BY <1>2, <1>6, Zenon

\* A loop over a sequence that is given by its values.
LEMMA RunsSteps ==
    ASSUME NEW k, NEW n \in Nat, NEW s, s = [i \in 1..n |-> s[i]],
           NEW g, \A i \in 0..(n - 1) : g[i + 1] = Loop(k, g[i], s[i + 1])
    PROVE  Runs(k, g[0], s, g[n])
<1>1. IsSeq(s) /\ Len(s) = n
    BY FcnSeq
<1>2. Trace(g, k, g[0], s)
    <2>1. ASSUME NEW i \in Nat, i < n PROVE g[i + 1] = Loop(k, g[i], s[i + 1])
        <3>1. i \in 0..(n - 1)
            BY <2>1
        <3> QED
            BY <3>1, Zenon
    <2> QED
        BY ONLY <1>1, <2>1, Zenon DEF Trace
<1>3. g[Len(s)] = Folded(k, g[0], s)
    BY ONLY <1>1, <1>2, FoldedIs
<1> QED
    BY <1>1, <1>3, Zenon DEF Runs

\* Flattening, part by part: what accumulates is the flattened sequence.
LEMMA FlattenSteps ==
    ASSUME NEW n \in Nat, NEW ss, ss = [i \in 1..n |-> ss[i]], \A i \in 1..n : IsSeq(ss[i])
    PROVE  \E f : /\ f[0] = <<>> /\ f[n] = FlattenSeq(ss)
                  /\ \A i \in 0..(n - 1) : f[i + 1] = f[i] \o ss[i + 1]
                  /\ \A i \in 0..n : IsSeq(f[i])
<1>1. IsSeq(ss) /\ Len(ss) = n
    BY FcnSeq
<1> QED
    BY <1>1, Flatten, Zenon

\* The first i + 1 values of a function are the first i and one more.
LEMMA FcnAppend ==
    ASSUME NEW e, NEW i \in Nat
    PROVE  /\ Append([j \in 1..i |-> e[j]], e[i + 1]) = [j \in 1..(i + 1) |-> e[j]]
           /\ IsSeq([j \in 1..i |-> e[j]]) /\ Len([j \in 1..i |-> e[j]]) = i
<1> DEFINE s == [j \in 1..i |-> e[j]]
           t == [j \in 1..(i + 1) |-> e[j]]
           a == Append(s, e[i + 1])
<1>1. s = [j \in 1..i |-> s[j]] /\ t = [j \in 1..(i + 1) |-> t[j]]
    OBVIOUS
<1>2. \A j \in 1..i : s[j] = e[j]
    OBVIOUS
<1>3. \A j \in 1..(i + 1) : t[j] = e[j]
    OBVIOUS
<1> HIDE DEF s, t
<1>4. IsSeq(s) /\ Len(s) = i /\ IsSeq(t) /\ Len(t) = i + 1
    BY <1>1, FcnSeq
<1>5. /\ IsSeq(a) /\ Len(a) = Len(s) + 1 /\ \A j \in 1..Len(s) : a[j] = s[j]
      /\ a[Len(s) + 1] = e[i + 1]
    BY <1>4, SeqAppend
<1> HIDE DEF a
<1>6. a = t
    <2>1. \A j \in 1..Len(a) : a[j] = t[j]
        BY <1>2, <1>3, <1>4, <1>5
    <2> QED
        BY <1>4, <1>5, <2>1, SameSeq
<1> QED
    BY <1>4, <1>6 DEF a, s, t

LEMMA FcnEmpty ==
    ASSUME NEW e
    PROVE  [j \in 1..0 |-> e[j]] = <<>>
<1> DEFINE s == [j \in 1..0 |-> e[j]]
<1>1. IsSeq(s) /\ Len(s) = 0
    BY FcnAppend
<1> QED
    BY <1>1, SeqDomain

\* The last element of what has just been appended to is replaced.
LEMMA AppendUpdate ==
    ASSUME NEW s, IsSeq(s), NEW e, NEW x
    PROVE  [Append(s, e) EXCEPT ![Len(Append(s, e))] = x] = Append(s, x)
<1> DEFINE a == Append(s, e)
           b == Append(s, x)
           c == [a EXCEPT ![Len(a)] = x]
<1>1. /\ IsSeq(a) /\ Len(a) = Len(s) + 1 /\ \A j \in 1..Len(s) : a[j] = s[j]
      /\ IsSeq(b) /\ Len(b) = Len(s) + 1 /\ \A j \in 1..Len(s) : b[j] = s[j]
      /\ b[Len(s) + 1] = x
    <2>1. /\ IsSeq(a) /\ Len(a) = Len(s) + 1 /\ \A j \in 1..Len(s) : a[j] = s[j]
        BY SeqAppend, Zenon
    <2>2. /\ IsSeq(b) /\ Len(b) = Len(s) + 1 /\ \A j \in 1..Len(s) : b[j] = s[j]
          /\ b[Len(s) + 1] = x
        BY SeqAppend, Zenon
    <2> QED
        BY <2>1, <2>2, Zenon
<1>2. Len(s) \in Nat /\ DOMAIN a = 1..Len(a) /\ a = [i \in 1..Len(a) |-> a[i]]
    BY <1>1, SeqDomain
<1> HIDE DEF a, b
<1>3. c = [j \in 1..Len(a) |-> c[j]] /\ Len(a) \in Nat
    <2>1. DOMAIN c = 1..Len(a)
        BY <1>2
    <2>2. c = [j \in DOMAIN c |-> c[j]]
        OBVIOUS
    <2> QED
        BY <1>1, <1>2, <2>1, <2>2
<1>4. \A j \in 1..Len(a) : c[j] = IF j = Len(a) THEN x ELSE a[j]
    BY <1>2
<1> HIDE DEF c
<1>5. IsSeq(c) /\ Len(c) = Len(a)
    BY <1>3, FcnSeq
<1>6. \A j \in 1..Len(c) : c[j] = b[j]
    BY <1>1, <1>2, <1>4, <1>5
<1>7. c = b
    BY <1>1, <1>5, <1>6, SameSeq
<1> QED
    BY <1>7 DEF a, b, c

LEMMA SeqThree ==
    ASSUME NEW x, NEW y, NEW z
    PROVE  (<<x>> \o <<y>>) \o <<z>> = <<x, y, z>> /\ IsSeq(<<x, y, z>>)
<1> DEFINE u == <<x, y>>
           w == u \o <<z>>
           v == <<x, y, z>>
<1>1. <<x>> \o <<y>> = u /\ IsSeq(u)
    BY SeqTwo
<1>2. Len(u) = 2 /\ u[1] = x /\ u[2] = y
    OBVIOUS
<1> HIDE DEF u
<1>3. Joined(w, u, <<z>>)
    BY <1>1, SeqOne, ConcatIs
<1> HIDE DEF w
<1>4. Len(w) = 3 /\ w[1] = x /\ w[2] = y /\ w[3] = z /\ IsSeq(w)
    <2>1. 1 \in 1..1 /\ 1 \in 1..2 /\ 2 \in 1..2
        OBVIOUS
    <2>2. w[1] = u[1] /\ w[2] = u[2] /\ w[2 + 1] = <<z>>[1]
        BY <1>2, <1>3, <2>1, SeqOne DEF Joined
    <2> QED
        BY <1>2, <1>3, <2>2, SeqOne DEF Joined
<1>5. Len(v) = 3 /\ v[1] = x /\ v[2] = y /\ v[3] = z /\ v \in Seq({x, y, z})
    OBVIOUS
<1>6. IsSeq(v)
    BY <1>5 DEF IsSeq
<1> HIDE DEF v
<1>7. w = v
    BY <1>4, <1>5, <1>6, SameSeq
<1> QED
    BY <1>1, <1>6, <1>7 DEF v, w

LEMMA RunsThree ==
    ASSUME NEW k, NEW b, NEW x, NEW y, NEW z, NEW c, NEW d, NEW e,
           Loop(k, b, x) = c, Loop(k, c, y) = d, Loop(k, d, z) = e
    PROVE  Runs(k, b, <<x, y, z>>, e)
<1>1. Runs(k, b, <<x>>, c) /\ Runs(k, c, <<y>>, d) /\ Runs(k, d, <<z>>, e)
    BY RunsOne
<1>2. Runs(k, b, (<<x>> \o <<y>>) \o <<z>>, e)
    BY <1>1, RunsConcat, Zenon
<1>3. (<<x>> \o <<y>>) \o <<z>> = <<x, y, z>>
    BY SeqThree
<1> QED
    BY <1>2, <1>3, Zenon

---------------------------------------------------------------------------
(* nginx: what the line parser makes of the blocks of a file.              *)

NgLoop == [loop |-> "nginx", cfg |-> ""]

LEMMA NgRound == \A c, l : Loop(NgLoop, c, l) = ParseNginxLine(c, l)
BY DEF Loop, NgLoop

NgStep(c, l, d) == ParseNginxLine(c, l) = d

LEMMA NgRunsOne ==
    ASSUME NEW c, NEW l, NEW d, NgStep(c, l, d)
    PROVE  Runs(NgLoop, c, <<l>>, d)
BY NgRound, RunsOne DEF NgStep

\* The parser in an upstream, between the servers of http or stream, in a server and
\* in a location, with what it has found so far.
InUpstream(n, h, t, u) ==
    [up |-> n, stream |-> FALSE, depth |-> 0, open |-> FALSE, inLoc |-> FALSE,
     server |-> NewServer, http |-> h, streams |-> t, ups |-> u]
Between(st, h, t, u) ==
    [up |-> NoUpstream, stream |-> st, depth |-> 0, open |-> FALSE, inLoc |-> FALSE,
     server |-> NewServer, http |-> h, streams |-> t, ups |-> u]
Srv(p, ssl, d, ns, r, ls) ==
    [port |-> p, ssl |-> ssl, default |-> d, names |-> ns, redirect |-> r, locs |-> ls]
InServer(st, sv, h, t, u) ==
    [up |-> NoUpstream, stream |-> st, depth |-> IF st THEN 1 ELSE 0, open |-> TRUE, inLoc |-> FALSE,
     server |-> sv, http |-> h, streams |-> t, ups |-> u]
InLocation(sv, h, t, u) ==
    [up |-> NoUpstream, stream |-> FALSE, depth |-> 0, open |-> TRUE, inLoc |-> TRUE,
     server |-> sv, http |-> h, streams |-> t, ups |-> u]

LEMMA NgUpstream ==
    ASSUME NEW h, NEW t, NEW u, NEW n, n # NoUpstream, NEW x
    PROVE  /\ NgStep(Between(FALSE, h, t, u), Ng("upstream {", n), InUpstream(n, h, t, u))
           /\ NgStep(InUpstream(n, h, t, u), Ng("server", x), InUpstream(n, h, t, u \cup {<<n, x>>}))
           /\ NgStep(InUpstream(n, h, t, u), Ng("}", 0), Between(FALSE, h, t, u))
BY DEF NgStep, ParseNginxLine, Between, InUpstream, Ng, NoUpstream

LEMMA NgOpen ==
    ASSUME NEW h, NEW t, NEW u, NEW st \in BOOLEAN
    PROVE  /\ NgStep(Between(FALSE, h, t, u), Ng("http {", 0), Between(FALSE, h, t, u))
           /\ NgStep(Between(FALSE, h, t, u), Ng("stream {", 0), Between(TRUE, h, t, u))
           /\ NgStep(Between(st, h, t, u), Ng("}", 0), Between(FALSE, h, t, u))
           /\ NgStep(Between(st, h, t, u), Ng("server {", 0), InServer(st, NewServer, h, t, u))
<1>1. ParseNginxLine(Between(FALSE, h, t, u), Ng("http {", 0)) = Between(FALSE, h, t, u)
    BY DEF ParseNginxLine, Between, Ng, NoUpstream
<1>2. ParseNginxLine(Between(FALSE, h, t, u), Ng("stream {", 0)) = Between(TRUE, h, t, u)
    BY DEF ParseNginxLine, Between, Ng, NoUpstream
<1>3. ParseNginxLine(Between(TRUE, h, t, u), Ng("}", 0)) = Between(FALSE, h, t, u)
    BY DEF ParseNginxLine, Between, Ng, NoUpstream
<1>4. ParseNginxLine(Between(FALSE, h, t, u), Ng("}", 0)) = Between(FALSE, h, t, u)
    BY DEF ParseNginxLine, CloseBrace, Between, Ng, NoUpstream
<1>5. ParseNginxLine(Between(TRUE, h, t, u), Ng("server {", 0)) = InServer(TRUE, NewServer, h, t, u)
    <2> DEFINE c == Between(TRUE, h, t, u)
    <2>1. ParseNginxLine(c, Ng("server {", 0))
            = [c EXCEPT !.open = TRUE, !.server = NewServer, !.depth = IF c.stream THEN @ + 1 ELSE @]
        BY DEF ParseNginxLine, Between, Ng, NoUpstream
    <2>2. c.stream = TRUE /\ c.depth + 1 = 1
        BY DEF Between
    <2>3. [c EXCEPT !.open = TRUE, !.server = NewServer, !.depth = IF c.stream THEN @ + 1 ELSE @]
            = [c EXCEPT !.open = TRUE, !.server = NewServer, !.depth = 1]
        <3> HIDE DEF c
        <3>1. (IF c.stream THEN c.depth + 1 ELSE c.depth) = 1
            BY <2>2
        <3> QED
            BY <3>1, Zenon
    <2>4. [c EXCEPT !.open = TRUE, !.server = NewServer, !.depth = 1] = InServer(TRUE, NewServer, h, t, u)
        <3> DEFINE n == NoUpstream
                   n0 == NewServer
                   one == 1
                   zero == 0
                   no == FALSE
                   yes == TRUE
                   a == [c EXCEPT !.open = yes]
                   b == [a EXCEPT !.server = n0]
                   r == [up |-> n, stream |-> yes, depth |-> one, open |-> yes, inLoc |-> no,
                           server |-> n0, http |-> h, streams |-> t, ups |-> u]
        <3>1. InServer(TRUE, n0, h, t, u) = r
            BY DEF InServer
        <3>2. c = [up |-> n, stream |-> yes, depth |-> zero, open |-> no, inLoc |-> no,
                           server |-> n0, http |-> h, streams |-> t, ups |-> u]
            BY DEF Between
        <3> HIDE DEF n, n0, one, zero, no, yes, c
        <3>4. a = [up |-> n, stream |-> yes, depth |-> zero, open |-> yes, inLoc |-> no,
                           server |-> n0, http |-> h, streams |-> t, ups |-> u]
            BY <3>2
        <3> HIDE DEF a
        <3>5. b = [up |-> n, stream |-> yes, depth |-> zero, open |-> yes, inLoc |-> no,
                           server |-> n0, http |-> h, streams |-> t, ups |-> u]
            BY <3>4
        <3> HIDE DEF b
        <3>6. [b EXCEPT !.depth = one] = r
            BY <3>5
        <3>3. [c EXCEPT !.open = TRUE, !.server = NewServer, !.depth = 1] = [b EXCEPT !.depth = one]
            BY Zenon DEF a, b, yes, one, n0
        <3> HIDE DEF r
        <3> QED
            BY <3>1, <3>3, <3>6, Zenon DEF n0
    <2> QED
        BY <2>1, <2>3, <2>4, Zenon
<1>6. ParseNginxLine(Between(FALSE, h, t, u), Ng("server {", 0)) = InServer(FALSE, NewServer, h, t, u)
    BY DEF ParseNginxLine, Between, InServer, Ng, NoUpstream
<1> QED
    BY <1>1, <1>2, <1>3, <1>4, <1>5, <1>6 DEF NgStep

LEMMA NgServerLines ==
    ASSUME NEW st \in BOOLEAN, NEW h, NEW t, NEW u, NEW p, NEW ssl \in BOOLEAN, NEW d \in BOOLEAN, NEW ns
    PROVE  /\ NgStep(InServer(st, NewServer, h, t, u),
                     Ng("listen", [port |-> p, ssl |-> ssl, default |-> d]),
                     InServer(st, Srv(p, ssl, d, {}, FALSE, <<>>), h, t, u))
           /\ NgStep(InServer(st, Srv(p, ssl, d, {}, FALSE, <<>>), h, t, u), Ng("server_name", ns),
                     InServer(st, Srv(p, ssl, d, ns \ {"_"}, FALSE, <<>>), h, t, u))
           /\ NgStep(InServer(st, Srv(p, ssl, d, ns, FALSE, <<>>), h, t, u), Ng("return", <<"301">>),
                     InServer(st, Srv(p, ssl, d, ns, TRUE, <<>>), h, t, u))
<1>1. ParseNginxLine(InServer(st, NewServer, h, t, u),
                     Ng("listen", [port |-> p, ssl |-> ssl, default |-> d]))
        = InServer(st, Srv(p, ssl, d, {}, FALSE, <<>>), h, t, u)
    BY DEF ParseNginxLine, ServerDirective, InServer, Ng, NoUpstream, NewServer, Srv
<1>2. ParseNginxLine(InServer(st, Srv(p, ssl, d, {}, FALSE, <<>>), h, t, u), Ng("server_name", ns))
        = InServer(st, Srv(p, ssl, d, ns \ {"_"}, FALSE, <<>>), h, t, u)
    BY DEF ParseNginxLine, ServerDirective, InServer, Ng, NoUpstream, Srv
<1>3. ParseNginxLine(InServer(st, Srv(p, ssl, d, ns, FALSE, <<>>), h, t, u), Ng("return", <<"301">>))
        = InServer(st, Srv(p, ssl, d, ns, TRUE, <<>>), h, t, u)
    BY DEF ParseNginxLine, ServerDirective, InServer, Ng, NoUpstream, Srv
<1> QED
    BY <1>1, <1>2, <1>3 DEF NgStep

LEMMA NgLocationOpens ==
    ASSUME NEW h, NEW t, NEW u, NEW p, NEW ssl, NEW d, NEW ns, NEW r, NEW ls, NEW path, NEW regex
    PROVE  NgStep(InServer(FALSE, Srv(p, ssl, d, ns, r, ls), h, t, u),
                  Ng("location {", [path |-> path, regex |-> regex]),
                  InLocation(Srv(p, ssl, d, ns, r, Append(ls, [path |-> path, regex |-> regex,
                                 pass |-> [host |-> "", port |-> 0]])), h, t, u))
BY DEF NgStep, ParseNginxLine, InServer, InLocation, Ng, NoUpstream, Srv

LEMMA NgLocationCloses ==
    ASSUME NEW h, NEW t, NEW u, NEW p, NEW ssl, NEW d, NEW ns, NEW r, NEW ls
    PROVE  NgStep(InLocation(Srv(p, ssl, d, ns, r, ls), h, t, u), Ng("}", 0),
                  InServer(FALSE, Srv(p, ssl, d, ns, r, ls), h, t, u))
BY DEF NgStep, ParseNginxLine, CloseBrace, InServer, InLocation, Ng, NoUpstream, Srv

LEMMA NgLocationPass ==
    ASSUME NEW h, NEW t, NEW u, NEW p, NEW ssl, NEW d, NEW ns, NEW r, NEW ls, IsSeq(ls),
           NEW path, NEW regex, NEW none, NEW x
    PROVE  NgStep(InLocation(Srv(p, ssl, d, ns, r,
                                 Append(ls, [path |-> path, regex |-> regex, pass |-> none])), h, t, u),
                  Ng("proxy_pass", x),
                  InLocation(Srv(p, ssl, d, ns, r,
                                 Append(ls, [path |-> path, regex |-> regex, pass |-> x])), h, t, u))
<1> DEFINE loc(y) == [path |-> path, regex |-> regex, pass |-> y]
           sv(l) == Srv(p, ssl, d, ns, r, l)
<1> DEFINE a == Append(ls, loc(none))
           n == Len(a)
           c == InLocation(sv(a), h, t, u)
<1>1. a[n] = loc(none)
    <2> DEFINE e == loc(none)
    <2> HIDE DEF e
    <2>1. Len(Append(ls, e)) = Len(ls) + 1 /\ Append(ls, e)[Len(ls) + 1] = e
        BY SeqAppend
    <2> QED
        BY <2>1, Zenon DEF e
<1>2. [a EXCEPT ![n] = loc(x)] = Append(ls, loc(x))
    BY AppendUpdate
<1> HIDE DEF a
<1>3. [a EXCEPT ![n].pass = x] = [a EXCEPT ![n] = loc(x)]
    <2>1. [loc(none) EXCEPT !.pass = x] = loc(x)
        OBVIOUS
    <2>2. [a[n] EXCEPT !.pass = x] = loc(x)
        BY <1>1, <2>1, Zenon
    <2> HIDE DEF loc, n
    <2> QED
        BY <2>2
<1>4. ParseNginxLine(c, Ng("proxy_pass", x)) = LocationDirective(c, Ng("proxy_pass", x))
    BY DEF ParseNginxLine, InLocation, Ng, NoUpstream
<1>5. LocationDirective(c, Ng("proxy_pass", x)) = InLocation(sv([a EXCEPT ![n].pass = x]), h, t, u)
    BY DEF LocationDirective, InLocation, Srv, Ng
<1> QED
    BY <1>2, <1>3, <1>4, <1>5, Zenon DEF a, NgStep

LEMMA NgStreamPass ==
    ASSUME NEW h, NEW t, NEW u, NEW p, NEW ssl, NEW d, NEW ns, NEW ls, NEW x
    PROVE  NgStep(InServer(TRUE, Srv(p, ssl, d, ns, FALSE, ls), h, t, u), Ng("proxy_pass", x),
                  InServer(TRUE, Srv(p, ssl, d, ns, FALSE,
                                  Append(ls, [path |-> "/", regex |-> FALSE, pass |-> x])), h, t, u))
BY DEF NgStep, ParseNginxLine, ServerDirective, InServer, Ng, NoUpstream, Srv

\* The end of a server: it is kept unless the panel wrote it.
LEMMA NgServerEnd ==
    ASSUME NEW h, NEW t, NEW u, NEW st \in BOOLEAN, NEW sv, sv.port \in Nat \ {0}
    PROVE  NgStep(InServer(st, sv, h, t, u), Ng("}", 0),
                  Between(st, IF ~st /\ ~IsPortGuardManaged(sv) THEN Append(h, sv) ELSE h,
                          IF st /\ ~IsPortGuardManaged(sv) THEN Append(t, sv) ELSE t, u))
<1> DEFINE c == InServer(st, sv, h, t, u)
           H == Append(h, sv)
           T == Append(t, sv)
           managed == IsPortGuardManaged(sv)
<1>1. ParseNginxLine(c, Ng("}", 0)) = CloseBrace(c)
    <2>1. c.up = NoUpstream /\ c.stream = st /\ (st => c.depth = 1)
        BY DEF InServer
    <2> HIDE DEF c
    <2>2. ~(c.stream /\ c.depth = 0)
        BY <2>1
    <2> QED
        BY <2>1, <2>2 DEF ParseNginxLine, Ng, NoUpstream
<1>2. /\ c.inLoc = FALSE /\ c.open = TRUE /\ c.server = sv /\ c.stream = st /\ c.http = h
      /\ c.streams = t
    BY DEF InServer
<1>3. sv.port > 0
    OBVIOUS
<1>4. CloseBrace(c) = [c EXCEPT !.open = FALSE, !.server = NewServer,
                                !.depth = IF st /\ @ > 0 THEN @ - 1 ELSE @,
                                !.streams = IF ~managed /\ st THEN T ELSE t,
                                !.http = IF ~managed /\ ~st THEN H ELSE h]
    <2> HIDE DEF c
    <2> QED
        BY <1>2, <1>3 DEF CloseBrace
<1> HIDE DEF H, T, managed
<1>5. CloseBrace(c) = Between(st, IF ~st /\ ~managed THEN H ELSE h, IF st /\ ~managed THEN T ELSE t, u)
    <2>1. CASE st
        <3>1. c.depth > 0 /\ c.depth - 1 = 0
            BY <2>1 DEF InServer
        <3>2. CloseBrace(c) = [c EXCEPT !.open = FALSE, !.server = NewServer, !.depth = 0,
                                        !.streams = IF ~managed THEN T ELSE t, !.http = h]
            BY <1>4, <2>1, <3>1
        <3> QED
            BY <2>1, <3>2 DEF InServer, Between
    <2>2. CASE ~st
        <3>1. CloseBrace(c) = [c EXCEPT !.open = FALSE, !.server = NewServer,
                                        !.streams = t, !.http = IF ~managed THEN H ELSE h]
            BY <1>4, <2>2
        <3> QED
            BY <2>2, <3>1 DEF InServer, Between
    <2> QED
        BY <2>1, <2>2
<1> QED
    BY <1>1, <1>5 DEF H, T, managed, NgStep

\* What is to be found of a location.
AsLoc(l) == [path |-> l.path, regex |-> l.regex, pass |-> l.pass]

LEMMA NgLocationRead ==
    ASSUME NEW h, NEW t, NEW u, NEW p, NEW ssl, NEW d, NEW ns, NEW r, NEW ls, IsSeq(ls),
           NEW l \in NgLoc, ~l.nested, l.pass.host = "" => l.pass.port = 0
    PROVE  Runs(NgLoop, InServer(FALSE, Srv(p, ssl, d, ns, r, ls), h, t, u), LocationLines(l),
                InServer(FALSE, Srv(p, ssl, d, ns, r, Append(ls, AsLoc(l))), h, t, u))
<1> DEFINE none == [host |-> "", port |-> 0]
           path == l.path
           regex == l.regex
           x == l.pass
           loc(y) == [path |-> path, regex |-> regex, pass |-> y]
           sv(q) == Srv(p, ssl, d, ns, r, q)
           A == InServer(FALSE, sv(ls), h, t, u)
           B == InLocation(sv(Append(ls, loc(none))), h, t, u)
           C == InLocation(sv(Append(ls, loc(x))), h, t, u)
           D == InServer(FALSE, sv(Append(ls, loc(x))), h, t, u)
           first == Ng("location {", [path |-> path, regex |-> regex])
           P == IF x.host = "" THEN <<>> ELSE <<Ng("proxy_pass", x)>>
<1>1. NgStep(A, first, B)
    BY NgLocationOpens, Zenon
<1>2. NgStep(B, Ng("proxy_pass", x), C)
    BY NgLocationPass, Zenon
<1>3. NgStep(C, Ng("}", 0), D)
    BY NgLocationCloses, Zenon
<1>4. D = InServer(FALSE, Srv(p, ssl, d, ns, r, Append(ls, AsLoc(l))), h, t, u)
    BY DEF AsLoc
<1>5. x.host = "" => B = C
    <2>1. x \in [host : STRING, port : Nat]
        BY DEF NgLoc, NgHost
    <2>2. x.host = "" => x = none
        BY <2>1
    <2> QED
        BY <2>2
<1>6. LocationLines(l) = ((<<first>> \o <<>>) \o P) \o <<Ng("}", 0)>>
    BY Zenon DEF LocationLines, UnknownBlock, Close
<1> HIDE DEF A, B, C, D, first, x
<1>7. Runs(NgLoop, A, <<first>>, B) /\ Runs(NgLoop, C, <<Ng("}", 0)>>, D) /\ Runs(NgLoop, B, <<>>, B)
    BY <1>1, <1>3, NgRunsOne, RunsEmpty, Zenon
<1>8. Runs(NgLoop, B, P, C)
    <2>1. CASE x.host = ""
        BY <1>5, <1>7, <2>1, Zenon
    <2>2. CASE x.host # ""
        <3>1. Runs(NgLoop, B, <<Ng("proxy_pass", x)>>, C)
            BY <1>2, NgRunsOne, Zenon
        <3> QED
            BY <2>2, <3>1, Zenon
    <2> QED
        BY <2>1, <2>2
<1> HIDE DEF P
<1>9. Runs(NgLoop, A, <<first>> \o <<>>, B)
    BY <1>7, RunsConcat, Zenon
<1>10. Runs(NgLoop, A, (<<first>> \o <<>>) \o P, C)
    BY <1>8, <1>9, RunsConcat, Zenon
<1>11. Runs(NgLoop, A, ((<<first>> \o <<>>) \o P) \o <<Ng("}", 0)>>, D)
    BY <1>7, <1>10, RunsConcat, Zenon
<1> QED
    BY <1>4, <1>6, <1>11, Zenon DEF A

\* The locations of a server, and the directives of a stream server.
LEMMA NgLocationsRead ==
    ASSUME NEW h, NEW t, NEW u, NEW p, NEW ssl, NEW d, NEW ns, NEW r, NEW L, L \in Seq(NgLoc),
           \A i \in DOMAIN L : ~L[i].nested /\ (L[i].pass.host = "" => L[i].pass.port = 0)
    PROVE  Runs(NgLoop, InServer(FALSE, Srv(p, ssl, d, ns, r, <<>>), h, t, u),
                FlattenSeq([i \in DOMAIN L |-> LocationLines(L[i])]),
                InServer(FALSE, Srv(p, ssl, d, ns, r, [i \in DOMAIN L |-> AsLoc(L[i])]), h, t, u))
<1> DEFINE n == Len(L)
           ss == [i \in DOMAIN L |-> LocationLines(L[i])]
           e == [i \in 1..n |-> AsLoc(L[i])]
           pre(i) == [j \in 1..i |-> e[j]]
           g == [i \in 0..n |-> InServer(FALSE, Srv(p, ssl, d, ns, r, pre(i)), h, t, u)]
<1>1. n \in Nat /\ DOMAIN L = 1..n /\ \A i \in 1..n : L[i] \in NgLoc
    BY SeqElem, Zenon
<1>0. n \in Nat /\ DOMAIN L = 1..n
    BY <1>1, Zenon
<1>2. ss = [i \in 1..n |-> ss[i]] /\ \A i \in 1..n : ss[i] = LocationLines(L[i])
    BY <1>1
<1>3. ASSUME NEW i \in 0..(n - 1) PROVE Runs(NgLoop, g[i], ss[i + 1], g[i + 1])
    <2>1. i \in Nat /\ i + 1 \in 1..n /\ i \in 0..n /\ i + 1 \in 0..n
        BY ONLY <1>0, <1>3
    <2>2. IsSeq(pre(i)) /\ Append(pre(i), e[i + 1]) = pre(i + 1)
        BY <2>1, FcnAppend
    <2>3. e[i + 1] = AsLoc(L[i + 1])
        BY <2>1
    <2> HIDE DEF e, pre
    <2> DEFINE l == L[i + 1]
    <2>4. l \in NgLoc /\ ~l.nested /\ (l.pass.host = "" => l.pass.port = 0)
        BY <1>1, <2>1, Zenon
    <2> HIDE DEF l
    <2>5. Runs(NgLoop, InServer(FALSE, Srv(p, ssl, d, ns, r, pre(i)), h, t, u), LocationLines(l),
               InServer(FALSE, Srv(p, ssl, d, ns, r, Append(pre(i), AsLoc(l))), h, t, u))
        BY <2>2, <2>4, NgLocationRead
    <2>6. /\ g[i] = InServer(FALSE, Srv(p, ssl, d, ns, r, pre(i)), h, t, u)
          /\ g[i + 1] = InServer(FALSE, Srv(p, ssl, d, ns, r, pre(i + 1)), h, t, u)
        BY <2>1, Zenon
    <2>7. ss[i + 1] = LocationLines(l) /\ pre(i + 1) = Append(pre(i), AsLoc(l))
        BY <1>2, <2>1, <2>2, <2>3, Zenon DEF l
    <2> QED
        BY <2>5, <2>6, <2>7, Zenon
<1>4. pre(0) = <<>> /\ pre(n) = [i \in DOMAIN L |-> AsLoc(L[i])]
    <2>1. pre(0) = <<>>
        BY ONLY FcnEmpty
    <2>2. \A j \in 1..n : e[j] = AsLoc(L[j])
        BY ONLY <1>0, Zenon
    <2>3. pre(n) = [i \in 1..n |-> AsLoc(L[i])]
        BY <2>2, Zenon
    <2> QED
        BY <1>0, <2>1, <2>3, Zenon
<1>5. 0 \in 0..n /\ n \in 0..n
    BY ONLY <1>0
<1> HIDE DEF e, pre
<1>6. /\ g[0] = InServer(FALSE, Srv(p, ssl, d, ns, r, <<>>), h, t, u)
      /\ g[n] = InServer(FALSE, Srv(p, ssl, d, ns, r, [i \in DOMAIN L |-> AsLoc(L[i])]), h, t, u)
    BY <1>4, <1>5, Zenon
<1> HIDE DEF g, n
<1>7. Runs(NgLoop, g[0], FlattenSeq(ss), g[n])
    <2> HIDE DEF ss
    <2> QED
        BY <1>1, <1>2, <1>3, RunsFlatten
<1> QED
    BY <1>6, <1>7, Zenon

LEMMA NgStreamRead ==
    ASSUME NEW h, NEW t, NEW u, NEW p, NEW ssl, NEW d, NEW ns, NEW L, L \in Seq(NgLoc),
           \A i \in DOMAIN L : L[i].path = "/" /\ ~L[i].regex
    PROVE  Runs(NgLoop, InServer(TRUE, Srv(p, ssl, d, ns, FALSE, <<>>), h, t, u),
                [i \in DOMAIN L |-> Ng("proxy_pass", L[i].pass)],
                InServer(TRUE, Srv(p, ssl, d, ns, FALSE, [i \in DOMAIN L |-> AsLoc(L[i])]), h, t, u))
<1> DEFINE n == Len(L)
           s == [i \in DOMAIN L |-> Ng("proxy_pass", L[i].pass)]
           e == [i \in 1..n |-> AsLoc(L[i])]
           pre(i) == [j \in 1..i |-> e[j]]
           g == [i \in 0..n |-> InServer(TRUE, Srv(p, ssl, d, ns, FALSE, pre(i)), h, t, u)]
<1>1. n \in Nat /\ DOMAIN L = 1..n /\ \A i \in 1..n : L[i] \in NgLoc
    BY SeqElem, Zenon
<1>0. n \in Nat /\ DOMAIN L = 1..n
    BY <1>1, Zenon
<1>2. s = [i \in 1..n |-> s[i]] /\ \A i \in 1..n : s[i] = Ng("proxy_pass", L[i].pass)
    BY <1>1
<1>3. ASSUME NEW i \in 0..(n - 1) PROVE g[i + 1] = Loop(NgLoop, g[i], s[i + 1])
    <2>1. i \in Nat /\ i + 1 \in 1..n /\ i \in 0..n /\ i + 1 \in 0..n
        BY ONLY <1>0, <1>3
    <2>2. Append(pre(i), e[i + 1]) = pre(i + 1)
        BY <2>1, FcnAppend
    <2>3. e[i + 1] = AsLoc(L[i + 1])
        BY <2>1
    <2> HIDE DEF e, pre
    <2> DEFINE l == L[i + 1]
               x == l.pass
    <2>4. l \in NgLoc /\ l.path = "/" /\ ~l.regex
        BY <1>1, <2>1, Zenon
    <2> HIDE DEF l
    <2>5. AsLoc(l) = [path |-> "/", regex |-> FALSE, pass |-> x]
        <3>1. l.regex = FALSE
            BY <2>4 DEF NgLoc
        <3> QED
            BY <2>4, <3>1, Zenon DEF AsLoc
    <2> DEFINE y == [path |-> "/", regex |-> FALSE, pass |-> x]
    <2>6. NgStep(InServer(TRUE, Srv(p, ssl, d, ns, FALSE, pre(i)), h, t, u), Ng("proxy_pass", x),
                 InServer(TRUE, Srv(p, ssl, d, ns, FALSE, Append(pre(i), y)), h, t, u))
        BY NgStreamPass, Zenon
    <2>7. /\ g[i] = InServer(TRUE, Srv(p, ssl, d, ns, FALSE, pre(i)), h, t, u)
          /\ g[i + 1] = InServer(TRUE, Srv(p, ssl, d, ns, FALSE, pre(i + 1)), h, t, u)
        BY <2>1, Zenon
    <2>8. s[i + 1] = Ng("proxy_pass", x) /\ pre(i + 1) = Append(pre(i), AsLoc(l))
        BY <1>2, <2>1, <2>2, <2>3, Zenon DEF l
    <2> QED
        BY <2>5, <2>6, <2>7, <2>8, NgRound, Zenon DEF NgStep
<1>4. pre(0) = <<>> /\ pre(n) = [i \in DOMAIN L |-> AsLoc(L[i])]
    <2>1. pre(0) = <<>>
        BY ONLY FcnEmpty
    <2>2. \A j \in 1..n : e[j] = AsLoc(L[j])
        BY ONLY <1>0, Zenon
    <2>3. pre(n) = [i \in 1..n |-> AsLoc(L[i])]
        BY <2>2, Zenon
    <2> QED
        BY <1>0, <2>1, <2>3, Zenon
<1>5. 0 \in 0..n /\ n \in 0..n
    BY ONLY <1>0
<1> HIDE DEF e, pre
<1>6. /\ g[0] = InServer(TRUE, Srv(p, ssl, d, ns, FALSE, <<>>), h, t, u)
      /\ g[n] = InServer(TRUE, Srv(p, ssl, d, ns, FALSE, [i \in DOMAIN L |-> AsLoc(L[i])]), h, t, u)
    BY <1>4, <1>5, Zenon
<1> HIDE DEF g, n
<1>7. Runs(NgLoop, g[0], s, g[n])
    <2> HIDE DEF s
    <2> QED
        BY <1>1, <1>2, <1>3, RunsSteps
<1> QED
    BY <1>6, <1>7, Zenon

\* The servers the file can hold: of http, without blocks in their locations, and of
\* stream.
HttpOk(s) ==
    \A i \in DOMAIN s.locs : /\ ~s.locs[i].nested
                             /\ (s.locs[i].pass.host = "" => s.locs[i].pass.port = 0)
StreamOk(s) ==
    ~s.redirect /\ \A i \in DOMAIN s.locs : s.locs[i].path = "/" /\ ~s.locs[i].regex

\* The parser keeps a server the panel did not write.
Kept(x, s) == x \o SiteOf(s)

LEMMA NgServerRead ==
    ASSUME NEW h, NEW t, NEW u, IsSeq(h), IsSeq(t), NEW st \in BOOLEAN, NEW s \in NgServer,
           IF st THEN StreamOk(s) ELSE HttpOk(s)
    PROVE  Runs(NgLoop, Between(st, h, t, u), ServerLines(s, st),
                Between(st, IF st THEN h ELSE Kept(h, s), IF st THEN Kept(t, s) ELSE t, u))
<1> DEFINE p == s.port
           ssl == s.ssl
           d == s.default
           N == s.names \ {"_"}
           r == s.redirect
           L == s.locs
           locs == [i \in DOMAIN L |-> AsLoc(L[i])]
           I0 == InServer(st, NewServer, h, t, u)
           I1 == InServer(st, Srv(p, ssl, d, {}, FALSE, <<>>), h, t, u)
           I2 == InServer(st, Srv(p, ssl, d, N, FALSE, <<>>), h, t, u)
           I3 == InServer(st, Srv(p, ssl, d, N, r, <<>>), h, t, u)
           sv == Srv(p, ssl, d, N, r, locs)
           I4 == InServer(st, sv, h, t, u)
           B == Between(st, h, t, u)
           E == Between(st, IF st THEN h ELSE Kept(h, s), IF st THEN Kept(t, s) ELSE t, u)
           a == Ng("server {", 0)
           b == Ng("listen", [port |-> p, ssl |-> ssl, default |-> d])
           c == Ng("server_name", s.names)
           R == IF r THEN <<Ng("return", <<"301">>)>> ELSE <<>>
           X == IF st THEN [i \in DOMAIN L |-> Ng("proxy_pass", L[i].pass)]
                ELSE FlattenSeq([i \in DOMAIN L |-> LocationLines(L[i])])
           z == Ng("}", 0)
<1>1. /\ p \in Nat \ {0} /\ ssl \in BOOLEAN /\ d \in BOOLEAN /\ r \in BOOLEAN /\ L \in Seq(NgLoc)
    BY DEF NgServer
<1>2. ServerLines(s, st) = ((<<a, b, c>> \o R) \o X) \o <<z>>
    BY Zenon DEF ServerLines, Close
<1>3. Loop(NgLoop, B, a) = I0
    <2>1. NgStep(B, a, I0)
        BY NgOpen, Zenon
    <2> QED
        BY <2>1, NgRound, Zenon DEF NgStep
<1>4. Loop(NgLoop, I0, b) = I1 /\ Loop(NgLoop, I1, c) = I2
    <2>1. NgStep(I0, b, I1) /\ NgStep(I1, c, I2)
        BY <1>1, NgServerLines, Zenon
    <2> QED
        BY <2>1, NgRound, Zenon DEF NgStep
<1>5. Runs(NgLoop, I2, R, I3)
    <2>1. CASE r
        <3>1. r = TRUE
            BY <1>1, <2>1
        <3>2. NgStep(I2, Ng("return", <<"301">>), InServer(st, Srv(p, ssl, d, N, TRUE, <<>>), h, t, u))
            BY <1>1, NgServerLines, Zenon
        <3>3. NgStep(I2, Ng("return", <<"301">>), I3)
            BY <3>1, <3>2, Zenon
        <3> HIDE DEF I2, I3
        <3>4. Runs(NgLoop, I2, <<Ng("return", <<"301">>)>>, I3)
            BY <3>3, NgRunsOne, Zenon
        <3> QED
            BY <2>1, <3>4, Zenon
    <2>2. CASE ~r
        <3>1. r = FALSE
            BY <1>1, <2>2
        <3>2. I2 = I3
            BY <3>1, Zenon
        <3> HIDE DEF I2, I3
        <3> QED
            BY <2>2, <3>2, RunsEmpty, Zenon
    <2> QED
        BY <2>1, <2>2
<1>6. Runs(NgLoop, I3, X, I4)
    <2>1. CASE st
        <3>1. StreamOk(s) /\ r = FALSE /\ st = TRUE
            BY <1>1, <2>1 DEF StreamOk
        <3>2. \A i \in DOMAIN L : L[i].path = "/" /\ ~L[i].regex
            BY <3>1, Zenon DEF StreamOk
        <3> HIDE DEF p, ssl, d, N, L
        <3>3. Runs(NgLoop, InServer(TRUE, Srv(p, ssl, d, N, FALSE, <<>>), h, t, u),
                   [i \in DOMAIN L |-> Ng("proxy_pass", L[i].pass)],
                   InServer(TRUE, Srv(p, ssl, d, N, FALSE, locs), h, t, u))
            BY <1>1, <3>2, NgStreamRead
        <3> QED
            BY <2>1, <3>1, <3>3, Zenon
    <2>2. CASE ~st
        <3>1. \A i \in DOMAIN L : ~L[i].nested /\ (L[i].pass.host = "" => L[i].pass.port = 0)
            BY <2>2, Zenon DEF HttpOk
        <3>2. st = FALSE
            BY <2>2
        <3> HIDE DEF p, ssl, d, N, L, r
        <3>3. Runs(NgLoop, InServer(FALSE, Srv(p, ssl, d, N, r, <<>>), h, t, u),
                   FlattenSeq([i \in DOMAIN L |-> LocationLines(L[i])]),
                   InServer(FALSE, Srv(p, ssl, d, N, r, locs), h, t, u))
            BY <1>1, <3>1, NgLocationsRead
        <3> QED
            BY <2>2, <3>2, <3>3, Zenon
    <2> QED
        BY <2>1, <2>2
<1>7. sv = AsParsed(s)
    BY Zenon DEF Srv, AsParsed, AsLoc
<1>8. sv.port = p /\ sv.names = N
    <2> HIDE DEF p, ssl, d, N, r, locs
    <2> QED
        BY DEF Srv
<1>9. IsPortGuardManaged(sv) <=> IsPortGuardManaged(s)
    <2>1. "portguard" \in N <=> "portguard" \in s.names
        OBVIOUS
    <2> HIDE DEF sv, N
    <2> QED
        BY <1>8, <2>1, Zenon DEF IsPortGuardManaged
<1>10. \A x : IsSeq(x) => Kept(x, s) = IF IsPortGuardManaged(sv) THEN x ELSE Append(x, sv)
    <2>1. \A x : Kept(x, s) = IF IsPortGuardManaged(sv) THEN x \o <<>> ELSE x \o <<sv>>
        BY <1>7, <1>9, Zenon DEF Kept, SiteOf
    <2> HIDE DEF sv
    <2>2. \A x : IsSeq(x) => x \o <<>> = x /\ Append(x, sv) = x \o <<sv>>
        BY ConcatEmpty, SeqAppend
    <2> QED
        BY <2>1, <2>2, Zenon
<1>11. Loop(NgLoop, I4, z) = E
    <2> HIDE DEF sv
    <2>0. sv.port \in Nat \ {0}
        BY <1>1, <1>8, Zenon
    <2>1. NgStep(I4, z, Between(st, IF ~st /\ ~IsPortGuardManaged(sv) THEN Append(h, sv) ELSE h,
                                IF st /\ ~IsPortGuardManaged(sv) THEN Append(t, sv) ELSE t, u))
        BY <2>0, NgServerEnd, Zenon
    <2> DEFINE H == Append(h, sv)
               T == Append(t, sv)
               m == IsPortGuardManaged(sv)
    <2>2. /\ (IF ~st /\ ~m THEN H ELSE h) = IF st THEN h ELSE Kept(h, s)
          /\ (IF st /\ ~m THEN T ELSE t) = IF st THEN Kept(t, s) ELSE t
        <3>1. Kept(h, s) = (IF m THEN h ELSE H) /\ Kept(t, s) = (IF m THEN t ELSE T)
            BY <1>10, Zenon
        <3> HIDE DEF m, H, T
        <3> QED
            BY <3>1
    <2> QED
        BY <2>1, <2>2, NgRound, Zenon DEF NgStep
<1> HIDE DEF I0, I1, I2, I3, I4, B, E, a, b, c, R, X, z
<1>12. Runs(NgLoop, B, <<a, b, c>>, I2)
    BY <1>3, <1>4, RunsThree
<1>13. Runs(NgLoop, B, <<a, b, c>> \o R, I3)
    BY <1>5, <1>12, RunsConcat, Zenon
<1>14. Runs(NgLoop, B, (<<a, b, c>> \o R) \o X, I4)
    BY <1>6, <1>13, RunsConcat, Zenon
<1>15. Runs(NgLoop, I4, <<z>>, E)
    BY <1>11, RunsOne, Zenon
<1>16. Runs(NgLoop, B, ((<<a, b, c>> \o R) \o X) \o <<z>>, E)
    BY <1>14, <1>15, RunsConcat, Zenon
<1> QED
    BY <1>2, <1>16, Zenon DEF B, E

\* An upstream block: its hosts are found under its name.
UpstreamRead(h, t, u, n, H) ==
    Runs(NgLoop, Between(FALSE, h, t, u),
         (<<Ng("upstream {", n)>> \o [i \in DOMAIN H |-> Ng("server", H[i])]) \o Close,
         Between(FALSE, h, t, u \cup {<<n, H[j]>> : j \in DOMAIN H}))

LEMMA NgUpstreamRead ==
    ASSUME NEW h, NEW t, NEW u, NEW n, n # NoUpstream, NEW H, IsSeq(H)
    PROVE  UpstreamRead(h, t, u, n, H)
<1> DEFINE k == Len(H)
           s == [i \in DOMAIN H |-> Ng("server", H[i])]
           P(i) == u \cup {<<n, H[j]>> : j \in 1..i}
           g == [i \in 0..k |-> InUpstream(n, h, t, P(i))]
           A == Between(FALSE, h, t, u)
           B == InUpstream(n, h, t, u)
           C == InUpstream(n, h, t, P(k))
           D == Between(FALSE, h, t, P(k))
<1>1. k \in Nat /\ DOMAIN H = 1..k
    BY SeqDomain
<1>2. s = [i \in 1..k |-> s[i]] /\ \A i \in 1..k : s[i] = Ng("server", H[i])
    BY <1>1
<1>3. ASSUME NEW i \in 0..(k - 1) PROVE g[i + 1] = Loop(NgLoop, g[i], s[i + 1])
    <2>1. i \in Nat /\ i + 1 \in 1..k /\ i \in 0..k /\ i + 1 \in 0..k
        BY ONLY <1>1, <1>3
    <2>2. P(i + 1) = P(i) \cup {<<n, H[i + 1]>>}
        <3>1. 1..(i + 1) = (1..i) \cup {i + 1}
            BY ONLY <2>1
        <3> QED
            BY ONLY <3>1
    <2> DEFINE x == H[i + 1]
    <2> HIDE DEF P
    <2>3. NgStep(InUpstream(n, h, t, P(i)), Ng("server", x), InUpstream(n, h, t, P(i) \cup {<<n, x>>}))
        BY NgUpstream, Zenon
    <2>4. g[i] = InUpstream(n, h, t, P(i)) /\ g[i + 1] = InUpstream(n, h, t, P(i + 1))
        BY <2>1, Zenon
    <2>5. s[i + 1] = Ng("server", x)
        BY <1>2, <2>1, Zenon
    <2> QED
        BY <2>2, <2>3, <2>4, <2>5, NgRound, Zenon DEF NgStep
<1>4. P(0) = u
    <2>1. 1..0 = {}
        OBVIOUS
    <2> QED
        BY ONLY <2>1
<1>5. 0 \in 0..k /\ k \in 0..k
    BY ONLY <1>1
<1>6. g[0] = B /\ g[k] = C
    <2> HIDE DEF P, k
    <2> QED
        BY <1>4, <1>5, Zenon
<1>7. NgStep(A, Ng("upstream {", n), B) /\ NgStep(C, Ng("}", 0), D)
    BY NgUpstream, Zenon
<1>8. D = Between(FALSE, h, t, u \cup {<<n, H[j]>> : j \in DOMAIN H})
    BY <1>1, Zenon
<1> HIDE DEF g, k
<1>9. Runs(NgLoop, g[0], s, g[k])
    <2> HIDE DEF s
    <2> QED
        BY <1>1, <1>2, <1>3, RunsSteps
<1> HIDE DEF A, B, C, D, s, P
<1>10. Runs(NgLoop, A, <<Ng("upstream {", n)>>, B) /\ Runs(NgLoop, C, Close, D)
    BY <1>7, NgRunsOne, Zenon DEF Close
<1>11. Runs(NgLoop, B, s, C)
    BY <1>6, <1>9, Zenon
<1>12. Runs(NgLoop, A, <<Ng("upstream {", n)>> \o s, C)
    BY <1>10, <1>11, RunsConcat, Zenon
<1>13. Runs(NgLoop, A, (<<Ng("upstream {", n)>> \o s) \o Close, D)
    BY <1>10, <1>12, RunsConcat, Zenon
<1> QED
    BY <1>8, <1>13, Zenon DEF A, s, UpstreamRead

LEMMA NgHttpRead ==
    ASSUME NEW h, NEW t, NEW u, IsSeq(h), IsSeq(t), NEW s \in NgServer, HttpOk(s)
    PROVE  Runs(NgLoop, Between(FALSE, h, t, u), (<<Ng("http {", 0)>> \o ServerLines(s, FALSE)) \o Close,
                Between(FALSE, Kept(h, s), t, u))
<1> DEFINE A == Between(FALSE, h, t, u)
           B == Between(FALSE, Kept(h, s), t, u)
           no == FALSE
<1>1. NgStep(A, Ng("http {", 0), A) /\ NgStep(B, Ng("}", 0), B)
    BY NgOpen, Zenon
<1>2. Runs(NgLoop, A, ServerLines(s, FALSE), B)
    <2>1. \A st \in BOOLEAN : (IF st THEN StreamOk(s) ELSE HttpOk(s)) =>
            Runs(NgLoop, Between(st, h, t, u), ServerLines(s, st),
                Between(st, IF st THEN h ELSE Kept(h, s), IF st THEN Kept(t, s) ELSE t, u))
        BY NgServerRead
    <2>2. FALSE \in BOOLEAN
        OBVIOUS
    <2>3. Runs(NgLoop, Between(FALSE, h, t, u), ServerLines(s, FALSE),
                Between(FALSE, IF FALSE THEN h ELSE Kept(h, s), IF FALSE THEN Kept(t, s) ELSE t, u))
        BY <2>1, <2>2, Zenon
    <2> QED
        BY <2>3, Zenon
<1> HIDE DEF A, B
<1>3. Runs(NgLoop, A, <<Ng("http {", 0)>>, A) /\ Runs(NgLoop, B, Close, B)
    BY <1>1, NgRunsOne, Zenon DEF Close
<1>4. Runs(NgLoop, A, <<Ng("http {", 0)>> \o ServerLines(s, FALSE), B)
    BY <1>2, <1>3, RunsConcat, Zenon
<1>5. Runs(NgLoop, A, (<<Ng("http {", 0)>> \o ServerLines(s, FALSE)) \o Close, B)
    BY <1>3, <1>4, RunsConcat, Zenon
<1> QED
    BY <1>5, Zenon DEF A, B

\* The servers found of a stream block.
Streams(S) == FlattenSeq([j \in DOMAIN S |-> SiteOf(S[j])])

LEMMA SiteSeq == \A s : IsSeq(SiteOf(s))
BY SeqOne, SeqEmpty, Zenon DEF SiteOf

LEMMA NgStreamBlockRead ==
    ASSUME NEW h, NEW t, NEW u, IsSeq(h), IsSeq(t), NEW S \in Seq(NgServer),
           \A i \in DOMAIN S : StreamOk(S[i])
    PROVE  /\ IsSeq(Streams(S))
           /\ Runs(NgLoop, Between(FALSE, h, t, u),
                   (<<Ng("stream {", 0)>> \o FlattenSeq([i \in DOMAIN S |-> ServerLines(S[i], TRUE)]))
                       \o Close,
                   Between(FALSE, h, t \o Streams(S), u))
<1> DEFINE n == Len(S)
           ss == [i \in DOMAIN S |-> ServerLines(S[i], TRUE)]
           es == [i \in DOMAIN S |-> SiteOf(S[i])]
<1>0. n \in Nat /\ DOMAIN S = 1..n /\ \A i \in 1..n : S[i] \in NgServer
    BY SeqElem, Zenon
<1>1. n \in Nat /\ DOMAIN S = 1..n
    BY <1>0, Zenon
<1>2. ss = [i \in 1..n |-> ss[i]] /\ \A i \in 1..n : ss[i] = ServerLines(S[i], TRUE)
    BY <1>1
<1>3. es = [i \in 1..n |-> es[i]] /\ \A i \in 1..n : es[i] = SiteOf(S[i]) /\ IsSeq(es[i])
    BY <1>1, SiteSeq
<1>4. Streams(S) = FlattenSeq(es)
    BY Zenon DEF Streams
<1> HIDE DEF es
<1>5. PICK f : /\ f[0] = <<>> /\ f[n] = FlattenSeq(es)
               /\ \A i \in 0..(n - 1) : f[i + 1] = f[i] \o es[i + 1]
               /\ \A i \in 0..n : IsSeq(f[i])
    <2> HIDE DEF n
    <2>1. \A i \in 1..n : IsSeq(es[i])
        BY <1>3, Zenon
    <2>2. IsSeq(es) /\ Len(es) = n
        BY <1>1, <1>3, FcnSeq
    <2> QED
        BY <2>1, <2>2, Flatten, Zenon
<1> DEFINE q(i) == t \o f[i]
           g == [i \in 0..n |-> Between(TRUE, h, q(i), u)]
<1>6. ASSUME NEW i \in 0..(n - 1) PROVE Runs(NgLoop, g[i], ss[i + 1], g[i + 1])
    <2>1. i \in Nat /\ i + 1 \in 1..n /\ i \in 0..n /\ i + 1 \in 0..n
        BY ONLY <1>1, <1>6
    <2> DEFINE s == S[i + 1]
    <2>2. s \in NgServer /\ StreamOk(s) /\ IsSeq(f[i]) /\ IsSeq(es[i + 1]) /\ es[i + 1] = SiteOf(s)
        BY <1>0, <1>1, <1>3, <1>5, <2>1, Zenon
    <2>3. IsSeq(q(i))
        BY <2>2, HasConcat, Zenon
    <2>4. Kept(q(i), s) = q(i + 1)
        <3>1. (t \o f[i]) \o es[i + 1] = t \o (f[i] \o es[i + 1])
            <4> DEFINE a == f[i]
                       b == es[i + 1]
            <4>1. IsSeq(a) /\ IsSeq(b) /\ IsSeq(t)
                BY <2>2, Zenon
            <4> HIDE DEF a, b
            <4>2. (t \o a) \o b = t \o (a \o b)
                BY ONLY <4>1, ConcatAssoc
            <4> QED
                BY <4>2, Zenon DEF a, b
        <3>2. f[i + 1] = f[i] \o es[i + 1]
            BY <1>5, <1>6, Zenon
        <3> QED
            BY <2>2, <3>1, <3>2, Zenon DEF Kept
    <2>5. g[i] = Between(TRUE, h, q(i), u) /\ g[i + 1] = Between(TRUE, h, q(i + 1), u)
        BY <2>1, Zenon
    <2>6. ss[i + 1] = ServerLines(s, TRUE)
        BY <1>2, <2>1, Zenon
    <2> HIDE DEF s, q, g, ss
    <2>7. \A st \in BOOLEAN : (IF st THEN StreamOk(s) ELSE HttpOk(s)) =>
            Runs(NgLoop, Between(st, h, q(i), u), ServerLines(s, st),
                Between(st, IF st THEN h ELSE Kept(h, s), IF st THEN Kept(q(i), s) ELSE q(i), u))
        BY <2>2, <2>3, NgServerRead
    <2>8. TRUE \in BOOLEAN
        OBVIOUS
    <2>9. Runs(NgLoop, Between(TRUE, h, q(i), u), ServerLines(s, TRUE),
                Between(TRUE, IF TRUE THEN h ELSE Kept(h, s), IF TRUE THEN Kept(q(i), s) ELSE q(i), u))
        BY <2>2, <2>7, <2>8, Zenon
    <2>10. Runs(NgLoop, Between(TRUE, h, q(i), u), ServerLines(s, TRUE),
                Between(TRUE, h, Kept(q(i), s), u))
        BY <2>9, Zenon
    <2> QED
        BY <2>4, <2>5, <2>6, <2>10, Zenon
<1>7. 0 \in 0..n /\ n \in 0..n
    BY ONLY <1>1
<1>8. q(0) = t /\ q(n) = t \o Streams(S)
    BY <1>4, <1>5, ConcatEmpty, Zenon
<1> HIDE DEF q
<1>9. g[0] = Between(TRUE, h, t, u) /\ g[n] = Between(TRUE, h, t \o Streams(S), u)
    BY <1>7, <1>8, Zenon
<1>14. IsSeq(Streams(S))
    BY <1>4, <1>5, <1>7, Zenon
<1> HIDE DEF g, n
<1>10. Runs(NgLoop, g[0], FlattenSeq(ss), g[n])
    <2> HIDE DEF ss
    <2> QED
        BY <1>1, <1>2, <1>6, RunsFlatten
<1> DEFINE A == Between(FALSE, h, t, u)
           B == Between(TRUE, h, t, u)
           C == Between(TRUE, h, t \o Streams(S), u)
           D == Between(FALSE, h, t \o Streams(S), u)
<1>11. NgStep(A, Ng("stream {", 0), B) /\ NgStep(C, Ng("}", 0), D)
    <2>1. TRUE \in BOOLEAN
        OBVIOUS
    <2> QED
        BY <2>1, NgOpen, Zenon
<1> HIDE DEF A, B, C, D, ss
<1>12. Runs(NgLoop, A, <<Ng("stream {", 0)>>, B) /\ Runs(NgLoop, C, Close, D) /\ Runs(NgLoop, B, FlattenSeq(ss), C)
    BY <1>9, <1>10, <1>11, NgRunsOne, Zenon DEF Close, B, C
<1>13. Runs(NgLoop, A, (<<Ng("stream {", 0)>> \o FlattenSeq(ss)) \o Close, D)
    BY <1>12, RunsConcat, Zenon
<1> QED
    BY <1>13, <1>14, Zenon DEF A, D, ss

Blocks == Upstreams \cup HttpServers \cup StreamBlocks

\* What is to be found of a block.
HttpOf(b) == IF b.kind = "http" THEN SiteOf(b.server) ELSE <<>>
StreamsOf(b) == IF b.kind = "stream" THEN Streams(b.servers) ELSE <<>>
UpsOf(b) == IF b.kind = "upstream" THEN {<<b.name, b.hosts[j]>> : j \in DOMAIN b.hosts} ELSE {}

LEMMA NgBlockLines ==
    ASSUME NEW b
    PROVE  /\ b.kind = "upstream" => BlockLines(b) = (<<Ng("upstream {", b.name)>>
                  \o [i \in DOMAIN b.hosts |-> Ng("server", b.hosts[i])]) \o Close
           /\ b.kind = "http" => BlockLines(b) =
                  (<<Ng("http {", 0)>> \o ServerLines(b.server, FALSE)) \o Close
           /\ b.kind = "stream" => BlockLines(b) = (<<Ng("stream {", 0)>>
                  \o FlattenSeq([i \in DOMAIN b.servers |-> ServerLines(b.servers[i], TRUE)])) \o Close
<1> DEFINE x == (<<Ng("upstream {", b.name)>>
                  \o [i \in DOMAIN b.hosts |-> Ng("server", b.hosts[i])]) \o Close
           y == (<<Ng("http {", 0)>> \o ServerLines(b.server, FALSE)) \o Close
           z == (<<Ng("stream {", 0)>>
                  \o FlattenSeq([i \in DOMAIN b.servers |-> ServerLines(b.servers[i], TRUE)])) \o Close
<1>1. BlockLines(b) = CASE b.kind = "upstream" -> x [] b.kind = "http" -> y [] b.kind = "stream" -> z
    BY Zenon DEF BlockLines
<1> HIDE DEF x, y, z
<1>2. /\ b.kind = "upstream" => BlockLines(b) = x
      /\ b.kind = "http" => BlockLines(b) = y
      /\ b.kind = "stream" => BlockLines(b) = z
    BY <1>1
<1> QED
    BY <1>2, Zenon DEF x, y, z

LEMMA NgKinds ==
    ASSUME NEW b \in Blocks
    PROVE  \/ b.kind = "upstream" /\ IsSeq(b.hosts) /\ b.name # NoUpstream
           \/ /\ b.kind = "http" /\ b.server \in NgServer
              /\ ~Nested(b.server) => HttpOk(b.server)
           \/ /\ b.kind = "stream" /\ b.servers \in Seq(NgServer)
              /\ \A i \in DOMAIN b.servers : StreamOk(b.servers[i])
<1>1. CASE b \in Upstreams
    <2>1. b \in [kind : {"upstream"}, name : STRING \ {"none"}, hosts : Seq(NgHost)]
        BY <1>1, NgAssumption, Zenon
    <2>2. b.kind = "upstream" /\ b.name # "none" /\ b.hosts \in Seq(NgHost)
        BY <2>1
    <2> QED
        BY <2>2 DEF IsSeq, NoUpstream
<1>2. CASE b \in HttpServers
    <2>1. b \in [kind : {"http"}, server : NgServer]
        BY <1>2, NgAssumption, Zenon
    <2>2. b.kind = "http" /\ b.server \in NgServer
        BY <2>1
    <2>3. \A i \in DOMAIN b.server.locs :
              b.server.locs[i].pass.host = "" => b.server.locs[i].pass.port = 0
        BY <1>2, NgAssumption, Zenon
    <2>4. ~Nested(b.server) => HttpOk(b.server)
        BY <2>3, Zenon DEF Nested, HttpOk
    <2> QED
        BY <2>2, <2>4, Zenon
<1>3. CASE b \in StreamBlocks
    <2>1. b \in [kind : {"stream"}, servers : Seq(NgServer)]
        BY <1>3, NgAssumption, Zenon
    <2>2. b.kind = "stream" /\ b.servers \in Seq(NgServer)
        BY <2>1
    <2>3. \A k \in DOMAIN b.servers : StreamOk(b.servers[k])
        BY <1>3, NgAssumption, Zenon DEF StreamOk
    <2> QED
        BY <2>2, <2>3, Zenon
<1> QED
    BY <1>1, <1>2, <1>3, Zenon DEF Blocks

\* The line parser finds of a block what is in it.
LEMMA NgBlockRead ==
    ASSUME NEW h, NEW t, NEW u, IsSeq(h), IsSeq(t), NEW b \in Blocks,
           b.kind = "http" => ~Nested(b.server)
    PROVE  /\ IsSeq(HttpOf(b)) /\ IsSeq(StreamsOf(b))
           /\ Runs(NgLoop, Between(FALSE, h, t, u), BlockLines(b),
                   Between(FALSE, h \o HttpOf(b), t \o StreamsOf(b), u \cup UpsOf(b)))
<1>1. IsSeq(<<>>) /\ h \o <<>> = h /\ t \o <<>> = t /\ u \cup {} = u
    BY SeqEmpty, ConcatEmpty
<1>2. CASE b.kind = "upstream" /\ IsSeq(b.hosts) /\ b.name # NoUpstream
    <2>1. b.kind = "upstream" /\ b.kind # "http" /\ b.kind # "stream"
        BY <1>2
    <2>2. HttpOf(b) = <<>> /\ StreamsOf(b) = <<>>
          /\ UpsOf(b) = {<<b.name, b.hosts[j]>> : j \in DOMAIN b.hosts}
        BY <2>1, Zenon DEF HttpOf, StreamsOf, UpsOf
    <2>3. Runs(NgLoop, Between(FALSE, h, t, u), BlockLines(b),
               Between(FALSE, h, t, u \cup {<<b.name, b.hosts[j]>> : j \in DOMAIN b.hosts}))
        <3> DEFINE N == b.name
                   H == b.hosts
        <3>1. IsSeq(H) /\ N # NoUpstream
            BY <1>2, Zenon
        <3>2. BlockLines(b) = (<<Ng("upstream {", N)>> \o [i \in DOMAIN H |-> Ng("server", H[i])]) \o Close
            BY <1>2, NgBlockLines, Zenon
        <3> HIDE DEF N, H
        <3>3. UpstreamRead(h, t, u, N, H)
            BY <3>1, NgUpstreamRead
        <3> QED
            BY <3>2, <3>3, Zenon DEF N, H, UpstreamRead
    <2> QED
        BY <1>1, <2>2, <2>3, Zenon
<1>3. CASE /\ b.kind = "http" /\ b.server \in NgServer
           /\ ~Nested(b.server) => HttpOk(b.server)
    <2>1. b.kind = "http" /\ b.kind # "upstream" /\ b.kind # "stream"
        BY <1>3
    <2>2. HttpOf(b) = SiteOf(b.server) /\ StreamsOf(b) = <<>> /\ UpsOf(b) = {}
        BY <2>1, Zenon DEF HttpOf, StreamsOf, UpsOf
    <2>3. Runs(NgLoop, Between(FALSE, h, t, u), BlockLines(b), Between(FALSE, Kept(h, b.server), t, u))
        BY <1>3, NgBlockLines, NgHttpRead, Zenon
    <2> QED
        BY <1>1, <2>2, <2>3, SiteSeq, Zenon DEF Kept
<1>4. CASE /\ b.kind = "stream" /\ b.servers \in Seq(NgServer)
           /\ \A i \in DOMAIN b.servers : StreamOk(b.servers[i])
    <2>1. b.kind = "stream" /\ b.kind # "upstream" /\ b.kind # "http"
        BY <1>4
    <2>2. HttpOf(b) = <<>> /\ StreamsOf(b) = Streams(b.servers) /\ UpsOf(b) = {}
        BY <2>1, Zenon DEF HttpOf, StreamsOf, UpsOf
    <2>3. /\ IsSeq(Streams(b.servers))
          /\ Runs(NgLoop, Between(FALSE, h, t, u), BlockLines(b),
                  Between(FALSE, h, t \o Streams(b.servers), u))
        BY <1>4, NgBlockLines, NgStreamBlockRead, Zenon
    <2> QED
        BY <1>1, <2>2, <2>3, Zenon
<1> QED
    BY <1>2, <1>3, <1>4, NgKinds, Zenon

\* It finds of a file what is in its blocks.
FoundHttp(bs) == FlattenSeq([i \in DOMAIN bs |-> HttpOf(bs[i])])
FoundStreams(bs) == FlattenSeq([i \in DOMAIN bs |-> StreamsOf(bs[i])])
FoundUps(bs) == UNION {UpsOf(bs[i]) : i \in DOMAIN bs}

LEMMA NgFileRead ==
    ASSUME NEW n \in Nat, NEW bs \in [1..n -> Blocks],
           \A i \in DOMAIN bs : bs[i].kind = "http" => ~Nested(bs[i].server)
    PROVE  ParseNginxConfig(NginxText(bs)) = Between(FALSE, FoundHttp(bs), FoundStreams(bs), FoundUps(bs))
           /\ IsSeq(FoundHttp(bs)) /\ IsSeq(FoundStreams(bs))
<1> DEFINE ss == [i \in DOMAIN bs |-> BlockLines(bs[i])]
           hs == [i \in DOMAIN bs |-> HttpOf(bs[i])]
           ts == [i \in DOMAIN bs |-> StreamsOf(bs[i])]
           U(i) == UNION {UpsOf(bs[j]) : j \in 1..i}
<1>1. DOMAIN bs = 1..n /\ \A i \in 1..n : bs[i] \in Blocks /\ (bs[i].kind = "http" => ~Nested(bs[i].server))
    OBVIOUS
<1>2. ss = [i \in 1..n |-> ss[i]] /\ \A i \in 1..n : ss[i] = BlockLines(bs[i])
    BY <1>1
<1>3. /\ hs = [i \in 1..n |-> hs[i]] /\ \A i \in 1..n : hs[i] = HttpOf(bs[i])
      /\ ts = [i \in 1..n |-> ts[i]] /\ \A i \in 1..n : ts[i] = StreamsOf(bs[i])
    BY <1>1
<1>4. \A i \in 1..n : IsSeq(HttpOf(bs[i])) /\ IsSeq(StreamsOf(bs[i]))
    BY <1>1, SeqEmpty, NgBlockRead, Zenon
<1>5. FoundHttp(bs) = FlattenSeq(hs) /\ FoundStreams(bs) = FlattenSeq(ts) /\ NginxText(bs) = FlattenSeq(ss)
    BY Zenon DEF FoundHttp, FoundStreams, NginxText
<1> HIDE DEF hs, ts, ss
<1>6. /\ IsSeq(hs) /\ Len(hs) = n /\ IsSeq(ts) /\ Len(ts) = n
      /\ \A i \in 1..n : IsSeq(hs[i]) /\ IsSeq(ts[i])
    BY <1>3, <1>4, FcnSeq
<1>7. PICK f : /\ f[0] = <<>> /\ f[n] = FlattenSeq(hs)
               /\ \A i \in 0..(n - 1) : f[i + 1] = f[i] \o hs[i + 1]
               /\ \A i \in 0..n : IsSeq(f[i])
    BY <1>6, Flatten, Zenon
<1>8. PICK e : /\ e[0] = <<>> /\ e[n] = FlattenSeq(ts)
               /\ \A i \in 0..(n - 1) : e[i + 1] = e[i] \o ts[i + 1]
               /\ \A i \in 0..n : IsSeq(e[i])
    BY <1>6, Flatten, Zenon
<1> DEFINE g == [i \in 0..n |-> Between(FALSE, f[i], e[i], U(i))]
<1>9. ASSUME NEW i \in 0..(n - 1) PROVE Runs(NgLoop, g[i], ss[i + 1], g[i + 1])
    <2>1. i \in Nat /\ i + 1 \in 1..n /\ i \in 0..n /\ i + 1 \in 0..n
        OBVIOUS
    <2> DEFINE b == bs[i + 1]
    <2>2. U(i + 1) = U(i) \cup UpsOf(b)
        <3>1. 1..(i + 1) = (1..i) \cup {i + 1}
            BY ONLY <2>1
        <3> QED
            BY ONLY <3>1
    <2>3. g[i] = Between(FALSE, f[i], e[i], U(i)) /\ g[i + 1] = Between(FALSE, f[i + 1], e[i + 1], U(i + 1))
        BY <2>1, Zenon
    <2> HIDE DEF U, g
    <2>4. b \in Blocks /\ (b.kind = "http" => ~Nested(b.server)) /\ IsSeq(f[i]) /\ IsSeq(e[i])
          /\ ss[i + 1] = BlockLines(b) /\ hs[i + 1] = HttpOf(b) /\ ts[i + 1] = StreamsOf(b)
        BY <1>1, <1>2, <1>3, <1>7, <1>8, <2>1, Zenon
    <2> HIDE DEF b
    <2>5. Runs(NgLoop, Between(FALSE, f[i], e[i], U(i)), BlockLines(b),
               Between(FALSE, f[i] \o HttpOf(b), e[i] \o StreamsOf(b), U(i) \cup UpsOf(b)))
        BY <2>4, NgBlockRead, Zenon
    <2>6. f[i + 1] = f[i] \o HttpOf(b) /\ e[i + 1] = e[i] \o StreamsOf(b)
        BY <1>7, <1>8, <1>9, <2>4, Zenon
    <2> QED
        BY <2>2, <2>3, <2>4, <2>5, <2>6, Zenon
<1>10. 0 \in 0..n /\ n \in 0..n
    OBVIOUS
<1>11. U(0) = {} /\ U(n) = FoundUps(bs)
    <2>1. 1..0 = {}
        OBVIOUS
    <2>2. U(0) = {}
        BY ONLY <2>1
    <2> QED
        BY <1>1, <2>2, Zenon DEF FoundUps
<1> HIDE DEF U
<1>12. g[0] = Between(FALSE, <<>>, <<>>, {})
       /\ g[n] = Between(FALSE, FoundHttp(bs), FoundStreams(bs), FoundUps(bs))
    BY <1>5, <1>7, <1>8, <1>10, <1>11, Zenon
<1> HIDE DEF g
<1>13. Runs(NgLoop, g[0], FlattenSeq(ss), g[n])
    BY <1>2, <1>9, RunsFlatten
<1>14. ParserStart = Between(FALSE, <<>>, <<>>, {})
    BY Zenon DEF ParserStart, Between
<1>15. ParseNginxConfig(NginxText(bs)) = g[n]
    <2>1. IsSeq(FlattenSeq(ss)) /\ Folded(NgLoop, ParserStart, FlattenSeq(ss)) = g[n]
        BY <1>12, <1>13, <1>14, Zenon DEF Runs
    <2>2. ReadLines(ParserStart, FlattenSeq(ss)) = Folded(NgLoop, ParserStart, FlattenSeq(ss))
        BY <2>1, ReadLinesFold, Zenon DEF NgLoop
    <2> QED
        BY <1>5, <2>1, <2>2, Zenon DEF ParseNginxConfig
<1> QED
    BY <1>5, <1>7, <1>8, <1>10, <1>12, <1>15, Zenon

\* A flattened sequence of at most single elements is no longer than it.
LEMMA FlattenShorter ==
    ASSUME NEW n \in Nat, NEW ss, ss = [i \in 1..n |-> ss[i]],
           \A i \in 1..n : IsSeq(ss[i]) /\ Len(ss[i]) <= 1
    PROVE  IsSeq(FlattenSeq(ss)) /\ Len(FlattenSeq(ss)) <= n
<1>1. IsSeq(ss) /\ Len(ss) = n /\ \A i \in 1..n : IsSeq(ss[i])
    BY FcnSeq
<1>2. PICK f : /\ f[0] = <<>> /\ f[n] = FlattenSeq(ss)
               /\ \A i \in 0..(n - 1) : f[i + 1] = f[i] \o ss[i + 1]
               /\ \A i \in 0..n : IsSeq(f[i])
    BY <1>1, Flatten, Zenon
<1> DEFINE S == {i \in Nat : i <= n => Len(f[i]) <= i}
<1>3. 0 \in S
    BY <1>2, SeqEmpty
<1>4. ASSUME NEW i \in Nat, i \in S PROVE i + 1 \in S
    <2>1. SUFFICES ASSUME i + 1 <= n PROVE Len(f[i + 1]) <= i + 1
        OBVIOUS
    <2>2. i \in 0..(n - 1) /\ i + 1 \in 1..n /\ i \in 0..n /\ Len(f[i]) <= i
        BY <1>4, <2>1
    <2> DEFINE a == f[i]
               b == ss[i + 1]
    <2>3. IsSeq(a) /\ IsSeq(b) /\ Len(b) <= 1 /\ f[i + 1] = a \o b
        BY <1>2, <2>2, Zenon
    <2> HIDE DEF a, b
    <2>4. Joined(a \o b, a, b)
        BY <2>3, ConcatIs
    <2>5. Len(a \o b) = Len(a) + Len(b) /\ Len(a) \in Nat /\ Len(b) \in Nat
        BY <2>4 DEF Joined
    <2>6. Len(a) <= i
        BY <2>2 DEF a
    <2>7. Len(a \o b) <= i + 1
        BY ONLY <2>3, <2>5, <2>6, i \in Nat
    <2> QED
        BY <2>3, <2>7, Zenon
<1>5. \A i \in Nat : i \in S
    <2> HIDE DEF S
    <2> QED
        BY <1>3, <1>4, Induction
<1>6. n \in 0..n
    OBVIOUS
<1>7. Len(f[n]) <= n
    <2>1. n \in S
        BY <1>5, Zenon
    <2> QED
        BY <2>1
<1> QED
    BY <1>2, <1>6, <1>7, Zenon

LEMMA NgOff == \A s, u : ConvertHttp(s, u).on = FALSE /\ ConvertStream(s, u).on = FALSE
BY DEF ConvertHttp, ConvertStream

\* What comes of the conversion of what the parser found.
Converted(r) ==
    \A i \in DOMAIN r.out :
        /\ ~r.out[i].on
        /\ r.out[i].targets = {} /\ ~r.out[i].redirect => r.issues > 0

LEMMA NgConverts ==
    ASSUME NEW c, IsSeq(c.http), IsSeq(c.streams)
    PROVE  Converted(NginxSitesToMappings(c))
<1> DEFINE n == Len(c.http)
           kept == [i \in DOMAIN c.http |->
                       IF EmptyCatchAll(c.http[i]) THEN <<>> ELSE <<c.http[i]>>]
           http == FlattenSeq(kept)
           a == [i \in DOMAIN http |-> ConvertHttp(http[i], c.ups)]
           b == [i \in DOMAIN c.streams |-> ConvertStream(c.streams[i], c.ups)]
           ms == a \o b
           bad == {i \in DOMAIN ms : ms[i].targets = {} /\ ~ms[i].redirect}
           r == NginxSitesToMappings(c)
<1>1. r = [out |-> ms, issues |-> n - Len(http) + Cardinality(bad)]
    BY Zenon DEF NginxSitesToMappings
<1>2. n \in Nat /\ DOMAIN c.http = 1..n /\ Len(c.streams) \in Nat /\ DOMAIN c.streams = 1..Len(c.streams)
    BY SeqDomain
<1>3. IsSeq(http) /\ Len(http) <= n
    <2>1. kept = [i \in 1..n |-> kept[i]]
        BY <1>2
    <2>2. ASSUME NEW i \in 1..n PROVE IsSeq(kept[i]) /\ Len(kept[i]) <= 1
        <3>1. kept[i] = IF EmptyCatchAll(c.http[i]) THEN <<>> ELSE <<c.http[i]>>
            BY <1>2, Zenon
        <3> HIDE DEF kept
        <3>2. kept[i] = <<>> \/ kept[i] = <<c.http[i]>>
            BY <3>1, Zenon
        <3>3. IsSeq(<<>>) /\ Len(<<>>) <= 1
            BY SeqEmpty
        <3>4. \A x : IsSeq(<<x>>) /\ Len(<<x>>) <= 1
            <4>1. \A x : IsSeq(<<x>>) /\ Len(<<x>>) = 1
                BY SeqOne, Zenon
            <4>2. \A k : k = 1 => k <= 1
                OBVIOUS
            <4> QED
                BY <4>1, <4>2, Zenon
        <3> QED
            BY <3>2, <3>3, <3>4, Zenon
    <2> HIDE DEF kept, n
    <2> QED
        BY <1>2, <2>1, <2>2, FlattenShorter
<1> HIDE DEF kept, http
<1>4. Len(http) \in Nat /\ DOMAIN http = 1..Len(http)
    BY <1>3, SeqDomain
<1>5. /\ a = [i \in 1..Len(http) |-> a[i]] /\ \A i \in 1..Len(http) : a[i].on = FALSE
      /\ b = [i \in 1..Len(c.streams) |-> b[i]] /\ \A i \in 1..Len(c.streams) : b[i].on = FALSE
    BY <1>2, <1>4, NgOff, Zenon
<1> HIDE DEF a, b
<1>6. IsSeq(a) /\ Len(a) = Len(http) /\ IsSeq(b) /\ Len(b) = Len(c.streams)
    BY <1>2, <1>4, <1>5, FcnSeq
<1>7. Joined(ms, a, b)
    BY <1>6, ConcatIs
<1> HIDE DEF ms
<1>8. IsSeq(ms) /\ DOMAIN ms = 1..Len(ms) /\ Len(ms) \in Nat
    BY <1>7, SeqDomain DEF Joined
<1>9. \A i \in DOMAIN ms : ms[i].on = FALSE
    <2> SUFFICES ASSUME NEW i \in 1..Len(ms) PROVE ms[i].on = FALSE
        BY <1>8, Zenon
    <2>1. \/ i \in 1..Len(a) /\ ms[i] = a[i]
          \/ i - Len(a) \in 1..Len(b) /\ ms[i] = b[i - Len(a)]
        BY <1>7, Zenon DEF Joined
    <2>2. \A j : j \in 1..Len(a) => a[j].on = FALSE
        BY <1>5, <1>6, Zenon
    <2>3. \A j : j \in 1..Len(b) => b[j].on = FALSE
        BY <1>5, <1>6, Zenon
    <2> QED
        BY <2>1, <2>2, <2>3, Zenon
<1>10. IsFiniteSet(bad) /\ Cardinality(bad) \in Nat
    <2>1. IsFiniteSet(1..Len(ms))
        BY <1>8, FS_Interval
    <2>2. bad \subseteq 1..Len(ms)
        BY <1>8
    <2>3. IsFiniteSet(bad)
        BY <2>1, <2>2, FS_Subset
    <2> QED
        BY <2>3, FS_CardinalityType
<1>11. \A i \in DOMAIN ms : ms[i].targets = {} /\ ~ms[i].redirect => Cardinality(bad) > 0
    <2> SUFFICES ASSUME NEW i \in DOMAIN ms, ms[i].targets = {} /\ ~ms[i].redirect
                 PROVE  Cardinality(bad) > 0
        BY Zenon
    <2>1. i \in bad
        OBVIOUS
    <2> HIDE DEF bad
    <2>2. Cardinality(bad) # 0
        BY <1>10, <2>1, FS_EmptySet
    <2> QED
        BY <1>10, <2>2
<1>12. r.out = ms /\ r.issues = n - Len(http) + Cardinality(bad)
    <2> DEFINE x == n - Len(http) + Cardinality(bad)
    <2> HIDE DEF x, r
    <2>1. r = [out |-> ms, issues |-> x]
        BY <1>1, Zenon DEF x
    <2>2. r.out = ms /\ r.issues = x
        BY <2>1
    <2> QED
        BY <2>2, Zenon DEF x
<1> HIDE DEF r, bad, n
<1>13. \A q \in Nat : q > 0 => n - Len(http) + q > 0
    BY ONLY <1>2, <1>3, <1>4
<1> QED
    <2> SUFFICES ASSUME NEW i \in DOMAIN r.out
                 PROVE  /\ ~r.out[i].on
                        /\ r.out[i].targets = {} /\ ~r.out[i].redirect => r.issues > 0
        BY Zenon DEF Converted, r
    <2>1. r.out[i].on = FALSE
        BY <1>9, <1>12
    <2>2. r.out[i].targets = {} /\ ~r.out[i].redirect => r.issues > 0
        BY <1>10, <1>11, <1>12, <1>13
    <2> QED
        BY <2>1, <2>2

\* The sites are what the parser found in the file, the candidates what became of them.
NgRead ==
    /\ \E n \in Nat : blocks \in [1..n -> Blocks]
    /\ ngText = <<>> \/ ngText = NginxText(blocks)
    /\ sites = NotParsed \/ sites = ParseNginxConfig(NginxText(blocks))
    /\ candidates # NoCandidates => sites # NotParsed /\ candidates = NginxSitesToMappings(sites)

LEMMA NgReadInit == NginxInit => NgRead
<1> SUFFICES ASSUME NginxInit PROVE NgRead
    OBVIOUS
<1>1. PICK n \in 1..MaxBlocks : blocks \in [1..n -> Blocks]
    BY DEF NginxInit, Blocks
<1>2. n \in Nat
    <2>1. MaxBlocks \in Nat
        BY NgAssumption, Zenon
    <2> QED
        BY <2>1
<1>3. ngText = <<>> /\ sites = NotParsed /\ candidates = NoCandidates
    BY Zenon DEF NginxInit
<1> QED
    BY <1>1, <1>2, <1>3, Zenon DEF NgRead

LEMMA NgReadNext == NgRead /\ [NginxNext]_ngVars => NgRead'
<1> SUFFICES ASSUME NgRead, [NginxNext]_ngVars PROVE NgRead'
    OBVIOUS
<1> DEFINE W == \E n \in Nat : blocks \in [1..n -> Blocks]
<1>1. /\ W /\ (ngText = <<>> \/ ngText = NginxText(blocks))
      /\ sites = NotParsed \/ sites = ParseNginxConfig(NginxText(blocks))
      /\ candidates # NoCandidates => sites # NotParsed /\ candidates = NginxSitesToMappings(sites)
    BY Zenon DEF NgRead
<1> HIDE DEF W
<1>2. CASE ReadNginx
    <2>1. blocks' = blocks /\ sites' = sites /\ candidates' = candidates /\ ngText' = NginxText(blocks)
        BY <1>2, Zenon DEF ReadNginx
    <2> QED
        BY <1>1, <2>1, Zenon DEF NgRead, W
<1>3. CASE ParseNginx
    <2>1. blocks' = blocks /\ ngText' = ngText /\ candidates' = candidates
          /\ ngText # <<>> /\ sites = NotParsed /\ sites' = ParseNginxConfig(ngText)
        BY <1>3, Zenon DEF ParseNginx
    <2> QED
        BY <1>1, <2>1, Zenon DEF NgRead, W
<1>4. CASE ConvertNginx
    <2>1. blocks' = blocks /\ ngText' = ngText /\ sites' = sites
          /\ sites # NotParsed /\ candidates' = NginxSitesToMappings(sites)
        BY <1>4, Zenon DEF ConvertNginx
    <2> QED
        BY <1>1, <2>1, Zenon DEF NgRead, W
<1>5. CASE UNCHANGED ngVars
    <2>1. blocks' = blocks /\ ngText' = ngText /\ sites' = sites /\ candidates' = candidates
        BY <1>5, Zenon DEF ngVars
    <2> QED
        BY <1>1, <2>1, Zenon DEF NgRead, W
<1> QED
    BY <1>2, <1>3, <1>4, <1>5, Zenon DEF NginxNext

LEMMA NgReadExact == NgRead => SitesExact
<1> SUFFICES ASSUME NgRead, Plain, candidates # NoCandidates PROVE SitesExact
    BY Zenon DEF SitesExact
<1>1. PICK n \in Nat : blocks \in [1..n -> Blocks]
    BY Zenon DEF NgRead
<1>2. sites = ParseNginxConfig(NginxText(blocks)) /\ candidates = NginxSitesToMappings(sites)
    BY Zenon DEF NgRead
<1>3. \A i \in DOMAIN blocks : blocks[i].kind = "http" => ~Nested(blocks[i].server)
    BY Zenon DEF Plain
<1>4. /\ sites = Between(FALSE, FoundHttp(blocks), FoundStreams(blocks), FoundUps(blocks))
      /\ IsSeq(FoundHttp(blocks)) /\ IsSeq(FoundStreams(blocks))
    BY <1>1, <1>2, <1>3, NgFileRead, Zenon
<1> DEFINE h == FoundHttp(blocks)
           t == FoundStreams(blocks)
           u == FoundUps(blocks)
<1> HIDE DEF h, t, u
<1>5. sites.http = h /\ sites.streams = t /\ sites.ups = u
    <2>1. sites = Between(FALSE, h, t, u)
        BY <1>4, Zenon DEF h, t, u
    <2> QED
        BY <2>1 DEF Between
<1>6. Converted(candidates)
    <2>1. IsSeq(sites.http) /\ IsSeq(sites.streams)
        BY <1>4, <1>5, Zenon DEF h, t
    <2> QED
        BY <1>2, <2>1, NgConverts, Zenon
<1>7. /\ h = FlattenSeq([i \in DOMAIN blocks |->
               IF blocks[i].kind = "http" THEN SiteOf(blocks[i].server) ELSE <<>>])
      /\ t = FlattenSeq([i \in DOMAIN blocks |->
               IF blocks[i].kind = "stream"
               THEN FlattenSeq([j \in DOMAIN blocks[i].servers |-> SiteOf(blocks[i].servers[j])])
               ELSE <<>>])
      /\ u = UNION {IF blocks[i].kind = "upstream"
                    THEN {<<blocks[i].name, blocks[i].hosts[j]>> : j \in DOMAIN blocks[i].hosts}
                    ELSE {} : i \in DOMAIN blocks}
    BY Zenon DEF h, t, u, FoundHttp, FoundStreams, FoundUps, HttpOf, StreamsOf, Streams, UpsOf
<1> QED
    BY <1>5, <1>6, <1>7, Zenon DEF SitesExact, Converted

\* NginxImport.SitesExact, of any file of any length.
THEOREM SitesHold == NginxSpec => []SitesExact
BY NgReadInit, NgReadNext, NgReadExact, PTL DEF NginxSpec

---------------------------------------------------------------------------
(* haproxy: what the line parser makes of the lines of a file.             *)

HaLoop == [loop |-> "haproxy", cfg |-> ""]

LEMMA HaRound == \A c, l : Loop(HaLoop, c, l) = ParseHAProxyLine(c, l)
BY DEF Loop, HaLoop

HaStep(c, l, d) == ParseHAProxyLine(c, l) = d

LEMMA HaRunsOne ==
    ASSUME NEW c, NEW l, NEW d, HaStep(c, l, d)
    PROVE  Runs(HaLoop, c, <<l>>, d)
BY HaRound, RunsOne DEF HaStep

\* The sections found so far, and what they hold.
Read(cur, F, B, L) == [cur |-> cur, fes |-> F, bes |-> B, lis |-> L]
Fe(n, bs, md, d, rs) == [name |-> n, binds |-> bs, mode |-> md, default |-> d, rules |-> rs]
Be(n, md, bl, ss) == [name |-> n, mode |-> md, balance |-> bl, servers |-> ss]
Li(n, bs, ss) == [name |-> n, binds |-> bs, servers |-> ss]

\* A line that opens no section.
Directive(l) == l.kw \notin {"global", "defaults", "frontend", "backend", "listen"}

LEMMA HaOpens ==
    ASSUME NEW cur, NEW F, NEW B, NEW L, NEW n
    PROVE  /\ HaStep(Read(cur, F, B, L), Line("frontend", n),
                     Read("frontend", Append(F, Fe(n, <<>>, "http", NoName, <<>>)), B, L))
           /\ HaStep(Read(cur, F, B, L), Line("backend", n),
                     Read("backend", F, Append(B, Be(n, "http", "roundrobin", <<>>)), L))
           /\ HaStep(Read(cur, F, B, L), Line("listen", n),
                     Read("listen", F, B, Append(L, Li(n, <<>>, <<>>))))
           /\ HaStep(Read(cur, F, B, L), Line("global", n), Read("global", F, B, L))
           /\ HaStep(Read(cur, F, B, L), Line("defaults", n), Read("defaults", F, B, L))
<1>1. ParseHAProxyLine(Read(cur, F, B, L), Line("frontend", n))
        = Read("frontend", Append(F, Fe(n, <<>>, "http", NoName, <<>>)), B, L)
    BY DEF ParseHAProxyLine, OpenSection, Read, Line, Fe
<1>2. ParseHAProxyLine(Read(cur, F, B, L), Line("backend", n))
        = Read("backend", F, Append(B, Be(n, "http", "roundrobin", <<>>)), L)
    BY DEF ParseHAProxyLine, OpenSection, Read, Line, Be
<1>3. ParseHAProxyLine(Read(cur, F, B, L), Line("listen", n))
        = Read("listen", F, B, Append(L, Li(n, <<>>, <<>>)))
    BY DEF ParseHAProxyLine, OpenSection, Read, Line, Li
<1>4. ParseHAProxyLine(Read(cur, F, B, L), Line("global", n)) = Read("global", F, B, L)
    BY DEF ParseHAProxyLine, OpenSection, Read, Line
<1>5. ParseHAProxyLine(Read(cur, F, B, L), Line("defaults", n)) = Read("defaults", F, B, L)
    BY DEF ParseHAProxyLine, OpenSection, Read, Line
<1> QED
    BY <1>1, <1>2, <1>3, <1>4, <1>5, Zenon DEF HaStep

\* The last section is updated.
LEMMA UpdatesLast ==
    ASSUME NEW s, IsSeq(s), NEW e, NEW x
    PROVE  Last(Append(s, e)) = e /\ UpdateLast(Append(s, e), x) = Append(s, x)
<1>1. Last(Append(s, e)) = e
    <2>1. Len(Append(s, e)) = Len(s) + 1 /\ Append(s, e)[Len(s) + 1] = e
        BY SeqAppend
    <2> QED
        BY <2>1, Zenon DEF Last
<1>2. [Append(s, e) EXCEPT ![Len(Append(s, e))] = x] = Append(s, x)
    BY AppendUpdate
<1> QED
    BY <1>1, <1>2, Zenon DEF UpdateLast

LEMMA HaUpdates ==
    ASSUME NEW F, NEW B, NEW L, IsSeq(F), IsSeq(B), IsSeq(L), NEW e, NEW l, Directive(l)
    PROVE  /\ HaStep(Read("frontend", Append(F, e), B, L), l,
                     Read("frontend", Append(F, InFrontend(e, l)), B, L))
           /\ HaStep(Read("backend", F, Append(B, e), L), l,
                     Read("backend", F, Append(B, InBackend(e, l)), L))
           /\ HaStep(Read("listen", F, B, Append(L, e)), l,
                     Read("listen", F, B, Append(L, InListen(e, l))))
           /\ HaStep(Read("global", F, B, L), l, Read("global", F, B, L))
           /\ HaStep(Read("defaults", F, B, L), l, Read("defaults", F, B, L))
<1>1. ~(l.kw \in {"global", "defaults", "frontend", "backend", "listen"})
    BY Zenon DEF Directive
<1> DEFINE f == InFrontend(e, l)
           b == InBackend(e, l)
           i == InListen(e, l)
           c == Read("frontend", Append(F, e), B, L)
           d == Read("backend", F, Append(B, e), L)
           g == Read("listen", F, B, Append(L, e))
<1>2. ParseHAProxyLine(c, l) = Read("frontend", Append(F, f), B, L)
    <2> DEFINE G == Append(F, e)
    <2>1. Last(G) = e /\ UpdateLast(G, f) = Append(F, f)
        BY UpdatesLast, Zenon
    <2> HIDE DEF G, f
    <2>2. ParseHAProxyLine(Read("frontend", G, B, L), l)
            = [Read("frontend", G, B, L) EXCEPT !.fes = UpdateLast(@, InFrontend(Last(@), l))]
        BY <1>1 DEF ParseHAProxyLine, Read
    <2>3. [Read("frontend", G, B, L) EXCEPT !.fes = UpdateLast(@, InFrontend(Last(@), l))]
            = Read("frontend", UpdateLast(G, InFrontend(Last(G), l)), B, L)
        BY DEF Read
    <2> QED
        BY <2>1, <2>2, <2>3, Zenon DEF G, f
<1>3. ParseHAProxyLine(d, l) = Read("backend", F, Append(B, b), L)
    <2> DEFINE G == Append(B, e)
    <2>1. Last(G) = e /\ UpdateLast(G, b) = Append(B, b)
        BY UpdatesLast, Zenon
    <2> HIDE DEF G, b
    <2>2. ParseHAProxyLine(Read("backend", F, G, L), l)
            = [Read("backend", F, G, L) EXCEPT !.bes = UpdateLast(@, InBackend(Last(@), l))]
        BY <1>1 DEF ParseHAProxyLine, Read
    <2>3. [Read("backend", F, G, L) EXCEPT !.bes = UpdateLast(@, InBackend(Last(@), l))]
            = Read("backend", F, UpdateLast(G, InBackend(Last(G), l)), L)
        BY DEF Read
    <2> QED
        BY <2>1, <2>2, <2>3, Zenon DEF G, b
<1>4. ParseHAProxyLine(g, l) = Read("listen", F, B, Append(L, i))
    <2> DEFINE G == Append(L, e)
    <2>1. Last(G) = e /\ UpdateLast(G, i) = Append(L, i)
        BY UpdatesLast, Zenon
    <2> HIDE DEF G, i
    <2>2. ParseHAProxyLine(Read("listen", F, B, G), l)
            = [Read("listen", F, B, G) EXCEPT !.lis = UpdateLast(@, InListen(Last(@), l))]
        BY <1>1 DEF ParseHAProxyLine, Read
    <2>3. [Read("listen", F, B, G) EXCEPT !.lis = UpdateLast(@, InListen(Last(@), l))]
            = Read("listen", F, B, UpdateLast(G, InListen(Last(G), l)))
        BY DEF Read
    <2> QED
        BY <2>1, <2>2, <2>3, Zenon DEF G, i
<1>5. /\ ParseHAProxyLine(Read("global", F, B, L), l) = Read("global", F, B, L)
      /\ ParseHAProxyLine(Read("defaults", F, B, L), l) = Read("defaults", F, B, L)
    BY <1>1 DEF ParseHAProxyLine, Read
<1> QED
    BY <1>2, <1>3, <1>4, <1>5, Zenon DEF HaStep

\* What the lines of a frontend and of a backend change.
LEMMA HaFrontendLines ==
    ASSUME NEW n, NEW bs, NEW md, NEW d, NEW rs, NEW x, NEW c
    PROVE  /\ InFrontend(Fe(n, bs, md, d, rs), Line("bind", x))
                = Fe(n, Append(bs, ParseBindLine(x)), md, d, rs)
           /\ InFrontend(Fe(n, bs, md, d, rs), Line("mode", x)) = Fe(n, bs, x, d, rs)
           /\ InFrontend(Fe(n, bs, md, d, rs), Line("default_backend", x))
                = Fe(n, bs, md, FirstTokenLower(x), rs)
           /\ InFrontend(Fe(n, bs, md, d, rs), Line("use_backend", x))
                = Fe(n, bs, md, d, Append(rs, x.be))
           /\ InFrontend(Fe(n, bs, md, d, rs), Line("http-request", x)) = Fe(n, bs, md, d, rs)
<1> DEFINE p == ParseBindLine(x)
           q == FirstTokenLower(x)
<1> HIDE DEF p, q
<1>1. InFrontend(Fe(n, bs, md, d, rs), Line("bind", x)) = Fe(n, Append(bs, p), md, d, rs)
    BY DEF InFrontend, Fe, Line, p
<1>2. InFrontend(Fe(n, bs, md, d, rs), Line("mode", x)) = Fe(n, bs, x, d, rs)
    BY DEF InFrontend, Fe, Line
<1>3. InFrontend(Fe(n, bs, md, d, rs), Line("default_backend", x)) = Fe(n, bs, md, q, rs)
    BY DEF InFrontend, Fe, Line, q
<1>4. InFrontend(Fe(n, bs, md, d, rs), Line("use_backend", x)) = Fe(n, bs, md, d, Append(rs, x.be))
    BY DEF InFrontend, Fe, Line
<1>5. InFrontend(Fe(n, bs, md, d, rs), Line("http-request", x)) = Fe(n, bs, md, d, rs)
    BY DEF InFrontend, Fe, Line
<1> QED
    BY <1>1, <1>2, <1>3, <1>4, <1>5, Zenon DEF p, q

LEMMA HaBackendLines ==
    ASSUME NEW n, NEW md, NEW bl, NEW ss, NEW x
    PROVE  /\ InBackend(Be(n, md, bl, ss), Line("mode", x)) = Be(n, x, bl, ss)
           /\ InBackend(Be(n, md, bl, ss), Line("balance", x)) = Be(n, md, x, ss)
           /\ InBackend(Be(n, md, bl, ss), Line("server", x))
                = Be(n, md, bl, Append(ss, ParseServerLine(x)))
<1> DEFINE p == ParseServerLine(x)
<1> HIDE DEF p
<1>1. InBackend(Be(n, md, bl, ss), Line("mode", x)) = Be(n, x, bl, ss)
    BY DEF InBackend, Be, Line
<1>2. InBackend(Be(n, md, bl, ss), Line("balance", x)) = Be(n, md, x, ss)
    BY DEF InBackend, Be, Line
<1>3. InBackend(Be(n, md, bl, ss), Line("server", x)) = Be(n, md, bl, Append(ss, p))
    BY DEF InBackend, Be, Line, p
<1> QED
    BY <1>1, <1>2, <1>3, Zenon DEF p

LEMMA HaListenLines ==
    ASSUME NEW n, NEW bs, NEW ss, NEW x
    PROVE  /\ InListen(Li(n, bs, ss), Line("bind", x)) = Li(n, Append(bs, ParseBindLine(x)), ss)
           /\ InListen(Li(n, bs, ss), Line("server", x)) = Li(n, bs, Append(ss, ParseServerLine(x)))
           /\ InListen(Li(n, bs, ss), Line("balance", x)) = Li(n, bs, ss)
<1> DEFINE p == ParseServerLine(x)
           q == ParseBindLine(x)
<1> HIDE DEF p, q
<1>1. InListen(Li(n, bs, ss), Line("bind", x)) = Li(n, Append(bs, q), ss)
    BY DEF InListen, Li, Line, q
<1>2. InListen(Li(n, bs, ss), Line("server", x)) = Li(n, bs, Append(ss, p))
    BY DEF InListen, Li, Line, p
<1>3. InListen(Li(n, bs, ss), Line("balance", x)) = Li(n, bs, ss)
    BY DEF InListen, Li, Line
<1> QED
    BY <1>1, <1>2, <1>3, Zenon DEF p, q

LEMMA HaDirectives ==
    \A x : /\ Directive(Line("bind", x)) /\ Directive(Line("mode", x)) /\ Directive(Line("server", x))
           /\ Directive(Line("balance", x)) /\ Directive(Line("default_backend", x))
           /\ Directive(Line("use_backend", x)) /\ Directive(Line("http-request", x))
           /\ Directive(Line("maxconn", x))
BY DEF Directive, Line

\* A loop over a flattened sequence passes the ends of its parts.
Passes(g, k, b, n, ss) ==
    /\ g[0] = b /\ Runs(k, b, FlattenSeq(ss), g[n])
    /\ \A i \in 0..(n - 1) : Runs(k, g[i], ss[i + 1], g[i + 1])

LEMMA FlattenTrace ==
    ASSUME NEW k, NEW b, NEW n \in Nat, NEW ss, ss = [i \in 1..n |-> ss[i]],
           \A i \in 1..n : IsSeq(ss[i])
    PROVE  \E g : Passes(g, k, b, n, ss)
<1>1. IsSeq(ss) /\ Len(ss) = n
    BY FcnSeq
<1>2. PICK f : /\ f[0] = <<>> /\ f[n] = FlattenSeq(ss)
               /\ \A i \in 0..(n - 1) : f[i + 1] = f[i] \o ss[i + 1]
               /\ \A i \in 0..n : IsSeq(f[i])
    BY <1>1, Flatten, Zenon
<1> DEFINE g == [i \in 0..n |-> Folded(k, b, f[i])]
<1>3. \A i \in 0..n : g[i] = Folded(k, b, f[i])
    OBVIOUS
<1> HIDE DEF g
<1>4. 0 \in 0..n /\ n \in 0..n
    OBVIOUS
<1>5. g[0] = b
    BY <1>2, <1>3, <1>4, FoldedEmpty
<1>6. Runs(k, b, FlattenSeq(ss), g[n])
    BY <1>2, <1>3, <1>4, Zenon DEF Runs
<1>7. ASSUME NEW i \in 0..(n - 1) PROVE Runs(k, g[i], ss[i + 1], g[i + 1])
    <2>1. i \in 0..n /\ i + 1 \in 0..n /\ i + 1 \in 1..n
        OBVIOUS
    <2>2. IsSeq(f[i]) /\ IsSeq(ss[i + 1]) /\ f[i + 1] = f[i] \o ss[i + 1]
        BY <1>2, <2>1
    <2>3. Folded(k, b, f[i] \o ss[i + 1]) = Folded(k, Folded(k, b, f[i]), ss[i + 1])
        BY ONLY <2>2, FoldedConcat
    <2> QED
        BY <1>3, <2>1, <2>2, <2>3, Zenon DEF Runs
<1> QED
    BY <1>5, <1>6, <1>7, Zenon DEF Passes

\* Steps of the line parser, one after another.
LEMMA HaRunsStep ==
    ASSUME NEW b, NEW s, NEW c, NEW l, NEW d, Runs(HaLoop, b, s, c), HaStep(c, l, d)
    PROVE  Runs(HaLoop, b, s \o <<l>>, d)
BY HaRunsOne, RunsConcat, Zenon

\* A backend: its name, its mode, its balance and its servers.
BeOf(be, m, ts) ==
    Be(be, IF m.proto = "tcp" THEN "tcp" ELSE "http",
       IF m.balance = "" THEN "roundrobin" ELSE m.balance,
       [i \in 1..Len(ts) |-> ParseServerLine(BackendLine(ts[i]).arg)])

LEMMA HaServersRead ==
    ASSUME NEW F, NEW B, NEW L, IsSeq(F), IsSeq(B), IsSeq(L), NEW n, NEW md, NEW bl,
           NEW ts, IsSeq(ts)
    PROVE  Runs(HaLoop, Read("backend", F, Append(B, Be(n, md, bl, <<>>)), L),
                [i \in DOMAIN ts |-> BackendLine(ts[i])],
                Read("backend", F,
                     Append(B, Be(n, md, bl, [i \in 1..Len(ts) |-> ParseServerLine(BackendLine(ts[i]).arg)])),
                     L))
<1> DEFINE e == [i \in 1..Len(ts) |-> ParseServerLine(BackendLine(ts[i]).arg)]
           s == [i \in 1..Len(ts) |-> BackendLine(ts[i])]
           p(i) == [j \in 1..i |-> e[j]]
           g == [i \in 0..Len(ts) |-> Read("backend", F, Append(B, Be(n, md, bl, p(i))), L)]
<1>1. Len(ts) \in Nat /\ DOMAIN ts = 1..Len(ts)
    BY SeqDomain
<1>2. ASSUME NEW i \in 0..(Len(ts) - 1) PROVE g[i + 1] = Loop(HaLoop, g[i], s[i + 1])
    <2>1. i \in Nat /\ i + 1 \in 1..Len(ts) /\ i \in 0..Len(ts) /\ i + 1 \in 0..Len(ts)
        BY <1>1
    <2> DEFINE x == BackendLine(ts[i + 1]).arg
    <2>2. s[i + 1] = Line("server", x)
        BY <2>1 DEF BackendLine, Line
    <2>3. e[i + 1] = ParseServerLine(x)
        BY <2>1, Zenon
    <2>4. /\ g[i] = Read("backend", F, Append(B, Be(n, md, bl, p(i))), L)
          /\ g[i + 1] = Read("backend", F, Append(B, Be(n, md, bl, p(i + 1))), L)
        BY <2>1, Zenon
    <2> HIDE DEF x, g, s, e
    <2>5. Append(p(i), e[i + 1]) = p(i + 1)
        BY <2>1, FcnAppend
    <2> HIDE DEF p
    <2>6. InBackend(Be(n, md, bl, p(i)), Line("server", x)) = Be(n, md, bl, p(i + 1))
        <3> DEFINE q == p(i)
        <3>1. InBackend(Be(n, md, bl, q), Line("server", x)) = Be(n, md, bl, Append(q, ParseServerLine(x)))
            <4> HIDE DEF q
            <4> QED
                BY HaBackendLines
        <3> QED
            BY <2>3, <2>5, <3>1, Zenon
    <2> DEFINE a == Be(n, md, bl, p(i))
               l == Line("server", x)
    <2>7. Directive(l)
        BY HaDirectives, Zenon
    <2>8. HaStep(Read("backend", F, Append(B, a), L), l, Read("backend", F, Append(B, InBackend(a, l)), L))
        <3> HIDE DEF a, l
        <3> QED
            BY <2>7, HaUpdates, Zenon
    <2> QED
        BY <2>2, <2>4, <2>6, <2>8, HaRound, Zenon DEF HaStep
<1>3. s = [i \in 1..Len(ts) |-> s[i]]
    BY Zenon
<1>4. g[0] = Read("backend", F, Append(B, Be(n, md, bl, <<>>)), L)
    <2>1. 0 \in 0..Len(ts)
        BY <1>1
    <2>2. g[0] = Read("backend", F, Append(B, Be(n, md, bl, p(0))), L)
        BY <2>1, Zenon
    <2>3. p(0) = <<>>
        <3> HIDE DEF e
        <3> QED
            BY FcnEmpty
    <2> QED
        BY <2>2, <2>3, Zenon
<1>5. g[Len(ts)] = Read("backend", F, Append(B, Be(n, md, bl, e)), L)
    <2>1. Len(ts) \in 0..Len(ts)
        BY <1>1
    <2>2. g[Len(ts)] = Read("backend", F, Append(B, Be(n, md, bl, p(Len(ts)))), L)
        BY <2>1, Zenon
    <2>3. p(Len(ts)) = e
        BY Zenon
    <2> QED
        BY <2>2, <2>3, Zenon
<1> HIDE DEF g, s, e
<1>6. Runs(HaLoop, g[0], s, g[Len(ts)])
    BY <1>1, <1>2, <1>3, RunsSteps
<1>7. [i \in DOMAIN ts |-> BackendLine(ts[i])] = s
    BY <1>1, Zenon DEF s
<1> QED
    BY <1>4, <1>5, <1>6, <1>7, Zenon DEF e

LEMMA HaBackendRead ==
    ASSUME NEW cur, NEW F, NEW B, NEW L, IsSeq(F), IsSeq(B), IsSeq(L), NEW be, NEW m,
           NEW ts, IsSeq(ts)
    PROVE  Runs(HaLoop, Read(cur, F, B, L), RenderHABackend(be, m, ts),
                Read("backend", F, Append(B, BeOf(be, m, ts)), L))
<1> DEFINE ss == [i \in 1..Len(ts) |-> ParseServerLine(BackendLine(ts[i]).arg)]
           md == IF m.proto = "tcp" THEN "tcp" ELSE "http"
           bl == IF m.balance = "" THEN "roundrobin" ELSE m.balance
           v == [i \in DOMAIN ts |-> BackendLine(ts[i])]
           mode == IF m.proto = "tcp" THEN <<Line("mode", "tcp")>> ELSE <<>>
           c(mo, ba, se) == Read("backend", F, Append(B, Be(be, mo, ba, se)), L)
<1>1. Runs(HaLoop, Read(cur, F, B, L), <<Line("backend", be)>>, c("http", "roundrobin", <<>>))
    BY HaOpens, HaRunsOne, Zenon
<1>2. ASSUME NEW mo, NEW ba, NEW l, NEW mp, NEW bp, Directive(l),
             InBackend(Be(be, mo, ba, <<>>), l) = Be(be, mp, bp, <<>>)
      PROVE  Runs(HaLoop, c(mo, ba, <<>>), <<l>>, c(mp, bp, <<>>))
    <2> DEFINE a == Be(be, mo, ba, <<>>)
    <2>1. HaStep(Read("backend", F, Append(B, a), L), l, Read("backend", F, Append(B, InBackend(a, l)), L))
        <3> HIDE DEF a
        <3> QED
            BY <1>2, HaUpdates, Zenon
    <2> QED
        BY <1>2, <2>1, HaRunsOne, Zenon
<1>3. Runs(HaLoop, c("http", "roundrobin", <<>>), mode, c(md, "roundrobin", <<>>))
    <2>1. CASE m.proto = "tcp"
        <3>1. Runs(HaLoop, c("http", "roundrobin", <<>>), <<Line("mode", "tcp")>>, c("tcp", "roundrobin", <<>>))
            <4>1. InBackend(Be(be, "http", "roundrobin", <<>>), Line("mode", "tcp"))
                    = Be(be, "tcp", "roundrobin", <<>>)
                BY HaBackendLines
            <4> QED
                BY <1>2, <4>1, HaDirectives, Zenon
        <3> QED
            BY <2>1, <3>1, Zenon
    <2>2. CASE m.proto # "tcp"
        <3>1. Runs(HaLoop, c("http", "roundrobin", <<>>), <<>>, c("http", "roundrobin", <<>>))
            BY RunsEmpty, Zenon
        <3> QED
            BY <2>2, <3>1, Zenon
    <2> QED
        BY <2>1, <2>2, Zenon
<1>4. Runs(HaLoop, c(md, "roundrobin", <<>>), <<Line("balance", bl)>>, c(md, bl, <<>>))
    <2> HIDE DEF md, bl
    <2>1. InBackend(Be(be, md, "roundrobin", <<>>), Line("balance", bl)) = Be(be, md, bl, <<>>)
        BY HaBackendLines
    <2> QED
        BY <1>2, <2>1, HaDirectives, Zenon
<1>5. Runs(HaLoop, c(md, bl, <<>>), v, c(md, bl, ss))
    <2> HIDE DEF md, bl
    <2> QED
        BY HaServersRead, Zenon
<1>6. RenderHABackend(be, m, ts) = ((<<Line("backend", be)>> \o mode) \o <<Line("balance", bl)>>) \o v
    BY Zenon DEF RenderHABackend
<1>7. c(md, bl, ss) = Read("backend", F, Append(B, BeOf(be, m, ts)), L)
    BY Zenon DEF BeOf
<1> HIDE DEF c, mode, v, bl, md, ss
<1> QED
    BY <1>1, <1>3, <1>4, <1>5, <1>6, <1>7, RunsConcat, Zenon

\* The rules of a frontend: http-request rules are not kept,
LEMMA HaRequestsKeep ==
    ASSUME NEW F, NEW B, NEW L, IsSeq(F), IsSeq(B), IsSeq(L), NEW e, NEW s, IsSeq(s),
           \A i \in 1..Len(s) : s[i].kw = "http-request"
    PROVE  Runs(HaLoop, Read("frontend", Append(F, e), B, L), s, Read("frontend", Append(F, e), B, L))
<1> DEFINE c == Read("frontend", Append(F, e), B, L)
<1>1. ASSUME NEW i \in 1..Len(s) PROVE Loop(HaLoop, c, s[i]) = c
    <2> DEFINE l == s[i]
    <2>1. l.kw = "http-request"
        BY <1>1
    <2> HIDE DEF l
    <2>2. Directive(l) /\ InFrontend(e, l) = e
        BY <2>1 DEF Directive, InFrontend
    <2>3. HaStep(c, l, Read("frontend", Append(F, InFrontend(e, l)), B, L))
        BY <2>2, HaUpdates, Zenon
    <2> QED
        BY <2>2, <2>3, HaRound, Zenon DEF HaStep, l
<1> HIDE DEF c
<1>2. Folded(HaLoop, c, s) \in {c}
    <2> DEFINE I == {c}
    <2>1. c \in I /\ \A x \in I : \A i \in 1..Len(s) : Loop(HaLoop, x, s[i]) \in I
        BY <1>1
    <2> HIDE DEF I
    <2>2. Folded(HaLoop, c, s) \in I
        BY <2>1, LoopInvariant
    <2> QED
        BY <2>2 DEF I
<1> QED
    BY <1>2, Zenon DEF Runs, c

\* the others change nothing but the default and the rules.
RulesOnly(n, bs, md, e) == \E d, rs : e = Fe(n, bs, md, d, rs)

LEMMA HaRuleLine ==
    ASSUME NEW n, NEW bs, NEW md, NEW d, NEW rs, NEW l, NoRefusal(l)
    PROVE  RulesOnly(n, bs, md, InFrontend(Fe(n, bs, md, d, rs), l))
<1>0. l.kw \in {"http-request", "use_backend", "default_backend"}
    BY DEF NoRefusal
<1>1. CASE l.kw = "http-request"
    <2>1. InFrontend(Fe(n, bs, md, d, rs), l) = Fe(n, bs, md, d, rs)
        BY <1>1 DEF InFrontend, Fe
    <2> QED
        BY <2>1, Zenon DEF RulesOnly
<1>2. CASE l.kw = "use_backend"
    <2> DEFINE y == Append(rs, l.arg.be)
    <2> HIDE DEF y
    <2>1. InFrontend(Fe(n, bs, md, d, rs), l) = Fe(n, bs, md, d, y)
        BY <1>2 DEF InFrontend, Fe, y
    <2> QED
        BY <2>1, Zenon DEF RulesOnly
<1>3. CASE l.kw = "default_backend"
    <2> DEFINE y == FirstTokenLower(l.arg)
    <2> HIDE DEF y
    <2>1. InFrontend(Fe(n, bs, md, d, rs), l) = Fe(n, bs, md, y, rs)
        BY <1>3 DEF InFrontend, Fe, y
    <2> QED
        BY <2>1, Zenon DEF RulesOnly
<1> QED
    BY <1>0, <1>1, <1>2, <1>3

LEMMA HaRulesKeep ==
    ASSUME NEW F, NEW B, NEW L, IsSeq(F), IsSeq(B), IsSeq(L), NEW n, NEW bs, NEW md, NEW d0, NEW r0,
           NEW s, NoRefusals(s)
    PROVE  \E d, rs : Runs(HaLoop, Read("frontend", Append(F, Fe(n, bs, md, d0, r0)), B, L), s,
                           Read("frontend", Append(F, Fe(n, bs, md, d, rs)), B, L))
<1> DEFINE c(d, rs) == Read("frontend", Append(F, Fe(n, bs, md, d, rs)), B, L)
<1>1. IsSeq(s) /\ Len(s) \in Nat /\ \A i \in 1..Len(s) : NoRefusal(s[i])
    BY SeqDomain DEF NoRefusals
<1>2. PICK t : Trace(t, HaLoop, c(d0, r0), s) /\ t[Len(s)] = Folded(HaLoop, c(d0, r0), s)
    <2> HIDE DEF c
    <2> QED
        BY <1>1, FoldedTrace
<1> DEFINE S == {i \in Nat : i <= Len(s) => \E d, rs : t[i] = c(d, rs)}
<1> DEFINE P(x) == \E f, q : x = c(f, q)
<1>3. ASSUME NEW d, NEW rs, NEW l, NoRefusal(l) PROVE P(Loop(HaLoop, c(d, rs), l))
    <2> DEFINE e == Fe(n, bs, md, d, rs)
    <2>1. Directive(l)
        BY <1>3 DEF NoRefusal, Directive
    <2>2. HaStep(Read("frontend", Append(F, e), B, L), l, Read("frontend", Append(F, InFrontend(e, l)), B, L))
        <3> HIDE DEF e
        <3> QED
            BY <2>1, HaUpdates, Zenon
    <2>3. PICK f, q : InFrontend(e, l) = Fe(n, bs, md, f, q)
        <3>1. RulesOnly(n, bs, md, InFrontend(Fe(n, bs, md, d, rs), l))
            BY <1>3, HaRuleLine, Zenon
        <3> QED
            BY <3>1, Zenon DEF RulesOnly
    <2>4. Loop(HaLoop, c(d, rs), l) = c(f, q)
        BY <2>2, <2>3, HaRound, Zenon DEF HaStep
    <2> QED
        BY <2>4, Zenon
<1> HIDE DEF c, P
<1>4. 0 \in S
    <2>1. t[0] = c(d0, r0)
        BY <1>2 DEF Trace
    <2> QED
        BY <2>1
<1>5. ASSUME NEW i \in Nat, i \in S PROVE i + 1 \in S
    <2>1. SUFFICES ASSUME i + 1 <= Len(s) PROVE \E d, rs : t[i + 1] = c(d, rs)
        OBVIOUS
    <2>2. i < Len(s) /\ i + 1 \in 1..Len(s)
        BY <1>1, <2>1
    <2>3. PICK d, rs : t[i] = c(d, rs)
        BY <1>5, <2>2
    <2>4. t[i + 1] = Loop(HaLoop, t[i], s[i + 1])
        BY <1>2, <2>2 DEF Trace
    <2>5. NoRefusal(s[i + 1])
        BY <1>1, <2>2
    <2>6. PICK f, q : Loop(HaLoop, c(d, rs), s[i + 1]) = c(f, q)
        <3>1. P(Loop(HaLoop, c(d, rs), s[i + 1]))
            BY <1>3, <2>5, Zenon
        <3> QED
            BY <3>1, Zenon DEF P
    <2> QED
        BY <2>3, <2>4, <2>6, Zenon
<1>6. \A i \in Nat : i \in S
    <2> HIDE DEF S
    <2> QED
        BY <1>4, <1>5, Induction
<1>7. PICK d, rs : t[Len(s)] = c(d, rs)
    BY <1>1, <1>6
<1>8. Runs(HaLoop, c(d0, r0), s, c(d, rs))
    BY <1>1, <1>2, <1>7, Zenon DEF Runs
<1> QED
    BY <1>8, Zenon DEF c

\* What is read of a frontend: its listener, its mode, and the default it names
\* unless it redirects.
Front1(m, id, e) ==
    /\ e = Fe(FeName(id), <<ParseBindLine(BindLine(m).arg)>>,
              IF m.proto = "tcp" THEN "tcp" ELSE "http", e.default, e.rules)
    /\ IF m.proto # "tcp" /\ m.redirect THEN e.default = NoName /\ e.rules = <<>>
       ELSE e.default = BeName(id)

LEMMA BeNameLower == \A id : FirstTokenLower(BeName(id)) = BeName(id) /\ BeName(id) # NoName
<1> SUFFICES ASSUME NEW id PROVE FirstTokenLower(BeName(id)) = BeName(id) /\ BeName(id) # NoName
    OBVIOUS
<1>1. Len(<<"Web">>) = 1 /\ Len(BeName(id)) = 2 /\ Len(<<"none">>) = 1
    BY DEF BeName
<1>2. BeName(id) # <<"Web">> /\ BeName(id) # <<"none">>
    BY <1>1
<1> QED
    BY <1>2, Zenon DEF FirstTokenLower, NoName

\* The lines of a frontend up to its backends.
FrontLines(m, id) ==
    <<Line("frontend", FeName(id))>>
    \o (IF m.proto = "tcp" THEN <<Line("mode", "tcp")>> ELSE <<>>)
    \o <<BindLine(m)>>
    \o FrontendRules(m, id)

LEMMA HaFrontRead ==
    ASSUME NEW cur, NEW F, NEW B, NEW L, IsSeq(F), IsSeq(B), IsSeq(L), NEW m \in HaMapping, NEW id
    PROVE  \E e : /\ Front1(m, id, e)
                  /\ Runs(HaLoop, Read(cur, F, B, L), FrontLines(m, id),
                          Read("frontend", Append(F, e), B, L))
<1> DEFINE n == FeName(id)
           md == IF m.proto = "tcp" THEN "tcp" ELSE "http"
           mode == IF m.proto = "tcp" THEN <<Line("mode", "tcp")>> ELSE <<>>
           bs == <<ParseBindLine(BindLine(m).arg)>>
           A == RenderHAAccessRules(m)
           O == OwnRules(m, id)
           def == <<Line("default_backend", BeName(id))>>
           c(b, mo, d, rs) == Read("frontend", Append(F, Fe(n, b, mo, d, rs)), B, L)
<1>1. Runs(HaLoop, Read(cur, F, B, L), <<Line("frontend", n)>>, c(<<>>, "http", NoName, <<>>))
    <2> HIDE DEF n
    <2> QED
        BY HaOpens, HaRunsOne, Zenon
<1>2. ASSUME NEW e, NEW l, NEW g, Directive(l), InFrontend(e, l) = g
      PROVE  Runs(HaLoop, Read("frontend", Append(F, e), B, L), <<l>>, Read("frontend", Append(F, g), B, L))
    <2>1. HaStep(Read("frontend", Append(F, e), B, L), l, Read("frontend", Append(F, InFrontend(e, l)), B, L))
        BY <1>2, HaUpdates, Zenon
    <2> QED
        BY <1>2, <2>1, HaRunsOne, Zenon
<1>3. Runs(HaLoop, c(<<>>, "http", NoName, <<>>), mode, c(<<>>, md, NoName, <<>>))
    <2>1. CASE m.proto = "tcp"
        <3> HIDE DEF n
        <3>1. InFrontend(Fe(n, <<>>, "http", NoName, <<>>), Line("mode", "tcp"))
                = Fe(n, <<>>, "tcp", NoName, <<>>)
            BY HaFrontendLines
        <3>2. Runs(HaLoop, c(<<>>, "http", NoName, <<>>), <<Line("mode", "tcp")>>, c(<<>>, "tcp", NoName, <<>>))
            BY <1>2, <3>1, HaDirectives, Zenon
        <3> QED
            BY <2>1, <3>2, Zenon
    <2>2. CASE m.proto # "tcp"
        <3>1. Runs(HaLoop, c(<<>>, "http", NoName, <<>>), <<>>, c(<<>>, "http", NoName, <<>>))
            BY RunsEmpty, Zenon
        <3> QED
            BY <2>2, <3>1, Zenon
    <2> QED
        BY <2>1, <2>2, Zenon
<1>4. Runs(HaLoop, c(<<>>, md, NoName, <<>>), <<BindLine(m)>>, c(bs, md, NoName, <<>>))
    <2> DEFINE a == BindLine(m).arg
               p == ParseBindLine(a)
    <2>1. BindLine(m) = Line("bind", a)
        BY DEF BindLine, Line
    <2>2. Append(<<>>, p) = <<p>>
        <3> HIDE DEF p
        <3> QED
            OBVIOUS
    <2> HIDE DEF n, md, a
    <2> DEFINE z == <<>>
    <2>3. InFrontend(Fe(n, z, md, NoName, z), Line("bind", a)) = Fe(n, Append(z, ParseBindLine(a)), md, NoName, z)
        <3> HIDE DEF z
        <3> QED
            BY HaFrontendLines
    <2>4. InFrontend(Fe(n, <<>>, md, NoName, <<>>), Line("bind", a)) = Fe(n, bs, md, NoName, <<>>)
        BY <2>2, <2>3, Zenon DEF a
    <2> HIDE DEF bs
    <2> QED
        BY <1>2, <2>1, <2>4, HaDirectives, Zenon
<1>5. Runs(HaLoop, c(bs, md, NoName, <<>>), A, c(bs, md, NoName, <<>>))
    <2>1. IsSeq(A) /\ \A i \in 1..Len(A) : A[i].kw = "http-request"
        <3> DEFINE k == Len(m.access)
                   white == \E i \in 1..k : m.access[i].action = "allow"
        <3>1. /\ IsSeq(A) /\ k \in Nat /\ Len(A) = IF white THEN k + 1 ELSE k
              /\ \A i \in 1..k : A[i] = Line("http-request", [do |-> m.access[i].action,
                                             cond |-> Cond("src", m.access[i].src, FALSE)])
              /\ white => A[k + 1] = Line("http-request", [do |-> "deny", cond |-> Always])
            BY AccessLines, Zenon
        <3>2. ASSUME NEW x PROVE Line("http-request", x).kw = "http-request"
            BY DEF Line
        <3>3. \A i \in 1..k : A[i].kw = "http-request"
            BY <3>1, <3>2, Zenon
        <3>4. white => A[k + 1].kw = "http-request"
            BY <3>1, <3>2, Zenon
        <3> HIDE DEF A, white, k
        <3>5. IsSeq(A) /\ k \in Nat /\ Len(A) = IF white THEN k + 1 ELSE k
            BY <3>1
        <3> QED
            BY ONLY <3>3, <3>4, <3>5
    <2> HIDE DEF A, md, bs, n
    <2> QED
        BY <2>1, HaRequestsKeep, Zenon
<1>6. ASSUME NEW d, NEW rs PROVE Runs(HaLoop, c(bs, md, d, rs), def, c(bs, md, BeName(id), rs))
    <2> HIDE DEF n, md, bs
    <2> DEFINE x == BeName(id)
    <2>1. FirstTokenLower(x) = x
        BY BeNameLower, Zenon
    <2> HIDE DEF x
    <2>2. InFrontend(Fe(n, bs, md, d, rs), Line("default_backend", x)) = Fe(n, bs, md, FirstTokenLower(x), rs)
        BY HaFrontendLines
    <2>3. InFrontend(Fe(n, bs, md, d, rs), Line("default_backend", x)) = Fe(n, bs, md, x, rs)
        BY <2>1, <2>2, Zenon
    <2> QED
        BY <1>2, <2>3, HaDirectives, Zenon DEF x
<1>7. PICK d, rs : /\ Runs(HaLoop, c(bs, md, NoName, <<>>), O, c(bs, md, d, rs))
                   /\ IF m.proto # "tcp" /\ m.redirect THEN d = NoName /\ rs = <<>> ELSE d = BeName(id)
    <2>1. CASE m.proto = "tcp"
        <3>1. O = def
            BY <2>1, Zenon DEF OwnRules
        <3> QED
            BY <2>1, <1>6, <3>1, Zenon
    <2>2. CASE m.proto # "tcp" /\ m.redirect
        <3> DEFINE l == Line("http-request", [do |-> "redirect", cond |-> Always])
        <3>1. O = <<l>>
            BY <2>2, Zenon DEF OwnRules
        <3> HIDE DEF n, md, bs
        <3>2. InFrontend(Fe(n, bs, md, NoName, <<>>), l) = Fe(n, bs, md, NoName, <<>>)
            BY HaFrontendLines
        <3>3. Runs(HaLoop, c(bs, md, NoName, <<>>), <<l>>, c(bs, md, NoName, <<>>))
            BY <1>2, <3>2, HaDirectives, Zenon
        <3> QED
            BY <2>2, <3>1, <3>3, Zenon
    <2>3. CASE ~(m.proto = "tcp") /\ ~(m.proto # "tcp" /\ m.redirect)
        <3> DEFINE R == RoutingRules(m, id)
        <3>1. O = R \o def
            BY <2>3, Zenon DEF OwnRules, RoutingRules
        <3>2. NoRefusals(R)
            BY RoutingRefusesNone
        <3> HIDE DEF n, md, bs, R
        <3>3. PICK d, rs : Runs(HaLoop, c(bs, md, NoName, <<>>), R, c(bs, md, d, rs))
            BY <3>2, HaRulesKeep, Zenon
        <3>4. Runs(HaLoop, c(bs, md, d, rs), def, c(bs, md, BeName(id), rs))
            BY <1>6, Zenon DEF n, md, bs
        <3>5. Runs(HaLoop, c(bs, md, NoName, <<>>), R \o def, c(bs, md, BeName(id), rs))
            <4> HIDE DEF c, def
            <4> QED
                BY <3>3, <3>4, RunsConcat, Zenon
        <3> QED
            BY <2>3, <3>1, <3>5, Zenon
    <2> QED
        BY <2>1, <2>2, <2>3, Zenon
<1> DEFINE e == Fe(n, bs, md, d, rs)
<1>8. Front1(m, id, e)
    <2>1. e.default = d /\ e.rules = rs
        BY DEF Fe
    <2> QED
        BY <1>7, <2>1, Zenon DEF Front1
<1>9. FrontendRules(m, id) = A \o O
    BY Zenon DEF FrontendRules, OwnRules
<1>10. FrontLines(m, id) = ((<<Line("frontend", n)>> \o mode) \o <<BindLine(m)>>) \o (A \o O)
    BY <1>9, Zenon DEF FrontLines
<1> DEFINE c0 == Read(cur, F, B, L)
           c1 == c(<<>>, "http", NoName, <<>>)
           c2 == c(<<>>, md, NoName, <<>>)
           c3 == c(bs, md, NoName, <<>>)
           c4 == c(bs, md, d, rs)
<1>11. Runs(HaLoop, c0, FrontLines(m, id), c4)
    <2>0. /\ Runs(HaLoop, c0, <<Line("frontend", n)>>, c1)
          /\ Runs(HaLoop, c1, mode, c2)
          /\ Runs(HaLoop, c2, <<BindLine(m)>>, c3)
        BY <1>1, <1>3, <1>4, Zenon
    <2> HIDE DEF c, A, O, mode, n, c0
    <2>1. Runs(HaLoop, c0, (<<Line("frontend", n)>> \o mode) \o <<BindLine(m)>>, c3)
        <3> HIDE DEF c1, c2, c3
        <3> QED
            BY <2>0, RunsConcat, Zenon
    <2>2. Runs(HaLoop, c3, A \o O, c4)
        BY <1>5, <1>7, RunsConcat, Zenon
    <2>3. Runs(HaLoop, c0, ((<<Line("frontend", n)>> \o mode) \o <<BindLine(m)>>) \o (A \o O), c4)
        <3> HIDE DEF c3, c4
        <3> QED
            BY <2>1, <2>2, RunsConcat, Zenon
    <2> QED
        BY <1>10, <2>3, Zenon
<1> QED
    BY <1>8, <1>11, Zenon

---------------------------------------------------------------------------
(* haproxy: the sections of the mappings, one after another.              *)

\* The backends read so far: those of own, others have names of three parts.
Known(B, own) ==
    /\ IsSeq(B)
    /\ \A x \in own : Has(B, x)
    /\ \A p \in 1..Len(B) : Len(B[p].name) = 3 \/ B[p] \in own
At(c, F, L, own) == \E cur, B : c = Read(cur, F, B, L) /\ Known(B, own)

LEMMA KnownAppend ==
    ASSUME NEW B, NEW own, Known(B, own), NEW x
    PROVE  /\ Known(Append(B, x), own \cup {x})
           /\ Len(x.name) = 3 => Known(Append(B, x), own)
<1> DEFINE C == Append(B, x)
<1>1. IsSeq(B) /\ Len(B) \in Nat
    BY SeqDomain DEF Known
<1>2. /\ IsSeq(C) /\ Len(C) = Len(B) + 1 /\ \A p \in 1..Len(B) : C[p] = B[p]
      /\ C[Len(B) + 1] = x
    BY <1>1, SeqAppend
<1> HIDE DEF C
<1>3. ASSUME NEW y, Has(B, y) PROVE Has(C, y)
    <2>1. PICK p \in 1..Len(B) : B[p] = y
        BY <1>3 DEF Has
    <2>2. p \in 1..Len(C) /\ C[p] = y
        BY <1>1, <1>2, <2>1
    <2> QED
        BY <2>2 DEF Has
<1>4. Has(C, x)
    <2>1. Len(B) + 1 \in 1..Len(C)
        BY <1>1, <1>2
    <2> QED
        BY <1>2, <2>1 DEF Has
<1>5. ASSUME NEW p \in 1..Len(C) PROVE (p \in 1..Len(B) /\ C[p] = B[p]) \/ C[p] = x
    BY <1>1, <1>2, <1>5
<1>6. (\A y \in own : Has(B, y)) /\ \A p \in 1..Len(B) : Len(B[p].name) = 3 \/ B[p] \in own
    BY DEF Known
<1>7. Known(C, own \cup {x})
    <2>1. \A y \in own \cup {x} : Has(C, y)
        BY <1>3, <1>4, <1>6
    <2>2. \A p \in 1..Len(C) : Len(C[p].name) = 3 \/ C[p] \in own \cup {x}
        BY <1>5, <1>6
    <2> QED
        BY <1>2, <2>1, <2>2 DEF Known
<1>8. ASSUME Len(x.name) = 3 PROVE Known(C, own)
    <2>1. \A y \in own : Has(C, y)
        BY <1>3, <1>6
    <2>2. \A p \in 1..Len(C) : Len(C[p].name) = 3 \/ C[p] \in own
        BY <1>5, <1>6, <1>8
    <2> QED
        BY <1>2, <2>1, <2>2 DEF Known
<1> QED
    BY <1>7, <1>8 DEF C

\* Lines that add backends with names of three parts at most.
Adds(s, F, L, own) ==
    IsSeq(s) /\ \A c : At(c, F, L, own) => At(Folded(HaLoop, c, s), F, L, own)

LEMMA AddsNone == \A F, L, own : Adds(<<>>, F, L, own)
BY SeqEmpty, FoldedEmpty DEF Adds

LEMMA AddsFlatten ==
    ASSUME NEW F, NEW L, NEW own, NEW n \in Nat, NEW ss, ss = [i \in 1..n |-> ss[i]],
           \A i \in 1..n : Adds(ss[i], F, L, own)
    PROVE  Adds(FlattenSeq(ss), F, L, own)
<1>1. \A i \in 1..n : IsSeq(ss[i])
    BY DEF Adds
<1>2. IsSeq(FlattenSeq(ss))
    BY <1>1, FlattenIsSeq
<1>3. ASSUME NEW c, At(c, F, L, own) PROVE At(Folded(HaLoop, c, FlattenSeq(ss)), F, L, own)
    <2>1. PICK g : /\ g[0] = c /\ Runs(HaLoop, c, FlattenSeq(ss), g[n])
                   /\ \A i \in 0..(n - 1) : Runs(HaLoop, g[i], ss[i + 1], g[i + 1])
        <3>1. PICK g : Passes(g, HaLoop, c, n, ss)
            BY <1>1, FlattenTrace
        <3> QED
            BY <3>1, Zenon DEF Passes
    <2> DEFINE S == {i \in Nat : i <= n => At(g[i], F, L, own)}
    <2>2. 0 \in S
        BY <1>3, <2>1
    <2>3. ASSUME NEW i \in Nat, i \in S PROVE i + 1 \in S
        <3>1. SUFFICES ASSUME i + 1 <= n PROVE At(g[i + 1], F, L, own)
            OBVIOUS
        <3>2. i \in 0..(n - 1) /\ i + 1 \in 1..n /\ At(g[i], F, L, own)
            BY <2>3, <3>1
        <3>3. Folded(HaLoop, g[i], ss[i + 1]) = g[i + 1]
            BY <2>1, <3>2 DEF Runs
        <3>4. Adds(ss[i + 1], F, L, own)
            BY <3>2
        <3> QED
            BY <3>2, <3>3, <3>4, Zenon DEF Adds
    <2>4. \A i \in Nat : i \in S
        <3> HIDE DEF S
        <3> QED
            BY <2>2, <2>3, Induction
    <2>5. At(g[n], F, L, own)
        BY <2>4
    <2> QED
        BY <2>1, <2>5, Zenon DEF Runs
<1> QED
    BY <1>2, <1>3, Zenon DEF Adds

LEMMA AddsBackend ==
    ASSUME NEW F, NEW L, NEW own, IsSeq(F), IsSeq(L), NEW be, Len(be) = 3, NEW m, NEW ts, IsSeq(ts)
    PROVE  Adds(RenderHABackend(be, m, ts), F, L, own)
<1> DEFINE s == RenderHABackend(be, m, ts)
           x == BeOf(be, m, ts)
<1>1. x.name = be
    BY DEF BeOf, Be
<1>2. ASSUME NEW cur, NEW B, Known(B, own) PROVE Runs(HaLoop, Read(cur, F, B, L), s, Read("backend", F, Append(B, x), L))
    BY <1>2, HaBackendRead, Zenon DEF Known
<1>3. ASSUME NEW B, Known(B, own) PROVE Known(Append(B, x), own)
    <2> HIDE DEF x
    <2> QED
        BY <1>1, <1>3, KnownAppend
<1> HIDE DEF s, x
<1>4. ASSUME NEW c, At(c, F, L, own) PROVE IsSeq(s) /\ At(Folded(HaLoop, c, s), F, L, own)
    <2>1. PICK cur, B : c = Read(cur, F, B, L) /\ Known(B, own)
        BY <1>4, Zenon DEF At
    <2>2. Runs(HaLoop, c, s, Read("backend", F, Append(B, x), L))
        BY <1>2, <2>1, Zenon
    <2>3. Known(Append(B, x), own)
        BY <1>3, <2>1
    <2> QED
        BY <2>2, <2>3, Zenon DEF Runs, At
<1>5. IsSeq(s)
    <2>1. IsSeq(<<>>)
        BY SeqEmpty
    <2>2. Runs(HaLoop, Read("none", F, <<>>, L), s, Read("backend", F, Append(<<>>, x), L))
        BY <2>1, HaBackendRead, Zenon DEF s, x
    <2> QED
        BY <2>2, Zenon DEF Runs
<1> QED
    BY <1>4, <1>5, Zenon DEF Adds, s

\* Names of a mapping's backends.
LEMMA BeNameLen ==
    ASSUME NEW id, NEW r
    PROVE  Len(BeName(id)) = 2 /\ Len(Append(BeName(id), r)) = 3 /\ Len(DynName(id)) = 3
<1>1. Len(BeName(id)) = 2 /\ Len(DynName(id)) = 3
    BY DEF BeName, DynName
<1>2. IsSeq(BeName(id))
    <2>1. <<"be", id>> \in Seq({"be", id})
        OBVIOUS
    <2> QED
        BY <2>1 DEF BeName, IsSeq
<1> QED
    BY <1>1, <1>2, SeqAppend

LEMMA HaRuleBackends ==
    ASSUME NEW F, NEW L, NEW own, IsSeq(F), IsSeq(L), NEW m \in HaMapping, NEW id
    PROVE  Adds(RenderHARouteRuleBackends(m, id), F, L, own)
<1> DEFINE n == Len(m.routes)
           ss == [i \in 1..n |->
                    IF m.routes[i].on /\ m.routes[i].targets # <<>>
                    THEN RenderHABackend(Append(BeName(id), m.routes[i].rid), m, m.routes[i].targets)
                    ELSE <<>>]
<1>1. m.routes \in Seq(HaRoute)
    BY DEF HaMapping
<1>2. n \in Nat /\ DOMAIN m.routes = 1..n /\ \A i \in 1..n : m.routes[i] \in HaRoute
    BY <1>1, SeqElem
<1>3. ASSUME NEW i \in 1..n PROVE Adds(ss[i], F, L, own)
    <2> DEFINE r == m.routes[i]
               be == Append(BeName(id), r.rid)
    <2>1. r \in HaRoute
        BY <1>2
    <2>2. r.targets \in Seq(HaTarget)
        <3> HIDE DEF r
        <3> QED
            BY <2>1 DEF HaRoute
    <2>3. IsSeq(r.targets)
        BY <2>2, Zenon DEF IsSeq
    <2>4. Len(be) = 3
        BY BeNameLen
    <2>5. Adds(RenderHABackend(be, m, r.targets), F, L, own)
        <3> HIDE DEF be, r
        <3> QED
            BY <2>3, <2>4, AddsBackend, Zenon
    <2>6. ss[i] = IF r.on /\ r.targets # <<>> THEN RenderHABackend(be, m, r.targets) ELSE <<>>
        BY Zenon
    <2> QED
        BY <2>5, <2>6, AddsNone, Zenon
<1>4. ss = [i \in 1..n |-> ss[i]]
    BY Zenon
<1>5. RenderHARouteRuleBackends(m, id) = FlattenSeq(ss)
    BY <1>2, Zenon DEF RenderHARouteRuleBackends
<1> HIDE DEF ss
<1> QED
    BY <1>2, <1>3, <1>4, <1>5, AddsFlatten

\* The sections of the first k mappings.
OwnBe(m, id) == BeOf(BeName(id), m, m.targets)
Owns(ms, k) == {OwnBe(ms[i], i) : i \in 1..k}
Fronts(F, ms, k) == IsSeq(F) /\ Len(F) = k /\ \A i \in 1..k : Front1(ms[i], i, F[i])
MappingsRead(c, ms, k) == \E F : Fronts(F, ms, k) /\ At(c, F, <<>>, Owns(ms, k))

LEMMA OwnsNext ==
    ASSUME NEW ms, NEW k \in Nat
    PROVE  Owns(ms, k + 1) = Owns(ms, k) \cup {OwnBe(ms[k + 1], k + 1)}
<1>1. 1..(k + 1) = (1..k) \cup {k + 1}
    OBVIOUS
<1> QED
    BY <1>1 DEF Owns

LEMMA HaMappingRead ==
    ASSUME NEW ms, NEW k \in Nat, ms[k + 1] \in HaMapping, NEW c, MappingsRead(c, ms, k)
    PROVE  /\ IsSeq(RenderMapping(ms[k + 1], k + 1))
           /\ MappingsRead(Folded(HaLoop, c, RenderMapping(ms[k + 1], k + 1)), ms, k + 1)
<1> DEFINE m == ms[k + 1]
           id == k + 1
           fl == FrontLines(m, id)
           rb == IF m.proto = "tcp" THEN <<>> ELSE RenderHARouteRuleBackends(m, id)
           ob == RenderHABackend(BeName(id), m, m.targets)
           x == OwnBe(m, id)
           own == Owns(ms, k)
<1>0. m \in HaMapping
    OBVIOUS
<1>1. PICK F, cur, B : Fronts(F, ms, k) /\ c = Read(cur, F, B, <<>>) /\ Known(B, own)
    BY Zenon DEF MappingsRead, At
<1>2. IsSeq(F) /\ IsSeq(B) /\ IsSeq(<<>>)
    BY <1>1, SeqEmpty DEF Fronts, Known
<1>3. PICK e : Front1(m, id, e) /\ Runs(HaLoop, c, fl, Read("frontend", Append(F, e), B, <<>>))
    <2> HIDE DEF m, id
    <2> QED
        BY <1>0, <1>1, <1>2, HaFrontRead, Zenon
<1> DEFINE G == Append(F, e)
           c1 == Read("frontend", G, B, <<>>)
           c2 == Folded(HaLoop, c1, rb)
<1>4. /\ IsSeq(G) /\ Len(G) = Len(F) + 1 /\ \A i \in 1..Len(F) : G[i] = F[i]
      /\ G[Len(F) + 1] = e
    BY <1>2, SeqAppend
<1>5. Adds(rb, G, <<>>, own)
    <2>1. Adds(RenderHARouteRuleBackends(m, id), G, <<>>, own)
        <3> HIDE DEF G, m, id, own
        <3> QED
            BY <1>0, <1>2, <1>4, HaRuleBackends, Zenon
    <2> QED
        BY <2>1, AddsNone, Zenon
<1> HIDE DEF G
<1>6. At(c1, G, <<>>, own)
    BY <1>1, Zenon DEF At
<1> HIDE DEF c1, rb
<1>7. IsSeq(rb) /\ At(c2, G, <<>>, own)
    BY <1>5, <1>6, Zenon DEF Adds
<1>8. PICK cu, C : c2 = Read(cu, G, C, <<>>) /\ Known(C, own)
    BY <1>7, Zenon DEF At
<1>9. IsSeq(m.targets)
    <2>1. m.targets \in Seq(HaTarget)
        BY <1>0 DEF HaMapping
    <2> QED
        BY <2>1, Zenon DEF IsSeq
<1>10. Runs(HaLoop, Read(cu, G, C, <<>>), ob, Read("backend", G, Append(C, x), <<>>))
    <2> HIDE DEF id, m
    <2>1. IsSeq(C)
        BY <1>8, Zenon DEF Known
    <2> QED
        BY <1>2, <1>4, <1>9, <2>1, HaBackendRead, Zenon DEF OwnBe
<1> DEFINE d == Read("backend", G, Append(C, x), <<>>)
<1>11. Runs(HaLoop, c, (fl \o rb) \o ob, d)
    <2>1. Runs(HaLoop, c, fl, c1)
        BY <1>3, Zenon DEF c1, G
    <2>2. Runs(HaLoop, c1, rb, c2)
        BY <1>7, Zenon DEF Runs
    <2>3. Runs(HaLoop, c2, ob, d)
        BY <1>8, <1>10, Zenon
    <2> HIDE DEF fl, ob, c2, d
    <2> QED
        BY <2>1, <2>2, <2>3, RunsConcat, Zenon
<1>12. RenderMapping(m, id) = (fl \o rb) \o ob
    <2> HIDE DEF id, m
    <2> QED
        BY Zenon DEF RenderMapping, FrontLines, rb
<1>13. MappingsRead(d, ms, k + 1)
    <2>1. Known(Append(C, x), own \cup {x})
        <3> HIDE DEF x, own
        <3> QED
            BY <1>8, KnownAppend
    <2>2. Owns(ms, k + 1) = own \cup {x}
        BY OwnsNext, Zenon
    <2>3. Fronts(G, ms, k + 1)
        <3>1. Len(F) = k /\ \A i \in 1..k : Front1(ms[i], i, F[i])
            BY <1>1, Zenon DEF Fronts
        <3>2. ASSUME NEW i \in 1..(k + 1) PROVE Front1(ms[i], i, G[i])
            <4>1. CASE i = k + 1
                BY <1>3, <1>4, <3>1, <4>1, Zenon
            <4>2. CASE i # k + 1
                <5>1. i \in 1..k
                    BY <4>2
                <5> QED
                    BY <1>4, <3>1, <5>1, Zenon
            <4> QED
                BY <4>1, <4>2
        <3>3. Len(G) = k + 1
            BY <1>4, <3>1
        <3> QED
            BY <1>4, <3>2, <3>3, Zenon DEF Fronts
    <2>4. At(d, G, <<>>, Owns(ms, k + 1))
        BY <2>1, <2>2, Zenon DEF At
    <2> QED
        BY <2>3, <2>4, Zenon DEF MappingsRead
<1> HIDE DEF d
<1> QED
    BY <1>11, <1>12, <1>13, Zenon DEF Runs

LEMMA SeqFour ==
    ASSUME NEW x, NEW y, NEW z, NEW q
    PROVE  ((<<x>> \o <<y>>) \o <<z>>) \o <<q>> = <<x, y, z, q>>
<1> DEFINE u == <<x, y, z>>
           w == u \o <<q>>
           v == <<x, y, z, q>>
<1>1. (<<x>> \o <<y>>) \o <<z>> = u /\ IsSeq(u)
    BY SeqThree
<1>2. Len(u) = 3 /\ u[1] = x /\ u[2] = y /\ u[3] = z
    OBVIOUS
<1> HIDE DEF u
<1>3. Joined(w, u, <<q>>)
    BY <1>1, SeqOne, ConcatIs
<1> HIDE DEF w
<1>4. Len(w) = 4 /\ w[1] = x /\ w[2] = y /\ w[3] = z /\ w[4] = q /\ IsSeq(w)
    <2>1. 1 \in 1..1 /\ 1 \in 1..3 /\ 2 \in 1..3 /\ 3 \in 1..3
        OBVIOUS
    <2>2. w[1] = u[1] /\ w[2] = u[2] /\ w[3] = u[3] /\ w[3 + 1] = <<q>>[1]
        BY <1>2, <1>3, <2>1, SeqOne DEF Joined
    <2> QED
        BY <1>2, <1>3, <2>2, SeqOne DEF Joined
<1>5. Len(v) = 4 /\ v[1] = x /\ v[2] = y /\ v[3] = z /\ v[4] = q /\ v \in Seq({x, y, z, q})
    OBVIOUS
<1>6. IsSeq(v)
    BY <1>5 DEF IsSeq
<1> HIDE DEF v
<1>7. w = v
    BY <1>4, <1>5, <1>6, SameSeq
<1> QED
    BY <1>1, <1>7, Zenon DEF v, w

LEMMA HaMappingsRead ==
    ASSUME NEW ms, NEW n \in Nat, NEW ss, ss = [i \in 1..n |-> RenderMapping(ms[i], i)],
           \A i \in 1..n : ms[i] \in HaMapping, NEW c, MappingsRead(c, ms, 0)
    PROVE  IsSeq(FlattenSeq(ss)) /\ MappingsRead(Folded(HaLoop, c, FlattenSeq(ss)), ms, n)
<1> DEFINE r(i) == RenderMapping(ms[i], i)
<1>1. ASSUME NEW i \in 1..n PROVE IsSeq(r(i))
    <2> DEFINE k == i - 1
               F == [j \in 1..k |-> Fe(FeName(j), <<ParseBindLine(BindLine(ms[j]).arg)>>,
                                       IF ms[j].proto = "tcp" THEN "tcp" ELSE "http",
                                       IF ms[j].proto # "tcp" /\ ms[j].redirect THEN NoName ELSE BeName(j),
                                       <<>>)]
               B == [j \in 1..k |-> OwnBe(ms[j], j)]
    <2>1. k \in Nat /\ k + 1 = i
        OBVIOUS
    <2>2. /\ F = [j \in 1..k |-> F[j]]
          /\ \A j \in 1..k : F[j] = Fe(FeName(j), <<ParseBindLine(BindLine(ms[j]).arg)>>,
                                       IF ms[j].proto = "tcp" THEN "tcp" ELSE "http",
                                       IF ms[j].proto # "tcp" /\ ms[j].redirect THEN NoName ELSE BeName(j),
                                       <<>>)
        BY Zenon
    <2>3. B = [j \in 1..k |-> B[j]] /\ \A j \in 1..k : B[j] = OwnBe(ms[j], j)
        BY Zenon
    <2> HIDE DEF F, B
    <2>4. IsSeq(F) /\ Len(F) = k /\ IsSeq(B) /\ Len(B) = k
        BY <2>1, <2>2, <2>3, FcnSeq
    <2>5. Fronts(F, ms, k)
        <3>1. ASSUME NEW j \in 1..k PROVE Front1(ms[j], j, F[j])
            <4> DEFINE b == <<ParseBindLine(BindLine(ms[j]).arg)>>
                       md == IF ms[j].proto = "tcp" THEN "tcp" ELSE "http"
                       d == IF ms[j].proto # "tcp" /\ ms[j].redirect THEN NoName ELSE BeName(j)
            <4>1. F[j] = Fe(FeName(j), b, md, d, <<>>)
                BY <2>2, Zenon
            <4> HIDE DEF b, md, d
            <4>2. F[j].default = d /\ F[j].rules = <<>>
                BY <4>1 DEF Fe
            <4> QED
                BY <4>1, <4>2, Zenon DEF Front1, b, md, d
        <3> QED
            BY <2>4, <3>1, Zenon DEF Fronts
    <2>6. Known(B, Owns(ms, k))
        BY <2>3, <2>4, Zenon DEF Known, Has, Owns
    <2>7. MappingsRead(Read("none", F, B, <<>>), ms, k)
        BY <2>5, <2>6, Zenon DEF MappingsRead, At
    <2>8. ms[k + 1] \in HaMapping
        BY <2>1
    <2>9. IsSeq(RenderMapping(ms[k + 1], k + 1))
        <3> HIDE DEF k
        <3> QED
            BY <2>1, <2>7, <2>8, HaMappingRead, Zenon
    <2> QED
        BY <2>1, <2>9
<1>2. /\ ss = [i \in 1..n |-> ss[i]] /\ \A i \in 1..n : ss[i] = r(i)
    BY Zenon
<1> HIDE DEF r
<1>3. \A i \in 1..n : IsSeq(ss[i])
    BY <1>1, <1>2
<1>4. PICK g : /\ g[0] = c /\ Runs(HaLoop, c, FlattenSeq(ss), g[n])
               /\ \A i \in 0..(n - 1) : Runs(HaLoop, g[i], ss[i + 1], g[i + 1])
    <2>1. PICK g : Passes(g, HaLoop, c, n, ss)
        BY <1>2, <1>3, FlattenTrace
    <2> QED
        BY <2>1, Zenon DEF Passes
<1> DEFINE S == {i \in Nat : i <= n => MappingsRead(g[i], ms, i)}
<1>5. 0 \in S
    BY <1>4
<1>6. ASSUME NEW i \in Nat, i \in S PROVE i + 1 \in S
    <2>1. SUFFICES ASSUME i + 1 <= n PROVE MappingsRead(g[i + 1], ms, i + 1)
        OBVIOUS
    <2>2. i \in 0..(n - 1) /\ i + 1 \in 1..n /\ MappingsRead(g[i], ms, i)
        BY <1>6, <2>1
    <2>3. Folded(HaLoop, g[i], ss[i + 1]) = g[i + 1]
        BY <1>4, <2>2 DEF Runs
    <2>4. ss[i + 1] = RenderMapping(ms[i + 1], i + 1) /\ ms[i + 1] \in HaMapping
        BY <1>2, <2>2, Zenon DEF r
    <2>5. MappingsRead(Folded(HaLoop, g[i], RenderMapping(ms[i + 1], i + 1)), ms, i + 1)
        BY <2>2, <2>4, HaMappingRead, Zenon
    <2> QED
        BY <2>3, <2>4, <2>5, Zenon
<1>7. \A i \in Nat : i \in S
    <2> HIDE DEF S
    <2> QED
        BY <1>5, <1>6, Induction
<1>8. MappingsRead(g[n], ms, n)
    BY <1>7
<1> QED
    BY <1>4, <1>8, Zenon DEF Runs

\* The backends of the dynamic ports.
LEMMA HaDynBackend ==
    ASSUME NEW F, NEW L, NEW own, IsSeq(F), IsSeq(L), NEW m, NEW id
    PROVE  Adds(RenderHADynBackend(m, id), F, L, own)
<1> DEFINE sv == [addr |-> Append(IF m.targets = <<>> THEN <<"127.0.0.1">> ELSE m.targets[1].host, 1),
                  opts |-> <<>>]
           s == <<Line("backend", DynName(id)), Line("mode", "http"), Line("server", sv)>>
           be == DynName(id)
           x == Be(be, "http", "roundrobin", Append(<<>>, ParseServerLine(sv)))
<1>1. RenderHADynBackend(m, id) = IF m.dyn = <<>> \/ m.redirect \/ m.proto = "tcp" THEN <<>> ELSE s
    BY Zenon DEF RenderHADynBackend
<1> HIDE DEF sv
<1>2. ASSUME NEW cur, NEW B, IsSeq(B) PROVE Runs(HaLoop, Read(cur, F, B, L), s, Read("backend", F, Append(B, x), L))
    <2> DEFINE z == <<>>
               e == Be(be, "http", "roundrobin", z)
               b == Read(cur, F, B, L)
               c == Read("backend", F, Append(B, e), L)
               d == Read("backend", F, Append(B, x), L)
    <2>1. Loop(HaLoop, b, Line("backend", be)) = c
        <3>1. HaStep(b, Line("backend", be), c)
            BY HaOpens, Zenon
        <3> QED
            BY <3>1, HaRound, Zenon DEF HaStep
    <2>2. InBackend(e, Line("mode", "http")) = e /\ InBackend(e, Line("server", sv)) = x
        <3> HIDE DEF z, be
        <3>1. /\ InBackend(Be(be, "http", "roundrobin", z), Line("mode", "http")) = Be(be, "http", "roundrobin", z)
              /\ InBackend(Be(be, "http", "roundrobin", z), Line("server", sv))
                   = Be(be, "http", "roundrobin", Append(z, ParseServerLine(sv)))
            BY HaBackendLines
        <3> QED
            BY <3>1, Zenon DEF z
    <2> HIDE DEF e, x
    <2>3. ASSUME NEW l, NEW y, Directive(l), InBackend(e, l) = y
          PROVE  Loop(HaLoop, c, l) = Read("backend", F, Append(B, y), L)
        <3>1. HaStep(Read("backend", F, Append(B, e), L), l, Read("backend", F, Append(B, InBackend(e, l)), L))
            BY <1>2, <2>3, HaUpdates, Zenon
        <3> QED
            BY <2>3, <3>1, HaRound, Zenon DEF HaStep
    <2>4. Loop(HaLoop, c, Line("mode", "http")) = c
        BY <2>2, <2>3, HaDirectives, Zenon
    <2>5. Loop(HaLoop, c, Line("server", sv)) = d
        BY <2>2, <2>3, HaDirectives, Zenon
    <2> HIDE DEF b, c, d, be
    <2>6. Runs(HaLoop, b, <<Line("backend", be), Line("mode", "http"), Line("server", sv)>>, d)
        BY <2>1, <2>4, <2>5, RunsThree
    <2> QED
        BY <2>6, Zenon DEF b, d, be
<1>3. Len(x.name) = 3
    <2>1. x.name = be
        BY DEF Be
    <2> QED
        BY <2>1, BeNameLen
<1>4. ASSUME NEW B, Known(B, own) PROVE Known(Append(B, x), own)
    <2> HIDE DEF x
    <2> QED
        BY <1>3, <1>4, KnownAppend
<1>5. IsSeq(s)
    BY SeqThree
<1> HIDE DEF s, x
<1>6. ASSUME NEW c, At(c, F, L, own) PROVE At(Folded(HaLoop, c, s), F, L, own)
    <2>1. PICK cur, B : c = Read(cur, F, B, L) /\ Known(B, own)
        BY <1>6, Zenon DEF At
    <2>2. Runs(HaLoop, c, s, Read("backend", F, Append(B, x), L))
        BY <1>2, <2>1, Zenon DEF Known
    <2>3. Known(Append(B, x), own)
        BY <1>4, <2>1
    <2> QED
        BY <2>2, <2>3, Zenon DEF Runs, At
<1>7. Adds(s, F, L, own)
    BY <1>5, <1>6, Zenon DEF Adds
<1> QED
    BY <1>1, <1>7, AddsNone, Zenon

\* The whole of what the panel wrote.
LEMMA HaWrittenRead ==
    ASSUME NEW ms, IsSeq(ms), \A i \in 1..Len(ms) : ms[i] \in HaMapping
    PROVE  /\ IsSeq(RenderHAProxy(ms))
           /\ MappingsRead(Folded(HaLoop, EmptyCfg, RenderHAProxy(ms)), ms, Len(ms))
<1> DEFINE n == Len(ms)
           h == <<Line("global", ""), Line("maxconn", 4096), Line("defaults", ""), Line("mode", "http")>>
           rs == [i \in 1..n |-> RenderMapping(ms[i], i)]
           ds == [i \in 1..n |-> RenderHADynBackend(ms[i], i)]
           r == FlattenSeq(rs)
           d == FlattenSeq(ds)
           c1 == Read("defaults", <<>>, <<>>, <<>>)
<1>1. n \in Nat /\ DOMAIN ms = 1..n
    BY SeqDomain
<1>2. RenderHAProxy(ms) = (h \o r) \o d
    <2>1. /\ [i \in DOMAIN ms |-> RenderMapping(ms[i], i)] = rs
          /\ [i \in DOMAIN ms |-> RenderHADynBackend(ms[i], i)] = ds
        BY <1>1, Zenon
    <2> DEFINE A == [i \in DOMAIN ms |-> RenderMapping(ms[i], i)]
               D == [i \in DOMAIN ms |-> RenderHADynBackend(ms[i], i)]
    <2>2. RenderHAProxy(ms) = (h \o FlattenSeq(A)) \o FlattenSeq(D)
        BY DEF RenderHAProxy
    <2> HIDE DEF h, rs, ds
    <2> QED
        BY <2>1, <2>2, Zenon
<1>3. Runs(HaLoop, EmptyCfg, h, c1)
    <2> DEFINE z == <<>>
               g == Read("global", z, z, z)
               l1 == Line("global", "")
               l2 == Line("maxconn", 4096)
               l3 == Line("defaults", "")
               l4 == Line("mode", "http")
    <2>0. EmptyCfg = Read("none", z, z, z) /\ c1 = Read("defaults", z, z, z)
        BY DEF EmptyCfg, Read
    <2>1. IsSeq(z)
        BY SeqEmpty
    <2>2. Directive(l2) /\ Directive(l4)
        BY HaDirectives
    <2> HIDE DEF z
    <2>3. HaStep(EmptyCfg, l1, g) /\ HaStep(g, l3, c1)
        BY <2>0, HaOpens, Zenon
    <2> HIDE DEF l2, l4
    <2>4. HaStep(g, l2, g) /\ HaStep(c1, l4, c1)
        BY <2>0, <2>1, <2>2, HaUpdates, Zenon
    <2> HIDE DEF g, c1, l1, l3
    <2>5. Runs(HaLoop, EmptyCfg, ((<<l1>> \o <<l2>>) \o <<l3>>) \o <<l4>>, c1)
        BY <2>3, <2>4, HaRunsOne, HaRunsStep, Zenon
    <2>6. ((<<l1>> \o <<l2>>) \o <<l3>>) \o <<l4>> = <<l1, l2, l3, l4>>
        BY SeqFour
    <2>7. h = <<l1, l2, l3, l4>>
        BY DEF l1, l2, l3, l4
    <2> HIDE DEF h
    <2> QED
        BY <2>5, <2>6, <2>7, Zenon
<1>4. MappingsRead(c1, ms, 0)
    <2>1. Known(<<>>, {}) /\ IsSeq(<<>>) /\ Len(<<>>) = 0
        BY SeqEmpty DEF Known
    <2>2. 1..0 = {}
        OBVIOUS
    <2>3. Owns(ms, 0) = {} /\ Fronts(<<>>, ms, 0)
        BY <2>1, <2>2 DEF Owns, Fronts
    <2>4. At(c1, <<>>, <<>>, {})
        BY <2>1, Zenon DEF At
    <2> QED
        BY <2>3, <2>4, Zenon DEF MappingsRead
<1> HIDE DEF c1, h
<1> DEFINE c2 == Folded(HaLoop, c1, r)
           c3 == Folded(HaLoop, c2, d)
<1>5. IsSeq(r) /\ MappingsRead(c2, ms, n)
    <2>1. rs = [i \in 1..n |-> RenderMapping(ms[i], i)]
        OBVIOUS
    <2> HIDE DEF rs, n, c1
    <2> QED
        BY <1>1, <1>4, <2>1, HaMappingsRead DEF n
<1>6. IsSeq(d) /\ MappingsRead(c3, ms, n)
    <2>1. PICK F : Fronts(F, ms, n) /\ At(c2, F, <<>>, Owns(ms, n))
        BY <1>5, Zenon DEF MappingsRead
    <2>2. IsSeq(F) /\ IsSeq(<<>>)
        BY <2>1, SeqEmpty DEF Fronts
    <2>3. ds = [i \in 1..n |-> ds[i]] /\ \A i \in 1..n : ds[i] = RenderHADynBackend(ms[i], i)
        BY Zenon
    <2> HIDE DEF ds, c2
    <2>4. \A i \in 1..n : Adds(ds[i], F, <<>>, Owns(ms, n))
        BY <2>2, <2>3, HaDynBackend
    <2>5. Adds(d, F, <<>>, Owns(ms, n))
        BY <1>1, <2>3, <2>4, AddsFlatten
    <2> QED
        BY <2>1, <2>5, Zenon DEF Adds, MappingsRead
<1>7. Runs(HaLoop, EmptyCfg, (h \o r) \o d, c3)
    <2>1. Runs(HaLoop, c1, r, c2) /\ Runs(HaLoop, c2, d, c3)
        BY <1>5, <1>6, Zenon DEF Runs
    <2> HIDE DEF c2, c3, r, d
    <2> QED
        BY <1>3, <2>1, RunsConcat, Zenon
<1> HIDE DEF c3, n
<1> QED
    BY <1>2, <1>6, <1>7, Zenon DEF Runs, n

---------------------------------------------------------------------------
(* haproxy: the section after them.                                       *)

\* The lines of somebody else's section.
PortBind(p) == Line("bind", [brackets |-> FALSE, addr |-> <<p>>, opts |-> {}])

LEMMA HaFrontBinds ==
    ASSUME NEW F, NEW B, NEW L, IsSeq(F), IsSeq(B), IsSeq(L), NEW n, NEW d,
           NEW ts, IsSeq(ts)
    PROVE  Runs(HaLoop, Read("frontend", Append(F, Fe(n, <<>>, "http", d, <<>>)), B, L),
                [i \in DOMAIN ts |-> PortBind(ts[i])],
                Read("frontend", Append(F, Fe(n, [i \in 1..Len(ts) |-> ParseBindLine(PortBind(ts[i]).arg)], "http", d, <<>>)), B, L))
<1> DEFINE e == [i \in 1..Len(ts) |-> ParseBindLine(PortBind(ts[i]).arg)]
           s == [i \in 1..Len(ts) |-> PortBind(ts[i])]
           p(i) == [j \in 1..i |-> e[j]]
           g == [i \in 0..Len(ts) |-> Read("frontend", Append(F, Fe(n, p(i), "http", d, <<>>)), B, L)]
<1>1. Len(ts) \in Nat /\ DOMAIN ts = 1..Len(ts)
    BY SeqDomain
<1>2. ASSUME NEW i \in 0..(Len(ts) - 1) PROVE g[i + 1] = Loop(HaLoop, g[i], s[i + 1])
    <2>1. i \in Nat /\ i + 1 \in 1..Len(ts) /\ i \in 0..Len(ts) /\ i + 1 \in 0..Len(ts)
        BY <1>1
    <2> DEFINE x == PortBind(ts[i + 1]).arg
    <2>2. s[i + 1] = Line("bind", x)
        BY <2>1 DEF PortBind, Line
    <2>3. e[i + 1] = ParseBindLine(x)
        BY <2>1, Zenon
    <2>4. g[i] = Read("frontend", Append(F, Fe(n, p(i), "http", d, <<>>)), B, L) /\ g[i + 1] = Read("frontend", Append(F, Fe(n, p(i + 1), "http", d, <<>>)), B, L)
        BY <2>1, Zenon
    <2> HIDE DEF x, g, s, e
    <2>5. Append(p(i), e[i + 1]) = p(i + 1)
        BY <2>1, FcnAppend
    <2> DEFINE q == p(i)
               a == Fe(n, q, "http", d, <<>>)
               l == Line("bind", x)
    <2>6. InFrontend(Fe(n, q, "http", d, <<>>), Line("bind", x)) = Fe(n, Append(q, ParseBindLine(x)), "http", d, <<>>)
        <3> HIDE DEF q
        <3> QED
            BY HaFrontendLines
    <2>7. InFrontend(a, l) = Fe(n, p(i + 1), "http", d, <<>>)
        BY <2>3, <2>5, <2>6, Zenon
    <2>8. Directive(l)
        BY HaDirectives, Zenon
    <2>9. HaStep(Read("frontend", Append(F, a), B, L), l, Read("frontend", Append(F, InFrontend(a, l)), B, L))
        <3> HIDE DEF a, l
        <3> QED
            BY <2>8, HaUpdates, Zenon
    <2> QED
        BY <2>2, <2>4, <2>7, <2>9, HaRound, Zenon DEF HaStep
<1>3. s = [i \in 1..Len(ts) |-> s[i]]
    BY Zenon
<1>4. g[0] = Read("frontend", Append(F, Fe(n, <<>>, "http", d, <<>>)), B, L)
    <2>1. 0 \in 0..Len(ts)
        BY <1>1
    <2>2. g[0] = Read("frontend", Append(F, Fe(n, p(0), "http", d, <<>>)), B, L)
        BY <2>1, Zenon
    <2>3. p(0) = <<>>
        <3> HIDE DEF e
        <3> QED
            BY FcnEmpty
    <2> QED
        BY <2>2, <2>3, Zenon
<1>5. g[Len(ts)] = Read("frontend", Append(F, Fe(n, e, "http", d, <<>>)), B, L)
    <2>1. Len(ts) \in 0..Len(ts)
        BY <1>1
    <2>2. g[Len(ts)] = Read("frontend", Append(F, Fe(n, p(Len(ts)), "http", d, <<>>)), B, L)
        BY <2>1, Zenon
    <2>3. p(Len(ts)) = e
        BY Zenon
    <2> QED
        BY <2>2, <2>3, Zenon
<1> HIDE DEF g, s, e
<1>6. Runs(HaLoop, g[0], s, g[Len(ts)])
    BY <1>1, <1>2, <1>3, RunsSteps
<1>7. [i \in DOMAIN ts |-> PortBind(ts[i])] = s
    BY <1>1, Zenon DEF s
<1> QED
    BY <1>4, <1>5, <1>6, <1>7, Zenon DEF e

LEMMA HaListenBinds ==
    ASSUME NEW F, NEW B, NEW L, IsSeq(F), IsSeq(B), IsSeq(L), NEW n,
           NEW ts, IsSeq(ts)
    PROVE  Runs(HaLoop, Read("listen", F, B, Append(L, Li(n, <<>>, <<>>))),
                [i \in DOMAIN ts |-> PortBind(ts[i])],
                Read("listen", F, B, Append(L, Li(n, [i \in 1..Len(ts) |-> ParseBindLine(PortBind(ts[i]).arg)], <<>>))))
<1> DEFINE e == [i \in 1..Len(ts) |-> ParseBindLine(PortBind(ts[i]).arg)]
           s == [i \in 1..Len(ts) |-> PortBind(ts[i])]
           p(i) == [j \in 1..i |-> e[j]]
           g == [i \in 0..Len(ts) |-> Read("listen", F, B, Append(L, Li(n, p(i), <<>>)))]
<1>1. Len(ts) \in Nat /\ DOMAIN ts = 1..Len(ts)
    BY SeqDomain
<1>2. ASSUME NEW i \in 0..(Len(ts) - 1) PROVE g[i + 1] = Loop(HaLoop, g[i], s[i + 1])
    <2>1. i \in Nat /\ i + 1 \in 1..Len(ts) /\ i \in 0..Len(ts) /\ i + 1 \in 0..Len(ts)
        BY <1>1
    <2> DEFINE x == PortBind(ts[i + 1]).arg
    <2>2. s[i + 1] = Line("bind", x)
        BY <2>1 DEF PortBind, Line
    <2>3. e[i + 1] = ParseBindLine(x)
        BY <2>1, Zenon
    <2>4. g[i] = Read("listen", F, B, Append(L, Li(n, p(i), <<>>))) /\ g[i + 1] = Read("listen", F, B, Append(L, Li(n, p(i + 1), <<>>)))
        BY <2>1, Zenon
    <2> HIDE DEF x, g, s, e
    <2>5. Append(p(i), e[i + 1]) = p(i + 1)
        BY <2>1, FcnAppend
    <2> DEFINE q == p(i)
               a == Li(n, q, <<>>)
               l == Line("bind", x)
    <2>6. InListen(Li(n, q, <<>>), Line("bind", x)) = Li(n, Append(q, ParseBindLine(x)), <<>>)
        <3> HIDE DEF q
        <3> QED
            BY HaListenLines
    <2>7. InListen(a, l) = Li(n, p(i + 1), <<>>)
        BY <2>3, <2>5, <2>6, Zenon
    <2>8. Directive(l)
        BY HaDirectives, Zenon
    <2>9. HaStep(Read("listen", F, B, Append(L, a)), l, Read("listen", F, B, Append(L, InListen(a, l))))
        <3> HIDE DEF a, l
        <3> QED
            BY <2>8, HaUpdates, Zenon
    <2> QED
        BY <2>2, <2>4, <2>7, <2>9, HaRound, Zenon DEF HaStep
<1>3. s = [i \in 1..Len(ts) |-> s[i]]
    BY Zenon
<1>4. g[0] = Read("listen", F, B, Append(L, Li(n, <<>>, <<>>)))
    <2>1. 0 \in 0..Len(ts)
        BY <1>1
    <2>2. g[0] = Read("listen", F, B, Append(L, Li(n, p(0), <<>>)))
        BY <2>1, Zenon
    <2>3. p(0) = <<>>
        <3> HIDE DEF e
        <3> QED
            BY FcnEmpty
    <2> QED
        BY <2>2, <2>3, Zenon
<1>5. g[Len(ts)] = Read("listen", F, B, Append(L, Li(n, e, <<>>)))
    <2>1. Len(ts) \in 0..Len(ts)
        BY <1>1
    <2>2. g[Len(ts)] = Read("listen", F, B, Append(L, Li(n, p(Len(ts)), <<>>)))
        BY <2>1, Zenon
    <2>3. p(Len(ts)) = e
        BY Zenon
    <2> QED
        BY <2>2, <2>3, Zenon
<1> HIDE DEF g, s, e
<1>6. Runs(HaLoop, g[0], s, g[Len(ts)])
    BY <1>1, <1>2, <1>3, RunsSteps
<1>7. [i \in DOMAIN ts |-> PortBind(ts[i])] = s
    BY <1>1, Zenon DEF s
<1> QED
    BY <1>4, <1>5, <1>6, <1>7, Zenon DEF e

LEMMA HaListenServers ==
    ASSUME NEW F, NEW B, NEW L, IsSeq(F), IsSeq(B), IsSeq(L), NEW n, NEW bs,
           NEW ts, IsSeq(ts)
    PROVE  Runs(HaLoop, Read("listen", F, B, Append(L, Li(n, bs, <<>>))),
                [i \in DOMAIN ts |-> BackendLine(ts[i])],
                Read("listen", F, B, Append(L, Li(n, bs, [i \in 1..Len(ts) |-> ParseServerLine(BackendLine(ts[i]).arg)]))))
<1> DEFINE e == [i \in 1..Len(ts) |-> ParseServerLine(BackendLine(ts[i]).arg)]
           s == [i \in 1..Len(ts) |-> BackendLine(ts[i])]
           p(i) == [j \in 1..i |-> e[j]]
           g == [i \in 0..Len(ts) |-> Read("listen", F, B, Append(L, Li(n, bs, p(i))))]
<1>1. Len(ts) \in Nat /\ DOMAIN ts = 1..Len(ts)
    BY SeqDomain
<1>2. ASSUME NEW i \in 0..(Len(ts) - 1) PROVE g[i + 1] = Loop(HaLoop, g[i], s[i + 1])
    <2>1. i \in Nat /\ i + 1 \in 1..Len(ts) /\ i \in 0..Len(ts) /\ i + 1 \in 0..Len(ts)
        BY <1>1
    <2> DEFINE x == BackendLine(ts[i + 1]).arg
    <2>2. s[i + 1] = Line("server", x)
        BY <2>1 DEF BackendLine, Line
    <2>3. e[i + 1] = ParseServerLine(x)
        BY <2>1, Zenon
    <2>4. g[i] = Read("listen", F, B, Append(L, Li(n, bs, p(i)))) /\ g[i + 1] = Read("listen", F, B, Append(L, Li(n, bs, p(i + 1))))
        BY <2>1, Zenon
    <2> HIDE DEF x, g, s, e
    <2>5. Append(p(i), e[i + 1]) = p(i + 1)
        BY <2>1, FcnAppend
    <2> DEFINE q == p(i)
               a == Li(n, bs, q)
               l == Line("server", x)
    <2>6. InListen(Li(n, bs, q), Line("server", x)) = Li(n, bs, Append(q, ParseServerLine(x)))
        <3> HIDE DEF q
        <3> QED
            BY HaListenLines
    <2>7. InListen(a, l) = Li(n, bs, p(i + 1))
        BY <2>3, <2>5, <2>6, Zenon
    <2>8. Directive(l)
        BY HaDirectives, Zenon
    <2>9. HaStep(Read("listen", F, B, Append(L, a)), l, Read("listen", F, B, Append(L, InListen(a, l))))
        <3> HIDE DEF a, l
        <3> QED
            BY <2>8, HaUpdates, Zenon
    <2> QED
        BY <2>2, <2>4, <2>7, <2>9, HaRound, Zenon DEF HaStep
<1>3. s = [i \in 1..Len(ts) |-> s[i]]
    BY Zenon
<1>4. g[0] = Read("listen", F, B, Append(L, Li(n, bs, <<>>)))
    <2>1. 0 \in 0..Len(ts)
        BY <1>1
    <2>2. g[0] = Read("listen", F, B, Append(L, Li(n, bs, p(0))))
        BY <2>1, Zenon
    <2>3. p(0) = <<>>
        <3> HIDE DEF e
        <3> QED
            BY FcnEmpty
    <2> QED
        BY <2>2, <2>3, Zenon
<1>5. g[Len(ts)] = Read("listen", F, B, Append(L, Li(n, bs, e)))
    <2>1. Len(ts) \in 0..Len(ts)
        BY <1>1
    <2>2. g[Len(ts)] = Read("listen", F, B, Append(L, Li(n, bs, p(Len(ts)))))
        BY <2>1, Zenon
    <2>3. p(Len(ts)) = e
        BY Zenon
    <2> QED
        BY <2>2, <2>3, Zenon
<1> HIDE DEF g, s, e
<1>6. Runs(HaLoop, g[0], s, g[Len(ts)])
    BY <1>1, <1>2, <1>3, RunsSteps
<1>7. [i \in DOMAIN ts |-> BackendLine(ts[i])] = s
    BY <1>1, Zenon DEF s
<1> QED
    BY <1>4, <1>5, <1>6, <1>7, Zenon DEF e

Binds(f) == [i \in 1..Len(f.ports) |-> ParseBindLine(PortBind(f.ports[i]).arg)]
Servers(ts) == [i \in 1..Len(ts) |-> ParseServerLine(BackendLine(ts[i]).arg)]
ForeignFe(f) == Fe(f.name, Binds(f), "http", FirstTokenLower(f.name), <<>>)
ForeignBe(f) == Be(f.name, "http", "leastconn", Servers(f.targets))
ForeignLi(f) == Li(f.name, Binds(f), Servers(f.targets))

LEMMA HaForeignListen ==
    ASSUME NEW cur, NEW F, NEW B, IsSeq(F), IsSeq(B), NEW f \in HaSection, f.listen
    PROVE  Runs(HaLoop, Read(cur, F, B, <<>>), ForeignLines(f),
                Read("listen", F, B, <<ForeignLi(f)>>))
<1> DEFINE n == f.name
           ps == f.ports
           ts == f.targets
           bl == [i \in DOMAIN ps |-> PortBind(ps[i])]
           sl == [i \in DOMAIN ts |-> BackendLine(ts[i])]
           bs == Binds(f)
           c(b, s) == Read("listen", F, B, Append(<<>>, Li(n, b, s)))
<1>0. IsSeq(<<>>) /\ IsSeq(ps) /\ IsSeq(ts)
    <2>1. ps \in Seq(Nat) /\ ts \in Seq(HaTarget)
        BY DEF HaSection
    <2> QED
        BY <2>1, SeqEmpty, Zenon DEF IsSeq
<1>1. Runs(HaLoop, Read(cur, F, B, <<>>), <<Line("listen", n)>>, c(<<>>, <<>>))
    <2> HIDE DEF n
    <2> QED
        BY HaOpens, HaRunsOne, Zenon
<1>2. Runs(HaLoop, c(<<>>, <<>>), bl, c(bs, <<>>))
    <2> HIDE DEF n
    <2> QED
        BY <1>0, HaListenBinds, Zenon DEF Binds
<1>3. Runs(HaLoop, c(bs, <<>>), <<Line("balance", "leastconn")>>, c(bs, <<>>))
    <2> DEFINE z == <<>>
               e == Li(n, bs, z)
               l == Line("balance", "leastconn")
    <2> HIDE DEF n, bs, z
    <2>1. InListen(e, l) = e
        BY HaListenLines
    <2>2. Directive(l)
        BY HaDirectives
    <2>3. HaStep(Read("listen", F, B, Append(z, e)), l, Read("listen", F, B, Append(z, InListen(e, l))))
        <3> HIDE DEF e, l
        <3>1. IsSeq(z)
            BY <1>0 DEF z
        <3> QED
            BY <2>2, <3>1, HaUpdates, Zenon
    <2> QED
        BY <2>1, <2>3, HaRunsOne, Zenon DEF z
<1>4. Runs(HaLoop, c(bs, <<>>), sl, c(bs, Servers(ts)))
    <2> HIDE DEF n, bs
    <2> QED
        BY <1>0, HaListenServers, Zenon DEF Servers
<1>5. ForeignLines(f) = ((<<Line("listen", n)>> \o bl) \o <<Line("balance", "leastconn")>>) \o sl
    BY Zenon DEF ForeignLines, PortBind
<1>6. c(bs, Servers(ts)) = Read("listen", F, B, <<ForeignLi(f)>>)
    <2> DEFINE x == Li(n, bs, Servers(ts))
    <2>1. x = ForeignLi(f)
        BY DEF ForeignLi
    <2> HIDE DEF x
    <2>2. Append(<<>>, x) = <<x>>
        OBVIOUS
    <2> QED
        BY <2>1, <2>2, Zenon DEF x
<1> DEFINE c0 == Read(cur, F, B, <<>>)
           c1 == c(<<>>, <<>>)
           c2 == c(bs, <<>>)
           c3 == c(bs, Servers(ts))
<1>7. Runs(HaLoop, c0, <<Line("listen", n)>>, c1) /\ Runs(HaLoop, c1, bl, c2)
    BY <1>1, <1>2, Zenon
<1>8. Runs(HaLoop, c2, <<Line("balance", "leastconn")>>, c2) /\ Runs(HaLoop, c2, sl, c3)
    BY <1>3, <1>4, Zenon
<1> HIDE DEF c0, c1, c2, c3, bl, sl
<1>9. Runs(HaLoop, c0, ((<<Line("listen", n)>> \o bl) \o <<Line("balance", "leastconn")>>) \o sl, c3)
    BY <1>7, <1>8, RunsConcat, Zenon
<1> QED
    BY <1>5, <1>6, <1>9, Zenon DEF c0, c3

LEMMA HaForeignFront ==
    ASSUME NEW cur, NEW F, NEW B, IsSeq(F), IsSeq(B), NEW f \in HaSection, ~f.listen
    PROVE  Runs(HaLoop, Read(cur, F, B, <<>>), ForeignLines(f),
                Read("backend", Append(F, ForeignFe(f)), Append(B, ForeignBe(f)), <<>>))
<1> DEFINE n == f.name
           ps == f.ports
           ts == f.targets
           bl == [i \in DOMAIN ps |-> PortBind(ps[i])]
           sl == [i \in DOMAIN ts |-> BackendLine(ts[i])]
           bs == Binds(f)
           lo == FirstTokenLower(n)
           G == Append(F, ForeignFe(f))
           c(b, d) == Read("frontend", Append(F, Fe(n, b, "http", d, <<>>)), B, <<>>)
           h(b, s) == Read("backend", G, Append(B, Be(n, "http", b, s)), <<>>)
           dl == Line("default_backend", n)
           al == Line("balance", "leastconn")
<1>0. IsSeq(<<>>) /\ IsSeq(ps) /\ IsSeq(ts)
    <2>1. ps \in Seq(Nat) /\ ts \in Seq(HaTarget)
        BY DEF HaSection
    <2> QED
        BY <2>1, SeqEmpty, Zenon DEF IsSeq
<1>1. Runs(HaLoop, Read(cur, F, B, <<>>), <<Line("frontend", n)>>, c(<<>>, NoName))
    <2> HIDE DEF n
    <2> QED
        BY HaOpens, HaRunsOne, Zenon
<1>2. Runs(HaLoop, c(<<>>, NoName), bl, c(bs, NoName))
    <2> HIDE DEF n
    <2> QED
        BY <1>0, HaFrontBinds, Zenon DEF Binds
<1>3. Runs(HaLoop, c(bs, NoName), <<dl>>, c(bs, lo))
    <2> DEFINE z == <<>>
               e == Fe(n, bs, "http", NoName, z)
               g == Fe(n, bs, "http", lo, z)
    <2>1. InFrontend(e, dl) = g
        <3> HIDE DEF n, bs, z
        <3>1. InFrontend(Fe(n, bs, "http", NoName, z), Line("default_backend", n))
                = Fe(n, bs, "http", FirstTokenLower(n), z)
            BY HaFrontendLines
        <3> QED
            BY <3>1, Zenon
    <2>2. Directive(dl)
        BY HaDirectives
    <2>3. HaStep(Read("frontend", Append(F, e), B, <<>>), dl, Read("frontend", Append(F, InFrontend(e, dl)), B, <<>>))
        <3> HIDE DEF e, dl
        <3> QED
            BY <1>0, <2>2, HaUpdates, Zenon
    <2> QED
        BY <2>1, <2>3, HaRunsOne, Zenon
<1>4. c(bs, lo) = Read("frontend", G, B, <<>>) /\ IsSeq(G)
    <2>1. IsSeq(G)
        BY SeqAppend
    <2> QED
        BY <2>1, Zenon DEF ForeignFe
<1> HIDE DEF G
<1>5. Runs(HaLoop, c(bs, lo), <<Line("backend", n)>>, h("roundrobin", <<>>))
    <2>1. Runs(HaLoop, Read("frontend", G, B, <<>>), <<Line("backend", n)>>, h("roundrobin", <<>>))
        <3> HIDE DEF n
        <3> QED
            BY HaOpens, HaRunsOne, Zenon
    <2> QED
        BY <1>4, <2>1, Zenon
<1>6. Runs(HaLoop, h("roundrobin", <<>>), <<al>>, h("leastconn", <<>>))
    <2> DEFINE z == <<>>
               e == Be(n, "http", "roundrobin", z)
               g == Be(n, "http", "leastconn", z)
    <2>1. InBackend(e, al) = g
        <3> HIDE DEF n, z
        <3> QED
            BY HaBackendLines
    <2>2. Directive(al)
        BY HaDirectives
    <2>3. HaStep(Read("backend", G, Append(B, e), <<>>), al, Read("backend", G, Append(B, InBackend(e, al)), <<>>))
        <3> HIDE DEF e, al
        <3> QED
            BY <1>0, <1>4, <2>2, HaUpdates, Zenon
    <2> QED
        BY <2>1, <2>3, HaRunsOne, Zenon
<1>7. Runs(HaLoop, h("leastconn", <<>>), sl, h("leastconn", Servers(ts)))
    <2> HIDE DEF n
    <2> QED
        BY <1>0, <1>4, HaServersRead, Zenon DEF Servers
<1>8. ForeignLines(f) = ((((<<Line("frontend", n)>> \o bl) \o <<dl, Line("backend", n), al>>)) \o sl)
    BY Zenon DEF ForeignLines, PortBind
<1>9. h("leastconn", Servers(ts)) = Read("backend", G, Append(B, ForeignBe(f)), <<>>)
    BY Zenon DEF ForeignBe
<1> DEFINE c0 == Read(cur, F, B, <<>>)
           c1 == c(<<>>, NoName)
           c2 == c(bs, NoName)
           c3 == c(bs, lo)
           c4 == h("roundrobin", <<>>)
           c5 == h("leastconn", <<>>)
           c6 == h("leastconn", Servers(ts))
           mid == Line("backend", n)
<1>10. /\ Runs(HaLoop, c0, <<Line("frontend", n)>>, c1) /\ Runs(HaLoop, c1, bl, c2)
       /\ Runs(HaLoop, c2, <<dl>>, c3)
    BY <1>1, <1>2, <1>3, Zenon
<1>11. /\ Runs(HaLoop, c3, <<mid>>, c4) /\ Runs(HaLoop, c4, <<al>>, c5)
       /\ Runs(HaLoop, c5, sl, c6)
    BY <1>5, <1>6, <1>7, Zenon
<1> HIDE DEF c0, c1, c2, c3, c4, c5, c6, bl, sl, dl, al, mid
<1>12. Runs(HaLoop, c2, (<<dl>> \o <<mid>>) \o <<al>>, c5)
    BY <1>10, <1>11, RunsConcat, Zenon
<1>13. (<<dl>> \o <<mid>>) \o <<al>> = <<dl, mid, al>>
    BY SeqThree
<1>14. Runs(HaLoop, c2, <<dl, mid, al>>, c5)
    BY <1>12, <1>13, Zenon
<1>15. Runs(HaLoop, c0, ((<<Line("frontend", n)>> \o bl) \o <<dl, mid, al>>) \o sl, c6)
    BY <1>10, <1>11, <1>14, RunsConcat, Zenon
<1> QED
    BY <1>8, <1>9, <1>15, Zenon DEF c0, c6, mid, G

\* What the parser finds in the file the panel wrote and the section after it.
FileRead(c, ms, f) ==
    \E F, L, G, own, cur, B :
        /\ c = Read(cur, G, B, L) /\ Fronts(F, ms, Len(ms)) /\ Known(B, own)
        /\ IF f.listen THEN G = F /\ L = <<ForeignLi(f)>> /\ own = Owns(ms, Len(ms))
           ELSE /\ G = Append(F, ForeignFe(f)) /\ L = <<>>
                /\ own = Owns(ms, Len(ms)) \cup {ForeignBe(f)}

LEMMA HaFileRead ==
    ASSUME NEW ms, IsSeq(ms), \A i \in 1..Len(ms) : ms[i] \in HaMapping, NEW f \in HaSection
    PROVE  FileRead(ParseHAProxyConfig(RenderHAProxy(ms) \o ForeignLines(f)), ms, f)
<1> DEFINE r == RenderHAProxy(ms)
           fl == ForeignLines(f)
           c == Folded(HaLoop, EmptyCfg, r)
           d == Folded(HaLoop, EmptyCfg, r \o fl)
<1>1. IsSeq(r) /\ MappingsRead(c, ms, Len(ms))
    BY HaWrittenRead, Zenon
<1>2. Runs(HaLoop, EmptyCfg, r, c)
    BY <1>1, Zenon DEF Runs
<1>3. PICK F, cur, B : Fronts(F, ms, Len(ms)) /\ c = Read(cur, F, B, <<>>) /\ Known(B, Owns(ms, Len(ms)))
    BY <1>1, Zenon DEF MappingsRead, At
<1>4. IsSeq(F) /\ IsSeq(B)
    BY <1>3, Zenon DEF Fronts, Known
<1>5. ASSUME NEW g, Runs(HaLoop, c, fl, g)
      PROVE  ParseHAProxyConfig(r \o fl) = g
    <2> HIDE DEF c, fl, r
    <2>1. Runs(HaLoop, EmptyCfg, r \o fl, g)
        BY <1>2, <1>5, RunsConcat, Zenon
    <2>2. ParseLines(EmptyCfg, r \o fl) = Folded(HaLoop, EmptyCfg, r \o fl)
        BY <2>1, ParseLinesFold DEF Runs, HaLoop
    <2> QED
        BY <2>1, <2>2, Zenon DEF ParseHAProxyConfig, Runs
<1> HIDE DEF c, d, r
<1>6. CASE f.listen
    <2> DEFINE g == Read("listen", F, B, <<ForeignLi(f)>>)
    <2>1. Runs(HaLoop, c, fl, g)
        BY <1>3, <1>4, <1>6, HaForeignListen, Zenon
    <2>2. ParseHAProxyConfig(r \o fl) = g
        BY <1>5, <2>1, Zenon
    <2>3. FileRead(g, ms, f)
        BY <1>3, <1>6, Zenon DEF FileRead
    <2> QED
        BY <2>2, <2>3, Zenon DEF r
<1>7. CASE ~f.listen
    <2> DEFINE g == Read("backend", Append(F, ForeignFe(f)), Append(B, ForeignBe(f)), <<>>)
    <2>1. Runs(HaLoop, c, fl, g)
        BY <1>3, <1>4, <1>7, HaForeignFront, Zenon
    <2>2. ParseHAProxyConfig(r \o fl) = g
        BY <1>5, <2>1, Zenon
    <2>3. Known(Append(B, ForeignBe(f)), Owns(ms, Len(ms)) \cup {ForeignBe(f)})
        <3> DEFINE x == ForeignBe(f)
                   o == Owns(ms, Len(ms))
        <3> HIDE DEF x, o
        <3>1. Known(Append(B, x), o \cup {x})
            BY <1>3, KnownAppend DEF o
        <3> QED
            BY <3>1, Zenon DEF x, o
    <2>4. FileRead(g, ms, f)
        BY <1>3, <1>7, <2>3, Zenon DEF FileRead
    <2> QED
        BY <2>2, <2>4, Zenon DEF r
<1> QED
    BY <1>6, <1>7

---------------------------------------------------------------------------
(* haproxy: from the sections to the candidates.                           *)

\* Among finitely many names a candidate finds a free one.
LEMMA UniqueName ==
    ASSUME NEW base, NEW names, IsFiniteSet(names)
    PROVE  UniqueMappingName(base, names) \notin names
<1> DEFINE k == Cardinality(names) + 1
           T == {i \in 1..k : <<base, i>> \notin names}
           P(i) == /\ <<base, i>> \notin names
                   /\ \A j \in 1..(i - 1) : <<base, j>> \in names
<1>1. Cardinality(names) \in Nat
    BY FS_CardinalityType
<1>2. T # {}
    <2>1. SUFFICES ASSUME T = {} PROVE FALSE
        OBVIOUS
    <2> DEFINE f == [i \in 1..k |-> <<base, i>>]
    <2>2. \A i \in 1..k : f[i] \in names
        BY <2>1
    <2>3. f \in [1..k -> names]
        BY <2>2
    <2>4. ASSUME NEW i \in 1..k, NEW j \in 1..k, f[i] = f[j] PROVE i = j
        BY <2>4
    <2>5. f \in Injection(1..k, names)
        <3> HIDE DEF f
        <3>1. DOMAIN f = 1..k
            BY <2>3
        <3> QED
            BY <2>3, <2>4, <3>1 DEF Injection, IsInjective
    <2> HIDE DEF f
    <2>6. Cardinality(1..k) <= Cardinality(names)
        BY <2>5, FS_Injection
    <2>7. Cardinality(1..k) = k
        BY <1>1, FS_Interval
    <2> QED
        BY <1>1, <2>6, <2>7
<1>3. PICK i \in T : \A j \in T : i <= j
    <2>1. T \subseteq Nat
        BY <1>1
    <2> HIDE DEF T
    <2> QED
        BY <1>2, <2>1, Least
<1>4. i \in 1..k /\ P(i)
    <2>1. \A j \in 1..(i - 1) : <<base, j>> \in names
        <3> SUFFICES ASSUME NEW j \in 1..(i - 1), <<base, j>> \notin names PROVE FALSE
            OBVIOUS
        <3>1. j \in 1..k /\ ~(i <= j)
            BY <1>1, <1>3
        <3> QED
            BY <1>3, <3>1
    <2> QED
        BY <1>3, <2>1
<1> DEFINE c == CHOOSE j \in 1..k : P(j)
<1>5. P(c)
    <2> HIDE DEF P
    <2> QED
        BY <1>4, Zenon
<1>6. UniqueMappingName(base, names) = <<base, c>>
    BY Zenon DEF UniqueMappingName
<1> QED
    BY <1>5, <1>6, Zenon

\* What the conversion has made of n sections: a candidate for each of w, under
\* names of their own, and a report for each of the others.
NamesOf(out) == {out[i].name : i \in 1..Len(out)}
Offers(acc, w, n, names) ==
    /\ \E is : acc = [out |-> acc.out, issues |-> is, names |-> names \cup NamesOf(acc.out)]
    /\ IsSeq(acc.out) /\ IsSeq(acc.issues) /\ IsSeq(w)
    /\ Len(acc.out) = Len(w) /\ Len(acc.out) + Len(acc.issues) = n
    /\ \A i \in 1..Len(w) : Agrees(acc.out[i], w[i])
    /\ IsFiniteSet(NamesOf(acc.out)) /\ Cardinality(NamesOf(acc.out)) = Len(acc.out)
    /\ NamesOf(acc.out) \cap names = {}

Acc(out, is, names) == [out |-> out, issues |-> is, names |-> names]

Updated(a, r, Q, b) == [a EXCEPT !.out = r, !.names = Q] = b

LEMMA AccUpdate ==
    ASSUME NEW o, NEW is, NEW M, NEW r, NEW Q
    PROVE  Updated(Acc(o, is, M), r, Q, Acc(r, is, Q))
<1> DEFINE a == Acc(o, is, M)
<1>1. [a EXCEPT !.out = r] = Acc(r, is, M)
    BY DEF Acc
<1>2. [Acc(r, is, M) EXCEPT !.names = Q] = Acc(r, is, Q)
    BY DEF Acc
<1> HIDE DEF a
<1>3. [a EXCEPT !.out = r, !.names = Q] = [[a EXCEPT !.out = r] EXCEPT !.names = Q]
    OBVIOUS
<1> QED
    BY <1>1, <1>2, <1>3, Zenon DEF a, Updated

LEMMA OffersNone ==
    ASSUME NEW names
    PROVE  Offers(Acc(<<>>, <<>>, names), <<>>, 0, names)
<1>1. NamesOf(<<>>) = {}
    <2>1. 1..Len(<<>>) = {}
        BY SeqEmpty
    <2> QED
        BY <2>1 DEF NamesOf
<1> DEFINE a == Acc(<<>>, <<>>, names)
<1>2. a.out = <<>> /\ a.issues = <<>> /\ a = [out |-> a.out, issues |-> <<>>, names |-> names]
    BY DEF Acc
<1>3. IsFiniteSet({}) /\ Cardinality({}) = 0 /\ names \cup {} = names /\ {} \cap names = {}
    BY FS_EmptySet
<1>4. IsSeq(<<>>) /\ Len(<<>>) = 0 /\ \A i \in 1..0 : FALSE
    BY SeqEmpty
<1> HIDE DEF a
<1>5. \E is : a = [out |-> a.out, issues |-> is, names |-> names \cup NamesOf(a.out)]
    BY <1>1, <1>2, <1>3, Zenon
<1>6. Offers(a, <<>>, 0, names)
    BY <1>1, <1>2, <1>3, <1>4, <1>5 DEF Offers
<1> QED
    BY <1>6, Zenon DEF a

LEMMA ReportKeeps ==
    ASSUME NEW acc, NEW w, NEW n \in Nat, NEW names, Offers(acc, w, n, names), NEW x
    PROVE  Offers(Report(acc, x), w, n + 1, names)
<1> DEFINE N == NamesOf(acc.out)
           b == Report(acc, x)
<1>1. PICK is : acc = [out |-> acc.out, issues |-> is, names |-> names \cup N]
    BY Zenon DEF Offers
<1> DEFINE o == acc.out
<1> HIDE DEF o, N
<1>2. acc = [out |-> o, issues |-> is, names |-> names \cup N] /\ N = NamesOf(o)
    BY <1>1, Zenon DEF o, N
<1>3. /\ IsSeq(o) /\ IsSeq(acc.issues) /\ IsSeq(w) /\ Len(o) = Len(w) /\ Len(o) + Len(acc.issues) = n
      /\ \A i \in 1..Len(w) : Agrees(o[i], w[i])
      /\ IsFiniteSet(N) /\ Cardinality(N) = Len(o) /\ N \cap names = {}
    BY <1>2, Zenon DEF Offers, o
<1>4. acc.issues = is
    BY <1>2
<1> DEFINE q == Append(is, x)
<1>5. IsSeq(q) /\ Len(q) = Len(is) + 1 /\ Len(is) \in Nat /\ Len(o) \in Nat
    BY <1>3, <1>4, SeqAppend, SeqDomain
<1> HIDE DEF q
<1>6. b = [out |-> o, issues |-> q, names |-> names \cup N]
    <2> DEFINE M == names \cup N
    <2>1. acc = [out |-> o, issues |-> is, names |-> M]
        BY <1>2
    <2>2. Report(acc, x) = [acc EXCEPT !.issues = q]
        BY <1>4, Zenon DEF Report, q
    <2> HIDE DEF M
    <2>3. [acc EXCEPT !.issues = q] = [out |-> o, issues |-> q, names |-> M]
        BY <2>1
    <2> QED
        BY <2>2, <2>3, Zenon DEF M
<1> HIDE DEF b
<1>7. b.out = o /\ b.issues = q
    BY <1>6
<1>8. \E iss : b = [out |-> b.out, issues |-> iss, names |-> names \cup NamesOf(b.out)]
    BY <1>2, <1>6, <1>7, Zenon
<1>9. Len(o) + Len(q) = n + 1
    BY <1>3, <1>4, <1>5
<1>10. Offers(b, w, n + 1, names)
    BY <1>2, <1>3, <1>5, <1>7, <1>8, <1>9, Zenon DEF Offers
<1> QED
    BY <1>10, Zenon DEF b

\* A candidate without its name.
Cand(ip, port, pr, bl, ts) ==
    [name |-> NoName, ip |-> ip, port |-> port, proto |-> pr, balance |-> bl, targets |-> ts]

LEMMA OfferKeeps ==
    ASSUME NEW acc, NEW w, NEW n \in Nat, NEW names, IsFiniteSet(names), Offers(acc, w, n, names),
           NEW base, NEW ip, NEW port, NEW pr, NEW bl, NEW ts, NEW e,
           Agrees(Cand(ip, port, pr, bl, ts), e)
    PROVE  Offers(Offer(acc, base, Cand(ip, port, pr, bl, ts)), Append(w, e), n + 1, names)
<1> DEFINE N == NamesOf(acc.out)
           m == Cand(ip, port, pr, bl, ts)
           b == Offer(acc, base, m)
           u == UniqueMappingName(base, names \cup N)
           v == [m EXCEPT !.name = u]
<1>1. PICK is : acc = [out |-> acc.out, issues |-> is, names |-> names \cup N]
    BY Zenon DEF Offers
<1> DEFINE o == acc.out
<1> HIDE DEF o, N, u
<1>2. acc = [out |-> o, issues |-> is, names |-> names \cup N] /\ N = NamesOf(o)
    BY <1>1, Zenon DEF o, N
<1>3. /\ IsSeq(o) /\ IsSeq(acc.issues) /\ IsSeq(w) /\ Len(o) = Len(w) /\ Len(o) + Len(acc.issues) = n
      /\ \A i \in 1..Len(w) : Agrees(o[i], w[i])
      /\ IsFiniteSet(N) /\ Cardinality(N) = Len(o) /\ N \cap names = {}
    BY <1>2, Zenon DEF Offers, o
<1>4. acc.issues = is /\ acc.names = names \cup N
    BY <1>2
<1>5. u \notin names \cup N
    <2>1. IsFiniteSet(names \cup N)
        BY <1>3, FS_Union
    <2> QED
        BY <2>1, UniqueName DEF u
<1>6. v.name = u /\ Agrees(v, e)
    <2> DEFINE c == Cand(ip, port, pr, bl, ts)
    <2>1. /\ v.name = u /\ v.ip = c.ip /\ v.port = c.port /\ v.proto = c.proto
          /\ v.balance = c.balance /\ v.targets = c.targets
        BY DEF Cand
    <2> HIDE DEF c, v
    <2>2. Agrees(c, e)
        BY DEF c
    <2> QED
        BY <2>1, <2>2, Zenon DEF Agrees
<1> DEFINE p == Append(o, v)
           y == Append(w, e)
<1>7. b = [out |-> p, issues |-> is, names |-> (names \cup N) \cup {u}]
    <2> HIDE DEF m
    <2> DEFINE vv == v
    <2>1. Offer(acc, base, m) = [acc EXCEPT !.out = Append(@, vv), !.names = @ \cup {u}]
        BY <1>4, Zenon DEF Offer, u
    <2> HIDE DEF vv
    <2>2. [acc EXCEPT !.out = Append(@, vv), !.names = @ \cup {u}]
            = [out |-> Append(o, vv), issues |-> is, names |-> (names \cup N) \cup {u}]
        <3> DEFINE M == names \cup N
                   Q == M \cup {u}
                   r == Append(o, vv)
        <3>1. acc = [out |-> o, issues |-> is, names |-> M]
            BY <1>2
        <3>2. acc.out = o /\ acc.names = M
            BY <3>1
        <3>3. [acc EXCEPT !.out = Append(@, vv), !.names = @ \cup {u}] = [acc EXCEPT !.out = r, !.names = Q]
            BY <3>2, Zenon
        <3> HIDE DEF M, Q, r
        <3>4. [acc EXCEPT !.out = r, !.names = Q] = [out |-> r, issues |-> is, names |-> Q]
            <4>1. Updated(Acc(o, is, M), r, Q, Acc(r, is, Q))
                BY AccUpdate, Zenon
            <4>2. acc = Acc(o, is, M)
                BY <3>1, Zenon DEF Acc
            <4> QED
                BY <4>1, <4>2, Zenon DEF Acc, Updated
        <3> QED
            BY <3>3, <3>4, Zenon DEF M, Q, r
    <2> QED
        BY <2>1, <2>2, Zenon DEF vv
<1> HIDE DEF v
<1>8. /\ IsSeq(p) /\ Len(p) = Len(o) + 1 /\ (\A i \in 1..Len(o) : p[i] = o[i]) /\ p[Len(o) + 1] = v
      /\ Len(o) \in Nat /\ Len(is) \in Nat
    <2>1. IsSeq(o) /\ IsSeq(is)
        BY <1>3, <1>4
    <2>2. Len(o) \in Nat /\ Len(is) \in Nat
        BY ONLY <2>1, SeqDomain
    <2>3. /\ IsSeq(p) /\ Len(p) = Len(o) + 1 /\ (\A i \in 1..Len(o) : p[i] = o[i])
          /\ p[Len(o) + 1] = v
        BY ONLY <2>1, SeqAppend
    <2> QED
        BY <2>2, <2>3
<1>9. /\ IsSeq(y) /\ Len(y) = Len(w) + 1 /\ (\A i \in 1..Len(w) : y[i] = w[i]) /\ y[Len(w) + 1] = e
    <2>1. IsSeq(w)
        BY <1>3
    <2> QED
        BY ONLY <2>1, SeqAppend
<1> HIDE DEF p, y, b
<1>10. b.out = p /\ b.issues = is
    BY <1>7
<1>11. NamesOf(p) = N \cup {u}
    <2>1. \A i \in 1..Len(p) : i \in 1..Len(o) \/ i = Len(o) + 1
        BY <1>8
    <2>2. \A i \in 1..Len(o) : i \in 1..Len(p)
        BY <1>8
    <2>3. Len(o) + 1 \in 1..Len(p)
        BY <1>8
    <2>4. ASSUME NEW z PROVE z \in NamesOf(p) <=> z \in N \/ z = u
        <3>1. ASSUME z \in NamesOf(p) PROVE z \in N \/ z = u
            <4>1. PICK i \in 1..Len(p) : z = p[i].name
                BY <3>1 DEF NamesOf
            <4>2. CASE i \in 1..Len(o)
                BY <1>2, <1>8, <4>1, <4>2 DEF NamesOf
            <4>3. CASE i = Len(o) + 1
                BY <1>6, <1>8, <4>1, <4>3
            <4> QED
                BY <2>1, <4>2, <4>3
        <3>2. ASSUME z \in N PROVE z \in NamesOf(p)
            <4>1. PICK i \in 1..Len(o) : z = o[i].name
                BY <1>2, <3>2 DEF NamesOf
            <4>2. i \in 1..Len(p) /\ z = p[i].name
                BY <1>8, <2>2, <4>1
            <4> QED
                BY <4>2 DEF NamesOf
        <3>3. u \in NamesOf(p)
            BY <1>6, <1>8, <2>3 DEF NamesOf
        <3> QED
            BY <3>1, <3>2, <3>3
    <2> QED
        BY <2>4
<1>12. IsFiniteSet(NamesOf(p)) /\ Cardinality(NamesOf(p)) = Len(p) /\ NamesOf(p) \cap names = {}
    <2>1. IsFiniteSet(N \cup {u}) /\ Cardinality(N \cup {u}) = Cardinality(N) + 1
        BY <1>3, <1>5, FS_AddElement
    <2>2. (N \cup {u}) \cap names = {}
        BY <1>3, <1>5
    <2> QED
        BY <1>3, <1>8, <1>11, <2>1, <2>2
<1>13. \A i \in 1..Len(y) : Agrees(p[i], y[i])
    <2> SUFFICES ASSUME NEW i \in 1..Len(y) PROVE Agrees(p[i], y[i])
        OBVIOUS
    <2>1. CASE i = Len(w) + 1
        BY <1>3, <1>6, <1>8, <1>9, <2>1
    <2>2. CASE i \in 1..Len(w)
        BY <1>3, <1>8, <1>9, <2>2
    <2>3. i \in 1..Len(w) \/ i = Len(w) + 1
        BY <1>3, <1>8, <1>9
    <2> QED
        BY <2>1, <2>2, <2>3
<1>14. \E iss : b = [out |-> b.out, issues |-> iss, names |-> names \cup NamesOf(b.out)]
    <2>1. (names \cup N) \cup {u} = names \cup NamesOf(p)
        BY <1>11
    <2> QED
        BY <1>7, <1>10, <2>1, Zenon
<1>15. IsSeq(is) /\ Len(p) = Len(y) /\ Len(p) + Len(is) = n + 1
    BY <1>3, <1>4, <1>8, <1>9
<1>16. Offers(b, y, n + 1, names)
    BY <1>8, <1>9, <1>10, <1>12, <1>13, <1>14, <1>15, Zenon DEF Offers
<1> QED
    BY <1>16, Zenon DEF b, y

---------------------------------------------------------------------------
(* haproxy: what a section of the file becomes.                           *)

\* Looking up a backend by name.
LEMMA FindIs ==
    ASSUME NEW cfg, IsSeq(cfg.bes), NEW n, NEW x, Has(cfg.bes, x), x.name = n,
           \A p \in 1..Len(cfg.bes) : cfg.bes[p].name = n => cfg.bes[p] = x
    PROVE  FindBackend(cfg, n) = x
<1> DEFINE B == cfg.bes
           is == {i \in DOMAIN B : B[i].name = n}
<1>1. Len(B) \in Nat /\ DOMAIN B = 1..Len(B)
    BY SeqDomain
<1>2. PICK k \in 1..Len(B) : B[k] = x
    BY DEF Has
<1>3. is \subseteq Nat /\ k \in is
    BY <1>1, <1>2
<1>4. FindBackend(cfg, n) = IF is = {} THEN [name |-> NoName, mode |-> "", balance |-> "", servers |-> <<>>]
                            ELSE B[First(is)]
    BY Zenon DEF FindBackend, First
<1>5. First(is) \in is
    <2> HIDE DEF is
    <2> QED
        BY <1>3, FirstIn
<1>6. B[First(is)] = x
    BY <1>1, <1>5
<1> HIDE DEF is
<1> QED
    BY <1>3, <1>4, <1>6

LEMMA FindNone ==
    ASSUME NEW cfg, IsSeq(cfg.bes), NEW n, \A p \in 1..Len(cfg.bes) : cfg.bes[p].name # n
    PROVE  FindBackend(cfg, n).servers = <<>>
<1> DEFINE B == cfg.bes
           is == {i \in DOMAIN B : B[i].name = n}
           e == [name |-> NoName, mode |-> "", balance |-> "", servers |-> <<>>]
<1>1. is = {}
    BY SeqDomain
<1>2. FindBackend(cfg, n) = IF is = {} THEN e ELSE B[First(is)]
    BY Zenon DEF FindBackend, First
<1>3. e.servers = <<>>
    OBVIOUS
<1> HIDE DEF is, e
<1> QED
    BY <1>1, <1>2, <1>3

\* Names of backends.
LEMMA OwnName ==
    ASSUME NEW m, NEW id
    PROVE  OwnBe(m, id).name = BeName(id)
BY DEF OwnBe, BeOf, Be

LEMMA BeNamesDiffer ==
    ASSUME NEW i, NEW j, BeName(i) = BeName(j)
    PROVE  i = j
<1>1. <<"be", i>> = <<"be", j>>
    BY Zenon DEF BeName
<1>2. <<"be", i>>[2] = i /\ <<"be", j>>[2] = j
    OBVIOUS
<1> QED
    BY <1>1, <1>2, Zenon

\* The backend of a mapping is found under its name.
FoundOwn(cfg, ms, i) == FindBackend(cfg, BeName(i)) = OwnBe(ms[i], i)

LEMMA OwnFound ==
    ASSUME NEW cfg, NEW own, Known(cfg.bes, own), NEW ms, NEW n, NEW f, Len(f.name) = 1,
           own \in {Owns(ms, n), Owns(ms, n) \cup {ForeignBe(f)}}, NEW i \in 1..n
    PROVE  FoundOwn(cfg, ms, i)
<1> DEFINE B == cfg.bes
           x == OwnBe(ms[i], i)
           w == BeName(i)
<1>1. IsSeq(B) /\ (\A y \in own : Has(B, y)) /\ \A p \in 1..Len(B) : Len(B[p].name) = 3 \/ B[p] \in own
    BY Zenon DEF Known
<1>2. x \in own
    <2>1. x \in Owns(ms, n)
        BY DEF Owns
    <2> QED
        BY <2>1
<1>3. ForeignBe(f).name = f.name /\ Len(w) = 2
    <2>1. ForeignBe(f).name = f.name
        BY DEF ForeignBe, Be
    <2> QED
        BY <2>1, BeNameLen
<1>4. ASSUME NEW p \in 1..Len(B), B[p].name = w PROVE B[p] = x
    <2>1. B[p] \in own
        <3>1. Len(B[p].name) = 3 \/ B[p] \in own
            BY <1>1
        <3>2. Len(B[p].name) = 2
            BY <1>3, <1>4, Zenon
        <3> QED
            BY ONLY <3>1, <3>2
    <2>2. B[p] # ForeignBe(f)
        BY <1>3, <1>4
    <2>3. B[p] \in Owns(ms, n)
        BY <2>1, <2>2
    <2>4. PICK j \in 1..n : B[p] = OwnBe(ms[j], j)
        BY <2>3 DEF Owns
    <2>5. BeName(j) = BeName(i)
        BY <1>4, <2>4, OwnName
    <2>6. j = i
        BY <2>5, BeNamesDiffer
    <2> QED
        BY <2>4, <2>6
<1>5. x.name = w
    BY OwnName
<1> HIDE DEF x, w
<1>6. FindBackend(cfg, w) = x
    BY <1>1, <1>2, <1>4, <1>5, FindIs
<1> QED
    BY <1>6 DEF x, w, FoundOwn

\* Somebody else's backend is found under its name, and only under it.
LEMMA ForeignFound ==
    ASSUME NEW cfg, NEW ms, NEW n, NEW f, Len(f.name) = 1,
           Known(cfg.bes, Owns(ms, n) \cup {ForeignBe(f)})
    PROVE  /\ FindBackend(cfg, f.name) = ForeignBe(f)
           /\ \A w : Len(w) = 1 /\ w # f.name => FindBackend(cfg, w).servers = <<>>
<1> DEFINE B == cfg.bes
           x == ForeignBe(f)
           own == Owns(ms, n) \cup {x}
<1>1. IsSeq(B) /\ (\A y \in own : Has(B, y)) /\ \A p \in 1..Len(B) : Len(B[p].name) = 3 \/ B[p] \in own
    BY Zenon DEF Known
<1>2. x.name = f.name /\ x \in own
    BY DEF ForeignBe, Be
<1>3. ASSUME NEW p \in 1..Len(B), Len(B[p].name) = 1 PROVE B[p] = x
    <2>1. B[p] \in own
        <3>1. Len(B[p].name) = 3 \/ B[p] \in own
            BY <1>1
        <3>2. Len(B[p].name) = 1
            BY <1>3
        <3> QED
            BY ONLY <3>1, <3>2
    <2>2. SUFFICES ASSUME B[p] \in Owns(ms, n) PROVE FALSE
        BY <2>1
    <2>3. PICK j \in 1..n : B[p] = OwnBe(ms[j], j)
        BY <2>2 DEF Owns
    <2>4. Len(B[p].name) = 2
        BY <2>3, OwnName, BeNameLen
    <2>5. Len(B[p].name) = 1
        BY <1>3
    <2> QED
        BY ONLY <2>4, <2>5
<1>4. Has(B, x)
    BY <1>1, <1>2
<1> HIDE DEF x, own
<1>5. FindBackend(cfg, f.name) = x
    BY <1>1, <1>2, <1>3, <1>4, FindIs
<1>6. ASSUME NEW w, Len(w) = 1, w # f.name PROVE FindBackend(cfg, w).servers = <<>>
    <2>1. \A p \in 1..Len(B) : B[p].name # w
        BY <1>2, <1>3, <1>6
    <2> QED
        BY <1>1, <2>1, FindNone
<1> QED
    BY <1>5, <1>6 DEF x

---------------------------------------------------------------------------
(* haproxy: a server line is read back as the target it was written from.  *)

LEMMA FrontOfAppend ==
    ASSUME NEW s, IsSeq(s), NEW x
    PROVE  /\ Front(Append(s, x)) = s /\ Last(Append(s, x)) = x
           /\ Len(Append(s, x)) = Len(s) + 1
<1> DEFINE a == Append(s, x)
<1>1. /\ IsSeq(a) /\ Len(a) = Len(s) + 1 /\ \A i \in 1..Len(s) : a[i] = s[i]
      /\ a[Len(s) + 1] = x
    BY SeqAppend
<1>2. Len(s) \in Nat
    BY SeqDomain
<1> HIDE DEF a
<1> DEFINE n == Len(s)
           b == SubSeq(a, 1, n)
<1>3. IsSeq(b) /\ Len(b) = n /\ \A i \in 1..n : b[i] = a[i]
    <2>1. 1 \in Nat /\ n \in Nat /\ 1 <= 1 /\ n <= Len(a) /\ 1 <= n + 1 /\ n + 1 - 1 = n
        BY <1>1, <1>2
    <2>2. IsSeq(b) /\ Len(b) = n + 1 - 1 /\ \A i \in 1..(n + 1 - 1) : b[i] = a[1 + i - 1]
        BY <1>1, <2>1, SubSeqIs
    <2>3. \A i \in 1..n : 1 + i - 1 = i
        BY <1>2
    <2> QED
        BY <2>1, <2>2, <2>3
<1>4. Front(a) = b
    <2>1. Len(a) - 1 = n
        BY <1>1, <1>2
    <2> QED
        BY <2>1, Zenon DEF Front
<1>5. Last(a) = x
    BY <1>1, Zenon DEF Last
<1> HIDE DEF b
<1>6. b = s
    BY <1>1, <1>3, SameSeq
<1> QED
    BY <1>1, <1>4, <1>5, <1>6 DEF a

LEMMA ServerOptions ==
    ASSUME NEW t \in HaTarget
    PROVE  LET o == BackendLine(t).arg.opts
               ws == {i \in DOMAIN o : o[i][1] = "weight"}
           IN  /\ (IF ws = {} THEN 0 ELSE o[Max(ws)][2]) = IF t.weight > 1 THEN t.weight ELSE 0
               /\ (\E i \in DOMAIN o : o[i][1] = "backup") <=> t.backup
<1> DEFINE W == <<"weight", t.weight>>
           K == <<"backup">>
           C == <<"check">>
           a == IF t.weight > 1 THEN <<W>> ELSE <<>>
           b == IF t.backup THEN <<K>> ELSE <<>>
           o == BackendLine(t).arg.opts
           ws == {i \in DOMAIN o : o[i][1] = "weight"}
           P == /\ (IF ws = {} THEN 0 ELSE o[Max(ws)][2]) = IF t.weight > 1 THEN t.weight ELSE 0
                /\ (\E i \in DOMAIN o : o[i][1] = "backup") <=> t.backup
<1>0. t.weight \in Nat /\ t.backup \in BOOLEAN
    BY DEF HaTarget
<1>1. o = (a \o b) \o <<C>>
    <2> DEFINE v == (a \o b) \o <<C>>
    <2>1. BackendLine(t) = Line("server", [addr |-> Append(t.host, t.port), opts |-> v])
        BY Zenon DEF BackendLine
    <2> HIDE DEF v
    <2>2. BackendLine(t).arg.opts = v
        BY <2>1 DEF Line
    <2> QED
        BY <2>2, Zenon DEF v
<1>2. W[1] = "weight" /\ W[2] = t.weight /\ K[1] = "backup" /\ C[1] = "check"
    OBVIOUS
<1> HIDE DEF W, K, C
<1>3. ASSUME t.weight > 1 /\ t.backup PROVE P
    <2>1. a \o b = <<W, K>> /\ (<<W>> \o <<K>>) \o <<C>> = <<W, K, C>>
        BY <1>3, SeqTwo, SeqThree
    <2>2. o = <<W, K, C>>
        BY <1>1, <1>3, <2>1, Zenon
    <2> HIDE DEF o
    <2>3. DOMAIN o = 1..3 /\ o[1] = W /\ o[2] = K /\ o[3] = C
        BY <2>2
    <2>4. \A i \in 1..3 : i = 1 \/ i = 2 \/ i = 3
        OBVIOUS
    <2>5. 1 \in 1..3 /\ 2 \in 1..3 /\ {1} \subseteq Nat /\ (\A x \in {1} : x <= 1) /\ 1 \in {1}
        OBVIOUS
    <2>6. ws = {1}
        BY <1>2, <2>3, <2>4, <2>5
    <2>7. Max({1}) = 1
        BY ONLY <2>5, MaxIs
    <2>8. (IF ws = {} THEN 0 ELSE o[Max(ws)][2]) = t.weight
        BY <1>2, <2>3, <2>6, <2>7
    <2>9. \E i \in DOMAIN o : o[i][1] = "backup"
        BY <1>2, <2>3, <2>5
    <2> QED
        BY <1>3, <2>8, <2>9
<1>4. ASSUME t.weight > 1 /\ ~t.backup PROVE P
    <2>1. a \o b = <<W>> /\ <<W>> \o <<C>> = <<W, C>>
        BY <1>4, SeqTwo, SeqOne, ConcatEmpty
    <2>2. o = <<W, C>>
        BY <1>1, <2>1, Zenon
    <2> HIDE DEF o
    <2>3. DOMAIN o = 1..2 /\ o[1] = W /\ o[2] = C
        BY <2>2
    <2>4. \A i \in 1..2 : i = 1 \/ i = 2
        OBVIOUS
    <2>5. 1 \in 1..2 /\ {1} \subseteq Nat /\ (\A x \in {1} : x <= 1) /\ 1 \in {1}
        OBVIOUS
    <2>6. ws = {1}
        BY <1>2, <2>3, <2>4, <2>5
    <2>7. Max({1}) = 1
        BY ONLY <2>5, MaxIs
    <2>8. (IF ws = {} THEN 0 ELSE o[Max(ws)][2]) = t.weight
        BY <1>2, <2>3, <2>6, <2>7
    <2>9. ~\E i \in DOMAIN o : o[i][1] = "backup"
        BY <1>2, <2>3, <2>4
    <2> QED
        BY <1>4, <2>8, <2>9
<1>5. ASSUME ~(t.weight > 1) /\ t.backup PROVE P
    <2>1. a \o b = <<K>> /\ <<K>> \o <<C>> = <<K, C>>
        BY <1>5, SeqTwo, SeqOne, ConcatEmpty
    <2>2. o = <<K, C>>
        BY <1>1, <2>1, Zenon
    <2> HIDE DEF o
    <2>3. DOMAIN o = 1..2 /\ o[1] = K /\ o[2] = C
        BY <2>2
    <2>4. (\A i \in 1..2 : i = 1 \/ i = 2) /\ 1 \in 1..2
        OBVIOUS
    <2>6. ws = {}
        BY <1>2, <2>3, <2>4
    <2>9. \E i \in DOMAIN o : o[i][1] = "backup"
        BY <1>2, <2>3, <2>4
    <2> QED
        BY <1>5, <2>6, <2>9
<1>6. ASSUME ~(t.weight > 1) /\ ~t.backup PROVE P
    <2>1. a \o b = <<>> /\ <<>> \o <<C>> = <<C>>
        BY <1>6, SeqOne, SeqEmpty, ConcatEmpty
    <2>2. o = <<C>>
        BY <1>1, <2>1, Zenon
    <2> HIDE DEF o
    <2>3. DOMAIN o = 1..1 /\ o[1] = C
        BY <2>2
    <2>4. \A i \in 1..1 : i = 1
        OBVIOUS
    <2>6. ws = {}
        BY <1>2, <2>3, <2>4
    <2>9. ~\E i \in DOMAIN o : o[i][1] = "backup"
        BY <1>2, <2>3, <2>4
    <2> QED
        BY <1>6, <2>6, <2>9
<1>7. P
    <2> HIDE DEF P
    <2> QED
        BY <1>3, <1>4, <1>5, <1>6, Zenon
<1> QED
    BY <1>7, Zenon

Weighed(t) == [t EXCEPT !.weight = IF @ = 1 THEN 0 ELSE @]

LEMMA ServerRead ==
    ASSUME NEW t \in HaTarget, Len(t.host) <= 1
    PROVE  Weighed(ParseServerLine(BackendLine(t).arg)) = Weighed(t)
<1> DEFINE x == BackendLine(t).arg
           o == x.opts
           ws == {i \in DOMAIN o : o[i][1] = "weight"}
           w == IF ws = {} THEN 0 ELSE o[Max(ws)][2]
           b == \E i \in DOMAIN o : o[i][1] = "backup"
<1>1. /\ t = [host |-> t.host, port |-> t.port, weight |-> t.weight, backup |-> t.backup]
      /\ t.host \in Seq(STRING) /\ t.host # <<>> /\ t.weight \in Nat /\ t.backup \in BOOLEAN
    BY DEF HaTarget
<1>2. x.addr = Append(t.host, t.port)
    <2> DEFINE v == BackendLine(t).arg.opts
               h == Append(t.host, t.port)
    <2>1. BackendLine(t).arg.addr = Append(t.host, t.port)
        BY DEF BackendLine, Line
    <2> QED
        BY <2>1, Zenon
<1>3. /\ Front(x.addr) = t.host /\ Last(x.addr) = t.port /\ Len(x.addr) = 2
    <2>1. IsSeq(t.host)
        BY <1>1, Zenon DEF IsSeq
    <2>2. Len(t.host) = 1
        <3> DEFINE h == t.host
        <3>1. h # <<>> /\ Len(h) <= 1
            BY <1>1
        <3> HIDE DEF h
        <3>2. IsSeq(h)
            BY <2>1 DEF h
        <3>3. Len(h) \in Nat /\ Len(h) # 0
            BY ONLY <3>1, <3>2, SeqDomain
        <3>4. \A n \in Nat : n <= 1 /\ n # 0 => n = 1
            OBVIOUS
        <3>5. Len(h) = 1
            BY <3>1, <3>3, <3>4, Zenon
        <3> QED
            BY <3>5 DEF h
    <2>3. /\ Front(Append(t.host, t.port)) = t.host /\ Last(Append(t.host, t.port)) = t.port
          /\ Len(Append(t.host, t.port)) = Len(t.host) + 1
        BY <2>1, FrontOfAppend
    <2> QED
        BY <1>2, <2>2, <2>3
<1>4. w = (IF t.weight > 1 THEN t.weight ELSE 0) /\ (b <=> t.backup)
    BY ServerOptions, Zenon
<1>5. ParseServerLine(x) = [host |-> t.host, port |-> t.port, weight |-> w, backup |-> b]
    BY <1>3, Zenon DEF ParseServerLine
<1> HIDE DEF x, o, ws, w, b
<1>6. b = t.backup
    <2>1. b \in BOOLEAN
        BY DEF b
    <2> QED
        BY <1>1, <1>4, <2>1
<1> DEFINE r(z) == [host |-> t.host, port |-> t.port, weight |-> z, backup |-> t.backup]
<1>7. ParseServerLine(x) = r(w) /\ t = r(t.weight)
    BY <1>1, <1>5, <1>6, Zenon
<1>8. ASSUME NEW z PROVE Weighed(r(z)) = r(IF z = 1 THEN 0 ELSE z)
    <2> DEFINE y == r(z)
               q == IF z = 1 THEN 0 ELSE z
    <2>1. y.weight = z
        OBVIOUS
    <2>2. Weighed(y) = [y EXCEPT !.weight = q]
        BY <2>1, Zenon DEF Weighed
    <2> HIDE DEF q
    <2>3. [y EXCEPT !.weight = q] = r(q)
        OBVIOUS
    <2> QED
        BY <2>2, <2>3, Zenon DEF q
<1>9. (IF w = 1 THEN 0 ELSE w) = IF t.weight = 1 THEN 0 ELSE t.weight
    BY <1>1, <1>4
<1> HIDE DEF r
<1> QED
    BY <1>7, <1>8, <1>9, Zenon DEF x

LEMMA ServersRead ==
    ASSUME NEW ts \in Seq(HaTarget)
    PROVE  /\ Servers(ts) = <<>> <=> ts = <<>>
           /\ ~HasIPv6(ts) => ServerLinesToTargets(Servers(ts)) = ServerLinesToTargets(ts)
<1> DEFINE S == Servers(ts)
           n == Len(ts)
<1>1. n \in Nat /\ DOMAIN ts = 1..n /\ IsSeq(ts) /\ \A i \in 1..n : ts[i] \in HaTarget
    BY SeqElem
<1>2. S = [i \in 1..n |-> S[i]] /\ \A i \in 1..n : S[i] = ParseServerLine(BackendLine(ts[i]).arg)
    BY Zenon DEF Servers
<1> HIDE DEF S, n
<1>3. IsSeq(S) /\ Len(S) = n /\ DOMAIN S = 1..n
    BY <1>1, <1>2, FcnSeq
<1>4. S = <<>> <=> ts = <<>>
    BY <1>1, <1>3, SeqDomain DEF n
<1>5. ASSUME ~HasIPv6(ts) PROVE ServerLinesToTargets(S) = ServerLinesToTargets(ts)
    <2>1. ASSUME NEW i \in 1..n PROVE Weighed(S[i]) = Weighed(ts[i])
        <3> DEFINE t == ts[i]
        <3>1. t \in HaTarget
            BY <1>1
        <3>2. Len(t.host) <= 1
            <4>1. ~(Len(t.host) > 1)
                BY <1>1, <1>5, Zenon DEF HasIPv6
            <4>2. Len(t.host) \in Nat
                <5> HIDE DEF t
                <5>1. t.host \in Seq(STRING)
                    BY <3>1 DEF HaTarget
                <5> QED
                    BY <5>1, SeqElem
            <4>3. \A x \in Nat : ~(x > 1) => x <= 1
                OBVIOUS
            <4> QED
                BY <4>1, <4>2, <4>3, Zenon
        <3>3. S[i] = ParseServerLine(BackendLine(t).arg)
            BY <1>2, Zenon
        <3> HIDE DEF t
        <3>4. Weighed(ParseServerLine(BackendLine(t).arg)) = Weighed(t)
            BY <3>1, <3>2, ServerRead
        <3> QED
            BY <3>3, <3>4, Zenon DEF t
    <2>2. ServerLinesToTargets(S) = [i \in 1..n |-> Weighed(S[i])]
        BY <1>3, Zenon DEF ServerLinesToTargets, Weighed
    <2>3. ServerLinesToTargets(ts) = [i \in 1..n |-> Weighed(ts[i])]
        BY <1>1, Zenon DEF ServerLinesToTargets, Weighed
    <2> QED
        BY <2>1, <2>2, <2>3, Zenon
<1> QED
    BY <1>4, <1>5 DEF S

\* The listener is read back as it was written.
LEMMA BindRead ==
    ASSUME NEW m \in HaMapping
    PROVE  LET b == ParseBindLine(BindLine(m).arg)
           IN  /\ NormalizeBindIP(b.ip) = Expected(m).ip /\ b.port = m.port
               /\ b.ssl = (m.proto = "https")
<1> DEFINE x == BindLine(m).arg
           ip == m.ip
           q == BindIP(ip)
           a == Append(q, m.port)
<1>1. ip \in Seq(STRING) /\ ip # <<>> /\ ip # <<"*">>
    BY DEF HaMapping
<1>2. IsSeq(q) /\ Len(q) \in Nat /\ Len(q) # 0
    <2>1. q = <<"*">> \/ q = ip
        BY Zenon DEF BindIP
    <2> HIDE DEF ip, q
    <2>2. IsSeq(ip)
        BY <1>1, Zenon DEF IsSeq
    <2>3. Len(ip) \in Nat /\ Len(ip) # 0
        BY ONLY <1>1, <2>2, SeqDomain
    <2>4. IsSeq(<<"*">>) /\ Len(<<"*">>) = 1 /\ 1 \in Nat /\ 1 # 0
        BY SeqOne
    <2>5. CASE q = ip
        BY <2>2, <2>3, <2>5, Zenon
    <2>6. CASE q = <<"*">>
        BY <2>4, <2>6, Zenon
    <2> QED
        BY <2>1, <2>5, <2>6
<1>3. /\ x.addr = a /\ x.opts = IF m.proto = "https" THEN {"ssl", "crt"} ELSE {}
    <2> DEFINE op == IF m.proto = "https" THEN {"ssl", "crt"} ELSE {}
               br == Len(m.ip) > 1
    <2>1. BindLine(m) = Line("bind", [brackets |-> br, addr |-> a, opts |-> op])
        BY Zenon DEF BindLine
    <2> HIDE DEF a, op, br
    <2>2. BindLine(m).arg.addr = a /\ BindLine(m).arg.opts = op
        BY <2>1 DEF Line
    <2> QED
        BY <2>2, Zenon DEF op
<1>4. Front(a) = q /\ Last(a) = m.port /\ Len(a) = Len(q) + 1
    <2> HIDE DEF q
    <2> QED
        BY <1>2, FrontOfAppend
<1>5. Len(a) # 1
    <2>1. \A l \in Nat : l # 0 => l + 1 # 1
        OBVIOUS
    <2> HIDE DEF a, q
    <2> QED
        BY <1>2, <1>4, <2>1, Zenon
<1> HIDE DEF x, a
<1>6. ParseBindLine(x) = [ip |-> q, port |-> m.port, ssl |-> "ssl" \in x.opts]
    <2>1. ParseBindLine(x) = [ip |-> IF Len(a) = 1 THEN <<"*">> ELSE Front(a), port |-> Last(a), ssl |-> "ssl" \in x.opts]
        BY <1>3, Zenon DEF ParseBindLine
    <2> QED
        BY <1>4, <1>5, <2>1, Zenon
<1>7. ("ssl" \in x.opts) = (m.proto = "https")
    <2>1. CASE m.proto = "https"
        BY <1>3, <2>1
    <2>2. CASE m.proto # "https"
        BY <1>3, <2>2
    <2> QED
        BY <2>1, <2>2
<1>8. NormalizeBindIP(q) = Expected(m).ip
    <2> DEFINE k == IF ip = <<"::">> THEN AnyIP ELSE ip
    <2>1. Expected(m).ip = k
        <3> DEFINE bl == IF m.balance = "" THEN "roundrobin" ELSE m.balance
        <3>1. Expected(m) = [ip |-> k, port |-> m.port, proto |-> m.proto, balance |-> bl, targets |-> m.targets]
            BY Zenon DEF Expected
        <3> HIDE DEF k, bl
        <3> QED
            BY <3>1
    <2>2. NormalizeBindIP(q) = k
        <3> DEFINE star == <<"*">>
                   all6 == <<"::">>
        <3>1. ip # star
            BY <1>1
        <3> HIDE DEF star, all6, ip
        <3>2. (IF q = star THEN AnyIP ELSE q) = IF ip = all6 THEN AnyIP ELSE ip
            <4>1. q = IF ip \in {AnyIP, all6} THEN star ELSE ip
                BY Zenon DEF BindIP, star, all6
            <4> HIDE DEF q
            <4> QED
                BY <3>1, <4>1
        <3> QED
            BY <3>2, Zenon DEF NormalizeBindIP, star, all6
    <2> QED
        BY <2>1, <2>2, Zenon
<1> DEFINE z == "ssl" \in x.opts
<1> HIDE DEF q, z
<1>9. ParseBindLine(x).ip = q /\ ParseBindLine(x).port = m.port /\ ParseBindLine(x).ssl = z
    <2>1. ParseBindLine(x) = [ip |-> q, port |-> m.port, ssl |-> z]
        BY <1>6, Zenon DEF z
    <2> QED
        BY <2>1
<1>10. z = (m.proto = "https")
    BY <1>7, Zenon DEF z
<1> QED
    BY <1>8, <1>9, <1>10, Zenon DEF x

\* A frontend of the panel becomes what RoundTrip expects of its mapping.
LEMMA HaFrontConverted ==
    ASSUME NEW m \in HaMapping, NEW id, NEW fe, Front1(m, id, fe),
           NEW cfg, FindBackend(cfg, BeName(id)) = OwnBe(m, id),
           NEW acc, NEW w, NEW n \in Nat, NEW names, IsFiniteSet(names), Offers(acc, w, n, names)
    PROVE  Offers(ConvertFrontend(cfg, acc, fe),
                  IF Importable(m) THEN Append(w, Expected(m)) ELSE w, n + 1, names)
<1> DEFINE pb == ParseBindLine(BindLine(m).arg)
           md == IF m.proto = "tcp" THEN "tcp" ELSE "http"
           target == IF fe.default = NoName /\ fe.rules # <<>> THEN fe.rules[1] ELSE fe.default
           be == FindBackend(cfg, target)
           nip == NormalizeBindIP(fe.binds[1].ip)
           npr == IF fe.binds[1].ssl THEN "https" ELSE IF fe.mode = "tcp" THEN "tcp" ELSE "http"
           c == Cand(nip, fe.binds[1].port, npr, be.balance, ServerLinesToTargets(be.servers))
<1>1. ConvertFrontend(cfg, acc, fe)
        = IF Len(fe.binds) # 1 \/ target = NoName \/ be.servers = <<>>
          THEN Report(acc, fe.name) ELSE Offer(acc, fe.name, c)
    BY Zenon DEF ConvertFrontend, Cand
<1>2. /\ fe.name = FeName(id) /\ fe.binds = <<pb>> /\ fe.mode = md
      /\ IF m.proto # "tcp" /\ m.redirect THEN fe.default = NoName /\ fe.rules = <<>>
         ELSE fe.default = BeName(id)
    <2> HIDE DEF pb, md
    <2>1. /\ fe = Fe(FeName(id), <<pb>>, md, fe.default, fe.rules)
          /\ IF m.proto # "tcp" /\ m.redirect THEN fe.default = NoName /\ fe.rules = <<>>
             ELSE fe.default = BeName(id)
        BY Zenon DEF Front1, pb, md
    <2> DEFINE d == fe.default
               r == fe.rules
               b == <<pb>>
    <2> HIDE DEF d, r, b
    <2>2. fe = Fe(FeName(id), b, md, d, r)
        BY <2>1, Zenon DEF d, r, b
    <2>3. fe.name = FeName(id) /\ fe.binds = b /\ fe.mode = md
        BY <2>2 DEF Fe
    <2> QED
        BY <2>1, <2>3, Zenon DEF b
<1>3. Len(fe.binds) = 1 /\ fe.binds[1] = pb
    BY <1>2, SeqOne
<1>4. CASE m.proto # "tcp" /\ m.redirect
    <2>1. target = NoName
        BY <1>2, <1>4, Zenon
    <2>2. ~Importable(m)
        BY <1>4 DEF Importable
    <2> HIDE DEF target, be, c
    <2>3. ConvertFrontend(cfg, acc, fe) = Report(acc, fe.name)
        BY <1>1, <2>1, Zenon
    <2>4. Offers(Report(acc, fe.name), w, n + 1, names)
        BY ReportKeeps
    <2> QED
        BY <2>2, <2>3, <2>4, Zenon
<1>5. CASE ~(m.proto # "tcp" /\ m.redirect)
    <2>1. target = BeName(id) /\ target # NoName
        BY <1>2, <1>5, BeNameLower, Zenon
    <2>2. be = OwnBe(m, id)
        BY <2>1, Zenon
    <2> DEFINE ts == m.targets
               bl == IF m.balance = "" THEN "roundrobin" ELSE m.balance
    <2>3. be.balance = bl /\ be.servers = Servers(ts)
        <3> DEFINE sv == Servers(ts)
                   mo == IF m.proto = "tcp" THEN "tcp" ELSE "http"
        <3>1. be = Be(BeName(id), mo, bl, sv)
            BY <2>2, Zenon DEF OwnBe, BeOf, Servers
        <3> HIDE DEF sv, mo, bl, be
        <3>2. be.balance = bl /\ be.servers = sv
            BY <3>1 DEF Be
        <3> QED
            BY <3>2, Zenon DEF sv
    <2>4. ts \in Seq(HaTarget)
        BY DEF HaMapping
    <2> HIDE DEF be, target, bl
    <2>5. /\ Servers(ts) = <<>> <=> ts = <<>>
          /\ ~HasIPv6(ts) => ServerLinesToTargets(Servers(ts)) = ServerLinesToTargets(ts)
        <3> HIDE DEF ts
        <3> QED
            BY <2>4, ServersRead
    <2>6. CASE ts = <<>>
        <3>1. ~Importable(m)
            BY <2>6 DEF Importable
        <3>2. ConvertFrontend(cfg, acc, fe) = Report(acc, fe.name)
            <4>1. be.servers = <<>>
                BY <2>3, <2>5, <2>6, Zenon
            <4> HIDE DEF c
            <4> QED
                BY <1>1, <4>1, Zenon
        <3>3. Offers(Report(acc, fe.name), w, n + 1, names)
            BY ReportKeeps
        <3> QED
            BY <3>1, <3>2, <3>3, Zenon
    <2>7. CASE ts # <<>>
        <3>1. Importable(m)
            <4>1. m.redirect => m.proto = "tcp"
                BY <1>5, Zenon
            <4> QED
                BY <2>7, <4>1, Zenon DEF Importable
        <3>2. ConvertFrontend(cfg, acc, fe) = Offer(acc, fe.name, c)
            <4>1. be.servers # <<>>
                BY <2>3, <2>5, <2>7, Zenon
            <4>2. ~(Len(fe.binds) # 1 \/ target = NoName \/ be.servers = <<>>)
                BY <1>3, <2>1, <4>1, Zenon
            <4> HIDE DEF c
            <4> QED
                BY <1>1, <4>2, Zenon
        <3>3. Agrees(c, Expected(m))
            <4> DEFINE st == ServerLinesToTargets(be.servers)
                       ei == IF m.ip = <<"::">> THEN AnyIP ELSE m.ip
            <4>1. NormalizeBindIP(pb.ip) = Expected(m).ip /\ pb.port = m.port /\ pb.ssl = (m.proto = "https")
                BY BindRead
            <4>2. Expected(m) = [ip |-> ei, port |-> m.port, proto |-> m.proto, balance |-> bl, targets |-> ts]
                BY Zenon DEF Expected, bl
            <4> HIDE DEF ei, ts, st, pb
            <4>3. /\ Expected(m).port = m.port /\ Expected(m).proto = m.proto
                  /\ Expected(m).balance = bl /\ Expected(m).targets = ts
                BY <4>2
            <4>4. nip = Expected(m).ip /\ fe.binds[1].port = m.port
                BY <1>3, <4>1, Zenon
            <4>5. npr = m.proto
                <5>1. m.proto \in {"http", "https", "tcp"}
                    BY DEF HaMapping
                <5>2. npr = IF pb.ssl THEN "https" ELSE IF md = "tcp" THEN "tcp" ELSE "http"
                    BY <1>2, <1>3, Zenon
                <5>3. npr = IF m.proto = "https" THEN "https" ELSE IF md = "tcp" THEN "tcp" ELSE "http"
                    BY <4>1, <5>2, Zenon
                <5> HIDE DEF npr
                <5> QED
                    BY <5>1, <5>3
            <4> DEFINE po == fe.binds[1].port
                       bb == be.balance
            <4> HIDE DEF nip, npr, po, bb
            <4>6. c.ip = nip /\ c.port = po /\ c.proto = npr /\ c.balance = bb /\ c.targets = st
                <5>1. c = Cand(nip, po, npr, bb, st)
                    BY Zenon DEF nip, npr, po, bb, st
                <5> HIDE DEF c
                <5> QED
                    BY <5>1 DEF Cand
            <4>7. bb = bl
                BY <2>3, Zenon DEF bb
            <4>8. ~HasIPv6(ts) => st = ServerLinesToTargets(ts)
                BY <2>3, <2>5, Zenon DEF st, ts
            <4>9. po = m.port /\ nip = Expected(m).ip
                BY <4>4, Zenon DEF po, nip
            <4> HIDE DEF c
            <4> QED
                BY <4>3, <4>5, <4>6, <4>7, <4>8, <4>9, Zenon DEF Agrees
        <3>4. Offers(Offer(acc, fe.name, c), Append(w, Expected(m)), n + 1, names)
            <4> DEFINE a1 == nip
                       a2 == fe.binds[1].port
                       a3 == npr
                       a4 == be.balance
                       a5 == ServerLinesToTargets(be.servers)
                       e == Expected(m)
            <4> HIDE DEF a1, a2, a3, a4, a5, e
            <4>1. c = Cand(a1, a2, a3, a4, a5)
                BY Zenon DEF a1, a2, a3, a4, a5
            <4>2. Agrees(Cand(a1, a2, a3, a4, a5), e)
                BY <3>3, <4>1, Zenon DEF e
            <4>3. Offers(Offer(acc, fe.name, Cand(a1, a2, a3, a4, a5)), Append(w, e), n + 1, names)
                BY <4>2, OfferKeeps
            <4> QED
                BY <4>1, <4>3, Zenon DEF e
        <3> QED
            BY <3>1, <3>2, <3>4, Zenon
    <2> QED
        BY <2>6, <2>7
<1> QED
    BY <1>4, <1>5

\* Somebody else's listener.
LEMMA ForeignBind ==
    ASSUME NEW f \in HaSection
    PROVE  /\ Len(Binds(f)) = Len(f.ports) /\ Len(f.ports) \in Nat
           /\ Len(f.ports) = 1 => /\ NormalizeBindIP(Binds(f)[1].ip) = AnyIP
                                  /\ Binds(f)[1].port = f.ports[1] /\ Binds(f)[1].ssl = FALSE
<1> DEFINE B == Binds(f)
           n == Len(f.ports)
<1>1. n \in Nat
    <2>1. f.ports \in Seq(Nat)
        BY DEF HaSection
    <2> QED
        BY <2>1, SeqElem
<1>2. B = [i \in 1..n |-> B[i]] /\ \A i \in 1..n : B[i] = ParseBindLine(PortBind(f.ports[i]).arg)
    BY Zenon DEF Binds
<1> HIDE DEF B
<1>3. Len(B) = n
    BY <1>1, <1>2, FcnSeq
<1>4. ASSUME n = 1
      PROVE  NormalizeBindIP(B[1].ip) = AnyIP /\ B[1].port = f.ports[1] /\ B[1].ssl = FALSE
    <2> DEFINE p == f.ports[1]
               x == PortBind(p).arg
    <2>1. B[1] = ParseBindLine(x)
        <3>1. 1 \in 1..n
            BY <1>4
        <3> QED
            BY <1>2, <3>1, Zenon
    <2> HIDE DEF p
    <2>2. x.addr = <<p>> /\ x.opts = {}
        BY DEF PortBind, Line
    <2> HIDE DEF x
    <2>3. Len(x.addr) = 1 /\ Last(x.addr) = p /\ ~("ssl" \in x.opts)
        <3>1. Len(<<p>>) = 1 /\ <<p>>[1] = p
            BY SeqOne
        <3>2. Last(<<p>>) = p
            BY <3>1, Zenon DEF Last
        <3>3. ~("ssl" \in x.opts)
            BY <2>2
        <3> QED
            BY <2>2, <3>1, <3>2, <3>3, Zenon
    <2> DEFINE star == <<"*">>
               z == "ssl" \in x.opts
    <2>4. ParseBindLine(x) = [ip |-> star, port |-> p, ssl |-> z]
        BY <2>3, Zenon DEF ParseBindLine
    <2>5. z = FALSE
        BY <2>3
    <2>6. NormalizeBindIP(star) = AnyIP
        BY Zenon DEF NormalizeBindIP
    <2> HIDE DEF star, z
    <2>7. B[1].ip = star /\ B[1].port = p /\ B[1].ssl = z
        BY <2>1, <2>4
    <2> QED
        BY <2>5, <2>6, <2>7, Zenon DEF p
<1> QED
    BY <1>1, <1>3, <1>4 DEF B

\* A candidate that is what is expected of somebody else's section.
LEMMA ForeignAgrees ==
    ASSUME NEW f \in HaSection, NEW port, port = f.ports[1],
           NEW pr, pr = (IF f.listen THEN "tcp" ELSE "http"),
           NEW bl, bl = (IF f.listen THEN "" ELSE "leastconn")
    PROVE  Agrees(Cand(AnyIP, port, pr, bl, ServerLinesToTargets(Servers(f.targets))), ExpectedForeign(f))
<1> DEFINE ts == f.targets
           st == ServerLinesToTargets(Servers(ts))
           e == ExpectedForeign(f)
           c == Cand(AnyIP, port, pr, bl, st)
<1>1. ts \in Seq(HaTarget)
    BY DEF HaSection
<1> HIDE DEF ts
<1>2. ~HasIPv6(ts) => st = ServerLinesToTargets(ts)
    BY <1>1, ServersRead
<1> HIDE DEF st
<1>3. e = [ip |-> AnyIP, port |-> port, proto |-> pr, balance |-> bl, targets |-> ts]
    BY Zenon DEF ExpectedForeign, ts
<1> HIDE DEF e
<1>4. e.ip = AnyIP /\ e.port = port /\ e.proto = pr /\ e.balance = bl /\ e.targets = ts
    BY <1>3
<1>5. c.ip = AnyIP /\ c.port = port /\ c.proto = pr /\ c.balance = bl /\ c.targets = st
    BY DEF Cand
<1> HIDE DEF c
<1>6. Agrees(c, e)
    BY <1>2, <1>4, <1>5, Zenon DEF Agrees
<1> QED
    BY <1>6, Zenon DEF c, e, st, ts

LEMMA HaForeignListenConverted ==
    ASSUME NEW f \in HaSection, f.listen,
           NEW acc, NEW w, NEW n \in Nat, NEW names, IsFiniteSet(names), Offers(acc, w, n, names)
    PROVE  Offers(ConvertListen(acc, ForeignLi(f)),
                  IF Adoptable(f) THEN Append(w, ExpectedForeign(f)) ELSE w, n + 1, names)
<1> DEFINE li == ForeignLi(f)
           B == Binds(f)
           S == Servers(f.targets)
           b1 == NormalizeBindIP(B[1].ip)
           b2 == B[1].port
           st == ServerLinesToTargets(S)
           e == ExpectedForeign(f)
<1>1. li.name = f.name /\ li.binds = B /\ li.servers = S
    <2> HIDE DEF B, S
    <2>1. li = Li(f.name, B, S)
        BY Zenon DEF ForeignLi, B, S
    <2> HIDE DEF li
    <2> QED
        BY <2>1 DEF Li
<1> HIDE DEF li
<1>2. ConvertListen(acc, li) = IF Len(B) # 1 \/ S = <<>> THEN Report(acc, f.name)
                               ELSE Offer(acc, f.name, Cand(b1, b2, "tcp", "", st))
    BY <1>1, Zenon DEF ConvertListen, Cand
<1>3. /\ Len(B) = Len(f.ports)
      /\ Len(f.ports) = 1 => b1 = AnyIP /\ b2 = f.ports[1]
    BY ForeignBind
<1>4. S = <<>> <=> f.targets = <<>>
    <2>1. f.targets \in Seq(HaTarget)
        BY DEF HaSection
    <2> QED
        BY <2>1, ServersRead
<1>5. Adoptable(f) <=> ~(Len(B) # 1 \/ S = <<>>)
    BY <1>3, <1>4, Zenon DEF Adoptable
<1>6. Offers(Report(acc, f.name), w, n + 1, names)
    BY ReportKeeps
<1>7. ASSUME Adoptable(f) PROVE Offers(Offer(acc, f.name, Cand(b1, b2, "tcp", "", st)), Append(w, e), n + 1, names)
    <2>1. b1 = AnyIP /\ b2 = f.ports[1]
        BY <1>3, <1>7, Zenon DEF Adoptable
    <2> HIDE DEF e, b1, b2, S
    <2>2. Agrees(Cand(AnyIP, b2, "tcp", "", st), e)
        <3> DEFINE x == b2
        <3>1. Agrees(Cand(AnyIP, b2, "tcp", "", ServerLinesToTargets(Servers(f.targets))), ExpectedForeign(f))
            BY <2>1, ForeignAgrees
        <3> QED
            BY <3>1, Zenon DEF e, S
    <2> HIDE DEF st
    <2>3. Agrees(Cand(b1, b2, "tcp", "", st), e)
        BY <2>1, <2>2, Zenon
    <2> QED
        BY <2>3, OfferKeeps
<1> HIDE DEF B, S, b1, b2, st, e
<1>8. Offers(ConvertListen(acc, li), IF Adoptable(f) THEN Append(w, e) ELSE w, n + 1, names)
    BY <1>2, <1>5, <1>6, <1>7, Zenon
<1> QED
    BY <1>8, Zenon DEF li, e

LEMMA LowerName ==
    ASSUME NEW f, Len(f.name) = 1, f.name # NoName
    PROVE  Len(FirstTokenLower(f.name)) = 1 /\ FirstTokenLower(f.name) # NoName
<1> DEFINE x == f.name
<1>1. FirstTokenLower(x) = IF x = <<"Web">> THEN <<"web">> ELSE x
    BY Zenon DEF FirstTokenLower
<1>2. Len(<<"web">>) = 1 /\ <<"web">> # <<"none">>
    OBVIOUS
<1>3. Len(x) = 1 /\ x # <<"none">>
    BY Zenon DEF NoName
<1> DEFINE a == <<"Web">>
           b == <<"web">>
           c == <<"none">>
<1> HIDE DEF x, a, b, c
<1>4. FirstTokenLower(x) = IF x = a THEN b ELSE x
    BY <1>1, Zenon DEF a, b
<1>5. Len(b) = 1 /\ b # c /\ Len(x) = 1 /\ x # c
    BY <1>2, <1>3, Zenon DEF b, c
<1>6. Len(FirstTokenLower(x)) = 1 /\ FirstTokenLower(x) # c
    BY <1>4, <1>5, Zenon
<1> QED
    BY <1>6, Zenon DEF x, c, NoName

LEMMA HaForeignFrontConverted ==
    ASSUME NEW f \in HaSection, ~f.listen, Len(f.name) = 1, f.name # NoName,
           NEW cfg, NEW ms, NEW k, Known(cfg.bes, Owns(ms, k) \cup {ForeignBe(f)}),
           NEW acc, NEW w, NEW n \in Nat, NEW names, IsFiniteSet(names), Offers(acc, w, n, names)
    PROVE  Offers(ConvertFrontend(cfg, acc, ForeignFe(f)),
                  IF Adoptable(f) THEN Append(w, ExpectedForeign(f)) ELSE w, n + 1, names)
<1> DEFINE fe == ForeignFe(f)
           B == Binds(f)
           S == Servers(f.targets)
           lo == FirstTokenLower(f.name)
           be == FindBackend(cfg, lo)
           b1 == NormalizeBindIP(B[1].ip)
           b2 == B[1].port
           e == ExpectedForeign(f)
           st == ServerLinesToTargets(be.servers)
           npr == IF B[1].ssl THEN "https" ELSE IF "http" = "tcp" THEN "tcp" ELSE "http"
           c == Cand(b1, b2, npr, be.balance, st)
<1>1. fe.name = f.name /\ fe.binds = B /\ fe.mode = "http" /\ fe.default = lo /\ fe.rules = <<>>
    <2> HIDE DEF B, lo
    <2>1. fe = Fe(f.name, B, "http", lo, <<>>)
        BY Zenon DEF ForeignFe, B, lo
    <2> HIDE DEF fe
    <2> QED
        BY <2>1 DEF Fe
<1>0. Len(lo) = 1 /\ lo # NoName
    BY LowerName
<1>2. ConvertFrontend(cfg, acc, fe)
        = IF Len(B) # 1 \/ be.servers = <<>> THEN Report(acc, f.name) ELSE Offer(acc, f.name, c)
    <2> DEFINE target == IF fe.default = NoName /\ fe.rules # <<>> THEN fe.rules[1] ELSE fe.default
               bf == FindBackend(cfg, target)
               g == Cand(NormalizeBindIP(fe.binds[1].ip), fe.binds[1].port,
                         IF fe.binds[1].ssl THEN "https" ELSE IF fe.mode = "tcp" THEN "tcp" ELSE "http",
                         bf.balance, ServerLinesToTargets(bf.servers))
    <2>1. ConvertFrontend(cfg, acc, fe)
            = IF Len(fe.binds) # 1 \/ target = NoName \/ bf.servers = <<>>
              THEN Report(acc, fe.name) ELSE Offer(acc, fe.name, g)
        BY Zenon DEF ConvertFrontend, Cand
    <2> HIDE DEF fe, lo
    <2>2. target = lo /\ target # NoName
        BY <1>0, <1>1, Zenon
    <2>3. bf = be
        BY <2>2, Zenon
    <2> HIDE DEF target, bf, be
    <2>4. g = c
        BY <1>1, <2>3, Zenon
    <2> HIDE DEF g, c, B
    <2> QED
        BY <1>1, <2>1, <2>2, <2>3, <2>4, Zenon
<1>3. /\ Len(B) = Len(f.ports)
      /\ Len(f.ports) = 1 => b1 = AnyIP /\ b2 = f.ports[1] /\ B[1].ssl = FALSE
    BY ForeignBind
<1>4. S = <<>> <=> f.targets = <<>>
    <2>1. f.targets \in Seq(HaTarget)
        BY DEF HaSection
    <2> QED
        BY <2>1, ServersRead
<1>5. /\ lo = f.name => be.balance = "leastconn" /\ be.servers = S
      /\ lo # f.name => be.servers = <<>>
    <2> HIDE DEF lo
    <2>1. /\ FindBackend(cfg, f.name) = ForeignBe(f)
          /\ \A v : Len(v) = 1 /\ v # f.name => FindBackend(cfg, v).servers = <<>>
        BY ForeignFound
    <2>2. ForeignBe(f).balance = "leastconn" /\ ForeignBe(f).servers = S
        <3> HIDE DEF S
        <3>1. ForeignBe(f) = Be(f.name, "http", "leastconn", S)
            BY Zenon DEF ForeignBe, S
        <3> QED
            BY <3>1 DEF Be
    <2> QED
        BY <1>0, <2>1, <2>2, Zenon
<1>6. Adoptable(f) <=> ~(Len(B) # 1 \/ be.servers = <<>>)
    <2> HIDE DEF B, S, lo, be
    <2> QED
        BY <1>3, <1>4, <1>5, Zenon DEF Adoptable, lo
<1>7. Offers(Report(acc, f.name), w, n + 1, names)
    BY ReportKeeps
<1>8. ASSUME Adoptable(f) PROVE Offers(Offer(acc, f.name, c), Append(w, e), n + 1, names)
    <2>1. b1 = AnyIP /\ b2 = f.ports[1] /\ B[1].ssl = FALSE /\ lo = f.name
        BY <1>3, <1>8, Zenon DEF Adoptable
    <2>2. npr = "http"
        BY <2>1
    <2> DEFINE bb == be.balance
               sv == be.servers
    <2>3. bb = "leastconn" /\ sv = S
        BY <1>5, <2>1, Zenon
    <2> HIDE DEF e, b1, b2, bb, sv, npr, be
    <2>4. Agrees(Cand(AnyIP, b2, npr, bb, ServerLinesToTargets(S)), e)
        <3> HIDE DEF S
        <3>1. Agrees(Cand(AnyIP, b2, npr, bb, ServerLinesToTargets(Servers(f.targets))), ExpectedForeign(f))
            BY <2>1, <2>2, <2>3, ForeignAgrees
        <3> QED
            BY <3>1, Zenon DEF e, S
    <2> DEFINE s2 == ServerLinesToTargets(sv)
    <2>5. Agrees(Cand(b1, b2, npr, bb, s2), e)
        BY <2>1, <2>3, <2>4, Zenon
    <2> HIDE DEF s2
    <2>6. Offers(Offer(acc, f.name, Cand(b1, b2, npr, bb, s2)), Append(w, e), n + 1, names)
        BY <2>5, OfferKeeps
    <2> QED
        BY <2>6, Zenon DEF s2, sv, bb
<1> HIDE DEF B, be, c, e
<1>9. Offers(ConvertFrontend(cfg, acc, fe), IF Adoptable(f) THEN Append(w, e) ELSE w, n + 1, names)
    BY <1>2, <1>6, <1>7, <1>8, Zenon
<1> QED
    BY <1>9, Zenon DEF fe, e

---------------------------------------------------------------------------
(* haproxy: the import of a whole file.                                   *)

\* What RoundTrip expects of the mappings of the file, and of the section after them.
WantedOf(m) == IF Importable(m) THEN <<Expected(m)>> ELSE <<>>
WantedFrom(ms) == FlattenSeq([i \in DOMAIN ms |-> WantedOf(ms[i])])
WantedAfter(f) == IF Adoptable(f) THEN <<ExpectedForeign(f)>> ELSE <<>>
FrontLoop(cfg) == [loop |-> "frontends", cfg |-> cfg]
ListenLoop == [loop |-> "listens", cfg |-> ""]

LEMMA FrontRound == \A cfg, acc, fe : Loop(FrontLoop(cfg), acc, fe) = ConvertFrontend(cfg, acc, fe)
<1> SUFFICES ASSUME NEW cfg, NEW acc, NEW fe PROVE Loop(FrontLoop(cfg), acc, fe) = ConvertFrontend(cfg, acc, fe)
    OBVIOUS
<1> DEFINE k == FrontLoop(cfg)
<1>1. k.loop = "frontends" /\ k.cfg = cfg
    BY DEF FrontLoop
<1> HIDE DEF k
<1>2. Loop(k, acc, fe) = ConvertFrontend(k.cfg, acc, fe)
    BY <1>1 DEF Loop
<1> QED
    BY <1>1, <1>2, Zenon DEF k

LEMMA ListenRound == \A acc, li : Loop(ListenLoop, acc, li) = ConvertListen(acc, li)
<1> SUFFICES ASSUME NEW acc, NEW li PROVE Loop(ListenLoop, acc, li) = ConvertListen(acc, li)
    OBVIOUS
<1>1. ListenLoop.loop = "listens"
    BY DEF ListenLoop
<1> QED
    BY <1>1 DEF Loop

\* A round may add the candidate it expects, or nothing.
LEMMA WantedRound ==
    ASSUME NEW w, IsSeq(w), NEW e, NEW d
    PROVE  (IF d THEN Append(w, e) ELSE w) = w \o (IF d THEN <<e>> ELSE <<>>)
<1>1. Append(w, e) = w \o <<e>> /\ w \o <<>> = w
    BY SeqAppend, ConcatEmpty
<1> QED
    BY <1>1, Zenon

LEMMA HaFrontsConverted ==
    ASSUME NEW ms, IsSeq(ms), \A i \in 1..Len(ms) : ms[i] \in HaMapping,
           NEW F, Fronts(F, ms, Len(ms)),
           NEW cfg, \A i \in 1..Len(ms) : FindBackend(cfg, BeName(i)) = OwnBe(ms[i], i),
           NEW names, IsFiniteSet(names)
    PROVE  Offers(Folded(FrontLoop(cfg), Acc(<<>>, <<>>, names), F), WantedFrom(ms), Len(ms), names)
<1> DEFINE n == Len(ms)
           W == [i \in DOMAIN ms |-> WantedOf(ms[i])]
           b == Acc(<<>>, <<>>, names)
           k == FrontLoop(cfg)
<1>1. n \in Nat /\ DOMAIN ms = 1..n
    BY SeqDomain
<1>2. W = [i \in 1..n |-> W[i]] /\ \A i \in 1..n : W[i] = WantedOf(ms[i])
    BY <1>1
<1>3. ASSUME NEW i \in 1..n PROVE IsSeq(W[i])
    <2>1. \A e : IsSeq(<<e>>)
        BY SeqOne
    <2> HIDE DEF W
    <2> QED
        BY <1>2, <2>1, SeqEmpty, Zenon DEF WantedOf
<1> HIDE DEF W
<1>4. PICK f : /\ f[0] = <<>> /\ f[n] = FlattenSeq(W)
               /\ \A i \in 0..(n - 1) : f[i + 1] = f[i] \o W[i + 1]
               /\ \A i \in 0..n : IsSeq(f[i])
    BY <1>1, <1>2, <1>3, FlattenSteps
<1>5. IsSeq(F) /\ Len(F) = n /\ \A i \in 1..n : Front1(ms[i], i, F[i])
    BY Zenon DEF Fronts
<1>6. PICK t : Trace(t, k, b, F) /\ t[Len(F)] = Folded(k, b, F)
    BY <1>5, FoldedTrace, Zenon
<1> DEFINE S == {i \in Nat : i <= n => Offers(t[i], f[i], i, names)}
<1>7. 0 \in S
    <2>1. t[0] = b
        BY <1>6, Zenon DEF Trace
    <2>2. Offers(b, <<>>, 0, names)
        BY OffersNone, Zenon
    <2>3. Offers(t[0], f[0], 0, names)
        BY <1>4, <2>1, <2>2, Zenon
    <2> QED
        BY <2>3
<1>8. ASSUME NEW i \in Nat, i \in S PROVE i + 1 \in S
    <2>1. SUFFICES ASSUME i + 1 <= n PROVE Offers(t[i + 1], f[i + 1], i + 1, names)
        OBVIOUS
    <2>2. i \in 0..(n - 1) /\ i + 1 \in 1..n /\ i \in 0..n /\ i < n /\ Offers(t[i], f[i], i, names)
        BY <1>1, <1>8, <2>1
    <2> DEFINE j == i + 1
               m == ms[j]
               e == F[j]
               a == t[i]
               w == f[i]
    <2>3. t[j] = ConvertFrontend(cfg, a, e)
        <3>1. t[j] = Loop(k, a, e)
            BY <1>5, <1>6, <2>2, Zenon DEF Trace
        <3> QED
            BY <3>1, FrontRound, Zenon
    <2>4. f[j] = w \o WantedOf(m) /\ IsSeq(w)
        BY <1>2, <1>4, <2>2, Zenon
    <2>5. m \in HaMapping /\ Front1(m, j, e) /\ FindBackend(cfg, BeName(j)) = OwnBe(m, j)
        BY <1>5, <2>2, Zenon
    <2>6. Offers(a, w, i, names)
        BY <2>2
    <2> HIDE DEF m, e, a, w
    <2>7. Offers(ConvertFrontend(cfg, a, e), IF Importable(m) THEN Append(w, Expected(m)) ELSE w, i + 1, names)
        <3> HIDE DEF j
        <3> QED
            BY <2>5, <2>6, HaFrontConverted
    <2>8. (IF Importable(m) THEN Append(w, Expected(m)) ELSE w) = w \o WantedOf(m)
        BY <2>4, WantedRound, Zenon DEF WantedOf
    <2> QED
        BY <2>3, <2>4, <2>7, <2>8, Zenon
<1>9. \A i \in Nat : i \in S
    <2> HIDE DEF S
    <2> QED
        BY <1>7, <1>8, Induction
<1>10. Offers(t[n], f[n], n, names)
    BY <1>1, <1>9
<1> QED
    BY <1>4, <1>5, <1>6, <1>10, Zenon DEF WantedFrom, W

\* The import of the file the panel wrote and the section after it.
LEMMA HaImported ==
    ASSUME NEW ms, IsSeq(ms), \A i \in 1..Len(ms) : ms[i] \in HaMapping,
           NEW f \in HaSection, Len(f.name) = 1, f.name # NoName,
           NEW names, IsFiniteSet(names), NEW cfg, FileRead(cfg, ms, f)
    PROVE  Offers(HAProxyCfgToMappings(cfg, names), WantedFrom(ms) \o WantedAfter(f), Len(ms) + 1, names)
<1> DEFINE n == Len(ms)
           b == Acc(<<>>, <<>>, names)
           c(s) == Folded(FrontLoop(cfg), b, s)
           w == WantedFrom(ms)
<1>1. PICK F, L, G, own, cur, B :
        /\ cfg = Read(cur, G, B, L) /\ Fronts(F, ms, Len(ms)) /\ Known(B, own)
        /\ IF f.listen THEN G = F /\ L = <<ForeignLi(f)>> /\ own = Owns(ms, Len(ms))
           ELSE /\ G = Append(F, ForeignFe(f)) /\ L = <<>>
                /\ own = Owns(ms, Len(ms)) \cup {ForeignBe(f)}
    BY Zenon DEF FileRead
<1>2. cfg.fes = G /\ cfg.bes = B /\ cfg.lis = L
    <2>1. cfg = Read(cur, G, B, L)
        BY <1>1, Zenon
    <2> QED
        BY ONLY <2>1 DEF Read
<1>3. n \in Nat /\ IsSeq(F)
    BY <1>1, SeqDomain, Zenon DEF Fronts
<1>4. own \in {Owns(ms, n), Owns(ms, n) \cup {ForeignBe(f)}}
    BY <1>1, Zenon
<1>5. \A i \in 1..n : FindBackend(cfg, BeName(i)) = OwnBe(ms[i], i)
    <2>1. Known(cfg.bes, own)
        BY <1>1, <1>2, Zenon
    <2> SUFFICES ASSUME NEW i \in 1..n PROVE FindBackend(cfg, BeName(i)) = OwnBe(ms[i], i)
        OBVIOUS
    <2>3. FoundOwn(cfg, ms, i)
        BY <1>4, <2>1, OwnFound, Zenon
    <2> QED
        BY <2>3, Zenon DEF FoundOwn
<1>6. Offers(c(F), w, n, names)
    BY <1>1, <1>5, HaFrontsConverted, Zenon
<1>7. IsSeq(w)
    BY <1>6, Zenon DEF Offers
<1>8. IsSeq(G) /\ IsSeq(L)
    <2>1. IsSeq(Append(F, ForeignFe(f))) /\ IsSeq(<<ForeignLi(f)>>) /\ IsSeq(<<>>)
        BY <1>3, SeqAppend, SeqOne, SeqEmpty, Zenon
    <2> QED
        BY <1>1, <1>3, <2>1, Zenon
<1>9. HAProxyCfgToMappings(cfg, names) = Folded(ListenLoop, c(G), L)
    <2> DEFINE x == FoldLeft(LAMBDA acc, fe : ConvertFrontend(cfg, acc, fe), b, G)
    <2>1. HAProxyCfgToMappings(cfg, names) = FoldLeft(ConvertListen, x, L)
        BY <1>2, Zenon DEF HAProxyCfgToMappings, Acc
    <2>2. x = c(G)
        BY <1>8, FrontendsFold, Zenon DEF FrontLoop
    <2> HIDE DEF x
    <2>3. FoldLeft(ConvertListen, x, L) = Folded(ListenLoop, x, L)
        BY <1>8, ListensFold, Zenon DEF ListenLoop
    <2> QED
        BY <2>1, <2>2, <2>3, Zenon
<1>10. (IF Adoptable(f) THEN Append(w, ExpectedForeign(f)) ELSE w) = w \o WantedAfter(f)
    BY <1>7, WantedRound, Zenon DEF WantedAfter
<1>11. CASE f.listen
    <2>1. G = F /\ L = <<ForeignLi(f)>>
        BY <1>1, <1>11, Zenon
    <2>2. Folded(ListenLoop, c(F), <<ForeignLi(f)>>) = ConvertListen(c(F), ForeignLi(f))
        <3> DEFINE li == ForeignLi(f)
                   x == c(F)
        <3> HIDE DEF li, x
        <3>1. Folded(ListenLoop, x, <<li>>) = Loop(ListenLoop, x, li)
            BY FoldedOne
        <3> QED
            BY <3>1, ListenRound, Zenon DEF li, x
    <2> HIDE DEF c, n, w
    <2>3. Offers(ConvertListen(c(F), ForeignLi(f)),
                 IF Adoptable(f) THEN Append(w, ExpectedForeign(f)) ELSE w, n + 1, names)
        BY <1>3, <1>6, <1>11, HaForeignListenConverted
    <2> QED
        BY <1>9, <1>10, <2>1, <2>2, <2>3, Zenon DEF n, w
<1>12. CASE ~f.listen
    <2>1. G = Append(F, ForeignFe(f)) /\ L = <<>> /\ own = Owns(ms, n) \cup {ForeignBe(f)}
        BY <1>1, <1>12, Zenon
    <2> DEFINE fe == ForeignFe(f)
    <2>2. Folded(ListenLoop, c(G), <<>>) = c(G)
        BY FoldedEmpty, Zenon
    <2>3. c(G) = ConvertFrontend(cfg, c(F), fe)
        <3> HIDE DEF fe
        <3>1. Append(F, fe) = F \o <<fe>> /\ IsSeq(<<fe>>)
            BY <1>3, SeqAppend, SeqOne
        <3> DEFINE k == FrontLoop(cfg)
                   x == Folded(k, b, F)
        <3> HIDE DEF k, b
        <3>2. Folded(k, b, F \o <<fe>>) = Folded(k, x, <<fe>>)
            BY <1>3, <3>1, FoldedConcat
        <3> HIDE DEF x
        <3>3. Folded(k, x, <<fe>>) = Loop(k, x, fe)
            BY FoldedOne
        <3>5. Loop(k, x, fe) = ConvertFrontend(cfg, x, fe)
            BY FrontRound, Zenon DEF k
        <3>4. G = Append(F, fe)
            BY <2>1, Zenon DEF fe
        <3> QED
            BY <3>1, <3>2, <3>3, <3>4, <3>5, Zenon DEF x, k, b
    <2>4. Known(cfg.bes, Owns(ms, n) \cup {ForeignBe(f)})
        BY <1>1, <1>2, <2>1, Zenon
    <2> HIDE DEF c, n, w
    <2>5. Offers(ConvertFrontend(cfg, c(F), ForeignFe(f)),
                 IF Adoptable(f) THEN Append(w, ExpectedForeign(f)) ELSE w, n + 1, names)
        BY <1>3, <1>6, <1>12, <2>4, HaForeignFrontConverted
    <2> QED
        BY <1>9, <1>10, <2>1, <2>2, <2>3, <2>5, Zenon DEF n, w
<1> QED
    BY <1>11, <1>12

\* The text is that of the mappings and the section, the sections are what the parser
\* found in it, the candidates what became of them.
HaFile == RenderHAProxy(written) \o ForeignLines(foreign)
HaRead ==
    /\ \E n \in Nat : written \in [1..n -> HaMappings]
    /\ foreign \in HaForeign /\ taken \in HaTaken
    /\ haText = <<>> \/ haText = HaFile
    /\ haCfg = EmptyCfg \/ haCfg = ParseHAProxyConfig(HaFile)
    /\ imported # NotRead => haCfg # EmptyCfg /\ imported = HAProxyCfgToMappings(haCfg, taken)

LEMMA HaReadInit == HaInit => HaRead
<1> SUFFICES ASSUME HaInit PROVE HaRead
    OBVIOUS
<1>1. PICK n \in 1..MaxHaMappings : written \in [1..n -> HaMappings]
    BY DEF HaInit
<1>2. n \in Nat
    <2>1. MaxHaMappings \in Nat
        BY HaAssumption, Zenon
    <2> QED
        BY <2>1
<1>3. foreign \in HaForeign /\ taken \in HaTaken /\ haText = <<>> /\ haCfg = EmptyCfg /\ imported = NotRead
    BY Zenon DEF HaInit
<1> QED
    BY <1>1, <1>2, <1>3, Zenon DEF HaRead

LEMMA HaReadNext == HaRead /\ [HaNext]_haVars => HaRead'
<1> SUFFICES ASSUME HaRead, [HaNext]_haVars PROVE HaRead'
    OBVIOUS
<1> DEFINE W == \E n \in Nat : written \in [1..n -> HaMappings]
<1>1. /\ W /\ foreign \in HaForeign /\ taken \in HaTaken
      /\ haText = <<>> \/ haText = HaFile
      /\ haCfg = EmptyCfg \/ haCfg = ParseHAProxyConfig(HaFile)
      /\ imported # NotRead => haCfg # EmptyCfg /\ imported = HAProxyCfgToMappings(haCfg, taken)
    BY Zenon DEF HaRead
<1> HIDE DEF W
<1>2. written' = written /\ foreign' = foreign /\ taken' = taken
    BY Zenon DEF HaNext, WriteText, ParseText, ImportText, haVars
<1>3. HaFile' = HaFile
    BY <1>2, Zenon DEF HaFile
<1>4. CASE WriteText
    <2>1. haCfg' = haCfg /\ imported' = imported /\ haText' = HaFile
        BY <1>4, Zenon DEF WriteText, HaFile
    <2> QED
        BY <1>1, <1>2, <1>3, <2>1, Zenon DEF HaRead, W
<1>5. CASE ParseText
    <2>1. haText # <<>> /\ haCfg = EmptyCfg /\ haCfg' = ParseHAProxyConfig(haText)
          /\ haText' = haText /\ imported' = imported
        BY <1>5, Zenon DEF ParseText
    <2> QED
        BY <1>1, <1>2, <1>3, <2>1, Zenon DEF HaRead, W
<1>6. CASE ImportText
    <2>1. haCfg # EmptyCfg /\ imported' = HAProxyCfgToMappings(haCfg, taken)
          /\ haText' = haText /\ haCfg' = haCfg
        BY <1>6, Zenon DEF ImportText
    <2> QED
        BY <1>1, <1>2, <1>3, <2>1, Zenon DEF HaRead, W
<1>7. CASE UNCHANGED haVars
    <2>1. haText' = haText /\ haCfg' = haCfg /\ imported' = imported
        BY <1>7, Zenon DEF haVars
    <2> QED
        BY <1>1, <1>2, <1>3, <2>1, Zenon DEF HaRead, W
<1> QED
    BY <1>4, <1>5, <1>6, <1>7, Zenon DEF HaNext

\* The candidates of such an import are what RoundTrip asks for.
LEMMA OffersAll ==
    ASSUME NEW acc, NEW w, NEW n, NEW names, Offers(acc, w, n, names)
    PROVE  /\ Len(acc.out) = Len(w) /\ \A i \in DOMAIN w : Agrees(acc.out[i], w[i])
           /\ Len(acc.out) + Len(acc.issues) = n
           /\ Cardinality({acc.out[i].name : i \in DOMAIN acc.out}) = Len(acc.out)
           /\ {acc.out[i].name : i \in DOMAIN acc.out} \cap names = {}
<1> DEFINE o == acc.out
<1>1. /\ IsSeq(o) /\ IsSeq(w) /\ Len(o) = Len(w) /\ Len(o) + Len(acc.issues) = n
      /\ \A i \in 1..Len(w) : Agrees(o[i], w[i])
      /\ Cardinality(NamesOf(o)) = Len(o) /\ NamesOf(o) \cap names = {}
    BY Zenon DEF Offers
<1> HIDE DEF o
<1>2. DOMAIN w = 1..Len(w) /\ DOMAIN o = 1..Len(o)
    BY <1>1, SeqDomain
<1>3. NamesOf(o) = {o[i].name : i \in DOMAIN o}
    BY <1>2, Zenon DEF NamesOf
<1> QED
    BY <1>1, <1>2, <1>3, Zenon DEF o

LEMMA HaReadRoundTrip == HaRead => RoundTrip
<1> SUFFICES ASSUME HaRead, imported # NotRead PROVE RoundTrip
    BY Zenon DEF RoundTrip
<1>1. PICK n \in Nat : written \in [1..n -> HaMappings]
    BY Zenon DEF HaRead
<1>2. foreign \in HaForeign /\ taken \in HaTaken /\ haCfg = ParseHAProxyConfig(HaFile)
      /\ imported = HAProxyCfgToMappings(haCfg, taken)
    BY Zenon DEF HaRead
<1>3. foreign \in HaSection /\ Len(foreign.name) = 1 /\ foreign.name # NoName /\ IsFiniteSet(taken)
    <2>1. HaForeign \subseteq HaSection /\ (\A f \in HaForeign : Len(f.name) = 1 /\ f.name # NoName)
          /\ \A names \in HaTaken : IsFiniteSet(names)
        BY HaAssumption, Zenon DEF NoName
    <2> QED
        BY <1>2, <2>1
<1>4. IsSeq(written) /\ \A i \in 1..Len(written) : written[i] \in HaMapping
    <2>1. written = [i \in 1..n |-> written[i]] /\ \A i \in 1..n : written[i] \in HaMappings
        BY <1>1
    <2>2. IsSeq(written) /\ Len(written) = n
        BY <2>1, FcnSeq
    <2>3. HaMappings \subseteq HaMapping
        BY HaAssumption, Zenon
    <2> QED
        BY <2>1, <2>2, <2>3
<1>5. FileRead(haCfg, written, foreign)
    BY <1>2, <1>3, <1>4, HaFileRead, Zenon DEF HaFile
<1>6. Offers(imported, WantedFrom(written) \o WantedAfter(foreign), Len(written) + 1, taken)
    BY <1>2, <1>3, <1>4, <1>5, HaImported, Zenon
<1> DEFINE w == WantedFrom(written) \o WantedAfter(foreign)
           names == {imported.out[i].name : i \in DOMAIN imported.out}
<1>7. /\ Len(imported.out) = Len(w) /\ \A i \in DOMAIN w : Agrees(imported.out[i], w[i])
      /\ Len(imported.out) + Len(imported.issues) = Len(written) + 1
      /\ Cardinality(names) = Len(imported.out) /\ names \cap taken = {}
    BY <1>6, OffersAll, Zenon
<1>8. w = FlattenSeq([i \in DOMAIN written |->
                  IF Importable(written[i]) THEN <<Expected(written[i])>> ELSE <<>>])
              \o (IF Adoptable(foreign) THEN <<ExpectedForeign(foreign)>> ELSE <<>>)
    BY Zenon DEF WantedFrom, WantedOf, WantedAfter
<1> HIDE DEF w, names
<1> QED
    BY <1>7, <1>8, Zenon DEF RoundTrip, names

\* HAProxyConfig.RoundTrip, of a file of any length with any section after it: what
\* ParseHAProxyConfig and HAProxyCfgToMappings make of it are the mappings it was
\* written from.
THEOREM RoundTripHolds == HaSpec => []RoundTrip
BY HaReadInit, HaReadNext, HaReadRoundTrip, PTL DEF HaSpec

=============================================================================
