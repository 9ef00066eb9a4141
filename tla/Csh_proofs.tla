----------------------------- MODULE Csh_proofs -----------------------------
(***************************************************************************)
(* Theorems about the shell's configuration, for every set of variables,   *)
(* hotkeys, values and user files: what a flush, a save and a reading of    *)
(* the file compute (by induction over the lines and the saves), and that   *)
(* the file gets no duplicates, keeps the blocks, and agrees with the save  *)
(* marks.                                                                  *)
(***************************************************************************)
EXTENDS Csh, SequenceTheorems, FiniteSetTheorems, WellFoundedInduction, TLAPS

-----------------------------------------------------------------------------
(* Induction over the naturals, and the functions defined by recursion *)

\* A set of naturals that has 0 and the successor of each of its members has them all.
LEMMA NatSet ==
  ASSUME NEW T \in SUBSET Nat, 0 \in T, \A n \in T : n + 1 \in T
  PROVE  T = Nat
<1> SUFFICES ASSUME Nat \ T # {} PROVE FALSE
  OBVIOUS
<1>1. PICK x \in Nat \ T : \A y \in Nat \ T : ~(<<y, x>> \in OpToRel(<, Nat))
  BY NatLessThanWellFounded, WFMin
<1>2. x # 0
  BY <1>1
<1>3. x - 1 \in Nat /\ (x - 1) + 1 = x
  <2>1. x \in Nat
    BY <1>1
  <2> QED BY <1>2, <2>1
<1>4. x - 1 \notin T
  BY <1>1, <1>3
<1>5. <<x - 1, x>> \in OpToRel(<, Nat)
  BY <1>1, <1>3 DEF OpToRel
<1> QED BY <1>1, <1>3, <1>4, <1>5

\* config_flush writes the saves one after the other: SetAll is a series of SetCmd.
LEMMA SetAllIs ==
  ASSUME NEW lines, NEW X, NEW p \in Seq(X)
  PROVE  \E f : /\ f[0] = lines
                /\ \A n \in 1 .. Len(p) : f[n] = SetCmd(f[n - 1], p[n])
                /\ SetAll(lines, p) = f[Len(p)]
<1> DEFINE Is(g, m) == g = [n \in 0 .. m |-> IF n = 0 THEN lines ELSE SetCmd(g[n - 1], p[n])]
           T == {m \in Nat : \E g : Is(g, m)}
           done == CHOOSE g : Is(g, Len(p))
<1>1. 0 \in T
  <2> DEFINE g == [n \in 0 .. 0 |-> lines]
  <2>1. Is(g, 0)
    OBVIOUS
  <2> QED BY <2>1
<1>2. ASSUME NEW m \in T PROVE m + 1 \in T
  <2>1. m \in Nat
    OBVIOUS
  <2>2. PICK g : Is(g, m)
    OBVIOUS
  <2> DEFINE h == [n \in 0 .. m + 1 |-> IF n = m + 1 THEN SetCmd(g[m], p[n]) ELSE g[n]]
  <2>3. Is(h, m + 1)
    <3>1. ASSUME NEW n \in 0 .. m + 1
          PROVE  h[n] = IF n = 0 THEN lines ELSE SetCmd(h[n - 1], p[n])
      BY <2>1, <2>2
    <3> QED BY <3>1
  <2> HIDE DEF h, Is
  <2> QED BY <2>1, <2>3
<1>3. T = Nat
  <2> HIDE DEF T
  <2>1. T \in SUBSET Nat
    BY DEF T
  <2> QED BY <1>1, <1>2, <2>1, NatSet
<1>4. Len(p) \in Nat
  OBVIOUS
<1>5. \E g : Is(g, Len(p))
  BY <1>3, <1>4
<1>6. Is(done, Len(p))
  <2> HIDE DEF Is
  <2> QED BY <1>5, Zenon
<1>7. SetAll(lines, p) = done[Len(p)]
  BY DEF SetAll
<1> HIDE DEF done
<1>8. done[0] = lines /\ \A n \in 1 .. Len(p) : done[n] = SetCmd(done[n - 1], p[n])
  BY <1>4, <1>6
<1> QED BY <1>7, <1>8

\* The sequence csh_save goes through has each of the changed variables.
LEMMA SetToSeqIs ==
  ASSUME NEW S, IsFiniteSet(S)
  PROVE  /\ SetToSeq(S) \in Seq(S)
         /\ \A x \in S : \E n \in 1 .. Len(SetToSeq(S)) : SetToSeq(S)[n] = x
<1> DEFINE N == Cardinality(S)
<1>1. N \in Nat /\ ExistsBijection(1 .. N, S)
  BY FS_CardinalityType
<1>2. \E f \in [1 .. N -> S] : IsInjective(f)
  BY <1>1 DEF ExistsBijection, Bijection, Injection
<1>3. SetToSeq(S) \in [1 .. N -> S] /\ IsInjective(SetToSeq(S))
  <2> HIDE DEF N
  <2>1. SetToSeq(S) = CHOOSE f \in [1 .. N -> S] : IsInjective(f)
    BY DEF SetToSeq, N
  <2> QED BY <1>2, <2>1
<1>4. SetToSeq(S) \in Injection(1 .. N, S)
  BY <1>3 DEF Injection
<1>5. Cardinality(1 .. N) = N
  BY <1>1, FS_Interval
<1>6. SetToSeq(S) \in Surjection(1 .. N, S)
  BY <1>4, <1>5, FS_Injection
<1> HIDE DEF N
<1>7. Len(SetToSeq(S)) = N /\ SetToSeq(S) \in Seq(S)
  BY <1>1, <1>3
<1> QED BY <1>6, <1>7 DEF Surjection

\* Line n of a file that is read is a "bind" command.
IsBind(lines, n) ==
  n \in Run(lines, CfgProfile) /\ \E h \in Hotkeys : lines[n].key = BindKey(h)

BindLine(q, lines, n) ==
  IF IsBind(lines, n) THEN CacheSave(q, lines[n].key, lines[n].val) ELSE q

\* Reading a file runs its bind commands in the order of their lines.
LEMMA RunBindsIs ==
  ASSUME NEW X, NEW lines \in Seq(X), NEW p
  PROVE  \E f : /\ f[0] = p
                /\ \A n \in 1 .. Len(lines) : f[n] = BindLine(f[n - 1], lines, n)
                /\ RunBinds(lines, p) = f[Len(lines)]
<1> DEFINE Is(g, m) == g = [n \in 0 .. m |-> IF n = 0 THEN p ELSE BindLine(g[n - 1], lines, n)]
           T == {m \in Nat : \E g : Is(g, m)}
           done == CHOOSE g : Is(g, Len(lines))
<1>1. 0 \in T
  <2> DEFINE g == [n \in 0 .. 0 |-> p]
  <2>1. Is(g, 0)
    OBVIOUS
  <2> QED BY <2>1
<1>2. ASSUME NEW m \in T PROVE m + 1 \in T
  <2>1. m \in Nat
    OBVIOUS
  <2>2. PICK g : Is(g, m)
    OBVIOUS
  <2> DEFINE h == [n \in 0 .. m + 1 |-> IF n = m + 1 THEN BindLine(g[m], lines, n) ELSE g[n]]
  <2>3. Is(h, m + 1)
    <3>1. ASSUME NEW n \in 0 .. m + 1
          PROVE  h[n] = IF n = 0 THEN p ELSE BindLine(h[n - 1], lines, n)
      BY <2>1, <2>2
    <3> QED BY <3>1
  <2> HIDE DEF h, Is
  <2> QED BY <2>1, <2>3
<1>3. T = Nat
  <2> HIDE DEF T
  <2>1. T \in SUBSET Nat
    BY DEF T
  <2> QED BY <1>1, <1>2, <2>1, NatSet
<1>4. Len(lines) \in Nat
  OBVIOUS
<1>5. \E g : Is(g, Len(lines))
  BY <1>3, <1>4
<1>6. Is(done, Len(lines))
  <2> HIDE DEF Is
  <2> QED BY <1>5, Zenon
<1>7. RunBinds(lines, p) = done[Len(lines)]
  BY DEF RunBinds, IsBind, BindLine
<1> HIDE DEF done
<1>8. done[0] = p /\ \A n \in 1 .. Len(lines) : done[n] = BindLine(done[n - 1], lines, n)
  BY <1>4, <1>6
<1> QED BY <1>7, <1>8

BoundKeys     == {h \in Hotkeys : bound[h] # Unbound}
SaveVar(q, v) == CacheSave(q, SetKey(v), val[v])

\* The changed variables and the bound hotkeys are finitely many.
LEMMA FinSub ==
  /\ IsFiniteSet(Vars) => IsFiniteSet(Changed)
  /\ IsFiniteSet(Hotkeys) => IsFiniteSet(BoundKeys)
<1>1. Changed \in SUBSET Vars /\ BoundKeys \in SUBSET Hotkeys
  BY DEF Changed, BoundKeys
<1> QED BY <1>1, FS_Subset

\* csh_save saves the changed variables one after the other.
LEMMA SaveVarsIs ==
  ASSUME NEW p, IsFiniteSet(Vars)
  PROVE  \E f : /\ f[0] = p
                /\ \A n \in 1 .. Len(SetToSeq(Changed)) : f[n] = SaveVar(f[n - 1], SetToSeq(Changed)[n])
                /\ SaveVars(p) = f[Len(SetToSeq(Changed))]
<1> DEFINE vs == SetToSeq(Changed)
<1>0. Len(vs) \in Nat
  BY SetToSeqIs, FinSub
<1> HIDE DEF vs
<1> DEFINE Is(g, m) == g = [n \in 0 .. m |-> IF n = 0 THEN p ELSE SaveVar(g[n - 1], vs[n])]
           T == {m \in Nat : \E g : Is(g, m)}
           done == CHOOSE g : Is(g, Len(vs))
<1>1. 0 \in T
  <2> DEFINE g == [n \in 0 .. 0 |-> p]
  <2>1. Is(g, 0)
    OBVIOUS
  <2> QED BY <2>1
<1>2. ASSUME NEW m \in T PROVE m + 1 \in T
  <2>1. m \in Nat
    OBVIOUS
  <2>2. PICK g : Is(g, m)
    OBVIOUS
  <2> DEFINE h == [n \in 0 .. m + 1 |-> IF n = m + 1 THEN SaveVar(g[m], vs[n]) ELSE g[n]]
  <2>3. Is(h, m + 1)
    <3>1. ASSUME NEW n \in 0 .. m + 1
          PROVE  h[n] = IF n = 0 THEN p ELSE SaveVar(h[n - 1], vs[n])
      BY <2>1, <2>2
    <3> QED BY <3>1
  <2> HIDE DEF h, Is
  <2> QED BY <2>1, <2>3
<1>3. T = Nat
  <2> HIDE DEF T
  <2>1. T \in SUBSET Nat
    BY DEF T
  <2> QED BY <1>1, <1>2, <2>1, NatSet
<1>5. \E g : Is(g, Len(vs))
  BY <1>0, <1>3
<1>6. Is(done, Len(vs))
  <2> HIDE DEF Is
  <2> QED BY <1>5, Zenon
<1>7. SaveVars(p) = done[Len(vs)]
  BY DEF SaveVars, vs, SaveVar
<1> HIDE DEF done
<1>8. done[0] = p /\ \A n \in 1 .. Len(vs) : done[n] = SaveVar(done[n - 1], vs[n])
  BY <1>0, <1>6
<1> QED BY <1>7, <1>8 DEF vs

\* A reset removes the bound hotkeys one after the other.
LEMMA AfterResetIs ==
  ASSUME NEW p, IsFiniteSet(Hotkeys)
  PROVE  \E f : /\ f[0] = p
                /\ \A n \in 1 .. Len(SetToSeq(BoundKeys)) : f[n] = CacheRemove(f[n - 1], HotkeyText(SetToSeq(BoundKeys)[n]))
                /\ AfterReset(p) = f[Len(SetToSeq(BoundKeys))]
<1> DEFINE hs == SetToSeq(BoundKeys)
<1>0. Len(hs) \in Nat
  BY SetToSeqIs, FinSub
<1> HIDE DEF hs
<1> DEFINE Is(g, m) == g = [n \in 0 .. m |-> IF n = 0 THEN p ELSE CacheRemove(g[n - 1], HotkeyText(hs[n]))]
           T == {m \in Nat : \E g : Is(g, m)}
           done == CHOOSE g : Is(g, Len(hs))
<1>1. 0 \in T
  <2> DEFINE g == [n \in 0 .. 0 |-> p]
  <2>1. Is(g, 0)
    OBVIOUS
  <2> QED BY <2>1
<1>2. ASSUME NEW m \in T PROVE m + 1 \in T
  <2>1. m \in Nat
    OBVIOUS
  <2>2. PICK g : Is(g, m)
    OBVIOUS
  <2> DEFINE h == [n \in 0 .. m + 1 |-> IF n = m + 1 THEN CacheRemove(g[m], HotkeyText(hs[n])) ELSE g[n]]
  <2>3. Is(h, m + 1)
    <3>1. ASSUME NEW n \in 0 .. m + 1
          PROVE  h[n] = IF n = 0 THEN p ELSE CacheRemove(h[n - 1], HotkeyText(hs[n]))
      BY <2>1, <2>2
    <3> QED BY <3>1
  <2> HIDE DEF h, Is
  <2> QED BY <2>1, <2>3
<1>3. T = Nat
  <2> HIDE DEF T
  <2>1. T \in SUBSET Nat
    BY DEF T
  <2> QED BY <1>1, <1>2, <2>1, NatSet
<1>5. \E g : Is(g, Len(hs))
  BY <1>0, <1>3
<1>6. Is(done, Len(hs))
  <2> HIDE DEF Is
  <2> QED BY <1>5, Zenon
<1>7. AfterReset(p) = done[Len(hs)]
  BY DEF AfterReset, hs, BoundKeys
<1> HIDE DEF done
<1>8. done[0] = p /\ \A n \in 1 .. Len(hs) : done[n] = CacheRemove(done[n - 1], HotkeyText(hs[n]))
  BY <1>0, <1>6
<1> QED BY <1>7, <1>8 DEF hs


\* What holds at 0, and at each n + 1 up to N if at n, holds at N.
LEMMA UpTo ==
  ASSUME NEW N \in Nat, NEW T, 0 \in T, \A n \in 0 .. N - 1 : n \in T => n + 1 \in T
  PROVE  \A n \in 0 .. N : n \in T
<1> DEFINE U == {n \in Nat : n <= N => n \in T}
<1>1. 0 \in U
  OBVIOUS
<1>2. ASSUME NEW n \in U PROVE n + 1 \in U
  <2>1. n \in Nat /\ (n <= N => n \in T)
    OBVIOUS
  <2> QED BY <2>1
<1>3. U = Nat
  <2> HIDE DEF U
  <2>1. U \in SUBSET Nat
    BY DEF U
  <2> QED BY <1>1, <1>2, <2>1, NatSet
<1>4. ASSUME NEW n \in 0 .. N PROVE n \in T
  <2>1. n \in U
    BY <1>3
  <2> QED BY <2>1
<1> QED BY <1>4

\* The first and the last of a set of line numbers.
LEMMA FirstIs ==
  ASSUME NEW S \in SUBSET Nat, S # {}
  PROVE  First_(S) \in S /\ \A j \in S : First_(S) <= j
<1>1. PICK x \in S : \A y \in S : ~(<<y, x>> \in OpToRel(<, Nat))
  BY NatLessThanWellFounded, WFMin
<1>2. ASSUME NEW y \in S PROVE x <= y
  <2>1. x \in Nat /\ y \in Nat
    OBVIOUS
  <2>2. ~(y < x)
    BY <1>1, <2>1 DEF OpToRel
  <2> QED BY <2>1, <2>2
<1>3. \E i \in S : \A j \in S : i <= j
  BY <1>2
<1> QED BY <1>3, Zenon DEF First_

LEMMA LastIs ==
  ASSUME NEW N \in Nat, NEW S \in SUBSET (0 .. N), S # {}
  PROVE  Last_(S) \in S /\ \A j \in S : j <= Last_(S)
<1> DEFINE R == {n \in Nat : N - n \in S}
<1>1. PICK i \in S : TRUE
  OBVIOUS
<1>2. N - i \in R
  OBVIOUS
<1>3. First_(R) \in R /\ \A j \in R : First_(R) <= j
  <2>1. R \in SUBSET Nat /\ R # {}
    BY <1>2
  <2> HIDE DEF R
  <2> QED BY <2>1, FirstIs
<1> DEFINE m == First_(R)
<1>4. m \in Nat /\ N - m \in S
  BY <1>3
<1>5. ASSUME NEW j \in S PROVE j <= N - m
  <2>1. N - j \in R
    OBVIOUS
  <2>2. m <= N - j
    BY <1>3, <2>1
  <2> HIDE DEF m
  <2> QED BY <1>4, <2>2
<1>6. \E l \in S : \A j \in S : j <= l
  <2> HIDE DEF m
  <2> QED BY <1>4, <1>5
<1> QED BY <1>6, Zenon DEF Last_

-----------------------------------------------------------------------------
(* The pending saves *)

Entry == [key : Keys, val : Vals]

\* A key has one pending save at most.
OnePending(p) == \A i, j \in DOMAIN p : p[i].key = p[j].key => i = j
IsPending(p)  == p \in Seq(Entry) /\ OnePending(p)
Saves(p)      == {p[i] : i \in DOMAIN p}

LEMMA EntryIs ==
  ASSUME NEW e \in Entry
  PROVE  e.key \in Keys /\ e.val \in Vals /\ e = [key |-> e.key, val |-> e.val]
BY DEF Entry

\* The pending saves are a map: what a key has pending is its one save.
LEMMA PendingIs ==
  ASSUME NEW p, IsPending(p)
  PROVE  /\ \A e \in Saves(p) : /\ e \in Entry /\ Pending(p, e.key) # {}
                                /\ PendingVal(p, e.key) = e.val
         /\ \A k : Pending(p, k) # {} => [key |-> k, val |-> PendingVal(p, k)] \in Saves(p)
<1> USE DEF IsPending
<1>1. ASSUME NEW k, Pending(p, k) # {}
      PROVE  /\ First_(Pending(p, k)) \in DOMAIN p
             /\ p[First_(Pending(p, k))].key = k
  <2>1. Pending(p, k) \in SUBSET Nat
    BY DEF Pending
  <2>2. First_(Pending(p, k)) \in Pending(p, k)
    BY <1>1, <2>1, FirstIs
  <2> QED BY <2>2 DEF Pending
<1>2. ASSUME NEW k, Pending(p, k) # {}
      PROVE  [key |-> k, val |-> PendingVal(p, k)] \in Saves(p)
  <2> DEFINE n == First_(Pending(p, k))
  <2>1. n \in DOMAIN p /\ p[n].key = k /\ p[n].val = PendingVal(p, k)
    BY <1>1, <1>2 DEF PendingVal
  <2> HIDE DEF n
  <2>2. p[n] \in Entry
    BY <2>1
  <2>3. p[n] = [key |-> k, val |-> PendingVal(p, k)]
    BY <2>1, <2>2, EntryIs
  <2> QED BY <2>1, <2>3 DEF Saves
<1>3. ASSUME NEW e \in Saves(p)
      PROVE  /\ e \in Entry /\ Pending(p, e.key) # {}
             /\ PendingVal(p, e.key) = e.val
  <2>1. PICK i \in DOMAIN p : e = p[i]
    BY DEF Saves
  <2>2. i \in Pending(p, e.key)
    BY <2>1 DEF Pending
  <2>3. First_(Pending(p, e.key)) = i
    BY <1>1, <2>1, <2>2 DEF OnePending
  <2> QED BY <2>1, <2>2, <2>3 DEF PendingVal
<1> QED BY <1>2, <1>3

\* csh_cfg_save_s replaces the key's save, or adds one.
LEMMA CacheSaveIs ==
  ASSUME NEW p, IsPending(p), NEW k \in Keys, NEW v \in Vals
  PROVE  /\ IsPending(CacheSave(p, k, v))
         /\ Saves(CacheSave(p, k, v)) =
              {e \in Saves(p) : e.key # k} \cup {[key |-> k, val |-> v]}
<1> USE DEF IsPending
<1> DEFINE q == CacheSave(p, k, v)
           new == [key |-> k, val |-> v]
<1>0. new \in Entry /\ new.key = k
  BY DEF Entry
<1>1. CASE Pending(p, k) = {}
  <2>1. q = Append(p, new)
    BY <1>1 DEF CacheSave
  <2>2. \A i \in DOMAIN p : p[i].key # k
    BY <1>1 DEF Pending
  <2> HIDE DEF q, new
  <2>3. q \in Seq(Entry) /\ DOMAIN q = 1 .. Len(p) + 1 /\ q[Len(p) + 1] = new
        /\ \A i \in 1 .. Len(p) : q[i] = p[i]
    BY <1>0, <2>1
  <2>4. OnePending(q)
    BY <1>0, <2>2, <2>3 DEF OnePending
  <2>5. Saves(q) = Saves(p) \cup {new}
    BY <2>3 DEF Saves
  <2>6. Saves(p) = {e \in Saves(p) : e.key # k}
    BY <2>2 DEF Saves
  <2> QED BY <2>3, <2>4, <2>5, <2>6 DEF q, new
<1>2. CASE Pending(p, k) # {}
  <2> DEFINE n == First_(Pending(p, k))
  <2>1. n \in DOMAIN p /\ p[n].key = k
    <3>1. Pending(p, k) \in SUBSET Nat
      BY DEF Pending
    <3>2. n \in Pending(p, k)
      BY <1>2, <3>1, FirstIs
    <3> QED BY <3>2 DEF Pending
  <2>2. q = [p EXCEPT ![n].val = v]
    BY <1>2 DEF CacheSave
  <2> HIDE DEF n, q
  <2>3. [p[n] EXCEPT !.val = v] = new
    <3>1. p[n] \in Entry
      BY <2>1
    <3>2. p[n] = [key |-> k, val |-> p[n].val]
      BY <2>1, <3>1, EntryIs
    <3> QED BY <3>2
  <2>4. q = [p EXCEPT ![n] = new]
    BY <2>1, <2>2, <2>3
  <2> HIDE DEF new
  <2>5. q \in Seq(Entry) /\ DOMAIN q = DOMAIN p /\ q[n] = new
        /\ \A i \in DOMAIN p : i # n => q[i] = p[i]
    BY <1>0, <2>1, <2>4
  <2>6. OnePending(q)
    BY <1>0, <2>1, <2>5 DEF OnePending
  <2>7. \A i \in DOMAIN p : p[i].key = k <=> i = n
    BY <2>1 DEF OnePending
  <2>8. Saves(q) = {e \in Saves(p) : e.key # k} \cup {new}
    BY <2>1, <2>5, <2>7 DEF Saves
  <2> QED BY <2>5, <2>6, <2>8 DEF q, new
<1> QED BY <1>1, <1>2


\* The save csh_save makes of a variable.
SaveOf(v) == [key |-> SetKey(v), val |-> val[v]]

\* csh_save leaves each changed variable pending with its value, and the other saves
\* as they were.
LEMMA SaveVarsSaves ==
  ASSUME NEW p, IsPending(p), val \in [Vars -> Vals]
  PROVE  /\ IsPending(SaveVars(p))
         /\ \A e : e \in Saves(SaveVars(p)) <=>
              \/ e \in Saves(p) /\ \A v \in Changed : e.key # SetKey(v)
              \/ \E v \in Changed : e = SaveOf(v)
<1> DEFINE vs == SetToSeq(Changed)
<1>1. vs \in Seq(Changed) /\ \A v \in Changed : \E n \in 1 .. Len(vs) : vs[n] = v
  BY SetToSeqIs, FinSub, FilesAssumption
<1>2. PICK f : /\ f[0] = p
               /\ \A n \in 1 .. Len(vs) : f[n] = SaveVar(f[n - 1], vs[n])
               /\ SaveVars(p) = f[Len(vs)]
  BY SaveVarsIs, FilesAssumption
<1> HIDE DEF vs
<1> DEFINE Now(n) == /\ IsPending(f[n])
                     /\ \A e : e \in Saves(f[n]) <=>
                          \/ e \in Saves(p) /\ \A m \in 1 .. n : e.key # SetKey(vs[m])
                          \/ \E m \in 1 .. n : e = SaveOf(vs[m])
           T == {n \in Nat : Now(n)}
<1>3. 0 \in T
  BY <1>2
<1>4. ASSUME NEW n \in 0 .. Len(vs) - 1, n \in T PROVE n + 1 \in T
  <2>1. n \in Nat /\ n + 1 \in 1 .. Len(vs) /\ Now(n)
    BY <1>1, <1>4
  <2> DEFINE v == vs[n + 1]
  <2>2. v \in Vars /\ SetKey(v) \in Keys /\ val[v] \in Vals
    BY <1>1, <2>1 DEF Changed, Keys
  <2>3. f[n + 1] = CacheSave(f[n], SetKey(v), val[v])
    BY <1>2, <2>1 DEF SaveVar
  <2>4. /\ IsPending(f[n + 1])
        /\ Saves(f[n + 1]) = {e \in Saves(f[n]) : e.key # SetKey(v)} \cup {SaveOf(v)}
    <3> HIDE DEF v
    <3> QED BY <2>1, <2>2, <2>3, CacheSaveIs DEF SaveOf
  <2>5. \A e : e \in Saves(f[n + 1]) <=>
          \/ e \in Saves(p) /\ \A m \in 1 .. n + 1 : e.key # SetKey(vs[m])
          \/ \E m \in 1 .. n + 1 : e = SaveOf(vs[m])
    <3>1. \A m \in 1 .. n + 1 : SaveOf(vs[m]).key = SetKey(vs[m])
      BY DEF SaveOf
    <3>2. \A m \in 1 .. n : SetKey(vs[m]) = SetKey(v) => SaveOf(vs[m]) = SaveOf(v)
      BY DEF SaveOf, SetKey
    <3>3. 1 .. n + 1 = (1 .. n) \cup {n + 1}
      BY <2>1
    <3> SUFFICES ASSUME NEW e
                 PROVE  e \in Saves(f[n + 1]) <=>
          \/ e \in Saves(p) /\ \A m \in 1 .. n + 1 : e.key # SetKey(vs[m])
          \/ \E m \in 1 .. n + 1 : e = SaveOf(vs[m])
      OBVIOUS
    <3>4. e \in Saves(f[n + 1]) <=> (e \in Saves(f[n]) /\ e.key # SetKey(v)) \/ e = SaveOf(v)
      BY <2>4
    <3>5. e \in Saves(f[n]) <=>
            \/ e \in Saves(p) /\ \A m \in 1 .. n : e.key # SetKey(vs[m])
            \/ \E m \in 1 .. n : e = SaveOf(vs[m])
      BY <2>1
    <3> HIDE DEF Now, T
    <3> QED BY <3>1, <3>2, <3>3, <3>4, <3>5
  <2> QED BY <2>1, <2>4, <2>5
<1>5. Len(vs) \in T
  <2>1. Len(vs) \in Nat
    BY <1>1
  <2> HIDE DEF T
  <2>2. \A n \in 0 .. Len(vs) : n \in T
    BY <1>3, <1>4, <2>1, UpTo
  <2> QED BY <2>1, <2>2
<1>6. Now(Len(vs))
  BY <1>5
<1>7. \A v : v \in Changed <=> \E m \in 1 .. Len(vs) : v = vs[m]
  BY <1>1
<1> QED BY <1>2, <1>6, <1>7

\* The hotkeys' names are no keys of saves: the reset removes nothing.
LEMMA AfterResetSame ==
  ASSUME NEW p, IsPending(p)
  PROVE  AfterReset(p) = p
<1> DEFINE hs == SetToSeq(BoundKeys)
<1>1. hs \in Seq(BoundKeys)
  BY SetToSeqIs, FinSub, FilesAssumption
<1>2. PICK f : /\ f[0] = p
               /\ \A n \in 1 .. Len(hs) : f[n] = CacheRemove(f[n - 1], HotkeyText(hs[n]))
               /\ AfterReset(p) = f[Len(hs)]
  BY AfterResetIs, FilesAssumption
<1> HIDE DEF hs
<1>3. ASSUME NEW h PROVE CacheRemove(p, HotkeyText(h)) = p
  <2>1. \A i \in DOMAIN p : p[i].key \in Keys
    BY EntryIs DEF IsPending
  <2>2. HotkeyText(h) \notin Keys
    BY DEF HotkeyText, Keys, SetKey, BindKey
  <2>3. Pending(p, HotkeyText(h)) = {}
    BY <2>1, <2>2 DEF Pending
  <2> QED BY <2>3 DEF CacheRemove
<1> DEFINE T == {n \in Nat : f[n] = p}
<1>4. 0 \in T
  BY <1>2
<1>5. ASSUME NEW n \in 0 .. Len(hs) - 1, n \in T PROVE n + 1 \in T
  <2>1. n \in Nat /\ n + 1 \in 1 .. Len(hs) /\ f[n] = p
    BY <1>1, <1>5
  <2>2. f[n + 1] = CacheRemove(f[n], HotkeyText(hs[n + 1]))
    BY <1>2, <2>1
  <2> QED BY <1>3, <2>1, <2>2
<1>6. Len(hs) \in T
  <2>1. Len(hs) \in Nat
    BY <1>1
  <2> HIDE DEF T
  <2>2. \A n \in 0 .. Len(hs) : n \in T
    BY <1>4, <1>5, <2>1, UpTo
  <2> QED BY <2>1, <2>2
<1> QED BY <1>2, <1>6

\* A command for a registered key has one of its values.
LEMMA LineIs ==
  ASSUME NEW lines \in Seq(Line), NEW i \in DOMAIN lines, IsCommand(lines[i]), lines[i].key \in Keys
  PROVE  lines[i].val \in Vals
<1>1. lines[i] \in Line
  OBVIOUS
<1> QED BY <1>1, FilesAssumption

\* Reading the file leaves each hotkey it binds pending with the action of its last bind.
LEMMA RunBindsSaves ==
  ASSUME NEW lines \in Seq(Line), NEW p, IsPending(p)
  PROVE  /\ IsPending(RunBinds(lines, p))
         /\ \A h \in Hotkeys : Sets(lines, CfgProfile, BindKey(h)) =>
              [key |-> BindKey(h), val |-> ValueIn(lines, CfgProfile, BindKey(h))] \in Saves(RunBinds(lines, p))
<1>1. PICK f : /\ f[0] = p
               /\ \A n \in 1 .. Len(lines) :
                    f[n] = BindLine(f[n - 1], lines, n)
               /\ RunBinds(lines, p) = f[Len(lines)]
  BY RunBindsIs
<1> DEFINE Bound(i) == [key |-> lines[i].key, val |-> lines[i].val]
           LastBind(i, n) == /\ IsBind(lines, i)
                             /\ \A j \in i + 1 .. n : IsBind(lines, j) => lines[j].key # lines[i].key
           Now(n) == /\ IsPending(f[n])
                     /\ \A i \in 1 .. n : LastBind(i, n) => Bound(i) \in Saves(f[n])
           T == {n \in Nat : Now(n)}
<1>2. 0 \in T
  BY <1>1
<1>3. ASSUME NEW n \in 0 .. Len(lines) - 1, n \in T PROVE n + 1 \in T
  <2>1. n \in Nat /\ n + 1 \in 1 .. Len(lines) /\ Now(n)
    BY <1>3
  <2>2. f[n + 1] = BindLine(f[n], lines, n + 1)
    BY <1>1, <2>1
  <2>3. CASE ~IsBind(lines, n + 1)
    <3>1. \A i \in 1 .. n + 1 : LastBind(i, n + 1) => i \in 1 .. n /\ LastBind(i, n)
      BY <2>1, <2>3
    <3> QED BY <2>1, <2>2, <2>3, <3>1 DEF BindLine
  <2>4. CASE IsBind(lines, n + 1)
    <3>1. n + 1 \in DOMAIN lines /\ IsCommand(lines[n + 1])
      BY <2>1, <2>4 DEF IsBind, Run
    <3>2. lines[n + 1].key \in Keys
      BY <2>4 DEF IsBind, Keys
    <3>3. lines[n + 1].val \in Vals
      BY <3>1, <3>2, LineIs
    <3>4. /\ IsPending(f[n + 1])
          /\ Saves(f[n + 1]) = {e \in Saves(f[n]) : e.key # lines[n + 1].key} \cup {Bound(n + 1)}
      BY <2>1, <2>2, <2>4, <3>2, <3>3, CacheSaveIs DEF BindLine
    <3>5. ASSUME NEW i \in 1 .. n + 1, LastBind(i, n + 1)
          PROVE  Bound(i) \in Saves(f[n + 1])
      <4>1. CASE i = n + 1
        BY <3>4, <4>1
      <4>2. CASE i # n + 1
        <5>1. i \in 1 .. n /\ LastBind(i, n)
          BY <2>1, <3>5, <4>2
        <5>2. lines[i].key # lines[n + 1].key
          BY <2>1, <2>4, <3>5, <5>1
        <5>3. Bound(i) \in Saves(f[n]) /\ Bound(i).key = lines[i].key
          BY <2>1, <5>1
        <5> QED BY <3>4, <5>2, <5>3
      <4> QED BY <4>1, <4>2
    <3> QED BY <2>1, <3>4, <3>5
  <2> QED BY <2>3, <2>4
<1>4. Len(lines) \in T
  <2>1. Len(lines) \in Nat
    OBVIOUS
  <2> HIDE DEF T
  <2>2. \A n \in 0 .. Len(lines) : n \in T
    BY <1>2, <1>3, <2>1, UpTo
  <2> QED BY <2>1, <2>2
<1>5. ASSUME NEW h \in Hotkeys, Sets(lines, CfgProfile, BindKey(h))
      PROVE  [key |-> BindKey(h), val |-> ValueIn(lines, CfgProfile, BindKey(h))] \in Saves(RunBinds(lines, p))
  <2> DEFINE R == RunsOf(lines, CfgProfile, BindKey(h))
             i == Last_(R)
  <2>1. R \in SUBSET (0 .. Len(lines)) /\ R # {}
    BY <1>5 DEF Sets, RunsOf, Run
  <2>2. i \in R /\ \A j \in R : j <= i
    <3> HIDE DEF R
    <3>1. Len(lines) \in Nat
      OBVIOUS
    <3> QED BY <2>1, <3>1, LastIs
  <2>3. \A j \in 1 .. Len(lines) : IsBind(lines, j) /\ lines[j].key = BindKey(h) <=> j \in R
    BY DEF IsBind, RunsOf, Run
  <2>4. i \in 1 .. Len(lines) /\ IsBind(lines, i) /\ lines[i].key = BindKey(h)
    BY <2>2, <2>3 DEF RunsOf, Run
  <2>5. LastBind(i, Len(lines))
    <3> HIDE DEF i, R
    <3> QED BY <2>2, <2>3, <2>4
  <2>6. Now(Len(lines))
    BY <1>4
  <2>7. Bound(i) \in Saves(RunBinds(lines, p))
    <3> HIDE DEF i
    <3> QED BY <1>1, <2>4, <2>5, <2>6
  <2> QED BY <2>4, <2>7 DEF ValueIn
<1> QED BY <1>1, <1>4, <1>5


-----------------------------------------------------------------------------
(* The lines *)

\* Every block has its end.
ClosedLines(lines) ==
  \A i \in DOMAIN lines : lines[i].kind = "if" => \E j \in DOMAIN lines : j > i /\ lines[j] = Fi

\* What set_cmd makes of a file L: the values of commands may differ, and commands follow.
Alike(L, M) ==
  /\ Len(L) <= Len(M)
  /\ \A i \in 1 .. Len(L) :
       M[i] = L[i] \/ (IsCommand(L[i]) /\ IsCommand(M[i]) /\ M[i].key = L[i].key)
  /\ \A i \in Len(L) + 1 .. Len(M) : IsCommand(M[i])

LEMMA CommandIs ==
  /\ \A line : IsCommand(line) => line # Fi /\ line.kind # "if"
  /\ \A k, v : /\ IsCommand(Command(k, v)) /\ Command(k, v).key = k /\ Command(k, v).val = v
  /\ \A k \in Keys, v \in Vals : Command(k, v) \in Line
<1>1. \A line : IsCommand(line) => line # Fi /\ line.kind # "if"
  BY DEF IsCommand, Fi
<1>2. \A k, v : /\ IsCommand(Command(k, v)) /\ Command(k, v).key = k /\ Command(k, v).val = v
  BY DEF IsCommand, Command
<1>3. \A k \in Keys, v \in Vals : Command(k, v) \in Line
  BY DEF Line
<1> QED BY <1>1, <1>2, <1>3

LEMMA AlikeTrans ==
  ASSUME NEW L \in Seq(Line), NEW M \in Seq(Line), NEW N \in Seq(Line), Alike(L, M), Alike(M, N)
  PROVE  Alike(L, N)
<1>1. Len(L) \in Nat /\ Len(M) \in Nat /\ Len(N) \in Nat /\ Len(L) <= Len(N)
  BY DEF Alike
<1>2. ASSUME NEW i \in 1 .. Len(L)
      PROVE  N[i] = L[i] \/ (IsCommand(L[i]) /\ IsCommand(N[i]) /\ N[i].key = L[i].key)
  BY <1>1 DEF Alike
<1>3. ASSUME NEW i \in Len(L) + 1 .. Len(N) PROVE IsCommand(N[i])
  <2>1. CASE i \in Len(M) + 1 .. Len(N)
    BY <2>1 DEF Alike
  <2>2. CASE i \in Len(L) + 1 .. Len(M)
    BY <1>1, <2>2 DEF Alike
  <2> QED BY <1>1, <2>1, <2>2
<1> QED BY <1>1, <1>2, <1>3 DEF Alike

\* Changing a command's value, or adding commands at the end, moves no line into a block or
\* out of one.
LEMMA AlikeBlocks ==
  ASSUME NEW L \in Seq(Line), NEW M \in Seq(Line), Alike(L, M), NEW i \in DOMAIN L
  PROVE  /\ i \in DOMAIN M
         /\ InBlock(L, i) <=> InBlock(M, i)
         /\ \A p : Skipped(L, p, i) <=> Skipped(M, p, i)
         /\ IsCommand(L[i]) <=> IsCommand(M[i])
         /\ M[i].key = L[i].key
<1>1. Len(L) \in Nat /\ Len(M) \in Nat /\ Len(L) <= Len(M) /\ i \in 1 .. Len(L)
  BY DEF Alike
<1>2. \A n \in 1 .. Len(L) : M[n] = L[n] \/ (IsCommand(L[n]) /\ IsCommand(M[n]) /\ M[n].key = L[n].key)
  BY DEF Alike
<1>3. \A n \in 1 .. Len(L) : M[n] = Fi <=> L[n] = Fi
  BY <1>2, CommandIs
<1>4. \A n \in 1 .. Len(L) : (M[n].kind = "if" <=> L[n].kind = "if") /\ (L[n].kind = "if" => M[n] = L[n])
  BY <1>2, CommandIs
<1>5. ASSUME NEW j \in 1 .. Len(L) PROVE Within(M, j, i) <=> Within(L, j, i)
  <2>1. \A n \in j + 1 .. i - 1 : n \in 1 .. Len(L)
    BY <1>1
  <2> QED BY <1>3, <1>4, <2>1 DEF Within
<1>6. \A j \in DOMAIN M : Within(M, j, i) => j \in 1 .. Len(L)
  BY <1>1 DEF Within
<1>7. DOMAIN L = 1 .. Len(L) /\ \A j \in 1 .. Len(L) : j \in DOMAIN M
  BY <1>1
<1>8. InBlock(L, i) <=> InBlock(M, i)
  BY <1>5, <1>6, <1>7 DEF InBlock
<1>9. ASSUME NEW p PROVE Skipped(L, p, i) <=> Skipped(M, p, i)
  <2>1. \A j \in 1 .. Len(L) : Within(L, j, i) => M[j] = L[j]
    BY <1>4 DEF Within
  <2> QED BY <1>5, <1>6, <1>7, <2>1 DEF Skipped
<1> QED BY <1>1, <1>2, <1>7, <1>8, <1>9

\* What is added behind a file whose blocks are closed is in no block.
LEMMA AddedAtTop ==
  ASSUME NEW L \in Seq(Line), NEW M \in Seq(Line), Alike(L, M), ClosedLines(L)
  PROVE  /\ ClosedLines(M)
         /\ \A i \in Len(L) + 1 .. Len(M) : ~InBlock(M, i) /\ \A p : ~Skipped(M, p, i)
<1>1. Len(L) \in Nat /\ Len(M) \in Nat /\ Len(L) <= Len(M)
  BY DEF Alike
<1>2. ASSUME NEW j \in DOMAIN M, M[j].kind = "if"
      PROVE  \E n \in 1 .. Len(L) : n \in DOMAIN M /\ n > j /\ M[n] = Fi
  <2>1. ~IsCommand(M[j])
    BY <1>2, CommandIs
  <2>2. j \in 1 .. Len(L)
    BY <1>1, <2>1 DEF Alike
  <2>3. L[j].kind = "if"
    BY <1>2, <2>1, <2>2 DEF Alike
  <2>4. PICK n \in DOMAIN L : n > j /\ L[n] = Fi
    BY <2>2, <2>3 DEF ClosedLines
  <2>5. n \in 1 .. Len(L) /\ n \in DOMAIN M /\ ~IsCommand(L[n])
    BY <1>1, <2>4, CommandIs
  <2>6. M[n] = L[n]
    BY <2>5 DEF Alike
  <2> QED BY <2>4, <2>5, <2>6
<1>3. ASSUME NEW i \in Len(L) + 1 .. Len(M), NEW j \in DOMAIN M PROVE ~Within(M, j, i)
  <2> SUFFICES ASSUME Within(M, j, i) PROVE FALSE
    OBVIOUS
  <2>1. PICK n \in 1 .. Len(L) : n \in DOMAIN M /\ n > j /\ M[n] = Fi
    BY <1>2 DEF Within
  <2>2. n \in j + 1 .. i - 1
    BY <1>1, <2>1
  <2> QED BY <2>1, <2>2 DEF Within
<1> QED BY <1>2, <1>3 DEF ClosedLines, InBlock, Skipped

\* set_cmd: the first line outside the blocks that has the key gets the value, or a line
\* is added; it never takes the line of another key, nor one in a block.
LEMMA SetCmdIs ==
  ASSUME NEW L \in Seq(Line), NEW e \in Entry
  PROVE  LET M == SetCmd(L, e)
             n == First_(Matching(L, e.key))
             new == Command(e.key, e.val)
         IN  /\ M \in Seq(Line) /\ Alike(L, M)
             /\ \/ /\ Matching(L, e.key) = {}
                   /\ Len(M) = Len(L) + 1 /\ M[Len(M)] = new
                   /\ \A i \in DOMAIN L : M[i] = L[i]
                \/ /\ Matching(L, e.key) # {}
                   /\ n \in Matching(L, e.key)
                   /\ L[n].key = e.key
                   /\ Len(M) = Len(L) /\ M[n] = new
                   /\ \A i \in DOMAIN L : i # n => M[i] = L[i]
<1> DEFINE M == SetCmd(L, e)
           n == First_(Matching(L, e.key))
           new == Command(e.key, e.val)
<1>0. new \in Line /\ IsCommand(new) /\ new.key = e.key /\ Len(L) \in Nat
  <2>1. e.key \in Keys /\ e.val \in Vals
    BY EntryIs
  <2> QED BY <2>1, CommandIs
<1>1. CASE Matching(L, e.key) = {}
  <2>1. M = Append(L, new)
    BY <1>1 DEF SetCmd
  <2> HIDE DEF M, new
  <2>2. M \in Seq(Line) /\ Len(M) = Len(L) + 1 /\ M[Len(L) + 1] = new /\ \A i \in 1 .. Len(L) : M[i] = L[i]
    BY <1>0, <2>1
  <2>3. Alike(L, M)
    BY <1>0, <2>2 DEF Alike
  <2> QED BY <1>0, <1>1, <2>2, <2>3 DEF M, new
<1>2. CASE Matching(L, e.key) # {}
  <2>1. n \in Matching(L, e.key)
    <3>1. Matching(L, e.key) \in SUBSET Nat
      BY DEF Matching
    <3> QED BY <1>2, <3>1, FirstIs
  <2>2. n \in DOMAIN L /\ IsCommand(L[n])
    BY <2>1 DEF Matching
  <2>3. L[n].key = e.key
    <3>1. L[n] \in Line /\ e.key \in Keys
      BY <2>2, EntryIs
    <3>2. <<L[n].key, e.key>> \notin StartsWith
      BY <2>2, <3>1, FilesAssumption
    <3> QED BY <2>1, <3>2 DEF Matching
  <2>4. M = [L EXCEPT ![n] = new]
    BY <1>2 DEF SetCmd
  <2> HIDE DEF M, new, n
  <2>5. M \in Seq(Line) /\ Len(M) = Len(L) /\ M[n] = new /\ \A i \in 1 .. Len(L) : i # n => M[i] = L[i]
    BY <1>0, <2>2, <2>4
  <2>6. Alike(L, M)
    BY <1>0, <2>2, <2>3, <2>5 DEF Alike
  <2> QED BY <1>0, <1>2, <2>1, <2>3, <2>5, <2>6 DEF M, new, n
<1> QED BY <1>1, <1>2


\* The lines set_cmd may take are the commands of the key itself outside the blocks.
LEMMA MatchingIs ==
  ASSUME NEW L \in Seq(Line), NEW k \in Keys
  PROVE  /\ \A i : i \in Matching(L, k) <=>
              i \in DOMAIN L /\ IsCommand(L[i]) /\ ~InBlock(L, i) /\ L[i].key = k
         /\ Matching(L, k) # {} => First_(Matching(L, k)) \in Matching(L, k)
<1>1. ASSUME NEW i \in DOMAIN L, IsCommand(L[i]) PROVE <<L[i].key, k>> \notin StartsWith
  <2>1. L[i] \in Line
    OBVIOUS
  <2> QED BY <1>1, <2>1, FilesAssumption
<1>2. \A i : i \in Matching(L, k) <=>
              i \in DOMAIN L /\ IsCommand(L[i]) /\ ~InBlock(L, i) /\ L[i].key = k
  BY <1>1 DEF Matching
<1>3. Matching(L, k) \in SUBSET Nat
  BY DEF Matching
<1> QED BY <1>2, <1>3, FirstIs

\* set_cmd never gives a key a second line outside the blocks.
LEMMA SetCmdTop ==
  ASSUME NEW L \in Seq(Line), OnceAtTop(L), NEW e \in Entry
  PROVE  OnceAtTop(SetCmd(L, e))
<1> DEFINE M == SetCmd(L, e)
           n == First_(Matching(L, e.key))
           new == Command(e.key, e.val)
           Top(N, i) == ~InBlock(N, i) /\ IsCommand(N[i])
<1>0. e.key \in Keys
  BY EntryIs
<1>1. M \in Seq(Line) /\ Alike(L, M)
  BY SetCmdIs
<1> HIDE DEF M
<1>2. \A i \in DOMAIN L : (Top(M, i) <=> Top(L, i)) /\ M[i].key = L[i].key
  BY <1>1, AlikeBlocks
<1>3. ASSUME NEW i \in DOMAIN L, NEW j \in DOMAIN L, Top(M, i), M[i].key \in Keys, Top(M, j), M[j].key = M[i].key
      PROVE  i = j
  BY <1>2, <1>3 DEF OnceAtTop
<1>4. CASE Matching(L, e.key) # {}
  <2>1. DOMAIN M = DOMAIN L
    <3>1. Len(M) = Len(L)
      BY <1>4, SetCmdIs DEF M
    <3> QED BY <1>1, <3>1
  <2> QED BY <1>3, <2>1 DEF OnceAtTop, M
<1>5. CASE Matching(L, e.key) = {}
  <2>1. Len(L) \in Nat /\ Len(M) = Len(L) + 1 /\ M[Len(M)] = new
    BY <1>5, SetCmdIs DEF M
  <2>2. M[Len(M)].key = e.key
    BY <2>1, CommandIs
  <2>3. ASSUME NEW j \in DOMAIN L, Top(M, j) PROVE M[j].key # e.key
    BY <1>0, <1>2, <1>5, <2>3, MatchingIs
  <2>4. \A i \in DOMAIN M : i \in DOMAIN L \/ i = Len(M)
    BY <1>1, <2>1
  <2> HIDE DEF Top
  <2>5. \A i, j \in DOMAIN M : Top(M, i) /\ Top(M, j) /\ M[i].key \in Keys /\ M[j].key = M[i].key => i = j
    BY <1>3, <2>2, <2>3, <2>4
  <2> QED BY <2>5 DEF OnceAtTop, Top, M
<1> QED BY <1>4, <1>5

\* Nor does a flush.
LEMMA SetAllTop ==
  ASSUME NEW L \in Seq(Line), OnceAtTop(L), NEW p \in Seq(Entry)
  PROVE  /\ SetAll(L, p) \in Seq(Line) /\ Alike(L, SetAll(L, p))
         /\ OnceAtTop(SetAll(L, p))
<1>1. PICK f : /\ f[0] = L
               /\ \A n \in 1 .. Len(p) : f[n] = SetCmd(f[n - 1], p[n])
               /\ SetAll(L, p) = f[Len(p)]
  BY SetAllIs
<1> DEFINE Now(M) == M \in Seq(Line) /\ Alike(L, M) /\ OnceAtTop(M)
           T == {n \in Nat : Now(f[n])}
<1>2. 0 \in T
  <2>1. Alike(L, L)
    BY DEF Alike
  <2> QED BY <1>1, <2>1
<1>3. ASSUME NEW n \in 0 .. Len(p) - 1, n \in T PROVE n + 1 \in T
  <2>1. n \in Nat /\ n + 1 \in 1 .. Len(p) /\ Now(f[n]) /\ p[n + 1] \in Entry
    BY <1>3
  <2>2. f[n + 1] = SetCmd(f[n], p[n + 1])
    BY <1>1, <2>1
  <2>3. f[n + 1] \in Seq(Line) /\ Alike(f[n], f[n + 1])
    BY <2>1, <2>2, SetCmdIs
  <2>4. OnceAtTop(f[n + 1])
    BY <2>1, <2>2, SetCmdTop
  <2>5. Alike(L, f[n + 1])
    BY <2>1, <2>3, AlikeTrans
  <2> QED BY <2>1, <2>3, <2>4, <2>5
<1>4. Len(p) \in T
  <2>1. Len(p) \in Nat
    OBVIOUS
  <2>2. \A n \in 0 .. Len(p) : n \in T
    BY <1>2, <1>3, <2>1, UpTo
  <2> QED BY <2>1, <2>2
<1> QED BY <1>1, <1>4

\* What the first n of the saves p make of a file L, its blocks closed: they keep every line
\* but the one each save finds, add the others at the end, and each line they wrote is theirs.
SaveLine(e) == Command(e.key, e.val)
At(L, e)    == First_(Matching(L, e.key))

Written(L, p, n, M) ==
  /\ M \in Seq(Line) /\ Alike(L, M)
  /\ \A i \in DOMAIN L : M[i] # L[i] =>
       \E m \in 1 .. n : Matching(L, p[m].key) # {} /\ i = At(L, p[m])
  /\ \A i \in Len(L) + 1 .. Len(M) :
       \E m \in 1 .. n : M[i] = SaveLine(p[m]) /\ Matching(L, p[m].key) = {}
  /\ \A m \in 1 .. n :
       \/ Matching(L, p[m].key) # {} /\ M[At(L, p[m])] = SaveLine(p[m])
       \/ Matching(L, p[m].key) = {} /\ \E i \in Len(L) + 1 .. Len(M) : M[i] = SaveLine(p[m])
  /\ \A i, j \in Len(L) + 1 .. Len(M) : M[i].key = M[j].key => i = j

LEMMA WrittenStep ==
  ASSUME NEW L \in Seq(Line), ClosedLines(L), NEW p, IsPending(p), NEW n \in Nat, n + 1 \in DOMAIN p,
         NEW M, Written(L, p, n, M)
  PROVE  Written(L, p, n + 1, SetCmd(M, p[n + 1]))
<1> DEFINE e == p[n + 1]
           N == SetCmd(M, e)
<1>0. /\ e \in Entry /\ e.key \in Keys /\ Len(p) \in Nat /\ DOMAIN p = 1 .. Len(p)
      /\ \A m \in 1 .. n : p[m] \in Entry /\ p[m].key \in Keys /\ p[m].key # e.key
  <2>1. p \in Seq(Entry) /\ \A m \in DOMAIN p : p[m] \in Entry
    BY DEF IsPending
  <2>2. \A m \in 1 .. n : m \in DOMAIN p /\ m # n + 1
    BY <2>1
  <2>3. \A m \in 1 .. n : p[m].key # p[n + 1].key
    BY <2>2 DEF IsPending, OnePending
  <2> QED BY <2>1, <2>2, <2>3, EntryIs
<1> HIDE DEF e
<1>1. M \in Seq(Line) /\ Alike(L, M) /\ Len(L) \in Nat /\ Len(M) \in Nat /\ Len(L) <= Len(M)
  BY DEF Written, Alike
<1>2. \A m \in 1 .. n : SaveLine(p[m]).key # e.key /\ SaveLine(e).key = e.key
  BY <1>0, CommandIs DEF SaveLine
<1>3. Matching(M, e.key) = Matching(L, e.key)
  <2>1. \A i \in Len(L) + 1 .. Len(M) : M[i].key # e.key
    BY <1>2 DEF Written
  <2>2. \A i \in DOMAIN L : i \in Matching(M, e.key) <=> i \in Matching(L, e.key)
    BY <1>0, <1>1, AlikeBlocks, MatchingIs
  <2>3. \A i \in DOMAIN M : i \in DOMAIN L \/ i \in Len(L) + 1 .. Len(M)
    BY <1>1
  <2>4. \A i : i \in Matching(M, e.key) => i \in DOMAIN M /\ M[i].key = e.key
    BY <1>0, <1>1, MatchingIs
  <2>5. \A i : i \in Matching(L, e.key) => i \in DOMAIN L
    BY <1>0, MatchingIs
  <2>6. \A i : i \in Matching(M, e.key) <=> i \in Matching(L, e.key)
    BY <2>1, <2>2, <2>3, <2>4, <2>5
  <2> QED BY <2>6
<1>4. N \in Seq(Line) /\ Alike(M, N)
  BY <1>0, <1>1, SetCmdIs
<1>5. Alike(L, N)
  BY <1>1, <1>4, AlikeTrans
<1>6. \A m \in 1 .. n : Matching(L, p[m].key) # {} =>
        /\ At(L, p[m]) \in DOMAIN L /\ L[At(L, p[m])].key = p[m].key
  BY <1>0, MatchingIs DEF At
<1>7. 1 .. n + 1 = (1 .. n) \cup {n + 1}
  OBVIOUS
<1>10. \A i \in Len(L) + 1 .. Len(M) :
         \E m \in 1 .. n : M[i] = SaveLine(p[m]) /\ Matching(L, p[m].key) = {}
  BY DEF Written
<1>11. \A m \in 1 .. n :
         \/ Matching(L, p[m].key) # {} /\ M[At(L, p[m])] = SaveLine(p[m])
         \/ Matching(L, p[m].key) = {} /\ \E i \in Len(L) + 1 .. Len(M) : M[i] = SaveLine(p[m])
  BY DEF Written
<1>12. p[n + 1] = e
  BY DEF e
<1>8. CASE Matching(L, e.key) = {}
  <2>1. Len(N) = Len(M) + 1 /\ N[Len(N)] = SaveLine(e) /\ \A i \in DOMAIN M : N[i] = M[i]
    BY <1>0, <1>1, <1>3, <1>8, SetCmdIs DEF SaveLine
  <2> HIDE DEF N
  <2>2. /\ \A i \in DOMAIN L : N[i] = M[i]
        /\ \A i \in Len(L) + 1 .. Len(N) : i = Len(N) \/ (i \in Len(L) + 1 .. Len(M) /\ N[i] = M[i])
        /\ \A i \in Len(L) + 1 .. Len(M) : i \in Len(L) + 1 .. Len(N) /\ N[i] = M[i]
        /\ Len(N) \in Len(L) + 1 .. Len(N)
    BY <1>1, <2>1
  <2>3. \A i \in DOMAIN L : N[i] # L[i] =>
          \E m \in 1 .. n + 1 : Matching(L, p[m].key) # {} /\ i = At(L, p[m])
    BY <1>7, <2>2 DEF Written
  <2>4. ASSUME NEW i \in Len(L) + 1 .. Len(N)
        PROVE  \E m \in 1 .. n + 1 : N[i] = SaveLine(p[m]) /\ Matching(L, p[m].key) = {}
    <3>1. CASE i = Len(N)
      BY <1>7, <1>8, <1>12, <2>1, <3>1
    <3>2. CASE i \in Len(L) + 1 .. Len(M) /\ N[i] = M[i]
      BY <1>7, <1>10, <3>2
    <3> QED BY <2>2, <3>1, <3>2
  <2>5. ASSUME NEW m \in 1 .. n + 1
        PROVE  \/ Matching(L, p[m].key) # {} /\ N[At(L, p[m])] = SaveLine(p[m])
               \/ Matching(L, p[m].key) = {} /\ \E i \in Len(L) + 1 .. Len(N) : N[i] = SaveLine(p[m])
    <3>1. CASE m = n + 1
      BY <1>8, <1>12, <2>1, <2>2, <3>1
    <3>2. CASE m \in 1 .. n
      <4>1. CASE Matching(L, p[m].key) # {}
        BY <1>6, <1>11, <2>2, <3>2, <4>1
      <4>2. CASE Matching(L, p[m].key) = {}
        BY <1>11, <2>2, <3>2, <4>2
      <4> QED BY <4>1, <4>2
    <3> QED BY <1>7, <3>1, <3>2
  <2>6. ASSUME NEW i \in Len(L) + 1 .. Len(N), NEW j \in Len(L) + 1 .. Len(N), N[i].key = N[j].key
        PROVE  i = j
    <3>1. \A l \in Len(L) + 1 .. Len(M) : M[l].key # SaveLine(e).key
      BY <1>2 DEF Written
    <3> QED BY <2>1, <2>2, <2>6, <3>1 DEF Written
  <2> QED BY <1>4, <1>5, <2>3, <2>4, <2>5, <2>6 DEF Written, e, N
<1>9. CASE Matching(L, e.key) # {}
  <2> DEFINE a == At(L, e)
  <2>1. /\ a \in DOMAIN L /\ L[a].key = e.key
        /\ Len(N) = Len(M) /\ N[a] = SaveLine(e)
        /\ \A i \in DOMAIN M : i # a => N[i] = M[i]
    <3>1. a \in DOMAIN L /\ L[a].key = e.key
      BY <1>0, <1>9, MatchingIs DEF At
    <3>2. Len(N) = Len(M) /\ N[a] = SaveLine(e) /\ \A i \in DOMAIN M : i # a => N[i] = M[i]
      <4>1. At(M, e) = a /\ Matching(M, e.key) # {}
        BY <1>3, <1>9 DEF At
      <4>2. Len(N) = Len(M) /\ N[At(M, e)] = SaveLine(e) /\ \A i \in DOMAIN M : i # At(M, e) => N[i] = M[i]
        BY <1>0, <1>1, <4>1, SetCmdIs DEF SaveLine, At
      <4> QED BY <4>1, <4>2
    <3> QED BY <3>1, <3>2
  <2> HIDE DEF N, a
  <2>2. /\ \A i \in DOMAIN L : i # a => N[i] = M[i]
        /\ \A i \in Len(L) + 1 .. Len(M) : N[i] = M[i]
    BY <1>1, <2>1
  <2>3. \A m \in 1 .. n : Matching(L, p[m].key) # {} => At(L, p[m]) # a
    BY <1>0, <1>6, <2>1
  <2>4. ASSUME NEW i \in DOMAIN L, N[i] # L[i]
        PROVE  \E m \in 1 .. n + 1 : Matching(L, p[m].key) # {} /\ i = At(L, p[m])
    <3>1. CASE i = a
      BY <1>7, <1>9, <3>1 DEF a, e
    <3>2. CASE i # a
      BY <1>7, <2>2, <2>4, <3>2 DEF Written
    <3> QED BY <3>1, <3>2
  <2>5. ASSUME NEW i \in Len(L) + 1 .. Len(N)
        PROVE  \E m \in 1 .. n + 1 : N[i] = SaveLine(p[m]) /\ Matching(L, p[m].key) = {}
    <3>1. i \in Len(L) + 1 .. Len(M) /\ N[i] = M[i]
      BY <2>1, <2>2
    <3>2. PICK m \in 1 .. n : M[i] = SaveLine(p[m]) /\ Matching(L, p[m].key) = {}
      BY <1>10, <3>1
    <3>3. m \in 1 .. n + 1
      BY <1>7
    <3> QED BY <3>1, <3>2, <3>3
  <2>6. ASSUME NEW m \in 1 .. n + 1
        PROVE  \/ Matching(L, p[m].key) # {} /\ N[At(L, p[m])] = SaveLine(p[m])
               \/ Matching(L, p[m].key) = {} /\ \E i \in Len(L) + 1 .. Len(N) : N[i] = SaveLine(p[m])
    <3>1. CASE m = n + 1
      BY <1>9, <1>12, <2>1, <3>1 DEF a
    <3>2. CASE m \in 1 .. n
      <4>1. CASE Matching(L, p[m].key) # {}
        BY <1>6, <1>11, <2>2, <2>3, <3>2, <4>1
      <4>2. CASE Matching(L, p[m].key) = {}
        BY <1>11, <2>1, <2>2, <3>2, <4>2
      <4> QED BY <4>1, <4>2
    <3> QED BY <1>7, <3>1, <3>2
  <2>7. \A i, j \in Len(L) + 1 .. Len(N) : N[i].key = N[j].key => i = j
    BY <2>1, <2>2 DEF Written
  <2> QED BY <1>4, <1>5, <2>4, <2>5, <2>6, <2>7 DEF Written, e, N
<1> QED BY <1>8, <1>9 DEF e

\* config_flush writes every save, each to its line.
LEMMA SetAllWritten ==
  ASSUME NEW L \in Seq(Line), ClosedLines(L), NEW p, IsPending(p)
  PROVE  Written(L, p, Len(p), SetAll(L, p))
<1>0. p \in Seq(Entry)
  BY DEF IsPending
<1>1. PICK f : /\ f[0] = L
               /\ \A n \in 1 .. Len(p) : f[n] = SetCmd(f[n - 1], p[n])
               /\ SetAll(L, p) = f[Len(p)]
  BY <1>0, SetAllIs
<1> DEFINE T == {n \in Nat : Written(L, p, n, f[n])}
<1>2. 0 \in T
  BY <1>1 DEF Written, Alike
<1>3. ASSUME NEW n \in 0 .. Len(p) - 1, n \in T PROVE n + 1 \in T
  <2>1. n \in Nat /\ n + 1 \in DOMAIN p /\ n + 1 \in 1 .. Len(p) /\ Written(L, p, n, f[n])
    BY <1>0, <1>3
  <2>2. f[n + 1] = SetCmd(f[n], p[n + 1])
    BY <1>1, <2>1
  <2> QED BY <2>1, <2>2, WrittenStep
<1>4. Len(p) \in T
  <2>1. Len(p) \in Nat
    BY <1>0
  <2>2. \A n \in 0 .. Len(p) : n \in T
    BY <1>2, <1>3, <2>1, UpTo
  <2> QED BY <2>1, <2>2
<1> QED BY <1>1, <1>4


\* A flush leaves what reading the file gives a key that has no save as it was.
LEMMA FlushKeepsOthers ==
  ASSUME NEW L \in Seq(Line), ClosedLines(L), NEW p, IsPending(p), NEW who,
         NEW k \in Keys, Pending(p, k) = {}
  PROVE  LET M == SetAll(L, p) IN
         /\ Sets(M, who, k) <=> Sets(L, who, k)
         /\ Sets(L, who, k) => ValueIn(M, who, k) = ValueIn(L, who, k)
<1> DEFINE M == SetAll(L, p)
<1>1. Written(L, p, Len(p), M)
  BY SetAllWritten
<1> HIDE DEF M
<1>2. M \in Seq(Line) /\ Alike(L, M) /\ p \in Seq(Entry) /\ Len(L) \in Nat
  BY <1>1 DEF Written, IsPending
<1>3. \A m \in 1 .. Len(p) : p[m].key \in Keys /\ p[m].key # k
  BY <1>2, EntryIs DEF Pending
<1>4. ASSUME NEW i \in RunsOf(M, who, k) PROVE i \in DOMAIN L
  <2>1. i \in DOMAIN M /\ M[i].key = k
    BY DEF RunsOf, Run
  <2>2. ASSUME i \in Len(L) + 1 .. Len(M) PROVE FALSE
    <3>1. PICK m \in 1 .. Len(p) : M[i] = SaveLine(p[m])
      BY <1>1, <2>2 DEF Written
    <3>2. M[i].key = p[m].key
      BY <3>1, CommandIs DEF SaveLine
    <3> QED BY <1>3, <2>1, <3>2
  <2> QED BY <1>2, <2>1, <2>2
<1>5. ASSUME NEW i \in DOMAIN L PROVE i \in RunsOf(M, who, k) <=> i \in RunsOf(L, who, k)
  BY <1>2, AlikeBlocks DEF RunsOf, Run
<1>6. \A i : i \in RunsOf(L, who, k) => i \in DOMAIN L
  BY DEF RunsOf, Run
<1>7. RunsOf(M, who, k) = RunsOf(L, who, k)
  BY <1>4, <1>5, <1>6
<1>8. ASSUME Sets(L, who, k) PROVE ValueIn(M, who, k) = ValueIn(L, who, k)
  <2> DEFINE R == RunsOf(L, who, k)
             i == Last_(R)
  <2>1. R \in SUBSET (0 .. Len(L)) /\ R # {}
    BY <1>8 DEF Sets, RunsOf, Run
  <2>2. i \in R
    <3> HIDE DEF R
    <3> QED BY <1>2, <2>1, LastIs
  <2>3. i \in DOMAIN L /\ L[i].key = k
    BY <2>2 DEF RunsOf, Run
  <2> HIDE DEF i, R
  <2>4. ASSUME M[i] # L[i] PROVE FALSE
    <3>1. PICK m \in 1 .. Len(p) : Matching(L, p[m].key) # {} /\ i = At(L, p[m])
      BY <1>1, <2>3, <2>4 DEF Written
    <3>2. L[i].key = p[m].key
      BY <1>3, <3>1, MatchingIs DEF At
    <3> QED BY <1>3, <2>3, <3>2
  <2>5. M[i] = L[i]
    BY <2>4
  <2> QED BY <1>7, <2>5 DEF ValueIn, i, R
<1> QED BY <1>7, <1>8 DEF Sets, M

\* A flush writes a key's save where reading the file finds it last, unless a command of a
\* block behind the line it took sets the key again: then the start has the saved value.
THEOREM FlushReadsBack ==
  ASSUME NEW L \in Seq(Line), ClosedLines(L), NEW p, IsPending(p), NEW who, NEW e \in Saves(p),
         ~ /\ Matching(L, e.key) # {}
           /\ \E i \in RunsOf(L, who, e.key) : i > First_(Matching(L, e.key))
  PROVE  Sets(SetAll(L, p), who, e.key) /\ ValueIn(SetAll(L, p), who, e.key) = e.val
<1> DEFINE M == SetAll(L, p)
           k == e.key
<1>1. Written(L, p, Len(p), M)
  BY SetAllWritten
<1> HIDE DEF M
<1>2. /\ M \in Seq(Line) /\ Alike(L, M) /\ p \in Seq(Entry) /\ OnePending(p)
      /\ Len(L) \in Nat /\ Len(M) \in Nat
  BY <1>1 DEF Written, IsPending
<1>3. PICK m \in 1 .. Len(p) : e = p[m]
  BY <1>2 DEF Saves
<1>4. k \in Keys /\ SaveLine(e).key = k /\ SaveLine(e).val = e.val /\ IsCommand(SaveLine(e))
  BY <1>2, <1>3, EntryIs, CommandIs DEF SaveLine
<1>5. SUFFICES \E l \in RunsOf(M, who, k) : M[l] = SaveLine(e) /\ \A i \in RunsOf(M, who, k) : i <= l
  <2>1. PICK l \in RunsOf(M, who, k) : M[l] = SaveLine(e) /\ \A i \in RunsOf(M, who, k) : i <= l
    BY <1>5
  <2> DEFINE R == RunsOf(M, who, k)
  <2>2. R \in SUBSET (0 .. Len(M)) /\ R # {} /\ l \in Nat
    <3>1. R \in SUBSET (DOMAIN M) /\ DOMAIN M = 1 .. Len(M)
      BY <1>2 DEF RunsOf, Run
    <3> QED BY <1>2, <2>1, <3>1
  <2>3. Last_(R) \in R /\ \A j \in R : j <= Last_(R)
    <3> HIDE DEF R
    <3> QED BY <1>2, <2>2, LastIs
  <2>4. Last_(R) = l
    <3>1. Last_(R) \in Nat /\ Last_(R) <= l /\ l <= Last_(R)
      BY <2>1, <2>2, <2>3
    <3> QED BY <2>2, <3>1
  <2> QED BY <1>4, <2>1, <2>4 DEF Sets, ValueIn, M
<1>6. CASE Matching(L, k) # {}
  <2> DEFINE l == At(L, e)
  <2>1. M[l] = SaveLine(e)
    BY <1>1, <1>3, <1>6 DEF Written
  <2>2. l \in DOMAIN L /\ IsCommand(L[l]) /\ ~InBlock(L, l) /\ L[l].key = k
    BY <1>4, <1>6, MatchingIs DEF At
  <2>3. ~(\E i \in RunsOf(L, who, k) : i > l)
    BY <1>6 DEF At
  <2> HIDE DEF l
  <2>4. ~Skipped(L, who, l)
    BY <2>2 DEF Skipped, InBlock
  <2>5. l \in RunsOf(M, who, k)
    BY <1>2, <2>2, <2>4, AlikeBlocks DEF RunsOf, Run
  <2>6. ASSUME NEW i \in RunsOf(M, who, k) PROVE i <= l
    <3>1. i \in DOMAIN M /\ M[i].key = k
      BY DEF RunsOf, Run
    <3>2. ASSUME i \in Len(L) + 1 .. Len(M) PROVE FALSE
      <4>1. PICK n \in 1 .. Len(p) : M[i] = SaveLine(p[n]) /\ Matching(L, p[n].key) = {}
        BY <1>1, <3>2 DEF Written
      <4>2. p[n].key = k
        BY <3>1, <4>1, CommandIs DEF SaveLine
      <4> QED BY <1>6, <4>1, <4>2
    <3>3. i \in DOMAIN L
      BY <1>2, <3>1, <3>2
    <3>4. i \in RunsOf(L, who, k)
      BY <1>2, <3>3, AlikeBlocks DEF RunsOf, Run
    <3> QED BY <1>2, <2>2, <2>3, <3>3, <3>4
  <2> QED BY <2>1, <2>5, <2>6
<1>7. CASE Matching(L, k) = {}
  <2>1. PICK l \in Len(L) + 1 .. Len(M) : M[l] = SaveLine(e)
    BY <1>1, <1>3, <1>7 DEF Written
  <2>2. ~Skipped(M, who, l)
    BY <1>2, AddedAtTop
  <2>3. l \in RunsOf(M, who, k)
    BY <1>2, <1>4, <2>1, <2>2 DEF RunsOf, Run
  <2>4. ASSUME NEW i \in RunsOf(M, who, k) PROVE i <= l
    <3>1. i \in DOMAIN M /\ M[i].key = k
      BY DEF RunsOf, Run
    <3>2. CASE i \in Len(L) + 1 .. Len(M)
      BY <1>1, <1>4, <2>1, <3>1, <3>2 DEF Written
    <3>3. CASE i \in 1 .. Len(L)
      BY <1>2, <2>1, <3>3
    <3> QED BY <1>2, <3>1, <3>2, <3>3
  <2> QED BY <2>1, <2>3, <2>4
<1> QED BY <1>6, <1>7

\* A flush leaves the lines of the blocks alone.
LEMMA FlushKeepsBlocks ==
  ASSUME NEW L \in Seq(Line), ClosedLines(L), NEW p, IsPending(p)
  PROVE  BlockLines(SetAll(L, p)) = BlockLines(L)
<1> DEFINE M == SetAll(L, p)
<1>1. Written(L, p, Len(p), M)
  BY SetAllWritten
<1> HIDE DEF M
<1>2. M \in Seq(Line) /\ Alike(L, M) /\ p \in Seq(Entry) /\ Len(L) \in Nat
  BY <1>1 DEF Written, IsPending
<1>3. \A j : j \in DOMAIN M /\ InBlock(M, j) => j \in DOMAIN L
  BY <1>2, AddedAtTop
<1>4. \A j \in DOMAIN L : j \in DOMAIN M /\ (InBlock(M, j) <=> InBlock(L, j))
  BY <1>2, AlikeBlocks
<1>5. {j \in DOMAIN M : InBlock(M, j)} = {j \in DOMAIN L : InBlock(L, j)}
  BY <1>3, <1>4
<1>6. ASSUME NEW i \in DOMAIN L, InBlock(L, i) PROVE M[i] = L[i]
  <2> SUFFICES ASSUME M[i] # L[i] PROVE FALSE
    OBVIOUS
  <2>1. PICK m \in 1 .. Len(p) : Matching(L, p[m].key) # {} /\ i = At(L, p[m])
    BY <1>1 DEF Written
  <2>2. p[m].key \in Keys
    BY <1>2, EntryIs
  <2> QED BY <1>6, <2>1, <2>2, MatchingIs DEF At
<1> QED BY <1>5, <1>6 DEF BlockLines, M


-----------------------------------------------------------------------------
(* The file and the saves never have a key twice *)

FileOK(f, none) == f = none \/ (f \in Seq(Line) /\ OnceAtTop(f))

TypesInv ==
  /\ val \in [Vars -> Vals] /\ mark \in [Vars -> Nat]
  /\ bound \in [Hotkeys -> Vals \cup {Unbound}]
  /\ profile \in Profiles /\ started \in BOOLEAN /\ drifted \in SUBSET Keys
  /\ IsPending(pending)
  /\ FileOK(file, NoFile) /\ FileOK(unwritten, NoLines)

LEMMA KeyIs ==
  /\ \A v \in Vars : SetKey(v) \in Keys
  /\ \A h \in Hotkeys : BindKey(h) \in Keys
BY DEF Keys

LEMMA NonePending ==
  IsPending(<<>>) /\ Saves(<<>>) = {}
<1>1. DOMAIN <<>> = {} /\ <<>> \in Seq(Entry)
  OBVIOUS
<1> QED BY <1>1 DEF IsPending, OnePending, Saves

\* What a file sets a registered key to is one of its values.
LEMMA ValueIs ==
  ASSUME NEW L \in Seq(Line), NEW who, NEW k \in Keys, Sets(L, who, k)
  PROVE  ValueIn(L, who, k) \in Vals
<1> DEFINE R == RunsOf(L, who, k)
           i == Last_(R)
<1>1. R \in SUBSET (0 .. Len(L)) /\ R # {} /\ Len(L) \in Nat
  <2>1. R \in SUBSET (DOMAIN L) /\ DOMAIN L = 1 .. Len(L)
    BY DEF RunsOf, Run
  <2> QED BY <2>1 DEF Sets
<1>2. i \in R
  <2> HIDE DEF R
  <2> QED BY <1>1, LastIs
<1>3. i \in DOMAIN L /\ IsCommand(L[i]) /\ L[i].key = k
  BY <1>2 DEF RunsOf, Run
<1> HIDE DEF i
<1>4. L[i].val \in Vals
  BY <1>3, LineIs
<1> QED BY <1>4 DEF ValueIn, i

LEMMA FileIs ==
  ASSUME FileOK(file, NoFile), FileOK(unwritten, NoLines)
  PROVE  /\ file # NoFile => file \in Seq(Line) /\ OnceAtTop(file)
         /\ LinesRead \in Seq(Line) /\ OnceAtTop(LinesRead)
<1>1. EmptyLine \in Line /\ ~IsCommand(EmptyLine)
  BY DEF Line, EmptyLine, IsCommand
<1> DEFINE one == <<EmptyLine>>
<1>2. one \in Seq(Line) /\ DOMAIN one = {1} /\ one[1] = EmptyLine
  BY <1>1
<1>3. OnceAtTop(one)
  <2> HIDE DEF one
  <2> QED BY <1>1, <1>2 DEF OnceAtTop
<1> QED BY <1>2, <1>3 DEF FileOK, LinesRead

LEMMA NewFileIs ==
  /\ \A f \in UserFiles \cup {NewFile} : f \in Seq(Line) /\ OnceAtTop(f)
  /\ <<>> \in Seq(Line) /\ OnceAtTop(<<>>)
<1>1. DOMAIN <<>> = {} /\ <<>> \in Seq(Line)
  OBVIOUS
<1> QED BY <1>1, FilesAssumption DEF OnceAtTop

\* A file that was only written in part has no key twice either.
LEMMA CutTop ==
  ASSUME NEW M \in Seq(Line), OnceAtTop(M), NEW P \in Cut(M)
  PROVE  P \in Seq(Line) /\ OnceAtTop(P)
<1>1. PICK n \in 0 .. Len(M) - 1 : P = SubSeq(M, 1, n)
  BY DEF Cut
<1>2. /\ Len(M) \in Nat /\ P \in Seq(Line) /\ DOMAIN P = 1 .. n
      /\ \A i \in 1 .. n : i \in DOMAIN M /\ P[i] = M[i]
  BY <1>1
<1>3. ASSUME NEW i \in 1 .. n PROVE InBlock(P, i) <=> InBlock(M, i)
  <2>1. ASSUME NEW j \in 1 .. n PROVE Within(P, j, i) <=> Within(M, j, i)
    <3>1. \A l \in j + 1 .. i - 1 : l \in 1 .. n
      BY <1>1, <1>2
    <3> QED BY <1>2, <3>1 DEF Within
  <2>2. \A j \in DOMAIN M : Within(M, j, i) => j \in 1 .. n
    BY <1>1, <1>2 DEF Within
  <2> QED BY <1>2, <2>1, <2>2 DEF InBlock
<1> QED BY <1>2, <1>3 DEF OnceAtTop

LEMMA TypesInit ==
  ASSUME Init PROVE TypesInv
<1>1. FileOK(file, NoFile) /\ FileOK(unwritten, NoLines)
  BY NewFileIs DEF Init, Fresh, FileOK
<1>2. /\ val \in [Vars -> Vals] /\ mark \in [Vars -> Nat]
      /\ bound \in [Hotkeys -> Vals \cup {Unbound}]
  BY CshAssumption DEF Init, Fresh
<1>3. profile \in Profiles /\ started \in BOOLEAN /\ drifted \in SUBSET Keys /\ IsPending(pending)
  BY CshAssumption, NonePending DEF Init, Fresh
<1> QED BY <1>1, <1>2, <1>3 DEF TypesInv

LEMMA ReadConfigTypes ==
  ASSUME TypesInv, NEW v0 \in [Vars -> Vals], NEW p0, IsPending(p0), ReadConfig(v0, p0)
  PROVE  /\ FileOK(file', NoFile) /\ FileOK(unwritten', NoLines)
         /\ val' \in [Vars -> Vals] /\ mark' \in [Vars -> Nat]
         /\ bound' \in [Hotkeys -> Vals \cup {Unbound}]
         /\ IsPending(pending')
<1>1. FileOK(file', NoFile) /\ FileOK(unwritten', NoLines)
  BY NewFileIs DEF TypesInv, ReadConfig, FileOK
<1>2. file' # NoFile => file' \in Seq(Line)
  BY <1>1 DEF FileOK
<1>3. \A k \in Keys : FileSets(k) => FileVal(k) \in Vals
  BY <1>2, ValueIs DEF FileSets, FileVal
<1>4. val' \in [Vars -> Vals]
  BY <1>3, KeyIs DEF ReadConfig
<1>5. mark' \in [Vars -> Nat]
  BY <1>4, CshAssumption DEF ReadConfig
<1>6. bound' \in [Hotkeys -> Vals \cup {Unbound}]
  BY <1>3, KeyIs DEF ReadConfig
<1>7. IsPending(pending')
  BY <1>2, RunBindsSaves DEF ReadConfig
<1> QED BY <1>1, <1>4, <1>5, <1>6, <1>7

LEMMA TypesNext ==
  ASSUME TypesInv, [Next]_vars
  PROVE  TypesInv'
<1>0. /\ val \in [Vars -> Vals] /\ mark \in [Vars -> Nat]
      /\ bound \in [Hotkeys -> Vals \cup {Unbound}]
      /\ profile \in Profiles /\ started \in BOOLEAN /\ drifted \in SUBSET Keys
      /\ IsPending(pending)
      /\ FileOK(file, NoFile) /\ FileOK(unwritten, NoLines)
  BY DEF TypesInv
<1>1. IsPending(AfterReset(pending)) /\ Default \in [Vars -> Vals]
  BY <1>0, AfterResetSame, CshAssumption
<1>2. Leftover \in SUBSET Keys
  BY KeyIs DEF Leftover
<1>3. ASSUME NEW p \in Profiles, Start(p) PROVE TypesInv'
  <2>1. ReadConfig(Default, AfterReset(pending)) /\ profile' = p /\ started' = TRUE /\ drifted' = Leftover
    BY <1>3 DEF Start
  <2> QED BY <1>1, <1>2, <2>1, ReadConfigTypes DEF TypesInv
<1>4. ASSUME Revert PROVE TypesInv'
  <2>1. ReadConfig(val, AfterReset(pending)) /\ profile' = profile /\ started' = started /\ drifted' = Leftover
    BY <1>4 DEF Revert
  <2> QED BY <1>0, <1>1, <1>2, <2>1, ReadConfigTypes DEF TypesInv
<1>5. ASSUME HotReload PROVE TypesInv'
  <2> DEFINE zero == [v \in Vars |-> 0]
  <2>1. ReadConfig(zero, pending) /\ profile' = profile /\ started' = started /\ drifted' = Leftover
    BY <1>5 DEF HotReload
  <2>2. zero \in [Vars -> Vals]
    BY CshAssumption
  <2> HIDE DEF zero
  <2> QED BY <1>0, <1>2, <2>1, <2>2, ReadConfigTypes DEF TypesInv
<1>6. ASSUME Ends, FileOK(file', NoFile) PROVE TypesInv'
  <2>1. /\ val' \in [Vars -> Vals] /\ mark' \in [Vars -> Nat]
        /\ bound' \in [Hotkeys -> Vals \cup {Unbound}]
    BY <1>6, CshAssumption DEF Ends
  <2>2. profile' \in Profiles /\ started' \in BOOLEAN /\ drifted' \in SUBSET Keys /\ IsPending(pending')
    BY <1>6, CshAssumption, NonePending DEF Ends
  <2>3. FileOK(unwritten', NoLines)
    BY <1>6 DEF Ends, FileOK
  <2> QED BY <1>6, <2>1, <2>2, <2>3 DEF TypesInv
<1>7. ASSUME Restart PROVE TypesInv'
  BY <1>0, <1>6, <1>7 DEF Restart
<1>8. IsPending(SaveVars(pending)) /\ SaveVars(pending) \in Seq(Entry)
  BY <1>0, SaveVarsSaves DEF IsPending
<1>9. /\ SetAll(LinesRead, SaveVars(pending)) \in Seq(Line)
      /\ OnceAtTop(SetAll(LinesRead, SaveVars(pending)))
  BY <1>0, <1>8, FileIs, SetAllTop
<1>10. ASSUME FlushCut PROVE TypesInv'
  <2>1. FileOK(file', NoFile)
    BY <1>9, <1>10, CutTop DEF FlushCut, FileOK
  <2> QED BY <1>6, <1>10, <2>1 DEF FlushCut
<1>11. ASSUME SaveConfig PROVE TypesInv'
  <2> DEFINE p == SaveVars(pending)
  <2>1. FlushUnread(p) \/ FlushWritten(p) \/ FlushLost(p)
    BY <1>11 DEF SaveConfig
  <2>2. mark' \in [Vars -> Nat] /\ val' \in [Vars -> Vals] /\ bound' \in [Hotkeys -> Vals \cup {Unbound}]
        /\ profile' \in Profiles /\ started' \in BOOLEAN
    BY <1>0, <1>11, CshAssumption DEF SaveConfig
  <2>3. {p[i].key : i \in DOMAIN p} \in SUBSET Keys
    BY <1>8, EntryIs
  <2>4. {SetKey(v) : v \in Changed} \in SUBSET Keys
    BY KeyIs DEF Changed
  <2>5. Revived(p) \in SUBSET Keys /\ Overridden(p) \in SUBSET Keys
    BY <2>3 DEF Revived, Overridden
  <2> HIDE DEF p
  <2>6. CASE FlushUnread(p)
    <3>1. pending' = p /\ unwritten' = unwritten /\ drifted' \in SUBSET Keys
      BY <1>0, <2>4, <2>6 DEF FlushUnread
    <3>2. FileOK(file', NoFile)
      BY <1>0, <2>6, NewFileIs DEF FlushUnread, FileOK
    <3> QED BY <1>0, <1>8, <2>2, <3>1, <3>2 DEF TypesInv, p
  <2>7. CASE FlushWritten(p)
    <3>1. pending' = <<>> /\ unwritten' = NoLines /\ drifted' \in SUBSET Keys
      BY <1>0, <2>4, <2>5, <2>7 DEF FlushWritten
    <3>2. FileOK(file', NoFile) /\ FileOK(unwritten', NoLines)
      BY <1>9, <2>7, <3>1 DEF FlushWritten, FileOK, p
    <3> QED BY <2>2, <3>1, <3>2, NonePending DEF TypesInv
  <2>8. CASE FlushLost(p)
    <3>1. pending' = <<>> /\ drifted' \in SUBSET Keys
      BY <1>0, <2>3, <2>8 DEF FlushLost
    <3>2. FileOK(file', NoFile) /\ FileOK(unwritten', NoLines)
      BY <1>0, <1>9, <2>8, NewFileIs DEF FlushLost, FileOK, p
    <3> QED BY <2>2, <3>1, <3>2, NonePending DEF TypesInv
  <2> QED BY <2>1, <2>6, <2>7, <2>8
<1>12. ASSUME RemoveFile PROVE TypesInv'
  BY <1>0, <1>12 DEF RemoveFile, TypesInv, FileOK
<1>13. ASSUME NEW p \in Profiles, Profile(p) PROVE TypesInv'
  BY <1>0, <1>13 DEF Profile, TypesInv
<1>14. ASSUME NEW v \in Vars, NEW x \in Vals, Set(v, x) PROVE TypesInv'
  <2>1. val' \in [Vars -> Vals]
    BY <1>0, <1>14 DEF Set
  <2> QED BY <1>0, <1>14, <2>1 DEF Set, TypesInv
<1>15. ASSUME NEW v \in Vars, NEW m \in BOOLEAN, SetModified(v, m) PROVE TypesInv'
  <2>1. mark' \in [Vars -> Nat]
    <3>1. mark[v] + 1 \in Nat /\ val[v] \in Nat
      <4>1. mark[v] \in Nat /\ val[v] \in Vals
        BY <1>0
      <4>2. val[v] \in Nat
        BY <4>1, CshAssumption
      <4> QED BY <4>1, <4>2
    <3>2. mark' = [mark EXCEPT ![v] = mark[v] + 1] \/ mark' = [mark EXCEPT ![v] = val[v]]
      BY <1>15, Zenon DEF SetModified
    <3> QED BY <1>0, <3>1, <3>2
  <2>2. drifted' \in SUBSET Keys
    BY <1>0, <1>15, KeyIs DEF SetModified
  <2> QED BY <1>0, <1>15, <2>1, <2>2 DEF SetModified, TypesInv
<1>16. ASSUME NEW h \in Hotkeys, NEW a \in Vals, Bind(h, a) PROVE TypesInv'
  <2>1. bound' \in [Hotkeys -> Vals \cup {Unbound}]
    BY <1>0, <1>16 DEF Bind
  <2>2. IsPending(pending')
    BY <1>0, <1>16, KeyIs, CacheSaveIs DEF Bind
  <2>3. drifted' \in SUBSET Keys
    BY <1>0, <1>16 DEF Bind
  <2> QED BY <1>0, <1>16, <2>1, <2>2, <2>3 DEF Bind, TypesInv
<1>17. CASE UNCHANGED vars
  BY <1>0, <1>17 DEF vars, TypesInv
<1> QED BY <1>3, <1>4, <1>5, <1>7, <1>10, <1>11, <1>12, <1>13, <1>14, <1>15, <1>16, <1>17 DEF Next

\* Any set that has no two members has at most one.
LEMMA AtMostOne ==
  ASSUME NEW S, \A x, y \in S : x = y
  PROVE  Cardinality(S) <= 1
<1>1. CASE S = {}
  BY <1>1, FS_EmptySet
<1>2. CASE S # {}
  <2>1. PICK x \in S : TRUE
    BY <1>2
  <2>2. S = {x}
    BY <2>1
  <2> QED BY <2>2, FS_Singleton
<1> QED BY <1>1, <1>2

\* NoDuplicates: whatever is set, bound, saved, reverted, reloaded or lost, for any number
\* of saves, a key has at most one line outside the blocks and one pending save (set_cmd
\* and csh_cfg_save_s replace what is there).
THEOREM NeverDuplicated == Spec => []NoDuplicates
<1>1. Init => TypesInv
  BY TypesInit
<1>2. TypesInv /\ [Next]_vars => TypesInv'
  BY TypesNext
<1>3. ASSUME TypesInv PROVE NoDuplicates
  <2>1. TypeOK
    <3>1. \A i \in DOMAIN pending : pending[i].key \in Keys /\ pending[i].val \in Vals
      BY <1>3, EntryIs DEF TypesInv, IsPending
    <3> QED BY <1>3, <3>1 DEF TypesInv, TypeOK
  <2>2. ASSUME NEW k \in Keys PROVE Cardinality(Pending(pending, k)) <= 1
    <3>1. \A i, j \in Pending(pending, k) : i = j
      BY <1>3 DEF TypesInv, IsPending, OnePending, Pending
    <3> QED BY <3>1, AtMostOne
  <2>3. ASSUME file # NoFile, NEW k \in Keys PROVE Cardinality(TopLines(k)) <= 1
    <3>1. OnceAtTop(file)
      BY <1>3, <2>3, FileIs DEF TypesInv
    <3>2. \A i, j \in TopLines(k) : i = j
      BY <3>1 DEF OnceAtTop, TopLines
    <3> QED BY <3>2, AtMostOne
  <2> QED BY <2>1, <2>2, <2>3 DEF NoDuplicates
<1> QED BY <1>1, <1>2, <1>3, PTL DEF Spec


-----------------------------------------------------------------------------
(* Flushes leave the blocks alone *)

\* BlocksKept: for any file and any saves, as long as every block has its end, no call
\* changes the lines inside the blocks (set_cmd's comment).
THEOREM FlushesKeepBlocks == Spec /\ []Closed => BlocksKept
<1> DEFINE Kept == started' /\ file \notin {NoFile, <<>>} /\ file' # NoFile
                     => BlockLines(file') = BlockLines(file)
<1>1. Init => TypesInv
  BY TypesInit
<1>2. TypesInv /\ [Next]_vars => TypesInv'
  BY TypesNext
<1>3. ASSUME TypesInv, Closed, [Next]_vars PROVE [Kept]_vars
  <2>1. file' = file => Kept
    OBVIOUS
  <2>2. ASSUME SaveConfig PROVE Kept
    <3> DEFINE p == SaveVars(pending)
    <3>1. FlushUnread(p) \/ FlushWritten(p) \/ FlushLost(p)
      BY <2>2 DEF SaveConfig
    <3>2. IsPending(p)
      BY <1>3, SaveVarsSaves DEF TypesInv
    <3> HIDE DEF p
    <3>3. CASE FlushWritten(p)
      <4> SUFFICES ASSUME file \notin {NoFile, <<>>} PROVE BlockLines(file') = BlockLines(file)
        OBVIOUS
      <4>1. file \in Seq(Line) /\ ClosedLines(file) /\ file' = SetAll(file, p)
        BY <1>3, <3>3, FileIs DEF TypesInv, Closed, ClosedLines, FlushWritten, LinesRead
      <4> QED BY <3>2, <4>1, FlushKeepsBlocks
    <3>4. CASE FlushUnread(p) \/ FlushLost(p)
      BY <3>4 DEF FlushUnread, FlushLost
    <3> QED BY <3>1, <3>3, <3>4
  <2>3. ASSUME \E p \in Profiles : Start(p) \/ Profile(p) PROVE Kept
    BY <2>3 DEF Start, Profile, ReadConfig
  <2>4. ASSUME Revert \/ HotReload \/ Restart \/ FlushCut \/ RemoveFile PROVE Kept
    BY <2>4 DEF Revert, HotReload, ReadConfig, Restart, FlushCut, Ends, RemoveFile
  <2>5. ASSUME \/ \E v \in Vars : \/ \E x \in Vals : Set(v, x)
                                \/ \E m \in BOOLEAN : SetModified(v, m)
               \/ \E h \in Hotkeys, a \in Vals : Bind(h, a)
        PROVE  Kept
    BY <2>5 DEF Set, SetModified, Bind
  <2>6. Next => Kept
    <3> HIDE DEF Kept
    <3> QED BY <2>2, <2>3, <2>4, <2>5 DEF Next
  <2> QED BY <1>3, <2>6
<1> QED BY <1>1, <1>2, <1>3, PTL DEF Spec, BlocksKept

-----------------------------------------------------------------------------
(* The marks are what the next start will read *)

\* What a key will be at the next start given the file alone, and with the pending saves.
FileEff(f, k) ==
  IF f # NoFile /\ Sets(f, CfgProfile, k) THEN ValueIn(f, CfgProfile, k)
  ELSE IF k[1] = "set" THEN Default[k[2]] ELSE Unbound

Eff(p, f, k) == IF Pending(p, k) # {} THEN PendingVal(p, k) ELSE FileEff(f, k)

LEMMA KeyParts ==
  /\ \A v : SetKey(v)[1] = "set" /\ SetKey(v)[2] = v
  /\ \A h : BindKey(h)[1] # "set" /\ BindKey(h)[2] = h
  /\ \A k \in Keys : (\E v \in Vars : k = SetKey(v)) \/ (\E h \in Hotkeys : k = BindKey(h))
BY DEF SetKey, BindKey, Keys

LEMMA EffIs ==
  ASSUME NEW p, IsPending(p), NEW f
  PROVE  /\ \A e \in Saves(p) : Eff(p, f, e.key) = e.val
         /\ \A k : Pending(p, k) = {} => Eff(p, f, k) = FileEff(f, k)
BY PendingIs DEF Eff

\* Two lists of saves with the same save of a key make the same of it.
LEMMA SameEff ==
  ASSUME NEW p, NEW q, IsPending(p), IsPending(q), NEW k,
         \A e : e.key = k => (e \in Saves(p) <=> e \in Saves(q)),
         NEW f, NEW g, FileEff(f, k) = FileEff(g, k)
  PROVE  Eff(p, f, k) = Eff(q, g, k)
<1>1. ASSUME NEW r, IsPending(r), NEW s, IsPending(s), Pending(r, k) # {},
             \A e : e.key = k => (e \in Saves(r) => e \in Saves(s))
      PROVE  Pending(s, k) # {} /\ PendingVal(s, k) = PendingVal(r, k)
  <2> DEFINE e == [key |-> k, val |-> PendingVal(r, k)]
  <2>1. e \in Saves(r) /\ e.key = k /\ e.val = PendingVal(r, k)
    BY <1>1, PendingIs
  <2> HIDE DEF e
  <2>2. e \in Saves(s)
    BY <1>1, <2>1
  <2> QED BY <1>1, <2>1, <2>2, PendingIs
<1>2. CASE Pending(p, k) # {}
  BY <1>1, <1>2 DEF Eff
<1>3. CASE Pending(p, k) = {}
  <2>1. Pending(q, k) = {}
    BY <1>1, <1>3
  <2> QED BY <1>3, <2>1 DEF Eff
<1> QED BY <1>2, <1>3

\* An empty file, and one of an empty line, are read as no file.
LEMMA EmptyEff ==
  /\ \A k : FileEff(<<>>, k) = FileEff(NoFile, k)
  /\ \A k : FileEff(<<EmptyLine>>, k) = FileEff(NoFile, k)
<1>1. ASSUME NEW L, \A i \in DOMAIN L : ~IsCommand(L[i]), NEW k PROVE FileEff(L, k) = FileEff(NoFile, k)
  <2>1. ~Sets(L, CfgProfile, k)
    BY <1>1 DEF Sets, RunsOf, Run
  <2> QED BY <2>1 DEF FileEff
<1>2. \A i \in DOMAIN <<>> : ~IsCommand(<<>>[i])
  OBVIOUS
<1>3. \A i \in DOMAIN <<EmptyLine>> : ~IsCommand(<<EmptyLine>>[i])
  BY DEF IsCommand, EmptyLine
<1> QED BY <1>1, <1>2, <1>3

\* What a key is known as, given the marks and the bindings.
KnownAs(m, b, k) == IF k[1] = "set" THEN m[k[2]] ELSE b[k[2]]

LEMMA HonestIs ==
  SavedMarkHonest <=>
    (started => \A k \in Keys \ drifted : KnownAs(mark, bound, k) = Eff(pending, file, k))
BY DEF SavedMarkHonest, Known, KnownAs, Effective, Eff, FileEff

\* Reading the file: a variable it sets, or left at its default, and a hotkey it binds, or
\* that has nothing pending, are what the next start would make of them.
LEMMA ReadConfigHonest ==
  ASSUME TypesInv, NEW v0 \in [Vars -> Vals], NEW p0, IsPending(p0), ReadConfig(v0, p0),
         NEW k \in Keys, k \notin Leftover
  PROVE  KnownAs(mark', bound', k) = Eff(pending', file', k)
<1>1. FileOK(file', NoFile) /\ IsPending(pending')
  BY ReadConfigTypes
<1>2. FileSets(k) => FileEff(file', k) = FileVal(k)
  BY DEF FileSets, FileVal, FileEff
<1>3. ~FileSets(k) => FileEff(file', k) = IF k[1] = "set" THEN Default[k[2]] ELSE Unbound
  BY DEF FileSets, FileEff
<1>4. Pending(pending', k) = {} => Eff(pending', file', k) = FileEff(file', k)
  BY DEF Eff
<1>5. ASSUME NEW v \in Vars, k = SetKey(v)
      PROVE  KnownAs(mark', bound', k) = Eff(pending', file', k)
  <2>1. Pending(pending', k) = {} /\ (FileSets(k) \/ val'[v] = Default[v])
    BY <1>5 DEF Leftover
  <2>2. mark'[v] = val'[v] /\ (FileSets(k) => val'[v] = FileVal(k))
    BY <1>5 DEF ReadConfig
  <2>3. KnownAs(mark', bound', k) = mark'[v] /\ k[1] = "set" /\ k[2] = v
    BY <1>5, KeyParts DEF KnownAs
  <2> QED BY <1>2, <1>3, <1>4, <2>1, <2>2, <2>3
<1>6. ASSUME NEW h \in Hotkeys, k = BindKey(h)
      PROVE  KnownAs(mark', bound', k) = Eff(pending', file', k)
  <2>1. FileSets(k) \/ Pending(pending', k) = {}
    BY <1>6 DEF Leftover
  <2>2. bound'[h] = IF FileSets(k) THEN FileVal(k) ELSE Unbound
    BY <1>6 DEF ReadConfig
  <2>3. KnownAs(mark', bound', k) = bound'[h] /\ k[1] # "set"
    BY <1>6, KeyParts DEF KnownAs
  <2>4. CASE FileSets(k)
    <3>1. file' \in Seq(Line) /\ pending' = RunBinds(file', p0) /\ Sets(file', CfgProfile, k)
      BY <1>1, <2>4 DEF FileOK, FileSets, ReadConfig
    <3> DEFINE e == [key |-> k, val |-> FileVal(k)]
    <3>2. e \in Saves(pending')
      BY <1>6, <3>1, RunBindsSaves DEF FileVal
    <3>3. e.key = k /\ e.val = FileVal(k)
      OBVIOUS
    <3> HIDE DEF e
    <3>4. Eff(pending', file', k) = FileVal(k)
      BY <1>1, <3>2, <3>3, EffIs
    <3> QED BY <2>2, <2>3, <2>4, <3>4
  <2>5. CASE ~FileSets(k)
    BY <1>3, <1>4, <2>1, <2>2, <2>3, <2>5
  <2> QED BY <2>4, <2>5
<1> QED BY <1>5, <1>6, KeyParts

\* csh_save takes the value of each variable that differs from its mark, so afterwards the
\* mark is what the saves and the file say.
LEMMA SaveHonest ==
  ASSUME TypesInv, started, SavedMarkHonest, NEW k \in Keys,
         k \notin drifted \/ \E v \in Changed : k = SetKey(v)
  PROVE  KnownAs(val, bound, k) = Eff(SaveVars(pending), file, k)
<1> DEFINE p == SaveVars(pending)
<1>1. /\ IsPending(pending) /\ IsPending(p) /\ val \in [Vars -> Vals]
      /\ \A e : e \in Saves(p) <=>
           \/ e \in Saves(pending) /\ \A v \in Changed : e.key # SetKey(v)
           \/ \E v \in Changed : e = SaveOf(v)
  BY SaveVarsSaves DEF TypesInv
<1> HIDE DEF p
<1>2. ASSUME NEW v \in Changed, k = SetKey(v) PROVE KnownAs(val, bound, k) = Eff(p, file, k)
  <2>1. SaveOf(v) \in Saves(p) /\ SaveOf(v).key = k /\ SaveOf(v).val = val[v]
    BY <1>1, <1>2 DEF SaveOf
  <2>2. Eff(p, file, k) = val[v]
    BY <1>1, <2>1, EffIs
  <2> QED BY <1>2, <2>2, KeyParts DEF KnownAs
<1>3. ASSUME \A v \in Changed : k # SetKey(v) PROVE KnownAs(val, bound, k) = Eff(p, file, k)
  <2>1. KnownAs(mark, bound, k) = Eff(pending, file, k)
    BY <1>3, HonestIs
  <2>2. \A e : e.key = k => (e \in Saves(pending) <=> e \in Saves(p))
    <3>1. \A v \in Changed : SaveOf(v).key # k
      BY <1>3 DEF SaveOf
    <3> QED BY <1>1, <1>3, <3>1
  <2>3. Eff(pending, file, k) = Eff(p, file, k)
    BY <1>1, <2>2, SameEff
  <2>4. KnownAs(val, bound, k) = KnownAs(mark, bound, k)
    BY <1>3, KeyParts DEF KnownAs, Changed
  <2> QED BY <2>1, <2>3, <2>4
<1> QED BY <1>2, <1>3 DEF p

HonestInv ==
  /\ TypesInv
  /\ unwritten # NoLines => ClosedLines(unwritten)
  /\ SavedMarkHonest

LEMMA ReadClosed ==
  ASSUME TypesInv, Closed, unwritten # NoLines => ClosedLines(unwritten)
  PROVE  LinesRead \in Seq(Line) /\ ClosedLines(LinesRead)
<1>1. LinesRead \in Seq(Line)
  BY FileIs DEF TypesInv
<1>2. ClosedLines(<<EmptyLine>>)
  BY DEF ClosedLines, EmptyLine
<1>3. file # NoFile => ClosedLines(file)
  BY DEF Closed, ClosedLines
<1> QED BY <1>1, <1>2, <1>3 DEF LinesRead

\* config_flush: what it wrote, kept or lost, a mark is what is read of it next.
LEMMA FlushHonest ==
  ASSUME HonestInv, Closed, SaveConfig
  PROVE  SavedMarkHonest' /\ (unwritten' # NoLines => ClosedLines(unwritten'))
<1> DEFINE p == SaveVars(pending)
           L == LinesRead
<1>1. /\ TypesInv /\ started /\ SavedMarkHonest /\ IsPending(pending) /\ IsPending(p)
      /\ val \in [Vars -> Vals] /\ p \in Seq(Entry)
      /\ \A v \in Changed : SaveOf(v) \in Saves(p) /\ SaveOf(v).key = SetKey(v)
  BY SaveVarsSaves DEF HonestInv, TypesInv, SaveConfig, SaveOf, IsPending
<1>2. L \in Seq(Line) /\ ClosedLines(L)
  BY ReadClosed DEF HonestInv
<1>3. mark' = val /\ bound' = bound /\ started' = started
  BY DEF SaveConfig
<1>4. \A k \in Keys : (k \notin drifted \/ \E v \in Changed : k = SetKey(v))
        => KnownAs(mark', bound', k) = Eff(p, file, k)
  BY <1>1, <1>3, SaveHonest
<1>5. SetAll(L, p) \in Seq(Line) /\ ClosedLines(SetAll(L, p))
  BY <1>1, <1>2, SetAllWritten, AddedAtTop DEF Written
<1>6. NoFile \notin Seq(Line)
  BY FilesAssumption
<1>7. SUFFICES /\ \A k \in Keys \ drifted' : KnownAs(mark', bound', k) = Eff(pending', file', k)
               /\ unwritten' # NoLines => ClosedLines(unwritten')
  <2>1. SavedMarkHonest' <=>
          (started' => \A k \in Keys \ drifted' : KnownAs(mark', bound', k) = Eff(pending', file', k))
    BY DEF SavedMarkHonest, Known, KnownAs, Effective, Eff, FileEff
  <2> QED BY <1>7, <2>1
<1>8. FlushUnread(p) \/ FlushWritten(p) \/ FlushLost(p)
  BY DEF SaveConfig
<1>9. \A k : Pending(p, k) = {} => ~\E v \in Changed : k = SetKey(v)
  BY <1>1, PendingIs
<1> HIDE DEF p, L
<1>10. CASE FlushUnread(p)
  <2>1. \A k : FileEff(file', k) = FileEff(file, k)
    BY <1>10, EmptyEff DEF FlushUnread
  <2>2. pending' = p /\ unwritten' = unwritten /\ drifted' = drifted \ {SetKey(v) : v \in Changed}
    BY <1>10 DEF FlushUnread
  <2>3. ASSUME NEW k \in Keys, k \notin drifted' PROVE KnownAs(mark', bound', k) = Eff(pending', file', k)
    <3>1. KnownAs(mark', bound', k) = Eff(p, file, k)
      BY <1>4, <2>2, <2>3
    <3>2. Eff(p, file', k) = Eff(p, file, k)
      BY <2>1 DEF Eff
    <3> QED BY <2>2, <3>1, <3>2
  <2> QED BY <2>2, <2>3 DEF HonestInv
<1>11. CASE FlushLost(p)
  <2>1. \A k : FileEff(file', k) = FileEff(file, k)
    BY <1>11, EmptyEff DEF FlushLost
  <2>2. pending' = <<>> /\ unwritten' = SetAll(L, p) /\ drifted' = drifted \cup {p[i].key : i \in DOMAIN p}
    BY <1>11 DEF FlushLost, L
  <2>3. ASSUME NEW k \in Keys, k \notin drifted' PROVE KnownAs(mark', bound', k) = Eff(pending', file', k)
    <3>1. Pending(p, k) = {}
      BY <2>2, <2>3 DEF Pending
    <3>2. KnownAs(mark', bound', k) = Eff(p, file, k)
      BY <1>4, <2>2, <2>3
    <3>3. Eff(p, file, k) = FileEff(file, k) /\ Eff(<<>>, file', k) = FileEff(file', k)
      BY <3>1, NonePending DEF Eff, Pending
    <3> QED BY <2>1, <2>2, <3>2, <3>3
  <2> QED BY <1>5, <2>2, <2>3
<1>12. CASE FlushWritten(p)
  <2>1. /\ pending' = <<>> /\ unwritten' = NoLines /\ file' = SetAll(L, p) /\ file' # NoFile
        /\ drifted' = (drifted \ {SetKey(v) : v \in Changed}) \cup Revived(p) \cup Overridden(p)
    BY <1>5, <1>6, <1>12 DEF FlushWritten, L
  <2>2. ASSUME NEW k \in Keys, k \notin drifted' PROVE KnownAs(mark', bound', k) = Eff(pending', file', k)
    <3>1. KnownAs(mark', bound', k) = Eff(p, file, k)
      BY <1>4, <2>1, <2>2
    <3>2. Eff(pending', file', k) = FileEff(file', k)
      BY <2>1 DEF Eff, Pending
    <3>3. CASE Pending(p, k) = {}
      <4>1. file \notin {NoFile, <<>>} \/ unwritten = NoLines
        BY <2>1, <2>2, <3>3 DEF Revived
      <4>2. FileEff(L, k) = FileEff(file, k)
        BY <4>1, EmptyEff DEF L, LinesRead
      <4>3. /\ Sets(file', CfgProfile, k) <=> Sets(L, CfgProfile, k)
            /\ Sets(L, CfgProfile, k) => ValueIn(file', CfgProfile, k) = ValueIn(L, CfgProfile, k)
        BY <1>1, <1>2, <2>1, <3>3, FlushKeepsOthers
      <4>4. FileEff(file', k) = FileEff(L, k)
        BY <1>2, <1>6, <2>1, <4>3 DEF FileEff
      <4>5. Eff(p, file, k) = FileEff(file, k)
        BY <3>3 DEF Eff
      <4> QED BY <3>1, <3>2, <4>2, <4>4, <4>5
    <3>4. CASE Pending(p, k) # {}
      <4> DEFINE e == [key |-> k, val |-> PendingVal(p, k)]
      <4>1. e \in Saves(p) /\ e.key = k /\ e.val = PendingVal(p, k)
        BY <1>1, <3>4, PendingIs
      <4> HIDE DEF e
      <4>2. k \in {p[i].key : i \in DOMAIN p}
        BY <4>1 DEF Saves
      <4>3. ~ /\ Matching(L, k) # {}
              /\ \E i \in RunsOf(L, CfgProfile, k) : i > First_(Matching(L, k))
        BY <2>1, <2>2, <4>2 DEF Overridden, L
      <4>4. Sets(file', CfgProfile, k) /\ ValueIn(file', CfgProfile, k) = e.val
        BY <1>1, <1>2, <2>1, <4>1, <4>3, FlushReadsBack
      <4>5. FileEff(file', k) = PendingVal(p, k)
        BY <2>1, <4>1, <4>4 DEF FileEff
      <4>6. Eff(p, file, k) = PendingVal(p, k)
        BY <3>4 DEF Eff
      <4> QED BY <3>1, <3>2, <4>5, <4>6
    <3> QED BY <3>3, <3>4
  <2> QED BY <2>1, <2>2
<1> QED BY <1>8, <1>10, <1>11, <1>12

LEMMA HonestNext ==
  ASSUME HonestInv, Closed, [Next]_vars
  PROVE  HonestInv'
<1>1. TypesInv'
  BY TypesNext DEF HonestInv
<1>2. /\ TypesInv /\ IsPending(pending) /\ IsPending(AfterReset(pending)) /\ val \in [Vars -> Vals]
      /\ unwritten # NoLines => ClosedLines(unwritten)
      /\ mark \in [Vars -> Nat] /\ bound \in [Hotkeys -> Vals \cup {Unbound}]
      /\ started => \A k \in Keys \ drifted : KnownAs(mark, bound, k) = Eff(pending, file, k)
  BY AfterResetSame, HonestIs DEF HonestInv, TypesInv
<1> DEFINE Marks == \A k \in Keys \ drifted' : KnownAs(mark', bound', k) = Eff(pending', file', k)
           Done  == (started' => Marks) /\ (unwritten' # NoLines => ClosedLines(unwritten'))
<1>3. SUFFICES Done
  <2>1. SavedMarkHonest' <=> (started' => Marks)
    BY DEF SavedMarkHonest, Known, KnownAs, Effective, Eff, FileEff
  <2> HIDE DEF Marks
  <2> QED BY <1>1, <1>3, <2>1 DEF HonestInv
<1>4. ASSUME NEW v0 \in [Vars -> Vals], NEW p0, IsPending(p0), ReadConfig(v0, p0), drifted' = Leftover
      PROVE  Done
  <2>1. unwritten' = unwritten
    BY <1>4 DEF ReadConfig
  <2> QED BY <1>2, <1>4, <2>1, ReadConfigHonest
<1>5. ASSUME NEW p \in Profiles, Start(p) PROVE Done
  <2>1. Default \in [Vars -> Vals]
    BY CshAssumption
  <2>2. ReadConfig(Default, AfterReset(pending)) /\ drifted' = Leftover
    BY <1>5 DEF Start
  <2> HIDE DEF Done
  <2> QED BY <1>2, <1>4, <2>1, <2>2
<1>6. ASSUME Revert PROVE Done
  <2>1. ReadConfig(val, AfterReset(pending)) /\ drifted' = Leftover
    BY <1>6 DEF Revert
  <2> HIDE DEF Done
  <2> QED BY <1>2, <1>4, <2>1
<1>7. ASSUME HotReload PROVE Done
  <2> DEFINE zero == [v \in Vars |-> 0]
  <2>1. ReadConfig(zero, pending) /\ drifted' = Leftover
    BY <1>7 DEF HotReload
  <2>2. zero \in [Vars -> Vals]
    BY CshAssumption
  <2> HIDE DEF zero, Done
  <2> QED BY <1>2, <1>4, <2>1, <2>2
<1>8. ASSUME Restart \/ FlushCut PROVE Done
  BY <1>8 DEF Restart, FlushCut, Ends
<1>9. ASSUME SaveConfig PROVE Done
  BY <1>9, FlushHonest, <1>3, HonestIs DEF HonestInv, SavedMarkHonest, Known, KnownAs, Effective, Eff, FileEff
<1>10. ASSUME RemoveFile PROVE Done
  BY <1>2, <1>10 DEF RemoveFile
<1>11. ASSUME NEW p \in Profiles, Profile(p) PROVE Done
  BY <1>2, <1>11 DEF Profile
<1>12. ASSUME NEW v \in Vars, NEW x \in Vals, Set(v, x) PROVE Done
  BY <1>2, <1>12 DEF Set
<1>13. ASSUME NEW v \in Vars, NEW m \in BOOLEAN, SetModified(v, m) PROVE Done
  <2>1. /\ started /\ drifted' = drifted \cup {SetKey(v)} /\ bound' = bound
        /\ pending' = pending /\ file' = file /\ unwritten' = unwritten
    BY <1>13 DEF SetModified
  <2>2. \A w \in Vars : w # v => mark'[w] = mark[w]
    BY <1>2, <1>13 DEF SetModified
  <2>3. ASSUME NEW k \in Keys, k \notin drifted' PROVE KnownAs(mark', bound', k) = KnownAs(mark, bound, k)
    BY <2>1, <2>2, <2>3, KeyParts DEF KnownAs
  <2> QED BY <1>2, <2>1, <2>3
<1>14. ASSUME NEW h \in Hotkeys, NEW a \in Vals, Bind(h, a) PROVE Done
  <2> DEFINE new == [key |-> BindKey(h), val |-> a]
  <2>1. /\ started /\ drifted' = drifted \ {BindKey(h)} /\ mark' = mark /\ file' = file /\ unwritten' = unwritten
        /\ bound' = [bound EXCEPT ![h] = a] /\ pending' = CacheSave(pending, BindKey(h), a)
    BY <1>14 DEF Bind
  <2>2. IsPending(pending') /\ Saves(pending') = {e \in Saves(pending) : e.key # BindKey(h)} \cup {new}
    BY <1>2, <2>1, KeyIs, CacheSaveIs
  <2>3. new.key = BindKey(h) /\ new.val = a
    OBVIOUS
  <2> HIDE DEF new
  <2>4. ASSUME NEW k \in Keys, k \notin drifted' PROVE KnownAs(mark', bound', k) = Eff(pending', file', k)
    <3>1. CASE k = BindKey(h)
      <4>1. Eff(pending', file', k) = a
        BY <2>2, <2>3, <3>1, EffIs
      <4>2. bound'[h] = a
        BY <1>2, <2>1
      <4> QED BY <3>1, <4>1, <4>2, KeyParts DEF KnownAs
    <3>2. CASE k # BindKey(h)
      <4>1. KnownAs(mark, bound, k) = Eff(pending, file, k)
        BY <1>2, <2>1, <2>4, <3>2
      <4>2. \A e : e.key = k => (e \in Saves(pending') <=> e \in Saves(pending))
        BY <2>2, <2>3, <3>2
      <4>3. Eff(pending', file', k) = Eff(pending, file, k)
        BY <1>2, <2>1, <2>2, <4>2, SameEff
      <4>4. \A g \in Hotkeys : g # h => bound'[g] = bound[g]
        BY <1>2, <2>1
      <4>5. KnownAs(mark', bound', k) = KnownAs(mark, bound, k)
        BY <2>1, <3>2, <4>4, KeyParts DEF KnownAs
      <4> QED BY <4>1, <4>3, <4>5
    <3> QED BY <3>1, <3>2
  <2> QED BY <1>2, <2>1, <2>4
<1>15. CASE UNCHANGED vars
  BY <1>2, <1>15 DEF vars
<1> HIDE DEF Done
<1> QED BY <1>5, <1>6, <1>7, <1>8, <1>9, <1>10, <1>11, <1>12, <1>13, <1>14, <1>15 DEF Next

\* SavedMarkHonest: as long as every block of the file has its end, a save mark is, for any
\* files, variables and hotkeys and over any series of calls and failures, what the file and
\* the pending saves make of its variable at the next start; so is a binding.
THEOREM MarksHonest == Spec /\ []Closed => []SavedMarkHonest
<1>1. ASSUME Init PROVE HonestInv
  <2>1. TypesInv /\ ~started /\ unwritten = NoLines
    BY <1>1, TypesInit DEF Init, Fresh
  <2> QED BY <2>1 DEF HonestInv, SavedMarkHonest
<1>2. HonestInv /\ Closed /\ [Next]_vars => HonestInv'
  BY HonestNext
<1>3. HonestInv => SavedMarkHonest
  BY DEF HonestInv
<1> QED BY <1>1, <1>2, <1>3, PTL DEF Spec


=============================================================================
