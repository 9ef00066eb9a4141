--------------------------- MODULE Hotkeys_proofs ---------------------------
(***************************************************************************)
(* Proofs about the hotkey table, for any keys, modifiers and actions and  *)
(* any number of nodes, both of Hotkeys and of the settings window that    *)
(* binds on top of it.                                                     *)
(*                                                                         *)
(* A node that a rebinding dropped from its key's list stays on a list of  *)
(* an action, with the same key and modifiers as the node that is bound    *)
(* after it.  The search for a node by key and modifiers finds the right   *)
(* one because binding puts it at the head of its action's list, before    *)
(* every dropped one (ReachedFirst), and because no two nodes that a key   *)
(* press reaches are the same hotkey (KeyLists).                           *)
(***************************************************************************)
EXTENDS SettingsPopup, SequenceTheorems, FiniteSetTheorems, WellFoundedInduction, TLAPS

Reached(n) == n \in ToSet(hotkeys[node[n].key])
Same(x, y) == node[x].key = node[y].key /\ node[x].mods = node[y].mods
Before(s, x, y) == \E i, j \in DOMAIN s : i < j /\ s[i] = x /\ s[j] = y

Types ==
  /\ TypeOK
  /\ hotkeys = [k \in Key |-> hotkeys[k]]
  /\ actions = [a \in Actions |-> actions[a]]
  /\ last = [h \in Key \X Mods |-> last[h]]

\* The nodes of a key's list have the key, and different modifiers.
KeyLists ==
  \A k \in Key :
    /\ \A x \in ToSet(hotkeys[k]) : node[x].key = k
    /\ \A x, y \in DOMAIN node : Before(hotkeys[k], x, y) => ~Same(x, y)

\* Every node is on the list of its action once, and on no other.
ActionLists ==
  /\ \A n \in DOMAIN node : \A a \in Actions : n \in ToSet(actions[a]) <=> a = node[n].action
  /\ \A n \in DOMAIN node : \A a \in Actions : ~Before(actions[a], n, n)

\* No node with the same key and modifiers comes before one that a key press reaches.
ReachedFirst ==
  \A a \in Actions : \A x, y \in DOMAIN node :
    Before(actions[a], x, y) /\ Reached(y) => ~Same(x, y)

\* A node that a key press reaches has the action its hotkey was last bound to.
ReachedIsLast ==
  \A n \in DOMAIN node : Reached(n) => node[n].action = last[<<node[n].key, node[n].mods>>]

IInv ==
  /\ Types
  /\ KeyLists
  /\ ActionLists
  /\ ReachedFirst
  /\ ReachedIsLast
  /\ FreedOnce
-----------------------------------------------------------------------------
(* Lists *)

\* The first position of a set of positions.
LEMMA FirstIs ==
  ASSUME NEW S \in SUBSET Nat, S # {}
  PROVE  First(S) \in S /\ \A i \in S : First(S) <= i
<1>1. PICK x \in S : \A y \in S : ~(<<y, x>> \in OpToRel(<, Nat))
  BY NatLessThanWellFounded, WFMin
<1>2. \A y \in S : <<y, x>> \in Nat \X Nat /\ ~(y < x)
  BY <1>1 DEF OpToRel
<1>3. \A y \in S : x <= y
  <2> SUFFICES ASSUME NEW y \in S PROVE x <= y
    OBVIOUS
  <2>1. x \in Nat /\ y \in Nat /\ ~(y < x)
    BY <1>2
  <2> QED  BY <2>1
<1> QED  BY <1>3 DEF First

LEMMA ListIn ==
  ASSUME NEW S, NEW s \in Seq(S)
  PROVE  ToSet(s) \subseteq S
BY ElementOfSeq, LenProperties DEF ToSet

\* A node put at the head of a list comes before all others.
LEMMA ConsIs ==
  ASSUME NEW S, NEW s \in Seq(S), NEW e \in S
  PROVE  /\ <<e>> \o s \in Seq(S)
         /\ ToSet(<<e>> \o s) = {e} \cup ToSet(s)
         /\ \A x, y : Before(<<e>> \o s, x, y) <=> (x = e /\ y \in ToSet(s)) \/ Before(s, x, y)
<1> DEFINE t == <<e>> \o s
<1>1. /\ Len(s) \in Nat /\ DOMAIN s = 1 .. Len(s)
      /\ t \in Seq(S) /\ DOMAIN t = 1 .. Len(s) + 1
  BY ConcatProperties, LenProperties
<1>2. t[1] = e /\ \A i \in 1 .. Len(s) : t[i + 1] = s[i]
  BY <1>1, ConcatProperties
<1> HIDE DEF t
<1>3. \A i \in DOMAIN t : i = 1 \/ (i - 1 \in DOMAIN s /\ t[i] = s[i - 1])
  BY <1>1, <1>2
<1>4. 1 \in DOMAIN t /\ \A i \in DOMAIN s : i + 1 \in DOMAIN t /\ t[i + 1] = s[i] /\ i + 1 > 1
  BY <1>1, <1>2
<1>5. ToSet(t) = {e} \cup ToSet(s)
  BY <1>2, <1>3, <1>4 DEF ToSet
<1>6. ASSUME NEW x, NEW y, Before(t, x, y)
      PROVE  (x = e /\ y \in ToSet(s)) \/ Before(s, x, y)
  <2>1. PICK i \in DOMAIN t, j \in DOMAIN t : i < j /\ t[i] = x /\ t[j] = y
    BY <1>6 DEF Before
  <2>2. j - 1 \in DOMAIN s /\ s[j - 1] = y
    BY <1>1, <1>3, <2>1
  <2>3. CASE i = 1
    BY <1>2, <2>1, <2>2, <2>3 DEF ToSet
  <2>4. CASE i # 1
    <3>1. i - 1 \in DOMAIN s /\ s[i - 1] = x /\ i - 1 < j - 1
      BY <1>1, <1>3, <2>1, <2>4
    <3> QED  BY <2>2, <3>1 DEF Before
  <2> QED  BY <2>3, <2>4
<1>7. ASSUME NEW x, NEW y, (x = e /\ y \in ToSet(s)) \/ Before(s, x, y)
      PROVE  Before(t, x, y)
  <2>1. CASE x = e /\ y \in ToSet(s)
    <3>1. PICK j \in DOMAIN s : s[j] = y
      BY <2>1 DEF ToSet
    <3> QED  BY <1>2, <1>4, <2>1, <3>1 DEF Before
  <2>2. CASE Before(s, x, y)
    <3>1. PICK i \in DOMAIN s, j \in DOMAIN s : i < j /\ s[i] = x /\ s[j] = y
      BY <2>2 DEF Before
    <3>2. i + 1 < j + 1
      BY <1>1, <3>1
    <3> QED  BY <1>4, <3>1, <3>2 DEF Before
  <2> QED  BY <1>7, <2>1, <2>2
<1> QED  BY <1>1, <1>5, <1>6, <1>7 DEF t

\* A node taken out of a list leaves the others as they were.
LEMMA RemoveAtIs ==
  ASSUME NEW S, NEW s \in Seq(S), NEW p \in DOMAIN s, \A x \in S : ~Before(s, x, x)
  PROVE  /\ RemoveAt(s, p) \in Seq(S)
         /\ ToSet(RemoveAt(s, p)) = ToSet(s) \ {s[p]}
         /\ \A x, y : Before(RemoveAt(s, p), x, y) => Before(s, x, y)
<1> DEFINE t == RemoveAt(s, p)
           b == SubSeq(s, 1, p - 1)
           c == SubSeq(s, p + 1, Len(s))
<1>1. Len(s) \in Nat /\ DOMAIN s = 1 .. Len(s) /\ p \in 1 .. Len(s) /\ \A i \in 1 .. Len(s) : s[i] \in S
  BY LenProperties, ElementOfSeq
<1>2. b \in Seq(S) /\ Len(b) = p - 1 /\ \A i \in 1 .. p - 1 : b[i] = s[i]
  BY <1>1, SubSeqProperties
<1>3. c \in Seq(S) /\ Len(c) = Len(s) - p /\ \A i \in 1 .. Len(s) - p : c[i] = s[i + p]
  BY <1>1, SubSeqProperties
<1> HIDE DEF b, c
<1>4. t = b \o c
  BY DEF RemoveAt, b, c
<1> HIDE DEF t
<1>5. /\ t \in Seq(S) /\ Len(t) = Len(s) - 1
      /\ \A i \in 1 .. Len(s) - 1 : t[i] = IF i <= p - 1 THEN b[i] ELSE c[i - (p - 1)]
  <2>1. /\ b \o c \in Seq(S) /\ Len(b \o c) = Len(b) + Len(c)
        /\ \A i \in 1 .. Len(b) + Len(c) : (b \o c)[i] = IF i <= Len(b) THEN b[i] ELSE c[i - Len(b)]
    BY <1>2, <1>3, ConcatProperties
  <2>2. Len(b) + Len(c) = Len(s) - 1
    BY <1>1, <1>2, <1>3
  <2> QED  BY <1>2, <1>4, <2>1, <2>2
<1>6. DOMAIN t = 1 .. Len(s) - 1
  BY <1>5, LenProperties
<1>7. \A i \in 1 .. Len(s) - 1 : (i < p => t[i] = s[i]) /\ (~(i < p) => t[i] = s[i + 1])
  <2> SUFFICES ASSUME NEW i \in 1 .. Len(s) - 1
               PROVE  (i < p => t[i] = s[i]) /\ (~(i < p) => t[i] = s[i + 1])
    OBVIOUS
  <2>1. CASE i < p
    BY <1>1, <1>2, <1>5, <2>1
  <2>2. CASE ~(i < p)
    <3>1. i - (p - 1) \in 1 .. Len(s) - p /\ (i - (p - 1)) + p = i + 1 /\ ~(i <= p - 1)
      BY <1>1, <2>2
    <3>2. t[i] = c[i - (p - 1)]
      BY <1>5, <3>1
    <3> QED  BY <1>3, <2>2, <3>1, <3>2
  <2> QED  BY <2>1, <2>2
\* Where each position of the shorter list was.
<1> DEFINE from(i) == IF i < p THEN i ELSE i + 1
<1>8. \A i \in DOMAIN t : from(i) \in DOMAIN s /\ from(i) # p /\ t[i] = s[from(i)]
  BY <1>1, <1>6, <1>7
<1>9. \A i, j \in DOMAIN t : i < j => from(i) < from(j)
  BY <1>1, <1>6
<1>10. \A j \in DOMAIN s \ {p} : \E i \in DOMAIN t : from(i) = j
  <2> SUFFICES ASSUME NEW j \in DOMAIN s, j # p PROVE \E i \in DOMAIN t : from(i) = j
    OBVIOUS
  <2>1. CASE j < p
    <3>1. j \in DOMAIN t /\ from(j) = j
      BY <1>1, <1>6, <2>1
    <3> QED  BY <3>1
  <2>2. CASE ~(j < p)
    <3>1. j - 1 \in DOMAIN t /\ from(j - 1) = j
      BY <1>1, <1>6, <2>2
    <3> QED  BY <3>1
  <2> QED  BY <2>1, <2>2
<1> HIDE DEF from
<1>11. \A j \in DOMAIN s : j # p => s[j] # s[p]
  <2> SUFFICES ASSUME NEW j \in DOMAIN s, j # p, s[j] = s[p] PROVE FALSE
    OBVIOUS
  <2>1. j < p \/ p < j
    BY <1>1
  <2> QED  BY <1>1, <2>1 DEF Before
<1>12. ToSet(t) = ToSet(s) \ {s[p]}
  <2>1. \A x \in ToSet(t) : x \in ToSet(s) \ {s[p]}
    BY <1>8, <1>11 DEF ToSet
  <2>2. \A x \in ToSet(s) \ {s[p]} : x \in ToSet(t)
    <3> SUFFICES ASSUME NEW x \in ToSet(s), x # s[p] PROVE x \in ToSet(t)
      OBVIOUS
    <3>1. PICK j \in DOMAIN s : s[j] = x
      BY DEF ToSet
    <3>2. PICK i \in DOMAIN t : from(i) = j
      BY <1>10, <3>1
    <3> QED  BY <1>8, <3>1, <3>2 DEF ToSet
  <2> QED  BY <2>1, <2>2
<1>13. ASSUME NEW x, NEW y, Before(t, x, y) PROVE Before(s, x, y)
  <2>1. PICK i \in DOMAIN t, j \in DOMAIN t : i < j /\ t[i] = x /\ t[j] = y
    BY <1>13 DEF Before
  <2> QED  BY <1>8, <1>9, <2>1 DEF Before
<1> QED  BY <1>5, <1>12, <1>13 DEF t

\* The beginning of a list.
LEMMA PrefixIs ==
  ASSUME NEW S, NEW s \in Seq(S), NEW p \in DOMAIN s
  PROVE  /\ SubSeq(s, 1, p) \in Seq(S)
         /\ ToSet(SubSeq(s, 1, p)) \subseteq ToSet(s) /\ s[p] \in ToSet(SubSeq(s, 1, p))
         /\ \A x, y : Before(SubSeq(s, 1, p), x, y) => Before(s, x, y)
<1> DEFINE t == SubSeq(s, 1, p)
<1>1. Len(s) \in Nat /\ DOMAIN s = 1 .. Len(s) /\ p \in 1 .. Len(s) /\ \A i \in 1 .. Len(s) : s[i] \in S
  BY LenProperties, ElementOfSeq
<1>2. t \in Seq(S) /\ Len(t) = p /\ \A i \in 1 .. p : t[i] = s[i]
  BY <1>1, SubSeqProperties
<1> HIDE DEF t
<1>3. DOMAIN t = 1 .. p /\ p \in DOMAIN t
  BY <1>1, <1>2, LenProperties
<1>4. \A i \in DOMAIN t : i \in DOMAIN s /\ t[i] = s[i]
  BY <1>1, <1>2, <1>3
<1>5. ToSet(t) \subseteq ToSet(s) /\ s[p] \in ToSet(t)
  BY <1>3, <1>4 DEF ToSet
<1>6. ASSUME NEW x, NEW y, Before(t, x, y) PROVE Before(s, x, y)
  BY <1>4, <1>6 DEF Before
<1> QED  BY <1>2, <1>5, <1>6 DEF t
-----------------------------------------------------------------------------
(* The search of an action's list finds the node that is being rebound *)

LEMMA NodeIs ==
  ASSUME Types, NEW n \in DOMAIN node
  PROVE  /\ node[n] \in [key : Key, mods : Mods, action : Actions]
         /\ node[n].key \in Key /\ node[n].mods \in Mods /\ node[n].action \in Actions
<1> DEFINE R == [key : Key, mods : Mods, action : Actions]
<1>1. node \in Seq(R)
  BY DEF Types, TypeOK
<1> HIDE DEF R
<1>2. node[n] \in R
  BY <1>1, ElementOfSeq, LenProperties
<1> QED  BY <1>2 DEF R

LEMMA SearchFinds ==
  ASSUME Types, KeyLists, ActionLists, ReachedFirst,
         NEW k \in Key, NEW i \in DOMAIN hotkeys[k],
         NEW h, h = hotkeys[k][i], NEW m, m = node[h].mods,
         NEW list, list = actions[node[h].action]
  PROVE  /\ h \in DOMAIN node /\ node[h].key = k /\ m \in Mods /\ node[h].action \in Actions
         /\ Reached(h)
         /\ At(list, k, m) # {} /\ First(At(list, k, m)) \in DOMAIN list
         /\ list[First(At(list, k, m))] = h
<1>1. h \in DOMAIN node /\ h \in ToSet(hotkeys[k])
  BY ElementOfSeq, LenProperties DEF Types, TypeOK, ToSet
<1>2. node[h].key = k /\ m \in Mods /\ node[h].action \in Actions
  BY <1>1, NodeIs DEF KeyLists
<1>3. Reached(h)
  BY <1>1, <1>2 DEF Reached
<1>4. h \in ToSet(list) /\ list \in Seq(DOMAIN node)
  BY <1>1, <1>2 DEF ActionLists, Types, TypeOK
<1>5. PICK j \in DOMAIN list : list[j] = h
  BY <1>4 DEF ToSet
<1> DEFINE at == At(list, k, m)
<1>6. j \in at
  BY <1>2, <1>5 DEF At
<1>7. at \subseteq DOMAIN list /\ at \in SUBSET Nat
  <2>1. DOMAIN list = 1 .. Len(list) /\ 1 .. Len(list) \subseteq Nat
    BY <1>4, LenProperties
  <2>2. at \subseteq DOMAIN list
    BY DEF At
  <2> QED  BY <2>1, <2>2
<1>8. First(at) \in at /\ First(at) <= j
  <2> HIDE DEF at
  <2> QED  BY <1>6, <1>7, FirstIs
<1>9. First(at) = j
  <2> SUFFICES ASSUME First(at) < j PROVE FALSE
    BY <1>7, <1>8, <1>6
  <2> DEFINE x == list[First(at)]
  <2>1. First(at) \in DOMAIN list /\ node[x].key = k /\ node[x].mods = m
    BY <1>8 DEF At
  <2>2. Before(list, x, h)
    BY <1>5, <2>1 DEF Before
  <2>3. x \in DOMAIN node
    BY <1>4, <2>1, ElementOfSeq, LenProperties
  <2>4. ~Same(x, h)
    BY <1>1, <1>2, <1>3, <2>2, <2>3 DEF ReachedFirst
  <2> QED  BY <1>2, <2>1, <2>4 DEF Same
<1> QED  BY <1>1, <1>2, <1>3, <1>5, <1>6, <1>7, <1>9
-----------------------------------------------------------------------------
(* What binding comes to: one node, new or taken off its action's list, gets the hotkey *)
(* and the action and is put at the head of that action's list.                          *)

Unlinked(h, A) ==
  \A b \in Actions :
    /\ A[b] \in Seq(DOMAIN node)
    /\ ToSet(A[b]) = ToSet(actions[b]) \ {h}
    /\ \A x, y : Before(A[b], x, y) => Before(actions[b], x, y)

Moved(k, m, a, h, A) ==
  /\ Unlinked(h, A) /\ DOMAIN A = Actions
  /\ actions' = [A EXCEPT ![a] = <<h>> \o @]
  /\ node' \in Seq([key : Key, mods : Mods, action : Actions])
  /\ DOMAIN node' = DOMAIN node \cup {h}
  /\ node'[h] = [key |-> k, mods |-> m, action |-> a]
  /\ \A n \in DOMAIN node : n # h => node'[n] = node[n]
  /\ hotkeys' = [j \in Key |-> hotkeys'[j]]
  /\ \A j \in Key : hotkeys'[j] \in Seq(DOMAIN node')
  /\ \A n \in DOMAIN node' :
       n # h /\ Reached(n)' => Reached(n) /\ ~(node[n].key = k /\ node[n].mods = m)
  /\ last' = [last EXCEPT ![<<k, m>>] = a]
  /\ freed' = freed

LEMMA MovedKeepsInvariant ==
  ASSUME IInv, NEW k \in Key, NEW m \in Mods, NEW a \in Actions, NEW h, NEW A,
         Moved(k, m, a, h, A), KeyLists'
  PROVE  IInv'
<1> USE DEF Moved
<1>1. \A b \in Actions : A[b] \in Seq(DOMAIN node')
  <2> SUFFICES ASSUME NEW b \in Actions PROVE A[b] \in Seq(DOMAIN node')
    OBVIOUS
  <2>1. A[b] \in Seq(DOMAIN node)
    BY DEF Unlinked
  <2>2. \A i \in 1 .. Len(A[b]) : A[b][i] \in DOMAIN node'
    BY <2>1, ElementOfSeq
  <2> QED  BY <2>1, <2>2, ElementOfSeq, SeqDef
<1>2. \A b \in Actions :
        /\ b # a => actions'[b] = A[b]
        /\ b = a => actions'[b] = <<h>> \o A[b]
  OBVIOUS
<1>3. /\ <<h>> \o A[a] \in Seq(DOMAIN node')
      /\ ToSet(<<h>> \o A[a]) = {h} \cup ToSet(A[a])
      /\ \A x, y : Before(<<h>> \o A[a], x, y) <=> (x = h /\ y \in ToSet(A[a])) \/ Before(A[a], x, y)
  BY <1>1, ConsIs
<1>4. \A b \in Actions : h \notin ToSet(A[b])
  BY DEF Unlinked
<1>5. \A b \in Actions : \A x : ~Before(A[b], x, h)
  BY <1>4 DEF Before, ToSet
<1>6. \A b \in Actions : \A x, y :
        Before(actions'[b], x, y) => y # h /\ ((x = h /\ b = a) \/ Before(actions[b], x, y))
  <2> SUFFICES ASSUME NEW b \in Actions, NEW x, NEW y, Before(actions'[b], x, y)
               PROVE  y # h /\ ((x = h /\ b = a) \/ Before(actions[b], x, y))
    OBVIOUS
  <2>1. CASE b = a
    BY <1>2, <1>3, <1>4, <1>5, <2>1 DEF Unlinked
  <2>2. CASE b # a
    BY <1>2, <1>5, <2>2 DEF Unlinked
  <2> QED  BY <2>1, <2>2
<1>7. Types'
  <2>1. actions' = [b \in Actions |-> actions'[b]] /\ \A b \in Actions : actions'[b] \in Seq(DOMAIN node')
    BY <1>1, <1>2, <1>3
  <2>2. last' = [j \in Key \X Mods |-> last'[j]]
    BY DEF IInv, Types
  <2> QED  BY <2>1, <2>2 DEF Types, TypeOK
<1>8. ActionLists'
  <2>1. ASSUME NEW n \in DOMAIN node', NEW b \in Actions
        PROVE  n \in ToSet(actions'[b]) <=> b = node'[n].action
    <3>1. CASE n = h
      <4>1. node'[n].action = a
        BY <3>1
      <4>2. CASE b = a
        BY <1>2, <1>3, <3>1, <4>1, <4>2
      <4>3. CASE b # a
        BY <1>2, <1>4, <3>1, <4>1, <4>3
      <4> QED  BY <4>2, <4>3
    <3>2. CASE n # h
      <4>1. n \in ToSet(actions'[b]) <=> n \in ToSet(actions[b])
        BY <1>2, <1>3, <3>2 DEF Unlinked
      <4> QED  BY <3>2, <4>1 DEF IInv, ActionLists
    <3> QED  BY <3>1, <3>2
  <2>2. ASSUME NEW n \in DOMAIN node', NEW b \in Actions
        PROVE  ~Before(actions'[b], n, n)
    BY <1>6 DEF IInv, ActionLists
  <2> QED  BY <2>1, <2>2 DEF ActionLists
<1>9. ReachedFirst'
  <2> SUFFICES ASSUME NEW b \in Actions, NEW x \in DOMAIN node', NEW y \in DOMAIN node',
                      Before(actions'[b], x, y), Reached(y)'
               PROVE  ~Same(x, y)'
    BY DEF ReachedFirst
  <2>1. y # h /\ y \in DOMAIN node /\ ((x = h /\ b = a) \/ Before(actions[b], x, y))
    BY <1>6
  <2>2. Reached(y) /\ ~(node[y].key = k /\ node[y].mods = m) /\ node'[y] = node[y]
    BY <2>1
  <2>3. CASE x = h
    BY <2>2, <2>3 DEF Same
  <2>4. CASE x # h
    <3>1. x \in DOMAIN node /\ node'[x] = node[x] /\ Before(actions[b], x, y)
      BY <2>1, <2>4
    <3>2. ~Same(x, y)
      BY <2>1, <2>2, <3>1 DEF IInv, ReachedFirst
    <3> QED  BY <2>2, <3>1, <3>2 DEF Same
  <2> QED  BY <2>3, <2>4
<1>10. ReachedIsLast'
  <2> SUFFICES ASSUME NEW n \in DOMAIN node', Reached(n)'
               PROVE  node'[n].action = last'[<<node'[n].key, node'[n].mods>>]
    BY DEF ReachedIsLast
  <2>1. CASE n = h
    BY <2>1 DEF IInv, Types
  <2>2. CASE n # h
    <3>1. Reached(n) /\ n \in DOMAIN node /\ node'[n] = node[n]
          /\ ~(node[n].key = k /\ node[n].mods = m)
      BY <2>2
    <3>2. node[n].key \in Key /\ node[n].mods \in Mods
      BY <3>1, NodeIs DEF IInv
    <3>3. last'[<<node[n].key, node[n].mods>>] = last[<<node[n].key, node[n].mods>>]
      BY <3>1, <3>2 DEF IInv, Types
    <3> QED  BY <3>1, <3>3 DEF IInv, ReachedIsLast
  <2> QED  BY <2>1, <2>2
<1>11. FreedOnce'
  BY <1>7 DEF IInv, FreedOnce, Types
<1> QED  BY <1>7, <1>8, <1>9, <1>10, <1>11 DEF IInv
-----------------------------------------------------------------------------
(* Every step keeps the invariant *)

LEMMA InitInvariant == Init => IInv
<1> SUFFICES ASSUME Init PROVE IInv
  OBVIOUS
<1> USE DEF Init
<1>1. DOMAIN node = {} /\ node \in Seq([key : Key, mods : Mods, action : Actions])
  BY EmptySeq
<1>2. Types
  BY <1>1 DEF Types, TypeOK
<1>3. /\ \A k \in Key : ToSet(hotkeys[k]) = {} /\ \A x, y : ~Before(hotkeys[k], x, y)
  BY DEF ToSet, Before
<1>4. KeyLists
  BY <1>3 DEF KeyLists
<1>5. ActionLists /\ ReachedFirst /\ ReachedIsLast
  BY <1>1 DEF ActionLists, ReachedFirst, ReachedIsLast
<1>6. FreedOnce
  BY <1>2 DEF FreedOnce, Types
<1> QED  BY <1>2, <1>4, <1>5, <1>6 DEF IInv

LEMMA AddMoves ==
  ASSUME IInv, NEW k \in Key, NEW m \in Mods, NEW a \in Actions,
         Add(k, m, a), last' = [last EXCEPT ![<<k, m>>] = a], freed' = freed
  PROVE  \E h, A : Moved(k, m, a, h, A) /\ KeyLists'
<1> DEFINE h == Len(node) + 1
           R == [key : Key, mods : Mods, action : Actions]
<1>1. node \in Seq(R) /\ Len(node) \in Nat /\ DOMAIN node = 1 .. Len(node)
  BY LenProperties DEF IInv, Types, TypeOK
<1>2. h \notin DOMAIN node
  BY <1>1
<1>3. /\ node' = Append(node, [key |-> k, mods |-> m, action |-> a])
      /\ hotkeys' = [hotkeys EXCEPT ![k] = <<h>> \o @]
      /\ actions' = [actions EXCEPT ![a] = <<h>> \o @]
      /\ At(hotkeys[k], k, m) = {}
  BY DEF Add
<1>4. node' \in Seq(R) /\ DOMAIN node' = DOMAIN node \cup {h}
      /\ node'[h] = [key |-> k, mods |-> m, action |-> a]
      /\ \A n \in DOMAIN node : node'[n] = node[n]
  <2>1. [key |-> k, mods |-> m, action |-> a] \in R
    OBVIOUS
  <2> HIDE DEF R
  <2>2. /\ node' \in Seq(R) /\ Len(node') = Len(node) + 1
        /\ \A n \in 1 .. Len(node) : node'[n] = node[n]
        /\ node'[Len(node) + 1] = [key |-> k, mods |-> m, action |-> a]
    BY <1>1, <1>3, <2>1, AppendProperties
  <2>3. DOMAIN node' = 1 .. Len(node) + 1
    BY <2>2, LenProperties
  <2> QED  BY <1>1, <2>2, <2>3
<1> HIDE DEF R
<1>5. \A j \in Key : hotkeys[j] \in Seq(DOMAIN node) /\ hotkeys[j] \in Seq(DOMAIN node')
  BY <1>4, SeqMonotonic DEF IInv, Types, TypeOK
<1> HIDE DEF h
<1>6. /\ <<h>> \o hotkeys[k] \in Seq(DOMAIN node')
      /\ ToSet(<<h>> \o hotkeys[k]) = {h} \cup ToSet(hotkeys[k])
      /\ \A x, y : Before(<<h>> \o hotkeys[k], x, y)
                     <=> (x = h /\ y \in ToSet(hotkeys[k])) \/ Before(hotkeys[k], x, y)
  BY <1>4, <1>5, ConsIs
<1>7. /\ hotkeys' = [j \in Key |-> hotkeys'[j]]
      /\ hotkeys'[k] = <<h>> \o hotkeys[k]
      /\ \A j \in Key : j # k => hotkeys'[j] = hotkeys[j]
  BY <1>3 DEF IInv, Types
<1>8. \A j \in Key : hotkeys'[j] \in Seq(DOMAIN node')
  BY <1>5, <1>6, <1>7
<1>9. \A j \in Key : ToSet(hotkeys[j]) \subseteq DOMAIN node
  BY <1>5, ListIn
<1>10. \A x \in ToSet(hotkeys[k]) : ~(node[x].key = k /\ node[x].mods = m)
  BY <1>3 DEF At, ToSet
<1>11. KeyLists'
  <2>1. ASSUME NEW j \in Key, NEW x \in ToSet(hotkeys'[j]) PROVE node'[x].key = j
    <3>1. CASE x \in ToSet(hotkeys[j])
      BY <1>4, <1>9, <3>1 DEF IInv, KeyLists
    <3>2. CASE x \notin ToSet(hotkeys[j])
      <4>1. j = k /\ x = h
        BY <1>6, <1>7, <2>1, <3>2
      <4> QED  BY <1>4, <4>1
    <3> QED  BY <3>1, <3>2
  <2>2. ASSUME NEW j \in Key, NEW x \in DOMAIN node', NEW y \in DOMAIN node',
               Before(hotkeys'[j], x, y)
        PROVE  ~Same(x, y)'
    <3>1. CASE Before(hotkeys[j], x, y)
      <4>1. x \in DOMAIN node /\ y \in DOMAIN node
        BY <1>9, <3>1 DEF Before, ToSet
      <4> QED  BY <1>4, <3>1, <4>1 DEF IInv, KeyLists, Same
    <3>2. CASE ~Before(hotkeys[j], x, y)
      <4>1. x = h /\ y \in ToSet(hotkeys[k]) /\ y \in DOMAIN node
        BY <1>6, <1>7, <1>9, <2>2, <3>2
      <4> QED  BY <1>4, <1>10, <4>1 DEF Same
    <3> QED  BY <3>1, <3>2
  <2> QED  BY <2>1, <2>2 DEF KeyLists
<1>12. \A n \in DOMAIN node' :
         n # h /\ Reached(n)' => Reached(n) /\ ~(node[n].key = k /\ node[n].mods = m)
  <2> SUFFICES ASSUME NEW n \in DOMAIN node', n # h, n \in ToSet(hotkeys'[node'[n].key])
               PROVE  Reached(n) /\ ~(node[n].key = k /\ node[n].mods = m)
    BY DEF Reached
  <2>1. n \in DOMAIN node /\ node'[n] = node[n] /\ node[n].key \in Key
    BY <1>4, NodeIs DEF IInv
  <2>2. n \in ToSet(hotkeys[node[n].key])
    BY <1>6, <1>7, <2>1
  <2> QED  BY <1>10, <2>2 DEF Reached
<1>13. Unlinked(h, actions)
  <2>1. \A b \in Actions : actions[b] \in Seq(DOMAIN node)
    BY DEF IInv, Types, TypeOK
  <2>2. \A b \in Actions : h \notin ToSet(actions[b])
    BY <1>2, <2>1, ListIn DEF h
  <2> QED  BY <2>1, <2>2 DEF Unlinked
<1>14. DOMAIN actions = Actions
  BY DEF IInv, Types
<1>15. Moved(k, m, a, h, actions)
  BY <1>3, <1>4, <1>7, <1>8, <1>12, <1>13, <1>14 DEF Moved, R
<1> QED  BY <1>11, <1>15

LEMMA RebindMoves ==
  ASSUME IInv, NEW k \in Key, NEW m \in Mods, NEW a \in Actions,
         Rebind(k, m, a), last' = [last EXCEPT ![<<k, m>>] = a], freed' = freed
  PROVE  \E g, B : Moved(k, m, a, g, B) /\ KeyLists'
<1> DEFINE keys == hotkeys[k]
           i == First(At(keys, k, m))
           h == keys[i]
           old == node[h].action
           p == First(At(actions[old], k, m))
           A == [actions EXCEPT ![old] = RemoveAt(@, p)]
           R == [key : Key, mods : Mods, action : Actions]
<1>1. /\ At(keys, k, m) # {}
      /\ node' = [node EXCEPT ![h].action = a]
      /\ hotkeys' = [hotkeys EXCEPT ![k] = SubSeq(@, 1, i)]
      /\ actions' = [A EXCEPT ![a] = <<h>> \o @]
  BY DEF Rebind
<1>2. keys \in Seq(DOMAIN node) /\ DOMAIN keys = 1 .. Len(keys) /\ Len(keys) \in Nat
  BY LenProperties DEF IInv, Types, TypeOK
<1>3. i \in DOMAIN keys /\ node[h].key = k /\ node[h].mods = m
  <2>1. At(keys, k, m) \in SUBSET Nat
    BY <1>2 DEF At
  <2>2. i \in At(keys, k, m)
    BY <1>1, <2>1, FirstIs
  <2> QED  BY <2>2 DEF At
<1> HIDE DEF i
<1>4. /\ h \in DOMAIN node /\ old \in Actions
      /\ p \in DOMAIN actions[old] /\ actions[old][p] = h
  BY <1>3, SearchFinds DEF IInv
<1> HIDE DEF p
<1>5. /\ node \in Seq(R) /\ node[h] \in R /\ DOMAIN node = 1 .. Len(node)
  BY <1>4, NodeIs, LenProperties DEF IInv, Types, TypeOK
<1>6. [key |-> k, mods |-> m, action |-> a] \in R
  OBVIOUS
<1>7. [node[h] EXCEPT !.action = a] = [key |-> k, mods |-> m, action |-> a]
  BY <1>3, <1>5
<1>8. node' = [node EXCEPT ![h] = [key |-> k, mods |-> m, action |-> a]]
  BY <1>1, <1>7
<1> HIDE DEF R, h, keys
<1>9. node' \in Seq(R) /\ DOMAIN node' = DOMAIN node
  BY <1>4, <1>5, <1>6, <1>8, ExceptSeq
<1>10. /\ node'[h] = [key |-> k, mods |-> m, action |-> a]
       /\ \A n \in DOMAIN node : n # h => node'[n] = node[n]
  BY <1>4, <1>5, <1>8
<1>11. /\ SubSeq(keys, 1, i) \in Seq(DOMAIN node)
       /\ ToSet(SubSeq(keys, 1, i)) \subseteq ToSet(keys)
       /\ \A x, y : Before(SubSeq(keys, 1, i), x, y) => Before(keys, x, y)
  BY <1>2, <1>3, PrefixIs
<1>12. /\ hotkeys' = [j \in Key |-> hotkeys'[j]]
       /\ hotkeys'[k] = SubSeq(keys, 1, i)
       /\ \A j \in Key : j # k => hotkeys'[j] = hotkeys[j]
  BY <1>1 DEF IInv, Types, keys
<1>13. \A j \in Key :
         /\ hotkeys'[j] \in Seq(DOMAIN node)
         /\ ToSet(hotkeys'[j]) \subseteq ToSet(hotkeys[j])
         /\ \A x, y : Before(hotkeys'[j], x, y) => Before(hotkeys[j], x, y)
  <2> SUFFICES ASSUME NEW j \in Key
               PROVE  /\ hotkeys'[j] \in Seq(DOMAIN node)
                      /\ ToSet(hotkeys'[j]) \subseteq ToSet(hotkeys[j])
                      /\ \A x, y : Before(hotkeys'[j], x, y) => Before(hotkeys[j], x, y)
    OBVIOUS
  <2>1. CASE j = k
    BY <1>11, <1>12, <2>1 DEF keys
  <2>2. CASE j # k
    BY <1>12, <2>2 DEF IInv, Types, TypeOK
  <2> QED  BY <2>1, <2>2
<1>14. \A n \in DOMAIN node : node'[n].key = node[n].key /\ node'[n].mods = node[n].mods
  BY <1>3, <1>10 DEF h, keys
<1>15. KeyLists'
  <2>1. ASSUME NEW j \in Key, NEW x \in ToSet(hotkeys'[j]) PROVE node'[x].key = j
    <3>1. x \in DOMAIN node /\ x \in ToSet(hotkeys[j])
      BY <1>13, ListIn
    <3> QED  BY <1>14, <3>1 DEF IInv, KeyLists
  <2>2. ASSUME NEW j \in Key, NEW x \in DOMAIN node', NEW y \in DOMAIN node',
               Before(hotkeys'[j], x, y)
        PROVE  ~Same(x, y)'
    <3>1. x \in DOMAIN node /\ y \in DOMAIN node /\ Before(hotkeys[j], x, y)
      BY <1>9, <1>13, <2>2
    <3> QED  BY <1>14, <3>1 DEF IInv, KeyLists, Same
  <2> QED  BY <2>1, <2>2 DEF KeyLists
<1>16. \A x \in ToSet(keys) : x # h => ~(node[x].key = k /\ node[x].mods = m)
  <2> SUFFICES ASSUME NEW x \in ToSet(keys), x # h PROVE ~Same(x, h)
    BY <1>3 DEF Same, h, keys
  <2>1. PICK j \in DOMAIN keys : keys[j] = x
    BY DEF ToSet
  <2>2. x \in DOMAIN node
    BY <1>2, ListIn
  <2>3. j < i \/ i < j
    BY <1>2, <1>3, <2>1 DEF h
  <2>4. Before(keys, x, h) \/ Before(keys, h, x)
    BY <1>3, <2>1, <2>3 DEF Before, h
  <2>5. ~Same(x, h) \/ ~Same(h, x)
    BY <1>4, <2>2, <2>4 DEF IInv, KeyLists, keys
  <2> QED  BY <2>5 DEF Same
<1>17. \A n \in DOMAIN node' :
         n # h /\ Reached(n)' => Reached(n) /\ ~(node[n].key = k /\ node[n].mods = m)
  <2> SUFFICES ASSUME NEW n \in DOMAIN node', n # h, n \in ToSet(hotkeys'[node'[n].key])
               PROVE  Reached(n) /\ ~(node[n].key = k /\ node[n].mods = m)
    BY DEF Reached
  <2>1. n \in DOMAIN node /\ node'[n] = node[n] /\ node[n].key \in Key
    BY <1>9, <1>10, NodeIs DEF IInv
  <2>2. n \in ToSet(hotkeys[node[n].key])
    BY <1>13, <2>1
  <2> QED  BY <1>16, <2>2 DEF Reached, keys
<1>18. DOMAIN A = Actions /\ A[old] = RemoveAt(actions[old], p)
       /\ \A b \in Actions : b # old => A[b] = actions[b]
  BY <1>4 DEF IInv, Types
<1>19. Unlinked(h, A)
  <2> HIDE DEF A
  <2>1. \A b \in Actions : actions[b] \in Seq(DOMAIN node)
    BY DEF IInv, Types, TypeOK
  <2>2. /\ A[old] \in Seq(DOMAIN node)
        /\ ToSet(A[old]) = ToSet(actions[old]) \ {h}
        /\ \A x, y : Before(A[old], x, y) => Before(actions[old], x, y)
    <3>1. \A x \in DOMAIN node : ~Before(actions[old], x, x)
      BY <1>4 DEF IInv, ActionLists
    <3>2. /\ RemoveAt(actions[old], p) \in Seq(DOMAIN node)
          /\ ToSet(RemoveAt(actions[old], p)) = ToSet(actions[old]) \ {actions[old][p]}
          /\ \A x, y : Before(RemoveAt(actions[old], p), x, y) => Before(actions[old], x, y)
      BY <1>4, <2>1, <3>1, RemoveAtIs
    <3> QED  BY <1>4, <1>18, <3>2
  <2>3. ASSUME NEW b \in Actions, b # old
        PROVE  /\ A[b] \in Seq(DOMAIN node)
               /\ ToSet(A[b]) = ToSet(actions[b]) \ {h}
               /\ \A x, y : Before(A[b], x, y) => Before(actions[b], x, y)
    <3>1. h \notin ToSet(actions[b])
      BY <1>4, <2>3 DEF IInv, ActionLists
    <3> QED  BY <1>18, <2>1, <2>3, <3>1
  <2> QED  BY <2>2, <2>3 DEF Unlinked
<1> HIDE DEF A
<1>20. \A j \in Key : hotkeys'[j] \in Seq(DOMAIN node')
  BY <1>9, <1>13
<1>21. DOMAIN node' = DOMAIN node \cup {h}
  BY <1>4, <1>9
<1>22. Moved(k, m, a, h, A)
  BY <1>1, <1>9, <1>10, <1>12, <1>17, <1>18, <1>19, <1>20, <1>21 DEF Moved, R
<1> QED  BY <1>15, <1>22

LEMMA ResetKeepsInvariant == ASSUME IInv, Reset PROVE IInv'
<1>1. /\ node' = <<>> /\ hotkeys' = [k \in Key |-> <<>>]
      /\ actions' = [a \in Actions |-> <<>>] /\ last' = [h \in Key \X Mods |-> None]
      /\ freed' = [n \in DOMAIN node |->
                    Cardinality({p \in Walk(Actions) : actions[p[1]][p[2]] = n})]
  BY DEF Reset
<1>2. DOMAIN node' = {} /\ node' \in Seq([key : Key, mods : Mods, action : Actions])
  BY <1>1, EmptySeq
<1>3. TypeOK'
  BY <1>1 DEF TypeOK
<1>4. Types'
  BY <1>1, <1>3 DEF Types
<1>5. \A k \in Key : ToSet(hotkeys'[k]) = {} /\ \A x, y : ~Before(hotkeys'[k], x, y)
  BY <1>1 DEF ToSet, Before
<1>6. KeyLists'
  BY <1>5 DEF KeyLists
<1>7. ActionLists' /\ ReachedFirst' /\ ReachedIsLast'
  BY <1>2 DEF ActionLists, ReachedFirst, ReachedIsLast
<1>8. ASSUME NEW n \in DOMAIN node
      PROVE  Cardinality({p \in Walk(Actions) : actions[p[1]][p[2]] = n}) = 1
  <2> DEFINE a == node[n].action
             P == {p \in Walk(Actions) : actions[p[1]][p[2]] = n}
  <2>1. a \in Actions /\ actions[a] \in Seq(DOMAIN node)
    BY NodeIs DEF IInv, Types, TypeOK
  <2>2. n \in ToSet(actions[a])
    BY <2>1 DEF IInv, ActionLists
  <2>3. PICK i \in DOMAIN actions[a] : actions[a][i] = n
    BY <2>2 DEF ToSet
  <2>4. <<a, i>> \in P
    BY <2>1, <2>3 DEF Walk
  <2>5. ASSUME NEW p \in P PROVE p = <<a, i>>
    <3>0. PICK b \in Actions : p \in {b} \X DOMAIN actions[b]
      BY DEF Walk
    <3>1. PICK j \in DOMAIN actions[b] : p = <<b, j>>
      BY <3>0
    <3>2. actions[b][j] = n
      BY <3>1
    <3>3. b = a
      BY <3>2 DEF ToSet, IInv, ActionLists
    <3>4. i \in Nat /\ j \in Nat
      BY <2>1, <2>3, <3>1, <3>3, LenProperties
    <3>5. ~(i < j) /\ ~(j < i)
      BY <2>1, <2>3, <3>1, <3>2, <3>3 DEF Before, IInv, ActionLists
    <3> QED  BY <3>1, <3>3, <3>4, <3>5
  <2> HIDE DEF P
  <2>6. P = {<<a, i>>}
    BY <2>4, <2>5
  <2> QED  BY <2>6, FS_Singleton DEF P
<1>9. FreedOnce'
  BY <1>1, <1>3, <1>8 DEF FreedOnce
<1> QED  BY <1>4, <1>6, <1>7, <1>9 DEF IInv

LEMMA BindMoves ==
  ASSUME IInv, NEW k \in Key, NEW m \in Mods, NEW a \in Actions, Bind(k, m, a)
  PROVE  \E h, A : Moved(k, m, a, h, A) /\ KeyLists'
<1>1. last' = [last EXCEPT ![<<k, m>>] = a] /\ freed' = freed
  BY DEF Bind
<1>2. CASE Add(k, m, a)
  BY <1>1, <1>2, AddMoves
<1>3. CASE Rebind(k, m, a)
  BY <1>1, <1>3, RebindMoves
<1> QED  BY <1>2, <1>3 DEF Bind

LEMMA BindKeepsInvariant ==
  ASSUME IInv, NEW k \in Key, NEW m \in Mods, NEW a \in Actions, Bind(k, m, a)
  PROVE  IInv'
BY BindMoves, MovedKeepsInvariant

LEMMA StutterKeepsInvariant == ASSUME IInv, UNCHANGED vars PROVE IInv'
<1> USE DEF vars
<1>1. Types' /\ FreedOnce'
  BY DEF IInv, Types, TypeOK, FreedOnce
<1>2. KeyLists'
  BY DEF IInv, KeyLists, Same
<1>3. ActionLists'
  BY DEF IInv, ActionLists
<1>4. ReachedFirst'
  BY DEF IInv, ReachedFirst, Reached, Same
<1>5. ReachedIsLast'
  BY DEF IInv, ReachedIsLast, Reached
<1> QED  BY <1>1, <1>2, <1>3, <1>4, <1>5 DEF IInv

LEMMA NextKeepsInvariant == ASSUME IInv, [Next]_vars PROVE IInv'
<1>1. ASSUME NEW k \in Key, NEW m \in Mods, NEW a \in Actions, Bind(k, m, a) PROVE IInv'
  BY <1>1, BindKeepsInvariant
<1>2. CASE Reset
  BY <1>2, ResetKeepsInvariant
<1>3. CASE UNCHANGED vars
  BY <1>3, StutterKeepsInvariant
<1> QED  BY <1>1, <1>2, <1>3 DEF Next

THEOREM TableInvariant == Spec => []IInv
<1>1. IInv /\ [Next]_vars => IInv'
  BY NextKeepsInvariant
<1> QED  BY <1>1, InitInvariant, PTL DEF Spec
-----------------------------------------------------------------------------
(* The settings window binds on top of the table: what its threads hold between two *)
(* steps are keys, modifiers and actions of the table.                              *)

PopupTypes ==
  /\ action_id \in Actions /\ button_no \in Button
  /\ str # Empty => str \in Key \X Mods
  /\ keyboard \in {Empty, <<"escape">>} \cup {"arrived", "taken"} \X Key \X Mods

\* The pop-up was opened on a table with at most two hotkeys of each action, and OK takes
\* one of an action's hotkeys off before it puts another one on.
FewWork ==
  /\ binding => open
  /\ open /\ ~crossed =>
       /\ \A a \in Row : Cardinality(Working(a)) <= 2
       /\ binding /\ action_id \in Row => Cardinality(Working(action_id)) <= 1

PopupInv == IInv /\ PopupTypes /\ FewWork

LEMMA ShownIs ==
  ASSUME Types, NEW a \in Actions
  PROVE  /\ Len(Shown(a)) \in Nat /\ Len(Shown(a)) = Len(actions[a])
         /\ \A i \in 1 .. Len(Shown(a)) : Shown(a)[i] \in ToSet(actions[a])
         /\ \A i \in 1 .. Len(Shown(a)) : Shown(a)[i] \in DOMAIN node
<1> DEFINE s == actions[a]
           t == Shown(a)
<1>1. s \in Seq(DOMAIN node) /\ Len(s) \in Nat /\ \A i \in 1 .. Len(s) : s[i] \in DOMAIN node
  BY LenProperties, ElementOfSeq DEF Types, TypeOK
<1>2. t = [i \in 1 .. Len(s) |-> s[(Len(s) - i) + 1]]
  BY DEF Shown, Reverse
<1> HIDE DEF s, t
<1>3. \A i \in 1 .. Len(s) : t[i] \in DOMAIN node
  <2> SUFFICES ASSUME NEW i \in 1 .. Len(s) PROVE t[i] \in DOMAIN node
    OBVIOUS
  <2>1. (Len(s) - i) + 1 \in 1 .. Len(s)
    BY <1>1
  <2> QED  BY <1>1, <1>2, <2>1
<1>4. t \in Seq(DOMAIN node) /\ Len(t) = Len(s)
  BY <1>1, <1>2, <1>3
<1>5. \A i \in 1 .. Len(s) : t[i] \in ToSet(s)
  <2> SUFFICES ASSUME NEW i \in 1 .. Len(s) PROVE t[i] \in ToSet(s)
    OBVIOUS
  <2>1. (Len(s) - i) + 1 \in DOMAIN s
    BY <1>1, LenProperties
  <2> QED  BY <1>2, <2>1 DEF ToSet
<1> QED  BY <1>1, <1>3, <1>4, <1>5 DEF t, s

\* Each step of the settings window binds one hotkey of the table, resets it, or leaves it.
LEMMA PopupStep == ASSUME PopupInv, [NextPopup]_allVars PROVE [Next]_vars
<1>1. ASSUME NEW k \in Key, NEW m \in Mods, NEW a \in Actions, Bind(k, m, a) PROVE Next
  BY <1>1 DEF Next
<1>2. CASE OkUnbind
  <2>1. CASE Len(Shown(action_id)) > button_no
    <3> DEFINE n == Shown(action_id)[button_no + 1]
    <3>1. button_no + 1 \in 1 .. Len(Shown(action_id))
      BY <2>1, ShownIs DEF PopupInv, PopupTypes, IInv, Button
    <3>2. n \in DOMAIN node
      BY <3>1, ShownIs DEF PopupInv, PopupTypes, IInv
    <3>3. node[n].key \in Key /\ node[n].mods \in Mods
      BY <3>2, NodeIs DEF PopupInv, IInv
    <3>4. Bind(node[n].key, node[n].mods, None)
      BY <1>2, <2>1 DEF OkUnbind
    <3> HIDE DEF n
    <3> QED  BY <1>1, <3>3, <3>4, HotkeysAssumption
  <2> QED  BY <1>2, <2>1 DEF OkUnbind
<1>3. CASE OkBind
  <2>1. CASE ~listening /\ str # Empty
    <3>1. Bind(str[1], str[2], action_id)
      BY <1>3, <2>1 DEF OkBind
    <3>2. str[1] \in Key /\ str[2] \in Mods /\ action_id \in Actions
      BY <2>1 DEF PopupInv, PopupTypes
    <3> QED  BY <1>1, <3>1, <3>2
  <2> QED  BY <1>3, <2>1 DEF OkBind
<1>4. CASE Command
  BY <1>1, <1>4 DEF Command
<1>5. CASE Revert
  BY <1>5 DEF Revert, Next
<1>6. CASE (\E a \in Row, b \in Button : Click(a, b)) \/ CloseWithoutAction \/ Cancel \/ ClickReset
  BY <1>6 DEF Click, CloseWithoutAction, Cancel, ClickReset
<1>7. CASE Keyboard
  BY <1>7 DEF Keyboard, KeyArrives, KeyTaken, KeyShown, EscapeTaken, EscapeDone
<1>8. CASE UNCHANGED allVars
  BY <1>8 DEF allVars
<1> QED  BY <1>2, <1>3, <1>4, <1>5, <1>6, <1>7, <1>8 DEF NextPopup, Render

LEMMA PopupTypesKept == ASSUME PopupTypes, [NextPopup]_allVars PROVE PopupTypes'
<1> USE DEF PopupTypes
<1>1. CASE Render
  <2>1. ASSUME NEW a \in Row, NEW b \in Button, Click(a, b) PROVE PopupTypes'
    BY <2>1 DEF Click, Row
  <2>2. CASE CloseWithoutAction \/ Cancel \/ ClickReset
    BY <2>2, HotkeysAssumption DEF CloseWithoutAction, Cancel, ClickReset
  <2>3. CASE OkUnbind \/ OkBind
    BY <2>3, HotkeysAssumption DEF OkUnbind, OkBind
  <2> QED  BY <1>1, <2>1, <2>2, <2>3 DEF Render
<1>2. CASE Keyboard
  <2>1. ASSUME NEW k \in Key, NEW m \in Mods, KeyArrives(k, m) PROVE PopupTypes'
    BY <2>1 DEF KeyArrives
  <2>2. CASE KeyTaken
    <3>1. PICK k \in Key, m \in Mods : keyboard = <<"arrived", k, m>>
      BY <2>2 DEF KeyTaken, Empty
    <3>2. keyboard' = <<"taken", k, m>>
      BY <2>2, <3>1 DEF KeyTaken
    <3> QED  BY <2>2, <3>2 DEF KeyTaken
  <2>3. CASE KeyShown
    <3>1. PICK k \in Key, m \in Mods : keyboard = <<"taken", k, m>>
      BY <2>3 DEF KeyShown, Empty
    <3>2. str' = <<k, m>>
      BY <2>3, <3>1 DEF KeyShown
    <3>3. str' \in Key \X Mods
      BY <3>2
    <3>4. keyboard' = Empty /\ action_id' = action_id /\ button_no' = button_no
      BY <2>3 DEF KeyShown
    <3> QED  BY <3>3, <3>4
  <2>4. CASE EscapeTaken \/ EscapeDone
    BY <2>4, HotkeysAssumption DEF EscapeTaken, EscapeDone
  <2> QED  BY <1>2, <2>1, <2>2, <2>3, <2>4 DEF Keyboard
<1>3. CASE Command \/ Revert \/ UNCHANGED allVars
  BY <1>3 DEF Command, Revert, popup, allVars
<1> QED  BY <1>1, <1>2, <1>3 DEF NextPopup

-----------------------------------------------------------------------------
(* How many hotkeys of an action work *)

LEMMA WorkingIs ==
  ASSUME IInv, NEW a \in Actions
  PROVE  /\ IsFiniteSet(Working(a)) /\ Cardinality(Working(a)) \in Nat
         /\ Working(a) \subseteq ToSet(actions[a])
<1>1. DOMAIN node = 1 .. Len(node) /\ Len(node) \in Nat
  BY LenProperties DEF IInv, Types, TypeOK
<1>2. IsFiniteSet(DOMAIN node)
  BY <1>1, FS_Interval
<1>3. Working(a) \subseteq DOMAIN node
  BY DEF Working
<1>4. Working(a) \subseteq ToSet(actions[a])
  BY DEF Working, IInv, ActionLists
<1> QED  BY <1>2, <1>3, <1>4, FS_Subset, FS_CardinalityType

\* A set with no more than these elements.
LEMMA AtMostOneIs ==
  ASSUME NEW S, NEW x, S \subseteq {x}
  PROVE  Cardinality(S) <= 1
<1>1. IsFiniteSet({x}) /\ Cardinality({x}) = 1
  BY FS_Singleton
<1>2. Cardinality(S) <= Cardinality({x})
  BY <1>1, FS_Subset
<1> QED  BY <1>1, <1>2

LEMMA OneMoreIs ==
  ASSUME NEW S, IsFiniteSet(S), NEW T, NEW x, T \subseteq S \cup {x}
  PROVE  Cardinality(T) \in Nat /\ Cardinality(T) <= Cardinality(S) + 1
<1>1. IsFiniteSet(S \cup {x}) /\ Cardinality(S \cup {x}) <= Cardinality(S) + 1
  <2>1. Cardinality(S) \in Nat
    BY FS_CardinalityType
  <2>2. /\ IsFiniteSet(S \cup {x})
        /\ Cardinality(S \cup {x}) = IF x \in S THEN Cardinality(S) ELSE Cardinality(S) + 1
    BY FS_AddElement
  <2> QED  BY <2>1, <2>2
<1>2. IsFiniteSet(T) /\ Cardinality(T) <= Cardinality(S \cup {x})
  BY <1>1, FS_Subset
<1> QED  BY <1>1, <1>2, FS_CardinalityType

\* Of a list of two, one is left without one of its elements.
LEMMA ShortListIs ==
  ASSUME NEW S, NEW s \in Seq(S)
  PROVE  /\ Len(s) <= 1 => Cardinality(ToSet(s)) <= 1
         /\ Len(s) <= 2 => Cardinality(ToSet(s)) <= 2
         /\ Len(s) <= 2 => \A e \in ToSet(s) : \A T : T \subseteq ToSet(s) \ {e} => Cardinality(T) <= 1
<1>1. Len(s) \in Nat /\ DOMAIN s = 1 .. Len(s)
  BY LenProperties
<1>2. ASSUME Len(s) <= 1 PROVE Cardinality(ToSet(s)) <= 1
  <2>1. ToSet(s) \subseteq {s[1]}
    BY <1>1, <1>2 DEF ToSet
  <2> QED  BY <2>1, AtMostOneIs
<1>3. ASSUME Len(s) <= 2 PROVE ToSet(s) \subseteq {s[1]} \cup {s[2]}
  BY <1>1, <1>3 DEF ToSet
<1>4. ASSUME Len(s) <= 2 PROVE Cardinality(ToSet(s)) <= 2
  <2>1. IsFiniteSet({s[1]}) /\ Cardinality({s[1]}) = 1
    BY FS_Singleton
  <2>2. Cardinality(ToSet(s)) \in Nat /\ Cardinality(ToSet(s)) <= 1 + 1
    BY <1>3, <1>4, <2>1, OneMoreIs
  <2> QED  BY <2>2
<1>5. ASSUME Len(s) <= 2, NEW e \in ToSet(s), NEW T, T \subseteq ToSet(s) \ {e}
      PROVE  Cardinality(T) <= 1
  <2>1. T \subseteq {s[1]} \/ T \subseteq {s[2]}
    BY <1>3, <1>5
  <2> QED  BY <2>1, AtMostOneIs
<1> QED  BY <1>2, <1>4, <1>5

\* One binding: at most its node works anew, for its action only; and no other node with
\* its key and modifiers works any more.
LEMMA BindWorks ==
  ASSUME IInv, NEW k \in Key, NEW m \in Mods, NEW b \in Actions, Bind(k, m, b)
  PROVE  /\ \A a \in Actions : a # b => Working(a)' \subseteq Working(a)
         /\ \E h : Working(b)' \subseteq Working(b) \cup {h}
         /\ \A a \in Actions : a # b =>
              \A n \in Working(a)' : ~(node[n].key = k /\ node[n].mods = m)
<1>1. PICK h, A : Moved(k, m, b, h, A)
  BY BindMoves
<1>2. ASSUME NEW a \in Actions, NEW n \in Working(a)', n # h
      PROVE  n \in Working(a) /\ ~(node[n].key = k /\ node[n].mods = m)
  <2>1. n \in DOMAIN node' /\ node'[n].action = a /\ n \in Range(hotkeys'[node'[n].key])
    BY <1>2 DEF Working
  <2>2. Reached(n)'
    BY <2>1 DEF Reached, Range, ToSet
  <2>3. n \in DOMAIN node /\ node'[n] = node[n]
    BY <1>1, <1>2, <2>1 DEF Moved
  <2>4. Reached(n) /\ ~(node[n].key = k /\ node[n].mods = m)
    BY <1>1, <1>2, <2>1, <2>2 DEF Moved
  <2> QED  BY <2>1, <2>3, <2>4 DEF Working, Reached, Range, ToSet
<1>3. \A a \in Actions : a # b => h \notin Working(a)'
  BY <1>1 DEF Moved, Working
<1> QED  BY <1>2, <1>3

LEMMA DrawnFew ==
  ASSUME IInv, Drawn, NEW a \in Row
  PROVE  Cardinality(Working(a)) <= 2
<1>1. a \in Actions /\ Len(actions[a]) <= 2 /\ actions[a] \in Seq(DOMAIN node)
  BY DEF Row, Drawn, Room, IInv, Types, TypeOK
<1>2. IsFiniteSet(ToSet(actions[a])) /\ Cardinality(ToSet(actions[a])) <= 2
  <2>1. IsFiniteSet(ToSet(actions[a]))
    <3>1. ToSet(actions[a]) \subseteq DOMAIN node
      BY <1>1, ListIn
    <3>2. DOMAIN node = 1 .. Len(node) /\ Len(node) \in Nat
      BY LenProperties DEF IInv, Types, TypeOK
    <3>3. IsFiniteSet(DOMAIN node)
      BY <3>2, FS_Interval
    <3> QED  BY <3>1, <3>3, FS_Subset
  <2> QED  BY <1>1, <2>1, ShortListIs
<1>3. Cardinality(Working(a)) <= Cardinality(ToSet(actions[a]))
  BY <1>1, <1>2, WorkingIs, FS_Subset
<1>4. Cardinality(Working(a)) \in Nat /\ Cardinality(ToSet(actions[a])) \in Nat
  BY <1>1, <1>2, WorkingIs, FS_CardinalityType
<1> QED  BY <1>2, <1>3, <1>4

LEMMA FewerFew ==
  ASSUME IInv, NEW a \in Actions, Working(a)' \subseteq Working(a)
  PROVE  Cardinality(Working(a)') <= Cardinality(Working(a)) /\ Cardinality(Working(a)') \in Nat
BY WorkingIs, FS_Subset, FS_CardinalityType

\* A step that leaves the table alone, or empties it.
LEMMA QuietFew ==
  ASSUME IInv, NEW a \in Actions, UNCHANGED vars \/ Reset
  PROVE  Working(a)' \subseteq Working(a)
<1>1. CASE UNCHANGED vars
  BY <1>1 DEF vars, Working
<1>2. CASE Reset
  BY <1>2 DEF Reset, Working
<1> QED  BY <1>1, <1>2

\* OK takes the hotkey on the button off its action, unless there is none.
LEMMA OkUnbindFew ==
  ASSUME PopupInv, OkUnbind
  PROVE  /\ \A a \in Row : Cardinality(Working(a)') <= 2
         /\ action_id \in Row => Cardinality(Working(action_id)') <= 1
<1> USE DEF PopupInv
<1>1. Drawn /\ action_id \in Actions /\ Room(action_id) /\ button_no \in {0, 1}
  BY DEF OkUnbind, PopupTypes, Button
<1> DEFINE x == action_id
           list == actions[x]
<1>2. list \in Seq(DOMAIN node) /\ Len(list) \in Nat /\ Len(list) <= 2
  BY <1>1, LenProperties DEF IInv, Types, TypeOK, Room
<1>3. Working(x) \subseteq ToSet(list) /\ Len(Shown(x)) = Len(list)
  BY <1>1, WorkingIs, ShownIs DEF IInv
<1>4. CASE ~(Len(Shown(x)) > button_no)
  <2>1. UNCHANGED vars
    BY <1>4 DEF OkUnbind
  <2>2. \A a \in Row : a \in Actions /\ Cardinality(Working(a)') <= 2
    <3> SUFFICES ASSUME NEW a \in Row PROVE a \in Actions /\ Cardinality(Working(a)') <= 2
      OBVIOUS
    <3>1. a \in Actions /\ Working(a)' \subseteq Working(a)
      BY <2>1, QuietFew DEF Row
    <3> QED  BY <1>1, <3>1, DrawnFew, FewerFew, WorkingIs
  <2>3. Working(x)' = Working(x)
    BY <2>1 DEF vars, Working, OkUnbind
  <2>4. Len(list) <= 1
    BY <1>1, <1>2, <1>3, <1>4
  <2>5. Cardinality(Working(x)) <= 1
    <3>1. list[1] = list[1] /\ ToSet(list) \subseteq {list[1]}
      BY <1>2, <2>4, LenProperties DEF ToSet
    <3> QED  BY <1>3, <3>1, AtMostOneIs
  <2> QED  BY <2>2, <2>3, <2>5
<1>5. CASE Len(Shown(x)) > button_no
  <2> DEFINE n == Shown(x)[button_no + 1]
             k == node[n].key
             m == node[n].mods
  <2>1. Bind(k, m, None)
    BY <1>5 DEF OkUnbind
  <2>2. n \in ToSet(list)
    BY <1>1, <1>5, ShownIs DEF IInv
  <2>3. n \in DOMAIN node /\ k \in Key /\ m \in Mods
    BY <1>2, <2>2, ListIn, NodeIs DEF IInv
  <2> HIDE DEF n, k, m
  <2>4. \A a \in Row : a \in Actions /\ a # None
    BY DEF Row
  <2>5. \A a \in Row : Working(a)' \subseteq Working(a)
    BY <2>1, <2>3, <2>4, BindWorks, HotkeysAssumption
  <2>6. \A a \in Row : Cardinality(Working(a)') <= 2
    <3> SUFFICES ASSUME NEW a \in Row PROVE Cardinality(Working(a)') <= 2
      OBVIOUS
    <3> QED  BY <1>1, <2>4, <2>5, DrawnFew, FewerFew, WorkingIs
  <2>7. ASSUME NEW a \in Row, a = x PROVE Cardinality(Working(a)') <= 1
    <3>1. \A y \in Working(a)' : ~(node[y].key = k /\ node[y].mods = m)
      BY <2>1, <2>3, <2>4, BindWorks, HotkeysAssumption
    <3>2. n \notin Working(a)'
      BY <3>1 DEF k, m
    <3>3. Working(a)' \subseteq ToSet(list) \ {n}
      BY <1>3, <2>5, <2>7, <3>2
    <3> QED  BY <1>2, <2>2, <3>3, ShortListIs
  <2>8. action_id' = action_id
    BY DEF OkUnbind
  <2> QED  BY <1>2, <2>6, <2>7, <2>8
<1> QED  BY <1>4, <1>5

\* Then it puts one on.
LEMMA OkBindFew ==
  ASSUME PopupInv, OkBind, ~crossed
  PROVE  \A a \in Row : Cardinality(Working(a)') <= 2
<1> USE DEF PopupInv
<1>1. /\ \A a \in Row : Cardinality(Working(a)) <= 2
      /\ action_id \in Row => Cardinality(Working(action_id)) <= 1
  BY DEF OkBind, FewWork
<1> SUFFICES ASSUME NEW a \in Row PROVE Cardinality(Working(a)') <= 2
  OBVIOUS
<1>2. a \in Actions /\ IsFiniteSet(Working(a)) /\ Cardinality(Working(a)) \in Nat
  BY WorkingIs DEF Row
<1>3. CASE Working(a)' \subseteq Working(a)
  BY <1>1, <1>2, <1>3, FewerFew
<1>4. CASE ~(Working(a)' \subseteq Working(a))
  <2>1. ~listening /\ str # Empty
    BY <1>2, <1>4, QuietFew DEF OkBind
  <2>2. Bind(str[1], str[2], action_id)
    BY <2>1 DEF OkBind
  <2>3. str[1] \in Key /\ str[2] \in Mods /\ action_id \in Actions
    BY <2>1 DEF PopupTypes
  <2>4. a = action_id
    BY <1>2, <1>4, <2>2, <2>3, BindWorks
  <2>5. PICK h : Working(a)' \subseteq Working(a) \cup {h}
    <3>1. Bind(str[1], str[2], a)
      BY <2>2, <2>4
    <3> QED  BY <1>2, <2>3, <3>1, BindWorks
  <2>6. Cardinality(Working(a)') \in Nat /\ Cardinality(Working(a)') <= Cardinality(Working(a)) + 1
    BY <1>2, <2>5, OneMoreIs
  <2>7. Cardinality(Working(a)) <= 1
    BY <1>1, <2>4
  <2> QED  BY <1>2, <2>6, <2>7
<1> QED  BY <1>3, <1>4

LEMMA FewWorkKept ==
  ASSUME PopupInv, [NextPopup]_allVars
  PROVE  FewWork' /\ (Render /\ ~crossed => \A a \in Row : Cardinality(Working(a)') <= 2)
<1> USE DEF PopupInv
<1>1. \A a \in Row : a \in Actions /\ a # None
  BY DEF Row
<1>2. ASSUME UNCHANGED vars \/ Reset, NEW a \in Row
      PROVE  /\ Cardinality(Working(a)) <= 2 => Cardinality(Working(a)') <= 2
             /\ Cardinality(Working(a)) <= 1 => Cardinality(Working(a)') <= 1
  <2>1. Cardinality(Working(a)') \in Nat /\ Cardinality(Working(a)') <= Cardinality(Working(a))
    BY <1>1, <1>2, QuietFew, FewerFew
  <2>2. Cardinality(Working(a)) \in Nat
    BY <1>1, WorkingIs
  <2> QED  BY <2>1, <2>2
<1>3. ASSUME NEW a \in Row, NEW b \in Button, Click(a, b)
      PROVE  FewWork' /\ \A c \in Row : Cardinality(Working(c)') <= 2
  <2>1. UNCHANGED vars /\ Drawn /\ binding' = FALSE /\ open' = TRUE
    BY <1>3 DEF Click, FewWork
  <2>2. \A c \in Row : Cardinality(Working(c)') <= 2
    BY <1>2, <2>1, DrawnFew
  <2> QED  BY <2>1, <2>2 DEF FewWork
<1>4. ASSUME CloseWithoutAction \/ Cancel \/ ClickReset
      PROVE  FewWork' /\ (~crossed => \A c \in Row : Cardinality(Working(c)') <= 2)
  <2>1. /\ UNCHANGED vars /\ open /\ binding' = FALSE /\ crossed' = crossed
    BY <1>4 DEF CloseWithoutAction, Cancel, ClickReset, FewWork
  <2>2. ~crossed => \A c \in Row : Cardinality(Working(c)') <= 2
    BY <1>2, <2>1 DEF FewWork
  <2> QED  BY <2>1, <2>2 DEF FewWork
<1>5. ASSUME OkUnbind
      PROVE  FewWork' /\ (~crossed => \A c \in Row : Cardinality(Working(c)') <= 2)
  <2>1. open' /\ open /\ binding' /\ action_id' = action_id
    BY <1>5 DEF OkUnbind
  <2> QED  BY <1>5, <2>1, OkUnbindFew DEF FewWork
<1>6. ASSUME OkBind
      PROVE  FewWork' /\ (~crossed => \A c \in Row : Cardinality(Working(c)') <= 2)
  <2>1. ~open' /\ ~binding'
    BY <1>6 DEF OkBind
  <2> QED  BY <1>6, <2>1, OkBindFew DEF FewWork
<1>7. ASSUME Command
      PROVE  FewWork'
  BY <1>7 DEF Command, FewWork
<1>8. ASSUME UNCHANGED vars \/ Reset, UNCHANGED <<open, binding, crossed>>,
             action_id' \in {action_id, None}
      PROVE  FewWork'
  BY <1>1, <1>2, <1>8 DEF FewWork
<1>9. ASSUME Keyboard \/ Revert \/ UNCHANGED allVars
      PROVE  FewWork'
  <2>1. UNCHANGED vars \/ Reset
    BY <1>9 DEF Keyboard, KeyArrives, KeyTaken, KeyShown, EscapeTaken, EscapeDone, Revert, allVars
  <2>2. UNCHANGED <<open, binding, crossed>> /\ action_id' \in {action_id, None}
    BY <1>9 DEF Keyboard, KeyArrives, KeyTaken, KeyShown, EscapeTaken, EscapeDone, Revert, allVars, popup
  <2> QED  BY <1>8, <2>1, <2>2
<1>10. FewWork'
  BY <1>3, <1>4, <1>5, <1>6, <1>7, <1>9 DEF NextPopup, Render
<1>11. Render /\ ~crossed => \A a \in Row : Cardinality(Working(a)') <= 2
  BY <1>3, <1>4, <1>5, <1>6 DEF Render
<1> QED  BY <1>10, <1>11

THEOREM PopupInvariant == PopupSpec => []PopupInv
<1>1. InitPopup => PopupInv
  BY InitInvariant, HotkeysAssumption DEF InitPopup, PopupInv, PopupTypes, Button, FewWork
<1>2. PopupInv /\ [NextPopup]_allVars => PopupInv'
  <2> SUFFICES ASSUME PopupInv, [NextPopup]_allVars PROVE PopupInv'
    OBVIOUS
  <2>1. IInv' /\ PopupTypes'
    BY PopupStep, NextKeepsInvariant, PopupTypesKept DEF PopupInv
  <2> QED  BY <2>1, FewWorkKept DEF PopupInv
<1> QED  BY <1>1, <1>2, PTL DEF PopupSpec

\* The settings window uses the table as the table may be used: whatever its threads do in
\* between, its behaviours are behaviours of the table.
THEOREM PopupImplementsTable == PopupSpec => Spec
<1>1. InitPopup => Init
  BY DEF InitPopup
<1>2. PopupInv /\ [NextPopup]_allVars => [Next]_vars
  BY PopupStep
<1> QED  BY <1>1, <1>2, PopupInvariant, PTL DEF PopupSpec, Spec
-----------------------------------------------------------------------------
(* The properties the runs check *)

LEMMA FindsItself == IInv => RebindFindsItself
BY SearchFinds DEF IInv, RebindFindsItself

LEMMA MappedIsLast == IInv => NeverStale
<1> SUFFICES ASSUME IInv, NEW k \in Key, NEW m \in Mods, At(hotkeys[k], k, m) # {}
             PROVE  Mapped(k, m) = last[<<k, m>>]
  BY DEF NeverStale, Mapped
<1> DEFINE i == First(At(hotkeys[k], k, m))
           n == hotkeys[k][i]
<1>1. hotkeys[k] \in Seq(DOMAIN node) /\ At(hotkeys[k], k, m) \in SUBSET Nat
  BY LenProperties DEF IInv, Types, TypeOK, At
<1>2. i \in At(hotkeys[k], k, m)
  BY <1>1, FirstIs
<1>3. i \in DOMAIN hotkeys[k] /\ node[n].key = k /\ node[n].mods = m
  BY <1>2 DEF At
<1>4. n \in DOMAIN node /\ n \in ToSet(hotkeys[k])
  BY <1>1, <1>3, ListIn DEF ToSet
<1>5. node[n].action = last[<<k, m>>]
  BY <1>3, <1>4 DEF IInv, ReachedIsLast, Reached
<1> QED  BY <1>5 DEF Mapped

\* The reset of the hotkeys frees every node and none twice, though the search by which
\* rebinding takes a node off its action's list compares only the key and the modifiers
\* (_set_key and the callback that resets g_hotkeys).
THEOREM ResetFreesOnce == (Spec => []FreedOnce) /\ (PopupSpec => []FreedOnce)
<1>1. IInv => FreedOnce
  BY DEF IInv
<1> QED  BY <1>1, TableInvariant, PopupImplementsTable, PTL

\* Rebinding takes the node it rebinds off the list of its action, and no other (_set_key).
THEOREM RebindTakesItsNode == (Spec => []RebindFindsItself) /\ (PopupSpec => []RebindFindsItself)
BY FindsItself, TableInvariant, PopupImplementsTable, PTL

\* A key press runs what its hotkey was last bound to, or nothing (get_mapped_action).
THEOREM PressRunsLast == (Spec => []NeverStale) /\ (PopupSpec => []NeverStale)
BY MappedIsLast, TableInvariant, PopupImplementsTable, PTL

\* The settings window gives no action a third working hotkey, in any of its steps, unless
\* a command crosses the open pop-up (d3d_show_settings_win, OK of its pop-up).
THEOREM PopupKeepsTwo == PopupSpec => AtMostTwo
<1>1. PopupInv /\ [NextPopup]_allVars =>
        [Render /\ ~crossed => \A a \in Row : Cardinality(Working(a)') <= 2]_allVars
  BY FewWorkKept
<1> QED  BY <1>1, PopupInvariant, PTL DEF PopupSpec, AtMostTwo
=============================================================================
