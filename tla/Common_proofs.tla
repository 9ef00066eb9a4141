---------------------------- MODULE Common_proofs ----------------------------
(***************************************************************************)
(* Proofs about three parts that no other part of the DLL has to be there  *)
(* for: the patching of the game's memory, the balanced tree, and the ID   *)
(* map.                                                                    *)
(*                                                                         *)
(* MemPatch, for every memory, page size and set of patches whose          *)
(* addresses satisfy SitesFit.  RestoreExact alone is not inductive: that  *)
(* the memory is right after the next Detach depends on what the snapshots *)
(* hold while the DLL is loaded.  IInv says so: a snapshot holds a byte of *)
(* the game wherever a patch may ever write, and its last one unless       *)
(* somebody else wrote it since (SnapshotIsPristine), and so does a byte   *)
(* that is not marked (UnmarkedIsPristine), so the first snapshot of a     *)
(* page, taken when none of its bytes is marked, is right.                 *)
(*                                                                         *)
(* Avl, for every set of keys and every height.  The functions of the tree *)
(* are recursive over the trees up to a height, and are unfolded one call  *)
(* at a time (InsertIs, RemoveIs, FoundIs, ...).  What they do to all      *)
(* balanced trees is shown by induction over heights (HeightSet), with     *)
(* trees seen as their root and branches (Dissect, Assemble) and by what   *)
(* hangs in them (Pairs).  That insertion rebalances by the new key is     *)
(* right because a branch that has grown leans to that key (Leans).        *)
(*                                                                         *)
(* IdMap, for any lids, types and bounds.  Until the ids run out no id is  *)
(* above max_id, and the map holds what the file holds and all that was    *)
(* given and is not lost (IdsInv), so an id that is given out is           *)
(* new.  A callback for a long lid waits at the element that a lookup of   *)
(* its lid and type arrives at (Located): an element is only added where   *)
(* no other goes with its lid and type (NoneGoes), so it diverts no lookup *)
(* that arrived elsewhere (AskedStays), and the callbacks for one long lid *)
(* and type are all in one queue.                                          *)
(***************************************************************************)
EXTENDS MemPatch, Avl, IdMap, SequenceTheorems, FiniteSetTheorems, WellFoundedInduction, TLAPS
-----------------------------------------------------------------------------
(* Patching: lemmas, and the invariant step by step *)

\* Where a patch writes, it writes bytes that are ever patched, all on the page of
\* its first byte, so backup_mem marks them all.
LEMMA SiteFacts ==
  ASSUME SitesFit, NEW s \in AllSites
  PROVE  /\ Written(s) \subseteq PatchBytes
         /\ Written(s) \subseteq Addr
         /\ Marked(s) = Written(s)
         /\ PageOf(s[1]) \in Page
         /\ \A a \in Written(s) : PageOf(a) = PageOf(s[1])
<1>1. Written(s) \subseteq PatchBytes
  BY DEF PatchBytes
<1>2. Written(s) \subseteq Addr
  BY <1>1, PatchAssumption
<1>4. \A a \in Written(s) : PageOf(a) = PageOf(s[1])
  BY DEF SitesFit
<1>5. Marked(s) = Written(s)
  BY <1>4 DEF Marked
<1>6. s[1] \in Written(s)
  <2>1. s \in Addr \X (1 .. PageSize)
    BY PatchAssumption
  <2>2. s[1] \in Nat /\ s[2] \in Nat /\ s[2] >= 1
    BY <2>1, PatchAssumption DEF Addr
  <2> QED  BY <2>2 DEF Written
<1>7. PageOf(s[1]) \in Page
  BY <1>2, <1>6 DEF Page
<1> QED  BY <1>1, <1>2, <1>4, <1>5, <1>7

\* Before the DLL is first loaded nothing is patched.
LEMMA InitIInv == Init => IInv
<1> SUFFICES ASSUME Init PROVE IInv
  OBVIOUS
<1>1. mem \in [Addr -> Bytes] /\ data \in [Addr -> Bytes]
  BY PatchAssumption DEF Init
<1>2. held \subseteq Addr \X Bytes
  BY <1>1 DEF Init
<1>3. TypeOK
  BY <1>1, <1>2 DEF Init, TypeOK
<1>4. UnmarkedIsPristine
  BY DEF Init, UnmarkedIsPristine
<1> QED  BY <1>3, <1>4 DEF Init, IInv, SnapshotIsPristine, MarkedIsPaged, OutIsEmpty,
                           TrampUntouched, OriginalsMoved, MovedIsTramp, OthersWrote

\* What patch_mem does to the memory, the snapshots and the marks, whoever calls it.
LEMMA PatchMemStep ==
  ASSUME SitesFit, IInv,
         NEW s \in AllSites, NEW code \in Code(s), PatchMem(s, code),
         UNCHANGED <<dll, pristine, others>>
  PROVE  /\ mem' \in [Addr -> Bytes] /\ data' \in [Addr -> Bytes]
         /\ paged' \subseteq Page /\ mask' \subseteq Addr /\ unbacked' \subseteq Addr
         /\ unbacked \subseteq unbacked'
         /\ mask' \subseteq mask \cup Written(s)
         /\ SnapshotIsPristine' /\ UnmarkedIsPristine' /\ MarkedIsPaged'
         /\ OutIsEmpty' /\ OthersWrote'
<1> USE SiteFacts
<1>0. TypeOK /\ SnapshotIsPristine /\ UnmarkedIsPristine /\ MarkedIsPaged /\ OthersWrote
  BY DEF IInv
<1>1. mem' \in [Addr -> Bytes]
  <2>1. \A a \in Written(s) : code[a] \in Bytes
    BY DEF Code
  <2> QED  BY <1>0, <2>1 DEF PatchMem, TypeOK
<1>2. /\ dll = "in" /\ dll' = "in" /\ pristine' = pristine
      /\ held' = held /\ overtaken' = overtaken /\ stale' = stale
  BY DEF PatchMem, others
<1>5. OutIsEmpty' /\ OthersWrote'
  BY <1>0, <1>2 DEF OutIsEmpty, OthersWrote
<1>3. CASE Backup(s)
  <2>1. data' \in [Addr -> Bytes] /\ paged' \subseteq Page
    BY <1>0, <1>3 DEF Backup, Snapshot, TypeOK
  <2>2. mask' = mask \cup Written(s) /\ unbacked' = unbacked
    BY <1>3 DEF Backup
  <2>3. paged' = paged \cup {PageOf(s[1])}
    BY <1>3 DEF Backup, Snapshot
  <2>4. SnapshotIsPristine'
    <3> SUFFICES ASSUME NEW a \in PatchBytes \ unbacked, PageOf(a) \in paged'
                 PROVE  /\ <<a, data'[a]>> \in held
                        /\ a \notin overtaken \cup stale => data'[a] = pristine[a]
      BY <1>2, <2>2 DEF SnapshotIsPristine
    <3>1. a \in Addr
      BY PatchAssumption
    <3>2. CASE PageOf(a) \in paged
      <4>1. data'[a] = data[a]
        BY <1>3, <3>1, <3>2 DEF Backup, Snapshot
      <4> QED  BY <1>0, <3>2, <4>1 DEF SnapshotIsPristine
    <3>3. CASE PageOf(a) \notin paged
      <4>1. data'[a] = mem[a]
        BY <1>3, <2>3, <3>1, <3>3 DEF Backup, Snapshot
      <4>2. a \notin mask
        BY <1>0, <3>3 DEF MarkedIsPaged
      <4> QED  BY <1>0, <3>1, <4>1, <4>2 DEF UnmarkedIsPristine
    <3> QED  BY <3>2, <3>3
  <2>5. UnmarkedIsPristine'
    <3> SUFFICES ASSUME NEW a \in Addr \ unbacked, a \notin mask'
                 PROVE  /\ <<a, mem'[a]>> \in held
                        /\ a \notin stale => mem'[a] = pristine[a]
      BY <1>2, <2>2 DEF UnmarkedIsPristine
    <3>1. a \notin mask /\ mem'[a] = mem[a]
      BY <2>2 DEF PatchMem
    <3> QED  BY <1>0, <3>1 DEF UnmarkedIsPristine
  <2>6. MarkedIsPaged'
    BY <1>0, <2>2, <2>3 DEF MarkedIsPaged
  <2> QED  BY <1>0, <1>1, <1>5, <2>1, <2>2, <2>4, <2>5, <2>6 DEF TypeOK
<1>4. CASE NoBackup(s)
  <2>1. UNCHANGED <<paged, data, mask>> /\ unbacked' = unbacked \cup Written(s)
    BY <1>4 DEF NoBackup
  <2>2. SnapshotIsPristine'
    BY <1>0, <1>2, <2>1 DEF SnapshotIsPristine
  <2>3. UnmarkedIsPristine'
    <3> SUFFICES ASSUME NEW a \in Addr \ unbacked', a \notin mask
                 PROVE  /\ <<a, mem'[a]>> \in held
                        /\ a \notin stale => mem'[a] = pristine[a]
      BY <1>2, <2>1 DEF UnmarkedIsPristine
    <3>1. a \notin unbacked /\ mem'[a] = mem[a]
      BY <2>1 DEF PatchMem
    <3> QED  BY <1>0, <3>1 DEF UnmarkedIsPristine
  <2>4. MarkedIsPaged'
    BY <1>0, <2>1 DEF MarkedIsPaged
  <2> QED  BY <1>0, <1>1, <1>5, <2>1, <2>2, <2>3, <2>4 DEF TypeOK
<1> QED  BY <1>3, <1>4 DEF PatchMem

\* A patch outside the trampolines leaves their bytes unmarked.
LEMMA PlainPatch ==
  ASSUME SitesFit, IInv, NEW s \in AllSites, NEW code \in Code(s), PatchMem(s, code),
         s \notin TrampSites, UNCHANGED <<dll, exiting, done, moved, pristine, others>>
  PROVE  IInv'
<1>1. TypeOK /\ TrampUntouched /\ OriginalsMoved /\ MovedIsTramp
  BY DEF IInv
<1>2. /\ mem' \in [Addr -> Bytes] /\ data' \in [Addr -> Bytes]
      /\ paged' \subseteq Page /\ mask' \subseteq Addr /\ unbacked' \subseteq Addr
      /\ unbacked \subseteq unbacked'
      /\ mask' \subseteq mask \cup Written(s)
      /\ SnapshotIsPristine' /\ UnmarkedIsPristine' /\ MarkedIsPaged'
      /\ OutIsEmpty' /\ OthersWrote'
  BY PatchMemStep
<1>3. TypeOK'
  BY <1>1, <1>2 DEF TypeOK, others
<1>4. TrampUntouched'
  <2> SUFFICES ASSUME NEW t \in TrampSites \ done PROVE Written(t) \cap mask' = {}
    BY DEF TrampUntouched
  <2>1. Written(t) \cap Written(s) = {}
    BY DEF SitesFit
  <2> QED  BY <1>1, <1>2, <2>1 DEF TrampUntouched
<1>5. OriginalsMoved'
  BY <1>1, <1>2 DEF OriginalsMoved
<1>6. MovedIsTramp'
  BY <1>1 DEF MovedIsTramp
<1> QED  BY <1>2, <1>3, <1>4, <1>5, <1>6 DEF IInv

\* Placing a trampoline moves bytes nobody else has ever written, and marks them.
LEMMA TrampolineStep == ASSUME SitesFit, IInv, Trampoline PROVE IInv'
<1>1. PICK s \in TrampSites \ done :
        /\ \E code \in Code(s) : PatchMem(s, code)
        /\ moved' = moved \cup {<<a, mem[a]>> : a \in Written(s)}
        /\ done' = done \cup {s}
  BY DEF Trampoline
<1>2. PICK code \in Code(s) : PatchMem(s, code)
  BY <1>1
<1>3. UNCHANGED <<dll, exiting, pristine, others>>
  BY DEF Trampoline
<1>4. s \in AllSites /\ Written(s) \subseteq Addr /\ Written(s) \cap Foreign = {}
  BY SiteFacts DEF AllSites, SitesFit
<1>5. /\ TypeOK /\ UnmarkedIsPristine /\ OthersWrote
      /\ TrampUntouched /\ OriginalsMoved /\ MovedIsTramp
  BY DEF IInv
<1>6. /\ mem' \in [Addr -> Bytes] /\ data' \in [Addr -> Bytes]
      /\ paged' \subseteq Page /\ mask' \subseteq Addr /\ unbacked' \subseteq Addr
      /\ unbacked \subseteq unbacked'
      /\ mask' \subseteq mask \cup Written(s)
      /\ SnapshotIsPristine' /\ UnmarkedIsPristine' /\ MarkedIsPaged'
      /\ OutIsEmpty' /\ OthersWrote'
  BY <1>2, <1>3, <1>4, PatchMemStep
<1>7. TypeOK'
  <2>1. \A a \in Written(s) : mem[a] \in Bytes
    BY <1>4, <1>5 DEF TypeOK
  <2>2. moved' \subseteq Addr \X Bytes
    BY <1>1, <1>4, <1>5, <2>1 DEF TypeOK
  <2> QED  BY <1>1, <1>3, <1>5, <1>6, <2>2 DEF TypeOK, others
<1>8. TrampUntouched'
  <2> SUFFICES ASSUME NEW t \in TrampSites \ done' PROVE Written(t) \cap mask' = {}
    BY DEF TrampUntouched
  <2>1. t \in TrampSites \ done /\ t # s
    BY <1>1
  <2>2. Written(t) \cap Written(s) = {}
    BY <1>4, <2>1 DEF SitesFit
  <2> QED  BY <1>5, <1>6, <2>1, <2>2 DEF TrampUntouched
<1>9. OriginalsMoved'
  <2>1. \A a \in Written(s) : a \in unbacked \/ mem[a] = pristine[a]
    BY <1>1, <1>4, <1>5 DEF TrampUntouched, UnmarkedIsPristine, OthersWrote
  <2> QED  BY <1>1, <1>3, <1>5, <1>6, <2>1 DEF OriginalsMoved
<1>10. MovedIsTramp'
  BY <1>1, <1>5 DEF MovedIsTramp
<1> QED  BY <1>6, <1>7, <1>8, <1>9, <1>10 DEF IInv

\* The restore puts back what the snapshots hold of the marked bytes; the ones that
\* others wrote since are the stale ones.
LEMMA DetachStep == ASSUME IInv, Detach PROVE IInv'
<1> USE DEF IInv
<1>1. /\ dll' = "out"
      /\ mem' = [a \in Addr |-> IF a \in mask THEN data[a] ELSE mem[a]]
      /\ paged' = {} /\ data' = [a \in Addr |-> Zero] /\ mask' = {} /\ done' = {}
      /\ stale' = stale \cup (overtaken \cap mask) /\ overtaken' = {}
      /\ UNCHANGED <<exiting, moved, pristine, unbacked, held>>
  BY DEF Detach, Unload
<1>2. TypeOK'
  BY <1>1, PatchAssumption DEF TypeOK
<1>3. UnmarkedIsPristine'
  <2> SUFFICES ASSUME NEW a \in Addr \ unbacked
               PROVE  /\ <<a, mem'[a]>> \in held
                      /\ a \notin stale' => mem'[a] = pristine[a]
    BY <1>1 DEF UnmarkedIsPristine
  <2>1. CASE a \in mask
    BY <1>1, <2>1 DEF MarkedIsPaged, SnapshotIsPristine
  <2>2. CASE a \notin mask
    BY <1>1, <2>2 DEF UnmarkedIsPristine
  <2> QED  BY <2>1, <2>2
<1>4. OriginalsMoved' /\ MovedIsTramp' /\ OthersWrote'
  BY <1>1 DEF OriginalsMoved, MovedIsTramp, OthersWrote
<1> QED  BY <1>1, <1>2, <1>3, <1>4 DEF SnapshotIsPristine, MarkedIsPaged, OutIsEmpty,
                                       TrampUntouched

\* A byte that others write is the game's last one, wherever it lies; its snapshot, if
\* there is one, is overtaken.
LEMMA ForeignStep == ASSUME SitesFit, IInv, ForeignWrite PROVE IInv'
<1> USE DEF IInv
<1>1. PICK a \in Foreign, b \in Bytes :
        /\ mem' = [mem EXCEPT ![a] = b]
        /\ pristine' = [pristine EXCEPT ![a] = b]
        /\ held' = held \cup {<<a, b>>}
        /\ overtaken' = IF dll = "in" /\ PageOf(a) \in paged
                        THEN overtaken \cup {a} ELSE overtaken
        /\ stale' = stale \ {a}
  BY DEF ForeignWrite
<1>2. UNCHANGED <<dll, exiting, paged, data, mask, done, moved, unbacked>>
  BY DEF ForeignWrite
<1>3. a \in Addr
  BY PatchAssumption
<1>4. \A c \in Addr \ {a} : pristine'[c] = pristine[c] /\ mem'[c] = mem[c]
  BY <1>1 DEF TypeOK
<1>5. mem'[a] = b /\ pristine'[a] = b
  BY <1>1, <1>3 DEF TypeOK
<1>6. TypeOK'
  BY <1>1, <1>2, <1>3 DEF TypeOK
<1>7. SnapshotIsPristine'
  <2> SUFFICES ASSUME NEW c \in PatchBytes \ unbacked, PageOf(c) \in paged
               PROVE  /\ <<c, data[c]>> \in held'
                      /\ c \notin overtaken' \cup stale' => data[c] = pristine'[c]
    BY <1>2 DEF SnapshotIsPristine
  <2>1. <<c, data[c]>> \in held /\ (c \notin overtaken \cup stale => data[c] = pristine[c])
    BY DEF SnapshotIsPristine
  <2>2. dll # "out"
    BY DEF OutIsEmpty
  <2>3. dll = "in"
    BY <2>2 DEF TypeOK, ForeignWrite
  <2>4. CASE c = a
    BY <1>1, <2>1, <2>3, <2>4
  <2>5. CASE c # a
    <3>1. c \in Addr
      BY PatchAssumption
    <3>2. overtaken \subseteq overtaken'
      BY <1>1
    <3> QED  BY <1>1, <1>4, <2>1, <2>5, <3>1, <3>2
  <2> QED  BY <2>4, <2>5
<1>8. UnmarkedIsPristine'
  <2> SUFFICES ASSUME NEW c \in Addr \ unbacked, dll = "out" \/ c \notin mask
               PROVE  /\ <<c, mem'[c]>> \in held'
                      /\ c \notin stale' => mem'[c] = pristine'[c]
    BY <1>2 DEF UnmarkedIsPristine
  <2>1. CASE c = a
    BY <1>1, <1>5, <2>1
  <2>2. CASE c # a
    BY <1>1, <1>4, <2>2 DEF UnmarkedIsPristine
  <2> QED  BY <2>1, <2>2
<1>9. OriginalsMoved' /\ MovedIsTramp'
  <2>1. \A m \in moved : m[1] \in Addr \ {a}
    BY <1>3 DEF TypeOK, MovedIsTramp, SitesFit
  <2> QED  BY <1>2, <1>4, <2>1 DEF OriginalsMoved, MovedIsTramp
<1>10. OthersWrote'
  BY <1>1 DEF OthersWrote
<1> QED  BY <1>2, <1>6, <1>7, <1>8, <1>9, <1>10 DEF MarkedIsPaged, TrampUntouched, OutIsEmpty

\* Every step keeps the inductive invariant, one case per action.
LEMMA NextIInv == ASSUME SitesFit, IInv, [Next]_vars PROVE IInv'
<1> USE DEF IInv
<1>1. CASE Patch
  <2>1. PICK s \in Sites : \E code \in Code(s) : PatchMem(s, code)
    BY <1>1 DEF Patch
  <2>2. PICK code \in Code(s) : PatchMem(s, code)
    BY <2>1
  <2>3. UNCHANGED <<dll, exiting, done, moved, pristine, others>>
    BY <1>1 DEF Patch
  <2>4. s \in AllSites /\ s \notin TrampSites
    BY DEF AllSites, SitesFit
  <2> QED  BY <2>2, <2>3, <2>4, PlainPatch
<1>2. CASE PatchJmp
  <2>1. PICK s \in JmpSites : \E code \in Code(s) : PatchMem(s, code)
    BY <1>2 DEF PatchJmp
  <2>2. PICK code \in Code(s) : PatchMem(s, code)
    BY <2>1
  <2>3. UNCHANGED <<dll, exiting, done, moved, pristine, others>>
    BY <1>2 DEF PatchJmp
  <2>4. s \in AllSites /\ s \notin TrampSites
    BY DEF AllSites, SitesFit
  <2> QED  BY <2>2, <2>3, <2>4, PlainPatch
<1>3. CASE Trampoline
  BY <1>3, TrampolineStep
<1>4. CASE Attach
  BY <1>4 DEF Attach, TypeOK, SnapshotIsPristine, UnmarkedIsPristine, MarkedIsPaged,
              OutIsEmpty, TrampUntouched, OriginalsMoved, MovedIsTramp, OthersWrote, others
<1>5. CASE Detach
  BY <1>5, DetachStep
<1>6. CASE DetachOnExit
  BY <1>6 DEF DetachOnExit, TypeOK, SnapshotIsPristine, UnmarkedIsPristine, MarkedIsPaged,
              OutIsEmpty, TrampUntouched, OriginalsMoved, MovedIsTramp, OthersWrote, others
<1>7. CASE HookedExit
  BY <1>7 DEF HookedExit, TypeOK, SnapshotIsPristine, UnmarkedIsPristine, MarkedIsPaged,
              OutIsEmpty, TrampUntouched, OriginalsMoved, MovedIsTramp, OthersWrote, others
<1>8. CASE ForeignWrite
  BY <1>8, ForeignStep
<1>9. CASE UNCHANGED vars
  BY <1>9 DEF vars, TypeOK, SnapshotIsPristine, UnmarkedIsPristine, MarkedIsPaged,
              OutIsEmpty, TrampUntouched, OriginalsMoved, MovedIsTramp, OthersWrote, others
<1> QED  BY <1>1, <1>2, <1>3, <1>4, <1>5, <1>6, <1>7, <1>8, <1>9 DEF Next

\* The inductive invariant of the patching machinery holds at all times.
THEOREM PatchInvariant == ASSUME SitesFit PROVE Spec => []IInv
<1>1. IInv /\ [Next]_vars => IInv'
  BY NextIInv
<1> QED  BY <1>1, InitIInv, PTL DEF Spec

\* Unloading the DLL takes back all of its patches and nothing else, but for bytes
\* that others wrote behind the snapshot.
THEOREM UnloadRestores == ASSUME SitesFit PROVE Spec => []RestoreExact
<1>1. IInv => RestoreExact
  BY DEF IInv, UnmarkedIsPristine, RestoreExact
<1> QED  BY <1>1, PatchInvariant, PTL

\* No byte of a patch is left behind, whoever wrote where meanwhile.
THEOREM PatchesLeave == ASSUME SitesFit PROVE Spec => []NoPatchLeft
<1>1. IInv => NoPatchLeft
  BY DEF IInv, UnmarkedIsPristine, NoPatchLeft
<1> QED  BY <1>1, PatchInvariant, PTL

\* No byte that patch_mem has changed goes unmarked.
THEOREM PatchesAreMarked == ASSUME SitesFit PROVE Spec => []OverwrittenIsMarked
<1>1. IInv => OverwrittenIsMarked
  BY DEF IInv, UnmarkedIsPristine, OverwrittenIsMarked
<1> QED  BY <1>1, PatchInvariant, PTL

\* Every trampoline ever built runs the game's own instructions.
THEOREM TrampolinesRunOriginals == ASSUME SitesFit PROVE Spec => []OriginalsMoved
<1>1. IInv => OriginalsMoved
  BY DEF IInv
<1> QED  BY <1>1, PatchInvariant, PTL
-----------------------------------------------------------------------------
(* Least and largest numbers *)

\* The least and the largest of some indexes, which are there.
LEMMA MinIs ==
  ASSUME NEW S \in SUBSET Nat, S # {}
  PROVE  Min(S) \in S /\ \A j \in S : Min(S) <= j
<1>1. PICK x \in S : \A y \in S : ~(<<y, x>> \in OpToRel(<, Nat))
  BY NatLessThanWellFounded, WFMin
<1>2. ASSUME NEW y \in S PROVE x <= y
  <2>1. x \in Nat /\ y \in Nat
    OBVIOUS
  <2>2. ~(y < x)
    BY <1>1, <2>1 DEF OpToRel
  <2> QED BY <2>1, <2>2
<1>3. \E i \in S : \A j \in S : i <= j
  BY <1>2
<1> QED BY <1>3, Zenon DEF Min

\* The same of the largest, when there is a bound.
LEMMA MaxIs ==
  ASSUME NEW N \in Nat, NEW S \in SUBSET (0 .. N), S # {}
  PROVE  Max(S) \in S /\ \A j \in S : j <= Max(S)
<1> DEFINE R == {n \in Nat : N - n \in S}
<1>1. PICK i \in S : TRUE
  OBVIOUS
<1>2. N - i \in R
  OBVIOUS
<1>3. Min(R) \in R /\ \A j \in R : Min(R) <= j
  <2>1. R \in SUBSET Nat /\ R # {}
    BY <1>2
  <2> HIDE DEF R
  <2> QED BY <2>1, MinIs
<1> DEFINE m == Min(R)
<1>4. m \in Nat /\ N - m \in S
  BY <1>3
<1>5. ASSUME NEW j \in S PROVE N - m >= j
  <2>1. N - j \in R
    OBVIOUS
  <2>2. m <= N - j
    BY <1>3, <2>1
  <2> HIDE DEF m
  <2> QED BY <1>4, <2>2
<1>6. \E l \in S : \A j \in S : l >= j
  <2> HIDE DEF m
  <2> QED BY <1>4, <1>5
<1>7. Max(S) \in S /\ \A j \in S : Max(S) >= j
  BY <1>6, Zenon DEF Max
<1>8. S \subseteq Nat
  OBVIOUS
<1>9. \A j \in S : j \in Nat /\ Max(S) \in Nat
  <2> HIDE DEF m
  <2> QED BY <1>7, <1>8
<1> HIDE DEF m
<1> QED BY <1>7, <1>9
-----------------------------------------------------------------------------
(* The tree: the recursive functions *)

\* A property of 0 that each height hands on to the next is one of all heights.
LEMMA HeightSet ==
  ASSUME NEW T \in SUBSET (0 .. MaxHeight), 0 \in T,
         \A m \in T : m < MaxHeight => m + 1 \in T
  PROVE  T = 0 .. MaxHeight
<1>1. MaxHeight \in Nat
  BY AvlAssumption
<1> SUFFICES ASSUME NEW n \in (0 .. MaxHeight) \ T PROVE FALSE
  OBVIOUS
<1> DEFINE U == (0 .. MaxHeight) \ T
<1>2. U \in SUBSET Nat /\ U # {}
  BY <1>1
<1>3. PICK x \in U : \A y \in U : ~(<<y, x>> \in OpToRel(<, Nat))
  BY <1>2, NatLessThanWellFounded, WFMin
<1>4. x \in Nat /\ x # 0 /\ x \in 0 .. MaxHeight
  <2>1. x \in 0 .. MaxHeight /\ x \notin T
    BY <1>3
  <2> QED BY <1>1, <2>1
<1>5. x - 1 \in 0 .. MaxHeight /\ x - 1 < x /\ x - 1 \in Nat /\ x - 1 < MaxHeight /\ (x - 1) + 1 = x
  BY <1>1, <1>4
<1>6. x - 1 \notin U
  BY <1>3, <1>4, <1>5 DEF OpToRel
<1>7. x - 1 \in T
  BY <1>5, <1>6
<1> QED BY <1>3, <1>5, <1>7

\* Trees of height 0, and those one higher than others.
LEMMA TreesIs ==
  /\ Trees[0] = {Null}
  /\ \A h \in 0 .. MaxHeight : h < MaxHeight => Trees[h + 1] = {Null} \cup Node(Trees[h])
<1> DEFINE Is(g, m) == g = [h \in 0 .. m |-> IF h = 0 THEN {Null} ELSE {Null} \cup Node(g[h - 1])]
           T == {m \in 0 .. MaxHeight : \E g : Is(g, m)}
<1>1. 0 \in T
  <2> DEFINE g == [h \in 0 .. 0 |-> {Null}]
  <2>1. Is(g, 0)
    OBVIOUS
  <2>2. 0 \in 0 .. MaxHeight
    BY AvlAssumption
  <2> HIDE DEF g, Is
  <2> QED BY <2>1, <2>2
<1>2. ASSUME NEW m \in T, m < MaxHeight PROVE m + 1 \in T
  <2>1. m \in Nat /\ m + 1 \in 0 .. MaxHeight
    BY <1>2, AvlAssumption
  <2>2. PICK g : Is(g, m)
    OBVIOUS
  <2> DEFINE f == [h \in 0 .. m + 1 |-> IF h = m + 1 THEN {Null} \cup Node(g[m]) ELSE g[h]]
  <2>3. Is(f, m + 1)
    <3>1. ASSUME NEW h \in 0 .. m + 1
          PROVE  f[h] = IF h = 0 THEN {Null} ELSE {Null} \cup Node(f[h - 1])
      <4>1. CASE h = m + 1
        <5>1. m \in 0 .. m + 1 /\ h - 1 = m /\ m # m + 1 /\ h # 0
          BY <2>1, <4>1
        <5>2. f[h] = {Null} \cup Node(g[m]) /\ f[h - 1] = g[m]
          BY <4>1, <5>1
        <5> HIDE DEF f
        <5> QED BY <5>1, <5>2
      <4>2. CASE h # m + 1
        <5>1. h \in 0 .. m /\ f[h] = g[h]
          BY <2>1, <4>2
        <5>2. g[h] = IF h = 0 THEN {Null} ELSE {Null} \cup Node(g[h - 1])
          BY <2>2, <5>1
        <5>3. h # 0 => h - 1 \in 0 .. m + 1 /\ h - 1 # m + 1
          BY <2>1, <5>1
        <5>4. h # 0 => f[h - 1] = g[h - 1]
          BY <5>3
        <5> HIDE DEF f, Is
        <5> QED BY <5>1, <5>2, <5>4
      <4> QED BY <4>1, <4>2
    <3> QED BY <3>1
  <2> HIDE DEF f, Is
  <2> QED BY <2>1, <2>3
<1>3. T = 0 .. MaxHeight
  <2>1. T \in SUBSET (0 .. MaxHeight)
    OBVIOUS
  <2> HIDE DEF T
  <2> QED BY <1>1, <1>2, <2>1, HeightSet
<1>4. MaxHeight \in 0 .. MaxHeight
  BY AvlAssumption
<1>5. \E g : Is(g, MaxHeight)
  BY <1>3, <1>4
<1>6. Trees = CHOOSE g : Is(g, MaxHeight)
  BY DEF Trees
<1>7. Is(Trees, MaxHeight)
  <2> HIDE DEF Is
  <2> QED BY <1>5, <1>6, Zenon
<1>8. Trees[0] = {Null}
  BY <1>7, AvlAssumption
<1>9. ASSUME NEW h \in 0 .. MaxHeight, h < MaxHeight PROVE Trees[h + 1] = {Null} \cup Node(Trees[h])
  <2>1. h + 1 \in 0 .. MaxHeight /\ h + 1 # 0 /\ (h + 1) - 1 = h
    BY <1>9, AvlAssumption
  <2>2. Trees[h + 1] = IF h + 1 = 0 THEN {Null} ELSE {Null} \cup Node(Trees[(h + 1) - 1])
    BY <1>7, <2>1
  <2> QED BY <2>1, <2>2
<1> QED BY <1>8, <1>9

\* A node is not NULL, and its branches are trees that are less high.
LEMMA NodeIs ==
  ASSUME NEW h \in 0 .. MaxHeight, h < MaxHeight, NEW t \in Trees[h + 1]
  PROVE  \/ t = Null
         \/ /\ t # Null /\ t \in Node(Trees[h])
            /\ t.left \in Trees[h] /\ t.right \in Trees[h]
<1>1. ASSUME t \in Node(Trees[h]) PROVE t # Null
  <2>1. DOMAIN t = {"key", "chain", "left", "right", "height"}
    BY <1>1, Zenon DEF Node
  <2>2. DOMAIN Null = {}
    BY DEF Null
  <2> QED BY <2>1, <2>2
<1>2. ASSUME t \in Node(Trees[h]) PROVE t.left \in Trees[h] /\ t.right \in Trees[h]
  BY <1>2 DEF Node
<1>3. t = Null \/ t \in Node(Trees[h])
  BY TreesIs
<1> QED BY <1>1, <1>2, <1>3

\* Trees of a height are ones of the next.
LEMMA TreesGrow ==
  ASSUME NEW h \in 0 .. MaxHeight, h < MaxHeight
  PROVE  Trees[h] \subseteq Trees[h + 1]
<1> DEFINE T == {m \in 0 .. MaxHeight : m < MaxHeight => Trees[m] \subseteq Trees[m + 1]}
<1>1. 0 \in T
  <2>1. 0 \in 0 .. MaxHeight
    BY AvlAssumption
  <2>2. 0 < MaxHeight => Trees[1] = {Null} \cup Node(Trees[0])
    <3>1. 0 + 1 = 1
      OBVIOUS
    <3> QED BY <2>1, <3>1, TreesIs
  <2> QED BY <2>1, <2>2, TreesIs
<1>2. ASSUME NEW m \in T, m < MaxHeight PROVE m + 1 \in T
  <2>1. m \in 0 .. MaxHeight /\ m + 1 \in 0 .. MaxHeight /\ Trees[m] \subseteq Trees[m + 1]
    BY <1>2, AvlAssumption
  <2>2. ASSUME m + 1 < MaxHeight PROVE Trees[m + 1] \subseteq Trees[(m + 1) + 1]
    <3>1. Trees[m + 1] = {Null} \cup Node(Trees[m])
      BY <1>2, <2>1, TreesIs
    <3>2. Trees[(m + 1) + 1] = {Null} \cup Node(Trees[m + 1])
      BY <2>1, <2>2, TreesIs
    <3>3. Node(Trees[m]) \subseteq Node(Trees[m + 1])
      BY <2>1 DEF Node
    <3> QED BY <3>1, <3>2, <3>3
  <2> QED BY <2>1, <2>2
<1>3. T \in SUBSET (0 .. MaxHeight)
  OBVIOUS
<1>4. T = 0 .. MaxHeight
  <2> HIDE DEF T
  <2> QED BY <1>1, <1>2, <1>3, HeightSet
<1>5. h \in T
  BY <1>4
<1> QED BY <1>5

\* What is known of the branches of a node.
LEMMA Branches ==
  ASSUME NEW h \in 0 .. MaxHeight, NEW t \in Trees[h], t # Null
  PROVE  /\ h # 0 /\ h - 1 \in 0 .. MaxHeight /\ t \in Node(Trees[h - 1])
         /\ t.left \in Trees[h - 1] /\ t.right \in Trees[h - 1]
         /\ t.left \in Trees[h] /\ t.right \in Trees[h]
<1>1. h # 0
  BY TreesIs
<1>2. h - 1 \in 0 .. MaxHeight /\ h - 1 < MaxHeight /\ (h - 1) + 1 = h
  BY <1>1, AvlAssumption
<1>3. PICK m \in 0 .. MaxHeight : m = h - 1 /\ m < MaxHeight /\ m + 1 = h
  BY <1>2
<1>4. t \in Node(Trees[m]) /\ t.left \in Trees[m] /\ t.right \in Trees[m]
  BY <1>3, NodeIs
<1>5. Trees[m] \subseteq Trees[h]
  BY <1>3, TreesGrow
<1> QED BY <1>1, <1>2, <1>3, <1>4, <1>5

\* A whole tree is one, so the functions below are defined for its branches.
LEMMA InTree ==
  /\ Null \in Tree
  /\ \A t \in Tree : t # Null => t \in Node(Tree) /\ t.left \in Tree /\ t.right \in Tree
<1>1. MaxHeight \in 0 .. MaxHeight
  BY AvlAssumption
<1>2. ASSUME NEW t \in Tree, t # Null PROVE t \in Node(Tree) /\ t.left \in Tree /\ t.right \in Tree
  <2>1. t \in Trees[MaxHeight]
    BY DEF Tree
  <2>2. t \in Node(Trees[MaxHeight - 1]) /\ t.left \in Tree /\ t.right \in Tree
    BY <1>1, <1>2, <2>1, Branches DEF Tree
  <2> QED BY <2>2 DEF Node
<1>3. Null \in Tree
  <2>1. CASE MaxHeight = 0
    BY <2>1, TreesIs DEF Tree
  <2>2. CASE MaxHeight # 0
    <3>1. PICK m \in 0 .. MaxHeight : m < MaxHeight /\ m + 1 = MaxHeight
      <4>1. MaxHeight - 1 \in 0 .. MaxHeight /\ MaxHeight - 1 < MaxHeight /\ (MaxHeight - 1) + 1 = MaxHeight
        BY <2>2, AvlAssumption
      <4> QED BY <4>1
    <3>2. Trees[m + 1] = {Null} \cup Node(Trees[m])
      BY <3>1, TreesIs
    <3> QED BY <3>1, <3>2 DEF Tree
  <2> QED BY <2>1, <2>2
<1> QED BY <1>2, <1>3

\* Lower trees are among the higher ones.
LEMMA TreesMono ==
  ASSUME NEW i \in 0 .. MaxHeight, NEW j \in 0 .. MaxHeight, i <= j
  PROVE  Trees[i] \subseteq Trees[j]
<1> DEFINE T == {m \in 0 .. MaxHeight : i <= m => Trees[i] \subseteq Trees[m]}
<1>1. 0 \in T
  BY AvlAssumption
<1>2. ASSUME NEW m \in T, m < MaxHeight PROVE m + 1 \in T
  <2>1. m \in 0 .. MaxHeight /\ m + 1 \in 0 .. MaxHeight /\ Trees[m] \subseteq Trees[m + 1]
    BY <1>2, TreesGrow, AvlAssumption
  <2>2. i <= m + 1 => i <= m \/ i = m + 1
    BY <2>1
  <2> QED BY <2>1, <2>2
<1>3. T = 0 .. MaxHeight
  <2>1. T \in SUBSET (0 .. MaxHeight)
    OBVIOUS
  <2> HIDE DEF T
  <2> QED BY <1>1, <1>2, <2>1, HeightSet
<1>4. j \in T
  BY <1>3
<1> QED BY <1>4

\* A tree's nodes are its root and those of its branches.
LEMMA SubtreesIs ==
  \A t \in Tree : Subtrees(t) = 
         IF t = Null THEN {} ELSE {t} \cup Subtrees(t.left) \cup Subtrees(t.right)
<1> DEFINE E(g, t) == IF t = Null THEN {} ELSE {t} \cup g[t.left] \cup g[t.right]
           Is(g, h) == g = [t \in Trees[h] |-> E(g, t)]
           T == {h \in 0 .. MaxHeight : \E g : Is(g, h)}
           all == CHOOSE g : g = [t \in Tree |-> E(g, t)]
<1>1. 0 \in T
  <2> DEFINE g == [t \in Trees[0] |-> {}]
  <2>1. Is(g, 0)
    BY TreesIs
  <2>2. 0 \in 0 .. MaxHeight
    BY AvlAssumption
  <2> HIDE DEF g, Is
  <2> QED BY <2>1, <2>2
<1>2. ASSUME NEW m \in T, m < MaxHeight PROVE m + 1 \in T
  <2>1. m \in 0 .. MaxHeight /\ m + 1 \in 0 .. MaxHeight
    BY <1>2, AvlAssumption
  <2>2. PICK g : Is(g, m)
    OBVIOUS
  <2> DEFINE f == [t \in Trees[m + 1] |-> E(g, t)]
  <2>3. ASSUME NEW t \in Trees[m + 1] PROVE f[t] = E(f, t)
    <3>1. CASE t = Null
      BY <3>1
    <3>2. CASE t # Null
      <4>1. t.left \in Trees[m] /\ t.right \in Trees[m]
        BY <1>2, <2>1, <3>2, NodeIs
      <4>2. t.left \in Trees[m + 1] /\ t.right \in Trees[m + 1]
        BY <1>2, <2>1, <4>1, TreesGrow
      <4>3. f[t.left] = g[t.left] /\ f[t.right] = g[t.right]
        <5>1. g[t.left] = E(g, t.left) /\ g[t.right] = E(g, t.right)
          BY <2>2, <4>1
        <5>2. f[t.left] = E(g, t.left) /\ f[t.right] = E(g, t.right)
          BY <4>2
        <5> HIDE DEF f, E
        <5> QED BY <5>1, <5>2
      <4>4. f[t] = E(g, t)
        OBVIOUS
      <4> HIDE DEF f
      <4> QED BY <4>3, <4>4
    <3> QED BY <3>1, <3>2
  <2>4. Is(f, m + 1)
    <3> HIDE DEF E
    <3>1. \A t \in Trees[m + 1] : E(g, t) = E(f, t)
      BY <2>3
    <3> QED BY <3>1
  <2> HIDE DEF f, Is
  <2> QED BY <2>1, <2>4
<1>3. T = 0 .. MaxHeight
  <2>1. T \in SUBSET (0 .. MaxHeight)
    OBVIOUS
  <2> HIDE DEF T
  <2> QED BY <1>1, <1>2, <2>1, HeightSet
<1>4. MaxHeight \in 0 .. MaxHeight
  BY AvlAssumption
<1>5. \E g : Is(g, MaxHeight)
  BY <1>3, <1>4
<1>6. all = [t \in Tree |-> E(all, t)]
  <2> DEFINE J(g) == g = [t \in Tree |-> E(g, t)]
  <2>1. \E g : J(g)
    BY <1>5 DEF Tree
  <2>2. all = CHOOSE g : J(g)
    OBVIOUS
  <2> HIDE DEF J, all
  <2>3. J(all)
    BY <2>1, <2>2, Zenon
  <2> QED BY <2>3 DEF J
<1>7. \A t : Subtrees(t) = all[t]
  BY DEF Subtrees
<1> SUFFICES ASSUME NEW t \in Tree PROVE Subtrees(t) = 
         IF t = Null THEN {} ELSE {t} \cup Subtrees(t.left) \cup Subtrees(t.right)
  OBVIOUS
<1>8. all[t] = E(all, t)
  <2> HIDE DEF all, E
  <2> QED BY <1>6
<1> HIDE DEF all
<1> QED BY <1>7, <1>8

\* insert, and its calls of itself.
LEMMA InsertIs ==
  ASSUME NEW key, NEW n
  PROVE  \A t \in Tree : insert(t, key, n) = 
         IF t = Null THEN Leaf(key, n)
         ELSE IF key < t.key
         THEN InsertBalance(calc_height([t EXCEPT !.left = insert(t.left, key, n)]), key)
         ELSE IF key > t.key
         THEN InsertBalance(calc_height([t EXCEPT !.right = insert(t.right, key, n)]), key)
         ELSE [t EXCEPT !.chain = Chained(@, n)]
<1> DEFINE E(g, t) == IF t = Null THEN Leaf(key, n)
                      ELSE IF key < t.key
                      THEN InsertBalance(calc_height([t EXCEPT !.left = g[t.left]]), key)
                      ELSE IF key > t.key
                      THEN InsertBalance(calc_height([t EXCEPT !.right = g[t.right]]), key)
                      ELSE [t EXCEPT !.chain = Chained(@, n)]
           Is(g, h) == g = [t \in Trees[h] |-> E(g, t)]
           T == {h \in 0 .. MaxHeight : \E g : Is(g, h)}
           all == CHOOSE g : g = [t \in Tree |-> E(g, t)]
<1>1. 0 \in T
  <2> DEFINE g == [t \in Trees[0] |-> Leaf(key, n)]
  <2>1. Is(g, 0)
    BY TreesIs
  <2>2. 0 \in 0 .. MaxHeight
    BY AvlAssumption
  <2> HIDE DEF g, Is
  <2> QED BY <2>1, <2>2
<1>2. ASSUME NEW m \in T, m < MaxHeight PROVE m + 1 \in T
  <2>1. m \in 0 .. MaxHeight /\ m + 1 \in 0 .. MaxHeight
    BY <1>2, AvlAssumption
  <2>2. PICK g : Is(g, m)
    OBVIOUS
  <2> DEFINE f == [t \in Trees[m + 1] |-> E(g, t)]
  <2>3. ASSUME NEW t \in Trees[m + 1] PROVE f[t] = E(f, t)
    <3>1. CASE t = Null
      BY <3>1
    <3>2. CASE t # Null
      <4>1. t.left \in Trees[m] /\ t.right \in Trees[m]
        BY <1>2, <2>1, <3>2, NodeIs
      <4>2. t.left \in Trees[m + 1] /\ t.right \in Trees[m + 1]
        BY <1>2, <2>1, <4>1, TreesGrow
      <4>3. f[t.left] = g[t.left] /\ f[t.right] = g[t.right]
        <5>1. g[t.left] = E(g, t.left) /\ g[t.right] = E(g, t.right)
          BY <2>2, <4>1
        <5>2. f[t.left] = E(g, t.left) /\ f[t.right] = E(g, t.right)
          BY <4>2
        <5> HIDE DEF f, E
        <5> QED BY <5>1, <5>2
      <4>4. f[t] = E(g, t)
        OBVIOUS
      <4> HIDE DEF f
      <4> QED BY <4>3, <4>4
    <3> QED BY <3>1, <3>2
  <2>4. Is(f, m + 1)
    <3> HIDE DEF E
    <3>1. \A t \in Trees[m + 1] : E(g, t) = E(f, t)
      BY <2>3
    <3> QED BY <3>1
  <2> HIDE DEF f, Is
  <2> QED BY <2>1, <2>4
<1>3. T = 0 .. MaxHeight
  <2>1. T \in SUBSET (0 .. MaxHeight)
    OBVIOUS
  <2> HIDE DEF T
  <2> QED BY <1>1, <1>2, <2>1, HeightSet
<1>4. MaxHeight \in 0 .. MaxHeight
  BY AvlAssumption
<1>5. \E g : Is(g, MaxHeight)
  BY <1>3, <1>4
<1>6. all = [t \in Tree |-> E(all, t)]
  <2> DEFINE J(g) == g = [t \in Tree |-> E(g, t)]
  <2>1. \E g : J(g)
    BY <1>5 DEF Tree
  <2>2. all = CHOOSE g : J(g)
    OBVIOUS
  <2> HIDE DEF J, all
  <2>3. J(all)
    BY <2>1, <2>2, Zenon
  <2> QED BY <2>3 DEF J
<1>7. \A t : insert(t, key, n) = all[t]
  BY DEF insert
<1> SUFFICES ASSUME NEW t \in Tree PROVE insert(t, key, n) = 
         IF t = Null THEN Leaf(key, n)
         ELSE IF key < t.key
         THEN InsertBalance(calc_height([t EXCEPT !.left = insert(t.left, key, n)]), key)
         ELSE IF key > t.key
         THEN InsertBalance(calc_height([t EXCEPT !.right = insert(t.right, key, n)]), key)
         ELSE [t EXCEPT !.chain = Chained(@, n)]
  OBVIOUS
<1>8. all[t] = E(all, t)
  <2> HIDE DEF all, E
  <2> QED BY <1>6
<1> HIDE DEF all
<1> QED BY <1>7, <1>8

\* pw_avl_get goes to one branch or the other.
LEMMA FoundIs ==
  ASSUME NEW key
  PROVE  \A t \in Tree : Found(t, key) = 
         IF t = Null THEN <<>>
         ELSE IF t.key = key THEN t.chain
         ELSE Found(IF key > t.key THEN t.right ELSE t.left, key)
<1> DEFINE E(g, t) == IF t = Null THEN <<>>
                      ELSE IF t.key = key THEN t.chain
                      ELSE g[IF key > t.key THEN t.right ELSE t.left]
           Is(g, h) == g = [t \in Trees[h] |-> E(g, t)]
           T == {h \in 0 .. MaxHeight : \E g : Is(g, h)}
           all == CHOOSE g : g = [t \in Tree |-> E(g, t)]
<1>1. 0 \in T
  <2> DEFINE g == [t \in Trees[0] |-> <<>>]
  <2>1. Is(g, 0)
    BY TreesIs
  <2>2. 0 \in 0 .. MaxHeight
    BY AvlAssumption
  <2> HIDE DEF g, Is
  <2> QED BY <2>1, <2>2
<1>2. ASSUME NEW m \in T, m < MaxHeight PROVE m + 1 \in T
  <2>1. m \in 0 .. MaxHeight /\ m + 1 \in 0 .. MaxHeight
    BY <1>2, AvlAssumption
  <2>2. PICK g : Is(g, m)
    OBVIOUS
  <2> DEFINE f == [t \in Trees[m + 1] |-> E(g, t)]
  <2>3. ASSUME NEW t \in Trees[m + 1] PROVE f[t] = E(f, t)
    <3>1. CASE t = Null
      BY <3>1
    <3>2. CASE t # Null
      <4>1. t.left \in Trees[m] /\ t.right \in Trees[m]
        BY <1>2, <2>1, <3>2, NodeIs
      <4>2. t.left \in Trees[m + 1] /\ t.right \in Trees[m + 1]
        BY <1>2, <2>1, <4>1, TreesGrow
      <4>3. f[t.left] = g[t.left] /\ f[t.right] = g[t.right]
        <5>1. g[t.left] = E(g, t.left) /\ g[t.right] = E(g, t.right)
          BY <2>2, <4>1
        <5>2. f[t.left] = E(g, t.left) /\ f[t.right] = E(g, t.right)
          BY <4>2
        <5> HIDE DEF f, E
        <5> QED BY <5>1, <5>2
      <4>4. f[t] = E(g, t)
        OBVIOUS
      <4> HIDE DEF f
      <4> QED BY <4>3, <4>4
    <3> QED BY <3>1, <3>2
  <2>4. Is(f, m + 1)
    <3> HIDE DEF E
    <3>1. \A t \in Trees[m + 1] : E(g, t) = E(f, t)
      BY <2>3
    <3> QED BY <3>1
  <2> HIDE DEF f, Is
  <2> QED BY <2>1, <2>4
<1>3. T = 0 .. MaxHeight
  <2>1. T \in SUBSET (0 .. MaxHeight)
    OBVIOUS
  <2> HIDE DEF T
  <2> QED BY <1>1, <1>2, <2>1, HeightSet
<1>4. MaxHeight \in 0 .. MaxHeight
  BY AvlAssumption
<1>5. \E g : Is(g, MaxHeight)
  BY <1>3, <1>4
<1>6. all = [t \in Tree |-> E(all, t)]
  <2> DEFINE J(g) == g = [t \in Tree |-> E(g, t)]
  <2>1. \E g : J(g)
    BY <1>5 DEF Tree
  <2>2. all = CHOOSE g : J(g)
    OBVIOUS
  <2> HIDE DEF J, all
  <2>3. J(all)
    BY <2>1, <2>2, Zenon
  <2> QED BY <2>3 DEF J
<1>7. \A t : Found(t, key) = all[t]
  BY DEF Found
<1> SUFFICES ASSUME NEW t \in Tree PROVE Found(t, key) = 
         IF t = Null THEN <<>>
         ELSE IF t.key = key THEN t.chain
         ELSE Found(IF key > t.key THEN t.right ELSE t.left, key)
  OBVIOUS
<1>8. all[t] = E(all, t)
  <2> HIDE DEF all, E
  <2> QED BY <1>6
<1> HIDE DEF all
<1> QED BY <1>7, <1>8

\* The leftmost node is one of the tree's, and has nothing on its left.
LEMMA LeastIs ==
  /\ \A t \in Tree : t # Null => Least(t) = IF t.left = Null THEN t ELSE Least(t.left)
  /\ \A h \in 0 .. MaxHeight : \A t \in Trees[h] : t # Null =>
       Least(t) \in Trees[h] /\ Least(t) # Null /\ Least(t).left = Null
<1> DEFINE E(g, t) == IF t.left = Null THEN t ELSE g[t.left]
           Is(g, h) == g = [t \in Trees[h] \ {Null} |-> E(g, t)]
           T == {h \in 0 .. MaxHeight : \E g : Is(g, h)}
           all == CHOOSE g : g = [t \in Tree \ {Null} |-> E(g, t)]
<1>1. 0 \in T
  <2> DEFINE g == [t \in Trees[0] \ {Null} |-> t]
  <2>1. Is(g, 0)
    BY TreesIs
  <2>2. 0 \in 0 .. MaxHeight
    BY AvlAssumption
  <2> HIDE DEF g, Is
  <2> QED BY <2>1, <2>2
<1>2. ASSUME NEW m \in T, m < MaxHeight PROVE m + 1 \in T
  <2>1. m \in 0 .. MaxHeight /\ m + 1 \in 0 .. MaxHeight
    BY <1>2, AvlAssumption
  <2>2. PICK g : Is(g, m)
    OBVIOUS
  <2> DEFINE f == [t \in Trees[m + 1] \ {Null} |-> E(g, t)]
  <2>3. ASSUME NEW t \in Trees[m + 1] \ {Null} PROVE f[t] = E(f, t)
    <3>1. t.left \in Trees[m]
      BY <1>2, <2>1, NodeIs
    <3>2. t.left \in Trees[m + 1]
      BY <1>2, <2>1, <3>1, TreesGrow
    <3>3. f[t] = E(g, t)
      OBVIOUS
    <3>4. t.left # Null => f[t.left] = g[t.left]
      <4>1. t.left # Null => g[t.left] = E(g, t.left)
        BY <2>2, <3>1
      <4>2. t.left # Null => f[t.left] = E(g, t.left)
        BY <3>2
      <4> HIDE DEF f, E
      <4> QED BY <4>1, <4>2
    <3> HIDE DEF f
    <3> QED BY <3>3, <3>4
  <2>4. Is(f, m + 1)
    <3> HIDE DEF E
    <3>1. \A t \in Trees[m + 1] \ {Null} : E(g, t) = E(f, t)
      BY <2>3
    <3> QED BY <3>1
  <2> HIDE DEF f, Is
  <2> QED BY <2>1, <2>4
<1>3. T = 0 .. MaxHeight
  <2>1. T \in SUBSET (0 .. MaxHeight)
    OBVIOUS
  <2> HIDE DEF T
  <2> QED BY <1>1, <1>2, <2>1, HeightSet
<1>4. MaxHeight \in 0 .. MaxHeight
  BY AvlAssumption
<1>5. \E g : Is(g, MaxHeight)
  BY <1>3, <1>4
<1>6. all = [t \in Tree \ {Null} |-> E(all, t)]
  <2> DEFINE J(g) == g = [t \in Tree \ {Null} |-> E(g, t)]
  <2>1. \E g : J(g)
    BY <1>5 DEF Tree
  <2>2. all = CHOOSE g : J(g)
    OBVIOUS
  <2> HIDE DEF J, all
  <2>3. J(all)
    BY <2>1, <2>2, Zenon
  <2> QED BY <2>3 DEF J
<1>7. \A t : Least(t) = all[t]
  BY DEF Least
<1>8. ASSUME NEW t \in Tree, t # Null PROVE Least(t) = IF t.left = Null THEN t ELSE Least(t.left)
  <2>1. all[t] = E(all, t)
    <3> HIDE DEF all, E
    <3> QED BY <1>6, <1>8
  <2> HIDE DEF all
  <2> QED BY <1>7, <2>1
<1> DEFINE Ends(h) == \A t \in Trees[h] : t # Null =>
                        Least(t) \in Trees[h] /\ Least(t) # Null /\ Least(t).left = Null
           S == {h \in 0 .. MaxHeight : Trees[h] \subseteq Tree => Ends(h)}
<1> HIDE DEF all, E, Is, T
<1>9. 0 \in S
  BY TreesIs, AvlAssumption
<1>10. ASSUME NEW m \in S, m < MaxHeight PROVE m + 1 \in S
  <2>1. m \in 0 .. MaxHeight /\ m + 1 \in 0 .. MaxHeight
    BY <1>10, AvlAssumption
  <2>2. Trees[m] \subseteq Trees[m + 1]
    BY <1>10, <2>1, TreesGrow
  <2> SUFFICES ASSUME Trees[m + 1] \subseteq Tree PROVE Ends(m + 1)
    BY <2>1
  <2>3. Ends(m)
    BY <2>2
  <2> SUFFICES ASSUME NEW t \in Trees[m + 1], t # Null
               PROVE  Least(t) \in Trees[m + 1] /\ Least(t) # Null /\ Least(t).left = Null
    OBVIOUS
  <2>4. t.left \in Trees[m]
    BY <1>10, <2>1, NodeIs
  <2>5. Least(t) = IF t.left = Null THEN t ELSE Least(t.left)
    BY <1>8
  <2> QED BY <2>2, <2>3, <2>4, <2>5
<1>11. S = 0 .. MaxHeight
  <2>1. S \in SUBSET (0 .. MaxHeight)
    OBVIOUS
  <2> HIDE DEF S
  <2> QED BY <1>9, <1>10, <2>1, HeightSet
<1>12. \A h \in 0 .. MaxHeight : Trees[h] \subseteq Tree
  BY <1>4, TreesMono, AvlAssumption DEF Tree
<1>13. ASSUME NEW h \in 0 .. MaxHeight PROVE Ends(h)
  <2>1. h \in S
    BY <1>11
  <2> HIDE DEF Ends
  <2> QED BY <1>12, <2>1
<1> QED BY <1>8, <1>13

\* remove_node, and its calls of itself.
LEMMA RemoveIs ==
  \A t \in Tree, d \in [key : Key, n : Nat] : remove_node(t, d) =
    IF t = Null THEN Leaf(d.key, d.n)
    ELSE IF d.key < t.key THEN Refit([t EXCEPT !.left = remove_node(t.left, d)])
    ELSE IF d.key > t.key THEN Refit([t EXCEPT !.right = remove_node(t.right, d)])
    ELSE IF Len(t.chain) > 1 THEN [t EXCEPT !.chain = Unchained(@, d.n)]
    ELSE IF t.chain # <<d.n>> THEN t
    ELSE IF t.left = Null /\ t.right = Null THEN Null
    ELSE IF t.left = Null \/ t.right = Null
    THEN Refit(IF t.left = Null THEN t.right ELSE t.left)
    ELSE IF t.right.left = Null THEN Refit([t.right EXCEPT !.left = t.left])
    ELSE LET s == Least(t.right)
             m == Head(s.chain)
         IN  Refit([t EXCEPT !.key = s.key, !.chain = <<m>>,
                             !.right = remove_node(t.right, [key |-> s.key, n |-> m])])
<1> DEFINE E(g, t, d) ==
             IF t = Null THEN Leaf(d.key, d.n)
             ELSE IF d.key < t.key THEN Refit([t EXCEPT !.left = g[t.left][d]])
             ELSE IF d.key > t.key THEN Refit([t EXCEPT !.right = g[t.right][d]])
             ELSE IF Len(t.chain) > 1 THEN [t EXCEPT !.chain = Unchained(@, d.n)]
             ELSE IF t.chain # <<d.n>> THEN t
             ELSE IF t.left = Null /\ t.right = Null THEN Null
             ELSE IF t.left = Null \/ t.right = Null
             THEN Refit(IF t.left = Null THEN t.right ELSE t.left)
             ELSE IF t.right.left = Null THEN Refit([t.right EXCEPT !.left = t.left])
             ELSE LET s == Least(t.right)
                      m == Head(s.chain)
                  IN  Refit([t EXCEPT !.key = s.key, !.chain = <<m>>,
                                      !.right = g[t.right][[key |-> s.key, n |-> m]]])
           D == [key : Key, n : Nat]
           F(g, t) == [d \in D |-> E(g, t, d)]
           Is(g, h) == g = [t \in Trees[h] |-> F(g, t)]
           T == {h \in 0 .. MaxHeight : \E g : Is(g, h)}
           all == CHOOSE g : g = [t \in Tree |-> F(g, t)]
<1>1. 0 \in T
  <2> DEFINE g == [t \in Trees[0] |-> [d \in D |-> Leaf(d.key, d.n)]]
  <2>1. Is(g, 0)
    <3>1. F(g, Null) = [d \in D |-> Leaf(d.key, d.n)]
      OBVIOUS
    <3>2. \A t \in Trees[0] : t = Null
      BY TreesIs
    <3> HIDE DEF F, D
    <3> QED BY <3>1, <3>2
  <2>2. 0 \in 0 .. MaxHeight
    BY AvlAssumption
  <2> HIDE DEF g, Is
  <2> QED BY <2>1, <2>2
<1>2. ASSUME NEW m \in T, m < MaxHeight PROVE m + 1 \in T
  <2>1. m \in 0 .. MaxHeight /\ m + 1 \in 0 .. MaxHeight
    <3> HIDE DEF Is
    <3> QED BY <1>2, AvlAssumption
  <2>2. PICK g : Is(g, m)
    OBVIOUS
  <2> DEFINE f == [t \in Trees[m + 1] |-> F(g, t)]
  <2>3. ASSUME NEW t \in Trees[m + 1], NEW d \in D PROVE E(g, t, d) = E(f, t, d)
    <3>1. CASE t = Null
      BY <3>1
    <3>2. CASE t # Null
      <4>1. t.left \in Trees[m] /\ t.right \in Trees[m]
        BY <1>2, <2>1, <3>2, NodeIs
      <4>2. t.left \in Trees[m + 1] /\ t.right \in Trees[m + 1]
        BY <1>2, <2>1, <4>1, TreesGrow
      <4>3. f[t.left] = g[t.left] /\ f[t.right] = g[t.right]
        <5>1. g[t.left] = F(g, t.left) /\ g[t.right] = F(g, t.right)
          <6> HIDE DEF F
          <6> QED BY <2>2, <4>1
        <5>2. f[t.left] = F(g, t.left) /\ f[t.right] = F(g, t.right)
          <6> HIDE DEF F
          <6> QED BY <4>2
        <5> HIDE DEF f, F
        <5> QED BY <5>1, <5>2
      <4> HIDE DEF f
      <4> QED BY <4>3
    <3> QED BY <3>1, <3>2
  <2>4. Is(f, m + 1)
    <3> HIDE DEF E, D
    <3>1. \A t \in Trees[m + 1] : F(g, t) = F(f, t)
      <4> SUFFICES ASSUME NEW t \in Trees[m + 1] PROVE F(g, t) = F(f, t)
        OBVIOUS
      <4>1. \A d \in D : E(g, t, d) = E(f, t, d)
        BY <2>3
      <4> HIDE DEF f
      <4> QED BY <4>1
    <3> HIDE DEF F
    <3> QED BY <3>1
  <2> HIDE DEF f, Is
  <2> QED BY <2>1, <2>4
<1>3. T = 0 .. MaxHeight
  <2>1. T \in SUBSET (0 .. MaxHeight)
    OBVIOUS
  <2> HIDE DEF T
  <2> QED BY <1>1, <1>2, <2>1, HeightSet
<1>4. MaxHeight \in 0 .. MaxHeight
  BY AvlAssumption
<1>5. \E g : Is(g, MaxHeight)
  <2> HIDE DEF Is
  <2> QED BY <1>3, <1>4
<1>6. all = [t \in Tree |-> F(all, t)]
  <2> DEFINE J(g) == g = [t \in Tree |-> F(g, t)]
  <2>1. \E g : J(g)
    BY <1>5 DEF Tree
  <2>2. all = CHOOSE g : J(g)
    OBVIOUS
  <2> HIDE DEF J, all
  <2>3. J(all)
    BY <2>1, <2>2, Zenon
  <2> QED BY <2>3 DEF J
<1>7. \A t, d : remove_node(t, d) = all[t][d]
  BY DEF remove_node
<1> SUFFICES ASSUME NEW t \in Tree, NEW d \in D
             PROVE  remove_node(t, d) =
    IF t = Null THEN Leaf(d.key, d.n)
    ELSE IF d.key < t.key THEN Refit([t EXCEPT !.left = remove_node(t.left, d)])
    ELSE IF d.key > t.key THEN Refit([t EXCEPT !.right = remove_node(t.right, d)])
    ELSE IF Len(t.chain) > 1 THEN [t EXCEPT !.chain = Unchained(@, d.n)]
    ELSE IF t.chain # <<d.n>> THEN t
    ELSE IF t.left = Null /\ t.right = Null THEN Null
    ELSE IF t.left = Null \/ t.right = Null
    THEN Refit(IF t.left = Null THEN t.right ELSE t.left)
    ELSE IF t.right.left = Null THEN Refit([t.right EXCEPT !.left = t.left])
    ELSE LET s == Least(t.right)
             m == Head(s.chain)
         IN  Refit([t EXCEPT !.key = s.key, !.chain = <<m>>,
                             !.right = remove_node(t.right, [key |-> s.key, n |-> m])])
  OBVIOUS
<1>8. all[t][d] = E(all, t, d)
  <2>1. all[t] = F(all, t)
    <3> HIDE DEF all, F
    <3> QED BY <1>6
  <2> HIDE DEF all, E, D
  <2> QED BY <2>1
<1> HIDE DEF all
<1> QED BY <1>7, <1>8
-----------------------------------------------------------------------------
(* The tree: balanced trees, seen as their root and branches *)

Bigger(i, j) == IF i >= j THEN i ELSE j

\* The larger of two heights, without Max.
LEMMA MaxIsBigger ==
  ASSUME NEW i \in Nat, NEW j \in Nat
  PROVE  Max({i, j}) = Bigger(i, j)
<1>1. {i, j} \in SUBSET (0 .. (i + j)) /\ {i, j} # {} /\ i + j \in Nat
  OBVIOUS
<1>2. Max({i, j}) \in {i, j} /\ \A n \in {i, j} : n <= Max({i, j})
  BY <1>1, MaxIs
<1>3. CASE Max({i, j}) = i
  BY <1>2, <1>3 DEF Bigger
<1>4. CASE Max({i, j}) = j
  BY <1>2, <1>4 DEF Bigger
<1> QED BY <1>2, <1>3, <1>4

Chains == Seq(Nat) \ {<<>>}

\* What a node of a balanced tree satisfies: Balanced, said of one node.
NodeBalanced(t) ==
  /\ t.height = 1 + Max({height(t.left), height(t.right)})
  /\ balance(t) \in {-1, 0, 1}
  /\ \A u \in Subtrees(t.left) : u.key < t.key
  /\ \A u \in Subtrees(t.right) : u.key > t.key

Good(t) == t \in Tree /\ \A u \in Subtrees(t) : NodeBalanced(u)

\* The keys of a tree, with what hangs on each.
Pairs(t) == {<<u.key, u.chain>> : u \in Subtrees(t)}

Below(t, k) == \A j \in Key, c \in Chains : <<j, c>> \in Pairs(t) => j < k
Above(t, k) == \A j \in Key, c \in Chains : <<j, c>> \in Pairs(t) => j > k

\* The nodes of a tree have their branches in it.
LEMMA SubtreesIn ==
  \A h \in 0 .. MaxHeight : \A t \in Trees[h] :
    /\ Subtrees(t) \subseteq Tree \ {Null}
    /\ \A u \in Subtrees(t) : u.key \in Key /\ u.chain \in Chains
<1> DEFINE In(t) == /\ Subtrees(t) \subseteq Tree \ {Null}
                    /\ \A u \in Subtrees(t) : u.key \in Key /\ u.chain \in Chains
           T == {h \in 0 .. MaxHeight : \A t \in Trees[h] : In(t)}
<1>1. In(Null)
  BY InTree, SubtreesIs
<1>2. 0 \in T
  <2> HIDE DEF In
  <2> QED BY <1>1, TreesIs, AvlAssumption
<1>3. ASSUME NEW m \in T, m < MaxHeight PROVE m + 1 \in T
  <2>1. m \in 0 .. MaxHeight /\ m + 1 \in 0 .. MaxHeight /\ MaxHeight \in 0 .. MaxHeight
    <3> HIDE DEF In
    <3> QED BY <1>3, AvlAssumption
  <2>2. ASSUME NEW t \in Trees[m + 1], t # Null PROVE In(t)
    <3>1. t \in Node(Trees[m]) /\ t.left \in Trees[m] /\ t.right \in Trees[m]
      BY <1>3, <2>1, <2>2, NodeIs
    <3>2. t \in Tree
      BY <2>1, TreesMono, AvlAssumption DEF Tree
    <3>3. t.key \in Key /\ t.chain \in Chains
      BY <3>1 DEF Node, Chains
    <3>4. In(t.left) /\ In(t.right)
      <4> HIDE DEF In
      <4> QED BY <3>1
    <3>5. Subtrees(t) = {t} \cup Subtrees(t.left) \cup Subtrees(t.right)
      BY <2>2, <3>2, SubtreesIs
    <3> QED BY <2>2, <3>2, <3>3, <3>4, <3>5
  <2>3. \A t \in Trees[m + 1] : In(t)
    <3> HIDE DEF In
    <3> QED BY <1>1, <2>2
  <2> HIDE DEF In
  <2> QED BY <2>1, <2>3
<1>4. T = 0 .. MaxHeight
  <2>1. T \in SUBSET (0 .. MaxHeight)
    OBVIOUS
  <2> HIDE DEF T
  <2> QED BY <1>2, <1>3, <2>1, HeightSet
<1> HIDE DEF In
<1>5. \A h \in 0 .. MaxHeight : \A t \in Trees[h] : In(t)
  BY <1>4
<1> QED BY <1>5 DEF In

\* A balanced tree is as high as its root says, and no higher than any tree.
LEMMA GoodIn ==
  ASSUME NEW t, Good(t)
  PROVE  height(t) \in 0 .. MaxHeight /\ t \in Trees[height(t)]
<1> DEFINE T == {h \in 0 .. MaxHeight : \A u \in Trees[h] :
                   Good(u) => height(u) \in 0 .. h /\ u \in Trees[height(u)]}
<1>1. height(Null) = 0 /\ Null \in Trees[0] /\ 0 \in 0 .. MaxHeight
  BY TreesIs, AvlAssumption DEF height
<1>2. 0 \in T
  BY <1>1, TreesIs
<1>3. ASSUME NEW m \in T, m < MaxHeight PROVE m + 1 \in T
  <2>1. m \in 0 .. MaxHeight /\ m + 1 \in 0 .. MaxHeight
    BY <1>3, AvlAssumption
  <2> SUFFICES ASSUME NEW u \in Trees[m + 1], Good(u)
               PROVE  height(u) \in 0 .. m + 1 /\ u \in Trees[height(u)]
    BY <2>1
  <2>2. CASE u = Null
    BY <1>1, <2>1, <2>2
  <2>3. CASE u # Null
    <3>1. u \in Node(Trees[m]) /\ u.left \in Trees[m] /\ u.right \in Trees[m]
      BY <1>3, <2>1, <2>3, NodeIs
    <3>2. u \in Tree /\ u.left \in Tree /\ u.right \in Tree
      BY <2>3, InTree DEF Good
    <3>3. Subtrees(u) = {u} \cup Subtrees(u.left) \cup Subtrees(u.right)
      BY <2>3, <3>2, SubtreesIs
    <3>4. Good(u.left) /\ Good(u.right) /\ NodeBalanced(u)
      BY <3>2, <3>3 DEF Good
    <3>5. /\ height(u.left) \in 0 .. m /\ u.left \in Trees[height(u.left)]
          /\ height(u.right) \in 0 .. m /\ u.right \in Trees[height(u.right)]
      BY <3>1, <3>4
    <3>6. PICK i \in 0 .. m, j \in 0 .. m : i = height(u.left) /\ j = height(u.right)
      BY <3>5
    <3>7. PICK b \in 0 .. m : b = Bigger(i, j)
      BY <2>1 DEF Bigger
    <3>8. b \in 0 .. MaxHeight /\ b < MaxHeight /\ i <= b /\ j <= b /\ {i, j} \subseteq 0 .. MaxHeight
      <4>1. i <= b /\ j <= b
        BY <2>1, <3>7 DEF Bigger
      <4>2. m \in Nat /\ MaxHeight \in Nat
        BY <2>1, AvlAssumption
      <4> QED BY <1>3, <4>1, <4>2
    <3>9. u.left \in Trees[b] /\ u.right \in Trees[b]
      <4>1. Trees[i] \subseteq Trees[b] /\ Trees[j] \subseteq Trees[b]
        BY <3>8, TreesMono
      <4> QED BY <3>5, <3>6, <4>1
    <3>10. u \in Node(Trees[b])
      BY <3>1, <3>9 DEF Node
    <3>11. u \in Trees[b + 1] /\ b + 1 \in 0 .. m + 1
      BY <2>1, <3>8, <3>10, TreesIs
    <3>12. height(u) = b + 1
      <4>1. u.height = 1 + b
        BY <2>1, <3>4, <3>6, <3>7, MaxIsBigger DEF NodeBalanced
      <4> QED BY <2>3, <3>8, <4>1 DEF height
    <3> QED BY <3>11, <3>12
  <2> QED BY <2>2, <2>3
<1>4. T = 0 .. MaxHeight
  <2>1. T \in SUBSET (0 .. MaxHeight)
    OBVIOUS
  <2> HIDE DEF T
  <2> QED BY <1>2, <1>3, <2>1, HeightSet
<1>5. MaxHeight \in T
  BY <1>4, AvlAssumption
<1>6. t \in Trees[MaxHeight]
  BY DEF Good, Tree
<1> QED BY <1>5, <1>6

\* The record of a node, and the one that calc_height makes of it.
Raw(k, c, l, r, h) == [key |-> k, chain |-> c, left |-> l, right |-> r, height |-> h]
Root(k, c, l, r) == Raw(k, c, l, r, 1 + Bigger(height(l), height(r)))

\* A node's fields, and what becomes of it when one is changed.
LEMMA RawIs ==
  ASSUME NEW k, NEW c, NEW l, NEW r, NEW h
  PROVE  /\ Raw(k, c, l, r, h) # Null
         /\ Raw(k, c, l, r, h).key = k /\ Raw(k, c, l, r, h).chain = c
         /\ Raw(k, c, l, r, h).left = l /\ Raw(k, c, l, r, h).right = r
         /\ height(Raw(k, c, l, r, h)) = h
         /\ \A x : /\ [Raw(k, c, l, r, h) EXCEPT !.left = x] = Raw(k, c, x, r, h)
                   /\ [Raw(k, c, l, r, h) EXCEPT !.right = x] = Raw(k, c, l, x, h)
                   /\ [Raw(k, c, l, r, h) EXCEPT !.chain = x] = Raw(k, x, l, r, h)
                   /\ [Raw(k, c, l, r, h) EXCEPT !.height = x] = Raw(k, c, l, r, x)
<1>1. Raw(k, c, l, r, h) # Null
  <2>1. DOMAIN Raw(k, c, l, r, h) = {"key", "chain", "left", "right", "height"}
    BY DEF Raw
  <2>2. DOMAIN Null = {}
    BY DEF Null
  <2> QED BY <2>1, <2>2
<1>2. height(Raw(k, c, l, r, h)) = Raw(k, c, l, r, h).height
  BY <1>1 DEF height
<1> QED BY <1>1, <1>2 DEF Raw

\* calc_height, given the branches' heights.
LEMMA CalcIs ==
  ASSUME NEW k, NEW c, NEW l, NEW r, NEW h, height(l) \in Nat, height(r) \in Nat
  PROVE  /\ calc_height(Raw(k, c, l, r, h)) = Root(k, c, l, r)
         /\ height(Root(k, c, l, r)) = 1 + Bigger(height(l), height(r))
         /\ height(Root(k, c, l, r)) \in Nat
<1>1. Max({height(l), height(r)}) = Bigger(height(l), height(r))
  BY MaxIsBigger
<1>2. calc_height(Raw(k, c, l, r, h)) = Root(k, c, l, r)
  <2> DEFINE t == Raw(k, c, l, r, h)
             x == 1 + Bigger(height(l), height(r))
  <2>1. t.left = l /\ t.right = r /\ [t EXCEPT !.height = x] = Raw(k, c, l, r, x)
    <3> HIDE DEF x
    <3> QED BY DEF Raw
  <2>2. 1 + Max({height(t.left), height(t.right)}) = x
    <3> HIDE DEF t
    <3> QED BY <1>1, <2>1
  <2>3. calc_height(t) = Raw(k, c, l, r, x)
    <3> HIDE DEF t, x
    <3> QED BY <2>1, <2>2 DEF calc_height
  <2> QED BY <2>3 DEF Root
<1>3. height(Root(k, c, l, r)) = 1 + Bigger(height(l), height(r))
  BY RawIs DEF Root
<1>4. Bigger(height(l), height(r)) \in Nat
  BY DEF Bigger
<1> QED BY <1>2, <1>3, <1>4

\* The height that the root stores.
LEMMA RootHeight ==
  ASSUME NEW k, NEW c, NEW l, NEW r, height(l) \in Nat, height(r) \in Nat
  PROVE  height(Root(k, c, l, r)) = 1 + Bigger(height(l), height(r))
BY RawIs DEF Root

\* The branches of a balanced tree's root.
Fits(k, c, l, r) ==
  /\ k \in Key /\ c \in Chains
  /\ Good(l) /\ Good(r) /\ Below(l, k) /\ Above(r, k)

\* A balanced tree's height is a number within the bound.
LEMMA GoodHeight == ASSUME NEW t, Good(t) PROVE height(t) \in Nat /\ height(t) <= MaxHeight
<1>1. height(t) \in 0 .. MaxHeight
  BY GoodIn
<1> QED BY <1>1, AvlAssumption

\* What hangs in a balanced tree are chains, on keys.
LEMMA PairsIn ==
  ASSUME NEW t, Good(t)
  PROVE  /\ Pairs(t) \subseteq Key \X Chains
         /\ \A j \in Key : j \in Nat
<1>1. \A u \in Subtrees(t) : u.key \in Key /\ u.chain \in Chains
  BY SubtreesIn, AvlAssumption DEF Good, Tree
<1> QED BY <1>1, AvlAssumption DEF Pairs

\* A node's pairs are its own and those of its branches.
LEMMA PairsAre ==
  /\ Good(Null) /\ Pairs(Null) = {} /\ height(Null) = 0
  /\ \A t \in Tree : t # Null =>
       Pairs(t) = {<<t.key, t.chain>>} \cup Pairs(t.left) \cup Pairs(t.right)
<1>1. Subtrees(Null) = {} /\ Null \in Tree
  BY InTree, SubtreesIs
<1>2. Good(Null) /\ Pairs(Null) = {} /\ height(Null) = 0
  BY <1>1 DEF Good, Pairs, height
<1>3. ASSUME NEW t \in Tree, t # Null
      PROVE  Pairs(t) = {<<t.key, t.chain>>} \cup Pairs(t.left) \cup Pairs(t.right)
  <2>1. Subtrees(t) = {t} \cup Subtrees(t.left) \cup Subtrees(t.right)
    BY <1>3, SubtreesIs
  <2> QED BY <2>1 DEF Pairs
<1> QED BY <1>2, <1>3

\* A balanced tree, taken apart.
LEMMA Dissect ==
  ASSUME NEW t, Good(t), t # Null
  PROVE  /\ t \in Tree /\ Fits(t.key, t.chain, t.left, t.right)
         /\ t = Root(t.key, t.chain, t.left, t.right)
         /\ height(t.left) - height(t.right) \in {-1, 0, 1}
         /\ Pairs(t) = {<<t.key, t.chain>>} \cup Pairs(t.left) \cup Pairs(t.right)
<1>1. t \in Tree /\ t \in Node(Tree) /\ t.left \in Tree /\ t.right \in Tree
  BY InTree DEF Good
<1>2. t.key \in Key /\ t.chain \in Chains
  BY <1>1 DEF Node, Chains
<1>3. Subtrees(t) = {t} \cup Subtrees(t.left) \cup Subtrees(t.right)
  BY <1>1, SubtreesIs
<1>4. Good(t.left) /\ Good(t.right) /\ NodeBalanced(t)
  BY <1>1, <1>3 DEF Good
<1>5. Below(t.left, t.key) /\ Above(t.right, t.key)
  BY <1>4 DEF Below, Above, Pairs, NodeBalanced
<1>6. t = Root(t.key, t.chain, t.left, t.right)
  <2>1. t.height = 1 + Bigger(height(t.left), height(t.right))
    BY <1>4, GoodHeight, MaxIsBigger DEF NodeBalanced
  <2>2. t = Raw(t.key, t.chain, t.left, t.right, t.height)
    BY <1>1 DEF Node, Raw
  <2> QED BY <2>1, <2>2 DEF Root
<1> QED BY <1>1, <1>2, <1>4, <1>5, <1>6, PairsAre DEF Fits, NodeBalanced, balance

\* Two balanced trees of about the same height, put together under a root.
LEMMA Assemble ==
  ASSUME NEW k, NEW c, NEW l, NEW r, Fits(k, c, l, r),
         height(l) - height(r) \in {-1, 0, 1}, height(l) < MaxHeight, height(r) < MaxHeight
  PROVE  /\ Good(Root(k, c, l, r))
         /\ Pairs(Root(k, c, l, r)) = {<<k, c>>} \cup Pairs(l) \cup Pairs(r)
<1> DEFINE t == Root(k, c, l, r)
<1>1. /\ t.key = k /\ t.chain = c /\ t.left = l /\ t.right = r /\ t # Null
      /\ t.height = 1 + Bigger(height(l), height(r))
  BY RawIs DEF Root, Raw
<1>2. k \in Key /\ c \in Chains /\ Good(l) /\ Good(r) /\ Below(l, k) /\ Above(r, k)
  BY DEF Fits
<1>3. height(l) \in Nat /\ height(r) \in Nat
  BY <1>2, GoodHeight
<1>4. t \in Tree
  <2>1. MaxHeight - 1 \in 0 .. MaxHeight /\ (MaxHeight - 1) + 1 = MaxHeight /\ MaxHeight - 1 < MaxHeight
    BY <1>3, AvlAssumption
  <2>2. PICK m \in 0 .. MaxHeight : m < MaxHeight /\ m + 1 = MaxHeight
    BY <2>1
  <2>3. height(l) <= m /\ height(r) <= m /\ height(l) \in 0 .. MaxHeight /\ height(r) \in 0 .. MaxHeight
    BY <1>3, <2>2, AvlAssumption
  <2>4. l \in Trees[height(l)] /\ r \in Trees[height(r)]
    BY <1>2, GoodIn
  <2>5. Trees[height(l)] \subseteq Trees[m] /\ Trees[height(r)] \subseteq Trees[m]
    BY <2>3, TreesMono
  <2>6. 1 + Bigger(height(l), height(r)) \in Nat
    BY <1>3 DEF Bigger
  <2>7. t \in Node(Trees[m])
    BY <1>2, <2>4, <2>5, <2>6 DEF Node, Root, Raw, Chains
  <2>8. t \in Trees[m + 1]
    BY <2>2, <2>7, TreesIs
  <2> QED BY <2>2, <2>8 DEF Tree
<1>5. Subtrees(t) = {t} \cup Subtrees(l) \cup Subtrees(r)
  <2>1. Subtrees(t) = {t} \cup Subtrees(t.left) \cup Subtrees(t.right)
    BY <1>1, <1>4, SubtreesIs
  <2> HIDE DEF t
  <2> QED BY <1>1, <2>1
<1>6. NodeBalanced(t)
  <2>1. t.height = 1 + Max({height(l), height(r)})
    BY <1>1, <1>3, MaxIsBigger
  <2>2. \A u \in Subtrees(l) : u.key < k
    <3>1. \A u \in Subtrees(l) : u.key \in Key /\ u.chain \in Chains /\ <<u.key, u.chain>> \in Pairs(l)
      BY <1>2, SubtreesIn, AvlAssumption DEF Good, Tree, Pairs
    <3> QED BY <1>2, <3>1 DEF Below
  <2>3. \A u \in Subtrees(r) : u.key > k
    <3>1. \A u \in Subtrees(r) : u.key \in Key /\ u.chain \in Chains /\ <<u.key, u.chain>> \in Pairs(r)
      BY <1>2, SubtreesIn, AvlAssumption DEF Good, Tree, Pairs
    <3> QED BY <1>2, <3>1 DEF Above
  <2> HIDE DEF t
  <2> QED BY <1>1, <2>1, <2>2, <2>3 DEF NodeBalanced, balance
<1>7. Good(t)
  <2> HIDE DEF t
  <2> QED BY <1>2, <1>4, <1>5, <1>6 DEF Good
<1>8. Pairs(t) = {<<k, c>>} \cup Pairs(l) \cup Pairs(r)
  <2>1. Pairs(t) = {<<t.key, t.chain>>} \cup Pairs(t.left) \cup Pairs(t.right)
    BY <1>1, <1>4, PairsAre
  <2> HIDE DEF t
  <2> QED BY <1>1, <2>1
<1> QED BY <1>7, <1>8

\* A rotation puts the root below one of its branches.
LEMMA RotateRightIs ==
  ASSUME NEW k, NEW c, NEW r, NEW h, NEW j, NEW d, NEW a, NEW b, NEW i,
         height(a) \in Nat, height(b) \in Nat, height(r) \in Nat
  PROVE  rotate_right(Raw(k, c, Raw(j, d, a, b, i), r, h)) = Root(j, d, a, Root(k, c, b, r))
<1> DEFINE t == Raw(k, c, Raw(j, d, a, b, i), r, h)
           new == Raw(j, d, a, b, i)
<1>1. t.left = new /\ new.right = b
  BY RawIs
<1>2. [t EXCEPT !.left = b] = Raw(k, c, b, r, h)
  <2> HIDE DEF new
  <2> QED BY DEF Raw
<1>3. calc_height([t EXCEPT !.left = b]) = Root(k, c, b, r) /\ height(Root(k, c, b, r)) \in Nat
  BY <1>2, CalcIs
<1>4. [new EXCEPT !.right = Root(k, c, b, r)] = Raw(j, d, a, Root(k, c, b, r), i)
  BY RawIs
<1>5. calc_height([new EXCEPT !.right = Root(k, c, b, r)]) = Root(j, d, a, Root(k, c, b, r))
  BY <1>3, <1>4, CalcIs
<1>6. rotate_right(t) = calc_height([new EXCEPT !.right = calc_height([t EXCEPT !.left = b])])
  <2> HIDE DEF t, new
  <2> QED BY <1>1 DEF rotate_right
<1> HIDE DEF t, new
<1>7. rotate_right(t) = Root(j, d, a, Root(k, c, b, r))
  BY <1>3, <1>5, <1>6
<1> QED BY <1>7 DEF t, new

\* The other rotation, likewise.
LEMMA RotateLeftIs ==
  ASSUME NEW k, NEW c, NEW l, NEW h, NEW j, NEW d, NEW a, NEW b, NEW i,
         height(a) \in Nat, height(b) \in Nat, height(l) \in Nat
  PROVE  rotate_left(Raw(k, c, l, Raw(j, d, a, b, i), h)) = Root(j, d, Root(k, c, l, a), b)
<1> DEFINE t == Raw(k, c, l, Raw(j, d, a, b, i), h)
           new == Raw(j, d, a, b, i)
<1>1. t.right = new /\ new.left = a
  BY RawIs
<1>2. [t EXCEPT !.right = a] = Raw(k, c, l, a, h)
  <2> HIDE DEF new
  <2> QED BY DEF Raw
<1>3. calc_height([t EXCEPT !.right = a]) = Root(k, c, l, a) /\ height(Root(k, c, l, a)) \in Nat
  BY <1>2, CalcIs
<1>4. [new EXCEPT !.left = Root(k, c, l, a)] = Raw(j, d, Root(k, c, l, a), b, i)
  BY RawIs
<1>5. calc_height([new EXCEPT !.left = Root(k, c, l, a)]) = Root(j, d, Root(k, c, l, a), b)
  BY <1>3, <1>4, CalcIs
<1>6. rotate_left(t) = calc_height([new EXCEPT !.left = calc_height([t EXCEPT !.right = a])])
  <2> HIDE DEF t, new
  <2> QED BY <1>1 DEF rotate_left
<1> HIDE DEF t, new
<1>7. rotate_left(t) = Root(j, d, Root(k, c, l, a), b)
  BY <1>3, <1>5, <1>6
<1> QED BY <1>7 DEF t, new

\* What is beyond a node is beyond those on the node's other side.
LEMMA BetweenRight ==
  ASSUME NEW k \in Key, NEW j \in Key, NEW d \in Chains, NEW l, NEW r,
         <<j, d>> \in Pairs(l), Below(l, k), Above(r, k)
  PROVE  j < k /\ Above(r, j)
<1>1. j < k /\ j \in Nat /\ k \in Nat
  BY AvlAssumption DEF Below, Above
<1>2. ASSUME NEW i \in Key, NEW e \in Chains, <<i, e>> \in Pairs(r) PROVE i > j
  <2>1. i \in Nat /\ i > k
    BY <1>2, AvlAssumption DEF Below, Above
  <2> QED BY <1>1, <2>1
<1> QED BY <1>1, <1>2 DEF Below, Above

\* One rotation to the right, when the left side is two higher and leans there, or not at all.
LEMMA SingleRight ==
  ASSUME NEW k, NEW c, NEW l, NEW r, Fits(k, c, l, r), NEW h,
         height(l) = height(r) + 2, height(l) < MaxHeight, height(l.left) >= height(l.right)
  PROVE  \E new : /\ rotate_right(Raw(k, c, l, r, h)) = new
                  /\ Good(new) /\ new # Null
                  /\ Pairs(new) = {<<k, c>>} \cup Pairs(l) \cup Pairs(r)
                  /\ height(new) \in {height(l), height(l) + 1}
                  /\ height(l.left) # height(l.right) => height(new) = height(l)
<1> DEFINE j == l.key
           d == l.chain
           a == l.left
           b == l.right
           s == Root(k, c, b, r)
           new == Root(j, d, a, s)
<1>1. k \in Key /\ c \in Chains /\ Good(l) /\ Good(r) /\ Below(l, k) /\ Above(r, k)
  BY DEF Fits
<1>2. height(l) \in Nat /\ height(r) \in Nat /\ l # Null
  BY <1>1, GoodHeight, PairsAre
<1>3. /\ Fits(j, d, a, b) /\ l = Root(j, d, a, b) /\ height(a) - height(b) \in {-1, 0, 1}
      /\ Pairs(l) = {<<j, d>>} \cup Pairs(a) \cup Pairs(b)
  BY <1>1, <1>2, Dissect
<1> HIDE DEF j, d, a, b
<1>4. j \in Key /\ d \in Chains /\ Good(a) /\ Good(b) /\ Below(a, j) /\ Above(b, j)
  BY <1>3 DEF Fits
<1>5. height(a) \in Nat /\ height(b) \in Nat /\ MaxHeight \in Nat
  BY <1>4, GoodHeight, AvlAssumption
<1>6. height(l) = 1 + Bigger(height(a), height(b))
  BY <1>3, <1>5, RootHeight
<1>7. /\ height(a) = height(r) + 1 /\ height(b) \in {height(r), height(r) + 1}
      /\ height(a) >= height(b)
  <2>1. height(a) >= height(b)
    BY DEF a, b
  <2> QED BY <1>2, <1>3, <1>5, <1>6, <2>1 DEF Bigger
<1>8. Below(b, k)
  BY <1>1, <1>3 DEF Below, Above
<1>9. Fits(k, c, b, r)
  BY <1>1, <1>4, <1>8 DEF Fits
<1>10. Good(s) /\ Pairs(s) = {<<k, c>>} \cup Pairs(b) \cup Pairs(r)
  <2>1. height(b) - height(r) \in {-1, 0, 1}
    BY <1>2, <1>7
  <2>2. height(b) < MaxHeight /\ height(r) < MaxHeight
    BY <1>2, <1>5, <1>7
  <2> QED BY <1>9, <2>1, <2>2, Assemble
<1>11. height(s) = 1 + height(b) /\ height(s) \in Nat
  <2>1. height(s) = 1 + Bigger(height(b), height(r))
    BY <1>2, <1>5, RootHeight
  <2> HIDE DEF s
  <2> QED BY <1>2, <1>5, <1>7, <2>1 DEF Bigger
<1> HIDE DEF s
<1>12. Above(s, j)
  <2>1. j < k /\ Above(r, j)
    BY <1>1, <1>3, <1>4, BetweenRight
  <2> QED BY <1>1, <1>4, <1>10, <2>1 DEF Below, Above
<1>13. Fits(j, d, a, s)
  BY <1>4, <1>10, <1>12 DEF Fits
<1>14. Good(new) /\ Pairs(new) = {<<j, d>>} \cup Pairs(a) \cup Pairs(s)
  <2>1. height(a) - height(s) \in {-1, 0, 1}
    BY <1>2, <1>7, <1>11
  <2>2. height(a) < MaxHeight /\ height(s) < MaxHeight
    BY <1>2, <1>5, <1>7, <1>11
  <2> QED BY <1>13, <2>1, <2>2, Assemble
<1>15. height(new) = 1 + Bigger(height(a), height(s))
  BY <1>5, <1>11, RootHeight
<1>16. rotate_right(Raw(k, c, l, r, h)) = new
  <2> DEFINE i == 1 + Bigger(height(a), height(b))
  <2>1. l = Raw(j, d, a, b, i)
    BY <1>3 DEF Root
  <2> HIDE DEF i
  <2>2. rotate_right(Raw(k, c, Raw(j, d, a, b, i), r, h)) = new
    BY <1>2, <1>5, RotateRightIs DEF s
  <2> HIDE DEF new
  <2> QED BY <2>1, <2>2
<1>17. new # Null
  BY RawIs DEF Root
<1>18. Pairs(new) = {<<k, c>>} \cup Pairs(l) \cup Pairs(r)
  <2> HIDE DEF new
  <2> QED BY <1>3, <1>10, <1>14
<1>19. height(new) \in {height(l), height(l) + 1} /\ (height(a) # height(b) => height(new) = height(l))
  <2> HIDE DEF new
  <2> QED BY <1>2, <1>5, <1>7, <1>11, <1>15 DEF Bigger
<1> HIDE DEF new
<1>20. height(l.left) # height(l.right) => height(new) = height(l)
  BY <1>19 DEF a, b
<1> QED BY <1>14, <1>16, <1>17, <1>18, <1>19, <1>20

\* Two rotations, when it leans to the other side.
LEMMA DoubleRight ==
  ASSUME NEW k, NEW c, NEW l, NEW r, Fits(k, c, l, r), NEW h,
         height(l) = height(r) + 2, height(l) < MaxHeight, height(l.left) < height(l.right)
  PROVE  \E new : /\ rotate_right([Raw(k, c, l, r, h) EXCEPT !.left = rotate_left(@)]) = new
                  /\ Good(new) /\ new # Null
                  /\ Pairs(new) = {<<k, c>>} \cup Pairs(l) \cup Pairs(r)
                  /\ height(new) = height(l)
<1> DEFINE j == l.key
           d == l.chain
           a == l.left
           b == l.right
           v == b.key
           w == b.chain
           x == b.left
           y == b.right
           p == Root(j, d, a, x)
           s == Root(k, c, y, r)
           new == Root(v, w, p, s)
<1>1. k \in Key /\ c \in Chains /\ Good(l) /\ Good(r) /\ Below(l, k) /\ Above(r, k)
  BY DEF Fits
<1>2. height(l) \in Nat /\ height(r) \in Nat /\ l # Null
  BY <1>1, GoodHeight, PairsAre
<1>3. /\ Fits(j, d, a, b) /\ l = Root(j, d, a, b) /\ height(a) - height(b) \in {-1, 0, 1}
      /\ Pairs(l) = {<<j, d>>} \cup Pairs(a) \cup Pairs(b)
  BY <1>1, <1>2, Dissect
<1>4. height(a) < height(b)
  OBVIOUS
<1> HIDE DEF j, d, a, b
<1>5. j \in Key /\ d \in Chains /\ Good(a) /\ Good(b) /\ Below(a, j) /\ Above(b, j)
  BY <1>3 DEF Fits
<1>6. height(a) \in Nat /\ height(b) \in Nat /\ MaxHeight \in Nat
  BY <1>5, GoodHeight, AvlAssumption
<1>7. height(l) = 1 + Bigger(height(a), height(b))
  BY <1>3, <1>6, RootHeight
<1>8. height(a) = height(r) /\ height(b) = height(r) + 1
  BY <1>2, <1>3, <1>4, <1>6, <1>7 DEF Bigger
<1>9. b # Null
  BY <1>2, <1>8, PairsAre
<1>10. /\ Fits(v, w, x, y) /\ b = Root(v, w, x, y) /\ height(x) - height(y) \in {-1, 0, 1}
       /\ Pairs(b) = {<<v, w>>} \cup Pairs(x) \cup Pairs(y)
  BY <1>5, <1>9, Dissect
<1> HIDE DEF v, w, x, y
<1>11. v \in Key /\ w \in Chains /\ Good(x) /\ Good(y) /\ Below(x, v) /\ Above(y, v)
  BY <1>10 DEF Fits
<1>12. height(x) \in Nat /\ height(y) \in Nat
  BY <1>11, GoodHeight
<1>13. height(b) = 1 + Bigger(height(x), height(y))
  BY <1>10, <1>12, RootHeight
<1>14. /\ height(x) <= height(r) /\ height(y) <= height(r)
       /\ height(x) >= height(r) - 1 /\ height(y) >= height(r) - 1
  BY <1>2, <1>8, <1>10, <1>12, <1>13 DEF Bigger
<1>15. \A q \in Key : q \in Nat
  BY AvlAssumption
<1>16. /\ Above(x, j) /\ v > j /\ Below(b, k)
  BY <1>1, <1>3, <1>5, <1>10, <1>11 DEF Below, Above
<1>17. Below(y, k) /\ v < k
  BY <1>10, <1>11, <1>16 DEF Below, Above
<1>18. Good(p) /\ Pairs(p) = {<<j, d>>} \cup Pairs(a) \cup Pairs(x)
  <2>1. Fits(j, d, a, x)
    BY <1>5, <1>11, <1>16 DEF Fits
  <2>2. height(a) - height(x) \in {-1, 0, 1}
    BY <1>2, <1>8, <1>12, <1>14
  <2>3. height(a) < MaxHeight /\ height(x) < MaxHeight
    BY <1>2, <1>6, <1>8, <1>12, <1>14
  <2> QED BY <2>1, <2>2, <2>3, Assemble
<1>19. Good(s) /\ Pairs(s) = {<<k, c>>} \cup Pairs(y) \cup Pairs(r)
  <2>1. Fits(k, c, y, r)
    BY <1>1, <1>11, <1>17 DEF Fits
  <2>2. height(y) - height(r) \in {-1, 0, 1}
    BY <1>2, <1>12, <1>14
  <2>3. height(y) < MaxHeight /\ height(r) < MaxHeight
    BY <1>2, <1>6, <1>12, <1>14
  <2> QED BY <2>1, <2>2, <2>3, Assemble
<1>20. height(p) = 1 + height(r) /\ height(s) = 1 + height(r)
  <2>1. height(p) = 1 + Bigger(height(a), height(x))
    BY <1>6, <1>12, RootHeight
  <2>2. height(s) = 1 + Bigger(height(y), height(r))
    BY <1>2, <1>12, RootHeight
  <2> HIDE DEF p, s
  <2> QED BY <1>2, <1>8, <1>12, <1>14, <2>1, <2>2 DEF Bigger
<1>21. rotate_left(l) = Root(v, w, p, y)
  <2> DEFINE i == 1 + Bigger(height(a), height(b))
             g == 1 + Bigger(height(x), height(y))
  <2>1. l = Raw(j, d, a, b, i)
    BY <1>3 DEF Root
  <2>2. b = Raw(v, w, x, y, g)
    BY <1>10 DEF Root
  <2> HIDE DEF i, g
  <2>3. \A q, z : rotate_left(Raw(j, d, a, Raw(v, w, x, y, q), z)) = Root(v, w, p, y)
    BY <1>6, <1>12, RotateLeftIs
  <2> HIDE DEF p
  <2> QED BY <2>1, <2>2, <2>3
<1> HIDE DEF p, s
<1>22. rotate_right([Raw(k, c, l, r, h) EXCEPT !.left = rotate_left(@)]) = new
  <2> DEFINE t == Raw(k, c, l, r, h)
             u == Root(v, w, p, y)
  <2>1. t.left = l
    BY RawIs
  <2>2. [t EXCEPT !.left = u] = Raw(k, c, u, r, h)
    <3> HIDE DEF u
    <3> QED BY DEF Raw
  <2>3. [t EXCEPT !.left = rotate_left(@)] = Raw(k, c, u, r, h)
    <3> HIDE DEF t, u
    <3>1. rotate_left(t.left) = u
      BY <1>21, <2>1 DEF u
    <3> QED BY <2>2, <3>1
  <2>4. \A q : rotate_right(Raw(k, c, Raw(v, w, p, y, q), r, h)) = new
    <3>1. height(p) \in Nat
      BY <1>2, <1>20
    <3> QED BY <1>2, <1>12, <3>1, RotateRightIs DEF s
  <2>5. rotate_right(Raw(k, c, u, r, h)) = new
    <3> HIDE DEF new
    <3> QED BY <2>4 DEF Root
  <2> HIDE DEF t, u, new
  <2>6. rotate_right([t EXCEPT !.left = rotate_left(@)]) = new
    BY <2>3, <2>5
  <2> QED BY <2>6 DEF t
<1>23. Above(s, v) /\ Below(p, v)
  <2>1. Below(a, v)
    <3> SUFFICES ASSUME NEW i \in Key, NEW e \in Chains, <<i, e>> \in Pairs(a) PROVE i < v
      BY DEF Below, Above
    <3>1. i < j
      BY <1>5 DEF Below, Above
    <3> QED BY <1>5, <1>11, <1>15, <1>16, <3>1
  <2>2. Below(p, v)
    BY <1>11, <1>16, <1>18, <2>1 DEF Below, Above
  <2>3. Above(r, v)
    <3> SUFFICES ASSUME NEW i \in Key, NEW e \in Chains, <<i, e>> \in Pairs(r) PROVE i > v
      BY DEF Below, Above
    <3>1. i > k
      BY <1>1 DEF Below, Above
    <3> QED BY <1>1, <1>11, <1>15, <1>17, <3>1
  <2>4. Above(s, v)
    BY <1>11, <1>17, <1>19, <2>3 DEF Below, Above
  <2> QED BY <2>2, <2>4
<1>24. Good(new) /\ Pairs(new) = {<<v, w>>} \cup Pairs(p) \cup Pairs(s)
  <2>1. Fits(v, w, p, s)
    BY <1>11, <1>18, <1>19, <1>23 DEF Fits
  <2>2. height(p) - height(s) \in {-1, 0, 1}
    BY <1>2, <1>20
  <2>3. height(p) < MaxHeight /\ height(s) < MaxHeight
    BY <1>2, <1>6, <1>20
  <2> QED BY <2>1, <2>2, <2>3, Assemble
<1>25. height(new) = height(l)
  <2>1. height(new) = 1 + Bigger(height(p), height(s))
    BY <1>2, <1>20, RootHeight
  <2> HIDE DEF new
  <2> QED BY <1>2, <1>20, <2>1 DEF Bigger
<1>26. new # Null
  BY RawIs DEF Root
<1>27. Pairs(new) = {<<k, c>>} \cup Pairs(l) \cup Pairs(r)
  <2> HIDE DEF new
  <2> QED BY <1>3, <1>10, <1>18, <1>19, <1>24
<1> HIDE DEF new
<1> QED BY <1>22, <1>24, <1>25, <1>26, <1>27

\* What is beyond a node is beyond those on the node's other side.
LEMMA BetweenLeft ==
  ASSUME NEW k \in Key, NEW j \in Key, NEW d \in Chains, NEW l, NEW r,
         <<j, d>> \in Pairs(l), Above(l, k), Below(r, k)
  PROVE  j > k /\ Below(r, j)
<1>1. j > k /\ j \in Nat /\ k \in Nat
  BY AvlAssumption DEF Above, Below
<1>2. ASSUME NEW i \in Key, NEW e \in Chains, <<i, e>> \in Pairs(r) PROVE i < j
  <2>1. i \in Nat /\ i < k
    BY <1>2, AvlAssumption DEF Above, Below
  <2> QED BY <1>1, <2>1
<1> QED BY <1>1, <1>2 DEF Above, Below

\* One rotation to the left, when the right side is two higher and leans there, or not at all.
LEMMA SingleLeft ==
  ASSUME NEW k, NEW c, NEW l, NEW r, Fits(k, c, r, l), NEW h,
         height(l) = height(r) + 2, height(l) < MaxHeight, height(l.right) >= height(l.left)
  PROVE  \E new : /\ rotate_left(Raw(k, c, r, l, h)) = new
                  /\ Good(new) /\ new # Null
                  /\ Pairs(new) = {<<k, c>>} \cup Pairs(l) \cup Pairs(r)
                  /\ height(new) \in {height(l), height(l) + 1}
                  /\ height(l.right) # height(l.left) => height(new) = height(l)
<1> DEFINE j == l.key
           d == l.chain
           a == l.right
           b == l.left
           s == Root(k, c, r, b)
           new == Root(j, d, s, a)
<1>1. k \in Key /\ c \in Chains /\ Good(l) /\ Good(r) /\ Above(l, k) /\ Below(r, k)
  BY DEF Fits
<1>2. height(l) \in Nat /\ height(r) \in Nat /\ l # Null
  BY <1>1, GoodHeight, PairsAre
<1>3. /\ Fits(j, d, b, a) /\ l = Root(j, d, b, a) /\ height(b) - height(a) \in {-1, 0, 1}
      /\ Pairs(l) = {<<j, d>>} \cup Pairs(a) \cup Pairs(b)
  BY <1>1, <1>2, Dissect
<1> HIDE DEF j, d, a, b
<1>4. j \in Key /\ d \in Chains /\ Good(a) /\ Good(b) /\ Above(a, j) /\ Below(b, j)
  BY <1>3 DEF Fits
<1>5. height(a) \in Nat /\ height(b) \in Nat /\ MaxHeight \in Nat
  BY <1>4, GoodHeight, AvlAssumption
<1>6. height(l) = 1 + Bigger(height(b), height(a))
  BY <1>3, <1>5, RootHeight
<1>7. /\ height(a) = height(r) + 1 /\ height(b) \in {height(r), height(r) + 1}
      /\ height(a) >= height(b)
  <2>1. height(a) >= height(b)
    BY DEF a, b
  <2> QED BY <1>2, <1>3, <1>5, <1>6, <2>1 DEF Bigger
<1>8. Above(b, k)
  BY <1>1, <1>3 DEF Above, Below
<1>9. Fits(k, c, r, b)
  BY <1>1, <1>4, <1>8 DEF Fits
<1>10. Good(s) /\ Pairs(s) = {<<k, c>>} \cup Pairs(b) \cup Pairs(r)
  <2>1. height(r) - height(b) \in {-1, 0, 1}
    BY <1>2, <1>7
  <2>2. height(b) < MaxHeight /\ height(r) < MaxHeight
    BY <1>2, <1>5, <1>7
  <2> QED BY <1>9, <2>1, <2>2, Assemble
<1>11. height(s) = 1 + height(b) /\ height(s) \in Nat
  <2>1. height(s) = 1 + Bigger(height(r), height(b))
    BY <1>2, <1>5, RootHeight
  <2> HIDE DEF s
  <2> QED BY <1>2, <1>5, <1>7, <2>1 DEF Bigger
<1> HIDE DEF s
<1>12. Below(s, j)
  <2>1. j > k /\ Below(r, j)
    BY <1>1, <1>3, <1>4, BetweenLeft
  <2> QED BY <1>1, <1>4, <1>10, <2>1 DEF Above, Below
<1>13. Fits(j, d, s, a)
  BY <1>4, <1>10, <1>12 DEF Fits
<1>14. Good(new) /\ Pairs(new) = {<<j, d>>} \cup Pairs(a) \cup Pairs(s)
  <2>1. height(s) - height(a) \in {-1, 0, 1}
    BY <1>2, <1>7, <1>11
  <2>2. height(a) < MaxHeight /\ height(s) < MaxHeight
    BY <1>2, <1>5, <1>7, <1>11
  <2> QED BY <1>13, <2>1, <2>2, Assemble
<1>15. height(new) = 1 + Bigger(height(s), height(a))
  BY <1>5, <1>11, RootHeight
<1>16. rotate_left(Raw(k, c, r, l, h)) = new
  <2> DEFINE i == 1 + Bigger(height(b), height(a))
  <2>1. l = Raw(j, d, b, a, i)
    BY <1>3 DEF Root
  <2> HIDE DEF i
  <2>2. rotate_left(Raw(k, c, r, Raw(j, d, b, a, i), h)) = new
    BY <1>2, <1>5, RotateLeftIs DEF s
  <2> HIDE DEF new
  <2> QED BY <2>1, <2>2
<1>17. new # Null
  BY RawIs DEF Root
<1>18. Pairs(new) = {<<k, c>>} \cup Pairs(l) \cup Pairs(r)
  <2> HIDE DEF new
  <2> QED BY <1>3, <1>10, <1>14
<1>19. height(new) \in {height(l), height(l) + 1} /\ (height(a) # height(b) => height(new) = height(l))
  <2> HIDE DEF new
  <2> QED BY <1>2, <1>5, <1>7, <1>11, <1>15 DEF Bigger
<1> HIDE DEF new
<1>20. height(l.right) # height(l.left) => height(new) = height(l)
  BY <1>19 DEF a, b
<1> QED BY <1>14, <1>16, <1>17, <1>18, <1>19, <1>20

\* Two rotations, when it leans to the other side.
LEMMA DoubleLeft ==
  ASSUME NEW k, NEW c, NEW l, NEW r, Fits(k, c, r, l), NEW h,
         height(l) = height(r) + 2, height(l) < MaxHeight, height(l.right) < height(l.left)
  PROVE  \E new : /\ rotate_left([Raw(k, c, r, l, h) EXCEPT !.right = rotate_right(@)]) = new
                  /\ Good(new) /\ new # Null
                  /\ Pairs(new) = {<<k, c>>} \cup Pairs(l) \cup Pairs(r)
                  /\ height(new) = height(l)
<1> DEFINE j == l.key
           d == l.chain
           a == l.right
           b == l.left
           v == b.key
           w == b.chain
           x == b.right
           y == b.left
           p == Root(j, d, x, a)
           s == Root(k, c, r, y)
           new == Root(v, w, s, p)
<1>1. k \in Key /\ c \in Chains /\ Good(l) /\ Good(r) /\ Above(l, k) /\ Below(r, k)
  BY DEF Fits
<1>2. height(l) \in Nat /\ height(r) \in Nat /\ l # Null
  BY <1>1, GoodHeight, PairsAre
<1>3. /\ Fits(j, d, b, a) /\ l = Root(j, d, b, a) /\ height(b) - height(a) \in {-1, 0, 1}
      /\ Pairs(l) = {<<j, d>>} \cup Pairs(a) \cup Pairs(b)
  BY <1>1, <1>2, Dissect
<1>4. height(a) < height(b)
  OBVIOUS
<1> HIDE DEF j, d, a, b
<1>5. j \in Key /\ d \in Chains /\ Good(a) /\ Good(b) /\ Above(a, j) /\ Below(b, j)
  BY <1>3 DEF Fits
<1>6. height(a) \in Nat /\ height(b) \in Nat /\ MaxHeight \in Nat
  BY <1>5, GoodHeight, AvlAssumption
<1>7. height(l) = 1 + Bigger(height(b), height(a))
  BY <1>3, <1>6, RootHeight
<1>8. height(a) = height(r) /\ height(b) = height(r) + 1
  BY <1>2, <1>3, <1>4, <1>6, <1>7 DEF Bigger
<1>9. b # Null
  BY <1>2, <1>8, PairsAre
<1>10. /\ Fits(v, w, y, x) /\ b = Root(v, w, y, x) /\ height(y) - height(x) \in {-1, 0, 1}
       /\ Pairs(b) = {<<v, w>>} \cup Pairs(x) \cup Pairs(y)
  BY <1>5, <1>9, Dissect
<1> HIDE DEF v, w, x, y
<1>11. v \in Key /\ w \in Chains /\ Good(x) /\ Good(y) /\ Above(x, v) /\ Below(y, v)
  BY <1>10 DEF Fits
<1>12. height(x) \in Nat /\ height(y) \in Nat
  BY <1>11, GoodHeight
<1>13. height(b) = 1 + Bigger(height(y), height(x))
  BY <1>10, <1>12, RootHeight
<1>14. /\ height(x) <= height(r) /\ height(y) <= height(r)
       /\ height(x) >= height(r) - 1 /\ height(y) >= height(r) - 1
  BY <1>2, <1>8, <1>10, <1>12, <1>13 DEF Bigger
<1>15. \A q \in Key : q \in Nat
  BY AvlAssumption
<1>16. /\ Below(x, j) /\ v < j /\ Above(b, k)
  BY <1>1, <1>3, <1>5, <1>10, <1>11 DEF Above, Below
<1>17. Above(y, k) /\ v > k
  BY <1>10, <1>11, <1>16 DEF Above, Below
<1>18. Good(p) /\ Pairs(p) = {<<j, d>>} \cup Pairs(a) \cup Pairs(x)
  <2>1. Fits(j, d, x, a)
    BY <1>5, <1>11, <1>16 DEF Fits
  <2>2. height(x) - height(a) \in {-1, 0, 1}
    BY <1>2, <1>8, <1>12, <1>14
  <2>3. height(a) < MaxHeight /\ height(x) < MaxHeight
    BY <1>2, <1>6, <1>8, <1>12, <1>14
  <2> QED BY <2>1, <2>2, <2>3, Assemble
<1>19. Good(s) /\ Pairs(s) = {<<k, c>>} \cup Pairs(y) \cup Pairs(r)
  <2>1. Fits(k, c, r, y)
    BY <1>1, <1>11, <1>17 DEF Fits
  <2>2. height(r) - height(y) \in {-1, 0, 1}
    BY <1>2, <1>12, <1>14
  <2>3. height(y) < MaxHeight /\ height(r) < MaxHeight
    BY <1>2, <1>6, <1>12, <1>14
  <2> QED BY <2>1, <2>2, <2>3, Assemble
<1>20. height(p) = 1 + height(r) /\ height(s) = 1 + height(r)
  <2>1. height(p) = 1 + Bigger(height(x), height(a))
    BY <1>6, <1>12, RootHeight
  <2>2. height(s) = 1 + Bigger(height(r), height(y))
    BY <1>2, <1>12, RootHeight
  <2> HIDE DEF p, s
  <2> QED BY <1>2, <1>8, <1>12, <1>14, <2>1, <2>2 DEF Bigger
<1>21. rotate_right(l) = Root(v, w, y, p)
  <2> DEFINE i == 1 + Bigger(height(b), height(a))
             g == 1 + Bigger(height(y), height(x))
  <2>1. l = Raw(j, d, b, a, i)
    BY <1>3 DEF Root
  <2>2. b = Raw(v, w, y, x, g)
    BY <1>10 DEF Root
  <2> HIDE DEF i, g
  <2>3. \A q, z : rotate_right(Raw(j, d, Raw(v, w, y, x, q), a, z)) = Root(v, w, y, p)
    BY <1>6, <1>12, RotateRightIs
  <2> HIDE DEF p
  <2> QED BY <2>1, <2>2, <2>3
<1> HIDE DEF p, s
<1>22. rotate_left([Raw(k, c, r, l, h) EXCEPT !.right = rotate_right(@)]) = new
  <2> DEFINE t == Raw(k, c, r, l, h)
             u == Root(v, w, y, p)
  <2>1. t.right = l
    BY RawIs
  <2>2. [t EXCEPT !.right = u] = Raw(k, c, r, u, h)
    <3> HIDE DEF u
    <3> QED BY DEF Raw
  <2>3. [t EXCEPT !.right = rotate_right(@)] = Raw(k, c, r, u, h)
    <3> HIDE DEF t, u
    <3>1. rotate_right(t.right) = u
      BY <1>21, <2>1 DEF u
    <3> QED BY <2>2, <3>1
  <2>4. \A q : rotate_left(Raw(k, c, r, Raw(v, w, y, p, q), h)) = new
    <3>1. height(p) \in Nat
      BY <1>2, <1>20
    <3> QED BY <1>2, <1>12, <3>1, RotateLeftIs DEF s
  <2>5. rotate_left(Raw(k, c, r, u, h)) = new
    <3> HIDE DEF new
    <3> QED BY <2>4 DEF Root
  <2> HIDE DEF t, u, new
  <2>6. rotate_left([t EXCEPT !.right = rotate_right(@)]) = new
    BY <2>3, <2>5
  <2> QED BY <2>6 DEF t
<1>23. Below(s, v) /\ Above(p, v)
  <2>1. Above(a, v)
    <3> SUFFICES ASSUME NEW i \in Key, NEW e \in Chains, <<i, e>> \in Pairs(a) PROVE i > v
      BY DEF Above, Below
    <3>1. i > j
      BY <1>5 DEF Above, Below
    <3> QED BY <1>5, <1>11, <1>15, <1>16, <3>1
  <2>2. Above(p, v)
    BY <1>11, <1>16, <1>18, <2>1 DEF Above, Below
  <2>3. Below(r, v)
    <3> SUFFICES ASSUME NEW i \in Key, NEW e \in Chains, <<i, e>> \in Pairs(r) PROVE i < v
      BY DEF Above, Below
    <3>1. i < k
      BY <1>1 DEF Above, Below
    <3> QED BY <1>1, <1>11, <1>15, <1>17, <3>1
  <2>4. Below(s, v)
    BY <1>11, <1>17, <1>19, <2>3 DEF Above, Below
  <2> QED BY <2>2, <2>4
<1>24. Good(new) /\ Pairs(new) = {<<v, w>>} \cup Pairs(p) \cup Pairs(s)
  <2>1. Fits(v, w, s, p)
    BY <1>11, <1>18, <1>19, <1>23 DEF Fits
  <2>2. height(s) - height(p) \in {-1, 0, 1}
    BY <1>2, <1>20
  <2>3. height(p) < MaxHeight /\ height(s) < MaxHeight
    BY <1>2, <1>6, <1>20
  <2> QED BY <2>1, <2>2, <2>3, Assemble
<1>25. height(new) = height(l)
  <2>1. height(new) = 1 + Bigger(height(s), height(p))
    BY <1>2, <1>20, RootHeight
  <2> HIDE DEF new
  <2> QED BY <1>2, <1>20, <2>1 DEF Bigger
<1>26. new # Null
  BY RawIs DEF Root
<1>27. Pairs(new) = {<<k, c>>} \cup Pairs(l) \cup Pairs(r)
  <2> HIDE DEF new
  <2> QED BY <1>3, <1>10, <1>18, <1>19, <1>24
<1> HIDE DEF new
<1> QED BY <1>22, <1>24, <1>25, <1>26, <1>27

\* remove_node's rebalancing, of branches whose heights differ by two at most.
LEMMA RefitIs ==
  ASSUME NEW k, NEW c, NEW l, NEW r, Fits(k, c, l, r), NEW h,
         height(l) - height(r) \in {-2, -1, 0, 1, 2}, height(l) < MaxHeight, height(r) < MaxHeight
  PROVE  \E new : /\ Refit(Raw(k, c, l, r, h)) = new
                  /\ Good(new)
                  /\ Pairs(new) = {<<k, c>>} \cup Pairs(l) \cup Pairs(r)
                  /\ height(new) \in {Bigger(height(l), height(r)), 1 + Bigger(height(l), height(r))}
                  /\ height(l) - height(r) \in {-1, 0, 1} =>
                       height(new) = 1 + Bigger(height(l), height(r))
<1> DEFINE h1 == 1 + Bigger(height(l), height(r))
           t == Raw(k, c, l, r, h1)
<1>1. Good(l) /\ Good(r) /\ height(l) \in Nat /\ height(r) \in Nat
  BY GoodHeight DEF Fits
<1>2. Refit(Raw(k, c, l, r, h)) = RemoveBalance(t)
  BY <1>1, CalcIs DEF Refit, Root
<1>3. t.left = l /\ t.right = r
  <2> HIDE DEF h1
  <2> QED BY RawIs
<1>4. balance(t) = height(l) - height(r)
  <2> HIDE DEF t
  <2> QED BY <1>3 DEF balance
<1>5. CASE height(l) - height(r) \in {-1, 0, 1}
  <2>1. RemoveBalance(t) = Root(k, c, l, r)
    <3>1. ~(balance(t) > 1) /\ ~(balance(t) < -1)
      <4> HIDE DEF t
      <4> QED BY <1>1, <1>4, <1>5
    <3>2. RemoveBalance(t) = t
      <4> HIDE DEF t
      <4> QED BY <3>1 DEF RemoveBalance
    <3> QED BY <3>2 DEF Root
  <2>2. /\ Good(Root(k, c, l, r))
        /\ Pairs(Root(k, c, l, r)) = {<<k, c>>} \cup Pairs(l) \cup Pairs(r)
    BY <1>5, Assemble
  <2>3. height(Root(k, c, l, r)) = 1 + Bigger(height(l), height(r))
    BY <1>1, RootHeight
  <2> HIDE DEF t, h1
  <2> QED BY <1>2, <2>1, <2>2, <2>3
<1>6. CASE height(l) = height(r) + 2
  <2>1. balance(t) > 1 /\ Bigger(height(l), height(r)) = height(l)
    <3> HIDE DEF t
    <3> QED BY <1>1, <1>4, <1>6 DEF Bigger
  <2>2. l # Null
    BY <1>1, <1>6, PairsAre
  <2>3. height(l.left) \in Nat /\ height(l.right) \in Nat
    <3>1. Good(l.left) /\ Good(l.right)
      BY <1>1, <2>2, Dissect DEF Fits
    <3> QED BY <3>1, GoodHeight
  <2>4. RemoveBalance(t) = rotate_right(IF balance(l) < 0 THEN [t EXCEPT !.left = rotate_left(@)] ELSE t)
    <3> HIDE DEF t
    <3> QED BY <1>3, <2>1 DEF RemoveBalance
  <2>5. CASE height(l.left) >= height(l.right)
    <3>1. ~(balance(l) < 0)
      BY <2>3, <2>5 DEF balance
    <3>2. RemoveBalance(t) = rotate_right(t)
      BY <2>4, <3>1
    <3>3. PICK new : /\ rotate_right(t) = new /\ Good(new)
                     /\ Pairs(new) = {<<k, c>>} \cup Pairs(l) \cup Pairs(r)
                     /\ height(new) \in {height(l), height(l) + 1}
      <4> HIDE DEF h1
      <4> QED BY <1>6, <2>5, SingleRight
    <3> HIDE DEF t
    <3> QED BY <1>1, <1>2, <1>6, <2>1, <3>2, <3>3
  <2>6. CASE height(l.left) < height(l.right)
    <3>1. balance(l) < 0
      BY <2>3, <2>6 DEF balance
    <3>2. RemoveBalance(t) = rotate_right([t EXCEPT !.left = rotate_left(@)])
      BY <2>4, <3>1
    <3>3. PICK new : /\ rotate_right([t EXCEPT !.left = rotate_left(@)]) = new /\ Good(new)
                     /\ Pairs(new) = {<<k, c>>} \cup Pairs(l) \cup Pairs(r)
                     /\ height(new) = height(l)
      <4> HIDE DEF h1
      <4> QED BY <1>6, <2>6, DoubleRight
    <3> HIDE DEF t
    <3> QED BY <1>1, <1>2, <1>6, <2>1, <3>2, <3>3
  <2> QED BY <2>3, <2>5, <2>6
<1>7. CASE height(r) = height(l) + 2
  <2>1. balance(t) < -1 /\ ~(balance(t) > 1) /\ Bigger(height(l), height(r)) = height(r)
    <3> HIDE DEF t
    <3> QED BY <1>1, <1>4, <1>7 DEF Bigger
  <2>2. r # Null
    BY <1>1, <1>7, PairsAre
  <2>3. height(r.left) \in Nat /\ height(r.right) \in Nat
    <3>1. Good(r.left) /\ Good(r.right)
      BY <1>1, <2>2, Dissect DEF Fits
    <3> QED BY <3>1, GoodHeight
  <2>4. RemoveBalance(t) = rotate_left(IF balance(r) > 0 THEN [t EXCEPT !.right = rotate_right(@)] ELSE t)
    <3> HIDE DEF t
    <3> QED BY <1>3, <2>1 DEF RemoveBalance
  <2>5. CASE height(r.right) >= height(r.left)
    <3>1. ~(balance(r) > 0)
      BY <2>3, <2>5 DEF balance
    <3>2. RemoveBalance(t) = rotate_left(t)
      BY <2>4, <3>1
    <3>3. PICK new : /\ rotate_left(t) = new /\ Good(new)
                     /\ Pairs(new) = {<<k, c>>} \cup Pairs(l) \cup Pairs(r)
                     /\ height(new) \in {height(r), height(r) + 1}
      <4> HIDE DEF h1
      <4>1. \E new : /\ rotate_left(t) = new /\ Good(new)
                     /\ Pairs(new) = {<<k, c>>} \cup Pairs(r) \cup Pairs(l)
                     /\ height(new) \in {height(r), height(r) + 1}
        BY <1>7, <2>5, SingleLeft
      <4> HIDE DEF t
      <4> QED BY <4>1
    <3> HIDE DEF t
    <3> QED BY <1>1, <1>2, <1>7, <2>1, <3>2, <3>3
  <2>6. CASE height(r.right) < height(r.left)
    <3>1. balance(r) > 0
      BY <2>3, <2>6 DEF balance
    <3>2. RemoveBalance(t) = rotate_left([t EXCEPT !.right = rotate_right(@)])
      BY <2>4, <3>1
    <3>3. PICK new : /\ rotate_left([t EXCEPT !.right = rotate_right(@)]) = new /\ Good(new)
                     /\ Pairs(new) = {<<k, c>>} \cup Pairs(l) \cup Pairs(r)
                     /\ height(new) = height(r)
      <4> HIDE DEF h1
      <4>1. \E new : /\ rotate_left([t EXCEPT !.right = rotate_right(@)]) = new /\ Good(new)
                     /\ Pairs(new) = {<<k, c>>} \cup Pairs(r) \cup Pairs(l)
                     /\ height(new) = height(r)
        BY <1>7, <2>6, DoubleLeft
      <4> HIDE DEF t
      <4> QED BY <4>1
    <3> HIDE DEF t
    <3> QED BY <1>1, <1>2, <1>7, <2>1, <3>2, <3>3
  <2> QED BY <2>3, <2>5, <2>6
<1>8. height(l) - height(r) \in {-1, 0, 1} \/ height(l) = height(r) + 2 \/ height(r) = height(l) + 2
  BY <1>1
<1> QED BY <1>5, <1>6, <1>7, <1>8

\* A tree that has grown leans to where the new key is.
Leans(t, key) ==
  \/ key < t.key /\ height(t.left) = height(t.right) + 1
  \/ key > t.key /\ height(t.right) = height(t.left) + 1

\* insert's rebalancing, after a branch has grown by one.
LEMMA InsertBalanceIs ==
  ASSUME NEW k, NEW c, NEW l, NEW r, Fits(k, c, l, r), NEW h, NEW key \in Key,
         height(l) - height(r) \in {-2, -1, 0, 1, 2}, height(l) < MaxHeight, height(r) < MaxHeight,
         height(l) = height(r) + 2 => Leans(l, key),
         height(r) = height(l) + 2 => Leans(r, key)
  PROVE  \E new : /\ InsertBalance(calc_height(Raw(k, c, l, r, h)), key) = new
                  /\ Good(new) /\ new # Null
                  /\ Pairs(new) = {<<k, c>>} \cup Pairs(l) \cup Pairs(r)
                  /\ \/ /\ height(l) - height(r) \in {-1, 0, 1} /\ new = Root(k, c, l, r)
                        /\ height(new) = 1 + Bigger(height(l), height(r))
                     \/ /\ height(l) - height(r) \in {-2, 2}
                        /\ height(new) = Bigger(height(l), height(r))
<1> DEFINE h1 == 1 + Bigger(height(l), height(r))
           t == Raw(k, c, l, r, h1)
<1>1. Good(l) /\ Good(r) /\ height(l) \in Nat /\ height(r) \in Nat /\ key \in Nat
  BY GoodHeight, AvlAssumption DEF Fits
<1>2. calc_height(Raw(k, c, l, r, h)) = t
  BY <1>1, CalcIs DEF Root
<1>3. t.left = l /\ t.right = r
  <2> HIDE DEF h1
  <2> QED BY RawIs
<1>4. balance(t) = height(l) - height(r)
  <2> HIDE DEF t
  <2> QED BY <1>3 DEF balance
<1>5. CASE height(l) - height(r) \in {-1, 0, 1}
  <2>1. InsertBalance(t, key) = Root(k, c, l, r)
    <3>1. ~(balance(t) > 1) /\ ~(balance(t) < -1)
      <4> HIDE DEF t
      <4> QED BY <1>1, <1>4, <1>5
    <3>2. InsertBalance(t, key) = t
      <4> HIDE DEF t
      <4> QED BY <3>1 DEF InsertBalance
    <3> QED BY <3>2 DEF Root
  <2>2. /\ Good(Root(k, c, l, r))
        /\ Pairs(Root(k, c, l, r)) = {<<k, c>>} \cup Pairs(l) \cup Pairs(r)
    BY <1>5, Assemble
  <2>3. height(Root(k, c, l, r)) = 1 + Bigger(height(l), height(r)) /\ Root(k, c, l, r) # Null
    BY <1>1, RootHeight, RawIs DEF Root
  <2> HIDE DEF t, h1
  <2> QED BY <1>2, <1>5, <2>1, <2>2, <2>3
<1>6. CASE height(l) = height(r) + 2
  <2>1. balance(t) > 1 /\ Bigger(height(l), height(r)) = height(l) /\ height(l) - height(r) = 2
    <3> HIDE DEF t
    <3> QED BY <1>1, <1>4, <1>6 DEF Bigger
  <2>2. l # Null
    BY <1>1, <1>6, PairsAre
  <2>3. height(l.left) \in Nat /\ height(l.right) \in Nat /\ l.key \in Nat
    <3>1. Good(l.left) /\ Good(l.right) /\ l.key \in Key
      BY <1>1, <2>2, Dissect DEF Fits
    <3> QED BY <3>1, GoodHeight, AvlAssumption
  <2>4. InsertBalance(t, key) = rotate_right(IF key > l.key THEN [t EXCEPT !.left = rotate_left(@)] ELSE t)
    <3> HIDE DEF t
    <3> QED BY <1>3, <2>1 DEF InsertBalance
  <2>5. CASE key < l.key /\ height(l.left) = height(l.right) + 1
    <3>1. height(l.left) >= height(l.right) /\ height(l.left) # height(l.right) /\ ~(key > l.key)
      BY <1>1, <2>3, <2>5
    <3>2. InsertBalance(t, key) = rotate_right(t)
      BY <2>4, <3>1
    <3>3. PICK new : /\ rotate_right(t) = new /\ Good(new) /\ new # Null
                     /\ Pairs(new) = {<<k, c>>} \cup Pairs(l) \cup Pairs(r)
                     /\ height(new) = height(l)
      <4> HIDE DEF h1
      <4> QED BY <1>6, <3>1, SingleRight
    <3> HIDE DEF t
    <3> QED BY <1>2, <2>1, <3>2, <3>3
  <2>6. CASE key > l.key /\ height(l.right) = height(l.left) + 1
    <3>1. height(l.left) < height(l.right)
      BY <2>3, <2>6
    <3>2. InsertBalance(t, key) = rotate_right([t EXCEPT !.left = rotate_left(@)])
      BY <2>4, <2>6
    <3>3. PICK new : /\ rotate_right([t EXCEPT !.left = rotate_left(@)]) = new /\ Good(new) /\ new # Null
                     /\ Pairs(new) = {<<k, c>>} \cup Pairs(l) \cup Pairs(r)
                     /\ height(new) = height(l)
      <4> HIDE DEF h1
      <4> QED BY <1>6, <3>1, DoubleRight
    <3> HIDE DEF t
    <3> QED BY <1>2, <2>1, <3>2, <3>3
  <2> QED BY <1>6, <2>5, <2>6 DEF Leans
<1>7. CASE height(r) = height(l) + 2
  <2>1. /\ balance(t) < -1 /\ ~(balance(t) > 1) /\ Bigger(height(l), height(r)) = height(r)
        /\ height(l) - height(r) = -2
    <3> HIDE DEF t
    <3> QED BY <1>1, <1>4, <1>7 DEF Bigger
  <2>2. r # Null
    BY <1>1, <1>7, PairsAre
  <2>3. height(r.left) \in Nat /\ height(r.right) \in Nat /\ r.key \in Nat
    <3>1. Good(r.left) /\ Good(r.right) /\ r.key \in Key
      BY <1>1, <2>2, Dissect DEF Fits
    <3> QED BY <3>1, GoodHeight, AvlAssumption
  <2>4. InsertBalance(t, key) = rotate_left(IF key < r.key THEN [t EXCEPT !.right = rotate_right(@)] ELSE t)
    <3> HIDE DEF t
    <3> QED BY <1>3, <2>1 DEF InsertBalance
  <2>5. CASE key > r.key /\ height(r.right) = height(r.left) + 1
    <3>1. height(r.right) >= height(r.left) /\ height(r.right) # height(r.left) /\ ~(key < r.key)
      BY <1>1, <2>3, <2>5
    <3>2. InsertBalance(t, key) = rotate_left(t)
      BY <2>4, <3>1
    <3>3. PICK new : /\ rotate_left(t) = new /\ Good(new) /\ new # Null
                     /\ Pairs(new) = {<<k, c>>} \cup Pairs(r) \cup Pairs(l)
                     /\ height(new) = height(r)
      <4> HIDE DEF h1
      <4> QED BY <1>7, <3>1, SingleLeft
    <3> HIDE DEF t
    <3> QED BY <1>2, <2>1, <3>2, <3>3
  <2>6. CASE key < r.key /\ height(r.left) = height(r.right) + 1
    <3>1. height(r.right) < height(r.left)
      BY <2>3, <2>6
    <3>2. InsertBalance(t, key) = rotate_left([t EXCEPT !.right = rotate_right(@)])
      BY <2>4, <2>6
    <3>3. PICK new : /\ rotate_left([t EXCEPT !.right = rotate_right(@)]) = new /\ Good(new) /\ new # Null
                     /\ Pairs(new) = {<<k, c>>} \cup Pairs(r) \cup Pairs(l)
                     /\ height(new) = height(r)
      <4> HIDE DEF h1
      <4> QED BY <1>7, <3>1, DoubleLeft
    <3> HIDE DEF t
    <3> QED BY <1>2, <2>1, <3>2, <3>3
  <2> QED BY <1>7, <2>5, <2>6 DEF Leans
<1>8. height(l) - height(r) \in {-1, 0, 1} \/ height(l) = height(r) + 2 \/ height(r) = height(l) + 2
  BY <1>1
<1> QED BY <1>5, <1>6, <1>7, <1>8
-----------------------------------------------------------------------------
(* The tree: insertion *)

\* What insert makes of t: the node hangs on its key, and the tree may have grown by one.
Hangs(t, u, key, n) ==
  \/ /\ \A e \in Chains : <<key, e>> \notin Pairs(t)
     /\ Pairs(u) = Pairs(t) \cup {<<key, <<n>>>>}
  \/ \E e \in Chains : /\ <<key, e>> \in Pairs(t)
                       /\ Pairs(u) = (Pairs(t) \ {<<key, e>>}) \cup {<<key, Chained(e, n)>>}

Inserted(t, u, key, n) ==
  /\ Good(u) /\ u # Null
  /\ height(u) \in {height(t), height(t) + 1}
  /\ Hangs(t, u, key, n)
  /\ height(u) = height(t) + 1 /\ t # Null => Leans(u, key)

\* A chain with another node is one.
LEMMA ChainedIn ==
  ASSUME NEW c \in Chains, NEW n \in Nat
  PROVE  Chained(c, n) \in Chains
<1>1. c \in Seq(Nat) /\ c # <<>>
  BY DEF Chains
<1>2. Head(c) \in Nat /\ Tail(c) \in Seq(Nat)
  BY <1>1
<1>3. <<Head(c), n>> \in Seq(Nat) /\ Len(<<Head(c), n>>) = 2
  BY <1>2
<1>4. /\ <<Head(c), n>> \o Tail(c) \in Seq(Nat)
      /\ Len(<<Head(c), n>> \o Tail(c)) = 2 + Len(Tail(c))
  BY <1>2, <1>3
<1>5. Chained(c, n) \in Seq(Nat) /\ Len(Chained(c, n)) # 0
  BY <1>2, <1>4 DEF Chained
<1>6. Chained(c, n) # <<>>
  BY <1>5
<1> QED BY <1>5, <1>6 DEF Chains

\* What hangs on a branch hangs on the tree, whose other nodes have other keys.
LEMMA HangsWith ==
  ASSUME NEW t, NEW u, NEW l, NEW v, NEW key, NEW n, NEW R,
         Pairs(t) = R \cup Pairs(l), Pairs(u) = R \cup Pairs(v),
         \A e \in Chains : <<key, e>> \notin R,
         Hangs(l, v, key, n)
  PROVE  Hangs(t, u, key, n)
<1>1. CASE /\ \A e \in Chains : <<key, e>> \notin Pairs(l)
           /\ Pairs(v) = Pairs(l) \cup {<<key, <<n>>>>}
  BY <1>1 DEF Hangs
<1>2. CASE \E e \in Chains :
              /\ <<key, e>> \in Pairs(l)
              /\ Pairs(v) = (Pairs(l) \ {<<key, e>>}) \cup {<<key, Chained(e, n)>>}
  <2>1. PICK e \in Chains :
              /\ <<key, e>> \in Pairs(l)
              /\ Pairs(v) = (Pairs(l) \ {<<key, e>>}) \cup {<<key, Chained(e, n)>>}
    BY <1>2
  <2>2. <<key, e>> \in Pairs(t) /\ <<key, e>> \notin R
    BY <2>1
  <2>3. Pairs(u) = (Pairs(t) \ {<<key, e>>}) \cup {<<key, Chained(e, n)>>}
    BY <2>1, <2>2
  <2> QED BY <2>2, <2>3 DEF Hangs
<1> QED BY <1>1, <1>2 DEF Hangs

\* The keys of a tree stay on their side.
LEMMA HangsBetween ==
  ASSUME NEW l, NEW v, NEW key \in Key, NEW n, Hangs(l, v, key, n), Good(l), NEW k \in Key
  PROVE  /\ Below(l, k) /\ key < k => Below(v, k)
         /\ Above(l, k) /\ key > k => Above(v, k)
<1>1. ASSUME NEW j \in Key, NEW c \in Chains, <<j, c>> \in Pairs(v), j # key
      PROVE  <<j, c>> \in Pairs(l)
  <2>1. CASE Pairs(v) = Pairs(l) \cup {<<key, <<n>>>>}
    BY <1>1, <2>1
  <2>2. CASE \E e \in Chains : Pairs(v) = (Pairs(l) \ {<<key, e>>}) \cup {<<key, Chained(e, n)>>}
    <3>1. PICK e \in Chains : Pairs(v) = (Pairs(l) \ {<<key, e>>}) \cup {<<key, Chained(e, n)>>}
      BY <2>2
    <3> DEFINE d == Chained(e, n)
    <3> HIDE DEF d
    <3>2. Pairs(v) = (Pairs(l) \ {<<key, e>>}) \cup {<<key, d>>}
      BY <3>1 DEF d
    <3> QED BY <1>1, <3>2
  <2> QED BY <2>1, <2>2 DEF Hangs
<1> QED BY <1>1 DEF Below, Above

\* Insertion into no tree makes a leaf.
LEMMA InsertNull ==
  ASSUME NEW key \in Key, NEW n \in Nat, 0 < MaxHeight
  PROVE  Inserted(Null, insert(Null, key, n), key, n)
<1>1. Good(Null) /\ Pairs(Null) = {} /\ height(Null) = 0 /\ Null \in Tree
  BY PairsAre, InTree
<1>2. insert(Null, key, n) = Root(key, <<n>>, Null, Null)
  <2>1. insert(Null, key, n) = Leaf(key, n)
    BY <1>1, InsertIs
  <2>2. 1 + Bigger(0, 0) = 1
    BY DEF Bigger
  <2> QED BY <1>1, <2>1, <2>2 DEF Leaf, Root, Raw
<1>3. <<n>> \in Chains
  <2>1. <<n>> \in Seq(Nat) /\ <<n>> # <<>>
    OBVIOUS
  <2> QED BY <2>1 DEF Chains
<1>4. Fits(key, <<n>>, Null, Null)
  BY <1>1, <1>3 DEF Fits, Below, Above
<1>5. /\ Good(Root(key, <<n>>, Null, Null))
      /\ Pairs(Root(key, <<n>>, Null, Null)) = {<<key, <<n>>>>}
  BY <1>1, <1>4, Assemble
<1>6. height(Root(key, <<n>>, Null, Null)) = 1 /\ Root(key, <<n>>, Null, Null) # Null
  <2>1. 1 + Bigger(0, 0) = 1
    BY DEF Bigger
  <2> QED BY <1>1, <2>1, RawIs DEF Root
<1>7. Hangs(Null, Root(key, <<n>>, Null, Null), key, n)
  BY <1>1, <1>5 DEF Hangs
<1> QED BY <1>1, <1>2, <1>5, <1>6, <1>7 DEF Inserted

\* Insertion at the root's own key lengthens its chain.
LEMMA InsertHere ==
  ASSUME NEW t, Good(t), t # Null, NEW n \in Nat
  PROVE  Inserted(t, insert(t, t.key, n), t.key, n)
<1> DEFINE k == t.key
           c == t.chain
           l == t.left
           r == t.right
<1>1. /\ t \in Tree /\ Fits(k, c, l, r) /\ t = Root(k, c, l, r)
      /\ height(l) - height(r) \in {-1, 0, 1}
      /\ Pairs(t) = {<<k, c>>} \cup Pairs(l) \cup Pairs(r)
  BY Dissect
<1> HIDE DEF k, c, l, r
<1>2. k \in Key /\ c \in Chains /\ Good(l) /\ Good(r) /\ Below(l, k) /\ Above(r, k) /\ k \in Nat
  BY <1>1, AvlAssumption DEF Fits
<1>3. height(l) \in Nat /\ height(r) \in Nat /\ height(t) <= MaxHeight
  BY <1>2, GoodHeight
<1>4. height(t) = 1 + Bigger(height(l), height(r))
  BY <1>1, <1>3, RootHeight
<1>5. height(l) < MaxHeight /\ height(r) < MaxHeight
  BY <1>3, <1>4, AvlAssumption DEF Bigger
<1>6. Chained(c, n) \in Chains
  BY <1>2, ChainedIn
<1> DEFINE u == Root(k, Chained(c, n), l, r)
<1>7. insert(t, k, n) = u
  <2>1. insert(t, k, n) = [t EXCEPT !.chain = Chained(@, n)]
    <3>1. t.key = k /\ ~(k < k) /\ ~(k > k)
      BY <1>2 DEF k
    <3>2. insert(t, k, n) =
            IF t = Null THEN Leaf(k, n)
            ELSE IF k < t.key
            THEN InsertBalance(calc_height([t EXCEPT !.left = insert(t.left, k, n)]), k)
            ELSE IF k > t.key
            THEN InsertBalance(calc_height([t EXCEPT !.right = insert(t.right, k, n)]), k)
            ELSE [t EXCEPT !.chain = Chained(@, n)]
      BY <1>1, InsertIs
    <3> QED BY <3>1, <3>2
  <2>2. t.chain = c
    BY DEF c
  <2>3. [t EXCEPT !.chain = Chained(c, n)] = u
    <3> DEFINE h == 1 + Bigger(height(l), height(r))
               d == Chained(c, n)
    <3> HIDE DEF h, d
    <3>1. t = Raw(k, c, l, r, h)
      BY <1>1 DEF Root, h
    <3>2. [t EXCEPT !.chain = d] = Raw(k, d, l, r, h)
      BY <3>1, RawIs
    <3> QED BY <3>2 DEF Root, h, d
  <2> HIDE DEF u
  <2> QED BY <2>1, <2>2, <2>3
<1>8. Fits(k, Chained(c, n), l, r)
  BY <1>2, <1>6 DEF Fits
<1>9. Good(u) /\ Pairs(u) = {<<k, Chained(c, n)>>} \cup Pairs(l) \cup Pairs(r)
  BY <1>1, <1>5, <1>8, Assemble
<1>10. height(u) = height(t) /\ u # Null
  BY <1>3, <1>4, RootHeight, RawIs DEF Root
<1>11. \A e \in Chains : <<k, e>> \notin Pairs(l) /\ <<k, e>> \notin Pairs(r)
  <2>1. ~(k < k) /\ ~(k > k)
    BY <1>2
  <2> QED BY <1>2, <2>1 DEF Below, Above
<1> HIDE DEF u
<1>12. Pairs(u) = (Pairs(t) \ {<<k, c>>}) \cup {<<k, Chained(c, n)>>} /\ <<k, c>> \in Pairs(t)
  BY <1>1, <1>2, <1>9, <1>11
<1>13. Hangs(t, u, k, n)
  BY <1>2, <1>12 DEF Hangs
<1>14. height(u) \in {height(t), height(t) + 1} /\ height(u) # height(t) + 1
  BY <1>3, <1>10, GoodHeight
<1>15. Inserted(t, u, k, n)
  BY <1>9, <1>10, <1>13, <1>14 DEF Inserted
<1> QED BY <1>7, <1>15 DEF k

\* Insertion on the left: the branch is no lower than before, and grows by one at most.
LEMMA InsertLeft ==
  ASSUME NEW t, Good(t), t # Null, NEW key \in Key, NEW n \in Nat, key < t.key,
         height(t) < MaxHeight,
         Inserted(t.left, insert(t.left, key, n), key, n)
  PROVE  Inserted(t, insert(t, key, n), key, n)
<1> DEFINE k == t.key
           c == t.chain
           l == t.left
           r == t.right
           v == insert(l, key, n)
           h == 1 + Bigger(height(l), height(r))
<1>1. /\ t \in Tree /\ Fits(k, c, l, r) /\ t = Root(k, c, l, r)
      /\ height(l) - height(r) \in {-1, 0, 1}
      /\ Pairs(t) = {<<k, c>>} \cup Pairs(l) \cup Pairs(r)
  BY Dissect
<1>2. t.key = k /\ key < k /\ Inserted(l, v, key, n)
  OBVIOUS
<1>3. insert(t, key, n) = InsertBalance(calc_height([t EXCEPT !.left = v]), key)
  <2>1. key \in Nat /\ t.key \in Nat
    <3> HIDE DEF c, l, r, v, h
    <3> QED BY <1>1, AvlAssumption DEF Fits
  <2>2. key < t.key /\ ~(key > t.key)
    BY <2>1
  <2> QED BY <1>1, <2>2, InsertIs
<1> HIDE DEF k, c, l, r, v, h
<1>4. k \in Key /\ c \in Chains /\ Good(l) /\ Good(r) /\ Below(l, k) /\ Above(r, k) /\ k \in Nat /\ key \in Nat
  BY <1>1, AvlAssumption DEF Fits
<1>5. height(l) \in Nat /\ height(r) \in Nat /\ height(t) = 1 + Bigger(height(l), height(r))
  BY <1>1, <1>4, GoodHeight, RootHeight
<1>6. height(l) + 1 < MaxHeight /\ height(r) + 1 < MaxHeight
  BY <1>5, AvlAssumption DEF Bigger
<1>7. /\ Good(v) /\ v # Null /\ height(v) \in {height(l), height(l) + 1} /\ Hangs(l, v, key, n)
      /\ height(v) = height(l) + 1 /\ l # Null => Leans(v, key)
  BY <1>2 DEF Inserted
<1>8. Fits(k, c, v, r)
  <2>1. Below(v, k)
    BY <1>2, <1>4, <1>7, HangsBetween
  <2> QED BY <1>4, <1>7, <2>1 DEF Fits
<1>9. [t EXCEPT !.left = v] = Raw(k, c, v, r, h)
  <2>1. t = Raw(k, c, l, r, h)
    BY <1>1 DEF Root, h
  <2> QED BY <2>1, RawIs
<1>10. /\ height(v) \in Nat /\ height(v) < MaxHeight /\ height(r) < MaxHeight
       /\ height(v) - height(r) \in {-1, 0, 1, 2}
       /\ height(v) = height(r) + 2 => height(v) = height(l) + 1 /\ height(l) # 0
       /\ height(r) # height(v) + 2
  <2>1. MaxHeight \in Nat
    BY AvlAssumption
  <2> QED BY <1>1, <1>5, <1>6, <1>7, <2>1
<1>11. /\ height(v) = height(r) + 2 => Leans(v, key)
       /\ height(v) - height(r) \in {-2, -1, 0, 1, 2}
  <2>1. l = Null => height(l) = 0
    BY PairsAre
  <2> QED BY <1>7, <1>10, <2>1
<1>12. PICK u : /\ InsertBalance(calc_height(Raw(k, c, v, r, h)), key) = u
                /\ Good(u) /\ u # Null
                /\ Pairs(u) = {<<k, c>>} \cup Pairs(v) \cup Pairs(r)
                /\ \/ /\ height(v) - height(r) \in {-1, 0, 1} /\ u = Root(k, c, v, r)
                      /\ height(u) = 1 + Bigger(height(v), height(r))
                   \/ /\ height(v) - height(r) \in {-2, 2}
                      /\ height(u) = Bigger(height(v), height(r))
  BY <1>8, <1>10, <1>11, InsertBalanceIs
<1>13. Hangs(t, u, key, n)
  <2> DEFINE R == {<<k, c>>} \cup Pairs(r)
  <2>1. \A e \in Chains : <<key, e>> \notin R
    <3>1. key # k /\ ~(key > k)
      BY <1>2, <1>4
    <3> QED BY <1>4, <3>1 DEF Above
  <2>2. Pairs(t) = R \cup Pairs(l) /\ Pairs(u) = R \cup Pairs(v)
    BY <1>1, <1>12
  <2> HIDE DEF R
  <2> QED BY <1>7, <2>1, <2>2, HangsWith
<1>14. /\ height(u) \in {height(t), height(t) + 1}
       /\ height(u) = height(t) + 1 => height(v) = height(r) + 1 /\ u = Root(k, c, v, r)
  <2>1. PICK i \in Nat, j \in Nat, g \in Nat : i = height(l) /\ j = height(r) /\ g = height(v)
    BY <1>5, <1>10
  <2>2. i - j \in {-1, 0, 1} /\ g \in {i, i + 1}
    BY <1>1, <1>7, <2>1
  <2>3. CASE g - j \in {-1, 0, 1} /\ u = Root(k, c, v, r) /\ height(u) = 1 + Bigger(g, j)
    BY <1>5, <2>1, <2>2, <2>3 DEF Bigger
  <2>4. CASE g - j \in {-2, 2} /\ height(u) = Bigger(g, j)
    BY <1>5, <2>1, <2>2, <2>4 DEF Bigger
  <2> QED BY <1>12, <2>1, <2>3, <2>4
<1>15. height(u) = height(t) + 1 => Leans(u, key)
  <2>1. Root(k, c, v, r).key = k /\ Root(k, c, v, r).left = v /\ Root(k, c, v, r).right = r
    BY RawIs DEF Root
  <2> QED BY <1>2, <1>14, <2>1 DEF Leans
<1>16. Inserted(t, u, key, n)
  BY <1>12, <1>13, <1>14, <1>15 DEF Inserted
<1> QED BY <1>3, <1>9, <1>12, <1>16 DEF v

\* And on the right.
LEMMA InsertRight ==
  ASSUME NEW t, Good(t), t # Null, NEW key \in Key, NEW n \in Nat, key > t.key,
         height(t) < MaxHeight,
         Inserted(t.right, insert(t.right, key, n), key, n)
  PROVE  Inserted(t, insert(t, key, n), key, n)
<1> DEFINE k == t.key
           c == t.chain
           l == t.left
           r == t.right
           v == insert(r, key, n)
           h == 1 + Bigger(height(l), height(r))
<1>1. /\ t \in Tree /\ Fits(k, c, l, r) /\ t = Root(k, c, l, r)
      /\ height(l) - height(r) \in {-1, 0, 1}
      /\ Pairs(t) = {<<k, c>>} \cup Pairs(l) \cup Pairs(r)
  BY Dissect
<1>2. t.key = k /\ key > k /\ Inserted(r, v, key, n)
  OBVIOUS
<1>3. insert(t, key, n) = InsertBalance(calc_height([t EXCEPT !.right = v]), key)
  <2>1. key \in Nat /\ t.key \in Nat
    <3> HIDE DEF c, l, r, v, h
    <3> QED BY <1>1, AvlAssumption DEF Fits
  <2>2. key > t.key /\ ~(key < t.key)
    BY <2>1
  <2> QED BY <1>1, <2>2, InsertIs
<1> HIDE DEF k, c, l, r, v, h
<1>4. k \in Key /\ c \in Chains /\ Good(l) /\ Good(r) /\ Below(l, k) /\ Above(r, k) /\ k \in Nat /\ key \in Nat
  BY <1>1, AvlAssumption DEF Fits
<1>5. height(l) \in Nat /\ height(r) \in Nat /\ height(t) = 1 + Bigger(height(l), height(r))
  BY <1>1, <1>4, GoodHeight, RootHeight
<1>6. height(l) + 1 < MaxHeight /\ height(r) + 1 < MaxHeight
  BY <1>5, AvlAssumption DEF Bigger
<1>7. /\ Good(v) /\ v # Null /\ height(v) \in {height(r), height(r) + 1} /\ Hangs(r, v, key, n)
      /\ height(v) = height(r) + 1 /\ r # Null => Leans(v, key)
  BY <1>2 DEF Inserted
<1>8. Fits(k, c, l, v)
  <2>1. Above(v, k)
    BY <1>2, <1>4, <1>7, HangsBetween
  <2> QED BY <1>4, <1>7, <2>1 DEF Fits
<1>9. [t EXCEPT !.right = v] = Raw(k, c, l, v, h)
  <2>1. t = Raw(k, c, l, r, h)
    BY <1>1 DEF Root, h
  <2> QED BY <2>1, RawIs
<1>10. /\ height(v) \in Nat /\ height(v) < MaxHeight /\ height(l) < MaxHeight
       /\ height(l) - height(v) \in {-2, -1, 0, 1}
       /\ height(v) = height(l) + 2 => height(v) = height(r) + 1 /\ height(r) # 0
       /\ height(l) # height(v) + 2
  <2>1. MaxHeight \in Nat
    BY AvlAssumption
  <2> QED BY <1>1, <1>5, <1>6, <1>7, <2>1
<1>11. /\ height(v) = height(l) + 2 => Leans(v, key)
       /\ height(l) - height(v) \in {-2, -1, 0, 1, 2}
  <2>1. r = Null => height(r) = 0
    BY PairsAre
  <2> QED BY <1>7, <1>10, <2>1
<1>12. PICK u : /\ InsertBalance(calc_height(Raw(k, c, l, v, h)), key) = u
                /\ Good(u) /\ u # Null
                /\ Pairs(u) = {<<k, c>>} \cup Pairs(l) \cup Pairs(v)
                /\ \/ /\ height(l) - height(v) \in {-1, 0, 1} /\ u = Root(k, c, l, v)
                      /\ height(u) = 1 + Bigger(height(l), height(v))
                   \/ /\ height(l) - height(v) \in {-2, 2}
                      /\ height(u) = Bigger(height(l), height(v))
  BY <1>8, <1>10, <1>11, InsertBalanceIs
<1>13. Hangs(t, u, key, n)
  <2> DEFINE R == {<<k, c>>} \cup Pairs(l)
  <2>1. \A e \in Chains : <<key, e>> \notin R
    <3>1. key # k /\ ~(key < k)
      BY <1>2, <1>4
    <3> QED BY <1>4, <3>1 DEF Below
  <2>2. Pairs(t) = R \cup Pairs(r) /\ Pairs(u) = R \cup Pairs(v)
    BY <1>1, <1>12
  <2> HIDE DEF R
  <2> QED BY <1>7, <2>1, <2>2, HangsWith
<1>14. /\ height(u) \in {height(t), height(t) + 1}
       /\ height(u) = height(t) + 1 => height(v) = height(l) + 1 /\ u = Root(k, c, l, v)
  <2>1. PICK i \in Nat, j \in Nat, g \in Nat : i = height(l) /\ j = height(r) /\ g = height(v)
    BY <1>5, <1>10
  <2>2. i - j \in {-1, 0, 1} /\ g \in {j, j + 1}
    BY <1>1, <1>7, <2>1
  <2>3. CASE i - g \in {-1, 0, 1} /\ u = Root(k, c, l, v) /\ height(u) = 1 + Bigger(i, g)
    BY <1>5, <2>1, <2>2, <2>3 DEF Bigger
  <2>4. CASE i - g \in {-2, 2} /\ height(u) = Bigger(i, g)
    BY <1>5, <2>1, <2>2, <2>4 DEF Bigger
  <2> QED BY <1>12, <2>1, <2>3, <2>4
<1>15. height(u) = height(t) + 1 => Leans(u, key)
  <2>1. Root(k, c, l, v).key = k /\ Root(k, c, l, v).left = l /\ Root(k, c, l, v).right = v
    BY RawIs DEF Root
  <2> QED BY <1>2, <1>14, <2>1 DEF Leans
<1>16. Inserted(t, u, key, n)
  BY <1>12, <1>13, <1>14, <1>15 DEF Inserted
<1> QED BY <1>3, <1>9, <1>12, <1>16 DEF v

\* insert, on all balanced trees, by induction over the height.
LEMMA InsertWorks ==
  ASSUME NEW key \in Key, NEW n \in Nat
  PROVE  \A t : Good(t) /\ height(t) < MaxHeight => Inserted(t, insert(t, key, n), key, n)
<1> DEFINE P(t) == Good(t) /\ height(t) < MaxHeight => Inserted(t, insert(t, key, n), key, n)
           T == {h \in 0 .. MaxHeight : \A t \in Trees[h] : P(t)}
<1> SUFFICES \A t : P(t)
  OBVIOUS
<1>1. P(Null)
  BY PairsAre, InsertNull
<1>2. 0 \in T
  <2> HIDE DEF P
  <2> QED BY <1>1, TreesIs, AvlAssumption
<1>3. ASSUME NEW m \in T, m < MaxHeight PROVE m + 1 \in T
  <2>1. m \in 0 .. MaxHeight /\ m + 1 \in 0 .. MaxHeight /\ \A t \in Trees[m] : P(t)
    <3> HIDE DEF P
    <3> QED BY <1>3, AvlAssumption
  <2>2. ASSUME NEW t \in Trees[m + 1], t # Null PROVE P(t)
    <3> SUFFICES ASSUME Good(t), height(t) < MaxHeight PROVE Inserted(t, insert(t, key, n), key, n)
      OBVIOUS
    <3>1. P(t.left) /\ P(t.right)
      <4> HIDE DEF P
      <4> QED BY <1>3, <2>1, <2>2, NodeIs
    <3>2. Good(t.left) /\ Good(t.right) /\ t.key \in Key /\ t = Root(t.key, t.chain, t.left, t.right)
      BY <2>2, Dissect DEF Fits
    <3>3. height(t.left) < MaxHeight /\ height(t.right) < MaxHeight
      <4>1. height(t.left) \in Nat /\ height(t.right) \in Nat
        BY <3>2, GoodHeight
      <4>2. height(t) = 1 + Bigger(height(t.left), height(t.right))
        BY <3>2, <4>1, RootHeight
      <4> QED BY <4>1, <4>2, AvlAssumption DEF Bigger
    <3>4. CASE key < t.key
      BY <2>2, <3>1, <3>2, <3>3, <3>4, InsertLeft
    <3>5. CASE key > t.key
      BY <2>2, <3>1, <3>2, <3>3, <3>5, InsertRight
    <3>6. CASE key = t.key
      BY <2>2, <3>6, InsertHere
    <3>7. key \in Nat /\ t.key \in Nat
      BY <3>2, AvlAssumption
    <3> QED BY <3>4, <3>5, <3>6, <3>7
  <2>3. \A t \in Trees[m + 1] : P(t)
    <3> HIDE DEF P
    <3> QED BY <1>1, <2>2
  <2> HIDE DEF P
  <2> QED BY <2>1, <2>3
<1>4. T = 0 .. MaxHeight
  <2>1. T \in SUBSET (0 .. MaxHeight)
    OBVIOUS
  <2> HIDE DEF T
  <2> QED BY <1>2, <1>3, <2>1, HeightSet
<1>5. ASSUME NEW t, Good(t) PROVE P(t)
  <2>1. height(t) \in T /\ t \in Trees[height(t)]
    BY <1>4, <1>5, GoodIn
  <2> HIDE DEF P
  <2> QED BY <2>1
<1> QED BY <1>5
-----------------------------------------------------------------------------
(* The tree: removal *)

\* Every node is alone on its key, as among the memory regions.
Alone(t) == \A j \in Key, e \in Chains : <<j, e>> \in Pairs(t) => Len(e) = 1

\* What remove_node makes of t: the pair is gone, and the tree may be lower by one.
Removed(t, u, d) ==
  /\ Good(u)
  /\ height(u) \in {height(t), height(t) - 1}
  /\ Pairs(u) = Pairs(t) \ {<<d.key, <<d.n>>>>}

\* A chain with one node is that node.
LEMMA OneChain ==
  ASSUME NEW c \in Chains, Len(c) = 1
  PROVE  Head(c) \in Nat /\ c = <<Head(c)>>
<1>1. c \in Seq(Nat) /\ c # <<>>
  BY DEF Chains
<1>2. Head(c) = c[1] /\ Head(c) \in Nat
  BY <1>1
<1>3. <<Head(c)>> \in Seq(Nat) /\ Len(<<Head(c)>>) = 1 /\ <<Head(c)>>[1] = c[1]
  BY <1>2
<1>4. \A i \in 1 .. Len(c) : c[i] = <<Head(c)>>[i]
  BY <1>3
<1>5. c = <<Head(c)>>
  BY <1>1, <1>3, <1>4, SeqEqual
<1> QED BY <1>2, <1>5

\* The leftmost node's key is before all others.
LEMMA LeastWorks ==
  \A t : Good(t) /\ t # Null =>
    /\ Least(t).key \in Key /\ Least(t).chain \in Chains
    /\ <<Least(t).key, Least(t).chain>> \in Pairs(t)
    /\ \A j \in Key, e \in Chains :
         <<j, e>> \in Pairs(t) /\ <<j, e>> # <<Least(t).key, Least(t).chain>> => j > Least(t).key
<1> DEFINE P(t) == Good(t) /\ t # Null =>
               /\ Least(t).key \in Key /\ Least(t).chain \in Chains
               /\ <<Least(t).key, Least(t).chain>> \in Pairs(t)
               /\ \A j \in Key, e \in Chains :
                    <<j, e>> \in Pairs(t) /\ <<j, e>> # <<Least(t).key, Least(t).chain>> =>
                      j > Least(t).key
           T == {h \in 0 .. MaxHeight : \A t \in Trees[h] : P(t)}
<1> SUFFICES \A t : P(t)
  OBVIOUS
<1>1. P(Null)
  OBVIOUS
<1>2. 0 \in T
  <2> HIDE DEF P
  <2> QED BY <1>1, TreesIs, AvlAssumption
<1>3. ASSUME NEW m \in T, m < MaxHeight PROVE m + 1 \in T
  <2>1. m \in 0 .. MaxHeight /\ m + 1 \in 0 .. MaxHeight /\ \A t \in Trees[m] : P(t)
    <3> HIDE DEF P
    <3> QED BY <1>3, AvlAssumption
  <2>2. ASSUME NEW t \in Trees[m + 1], t # Null PROVE P(t)
    <3> SUFFICES ASSUME Good(t) PROVE P(t)
      OBVIOUS
    <3>1. P(t.left)
      <4> HIDE DEF P
      <4> QED BY <1>3, <2>1, <2>2, NodeIs
    <3>2. /\ t \in Tree /\ t.key \in Key /\ t.chain \in Chains
          /\ Good(t.left) /\ Good(t.right) /\ Below(t.left, t.key) /\ Above(t.right, t.key)
          /\ Pairs(t) = {<<t.key, t.chain>>} \cup Pairs(t.left) \cup Pairs(t.right)
      BY <2>2, Dissect DEF Fits
    <3>3. Least(t) = IF t.left = Null THEN t ELSE Least(t.left)
      BY <2>2, <3>2, LeastIs
    <3>4. CASE t.left = Null
      <4>1. Pairs(t) = {<<t.key, t.chain>>} \cup Pairs(t.right) /\ Least(t) = t
        BY <3>2, <3>3, <3>4, PairsAre
      <4> QED BY <3>2, <4>1 DEF Above
    <3>5. CASE t.left # Null
      <4> DEFINE s == Least(t.left)
      <4>1. Least(t) = s
        BY <3>3, <3>5
      <4>2. /\ s.key \in Key /\ s.chain \in Chains /\ <<s.key, s.chain>> \in Pairs(t.left)
            /\ \A j \in Key, e \in Chains :
                 <<j, e>> \in Pairs(t.left) /\ <<j, e>> # <<s.key, s.chain>> => j > s.key
        BY <3>1, <3>2, <3>5
      <4> HIDE DEF s
      <4>3. s.key < t.key /\ s.key \in Nat /\ t.key \in Nat /\ \A j \in Key : j \in Nat
        BY <3>2, <4>2, AvlAssumption DEF Below
      <4>4. ASSUME NEW j \in Key, NEW e \in Chains, <<j, e>> \in Pairs(t), <<j, e>> # <<s.key, s.chain>>
            PROVE  j > s.key
        <5>1. CASE <<j, e>> = <<t.key, t.chain>>
          BY <4>3, <5>1
        <5>2. CASE <<j, e>> \in Pairs(t.left)
          BY <4>2, <4>4, <5>2
        <5>3. CASE <<j, e>> \in Pairs(t.right)
          <6>1. j > t.key
            BY <3>2, <5>3 DEF Above
          <6> QED BY <4>3, <6>1
        <5> QED BY <3>2, <4>4, <5>1, <5>2, <5>3
      <4> QED BY <3>2, <4>1, <4>2, <4>4
    <3> QED BY <3>4, <3>5
  <2>3. \A t \in Trees[m + 1] : P(t)
    <3> HIDE DEF P
    <3> QED BY <1>1, <2>2
  <2> HIDE DEF P
  <2> QED BY <2>1, <2>3
<1>4. T = 0 .. MaxHeight
  <2>1. T \in SUBSET (0 .. MaxHeight)
    OBVIOUS
  <2> HIDE DEF T
  <2> QED BY <1>2, <1>3, <2>1, HeightSet
<1>5. ASSUME NEW t, Good(t) PROVE P(t)
  <2>1. height(t) \in T /\ t \in Trees[height(t)]
    BY <1>4, <1>5, GoodIn
  <2> HIDE DEF P
  <2> QED BY <2>1
<1> QED BY <1>5

\* Removal from the left branch.
LEMMA RemoveLeft ==
  ASSUME NEW t, Good(t), t # Null, NEW d \in [key : Key, n : Nat], d.key < t.key,
         <<d.key, <<d.n>>>> \in Pairs(t.left),
         Removed(t.left, remove_node(t.left, d), d)
  PROVE  Removed(t, remove_node(t, d), d)
<1> DEFINE k == t.key
           c == t.chain
           l == t.left
           r == t.right
           v == remove_node(l, d)
           h == 1 + Bigger(height(l), height(r))
           p == <<d.key, <<d.n>>>>
<1>1. /\ t \in Tree /\ Fits(k, c, l, r) /\ t = Root(k, c, l, r)
      /\ height(l) - height(r) \in {-1, 0, 1}
      /\ Pairs(t) = {<<k, c>>} \cup Pairs(l) \cup Pairs(r)
  BY Dissect
<1>2. d.key < k /\ d.key \in Key /\ Removed(l, v, d)
  OBVIOUS
<1>3. remove_node(t, d) = Refit([t EXCEPT !.left = v])
  <2>1. d.key \in Nat /\ t.key \in Nat
    <3> HIDE DEF c, l, r, v, h, p
    <3> QED BY <1>1, <1>2, AvlAssumption DEF Fits
  <2>2. d.key < t.key /\ ~(d.key > t.key)
    BY <2>1
  <2> QED BY <1>1, <2>2, RemoveIs
<1> HIDE DEF k, c, l, r, v, h
<1>4. /\ k \in Key /\ c \in Chains /\ Good(l) /\ Good(r) /\ Below(l, k) /\ Above(r, k)
      /\ k \in Nat /\ d.key \in Nat
  BY <1>1, <1>2, AvlAssumption DEF Fits
<1>5. height(l) \in Nat /\ height(r) \in Nat /\ height(t) = 1 + Bigger(height(l), height(r))
  BY <1>1, <1>4, GoodHeight, RootHeight
<1>6. height(l) < MaxHeight /\ height(r) < MaxHeight /\ MaxHeight \in Nat
  <2>1. height(t) <= MaxHeight /\ MaxHeight \in Nat
    BY GoodHeight, AvlAssumption
  <2> QED BY <1>5, <2>1 DEF Bigger
<1>7. Good(v) /\ height(v) \in {height(l), height(l) - 1} /\ Pairs(v) = Pairs(l) \ {p} /\ height(v) \in Nat
  BY <1>2, GoodHeight DEF Removed
<1>8. Fits(k, c, v, r)
  <2>1. Below(v, k)
    BY <1>4, <1>7 DEF Below
  <2> QED BY <1>4, <1>7, <2>1 DEF Fits
<1>9. [t EXCEPT !.left = v] = Raw(k, c, v, r, h)
  <2>1. t = Raw(k, c, l, r, h)
    BY <1>1 DEF Root, h
  <2> QED BY <2>1, RawIs
<1>10. height(v) < MaxHeight /\ height(v) - height(r) \in {-2, -1, 0, 1, 2}
  BY <1>1, <1>5, <1>6, <1>7
<1>11. PICK u : /\ Refit(Raw(k, c, v, r, h)) = u
                /\ Good(u)
                /\ Pairs(u) = {<<k, c>>} \cup Pairs(v) \cup Pairs(r)
                /\ height(u) \in {Bigger(height(v), height(r)), 1 + Bigger(height(v), height(r))}
                /\ height(v) - height(r) \in {-1, 0, 1} =>
                     height(u) = 1 + Bigger(height(v), height(r))
  BY <1>6, <1>8, <1>10, RefitIs
<1>12. height(u) \in {height(t), height(t) - 1}
  <2>1. PICK i \in Nat, j \in Nat, g \in Nat : i = height(l) /\ j = height(r) /\ g = height(v)
    BY <1>5, <1>7
  <2> DEFINE x == height(u)
  <2>2. i - j \in {-1, 0, 1} /\ g \in {i, i - 1}
    BY <1>1, <1>7, <2>1
  <2>3. /\ x \in {Bigger(g, j), 1 + Bigger(g, j)}
        /\ g - j \in {-1, 0, 1} => x = 1 + Bigger(g, j)
    BY <1>11, <2>1
  <2> HIDE DEF x
  <2> HIDE DEF p
  <2>4. PICK b \in Nat : b = 1 + Bigger(i, j)
    BY DEF Bigger
  <2>5. x \in {b, b - 1}
    BY <2>2, <2>3, <2>4 DEF Bigger
  <2>6. height(t) = b
    BY <1>5, <2>1, <2>4
  <2> QED BY <2>5, <2>6 DEF x
<1>13. Pairs(u) = Pairs(t) \ {p}
  <2>1. p # <<k, c>>
    BY <1>2, <1>4 DEF p
  <2>2. p \notin Pairs(r)
    <3>1. d.n \in Nat /\ <<d.n>> \in Seq(Nat) /\ <<d.n>> # <<>>
      OBVIOUS
    <3>2. <<d.n>> \in Chains
      BY <3>1 DEF Chains
    <3>3. ~(d.key > k)
      BY <1>2, <1>4
    <3> QED BY <1>2, <1>4, <3>2, <3>3 DEF Above, p
  <2> HIDE DEF p
  <2> QED BY <1>1, <1>7, <1>11, <2>1, <2>2
<1>14. Removed(t, u, d)
  BY <1>11, <1>12, <1>13 DEF Removed, p
<1> QED BY <1>3, <1>9, <1>11, <1>14

\* And from the right one.
LEMMA RemoveRight ==
  ASSUME NEW t, Good(t), t # Null, NEW d \in [key : Key, n : Nat], d.key > t.key,
         <<d.key, <<d.n>>>> \in Pairs(t.right),
         Removed(t.right, remove_node(t.right, d), d)
  PROVE  Removed(t, remove_node(t, d), d)
<1> DEFINE k == t.key
           c == t.chain
           l == t.left
           r == t.right
           v == remove_node(r, d)
           h == 1 + Bigger(height(l), height(r))
           p == <<d.key, <<d.n>>>>
<1>1. /\ t \in Tree /\ Fits(k, c, l, r) /\ t = Root(k, c, l, r)
      /\ height(l) - height(r) \in {-1, 0, 1}
      /\ Pairs(t) = {<<k, c>>} \cup Pairs(l) \cup Pairs(r)
  BY Dissect
<1>2. d.key > k /\ d.key \in Key /\ Removed(r, v, d)
  OBVIOUS
<1>3. remove_node(t, d) = Refit([t EXCEPT !.right = v])
  <2>1. d.key \in Nat /\ t.key \in Nat
    <3> HIDE DEF c, l, r, v, h, p
    <3> QED BY <1>1, <1>2, AvlAssumption DEF Fits
  <2>2. d.key > t.key /\ ~(d.key < t.key)
    BY <2>1
  <2> QED BY <1>1, <2>2, RemoveIs
<1> HIDE DEF k, c, l, r, v, h
<1>4. /\ k \in Key /\ c \in Chains /\ Good(l) /\ Good(r) /\ Below(l, k) /\ Above(r, k)
      /\ k \in Nat /\ d.key \in Nat
  BY <1>1, <1>2, AvlAssumption DEF Fits
<1>5. height(l) \in Nat /\ height(r) \in Nat /\ height(t) = 1 + Bigger(height(l), height(r))
  BY <1>1, <1>4, GoodHeight, RootHeight
<1>6. height(l) < MaxHeight /\ height(r) < MaxHeight /\ MaxHeight \in Nat
  <2>1. height(t) <= MaxHeight /\ MaxHeight \in Nat
    BY GoodHeight, AvlAssumption
  <2> QED BY <1>5, <2>1 DEF Bigger
<1>7. Good(v) /\ height(v) \in {height(r), height(r) - 1} /\ Pairs(v) = Pairs(r) \ {p} /\ height(v) \in Nat
  BY <1>2, GoodHeight DEF Removed
<1>8. Fits(k, c, l, v)
  <2>1. Above(v, k)
    BY <1>4, <1>7 DEF Above
  <2> QED BY <1>4, <1>7, <2>1 DEF Fits
<1>9. [t EXCEPT !.right = v] = Raw(k, c, l, v, h)
  <2>1. t = Raw(k, c, l, r, h)
    BY <1>1 DEF Root, h
  <2> QED BY <2>1, RawIs
<1>10. height(v) < MaxHeight /\ height(l) - height(v) \in {-2, -1, 0, 1, 2}
  BY <1>1, <1>5, <1>6, <1>7
<1>11. PICK u : /\ Refit(Raw(k, c, l, v, h)) = u
                /\ Good(u)
                /\ Pairs(u) = {<<k, c>>} \cup Pairs(l) \cup Pairs(v)
                /\ height(u) \in {Bigger(height(l), height(v)), 1 + Bigger(height(l), height(v))}
                /\ height(l) - height(v) \in {-1, 0, 1} =>
                     height(u) = 1 + Bigger(height(l), height(v))
  BY <1>6, <1>8, <1>10, RefitIs
<1>12. height(u) \in {height(t), height(t) - 1}
  <2>1. PICK i \in Nat, j \in Nat, g \in Nat : i = height(l) /\ j = height(r) /\ g = height(v)
    BY <1>5, <1>7
  <2> DEFINE x == height(u)
  <2>2. i - j \in {-1, 0, 1} /\ g \in {j, j - 1}
    BY <1>1, <1>7, <2>1
  <2>3. /\ x \in {Bigger(i, g), 1 + Bigger(i, g)}
        /\ i - g \in {-1, 0, 1} => x = 1 + Bigger(i, g)
    BY <1>11, <2>1
  <2> HIDE DEF x
  <2> HIDE DEF p
  <2>4. PICK b \in Nat : b = 1 + Bigger(i, j)
    BY DEF Bigger
  <2>5. x \in {b, b - 1}
    BY <2>2, <2>3, <2>4 DEF Bigger
  <2>6. height(t) = b
    BY <1>5, <2>1, <2>4
  <2> QED BY <2>5, <2>6 DEF x
<1>13. Pairs(u) = Pairs(t) \ {p}
  <2>1. p # <<k, c>>
    BY <1>2, <1>4 DEF p
  <2>2. p \notin Pairs(l)
    <3>1. d.n \in Nat /\ <<d.n>> \in Seq(Nat) /\ <<d.n>> # <<>>
      OBVIOUS
    <3>2. <<d.n>> \in Chains
      BY <3>1 DEF Chains
    <3>3. ~(d.key < k)
      BY <1>2, <1>4
    <3> QED BY <1>2, <1>4, <3>2, <3>3 DEF Below, p
  <2> HIDE DEF p
  <2> QED BY <1>1, <1>7, <1>11, <2>1, <2>2
<1>14. Removed(t, u, d)
  BY <1>11, <1>12, <1>13 DEF Removed, p
<1> QED BY <1>3, <1>9, <1>11, <1>14

\* Rebalancing leaves a balanced tree as it is.
LEMMA RefitGood ==
  ASSUME NEW t, Good(t), t # Null
  PROVE  \E u : Refit(t) = u /\ Good(u) /\ Pairs(u) = Pairs(t) /\ height(u) = height(t)
<1> DEFINE k == t.key
           c == t.chain
           l == t.left
           r == t.right
           h == 1 + Bigger(height(l), height(r))
<1>1. /\ Fits(k, c, l, r) /\ t = Root(k, c, l, r)
      /\ height(l) - height(r) \in {-1, 0, 1}
      /\ Pairs(t) = {<<k, c>>} \cup Pairs(l) \cup Pairs(r)
  BY Dissect
<1> HIDE DEF k, c, l, r, h
<1>2. /\ height(l) \in Nat /\ height(r) \in Nat /\ height(t) = h
      /\ height(t) <= MaxHeight /\ MaxHeight \in Nat
  BY <1>1, GoodHeight, RootHeight, AvlAssumption DEF Fits, h
<1>3. height(l) < MaxHeight /\ height(r) < MaxHeight
  BY <1>2 DEF h, Bigger
<1>4. height(l) - height(r) \in {-2, -1, 0, 1, 2}
  BY <1>1
<1>5. PICK u : /\ Refit(Raw(k, c, l, r, h)) = u /\ Good(u)
               /\ Pairs(u) = {<<k, c>>} \cup Pairs(l) \cup Pairs(r)
               /\ height(u) = 1 + Bigger(height(l), height(r))
  BY <1>1, <1>3, <1>4, RefitIs
<1>6. t = Raw(k, c, l, r, h)
  BY <1>1 DEF Root, h
<1> QED BY <1>1, <1>2, <1>5, <1>6 DEF h

\* Removal of the root.
LEMMA RemoveHere ==
  ASSUME NEW t, Good(t), t # Null, Alone(t), NEW n \in Nat,
         <<t.key, <<n>>>> \in Pairs(t),
         \A d \in [key : Key, n : Nat] :
           <<d.key, <<d.n>>>> \in Pairs(t.right) => Removed(t.right, remove_node(t.right, d), d)
  PROVE  Removed(t, remove_node(t, [key |-> t.key, n |-> n]), [key |-> t.key, n |-> n])
<1> DEFINE k == t.key
           c == t.chain
           l == t.left
           r == t.right
           h == 1 + Bigger(height(l), height(r))
           d == [key |-> k, n |-> n]
           rem == remove_node(t, d)
<1>1. /\ t \in Tree /\ Fits(k, c, l, r) /\ t = Root(k, c, l, r)
      /\ height(l) - height(r) \in {-1, 0, 1}
      /\ Pairs(t) = {<<k, c>>} \cup Pairs(l) \cup Pairs(r)
      /\ <<k, <<n>>>> \in Pairs(t)
  BY Dissect
<1>2. t.key = k /\ t.chain = c /\ t.left = l /\ t.right = r /\ d.key = k /\ d.n = n
  OBVIOUS
<1>3. \A e \in [key : Key, n : Nat] :
        <<e.key, <<e.n>>>> \in Pairs(r) => Removed(r, remove_node(r, e), e)
  OBVIOUS
<1> SUFFICES Removed(t, rem, d)
  OBVIOUS
<1> HIDE DEF k, c, l, r, h, d
<1>4. /\ k \in Key /\ c \in Chains /\ Good(l) /\ Good(r) /\ Below(l, k) /\ Above(r, k)
      /\ k \in Nat /\ \A j \in Key : j \in Nat
  BY <1>1, AvlAssumption DEF Fits
<1>5. /\ height(l) \in Nat /\ height(r) \in Nat /\ height(t) = h /\ h = 1 + Bigger(height(l), height(r))
      /\ t = Raw(k, c, l, r, h)
  BY <1>1, <1>4, GoodHeight, RootHeight DEF Root, h
<1>6. height(l) < MaxHeight /\ height(r) < MaxHeight /\ MaxHeight \in Nat
  <2>1. height(t) <= MaxHeight /\ MaxHeight \in Nat
    BY GoodHeight, AvlAssumption
  <2> QED BY <1>5, <2>1 DEF Bigger
<1>7. /\ \A e \in Chains : <<k, e>> \notin Pairs(l) /\ <<k, e>> \notin Pairs(r)
      /\ Pairs(l) \subseteq Key \X Chains /\ Pairs(r) \subseteq Key \X Chains
  <2>1. ~(k < k) /\ ~(k > k)
    BY <1>4
  <2> QED BY <1>4, <2>1, PairsIn DEF Below, Above
<1>8. c = <<n>> /\ Len(c) = 1 /\ ~(Len(c) > 1)
  <2>1. <<n>> \in Seq(Nat) /\ <<n>> # <<>> /\ Len(<<n>>) = 1 /\ ~(1 > 1)
    OBVIOUS
  <2>2. <<n>> \in Chains
    BY <2>1 DEF Chains
  <2>3. c = <<n>>
    BY <1>1, <1>7, <2>2
  <2> QED BY <2>1, <2>3
<1>9. Pairs(t) \ {<<k, <<n>>>>} = Pairs(l) \cup Pairs(r)
  BY <1>1, <1>4, <1>7, <1>8
<1>10. d \in [key : Key, n : Nat]
  BY <1>4 DEF d
<1>11. rem = IF l = Null /\ r = Null THEN Null
             ELSE IF l = Null \/ r = Null THEN Refit(IF l = Null THEN r ELSE l)
             ELSE IF r.left = Null THEN Refit([r EXCEPT !.left = l])
             ELSE LET s == Least(r)
                      m == Head(s.chain)
                  IN  Refit([t EXCEPT !.key = s.key, !.chain = <<m>>,
                                      !.right = remove_node(r, [key |-> s.key, n |-> m])])
  <2>1. ~(d.key < t.key) /\ ~(d.key > t.key) /\ ~(Len(t.chain) > 1) /\ t.chain = <<d.n>>
    <3>1. ~(k < k) /\ ~(k > k)
      BY <1>4
    <3> QED BY <1>2, <1>8, <3>1
  <2>2. t \in Tree
    BY <1>1
  <2> QED BY <1>10, <2>1, <2>2, RemoveIs DEF l, r
<1> HIDE DEF rem
<1> SUFFICES ASSUME NEW u, rem = u
             PROVE  Good(u) /\ height(u) \in {h, h - 1} /\ Pairs(u) = Pairs(l) \cup Pairs(r)
  BY <1>2, <1>5, <1>9 DEF Removed
<1>12. CASE l = Null /\ r = Null
  <2>1. u = Null /\ height(Null) = 0 /\ Good(Null) /\ Pairs(Null) = {}
    BY <1>11, <1>12, PairsAre
  <2>2. h - 1 = 0
    BY <1>5, <1>12, <2>1 DEF Bigger
  <2> QED BY <1>12, <2>1, <2>2
<1>13. CASE l = Null /\ r # Null
  <2>1. u = Refit(r) /\ height(l) = 0 /\ Pairs(l) = {}
    BY <1>11, <1>13, PairsAre
  <2>2. Good(u) /\ Pairs(u) = Pairs(r) /\ height(u) = height(r)
    BY <1>4, <1>13, <2>1, RefitGood
  <2>3. height(r) = h - 1
    BY <1>5, <2>1 DEF Bigger
  <2> QED BY <2>1, <2>2, <2>3
<1>14. CASE l # Null /\ r = Null
  <2>1. u = Refit(l) /\ height(r) = 0 /\ Pairs(r) = {}
    BY <1>11, <1>14, PairsAre
  <2>2. Good(u) /\ Pairs(u) = Pairs(l) /\ height(u) = height(l)
    BY <1>4, <1>14, <2>1, RefitGood
  <2>3. height(l) = h - 1
    BY <1>5, <2>1 DEF Bigger
  <2> QED BY <2>1, <2>2, <2>3
<1>15. CASE l # Null /\ r # Null /\ r.left = Null
  <2> DEFINE j == r.key
             e == r.chain
             b == r.right
             g == 1 + Bigger(height(r.left), height(r.right))
  <2>1. /\ Fits(j, e, r.left, b) /\ r = Root(j, e, r.left, b)
        /\ height(r.left) - height(b) \in {-1, 0, 1}
        /\ Pairs(r) = {<<j, e>>} \cup Pairs(r.left) \cup Pairs(b)
    BY <1>4, <1>15, Dissect
  <2>2. r = Raw(j, e, r.left, b, g)
    BY <2>1 DEF Root
  <2> HIDE DEF j, e, b
  <2>3. height(r.left) = 0 /\ Pairs(r.left) = {} /\ r.left = Null
    BY <1>15, PairsAre
  <2>4. j \in Key /\ e \in Chains /\ Good(b) /\ Above(b, j) /\ <<j, e>> \in Pairs(r) /\ height(b) \in Nat
    BY <2>1, GoodHeight DEF Fits
  <2>5. height(b) <= 1 /\ height(r) = 1 + height(b)
    <3>1. height(r) = 1 + Bigger(height(r.left), height(b)) /\ g = 1 + Bigger(height(r.left), height(b))
      BY <2>1, <2>3, <2>4, RootHeight DEF b
    <3> QED BY <2>1, <2>3, <2>4, <3>1 DEF Bigger
  <2> HIDE DEF g
  <2>6. Below(l, j)
    <3>1. k < j /\ j \in Nat
      BY <1>4, <2>4 DEF Above
    <3> QED BY <1>4, <3>1 DEF Below
  <2>7. Fits(j, e, l, b)
    BY <1>4, <2>4, <2>6 DEF Fits
  <2>8. u = Refit(Raw(j, e, l, b, g))
    <3>1. u = Refit([r EXCEPT !.left = l])
      BY <1>11, <1>15
    <3>2. [r EXCEPT !.left = l] = Raw(j, e, l, b, g)
      <4> DEFINE x == r.left
      <4> HIDE DEF x
      <4>1. r = Raw(j, e, x, b, g)
        BY <2>2 DEF x
      <4> QED BY <4>1, RawIs
    <3> QED BY <3>1, <3>2
  <2>9. height(b) < MaxHeight /\ height(l) - height(b) \in {-2, -1, 0, 1, 2}
    BY <1>1, <1>5, <1>6, <2>4, <2>5
  <2>10. /\ Good(u) /\ Pairs(u) = {<<j, e>>} \cup Pairs(l) \cup Pairs(b)
         /\ height(u) \in {Bigger(height(l), height(b)), 1 + Bigger(height(l), height(b))}
         /\ height(l) - height(b) \in {-1, 0, 1} => height(u) = 1 + Bigger(height(l), height(b))
    BY <1>6, <2>7, <2>8, <2>9, RefitIs
  <2>11. height(u) \in {h, h - 1}
    <3>1. PICK x \in Nat, y \in Nat : x = height(l) /\ y = height(b)
      BY <1>5, <2>4
    <3>2. height(r) = 1 + y /\ x - (1 + y) \in {-1, 0, 1} /\ h = 1 + Bigger(x, 1 + y)
      BY <1>1, <1>5, <2>5, <3>1
    <3> DEFINE z == height(u)
    <3>3. /\ z \in {Bigger(x, y), 1 + Bigger(x, y)}
          /\ x - y \in {-1, 0, 1} => z = 1 + Bigger(x, y)
      BY <2>10, <3>1
    <3> HIDE DEF z
    <3>4. z \in {h, h - 1}
      BY <3>2, <3>3 DEF Bigger
    <3> QED BY <3>4 DEF z
  <2> QED BY <2>1, <2>3, <2>10, <2>11
<1>16. CASE l # Null /\ r # Null /\ r.left # Null
  <2> DEFINE s == Least(r)
             m == Head(s.chain)
             f == [key |-> s.key, n |-> m]
             v == remove_node(r, f)
  <2>1. u = Refit([t EXCEPT !.key = s.key, !.chain = <<m>>, !.right = v])
    BY <1>11, <1>16
  <2>2. /\ s.key \in Key /\ s.chain \in Chains /\ <<s.key, s.chain>> \in Pairs(r)
        /\ \A j \in Key, e \in Chains :
             <<j, e>> \in Pairs(r) /\ <<j, e>> # <<s.key, s.chain>> => j > s.key
    BY <1>4, <1>16, LeastWorks
  <2>3. s.chain = <<m>> /\ m \in Nat
    <3>1. <<s.key, s.chain>> \in Pairs(t)
      BY <1>1, <2>2
    <3>2. Len(s.chain) = 1
      BY <2>2, <3>1 DEF Alone
    <3> QED BY <2>2, <3>2, OneChain
  <2>4. f \in [key : Key, n : Nat] /\ f.key = s.key /\ f.n = m
    BY <2>2, <2>3
  <2> DEFINE j == s.key
  <2> HIDE DEF s, m, f, v
  <2>5. Removed(r, v, f)
    BY <1>3, <2>2, <2>3, <2>4 DEF v
  <2>6. Good(v) /\ height(v) \in {height(r), height(r) - 1} /\ Pairs(v) = Pairs(r) \ {<<j, <<m>>>>}
    BY <2>4, <2>5 DEF Removed
  <2>7. j \in Key /\ <<m>> \in Chains /\ <<j, <<m>>>> \in Pairs(r)
    BY <2>2, <2>3
  <2>8. Below(l, j)
    <3>1. k < j /\ j \in Nat
      BY <1>4, <2>7 DEF Above
    <3> QED BY <1>4, <3>1 DEF Below
  <2>9. Above(v, j)
    BY <2>2, <2>3, <2>6 DEF Above
  <2> HIDE DEF j
  <2>10. Fits(j, <<m>>, l, v)
    BY <1>4, <2>6, <2>7, <2>8, <2>9 DEF Fits
  <2>11. u = Refit(Raw(j, <<m>>, l, v, h))
    <3> DEFINE q == <<m>>
    <3> HIDE DEF q
    <3>1. [Raw(k, c, l, r, h) EXCEPT !.key = j, !.chain = q, !.right = v] = Raw(j, q, l, v, h)
      <4>1. [Raw(k, c, l, r, h) EXCEPT !.key = j] = Raw(j, c, l, r, h)
        BY DEF Raw
      <4>2. [Raw(j, c, l, r, h) EXCEPT !.chain = q] = Raw(j, q, l, r, h)
        BY RawIs
      <4>3. [Raw(j, q, l, r, h) EXCEPT !.right = v] = Raw(j, q, l, v, h)
        BY RawIs
      <4>4. [[[Raw(k, c, l, r, h) EXCEPT !.key = j] EXCEPT !.chain = q] EXCEPT !.right = v]
            = Raw(j, q, l, v, h)
        BY <4>1, <4>2, <4>3
      <4> QED BY <4>4
    <3>2. [t EXCEPT !.key = j, !.chain = <<m>>, !.right = v] = Raw(j, <<m>>, l, v, h)
      BY <1>5, <3>1 DEF q
    <3> QED BY <2>1, <3>2 DEF j
  <2>12. height(v) \in Nat /\ height(v) < MaxHeight /\ height(l) - height(v) \in {-2, -1, 0, 1, 2}
    <3>1. height(v) \in Nat
      BY <2>6, GoodHeight
    <3> QED BY <1>1, <1>5, <1>6, <2>6, <3>1
  <2>13. /\ Good(u) /\ Pairs(u) = {<<j, <<m>>>>} \cup Pairs(l) \cup Pairs(v)
         /\ height(u) \in {Bigger(height(l), height(v)), 1 + Bigger(height(l), height(v))}
         /\ height(l) - height(v) \in {-1, 0, 1} => height(u) = 1 + Bigger(height(l), height(v))
    BY <1>6, <2>10, <2>11, <2>12, RefitIs
  <2>14. height(u) \in {h, h - 1}
    <3>1. PICK x \in Nat, y \in Nat, g \in Nat : x = height(l) /\ y = height(r) /\ g = height(v)
      BY <1>5, <2>12
    <3>2. x - y \in {-1, 0, 1} /\ h = 1 + Bigger(x, y) /\ g \in {y, y - 1}
      BY <1>1, <1>5, <2>6, <3>1
    <3> DEFINE z == height(u)
    <3>3. /\ z \in {Bigger(x, g), 1 + Bigger(x, g)}
          /\ x - g \in {-1, 0, 1} => z = 1 + Bigger(x, g)
      BY <2>13, <3>1
    <3> HIDE DEF z
    <3>4. z \in {h, h - 1}
      BY <3>2, <3>3 DEF Bigger
    <3> QED BY <3>4 DEF z
  <2> QED BY <2>6, <2>7, <2>13, <2>14
<1> QED BY <1>12, <1>13, <1>14, <1>15, <1>16

\* remove_node, on all balanced trees whose nodes are alone, by induction over the height.
LEMMA RemoveWorks ==
  \A t : Good(t) /\ Alone(t) =>
    \A d \in [key : Key, n : Nat] :
      <<d.key, <<d.n>>>> \in Pairs(t) => Removed(t, remove_node(t, d), d)
<1> DEFINE P(t) == Good(t) /\ Alone(t) =>
             \A d \in [key : Key, n : Nat] :
               <<d.key, <<d.n>>>> \in Pairs(t) => Removed(t, remove_node(t, d), d)
           T == {h \in 0 .. MaxHeight : \A t \in Trees[h] : P(t)}
<1> SUFFICES \A t : P(t)
  OBVIOUS
<1>1. P(Null)
  BY PairsAre
<1>2. 0 \in T
  <2> HIDE DEF P
  <2> QED BY <1>1, TreesIs, AvlAssumption
<1>3. ASSUME NEW m \in T, m < MaxHeight PROVE m + 1 \in T
  <2>1. m \in 0 .. MaxHeight /\ m + 1 \in 0 .. MaxHeight /\ \A t \in Trees[m] : P(t)
    <3> HIDE DEF P
    <3> QED BY <1>3, AvlAssumption
  <2>2. ASSUME NEW t \in Trees[m + 1], t # Null PROVE P(t)
    <3> SUFFICES ASSUME Good(t), Alone(t), NEW d \in [key : Key, n : Nat],
                        <<d.key, <<d.n>>>> \in Pairs(t)
                 PROVE  Removed(t, remove_node(t, d), d)
      OBVIOUS
    <3>1. P(t.left) /\ P(t.right)
      <4> HIDE DEF P
      <4> QED BY <1>3, <2>1, <2>2, NodeIs
    <3>2. /\ t.key \in Key /\ Good(t.left) /\ Good(t.right)
          /\ Below(t.left, t.key) /\ Above(t.right, t.key)
          /\ Pairs(t) = {<<t.key, t.chain>>} \cup Pairs(t.left) \cup Pairs(t.right)
      BY <2>2, Dissect DEF Fits
    <3>3. Alone(t.left) /\ Alone(t.right)
      BY <3>2 DEF Alone
    <3>4. d.key \in Key /\ d.n \in Nat /\ d.key \in Nat /\ t.key \in Nat
      BY <3>2, AvlAssumption
    <3>5. <<d.n>> \in Chains
      <4>1. <<d.n>> \in Seq(Nat) /\ <<d.n>> # <<>>
        BY <3>4
      <4> QED BY <4>1 DEF Chains
    <3>6. CASE d.key < t.key
      <4>1. d.key # t.key /\ ~(d.key > t.key)
        BY <3>4, <3>6
      <4>2. <<d.key, <<d.n>>>> \in Pairs(t.left)
        BY <3>2, <3>4, <3>5, <4>1 DEF Above
      <4>3. Removed(t.left, remove_node(t.left, d), d)
        BY <3>1, <3>2, <3>3, <4>2
      <4> HIDE DEF P
      <4> QED BY <2>2, <3>6, <4>2, <4>3, RemoveLeft
    <3>7. CASE d.key > t.key
      <4>1. d.key # t.key /\ ~(d.key < t.key)
        BY <3>4, <3>7
      <4>2. <<d.key, <<d.n>>>> \in Pairs(t.right)
        BY <3>2, <3>4, <3>5, <4>1 DEF Below
      <4>3. Removed(t.right, remove_node(t.right, d), d)
        BY <3>1, <3>2, <3>3, <4>2
      <4> HIDE DEF P
      <4> QED BY <2>2, <3>7, <4>2, <4>3, RemoveRight
    <3>8. CASE d.key = t.key
      <4>1. d = [key |-> t.key, n |-> d.n]
        BY <3>8
      <4>2. \A e \in [key : Key, n : Nat] :
              <<e.key, <<e.n>>>> \in Pairs(t.right) => Removed(t.right, remove_node(t.right, e), e)
        BY <3>1, <3>2, <3>3
      <4> HIDE DEF P
      <4>3. <<t.key, <<d.n>>>> \in Pairs(t)
        BY <3>8
      <4>4. PICK x \in Nat : x = d.n
        BY <3>4
      <4> QED BY <2>2, <4>1, <4>2, <4>3, <4>4, RemoveHere
    <3> QED BY <3>4, <3>6, <3>7, <3>8
  <2>3. \A t \in Trees[m + 1] : P(t)
    <3> HIDE DEF P
    <3> QED BY <1>1, <2>2
  <2> HIDE DEF P
  <2> QED BY <2>1, <2>3
<1>4. T = 0 .. MaxHeight
  <2>1. T \in SUBSET (0 .. MaxHeight)
    OBVIOUS
  <2> HIDE DEF T
  <2> QED BY <1>2, <1>3, <2>1, HeightSet
<1>5. ASSUME NEW t, Good(t) PROVE P(t)
  <2>1. height(t) \in T /\ t \in Trees[height(t)]
    BY <1>4, <1>5, GoodIn
  <2> HIDE DEF P
  <2> QED BY <2>1
<1> QED BY <1>5
-----------------------------------------------------------------------------
(* The tree: the invariant *)

\* A search finds what hangs on its key.
LEMMA FoundWorks ==
  ASSUME NEW key \in Key
  PROVE  \A t : Good(t) =>
           /\ \A c \in Chains : <<key, c>> \in Pairs(t) => Found(t, key) = c
           /\ (\A c \in Chains : <<key, c>> \notin Pairs(t)) => Found(t, key) = <<>>
<1> DEFINE Q(t) == /\ \A c \in Chains : <<key, c>> \in Pairs(t) => Found(t, key) = c
                   /\ (\A c \in Chains : <<key, c>> \notin Pairs(t)) => Found(t, key) = <<>>
           P(t) == Good(t) => Q(t)
           T == {h \in 0 .. MaxHeight : \A t \in Trees[h] : P(t)}
<1> SUFFICES \A t : P(t)
  OBVIOUS
<1>1. P(Null)
  <2>1. Found(Null, key) = <<>>
    BY InTree, FoundIs
  <2> QED BY <2>1, PairsAre
<1>2. 0 \in T
  <2> HIDE DEF P
  <2> QED BY <1>1, TreesIs, AvlAssumption
<1>3. ASSUME NEW m \in T, m < MaxHeight PROVE m + 1 \in T
  <2>1. m \in 0 .. MaxHeight /\ m + 1 \in 0 .. MaxHeight /\ \A t \in Trees[m] : P(t)
    <3> HIDE DEF P
    <3> QED BY <1>3, AvlAssumption
  <2>2. ASSUME NEW t \in Trees[m + 1], t # Null PROVE P(t)
    <3> SUFFICES ASSUME Good(t) PROVE Q(t)
      OBVIOUS
    <3>1. P(t.left) /\ P(t.right)
      <4> HIDE DEF P
      <4> QED BY <1>3, <2>1, <2>2, NodeIs
    <3>2. /\ t \in Tree /\ t.key \in Key /\ t.chain \in Chains /\ Good(t.left) /\ Good(t.right)
          /\ Below(t.left, t.key) /\ Above(t.right, t.key)
          /\ Pairs(t) = {<<t.key, t.chain>>} \cup Pairs(t.left) \cup Pairs(t.right)
      BY <2>2, Dissect DEF Fits
    <3>3. key \in Nat /\ t.key \in Nat
      BY <3>2, AvlAssumption
    <3>4. Found(t, key) = IF t.key = key THEN t.chain
                          ELSE Found(IF key > t.key THEN t.right ELSE t.left, key)
      BY <2>2, <3>2, FoundIs
    <3>5. CASE key < t.key
      <4>1. t.key # key /\ ~(key > t.key)
        BY <3>3, <3>5
      <4>2. Found(t, key) = Found(t.left, key)
        BY <3>4, <4>1
      <4>3. \A c \in Chains : <<key, c>> \in Pairs(t) <=> <<key, c>> \in Pairs(t.left)
        BY <3>2, <4>1 DEF Above
      <4> QED BY <3>1, <3>2, <4>2, <4>3
    <3>6. CASE key > t.key
      <4>1. t.key # key /\ ~(key < t.key)
        BY <3>3, <3>6
      <4>2. Found(t, key) = Found(t.right, key)
        BY <3>4, <3>6, <4>1
      <4>3. \A c \in Chains : <<key, c>> \in Pairs(t) <=> <<key, c>> \in Pairs(t.right)
        BY <3>2, <4>1 DEF Below
      <4> QED BY <3>1, <3>2, <4>2, <4>3
    <3>7. CASE key = t.key
      <4>1. ~(key < t.key) /\ ~(key > t.key)
        BY <3>3, <3>7
      <4>2. Found(t, key) = t.chain
        BY <3>4, <3>7
      <4>3. \A c \in Chains : <<key, c>> \in Pairs(t) <=> c = t.chain
        BY <3>2, <3>7, <4>1 DEF Below, Above
      <4> QED BY <3>2, <4>2, <4>3
    <3> QED BY <3>3, <3>5, <3>6, <3>7
  <2>3. \A t \in Trees[m + 1] : P(t)
    <3> HIDE DEF P
    <3> QED BY <1>1, <2>2
  <2> HIDE DEF P
  <2> QED BY <2>1, <2>3
<1>4. T = 0 .. MaxHeight
  <2>1. T \in SUBSET (0 .. MaxHeight)
    OBVIOUS
  <2> HIDE DEF T
  <2> QED BY <1>2, <1>3, <2>1, HeightSet
<1>5. ASSUME NEW t, Good(t) PROVE P(t)
  <2>1. height(t) \in T /\ t \in Trees[height(t)]
    BY <1>4, <1>5, GoodIn
  <2> HIDE DEF P
  <2> QED BY <2>1
<1> QED BY <1>5

\* A chain has a node, and one that is no longer than 1 has one.
LEMMA ChainLen ==
  ASSUME NEW c \in Chains
  PROVE  Len(c) \in Nat /\ Len(c) # 0 /\ (Len(c) <= 1 => Len(c) = 1)
<1>1. Len(c) \in Nat /\ Len(c) # 0
  BY DEF Chains
<1>2. PICK x \in Nat : x = Len(c)
  BY <1>1
<1>3. x # 0 /\ (x <= 1 => x = 1)
  BY <1>1, <1>2
<1> QED BY <1>1, <1>2, <1>3

\* The first node, then the others from the last to the second.
LEMMA ChainOrderIs ==
  ASSUME NEW s \in Chains
  PROVE  /\ ChainOrder(s) \in Chains /\ Len(ChainOrder(s)) = Len(s)
         /\ ChainOrder(s)[1] = s[1]
         /\ \A i \in 2 .. Len(s) : ChainOrder(s)[i] = s[Len(s) + 2 - i]
<1>1. s \in Seq(Nat) /\ s # <<>> /\ Len(s) \in Nat /\ Len(s) # 0
  BY DEF Chains
<1>2. CASE Len(s) <= 1
  <2>1. ChainOrder(s) = s
    BY <1>2 DEF ChainOrder
  <2>3. Len(s) = 1
    BY <1>2, ChainLen
  <2>2. 2 .. 1 = {}
    OBVIOUS
  <2> QED BY <1>1, <2>1, <2>2, <2>3
<1>3. CASE Len(s) > 1
  <2> DEFINE L == Len(s)
             u == Tail(s)
             v == Reverse(u)
             w == <<Head(s)>> \o v
  <2>1. L \in Nat /\ L > 1 /\ Head(s) = s[1] /\ Head(s) \in Nat
    BY <1>1, <1>3
  <2>2. u \in Seq(Nat) /\ Len(u) = L - 1 /\ \A i \in 1 .. L - 1 : u[i] = s[i + 1]
    BY <1>1, <1>3
  <2> HIDE DEF u, L
  <2>3. /\ v \in Seq(Nat) /\ Len(v) = L - 1
        /\ \A i \in 1 .. L - 1 : v[i] = u[(L - 1) - i + 1]
    <3>1. v = [i \in 1 .. L - 1 |-> u[(L - 1) - i + 1]]
      BY <2>2 DEF Reverse
    <3>2. \A i \in 1 .. L - 1 : u[(L - 1) - i + 1] \in Nat
      <4>1. \A i \in 1 .. L - 1 : (L - 1) - i + 1 \in 1 .. L - 1
        BY <2>1
      <4> QED BY <2>2, <4>1
    <3>3. L - 1 \in Nat
      BY <2>1
    <3> HIDE DEF v
    <3> QED BY <3>1, <3>2, <3>3
  <2>4. <<Head(s)>> \in Seq(Nat) /\ Len(<<Head(s)>>) = 1 /\ <<Head(s)>>[1] = s[1]
    BY <2>1
  <2> HIDE DEF v
  <2>5. w \in Seq(Nat) /\ Len(w) = L /\ w[1] = s[1] /\ \A i \in 2 .. L : w[i] = v[i - 1]
    BY <2>1, <2>3, <2>4
  <2>6. \A i \in 2 .. L : w[i] = s[L + 2 - i]
    <3> SUFFICES ASSUME NEW i \in 2 .. L PROVE w[i] = s[L + 2 - i]
      OBVIOUS
    <3>1. i - 1 \in 1 .. L - 1 /\ (L - 1) - (i - 1) + 1 = L + 1 - i /\ L + 1 - i \in 1 .. L - 1
      BY <2>1
    <3>2. v[i - 1] = u[L + 1 - i]
      BY <2>3, <3>1
    <3>3. u[L + 1 - i] = s[(L + 1 - i) + 1] /\ (L + 1 - i) + 1 = L + 2 - i
      BY <2>1, <2>2, <3>1
    <3> HIDE DEF w
    <3> QED BY <2>5, <3>2, <3>3
  <2>7. ChainOrder(s) = w
    BY <1>3, <2>1 DEF ChainOrder, u, v, L
  <2>8. w # <<>>
    <3> HIDE DEF w
    <3> QED BY <2>1, <2>5
  <2> HIDE DEF w
  <2> QED BY <2>5, <2>6, <2>7, <2>8 DEF L, Chains
<1> QED BY <1>1, <1>2, <1>3

\* A new node comes behind the first.
LEMMA ChainOrderGrows ==
  ASSUME NEW s \in Chains, NEW n \in Nat
  PROVE  ChainOrder(Append(s, n)) = Chained(ChainOrder(s), n)
<1>1. s \in Seq(Nat) /\ Len(s) \in Nat /\ Len(s) # 0
  BY DEF Chains
<1> DEFINE L == Len(s)
           a == Append(s, n)
           c == ChainOrder(s)
           d == ChainOrder(a)
           e == Chained(c, n)
<1>2. /\ a \in Seq(Nat) /\ Len(a) = L + 1 /\ a[L + 1] = n
      /\ \A i \in 1 .. L : a[i] = s[i]
  BY <1>1
<1>3. c \in Seq(Nat) /\ Len(c) = L /\ c[1] = s[1] /\ \A i \in 2 .. L : c[i] = s[L + 2 - i]
  BY ChainOrderIs DEF Chains
<1> HIDE DEF L, a, c, d
<1>4. L \in Nat /\ L # 0
  BY <1>1 DEF L
<1>5. a \in Chains
  <2>1. a # <<>>
    BY <1>2, <1>4
  <2> QED BY <1>2, <2>1 DEF Chains
<1>6. d \in Seq(Nat) /\ Len(d) = L + 1 /\ d[1] = s[1] /\ \A i \in 2 .. L + 1 : d[i] = a[L + 3 - i]
  <2>1. /\ d \in Chains /\ Len(d) = Len(a) /\ d[1] = a[1]
        /\ \A i \in 2 .. Len(a) : d[i] = a[Len(a) + 2 - i]
    BY <1>5, ChainOrderIs DEF d
  <2>2. a[1] = s[1]
    BY <1>2, <1>4
  <2>3. \A i \in 2 .. L + 1 : (L + 1) + 2 - i = L + 3 - i
    BY <1>4
  <2> QED BY <1>2, <2>1, <2>2, <2>3 DEF Chains
<1>7. e \in Seq(Nat) /\ Len(e) = L + 1 /\ e[1] = s[1] /\ e[2] = n
      /\ \A i \in 3 .. L + 1 : e[i] = c[i - 1]
  <2> DEFINE x == <<Head(c), n>>
             y == Tail(c)
  <2>1. Head(c) = s[1] /\ Head(c) \in Nat
    BY <1>3, <1>4
  <2>2. x \in Seq(Nat) /\ Len(x) = 2 /\ x[1] = s[1] /\ x[2] = n
    BY <2>1
  <2>3. y \in Seq(Nat) /\ Len(y) = L - 1 /\ \A i \in 1 .. L - 1 : y[i] = c[i + 1]
    BY <1>3, <1>4
  <2>4. e = x \o y
    BY DEF Chained
  <2> HIDE DEF x, y, e
  <2> DEFINE z == x \o y
  <2>5. /\ z \in Seq(Nat) /\ Len(z) = L + 1
        /\ z[1] = s[1] /\ z[2] = n
        /\ \A i \in 3 .. L + 1 : z[i] = y[i - 2]
    <3>1. /\ z \in Seq(Nat) /\ Len(z) = Len(x) + Len(y)
          /\ \A i \in 1 .. Len(x) + Len(y) : z[i] = IF i <= Len(x) THEN x[i] ELSE y[i - Len(x)]
      BY <2>2, <2>3, ConcatProperties
    <3> HIDE DEF z
    <3>2. Len(x) + Len(y) = L + 1 /\ Len(x) = 2 /\ 1 \in 1 .. L + 1 /\ 2 \in 1 .. L + 1
      BY <1>4, <2>2, <2>3
    <3>3. z[1] = s[1] /\ z[2] = n
      BY <2>2, <3>1, <3>2
    <3>4. \A i \in 3 .. L + 1 : i \in 1 .. L + 1 /\ ~(i <= 2)
      BY <1>4
    <3> QED BY <3>1, <3>2, <3>3, <3>4
  <2>6. \A i \in 3 .. L + 1 : i - 2 \in 1 .. L - 1 /\ (i - 2) + 1 = i - 1
    BY <1>4
  <2> HIDE DEF z
  <2>7. e = z
    BY <2>4 DEF z
  <2> QED BY <2>3, <2>5, <2>6, <2>7
<1> HIDE DEF e
<1>8. ASSUME NEW i \in 1 .. L + 1 PROVE d[i] = e[i]
  <2>1. CASE i = 1
    BY <1>6, <1>7, <2>1
  <2>2. CASE i = 2
    <3>1. i \in 2 .. L + 1 /\ L + 3 - i = L + 1
      BY <1>4, <2>2
    <3> QED BY <1>2, <1>6, <1>7, <2>2, <3>1
  <2>3. CASE i > 2
    <3>1. /\ i \in 2 .. L + 1 /\ i \in 3 .. L + 1 /\ i - 1 \in 2 .. L
          /\ L + 3 - i \in 1 .. L /\ L + 2 - (i - 1) = L + 3 - i
      BY <1>4, <2>3
    <3>2. d[i] = s[L + 3 - i]
      BY <1>2, <1>6, <3>1
    <3>3. e[i] = s[L + 3 - i]
      BY <1>3, <1>7, <3>1
    <3> QED BY <3>2, <3>3
  <2> QED BY <1>4, <2>1, <2>2, <2>3
<1>9. d = e
  BY <1>6, <1>7, <1>8, SeqEqual
<1> QED BY <1>9 DEF d, e, a, c

\* The tree is balanced, and what hangs on its keys are the nodes that were inserted and
\* not removed.
AvlInv ==
  /\ nodes \in [Key -> Seq(Nat)]
  /\ removes => \A k \in Key : Len(nodes[k]) <= 1
  /\ Good(root)
  /\ \A k \in Key, e \in Chains :
       <<k, e>> \in Pairs(root) <=> nodes[k] # <<>> /\ e = ChainOrder(nodes[k])

\* At first the tree is empty.
LEMMA AvlInvInit == AvlInit => AvlInv
<1> SUFFICES ASSUME AvlInit PROVE AvlInv
  OBVIOUS
<1>1. root = Null /\ nodes = [k \in Key |-> <<>>]
  BY DEF AvlInit
<1>2. Good(root) /\ Pairs(root) = {}
  BY <1>1, PairsAre
<1>3. \A k \in Key : nodes[k] = <<>>
  BY <1>1
<1>4. nodes \in [Key -> Seq(Nat)]
  <2>1. <<>> \in Seq(Nat)
    OBVIOUS
  <2> QED BY <1>1, <2>1
<1>5. Len(<<>>) <= 1
  OBVIOUS
<1> QED BY <1>2, <1>3, <1>4, <1>5 DEF AvlInv

\* pw_avl_insert keeps the invariant, ...
LEMMA AvlInvInsert ==
  ASSUME AvlInv, NEW key \in Key, Insert(key) PROVE AvlInv'
<1> DEFINE n == Len(nodes[key]) + 1
           s == nodes[key]
<1>1. /\ nodes \in [Key -> Seq(Nat)] /\ Good(root) /\ s \in Seq(Nat)
      /\ removes => \A k \in Key : Len(nodes[k]) <= 1
  BY DEF AvlInv
<1>2. /\ height(root) < MaxHeight /\ Len(s) < (IF removes THEN 1 ELSE MaxEqual)
      /\ root' = insert(root, key, n) /\ nodes' = [nodes EXCEPT ![key] = Append(s, n)]
      /\ removes' = removes
  BY DEF Insert
<1>3. n \in Nat /\ Len(s) \in Nat
  BY <1>1
<1>4. \A k \in Key, e \in Chains :
        <<k, e>> \in Pairs(root) <=> nodes[k] # <<>> /\ e = ChainOrder(nodes[k])
  BY DEF AvlInv
<1>5. Inserted(root, root', key, n)
  <2> HIDE DEF n
  <2> QED BY <1>1, <1>2, <1>3, InsertWorks
<1>6. /\ Append(s, n) \in Seq(Nat) /\ Len(Append(s, n)) = Len(s) + 1 /\ Append(s, n) # <<>>
      /\ s = <<>> => Append(s, n) = <<n>>
  <2> HIDE DEF s, n
  <2>1. /\ Append(s, n) \in Seq(Nat) /\ Len(Append(s, n)) = Len(s) + 1
        /\ Append(s, n)[Len(s) + 1] = n
    BY <1>1, <1>3, AppendProperties
  <2>2. Append(s, n) # <<>>
    BY <1>3, <2>1
  <2>3. ASSUME s = <<>> PROVE Append(s, n) = <<n>>
    BY <1>3, <2>3
  <2> QED BY <2>1, <2>2, <2>3
<1>7. /\ nodes' \in [Key -> Seq(Nat)] /\ nodes'[key] = Append(s, n)
      /\ \A k \in Key : k # key => nodes'[k] = nodes[k]
  BY <1>1, <1>2, <1>6
<1> HIDE DEF n, s
<1>8. removes' => \A k \in Key : Len(nodes'[k]) <= 1
  <2> SUFFICES ASSUME removes, NEW k \in Key PROVE Len(nodes'[k]) <= 1
    BY <1>2
  <2>1. CASE k = key
    BY <1>2, <1>3, <1>6, <1>7, <2>1
  <2>2. CASE k # key
    BY <1>1, <1>7, <2>2
  <2> QED BY <2>1, <2>2
<1>9. Good(root') /\ Hangs(root, root', key, n)
  BY <1>5 DEF Inserted
<1>10. s # <<>> => s \in Chains /\ ChainOrder(s) \in Chains
  BY <1>1, ChainOrderIs DEF Chains
<1>11. CASE s = <<>>
  <2>1. \A e \in Chains : <<key, e>> \notin Pairs(root)
    BY <1>4, <1>11 DEF s
  <2>2. Pairs(root') = Pairs(root) \cup {<<key, <<n>>>>}
    BY <1>9, <2>1 DEF Hangs
  <2>3. nodes'[key] = <<n>> /\ nodes'[key] # <<>> /\ ChainOrder(<<n>>) = <<n>>
    <3>1. Len(<<n>>) <= 1
      OBVIOUS
    <3> QED BY <1>6, <1>7, <1>11, <3>1 DEF ChainOrder
  <2>4. ASSUME NEW k \in Key, NEW e \in Chains
        PROVE  <<k, e>> \in Pairs(root') <=> nodes'[k] # <<>> /\ e = ChainOrder(nodes'[k])
    <3>1. CASE k = key
      BY <2>1, <2>2, <2>3, <3>1
    <3>2. CASE k # key
      BY <1>4, <1>7, <2>2, <3>2
    <3> QED BY <3>1, <3>2
  <2> QED BY <1>7, <1>8, <1>9, <2>4 DEF AvlInv
<1>12. CASE s # <<>>
  <2> DEFINE c == ChainOrder(s)
             d == Chained(c, n)
  <2>1. <<key, c>> \in Pairs(root) /\ \A e \in Chains : <<key, e>> \in Pairs(root) => e = c
    BY <1>4, <1>10, <1>12 DEF s
  <2>2. c \in Chains
    BY <1>10, <1>12
  <2> HIDE DEF c, d
  <2>3. Pairs(root') = (Pairs(root) \ {<<key, c>>}) \cup {<<key, d>>}
    <3>1. PICK e \in Chains : /\ <<key, e>> \in Pairs(root)
                              /\ Pairs(root') = (Pairs(root) \ {<<key, e>>}) \cup {<<key, Chained(e, n)>>}
      BY <1>9, <2>1, <2>2 DEF Hangs
    <3> QED BY <2>1, <3>1 DEF d
  <2>4. nodes'[key] # <<>> /\ ChainOrder(nodes'[key]) = d
    <3>1. ChainOrder(Append(s, n)) = Chained(ChainOrder(s), n)
      BY <1>3, <1>10, <1>12, ChainOrderGrows
    <3> QED BY <1>6, <1>7, <3>1 DEF c, d
  <2>5. ASSUME NEW k \in Key, NEW e \in Chains
        PROVE  <<k, e>> \in Pairs(root') <=> nodes'[k] # <<>> /\ e = ChainOrder(nodes'[k])
    <3>1. CASE k = key
      BY <2>1, <2>3, <2>4, <3>1
    <3>2. CASE k # key
      BY <1>4, <1>7, <2>3, <3>2
    <3> QED BY <3>1, <3>2
  <2> QED BY <1>7, <1>8, <1>9, <2>5 DEF AvlInv
<1> QED BY <1>11, <1>12

\* ... and so does pw_avl_remove, used with keys that differ.
LEMMA AvlInvRemove ==
  ASSUME AvlInv, NEW key \in Key, RemoveNode(key) PROVE AvlInv'
<1> DEFINE s == nodes[key]
           d == [key |-> key, n |-> Head(s)]
<1>1. /\ nodes \in [Key -> Seq(Nat)] /\ Good(root) /\ s \in Seq(Nat)
      /\ removes => \A k \in Key : Len(nodes[k]) <= 1
  BY DEF AvlInv
<1>2. /\ removes /\ s # <<>> /\ root' = remove_node(root, d)
      /\ nodes' = [nodes EXCEPT ![key] = <<>>] /\ removes' = removes
  BY DEF RemoveNode
<1>3. \A k \in Key, e \in Chains :
        <<k, e>> \in Pairs(root) <=> nodes[k] # <<>> /\ e = ChainOrder(nodes[k])
  BY DEF AvlInv
<1>4. \A k \in Key : ChainOrder(nodes[k]) = nodes[k]
  BY <1>1, <1>2 DEF ChainOrder
<1>5. Alone(root)
  <2> SUFFICES ASSUME NEW k \in Key, NEW e \in Chains, <<k, e>> \in Pairs(root) PROVE Len(e) = 1
    BY DEF Alone
  <2>1. e = nodes[k] /\ nodes[k] \in Seq(Nat) /\ Len(nodes[k]) <= 1 /\ nodes[k] # <<>>
    BY <1>1, <1>2, <1>3, <1>4
  <2> QED BY <2>1, ChainLen
<1>6. Head(s) \in Nat /\ s = <<Head(s)>> /\ s \in Chains
  <2>1. s \in Chains
    BY <1>1, <1>2 DEF Chains
  <2>2. Len(s) = 1
    <3>1. Len(s) <= 1
      BY <1>1, <1>2
    <3> HIDE DEF s
    <3> QED BY <2>1, <3>1, ChainLen
  <2> HIDE DEF s
  <2> QED BY <2>1, <2>2, OneChain
<1>7. d \in [key : Key, n : Nat] /\ d.key = key /\ <<d.n>> = s
  <2> HIDE DEF s
  <2> QED BY <1>6
<1>8. <<key, s>> \in Pairs(root)
  BY <1>2, <1>3, <1>4, <1>6
<1> HIDE DEF d
<1>9. Removed(root, root', d)
  <2>1. <<d.key, <<d.n>>>> \in Pairs(root)
    BY <1>7, <1>8
  <2> HIDE DEF s
  <2> QED BY <1>1, <1>2, <1>5, <1>7, <2>1, RemoveWorks
<1>10. Good(root') /\ Pairs(root') = Pairs(root) \ {<<key, s>>}
  BY <1>7, <1>9 DEF Removed
<1>11. /\ nodes' \in [Key -> Seq(Nat)] /\ nodes'[key] = <<>>
       /\ \A k \in Key : k # key => nodes'[k] = nodes[k]
  <2>1. <<>> \in Seq(Nat)
    OBVIOUS
  <2> QED BY <1>1, <1>2, <2>1
<1>12. removes' => \A k \in Key : Len(nodes'[k]) <= 1
  <2>1. Len(<<>>) <= 1
    OBVIOUS
  <2> QED BY <1>1, <1>2, <1>11, <2>1
<1>13. ASSUME NEW k \in Key, NEW e \in Chains
       PROVE  <<k, e>> \in Pairs(root') <=> nodes'[k] # <<>> /\ e = ChainOrder(nodes'[k])
  <2>1. CASE k = key
    <3>1. <<key, e>> \notin Pairs(root')
      BY <1>3, <1>4, <1>10
    <3> QED BY <1>11, <2>1, <3>1
  <2>2. CASE k # key
    BY <1>3, <1>10, <1>11, <2>2
  <2> QED BY <2>1, <2>2
<1> QED BY <1>10, <1>11, <1>12, <1>13 DEF AvlInv

\* After any series of insertions and removals the tree is balanced and has on every key
\* the nodes that it should have: pw_avl_insert and pw_avl_remove lose none.
THEOREM TreeInvariant == AvlSpec => []AvlInv
<1>1. AvlInit => AvlInv
  BY AvlInvInit
<1>2. AvlInv /\ [AvlNext]_avlVars => AvlInv'
  <2> SUFFICES ASSUME AvlInv, [AvlNext]_avlVars PROVE AvlInv'
    OBVIOUS
  <2>1. CASE \E k \in Key : Insert(k)
    BY <2>1, AvlInvInsert
  <2>2. CASE \E k \in Key : RemoveNode(k)
    BY <2>2, AvlInvRemove
  <2>3. CASE UNCHANGED avlVars
    BY <2>3 DEF AvlInv, avlVars
  <2> QED BY <2>1, <2>2, <2>3 DEF AvlNext
<1> QED BY <1>1, <1>2, PTL DEF AvlSpec

\* So pw_avl_insert and pw_avl_remove keep the tree balanced and in order ...
THEOREM TreeBalanced == AvlSpec => []Balanced
<1>1. AvlInv => Balanced
  BY DEF AvlInv, Good, NodeBalanced, Balanced
<1> QED BY <1>1, TreeInvariant, PTL

\* ... and pw_avl_get and pw_avl_get_next find the nodes of a key, in the chain's order.
THEOREM SearchFindsAll == AvlSpec => []FindsAll
<1>1. ASSUME AvlInv PROVE FindsAll
  <2> SUFFICES ASSUME NEW k \in Key PROVE Found(root, k) = ChainOrder(nodes[k])
    BY DEF FindsAll
  <2>1. /\ Good(root) /\ nodes[k] \in Seq(Nat)
        /\ \A e \in Chains : <<k, e>> \in Pairs(root) <=> nodes[k] # <<>> /\ e = ChainOrder(nodes[k])
    BY <1>1 DEF AvlInv
  <2>2. CASE nodes[k] = <<>>
    <3>1. ChainOrder(<<>>) = <<>>
      <4>1. Len(<<>>) <= 1
        OBVIOUS
      <4> QED BY <4>1 DEF ChainOrder
    <3>2. Found(root, k) = <<>>
      BY <2>1, <2>2, FoundWorks
    <3> QED BY <2>2, <3>1, <3>2
  <2>3. CASE nodes[k] # <<>>
    <3>1. ChainOrder(nodes[k]) \in Chains
      BY <2>1, <2>3, ChainOrderIs DEF Chains
    <3>2. <<k, ChainOrder(nodes[k])>> \in Pairs(root)
      BY <2>1, <2>3, <3>1
    <3> QED BY <2>1, <3>1, <3>2, FoundWorks
  <2> QED BY <2>2, <2>3
<1> QED BY <1>1, TreeInvariant, PTL
-----------------------------------------------------------------------------
(* The ID map: lookups *)

\* A later index does not change the least one.
LEMMA MinGrows ==
  ASSUME NEW n \in Nat, NEW S \in SUBSET (1 .. n), S # {}
  PROVE  Min(S \cup {n + 1}) = Min(S)
<1>1. S \in SUBSET Nat /\ S \cup {n + 1} \in SUBSET Nat
  OBVIOUS
<1>2. Min(S) \in S /\ \A j \in S : Min(S) <= j
  BY <1>1, MinIs
<1>3. Min(S \cup {n + 1}) \in S \cup {n + 1} /\ \A j \in S \cup {n + 1} : Min(S \cup {n + 1}) <= j
  BY <1>1, MinIs
<1>4. PICK a \in S : a = Min(S)
  BY <1>2
<1>5. PICK b \in S \cup {n + 1} : b = Min(S \cup {n + 1})
  BY <1>3
<1>6. a \in 1 .. n /\ b \in Nat /\ b <= a
  <2>1. a \in 1 .. n /\ b \in Nat
    BY <1>1, <1>4, <1>5
  <2>2. b <= a
    BY <1>3, <1>4, <1>5
  <2> QED BY <2>1, <2>2
<1>7. b \in S
  BY <1>5, <1>6
<1>8. a <= b
  BY <1>2, <1>4, <1>7
<1> QED BY <1>4, <1>5, <1>6, <1>8

\* A search finds an element of the type, if there is one.
LEMMA FirstElIs ==
  ASSUME NEW n \in Nat, DOMAIN els = 1 .. n, NEW found \in SUBSET DOMAIN els, NEW t
  PROVE  \/ FirstEl(found, t) = 0 /\ found \cap OfType(t) = {}
         \/ FirstEl(found, t) \in found \cap OfType(t)
<1> DEFINE hits == found \cap OfType(t)
<1>1. CASE hits = {}
  BY <1>1 DEF FirstEl
<1>2. CASE hits # {}
  <2>1. hits \in SUBSET (0 .. n)
    OBVIOUS
  <2>2. Max(hits) \in hits
    <3> HIDE DEF hits
    <3> QED BY <1>2, <2>1, MaxIs
  <2> QED BY <1>2, <2>2 DEF FirstEl
<1> QED BY <1>1, <1>2

\* Elements that keep their lids and types are found where they were.
LEMMA AskedSame ==
  ASSUME DOMAIN els' = DOMAIN els,
         \A e \in DOMAIN els : els'[e].lid = els[e].lid /\ els'[e].type = els[e].type,
         NEW k, NEW t
  PROVE  Asked(k, t)' = Asked(k, t)
<1>1. ByLid(k)' = ByLid(k)
  BY DEF ByLid
<1>2. OfType(t)' = OfType(t)
  BY DEF OfType
<1> QED BY <1>1, <1>2 DEF Asked, FirstEl

\* What a lid and a type are found at does not change when an element is added that goes
\* with none of that lid.
LEMMA AskedStays ==
  ASSUME NEW n \in Nat, DOMAIN els = 1 .. n, DOMAIN els' = 1 .. (n + 1),
         \A e \in DOMAIN els : els'[e] = els[e],
         \A e \in DOMAIN els : els[e].lid = els'[n + 1].lid => ~Goes(els'[n + 1].type, els[e].type),
         NEW k, NEW t, Asked(k, t) # 0
  PROVE  Asked(k, t)' = Asked(k, t)
<1> DEFINE B == ByLid(k)
           H == B \cap OfType(t)
           new == n + 1
<1>1. B \in SUBSET (1 .. n) /\ H \in SUBSET (0 .. n) /\ H \in SUBSET Nat /\ B \in SUBSET Nat
  BY DEF ByLid, OfType
<1>2. H # {} /\ B # {}
  BY DEF Asked, FirstEl
<1>3. Asked(k, t) = IF Min(B) \in H THEN Min(B) ELSE Max(H)
  BY <1>2 DEF Asked, FirstEl
<1>4. ByLid(k)' = IF els'[new].lid = k THEN B \cup {new} ELSE B
  BY DEF ByLid
<1>5. OfType(t)' = IF Goes(t, els'[new].type) THEN OfType(t) \cup {new} ELSE OfType(t)
  BY DEF OfType
<1>6. Min(B \cup {new}) = Min(B)
  <2> HIDE DEF B
  <2> QED BY <1>1, <1>2, MinGrows
<1>7. CASE els'[new].lid # k
  <2>1. (ByLid(k) \cap OfType(t))' = H
    BY <1>1, <1>4, <1>5, <1>7
  <2>2. Asked(k, t)' = IF Min(B) \in H THEN Min(B) ELSE Max(H)
    <3> HIDE DEF H, B
    <3> QED BY <1>2, <1>4, <1>7, <2>1 DEF Asked, FirstEl, B
  <2> QED BY <1>3, <2>2
<1>8. CASE els'[new].lid = k /\ ~Goes(t, els'[new].type)
  <2>1. (ByLid(k) \cap OfType(t))' = H
    <3>1. OfType(t) \subseteq 1 .. n /\ new \notin OfType(t)
      BY DEF OfType
    <3>2. OfType(t)' = OfType(t) /\ ByLid(k)' = B \cup {new}
      BY <1>4, <1>5, <1>8
    <3> HIDE DEF B, new
    <3> QED BY <3>1, <3>2 DEF H
  <2>2. Asked(k, t)' = IF Min(B) \in H THEN Min(B) ELSE Max(H)
    <3> HIDE DEF H, B
    <3> QED BY <1>2, <1>4, <1>6, <1>8, <2>1 DEF Asked, FirstEl
  <2> QED BY <1>3, <2>2
<1>9. CASE els'[new].lid = k /\ Goes(t, els'[new].type)
  <2>1. PICK h \in H : TRUE
    BY <1>2
  <2>2. h \in DOMAIN els /\ els[h].lid = k /\ Goes(t, els[h].type) /\ ~Goes(els'[new].type, els[h].type)
    BY <1>9, <2>1 DEF ByLid, OfType
  <2>3. t = AnyType
    BY <1>9, <2>2 DEF Goes
  <2>4. H = B
    BY <2>3 DEF ByLid, OfType, Goes
  <2>5. Min(B) \in B
    BY <1>1, <1>2, MinIs
  <2>6. (ByLid(k) \cap OfType(t))' = B \cup {new}
    BY <1>4, <1>5, <1>9, <2>4
  <2>7. Asked(k, t)' = Min(B)
    <3> HIDE DEF H, B
    <3> QED BY <1>4, <1>6, <1>9, <2>5, <2>6 DEF Asked, FirstEl
  <2> QED BY <1>3, <2>4, <2>5, <2>7
<1> QED BY <1>7, <1>8, <1>9

-----------------------------------------------------------------------------
(* The ID map: callbacks.  w has those that wait, for each element, a all  *)
(* that were accepted, c those that were made.                             *)

\* Every callback waits at one element or was made once; those of an element wait in the
\* order they came; and of two with one long lid and type the first is made first.
EachOnce(w, a, c) ==
  /\ \A n \in DOMAIN c : c[n] \in DOMAIN a
  /\ \A n, m \in DOMAIN c : c[n] = c[m] => n = m
  /\ \A e \in DOMAIN w : \A p \in DOMAIN w[e] :
       w[e][p] \in DOMAIN a /\ \A n \in DOMAIN c : c[n] # w[e][p]
  /\ \A e, f \in DOMAIN w : \A p \in DOMAIN w[e], q \in DOMAIN w[f] : w[e][p] = w[f][q] => e = f
  /\ \A j \in DOMAIN a : \/ \E n \in DOMAIN c : c[n] = j
                         \/ \E e \in DOMAIN w : \E p \in DOMAIN w[e] : w[e][p] = j

InTurn(w, a, c) ==
  /\ \A e \in DOMAIN w : \A p, q \in DOMAIN w[e] : p < q => w[e][p] < w[e][q]
  /\ \A n, m \in DOMAIN c :
       a[c[n]] = a[c[m]] /\ a[c[n]].lid \in Long /\ c[n] < c[m] => n < m
  /\ \A m \in DOMAIN c, e \in DOMAIN w : \A p \in DOMAIN w[e] :
       a[c[m]] = a[w[e][p]] /\ a[c[m]].lid \in Long => c[m] < w[e][p]

\* Those with one long lid and type wait at the same element.
Together(w, a) ==
  \A e, f \in DOMAIN w : \A p \in DOMAIN w[e], q \in DOMAIN w[f] :
    a[w[e][p]] = a[w[f][q]] /\ a[w[e][p]].lid \in Long => e = f

Ask == [lid : Long \cup Short, type : Types]
Queues(w, a, c) == w \in Seq(Seq(Nat)) /\ a \in Seq(Ask) /\ c \in Seq(Nat)

\* Those that wait at an element are made, in turn.
LEMMA ServeAll ==
  ASSUME NEW w, NEW a, NEW c, Queues(w, a, c), EachOnce(w, a, c), InTurn(w, a, c), Together(w, a),
         NEW e \in DOMAIN w
  PROVE  LET v == [w EXCEPT ![e] = <<>>]
             d == c \o w[e]
         IN  Queues(v, a, d) /\ EachOnce(v, a, d) /\ InTurn(v, a, d)
<1> DEFINE v == [w EXCEPT ![e] = <<>>]
           x == w[e]
           d == c \o x
<1>1. w \in Seq(Seq(Nat)) /\ a \in Seq(Ask) /\ c \in Seq(Nat) /\ x \in Seq(Nat)
  BY DEF Queues
<1>2. Queues(v, a, d)
  <2>1. v \in Seq(Seq(Nat))
    BY <1>1
  <2>2. d \in Seq(Nat)
    BY <1>1
  <2> QED BY <1>1, <2>1, <2>2 DEF Queues
<1>3. DOMAIN v = DOMAIN w /\ v[e] = <<>> /\ \A f \in DOMAIN w : f # e => v[f] = w[f]
  BY <1>1
<1>4. /\ DOMAIN d = 1 .. (Len(c) + Len(x)) /\ DOMAIN c = 1 .. Len(c) /\ DOMAIN x = 1 .. Len(x)
      /\ \A n \in DOMAIN c : n \in DOMAIN d /\ d[n] = c[n]
      /\ \A p \in DOMAIN x : Len(c) + p \in DOMAIN d /\ d[Len(c) + p] = x[p]
  BY <1>1
<1>5. \A n \in DOMAIN d : n \in DOMAIN c \/ \E p \in DOMAIN x : n = Len(c) + p
  <2> SUFFICES ASSUME NEW n \in DOMAIN d, n \notin DOMAIN c
               PROVE  \E p \in DOMAIN x : n = Len(c) + p
    OBVIOUS
  <2>1. Len(c) \in Nat /\ Len(x) \in Nat /\ n \in 1 .. (Len(c) + Len(x)) /\ n > Len(c)
    BY <1>1, <1>4
  <2>2. n - Len(c) \in 1 .. Len(x) /\ n = Len(c) + (n - Len(c))
    BY <2>1
  <2> QED BY <1>4, <2>2
<1>6. \A f \in DOMAIN v : \A p \in DOMAIN v[f] : f \in DOMAIN w /\ f # e /\ p \in DOMAIN w[f] /\ v[f][p] = w[f][p]
  <2> SUFFICES ASSUME NEW f \in DOMAIN v, NEW p \in DOMAIN v[f]
               PROVE  f # e /\ p \in DOMAIN w[f] /\ v[f][p] = w[f][p]
    BY <1>3
  <2>1. DOMAIN v[e] = {}
    BY <1>3
  <2> QED BY <1>3, <2>1
<1>7. Len(c) \in Nat /\ \A n \in DOMAIN c, p \in DOMAIN x : n < Len(c) + p
  <2>1. Len(c) \in Nat /\ Len(x) \in Nat
    BY <1>1
  <2> QED BY <1>4, <2>1
<1>8. EachOnce(v, a, d)
  <2>1. \A n \in DOMAIN d : d[n] \in DOMAIN a
    BY <1>4, <1>5 DEF EachOnce
  <2>2. \A p, q \in DOMAIN x : x[p] = x[q] => p = q
    <3> SUFFICES ASSUME NEW p \in DOMAIN x, NEW q \in DOMAIN x, x[p] = x[q] PROVE p = q
      OBVIOUS
    <3>1. p \in Nat /\ q \in Nat /\ x[p] \in Nat /\ x[q] \in Nat
      BY <1>1
    <3>2. ~(p < q) /\ ~(q < p)
      <4>1. (p < q => x[p] < x[q]) /\ (q < p => x[q] < x[p])
        BY DEF InTurn
      <4> QED BY <3>1, <4>1
    <3> QED BY <3>1, <3>2
  <2>3. \A n \in DOMAIN c, p \in DOMAIN x : c[n] # x[p]
    BY DEF EachOnce
  <2>4. \A n, m \in DOMAIN c : c[n] = c[m] => n = m
    BY DEF EachOnce
  <2>5. \A n, m \in DOMAIN d : d[n] = d[m] => n = m
    <3> HIDE DEF d, x, v
    <3> SUFFICES ASSUME NEW n \in DOMAIN d, NEW m \in DOMAIN d, d[n] = d[m] PROVE n = m
      OBVIOUS
    <3>1. CASE n \in DOMAIN c /\ m \in DOMAIN c
      BY <1>4, <2>4, <3>1
    <3>2. CASE n \in DOMAIN c /\ m \notin DOMAIN c
      BY <1>4, <1>5, <2>3, <3>2
    <3>3. CASE n \notin DOMAIN c /\ m \in DOMAIN c
      BY <1>4, <1>5, <2>3, <3>3
    <3>4. CASE n \notin DOMAIN c /\ m \notin DOMAIN c
      <4>1. PICK p \in DOMAIN x : n = Len(c) + p
        BY <1>5, <3>4
      <4>2. PICK q \in DOMAIN x : m = Len(c) + q
        BY <1>5, <3>4
      <4>3. x[p] = x[q]
        BY <1>4, <4>1, <4>2
      <4> QED BY <2>2, <4>1, <4>2, <4>3
    <3> QED BY <3>1, <3>2, <3>3, <3>4
  <2>6. \A f \in DOMAIN v : \A p \in DOMAIN v[f] :
          v[f][p] \in DOMAIN a /\ \A n \in DOMAIN d : d[n] # v[f][p]
    <3> SUFFICES ASSUME NEW f \in DOMAIN v, NEW p \in DOMAIN v[f]
                 PROVE  w[f][p] \in DOMAIN a /\ \A n \in DOMAIN d : d[n] # w[f][p]
      BY <1>6
    <3>1. f \in DOMAIN w /\ f # e /\ p \in DOMAIN w[f]
      BY <1>6
    <3>2. \A q \in DOMAIN x : x[q] # w[f][p]
      BY <3>1 DEF EachOnce
    <3>3. w[f][p] \in DOMAIN a /\ \A n \in DOMAIN c : c[n] # w[f][p]
      BY <3>1 DEF EachOnce
    <3> HIDE DEF d, x, v
    <3> QED BY <1>4, <1>5, <3>2, <3>3
  <2>7. \A f, g \in DOMAIN v : \A p \in DOMAIN v[f], q \in DOMAIN v[g] : v[f][p] = v[g][q] => f = g
    <3> HIDE DEF v
    <3> QED BY <1>6 DEF EachOnce
  <2>8. \A j \in DOMAIN a : \/ \E n \in DOMAIN d : d[n] = j
                            \/ \E f \in DOMAIN v : \E p \in DOMAIN v[f] : v[f][p] = j
    <3> SUFFICES ASSUME NEW j \in DOMAIN a
                 PROVE  \/ \E n \in DOMAIN d : d[n] = j
                        \/ \E f \in DOMAIN v : \E p \in DOMAIN v[f] : v[f][p] = j
      OBVIOUS
    <3>1. CASE \E n \in DOMAIN c : c[n] = j
      BY <1>4, <3>1
    <3>2. CASE \E f \in DOMAIN w : \E p \in DOMAIN w[f] : w[f][p] = j
      <4>1. PICK f \in DOMAIN w : \E p \in DOMAIN w[f] : w[f][p] = j
        BY <3>2
      <4>2. CASE f = e
        BY <1>4, <4>1, <4>2
      <4>3. CASE f # e
        <5>1. v[f] = w[f] /\ f \in DOMAIN v
          BY <1>3, <4>3
        <5> QED BY <4>1, <5>1
      <4> QED BY <4>2, <4>3
    <3> QED BY <3>1, <3>2 DEF EachOnce
  <2> HIDE DEF d, v
  <2> QED BY <2>1, <2>5, <2>6, <2>7, <2>8 DEF EachOnce
<1>9. InTurn(v, a, d)
  <2>1. \A f \in DOMAIN v : \A p, q \in DOMAIN v[f] : p < q => v[f][p] < v[f][q]
    <3> HIDE DEF v
    <3> QED BY <1>6 DEF InTurn
  <2>2. \A p, q \in DOMAIN x : x[p] < x[q] => p < q
    <3> SUFFICES ASSUME NEW p \in DOMAIN x, NEW q \in DOMAIN x, x[p] < x[q] PROVE p < q
      OBVIOUS
    <3>1. p \in Nat /\ q \in Nat /\ x[p] \in Nat /\ x[q] \in Nat
      BY <1>1
    <3>2. (q < p => x[q] < x[p])
      BY DEF InTurn
    <3>3. p # q
      BY <3>1
    <3> QED BY <3>1, <3>2, <3>3
  <2>3. \A n \in DOMAIN c, p \in DOMAIN x : a[c[n]] = a[x[p]] /\ a[c[n]].lid \in Long => c[n] < x[p]
    BY DEF InTurn
  <2>4. \A n, m \in DOMAIN c : a[c[n]] = a[c[m]] /\ a[c[n]].lid \in Long /\ c[n] < c[m] => n < m
    BY DEF InTurn
  <2>5. \A n, m \in DOMAIN d : a[d[n]] = a[d[m]] /\ a[d[n]].lid \in Long /\ d[n] < d[m] => n < m
    <3>1. c \in Seq(Nat) /\ x \in Seq(Nat)
      BY <1>1
    <3> HIDE DEF d, x, v
    <3> SUFFICES ASSUME NEW n \in DOMAIN d, NEW m \in DOMAIN d,
                        a[d[n]] = a[d[m]], a[d[n]].lid \in Long, d[n] < d[m]
                 PROVE  n < m
      OBVIOUS
    <3>2. CASE n \in DOMAIN c /\ m \in DOMAIN c
      BY <1>4, <2>4, <3>2
    <3>3. CASE n \in DOMAIN c /\ m \notin DOMAIN c
      BY <1>5, <1>7, <3>3
    <3>4. CASE n \notin DOMAIN c /\ m \in DOMAIN c
      <4>1. PICK p \in DOMAIN x : n = Len(c) + p
        BY <1>5, <3>4
      <4>2. d[n] = x[p] /\ d[m] = c[m] /\ c[m] \in Nat /\ x[p] \in Nat
        BY <1>4, <3>1, <3>4, <4>1
      <4>3. c[m] < x[p]
        BY <2>3, <3>4, <4>2
      <4> QED BY <4>2, <4>3
    <3>5. CASE n \notin DOMAIN c /\ m \notin DOMAIN c
      <4>1. PICK p \in DOMAIN x : n = Len(c) + p
        BY <1>5, <3>5
      <4>2. PICK q \in DOMAIN x : m = Len(c) + q
        BY <1>5, <3>5
      <4>3. p < q
        BY <1>4, <2>2, <4>1, <4>2
      <4>4. p \in Nat /\ q \in Nat
        BY <3>1
      <4> QED BY <1>7, <4>1, <4>2, <4>3, <4>4
    <3> QED BY <3>2, <3>3, <3>4, <3>5
  <2>6. \A m \in DOMAIN d, f \in DOMAIN v : \A p \in DOMAIN v[f] :
          a[d[m]] = a[v[f][p]] /\ a[d[m]].lid \in Long => d[m] < v[f][p]
    <3> SUFFICES ASSUME NEW m \in DOMAIN d, NEW f \in DOMAIN v, NEW p \in DOMAIN v[f],
                        a[d[m]] = a[w[f][p]], a[d[m]].lid \in Long
                 PROVE  d[m] < w[f][p]
      BY <1>6
    <3>1. f \in DOMAIN w /\ f # e /\ p \in DOMAIN w[f]
      BY <1>6
    <3>2. m \in DOMAIN c
      <4> SUFFICES ASSUME m \notin DOMAIN c PROVE FALSE
        OBVIOUS
      <4>1. PICK q \in DOMAIN x : m = Len(c) + q
        BY <1>5
      <4>2. a[w[e][q]] = a[w[f][p]] /\ a[w[e][q]].lid \in Long
        BY <1>4, <4>1
      <4> QED BY <3>1, <4>2 DEF Together
    <3>3. d[m] = c[m]
      BY <1>4, <3>2
    <3> HIDE DEF d, x, v
    <3> QED BY <3>1, <3>2, <3>3 DEF InTurn
  <2> HIDE DEF d, v
  <2> QED BY <2>1, <2>5, <2>6 DEF InTurn
<1> QED BY <1>2, <1>8, <1>9

\* Another callback waits at an element.
LEMMA QueueOne ==
  ASSUME NEW w, NEW a, NEW c, Queues(w, a, c), EachOnce(w, a, c), InTurn(w, a, c),
         NEW e \in DOMAIN w, NEW ask \in Ask
  PROVE  LET v == [w EXCEPT ![e] = Append(@, Len(a) + 1)]
             b == Append(a, ask)
         IN  Queues(v, b, c) /\ EachOnce(v, b, c) /\ InTurn(v, b, c)
<1> DEFINE j == Len(a) + 1
           v == [w EXCEPT ![e] = Append(@, j)]
           b == Append(a, ask)
           x == w[e]
           y == Append(x, j)
           z == Len(x) + 1
<1>1. w \in Seq(Seq(Nat)) /\ a \in Seq(Ask) /\ c \in Seq(Nat) /\ x \in Seq(Nat) /\ j \in Nat
  BY DEF Queues
<1>2. Queues(v, b, c)
  <2>1. y \in Seq(Nat)
    BY <1>1
  <2>2. v \in Seq(Seq(Nat))
    <3> HIDE DEF j, x
    <3> QED BY <1>1, <2>1 DEF x
  <2>3. b \in Seq(Ask)
    BY <1>1
  <2> QED BY <1>1, <2>2, <2>3 DEF Queues
<1>3. DOMAIN v = DOMAIN w /\ v[e] = y /\ \A f \in DOMAIN w : f # e => v[f] = w[f]
  BY <1>1
<1>4. /\ DOMAIN y = 1 .. z /\ DOMAIN x = 1 .. Len(x) /\ y[z] = j /\ z \in Nat
      /\ \A p \in DOMAIN x : p \in DOMAIN y /\ y[p] = x[p] /\ p < z
  BY <1>1
<1>5. \A p \in DOMAIN y : p \in DOMAIN x \/ p = z
  <2>1. Len(x) \in Nat
    BY <1>1
  <2> QED BY <1>4, <2>1
<1>6. /\ DOMAIN a = 1 .. Len(a) /\ DOMAIN b = 1 .. j /\ b[j] = ask
      /\ \A i \in DOMAIN a : i \in DOMAIN b /\ b[i] = a[i] /\ i < j
  BY <1>1
<1>7. \A f \in DOMAIN v : \A p \in DOMAIN v[f] :
        \/ f \in DOMAIN w /\ p \in DOMAIN w[f] /\ v[f][p] = w[f][p] /\ w[f][p] \in DOMAIN a
        \/ f = e /\ p = z /\ v[f][p] = j
  <2> SUFFICES ASSUME NEW f \in DOMAIN v, NEW p \in DOMAIN v[f]
               PROVE  \/ f \in DOMAIN w /\ p \in DOMAIN w[f] /\ v[f][p] = w[f][p] /\ w[f][p] \in DOMAIN a
                      \/ f = e /\ p = z /\ v[f][p] = j
    OBVIOUS
  <2>1. CASE f # e
    BY <1>3, <2>1 DEF EachOnce
  <2>2. CASE f = e /\ p \in DOMAIN x
    <3>1. v[f][p] = x[p]
      BY <1>3, <1>4, <2>2
    <3> HIDE DEF v
    <3> QED BY <1>3, <2>2, <3>1 DEF EachOnce
  <2>3. CASE f = e /\ p \notin DOMAIN x
    <3>1. p = z /\ v[f][p] = j
      <4> HIDE DEF v, y, x, z, j
      <4> QED BY <1>3, <1>4, <1>5, <2>3
    <3> QED BY <2>3, <3>1
  <2> QED BY <2>1, <2>2, <2>3
<1>8. \A n \in DOMAIN c : c[n] \in DOMAIN a /\ c[n] # j /\ b[c[n]] = a[c[n]] /\ c[n] < j
  <2>1. \A n \in DOMAIN c : c[n] \in DOMAIN a
    BY DEF EachOnce
  <2>2. \A i \in DOMAIN a : i # j
    BY <1>1, <1>6
  <2> HIDE DEF j, b
  <2> QED BY <1>6, <2>1, <2>2
<1>9. j \notin DOMAIN a
  BY <1>1, <1>6
<1>10. EachOnce(v, b, c)
  <2> HIDE DEF v, y, x, z, j, b
  <2>1. \A n \in DOMAIN c : c[n] \in DOMAIN b
    BY <1>6, <1>8
  <2>2. \A n, m \in DOMAIN c : c[n] = c[m] => n = m
    BY DEF EachOnce
  <2>3. \A f \in DOMAIN v : \A p \in DOMAIN v[f] :
          v[f][p] \in DOMAIN b /\ \A n \in DOMAIN c : c[n] # v[f][p]
    <3> SUFFICES ASSUME NEW f \in DOMAIN v, NEW p \in DOMAIN v[f]
                 PROVE  v[f][p] \in DOMAIN b /\ \A n \in DOMAIN c : c[n] # v[f][p]
      OBVIOUS
    <3>1. CASE f \in DOMAIN w /\ p \in DOMAIN w[f] /\ v[f][p] = w[f][p] /\ w[f][p] \in DOMAIN a
      BY <1>6, <3>1 DEF EachOnce
    <3>2. CASE v[f][p] = j
      <4>1. j \in DOMAIN b
        BY <1>1, <1>6 DEF j
      <4> QED BY <1>8, <3>2, <4>1
    <3> QED BY <1>7, <3>1, <3>2
  <2>4. \A f, g \in DOMAIN v : \A p \in DOMAIN v[f], q \in DOMAIN v[g] : v[f][p] = v[g][q] => f = g
    BY <1>7, <1>9 DEF EachOnce
  <2>5. \A i \in DOMAIN b : \/ \E n \in DOMAIN c : c[n] = i
                            \/ \E f \in DOMAIN v : \E p \in DOMAIN v[f] : v[f][p] = i
    <3> SUFFICES ASSUME NEW i \in DOMAIN b
                 PROVE  \/ \E n \in DOMAIN c : c[n] = i
                        \/ \E f \in DOMAIN v : \E p \in DOMAIN v[f] : v[f][p] = i
      OBVIOUS
    <3>1. CASE i = j
      <4>1. z \in DOMAIN v[e] /\ v[e][z] = j /\ e \in DOMAIN v
        <5>1. z \in DOMAIN y
          BY <1>1, <1>4 DEF z
        <5> QED BY <1>3, <1>4, <5>1
      <4> QED BY <3>1, <4>1
    <3>2. CASE \E n \in DOMAIN c : c[n] = i
      BY <3>2
    <3>3. CASE \E f \in DOMAIN w : \E p \in DOMAIN w[f] : w[f][p] = i
      <4>1. PICK f \in DOMAIN w : \E p \in DOMAIN w[f] : w[f][p] = i
        BY <3>3
      <4>2. PICK p \in DOMAIN w[f] : w[f][p] = i
        BY <4>1
      <4>3. p \in DOMAIN v[f] /\ v[f][p] = i /\ f \in DOMAIN v
        <5>1. CASE f = e
          BY <1>3, <1>4, <4>2, <5>1 DEF x
        <5>2. CASE f # e
          BY <1>3, <4>2, <5>2
        <5> QED BY <5>1, <5>2
      <4> QED BY <4>3
    <3>4. i \in DOMAIN a \/ i = j
      BY <1>1, <1>6 DEF j
    <3> QED BY <3>1, <3>2, <3>3, <3>4 DEF EachOnce
  <2> QED BY <2>1, <2>2, <2>3, <2>4, <2>5 DEF EachOnce
<1>11. InTurn(v, b, c)
  <2> HIDE DEF v, y, x, z, j, b
  <2>1. \A f \in DOMAIN v : \A p, q \in DOMAIN v[f] : p < q => v[f][p] < v[f][q]
    <3> SUFFICES ASSUME NEW f \in DOMAIN v, NEW p \in DOMAIN v[f], NEW q \in DOMAIN v[f], p < q
                 PROVE  v[f][p] < v[f][q]
      OBVIOUS
    <3>1. CASE p \in DOMAIN w[f] /\ v[f][p] = w[f][p] /\ q \in DOMAIN w[f] /\ v[f][q] = w[f][q]
      BY <1>3, <3>1 DEF InTurn
    <3>2. CASE v[f][p] \in DOMAIN a /\ v[f][q] = j
      BY <1>6, <3>2
    <3>3. CASE f = e /\ p = z
      <4>1. q \in DOMAIN y /\ p \in DOMAIN y
        BY <1>3, <3>3
      <4>2. FALSE
        BY <1>4, <1>5, <3>3, <4>1
      <4> QED BY <4>2
    <3> QED BY <1>7, <3>1, <3>2, <3>3
  <2>2. \A n, m \in DOMAIN c :
          b[c[n]] = b[c[m]] /\ b[c[n]].lid \in Long /\ c[n] < c[m] => n < m
    BY <1>8 DEF InTurn
  <2>3. \A m \in DOMAIN c, f \in DOMAIN v : \A p \in DOMAIN v[f] :
          b[c[m]] = b[v[f][p]] /\ b[c[m]].lid \in Long => c[m] < v[f][p]
    <3> SUFFICES ASSUME NEW m \in DOMAIN c, NEW f \in DOMAIN v, NEW p \in DOMAIN v[f],
                        b[c[m]] = b[v[f][p]], b[c[m]].lid \in Long
                 PROVE  c[m] < v[f][p]
      OBVIOUS
    <3>1. CASE f \in DOMAIN w /\ p \in DOMAIN w[f] /\ v[f][p] = w[f][p] /\ w[f][p] \in DOMAIN a
      BY <1>6, <1>8, <3>1 DEF InTurn
    <3>2. CASE v[f][p] = j
      BY <1>8, <3>2
    <3> QED BY <1>7, <3>1, <3>2
  <2> QED BY <2>1, <2>2, <2>3 DEF InTurn
<1> QED BY <1>2, <1>10, <1>11

\* A callback that is made at once, when none like it waits.
LEMMA CallOne ==
  ASSUME NEW w, NEW a, NEW c, Queues(w, a, c), EachOnce(w, a, c), InTurn(w, a, c),
         NEW ask \in Ask,
         \A e \in DOMAIN w : \A p \in DOMAIN w[e] : a[w[e][p]] = ask => ask.lid \notin Long
  PROVE  LET b == Append(a, ask)
             d == Append(c, Len(a) + 1)
         IN  Queues(w, b, d) /\ EachOnce(w, b, d) /\ InTurn(w, b, d)
<1> DEFINE j == Len(a) + 1
           b == Append(a, ask)
           d == Append(c, j)
           z == Len(c) + 1
<1>1. w \in Seq(Seq(Nat)) /\ a \in Seq(Ask) /\ c \in Seq(Nat) /\ j \in Nat
  BY DEF Queues
<1>2. Queues(w, b, d)
  <2>1. b \in Seq(Ask) /\ d \in Seq(Nat)
    BY <1>1
  <2> QED BY <1>1, <2>1 DEF Queues
<1>3. /\ DOMAIN d = 1 .. z /\ z \in DOMAIN d /\ d[z] = j
      /\ \A n \in DOMAIN c : n \in DOMAIN d /\ d[n] = c[n] /\ n < z
  BY <1>1
<1>4. \A n \in DOMAIN d : n \in DOMAIN c \/ n = z
  BY <1>1
<1>5. /\ DOMAIN a = 1 .. Len(a) /\ j \in DOMAIN b /\ b[j] = ask
      /\ \A i \in DOMAIN a : i \in DOMAIN b /\ b[i] = a[i] /\ i < j
  BY <1>1
<1>6. \A i \in DOMAIN b : i \in DOMAIN a \/ i = j
  BY <1>1
<1>7. j \notin DOMAIN a
  BY <1>1, <1>5
<1>8. (\A n \in DOMAIN c : c[n] \in DOMAIN a) /\ \A f \in DOMAIN w : \A p \in DOMAIN w[f] : w[f][p] \in DOMAIN a
  BY DEF EachOnce
<1> HIDE DEF z, j, b, d
<1>9. EachOnce(w, b, d)
  <2>1. \A n \in DOMAIN d : d[n] \in DOMAIN b
    BY <1>3, <1>4, <1>5, <1>8
  <2>2. \A n, m \in DOMAIN d : d[n] = d[m] => n = m
    <3>1. \A n, m \in DOMAIN c : c[n] = c[m] => n = m
      BY DEF EachOnce
    <3> QED BY <1>3, <1>4, <1>7, <1>8, <3>1
  <2>3. \A f \in DOMAIN w : \A p \in DOMAIN w[f] :
          w[f][p] \in DOMAIN b /\ \A n \in DOMAIN d : d[n] # w[f][p]
    <3>1. \A f \in DOMAIN w : \A p \in DOMAIN w[f] : \A n \in DOMAIN c : c[n] # w[f][p]
      BY DEF EachOnce
    <3> QED BY <1>3, <1>4, <1>5, <1>7, <1>8, <3>1
  <2>4. \A f, g \in DOMAIN w : \A p \in DOMAIN w[f], q \in DOMAIN w[g] : w[f][p] = w[g][q] => f = g
    BY DEF EachOnce
  <2>5. \A i \in DOMAIN b : \/ \E n \in DOMAIN d : d[n] = i
                            \/ \E f \in DOMAIN w : \E p \in DOMAIN w[f] : w[f][p] = i
    <3>1. \A i \in DOMAIN a : \/ \E n \in DOMAIN c : c[n] = i
                              \/ \E f \in DOMAIN w : \E p \in DOMAIN w[f] : w[f][p] = i
      BY DEF EachOnce
    <3> QED BY <1>3, <1>6, <3>1
  <2> QED BY <2>1, <2>2, <2>3, <2>4, <2>5 DEF EachOnce
<1>10. InTurn(w, b, d)
  <2>1. \A f \in DOMAIN w : \A p, q \in DOMAIN w[f] : p < q => w[f][p] < w[f][q]
    BY DEF InTurn
  <2>2. \A n, m \in DOMAIN d :
          b[d[n]] = b[d[m]] /\ b[d[n]].lid \in Long /\ d[n] < d[m] => n < m
    <3> SUFFICES ASSUME NEW n \in DOMAIN d, NEW m \in DOMAIN d,
                        b[d[n]] = b[d[m]], b[d[n]].lid \in Long, d[n] < d[m]
                 PROVE  n < m
      OBVIOUS
    <3>1. CASE n \in DOMAIN c /\ m \in DOMAIN c
      BY <1>3, <1>5, <1>8, <3>1 DEF InTurn
    <3>2. CASE n \in DOMAIN c /\ m = z
      BY <1>3, <3>2
    <3>3. CASE n = z
      <4>1. d[m] \in DOMAIN a \/ d[m] = j
        BY <1>3, <1>4, <1>8
      <4>2. d[n] = j /\ ~(j < j) /\ \A i \in DOMAIN a : ~(j < i)
        BY <1>1, <1>3, <1>5, <3>3
      <4> QED BY <4>1, <4>2
    <3> QED BY <1>4, <3>1, <3>2, <3>3
  <2>3. \A m \in DOMAIN d, f \in DOMAIN w : \A p \in DOMAIN w[f] :
          b[d[m]] = b[w[f][p]] /\ b[d[m]].lid \in Long => d[m] < w[f][p]
    <3> SUFFICES ASSUME NEW m \in DOMAIN d, NEW f \in DOMAIN w, NEW p \in DOMAIN w[f],
                        b[d[m]] = b[w[f][p]], b[d[m]].lid \in Long
                 PROVE  d[m] < w[f][p]
      OBVIOUS
    <3>1. CASE m \in DOMAIN c
      BY <1>3, <1>5, <1>8, <3>1 DEF InTurn
    <3>2. CASE m = z
      BY <1>3, <1>5, <1>8, <3>2
    <3> QED BY <1>4, <3>1, <3>2
  <2> QED BY <2>1, <2>2, <2>3 DEF InTurn
<1> QED BY <1>2, <1>9, <1>10 DEF b, d, j

\* A new element, at which nothing waits yet.
LEMMA AddOne ==
  ASSUME NEW w, NEW a, NEW c, Queues(w, a, c), EachOnce(w, a, c), InTurn(w, a, c)
  PROVE  LET v == Append(w, <<>>)
         IN  Queues(v, a, c) /\ EachOnce(v, a, c) /\ InTurn(v, a, c)
<1> DEFINE v == Append(w, <<>>)
           new == Len(w) + 1
<1>1. w \in Seq(Seq(Nat)) /\ <<>> \in Seq(Nat)
  BY DEF Queues
<1>2. Queues(v, a, c)
  <2>1. v \in Seq(Seq(Nat))
    BY <1>1
  <2> QED BY <2>1 DEF Queues
<1>3. /\ \A f \in DOMAIN w : f \in DOMAIN v /\ v[f] = w[f]
      /\ \A f \in DOMAIN v : f \in DOMAIN w \/ f = new
      /\ v[new] = <<>>
  BY <1>1
<1>4. DOMAIN v[new] = {}
  BY <1>3
<1>5. \A f \in DOMAIN v : \A p \in DOMAIN v[f] : f \in DOMAIN w /\ p \in DOMAIN w[f] /\ v[f][p] = w[f][p]
  BY <1>3, <1>4
<1> HIDE DEF v, new
<1>6. EachOnce(v, a, c)
  <2>1. \A n \in DOMAIN c : c[n] \in DOMAIN a
    BY DEF EachOnce
  <2>2. \A n, m \in DOMAIN c : c[n] = c[m] => n = m
    BY DEF EachOnce
  <2>3. \A f \in DOMAIN v : \A p \in DOMAIN v[f] :
          v[f][p] \in DOMAIN a /\ \A n \in DOMAIN c : c[n] # v[f][p]
    BY <1>5 DEF EachOnce
  <2>4. \A f, g \in DOMAIN v : \A p \in DOMAIN v[f], q \in DOMAIN v[g] : v[f][p] = v[g][q] => f = g
    BY <1>5 DEF EachOnce
  <2>5. \A i \in DOMAIN a : \/ \E n \in DOMAIN c : c[n] = i
                            \/ \E f \in DOMAIN v : \E p \in DOMAIN v[f] : v[f][p] = i
    <3>1. \A i \in DOMAIN a : \/ \E n \in DOMAIN c : c[n] = i
                              \/ \E f \in DOMAIN w : \E p \in DOMAIN w[f] : w[f][p] = i
      BY DEF EachOnce
    <3> QED BY <1>3, <3>1
  <2> QED BY <2>1, <2>2, <2>3, <2>4, <2>5 DEF EachOnce
<1>7. InTurn(v, a, c)
  <2>1. \A f \in DOMAIN v : \A p, q \in DOMAIN v[f] : p < q => v[f][p] < v[f][q]
    BY <1>5 DEF InTurn
  <2>2. \A n, m \in DOMAIN c :
          a[c[n]] = a[c[m]] /\ a[c[n]].lid \in Long /\ c[n] < c[m] => n < m
    BY DEF InTurn
  <2>3. \A m \in DOMAIN c, f \in DOMAIN v : \A p \in DOMAIN v[f] :
          a[c[m]] = a[v[f][p]] /\ a[c[m]].lid \in Long => c[m] < v[f][p]
    BY <1>5 DEF InTurn
  <2> QED BY <2>1, <2>2, <2>3 DEF InTurn
<1> QED BY <1>2, <1>6, <1>7 DEF v
-----------------------------------------------------------------------------
(* The ID map: the inductive invariant *)

Entry == [id : Nat, type : Types]
Elem  == [lid : Long \cup Short, id : Nat, type : Types, is_async_fn : BOOLEAN, waits : Seq(Nat)]

MapTypes ==
  /\ els \in Seq(Elem) /\ max_id \in Nat
  /\ asks \in Seq(Ask) /\ called \in Seq(Nat)
  /\ DOMAIN mapping \subseteq Long /\ mapping \in [DOMAIN mapping -> Entry]

\* Until the ids run out, none is above max_id, so the next one is new.  The map has all
\* that is given and not lost, and what is in the file, now or when it was read.
IdsInv ==
  /\ ~Worn => /\ Injective(mapping) /\ max_id <= MaxId
              /\ \A l \in DOMAIN mapping : mapping[l].id <= max_id
  /\ max_id <= Top /\ \A l \in DOMAIN mapping : mapping[l].id <= Top
  /\ \A l \in DOMAIN mapping : <<l, mapping[l].id>> \in given
  /\ \A g \in given : g[1] \notin lost => g[1] \in DOMAIN mapping /\ mapping[g[1]].id = g[2]
  /\ DOMAIN file \subseteq DOMAIN mapping /\ file \in [DOMAIN file -> Entry]
  /\ \A l \in DOMAIN file : file[l].id = mapping[l].id
  /\ DOMAIN read \subseteq DOMAIN mapping
  /\ \A l \in DOMAIN read : read[l].id = mapping[l].id

\* An element with a long lid has the id of its mapping.
ElsMapped ==
  \A e \in DOMAIN els : els[e].lid \in Long =>
    els[e].lid \in DOMAIN mapping /\ els[e].id = mapping[els[e].lid].id

Waits == [e \in DOMAIN els |-> els[e].waits]

SetHasNone == \A e \in DOMAIN els : ~els[e].is_async_fn => els[e].waits = <<>>

\* A callback for a long lid waits where a lookup of that lid and type arrives.
Located ==
  \A e \in DOMAIN els : \A p \in DOMAIN els[e].waits, l \in Long, u \in Types :
    asks[els[e].waits[p]] = [lid |-> l, type |-> u] => e = Asked(l, u)

CallsInv == EachOnce(Waits, asks, called) /\ InTurn(Waits, asks, called)

MapInv == MapTypes /\ IdsInv /\ ElsMapped /\ SetHasNone /\ Located /\ CallsInv

\* The types of what the lemmas about queues speak of.
LEMMA WaitsIs ==
  ASSUME MapTypes
  PROVE  /\ Queues(Waits, asks, called) /\ DOMAIN Waits = DOMAIN els
         /\ Len(els) \in Nat /\ DOMAIN els = 1 .. Len(els)
         /\ \A e \in DOMAIN els : Waits[e] = els[e].waits /\ els[e] \in Elem /\ e # 0
<1>1. els \in Seq(Elem) /\ asks \in Seq(Ask) /\ called \in Seq(Nat)
  BY DEF MapTypes
<1>2. Len(els) \in Nat /\ DOMAIN els = 1 .. Len(els) /\ \A e \in DOMAIN els : els[e] \in Elem /\ e # 0
  BY <1>1
<1>3. \A e \in DOMAIN els : els[e].waits \in Seq(Nat)
  BY <1>2 DEF Elem
<1>4. Waits \in [1 .. Len(els) -> Seq(Nat)]
  BY <1>2, <1>3 DEF Waits
<1>5. Waits \in Seq(Seq(Nat))
  BY <1>2, <1>4
<1> QED BY <1>1, <1>2, <1>5 DEF Waits, Queues

\* Callbacks for one long lid and type wait at one element, as each is where a lookup arrives.
LEMMA LocatedTogether ==
  ASSUME MapTypes, Located, CallsInv
  PROVE  Together(Waits, asks)
<1>1. DOMAIN Waits = DOMAIN els /\ \A e \in DOMAIN els : Waits[e] = els[e].waits
  BY WaitsIs
<1> SUFFICES ASSUME NEW e \in DOMAIN els, NEW f \in DOMAIN els,
                    NEW p \in DOMAIN els[e].waits, NEW q \in DOMAIN els[f].waits,
                    asks[els[e].waits[p]] = asks[els[f].waits[q]],
                    asks[els[e].waits[p]].lid \in Long
             PROVE  e = f
  BY <1>1 DEF Together
<1>2. els[e].waits[p] \in DOMAIN asks
  BY <1>1 DEF CallsInv, EachOnce
<1>3. asks[els[e].waits[p]] \in Ask
  BY <1>2 DEF MapTypes
<1>4. PICK l \in Long, u \in Types : asks[els[e].waits[p]] = [lid |-> l, type |-> u]
  BY <1>3 DEF Ask
<1>5. asks[els[f].waits[q]] = [lid |-> l, type |-> u]
  BY <1>4
<1>6. e = Asked(l, u)
  BY <1>4 DEF Located
<1>7. f = Asked(l, u)
  BY <1>5 DEF Located
<1> QED BY <1>6, <1>7

\* _idmap_get, and the lookup of pw_idmap_get_async.
LEMMA LookupsAre ==
  ASSUME MapTypes, NEW k \in Long \cup Short, NEW t \in Types
  PROVE  /\ Asked(k, t) # 0 => Asked(k, t) \in ByLid(k) \cap OfType(t)
         /\ Asked(k, t) = 0 => ByLid(k) \cap OfType(t) = {}
         /\ AnyEl(k, t) # 0 => AnyEl(k, t) \in DOMAIN els
         /\ AnyEl(k, t) = 0 => Asked(k, t) = 0 /\ (k \notin Long => ById(k) \cap OfType(t) = {})
         /\ AnyEl(k, t) # 0 /\ Asked(k, t) = 0 => k \notin Long
<1>1. Len(els) \in Nat /\ DOMAIN els = 1 .. Len(els) /\ 0 \notin DOMAIN els
  BY WaitsIs
<1>2. ByLid(k) \subseteq DOMAIN els /\ ById(k) \subseteq DOMAIN els
  BY DEF ByLid, ById
<1>3. \/ FirstEl(ByLid(k), t) = 0 /\ ByLid(k) \cap OfType(t) = {}
      \/ FirstEl(ByLid(k), t) \in ByLid(k) \cap OfType(t)
  BY <1>1, <1>2, FirstElIs
<1>4. \/ FirstEl(ById(k), t) = 0 /\ ById(k) \cap OfType(t) = {}
      \/ FirstEl(ById(k), t) \in ById(k) \cap OfType(t)
  BY <1>1, <1>2, FirstElIs
<1> QED BY <1>1, <1>2, <1>3, <1>4 DEF Asked, AnyEl

\* pw_idmap_set adds an element only where none of its lid goes with its type.
LEMMA NoneGoes ==
  ASSUME MapTypes, IdsInv, ElsMapped, NEW k \in Long \cup Short, NEW t \in Types, AnyEl(k, t) = 0
  PROVE  /\ LidOf(k, t) \in Long \cup Short
         /\ k \in Long => LidOf(k, t) = k
         /\ \A e \in DOMAIN els : els[e].lid = LidOf(k, t) => ~Goes(t, els[e].type)
<1> DEFINE from == {l \in DOMAIN read : k \in Short /\ read[l].id = k /\ Goes(t, read[l].type)}
           lid  == LidOf(k, t)
<1>1. ByLid(k) \cap OfType(t) = {} /\ (k \notin Long => ById(k) \cap OfType(t) = {})
  BY LookupsAre
<1>2. CASE lid = k
  BY <1>1, <1>2 DEF ByLid, OfType
<1>3. CASE lid # k
  <2>1. from # {}
    BY <1>3 DEF LidOf
  <2>2. lid \in from
    <3>1. lid = CHOOSE l \in from : TRUE
      BY <2>1 DEF LidOf
    <3> HIDE DEF from, lid
    <3> QED BY <2>1, <3>1
  <2>3. lid \in DOMAIN read /\ k \in Short /\ read[lid].id = k
    BY <2>2
  <2> HIDE DEF lid, from
  <2>4. lid \in DOMAIN mapping /\ lid \in Long /\ mapping[lid].id = k
    BY <2>3 DEF IdsInv, MapTypes
  <2>5. k \notin Long
    BY <2>3, IdMapAssumption
  <2>6. ASSUME NEW e \in DOMAIN els, els[e].lid = lid PROVE ~Goes(t, els[e].type)
    <3>1. els[e].id = k
      BY <2>4, <2>6 DEF ElsMapped
    <3> QED BY <1>1, <2>5, <3>1 DEF ById, OfType
  <2> QED BY <2>4, <2>5, <2>6 DEF lid
<1> QED BY <1>2, <1>3

\* max_id, raised to the id that was given out, and what it is then until the ids run out.
LEMMA RaisedIs ==
  ASSUME NEW n \in Nat, max_id \in Nat
  PROVE  /\ Raised(n) \in Nat
         /\ n <= Top /\ max_id <= Top => Raised(n) <= Top
         /\ n <= MaxId /\ max_id <= MaxId => /\ Raised(n) <= MaxId
                                             /\ n <= Raised(n) /\ max_id <= Raised(n)
BY IdMapAssumption DEF Raised, Signed, Top

\* A new element: its id, a new one if the lid is long and not mapped yet, stays the lid's.
LEMMA NewElIds ==
  ASSUME MapTypes, IdsInv, ElsMapped, NEW k \in Long \cup Short, NEW t \in Types, AnyEl(k, t) = 0,
         NEW async \in BOOLEAN, NEW asked \in Seq(Nat),
         NewEl(k, t, async, asked), UNCHANGED <<read, file>>
  PROVE  /\ IdsInv' /\ ElsMapped'
         /\ max_id' \in Nat /\ DOMAIN mapping' \subseteq Long /\ mapping' \in [DOMAIN mapping' -> Entry]
         /\ \E r \in Elem : /\ els' = Append(els, r)
                            /\ r.lid = LidOf(k, t) /\ r.type = t /\ r.is_async_fn = async /\ r.waits = asked
<1> DEFINE lid == LidOf(k, t)
           id  == IdOf(lid)
           r   == [lid |-> lid, id |-> id, type |-> t, is_async_fn |-> async, waits |-> asked]
           new == [id |-> id, type |-> t]
<1>1. lid \in Long \cup Short
  BY NoneGoes
<1>2. /\ els' = Append(els, r)
      /\ mapping' = IF Fresh(lid)
                    THEN [l \in DOMAIN mapping \cup {lid} |-> IF l = lid THEN new ELSE mapping[l]]
                    ELSE mapping
      /\ given' = IF Fresh(lid) THEN given \cup {<<lid, id>>} ELSE given
      /\ max_id' \in IF Fresh(lid) /\ id = Top THEN {max_id, Top} ELSE {Raised(id)}
      /\ lost' = lost /\ ~RanOut(lid)
  BY DEF NewEl
<1>3. /\ DOMAIN mapping \subseteq Long /\ mapping \in [DOMAIN mapping -> Entry] /\ max_id \in Nat
      /\ max_id <= Top /\ \A l \in DOMAIN mapping : mapping[l].id \in Nat /\ mapping[l].id <= Top
      /\ ~Worn => max_id <= MaxId /\ \A l \in DOMAIN mapping : mapping[l].id <= max_id
  BY DEF MapTypes, IdsInv, Entry
<1>4. id \in Nat /\ (lid \in Short => id = lid) /\ (Fresh(lid) => id = max_id + 1)
      /\ (lid \in DOMAIN mapping => id = mapping[lid].id) /\ id <= Top
  <2> HIDE DEF lid
  <2>1. CASE lid \in Short
    BY <1>3, <2>1, IdMapAssumption DEF IdOf, Fresh, Top
  <2>2. CASE Fresh(lid)
    <3>1. lid \notin Short /\ max_id # Top
      BY <1>2, <2>2, IdMapAssumption DEF Fresh, RanOut
    <3> QED BY <1>3, <2>2, <3>1, IdMapAssumption DEF IdOf, Fresh, Top
  <2>3. CASE lid \in DOMAIN mapping
    <3>1. lid \notin Short
      BY <1>3, <2>3, IdMapAssumption
    <3> QED BY <1>3, <2>3, <3>1 DEF IdOf, Fresh
  <2> QED BY <1>1, <2>1, <2>2, <2>3 DEF Fresh
<1>5. r \in Elem /\ new \in Entry
  <2> HIDE DEF lid, id
  <2> QED BY <1>1, <1>4 DEF Elem, Entry
<1>6. max_id' \in Nat /\ max_id' <= Top /\ given \subseteq given'
  <2> HIDE DEF lid, id
  <2> QED BY <1>2, <1>3, <1>4, RaisedIs, IdMapAssumption DEF Top
<1>7. Worn => Worn'
  BY <1>6 DEF Worn
<1>8. ~Worn' => max_id' <= MaxId /\ max_id <= max_id' /\ id <= max_id'
  <2> SUFFICES ASSUME ~Worn' PROVE max_id' <= MaxId /\ max_id <= max_id' /\ id <= max_id'
    OBVIOUS
  <2> HIDE DEF lid, id
  <2>1. max_id <= MaxId /\ \A l \in DOMAIN mapping : mapping[l].id <= max_id
    BY <1>3, <1>7
  <2>2. ~(Fresh(lid) /\ id = Top)
    <3> SUFFICES ASSUME Fresh(lid), id = Top PROVE FALSE
      OBVIOUS
    <3>1. <<lid, id>> \in given'
      BY <1>2
    <3>2. <<lid, id>>[2] = Top
      OBVIOUS
    <3> QED BY <3>1, <3>2 DEF Worn
  <2>3. max_id' = Raised(id)
    BY <1>2, <2>2
  <2>4. id <= MaxId
    <3>1. CASE lid \in Short
      BY <1>4, <3>1, IdMapAssumption
    <3>2. CASE Fresh(lid)
      BY <1>3, <1>4, <2>1, <2>2, <3>2, IdMapAssumption DEF Top
    <3>3. CASE lid \in DOMAIN mapping
      BY <1>3, <1>4, <2>1, <3>3, IdMapAssumption
    <3> QED BY <1>1, <3>1, <3>2, <3>3 DEF Fresh
  <2> QED BY <1>3, <1>4, <2>1, <2>3, <2>4, RaisedIs
<1>9. CASE Fresh(lid)
  <2>1. /\ DOMAIN mapping' = DOMAIN mapping \cup {lid} /\ mapping'[lid] = new
        /\ mapping' \in [DOMAIN mapping' -> Entry]
        /\ \A l \in DOMAIN mapping : mapping'[l] = mapping[l]
    <3>1. mapping' = [l \in DOMAIN mapping \cup {lid} |-> IF l = lid THEN new ELSE mapping[l]]
      BY <1>2, <1>9
    <3>2. lid \notin DOMAIN mapping
      BY <1>9 DEF Fresh
    <3> HIDE DEF lid, new
    <3> QED BY <1>3, <1>5, <3>1, <3>2
  <2>2. id = max_id + 1 /\ given' = given \cup {<<lid, id>>} /\ new.id = id
    BY <1>2, <1>4, <1>9
  <2>3. ~Worn' => Injective(mapping')
    <3> SUFFICES ASSUME ~Worn' PROVE Injective(mapping')
      OBVIOUS
    <3>1. \A l \in DOMAIN mapping : mapping[l].id # new.id
      <4> HIDE DEF lid, id, new
      <4> QED BY <1>3, <1>7, <2>2
    <3>2. Injective(mapping)
      BY <1>7 DEF IdsInv
    <3> HIDE DEF lid, new, id
    <3> QED BY <2>1, <3>1, <3>2 DEF Injective
  <2>4. ~Worn' => \A l \in DOMAIN mapping' : mapping'[l].id <= max_id'
    <3> HIDE DEF lid, new, id
    <3> QED BY <1>3, <1>4, <1>6, <1>7, <1>8, <2>1, <2>2
  <2>8. \A l \in DOMAIN mapping' : mapping'[l].id <= Top
    <3> HIDE DEF lid, new, id
    <3> QED BY <1>3, <1>4, <2>1, <2>2
  <2>5. IdsInv'
    <3> HIDE DEF lid, new, id
    <3>1. /\ DOMAIN file \subseteq DOMAIN mapping /\ file \in [DOMAIN file -> Entry]
          /\ \A l \in DOMAIN file : file[l].id = mapping[l].id
          /\ DOMAIN read \subseteq DOMAIN mapping
          /\ \A l \in DOMAIN read : read[l].id = mapping[l].id
      BY DEF IdsInv
    <3>2. \A l \in DOMAIN mapping' : <<l, mapping'[l].id>> \in given'
      BY <2>1, <2>2 DEF IdsInv
    <3>3. \A g \in given' : g[1] \notin lost' => g[1] \in DOMAIN mapping' /\ mapping'[g[1]].id = g[2]
      <4> SUFFICES ASSUME NEW g \in given', g[1] \notin lost
                   PROVE  g[1] \in DOMAIN mapping' /\ mapping'[g[1]].id = g[2]
        BY <1>2
      <4>1. CASE g \in given
        BY <2>1, <4>1 DEF IdsInv
      <4>2. CASE g = <<lid, id>>
        <5>1. g[1] = lid /\ g[2] = id
          BY <4>2
        <5> QED BY <2>1, <2>2, <5>1
      <4> QED BY <2>2, <4>1, <4>2
    <3>4. UNCHANGED <<read, file>> /\ DOMAIN mapping \subseteq DOMAIN mapping'
      BY <2>1
    <3>5. /\ DOMAIN file' \subseteq DOMAIN mapping' /\ file' \in [DOMAIN file' -> Entry]
          /\ \A l \in DOMAIN file' : file'[l].id = mapping'[l].id
          /\ DOMAIN read' \subseteq DOMAIN mapping'
          /\ \A l \in DOMAIN read' : read'[l].id = mapping'[l].id
      BY <2>1, <3>1, <3>4
    <3>6. ~Worn' => max_id' <= MaxId
      BY <1>8
    <3> HIDE DEF Worn, Top, Injective
    <3> QED BY <1>6, <2>3, <2>4, <2>8, <3>2, <3>3, <3>5, <3>6 DEF IdsInv
  <2>6. ElsMapped'
    <3>1. \A e \in DOMAIN els' : (e \in DOMAIN els /\ els'[e] = els[e]) \/ els'[e] = r
      <4>1. els \in Seq(Elem)
        BY DEF MapTypes
      <4> HIDE DEF r
      <4> QED BY <1>2, <1>5, <4>1
    <3>2. r.lid = lid /\ r.id = new.id
      OBVIOUS
    <3> HIDE DEF r, lid, new, id
    <3> QED BY <2>1, <3>1, <3>2 DEF ElsMapped
  <2>7. DOMAIN mapping' \subseteq Long
    BY <1>3, <1>9, <2>1 DEF Fresh
  <2> QED BY <1>2, <1>5, <1>6, <2>1, <2>5, <2>6, <2>7
<1>10. CASE ~Fresh(lid)
  <2>1. mapping' = mapping /\ given' = given
    BY <1>2, <1>10
  <2>2. IdsInv'
    <3>1. Worn' = Worn
      BY <2>1 DEF Worn
    <3>2. ~Worn' => \A l \in DOMAIN mapping' : mapping'[l].id <= max_id'
      <4> HIDE DEF lid, id
      <4> QED BY <1>3, <1>6, <1>8, <2>1, <3>1
    <3> HIDE DEF lid, id
    <3> QED BY <1>2, <1>6, <1>8, <2>1, <3>1, <3>2 DEF IdsInv, Injective
  <2>3. ElsMapped'
    <3>1. \A e \in DOMAIN els' : (e \in DOMAIN els /\ els'[e] = els[e]) \/ els'[e] = r
      <4>1. els \in Seq(Elem)
        BY DEF MapTypes
      <4> HIDE DEF r
      <4> QED BY <1>2, <1>5, <4>1
    <3>2. lid \in Long => lid \in DOMAIN mapping /\ r.id = mapping[lid].id
      BY <1>4, <1>10 DEF Fresh
    <3>3. r.lid = lid
      OBVIOUS
    <3> HIDE DEF r, lid, id
    <3> QED BY <2>1, <3>1, <3>2, <3>3 DEF ElsMapped
  <2> QED BY <1>2, <1>3, <1>5, <1>6, <2>1, <2>2, <2>3
<1> QED BY <1>9, <1>10

\* A lookup that found an element finds the same one when another is added.
LEMMA NewElStays ==
  ASSUME MapTypes, IdsInv, ElsMapped, NEW k \in Long \cup Short, NEW t \in Types, AnyEl(k, t) = 0,
         NEW r \in Elem, els' = Append(els, r), r.lid = LidOf(k, t), r.type = t
  PROVE  \A l, u : Asked(l, u) # 0 => Asked(l, u)' = Asked(l, u)
<1>1. Len(els) \in Nat /\ DOMAIN els = 1 .. Len(els) /\ els \in Seq(Elem)
  BY WaitsIs DEF MapTypes
<1>2. DOMAIN els' = 1 .. (Len(els) + 1) /\ els'[Len(els) + 1] = r /\ \A e \in DOMAIN els : els'[e] = els[e]
  BY <1>1
<1>3. \A e \in DOMAIN els : els[e].lid = r.lid => ~Goes(r.type, els[e].type)
  BY NoneGoes
<1> SUFFICES ASSUME NEW l, NEW u, Asked(l, u) # 0 PROVE Asked(l, u)' = Asked(l, u)
  OBVIOUS
<1>4. PICK n \in Nat : n = Len(els)
  BY <1>1
<1> QED BY <1>1, <1>2, <1>3, <1>4, AskedStays

-----------------------------------------------------------------------------
(* The ID map: the steps *)

\* Nothing is set, mapped or asked for at first.
LEMMA MapInitInv == MapInit => MapInv
<1> SUFFICES ASSUME MapInit PROVE MapInv
  OBVIOUS
<1>1. els = <<>> /\ asks = <<>> /\ called = <<>> /\ max_id = 0
  BY DEF MapInit
<1>2. DOMAIN mapping = {} /\ DOMAIN file = {} /\ DOMAIN read = {} /\ mapping = NoMapping /\ file = NoMapping
  BY DEF MapInit, NoMapping
<1>3. mapping \in [DOMAIN mapping -> Entry] /\ file \in [DOMAIN file -> Entry]
  BY <1>2 DEF NoMapping
<1>4. MapTypes
  BY <1>1, <1>2, <1>3 DEF MapTypes
<1>5. IdsInv
  BY <1>1, <1>2, <1>3, IdMapAssumption DEF IdsInv, Injective, Worn, Top, MapInit
<1>6. DOMAIN els = {} /\ DOMAIN asks = {} /\ DOMAIN called = {}
  BY <1>1
<1>7. DOMAIN Waits = {}
  BY <1>6 DEF Waits
<1>8. CallsInv
  BY <1>6, <1>7 DEF CallsInv, EachOnce, InTurn
<1> QED BY <1>4, <1>5, <1>6, <1>8 DEF MapInv, ElsMapped, SetHasNone, Located

\* A process begins: nothing is asked for, and the file has what the map had, or less.
LEMMA EndsStep ==
  ASSUME MapInv, NEW entries, EndsWith(entries), file' = entries,
         DOMAIN entries \subseteq DOMAIN mapping, entries \in [DOMAIN entries -> Entry],
         \A l \in DOMAIN entries : entries[l].id = mapping[l].id
  PROVE  MapInv'
<1> DEFINE S == {entries[l].id : l \in DOMAIN entries} \cup {0}
<1>1. /\ DOMAIN mapping \subseteq Long /\ max_id \in Nat /\ Top \in Nat /\ max_id <= Top
      /\ \A l \in DOMAIN mapping : mapping[l].id \in Nat /\ mapping[l].id <= Top
      /\ ~Worn => /\ Injective(mapping) /\ max_id <= MaxId
                  /\ \A l \in DOMAIN mapping : mapping[l].id <= max_id
  BY IdMapAssumption DEF MapInv, MapTypes, IdsInv, Entry, Top
<1>2. /\ mapping' = entries /\ read' = entries /\ max_id' = Max(S)
      /\ els' = <<>> /\ asks' = <<>> /\ called' = <<>> /\ given' = given
      /\ lost' = lost \cup (DOMAIN mapping \ DOMAIN entries)
  BY DEF EndsWith, Read, Largest
<1>3. S \in SUBSET (0 .. Top) /\ S # {}
  <2>1. \A l \in DOMAIN entries : entries[l].id \in 0 .. Top
    BY <1>1
  <2> QED BY <1>1, <2>1
<1>4. Max(S) \in S /\ \A j \in S : j <= Max(S)
  <2> HIDE DEF S
  <2> QED BY <1>1, <1>3, MaxIs
<1>5. max_id' \in Nat /\ max_id' <= Top /\ \A l \in DOMAIN entries : entries[l].id <= max_id'
  <2>1. \A l \in DOMAIN entries : entries[l].id \in S
    OBVIOUS
  <2> HIDE DEF S
  <2> QED BY <1>1, <1>2, <1>3, <1>4, <2>1
<1>6. ~Worn => max_id' <= MaxId
  <2> SUFFICES ASSUME ~Worn PROVE max_id' <= MaxId
    OBVIOUS
  <2>1. \A l \in DOMAIN entries : entries[l].id <= MaxId
    <3> SUFFICES ASSUME NEW l \in DOMAIN entries PROVE entries[l].id <= MaxId
      OBVIOUS
    <3>1. mapping[l].id \in Nat /\ mapping[l].id <= max_id /\ max_id <= MaxId
      BY <1>1
    <3> QED BY <1>1, <3>1, IdMapAssumption
  <2>2. \A j \in S : j <= MaxId
    BY <2>1, IdMapAssumption
  <2> HIDE DEF S
  <2> QED BY <1>2, <1>4, <2>2
<1>7. MapTypes'
  BY <1>1, <1>2, <1>5 DEF MapTypes
<1>8. IdsInv'
  <2>1. Worn' = Worn
    BY <1>2 DEF Worn
  <2>2. ~Worn => Injective(mapping')
    BY <1>1, <1>2 DEF Injective
  <2>3. \A l \in DOMAIN mapping' : <<l, mapping'[l].id>> \in given'
    BY <1>2 DEF MapInv, IdsInv
  <2>4. \A g \in given' : g[1] \notin lost' => g[1] \in DOMAIN mapping' /\ mapping'[g[1]].id = g[2]
    BY <1>2 DEF MapInv, IdsInv
  <2>5. \A l \in DOMAIN mapping' : mapping'[l].id <= Top
    BY <1>1, <1>2
  <2> HIDE DEF S
  <2> QED BY <1>2, <1>5, <1>6, <2>1, <2>2, <2>3, <2>4, <2>5 DEF IdsInv
<1>9. DOMAIN els' = {} /\ DOMAIN asks' = {} /\ DOMAIN called' = {}
  BY <1>2
<1>10. DOMAIN Waits' = {}
  BY <1>9 DEF Waits
<1>11. CallsInv'
  BY <1>9, <1>10 DEF CallsInv, EachOnce, InTurn
<1> QED BY <1>7, <1>8, <1>9, <1>11 DEF MapInv, ElsMapped, SetHasNone, Located

\* A process that ends leaves the file to the next one.
LEMMA GoneStep == ASSUME MapInv, Gone PROVE MapInv'
<1>1. /\ DOMAIN file \subseteq DOMAIN mapping /\ file \in [DOMAIN file -> Entry]
      /\ \A l \in DOMAIN file : file[l].id = mapping[l].id
  BY DEF MapInv, IdsInv
<1> QED BY <1>1, EndsStep DEF Gone

\* A save that was cut off leaves a part of the map in the file.
LEMMA SaveCutStep == ASSUME MapInv, SaveCut PROVE MapInv'
<1>1. PICK kept \in SUBSET DOMAIN mapping :
        file' = Part(mapping, kept) /\ EndsWith(Part(mapping, kept))
  BY DEF SaveCut
<1>2. mapping \in [DOMAIN mapping -> Entry]
  BY DEF MapInv, MapTypes
<1>3. /\ DOMAIN Part(mapping, kept) = kept /\ Part(mapping, kept) \in [kept -> Entry]
      /\ \A l \in kept : Part(mapping, kept)[l].id = mapping[l].id
  BY <1>2 DEF Part
<1> QED BY <1>1, <1>3, EndsStep

\* pw_idmap_save
LEMMA SaveStep == ASSUME MapInv, Save PROVE MapInv'
<1>1. file' = mapping /\ UNCHANGED <<els, mapping, read, max_id, given, lost, can_set, asks, called>>
  BY DEF Save, mapVars
<1>2. Waits' = Waits
  BY <1>1 DEF Waits
<1>3. \A l, u : Asked(l, u)' = Asked(l, u)
  BY <1>1, AskedSame
<1>4. Located'
  BY <1>1, <1>3 DEF MapInv, Located
<1>5. MapTypes' /\ IdsInv' /\ ElsMapped' /\ SetHasNone'
  BY <1>1 DEF MapInv, MapTypes, IdsInv, Injective, Worn, ElsMapped, SetHasNone
<1>6. CallsInv'
  BY <1>1, <1>2 DEF MapInv, CallsInv
<1> QED BY <1>4, <1>5, <1>6 DEF MapInv

\* What changes nothing, such as a second element that is ignored.
LEMMA StutterStep == ASSUME MapInv, UNCHANGED <<mapVars, file>> PROVE MapInv'
<1>1. UNCHANGED <<els, mapping, read, max_id, given, lost, can_set, asks, called, file>>
  BY DEF mapVars
<1>2. Waits' = Waits
  BY <1>1 DEF Waits
<1>3. \A l, u : Asked(l, u)' = Asked(l, u)
  BY <1>1, AskedSame
<1>4. Located'
  BY <1>1, <1>3 DEF MapInv, Located
<1>5. MapTypes' /\ IdsInv' /\ ElsMapped' /\ SetHasNone'
  BY <1>1 DEF MapInv, MapTypes, IdsInv, Injective, Worn, ElsMapped, SetHasNone
<1>6. CallsInv'
  BY <1>1, <1>2 DEF MapInv, CallsInv
<1> QED BY <1>4, <1>5, <1>6 DEF MapInv

\* One element changes: it keeps its lid, its id and its type.
LEMMA OneChanges ==
  ASSUME MapInv, NEW e \in DOMAIN els, NEW async \in BOOLEAN, NEW rest \in Seq(Nat),
         els' = [els EXCEPT ![e].is_async_fn = async, ![e].waits = rest],
         UNCHANGED <<mapping, read, max_id, given, lost, file>>,
         asks' \in Seq(Ask), called' \in Seq(Nat)
  PROVE  /\ MapTypes' /\ IdsInv' /\ ElsMapped'
         /\ \A l, u : Asked(l, u)' = Asked(l, u)
         /\ Waits' = [Waits EXCEPT ![e] = rest]
         /\ DOMAIN els' = DOMAIN els /\ els'[e].waits = rest /\ els'[e].is_async_fn = async
         /\ \A f \in DOMAIN els : f # e => els'[f] = els[f]
<1>1. els \in Seq(Elem) /\ els[e] \in Elem /\ DOMAIN els = 1 .. Len(els) /\ Len(els) \in Nat
  BY WaitsIs DEF MapInv, MapTypes
<1> DEFINE r == [els[e] EXCEPT !.is_async_fn = async, !.waits = rest]
<1>2. /\ r \in Elem /\ r.lid = els[e].lid /\ r.id = els[e].id /\ r.type = els[e].type
      /\ r.waits = rest /\ r.is_async_fn = async
  BY <1>1 DEF Elem
<1>3. els' = [els EXCEPT ![e] = r]
  BY <1>1
<1> HIDE DEF r
<1>4. els' \in Seq(Elem) /\ DOMAIN els' = DOMAIN els /\ els'[e] = r /\ \A f \in DOMAIN els : f # e => els'[f] = els[f]
  <2>2. [els EXCEPT ![e] = r] \in Seq(Elem)
    BY <1>1, <1>2, ExceptSeq
  <2>3. DOMAIN els' = DOMAIN els
    BY <1>1, <1>3
  <2>4. els'[e] = r /\ \A f \in DOMAIN els : f # e => els'[f] = els[f]
    BY <1>1, <1>3
  <2> QED BY <1>3, <2>2, <2>3, <2>4
<1>5. \A f \in DOMAIN els : els'[f].lid = els[f].lid /\ els'[f].type = els[f].type /\ els'[f].id = els[f].id
  BY <1>2, <1>4
<1>6. \A l, u : Asked(l, u)' = Asked(l, u)
  BY <1>4, <1>5, AskedSame
<1>7. Waits' = [Waits EXCEPT ![e] = rest]
  <2>1. \A f \in DOMAIN els : els'[f].waits = IF f = e THEN rest ELSE els[f].waits
    BY <1>2, <1>4
  <2>2. Waits' = [f \in DOMAIN els |-> IF f = e THEN rest ELSE els[f].waits]
    BY <1>4, <2>1 DEF Waits
  <2> QED BY <2>2 DEF Waits
<1>8. MapTypes'
  BY <1>4 DEF MapInv, MapTypes
<1>9. IdsInv' /\ ElsMapped'
  BY <1>4, <1>5 DEF MapInv, IdsInv, Injective, Worn, ElsMapped
<1> QED BY <1>2, <1>4, <1>6, <1>7, <1>8, <1>9

\* pw_idmap_set of a placeholder.
LEMMA ArrivesStep ==
  ASSUME MapInv, NEW e \in DOMAIN els, Arrives(e), UNCHANGED <<mapping, read, max_id, given, lost, can_set, asks, file>>
  PROVE  MapInv'
<1>1. /\ els' = [els EXCEPT ![e].is_async_fn = FALSE, ![e].waits = <<>>] /\ called' = called \o els[e].waits
      /\ asks' = asks
  BY DEF Arrives
<1>2. /\ Queues(Waits, asks, called) /\ DOMAIN Waits = DOMAIN els /\ Waits[e] = els[e].waits
      /\ Together(Waits, asks)
  BY WaitsIs, LocatedTogether DEF MapInv
<1>3. /\ Queues([Waits EXCEPT ![e] = <<>>], asks, called')
      /\ EachOnce([Waits EXCEPT ![e] = <<>>], asks, called')
      /\ InTurn([Waits EXCEPT ![e] = <<>>], asks, called')
  BY <1>1, <1>2, ServeAll DEF MapInv, CallsInv
<1>4. asks' \in Seq(Ask) /\ called' \in Seq(Nat) /\ <<>> \in Seq(Nat)
  BY <1>1, <1>3 DEF Queues
<1>5. /\ MapTypes' /\ IdsInv' /\ ElsMapped'
      /\ \A l, u : Asked(l, u)' = Asked(l, u)
      /\ Waits' = [Waits EXCEPT ![e] = <<>>]
      /\ DOMAIN els' = DOMAIN els /\ els'[e].waits = <<>> /\ els'[e].is_async_fn = FALSE
      /\ \A f \in DOMAIN els : f # e => els'[f] = els[f]
  BY <1>1, <1>4, OneChanges
<1>6. CallsInv'
  BY <1>1, <1>3, <1>5 DEF CallsInv
<1>7. SetHasNone'
  BY <1>5 DEF MapInv, SetHasNone
<1>8. Located'
  <2> SUFFICES ASSUME NEW f \in DOMAIN els', NEW p \in DOMAIN els'[f].waits, NEW l \in Long, NEW u \in Types,
                      asks'[els'[f].waits[p]] = [lid |-> l, type |-> u]
               PROVE  f = Asked(l, u)'
    BY DEF Located
  <2>1. f # e
    BY <1>5
  <2>2. f \in DOMAIN els /\ els'[f] = els[f]
    BY <1>5, <2>1
  <2>3. asks[els[f].waits[p]] = [lid |-> l, type |-> u] /\ p \in DOMAIN els[f].waits
    BY <1>1, <2>2
  <2>4. f = Asked(l, u)
    BY <2>2, <2>3 DEF MapInv, Located
  <2> QED BY <1>5, <2>4
<1> QED BY <1>5, <1>6, <1>7, <1>8 DEF MapInv

\* The number of the next callback is new.
LEMMA AcceptIs ==
  ASSUME MapInv, NEW k \in Long \cup Short, NEW t \in Types, Accept(k, t)
  PROVE  /\ [lid |-> k, type |-> t] \in Ask /\ asks' = Append(asks, [lid |-> k, type |-> t])
         /\ asks' \in Seq(Ask) /\ Token \in Nat /\ Token = Len(asks) + 1
         /\ asks'[Token] = [lid |-> k, type |-> t]
         /\ \A j \in DOMAIN asks : asks'[j] = asks[j]
<1>1. asks \in Seq(Ask) /\ [lid |-> k, type |-> t] \in Ask
  BY DEF MapInv, MapTypes, Ask
<1>2. asks' = Append(asks, [lid |-> k, type |-> t])
  BY DEF Accept
<1> QED BY <1>1, <1>2 DEF Token

\* The element is set.
LEMMA AskSetStep ==
  ASSUME MapInv, NEW k \in Long \cup Short, NEW t \in Types, AskSet(k, t)
  PROVE  MapInv'
<1> DEFINE e == Asked(k, t)
           ask == [lid |-> k, type |-> t]
<1>1. e # 0 /\ ~els[e].is_async_fn /\ Accept(k, t) /\ called' = Append(called, Token)
      /\ UNCHANGED <<els, mapping, read, max_id, given, lost, can_set, file>>
  BY DEF AskSet
<1>2. /\ ask \in Ask /\ asks' = Append(asks, ask) /\ asks' \in Seq(Ask) /\ Token \in Nat /\ Token = Len(asks) + 1
      /\ \A j \in DOMAIN asks : asks'[j] = asks[j]
  BY <1>1, AcceptIs
<1>3. Queues(Waits, asks, called) /\ DOMAIN Waits = DOMAIN els /\ \A f \in DOMAIN els : Waits[f] = els[f].waits
  BY WaitsIs DEF MapInv
<1>4. e \in DOMAIN els
  BY <1>1, LookupsAre DEF MapInv, ByLid
<1>5. \A f \in DOMAIN Waits : \A p \in DOMAIN Waits[f] : asks[Waits[f][p]] = ask => ask.lid \notin Long
  <2> SUFFICES ASSUME NEW f \in DOMAIN els, NEW p \in DOMAIN els[f].waits, asks[els[f].waits[p]] = ask, k \in Long
               PROVE  FALSE
    BY <1>3
  <2>1. f = e
    BY DEF MapInv, Located
  <2>2. els[e].waits = <<>>
    BY <1>1, <1>4 DEF MapInv, SetHasNone
  <2> QED BY <2>1, <2>2
<1>6. /\ Queues(Waits, asks', called') /\ EachOnce(Waits, asks', called') /\ InTurn(Waits, asks', called')
  <2> HIDE DEF ask
  <2> QED BY <1>1, <1>2, <1>3, <1>5, CallOne DEF MapInv, CallsInv
<1>7. Waits' = Waits
  BY <1>1 DEF Waits
<1>8. CallsInv'
  BY <1>6, <1>7 DEF CallsInv
<1>9. MapTypes' /\ IdsInv' /\ ElsMapped' /\ SetHasNone'
  BY <1>1, <1>6 DEF MapInv, MapTypes, IdsInv, Injective, Worn, ElsMapped, SetHasNone, Queues
<1>10. \A l, u : Asked(l, u)' = Asked(l, u)
  BY <1>1, AskedSame
<1>11. Located'
  <2> SUFFICES ASSUME NEW f \in DOMAIN els, NEW p \in DOMAIN els[f].waits, NEW l \in Long, NEW u \in Types,
                      asks'[els[f].waits[p]] = [lid |-> l, type |-> u]
               PROVE  f = Asked(l, u)
    BY <1>1, <1>10 DEF Located
  <2>1. els[f].waits[p] \in DOMAIN asks
    BY <1>3 DEF MapInv, CallsInv, EachOnce
  <2>2. asks[els[f].waits[p]] = [lid |-> l, type |-> u]
    BY <1>2, <2>1
  <2> QED BY <2>2 DEF MapInv, Located
<1> QED BY <1>8, <1>9, <1>11 DEF MapInv

\* A placeholder is there.
LEMMA AskAgainStep ==
  ASSUME MapInv, NEW k \in Long \cup Short, NEW t \in Types, AskAgain(k, t)
  PROVE  MapInv'
<1> DEFINE e == Asked(k, t)
           ask == [lid |-> k, type |-> t]
<1>1. e # 0 /\ els[e].is_async_fn /\ Accept(k, t) /\ els' = [els EXCEPT ![e].waits = Append(@, Token)]
      /\ UNCHANGED <<mapping, read, max_id, given, lost, can_set, called, file>>
  BY DEF AskAgain
<1>2. /\ ask \in Ask /\ asks' = Append(asks, ask) /\ asks' \in Seq(Ask) /\ Token \in Nat /\ Token = Len(asks) + 1
      /\ asks'[Token] = ask
      /\ \A j \in DOMAIN asks : asks'[j] = asks[j]
  BY <1>1, AcceptIs
<1>3. Queues(Waits, asks, called) /\ DOMAIN Waits = DOMAIN els /\ \A f \in DOMAIN els : Waits[f] = els[f].waits
  BY WaitsIs DEF MapInv
<1>4. e \in DOMAIN els
  BY <1>1, LookupsAre DEF MapInv, ByLid
<1> DEFINE x    == els[e].waits
           rest == Append(x, Token)
<1> HIDE DEF e, ask
<1>5. els \in Seq(Elem) /\ els[e] \in Elem /\ x \in Seq(Nat) /\ rest \in Seq(Nat) /\ called' \in Seq(Nat)
  <2>1. els \in Seq(Elem) /\ called' \in Seq(Nat)
    BY <1>1 DEF MapInv, MapTypes
  <2>2. els[e] \in Elem
    BY <1>4, <2>1
  <2>3. x \in Seq(Nat)
    BY <2>2 DEF Elem
  <2>4. rest \in Seq(Nat)
    BY <1>2, <2>3
  <2> QED BY <2>1, <2>2, <2>3, <2>4
<1>6. els' = [els EXCEPT ![e].is_async_fn = TRUE, ![e].waits = rest]
  BY <1>1, <1>4, <1>5 DEF Elem
<1> HIDE DEF x, rest
<1>7. /\ MapTypes' /\ IdsInv' /\ ElsMapped'
      /\ \A l, u : Asked(l, u)' = Asked(l, u)
      /\ Waits' = [Waits EXCEPT ![e] = rest]
      /\ DOMAIN els' = DOMAIN els /\ els'[e].waits = rest /\ els'[e].is_async_fn = TRUE
      /\ \A f \in DOMAIN els : f # e => els'[f] = els[f]
  BY <1>1, <1>2, <1>4, <1>5, <1>6, OneChanges
<1>8. Waits' = [Waits EXCEPT ![e] = Append(@, Len(asks) + 1)]
  BY <1>2, <1>3, <1>4, <1>7 DEF x, rest
<1>9. EachOnce(Waits', asks', called') /\ InTurn(Waits', asks', called')
  BY <1>1, <1>2, <1>3, <1>4, <1>8, QueueOne DEF MapInv, CallsInv
<1>10. CallsInv'
  BY <1>9 DEF CallsInv
<1>11. SetHasNone'
  BY <1>7 DEF MapInv, SetHasNone
<1>12. Located'
  <2> SUFFICES ASSUME NEW f \in DOMAIN els', NEW p \in DOMAIN els'[f].waits, NEW l \in Long, NEW u \in Types,
                      asks'[els'[f].waits[p]] = [lid |-> l, type |-> u]
               PROVE  f = Asked(l, u)
    BY <1>7 DEF Located
  <2>1. CASE f \in DOMAIN els /\ p \in DOMAIN els[f].waits /\ els'[f].waits[p] = els[f].waits[p]
    <3>1. els[f].waits[p] \in DOMAIN asks
      BY <1>3, <2>1 DEF MapInv, CallsInv, EachOnce
    <3>2. asks[els[f].waits[p]] = [lid |-> l, type |-> u]
      BY <1>2, <2>1, <3>1
    <3> QED BY <2>1, <3>2 DEF MapInv, Located
  <2>2. CASE f = e /\ els'[f].waits[p] = Token
    <3>1. l = k /\ u = t
      BY <1>2, <2>2 DEF ask
    <3> QED BY <2>2, <3>1 DEF e
  <2>3. CASE f = e
    <3>1. p \in DOMAIN rest
      BY <1>7, <2>3
    <3>2. (p \in DOMAIN x /\ rest[p] = x[p]) \/ rest[p] = Token
      BY <1>2, <1>5, <3>1 DEF rest
    <3> QED BY <1>4, <1>7, <2>1, <2>2, <2>3, <3>2 DEF x
  <2>4. CASE f # e
    BY <1>7, <2>1, <2>4
  <2> QED BY <2>3, <2>4
<1> QED BY <1>7, <1>10, <1>11, <1>12 DEF MapInv

\* The placeholder is one of another lid, which has k for its id.
LEMMA AskByIdStep ==
  ASSUME MapInv, NEW k \in Long \cup Short, NEW t \in Types, AskById(k, t)
  PROVE  MapInv'
<1> DEFINE e == AnyEl(k, t)
           ask == [lid |-> k, type |-> t]
           w == [Waits EXCEPT ![e] = <<>>]
<1>1. /\ Asked(k, t) = 0 /\ e # 0 /\ els[e].is_async_fn /\ Accept(k, t)
      /\ called' = called \o els[e].waits /\ els' = [els EXCEPT ![e].waits = <<Token>>]
      /\ UNCHANGED <<mapping, read, max_id, given, lost, can_set, file>>
  BY DEF AskById
<1>2. /\ ask \in Ask /\ asks' = Append(asks, ask) /\ asks' \in Seq(Ask) /\ Token \in Nat /\ Token = Len(asks) + 1
      /\ asks'[Token] = ask
      /\ \A j \in DOMAIN asks : asks'[j] = asks[j]
  BY <1>1, AcceptIs
<1>3. /\ Queues(Waits, asks, called) /\ DOMAIN Waits = DOMAIN els /\ \A f \in DOMAIN els : Waits[f] = els[f].waits
      /\ Together(Waits, asks)
  BY WaitsIs, LocatedTogether DEF MapInv
<1>4. e \in DOMAIN els /\ k \notin Long
  BY <1>1, LookupsAre DEF MapInv
<1> HIDE DEF e, ask
<1>5. Queues(w, asks, called') /\ EachOnce(w, asks, called') /\ InTurn(w, asks, called')
  BY <1>1, <1>3, <1>4, ServeAll DEF MapInv, CallsInv
<1>6. els \in Seq(Elem) /\ els[e] \in Elem /\ called' \in Seq(Nat) /\ <<Token>> \in Seq(Nat)
  BY <1>2, <1>4, <1>5 DEF MapInv, MapTypes, Queues
<1>7. els' = [els EXCEPT ![e].is_async_fn = TRUE, ![e].waits = <<Token>>]
  BY <1>1, <1>4, <1>6 DEF Elem
<1>8. /\ MapTypes' /\ IdsInv' /\ ElsMapped'
      /\ \A l, u : Asked(l, u)' = Asked(l, u)
      /\ Waits' = [Waits EXCEPT ![e] = <<Token>>]
      /\ DOMAIN els' = DOMAIN els /\ els'[e].waits = <<Token>> /\ els'[e].is_async_fn = TRUE
      /\ \A f \in DOMAIN els : f # e => els'[f] = els[f]
  BY <1>1, <1>2, <1>4, <1>6, <1>7, OneChanges
<1>9. e \in DOMAIN w /\ Waits' = [w EXCEPT ![e] = Append(@, Len(asks) + 1)]
  <2>1. e \in DOMAIN w /\ w[e] = <<>>
    BY <1>3, <1>4
  <2>2. Append(<<>>, Len(asks) + 1) = <<Token>>
    BY <1>2
  <2>3. [w EXCEPT ![e] = <<Token>>] = [Waits EXCEPT ![e] = <<Token>>]
    BY <1>3, <1>4
  <2> HIDE DEF w
  <2> QED BY <1>8, <2>1, <2>2, <2>3
<1>10. EachOnce(Waits', asks', called') /\ InTurn(Waits', asks', called')
  <2> HIDE DEF w
  <2> QED BY <1>2, <1>5, <1>9, QueueOne
<1>11. CallsInv'
  BY <1>10 DEF CallsInv
<1>12. SetHasNone'
  BY <1>8 DEF MapInv, SetHasNone
<1>13. Located'
  <2> SUFFICES ASSUME NEW f \in DOMAIN els', NEW p \in DOMAIN els'[f].waits, NEW l \in Long, NEW u \in Types,
                      asks'[els'[f].waits[p]] = [lid |-> l, type |-> u]
               PROVE  f = Asked(l, u)
    BY <1>8 DEF Located
  <2>1. CASE f # e
    <3>1. f \in DOMAIN els /\ els'[f] = els[f]
      BY <1>8, <2>1
    <3>2. els[f].waits[p] \in DOMAIN asks
      BY <1>3, <3>1 DEF MapInv, CallsInv, EachOnce
    <3>3. asks[els[f].waits[p]] = [lid |-> l, type |-> u]
      BY <1>2, <3>1, <3>2
    <3> QED BY <3>1, <3>3 DEF MapInv, Located
  <2>2. CASE f = e
    <3>1. els'[f].waits[p] = Token
      BY <1>8, <2>2
    <3>2. l = k
      BY <1>2, <3>1 DEF ask
    <3> QED BY <1>4, <3>2
  <2> QED BY <2>1, <2>2
<1> QED BY <1>8, <1>11, <1>12, <1>13 DEF MapInv

\* A sequence with one more element.
LEMMA AppendIs ==
  ASSUME NEW S, NEW s \in Seq(S), NEW x \in S
  PROVE  Append(s, x) = [i \in 1 .. (Len(s) + 1) |-> IF i = Len(s) + 1 THEN x ELSE s[i]]
<1>1. Append(s, x) \in Seq(S) /\ Len(Append(s, x)) = Len(s) + 1 /\ Append(s, x)[Len(s) + 1] = x
      /\ \A i \in 1 .. Len(s) : Append(s, x)[i] = s[i]
  BY AppendProperties
<1>2. Append(s, x) = [i \in 1 .. (Len(s) + 1) |-> Append(s, x)[i]]
  <2> DEFINE a == Append(s, x)
  <2>1. a \in Seq(S) /\ Len(a) = Len(s) + 1
    BY <1>1
  <2> HIDE DEF a
  <2>2. a = [i \in 1 .. Len(a) |-> a[i]]
    BY <2>1
  <2>3. a = [i \in 1 .. (Len(s) + 1) |-> a[i]]
    BY <2>1, <2>2
  <2> QED BY <2>3 DEF a
<1>3. \A i \in 1 .. (Len(s) + 1) : Append(s, x)[i] = IF i = Len(s) + 1 THEN x ELSE s[i]
  <2>1. Len(s) \in Nat
    OBVIOUS
  <2>2. \A i \in 1 .. (Len(s) + 1) : i = Len(s) + 1 \/ i \in 1 .. Len(s)
    BY <2>1
  <2> QED BY <1>1, <2>2
<1> QED BY <1>2, <1>3

\* A new element: a lookup that finds it found nothing before.
LEMMA NewElIs ==
  ASSUME MapInv, NEW k \in Long \cup Short, NEW t \in Types, AnyEl(k, t) = 0,
         NEW async \in BOOLEAN, NEW asked \in Seq(Nat),
         NewEl(k, t, async, asked), UNCHANGED <<read, file>>,
         asks' \in Seq(Ask), called' \in Seq(Nat)
  PROVE  /\ MapTypes' /\ IdsInv' /\ ElsMapped'
         /\ Waits' = Append(Waits, asked)
         /\ Len(els) + 1 \in DOMAIN els' /\ els'[Len(els) + 1].waits = asked
         /\ els'[Len(els) + 1].is_async_fn = async
         /\ \A e \in DOMAIN els' : (e \in DOMAIN els /\ els'[e] = els[e]) \/ e = Len(els) + 1
         /\ \A l, u : Asked(l, u) # 0 => Asked(l, u)' = Asked(l, u)
         /\ k \in Long /\ Asked(k, t) = 0 => Asked(k, t)' = Len(els) + 1
<1>1. MapTypes /\ IdsInv /\ ElsMapped
  BY DEF MapInv
<1>2. /\ IdsInv' /\ ElsMapped'
      /\ max_id' \in Nat /\ DOMAIN mapping' \subseteq Long /\ mapping' \in [DOMAIN mapping' -> Entry]
      /\ \E r \in Elem : /\ els' = Append(els, r)
                         /\ r.lid = LidOf(k, t) /\ r.type = t /\ r.is_async_fn = async /\ r.waits = asked
  BY <1>1, NewElIds
<1>3. PICK r \in Elem : /\ els' = Append(els, r)
                        /\ r.lid = LidOf(k, t) /\ r.type = t /\ r.is_async_fn = async /\ r.waits = asked
  BY <1>2
<1>4. els \in Seq(Elem) /\ Len(els) \in Nat /\ DOMAIN els = 1 .. Len(els) /\ 0 \notin DOMAIN els
  BY <1>1, WaitsIs DEF MapTypes
<1> DEFINE new == Len(els) + 1
<1>5. /\ els' \in Seq(Elem) /\ DOMAIN els' = 1 .. new /\ els'[new] = r /\ new \in DOMAIN els'
      /\ \A e \in DOMAIN els : e \in DOMAIN els' /\ els'[e] = els[e]
  BY <1>3, <1>4
<1>6. \A e \in DOMAIN els' : e \in DOMAIN els \/ e = new
  BY <1>4, <1>5
<1>7. MapTypes'
  BY <1>2, <1>5 DEF MapTypes
<1>8. Waits' = Append(Waits, asked)
  <2>1. Waits \in Seq(Seq(Nat)) /\ DOMAIN Waits = 1 .. Len(els) /\ Len(Waits) = Len(els)
    <3>1. Waits \in Seq(Seq(Nat)) /\ DOMAIN Waits = 1 .. Len(els)
      BY <1>1, WaitsIs DEF Queues
    <3> QED BY <1>4, <3>1
  <2>2. Append(Waits, asked) = [e \in 1 .. new |-> IF e = new THEN asked ELSE Waits[e]]
    BY <2>1, AppendIs
  <2>3. \A e \in 1 .. new : els'[e].waits = IF e = new THEN asked ELSE Waits[e]
    <3> SUFFICES ASSUME NEW e \in 1 .. new PROVE els'[e].waits = IF e = new THEN asked ELSE Waits[e]
      OBVIOUS
    <3>1. CASE e = new
      BY <1>3, <1>5, <3>1
    <3>2. CASE e # new
      <4>1. e \in DOMAIN els
        BY <1>5, <1>6, <3>2
      <4> QED BY <1>5, <3>2, <4>1 DEF Waits
    <3> QED BY <3>1, <3>2
  <2>4. Waits' = [e \in 1 .. new |-> els'[e].waits]
    BY <1>5 DEF Waits
  <2> HIDE DEF new
  <2> QED BY <2>2, <2>3, <2>4
<1>9. \A l, u : Asked(l, u) # 0 => Asked(l, u)' = Asked(l, u)
  BY <1>1, <1>3, NewElStays
<1>10. ASSUME k \in Long, Asked(k, t) = 0 PROVE Asked(k, t)' = new
  <2>1. r.lid = k
    BY <1>1, <1>3, <1>10, NoneGoes
  <2>2. ByLid(k) \cap OfType(t) = {}
    BY <1>1, <1>10, LookupsAre
  <2>3. (ByLid(k) \cap OfType(t))' = {new}
    <3>1. new \in ByLid(k)' /\ new \in OfType(t)'
      BY <1>3, <1>5, <2>1 DEF ByLid, OfType, Goes
    <3>2. ASSUME NEW e \in (ByLid(k) \cap OfType(t))', e # new PROVE FALSE
      <4>1. e \in DOMAIN els' /\ els'[e].lid = k /\ Goes(t, els'[e].type)
        BY DEF ByLid, OfType
      <4>2. e \in DOMAIN els /\ els'[e] = els[e]
        BY <1>5, <1>6, <3>2, <4>1
      <4> QED BY <2>2, <4>1, <4>2 DEF ByLid, OfType
    <3> HIDE DEF new
    <3> QED BY <3>1, <3>2
  <2>4. Max({new}) = new
    <3>1. {new} \in SUBSET (0 .. new) /\ new \in Nat
      BY <1>4
    <3>2. Max({new}) \in {new}
      <4> HIDE DEF new
      <4> QED BY <3>1, MaxIs
    <3> QED BY <3>2
  <2>5. Asked(k, t)' = IF Min(ByLid(k)') \in {new} THEN Min(ByLid(k)') ELSE Max({new})
    <3> HIDE DEF new
    <3> QED BY <2>3 DEF Asked, FirstEl
  <2> HIDE DEF new
  <2> QED BY <2>4, <2>5
<1> QED BY <1>2, <1>3, <1>5, <1>6, <1>7, <1>8, <1>9, <1>10

\* pw_idmap_set of what nothing was asked for yet.
LEMMA SetNewStep ==
  ASSUME MapInv, NEW k \in Long \cup Short, NEW t \in Types, AnyEl(k, t) = 0,
         NewEl(k, t, FALSE, <<>>), UNCHANGED <<read, can_set, asks, called, file>>
  PROVE  MapInv'
<1> DEFINE new == Len(els) + 1
<1>1. asks' \in Seq(Ask) /\ called' \in Seq(Nat) /\ <<>> \in Seq(Nat) /\ FALSE \in BOOLEAN
  BY DEF MapInv, MapTypes
<1>2. /\ MapTypes' /\ IdsInv' /\ ElsMapped'
      /\ Waits' = Append(Waits, <<>>)
      /\ els'[new].waits = <<>>
      /\ \A e \in DOMAIN els' : (e \in DOMAIN els /\ els'[e] = els[e]) \/ e = new
      /\ \A l, u : Asked(l, u) # 0 => Asked(l, u)' = Asked(l, u)
  BY <1>1, NewElIs
<1> HIDE DEF new
<1>3. Queues(Waits, asks, called) /\ \A e \in DOMAIN els : e # 0
  BY WaitsIs DEF MapInv
<1>4. EachOnce(Waits', asks', called') /\ InTurn(Waits', asks', called')
  BY <1>2, <1>3, AddOne DEF MapInv, CallsInv
<1>5. CallsInv'
  BY <1>4 DEF CallsInv
<1>6. SetHasNone'
  BY <1>2 DEF MapInv, SetHasNone
<1>7. Located'
  <2> SUFFICES ASSUME NEW f \in DOMAIN els', NEW p \in DOMAIN els'[f].waits, NEW l \in Long, NEW u \in Types,
                      asks[els'[f].waits[p]] = [lid |-> l, type |-> u]
               PROVE  f = Asked(l, u)'
    BY DEF Located
  <2>1. DOMAIN els'[new].waits = {}
    BY <1>2
  <2>2. f \in DOMAIN els /\ els'[f] = els[f]
    BY <1>2, <2>1
  <2>3. f = Asked(l, u) /\ f # 0
    BY <1>3, <2>2 DEF MapInv, Located
  <2> QED BY <1>2, <2>3
<1> QED BY <1>2, <1>5, <1>6, <1>7 DEF MapInv

\* A new placeholder, at which the callback waits.
LEMMA AskNewStep ==
  ASSUME MapInv, NEW k \in Long \cup Short, NEW t \in Types, AskNew(k, t)
  PROVE  MapInv'
<1> DEFINE new == Len(els) + 1
           ask == [lid |-> k, type |-> t]
           w   == Append(Waits, <<>>)
<1>1. /\ Asked(k, t) = 0 /\ AnyEl(k, t) = 0 /\ Accept(k, t) /\ NewEl(k, t, TRUE, <<Token>>)
      /\ UNCHANGED <<read, can_set, called, file>>
  BY DEF AskNew
<1>2. /\ ask \in Ask /\ asks' = Append(asks, ask) /\ asks' \in Seq(Ask) /\ Token \in Nat /\ Token = Len(asks) + 1
      /\ asks'[Token] = ask
      /\ \A j \in DOMAIN asks : asks'[j] = asks[j]
  BY <1>1, AcceptIs
<1>3. called' \in Seq(Nat) /\ <<Token>> \in Seq(Nat)
  BY <1>1, <1>2 DEF MapInv, MapTypes
<1>4. PICK asked \in Seq(Nat) : asked = <<Token>>
  BY <1>3
<1>5. /\ MapTypes' /\ IdsInv' /\ ElsMapped'
      /\ Waits' = Append(Waits, asked)
      /\ new \in DOMAIN els' /\ els'[new].waits = asked /\ els'[new].is_async_fn = TRUE
      /\ \A e \in DOMAIN els' : (e \in DOMAIN els /\ els'[e] = els[e]) \/ e = new
      /\ \A l, u : Asked(l, u) # 0 => Asked(l, u)' = Asked(l, u)
      /\ k \in Long /\ Asked(k, t) = 0 => Asked(k, t)' = new
  BY <1>1, <1>2, <1>3, <1>4, NewElIs
<1>6. /\ Queues(Waits, asks, called) /\ DOMAIN Waits = DOMAIN els /\ Len(els) \in Nat /\ DOMAIN els = 1 .. Len(els)
      /\ \A e \in DOMAIN els : e # 0 /\ Waits[e] = els[e].waits
  BY WaitsIs DEF MapInv
<1>7. Queues(w, asks, called) /\ EachOnce(w, asks, called) /\ InTurn(w, asks, called)
  BY <1>6, AddOne DEF MapInv, CallsInv
<1>8. new \in DOMAIN w /\ Waits' = [w EXCEPT ![new] = Append(@, Len(asks) + 1)]
  <2>1. Waits \in Seq(Seq(Nat)) /\ Len(Waits) = Len(els)
    BY <1>6 DEF Queues
  <2>2. DOMAIN w = 1 .. new /\ w[new] = <<>> /\ \A e \in 1 .. Len(els) : w[e] = Waits[e]
    BY <1>6, <2>1
  <2>3. Append(w[new], Len(asks) + 1) = asked
    <3>1. Append(<<>>, Len(asks) + 1) = <<Token>>
      BY <1>2
    <3> QED BY <1>4, <2>2, <3>1
  <2>4. \A x \in Seq(Nat) : Append(Waits, x) = [e \in 1 .. new |-> IF e = new THEN x ELSE Waits[e]]
    <3> HIDE DEF w, ask
    <3> QED BY <2>1, AppendIs
  <2>5. w = [e \in 1 .. new |-> IF e = new THEN <<>> ELSE Waits[e]]
    <3>1. <<>> \in Seq(Nat)
      OBVIOUS
    <3> HIDE DEF new
    <3> QED BY <2>4, <3>1
  <2>6. new \in 1 .. new
    BY <1>6
  <2>7. Waits' = [e \in 1 .. new |-> IF e = new THEN asked ELSE Waits[e]]
    BY <1>5, <2>4
  <2> HIDE DEF w, new
  <2> QED BY <2>2, <2>3, <2>5, <2>6, <2>7
<1>9. EachOnce(Waits', asks', called') /\ InTurn(Waits', asks', called')
  <2> HIDE DEF w, new, ask
  <2> QED BY <1>1, <1>2, <1>7, <1>8, QueueOne
<1> HIDE DEF w, new
<1>10. CallsInv'
  BY <1>9 DEF CallsInv
<1>11. SetHasNone'
  BY <1>5 DEF MapInv, SetHasNone
<1>12. Located'
  <2> SUFFICES ASSUME NEW f \in DOMAIN els', NEW p \in DOMAIN els'[f].waits, NEW l \in Long, NEW u \in Types,
                      asks'[els'[f].waits[p]] = [lid |-> l, type |-> u]
               PROVE  f = Asked(l, u)'
    BY DEF Located
  <2>1. CASE f \in DOMAIN els /\ els'[f] = els[f]
    <3>1. els[f].waits[p] \in DOMAIN asks
      BY <1>6, <2>1 DEF MapInv, CallsInv, EachOnce
    <3>2. asks[els[f].waits[p]] = [lid |-> l, type |-> u]
      BY <1>2, <2>1, <3>1
    <3>3. f = Asked(l, u) /\ f # 0
      BY <1>6, <2>1, <3>2 DEF MapInv, Located
    <3> QED BY <1>5, <3>3
  <2>2. CASE f = new
    <3>1. els'[f].waits[p] = Token
      BY <1>4, <1>5, <2>2
    <3>2. l = k /\ u = t
      BY <1>2, <3>1
    <3> QED BY <1>1, <1>5, <2>2, <3>2
  <2> QED BY <1>5, <2>1, <2>2
<1> QED BY <1>5, <1>10, <1>11, <1>12 DEF MapInv

\* A setting that is ignored, or that ends the process.
LEMMA RefusedStep ==
  ASSUME MapInv, NEW k \in Long \cup Short, NEW t \in Types, Refused(k, t)
  PROVE  MapInv'
BY StutterStep, GoneStep DEF Refused

\* pw_idmap_set
LEMMA SetStep ==
  ASSUME MapInv, NEW k \in Long \cup Short, NEW t \in Types, Set(k, t)
  PROVE  MapInv'
<1>1. CASE Refused(k, t)
  BY <1>1, RefusedStep
<1>2. CASE /\ AnyEl(k, t) # 0 /\ Arrives(AnyEl(k, t))
           /\ UNCHANGED <<mapping, read, max_id, given, lost, can_set, asks, file>>
  <2>1. AnyEl(k, t) \in DOMAIN els
    BY <1>2, LookupsAre DEF MapInv
  <2>2. PICK e \in DOMAIN els : e = AnyEl(k, t)
    BY <2>1
  <2>3. Arrives(e)
    BY <1>2, <2>2 DEF Arrives
  <2> QED BY <1>2, <2>3, ArrivesStep
<1>3. CASE /\ AnyEl(k, t) = 0 /\ NewEl(k, t, FALSE, <<>>)
           /\ UNCHANGED <<read, can_set, asks, called, file>>
  BY <1>3, SetNewStep
<1> QED BY <1>1, <1>2, <1>3 DEF Set

\* pw_idmap_get_async
LEMMA GetAsyncStep ==
  ASSUME MapInv, NEW k \in Long \cup Short, NEW t \in Types, GetAsync(k, t)
  PROVE  MapInv'
BY AskSetStep, AskAgainStep, AskNewStep, AskByIdStep, RefusedStep DEF GetAsync

\* Every step of the map keeps the invariant.
LEMMA MapStepInv == MapInv /\ [MapStep]_<<mapVars, file>> => MapInv'
<1> SUFFICES ASSUME MapInv, [MapStep]_<<mapVars, file>> PROVE MapInv'
  OBVIOUS
<1>1. CASE \E k \in Long \cup Short, t \in Types : Set(k, t) \/ GetAsync(k, t)
  BY <1>1, SetStep, GetAsyncStep
<1>2. CASE Save
  BY <1>2, SaveStep
<1>3. CASE SaveCut
  BY <1>3, SaveCutStep
<1>4. CASE Gone
  BY <1>4, GoneStep
<1>5. CASE UNCHANGED <<mapVars, file>>
  BY <1>5, StutterStep
<1> QED BY <1>1, <1>2, <1>3, <1>4, <1>5 DEF MapStep

\* The inductive invariant of the ID map: ids are new when they are given out, and callbacks
\* wait where lookups arrive, each once and in turn (pw_idmap_set, pw_idmap_get_async).
THEOREM MapInvariant == MapSpec => []MapInv
BY MapInitInv, MapStepInv, PTL DEF MapSpec

\* For every set of lids, types and bounds: a long lid has one id through any series of
\* settings, saves, cut saves and restarts, unless a process ended with the id missing in
\* the file, and shares it with no other until the ids run out (pw_idmap_init,
\* pw_idmap_set, pw_idmap_save).
THEOREM LidsKeepIds == MapSpec => []IdsKept
<1>1. MapInv => IdsKept
  <2> SUFFICES ASSUME MapInv PROVE IdsKept
    OBVIOUS
  <2> QED BY DEF MapInv, IdsInv, IdsKept
<1> QED BY <1>1, MapInvariant, PTL

\* A sequence without repetitions has as many members as it is long.
LEMMA CountOnce ==
  ASSUME NEW c \in Seq(Nat), \A n, m \in DOMAIN c : c[n] = c[m] => n = m
  PROVE  Cardinality(Range(c)) = Len(c)
<1>1. DOMAIN c = 1 .. Len(c) /\ Len(c) \in Nat /\ c \in [1 .. Len(c) -> Range(c)]
  BY DEF Range
<1>2. c \in Bijection(1 .. Len(c), Range(c))
  BY <1>1 DEF Bijection, Injection, Surjection, IsInjective, Range
<1>3. ExistsBijection(1 .. Len(c), Range(c))
  BY <1>2 DEF ExistsBijection
<1>4. IsFiniteSet(1 .. Len(c)) /\ Cardinality(1 .. Len(c)) = Len(c)
  <2>1. 1 \in Int /\ Len(c) \in Int
    BY <1>1
  <2>2. Cardinality(1 .. Len(c)) = IF 1 > Len(c) THEN 0 ELSE Len(c) - 1 + 1
    BY <2>1, FS_Interval
  <2> QED BY <1>1, <2>1, <2>2, FS_Interval
<1> QED BY <1>3, <1>4, FS_Bijection

\* For every set of lids, types and bounds: each callback waits for its element or was made
\* once, and those for one long lid and type are made in the order they were asked for
\* (pw_idmap_get_async, call_async_arr).
THEOREM CallbacksInOrder == MapSpec => []AsksInOrder
<1>1. MapInv => AsksInOrder
  <2> SUFFICES ASSUME MapInv PROVE AsksInOrder
    OBVIOUS
  <2>1. /\ called \in Seq(Nat) /\ DOMAIN Waits = DOMAIN els /\ \A e \in DOMAIN els : Waits[e] = els[e].waits
    BY WaitsIs DEF MapInv, MapTypes
  <2>2. EachOnce(Waits, asks, called) /\ InTurn(Waits, asks, called)
    BY DEF MapInv, CallsInv
  <2>3. \A n, m \in DOMAIN called : called[n] = called[m] => n = m
    BY <2>2 DEF EachOnce
  <2>4. Cardinality(Range(called)) = Len(called)
    BY <2>1, <2>3, CountOnce
  <2>5. \A j : j \in Waiting <=> \E e \in DOMAIN els : \E p \in DOMAIN els[e].waits : els[e].waits[p] = j
    BY DEF Waiting, Range
  <2>6. \A j : j \in Range(called) <=> \E n \in DOMAIN called : called[n] = j
    BY DEF Range
  <2>7. \A n \in DOMAIN called : called[n] \in DOMAIN asks
    BY <2>2 DEF EachOnce
  <2>8. \A e \in DOMAIN els : \A p \in DOMAIN els[e].waits :
          els[e].waits[p] \in DOMAIN asks /\ \A n \in DOMAIN called : called[n] # els[e].waits[p]
    BY <2>1, <2>2 DEF EachOnce
  <2>9. \A j \in DOMAIN asks : \/ \E n \in DOMAIN called : called[n] = j
                               \/ \E e \in DOMAIN els : \E p \in DOMAIN els[e].waits : els[e].waits[p] = j
    BY <2>1, <2>2 DEF EachOnce
  <2>10. Range(called) \cap Waiting = {}
    BY <2>5, <2>6, <2>8
  <2>11. DOMAIN asks = Range(called) \cup Waiting
    <3>1. \A j : j \in Range(called) => j \in DOMAIN asks
      BY <2>6, <2>7
    <3>2. \A j : j \in Waiting => j \in DOMAIN asks
      BY <2>5, <2>8
    <3>3. \A j \in DOMAIN asks : j \in Range(called) \/ j \in Waiting
      BY <2>5, <2>6, <2>9
    <3> QED BY <3>1, <3>2, <3>3
  <2>12. ASSUME NEW i \in DOMAIN asks, NEW j \in DOMAIN asks,
                asks[i] = asks[j], asks[i].lid \in Long, i < j, j \notin Waiting
         PROVE  \E n, m \in DOMAIN called : n < m /\ called[n] = i /\ called[m] = j
    <3>1. PICK m \in DOMAIN called : called[m] = j
      BY <2>6, <2>11, <2>12
    <3>2. i \notin Waiting
      <4> SUFFICES ASSUME i \in Waiting PROVE FALSE
        OBVIOUS
      <4>1. PICK e \in DOMAIN els : \E p \in DOMAIN els[e].waits : els[e].waits[p] = i
        BY <2>5
      <4>2. PICK p \in DOMAIN els[e].waits : els[e].waits[p] = i
        BY <4>1
      <4>3. j < i
        BY <2>1, <2>2, <2>12, <3>1, <4>2 DEF InTurn
      <4>4. i \in Nat /\ j \in Nat
        BY DEF MapInv, MapTypes
      <4> QED BY <2>12, <4>3, <4>4
    <3>3. PICK n \in DOMAIN called : called[n] = i
      BY <2>6, <2>11, <3>2
    <3>4. n < m
      BY <2>2, <2>12, <3>1, <3>3 DEF InTurn
    <3> QED BY <3>1, <3>3, <3>4
  <2> QED BY <2>4, <2>10, <2>11, <2>12 DEF AsksInOrder
<1> QED BY <1>1, MapInvariant, PTL
=============================================================================
