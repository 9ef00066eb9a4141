-------------------------------- MODULE IdMap --------------------------------
(***************************************************************************)
(* The ID map on top of the tree.  An element has a long number, its lid,  *)
(* and a short one, its id, that the game knows it by; a lid that is short *)
(* itself is its own id.  The file keeps the ids that long lids were       *)
(* given, and a save rewrites it in place.  An element may be asked for    *)
(* before it is set: a placeholder keeps the callbacks until then.         *)
(*                                                                         *)
(* What pw_avl_get and pw_avl_get_next return, of nodes with equal keys,   *)
(* is the ChainOrder of Avl, as FindsAll has it there: FirstEl looks along *)
(* that order.  The programs that use the map are external: here the game, *)
(* which reads the file and looks up mappings only, and a patcher that     *)
(* sets elements and saves.                                                *)
(***************************************************************************)
EXTENDS Integers, SequencesExt

CONSTANTS
  Long,         \* lids from 0x80000000 on
  Short,        \* the other ones, numbers that are their own id
  Types, AnyType,  \* types of elements, and 0, which goes with every type
  MaxEls, MaxAsks, MaxGiven, \* bounds on the elements, the callbacks and the ids given out
  MaxId         \* the largest long, 0x7fffffff in the build

ASSUME IdMapAssumption ==
  /\ MaxId \in Nat \ {0} /\ {MaxEls, MaxAsks, MaxGiven} \subseteq Nat
  /\ Short \subseteq 1 .. MaxId /\ AnyType \in Types /\ Long \cap Short = {}

VARIABLES
  els,          \* by_lid and by_id: the elements in the order they were inserted
  mapping,      \* lid_mappings
  read,         \* id_mappings: what the file had when it was read
  max_id, can_set,
  file,         \* the mappings in the file
  asks,         \* history: lid and type of each callback that was accepted
  called,       \* history: the callbacks made, of those
  given,        \* history: <<lid, id>> of each id that a process gave to a long lid
  lost          \* history: lids whose id went with a process, not being in the file

mapVars  == <<els, mapping, read, max_id, can_set, asks, called, given, lost>>

NoMapping == [l \in {} |-> <<>>]

\* pw_idmap_init.  The largest id that an entry of the file has is taken, if any.
Largest(entries) == Max({entries[l].id : l \in DOMAIN entries} \cup {0})

\* Seeded fault: ids are counted from the start again.
Read_max_id_lost(entries) ==
  /\ mapping' = entries /\ read' = entries
  /\ max_id' = 0

Read(entries) ==
  /\ mapping' = entries /\ read' = entries
  /\ max_id' = Largest(entries)

MapInit ==
  /\ els = <<>> /\ mapping = NoMapping /\ read = NoMapping /\ max_id = 0
  /\ can_set \in BOOLEAN
  /\ file = NoMapping /\ asks = <<>> /\ called = <<>> /\ given = {} /\ lost = {}
-----------------------------------------------------------------------------
(* Lookups *)

Goes(t, u) == t = AnyType \/ u = AnyType \/ t = u

ByLid(k) == {i \in DOMAIN els : els[i].lid = k}
ById(n)  == {i \in DOMAIN els : els[i].id = n}

OfType(t) == {i \in DOMAIN els : Goes(t, els[i].type)}

\* The first element with the type t, or 0, of those that a search finds: it looks at the
\* oldest one, then at the others from the latest on.
FirstEl(found, t) ==
  LET hits == found \cap OfType(t)
  IN  IF hits = {} THEN 0 ELSE IF Min(found) \in hits THEN Min(found) ELSE Max(hits)

\* _idmap_get, with placeholders.
AnyEl(k, t) ==
  LET e == FirstEl(ByLid(k), t)
  IN  IF e # 0 \/ k \in Long THEN e ELSE FirstEl(ById(k), t)
-----------------------------------------------------------------------------
(* pw_idmap_set *)

\* A short lid that the file maps a long one to stands for that one, for one of them
\* where, after the ids have run out, there are several.
LidOf(k, t) ==
  LET from == {l \in DOMAIN read : k \in Short /\ read[l].id = k /\ Goes(t, read[l].type)}
  IN  IF from = {} THEN k ELSE CHOOSE l \in from : TRUE

CanInsert(k, t) == LidOf(k, t) \in Short \cup DOMAIN mapping \/ can_set

\* What max_id + 1 wraps to behind the largest long: 0x80000000, which is negative.
Top == MaxId + 1
Signed(n) == IF n >= Top THEN n - 2 * Top ELSE n

Fresh(lid) == lid \in Long \ DOMAIN mapping

\* The id of a new element.  For the one that wraps, undefined behaviour, the comparison
\* with max_id may go either way; the one behind it fails the assertion on ids.
IdOf(lid) == IF lid \in Short THEN lid ELSE IF Fresh(lid) THEN max_id + 1 ELSE mapping[lid].id
Raised(n) == IF Signed(n) > Signed(max_id) THEN n ELSE max_id
RanOut(lid) == Fresh(lid) /\ max_id = Top

\* A new element, with the callbacks that wait for it, if it is a placeholder.
NewEl(k, t, async, asked) ==
  LET lid == LidOf(k, t)
      id  == IdOf(lid)
      new == [id |-> id, type |-> t]
  IN
  /\ Len(els) < MaxEls /\ (Fresh(lid) => Cardinality(given) < MaxGiven)
  /\ ~RanOut(lid)
  /\ els' = Append(els, [lid |-> lid, id |-> id, type |-> t, is_async_fn |-> async, waits |-> asked])
  /\ mapping' = IF Fresh(lid)
                THEN [l \in DOMAIN mapping \cup {lid} |-> IF l = lid THEN new ELSE mapping[l]]
                ELSE mapping
  /\ given' = IF Fresh(lid) THEN given \cup {<<lid, id>>} ELSE given
  /\ max_id' \in IF Fresh(lid) /\ id = Top THEN {max_id, Top} ELSE {Raised(id)}
  /\ UNCHANGED lost

\* The process ends, and the next one has what is in the file.
EndsWith(entries) ==
  /\ els' = <<>> /\ asks' = <<>> /\ called' = <<>>
  /\ can_set' \in BOOLEAN
  /\ Read(entries)
  /\ lost' = lost \cup (DOMAIN mapping \ DOMAIN entries)
  /\ UNCHANGED given

\* By an assertion, or as it likes.
Gone == EndsWith(file) /\ UNCHANGED file

\* A second element: ignored, if ignore_dups, or the end of the process by an assertion,
\* as is a new id where none may be given, or none is left.
Conflict(k, t) == AnyEl(k, t) # 0 /\ ~els[AnyEl(k, t)].is_async_fn

Refused(k, t) ==
  \/ Conflict(k, t) /\ UNCHANGED <<mapVars, file>>
  \/ Conflict(k, t) /\ Gone
  \/ AnyEl(k, t) = 0 /\ (CanInsert(k, t) => RanOut(LidOf(k, t))) /\ Gone

\* Seeded fault: the latest callback first.
Arrives_latest_first(e) ==
  /\ els' = [els EXCEPT ![e].is_async_fn = FALSE, ![e].waits = <<>>]
  /\ called' = called \o Reverse(els[e].waits)

\* The placeholder e becomes the element, and its callbacks are made.
Arrives(e) ==
  /\ els' = [els EXCEPT ![e].is_async_fn = FALSE, ![e].waits = <<>>]
  /\ called' = called \o els[e].waits

Set(k, t) ==
  LET e == AnyEl(k, t) IN
  \/ Refused(k, t)
  \/ /\ e # 0 /\ els[e].is_async_fn
     /\ Arrives(e)
     /\ UNCHANGED <<mapping, read, max_id, can_set, given, lost, asks, file>>
  \/ /\ e = 0 /\ CanInsert(k, t)
     /\ NewEl(k, t, FALSE, <<>>)
     /\ UNCHANGED <<read, can_set, asks, called, file>>
-----------------------------------------------------------------------------
(* pw_idmap_get_async *)

Asked(k, t) == FirstEl(ByLid(k), t)
Accept(k, t) == Len(asks) < MaxAsks /\ asks' = Append(asks, [lid |-> k, type |-> t])
Token == Len(asks) + 1

\* The element is there: the callback is made at once.
AskSet(k, t) ==
  LET e == Asked(k, t) IN
  /\ e # 0 /\ ~els[e].is_async_fn /\ Accept(k, t)
  /\ called' = Append(called, Token)
  /\ UNCHANGED <<els, mapping, read, max_id, can_set, given, lost, file>>

AskAgain(k, t) ==
  LET e == Asked(k, t) IN
  /\ e # 0 /\ els[e].is_async_fn /\ Accept(k, t)
  /\ els' = [els EXCEPT ![e].waits = Append(@, Token)]
  /\ UNCHANGED <<mapping, read, max_id, can_set, given, lost, called, file>>

\* Nothing has that lid: pw_idmap_set makes a placeholder of a new element, or ...
AskNew(k, t) ==
  /\ Asked(k, t) = 0 /\ AnyEl(k, t) = 0 /\ CanInsert(k, t) /\ Accept(k, t)
  /\ NewEl(k, t, TRUE, <<Token>>)
  /\ UNCHANGED <<read, can_set, called, file>>

\* ... takes the placeholder that has k for its id, not for its lid, to be set now: the
\* callbacks that wait there are made, with nothing, before it is a placeholder again.
AskById(k, t) ==
  LET e == AnyEl(k, t) IN
  /\ Asked(k, t) = 0 /\ e # 0 /\ els[e].is_async_fn /\ Accept(k, t)
  /\ called' = called \o els[e].waits
  /\ els' = [els EXCEPT ![e].waits = <<Token>>]
  /\ UNCHANGED <<mapping, read, max_id, can_set, given, lost, file>>

GetAsync(k, t) ==
  \/ AskSet(k, t) \/ AskAgain(k, t) \/ AskNew(k, t) \/ AskById(k, t)
  \/ Asked(k, t) = 0 /\ Refused(k, t)
-----------------------------------------------------------------------------
Part(entries, kept) == [l \in kept |-> entries[l]]

Save ==
  /\ can_set /\ file # mapping /\ file' = mapping
  /\ UNCHANGED mapVars

\* The process ends with only some of the entries written.
SaveCut ==
  /\ can_set
  /\ \E kept \in SUBSET DOMAIN mapping :
       file' = Part(mapping, kept) /\ EndsWith(Part(mapping, kept))

MapStep ==
  \/ \E k \in Long \cup Short, t \in Types : Set(k, t) \/ GetAsync(k, t)
  \/ Save \/ SaveCut \/ Gone

MapSpec == MapInit /\ [][MapStep]_<<mapVars, file>>
-----------------------------------------------------------------------------
(* Properties *)

Injective(entries) ==
  \A l, m \in DOMAIN entries : entries[l].id = entries[m].id => l = m

\* The id behind the largest long was given out: two lids may have it, and, as it is
\* negative, max_id starts anew with the next lid that is set after a restart.
Worn == \E g \in given : g[2] = Top

\* A long lid has one id over any series of settings, saves, cut saves and processes, as
\* long as no process has ended with that id missing in the file; a lid of which it was
\* missing may be given another id, and its id may go to another lid.  Two lids have the
\* same id at no time, until the ids run out.
IdsKept ==
  /\ \A g \in given : g[1] \notin lost => g[1] \in DOMAIN mapping /\ mapping[g[1]].id = g[2]
  /\ ~Worn => Injective(mapping)

Waiting == UNION {Range(els[e].waits) : e \in DOMAIN els}

\* "Everything queued first will be called first" (the comment in pw_idmap_get_async), for
\* those who ask for the same long lid and type; no callback is made twice, or lost while
\* its element is still to be set.  Asked for by a short lid, an element with another type
\* may come in between, and have that id too.
AsksInOrder ==
  /\ Cardinality(Range(called)) = Len(called)
  /\ DOMAIN asks = Range(called) \cup Waiting /\ Range(called) \cap Waiting = {}
  /\ \A i, j \in DOMAIN asks :
       asks[i] = asks[j] /\ asks[i].lid \in Long /\ i < j =>
         \/ j \in Waiting
         \/ \E n, m \in DOMAIN called : n < m /\ called[n] = i /\ called[m] = j

=============================================================================
