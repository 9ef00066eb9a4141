------------------------------ MODULE Hotkeys ------------------------------
(***************************************************************************)
(* The hotkey table of input.c.  A hotkey is one heap node on two singly   *)
(* linked lists: the list of its key, which a key press walks to find the  *)
(* node with its modifiers, and the list of its action, which the settings *)
(* window shows and the reset frees.                                       *)
(*                                                                         *)
(* A list is a sequence of nodes, its head first.  Rebinding copies a      *)
(* fresh hotkey over the node, its next pointers included; the action's    *)
(* pointer is set again afterwards, the key's is not.                      *)
(***************************************************************************)
EXTENDS Naturals, SequencesExt, FiniteSets

CONSTANTS
  Key, Mods,    \* keys, and combinations of modifiers
  Actions, None,\* the actions; None unbinds, and is an action with a list of its own
  MaxNodes,     \* bound on the nodes allocated between two resets
  MaxResets     \* bound on the resets

ASSUME HotkeysAssumption == None \in Actions /\ MaxNodes \in Nat /\ MaxResets \in Nat

VARIABLES
  node,         \* the nodes allocated, [key, mods, action]
  hotkeys,      \* g_hotkeys, a list of nodes for each key
  actions,      \* g_actions, a list of nodes for each action
  freed,        \* history: nodes the reset freed, and how often
  resets,       \* bound: resets so far
  last          \* history: the action each hotkey was last bound to

vars == <<node, hotkeys, actions, freed, resets, last>>

Init ==
  /\ node = <<>>
  /\ hotkeys = [k \in Key |-> <<>>] /\ actions = [a \in Actions |-> <<>>]
  /\ freed = <<>> /\ resets = 0
  /\ last = [h \in Key \X Mods |-> None]
-----------------------------------------------------------------------------
(* _set_key *)

\* The positions of a list whose node is the hotkey.
At(list, k, m) == {i \in DOMAIN list : node[list[i]].key = k /\ node[list[i]].mods = m}
First(S)       == CHOOSE i \in S : \A j \in S : i <= j

Add(k, m, a) ==
  LET n == Len(node) + 1
  IN  /\ At(hotkeys[k], k, m) = {} /\ Len(node) < MaxNodes
      /\ node' = Append(node, [key |-> k, mods |-> m, action |-> a])
      /\ hotkeys' = [hotkeys EXCEPT ![k] = <<n>> \o @]
      /\ actions' = [actions EXCEPT ![a] = <<n>> \o @]

\* Seeded faults: each replaces the definition of the same stem when the properties
\* are tested for being able to fail.
Rebind_append(k, m, a) ==
  LET i == First(At(hotkeys[k], k, m)) h == hotkeys[k][i] old == node[h].action IN
  /\ At(hotkeys[k], k, m) # {}
  /\ node' = [node EXCEPT ![h].action = a]
  /\ hotkeys' = [hotkeys EXCEPT ![k] = SubSeq(@, 1, i)]
  /\ LET unlinked == [actions EXCEPT ![old] = RemoveAt(@, First(At(@, k, m)))]
     IN  actions' = [unlinked EXCEPT ![a] = Append(@, h)]

Rebind(k, m, a) ==
  LET i == First(At(hotkeys[k], k, m)) h == hotkeys[k][i] old == node[h].action IN
  /\ At(hotkeys[k], k, m) # {}
  /\ node' = [node EXCEPT ![h].action = a]
  /\ hotkeys' = [hotkeys EXCEPT ![k] = SubSeq(@, 1, i)]
  /\ LET unlinked == [actions EXCEPT ![old] = RemoveAt(@, First(At(@, k, m)))]
     IN  actions' = [unlinked EXCEPT ![a] = <<h>> \o @]

Bind(k, m, a) ==
  /\ Add(k, m, a) \/ Rebind(k, m, a)
  /\ last' = [last EXCEPT ![<<k, m>>] = a]
  /\ UNCHANGED <<freed, resets>>
-----------------------------------------------------------------------------
(* The reset callback frees the nodes by their action lists *)

\* What a walk over the lists of these actions comes to: <<action, position>>.
Walk(A) == UNION {{a} \X DOMAIN actions[a] : a \in A}

Reset_bound ==
  /\ resets < MaxResets /\ resets' = resets + 1
  /\ freed' = [n \in DOMAIN node |->
                 Cardinality({p \in Walk(Actions \ {None}) : actions[p[1]][p[2]] = n})]
  /\ node' = <<>>
  /\ hotkeys' = [k \in Key |-> <<>>] /\ actions' = [a \in Actions |-> <<>>]
  /\ last' = [h \in Key \X Mods |-> None]

Reset ==
  /\ resets < MaxResets /\ resets' = resets + 1
  /\ freed' = [n \in DOMAIN node |->
                 Cardinality({p \in Walk(Actions) : actions[p[1]][p[2]] = n})]
  /\ node' = <<>>
  /\ hotkeys' = [k \in Key |-> <<>>] /\ actions' = [a \in Actions |-> <<>>]
  /\ last' = [h \in Key \X Mods |-> None]

Next == (\E k \in Key, m \in Mods, a \in Actions : Bind(k, m, a)) \/ Reset
Spec == Init /\ [][Next]_vars
-----------------------------------------------------------------------------
(* get_mapped_action *)

Mapped_key_only(k, m) ==
  IF hotkeys[k] = <<>> THEN None ELSE node[Head(hotkeys[k])].action

Mapped(k, m) ==
  LET at == At(hotkeys[k], k, m)
  IN  IF at = {} THEN None ELSE node[hotkeys[k][First(at)]].action
-----------------------------------------------------------------------------
(* Properties *)

TypeOK ==
  /\ node \in Seq([key : Key, mods : Mods, action : Actions])
  /\ \A k \in Key : hotkeys[k] \in Seq(DOMAIN node)
  /\ \A a \in Actions : actions[a] \in Seq(DOMAIN node)

\* The reset frees every node, and none twice: it walks the action lists, and a node is
\* on one of them once, though rebinding may have dropped it from its key's list.
FreedOnce == TypeOK /\ \A n \in DOMAIN freed : freed[n] = 1

\* The search of an action list by key and modifiers finds the very node that is being
\* rebound (or fails its assertion), though nodes that left their key's list stay on an
\* action list with the same key and modifiers.
RebindFindsItself ==
  \A k \in Key : \A i \in DOMAIN hotkeys[k] :
    LET h == hotkeys[k][i] list == actions[node[h].action]
        at == At(list, k, node[h].mods)
    IN  at # {} /\ list[First(at)] = h

\* A key press runs the action its hotkey was last bound to or, once the hotkey was
\* dropped from its key's list, none: never one it was bound to before.
NeverStale == \A k \in Key, m \in Mods : Mapped(k, m) \in {last[<<k, m>>], None}

\* "next in the g_hotkeys list" (struct hotkey): a node stays on its key's list, with
\* those after it, until the reset.
ChainKept ==
  [][resets' = resets => \A k \in Key : Range(hotkeys[k]) \subseteq Range(hotkeys'[k])]_vars
=============================================================================
