-------------------------------- MODULE List --------------------------------
(***************************************************************************)
(* list.h at the level of its pointers: several lists whose nodes come     *)
(* from one heap.  The heap is everybody's and kmalloc does not clear what *)
(* it returns: a node starts with whatever the block's last owner left in  *)
(* it.  add_back does not initialise the links of the node it gets; clear  *)
(* follows them.                                                           *)
(*                                                                         *)
(* The locks of the class are empty macros, so nothing is modelled of      *)
(* them; operations are atomic because their callers keep interrupts off.  *)
(***************************************************************************)
EXTENDS Naturals, Sequences, FiniteSets, Null

CONSTANTS
  Lists,     \* the lists of the system (descriptors, messages, windows...)
  Nodes,     \* addresses kmalloc can return: a bound on the heap
  Objects,   \* what lists hold
  Wild       \* any word that is neither null nor the address of such a node

ASSUME ListAssumption ==
  /\ NULL \notin Nodes \cup Objects \cup {Wild}
  /\ Wild \notin Nodes
  /\ IsFiniteSet(Nodes)

VARIABLES
  next, obj,         \* the fields of every node, allocated or not (prev is
                     \* written and never read)
  free,              \* nodes kmalloc may return
  front, back, num,  \* the fields of every list
  content,           \* history: what each list should hold
  damaged            \* history: clear has freed what was not its own to free

listVars == <<next, obj, free, front, back, num, content, damaged>>

\* What a word of memory can be, taken as a link.
Link == Nodes \cup {NULL, Wild}

\* What is in free memory is decided when it is allocated (add_back).
ListInit ==
  /\ next = [n \in Nodes |-> Wild]
  /\ obj = [n \in Nodes |-> NULL]
  /\ free = Nodes
  /\ front = [l \in Lists |-> NULL]
  /\ back = [l \in Lists |-> NULL]
  /\ num = [l \in Lists |-> 0]
  /\ content = [l \in Lists |-> <<>>]
  /\ damaged = FALSE
-----------------------------------------------------------------------------
\* The node reached from n by following at most k links, and stopping at one
\* that has none.
Follow(n, k) ==
  LET step[i \in 0 .. k] ==
        IF i = 0 \/ step[i - 1] = NULL \/ next[step[i - 1]] = NULL
          THEN IF i = 0 THEN n ELSE step[i - 1]
          ELSE next[step[i - 1]]
  IN step[k]

\* get_at: the null object when there is no such position.
GetAt(l, pos) ==
  IF pos >= num[l] \/ front[l] = NULL THEN NULL ELSE obj[Follow(front[l], pos)]

\* Bug: the list forgets its former last node.
LinksNothing(l, n, junk) == [next EXCEPT ![n] = junk]

\* The link add_back writes: none into the new node itself.
LinkBehindBack(l, n, junk) ==
  LET fresh == [next EXCEPT ![n] = junk]
  IN IF front[l] = NULL THEN fresh ELSE [fresh EXCEPT ![back[l]] = n]

add_back(l, o) == \E n \in free, junk \in Link :
  /\ free' = free \ {n}
  /\ obj' = [obj EXCEPT ![n] = o]
  /\ next' = LinkBehindBack(l, n, junk)
  /\ front' = [front EXCEPT ![l] = IF @ = NULL THEN n ELSE @]
  /\ back' = [back EXCEPT ![l] = n]
  /\ num' = [num EXCEPT ![l] = @ + 1]
  /\ content' = [content EXCEPT ![l] = Append(@, o)]
  /\ UNCHANGED damaged

\* The method that adds in front is called add_lock.
add_lock(l, o) == \E n \in free :
  /\ free' = free \ {n}
  /\ obj' = [obj EXCEPT ![n] = o]
  /\ next' = [next EXCEPT ![n] = IF back[l] = NULL THEN NULL ELSE front[l]]
  /\ front' = [front EXCEPT ![l] = n]
  /\ back' = [back EXCEPT ![l] = IF @ = NULL THEN n ELSE @]
  /\ num' = [num EXCEPT ![l] = @ + 1]
  /\ content' = [content EXCEPT ![l] = <<o>> \o @]
  /\ UNCHANGED damaged

replace_at(l, pos, o) ==
  /\ pos < num[l]
  /\ obj' = [obj EXCEPT ![Follow(front[l], pos)] = o]
  /\ content' = [content EXCEPT ![l][pos + 1] = o]
  /\ UNCHANGED <<next, free, front, back, num, damaged>>

\* Nodes on the list, counted the way get_at counts them.
NodesOf(l) == {Follow(front[l], i) : i \in 0 .. (num[l] - 1)}

\* The nodes of the list that clear frees: those that have a link, the last
\* one among them if it came with one.
FreedByClear(l) == {n \in NodesOf(l) : next[n] # NULL}

\* What the last node came with: clear goes on there, and frees that too if it
\* finds a link in it.  Of a node on a list we know it; what anybody else's
\* memory, or free memory, has in that place nobody knows.
RunsPastTheEnd(l) ==
  LET past == next[back[l]] IN
  CASE past = NULL                         -> {FALSE}
    [] past \in Nodes \ free               -> {next[past] # NULL}
    [] past = Wild \/ past \in free        -> BOOLEAN

clear(l) ==
  /\ front[l] # NULL
  /\ damaged' \in RunsPastTheEnd(l)
  /\ free' = free \cup FreedByClear(l)
  /\ front' = [front EXCEPT ![l] = NULL]
  /\ back' = [back EXCEPT ![l] = NULL]
  /\ num' = [num EXCEPT ![l] = 0]
  /\ content' = [content EXCEPT ![l] = <<>>]
  /\ UNCHANGED <<next, obj>>

\* remove_at of an element that exists: nothing is unlinked, nothing returned.
remove_at(l, pos) == pos < num[l] /\ UNCHANGED listVars

\* Once a block that is not the list's own, or is free, has been freed the
\* heap is corrupt, and the model ends.
ListNext ==
  \/ /\ ~damaged
     /\ \E l \in Lists :
          \/ \E o \in Objects : add_back(l, o) \/ add_lock(l, o)
          \/ \E pos \in 0 .. Cardinality(Nodes), o \in Objects : replace_at(l, pos, o)
          \/ \E pos \in 0 .. Cardinality(Nodes) : remove_at(l, pos)
          \/ clear(l)
  \/ damaged /\ UNCHANGED listVars

ListSpec == ListInit /\ [][ListNext]_listVars
-----------------------------------------------------------------------------
(* Properties.                                                             *)

\* Whatever is in the memory nodes are made of, every list reads as the
\* sequence of what was added to it and replaced in it, at every position and
\* past its end, and no two lists share a node, until a clear frees what was
\* not its own (add_back, add_lock, get_at, replace_at; the link of the last
\* node is garbage, and only the count keeps readers from following it).
ReadsAsSequence ==
  ~damaged =>
    \A l \in Lists :
      /\ num[l] = Len(content[l])
      /\ \A i \in 0 .. Cardinality(Nodes) :
           GetAt(l, i) = IF i < num[l] THEN content[l][i + 1] ELSE NULL
      /\ NodesOf(l) \cap free = {}
      /\ \A k \in Lists \ {l} : NodesOf(l) \cap NodesOf(k) = {}
=============================================================================
