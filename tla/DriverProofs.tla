--------------------------- MODULE DriverProofs ---------------------------
(***************************************************************************)
(* What holds of the lists, the spin lock, the serial line, the PCI bus    *)
(* and the ports of an AHCI controller for every size of them.             *)
(***************************************************************************)
EXTENDS List, SpinLock, Serial, Pci, AhciPort, NaturalInduction, FiniteSetTheorems, TLAPS

(***************************************************************************)
(* Lists.  Each list lies along a path of nodes that no other list and no  *)
(* free memory has a part in.  get_at follows links, so what a walk finds  *)
(* is shown by induction over its length (ClosedUnderSuccessor).           *)
(***************************************************************************)
\* f is the walk from n over at most k links, as Follow takes it.
StepOf(n, k, f) ==
  f = [i \in 0 .. k |->
        IF i = 0 \/ f[i - 1] = NULL \/ next[f[i - 1]] = NULL
          THEN IF i = 0 THEN n ELSE f[i - 1]
          ELSE next[f[i - 1]]]

\* Follow takes the end of such a walk.
LEMMA FollowIsStep ==
  ASSUME NEW n, NEW k
  PROVE  Follow(n, k) = (CHOOSE f : StepOf(n, k, f))[k]
BY Zenon DEF Follow, StepOf

\* There is a walk of every length, from every node.
LEMMA WalkExists ==
  ASSUME NEW n
  PROVE  \A k \in Nat : \E f : StepOf(n, k, f)
<1> DEFINE S == {k \in Nat : \E f : StepOf(n, k, f)}
<1>1. 0 \in S
  <2> DEFINE f == [i \in 0 .. 0 |-> n]
  <2>1. StepOf(n, 0, f)
    BY DEF StepOf
  <2> QED
    BY <2>1
<1>2. ASSUME NEW k \in Nat, k \in S PROVE k + 1 \in S
  <2>1. PICK f : StepOf(n, k, f)
    BY <1>2
  <2> DEFINE last == IF f[k] = NULL \/ next[f[k]] = NULL THEN f[k] ELSE next[f[k]]
             g == [i \in 0 .. (k + 1) |-> IF i = k + 1 THEN last ELSE f[i]]
  <2>2. g[k + 1] = last /\ \A i \in 0 .. k : g[i] = f[i]
    OBVIOUS
  <2> HIDE DEF last
  <2>3. \A i \in 0 .. (k + 1) :
          g[i] = IF i = 0 \/ g[i - 1] = NULL \/ next[g[i - 1]] = NULL
                   THEN IF i = 0 THEN n ELSE g[i - 1]
                   ELSE next[g[i - 1]]
    <3> TAKE i \in 0 .. (k + 1)
    <3>1. CASE i = k + 1
      <4>1. g[i - 1] = f[k] /\ i # 0 /\ g[i] = last
        BY <2>2, <3>1
      <4> QED
        BY <4>1 DEF last
    <3>2. CASE i \in 0 .. k
      <4>1. g[i] = f[i] /\ (i # 0 => g[i - 1] = f[i - 1])
        BY <2>2, <3>2
      <4>2. f[i] = IF i = 0 \/ f[i - 1] = NULL \/ next[f[i - 1]] = NULL
                     THEN IF i = 0 THEN n ELSE f[i - 1]
                     ELSE next[f[i - 1]]
        BY <2>1, <3>2 DEF StepOf
      <4> QED
        BY <4>1, <4>2
    <3> QED
      BY <3>1, <3>2
  <2>4. g = [i \in 0 .. (k + 1) |-> g[i]]
    OBVIOUS
  <2> HIDE DEF g
  <2>5. StepOf(n, k + 1, g)
    BY <2>3, <2>4 DEF StepOf
  <2> QED
    BY <2>5
<1> HIDE DEF S
<1>3. \A k \in Nat : k \in S
  BY <1>1, <1>2, ClosedUnderSuccessor
<1> QED
  BY <1>3 DEF S

\* Where a walk along the links of a path is after k links: on the path.
LEMMA FollowsPath ==
  ASSUME NEW p \in Seq(Nodes), NEW k \in Nat, k < Len(p),
         \A i \in 1 .. (Len(p) - 1) : next[p[i]] = p[i + 1]
  PROVE  Follow(p[1], k) = p[k + 1]
<1>1. PICK f : f = CHOOSE g : StepOf(p[1], k, g)
  OBVIOUS
<1>2. StepOf(p[1], k, f)
  BY <1>1, WalkExists, Zenon
<1>3. Follow(p[1], k) = f[k]
  BY <1>1, FollowIsStep
<1>4. Len(p) \in Nat /\ \A i \in 1 .. Len(p) : p[i] \in Nodes /\ p[i] # NULL
  BY ListAssumption
<1> DEFINE S == {i \in Nat : i <= k => f[i] = p[i + 1]}
<1>5. 0 \in S
  BY <1>2 DEF StepOf
<1>6. ASSUME NEW i \in Nat, i \in S PROVE i + 1 \in S
  <2> SUFFICES ASSUME i + 1 <= k PROVE f[i + 1] = p[i + 2]
    OBVIOUS
  <2>1. f[i] = p[i + 1] /\ i + 1 \in 0 .. k /\ (i + 1) - 1 = i /\ i + 1 # 0
    BY <1>6
  <2>2. next[p[i + 1]] = p[i + 2] /\ p[i + 1] # NULL /\ p[i + 2] # NULL
    <3>1. i + 1 \in 1 .. (Len(p) - 1) /\ (i + 1) + 1 = i + 2 /\ i + 2 \in 1 .. Len(p)
      BY <1>4
    <3> QED
      BY <1>4, <3>1
  <2>3. f[i + 1] = IF f[i] = NULL \/ next[f[i]] = NULL THEN f[i] ELSE next[f[i]]
    BY <1>2, <2>1 DEF StepOf
  <2> QED
    BY <2>1, <2>2, <2>3
<1> HIDE DEF S
<1>7. k \in S
  BY <1>5, <1>6, ClosedUnderSuccessor
<1> QED
  BY <1>3, <1>7 DEF S

\* The nodes of list l, in order, are p.
OnPath(l, p) ==
  /\ Len(p) = num[l] /\ Len(p) = Len(content[l])
  /\ front[l] = IF p = <<>> THEN NULL ELSE p[1]
  /\ back[l] = IF p = <<>> THEN NULL ELSE p[Len(p)]
  /\ \A i \in 1 .. (Len(p) - 1) : next[p[i]] = p[i + 1]
  /\ \A i \in 1 .. Len(p) : obj[p[i]] = content[l][i]

\* The lists lie along ps, in nodes of their own.
Paths(ps) ==
  /\ ps \in [Lists -> Seq(Nodes)]
  /\ \A l \in Lists : OnPath(l, ps[l])
  /\ \A l \in Lists : \A i \in 1 .. Len(ps[l]) : ps[l][i] \notin free
  /\ \A l \in Lists : \A m \in Lists : \A i \in 1 .. Len(ps[l]) : \A j \in 1 .. Len(ps[m]) :
       ps[l][i] = ps[m][j] => l = m /\ i = j

ListTypes ==
  /\ next \in [Nodes -> Link]
  /\ obj \in [Nodes -> Objects \cup {NULL}]
  /\ free \subseteq Nodes
  /\ front \in [Lists -> Nodes \cup {NULL}] /\ back \in [Lists -> Nodes \cup {NULL}]
  /\ num \in [Lists -> Nat]
  /\ content \in [Lists -> Seq(Objects)]

\* The link of a list's last node may be anything.
ListInv ==
  /\ ListTypes
  /\ ~damaged => \E ps : Paths(ps)

\* One list gets a new path and the others keep theirs.
LEMMA OneListChanges ==
  ASSUME NEW ps, Paths(ps), NEW l \in Lists, NEW p \in Seq(Nodes), OnPath(l, p)',
         \A m \in Lists \ {l} :
           /\ front'[m] = front[m] /\ back'[m] = back[m] /\ num'[m] = num[m]
           /\ content'[m] = content[m]
           /\ \A i \in 1 .. Len(ps[m]) :
                /\ ps[m][i] \notin free'
                /\ next'[ps[m][i]] = next[ps[m][i]] /\ obj'[ps[m][i]] = obj[ps[m][i]]
                /\ \A j \in 1 .. Len(p) : p[j] # ps[m][i],
         \A i \in 1 .. Len(p) : p[i] \notin free',
         \A i \in 1 .. Len(p) : \A j \in 1 .. Len(p) : p[i] = p[j] => i = j
  PROVE  Paths([ps EXCEPT ![l] = p])'
<1> DEFINE ps2 == [ps EXCEPT ![l] = p]
<1>1. ps2 \in [Lists -> Seq(Nodes)] /\ ps2[l] = p /\ \A m \in Lists \ {l} : ps2[m] = ps[m]
  BY DEF Paths
<1> HIDE DEF ps2
<1>2. ASSUME NEW m \in Lists PROVE OnPath(m, ps2[m])'
  <2>1. CASE m = l
    BY <1>1, <2>1
  <2>2. CASE m # l
    <3>1. OnPath(m, ps[m]) /\ m \in Lists \ {l} /\ ps2[m] = ps[m]
      BY <1>1, <2>2 DEF Paths
    <3>2. \A i \in 1 .. (Len(ps[m]) - 1) : i \in 1 .. Len(ps[m])
      <4>1. Len(ps[m]) \in Nat
        BY DEF Paths
      <4> QED
        BY <4>1
    <3>3. OnPath(m, ps[m])'
      <4>1. PICK q : q = ps[m]
        OBVIOUS
      <4>2. /\ front'[m] = front[m] /\ back'[m] = back[m] /\ num'[m] = num[m]
            /\ content'[m] = content[m]
        BY <3>1
      <4>3. \A i \in 1 .. Len(q) : next'[q[i]] = next[q[i]] /\ obj'[q[i]] = obj[q[i]]
        BY <3>1, <4>1
      <4>4. OnPath(m, q)
        BY <3>1, <4>1
      <4>5. \A i \in 1 .. (Len(q) - 1) : next'[q[i]] = q[i + 1]
        BY <3>2, <4>1, <4>3, <4>4 DEF OnPath
      <4>6. \A i \in 1 .. Len(q) : obj'[q[i]] = content'[m][i]
        BY <4>2, <4>3, <4>4 DEF OnPath
      <4>7. OnPath(m, q)'
        BY <4>2, <4>4, <4>5, <4>6 DEF OnPath
      <4> QED
        BY <4>1, <4>7
    <3> QED
      BY <3>1, <3>3
  <2> QED
    BY <2>1, <2>2
<1>3. ASSUME NEW m \in Lists, NEW i \in 1 .. Len(ps2[m]) PROVE ps2[m][i] \notin free'
  <2>1. CASE m = l
    BY <1>1, <2>1
  <2>2. CASE m # l
    <3>1. ps2[m] = ps[m] /\ m \in Lists \ {l}
      BY <1>1, <2>2
    <3> QED
      BY <3>1
  <2> QED
    BY <2>1, <2>2
<1>4. ASSUME NEW m \in Lists, NEW k \in Lists, NEW i \in 1 .. Len(ps2[m]),
             NEW j \in 1 .. Len(ps2[k]), ps2[m][i] = ps2[k][j]
      PROVE  m = k /\ i = j
  <2>1. CASE m = l /\ k = l
    BY <1>1, <1>4, <2>1
  <2>2. CASE m = l /\ k # l
    BY <1>1, <1>4, <2>2
  <2>3. CASE m # l /\ k = l
    BY <1>1, <1>4, <2>3
  <2>4. CASE m # l /\ k # l
    BY <1>1, <1>4, <2>4 DEF Paths
  <2> QED
    BY <2>1, <2>2, <2>3, <2>4
<1>5. Paths(ps2)'
  BY <1>1, <1>2, <1>3, <1>4 DEF Paths
<1> QED
  BY <1>5 DEF ps2

\* What the invariant says of a list and of two nodes on lists.
LEMMA PathFacts ==
  ASSUME ListTypes, NEW ps, Paths(ps), NEW l \in Lists
  PROVE  /\ ps[l] \in Seq(Nodes) /\ Len(ps[l]) \in Nat
         /\ Len(ps[l]) = num[l] /\ Len(ps[l]) = Len(content[l])
         /\ content[l] \in Seq(Objects)
         /\ front[l] = NULL <=> Len(ps[l]) = 0
         /\ back[l] = NULL <=> Len(ps[l]) = 0
         /\ Len(ps[l]) > 0 => /\ front[l] = ps[l][1] /\ back[l] = ps[l][Len(ps[l])]
                              /\ Len(ps[l]) \in 1 .. Len(ps[l])
         /\ \A i \in 1 .. (Len(ps[l]) - 1) : next[ps[l][i]] = ps[l][i + 1]
         /\ \A i \in 1 .. Len(ps[l]) : /\ ps[l][i] \in Nodes /\ ps[l][i] \notin free
                                       /\ obj[ps[l][i]] = content[l][i]
<1>1. ps[l] \in Seq(Nodes) /\ Len(ps[l]) \in Nat /\ OnPath(l, ps[l])
  BY DEF Paths
<1>2. (ps[l] = <<>> <=> Len(ps[l]) = 0) /\ (Len(ps[l]) > 0 => 1 \in 1 .. Len(ps[l]) /\ Len(ps[l]) \in 1 .. Len(ps[l]))
  BY <1>1
<1>3. \A i \in 1 .. Len(ps[l]) : ps[l][i] \in Nodes /\ ps[l][i] # NULL
  BY <1>1, ListAssumption
<1>4. Len(ps[l]) # 0 => Len(ps[l]) > 0
  BY <1>1
<1>5. content[l] \in Seq(Objects) /\ \A i \in 1 .. Len(ps[l]) : ps[l][i] \notin free
  BY DEF Paths, ListTypes
<1> QED
  BY <1>1, <1>2, <1>3, <1>4, <1>5 DEF OnPath

\* A walk of fewer links than the list has nodes is along its path.
LEMMA WalkOnPath ==
  ASSUME ListTypes, NEW ps, Paths(ps), NEW m \in Lists, NEW i \in Nat, i < num[m]
  PROVE  /\ front[m] # NULL /\ i + 1 \in 1 .. Len(ps[m])
         /\ Follow(front[m], i) = ps[m][i + 1]
<1>1. PICK p : p = ps[m]
  OBVIOUS
<1>2. /\ p \in Seq(Nodes) /\ Len(p) \in Nat /\ Len(p) = num[m]
      /\ front[m] = NULL <=> Len(p) = 0
      /\ Len(p) > 0 => front[m] = p[1]
      /\ \A j \in 1 .. (Len(p) - 1) : next[p[j]] = p[j + 1]
  BY <1>1, PathFacts
<1>3. i < Len(p) /\ Len(p) > 0 /\ i + 1 \in 1 .. Len(p)
  BY <1>2
<1>4. Follow(p[1], i) = p[i + 1]
  BY <1>2, <1>3, FollowsPath
<1> QED
  BY <1>1, <1>2, <1>3, <1>4

\* So the nodes get_at can reach are those of the path.
LEMMA NodesOnPath ==
  ASSUME ListTypes, NEW ps, Paths(ps), NEW m \in Lists
  PROVE  \A x \in NodesOf(m) : \E i \in 1 .. Len(ps[m]) : x = ps[m][i]
<1> TAKE x \in NodesOf(m)
<1>1. PICK i \in 0 .. (num[m] - 1) : x = Follow(front[m], i)
  BY DEF NodesOf
<1>2. i \in Nat /\ i < num[m]
  BY DEF ListTypes
<1> QED
  BY <1>1, <1>2, WalkOnPath

\* add_back puts a node behind the last one.
LEMMA AddBackKeeps ==
  ASSUME ListInv, ~damaged, NEW l \in Lists, NEW o \in Objects, add_back(l, o)
  PROVE  ListInv'
<1>1. ListTypes
  BY DEF ListInv
<1>2. PICK ps : Paths(ps)
  BY DEF ListInv
<1>3. PICK n \in free, junk \in Link :
        /\ free' = free \ {n}
        /\ obj' = [obj EXCEPT ![n] = o]
        /\ next' = LinkBehindBack(l, n, junk)
        /\ front' = [front EXCEPT ![l] = IF front[l] = NULL THEN n ELSE front[l]]
        /\ back' = [back EXCEPT ![l] = n]
        /\ num' = [num EXCEPT ![l] = num[l] + 1]
        /\ content' = [content EXCEPT ![l] = Append(content[l], o)]
        /\ UNCHANGED damaged
  BY DEF add_back
<1>4. PICK p : p = ps[l]
  OBVIOUS
<1>5. PICK len : len = Len(p)
  OBVIOUS
<1>6. /\ p \in Seq(Nodes) /\ len \in Nat /\ len = num[l] /\ len = Len(content[l])
      /\ content[l] \in Seq(Objects)
      /\ front[l] = NULL <=> len = 0
      /\ len > 0 => front[l] = p[1] /\ back[l] = p[len] /\ len \in 1 .. len
      /\ \A i \in 1 .. (len - 1) : next[p[i]] = p[i + 1]
      /\ \A i \in 1 .. len : p[i] \in Nodes /\ p[i] \notin free /\ obj[p[i]] = content[l][i]
  BY <1>1, <1>2, <1>4, <1>5, PathFacts
<1>7. n \in Nodes /\ n # NULL
  BY <1>1, ListAssumption DEF ListTypes
<1>8. /\ next' \in [Nodes -> Link]
      /\ \A x \in Nodes \ {n} : next'[x] = IF len > 0 /\ x = back[l] THEN n ELSE next[x]
  <2>1. n \in Link /\ next \in [Nodes -> Link]
    BY <1>1, <1>7 DEF Link, ListTypes
  <2>2. CASE len = 0
    <3>1. next' = [next EXCEPT ![n] = junk]
      BY <1>3, <1>6, <2>2 DEF LinkBehindBack
    <3>2. ~(len > 0)
      BY <2>2
    <3>3. next' \in [Nodes -> Link] /\ \A x \in Nodes \ {n} : next'[x] = next[x]
      BY <2>1, <3>1
    <3> QED
      BY <3>2, <3>3
  <2>3. CASE len > 0
    <3>1. next' = [[next EXCEPT ![n] = junk] EXCEPT ![back[l]] = n]
      BY <1>3, <1>6, <2>3 DEF LinkBehindBack
    <3> QED
      BY <2>1, <2>3, <3>1
  <2> QED
    BY <1>6, <2>2, <2>3
<1>9. ListTypes'
  <2>1. Append(content[l], o) \in Seq(Objects) /\ num[l] + 1 \in Nat
    BY <1>6
  <2> QED
    BY <1>1, <1>3, <1>7, <1>8, <2>1 DEF ListTypes
<1>10. PICK p2 : p2 = Append(p, n)
  OBVIOUS
<1>11. /\ p2 \in Seq(Nodes) /\ Len(p2) = len + 1 /\ p2[len + 1] = n /\ p2 # <<>>
       /\ \A i \in 1 .. len : p2[i] = p[i]
       /\ \A i \in 1 .. Len(p2) : i \in 1 .. len \/ i = len + 1
  <2>1. p \in Seq(Nodes) /\ n \in Nodes
    BY <1>6, <1>7
  <2>2. p2 \in Seq(Nodes) /\ Len(p2) = len + 1 /\ p2[len + 1] = n
    BY ONLY <1>5, <1>10, <2>1
  <2>3. \A i \in 1 .. len : p2[i] = p[i]
    BY ONLY <1>5, <1>10, <2>1
  <2> QED
    BY <1>6, <2>2, <2>3
<1>12. \A i \in 1 .. len : \A j \in 1 .. len : p[i] = p[j] => i = j
  BY <1>2, <1>4, <1>5 DEF Paths
<1>13. OnPath(l, p2)'
  <2>1. /\ front'[l] = (IF len = 0 THEN n ELSE front[l]) /\ back'[l] = n
        /\ num'[l] = len + 1 /\ content'[l] = Append(content[l], o)
        /\ Len(content'[l]) = len + 1
    BY <1>1, <1>3, <1>6 DEF ListTypes
  <2>2. front'[l] = p2[1]
    BY <1>6, <1>11, <2>1
  <2>3. ASSUME NEW i \in 1 .. (Len(p2) - 1) PROVE next'[p2[i]] = p2[i + 1]
    <3>1. i \in 1 .. len /\ p2[i] = p[i] /\ p[i] \in Nodes \ {n}
      BY <1>6, <1>11
    <3>2. CASE i = len
      BY <1>6, <1>8, <1>11, <3>1, <3>2
    <3>3. CASE i # len
      <4>1. i \in 1 .. (len - 1) /\ i + 1 \in 1 .. len /\ len \in 1 .. len /\ len > 0
        BY <1>6, <3>1, <3>3
      <4>2. p[i] # back[l]
        BY <1>6, <1>12, <3>1, <3>3, <4>1
      <4> QED
        BY <1>6, <1>8, <1>11, <3>1, <4>1, <4>2
    <3> QED
      BY <3>2, <3>3
  <2>4. ASSUME NEW i \in 1 .. Len(p2) PROVE obj'[p2[i]] = content'[l][i]
    <3>1. CASE i \in 1 .. len
      <4>1. p2[i] = p[i] /\ p[i] \in Nodes /\ p[i] # n /\ obj[p[i]] = content[l][i]
        BY <1>6, <1>11, <3>1
      <4>2. content'[l][i] = content[l][i]
        BY <1>6, <2>1, <3>1
      <4> QED
        BY <1>1, <1>3, <4>1, <4>2 DEF ListTypes
    <3>2. CASE i = len + 1
      <4>1. content'[l][i] = o
        BY <1>6, <2>1, <3>2
      <4> QED
        BY <1>1, <1>3, <1>7, <1>11, <3>2, <4>1 DEF ListTypes
    <3> QED
      BY <1>11, <3>1, <3>2
  <2> QED
    BY <1>11, <2>1, <2>2, <2>3, <2>4 DEF OnPath
<1>14. ASSUME NEW m \in Lists \ {l}
       PROVE  /\ front'[m] = front[m] /\ back'[m] = back[m] /\ num'[m] = num[m]
              /\ content'[m] = content[m]
              /\ \A i \in 1 .. Len(ps[m]) :
                   /\ ps[m][i] \notin free'
                   /\ next'[ps[m][i]] = next[ps[m][i]] /\ obj'[ps[m][i]] = obj[ps[m][i]]
                   /\ \A j \in 1 .. Len(p2) : p2[j] # ps[m][i]
  <2>1. /\ front'[m] = front[m] /\ back'[m] = back[m] /\ num'[m] = num[m]
        /\ content'[m] = content[m]
    BY <1>1, <1>3 DEF ListTypes
  <2>2. ASSUME NEW i \in 1 .. Len(ps[m])
        PROVE  /\ ps[m][i] \notin free'
               /\ next'[ps[m][i]] = next[ps[m][i]] /\ obj'[ps[m][i]] = obj[ps[m][i]]
               /\ \A j \in 1 .. Len(p2) : p2[j] # ps[m][i]
    <3>1. PICK x : x = ps[m][i]
      OBVIOUS
    <3>2. x \in Nodes /\ x \notin free /\ x # n
      BY <1>1, <1>2, <3>1, PathFacts
    <3>3. \A j \in 1 .. len : p[j] # x
      BY <1>2, <1>4, <1>5, <3>1 DEF Paths
    <3>4. len > 0 => x # back[l]
      BY <1>6, <3>3
    <3>5. x \notin free' /\ next'[x] = next[x] /\ obj'[x] = obj[x]
      BY <1>1, <1>3, <1>8, <3>2, <3>4 DEF ListTypes
    <3>6. \A j \in 1 .. Len(p2) : p2[j] # x
      BY <1>11, <3>2, <3>3
    <3> QED
      BY <3>1, <3>5, <3>6
  <2> QED
    BY <2>1, <2>2
<1>15. \A i \in 1 .. Len(p2) : p2[i] \notin free'
  BY <1>3, <1>6, <1>11
<1>16. \A i \in 1 .. Len(p2) : \A j \in 1 .. Len(p2) : p2[i] = p2[j] => i = j
  <2>1. \A i \in 1 .. len : p2[i] # n
    BY <1>6, <1>11
  <2> QED
    BY <1>11, <1>12, <2>1
<1>17. Paths([ps EXCEPT ![l] = p2])'
  BY <1>2, <1>11, <1>13, <1>14, <1>15, <1>16, OneListChanges
<1> QED
  BY <1>9, <1>17 DEF ListInv

\* What <<n>> \o p is.
LEMMA InFront ==
  ASSUME NEW S, NEW p \in Seq(S), NEW n \in S
  PROVE  /\ <<n>> \o p \in Seq(S) /\ Len(<<n>> \o p) = Len(p) + 1 /\ Len(p) \in Nat
         /\ (<<n>> \o p)[1] = n /\ \A i \in 1 .. Len(p) : (<<n>> \o p)[i + 1] = p[i]
         /\ \A i \in 1 .. (Len(p) + 1) : i = 1 \/ (i - 1 \in 1 .. Len(p) /\ i = (i - 1) + 1)
<1>1. <<n>> \in Seq(S) /\ Len(<<n>>) = 1 /\ <<n>>[1] = n
  OBVIOUS
<1>2. <<n>> \o p \in Seq(S) /\ Len(<<n>> \o p) = Len(p) + 1 /\ Len(p) \in Nat
  BY <1>1
<1>3. (<<n>> \o p)[1] = n
  BY <1>1, <1>2
<1>4. \A i \in 1 .. Len(p) : (<<n>> \o p)[i + 1] = p[i]
  BY <1>1, <1>2
<1> QED
  BY <1>2, <1>3, <1>4

\* add_lock puts a node before the first one.
LEMMA AddLockKeeps ==
  ASSUME ListInv, ~damaged, NEW l \in Lists, NEW o \in Objects, add_lock(l, o)
  PROVE  ListInv'
<1>1. ListTypes
  BY DEF ListInv
<1>2. PICK ps : Paths(ps)
  BY DEF ListInv
<1>3. PICK n \in free :
        /\ free' = free \ {n}
        /\ obj' = [obj EXCEPT ![n] = o]
        /\ next' = [next EXCEPT ![n] = IF back[l] = NULL THEN NULL ELSE front[l]]
        /\ front' = [front EXCEPT ![l] = n]
        /\ back' = [back EXCEPT ![l] = IF back[l] = NULL THEN n ELSE back[l]]
        /\ num' = [num EXCEPT ![l] = num[l] + 1]
        /\ content' = [content EXCEPT ![l] = <<o>> \o content[l]]
        /\ UNCHANGED damaged
  BY DEF add_lock
<1>4. PICK p : p = ps[l]
  OBVIOUS
<1>5. PICK len : len = Len(p)
  OBVIOUS
<1>6. /\ p \in Seq(Nodes) /\ len \in Nat /\ len = num[l] /\ len = Len(content[l])
      /\ content[l] \in Seq(Objects)
      /\ back[l] = NULL <=> len = 0
      /\ len > 0 => front[l] = p[1] /\ back[l] = p[len] /\ len \in 1 .. len
      /\ \A i \in 1 .. (len - 1) : next[p[i]] = p[i + 1]
      /\ \A i \in 1 .. len : p[i] \in Nodes /\ p[i] \notin free /\ obj[p[i]] = content[l][i]
  <2>1. /\ ps[l] \in Seq(Nodes) /\ Len(ps[l]) \in Nat
        /\ Len(ps[l]) = num[l] /\ Len(ps[l]) = Len(content[l])
        /\ content[l] \in Seq(Objects)
        /\ front[l] = NULL <=> Len(ps[l]) = 0
        /\ back[l] = NULL <=> Len(ps[l]) = 0
        /\ Len(ps[l]) > 0 => /\ front[l] = ps[l][1] /\ back[l] = ps[l][Len(ps[l])]
                             /\ Len(ps[l]) \in 1 .. Len(ps[l])
        /\ \A i \in 1 .. (Len(ps[l]) - 1) : next[ps[l][i]] = ps[l][i + 1]
        /\ \A i \in 1 .. Len(ps[l]) : /\ ps[l][i] \in Nodes /\ ps[l][i] \notin free
                                      /\ obj[ps[l][i]] = content[l][i]
    BY <1>1, <1>2, PathFacts
  <2> QED
    BY <1>4, <1>5, <2>1
<1>7. n \in Nodes /\ n # NULL
  BY <1>1, ListAssumption DEF ListTypes
<1>8. /\ \A x \in Nodes : next'[x] = IF x = n THEN (IF len = 0 THEN NULL ELSE front[l]) ELSE next[x]
      /\ \A x \in Nodes : obj'[x] = IF x = n THEN o ELSE obj[x]
  BY <1>1, <1>3, <1>6 DEF ListTypes
<1>9. ListTypes'
  <2>1. <<o>> \o content[l] \in Seq(Objects) /\ num[l] + 1 \in Nat
    BY <1>6
  <2> QED
    BY <1>1, <1>3, <1>7, <2>1 DEF ListTypes, Link
<1>10. PICK p2 : p2 = <<n>> \o p
  OBVIOUS
<1>11. /\ p2 \in Seq(Nodes) /\ Len(p2) = len + 1 /\ p2[1] = n /\ p2 # <<>>
       /\ \A i \in 1 .. len : p2[i + 1] = p[i]
       /\ \A i \in 1 .. Len(p2) : i = 1 \/ (i - 1 \in 1 .. len /\ i = (i - 1) + 1)
  <2>1. p \in Seq(Nodes) /\ n \in Nodes
    BY <1>6, <1>7
  <2>2. /\ p2 \in Seq(Nodes) /\ Len(p2) = len + 1 /\ p2[1] = n
        /\ \A i \in 1 .. len : p2[i + 1] = p[i]
        /\ \A i \in 1 .. (len + 1) : i = 1 \/ (i - 1 \in 1 .. len /\ i = (i - 1) + 1)
    BY ONLY <1>5, <1>10, <2>1, InFront
  <2> QED
    BY <1>6, <2>2
<1>12. \A i \in 1 .. len : \A j \in 1 .. len : p[i] = p[j] => i = j
  BY <1>2, <1>4, <1>5 DEF Paths
<1>13. OnPath(l, p2)'
  <2>1. /\ front'[l] = n /\ back'[l] = (IF len = 0 THEN n ELSE back[l])
        /\ num'[l] = len + 1 /\ content'[l] = <<o>> \o content[l]
    BY <1>1, <1>3, <1>6 DEF ListTypes
  <2>2. /\ Len(content'[l]) = len + 1 /\ content'[l][1] = o
        /\ \A i \in 1 .. len : content'[l][i + 1] = content[l][i]
    BY <1>6, <2>1, InFront
  <2>3. back'[l] = p2[len + 1]
    BY <1>6, <1>11, <2>1
  <2>4. ASSUME NEW i \in 1 .. (Len(p2) - 1) PROVE next'[p2[i]] = p2[i + 1]
    <3>1. i \in 1 .. len /\ p2[i + 1] = p[i] /\ i \in 1 .. Len(p2)
      BY <1>6, <1>11
    <3>2. CASE i = 1
      BY <1>6, <1>7, <1>8, <1>11, <3>1, <3>2
    <3>3. CASE i # 1
      <4>1. i - 1 \in 1 .. len /\ i = (i - 1) + 1 /\ i - 1 \in 1 .. (len - 1)
        BY <1>6, <1>11, <3>1, <3>3
      <4>2. p2[i] = p[i - 1] /\ p[i - 1] \in Nodes /\ p[i - 1] # n /\ next[p[i - 1]] = p[i]
        BY <1>6, <1>11, <4>1
      <4> QED
        BY <1>8, <3>1, <4>2
    <3> QED
      BY <3>2, <3>3
  <2>5. ASSUME NEW i \in 1 .. Len(p2) PROVE obj'[p2[i]] = content'[l][i]
    <3>1. CASE i = 1
      BY <1>7, <1>8, <1>11, <2>2, <3>1
    <3>2. CASE i # 1
      <4>1. i - 1 \in 1 .. len /\ i = (i - 1) + 1
        BY <1>11, <3>2
      <4>2. /\ p2[i] = p[i - 1] /\ p[i - 1] \in Nodes /\ p[i - 1] # n
            /\ obj[p[i - 1]] = content[l][i - 1] /\ content'[l][i] = content[l][i - 1]
        BY <1>6, <1>11, <2>2, <4>1
      <4> QED
        BY <1>8, <4>2
    <3> QED
      BY <3>1, <3>2
  <2> QED
    BY <1>11, <2>1, <2>2, <2>3, <2>4, <2>5 DEF OnPath
<1>14. ASSUME NEW m \in Lists \ {l}
       PROVE  /\ front'[m] = front[m] /\ back'[m] = back[m] /\ num'[m] = num[m]
              /\ content'[m] = content[m]
              /\ \A i \in 1 .. Len(ps[m]) :
                   /\ ps[m][i] \notin free'
                   /\ next'[ps[m][i]] = next[ps[m][i]] /\ obj'[ps[m][i]] = obj[ps[m][i]]
                   /\ \A j \in 1 .. Len(p2) : p2[j] # ps[m][i]
  <2>1. /\ front'[m] = front[m] /\ back'[m] = back[m] /\ num'[m] = num[m]
        /\ content'[m] = content[m]
    BY <1>1, <1>3 DEF ListTypes
  <2>2. ASSUME NEW i \in 1 .. Len(ps[m])
        PROVE  /\ ps[m][i] \notin free'
               /\ next'[ps[m][i]] = next[ps[m][i]] /\ obj'[ps[m][i]] = obj[ps[m][i]]
               /\ \A j \in 1 .. Len(p2) : p2[j] # ps[m][i]
    <3>1. PICK x : x = ps[m][i]
      OBVIOUS
    <3>2. x \in Nodes /\ x \notin free /\ x # n
      BY <1>1, <1>2, <3>1, PathFacts
    <3>3. \A j \in 1 .. len : p[j] # x
      BY <1>2, <1>4, <1>5, <3>1 DEF Paths
    <3>4. x \notin free' /\ next'[x] = next[x] /\ obj'[x] = obj[x]
      BY <1>3, <1>8, <3>2
    <3>5. \A j \in 1 .. Len(p2) : p2[j] # x
      BY <1>11, <3>2, <3>3
    <3> QED
      BY <3>1, <3>4, <3>5
  <2> QED
    BY <2>1, <2>2
<1>15. ASSUME NEW i \in 1 .. Len(p2) PROVE p2[i] \notin free'
  <2>1. CASE i = 1
    BY <1>3, <1>11, <2>1
  <2>2. CASE i # 1
    <3>1. i - 1 \in 1 .. len /\ p2[i] = p[i - 1]
      BY <1>11, <2>2
    <3> QED
      BY <1>3, <1>6, <3>1
  <2> QED
    BY <2>1, <2>2
<1>16. \A i \in 1 .. Len(p2) : \A j \in 1 .. Len(p2) : p2[i] = p2[j] => i = j
  <2>1. \A i \in 1 .. len : p2[i + 1] # n
    BY <1>6, <1>11
  <2> QED
    BY <1>11, <1>12, <2>1
<1>17. Paths([ps EXCEPT ![l] = p2])'
  BY <1>2, <1>11, <1>13, <1>14, <1>15, <1>16, OneListChanges
<1> QED
  BY <1>9, <1>17 DEF ListInv

\* replace_at changes the object of the node at its position.
LEMMA ReplaceKeeps ==
  ASSUME ListInv, ~damaged, NEW l \in Lists, NEW pos \in Nat, NEW o \in Objects,
         replace_at(l, pos, o)
  PROVE  ListInv'
<1>1. ListTypes
  BY DEF ListInv
<1>2. PICK ps : Paths(ps)
  BY DEF ListInv
<1>4. PICK p : p = ps[l]
  OBVIOUS
<1>5. PICK len : len = Len(p)
  OBVIOUS
<1>6. /\ p \in Seq(Nodes) /\ len \in Nat /\ len = num[l] /\ len = Len(content[l])
      /\ content[l] \in Seq(Objects)
      /\ front[l] = NULL <=> len = 0
      /\ back[l] = NULL <=> len = 0
      /\ len > 0 => front[l] = p[1] /\ back[l] = p[len] /\ len \in 1 .. len
      /\ \A i \in 1 .. (len - 1) : next[p[i]] = p[i + 1]
      /\ \A i \in 1 .. len : p[i] \in Nodes /\ p[i] \notin free /\ obj[p[i]] = content[l][i]
  <2>1. /\ ps[l] \in Seq(Nodes) /\ Len(ps[l]) \in Nat
        /\ Len(ps[l]) = num[l] /\ Len(ps[l]) = Len(content[l])
        /\ content[l] \in Seq(Objects)
        /\ front[l] = NULL <=> Len(ps[l]) = 0
        /\ back[l] = NULL <=> Len(ps[l]) = 0
        /\ Len(ps[l]) > 0 => /\ front[l] = ps[l][1] /\ back[l] = ps[l][Len(ps[l])]
                             /\ Len(ps[l]) \in 1 .. Len(ps[l])
        /\ \A i \in 1 .. (Len(ps[l]) - 1) : next[ps[l][i]] = ps[l][i + 1]
        /\ \A i \in 1 .. Len(ps[l]) : /\ ps[l][i] \in Nodes /\ ps[l][i] \notin free
                                      /\ obj[ps[l][i]] = content[l][i]
    BY <1>1, <1>2, PathFacts
  <2> QED
    BY <1>4, <1>5, <2>1
<1>7. pos < len /\ len > 0 /\ pos + 1 \in 1 .. len
  BY <1>6 DEF replace_at
<1>8. PICK x : x = p[pos + 1]
  OBVIOUS
<1>9. Follow(front[l], pos) = x /\ x \in Nodes
  BY <1>5, <1>6, <1>7, <1>8, FollowsPath
<1>10. /\ obj' = [obj EXCEPT ![x] = o]
       /\ content' = [content EXCEPT ![l] = [content[l] EXCEPT ![pos + 1] = o]]
       /\ UNCHANGED <<next, free, front, back, num, damaged>>
  BY <1>9 DEF replace_at
<1>11. /\ [content[l] EXCEPT ![pos + 1] = o] \in Seq(Objects)
       /\ Len([content[l] EXCEPT ![pos + 1] = o]) = len
       /\ \A i \in 1 .. len : [content[l] EXCEPT ![pos + 1] = o][i] = IF i = pos + 1 THEN o ELSE content[l][i]
  <2>1. content[l] \in Seq(Objects) /\ len = Len(content[l]) /\ pos + 1 \in 1 .. len
    BY <1>6, <1>7
  <2> QED
    BY ONLY <2>1, o \in Objects, pos \in Nat
<1>12. ListTypes'
  BY <1>1, <1>9, <1>10, <1>11 DEF ListTypes
<1>13. \A i \in 1 .. len : \A j \in 1 .. len : p[i] = p[j] => i = j
  BY <1>2, <1>4, <1>5 DEF Paths
<1>14. OnPath(l, p)'
  <2>1. OnPath(l, p)
    BY <1>2, <1>4 DEF Paths
  <2>2. Len(content'[l]) = len
    BY <1>1, <1>10, <1>11 DEF ListTypes
  <2>3. ASSUME NEW i \in 1 .. len PROVE obj'[p[i]] = content'[l][i]
    <3>1. content'[l][i] = IF i = pos + 1 THEN o ELSE content[l][i]
      BY <1>1, <1>10, <1>11 DEF ListTypes
    <3>2. p[i] = x <=> i = pos + 1
      BY <1>7, <1>8, <1>13
    <3>3. obj'[p[i]] = IF p[i] = x THEN o ELSE obj[p[i]]
      BY <1>1, <1>6, <1>10 DEF ListTypes
    <3> QED
      BY <1>6, <3>1, <3>2, <3>3
  <2> QED
    BY <1>5, <1>6, <1>10, <2>1, <2>2, <2>3 DEF OnPath
<1>15. ASSUME NEW m \in Lists \ {l}
       PROVE  /\ front'[m] = front[m] /\ back'[m] = back[m] /\ num'[m] = num[m]
              /\ content'[m] = content[m]
              /\ \A i \in 1 .. Len(ps[m]) :
                   /\ ps[m][i] \notin free'
                   /\ next'[ps[m][i]] = next[ps[m][i]] /\ obj'[ps[m][i]] = obj[ps[m][i]]
                   /\ \A j \in 1 .. Len(p) : p[j] # ps[m][i]
  <2>1. /\ front'[m] = front[m] /\ back'[m] = back[m] /\ num'[m] = num[m]
        /\ content'[m] = content[m]
    BY <1>1, <1>10 DEF ListTypes
  <2>2. ASSUME NEW i \in 1 .. Len(ps[m])
        PROVE  /\ ps[m][i] \notin free'
               /\ next'[ps[m][i]] = next[ps[m][i]] /\ obj'[ps[m][i]] = obj[ps[m][i]]
               /\ \A j \in 1 .. Len(p) : p[j] # ps[m][i]
    <3>1. PICK y : y = ps[m][i]
      OBVIOUS
    <3>2. y \in Nodes /\ y \notin free
      BY <1>1, <1>2, <3>1, PathFacts
    <3>3. \A j \in 1 .. len : p[j] # y
      BY <1>2, <1>4, <1>5, <3>1 DEF Paths
    <3>4. y # x
      BY <1>7, <1>8, <3>3
    <3>5. y \notin free' /\ next'[y] = next[y] /\ obj'[y] = obj[y]
      BY <1>1, <1>10, <3>2, <3>4 DEF ListTypes
    <3> QED
      BY <1>5, <3>1, <3>3, <3>5
  <2> QED
    BY <2>1, <2>2
<1>16. \A i \in 1 .. Len(p) : p[i] \notin free'
  BY <1>5, <1>6, <1>10
<1>17. Paths([ps EXCEPT ![l] = p])'
  <2>1. p \in Seq(Nodes) /\ \A i \in 1 .. Len(p) : \A j \in 1 .. Len(p) : p[i] = p[j] => i = j
    BY <1>5, <1>6, <1>13
  <2> QED
    BY <1>2, <1>14, <1>15, <1>16, <2>1, OneListChanges
<1> QED
  BY <1>12, <1>17 DEF ListInv

\* clear leaves the list empty.  Unless it runs past the end, it frees nodes of
\* the list only.
LEMMA ClearKeeps ==
  ASSUME ListInv, ~damaged, NEW l \in Lists, clear(l)
  PROVE  ListInv'
<1>1. ListTypes
  BY DEF ListInv
<1>2. PICK ps : Paths(ps)
  BY DEF ListInv
<1>3. /\ free' = free \cup FreedByClear(l)
      /\ front' = [front EXCEPT ![l] = NULL] /\ back' = [back EXCEPT ![l] = NULL]
      /\ num' = [num EXCEPT ![l] = 0] /\ content' = [content EXCEPT ![l] = <<>>]
      /\ UNCHANGED <<next, obj>>
  BY DEF clear
<1>4. PICK p : p = ps[l]
  OBVIOUS
<1>5. PICK len : len = Len(p)
  OBVIOUS
<1>6. \A i \in 1 .. len : p[i] \in Nodes
  <2>1. /\ ps[l] \in Seq(Nodes) /\ Len(ps[l]) \in Nat
        /\ Len(ps[l]) = num[l] /\ Len(ps[l]) = Len(content[l])
        /\ content[l] \in Seq(Objects)
        /\ front[l] = NULL <=> Len(ps[l]) = 0
        /\ back[l] = NULL <=> Len(ps[l]) = 0
        /\ Len(ps[l]) > 0 => /\ front[l] = ps[l][1] /\ back[l] = ps[l][Len(ps[l])]
                             /\ Len(ps[l]) \in 1 .. Len(ps[l])
        /\ \A i \in 1 .. (Len(ps[l]) - 1) : next[ps[l][i]] = ps[l][i + 1]
        /\ \A i \in 1 .. Len(ps[l]) : /\ ps[l][i] \in Nodes /\ ps[l][i] \notin free
                                      /\ obj[ps[l][i]] = content[l][i]
    BY <1>1, <1>2, PathFacts
  <2> QED
    BY <1>4, <1>5, <2>1
<1>7. \A x \in FreedByClear(l) : \E i \in 1 .. len : x = p[i]
  BY <1>1, <1>2, <1>4, <1>5, NodesOnPath DEF FreedByClear
<1>8. PICK e : e = <<>>
  OBVIOUS
<1>9. e \in Seq(Nodes) /\ Len(e) = 0
  BY <1>8
<1>10. ListTypes'
  <2>1. FreedByClear(l) \subseteq Nodes
    BY <1>6, <1>7
  <2>2. <<>> \in Seq(Objects)
    OBVIOUS
  <2> QED
    BY <1>1, <1>3, <2>1, <2>2 DEF ListTypes
<1>11. ASSUME NEW m \in Lists \ {l}
       PROVE  /\ front'[m] = front[m] /\ back'[m] = back[m] /\ num'[m] = num[m]
              /\ content'[m] = content[m]
              /\ \A i \in 1 .. Len(ps[m]) :
                   /\ ps[m][i] \notin free'
                   /\ next'[ps[m][i]] = next[ps[m][i]] /\ obj'[ps[m][i]] = obj[ps[m][i]]
                   /\ \A j \in 1 .. Len(e) : e[j] # ps[m][i]
  <2>1. /\ front'[m] = front[m] /\ back'[m] = back[m] /\ num'[m] = num[m]
        /\ content'[m] = content[m]
    BY <1>1, <1>3 DEF ListTypes
  <2>2. ASSUME NEW i \in 1 .. Len(ps[m]) PROVE ps[m][i] \notin free'
    <3>1. PICK y : y = ps[m][i]
      OBVIOUS
    <3>2. y \notin free
      BY <1>1, <1>2, <3>1, PathFacts
    <3>3. \A j \in 1 .. len : p[j] # y
      BY <1>2, <1>4, <1>5, <3>1 DEF Paths
    <3> QED
      BY <1>3, <1>7, <3>1, <3>2, <3>3
  <2> QED
    BY <1>3, <1>9, <2>1, <2>2
<1>12. OnPath(l, e)'
  <2>1. front'[l] = NULL /\ back'[l] = NULL /\ num'[l] = 0 /\ content'[l] = <<>>
    BY <1>1, <1>3 DEF ListTypes
  <2> QED
    BY <1>8, <2>1 DEF OnPath
<1>13. Paths([ps EXCEPT ![l] = e])'
  <2>1. /\ \A i \in 1 .. Len(e) : e[i] \notin free'
        /\ \A i \in 1 .. Len(e) : \A j \in 1 .. Len(e) : e[i] = e[j] => i = j
    BY <1>9
  <2> QED
    BY <1>2, <1>9, <1>11, <1>12, <2>1, OneListChanges
<1> QED
  BY <1>10, <1>13 DEF ListInv

\* Every operation on every list keeps the invariant.
LEMMA ListStepInv == ListInv /\ [ListNext]_listVars => ListInv'
<1> SUFFICES ASSUME ListInv, [ListNext]_listVars PROVE ListInv'
  OBVIOUS
<1>1. CASE UNCHANGED listVars
  <2>1. \A ps : Paths(ps) => Paths(ps)'
    <3>1. /\ next' = next /\ obj' = obj /\ free' = free /\ front' = front /\ back' = back
          /\ num' = num /\ content' = content
      BY <1>1 DEF listVars
    <3>2. \A l, p : OnPath(l, p)' <=> OnPath(l, p)
      BY <3>1 DEF OnPath
    <3> QED
      BY <3>1, <3>2 DEF Paths
  <2> QED
    BY <1>1, <2>1 DEF listVars, ListInv, ListTypes
<1>2. ASSUME ~damaged, NEW l \in Lists, NEW o \in Objects, add_back(l, o) \/ add_lock(l, o)
      PROVE  ListInv'
  BY <1>2, AddBackKeeps, AddLockKeeps
<1>3. ASSUME ~damaged, NEW l \in Lists, NEW pos \in 0 .. Cardinality(Nodes), NEW o \in Objects,
             replace_at(l, pos, o)
      PROVE  ListInv'
  <2>1. pos \in Nat
    BY ListAssumption, FS_CardinalityType
  <2> QED
    BY <1>3, <2>1, ReplaceKeeps
<1>4. ASSUME ~damaged, NEW l \in Lists, clear(l) PROVE ListInv'
  BY <1>4, ClearKeeps
<1> QED
  BY <1>1, <1>2, <1>3, <1>4 DEF ListNext, remove_at

\* Whatever was in the memory its nodes are made of, every list reads as the
\* sequence of what was added to it and replaced in it, and no two lists share
\* a node, for any number of lists and any heap, until a clear frees what is
\* not its own (add_back, add_lock, get_at, replace_at and clear of list.h).
THEOREM ListsReadAsSequences == ListSpec => []ReadsAsSequence
<1>1. ListInit => ListInv
  <2> SUFFICES ASSUME ListInit PROVE ListInv
    OBVIOUS
  <2>1. ListTypes
    BY DEF ListInit, ListTypes, Link
  <2> DEFINE ps == [l \in Lists |-> <<>>]
  <2>3. ps \in [Lists -> Seq(Nodes)] /\ \A l \in Lists : ps[l] = <<>> /\ Len(ps[l]) = 0
    OBVIOUS
  <2> HIDE DEF ps
  <2>4. \A l \in Lists : OnPath(l, ps[l])
    BY <2>3 DEF ListInit, OnPath
  <2>5. Paths(ps)
    BY <2>3, <2>4 DEF Paths
  <2> QED
    BY <2>1, <2>5 DEF ListInv
<1>2. ListInv => ReadsAsSequence
  <2> SUFFICES ASSUME ListInv, ~damaged, NEW l \in Lists
               PROVE  /\ num[l] = Len(content[l])
                      /\ \A i \in 0 .. Cardinality(Nodes) :
                           GetAt(l, i) = IF i < num[l] THEN content[l][i + 1] ELSE NULL
                      /\ NodesOf(l) \cap free = {}
                      /\ \A k \in Lists \ {l} : NodesOf(l) \cap NodesOf(k) = {}
    BY DEF ReadsAsSequence
  <2>1. ListTypes /\ ~damaged
    BY DEF ListInv, ListTypes
  <2>2. PICK ps : Paths(ps)
    BY <2>1 DEF ListInv
  <2>3. ASSUME NEW m \in Lists, NEW i \in Nat, i < num[m]
        PROVE  /\ front[m] # NULL /\ i + 1 \in 1 .. Len(ps[m])
               /\ Follow(front[m], i) = ps[m][i + 1]
    BY <2>1, <2>2, <2>3, WalkOnPath
  <2>4. \A m \in Lists : \A x \in NodesOf(m) : \E i \in 1 .. Len(ps[m]) : x = ps[m][i]
    BY <2>1, <2>2, NodesOnPath
  <2>5. num[l] = Len(content[l])
    BY <2>1, <2>2, PathFacts
  <2>6. ASSUME NEW i \in 0 .. Cardinality(Nodes)
        PROVE  GetAt(l, i) = IF i < num[l] THEN content[l][i + 1] ELSE NULL
    <3>1. i \in Nat /\ num[l] \in Nat
      BY <2>1, ListAssumption, FS_CardinalityType DEF ListTypes
    <3>2. CASE i < num[l]
      <4>1. obj[ps[l][i + 1]] = content[l][i + 1]
        BY <2>1, <2>2, <2>3, <3>1, <3>2, PathFacts
      <4>2. ~(i >= num[l])
        BY <3>1, <3>2
      <4> QED
        BY <2>3, <3>1, <3>2, <4>1, <4>2 DEF GetAt
    <3>3. CASE ~(i < num[l])
      BY <3>1, <3>3 DEF GetAt
    <3> QED
      BY <3>2, <3>3
  <2>7. NodesOf(l) \cap free = {}
    BY <2>2, <2>4 DEF Paths
  <2>8. ASSUME NEW k \in Lists \ {l} PROVE NodesOf(l) \cap NodesOf(k) = {}
    BY <2>2, <2>4 DEF Paths
  <2> QED
    BY <2>5, <2>6, <2>7, <2>8
<1> QED
  BY <1>1, <1>2, ListStepInv, PTL DEF ListSpec

(***************************************************************************)
(* The serial line.  Whoever writes has seen the transmitter empty, and    *)
(* only the kernel can be interrupted between its look and its write, so   *)
(* at most one byte is in the queue when it writes.                        *)
(***************************************************************************)
Byte == Nat \X Nat

\* What is on the wire or queued.
Stream == line \o fifo

SerialInv ==
  /\ fifo \in Seq(Byte) /\ line \in Seq(Byte)
  /\ written \in Nat /\ ready \in BOOLEAN /\ message \in Nat /\ interrupts \in Nat
  /\ message > 0 => interrupts > 0
  /\ Len(fifo) <= 2
  /\ ready => Len(fifo) <= 1
  /\ lost = <<>>
  /\ InOrder(Stream)

\* initialize_serial enables the FIFO.
LEMMA FifoIsOn == Depth = 16
<1>1. /\ Len(initialize_serial) = 7
      /\ initialize_serial[6] = <<2, 199>>
  BY DEF initialize_serial
<1>2. initialize_serial[6][1] = 2 /\ initialize_serial[6][2] % 2 = 1
  BY <1>1
<1>3. \E i \in 1 .. Len(initialize_serial) :
        initialize_serial[i][1] = 2 /\ initialize_serial[i][2] % 2 = 1
  BY <1>1, <1>2
<1> QED
  BY <1>3 DEF Depth

\* The UART moves a byte from the queue to the wire.
LEMMA SendMoves ==
  ASSUME NEW a \in Seq(Byte), NEW b \in Seq(Byte), b # <<>>
  PROVE  /\ Append(a, Head(b)) \in Seq(Byte) /\ Tail(b) \in Seq(Byte)
         /\ Len(Tail(b)) = Len(b) - 1
         /\ Append(a, Head(b)) \o Tail(b) = a \o b
<1> HIDE DEF Byte
<1>1. /\ Append(a, Head(b)) \in Seq(Byte) /\ Tail(b) \in Seq(Byte)
      /\ Len(Tail(b)) = Len(b) - 1
      /\ Len(Append(a, Head(b))) = Len(a) + 1
      /\ Len(a) \in Nat /\ Len(b) \in Nat
  OBVIOUS
<1>2. Append(a, Head(b)) \o Tail(b) = a \o b
  OBVIOUS
<1> QED
  BY <1>1, <1>2

\* A byte written last is the last of the stream.
LEMMA OutAppends ==
  ASSUME NEW a \in Seq(Byte), NEW b \in Seq(Byte), NEW x \in Byte
  PROVE  /\ Append(b, x) \in Seq(Byte) /\ Len(Append(b, x)) = Len(b) + 1
         /\ a \o Append(b, x) = Append(a \o b, x)
         /\ a \o b \in Seq(Byte)
<1> HIDE DEF Byte
<1>1. /\ Append(b, x) \in Seq(Byte) /\ Len(Append(b, x)) = Len(b) + 1
      /\ a \o b \in Seq(Byte)
  OBVIOUS
<1>2. a \o Append(b, x) = Append(a \o b, x)
  OBVIOUS
<1> QED
  BY <1>1, <1>2

\* A handler's byte, or the kernel's next character, at the end of a stream.
LEMMA OrderAfterAppend ==
  ASSUME NEW s \in Seq(Byte), NEW x \in Byte, written \in Nat, InOrder(s),
         \/ x[1] # 0 /\ written' = written
         \/ x = <<0, written + 1>> /\ written' = written + 1
  PROVE  InOrder(Append(s, x))'
<1>1. PICK t : t = Append(s, x)
  OBVIOUS
<1>2. /\ Len(t) = Len(s) + 1 /\ Len(s) \in Nat
      /\ \A i \in 1 .. Len(t) : i \in 1 .. Len(s) \/ i = Len(s) + 1
      /\ t[Len(s) + 1] = x /\ \A i \in 1 .. Len(s) : t[i] = s[i]
  <2> HIDE DEF Byte
  <2> QED
    BY <1>1
<1>3. written' \in Nat /\ written' >= written
  OBVIOUS
<1>4. ASSUME NEW c \in 1 .. written' PROVE \E i \in 1 .. Len(t) : t[i] = <<0, c>>
  <2>1. CASE c \in 1 .. written
    <3>1. PICK i \in 1 .. Len(s) : s[i] = <<0, c>>
      BY <2>1 DEF InOrder
    <3>2. i \in 1 .. Len(t) /\ t[i] = <<0, c>>
      BY <1>2, <3>1
    <3> QED
      BY <3>2
  <2>2. CASE c \notin 1 .. written
    <3>1. x = <<0, c>>
      BY <2>2
    <3>2. Len(s) + 1 \in 1 .. Len(t)
      BY <1>2
    <3> QED
      BY <1>2, <3>1, <3>2
  <2> QED
    BY <2>1, <2>2
<1>5. ASSUME NEW i \in 1 .. Len(t), t[i][1] = 0 PROVE t[i][2] \in 1 .. written'
  <2>1. CASE i \in 1 .. Len(s)
    <3>1. s[i][2] \in 1 .. written
      BY <1>2, <1>5, <2>1 DEF InOrder
    <3> QED
      BY <1>2, <1>3, <2>1, <3>1
  <2>2. CASE i = Len(s) + 1
    BY <1>2, <1>5, <2>2
  <2> QED
    BY <1>2, <2>1, <2>2
<1>6. ASSUME NEW i \in 1 .. Len(t), NEW j \in 1 .. Len(t), i < j, t[i][1] = 0, t[j][1] = 0
      PROVE  t[i][2] < t[j][2]
  <2>1. i \in 1 .. Len(s) /\ t[i] = s[i]
    BY <1>2, <1>6
  <2>2. s[i][2] \in 1 .. written
    BY <1>6, <2>1 DEF InOrder
  <2>3. CASE j \in 1 .. Len(s)
    BY <1>2, <1>6, <2>1, <2>3 DEF InOrder
  <2>4. CASE j = Len(s) + 1
    <3>1. t[j] = <<0, written + 1>>
      BY <1>2, <1>6, <2>4
    <3> QED
      BY <2>1, <2>2, <3>1
  <2> QED
    BY <1>2, <2>3, <2>4
<1>7. InOrder(t)'
  BY <1>4, <1>5, <1>6 DEF InOrder
<1> QED
  BY <1>1, <1>7

\* A byte written to a queue that has room.
LEMMA OutKeeps ==
  ASSUME SerialInv, NEW x \in Byte, Out(x), Len(fifo) <= 1, line' = line,
         \/ x[1] # 0 /\ written' = written
         \/ x = <<0, written + 1>> /\ written' = written + 1
  PROVE  /\ fifo' \in Seq(Byte) /\ Len(fifo') = Len(fifo) + 1 /\ lost' = lost
         /\ InOrder(Stream)'
<1>1. fifo \in Seq(Byte) /\ line \in Seq(Byte) /\ written \in Nat /\ InOrder(Stream)
  BY DEF SerialInv
<1> HIDE DEF Byte
<1>2. fifo' = Append(fifo, x) /\ lost' = lost
  <2>1. Len(fifo) < Depth
    BY <1>1, FifoIsOn
  <2> QED
    BY <2>1 DEF Out
<1>3. /\ fifo' \in Seq(Byte) /\ Len(fifo') = Len(fifo) + 1
      /\ Stream' = Append(Stream, x) /\ Stream \in Seq(Byte)
  BY <1>1, <1>2, OutAppends DEF Stream
<1>4. PICK s : s = Stream
  OBVIOUS
<1>5. InOrder(Append(s, x))'
  BY <1>1, <1>3, <1>4, OrderAfterAppend
<1>6. InOrder(Stream)'
  BY <1>3, <1>4, <1>5
<1> QED
  BY <1>2, <1>3, <1>6

\* Every step of the kernel, the handlers and the UART keeps the invariant.
LEMMA SerialStepInv == SerialInv /\ [SerialNext]_serialVars => SerialInv'
<1> SUFFICES ASSUME SerialInv, [SerialNext]_serialVars PROVE SerialInv'
  OBVIOUS
<1>1. /\ fifo \in Seq(Byte) /\ line \in Seq(Byte) /\ Len(fifo) \in Nat
      /\ written \in Nat /\ ready \in BOOLEAN /\ message \in Nat /\ interrupts \in Nat
      /\ message > 0 => interrupts > 0
      /\ Len(fifo) <= 2 /\ lost = <<>> /\ InOrder(Stream)
  BY DEF SerialInv
<1>2. ready => Len(fifo) <= 1
  BY DEF SerialInv
<1>3. ASSUME UNCHANGED <<line, fifo, written>> PROVE InOrder(Stream)'
  BY <1>1, <1>3 DEF InOrder, Stream
<1>4. CASE Look
  <2>1. fifo' = <<>> /\ Len(fifo') = 0
    BY <1>4 DEF Look, is_transmit_empty
  <2> QED
    BY <1>1, <1>3, <1>4, <2>1 DEF Look, SerialInv
<1>5. CASE Put
  <2>1. Len(fifo) <= 1 /\ written' = written + 1 /\ line' = line /\ Out(<<0, written + 1>>)
    BY <1>2, <1>5 DEF Put, NextCharacter
  <2>2. <<0, written + 1>> \in Byte
    BY <1>1 DEF Byte
  <2>3. /\ fifo' \in Seq(Byte) /\ Len(fifo') = Len(fifo) + 1 /\ lost' = lost
        /\ InOrder(Stream)'
    BY <2>1, <2>2, OutKeeps
  <2>4. /\ line' \in Seq(Byte) /\ written' \in Nat /\ message' = message /\ interrupts' = interrupts
        /\ ready' = FALSE /\ Len(fifo') <= 2
    BY <1>1, <1>5, <2>1, <2>3 DEF Put
  <2> QED
    BY <1>1, <2>3, <2>4 DEF SerialInv
<1>6. ASSUME NEW n \in 1 .. MaxMessage, Interrupt(n) PROVE SerialInv'
  <2>1. n \in Nat
    BY SerialAssumption
  <2> QED
    BY <1>1, <1>2, <1>3, <1>6, <2>1 DEF Interrupt, SerialInv
<1>7. CASE HandlerPuts
  <2>1. /\ fifo = <<>> /\ Len(fifo) = 0 /\ written' = written /\ line' = line
        /\ interrupts # 0 /\ Out(<<interrupts, message>>)
    BY <1>1, <1>7 DEF HandlerPuts, is_transmit_empty
  <2>2. <<interrupts, message>> \in Byte /\ <<interrupts, message>>[1] # 0
    BY <1>1, <2>1 DEF Byte
  <2>3. /\ fifo' \in Seq(Byte) /\ Len(fifo') = 1 /\ lost' = lost
        /\ InOrder(Stream)'
    BY <2>1, <2>2, OutKeeps
  <2> QED
    BY <1>1, <1>7, <2>1, <2>3 DEF HandlerPuts, SerialInv
<1>8. CASE Send
  <2>1. fifo # <<>> /\ line' = Append(line, Head(fifo)) /\ fifo' = Tail(fifo) /\ written' = written
    BY <1>8 DEF Send
  <2>2. /\ line' \in Seq(Byte) /\ fifo' \in Seq(Byte) /\ Len(fifo') = Len(fifo) - 1
        /\ Stream' = Stream
    BY <1>1, <2>1, SendMoves DEF Stream
  <2>3. InOrder(Stream)'
    BY <1>1, <2>1, <2>2 DEF InOrder
  <2>4. Len(fifo') <= 2 /\ (ready' => Len(fifo') <= 1)
    BY <1>1, <1>2, <1>8, <2>2 DEF Send
  <2> QED
    BY <1>1, <1>8, <2>2, <2>3, <2>4 DEF Send, SerialInv
<1>9. CASE UNCHANGED serialVars
  BY <1>1, <1>2, <1>3, <1>9 DEF serialVars, SerialInv
<1> QED
  BY <1>4, <1>5, <1>6, <1>7, <1>8, <1>9 DEF SerialNext

\* No byte is ever lost on the serial line and the kernel's text comes out in
\* order, for texts and messages of any length and any number of interrupts
\* (initialize_serial, write_serial).
THEOREM NoByteLost == SerialSpec => []NothingIsLost
<1>1. SerialInit => SerialInv
  <2> SUFFICES ASSUME SerialInit PROVE SerialInv
    OBVIOUS
  <2>1. fifo = <<>> /\ line = <<>> /\ Len(fifo) = 0 /\ fifo \in Seq(Byte)
    BY DEF SerialInit
  <2>2. Stream = <<>> /\ Len(Stream) = 0
    BY <2>1 DEF Stream
  <2>3. InOrder(Stream)
    BY <2>2 DEF InOrder, SerialInit
  <2>4. line \in Seq(Byte) /\ written \in Nat /\ message = 0 /\ interrupts \in Nat /\ ready = FALSE
    BY <2>1 DEF SerialInit
  <2>5. fifo \in Seq(Byte) /\ lost = <<>> /\ Len(fifo) <= 2 /\ Len(fifo) <= 1
    BY <2>1 DEF SerialInit
  <2>6. message \in Nat /\ (message > 0 => interrupts > 0)
    BY ONLY <2>4
  <2>7. ready \in BOOLEAN /\ (ready => Len(fifo) <= 1)
    BY <2>4, <2>5, Zenon
  <2> QED
    BY <2>3, <2>4, <2>5, <2>6, <2>7, Zenon DEF SerialInv
<1>2. SerialInv => NothingIsLost
  BY DEF SerialInv, NothingIsLost, Stream
<1> QED
  BY <1>1, <1>2, SerialStepInv, PTL DEF SerialSpec

(***************************************************************************)
(* The PCI bus.                                                            *)
(***************************************************************************)
Device == [vendor : Vendors, slot : Slot, class : Classes, id : Ids,
           name : Names \cup {Unknown}, generic : BOOLEAN]

\* What is in a slot.
Header == [vendor : Vendors, class : Classes, latency : BOOLEAN]

\* The device at n is the first one listed under class c.
FirstOf(list, n, c) ==
  /\ n \in 1 .. Len(list) /\ list[n].class = c
  /\ \A k \in 1 .. Len(list) : list[k].class = c => n <= k

\* What a driver that asked for class c was given: slot s, 0 for nothing.
Given(list, c, s) ==
  \/ s = 0 /\ \A k \in 1 .. Len(list) : list[k].class # c
  \/ \E n \in 1 .. Len(list) : FirstOf(list, n, c) /\ list[n].slot = s

\* Devices are listed in the order of the slots, none twice, with the class
\* their slot has if it was read; and each driver has what Given says.
PciInv ==
  /\ config \in [Slot -> Header \cup {NULL}]
  /\ slot \in 1 .. (NumSlots + 1)
  /\ devices \in Seq(Device)
  /\ \A n \in 1 .. Len(devices) : devices[n].slot < slot
  /\ \A n \in 1 .. Len(devices) : \A k \in 1 .. Len(devices) :
       n < k => devices[n].slot < devices[k].slot
  /\ \A n \in 1 .. Len(devices) :
       config[devices[n].slot].latency => config[devices[n].slot].class = devices[n].class
  /\ drivers \in Seq([class : Classes \cup {NULL}, slot : Nat])
  /\ drivers # <<>> => slot \notin Slot
  /\ \A i \in 1 .. Len(drivers) : drivers[i].class # NULL => Given(devices, drivers[i].class, drivers[i].slot)

\* The first match is the least of the matches.
LEMMA FirstMatchIsLeast ==
  ASSUME NEW matches, matches \subseteq Nat, matches # {}
  PROVE  FirstMatch(matches) \in matches /\ \A k \in matches : FirstMatch(matches) <= k
<1>1. \E m \in matches : \A k \in matches : m <= k
  BY LeastNumber
<1> QED
  BY <1>1, Zenon DEF FirstMatch

\* A name given to an entry leaves its class and its slot alone.
LEMMA RegisterKeeps ==
  ASSUME PciInv, NEW matches, matches \subseteq 1 .. Len(devices),
         NEW name \in Names, NEW generic \in BOOLEAN, Register(matches, name, generic)
  PROVE  /\ devices' \in Seq(Device) /\ Len(devices') = Len(devices)
         /\ \A n \in 1 .. Len(devices) : /\ devices'[n].class = devices[n].class
                                         /\ devices'[n].slot = devices[n].slot
         /\ matches # {} => answer'.slot = devices[FirstMatch(matches)].slot
<1>1. devices \in Seq(Device) /\ Len(devices) \in Nat /\ matches \subseteq Nat
  BY DEF PciInv
<1>2. CASE matches = {}
  BY <1>1, <1>2 DEF Register
<1>3. CASE matches # {}
  <2> DEFINE i == FirstMatch(matches)
             new == Claimed(devices[i], name, generic)
  <2>1. i \in 1 .. Len(devices)
    BY <1>1, <1>3, FirstMatchIsLeast
  <2>2. devices' = [devices EXCEPT ![i] = new] /\ answer' = new
    BY <1>3 DEF Register
  <2> HIDE DEF i
  <2>3. devices[i] \in Device
    BY <1>1, <2>1
  <2>4. new \in Device /\ new.class = devices[i].class /\ new.slot = devices[i].slot
    BY <2>3 DEF Device, Claimed
  <2> HIDE DEF new
  <2>5. devices' \in Seq(Device) /\ Len(devices') = Len(devices)
    BY <1>1, <2>1, <2>2, <2>4
  <2>6. \A n \in 1 .. Len(devices) : devices'[n] = IF n = i THEN new ELSE devices[n]
    BY <1>1, <2>1, <2>2
  <2> QED
    BY <2>1, <2>2, <2>4, <2>5, <2>6 DEF i
<1> QED
  BY <1>2, <1>3

\* Given speaks of classes and slots only.
LEMMA GivenKeeps ==
  ASSUME NEW old, NEW new, Len(new) = Len(old),
         \A n \in 1 .. Len(old) : new[n].class = old[n].class /\ new[n].slot = old[n].slot,
         NEW c, NEW s, Given(old, c, s)
  PROVE  Given(new, c, s)
BY DEF Given, FirstOf

\* A request is answered, and all earlier answers stand.
LEMMA RequestKeeps ==
  ASSUME PciInv, slot \notin Slot, UNCHANGED <<config, slot>>,
         NEW matches, matches \subseteq 1 .. Len(devices),
         NEW name \in Names, NEW generic \in BOOLEAN, Register(matches, name, generic),
         NEW c \in Classes \cup {NULL}, NEW s \in Nat,
         c # NULL => Given(devices, c, s),
         drivers' = Append(drivers, [class |-> c, slot |-> s])
  PROVE  PciInv'
<1> DEFINE Request == [class : Classes \cup {NULL}, slot : Nat]
           new == [class |-> c, slot |-> s]
<1>1. /\ devices' \in Seq(Device) /\ Len(devices') = Len(devices)
      /\ \A n \in 1 .. Len(devices) : /\ devices'[n].class = devices[n].class
                                      /\ devices'[n].slot = devices[n].slot
  BY RegisterKeeps
<1>2. new \in Request /\ new.class = c /\ new.slot = s /\ drivers \in Seq(Request)
  BY DEF PciInv
<1>3. \A i \in 1 .. Len(drivers) : drivers[i].class # NULL => Given(devices, drivers[i].class, drivers[i].slot)
  BY DEF PciInv
<1>4. \A cl, sl : Given(devices, cl, sl) => Given(devices', cl, sl)
  BY <1>1, GivenKeeps
<1> HIDE DEF Request, new
<1>5. /\ drivers' \in Seq(Request) /\ Len(drivers') = Len(drivers) + 1
      /\ \A i \in 1 .. Len(drivers') : drivers'[i] = IF i \in 1 .. Len(drivers) THEN drivers[i] ELSE new
      /\ drivers' = Append(drivers, new)
  BY <1>2 DEF new
<1>6. ASSUME NEW i \in 1 .. Len(drivers'), drivers'[i].class # NULL
      PROVE  Given(devices', drivers'[i].class, drivers'[i].slot)
  <2>1. CASE i \in 1 .. Len(drivers)
    <3>1. drivers'[i] = drivers[i]
      BY <1>5, <2>1
    <3>2. Given(devices, drivers[i].class, drivers[i].slot)
      BY <1>3, <1>6, <2>1, <3>1
    <3> QED
      BY <1>4, <3>1, <3>2
  <2>2. CASE i \notin 1 .. Len(drivers)
    <3>1. drivers'[i] = new
      BY <1>5, <2>2
    <3>2. Given(devices, c, s)
      BY <1>2, <1>6, <3>1
    <3> QED
      BY <1>2, <1>4, <3>1, <3>2
  <2> QED
    BY <2>1, <2>2
<1>7. \A n \in 1 .. Len(devices') : devices'[n].slot < slot'
  BY <1>1 DEF PciInv
<1>8. \A n \in 1 .. Len(devices') : \A k \in 1 .. Len(devices') :
        n < k => devices'[n].slot < devices'[k].slot
  BY <1>1 DEF PciInv
<1>9. \A n \in 1 .. Len(devices') :
        config'[devices'[n].slot].latency => config'[devices'[n].slot].class = devices'[n].class
  BY <1>1, Zenon DEF PciInv
<1>10. config' \in [Slot -> Header \cup {NULL}] /\ slot' \in 1 .. (NumSlots + 1) /\ slot' \notin Slot
  BY DEF PciInv
<1>11. drivers' \in Seq([class : Classes \cup {NULL}, slot : Nat])
  BY <1>5 DEF Request
<1> QED
  BY <1>1, <1>6, <1>7, <1>8, <1>9, <1>10, <1>11 DEF PciInv

\* The scan of a slot adds a device behind the others, if there is one.
LEMMA ScanKeeps == PciInv /\ ScanSlot => PciInv'
<1> SUFFICES ASSUME PciInv, ScanSlot PROVE PciInv'
  OBVIOUS
<1>1. /\ slot \in Slot /\ slot' = slot + 1 /\ UNCHANGED <<config, drivers>>
      /\ slot \in Nat /\ slot' \in 1 .. (NumSlots + 1) /\ NumSlots \in Nat
  BY PciAssumption DEF ScanSlot, Slot
<1>2. drivers = <<>> /\ drivers' = <<>>
  BY <1>1 DEF PciInv
<1>3. devices \in Seq(Device) /\ Len(devices) \in Nat
  BY DEF PciInv
<1>4. \A n \in 1 .. Len(devices) : devices[n].slot \in Slot /\ devices[n].slot \in Nat
  <2>1. \A n \in 1 .. Len(devices) : devices[n] \in Device
    BY <1>3
  <2> QED
    BY <2>1 DEF Device, Slot
<1>5. CASE devices' = devices
  <2>1. \A n \in 1 .. Len(devices) : devices[n].slot < slot'
    BY <1>1, <1>4 DEF PciInv
  <2> QED
    BY <1>1, <1>2, <1>5, <2>1 DEF PciInv
<1>6. CASE CheckDevice(slot)
  <2>1. config[slot] \in Header
    <3>1. config[slot] \in Header \cup {NULL}
      BY <1>1 DEF PciInv
    <3> QED
      BY <1>6, <3>1 DEF CheckDevice, GetVendor
  <2>2. PICK c \in ClassRead(slot), id \in Ids :
          devices' = Append(devices,
            [vendor |-> GetVendor(slot), slot |-> slot, class |-> c, id |-> id,
             name |-> Unknown, generic |-> FALSE])
    BY <1>6 DEF ScanSlot, AddBack
  <2> DEFINE new == [vendor |-> GetVendor(slot), slot |-> slot, class |-> c, id |-> id,
                     name |-> Unknown, generic |-> FALSE]
  <2>3. /\ c \in Classes /\ (config[slot].latency => config[slot].class = c)
        /\ GetVendor(slot) \in Vendors
    <3>1. config[slot].class \in Classes /\ config[slot].vendor \in Vendors
      BY <2>1 DEF Header
    <3> QED
      BY <1>6, <3>1 DEF ClassRead, GetVendor, CheckDevice
  <2>4. new \in Device /\ new.slot = slot /\ new.class = c
    BY <1>1, <2>3 DEF Device
  <2> HIDE DEF new
  <2>5. /\ devices' \in Seq(Device) /\ Len(devices') = Len(devices) + 1
        /\ devices'[Len(devices) + 1] = new
        /\ \A n \in 1 .. Len(devices) : devices'[n] = devices[n]
        /\ \A n \in 1 .. Len(devices') : n \in 1 .. Len(devices) \/ n = Len(devices) + 1
    BY <1>3, <2>2, <2>4 DEF new
  <2>6. \A n \in 1 .. Len(devices') : devices'[n].slot < slot'
    BY <1>1, <1>4, <2>4, <2>5 DEF PciInv
  <2>7. ASSUME NEW n \in 1 .. Len(devices'), NEW k \in 1 .. Len(devices'), n < k
        PROVE  devices'[n].slot < devices'[k].slot
    <3>1. n \in 1 .. Len(devices)
      BY <1>3, <2>5, <2>7
    <3>2. CASE k \in 1 .. Len(devices)
      BY <2>5, <2>7, <3>1, <3>2 DEF PciInv
    <3>3. CASE k = Len(devices) + 1
      BY <2>4, <2>5, <3>1, <3>3 DEF PciInv
    <3> QED
      BY <2>5, <3>2, <3>3
  <2>8. ASSUME NEW n \in 1 .. Len(devices'), config'[devices'[n].slot].latency
        PROVE  config'[devices'[n].slot].class = devices'[n].class
    <3>1. CASE n \in 1 .. Len(devices)
      <4>1. devices'[n] = devices[n] /\ config' = config
        BY <1>1, <2>5, <3>1
      <4> QED
        BY <2>8, <3>1, <4>1 DEF PciInv
    <3>2. CASE n = Len(devices) + 1
      BY <1>1, <2>3, <2>4, <2>5, <2>8, <3>2
    <3> QED
      BY <2>5, <3>1, <3>2
  <2> QED
    BY <1>1, <1>2, <2>5, <2>6, <2>7, <2>8 DEF PciInv
<1> QED
  BY <1>5, <1>6 DEF ScanSlot

\* The first match has the class that was asked for, and comes first.
LEMMA MatchIsGiven ==
  ASSUME PciInv, NEW c, NEW s,
         LET matches == {i \in 1 .. Len(devices) : devices[i].class = c}
         IN  s = IF matches = {} THEN 0 ELSE devices[FirstMatch(matches)].slot
  PROVE  Given(devices, c, s)
<1> DEFINE matches == {i \in 1 .. Len(devices) : devices[i].class = c}
<1>1. matches \subseteq Nat /\ matches \subseteq 1 .. Len(devices)
  BY DEF PciInv
<1>2. CASE matches = {}
  BY <1>2 DEF Given
<1>3. CASE matches # {}
  <2>1. FirstMatch(matches) \in matches /\ \A k \in matches : FirstMatch(matches) <= k
    BY <1>1, <1>3, FirstMatchIsLeast
  <2>2. FirstOf(devices, FirstMatch(matches), c)
    BY <2>1 DEF FirstOf
  <2> QED
    BY <1>3, <2>1, <2>2 DEF Given
<1> QED
  BY <1>2, <1>3

\* Scans and requests keep the invariant.
LEMMA PciStepInv == PciInv /\ [PciNext]_pciVars => PciInv'
<1> SUFFICES ASSUME PciInv, [PciNext]_pciVars PROVE PciInv'
  OBVIOUS
<1>1. ASSUME NEW matches, matches \subseteq 1 .. Len(devices), matches # {}
      PROVE  devices[FirstMatch(matches)].slot \in Nat
  <2>1. FirstMatch(matches) \in 1 .. Len(devices)
    <3>1. matches \subseteq Nat
      BY <1>1
    <3> QED
      BY <1>1, <3>1, FirstMatchIsLeast
  <2>2. devices[FirstMatch(matches)] \in Device
    BY <2>1 DEF PciInv
  <2> QED
    BY <2>2 DEF Device, Slot
<1>2. ASSUME NEW name \in Names, NEW c \in Classes, RegisterByClass(c, name) PROVE PciInv'
  <2> DEFINE matches == {i \in 1 .. Len(devices) : devices[i].class = c}
             s == IF matches = {} THEN 0 ELSE devices[FirstMatch(matches)].slot
  <2>1. matches \subseteq 1 .. Len(devices)
    OBVIOUS
  <2>2. /\ slot \notin Slot /\ UNCHANGED <<config, slot>>
        /\ Register(matches, name, TRUE)
        /\ drivers' = Append(drivers, [class |-> c, slot |-> IF matches = {} THEN 0 ELSE answer'.slot])
    BY <1>2 DEF RegisterByClass
  <2>3. s \in Nat
    BY <1>1
  <2>4. Given(devices, c, s)
    BY MatchIsGiven
  <2> HIDE DEF matches
  <2>5. drivers' = Append(drivers, [class |-> c, slot |-> s])
    BY <2>1, <2>2, RegisterKeeps
  <2> HIDE DEF s
  <2> QED
    BY <2>1, <2>2, <2>3, <2>4, <2>5, RequestKeeps
<1>3. ASSUME NEW name \in Names, NEW v \in Vendors, NEW id \in Ids, RegisterById(v, id, name)
      PROVE  PciInv'
  <2> DEFINE matches == {i \in 1 .. Len(devices) : devices[i].vendor = v /\ devices[i].id = id}
             s == IF matches = {} THEN 0 ELSE devices[FirstMatch(matches)].slot
  <2>1. matches \subseteq 1 .. Len(devices)
    OBVIOUS
  <2>2. /\ slot \notin Slot /\ UNCHANGED <<config, slot>>
        /\ Register(matches, name, FALSE)
        /\ drivers' = Append(drivers, [class |-> NULL, slot |-> IF matches = {} THEN 0 ELSE answer'.slot])
    BY <1>3 DEF RegisterById
  <2> HIDE DEF matches
  <2>3. s \in Nat
    BY <1>1, <2>1
  <2>5. drivers' = Append(drivers, [class |-> NULL, slot |-> s])
    BY <2>1, <2>2, RegisterKeeps
  <2> HIDE DEF s
  <2> QED
    BY <2>1, <2>2, <2>3, <2>5, RequestKeeps
<1>4. CASE UNCHANGED pciVars
  BY <1>4 DEF pciVars, PciInv
<1> QED
  BY <1>2, <1>3, <1>4, ScanKeeps DEF PciNext

\* All drivers that ask for a class are given the same device, the first one
\* listed under it, whatever is on the bus and whoever asked in between
\* (RegisterPCIDevice returns at the first match and marks nothing taken).
THEOREM SameDevice == PciSpec => []SameDeviceForEveryDriver
<1>1. PciInit => PciInv
  BY PciAssumption DEF PciInit, PciInv, Header
<1>2. PciInv => SameDeviceForEveryDriver
  <2> SUFFICES ASSUME PciInv, NEW i \in 1 .. Len(drivers), NEW k \in 1 .. Len(drivers),
                      drivers[i].class # NULL, drivers[i].class = drivers[k].class
               PROVE  /\ drivers[i].slot = drivers[k].slot
                      /\ \A n \in 1 .. Len(devices) :
                           devices[n].class = drivers[i].class => drivers[i].slot <= devices[n].slot
                      /\ drivers[i].slot # 0 /\ config[drivers[i].slot].latency
                           => config[drivers[i].slot].class = drivers[i].class
    BY DEF SameDeviceForEveryDriver
  <2> DEFINE c == drivers[i].class
             s == drivers[i].slot
             t == drivers[k].slot
  <2>1. Given(devices, c, s) /\ Given(devices, c, t)
    BY Zenon DEF PciInv
  <2> HIDE DEF c, s, t
  <2>2. \A n \in 1 .. Len(devices) : devices[n].slot \in Nat
    <3>1. \A n \in 1 .. Len(devices) : devices[n] \in Device
      BY DEF PciInv
    <3> QED
      BY <3>1 DEF Device, Slot
  <2>3. CASE \A n \in 1 .. Len(devices) : devices[n].class # c
    BY <2>1, <2>3 DEF Given, c, s, t, FirstOf
  <2>4. CASE \E n \in 1 .. Len(devices) : devices[n].class = c
    <3>1. PICK n \in 1 .. Len(devices) : FirstOf(devices, n, c) /\ devices[n].slot = s
      BY <2>1, <2>4 DEF Given
    <3>2. PICK m \in 1 .. Len(devices) : FirstOf(devices, m, c) /\ devices[m].slot = t
      BY <2>1, <2>4 DEF Given
    <3>3. n = m /\ s = t
      BY <3>1, <3>2 DEF FirstOf
    <3>4. ASSUME NEW j \in 1 .. Len(devices), devices[j].class = c PROVE s <= devices[j].slot
      <4>1. n = j \/ n < j
        BY <3>1, <3>4 DEF FirstOf
      <4>2. n < j => devices[n].slot < devices[j].slot
        BY DEF PciInv
      <4> QED
        BY <2>2, <3>1, <4>1, <4>2
    <3>5. config[s].latency => config[s].class = c
      BY <3>1 DEF PciInv, FirstOf
    <3> QED
      BY <3>3, <3>4, <3>5 DEF c, s, t
  <2> QED
    BY <2>3, <2>4
<1> QED
  BY <1>1, <1>2, PciStepInv, PTL DEF PciSpec

(***************************************************************************)
(* The spin lock.  The lock is set exactly while a thread is inside, so    *)
(* test-and-set finds it clear only when the critical section is empty.    *)
(***************************************************************************)
\* Threads that have not given up have looked at most Limit times.
Counts == \A p \in Proc : pc[p] # "trapped" => rax[p] <= Limit

SpinLockInv == SpinLockTypeOK /\ Counts /\ MutualExclusion /\ SetWhileHeld

\* All threads are outside and the bit is clear.
LEMMA SpinLockInitInv == SpinLockInit => SpinLockInv
BY SpinAssumption DEF SpinLockInit, SpinLockInv, SpinLockTypeOK, Counts, MutualExclusion, SetWhileHeld

\* Every step of every thread keeps the invariant.
LEMMA SpinLockStepInv == SpinLockInv /\ [SpinLockNext]_spinLockVars => SpinLockInv'
<1> SUFFICES ASSUME SpinLockInv, [SpinLockNext]_spinLockVars PROVE SpinLockInv'
  OBVIOUS
<1> USE SpinAssumption DEF SpinLockInv, SpinLockTypeOK, Counts, MutualExclusion, SetWhileHeld
<1>1. ASSUME NEW p \in Proc, acquireLock(p) PROVE SpinLockInv'
  BY <1>1 DEF acquireLock
<1>2. ASSUME NEW p \in Proc, TestAndSet(p) PROVE SpinLockInv'
  <2>1. CASE lock = 0
    BY <1>2, <2>1 DEF TestAndSet, WasClear
  <2>2. CASE lock = 1
    BY <1>2, <2>2 DEF TestAndSet, WasClear
  <2> QED BY <2>1, <2>2
<1>3. ASSUME NEW p \in Proc, Spin(p) PROVE SpinLockInv'
  <2>1. /\ pc[p] = "spin"
        /\ rax[p] \in 0 .. Limit
        /\ lock' = lock
        /\ rax' = [rax EXCEPT ![p] = rax[p] + 1]
    BY <1>3 DEF Spin, Counted
  <2>2. CASE rax[p] + 1 > Limit
    <3>1. pc' = [pc EXCEPT ![p] = "trapped"]
      BY <1>3, <2>2 DEF Spin, GivesUp, Counted, AfterInterrupt
    <3> QED BY <2>1, <3>1
  <2>3. CASE ~(rax[p] + 1 > Limit)
    <3>1. PICK to \in {"spin", "start"} : pc' = [pc EXCEPT ![p] = to]
      BY <1>3, <2>3 DEF Spin, GivesUp, Counted
    <3> QED BY <2>1, <2>3, <3>1
  <2> QED BY <2>2, <2>3
<1>4. ASSUME NEW p \in Proc, releaseLock(p) PROVE SpinLockInv'
  BY <1>4 DEF releaseLock, Cleared
<1>5. CASE UNCHANGED spinLockVars
  BY <1>5 DEF spinLockVars
<1> QED BY <1>1, <1>2, <1>3, <1>4, <1>5 DEF SpinLockNext, Acquiring

\* The invariant holds in every reachable state.
LEMMA SpinLockInvariance == SpinLockSpec => []SpinLockInv
BY SpinLockInitInv, SpinLockStepInv, PTL DEF SpinLockSpec

\* The counts of acquireLock end one past the limit.
THEOREM SpinLockTypeCorrect == SpinLockSpec => []SpinLockTypeOK
BY SpinLockInvariance, PTL DEF SpinLockInv

\* acquireLock and releaseLock give mutual exclusion, with CHECK_DEADLOCK on,
\* for every number of threads.
THEOREM LockExcludes == SpinLockSpec => []MutualExclusion
BY SpinLockInvariance, PTL DEF SpinLockInv

\* The lock word is set exactly while a thread is in the critical section.
THEOREM NeverStuck == SpinLockSpec => []SetWhileHeld
BY SpinLockInvariance, PTL DEF SpinLockInv

(***************************************************************************)
(* AHCI ports.  What each step of the driver may rely on: from step 2 on   *)
(* ST is clear, so the controller cannot start the list again, and from    *)
(* step 3 on the list has stopped.                                         *)
(***************************************************************************)
\* The driver works on a port between its calls and on none outside.
Working == at # <<"none", 0>> => port \in Port

\* What the driver has established at each of its steps.
Progress ==
  /\ at[2] \in 2 .. 4 => "ST" \notin cmd[port]
  /\ at[2] \in 3 .. 4 => "CR" \notin cmd[port]
  /\ at = <<"startCMD", 4>> => "FRE" \in cmd[port]

AhciPortInv == AhciPortTypeOK /\ Working /\ Progress /\ ReceiverOutlivesCommands

\* Whatever the firmware left behind.
LEMMA AhciPortInitInv == AhciPortInit => AhciPortInv
<1> SUFFICES ASSUME AhciPortInit PROVE AhciPortInv
  OBVIOUS
<1>1. AhciPortTypeOK
  BY DEF AhciPortInit, AhciPortTypeOK, Bit
<1>2. Working /\ Progress
  BY DEF AhciPortInit, Working, Progress
<1>3. ReceiverOutlivesCommands
  BY DEF AhciPortInit, ReceiverOutlivesCommands
<1> QED BY <1>1, <1>2, <1>3 DEF AhciPortInv

\* Every step of the driver and of the controller keeps the invariant.
LEMMA AhciPortStepInv == AhciPortInv /\ [AhciPortNext]_ahciPortVars => AhciPortInv'
<1> SUFFICES ASSUME AhciPortInv, [AhciPortNext]_ahciPortVars PROVE AhciPortInv'
  OBVIOUS
<1> USE PortAssumption DEF AhciPortInv, AhciPortTypeOK, Working, Progress, ReceiverOutlivesCommands, Bit
<1>1. ASSUME NEW p \in Port, NEW f \in {"startCMD", "stopCMD"}, Call(f, p) PROVE AhciPortInv'
  BY <1>1 DEF Call
<1>2. ASSUME NEW p \in Port, Controller(p) PROVE AhciPortInv'
  <2>1. CASE "ST" \in cmd[p] /\ "CR" \notin cmd[p] /\ "FRE" \in cmd[p] /\ Set(p, "CR")
    BY <1>2, <2>1 DEF Controller, Set
  <2>2. CASE "ST" \notin cmd[p] /\ "CR" \in cmd[p] /\ Clear(p, "CR")
    BY <1>2, <2>2 DEF Controller, Clear
  <2>3. CASE "FRE" \in cmd[p] /\ "FR" \notin cmd[p] /\ Set(p, "FR")
    BY <1>2, <2>3 DEF Controller, Set
  <2>4. CASE "FRE" \notin cmd[p] /\ "FR" \in cmd[p] /\ "CR" \notin cmd[p] /\ Clear(p, "FR")
    BY <1>2, <2>4 DEF Controller, Clear
  <2> QED BY <1>2, <2>1, <2>2, <2>3, <2>4 DEF Controller
<1>3. CASE ClearST
  BY <1>3 DEF ClearST, Clear
<1>4. CASE WaitCR
  BY <1>4 DEF WaitCR, CommandListStopped, AfterWait
<1>5. CASE StartReceiver
  BY <1>5 DEF StartReceiver, Set
<1>6. CASE StartCommands
  BY <1>6 DEF StartCommands, Set
<1>7. CASE StopReceiver
  BY <1>7 DEF StopReceiver, Clear
<1>8. CASE UNCHANGED ahciPortVars
  BY <1>8 DEF ahciPortVars
<1> QED BY <1>1, <1>2, <1>3, <1>4, <1>5, <1>6, <1>7, <1>8 DEF AhciPortNext, Driver

\* The invariant holds in every reachable state.
LEMMA AhciPortInvariance == AhciPortSpec => []AhciPortInv
BY AhciPortInitInv, AhciPortStepInv, PTL DEF AhciPortSpec

\* The register keeps its bits and the driver its place.
THEOREM AhciPortTypeCorrect == AhciPortSpec => []AhciPortTypeOK
BY AhciPortInvariance, PTL DEF AhciPortInv

\* startCMD and stopCMD, in any order and on any ports, never leave a port
\* with its command list on and its receiver off.
THEOREM ReceiverStaysOn == AhciPortSpec => []ReceiverOutlivesCommands
BY AhciPortInvariance, PTL DEF AhciPortInv

\* ST is set only on a port whose list the controller has stopped.
THEOREM StartsOnlyStopped == AhciPortSpec => StartsStopped
<1>1. AhciPortInv /\ [AhciPortNext]_ahciPortVars =>
        [\A p \in Port : "ST" \notin cmd[p] /\ "ST" \in cmd'[p] => "CR" \notin cmd[p]]_ahciPortVars
  <2> SUFFICES ASSUME AhciPortInv, AhciPortNext, NEW p \in Port, "ST" \notin cmd[p], "ST" \in cmd'[p]
               PROVE "CR" \notin cmd[p]
    BY DEF ahciPortVars
  <2> USE PortAssumption DEF AhciPortInv, AhciPortTypeOK, Working, Progress
  <2>1. CASE StartCommands
    BY <2>1 DEF StartCommands, Set
  <2>2. ASSUME NEW q \in Port, Controller(q) PROVE FALSE
    BY <2>2 DEF Controller, Set, Clear
  <2>3. ASSUME NEW q \in Port, Call("startCMD", q) \/ Call("stopCMD", q) PROVE FALSE
    BY <2>3 DEF Call
  <2>4. CASE ClearST \/ WaitCR \/ StartReceiver \/ StopReceiver
    BY <2>4 DEF ClearST, WaitCR, StartReceiver, StopReceiver, Set, Clear
  <2> QED BY <2>1, <2>2, <2>3, <2>4 DEF AhciPortNext, Driver
<1> QED BY <1>1, AhciPortInvariance, PTL DEF AhciPortSpec, StartsStopped

=============================================================================
