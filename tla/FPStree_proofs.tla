---------------------------- MODULE FPStree_proofs ----------------------------
(***************************************************************************)
(* Proofs about FPStree: the tree that a scan makes has every entry where  *)
(* it belongs, whatever tree was there before; keys act on what the screen *)
(* has shown; tasks keep their FPS; and memory that is unmapped is read    *)
(* only after an FPS was removed.                                          *)
(***************************************************************************)
EXTENDS FPStree, FiniteSetTheorems, SequenceTheorems, WellFoundedInduction, TLAPS

-----------------------------------------------------------------------------
(* The tree.                                                               *)

NodeRec ==
  [path : TreePaths \cup {<<>>}, leaf : {0, 1}, fpsindex : FpsIndex, pindex : Nat, parent : Node,
   NBchild : 0 .. MaxChild - 1, child : [0 .. MaxChild - 1 -> Node]]

Tree == [node : [Node -> NodeRec], NBkwn : 0 .. NBnode]

(* The nodes below the root. *)
Below(t) == 1 .. t.NBkwn - 1

(* Every node is listed once, by the parent that its path says; the nodes  *)
(* that are not reached list none.                                         *)
Shape(t) ==
  /\ t.NBkwn > 0 /\ t.node[0].path = <<>>
  /\ \A k \in Below(t) :
       /\ t.node[k].path # <<>> /\ t.node[k].parent < k
       /\ t.node[t.node[k].parent].path = Front(t.node[k].path)
       /\ \E c \in 0 .. t.node[t.node[k].parent].NBchild - 1 : t.node[t.node[k].parent].child[c] = k
  /\ \A k, m \in 0 .. t.NBkwn - 1 : t.node[k].path = t.node[m].path => k = m
  /\ \A k \in 0 .. t.NBkwn - 1 : \A c \in 0 .. t.node[k].NBchild - 1 :
       /\ t.node[k].child[c] \in Below(t) /\ t.node[t.node[k].child[c]].parent = k
       /\ \A e \in 0 .. t.node[k].NBchild - 1 : t.node[k].child[c] = t.node[k].child[e] => c = e
  /\ \A k \in t.NBkwn .. NBnode - 1 : t.node[k].NBchild = 0

(* The beginning of entry q of the FPS at place j of d.                    *)
Pre(d, j, q, m) == SubSeq(Path(d[j], q), 1, m)

(* Level m of entry q of the FPS at j comes before what follows level l of *)
(* entry p of the FPS at i.                                                *)
Earlier(j, q, m, i, p, l) == j < i \/ (j = i /\ (q < p \/ (q = p /\ m <= l)))

(* Node n is that of level m of entry q of its FPS.                        *)
From(n, d, q, m) ==
  /\ n.path = Pre(d, n.fpsindex + 1, q, m)
  /\ n.leaf = IF m = Len(Path(d[n.fpsindex + 1], q)) THEN 1 ELSE 0
  /\ n.leaf = 1 => n.pindex = q - 1

(* Every node is there for an entry that came before.                      *)
Origin(t, d, i, p, l) ==
  \A k \in Below(t) :
    LET j == t.node[k].fpsindex + 1 IN
    /\ j \in 1 .. Len(d)
    /\ \E q \in 1 .. Len(Keyword[d[j]]) : \E m \in 1 .. Len(Path(d[j], q)) :
         From(t.node[k], d, q, m) /\ Earlier(j, q, m, i, p, l)

(* An entry has its node, and this is its leaf unless an earlier entry has *)
(* made a directory of it.                                                 *)
Placed(t, d, j, q) ==
  \E k \in Below(t) :
    /\ t.node[k].path = Path(d[j], q)
    /\ (\A r \in 1 .. q - 1 : ~IsPrefix(Path(d[j], q), Path(d[j], r))) =>
         t.node[k].leaf = 1 /\ t.node[k].fpsindex = j - 1 /\ t.node[k].pindex = q - 1

(* The tree of the entries up to level l of entry p of the FPS at i; b is  *)
(* a bound on the FPSs that its nodes name, the ones not reached included. *)
Upto(t, d, b, i, p, l) ==
  /\ t \in Tree /\ Shape(t) /\ Origin(t, d, i, p, l)
  /\ \A j \in 1 .. Len(d) : \A q \in 1 .. Len(Keyword[d[j]]) :
       j < i \/ (j = i /\ q < p) => Placed(t, d, j, q)
  /\ \A m \in 1 .. l : \E k \in Below(t) : t.node[k].path = Pre(d, i, p, m)
  /\ \A k \in Node : t.node[k].fpsindex < b

(* A list of different FPSs. *)
Names(d) == d \in SeqOf(FpsName, NBmax) /\ IsInjective(d)

-----------------------------------------------------------------------------
(* Numbers, sequences, paths.                                              *)

(* What holds of 0 and goes on from each number to the next holds of all.  *)
LEMMA Climb ==
  ASSUME NEW S, 0 \in S, \A k \in Nat : k \in S => k + 1 \in S
  PROVE  \A k \in Nat : k \in S
<1> DEFINE A == {k \in Nat : k \notin S}
<1>1. SUFFICES ASSUME A # {} PROVE FALSE
  OBVIOUS
<1>2. PICK m \in A : \A k \in A : ~(<<k, m>> \in OpToRel(<, Nat))
  BY <1>1, NatLessThanWellFounded, WFMin
<1>3. \A k \in A : ~(k < m)
  BY <1>2 DEF OpToRel
<1>4. m \in Nat /\ m \notin S
  OBVIOUS
<1>5. m # 0
  BY <1>4
<1>6. m - 1 \in Nat /\ m - 1 < m /\ (m - 1) + 1 = m
  BY <1>4, <1>5
<1>7. m - 1 \notin S
  BY <1>4, <1>6
<1>8. m - 1 \in A
  BY <1>6, <1>7
<1> QED
  BY <1>3, <1>6, <1>8

(* The constants: what they are to each other. *)
LEMMA Constants ==
  /\ NBmax \in Nat \ {0} /\ 0 \in FpsIndex /\ FpsIndex = 0 .. NBmax - 1
  /\ NBnode \in Nat \ {0} /\ Node = 0 .. NBnode - 1 /\ 0 \in Node
  /\ MaxChild \in Nat \ {0} /\ MaxChild <= NBnode
  /\ None \notin FpsName /\ MaxChange \in Nat
<1>1. NBmax \in Nat /\ NBmax # 0
  BY TreeAssumption, FS_CardinalityType, FS_EmptySet DEF NBmax
<1> QED
  BY <1>1, TreeAssumption DEF FpsIndex, Node

(* The paths of an FPS are sequences that begin with its name. *)
LEMMA Paths ==
  ASSUME NEW f \in FpsName, NEW p \in 1 .. Len(Keyword[f])
  PROVE  /\ Len(Keyword[f]) \in Nat
         /\ Path(f, p) \in Seq(FpsName \cup STRING) /\ Len(Path(f, p)) \in Nat \ {0, 1}
         /\ Path(f, p)[1] = f
<1>1. Keyword[f] \in Seq(Seq(STRING)) /\ Len(Keyword[f][p]) > 0
  BY TreeAssumption
<1>2. Len(Keyword[f]) \in Nat /\ Keyword[f][p] \in Seq(STRING)
  BY <1>1
<1>3. Keyword[f][p] \in Seq(FpsName \cup STRING) /\ <<f>> \in Seq(FpsName \cup STRING)
  BY <1>2
<1>4. Path(f, p) \in Seq(FpsName \cup STRING)
  BY <1>3 DEF Path
<1>5. Len(Path(f, p)) = 1 + Len(Keyword[f][p]) /\ Path(f, p)[1] = f
  BY <1>3 DEF Path
<1> QED
  BY <1>1, <1>2, <1>4, <1>5

(* The beginnings of a path. *)
LEMMA Beginnings ==
  ASSUME NEW f \in FpsName, NEW p \in 1 .. Len(Keyword[f]), NEW m \in 1 .. Len(Path(f, p))
  PROVE  LET q == SubSeq(Path(f, p), 1, m)
         IN  /\ q \in TreePaths /\ q \in Seq(FpsName \cup STRING) /\ Len(q) = m /\ q[1] = f /\ q # <<>>
             /\ Front(q) = SubSeq(Path(f, p), 1, m - 1)
             /\ IsPrefix(q, Path(f, p))
             /\ m = Len(Path(f, p)) => q = Path(f, p)
<1> DEFINE P == Path(f, p)
           q == SubSeq(P, 1, m)
<1>1. P \in Seq(FpsName \cup STRING) /\ Len(P) \in Nat /\ P[1] = f
  BY Paths
<1>2. q \in TreePaths
  <2>1. p \in DOMAIN Keyword[f]
    BY TreeAssumption
  <2> QED
    BY <2>1 DEF TreePaths
<1> HIDE DEF P
<1>3. q \in Seq(FpsName \cup STRING) /\ Len(q) = m /\ \A j \in 1 .. m : q[j] = P[j]
  BY <1>1 DEF P
<1>4. SubSeq(P, 1, 0) \in Seq(FpsName \cup STRING) /\ Len(SubSeq(P, 1, 0)) = 0
  BY <1>1
<1>5. Front(q) = SubSeq(P, 1, m - 1)
  BY <1>1, <1>3 DEF Front, P
<1>6. IsPrefix(q, P)
  BY <1>1, <1>3 DEF IsPrefix, P
<1>7. m = Len(P) => q = P
  BY <1>1, <1>3 DEF P
<1>8. q # <<>> /\ q[1] = f
  BY <1>1, <1>3 DEF P
<1> QED
  BY <1>2, <1>3, <1>5, <1>6, <1>7, <1>8 DEF P

-----------------------------------------------------------------------------
(* The loops of a scan: what holds before the first step, and goes on from *)
(* each step to the next, holds after the last one.                        *)

(* What goes on from each number to the next reaches all. *)
LEMMA Reaches ==
  ASSUME NEW n \in Nat, NEW G, NEW g, g[0] \in G[0],
         \A k \in 1 .. n : g[k - 1] \in G[k - 1] => g[k] \in G[k]
  PROVE  \A k \in 0 .. n : g[k] \in G[k]
<1> DEFINE S == {j \in Nat : j <= n => g[j] \in G[j]}
<1>1. 0 \in S
  OBVIOUS
<1>2. ASSUME NEW j \in Nat, j \in S
      PROVE  j + 1 \in S
  <2>1. j + 1 <= n => j + 1 \in 1 .. n /\ (j + 1) - 1 = j /\ j <= n
    OBVIOUS
  <2> QED
    BY <1>2, <2>1
<1> HIDE DEF S
<1>3. \A j \in Nat : j \in S
  BY <1>1, <1>2, Climb
<1> QED
  BY <1>3 DEF S

(* The n steps F of a loop go from a through the sets G[k].                *)
Goes(n, a, F, G, U) ==
  /\ n \in Nat /\ a \in G[0] /\ \A k \in 0 .. n : G[k] \subseteq U
  /\ \A k \in 1 .. n : \A u \in G[k - 1] : F[<<u, k>>] \in G[k]

(* Such a loop has a function that says where it is after each step. *)
LEMMA Loop ==
  ASSUME NEW n, NEW a, NEW F, NEW G, NEW U, Goes(n, a, F, G, U)
  PROVE  \E f \in [0 .. n -> U] : /\ f[0] = a /\ \A k \in 1 .. n : f[k] = F[<<f[k - 1], k>>]
                                /\ \A k \in 0 .. n : f[k] \in G[k]
<1> USE DEF Goes
<1> DEFINE Made(f, j) == /\ f \in [0 .. j -> U] /\ f[0] = a
                         /\ \A k \in 1 .. j : f[k] = F[<<f[k - 1], k>>]
                         /\ \A k \in 0 .. j : f[k] \in G[k]
           S == {j \in Nat : j <= n => \E f : Made(f, j)}
<1>1. 0 \in S
  <2>1. Made([k \in 0 .. 0 |-> a], 0)
    OBVIOUS
  <2> QED
    BY <2>1
<1>2. ASSUME NEW j \in Nat, j \in S
      PROVE  j + 1 \in S
  <2>1. SUFFICES ASSUME j + 1 <= n PROVE \E f : Made(f, j + 1)
    OBVIOUS
  <2>2. PICK f : Made(f, j)
    BY <1>2, <2>1
  <2>3. (j + 1) - 1 = j /\ j + 1 \in 1 .. n /\ j \in 0 .. j
    BY <2>1
  <2>4. F[<<f[j], j + 1>>] \in G[j + 1] /\ G[j + 1] \subseteq U
    BY <2>2, <2>3
  <2> DEFINE g == [k \in 0 .. j + 1 |-> IF k <= j THEN f[k] ELSE F[<<f[j], j + 1>>]]
  <2>5. /\ \A k \in 0 .. j : g[k] = f[k]
        /\ g[j + 1] = F[<<f[j], j + 1>>]
    OBVIOUS
  <2>6. \A k \in 0 .. j + 1 : g[k] \in G[k] /\ g[k] \in U
    BY <2>1, <2>2, <2>4, <2>5
  <2>7. g \in [0 .. j + 1 -> U]
    BY <2>6
  <2>8. ASSUME NEW k \in 1 .. j + 1
        PROVE  g[k] = F[<<g[k - 1], k>>]
    <3>1. CASE k \in 1 .. j
      <4>1. k \in 0 .. j /\ k - 1 \in 0 .. j
        BY <3>1
      <4> QED
        BY <2>2, <2>5, <3>1, <4>1
    <3>2. CASE k = j + 1
      BY <2>3, <2>5, <3>2
    <3> QED
      BY <3>1, <3>2
  <2> HIDE DEF g
  <2>9. g[0] = a
    BY <2>2, <2>5
  <2>10. Made(g, j + 1)
    BY <2>6, <2>7, <2>8, <2>9
  <2> HIDE DEF Made
  <2> QED
    BY <2>10
<1> HIDE DEF S
<1>3. n \in S
  BY <1>1, <1>2, Climb
<1> QED
  BY <1>3 DEF S

(* Levels of an entry. *)
LEMMA EntryLoop ==
  ASSUME NEW t, NEW d, NEW i, NEW p, NEW n \in Nat, n = Len(Path(d[i], p)), NEW G, t \in G[0],
         \A k \in 1 .. n : \A u \in G[k - 1] : PlaceNode(u, EntrySteps(d, i, p)[k]) \in G[k]
  PROVE  PlaceEntry(t, d, i, p) \in G[n]
<1> DEFINE Made(f) == f = [k \in 0 .. n |-> IF k = 0 THEN t
                                        ELSE PlaceNode(f[k - 1], EntrySteps(d, i, p)[k])]
           U == UNION {G[k] : k \in 0 .. n}
<1>1. PICK F : F = [x \in U \X (1 .. n) |-> PlaceNode(x[1], EntrySteps(d, i, p)[x[2]])]
  OBVIOUS
<1>2. ASSUME NEW k \in 1 .. n, NEW u \in G[k - 1]
      PROVE  F[<<u, k>>] = PlaceNode(u, EntrySteps(d, i, p)[k]) /\ F[<<u, k>>] \in G[k]
  <2>1. u \in U
    OBVIOUS
  <2>2. <<u, k>> \in U \X (1 .. n) /\ <<u, k>>[1] = u /\ <<u, k>>[2] = k
    BY <2>1
  <2>3. F[<<u, k>>] = PlaceNode(u, EntrySteps(d, i, p)[k])
    BY <1>1, <2>2
  <2> QED
    BY <2>3
<1>3. PICK f \in [0 .. n -> U] : /\ f[0] = t /\ \A k \in 1 .. n : f[k] = F[<<f[k - 1], k>>]
                                 /\ \A k \in 0 .. n : f[k] \in G[k]
  <2>1. \A k \in 0 .. n : G[k] \subseteq U
    OBVIOUS
  <2>2. \A k \in 1 .. n : \A u \in G[k - 1] : F[<<u, k>>] \in G[k]
    BY <1>2
  <2>3. t \in G[0] /\ n \in Nat
    OBVIOUS
  <2>4. Goes(n, t, F, G, U)
    BY <2>1, <2>2, <2>3 DEF Goes
  <2> HIDE DEF U, Made
  <2> QED
    BY <2>4, Loop
<1>4. ASSUME NEW k \in 0 .. n
      PROVE  f[k] = IF k = 0 THEN t ELSE PlaceNode(f[k - 1], EntrySteps(d, i, p)[k])
  <2>1. CASE k = 0
    BY <1>3, <2>1
  <2>2. CASE k # 0
    <3>1. k \in 1 .. n /\ k - 1 \in 0 .. n
      BY <2>2
    <3> QED
      BY <1>2, <1>3, <2>2, <3>1
  <2> QED
    BY <2>1, <2>2
<1>6. Made(f)
  BY <1>3, <1>4
<1> HIDE DEF Made
<1>7. \E h : Made(h)
  BY <1>6
<1> DEFINE g == CHOOSE h : Made(h)
<1>8. Made(g)
  BY <1>7
<1>9. PlaceEntry(t, d, i, p) = g[n]
  BY DEF PlaceEntry, Made
<1> HIDE DEF g
<1>10. g[0] \in G[0]
  BY <1>8 DEF Made
<1>11. ASSUME NEW k \in 1 .. n, g[k - 1] \in G[k - 1]
       PROVE  g[k] \in G[k]
  <2>1. g[k] = PlaceNode(g[k - 1], EntrySteps(d, i, p)[k])
    <3>1. k \in 0 .. n /\ k # 0
      OBVIOUS
    <3> QED
      BY <1>8, <3>1 DEF Made
  <2> QED
    BY <1>11, <2>1
<1>12. \A k \in 0 .. n : g[k] \in G[k]
  BY <1>10, <1>11, Reaches
<1> QED
  BY <1>9, <1>12

(* Entries of an FPS. *)
LEMMA FpsLoop ==
  ASSUME NEW t, NEW d, NEW i, NEW n \in Nat, n = Len(Keyword[d[i]]), NEW G, t \in G[0],
         \A k \in 1 .. n : \A u \in G[k - 1] : PlaceEntry(u, d, i, k) \in G[k]
  PROVE  PlaceFps(t, d, i) \in G[n]
<1> DEFINE Made(f) == f = [k \in 0 .. n |-> IF k = 0 THEN t
                                        ELSE PlaceEntry(f[k - 1], d, i, k)]
           U == UNION {G[k] : k \in 0 .. n}
<1>1. PICK F : F = [x \in U \X (1 .. n) |-> PlaceEntry(x[1], d, i, x[2])]
  OBVIOUS
<1>2. ASSUME NEW k \in 1 .. n, NEW u \in G[k - 1]
      PROVE  F[<<u, k>>] = PlaceEntry(u, d, i, k) /\ F[<<u, k>>] \in G[k]
  <2>1. u \in U
    OBVIOUS
  <2>2. <<u, k>> \in U \X (1 .. n) /\ <<u, k>>[1] = u /\ <<u, k>>[2] = k
    BY <2>1
  <2>3. F[<<u, k>>] = PlaceEntry(u, d, i, k)
    BY <1>1, <2>2
  <2> QED
    BY <2>3
<1>3. PICK f \in [0 .. n -> U] : /\ f[0] = t /\ \A k \in 1 .. n : f[k] = F[<<f[k - 1], k>>]
                                 /\ \A k \in 0 .. n : f[k] \in G[k]
  <2>1. \A k \in 0 .. n : G[k] \subseteq U
    OBVIOUS
  <2>2. \A k \in 1 .. n : \A u \in G[k - 1] : F[<<u, k>>] \in G[k]
    BY <1>2
  <2>3. t \in G[0] /\ n \in Nat
    OBVIOUS
  <2>4. Goes(n, t, F, G, U)
    BY <2>1, <2>2, <2>3 DEF Goes
  <2> HIDE DEF U, Made
  <2> QED
    BY <2>4, Loop
<1>4. ASSUME NEW k \in 0 .. n
      PROVE  f[k] = IF k = 0 THEN t ELSE PlaceEntry(f[k - 1], d, i, k)
  <2>1. CASE k = 0
    BY <1>3, <2>1
  <2>2. CASE k # 0
    <3>1. k \in 1 .. n /\ k - 1 \in 0 .. n
      BY <2>2
    <3> QED
      BY <1>2, <1>3, <2>2, <3>1
  <2> QED
    BY <2>1, <2>2
<1>6. Made(f)
  BY <1>3, <1>4
<1> HIDE DEF Made
<1>7. \E h : Made(h)
  BY <1>6
<1> DEFINE g == CHOOSE h : Made(h)
<1>8. Made(g)
  BY <1>7
<1>9. PlaceFps(t, d, i) = g[n]
  BY DEF PlaceFps, Made
<1> HIDE DEF g
<1>10. g[0] \in G[0]
  BY <1>8 DEF Made
<1>11. ASSUME NEW k \in 1 .. n, g[k - 1] \in G[k - 1]
       PROVE  g[k] \in G[k]
  <2>1. g[k] = PlaceEntry(g[k - 1], d, i, k)
    <3>1. k \in 0 .. n /\ k # 0
      OBVIOUS
    <3> QED
      BY <1>8, <3>1 DEF Made
  <2> QED
    BY <1>11, <2>1
<1>12. \A k \in 0 .. n : g[k] \in G[k]
  BY <1>10, <1>11, Reaches
<1> QED
  BY <1>9, <1>12

(* FPSs of a directory. *)
LEMMA BuildLoop ==
  ASSUME NEW d, NEW base, base = [node |-> Cleared(keywnode), NBkwn |-> 1],
         NEW n \in Nat, n = Len(d), NEW G, base \in G[0],
         \A k \in 1 .. n : \A u \in G[k - 1] : PlaceFps(u, d, k) \in G[k]
  PROVE  Build(d) \in G[n]
<1> DEFINE Made(f) == f = [k \in 0 .. n |-> IF k = 0 THEN base
                                        ELSE PlaceFps(f[k - 1], d, k)]
           U == UNION {G[k] : k \in 0 .. n}
<1>1. PICK F : F = [x \in U \X (1 .. n) |-> PlaceFps(x[1], d, x[2])]
  OBVIOUS
<1>2. ASSUME NEW k \in 1 .. n, NEW u \in G[k - 1]
      PROVE  F[<<u, k>>] = PlaceFps(u, d, k) /\ F[<<u, k>>] \in G[k]
  <2>1. u \in U
    OBVIOUS
  <2>2. <<u, k>> \in U \X (1 .. n) /\ <<u, k>>[1] = u /\ <<u, k>>[2] = k
    BY <2>1
  <2>3. F[<<u, k>>] = PlaceFps(u, d, k)
    BY <1>1, <2>2
  <2> QED
    BY <2>3
<1>3. PICK f \in [0 .. n -> U] : /\ f[0] = base /\ \A k \in 1 .. n : f[k] = F[<<f[k - 1], k>>]
                                 /\ \A k \in 0 .. n : f[k] \in G[k]
  <2>1. \A k \in 0 .. n : G[k] \subseteq U
    OBVIOUS
  <2>2. \A k \in 1 .. n : \A u \in G[k - 1] : F[<<u, k>>] \in G[k]
    BY <1>2
  <2>3. base \in G[0] /\ n \in Nat
    OBVIOUS
  <2>4. Goes(n, base, F, G, U)
    BY <2>1, <2>2, <2>3 DEF Goes
  <2> HIDE DEF U, Made
  <2> QED
    BY <2>4, Loop
<1>4. ASSUME NEW k \in 0 .. n
      PROVE  f[k] = IF k = 0 THEN base ELSE PlaceFps(f[k - 1], d, k)
  <2>1. CASE k = 0
    BY <1>3, <2>1
  <2>2. CASE k # 0
    <3>1. k \in 1 .. n /\ k - 1 \in 0 .. n
      BY <2>2
    <3> QED
      BY <1>2, <1>3, <2>2, <3>1
  <2> QED
    BY <2>1, <2>2
<1>6. Made(f)
  BY <1>3, <1>4
<1> HIDE DEF Made
<1>7. \E h : Made(h)
  BY <1>6
<1> DEFINE g == CHOOSE h : Made(h)
<1>8. Made(g)
  BY <1>7
<1>9. Build(d) = g[n]
  BY DEF Build, Made
<1> HIDE DEF g
<1>10. g[0] \in G[0]
  BY <1>8 DEF Made
<1>11. ASSUME NEW k \in 1 .. n, g[k - 1] \in G[k - 1]
       PROVE  g[k] \in G[k]
  <2>1. g[k] = PlaceFps(g[k - 1], d, k)
    <3>1. k \in 0 .. n /\ k # 0
      OBVIOUS
    <3> QED
      BY <1>8, <3>1 DEF Made
  <2> QED
    BY <1>11, <2>1
<1>12. \A k \in 0 .. n : g[k] \in G[k]
  BY <1>10, <1>11, Reaches
<1> QED
  BY <1>9, <1>12

-----------------------------------------------------------------------------
(* PlaceNode.                                                              *)

(* What nodes are made of. *)
LEMMA Fields ==
  ASSUME NEW t \in Tree, NEW k \in Node
  PROVE  /\ k \in Nat /\ t.node \in [Node -> NodeRec] /\ t.node[k] \in NodeRec
         /\ t.node[k].path \in TreePaths \cup {<<>>} /\ t.node[k].leaf \in {0, 1}
         /\ t.node[k].fpsindex \in FpsIndex /\ t.node[k].fpsindex \in Nat /\ t.node[k].pindex \in Nat
         /\ t.node[k].parent \in Node /\ t.node[k].parent \in Nat
         /\ t.node[k].NBchild \in 0 .. MaxChild - 1 /\ t.node[k].NBchild \in Nat
         /\ t.node[k].child \in [0 .. MaxChild - 1 -> Node]
<1>1. t.node \in [Node -> NodeRec] /\ t.node[k] \in NodeRec
  BY DEF Tree
<1> DEFINE n == t.node[k]
<1>2. n \in NodeRec
  BY <1>1
<1> HIDE DEF n
<1>3. /\ n.path \in TreePaths \cup {<<>>} /\ n.leaf \in {0, 1} /\ n.fpsindex \in FpsIndex
      /\ n.pindex \in Nat /\ n.parent \in Node /\ n.NBchild \in 0 .. MaxChild - 1
      /\ n.child \in [0 .. MaxChild - 1 -> Node]
  BY <1>2 DEF NodeRec
<1>4. k \in Nat /\ n.parent \in Nat /\ n.fpsindex \in Nat /\ n.NBchild \in Nat
  BY <1>3, Constants
<1> QED
  BY <1>1, <1>3, <1>4 DEF n

(* A tree that lacks a path has room for it, in the tree and in the list   *)
(* of the parent: paths tell nodes from each other, and the arrays are long *)
(* enough for all paths.                                                   *)
LEMMA Room ==
  ASSUME NEW t \in Tree, Shape(t), NEW q \in TreePaths, NEW up \in 0 .. t.NBkwn - 1,
         t.node[up].path = Front(q), \A k \in 0 .. t.NBkwn - 1 : t.node[k].path # q
  PROVE  t.NBkwn \in 1 .. NBnode - 1 /\ t.node[up].NBchild \in 0 .. MaxChild - 2
<1> DEFINE n == t.NBkwn
           c == t.node[up].NBchild
           D == {r \in TreePaths : Front(r) = Front(q)}
<1>1. /\ n \in Nat /\ n > 0 /\ n <= NBnode /\ \A k \in Node : t.node[k] \in NodeRec
      /\ \A k \in 0 .. n - 1 : k \in Node
  BY Constants DEF Tree, Shape
<1>2. c \in Nat /\ up \in Node
  BY <1>1, Constants DEF NodeRec
<1>3. \A k \in 1 .. n - 1 : t.node[k].path \in TreePaths \ {q}
  <2>1. \A k \in 1 .. n - 1 : k \in Node /\ k \in 0 .. n - 1 /\ t.node[k].path \in TreePaths \cup {<<>>}
    BY <1>1 DEF NodeRec
  <2> QED
    BY <2>1 DEF Shape, Below
<1>4. n - 1 <= Cardinality(TreePaths \ {q})
  <2> DEFINE f == [k \in 1 .. n - 1 |-> t.node[k].path]
  <2>1. f \in [1 .. n - 1 -> TreePaths \ {q}]
    BY <1>3
  <2>2. \A k, m \in 1 .. n - 1 : f[k] = f[m] => k = m
    BY <1>1 DEF Shape
  <2>3. f \in Injection(1 .. n - 1, TreePaths \ {q})
    BY <2>1, <2>2 DEF Injection, IsInjective
  <2>4. IsFiniteSet(TreePaths \ {q})
    BY RoomAssumption, FS_RemoveElement
  <2> HIDE DEF f
  <2>5. Cardinality(1 .. n - 1) <= Cardinality(TreePaths \ {q})
    BY <2>3, <2>4, FS_Injection
  <2>6. Cardinality(1 .. n - 1) = n - 1
    BY <1>1, FS_Interval
  <2> QED
    BY <2>5, <2>6
<1>5. n < NBnode
  <2>1. Cardinality(TreePaths \ {q}) = Cardinality(TreePaths) - 1
    BY RoomAssumption, FS_RemoveElement
  <2>2. Cardinality(TreePaths) \in Nat /\ Cardinality(TreePaths) < NBnode
    BY RoomAssumption, FS_CardinalityType
  <2> QED
    BY <1>1, <1>4, <2>1, <2>2, Constants
<1>6. Cardinality(D) < MaxChild /\ IsFiniteSet(D) /\ q \in D
  <2>1. Front(q) \in TreePaths \cup {<<>>}
    BY <1>1, <1>2 DEF NodeRec
  <2>2. D \in SUBSET TreePaths
    OBVIOUS
  <2> QED
    BY <2>1, <2>2, RoomAssumption, FS_Subset
<1>7. \A e \in 0 .. c - 1 :
        t.node[up].child[e] \in 1 .. n - 1 /\ t.node[t.node[up].child[e]].path \in D \ {q}
  <2>1. \A e \in 0 .. c - 1 :
          t.node[up].child[e] \in 1 .. n - 1 /\ t.node[t.node[up].child[e]].parent = up
    BY DEF Shape, Below
  <2>2. \A k \in 1 .. n - 1 : t.node[t.node[k].parent].path = Front(t.node[k].path)
    BY DEF Shape, Below
  <2> QED
    BY <1>3, <2>1, <2>2
<1>8. c <= Cardinality(D \ {q})
  <2> DEFINE f == [e \in 0 .. c - 1 |-> t.node[t.node[up].child[e]].path]
  <2>1. f \in [0 .. c - 1 -> D \ {q}]
    BY <1>7
  <2>2. \A e, g \in 0 .. c - 1 : f[e] = f[g] => e = g
    <3>1. \A e, g \in 0 .. c - 1 : t.node[up].child[e] = t.node[up].child[g] => e = g
      BY DEF Shape
    <3>2. \A k, m \in 1 .. n - 1 : t.node[k].path = t.node[m].path => k = m
      BY <1>1 DEF Shape
    <3> QED
      BY <1>7, <3>1, <3>2
  <2>3. f \in Injection(0 .. c - 1, D \ {q})
    BY <2>1, <2>2 DEF Injection, IsInjective
  <2>4. IsFiniteSet(D \ {q})
    BY <1>6, FS_RemoveElement
  <2> HIDE DEF f, c
  <2>5. Cardinality(0 .. c - 1) <= Cardinality(D \ {q})
    BY <2>3, <2>4, FS_Injection
  <2>6. Cardinality(0 .. c - 1) = c
    BY <1>2, FS_Interval
  <2> QED
    BY <2>5, <2>6
<1>9. Cardinality(D \ {q}) = Cardinality(D) - 1
  BY <1>6, FS_RemoveElement
<1>10. c + 1 < MaxChild
  <2>1. Cardinality(D) \in Nat
    BY <1>6, FS_CardinalityType
  <2> HIDE DEF D, c
  <2> QED
    BY <1>2, <1>6, <1>8, <1>9, <2>1, Constants
<1> HIDE DEF c, n
<1>11. n \in 1 .. NBnode - 1 /\ c \in 0 .. MaxChild - 2
  BY <1>1, <1>2, <1>5, <1>10, Constants
<1> QED
  BY <1>11 DEF c, n

(* The new node and its parent are the only ones that change. *)
LEMMA PlaceNew ==
  ASSUME NEW t \in Tree, Shape(t), NEW up \in 0 .. t.NBkwn - 1, NEW n, n = t.NBkwn,
         NEW s, s.path \in TreePaths, s.leaf \in {0, 1}, s.fpsindex \in FpsIndex, s.pindex \in Nat,
         t.node[up].path = Front(s.path), \A k \in 0 .. n - 1 : t.node[k].path # s.path,
         NEW u, u = PlaceNode(t, s)
  PROVE  /\ u \in Tree /\ u.NBkwn = n + 1 /\ n \in 1 .. NBnode - 1 /\ up \in Node
         /\ u.node[n].path = s.path /\ u.node[n].leaf = s.leaf /\ u.node[n].fpsindex = s.fpsindex
         /\ u.node[n].pindex = s.pindex /\ u.node[n].parent = up /\ u.node[n].NBchild = 0
         /\ u.node[up].path = t.node[up].path /\ u.node[up].leaf = t.node[up].leaf
         /\ u.node[up].fpsindex = t.node[up].fpsindex /\ u.node[up].pindex = t.node[up].pindex
         /\ u.node[up].parent = t.node[up].parent /\ u.node[up].NBchild = t.node[up].NBchild + 1
         /\ u.node[up].child[t.node[up].NBchild] = n
         /\ \A c \in 0 .. t.node[up].NBchild - 1 : u.node[up].child[c] = t.node[up].child[c]
         /\ \A k \in Node : k # n /\ k # up => u.node[k] = t.node[k]
<1> DEFINE c == t.node[up].NBchild
           new == [t.node[n] EXCEPT !.path = s.path, !.leaf = s.leaf, !.parent = up,
                                    !.fpsindex = s.fpsindex, !.pindex = s.pindex]
           above == [t.node[up] EXCEPT !.child = [@ EXCEPT ![c] = n], !.NBchild = @ + 1]
<1>1. n \in 1 .. NBnode - 1 /\ c \in 0 .. MaxChild - 2
  BY Room
<1>2. /\ n \in Node /\ up \in Node /\ up # n
      /\ t.node \in [Node -> NodeRec] /\ t.node[n] \in NodeRec /\ t.node[up] \in NodeRec
  BY <1>1, Constants DEF Tree
<1>3. ParentNode(t, s) = up
  <2>1. \A k \in 0 .. t.NBkwn - 1 : t.node[k].path = Front(s.path) => k = up
    BY DEF Shape
  <2> QED
    BY <2>1 DEF ParentNode
<1>4. u = [node |-> [t.node EXCEPT ![n] = new, ![up] = above], NBkwn |-> n + 1]
  <2>1. ~(\E k \in 0 .. t.NBkwn - 1 : t.node[k].path = s.path)
    OBVIOUS
  <2>2. u = [node |-> [t.node EXCEPT ![n] = new, ![up].child[c] = n, ![up].NBchild = @ + 1],
             NBkwn |-> n + 1]
    BY <1>3, <2>1 DEF PlaceNode
  <2> QED
    BY <1>2, <2>2 DEF NodeRec
<1>5. new \in NodeRec /\ new.NBchild = t.node[n].NBchild
  BY <1>2, Constants DEF NodeRec
<1>6. /\ above \in NodeRec /\ above.child[c] = n
      /\ above.path = t.node[up].path /\ above.leaf = t.node[up].leaf
      /\ above.fpsindex = t.node[up].fpsindex /\ above.pindex = t.node[up].pindex
      /\ above.parent = t.node[up].parent /\ above.NBchild = c + 1
      /\ \A e \in 0 .. c - 1 : above.child[e] = t.node[up].child[e]
  <2> DEFINE list == [t.node[up].child EXCEPT ![c] = n]
  <2>1. t.node[up].child \in [0 .. MaxChild - 1 -> Node] /\ c \in 0 .. MaxChild - 1
    BY <1>1, <1>2, Constants DEF NodeRec
  <2>2. /\ list \in [0 .. MaxChild - 1 -> Node] /\ list[c] = n
        /\ \A e \in 0 .. c - 1 : list[e] = t.node[up].child[e]
    <3> HIDE DEF c
    <3>1. \A e \in 0 .. c - 1 : e # c /\ e \in 0 .. MaxChild - 1
      BY <1>1, Constants
    <3> QED
      BY <1>2, <2>1, <3>1
  <2>3. above = [t.node[up] EXCEPT !.child = list, !.NBchild = c + 1]
    OBVIOUS
  <2>4. c + 1 \in 0 .. MaxChild - 1
    BY <1>1, Constants
  <2> HIDE DEF above, list, c
  <2>5. above \in NodeRec /\ above.child = list /\ above.NBchild = c + 1
    BY <1>2, <2>2, <2>3, <2>4 DEF NodeRec
  <2>6. above.path = t.node[up].path /\ above.leaf = t.node[up].leaf
      /\ above.fpsindex = t.node[up].fpsindex /\ above.pindex = t.node[up].pindex
      /\ above.parent = t.node[up].parent
    BY <1>2, <2>3 DEF NodeRec
  <2> QED
    BY <2>2, <2>5, <2>6
<1>7. new.path = s.path /\ new.leaf = s.leaf /\ new.fpsindex = s.fpsindex
      /\ new.pindex = s.pindex /\ new.parent = up
  BY <1>2 DEF NodeRec
<1>8. t.node[n].NBchild = 0
  BY <1>1 DEF Shape
<1> HIDE DEF new, above
<1>9. u.node = [t.node EXCEPT ![n] = new, ![up] = above] /\ u.NBkwn = n + 1
  BY <1>4
<1>10. /\ u.node[n] = new /\ u.node[up] = above
       /\ \A k \in Node : k # n /\ k # up => u.node[k] = t.node[k]
  BY <1>2, <1>9
<1>11. u.node \in [Node -> NodeRec]
  BY <1>2, <1>5, <1>6, <1>9
<1>12. u \in Tree
  <2>1. u = [node |-> u.node, NBkwn |-> u.NBkwn] /\ u.NBkwn \in 0 .. NBnode
    BY <1>1, <1>4, Constants
  <2> QED
    BY <1>11, <2>1 DEF Tree
<1> QED
  BY <1>1, <1>2, <1>5, <1>6, <1>7, <1>8, <1>9, <1>10, <1>12

(* What the nodes that were there keep. *)
LEMMA PlaceKeeps ==
  ASSUME NEW t \in Tree, Shape(t), NEW up \in 0 .. t.NBkwn - 1, NEW n, n = t.NBkwn,
         NEW s, s.path \in TreePaths, s.leaf \in {0, 1}, s.fpsindex \in FpsIndex, s.pindex \in Nat,
         t.node[up].path = Front(s.path), \A k \in 0 .. n - 1 : t.node[k].path # s.path,
         NEW u, u = PlaceNode(t, s)
  PROVE  /\ \A k \in 0 .. n - 1 :
              /\ k \in Node /\ u.node[k].path = t.node[k].path /\ u.node[k].leaf = t.node[k].leaf
              /\ u.node[k].fpsindex = t.node[k].fpsindex /\ u.node[k].pindex = t.node[k].pindex
              /\ u.node[k].parent = t.node[k].parent
              /\ t.node[k].NBchild \in Nat /\ u.node[k].NBchild \in Nat
              /\ t.node[k].NBchild <= u.node[k].NBchild
              /\ \A c \in 0 .. t.node[k].NBchild - 1 : u.node[k].child[c] = t.node[k].child[c]
              /\ \A c \in 0 .. u.node[k].NBchild - 1 :
                   c \in 0 .. t.node[k].NBchild - 1 \/ (k = up /\ c = t.node[up].NBchild)
         /\ \A k \in n + 1 .. NBnode - 1 : k \in Node /\ u.node[k] = t.node[k]
<1>1. /\ u \in Tree /\ n \in 1 .. NBnode - 1 /\ up \in Node
      /\ u.node[up].path = t.node[up].path /\ u.node[up].leaf = t.node[up].leaf
      /\ u.node[up].fpsindex = t.node[up].fpsindex /\ u.node[up].pindex = t.node[up].pindex
      /\ u.node[up].parent = t.node[up].parent /\ u.node[up].NBchild = t.node[up].NBchild + 1
      /\ \A c \in 0 .. t.node[up].NBchild - 1 : u.node[up].child[c] = t.node[up].child[c]
      /\ \A k \in Node : k # n /\ k # up => u.node[k] = t.node[k]
  BY PlaceNew
<1>2. \A k \in 0 .. n - 1 : k \in Node /\ k # n
  BY <1>1, Constants
<1>3. \A k \in n + 1 .. NBnode - 1 : k \in Node /\ k # n /\ k # up
  BY <1>1, Constants
<1>4. \A k \in Node : t.node[k].NBchild \in Nat /\ u.node[k].NBchild \in Nat
  BY <1>1, Fields
<1>5. ASSUME NEW k \in 0 .. n - 1
      PROVE  /\ t.node[k].NBchild <= u.node[k].NBchild
             /\ \A c \in 0 .. u.node[k].NBchild - 1 :
                  c \in 0 .. t.node[k].NBchild - 1 \/ (k = up /\ c = t.node[up].NBchild)
  <2>1. CASE k = up
    BY <1>1, <1>4, <2>1
  <2>2. CASE k # up
    BY <1>1, <1>2, <1>4, <2>2
  <2> QED
    BY <2>1, <2>2
<1>6. ASSUME NEW k \in 0 .. n - 1
      PROVE  /\ u.node[k].path = t.node[k].path /\ u.node[k].leaf = t.node[k].leaf
             /\ u.node[k].fpsindex = t.node[k].fpsindex /\ u.node[k].pindex = t.node[k].pindex
             /\ u.node[k].parent = t.node[k].parent
             /\ \A c \in 0 .. t.node[k].NBchild - 1 : u.node[k].child[c] = t.node[k].child[c]
  <2>1. CASE k = up
    BY <1>1, <2>1
  <2>2. CASE k # up
    BY <1>1, <1>2, <2>2
  <2> QED
    BY <2>1, <2>2
<1> QED
  BY <1>1, <1>2, <1>3, <1>4, <1>5, <1>6

(* The new node is listed once, and by the parent that its path says. *)
LEMMA PlaceShape ==
  ASSUME NEW t \in Tree, Shape(t), NEW up \in 0 .. t.NBkwn - 1, NEW n, n = t.NBkwn,
         NEW s, s.path \in TreePaths, s.leaf \in {0, 1}, s.fpsindex \in FpsIndex, s.pindex \in Nat,
         t.node[up].path = Front(s.path), \A k \in 0 .. n - 1 : t.node[k].path # s.path,
         s.path # <<>>, NEW u, u = PlaceNode(t, s)
  PROVE  Shape(u)
<1>1. /\ u \in Tree /\ u.NBkwn = n + 1 /\ n \in 1 .. NBnode - 1
      /\ u.node[n].path = s.path /\ u.node[n].parent = up /\ u.node[n].NBchild = 0
      /\ u.node[up].NBchild = t.node[up].NBchild + 1
      /\ u.node[up].child[t.node[up].NBchild] = n
  BY PlaceNew
<1>2. \A k \in 0 .. n - 1 :
        /\ u.node[k].path = t.node[k].path /\ u.node[k].parent = t.node[k].parent
        /\ t.node[k].NBchild \in Nat /\ u.node[k].NBchild \in Nat
        /\ t.node[k].NBchild <= u.node[k].NBchild
        /\ \A c \in 0 .. t.node[k].NBchild - 1 : u.node[k].child[c] = t.node[k].child[c]
        /\ \A c \in 0 .. u.node[k].NBchild - 1 :
             c \in 0 .. t.node[k].NBchild - 1 \/ (k = up /\ c = t.node[up].NBchild)
  BY PlaceKeeps
<1>3. \A k \in n + 1 .. NBnode - 1 : u.node[k] = t.node[k]
  BY PlaceKeeps
<1>4. u.NBkwn > 0 /\ u.node[0].path = <<>>
  BY <1>1, <1>2 DEF Shape
<1>5. ASSUME NEW k \in Below(u)
      PROVE  /\ u.node[k].path # <<>> /\ u.node[k].parent < k
             /\ u.node[u.node[k].parent].path = Front(u.node[k].path)
             /\ \E c \in 0 .. u.node[u.node[k].parent].NBchild - 1 :
                  u.node[u.node[k].parent].child[c] = k
  <2>1. CASE k = n
    <3>1. t.node[up].NBchild \in 0 .. u.node[up].NBchild - 1
      BY <1>1, <1>2
    <3>2. up < n /\ u.node[up].path = t.node[up].path
      BY <1>1, <1>2
    <3> QED
      BY <1>1, <2>1, <3>1, <3>2
  <2>2. CASE k # n
    <3> DEFINE m == t.node[k].parent
    <3>1. k \in Below(t) /\ k \in 0 .. n - 1
      BY <1>1, <2>2 DEF Below
    <3>2. /\ t.node[k].path # <<>> /\ m < k /\ t.node[m].path = Front(t.node[k].path)
          /\ \E c \in 0 .. t.node[m].NBchild - 1 : t.node[m].child[c] = k
      BY <3>1 DEF Shape
    <3>3. m \in 0 .. n - 1
      <4>1. m \in Nat
        <5>1. k \in Node
          BY <1>1, <3>1, Constants
        <5> QED
          BY <5>1, Fields
      <4> QED
        BY <1>1, <3>1, <3>2, <4>1
    <3>4. PICK c \in 0 .. t.node[m].NBchild - 1 : t.node[m].child[c] = k
      BY <3>2
    <3>5. u.node[k].parent = m /\ u.node[k].path = t.node[k].path /\ u.node[m].path = t.node[m].path
      BY <1>2, <3>1, <3>3
    <3>6. t.node[m].NBchild \in Nat /\ u.node[m].NBchild \in Nat
          /\ t.node[m].NBchild <= u.node[m].NBchild /\ u.node[m].child[c] = k
      BY <1>2, <3>3, <3>4
    <3> HIDE DEF m
    <3>7. c \in 0 .. u.node[m].NBchild - 1
      BY <3>4, <3>6
    <3> QED
      BY <3>2, <3>5, <3>6, <3>7
  <2> QED
    BY <2>1, <2>2
<1>6. \A k, m \in 0 .. u.NBkwn - 1 : u.node[k].path = u.node[m].path => k = m
  <2>1. \A k \in 0 .. n : k = n \/ k \in 0 .. n - 1
    BY <1>1
  <2>2. \A k, m \in 0 .. n - 1 : t.node[k].path = t.node[m].path => k = m
    BY DEF Shape
  <2>3. \A k \in 0 .. n - 1 : u.node[k].path = t.node[k].path /\ u.node[k].path # u.node[n].path
    BY <1>1, <1>2
  <2>4. \A k, m \in 0 .. n - 1 : u.node[k].path = u.node[m].path => k = m
    BY <2>2, <2>3
  <2> QED
    BY <1>1, <2>1, <2>3, <2>4
<1>7. ASSUME NEW k \in 0 .. u.NBkwn - 1, NEW c \in 0 .. u.node[k].NBchild - 1
      PROVE  /\ u.node[k].child[c] \in Below(u) /\ u.node[u.node[k].child[c]].parent = k
             /\ \A e \in 0 .. u.node[k].NBchild - 1 : u.node[k].child[c] = u.node[k].child[e] => c = e
  <2>1. k \in 0 .. n - 1
    <3>1. k # n
      BY <1>1
    <3> QED
      BY <1>1, <3>1
  <2>2. \A e \in 0 .. t.node[k].NBchild - 1 :
          /\ u.node[k].child[e] = t.node[k].child[e]
          /\ t.node[k].child[e] \in 1 .. n - 1 /\ t.node[t.node[k].child[e]].parent = k
    BY <1>2, <2>1 DEF Shape, Below
  <2>3. \A e, g \in 0 .. t.node[k].NBchild - 1 : t.node[k].child[e] = t.node[k].child[g] => e = g
    BY <2>1 DEF Shape
  <2>4. \A e \in 0 .. u.node[k].NBchild - 1 :
          e \in 0 .. t.node[k].NBchild - 1 \/ (k = up /\ e = t.node[up].NBchild)
    BY <1>2, <2>1
  <2>5. \A e \in 0 .. u.node[k].NBchild - 1 :
          /\ u.node[k].child[e] \in 1 .. n /\ u.node[u.node[k].child[e]].parent = k
          /\ u.node[k].child[e] = n <=> (k = up /\ e = t.node[up].NBchild)
    <3> TAKE e \in 0 .. u.node[k].NBchild - 1
    <3>1. CASE e \in 0 .. t.node[k].NBchild - 1
      <4>1. u.node[k].child[e] \in 1 .. n - 1 /\ t.node[u.node[k].child[e]].parent = k
        BY <2>2, <3>1
      <4>2. u.node[u.node[k].child[e]].parent = k
        BY <1>2, <4>1
      <4>3. ~(k = up /\ e = t.node[up].NBchild) /\ u.node[k].child[e] # n /\ u.node[k].child[e] \in 1 .. n
        BY <1>1, <1>2, <3>1, <4>1
      <4> QED
        BY <4>2, <4>3
    <3>2. CASE k = up /\ e = t.node[up].NBchild
      BY <1>1, <3>2
    <3> QED
      BY <2>4, <3>1, <3>2
  <2>6. \A e \in 0 .. u.node[k].NBchild - 1 : u.node[k].child[c] = u.node[k].child[e] => c = e
    <3> TAKE e \in 0 .. u.node[k].NBchild - 1
    <3>1. CASE u.node[k].child[c] = n
      BY <2>5, <3>1
    <3>2. CASE u.node[k].child[c] # n
      <4>1. u.node[k].child[c] = u.node[k].child[e] =>
              c \in 0 .. t.node[k].NBchild - 1 /\ e \in 0 .. t.node[k].NBchild - 1
        BY <2>4, <2>5, <3>2
      <4> QED
        BY <2>2, <2>3, <4>1
    <3> QED
      BY <3>1, <3>2
  <2>7. Below(u) = 1 .. n
    BY <1>1 DEF Below
  <2> QED
    BY <2>5, <2>6, <2>7
<1>8. ASSUME NEW k \in u.NBkwn .. NBnode - 1
      PROVE  u.node[k].NBchild = 0
  <2>1. k \in n + 1 .. NBnode - 1 /\ k \in n .. NBnode - 1
    BY <1>1, Constants
  <2> QED
    BY <1>3, <2>1 DEF Shape
<1> QED
  BY <1>4, <1>5, <1>6, <1>7, <1>8 DEF Shape

-----------------------------------------------------------------------------
(* A scan.                                                                 *)

(* A list of names: its indices are those of FPSs. *)
LEMMA NamesOf ==
  ASSUME NEW d, Names(d)
  PROVE  /\ d \in Seq(FpsName) /\ Len(d) \in Nat /\ DOMAIN d = 1 .. Len(d) /\ Len(d) <= NBmax
         /\ \A i \in 1 .. Len(d) : d[i] \in FpsName /\ i - 1 \in FpsIndex
         /\ \A i, j \in 1 .. Len(d) : d[i] = d[j] => i = j
<1>1. PICK m \in 0 .. NBmax : d \in [1 .. m -> FpsName]
  BY DEF Names, SeqOf
<1>2. m \in Nat /\ m <= NBmax
  BY <1>1, Constants
<1>3. d \in Seq(FpsName) /\ Len(d) = m /\ DOMAIN d = 1 .. m
  BY <1>1, <1>2
<1>4. \A i \in 1 .. m : d[i] \in FpsName /\ i - 1 \in FpsIndex
  BY <1>1, <1>2, Constants
<1>5. \A i, j \in 1 .. m : d[i] = d[j] => i = j
  BY <1>3 DEF Names, IsInjective
<1> QED
  BY <1>2, <1>3, <1>4, <1>5

(* The step of level l of an entry. *)
LEMMA StepOf ==
  ASSUME NEW d, Names(d), NEW i \in 1 .. Len(d), NEW p \in 1 .. Len(Keyword[d[i]]),
         NEW l \in 1 .. Len(Path(d[i], p)), NEW s, s = EntrySteps(d, i, p)[l]
  PROVE  /\ s.path = Pre(d, i, p, l) /\ s.path \in TreePaths /\ s.path # <<>> /\ Len(s.path) = l
         /\ s.fpsindex = i - 1 /\ s.fpsindex \in FpsIndex
         /\ s.leaf = (IF l = Len(Path(d[i], p)) THEN 1 ELSE 0) /\ s.leaf \in {0, 1}
         /\ s.pindex = (IF l = Len(Path(d[i], p)) THEN p - 1 ELSE 0) /\ s.pindex \in Nat
         /\ l = 1 => Front(s.path) = <<>>
         /\ l # 1 => l - 1 \in 1 .. Len(Path(d[i], p)) /\ Front(s.path) = Pre(d, i, p, l - 1)
<1> DEFINE P == Path(d[i], p)
<1>1. d[i] \in FpsName /\ i - 1 \in FpsIndex
  BY NamesOf
<1>2. P \in Seq(FpsName \cup STRING) /\ Len(P) \in Nat /\ Len(Keyword[d[i]]) \in Nat
  BY <1>1, Paths
<1>3. s = [path |-> SubSeq(P, 1, l), fpsindex |-> i - 1, leaf |-> IF l = Len(P) THEN 1 ELSE 0,
           pindex |-> IF l = Len(P) THEN p - 1 ELSE 0]
  BY DEF EntrySteps
<1>4. SubSeq(P, 1, l) \in TreePaths /\ SubSeq(P, 1, l) # <<>> /\ Len(SubSeq(P, 1, l)) = l
      /\ Front(SubSeq(P, 1, l)) = SubSeq(P, 1, l - 1)
  BY <1>1, Beginnings
<1>5. l = 1 => SubSeq(P, 1, l - 1) = <<>>
  BY <1>2
<1>6. l # 1 => l - 1 \in 1 .. Len(P)
  BY <1>2
<1>7. p - 1 \in Nat
  BY <1>2
<1> HIDE DEF P
<1>8. /\ s.path = SubSeq(P, 1, l) /\ s.fpsindex = i - 1 /\ s.leaf = (IF l = Len(P) THEN 1 ELSE 0)
      /\ s.pindex = IF l = Len(P) THEN p - 1 ELSE 0
  BY <1>3
<1> QED
  BY <1>1, <1>4, <1>5, <1>6, <1>7, <1>8 DEF Pre, P

(* It goes on with the tree. *)
LEMMA StepTrue ==
  ASSUME NEW d, Names(d), NEW b \in Nat, Len(d) <= b, NEW i \in 1 .. Len(d),
         NEW p \in 1 .. Len(Keyword[d[i]]), NEW l \in 1 .. Len(Path(d[i], p)),
         NEW t, Upto(t, d, b, i, p, l - 1)
  PROVE  Upto(PlaceNode(t, EntrySteps(d, i, p)[l]), d, b, i, p, l)
<1> DEFINE s == EntrySteps(d, i, p)[l]
           u == PlaceNode(t, s)
           n == t.NBkwn
<1>1. /\ s.path = Pre(d, i, p, l) /\ s.path \in TreePaths /\ s.path # <<>>
      /\ s.fpsindex = i - 1 /\ s.fpsindex \in FpsIndex
      /\ s.leaf = (IF l = Len(Path(d[i], p)) THEN 1 ELSE 0) /\ s.leaf \in {0, 1}
      /\ s.pindex = (IF l = Len(Path(d[i], p)) THEN p - 1 ELSE 0) /\ s.pindex \in Nat
      /\ l = 1 => Front(s.path) = <<>>
      /\ l # 1 => Front(s.path) = Pre(d, i, p, l - 1)
  BY StepOf
<1>2. /\ t \in Tree /\ Shape(t) /\ Origin(t, d, i, p, l - 1)
      /\ \A j \in 1 .. Len(d) : \A q \in 1 .. Len(Keyword[d[j]]) :
           j < i \/ (j = i /\ q < p) => Placed(t, d, j, q)
      /\ \A m \in 1 .. l - 1 : \E k \in Below(t) : t.node[k].path = Pre(d, i, p, m)
      /\ \A k \in Node : t.node[k].fpsindex < b
  BY DEF Upto
<1>3. Len(d) \in Nat /\ d[i] \in FpsName
  BY NamesOf
<1>4. /\ n \in Nat /\ n > 0 /\ n <= NBnode /\ t.node[0].path = <<>>
      /\ \A k \in 0 .. n - 1 : k \in Node /\ k \in 0 .. n - 1 /\ (k # 0 => k \in Below(t))
      /\ \A k \in Below(t) : k \in 0 .. n - 1
  BY <1>2, Constants DEF Tree, Shape, Below
<1>5. \A j, q, m : m \in Nat /\ Earlier(j, q, m, i, p, l - 1) => Earlier(j, q, m, i, p, l)
  BY Paths, <1>3 DEF Earlier
<1>6. l \in Nat /\ \A m \in 1 .. l : m = l \/ m \in 1 .. l - 1
  OBVIOUS
<1>7. ASSUME NEW j \in 1 .. Len(d)
      PROVE  \A q \in 1 .. Len(Keyword[d[j]]) : Len(Path(d[j], q)) \in Nat
  <2>1. d[j] \in FpsName
    BY NamesOf
  <2> QED
    BY <2>1, Paths
<1> HIDE DEF s, u
<1>8. CASE \E k \in 0 .. n - 1 : t.node[k].path = s.path
  <2>1. u = t
    BY <1>8 DEF PlaceNode, u
  <2>2. PICK k \in 0 .. n - 1 : t.node[k].path = s.path
    BY <1>8
  <2>3. k \in Below(t)
    BY <1>1, <1>4, <2>2
  <2>4. \A m \in 1 .. l : \E e \in Below(t) : t.node[e].path = Pre(d, i, p, m)
    BY <1>1, <1>2, <1>6, <2>2, <2>3
  <2>5. Origin(t, d, i, p, l)
    <3> SUFFICES ASSUME NEW e \in Below(t)
                 PROVE  LET j == t.node[e].fpsindex + 1 IN
                        /\ j \in 1 .. Len(d)
                        /\ \E q \in 1 .. Len(Keyword[d[j]]) : \E m \in 1 .. Len(Path(d[j], q)) :
                             From(t.node[e], d, q, m) /\ Earlier(j, q, m, i, p, l)
      BY DEF Origin
    <3> DEFINE j == t.node[e].fpsindex + 1
    <3>1. /\ j \in 1 .. Len(d)
          /\ \E q \in 1 .. Len(Keyword[d[j]]) : \E m \in 1 .. Len(Path(d[j], q)) :
               From(t.node[e], d, q, m) /\ Earlier(j, q, m, i, p, l - 1)
      BY <1>2 DEF Origin
    <3> HIDE DEF j
    <3>2. \A q \in 1 .. Len(Keyword[d[j]]) : \A m \in 1 .. Len(Path(d[j], q)) : m \in Nat
      BY <1>7, <3>1
    <3>3. \E q \in 1 .. Len(Keyword[d[j]]) : \E m \in 1 .. Len(Path(d[j], q)) :
            From(t.node[e], d, q, m) /\ Earlier(j, q, m, i, p, l)
      BY <1>5, <3>1, <3>2
    <3> QED
      BY <3>1, <3>3 DEF j
  <2>6. Upto(t, d, b, i, p, l)
    BY <1>2, <2>4, <2>5 DEF Upto
  <2> QED
    BY <2>1, <2>6 DEF u, s
<1>9. CASE ~(\E k \in 0 .. n - 1 : t.node[k].path = s.path)
  <2>1. PICK up \in 0 .. n - 1 : t.node[up].path = Front(s.path)
    <3>1. CASE l = 1
      BY <1>1, <1>4, <3>1
    <3>2. CASE l # 1
      <4>1. l - 1 \in 1 .. l - 1
        BY <1>6, <3>2
      <4>2. PICK k \in Below(t) : t.node[k].path = Pre(d, i, p, l - 1)
        BY <1>2, <4>1
      <4> QED
        BY <1>1, <1>4, <3>2, <4>2
    <3> QED
      BY <3>1, <3>2
  <2>2. /\ u \in Tree /\ u.NBkwn = n + 1 /\ n \in 1 .. NBnode - 1
        /\ u.node[n].path = s.path /\ u.node[n].leaf = s.leaf /\ u.node[n].fpsindex = s.fpsindex
        /\ u.node[n].pindex = s.pindex
    <3>1. /\ t \in Tree /\ Shape(t) /\ up \in 0 .. t.NBkwn - 1 /\ n = t.NBkwn
          /\ s.path \in TreePaths /\ s.leaf \in {0, 1} /\ s.fpsindex \in FpsIndex
          /\ s.pindex \in Nat /\ t.node[up].path = Front(s.path) /\ u = PlaceNode(t, s)
          /\ \A k \in 0 .. n - 1 : t.node[k].path # s.path
      BY <1>1, <1>2, <1>9, <2>1 DEF u
    <3> HIDE DEF n, u, s
    <3> QED
      BY <3>1, PlaceNew
  <2>3. /\ \A k \in 0 .. n - 1 :
             /\ u.node[k].path = t.node[k].path /\ u.node[k].leaf = t.node[k].leaf
             /\ u.node[k].fpsindex = t.node[k].fpsindex /\ u.node[k].pindex = t.node[k].pindex
        /\ \A k \in n + 1 .. NBnode - 1 : u.node[k] = t.node[k]
    <3>1. /\ t \in Tree /\ Shape(t) /\ up \in 0 .. t.NBkwn - 1 /\ n = t.NBkwn
          /\ s.path \in TreePaths /\ s.leaf \in {0, 1} /\ s.fpsindex \in FpsIndex
          /\ s.pindex \in Nat /\ t.node[up].path = Front(s.path) /\ u = PlaceNode(t, s)
          /\ \A k \in 0 .. n - 1 : t.node[k].path # s.path
      BY <1>1, <1>2, <1>9, <2>1 DEF u
    <3> HIDE DEF n, u, s
    <3> QED
      BY <3>1, PlaceKeeps
  <2>4. Shape(u)
    <3>1. /\ t \in Tree /\ Shape(t) /\ up \in 0 .. t.NBkwn - 1 /\ n = t.NBkwn
          /\ s.path \in TreePaths /\ s.leaf \in {0, 1} /\ s.fpsindex \in FpsIndex
          /\ s.pindex \in Nat /\ t.node[up].path = Front(s.path) /\ u = PlaceNode(t, s)
          /\ s.path # <<>> /\ \A k \in 0 .. n - 1 : t.node[k].path # s.path
      BY <1>1, <1>2, <1>9, <2>1 DEF u
    <3> HIDE DEF n, u, s
    <3> QED
      BY <3>1, PlaceShape
  <2>5. /\ \A k \in Below(t) : k \in Below(u) /\ k \in 0 .. n - 1
        /\ n \in Below(u) /\ \A k \in Below(u) : k = n \/ k \in Below(t)
    BY <1>4, <2>2 DEF Below
  <2>6. ASSUME NEW k \in Below(u)
        PROVE  LET j == u.node[k].fpsindex + 1 IN
               /\ j \in 1 .. Len(d)
               /\ \E q \in 1 .. Len(Keyword[d[j]]) : \E m \in 1 .. Len(Path(d[j], q)) :
                    From(u.node[k], d, q, m) /\ Earlier(j, q, m, i, p, l)
    <3> DEFINE j == u.node[k].fpsindex + 1
    <3>1. CASE k \in Below(t)
      <4>1. /\ u.node[k].path = t.node[k].path /\ u.node[k].leaf = t.node[k].leaf
            /\ u.node[k].fpsindex = t.node[k].fpsindex /\ u.node[k].pindex = t.node[k].pindex
        BY <2>3, <2>5, <3>1
      <4>2. j = t.node[k].fpsindex + 1
        BY <4>1
      <4>3. /\ j \in 1 .. Len(d)
            /\ \E q \in 1 .. Len(Keyword[d[j]]) : \E m \in 1 .. Len(Path(d[j], q)) :
                 From(t.node[k], d, q, m) /\ Earlier(j, q, m, i, p, l - 1)
        BY <1>2, <3>1, <4>2 DEF Origin
      <4>4. \A q, m : From(t.node[k], d, q, m) => From(u.node[k], d, q, m)
        BY <4>1 DEF From
      <4> HIDE DEF j
      <4>5. \A q \in 1 .. Len(Keyword[d[j]]) : \A m \in 1 .. Len(Path(d[j], q)) : m \in Nat
        BY <1>7, <4>3
      <4>6. \E q \in 1 .. Len(Keyword[d[j]]) : \E m \in 1 .. Len(Path(d[j], q)) :
              From(u.node[k], d, q, m) /\ Earlier(j, q, m, i, p, l)
        BY <1>5, <4>3, <4>4, <4>5
      <4> QED
        BY <4>3, <4>6 DEF j
    <3>2. CASE k = n
      <4>1. j = i /\ u.node[k].fpsindex + 1 = i
        BY <1>1, <2>2, <3>2
      <4>2. From(u.node[k], d, p, l)
        <5>1. /\ u.node[k].path = Pre(d, i, p, l)
              /\ u.node[k].leaf = IF l = Len(Path(d[i], p)) THEN 1 ELSE 0
              /\ u.node[k].pindex = IF l = Len(Path(d[i], p)) THEN p - 1 ELSE 0
          BY <1>1, <2>2, <3>2
        <5> QED
          BY <4>1, <5>1 DEF From
      <4>3. Earlier(i, p, l, i, p, l)
        BY <1>6 DEF Earlier
      <4> HIDE DEF j
      <4>4. \E q \in 1 .. Len(Keyword[d[j]]) : \E m \in 1 .. Len(Path(d[j], q)) :
              From(u.node[k], d, q, m) /\ Earlier(j, q, m, i, p, l)
        BY <4>1, <4>2, <4>3
      <4> QED
        BY <4>1, <4>4 DEF j
    <3> QED
      BY <2>5, <3>1, <3>2
  <2>7. Origin(u, d, i, p, l)
    BY <2>6 DEF Origin
  <2>8. ASSUME NEW j \in 1 .. Len(d), NEW q \in 1 .. Len(Keyword[d[j]]), Placed(t, d, j, q)
        PROVE  Placed(u, d, j, q)
    <3>1. PICK k \in Below(t) :
            /\ t.node[k].path = Path(d[j], q)
            /\ (\A r \in 1 .. q - 1 : ~IsPrefix(Path(d[j], q), Path(d[j], r))) =>
                 t.node[k].leaf = 1 /\ t.node[k].fpsindex = j - 1 /\ t.node[k].pindex = q - 1
      BY <2>8 DEF Placed
    <3>2. /\ u.node[k].path = t.node[k].path /\ u.node[k].leaf = t.node[k].leaf
          /\ u.node[k].fpsindex = t.node[k].fpsindex /\ u.node[k].pindex = t.node[k].pindex
      BY <2>3, <2>5
    <3> QED
      BY <2>5, <3>1, <3>2 DEF Placed
  <2>9. \A m \in 1 .. l : \E k \in Below(u) : u.node[k].path = Pre(d, i, p, m)
    <3> TAKE m \in 1 .. l
    <3>1. CASE m = l
      BY <1>1, <2>2, <2>5, <3>1
    <3>2. CASE m \in 1 .. l - 1
      BY <1>2, <2>3, <2>5, <3>2
    <3> QED
      BY <1>6, <3>1, <3>2
  <2>10. \A k \in Node : u.node[k].fpsindex < b
    <3> TAKE k \in Node
    <3>1. i - 1 < b
      BY <1>3
    <3>2. k = n \/ k \in 0 .. n - 1 \/ k \in n + 1 .. NBnode - 1
      BY <1>4, Constants
    <3> QED
      BY <1>1, <1>2, <2>2, <2>3, <3>1, <3>2
  <2>11. Upto(u, d, b, i, p, l)
    BY <1>2, <2>2, <2>4, <2>7, <2>8, <2>9, <2>10 DEF Upto
  <2> QED
    BY <2>11 DEF u, s
<1> QED
  BY <1>8, <1>9

(* After its last level an entry has its node: it was made for this entry, *)
(* or for an earlier one of the FPS that begins with it.                   *)
LEMMA EntryPlaced ==
  ASSUME NEW d, Names(d), NEW i \in 1 .. Len(d), NEW p \in 1 .. Len(Keyword[d[i]]), NEW t, NEW b,
         Upto(t, d, b, i, p, Len(Path(d[i], p)))
  PROVE  Placed(t, d, i, p)
<1> DEFINE P == Path(d[i], p)
           n == Len(P)
<1>1. d[i] \in FpsName /\ Len(Keyword[d[i]]) \in Nat
  BY NamesOf, Paths
<1>2. n \in Nat /\ n \in 1 .. n /\ P[1] = d[i]
  BY <1>1, Paths
<1>3. Pre(d, i, p, n) = P
  BY <1>1, <1>2, Beginnings DEF Pre
<1>4. PICK k \in Below(t) : t.node[k].path = P
  BY <1>2, <1>3 DEF Upto
<1> DEFINE j == t.node[k].fpsindex + 1
<1>5. /\ j \in 1 .. Len(d)
      /\ \E q \in 1 .. Len(Keyword[d[j]]) : \E m \in 1 .. Len(Path(d[j], q)) :
           From(t.node[k], d, q, m) /\ Earlier(j, q, m, i, p, n)
  BY DEF Upto, Origin
<1>6. PICK q \in 1 .. Len(Keyword[d[j]]) : \E m \in 1 .. Len(Path(d[j], q)) :
             From(t.node[k], d, q, m) /\ Earlier(j, q, m, i, p, n)
  BY <1>5
<1>7. PICK m \in 1 .. Len(Path(d[j], q)) : From(t.node[k], d, q, m) /\ Earlier(j, q, m, i, p, n)
  BY <1>6
<1>8. d[j] \in FpsName
  BY <1>5, NamesOf
<1>9. /\ t.node[k].path = SubSeq(Path(d[j], q), 1, m)
      /\ t.node[k].leaf = (IF m = Len(Path(d[j], q)) THEN 1 ELSE 0)
      /\ t.node[k].leaf = 1 => t.node[k].pindex = q - 1
  BY <1>7 DEF From, Pre
<1>10. SubSeq(Path(d[j], q), 1, m)[1] = d[j] /\ Len(SubSeq(Path(d[j], q), 1, m)) = m
       /\ IsPrefix(SubSeq(Path(d[j], q), 1, m), Path(d[j], q))
  BY <1>6, <1>7, <1>8, Beginnings
<1>11. P[1] = d[j] /\ n = m /\ IsPrefix(P, Path(d[j], q))
  BY <1>4, <1>9, <1>10
<1>12. j = i
  BY <1>2, <1>5, <1>11, NamesOf
<1> HIDE DEF j
<1>13. t.node[k].fpsindex = i - 1
  <2>1. k \in Node /\ t \in Tree
    BY Constants DEF Upto, Tree, Below
  <2>2. t.node[k].fpsindex \in Nat
    BY <2>1, Fields
  <2> QED
    BY <1>12, <2>2 DEF j
<1>14. q \in 1 .. p - 1 \/ q = p
  <2>1. q \in 1 .. Len(Keyword[d[i]]) /\ Len(d) \in Nat
    BY <1>6, <1>12, NamesOf
  <2> HIDE DEF n
  <2> QED
    BY <1>1, <1>7, <1>12, <2>1 DEF Earlier
<1>15. ASSUME \A r \in 1 .. p - 1 : ~IsPrefix(P, Path(d[i], r))
       PROVE  t.node[k].leaf = 1 /\ t.node[k].pindex = p - 1
  <2>1. q = p
    BY <1>11, <1>12, <1>14, <1>15
  <2> QED
    BY <1>9, <1>11, <1>12, <2>1
<1> QED
  BY <1>4, <1>13, <1>15 DEF Placed

(* An entry. *)
LEMMA EntryTrue ==
  ASSUME NEW d, Names(d), NEW b \in Nat, Len(d) <= b, NEW i \in 1 .. Len(d),
         NEW p \in 1 .. Len(Keyword[d[i]]), NEW t, Upto(t, d, b, i, p, 0)
  PROVE  Upto(PlaceEntry(t, d, i, p), d, b, i, p + 1, 0)
<1> DEFINE n == Len(Path(d[i], p))
           G == [l \in 0 .. n |-> {v \in Tree : Upto(v, d, b, i, p, l)}]
           u == PlaceEntry(t, d, i, p)
<1>1. d[i] \in FpsName /\ Len(d) \in Nat
  BY NamesOf
<1>2. n \in Nat /\ Len(Keyword[d[i]]) \in Nat
  BY <1>1, Paths
<1>3. t \in G[0]
  <2>1. t \in Tree
    BY DEF Upto
  <2> QED
    BY <1>2, <2>1
<1>4. ASSUME NEW k \in 1 .. n, NEW v \in G[k - 1]
      PROVE  PlaceNode(v, EntrySteps(d, i, p)[k]) \in G[k]
  <2>1. k - 1 \in 0 .. n /\ k \in 0 .. n
    BY <1>2
  <2>2. Upto(v, d, b, i, p, k - 1)
    BY <2>1
  <2>3. Upto(PlaceNode(v, EntrySteps(d, i, p)[k]), d, b, i, p, k)
    BY <2>2, StepTrue
  <2>4. PlaceNode(v, EntrySteps(d, i, p)[k]) \in Tree
    BY <2>3 DEF Upto
  <2> QED
    BY <2>1, <2>3, <2>4
<1>5. \A k \in 1 .. n : \A v \in G[k - 1] : PlaceNode(v, EntrySteps(d, i, p)[k]) \in G[k]
  BY <1>4
<1>6. u \in G[n]
  <2> HIDE DEF G
  <2> QED
    BY <1>2, <1>3, <1>5, EntryLoop
<1> HIDE DEF u
<1>7. Upto(u, d, b, i, p, n)
  BY <1>2, <1>6
<1>8. Placed(u, d, i, p)
  BY <1>7, EntryPlaced
<1>9. \A j \in 1 .. Len(d) : \A q \in 1 .. Len(Keyword[d[j]]) :
        j < i \/ (j = i /\ q < p + 1) => Placed(u, d, j, q)
  <2> TAKE j \in 1 .. Len(d)
  <2> TAKE q \in 1 .. Len(Keyword[d[j]])
  <2>1. j < i \/ (j = i /\ q < p) => Placed(u, d, j, q)
    BY <1>7 DEF Upto
  <2>2. j = i /\ q < p + 1 => q < p \/ q = p
    BY <1>2
  <2> QED
    BY <1>8, <2>1, <2>2
<1>10. Origin(u, d, i, p + 1, 0)
  <2>1. \A j, q, m : q \in 1 .. Len(Keyword[d[j]]) /\ Earlier(j, q, m, i, p, n) =>
                       Earlier(j, q, m, i, p + 1, 0)
    BY <1>2 DEF Earlier
  <2>2. Origin(u, d, i, p, n)
    BY <1>7 DEF Upto
  <2> QED
    BY <2>1, <2>2 DEF Origin
<1>11. Upto(u, d, b, i, p + 1, 0)
  BY <1>7, <1>9, <1>10 DEF Upto
<1> QED
  BY <1>11 DEF u

(* The entries of an FPS. *)
LEMMA FpsTrue ==
  ASSUME NEW d, Names(d), NEW b \in Nat, Len(d) <= b, NEW i \in 1 .. Len(d),
         NEW t, Upto(t, d, b, i, 1, 0)
  PROVE  Upto(PlaceFps(t, d, i), d, b, i + 1, 1, 0)
<1> DEFINE n == Len(Keyword[d[i]])
           G == [p \in 0 .. n |-> {v \in Tree : Upto(v, d, b, i, p + 1, 0)}]
           u == PlaceFps(t, d, i)
<1>1. d[i] \in FpsName /\ Len(d) \in Nat
  BY NamesOf
<1>2. n \in Nat
  BY <1>1, TreeAssumption
<1>3. t \in G[0]
  <2>1. t \in Tree
    BY DEF Upto
  <2>2. 0 + 1 = 1 /\ 0 \in 0 .. n
    BY <1>2
  <2> QED
    BY <2>1, <2>2
<1>4. ASSUME NEW k \in 1 .. n, NEW v \in G[k - 1]
      PROVE  PlaceEntry(v, d, i, k) \in G[k]
  <2>1. k - 1 \in 0 .. n /\ k \in 0 .. n /\ (k - 1) + 1 = k
    BY <1>2
  <2>2. Upto(v, d, b, i, k, 0)
    BY <2>1
  <2>3. Upto(PlaceEntry(v, d, i, k), d, b, i, k + 1, 0)
    BY <2>2, EntryTrue
  <2>4. PlaceEntry(v, d, i, k) \in Tree
    BY <2>3 DEF Upto
  <2> QED
    BY <2>1, <2>3, <2>4
<1>5. \A k \in 1 .. n : \A v \in G[k - 1] : PlaceEntry(v, d, i, k) \in G[k]
  BY <1>4
<1>6. u \in G[n]
  <2> HIDE DEF G
  <2> QED
    BY <1>2, <1>3, <1>5, FpsLoop
<1> HIDE DEF u
<1>7. Upto(u, d, b, i, n + 1, 0)
  BY <1>2, <1>6
<1>8. \A j \in 1 .. Len(d) : \A q \in 1 .. Len(Keyword[d[j]]) :
        j < i + 1 \/ (j = i + 1 /\ q < 1) => Placed(u, d, j, q)
  <2> TAKE j \in 1 .. Len(d)
  <2> TAKE q \in 1 .. Len(Keyword[d[j]])
  <2>1. j < i \/ (j = i /\ q < n + 1) => Placed(u, d, j, q)
    BY <1>7 DEF Upto
  <2>2. j = i => q < n + 1
    BY <1>2
  <2> QED
    BY <2>1, <2>2
<1>9. Origin(u, d, i + 1, 1, 0)
  <2>1. \A j, q, m : j \in 1 .. Len(d) /\ Earlier(j, q, m, i, n + 1, 0) =>
                       Earlier(j, q, m, i + 1, 1, 0)
    BY <1>1 DEF Earlier
  <2>2. Origin(u, d, i, n + 1, 0)
    BY <1>7 DEF Upto
  <2> QED
    BY <2>1, <2>2 DEF Origin
<1>10. Upto(u, d, b, i + 1, 1, 0)
  BY <1>7, <1>8, <1>9 DEF Upto
<1> QED
  BY <1>10 DEF u

(* The directory, whatever tree was there before.                          *)
LEMMA BuildTrue ==
  ASSUME NEW d, Names(d), NEW b \in Nat, Len(d) <= b, keywnode \in [Node -> NodeRec],
         \A k \in Node : keywnode[k].fpsindex < b
  PROVE  Upto(Build(d), d, b, Len(d) + 1, 1, 0)
<1> DEFINE n == Len(d)
           base == [node |-> Cleared(keywnode), NBkwn |-> 1]
           G == [i \in 0 .. n |-> {v \in Tree : Upto(v, d, b, i + 1, 1, 0)}]
           u == Build(d)
<1>1. n \in Nat
  BY NamesOf
<1>2. /\ Cleared(keywnode) \in [Node -> NodeRec] /\ Cleared(keywnode)[0].path = <<>>
      /\ \A k \in Node : /\ Cleared(keywnode)[k].NBchild = 0
                         /\ Cleared(keywnode)[k].fpsindex = keywnode[k].fpsindex
  <2>1. ASSUME NEW k \in Node
        PROVE  /\ Cleared(keywnode)[k] \in NodeRec /\ Cleared(keywnode)[k].NBchild = 0
               /\ Cleared(keywnode)[k].fpsindex = keywnode[k].fpsindex
               /\ k = 0 => Cleared(keywnode)[k].path = <<>>
    <3>1. keywnode[k] \in NodeRec /\ 0 \in 0 .. MaxChild - 1
      BY Constants
    <3>2. CASE k = 0
      <4>1. Cleared(keywnode)[k] = [keywnode[k] EXCEPT !.NBchild = 0, !.leaf = 0, !.path = <<>>]
        BY <3>2 DEF Cleared
      <4> QED
        BY <3>1, <4>1 DEF NodeRec
    <3>3. CASE k # 0
      <4>1. Cleared(keywnode)[k] = [keywnode[k] EXCEPT !.NBchild = 0]
        BY <3>3 DEF Cleared
      <4> QED
        BY <3>1, <3>3, <4>1 DEF NodeRec
    <3> QED
      BY <3>2, <3>3
  <2>2. DOMAIN Cleared(keywnode) = Node /\ Cleared(keywnode) = [k \in Node |-> Cleared(keywnode)[k]]
    BY DEF Cleared
  <2> QED
    BY <2>1, <2>2, Constants
<1>3. Upto(base, d, b, 1, 1, 0)
  <2>1. base.node = Cleared(keywnode) /\ base.NBkwn = 1 /\ base \in Tree
    BY <1>2, Constants DEF Tree
  <2> HIDE DEF base
  <2>2. Below(base) = {} /\ \A k \in 0 .. base.NBkwn - 1 : k = 0 /\ k \in Node
    BY <2>1, Constants DEF Below
  <2>3. \A k \in base.NBkwn .. NBnode - 1 : k \in Node
    BY <2>1, Constants
  <2>4. Shape(base)
    BY <1>2, <2>1, <2>2, <2>3 DEF Shape
  <2>5. Origin(base, d, 1, 1, 0)
    BY <2>2 DEF Origin
  <2>6. \A j \in 1 .. Len(d) : \A q \in 1 .. Len(Keyword[d[j]]) : ~(j < 1 \/ (j = 1 /\ q < 1))
    OBVIOUS
  <2> QED
    BY <1>2, <2>1, <2>4, <2>5, <2>6 DEF Upto
<1>4. base \in G[0]
  <2>1. base \in Tree
    BY <1>3 DEF Upto
  <2>2. 0 + 1 = 1 /\ 0 \in 0 .. n
    BY <1>1
  <2> HIDE DEF base
  <2> QED
    BY <1>3, <2>1, <2>2
<1>5. ASSUME NEW k \in 1 .. n, NEW v \in G[k - 1]
      PROVE  PlaceFps(v, d, k) \in G[k]
  <2>1. k - 1 \in 0 .. n /\ k \in 0 .. n /\ (k - 1) + 1 = k
    BY <1>1
  <2>2. Upto(v, d, b, k, 1, 0)
    BY <2>1
  <2>3. Upto(PlaceFps(v, d, k), d, b, k + 1, 1, 0)
    BY <2>2, FpsTrue
  <2>4. PlaceFps(v, d, k) \in Tree
    BY <2>3 DEF Upto
  <2> QED
    BY <2>1, <2>3, <2>4
<1>6. \A k \in 1 .. n : \A v \in G[k - 1] : PlaceFps(v, d, k) \in G[k]
  BY <1>5
<1>7. u \in G[n]
  <2>1. base = [node |-> Cleared(keywnode), NBkwn |-> 1]
    OBVIOUS
  <2> HIDE DEF G, base
  <2> QED
    BY <1>1, <1>4, <1>6, <2>1, BuildLoop
<1> HIDE DEF u
<1>8. Upto(u, d, b, n + 1, 1, 0)
  BY <1>1, <1>7
<1> QED
  BY <1>8 DEF u

-----------------------------------------------------------------------------
(* Directories and numbers.                                                *)

(* There are two nodes at least: the tree has room for a path. *)
LEMMA One == 1 \in Node /\ 0 \in Level /\ \A q \in TreePaths \cup {<<>>} : Len(q) \in Level
<1>1. PICK f \in FpsName : Len(Keyword[f]) > 0
  BY TreeAssumption
<1>2. 1 \in 1 .. Len(Keyword[f])
  BY <1>1, TreeAssumption
<1>3. 1 \in 1 .. Len(Path(f, 1))
  BY <1>2, Paths
<1>4. SubSeq(Path(f, 1), 1, 1) \in TreePaths
  BY <1>2, <1>3, Beginnings
<1>5. Cardinality(TreePaths) \in Nat /\ Cardinality(TreePaths) # 0 /\ Cardinality(TreePaths) < NBnode
  BY <1>4, RoomAssumption, FS_CardinalityType, FS_EmptySet
<1> DEFINE c == Cardinality(TreePaths)
<1>6. c \in Nat /\ c # 0 /\ c < NBnode
  BY <1>5
<1> HIDE DEF c
<1>7. 1 \in Node
  BY <1>6, Constants
<1>8. 0 \in Level
  BY TreeAssumption DEF Level
<1> QED
  BY <1>7, <1>8, RoomAssumption

(* The largest and the smallest of a few numbers. *)
LEMMA Extremes ==
  /\ \A a, b \in Int : Max({a, b}) \in {a, b} /\ Max({a, b}) >= a /\ Max({a, b}) >= b
  /\ \A a, b \in Int : Min({a, b}) \in {a, b} /\ Min({a, b}) <= a /\ Min({a, b}) <= b
  /\ \A a, b, c \in Int : Min({a, b, c}) \in {a, b, c}
                         /\ Min({a, b, c}) <= a /\ Min({a, b, c}) <= b /\ Min({a, b, c}) <= c
  /\ \A a, b, c \in Int : Max({a, b, c}) \in {a, b, c}
<1>1. ASSUME NEW a \in Int, NEW b \in Int
      PROVE  \E x \in {a, b} : \A y \in {a, b} : x >= y
  <2>1. CASE a >= b
    BY <2>1
  <2>2. CASE b >= a
    BY <2>2
  <2> QED
    BY <2>1, <2>2
<1>2. ASSUME NEW a \in Int, NEW b \in Int
      PROVE  \E x \in {a, b} : \A y \in {a, b} : x <= y
  <2>1. CASE a <= b
    BY <2>1
  <2>2. CASE b <= a
    BY <2>2
  <2> QED
    BY <2>1, <2>2
<1>3. ASSUME NEW a \in Int, NEW b \in Int, NEW c \in Int
      PROVE  \E x \in {a, b, c} : \A y \in {a, b, c} : x <= y
  <2>1. CASE a <= b /\ a <= c
    BY <2>1
  <2>2. CASE b <= a /\ b <= c
    BY <2>2
  <2>3. CASE c <= a /\ c <= b
    BY <2>3
  <2> QED
    BY <2>1, <2>2, <2>3
<1>4. ASSUME NEW a \in Int, NEW b \in Int, NEW c \in Int
      PROVE  \E x \in {a, b, c} : \A y \in {a, b, c} : x >= y
  <2>1. CASE a >= b /\ a >= c
    BY <2>1
  <2>2. CASE b >= a /\ b >= c
    BY <2>2
  <2>3. CASE c >= a /\ c >= b
    BY <2>3
  <2> QED
    BY <2>1, <2>2, <2>3
<1>5. \A a, b \in Int : Max({a, b}) \in {a, b} /\ \A y \in {a, b} : Max({a, b}) >= y
  BY <1>1 DEF Max
<1>6. \A a, b \in Int : Min({a, b}) \in {a, b} /\ \A y \in {a, b} : Min({a, b}) <= y
  BY <1>2 DEF Min
<1>7. \A a, b, c \in Int : Min({a, b, c}) \in {a, b, c} /\ \A y \in {a, b, c} : Min({a, b, c}) <= y
  BY <1>3 DEF Min
<1>8. \A a, b, c \in Int : Max({a, b, c}) \in {a, b, c}
  BY <1>4 DEF Max
<1> QED
  BY <1>5, <1>6, <1>7, <1>8

(* Different names are no more than there are. *)
LEMMA IsNames ==
  ASSUME NEW d \in Seq(FpsName), \A i, j \in 1 .. Len(d) : d[i] = d[j] => i = j
  PROVE  Names(d)
<1>1. d \in [1 .. Len(d) -> FpsName] /\ Len(d) \in Nat /\ DOMAIN d = 1 .. Len(d)
  OBVIOUS
<1>2. IsInjective(d)
  BY <1>1 DEF IsInjective
<1>3. d \in Injection(1 .. Len(d), FpsName)
  BY <1>1, <1>2 DEF Injection
<1>4. Cardinality(1 .. Len(d)) <= Cardinality(FpsName)
  BY <1>3, TreeAssumption, FS_Injection
<1>5. Cardinality(1 .. Len(d)) = Len(d)
  <2> DEFINE n == Len(d)
  <2>1. n \in Nat
    OBVIOUS
  <2> HIDE DEF n
  <2>2. Cardinality(1 .. n) = n
    BY <2>1, FS_Interval
  <2> QED
    BY <2>2 DEF n
<1>6. Len(d) \in 0 .. NBmax
  BY <1>1, <1>4, <1>5, Constants DEF NBmax
<1> QED
  BY <1>1, <1>2, <1>6 DEF Names, SeqOf

(* An FPS that goes leaves a list of different names. *)
LEMMA WithoutNames ==
  ASSUME Names(dir), NEW f
  PROVE  Names(Without(f))
<1>1. /\ dir \in Seq(FpsName) /\ Len(dir) \in Nat /\ DOMAIN dir = 1 .. Len(dir)
      /\ \A i, j \in 1 .. Len(dir) : dir[i] = dir[j] => i = j
  BY NamesOf
<1>2. CASE \E n \in DOMAIN dir : dir[n] = f
  <2>1. PICK n \in DOMAIN dir : n = CHOOSE m \in DOMAIN dir : dir[m] = f
    BY <1>2
  <2> DEFINE a == SubSeq(dir, 1, n - 1)
             b == SubSeq(dir, n + 1, Len(dir))
             r == a \o b
  <2>2. Without(f) = r
    BY <1>2, <2>1 DEF Without, RemoveAt
  <2>3. /\ n \in 1 .. Len(dir) /\ a \in Seq(FpsName) /\ Len(a) = n - 1
        /\ \A i \in 1 .. n - 1 : a[i] = dir[i]
    BY <1>1
  <2>4. /\ b \in Seq(FpsName) /\ Len(b) = Len(dir) - n
        /\ \A i \in 1 .. Len(dir) - n : b[i] = dir[i + n]
    BY <1>1, <2>3
  <2> HIDE DEF a, b
  <2>5. /\ r \in Seq(FpsName) /\ Len(r) = Len(a) + Len(b)
        /\ \A i \in 1 .. Len(a) + Len(b) : r[i] = IF i <= Len(a) THEN a[i] ELSE b[i - Len(a)]
    BY <2>3, <2>4, ConcatProperties
  <2> HIDE DEF r
  <2>6. Len(r) = Len(dir) - 1
    BY <1>1, <2>3, <2>4, <2>5
  <2>8. ASSUME NEW i \in 1 .. Len(dir) - 1
        PROVE  r[i] = IF i < n THEN dir[i] ELSE dir[i + 1]
    <3>1. i \in 1 .. Len(a) + Len(b)
      BY <1>1, <2>3, <2>4
    <3>2. CASE i < n
      <4>1. i <= Len(a) /\ i \in 1 .. n - 1
        BY <2>3, <3>2
      <4> QED
        BY <2>3, <2>5, <3>1, <3>2, <4>1
    <3>3. CASE i >= n
      <4>1. ~(i <= Len(a)) /\ ~(i < n) /\ i - Len(a) \in 1 .. Len(dir) - n /\ (i - Len(a)) + n = i + 1
        BY <1>1, <2>3, <3>3
      <4> QED
        BY <2>4, <2>5, <3>1, <4>1
    <3> QED
      BY <1>1, <2>3, <3>2, <3>3
  <2>9. \A i, j \in 1 .. Len(dir) - 1 : r[i] = r[j] => i = j
    <3> TAKE i, j \in 1 .. Len(dir) - 1
    <3>1. i \in 1 .. Len(dir) /\ i + 1 \in 1 .. Len(dir) /\ j \in 1 .. Len(dir) /\ j + 1 \in 1 .. Len(dir)
      BY <1>1
    <3>2. CASE i < n /\ j < n
      BY <1>1, <2>8, <3>1, <3>2
    <3>3. CASE i < n /\ ~(j < n)
      BY <1>1, <2>3, <2>8, <3>1, <3>3
    <3>4. CASE ~(i < n) /\ j < n
      BY <1>1, <2>3, <2>8, <3>1, <3>4
    <3>5. CASE ~(i < n) /\ ~(j < n)
      BY <1>1, <2>8, <3>1, <3>5
    <3> QED
      BY <3>2, <3>3, <3>4, <3>5
  <2> QED
    BY <2>2, <2>5, <2>6, <2>9, IsNames
<1>3. CASE ~(\E n \in DOMAIN dir : dir[n] = f)
  BY <1>3 DEF Without
<1> QED
  BY <1>2, <1>3

(* So does one that comes. *)
LEMMA InsertNames ==
  ASSUME Names(dir), NEW f \in FpsName, \A i \in DOMAIN dir : dir[i] # f, NEW n \in 1 .. Len(dir) + 1
  PROVE  Names(InsertAt(dir, n, f)) /\ Len(InsertAt(dir, n, f)) = Len(dir) + 1
<1> DEFINE a == SubSeq(dir, 1, n - 1)
           b == SubSeq(dir, n, Len(dir))
           r == a \o <<f>> \o b
<1>1. /\ dir \in Seq(FpsName) /\ Len(dir) \in Nat /\ DOMAIN dir = 1 .. Len(dir)
      /\ \A i, j \in 1 .. Len(dir) : dir[i] = dir[j] => i = j
  BY NamesOf
<1>2. InsertAt(dir, n, f) = r
  BY DEF InsertAt
<1>3. a \in Seq(FpsName) /\ Len(a) = n - 1 /\ \A i \in 1 .. n - 1 : a[i] = dir[i]
  BY <1>1
<1>4. /\ b \in Seq(FpsName) /\ Len(b) = Len(dir) - n + 1
      /\ \A i \in 1 .. Len(dir) - n + 1 : b[i] = dir[i + n - 1]
  BY <1>1
<1> HIDE DEF a, b
<1>5. PICK one \in Seq(FpsName) : one = <<f>> /\ Len(one) = 1 /\ one[1] = f
  <2>1. <<f>> \in Seq(FpsName)
    OBVIOUS
  <2>2. Len(<<f>>) = 1 /\ <<f>>[1] = f
    OBVIOUS
  <2> QED
    BY <2>1, <2>2
<1> DEFINE e == one \o b
<1>6. /\ e \in Seq(FpsName) /\ Len(e) = Len(b) + 1 /\ e[1] = f
      /\ \A i \in 2 .. Len(b) + 1 : e[i] = b[i - 1]
  <2>1. one \in Seq(FpsName) /\ b \in Seq(FpsName) /\ Len(one) = 1
    BY <1>4, <1>5
  <2>2. /\ e \in Seq(FpsName) /\ Len(e) = Len(one) + Len(b)
        /\ \A i \in 1 .. Len(one) + Len(b) : e[i] = IF i <= Len(one) THEN one[i] ELSE b[i - Len(one)]
    BY <2>1, ConcatProperties
  <2> HIDE DEF e
  <2>3. Len(b) \in Nat
    BY <1>4
  <2>4. 1 \in 1 .. Len(one) + Len(b) /\ e[1] = f
    BY <1>5, <2>1, <2>2, <2>3
  <2>5. \A i \in 2 .. Len(b) + 1 : i \in 1 .. Len(one) + Len(b) /\ ~(i <= Len(one))
    BY <2>1, <2>3
  <2> QED
    BY <2>1, <2>2, <2>3, <2>4, <2>5
<1>7. r = a \o e
  <2>1. r = (a \o one) \o b
    BY <1>5
  <2> HIDE DEF r
  <2> QED
    BY <1>3, <1>4, <1>5, <2>1, ConcatAssociative
<1> HIDE DEF e, r
<1>8. /\ r \in Seq(FpsName) /\ Len(r) = Len(a) + Len(e)
      /\ \A i \in 1 .. Len(a) + Len(e) : r[i] = IF i <= Len(a) THEN a[i] ELSE e[i - Len(a)]
  BY <1>3, <1>6, <1>7, ConcatProperties
<1>9. Len(r) = Len(dir) + 1
  BY <1>1, <1>3, <1>4, <1>6, <1>8
<1>10. ASSUME NEW i \in 1 .. Len(dir) + 1
       PROVE  r[i] = IF i < n THEN dir[i] ELSE IF i = n THEN f ELSE dir[i - 1]
  <2>1. i \in 1 .. Len(a) + Len(e)
    BY <1>1, <1>3, <1>4, <1>6
  <2>2. CASE i < n
    <3>1. i <= Len(a) /\ i \in 1 .. n - 1
      BY <1>3, <2>2
    <3>2. r[i] = a[i]
      BY <1>8, <2>1, <3>1
    <3>3. a[i] = dir[i]
      BY <1>3, <3>1
    <3> QED
      BY <2>2, <3>2, <3>3
  <2>3. CASE i = n
    <3>1. ~(i <= Len(a)) /\ ~(i < n) /\ i - Len(a) = 1
      BY <1>3, <2>3
    <3> QED
      BY <1>6, <1>8, <2>1, <2>3, <3>1
  <2>4. CASE i > n
    <3>1. ~(i <= Len(a)) /\ ~(i < n) /\ i # n /\ i - Len(a) \in 2 .. Len(b) + 1
      BY <1>1, <1>3, <1>4, <2>4
    <3>2. (i - Len(a)) - 1 \in 1 .. Len(dir) - n + 1 /\ ((i - Len(a)) - 1) + n - 1 = i - 1
      BY <1>1, <1>3, <2>4
    <3> QED
      BY <1>4, <1>6, <1>8, <2>1, <3>1, <3>2
  <2> QED
    BY <2>2, <2>3, <2>4
<1>11. \A i, j \in 1 .. Len(dir) + 1 : r[i] = r[j] => i = j
  <2> TAKE i, j \in 1 .. Len(dir) + 1
  <2>1. /\ i < n => i \in 1 .. Len(dir)
        /\ i > n => i - 1 \in 1 .. Len(dir)
        /\ j < n => j \in 1 .. Len(dir)
        /\ j > n => j - 1 \in 1 .. Len(dir)
    BY <1>1
  <2>2. CASE i = n \/ j = n
    BY <1>1, <1>10, <2>1, <2>2
  <2>3. CASE i < n /\ j < n
    BY <1>1, <1>10, <2>1, <2>3
  <2>4. CASE i < n /\ j > n
    BY <1>1, <1>10, <2>1, <2>4
  <2>5. CASE i > n /\ j < n
    BY <1>1, <1>10, <2>1, <2>5
  <2>6. CASE i > n /\ j > n
    BY <1>1, <1>10, <2>1, <2>6
  <2> QED
    BY <2>2, <2>3, <2>4, <2>5, <2>6
<1> QED
  BY <1>2, <1>8, <1>9, <1>11, IsNames

(* The number of parameters of a directory. *)
LEMMA ParametersCount ==
  ASSUME NEW d, Names(d)
  PROVE  Parameters(d) \in Nat
<1> DEFINE n == Len(d)
           Made(f) == f = [i \in 0 .. n |-> IF i = 0 THEN 0 ELSE f[i - 1] + Len(Keyword[d[i]])]
           G == [i \in 0 .. n |-> Nat]
<1>1. n \in Nat /\ \A i \in 1 .. n : Len(Keyword[d[i]]) \in Nat
  BY NamesOf, TreeAssumption
<1>2. PICK F : F = [x \in Nat \X (1 .. n) |-> x[1] + Len(Keyword[d[x[2]]])]
  OBVIOUS
<1>3. ASSUME NEW k \in 1 .. n, NEW u \in Nat
      PROVE  F[<<u, k>>] = u + Len(Keyword[d[k]]) /\ F[<<u, k>>] \in Nat
  <2>1. <<u, k>> \in Nat \X (1 .. n) /\ <<u, k>>[1] = u /\ <<u, k>>[2] = k
    OBVIOUS
  <2>2. F[<<u, k>>] = u + Len(Keyword[d[k]])
    BY <1>2, <2>1
  <2> QED
    BY <1>1, <2>2
<1>4. Goes(n, 0, F, G, Nat)
  <2>1. \A k \in 1 .. n : G[k - 1] = Nat /\ G[k] = Nat
    BY <1>1
  <2>2. G[0] = Nat
    BY <1>1
  <2> QED
    BY <1>1, <1>3, <2>1, <2>2 DEF Goes
<1>5. PICK f \in [0 .. n -> Nat] : f[0] = 0 /\ \A k \in 1 .. n : f[k] = F[<<f[k - 1], k>>]
  <2> HIDE DEF G, n
  <2> QED
    BY <1>4, Loop
<1>6. ASSUME NEW k \in 0 .. n
      PROVE  f[k] = IF k = 0 THEN 0 ELSE f[k - 1] + Len(Keyword[d[k]])
  <2>1. CASE k = 0
    BY <1>5, <2>1
  <2>2. CASE k # 0
    <3>1. k \in 1 .. n /\ k - 1 \in 0 .. n
      BY <1>1, <2>2
    <3> QED
      BY <1>3, <1>5, <2>2, <3>1
  <2> QED
    BY <2>1, <2>2
<1>7. Made(f)
  BY <1>5, <1>6
<1> HIDE DEF Made
<1>8. \E h : Made(h)
  BY <1>7
<1> DEFINE g == CHOOSE h : Made(h)
<1>9. Made(g)
  BY <1>8
<1>10. Parameters(d) = g[n]
  BY DEF Parameters, Made
<1> HIDE DEF g
<1>11. g[0] = 0 /\ \A k \in 1 .. n : g[k] = g[k - 1] + Len(Keyword[d[k]])
  <2>1. \A k \in 1 .. n : k \in 0 .. n /\ k # 0
    BY <1>1
  <2> QED
    BY <1>1, <1>9, <2>1 DEF Made
<1>12. \A k \in 1 .. n : g[k - 1] \in G[k - 1] => g[k] \in G[k]
  <2>1. \A k \in 1 .. n : k - 1 \in 0 .. n /\ k \in 0 .. n
    BY <1>1
  <2> QED
    BY <1>1, <1>11, <2>1
<1>13. \A k \in 0 .. n : g[k] \in G[k]
  <2>1. g[0] \in G[0]
    BY <1>1, <1>11
  <2> HIDE DEF G
  <2> QED
    BY <1>1, <1>12, <2>1, Reaches
<1> QED
  BY <1>1, <1>10, <1>13

-----------------------------------------------------------------------------
(* Types.                                                                  *)

FpsRec == [name : FpsName \cup {None}, open : BOOLEAN, mapped : BOOLEAN]
TaskRec == [fpsindex : FpsIndex, name : FpsName]
Place == {"start", "key", "fifo", "screen", "exiting", "exit", "crash"}

Types ==
  /\ Names(dir)
  /\ fps \in [FpsIndex -> FpsRec] /\ keywnode \in [Node -> NodeRec] /\ NBkwn \in 0 .. NBnode
  /\ NBfps \in 0 .. NBmax /\ NBindex \in Nat
  /\ nodeSelected \in Node /\ directorynodeSelected \in Node /\ currentlevel \in Level
  /\ GUIlineSelected \in [Level -> -1 .. MaxChild - 1]
  /\ fpsindexSelected \in FpsIndex /\ pindexSelected \in Nat
  /\ task \in TaskRec \cup {None}
  /\ pc \in Place

TreeNow == [node |-> keywnode, NBkwn |-> NBkwn]

(* A node of the array. *)
LEMMA NodeTypes ==
  ASSUME Types, NEW k \in Node
  PROVE  /\ k \in Nat /\ keywnode[k] \in NodeRec
         /\ keywnode[k].path \in TreePaths \cup {<<>>} /\ keywnode[k].leaf \in {0, 1}
         /\ keywnode[k].fpsindex \in FpsIndex /\ keywnode[k].fpsindex \in Nat
         /\ keywnode[k].pindex \in Nat /\ keywnode[k].parent \in Node
         /\ keywnode[k].NBchild \in 0 .. MaxChild - 1 /\ keywnode[k].NBchild \in Nat
         /\ keywnode[k].child \in [0 .. MaxChild - 1 -> Node]
         /\ Len(keywnode[k].path) \in Level
         /\ \A c \in 0 .. keywnode[k].NBchild : keywnode[k].child[c] \in Node
<1>1. TreeNow \in Tree /\ TreeNow.node = keywnode
  BY DEF TreeNow, Tree, Types
<1> HIDE DEF TreeNow
<1>2. /\ k \in Nat /\ keywnode[k] \in NodeRec
      /\ keywnode[k].path \in TreePaths \cup {<<>>} /\ keywnode[k].leaf \in {0, 1}
      /\ keywnode[k].fpsindex \in FpsIndex /\ keywnode[k].fpsindex \in Nat
      /\ keywnode[k].pindex \in Nat /\ keywnode[k].parent \in Node
      /\ keywnode[k].NBchild \in 0 .. MaxChild - 1 /\ keywnode[k].NBchild \in Nat
      /\ keywnode[k].child \in [0 .. MaxChild - 1 -> Node]
  BY <1>1, Fields
<1>3. \A c \in 0 .. keywnode[k].NBchild : c \in 0 .. MaxChild - 1
  BY <1>2, Constants
<1> QED
  BY <1>2, <1>3, One

(* What a scan leaves: the tree of its directory, and its FPSs connected. *)
LEMMA ScanMakes ==
  ASSUME Types, NEW d, Names(d), NEW fs \in [FpsIndex -> FpsRec], Scan(d, fs), NEW b \in Nat,
         Len(d) <= b, \A k \in Node : keywnode[k].fpsindex < b
  PROVE  /\ fps' \in [FpsIndex -> FpsRec] /\ keywnode' \in [Node -> NodeRec]
         /\ NBkwn' \in 0 .. NBnode /\ NBfps' \in 0 .. NBmax /\ NBfps' = Len(d)
         /\ \A i \in 0 .. Len(d) - 1 : fps'[i].name = d[i + 1] /\ fps'[i].mapped
         /\ Upto(TreeNow', d, b, Len(d) + 1, 1, 0)
<1> DEFINE t == Build(d)
<1>1. Upto(t, d, b, Len(d) + 1, 1, 0)
  BY BuildTrue DEF Types
<1>2. fps' = Connected(d, fs) /\ keywnode' = t.node /\ NBkwn' = t.NBkwn /\ NBfps' = Len(d)
  BY DEF Scan
<1> HIDE DEF t
<1>3. t \in Tree
  BY <1>1 DEF Upto
<1>4. t = TreeNow' /\ keywnode' \in [Node -> NodeRec] /\ NBkwn' \in 0 .. NBnode
  BY <1>2, <1>3 DEF Tree, TreeNow
<1>5. /\ Len(d) \in 0 .. NBmax /\ \A i \in 0 .. Len(d) - 1 : i + 1 \in 1 .. Len(d) /\ i \in FpsIndex
      /\ \A i \in FpsIndex : i < Len(d) => i + 1 \in 1 .. Len(d)
  BY NamesOf, Constants
<1> DEFINE C(n) == [name |-> n, open |-> TRUE, mapped |-> TRUE]
<1>6. \A i \in FpsIndex : Connected(d, fs)[i] = IF i < Len(d) THEN C(d[i + 1]) ELSE Disconnected(fs[i])
  BY DEF Connected
<1>11. \A n : C(n).name = n /\ C(n).mapped = TRUE
  OBVIOUS
<1>12. \A n \in FpsName : C(n) \in FpsRec
  BY DEF FpsRec
<1> HIDE DEF C
<1>7. \A f \in FpsRec : Disconnected(f) \in FpsRec
  BY DEF Disconnected, FpsRec
<1>8. ASSUME NEW i \in FpsIndex
      PROVE  Connected(d, fs)[i] \in FpsRec
  <2>1. CASE i < Len(d)
    <3>1. d[i + 1] \in FpsName
      BY <1>5, <2>1, NamesOf
    <3> QED
      BY <1>6, <1>12, <2>1, <3>1
  <2>2. CASE ~(i < Len(d))
    BY <1>6, <1>7, <2>2
  <2> QED
    BY <2>1, <2>2
<1>9. Connected(d, fs) \in [FpsIndex -> FpsRec]
  BY <1>8 DEF Connected
<1>10. \A i \in 0 .. Len(d) - 1 : fps'[i].name = d[i + 1] /\ fps'[i].mapped
  BY <1>2, <1>5, <1>6, <1>11
<1> QED
  BY <1>1, <1>2, <1>4, <1>5, <1>9, <1>10

(* The largest bound: all indices. *)
LEMMA ScanTypes ==
  ASSUME Types, NEW d, Names(d), NEW fs \in [FpsIndex -> FpsRec], Scan(d, fs)
  PROVE  /\ fps' \in [FpsIndex -> FpsRec] /\ keywnode' \in [Node -> NodeRec]
         /\ NBkwn' \in 0 .. NBnode /\ NBfps' \in 0 .. NBmax /\ NBfps' = Len(d)
         /\ \A i \in 0 .. Len(d) - 1 : fps'[i].name = d[i + 1] /\ fps'[i].mapped
         /\ Upto(TreeNow', d, NBmax, Len(d) + 1, 1, 0)
<1>1. NBmax \in Nat /\ Len(d) <= NBmax
  BY Constants, NamesOf
<1>2. \A k \in Node : keywnode[k].fpsindex < NBmax
  <2>1. \A k \in Node : keywnode[k].fpsindex \in FpsIndex
    BY NodeTypes
  <2> QED
    BY <2>1, Constants
<1> QED
  BY <1>1, <1>2, ScanMakes

(* An FPS that is removed stays in the list. *)
LEMMA ForgottenTypes ==
  ASSUME Types, NEW i \in FpsIndex
  PROVE  /\ Forgotten(i) \in [FpsIndex -> FpsRec]
         /\ \A j \in FpsIndex : Forgotten(i)[j].name = fps[j].name /\ Forgotten(i)[j].mapped = fps[j].mapped
<1>1. fps \in [FpsIndex -> FpsRec] /\ fps[i] \in FpsRec
  BY DEF Types
<1>2. [fps[i] EXCEPT !.open = FALSE] \in FpsRec
      /\ [fps[i] EXCEPT !.open = FALSE].name = fps[i].name
      /\ [fps[i] EXCEPT !.open = FALSE].mapped = fps[i].mapped
  BY <1>1 DEF FpsRec
<1>3. Forgotten(i) = [fps EXCEPT ![i] = [fps[i] EXCEPT !.open = FALSE]]
  BY <1>1 DEF Forgotten
<1> QED
  BY <1>1, <1>2, <1>3

(* Commands.  The index that a task takes is that of a node. *)
LEMMA CommandTypes ==
  ASSUME Types, Command
  PROVE  /\ Names(dir') /\ fps' \in [FpsIndex -> FpsRec] /\ task' \in TaskRec \cup {None}
         /\ \A j \in FpsIndex : fps'[j].name = fps[j].name /\ fps'[j].mapped = fps[j].mapped
<1>1. \A f : Entry(f) \subseteq FpsIndex
  <2>1. \A k \in 0 .. NBkwn - 1 : k \in Node
    BY Constants DEF Types
  <2> QED
    BY <2>1, NodeTypes DEF Entry
<1>2. CASE NoCommand
  BY <1>2 DEF NoCommand, Types
<1>3. ASSUME NEW f \in FpsName, Launch(f)
      PROVE  /\ dir' = dir /\ fps' = fps /\ task' \in TaskRec
  BY <1>1, <1>3 DEF Launch, TaskRec
<1>4. ASSUME NEW f \in FpsName, Fpsrm(f)
      PROVE  /\ Names(dir') /\ fps' \in [FpsIndex -> FpsRec] /\ task' = task
             /\ \A j \in FpsIndex : fps'[j].name = fps[j].name /\ fps'[j].mapped = fps[j].mapped
  <2>1. PICK i \in Entry(f) : dir' = Without(fps[i].name) /\ fps' = Forgotten(i)
    BY <1>4 DEF Fpsrm
  <2>2. i \in FpsIndex
    BY <1>1, <2>1
  <2>3. task' = task
    BY <1>4 DEF Fpsrm
  <2>4. Names(Without(fps[i].name))
    BY WithoutNames DEF Types
  <2> QED
    BY <2>1, <2>2, <2>3, <2>4, ForgottenTypes
<1>5. CASE \E f \in FpsName : Launch(f)
  BY <1>3, <1>5 DEF Types
<1>6. CASE \E f \in FpsName : Fpsrm(f)
  BY <1>4, <1>6 DEF Types
<1> QED
  BY <1>2, <1>5, <1>6 DEF Command

(* Keys and screens that leave all of this alone, but for the place. *)
Still == UNCHANGED <<scanVars, selVars, editVars, task, dir>> /\ pc' \in Place

(* Such steps keep the types. *)
LEMMA StillTypes == Types /\ Still => Types'
  BY DEF Types, Still, scanVars, selVars, editVars, Names, SeqOf, IsInjective

(* The line that a key selects is on the longest list. *)
LEMMA KeyLine ==
  ASSUME Types, NEW n \in Line, NEW k \in Node
  PROVE  /\ Max({line - n, 0}) \in -1 .. MaxChild - 1
         /\ Min({line + n, NBindex - 1, keywnode[k].NBchild - 1}) \in -1 .. MaxChild - 1
<1>1. /\ n \in Nat \ {0} /\ line \in -1 .. MaxChild - 1 /\ NBindex \in Nat /\ MaxChild \in Nat \ {0}
      /\ keywnode[k].NBchild \in 0 .. MaxChild - 1
  BY TreeAssumption, Constants, NodeTypes DEF Types, line
<1> DEFINE a == line - n
           b == line + n
           c == keywnode[k].NBchild - 1
           e == NBindex - 1
<1>2. /\ a \in Int /\ a < MaxChild /\ b \in Int /\ b >= -1 /\ c \in Int /\ c >= -1 /\ c < MaxChild
      /\ e \in Int /\ e >= -1
  BY <1>1
<1> HIDE DEF a, b, c, e
<1>3. Max({a, 0}) \in {a, 0} /\ Max({a, 0}) >= 0
  BY <1>2, Extremes
<1>4. Min({b, e, c}) \in {b, e, c} /\ Min({b, e, c}) <= c
  BY <1>2, Extremes
<1>5. Max({a, 0}) \in -1 .. MaxChild - 1 /\ Min({b, e, c}) \in -1 .. MaxChild - 1
  BY <1>1, <1>2, <1>3, <1>4
<1> QED
  BY <1>5 DEF a, b, c, e

(* So is the line that the screen selects. *)
LEMMA ScreenLine ==
  ASSUME Types, NEW k \in Node
  PROVE  /\ SelectedLine(k) \in -1 .. MaxChild - 1 /\ SelectedLine(k) <= keywnode[k].NBchild - 1
<1> DEFINE a == GUIlineSelected[Len(keywnode[k].path)]
           c == keywnode[k].NBchild - 1
<1>1. /\ a \in Int /\ a \in -1 .. MaxChild - 1 /\ MaxChild \in Nat
      /\ c \in Int /\ c >= -1 /\ c < MaxChild
  BY Constants, NodeTypes DEF Types
<1>2. SelectedLine(k) = Min({a, c})
  BY DEF SelectedLine
<1> HIDE DEF a, c
<1>3. Min({a, c}) \in {a, c} /\ Min({a, c}) <= c
  BY <1>1, Extremes
<1>4. Min({a, c}) \in -1 .. MaxChild - 1
  BY <1>1, <1>3
<1> QED
  BY <1>2, <1>3, <1>4 DEF c

(* Every step keeps the types. *)
LEMMA TypesStep == Types /\ [Next]_vars => Types'
<1> SUFFICES ASSUME Types, [Next]_vars
             PROVE  Types'
  OBVIOUS
<1>1. ASSUME Still PROVE Types'
  BY <1>1, StillTypes
<1>2. \A n : Go(n) => pc' \in Place
  BY DEF Go, Place
<1>3. EndOfLoop => pc' \in Place
  BY DEF EndOfLoop, Place
<1>4. ASSUME NEW d, Names(d), dir' = d, NEW fs \in [FpsIndex -> FpsRec], Scan(d, fs), NBindex' \in Nat,
             UNCHANGED <<nodeSelected, directorynodeSelected, currentlevel, GUIlineSelected,
                         pindexSelected, task>>,
             fpsindexSelected' \in FpsIndex, pc' \in Place
      PROVE  Types'
  <2>1. /\ fps' \in [FpsIndex -> FpsRec] /\ keywnode' \in [Node -> NodeRec]
        /\ NBkwn' \in 0 .. NBnode /\ NBfps' \in 0 .. NBmax
    BY <1>4, ScanTypes
  <2>2. Names(dir)'
    BY <1>4 DEF Names
  <2> QED
    BY <1>4, <2>1, <2>2 DEF Types
<1>5. Names(dir) /\ fps \in [FpsIndex -> FpsRec] /\ fpsindexSelected \in FpsIndex /\ NBindex \in Nat
  BY DEF Types
<1>6. CASE Start
  <2>1. Scan(dir, fps) /\ UNCHANGED <<NBindex, selVars, editVars, task, dir>> /\ pc' \in Place
    BY <1>6 DEF Start, envVars, Place
  <2> QED
    BY <1>4, <1>5, <2>1 DEF selVars, editVars
<1>7. CASE Key
  <2>1. CASE KeyNone \/ KeyExit \/ (\E m \in Mode : KeyMode(m))
    <3>1. Still
      BY <1>2, <2>1 DEF KeyNone, KeyExit, KeyMode, Still, envVars
    <3> QED
      BY <1>1, <3>1
  <2>2. CASE KeyEnter
    <3>1. Still
      BY <1>2, <2>2 DEF KeyEnter, Still, envVars, Place
    <3> QED
      BY <1>1, <3>1
  <2>3. CASE KeyAct
    <3>1. Still
      BY <1>2, <2>3 DEF KeyAct, Reading, Still, envVars, Place
    <3> QED
      BY <1>1, <3>1
  <2>4. CASE KeyScan
    <3>1. /\ Scan(dir, fps) /\ NBindex' = Parameters(dir) /\ UNCHANGED <<selVars, editVars, task, dir>>
          /\ pc' \in Place
      BY <1>2, <2>4 DEF KeyScan, envVars
    <3>2. NBindex' \in Nat
      BY <1>5, <3>1, ParametersCount
    <3> QED
      BY <1>4, <1>5, <3>1, <3>2 DEF selVars, editVars
  <2>5. CASE KeyLeft
    <3>1. /\ UNCHANGED <<scanVars, currentlevel, GUIlineSelected, editVars, task, dir>> /\ pc' \in Place
          /\ nodeSelected' = keywnode[directorynodeSelected].parent
          /\ directorynodeSelected' = keywnode[directorynodeSelected].parent
      BY <1>2, <2>5 DEF KeyLeft, Select, envVars
    <3>2. keywnode[directorynodeSelected].parent \in Node
      BY NodeTypes DEF Types
    <3> QED
      BY <3>1, <3>2 DEF Types, scanVars, editVars, Names, SeqOf, IsInjective
  <2>6. CASE KeyRight
    <3> DEFINE c == ChildAt(directorynodeSelected, line)
    <3>1. /\ UNCHANGED <<scanVars, currentlevel, GUIlineSelected, editVars, task, dir>> /\ pc' \in Place
          /\ nodeSelected' = c /\ directorynodeSelected' = c
      BY <1>2, <2>6 DEF KeyRight, Select, envVars
    <3>2. c \in Node
      <4>1. line \in -1 .. MaxChild - 1 /\ directorynodeSelected \in Node
        BY DEF Types, line
      <4>2. keywnode[directorynodeSelected].NBchild \in 0 .. MaxChild - 1
            /\ keywnode[directorynodeSelected].child \in [0 .. MaxChild - 1 -> Node]
        BY <4>1, NodeTypes
      <4>3. CASE line = -1
        BY <4>2, <4>3, Constants DEF ChildAt
      <4>4. CASE line # -1
        <5>1. line \in 0 .. MaxChild - 1
          BY <4>1, <4>4, Constants
        <5> QED
          BY <4>2, <4>4, <5>1 DEF ChildAt
      <4> QED
        BY <4>3, <4>4
    <3> HIDE DEF c
    <3> QED
      BY <3>1, <3>2 DEF Types, scanVars, editVars, Names, SeqOf, IsInjective
  <2>7. CASE KeyScript
    <3>1. Command /\ Processed /\ pc' \in Place
      BY <1>2, <2>7 DEF KeyScript
    <3>2. Names(dir') /\ fps' \in [FpsIndex -> FpsRec] /\ task' \in TaskRec \cup {None}
      BY <3>1, CommandTypes
    <3> QED
      BY <3>1, <3>2 DEF Processed, selVars, editVars, Types, Names
  <2>8. ASSUME NEW skip \in BOOLEAN, KeyErase(skip)
        PROVE  Types'
    <3> DEFINE i == keywnode[nodeSelected].fpsindex
    <3>1. i \in FpsIndex
      BY NodeTypes DEF Types
    <3>2. \/ /\ pc' = "crash" /\ UNCHANGED <<scanVars, selVars, editVars, task, envVars>>
          \/ \E j \in Md(i) : /\ dir' = Without(fps[j].name) /\ Scan(dir', Forgotten(i))
                              /\ NBindex' = Parameters(dir') /\ fpsindexSelected' = 0
                              /\ Go(Len(dir')) /\ UNCHANGED <<selVars, pindexSelected, task>>
      BY <2>8 DEF KeyErase, Reading
    <3>3. CASE pc' = "crash" /\ UNCHANGED <<scanVars, selVars, editVars, task, envVars>>
      <4>1. Still
        BY <3>3 DEF Still, envVars, Place
      <4> QED
        BY <1>1, <4>1
    <3>4. ASSUME NEW j \in Md(i), dir' = Without(fps[j].name), Scan(dir', Forgotten(i)),
                 NBindex' = Parameters(dir'), fpsindexSelected' = 0, Go(Len(dir')),
                 UNCHANGED <<selVars, pindexSelected, task>>
          PROVE  Types'
      <4>1. PICK d : d = dir'
        OBVIOUS
      <4>2. Names(d)
        BY <1>5, <3>4, <4>1, WithoutNames
      <4>3. Parameters(d) \in Nat
        BY <4>2, ParametersCount
      <4>4. Forgotten(i) \in [FpsIndex -> FpsRec]
        BY <3>1, ForgottenTypes
      <4>5. Scan(d, Forgotten(i)) /\ NBindex' \in Nat /\ pc' \in Place /\ fpsindexSelected' \in FpsIndex
        BY <1>2, <3>4, <4>1, <4>3, Constants
      <4> QED
        BY <1>4, <3>4, <4>1, <4>2, <4>4, <4>5 DEF selVars
    <3> QED
      BY <3>2, <3>3, <3>4
  <2>9. ASSUME NEW n \in Line, KeyUp(n) \/ KeyDown(n)
        PROVE  Types'
    <3>1. PICK g \in -1 .. MaxChild - 1 : SetLine(g)
      <4>1. directorynodeSelected \in Node
        BY DEF Types
      <4> QED
        BY <2>9, <4>1, KeyLine DEF KeyUp, KeyDown
    <3>2. /\ UNCHANGED <<scanVars, nodeSelected, directorynodeSelected, currentlevel, editVars, task, dir>>
          /\ pc' \in Place /\ GUIlineSelected' = [GUIlineSelected EXCEPT ![currentlevel] = g]
      BY <1>2, <3>1 DEF SetLine, envVars
    <3>3. GUIlineSelected' \in [Level -> -1 .. MaxChild - 1]
      BY <3>2 DEF Types
    <3> QED
      BY <3>2, <3>3 DEF Types, scanVars, editVars, Names, SeqOf, IsInjective
  <2> QED
    BY <1>7, <2>1, <2>2, <2>3, <2>4, <2>5, <2>6, <2>7, <2>8, <2>9 DEF Key
<1>8. CASE Fifo
  <2>1. CASE Command /\ pc' = "screen" /\ Processed
    <3>1. Names(dir') /\ fps' \in [FpsIndex -> FpsRec] /\ task' \in TaskRec \cup {None}
      BY <2>1, CommandTypes
    <3> QED
      BY <2>1, <3>1 DEF Processed, selVars, editVars, Types, Names, Place
  <2>2. CASE pc' = "crash" /\ UNCHANGED <<scanVars, selVars, editVars, task, envVars>>
    <3>1. Still
      BY <2>2 DEF Still, envVars, Place
    <3> QED
      BY <1>1, <3>1
  <2> QED
    BY <1>8, <2>1, <2>2 DEF Fifo, Reading
<1>9. CASE SkipDisplay \/ OtherScreen \/ FpsScreenCrash
  <2>1. Still
    BY <1>3, <1>9 DEF SkipDisplay, OtherScreen, FpsScreenCrash, Still, envVars, Place
  <2> QED
    BY <1>1, <2>1
<1>10. CASE FpsScreen
  <2> DEFINE d == directorynodeSelected
             lev == Len(keywnode[d].path)
             l == SelectedLine(d)
             c == IF l >= 0 THEN keywnode[d].child[l] ELSE Checked
  <2>1. d \in Node /\ Checked \in Node
    BY One DEF Types, Checked
  <2>2. lev \in Level /\ keywnode[d].NBchild \in 0 .. MaxChild - 1
        /\ keywnode[d].child \in [0 .. MaxChild - 1 -> Node]
        /\ keywnode[d].parent \in Node /\ keywnode[d].NBchild \in Nat
    BY <2>1, NodeTypes
  <2>3. l \in -1 .. MaxChild - 1
    BY <2>1, ScreenLine
  <2> HIDE DEF l
  <2>4. c \in Node
    BY <2>1, <2>2, <2>3, Constants
  <2>5. Lines(d) \subseteq Nat
    <3> DEFINE B(k) == keywnode[k].NBchild
    <3>1. 0 \in Node /\ \A k \in Node : B(k) \in Nat
      BY Constants, NodeTypes
    <3>2. ASSUME NEW k \in Node
          PROVE  Max({B(d), B(0), B(k)}) \in Nat
      <4> DEFINE x == B(d)
                 y == B(0)
                 z == B(k)
      <4>1. x \in Nat /\ y \in Nat /\ z \in Nat
        BY <2>1, <3>1
      <4> HIDE DEF x, y, z
      <4>2. Max({x, y, z}) \in {x, y, z}
        BY <4>1, Extremes
      <4>3. Max({x, y, z}) \in Nat
        BY <4>1, <4>2
      <4> QED
        BY <4>3 DEF x, y, z
    <3> QED
      BY <2>1, <3>1, <3>2 DEF Lines
  <2> HIDE DEF c
  <2>6. /\ nodeSelected' = c /\ fpsindexSelected' = keywnode[c].fpsindex /\ currentlevel' = lev
        /\ pindexSelected' = (IF keywnode[c].leaf = 1 THEN keywnode[c].pindex ELSE keywnode[Checked].pindex)
        /\ GUIlineSelected' = [GUIlineSelected EXCEPT ![lev] = l] /\ NBindex' \in Lines(d)
        /\ pc' \in Place
        /\ UNCHANGED <<fps, keywnode, NBkwn, NBfps, directorynodeSelected, task, dir>>
    BY <1>3, <1>10 DEF FpsScreen, envVars, c, l
  <2>7. keywnode[c].fpsindex \in FpsIndex /\ keywnode[c].pindex \in Nat /\ keywnode[Checked].pindex \in Nat
    BY <2>1, <2>4, NodeTypes
  <2> HIDE DEF d, lev
  <2>8. GUIlineSelected' \in [Level -> -1 .. MaxChild - 1] /\ pindexSelected' \in Nat
    BY <2>2, <2>3, <2>6, <2>7 DEF Types
  <2>9. Names(dir)'
    BY <1>5, <2>6 DEF Names
  <2> QED
    BY <2>2, <2>4, <2>5, <2>6, <2>7, <2>8, <2>9 DEF Types, d
<1>11. CASE Leave
  <2>1. /\ fps' = [i \in FpsIndex |-> IF i < NBfps THEN [fps[i] EXCEPT !.open = FALSE, !.mapped = FALSE]
                                                  ELSE fps[i]]
        /\ UNCHANGED <<keywnode, NBkwn, NBfps, NBindex, selVars, editVars, task, dir>> /\ pc' \in Place
    BY <1>11 DEF Leave, envVars, Place
  <2>2. \A f \in FpsRec : [f EXCEPT !.open = FALSE, !.mapped = FALSE] \in FpsRec
    BY DEF FpsRec
  <2>3. fps' \in [FpsIndex -> FpsRec]
    BY <1>5, <2>1, <2>2
  <2> QED
    BY <2>1, <2>3 DEF Types, selVars, editVars, Names, SeqOf, IsInjective
<1>12. ASSUME NEW f \in FpsName, Appear(f) \/ Vanish(f)
       PROVE  Types'
  <2>1. UNCHANGED <<scanVars, selVars, editVars, task, pc>>
    BY <1>12 DEF Appear, Vanish
  <2>2. Names(dir')
    <3>1. CASE Appear(f)
      <4>1. /\ \A i \in DOMAIN dir : dir[i] # f
            /\ \E i \in 1 .. Len(dir) + 1 : dir' = InsertAt(dir, i, f)
        BY <3>1 DEF Appear
      <4> QED
        BY <1>5, <4>1, InsertNames
    <3>2. CASE Vanish(f)
      BY <1>5, <3>2, WithoutNames DEF Vanish
    <3> QED
      BY <1>12, <3>1, <3>2
  <2> QED
    BY <2>1, <2>2 DEF Types, scanVars, selVars, editVars, Names
<1>13. CASE UNCHANGED vars
  <2>1. Still
    BY <1>13 DEF vars, envVars, Still, Types
  <2> QED
    BY <1>1, <2>1
<1> QED
  BY <1>6, <1>7, <1>8, <1>9, <1>10, <1>11, <1>12, <1>13 DEF Next

(* The initial state. *)
LEMMA TypesInit == Init => Types
<1> SUFFICES ASSUME Init PROVE Types
  OBVIOUS
<1>1. Names(dir)
  BY DEF Init, Names
<1>2. [name |-> None, open |-> FALSE, mapped |-> FALSE] \in FpsRec
  BY DEF FpsRec
<1>3. NoNode \in NodeRec
  BY Constants DEF NoNode, NodeRec
<1>4. \A l \in Level : 0 \in -1 .. MaxChild - 1
  BY Constants
<1>5. /\ fps \in [FpsIndex -> FpsRec] /\ keywnode \in [Node -> NodeRec]
      /\ GUIlineSelected \in [Level -> -1 .. MaxChild - 1]
  BY <1>2, <1>3, <1>4 DEF Init
<1>6. /\ NBkwn \in 0 .. NBnode /\ NBfps \in 0 .. NBmax /\ NBindex \in Nat
      /\ nodeSelected \in Node /\ directorynodeSelected \in Node /\ currentlevel \in Level
      /\ fpsindexSelected \in FpsIndex /\ pindexSelected \in Nat
      /\ task \in TaskRec \cup {None} /\ pc \in Place
  BY Constants, One DEF Init, Place
<1> QED
  BY <1>1, <1>5, <1>6 DEF Types

(* The directory, the tree, the list of FPSs and the selection stay within *)
(* their arrays, whatever keys, commands and other programs do.            *)
THEOREM TypeCorrect == Spec => []TypeOK
<1>1. Init => Types
  BY TypesInit
<1>2. Types => TypeOK
  <2> SUFFICES ASSUME Types PROVE TypeOK
    OBVIOUS
  <2>1. \A i \in FpsIndex : /\ fps[i].name \in FpsName \cup {None} /\ fps[i].open \in BOOLEAN
                            /\ fps[i].mapped \in BOOLEAN
    <3>1. \A i \in FpsIndex : fps[i] \in FpsRec
      BY DEF Types
    <3>2. \A f \in FpsRec : f.name \in FpsName \cup {None} /\ f.open \in BOOLEAN /\ f.mapped \in BOOLEAN
      BY DEF FpsRec
    <3> QED
      BY <3>1, <3>2
  <2>2. \A k \in Node :
          /\ keywnode[k].leaf \in {0, 1} /\ keywnode[k].fpsindex \in FpsIndex
          /\ keywnode[k].parent \in Node /\ keywnode[k].NBchild \in 0 .. MaxChild - 1
          /\ \A c \in 0 .. MaxChild - 1 : keywnode[k].child[c] \in Node
    BY NodeTypes
  <2> QED
    BY <2>1, <2>2 DEF TypeOK, Types, Names, Place
<1>3. Types /\ [Next]_vars => Types'
  BY TypesStep
<1> QED
  BY <1>1, <1>2, <1>3, PTL DEF Spec

-----------------------------------------------------------------------------
(* The tree of the FPSs of the last scan.                                  *)

Scanned ==
  /\ Names(ScannedDir)
  /\ pc # "start" => Upto(TreeNow, ScannedDir, NBmax, NBfps + 1, 1, 0)
  /\ pc = "start" => NBfps = 0 /\ NBkwn = 0 /\ shown = None

(* Steps that scan; steps that do not, and among them commands.            *)
Scans ==
  /\ Names(dir') /\ (\E fs \in [FpsIndex -> FpsRec] : Scan(dir', fs))
  /\ pc' # "start" /\ task' = task /\ (same' => same /\ dir' = dir)

Stays ==
  /\ keywnode' = keywnode /\ NBkwn' = NBkwn /\ NBfps' = NBfps
  /\ \A i \in FpsIndex : fps'[i].name = fps[i].name
  /\ (pc' = "start") = (pc = "start") /\ (pc = "start" => shown' = shown)
  /\ (task' = task /\ (same' => same /\ dir' = dir)) \/ (Command /\ pc # "start")

(* There are no other steps. *)
LEMMA Kinds ==
  ASSUME Types, [Next]_vars
  PROVE  Scans \/ Stays
<1>1. Names(dir) /\ fps \in [FpsIndex -> FpsRec]
  BY DEF Types
<1>2. \A n : Go(n) => pc' # "start"
  BY DEF Go
<1>3. EndOfLoop => pc' # "start"
  BY DEF EndOfLoop
<1>4. CASE Start \/ KeyScan
  <2>1. Scan(dir, fps) /\ dir' = dir /\ task' = task /\ same' = same /\ pc' # "start"
    BY <1>2, <1>4 DEF Start, KeyScan, envVars
  <2>2. Scan(dir', fps) /\ Names(dir')
    BY <1>1, <2>1
  <2> QED
    BY <1>1, <2>1, <2>2 DEF Scans
<1>5. ASSUME NEW skip \in BOOLEAN, KeyErase(skip)
      PROVE  Scans \/ Stays
  <2> DEFINE i == keywnode[nodeSelected].fpsindex
  <2>1. i \in FpsIndex
    BY NodeTypes DEF Types
  <2>2. \/ /\ pc = "key" /\ pc' = "crash" /\ UNCHANGED <<scanVars, task, envVars>>
        \/ \E j \in Md(i) : /\ dir' = Without(fps[j].name) /\ Scan(dir', Forgotten(i)) /\ task' = task
                            /\ same' = FALSE /\ Go(Len(dir'))
    BY <1>5 DEF KeyErase, Reading
  <2>3. CASE pc = "key" /\ pc' = "crash" /\ UNCHANGED <<scanVars, task, envVars>>
    BY <2>3 DEF Stays, scanVars, envVars
  <2>4. ASSUME NEW j \in Md(i), dir' = Without(fps[j].name), Scan(dir', Forgotten(i)), task' = task,
               same' = FALSE, Go(Len(dir'))
        PROVE  Scans
    <3>1. Names(dir')
      BY <1>1, <2>4, WithoutNames
    <3>2. Forgotten(i) \in [FpsIndex -> FpsRec]
      BY <2>1, ForgottenTypes
    <3>3. \E fs \in [FpsIndex -> FpsRec] : Scan(dir', fs)
      BY <2>4, <3>2
    <3> QED
      BY <1>2, <2>4, <3>1, <3>3 DEF Scans
  <2> QED
    BY <2>2, <2>3, <2>4
<1>6. CASE KeyScript \/ (Fifo /\ pc' = "screen")
  <2>1. /\ pc # "start" /\ pc' # "start" /\ Command /\ Processed
    BY <1>2, <1>6 DEF KeyScript, Fifo, Reading
  <2>2. \A j \in FpsIndex : fps'[j].name = fps[j].name
    BY <2>1, CommandTypes
  <2> QED
    BY <2>1, <2>2 DEF Stays, Processed
<1>7. CASE Fifo /\ pc' # "screen"
  BY <1>7 DEF Fifo, Reading, Stays, scanVars, envVars
<1>8. CASE KeyNone \/ KeyExit \/ (\E m \in Mode : KeyMode(m))
  BY <1>2, <1>8 DEF KeyNone, KeyExit, KeyMode, Stays, scanVars, envVars
<1>9. CASE KeyLeft \/ KeyRight
  BY <1>2, <1>9 DEF KeyLeft, KeyRight, Select, Stays, scanVars, envVars
<1>10. CASE KeyEnter \/ KeyAct
  BY <1>2, <1>10 DEF KeyEnter, KeyAct, Reading, Stays, scanVars, envVars
<1>11. CASE \E n \in Line : KeyUp(n) \/ KeyDown(n)
  BY <1>2, <1>11 DEF KeyUp, KeyDown, SetLine, Stays, scanVars, envVars
<1>12. CASE SkipDisplay \/ OtherScreen \/ FpsScreenCrash
  BY <1>3, <1>12 DEF SkipDisplay, OtherScreen, FpsScreenCrash, Stays, scanVars, envVars
<1>13. CASE FpsScreen
  <2>1. pc = "screen" /\ pc' # "start" /\ UNCHANGED <<fps, keywnode, NBkwn, NBfps, task, envVars>>
    BY <1>3, <1>13 DEF FpsScreen
  <2> QED
    BY <2>1 DEF Stays, envVars
<1>14. CASE Leave
  <2>1. /\ pc # "start" /\ pc' # "start" /\ UNCHANGED <<keywnode, NBkwn, NBfps, task, envVars>>
        /\ fps' = [i \in FpsIndex |-> IF i < NBfps THEN [fps[i] EXCEPT !.open = FALSE, !.mapped = FALSE]
                                                  ELSE fps[i]]
    BY <1>14 DEF Leave
  <2>2. \A f \in FpsRec : [f EXCEPT !.open = FALSE, !.mapped = FALSE].name = f.name
    BY DEF FpsRec
  <2>3. \A i \in FpsIndex : fps'[i].name = fps[i].name
    BY <1>1, <2>1, <2>2
  <2> QED
    BY <2>1, <2>3 DEF Stays, envVars
<1>15. CASE \E f \in FpsName : Appear(f) \/ Vanish(f)
  BY <1>15 DEF Appear, Vanish, Stays, scanVars
<1>16. CASE UNCHANGED vars
  BY <1>16 DEF vars, Stays, scanVars, envVars
<1> QED
  BY <1>4, <1>5, <1>6, <1>7, <1>8, <1>9, <1>10, <1>11, <1>12, <1>13, <1>14, <1>15, <1>16 DEF Next, Key

(* A scan takes the FPSs of the directory. *)
LEMMA ListOfScan ==
  ASSUME Types, NEW fs \in [FpsIndex -> FpsRec], Names(dir'), Scan(dir', fs)
  PROVE  ScannedDir' = dir'
<1>1. PICK d : d = dir'
  OBVIOUS
<1>2. Names(d) /\ Scan(d, fs)
  BY <1>1
<1>3. NBfps' = Len(d) /\ \A i \in 0 .. Len(d) - 1 : fps'[i].name = d[i + 1]
  BY <1>2, ScanTypes
<1>4. d \in Seq(FpsName) /\ Len(d) \in Nat
  BY <1>2, NamesOf
<1>5. d = [i \in 1 .. Len(d) |-> d[i]]
  BY <1>4
<1>6. \A i \in 1 .. Len(d) : i - 1 \in 0 .. Len(d) - 1 /\ (i - 1) + 1 = i
  BY <1>4
<1>7. \A i \in 1 .. Len(d) : fps'[i - 1].name = d[i]
  BY <1>3, <1>6
<1>8. ScannedDir' = [i \in 1 .. Len(d) |-> fps'[i - 1].name]
  BY <1>3 DEF ScannedDir
<1> QED
  BY <1>1, <1>5, <1>7, <1>8

(* Other steps keep the list. *)
LEMMA ListStays ==
  ASSUME Types, NBfps' = NBfps, \A i \in FpsIndex : fps'[i].name = fps[i].name
  PROVE  ScannedDir' = ScannedDir
<1>1. \A i \in 1 .. NBfps : i - 1 \in FpsIndex
  BY Constants DEF Types
<1> QED
  BY <1>1 DEF ScannedDir

(* The FPSs of the list. *)
LEMMA ListOf ==
  ASSUME Types, Names(ScannedDir)
  PROVE  /\ Len(ScannedDir) = NBfps /\ NBfps \in Nat
         /\ \A i \in 0 .. NBfps - 1 : i + 1 \in 1 .. NBfps /\ ScannedDir[i + 1] = fps[i].name
                                     /\ fps[i].name \in FpsName
<1>1. NBfps \in Nat
  BY Constants DEF Types
<1>2. DOMAIN ScannedDir = 1 .. NBfps /\ \A i \in 1 .. NBfps : ScannedDir[i] = fps[i - 1].name
  BY DEF ScannedDir
<1>3. ScannedDir \in Seq(FpsName) /\ \A i \in 1 .. Len(ScannedDir) : ScannedDir[i] \in FpsName
  BY NamesOf
<1> HIDE DEF Names
<1>4. Len(ScannedDir) = NBfps
  BY <1>1, <1>2, <1>3
<1>5. \A i \in 0 .. NBfps - 1 : i + 1 \in 1 .. NBfps /\ (i + 1) - 1 = i
  BY <1>1
<1> QED
  BY <1>1, <1>2, <1>3, <1>4, <1>5

(* The tree is that of the last scan after every step. *)
LEMMA ScannedStep == Types /\ Scanned /\ [Next]_vars => Scanned'
<1> SUFFICES ASSUME Types, Scanned, [Next]_vars
             PROVE  Scanned'
  OBVIOUS
<1>1. CASE Scans
  <2>1. PICK fs \in [FpsIndex -> FpsRec] : Scan(dir', fs) /\ Names(dir')
    BY <1>1 DEF Scans
  <2>2. PICK d : d = dir'
    OBVIOUS
  <2>3. ScannedDir' = d
    BY <2>1, <2>2, ListOfScan
  <2>4. NBfps' = Len(d) /\ Upto(TreeNow', d, NBmax, Len(d) + 1, 1, 0)
    BY <2>1, <2>2, ScanTypes
  <2>5. Names(ScannedDir)'
    BY <2>1, <2>2, <2>3 DEF Names
  <2>6. pc' # "start"
    BY <1>1 DEF Scans
  <2>7. Upto(TreeNow, ScannedDir, NBmax, NBfps + 1, 1, 0)'
    <3>1. Upto(TreeNow', ScannedDir', NBmax, NBfps' + 1, 1, 0)
      BY <2>3, <2>4
    <3> QED
      BY <3>1
  <2> QED
    BY <2>5, <2>6, <2>7 DEF Scanned
<1>2. CASE Stays
  <2>1. ScannedDir' = ScannedDir /\ TreeNow' = TreeNow /\ NBfps' = NBfps /\ NBkwn' = NBkwn
    BY <1>2, ListStays DEF Stays, TreeNow
  <2>2. Names(ScannedDir)'
    BY <2>1 DEF Scanned, Names
  <2>3. (pc' = "start") = (pc = "start") /\ (pc = "start" => shown' = shown)
    BY <1>2 DEF Stays
  <2>4. pc # "start" => Upto(TreeNow, ScannedDir, NBmax, NBfps + 1, 1, 0)'
    <3>1. pc # "start" => Upto(TreeNow', ScannedDir', NBmax, NBfps' + 1, 1, 0)
      BY <2>1 DEF Scanned
    <3> QED
      BY <3>1
  <2> QED
    BY <2>1, <2>2, <2>3, <2>4 DEF Scanned
<1> QED
  BY <1>1, <1>2, Kinds

(* The first scan has not been yet. *)
LEMMA ScannedInit == Init => Scanned
<1> SUFFICES ASSUME Init
             PROVE  Scanned
  OBVIOUS
<1>1. pc = "start" /\ NBfps = 0 /\ NBkwn = 0 /\ shown = None
  BY DEF Init
<1>2. ScannedDir = <<>>
  BY <1>1 DEF ScannedDir
<1>3. <<>> \in Seq(FpsName) /\ \A i, j \in 1 .. Len(<<>>) : <<>>[i] = <<>>[j] => i = j
  OBVIOUS
<1>4. Names(<<>>)
  BY <1>3, IsNames
<1> QED
  BY <1>1, <1>2, <1>4 DEF Scanned

(* What the tree says of a node: it is there for an entry of the FPS that  *)
(* it names.                                                               *)
LEMMA NodeOf ==
  ASSUME Types, Scanned, NEW k \in 1 .. NBkwn - 1
  PROVE  /\ k \in Node /\ keywnode[k].fpsindex \in 0 .. NBfps - 1
         /\ keywnode[k].path # <<>> /\ keywnode[k].path \in Seq(FpsName \cup STRING)
         /\ keywnode[k].path[1] = fps[keywnode[k].fpsindex].name
         /\ keywnode[k].leaf = 1 =>
              Path(fps[keywnode[k].fpsindex].name, keywnode[k].pindex + 1) = keywnode[k].path
<1> DEFINE n == keywnode[k]
           d == ScannedDir
           j == n.fpsindex + 1
<1>1. k \in Node
  BY Constants DEF Types
<1>2. pc # "start"
  BY DEF Scanned
<1>3. Names(d) /\ Upto(TreeNow, d, NBmax, NBfps + 1, 1, 0)
  BY <1>2 DEF Scanned
<1>4. TreeNow.node = keywnode /\ TreeNow.NBkwn = NBkwn /\ k \in Below(TreeNow)
  BY DEF TreeNow, Below
<1> HIDE DEF d
<1>5. /\ j \in 1 .. Len(d)
      /\ \E q \in 1 .. Len(Keyword[d[j]]) : \E m \in 1 .. Len(Path(d[j], q)) : From(n, d, q, m)
  BY <1>3, <1>4 DEF Upto, Origin
<1>6. PICK q \in 1 .. Len(Keyword[d[j]]) : \E m \in 1 .. Len(Path(d[j], q)) : From(n, d, q, m)
  BY <1>5
<1>7. PICK m \in 1 .. Len(Path(d[j], q)) : From(n, d, q, m)
  BY <1>6
<1>8. Len(d) = NBfps /\ \A i \in 0 .. NBfps - 1 : d[i + 1] = fps[i].name
  BY <1>3, ListOf DEF d
<1>9. n.fpsindex \in Nat /\ n.pindex \in Nat /\ n.leaf \in {0, 1}
  BY <1>1, NodeTypes
<1> HIDE DEF n
<1>10. n.fpsindex \in 0 .. NBfps - 1 /\ d[j] = fps[n.fpsindex].name
  BY <1>5, <1>8, <1>9
<1>11. d[j] \in FpsName
  BY <1>3, <1>5, NamesOf
<1>12. /\ n.path = SubSeq(Path(d[j], q), 1, m) /\ n.leaf = (IF m = Len(Path(d[j], q)) THEN 1 ELSE 0)
       /\ n.leaf = 1 => n.pindex = q - 1
  BY <1>7 DEF From, Pre
<1> HIDE DEF j
<1>13. /\ n.path # <<>> /\ n.path \in Seq(FpsName \cup STRING) /\ n.path[1] = d[j]
       /\ m = Len(Path(d[j], q)) => n.path = Path(d[j], q)
  <2>1. PICK f \in FpsName : f = d[j]
    BY <1>11
  <2>2. q \in 1 .. Len(Keyword[f]) /\ m \in 1 .. Len(Path(f, q)) /\ n.path = SubSeq(Path(f, q), 1, m)
    BY <1>6, <1>7, <1>12, <2>1
  <2> DEFINE s == SubSeq(Path(f, q), 1, m)
  <2>3. /\ s # <<>> /\ s \in Seq(FpsName \cup STRING) /\ s[1] = f
        /\ m = Len(Path(f, q)) => s = Path(f, q)
    BY <2>2, Beginnings
  <2> HIDE DEF s
  <2>4. n.path = s
    BY <2>2 DEF s
  <2> QED
    BY <2>1, <2>3, <2>4
<1>14. n.leaf = 1 => n.pindex + 1 = q /\ m = Len(Path(d[j], q))
  <2>1. Len(Keyword[d[j]]) \in Nat
    BY <1>6, <1>11, TreeAssumption
  <2> QED
    BY <1>6, <1>12, <2>1
<1>15. n.leaf = 1 => Path(fps[n.fpsindex].name, n.pindex + 1) = n.path
  BY <1>10, <1>13, <1>14
<1> QED
  BY <1>1, <1>10, <1>13, <1>15 DEF n

(* The tree of a scan is what TreeTrue says. *)
LEMMA TreeIs == Types /\ Scanned => TreeTrue
<1> SUFFICES ASSUME Types, Scanned
             PROVE  TreeTrue
  OBVIOUS
<1> DEFINE d == ScannedDir
           T == 1 .. NBkwn - 1
<1>1. Names(d) /\ NBkwn \in Nat /\ NBfps \in Nat
  BY Constants DEF Scanned, Types
<1>2. Len(d) = NBfps /\ \A i \in 0 .. NBfps - 1 : i + 1 \in 1 .. NBfps /\ d[i + 1] = fps[i].name
  BY <1>1, ListOf
<1>3. TreeNow.node = keywnode /\ TreeNow.NBkwn = NBkwn /\ Below(TreeNow) = T
  BY DEF TreeNow, Below
<1>4. pc # "start" => Upto(TreeNow, d, NBmax, NBfps + 1, 1, 0)
  BY DEF Scanned
<1>5. pc = "start" => NBfps = 0 /\ NBkwn = 0
  BY DEF Scanned
<1>6. ASSUME NEW k \in T, NEW m \in T, keywnode[k].path = keywnode[m].path
      PROVE  k = m
  <2>1. k \in 0 .. NBkwn - 1 /\ m \in 0 .. NBkwn - 1 /\ pc # "start"
    BY <1>1, <1>5
  <2> HIDE DEF d
  <2>2. \A e, g \in 0 .. NBkwn - 1 : keywnode[e].path = keywnode[g].path => e = g
    BY <1>3, <1>4, <2>1 DEF Upto, Shape
  <2> QED
    BY <1>6, <2>1, <2>2
<1>7. ASSUME NEW i \in 0 .. NBfps - 1, NEW p \in 1 .. Len(Keyword[fps[i].name])
      PROVE  LET path == Path(fps[i].name, p)
                 before == {q \in 1 .. p - 1 : IsPrefix(path, Path(fps[i].name, q))}
                 nodes == {k \in T : keywnode[k].path = path}
             IN /\ Cardinality(nodes) = 1
                /\ before = {} => \A k \in nodes : /\ keywnode[k].leaf = 1 /\ keywnode[k].fpsindex = i
                                                 /\ keywnode[k].pindex = p - 1
  <2> DEFINE path == Path(fps[i].name, p)
             before == {q \in 1 .. p - 1 : IsPrefix(path, Path(fps[i].name, q))}
             nodes == {k \in T : keywnode[k].path = path}
  <2>1. pc # "start" /\ i + 1 \in 1 .. Len(d) /\ d[i + 1] = fps[i].name /\ i + 1 < NBfps + 1
        /\ (i + 1) - 1 = i
    BY <1>1, <1>2, <1>5
  <2>2. Placed(TreeNow, d, i + 1, p)
    BY <1>4, <2>1 DEF Upto
  <2>3. PICK k \in T :
          /\ keywnode[k].path = path
          /\ (\A r \in 1 .. p - 1 : ~IsPrefix(path, Path(fps[i].name, r))) =>
               keywnode[k].leaf = 1 /\ keywnode[k].fpsindex = i /\ keywnode[k].pindex = p - 1
    BY <1>3, <2>1, <2>2 DEF Placed
  <2>4. nodes = {k}
    BY <1>6, <2>3
  <2>5. Cardinality(nodes) = 1
    BY <2>4, FS_Singleton
  <2>6. before = {} => \A r \in 1 .. p - 1 : ~IsPrefix(path, Path(fps[i].name, r))
    OBVIOUS
  <2>7. before = {} => \A m \in nodes : keywnode[m].leaf = 1 /\ keywnode[m].fpsindex = i
                                       /\ keywnode[m].pindex = p - 1
    BY <2>3, <2>4, <2>6
  <2> QED
    BY <2>5, <2>7
<1>8. ASSUME NEW k \in T
      PROVE  LET up == keywnode[k].parent IN
             /\ up < k /\ keywnode[k].path # <<>> /\ keywnode[up].path = Front(keywnode[k].path)
             /\ Cardinality({c \in 0 .. keywnode[up].NBchild - 1 : keywnode[up].child[c] = k}) = 1
  <2> DEFINE up == keywnode[k].parent
             C == {c \in 0 .. keywnode[up].NBchild - 1 : keywnode[up].child[c] = k}
  <2>1. pc # "start" /\ k \in Node
    BY <1>1, <1>5, NodeOf
  <2>2. Shape(TreeNow)
    BY <1>4, <2>1 DEF Upto
  <2>3. /\ up < k /\ keywnode[k].path # <<>> /\ keywnode[up].path = Front(keywnode[k].path)
        /\ \E c \in 0 .. keywnode[up].NBchild - 1 : keywnode[up].child[c] = k
    BY <1>3, <2>2 DEF Shape
  <2>4. up \in 0 .. NBkwn - 1
    <3>1. up \in Nat
      BY <2>1, NodeTypes, Constants
    <3> QED
      BY <1>1, <2>3, <3>1
  <2>5. \A c, e \in 0 .. keywnode[up].NBchild - 1 : keywnode[up].child[c] = keywnode[up].child[e] => c = e
    BY <1>3, <2>2, <2>4 DEF Shape
  <2>6. PICK c \in 0 .. keywnode[up].NBchild - 1 : keywnode[up].child[c] = k
    BY <2>3
  <2>7. C = {c}
    BY <2>5, <2>6
  <2>8. Cardinality(C) = 1
    BY <2>7, FS_Singleton
  <2> QED
    BY <2>3, <2>8
<1> QED
  BY <1>7, <1>8 DEF TreeTrue

(* After every scan, whatever tree was in the nodes before, the entries of *)
(* the connected FPSs have one node each, which is their leaf unless an    *)
(* earlier entry has made a directory of it, and every node is listed once *)
(* by the node of its path's beginning.                                    *)
THEOREM TreeCorrect == Spec => []TreeTrue
<1>1. Init => Types /\ Scanned
  BY TypesInit, ScannedInit
<1>2. Types /\ Scanned => TreeTrue
  BY TreeIs
<1>3. Types /\ Scanned /\ [Next]_vars => Types' /\ Scanned'
  BY TypesStep, ScannedStep
<1> DEFINE Inv == Types /\ Scanned
<1>4. Init => Inv
  BY <1>1
<1>5. Inv /\ [Next]_vars => Inv'
  BY <1>3
<1>6. Inv => TreeTrue
  BY <1>2
<1> HIDE DEF Inv
<1> QED
  BY <1>4, <1>5, <1>6, PTL DEF Spec

-----------------------------------------------------------------------------
(* Tasks.                                                                  *)

(* While the directory is what it was when the task was given, the last    *)
(* scan has found the same, and the index of the task is that of its FPS.  *)
Tasks ==
  task # None /\ same =>
    ScannedDir = dir /\ task.fpsindex \in 0 .. NBfps - 1 /\ dir[task.fpsindex + 1] = task.name

(* The entry of an FPS that a command finds is a node of this FPS. *)
LEMMA EntryOf ==
  ASSUME Types, Scanned, pc # "start", NEW f \in FpsName, NEW i \in Entry(f)
  PROVE  i \in 0 .. NBfps - 1 /\ fps[i].name = f
<1>1. PICK k \in 0 .. NBkwn - 1 : keywnode[k].path = <<f>> /\ i = keywnode[k].fpsindex
  BY DEF Entry
<1>2. keywnode[0].path = <<>>
  <2>1. Shape(TreeNow)
    BY DEF Scanned, Upto
  <2> QED
    BY <2>1 DEF Shape, TreeNow
<1>3. k # 0 /\ <<f>>[1] = f
  BY <1>1, <1>2
<1>4. k \in 1 .. NBkwn - 1
  BY <1>1, <1>3, Constants DEF Types
<1> QED
  BY <1>1, <1>3, <1>4, NodeOf

(* Scans that find what the last one found, and commands, keep it. *)
LEMMA TasksStep == Types /\ Scanned /\ Tasks /\ [Next]_vars => Tasks'
<1> SUFFICES ASSUME Types, Scanned, Tasks, [Next]_vars, task' # None, same'
             PROVE  /\ ScannedDir' = dir' /\ task'.fpsindex \in 0 .. NBfps' - 1
                    /\ dir'[task'.fpsindex + 1] = task'.name
  BY DEF Tasks
<1>1. Len(ScannedDir) = NBfps
  BY ListOf DEF Scanned
<1>2. CASE Scans
  <2>1. same /\ dir' = dir /\ task' = task
    BY <1>2 DEF Scans
  <2>2. PICK fs \in [FpsIndex -> FpsRec] : Scan(dir', fs) /\ Names(dir')
    BY <1>2 DEF Scans
  <2>3. PICK d : d = dir'
    OBVIOUS
  <2>4. NBfps' = Len(d) /\ ScannedDir' = d
    BY <2>2, <2>3, ScanTypes, ListOfScan
  <2>5. ScannedDir = dir /\ task.fpsindex \in 0 .. NBfps - 1 /\ dir[task.fpsindex + 1] = task.name
    BY <2>1 DEF Tasks
  <2> QED
    BY <1>1, <2>1, <2>3, <2>4, <2>5
<1>3. CASE Stays /\ task' = task /\ (same' => same /\ dir' = dir)
  <2>1. ScannedDir' = ScannedDir /\ NBfps' = NBfps
    BY <1>3, ListStays DEF Stays
  <2> QED
    BY <1>3, <2>1 DEF Tasks
<1>4. CASE Stays /\ Command /\ pc # "start"
  <2>1. ScannedDir' = ScannedDir /\ NBfps' = NBfps
    BY <1>4, ListStays DEF Stays
  <2>2. CASE NoCommand
    BY <2>1, <2>2 DEF NoCommand, Tasks
  <2>3. ASSUME NEW f \in FpsName, Launch(f)
        PROVE  /\ ScannedDir' = dir' /\ task'.fpsindex \in 0 .. NBfps' - 1
               /\ dir'[task'.fpsindex + 1] = task'.name
    <3>1. PICK i \in Entry(f) : task' = [fpsindex |-> i, name |-> f]
      BY <2>3 DEF Launch
    <3>2. ScannedDir = dir /\ dir' = dir
      BY <2>3 DEF Launch
    <3>3. i \in 0 .. NBfps - 1 /\ fps[i].name = f
      BY <1>4, <3>1, EntryOf
    <3>4. dir[i + 1] = f
      BY <3>2, <3>3, ListOf DEF Scanned
    <3> QED
      BY <2>1, <3>1, <3>2, <3>3, <3>4
  <2>4. ASSUME NEW f \in FpsName, Fpsrm(f)
        PROVE  FALSE
    BY <2>4 DEF Fpsrm
  <2> QED
    BY <1>4, <2>2, <2>3, <2>4 DEF Command
<1> QED
  BY <1>2, <1>3, <1>4, Kinds DEF Stays

(* A task under way waits on the FPS it was given to as long as the        *)
(* directory is what it was: scans give each FPS its index again.          *)
THEOREM TaskCorrect == Spec => []TaskTrue
<1> DEFINE Inv == Types /\ Scanned /\ Tasks
<1>1. Init => Inv
  <2>1. Init => Tasks
    BY DEF Init, Tasks
  <2> QED
    BY <2>1, TypesInit, ScannedInit
<1>2. Inv /\ [Next]_vars => Inv'
  BY TypesStep, ScannedStep, TasksStep
<1>3. Inv => TaskTrue
  <2> SUFFICES ASSUME Types, Scanned, Tasks, task # None, same
               PROVE  fps[task.fpsindex].name = task.name
    BY DEF TaskTrue
  <2>1. ScannedDir = dir /\ task.fpsindex \in 0 .. NBfps - 1 /\ dir[task.fpsindex + 1] = task.name
    BY DEF Tasks
  <2>2. ScannedDir[task.fpsindex + 1] = fps[task.fpsindex].name
    BY <2>1, ListOf DEF Scanned
  <2> QED
    BY <2>1, <2>2
<1> HIDE DEF Inv
<1> QED
  BY <1>1, <1>2, <1>3, PTL DEF Spec

-----------------------------------------------------------------------------
(* Memory that is unmapped.                                                *)

(* An index of the list, or 0, which it is where nothing was scanned.      *)
Known(i) == i = 0 \/ i < NBfps

Running == pc \in {"key", "fifo", "screen", "exiting"}

(* As long as no FPS is removed the list gets no shorter: every index that *)
(* was in it, also that of an old node, of the selection or of a task,     *)
(* still is, and all FPSs of the list are mapped while the loop runs.      *)
Present ==
  ~gone =>
    /\ pc # "crash" /\ NBfps <= Len(dir)
    /\ Running => NBfps > 0 /\ \A i \in 0 .. NBfps - 1 : fps[i].mapped
    /\ \A k \in Node : Known(keywnode[k].fpsindex)
    /\ Known(fpsindexSelected) /\ (task # None => Known(task.fpsindex))

(* What is read then is mapped. *)
LEMMA IsMapped ==
  ASSUME Types, Present, ~gone, Running, NEW i \in FpsIndex, Known(i)
  PROVE  fps[i].mapped
<1>1. NBfps > 0 /\ NBfps \in Nat /\ i \in Nat /\ \A j \in 0 .. NBfps - 1 : fps[j].mapped
  BY Constants DEF Present, Types
<1>2. i \in 0 .. NBfps - 1
  BY <1>1 DEF Known
<1> QED
  BY <1>1, <1>2

(* So is the FPS of every node, also of one that the tree does not reach. *)
LEMMA NodeMapped ==
  ASSUME Types, Present, ~gone, Running, NEW k \in Node
  PROVE  fps[keywnode[k].fpsindex].mapped
  BY NodeTypes, IsMapped DEF Present

(* So is all that the screen draws: its lines are nodes. *)
LEMMA AllDrawable ==
  ASSUME Types, Present, ~gone, Running
  PROVE  Drawable
<1> DEFINE d == directorynodeSelected
           lev == Len(keywnode[d].path)
           lines == DirectoryLines(d, lev) \cup ParameterLines(d, lev)
<1>1. d \in Node /\ Checked \in Node /\ 0 \in Node
  BY One, Constants DEF Types, Checked
<1>2. ASSUME NEW n \in Node
      PROVE  Children(n) \subseteq Node /\ keywnode[n].child[keywnode[n].NBchild] \in Node
  <2>1. keywnode[n].NBchild \in Nat /\ \A c \in 0 .. keywnode[n].NBchild : keywnode[n].child[c] \in Node
    BY NodeTypes
  <2>2. \A c \in 0 .. keywnode[n].NBchild - 1 : c \in 0 .. keywnode[n].NBchild
    BY <2>1
  <2>3. keywnode[n].NBchild \in 0 .. keywnode[n].NBchild
    BY <2>1
  <2> QED
    BY <2>1, <2>2, <2>3 DEF Children
<1>3. lines \subseteq Node
  BY <1>1, <1>2 DEF DirectoryLines, ParameterLines, Repeated
<1>4. RootColumn(lev) \subseteq Node
  BY <1>1, <1>2 DEF RootColumn
<1> HIDE DEF lines, lev
<1>5. \A i \in NodeInfo \cup Summary(lev) \cup {keywnode[k].fpsindex : k \in lines} :
        \E k \in Node : i = keywnode[k].fpsindex
  BY <1>1, <1>3, <1>4 DEF NodeInfo, Summary
<1>6. \A i \in NodeInfo \cup Summary(lev) \cup {keywnode[k].fpsindex : k \in lines} : fps[i].mapped
  BY <1>5, NodeMapped
<1> QED
  BY <1>6 DEF Drawable, lines, lev

(* Steps that do not scan keep what is needed. *)
LEMMA PresentKept ==
  ASSUME Present, ~gone, pc' # "crash", Len(dir) <= Len(dir'), Len(dir) \in Nat, Len(dir') \in Nat,
         NBfps \in Nat, UNCHANGED <<keywnode, NBfps>>,
         Running' => Running /\ fps' = fps,
         Known(fpsindexSelected'), task' # None => Known(task'.fpsindex)
  PROVE  Present'
<1>1. pc' # "crash" /\ NBfps' <= Len(dir')
  BY DEF Present
<1>2. Running' => NBfps' > 0 /\ \A i \in 0 .. NBfps' - 1 : fps'[i].mapped
  BY DEF Present
<1>3. \A k \in Node : Known(keywnode[k].fpsindex)'
  BY DEF Present, Known
<1>4. Known(fpsindexSelected)' /\ (task' # None => Known(task.fpsindex)')
  BY DEF Known
<1> QED
  BY <1>1, <1>2, <1>3, <1>4 DEF Present

(* A scan of a directory that is no shorter than the list. *)
LEMMA PresentScan ==
  ASSUME Types, Present, ~gone, Scan(dir, fps), UNCHANGED <<editVars, task, dir>>, pc' # "crash",
         dir = <<>> => ~Running'
  PROVE  Present'
<1> DEFINE n == Len(dir)
           b == IF n = 0 THEN 1 ELSE n
<1>1. Names(dir) /\ fps \in [FpsIndex -> FpsRec] /\ NBfps \in Nat /\ n \in Nat /\ NBfps <= n
  BY Constants, NamesOf DEF Types, Present
<1>2. n = 0 => dir = <<>>
  BY <1>1, NamesOf
<1> HIDE DEF n
<1>3. b \in Nat /\ n <= b /\ \A x \in Nat : x = 0 \/ x < NBfps => x < b
  BY <1>1
<1>4. \A x \in Nat : x < b => x = 0 \/ x < n
  BY <1>1
<1> HIDE DEF b
<1>5. \A k \in Node : keywnode[k].fpsindex < b
  BY <1>3, NodeTypes DEF Present, Known
<1>6. /\ keywnode' \in [Node -> NodeRec] /\ NBfps' = n
      /\ \A i \in 0 .. n - 1 : fps'[i].mapped
      /\ Upto(TreeNow', dir, b, n + 1, 1, 0)
  BY <1>1, <1>3, <1>5, ScanMakes DEF n
<1>7. \A k \in Node : keywnode'[k].fpsindex < b /\ keywnode'[k].fpsindex \in Nat
  <2>1. TreeNow'.node = keywnode'
    BY DEF TreeNow
  <2>2. TreeNow' \in Tree /\ \A k \in Node : TreeNow'.node[k].fpsindex < b
    BY <1>6 DEF Upto
  <2> QED
    BY <2>1, <2>2, Fields
<1>8. \A k \in Node : Known(keywnode[k].fpsindex)'
  BY <1>4, <1>6, <1>7 DEF Known
<1>9. \A x \in Nat : Known(x) => x = 0 \/ x < n
  BY <1>1 DEF Known
<1>10. fpsindexSelected \in Nat /\ (task # None => task.fpsindex \in Nat)
  BY Constants DEF Types, TaskRec
<1>11. Known(fpsindexSelected)' /\ (task' # None => Known(task.fpsindex)')
  BY <1>6, <1>9, <1>10 DEF Present, Known, editVars
<1>12. Running' => NBfps' > 0 /\ \A i \in 0 .. NBfps' - 1 : fps'[i].mapped
  BY <1>1, <1>2, <1>6
<1>13. NBfps' <= Len(dir')
  BY <1>1, <1>6 DEF n
<1> QED
  BY <1>8, <1>11, <1>12, <1>13 DEF Present

(* As long as no FPS is removed, every step keeps this. *)
LEMMA PresentStep == Types /\ Scanned /\ Present /\ [Next]_vars => Present'
<1> SUFFICES ASSUME Types, Scanned, Present, [Next]_vars, ~gone'
             PROVE  Present'
  BY DEF Present
<1>1. /\ Names(dir) /\ Len(dir) \in Nat /\ NBfps \in Nat /\ NBfps <= NBmax
      /\ nodeSelected \in Node /\ fpsindexSelected \in FpsIndex
  BY Constants, NamesOf DEF Types
<1>2. ASSUME ~gone
      PROVE  Known(fpsindexSelected) /\ (task # None => Known(task.fpsindex)) /\ pc # "crash"
             /\ (Running => NBfps > 0)
  BY <1>2 DEF Present
<1>3. \A n : Go(n) => pc' \in {"exit", "fifo"}
  BY DEF Go
<1>4. EndOfLoop => pc' \in {"key", "exiting"}
  BY DEF EndOfLoop
<1>5. ASSUME ~gone, pc' # "crash", UNCHANGED <<fps, keywnode, NBfps, fpsindexSelected, task, dir>>,
             Running' => Running
      PROVE  Present'
  BY <1>1, <1>2, <1>5, PresentKept
<1>6. ASSUME ~gone, Running, Command, Processed, pc' # "crash"
      PROVE  Present'
  <2>1. CASE NoCommand
    <3>1. UNCHANGED <<fps, dir, keywnode, NBfps, fpsindexSelected>>
          /\ (task' = task \/ task' = None)
      BY <1>6, <2>1 DEF NoCommand, Processed, editVars
    <3>2. Known(fpsindexSelected') /\ (task' # None => Known(task'.fpsindex))
      BY <1>2, <1>6, <3>1
    <3> QED
      BY <1>1, <1>6, <3>1, <3>2, PresentKept
  <2>2. ASSUME NEW f \in FpsName, Launch(f)
        PROVE  Present'
    <3>1. PICK i \in Entry(f) : task' = [fpsindex |-> i, name |-> f]
      BY <2>2 DEF Launch
    <3>2. i \in 0 .. NBfps - 1
      BY <1>6, <3>1, EntryOf DEF Running
    <3>3. task'.fpsindex = i /\ Known(i)
      BY <1>1, <3>1, <3>2 DEF Known
    <3>4. UNCHANGED <<fps, dir, keywnode, NBfps, fpsindexSelected>>
      BY <1>6, <2>2 DEF Launch, Processed, editVars
    <3>5. Known(fpsindexSelected') /\ (task' # None => Known(task'.fpsindex))
      BY <1>2, <1>6, <3>3, <3>4
    <3> QED
      BY <1>1, <1>6, <3>4, <3>5, PresentKept
  <2>3. ASSUME NEW f \in FpsName, Fpsrm(f)
        PROVE  FALSE
    BY <2>3 DEF Fpsrm
  <2> QED
    BY <1>6, <2>1, <2>2, <2>3 DEF Command
<1>7. ASSUME NEW i, NEW A, Reading(i, A), fps[i].mapped
      PROVE  A
  BY <1>7 DEF Reading
<1>8. CASE Start
  <2>1. /\ ~gone /\ Scan(dir, fps) /\ UNCHANGED <<editVars, task, dir>>
        /\ pc' = IF dir = <<>> THEN "exit" ELSE "key"
    BY <1>8 DEF Start, envVars
  <2>2. pc' # "crash" /\ (dir = <<>> => ~Running')
    BY <2>1 DEF Running
  <2> QED
    BY <2>1, <2>2, PresentScan
<1>9. CASE Key
  <2> USE DEF Running
  <2>1. CASE KeyNone \/ KeyExit \/ (\E m \in Mode : KeyMode(m)) \/ KeyLeft \/ KeyRight
    <3>1. ~gone /\ pc = "key" /\ pc' # "crash"
          /\ UNCHANGED <<fps, keywnode, NBfps, fpsindexSelected, task, dir>>
      BY <1>3, <2>1 DEF KeyNone, KeyExit, KeyMode, KeyLeft, KeyRight, Select, scanVars, editVars, envVars
    <3> QED
      BY <1>5, <3>1
  <2>2. CASE \E n \in Line : KeyUp(n) \/ KeyDown(n)
    <3>1. ~gone /\ pc = "key" /\ pc' # "crash"
          /\ UNCHANGED <<fps, keywnode, NBfps, fpsindexSelected, task, dir>>
      BY <1>3, <2>2 DEF KeyUp, KeyDown, SetLine, scanVars, editVars, envVars
    <3> QED
      BY <1>5, <3>1
  <2>3. CASE KeyEnter
    <3>1. ~gone /\ pc = "key" /\ UNCHANGED <<fps, keywnode, NBfps, fpsindexSelected, task, dir>>
      BY <2>3 DEF KeyEnter, scanVars, editVars, envVars
    <3>2. fps[fpsindexSelected].mapped
      BY <1>1, <1>2, <3>1, IsMapped
    <3>3. pc' # "crash"
      BY <1>3, <2>3, <3>2 DEF KeyEnter
    <3> QED
      BY <1>5, <3>1, <3>3
  <2>4. CASE KeyAct
    <3> DEFINE A == Go(NBfps) /\ UNCHANGED <<scanVars, selVars, editVars, loopVars, task, shown, envVars>>
    <3>1. pc = "key" /\ Reading(keywnode[nodeSelected].fpsindex, A)
      BY <2>4 DEF KeyAct
    <3>2. ~gone
      BY <3>1 DEF Reading, envVars
    <3>3. A
      <4>1. fps[keywnode[nodeSelected].fpsindex].mapped
        BY <1>1, <3>1, <3>2, NodeMapped
      <4> HIDE DEF A
      <4> QED
        BY <1>7, <3>1, <4>1
    <3>4. pc' # "crash" /\ UNCHANGED <<fps, keywnode, NBfps, fpsindexSelected, task, dir>>
      BY <1>3, <3>3 DEF scanVars, editVars, envVars
    <3> QED
      BY <1>5, <3>1, <3>2, <3>4
  <2>5. CASE KeyScan
    <3>1. /\ ~gone /\ Scan(dir, fps) /\ UNCHANGED <<editVars, task, dir>> /\ Go(Len(dir))
      BY <2>5 DEF KeyScan, envVars
    <3>2. pc' # "crash" /\ (dir = <<>> => ~Running')
      BY <3>1 DEF Go
    <3> QED
      BY <3>1, <3>2, PresentScan
  <2>6. CASE KeyScript
    <3>1. pc = "key" /\ Command /\ Processed /\ pc' # "crash"
      BY <1>3, <2>6 DEF KeyScript
    <3>2. ~gone
      BY <3>1 DEF Command, NoCommand, Launch, Fpsrm
    <3> QED
      BY <1>6, <3>1, <3>2
  <2>7. ASSUME NEW skip \in BOOLEAN, KeyErase(skip)
        PROVE  FALSE
    <3> DEFINE i == keywnode[nodeSelected].fpsindex
    <3>1. pc = "key" /\ ~fps[i].mapped /\ gone' = gone
      BY <2>7 DEF KeyErase, Reading, envVars
    <3>2. fps[i].mapped
      BY <1>1, <3>1, NodeMapped
    <3> QED
      BY <3>1, <3>2
  <2> QED
    BY <1>9, <2>1, <2>2, <2>3, <2>4, <2>5, <2>6, <2>7 DEF Key
<1>10. CASE Fifo
  <2> DEFINE A == Command /\ pc' = "screen" /\ Processed
  <2>1. pc = "fifo" /\ (IF task = None THEN A ELSE Reading(task.fpsindex, A))
    BY <1>10 DEF Fifo
  <2>2. ~gone
    BY <2>1 DEF Reading, Command, NoCommand, Launch, Fpsrm, envVars
  <2>3. A
    <3>1. CASE task = None
      BY <2>1, <3>1
    <3>2. CASE task # None
      <4>1. task.fpsindex \in FpsIndex
        BY <3>2 DEF Types, TaskRec
      <4>2. fps[task.fpsindex].mapped
        BY <1>2, <2>1, <2>2, <3>2, <4>1, IsMapped DEF Running
      <4> HIDE DEF A
      <4> QED
        BY <1>7, <2>1, <3>2, <4>2
    <3> QED
      BY <3>1, <3>2
  <2> QED
    BY <1>6, <2>1, <2>2, <2>3 DEF Running
<1>11. CASE SkipDisplay \/ OtherScreen
  <2>1. ~gone /\ pc \in {"fifo", "screen"} /\ pc' # "crash"
        /\ UNCHANGED <<fps, keywnode, NBfps, fpsindexSelected, task, dir>>
    BY <1>4, <1>11 DEF SkipDisplay, OtherScreen, scanVars, editVars, envVars
  <2> QED
    BY <1>5, <2>1 DEF Running
<1>12. CASE FpsScreen
  <2> DEFINE d == directorynodeSelected
             l == SelectedLine(d)
             c == IF l >= 0 THEN keywnode[d].child[l] ELSE Checked
  <2>1. /\ ~gone /\ pc = "screen" /\ pc' # "crash" /\ fpsindexSelected' = keywnode[c].fpsindex
        /\ UNCHANGED <<fps, keywnode, NBfps, task, dir>>
    BY <1>4, <1>12 DEF FpsScreen, envVars
  <2>2. d \in Node /\ Checked \in Node
    BY One DEF Types, Checked
  <2>3. l \in -1 .. MaxChild - 1 /\ keywnode[d].child \in [0 .. MaxChild - 1 -> Node]
    BY <2>2, NodeTypes, ScreenLine
  <2>4. c \in Node
    BY <2>2, <2>3, Constants
  <2> HIDE DEF c
  <2>5. Known(fpsindexSelected') /\ (task' # None => Known(task'.fpsindex))
    BY <1>2, <2>1, <2>4 DEF Present
  <2>6. Running
    BY <2>1 DEF Running
  <2> QED
    BY <1>1, <2>1, <2>5, <2>6, PresentKept
<1>13. CASE FpsScreenCrash
  <2>1. ~gone /\ pc = "screen" /\ ~Drawable
    BY <1>13 DEF FpsScreenCrash, envVars
  <2> QED
    BY <2>1, AllDrawable DEF Running
<1>14. CASE Leave
  <2>1. /\ ~gone /\ pc' = "exit" /\ UNCHANGED <<keywnode, NBfps, fpsindexSelected, task, dir>>
    <3>1. pc' = "exit" /\ UNCHANGED <<keywnode, NBfps, editVars, task, envVars>>
      BY <1>14, Zenon DEF Leave
    <3> QED
      BY <3>1 DEF editVars, envVars
  <2>2. ~Running' /\ pc' # "crash"
    BY <2>1 DEF Running
  <2> QED
    BY <1>1, <1>2, <2>1, <2>2, PresentKept
<1>15. ASSUME NEW f \in FpsName, Appear(f)
       PROVE  Present'
  <2>1. /\ ~gone /\ pc = "key" /\ UNCHANGED <<fps, keywnode, NBfps, fpsindexSelected, task, pc>>
        /\ \A i \in DOMAIN dir : dir[i] # f
        /\ \E i \in 1 .. Len(dir) + 1 : dir' = InsertAt(dir, i, f)
    BY <1>15 DEF Appear, scanVars, editVars
  <2>2. Len(dir') = Len(dir) + 1
    BY <1>1, <2>1, InsertNames
  <2>3. pc' # "crash" /\ Len(dir) <= Len(dir') /\ Len(dir') \in Nat
    BY <1>1, <2>1, <2>2
  <2>4. Known(fpsindexSelected') /\ (task' # None => Known(task'.fpsindex))
    BY <1>2, <2>1
  <2> QED
    BY <1>1, <2>1, <2>3, <2>4, PresentKept DEF Running
<1>16. ASSUME NEW f \in FpsName, Vanish(f)
       PROVE  FALSE
  BY <1>16 DEF Vanish
<1>17. CASE UNCHANGED vars
  <2>1. UNCHANGED <<fps, keywnode, NBfps, fpsindexSelected, task, dir, pc, gone>>
    BY <1>17 DEF vars, scanVars, editVars, envVars
  <2> QED
    BY <1>2, <1>5, <2>1 DEF Running
<1> QED
  BY <1>8, <1>9, <1>10, <1>11, <1>12, <1>13, <1>14, <1>15, <1>16, <1>17 DEF Next

(* fpsCTRL reads the memory of an FPS that it has disconnected only after  *)
(* an FPS was removed: FPSs that come, scans, commands and keys on any     *)
(* screen do not lead there.                                               *)
THEOREM CrashCorrect == Spec => []CrashOnlyAfterRemoval
<1> DEFINE Inv == Types /\ Scanned /\ Present
<1>1. Init => Inv
  <2>1. ASSUME Init PROVE Present
    <3>1. /\ pc = "start" /\ NBfps = 0 /\ task = None /\ fpsindexSelected = 0 /\ Len(dir) \in Nat
          /\ \A k \in Node : keywnode[k] = NoNode
      BY <2>1, TypesInit, NamesOf DEF Init, Types
    <3>2. NoNode.fpsindex = 0
      BY DEF NoNode
    <3> QED
      BY <3>1, <3>2 DEF Present, Known, Running
  <2> QED
    BY <2>1, TypesInit, ScannedInit
<1>2. Inv /\ [Next]_vars => Inv'
  BY TypesStep, ScannedStep, PresentStep
<1>3. Inv => CrashOnlyAfterRemoval
  BY DEF Present, CrashOnlyAfterRemoval
<1> HIDE DEF Inv
<1> QED
  BY <1>1, <1>2, <1>3, PTL DEF Spec

-----------------------------------------------------------------------------
(* The selection.                                                          *)

(* Above every node there is one on the list of the root that begins with  *)
(* the same name.                                                          *)
LEMMA Ancestor ==
  ASSUME Types, Scanned, NEW k \in 1 .. NBkwn - 1
  PROVE  \E r \in 1 .. NBkwn - 1 : /\ keywnode[r].parent = 0
                                   /\ keywnode[r].path[1] = keywnode[k].path[1]
<1> DEFINE T == 1 .. NBkwn - 1
           Under(j) == \E r \in T : keywnode[r].parent = 0 /\ keywnode[r].path[1] = keywnode[j].path[1]
           S == {n \in Nat : \A j \in T : j <= n => Under(j)}
<1>1. NBkwn \in Nat /\ k \in T /\ k \in Nat
  BY Constants DEF Types
<1>2. Shape(TreeNow)
  BY <1>1 DEF Scanned, Upto
<1>3. ASSUME NEW j \in T
      PROVE  /\ keywnode[j].parent \in Nat /\ keywnode[j].parent < j
             /\ keywnode[j].path \in Seq(FpsName \cup STRING) /\ keywnode[j].path # <<>>
             /\ keywnode[keywnode[j].parent].path = Front(keywnode[j].path)
  <2>1. j \in Node /\ keywnode[j].path \in Seq(FpsName \cup STRING)
    BY NodeOf
  <2>2. keywnode[j].parent \in Nat
    BY <2>1, NodeTypes, Constants
  <2>3. j \in Below(TreeNow) /\ TreeNow.node = keywnode
    BY DEF Below, TreeNow
  <2> QED
    BY <1>2, <2>1, <2>2, <2>3 DEF Shape
<1>4. \A s \in Seq(FpsName \cup STRING) : Front(s) # <<>> => Front(s)[1] = s[1]
  <2> SUFFICES ASSUME NEW s \in Seq(FpsName \cup STRING), Front(s) # <<>>
               PROVE  Front(s)[1] = s[1]
    OBVIOUS
  <2>1. Front(s) = SubSeq(s, 1, Len(s) - 1)
    BY DEF Front
  <2> QED
    BY <2>1
<1>5. 0 \in S
  BY <1>1
<1>6. ASSUME NEW n \in Nat, n \in S
      PROVE  n + 1 \in S
  <2>1. ASSUME NEW j \in T, j = n + 1
        PROVE  Under(j)
    <3>1. CASE keywnode[j].parent = 0
      BY <3>1
    <3>2. CASE keywnode[j].parent # 0
      <4> DEFINE u == keywnode[j].parent
      <4>1. u \in T /\ u <= n
        BY <1>1, <1>3, <2>1, <3>2
      <4>2. keywnode[u].path[1] = keywnode[j].path[1]
        BY <1>3, <1>4, <4>1
      <4>3. Under(u)
        BY <1>6, <4>1
      <4> QED
        BY <4>2, <4>3
    <3> QED
      BY <3>1, <3>2
  <2> HIDE DEF Under
  <2>2. \A j \in T : j <= n => Under(j)
    BY <1>6
  <2>3. \A j \in T : j <= n + 1 => j <= n \/ j = n + 1
    BY <1>1
  <2> QED
    BY <1>1, <2>1, <2>2, <2>3
<1> HIDE DEF S
<1>7. k \in S
  BY <1>1, <1>5, <1>6, Climb
<1>8. Under(k)
  BY <1>1, <1>7 DEF S
<1> QED
  BY <1>8

(* It is of the same FPS. *)
LEMMA InRootColumn ==
  ASSUME Types, Scanned, NEW k \in 1 .. NBkwn - 1
  PROVE  \E r \in Children(0) : keywnode[r].fpsindex = keywnode[k].fpsindex
<1>1. PICK r \in 1 .. NBkwn - 1 : keywnode[r].parent = 0 /\ keywnode[r].path[1] = keywnode[k].path[1]
  BY Ancestor
<1> DEFINE i == keywnode[r].fpsindex
           j == keywnode[k].fpsindex
<1>2. i \in 0 .. NBfps - 1 /\ j \in 0 .. NBfps - 1 /\ fps[i].name = fps[j].name
  BY <1>1, NodeOf
<1>3. Names(ScannedDir) /\ pc # "start"
  BY <1>2 DEF Scanned
<1> HIDE DEF i, j
<1>4. /\ i + 1 \in 1 .. Len(ScannedDir) /\ j + 1 \in 1 .. Len(ScannedDir)
      /\ ScannedDir[i + 1] = ScannedDir[j + 1]
  BY <1>2, <1>3, ListOf
<1>5. i + 1 = j + 1
  BY <1>3, <1>4, NamesOf
<1>6. i = j
  BY <1>2, <1>5
<1>7. \E c \in 0 .. keywnode[0].NBchild - 1 : keywnode[0].child[c] = r
  <2>1. Shape(TreeNow)
    BY <1>3 DEF Scanned, Upto
  <2>2. TreeNow.node = keywnode /\ r \in Below(TreeNow)
    BY DEF TreeNow, Below
  <2> QED
    BY <1>1, <2>1, <2>2 DEF Shape
<1>8. r \in Children(0)
  BY <1>7 DEF Children
<1> QED
  BY <1>6, <1>8 DEF i, j

(* The line on which the screen puts the selection. *)
LEMMA LineShown ==
  ASSUME Types, Scanned, pc # "start", NEW l \in Nat, l <= keywnode[directorynodeSelected].NBchild - 1
  PROVE  LET c == keywnode[directorynodeSelected].child[l] IN
         c \in 1 .. NBkwn - 1 /\ c \in Children(directorynodeSelected)
<1> DEFINE d == directorynodeSelected
           n == keywnode[d].NBchild
<1>1. d \in Nat /\ d < NBnode /\ n \in Nat /\ d \in Node
  BY NodeTypes, Constants DEF Types
<1>2. l \in 0 .. n - 1 /\ n # 0
  BY <1>1
<1>3. Shape(TreeNow) /\ TreeNow.node = keywnode /\ TreeNow.NBkwn = NBkwn /\ NBkwn \in Nat
  BY Constants DEF Scanned, Upto, TreeNow, Types
<1>4. \A k \in NBkwn .. NBnode - 1 : keywnode[k].NBchild = 0
  BY <1>3 DEF Shape
<1>5. d \in 0 .. NBkwn - 1
  BY <1>1, <1>2, <1>3, <1>4, Constants
<1>6. keywnode[d].child[l] \in 1 .. NBkwn - 1
  BY <1>2, <1>3, <1>5 DEF Shape, Below
<1>7. keywnode[d].child[l] \in Children(d)
  BY <1>2 DEF Children
<1> QED
  BY <1>6, <1>7

(* The FPS of a line that was drawn is mapped: parameters read it, as do   *)
(* directories at the root; below the root its column does.                *)
LEMMA LineMapped ==
  ASSUME Types, Scanned, Drawable, NEW c \in 1 .. NBkwn - 1, c \in Children(directorynodeSelected)
  PROVE  fps[keywnode[c].fpsindex].mapped
<1> DEFINE d == directorynodeSelected
           lev == Len(keywnode[d].path)
           lines == DirectoryLines(d, lev) \cup ParameterLines(d, lev)
<1>1. \A i \in NodeInfo \cup Summary(lev) \cup {keywnode[k].fpsindex : k \in lines} : fps[i].mapped
  BY DEF Drawable
<1>2. keywnode[c].leaf \in {0, 1} /\ lev \in Nat
  BY NodeOf, NodeTypes, TreeAssumption DEF Types, Level
<1>3. CASE keywnode[c].leaf = 1
  <2>1. c \in lines
    BY <1>3 DEF ParameterLines
  <2> QED
    BY <1>1, <2>1
<1>4. CASE keywnode[c].leaf = 0 /\ lev = 0
  <2>1. c \in lines
    BY <1>4 DEF DirectoryLines
  <2> QED
    BY <1>1, <2>1
<1>5. CASE keywnode[c].leaf = 0 /\ lev > 0
  <2>1. PICK r \in Children(0) : keywnode[r].fpsindex = keywnode[c].fpsindex
    BY InRootColumn
  <2>2. keywnode[r].fpsindex \in Summary(lev)
    BY <1>5 DEF Summary, RootColumn
  <2> QED
    BY <1>1, <2>1, <2>2
<1> QED
  BY <1>2, <1>3, <1>4, <1>5

(* Every step that leads to the keys shows nothing, or what is selected. *)
LEMMA ActsStep == Types /\ Scanned /\ ActsOnShown /\ [Next]_vars => ActsOnShown'
<1> SUFFICES ASSUME Types, Scanned, ActsOnShown, [Next]_vars, pc' = "key", shown' # None
             PROVE  ActsOnShown'
  BY DEF ActsOnShown
<1>1. \A n : Go(n) => pc' # "key"
  BY DEF Go
<1>2. CASE Start
  <2>1. shown' = None
    BY <1>2 DEF Start, Scanned
  <2> QED
    BY <2>1
<1>3. CASE Key \/ Fifo \/ FpsScreenCrash \/ Leave
  <2>1. CASE KeyNone \/ KeyExit \/ KeyScan \/ KeyLeft \/ KeyRight \/ KeyEnter \/ KeyAct \/ KeyScript
    BY <1>1, <2>1 DEF KeyNone, KeyExit, KeyScan, KeyLeft, KeyRight, Select, KeyEnter, KeyAct, Reading,
                      KeyScript
  <2>2. CASE \E m \in Mode : KeyMode(m)
    BY <1>1, <2>2 DEF KeyMode
  <2>3. CASE \E skip \in BOOLEAN : KeyErase(skip)
    BY <1>1, <2>3 DEF KeyErase, Reading
  <2>4. CASE \E n \in Line : KeyUp(n) \/ KeyDown(n)
    BY <1>1, <2>4 DEF KeyUp, KeyDown, SetLine
  <2>5. CASE Fifo \/ FpsScreenCrash
    BY <2>5 DEF Fifo, Reading, FpsScreenCrash
  <2>6. CASE Leave
    <3>1. pc' = "exit"
      BY <2>6, Zenon DEF Leave
    <3> QED
      BY <3>1
  <2> QED
    BY <1>3, <2>1, <2>2, <2>3, <2>4, <2>5, <2>6 DEF Key
<1>4. CASE SkipDisplay \/ OtherScreen
  BY <1>4 DEF SkipDisplay, OtherScreen
<1>5. CASE FpsScreen
  <2> DEFINE d == directorynodeSelected
             l == SelectedLine(d)
             c == IF l >= 0 THEN keywnode[d].child[l] ELSE Checked
             n == keywnode[c]
  <2>1. /\ pc = "screen" /\ Drawable /\ nodeSelected' = c /\ fpsindexSelected' = n.fpsindex
        /\ pindexSelected' = (IF n.leaf = 1 THEN n.pindex ELSE keywnode[Checked].pindex)
        /\ shown' = (IF l >= 0 THEN n.path ELSE None)
        /\ UNCHANGED <<fps, keywnode, NBkwn>>
    BY <1>5 DEF FpsScreen
  <2>2. l >= 0 /\ shown' = n.path
    BY <2>1
  <2>3. l \in -1 .. MaxChild - 1 /\ l <= keywnode[d].NBchild - 1
    BY ScreenLine DEF Types
  <2> HIDE DEF l
  <2>4. l \in Nat
    BY <2>2, <2>3, Constants
  <2>5. c = keywnode[d].child[l]
    BY <2>2
  <2> HIDE DEF c
  <2>6. c \in 1 .. NBkwn - 1 /\ c \in Children(d)
    BY <2>1, <2>3, <2>4, <2>5, LineShown
  <2> HIDE DEF d
  <2>7. /\ n.path # <<>> /\ n.path \in Seq(FpsName \cup STRING) /\ n.path[1] = fps[n.fpsindex].name
        /\ n.leaf = 1 => Path(fps[n.fpsindex].name, n.pindex + 1) = n.path
    BY <2>6, NodeOf
  <2>8. fps[n.fpsindex].mapped
    BY <2>1, <2>6, LineMapped DEF d
  <2>9. c < NBkwn
    BY <2>6, Constants DEF Types
  <2>10. n.path[1] = Head(n.path)
    BY <2>7
  <2>11. keywnode'[nodeSelected'] = n
    BY <2>1
  <2> HIDE DEF n
  <2>12. /\ nodeSelected' < NBkwn' /\ n.path = shown'
         /\ fps'[n.fpsindex].mapped /\ fps'[n.fpsindex].name = Head(shown')
         /\ n.leaf = 1 => /\ fpsindexSelected' = n.fpsindex
                          /\ Path(fps'[fpsindexSelected'].name, pindexSelected' + 1) = shown'
    BY <2>1, <2>2, <2>7, <2>8, <2>9, <2>10
  <2> QED
    BY <2>11, <2>12 DEF ActsOnShown, Path
<1>6. CASE (\E f \in FpsName : Appear(f) \/ Vanish(f)) \/ UNCHANGED vars
  <2>1. UNCHANGED <<pc, shown, nodeSelected, fpsindexSelected, pindexSelected, fps, keywnode, NBkwn>>
    BY <1>6 DEF Appear, Vanish, vars, scanVars, selVars, editVars
  <2> QED
    BY <2>1 DEF ActsOnShown, Path
<1> QED
  BY <1>2, <1>3, <1>4, <1>5, <1>6 DEF Next

(* What a key is about to act on is what the screen has shown as selected, *)
(* in whatever order keys, commands, scans and other programs came.        *)
THEOREM ActsCorrect == Spec => []ActsOnShown
<1> DEFINE Inv == Types /\ Scanned /\ ActsOnShown
<1>1. Init => Inv
  <2>1. Init => ActsOnShown
    BY DEF Init, ActsOnShown
  <2> QED
    BY <2>1, TypesInit, ScannedInit
<1>2. Inv /\ [Next]_vars => Inv'
  BY TypesStep, ScannedStep, ActsStep
<1>3. Inv => ActsOnShown
  OBVIOUS
<1> HIDE DEF Inv
<1> QED
  BY <1>1, <1>2, <1>3, PTL DEF Spec

=============================================================================
