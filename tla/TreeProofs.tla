----------------------------- MODULE TreeProofs -----------------------------
(***************************************************************************)
(* The B+ tree of Node as a whole: what an insertion and a deletion make   *)
(* of the tree and of the chain of its leaves, and what lookups find; and  *)
(* how much of that is true of an index in a file that holds other pages,  *)
(* and nodes that nothing leads to.                                        *)
(***************************************************************************)
EXTENDS NodeProofs
LOCAL INSTANCE SequencesExt

-----------------------------------------------------------------------------
(* The insertion from the leaf up to the root *)

\* What btree_insert returns at the nodes of a path of n pages, from the leaf up
\* to k pages above it.
IsOut(out, n, k, atLeaf, path) ==
    /\ out = [d \in n - k .. n |-> out[d]]
    /\ out[n] = atLeaf
    /\ \A d \in n - k .. n : d # n => out[d] = insert_above(out[d + 1], path[d])

LEMMA OutExists ==
    ASSUME NEW n \in Nat, NEW m \in Nat, NEW atLeaf, NEW path
    PROVE  \E out : IsOut(out, n, m, atLeaf, path)
  <1> DEFINE S == {k \in Nat : \E out : IsOut(out, n, k, atLeaf, path)}
  <1>1. 0 \in S
    <2> DEFINE out == [d \in n - 0 .. n |-> atLeaf]
    <2>1. out = [d \in n - 0 .. n |-> out[d]] /\ out[n] = atLeaf
      OBVIOUS
    <2>2. \A d \in n - 0 .. n : d = n
      OBVIOUS
    <2> HIDE DEF out
    <2>3. IsOut(out, n, 0, atLeaf, path)
      BY <2>1, <2>2 DEF IsOut
    <2> QED
      BY <2>3
  <1>2. ASSUME NEW k \in Nat, k \in S PROVE k + 1 \in S
    <2>1. PICK out : IsOut(out, n, k, atLeaf, path)
      BY <1>2
    <2>2. PICK f, new : f = n - k /\ new = insert_above(out[f], path[f - 1])
      OBVIOUS
    <2>3. f \in Int /\ f <= n /\ n - (k + 1) = f - 1
      BY <2>2
    <2>4. PICK h : h = [d \in f - 1 .. n |-> IF d = f - 1 THEN new ELSE out[d]]
      OBVIOUS
    <2>5. /\ h = [d \in f - 1 .. n |-> h[d]] /\ h[f - 1] = new
          /\ \A d \in f .. n : h[d] = out[d]
      BY <2>3, <2>4
    <2>6. h[n] = atLeaf
      <3>1. out[n] = atLeaf
        BY <2>1 DEF IsOut
      <3>2. n \in f .. n
        BY <2>3
      <3> QED
        BY <2>5, <3>1, <3>2
    <2>7. ASSUME NEW d \in f - 1 .. n, d # n PROVE h[d] = insert_above(h[d + 1], path[d])
      <3>1. CASE d = f - 1
        <4>1. d + 1 = f /\ f \in f .. n
          BY <2>3, <3>1
        <4> QED
          BY <2>2, <2>5, <3>1, <4>1
      <3>2. CASE d # f - 1
        <4>1. PICK e : e = d + 1
          OBVIOUS
        <4>2. d \in f .. n /\ e \in f .. n
          BY <2>3, <2>7, <3>2, <4>1
        <4>3. out[d] = insert_above(out[e], path[d])
          BY <2>1, <2>2, <2>7, <4>1, <4>2 DEF IsOut
        <4> QED
          BY <2>5, <4>1, <4>2, <4>3
      <3> QED
        BY <3>1, <3>2
    <2>8. IsOut(h, n, k + 1, atLeaf, path)
      BY <2>3, <2>5, <2>6, <2>7 DEF IsOut
    <2> QED
      BY <2>8
  <1> HIDE DEF S
  <1>3. m \in S
    BY <1>1, <1>2, Induction
  <1> QED
    BY <1>3 DEF S

\* What the recursion of btree_insert computes.
Rising(out, pg, num, root, key, value, path, n) ==
    /\ IsOut(out, n, n - 1, insert_at_leaf(pg, num, path[n], key, value), path)
    /\ btree_insert(pg, num, root, key, value) = out[1]

LEMMA OutIs ==
    ASSUME NEW pg, NEW num, NEW root, NEW key, NEW value,
           NEW path, path = Path(pg, root, key), NEW n \in Nat, n # 0, n = Len(path)
    PROVE  \E out : Rising(out, pg, num, root, key, value, path, n)
  <1> DEFINE atLeaf == insert_at_leaf(pg, num, path[n], key, value)
             Body(f) == [d \in 1 .. n |-> IF d = n
                                          THEN insert_at_leaf(pg, num, path[d], key, value)
                                          ELSE insert_above(f[d + 1], path[d])]
             out == CHOOSE f : f = Body(f)
  <1>1. PICK w : IsOut(w, n, n - 1, atLeaf, path)
    <2>1. n - 1 \in Nat
      OBVIOUS
    <2> QED
      BY <2>1, OutExists
  <1>2. w = Body(w)
    <2>1. n - (n - 1) = 1
      OBVIOUS
    <2>2. /\ w = [d \in 1 .. n |-> w[d]]
          /\ \A d \in 1 .. n : w[d] = IF d = n THEN insert_at_leaf(pg, num, path[d], key, value)
                                      ELSE insert_above(w[d + 1], path[d])
      BY <1>1, <2>1 DEF IsOut
    <2> QED
      BY <2>2
  <1>3. out = Body(out)
    <2> HIDE DEF Body
    <2> QED
      BY <1>2
  <1>4. btree_insert(pg, num, root, key, value) = out[1]
    BY DEF btree_insert, Once
  <1> HIDE DEF out
  <1>5. IsOut(out, n, n - 1, atLeaf, path)
    <2>1. n - (n - 1) = 1 /\ n \in 1 .. n
      OBVIOUS
    <2>2. /\ out = [d \in 1 .. n |-> out[d]] /\ out[n] = atLeaf
          /\ \A d \in 1 .. n : d # n => out[d] = insert_above(out[d + 1], path[d])
      BY <1>3, <2>1
    <2> QED
      BY <2>1, <2>2 DEF IsOut
  <1> QED
    BY <1>4, <1>5 DEF Rising

LEMMA ResultMore ==
    ASSUME NEW o, NEW pg, NEW N, NEW V, NEW num, NEW level, NEW X, NEW h, NEW cell,
           Result(o, pg, N, V, num, level, X, h, cell), NEW Y, X \subseteq Y
    PROVE  Result(o, pg, N, V, num, level, Y, h, cell)
  <1>1. \A p \in Pages(N) : p \notin Y => p \notin X
    OBVIOUS
  <1> QED
    BY <1>1 DEF Result

\* A path that ends at a leaf.
LeafPath(path, pg, N, level, root, key) ==
    IsPath(path, pg, N, level, root, key) /\ IsLeaf(pg[path[Len(path)]])

Steps(path, pg, N, level, root, n) ==
    /\ n \in Nat \ {0} /\ n = level[root] + 1 /\ path[1] = root
    /\ \A d \in 1 .. n : /\ path[d] \in Pages(N) /\ NodeAt(pg, path[d])
                         /\ level[path[d]] = n - d

LEMMA PathLevels ==
    ASSUME NEW pg, NEW N, NEW V, NEW num, NEW level, Shape(pg, N, V, num, level),
           NEW root \in Pages(N), NodeAt(pg, root), NEW key,
           NEW path, LeafPath(path, pg, N, level, root, key), NEW n, n = Len(path)
    PROVE  Steps(path, pg, N, level, root, n)
  <1>1. /\ path \in Seq(Pages(N)) /\ n \in Nat \ {0} /\ path[1] = root
        /\ \A d \in 1 .. n :
              /\ IsInternal(pg[path[d]]) <=> d # n
              /\ d # n => level[path[d]] + d = level[root] + 1
        /\ \/ path[n] = 0
           \/ IsLeaf(pg[path[n]]) /\ n = level[root] + 1
        /\ IsLeaf(pg[path[n]])
    BY DEF LeafPath, IsPath
  <1>2. /\ ~NodeAt(pg, 0) /\ level \in [Pages(N) -> Nat]
    BY DEF Shape
  <1>3. n = level[root] + 1
    BY <1>1, <1>2 DEF NodeAt
  <1>4. ASSUME NEW d \in 1 .. n
        PROVE  path[d] \in Pages(N) /\ NodeAt(pg, path[d]) /\ level[path[d]] = n - d
    <2>1. path[d] \in Pages(N)
      BY <1>1
    <2>2. NodeAt(pg, path[d])
      BY <1>1 DEF NodeAt
    <2>3. CASE d = n
      <3>1. level[path[n]] = 0
        BY <1>1, <2>1, <2>2, <2>3, Kinds
      <3> QED
        BY <1>1, <2>1, <2>2, <2>3, <3>1
    <2>4. CASE d # n
      <3>1. level[path[d]] + d = n /\ level[path[d]] \in Nat
        BY <1>1, <1>2, <1>3, <2>1, <2>4
      <3> QED
        BY <2>1, <2>2, <3>1
    <2> QED
      BY <2>3, <2>4
  <1> QED
    BY <1>1, <1>3, <1>4 DEF Steps

PagesOf(path) == {path[d] : d \in 1 .. Len(path)}

\* What comes of an insertion at every node of the path.
LEMMA Results ==
    ASSUME NEW pg, NEW N, NEW V, NEW num, NEW level, Shape(pg, N, V, num, level),
           Fresh(level, N, num), NEW root \in Pages(N), NodeAt(pg, root),
           NEW key \in Nat, NEW value \in V,
           NEW path, LeafPath(path, pg, N, level, root, key), NEW n, n = Len(path),
           NEW out, IsOut(out, n, n - 1, insert_at_leaf(pg, num, path[n], key, value), path),
           NEW d \in 1 .. n
    PROVE  Result(out[d], pg, N, V, num, level, PagesOf(path), n - d, CellOf(key, value))
  <1>1. /\ n \in Nat \ {0}
        /\ \A e \in 1 .. n : /\ path[e] \in Pages(N) /\ NodeAt(pg, path[e])
                             /\ level[path[e]] = n - e
    <2>1. Steps(path, pg, N, level, root, n)
      BY PathLevels
    <2> QED
      BY <2>1 DEF Steps
  <1>2. /\ \A e \in 1 .. n : IsInternal(pg[path[e]]) <=> e # n
        /\ IsLeaf(pg[path[n]])
    BY DEF LeafPath, IsPath
  <1>3. PICK X, cell : X = PagesOf(path) /\ cell = CellOf(key, value)
    OBVIOUS
  <1>4. \A e \in 1 .. n : path[e] \in X
    BY <1>3 DEF PagesOf
  <1>5. /\ out[n] = insert_at_leaf(pg, num, path[n], key, value)
        /\ \A e \in 1 .. n : e # n => out[e] = insert_above(out[e + 1], path[e])
    <2>1. n - (n - 1) = 1
      BY <1>1
    <2> QED
      BY <2>1 DEF IsOut
  <1> DEFINE S == {k \in Nat : k < n => Result(out[n - k], pg, N, V, num, level, X, k, cell)}
  <1>6. 0 \in S
    <2>1. PICK x, o : x = path[n] /\ o = out[n]
      OBVIOUS
    <2>2. x \in Pages(N) /\ IsLeaf(pg[x]) /\ {x} \subseteq X /\ n - 0 = n
      BY <1>1, <1>2, <1>4, <2>1
    <2>3. Result(o, pg, N, V, num, level, {x}, 0, cell)
      BY <1>3, <1>5, <2>1, <2>2, LeafResult
    <2>4. Result(o, pg, N, V, num, level, X, 0, cell)
      BY <2>2, <2>3, ResultMore
    <2> QED
      BY <2>1, <2>2, <2>4
  <1>7. ASSUME NEW k \in Nat, k \in S PROVE k + 1 \in S
    <2> SUFFICES ASSUME k + 1 < n
                 PROVE  Result(out[n - (k + 1)], pg, N, V, num, level, X, k + 1, cell)
      OBVIOUS
    <2>1. PICK e, g : e = n - (k + 1) /\ g = k + 1
      OBVIOUS
    <2>2. e \in 1 .. n /\ e # n /\ e + 1 = n - k /\ n - e = k + 1 /\ k < n
      BY <1>1, <2>1
    <2>3. PICK below, x, o : below = out[n - k] /\ x = path[e] /\ o = out[e]
      OBVIOUS
    <2>4. Result(below, pg, N, V, num, level, X, k, cell)
      BY <1>7, <2>2, <2>3
    <2>5. o = insert_above(below, x)
      BY <1>5, <2>2, <2>3
    <2>6. x \in Pages(N) /\ IsInternal(pg[x]) /\ level[x] = k + 1 /\ x \in X
      BY <1>1, <1>2, <1>4, <2>2, <2>3
    <2>7. Result(o, pg, N, V, num, level, X, g, cell)
      BY <2>1, <2>4, <2>5, <2>6, AboveResult
    <2> QED
      BY <2>1, <2>3, <2>7
  <1> HIDE DEF S
  <1>8. PICK k : k = n - d
    OBVIOUS
  <1>9. k \in Nat /\ k < n /\ n - k = d
    BY <1>1, <1>8
  <1>10. k \in S
    BY <1>6, <1>7, <1>9, Induction
  <1> QED
    BY <1>3, <1>8, <1>9, <1>10 DEF S

-----------------------------------------------------------------------------
(* The insertion into the index, with the new root it may need *)

NewRoot(old, key, right) ==
    Internal(<< key >>, [c \in ChildSlots |-> IF c = 0 THEN old ELSE 0], right)

LEMMA NewRootIs ==
    ASSUME NEW P, 0 \in P, NEW old \in P, NEW right \in P, NEW key \in Nat, NEW l, l # 0,
           NEW node, node = NewRoot(old, key, right)
    PROVE  /\ GoodInner(node, P, l)
           /\ Len(node.keys) = 1 /\ node.keys[1] = key
           /\ node.child[0] = old /\ node.right = right
  <1>1. PICK keys, child : /\ keys = << key >>
                           /\ child = [c \in ChildSlots |-> IF c = 0 THEN old ELSE 0]
    OBVIOUS
  <1>2. node = Internal(keys, child, right)
    BY <1>1 DEF NewRoot
  <1>3. /\ node \in [type : {"internal"}, keys : Seq(Nat), child : [ChildSlots -> P], right : P]
        /\ node.keys = keys /\ node.child = child /\ node.right = right
    <2>1. keys \in Seq(Nat) /\ child \in [ChildSlots -> P]
      BY <1>1
    <2> QED
      BY <1>2, <2>1 DEF Internal
  <1>4. Len(keys) = 1 /\ keys[1] = key
    BY <1>1
  <1>5. 0 \in ChildSlots
    BY NodeAssumption DEF ChildSlots
  <1>6. child[0] = old
    BY <1>1, <1>5
  <1>7. node \in InnerNodes(P)
    BY <1>3 DEF InnerNodes
  <1> QED
    BY <1>3, <1>4, <1>6, <1>7, NodeAssumption DEF GoodInner

\* The index after an insertion whose outcome at the old root is o.
Topped(r, o, root) ==
    IF o.split.did_split
    THEN /\ r.pg = Put(o.pg, o.num_pages, NewRoot(root, o.split.key, o.split.new_page))
         /\ r.num_pages = o.num_pages + 1
         /\ r.root_page = o.num_pages /\ r.lost = o.lost
    ELSE /\ r.pg = o.pg /\ r.num_pages = o.num_pages
         /\ r.root_page = root /\ r.lost = o.lost

LEMMA IndexInsertIs ==
    ASSUME NEW pg, NEW num, NEW root, NEW key, NEW value,
           NEW r, r = index_insert(pg, num, root, key, value),
           NEW o, o = btree_insert(pg, num, root, key, value),
           o.split.did_split \in BOOLEAN
    PROVE  Topped(r, o, root)
  <1>1. r = IF o.split.did_split
            THEN [pg |-> create_new_root(o.pg, o.num_pages, root, o.split.new_page, o.split.key),
                  num_pages |-> o.num_pages + 1,
                  root_page |-> o.num_pages, lost |-> o.lost]
            ELSE [pg |-> o.pg, num_pages |-> o.num_pages, root_page |-> root, lost |-> o.lost]
    BY DEF index_insert, Once
  <1>2. create_new_root(o.pg, o.num_pages, root, o.split.new_page, o.split.key)
           = Put(o.pg, o.num_pages, NewRoot(root, o.split.key, o.split.new_page))
    BY DEF create_new_root, Put, NewRoot
  <1>3. PICK q, n1 : q = Put(o.pg, o.num_pages, NewRoot(root, o.split.key, o.split.new_page))
                     /\ n1 = o.num_pages + 1
    OBVIOUS
  <1>4. r = IF o.split.did_split
            THEN [pg |-> q, num_pages |-> n1, root_page |-> o.num_pages, lost |-> o.lost]
            ELSE [pg |-> o.pg, num_pages |-> o.num_pages, root_page |-> root, lost |-> o.lost]
    BY <1>1, <1>2, <1>3
  <1>5. IF o.split.did_split
        THEN r.pg = q /\ r.num_pages = n1 /\ r.root_page = o.num_pages /\ r.lost = o.lost
        ELSE r.pg = o.pg /\ r.num_pages = o.num_pages /\ r.root_page = root /\ r.lost = o.lost
    BY <1>4
  <1> QED
    BY <1>3, <1>5 DEF Topped

\* What an insertion of cell makes of the index that has its root at root and of
\* which the pages of X are the descent.
Grew(r, pg, N, V, num, level, root, X, cell) ==
    /\ Shape(r.pg, N, V, r.num_pages, level)
    /\ r.num_pages >= num
    /\ r.root_page \in Pages(N) /\ NodeAt(r.pg, r.root_page)
    /\ r.root_page = root \/ r.root_page >= num
    /\ level[r.root_page] >= level[root]
    /\ EntriesOf(r.pg, N) = EntriesOf(pg, N) \cup {cell}
    /\ \A p \in Pages(N) : p < num =>
          /\ IsLeaf(r.pg[p]) <=> IsLeaf(pg[p])
          /\ IsInternal(r.pg[p]) <=> IsInternal(pg[p])
    /\ \A p \in Pages(N) : p \notin X /\ p < num => r.pg[p] = pg[p]

LEMMA ToppedGrew ==
    ASSUME NEW pg, NEW N, NEW V, NEW num, NEW level, Shape(pg, N, V, num, level),
           Fresh(level, N, num), NEW root \in Pages(N), NodeAt(pg, root),
           NEW X, NEW cell,
           NEW o, Result(o, pg, N, V, num, level, X, level[root], cell),
           NEW r, Topped(r, o, root), r.num_pages <= N
    PROVE  Grew(r, pg, N, V, num, level, root, X, cell)
  <1>1. /\ N \in Nat /\ num \in 2 .. N /\ pg = [p \in Pages(N) |-> pg[p]]
        /\ level \in [Pages(N) -> Nat]
    BY DEF Shape
  <1>2. PICK h, n1 : h = level[root] /\ n1 = o.num_pages
    OBVIOUS
  <1>3. h \in Nat /\ root < num /\ root # 0
    BY <1>1, <1>2, Kinds
  <1>4. /\ n1 \in num .. num + h + 1 /\ o.split.did_split \in BOOLEAN
        /\ o.split.did_split => n1 = num + h + 1 /\ o.split.new_page = num + h
    BY <1>2 DEF Result
  <1>5. n1 <= N
    BY <1>1, <1>2, <1>4 DEF Topped
  <1>6. /\ Shape(o.pg, N, V, n1, level)
        /\ \A p \in Pages(N) : p < num =>
              /\ IsLeaf(o.pg[p]) <=> IsLeaf(pg[p])
              /\ IsInternal(o.pg[p]) <=> IsInternal(pg[p])
        /\ \A p \in Pages(N) : p \notin X /\ p \notin num .. n1 - 1 => o.pg[p] = pg[p]
        /\ EntriesOf(o.pg, N) = EntriesOf(pg, N) \cup {cell}
        /\ o.split.did_split => o.split.key \in Nat /\ NodeAt(o.pg, o.split.new_page)
    BY <1>2, <1>5 DEF Result
  <1>7. NodeAt(o.pg, root)
    BY <1>3, <1>6 DEF NodeAt
  <1>8. \A p \in Pages(N) : p \notin X /\ p < num => o.pg[p] = pg[p]
    <2>1. \A p \in Pages(N) : p < num => p \notin num .. n1 - 1
      BY <1>1, <1>4 DEF Pages
    <2> QED
      BY <1>6, <2>1
  <1>9. CASE o.split.did_split = FALSE
    <2>1. r.pg = o.pg /\ r.num_pages = n1 /\ r.root_page = root
      BY <1>2, <1>9 DEF Topped
    <2>2. r.num_pages >= num
      BY <1>1, <1>4, <2>1
    <2>3. level[r.root_page] >= level[root]
      BY <1>2, <1>3, <2>1
    <2> QED
      BY <1>6, <1>7, <1>8, <2>1, <2>2, <2>3 DEF Grew
  <1>10. CASE o.split.did_split = TRUE
    <2>1. PICK node : node = NewRoot(root, o.split.key, o.split.new_page)
      OBVIOUS
    <2>2. r.pg = Put(o.pg, n1, node) /\ r.num_pages = n1 + 1 /\ r.root_page = n1
      BY <1>2, <1>10, <2>1 DEF Topped
    <2>3. n1 = num + h + 1 /\ n1 \in Pages(N) /\ n1 < N /\ n1 >= num /\ n1 \in Nat /\ n1 # 0
      BY <1>1, <1>3, <1>4, <1>10, <2>2 DEF Pages
    <2>4. level[n1] = h + 1 /\ level[n1] # 0
      BY <1>1, <1>3, <2>3 DEF Fresh
    <2>5. PICK K, c : K = Kids(o.pg, N, level, level[n1]) /\ c = o.split.new_page
      OBVIOUS
    <2>6. 0 \in K /\ root \in K /\ c \in K
      <3>1. c \in Pages(N) /\ c >= num /\ c - num = h
        BY <1>1, <1>3, <1>4, <1>10, <2>3, <2>5 DEF Pages
      <3>2. level[c] = h
        BY <3>1 DEF Fresh
      <3>3. NodeAt(o.pg, c)
        BY <1>6, <1>10, <2>5
      <3> QED
        BY <1>2, <1>7, <2>4, <2>5, <3>1, <3>2, <3>3 DEF Kids
    <2>7. GoodInner(node, K, level[n1])
      BY <1>6, <1>10, <2>1, <2>4, <2>5, <2>6, NewRootIs
    <2>8. IsInternal(node) /\ ~IsLeaf(node)
      BY <2>7, GoodInnerIs
    <2>9. Fits(node, o.pg, N, V, level, n1)
      BY <2>5, <2>7, <2>8 DEF Fits
    <2>10. Shape(o.pg, N, V, n1 + 1, level) /\ ~NodeAt(o.pg, n1)
      BY <1>6, <2>3, ShapeGrow
    <2>11. PICK n2, q : n2 = n1 + 1 /\ q = r.pg
      OBVIOUS
    <2>12. n1 < n2 /\ level[n1] + 2 <= n2
      BY <1>1, <1>3, <2>3, <2>4, <2>11
    <2>13. Shape(q, N, V, n2, level)
      <3>1. Shape(o.pg, N, V, n2, level)
        BY <2>10, <2>11
      <3>2. q = Put(o.pg, n1, node)
        BY <2>2, <2>11
      <3> QED
        BY <2>3, <2>9, <2>12, <3>1, <3>2, ShapePut
    <2>14. q[n1] = node /\ \A p \in Pages(N) : p # n1 => q[p] = o.pg[p]
      <3>1. o.pg = [p \in Pages(N) |-> o.pg[p]]
        BY <1>6 DEF Shape
      <3> QED
        BY <2>2, <2>3, <2>11, <3>1, PutIs
    <2>15. CellsAdded(o.pg, q, N, {})
      <3>1. CellsAt(q, n1) = {} /\ CellsAt(o.pg, n1) = {}
        BY <2>8, <2>10, <2>14 DEF CellsAt, NodeAt
      <3>2. \A p \in Pages(N) : p # n1 => CellsAt(q, p) = CellsAt(o.pg, p)
        BY <2>14 DEF CellsAt
      <3>3. CellsCame(o.pg, q, N, n1, n1, {})
        BY <3>1, <3>2 DEF CellsCame
      <3> QED
        BY <2>3, <3>3, EntriesMoved
    <2>16. EntriesOf(q, N) = EntriesOf(pg, N) \cup {cell}
      BY <1>6, <2>15 DEF CellsAdded
    <2>17. \A p \in Pages(N) : p < num => p # n1
      BY <1>1, <2>3 DEF Pages
    <2>18. NodeAt(q, n1)
      BY <2>8, <2>14 DEF NodeAt
    <2>19. r.num_pages >= num
      BY <1>1, <2>2, <2>3
    <2>20. level[r.root_page] >= level[root]
      BY <1>2, <1>3, <2>2, <2>4
    <2> QED
      BY <1>6, <1>8, <2>2, <2>3, <2>11, <2>13, <2>14, <2>16, <2>17, <2>18, <2>19, <2>20 DEF Grew
  <1> QED
    BY <1>4, <1>9, <1>10

\* A descent that ends at a leaf has a path that does.
LEMMA DefinedPath ==
    ASSUME NEW pg, NEW N, NEW V, NEW num, NEW level, Shape(pg, N, V, num, level),
           NEW root \in Pages(N), NodeAt(pg, root), NEW key,
           NEW path, path = Path(pg, root, key)
    PROVE  /\ IsPath(path, pg, N, level, root, key)
           /\ btree_find_leaf(pg, root, key) = path[Len(path)]
           /\ path[Len(path)] \in Pages(N)
           /\ DescentDefined(pg, root, key) <=> IsLeaf(pg[path[Len(path)]])
           /\ DescentDefined(pg, root, key) => LeafPath(path, pg, N, level, root, key)
  <1>1. IsPath(path, pg, N, level, root, key)
    BY PathShape
  <1>2. btree_find_leaf(pg, root, key) = path[Len(path)]
    BY DEF btree_find_leaf, Last
  <1>3. path[Len(path)] \in Pages(N)
    BY <1>1 DEF IsPath
  <1>4. DOMAIN pg = Pages(N)
    BY DEF Shape
  <1> QED
    BY <1>1, <1>2, <1>3, <1>4 DEF DescentDefined, LeafPath

\* An insertion into the index, whatever became of its inner nodes before: the
\* pages still form a tree, and they hold the new cell and what they held.
LEMMA IndexGrew ==
    ASSUME NEW pg, NEW N, NEW V, NEW num, NEW level, Shape(pg, N, V, num, level),
           Fresh(level, N, num), NEW root \in Pages(N), NodeAt(pg, root),
           NEW key \in Nat, NEW value \in V, DescentDefined(pg, root, key),
           NEW r, r = index_insert(pg, num, root, key, value), r.num_pages <= N
    PROVE  Grew(r, pg, N, V, num, level, root, PagesOf(Path(pg, root, key)), CellOf(key, value))
  <1>1. PICK path, n : path = Path(pg, root, key) /\ n = Len(path)
    OBVIOUS
  <1>2. LeafPath(path, pg, N, level, root, key)
    BY <1>1, DefinedPath
  <1>3. n \in Nat \ {0} /\ n = level[root] + 1 /\ level[root] \in Nat
    <2>1. Steps(path, pg, N, level, root, n)
      BY <1>1, <1>2, PathLevels
    <2> QED
      BY <2>1 DEF Steps, Shape
  <1>0. PICK out : Rising(out, pg, num, root, key, value, path, n)
    BY <1>1, <1>3, OutIs
  <1>4. /\ IsOut(out, n, n - 1, insert_at_leaf(pg, num, path[n], key, value), path)
        /\ btree_insert(pg, num, root, key, value) = out[1]
    BY <1>0 DEF Rising
  <1>5. PICK o, X, cell : o = out[1] /\ X = PagesOf(path) /\ cell = CellOf(key, value)
    OBVIOUS
  <1>6. Result(o, pg, N, V, num, level, X, level[root], cell)
    <2>1. 1 \in 1 .. n /\ n - 1 = level[root]
      BY <1>3
    <2>2. Result(o, pg, N, V, num, level, X, n - 1, cell)
      BY <1>1, <1>2, <1>4, <1>5, <2>1, Results
    <2> QED
      BY <2>1, <2>2
  <1>7. o.split.did_split \in BOOLEAN
    BY <1>6 DEF Result
  <1>8. Topped(r, o, root)
    BY <1>4, <1>5, <1>7, IndexInsertIs
  <1>9. Grew(r, pg, N, V, num, level, root, X, cell)
    BY <1>6, <1>8, ToppedGrew
  <1> QED
    BY <1>1, <1>5, <1>9

\* Whether or not the pages suffice.
LEMMA IndexCount ==
    ASSUME NEW pg, NEW N, NEW V, NEW num, NEW level, Shape(pg, N, V, num, level),
           Fresh(level, N, num), NEW root \in Pages(N), NodeAt(pg, root),
           NEW key \in Nat, NEW value \in V, DescentDefined(pg, root, key),
           NEW r, r = index_insert(pg, num, root, key, value)
    PROVE  r.num_pages \in Nat
  <1>1. PICK path, n : path = Path(pg, root, key) /\ n = Len(path)
    OBVIOUS
  <1>2. LeafPath(path, pg, N, level, root, key)
    BY <1>1, DefinedPath
  <1>3. n \in Nat \ {0} /\ num \in Nat
    <2>1. Steps(path, pg, N, level, root, n)
      BY <1>1, <1>2, PathLevels
    <2> QED
      BY <2>1 DEF Steps, Shape
  <1>0. PICK out : Rising(out, pg, num, root, key, value, path, n)
    BY <1>1, <1>3, OutIs
  <1>4. /\ IsOut(out, n, n - 1, insert_at_leaf(pg, num, path[n], key, value), path)
        /\ btree_insert(pg, num, root, key, value) = out[1]
    BY <1>0 DEF Rising
  <1>5. PICK o, X, cell : o = out[1] /\ X = PagesOf(path) /\ cell = CellOf(key, value)
    OBVIOUS
  <1>6. 1 \in 1 .. n /\ n - 1 \in Nat
    BY <1>3
  <1>7. Result(o, pg, N, V, num, level, X, n - 1, cell)
    BY <1>1, <1>2, <1>4, <1>5, <1>6, Results
  <1>8. o.split.did_split \in BOOLEAN /\ o.num_pages \in Nat
    BY <1>3, <1>6, <1>7 DEF Result
  <1>9. Topped(r, o, root)
    BY <1>4, <1>5, <1>8, IndexInsertIs
  <1> QED
    BY <1>8, <1>9 DEF Topped

-----------------------------------------------------------------------------
(* The order that nodes keep *)

Apart(C, D) == \A c \in C : \A d \in D : c.key # d.key

\* Leaves are in order and no key is in two of them; internal nodes are in order.
Tidy(pg, N) ==
    /\ \A p \in Pages(N) : IsLeaf(pg[p]) => InOrder(pg[p].cells)
    /\ \A p \in Pages(N) : IsInternal(pg[p]) => Ordered(pg[p].keys)
    /\ \A p, q \in Pages(N) : p # q => Apart(CellsAt(pg, p), CellsAt(pg, q))

Absent(pg, N, key) == \A p \in Pages(N) : \A c \in CellsAt(pg, p) : c.key # key

\* What an insertion of cell makes of the leaf x.
LeafTook(o, pg, N, num, x, cell) ==
    /\ o.lost = FALSE
    /\ IsLeaf(o.pg[x]) /\ InOrder(o.pg[x].cells)
    /\ IF ~o.split.did_split
       THEN /\ o.num_pages = num
            /\ \A p \in Pages(N) : p # x => o.pg[p] = pg[p]
            /\ o.pg[x].next = pg[x].next
            /\ CellsAt(o.pg, x) = CellsAt(pg, x) \cup {cell}
       ELSE /\ o.num_pages = num + 1 /\ o.split.new_page = num
            /\ num \in Pages(N) /\ num # x /\ ~NodeAt(pg, num)
            /\ \A p \in Pages(N) : p # x /\ p # num => o.pg[p] = pg[p]
            /\ o.pg[x].next = num
            /\ IsLeaf(o.pg[num]) /\ InOrder(o.pg[num].cells)
            /\ o.pg[num].next = pg[x].next
            /\ CellsAt(o.pg, x) \cup CellsAt(o.pg, num) = CellsAt(pg, x) \cup {cell}
            /\ o.split.key \in Nat
            /\ \A c \in CellsAt(o.pg, x) : c.key < o.split.key
            /\ \A c \in CellsAt(o.pg, num) : o.split.key <= c.key
            /\ CellsAt(o.pg, x) # {}
            /\ \E c \in CellsAt(o.pg, num) : c.key = o.split.key

LEMMA LeafTakes ==
    ASSUME NEW pg, NEW N, NEW V, NEW num, NEW level, Shape(pg, N, V, num, level),
           NEW x \in Pages(N), IsLeaf(pg[x]), InOrder(pg[x].cells),
           NEW key \in Nat, NEW value \in V,
           \A c \in CellsAt(pg, x) : c.key # key,
           NEW o, o = insert_at_leaf(pg, num, x, key, value), o.num_pages <= N,
           NEW cell, cell = CellOf(key, value)
    PROVE  LeafTook(o, pg, N, num, x, cell)
  <1>1. /\ N \in Nat /\ num \in 2 .. N /\ pg = [p \in Pages(N) |-> pg[p]]
    BY DEF Shape
  <1>2. NodeAt(pg, x) /\ GoodLeaf(pg[x], V, level[x])
    BY DEF Shape, NodeAt
  <1>3. PICK cells, next : cells = pg[x].cells /\ next = pg[x].next
    OBVIOUS
  <1>4. /\ cells \in Seq(Cell(V)) /\ Len(cells) \in Nat /\ Len(cells) <= LEAF_NODE_MAX_CELLS
        /\ next \in Nat /\ pg[x] = Leaf(cells, next)
    BY <1>2, <1>3, LeafNode
  <1>5. PICK all, h, left, right :
           /\ all = leaf_insert(cells, key, value) /\ h = Half(Len(all))
           /\ left = FirstPart(all, h) /\ right = LastPart(all, h)
    OBVIOUS
  <1>6. CellsAt(pg, x) = CellSet(cells)
    BY <1>3 DEF CellsAt
  <1>7. Keyless(cells, key)
    BY <1>6 DEF CellSet, Keyless
  <1>8. /\ all \in Seq(Cell(V)) /\ Len(all) = Len(cells) + 1 /\ InOrder(all)
        /\ CellSet(all) = CellSet(cells) \cup {cell}
    <2>1. InOrder(cells)
      BY <1>3
    <2>2. InOrder(all)
      BY <1>4, <1>5, <1>7, <2>1, LeafInsert
    <2>3. WithCell(all, cells, V, cell)
      BY <1>4, <1>5, InsertedCells
    <2> QED
      BY <2>2, <2>3 DEF WithCell
  <1>9. /\ o.lost = FALSE
        /\ IF Len(cells) < LEAF_NODE_MAX_CELLS
           THEN One(o, pg, num, x, Leaf(all, next))
           ELSE Two(o, pg, num, x, Leaf(left, num), Leaf(right, next), right[1].key)
    BY <1>3, <1>4, <1>5, LeafForms
  <1>10. CASE Len(cells) < LEAF_NODE_MAX_CELLS
    <2>1. PICK node : node = Leaf(all, next)
      OBVIOUS
    <2>2. One(o, pg, num, x, node)
      BY <1>9, <1>10, <2>1
    <2>3. IsLeaf(node) /\ node.cells = all /\ node.next = next
      BY <2>1 DEF Leaf, IsLeaf
    <2>4. o.pg = Put(pg, x, node) /\ o.num_pages = num /\ o.split.did_split = FALSE
      BY <2>2 DEF One
    <2>5. o.pg[x] = node /\ \A p \in Pages(N) : p # x => o.pg[p] = pg[p]
      BY <1>1, <2>4, PutIs
    <2>6. CellsAt(o.pg, x) = CellsAt(pg, x) \cup {cell}
      BY <1>6, <1>8, <2>3, <2>5 DEF CellsAt
    <2> QED
      BY <1>3, <1>8, <1>9, <2>3, <2>4, <2>5, <2>6 DEF LeafTook
  <1>11. CASE ~(Len(cells) < LEAF_NODE_MAX_CELLS)
    <2>1. PICK a, b, s : a = Leaf(left, num) /\ b = Leaf(right, next) /\ s = right[1].key
      OBVIOUS
    <2>2. Two(o, pg, num, x, a, b, s)
      BY <1>9, <1>11, <2>1
    <2>3. PICK q : q = Put(pg, x, a)
      OBVIOUS
    <2>4. /\ o.num_pages = num + 1 /\ o.split.did_split = TRUE /\ o.split.new_page = num
          /\ o.split.key = s /\ o.pg = Put(q, num, b)
      BY <2>2, <2>3 DEF Two
    <2>5. num < N /\ num \in Pages(N)
      BY <1>1, <2>4 DEF Pages
    <2>6. ~NodeAt(pg, num)
      BY <2>5, ShapeGrow
    <2>7. num # x
      BY <1>2, <2>6
    <2>8. /\ q = [p \in Pages(N) |-> q[p]] /\ q[x] = a
          /\ \A p \in Pages(N) : p # x => q[p] = pg[p]
      BY <1>1, <2>3, PutIs
    <2>9. o.pg[num] = b /\ \A p \in Pages(N) : p # num => o.pg[p] = q[p]
      BY <2>4, <2>5, <2>8, PutIs
    <2>10. o.pg[x] = a /\ \A p \in Pages(N) : p # x /\ p # num => o.pg[p] = pg[p]
      BY <2>7, <2>8, <2>9
    <2>11. Len(all) >= 2
      BY <1>4, <1>8, <1>11, NodeAssumption
    <2>12. LeafCut(left, right, all, s)
      BY <1>5, <1>8, <2>1, <2>11, LeafHalves
    <2>13. IsLeaf(a) /\ a.cells = left /\ a.next = num /\ IsLeaf(b) /\ b.cells = right /\ b.next = next
      BY <2>1 DEF Leaf, IsLeaf
    <2>14. CellsAt(o.pg, x) = CellSet(left) /\ CellsAt(o.pg, num) = CellSet(right)
      BY <2>9, <2>10, <2>13 DEF CellsAt
    <2>15. CellsAt(o.pg, x) \cup CellsAt(o.pg, num) = CellsAt(pg, x) \cup {cell}
      BY <1>6, <1>8, <2>12, <2>14 DEF LeafCut
    <2> QED
      BY <1>3, <1>9, <2>4, <2>5, <2>6, <2>7, <2>9, <2>10, <2>12, <2>13, <2>14, <2>15
      DEF LeafTook, LeafCut
  <1> QED
    BY <1>10, <1>11

\* What an insertion, after a split below, makes of the internal node x.  node is
\* that node with the separator and the new child in it, before it may be split.
AboveTook(o, below, N, x, node, P) ==
    /\ below.pg[x] \in InnerNodes(P) /\ node \in InnerNodes(P)
    /\ Len(below.pg[x].keys) <= INTERNAL_NODE_MAX_KEYS
    /\ Grown(node, below.pg[x], below.split.key, below.split.new_page,
             Separators(below.pg[x], below.split.key))
    /\ o.lost = (below.lost \/ LosesChild(below.pg[x], below.split.key))
    /\ IF ~o.split.did_split
       THEN /\ o.num_pages = below.num_pages
            /\ o.pg[x] = node
            /\ \A p \in Pages(N) : p # x => o.pg[p] = below.pg[p]
       ELSE /\ o.num_pages = below.num_pages + 1
            /\ o.split.new_page = below.num_pages
            /\ below.num_pages \in Pages(N) /\ below.num_pages # x
            /\ ~NodeAt(below.pg, below.num_pages)
            /\ \A p \in Pages(N) : p # x /\ p # below.num_pages => o.pg[p] = below.pg[p]
            /\ o.pg[x] \in InnerNodes(P) /\ o.pg[below.num_pages] \in InnerNodes(P)
            /\ o.split.key \in Nat
            /\ \E mid \in Nat :
                  /\ o.split.key = node.keys[mid + 1] /\ mid < Len(node.keys)
                  /\ HalfNodes(o.pg[x], o.pg[below.num_pages], node, mid)
                  /\ Divided(o.pg[x], o.pg[below.num_pages], node, mid, o.split.key)

LEMMA AboveTakes ==
    ASSUME NEW below, NEW N, NEW V, NEW level, NEW n1, n1 = below.num_pages,
           Shape(below.pg, N, V, n1, level),
           below.split.did_split = TRUE, below.split.key \in Nat,
           NEW x \in Pages(N), IsInternal(below.pg[x]), Ordered(below.pg[x].keys),
           below.split.new_page \in Kids(below.pg, N, level, level[x]),
           NEW o, o = insert_above(below, x), o.num_pages <= N,
           NEW node, node = internal_insert(below.pg[x], below.split.key,
                                            below.split.new_page),
           NEW P, P = Kids(below.pg, N, level, level[x])
    PROVE  AboveTook(o, below, N, x, node, P)
  <1>1. PICK mid, left, right :
           /\ mid = MiddleKey(node) /\ left = LeftHalf(node, mid)
           /\ right = RightHalf(node, mid, Len(node.keys))
    OBVIOUS
  <1>2. AboveNode(o, below, x, node, mid, left, right, P, level[x])
    BY <1>1, AboveNodes
  <1>3. /\ o.lost = (below.lost \/ LosesChild(below.pg[x], below.split.key))
        /\ below.pg[x] \in InnerNodes(P)
        /\ Len(below.pg[x].keys) <= INTERNAL_NODE_MAX_KEYS
        /\ node \in InnerNodes(P)
        /\ \/ One(o, below.pg, n1, x, node)
           \/ /\ Two(o, below.pg, n1, x, left, right, node.keys[mid + 1])
              /\ HalfNodes(left, right, node, mid)
              /\ GoodInner(left, P, level[x])
              /\ GoodInner(right, P, level[x])
              /\ node.keys[mid + 1] \in Nat
              /\ mid \in Nat /\ mid >= 1 /\ mid < Len(node.keys)
    BY <1>2 DEF AboveNode
  <1>4. Grown(node, below.pg[x], below.split.key, below.split.new_page,
              Separators(below.pg[x], below.split.key))
    <2>1. PICK old, s, new, m : /\ old = below.pg[x] /\ s = below.split.key
                                /\ new = below.split.new_page
                                /\ m = Separators(old, s)
      OBVIOUS
    <2>2. node = internal_insert(old, s, new)
      BY <2>1
    <2>3. Grown(node, old, s, new, m)
      BY <1>3, <2>1, <2>2, InternalInsert
    <2> QED
      BY <2>1, <2>3
  <1>5. below.pg = [p \in Pages(N) |-> below.pg[p]] /\ n1 \in 2 .. N /\ N \in Nat
    BY DEF Shape
  <1>6. CASE One(o, below.pg, n1, x, node)
    <2>1. o.pg = Put(below.pg, x, node) /\ o.num_pages = n1 /\ o.split.did_split = FALSE
      BY <1>6 DEF One
    <2>2. o.pg[x] = node /\ \A p \in Pages(N) : p # x => o.pg[p] = below.pg[p]
      BY <1>5, <2>1, PutIs
    <2> QED
      BY <1>3, <1>4, <2>1, <2>2 DEF AboveTook
  <1>7. CASE /\ Two(o, below.pg, n1, x, left, right, node.keys[mid + 1])
             /\ HalfNodes(left, right, node, mid)
             /\ GoodInner(left, P, level[x]) /\ GoodInner(right, P, level[x])
             /\ node.keys[mid + 1] \in Nat
             /\ mid \in Nat /\ mid >= 1 /\ mid < Len(node.keys)
    <2>1. PICK q, s : q = Put(below.pg, x, left) /\ s = node.keys[mid + 1]
      OBVIOUS
    <2>2. /\ o.num_pages = n1 + 1 /\ o.split.did_split = TRUE /\ o.split.new_page = n1
          /\ o.split.key = s /\ o.pg = Put(q, n1, right)
      BY <1>7, <2>1 DEF Two
    <2>3. n1 < N /\ n1 \in Pages(N)
      BY <1>5, <2>2 DEF Pages
    <2>4. ~NodeAt(below.pg, n1)
      BY <2>3, ShapeGrow
    <2>5. n1 # x
      BY <2>4 DEF NodeAt
    <2>6. /\ q = [p \in Pages(N) |-> q[p]] /\ q[x] = left
          /\ \A p \in Pages(N) : p # x => q[p] = below.pg[p]
      BY <1>5, <2>1, PutIs
    <2>7. o.pg[n1] = right /\ \A p \in Pages(N) : p # n1 => o.pg[p] = q[p]
      BY <2>2, <2>3, <2>6, PutIs
    <2>8. o.pg[x] = left /\ \A p \in Pages(N) : p # x /\ p # n1 => o.pg[p] = below.pg[p]
      BY <2>5, <2>6, <2>7
    <2>9. left \in InnerNodes(P) /\ right \in InnerNodes(P)
      BY <1>7 DEF GoodInner
    <2>10. Ordered(node.keys)
      BY <1>4 DEF Grown
    <2>11. Divided(left, right, node, mid, s)
      BY <1>3, <1>7, <2>1, <2>9, <2>10, SplitOrder
    <2>12. \E k \in Nat :
              /\ o.split.key = node.keys[k + 1] /\ k < Len(node.keys)
              /\ HalfNodes(o.pg[x], o.pg[n1], node, k)
              /\ Divided(o.pg[x], o.pg[n1], node, k, o.split.key)
      BY <1>7, <2>1, <2>2, <2>7, <2>8, <2>11
    <2>13. o.split.key \in Nat
      BY <1>7, <2>1, <2>2
    <2> QED
      BY <1>3, <1>4, <2>2, <2>3, <2>4, <2>5, <2>7, <2>8, <2>9, <2>12, <2>13 DEF AboveTook
  <1> QED
    BY <1>3, <1>6, <1>7

LEMMA CellsOfShape ==
    ASSUME NEW pg, NEW N, NEW V, NEW num, NEW level, Shape(pg, N, V, num, level),
           NEW p \in Pages(N), NEW c \in CellsAt(pg, p)
    PROVE  c \in Cell(V) /\ c.key \in Nat /\ c.value \in V
  <1>1. IsLeaf(pg[p]) /\ c \in CellSet(pg[p].cells)
    BY DEF CellsAt
  <1>2. GoodLeaf(pg[p], V, level[p])
    BY <1>1 DEF Shape
  <1>3. pg[p].cells \in Seq(Cell(V))
    BY <1>2, LeafNode
  <1>4. c \in Cell(V)
    BY <1>1, <1>3 DEF CellSet
  <1> QED
    BY <1>4 DEF Cell

LEMMA TidyLeaf ==
    ASSUME NEW pg, NEW N, Tidy(pg, N), NEW x \in Pages(N), IsLeaf(pg[x]), NEW cell,
           Absent(pg, N, cell.key), NEW num, NEW o, LeafTook(o, pg, N, num, x, cell),
           NEW V, NEW n1, NEW level, Shape(o.pg, N, V, n1, level)
    PROVE  Tidy(o.pg, N)
  <1>1. /\ \A p \in Pages(N) : IsLeaf(pg[p]) => InOrder(pg[p].cells)
        /\ \A p \in Pages(N) : IsInternal(pg[p]) => Ordered(pg[p].keys)
        /\ \A p, q \in Pages(N) : p # q => Apart(CellsAt(pg, p), CellsAt(pg, q))
    BY DEF Tidy
  <1>2. PICK q : q = o.pg
    OBVIOUS
  <1>3. \A p \in Pages(N) : \A c \in CellsAt(q, p) : c.key \in Nat
    BY <1>2, CellsOfShape
  <1>4. IsLeaf(q[x]) /\ InOrder(q[x].cells)
    BY <1>2 DEF LeafTook
  <1>5. ASSUME NEW p \in Pages(N), p # x
        PROVE  Apart(CellsAt(pg, p), CellsAt(pg, x) \cup {cell})
    BY <1>1, <1>5 DEF Apart, Absent
  <1>6. CASE ~o.split.did_split
    <2>1. /\ \A p \in Pages(N) : p # x => q[p] = pg[p]
          /\ CellsAt(q, x) = CellsAt(pg, x) \cup {cell}
      BY <1>2, <1>6 DEF LeafTook
    <2>2. \A p \in Pages(N) : p # x => CellsAt(q, p) = CellsAt(pg, p)
      BY <2>1 DEF CellsAt
    <2>3. ASSUME NEW p \in Pages(N), NEW r \in Pages(N), p # r
          PROVE  Apart(CellsAt(q, p), CellsAt(q, r))
      <3>1. CASE p # x /\ r # x
        BY <1>1, <2>2, <2>3, <3>1
      <3>2. CASE p # x /\ r = x
        BY <1>5, <2>1, <2>2, <3>2
      <3>3. CASE p = x /\ r # x
        <4>1. Apart(CellsAt(q, r), CellsAt(q, x))
          BY <1>5, <2>1, <2>2, <3>3
        <4> QED
          BY <3>3, <4>1 DEF Apart
      <3> QED
        BY <2>3, <3>1, <3>2, <3>3
    <2>4. ~IsInternal(q[x])
      BY <1>4 DEF IsLeaf, IsInternal
    <2>5. \A p \in Pages(N) : IsLeaf(q[p]) => InOrder(q[p].cells)
      BY <1>1, <1>4, <2>1
    <2>6. \A p \in Pages(N) : IsInternal(q[p]) => Ordered(q[p].keys)
      BY <1>1, <2>1, <2>4
    <2> QED
      BY <1>2, <2>3, <2>5, <2>6 DEF Tidy
  <1>7. CASE o.split.did_split
    <2>1. /\ num \in Pages(N) /\ num # x /\ ~NodeAt(pg, num)
          /\ \A p \in Pages(N) : p # x /\ p # num => q[p] = pg[p]
          /\ IsLeaf(q[num]) /\ InOrder(q[num].cells)
          /\ CellsAt(q, x) \cup CellsAt(q, num) = CellsAt(pg, x) \cup {cell}
          /\ o.split.key \in Nat
          /\ \A c \in CellsAt(q, x) : c.key < o.split.key
          /\ \A c \in CellsAt(q, num) : o.split.key <= c.key
      BY <1>2, <1>7 DEF LeafTook
    <2>2. \A p \in Pages(N) : p # x /\ p # num => CellsAt(q, p) = CellsAt(pg, p)
      BY <2>1 DEF CellsAt
    <2>3. Apart(CellsAt(q, x), CellsAt(q, num)) /\ Apart(CellsAt(q, num), CellsAt(q, x))
      BY <1>3, <2>1 DEF Apart
    <2>4. ASSUME NEW p \in Pages(N), p # x, p # num
          PROVE  /\ Apart(CellsAt(q, p), CellsAt(q, x)) /\ Apart(CellsAt(q, x), CellsAt(q, p))
                 /\ Apart(CellsAt(q, p), CellsAt(q, num)) /\ Apart(CellsAt(q, num), CellsAt(q, p))
      <3>1. Apart(CellsAt(q, p), CellsAt(q, x) \cup CellsAt(q, num))
        BY <1>5, <2>1, <2>2, <2>4
      <3> QED
        BY <3>1 DEF Apart
    <2>5. ASSUME NEW p \in Pages(N), NEW r \in Pages(N), p # r
          PROVE  Apart(CellsAt(q, p), CellsAt(q, r))
      <3>1. CASE p # x /\ p # num /\ r # x /\ r # num
        BY <1>1, <2>2, <2>5, <3>1
      <3> QED
        BY <2>3, <2>4, <2>5, <3>1
    <2>6. ~IsInternal(q[x]) /\ ~IsInternal(q[num])
      BY <1>4, <2>1 DEF IsLeaf, IsInternal
    <2>7. \A p \in Pages(N) : IsLeaf(q[p]) => InOrder(q[p].cells)
      BY <1>1, <1>4, <2>1
    <2>8. \A p \in Pages(N) : IsInternal(q[p]) => Ordered(q[p].keys)
      BY <1>1, <2>1, <2>6
    <2> QED
      BY <1>2, <2>5, <2>7, <2>8 DEF Tidy
  <1> QED
    BY <1>6, <1>7

\* Writing to an internal node, or to a new one, leaves the leaves alone.
LEMMA TidyInner ==
    ASSUME NEW pg, NEW N, Tidy(pg, N), NEW x \in Pages(N), ~IsLeaf(pg[x]),
           NEW y \in Pages(N), ~IsLeaf(pg[y]),
           NEW q, \A p \in Pages(N) : p # x /\ p # y => q[p] = pg[p],
           IsInternal(q[x]), Ordered(q[x].keys), IsInternal(q[y]), Ordered(q[y].keys)
    PROVE  Tidy(q, N) /\ \A p \in Pages(N) : CellsAt(q, p) = CellsAt(pg, p)
  <1>1. /\ \A p \in Pages(N) : IsLeaf(pg[p]) => InOrder(pg[p].cells)
        /\ \A p \in Pages(N) : IsInternal(pg[p]) => Ordered(pg[p].keys)
        /\ \A p, r \in Pages(N) : p # r => Apart(CellsAt(pg, p), CellsAt(pg, r))
    BY DEF Tidy
  <1>2. ~IsLeaf(q[x]) /\ ~IsLeaf(q[y])
    BY DEF IsLeaf, IsInternal
  <1>3. \A p \in Pages(N) : CellsAt(q, p) = CellsAt(pg, p)
    BY <1>2 DEF CellsAt
  <1>4. \A p \in Pages(N) : IsLeaf(q[p]) => InOrder(q[p].cells)
    BY <1>1, <1>2
  <1>5. \A p \in Pages(N) : IsInternal(q[p]) => Ordered(q[p].keys)
    BY <1>1
  <1> QED
    BY <1>1, <1>3, <1>4, <1>5 DEF Tidy

LEMMA TidyAbove ==
    ASSUME NEW below, NEW N, Tidy(below.pg, N), NEW x \in Pages(N), IsInternal(below.pg[x]),
           NEW node, NEW P, NEW o, AboveTook(o, below, N, x, node, P)
    PROVE  Tidy(o.pg, N)
  <1>1. ~IsLeaf(below.pg[x])
    BY DEF IsLeaf, IsInternal
  <1>2. PICK pg, q : pg = below.pg /\ q = o.pg
    OBVIOUS
  <1>3. CASE ~o.split.did_split
    <2>1. q[x] = node /\ (\A p \in Pages(N) : p # x => q[p] = pg[p]) /\ node \in InnerNodes(P)
      BY <1>2, <1>3 DEF AboveTook
    <2>2. Ordered(node.keys)
      BY DEF AboveTook, Grown
    <2>3. IsInternal(q[x])
      BY <2>1, InnerParts
    <2> QED
      BY <1>1, <1>2, <2>1, <2>2, <2>3, TidyInner
  <1>4. CASE o.split.did_split
    <2>1. PICK n1 : n1 = below.num_pages
      OBVIOUS
    <2>2. /\ n1 \in Pages(N) /\ ~NodeAt(pg, n1)
          /\ \A p \in Pages(N) : p # x /\ p # n1 => q[p] = pg[p]
          /\ q[x] \in InnerNodes(P) /\ q[n1] \in InnerNodes(P)
          /\ \E mid \in Nat : Divided(q[x], q[n1], node, mid, o.split.key)
      BY <1>2, <1>4, <2>1 DEF AboveTook
    <2>3. Ordered(q[x].keys) /\ Ordered(q[n1].keys)
      BY <2>2 DEF Divided
    <2>4. IsInternal(q[x]) /\ IsInternal(q[n1])
      BY <2>2, InnerParts
    <2>5. ~IsLeaf(pg[n1])
      BY <2>2 DEF NodeAt
    <2> QED
      BY <1>1, <1>2, <2>2, <2>3, <2>4, <2>5, TidyInner
  <1> QED
    BY <1>3, <1>4

\* The step of an insertion from below to the internal node x.
Lifted(o, below, pg, N, V, num, level, x) ==
    /\ o = insert_above(below, x)
    /\ below.num_pages >= num /\ below.num_pages <= N
    /\ Shape(below.pg, N, V, below.num_pages, level)
    /\ x \in Pages(N) /\ x < num /\ IsInternal(below.pg[x]) /\ IsInternal(pg[x])
    /\ below.split.did_split \in BOOLEAN
    /\ ~below.split.did_split => o = below
    /\ below.split.did_split =>
          /\ below.split.key \in Nat
          /\ below.split.new_page \in Kids(below.pg, N, level, level[x])
          /\ below.split.new_page >= num

LEMMA LiftedAt ==
    ASSUME NEW pg, NEW N, NEW V, NEW num, NEW level, Shape(pg, N, V, num, level),
           Fresh(level, N, num), NEW root \in Pages(N), NodeAt(pg, root),
           NEW key \in Nat, NEW value \in V,
           NEW path, LeafPath(path, pg, N, level, root, key), NEW n, n = Len(path),
           NEW out, IsOut(out, n, n - 1, insert_at_leaf(pg, num, path[n], key, value), path),
           NEW d \in 1 .. n, d # n, out[d].num_pages <= N
    PROVE  Lifted(out[d], out[d + 1], pg, N, V, num, level, path[d])
  <1>1. /\ N \in Nat /\ num \in 2 .. N /\ level \in [Pages(N) -> Nat]
    BY DEF Shape
  <1>2. /\ n \in Nat \ {0}
        /\ \A e \in 1 .. n : /\ path[e] \in Pages(N) /\ NodeAt(pg, path[e])
                             /\ level[path[e]] = n - e
    <2>1. Steps(path, pg, N, level, root, n)
      BY PathLevels
    <2> QED
      BY <2>1 DEF Steps
  <1>3. PICK e, h, below, x, o, X, cell :
           /\ e = d + 1 /\ h = n - e /\ below = out[e] /\ x = path[d] /\ o = out[d]
           /\ X = PagesOf(path) /\ cell = CellOf(key, value)
    OBVIOUS
  <1>4. e \in 1 .. n /\ h \in Nat /\ n - d = h + 1
    BY <1>2, <1>3
  <1>5. Result(below, pg, N, V, num, level, X, h, cell)
    BY <1>3, <1>4, Results
  <1>6. o = insert_above(below, x)
    <2>1. n - (n - 1) = 1
      BY <1>2
    <2>2. \A i \in 1 .. n : i # n => out[i] = insert_above(out[i + 1], path[i])
      BY <2>1 DEF IsOut
    <2> QED
      BY <1>3, <2>2
  <1>7. /\ x \in Pages(N) /\ NodeAt(pg, x) /\ level[x] = h + 1
    BY <1>2, <1>3, <1>4
  <1>8. x < num
    BY <1>7, Kinds
  <1>9. IsInternal(pg[x])
    BY <1>3 DEF LeafPath, IsPath
  <1>10. PICK n1 : n1 = below.num_pages
    OBVIOUS
  <1>11. /\ n1 \in num .. num + h + 1 /\ below.split.did_split \in BOOLEAN
         /\ below.split.did_split => n1 = num + h + 1 /\ below.split.new_page = num + h
    BY <1>5, <1>10 DEF Result
  <1>12. n1 <= N
    <2>1. n1 \in Int
      BY <1>1, <1>11
    <2>2. IF ~below.split.did_split THEN o = below
          ELSE \/ o.num_pages = below.num_pages
               \/ o.num_pages = below.num_pages + 1
      BY <1>6, <1>11, AboveCounts
    <2>3. o.num_pages = n1 \/ o.num_pages = n1 + 1
      BY <1>10, <2>2
    <2>4. o.num_pages <= N
      BY <1>3
    <2> QED
      BY <1>1, <2>1, <2>3, <2>4
  <1>13. /\ Shape(below.pg, N, V, n1, level)
         /\ \A p \in Pages(N) : p < num => (IsInternal(below.pg[p]) <=> IsInternal(pg[p]))
         /\ below.split.did_split =>
               below.split.key \in Nat /\ NodeAt(below.pg, below.split.new_page)
    BY <1>5, <1>10, <1>12 DEF Result
  <1>14. IsInternal(below.pg[x])
    BY <1>7, <1>8, <1>9, <1>13
  <1>15. ASSUME below.split.did_split
         PROVE  below.split.new_page \in Kids(below.pg, N, level, level[x]) /\ below.split.new_page >= num
    <2>1. PICK c : c = below.split.new_page
      OBVIOUS
    <2>2. c \in Pages(N) /\ c >= num /\ c - num = h
      <3>1. n1 = num + h + 1 /\ c = num + h
        BY <1>11, <1>15, <2>1
      <3>2. h \in Nat
        BY <1>4
      <3> QED
        BY <1>1, <1>12, <3>1, <3>2 DEF Pages
    <2>3. level[c] = h
      BY <2>2 DEF Fresh
    <2> QED
      BY <1>7, <1>13, <1>15, <2>1, <2>2, <2>3 DEF Kids
  <1>16. ~below.split.did_split => o = below
    BY <1>6, <1>11, AboveCounts
  <1>17. n1 >= num
    BY <1>1, <1>11
  <1>18. Lifted(o, below, pg, N, V, num, level, x)
    BY <1>6, <1>7, <1>8, <1>9, <1>10, <1>11, <1>12, <1>13, <1>14, <1>15, <1>16, <1>17 DEF Lifted
  <1> QED
    BY <1>3, <1>18

\* The node that takes the separator.
Taking(below, x) == internal_insert(below.pg[x], below.split.key, below.split.new_page)

LEMMA LiftedTakes ==
    ASSUME NEW o, NEW below, NEW pg, NEW N, NEW V, NEW num, NEW level, NEW x,
           Lifted(o, below, pg, N, V, num, level, x), Tidy(below.pg, N), o.num_pages <= N
    PROVE  IF below.split.did_split
           THEN AboveTook(o, below, N, x, Taking(below, x), Kids(below.pg, N, level, level[x]))
           ELSE o = below
  <1>1. CASE ~below.split.did_split
    BY <1>1 DEF Lifted
  <1>2. CASE below.split.did_split
    <2>1. PICK n1, node, P : /\ n1 = below.num_pages /\ node = Taking(below, x)
                             /\ P = Kids(below.pg, N, level, level[x])
      OBVIOUS
    <2>2. /\ o = insert_above(below, x)
          /\ Shape(below.pg, N, V, n1, level)
          /\ x \in Pages(N) /\ IsInternal(below.pg[x])
          /\ below.split.did_split = TRUE /\ below.split.key \in Nat
          /\ below.split.new_page \in Kids(below.pg, N, level, level[x])
      BY <1>2, <2>1 DEF Lifted
    <2>3. Ordered(below.pg[x].keys)
      BY <2>2 DEF Tidy
    <2>4. node = internal_insert(below.pg[x], below.split.key, below.split.new_page)
      BY <2>1 DEF Taking
    <2>5. AboveTook(o, below, N, x, node, P)
      BY <2>1, <2>2, <2>3, <2>4, AboveTakes
    <2> QED
      BY <1>2, <2>1, <2>5
  <1> QED
    BY <1>1, <1>2

\* The pages are in order after every step of an insertion of an absent key.
LEMMA TidyRising ==
    ASSUME NEW pg, NEW N, NEW V, NEW num, NEW level, Shape(pg, N, V, num, level),
           Fresh(level, N, num), NEW root \in Pages(N), NodeAt(pg, root),
           NEW key \in Nat, NEW value \in V, Tidy(pg, N), Absent(pg, N, key),
           NEW path, LeafPath(path, pg, N, level, root, key), NEW n, n = Len(path),
           NEW out, IsOut(out, n, n - 1, insert_at_leaf(pg, num, path[n], key, value), path),
           NEW d \in 1 .. n, out[d].num_pages <= N
    PROVE  Tidy(out[d].pg, N)
  <1>1. N \in Nat /\ num \in 2 .. N
    BY DEF Shape
  <1>2. /\ n \in Nat \ {0}
        /\ \A e \in 1 .. n : path[e] \in Pages(N) /\ NodeAt(pg, path[e])
    <2>1. Steps(path, pg, N, level, root, n)
      BY PathLevels
    <2> QED
      BY <2>1 DEF Steps
  <1> DEFINE S == {k \in Nat : k < n => (out[n - k].num_pages <= N => Tidy(out[n - k].pg, N))}
  <1>3. 0 \in S
    <2>1. PICK o, x, cell : o = out[n] /\ x = path[n] /\ cell = CellOf(key, value)
      OBVIOUS
    <2> SUFFICES ASSUME o.num_pages <= N PROVE Tidy(o.pg, N)
      BY <1>2, <2>1
    <2>2. o = insert_at_leaf(pg, num, x, key, value)
      BY <2>1 DEF IsOut
    <2>3. x \in Pages(N) /\ IsLeaf(pg[x])
      BY <1>2, <2>1 DEF LeafPath
    <2>4. cell.key = key
      BY <2>1 DEF CellOf
    <2>5. InOrder(pg[x].cells) /\ \A c \in CellsAt(pg, x) : c.key # key
      BY <2>3 DEF Tidy, Absent
    <2>6. LeafTook(o, pg, N, num, x, cell)
      BY <2>1, <2>2, <2>3, <2>5, LeafTakes
    <2>7. PICK n1 : n1 = o.num_pages
      OBVIOUS
    <2>8. Shape(o.pg, N, V, n1, level)
      <3>1. n \in 1 .. n
        BY <1>2
      <3>2. Result(out[n], pg, N, V, num, level, PagesOf(path), n - n, CellOf(key, value))
        BY <3>1, Results
      <3> QED
        BY <2>1, <2>7, <3>2 DEF Result
    <2> QED
      BY <2>3, <2>4, <2>6, <2>8, TidyLeaf
  <1>4. ASSUME NEW k \in Nat, k \in S PROVE k + 1 \in S
    <2>1. PICK e : e = n - (k + 1)
      OBVIOUS
    <2> SUFFICES ASSUME k + 1 < n, out[e].num_pages <= N PROVE Tidy(out[e].pg, N)
      BY <2>1
    <2>2. e \in 1 .. n /\ e # n /\ e + 1 = n - k /\ k < n
      BY <1>2, <2>1
    <2>3. PICK o, below, x : o = out[e] /\ below = out[e + 1] /\ x = path[e]
      OBVIOUS
    <2>4. Lifted(o, below, pg, N, V, num, level, x)
      <3>1. e \in 1 .. n /\ e # n /\ out[e].num_pages <= N
        BY <2>2
      <3>2. Lifted(out[e], out[e + 1], pg, N, V, num, level, path[e])
        BY <3>1, LiftedAt
      <3> QED
        BY <2>3, <3>2
    <2>5. below.num_pages <= N
      BY <2>4 DEF Lifted
    <2>6. Tidy(below.pg, N)
      BY <1>4, <2>2, <2>3, <2>5
    <2>7. CASE ~below.split.did_split
      <3>1. o = below
        BY <2>4, <2>7 DEF Lifted
      <3> QED
        BY <2>3, <2>6, <3>1
    <2>8. CASE below.split.did_split
      <3>1. PICK node, P : AboveTook(o, below, N, x, node, P)
        BY <2>3, <2>4, <2>6, <2>8, LiftedTakes
      <3>2. x \in Pages(N) /\ IsInternal(below.pg[x])
        BY <2>4 DEF Lifted
      <3>3. Tidy(o.pg, N)
        BY <2>6, <3>1, <3>2, TidyAbove
      <3> QED
        BY <2>3, <3>3
    <2> QED
      BY <2>7, <2>8
  <1> HIDE DEF S
  <1>5. PICK k : k = n - d
    OBVIOUS
  <1>6. k \in Nat /\ k < n /\ n - k = d
    BY <1>2, <1>5
  <1>7. k \in S
    BY <1>3, <1>4, <1>6, Induction
  <1> QED
    BY <1>6, <1>7 DEF S

LEMMA ToppedTidy ==
    ASSUME NEW pg, NEW N, NEW V, NEW num, NEW level, Shape(pg, N, V, num, level),
           NEW root \in Pages(N), NEW X, NEW h, NEW cell,
           NEW o, Result(o, pg, N, V, num, level, X, h, cell),
           NEW r, Topped(r, o, root), r.num_pages <= N,
           o.num_pages <= N => Tidy(o.pg, N)
    PROVE  Tidy(r.pg, N)
  <1>1. N \in Nat /\ num \in 2 .. N
    BY DEF Shape
  <1>2. o.split.did_split \in BOOLEAN /\ o.num_pages \in num .. num + h + 1
    BY DEF Result
  <1>3. PICK n1 : n1 = o.num_pages
    OBVIOUS
  <1>4. n1 \in Int /\ n1 >= num
    BY <1>1, <1>2, <1>3
  <1>5. CASE o.split.did_split = FALSE
    <2>1. r.pg = o.pg /\ n1 <= N
      BY <1>3, <1>5 DEF Topped
    <2> QED
      BY <1>3, <2>1
  <1>6. CASE o.split.did_split = TRUE
    <2>1. PICK node : node = NewRoot(root, o.split.key, o.split.new_page)
      OBVIOUS
    <2>2. r.pg = Put(o.pg, n1, node) /\ r.num_pages = n1 + 1
      BY <1>3, <1>6, <2>1 DEF Topped
    <2>3. n1 <= N /\ n1 < N /\ n1 \in Pages(N)
      BY <1>1, <1>4, <2>2 DEF Pages
    <2>4. Shape(o.pg, N, V, n1, level) /\ Tidy(o.pg, N) /\ o.split.key \in Nat
      BY <1>3, <1>6, <2>3 DEF Result
    <2>5. o.pg = [p \in Pages(N) |-> o.pg[p]]
      BY <2>4 DEF Shape
    <2>6. PICK q : q = r.pg
      OBVIOUS
    <2>7. q[n1] = node /\ \A p \in Pages(N) : p # n1 => q[p] = o.pg[p]
      BY <2>2, <2>3, <2>5, <2>6, PutIs
    <2>8. ~IsLeaf(o.pg[n1])
      BY <2>3, <2>4, ShapeGrow DEF NodeAt
    <2>9. IsInternal(node) /\ node.keys = << o.split.key >>
      BY <2>1 DEF NewRoot, Internal, IsInternal
    <2>10. Ordered(node.keys)
      <3>1. Len(node.keys) = 1
        BY <2>9
      <3> QED
        BY <3>1 DEF Ordered
    <2>11. Tidy(q, N)
      BY <2>3, <2>4, <2>7, <2>8, <2>9, <2>10, TidyInner
    <2> QED
      BY <2>6, <2>11
  <1> QED
    BY <1>2, <1>5, <1>6

\* An insertion of an absent key leaves the nodes in order.
LEMMA IndexTidy ==
    ASSUME NEW pg, NEW N, NEW V, NEW num, NEW level, Shape(pg, N, V, num, level),
           Fresh(level, N, num), NEW root \in Pages(N), NodeAt(pg, root),
           NEW key \in Nat, NEW value \in V, DescentDefined(pg, root, key),
           Tidy(pg, N), Absent(pg, N, key),
           NEW r, r = index_insert(pg, num, root, key, value), r.num_pages <= N
    PROVE  Tidy(r.pg, N)
  <1>1. PICK path, n : path = Path(pg, root, key) /\ n = Len(path)
    OBVIOUS
  <1>2. LeafPath(path, pg, N, level, root, key)
    BY <1>1, DefinedPath
  <1>3. n \in Nat \ {0}
    <2>1. Steps(path, pg, N, level, root, n)
      BY <1>1, <1>2, PathLevels
    <2> QED
      BY <2>1 DEF Steps
  <1>0. PICK out : Rising(out, pg, num, root, key, value, path, n)
    BY <1>1, <1>3, OutIs
  <1>4. /\ IsOut(out, n, n - 1, insert_at_leaf(pg, num, path[n], key, value), path)
        /\ btree_insert(pg, num, root, key, value) = out[1]
    BY <1>0 DEF Rising
  <1>5. PICK o, X, cell, h : /\ o = out[1] /\ X = PagesOf(path) /\ cell = CellOf(key, value)
                             /\ h = n - 1
    OBVIOUS
  <1>6. 1 \in 1 .. n
    BY <1>3
  <1>7. Result(o, pg, N, V, num, level, X, h, cell)
    BY <1>1, <1>2, <1>4, <1>5, <1>6, Results
  <1>8. o.num_pages <= N => Tidy(o.pg, N)
    BY <1>1, <1>2, <1>4, <1>5, <1>6, TidyRising
  <1>9. o.split.did_split \in BOOLEAN
    BY <1>7 DEF Result
  <1>10. Topped(r, o, root)
    BY <1>4, <1>5, <1>9, IndexInsertIs
  <1> QED
    BY <1>7, <1>8, <1>10, ToppedTidy

-----------------------------------------------------------------------------
(* Deletion *)

\* The leaf x has lost its cells of key.
LeafCutBack(q, pg, N, x, key) ==
    /\ \A p \in Pages(N) : p # x => q[p] = pg[p]
    /\ IsLeaf(pg[x]) /\ IsLeaf(q[x]) /\ q[x].next = pg[x].next
    /\ InOrder(q[x].cells)
    /\ CellsAt(q, x) = {c \in CellsAt(pg, x) : c.key # key}

LEMMA IndexCut ==
    ASSUME NEW pg, NEW N, NEW V, NEW num, NEW level, Shape(pg, N, V, num, level),
           Tidy(pg, N), NEW x \in Pages(N), IsLeaf(pg[x]), NEW key \in Nat,
           NEW root, btree_find_leaf(pg, root, key) = x,
           NEW q, q = delete_from_index(pg, root, key)
    PROVE  Shape(q, N, V, num, level) /\ Tidy(q, N) /\ LeafCutBack(q, pg, N, x, key)
  <1>1. /\ N \in Nat /\ num \in 2 .. N /\ pg = [p \in Pages(N) |-> pg[p]]
        /\ level \in [Pages(N) -> Nat]
    BY DEF Shape
  <1>2. NodeAt(pg, x) /\ GoodLeaf(pg[x], V, level[x])
    BY DEF Shape, NodeAt
  <1>3. PICK cells, next, t : /\ cells = pg[x].cells /\ next = pg[x].next
                              /\ t = leaf_delete(cells, key)
    OBVIOUS
  <1>4. /\ cells \in Seq(Cell(V)) /\ Len(cells) \in Nat /\ Len(cells) <= LEAF_NODE_MAX_CELLS
        /\ next \in Nat /\ pg[x] = Leaf(cells, next)
    BY <1>2, <1>3, LeafNode
  <1>5. InOrder(cells)
    BY <1>3 DEF Tidy
  <1>6. /\ t \in Seq(Cell(V)) /\ Len(t) <= Len(cells) /\ InOrder(t)
        /\ CellSet(t) = {c \in CellSet(cells) : c.key # key}
    <2>1. LeafWithout(t, cells, V, key)
      BY <1>3, <1>4, <1>5, LeafDelete
    <2> QED
      BY <2>1 DEF LeafWithout
  <1>7. PICK node : node = Leaf(t, next)
    OBVIOUS
  <1>8. q = Put(pg, x, node)
    <2>1. q = [pg EXCEPT ![x] = [pg[x] EXCEPT !.cells = t]]
      BY <1>3 DEF delete_from_index
    <2>2. [pg[x] EXCEPT !.cells = t] = Leaf(t, next)
      BY <1>4 DEF Leaf
    <2> QED
      BY <1>7, <2>1, <2>2 DEF Put
  <1>9. IsLeaf(node) /\ ~IsInternal(node) /\ GoodLeaf(node, V, 0) /\ node.cells = t /\ node.next = next
    <2>1. Len(t) <= LEAF_NODE_MAX_CELLS
      <3>1. Len(t) \in Nat
        BY <1>6
      <3> QED
        BY <1>4, <1>6, <3>1, NodeAssumption
    <2> QED
      BY <1>4, <1>6, <1>7, <2>1, LeafParts
  <1>10. level[x] = 0
    BY <1>2 DEF GoodLeaf
  <1>11. Fits(node, pg, N, V, level, x)
    BY <1>9, <1>10 DEF Fits
  <1>12. x # 0 /\ x < num /\ level[x] + 2 <= num
    BY <1>2, Kinds
  <1>13. Shape(q, N, V, num, level)
    BY <1>8, <1>11, <1>12, ShapePut
  <1>14. q[x] = node /\ \A p \in Pages(N) : p # x => q[p] = pg[p]
    <2>1. PICK r : r = q
      OBVIOUS
    <2>2. r[x] = node /\ \A p \in Pages(N) : p # x => r[p] = pg[p]
      BY <1>1, <1>8, <2>1, PutIs
    <2> QED
      BY <2>1, <2>2
  <1>15. CellsAt(q, x) = {c \in CellsAt(pg, x) : c.key # key}
    BY <1>3, <1>6, <1>9, <1>14 DEF CellsAt
  <1>16. LeafCutBack(q, pg, N, x, key)
    BY <1>3, <1>6, <1>9, <1>14, <1>15 DEF LeafCutBack
  <1>17. Tidy(q, N)
    <2>1. /\ \A p \in Pages(N) : IsLeaf(pg[p]) => InOrder(pg[p].cells)
          /\ \A p \in Pages(N) : IsInternal(pg[p]) => Ordered(pg[p].keys)
          /\ \A p, r \in Pages(N) : p # r => Apart(CellsAt(pg, p), CellsAt(pg, r))
      BY DEF Tidy
    <2>2. \A p \in Pages(N) : CellsAt(q, p) \subseteq CellsAt(pg, p)
      BY <1>14, <1>15 DEF CellsAt
    <2>3. \A p, r \in Pages(N) : p # r => Apart(CellsAt(q, p), CellsAt(q, r))
      BY <2>1, <2>2 DEF Apart
    <2>4. \A p \in Pages(N) : IsLeaf(q[p]) => InOrder(q[p].cells)
      BY <1>6, <1>9, <1>14, <2>1
    <2>5. \A p \in Pages(N) : IsInternal(q[p]) => Ordered(q[p].keys)
      BY <1>9, <1>14, <2>1
    <2> QED
      BY <2>3, <2>4, <2>5 DEF Tidy
  <1> QED
    BY <1>13, <1>16, <1>17

\* btree_find finds what the leaf of its descent holds.
LEMMA FindIs ==
    ASSUME NEW pg, NEW N, NEW V, NEW num, NEW level, Shape(pg, N, V, num, level),
           Tidy(pg, N), NEW x \in Pages(N), IsLeaf(pg[x]), NEW key \in Nat,
           NEW root, btree_find_leaf(pg, root, key) = x
    PROVE  btree_find(pg, root, key) = {c.value : c \in {d \in CellsAt(pg, x) : d.key = key}}
  <1>1. PICK cells : cells = pg[x].cells
    OBVIOUS
  <1>2. cells \in Seq(Cell(V)) /\ InOrder(cells)
    <2>1. GoodLeaf(pg[x], V, level[x])
      BY DEF Shape
    <2>2. cells \in Seq(Cell(V))
      BY <1>1, <2>1, LeafNode
    <2> QED
      BY <1>1, <2>2 DEF Tidy
  <1>3. PICK at : Position(cells, key, at)
    <2>1. CASE \E i \in 1 .. Len(cells) : cells[i].key = key
      BY <2>1 DEF Position
    <2>2. CASE ~ \E i \in 1 .. Len(cells) : cells[i].key = key
      <3>1. Position(cells, key, 0)
        BY <2>2 DEF Position
      <3> QED
        BY <3>1
    <2> QED
      BY <2>1, <2>2
  <1>4. leaf_search(cells, key) = at
    BY <1>2, <1>3, LeafSearch
  <1>5. btree_find(pg, root, key) = {cells[i].value : i \in {at} \ {0}}
    BY <1>1, <1>4 DEF btree_find, Once
  <1>6. CellsAt(pg, x) = {cells[i] : i \in 1 .. Len(cells)}
    BY <1>1 DEF CellsAt, CellSet
  <1>7. Len(cells) \in Nat /\ \A i \in 1 .. Len(cells) : cells[i].key \in Nat
    BY <1>2, CellKeys
  <1>8. CASE at \in 1 .. Len(cells) /\ cells[at].key = key
    <2>1. \A i \in 1 .. Len(cells) : cells[i].key = key => i = at
      BY <1>2, <1>7, <1>8 DEF InOrder
    <2>2. {d \in CellsAt(pg, x) : d.key = key} = {cells[at]}
      BY <1>6, <1>8, <2>1
    <2>3. {at} \ {0} = {at}
      BY <1>7, <1>8
    <2> QED
      BY <1>5, <2>2, <2>3
  <1>9. CASE at = 0 /\ \A i \in 1 .. Len(cells) : cells[i].key # key
    <2>1. {d \in CellsAt(pg, x) : d.key = key} = {}
      BY <1>6, <1>9
    <2> QED
      BY <1>5, <1>9, <2>1
  <1> QED
    BY <1>3, <1>8, <1>9 DEF Position

\* A deletion of a key that the descent finds takes its entry, and only that.
LEMMA EntriesCut ==
    ASSUME NEW pg, NEW N, Tidy(pg, N), NEW x \in Pages(N), NEW key, NEW q,
           LeafCutBack(q, pg, N, x, key), \E c \in CellsAt(pg, x) : c.key = key
    PROVE  EntriesOf(q, N) = {e \in EntriesOf(pg, N) : e.key # key}
  <1>1. \A p \in Pages(N) : p # x => CellsAt(q, p) = CellsAt(pg, p)
    BY DEF LeafCutBack, CellsAt
  <1>2. CellsAt(q, x) = {c \in CellsAt(pg, x) : c.key # key}
    BY DEF LeafCutBack
  <1>3. ASSUME NEW p \in Pages(N), p # x, NEW c \in CellsAt(pg, p) PROVE c.key # key
    BY <1>3 DEF Tidy, Apart
  <1> QED
    BY <1>1, <1>2, <1>3 DEF EntriesOf

-----------------------------------------------------------------------------
(* The search tree.                                                        *)
(*                                                                         *)
(* The pages of T are those that descents meet, and region[p] are the keys *)
(* whose descent comes by p.                                               *)

LEMMA SeparatorsGrow ==
    ASSUME NEW node, node.keys \in Seq(Nat), Ordered(node.keys),
           NEW k \in Nat, NEW l \in Nat, k <= l
    PROVE  /\ Separators(node, k) <= Separators(node, l)
           /\ Separators(node, k) \in 0 .. Len(node.keys)
           /\ Separators(node, l) \in 0 .. Len(node.keys)
  <1>1. PICK a, b : a = Separators(node, k) /\ b = Separators(node, l)
    OBVIOUS
  <1>2. Behind(node.keys, k, a) /\ Behind(node.keys, l, b)
    BY <1>1, SeparatorsBehind
  <1>3. /\ Len(node.keys) \in Nat /\ a \in 0 .. Len(node.keys) /\ b \in 0 .. Len(node.keys)
        /\ \A i \in 1 .. Len(node.keys) : node.keys[i] \in Nat
    BY <1>2 DEF Behind
  <1>4. ASSUME b < a PROVE FALSE
    <2>1. PICK c : c = b + 1
      OBVIOUS
    <2>2. c \in 1 .. a /\ c \in b + 1 .. Len(node.keys) /\ c \in 1 .. Len(node.keys)
      BY <1>3, <1>4, <2>1
    <2>3. node.keys[c] <= k /\ l < node.keys[c]
      BY <1>2, <2>2 DEF Behind
    <2> QED
      BY <1>3, <2>2, <2>3
  <1> QED
    BY <1>1, <1>3, <1>4

LEMMA StrictOrdered ==
    ASSUME NEW keys \in Seq(Nat), Strict(keys)
    PROVE  Ordered(keys)
  <1>1. \A i \in 1 .. Len(keys) : keys[i] \in Nat
    OBVIOUS
  <1> QED
    BY <1>1 DEF Strict, Ordered

\* The node has the keys of R below it, and each child those that lead to it.
Serves(node, T, region, R) ==
    /\ IsLeaf(node) => \A c \in CellSet(node.cells) : c.key \in R
    /\ IsInternal(node) =>
          /\ Strict(node.keys)
          /\ \A i \in 1 .. Len(node.keys) : node.keys[i] \in R
          /\ \A i \in 0 .. Len(node.keys) :
                /\ ChildAt(node, i) \in T
                /\ region[ChildAt(node, i)] = {k \in R : Separators(node, k) = i}

\* node has come from old by the split of the child x into x and new at s.
Adopts(old, T0, region0, T, region, x, new, s, R) ==
    /\ Serves(old, T0, region0, R) /\ R \subseteq Nat
    /\ \A c \in T0 : region0[c] # {}
    /\ T0 \subseteq T /\ new \in T /\ x \in T0
    /\ \E i \in 0 .. Len(old.keys) : ChildAt(old, i) = x
    /\ \A i \in 0 .. Len(old.keys) :
          ChildAt(old, i) # x => region[ChildAt(old, i)] = region0[ChildAt(old, i)]
    /\ s \in region0[x]
    /\ region[x] = {k \in region0[x] : k < s} /\ region[x] # {}
    /\ region[new] = {k \in region0[x] : s <= k}

LEMMA Adopted ==
    ASSUME NEW P, NEW old \in InnerNodes(P), NEW node \in InnerNodes(P),
           NEW T0, NEW region0, NEW T, NEW region, NEW x, NEW new, NEW s, NEW R,
           Adopts(old, T0, region0, T, region, x, new, s, R),
           Grown(node, old, s, new, Separators(old, s)), ~LosesChild(old, s)
    PROVE  Serves(node, T, region, R)
  <1> DEFINE n == Len(old.keys)
  <1>1. /\ old.keys \in Seq(Nat) /\ n \in Nat /\ IsInternal(old)
        /\ \A i \in 1 .. n : old.keys[i] \in Nat
        /\ node.keys \in Seq(Nat) /\ IsInternal(node) /\ ~IsLeaf(node)
    BY InnerParts
  <1>2. /\ Strict(old.keys)
        /\ \A i \in 1 .. n : old.keys[i] \in R
        /\ \A i \in 0 .. n : /\ ChildAt(old, i) \in T0
                             /\ region0[ChildAt(old, i)] = {k \in R : Separators(old, k) = i}
        /\ R \subseteq Nat
    BY <1>1 DEF Adopts, Serves
  <1>3. /\ T0 \subseteq T /\ new \in T /\ x \in T0 /\ s \in region0[x]
        /\ region[x] = {k \in region0[x] : k < s} /\ region[x] # {}
        /\ region[new] = {k \in region0[x] : s <= k}
        /\ \A c \in T0 : region0[c] # {}
    BY DEF Adopts
  <1>4. PICK i \in 0 .. n : ChildAt(old, i) = x
    BY DEF Adopts
  <1>5. region0[x] = {k \in R : Separators(old, k) = i}
    BY <1>2, <1>4
  <1>6. s \in R /\ s \in Nat /\ Separators(old, s) = i
    BY <1>2, <1>3, <1>5
  <1>7. \A j \in 0 .. n : j # i => ChildAt(old, j) # x
    <2> SUFFICES ASSUME NEW j \in 0 .. n, j # i, ChildAt(old, j) = x PROVE FALSE
      OBVIOUS
    <2>1. region0[x] = {k \in R : Separators(old, k) = j}
      BY <1>2
    <2> QED
      BY <1>6, <1>3, <2>1
  <1>8. \A j \in 0 .. n : j # i =>
           /\ ChildAt(old, j) \in T
           /\ region[ChildAt(old, j)] = {k \in R : Separators(old, k) = j}
    BY <1>2, <1>3, <1>7 DEF Adopts
  <1>9. Ordered(old.keys)
    BY <1>1, <1>2, StrictOrdered
  <1>10. ASSUME NEW k \in R
         PROVE  /\ Separators(old, k) \in 0 .. n
                /\ s <= k => Separators(old, k) >= i
                /\ k < s => Separators(old, k) <= i
                /\ Separators(node, k) = IF s <= k THEN Separators(old, k) + 1
                                         ELSE Separators(old, k)
    <2>1. k \in Nat
      BY <1>2
    <2>2. s <= k => Separators(old, k) >= i /\ Separators(old, k) \in 0 .. n
      BY <1>1, <1>6, <1>9, <2>1, SeparatorsGrow
    <2>3. k <= s => Separators(old, k) <= i /\ Separators(old, k) \in 0 .. n
      BY <1>1, <1>6, <1>9, <2>1, SeparatorsGrow
    <2>4. Separators(node, k) = IF s <= k THEN Separators(old, k) + 1
                                ELSE Separators(old, k)
      BY <2>1 DEF Grown
    <2> QED
      BY <1>6, <2>1, <2>2, <2>3, <2>4
  <1>11. /\ Len(node.keys) = n + 1
         /\ \A j \in 0 .. i : ChildAt(node, j) = ChildAt(old, j)
         /\ ChildAt(node, i + 1) = new
         /\ \A j \in i + 2 .. n + 1 : ChildAt(node, j) = ChildAt(old, j - 1)
    BY <1>6 DEF Grown
  <1>12. Strict(node.keys)
    <2>1. ASSUME NEW j \in 1 .. n, old.keys[j] = s PROVE FALSE
      <3>1. PICK k0 \in region0[x] : k0 < s
        BY <1>3
      <3>2. k0 \in Nat /\ Separators(old, k0) = i
        BY <1>2, <1>5, <3>1
      <3>3. Behind(old.keys, k0, i) /\ Behind(old.keys, s, i)
        BY <1>1, <1>6, <1>9, <3>2, SeparatorsBehind
      <3>4. CASE j <= i
        <4>1. s <= k0
          BY <1>4, <2>1, <3>3, <3>4 DEF Behind
        <4> QED
          BY <1>6, <3>1, <3>2, <4>1
      <3>5. CASE j > i
        <4>1. j \in i + 1 .. n
          BY <1>1, <1>4, <3>5
        <4>2. s < s
          BY <2>1, <3>3, <4>1 DEF Behind
        <4> QED
          BY <1>6, <4>2
      <3> QED
        BY <1>4, <3>4, <3>5
    <2>2. Strict(old.keys) /\ \A j \in 1 .. Len(old.keys) : old.keys[j] # s
      BY <1>2, <2>1
    <2> QED
      BY <2>2 DEF Grown
  <1>13. \A j \in 1 .. Len(node.keys) : node.keys[j] \in R
    BY <1>2, <1>6 DEF Grown
  <1>14. ASSUME NEW j \in 0 .. n + 1
         PROVE  /\ ChildAt(node, j) \in T
                /\ region[ChildAt(node, j)] = {k \in R : Separators(node, k) = j}
    <2>1. CASE j < i
      <3>1. j \in 0 .. i /\ j \in 0 .. n /\ j # i
        BY <1>1, <1>4, <2>1
      <3>2. ChildAt(node, j) \in T /\ region[ChildAt(node, j)] = {k \in R : Separators(old, k) = j}
        BY <1>8, <1>11, <3>1
      <3>3. \A k \in R : Separators(old, k) = j <=> Separators(node, k) = j
        BY <1>2, <1>4, <1>6, <1>10, <2>1
      <3> QED
        BY <3>2, <3>3
    <2>2. CASE j = i
      <3>1. ChildAt(node, j) = x
        BY <1>4, <1>11, <2>2
      <3>2. \A k \in R : Separators(node, k) = j <=> Separators(old, k) = i /\ k < s
        BY <1>2, <1>4, <1>6, <1>10, <2>2
      <3> QED
        BY <1>3, <1>5, <3>1, <3>2
    <2>3. CASE j = i + 1
      <3>1. ChildAt(node, j) = new
        BY <1>11, <2>3
      <3>2. \A k \in R : Separators(node, k) = j <=> Separators(old, k) = i /\ s <= k
        BY <1>2, <1>4, <1>6, <1>10, <2>3
      <3> QED
        BY <1>3, <1>5, <3>1, <3>2
    <2>4. CASE j > i + 1
      <3>1. PICK a : a = j - 1
        OBVIOUS
      <3>2. j \in i + 2 .. n + 1 /\ a \in 0 .. n /\ a # i /\ a > i /\ j = a + 1
        BY <1>1, <1>4, <2>4, <3>1
      <3>3. ChildAt(node, j) = ChildAt(old, a)
        BY <1>11, <3>1, <3>2
      <3>4. ChildAt(node, j) \in T /\ region[ChildAt(node, j)] = {k \in R : Separators(old, k) = a}
        BY <1>8, <3>2, <3>3
      <3>5. ASSUME NEW k \in R PROVE Separators(old, k) = a <=> Separators(node, k) = j
        <4>1. k \in Nat
          BY <1>2
        <4>2. CASE s <= k
          <5>1. Separators(node, k) = Separators(old, k) + 1 /\ Separators(old, k) \in Int
            BY <1>10, <4>2
          <5> QED
            BY <3>2, <5>1
        <4>3. CASE k < s
          <5>1. Separators(old, k) <= i /\ Separators(old, k) \in Int
            BY <1>10, <4>3
          <5>2. Separators(node, k) = Separators(old, k)
            BY <1>6, <1>10, <4>1, <4>3
          <5> QED
            BY <1>4, <3>2, <5>1, <5>2
        <4> QED
          BY <1>6, <4>1, <4>2, <4>3
      <3> QED
        BY <3>4, <3>5
    <2> QED
      BY <1>1, <1>4, <2>1, <2>2, <2>3, <2>4
  <1> QED
    BY <1>1, <1>11, <1>12, <1>13, <1>14 DEF Serves

\* The keys of R on either side of s.
Less(R, s) == {k \in R : k < s}
AtLeast(R, s) == {k \in R : s <= k}

SplitIn(left, right, T, region, R, s) ==
    /\ Serves(left, T, region, Less(R, s))
    /\ Serves(right, T, region, AtLeast(R, s))
    /\ s \in R /\ Less(R, s) # {}

LEMMA SplitServes ==
    ASSUME NEW P, NEW node \in InnerNodes(P), NEW left \in InnerNodes(P),
           NEW right \in InnerNodes(P), NEW mid \in Nat, mid < Len(node.keys),
           NEW s, s = node.keys[mid + 1],
           HalfNodes(left, right, node, mid), Divided(left, right, node, mid, s),
           NEW T, NEW region, NEW R, R \subseteq Nat, \A c \in T : region[c] # {},
           Serves(node, T, region, R)
    PROVE  SplitIn(left, right, T, region, R, s)
  <1>0. PICK n : n = Len(node.keys)
    OBVIOUS
  <1>1. /\ node.keys \in Seq(Nat) /\ n \in Nat /\ IsInternal(node)
        /\ IsInternal(left) /\ ~IsLeaf(left) /\ IsInternal(right) /\ ~IsLeaf(right)
        /\ \A i \in 1 .. n : node.keys[i] \in Nat
    BY <1>0, InnerParts
  <1>2. /\ Strict(node.keys)
        /\ \A i \in 1 .. n : node.keys[i] \in R
        /\ \A i \in 0 .. n : /\ ChildAt(node, i) \in T
                             /\ region[ChildAt(node, i)] = {k \in R : Separators(node, k) = i}
    BY <1>0, <1>1 DEF Serves
  <1>3. /\ Len(left.keys) = mid /\ Len(right.keys) = n - mid - 1
        /\ \A i \in 1 .. mid : left.keys[i] = node.keys[i]
        /\ \A i \in 1 .. n - mid - 1 : right.keys[i] = node.keys[mid + 1 + i]
        /\ \A i \in 0 .. mid : ChildAt(left, i) = ChildAt(node, i)
        /\ \A i \in 0 .. n - mid - 1 : ChildAt(right, i) = ChildAt(node, mid + 1 + i)
    BY <1>0 DEF HalfNodes
  <1>4. /\ Strict(left.keys) /\ Strict(right.keys)
        /\ \A i \in 1 .. mid : node.keys[i] < s
        /\ \A i \in mid + 1 .. n : s <= node.keys[i]
    BY <1>0, <1>2 DEF Divided
  <1>5. \A k \in R :
           /\ k < s => Separators(left, k) = Separators(node, k)
           /\ k < s <=> Separators(node, k) \in 0 .. mid
           /\ s <= k => /\ Separators(node, k) = mid + 1 + Separators(right, k)
                        /\ Separators(right, k) \in 0 .. n - mid - 1
    BY <1>0 DEF Divided
  <1>6. s \in R /\ s \in Nat
    <2>1. mid + 1 \in 1 .. n
      BY <1>0, <1>1
    <2> QED
      BY <1>2, <2>1
  <1>7. Less(R, s) # {}
    <2>1. 0 \in 0 .. n /\ 0 \in 0 .. mid
      BY <1>1
    <2>2. {k \in R : Separators(node, k) = 0} # {}
      BY <1>2, <2>1
    <2>3. PICK k \in R : Separators(node, k) = 0
      BY <2>2
    <2>4. k < s
      BY <1>5, <2>1, <2>3
    <2> QED
      BY <2>4 DEF Less
  <1>8. Serves(left, T, region, Less(R, s))
    <2>1. \A i \in 1 .. mid : i \in 1 .. n
      BY <1>0, <1>1
    <2>2. \A i \in 1 .. mid : left.keys[i] \in Less(R, s)
      BY <1>2, <1>3, <1>4, <2>1 DEF Less
    <2>3. ASSUME NEW i \in 0 .. mid
          PROVE  /\ ChildAt(left, i) \in T
                 /\ region[ChildAt(left, i)] = {k \in Less(R, s) : Separators(left, k) = i}
      <3>1. i \in 0 .. n /\ ChildAt(left, i) = ChildAt(node, i)
        BY <1>0, <1>1, <1>3
      <3>2. \A k \in R : Separators(node, k) = i <=> k < s /\ Separators(left, k) = i
        BY <1>5
      <3> QED
        BY <1>2, <3>1, <3>2 DEF Less
    <2> QED
      BY <1>1, <1>3, <1>4, <2>2, <2>3 DEF Serves
  <1>9. Serves(right, T, region, AtLeast(R, s))
    <2>1. ASSUME NEW i \in 1 .. n - mid - 1 PROVE right.keys[i] \in AtLeast(R, s)
      <3>1. PICK a : a = mid + 1 + i
        OBVIOUS
      <3>2. a \in 1 .. n /\ a \in mid + 1 .. n /\ right.keys[i] = node.keys[a]
        BY <1>0, <1>1, <1>3, <3>1
      <3> QED
        BY <1>2, <1>4, <3>2 DEF AtLeast
    <2>2. ASSUME NEW i \in 0 .. n - mid - 1
          PROVE  /\ ChildAt(right, i) \in T
                 /\ region[ChildAt(right, i)] = {k \in AtLeast(R, s) : Separators(right, k) = i}
      <3>1. PICK a : a = mid + 1 + i
        OBVIOUS
      <3>2. a \in 0 .. n /\ ChildAt(right, i) = ChildAt(node, a)
        BY <1>0, <1>1, <1>3, <3>1
      <3>3. ASSUME NEW k \in R
            PROVE  Separators(node, k) = a <=> s <= k /\ Separators(right, k) = i
        <4>1. k \in Nat
          OBVIOUS
        <4>2. CASE k < s
          <5>1. Separators(node, k) \in 0 .. mid
            BY <1>5, <4>2
          <5> QED
            BY <1>6, <3>1, <4>1, <4>2, <5>1
        <4>3. CASE s <= k
          <5>1. Separators(node, k) = mid + 1 + Separators(right, k) /\ Separators(right, k) \in Int
            BY <1>5, <4>3
          <5> QED
            BY <3>1, <4>3, <5>1
        <4> QED
          BY <1>6, <4>1, <4>2, <4>3
      <3> QED
        BY <1>2, <3>2, <3>3 DEF AtLeast
    <2> QED
      BY <1>1, <1>3, <1>4, <2>1, <2>2 DEF Serves
  <1> QED
    BY <1>6, <1>7, <1>8, <1>9 DEF SplitIn

NotChild(node, y) ==
    IsInternal(node) => \A i \in 0 .. Len(node.keys) : ChildAt(node, i) # y

\* All pages of T but z serve their region.
Grove(pg, N, level, top, T, region, z) ==
    /\ T \subseteq Pages(N)
    /\ \A p \in T : /\ NodeAt(pg, p) /\ level[p] \in Nat /\ level[p] <= top
                    /\ region[p] \subseteq Nat /\ region[p] # {}
    /\ \A p, r \in T : p # r /\ level[p] = level[r] => region[p] \cap region[r] = {}
    /\ \A p \in T : p # z => Serves(pg[p], T, region, region[p])

LEMMA GrovePut ==
    ASSUME NEW pg, NEW N, NEW level, NEW top, NEW T, NEW region, NEW y \in T,
           Grove(pg, N, level, top, T, region, y),
           NEW q, \A p \in Pages(N) : p # y => q[p] = pg[p],
           NodeAt(q, y), Serves(q[y], T, region, region[y]), NEW z
    PROVE  Grove(q, N, level, top, T, region, z)
  <1>1. \A p \in T : p # y => q[p] = pg[p]
    BY DEF Grove
  <1>2. \A p \in T : NodeAt(q, p)
    BY <1>1 DEF Grove, NodeAt
  <1> QED
    BY <1>1, <1>2 DEF Grove

\* region, with what y had divided between y and the new page at s.
Cut(region, T, y, new, s) ==
    [p \in T \cup {new} |-> IF p = y THEN Less(region[y], s)
                            ELSE IF p = new THEN AtLeast(region[y], s)
                            ELSE region[p]]

LEMMA ServesMore ==
    ASSUME NEW node, NEW T, NEW region, NEW R, Serves(node, T, region, R),
           NEW T2, T \subseteq T2, NEW region2, NEW y, NotChild(node, y),
           \A p \in T : p # y => region2[p] = region[p]
    PROVE  Serves(node, T2, region2, R)
  <1>1. CASE IsInternal(node)
    <2>1. ~IsLeaf(node)
      BY <1>1 DEF IsInternal, IsLeaf
    <2>2. ASSUME NEW i \in 0 .. Len(node.keys)
          PROVE  /\ ChildAt(node, i) \in T2
                 /\ region2[ChildAt(node, i)] = {k \in R : Separators(node, k) = i}
      <3>1. ChildAt(node, i) # y
        BY <1>1 DEF NotChild
      <3> QED
        BY <1>1, <3>1 DEF Serves
    <2> QED
      BY <1>1, <2>1, <2>2 DEF Serves
  <1>2. CASE ~IsInternal(node)
    BY <1>2 DEF Serves
  <1> QED
    BY <1>1, <1>2

LEMMA GroveSplit ==
    ASSUME NEW pg, NEW N, NEW level, NEW top, NEW T, NEW region, NEW y \in T,
           Grove(pg, N, level, top, T, region, y),
           NEW new \in Pages(N), new \notin T, level[new] = level[y],
           NEW q, \A p \in Pages(N) : p # y /\ p # new => q[p] = pg[p],
           NodeAt(q, y), NodeAt(q, new), NEW s \in Nat,
           SplitIn(q[y], q[new], T, region, region[y], s),
           NEW w, \A p \in T \cup {new} : p # w => NotChild(q[p], y)
    PROVE  w # y /\ w # new =>
              Grove(q, N, level, top, T \cup {new}, Cut(region, T, y, new, s), w)
  <1> SUFFICES ASSUME w # y, w # new
               PROVE  Grove(q, N, level, top, T \cup {new}, Cut(region, T, y, new, s), w)
    OBVIOUS
  <1>1. PICK U, cut, R : U = T \cup {new} /\ cut = Cut(region, T, y, new, s) /\ R = region[y]
    OBVIOUS
  <1>2. /\ cut[y] = Less(R, s) /\ cut[new] = AtLeast(R, s)
        /\ \A p \in T : p # y => cut[p] = region[p]
    BY <1>1 DEF Cut
  <1>3. /\ T \subseteq Pages(N)
        /\ \A p \in T : /\ NodeAt(pg, p) /\ level[p] \in Nat /\ level[p] <= top
                        /\ region[p] \subseteq Nat /\ region[p] # {}
        /\ \A p, r \in T : p # r /\ level[p] = level[r] => region[p] \cap region[r] = {}
        /\ \A p \in T : p # y => Serves(pg[p], T, region, region[p])
    BY DEF Grove
  <1>4. /\ Serves(q[y], T, region, Less(R, s)) /\ Serves(q[new], T, region, AtLeast(R, s))
        /\ s \in R /\ Less(R, s) # {} /\ R \subseteq Nat
    BY <1>1, <1>3 DEF SplitIn
  <1>5. /\ Less(R, s) \subseteq R /\ AtLeast(R, s) \subseteq R
        /\ Less(R, s) \cap AtLeast(R, s) = {} /\ s \in AtLeast(R, s)
    <2>1. \A k \in R : k \in Nat
      BY <1>4
    <2>2. \A k \in Nat : ~(k < s /\ s <= k)
      OBVIOUS
    <2>3. s <= s
      OBVIOUS
    <2>4. ASSUME NEW k, k \in Less(R, s), k \in AtLeast(R, s) PROVE FALSE
      <3>1. k \in R /\ k < s /\ s <= k
        BY <2>4 DEF Less, AtLeast
      <3> QED
        BY <2>1, <2>2, <3>1
    <2>5. s \in AtLeast(R, s)
      BY <1>4, <2>3 DEF AtLeast
    <2>6. Less(R, s) \subseteq R /\ AtLeast(R, s) \subseteq R
      BY DEF Less, AtLeast
    <2> QED
      BY <2>4, <2>5, <2>6
  <1>6. U \subseteq Pages(N)
    BY <1>1, <1>3
  <1>7. ASSUME NEW p \in U
        PROVE  /\ NodeAt(q, p) /\ level[p] \in Nat /\ level[p] <= top
               /\ cut[p] \subseteq Nat /\ cut[p] # {}
    <2>1. CASE p = y
      BY <1>2, <1>3, <1>4, <1>5, <2>1
    <2>2. CASE p = new
      BY <1>2, <1>3, <1>4, <1>5, <2>2
    <2>3. CASE p # y /\ p # new
      <3>1. p \in T /\ p \in Pages(N) /\ q[p] = pg[p]
        BY <1>1, <1>3, <2>3
      <3> QED
        BY <1>2, <1>3, <2>3, <3>1 DEF NodeAt
    <2> QED
      BY <2>1, <2>2, <2>3
  <1>8. ASSUME NEW p \in U, NEW r \in U, p # r, level[p] = level[r]
        PROVE  cut[p] \cap cut[r] = {}
    <2>1. ASSUME NEW a \in T, a # y, level[a] = level[y] PROVE cut[a] \cap R = {}
      <3>1. region[a] \cap region[y] = {}
        BY <1>3, <2>1
      <3> QED
        BY <1>1, <1>2, <2>1, <3>1
    <2>2. CASE p \in {y, new} /\ r \in {y, new}
      BY <1>2, <1>5, <1>8, <2>2
    <2>3. CASE p \in {y, new} /\ r \notin {y, new}
      <3>1. cut[r] \cap R = {}
        BY <1>1, <1>8, <2>1, <2>3
      <3> QED
        BY <1>2, <1>5, <2>3, <3>1
    <2>4. CASE p \notin {y, new} /\ r \in {y, new}
      <3>1. cut[p] \cap R = {}
        BY <1>1, <1>8, <2>1, <2>4
      <3> QED
        BY <1>2, <1>5, <2>4, <3>1
    <2>5. CASE p \notin {y, new} /\ r \notin {y, new}
      BY <1>1, <1>2, <1>3, <1>8, <2>5
    <2> QED
      BY <2>2, <2>3, <2>4, <2>5
  <1>9. ASSUME NEW p \in U, p # w PROVE Serves(q[p], U, cut, cut[p])
    <2>1. NotChild(q[p], y)
      BY <1>1, <1>9
    <2>2. Serves(q[p], T, region, cut[p])
      <3>1. CASE p = y
        BY <1>2, <1>4, <3>1
      <3>2. CASE p = new
        BY <1>2, <1>4, <3>2
      <3>3. CASE p # y /\ p # new
        <4>1. p \in T /\ p \in Pages(N) /\ q[p] = pg[p]
          BY <1>1, <1>3, <3>3
        <4> QED
          BY <1>2, <1>3, <3>3, <4>1
      <3> QED
        BY <3>1, <3>2, <3>3
    <2>3. T \subseteq U
      BY <1>1
    <2> QED
      BY <1>2, <2>1, <2>2, <2>3, ServesMore
  <1>10. Grove(q, N, level, top, U, cut, w)
    BY <1>6, <1>7, <1>8, <1>9 DEF Grove
  <1> QED
    BY <1>1, <1>10

\* From root, where every descent begins.
SearchTree(pg, N, level, root, T, region) ==
    /\ Grove(pg, N, level, level[root], T, region, 0)
    /\ root \in T /\ region[root] = Nat

LEMMA GroveLess ==
    ASSUME NEW pg, NEW N, NEW level, NEW top, NEW T, NEW region,
           Grove(pg, N, level, top, T, region, 0), ~NodeAt(pg, 0)
    PROVE  /\ 0 \notin T
           /\ \A z : Grove(pg, N, level, top, T, region, z)
  BY DEF Grove

LEMMA ChildLevel ==
    ASSUME NEW pg, NEW N, NEW V, NEW num, NEW level, Shape(pg, N, V, num, level),
           NEW p \in Pages(N), IsInternal(pg[p]), NEW i \in 0 .. Len(pg[p].keys),
           NodeAt(pg, ChildAt(pg[p], i))
    PROVE  /\ ChildAt(pg[p], i) \in Pages(N)
           /\ level[ChildAt(pg[p], i)] + 1 = level[p]
  <1>1. PICK node, K, c : /\ node = pg[p] /\ K = Kids(pg, N, level, level[p])
                          /\ c = ChildAt(pg[p], i)
    OBVIOUS
  <1>2. GoodInner(node, K, level[p]) /\ ~NodeAt(pg, 0)
    BY <1>1 DEF Shape
  <1>3. node \in InnerNodes(K) /\ Len(node.keys) <= INTERNAL_NODE_MAX_KEYS
    BY <1>2 DEF GoodInner
  <1>4. node.child \in [ChildSlots -> K] /\ node.right \in K /\ Len(node.keys) \in Nat
    BY <1>3, InnerParts
  <1>5. i \in ChildSlots
    BY <1>1, <1>3, <1>4, NodeAssumption DEF ChildSlots
  <1>6. c \in K
    BY <1>1, <1>4, <1>5 DEF ChildAt
  <1>7. c # 0
    BY <1>1, <1>2
  <1> QED
    BY <1>1, <1>6, <1>7 DEF Kids

\* w is the only node that can have y as a child: y is the root, or w lies on
\* the level above it and has its region.
ParentOf(w, y, level, top, T, region) ==
    \/ level[y] = top
    \/ w \in T /\ level[w] = level[y] + 1 /\ region[y] \subseteq region[w]

LEMMA OnlyParent ==
    ASSUME NEW pg, NEW N, NEW V, NEW num, NEW level, Shape(pg, N, V, num, level),
           NEW top, NEW T, NEW region, NEW z, Grove(pg, N, level, top, T, region, z),
           NEW y \in T, NEW w, ParentOf(w, y, level, top, T, region),
           NEW p \in T, p # w, p # z
    PROVE  NotChild(pg[p], y)
  <1> SUFFICES ASSUME IsInternal(pg[p]), NEW i \in 0 .. Len(pg[p].keys), ChildAt(pg[p], i) = y
               PROVE  FALSE
    BY DEF NotChild
  <1>1. /\ p \in Pages(N) /\ NodeAt(pg, y) /\ Serves(pg[p], T, region, region[p])
        /\ level[p] \in Nat /\ level[p] <= top /\ level[y] \in Nat /\ region[y] # {}
        /\ \A r \in T : p # r /\ level[p] = level[r] => region[p] \cap region[r] = {}
    BY DEF Grove
  <1>2. level[y] + 1 = level[p]
    BY <1>1, ChildLevel
  <1>3. region[y] \subseteq region[p]
    <2>1. region[ChildAt(pg[p], i)] = {k \in region[p] : Separators(pg[p], k) = i}
      BY <1>1 DEF Serves
    <2> QED
      BY <2>1
  <1>4. level[y] # top
    BY <1>1, <1>2
  <1>5. w \in T /\ level[w] = level[p] /\ region[y] \subseteq region[w]
    BY <1>2, <1>4 DEF ParentOf
  <1> QED
    BY <1>1, <1>3, <1>5

\* A descent stays in the search tree, in the regions of its key.
PathIn(path, pg, T, region, n, key) ==
    /\ \A d \in 1 .. n : path[d] \in T /\ key \in region[path[d]]
    /\ \A d \in 1 .. n : d # n =>
          /\ \E i \in 0 .. Len(pg[path[d]].keys) : ChildAt(pg[path[d]], i) = path[d + 1]
          /\ region[path[d + 1]] \subseteq region[path[d]]

LEMMA PathRegions ==
    ASSUME NEW pg, NEW N, NEW V, NEW num, NEW level, Shape(pg, N, V, num, level),
           NEW root, NEW T, NEW region, SearchTree(pg, N, level, root, T, region),
           NEW key \in Nat,
           NEW path, IsPath(path, pg, N, level, root, key), NEW n, n = Len(path)
    PROVE  PathIn(path, pg, T, region, n, key) /\ LeafPath(path, pg, N, level, root, key)
  <1>1. /\ n \in Nat \ {0} /\ path[1] = root
        /\ \A d \in 1 .. n :
              /\ IsInternal(pg[path[d]]) <=> d # n
              /\ d # n => path[d + 1] = internal_find_child(pg[path[d]], key)
        /\ path[n] = 0 \/ IsLeaf(pg[path[n]])
    BY DEF IsPath
  <1>2. /\ root \in T /\ region[root] = Nat /\ T \subseteq Pages(N)
        /\ \A p \in T : NodeAt(pg, p) /\ (p # 0 => Serves(pg[p], T, region, region[p]))
        /\ ~NodeAt(pg, 0)
    BY DEF SearchTree, Grove, Shape
  <1>3. ASSUME NEW d \in 1 .. n, d # n, path[d] \in T, key \in region[path[d]]
        PROVE  /\ path[d + 1] \in T /\ key \in region[path[d + 1]]
               /\ \E i \in 0 .. Len(pg[path[d]].keys) : ChildAt(pg[path[d]], i) = path[d + 1]
               /\ region[path[d + 1]] \subseteq region[path[d]]
    <2>1. PICK p, node, K : /\ p = path[d] /\ node = pg[p] /\ K = Kids(pg, N, level, level[p])
      OBVIOUS
    <2>2. p \in T /\ p \in Pages(N) /\ IsInternal(node) /\ key \in region[p]
          /\ path[d + 1] = internal_find_child(node, key)
      BY <1>1, <1>2, <1>3, <2>1
    <2>3. GoodInner(node, K, level[p])
      BY <2>1, <2>2 DEF Shape
    <2>4. PICK i : i = Separators(node, key)
      OBVIOUS
    <2>5. i \in 0 .. Len(node.keys) /\ path[d + 1] = ChildAt(node, i)
      BY <2>2, <2>3, <2>4, FindChild DEF GoodInner
    <2>6. Serves(node, T, region, region[p])
      BY <1>2, <2>1, <2>2
    <2>7. /\ ChildAt(node, i) \in T
          /\ region[ChildAt(node, i)] = {k \in region[p] : Separators(node, k) = i}
      BY <2>2, <2>5, <2>6 DEF Serves
    <2> QED
      BY <2>1, <2>2, <2>4, <2>5, <2>7
  <1> DEFINE S == {k \in Nat : k + 1 <= n => path[k + 1] \in T /\ key \in region[path[k + 1]]}
  <1>4. 0 \in S
    BY <1>1, <1>2
  <1>5. ASSUME NEW k \in Nat, k \in S PROVE k + 1 \in S
    <2> SUFFICES ASSUME k + 1 + 1 <= n
                 PROVE  path[k + 1 + 1] \in T /\ key \in region[path[k + 1 + 1]]
      OBVIOUS
    <2>1. PICK d : d = k + 1
      OBVIOUS
    <2>2. d \in 1 .. n /\ d # n
      BY <1>1, <2>1
    <2>3. path[d] \in T /\ key \in region[path[d]]
      BY <1>1, <1>5, <2>1
    <2> QED
      BY <1>3, <2>1, <2>2, <2>3
  <1> HIDE DEF S
  <1>6. ASSUME NEW d \in 1 .. n PROVE path[d] \in T /\ key \in region[path[d]]
    <2>1. PICK k : k = d - 1
      OBVIOUS
    <2>2. k \in Nat /\ k + 1 = d /\ k + 1 <= n
      BY <1>1, <2>1
    <2>3. k \in S
      BY <1>4, <1>5, <2>2, Induction
    <2> QED
      BY <2>2, <2>3 DEF S
  <1>7. PathIn(path, pg, T, region, n, key)
    BY <1>3, <1>6 DEF PathIn
  <1>8. n \in 1 .. n
    BY <1>1
  <1>9. path[n] # 0
    BY <1>2, <1>6, <1>8
  <1> QED
    BY <1>1, <1>7, <1>9 DEF LeafPath

\* Of the leaves only x was narrowed, and the new leaf num has the rest.
LeafNarrowed(T, region, T0, region0, level, x, num) ==
    /\ \A p \in T0 : level[p] = 0 /\ p # x => region[p] = region0[p]
    /\ num \notin T => region[x] = region0[x]
    /\ num \in T => \E s \in Nat : /\ region[x] = Less(region0[x], s)
                                  /\ region[num] = AtLeast(region0[x], s)

\* The search tree after an insertion at the node x, which has w above it: all of
\* it serves, but w when x was split, and at x or above only x was narrowed.
Leads(o, N, level, num, top, T0, region0, leaf, x, w, T, region) ==
    /\ T0 \subseteq T /\ LeafNarrowed(T, region, T0, region0, level, leaf, num)
    /\ \A p \in num .. o.num_pages - 1 : p \in T
    /\ IF ~o.split.did_split
       THEN /\ Grove(o.pg, N, level, top, T, region, 0)
            /\ \A p \in T0 : level[x] <= level[p] => region[p] = region0[p]
       ELSE /\ Grove(o.pg, N, level, top, T, region, w)
            /\ o.split.new_page \in T \ T0
            /\ level[o.split.new_page] = level[x]
            /\ o.split.key \in region0[x]
            /\ region[x] = Less(region0[x], o.split.key)
            /\ region[o.split.new_page] = AtLeast(region0[x], o.split.key)
            /\ \A p \in T0 : level[x] <= level[p] /\ p # x => region[p] = region0[p]

LEMMA LeafLeads ==
    ASSUME NEW pg, NEW N, NEW V, NEW num, NEW level, Shape(pg, N, V, num, level),
           Fresh(level, N, num), NEW top, NEW T, NEW region,
           Grove(pg, N, level, top, T, region, 0),
           NEW x \in T, IsLeaf(pg[x]),
           NEW cell, cell.key \in region[x], NEW o, LeafTook(o, pg, N, num, x, cell),
           NEW w, w = 0 \/ w \in T, w # x, ParentOf(w, x, level, top, T, region)
    PROVE  \E U, reg : Leads(o, N, level, num, top, T, region, x, x, w, U, reg)
  <1>1. /\ N \in Nat /\ num \in 2 .. N /\ ~NodeAt(pg, 0)
    BY DEF Shape
  <1>2. 0 \notin T /\ \A z : Grove(pg, N, level, top, T, region, z)
    BY <1>1, GroveLess
  <1>3. /\ T \subseteq Pages(N) /\ x \in Pages(N)
        /\ \A p \in T : NodeAt(pg, p) /\ level[p] \in Nat
        /\ region[x] \subseteq Nat
        /\ Serves(pg[x], T, region, region[x])
    BY <1>2 DEF Grove
  <1>4. IsLeaf(o.pg[x]) /\ ~IsInternal(o.pg[x])
    BY DEF LeafTook, IsLeaf, IsInternal
  <1>5. \A c \in CellsAt(pg, x) : c.key \in region[x]
    BY <1>3 DEF Serves, CellsAt
  <1>6. CASE ~o.split.did_split
    <2>1. /\ o.num_pages = num
          /\ \A p \in Pages(N) : p # x => o.pg[p] = pg[p]
          /\ CellsAt(o.pg, x) = CellsAt(pg, x) \cup {cell}
      BY <1>6 DEF LeafTook
    <2>2. Serves(o.pg[x], T, region, region[x])
      BY <1>4, <1>5, <2>1 DEF Serves, CellsAt
    <2>3. NodeAt(o.pg, x)
      BY <1>4 DEF NodeAt
    <2>4. Grove(o.pg, N, level, top, T, region, 0)
      BY <1>2, <2>1, <2>2, <2>3, GrovePut
    <2>5. \A p \in num .. o.num_pages - 1 : p \in T
      BY <1>1, <2>1
    <2>6. num \notin T
      <3>1. num \in T => num < num
        BY <1>3, Kinds
      <3> QED
        BY <1>1, <3>1
    <2>7. LeafNarrowed(T, region, T, region, level, x, num)
      BY <2>6 DEF LeafNarrowed
    <2>8. Leads(o, N, level, num, top, T, region, x, x, w, T, region)
      BY <1>6, <2>4, <2>5, <2>7 DEF Leads
    <2> QED
      BY <2>8
  <1>7. CASE o.split.did_split
    <2>1. /\ o.num_pages = num + 1 /\ o.split.new_page = num
          /\ num \in Pages(N) /\ num # x /\ ~NodeAt(pg, num)
          /\ \A p \in Pages(N) : p # x /\ p # num => o.pg[p] = pg[p]
          /\ IsLeaf(o.pg[num])
          /\ CellsAt(o.pg, x) \cup CellsAt(o.pg, num) = CellsAt(pg, x) \cup {cell}
          /\ o.split.key \in Nat
          /\ \A c \in CellsAt(o.pg, x) : c.key < o.split.key
          /\ \A c \in CellsAt(o.pg, num) : o.split.key <= c.key
          /\ CellsAt(o.pg, x) # {}
          /\ \E c \in CellsAt(o.pg, num) : c.key = o.split.key
      BY <1>7 DEF LeafTook
    <2>2. PICK q, s, U, reg : /\ q = o.pg /\ s = o.split.key /\ U = T \cup {num}
                              /\ reg = Cut(region, T, x, num, s)
      OBVIOUS
    <2>3. num \notin T /\ w # num
      BY <1>1, <1>3, <2>1
    <2>4. level[num] = 0 /\ level[x] = 0
      <3>1. level[num] = num - num
        BY <1>1, <2>1 DEF Fresh
      <3> QED
        BY <1>1, <1>3, <3>1, Kinds
    <2>5. SplitIn(q[x], q[num], T, region, region[x], s)
      <3>1. \A c \in CellsAt(q, x) \cup CellsAt(q, num) : c.key \in region[x]
        BY <1>5, <2>1, <2>2
      <3>2. CellsAt(q, x) = CellSet(q[x].cells) /\ CellsAt(q, num) = CellSet(q[num].cells)
        BY <1>4, <2>1, <2>2 DEF CellsAt
      <3>3. ~IsInternal(q[x]) /\ ~IsInternal(q[num])
        BY <1>4, <2>1, <2>2 DEF IsLeaf, IsInternal
      <3>4. Serves(q[x], T, region, Less(region[x], s))
        BY <2>1, <2>2, <3>1, <3>2, <3>3 DEF Serves, Less
      <3>5. Serves(q[num], T, region, AtLeast(region[x], s))
        BY <2>1, <2>2, <3>1, <3>2, <3>3 DEF Serves, AtLeast
      <3>6. s \in region[x]
        BY <2>1, <2>2, <3>1
      <3>7. Less(region[x], s) # {}
        <4>1. PICK c \in CellsAt(q, x) : c.key < s
          BY <2>1, <2>2
        <4> QED
          BY <3>1, <4>1 DEF Less
      <3> QED
        BY <3>4, <3>5, <3>6, <3>7 DEF SplitIn
    <2>6. ASSUME NEW p \in U, p # w PROVE NotChild(q[p], x)
      <3>1. CASE p = x \/ p = num
        BY <1>4, <2>1, <2>2, <3>1 DEF NotChild, IsLeaf, IsInternal
      <3>2. CASE p # x /\ p # num
        <4>1. p \in T /\ q[p] = pg[p] /\ p # 0
          BY <1>2, <1>3, <2>1, <2>2, <3>2
        <4>2. NotChild(pg[p], x)
          BY <2>6, <4>1, OnlyParent
        <4> QED
          BY <4>1, <4>2
      <3> QED
        BY <3>1, <3>2
    <2>7. Grove(q, N, level, top, U, reg, w)
      <3>1. \A p \in Pages(N) : p # x /\ p # num => q[p] = pg[p]
        BY <2>1, <2>2
      <3>2. NodeAt(q, x) /\ NodeAt(q, num) /\ s \in Nat
        BY <1>4, <2>1, <2>2 DEF NodeAt
      <3>3. Grove(pg, N, level, top, T, region, x) /\ level[num] = level[x]
        BY <1>2, <2>4
      <3>4. \A p \in T \cup {num} : p # w => NotChild(q[p], x)
        BY <2>2, <2>6
      <3>5. w # x /\ w # num =>
               Grove(q, N, level, top, T \cup {num}, Cut(region, T, x, num, s), w)
        BY <2>1, <2>3, <2>5, <3>1, <3>2, <3>3, <3>4, GroveSplit
      <3> QED
        BY <2>2, <2>3, <3>5
    <2>8. /\ reg[x] = Less(region[x], s) /\ reg[num] = AtLeast(region[x], s)
          /\ \A p \in T : p # x => reg[p] = region[p]
      BY <2>1, <2>2, <2>3 DEF Cut
    <2>9. s \in region[x]
      BY <2>5 DEF SplitIn
    <2>10. \A p \in num .. o.num_pages - 1 : p \in U
      BY <1>1, <2>1, <2>2
    <2>11. LeafNarrowed(U, reg, T, region, level, x, num)
      BY <2>1, <2>2, <2>8 DEF LeafNarrowed
    <2>12. Leads(o, N, level, num, top, T, region, x, x, w, U, reg)
      BY <1>7, <2>1, <2>2, <2>3, <2>4, <2>7, <2>8, <2>9, <2>10, <2>11 DEF Leads
    <2> QED
      BY <2>12
  <1> QED
    BY <1>6, <1>7

\* The internal node x lies above the node b, which was split, and takes the
\* separator and the new node.
LEMMA NodeAdopts ==
    ASSUME NEW pg, NEW N, NEW V, NEW num, NEW level, Shape(pg, N, V, num, level),
           NEW top, NEW T0, NEW region0, Grove(pg, N, level, top, T0, region0, 0),
           NEW x \in T0, IsInternal(pg[x]), NEW b \in T0,
           \E i \in 0 .. Len(pg[x].keys) : ChildAt(pg[x], i) = b,
           NEW o, o.split.did_split, NEW T, NEW region,
           NEW leaf, Leads(o, N, level, num, top, T0, region0, leaf, b, x, T, region)
    PROVE  /\ Adopts(pg[x], T0, region0, T, region, b, o.split.new_page, o.split.key, region0[x])
           /\ level[x] = level[b] + 1 /\ region[x] = region0[x]
  <1>1. /\ T0 \subseteq T /\ Grove(o.pg, N, level, top, T, region, x)
        /\ o.split.new_page \in T \ T0 /\ o.split.key \in region0[b]
        /\ region[b] = Less(region0[b], o.split.key)
        /\ region[o.split.new_page] = AtLeast(region0[b], o.split.key)
        /\ \A p \in T0 : level[b] <= level[p] /\ p # b => region[p] = region0[p]
    BY DEF Leads
  <1>2. ~NodeAt(pg, 0)
    BY DEF Shape
  <1>3. /\ 0 \notin T0 /\ T0 \subseteq Pages(N)
        /\ \A p \in T0 : /\ NodeAt(pg, p) /\ Serves(pg[p], T0, region0, region0[p])
                         /\ level[p] \in Nat
                         /\ region0[p] \subseteq Nat /\ region0[p] # {}
    BY <1>2, GroveLess DEF Grove
  <1>4. ASSUME NEW i \in 0 .. Len(pg[x].keys)
        PROVE  ChildAt(pg[x], i) \in T0 /\ level[ChildAt(pg[x], i)] + 1 = level[x]
    <2>1. ChildAt(pg[x], i) \in T0
      BY <1>3 DEF Serves
    <2>2. x \in Pages(N) /\ NodeAt(pg, ChildAt(pg[x], i))
      BY <1>3, <2>1
    <2> QED
      BY <2>1, <2>2, ChildLevel
  <1>5. level[x] = level[b] + 1
    BY <1>4
  <1>6. ASSUME NEW i \in 0 .. Len(pg[x].keys), ChildAt(pg[x], i) # b
        PROVE  region[ChildAt(pg[x], i)] = region0[ChildAt(pg[x], i)]
    <2>1. PICK c : c = ChildAt(pg[x], i)
      OBVIOUS
    <2>2. c \in T0 /\ level[c] + 1 = level[x] /\ level[c] \in Nat /\ level[b] \in Nat
      BY <1>3, <1>4, <2>1
    <2>3. level[b] <= level[c]
      BY <1>5, <2>2
    <2> QED
      BY <1>1, <1>6, <2>1, <2>2, <2>3
  <1>7. region[x] = region0[x]
    <2>1. level[b] \in Nat
      BY <1>3
    <2>2. x # b /\ level[b] <= level[x]
      BY <1>5, <2>1
    <2> QED
      BY <1>1, <2>2
  <1>8. region[b] # {}
    BY <1>1 DEF Grove
  <1>9. /\ region[b] = {k \in region0[b] : k < o.split.key}
        /\ region[o.split.new_page] = {k \in region0[b] : o.split.key <= k}
    BY <1>1 DEF Less, AtLeast
  <1>10. Adopts(pg[x], T0, region0, T, region, b, o.split.new_page, o.split.key, region0[x])
    BY <1>1, <1>3, <1>6, <1>8, <1>9 DEF Adopts
  <1> QED
    BY <1>5, <1>7, <1>10

\* Neither half of a node is below itself: its keys are all or none below s.
LEMMA SplitNotChild ==
    ASSUME NEW left, NEW right, NEW T, NEW region, NEW x, NEW s \in Nat,
           region[x] \subseteq Nat, SplitIn(left, right, T, region, region[x], s)
    PROVE  NotChild(left, x) /\ NotChild(right, x)
  <1>1. /\ Serves(left, T, region, Less(region[x], s))
        /\ Serves(right, T, region, AtLeast(region[x], s))
        /\ s \in region[x] /\ Less(region[x], s) # {}
    BY DEF SplitIn
  <1>2. ASSUME IsInternal(left), NEW i \in 0 .. Len(left.keys), ChildAt(left, i) = x
        PROVE  FALSE
    <2>1. region[x] = {k \in Less(region[x], s) : Separators(left, k) = i}
      BY <1>1, <1>2 DEF Serves
    <2>2. s \in Less(region[x], s)
      BY <1>1, <2>1
    <2> QED
      BY <2>2 DEF Less
  <1>3. ASSUME IsInternal(right), NEW i \in 0 .. Len(right.keys), ChildAt(right, i) = x
        PROVE  FALSE
    <2>1. region[x] = {k \in AtLeast(region[x], s) : Separators(right, k) = i}
      BY <1>1, <1>3 DEF Serves
    <2>2. PICK k \in region[x] : k < s
      BY <1>1 DEF Less
    <2>3. s <= k
      BY <2>1, <2>2 DEF AtLeast
    <2>4. k \in Nat
      OBVIOUS
    <2> QED
      BY <2>2, <2>3, <2>4
  <1> QED
    BY <1>2, <1>3 DEF NotChild

LEMMA AboveLeads ==
    ASSUME NEW pg, NEW N, NEW V, NEW num, NEW level, Shape(pg, N, V, num, level),
           Fresh(level, N, num),
           NEW top, NEW T0, NEW region0, Grove(pg, N, level, top, T0, region0, 0),
           NEW o, NEW below, NEW x, Lifted(o, below, pg, N, V, num, level, x),
           Tidy(below.pg, N), o.num_pages <= N, ~o.lost, below.pg[x] = pg[x],
           below.split.did_split => below.num_pages = num + level[x],
           x \in T0, NEW b \in T0,
           \E i \in 0 .. Len(pg[x].keys) : ChildAt(pg[x], i) = b,
           NEW w, w = 0 \/ w \in T0, w # x, ParentOf(w, x, level, top, T0, region0),
           NEW leaf \in T0, level[leaf] = 0,
           NEW T, NEW region, Leads(below, N, level, num, top, T0, region0, leaf, b, x, T, region)
    PROVE  \E U, reg : Leads(o, N, level, num, top, T0, region0, leaf, x, w, U, reg)
  <1>1. /\ N \in Nat /\ num \in 2 .. N /\ ~NodeAt(pg, 0)
    BY DEF Shape
  <1>2. /\ x \in Pages(N) /\ IsInternal(pg[x]) /\ IsInternal(below.pg[x])
        /\ below.split.did_split \in BOOLEAN
        /\ ~below.split.did_split => o = below
        /\ Shape(below.pg, N, V, below.num_pages, level)
        /\ below.num_pages >= num /\ below.num_pages <= N
    BY DEF Lifted
  <1>3. /\ \A p \in T0 : level[p] \in Nat /\ level[p] <= top
        /\ 0 \notin T0
    BY <1>1, GroveLess DEF Grove
  <1>4. level[x] = level[b] + 1
    <2>1. PICK i \in 0 .. Len(pg[x].keys) : ChildAt(pg[x], i) = b
      OBVIOUS
    <2>2. NodeAt(pg, b)
      BY DEF Grove
    <2> QED
      BY <1>2, <2>1, <2>2, ChildLevel
  <1>5. \A p \in T0 : level[x] <= level[p] => level[b] <= level[p] /\ p # b
    <2>1. \A m, k \in Nat : m + 1 <= k => m <= k /\ k # m
      OBVIOUS
    <2> QED
      BY <1>3, <1>4, <2>1
  <1>6. CASE ~below.split.did_split
    <2>1. o = below
      BY <1>2, <1>6
    <2>2. /\ T0 \subseteq T /\ LeafNarrowed(T, region, T0, region0, level, leaf, num)
          /\ \A p \in num .. o.num_pages - 1 : p \in T
          /\ Grove(o.pg, N, level, top, T, region, 0)
          /\ \A p \in T0 : level[b] <= level[p] => region[p] = region0[p]
      BY <1>6, <2>1 DEF Leads
    <2>3. Leads(o, N, level, num, top, T0, region0, leaf, x, w, T, region)
      BY <1>5, <1>6, <2>1, <2>2 DEF Leads
    <2> QED
      BY <2>3
  <1>7. CASE below.split.did_split
    <2>1. PICK node, K, c, s, n1 :
             /\ node = Taking(below, x) /\ K = Kids(below.pg, N, level, level[x])
             /\ c = below.split.new_page /\ s = below.split.key /\ n1 = below.num_pages
      OBVIOUS
    <2>2. AboveTook(o, below, N, x, node, K)
      BY <1>7, <2>1, LiftedTakes
    <2>3. /\ pg[x] \in InnerNodes(K) /\ node \in InnerNodes(K)
          /\ Grown(node, pg[x], s, c, Separators(pg[x], s))
          /\ o.lost = (below.lost \/ LosesChild(pg[x], s))
      BY <2>1, <2>2 DEF AboveTook
    <2>4. ~LosesChild(pg[x], s)
      BY <2>3
    <2>5. /\ Adopts(pg[x], T0, region0, T, region, b, c, s, region0[x])
          /\ region[x] = region0[x]
      BY <1>2, <1>7, <2>1, NodeAdopts
    <2>6. Serves(node, T, region, region[x])
      BY <2>3, <2>4, <2>5, Adopted
    <2>7. /\ T0 \subseteq T /\ LeafNarrowed(T, region, T0, region0, level, leaf, num)
          /\ Grove(below.pg, N, level, top, T, region, x)
          /\ \A p \in num .. n1 - 1 : p \in T
          /\ \A p \in T0 : level[b] <= level[p] /\ p # b => region[p] = region0[p]
      BY <1>7, <2>1 DEF Leads
    <2>8. x \in T /\ \A p \in T0 : level[x] <= level[p] => region[p] = region0[p]
      BY <1>5, <2>7
    <2>9. IsInternal(node)
      BY <2>3, InnerParts
    <2>10. CASE ~o.split.did_split
      <3>1. /\ o.num_pages = n1 /\ o.pg[x] = node
            /\ \A p \in Pages(N) : p # x => o.pg[p] = below.pg[p]
        BY <2>1, <2>2, <2>10 DEF AboveTook
      <3>2. NodeAt(o.pg, x) /\ Serves(o.pg[x], T, region, region[x])
        BY <2>6, <2>9, <3>1 DEF NodeAt
      <3>3. Grove(o.pg, N, level, top, T, region, 0)
        BY <2>7, <2>8, <3>1, <3>2, GrovePut
      <3>4. Leads(o, N, level, num, top, T0, region0, leaf, x, w, T, region)
        BY <2>7, <2>8, <2>10, <3>1, <3>3 DEF Leads
      <3> QED
        BY <3>4
    <2>11. CASE o.split.did_split
      <3>1. PICK q, t : q = o.pg /\ t = o.split.key
        OBVIOUS
      <3>2. /\ o.num_pages = n1 + 1 /\ o.split.new_page = n1
            /\ n1 \in Pages(N) /\ n1 # x /\ ~NodeAt(below.pg, n1)
            /\ \A p \in Pages(N) : p # x /\ p # n1 => q[p] = below.pg[p]
            /\ q[x] \in InnerNodes(K) /\ q[n1] \in InnerNodes(K) /\ t \in Nat
            /\ \E mid \in Nat :
                  /\ t = node.keys[mid + 1] /\ mid < Len(node.keys)
                  /\ HalfNodes(q[x], q[n1], node, mid)
                  /\ Divided(q[x], q[n1], node, mid, t)
        BY <2>1, <2>2, <2>11, <3>1 DEF AboveTook
      <3>3. /\ T \subseteq Pages(N) /\ region[x] \subseteq Nat
            /\ \A p \in T : NodeAt(below.pg, p) /\ region[p] # {}
        BY <2>7, <2>8 DEF Grove
      <3>4. n1 \notin T
        BY <3>2, <3>3
      <3>5. level[n1] = level[x]
        <4>1. n1 = num + level[x] /\ level[x] \in Nat
          BY <1>3, <1>7, <2>1
        <4>2. n1 >= num /\ n1 - num = level[x]
          BY <1>1, <4>1
        <4> QED
          BY <3>2, <4>2 DEF Fresh
      <3>6. SplitIn(q[x], q[n1], T, region, region[x], t)
        <4>1. PICK mid \in Nat :
                 /\ t = node.keys[mid + 1] /\ mid < Len(node.keys)
                 /\ HalfNodes(q[x], q[n1], node, mid)
                 /\ Divided(q[x], q[n1], node, mid, t)
          BY <3>2
        <4> QED
          BY <2>3, <2>6, <3>2, <3>3, <4>1, SplitServes
      <3>7. IsInternal(q[x]) /\ IsInternal(q[n1]) /\ NodeAt(q, x) /\ NodeAt(q, n1)
        BY <3>2, InnerParts DEF NodeAt
      <3>8. PICK U, reg : U = T \cup {n1} /\ reg = Cut(region, T, x, n1, t)
        OBVIOUS
      <3>9. ParentOf(w, x, level, top, T, region)
        <4>1. CASE level[x] = top
          BY <4>1 DEF ParentOf
        <4>2. CASE level[x] # top
          <5>1. w \in T0 /\ level[w] = level[x] + 1 /\ region0[x] \subseteq region0[w]
            BY <4>2 DEF ParentOf
          <5>2. level[x] <= level[w]
            BY <1>3, <5>1
          <5>3. region[w] = region0[w]
            BY <2>8, <5>1, <5>2
          <5> QED
            BY <2>5, <2>7, <5>1, <5>3 DEF ParentOf
        <4> QED
          BY <4>1, <4>2
      <3>10. ASSUME NEW p \in U, p # w PROVE NotChild(q[p], x)
        <4>1. CASE p = x \/ p = n1
          <5> QED
            BY <3>2, <3>3, <3>6, <4>1, SplitNotChild
        <4>2. CASE p # x /\ p # n1
          <5>1. p \in T /\ q[p] = below.pg[p]
            BY <3>2, <3>3, <3>8, <4>2
          <5>2. NotChild(below.pg[p], x)
            BY <1>2, <2>7, <2>8, <3>9, <3>10, <4>2, <5>1, OnlyParent
          <5> QED
            BY <5>1, <5>2
        <4> QED
          BY <4>1, <4>2
      <3>11. w # n1 /\ w # x
        <4>1. CASE w = 0
          BY <1>1, <1>2, <2>1, <4>1
        <4>2. CASE w \in T0
          BY <2>7, <3>4, <4>2
        <4> QED
          BY <4>1, <4>2
      <3>12. Grove(q, N, level, top, U, reg, w)
        <4>1. \A p \in T \cup {n1} : p # w => NotChild(q[p], x)
          BY <3>8, <3>10
        <4>2. w # x /\ w # n1 =>
                 Grove(q, N, level, top, T \cup {n1}, Cut(region, T, x, n1, t), w)
          BY <2>7, <2>8, <3>2, <3>4, <3>5, <3>6, <3>7, <4>1, GroveSplit
        <4> QED
          BY <3>8, <3>11, <4>2
      <3>13. /\ reg[x] = Less(region0[x], t) /\ reg[n1] = AtLeast(region0[x], t)
             /\ \A p \in T : p # x => reg[p] = region[p]
        BY <2>5, <2>8, <3>4, <3>8 DEF Cut
      <3>14. t \in region0[x]
        BY <2>5, <3>6 DEF SplitIn
      <3>15. \A p \in num .. o.num_pages - 1 : p \in U
        <4>1. n1 \in Int
          BY <1>1, <3>2 DEF Pages
        <4>2. \A p \in num .. o.num_pages - 1 : p \in num .. n1 - 1 \/ p = n1
          BY <1>1, <3>2, <4>1
        <4> QED
          BY <2>7, <3>8, <4>2
      <3>16. T0 \subseteq U /\ n1 \in U \ T0
        BY <2>7, <3>4, <3>8
      <3>17. \A p \in T0 : level[x] <= level[p] /\ p # x => reg[p] = region0[p]
        BY <2>7, <2>8, <3>13
      <3>18. n1 # num /\ \A p \in T0 : level[p] = 0 => p # x
        <4>1. n1 = num + level[x] /\ level[b] \in Nat
          BY <1>3, <1>7, <2>1
        <4> QED
          BY <1>1, <1>4, <4>1
      <3>19. num \in U <=> num \in T
        BY <3>8, <3>18
      <3>20. reg[leaf] = region[leaf] /\ (num \in T => reg[num] = region[num])
        <4>1. num # x
          BY <1>1, <1>2, Kinds DEF NodeAt
        <4> QED
          BY <2>7, <3>13, <3>18, <4>1
      <3>21. LeafNarrowed(U, reg, T0, region0, level, leaf, num)
        BY <2>7, <3>13, <3>18, <3>19, <3>20 DEF LeafNarrowed
      <3>22. Leads(o, N, level, num, top, T0, region0, leaf, x, w, U, reg)
        BY <2>11, <3>1, <3>2, <3>5, <3>12, <3>13, <3>14, <3>15, <3>16, <3>17, <3>21 DEF Leads
      <3> QED
        BY <3>22
    <2> QED
      BY <2>10, <2>11
  <1> QED
    BY <1>2, <1>6, <1>7

\* The node above the one that the path of length d ends at.
Above(path, d) == IF d = 1 THEN 0 ELSE path[d - 1]

LEMMA AboveIs ==
    ASSUME NEW pg, NEW N, NEW V, NEW num, NEW level, Shape(pg, N, V, num, level),
           NEW root \in Pages(N), NodeAt(pg, root),
           NEW T, NEW region, SearchTree(pg, N, level, root, T, region),
           NEW key \in Nat,
           NEW path, LeafPath(path, pg, N, level, root, key), NEW n, n = Len(path),
           NEW d \in 1 .. n, NEW w, w = Above(path, d)
    PROVE  /\ w = 0 \/ w \in T
           /\ w # path[d] /\ ParentOf(w, path[d], level, level[root], T, region)
  <1>1. PathIn(path, pg, T, region, n, key)
    BY PathRegions DEF LeafPath
  <1>2. /\ n \in Nat \ {0} /\ path[1] = root
        /\ \A e \in 1 .. n : path[e] \in Pages(N) /\ NodeAt(pg, path[e]) /\ level[path[e]] = n - e
    <2>1. Steps(path, pg, N, level, root, n)
      BY PathLevels
    <2> QED
      BY <2>1 DEF Steps
  <1>3. CASE d = 1
    <2>1. w = 0 /\ path[d] # 0
      BY <1>2, <1>3, Kinds DEF Above
    <2> QED
      BY <1>2, <1>3, <2>1 DEF ParentOf
  <1>4. CASE d # 1
    <2>1. PICK e : e = d - 1
      OBVIOUS
    <2>2. e \in 1 .. n /\ e # n /\ e + 1 = d /\ w = path[e]
      BY <1>2, <1>4, <2>1 DEF Above
    <2>3. level[w] = n - e /\ level[path[d]] = n - d /\ n - e = n - d + 1
      BY <1>2, <2>1, <2>2
    <2>4. w \in T /\ region[path[d]] \subseteq region[w]
      BY <1>1, <2>2 DEF PathIn
    <2>5. w # path[d]
      BY <1>2, <2>3
    <2> QED
      BY <2>3, <2>4, <2>5 DEF ParentOf
  <1> QED
    BY <1>3, <1>4

\* The search tree when the insertion has come up to d.
Climbed(o, path, pg, N, level, num, top, T0, region0, d) ==
    o.num_pages <= N /\ ~o.lost =>
        /\ \E T, region :
              Leads(o, N, level, num, top, T0, region0, path[Len(path)], path[d],
                    Above(path, d), T, region)
        /\ \A e \in 1 .. d - 1 : o.pg[path[e]] = pg[path[e]]

LEMMA ClimbedLeaf ==
    ASSUME NEW pg, NEW N, NEW V, NEW num, NEW level, Shape(pg, N, V, num, level),
           Fresh(level, N, num), NEW root \in Pages(N), NodeAt(pg, root),
           NEW key \in Nat, NEW value \in V, Tidy(pg, N), Absent(pg, N, key),
           NEW path, LeafPath(path, pg, N, level, root, key), NEW n, n = Len(path),
           NEW T, NEW region, SearchTree(pg, N, level, root, T, region),
           NEW o, o = insert_at_leaf(pg, num, path[n], key, value),
           NEW top, top = level[root]
    PROVE  Climbed(o, path, pg, N, level, num, top, T, region, n)
  <1> SUFFICES ASSUME o.num_pages <= N
               PROVE  /\ \E U, reg : Leads(o, N, level, num, top, T, region, path[n],
                                           path[n], Above(path, n), U, reg)
                      /\ \A e \in 1 .. n - 1 : o.pg[path[e]] = pg[path[e]]
    BY DEF Climbed
  <1>1. /\ n \in Nat \ {0}
        /\ \A e \in 1 .. n : path[e] \in Pages(N) /\ NodeAt(pg, path[e]) /\ level[path[e]] = n - e
    <2>1. Steps(path, pg, N, level, root, n)
      BY PathLevels
    <2> QED
      BY <2>1 DEF Steps
  <1>2. n \in 1 .. n
    BY <1>1
  <1>3. PICK x, w, cell : x = path[n] /\ w = Above(path, n) /\ cell = CellOf(key, value)
    OBVIOUS
  <1>4. x \in Pages(N) /\ IsLeaf(pg[x]) /\ cell.key = key
    BY <1>1, <1>2, <1>3 DEF LeafPath, CellOf
  <1>5. InOrder(pg[x].cells) /\ \A c \in CellsAt(pg, x) : c.key # key
    BY <1>4 DEF Tidy, Absent
  <1>6. LeafTook(o, pg, N, num, x, cell)
    BY <1>3, <1>4, <1>5, LeafTakes
  <1>7. /\ w = 0 \/ w \in T
        /\ w # x /\ ParentOf(w, x, level, top, T, region)
    BY <1>2, <1>3, AboveIs
  <1>8. x \in T /\ cell.key \in region[x]
    <2>1. PathIn(path, pg, T, region, n, key)
      BY PathRegions DEF LeafPath
    <2> QED
      BY <1>2, <1>3, <1>4, <2>1 DEF PathIn
  <1>9. Grove(pg, N, level, top, T, region, 0)
    BY DEF SearchTree
  <1>10. \E U, reg : Leads(o, N, level, num, top, T, region, x, x, w, U, reg)
    BY <1>4, <1>6, <1>7, <1>8, <1>9, LeafLeads
  <1>11. ASSUME NEW e \in 1 .. n - 1 PROVE o.pg[path[e]] = pg[path[e]]
    <2>1. e \in 1 .. n /\ n - e # n - n
      BY <1>1
    <2>2. path[e] # x
      BY <1>1, <1>2, <1>3, <2>1
    <2>3. path[e] \in Pages(N) /\ path[e] < num /\ num \in Nat
      BY <1>1, <2>1, Kinds DEF Shape
    <2>4. path[e] # num
      BY <2>3 DEF Pages
    <2> QED
      BY <1>6, <2>2, <2>3, <2>4 DEF LeafTook
  <1> QED
    BY <1>3, <1>10, <1>11

LEMMA ClimbedAbove ==
    ASSUME NEW pg, NEW N, NEW V, NEW num, NEW level, Shape(pg, N, V, num, level),
           Fresh(level, N, num), NEW root \in Pages(N), NodeAt(pg, root),
           NEW key \in Nat, NEW value \in V, Tidy(pg, N), Absent(pg, N, key),
           NEW path, LeafPath(path, pg, N, level, root, key), NEW n, n = Len(path),
           NEW out, IsOut(out, n, n - 1, insert_at_leaf(pg, num, path[n], key, value), path),
           NEW T0, NEW region0, SearchTree(pg, N, level, root, T0, region0),
           NEW top, top = level[root], NEW d \in 1 .. n, d # n, NEW b, b = d + 1,
           Climbed(out[b], path, pg, N, level, num, top, T0, region0, b)
    PROVE  Climbed(out[d], path, pg, N, level, num, top, T0, region0, d)
  <1> SUFFICES ASSUME out[d].num_pages <= N, ~out[d].lost
               PROVE  /\ \E U, reg : Leads(out[d], N, level, num, top, T0, region0,
                                           path[n], path[d], Above(path, d), U, reg)
                      /\ \A e \in 1 .. d - 1 : out[d].pg[path[e]] = pg[path[e]]
    BY DEF Climbed
  <1>1. /\ n \in Nat \ {0}
        /\ \A e \in 1 .. n : path[e] \in Pages(N) /\ NodeAt(pg, path[e]) /\ level[path[e]] = n - e
    <2>1. Steps(path, pg, N, level, root, n)
      BY PathLevels
    <2> QED
      BY <2>1 DEF Steps
  <1>2. /\ b \in 1 .. n /\ d \in 1 .. b - 1
        /\ \A e \in 1 .. d - 1 : e \in 1 .. b - 1 /\ e \in 1 .. n /\ n - e # n - d
    BY <1>1
  <1>3. PICK o, below, x, y, w :
           /\ o = out[d] /\ below = out[b] /\ x = path[d] /\ y = path[b] /\ w = Above(path, d)
    OBVIOUS
  <1>4. Lifted(o, below, pg, N, V, num, level, x)
    BY <1>3, LiftedAt
  <1>5. below.num_pages <= N /\ below.num_pages >= num /\ below.split.did_split \in BOOLEAN
    BY <1>4 DEF Lifted
  <1>6. Tidy(below.pg, N)
    BY <1>2, <1>3, <1>5, TidyRising
  <1>7. PICK P : IF below.split.did_split
                 THEN AboveTook(o, below, N, x, Taking(below, x), P) ELSE o = below
    BY <1>3, <1>4, <1>6, LiftedTakes
  <1>8. ~below.lost
    <2>1. ~o.lost
      BY <1>3
    <2>2. CASE below.split.did_split
      BY <1>7, <2>1, <2>2 DEF AboveTook
    <2>3. CASE ~below.split.did_split
      BY <1>7, <2>1, <2>3
    <2> QED
      BY <2>2, <2>3
  <1>9. /\ \E T, region : Leads(below, N, level, num, top, T0, region0, path[n], y,
                                Above(path, b), T, region)
        /\ \A e \in 1 .. b - 1 : below.pg[path[e]] = pg[path[e]]
    BY <1>3, <1>5, <1>8 DEF Climbed
  <1>10. Above(path, b) = x
    BY <1>2, <1>3 DEF Above
  <1>11. below.pg[x] = pg[x]
    BY <1>2, <1>3, <1>9
  <1>12. below.split.did_split => below.num_pages = num + level[x]
    <2>1. Result(below, pg, N, V, num, level, PagesOf(path), n - b, CellOf(key, value))
      BY <1>2, <1>3, Results
    <2>2. level[x] = n - d
      BY <1>1, <1>3
    <2>3. num \in Nat
      BY DEF Shape
    <2>4. num + (n - b) + 1 = num + (n - d)
      BY <1>1, <2>3
    <2>5. below.split.did_split => below.num_pages = num + (n - b) + 1
      BY <2>1 DEF Result
    <2> QED
      BY <2>2, <2>4, <2>5
  <1>13. /\ x \in T0 /\ y \in T0
         /\ \E i \in 0 .. Len(pg[x].keys) : ChildAt(pg[x], i) = y
         /\ path[n] \in T0 /\ level[path[n]] = 0
    <2>1. PathIn(path, pg, T0, region0, n, key)
      BY PathRegions DEF LeafPath
    <2>2. n \in 1 .. n /\ n - n = 0
      BY <1>1
    <2> QED
      BY <1>1, <1>2, <1>3, <2>1, <2>2 DEF PathIn
  <1>14. /\ w = 0 \/ w \in T0
         /\ w # x /\ ParentOf(w, x, level, top, T0, region0)
    BY <1>3, AboveIs
  <1>15. Grove(pg, N, level, top, T0, region0, 0)
    BY DEF SearchTree
  <1>16. o.num_pages <= N /\ ~o.lost
    BY <1>3
  <1>17. PICK T, region :
            Leads(below, N, level, num, top, T0, region0, path[n], y, x, T, region)
    BY <1>9, <1>10
  <1>18. \E U, reg : Leads(o, N, level, num, top, T0, region0, path[n], x, w, U, reg)
    BY <1>4, <1>6, <1>11, <1>12, <1>13, <1>14, <1>15, <1>16, <1>17, AboveLeads
  <1>19. ASSUME NEW e \in 1 .. d - 1 PROVE o.pg[path[e]] = pg[path[e]]
    <2>1. /\ path[e] \in Pages(N) /\ path[e] # x /\ NodeAt(pg, path[e])
          /\ below.pg[path[e]] = pg[path[e]]
      BY <1>1, <1>2, <1>3, <1>9
    <2>2. path[e] < num /\ num \in Nat /\ path[e] \in Nat
      <3>1. path[e] < num
        BY <2>1, Kinds
      <3> QED
        BY <2>1, <3>1 DEF Shape, Pages
    <2>3. path[e] # below.num_pages
      BY <1>5, <2>2
    <2>4. CASE below.split.did_split
      BY <1>7, <2>1, <2>3, <2>4 DEF AboveTook
    <2>5. CASE ~below.split.did_split
      BY <1>7, <2>1, <2>5
    <2> QED
      BY <2>4, <2>5
  <1> QED
    BY <1>3, <1>18, <1>19

LEMMA LeadsRising ==
    ASSUME NEW pg, NEW N, NEW V, NEW num, NEW level, Shape(pg, N, V, num, level),
           Fresh(level, N, num), NEW root \in Pages(N), NodeAt(pg, root),
           NEW key \in Nat, NEW value \in V, Tidy(pg, N), Absent(pg, N, key),
           NEW path, LeafPath(path, pg, N, level, root, key), NEW n, n = Len(path),
           NEW out, IsOut(out, n, n - 1, insert_at_leaf(pg, num, path[n], key, value), path),
           NEW T0, NEW region0, SearchTree(pg, N, level, root, T0, region0),
           NEW top, top = level[root], NEW d \in 1 .. n
    PROVE  Climbed(out[d], path, pg, N, level, num, top, T0, region0, d)
  <1>1. n \in Nat \ {0}
    <2>1. Steps(path, pg, N, level, root, n)
      BY PathLevels
    <2> QED
      BY <2>1 DEF Steps
  <1> DEFINE S == {k \in Nat : k < n =>
                     Climbed(out[n - k], path, pg, N, level, num, top, T0, region0, n - k)}
  <1>2. 0 \in S
    <2>1. out[n] = insert_at_leaf(pg, num, path[n], key, value) /\ n - 0 = n
      BY <1>1 DEF IsOut
    <2>2. Climbed(out[n], path, pg, N, level, num, top, T0, region0, n)
      BY <2>1, ClimbedLeaf
    <2> QED
      BY <2>1, <2>2
  <1>3. ASSUME NEW k \in Nat, k \in S PROVE k + 1 \in S
    <2>1. PICK e, b : e = n - (k + 1) /\ b = n - k
      OBVIOUS
    <2> SUFFICES ASSUME k + 1 < n
                 PROVE  Climbed(out[e], path, pg, N, level, num, top, T0, region0, e)
      BY <2>1
    <2>2. e \in 1 .. n /\ e # n /\ b = e + 1 /\ k < n
      BY <1>1, <2>1
    <2>3. Climbed(out[b], path, pg, N, level, num, top, T0, region0, b)
      BY <1>3, <2>1, <2>2
    <2> QED
      BY <2>2, <2>3, ClimbedAbove
  <1> HIDE DEF S
  <1>4. PICK k : k = n - d
    OBVIOUS
  <1>5. k \in Nat /\ k < n /\ n - k = d
    BY <1>1, <1>4
  <1>6. k \in S
    BY <1>2, <1>3, <1>5, Induction
  <1> QED
    BY <1>5, <1>6 DEF S

\* The search tree with a new root, n1, over the old one and the page new.
Raised(region, T, n1) == [p \in T \cup {n1} |-> IF p = n1 THEN Nat ELSE region[p]]

LEMMA RootServes ==
    ASSUME NEW P, 0 \in P, NEW old \in P, NEW new \in P, NEW s \in Nat,
           NEW node, node = NewRoot(old, s, new),
           NEW T, NEW region, old \in T, new \in T,
           region[old] = Less(Nat, s), region[new] = AtLeast(Nat, s)
    PROVE  Serves(node, T, region, Nat) /\ IsInternal(node)
  <1>1. /\ GoodInner(node, P, 1)
        /\ Len(node.keys) = 1 /\ node.keys[1] = s
        /\ node.child[0] = old /\ node.right = new
    BY NewRootIs
  <1>2. node.keys \in Seq(Nat) /\ IsInternal(node) /\ ~IsLeaf(node)
    BY <1>1, InnerParts DEF GoodInner
  <1>3. Strict(node.keys) /\ Ordered(node.keys)
    BY <1>1 DEF Strict, Ordered
  <1>4. ChildAt(node, 0) = old /\ ChildAt(node, 1) = new
    BY <1>1 DEF ChildAt
  <1>5. ASSUME NEW k \in Nat
        PROVE  /\ Separators(node, k) = 0 <=> k < s
               /\ Separators(node, k) = 1 <=> s <= k
    <2>1. PICK m : m = Separators(node, k)
      OBVIOUS
    <2>2. Behind(node.keys, k, m)
      BY <1>2, <1>3, <2>1, SeparatorsBehind
    <2>3. /\ m \in 0 .. 1
          /\ \A i \in 1 .. m : node.keys[i] <= k
          /\ \A i \in m + 1 .. 1 : k < node.keys[i]
      BY <1>1, <2>2 DEF Behind
    <2>4. CASE m = 0
      <3>1. 1 \in m + 1 .. 1
        BY <2>4
      <3>2. k < s
        BY <1>1, <2>3, <3>1
      <3> QED
        BY <2>1, <2>4, <3>2
    <2>5. CASE m = 1
      <3>1. 1 \in 1 .. m
        BY <2>5
      <3>2. s <= k
        BY <1>1, <2>3, <3>1
      <3> QED
        BY <2>1, <2>5, <3>2
    <2> QED
      BY <2>3, <2>4, <2>5
  <1>6. ASSUME NEW i \in 0 .. Len(node.keys)
        PROVE  /\ ChildAt(node, i) \in T
               /\ region[ChildAt(node, i)] = {k \in Nat : Separators(node, k) = i}
    <2>1. i = 0 \/ i = 1
      BY <1>1
    <2>2. region[old] = {k \in Nat : Separators(node, k) = 0}
      BY <1>5 DEF Less
    <2>3. region[new] = {k \in Nat : Separators(node, k) = 1}
      BY <1>5 DEF AtLeast
    <2> QED
      BY <1>4, <2>1, <2>2, <2>3
  <1>7. \A i \in 1 .. Len(node.keys) : node.keys[i] \in Nat
    BY <1>2
  <1> QED
    BY <1>2, <1>3, <1>6, <1>7 DEF Serves

LEMMA RaisedServes ==
    ASSUME NEW pg, NEW N, NEW level, NEW top, NEW T, NEW region, 0 \notin T,
           Grove(pg, N, level, top, T, region, 0), NEW n1, n1 \notin T,
           NEW U, U = T \cup {n1}, NEW reg, reg = Raised(region, T, n1), NEW p \in T
    PROVE  Serves(pg[p], U, reg, reg[p])
  <1>1. Serves(pg[p], T, region, region[p])
    BY DEF Grove
  <1>2. NotChild(pg[p], n1)
    BY <1>1 DEF Serves, NotChild
  <1>3. reg[p] = region[p] /\ \A r \in T : r # n1 => reg[r] = region[r]
    BY DEF Raised
  <1>4. T \subseteq U
    OBVIOUS
  <1> QED
    BY <1>1, <1>2, <1>3, <1>4, ServesMore

\* What an insertion that forgets no child makes of the search tree: it goes on to
\* hold the nodes that it held, and holds the new ones.  Of the leaves only the one
\* that took the key was narrowed.
Searched(r, N, level, num, T0, region0, leaf, T, region) ==
    /\ T0 \subseteq T /\ LeafNarrowed(T, region, T0, region0, level, leaf, num)
    /\ \A p \in num .. r.num_pages - 1 : p \in T
    /\ SearchTree(r.pg, N, level, r.root_page, T, region)

LEMMA IndexSearch ==
    ASSUME NEW pg, NEW N, NEW V, NEW num, NEW level, Shape(pg, N, V, num, level),
           Fresh(level, N, num), NEW root \in Pages(N), NodeAt(pg, root),
           NEW key \in Nat, NEW value \in V, DescentDefined(pg, root, key),
           Tidy(pg, N), Absent(pg, N, key),
           NEW T0, NEW region0, SearchTree(pg, N, level, root, T0, region0),
           NEW r, r = index_insert(pg, num, root, key, value), r.num_pages <= N, ~r.lost,
           NEW leaf, leaf = btree_find_leaf(pg, root, key)
    PROVE  /\ leaf \in T0
           /\ \E T, region : Searched(r, N, level, num, T0, region0, leaf, T, region)
  <1>1. PICK path, n, top : path = Path(pg, root, key) /\ n = Len(path) /\ top = level[root]
    OBVIOUS
  <1>2. LeafPath(path, pg, N, level, root, key)
    BY <1>1, DefinedPath
  <1>3. n \in Nat \ {0} /\ n - 1 = top /\ path[1] = root
    <2>1. Steps(path, pg, N, level, root, n)
      BY <1>1, <1>2, PathLevels
    <2>2. n \in Nat \ {0} /\ n = top + 1 /\ path[1] = root /\ level[root] \in Nat
      BY <1>1, <2>1 DEF Steps, Shape
    <2> QED
      BY <1>1, <2>2
  <1>4. PICK out : Rising(out, pg, num, root, key, value, path, n)
    BY <1>1, <1>3, OutIs
  <1>5. /\ IsOut(out, n, n - 1, insert_at_leaf(pg, num, path[n], key, value), path)
        /\ btree_insert(pg, num, root, key, value) = out[1]
    BY <1>4 DEF Rising
  <1>6. PICK o, X, cell, h : /\ o = out[1] /\ X = PagesOf(path) /\ cell = CellOf(key, value)
                             /\ h = n - 1
    OBVIOUS
  <1>7. 1 \in 1 .. n
    BY <1>3
  <1>8. Result(o, pg, N, V, num, level, X, h, cell)
    BY <1>1, <1>2, <1>5, <1>6, <1>7, Results
  <1>9. o.split.did_split \in BOOLEAN
    BY <1>8 DEF Result
  <1>10. Topped(r, o, root)
    BY <1>5, <1>6, <1>9, IndexInsertIs
  <1>11. Climbed(o, path, pg, N, level, num, top, T0, region0, 1)
    BY <1>1, <1>2, <1>5, <1>6, <1>7, LeadsRising
  <1>12. /\ N \in Nat /\ num \in 2 .. N /\ ~NodeAt(pg, 0) /\ 0 \in Pages(N)
         /\ level \in [Pages(N) -> Nat] /\ top \in Nat
    BY <1>1 DEF Shape, Pages
  <1>13. PICK n1 : n1 = o.num_pages
    OBVIOUS
  <1>14. n1 \in Nat /\ n1 >= num /\ n1 <= N
    <2>1. n1 \in num .. num + h + 1 /\ h \in Nat
      BY <1>3, <1>6, <1>8, <1>13 DEF Result
    <2>2. r.num_pages = n1 \/ r.num_pages = n1 + 1
      BY <1>9, <1>10, <1>13 DEF Topped
    <2> QED
      BY <1>12, <2>1, <2>2
  <1>15. ~o.lost
    BY <1>9, <1>10 DEF Topped
  <1>16. PICK T, region : Leads(o, N, level, num, top, T0, region0, leaf, root, 0, T, region)
    <2>1. Above(path, 1) = 0
      BY DEF Above
    <2>2. leaf = path[Len(path)]
      BY <1>1 DEF btree_find_leaf, Last
    <2> QED
      BY <1>3, <1>11, <1>13, <1>14, <1>15, <2>1, <2>2 DEF Climbed
  <1>21. leaf \in T0
    <2>1. PathIn(path, pg, T0, region0, n, key)
      BY <1>1, <1>2, PathRegions DEF LeafPath
    <2>2. leaf = path[n] /\ n \in 1 .. n
      BY <1>1, <1>3 DEF btree_find_leaf, Last
    <2> QED
      BY <2>1, <2>2 DEF PathIn
  <1>17. /\ T0 \subseteq T /\ root \in T0 /\ region0[root] = Nat
         /\ LeafNarrowed(T, region, T0, region0, level, leaf, num)
         /\ \A p \in num .. n1 - 1 : p \in T
         /\ Grove(o.pg, N, level, top, T, region, 0)
    BY <1>13, <1>16 DEF Leads, SearchTree
  <1>18. CASE ~o.split.did_split
    <2>1. r.pg = o.pg /\ r.num_pages = n1 /\ r.root_page = root
      BY <1>10, <1>13, <1>18 DEF Topped
    <2>2. region[root] = Nat
      BY <1>1, <1>12, <1>16, <1>17, <1>18 DEF Leads
    <2>3. Searched(r, N, level, num, T0, region0, leaf, T, region)
      BY <1>1, <1>17, <2>1, <2>2 DEF Searched, SearchTree
    <2> QED
      BY <1>21, <2>3
  <1>19. CASE o.split.did_split
    <2>1. PICK s, new, node, U, reg :
             /\ s = o.split.key /\ new = o.split.new_page /\ node = NewRoot(root, s, new)
             /\ U = T \cup {n1} /\ reg = Raised(region, T, n1)
      OBVIOUS
    <2>2. /\ r.pg = Put(o.pg, n1, node) /\ r.num_pages = n1 + 1 /\ r.root_page = n1
      BY <1>10, <1>13, <1>19, <2>1 DEF Topped
    <2>3. n1 < N /\ n1 \in Pages(N)
      BY <1>12, <1>14, <2>2 DEF Pages
    <2>4. /\ Shape(o.pg, N, V, n1, level) /\ s \in Nat
          /\ n1 = num + h + 1
      BY <1>8, <1>13, <1>14, <1>19, <2>1 DEF Result
    <2>5. ~NodeAt(o.pg, n1) /\ ~NodeAt(o.pg, 0) /\ o.pg = [p \in Pages(N) |-> o.pg[p]]
      BY <2>3, <2>4, ShapeGrow DEF Shape
    <2>6. /\ T \subseteq Pages(N)
          /\ \A p \in T : /\ NodeAt(o.pg, p) /\ level[p] \in Nat /\ level[p] <= top
                          /\ region[p] \subseteq Nat /\ region[p] # {}
          /\ \A p, w \in T : p # w /\ level[p] = level[w] => region[p] \cap region[w] = {}
      BY <1>17 DEF Grove
    <2>7. n1 \notin T /\ 0 \notin T
      BY <2>5, <2>6
    <2>8. level[n1] = top + 1
      <3>1. n1 = num + (top + 1)
        BY <1>3, <1>6, <1>12, <2>4
      <3>2. n1 - num = top + 1
        BY <1>12, <3>1
      <3> QED
        BY <1>14, <2>3, <3>2 DEF Fresh
    <2>9. /\ new \in T \ T0
          /\ region[root] = Less(Nat, s) /\ region[new] = AtLeast(Nat, s)
      BY <1>16, <1>17, <1>19, <2>1 DEF Leads
    <2>10. /\ reg[n1] = Nat /\ \A p \in T : reg[p] = region[p]
      BY <2>1, <2>7 DEF Raised
    <2>11. PICK q : q = r.pg
      OBVIOUS
    <2>12. q[n1] = node /\ \A p \in Pages(N) : p # n1 => q[p] = o.pg[p]
      BY <2>2, <2>3, <2>5, <2>11, PutIs
    <2>13. Serves(node, U, reg, Nat) /\ IsInternal(node)
      <3>1. root \in Pages(N) /\ new \in Pages(N) /\ root \in U /\ new \in U
        BY <1>17, <2>1, <2>6, <2>9
      <3>2. reg[root] = Less(Nat, s) /\ reg[new] = AtLeast(Nat, s)
        BY <1>17, <2>9, <2>10
      <3>3. /\ 0 \in Pages(N) /\ s \in Nat /\ node = NewRoot(root, s, new)
        BY <1>12, <2>1, <2>4
      <3> QED
        BY ONLY <3>1, <3>2, <3>3, RootServes
    <2>14. ASSUME NEW p \in T PROVE q[p] = o.pg[p] /\ Serves(q[p], U, reg, reg[p]) /\ NodeAt(q, p)
      <3>1. q[p] = o.pg[p]
        BY <2>6, <2>7, <2>12
      <3>2. Serves(o.pg[p], U, reg, reg[p])
        BY <1>17, <2>1, <2>7, RaisedServes
      <3> QED
        BY <2>6, <3>1, <3>2 DEF NodeAt
    <2>15. Grove(q, N, level, level[n1], U, reg, 0)
      <3>1. U \subseteq Pages(N)
        BY <2>1, <2>3, <2>6
      <3>2. ASSUME NEW p \in U
            PROVE  /\ NodeAt(q, p) /\ level[p] \in Nat /\ level[p] <= level[n1]
                   /\ reg[p] \subseteq Nat /\ reg[p] # {}
                   /\ Serves(q[p], U, reg, reg[p])
        <4>1. CASE p = n1
          <5>1. NodeAt(q, n1)
            BY <2>12, <2>13 DEF NodeAt
          <5>2. level[n1] \in Nat /\ level[n1] <= level[n1]
            BY <1>12, <2>8
          <5>3. reg[n1] \subseteq Nat /\ reg[n1] # {}
            BY <2>10
          <5>4. Serves(q[n1], U, reg, reg[n1])
            BY <2>10, <2>12, <2>13
          <5> QED
            BY <4>1, <5>1, <5>2, <5>3, <5>4
        <4>2. CASE p # n1
          <5>1. p \in T
            BY <2>1, <4>2
          <5>2. level[p] \in Nat /\ level[p] <= level[n1]
            BY <1>12, <2>6, <2>8, <5>1
          <5> QED
            BY <2>6, <2>10, <2>14, <5>1, <5>2
        <4> QED
          BY <4>1, <4>2
      <3>3. ASSUME NEW p \in U, NEW w \in U, p # w, level[p] = level[w]
            PROVE  reg[p] \cap reg[w] = {}
        <4>1. \A a \in T : level[a] # level[n1]
          BY <1>12, <2>6, <2>8
        <4>2. p \in T /\ w \in T
          BY <2>1, <3>3, <4>1
        <4> QED
          BY <2>6, <2>10, <3>3, <4>2
      <3> QED
        BY <3>1, <3>2, <3>3 DEF Grove
    <2>16. SearchTree(q, N, level, n1, U, reg)
      BY <2>1, <2>10, <2>15 DEF SearchTree
    <2>17. \A p \in num .. r.num_pages - 1 : p \in U
      <3>1. \A p \in num .. r.num_pages - 1 : p \in num .. n1 - 1 \/ p = n1
        BY <1>12, <1>14, <2>2
      <3> QED
        BY <1>17, <2>1, <3>1
    <2>18. LeafNarrowed(U, reg, T0, region0, level, leaf, num)
      <3>1. num \in num .. n1 - 1
        BY <1>3, <1>6, <1>12, <2>4
      <3>2. num \in T /\ num \in U
        BY <1>17, <2>1, <3>1
      <3> QED
        BY <1>17, <1>21, <2>10, <3>2 DEF LeafNarrowed
    <2>19. Searched(r, N, level, num, T0, region0, leaf, U, reg)
      BY <1>17, <2>1, <2>2, <2>11, <2>16, <2>17, <2>18 DEF Searched
    <2> QED
      BY <1>21, <2>19
  <1> QED
    BY <1>18, <1>19

LEMMA SearchLevels ==
    ASSUME NEW pg, NEW N, NEW level, NEW root, NEW T, NEW region,
           SearchTree(pg, N, level, root, T, region),
           NEW lev, \A p \in Pages(N) : NodeAt(pg, p) => lev[p] = level[p]
    PROVE  SearchTree(pg, N, lev, root, T, region)
  <1>1. \A p \in T : lev[p] = level[p]
    BY DEF SearchTree, Grove
  <1> QED
    BY <1>1 DEF SearchTree, Grove

LEMMA SearchCut ==
    ASSUME NEW pg, NEW N, NEW level, NEW root, NEW T, NEW region,
           SearchTree(pg, N, level, root, T, region), ~NodeAt(pg, 0),
           NEW x \in Pages(N), NEW key, NEW q, LeafCutBack(q, pg, N, x, key)
    PROVE  SearchTree(q, N, level, root, T, region)
  <1>1. /\ \A p \in Pages(N) : p # x => q[p] = pg[p]
        /\ IsLeaf(pg[x]) /\ IsLeaf(q[x]) /\ CellsAt(q, x) \subseteq CellsAt(pg, x)
    BY DEF LeafCutBack
  <1>2. /\ T \subseteq Pages(N) /\ 0 \notin T
        /\ \A p \in T : /\ NodeAt(pg, p) /\ level[p] \in Nat /\ level[p] <= level[root]
                        /\ region[p] \subseteq Nat /\ region[p] # {}
                        /\ Serves(pg[p], T, region, region[p])
        /\ \A p, r \in T : p # r /\ level[p] = level[r] => region[p] \cap region[r] = {}
    BY DEF SearchTree, Grove
  <1>3. ASSUME NEW p \in T PROVE NodeAt(q, p) /\ Serves(q[p], T, region, region[p])
    <2>1. CASE p = x
      <3>1. ~IsInternal(q[x])
        BY <1>1 DEF IsLeaf, IsInternal
      <3>2. Serves(pg[x], T, region, region[x])
        BY <1>2, <2>1
      <3>3. \A c \in CellSet(q[x].cells) : c.key \in region[x]
        BY <1>1, <3>2 DEF CellsAt, Serves
      <3>4. Serves(q[x], T, region, region[x])
        BY <1>1, <3>1, <3>3 DEF Serves
      <3> QED
        BY <1>1, <2>1, <3>4 DEF NodeAt
    <2>2. CASE p # x
      BY <1>1, <1>2, <2>2 DEF NodeAt
    <2> QED
      BY <2>1, <2>2
  <1>4. Grove(q, N, level, level[root], T, region, 0)
    BY <1>2, <1>3 DEF Grove
  <1> QED
    BY <1>4 DEF SearchTree

\* A tree of one leaf.
LEMMA SearchOne ==
    ASSUME NEW pg, NEW N, NEW V, NEW num, NEW level, Shape(pg, N, V, num, level),
           NEW x \in Pages(N), IsLeaf(pg[x])
    PROVE  SearchTree(pg, N, level, x, {x}, [p \in {x} |-> Nat])
  <1>1. PICK T, region : T = {x} /\ region = [p \in {x} |-> Nat]
    OBVIOUS
  <1>2. region[x] = Nat /\ \A p \in T : p = x
    BY <1>1
  <1>3. NodeAt(pg, x) /\ level[x] \in Nat /\ ~IsInternal(pg[x])
    BY DEF Shape, NodeAt, IsLeaf, IsInternal
  <1>4. \A c \in CellsAt(pg, x) : c.key \in Nat
    BY CellsOfShape
  <1>5. Serves(pg[x], T, region, Nat)
    BY <1>3, <1>4 DEF Serves, CellsAt
  <1>6. Grove(pg, N, level, level[x], T, region, 0)
    <2>1. T \subseteq Pages(N) /\ level[x] <= level[x]
      BY <1>2, <1>3
    <2>2. Nat # {}
      OBVIOUS
    <2> QED
      BY <1>2, <1>3, <1>5, <2>1, <2>2 DEF Grove
  <1>7. SearchTree(pg, N, level, x, T, region)
    BY <1>1, <1>2, <1>6 DEF SearchTree
  <1> QED
    BY <1>1, <1>7

\* In a search tree every descent is defined and finds the cells of its key that
\* any leaf of the tree holds.
LEMMA SearchFinds ==
    ASSUME NEW pg, NEW N, NEW V, NEW num, NEW level, Shape(pg, N, V, num, level),
           NEW root \in Pages(N), NodeAt(pg, root),
           NEW T, NEW region, SearchTree(pg, N, level, root, T, region), NEW key \in Nat
    PROVE  /\ DescentDefined(pg, root, key)
           /\ \E x \in T : /\ x = btree_find_leaf(pg, root, key)
                           /\ IsLeaf(pg[x]) /\ key \in region[x]
           /\ \A p \in T : \A c \in CellsAt(pg, p) :
                 c.key = key => p = btree_find_leaf(pg, root, key)
  <1>1. PICK path, n, x : path = Path(pg, root, key) /\ n = Len(path) /\ x = path[n]
    OBVIOUS
  <1>2. /\ IsPath(path, pg, N, level, root, key)
        /\ btree_find_leaf(pg, root, key) = x
        /\ DescentDefined(pg, root, key) <=> IsLeaf(pg[x])
    BY <1>1, DefinedPath
  <1>3. PathIn(path, pg, T, region, n, key) /\ LeafPath(path, pg, N, level, root, key)
    BY <1>1, <1>2, PathRegions
  <1>4. IsLeaf(pg[x]) /\ x \in T /\ key \in region[x]
    <2>1. n \in 1 .. n
      BY <1>1, <1>2 DEF IsPath
    <2> QED
      BY <1>1, <1>3, <2>1 DEF PathIn, LeafPath
  <1>5. ASSUME NEW p \in T, NEW c \in CellsAt(pg, p), c.key = key PROVE p = x
    <2>1. /\ T \subseteq Pages(N) /\ ~NodeAt(pg, 0) /\ NodeAt(pg, p) /\ p # 0
          /\ Serves(pg[p], T, region, region[p])
          /\ p # x /\ level[p] = level[x] => region[p] \cap region[x] = {}
      BY <1>4 DEF SearchTree, Grove, Shape
    <2>2. IsLeaf(pg[p]) /\ c.key \in region[p]
      BY <2>1 DEF CellsAt, Serves
    <2>3. level[p] = 0 /\ level[x] = 0
      BY <1>4, <2>1, <2>2 DEF Shape, GoodLeaf
    <2> QED
      BY <1>4, <1>5, <2>1, <2>2, <2>3
  <1> QED
    BY <1>2, <1>4, <1>5

-----------------------------------------------------------------------------
(* What an insertion leaves of the leaves and of the leftmost children *)

\* What an insertion of cell makes of the leaf x, in whatever order its cells are.
LeafPut(o, pg, N, num, x, cell) ==
    /\ IsLeaf(o.pg[x]) /\ o.pg[x].cells # << >>
    /\ IF ~o.split.did_split
       THEN /\ o.num_pages = num
            /\ \A p \in Pages(N) : p # x => o.pg[p] = pg[p]
            /\ o.pg[x].next = pg[x].next
            /\ CellsAt(o.pg, x) = CellsAt(pg, x) \cup {cell}
       ELSE /\ o.num_pages = num + 1
            /\ num \in Pages(N) /\ num # x /\ ~NodeAt(pg, num)
            /\ \A p \in Pages(N) : p # x /\ p # num => o.pg[p] = pg[p]
            /\ o.pg[x].next = num
            /\ IsLeaf(o.pg[num]) /\ o.pg[num].cells # << >>
            /\ o.pg[num].next = pg[x].next
            /\ CellsAt(o.pg, x) \cup CellsAt(o.pg, num) = CellsAt(pg, x) \cup {cell}

LEMMA LeafPuts ==
    ASSUME NEW pg, NEW N, NEW V, NEW num, NEW level, Shape(pg, N, V, num, level),
           NEW x \in Pages(N), IsLeaf(pg[x]), NEW key \in Nat, NEW value \in V,
           NEW o, o = insert_at_leaf(pg, num, x, key, value), o.num_pages <= N,
           NEW cell, cell = CellOf(key, value)
    PROVE  LeafPut(o, pg, N, num, x, cell)
  <1>1. /\ N \in Nat /\ num \in 2 .. N /\ pg = [p \in Pages(N) |-> pg[p]]
    BY DEF Shape
  <1>2. NodeAt(pg, x) /\ GoodLeaf(pg[x], V, level[x])
    BY DEF Shape, NodeAt
  <1>3. PICK cells, next : cells = pg[x].cells /\ next = pg[x].next
    OBVIOUS
  <1>4. /\ cells \in Seq(Cell(V)) /\ Len(cells) \in Nat /\ Len(cells) <= LEAF_NODE_MAX_CELLS
        /\ next \in Nat /\ pg[x] = Leaf(cells, next)
    BY <1>2, <1>3, LeafNode
  <1>5. PICK all, h, left, right :
           /\ all = leaf_insert(cells, key, value) /\ h = Half(Len(all))
           /\ left = FirstPart(all, h) /\ right = LastPart(all, h)
    OBVIOUS
  <1>6. CellsAt(pg, x) = CellSet(cells)
    BY <1>3 DEF CellsAt
  <1>7. /\ all \in Seq(Cell(V)) /\ Len(all) = Len(cells) + 1 /\ all # << >>
        /\ CellSet(all) = CellSet(cells) \cup {cell}
    <2>1. WithCell(all, cells, V, cell)
      BY <1>4, <1>5, InsertedCells
    <2>2. all \in Seq(Cell(V)) /\ Len(all) = Len(cells) + 1
      BY <2>1 DEF WithCell
    <2>3. Len(all) # 0 /\ Len(<< >>) = 0
      BY <1>4, <2>2
    <2> QED
      BY <2>1, <2>3 DEF WithCell
  <1>8. IF Len(cells) < LEAF_NODE_MAX_CELLS
        THEN One(o, pg, num, x, Leaf(all, next))
        ELSE Two(o, pg, num, x, Leaf(left, num), Leaf(right, next), right[1].key)
    BY <1>3, <1>4, <1>5, LeafForms
  <1>9. CASE Len(cells) < LEAF_NODE_MAX_CELLS
    <2>1. PICK node : node = Leaf(all, next)
      OBVIOUS
    <2>2. One(o, pg, num, x, node)
      BY <1>8, <1>9, <2>1
    <2>3. IsLeaf(node) /\ node.cells = all /\ node.next = next
      BY <2>1 DEF Leaf, IsLeaf
    <2>4. o.pg = Put(pg, x, node) /\ o.num_pages = num /\ o.split.did_split = FALSE
      BY <2>2 DEF One
    <2>5. o.pg[x] = node /\ \A p \in Pages(N) : p # x => o.pg[p] = pg[p]
      BY <1>1, <2>4, PutIs
    <2>6. CellsAt(o.pg, x) = CellsAt(pg, x) \cup {cell}
      BY <1>6, <1>7, <2>3, <2>5 DEF CellsAt
    <2> QED
      BY <1>3, <1>7, <2>3, <2>4, <2>5, <2>6 DEF LeafPut
  <1>10. CASE ~(Len(cells) < LEAF_NODE_MAX_CELLS)
    <2>1. PICK a, b, s : a = Leaf(left, num) /\ b = Leaf(right, next) /\ s = right[1].key
      OBVIOUS
    <2>2. Two(o, pg, num, x, a, b, s)
      BY <1>8, <1>10, <2>1
    <2>3. PICK q : q = Put(pg, x, a)
      OBVIOUS
    <2>4. o.num_pages = num + 1 /\ o.split.did_split = TRUE /\ o.pg = Put(q, num, b)
      BY <2>2, <2>3 DEF Two
    <2>5. num < N /\ num \in Pages(N)
      BY <1>1, <2>4 DEF Pages
    <2>6. ~NodeAt(pg, num)
      BY <2>5, ShapeGrow
    <2>7. num # x
      BY <1>2, <2>6
    <2>8. /\ q = [p \in Pages(N) |-> q[p]] /\ q[x] = a
          /\ \A p \in Pages(N) : p # x => q[p] = pg[p]
      BY <1>1, <2>3, PutIs
    <2>9. o.pg[num] = b /\ \A p \in Pages(N) : p # num => o.pg[p] = q[p]
      BY <2>4, <2>5, <2>8, PutIs
    <2>10. o.pg[x] = a /\ \A p \in Pages(N) : p # x /\ p # num => o.pg[p] = pg[p]
      BY <2>7, <2>8, <2>9
    <2>11. Len(all) \in Nat /\ Len(all) >= 2
      BY <1>4, <1>7, <1>10, NodeAssumption
    <2>12. h \in Nat /\ h >= 1 /\ h < Len(all)
      BY <1>5, <2>11, HalfBound
    <2>13. /\ left \in Seq(Cell(V)) /\ Len(left) = h
           /\ right \in Seq(Cell(V)) /\ Len(right) = Len(all) - h
           /\ CellSet(left) \cup CellSet(right) = CellSet(all)
      BY <1>5, <1>7, <2>12, CutCells
    <2>14. left # << >> /\ right # << >>
      <3>1. Len(left) # 0 /\ Len(right) # 0 /\ Len(<< >>) = 0
        BY <2>11, <2>12, <2>13
      <3> QED
        BY <3>1
    <2>15. IsLeaf(a) /\ a.cells = left /\ a.next = num /\ IsLeaf(b) /\ b.cells = right /\ b.next = next
      BY <2>1 DEF Leaf, IsLeaf
    <2>16. CellsAt(o.pg, x) = CellSet(left) /\ CellsAt(o.pg, num) = CellSet(right)
      BY <2>9, <2>10, <2>15 DEF CellsAt
    <2>17. CellsAt(o.pg, x) \cup CellsAt(o.pg, num) = CellsAt(pg, x) \cup {cell}
      BY <1>6, <1>7, <2>13, <2>16
    <2> QED
      BY <1>3, <2>4, <2>5, <2>6, <2>7, <2>9, <2>10, <2>14, <2>15, <2>17 DEF LeafPut
  <1> QED
    BY <1>9, <1>10

\* q has come from pg by writing internal nodes: the leaves are as they were, and
\* so is the leftmost child of each internal node.
InnerChange(q, pg, N) ==
    /\ \A p \in Pages(N) : IsLeaf(q[p]) \/ IsLeaf(pg[p]) => q[p] = pg[p]
    /\ \A p \in Pages(N) : q[p] = pg[p] \/ IsInternal(q[p])
    /\ \A p \in Pages(N) : IsInternal(pg[p]) =>
          IsInternal(q[p]) /\ q[p].child[0] = pg[p].child[0]

LEMMA InnerChanges ==
    ASSUME NEW pg, NEW q, NEW r, NEW N, InnerChange(q, pg, N), InnerChange(r, q, N)
    PROVE  InnerChange(r, pg, N)
  <1>1. ASSUME NEW p \in Pages(N), IsLeaf(r[p]) \/ IsLeaf(pg[p]) PROVE r[p] = pg[p]
    BY <1>1 DEF InnerChange
  <1>2. ASSUME NEW p \in Pages(N) PROVE r[p] = pg[p] \/ IsInternal(r[p])
    BY DEF InnerChange
  <1>3. ASSUME NEW p \in Pages(N), IsInternal(pg[p])
        PROVE  IsInternal(r[p]) /\ r[p].child[0] = pg[p].child[0]
    BY <1>3 DEF InnerChange
  <1> QED
    BY <1>1, <1>2, <1>3 DEF InnerChange

LEMMA FirstChild ==
    ASSUME NEW P, NEW node \in InnerNodes(P),
           Len(node.keys) <= INTERNAL_NODE_MAX_KEYS, NEW key \in Nat, NEW new \in P,
           NEW t, t = internal_insert(node, key, new)
    PROVE  t.child[0] = node.child[0]
  <1>1. PICK m : m = Separators(node, key)
    OBVIOUS
  <1>2. NodeWith(t, node, key, new, m)
    BY <1>1, InsertedNode
  <1>3. m \in 0 .. Len(node.keys) /\ Len(node.keys) \in Nat
    BY <1>2, InnerParts DEF NodeWith
  <1>4. CASE m = Len(node.keys)
    BY <1>2, <1>4 DEF NodeWith
  <1>5. CASE m # Len(node.keys)
    <2>1. t.child = Shifted(node, new, m)
      BY <1>2, <1>5 DEF NodeWith
    <2>2. 0 \in ChildSlots
      BY NodeAssumption DEF ChildSlots
    <2>3. 0 \notin m + 2 .. Len(node.keys) + 1 /\ 0 # m + 1
      BY <1>3
    <2> QED
      BY <2>1, <2>2, <2>3 DEF Shifted
  <1> QED
    BY <1>4, <1>5

LEMMA LiftedChange ==
    ASSUME NEW o, NEW below, NEW pg, NEW N, NEW V, NEW num, NEW level, NEW x,
           Lifted(o, below, pg, N, V, num, level, x), o.num_pages <= N
    PROVE  InnerChange(o.pg, below.pg, N)
  <1>0. PICK n1, K, q : n1 = below.num_pages /\ K = Kids(below.pg, N, level, level[x]) /\ q = below.pg
    OBVIOUS
  <1>1. /\ o = insert_above(below, x) /\ Shape(q, N, V, n1, level)
        /\ x \in Pages(N) /\ IsInternal(q[x])
        /\ below.split.did_split \in BOOLEAN
    BY <1>0 DEF Lifted
  <1>2. CASE below.split.did_split = FALSE
    <2>1. o = below
      BY <1>2 DEF Lifted
    <2> QED
      BY <2>1 DEF InnerChange, IsLeaf, IsInternal
  <1>3. CASE below.split.did_split = TRUE
    <2>1. below.split.key \in Nat /\ below.split.new_page \in K
      BY <1>0, <1>3 DEF Lifted
    <2>2. PICK node, mid, left, right :
             /\ node = internal_insert(q[x], below.split.key, below.split.new_page)
             /\ mid = MiddleKey(node) /\ left = LeftHalf(node, mid)
             /\ right = RightHalf(node, mid, Len(node.keys))
      OBVIOUS
    <2>3. AboveNode(o, below, x, node, mid, left, right, K, level[x])
      BY <1>0, <1>1, <1>3, <2>1, <2>2, AboveNodes
    <2>4. q[x] \in InnerNodes(K) /\ Len(q[x].keys) <= INTERNAL_NODE_MAX_KEYS
      BY <1>0, <2>3 DEF AboveNode
    <2>5. node.child[0] = q[x].child[0]
      BY <2>1, <2>2, <2>4, FirstChild
    <2>6. q = [p \in Pages(N) |-> q[p]] /\ n1 \in 2 .. N /\ N \in Nat
      BY <1>1 DEF Shape
    <2>7. CASE One(o, q, n1, x, node) /\ GoodInner(node, K, level[x])
      <3>1. o.pg[x] = node /\ \A p \in Pages(N) : p # x => o.pg[p] = q[p]
        <4>1. o.pg = Put(q, x, node)
          BY <2>7 DEF One
        <4> QED
          BY <1>1, <2>6, <4>1, PutIs
      <3>2. IsInternal(node) /\ ~IsLeaf(node)
        BY <2>7, GoodInnerIs
      <3>3. ~IsLeaf(q[x])
        BY <1>1 DEF IsLeaf, IsInternal
      <3> QED
        BY <1>0, <1>1, <2>5, <3>1, <3>2, <3>3 DEF InnerChange
    <2>8. CASE /\ Two(o, q, n1, x, left, right, node.keys[mid + 1])
               /\ GoodInner(left, K, level[x]) /\ GoodInner(right, K, level[x])
      <3>1. PICK q1 : q1 = Put(q, x, left)
        OBVIOUS
      <3>2. o.num_pages = n1 + 1 /\ o.pg = Put(q1, n1, right)
        BY <2>8, <3>1 DEF Two
      <3>3. n1 < N /\ n1 \in Pages(N)
        BY <2>6, <3>2 DEF Pages
      <3>4. ~NodeAt(q, n1)
        BY <1>1, <3>3, ShapeGrow
      <3>5. n1 # x
        BY <1>1, <3>4 DEF NodeAt
      <3>6. /\ q1 = [p \in Pages(N) |-> q1[p]] /\ q1[x] = left
            /\ \A p \in Pages(N) : p # x => q1[p] = q[p]
        BY <1>1, <2>6, <3>1, PutIs
      <3>7. o.pg[n1] = right /\ \A p \in Pages(N) : p # n1 => o.pg[p] = q1[p]
        BY <3>2, <3>3, <3>6, PutIs
      <3>8. o.pg[x] = left /\ \A p \in Pages(N) : p # x /\ p # n1 => o.pg[p] = q[p]
        BY <1>1, <3>5, <3>6, <3>7
      <3>9. IsInternal(left) /\ ~IsLeaf(left) /\ IsInternal(right) /\ ~IsLeaf(right)
        BY <2>8, GoodInnerIs
      <3>10. left.child[0] = q[x].child[0]
        BY <2>2, <2>5 DEF LeftHalf, Internal
      <3>11. ~IsLeaf(q[x]) /\ ~IsLeaf(q[n1]) /\ ~IsInternal(q[n1])
        BY <1>1, <3>4 DEF NodeAt, IsLeaf, IsInternal
      <3> QED
        BY <1>0, <1>1, <3>7, <3>8, <3>9, <3>10, <3>11 DEF InnerChange
    <2> QED
      BY <1>0, <2>3, <2>7, <2>8 DEF AboveNode
  <1> QED
    BY <1>1, <1>2, <1>3

\* After every step of an insertion the leaves are as the insertion at the leaf
\* has left them.
LEMMA ChangeRising ==
    ASSUME NEW pg, NEW N, NEW V, NEW num, NEW level, Shape(pg, N, V, num, level),
           Fresh(level, N, num), NEW root \in Pages(N), NodeAt(pg, root),
           NEW key \in Nat, NEW value \in V,
           NEW path, LeafPath(path, pg, N, level, root, key), NEW n, n = Len(path),
           NEW out, IsOut(out, n, n - 1, insert_at_leaf(pg, num, path[n], key, value), path),
           NEW d \in 1 .. n, out[d].num_pages <= N
    PROVE  InnerChange(out[d].pg, out[n].pg, N) /\ out[n].num_pages <= N
  <1>1. n \in Nat \ {0}
    <2>1. Steps(path, pg, N, level, root, n)
      BY PathLevels
    <2> QED
      BY <2>1 DEF Steps
  <1> DEFINE P(o) == o.num_pages <= N =>
                        InnerChange(o.pg, out[n].pg, N) /\ out[n].num_pages <= N
             S == {k \in Nat : k < n => P(out[n - k])}
  <1>2. 0 \in S
    <2>1. InnerChange(out[n].pg, out[n].pg, N)
      BY DEF InnerChange, IsLeaf, IsInternal
    <2>2. n - 0 = n
      BY <1>1
    <2> QED
      BY <2>1, <2>2
  <1>3. ASSUME NEW k \in Nat, k \in S PROVE k + 1 \in S
    <2>1. PICK e : e = n - (k + 1)
      OBVIOUS
    <2> SUFFICES ASSUME k + 1 < n, out[e].num_pages <= N PROVE P(out[e])
      BY <2>1
    <2>2. e \in 1 .. n /\ e # n /\ e + 1 = n - k /\ k < n
      BY <1>1, <2>1
    <2>3. PICK o, below, x : o = out[e] /\ below = out[e + 1] /\ x = path[e]
      OBVIOUS
    <2>4. Lifted(o, below, pg, N, V, num, level, x)
      <3>1. Lifted(out[e], out[e + 1], pg, N, V, num, level, path[e])
        <4> HIDE DEF P, S
        <4> QED
          BY <2>2, LiftedAt, SMTT(60)
      <3> QED
        BY <2>3, <3>1
    <2>5. below.num_pages <= N
      BY <2>4 DEF Lifted
    <2>6. InnerChange(below.pg, out[n].pg, N) /\ out[n].num_pages <= N
      BY <1>3, <2>2, <2>3, <2>5
    <2>7. InnerChange(o.pg, below.pg, N)
      BY <2>3, <2>4, LiftedChange
    <2>8. InnerChange(o.pg, out[n].pg, N)
      BY <2>6, <2>7, InnerChanges
    <2> QED
      BY <2>3, <2>6, <2>8
  <1> HIDE DEF S
  <1>4. PICK k : k = n - d
    OBVIOUS
  <1>5. k \in Nat /\ k < n /\ n - k = d
    BY <1>1, <1>4
  <1>6. k \in S
    BY <1>2, <1>3, <1>5, Induction
  <1> QED
    BY <1>5, <1>6 DEF S

LEMMA ToppedChange ==
    ASSUME NEW pg, NEW N, NEW V, NEW num, NEW level, Shape(pg, N, V, num, level),
           NEW root \in Pages(N), NEW X, NEW h, NEW cell,
           NEW o, Result(o, pg, N, V, num, level, X, h, cell),
           NEW r, Topped(r, o, root), r.num_pages <= N
    PROVE  /\ o.num_pages <= N /\ InnerChange(r.pg, o.pg, N)
           /\ \/ r.root_page = root
              \/ IsInternal(r.pg[r.root_page]) /\ r.pg[r.root_page].child[0] = root
  <1>1. N \in Nat /\ num \in 2 .. N
    BY DEF Shape
  <1>2. o.split.did_split \in BOOLEAN /\ o.num_pages \in num .. num + h + 1
    BY DEF Result
  <1>3. PICK n1 : n1 = o.num_pages
    OBVIOUS
  <1>4. n1 \in Int /\ n1 >= num
    BY <1>1, <1>2, <1>3
  <1>5. CASE o.split.did_split = FALSE
    <2>1. r.pg = o.pg /\ n1 <= N /\ r.root_page = root
      BY <1>3, <1>5 DEF Topped
    <2> QED
      BY <1>3, <2>1 DEF InnerChange
  <1>6. CASE o.split.did_split = TRUE
    <2>1. PICK node : node = NewRoot(root, o.split.key, o.split.new_page)
      OBVIOUS
    <2>2. r.pg = Put(o.pg, n1, node) /\ r.num_pages = n1 + 1 /\ r.root_page = n1
      BY <1>3, <1>6, <2>1 DEF Topped
    <2>3. n1 <= N /\ n1 < N /\ n1 \in Pages(N)
      BY <1>1, <1>4, <2>2 DEF Pages
    <2>4. Shape(o.pg, N, V, n1, level)
      BY <1>3, <1>6, <2>3 DEF Result
    <2>5. o.pg = [p \in Pages(N) |-> o.pg[p]]
      BY <2>4 DEF Shape
    <2>6. r.pg[n1] = node /\ \A p \in Pages(N) : p # n1 => r.pg[p] = o.pg[p]
      BY <2>2, <2>3, <2>5, PutIs
    <2>7. ~NodeAt(o.pg, n1)
      BY <2>3, <2>4, ShapeGrow
    <2>8. 0 \in ChildSlots
      BY NodeAssumption DEF ChildSlots
    <2>9. IsInternal(node) /\ ~IsLeaf(node) /\ node.child[0] = root
      BY <2>1, <2>8 DEF NewRoot, Internal, IsInternal, IsLeaf
    <2> QED
      BY <1>3, <2>2, <2>3, <2>6, <2>7, <2>9 DEF InnerChange, NodeAt
  <1> QED
    BY <1>2, <1>5, <1>6

\* What an insertion of cell into the leaf x leaves of the pages: but for that leaf,
\* and what is split from it, only internal nodes are written.
LeavesTook(r, pg, N, num, root, x, cell) ==
    /\ \E o : LeafPut(o, pg, N, num, x, cell) /\ InnerChange(r.pg, o.pg, N)
    /\ \/ r.root_page = root
       \/ IsInternal(r.pg[r.root_page]) /\ r.pg[r.root_page].child[0] = root

LEMMA IndexLeaves ==
    ASSUME NEW pg, NEW N, NEW V, NEW num, NEW level, Shape(pg, N, V, num, level),
           Fresh(level, N, num), NEW root \in Pages(N), NodeAt(pg, root),
           NEW key \in Nat, NEW value \in V, DescentDefined(pg, root, key),
           NEW r, r = index_insert(pg, num, root, key, value), r.num_pages <= N,
           NEW x, x = btree_find_leaf(pg, root, key), NEW cell, cell = CellOf(key, value)
    PROVE  /\ x \in Pages(N) /\ IsLeaf(pg[x])
           /\ LeavesTook(r, pg, N, num, root, x, cell)
  <1>1. PICK path, n : path = Path(pg, root, key) /\ n = Len(path)
    OBVIOUS
  <1>2. LeafPath(path, pg, N, level, root, key) /\ x = path[n] /\ x \in Pages(N)
    BY <1>1, DefinedPath
  <1>3. n \in Nat \ {0}
    <2>1. Steps(path, pg, N, level, root, n)
      BY <1>1, <1>2, PathLevels
    <2> QED
      BY <2>1 DEF Steps
  <1>0. PICK out : Rising(out, pg, num, root, key, value, path, n)
    BY <1>1, <1>3, OutIs
  <1>4. /\ IsOut(out, n, n - 1, insert_at_leaf(pg, num, path[n], key, value), path)
        /\ btree_insert(pg, num, root, key, value) = out[1]
    BY <1>0 DEF Rising
  <1>5. PICK o, X, h, o1 : o = out[1] /\ X = PagesOf(path) /\ h = n - 1 /\ o1 = out[n]
    OBVIOUS
  <1>6. 1 \in 1 .. n
    BY <1>3
  <1>7. Result(o, pg, N, V, num, level, X, h, cell)
    BY <1>1, <1>2, <1>4, <1>5, <1>6, Results
  <1>8. Topped(r, o, root)
    <2>1. o.split.did_split \in BOOLEAN
      BY <1>7 DEF Result
    <2> QED
      BY <1>4, <1>5, <2>1, IndexInsertIs
  <1>9. /\ o.num_pages <= N /\ InnerChange(r.pg, o.pg, N)
        /\ \/ r.root_page = root
           \/ IsInternal(r.pg[r.root_page]) /\ r.pg[r.root_page].child[0] = root
    BY <1>7, <1>8, ToppedChange
  <1>10. InnerChange(o.pg, o1.pg, N) /\ o1.num_pages <= N
    BY <1>1, <1>2, <1>4, <1>5, <1>6, <1>9, ChangeRising
  <1>11. InnerChange(r.pg, o1.pg, N)
    BY <1>9, <1>10, InnerChanges
  <1>12. IsLeaf(pg[x])
    BY <1>1, <1>2 DEF LeafPath
  <1>13. o1 = insert_at_leaf(pg, num, x, key, value)
    BY <1>2, <1>4, <1>5 DEF IsOut
  <1>14. LeafPut(o1, pg, N, num, x, cell)
    BY <1>2, <1>10, <1>12, <1>13, LeafPuts
  <1> QED
    BY <1>2, <1>9, <1>11, <1>12, <1>14 DEF LeavesTook

-----------------------------------------------------------------------------
(* The leaf chain, and the way down to its first leaf *)

\* The leaves of s are chained from page 1 on.
ChainIs(s, pg, N) ==
    /\ s \in Seq(Pages(N)) /\ Len(s) \in Nat \ {0} /\ s[1] = 1
    /\ \A i \in 1 .. Len(s) : IsLeaf(pg[s[i]])
    /\ \A i \in 1 .. Len(s) :
          pg[s[i]].next = IF i = Len(s) THEN 0 ELSE s[i + 1]
    /\ \A i, j \in 1 .. Len(s) : i # j => s[i] # s[j]

LeavesIn(s, pg, N) ==
    \A p \in Pages(N) : IsLeaf(pg[p]) => \E i \in 1 .. Len(s) : s[i] = p

NextLeaf(pg) == [p \in DOMAIN pg |-> IF IsLeaf(pg[p]) THEN pg[p].next ELSE 0]

LEMMA PageCount ==
    ASSUME NEW N \in Nat
    PROVE  IsFiniteSet(Pages(N)) /\ Cardinality(Pages(N)) = N
  BY FS_Interval DEF Pages

\* A chain of different pages has as many of them at most as there are.
LEMMA ChainLength ==
    ASSUME NEW N \in Nat, NEW s \in Seq(Pages(N)), NEW n, n = Len(s), n \in Nat,
           \A i, j \in 1 .. n : i # j => s[i] # s[j]
    PROVE  n <= N
  <1>1. IsFiniteSet(Pages(N)) /\ Cardinality(Pages(N)) = N
    BY PageCount
  <1>2. IsFiniteSet(1 .. n) /\ Cardinality(1 .. n) = n
    <2>1. n \in 0 .. n
      OBVIOUS
    <2>2. Cardinality(1 .. n) = n
      BY <2>1, CountFirst
    <2> QED
      BY <2>2, FS_Interval
  <1>3. s \in [1 .. n -> Pages(N)]
    OBVIOUS
  <1>4. n > N => \E i, j \in 1 .. n : i # j /\ s[i] = s[j]
    BY <1>1, <1>2, <1>3, FS_PigeonHole
  <1> QED
    BY <1>4

\* s is a chain of leaves up to the last one.
Links(s, pg, N) ==
    /\ s \in Seq(Pages(N)) /\ Len(s) \in Nat \ {0}
    /\ \A i \in 1 .. Len(s) : IsLeaf(pg[s[i]])
    /\ \A i \in 1 .. Len(s) :
          pg[s[i]].next = IF i = Len(s) THEN 0 ELSE s[i + 1]
    /\ \A i, j \in 1 .. Len(s) : i # j => s[i] # s[j]

LEMMA ChainWalks ==
    ASSUME NEW N \in Nat, NEW pg, pg = [p \in Pages(N) |-> pg[p]],
           0 \in Pages(N), ~IsLeaf(pg[0]), NEW s, Links(s, pg, N), NEW first, first = s[1]
    PROVE  Chain(pg, first) = s
  <1> DEFINE next == NextLeaf(pg)
             n == Len(s)
  <1>1. DOMAIN pg = Pages(N) /\ Cardinality(DOMAIN pg) = N
    <2>1. DOMAIN pg = Pages(N)
      OBVIOUS
    <2>2. Cardinality(Pages(N)) = N
      BY PageCount
    <2> QED
      BY <2>1, <2>2
  <1>2. /\ s \in Seq(Pages(N)) /\ n \in Nat \ {0} /\ s[1] = first
        /\ \A i \in 1 .. n : IsLeaf(pg[s[i]])
        /\ \A i \in 1 .. n : pg[s[i]].next = IF i = n THEN 0 ELSE s[i + 1]
        /\ \A i, j \in 1 .. n : i # j => s[i] # s[j]
    BY DEF Links
  <1>3. n \in 1 .. N
    BY <1>2, ChainLength
  <1>4. \A i \in 1 .. n : s[i] \in Pages(N) /\ s[i] # 0
    BY <1>2
  <1>5. PICK w : w = Walk(pg, first, next)
    OBVIOUS
  <1>6. IsWalk(w, first, next, N)
    BY <1>1, <1>5, WalkIs
  <1>7. next[0] = 0
    BY <1>1 DEF NextLeaf
  <1>8. ASSUME NEW i \in 1 .. n PROVE next[s[i]] = IF i = n THEN 0 ELSE s[i + 1]
    <2>1. next[s[i]] = pg[s[i]].next
      BY <1>1, <1>2, <1>4 DEF NextLeaf
    <2> QED
      BY <1>2, <2>1
  <1> HIDE DEF next, n
  <1> DEFINE At(d) == IF d <= n THEN s[d] ELSE 0
             Good == {d \in Nat : d + 1 <= N => w[d + 1] = At(d + 1)}
  <1>9. 0 \in Good
    BY <1>2, <1>3, <1>6 DEF IsWalk
  <1>10. ASSUME NEW d \in Nat, d \in Good PROVE d + 1 \in Good
    <2> SUFFICES ASSUME d + 2 <= N PROVE w[d + 2] = At(d + 2)
      OBVIOUS
    <2>1. w[d + 1] = At(d + 1)
      BY <1>10
    <2>2. w[d + 2] = next[w[d + 1]]
      <3>1. d + 2 \in 1 .. N /\ d + 2 # 1 /\ (d + 2) - 1 = d + 1
        OBVIOUS
      <3> QED
        BY <1>6, <3>1 DEF IsWalk
    <2>3. CASE d + 1 < n
      <3>1. d + 1 \in 1 .. n /\ d + 1 # n /\ (d + 1) + 1 = d + 2 /\ d + 2 <= n
        BY <1>3, <2>3
      <3> QED
        BY <1>8, <2>1, <2>2, <3>1
    <2>4. CASE d + 1 = n
      <3>1. n \in 1 .. n /\ ~(d + 2 <= n)
        BY <1>3, <2>4
      <3> QED
        BY <1>8, <2>1, <2>2, <2>4, <3>1
    <2>5. CASE d + 1 > n
      <3>1. ~(d + 1 <= n) /\ ~(d + 2 <= n)
        BY <1>3, <2>5
      <3> QED
        BY <1>7, <2>1, <2>2, <3>1
    <2> QED
      BY <1>3, <2>3, <2>4, <2>5
  <1> HIDE DEF Good
  <1>11. ASSUME NEW d \in 1 .. N PROVE w[d] = At(d)
    <2>1. d - 1 \in Nat /\ (d - 1) + 1 = d
      OBVIOUS
    <2>2. d - 1 \in Good
      BY <1>9, <1>10, <2>1, Induction
    <2> QED
      BY <2>1, <2>2 DEF Good
  <1> DEFINE S == {d \in DOMAIN w : w[d] # 0}
  <1>12. S = 1 .. n
    <2>1. DOMAIN w = 1 .. N
      BY <1>6 DEF IsWalk
    <2> QED
      BY <1>3, <1>4, <1>11, <2>1
  <1>13. Cardinality(S) = n
    <2>1. n \in 0 .. n /\ n \in Nat
      BY <1>3
    <2> QED
      BY <1>12, <2>1, CountFirst
  <1> HIDE DEF S
  <1>14. Chain(pg, first) = SubSeq(w, 1, n)
    BY <1>5, <1>13 DEF Chain, Once, NextLeaf, next, S
  <1>15. PICK t : t = SubSeq(w, 1, n)
    OBVIOUS
  <1>16. /\ t \in Seq(Pages(N)) /\ Len(t) = n
         /\ \A j \in 1 .. n : t[j] = w[j]
    <2>1. w \in Seq(Pages(N)) /\ Len(w) = N
      <3>1. \A d \in 1 .. N : w[d] \in Pages(N)
        BY <1>3, <1>4, <1>11
      <3>2. w = [d \in 1 .. N |-> w[d]]
        BY <1>6 DEF IsWalk
      <3>3. w \in [1 .. N -> Pages(N)]
        BY <3>1, <3>2
      <3> QED
        BY <3>3
    <2>2. /\ t \in Seq(Pages(N)) /\ Len(t) = n + 1 - 1
          /\ \A j \in 1 .. n + 1 - 1 : t[j] = w[1 + j - 1]
      <3>1. 1 \in Nat /\ n \in 0 .. Len(w) /\ 1 >= 1 /\ 1 <= n + 1
        BY <1>3, <2>1
      <3> QED
        BY <1>15, <2>1, <3>1, PartOf, SMTT(20)
    <2>3. n + 1 - 1 = n /\ \A j \in 1 .. n : 1 + j - 1 = j
      BY <1>3
    <2> QED
      BY <2>2, <2>3
  <1>17. \A j \in 1 .. n : t[j] = s[j]
    BY <1>3, <1>11, <1>16
  <1>18. t = s
    <2>1. Len(s) = n
      BY DEF n
    <2> QED
      BY <1>2, <1>16, <1>17, <2>1, SeqEqual
  <1> QED
    BY <1>14, <1>15, <1>18

\* Changes that leave the leaves where they are, and their order.
LEMMA ChainStays ==
    ASSUME NEW pg, NEW q, NEW N, NEW s, ChainIs(s, pg, N),
           \A p \in Pages(N) : IsLeaf(pg[p]) => IsLeaf(q[p]) /\ q[p].next = pg[p].next
    PROVE  /\ ChainIs(s, q, N)
           /\ (\A p \in Pages(N) : IsLeaf(q[p]) => IsLeaf(pg[p])) =>
                 (LeavesIn(s, pg, N) => LeavesIn(s, q, N))
  <1>1. \A i \in 1 .. Len(s) : s[i] \in Pages(N)
    BY DEF ChainIs
  <1> QED
    BY <1>1 DEF ChainIs, LeavesIn

\* A split puts the new leaf behind the old one; the rest of the chain stays.
LEMMA ChainPut ==
    ASSUME NEW pg, NEW N, NEW num, num # 0, NEW s, ChainIs(s, pg, N),
           NEW k \in 1 .. Len(s), NEW x, x = s[k], NEW cell,
           NEW o, LeafPut(o, pg, N, num, x, cell)
    PROVE  \E t : /\ ChainIs(t, o.pg, N)
                  /\ LeavesIn(s, pg, N) => LeavesIn(t, o.pg, N)
  <1> DEFINE n == Len(s)
  <1>1. /\ s \in Seq(Pages(N)) /\ n \in Nat \ {0} /\ s[1] = 1
        /\ \A i \in 1 .. n : s[i] \in Pages(N) /\ IsLeaf(pg[s[i]])
        /\ \A i \in 1 .. n : pg[s[i]].next = IF i = n THEN 0 ELSE s[i + 1]
        /\ \A i, j \in 1 .. n : i # j => s[i] # s[j]
    BY DEF ChainIs
  <1>2. x \in Pages(N) /\ IsLeaf(pg[x]) /\ IsLeaf(o.pg[x])
    BY <1>1 DEF LeafPut
  <1>3. CASE ~o.split.did_split
    <2>1. /\ \A p \in Pages(N) : p # x => o.pg[p] = pg[p]
          /\ o.pg[x].next = pg[x].next
      BY <1>3 DEF LeafPut
    <2>2. \A p \in Pages(N) : /\ IsLeaf(pg[p]) => IsLeaf(o.pg[p]) /\ o.pg[p].next = pg[p].next
                              /\ IsLeaf(o.pg[p]) => IsLeaf(pg[p])
      BY <1>2, <2>1
    <2> QED
      BY <2>2, ChainStays
  <1>4. CASE o.split.did_split
    <2>1. PICK q : q = o.pg
      OBVIOUS
    <2>2. /\ num \in Pages(N) /\ num # x /\ ~IsLeaf(pg[num])
          /\ \A p \in Pages(N) : p # x /\ p # num => q[p] = pg[p]
          /\ IsLeaf(q[x]) /\ q[x].next = num
          /\ IsLeaf(q[num]) /\ q[num].next = pg[x].next
      BY <1>2, <1>4, <2>1 DEF LeafPut, NodeAt
    <2>3. PICK t : t = InsertAt(s, k + 1, num)
      OBVIOUS
    <2>4. t \in Seq(Pages(N)) /\ Inserted(t, s, k + 1, num)
      <3>1. k + 1 \in 1 .. Len(s) + 1
        BY <1>1
      <3> QED
        BY <1>1, <2>2, <2>3, <3>1, InsertedAt
    <2> DEFINE m == n + 1
    <2>5. Len(t) = m /\ m \in Nat \ {0} /\ k \in 1 .. n /\ k \in Int
      BY <1>1, <2>4 DEF Inserted
    <2>6. \A j \in 1 .. m : t[j] = IF j < k + 1 THEN s[j] ELSE IF j = k + 1 THEN num ELSE s[j - 1]
      BY <2>4 DEF Inserted
    <2>7. /\ \A j \in 1 .. m : j <= k => t[j] = s[j] /\ j \in 1 .. n
          /\ t[k + 1] = num /\ k + 1 \in 1 .. m
          /\ \A j \in 1 .. m : j > k + 1 => t[j] = s[j - 1] /\ j - 1 \in 1 .. n /\ j - 1 > k
      <3>1. \A j \in 1 .. m : /\ j <= k => j < k + 1 /\ j \in 1 .. n
                              /\ j > k + 1 => ~(j < k + 1) /\ j # k + 1 /\ j - 1 \in 1 .. n /\ j - 1 > k
        BY <1>1, <2>5
      <3>2. k + 1 \in 1 .. m /\ ~(k + 1 < k + 1)
        BY <1>1, <2>5
      <3> QED
        BY <2>6, <3>1, <3>2
    <2>8. \A j \in 1 .. m : j <= k \/ j = k + 1 \/ j > k + 1
      BY <2>5
    <2> HIDE DEF m
    <2>9. t[1] = 1
      <3>1. 1 \in 1 .. m /\ 1 <= k
        BY <1>1, <2>5
      <3> QED
        BY <1>1, <2>7, <3>1
    <2>10. ASSUME NEW i \in 1 .. n PROVE s[i] # num
      BY <1>1, <2>2
    <2>11. ASSUME NEW i \in 1 .. n, i # k PROVE q[s[i]] = pg[s[i]]
      BY <1>1, <2>2, <2>10, <2>11
    <2>12. \A j \in 1 .. m : IsLeaf(q[t[j]])
      <3>1. ASSUME NEW i \in 1 .. n PROVE IsLeaf(q[s[i]])
        BY <1>1, <2>2, <2>11
      <3> QED
        BY <2>2, <2>7, <2>8, <3>1
    <2>13. ASSUME NEW j \in 1 .. m PROVE q[t[j]].next = IF j = m THEN 0 ELSE t[j + 1]
      <3>1. CASE j < k
        <4>1. j <= k /\ j # m /\ j + 1 \in 1 .. m /\ j + 1 <= k /\ j # n /\ j # k
          BY <2>5, <3>1 DEF m
        <4>2. t[j] = s[j] /\ t[j + 1] = s[j + 1] /\ j \in 1 .. n
          BY <2>7, <4>1
        <4> QED
          BY <1>1, <2>11, <4>1, <4>2
      <3>2. CASE j = k
        <4>1. j # m /\ j <= k
          BY <2>5, <3>2 DEF m
        <4> QED
          BY <2>2, <2>7, <3>2, <4>1
      <3>3. CASE j = k + 1
        <4>1. q[t[j]].next = IF k = n THEN 0 ELSE s[k + 1]
          BY <1>1, <2>2, <2>7, <3>3
        <4>2. CASE k = n
          <5>1. j = m
            BY <3>3, <4>2 DEF m
          <5> QED
            BY <4>1, <4>2, <5>1
        <4>3. CASE k # n
          <5>1. j # m /\ j + 1 \in 1 .. m /\ j + 1 > k + 1 /\ (j + 1) - 1 = k + 1
            BY <2>5, <3>3, <4>3 DEF m
          <5>2. t[j + 1] = s[k + 1]
            BY <2>7, <5>1
          <5> QED
            BY <4>1, <4>3, <5>1, <5>2
        <4> QED
          BY <4>2, <4>3
      <3>4. CASE j > k + 1
        <4>1. PICK i : i = j - 1
          OBVIOUS
        <4>2. t[j] = s[i] /\ i \in 1 .. n /\ i # k
          BY <2>5, <2>7, <3>4, <4>1
        <4>3. q[t[j]].next = IF i = n THEN 0 ELSE s[i + 1]
          BY <1>1, <2>11, <4>2
        <4>4. i = n <=> j = m
          BY <2>5, <4>1, <4>2 DEF m
        <4>5. ASSUME j # m PROVE t[j + 1] = s[i + 1]
          <5>1. j + 1 \in 1 .. m /\ j + 1 > k + 1 /\ (j + 1) - 1 = i + 1
            BY <2>5, <3>4, <4>1, <4>5 DEF m
          <5> QED
            BY <2>7, <5>1
        <4> QED
          BY <4>3, <4>4, <4>5
      <3> QED
        BY <2>5, <3>1, <3>2, <3>3, <3>4 DEF m
    <2>14. ASSUME NEW i \in 1 .. m, NEW j \in 1 .. m, i < j PROVE t[i] # t[j]
      <3>1. CASE j <= k
        <4>1. i <= k /\ i # j
          BY <2>5, <2>14, <3>1 DEF m
        <4> QED
          BY <1>1, <2>7, <3>1, <4>1
      <3>2. CASE j = k + 1
        <4>1. i <= k
          BY <2>5, <2>14, <3>2 DEF m
        <4> QED
          BY <2>7, <2>10, <3>2, <4>1
      <3>3. CASE j > k + 1
        <4>1. t[j] = s[j - 1] /\ j - 1 \in 1 .. n /\ j - 1 > k
          BY <2>7, <3>3
        <4>2. CASE i <= k
          <5>1. t[i] = s[i] /\ i \in 1 .. n /\ i # j - 1
            BY <2>5, <2>7, <4>1, <4>2
          <5> QED
            BY <1>1, <4>1, <5>1
        <4>3. CASE i = k + 1
          BY <2>7, <2>10, <4>1, <4>3
        <4>4. CASE i > k + 1
          <5>1. t[i] = s[i - 1] /\ i - 1 \in 1 .. n /\ i - 1 # j - 1
            BY <2>5, <2>7, <2>14, <4>4 DEF m
          <5> QED
            BY <1>1, <4>1, <5>1
        <4> QED
          BY <2>8, <4>2, <4>3, <4>4
      <3> QED
        BY <2>8, <3>1, <3>2, <3>3
    <2>15. \A i, j \in 1 .. m : i # j => t[i] # t[j]
      <3>1. \A i, j \in 1 .. m : i # j => i < j \/ j < i
        BY <2>5
      <3> QED
        BY <2>14, <3>1
    <2>16. ChainIs(t, q, N)
      BY <2>4, <2>5, <2>9, <2>12, <2>13, <2>15 DEF ChainIs
    <2>17. ASSUME LeavesIn(s, pg, N), NEW p \in Pages(N), IsLeaf(q[p])
           PROVE  \E j \in 1 .. m : t[j] = p
      <3>1. CASE p = num
        BY <2>7, <3>1
      <3>2. CASE p # num
        <4>1. IsLeaf(pg[p])
          BY <1>2, <2>2, <2>17, <3>2
        <4>2. PICK i \in 1 .. n : s[i] = p
          BY <2>17, <4>1 DEF LeavesIn
        <4>3. CASE i <= k
          <5>1. i \in 1 .. m
            BY <2>5, <4>3 DEF m
          <5> QED
            BY <2>7, <4>2, <4>3, <5>1
        <4>4. CASE i > k
          <5>1. i + 1 \in 1 .. m /\ i + 1 > k + 1 /\ (i + 1) - 1 = i
            BY <2>5, <4>4 DEF m
          <5> QED
            BY <2>7, <4>2, <5>1
        <4> QED
          BY <2>5, <4>3, <4>4
      <3> QED
        BY <3>1, <3>2
    <2>18. LeavesIn(s, pg, N) => LeavesIn(t, q, N)
      BY <2>5, <2>17 DEF LeavesIn
    <2> QED
      BY <2>1, <2>16, <2>18
  <1> QED
    BY <1>3, <1>4

\* An insertion into a leaf of the chain.
LEMMA ChainGrows ==
    ASSUME NEW pg, NEW N, NEW num, num # 0, NEW s, ChainIs(s, pg, N),
           NEW k \in 1 .. Len(s), NEW x, x = s[k], NEW root, NEW cell,
           NEW r, LeavesTook(r, pg, N, num, root, x, cell)
    PROVE  \E t : /\ ChainIs(t, r.pg, N)
                  /\ LeavesIn(s, pg, N) => LeavesIn(t, r.pg, N)
  <1>1. PICK o : LeafPut(o, pg, N, num, x, cell) /\ InnerChange(r.pg, o.pg, N)
    BY DEF LeavesTook
  <1>2. PICK t : ChainIs(t, o.pg, N) /\ (LeavesIn(s, pg, N) => LeavesIn(t, o.pg, N))
    BY <1>1, ChainPut
  <1>3. \A p \in Pages(N) : /\ IsLeaf(o.pg[p]) => IsLeaf(r.pg[p]) /\ r.pg[p].next = o.pg[p].next
                            /\ IsLeaf(r.pg[p]) => IsLeaf(o.pg[p])
    BY <1>1 DEF InnerChange
  <1> QED
    BY <1>2, <1>3, ChainStays

\* Page 1 as the only leaf.
LEMMA ChainOne ==
    ASSUME NEW pg, NEW N, 1 \in Pages(N), IsLeaf(pg[1]), pg[1].next = 0
    PROVE  /\ ChainIs(<< 1 >>, pg, N)
           /\ (\A p \in Pages(N) : IsLeaf(pg[p]) => p = 1) => LeavesIn(<< 1 >>, pg, N)
  <1>1. PICK s : s = << 1 >>
    OBVIOUS
  <1>2. s \in Seq(Pages(N)) /\ Len(s) = 1 /\ s[1] = 1 /\ \A i \in 1 .. Len(s) : i = 1
    BY <1>1
  <1> QED
    BY <1>1, <1>2 DEF ChainIs, LeavesIn

\* The leftmost children, from root down to page 1.
Spine(S, pg, N, root) ==
    /\ S \subseteq Pages(N) /\ root \in S
    /\ \A p \in S : /\ NodeAt(pg, p)
                    /\ IsLeaf(pg[p]) => p = 1
                    /\ IsInternal(pg[p]) => pg[p].child[0] \in S

LeftBelow(pg) == [p \in DOMAIN pg |-> IF IsInternal(pg[p]) THEN pg[p].child[0] ELSE p]

LEMMA SpineLeads ==
    ASSUME NEW pg, NEW N, NEW V, NEW num, NEW level, Shape(pg, N, V, num, level),
           NEW S, NEW root, Spine(S, pg, N, root)
    PROVE  find_leftmost_leaf(pg, root) = 1
  <1> DEFINE next == LeftBelow(pg)
  <1>1. /\ N \in Nat /\ num \in 2 .. N /\ DOMAIN pg = Pages(N)
        /\ level \in [Pages(N) -> Nat] /\ ~NodeAt(pg, 0)
    BY DEF Shape
  <1>2. Cardinality(DOMAIN pg) = N
    BY <1>1, PageCount
  <1>3. PICK w : w = Walk(pg, root, next)
    OBVIOUS
  <1>4. IsWalk(w, root, next, N)
    BY <1>1, <1>2, <1>3, WalkIs
  <1>5. S \subseteq Pages(N) /\ root \in S /\ level[root] + 2 <= N /\ level[root] \in Nat
    <2>1. NodeAt(pg, root) /\ root \in Pages(N) /\ S \subseteq Pages(N) /\ root \in S
      BY DEF Spine
    <2>2. level[root] + 2 <= num /\ level[root] \in Nat
      BY <2>1 DEF Shape
    <2> QED
      BY <1>1, <2>1, <2>2
  <1>6. ASSUME NEW p \in S, IsInternal(pg[p])
        PROVE  /\ next[p] = pg[p].child[0] /\ next[p] \in S
               /\ level[next[p]] + 1 = level[p]
    <2>1. next[p] = pg[p].child[0] /\ next[p] \in S
      BY <1>1, <1>5, <1>6 DEF LeftBelow, Spine
    <2>2. next[p] # 0
      BY <1>1, <2>1 DEF Spine
    <2>3. next[p] \in Kids(pg, N, level, level[p])
      <3>1. pg[p] \in InnerNodes(Kids(pg, N, level, level[p]))
        BY <1>5, <1>6 DEF Shape, GoodInner
      <3>2. pg[p].child \in [ChildSlots -> Kids(pg, N, level, level[p])]
        BY <3>1, InnerParts
      <3>3. 0 \in ChildSlots
        BY NodeAssumption DEF ChildSlots
      <3> QED
        BY <2>1, <3>2, <3>3
    <2> QED
      BY <2>1, <2>2, <2>3 DEF Kids
  <1>7. ASSUME NEW p \in S, IsLeaf(pg[p]) PROVE next[p] = p /\ p = 1
    BY <1>1, <1>5, <1>7 DEF LeftBelow, Spine, IsLeaf, IsInternal
  <1>8. \A p \in S : IsLeaf(pg[p]) \/ IsInternal(pg[p])
    BY DEF Spine, NodeAt
  <1> HIDE DEF next
  <1> DEFINE Down(p, d) == /\ p \in S
                           /\ IsInternal(pg[p]) => level[p] + d = level[root] + 1
             Good == {d \in Nat : d + 1 <= N => Down(w[d + 1], d + 1)}
  <1>9. 0 \in Good
    BY <1>1, <1>4, <1>5 DEF IsWalk
  <1>10. ASSUME NEW d \in Nat, d \in Good PROVE d + 1 \in Good
    <2> SUFFICES ASSUME d + 2 <= N PROVE Down(w[d + 2], d + 2)
      OBVIOUS
    <2>1. PICK p : p = w[d + 1]
      OBVIOUS
    <2>2. Down(p, d + 1)
      BY <1>1, <1>10, <2>1
    <2>3. w[d + 2] = next[p]
      <3>1. d + 2 \in 1 .. N /\ d + 2 # 1 /\ (d + 2) - 1 = d + 1
        BY <1>1
      <3> QED
        BY <1>4, <2>1, <3>1 DEF IsWalk
    <2>4. CASE IsInternal(pg[p])
      <3>1. PICK c : c = next[p]
        OBVIOUS
      <3>2. c \in S /\ level[c] + 1 = level[p] /\ level[p] + (d + 1) = level[root] + 1
        BY <1>6, <2>2, <2>4, <3>1
      <3>3. level[c] \in Nat /\ level[p] \in Nat
        BY <1>1, <1>5, <2>2, <3>2
      <3>4. level[c] + (d + 2) = level[root] + 1
        BY <1>5, <3>2, <3>3
      <3> QED
        BY <2>3, <3>1, <3>2, <3>4
    <2>5. CASE ~IsInternal(pg[p])
      BY <1>7, <1>8, <2>2, <2>3, <2>5
    <2> QED
      BY <2>4, <2>5
  <1> HIDE DEF Good
  <1>11. Down(w[N], N)
    <2>1. N - 1 \in Nat /\ (N - 1) + 1 = N
      BY <1>1
    <2>2. N - 1 \in Good
      BY <1>9, <1>10, <2>1, Induction
    <2> QED
      BY <1>1, <2>1, <2>2 DEF Good
  <1>12. w[N] = 1
    <2>1. w[N] \in S /\ level[w[N]] \in Nat
      BY <1>1, <1>5, <1>11
    <2>2. level[w[N]] + N # level[root] + 1
      BY <1>1, <1>5, <2>1
    <2> QED
      BY <1>7, <1>8, <1>11, <2>1, <2>2
  <1>13. Last(w) = w[N]
    <2>1. w \in Seq(S) /\ Len(w) = N
      <3>1. ASSUME NEW d \in 1 .. N PROVE w[d] \in S
        <4>1. d - 1 \in Nat /\ (d - 1) + 1 = d
          BY <1>1
        <4>2. d - 1 \in Good
          BY <1>9, <1>10, <4>1, Induction
        <4> QED
          BY <1>1, <4>1, <4>2 DEF Good
      <3>2. w \in [1 .. N -> S]
        BY <1>4, <3>1 DEF IsWalk
      <3> QED
        BY <1>1, <3>2
    <2> QED
      BY <2>1 DEF Last
  <1> QED
    BY <1>3, <1>12, <1>13 DEF find_leftmost_leaf, LeftBelow, next

LEMMA SpineGrows ==
    ASSUME NEW pg, NEW N, NEW V, NEW num, NEW level, Shape(pg, N, V, num, level),
           NEW S, NEW root, Spine(S, pg, N, root), NEW x \in Pages(N), IsLeaf(pg[x]),
           NEW cell, NEW r, LeavesTook(r, pg, N, num, root, x, cell),
           NEW X, Grew(r, pg, N, V, num, level, root, X, cell)
    PROVE  Spine(S \cup {r.root_page}, r.pg, N, r.root_page)
  <1>1. PICK o : LeafPut(o, pg, N, num, x, cell) /\ InnerChange(r.pg, o.pg, N)
    BY DEF LeavesTook
  <1>2. S \subseteq Pages(N) /\ root \in S /\ num \in Nat /\ N \in Nat
    BY DEF Spine, Shape
  <1>3. r.root_page \in Pages(N) /\ NodeAt(r.pg, r.root_page)
    BY DEF Grew
  <1>4. ASSUME NEW p \in S
        PROVE  /\ NodeAt(r.pg, p)
               /\ IsLeaf(r.pg[p]) => p = 1
               /\ IsInternal(r.pg[p]) => r.pg[p].child[0] \in S
    <2>1. /\ p \in Pages(N) /\ NodeAt(pg, p) /\ p < num
          /\ IsLeaf(pg[p]) => p = 1
          /\ IsInternal(pg[p]) => pg[p].child[0] \in S
      BY DEF Spine, Shape
    <2>2. /\ IsLeaf(r.pg[p]) <=> IsLeaf(pg[p])
          /\ IsInternal(r.pg[p]) <=> IsInternal(pg[p])
      BY <2>1 DEF Grew
    <2>3. ASSUME IsInternal(pg[p]) PROVE r.pg[p].child[0] = pg[p].child[0]
      <3>1. p # x /\ p # num
        BY <1>2, <2>1, <2>3 DEF IsLeaf, IsInternal, Pages
      <3>2. o.pg[p] = pg[p]
        BY <1>1, <2>1, <3>1 DEF LeafPut
      <3> QED
        BY <1>1, <2>1, <2>3, <3>2 DEF InnerChange
    <2> QED
      BY <2>1, <2>2, <2>3 DEF NodeAt
  <1>5. CASE r.root_page = root
    BY <1>2, <1>4, <1>5 DEF Spine
  <1>6. CASE IsInternal(r.pg[r.root_page]) /\ r.pg[r.root_page].child[0] = root
    <2>1. ~IsLeaf(r.pg[r.root_page])
      BY <1>6 DEF IsLeaf, IsInternal
    <2> QED
      BY <1>2, <1>3, <1>4, <1>6, <2>1 DEF Spine
  <1> QED
    BY <1>5, <1>6 DEF LeavesTook

-----------------------------------------------------------------------------
(* The cells of the chain *)

\* t holds the cells of s, and behind them those of r.
Together(t, s, r, G) ==
    /\ t \in Seq(G)
    /\ CellSet(t) = CellSet(s) \cup CellSet(r)
    /\ InOrder(s) /\ InOrder(r)
          /\ (\A c \in CellSet(s) : \A d \in CellSet(r) : c.key < d.key)
          => InOrder(t)

LEMMA JoinedCells ==
    ASSUME NEW G, NEW s \in Seq(G), NEW r \in Seq(G), NEW t, t = s \o r
    PROVE  Together(t, s, r, G)
  <1>1. PICK m, n : m = Len(s) /\ n = Len(r)
    OBVIOUS
  <1>2. m \in Nat /\ n \in Nat
    BY <1>1
  <1>3. /\ t \in Seq(G) /\ Len(t) = m + n
        /\ \A i \in 1 .. m + n : t[i] = IF i <= m THEN s[i] ELSE r[i - m]
    BY <1>1, ConcatProperties
  <1>4. ASSUME NEW i \in 1 .. m PROVE i \in 1 .. m + n /\ t[i] = s[i]
    BY <1>2, <1>3
  <1>5. ASSUME NEW i \in 1 .. n PROVE m + i \in 1 .. m + n /\ t[m + i] = r[i]
    <2>1. m + i \in 1 .. m + n /\ ~(m + i <= m) /\ (m + i) - m = i
      BY <1>2
    <2> QED
      BY <1>3, <2>1
  <1>6. ASSUME NEW i \in 1 .. m + n, ~(i <= m) PROVE i - m \in 1 .. n /\ t[i] = r[i - m]
    BY <1>2, <1>3, <1>6
  <1>7. CellSet(t) = CellSet(s) \cup CellSet(r)
    <2>1. ASSUME NEW c \in CellSet(t) PROVE c \in CellSet(s) \cup CellSet(r)
      <3>1. PICK i \in 1 .. m + n : c = t[i]
        BY <1>3, <2>1 DEF CellSet
      <3>2. CASE i <= m
        <4>1. i \in 1 .. m
          BY <1>2, <3>2
        <4> QED
          BY <1>1, <1>4, <3>1, <4>1 DEF CellSet
      <3>3. CASE ~(i <= m)
        BY <1>1, <1>6, <3>1, <3>3 DEF CellSet
      <3> QED
        BY <3>2, <3>3
    <2>2. CellSet(s) \subseteq CellSet(t)
      BY <1>1, <1>3, <1>4 DEF CellSet
    <2>3. CellSet(r) \subseteq CellSet(t)
      BY <1>1, <1>3, <1>5 DEF CellSet
    <2> QED
      BY <2>1, <2>2, <2>3
  <1>8. ASSUME InOrder(s), InOrder(r), \A c \in CellSet(s) : \A d \in CellSet(r) : c.key < d.key
        PROVE  InOrder(t)
    <2> SUFFICES ASSUME NEW i \in 1 .. m + n, NEW j \in 1 .. m + n, i < j
                 PROVE  t[i].key < t[j].key
      BY <1>3 DEF InOrder
    <2>1. CASE j <= m
      <3>1. i \in 1 .. m /\ j \in 1 .. m
        BY <1>2, <2>1
      <3> QED
        BY <1>1, <1>4, <1>8, <3>1 DEF InOrder
    <2>2. CASE ~(j <= m) /\ i <= m
      <3>3. i \in 1 .. m
        BY <1>2, <2>2
      <3>4. t[i] = s[i]
        BY <1>4, <3>3
      <3>5. j - m \in 1 .. n /\ t[j] = r[j - m]
        BY <1>6, <2>2
      <3>1. i \in 1 .. m /\ j - m \in 1 .. n /\ t[i] = s[i] /\ t[j] = r[j - m]
        BY <3>3, <3>4, <3>5
      <3>2. s[i] \in CellSet(s) /\ r[j - m] \in CellSet(r)
        BY <1>1, <3>1 DEF CellSet
      <3> QED
        BY <1>8, <3>1, <3>2
    <2>3. CASE ~(j <= m) /\ ~(i <= m)
      <3>2. i - m \in 1 .. n /\ t[i] = r[i - m]
        BY <1>6, <2>3
      <3>3. j - m \in 1 .. n /\ t[j] = r[j - m]
        BY <1>6, <2>3
      <3>4. i - m < j - m
        BY <1>2
      <3>1. /\ i - m \in 1 .. n /\ j - m \in 1 .. n /\ i - m < j - m
            /\ t[i] = r[i - m] /\ t[j] = r[j - m]
        BY <3>2, <3>3, <3>4
      <3> QED
        BY <1>1, <1>8, <3>1 DEF InOrder
    <2> QED
      BY <2>1, <2>2, <2>3
  <1> QED
    BY <1>3, <1>7, <1>8 DEF Together

\* f[i] is what the first i + 1 of the sequences are together.
Joined(f, seqs, n) ==
    /\ f = [i \in 1 .. n |-> f[i]]
    /\ \A i \in 1 .. n : f[i] = IF i = 1 THEN seqs[i] ELSE f[i - 1] \o seqs[i]

LEMMA JoinedExists ==
    ASSUME NEW n \in Nat, NEW seqs
    PROVE  \E f : Joined(f, seqs, n)
  <1> DEFINE S == {k \in Nat : \E f : Joined(f, seqs, k)}
  <1>1. 0 \in S
    <2>1. Joined([i \in 1 .. 0 |-> << >>], seqs, 0)
      BY DEF Joined
    <2> QED
      BY <2>1
  <1>2. ASSUME NEW k \in Nat, k \in S PROVE k + 1 \in S
    <2>1. PICK f : Joined(f, seqs, k)
      BY <1>2
    <2>2. PICK new : new = IF k + 1 = 1 THEN seqs[k + 1] ELSE f[k] \o seqs[k + 1]
      OBVIOUS
    <2> DEFINE h == [i \in 1 .. k + 1 |-> IF i = k + 1 THEN new ELSE f[i]]
    <2>3. h = [i \in 1 .. k + 1 |-> h[i]]
      OBVIOUS
    <2>4. ASSUME NEW i \in 1 .. k + 1
          PROVE  h[i] = IF i = 1 THEN seqs[i] ELSE h[i - 1] \o seqs[i]
      <3>1. CASE i = k + 1
        <4>1. h[i] = new
          BY <3>1
        <4>2. CASE i = 1
          BY <2>2, <3>1, <4>1, <4>2
        <4>3. CASE i # 1
          <5>1. i - 1 = k /\ k \in 1 .. k + 1 /\ k # k + 1
            BY <3>1, <4>3
          <5>2. h[k] = f[k]
            BY <5>1
          <5> QED
            BY <2>2, <3>1, <4>1, <4>3, <5>1, <5>2
        <4> QED
          BY <4>2, <4>3
      <3>2. CASE i # k + 1
        <4>1. i \in 1 .. k /\ h[i] = f[i]
          BY <3>2
        <4>2. i # 1 => h[i - 1] = f[i - 1]
          BY <4>1
        <4> HIDE DEF h
        <4> QED
          BY <2>1, <4>1, <4>2 DEF Joined
      <3> QED
        BY <3>1, <3>2
    <2> HIDE DEF h
    <2>5. Joined(h, seqs, k + 1)
      BY <2>3, <2>4 DEF Joined
    <2> QED
      BY <2>5
  <1> HIDE DEF S
  <1>3. n \in S
    BY <1>1, <1>2, Induction
  <1> QED
    BY <1>3 DEF S

\* What the first k of the sequences hold, and when all of it is in order.
CellsTo(seqs, k) == UNION {CellSet(seqs[i]) : i \in 1 .. k}

SeqsRise(seqs) ==
    /\ \A i \in 1 .. Len(seqs) : InOrder(seqs[i])
    /\ \A i, j \in 1 .. Len(seqs) : i < j =>
          \A c \in CellSet(seqs[i]) : \A d \in CellSet(seqs[j]) : c.key < d.key

\* Sequences of G, one after the other, are a sequence of G that holds what each of
\* them holds.
LEMMA FlattenedIs ==
    ASSUME NEW G, NEW seqs \in Seq(Seq(G)), NEW t, t = FlattenSeq(seqs)
    PROVE  /\ t \in Seq(G)
           /\ CellSet(t) = CellsTo(seqs, Len(seqs))
           /\ SeqsRise(seqs) => InOrder(t)
  <1> DEFINE Body(f) == [i \in 1 .. Len(seqs) |->
                            IF i = 1 THEN seqs[i] ELSE f[i - 1] \o seqs[i]]
             flatten == CHOOSE f : f = Body(f)
             Part(s, k) == /\ s \in Seq(G)
                           /\ CellSet(s) = CellsTo(seqs, k)
                           /\ SeqsRise(seqs) => InOrder(s)
  <1>1. PICK n : n = Len(seqs)
    OBVIOUS
  <1>2. n \in Nat /\ \A i \in 1 .. n : seqs[i] \in Seq(G)
    BY <1>1
  <1>3. CASE n = 0
    <2>1. t = seqs
      <3> HIDE DEF flatten, Body, Part
      <3> QED
        BY <1>1, <1>3 DEF FlattenSeq
    <2>2. seqs = << >>
      <3>1. PICK A : A = Seq(G)
        OBVIOUS
      <3>2. seqs \in Seq(A) /\ Len(seqs) = 0
        BY <1>1, <1>3, <3>1
      <3> QED
        BY <3>2, EmptySeq
    <2>3. << >> \in Seq(G) /\ Len(<< >>) = 0
      OBVIOUS
    <2>4. CellSet(<< >>) = {} /\ CellsTo(seqs, 0) = {} /\ InOrder(<< >>)
      BY <2>3 DEF CellSet, CellsTo, InOrder
    <2> QED
      BY <1>1, <1>3, <2>1, <2>2, <2>3, <2>4
  <1>4. CASE n # 0
    <2>1. t = flatten[n]
      BY <1>1, <1>4 DEF FlattenSeq
    <2>2. PICK h : Joined(h, seqs, n)
      BY <1>2, JoinedExists
    <2>3. h = Body(h)
      BY <1>1, <2>2 DEF Joined
    <2>4. flatten = Body(flatten)
      <3> HIDE DEF Body
      <3> QED
        BY <2>3
    <2>5. \A f, g : g = Body(f) =>
             /\ g = [i \in 1 .. n |-> g[i]]
             /\ \A i \in 1 .. n : g[i] = IF i = 1 THEN seqs[i] ELSE f[i - 1] \o seqs[i]
      BY <1>1
    <2> HIDE DEF flatten, Body
    <2>6. \A i \in 1 .. n : flatten[i] = IF i = 1 THEN seqs[i] ELSE flatten[i - 1] \o seqs[i]
      BY <2>4, <2>5
    <2> DEFINE S == {k \in Nat : k + 1 <= n => Part(flatten[k + 1], k + 1)}
    <2>7. 0 \in S
      <3>1. 1 \in 1 .. n /\ flatten[1] = seqs[1]
        BY <1>2, <1>4, <2>6
      <3>2. CellsTo(seqs, 1) = CellSet(seqs[1])
        BY DEF CellsTo
      <3>3. SeqsRise(seqs) => InOrder(seqs[1])
        BY <1>1, <3>1 DEF SeqsRise
      <3>4. Part(flatten[1], 1)
        BY <1>2, <3>1, <3>2, <3>3
      <3> QED
        BY <3>4
    <2>8. ASSUME NEW k \in Nat, k \in S PROVE k + 1 \in S
      <3> SUFFICES ASSUME k + 2 <= n PROVE Part(flatten[k + 2], k + 2)
        OBVIOUS
      <3>1. k + 2 \in 1 .. n /\ k + 2 # 1 /\ (k + 2) - 1 = k + 1 /\ k + 1 <= n
        BY <1>2
      <3>2. PICK s, r, u : s = flatten[k + 1] /\ r = seqs[k + 2] /\ u = flatten[k + 2]
        OBVIOUS
      <3>3. u = s \o r
        BY <2>6, <3>1, <3>2
      <3>4. Part(s, k + 1) /\ r \in Seq(G)
        BY <1>2, <2>8, <3>1, <3>2
      <3>8. s \in Seq(G) /\ r \in Seq(G)
        BY <3>4
      <3>5. /\ u \in Seq(G) /\ CellSet(u) = CellSet(s) \cup CellSet(r)
            /\ InOrder(s) /\ InOrder(r)
                  /\ (\A c \in CellSet(s) : \A d \in CellSet(r) : c.key < d.key)
                  => InOrder(u)
        <4>1. Together(u, s, r, G)
          <5> HIDE DEF Part
          <5> QED
            BY <3>3, <3>8, JoinedCells
        <4> QED
          BY <4>1 DEF Together
      <3>6. CellsTo(seqs, k + 2) = CellsTo(seqs, k + 1) \cup CellSet(r)
        <4>1. 1 .. k + 2 = 1 .. k + 1 \cup {k + 2}
          OBVIOUS
        <4> QED
          BY <3>2, <4>1 DEF CellsTo
      <3>7. ASSUME SeqsRise(seqs) PROVE InOrder(u)
        <4>1. ASSUME NEW c \in CellSet(s), NEW d \in CellSet(r) PROVE c.key < d.key
          <5>1. PICK i \in 1 .. k + 1 : c \in CellSet(seqs[i])
            BY <3>4, <4>1 DEF CellsTo
          <5>2. i \in 1 .. n /\ i < k + 2
            BY <1>2, <3>1
          <5> QED
            BY <1>1, <3>1, <3>2, <3>7, <4>1, <5>1, <5>2 DEF SeqsRise
        <4>2. InOrder(r)
          BY <1>1, <3>1, <3>2, <3>7 DEF SeqsRise
        <4> QED
          BY <3>4, <3>5, <3>7, <4>1, <4>2
      <3> QED
        BY <3>2, <3>4, <3>5, <3>6, <3>7
    <2> HIDE DEF S
    <2>9. PICK k : k = n - 1
      OBVIOUS
    <2>10. k \in Nat /\ k + 1 = n
      BY <1>2, <1>4, <2>9
    <2>11. k \in S
      BY <2>7, <2>8, <2>10, Induction
    <2>12. Part(flatten[n], n)
      BY <2>10, <2>11 DEF S
    <2> QED
      BY <1>1, <2>1, <2>12
  <1> QED
    BY <1>3, <1>4

\* A part of the chain that goes on to its end is a chain.
LEMMA LinksTail ==
    ASSUME NEW pg, NEW N, NEW s, Links(s, pg, N), NEW k \in 1 .. Len(s),
           s \in Seq(Pages(N))
    PROVE  \E t : /\ Links(t, pg, N) /\ Len(t) = Len(s) + 1 - k
                  /\ \A i \in 1 .. Len(t) : t[i] = s[k + i - 1]
  <1>1. PICK n, m, t : n = Len(s) /\ m = n + 1 - k /\ t = SubSeq(s, k, Len(s))
    OBVIOUS
  <1>2. /\ s \in Seq(Pages(N)) /\ n \in Nat \ {0}
        /\ \A i \in 1 .. n : IsLeaf(pg[s[i]])
        /\ \A i \in 1 .. n : pg[s[i]].next = IF i = n THEN 0 ELSE s[i + 1]
        /\ \A i, j \in 1 .. n : i # j => s[i] # s[j]
    BY <1>1 DEF Links
  <1>3. k \in Nat /\ k >= 1 /\ k <= n + 1 /\ n \in 0 .. Len(s) /\ m \in Nat \ {0}
    BY <1>1, <1>2
  <1>4. t \in Seq(Pages(N)) /\ Len(t) = m /\ \A i \in 1 .. m : t[i] = s[k + i - 1]
    BY <1>1, <1>2, <1>3, PartOf
  <1>5. ASSUME NEW i \in 1 .. m
        PROVE  /\ k + i - 1 \in 1 .. n /\ (k + i - 1) + 1 = k + (i + 1) - 1
               /\ k + i - 1 = n <=> i = m
    BY <1>1, <1>2, <1>3
  <1>6. \A i \in 1 .. m : IsLeaf(pg[t[i]])
    BY <1>2, <1>4, <1>5
  <1>7. ASSUME NEW i \in 1 .. m PROVE pg[t[i]].next = IF i = m THEN 0 ELSE t[i + 1]
    <2>1. pg[t[i]].next = IF i = m THEN 0 ELSE s[k + (i + 1) - 1]
      <3>1. PICK a : a = k + i - 1
        OBVIOUS
      <3>2. a \in 1 .. n /\ a + 1 = k + (i + 1) - 1 /\ t[i] = s[a] /\ (a = n <=> i = m)
        BY <1>4, <1>5, <3>1
      <3>3. pg[s[a]].next = IF a = n THEN 0 ELSE s[a + 1]
        BY <1>2, <3>2
      <3> QED
        BY <3>2, <3>3
    <2>2. i # m => i + 1 \in 1 .. m
      BY <1>3
    <2> QED
      BY <1>4, <2>1, <2>2
  <1>8. ASSUME NEW i \in 1 .. m, NEW j \in 1 .. m, i # j PROVE t[i] # t[j]
    <2>1. PICK a, b : a = k + i - 1 /\ b = k + j - 1
      OBVIOUS
    <2>2. a # b
      BY <1>3, <1>8, <2>1
    <2>3. a \in 1 .. n /\ b \in 1 .. n
      BY <1>5, <2>1
    <2>4. t[i] = s[a] /\ t[j] = s[b]
      BY <1>4, <2>1
    <2> QED
      BY <1>2, <2>2, <2>3, <2>4
  <1>9. Links(t, pg, N)
    BY <1>1, <1>3, <1>4, <1>6, <1>7, <1>8 DEF Links
  <1> QED
    BY <1>1, <1>4, <1>9

-----------------------------------------------------------------------------
(* The order of the chain *)

\* The leaves of the tree follow each other as their regions do.
Following(pg, T, region) ==
    \A p \in T : IsLeaf(pg[p]) /\ pg[p].next # 0 =>
        /\ pg[p].next \in T /\ IsLeaf(pg[pg[p].next])
        /\ \A a \in region[p] : \A b \in region[pg[p].next] : a < b

LEMMA FollowingCut ==
    ASSUME NEW pg, NEW q, NEW T, NEW region, Following(pg, T, region),
           \A p \in T : /\ IsLeaf(q[p]) <=> IsLeaf(pg[p])
                        /\ IsLeaf(pg[p]) => q[p].next = pg[p].next
    PROVE  Following(q, T, region)
  BY DEF Following

\* Splits leave the order of the leaves: the leaf that was split hands the upper part
\* of its region to the new one, which comes behind it.
LEMMA FollowingInsert ==
    ASSUME NEW pg, NEW N, NEW V, NEW num, NEW level, Shape(pg, N, V, num, level),
           NEW root, NEW T0, NEW region0, SearchTree(pg, N, level, root, T0, region0),
           \A p \in Pages(N) : IsLeaf(pg[p]) => p \in T0,
           Following(pg, T0, region0),
           NEW x \in Pages(N), IsLeaf(pg[x]), NEW cell,
           NEW r, LeavesTook(r, pg, N, num, root, x, cell),
           NEW T, NEW region, Searched(r, N, level, num, T0, region0, x, T, region),
           \A p \in Pages(N) : IsLeaf(r.pg[p]) => p \in T
    PROVE  Following(r.pg, T, region)
  <1>1. PICK o : LeafPut(o, pg, N, num, x, cell) /\ InnerChange(r.pg, o.pg, N)
    BY DEF LeavesTook
  <1>2. PICK q : q = r.pg
    OBVIOUS
  <1>3. /\ \A p \in Pages(N) : IsLeaf(q[p]) => IsLeaf(o.pg[p]) /\ q[p].next = o.pg[p].next
        /\ \A p \in Pages(N) : IsLeaf(o.pg[p]) => IsLeaf(q[p])
    BY <1>1, <1>2 DEF InnerChange
  <1>4. /\ T0 \subseteq T /\ LeafNarrowed(T, region, T0, region0, level, x, num)
        /\ T \subseteq Pages(N) /\ T0 \subseteq Pages(N) /\ x \in T0
    BY DEF Searched, SearchTree, Grove
  <1>5. \A p \in Pages(N) : IsLeaf(pg[p]) => p \in T0 /\ level[p] = 0
    BY DEF Shape, GoodLeaf
  <1>6. \A p \in T0 : IsLeaf(pg[p]) => region[p] \subseteq region0[p]
    <2> TAKE p \in T0
    <2>1. CASE p # x
      BY <1>4, <1>5, <2>1 DEF LeafNarrowed
    <2>2. CASE p = x /\ num \notin T
      BY <1>4, <2>2 DEF LeafNarrowed
    <2>3. CASE p = x /\ num \in T
      BY <1>4, <2>3 DEF LeafNarrowed, Less
    <2> QED
      BY <2>1, <2>2, <2>3
  <1>7. SUFFICES ASSUME NEW p \in T, IsLeaf(q[p]), q[p].next # 0
                 PROVE  /\ q[p].next \in T /\ IsLeaf(q[q[p].next])
                        /\ \A a \in region[p] : \A b \in region[q[p].next] : a < b
    BY <1>2 DEF Following
  <1>8. IsLeaf(o.pg[p]) /\ q[p].next = o.pg[p].next /\ p \in Pages(N)
    BY <1>3, <1>4, <1>7
  <1>9. ASSUME NEW c \in T0, IsLeaf(pg[c]), c # num,
               \A d \in Pages(N) : d # x /\ d # num => o.pg[d] = pg[d]
        PROVE  c \in T /\ IsLeaf(q[c]) /\ region[c] \subseteq region0[c]
    <2>1. IsLeaf(o.pg[c])
      <3>1. CASE c = x
        BY <1>1, <3>1 DEF LeafPut
      <3>2. CASE c # x
        BY <1>4, <1>9, <3>2
      <3> QED
        BY <3>1, <3>2
    <2> QED
      BY <1>3, <1>4, <1>6, <1>9, <2>1
  <1>10. ASSUME NEW z \in T0, IsLeaf(pg[z]), pg[z].next = q[p].next,
                \A d \in Pages(N) : d # x /\ d # num => o.pg[d] = pg[d],
                q[p].next # num, region[p] \subseteq region0[z]
         PROVE  /\ q[p].next \in T /\ IsLeaf(q[q[p].next])
                /\ \A a \in region[p] : \A b \in region[q[p].next] : a < b
    <2>1. PICK c : c = q[p].next
      OBVIOUS
    <2>2. /\ c \in T0 /\ IsLeaf(pg[c])
          /\ \A a \in region0[z] : \A b \in region0[c] : a < b
      BY <1>7, <1>10, <2>1 DEF Following
    <2>3. c \in T /\ IsLeaf(q[c]) /\ region[c] \subseteq region0[c]
      BY <1>9, <1>10, <2>1, <2>2
    <2> QED
      BY <1>10, <2>1, <2>2, <2>3
  <1>11. \A d \in Pages(N) : IsLeaf(pg[d]) => d # num
    <2> SUFFICES ASSUME NEW d \in Pages(N), IsLeaf(pg[d]) PROVE d # num
      OBVIOUS
    <2>1. NodeAt(pg, d)
      BY DEF NodeAt
    <2>2. d < num
      BY <2>1, Kinds
    <2>3. d \in Nat /\ num \in Nat /\ N \in Nat
      BY DEF Shape, Pages
    <2> QED
      BY <2>2, <2>3
  <1>12. CASE ~o.split.did_split
    <2>1. /\ \A d \in Pages(N) : d # x => o.pg[d] = pg[d]
          /\ o.pg[x].next = pg[x].next
      BY <1>1, <1>12 DEF LeafPut
    <2>2. IsLeaf(pg[p]) /\ pg[p].next = q[p].next /\ p \in T0
      BY <1>5, <1>8, <2>1
    <2>3. q[p].next # num
      BY <1>4, <1>7, <1>11, <2>2 DEF Following
    <2> QED
      BY <1>6, <1>10, <2>1, <2>2, <2>3
  <1>13. CASE o.split.did_split
    <2>1. /\ num \in Pages(N) /\ num # x
          /\ \A d \in Pages(N) : d # x /\ d # num => o.pg[d] = pg[d]
          /\ o.pg[x].next = num /\ IsLeaf(o.pg[num]) /\ o.pg[num].next = pg[x].next
      BY <1>1, <1>13 DEF LeafPut
    <2>2. IsLeaf(q[num]) /\ num \in T
      BY <1>2, <1>3, <2>1
    <2>3. PICK s \in Nat : /\ region[x] = Less(region0[x], s)
                           /\ region[num] = AtLeast(region0[x], s)
      BY <1>4, <2>2 DEF LeafNarrowed
    <2>4. CASE p = x
      <3>1. region0[x] \subseteq Nat
        BY <1>4 DEF SearchTree, Grove
      <3>2. q[p].next = num
        BY <1>8, <2>1, <2>4
      <3>3. ASSUME NEW a \in region[x], NEW b \in region[num] PROVE a < b
        <4>1. a \in Nat /\ b \in Nat /\ a < s /\ s <= b
          BY <2>3, <3>1, <3>3 DEF Less, AtLeast
        <4> QED
          BY <4>1
      <3> QED
        BY <2>2, <2>4, <3>2, <3>3
    <2>5. CASE p = num
      <3>1. pg[x].next = q[p].next
        BY <1>8, <2>1, <2>5
      <3>2. q[p].next # num
        BY <1>4, <1>7, <1>11, <3>1 DEF Following
      <3>3. region[p] \subseteq region0[x]
        BY <2>3, <2>5 DEF AtLeast
      <3> QED
        BY <1>4, <1>10, <2>1, <3>1, <3>2, <3>3
    <2>6. CASE p # x /\ p # num
      <3>1. IsLeaf(pg[p]) /\ pg[p].next = q[p].next /\ p \in T0
        BY <1>5, <1>8, <2>1, <2>6
      <3>2. q[p].next # num
        BY <1>4, <1>7, <1>11, <3>1 DEF Following
      <3> QED
        BY <1>6, <1>10, <2>1, <3>1, <3>2
    <2> QED
      BY <2>4, <2>5, <2>6
  <1> QED
    BY <1>12, <1>13

\* The regions rise along the chain.
LEMMA RegionsRise ==
    ASSUME NEW pg, NEW N, NEW s, Links(s, pg, N),
           NEW T, NEW region, Following(pg, T, region), 0 \notin T,
           \A p \in T : region[p] \subseteq Nat /\ region[p] # {},
           \A i \in 1 .. Len(s) : s[i] \in T,
           NEW i \in 1 .. Len(s), NEW j \in 1 .. Len(s), i < j
    PROVE  \A a \in region[s[i]] : \A b \in region[s[j]] : a < b
  <1>1. PICK n : n = Len(s)
    OBVIOUS
  <1>2. n \in Nat /\ i \in Nat /\ j \in Nat
    BY <1>1 DEF Links
  <1>3. ASSUME NEW k \in 1 .. n, k + 1 \in 1 .. n
        PROVE  \A a \in region[s[k]] : \A b \in region[s[k + 1]] : a < b
    <2>1. pg[s[k]].next = s[k + 1] /\ IsLeaf(pg[s[k]])
      <3>1. k # n
        BY <1>2, <1>3
      <3> QED
        BY <1>1, <3>1 DEF Links
    <2>2. s[k] \in T /\ s[k + 1] \in T /\ s[k + 1] # 0
      BY <1>1, <1>3
    <2> QED
      BY <2>1, <2>2 DEF Following
  <1> DEFINE S == {k \in Nat : i + k + 1 <= n =>
                     \A a \in region[s[i]] : \A b \in region[s[i + k + 1]] : a < b}
  <1>4. 0 \in S
    <2>1. i + 0 + 1 = i + 1 /\ i \in 1 .. n
      BY <1>1, <1>2
    <2>2. i + 1 <= n => i + 1 \in 1 .. n
      BY <1>2
    <2> QED
      BY <1>3, <2>1, <2>2
  <1>5. ASSUME NEW k \in Nat, k \in S PROVE k + 1 \in S
    <2> SUFFICES ASSUME i + (k + 1) + 1 <= n,
                        NEW a \in region[s[i]], NEW b \in region[s[i + (k + 1) + 1]]
                 PROVE  a < b
      OBVIOUS
    <2>1. PICK m : m = i + k + 1
      OBVIOUS
    <2>2. m \in 1 .. n /\ m + 1 \in 1 .. n /\ i + (k + 1) + 1 = m + 1 /\ m <= n
      BY <1>2, <2>1
    <2>3. s[i] \in T /\ s[m] \in T /\ s[m + 1] \in T
      BY <1>1, <2>2
    <2>4. PICK c \in region[s[m]] : c \in Nat
      BY <2>3
    <2>5. a < c
      BY <1>5, <2>1, <2>2, <2>4
    <2>6. c < b
      BY <1>3, <2>2, <2>4
    <2>7. a \in Nat /\ b \in Nat
      BY <2>2, <2>3
    <2> QED
      BY <2>4, <2>5, <2>6, <2>7
  <1> HIDE DEF S
  <1>6. PICK k : k = j - i - 1
    OBVIOUS
  <1>7. k \in Nat /\ i + k + 1 = j /\ j <= n
    BY <1>1, <1>2, <1>6
  <1>8. k \in S
    BY <1>4, <1>5, <1>7, Induction
  <1> QED
    BY <1>7, <1>8 DEF S

-----------------------------------------------------------------------------
(* What a range query returns *)

StopsAt(stop, cells, hi) ==
    /\ stop \in 1 .. Len(cells) + 1
    /\ stop \in DOMAIN cells => cells[stop].key > hi
    /\ \A j \in 1 .. stop - 1 : cells[j].key <= hi

FromBound(cells, stop, lo) == {i \in 1 .. stop - 1 : cells[i].key >= lo}

\* Every bound stops a range query: at the first key above it, or at the end.
LEMMA StopExists ==
    ASSUME NEW V, NEW cells \in Seq(Cell(V)), NEW hi \in Nat
    PROVE  \E i : StopsAt(i, cells, hi)
  <1>1. PICK n : n = Len(cells)
    OBVIOUS
  <1>2. /\ n \in Nat /\ DOMAIN cells = 1 .. n
        /\ \A i \in 1 .. n : cells[i].key \in Nat
    BY <1>1, CellKeys
  <1> DEFINE S == {i \in Nat : i >= 1 /\ i <= n + 1 /\ (i \in 1 .. n => cells[i].key > hi)}
  <1>3. PICK m \in S : \A k \in S : m <= k
    <2>1. n + 1 \in S
      BY <1>2
    <2> HIDE DEF S
    <2>2. S \subseteq Nat
      BY DEF S
    <2> QED
      BY <2>1, <2>2, Least
  <1>4. ASSUME NEW j \in 1 .. m - 1 PROVE cells[j].key <= hi
    <2>1. m \in Nat /\ m <= n + 1 /\ j \in 1 .. n /\ j < m /\ j \in Nat /\ j <= n + 1
      BY <1>2, <1>3
    <2>2. j \notin S
      <3>1. j \in S => m <= j
        BY <1>3
      <3> QED
        BY <2>1, <3>1
    <2>3. ~(cells[j].key > hi)
      BY <2>1, <2>2
    <2>4. cells[j].key \in Nat
      BY <1>2, <2>1
    <2> QED
      BY <2>3, <2>4
  <1>5. /\ m \in 1 .. n + 1 /\ (m \in DOMAIN cells => cells[m].key > hi)
        /\ \A j \in 1 .. m - 1 : cells[j].key <= hi
    BY <1>2, <1>3, <1>4
  <1> HIDE DEF S
  <1>6. StopsAt(m, cells, hi)
    BY <1>1, <1>5 DEF StopsAt
  <1> QED
    BY <1>6

\* Of cells in order, the query stops at the first one above hi and keeps the ones
\* from lo on: those within the bounds.
LEMMA WithinIs ==
    ASSUME NEW V, NEW cells \in Seq(Cell(V)), InOrder(cells), NEW lo \in Nat, NEW hi \in Nat,
           NEW stop, StopsAt(stop, cells, hi),
           NEW t, t = Picked(cells, FromBound(cells, stop, lo))
    PROVE  /\ t \in Seq(Cell(V)) /\ InOrder(t)
           /\ \A c : c \in CellSet(t) <=> c \in CellSet(cells) /\ c.key \in lo .. hi
  <1>1. PICK n, places : n = Len(cells) /\ places = FromBound(cells, stop, lo)
    OBVIOUS
  <1>2. /\ n \in Nat /\ DOMAIN cells = 1 .. n
        /\ \A i \in 1 .. n : cells[i].key \in Nat
        /\ \A i, j \in 1 .. n : i < j => cells[i].key < cells[j].key
    BY <1>1, CellKeys DEF InOrder
  <1>5. /\ stop \in 1 .. n + 1 /\ (stop \in 1 .. n => cells[stop].key > hi)
        /\ \A j \in 1 .. stop - 1 : cells[j].key <= hi
    BY <1>1, <1>2 DEF StopsAt
  <1>6. ASSUME NEW i \in 1 .. n
        PROVE  i \in places <=> cells[i].key \in lo .. hi
    <2>1. cells[i].key \in Nat /\ stop \in Nat /\ i \in Nat
      BY <1>2, <1>5
    <2>2. CASE i < stop
      <3>1. i \in 1 .. stop - 1
        BY <1>6, <2>1, <2>2
      <3>2. cells[i].key <= hi
        BY <1>5, <3>1
      <3> QED
        BY <1>1, <2>1, <3>1, <3>2 DEF FromBound
    <2>3. CASE i >= stop
      <3>1. i \notin places
        BY <1>1, <2>1, <2>3 DEF FromBound
      <3>2. stop \in 1 .. n /\ cells[stop].key \in Nat /\ cells[stop].key > hi
        BY <1>2, <1>5, <1>6, <2>1, <2>3
      <3>3. cells[stop].key <= cells[i].key
        <4>1. CASE stop = i
          BY <2>1, <4>1
        <4>2. CASE stop < i
          <5>1. cells[stop].key < cells[i].key
            BY <1>2, <1>6, <3>2, <4>2
          <5> QED
            BY <2>1, <3>2, <5>1
        <4> QED
          BY <2>1, <2>3, <4>1, <4>2
      <3>4. cells[i].key \notin lo .. hi
        <4>1. PICK a, b : a = cells[stop].key /\ b = cells[i].key
          OBVIOUS
        <4>2. a \in Nat /\ b \in Nat /\ a > hi /\ a <= b
          BY <2>1, <3>2, <3>3, <4>1
        <4>3. b \notin lo .. hi
          BY <4>2
        <4> QED
          BY <4>1, <4>3
      <3> QED
        BY <3>1, <3>4
    <2> QED
      BY <2>1, <2>2, <2>3
  <1>7. /\ t \in Seq(Cell(V)) /\ InOrder(t)
        /\ \A c : c \in CellSet(t)
                    <=> \E i \in 1 .. Len(cells) : i \in places /\ c = cells[i]
    <2>1. \A i, j \in 1 .. Len(cells) :
             i \in places /\ j \in places /\ i < j => cells[i].key < cells[j].key
      BY <1>1, <1>2
    <2>2. t = Picked(cells, places)
      BY <1>1
    <2> QED
      BY <2>1, <2>2, PickedIs
  <1>8. ASSUME NEW c
        PROVE  c \in CellSet(t) <=> c \in CellSet(cells) /\ c.key \in lo .. hi
    <2>1. c \in CellSet(cells) <=> \E i \in 1 .. Len(cells) : c = cells[i]
      BY DEF CellSet
    <2> QED
      BY <1>1, <1>6, <1>7, <2>1
  <1> QED
    BY <1>7, <1>8

\* When every leaf is in the search tree and the chain follows its order, a range
\* query returns the entries within its bounds, in order.
LEMMA RangeIs ==
    ASSUME NEW pg, NEW N, NEW V, NEW num, NEW level, Shape(pg, N, V, num, level),
           0 \in Pages(N), Tidy(pg, N), NEW root \in Pages(N), NodeAt(pg, root),
           NEW T, NEW region, SearchTree(pg, N, level, root, T, region),
           \A p \in Pages(N) : IsLeaf(pg[p]) => p \in T, Following(pg, T, region),
           NEW s, Links(s, pg, N), LeavesIn(s, pg, N),
           NEW lo \in Nat, NEW hi \in Nat, NEW t, t = RangeCells(pg, root, lo, hi)
    PROVE  /\ t \in Seq(Cell(V)) /\ InOrder(t)
           /\ \A e : e \in CellSet(t) <=> e \in EntriesOf(pg, N) /\ e.key \in lo .. hi
  <1>1. PICK x \in T : /\ x = btree_find_leaf(pg, root, lo)
                       /\ IsLeaf(pg[x]) /\ lo \in region[x]
    BY SearchFinds
  <1>2. /\ T \subseteq Pages(N) /\ 0 \notin T
        /\ \A p \in T : region[p] \subseteq Nat /\ region[p] # {}
        /\ \A p \in T : p # 0 => Serves(pg[p], T, region, region[p])
    BY DEF SearchTree, Grove, Shape
  <1>3. /\ s \in Seq(Pages(N)) /\ Len(s) \in Nat
        /\ \A i \in 1 .. Len(s) : s[i] \in T /\ IsLeaf(pg[s[i]])
    BY DEF Links
  <1>4. PICK k \in 1 .. Len(s) : s[k] = x
    BY <1>1, <1>2 DEF LeavesIn
  <1>5. PICK u : /\ Links(u, pg, N) /\ Len(u) = Len(s) + 1 - k
                 /\ \A i \in 1 .. Len(u) : u[i] = s[k + i - 1]
    BY <1>3, LinksTail
  <1>6. PICK m : /\ m = Len(s) + 1 - k /\ Links(u, pg, N) /\ Len(u) = m
                 /\ \A i \in 1 .. m : u[i] = s[k + i - 1]
    BY <1>5
  <1>7. /\ u \in Seq(Pages(N)) /\ m \in Nat \ {0} /\ DOMAIN u = 1 .. m
        /\ \A i \in 1 .. m : u[i] \in Pages(N) /\ u[i] \in T /\ IsLeaf(pg[u[i]]) /\ u[i] # 0
    BY <1>2, <1>6 DEF Links
  <1>8. Chain(pg, x) = u
    <2>1. u[1] = x
      <3>1. 1 \in 1 .. m /\ k + 1 - 1 = k
        BY <1>4, <1>7
      <3> QED
        BY <1>4, <1>6, <3>1
    <2>2. N \in Nat /\ pg = [p \in Pages(N) |-> pg[p]] /\ ~IsLeaf(pg[0])
      BY DEF Shape, NodeAt
    <2>3. Links(u, pg, N)
      BY <1>6
    <2> QED
      BY <2>1, <2>2, <2>3, ChainWalks
  <1>9. PICK seqs : seqs = [i \in 1 .. m |-> pg[u[i]].cells]
    OBVIOUS
  <1>10. /\ seqs \in Seq(Seq(Cell(V))) /\ Len(seqs) = m
         /\ \A i \in 1 .. m : seqs[i] = pg[u[i]].cells /\ CellSet(seqs[i]) = CellsAt(pg, u[i])
    <2>1. ASSUME NEW i \in 1 .. m PROVE pg[u[i]].cells \in Seq(Cell(V))
      <3>1. GoodLeaf(pg[u[i]], V, level[u[i]])
        BY <1>7 DEF Shape
      <3> QED
        BY <3>1, LeafNode
    <2>2. \A i \in 1 .. m : CellSet(pg[u[i]].cells) = CellsAt(pg, u[i])
      BY <1>7 DEF CellsAt
    <2> QED
      BY <1>7, <1>9, <2>1, <2>2
  <1>11. PICK cells : cells = FlattenSeq(seqs)
    OBVIOUS
  <1>12. ChainCells(pg, x) = cells
    BY <1>7, <1>8, <1>9, <1>11 DEF ChainCells, Once
  <1>13. SeqsRise(seqs)
    <2>1. ASSUME NEW i \in 1 .. m PROVE InOrder(seqs[i])
      BY <1>7, <1>10 DEF Tidy
    <2>2. ASSUME NEW i \in 1 .. m, NEW j \in 1 .. m, i < j,
                 NEW c \in CellSet(seqs[i]), NEW d \in CellSet(seqs[j])
          PROVE  c.key < d.key
      <3>1. c.key \in region[u[i]] /\ d.key \in region[u[j]]
        <4>1. ASSUME NEW h \in 1 .. m, NEW e \in CellSet(seqs[h]) PROVE e.key \in region[u[h]]
          BY <1>2, <1>7, <1>10, <4>1 DEF Serves
        <4> QED
          BY <2>2, <4>1
      <3>2. \A a \in region[u[i]] : \A b \in region[u[j]] : a < b
        BY <1>2, <1>6, <1>7, <2>2, RegionsRise
      <3> QED
        BY <3>1, <3>2
    <2> QED
      BY <1>10, <2>1, <2>2 DEF SeqsRise
  <1>14. /\ cells \in Seq(Cell(V)) /\ InOrder(cells)
         /\ CellSet(cells) = CellsTo(seqs, m)
    BY <1>10, <1>11, <1>13, FlattenedIs
  <1>15. /\ t \in Seq(Cell(V)) /\ InOrder(t)
         /\ \A c : c \in CellSet(t) <=> c \in CellSet(cells) /\ c.key \in lo .. hi
    <2>1. PICK stop : stop = (CHOOSE i \in 1 .. Len(cells) + 1 :
                                 /\ i \in DOMAIN cells => cells[i].key > hi
                                 /\ \A j \in 1 .. i - 1 : cells[j].key <= hi)
      OBVIOUS
    <2>2. t = Picked(cells, FromBound(cells, stop, lo))
      BY <1>1, <1>12, <2>1 DEF RangeCells, Once, FromBound
    <2>3. StopsAt(stop, cells, hi)
      <3>1. PICK i : StopsAt(i, cells, hi)
        BY <1>14, StopExists
      <3> QED
        BY <2>1, <3>1 DEF StopsAt
    <2>4. cells \in Seq(Cell(V)) /\ InOrder(cells)
      BY <1>14
    <2> QED
      BY <2>2, <2>3, <2>4, WithinIs
  <1>16. ASSUME NEW p \in Pages(N), NEW c \in CellsAt(pg, p), c.key >= lo
         PROVE  c \in CellSet(cells)
    <2>1. IsLeaf(pg[p]) /\ p \in T /\ p # 0
      BY <1>2, <1>16 DEF CellsAt
    <2>2. PICK j \in 1 .. Len(s) : s[j] = p
      BY <2>1 DEF LeavesIn
    <2>3. c.key \in region[p] /\ c.key \in Nat
      BY <1>2, <1>16, <2>1 DEF CellsAt, Serves
    <2>4. ~(j < k)
      <3> SUFFICES ASSUME j < k PROVE FALSE
        OBVIOUS
      <3>1. \A a \in region[s[j]] : \A b \in region[s[k]] : a < b
        BY <1>2, <1>3, RegionsRise
      <3>2. c.key < lo
        BY <1>1, <1>4, <2>2, <2>3, <3>1
      <3> QED
        BY <1>16, <2>3, <3>2
    <2>5. PICK i : i = j - k + 1
      OBVIOUS
    <2>6. i \in 1 .. m /\ k + i - 1 = j
      BY <1>3, <1>6, <2>4, <2>5
    <2>7. u[i] = p
      BY <1>6, <2>2, <2>6
    <2>8. c \in CellSet(seqs[i])
      BY <1>10, <1>16, <2>6, <2>7
    <2> QED
      BY <1>14, <2>6, <2>8 DEF CellsTo
  <1>17. ASSUME NEW c \in CellSet(cells) PROVE \E p \in Pages(N) : c \in CellsAt(pg, p)
    <2>1. PICK i \in 1 .. m : c \in CellSet(seqs[i])
      BY <1>14, <1>17 DEF CellsTo
    <2> QED
      BY <1>7, <1>10, <2>1
  <1>18. ASSUME NEW e, e.key \in lo .. hi
         PROVE  e \in CellSet(cells) <=> e \in EntriesOf(pg, N)
    <2>1. e \in EntriesOf(pg, N) <=> \E p \in Pages(N) : e \in CellsAt(pg, p)
      BY DEF EntriesOf
    <2>2. e.key >= lo
      BY <1>18
    <2> QED
      BY <1>16, <1>17, <2>1, <2>2
  <1> QED
    BY <1>15, <1>18

-----------------------------------------------------------------------------
(* Descents in a file that holds more than the index *)

\* The nodes of T, among the first N pages, hold cells of G and pointers to pages
\* of P; the pages of P outside T are no nodes.
NetNode(node, P, G) ==
    \/ node \in [type : {"leaf"}, cells : Seq(G), next : P]
    \/ node \in InnerNodes(P) /\ Len(node.keys) <= INTERNAL_NODE_MAX_KEYS

Net(pg, N, T, P, G) ==
    /\ N \in Nat
    /\ pg = [p \in Pages(N) |-> pg[p]]
    /\ 0 \in P /\ T \subseteq P /\ P \subseteq Pages(N)
    /\ \A p \in T : NetNode(pg[p], P, G)
    /\ \A p \in P : NodeAt(pg, p) => p \in T

LEMMA NetNodeIs ==
    ASSUME NEW P, NEW G, NEW node, NetNode(node, P, G)
    PROVE  /\ IsLeaf(node) \/ IsInternal(node)
           /\ IsLeaf(node) => /\ node.cells \in Seq(G) /\ node.next \in P
                              /\ node = Leaf(node.cells, node.next) /\ ~IsInternal(node)
           /\ IsInternal(node) => /\ node \in InnerNodes(P) /\ ~IsLeaf(node)
                                  /\ Len(node.keys) <= INTERNAL_NODE_MAX_KEYS
  <1>1. CASE node \in [type : {"leaf"}, cells : Seq(G), next : P]
    BY <1>1 DEF IsLeaf, IsInternal, Leaf
  <1>2. CASE node \in InnerNodes(P) /\ Len(node.keys) <= INTERNAL_NODE_MAX_KEYS
    BY <1>2 DEF IsLeaf, IsInternal, InnerNodes
  <1> QED
    BY <1>1, <1>2 DEF NetNode

\* A descent in such a net: inner nodes of it, and then its end.
NetPath(path, pg, T, P, root, key) ==
    /\ path \in Seq(P) /\ Len(path) \in Nat \ {0} /\ path[1] = root
    /\ \A d \in 1 .. Len(path) :
          d # Len(path) => path[d] \in T /\ IsInternal(pg[path[d]])
    /\ btree_find_leaf(pg, root, key) = path[Len(path)]
    /\ IsLeaf(pg[path[Len(path)]]) => path[Len(path)] \in T
    /\ DescentDefined(pg, root, key) <=> IsLeaf(pg[path[Len(path)]])

\* The walk of a descent stays in the net's pages.
LEMMA NetWalk ==
    ASSUME NEW pg, NEW N, NEW T, NEW P, NEW G, Net(pg, N, T, P, G),
           NEW root \in T, NEW key,
           NEW w, w = Walk(pg, root, StepFrom(pg, key))
    PROVE  /\ IsWalk(w, root, StepFrom(pg, key), N)
           /\ \A d \in 1 .. N : w[d] \in P
           /\ \A p \in P : /\ IsInternal(pg[p]) => p \in T
                           /\ ~IsInternal(pg[p]) => StepFrom(pg, key)[p] = p
  <1> DEFINE next == StepFrom(pg, key)
  <1>1. /\ N \in Nat \ {0} /\ DOMAIN pg = Pages(N) /\ P \subseteq Pages(N) /\ T \subseteq P
        /\ root \in P
    BY DEF Net, Pages
  <1>2. Cardinality(DOMAIN pg) = N
    BY <1>1, PageCount
  <1>4. IsWalk(w, root, next, N)
    BY <1>1, <1>2, WalkIs
  <1>5. ASSUME NEW p \in P
        PROVE  /\ next[p] \in P
               /\ IsInternal(pg[p]) => p \in T
               /\ ~IsInternal(pg[p]) => next[p] = p
    <2>1. CASE IsInternal(pg[p])
      <3>1. p \in T /\ NetNode(pg[p], P, G)
        BY <2>1 DEF Net, NodeAt
      <3>2. pg[p] \in InnerNodes(P) /\ Len(pg[p].keys) <= INTERNAL_NODE_MAX_KEYS
        BY <2>1, <3>1, NetNodeIs
      <3>3. internal_find_child(pg[p], key) \in P
        BY <3>2, FindChild
      <3> QED
        BY <1>1, <2>1, <3>1, <3>3 DEF StepFrom
    <2>2. CASE ~IsInternal(pg[p])
      BY <1>1, <2>2 DEF StepFrom
    <2> QED
      BY <2>1, <2>2
  <1> HIDE DEF next
  <1> DEFINE Good == {d \in Nat : d + 1 <= N => w[d + 1] \in P}
  <1>6. 0 \in Good
    BY <1>1, <1>4 DEF IsWalk
  <1>7. ASSUME NEW d \in Nat, d \in Good PROVE d + 1 \in Good
    <2> SUFFICES ASSUME d + 2 <= N PROVE w[d + 2] \in P
      OBVIOUS
    <2>1. w[d + 1] \in P
      BY <1>1, <1>7
    <2>2. d + 2 \in 1 .. N /\ d + 2 # 1 /\ (d + 2) - 1 = d + 1
      BY <1>1
    <2>3. w[d + 2] = next[w[d + 1]]
      BY <1>4, <2>2 DEF IsWalk
    <2> QED
      BY <1>5, <2>1, <2>3
  <1> HIDE DEF Good
  <1>8. ASSUME NEW d \in 1 .. N PROVE w[d] \in P
    <2>1. d - 1 \in Nat /\ (d - 1) + 1 = d
      BY <1>1
    <2>2. d - 1 \in Good
      BY <1>6, <1>7, <2>1, Induction
    <2> QED
      BY <1>1, <2>1, <2>2 DEF Good
  <1> QED
    BY <1>4, <1>5, <1>8 DEF next

LEMMA NetDescent ==
    ASSUME NEW pg, NEW N, NEW T, NEW P, NEW G, Net(pg, N, T, P, G),
           NEW root \in T, NEW key,
           NEW path, path = Path(pg, root, key)
    PROVE  NetPath(path, pg, T, P, root, key)
  <1> DEFINE next == StepFrom(pg, key)
  <1>1. N \in Nat \ {0} /\ DOMAIN pg = Pages(N) /\ P \subseteq Pages(N) /\ T \subseteq P
    BY DEF Net, Pages
  <1>3. PICK w : w = Walk(pg, root, next)
    OBVIOUS
  <1>4. IsWalk(w, root, next, N)
    BY <1>3, NetWalk
  <1>5. ASSUME NEW p \in P
        PROVE  /\ IsInternal(pg[p]) => p \in T
               /\ ~IsInternal(pg[p]) => next[p] = p
    BY <1>3, NetWalk
  <1>8. ASSUME NEW d \in 1 .. N PROVE w[d] \in P
    BY <1>3, NetWalk
  <1> HIDE DEF next
  <1>9. DOMAIN w = 1 .. N /\ w[1] = root
    BY <1>1, <1>4 DEF IsWalk
  <1> DEFINE S == {d \in DOMAIN w : d + 1 \in DOMAIN w /\ IsInternal(pg[w[d]])}
  <1>10. \A j \in S : \A i \in 1 .. j : i \in S
    <2> SUFFICES ASSUME NEW j \in S, NEW i \in 1 .. j, i \notin S PROVE FALSE
      OBVIOUS
    <2> DEFINE R == {d \in S : d >= i}
    <2>1. R \subseteq Nat /\ j \in R
      BY <1>1, <1>9
    <2>2. PICK r \in R : \A d \in R : r <= d
      <3> HIDE DEF R
      <3> QED
        BY <2>1, Least
    <2>3. r \in 1 .. N /\ r \in S /\ r > i /\ i \in 1 .. N /\ r + 1 \in 1 .. N
      BY <1>1, <1>9, <2>2
    <2>4. PICK q : q = r - 1
      OBVIOUS
    <2>5. q \in 1 .. N /\ q + 1 \in 1 .. N /\ q >= i /\ q < r /\ r # 1
      BY <1>1, <2>3, <2>4
    <2>6. q \notin S
      <3>1. q \notin R
        <4> HIDE DEF R
        <4> QED
          BY <1>1, <2>2, <2>3, <2>5
      <3> HIDE DEF S
      <3> QED
        BY <2>5, <3>1
    <2>7. ~IsInternal(pg[w[q]]) /\ w[q] \in P
      <3>1. w[q] \in P /\ q \in DOMAIN w /\ q + 1 \in DOMAIN w
        BY <1>8, <1>9, <2>5
      <3> QED
        BY <2>6, <3>1
    <2>8. w[r] = next[w[q]]
      BY <1>4, <2>3, <2>4, <2>5 DEF IsWalk
    <2>9. w[r] = w[q]
      BY <1>5, <2>7, <2>8
    <2> QED
      BY <2>3, <2>7, <2>9
  <1>11. S \subseteq 1 .. N
    BY <1>9
  <1>12. path = SubSeq(w, 1, 1 + Cardinality(S))
    BY <1>3 DEF Path, Once, StepFrom, next
  <1>13. \A d \in S : d + 1 \in 1 .. N /\ IsInternal(pg[w[d]])
    BY <1>9
  <1> HIDE DEF S
  <1>14. PICK m : m = Cardinality(S)
    OBVIOUS
  <1>15. m \in 0 .. N /\ S = 1 .. m
    BY <1>1, <1>10, <1>11, <1>14, Prefix
  <1>16. PICK z : z = 1 + m
    OBVIOUS
  <1>17. z \in 1 .. N /\ \A d \in 1 .. z : d # z => d \in S
    BY <1>1, <1>13, <1>15, <1>16
  <1>18. /\ path \in Seq(P) /\ Len(path) = z
         /\ \A d \in 1 .. z : path[d] = w[d]
    <2>1. w \in Seq(P) /\ Len(w) = N
      <3>1. w \in [1 .. N -> P]
        BY <1>4, <1>8 DEF IsWalk
      <3> QED
        BY <1>1, <3>1
    <2>2. path = SubSeq(w, 1, z)
      BY <1>12, <1>14, <1>16
    <2>3. /\ path \in Seq(P) /\ Len(path) = z + 1 - 1
          /\ \A d \in 1 .. z + 1 - 1 : path[d] = w[1 + d - 1]
      BY <1>1, <1>17, <2>1, <2>2, PartOf
    <2> QED
      BY <1>17, <2>3
  <1>19. btree_find_leaf(pg, root, key) = path[z]
    BY <1>18 DEF btree_find_leaf, Last
  <1>20. ASSUME NEW d \in 1 .. z, d # z
         PROVE  path[d] \in T /\ IsInternal(pg[path[d]])
    <2>1. d \in S /\ d \in 1 .. N /\ path[d] = w[d]
      BY <1>1, <1>17, <1>18, <1>20
    <2>2. IsInternal(pg[w[d]]) /\ w[d] \in P
      BY <1>8, <1>13, <2>1
    <2> QED
      BY <1>5, <2>1, <2>2
  <1>21. path[z] \in P /\ z \in Nat \ {0}
    BY <1>8, <1>17, <1>18
  <1>22. IsLeaf(pg[path[z]]) => path[z] \in T
    BY <1>21 DEF Net, NodeAt
  <1>23. DescentDefined(pg, root, key) <=> IsLeaf(pg[path[z]])
    BY <1>1, <1>19, <1>21 DEF DescentDefined
  <1>24. path[1] = root
    BY <1>9, <1>17, <1>18
  <1> QED
    BY <1>18, <1>19, <1>20, <1>21, <1>22, <1>23, <1>24 DEF NetPath

-----------------------------------------------------------------------------
(* Insertions in such a net *)

Bare(node) == IsLeaf(node) /\ node.cells = << >>

\* The leaves of T lead to leaves of T.
Linked(pg, T) ==
    \A p \in T : IsLeaf(pg[p]) =>
        \/ pg[p].next = 0
        \/ pg[p].next \in T /\ IsLeaf(pg[pg[p].next])

\* The pages q, of which n are in use, are the net of pg with the new pages in it.
\* No leaf was made empty, and no page outside the net was written.
Rewoven(q, n, pg, N, T, P, G, num) ==
    /\ Net(q, N, T \cup num .. n - 1, P \cup num .. n - 1, G)
    /\ \A p \in T : IsLeaf(q[p]) <=> IsLeaf(pg[p])
    /\ \A p \in Pages(N) : p \notin T /\ p \notin num .. n - 1 => q[p] = pg[p]
    /\ \A p \in Pages(N) : q[p] = pg[p] \/ ~Bare(q[p])
    /\ Linked(pg, T) => Linked(q, T \cup num .. n - 1)

\* What came of an insertion at a node of the net.
NetOut(o, pg, N, T, P, G, num) ==
    /\ o.num_pages \in Nat /\ num <= o.num_pages
    /\ o.split.did_split \in BOOLEAN
    /\ o.split.did_split => o.split.new_page \in num .. o.num_pages - 1
    /\ o.num_pages <= N =>
          /\ Rewoven(o.pg, o.num_pages, pg, N, T, P, G, num)
          /\ o.split.did_split => o.split.key \in Nat

\* num pages are in use, and the net is among them.
InUse(T, N, num) == num \in Nat /\ num >= 1 /\ T \subseteq 0 .. num - 1

LEMMA NetNodeMore ==
    ASSUME NEW P, NEW Q, P \subseteq Q, NEW G, NEW node, NetNode(node, P, G)
    PROVE  NetNode(node, Q, G)
  <1>1. CASE node \in [type : {"leaf"}, cells : Seq(G), next : P]
    <2>1. node \in [type : {"leaf"}, cells : Seq(G), next : Q]
      BY <1>1
    <2> QED
      BY <2>1 DEF NetNode
  <1>2. CASE node \in InnerNodes(P) /\ Len(node.keys) <= INTERNAL_NODE_MAX_KEYS
    BY <1>2, InnerNodesGrow DEF NetNode
  <1> QED
    BY <1>1, <1>2 DEF NetNode

\* A node of the net is written again.
LEMMA NetOne ==
    ASSUME NEW pg, NEW N, NEW T, NEW P, NEW G, Net(pg, N, T, P, G),
           NEW num, InUse(T, N, num), NEW x \in T,
           NEW node, NetNode(node, P, G), IsLeaf(node) <=> IsLeaf(pg[x]), ~Bare(node),
           IsLeaf(node) => node.next = pg[x].next,
           NEW q, q = Put(pg, x, node)
    PROVE  Rewoven(q, num, pg, N, T, P, G, num)
  <1>1. x \in Pages(N) /\ N \in Nat /\ num .. num - 1 = {}
    BY DEF Net, InUse
  <1>2. q = [p \in Pages(N) |-> q[p]] /\ q[x] = node
        /\ \A p \in Pages(N) : p # x => q[p] = pg[p]
    BY <1>1, PutIs DEF Net
  <1>3. Net(q, N, T, P, G)
    BY <1>1, <1>2 DEF Net, NodeAt
  <1>4. T \cup num .. num - 1 = T /\ P \cup num .. num - 1 = P
    BY <1>1
  <1>5. T \subseteq Pages(N)
    BY DEF Net
  <1>6. Linked(pg, T) => Linked(q, T)
    BY <1>2, <1>5 DEF Linked
  <1> QED
    BY <1>2, <1>3, <1>4, <1>5, <1>6 DEF Rewoven

\* A node is written to a new page.
LEMMA NetAdd ==
    ASSUME NEW pg, NEW N, NEW T, NEW P, NEW G, Net(pg, N, T, P, G),
           NEW num, InUse(T, N, num), num < N,
           NEW node, NetNode(node, P, G), ~Bare(node), ~IsLeaf(node),
           NEW q, q = Put(pg, num, node)
    PROVE  Rewoven(q, num + 1, pg, N, T, P, G, num)
  <1>1. /\ N \in Nat /\ num .. (num + 1) - 1 = {num}
        /\ num \in Pages(N) /\ num \notin T
    BY DEF Net, InUse, Pages
  <1>2. q = [p \in Pages(N) |-> q[p]] /\ q[num] = node
        /\ \A p \in Pages(N) : p # num => q[p] = pg[p]
    BY <1>1, PutIs DEF Net
  <1>3. T \subseteq P /\ P \subseteq Pages(N) /\ 0 \in P
    BY DEF Net
  <1>4. \A p \in T \cup {num} : NetNode(q[p], P \cup {num}, G)
    <2>1. NetNode(node, P \cup {num}, G)
      BY NetNodeMore
    <2> SUFFICES ASSUME NEW p \in T PROVE NetNode(q[p], P \cup {num}, G)
      BY <1>2, <2>1
    <2>2. q[p] = pg[p] /\ NetNode(pg[p], P, G)
      BY <1>1, <1>2, <1>3 DEF Net
    <2> QED
      BY <2>2, NetNodeMore
  <1>5. Net(q, N, T \cup {num}, P \cup {num}, G)
    <2>1. \A p \in P \cup {num} : NodeAt(q, p) => p \in T \cup {num}
      BY <1>2, <1>3 DEF Net, NodeAt
    <2> QED
      BY <1>1, <1>2, <1>3, <1>4, <2>1 DEF Net
  <1>6. \A p \in T : IsLeaf(q[p]) <=> IsLeaf(pg[p])
    BY <1>1, <1>2, <1>3
  <1>7. \A p \in Pages(N) : p \notin T /\ p \notin {num} => q[p] = pg[p]
    BY <1>2
  <1>8. \A p \in Pages(N) : q[p] = pg[p] \/ ~Bare(q[p])
    BY <1>2
  <1>9. ASSUME Linked(pg, T) PROVE Linked(q, T \cup {num})
    <2>1. ASSUME NEW p \in T \cup {num}, IsLeaf(q[p])
          PROVE  q[p].next = 0 \/ (q[p].next \in T \cup {num} /\ IsLeaf(q[q[p].next]))
      <3>1. p \in T /\ q[p] = pg[p]
        BY <1>1, <1>2, <1>3, <2>1
      <3> QED
        BY <1>6, <1>9, <2>1, <3>1 DEF Linked
    <2> QED
      BY <2>1 DEF Linked
  <1> QED
    BY <1>1, <1>5, <1>6, <1>7, <1>8, <1>9 DEF Rewoven

\* A node of the net is written again, and another one to a new page.
LEMMA NetTwo ==
    ASSUME NEW pg, NEW N, NEW T, NEW P, NEW G, Net(pg, N, T, P, G),
           NEW num, InUse(T, N, num), num < N, NEW x \in T,
           NEW left, NetNode(left, P \cup {num}, G), IsLeaf(left) <=> IsLeaf(pg[x]),
           ~Bare(left),
           NEW right, NetNode(right, P \cup {num}, G), ~Bare(right),
           IsLeaf(left) => left.next = num /\ IsLeaf(right),
           IsLeaf(right) => right.next = pg[x].next /\ IsLeaf(pg[x]),
           NEW q, q = Put(Put(pg, x, left), num, right)
    PROVE  Rewoven(q, num + 1, pg, N, T, P, G, num)
  <1>1. /\ x \in Pages(N) /\ N \in Nat /\ num .. (num + 1) - 1 = {num}
        /\ num \in Pages(N) /\ num \notin T
    BY DEF Net, InUse, Pages
  <1>2. PICK r : r = Put(pg, x, left)
    OBVIOUS
  <1>3. r = [p \in Pages(N) |-> r[p]] /\ r[x] = left
        /\ \A p \in Pages(N) : p # x => r[p] = pg[p]
    BY <1>1, <1>2, PutIs DEF Net
  <1>4. q = [p \in Pages(N) |-> q[p]] /\ q[num] = right
        /\ \A p \in Pages(N) : p # num => q[p] = r[p]
    BY <1>1, <1>2, <1>3, PutIs
  <1>5. /\ q[x] = left
        /\ \A p \in Pages(N) : p # x /\ p # num => q[p] = pg[p]
    BY <1>1, <1>3, <1>4
  <1>6. T \subseteq P /\ P \subseteq Pages(N) /\ 0 \in P
    BY DEF Net
  <1>7. \A p \in T \cup {num} : NetNode(q[p], P \cup {num}, G)
    <2> SUFFICES ASSUME NEW p \in T, p # x PROVE NetNode(q[p], P \cup {num}, G)
      BY <1>4, <1>5
    <2>1. q[p] = pg[p] /\ NetNode(pg[p], P, G)
      BY <1>1, <1>5, <1>6 DEF Net
    <2> QED
      BY <2>1, NetNodeMore
  <1>8. Net(q, N, T \cup {num}, P \cup {num}, G)
    <2>1. \A p \in P \cup {num} : NodeAt(q, p) => p \in T \cup {num}
      BY <1>5, <1>6 DEF Net, NodeAt
    <2> QED
      BY <1>1, <1>4, <1>6, <1>7, <2>1 DEF Net
  <1>9. \A p \in T : IsLeaf(q[p]) <=> IsLeaf(pg[p])
    BY <1>1, <1>5, <1>6
  <1>10. \A p \in Pages(N) : p \notin T /\ p \notin {num} => q[p] = pg[p]
    BY <1>5
  <1>11. \A p \in Pages(N) : q[p] = pg[p] \/ ~Bare(q[p])
    BY <1>4, <1>5
  <1>12. ASSUME Linked(pg, T) PROVE Linked(q, T \cup {num})
    <2>1. ASSUME NEW c, c = 0 \/ (c \in T /\ IsLeaf(pg[c]))
          PROVE  c = 0 \/ (c \in T \cup {num} /\ IsLeaf(q[c]))
      BY <1>9, <2>1
    <2>2. ASSUME NEW p \in T \cup {num}, IsLeaf(q[p])
          PROVE  q[p].next = 0 \/ (q[p].next \in T \cup {num} /\ IsLeaf(q[q[p].next]))
      <3>1. CASE p = x
        BY <1>4, <1>5, <2>2, <3>1
      <3>2. CASE p = num
        BY <1>4, <1>12, <2>1, <2>2, <3>2 DEF Linked
      <3>3. CASE p # x /\ p # num
        <4>1. p \in T /\ q[p] = pg[p]
          BY <1>5, <1>6, <2>2, <3>3
        <4> QED
          BY <1>12, <2>1, <2>2, <4>1 DEF Linked
      <3> QED
        BY <3>1, <3>2, <3>3
    <2> QED
      BY <2>2 DEF Linked
  <1> QED
    BY <1>1, <1>8, <1>9, <1>10, <1>11, <1>12 DEF Rewoven

\* One change of a net after the other.
LEMMA RewovenThen ==
    ASSUME NEW pg, NEW N, NEW T, NEW P, NEW G, NEW num \in Nat,
           NEW q, NEW n \in Nat, num <= n, Rewoven(q, n, pg, N, T, P, G, num),
           NEW U, U = T \cup num .. n - 1, NEW Q, Q = P \cup num .. n - 1,
           NEW r, NEW m \in Nat, n <= m, Rewoven(r, m, q, N, U, Q, G, n)
    PROVE  Rewoven(r, m, pg, N, T, P, G, num)
  <1>1. num .. m - 1 = (num .. n - 1) \cup (n .. m - 1)
    OBVIOUS
  <1>2. /\ U \cup n .. m - 1 = T \cup num .. m - 1
        /\ Q \cup n .. m - 1 = P \cup num .. m - 1
    BY <1>1
  <1>3. Net(r, N, T \cup num .. m - 1, P \cup num .. m - 1, G)
    BY <1>2 DEF Rewoven
  <1>4. \A p \in T : IsLeaf(r[p]) <=> IsLeaf(pg[p])
    BY DEF Rewoven
  <1>5. \A p \in Pages(N) : p \notin T /\ p \notin num .. m - 1 => r[p] = pg[p]
    BY <1>1 DEF Rewoven
  <1>6. \A p \in Pages(N) : r[p] = pg[p] \/ ~Bare(r[p])
    BY DEF Rewoven
  <1>7. Linked(pg, T) => Linked(r, T \cup num .. m - 1)
    BY <1>2 DEF Rewoven
  <1> QED
    BY <1>3, <1>4, <1>5, <1>6, <1>7 DEF Rewoven

\* Cells that are all of G are a sequence of G.
LEMMA CellsOf ==
    ASSUME NEW A, NEW G, NEW t \in Seq(A), CellSet(t) \subseteq G
    PROVE  t \in Seq(G)
  <1>1. Len(t) \in Nat /\ t \in [1 .. Len(t) -> A]
    OBVIOUS
  <1>2. \A i \in 1 .. Len(t) : t[i] \in G
    BY DEF CellSet
  <1>3. t \in [1 .. Len(t) -> G]
    BY <1>1, <1>2
  <1> QED
    BY <1>1, <1>3

LEMMA NetLeaf ==
    ASSUME NEW P, NEW G, NEW cells \in Seq(G), NEW next \in P,
           NEW node, node = Leaf(cells, next)
    PROVE  /\ NetNode(node, P, G) /\ IsLeaf(node) /\ node.next = next
           /\ cells # << >> => ~Bare(node)
  BY DEF Leaf, NetNode, IsLeaf, Bare

LEMMA NetInner ==
    ASSUME NEW P, NEW G, NEW node \in InnerNodes(P),
           Len(node.keys) <= INTERNAL_NODE_MAX_KEYS
    PROVE  NetNode(node, P, G) /\ ~IsLeaf(node) /\ ~Bare(node)
  BY DEF InnerNodes, NetNode, IsLeaf, Bare

\* The insertion at the leaf.
LEMMA NetAtLeaf ==
    ASSUME NEW pg, NEW N, NEW T, NEW P, NEW V, NEW G, G \subseteq Cell(V),
           Net(pg, N, T, P, G), NEW num, InUse(T, N, num),
           NEW x \in T, IsLeaf(pg[x]),
           NEW key \in Nat, NEW value \in V, CellOf(key, value) \in G,
           NEW o, o = insert_at_leaf(pg, num, x, key, value)
    PROVE  NetOut(o, pg, N, T, P, G, num)
  <1>1. PICK cells, next : cells = pg[x].cells /\ next = pg[x].next
    OBVIOUS
  <1>2. /\ cells \in Seq(G) /\ next \in P /\ pg[x] = Leaf(cells, next)
        /\ Len(cells) \in Nat
    <2>1. NetNode(pg[x], P, G)
      BY DEF Net
    <2>2. cells \in Seq(G) /\ next \in P /\ pg[x] = Leaf(cells, next)
      BY <1>1, <2>1, NetNodeIs
    <2> QED
      BY <2>2
  <1>3. PICK all : all = leaf_insert(cells, key, value)
    OBVIOUS
  <1>4. all \in Seq(G) /\ Len(all) = Len(cells) + 1
    <2>1. cells \in Seq(Cell(V))
      BY <1>2
    <2>2. WithCell(all, cells, V, CellOf(key, value))
      BY <1>3, <2>1, InsertedCells
    <2>3. /\ all \in Seq(Cell(V)) /\ Len(all) = Len(cells) + 1
          /\ CellSet(all) = CellSet(cells) \cup {CellOf(key, value)}
      BY <2>2 DEF WithCell
    <2>4. CellSet(cells) \subseteq G
      BY <1>2 DEF CellSet
    <2> QED
      BY <2>3, <2>4, CellsOf
  <1>5. PICK h, left, right : /\ h = Half(Len(all))
                              /\ left = FirstPart(all, h) /\ right = LastPart(all, h)
    OBVIOUS
  <1>6. IF Len(cells) < LEAF_NODE_MAX_CELLS
        THEN One(o, pg, num, x, Leaf(all, next))
        ELSE Two(o, pg, num, x, Leaf(left, num), Leaf(right, next), right[1].key)
    BY <1>1, <1>2, <1>3, <1>5, LeafForms
  <1>7. num \in Nat
    BY DEF InUse
  <1>8. CASE Len(cells) < LEAF_NODE_MAX_CELLS
    <2>1. PICK node : node = Leaf(all, next)
      OBVIOUS
    <2>2. all # << >>
      BY <1>2, <1>4
    <2>3. NetNode(node, P, G) /\ IsLeaf(node) /\ ~Bare(node) /\ node.next = next
      BY <1>2, <1>4, <2>1, <2>2, NetLeaf
    <2>4. One(o, pg, num, x, node)
      BY <1>6, <1>8, <2>1
    <2>5. o.pg = Put(pg, x, node) /\ o.num_pages = num /\ o.split.did_split = FALSE
      BY <2>4 DEF One
    <2>6. Rewoven(o.pg, num, pg, N, T, P, G, num)
      BY <1>1, <2>3, <2>5, NetOne
    <2>7. o.num_pages \in Nat /\ num <= o.num_pages
      BY <1>7, <2>5
    <2>8. Rewoven(o.pg, o.num_pages, pg, N, T, P, G, num)
      BY <2>5, <2>6
    <2>9. o.split.did_split \in BOOLEAN /\ ~o.split.did_split
      BY <2>5
    <2> QED
      BY <2>7, <2>8, <2>9 DEF NetOut
  <1>9. CASE ~(Len(cells) < LEAF_NODE_MAX_CELLS)
    <2>1. PICK a, b : a = Leaf(left, num) /\ b = Leaf(right, next)
      OBVIOUS
    <2>2. Two(o, pg, num, x, a, b, right[1].key)
      BY <1>6, <1>9, <2>1
    <2>3. /\ o.pg = Put(Put(pg, x, a), num, b) /\ o.num_pages = num + 1
          /\ o.split.did_split = TRUE /\ o.split.key = right[1].key
          /\ o.split.new_page = num
      BY <2>2 DEF Two
    <2>4. Len(all) \in Nat /\ Len(all) >= 2
      BY <1>2, <1>4, <1>9, NodeAssumption
    <2>5. h \in Nat /\ h >= 1 /\ h < Len(all)
      BY <1>5, <2>4, HalfBound
    <2>6. /\ left \in Seq(G) /\ Len(left) = h
          /\ right \in Seq(G) /\ Len(right) = Len(all) - h
          /\ right[1] \in G
      BY <1>4, <1>5, <2>5, CutCells
    <2>7. left # << >> /\ right # << >> /\ right[1].key \in Nat
      <3>1. Len(left) # 0 /\ Len(right) # 0
        BY <2>4, <2>5, <2>6
      <3>2. right[1].key \in Nat
        BY <2>6 DEF Cell
      <3> QED
        BY <3>1, <3>2
    <2>8. num \in P \cup {num} /\ next \in P \cup {num}
      BY <1>2
    <2>9. /\ NetNode(a, P \cup {num}, G) /\ IsLeaf(a) /\ ~Bare(a) /\ a.next = num
          /\ NetNode(b, P \cup {num}, G) /\ IsLeaf(b) /\ ~Bare(b) /\ b.next = next
      <3>1. NetNode(a, P \cup {num}, G) /\ IsLeaf(a) /\ ~Bare(a)
        BY <2>1, <2>6, <2>7, <2>8, NetLeaf
      <3>2. NetNode(b, P \cup {num}, G) /\ IsLeaf(b) /\ ~Bare(b)
        BY <2>1, <2>6, <2>7, <2>8, NetLeaf
      <3>3. a.next = num /\ b.next = next
        BY <2>1 DEF Leaf
      <3> QED
        BY <3>1, <3>2, <3>3
    <2>10. ASSUME o.num_pages <= N
           PROVE  Rewoven(o.pg, o.num_pages, pg, N, T, P, G, num)
      <3>1. num < N
        BY <1>7, <2>3, <2>10 DEF Net
      <3> QED
        BY <1>1, <2>3, <2>9, <3>1, NetTwo
    <2>11. o.num_pages \in Nat /\ num <= o.num_pages /\ o.split.new_page \in num .. o.num_pages - 1
      BY <1>7, <2>3
    <2> QED
      BY <2>3, <2>7, <2>10, <2>11 DEF NetOut
  <1> QED
    BY <1>8, <1>9

\* The insertion at an internal node, after a split below.
LEMMA NetAbove ==
    ASSUME NEW below, NEW N, NEW T, NEW P, NEW G, NEW n1, n1 = below.num_pages,
           Net(below.pg, N, T, P, G), InUse(T, N, n1),
           below.split.did_split = TRUE, below.split.key \in Nat,
           below.split.new_page \in P,
           NEW x \in T, IsInternal(below.pg[x]),
           NEW o, o = insert_above(below, x)
    PROVE  NetOut(o, below.pg, N, T, P, G, n1)
  <1>1. PICK old, s, new : old = below.pg[x] /\ s = below.split.key /\ new = below.split.new_page
    OBVIOUS
  <1>2. /\ old \in InnerNodes(P) /\ Len(old.keys) <= INTERNAL_NODE_MAX_KEYS
        /\ ~IsLeaf(old)
    <2>1. NetNode(old, P, G)
      BY <1>1 DEF Net
    <2> QED
      BY <1>1, <2>1, NetNodeIs
  <1>3. PICK m : m = Separators(old, s)
    OBVIOUS
  <1>4. PICK node : node = internal_insert(old, s, new)
    OBVIOUS
  <1>5. node \in InnerNodes(P) /\ Len(node.keys) = Len(old.keys) + 1
    <2>1. node \in InnerNodes(P) /\ NodeWith(node, old, s, new, m)
      BY <1>1, <1>2, <1>3, <1>4, InsertedNode
    <2> QED
      BY <2>1 DEF NodeWith
  <1>6. Len(old.keys) \in Nat /\ Len(node.keys) \in Nat
    BY <1>2, <1>5, InnerParts
  <1>7. PICK mid : mid = MiddleKey(node)
    OBVIOUS
  <1>8. PICK left, right : /\ left = LeftHalf(node, mid)
                           /\ right = RightHalf(node, mid, Len(node.keys))
    OBVIOUS
  <1>9. IF Len(node.keys) > INTERNAL_NODE_MAX_KEYS
        THEN Two(o, below.pg, n1, x, left, right, node.keys[mid + 1])
        ELSE One(o, below.pg, n1, x, node)
    <2>1. below.pg = [p \in Pages(N) |-> below.pg[p]] /\ x \in Pages(N)
      BY DEF Net
    <2>2. Came(o, below, x, node, mid)
      BY <1>1, <1>4, <1>7, <2>1, AboveForms
    <2> QED
      BY <1>8, <2>2 DEF Came
  <1>10. n1 \in Nat
    BY DEF InUse
  <1>11. CASE ~(Len(node.keys) > INTERNAL_NODE_MAX_KEYS)
    <2>1. Len(node.keys) <= INTERNAL_NODE_MAX_KEYS
      BY <1>6, <1>11, NodeAssumption
    <2>2. NetNode(node, P, G) /\ ~IsLeaf(node) /\ ~Bare(node)
      BY <1>5, <2>1, NetInner
    <2>3. o.pg = Put(below.pg, x, node) /\ o.num_pages = n1 /\ o.split.did_split = FALSE
      BY <1>9, <1>11 DEF One
    <2>4. Rewoven(o.pg, n1, below.pg, N, T, P, G, n1)
      BY <1>1, <1>2, <2>2, <2>3, NetOne
    <2>5. o.num_pages \in Nat /\ n1 <= o.num_pages
      BY <1>10, <2>3
    <2>6. Rewoven(o.pg, o.num_pages, below.pg, N, T, P, G, n1)
      BY <2>3, <2>4
    <2>7. o.split.did_split \in BOOLEAN /\ ~o.split.did_split
      BY <2>3
    <2> QED
      BY <2>5, <2>6, <2>7 DEF NetOut
  <1>12. CASE Len(node.keys) > INTERNAL_NODE_MAX_KEYS
    <2>1. /\ Len(node.keys) = INTERNAL_NODE_MAX_KEYS + 1
          /\ mid \in Nat /\ mid >= 1 /\ mid < Len(node.keys)
      <3>1. Len(node.keys) = INTERNAL_NODE_MAX_KEYS + 1 /\ Len(node.keys) >= 2
        BY <1>2, <1>5, <1>6, <1>12, NodeAssumption
      <3>2. \A n \in Nat : n >= 2 => n \div 2 \in Nat /\ n \div 2 >= 1 /\ n \div 2 < n
        OBVIOUS
      <3> QED
        BY <1>6, <1>7, <3>1, <3>2 DEF MiddleKey
    <2>2. /\ left \in InnerNodes(P) /\ right \in InnerNodes(P)
          /\ HalfNodes(left, right, node, mid)
          /\ node.keys[mid + 1] \in Nat
      <3>1. 0 \in P
        BY DEF Net
      <3>2. Len(node.keys) <= INTERNAL_NODE_MAX_KEYS + 1
        BY <2>1, NodeAssumption
      <3> QED
        BY <1>5, <1>8, <2>1, <3>1, <3>2, SplitNode
    <2>3. Len(left.keys) <= INTERNAL_NODE_MAX_KEYS /\ Len(right.keys) <= INTERNAL_NODE_MAX_KEYS
      <3>1. Len(left.keys) = mid /\ Len(right.keys) = Len(node.keys) - mid - 1
        BY <2>2 DEF HalfNodes
      <3>2. PICK n : n = Len(node.keys)
        OBVIOUS
      <3>3. \A a, b, c \in Nat : a = c + 1 /\ b >= 1 /\ b < a => b <= c /\ a - b - 1 <= c
        OBVIOUS
      <3>4. /\ n \in Nat /\ mid \in Nat /\ INTERNAL_NODE_MAX_KEYS \in Nat
            /\ n = INTERNAL_NODE_MAX_KEYS + 1 /\ mid >= 1 /\ mid < n
        BY <1>6, <2>1, <3>2, NodeAssumption
      <3>5. mid <= INTERNAL_NODE_MAX_KEYS /\ n - mid - 1 <= INTERNAL_NODE_MAX_KEYS
        BY <3>3, <3>4
      <3> QED
        BY <3>1, <3>2, <3>5
    <2>4. /\ NetNode(left, P \cup {n1}, G) /\ ~IsLeaf(left) /\ ~Bare(left)
          /\ NetNode(right, P \cup {n1}, G) /\ ~IsLeaf(right) /\ ~Bare(right)
      <3>1. /\ NetNode(left, P, G) /\ ~IsLeaf(left) /\ ~Bare(left)
            /\ NetNode(right, P, G) /\ ~IsLeaf(right) /\ ~Bare(right)
        BY <2>2, <2>3, NetInner
      <3> QED
        BY <3>1, NetNodeMore
    <2>5. /\ o.pg = Put(Put(below.pg, x, left), n1, right) /\ o.num_pages = n1 + 1
          /\ o.split.did_split = TRUE /\ o.split.key = node.keys[mid + 1]
          /\ o.split.new_page = n1
      BY <1>9, <1>12 DEF Two
    <2>6. ASSUME o.num_pages <= N
          PROVE  Rewoven(o.pg, o.num_pages, below.pg, N, T, P, G, n1)
      <3>1. n1 < N
        BY <1>10, <2>5, <2>6 DEF Net
      <3> QED
        BY <1>1, <1>2, <2>4, <2>5, <3>1, NetTwo
    <2>7. o.num_pages \in Nat /\ n1 <= o.num_pages /\ o.split.new_page \in n1 .. o.num_pages - 1
      BY <1>10, <2>5
    <2> QED
      BY <2>2, <2>5, <2>6, <2>7 DEF NetOut
  <1> QED
    BY <1>11, <1>12

\* What came of an insertion, and then of what is done above it.
LEMMA NetOutThen ==
    ASSUME NEW pg, NEW N \in Nat, NEW T, NEW P, NEW G, NEW num, InUse(T, N, num),
           NEW below, NetOut(below, pg, N, T, P, G, num),
           NEW x \in T, IsInternal(pg[x]), ~IsLeaf(pg[x]),
           NEW o, o = insert_above(below, x)
    PROVE  NetOut(o, pg, N, T, P, G, num)
  <1>1. PICK n : n = below.num_pages
    OBVIOUS
  <1>2. n \in Nat /\ num \in Nat /\ num >= 1 /\ num <= n /\ below.split.did_split \in BOOLEAN
    BY <1>1 DEF NetOut, InUse
  <1>3. CASE ~below.split.did_split
    <2>1. o = below
      BY <1>2, <1>3, AboveCounts
    <2> QED
      BY <2>1
  <1>4. CASE below.split.did_split
    <2>1. /\ o.num_pages \in Nat /\ n <= o.num_pages
          /\ o.split.did_split \in BOOLEAN
          /\ o.split.did_split => o.split.new_page \in num .. o.num_pages - 1
      <3>1. \/ o.num_pages = below.num_pages /\ o.split.did_split = FALSE
            \/ /\ o.num_pages = below.num_pages + 1 /\ o.split.did_split = TRUE
               /\ o.split.new_page = below.num_pages
        BY <1>2, <1>4, AboveCounts
      <3>2. CASE o.num_pages = below.num_pages /\ o.split.did_split = FALSE
        <4>1. o.num_pages = n /\ ~o.split.did_split /\ o.split.did_split \in BOOLEAN
          BY <1>1, <3>2
        <4> QED
          BY <1>2, <4>1
      <3>3. CASE /\ o.num_pages = below.num_pages + 1 /\ o.split.did_split = TRUE
                 /\ o.split.new_page = below.num_pages
        <4>1. o.num_pages = n + 1 /\ o.split.new_page = n
          BY <1>1, <3>3
        <4>2. o.num_pages \in Nat /\ n <= o.num_pages /\ o.split.new_page \in num .. o.num_pages - 1
          BY <1>2, <4>1
        <4> QED
          BY <3>3, <4>2
      <3> QED
        BY <3>1, <3>2, <3>3
    <2>2. ASSUME o.num_pages <= N
          PROVE  /\ Rewoven(o.pg, o.num_pages, pg, N, T, P, G, num)
                 /\ o.split.did_split => o.split.key \in Nat
      <3>1. n <= N
        BY <1>2, <2>1, <2>2
      <3>2. /\ Rewoven(below.pg, n, pg, N, T, P, G, num) /\ below.split.key \in Nat
            /\ below.split.new_page \in num .. n - 1
        BY <1>1, <1>4, <3>1 DEF NetOut
      <3>3. PICK U, Q : U = T \cup num .. n - 1 /\ Q = P \cup num .. n - 1
        OBVIOUS
      <3>4. Net(below.pg, N, U, Q, G) /\ below.split.new_page \in Q /\ x \in U
        BY <3>2, <3>3 DEF Rewoven
      <3>5. InUse(U, N, n)
        <4>1. T \subseteq 0 .. num - 1
          BY DEF InUse
        <4>2. T \subseteq 0 .. n - 1 /\ num .. n - 1 \subseteq 0 .. n - 1
          BY <1>2, <4>1
        <4> QED
          BY <1>2, <3>3, <4>2 DEF InUse
      <3>6. IsInternal(below.pg[x])
        <4>1. ~IsLeaf(below.pg[x]) /\ NetNode(below.pg[x], Q, G)
          BY <3>2, <3>4 DEF Rewoven, Net
        <4> QED
          BY <4>1, NetNodeIs
      <3>7. NetOut(o, below.pg, N, U, Q, G, n)
        BY <1>1, <1>4, <3>2, <3>4, <3>5, <3>6, NetAbove
      <3>8. PICK r, m : r = o.pg /\ m = o.num_pages
        OBVIOUS
      <3>9. Rewoven(r, m, below.pg, N, U, Q, G, n) /\ (o.split.did_split => o.split.key \in Nat)
        BY <2>2, <3>7, <3>8 DEF NetOut
      <3>10. Rewoven(r, m, pg, N, T, P, G, num)
        BY <1>2, <2>1, <3>2, <3>3, <3>8, <3>9, RewovenThen
      <3> QED
        BY <3>8, <3>9, <3>10
    <2>3. num <= o.num_pages
      BY <1>2, <2>1
    <2> QED
      BY <2>1, <2>2, <2>3 DEF NetOut
  <1> QED
    BY <1>2, <1>3, <1>4

\* The whole insertion, and the new root it may need.
NetGrew(r, pg, N, T, P, G, num, root) ==
    /\ r.num_pages \in Nat /\ num <= r.num_pages
    /\ r.num_pages <= N =>
          /\ Rewoven(r.pg, r.num_pages, pg, N, T, P, G, num)
          /\ r.root_page = root \/ r.root_page \in num .. r.num_pages - 1

LEMMA NetRises ==
    ASSUME NEW pg, NEW N, NEW T, NEW P, NEW V, NEW G, G \subseteq Cell(V),
           Net(pg, N, T, P, G), NEW num, InUse(T, N, num),
           NEW root \in T, NEW key \in Nat, NEW value \in V, CellOf(key, value) \in G,
           DescentDefined(pg, root, key),
           NEW o, o = btree_insert(pg, num, root, key, value)
    PROVE  NetOut(o, pg, N, T, P, G, num)
  <1>1. PICK path, n : path = Path(pg, root, key) /\ n = Len(path)
    OBVIOUS
  <1>2. NetPath(path, pg, T, P, root, key)
    BY <1>1, NetDescent
  <1>3. /\ n \in Nat \ {0} /\ path[n] \in T /\ IsLeaf(pg[path[n]])
        /\ \A e \in 1 .. n : e # n => path[e] \in T /\ IsInternal(pg[path[e]])
    BY <1>1, <1>2 DEF NetPath
  <1>4. PICK out : Rising(out, pg, num, root, key, value, path, n)
    BY <1>1, <1>3, OutIs
  <1>5. /\ out[n] = insert_at_leaf(pg, num, path[n], key, value)
        /\ \A e \in 1 .. n : e # n => out[e] = insert_above(out[e + 1], path[e])
        /\ o = out[1]
    <2>1. n - (n - 1) = 1
      BY <1>3
    <2> QED
      BY <1>4, <2>1 DEF Rising, IsOut
  <1> DEFINE S == {k \in Nat : k < n => NetOut(out[n - k], pg, N, T, P, G, num)}
  <1>6. 0 \in S
    <2>1. PICK x, a : x = path[n] /\ a = out[n]
      OBVIOUS
    <2>2. NetOut(a, pg, N, T, P, G, num)
      BY <1>3, <1>5, <2>1, NetAtLeaf
    <2>3. n - 0 = n
      BY <1>3
    <2> QED
      BY <2>1, <2>2, <2>3
  <1>7. ASSUME NEW k \in Nat, k \in S PROVE k + 1 \in S
    <2> SUFFICES ASSUME k + 1 < n PROVE NetOut(out[n - (k + 1)], pg, N, T, P, G, num)
      OBVIOUS
    <2>1. PICK e : e = n - (k + 1)
      OBVIOUS
    <2>2. e \in 1 .. n /\ e # n /\ e + 1 = n - k /\ k < n
      BY <1>3, <2>1
    <2>3. PICK below, x, a : below = out[n - k] /\ x = path[e] /\ a = out[e]
      OBVIOUS
    <2>4. NetOut(below, pg, N, T, P, G, num)
      BY <1>7, <2>2, <2>3
    <2>5. a = insert_above(below, x)
      BY <1>5, <2>2, <2>3
    <2>6. x \in T /\ IsInternal(pg[x])
      BY <1>3, <2>2, <2>3
    <2>7. ~IsLeaf(pg[x])
      BY <2>6 DEF IsLeaf, IsInternal
    <2>8. NetOut(a, pg, N, T, P, G, num)
      <3>1. N \in Nat
        BY DEF Net
      <3> QED
        BY <2>4, <2>5, <2>6, <2>7, <3>1, NetOutThen
    <2> QED
      BY <2>1, <2>3, <2>8
  <1> HIDE DEF S
  <1>8. PICK k : k = n - 1
    OBVIOUS
  <1>9. k \in Nat /\ k < n /\ n - k = 1
    BY <1>3, <1>8
  <1>10. k \in S
    BY <1>6, <1>7, <1>9, Induction
  <1> QED
    BY <1>5, <1>9, <1>10 DEF S

LEMMA NetInsert ==
    ASSUME NEW pg, NEW N, NEW T, NEW P, NEW V, NEW G, G \subseteq Cell(V),
           Net(pg, N, T, P, G), NEW num, InUse(T, N, num),
           NEW root \in T, NEW key \in Nat, NEW value \in V, CellOf(key, value) \in G,
           DescentDefined(pg, root, key),
           NEW r, r = index_insert(pg, num, root, key, value)
    PROVE  NetGrew(r, pg, N, T, P, G, num, root)
  <1>1. PICK o : o = btree_insert(pg, num, root, key, value)
    OBVIOUS
  <1>2. NetOut(o, pg, N, T, P, G, num)
    BY <1>1, NetRises
  <1>3. PICK n : n = o.num_pages
    OBVIOUS
  <1>4. /\ n \in Nat /\ num \in Nat /\ num >= 1 /\ num <= n /\ o.split.did_split \in BOOLEAN
    BY <1>2, <1>3 DEF NetOut, InUse
  <1>5. Topped(r, o, root)
    BY <1>1, <1>4, IndexInsertIs
  <1>6. CASE ~o.split.did_split
    <2>1. r.pg = o.pg /\ r.num_pages = n /\ r.root_page = root
      BY <1>3, <1>5, <1>6 DEF Topped
    <2> QED
      BY <1>2, <1>3, <1>4, <2>1 DEF NetOut, NetGrew
  <1>7. CASE o.split.did_split
    <2>1. PICK node : node = NewRoot(root, o.split.key, o.split.new_page)
      OBVIOUS
    <2>2. r.pg = Put(o.pg, n, node) /\ r.num_pages = n + 1 /\ r.root_page = n
      BY <1>3, <1>5, <1>7, <2>1 DEF Topped
    <2>3. ASSUME r.num_pages <= N
          PROVE  Rewoven(r.pg, r.num_pages, pg, N, T, P, G, num)
      <3>1. n < N /\ n <= N /\ N \in Nat
        BY <1>4, <2>2, <2>3 DEF Net
      <3>2. /\ Rewoven(o.pg, n, pg, N, T, P, G, num) /\ o.split.key \in Nat
            /\ o.split.new_page \in num .. n - 1
        BY <1>2, <1>3, <1>7, <3>1 DEF NetOut
      <3>3. PICK U, Q : U = T \cup num .. n - 1 /\ Q = P \cup num .. n - 1
        OBVIOUS
      <3>4. Net(o.pg, N, U, Q, G) /\ root \in U /\ o.split.new_page \in Q
        BY <3>2, <3>3 DEF Rewoven
      <3>5. InUse(U, N, n)
        <4>1. T \subseteq 0 .. num - 1
          BY DEF InUse
        <4>2. T \subseteq 0 .. n - 1 /\ num .. n - 1 \subseteq 0 .. n - 1
          BY <1>4, <4>1
        <4> QED
          BY <1>4, <3>3, <4>2 DEF InUse
      <3>6. NetNode(node, Q, G) /\ ~Bare(node) /\ ~IsLeaf(node)
        <4>1. 0 \in Q /\ root \in Q
          BY <3>4 DEF Net
        <4>2. GoodInner(node, Q, 1)
          BY <2>1, <3>2, <3>4, <4>1, NewRootIs
        <4>3. node \in InnerNodes(Q) /\ Len(node.keys) <= INTERNAL_NODE_MAX_KEYS
          BY <4>2 DEF GoodInner
        <4> QED
          BY <4>3, NetInner
      <3>7. PICK old : old = o.pg[root]
        OBVIOUS
      <3>8. Rewoven(r.pg, n + 1, o.pg, N, U, Q, G, n)
        BY <2>2, <3>1, <3>4, <3>5, <3>6, NetAdd
      <3>9. PICK q, m : q = r.pg /\ m = n + 1
        OBVIOUS
      <3>10. Rewoven(q, m, pg, N, T, P, G, num)
        BY <1>4, <3>2, <3>3, <3>8, <3>9, RewovenThen
      <3> QED
        BY <2>2, <3>9, <3>10
    <2>4. n \in num .. (n + 1) - 1
      BY <1>4
    <2> QED
      BY <1>4, <2>2, <2>3, <2>4 DEF NetGrew
  <1> QED
    BY <1>4, <1>6, <1>7

-----------------------------------------------------------------------------
(* Searches and deletions in a leaf whose cells are in no order *)

LEMMA LeafDeleted ==
    ASSUME NEW G, NEW cells \in Seq(G), NEW key, NEW t, t = leaf_delete(cells, key)
    PROVE  t \in Seq(G)
  BY PickedIs DEF leaf_delete

\* One call of the binary search, whose recursive calls are looked up in f.
SearchIn(f, cells, key, left, right) ==
    IF left >= right THEN 0
    ELSE IF cells[Middle(left, right) + 1].key = key THEN Middle(left, right) + 1
    ELSE IF cells[Middle(left, right) + 1].key < key
         THEN f[<< Middle(left, right) + 1, right >>]
    ELSE f[<< left, Middle(left, right) >>]

\* f is right for the stretches shorter than k.
SearchedTo(f, cells, key, k) ==
    \A left, right \in 0 .. Len(cells) :
        right - left < k => f[<< left, right >>] = SearchIn(f, cells, key, left, right)

LEMMA SearchExists ==
    ASSUME NEW cells, Len(cells) \in Nat, NEW key, NEW m \in Nat
    PROVE  \E f : f = [w \in (0 .. Len(cells)) \X (0 .. Len(cells)) |-> f[w]]
                  /\ SearchedTo(f, cells, key, m)
  <1> DEFINE B == 0 .. Len(cells)
             Is(f) == f = [w \in B \X B |-> f[w]]
             S == {k \in Nat : \E f : Is(f) /\ SearchedTo(f, cells, key, k)}
  <1>1. 0 \in S
    <2> DEFINE f == [w \in B \X B |-> 0]
    <2>1. Is(f)
      OBVIOUS
    <2>2. SearchedTo(f, cells, key, 0)
      <3> SUFFICES ASSUME NEW l \in B, NEW r \in B, r - l < 0
                   PROVE  f[<< l, r >>] = SearchIn(f, cells, key, l, r)
        BY DEF SearchedTo
      <3>1. l >= r
        OBVIOUS
      <3> QED
        BY <3>1 DEF SearchIn
    <2> HIDE DEF f, Is
    <2> QED
      BY <2>1, <2>2
  <1>2. ASSUME NEW k \in Nat, k \in S PROVE k + 1 \in S
    <2>1. PICK f : Is(f) /\ SearchedTo(f, cells, key, k)
      BY <1>2
    <2> DEFINE h == [w \in B \X B |-> SearchIn(f, cells, key, w[1], w[2])]
    <2>2. Is(h) /\ \A l, r \in B : h[<< l, r >>] = SearchIn(f, cells, key, l, r)
      OBVIOUS
    <2> HIDE DEF h, Is
    <2>3. ASSUME NEW l \in B, NEW r \in B, r - l < k + 1
          PROVE  SearchIn(f, cells, key, l, r) = SearchIn(h, cells, key, l, r)
      <3>1. CASE l >= r
        BY <3>1 DEF SearchIn
      <3>2. CASE ~(l >= r)
        <4>1. PICK mid : mid = Middle(l, r)
          OBVIOUS
        <4>2. mid \in l .. r - 1
          BY <3>2, <4>1 DEF Middle
        <4>3. /\ mid \in B /\ mid + 1 \in B
              /\ r - (mid + 1) < k /\ mid - l < k
          BY <2>3, <3>2, <4>2
        <4>4. /\ f[<< mid + 1, r >>] = h[<< mid + 1, r >>]
              /\ f[<< l, mid >>] = h[<< l, mid >>]
          BY <2>1, <2>2, <4>3 DEF SearchedTo
        <4> QED
          BY <4>1, <4>4 DEF SearchIn
      <3> QED
        BY <3>1, <3>2
    <2>4. SearchedTo(h, cells, key, k + 1)
      BY <2>2, <2>3 DEF SearchedTo
    <2> QED
      BY <2>2, <2>4
  <1> HIDE DEF S
  <1>3. m \in S
    BY <1>1, <1>2, Induction
  <1> QED
    BY <1>3 DEF S

\* What the search returns is a cell of the key, if it is anything.
LEMMA LeafSearchFinds ==
    ASSUME NEW V, NEW cells \in Seq(Cell(V)), NEW key,
           NEW at, at = leaf_search(cells, key)
    PROVE  at = 0 \/ (at \in 1 .. Len(cells) /\ cells[at].key = key)
  <1> DEFINE B == 0 .. Len(cells)
             Body(f) == [w \in B \X B |->
                            LET left  == w[1]
                                right == w[2]
                                mid   == (left + right) \div 2
                                k     == cells[mid + 1].key
                            IN  IF left >= right THEN 0
                                ELSE IF k = key THEN mid + 1
                                ELSE IF k < key THEN f[<< mid + 1, right >>]
                                ELSE f[<< left, mid >>]]
             search == CHOOSE f : f = Body(f)
  <1>1. at = search[<< 0, Len(cells) >>]
    BY DEF leaf_search
  <1>2. PICK n : n = Len(cells)
    OBVIOUS
  <1>3. n \in Nat
    BY <1>2, CellKeys
  <1>4. \A f : Body(f) = [w \in B \X B |-> SearchIn(f, cells, key, w[1], w[2])]
    BY DEF SearchIn, Middle
  <1>5. PICK h : h = [w \in B \X B |-> h[w]] /\ SearchedTo(h, cells, key, n + 1)
    <2> HIDE DEF Body, search
    <2>1. PICK m : m = n + 1
      OBVIOUS
    <2>2. m \in Nat /\ Len(cells) \in Nat
      BY <1>2, <1>3, <2>1
    <2> QED
      BY <2>1, <2>2, SearchExists
  <1> HIDE DEF Body
  <1>6. h = Body(h)
    <2>1. \A w \in B \X B : h[w] = SearchIn(h, cells, key, w[1], w[2])
      <3> SUFFICES ASSUME NEW l \in B, NEW r \in B
                   PROVE  h[<< l, r >>] = SearchIn(h, cells, key, l, r)
        OBVIOUS
      <3>1. r - l < n + 1
        BY <1>2, <1>3
      <3> QED
        BY <1>2, <1>5, <3>1 DEF SearchedTo
    <2>2. [w \in B \X B |-> h[w]] = [w \in B \X B |-> SearchIn(h, cells, key, w[1], w[2])]
      BY <2>1
    <2> QED
      BY <1>4, <1>5, <2>2
  <1>7. search = Body(search)
    BY <1>6
  <1> HIDE DEF search
  <1>8. \A l, r \in B : search[<< l, r >>] = SearchIn(search, cells, key, l, r)
    <2>1. search = [w \in B \X B |-> SearchIn(search, cells, key, w[1], w[2])]
      BY <1>4, <1>7
    <2>2. \A f : f = [w \in B \X B |-> SearchIn(search, cells, key, w[1], w[2])] =>
             \A l, r \in B : f[<< l, r >>] = SearchIn(search, cells, key, l, r)
      OBVIOUS
    <2> QED
      BY <2>1, <2>2
  <1> DEFINE Fine(x) == x = 0 \/ (x \in 1 .. n /\ cells[x].key = key)
             S == {k \in Nat : \A l, r \in B : r - l < k => Fine(search[<< l, r >>])}
  <1>9. 0 \in S
    <2> SUFFICES ASSUME NEW l \in B, NEW r \in B, r - l < 0 PROVE search[<< l, r >>] = 0
      OBVIOUS
    <2>1. l >= r
      BY <1>2, <1>3
    <2> QED
      BY <1>8, <2>1 DEF SearchIn
  <1>10. ASSUME NEW k \in Nat, k \in S PROVE k + 1 \in S
    <2> SUFFICES ASSUME NEW l \in B, NEW r \in B, r - l < k + 1
                 PROVE  Fine(search[<< l, r >>])
      OBVIOUS
    <2>1. CASE l >= r
      BY <1>8, <2>1 DEF SearchIn
    <2>2. CASE ~(l >= r)
      <3>1. PICK mid : mid = Middle(l, r)
        OBVIOUS
      <3>2. mid \in l .. r - 1
        BY <1>2, <1>3, <2>2, <3>1 DEF Middle
      <3>3. /\ mid \in B /\ mid + 1 \in B /\ mid + 1 \in 1 .. n
            /\ r - (mid + 1) < k /\ mid - l < k
        BY <1>2, <1>3, <2>2, <3>2
      <3>4. Fine(search[<< mid + 1, r >>]) /\ Fine(search[<< l, mid >>])
        BY <1>10, <3>3
      <3>5. \/ cells[mid + 1].key = key /\ search[<< l, r >>] = mid + 1
            \/ search[<< l, r >>] = search[<< mid + 1, r >>]
            \/ search[<< l, r >>] = search[<< l, mid >>]
        BY <1>8, <2>2, <3>1 DEF SearchIn
      <3> QED
        BY <3>3, <3>4, <3>5
    <2> QED
      BY <2>1, <2>2
  <1> HIDE DEF S
  <1>11. n + 1 \in S
    BY <1>3, <1>9, <1>10, Induction
  <1>12. Fine(search[<< 0, n >>])
    <2>1. 0 \in B /\ n \in B /\ n - 0 < n + 1
      BY <1>2, <1>3
    <2> QED
      BY <1>11, <2>1 DEF S
  <1> QED
    BY <1>1, <1>2, <1>12

-----------------------------------------------------------------------------
(* Pages outside the index do not matter to a descent *)

SameNodes(q, pg, N) ==
    /\ q = [p \in Pages(N) |-> q[p]]
    /\ \A p \in Pages(N) : q[p] = pg[p] \/ (~NodeAt(q, p) /\ ~NodeAt(pg, p))

LEMMA SameNet ==
    ASSUME NEW pg, NEW N, NEW T, NEW P, NEW G, Net(pg, N, T, P, G),
           NEW q, SameNodes(q, pg, N)
    PROVE  Net(q, N, T, P, G)
  <1>1. T \subseteq Pages(N) /\ P \subseteq Pages(N)
    BY DEF Net
  <1>2. ASSUME NEW p \in T PROVE NetNode(q[p], P, G)
    <2>1. NetNode(pg[p], P, G) /\ NodeAt(pg, p)
      BY NetNodeIs DEF Net, NodeAt
    <2> QED
      BY <1>1, <2>1 DEF SameNodes
  <1>3. ASSUME NEW p \in P, NodeAt(q, p) PROVE p \in T
    BY <1>1, <1>3 DEF SameNodes, Net, NodeAt
  <1> QED
    BY <1>2, <1>3 DEF Net, SameNodes

LEMMA SameDescent ==
    ASSUME NEW pg, NEW N, NEW T, NEW P, NEW G, Net(pg, N, T, P, G),
           NEW root \in T, NEW key, NEW q, SameNodes(q, pg, N)
    PROVE  /\ Path(q, root, key) = Path(pg, root, key)
           /\ DescentDefined(q, root, key) <=> DescentDefined(pg, root, key)
  <1>1. /\ N \in Nat /\ DOMAIN pg = Pages(N) /\ DOMAIN q = Pages(N)
        /\ P \subseteq Pages(N)
    BY DEF Net, SameNodes
  <1>2. \A p \in Pages(N) : /\ IsInternal(q[p]) <=> IsInternal(pg[p])
                            /\ IsLeaf(q[p]) <=> IsLeaf(pg[p])
                            /\ IsInternal(pg[p]) => q[p] = pg[p]
    BY DEF SameNodes, NodeAt
  <1>3. StepFrom(q, key) = StepFrom(pg, key)
    BY <1>1, <1>2 DEF StepFrom
  <1>4. PICK w : w = Walk(pg, root, StepFrom(pg, key))
    OBVIOUS
  <1>5. w = Walk(q, root, StepFrom(q, key))
    BY <1>1, <1>3, <1>4 DEF Walk
  <1>6. DOMAIN w = 1 .. N /\ \A d \in 1 .. N : w[d] \in Pages(N)
    <2>1. IsWalk(w, root, StepFrom(pg, key), N) /\ \A d \in 1 .. N : w[d] \in P
      BY <1>4, NetWalk
    <2> QED
      BY <1>1, <2>1 DEF IsWalk
  <1>7. {d \in DOMAIN w : d + 1 \in DOMAIN w /\ IsInternal(q[w[d]])}
            = {d \in DOMAIN w : d + 1 \in DOMAIN w /\ IsInternal(pg[w[d]])}
    BY <1>2, <1>6
  <1>8. Path(q, root, key) = Path(pg, root, key)
    BY <1>4, <1>5, <1>7 DEF Path, Once, StepFrom
  <1>9. DescentDefined(q, root, key) <=> DescentDefined(pg, root, key)
    BY <1>1, <1>2, <1>8 DEF DescentDefined, btree_find_leaf
  <1> QED
    BY <1>8, <1>9

-----------------------------------------------------------------------------
(* Deletions from such a net, and lookups *)

NetCut(q, pg, N, T, P, G) ==
    /\ Net(q, N, T, P, G)
    /\ \E x \in T : /\ IsLeaf(pg[x]) /\ IsLeaf(q[x]) /\ q[x].next = pg[x].next
                    /\ \A p \in Pages(N) : p # x => q[p] = pg[p]

LEMMA NetDelete ==
    ASSUME NEW pg, NEW N, NEW T, NEW P, NEW V, NEW G, G \subseteq Cell(V),
           Net(pg, N, T, P, G), NEW root \in T, NEW key,
           DescentDefined(pg, root, key),
           NEW q, q = delete_from_index(pg, root, key)
    PROVE  NetCut(q, pg, N, T, P, G)
  <1>1. PICK path : path = Path(pg, root, key)
    OBVIOUS
  <1>2. NetPath(path, pg, T, P, root, key)
    BY <1>1, NetDescent
  <1>3. PICK x : x = path[Len(path)]
    OBVIOUS
  <1>4. /\ btree_find_leaf(pg, root, key) = x /\ x \in T /\ IsLeaf(pg[x])
    BY <1>2, <1>3 DEF NetPath
  <1>5. PICK cells, next, t : /\ cells = pg[x].cells /\ next = pg[x].next
                              /\ t = leaf_delete(cells, key)
    OBVIOUS
  <1>6. cells \in Seq(G) /\ next \in P /\ pg[x] = Leaf(cells, next)
    <2>1. NetNode(pg[x], P, G)
      BY <1>4 DEF Net
    <2> QED
      BY <1>4, <1>5, <2>1, NetNodeIs
  <1>7. t \in Seq(G)
    BY <1>5, <1>6, LeafDeleted
  <1>8. PICK node : node = Leaf(t, next)
    OBVIOUS
  <1>9. [pg[x] EXCEPT !.cells = t] = node
    BY <1>6, <1>8 DEF Leaf
  <1>10. q = Put(pg, x, node)
    BY <1>4, <1>5, <1>9 DEF delete_from_index, Put
  <1>11. NetNode(node, P, G) /\ IsLeaf(node) /\ node.next = next
    <2>1. NetNode(node, P, G) /\ IsLeaf(node)
      BY <1>6, <1>7, <1>8, NetLeaf
    <2>2. node.next = next
      BY <1>8 DEF Leaf
    <2> QED
      BY <2>1, <2>2
  <1>12. x \in Pages(N)
    BY <1>4 DEF Net
  <1>13. /\ q = [p \in Pages(N) |-> q[p]] /\ q[x] = node
         /\ \A p \in Pages(N) : p # x => q[p] = pg[p]
    <2>1. pg = [p \in Pages(N) |-> pg[p]]
      BY DEF Net
    <2> QED
      BY <1>10, <1>12, <2>1, PutIs
  <1>14. Net(q, N, T, P, G)
    BY <1>4, <1>11, <1>13 DEF Net, NodeAt
  <1> QED
    BY <1>4, <1>5, <1>11, <1>13, <1>14 DEF NetCut

LEMMA NetFind ==
    ASSUME NEW pg, NEW N, NEW T, NEW P, NEW V, NEW G, G \subseteq Cell(V),
           Net(pg, N, T, P, G), NEW root \in T, NEW key,
           DescentDefined(pg, root, key),
           NEW rp \in btree_find(pg, root, key)
    PROVE  \E cell \in G : cell.key = key /\ cell.value = rp
  <1>1. PICK path : path = Path(pg, root, key)
    OBVIOUS
  <1>2. NetPath(path, pg, T, P, root, key)
    BY <1>1, NetDescent
  <1>3. PICK x : x = path[Len(path)]
    OBVIOUS
  <1>4. /\ btree_find_leaf(pg, root, key) = x /\ x \in T /\ IsLeaf(pg[x])
    BY <1>2, <1>3 DEF NetPath
  <1>5. PICK cells, at : cells = pg[x].cells /\ at = leaf_search(cells, key)
    OBVIOUS
  <1>6. cells \in Seq(G) /\ cells \in Seq(Cell(V))
    <2>1. NetNode(pg[x], P, G)
      BY <1>4 DEF Net
    <2>2. cells \in Seq(G)
      BY <1>4, <1>5, <2>1, NetNodeIs
    <2> QED
      BY <2>2
  <1>7. at # 0 /\ rp = cells[at].value
    BY <1>4, <1>5 DEF btree_find, Once
  <1>8. at \in 1 .. Len(cells) /\ cells[at].key = key
    BY <1>5, <1>6, <1>7, LeafSearchFinds
  <1>9. cells[at] \in G
    BY <1>6, <1>8
  <1> QED
    BY <1>7, <1>8, <1>9

LEMMA CutLinked ==
    ASSUME NEW pg, NEW N, NEW T, NEW P, NEW G, Net(pg, N, T, P, G),
           NEW q, NetCut(q, pg, N, T, P, G), Linked(pg, T)
    PROVE  Linked(q, T)
  <1>1. PICK x \in T : /\ IsLeaf(pg[x]) /\ IsLeaf(q[x]) /\ q[x].next = pg[x].next
                       /\ \A p \in Pages(N) : p # x => q[p] = pg[p]
    BY DEF NetCut
  <1>2. T \subseteq Pages(N)
    BY DEF Net
  <1>3. \A p \in T : /\ IsLeaf(q[p]) <=> IsLeaf(pg[p])
                     /\ IsLeaf(pg[p]) => q[p].next = pg[p].next
    BY <1>1, <1>2
  <1> QED
    BY <1>3 DEF Linked

LEMMA SameLinked ==
    ASSUME NEW pg, NEW N, NEW T, NEW P, NEW G, Net(pg, N, T, P, G),
           NEW q, SameNodes(q, pg, N), Linked(pg, T)
    PROVE  Linked(q, T)
  <1>1. T \subseteq Pages(N)
    BY DEF Net
  <1>2. \A p \in T : q[p] = pg[p]
    <2> TAKE p \in T
    <2>1. NetNode(pg[p], P, G) /\ NodeAt(pg, p)
      BY NetNodeIs DEF Net, NodeAt
    <2> QED
      BY <1>1, <2>1 DEF SameNodes
  <1> QED
    BY <1>2 DEF Linked

-----------------------------------------------------------------------------
(* The cells of the chain *)

\* The chain from a leaf of a net meets cells of the net only.
LEMMA NetChain ==
    ASSUME NEW pg, NEW N, NEW T, NEW P, NEW G, Net(pg, N, T, P, G), Linked(pg, T),
           0 \notin T, NEW first \in T, IsLeaf(pg[first]),
           NEW t, t = ChainCells(pg, first)
    PROVE  t \in Seq(G)
  <1> DEFINE next == [p \in DOMAIN pg |-> IF IsLeaf(pg[p]) THEN pg[p].next ELSE 0]
             On(p) == p = 0 \/ (p \in T /\ IsLeaf(pg[p]))
  <1>1. /\ N \in Nat \ {0} /\ DOMAIN pg = Pages(N) /\ T \subseteq Pages(N) /\ 0 \in Pages(N)
        /\ ~NodeAt(pg, 0)
    BY DEF Net, Pages
  <1>2. Cardinality(DOMAIN pg) = N
    BY <1>1, PageCount
  <1>3. PICK w : w = Walk(pg, first, next)
    OBVIOUS
  <1>4. IsWalk(w, first, next, N)
    BY <1>1, <1>2, <1>3, WalkIs
  <1>5. ASSUME NEW p, On(p) PROVE On(next[p]) /\ (p = 0 => next[p] = 0)
    <2>1. CASE p = 0
      BY <1>1, <2>1 DEF NodeAt
    <2>2. CASE p # 0
      <3>1. p \in T /\ IsLeaf(pg[p]) /\ next[p] = pg[p].next
        BY <1>1, <1>5, <2>2
      <3> HIDE DEF next
      <3> QED
        BY <2>2, <3>1 DEF Linked
    <2> QED
      BY <2>1, <2>2
  <1>6. t = Once(SubSeq(w, 1, Cardinality({d \in DOMAIN w : w[d] # 0})),
                 LAMBDA pages : FlattenSeq([i \in DOMAIN pages |-> pg[pages[i]].cells]))
    BY <1>3 DEF ChainCells, Chain, Once, next
  <1> HIDE DEF next
  <1> DEFINE Good == {d \in Nat : d + 1 <= N => On(w[d + 1])}
  <1>7. 0 \in Good
    BY <1>1, <1>4 DEF IsWalk
  <1>8. ASSUME NEW d \in Nat, d \in Good PROVE d + 1 \in Good
    <2> SUFFICES ASSUME d + 2 <= N PROVE On(w[d + 2])
      OBVIOUS
    <2>1. d + 2 \in 1 .. N /\ d + 2 # 1 /\ (d + 2) - 1 = d + 1 /\ d + 1 <= N
      BY <1>1
    <2>2. On(w[d + 1])
      BY <1>8, <2>1
    <2>3. w[d + 2] = next[w[d + 1]]
      BY <1>4, <2>1 DEF IsWalk
    <2> HIDE DEF On
    <2> QED
      BY <1>5, <2>2, <2>3
  <1> HIDE DEF Good
  <1>9. ASSUME NEW d \in 1 .. N PROVE On(w[d])
    <2>1. d - 1 \in Nat /\ (d - 1) + 1 = d
      BY <1>1
    <2>2. d - 1 \in Good
      BY <1>7, <1>8, <2>1, Induction
    <2> HIDE DEF On
    <2> QED
      BY <1>1, <2>1, <2>2 DEF Good
  <1> DEFINE S == {d \in DOMAIN w : w[d] # 0}
  <1>10. DOMAIN w = 1 .. N
    BY <1>4 DEF IsWalk
  <1>11. \A j \in S : \A i \in 1 .. j : i \in S
    <2> SUFFICES ASSUME NEW j \in S, NEW i \in 1 .. j, i \notin S PROVE FALSE
      OBVIOUS
    <2>1. j \in 1 .. N /\ i \in 1 .. N /\ w[j] # 0 /\ w[i] = 0
      BY <1>1, <1>10
    <2> DEFINE Z == {k \in Nat : i + k <= N => w[i + k] = 0}
    <2>2. 0 \in Z
      BY <2>1
    <2>3. ASSUME NEW k \in Nat, k \in Z PROVE k + 1 \in Z
      <3> SUFFICES ASSUME i + (k + 1) <= N PROVE w[i + (k + 1)] = 0
        OBVIOUS
      <3>1. PICK e : e = i + (k + 1)
        OBVIOUS
      <3>2. e \in 1 .. N /\ e # 1 /\ e - 1 = i + k /\ i + k <= N /\ i + k \in 1 .. N
        BY <1>1, <2>1, <3>1
      <3>3. w[e] = next[w[i + k]]
        BY <1>4, <3>2 DEF IsWalk
      <3>4. w[i + k] = 0
        BY <2>3, <3>2
      <3> QED
        BY <1>5, <3>1, <3>3, <3>4
    <2> HIDE DEF Z
    <2>4. PICK k : k = j - i
      OBVIOUS
    <2>5. k \in Nat /\ i + k = j
      BY <2>1, <2>4
    <2>6. k \in Z
      BY <2>2, <2>3, <2>5, Induction
    <2> QED
      BY <1>1, <2>1, <2>5, <2>6 DEF Z
  <1>12. S \subseteq 1 .. N /\ \A d \in S : w[d] # 0
    BY <1>10
  <1> HIDE DEF S
  <1>13. PICK m : m = Cardinality(S)
    OBVIOUS
  <1>14. m \in 0 .. N /\ S = 1 .. m
    BY <1>1, <1>11, <1>12, <1>13, Prefix
  <1>15. PICK pages : pages = SubSeq(w, 1, m)
    OBVIOUS
  <1>16. /\ pages \in Seq(Pages(N)) /\ Len(pages) = m
         /\ \A d \in 1 .. m : pages[d] = w[d]
    <2>1. w \in Seq(Pages(N)) /\ Len(w) = N
      <3>1. w \in [1 .. N -> Pages(N)]
        BY <1>1, <1>4, <1>9 DEF IsWalk
      <3> QED
        BY <1>1, <3>1
    <2>2. /\ pages \in Seq(Pages(N)) /\ Len(pages) = m + 1 - 1
          /\ \A d \in 1 .. m + 1 - 1 : pages[d] = w[1 + d - 1]
      BY <1>1, <1>14, <1>15, <2>1, PartOf
    <2> QED
      BY <1>14, <2>2
  <1>17. PICK seqs : seqs = [i \in DOMAIN pages |-> pg[pages[i]].cells]
    OBVIOUS
  <1>18. t = FlattenSeq(seqs)
    BY <1>6, <1>13, <1>15, <1>17 DEF Once, S
  <1>19. seqs \in Seq(Seq(G))
    <2>1. ASSUME NEW d \in 1 .. m PROVE pg[pages[d]].cells \in Seq(G)
      <3>1. w[d] \in T /\ IsLeaf(pg[w[d]]) /\ pages[d] = w[d]
        BY <1>9, <1>12, <1>14, <1>16
      <3>2. NetNode(pg[w[d]], P, G)
        BY <3>1 DEF Net
      <3> QED
        BY <3>1, <3>2, NetNodeIs
    <2>2. DOMAIN pages = 1 .. m /\ m \in Nat
      BY <1>14, <1>16
    <2>3. seqs \in [1 .. m -> Seq(G)]
      BY <1>17, <2>1, <2>2
    <2> QED
      BY <2>2, <2>3
  <1> QED
    BY <1>18, <1>19, FlattenedIs

-----------------------------------------------------------------------------
(* The index and a copy of it that leaves out all other pages.              *)
(*                                                                         *)
(* What is proved of a tree that has a file to itself is said of the copy; *)
(* operations on the file do the same to the index as to the copy.         *)

\* Of N pages, those of U are the same in a and b.
Agree(a, b, N, U) ==
    /\ a = [p \in Pages(N) |-> a[p]]
    /\ b = [p \in Pages(N) |-> b[p]]
    /\ \A p \in Pages(N) : p \in U => a[p] = b[p]

LEMMA AgreePut ==
    ASSUME NEW a, NEW b, NEW N, NEW U, Agree(a, b, N, U), NEW x, NEW node,
           NEW W, \A p \in W : p \in U \/ p = x
    PROVE  Agree(Put(a, x, node), Put(b, x, node), N, W)
  <1>1. /\ Put(a, x, node) = [p \in Pages(N) |-> IF p = x THEN node ELSE a[p]]
        /\ Put(b, x, node) = [p \in Pages(N) |-> IF p = x THEN node ELSE b[p]]
    BY DEF Agree, Put
  <1> QED
    BY <1>1 DEF Agree

\* What insertions at one node made of two files that agree on the pages of T.
SameOut(o, e, N, T, num) ==
    /\ o.num_pages \in Nat /\ num <= o.num_pages
    /\ e.num_pages = o.num_pages
    /\ e.lost = o.lost
    /\ o.split.did_split \in BOOLEAN
    /\ e.split.did_split = o.split.did_split
    /\ o.split.did_split => /\ e.split.key = o.split.key
                            /\ e.split.new_page = o.split.new_page
    /\ Agree(o.pg, e.pg, N, T \cup num .. o.num_pages - 1)

\* The same node, or the same two nodes, in their places.
LEMMA SameOne ==
    ASSUME NEW a, NEW b, NEW N, NEW T, NEW num \in Nat, NEW n \in Nat, num <= n,
           Agree(a, b, N, T \cup num .. n - 1), NEW x, NEW node,
           NEW o, One(o, a, n, x, node), NEW e, One(e, b, n, x, node), e.lost = o.lost
    PROVE  SameOut(o, e, N, T, num)
  <1>1. /\ o.pg = Put(a, x, node) /\ o.num_pages = n /\ o.split.did_split = FALSE
        /\ e.pg = Put(b, x, node) /\ e.num_pages = n /\ e.split.did_split = FALSE
    BY DEF One
  <1>2. Agree(Put(a, x, node), Put(b, x, node), N, T \cup num .. n - 1)
    BY AgreePut
  <1> QED
    BY <1>1, <1>2 DEF SameOut

LEMMA SameTwo ==
    ASSUME NEW a, NEW b, NEW N, NEW T, NEW num \in Nat, NEW n \in Nat, num <= n,
           Agree(a, b, N, T \cup num .. n - 1), NEW x, NEW left, NEW right, NEW s,
           NEW o, Two(o, a, n, x, left, right, s), NEW e, Two(e, b, n, x, left, right, s),
           e.lost = o.lost
    PROVE  SameOut(o, e, N, T, num)
  <1>1. /\ o.pg = Put(Put(a, x, left), n, right) /\ o.num_pages = n + 1
        /\ o.split.did_split = TRUE /\ o.split.key = s /\ o.split.new_page = n
        /\ e.pg = Put(Put(b, x, left), n, right) /\ e.num_pages = n + 1
        /\ e.split.did_split = TRUE /\ e.split.key = s /\ e.split.new_page = n
    BY DEF Two
  <1>2. PICK U, W : U = T \cup num .. n - 1 /\ W = T \cup num .. (n + 1) - 1
    OBVIOUS
  <1>3. \A p \in W : p \in U \/ p = n
    BY <1>2
  <1>4. Agree(Put(a, x, left), Put(b, x, left), N, U)
    BY <1>2, AgreePut
  <1>5. Agree(Put(Put(a, x, left), n, right), Put(Put(b, x, left), n, right), N, W)
    BY <1>3, <1>4, AgreePut
  <1>6. n + 1 \in Nat /\ num <= n + 1
    OBVIOUS
  <1>7. /\ o.num_pages \in Nat /\ num <= o.num_pages /\ e.num_pages = o.num_pages
        /\ Agree(o.pg, e.pg, N, T \cup num .. o.num_pages - 1)
    BY <1>1, <1>2, <1>5, <1>6
  <1> QED
    BY <1>1, <1>7 DEF SameOut

LEMMA SameAtLeaf ==
    ASSUME NEW a, NEW b, NEW N, NEW T, T \subseteq Pages(N), Agree(a, b, N, T),
           NEW num \in Nat, NEW x \in T, NEW key, NEW value,
           a[x] = Leaf(a[x].cells, a[x].next),
           NEW o, o = insert_at_leaf(a, num, x, key, value),
           NEW e, e = insert_at_leaf(b, num, x, key, value)
    PROVE  SameOut(o, e, N, T, num)
  <1>1. b[x] = a[x] /\ b[x] = Leaf(b[x].cells, b[x].next)
    BY DEF Agree
  <1>2. PICK all, h, left, right :
           /\ all = leaf_insert(a[x].cells, key, value) /\ h = Half(Len(all))
           /\ left = FirstPart(all, h) /\ right = LastPart(all, h)
    OBVIOUS
  <1>3. /\ o.lost = FALSE
        /\ IF Len(a[x].cells) < LEAF_NODE_MAX_CELLS
           THEN One(o, a, num, x, Leaf(all, a[x].next))
           ELSE Two(o, a, num, x, Leaf(left, num), Leaf(right, a[x].next), right[1].key)
    BY <1>2, LeafForms
  <1>4. all = leaf_insert(b[x].cells, key, value)
    BY <1>1, <1>2
  <1>5. /\ e.lost = FALSE
        /\ IF Len(b[x].cells) < LEAF_NODE_MAX_CELLS
           THEN One(e, b, num, x, Leaf(all, b[x].next))
           ELSE Two(e, b, num, x, Leaf(left, num), Leaf(right, b[x].next), right[1].key)
    BY <1>1, <1>2, <1>4, LeafForms
  <1>6. Agree(a, b, N, T \cup num .. num - 1) /\ num <= num
    BY DEF Agree
  <1>7. CASE Len(a[x].cells) < LEAF_NODE_MAX_CELLS
    <2>1. PICK node : node = Leaf(all, a[x].next)
      OBVIOUS
    <2>2. One(o, a, num, x, node) /\ One(e, b, num, x, node) /\ e.lost = o.lost
      BY <1>1, <1>3, <1>5, <1>7, <2>1
    <2> QED
      BY <1>6, <2>2, SameOne
  <1>8. CASE ~(Len(a[x].cells) < LEAF_NODE_MAX_CELLS)
    <2>1. PICK l, r, s : l = Leaf(left, num) /\ r = Leaf(right, a[x].next) /\ s = right[1].key
      OBVIOUS
    <2>2. Two(o, a, num, x, l, r, s) /\ Two(e, b, num, x, l, r, s) /\ e.lost = o.lost
      BY <1>1, <1>3, <1>5, <1>8, <2>1
    <2> QED
      BY <1>6, <2>2, SameTwo
  <1> QED
    BY <1>7, <1>8

LEMMA SameAbove ==
    ASSUME NEW c, NEW d, NEW N, NEW T, T \subseteq Pages(N), NEW num \in Nat,
           SameOut(c, d, N, T, num), NEW x \in T,
           NEW o, o = insert_above(c, x), NEW e, e = insert_above(d, x)
    PROVE  SameOut(o, e, N, T, num)
  <1>1. PICK a, b, n : a = c.pg /\ b = d.pg /\ n = c.num_pages
    OBVIOUS
  <1>2. /\ n \in Nat /\ num <= n /\ d.num_pages = n /\ d.lost = c.lost
        /\ c.split.did_split \in BOOLEAN /\ d.split.did_split = c.split.did_split
        /\ Agree(a, b, N, T \cup num .. n - 1)
    BY <1>1 DEF SameOut
  <1>3. /\ a = [p \in Pages(N) |-> a[p]] /\ b = [p \in Pages(N) |-> b[p]] /\ x \in Pages(N)
        /\ a[x] = b[x]
    BY <1>2 DEF Agree
  <1>4. CASE ~c.split.did_split
    <2>1. o = c /\ e = d
      BY <1>2, <1>4 DEF insert_above
    <2> QED
      BY <2>1
  <1>5. CASE c.split.did_split
    <2>1. d.split.key = c.split.key /\ d.split.new_page = c.split.new_page
      BY <1>5 DEF SameOut
    <2>2. PICK node, mid : /\ node = internal_insert(a[x], c.split.key, c.split.new_page)
                           /\ mid = MiddleKey(node)
      OBVIOUS
    <2>3. Came(o, c, x, node, mid)
      BY <1>1, <1>3, <1>5, <2>2, AboveForms
    <2>4. node = internal_insert(b[x], d.split.key, d.split.new_page)
      BY <1>3, <2>1, <2>2
    <2>5. Came(e, d, x, node, mid)
      BY <1>1, <1>2, <1>3, <1>5, <2>2, <2>4, AboveForms
    <2>6. e.lost = o.lost
      BY <1>1, <1>2, <1>3, <2>1, <2>3, <2>5 DEF Came
    <2>7. CASE Len(node.keys) > INTERNAL_NODE_MAX_KEYS
      <3>1. PICK l, r, s : /\ l = LeftHalf(node, mid) /\ s = node.keys[mid + 1]
                           /\ r = RightHalf(node, mid, Len(node.keys))
        OBVIOUS
      <3>2. Two(o, a, n, x, l, r, s) /\ Two(e, b, n, x, l, r, s)
        BY <1>1, <1>2, <2>3, <2>5, <2>7, <3>1 DEF Came
      <3> QED
        BY <1>2, <2>6, <3>2, SameTwo
    <2>8. CASE ~(Len(node.keys) > INTERNAL_NODE_MAX_KEYS)
      <3>1. One(o, a, n, x, node) /\ One(e, b, n, x, node)
        BY <1>1, <1>2, <2>3, <2>5, <2>8 DEF Came
      <3> QED
        BY <1>2, <2>6, <3>1, SameOne
    <2> QED
      BY <2>7, <2>8
  <1> QED
    BY <1>2, <1>4, <1>5

\* The net of a leads descents in b through the same pages.
LEMMA SamePath ==
    ASSUME NEW a, NEW N, NEW T, NEW P, NEW G, Net(a, N, T, P, G),
           NEW b, Agree(a, b, N, P), NEW root \in T, NEW key
    PROVE  Path(b, root, key) = Path(a, root, key)
  <1>1. /\ N \in Nat /\ DOMAIN a = Pages(N) /\ DOMAIN b = Pages(N)
        /\ P \subseteq Pages(N) /\ \A p \in P : b[p] = a[p]
    BY DEF Net, Agree
  <1>2. Cardinality(DOMAIN b) = N
    BY <1>1, PageCount
  <1>3. PICK f, g : f = StepFrom(a, key) /\ g = StepFrom(b, key)
    OBVIOUS
  <1>4. \A p \in P : g[p] = f[p]
    BY <1>1, <1>3 DEF StepFrom
  <1>5. PICK w, u : w = Walk(a, root, f) /\ u = Walk(b, root, g)
    OBVIOUS
  <1>6. IsWalk(w, root, f, N) /\ \A d \in 1 .. N : w[d] \in P
    BY <1>3, <1>5, NetWalk
  <1>7. IsWalk(u, root, g, N)
    BY <1>1, <1>2, <1>5, WalkIs
  <1> DEFINE S == {k \in Nat : k + 1 <= N => u[k + 1] = w[k + 1]}
  <1>8. 0 \in S
    BY <1>6, <1>7 DEF IsWalk
  <1>9. ASSUME NEW k \in Nat, k \in S PROVE k + 1 \in S
    <2> SUFFICES ASSUME k + 2 <= N PROVE u[k + 2] = w[k + 2]
      OBVIOUS
    <2>1. k + 1 \in 1 .. N /\ k + 2 \in 1 .. N /\ (k + 2) - 1 = k + 1 /\ k + 2 # 1
      BY <1>1
    <2>2. u[k + 1] = w[k + 1] /\ w[k + 1] \in P
      BY <1>6, <1>9, <2>1
    <2>3. u[k + 2] = g[u[k + 1]] /\ w[k + 2] = f[w[k + 1]]
      BY <1>6, <1>7, <2>1 DEF IsWalk
    <2> QED
      BY <1>4, <2>2, <2>3
  <1> HIDE DEF S
  <1>10. Nat \subseteq S
    BY <1>8, <1>9, Induction
  <1>11. ASSUME NEW d \in 1 .. N PROVE u[d] = w[d]
    <2>1. PICK k : k = d - 1
      OBVIOUS
    <2>2. k \in Nat /\ k + 1 = d /\ k + 1 <= N
      BY <1>1, <2>1
    <2> QED
      BY <1>10, <2>2 DEF S
  <1>12. u = w
    BY <1>6, <1>7, <1>11 DEF IsWalk
  <1>13. DOMAIN w = 1 .. N
    BY <1>6 DEF IsWalk
  <1>14. {d \in DOMAIN w : d + 1 \in DOMAIN w /\ IsInternal(b[w[d]])}
            = {d \in DOMAIN w : d + 1 \in DOMAIN w /\ IsInternal(a[w[d]])}
    BY <1>1, <1>6, <1>13
  <1> QED
    BY <1>3, <1>5, <1>12, <1>14 DEF Path, Once, StepFrom

\* An insertion does to b what it does to a.
LEMMA SameInsert ==
    ASSUME NEW a, NEW N, NEW T, NEW P, NEW G, Net(a, N, T, P, G),
           NEW b, Agree(a, b, N, P), NEW num \in Nat, NEW root \in T, NEW key, NEW value,
           DescentDefined(a, root, key),
           NEW r, r = index_insert(a, num, root, key, value),
           NEW e, e = index_insert(b, num, root, key, value)
    PROVE  /\ r.num_pages \in Nat /\ num <= r.num_pages
           /\ e.num_pages = r.num_pages /\ e.root_page = r.root_page /\ e.lost = r.lost
           /\ Agree(r.pg, e.pg, N, T \cup num .. r.num_pages - 1)
  <1>1. PICK path, n : path = Path(a, root, key) /\ n = Len(path)
    OBVIOUS
  <1>2. path = Path(b, root, key)
    BY <1>1, SamePath
  <1>3. /\ n \in Nat \ {0} /\ \A d \in 1 .. n : path[d] \in T
        /\ IsLeaf(a[path[n]])
    <2>1. NetPath(path, a, T, P, root, key)
      BY <1>1, NetDescent
    <2> QED
      BY <1>1, <2>1 DEF NetPath
  <1>4. T \subseteq P /\ P \subseteq Pages(N) /\ Agree(a, b, N, T)
    BY DEF Net, Agree
  <1>5. PICK f : Rising(f, a, num, root, key, value, path, n)
    BY <1>1, <1>3, OutIs
  <1>6. PICK g : Rising(g, b, num, root, key, value, path, n)
    BY <1>1, <1>2, <1>3, OutIs
  <1>7. /\ f[n] = insert_at_leaf(a, num, path[n], key, value)
        /\ g[n] = insert_at_leaf(b, num, path[n], key, value)
        /\ \A d \in 1 .. n : d # n => /\ f[d] = insert_above(f[d + 1], path[d])
                                      /\ g[d] = insert_above(g[d + 1], path[d])
        /\ btree_insert(a, num, root, key, value) = f[1]
        /\ btree_insert(b, num, root, key, value) = g[1]
    <2>1. n - (n - 1) = 1
      BY <1>3
    <2> QED
      BY <1>5, <1>6, <2>1 DEF Rising, IsOut
  <1> DEFINE S == {k \in Nat : k < n => SameOut(f[n - k], g[n - k], N, T, num)}
  <1>8. 0 \in S
    <2>1. PICK x, o, c : x = path[n] /\ o = f[n] /\ c = g[n]
      OBVIOUS
    <2>2. x \in T /\ a[x] = Leaf(a[x].cells, a[x].next)
      <3>1. x \in T /\ IsLeaf(a[x])
        BY <1>3, <2>1
      <3>2. NetNode(a[x], P, G)
        BY <3>1 DEF Net
      <3> QED
        BY <3>1, <3>2, NetNodeIs
    <2>3. SameOut(o, c, N, T, num)
      BY <1>4, <1>7, <2>1, <2>2, SameAtLeaf
    <2>4. n - 0 = n
      BY <1>3
    <2> QED
      BY <2>1, <2>3, <2>4
  <1>9. ASSUME NEW k \in Nat, k \in S PROVE k + 1 \in S
    <2> SUFFICES ASSUME k + 1 < n
                 PROVE  SameOut(f[n - (k + 1)], g[n - (k + 1)], N, T, num)
      OBVIOUS
    <2>1. PICK d : d = n - (k + 1)
      OBVIOUS
    <2>2. d \in 1 .. n /\ d # n /\ d + 1 = n - k /\ k < n
      BY <1>3, <2>1
    <2>3. PICK x, c1, c2, o1, o2 :
             /\ x = path[d] /\ c1 = f[n - k] /\ c2 = g[n - k] /\ o1 = f[d] /\ o2 = g[d]
      OBVIOUS
    <2>4. SameOut(c1, c2, N, T, num)
      BY <1>9, <2>2, <2>3
    <2>5. o1 = insert_above(c1, x) /\ o2 = insert_above(c2, x) /\ x \in T
      BY <1>3, <1>7, <2>2, <2>3
    <2>6. SameOut(o1, o2, N, T, num)
      BY <1>4, <2>4, <2>5, SameAbove
    <2> QED
      BY <2>1, <2>3, <2>6
  <1> HIDE DEF S
  <1>10. PICK o, c : o = f[1] /\ c = g[1]
    OBVIOUS
  <1>11. SameOut(o, c, N, T, num)
    <2>1. PICK k : k = n - 1
      OBVIOUS
    <2>2. k \in Nat /\ k < n /\ n - k = 1
      BY <1>3, <2>1
    <2>3. k \in S
      BY <1>8, <1>9, <2>2, Induction
    <2> QED
      BY <1>10, <2>2, <2>3 DEF S
  <1>12. PICK m : m = o.num_pages
    OBVIOUS
  <1>13. /\ m \in Nat /\ num <= m /\ c.num_pages = m /\ c.lost = o.lost
         /\ o.split.did_split \in BOOLEAN /\ c.split.did_split = o.split.did_split
         /\ Agree(o.pg, c.pg, N, T \cup num .. m - 1)
    BY <1>11, <1>12 DEF SameOut
  <1>14. Topped(r, o, root) /\ Topped(e, c, root)
    BY <1>7, <1>10, <1>13, IndexInsertIs
  <1>15. CASE ~o.split.did_split
    BY <1>12, <1>13, <1>14, <1>15 DEF Topped
  <1>16. CASE o.split.did_split
    <2>1. c.split.key = o.split.key /\ c.split.new_page = o.split.new_page
      BY <1>11, <1>16 DEF SameOut
    <2>2. PICK node, m1 : node = NewRoot(root, o.split.key, o.split.new_page) /\ m1 = m + 1
      OBVIOUS
    <2>3. /\ r.pg = Put(o.pg, m, node) /\ r.num_pages = m1
          /\ r.root_page = m /\ r.lost = o.lost
          /\ e.pg = Put(c.pg, m, node) /\ e.num_pages = m1
          /\ e.root_page = m /\ e.lost = c.lost
      BY <1>12, <1>13, <1>14, <1>16, <2>1, <2>2 DEF Topped
    <2>4. \A p \in T \cup num .. m1 - 1 : p \in T \cup num .. m - 1 \/ p = m
      BY <1>13, <2>2
    <2>5. Agree(Put(o.pg, m, node), Put(c.pg, m, node), N, T \cup num .. m1 - 1)
      BY <1>13, <2>4, AgreePut
    <2>6. m1 \in Nat /\ num <= m1
      BY <1>13, <2>2
    <2> QED
      BY <1>13, <2>3, <2>5, <2>6
  <1> QED
    BY <1>13, <1>15, <1>16

-----------------------------------------------------------------------------
(* A whole tree: every node is in the search tree and every leaf in the     *)
(* chain, in the order of the keys.                                         *)

Entire(pg, N, V, num, root, T) ==
    \E level, region, s :
        /\ Shape(pg, N, V, num, level) /\ Tidy(pg, N)
        /\ SearchTree(pg, N, level, root, T, region)
        /\ \A p \in Pages(N) : NodeAt(pg, p) => p \in T
        /\ Following(pg, T, region)
        /\ ChainIs(s, pg, N) /\ LeavesIn(s, pg, N)

LEMMA EntireNet ==
    ASSUME NEW pg, NEW N, NEW V, NEW num, NEW root, NEW T, Entire(pg, N, V, num, root, T)
    PROVE  /\ Net(pg, N, T, T \cup {0}, Cell(V)) /\ root \in T /\ 0 \notin T
           /\ num \in 2 .. N
           /\ \A p \in T : p < num /\ NodeAt(pg, p)
           /\ 1 \in T /\ IsLeaf(pg[1])
  <1>1. PICK level, region, s :
           /\ Shape(pg, N, V, num, level)
           /\ SearchTree(pg, N, level, root, T, region)
           /\ \A p \in Pages(N) : NodeAt(pg, p) => p \in T
           /\ Following(pg, T, region)
           /\ ChainIs(s, pg, N)
    BY DEF Entire
  <1>2. /\ N \in Nat /\ num \in 2 .. N /\ pg = [p \in Pages(N) |-> pg[p]]
        /\ ~NodeAt(pg, 0)
        /\ \A p \in Pages(N) :
              /\ NodeAt(pg, p) => p < num
              /\ IsLeaf(pg[p]) => GoodLeaf(pg[p], V, level[p])
              /\ IsInternal(pg[p]) => GoodInner(pg[p], Kids(pg, N, level, level[p]), level[p])
    BY <1>1 DEF Shape
  <1>3. /\ T \subseteq Pages(N) /\ root \in T /\ \A p \in T : NodeAt(pg, p)
    BY <1>1 DEF SearchTree, Grove
  <1>4. 0 \notin T /\ 0 \in Pages(N)
    BY <1>2, <1>3 DEF Pages
  <1>5. PICK P : P = T \cup {0}
    OBVIOUS
  <1>6. ASSUME NEW p \in T PROVE NetNode(pg[p], P, Cell(V))
    <2>1. CASE IsLeaf(pg[p])
      <3>1. pg[p] \in LeafNodes(V)
        BY <1>2, <1>3, <2>1 DEF GoodLeaf
      <3>2. pg[p].next \in P
        BY <1>1, <1>5, <2>1 DEF Following
      <3>3. pg[p] \in [type : {"leaf"}, cells : Seq(Cell(V)), next : P]
        BY <3>1, <3>2 DEF LeafNodes
      <3> QED
        BY <3>3 DEF NetNode
    <2>2. CASE IsInternal(pg[p])
      <3>1. PICK kids : kids = Kids(pg, N, level, level[p])
        OBVIOUS
      <3>2. kids \subseteq P
        BY <1>1, <1>5, <3>1 DEF Kids
      <3>3. pg[p] \in InnerNodes(kids) /\ Len(pg[p].keys) <= INTERNAL_NODE_MAX_KEYS
        BY <1>2, <1>3, <2>2, <3>1 DEF GoodInner
      <3>4. pg[p] \in InnerNodes(P)
        BY <3>2, <3>3, InnerNodesGrow
      <3> QED
        BY <3>3, <3>4 DEF NetNode
    <2> QED
      BY <1>3, <2>1, <2>2 DEF NodeAt
  <1>7. Net(pg, N, T, P, Cell(V))
    <2>1. P \subseteq Pages(N) /\ T \subseteq P /\ 0 \in P
      BY <1>3, <1>4, <1>5
    <2>2. \A p \in P : NodeAt(pg, p) => p \in T
      BY <1>2, <1>5
    <2> QED
      BY <1>2, <1>6, <2>1, <2>2 DEF Net
  <1>8. 1 \in T /\ IsLeaf(pg[1])
    <2>1. 1 \in 1 .. Len(s) /\ s[1] = 1 /\ s[1] \in Pages(N) /\ IsLeaf(pg[s[1]])
      BY <1>1 DEF ChainIs
    <2> QED
      BY <1>1, <2>1 DEF NodeAt
  <1>9. \A p \in T : p < num /\ NodeAt(pg, p)
    BY <1>2, <1>3
  <1> QED
    BY <1>2, <1>3, <1>4, <1>5, <1>7, <1>8, <1>9

\* Lookups in a whole tree find what it holds.
LEMMA EntireCells ==
    ASSUME NEW pg, NEW N, NEW V, NEW num, NEW root, NEW T, Entire(pg, N, V, num, root, T)
    PROVE  EntriesOf(pg, N) \subseteq Cell(V)
  <1> SUFFICES ASSUME NEW p \in Pages(N), NEW e \in CellsAt(pg, p) PROVE e \in Cell(V)
    BY DEF EntriesOf
  <1>1. IsLeaf(pg[p]) /\ e \in CellSet(pg[p].cells)
    BY DEF CellsAt
  <1>2. p \in T
    BY <1>1 DEF Entire, NodeAt
  <1>3. NetNode(pg[p], T \cup {0}, Cell(V))
    BY <1>2, EntireNet DEF Net
  <1>4. pg[p].cells \in Seq(Cell(V))
    BY <1>1, <1>3, NetNodeIs
  <1> QED
    BY <1>1, <1>4 DEF CellSet

LEMMA EntireFinds ==
    ASSUME NEW pg, NEW N, NEW V, NEW num, NEW root, NEW T, Entire(pg, N, V, num, root, T),
           NEW key \in Nat
    PROVE  /\ DescentDefined(pg, root, key)
           /\ btree_find_leaf(pg, root, key) \in T
           /\ btree_find(pg, root, key)
                 = {c.value : c \in {d \in EntriesOf(pg, N) : d.key = key}}
  <1>1. PICK level, region :
           /\ Shape(pg, N, V, num, level) /\ Tidy(pg, N)
           /\ SearchTree(pg, N, level, root, T, region)
           /\ \A p \in Pages(N) : NodeAt(pg, p) => p \in T
    BY DEF Entire
  <1>2. T \subseteq Pages(N) /\ root \in Pages(N) /\ NodeAt(pg, root)
    BY <1>1 DEF SearchTree, Grove
  <1>3. PICK x : x = btree_find_leaf(pg, root, key)
    OBVIOUS
  <1>4. /\ DescentDefined(pg, root, key) /\ x \in T /\ IsLeaf(pg[x])
        /\ \A p \in T : \A c \in CellsAt(pg, p) : c.key = key => p = x
    BY <1>1, <1>2, <1>3, SearchFinds
  <1>5. x \in Pages(N)
    BY <1>2, <1>4
  <1>6. btree_find(pg, root, key) = {c.value : c \in {d \in CellsAt(pg, x) : d.key = key}}
    BY <1>1, <1>3, <1>4, <1>5, FindIs
  <1>7. {d \in EntriesOf(pg, N) : d.key = key} = {d \in CellsAt(pg, x) : d.key = key}
    <2>1. \A d : d \in EntriesOf(pg, N) <=> \E p \in Pages(N) : d \in CellsAt(pg, p)
      BY DEF EntriesOf
    <2>2. \A p \in Pages(N) : p \notin T => CellsAt(pg, p) = {}
      BY <1>1 DEF CellsAt, NodeAt
    <2> QED
      BY <1>4, <1>5, <2>1, <2>2
  <1> QED
    BY <1>3, <1>4, <1>6, <1>7

LEMMA EntireRange ==
    ASSUME NEW pg, NEW N, NEW V, NEW num, NEW root, NEW T, Entire(pg, N, V, num, root, T),
           NEW lo \in Nat, NEW hi \in Nat, NEW t, t = RangeCells(pg, root, lo, hi)
    PROVE  /\ t \in Seq(Cell(V))
           /\ \A e : e \in CellSet(t) <=> e \in EntriesOf(pg, N) /\ e.key \in lo .. hi
  <1>1. PICK level, region, s :
           /\ Shape(pg, N, V, num, level) /\ Tidy(pg, N)
           /\ SearchTree(pg, N, level, root, T, region)
           /\ \A p \in Pages(N) : NodeAt(pg, p) => p \in T
           /\ Following(pg, T, region)
           /\ ChainIs(s, pg, N) /\ LeavesIn(s, pg, N)
    BY DEF Entire
  <1>2. T \subseteq Pages(N) /\ root \in Pages(N) /\ NodeAt(pg, root) /\ 0 \in Pages(N)
    BY <1>1 DEF SearchTree, Grove, Shape, Pages
  <1>3. \A p \in Pages(N) : IsLeaf(pg[p]) => p \in T
    BY <1>1 DEF NodeAt
  <1>4. Links(s, pg, N)
    BY <1>1 DEF ChainIs, Links
  <1> QED
    BY <1>1, <1>2, <1>3, <1>4, RangeIs

\* What is in use behind the last node does not matter.
LEMMA EntireMore ==
    ASSUME NEW pg, NEW N, NEW V, NEW num, NEW root, NEW T, Entire(pg, N, V, num, root, T),
           NEW n \in Nat, num <= n, n <= N
    PROVE  Entire(pg, N, V, n, root, T)
  <1>1. PICK level, region, s :
           /\ Shape(pg, N, V, num, level) /\ Tidy(pg, N)
           /\ SearchTree(pg, N, level, root, T, region)
           /\ \A p \in Pages(N) : NodeAt(pg, p) => p \in T
           /\ Following(pg, T, region)
           /\ ChainIs(s, pg, N) /\ LeavesIn(s, pg, N)
    BY DEF Entire
  <1>2. Shape(pg, N, V, n, level)
    <2>1. N \in Nat /\ num \in 2 .. N
      BY <1>1 DEF Shape
    <2>2. n \in 2 .. N
      BY <2>1
    <2>3. ASSUME NEW p \in Pages(N), NodeAt(pg, p) PROVE p < n /\ level[p] + 2 <= n
      <3>1. p < num /\ level[p] + 2 <= num /\ level[p] \in Nat /\ p \in Nat
        BY <1>1, <2>3 DEF Shape, Pages
      <3> QED
        BY <2>1, <3>1
    <2> QED
      BY <1>1, <2>2, <2>3 DEF Shape
  <1> QED
    BY <1>1, <1>2 DEF Entire

LEMMA EntireInsert ==
    ASSUME NEW pg, NEW N, NEW V, NEW num, NEW root, NEW T, Entire(pg, N, V, num, root, T),
           NEW key \in Nat, NEW value \in V, Absent(pg, N, key),
           NEW r, r = index_insert(pg, num, root, key, value), r.num_pages <= N, ~r.lost
    PROVE  /\ Entire(r.pg, N, V, r.num_pages, r.root_page, T \cup num .. r.num_pages - 1)
           /\ EntriesOf(r.pg, N) = EntriesOf(pg, N) \cup {CellOf(key, value)}
  <1>1. PICK level0, region0, s :
           /\ Shape(pg, N, V, num, level0) /\ Tidy(pg, N)
           /\ SearchTree(pg, N, level0, root, T, region0)
           /\ \A p \in Pages(N) : NodeAt(pg, p) => p \in T
           /\ Following(pg, T, region0)
           /\ ChainIs(s, pg, N) /\ LeavesIn(s, pg, N)
    BY DEF Entire
  <1>2. PICK level : /\ Shape(pg, N, V, num, level) /\ Fresh(level, N, num)
                     /\ \A p \in Pages(N) : NodeAt(pg, p) => level[p] = level0[p]
    BY <1>1, FreshLevels
  <1>3. SearchTree(pg, N, level, root, T, region0)
    BY <1>1, <1>2, SearchLevels
  <1>4. /\ T \subseteq Pages(N) /\ root \in Pages(N) /\ NodeAt(pg, root)
        /\ \A p \in T : NodeAt(pg, p)
    BY <1>3 DEF SearchTree, Grove
  <1>5. DescentDefined(pg, root, key)
    BY EntireFinds
  <1>6. PICK x, cell, X : /\ x = btree_find_leaf(pg, root, key) /\ cell = CellOf(key, value)
                          /\ X = PagesOf(Path(pg, root, key))
    OBVIOUS
  <1>7. Grew(r, pg, N, V, num, level, root, X, cell)
    BY <1>2, <1>4, <1>5, <1>6, IndexGrew
  <1>8. Tidy(r.pg, N)
    BY <1>1, <1>2, <1>4, <1>5, IndexTidy
  <1>9. PICK U, region : Searched(r, N, level, num, T, region0, x, U, region)
    BY <1>1, <1>2, <1>3, <1>4, <1>5, <1>6, IndexSearch
  <1>10. /\ x \in Pages(N) /\ IsLeaf(pg[x])
         /\ LeavesTook(r, pg, N, num, root, x, cell)
    BY <1>2, <1>4, <1>5, <1>6, IndexLeaves
  <1>11. /\ Shape(r.pg, N, V, r.num_pages, level)
         /\ EntriesOf(r.pg, N) = EntriesOf(pg, N) \cup {cell}
         /\ \A p \in Pages(N) : p < num => (NodeAt(r.pg, p) <=> NodeAt(pg, p))
    BY <1>7 DEF Grew, NodeAt
  <1>12. /\ T \subseteq U /\ \A p \in num .. r.num_pages - 1 : p \in U
         /\ SearchTree(r.pg, N, level, r.root_page, U, region)
    BY <1>9 DEF Searched
  <1>13. /\ num \in Nat /\ r.num_pages \in Nat
         /\ \A p \in Pages(N) : p \in Nat /\ (NodeAt(r.pg, p) => p < r.num_pages)
    BY <1>2, <1>11 DEF Shape, Pages
  <1>14. ASSUME NEW p \in Pages(N), NodeAt(r.pg, p) PROVE p \in T \cup num .. r.num_pages - 1
    <2>1. CASE p < num
      BY <1>1, <1>11, <1>14, <2>1
    <2>2. CASE p >= num
      BY <1>13, <1>14, <2>2
    <2> QED
      BY <1>13, <2>1, <2>2
  <1>15. U = T \cup num .. r.num_pages - 1
    <2>1. \A p \in U : p \in Pages(N) /\ NodeAt(r.pg, p)
      BY <1>12 DEF SearchTree, Grove
    <2> QED
      BY <1>12, <1>14, <2>1
  <1>16. Following(r.pg, U, region)
    <2>1. \A p \in Pages(N) : IsLeaf(pg[p]) => p \in T
      BY <1>1 DEF NodeAt
    <2>2. \A p \in Pages(N) : IsLeaf(r.pg[p]) => p \in U
      BY <1>14, <1>15 DEF NodeAt
    <2> QED
      BY <1>1, <1>2, <1>3, <1>9, <1>10, <2>1, <2>2, FollowingInsert
  <1>17. PICK t : ChainIs(t, r.pg, N) /\ LeavesIn(t, r.pg, N)
    <2>1. PICK k \in 1 .. Len(s) : s[k] = x
      BY <1>1, <1>10 DEF LeavesIn
    <2>2. num # 0
      BY <1>1 DEF Shape
    <2> QED
      BY <1>1, <1>10, <2>1, <2>2, ChainGrows
  <1>18. \A p \in Pages(N) : NodeAt(r.pg, p) => p \in U
    BY <1>14, <1>15
  <1>19. Entire(r.pg, N, V, r.num_pages, r.root_page, U)
    BY <1>8, <1>11, <1>12, <1>16, <1>17, <1>18 DEF Entire
  <1> QED
    BY <1>6, <1>11, <1>15, <1>19

LEMMA EntireDelete ==
    ASSUME NEW pg, NEW N, NEW V, NEW num, NEW root, NEW T, Entire(pg, N, V, num, root, T),
           NEW key \in Nat, btree_find(pg, root, key) # {},
           NEW q, q = delete_from_index(pg, root, key)
    PROVE  /\ Entire(q, N, V, num, root, T)
           /\ EntriesOf(q, N) = {e \in EntriesOf(pg, N) : e.key # key}
  <1>1. PICK level, region, s :
           /\ Shape(pg, N, V, num, level) /\ Tidy(pg, N)
           /\ SearchTree(pg, N, level, root, T, region)
           /\ \A p \in Pages(N) : NodeAt(pg, p) => p \in T
           /\ Following(pg, T, region)
           /\ ChainIs(s, pg, N) /\ LeavesIn(s, pg, N)
    BY DEF Entire
  <1>2. /\ T \subseteq Pages(N) /\ root \in Pages(N) /\ NodeAt(pg, root) /\ ~NodeAt(pg, 0)
    BY <1>1 DEF SearchTree, Grove, Shape
  <1>3. PICK x : x = btree_find_leaf(pg, root, key)
    OBVIOUS
  <1>4. x \in T /\ x \in Pages(N) /\ IsLeaf(pg[x])
    BY <1>1, <1>2, <1>3, SearchFinds
  <1>5. Shape(q, N, V, num, level) /\ Tidy(q, N) /\ LeafCutBack(q, pg, N, x, key)
    BY <1>1, <1>3, <1>4, IndexCut
  <1>6. \E c \in CellsAt(pg, x) : c.key = key
    <2>1. btree_find(pg, root, key) = {c.value : c \in {d \in CellsAt(pg, x) : d.key = key}}
      BY <1>1, <1>3, <1>4, FindIs
    <2> QED
      BY <2>1
  <1>7. EntriesOf(q, N) = {e \in EntriesOf(pg, N) : e.key # key}
    BY <1>1, <1>4, <1>5, <1>6, EntriesCut
  <1>8. SearchTree(q, N, level, root, T, region)
    BY <1>1, <1>2, <1>4, <1>5, SearchCut
  <1>9. \A p \in Pages(N) : /\ IsLeaf(q[p]) <=> IsLeaf(pg[p])
                            /\ NodeAt(q, p) <=> NodeAt(pg, p)
                            /\ IsLeaf(pg[p]) => q[p].next = pg[p].next
    BY <1>5 DEF LeafCutBack, NodeAt
  <1>10. Following(q, T, region)
    BY <1>1, <1>2, <1>9, FollowingCut
  <1>11. ChainIs(s, q, N) /\ LeavesIn(s, q, N)
    BY <1>1, <1>9, ChainStays
  <1>12. \A p \in Pages(N) : NodeAt(q, p) => p \in T
    BY <1>1, <1>9
  <1>13. Entire(q, N, V, num, root, T)
    BY <1>5, <1>8, <1>10, <1>11, <1>12 DEF Entire
  <1> QED
    BY <1>7, <1>13

\* A file with no node but an empty leaf on page 1.
LEMMA EntireOne ==
    ASSUME NEW pg, NEW N \in Nat, pg = [p \in Pages(N) |-> pg[p]],
           pg[1] = Leaf(<< >>, 0), \A p \in Pages(N) : p # 1 => ~NodeAt(pg, p),
           NEW V, NEW num \in 2 .. N
    PROVE  Entire(pg, N, V, num, 1, {1}) /\ EntriesOf(pg, N) = {}
  <1>1. PICK level, none : level = [p \in Pages(N) |-> 0] /\ none = << >>
    OBVIOUS
  <1>2. 1 \in Pages(N) /\ 0 \in Pages(N) /\ level \in [Pages(N) -> Nat] /\ level[1] = 0
    BY <1>1 DEF Pages
  <1>3. /\ IsLeaf(pg[1]) /\ ~IsInternal(pg[1]) /\ pg[1].next = 0
        /\ pg[1].cells = none /\ GoodLeaf(pg[1], V, 0)
    <2>1. none \in Seq(Cell(V)) /\ Len(none) <= LEAF_NODE_MAX_CELLS /\ 0 \in Nat
      BY <1>1, NodeAssumption
    <2>2. pg[1] = Leaf(none, 0)
      BY <1>1
    <2>3. pg[1].next = 0
      BY <2>2 DEF Leaf
    <2> QED
      BY <2>1, <2>2, <2>3, LeafParts
  <1>4. Shape(pg, N, V, num, level)
    <2>1. ~NodeAt(pg, 0)
      BY <1>2
    <2>2. ASSUME NEW p \in Pages(N)
          PROVE  /\ NodeAt(pg, p) => p < num /\ level[p] + 2 <= num
                 /\ IsLeaf(pg[p]) => GoodLeaf(pg[p], V, level[p])
                 /\ IsInternal(pg[p]) => GoodInner(pg[p], Kids(pg, N, level, level[p]), level[p])
      BY <1>2, <1>3 DEF NodeAt
    <2> QED
      BY <1>2, <2>1, <2>2 DEF Shape
  <1>5. InOrder(none) /\ CellSet(none) = {}
    BY <1>1 DEF InOrder, CellSet
  <1>6. \A p \in Pages(N) : CellsAt(pg, p) = {}
    BY <1>3, <1>5 DEF CellsAt, NodeAt
  <1>7. Tidy(pg, N) /\ EntriesOf(pg, N) = {}
    BY <1>3, <1>5, <1>6 DEF Tidy, Apart, EntriesOf, NodeAt
  <1>8. PICK region : region = [p \in {1} |-> Nat]
    OBVIOUS
  <1>9. SearchTree(pg, N, level, 1, {1}, region)
    BY <1>2, <1>3, <1>4, <1>8, SearchOne
  <1>10. Following(pg, {1}, region)
    BY <1>3 DEF Following
  <1>11. ChainIs(<< 1 >>, pg, N) /\ LeavesIn(<< 1 >>, pg, N)
    BY <1>2, <1>3, ChainOne DEF NodeAt
  <1>12. \A p \in Pages(N) : NodeAt(pg, p) => p \in {1}
    OBVIOUS
  <1> QED
    BY <1>4, <1>7, <1>9, <1>10, <1>11, <1>12 DEF Entire

-----------------------------------------------------------------------------
(* A whole tree in a file that holds more.                                  *)

\* a holds a whole tree on the pages of T and no other node; b has the same there.
Within(a, b, N, V, num, root, T) ==
    /\ Entire(a, N, V, num, root, T)
    /\ Agree(a, b, N, T \cup {0})

LEMMA WithinFinds ==
    ASSUME NEW a, NEW b, NEW N, NEW V, NEW num, NEW root, NEW T,
           Within(a, b, N, V, num, root, T), NEW key \in Nat
    PROVE  /\ DescentDefined(b, root, key)
           /\ btree_find_leaf(b, root, key) = btree_find_leaf(a, root, key)
           /\ btree_find_leaf(a, root, key) \in T
           /\ btree_find(b, root, key)
                 = {c.value : c \in {d \in EntriesOf(a, N) : d.key = key}}
  <1>1. PICK x : x = btree_find_leaf(a, root, key)
    OBVIOUS
  <1>2. /\ DescentDefined(a, root, key) /\ x \in T
        /\ btree_find(a, root, key) = {c.value : c \in {d \in EntriesOf(a, N) : d.key = key}}
    BY <1>1, EntireFinds DEF Within
  <1>3. Net(a, N, T, T \cup {0}, Cell(V)) /\ root \in T
    BY EntireNet DEF Within
  <1>4. Path(b, root, key) = Path(a, root, key)
    BY <1>3, SamePath DEF Within
  <1>5. btree_find_leaf(b, root, key) = x
    BY <1>1, <1>4 DEF btree_find_leaf
  <1>6. x \in Pages(N) /\ b[x] = a[x] /\ DOMAIN b = Pages(N)
    BY <1>2, <1>3 DEF Net, Within, Agree
  <1>7. IsLeaf(a[x])
    BY <1>1, <1>2 DEF DescentDefined
  <1>8. btree_find(b, root, key) = btree_find(a, root, key)
    BY <1>1, <1>5, <1>6 DEF btree_find
  <1>9. DescentDefined(b, root, key)
    BY <1>5, <1>6, <1>7 DEF DescentDefined
  <1> QED
    BY <1>1, <1>2, <1>5, <1>8, <1>9

LEMMA WithinRange ==
    ASSUME NEW a, NEW b, NEW N, NEW V, NEW num, NEW root, NEW T,
           Within(a, b, N, V, num, root, T),
           NEW lo \in Nat, NEW hi \in Nat, NEW t, t = RangeCells(b, root, lo, hi)
    PROVE  /\ t \in Seq(Cell(V))
           /\ \A e : e \in CellSet(t) <=> e \in EntriesOf(a, N) /\ e.key \in lo .. hi
  <1>1. PICK x : x = btree_find_leaf(a, root, lo)
    OBVIOUS
  <1>2. /\ btree_find_leaf(b, root, lo) = x /\ x \in T
        /\ DescentDefined(a, root, lo)
    BY <1>1, WithinFinds, EntireFinds DEF Within
  <1>3. IsLeaf(a[x])
    BY <1>1, <1>2 DEF DescentDefined
  <1>4. PICK s : ChainIs(s, a, N) /\ LeavesIn(s, a, N)
    BY DEF Within, Entire
  <1>5. /\ Net(a, N, T, T \cup {0}, Cell(V)) /\ 0 \notin T
        /\ \A p \in Pages(N) : IsLeaf(a[p]) => p \in T
    BY EntireNet DEF Within, Entire, NodeAt
  <1>6. /\ N \in Nat /\ T \subseteq Pages(N) /\ 0 \in Pages(N) /\ ~IsLeaf(a[0])
        /\ a = [p \in Pages(N) |-> a[p]] /\ b = [p \in Pages(N) |-> b[p]]
        /\ b[0] = a[0] /\ \A p \in T : b[p] = a[p]
    BY <1>5 DEF Net, NodeAt, Within, Agree
  <1>7. PICK k \in 1 .. Len(s) : s[k] = x
    BY <1>2, <1>3, <1>4, <1>6 DEF LeavesIn
  <1>8. Links(s, a, N) /\ s \in Seq(Pages(N))
    BY <1>4 DEF ChainIs, Links
  <1>9. PICK u : /\ Links(u, a, N) /\ Len(u) = Len(s) + 1 - k
                 /\ \A i \in 1 .. Len(u) : u[i] = s[k + i - 1]
    BY <1>7, <1>8, LinksTail
  <1>10. PICK n : n = Len(u) /\ n \in Nat \ {0}
    BY <1>9 DEF Links
  <1>11. u[1] = x
    <2>1. 1 \in 1 .. n /\ k + 1 - 1 = k
      BY <1>7, <1>10
    <2> QED
      BY <1>7, <1>9, <1>10, <2>1
  <1>12. \A i \in 1 .. Len(u) : u[i] \in Pages(N) /\ u[i] \in T /\ b[u[i]] = a[u[i]]
    <2>1. u \in Seq(Pages(N)) /\ \A i \in 1 .. Len(u) : IsLeaf(a[u[i]])
      BY <1>9 DEF Links
    <2>2. \A i \in 1 .. Len(u) : u[i] \in Pages(N)
      BY <2>1
    <2> QED
      BY <1>5, <1>6, <2>1, <2>2
  <1>13. Links(u, b, N)
    BY <1>9, <1>12 DEF Links
  <1>14. Chain(a, x) = u /\ Chain(b, x) = u
    <2>1. ~IsLeaf(b[0])
      BY <1>6
    <2>2. Chain(a, x) = u
      <3>1. N \in Nat /\ 0 \in Pages(N) /\ ~IsLeaf(a[0]) /\ a = [p \in Pages(N) |-> a[p]]
        BY <1>6
      <3>2. Links(u, a, N) /\ x = u[1]
        BY <1>9, <1>11
      <3> QED
        BY <3>1, <3>2, ChainWalks
    <2>3. Chain(b, x) = u
      <3>1. N \in Nat /\ 0 \in Pages(N) /\ b = [p \in Pages(N) |-> b[p]]
        BY <1>6
      <3> QED
        BY <1>11, <1>13, <2>1, <3>1, ChainWalks
    <2> QED
      BY <2>2, <2>3
  <1>15. DOMAIN u = 1 .. Len(u)
    BY <1>9 DEF Links
  <1>16. ChainCells(b, x) = ChainCells(a, x)
    <2>1. [i \in DOMAIN u |-> b[u[i]].cells] = [i \in DOMAIN u |-> a[u[i]].cells]
      BY <1>12, <1>15
    <2> QED
      BY <1>14, <2>1 DEF ChainCells, Once
  <1>17. t = RangeCells(a, root, lo, hi)
    BY <1>1, <1>2, <1>16 DEF RangeCells
  <1> QED
    BY <1>17, EntireRange DEF Within

LEMMA AgreeNet ==
    ASSUME NEW a, NEW N, NEW T, NEW P, NEW G, Net(a, N, T, P, G),
           NEW b, Agree(a, b, N, P)
    PROVE  Net(b, N, T, P, G)
  <1>1. /\ N \in Nat /\ 0 \in P /\ T \subseteq P /\ P \subseteq Pages(N)
        /\ \A p \in T : NetNode(a[p], P, G)
        /\ \A p \in P : NodeAt(a, p) => p \in T
    BY DEF Net
  <1>2. b = [p \in Pages(N) |-> b[p]] /\ \A p \in P : b[p] = a[p]
    BY <1>1 DEF Agree
  <1> QED
    BY <1>1, <1>2 DEF Net, NodeAt

LEMMA WithinInsert ==
    ASSUME NEW a, NEW b, NEW N, NEW V, NEW num, NEW root, NEW T,
           Within(a, b, N, V, num, root, T),
           NEW key \in Nat, NEW value \in V, Absent(a, N, key),
           NEW e, e = index_insert(b, num, root, key, value), e.num_pages <= N, ~e.lost
    PROVE  \E q, U : /\ Within(q, e.pg, N, V, e.num_pages, e.root_page, U)
                     /\ EntriesOf(q, N) = EntriesOf(a, N) \cup {CellOf(key, value)}
  <1>1. PICK r, m, P : /\ r = index_insert(a, num, root, key, value) /\ m = r.num_pages
                       /\ P = T \cup {0}
    OBVIOUS
  <1>2. /\ Net(a, N, T, P, Cell(V)) /\ root \in T /\ num \in Nat /\ num >= 2
        /\ 0 \notin T /\ \A p \in T : p < num
    <2>1. /\ Net(a, N, T, P, Cell(V)) /\ root \in T /\ num \in 2 .. N
          /\ 0 \notin T /\ \A p \in T : p < num
      BY <1>1, EntireNet DEF Within
    <2>2. N \in Nat
      BY <2>1 DEF Net
    <2> QED
      BY <2>1, <2>2
  <1>3. DescentDefined(a, root, key) /\ DescentDefined(b, root, key)
    BY EntireFinds, WithinFinds DEF Within
  <1>4. Agree(a, b, N, P) /\ Net(b, N, T, P, Cell(V))
    BY <1>1, <1>2, AgreeNet DEF Within
  <1>5. /\ m \in Nat /\ num <= m /\ e.num_pages = m
        /\ e.root_page = r.root_page /\ e.lost = r.lost
        /\ Agree(r.pg, e.pg, N, T \cup num .. m - 1)
    BY <1>1, <1>2, <1>3, <1>4, SameInsert
  <1>6. /\ Entire(r.pg, N, V, m, r.root_page, T \cup num .. m - 1)
        /\ EntriesOf(r.pg, N) = EntriesOf(a, N) \cup {CellOf(key, value)}
    BY <1>1, <1>5, EntireInsert DEF Within
  <1>7. InUse(T, N, num) /\ 0 \in Pages(N) /\ 0 \notin num .. m - 1
    <2>1. \A p \in T : p \in Nat
      BY <1>2 DEF Net, Pages
    <2>2. T \subseteq 0 .. num - 1
      BY <1>2, <2>1
    <2>3. 0 \in Pages(N)
      BY <1>1, <1>2 DEF Net
    <2> QED
      BY <1>2, <2>2, <2>3 DEF InUse
  <1>8. CellOf(key, value) \in Cell(V)
    BY DEF CellOf, Cell
  <1>9. r.pg[0] = a[0] /\ e.pg[0] = b[0]
    <2>1. Rewoven(r.pg, m, a, N, T, P, Cell(V), num)
      BY <1>1, <1>2, <1>3, <1>5, <1>7, <1>8, NetInsert DEF NetGrew
    <2>2. Rewoven(e.pg, m, b, N, T, P, Cell(V), num)
      BY <1>2, <1>3, <1>4, <1>5, <1>7, <1>8, NetInsert DEF NetGrew
    <2> QED
      BY <1>2, <1>7, <2>1, <2>2 DEF Rewoven
  <1>10. PICK U : U = T \cup num .. m - 1
    OBVIOUS
  <1>11. Agree(r.pg, e.pg, N, U \cup {0})
    <2>1. r.pg[0] = e.pg[0]
      BY <1>1, <1>4, <1>7, <1>9 DEF Agree
    <2> QED
      BY <1>5, <1>10, <2>1 DEF Agree
  <1>12. Within(r.pg, e.pg, N, V, m, r.root_page, U)
    BY <1>6, <1>10, <1>11 DEF Within
  <1> QED
    BY <1>5, <1>6, <1>12

LEMMA WithinDelete ==
    ASSUME NEW a, NEW b, NEW N, NEW V, NEW num, NEW root, NEW T,
           Within(a, b, N, V, num, root, T),
           NEW key \in Nat, btree_find(b, root, key) # {},
           NEW e, e = delete_from_index(b, root, key)
    PROVE  \E q : /\ Within(q, e, N, V, num, root, T)
                  /\ EntriesOf(q, N) = {c \in EntriesOf(a, N) : c.key # key}
  <1>1. PICK q, x : q = delete_from_index(a, root, key) /\ x = btree_find_leaf(a, root, key)
    OBVIOUS
  <1>2. /\ btree_find_leaf(b, root, key) = x /\ x \in T
        /\ btree_find(a, root, key) # {}
    BY <1>1, WithinFinds, EntireFinds DEF Within
  <1>3. /\ Entire(q, N, V, num, root, T)
        /\ EntriesOf(q, N) = {c \in EntriesOf(a, N) : c.key # key}
    BY <1>1, <1>2, EntireDelete DEF Within
  <1>4. Net(a, N, T, T \cup {0}, Cell(V))
    BY EntireNet DEF Within
  <1>5. a[x] = b[x]
    BY <1>2, <1>4 DEF Net, Within, Agree
  <1>6. PICK node : node = [a[x] EXCEPT !.cells = leaf_delete(@, key)]
    OBVIOUS
  <1>7. q = Put(a, x, node)
    BY <1>1, <1>6 DEF delete_from_index, Put
  <1>8. e = Put(b, x, node)
    BY <1>2, <1>5, <1>6 DEF delete_from_index, Put
  <1>9. Agree(q, e, N, T \cup {0})
    BY <1>7, <1>8, AgreePut DEF Within
  <1> QED
    BY <1>3, <1>9 DEF Within

\* Other pages may change as they like, as long as page 0 becomes no node.
LEMMA WithinSame ==
    ASSUME NEW a, NEW b, NEW N, NEW V, NEW num, NEW root, NEW T,
           Within(a, b, N, V, num, root, T),
           NEW c, c = [p \in Pages(N) |-> c[p]],
           \A p \in Pages(N) : p = 0 \/ NodeAt(b, p) => c[p] = b[p]
    PROVE  Within(a, c, N, V, num, root, T)
  <1>1. Net(a, N, T, T \cup {0}, Cell(V)) /\ \A p \in T : NodeAt(a, p)
    BY EntireNet DEF Within
  <1>2. T \subseteq Pages(N) /\ Agree(a, b, N, T \cup {0})
    BY <1>1 DEF Within, Net
  <1>3. \A p \in T : NodeAt(b, p)
    BY <1>1, <1>2 DEF Agree, NodeAt
  <1>4. Agree(a, c, N, T \cup {0})
    BY <1>2, <1>3 DEF Agree
  <1> QED
    BY <1>4 DEF Within

LEMMA WithinMore ==
    ASSUME NEW a, NEW b, NEW N, NEW V, NEW num, NEW root, NEW T,
           Within(a, b, N, V, num, root, T), NEW n \in Nat, num <= n, n <= N
    PROVE  Within(a, b, N, V, n, root, T)
  BY EntireMore DEF Within

\* An empty leaf on page 1, whatever the other pages are.
LEMMA WithinOne ==
    ASSUME NEW b, NEW N \in Nat, b = [p \in Pages(N) |-> b[p]],
           b[1] = Leaf(<< >>, 0), ~NodeAt(b, 0), NEW V, NEW num \in 2 .. N
    PROVE  \E a : /\ Within(a, b, N, V, num, 1, {1}) /\ EntriesOf(a, N) = {}
  <1>1. PICK a : a = [p \in Pages(N) |-> IF p \in {0, 1} THEN b[p] ELSE b[0]]
    OBVIOUS
  <1>2. 1 \in Pages(N) /\ 0 \in Pages(N)
    BY DEF Pages
  <1>3. /\ a = [p \in Pages(N) |-> a[p]] /\ a[1] = b[1] /\ a[0] = b[0]
        /\ \A p \in Pages(N) : p # 1 => a[p] = b[0]
    BY <1>1, <1>2
  <1>4. \A p \in Pages(N) : p # 1 => ~NodeAt(a, p)
    BY <1>3 DEF NodeAt
  <1>5. Entire(a, N, V, num, 1, {1}) /\ EntriesOf(a, N) = {}
    BY <1>3, <1>4, EntireOne
  <1>6. Agree(a, b, N, {1} \cup {0})
    BY <1>3 DEF Agree
  <1> QED
    BY <1>5, <1>6 DEF Within
=============================================================================
