-------------------------- MODULE BPlusTreeProofs ---------------------------
(***************************************************************************)
(* Proofs about BPlusTree, for nodes of any size, a file of any size and   *)
(* any keys and pointers.                                                  *)
(***************************************************************************)
EXTENDS BPlusTree, TreeProofs
LOCAL INSTANCE SequencesExt

-----------------------------------------------------------------------------
(* The pages form a tree, whatever has become of it *)

Formed(level) == Shape(page, TABLE_MAX_PAGES, RowPointers, num_pages, level)

\* A restart makes page 1 the root, so page 1 stays a leaf.
Rooted ==
    /\ root_page \in PageNums /\ NodeAt(page, root_page)
    /\ IsLeaf(page[1])

Sound ==
    /\ \E level : Formed(level)
    /\ Rooted
    /\ Tidy(page, TABLE_MAX_PAGES)

LEMMA Numbers ==
    /\ PageNums = Pages(TABLE_MAX_PAGES)
    /\ 0 \in PageNums /\ 1 \in PageNums
    /\ \A key \in Keys : key \in Nat /\ \A value \in PointersOf[key] : value \in RowPointers
  <1>1. 0 \in PageNums /\ 1 \in PageNums
    BY BPlusTreeAssumption DEF PageNums
  <1> QED
    BY <1>1, BPlusTreeAssumption DEF PageNums, Pages, RowPointers

\* The entries are what the leaves hold, and a key is present if one has it.
LEMMA EntriesAre ==
    ASSUME NEW level, Formed(level)
    PROVE  /\ Entries = EntriesOf(page, TABLE_MAX_PAGES)
           /\ \A e \in Entries : e.key \in Nat /\ e = CellOf(e.key, e.value)
           /\ \A key : ~Present(key) <=> Absent(page, TABLE_MAX_PAGES, key)
  <1>1. PICK N : N = TABLE_MAX_PAGES
    OBVIOUS
  <1>2. PageNums = Pages(N)
    BY <1>1, Numbers
  <1>3. ASSUME NEW p \in Pages(N), IsLeaf(page[p])
        PROVE  ToSet(page[p].cells) = CellsAt(page, p)
    <2>1. GoodLeaf(page[p], RowPointers, level[p])
      BY <1>1, <1>3 DEF Formed, Shape
    <2>2. page[p].cells \in Seq(Cell(RowPointers))
      BY <2>1, LeafNode
    <2>3. DOMAIN page[p].cells = 1 .. Len(page[p].cells)
      BY <2>2, CellKeys
    <2> QED
      BY <1>3, <2>3 DEF ToSet, CellsAt, CellSet
  <1>4. Entries = EntriesOf(page, N)
    <2>1. \A p \in Pages(N) : ~IsLeaf(page[p]) => CellsAt(page, p) = {}
      BY DEF CellsAt
    <2> QED
      BY <1>2, <1>3, <2>1 DEF Entries, EntriesOf
  <1>5. \A e : e \in Entries <=> \E p \in Pages(N) : e \in CellsAt(page, p)
    BY <1>4 DEF EntriesOf
  <1>6. ASSUME NEW e \in Entries PROVE e.key \in Nat /\ e = CellOf(e.key, e.value)
    <2>1. PICK p \in Pages(N) : e \in CellsAt(page, p)
      BY <1>5
    <2>2. e \in Cell(RowPointers) /\ e.key \in Nat
      BY <1>1, <2>1, CellsOfShape DEF Formed
    <2> QED
      BY <2>2 DEF Cell, CellOf
  <1>7. ASSUME NEW key PROVE ~Present(key) <=> Absent(page, N, key)
    BY <1>5 DEF Present, Absent
  <1> QED
    BY <1>1, <1>4, <1>6, <1>7

LEMMA InitSound ==
    ASSUME Init
    PROVE  Sound
  <1>1. PICK N, V, level : /\ N = TABLE_MAX_PAGES /\ V = RowPointers
                           /\ level = [p \in Pages(N) |-> 0]
    OBVIOUS
  <1>2. N \in Nat /\ N >= 2 /\ PageNums = Pages(N) /\ 1 \in Pages(N) /\ 0 \in Pages(N)
    BY <1>1, BPlusTreeAssumption, Numbers
  <1>3. /\ page = [p \in Pages(N) |-> page[p]]
        /\ page[1] = Leaf(<< >>, 0)
        /\ \A p \in Pages(N) : p # 1 => ~IsLeaf(page[p]) /\ ~IsInternal(page[p])
    BY <1>2 DEF Init, META_PAGE, initialize_leaf_node, IsLeaf, IsInternal
  <1>4. << >> \in Seq(Cell(V)) /\ Len(<< >>) = 0
    OBVIOUS
  <1>5. PICK none : none = << >>
    OBVIOUS
  <1>6. /\ IsLeaf(page[1]) /\ ~IsInternal(page[1])
        /\ page[1].cells = none /\ GoodLeaf(page[1], V, 0)
    <2>1. none \in Seq(Cell(V)) /\ Len(none) <= LEAF_NODE_MAX_CELLS /\ 0 \in Nat
      BY <1>4, <1>5, NodeAssumption
    <2>2. page[1] = Leaf(none, 0)
      BY <1>3, <1>5
    <2> QED
      BY <2>1, <2>2, LeafParts
  <1>7. Shape(page, N, V, num_pages, level)
    <2>1. num_pages = 2 /\ level \in [Pages(N) -> Nat] /\ level[1] = 0
      BY <1>1, <1>2 DEF Init
    <2>2. ~NodeAt(page, 0)
      BY <1>2, <1>3 DEF NodeAt
    <2>3. ASSUME NEW p \in Pages(N)
          PROVE  /\ NodeAt(page, p) => p < 2 /\ level[p] + 2 <= 2
                 /\ IsLeaf(page[p]) => GoodLeaf(page[p], V, level[p])
                 /\ IsInternal(page[p]) => GoodInner(page[p], Kids(page, N, level, level[p]), level[p])
      BY <1>3, <1>6, <2>1 DEF NodeAt
    <2> QED
      BY <1>2, <1>3, <2>1, <2>2, <2>3 DEF Shape
  <1>8. Tidy(page, N)
    <2>1. InOrder(none) /\ CellSet(none) = {}
      BY <1>5 DEF InOrder, CellSet
    <2>2. \A p \in Pages(N) : CellsAt(page, p) = {}
      BY <1>3, <1>6, <2>1 DEF CellsAt
    <2> QED
      BY <1>3, <1>6, <2>1, <2>2 DEF Tidy, Apart
  <1>9. Rooted
    BY <1>2, <1>6 DEF Init, Rooted, NodeAt
  <1> QED
    BY <1>1, <1>7, <1>8, <1>9 DEF Sound, Formed

\* An insertion that ends well.
Inserts(key, value, out) ==
    /\ Running /\ ~Present(key)
    /\ DescentDefined(page, root_page, key)
    /\ out = index_insert(page, num_pages, root_page, key, value)
    /\ out.num_pages <= TABLE_MAX_PAGES
    /\ page' = out.pg
    /\ num_pages' = out.num_pages
    /\ root_page' = out.root_page
    /\ damage' = damage \cup IF out.lost THEN {"lost_child"} ELSE {}
    /\ UNCHANGED status

\* What any step does: it changes no page, or inserts, or deletes.
LEMMA StepKinds ==
    ASSUME Sound, Next
    PROVE  \/ /\ UNCHANGED << page, num_pages >>
              /\ \/ UNCHANGED << root_page, damage >>
                 \/ Reopen
           \/ \E key \in Keys : \E value \in PointersOf[key] : \E out : Inserts(key, value, out)
           \/ \E key \in Keys : /\ Running /\ Delete(key)
                                /\ DescentDefined(page, root_page, key)
                                /\ btree_find(page, root_page, key) # {}
                                /\ page' = delete_from_index(page, root_page, key)
                                /\ UNCHANGED << num_pages, root_page, status, damage >>
  <1>1. \/ \E key \in Keys : \E value \in PointersOf[key] : Insert(key, value)
        \/ \E key \in Keys : Delete(key)
        \/ Reopen
    BY DEF Next
  <1>2. CASE Reopen
    BY <1>2 DEF Reopen
  <1>3. ASSUME NEW key \in Keys, Delete(key)
        PROVE  \/ UNCHANGED << page, num_pages, root_page, damage >>
               \/ /\ Running /\ Delete(key)
                  /\ DescentDefined(page, root_page, key)
                  /\ btree_find(page, root_page, key) # {}
                  /\ page' = delete_from_index(page, root_page, key)
                  /\ UNCHANGED << num_pages, root_page, status, damage >>
    BY <1>3 DEF Delete, Undefined
  <1>4. ASSUME NEW key \in Keys, NEW value \in PointersOf[key], Insert(key, value)
        PROVE  \/ UNCHANGED << page, num_pages, root_page, damage >>
               \/ \E out : Inserts(key, value, out)
    <2>1. CASE Undefined(key)
      BY <2>1 DEF Undefined
    <2>2. CASE ~Undefined(key)
      <3>1. PICK out :
               /\ out = index_insert(page, num_pages, root_page, key, value)
               /\ Running /\ ~Present(key) /\ DescentDefined(page, root_page, key)
               /\ IF out.num_pages > TABLE_MAX_PAGES
                  THEN /\ status' = "exit"
                       /\ UNCHANGED << page, num_pages, root_page, damage >>
                  ELSE /\ page' = out.pg
                       /\ num_pages' = out.num_pages
                       /\ root_page' = out.root_page
                       /\ damage' = damage \cup IF out.lost THEN {"lost_child"} ELSE {}
                       /\ UNCHANGED status
        BY <1>4, <2>2 DEF Insert
      <3>2. out.num_pages \in Nat
        <4>1. PICK lev : Formed(lev) /\ Fresh(lev, TABLE_MAX_PAGES, num_pages)
          BY FreshLevels DEF Sound, Formed
        <4>2. key \in Nat /\ value \in RowPointers
          BY Numbers
        <4> QED
          BY <3>1, <4>1, <4>2, IndexCount, Numbers DEF Sound, Rooted, Formed
      <3> QED
        BY <3>1, <3>2, BPlusTreeAssumption DEF Inserts
    <2> QED
      BY <2>1, <2>2
  <1> QED
    BY <1>1, <1>2, <1>3, <1>4

\* What an insertion does to the tree, with levels that foresee the new nodes.
InsertGrew(level, key, value) ==
    /\ Grew(index_insert(page, num_pages, root_page, key, value), page, TABLE_MAX_PAGES,
            RowPointers, num_pages, level, root_page, PagesOf(Path(page, root_page, key)),
            CellOf(key, value))
    /\ Formed(level)' /\ Rooted' /\ Tidy(page, TABLE_MAX_PAGES)'
    /\ EntriesOf(page, TABLE_MAX_PAGES)'
          = EntriesOf(page, TABLE_MAX_PAGES) \cup {CellOf(key, value)}

LEMMA InsertKeeps ==
    ASSUME Sound, NEW level, Formed(level), Fresh(level, TABLE_MAX_PAGES, num_pages),
           NEW key \in Keys, NEW value \in PointersOf[key], NEW out, Inserts(key, value, out)
    PROVE  InsertGrew(level, key, value)
  <1>1. PICK N, V, X, cell : /\ N = TABLE_MAX_PAGES /\ V = RowPointers
                             /\ X = PagesOf(Path(page, root_page, key))
                             /\ cell = CellOf(key, value)
    OBVIOUS
  <1>2. /\ Shape(page, N, V, num_pages, level) /\ Fresh(level, N, num_pages)
        /\ root_page \in Pages(N) /\ NodeAt(page, root_page) /\ IsLeaf(page[1])
        /\ Tidy(page, N) /\ 1 \in Pages(N)
        /\ key \in Nat /\ value \in V
    BY <1>1, Numbers DEF Sound, Rooted, Formed
  <1>3. /\ DescentDefined(page, root_page, key)
        /\ out = index_insert(page, num_pages, root_page, key, value)
        /\ out.num_pages <= N
    BY <1>1 DEF Inserts
  <1>4. Absent(page, N, key)
    BY <1>1, EntriesAre DEF Inserts
  <1>5. Grew(out, page, N, V, num_pages, level, root_page, X, cell)
    BY <1>1, <1>2, <1>3, IndexGrew
  <1>6. Tidy(out.pg, N)
    BY <1>2, <1>3, <1>4, IndexTidy
  <1>7. /\ Shape(out.pg, N, V, out.num_pages, level)
        /\ out.root_page \in Pages(N) /\ NodeAt(out.pg, out.root_page)
        /\ EntriesOf(out.pg, N) = EntriesOf(page, N) \cup {cell}
        /\ \A p \in Pages(N) : p < num_pages => (IsLeaf(out.pg[p]) <=> IsLeaf(page[p]))
    BY <1>5 DEF Grew
  <1>8. 1 < num_pages
    BY <1>2 DEF Shape
  <1>9. page' = out.pg /\ num_pages' = out.num_pages /\ root_page' = out.root_page
    BY DEF Inserts
  <1>10. Shape(page', N, V, num_pages', level) /\ Tidy(page', N)
         /\ root_page' \in Pages(N) /\ NodeAt(page', root_page') /\ IsLeaf(page'[1])
         /\ EntriesOf(page', N) = EntriesOf(page, N) \cup {cell}
    BY <1>2, <1>6, <1>7, <1>8, <1>9
  <1>11. Formed(level)' /\ Rooted' /\ Tidy(page, TABLE_MAX_PAGES)'
    BY <1>1, <1>10, Numbers DEF Formed, Rooted
  <1> QED
    BY <1>1, <1>3, <1>5, <1>10, <1>11 DEF InsertGrew

\* What a deletion does to the leaf x that its descent ends at.
DeleteCut(level, key, x) ==
    /\ x = btree_find_leaf(page, root_page, key) /\ x \in PageNums
    /\ LeafCutBack(page', page, TABLE_MAX_PAGES, x, key)
    /\ Formed(level)' /\ Rooted' /\ Tidy(page, TABLE_MAX_PAGES)'
    /\ EntriesOf(page, TABLE_MAX_PAGES)'
          = {e \in EntriesOf(page, TABLE_MAX_PAGES) : e.key # key}

LEMMA DeleteKeeps ==
    ASSUME Sound, NEW level, Formed(level), NEW key \in Keys,
           DescentDefined(page, root_page, key),
           btree_find(page, root_page, key) # {},
           page' = delete_from_index(page, root_page, key),
           UNCHANGED << num_pages, root_page >>
    PROVE  \E x : DeleteCut(level, key, x)
  <1>1. PICK N, V, x, q : /\ N = TABLE_MAX_PAGES /\ V = RowPointers
                          /\ x = btree_find_leaf(page, root_page, key) /\ q = page'
    OBVIOUS
  <1>2. /\ Shape(page, N, V, num_pages, level)
        /\ root_page \in Pages(N) /\ NodeAt(page, root_page) /\ IsLeaf(page[1])
        /\ Tidy(page, N) /\ key \in Nat /\ PageNums = Pages(N) /\ 1 \in Pages(N)
    BY <1>1, Numbers DEF Sound, Rooted, Formed
  <1>3. x \in Pages(N) /\ IsLeaf(page[x])
    <2>1. DOMAIN page = Pages(N)
      BY <1>2 DEF Shape
    <2> QED
      BY <1>1, <2>1 DEF DescentDefined
  <1>4. Shape(q, N, V, num_pages, level) /\ Tidy(q, N) /\ LeafCutBack(q, page, N, x, key)
    BY <1>1, <1>2, <1>3, IndexCut
  <1>5. \E c \in CellsAt(page, x) : c.key = key
    <2>1. btree_find(page, root_page, key)
             = {c.value : c \in {d \in CellsAt(page, x) : d.key = key}}
      BY <1>1, <1>2, <1>3, FindIs
    <2> QED
      BY <2>1
  <1>6. EntriesOf(q, N) = {e \in EntriesOf(page, N) : e.key # key}
    BY <1>2, <1>3, <1>4, <1>5, EntriesCut
  <1>7. ASSUME NEW p \in Pages(N)
        PROVE  NodeAt(page, p) => NodeAt(q, p) /\ (IsLeaf(page[p]) => IsLeaf(q[p]))
    BY <1>4 DEF LeafCutBack, NodeAt
  <1>8. Rooted'
    <2>0. NodeAt(page, 1)
      BY <1>2 DEF NodeAt
    <2>1. NodeAt(q, root_page) /\ IsLeaf(q[1])
      BY <1>2, <1>7, <2>0
    <2>2. page' = q /\ root_page' = root_page
      BY <1>1
    <2>3. root_page' \in PageNums /\ NodeAt(page', root_page') /\ IsLeaf(page'[1])
      BY <1>2, <2>1, <2>2
    <2> QED
      BY <2>3 DEF Rooted
  <1>9. Formed(level)' /\ Tidy(page, TABLE_MAX_PAGES)'
    BY <1>1, <1>4 DEF Formed
  <1>10. DeleteCut(level, key, x)
    BY <1>1, <1>2, <1>3, <1>4, <1>6, <1>8, <1>9 DEF DeleteCut
  <1> QED
    BY <1>10

LEMMA SoundStep ==
    ASSUME Sound, [Next]_vars
    PROVE  Sound'
  <1>1. PICK level : Formed(level) /\ Fresh(level, TABLE_MAX_PAGES, num_pages)
    BY FreshLevels DEF Sound, Formed
  <1>2. ASSUME UNCHANGED << page, num_pages, root_page >> PROVE Sound'
    BY <1>2 DEF Sound, Formed, Rooted
  <1>3. CASE UNCHANGED vars
    BY <1>2, <1>3 DEF vars
  <1>4. CASE Next
    <2>1. CASE Reopen
      <3>1. 1 \in PageNums /\ NodeAt(page, 1) /\ UNCHANGED << page, num_pages >> /\ root_page' = 1
        BY <2>1, Numbers DEF Reopen, Sound, Rooted, NodeAt
      <3> QED
        BY <3>1 DEF Sound, Formed, Rooted
    <2>2. ASSUME NEW key \in Keys, NEW value \in PointersOf[key], NEW out,
                 Inserts(key, value, out)
          PROVE  Sound'
      <3>1. InsertGrew(level, key, value)
        BY <1>1, <2>2, InsertKeeps
      <3> QED
        BY <3>1 DEF InsertGrew, Sound
    <2>3. ASSUME NEW key \in Keys, DescentDefined(page, root_page, key),
                 btree_find(page, root_page, key) # {},
                 page' = delete_from_index(page, root_page, key),
                 UNCHANGED << num_pages, root_page >>
          PROVE  Sound'
      <3>1. PICK x : DeleteCut(level, key, x)
        BY <1>1, <2>3, DeleteKeeps
      <3> QED
        BY <3>1 DEF DeleteCut, Sound
    <2> QED
      BY <1>2, <1>4, <2>1, <2>2, <2>3, StepKinds
  <1> QED
    BY <1>3, <1>4

LEMMA AlwaysSound == Spec => []Sound
  <1>1. Init => Sound
    BY InitSound
  <1>2. Sound /\ [Next]_vars => Sound'
    BY SoundStep
  <1> QED
    BY <1>1, <1>2, PTL DEF Spec

-----------------------------------------------------------------------------
(* The index is a map that changes one key at a time *)

EntriesAgree == Sound => Entries = EntriesOf(page, TABLE_MAX_PAGES)

LEMMA EntriesNow == EntriesAgree
  BY EntriesAre DEF EntriesAgree, Sound

LEMMA EntriesThen == EntriesAgree'
  BY EntriesNow, PTL

LEMMA IndexStep ==
    ASSUME Sound, Sound', [Next]_vars
    PROVE  [Index!Next]_Entries
  <1>1. PICK level : Formed(level) /\ Fresh(level, TABLE_MAX_PAGES, num_pages)
    BY FreshLevels DEF Sound, Formed
  <1>2. /\ Entries = EntriesOf(page, TABLE_MAX_PAGES)
        /\ Entries' = EntriesOf(page, TABLE_MAX_PAGES)'
    BY EntriesNow, EntriesThen DEF EntriesAgree
  <1>3. ASSUME UNCHANGED page PROVE UNCHANGED Entries
    BY <1>3 DEF Entries
  <1>4. ASSUME NEW key \in Keys, NEW value \in PointersOf[key], NEW out,
               Inserts(key, value, out)
        PROVE  Index!Next
    <2>1. InsertGrew(level, key, value)
      BY <1>1, <1>4, InsertKeeps
    <2>2. Entries' = Entries \cup {[key |-> key, value |-> value]}
      BY <1>2, <2>1 DEF InsertGrew, CellOf
    <2>3. ~Index!KeyIn(key)
      BY <1>4 DEF Inserts, Present, Index!KeyIn
    <2>4. value \in RowPointers
      BY Numbers
    <2> QED
      BY <2>2, <2>3, <2>4 DEF Index!Next, Index!Put
  <1>5. ASSUME NEW key \in Keys, DescentDefined(page, root_page, key),
               btree_find(page, root_page, key) # {},
               page' = delete_from_index(page, root_page, key),
               UNCHANGED << num_pages, root_page >>
        PROVE  Index!Next
    <2>1. PICK x : DeleteCut(level, key, x)
      BY <1>1, <1>5, DeleteKeeps
    <2>2. Entries' = {e \in Entries : e.key # key}
      BY <1>2, <2>1 DEF DeleteCut
    <2> QED
      BY <2>2 DEF Index!Next, Index!Remove
  <1>6. CASE UNCHANGED vars
    BY <1>3, <1>6 DEF vars
  <1>7. CASE Next
    BY <1>3, <1>4, <1>5, <1>7, StepKinds
  <1> QED
    BY <1>6, <1>7

LEMMA IndexInit ==
    ASSUME Init
    PROVE  Index!Init
  <1>1. \A p \in PageNums : IsLeaf(page[p]) => page[p].cells = << >>
    BY DEF Init, META_PAGE, initialize_leaf_node, Leaf, IsLeaf
  <1>2. ToSet(<< >>) = {}
    BY DEF ToSet
  <1> QED
    BY <1>1, <1>2 DEF Index!Init, Entries

\* Whatever becomes of the tree, no entry is dropped, doubled or altered by an
\* operation on another key: splits, new roots, forgotten children and restarts
\* change one key at a time of what the leaves hold.
THEOREM EntriesChangeOneKey == Spec => ChangesOneKey
  <1>1. Init => Index!Init
    BY IndexInit
  <1>2. Sound /\ Sound' /\ [Next]_vars => [Index!Next]_Entries
    BY IndexStep
  <1>3. Spec => []Sound
    BY AlwaysSound
  <1>4. Spec => Index!Spec
    BY <1>1, <1>2, <1>3, PTL DEF Spec, Index!Spec
  <1> QED
    BY <1>4 DEF ChangesOneKey

-----------------------------------------------------------------------------
(* The search tree, until one of the two defects strikes *)

\* Until a child is forgotten, descents meet a search tree, and a separator is in
\* a node once, also in the nodes that a restart has cut off.  Until a restart
\* forgets the root as well, every leaf is in that tree, and the chain meets the
\* leaves in the order of their regions.
Searching(level) ==
    "lost_child" \notin damage =>
        /\ \A p \in PageNums : IsInternal(page[p]) => Strict(page[p].keys)
        /\ \E T, region :
              /\ SearchTree(page, TABLE_MAX_PAGES, level, root_page, T, region)
              /\ damage = {} => /\ \A p \in PageNums : IsLeaf(page[p]) => p \in T
                                /\ Following(page, T, region)

Searchable == \E level : Formed(level) /\ Searching(level)

LEMMA SearchFresh ==
    ASSUME Searchable
    PROVE  \E level : /\ Formed(level) /\ Fresh(level, TABLE_MAX_PAGES, num_pages)
                      /\ Searching(level)
  <1>1. PICK level : Formed(level) /\ Searching(level)
    BY DEF Searchable
  <1>2. PICK lev : /\ Formed(lev) /\ Fresh(lev, TABLE_MAX_PAGES, num_pages)
                   /\ \A p \in Pages(TABLE_MAX_PAGES) : NodeAt(page, p) => lev[p] = level[p]
    BY <1>1, FreshLevels DEF Formed
  <1>3. Searching(lev)
    <2> SUFFICES ASSUME "lost_child" \notin damage PROVE Searching(lev)
      BY DEF Searching
    <2>1. PICK T, region :
             /\ SearchTree(page, TABLE_MAX_PAGES, level, root_page, T, region)
             /\ damage = {} => /\ \A p \in PageNums : IsLeaf(page[p]) => p \in T
                               /\ Following(page, T, region)
      BY <1>1 DEF Searching
    <2>2. SearchTree(page, TABLE_MAX_PAGES, lev, root_page, T, region)
      BY <1>2, <2>1, SearchLevels
    <2>3. \A p \in PageNums : IsInternal(page[p]) => Strict(page[p].keys)
      BY <1>1 DEF Searching
    <2> QED
      BY <2>1, <2>2, <2>3 DEF Searching
  <1> QED
    BY <1>2, <1>3

LEMMA InitSearchable ==
    ASSUME Init
    PROVE  Searchable
  <1>1. PICK level : Formed(level)
    BY InitSound DEF Sound
  <1>2. /\ root_page = 1 /\ damage = {} /\ 1 \in Pages(TABLE_MAX_PAGES)
        /\ IsLeaf(page[1])
        /\ \A p \in PageNums : ~IsInternal(page[p]) /\ (IsLeaf(page[p]) => p = 1)
        /\ page[1].next = 0
    BY Numbers DEF Init, META_PAGE, initialize_leaf_node, Leaf, IsLeaf, IsInternal
  <1>3. SearchTree(page, TABLE_MAX_PAGES, level, 1, {1}, [p \in {1} |-> Nat])
    BY <1>1, <1>2, SearchOne DEF Formed
  <1>4. /\ \A p \in PageNums : IsLeaf(page[p]) => p \in {1}
        /\ Following(page, {1}, [p \in {1} |-> Nat])
    BY <1>2 DEF Following
  <1>5. Searching(level)
    BY <1>2, <1>3, <1>4 DEF Searching
  <1> QED
    BY <1>1, <1>5 DEF Searchable

LEMMA SearchableReopen ==
    ASSUME Sound, Searchable, Reopen
    PROVE  Searchable'
  <1>1. PICK level : Formed(level) /\ Searching(level)
    BY DEF Searchable
  <1>2. /\ root_page' = 1 /\ UNCHANGED << page, num_pages >>
        /\ damage' = damage \cup IF root_page # 1 THEN {"stale_root"} ELSE {}
        /\ 1 \in Pages(TABLE_MAX_PAGES) /\ IsLeaf(page[1])
    BY Numbers DEF Reopen, Sound, Rooted
  <1>3. Formed(level)'
    BY <1>1, <1>2 DEF Formed
  <1>4. CASE root_page = 1
    <2>1. damage' = damage
      BY <1>2, <1>4
    <2> QED
      BY <1>1, <1>2, <1>3, <1>4, <2>1 DEF Searchable, Searching
  <1>5. CASE root_page # 1
    <2>1. /\ damage' # {}
          /\ "lost_child" \notin damage' => "lost_child" \notin damage
      BY <1>2, <1>5
    <2>2. SearchTree(page, TABLE_MAX_PAGES, level, 1, {1}, [p \in {1} |-> Nat])
      BY <1>1, <1>2, SearchOne DEF Formed
    <2>3. SearchTree(page, TABLE_MAX_PAGES, level, root_page, {1}, [p \in {1} |-> Nat])'
      BY <1>2, <2>2
    <2>4. "lost_child" \notin damage' =>
             \A p \in PageNums : IsInternal(page'[p]) => Strict(page'[p].keys)
      BY <1>1, <1>2, <2>1 DEF Searching
    <2>5. Searching(level)'
      BY <2>1, <2>3, <2>4 DEF Searching
    <2> QED
      BY <1>3, <2>5 DEF Searchable
  <1> QED
    BY <1>4, <1>5

LEMMA SearchableDelete ==
    ASSUME Sound, NEW level, Formed(level), Searching(level), NEW key, NEW x,
           DeleteCut(level, key, x), UNCHANGED << root_page, damage >>
    PROVE  Searchable'
  <1>1. PICK q, N : q = page' /\ N = TABLE_MAX_PAGES
    OBVIOUS
  <1>2. /\ LeafCutBack(q, page, N, x, key) /\ x \in Pages(N) /\ PageNums = Pages(N)
        /\ Formed(level)'
    BY <1>1, Numbers DEF DeleteCut
  <1>3. /\ \A p \in Pages(N) : p # x => q[p] = page[p]
        /\ IsLeaf(page[x]) /\ IsLeaf(q[x]) /\ ~IsInternal(q[x])
    BY <1>2 DEF LeafCutBack, IsLeaf, IsInternal
  <1>4. ~NodeAt(page, 0)
    BY DEF Formed, Shape
  <1>5. ASSUME "lost_child" \notin damage
        PROVE  /\ \A p \in PageNums : IsInternal(q[p]) => Strict(q[p].keys)
               /\ \E T, region :
                     /\ SearchTree(q, N, level, root_page, T, region)
                     /\ damage = {} => /\ \A p \in PageNums : IsLeaf(q[p]) => p \in T
                                       /\ Following(q, T, region)
    <2>1. PICK T, region :
             /\ SearchTree(page, N, level, root_page, T, region)
             /\ damage = {} => /\ \A p \in PageNums : IsLeaf(page[p]) => p \in T
                               /\ Following(page, T, region)
      BY <1>1, <1>5 DEF Searching
    <2>2. SearchTree(q, N, level, root_page, T, region)
      BY <1>2, <1>4, <2>1, SearchCut
    <2>3. \A p \in PageNums : IsInternal(page[p]) => Strict(page[p].keys)
      BY <1>5 DEF Searching
    <2>4. \A p \in PageNums : IsInternal(q[p]) => Strict(q[p].keys)
      BY <1>2, <1>3, <2>3
    <2>5. \A p \in PageNums : /\ IsLeaf(q[p]) <=> IsLeaf(page[p])
                              /\ IsLeaf(page[p]) => q[p].next = page[p].next
      BY <1>2, <1>3 DEF LeafCutBack
    <2>6. \A p \in T : p \in PageNums
      BY <1>2, <2>1 DEF SearchTree, Grove
    <2>7. damage = {} => Following(q, T, region)
      BY <2>1, <2>5, <2>6, FollowingCut
    <2> QED
      BY <2>1, <2>2, <2>4, <2>5, <2>7
  <1>6. Searching(level)'
    BY <1>1, <1>5 DEF Searching
  <1> QED
    BY <1>2, <1>6 DEF Searchable

LEMMA SearchableInsert ==
    ASSUME Sound, NEW level, Formed(level), Fresh(level, TABLE_MAX_PAGES, num_pages),
           Searching(level),
           NEW key \in Keys, NEW value \in PointersOf[key], NEW out, Inserts(key, value, out)
    PROVE  Searchable'
  <1>1. PICK N, V, X, cell, path : /\ N = TABLE_MAX_PAGES /\ V = RowPointers
                                   /\ path = Path(page, root_page, key)
                                   /\ X = PagesOf(path) /\ cell = CellOf(key, value)
    OBVIOUS
  <1>2. /\ Shape(page, N, V, num_pages, level) /\ Fresh(level, N, num_pages)
        /\ root_page \in Pages(N) /\ NodeAt(page, root_page) /\ PageNums = Pages(N)
        /\ Tidy(page, N) /\ key \in Nat /\ value \in V
    BY <1>1, Numbers DEF Sound, Rooted, Formed
  <1>3. /\ DescentDefined(page, root_page, key)
        /\ out = index_insert(page, num_pages, root_page, key, value)
        /\ out.num_pages <= N
        /\ page' = out.pg /\ num_pages' = out.num_pages /\ root_page' = out.root_page
        /\ damage' = damage \cup IF out.lost THEN {"lost_child"} ELSE {}
    BY <1>1 DEF Inserts
  <1>4. Absent(page, N, key)
    BY <1>1, EntriesAre DEF Inserts
  <1>5. Formed(level)' /\ Grew(out, page, N, V, num_pages, level, root_page, X, cell)
    BY <1>1, <1>3, InsertKeeps DEF InsertGrew
  <1>6. /\ Shape(out.pg, N, V, out.num_pages, level)
        /\ \A p \in Pages(N) : p < num_pages =>
              /\ IsLeaf(out.pg[p]) <=> IsLeaf(page[p])
              /\ IsInternal(out.pg[p]) <=> IsInternal(page[p])
        /\ \A p \in Pages(N) : p \notin X /\ p < num_pages => out.pg[p] = page[p]
    BY <1>5 DEF Grew
  <1>7. ASSUME "lost_child" \notin damage'
        PROVE  /\ \A p \in PageNums : IsInternal(out.pg[p]) => Strict(out.pg[p].keys)
               /\ \E T, region :
                     /\ SearchTree(out.pg, N, level, out.root_page, T, region)
                     /\ damage' = {} => /\ \A p \in PageNums : IsLeaf(out.pg[p]) => p \in T
                                        /\ Following(out.pg, T, region)
    <2>1. "lost_child" \notin damage /\ ~out.lost /\ damage' = damage
      BY <1>3, <1>7
    <2>2. PICK T0, region0 :
             /\ SearchTree(page, N, level, root_page, T0, region0)
             /\ damage = {} => /\ \A p \in PageNums : IsLeaf(page[p]) => p \in T0
                               /\ Following(page, T0, region0)
      BY <1>1, <2>1 DEF Searching
    <2>10. PICK x : x = btree_find_leaf(page, root_page, key)
      OBVIOUS
    <2>3. PICK T, region : Searched(out, N, level, num_pages, T0, region0, x, T, region)
      BY <1>2, <1>3, <1>4, <2>1, <2>2, <2>10, IndexSearch
    <2>4. /\ T0 \subseteq T /\ \A p \in num_pages .. out.num_pages - 1 : p \in T
          /\ SearchTree(out.pg, N, level, out.root_page, T, region)
      BY <2>3 DEF Searched
    <2>5. ASSUME NEW p \in Pages(N), NodeAt(out.pg, p), p >= num_pages PROVE p \in T
      <3>1. p < out.num_pages /\ p \in Nat
        BY <1>6, <2>5 DEF Shape, Pages
      <3>2. p \in num_pages .. out.num_pages - 1
        BY <1>2, <1>6, <2>5, <3>1 DEF Shape
      <3> QED
        BY <2>4, <3>2
    <2>6. \A p \in Pages(N) : p < num_pages \/ p >= num_pages
      BY <1>2 DEF Shape, Pages
    <2>7. X \subseteq T0
      <3>1. LeafPath(path, page, N, level, root_page, key)
        BY <1>1, <1>2, <1>3, DefinedPath
      <3>2. PathIn(path, page, T0, region0, Len(path), key)
        BY <1>2, <2>2, <3>1, PathRegions DEF LeafPath
      <3> QED
        BY <1>1, <3>2 DEF PathIn, PagesOf
    <2>8. ASSUME NEW p \in Pages(N), IsInternal(out.pg[p]) PROVE Strict(out.pg[p].keys)
      <3>1. CASE p \in T
        <4>1. p # 0
          BY <1>6, <2>8 DEF Shape, NodeAt
        <4>2. Serves(out.pg[p], T, region, region[p])
          BY <2>4, <3>1, <4>1 DEF SearchTree, Grove
        <4> QED
          BY <2>8, <4>2 DEF Serves
      <3>2. CASE p \notin T
        <4>1. p < num_pages
          BY <2>5, <2>6, <2>8, <3>2 DEF NodeAt
        <4>2. p \notin X
          BY <2>4, <2>7, <3>2
        <4>3. out.pg[p] = page[p]
          BY <1>6, <4>1, <4>2
        <4> QED
          BY <1>2, <2>1, <2>8, <4>3 DEF Searching
      <3> QED
        BY <3>1, <3>2
    <2>9. ASSUME damage = {}, NEW p \in Pages(N), IsLeaf(out.pg[p]) PROVE p \in T
      <3>1. CASE p < num_pages
        BY <1>2, <1>6, <2>2, <2>4, <2>9, <3>1
      <3>2. CASE p >= num_pages
        BY <2>5, <2>9, <3>2 DEF NodeAt
      <3> QED
        BY <2>6, <3>1, <3>2
    <2>11. ASSUME damage = {} PROVE Following(out.pg, T, region)
      <3>1. /\ x \in Pages(N) /\ IsLeaf(page[x])
            /\ LeavesTook(out, page, N, num_pages, root_page, x, cell)
        BY <1>1, <1>2, <1>3, <2>10, IndexLeaves
      <3>2. /\ \A p \in Pages(N) : IsLeaf(page[p]) => p \in T0
            /\ Following(page, T0, region0)
        BY <1>2, <2>2, <2>11
      <3>3. \A p \in Pages(N) : IsLeaf(out.pg[p]) => p \in T
        BY <2>9, <2>11
      <3> QED
        BY <1>2, <2>2, <2>3, <3>1, <3>2, <3>3, FollowingInsert
    <2> QED
      BY <1>2, <2>1, <2>4, <2>8, <2>9, <2>11
  <1>8. Searching(level)'
    BY <1>1, <1>3, <1>7 DEF Searching
  <1> QED
    BY <1>5, <1>8 DEF Searchable

LEMMA SearchableStep ==
    ASSUME Sound, Searchable, [Next]_vars
    PROVE  Searchable'
  <1>1. PICK level : /\ Formed(level) /\ Fresh(level, TABLE_MAX_PAGES, num_pages)
                     /\ Searching(level)
    BY SearchFresh
  <1>2. ASSUME UNCHANGED << page, num_pages, root_page, damage >> PROVE Searchable'
    BY <1>2 DEF Searchable, Formed, Searching
  <1>3. CASE UNCHANGED vars
    BY <1>2, <1>3 DEF vars
  <1>4. CASE Next
    <2>1. ASSUME NEW key \in Keys, DescentDefined(page, root_page, key),
                 btree_find(page, root_page, key) # {},
                 page' = delete_from_index(page, root_page, key),
                 UNCHANGED << num_pages, root_page, status, damage >>
          PROVE  Searchable'
      <3>1. PICK x : DeleteCut(level, key, x)
        BY <1>1, <2>1, DeleteKeeps
      <3> QED
        BY <1>1, <2>1, <3>1, SearchableDelete
    <2>2. ASSUME NEW key \in Keys, NEW value \in PointersOf[key], NEW out,
                 Inserts(key, value, out)
          PROVE  Searchable'
      BY <1>1, <2>2, SearchableInsert
    <2> QED
      BY <1>2, <1>4, <2>1, <2>2, SearchableReopen, StepKinds
  <1> QED
    BY <1>3, <1>4

LEMMA AlwaysSearchable == Spec => [](Sound /\ Searchable)
  <1>1. Init => Sound /\ Searchable
    BY InitSound, InitSearchable
  <1>2. Sound /\ Searchable /\ [Next]_vars => Sound' /\ Searchable'
    BY SoundStep, SearchableStep
  <1> QED
    BY <1>1, <1>2, PTL DEF Spec

\* Every node keeps its order and its bounds: leaves strictly by key, internal
\* nodes by separator, which are distinct until a child was forgotten.
THEOREM NodesKeepOrder == Spec => []NodesInOrder
  <1>1. ASSUME Sound, Searchable PROVE NodesInOrder
    <2>1. PICK level : Formed(level) /\ Searching(level)
      BY <1>1 DEF Searchable
    <2>2. PICK N : N = TABLE_MAX_PAGES
      OBVIOUS
    <2>3. PageNums = Pages(N) /\ Tidy(page, N)
      BY <1>1, <2>2, Numbers DEF Sound
    <2>4. ASSUME NEW p \in PageNums, IsLeaf(page[p])
          PROVE  /\ Len(page[p].cells) <= LEAF_NODE_MAX_CELLS
                 /\ \A i, j \in DOMAIN page[p].cells :
                       i < j => page[p].cells[i].key < page[p].cells[j].key
      <3>1. GoodLeaf(page[p], RowPointers, level[p])
        BY <2>1, <2>2, <2>3, <2>4 DEF Formed, Shape
      <3>2. page[p].cells \in Seq(Cell(RowPointers)) /\ Len(page[p].cells) <= LEAF_NODE_MAX_CELLS
        BY <3>1, LeafNode
      <3>3. DOMAIN page[p].cells = 1 .. Len(page[p].cells)
        BY <3>2, CellKeys
      <3>4. InOrder(page[p].cells)
        BY <2>3, <2>4 DEF Tidy
      <3> QED
        BY <3>2, <3>3, <3>4 DEF InOrder
    <2>5. ASSUME NEW p \in PageNums, IsInternal(page[p])
          PROVE  /\ Len(page[p].keys) <= INTERNAL_NODE_MAX_KEYS
                 /\ \A i, j \in DOMAIN page[p].keys :
                       i < j => \/ page[p].keys[i] < page[p].keys[j]
                                \/ /\ page[p].keys[i] = page[p].keys[j]
                                   /\ "lost_child" \in damage
      <3>1. GoodInner(page[p], Kids(page, N, level, level[p]), level[p])
        BY <2>1, <2>2, <2>3, <2>5 DEF Formed, Shape
      <3>2. /\ page[p].keys \in Seq(Nat) /\ Len(page[p].keys) <= INTERNAL_NODE_MAX_KEYS
            /\ \A i \in 1 .. Len(page[p].keys) : page[p].keys[i] \in Nat
        BY <3>1, InnerParts DEF GoodInner
      <3>3. DOMAIN page[p].keys = 1 .. Len(page[p].keys)
        BY <3>2
      <3>4. Ordered(page[p].keys)
        BY <2>3, <2>5 DEF Tidy
      <3>5. "lost_child" \notin damage => Strict(page[p].keys)
        BY <2>1, <2>5 DEF Searching
      <3>6. \A a, b \in Nat : a <= b => a < b \/ a = b
        OBVIOUS
      <3> QED
        BY <3>2, <3>3, <3>4, <3>5, <3>6 DEF Ordered, Strict
    <2> QED
      BY <2>4, <2>5 DEF NodesInOrder
  <1> QED
    BY <1>1, AlwaysSearchable, PTL

\* No descent leaves the tree, so no page is read as a node that is none, until a
\* right child was forgotten; restarts do no harm to that.
THEOREM DescentsAreDefined == Spec => []DescentsDefinedUntilLost
  <1>1. ASSUME Sound, Searchable PROVE DescentsDefinedUntilLost
    <2>1. PICK level : Formed(level) /\ Searching(level)
      BY <1>1 DEF Searchable
    <2> SUFFICES ASSUME "lost_child" \notin damage, NEW key \in Keys
                 PROVE  DescentDefined(page, root_page, key)
      BY DEF DescentsDefinedUntilLost
    <2>2. PICK T, region : SearchTree(page, TABLE_MAX_PAGES, level, root_page, T, region)
      BY <2>1 DEF Searching
    <2> QED
      BY <1>1, <2>1, <2>2, SearchFinds, Numbers DEF Formed, Sound, Rooted
  <1> QED
    BY <1>1, AlwaysSearchable, PTL

\* As long as neither defect has struck, btree_find finds every key that the
\* index holds, and its pointer: splits and deletions hide none.
THEOREM LookupsAreComplete == Spec => []LookupsCompleteUntilDamaged
  <1>1. ASSUME Sound, Searchable PROVE LookupsCompleteUntilDamaged
    <2>1. PICK level : Formed(level) /\ Searching(level)
      BY <1>1 DEF Searchable
    <2>2. PICK N, V : N = TABLE_MAX_PAGES /\ V = RowPointers
      OBVIOUS
    <2> SUFFICES ASSUME damage = {}, NEW e \in Entries
                 PROVE  /\ DescentDefined(page, root_page, e.key)
                        /\ btree_find(page, root_page, e.key) = {e.value}
      BY DEF LookupsCompleteUntilDamaged, LookupsComplete
    <2>3. PICK T, region :
             /\ SearchTree(page, N, level, root_page, T, region)
             /\ \A p \in PageNums : IsLeaf(page[p]) => p \in T
      BY <2>1, <2>2 DEF Searching
    <2>4. e.key \in Nat /\ \E p \in Pages(N) : e \in CellsAt(page, p)
      BY <2>1, <2>2, EntriesAre DEF EntriesOf
    <2>5. PICK p \in Pages(N) : e \in CellsAt(page, p)
      BY <2>4
    <2>6. /\ Shape(page, N, V, num_pages, level) /\ Tidy(page, N) /\ PageNums = Pages(N)
          /\ root_page \in Pages(N) /\ NodeAt(page, root_page)
      BY <1>1, <2>1, <2>2, Numbers DEF Formed, Sound, Rooted
    <2>7. IsLeaf(page[p]) /\ p \in T
      BY <2>3, <2>5, <2>6 DEF CellsAt
    <2>8. DescentDefined(page, root_page, e.key) /\ p = btree_find_leaf(page, root_page, e.key)
      BY <2>3, <2>4, <2>5, <2>6, <2>7, SearchFinds
    <2>9. btree_find(page, root_page, e.key)
             = {c.value : c \in {d \in CellsAt(page, p) : d.key = e.key}}
      BY <2>4, <2>6, <2>7, <2>8, FindIs
    <2>10. ASSUME NEW d \in CellsAt(page, p), d.key = e.key PROVE d = e
      <3>1. CellSet(page[p].cells) = CellsAt(page, p)
        BY <2>7 DEF CellsAt
      <3>2. PICK i, j \in 1 .. Len(page[p].cells) : page[p].cells[i] = d /\ page[p].cells[j] = e
        BY <2>5, <3>1 DEF CellSet
      <3>3. InOrder(page[p].cells)
        BY <2>6, <2>7 DEF Tidy
      <3>4. ~(i < j) /\ ~(j < i)
        BY <2>4, <2>10, <3>2, <3>3 DEF InOrder
      <3> QED
        BY <3>2, <3>4
    <2> QED
      BY <2>5, <2>8, <2>9, <2>10
  <1> QED
    BY <1>1, AlwaysSearchable, PTL

-----------------------------------------------------------------------------
(* The leaf chain *)

\* The leaves form one chain from page 1 on, and the leftmost children lead there,
\* whatever has become of the other children.
Chained ==
    /\ \E s : /\ ChainIs(s, page, TABLE_MAX_PAGES)
              /\ LeavesIn(s, page, TABLE_MAX_PAGES)
    /\ \E S : Spine(S, page, TABLE_MAX_PAGES, root_page)

LEMMA SpineOne ==
    ASSUME NEW pg, NEW N, 1 \in Pages(N), IsLeaf(pg[1])
    PROVE  Spine({1}, pg, N, 1)
  BY DEF Spine, NodeAt, IsLeaf, IsInternal

LEMMA InitChained ==
    ASSUME Init
    PROVE  Chained
  <1>1. PICK N : N = TABLE_MAX_PAGES
    OBVIOUS
  <1>2. /\ 1 \in Pages(N) /\ PageNums = Pages(N) /\ root_page = 1
        /\ page[1] = Leaf(<< >>, 0)
        /\ \A p \in Pages(N) : IsLeaf(page[p]) => p = 1
    BY <1>1, Numbers DEF Init, META_PAGE, initialize_leaf_node, Leaf, IsLeaf
  <1>3. IsLeaf(page[1]) /\ page[1].next = 0
    BY <1>2 DEF Leaf, IsLeaf
  <1> QED
    BY <1>1, <1>2, <1>3, ChainOne, SpineOne DEF Chained

LEMMA ChainedStep ==
    ASSUME Sound, Chained, [Next]_vars
    PROVE  Chained'
  <1>1. PICK level : Formed(level) /\ Fresh(level, TABLE_MAX_PAGES, num_pages)
    BY FreshLevels DEF Sound, Formed
  <1>2. PICK N, V : N = TABLE_MAX_PAGES /\ V = RowPointers
    OBVIOUS
  <1>3. /\ Shape(page, N, V, num_pages, level) /\ Fresh(level, N, num_pages)
        /\ root_page \in Pages(N) /\ NodeAt(page, root_page) /\ IsLeaf(page[1])
        /\ 1 \in Pages(N) /\ num_pages \in Nat /\ num_pages # 0
    BY <1>1, <1>2, Numbers DEF Sound, Rooted, Formed, Shape
  <1>4. PICK s, S : /\ ChainIs(s, page, N) /\ LeavesIn(s, page, N)
                    /\ Spine(S, page, N, root_page)
    BY <1>2 DEF Chained
  <1>5. ASSUME UNCHANGED << page, root_page >> PROVE Chained'
    BY <1>5 DEF Chained
  <1>6. CASE UNCHANGED vars
    BY <1>5, <1>6 DEF vars
  <1>7. ASSUME UNCHANGED page, Reopen PROVE Chained'
    <2>1. Spine({1}, page, N, 1)
      BY <1>3, SpineOne
    <2>2. root_page' = 1
      BY <1>7 DEF Reopen
    <2>3. /\ ChainIs(s, page', N) /\ LeavesIn(s, page', N)
          /\ Spine({1}, page', N, root_page')
      BY <1>4, <1>7, <2>1, <2>2
    <2> QED
      BY <1>2, <2>3 DEF Chained
  <1>8. ASSUME NEW key \in Keys, NEW value \in PointersOf[key], NEW out,
               Inserts(key, value, out)
        PROVE  Chained'
    <2>1. PICK X, cell, x : /\ X = PagesOf(Path(page, root_page, key))
                            /\ cell = CellOf(key, value)
                            /\ x = btree_find_leaf(page, root_page, key)
      OBVIOUS
    <2>2. /\ out = index_insert(page, num_pages, root_page, key, value)
          /\ out.num_pages <= N /\ DescentDefined(page, root_page, key)
          /\ page' = out.pg /\ root_page' = out.root_page
          /\ key \in Nat /\ value \in V
      BY <1>2, <1>8, Numbers DEF Inserts
    <2>3. Grew(out, page, N, V, num_pages, level, root_page, X, cell)
      BY <1>3, <2>1, <2>2, IndexGrew
    <2>4. /\ x \in Pages(N) /\ IsLeaf(page[x])
          /\ LeavesTook(out, page, N, num_pages, root_page, x, cell)
      BY <1>3, <2>1, <2>2, IndexLeaves
    <2>5. PICK k \in 1 .. Len(s) : s[k] = x
      BY <1>4, <2>4 DEF LeavesIn
    <2>6. PICK t : ChainIs(t, out.pg, N) /\ LeavesIn(t, out.pg, N)
      BY <1>3, <1>4, <2>4, <2>5, ChainGrows
    <2>7. Spine(S \cup {out.root_page}, out.pg, N, out.root_page)
      BY <1>3, <1>4, <2>3, <2>4, SpineGrows
    <2> QED
      BY <1>2, <2>2, <2>6, <2>7 DEF Chained
  <1>9. ASSUME NEW key \in Keys, DescentDefined(page, root_page, key),
               btree_find(page, root_page, key) # {},
               page' = delete_from_index(page, root_page, key),
               UNCHANGED << num_pages, root_page, status, damage >>
        PROVE  Chained'
    <2>1. PICK x : DeleteCut(level, key, x)
      BY <1>1, <1>9, DeleteKeeps
    <2>2. PICK q : q = page'
      OBVIOUS
    <2>3. LeafCutBack(q, page, N, x, key)
      BY <1>2, <2>1, <2>2 DEF DeleteCut
    <2>4. \A p \in Pages(N) :
             /\ IsLeaf(page[p]) => IsLeaf(q[p]) /\ q[p].next = page[p].next
             /\ IsLeaf(q[p]) => IsLeaf(page[p])
             /\ IsInternal(page[p]) => q[p] = page[p]
      BY <2>3 DEF LeafCutBack, IsLeaf, IsInternal
    <2>5. ChainIs(s, q, N) /\ LeavesIn(s, q, N)
      BY <1>4, <2>4, ChainStays
    <2>6. Spine(S, q, N, root_page)
      <3>1. \A p \in S : p \in Pages(N) /\ NodeAt(page, p) /\ NodeAt(q, p)
        BY <1>4, <2>4 DEF Spine, NodeAt
      <3>2. \A p \in S : IsInternal(q[p]) => IsInternal(page[p])
        BY <2>4, <3>1 DEF NodeAt, IsLeaf, IsInternal
      <3> QED
        BY <1>4, <2>4, <3>1, <3>2 DEF Spine
    <2> QED
      BY <1>2, <1>9, <2>2, <2>5, <2>6 DEF Chained
  <1>10. CASE Next
    <2>1. \/ UNCHANGED << page, root_page >>
          \/ UNCHANGED page /\ Reopen
          \/ \E key \in Keys : \E value \in PointersOf[key] : \E out : Inserts(key, value, out)
          \/ \E key \in Keys : /\ DescentDefined(page, root_page, key)
                               /\ btree_find(page, root_page, key) # {}
                               /\ page' = delete_from_index(page, root_page, key)
                               /\ UNCHANGED << num_pages, root_page, status, damage >>
      BY <1>10, StepKinds
    <2> QED
      BY <1>5, <1>7, <1>8, <1>9, <2>1
  <1> QED
    BY <1>6, <1>10

\* Walking next_leaf from page 1 meets every leaf of the file exactly once, and the
\* leftmost descent ends at page 1, also when right children were forgotten and the
\* root was lost: no split and no new root moves slot 0 or a leaf's place.
THEOREM LeavesStayChained == Spec => []LeafChainComplete
  <1>1. ASSUME Sound, Chained PROVE LeafChainComplete
    <2>1. PICK N, V, level : N = TABLE_MAX_PAGES /\ V = RowPointers /\ Formed(level)
      BY <1>1 DEF Sound
    <2>2. /\ Shape(page, N, V, num_pages, level) /\ PageNums = Pages(N)
          /\ 0 \in Pages(N) /\ N \in Nat /\ page = [p \in Pages(N) |-> page[p]]
          /\ ~IsLeaf(page[0])
      BY <2>1, Numbers DEF Formed, Shape, NodeAt
    <2>3. PICK s, S : /\ ChainIs(s, page, N) /\ LeavesIn(s, page, N)
                      /\ Spine(S, page, N, root_page)
      BY <1>1, <2>1 DEF Chained
    <2>4. Chain(page, 1) = s
      <3>1. Links(s, page, N) /\ 1 = s[1]
        BY <2>3 DEF ChainIs, Links
      <3> QED
        BY <2>2, <3>1, ChainWalks
    <2>5. find_leftmost_leaf(page, root_page) = 1
      BY <2>2, <2>3, SpineLeads
    <2>6. DOMAIN s = 1 .. Len(s) /\ \A i, j \in 1 .. Len(s) : i # j => s[i] # s[j]
      BY <2>3 DEF ChainIs
    <2> QED
      BY <2>2, <2>3, <2>4, <2>5, <2>6 DEF LeafChainComplete, LeavesIn
  <1>2. Init => Sound /\ Chained
    BY InitSound, InitChained
  <1>3. Sound /\ Chained /\ [Next]_vars => Sound' /\ Chained'
    BY SoundStep, ChainedStep
  <1> QED
    BY <1>1, <1>2, <1>3, PTL DEF Spec

LEMMA AlwaysChained == Spec => [](Sound /\ Searchable /\ Chained)
  <1>1. Init => Sound /\ Searchable /\ Chained
    BY InitSound, InitSearchable, InitChained
  <1>2. Sound /\ Searchable /\ Chained /\ [Next]_vars => Sound' /\ Searchable' /\ Chained'
    BY SoundStep, SearchableStep, ChainedStep
  <1> QED
    BY <1>1, <1>2, PTL DEF Spec

\* As long as neither defect has struck, a range query returns every entry within
\* its bounds, once and in the order of the keys: it starts at the leaf that has the
\* lower bound, and the chain behind that leaf misses none and turns back nowhere.
THEOREM RangesAreComplete == Spec => []RangesCompleteUntilDamaged
  <1>1. ASSUME Sound, Searchable, Chained PROVE RangesCompleteUntilDamaged
    <2>1. PICK level : Formed(level) /\ Searching(level)
      BY <1>1 DEF Searchable
    <2>2. PICK N, V : N = TABLE_MAX_PAGES /\ V = RowPointers
      OBVIOUS
    <2> SUFFICES ASSUME damage = {}, NEW lo \in Keys, NEW hi \in Keys, hi >= lo,
                        NEW found, found = RangeCells(page, root_page, lo, hi)
                 PROVE  /\ {found[i] : i \in DOMAIN found}
                             = {e \in Entries : e.key \in lo .. hi}
                        /\ \A i \in 2 .. Len(found) : found[i - 1].key < found[i].key
      BY DEF RangesCompleteUntilDamaged, RangesComplete
    <2>3. PICK T, region :
             /\ SearchTree(page, N, level, root_page, T, region)
             /\ \A p \in PageNums : IsLeaf(page[p]) => p \in T
             /\ Following(page, T, region)
      BY <2>1, <2>2 DEF Searching
    <2>4. /\ Shape(page, N, V, num_pages, level) /\ Tidy(page, N) /\ PageNums = Pages(N)
          /\ root_page \in Pages(N) /\ NodeAt(page, root_page) /\ 0 \in Pages(N)
          /\ lo \in Nat /\ hi \in Nat
      BY <1>1, <2>1, <2>2, Numbers DEF Formed, Sound, Rooted
    <2>5. PICK s : Links(s, page, N) /\ LeavesIn(s, page, N)
      BY <1>1, <2>2 DEF Chained, ChainIs, Links
    <2>6. /\ found \in Seq(Cell(V)) /\ InOrder(found)
          /\ \A e : e \in CellSet(found) <=> e \in EntriesOf(page, N) /\ e.key \in lo .. hi
      BY <2>3, <2>4, <2>5, RangeIs
    <2>7. {found[i] : i \in DOMAIN found} = CellSet(found)
      BY <2>6 DEF CellSet
    <2>8. Entries = EntriesOf(page, N)
      BY <2>1, <2>2, EntriesAre
    <2>9. {found[i] : i \in DOMAIN found} = {e \in Entries : e.key \in lo .. hi}
      BY <2>6, <2>7, <2>8
    <2>10. ASSUME NEW i \in 2 .. Len(found) PROVE found[i - 1].key < found[i].key
      <3>1. i - 1 \in 1 .. Len(found) /\ i \in 1 .. Len(found) /\ i - 1 < i
        BY <2>6
      <3> QED
        BY <2>6, <3>1 DEF InOrder
    <2> QED
      BY <2>9, <2>10
  <1> QED
    BY <1>1, AlwaysChained, PTL
=============================================================================
