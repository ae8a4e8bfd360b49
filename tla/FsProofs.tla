------------------------------- MODULE FsProofs -------------------------------
(***************************************************************************)
(* The file system of fs.c and the tool of test_fs.c: proofs for every     *)
(* size of the directory, the FAT, the blocks and the descriptor table, as *)
(* long as clients do not delete a file that is open.                      *)
(***************************************************************************)
EXTENDS Tool, InductionLemmas

(* What a root directory and a FAT are. *)
Roots ==
  [Entry -> [name : Name \cup {NoName}, size : 0 .. BlockSize * DataCount,
             first : Index \cup {EOC}]]
Fats == [Index -> Index \cup {EOC}]

(* A file of n blocks has as many as its bytes need, or one when empty. *)
Fits(size, n) ==
  size \in (IF n <= 1 THEN 0 ELSE (n - 1) * BlockSize + 1) .. (n * BlockSize)

(* ch gives the blocks of each entry of the directory r in the FAT f: they *)
(* are linked and end with FAT_EOC, no block is in two places, and what is *)
(* not zero in the FAT is a block of some file.                            *)
Chained(r, f, ch) ==
  \A e \in Entry :
    /\ Linked(ch[e], f, EOC) /\ \A k \in DOMAIN ch[e] : ch[e][k] # 0
    /\ r[e].name = NoName => ch[e] = <<>>
    /\ r[e].name # NoName => r[e].first = FirstOf(ch[e], EOC) /\ Fits(r[e].size, Len(ch[e]))
Apart(ch) ==
  \A e1, e2 \in Entry : \A k1 \in DOMAIN ch[e1], k2 \in DOMAIN ch[e2] :
    ch[e1][k1] = ch[e2][k2] => e1 = e2 /\ k1 = k2
Covered(f, ch) ==
  /\ f[0] = EOC
  /\ \A i \in Index \ {0} : f[i] # 0 => \E e \in Entry : \E k \in DOMAIN ch[e] : ch[e][k] = i
Whole(r, f, ch) ==
  /\ r \in Roots /\ f \in Fats /\ ch \in [Entry -> Seq(Index)]
  /\ Chained(r, f, ch) /\ Apart(ch) /\ Covered(f, ch)

-----------------------------------------------------------------------------
(* Lookups. *)

(* The least of some natural numbers is one of them. *)
LEMMA MinIs ==
  ASSUME NEW S \in SUBSET Nat, S # {}
  PROVE  Min(S) \in S /\ \A x \in S : Min(S) <= x
<1>1. \E x \in S : \A y \in S : x <= y
  BY LeastElement
<1> QED
  BY <1>1 DEF Min

(* The constants. *)
LEMMA Sizes ==
  /\ FileMax \in Nat \ {0} /\ FdMax \in Nat \ {0} /\ DataCount \in Nat \ {0}
  /\ FatSize \in Nat \ {0} /\ BlockSize \in Nat \ {0}
  /\ EOC \in Nat /\ EOC \notin Index /\ EOC # 0 /\ 0 \in Index
  /\ Index \subseteq Nat /\ Entry \subseteq Nat /\ Fd \subseteq Nat
  /\ 0 \in Entry /\ 0 \in Fd /\ BlockSize * DataCount \in Nat /\ NoName \notin Name
<1>1. /\ FileMax \in Nat \ {0} /\ FdMax \in Nat \ {0} /\ DataCount \in Nat \ {0}
      /\ FatSize \in Nat \ {0} /\ BlockSize \in Nat \ {0} /\ DataCount <= EOC
  BY FsAssumption
<1>2. BlockSize * DataCount \in Nat
  BY ONLY <1>1
<1>3. EOC \in Nat /\ EOC # 0
  BY DEF EOC
<1>4. EOC \notin Index /\ 0 \in Index /\ Index \subseteq Nat
  BY ONLY <1>1, <1>3 DEF Index
<1>5. Entry \subseteq Nat /\ Fd \subseteq Nat /\ 0 \in Entry /\ 0 \in Fd
  BY ONLY <1>1 DEF Entry, Fd
<1> QED
  BY ONLY <1>1, <1>2, <1>3, <1>4, <1>5, FsAssumption

(* The blocks of one file. *)
LEMMA ChainFacts ==
  ASSUME NEW r, NEW f, NEW ch, Whole(r, f, ch), NEW e \in Entry
  PROVE  /\ ch[e] \in Seq(Index) /\ Len(ch[e]) \in Nat /\ DOMAIN ch[e] = 1 .. Len(ch[e])
         /\ \A k \in 1 .. Len(ch[e]) : ch[e][k] \in Index /\ ch[e][k] # 0 /\ f[ch[e][k]] # 0
         /\ Distinct(ch[e]) /\ Linked(ch[e], f, EOC)
         /\ Len(ch[e]) <= DataCount /\ Len(ch[e]) + 1 <= DataCount
<1>1. /\ ch[e] \in Seq(Index) /\ Linked(ch[e], f, EOC)
      /\ \A k \in DOMAIN ch[e] : ch[e][k] # 0
  BY DEF Whole, Chained
<1>2. Len(ch[e]) \in Nat /\ DOMAIN ch[e] = 1 .. Len(ch[e])
      /\ \A k \in 1 .. Len(ch[e]) : ch[e][k] \in Index
  BY <1>1, LenProperties, ElementOfSeq
<1>3. Distinct(ch[e])
  BY DEF Whole, Apart, Distinct
<1>4. ASSUME NEW k \in 1 .. Len(ch[e]) PROVE f[ch[e][k]] # 0
  <2>1. f[ch[e][k]] = IF k = Len(ch[e]) THEN EOC ELSE ch[e][k + 1]
    BY <1>1, <1>2 DEF Linked
  <2>2. k # Len(ch[e]) => k + 1 \in DOMAIN ch[e]
    BY <1>2
  <2> QED
    BY <1>1, <2>1, <2>2, Sizes
<1>5. Len(ch[e]) <= DataCount /\ Len(ch[e]) + 1 <= DataCount
  <2>1. DataCount \in Nat \ {0}
    BY Sizes
  <2>2. IsFiniteSet(1 .. DataCount - 1) /\ Cardinality(1 .. DataCount - 1) = DataCount - 1
    BY <2>1, FS_Interval
  <2>3. \A k \in 1 .. Len(ch[e]) : ch[e][k] \in 1 .. DataCount - 1
    BY <1>1, <1>2, <2>1 DEF Index
  <2>4. PICK c : c = ch[e]
    OBVIOUS
  <2>5. c \in Seq(1 .. DataCount - 1)
    <3>1. c \in [1 .. Len(c) -> 1 .. DataCount - 1] /\ Len(c) \in Nat
      <4>1. c = [k \in 1 .. Len(c) |-> c[k]] /\ Len(c) \in Nat
        BY <1>1, <1>2, <2>4
      <4> QED
        BY <2>3, <2>4, <4>1
    <3> QED
      BY ONLY <3>1, FunctionIsSeq
  <2>6. Len(c) <= Cardinality(1 .. DataCount - 1)
    <3>1. \A k, l \in DOMAIN c : c[k] = c[l] => k = l
      BY <1>3, <2>4 DEF Distinct
    <3> QED
      BY ONLY <2>2, <2>5, <3>1, NoRepetitions
  <2> QED
    BY ONLY <1>2, <2>1, <2>2, <2>4, <2>6
<1> QED
  BY <1>1, <1>2, <1>3, <1>4, <1>5

(* The walk along the FAT from the first block of a file gives its blocks. *)
LEMMA ChainIs ==
  ASSUME NEW r, NEW f, NEW ch, Whole(r, f, ch), NEW e \in Entry
  PROVE  Chain(f, FirstOf(ch[e], EOC)) = ch[e]
<1>1. /\ ch[e] \in Seq(Index) /\ Linked(ch[e], f, EOC) /\ Len(ch[e]) <= DataCount
      /\ f \in [Index -> Index \cup {EOC}] /\ DataCount \in Nat /\ EOC \notin Index
  <2>1. ch[e] \in Seq(Index) /\ Linked(ch[e], f, EOC) /\ Len(ch[e]) <= DataCount
    BY ONLY ChainFacts, Whole(r, f, ch), e \in Entry
  <2>2. f \in [Index -> Index \cup {EOC}]
    BY ONLY Whole(r, f, ch) DEF Whole, Fats
  <2>3. DataCount \in Nat /\ EOC \notin Index
    BY ONLY Sizes, Zenon
  <2> QED
    BY ONLY <2>1, <2>2, <2>3
<1> DEFINE walk == CHOOSE w : w = [k \in 0 .. DataCount |->
                     [i \in Index \cup {EOC} |->
                        IF k = 0 \/ i = EOC THEN <<>> ELSE <<i>> \o w[k - 1][f[i]]]]
<1>2. walk = WalkStep(walk, DataCount, Index, f, EOC)
  <2>1. \E w : w = WalkStep(w, DataCount, Index, f, EOC)
    BY ONLY <1>1, WalkExists
  <2> QED
    BY <2>1 DEF WalkStep
<1>3. Chain(f, FirstOf(ch[e], EOC)) = walk[DataCount][FirstOf(ch[e], EOC)]
  BY DEF Chain
<1> HIDE DEF walk
<1>4. walk[DataCount][FirstOf(ch[e], EOC)] = ch[e]
  BY ONLY <1>1, <1>2, WalkIsPath
<1> QED
  BY <1>3, <1>4

-----------------------------------------------------------------------------
(* What the calls do to the directory and the FAT. *)

(* A formatted disk. *)
LEMMA EmptyIsWhole == Whole(EmptyRoot, EmptyFat, [e \in Entry |-> <<>>])
<1> DEFINE ch == [e \in Entry |-> <<>>]
<1>1. EmptyRoot \in Roots /\ EmptyFat \in Fats
  BY Sizes DEF EmptyRoot, EmptyFat, Roots, Fats, FreeEntry
<1>2. ch \in [Entry -> Seq(Index)] /\ \A e \in Entry : ch[e] = <<>> /\ DOMAIN ch[e] = {}
  BY EmptySeq
<1>3. \A e \in Entry : EmptyRoot[e].name = NoName
  BY DEF EmptyRoot, FreeEntry
<1> HIDE DEF ch
<1>4. Chained(EmptyRoot, EmptyFat, ch)
  BY <1>2, <1>3 DEF Chained, Linked
<1>5. Apart(ch)
  BY <1>2 DEF Apart
<1>6. Covered(EmptyFat, ch)
  BY Sizes DEF Covered, EmptyFat
<1> QED
  BY <1>1, <1>2, <1>4, <1>5, <1>6 DEF Whole, ch

(* fs_create(): an entry with a name and no blocks. *)
LEMMA CreatedIsWhole ==
  ASSUME NEW r, NEW f, NEW ch, Whole(r, f, ch), NEW e \in Entry, r[e].name = NoName,
         NEW nm \in Name
  PROVE  Whole([r EXCEPT ![e] = [name |-> nm, size |-> 0, first |-> EOC]], f, ch)
<1>1. PICK s : s = [r EXCEPT ![e] = [name |-> nm, size |-> 0, first |-> EOC]]
  OBVIOUS
<1>2. r \in Roots /\ ch[e] = <<>> /\ nm # NoName
  BY Sizes DEF Whole, Chained
<1>3. /\ s \in Roots /\ s[e] = [name |-> nm, size |-> 0, first |-> EOC]
      /\ \A x \in Entry : x # e => s[x] = r[x]
  BY <1>1, <1>2, Sizes DEF Roots
<1>4. FirstOf(ch[e], EOC) = EOC /\ Fits(0, Len(ch[e]))
  <2>1. Len(ch[e]) = 0
    BY <1>2, EmptySeq
  <2> QED
    BY <1>2, <2>1, Sizes DEF FirstOf, Fits
<1>5. Chained(s, f, ch)
  <2>1. SUFFICES ASSUME NEW x \in Entry
                 PROVE  /\ Linked(ch[x], f, EOC) /\ \A k \in DOMAIN ch[x] : ch[x][k] # 0
                        /\ s[x].name = NoName => ch[x] = <<>>
                        /\ s[x].name # NoName => /\ s[x].first = FirstOf(ch[x], EOC)
                                                 /\ Fits(s[x].size, Len(ch[x]))
    BY DEF Chained
  <2>2. CASE x = e
    BY <1>2, <1>3, <1>4, <2>2 DEF Whole, Chained
  <2>3. CASE x # e
    BY <1>3, <2>3 DEF Whole, Chained
  <2> QED
    BY <2>2, <2>3
<1> QED
  BY <1>1, <1>3, <1>5 DEF Whole

(* fs_delete(): the blocks of the entry are free, and so is the entry. *)
LEMMA DeletedIsWhole ==
  ASSUME NEW r, NEW f, NEW ch, Whole(r, f, ch), NEW e \in Entry, r[e].name # NoName,
         NEW s \in Roots, s[e].name = NoName, \A x \in Entry : x # e => s[x] = r[x],
         NEW g \in Fats,
         \A i \in Index : g[i] = IF \E k \in DOMAIN ch[e] : ch[e][k] = i THEN 0 ELSE f[i]
  PROVE  Whole(s, g, [ch EXCEPT ![e] = <<>>])
<1>1. PICK c : c = [ch EXCEPT ![e] = <<>>]
  OBVIOUS
<1>2. ch \in [Entry -> Seq(Index)] /\ Chained(r, f, ch) /\ Apart(ch) /\ Covered(f, ch)
  BY DEF Whole
<1>3. /\ c \in [Entry -> Seq(Index)] /\ c[e] = <<>> /\ DOMAIN c[e] = {}
      /\ \A x \in Entry : x # e => c[x] = ch[x]
  BY <1>1, <1>2, EmptySeq
<1>4. ASSUME NEW x \in Entry, x # e, NEW k \in DOMAIN ch[x] PROVE g[ch[x][k]] = f[ch[x][k]]
  <2>1. ch[x][k] \in Index
    BY <1>4, ChainFacts
  <2>2. ~\E l \in DOMAIN ch[e] : ch[e][l] = ch[x][k]
    BY <1>2, <1>4 DEF Apart
  <2> QED
    BY <2>1, <2>2
<1>5. Chained(s, g, c)
  <2>1. SUFFICES ASSUME NEW x \in Entry
                 PROVE  /\ Linked(c[x], g, EOC) /\ \A k \in DOMAIN c[x] : c[x][k] # 0
                        /\ s[x].name = NoName => c[x] = <<>>
                        /\ s[x].name # NoName => /\ s[x].first = FirstOf(c[x], EOC)
                                                 /\ Fits(s[x].size, Len(c[x]))
    BY DEF Chained
  <2>2. CASE x = e
    BY <1>3, <2>2 DEF Linked
  <2>3. CASE x # e
    <3>1. c[x] = ch[x] /\ s[x] = r[x]
      BY <1>3, <2>3
    <3>2. Linked(ch[x], g, EOC)
      BY <1>2, <1>4, <2>3 DEF Chained, Linked
    <3> QED
      BY <1>2, <3>1, <3>2 DEF Chained
  <2> QED
    BY <2>2, <2>3
<1>6. Apart(c)
  <2>1. SUFFICES ASSUME NEW x \in Entry, NEW y \in Entry, NEW k \in DOMAIN c[x],
                        NEW l \in DOMAIN c[y], c[x][k] = c[y][l]
                 PROVE  x = y /\ k = l
    BY DEF Apart
  <2>2. x # e /\ y # e
    BY <1>3
  <2> QED
    BY <1>2, <1>3, <2>1, <2>2 DEF Apart
<1>7. Covered(g, c)
  <2>1. g[0] = EOC
    <3>1. ~\E k \in DOMAIN ch[e] : ch[e][k] = 0
      BY <1>2 DEF Chained
    <3> QED
      BY <1>2, <3>1, Sizes DEF Covered
  <2>2. ASSUME NEW i \in Index \ {0}, g[i] # 0
        PROVE  \E x \in Entry : \E k \in DOMAIN c[x] : c[x][k] = i
    <3>1. f[i] # 0 /\ ~\E k \in DOMAIN ch[e] : ch[e][k] = i
      BY <2>2
    <3>2. PICK x \in Entry : \E k \in DOMAIN ch[x] : ch[x][k] = i
      BY <1>2, <3>1 DEF Covered
    <3>3. x # e
      BY <3>1, <3>2
    <3> QED
      BY <1>3, <3>2, <3>3
  <2> QED
    BY <2>1, <2>2 DEF Covered
<1> QED
  BY <1>1, <1>3, <1>5, <1>6, <1>7 DEF Whole

(* The FAT f with the block i linked behind the last one of c. *)
GrownFat(g, f, c, i) ==
  /\ g[i] = EOC
  /\ \A j \in Index \ {i} : g[j] = IF c # <<>> /\ j = c[Len(c)] THEN i ELSE f[j]

(* fs_write(): a free block becomes the last one of the entry's. *)
LEMMA GrownIsWhole ==
  ASSUME NEW r, NEW f, NEW ch, Whole(r, f, ch), NEW e \in Entry, r[e].name # NoName,
         NEW i \in Index \ {0}, f[i] = 0,
         NEW g \in Fats, GrownFat(g, f, ch[e], i),
         NEW s \in Roots, \A x \in Entry : x # e => s[x] = r[x], s[e].name = r[e].name,
         s[e].first = IF ch[e] = <<>> THEN i ELSE r[e].first,
         Fits(s[e].size, Len(ch[e]) + 1)
  PROVE  Whole(s, g, [ch EXCEPT ![e] = Append(ch[e], i)])
<1>1. PICK c : c = [ch EXCEPT ![e] = Append(ch[e], i)]
  OBVIOUS
<1>2. ch \in [Entry -> Seq(Index)] /\ Chained(r, f, ch) /\ Apart(ch) /\ Covered(f, ch)
  BY DEF Whole
<1>3. \A x \in Entry : \A k \in DOMAIN ch[x] : ch[x][k] # i /\ ch[x][k] \in Index
  BY ChainFacts
<1>4. /\ ch[e] \in Seq(Index) /\ Distinct(ch[e]) /\ Linked(ch[e], f, EOC)
      /\ Len(ch[e]) \in Nat /\ DOMAIN ch[e] = 1 .. Len(ch[e])
  BY ChainFacts
<1>5. ASSUME NEW k \in DOMAIN ch[e]
      PROVE  g[ch[e][k]] = IF k = Len(ch[e]) THEN i ELSE f[ch[e][k]]
  <2>1. ch[e] # <<>> /\ Len(ch[e]) \in DOMAIN ch[e]
    BY <1>4, EmptySeq
  <2>2. ch[e][k] = ch[e][Len(ch[e])] <=> k = Len(ch[e])
    BY <1>4, <2>1 DEF Distinct
  <2> QED
    BY <1>3, <2>1, <2>2 DEF GrownFat
<1>6. PICK p \in Seq(Index) : p = Append(ch[e], i)
  BY <1>4, AppendProperties
<1>7. /\ Len(p) = Len(ch[e]) + 1 /\ DOMAIN p = 1 .. Len(ch[e]) + 1 /\ p # <<>>
      /\ \A k \in 1 .. Len(ch[e]) : p[k] = ch[e][k]
      /\ p[Len(ch[e]) + 1] = i
      /\ FirstOf(p, EOC) = IF ch[e] = <<>> THEN i ELSE ch[e][1]
      /\ Distinct(p) /\ Linked(p, g, EOC)
  <2>1. g[i] = EOC /\ \A k \in DOMAIN ch[e] : ch[e][k] # i
    BY <1>3 DEF GrownFat
  <2>2. /\ Len(Append(ch[e], i)) = Len(ch[e]) + 1 /\ Append(ch[e], i) # <<>>
        /\ DOMAIN Append(ch[e], i) = 1 .. Len(ch[e]) + 1
        /\ \A k \in 1 .. Len(ch[e]) : Append(ch[e], i)[k] = ch[e][k]
        /\ Append(ch[e], i)[Len(ch[e]) + 1] = i
        /\ FirstOf(Append(ch[e], i), EOC) = IF ch[e] = <<>> THEN i ELSE ch[e][1]
        /\ Distinct(Append(ch[e], i)) /\ Linked(Append(ch[e], i), g, EOC)
    <3>1. PICK o \in Seq(Index) : o = ch[e]
      BY <1>4
    <3>2. i \in Index /\ Distinct(o) /\ Linked(o, f, EOC) /\ \A k \in DOMAIN o : o[k] # i
      BY <1>4, <2>1, <3>1
    <3>3. g[i] = EOC /\ \A k \in DOMAIN o : g[o[k]] = IF k = Len(o) THEN i ELSE f[o[k]]
      BY ONLY <1>5, <2>1, <3>1
    <3>4. /\ Len(Append(o, i)) = Len(o) + 1
          /\ DOMAIN Append(o, i) = 1 .. Len(o) + 1 /\ Append(o, i) # <<>>
          /\ \A k \in 1 .. Len(o) : Append(o, i)[k] = o[k]
          /\ Append(o, i)[Len(o) + 1] = i
          /\ FirstOf(Append(o, i), EOC) = IF o = <<>> THEN i ELSE o[1]
          /\ Distinct(Append(o, i)) /\ Linked(Append(o, i), g, EOC)
      BY ONLY <3>2, <3>3, AppendLinked
    <3> QED
      BY ONLY <3>1, <3>4
  <2> QED
    BY ONLY <1>6, <2>2
<1>8. /\ c \in [Entry -> Seq(Index)] /\ c[e] = p
      /\ \A x \in Entry : x # e => c[x] = ch[x]
  BY <1>1, <1>2, <1>6
<1>9. \A k \in DOMAIN p : p[k] = i \/ (k \in DOMAIN ch[e] /\ p[k] = ch[e][k])
  <2>1. SUFFICES ASSUME NEW k \in DOMAIN p
                 PROVE  p[k] = i \/ (k \in DOMAIN ch[e] /\ p[k] = ch[e][k])
    OBVIOUS
  <2>2. k = Len(ch[e]) + 1 \/ k \in 1 .. Len(ch[e])
    BY ONLY <1>4, <1>7, <2>1
  <2>3. k = Len(ch[e]) + 1 => p[k] = i
    BY ONLY <1>7
  <2>4. k \in 1 .. Len(ch[e]) => k \in DOMAIN ch[e] /\ p[k] = ch[e][k]
    BY ONLY <1>4, <1>7
  <2> QED
    BY ONLY <2>2, <2>3, <2>4
<1>10. ASSUME NEW x \in Entry, x # e, NEW k \in DOMAIN ch[x] PROVE g[ch[x][k]] = f[ch[x][k]]
  <2>1. ch[x][k] \in Index \ {i}
    BY <1>3, <1>10
  <2>2. ch[e] # <<>> => ch[x][k] # ch[e][Len(ch[e])]
    <3>1. ch[e] # <<>> => Len(ch[e]) \in DOMAIN ch[e]
      BY <1>4, EmptySeq
    <3> QED
      BY <1>2, <1>10, <3>1 DEF Apart
  <2> QED
    BY <2>1, <2>2 DEF GrownFat
<1>11. Chained(s, g, c)
  <2>1. SUFFICES ASSUME NEW x \in Entry
                 PROVE  /\ Linked(c[x], g, EOC) /\ \A k \in DOMAIN c[x] : c[x][k] # 0
                        /\ s[x].name = NoName => c[x] = <<>>
                        /\ s[x].name # NoName => /\ s[x].first = FirstOf(c[x], EOC)
                                                 /\ Fits(s[x].size, Len(c[x]))
    BY DEF Chained
  <2>2. CASE x = e
    <3>1. s[e].first = FirstOf(p, EOC)
      BY <1>2, <1>7 DEF Chained, FirstOf
    <3>2. \A k \in DOMAIN p : p[k] # 0
      BY <1>2, <1>9 DEF Chained
    <3> QED
      BY <1>7, <1>8, <2>2, <3>1, <3>2
  <2>3. CASE x # e
    <3>1. c[x] = ch[x] /\ s[x] = r[x]
      BY <1>8, <2>3
    <3>2. Linked(ch[x], g, EOC)
      BY <1>2, <1>10, <2>3 DEF Chained, Linked
    <3> QED
      BY <1>2, <3>1, <3>2 DEF Chained
  <2> QED
    BY <2>2, <2>3
<1>12. Apart(c)
  <2>1. SUFFICES ASSUME NEW x \in Entry, NEW y \in Entry, NEW k \in DOMAIN c[x],
                        NEW l \in DOMAIN c[y], c[x][k] = c[y][l]
                 PROVE  x = y /\ k = l
    BY DEF Apart
  <2>2. CASE x = e /\ y = e
    BY <1>7, <1>8, <2>1, <2>2 DEF Distinct
  <2>3. CASE x # e /\ y # e
    BY <1>2, <1>8, <2>1, <2>3 DEF Apart
  <2>4. CASE x = e /\ y # e
    <3>1. k \in DOMAIN ch[e] /\ c[x][k] = ch[e][k] /\ c[y][l] = ch[y][l] /\ l \in DOMAIN ch[y]
      BY <1>3, <1>8, <1>9, <2>1, <2>4
    <3> QED
      BY <1>2, <2>1, <2>4, <3>1 DEF Apart
  <2>5. CASE x # e /\ y = e
    <3>1. l \in DOMAIN ch[e] /\ c[y][l] = ch[e][l] /\ c[x][k] = ch[x][k] /\ k \in DOMAIN ch[x]
      BY <1>3, <1>8, <1>9, <2>1, <2>5
    <3> QED
      BY <1>2, <2>1, <2>5, <3>1 DEF Apart
  <2> QED
    BY <2>2, <2>3, <2>4, <2>5
<1>13. Covered(g, c)
  <2>1. ASSUME NEW x \in Entry, NEW k \in DOMAIN ch[x]
        PROVE  \E l \in DOMAIN c[x] : c[x][l] = ch[x][k]
    <3>1. CASE x = e
      <4>1. k \in DOMAIN p /\ p[k] = ch[x][k]
        BY <1>4, <1>7, <3>1
      <4> QED
        BY <1>8, <3>1, <4>1
    <3>2. CASE x # e
      BY <1>8, <3>2
    <3> QED
      BY <3>1, <3>2
  <2>2. g[0] = EOC
    <3>1. 0 \in Index \ {i} /\ f[0] = EOC
      BY <1>2, Sizes DEF Covered
    <3>2. ~(ch[e] # <<>> /\ 0 = ch[e][Len(ch[e])])
      <4>1. ch[e] # <<>> => Len(ch[e]) \in DOMAIN ch[e]
        BY <1>4, EmptySeq
      <4> QED
        BY <1>2, <4>1 DEF Chained
    <3> QED
      BY <3>1, <3>2 DEF GrownFat
  <2>3. ASSUME NEW j \in Index \ {0}, g[j] # 0
        PROVE  \E x \in Entry : \E k \in DOMAIN c[x] : c[x][k] = j
    <3>1. CASE j = i
      <4>1. Len(ch[e]) + 1 \in DOMAIN p /\ p[Len(ch[e]) + 1] = j
        BY <1>4, <1>7, <3>1
      <4> QED
        BY <1>8, <4>1
    <3>2. CASE ch[e] # <<>> /\ j = ch[e][Len(ch[e])]
      <4>1. Len(ch[e]) \in DOMAIN ch[e]
        BY <1>4, <3>2, EmptySeq
      <4> QED
        BY <2>1, <3>2, <4>1
    <3>3. CASE j # i /\ ~(ch[e] # <<>> /\ j = ch[e][Len(ch[e])])
      <4>1. f[j] # 0
        BY <2>3, <3>3 DEF GrownFat
      <4>2. PICK x \in Entry : \E k \in DOMAIN ch[x] : ch[x][k] = j
        BY <1>2, <4>1 DEF Covered
      <4> QED
        BY <2>1, <4>2
    <3> QED
      BY <3>1, <3>2, <3>3
  <2> QED
    BY <2>2, <2>3 DEF Covered
<1> QED
  BY <1>1, <1>8, <1>11, <1>12, <1>13 DEF Whole

(* A file that gets longer within its blocks. *)
LEMMA ResizedIsWhole ==
  ASSUME NEW r, NEW f, NEW ch, Whole(r, f, ch), NEW e \in Entry,
         NEW s \in Roots, \A x \in Entry : x # e => s[x] = r[x], s[e].name = r[e].name,
         s[e].first = r[e].first, r[e].name # NoName => Fits(s[e].size, Len(ch[e]))
  PROVE  Whole(s, f, ch)
<1>1. Chained(s, f, ch)
  <2>1. SUFFICES ASSUME NEW x \in Entry
                 PROVE  /\ Linked(ch[x], f, EOC) /\ \A k \in DOMAIN ch[x] : ch[x][k] # 0
                        /\ s[x].name = NoName => ch[x] = <<>>
                        /\ s[x].name # NoName => /\ s[x].first = FirstOf(ch[x], EOC)
                                                 /\ Fits(s[x].size, Len(ch[x]))
    BY DEF Chained
  <2>2. CASE x = e
    BY <2>2 DEF Whole, Chained
  <2>3. CASE x # e
    BY <2>3 DEF Whole, Chained
  <2> QED
    BY <2>2, <2>3
<1> QED
  BY <1>1 DEF Whole

-----------------------------------------------------------------------------
BlocksOf(c) == {c[k] : k \in DOMAIN c}

(* Such a directory and FAT are well formed. *)
LEMMA WholeIsWellFormed ==
  ASSUME NEW r, NEW f, NEW ch, Whole(r, f, ch)
  PROVE  WellFormed(r, f)
<1>1. ch \in [Entry -> Seq(Index)] /\ Chained(r, f, ch) /\ Apart(ch) /\ Covered(f, ch)
  BY DEF Whole
<1>2. \A e \in UsedEntries(r) : e \in Entry /\ r[e].name # NoName
  BY DEF UsedEntries
<1>3. ASSUME NEW e \in UsedEntries(r)
      PROVE  Chain(f, r[e].first) = ch[e] /\ Blocks(f, r[e].first) = BlocksOf(ch[e])
  <2>1. Chain(f, r[e].first) = ch[e]
    BY <1>1, <1>2, ChainIs DEF Chained
  <2> QED
    BY <2>1 DEF Blocks, BlocksOf
<1>4. ASSUME NEW e \in UsedEntries(r)
      PROVE  LET c == Chain(f, r[e].first)
             IN  /\ c # <<>> => f[c[Len(c)]] = EOC
                 /\ 0 \notin Blocks(f, r[e].first)
                 /\ r[e].size \in (IF Len(c) <= 1 THEN 0 ELSE (Len(c) - 1) * BlockSize + 1)
                                    .. (Len(c) * BlockSize)
  <2>1. ch[e] # <<>> => f[ch[e][Len(ch[e])]] = EOC
    <3>1. SUFFICES ASSUME ch[e] # <<>> PROVE f[ch[e][Len(ch[e])]] = EOC
      OBVIOUS
    <3>2. /\ ch[e] \in Seq(Index) /\ Linked(ch[e], f, EOC)
          /\ Len(ch[e]) \in Nat /\ DOMAIN ch[e] = 1 .. Len(ch[e])
      BY <1>2, ChainFacts
    <3>3. Len(ch[e]) \in DOMAIN ch[e]
      BY <3>1, <3>2, EmptySeq
    <3> QED
      BY <3>2, <3>3 DEF Linked
  <2>2. 0 \notin BlocksOf(ch[e])
    BY <1>1, <1>2 DEF Chained, BlocksOf
  <2>3. Fits(r[e].size, Len(ch[e]))
    BY <1>1, <1>2 DEF Chained
  <2> QED
    BY <1>3, <2>1, <2>2, <2>3 DEF Fits
<1>5. ASSUME NEW e1 \in UsedEntries(r), NEW e2 \in UsedEntries(r),
             Blocks(f, r[e1].first) \cap Blocks(f, r[e2].first) # {}
      PROVE  e1 = e2
  <2>1. BlocksOf(ch[e1]) \cap BlocksOf(ch[e2]) # {}
    BY <1>3, <1>5
  <2>2. PICK k1 \in DOMAIN ch[e1] : \E k2 \in DOMAIN ch[e2] : ch[e1][k1] = ch[e2][k2]
    BY <2>1 DEF BlocksOf
  <2> QED
    BY <1>1, <1>2, <2>2 DEF Apart
<1>6. FatFree(f) = Index \ ({0} \cup UNION {Blocks(f, r[e].first) : e \in UsedEntries(r)})
  <2>1. f[0] = EOC /\ EOC # 0
    BY <1>1, Sizes DEF Covered
  <2>2. ASSUME NEW i \in Index, f[i] = 0, NEW e \in UsedEntries(r)
        PROVE  i \notin Blocks(f, r[e].first)
    <3>1. \A k \in DOMAIN ch[e] : f[ch[e][k]] # 0
      BY <1>2, ChainFacts
    <3> QED
      BY <1>3, <2>2, <3>1 DEF BlocksOf
  <2>3. ASSUME NEW i \in Index \ {0}, f[i] # 0
        PROVE  \E e \in UsedEntries(r) : i \in Blocks(f, r[e].first)
    <3>1. PICK e \in Entry : \E k \in DOMAIN ch[e] : ch[e][k] = i
      BY <1>1, <2>3 DEF Covered
    <3>2. r[e].name # NoName
      <4>1. ch[e] # <<>>
        BY <3>1, EmptySeq
      <4> QED
        BY <1>1, <4>1 DEF Chained
    <3>3. e \in UsedEntries(r)
      BY <3>2 DEF UsedEntries
    <3> QED
      BY <1>3, <3>1, <3>3 DEF BlocksOf
  <2>4. ASSUME NEW i \in FatFree(f)
        PROVE  i \in Index \ ({0} \cup UNION {Blocks(f, r[e].first) : e \in UsedEntries(r)})
    BY <2>1, <2>2, <2>4 DEF FatFree
  <2>5. ASSUME NEW i \in Index \ ({0} \cup UNION {Blocks(f, r[e].first) : e \in UsedEntries(r)})
        PROVE  i \in FatFree(f)
    BY <2>3, <2>5 DEF FatFree
  <2> QED
    BY <2>4, <2>5
<1> QED
  BY <1>1, <1>4, <1>5, <1>6 DEF WellFormed, Covered

-----------------------------------------------------------------------------
(* The invariant. *)

(* The clients of the passing runs. *)
Careful == "delete open" \notin Uses

Fds == [Fd -> [file : Entry, offset : 0 .. BlockSize * DataCount, open : BOOLEAN]]
WriteCalls ==
  [op : {"write"}, fd : Fd, buf : Seq(Byte), index : Index \cup {EOC}, prev : Index \cup {EOC}]
UmountCalls == [op : {"umount"}, block : Nat]
FreedCall == [op |-> "freed"]

Types ==
  /\ root \in Roots /\ dRoot \in Roots /\ fat \in Fats /\ dFat \in Fats
  /\ dData \in [Index -> [1 .. BlockSize -> Byte \cup {Zero}]]
  /\ fd \in Fds /\ mounted \in BOOLEAN

(* A call in progress: a write through an open descriptor, or fs_umount(), *)
(* which has written the root directory and the blocks of the FAT before   *)
(* the one it is at.                                                       *)
InCall ==
  \/ call = NoCall
  \/ call \in WriteCalls /\ mounted /\ fd[call.fd].open
  \/ /\ call \in UmountCalls /\ mounted /\ dRoot = root
     /\ \A i \in Index : i \div FatSize < call.block => dFat[i] = fat[i]
  \/ call = FreedCall /\ mounted /\ dRoot = root /\ dFat = fat

(* Where a write is: at the block of the offset, or behind the last one,   *)
(* with the block before it at hand.                                       *)
AtBlock(c, h) ==
  /\ c # <<>> /\ h <= Len(c)
  /\ call.index = IF h = Len(c) THEN EOC ELSE c[h + 1]
  /\ h > 0 => call.prev = c[h]
Writing(ch) ==
  call.op = "write" /\ call.buf # <<>> => AtBlock(ch[fd[call.fd].file], Hops(call.fd))

Opened == {d \in Fd : fd[d].open}
Descriptors ==
  /\ \A d \in Fd : fd[d].open => /\ mounted
                                 /\ root[fd[d].file].name # NoName
                                 /\ fd[d].offset <= root[fd[d].file].size
  /\ fdCount = Cardinality(Opened)

Memory == \E ch : Whole(root, fat, ch) /\ Writing(ch)
Disk == call.op # "umount" => \E ch : Whole(dRoot, dFat, ch)

FsIInv == Types /\ InCall /\ Descriptors /\ Memory /\ Disk

(* What the calls tell apart. *)
LEMMA CallKinds ==
  ASSUME InCall
  PROVE  /\ call.op = "none" => call = NoCall
         /\ call.op = "write" => call \in WriteCalls /\ mounted /\ fd[call.fd].open
         /\ call.op = "umount" =>
              /\ call \in UmountCalls /\ mounted /\ dRoot = root
              /\ \A i \in Index : i \div FatSize < call.block => dFat[i] = fat[i]
         /\ call.op = "freed" => call = FreedCall /\ mounted /\ dRoot = root /\ dFat = fat
         /\ call.op \in {"none", "umount", "freed", "write"}
         /\ ~mounted => call = NoCall
<1>1. NoCall.op = "none" /\ FreedCall.op = "freed"
  BY DEF NoCall, FreedCall
<1>2. call \in WriteCalls => call.op = "write"
  BY DEF WriteCalls
<1>3. call \in UmountCalls => call.op = "umount"
  BY DEF UmountCalls
<1> QED
  BY <1>1, <1>2, <1>3 DEF InCall

(* The descriptors are few. *)
LEMMA OpenedFinite ==
  IsFiniteSet(Opened) /\ Cardinality(Opened) \in 0 .. FdMax
  /\ (Cardinality(Opened) = FdMax => Opened = Fd)
<1>1. FdMax \in Nat \ {0}
  BY Sizes
<1>2. IsFiniteSet(Fd) /\ Cardinality(Fd) = FdMax
  BY <1>1, FS_Interval DEF Fd
<1>3. Opened \in SUBSET Fd
  BY DEF Opened
<1>4. /\ IsFiniteSet(Opened) /\ Cardinality(Opened) <= Cardinality(Fd)
      /\ Cardinality(Fd) = Cardinality(Opened) => Fd = Opened
  BY ONLY <1>2, <1>3, FS_Subset
<1>5. Cardinality(Opened) \in Nat
  BY <1>4, FS_CardinalityType
<1> QED
  BY <1>1, <1>2, <1>4, <1>5

(* It gives the types. *)
LEMMA FsTyped == FsIInv => FsTypeOK
<1>1. SUFFICES ASSUME FsIInv PROVE FsTypeOK
  OBVIOUS
<1>2. Types /\ InCall /\ Descriptors
  BY <1>1 DEF FsIInv
<1>3. fdCount \in 0 .. FdMax
  BY <1>2, OpenedFinite DEF Descriptors
<1>4. call.op \in {"none", "umount", "freed", "write"}
  BY <1>2, CallKinds
<1> QED
  BY <1>2, <1>3, <1>4 DEF Types, FsTypeOK, Roots, Fats, Fds

(* It holds of a formatted disk that is not mounted. *)
LEMMA FsBegins == FsInit => FsIInv
<1>1. SUFFICES ASSUME FsInit PROVE FsIInv
  OBVIOUS
<1>2. /\ dRoot = EmptyRoot /\ dFat = EmptyFat /\ root = EmptyRoot /\ fat = EmptyFat
      /\ dData = [i \in Index |-> [b \in 1 .. BlockSize |-> Zero]]
      /\ fd = [d \in Fd |-> ClosedFd] /\ fdCount = 0 /\ mounted = FALSE /\ call = NoCall
  BY <1>1 DEF FsInit
<1>3. PICK ch : Whole(EmptyRoot, EmptyFat, ch)
  BY EmptyIsWhole
<1>4. Types
  <2>1. EmptyRoot \in Roots /\ EmptyFat \in Fats
    BY <1>3 DEF Whole
  <2>2. ClosedFd \in [file : Entry, offset : 0 .. BlockSize * DataCount, open : BOOLEAN]
    BY Sizes DEF ClosedFd
  <2> QED
    BY <1>2, <2>1, <2>2 DEF Types, Fds
<1>5. Descriptors
  <2>1. \A d \in Fd : ~fd[d].open
    BY <1>2 DEF ClosedFd
  <2>2. Opened = {}
    BY <2>1 DEF Opened
  <2> QED
    BY <1>2, <2>1, <2>2, FS_EmptySet DEF Descriptors
<1>6. Memory /\ Disk /\ InCall
  <2>1. Writing(ch)
    BY <1>2 DEF Writing, NoCall
  <2> QED
    BY <1>2, <1>3, <2>1 DEF Memory, Disk, InCall
<1> QED
  BY <1>4, <1>5, <1>6 DEF FsIInv

-----------------------------------------------------------------------------
(* The calls that mount and unmount. *)

(* Closed descriptors are in order with any directory. *)
LEMMA AllClosed ==
  ASSUME fd' = [d \in Fd |-> ClosedFd], fdCount' = 0
  PROVE  Descriptors' /\ fd' \in Fds
<1>1. ClosedFd \in [file : Entry, offset : 0 .. BlockSize * DataCount, open : BOOLEAN]
  BY Sizes DEF ClosedFd
<1>2. \A d \in Fd : ~fd'[d].open
  BY DEF ClosedFd
<1>3. Opened' = {}
  BY <1>2 DEF Opened
<1> QED
  BY <1>1, <1>2, <1>3, FS_EmptySet DEF Descriptors, Fds

(* fs_mount() (fs.c:225-269) reads what the disk holds. *)
LEMMA MountStep ==
  ASSUME FsIInv, Mount
  PROVE  FsIInv'
<1>1. /\ ~mounted /\ mounted' = TRUE /\ root' = dRoot /\ fat' = dFat
      /\ fd' = [d \in Fd |-> ClosedFd] /\ fdCount' = 0
      /\ dRoot' = dRoot /\ dFat' = dFat /\ dData' = dData /\ call' = call
  BY DEF Mount, BlockDiskOpen, diskVars
<1>2. Types /\ InCall /\ Disk
  BY DEF FsIInv
<1>3. call = NoCall /\ call.op = "none"
  BY <1>1, <1>2, CallKinds DEF NoCall
<1>4. PICK ch : Whole(dRoot, dFat, ch)
  BY <1>2, <1>3 DEF Disk
<1>5. Descriptors' /\ fd' \in Fds
  BY <1>1, AllClosed
<1>6. Types'
  BY <1>1, <1>2, <1>5 DEF Types
<1>7. Memory' /\ Disk' /\ InCall'
  BY <1>1, <1>3, <1>4 DEF Memory, Writing, Disk, InCall
<1> QED
  BY <1>5, <1>6, <1>7 DEF FsIInv

(* The memory of the process is gone, at the end of fs_umount() or because *)
(* the process is.                                                         *)
LEMMA LostStep ==
  ASSUME FsIInv, MemoryLost, call.op # "umount" \/ (dRoot = root /\ dFat = fat)
  PROVE  FsIInv'
<1>1. /\ mounted' = FALSE /\ root' = EmptyRoot /\ fat' = EmptyFat /\ call' = NoCall
      /\ fd' = [d \in Fd |-> ClosedFd] /\ fdCount' = 0
      /\ dRoot' = dRoot /\ dFat' = dFat /\ dData' = dData
  BY DEF MemoryLost, BlockDiskClose, diskVars
<1>2. Types /\ Memory /\ Disk
  BY DEF FsIInv
<1>3. PICK ch : Whole(dRoot, dFat, ch)
  BY <1>2 DEF Disk, Memory
<1>4. PICK none : Whole(EmptyRoot, EmptyFat, none)
  BY EmptyIsWhole
<1>5. Descriptors' /\ fd' \in Fds
  BY <1>1, AllClosed
<1>6. Types'
  BY <1>1, <1>2, <1>4, <1>5 DEF Types, Whole
<1>7. Memory' /\ Disk' /\ InCall'
  BY <1>1, <1>3, <1>4 DEF Memory, Writing, Disk, InCall, NoCall
<1> QED
  BY <1>5, <1>6, <1>7 DEF FsIInv

(* fs_umount() writes the root directory (fs.c:273). *)
LEMMA UmountStep ==
  ASSUME FsIInv, Umount
  PROVE  FsIInv'
<1>1. /\ mounted /\ call' = [op |-> "umount", block |-> 0] /\ dRoot' = root
      /\ dFat' = dFat /\ dData' = dData /\ root' = root /\ fat' = fat /\ fd' = fd
      /\ fdCount' = fdCount /\ mounted' = mounted
  BY DEF Umount, Ready, WrittenFirst
<1>2. Types /\ Descriptors /\ Memory
  BY DEF FsIInv
<1>3. call' \in UmountCalls /\ call'.op = "umount" /\ call'.block = 0
  BY <1>1 DEF UmountCalls
<1>4. InCall'
  <2>1. ASSUME NEW i \in Index PROVE ~(i \div FatSize < 0)
    <3>1. i \in Nat /\ FatSize \in Nat \ {0}
      BY Sizes
    <3>2. i \div FatSize \in Nat
      BY ONLY <3>1, QuotientExists
    <3> QED
      BY ONLY <3>2
  <2> QED
    BY <1>1, <1>3, <2>1 DEF InCall
<1>5. Types' /\ Descriptors' /\ Disk'
  BY <1>1, <1>2, <1>3 DEF Types, Descriptors, Opened, Disk
<1>6. Memory'
  BY <1>1, <1>2, <1>3 DEF Memory, Writing
<1> QED
  BY <1>4, <1>5, <1>6 DEF FsIInv

(* Then a block of the FAT (fs.c:275-277). *)
LEMMA UmountFatStep ==
  ASSUME FsIInv, UmountFat
  PROVE  FsIInv'
<1>1. /\ call.op = "umount" /\ call' = [call EXCEPT !.block = @ + 1]
      /\ dFat' = [i \in Index |-> IF i \div FatSize = call.block THEN fat[i] ELSE dFat[i]]
      /\ dRoot' = dRoot /\ dData' = dData /\ root' = root /\ fat' = fat /\ fd' = fd
      /\ fdCount' = fdCount /\ mounted' = mounted
  BY DEF UmountFat
<1>2. Types /\ Descriptors /\ Memory /\ InCall
  BY DEF FsIInv
<1>3. /\ call \in UmountCalls /\ mounted /\ dRoot = root
      /\ \A i \in Index : i \div FatSize < call.block => dFat[i] = fat[i]
  BY <1>1, <1>2, CallKinds
<1>4. call' \in UmountCalls /\ call'.op = "umount" /\ call'.block = call.block + 1
  BY <1>1, <1>3 DEF UmountCalls
<1>5. ASSUME NEW i \in Index, i \div FatSize < call.block + 1 PROVE dFat'[i] = fat[i]
  <2>1. i \div FatSize \in Nat /\ call.block \in Nat
    BY <1>3, Sizes, QuotientExists DEF UmountCalls
  <2>2. i \div FatSize = call.block \/ i \div FatSize < call.block
    BY ONLY <1>5, <2>1
  <2> QED
    BY <1>1, <1>3, <2>2
<1>6. InCall'
  BY <1>1, <1>3, <1>4, <1>5 DEF InCall
<1>7. Types' /\ Descriptors' /\ Disk'
  BY <1>1, <1>2, <1>4 DEF Types, Descriptors, Opened, Disk, Fats
<1>8. Memory'
  BY <1>1, <1>2, <1>4 DEF Memory, Writing
<1> QED
  BY <1>6, <1>7, <1>8 DEF FsIInv

(* Behind the last block of the FAT, all of it is written. *)
LEMMA FatIsWritten ==
  ASSUME FsIInv, call.op = "umount", call.block \notin FatBlock
  PROVE  dRoot = root /\ dFat = fat
<1>1. Types /\ InCall
  BY DEF FsIInv
<1>2. /\ call \in UmountCalls /\ dRoot = root
      /\ \A i \in Index : i \div FatSize < call.block => dFat[i] = fat[i]
  BY <1>1, CallKinds
<1>3. ASSUME NEW i \in Index PROVE i \div FatSize < call.block
  <2>1. PICK b \in Nat : b = call.block
    BY <1>2 DEF UmountCalls
  <2>2. i \in Nat /\ FatSize \in Nat \ {0} /\ DataCount \in Nat
    BY Sizes
  <2>3. PICK q \in Nat : q = i \div FatSize
    BY <2>2, QuotientExists
  <2>4. SUFFICES ASSUME b <= q PROVE FALSE
    BY <2>1, <2>3
  <2>5. q * FatSize <= i
    <3>1. i = (i \div FatSize) * FatSize + (i % FatSize) /\ i % FatSize \in 0 .. FatSize - 1
      BY ONLY <2>2, QuotientExists
    <3> QED
      BY ONLY <2>2, <2>3, <3>1, ProductGrows
  <2>6. b * FatSize <= q * FatSize /\ b * FatSize \in Nat /\ q * FatSize \in Nat
    BY ONLY <2>2, <2>4, ProductGrows
  <2>7. b * FatSize \in Index
    BY ONLY <2>2, <2>5, <2>6, i \in Index DEF Index
  <2>8. (b * FatSize) \div FatSize = b
    <3>1. 0 \in 0 .. FatSize - 1 /\ b * FatSize + 0 = b * FatSize
      BY ONLY <2>2, <2>6
    <3>2. (b * FatSize + 0) \div FatSize = b
      BY ONLY <2>2, <3>1, QuotientIs
    <3> QED
      BY ONLY <3>1, <3>2
  <2> QED
    BY <2>1, <2>7, <2>8 DEF FatBlock
<1> QED
  BY <1>1, <1>2, <1>3 DEF Types, Fats

(* The end of fs_umount() (fs.c:279-294). *)
LEMMA UmountEndStep ==
  ASSUME FsIInv, UmountEnd
  PROVE  FsIInv'
<1>1. call.op = "umount" /\ call.block \notin FatBlock
  BY DEF UmountEnd
<1>2. dRoot = root /\ dFat = fat
  BY <1>1, FatIsWritten
<1>3. CASE MemoryLost
  BY <1>2, <1>3, LostStep
<1>4. CASE /\ call' = [op |-> "freed"] /\ dRoot' = dRoot /\ dFat' = dFat /\ dData' = dData
           /\ root' = root /\ fat' = fat /\ fd' = fd /\ fdCount' = fdCount /\ mounted' = mounted
  <2>1. Types /\ Descriptors /\ Memory /\ InCall
    BY DEF FsIInv
  <2>2. mounted /\ call'.op = "freed"
    BY <1>1, <1>4, <2>1, CallKinds
  <2>3. InCall'
    BY <1>2, <1>4, <2>2 DEF InCall, FreedCall
  <2>4. Types' /\ Descriptors'
    BY <1>4, <2>1 DEF Types, Descriptors, Opened
  <2>5. Memory' /\ Disk'
    BY <1>2, <1>4, <2>1, <2>2 DEF Memory, Writing, Disk
  <2> QED
    BY <2>3, <2>4, <2>5 DEF FsIInv
<1> QED
  BY <1>3, <1>4 DEF UmountEnd, diskVars

-----------------------------------------------------------------------------
(* The calls on files and descriptors. *)

(* What holds between calls, when the disk stays as it is. *)
LEMMA BetweenCalls ==
  ASSUME FsIInv, mounted, mounted' = mounted, call.op \in {"none", "write"}, call' = NoCall,
         dRoot' = dRoot, dFat' = dFat, dData' = dData,
         fd' \in Fds, Descriptors', NEW ch, Whole(root, fat, ch)'
  PROVE  FsIInv'
<1>1. Types /\ Disk
  BY DEF FsIInv
<1>2. root' \in Roots /\ fat' \in Fats
  BY DEF Whole
<1>3. Types'
  BY <1>1, <1>2 DEF Types
<1>4. NoCall.op = "none"
  BY DEF NoCall
<1>5. InCall' /\ Memory' /\ Disk'
  BY <1>1, <1>4 DEF InCall, Memory, Writing, Disk
<1> QED
  BY <1>3, <1>5 DEF FsIInv

(* fs_create() (fs.c:342-375). *)
LEMMA CreateStep ==
  ASSUME FsIInv, NEW nm \in Name, Create(nm)
  PROVE  FsIInv'
<1> DEFINE new == [name |-> nm, size |-> 0, first |-> EOC]
<1>1. /\ mounted /\ call = NoCall /\ EntryOf(NoName) # {}
      /\ root' = [root EXCEPT ![Min(EntryOf(NoName))] = new]
      /\ dRoot' = dRoot /\ dFat' = dFat /\ dData' = dData /\ fat' = fat /\ fd' = fd
      /\ fdCount' = fdCount /\ mounted' = mounted /\ call' = call
  BY DEF Create, Ready, CanCreate, diskVars
<1>2. Types /\ Descriptors /\ Memory
  BY DEF FsIInv
<1>3. PICK ch : Whole(root, fat, ch)
  BY <1>2 DEF Memory
<1>4. PICK e \in Entry : e = Min(EntryOf(NoName)) /\ root[e].name = NoName
  <2>1. EntryOf(NoName) \in SUBSET Nat /\ EntryOf(NoName) \subseteq Entry
    BY Sizes DEF EntryOf
  <2>2. Min(EntryOf(NoName)) \in EntryOf(NoName)
    BY <1>1, <2>1, MinIs
  <2> QED
    BY <2>1, <2>2 DEF EntryOf
<1>5. Whole(root, fat, ch)'
  <2>1. Whole([root EXCEPT ![e] = new], fat, ch)
    BY ONLY <1>3, <1>4, CreatedIsWhole, nm \in Name
  <2> QED
    BY <1>1, <1>4, <2>1
<1>6. Descriptors'
  <2>1. ASSUME NEW d \in Fd, fd[d].open PROVE root'[fd[d].file] = root[fd[d].file]
    <3>1. fd[d].file \in Entry /\ fd[d].file # e
      BY <1>2, <1>4, <2>1 DEF Types, Fds, Descriptors
    <3> QED
      BY <1>1, <1>2, <1>4, <3>1 DEF Types, Roots
  <2> QED
    BY <1>1, <1>2, <2>1 DEF Descriptors, Opened
<1>7. call.op \in {"none", "write"} /\ fd' \in Fds
  BY <1>1, <1>2 DEF NoCall, Types
<1> QED
  BY <1>1, <1>5, <1>6, <1>7, BetweenCalls

(* What it does: the entry e, which no descriptor is open on, and its      *)
(* blocks are free.                                                        *)
FreesEntry(ch, e, nm) ==
  /\ Whole(root, fat, ch) /\ e \in Entry /\ root[e].name = nm /\ mounted /\ mounted'
  /\ Whole(root', fat', [ch EXCEPT ![e] = <<>>]) /\ root'[e].name = NoName
  /\ \A x \in Entry : x # e => root'[x] = root[x]
  /\ \A d \in Fd : ~(fd[d].open /\ fd[d].file = e)

(* fs_delete() (fs.c:377-409) of a file that is not open. *)
LEMMA DeleteDoes ==
  ASSUME FsIInv, Careful, NEW nm \in Name, Delete(nm)
  PROVE  FsIInv' /\ \E ch, e : FreesEntry(ch, e, nm)
<1>1. PICK e \in EntryOf(nm) :
        /\ \A d \in Fd : ~(fd[d].open /\ fd[d].file = e)
        /\ fat' = [i \in Index |-> IF i \in Freed(e) THEN 0 ELSE fat[i]]
        /\ root' = [root EXCEPT ![e].name = NoName]
  BY DEF Delete, Careful
<1>2. /\ mounted /\ call = NoCall /\ dRoot' = dRoot /\ dFat' = dFat /\ dData' = dData
      /\ fd' = fd /\ fdCount' = fdCount /\ mounted' = mounted /\ call' = call
  BY DEF Delete, Ready, diskVars
<1>3. Types /\ Descriptors /\ Memory
  BY DEF FsIInv
<1>4. PICK ch : Whole(root, fat, ch)
  BY <1>3 DEF Memory
<1>5. e \in Entry /\ root[e].name # NoName /\ root \in Roots /\ fat \in Fats
  BY <1>3, Sizes DEF EntryOf, Types
<1>6. /\ root' \in Roots /\ root'[e].name = NoName
      /\ \A x \in Entry : x # e => root'[x] = root[x]
  BY <1>1, <1>5 DEF Roots
<1>7. Freed(e) = {ch[e][k] : k \in DOMAIN ch[e]}
  <2>1. root[e].first = FirstOf(ch[e], EOC)
    BY <1>4, <1>5 DEF Whole, Chained
  <2>2. Chain(fat, root[e].first) = ch[e]
    BY <1>4, <1>5, <2>1, ChainIs
  <2> QED
    BY <2>2 DEF Freed
<1>8. fat' \in Fats
  BY <1>1, <1>5, Sizes DEF Fats
<1>9. \A i \in Index : fat'[i] = IF \E k \in DOMAIN ch[e] : ch[e][k] = i THEN 0 ELSE fat[i]
  BY <1>1, <1>7
<1>10. Whole(root', fat', [ch EXCEPT ![e] = <<>>])
  BY ONLY <1>4, <1>5, <1>6, <1>8, <1>9, DeletedIsWhole
<1>11. PICK c : c = [ch EXCEPT ![e] = <<>>]
  OBVIOUS
<1>12. Whole(root, fat, c)'
  BY <1>10, <1>11
<1>13. Descriptors'
  <2>1. ASSUME NEW d \in Fd, fd[d].open PROVE root'[fd[d].file] = root[fd[d].file]
    <3>1. fd[d].file \in Entry /\ fd[d].file # e
      BY <1>1, <1>3, <2>1 DEF Types, Fds
    <3> QED
      BY <1>6, <3>1
  <2> QED
    BY <1>2, <1>3, <2>1 DEF Descriptors, Opened
<1>14. call.op \in {"none", "write"} /\ fd' \in Fds
  BY <1>2, <1>3 DEF NoCall, Types
<1>15. FreesEntry(ch, e, nm)
  <2>1. root[e].name = nm
    BY <1>1 DEF EntryOf
  <2> QED
    BY ONLY <1>1, <1>2, <1>4, <1>5, <1>6, <1>10, <2>1 DEF FreesEntry
<1>16. FsIInv'
  BY <1>2, <1>12, <1>13, <1>14, BetweenCalls
<1> QED
  BY <1>15, <1>16

(* fs_open() (fs.c:427-459). *)
LEMMA OpenStep ==
  ASSUME FsIInv, NEW nm \in Name, Open(nm)
  PROVE  FsIInv'
<1>1. PICK e \in EntryOf(nm) :
        fd' = [fd EXCEPT ![FirstClosed] = [file |-> e, offset |-> 0, open |-> TRUE]]
  BY DEF Open
<1>2. /\ mounted /\ call = NoCall /\ fdCount # FdMax /\ fdCount' = fdCount + 1
      /\ dRoot' = dRoot /\ dFat' = dFat /\ dData' = dData /\ root' = root /\ fat' = fat
      /\ mounted' = mounted /\ call' = call
  BY DEF Open, Ready, CanOpen, diskVars
<1>3. Types /\ Descriptors /\ Memory
  BY DEF FsIInv
<1>4. PICK ch : Whole(root, fat, ch)
  BY <1>3 DEF Memory
<1>5. e \in Entry /\ root[e].name # NoName /\ fd \in Fds /\ root[e].size \in Nat
  BY <1>3, Sizes DEF EntryOf, Types, Roots
<1>6. PICK n \in Fd : n = FirstClosed /\ ~fd[n].open
  <2>1. Opened # Fd
    <3>1. FdMax \in Nat \ {0} /\ IsFiniteSet(Fd) /\ Cardinality(Fd) = FdMax
      BY Sizes, FS_Interval DEF Fd
    <3> QED
      BY <1>2, <1>3, <3>1 DEF Descriptors
  <2>2. {d \in Fd : ~fd[d].open} # {} /\ {d \in Fd : ~fd[d].open} \in SUBSET Nat
    BY <2>1, Sizes DEF Opened
  <2>3. FirstClosed \in {d \in Fd : ~fd[d].open}
    BY <2>2, MinIs DEF FirstClosed
  <2> QED
    BY <2>3
<1>7. /\ fd' \in Fds /\ fd'[n] = [file |-> e, offset |-> 0, open |-> TRUE]
      /\ \A d \in Fd : d # n => fd'[d] = fd[d]
  <2>1. [file |-> e, offset |-> 0, open |-> TRUE]
          \in [file : Entry, offset : 0 .. BlockSize * DataCount, open : BOOLEAN]
    BY <1>5, Sizes
  <2> QED
    BY <1>1, <1>5, <1>6, <2>1 DEF Fds
<1>8. Descriptors'
  <2>1. Opened' = Opened \cup {n} /\ n \notin Opened
    BY <1>6, <1>7 DEF Opened
  <2>2. Cardinality(Opened \cup {n}) = Cardinality(Opened) + 1
    BY <2>1, OpenedFinite, FS_AddElement
  <2>3. fdCount' = Cardinality(Opened')
    BY <1>2, <1>3, <2>1, <2>2 DEF Descriptors
  <2>4. ASSUME NEW d \in Fd, fd'[d].open
        PROVE  root[fd'[d].file].name # NoName /\ fd'[d].offset <= root[fd'[d].file].size
    BY <1>3, <1>5, <1>7, <2>4 DEF Descriptors
  <2> QED
    BY <1>2, <2>3, <2>4 DEF Descriptors
<1>9. call.op \in {"none", "write"}
  BY <1>2 DEF NoCall
<1>10. Whole(root, fat, ch)'
  BY <1>2, <1>4
<1> QED
  BY <1>2, <1>7, <1>8, <1>9, <1>10, BetweenCalls

(* fs_close() (fs.c:461-476). *)
LEMMA CloseStep ==
  ASSUME FsIInv, NEW n, Close(n)
  PROVE  FsIInv'
<1>1. /\ mounted /\ call = NoCall /\ n \in Fd /\ fd[n].open
      /\ fd' = [fd EXCEPT ![n] = ClosedFd] /\ fdCount' = fdCount - 1
      /\ dRoot' = dRoot /\ dFat' = dFat /\ dData' = dData /\ root' = root /\ fat' = fat
      /\ mounted' = mounted /\ call' = call
  BY DEF Close, Ready, FdCheck, diskVars
<1>2. Types /\ Descriptors /\ Memory
  BY DEF FsIInv
<1>3. PICK ch : Whole(root, fat, ch)
  BY <1>2 DEF Memory
<1>4. ClosedFd \in [file : Entry, offset : 0 .. BlockSize * DataCount, open : BOOLEAN]
  BY Sizes DEF ClosedFd
<1>5. fd' \in Fds /\ ~fd'[n].open /\ \A d \in Fd : d # n => fd'[d] = fd[d]
  <2>1. fd \in Fds /\ ~ClosedFd.open
    BY <1>2 DEF Types, ClosedFd
  <2> QED
    BY <1>1, <1>4, <2>1 DEF Fds
<1>6. Descriptors'
  <2>1. Opened' = Opened \ {n} /\ n \in Opened
    BY <1>1, <1>5 DEF Opened
  <2>2. Cardinality(Opened \ {n}) = Cardinality(Opened) - 1
    BY <2>1, OpenedFinite, FS_RemoveElement
  <2>3. fdCount' = Cardinality(Opened')
    BY <1>1, <1>2, <2>1, <2>2 DEF Descriptors
  <2>4. ASSUME NEW d \in Fd, fd'[d].open PROVE fd'[d] = fd[d]
    BY <1>5, <2>4
  <2> QED
    BY <1>1, <1>2, <2>3, <2>4 DEF Descriptors
<1>7. call.op \in {"none", "write"}
  BY <1>1 DEF NoCall
<1>8. Whole(root, fat, ch)'
  BY <1>1, <1>3
<1> QED
  BY <1>1, <1>5, <1>6, <1>7, <1>8, BetweenCalls

(* An offset that stays in its file. *)
LEMMA OffsetStep ==
  ASSUME FsIInv, mounted, call = NoCall, NEW n \in Fd, fd[n].open,
         NEW o \in Nat, o <= Size(n), fd' = [fd EXCEPT ![n].offset = o],
         dRoot' = dRoot, dFat' = dFat, dData' = dData, root' = root, fat' = fat,
         fdCount' = fdCount, mounted' = mounted, call' = call
  PROVE  FsIInv'
<1>1. Types /\ Descriptors /\ Memory
  BY DEF FsIInv
<1>2. PICK ch : Whole(root, fat, ch)
  BY <1>1 DEF Memory
<1>3. fd \in Fds /\ fd[n].file \in Entry /\ root \in Roots
  BY <1>1 DEF Types, Fds
<1>4. o \in 0 .. BlockSize * DataCount
  BY <1>3, Sizes DEF Size, Roots
<1>5. /\ fd' \in Fds
      /\ \A d \in Fd : /\ fd'[d].open = fd[d].open /\ fd'[d].file = fd[d].file
                       /\ fd'[d].offset = IF d = n THEN o ELSE fd[d].offset
  BY <1>3, <1>4 DEF Fds
<1>6. Descriptors'
  <2>1. Opened' = Opened
    BY <1>5 DEF Opened
  <2> QED
    BY <1>1, <1>5, <2>1 DEF Descriptors, Size
<1>7. call.op \in {"none", "write"}
  BY DEF NoCall
<1>8. Whole(root, fat, ch)'
  BY <1>2
<1> QED
  BY <1>5, <1>6, <1>7, <1>8, BetweenCalls

(* fs_lseek() (fs.c:489-505). *)
LEMMA LseekStep ==
  ASSUME FsIInv, NEW n, NEW o \in Nat, Lseek(n, o)
  PROVE  FsIInv'
  BY OffsetStep DEF Lseek, Ready, FdCheck, diskVars

(* How many bytes a round of the loop in fs_write() or fs_read() takes. *)
LEMMA MaxOfTwo ==
  ASSUME NEW x \in Int, NEW y \in Int
  PROVE  Max({x, y}) = IF x >= y THEN x ELSE y
<1>1. CASE x >= y
  <2>1. x \in {x, y} /\ \A z \in {x, y} : x >= z
    BY <1>1
  <2> QED
    BY <1>1, <2>1 DEF Max
<1>2. CASE ~(x >= y)
  <2>1. y \in {x, y} /\ \A z \in {x, y} : y >= z
    BY <1>2
  <2> QED
    BY <1>2, <2>1 DEF Max
<1> QED
  BY <1>1, <1>2

(* The least of two numbers. *)
LEMMA MinOfTwo ==
  ASSUME NEW x \in Int, NEW y \in Int
  PROVE  Min({x, y}) = IF x <= y THEN x ELSE y
<1>1. CASE x <= y
  <2>1. x \in {x, y} /\ \A z \in {x, y} : x <= z
    BY <1>1
  <2> QED
    BY <1>1, <2>1 DEF Min
<1>2. CASE ~(x <= y)
  <2>1. y \in {x, y} /\ \A z \in {x, y} : y <= z
    BY <1>2
  <2> QED
    BY <1>2, <2>1 DEF Min
<1> QED
  BY <1>1, <1>2

(* The least of three is none that is greater than another. *)
LEMMA MinOfThree ==
  ASSUME NEW x \in Int, NEW y \in Int, NEW z \in Int
  PROVE  Min({x, y, z}) \in Int /\ Min({x, y, z}) <= y
<1>1. \E m \in {x, y, z} : \A n \in {x, y, z} : m <= n
  <2>1. CASE x <= y /\ x <= z
    BY <2>1
  <2>2. CASE y <= x /\ y <= z
    BY <2>2
  <2>3. CASE z <= x /\ z <= y
    BY <2>3
  <2> QED
    BY <2>1, <2>2, <2>3
<1>2. Min({x, y, z}) \in {x, y, z} /\ \A n \in {x, y, z} : Min({x, y, z}) <= n
  BY <1>1 DEF Min
<1> QED
  BY <1>2

(* fs_read() (fs.c:578-626) stops at the end of the file. *)
LEMMA ReadStep ==
  ASSUME FsIInv, NEW n, NEW count \in Nat, Read(n, count)
  PROVE  FsIInv'
<1>1. /\ mounted /\ call = NoCall /\ n \in Fd /\ fd[n].open
      /\ dRoot' = dRoot /\ dFat' = dFat /\ dData' = dData /\ root' = root /\ fat' = fat
      /\ fdCount' = fdCount /\ mounted' = mounted /\ call' = call
  BY DEF Read, Ready, FdCheck, diskVars
<1>2. Types /\ Descriptors /\ Memory
  BY DEF FsIInv
<1>3. PICK ch : Whole(root, fat, ch)
  BY <1>2 DEF Memory
<1>4. PICK e \in Entry : e = fd[n].file /\ root[e].name # NoName
  BY <1>1, <1>2 DEF Types, Fds, Descriptors
<1>5. PICK o \in Nat : o = fd[n].offset /\ o <= root[e].size
  BY <1>1, <1>2, <1>4, Sizes DEF Types, Fds, Descriptors
<1>6. PICK size \in Nat : size = root[e].size
  BY <1>2, <1>4, Sizes DEF Types, Roots
<1>7. PICK end \in Int : end = (Hops(n) + Len(Chain(fat, root[e].first))) * BlockSize - o
  <2>1. Chain(fat, root[e].first) = ch[e] /\ Len(ch[e]) \in Nat
    BY <1>3, <1>4, ChainIs, ChainFacts DEF Whole, Chained
  <2>2. BlockSize \in Nat \ {0}
    BY Sizes
  <2>3. Hops(n) \in Nat
    BY <1>5, <2>2, QuotientExists DEF Hops
  <2>4. (Hops(n) + Len(ch[e])) * BlockSize \in Nat
    BY ONLY <2>1, <2>2, <2>3
  <2> QED
    BY <2>1, <2>4
<1>8. PICK m \in Int : m = Min({count, size - o, end}) /\ m <= size - o
  <2>1. count \in Int /\ size - o \in Int /\ end \in Int
    BY ONLY count \in Nat, size \in Nat, o \in Nat, end \in Int
  <2>2. Min({count, size - o, end}) \in Int /\ Min({count, size - o, end}) <= size - o
    BY ONLY <2>1, MinOfThree
  <2> QED
    BY ONLY <2>2
<1>9. PICK k \in Nat : k = Max({0, m}) /\ k <= size - o
  <2>1. Max({0, m}) = IF 0 >= m THEN 0 ELSE m
    BY MaxOfTwo
  <2> QED
    BY ONLY <1>5, <1>6, <1>8, <2>1
<1>10. fd' = [fd EXCEPT ![n].offset = o + k]
  BY <1>4, <1>5, <1>6, <1>7, <1>8, <1>9 DEF Read, ReadsFrom
<1>11. o + k \in Nat /\ o + k <= Size(n)
  BY <1>4, <1>6, <1>9 DEF Size
<1> QED
  BY <1>1, <1>10, <1>11, OffsetStep

-----------------------------------------------------------------------------
(* fs_write(). *)

(* The n-th hop along a chain gives its next block, or its end. *)
LEMMA HopIs ==
  ASSUME Types, NEW c \in Seq(Index), c # <<>>, Linked(c, fat, EOC), NEW n \in 0 .. Len(c)
  PROVE  Hop(c[1], n) = IF n = Len(c) THEN EOC ELSE c[n + 1]
<1> DEFINE R == Index \cup {EOC}
           step == [k \in Nat |-> [x \in R |-> IF x \in Index THEN fat[x] ELSE EOC]]
           hop == CHOOSE h : h = [k \in 0 .. n |->
                    IF k = 0 THEN c[1]
                    ELSE IF h[k - 1] \in Index THEN fat[h[k - 1]] ELSE EOC]
           Step(h, k) == IF k = 0 THEN c[1]
                         ELSE IF h[k - 1] \in Index THEN fat[h[k - 1]] ELSE EOC
<1>1. /\ Len(c) \in Nat \ {0} /\ DOMAIN c = 1 .. Len(c)
      /\ n \in Nat /\ n <= Len(c) /\ n <= n
      /\ \A k \in 1 .. Len(c) : c[k] \in Index
  <2>1. Len(c) \in Nat \ {0} /\ DOMAIN c = 1 .. Len(c)
    BY EmptySeq, LenProperties
  <2>2. n \in Nat /\ n <= Len(c) /\ n <= n
    BY ONLY <2>1, n \in 0 .. Len(c)
  <2> QED
    BY <2>1, <2>2, ElementOfSeq
<1>2. fat \in [Index -> R] /\ c[1] \in R
  BY <1>1 DEF Types, Fats
<1>3. step \in [Nat -> [R -> R]]
  BY <1>2
<1>4. PICK g : DefinedBy(g, R, c[1], step)
  BY ONLY <1>2, <1>3, RecursionExists
<1>5. /\ g[0] = c[1]
      /\ \A k \in Nat : g[k + 1] = IF g[k] \in Index THEN fat[g[k]] ELSE EOC
  BY <1>4 DEF DefinedBy
<1>6. \E h : h = [k \in 0 .. n |-> Step(h, k)]
  <2>1. PICK h : h = [k \in 0 .. n |-> g[k]]
    OBVIOUS
  <2>2. ASSUME NEW k \in 0 .. n PROVE g[k] = Step(h, k)
    <3>1. CASE k = 0
      BY <1>5, <3>1
    <3>2. CASE k # 0
      <4>1. k - 1 \in Nat /\ k - 1 \in 0 .. n /\ k - 1 + 1 = k
        BY <3>2
      <4> QED
        BY <1>5, <2>1, <3>2, <4>1
    <3> QED
      BY <3>1, <3>2
  <2>3. h = [k \in 0 .. n |-> Step(h, k)]
    BY ONLY <2>1, <2>2
  <2> QED
    BY <2>3
<1>7. hop = [k \in 0 .. n |-> Step(hop, k)]
  BY <1>6
<1>8. Hop(c[1], n) = hop[n]
  BY DEF Hop
<1> HIDE DEF hop
<1> DEFINE Right == {k \in Nat : k <= n => hop[k] = IF k = Len(c) THEN EOC ELSE c[k + 1]}
<1>9. 0 \in Right
  <2>1. hop[0] = c[1] /\ 0 # Len(c)
    BY <1>1, <1>7
  <2> QED
    BY <2>1
<1>10. ASSUME NEW k \in Right PROVE k + 1 \in Right
  <2>1. SUFFICES ASSUME k + 1 <= n
                 PROVE  hop[k + 1] = IF k + 1 = Len(c) THEN EOC ELSE c[k + 1 + 1]
    OBVIOUS
  <2>2. k \in Nat /\ k + 1 \in 0 .. n /\ k <= n /\ k # Len(c) /\ k + 1 \in 1 .. Len(c)
    <3>1. k \in Nat
      OBVIOUS
    <3>2. PICK l \in Nat, m \in Nat : l = Len(c) /\ m = n /\ m <= l
      BY ONLY <1>1, Zenon
    <3>3. k + 1 \in 0 .. m /\ k <= m /\ k # l /\ k + 1 \in 1 .. l
      BY ONLY <2>1, <3>1, <3>2
    <3> QED
      BY ONLY <3>1, <3>2, <3>3
  <2>3. hop[k] = c[k + 1] /\ c[k + 1] \in Index
    <3>1. hop[k] = IF k = Len(c) THEN EOC ELSE c[k + 1]
      BY <2>2
    <3> QED
      BY ONLY <1>1, <2>2, <3>1
  <2>4. hop[k + 1] = Step(hop, k + 1)
    BY ONLY <1>7, <2>2
  <2>5. hop[k + 1] = fat[c[k + 1]]
    <3>1. k + 1 # 0 /\ k + 1 - 1 = k
      BY <2>2
    <3> QED
      BY <2>3, <2>4, <3>1
  <2> QED
    BY <1>1, <2>2, <2>5 DEF Linked
<1> HIDE DEF Right
<1>11. Right = Nat
  <2>1. Right \in SUBSET Nat
    BY DEF Right
  <2>2. \A k \in Right : k + 1 \in Right
    BY ONLY <1>10, Zenon
  <2> QED
    BY ONLY <1>9, <2>1, <2>2, InductionOnSet, Zenon
<1>12. n \in Right
  BY <1>1, <1>11
<1>13. hop[n] = IF n = Len(c) THEN EOC ELSE c[n + 1]
  <2>1. n <= n => hop[n] = IF n = Len(c) THEN EOC ELSE c[n + 1]
    BY ONLY <1>12, Zenon DEF Right
  <2> QED
    BY ONLY <1>1, <2>1
<1> QED
  BY <1>8, <1>13

(* find_next_FAT() finds a free block as long as there is one. *)
LEMMA NextFreeIs ==
  ASSUME NEW r, NEW ch, Whole(r, fat, ch)
  PROVE  /\ NextFree # 0 => NextFree \in Index \ {0} /\ fat[NextFree] = 0
         /\ NextFree = 0 => \A i \in Index \ {0} : fat[i] # 0
<1>1. fat[0] = EOC /\ EOC # 0
  BY Sizes DEF Whole, Covered
<1>2. FreeIndex \in SUBSET Nat
  BY Sizes DEF FreeIndex
<1>3. FreeIndex # {} => NextFree \in FreeIndex
  BY <1>2, MinIs DEF NextFree
<1>4. FreeIndex = {} => NextFree = 0
  BY DEF NextFree
<1> QED
  BY <1>1, <1>3, <1>4 DEF FreeIndex

(* What holds in a write, when what the disk holds of directory and FAT    *)
(* stays as it is.                                                         *)
LEMMA InWrite ==
  ASSUME FsIInv, call.op \in {"none", "write"}, call' \in WriteCalls,
         mounted' = TRUE, fd'[call'.fd].open,
         dRoot' = dRoot, dFat' = dFat,
         dData' \in [Index -> [1 .. BlockSize -> Byte \cup {Zero}]],
         fd' \in Fds, Descriptors', NEW ch, Whole(root, fat, ch)', Writing(ch)'
  PROVE  FsIInv'
<1>1. Types /\ Disk
  BY DEF FsIInv
<1>2. root' \in Roots /\ fat' \in Fats
  BY DEF Whole
<1>3. Types'
  BY <1>1, <1>2 DEF Types
<1>4. InCall' /\ Memory' /\ Disk'
  BY <1>1 DEF InCall, Memory, Disk
<1> QED
  BY <1>3, <1>4 DEF FsIInv

(* The offset of an open descriptor is in a block of its file, or right    *)
(* behind the last one.                                                    *)
LEMMA HopsBound ==
  ASSUME Types, Descriptors, NEW ch, Whole(root, fat, ch), NEW n \in Fd, fd[n].open
  PROVE  /\ Hops(n) \in Nat /\ Hops(n) <= Len(ch[fd[n].file])
         /\ fd[n].file \in Entry /\ root[fd[n].file].name # NoName
         /\ fd[n].offset \in Nat /\ root[fd[n].file].size \in Nat
         /\ fd[n].offset <= root[fd[n].file].size
         /\ Fits(root[fd[n].file].size, Len(ch[fd[n].file]))
         /\ root[fd[n].file].first = FirstOf(ch[fd[n].file], EOC)
<1>1. PICK e \in Entry : e = fd[n].file /\ root[e].name # NoName /\ fd[n].offset <= root[e].size
  BY DEF Types, Fds, Descriptors
<1>2. PICK o \in Nat : o = fd[n].offset
  BY Sizes DEF Types, Fds
<1>3. PICK z \in Nat : z = root[e].size
  BY Sizes DEF Types, Roots
<1>4. PICK l \in Nat : l = Len(ch[e])
  BY ChainFacts
<1>5. Fits(z, l) /\ root[e].first = FirstOf(ch[e], EOC)
  BY <1>1, <1>3, <1>4 DEF Whole, Chained
<1>6. BlockSize \in Nat \ {0}
  BY Sizes
<1>7. PICK h \in Nat : h = o \div BlockSize /\ h * BlockSize <= o
  <2>1. /\ o \div BlockSize \in Nat /\ o % BlockSize \in 0 .. BlockSize - 1
        /\ o = (o \div BlockSize) * BlockSize + (o % BlockSize)
    BY ONLY <1>6, QuotientExists, o \in Nat
  <2>2. PICK q \in Nat, x \in Nat : q = o \div BlockSize /\ x = o % BlockSize
    BY <1>6, <2>1
  <2>3. o = q * BlockSize + x
    BY <2>1, <2>2
  <2>4. q * BlockSize <= o
    BY ONLY <1>6, <2>3, ProductGrows, q \in Nat, x \in Nat
  <2> QED
    BY <2>2, <2>4
<1>8. h <= l
  <2>1. z <= l * BlockSize
    BY <1>5, <1>6 DEF Fits
  <2>2. h * BlockSize \in Nat /\ l * BlockSize \in Nat
        /\ (l + 1) * BlockSize = l * BlockSize + BlockSize
    BY ONLY <1>6, ProductGrows, h \in Nat, l \in Nat
  <2>3. h * BlockSize < (l + 1) * BlockSize
    BY ONLY <1>1, <1>2, <1>3, <1>6, <1>7, <2>1, <2>2
  <2>4. h < l + 1
    <3>1. l + 1 \in Nat
      OBVIOUS
    <3> QED
      BY ONLY <1>6, <2>3, <3>1, ProductGrows, h \in Nat
  <2> QED
    BY ONLY <2>4, h \in Nat, l \in Nat
<1> QED
  BY <1>1, <1>2, <1>3, <1>4, <1>5, <1>7, <1>8 DEF Hops

(* What fs_write() does up to its loop: no file but an empty one gets      *)
(* other blocks.                                                           *)
TakesBlock(ch, cg) ==
  /\ Whole(root, fat, ch) /\ Whole(root', fat', cg) /\ mounted /\ mounted'
  /\ \A x \in Entry : /\ root'[x].name = root[x].name /\ root'[x].size = root[x].size
                      /\ cg[x] = ch[x] \/ root[x].size = 0

(* fs_write() up to its loop (fs.c:507-536). *)
LEMMA WriteStartDoes ==
  ASSUME FsIInv, NEW n, NEW buf \in Seq(Byte), WriteStart(n, buf)
  PROVE  FsIInv' /\ \E ch, cg : TakesBlock(ch, cg)
<1>1. /\ mounted /\ call = NoCall /\ call.op = "none" /\ n \in Fd /\ fd[n].open
      /\ dRoot' = dRoot /\ dFat' = dFat /\ dData' = dData /\ fd' = fd
      /\ fdCount' = fdCount /\ mounted' = mounted
  BY DEF WriteStart, Ready, FdCheck, diskVars, NoCall
<1>2. Types /\ Descriptors /\ Memory
  BY DEF FsIInv
<1>3. PICK ch : Whole(root, fat, ch)
  BY <1>2 DEF Memory
<1>4. PICK e \in Entry : e = fd[n].file
  BY <1>1, <1>2, <1>3, HopsBound
<1>5. PICK c \in Seq(Index) : c = ch[e]
  BY <1>3, <1>4, ChainFacts
<1>6. /\ Hops(n) \in Nat /\ Hops(n) <= Len(c) /\ root[e].name # NoName
      /\ fd[n].offset \in Nat /\ root[e].size \in Nat /\ fd[n].offset <= root[e].size
      /\ Fits(root[e].size, Len(c)) /\ root[e].first = FirstOf(c, EOC)
  BY <1>1, <1>2, <1>3, <1>4, <1>5, HopsBound
<1>7. /\ Len(c) \in Nat /\ DOMAIN c = 1 .. Len(c) /\ Linked(c, fat, EOC)
      /\ \A k \in 1 .. Len(c) : c[k] \in Index
  BY <1>3, <1>4, <1>5, ChainFacts
<1> DEFINE loop(index, prev) ==
             [op |-> "write", fd |-> n, buf |-> buf, index |-> index, prev |-> prev]
<1>8. CASE root[e].first # EOC
  <2>1. /\ call' = loop(DataIndex(n), PrevIndex(n)) /\ root' = root /\ fat' = fat
    BY <1>4, <1>8 DEF WriteStart
  <2>2. c # <<>> /\ root[e].first = c[1]
    BY <1>6, <1>8 DEF FirstOf
  <2>3. DataIndex(n) = IF Hops(n) = Len(c) THEN EOC ELSE c[Hops(n) + 1]
    <3>1. Hops(n) \in 0 .. Len(c)
      BY <1>6, <1>7
    <3> QED
      BY <1>2, <1>4, <1>7, <2>2, <3>1, HopIs DEF DataIndex
  <2>4. /\ Hops(n) > 0 => PrevIndex(n) = c[Hops(n)] /\ Hops(n) \in 1 .. Len(c)
        /\ Hops(n) = 0 => PrevIndex(n) = 0
    <3>1. Hops(n) > 0 => /\ Hops(n) - 1 \in 0 .. Len(c) /\ Hops(n) - 1 # Len(c)
                         /\ Hops(n) - 1 + 1 = Hops(n) /\ Hops(n) # 0
                         /\ Hops(n) \in 1 .. Len(c)
      BY ONLY <1>6, <1>7
    <3>2. Hops(n) > 0 => Hop(c[1], Hops(n) - 1) = c[Hops(n)]
      BY <1>2, <1>7, <2>2, <3>1, HopIs
    <3> QED
      BY <1>4, <2>2, <3>1, <3>2 DEF PrevIndex
  <2>5. DataIndex(n) \in Index \cup {EOC} /\ PrevIndex(n) \in Index \cup {EOC}
    <3>1. Hops(n) # Len(c) => Hops(n) + 1 \in 1 .. Len(c)
      BY ONLY <1>6, <1>7
    <3>2. Hops(n) > 0 \/ Hops(n) = 0
      BY <1>6
    <3> QED
      BY <1>7, <2>3, <2>4, <3>1, <3>2, Sizes
  <2>6. call' \in WriteCalls /\ call'.fd = n /\ call'.index = DataIndex(n)
        /\ call'.prev = PrevIndex(n)
    BY <1>1, <2>1, <2>5 DEF WriteCalls
  <2>7. Hops(n)' = Hops(n)
    BY <1>1 DEF Hops
  <2>8. Writing(ch)'
    BY <1>1, <1>4, <1>5, <1>6, <2>2, <2>3, <2>4, <2>6, <2>7 DEF Writing, AtBlock
  <2>9. Descriptors'
    BY <1>1, <1>2, <2>1 DEF Descriptors, Opened
  <2>10. Whole(root, fat, ch)' /\ fd' \in Fds /\ dData' = dData
         /\ dData \in [Index -> [1 .. BlockSize -> Byte \cup {Zero}]]
    BY <1>1, <1>2, <1>3, <2>1 DEF Types
  <2>11. FsIInv'
    BY <1>1, <2>6, <2>8, <2>9, <2>10, InWrite
  <2>12. TakesBlock(ch, ch)
    BY <1>1, <1>3, <2>1 DEF TakesBlock
  <2> QED
    BY <2>11, <2>12
<1>9. CASE root[e].first = EOC /\ NextFree = 0
  <2>1. root' = root /\ fat' = fat /\ call' = call
    BY <1>4, <1>9 DEF WriteStart
  <2>2. Descriptors' /\ fd' \in Fds /\ Whole(root, fat, ch)'
    BY <1>1, <1>2, <1>3, <2>1 DEF Descriptors, Opened, Types
  <2>3. FsIInv'
    BY <1>1, <2>1, <2>2, BetweenCalls
  <2>4. TakesBlock(ch, ch)
    BY <1>1, <1>3, <2>1 DEF TakesBlock
  <2> QED
    BY <2>3, <2>4
<1>10. CASE root[e].first = EOC /\ NextFree # 0
  <2>1. PICK i \in Index \ {0} : i = NextFree /\ fat[i] = 0
    BY <1>3, <1>10, NextFreeIs
  <2>2. /\ root' = [root EXCEPT ![e].first = i] /\ fat' = [fat EXCEPT ![i] = EOC]
        /\ call' = loop(i, 0)
    BY <1>4, <1>10, <2>1 DEF WriteStart, EndsAt
  <2>3. c = <<>> /\ Len(c) = 0
    <3>1. c # <<>> => 1 \in 1 .. Len(c)
      BY <1>7, EmptySeq
    <3>2. c = <<>>
      BY <1>6, <1>7, <1>10, <3>1, Sizes DEF FirstOf
    <3> QED
      BY <3>2, EmptySeq
  <2>4. root[e].size = 0 /\ fd[n].offset = 0 /\ Hops(n) = 0
    <3>1. root[e].size = 0
      BY <1>6, <2>3, Sizes DEF Fits
    <3> QED
      BY <1>6, <2>3, <3>1
  <2>5. root \in Roots /\ fat \in Fats
    BY <1>2 DEF Types
  <2>6. /\ root' \in Roots /\ \A x \in Entry : x # e => root'[x] = root[x]
        /\ root'[e].name = root[e].name /\ root'[e].size = root[e].size
        /\ root'[e].first = i
    BY <2>1, <2>2, <2>5 DEF Roots
  <2>7. fat' \in Fats /\ GrownFat(fat', fat, c, i)
    BY <2>1, <2>2, <2>3, <2>5 DEF Fats, GrownFat
  <2>8. Fits(root'[e].size, Len(c) + 1)
    <3>1. BlockSize \in Nat \ {0}
      BY Sizes
    <3>2. 0 \in 0 .. (1 * BlockSize) /\ 0 + 1 = 1 /\ 1 <= 1
      BY ONLY <3>1
    <3> QED
      BY <2>3, <2>4, <2>6, <3>2 DEF Fits
  <2>9. Whole(root', fat', [ch EXCEPT ![e] = Append(c, i)])
    <3>1. GrownFat(fat', fat, ch[e], i) /\ Fits(root'[e].size, Len(ch[e]) + 1)
      BY <1>5, <2>7, <2>8
    <3>2. root'[e].first = IF ch[e] = <<>> THEN i ELSE root[e].first
      BY <1>5, <2>3, <2>6
    <3>3. Whole(root', fat', [ch EXCEPT ![e] = Append(ch[e], i)])
      BY ONLY <1>3, <1>6, <2>1, <2>6, <2>7, <3>1, <3>2, GrownIsWhole
    <3> QED
      BY <1>5, <3>3
  <2>10. PICK cg : cg = [ch EXCEPT ![e] = Append(c, i)]
    OBVIOUS
  <2>11. cg[e] # <<>> /\ Len(cg[e]) = 1 /\ cg[e][1] = i
    <3>1. cg[e] = Append(c, i)
      BY <1>3, <2>10 DEF Whole
    <3>2. Append(c, i) # <<>> /\ Len(Append(c, i)) = Len(c) + 1 /\ Append(c, i)[Len(c) + 1] = i
      BY <2>1, AppendProperties
    <3> QED
      BY <2>3, <3>1, <3>2
  <2>12. call' \in WriteCalls /\ call'.fd = n /\ call'.index = i
    BY <1>1, <2>1, <2>2, Sizes DEF WriteCalls
  <2>13. Hops(n)' = 0
    BY <1>1, <2>4 DEF Hops
  <2>14. Writing(cg)'
    BY <1>1, <1>4, <2>11, <2>12, <2>13 DEF Writing, AtBlock
  <2>15. Descriptors'
    <3>1. \A x \in Entry : root'[x].name = root[x].name /\ root'[x].size = root[x].size
      BY <2>6
    <3>2. \A d \in Fd : fd[d].file \in Entry
      BY <1>2 DEF Types, Fds
    <3> QED
      BY <1>1, <1>2, <3>1, <3>2 DEF Descriptors, Opened
  <2>16. fd' \in Fds /\ dData' \in [Index -> [1 .. BlockSize -> Byte \cup {Zero}]]
    BY <1>1, <1>2 DEF Types
  <2>17. Whole(root, fat, cg)'
    BY <2>9, <2>10
  <2>18. FsIInv'
    BY <1>1, <2>12, <2>14, <2>15, <2>16, <2>17, InWrite
  <2>19. TakesBlock(ch, cg)
    <3>1. \A x \in Entry : cg[x] = ch[x] \/ root[x].size = 0
      BY <1>3, <2>4, <2>10 DEF Whole
    <3> QED
      BY <1>1, <1>3, <2>6, <2>17, <3>1 DEF TakesBlock
  <2> QED
    BY <2>18, <2>19
<1> QED
  BY <1>8, <1>9, <1>10

(* The end of fs_write(). *)
LEMMA WriteEndStep ==
  ASSUME FsIInv, WriteEnd
  PROVE  FsIInv'
<1>1. /\ call.op = "write" /\ call' = NoCall /\ dRoot' = dRoot /\ dFat' = dFat /\ dData' = dData
      /\ root' = root /\ fat' = fat /\ fd' = fd /\ fdCount' = fdCount /\ mounted' = mounted
  BY DEF WriteEnd, diskVars
<1>2. Types /\ Descriptors /\ Memory /\ InCall
  BY DEF FsIInv
<1>3. PICK ch : Whole(root, fat, ch)
  BY <1>2 DEF Memory
<1>4. mounted
  BY <1>1, <1>2, CallKinds
<1>5. Descriptors' /\ fd' \in Fds /\ Whole(root, fat, ch)'
  BY <1>1, <1>2, <1>3 DEF Descriptors, Opened, Types
<1> QED
  BY <1>1, <1>4, <1>5, BetweenCalls

(* The offset a, the size z, the l blocks of the file, the m bytes to      *)
(* write, the hops h to the block, and the n bytes that go into it.        *)
Round(a, z, l, m, h, n) ==
  /\ a <= z /\ Fits(z, l) /\ h = a \div BlockSize /\ h <= l
  /\ n = Min({BlockSize - (a % BlockSize), m})
Written(a, z, l, m, h, n) ==
  /\ n \in Nat \ {0} /\ n <= m /\ (a % BlockSize) + n <= BlockSize
  /\ a % BlockSize \in Nat
  /\ a + n <= Max({z, a + n}) /\ z <= Max({z, a + n}) /\ Max({z, a + n}) \in Nat
  /\ h = l => Fits(Max({z, a + n}), l + 1)
  /\ h # l => Fits(Max({z, a + n}), l)
  /\ n # m => (a + n) \div BlockSize = h + 1
(* The numbers of a round of the loop: what is written goes to the end of  *)
(* the block or to the end of the buffer, and the size fits the blocks.    *)
LEMMA RoundOfWrite ==
  ASSUME NEW a \in Nat, NEW z \in Nat, NEW l \in Nat \ {0}, NEW m \in Nat \ {0},
         NEW h \in Nat, NEW n, Round(a, z, l, m, h, n)
  PROVE  Written(a, z, l, m, h, n)
<1>0. /\ a <= z /\ Fits(z, l) /\ h = a \div BlockSize /\ h <= l
      /\ n = Min({BlockSize - (a % BlockSize), m})
  BY DEF Round
<1>14. a <= z
  BY <1>0
<1>1. PICK b \in Nat \ {0} : b = BlockSize
  BY Sizes
<1>2. PICK o \in Nat : o = a % b /\ o <= b - 1 /\ a = h * b + o
  <2>1. a \div b \in Nat /\ a % b \in 0 .. b - 1 /\ a = (a \div b) * b + (a % b)
    BY ONLY QuotientExists, a \in Nat, b \in Nat \ {0}
  <2>2. PICK x \in 0 .. b - 1 : x = a % b
    BY <2>1
  <2>3. a = h * b + x
    BY <1>0, <1>1, <2>1, <2>2
  <2> QED
    BY <2>2, <2>3
<1>3. n = IF b - o <= m THEN b - o ELSE m
  BY <1>0, <1>1, <1>2, MinOfTwo
<1>4. n \in Nat \ {0} /\ n <= m /\ o + n <= b /\ (n # m => o + n = b)
  BY ONLY <1>2, <1>3, b \in Nat \ {0}, m \in Nat \ {0}, o \in Nat
<1>5. PICK hb \in Nat : hb = h * b /\ a = hb + o /\ (h + 1) * b = hb + b
  BY ONLY <1>2, ProductGrows, h \in Nat, b \in Nat \ {0}
<1>6. PICK lb \in Nat : lb = l * b /\ (l + 1) * b = lb + b
  BY ONLY ProductGrows, l \in Nat \ {0}, b \in Nat \ {0}
<1>7. z <= lb /\ (l > 1 => z >= (l - 1) * b + 1)
  BY ONLY <1>0, <1>1, <1>6, l \in Nat \ {0}, z \in Nat DEF Fits
<1>8. PICK y \in Nat : y = Max({z, a + n}) /\ y = IF z >= a + n THEN z ELSE a + n
  <2>1. z \in Int /\ a + n \in Int /\ a + n \in Nat
    BY ONLY <1>4, a \in Nat, z \in Nat
  <2>2. Max({z, a + n}) = IF z >= a + n THEN z ELSE a + n
    BY ONLY <2>1, MaxOfTwo
  <2> QED
    BY <2>1, <2>2
<1>9. h = l => Fits(y, l + 1)
  <2>1. SUFFICES ASSUME h = l PROVE Fits(y, l + 1)
    OBVIOUS
  <2>2. hb = lb
    BY <1>5, <1>6, <2>1
  <2>3. y >= lb + 1 /\ y <= lb + b
    BY ONLY <1>4, <1>5, <1>7, <1>8, <1>14, <2>2, a \in Nat, z \in Nat,
            hb \in Nat, lb \in Nat, b \in Nat \ {0}, o \in Nat, y \in Nat
  <2>4. ~(l + 1 <= 1) /\ l + 1 - 1 = l
    BY ONLY l \in Nat \ {0}
  <2>5. y \in (lb + 1) .. (lb + b)
    BY ONLY <2>3, y \in Nat, lb \in Nat, b \in Nat \ {0}
  <2> QED
    BY ONLY <1>1, <1>6, <2>4, <2>5 DEF Fits
<1>10. h # l => Fits(y, l)
  <2>1. SUFFICES ASSUME h # l PROVE Fits(y, l)
    OBVIOUS
  <2>2. h + 1 \in Nat /\ h + 1 <= l
    BY ONLY <2>1, h \in Nat, l \in Nat \ {0}, <1>0
  <2>3. (h + 1) * b <= l * b
    BY ONLY <2>2, ProductGrows, b \in Nat \ {0}, l \in Nat \ {0}
  <2>4. hb + b <= lb
    BY ONLY <1>5, <1>6, <2>3
  <2>5. y <= lb /\ y >= z
    BY ONLY <1>4, <1>5, <1>7, <1>8, <2>4, a \in Nat, z \in Nat,
            hb \in Nat, lb \in Nat, b \in Nat \ {0}, o \in Nat, y \in Nat
  <2>6. CASE l <= 1
    <3>1. y \in 0 .. lb
      BY ONLY <2>5, y \in Nat, lb \in Nat
    <3> QED
      BY ONLY <1>1, <1>6, <2>6, <3>1 DEF Fits
  <2>7. CASE ~(l <= 1)
    <3>1. PICK kb \in Nat : kb = (l - 1) * b
      <4>1. l - 1 \in Nat
        OBVIOUS
      <4> QED
        BY ONLY <4>1, ProductGrows, b \in Nat \ {0}
    <3>2. z >= kb + 1
      BY ONLY <1>7, <2>7, <3>1, l \in Nat \ {0}
    <3>3. y \in (kb + 1) .. lb
      BY ONLY <2>5, <3>2, y \in Nat, z \in Nat, kb \in Nat, lb \in Nat
    <3> QED
      BY ONLY <1>1, <1>6, <2>7, <3>1, <3>3 DEF Fits
  <2> QED
    BY <2>6, <2>7
<1>11. n # m => (a + n) \div b = h + 1
  <2>1. SUFFICES ASSUME n # m PROVE (a + n) \div b = h + 1
    OBVIOUS
  <2>2. a + n = (h + 1) * b + 0 /\ 0 \in 0 .. b - 1 /\ h + 1 \in Nat
    BY ONLY <1>4, <1>5, <2>1, a \in Nat, h \in Nat, hb \in Nat, b \in Nat \ {0}, o \in Nat
  <2>3. ((h + 1) * b + 0) \div b = h + 1
    BY ONLY <2>2, QuotientIs, b \in Nat \ {0}
  <2> QED
    BY ONLY <2>2, <2>3
<1>12. a + n <= y /\ z <= y
  BY ONLY <1>4, <1>8, a \in Nat, z \in Nat, y \in Nat
<1> QED
  BY <1>1, <1>2, <1>4, <1>8, <1>9, <1>10, <1>11, <1>12 DEF Written

(* Bytes go into the block i from the offset o of it on. *)
Stored(i, o, n, buf) ==
  [dData EXCEPT ![i] = [b \in 1 .. BlockSize |->
     IF b \in o + 1 .. o + n THEN buf[b - o] ELSE BlockRead(i)[b]]]

(* The block stays one. *)
LEMMA BlockTyped ==
  ASSUME Types, NEW i \in Index, NEW o \in Nat, NEW n \in Nat, NEW buf \in Seq(Byte), n <= Len(buf)
  PROVE  Stored(i, o, n, buf) \in [Index -> [1 .. BlockSize -> Byte \cup {Zero}]]
<1>1. dData \in [Index -> [1 .. BlockSize -> Byte \cup {Zero}]]
  BY DEF Types
<1>2. ASSUME NEW b \in 1 .. BlockSize
      PROVE  (IF b \in o + 1 .. o + n THEN buf[b - o] ELSE BlockRead(i)[b]) \in Byte \cup {Zero}
  <2>1. CASE b \in o + 1 .. o + n
    <3>1. b - o \in 1 .. Len(buf)
      <4>1. Len(buf) \in Nat
        BY LenProperties
      <4> QED
        BY ONLY <2>1, <4>1, n <= Len(buf), n \in Nat, o \in Nat
    <3>2. buf[b - o] \in Byte
      BY ONLY <3>1, ElementOfSeq, buf \in Seq(Byte)
    <3> QED
      BY <2>1, <3>2
  <2>2. CASE b \notin o + 1 .. o + n
    BY <1>1, <2>2 DEF BlockRead
  <2> QED
    BY <2>1, <2>2
<1> QED
  BY ONLY <1>1, <1>2, i \in Index DEF Stored

(* What is left of the buffer. *)
LEMMA RestOfBuffer ==
  ASSUME NEW buf \in Seq(Byte), NEW n \in Nat, n <= Len(buf)
  PROVE  /\ SubSeq(buf, n + 1, Len(buf)) \in Seq(Byte)
         /\ SubSeq(buf, n + 1, Len(buf)) # <<>> => n # Len(buf)
<1>1. Len(buf) \in Nat /\ \A k \in 1 .. Len(buf) : buf[k] \in Byte
  BY LenProperties, ElementOfSeq
<1>2. \A k \in n + 1 .. Len(buf) : buf[k] \in Byte
  BY <1>1
<1>3. /\ SubSeq(buf, n + 1, Len(buf)) \in Seq(Byte)
      /\ Len(SubSeq(buf, n + 1, Len(buf))) = IF n + 1 <= Len(buf) THEN Len(buf) - (n + 1) + 1 ELSE 0
  <2>1. n + 1 \in Int /\ Len(buf) \in Int
    BY <1>1
  <2> QED
    BY ONLY <1>2, <2>1, SubSeqProperties
<1>4. n = Len(buf) => Len(SubSeq(buf, n + 1, Len(buf))) = 0
  BY <1>1, <1>3
<1> QED
  BY <1>3, <1>4, EmptySeq

(* What a round does: n bytes of buf go to the offset a of the entry e,    *)
(* whose blocks c are ch[e] before and cg[e] after; i is the block.        *)
BlockWith(block, o, n, buf) ==
  [b \in 1 .. BlockSize |-> IF b \in o + 1 .. o + n THEN buf[b - o] ELSE block[b]]
WritesBlock(ch, cg, d, e, c, h, a, z, n, i, buf) ==
  /\ Whole(root, fat, ch) /\ Whole(root', fat', cg) /\ mounted /\ mounted'
  /\ d \in Fd /\ fd[d].open /\ e \in Entry /\ e = fd[d].file /\ root[e].name # NoName
  /\ c \in Seq(Index) /\ c = ch[e] /\ h \in Nat /\ h = a \div BlockSize /\ h <= Len(c)
  /\ a \in Nat /\ a = fd[d].offset /\ z \in Nat /\ z = root[e].size /\ a <= z
  /\ Fits(z, Len(c))
  /\ buf \in Seq(Byte) /\ n \in Nat \ {0} /\ n <= Len(buf) /\ (a % BlockSize) + n <= BlockSize
  /\ i \in Index /\ (h = Len(c) => i # 0 /\ fat[i] = 0) /\ (h # Len(c) => i = c[h + 1])
  /\ cg[e] = (IF h = Len(c) THEN Append(c, i) ELSE c) /\ \A x \in Entry \ {e} : cg[x] = ch[x]
  /\ fd' = [fd EXCEPT ![d].offset = a + n]
  /\ root' = [root EXCEPT ![e].size = Max({z, a + n})]
  /\ dData' = [dData EXCEPT ![i] = BlockWith(dData[i], a % BlockSize, n, buf)]

(* A round of the loop of fs_write() (fs.c:537-571). *)
LEMMA WriteBlockDoes ==
  ASSUME FsIInv, WriteBlock
  PROVE  /\ FsIInv'
         /\ \E ch, cg, d, e, c, h, a, z, n, i, buf :
              WritesBlock(ch, cg, d, e, c, h, a, z, n, i, buf)
<1>1. Types /\ Descriptors /\ Memory /\ InCall
  BY DEF FsIInv
<1>2. call.op = "write" /\ call.buf # <<>> /\ call.index # 0 /\ (call.index = EOC => NextFree # 0)
  BY DEF WriteBlock
<1>3. call \in WriteCalls /\ mounted /\ fd[call.fd].open
  BY <1>1, <1>2, CallKinds
<1>4. PICK d \in Fd : d = call.fd
  BY <1>3 DEF WriteCalls
<1>5. PICK ch : Whole(root, fat, ch) /\ Writing(ch)
  BY <1>1 DEF Memory
<1>6. PICK e \in Entry : e = fd[d].file
  BY <1>3, <1>4, <1>1, <1>5, HopsBound
<1>7. PICK c \in Seq(Index) : c = ch[e]
  BY <1>5, <1>6, ChainFacts
<1>8. PICK h \in Nat : h = Hops(d)
  BY <1>1, <1>3, <1>4, <1>5, HopsBound
<1>9. PICK a \in Nat : a = fd[d].offset
  BY <1>1, <1>3, <1>4, <1>5, HopsBound
<1>10. PICK z \in Nat : z = root[e].size
  BY <1>1, <1>3, <1>4, <1>5, <1>6, HopsBound
<1>11. /\ h <= Len(c) /\ root[e].name # NoName /\ a <= z /\ Fits(z, Len(c))
       /\ root[e].first = FirstOf(c, EOC) /\ h = a \div BlockSize
  BY <1>1, <1>3, <1>4, <1>5, <1>6, <1>7, <1>8, <1>9, <1>10, HopsBound DEF Hops
<1>12. /\ Len(c) \in Nat /\ DOMAIN c = 1 .. Len(c) /\ Linked(c, fat, EOC)
       /\ \A k \in 1 .. Len(c) : c[k] \in Index /\ c[k] # 0
       /\ Len(c) <= DataCount /\ Len(c) + 1 <= DataCount
  BY <1>5, <1>6, <1>7, ChainFacts
<1>13. /\ c # <<>> /\ call.index = (IF h = Len(c) THEN EOC ELSE c[h + 1])
       /\ h > 0 => call.prev = c[h]
  <2>1. AtBlock(ch[fd[call.fd].file], Hops(call.fd))
    BY ONLY <1>2, <1>5 DEF Writing
  <2>2. AtBlock(c, h)
    BY ONLY <1>4, <1>6, <1>7, <1>8, <2>1, Zenon
  <2> QED
    BY ONLY <2>2 DEF AtBlock
<1>14. Len(c) \in Nat \ {0}
  BY <1>12, <1>13, EmptySeq
<1>15. PICK buf \in Seq(Byte) : buf = call.buf /\ Len(buf) \in Nat \ {0}
  <2>1. call.buf \in Seq(Byte) /\ Len(call.buf) \in Nat \ {0}
    BY <1>2, <1>3, EmptySeq, LenProperties DEF WriteCalls
  <2> QED
    BY <2>1
<1>16. PICK n : n = Min({BlockSize - (a % BlockSize), Len(buf)})
  OBVIOUS
<1>17. PICK y : y = Max({z, a + n})
  OBVIOUS
<1>18. /\ n \in Nat \ {0} /\ n <= Len(buf) /\ (a % BlockSize) + n <= BlockSize
       /\ a % BlockSize \in Nat
       /\ a + n <= y /\ z <= y /\ y \in Nat
       /\ h = Len(c) => Fits(y, Len(c) + 1)
       /\ h # Len(c) => Fits(y, Len(c))
       /\ n # Len(buf) => (a + n) \div BlockSize = h + 1
  <2>1. PICK l \in Nat \ {0}, m \in Nat \ {0} : l = Len(c) /\ m = Len(buf)
    BY <1>14, <1>15
  <2>2. Round(a, z, l, m, h, n)
    BY ONLY <1>11, <1>16, <2>1 DEF Round
  <2>3. Written(a, z, l, m, h, n)
    BY ONLY <2>2, RoundOfWrite, a \in Nat, z \in Nat, h \in Nat,
            l \in Nat \ {0}, m \in Nat \ {0}
  <2> QED
    BY ONLY <1>17, <2>1, <2>3 DEF Written
<1>19. y \in 0 .. BlockSize * DataCount /\ a + n \in 0 .. BlockSize * DataCount
  <2>1. BlockSize \in Nat \ {0} /\ DataCount \in Nat
    BY ONLY Sizes, Zenon
  <2>2. PICK l \in Nat : Fits(y, l) /\ l <= DataCount
    <3>1. Len(c) + 1 \in Nat
      BY <1>12
    <3> QED
      BY <1>12, <1>18, <3>1
  <2>3. y <= l * BlockSize
    BY <1>18, <2>1, <2>2 DEF Fits
  <2>4. /\ l * BlockSize \in Nat /\ DataCount * BlockSize \in Nat
        /\ l * BlockSize <= DataCount * BlockSize
    BY ONLY <2>1, <2>2, ProductGrows
  <2>5. DataCount * BlockSize = BlockSize * DataCount
    BY ONLY <2>1
  <2>6. y <= BlockSize * DataCount
    BY ONLY <1>18, <2>3, <2>4, <2>5
  <2>7. a + n \in Nat
    BY ONLY <1>18, a \in Nat
  <2>8. PICK t \in Nat : t = BlockSize * DataCount
    BY <2>4, <2>5
  <2> QED
    BY ONLY <1>18, <2>6, <2>7, <2>8
<1> DEFINE index == IF call.index = EOC THEN NextFree ELSE call.index
           linked == IF call.index = EOC
                     THEN EndsAt([fat EXCEPT ![call.prev] = index], index) ELSE fat
<1>20. PICK i \in Index : i = index
  <2>1. CASE call.index = EOC
    <3>1. NextFree # 0 /\ index = NextFree
      BY ONLY <1>2, <2>1
    <3>2. NextFree \in Index
      BY ONLY <1>5, <3>1, NextFreeIs, Zenon
    <3> QED
      BY ONLY <3>1, <3>2
  <2>2. CASE call.index # EOC
    <3>1. h # Len(c)
      BY <1>13, <2>2
    <3>2. h + 1 \in 1 .. Len(c)
      <4>1. Len(c) \in Nat /\ h <= Len(c)
        BY ONLY <1>11, <1>12, Zenon
      <4> QED
        BY ONLY <3>1, <4>1, h \in Nat
    <3> QED
      BY <1>12, <1>13, <2>2, <3>1, <3>2
  <2> QED
    BY <2>1, <2>2
<1> HIDE DEF index, linked
<1>21. PICK g : g = linked
  BY ONLY TRUE
<1> USE DEF index, linked
<1>22. /\ fat' = g /\ fd' = [fd EXCEPT ![d].offset = a + n]
       /\ root' = [root EXCEPT ![e].size = y]
       /\ call' = [call EXCEPT !.buf = SubSeq(buf, n + 1, Len(buf)), !.prev = i, !.index = g[i]]
       /\ dData' = [dData EXCEPT ![i] = [b \in 1 .. BlockSize |->
            IF b \in (a % BlockSize) + 1 .. (a % BlockSize) + n THEN buf[b - (a % BlockSize)]
            ELSE BlockRead(i)[b]]]
       /\ dRoot' = dRoot /\ dFat' = dFat /\ fdCount' = fdCount /\ mounted' = mounted
  BY <1>4, <1>6, <1>9, <1>10, <1>15, <1>16, <1>17, <1>20, <1>21 DEF WriteBlock, BlockWrite
<1> HIDE DEF index, linked
<1>23. dData' \in [Index -> [1 .. BlockSize -> Byte \cup {Zero}]]
  <2>1. PICK o \in Nat : o = a % BlockSize
    BY ONLY <1>18
  <2>2. n \in Nat /\ n <= Len(buf)
    BY ONLY <1>18
  <2>3. dData' = Stored(i, o, n, buf)
    BY ONLY <1>22, <2>1 DEF Stored
  <2>4. Stored(i, o, n, buf) \in [Index -> [1 .. BlockSize -> Byte \cup {Zero}]]
    BY ONLY <1>1, <2>2, BlockTyped, i \in Index, o \in Nat, buf \in Seq(Byte), Zenon
  <2> QED
    BY ONLY <2>3, <2>4
<1>24. root \in Roots /\ fat \in Fats /\ fd \in Fds
  BY <1>1 DEF Types
<1>25. /\ root' \in Roots /\ \A x \in Entry : x # e => root'[x] = root[x]
       /\ root'[e].name = root[e].name /\ root'[e].first = root[e].first /\ root'[e].size = y
  BY <1>19, <1>22, <1>24 DEF Roots
<1>26. /\ fd' \in Fds /\ \A x \in Fd : x # d => fd'[x] = fd[x]
       /\ fd'[d].open = fd[d].open /\ fd'[d].file = e /\ fd'[d].offset = a + n
  BY <1>6, <1>19, <1>22, <1>24 DEF Fds
<1>27. Descriptors'
  <2>1. Opened' = Opened
    BY <1>26 DEF Opened
  <2>2. ASSUME NEW x \in Fd, fd'[x].open
        PROVE  root'[fd'[x].file].name # NoName /\ fd'[x].offset <= root'[fd'[x].file].size
    <3>1. CASE x = d
      BY <1>11, <1>18, <1>25, <1>26, <3>1
    <3>2. CASE x # d
      <4>1. /\ fd'[x] = fd[x] /\ fd[x].open /\ fd[x].file \in Entry
            /\ root[fd[x].file].name # NoName /\ fd[x].offset <= root[fd[x].file].size
        BY <1>1, <1>24, <1>26, <2>2, <3>2 DEF Descriptors, Fds
      <4>2. fd[x].file = e => fd[x].offset <= y
        <5>1. fd[x].offset \in Nat
          BY <1>24, Sizes DEF Fds
        <5>2. z <= y /\ y \in Nat
          BY ONLY <1>18
        <5>3. fd[x].file = e => fd[x].offset <= z
          BY ONLY <1>10, <4>1
        <5> QED
          BY ONLY <5>1, <5>2, <5>3, z \in Nat
      <4> QED
        BY <1>25, <4>1, <4>2
    <3> QED
      BY <3>1, <3>2
  <2> QED
    BY <1>1, <1>3, <1>22, <2>1, <2>2 DEF Descriptors
<1>28. /\ SubSeq(buf, n + 1, Len(buf)) \in Seq(Byte)
       /\ SubSeq(buf, n + 1, Len(buf)) # <<>> => n # Len(buf)
  BY <1>18, RestOfBuffer
<1>29. ASSUME g[i] \in Index \cup {EOC}
       PROVE  /\ call' \in WriteCalls /\ call'.fd = d /\ call'.index = g[i] /\ call'.prev = i
              /\ call'.buf = SubSeq(buf, n + 1, Len(buf))
  BY <1>3, <1>4, <1>22, <1>28, <1>29 DEF WriteCalls
<1>33. ASSUME NEW cg, Whole(root', fat', cg), h = Len(c) => i # 0 /\ fat[i] = 0,
              h # Len(c) => i = c[h + 1], cg[e] = (IF h = Len(c) THEN Append(c, i) ELSE c),
              \A x \in Entry \ {e} : cg[x] = ch[x]
       PROVE  WritesBlock(ch, cg, d, e, c, h, a, z, n, i, buf)
  <2>1. dData' = [dData EXCEPT ![i] = BlockWith(dData[i], a % BlockSize, n, buf)]
    BY ONLY <1>22 DEF BlockWith, BlockRead
  <2>2. mounted' /\ fd[d].open
    BY ONLY <1>3, <1>4, <1>22
  <2> QED
    BY ONLY <1>3, <1>5, <1>6, <1>7, <1>9, <1>10, <1>11, <1>17, <1>18, <1>22, <1>33, <2>1, <2>2,
            d \in Fd, e \in Entry, c \in Seq(Index), h \in Nat, a \in Nat, z \in Nat,
            i \in Index, buf \in Seq(Byte) DEF WritesBlock
<1>30. n # Len(buf) => Hops(d)' = h + 1
  BY <1>18, <1>26 DEF Hops
<1>31. CASE h = Len(c)
  <2>1. /\ i = NextFree /\ i # 0 /\ fat[i] = 0 /\ call.prev = c[Len(c)] /\ Len(c) \in 1 .. Len(c)
    <3>1. call.index = EOC /\ call.prev = c[Len(c)] /\ Len(c) \in 1 .. Len(c)
      BY <1>13, <1>14, <1>31
    <3> QED
      BY <1>2, <1>5, <1>20, <3>1, NextFreeIs DEF index
  <2>2. g = [[fat EXCEPT ![c[Len(c)]] = i] EXCEPT ![i] = EOC]
    BY <1>13, <1>20, <1>21, <1>31, <2>1 DEF linked, EndsAt
  <2>3. g \in Fats /\ GrownFat(g, fat, c, i)
    <3>1. c[Len(c)] \in Index
      BY <1>12, <2>1
    <3> QED
      BY <1>13, <1>24, <2>2, <3>1 DEF Fats, GrownFat
  <2>4. Whole(root', g, [ch EXCEPT ![e] = Append(ch[e], i)])
    <3>1. /\ GrownFat(g, fat, ch[e], i) /\ Fits(root'[e].size, Len(ch[e]) + 1)
          /\ root'[e].first = IF ch[e] = <<>> THEN i ELSE root[e].first
          /\ i \in Index \ {0}
      BY <1>7, <1>13, <1>18, <1>25, <1>31, <2>1, <2>3
    <3> QED
      BY ONLY <1>5, <1>11, <1>25, <2>1, <2>3, <3>1, GrownIsWhole, e \in Entry
  <2>5. PICK cg : cg = [ch EXCEPT ![e] = Append(ch[e], i)]
    OBVIOUS
  <2>6. Whole(root, fat, cg)'
    BY <1>22, <2>4, <2>5
  <2>7. cg[e] # <<>> /\ Len(cg[e]) = Len(c) + 1 /\ cg[e][Len(c) + 1] = i
    <3>1. cg[e] = Append(c, i)
      BY <1>5, <1>7, <2>5 DEF Whole
    <3>2. Append(c, i) # <<>> /\ Len(Append(c, i)) = Len(c) + 1 /\ Append(c, i)[Len(c) + 1] = i
      BY AppendProperties
    <3> QED
      BY <3>1, <3>2
  <2>8. g[i] = EOC
    BY <2>3 DEF GrownFat
  <2>9. /\ call' \in WriteCalls /\ call'.fd = d /\ call'.index = EOC /\ call'.prev = i
        /\ call'.buf = SubSeq(buf, n + 1, Len(buf))
    BY <1>29, <2>8
  <2>10. Writing(cg)'
    <3>1. SUFFICES ASSUME call'.buf # <<>> PROVE AtBlock(cg[e], Hops(d))'
      BY <1>26, <2>9 DEF Writing
    <3>2. Hops(d)' = Len(c) + 1
      BY <1>28, <1>30, <1>31, <2>9, <3>1
    <3>3. Len(c) + 1 <= Len(c) + 1
      BY <1>12
    <3> QED
      BY <2>7, <2>9, <3>2, <3>3 DEF AtBlock
  <2> QED
    <3>1. mounted' = TRUE
      BY <1>1, <1>3, <1>22 DEF Types
    <3>2. fd'[call'.fd].open
      BY <1>3, <1>4, <1>26, <2>9
    <3>3. FsIInv'
      BY ONLY <1>1, <1>2, <1>22, <1>23, <1>26, <1>27, <2>6, <2>9, <2>10, <3>1, <3>2, FsIInv,
              InWrite
    <3>4. cg[e] = Append(c, i) /\ \A x \in Entry \ {e} : cg[x] = ch[x]
      BY <1>5, <1>7, <2>5 DEF Whole
    <3>5. WritesBlock(ch, cg, d, e, c, h, a, z, n, i, buf)
      BY ONLY <1>31, <1>33, <2>1, <2>6, <3>4
    <3> QED
      BY ONLY <3>3, <3>5
<1>32. CASE h # Len(c)
  <2>1. h + 1 \in 1 .. Len(c) /\ h + 1 \in Nat
    <3>1. Len(c) \in Nat /\ h <= Len(c)
      BY ONLY <1>11, <1>12, Zenon
    <3> QED
      BY ONLY <1>32, <3>1, h \in Nat
  <2>2. i = c[h + 1] /\ g = fat
    <3>1. call.index = c[h + 1] /\ call.index # EOC
      BY <1>12, <1>13, <1>32, <2>1, Sizes
    <3> QED
      BY ONLY <1>20, <1>21, <3>1 DEF index, linked
  <2>3. Whole(root', fat, ch)
    <3>1. root[e].name # NoName => Fits(root'[e].size, Len(ch[e]))
      BY <1>7, <1>18, <1>25, <1>32
    <3> QED
      BY ONLY <1>5, <1>25, <3>1, ResizedIsWhole, e \in Entry
  <2>4. Whole(root, fat, ch)'
    <3>1. fat' = fat
      BY ONLY <1>22, <2>2, Zenon
    <3> QED
      BY ONLY <2>3, <3>1
  <2>5. g[i] = (IF h + 1 = Len(c) THEN EOC ELSE c[h + 1 + 1]) /\ g[i] \in Index \cup {EOC}
    BY <1>12, <1>24, <2>1, <2>2 DEF Linked, Fats
  <2>6. /\ call' \in WriteCalls /\ call'.fd = d /\ call'.index = g[i] /\ call'.prev = i
        /\ call'.buf = SubSeq(buf, n + 1, Len(buf))
    BY <1>29, <2>5
  <2>7. Writing(ch)'
    <3>1. SUFFICES ASSUME call'.buf # <<>> PROVE AtBlock(c, Hops(d))'
      BY <1>7, <1>26, <2>6 DEF Writing
    <3>2. Hops(d)' = h + 1 /\ h + 1 <= Len(c)
      BY <1>28, <1>30, <2>1, <2>6, <3>1
    <3> QED
      BY <1>13, <2>2, <2>5, <2>6, <3>2 DEF AtBlock
  <2> QED
    <3>1. mounted' = TRUE
      BY <1>1, <1>3, <1>22 DEF Types
    <3>2. fd'[call'.fd].open
      BY <1>3, <1>4, <1>26, <2>6
    <3>3. FsIInv'
      BY ONLY <1>1, <1>2, <1>22, <1>23, <1>26, <1>27, <2>4, <2>6, <2>7, <3>1, <3>2, FsIInv,
              InWrite
    <3>4. WritesBlock(ch, ch, d, e, c, h, a, z, n, i, buf)
      BY ONLY <1>7, <1>32, <1>33, <2>2, <2>4
    <3> QED
      BY ONLY <3>3, <3>4
<1> QED
  BY ONLY <1>31, <1>32

-----------------------------------------------------------------------------
(* Every step of clients that are careful keeps the invariant. *)

(* It only speaks of the variables of Fs. *)
LEMMA FsStutter == FsIInv /\ UNCHANGED fsVars => FsIInv'
<1>1. SUFFICES ASSUME FsIInv, UNCHANGED fsVars PROVE FsIInv'
  OBVIOUS
<1>2. /\ dRoot' = dRoot /\ dFat' = dFat /\ dData' = dData /\ root' = root /\ fat' = fat
      /\ fd' = fd /\ fdCount' = fdCount /\ mounted' = mounted /\ call' = call
  BY <1>1 DEF fsVars
<1>3. Types /\ InCall /\ Descriptors /\ Memory /\ Disk
  BY <1>1 DEF FsIInv
<1>4. Types'
  BY <1>2, <1>3 DEF Types
<1>5. InCall'
  BY <1>2, <1>3 DEF InCall
<1>6. Descriptors'
  BY <1>2, <1>3 DEF Descriptors, Opened
<1>7. Memory'
  BY <1>2, <1>3 DEF Memory, Writing, AtBlock, Hops
<1>8. Disk'
  BY <1>2, <1>3 DEF Disk
<1> QED
  BY <1>4, <1>5, <1>6, <1>7, <1>8 DEF FsIInv

(* The rest of a call that writes several blocks. *)
LEMMA CallGoesOnStep ==
  FsIInv /\ (UmountFat \/ UmountEnd \/ WriteBlock \/ WriteEnd) => FsIInv'
  BY UmountFatStep, UmountEndStep, WriteBlockDoes, WriteEndStep

(* Every operation of fs.c keeps the file system whole. *)
LEMMA FsStays == FsIInv /\ Careful /\ [FsNext]_fsVars => FsIInv'
<1>1. SUFFICES ASSUME FsIInv, Careful, FsNext PROVE FsIInv'
  BY FsStutter
<1>2. CASE Mount \/ Umount
  BY <1>1, <1>2, MountStep, UmountStep
<1>3. CASE UmountFat \/ UmountEnd \/ WriteBlock \/ WriteEnd
  BY <1>1, <1>3, CallGoesOnStep
<1>4. CASE ProcessEnds
  BY <1>1, <1>4, LostStep DEF ProcessEnds
<1>5. ASSUME NEW f \in Name, Create(f) \/ Delete(f) \/ Open(f) PROVE FsIInv'
  BY <1>1, <1>5, CreateStep, DeleteDoes, OpenStep
<1>6. ASSUME NEW d \in Fd, Close(d) PROVE FsIInv'
  BY <1>1, <1>6, CloseStep
<1>7. ASSUME NEW d \in Fd, NEW o \in 0 .. BlockSize * DataCount, Lseek(d, o) PROVE FsIInv'
  <2>1. o \in Nat
    OBVIOUS
  <2> QED
    BY <1>1, <1>7, <2>1, LseekStep
<1>8. ASSUME NEW d \in Fd, NEW buf \in Buffer, WriteStart(d, buf) PROVE FsIInv'
  <2>1. buf \in Seq(Byte)
    BY FsAssumption
  <2> QED
    BY <1>1, <1>8, <2>1, WriteStartDoes
<1>9. ASSUME NEW d \in Fd, NEW n \in ReadCount, Read(d, n) PROVE FsIInv'
  <2>1. n \in Nat
    BY FsAssumption
  <2> QED
    BY <1>1, <1>9, <2>1, ReadStep
<1> QED
  BY <1>1, <1>2, <1>3, <1>4, <1>5, <1>6, <1>7, <1>8, <1>9 DEF FsNext

(* What the invariant says to the clients of fs.c. *)
LEMMA FsConsequences ==
  FsIInv => FsTypeOK /\ FatIsPartition /\ DiskIsWhole /\ OffsetsInFile
<1>1. SUFFICES ASSUME FsIInv PROVE FatIsPartition /\ DiskIsWhole /\ OffsetsInFile
  BY FsTyped
<1>2. Descriptors /\ Memory /\ Disk
  BY <1>1 DEF FsIInv
<1>3. FatIsPartition
  BY <1>2, WholeIsWellFormed DEF Memory, FatIsPartition
<1>4. DiskIsWhole
  BY <1>2, WholeIsWellFormed DEF Disk, DiskIsWhole
<1>5. OffsetsInFile
  BY <1>2 DEF Descriptors, Opened, OffsetsInFile
<1> QED
  BY <1>3, <1>4, <1>5

(* A fs_write() that ends with bytes to write has filled its file and the  *)
(* disk: its loop ends at a free block only when there is none (541-548).  *)
LEMMA EndsWhenFull ==
  ASSUME FsIInv, WriteEnd, call.buf # <<>>
  PROVE  /\ UNION {Blocks(fat, root[x].first) : x \in UsedEntries(root)} = Index \ {0}
         /\ root[fd[call.fd].file].size =
              BlockSize * Len(Chain(fat, root[fd[call.fd].file].first))
<1>1. call.op = "write" /\ (call.index = 0 \/ (call.index = EOC /\ NextFree = 0))
  BY DEF WriteEnd
<1>2. Types /\ Descriptors /\ Memory /\ InCall
  BY DEF FsIInv
<1>3. call \in WriteCalls /\ mounted /\ fd[call.fd].open
  BY <1>1, <1>2, CallKinds
<1>4. PICK d \in Fd : d = call.fd /\ fd[d].open
  BY <1>3 DEF WriteCalls
<1>5. PICK ch : Whole(root, fat, ch) /\ Writing(ch)
  BY <1>2 DEF Memory
<1>6. PICK e \in Entry : e = fd[d].file
  BY <1>2, <1>4, <1>5, HopsBound
<1>7. PICK c \in Seq(Index) : c = ch[e]
  BY <1>5, <1>6, ChainFacts
<1>8. PICK h \in Nat : h = Hops(d)
  BY <1>2, <1>4, <1>5, HopsBound
<1>9. PICK a \in Nat, z \in Nat : a = fd[d].offset /\ z = root[e].size /\ a <= z
  BY <1>2, <1>4, <1>5, <1>6, HopsBound
<1>10. /\ h <= Len(c) /\ Fits(z, Len(c)) /\ root[e].first = FirstOf(c, EOC)
       /\ h = a \div BlockSize
  BY <1>2, <1>4, <1>5, <1>6, <1>7, <1>8, <1>9, HopsBound DEF Hops
<1>11. PICK l \in Nat : l = Len(c)
  BY <1>5, <1>6, <1>7, ChainFacts
<1>12. \A k \in 1 .. l : c[k] \in Index /\ c[k] # 0
  BY <1>5, <1>6, <1>7, <1>11, ChainFacts
<1>13. call.index = (IF h = l THEN EOC ELSE c[h + 1])
  BY <1>1, <1>4, <1>5, <1>6, <1>7, <1>8, <1>11 DEF Writing, AtBlock
<1>14. h = l /\ NextFree = 0
  <2>1. h # l => h + 1 \in 1 .. l
    BY ONLY <1>10, <1>11, h \in Nat, l \in Nat
  <2> QED
    BY <1>1, <1>12, <1>13, <2>1, Sizes
<1>15. z = BlockSize * l
  <2>1. BlockSize \in Nat \ {0}
    BY Sizes
  <2>2. /\ a \div BlockSize \in Nat /\ a % BlockSize \in 0 .. BlockSize - 1
        /\ a = (a \div BlockSize) * BlockSize + (a % BlockSize)
    BY ONLY <2>1, QuotientExists, a \in Nat
  <2>3. PICK x \in Nat : x = a % BlockSize
    BY <2>1, <2>2
  <2>4. a = l * BlockSize + x
    BY <1>10, <1>14, <2>2, <2>3
  <2>5. z <= l * BlockSize
    BY <1>10, <1>11, <2>1 DEF Fits
  <2>6. PICK y \in Nat : y = l * BlockSize /\ y = BlockSize * l
    BY ONLY <2>1, ProductGrows, l \in Nat
  <2> QED
    BY ONLY <1>9, <2>4, <2>5, <2>6, a \in Nat, z \in Nat, x \in Nat, y \in Nat
<1>16. UNION {Blocks(fat, root[x].first) : x \in UsedEntries(root)} = Index \ {0}
  <2>1. \A i \in Index : fat[i] # 0
    BY <1>5, <1>14, NextFreeIs, Sizes DEF Whole, Covered
  <2>2. FatFree(fat) = {}
    BY <2>1 DEF FatFree
  <2>3. WellFormed(root, fat)
    BY <1>5, WholeIsWellFormed
  <2>4. Index \ ({0} \cup UNION {Blocks(fat, root[x].first) : x \in UsedEntries(root)}) = {}
    BY <2>2, <2>3 DEF WellFormed
  <2>5. ASSUME NEW x \in UsedEntries(root)
        PROVE  Blocks(fat, root[x].first) \subseteq Index \ {0}
    <3>1. x \in Entry /\ root[x].first = FirstOf(ch[x], EOC)
      BY <1>5 DEF UsedEntries, Whole, Chained
    <3>2. Chain(fat, root[x].first) = ch[x]
      BY <1>5, <3>1, ChainIs
    <3>3. \A k \in DOMAIN ch[x] : ch[x][k] \in Index \ {0}
      BY <1>5, <3>1, ChainFacts
    <3> QED
      BY <3>2, <3>3 DEF Blocks
  <2> QED
    BY <2>4, <2>5
<1>17. Chain(fat, root[e].first) = c
  BY <1>5, <1>7, <1>10, ChainIs
<1> QED
  BY <1>4, <1>6, <1>9, <1>11, <1>15, <1>16, <1>17

Greedy ==
  call.op = "write" /\ call'.op = "none" /\ mounted' /\ call.buf # <<>> =>
    /\ UNION {Blocks(fat, root[x].first) : x \in UsedEntries(root)} = Index \ {0}
    /\ root[fd[call.fd].file].size =
         BlockSize * Len(Chain(fat, root[fd[call.fd].file].first))

(* No other step ends a fs_write() while the file system stays mounted. *)
LEMMA FsGreedy == FsIInv /\ [FsNext]_fsVars => [Greedy]_fsVars
<1>1. SUFFICES ASSUME FsIInv, FsNext, call.op = "write", call'.op = "none", mounted',
                      call.buf # <<>>
               PROVE  WriteEnd
  BY EndsWhenFull DEF Greedy
<1>2. call # NoCall /\ call.op # "umount" /\ call.op # "freed"
  BY <1>1 DEF NoCall
<1>3. ~Mount
  <2>1. InCall
    BY <1>1 DEF FsIInv
  <2>2. mounted
    BY <1>1, <2>1, CallKinds
  <2> QED
    BY <2>2 DEF Mount, BlockDiskOpen
<1>4. ~Umount /\ ~UmountFat /\ ~UmountEnd
  BY <1>2 DEF Umount, Ready, UmountFat, UmountEnd
<1>5. ~ProcessEnds
  BY <1>1 DEF ProcessEnds, MemoryLost, BlockDiskClose
<1>6. \A f \in Name : ~Create(f) /\ ~Delete(f) /\ ~Open(f)
  BY <1>2 DEF Create, Delete, Open, Ready
<1>7. \A d \in Fd : ~Close(d) /\ (\A o : ~Lseek(d, o)) /\ (\A b : ~WriteStart(d, b))
                    /\ (\A n : ~Read(d, n))
  BY <1>2 DEF Close, Lseek, WriteStart, Read, Ready
<1>8. ~WriteBlock
  <2>1. WriteBlock => call'.op = call.op
    <3>1. InCall
      BY <1>1 DEF FsIInv
    <3>2. call \in WriteCalls
      BY <1>1, <3>1, CallKinds
    <3> QED
      BY <3>2 DEF WriteBlock, WriteCalls
  <2> QED
    BY <1>1, <2>1
<1> QED
  BY <1>1, <1>3, <1>4, <1>5, <1>6, <1>7, <1>8 DEF FsNext

-----------------------------------------------------------------------------
(* The file system under any clients that are careful. *)

(* The inductive invariant of fs.c: the directory and the FAT in memory,   *)
(* and those on the disk outside fs_umount(), are a whole file system; a   *)
(* write in progress is at the block of its offset; a fs_umount() has      *)
(* written what it has passed.                                             *)
THEOREM FsInvariant == Careful => (FsSpec => []FsIInv)
<1>1. Careful => Careful'
  BY DEF Careful
<1> QED
  BY <1>1, FsBegins, FsStays, PTL DEF FsSpec

(* Every variable of the file system keeps its type. *)
THEOREM FsTypesCorrect == Careful => (FsSpec => []FsTypeOK)
  BY FsInvariant, FsConsequences, PTL

(* No call of fs.c, however a full disk cuts it short, loses a block or    *)
(* gives it to two files.                                                  *)
THEOREM FatPartitioned == Careful => (FsSpec => []FatIsPartition)
  BY FsInvariant, FsConsequences, PTL

(* What the disk holds outside fs_umount() can always be mounted, whenever *)
(* the process is killed.                                                  *)
THEOREM DiskWhole == Careful => (FsSpec => []DiskIsWhole)
  BY FsInvariant, FsConsequences, PTL

(* The offset of an open descriptor is in its file, and fd_l->count counts *)
(* the open descriptors.                                                   *)
THEOREM OffsetsStay == Careful => (FsSpec => []OffsetsInFile)
  BY FsInvariant, FsConsequences, PTL

(* fs_write() stops before its last byte only when its file fills its      *)
(* blocks and no block is free.                                            *)
THEOREM WriteIsGreedy == Careful => (FsSpec => WritesAllItCan)
<1>1. FsIInv /\ [FsNext]_fsVars =>
        [ call.op = "write" /\ call'.op = "none" /\ mounted' /\ call.buf # <<>>
            => LET e == fd[call.fd].file
               IN  /\ UNION {Blocks(fat, root[x].first) : x \in UsedEntries(root)}
                        = Index \ {0}
                   /\ root[e].size = BlockSize * Len(Chain(fat, root[e].first)) ]_fsVars
  BY FsGreedy DEF Greedy
<1> QED
  BY <1>1, FsInvariant, PTL DEF FsSpec, WritesAllItCan

-----------------------------------------------------------------------------
(* The refinement of AbstractFs: the files are what the chains hold.       *)

(* No two files of a directory have one name. *)
Names(r) == {r[e].name : e \in UsedEntries(r)}
Named(r) == \A e1, e2 \in UsedEntries(r) : r[e1].name = r[e2].name => e1 = e2

(* The k-th byte of a file that has the blocks c, and all that it holds.   *)
ByteAt(c, dd, k) == dd[c[(k - 1) \div BlockSize + 1]][((k - 1) % BlockSize) + 1]
Content(size, c, dd) == [k \in 1 .. size |-> ByteAt(c, dd, k)]

(* The files of a directory, and the table of the descriptors. *)
FilesOf(r, f, dd) ==
  LET entry(name) == CHOOSE e \in UsedEntries(r) : r[e].name = name
      byte(e, i) == dd[Chain(f, r[e].first)[(i - 1) \div BlockSize + 1]][((i - 1) % BlockSize) + 1]
  IN  [name \in {r[e].name : e \in UsedEntries(r)} |->
         [i \in 1 .. r[entry(name)].size |-> byte(entry(name), i)]]
TableOf(r, g) ==
  [d \in Fd |-> IF g[d].open THEN [name |-> r[g[d].file].name, offset |-> g[d].offset]
                ELSE [name |-> NoName, offset |-> 0]]

(* F gives what the files of the directory r hold in the blocks ch. *)
Holds(F, r, ch, dd) ==
  /\ F = [nm \in Names(r) |-> F[nm]]
  /\ \A e \in UsedEntries(r) : F[r[e].name] = Content(r[e].size, ch[e], dd)

(* What a file holds is what its blocks hold. *)
LEMMA FilesOfHolds ==
  ASSUME NEW r, NEW f, NEW ch, Whole(r, f, ch), Named(r), NEW dd
  PROVE  Holds(FilesOf(r, f, dd), r, ch, dd)
<1> DEFINE entry(nm) == CHOOSE e \in UsedEntries(r) : r[e].name = nm
           content(nm) == [i \in 1 .. r[entry(nm)].size |->
             dd[Chain(f, r[entry(nm)].first)[(i - 1) \div BlockSize + 1]]
               [((i - 1) % BlockSize) + 1]]
<1>1. PICK F : F = FilesOf(r, f, dd)
  OBVIOUS
<1>2. F = [nm \in Names(r) |-> content(nm)]
  BY <1>1 DEF FilesOf, Names
<1>3. ASSUME NEW e \in UsedEntries(r) PROVE F[r[e].name] = Content(r[e].size, ch[e], dd)
  <2>1. PICK nm : nm = r[e].name
    OBVIOUS
  <2>2. entry(nm) = e
    BY <2>1 DEF Named
  <2>3. nm \in Names(r)
    BY <2>1 DEF Names
  <2>4. Chain(f, r[e].first) = ch[e]
    BY ChainIs DEF UsedEntries, Whole, Chained
  <2>5. content(nm) = Content(r[e].size, ch[e], dd)
    <3>1. PICK x : x = entry(nm)
      OBVIOUS
    <3>2. content(nm) = [i \in 1 .. r[x].size |->
            dd[Chain(f, r[x].first)[(i - 1) \div BlockSize + 1]][((i - 1) % BlockSize) + 1]]
      BY ONLY <3>1
    <3> HIDE DEF content
    <3>3. x = e
      BY ONLY <2>2, <3>1
    <3>4. content(nm) = [i \in 1 .. r[e].size |->
            dd[ch[e][(i - 1) \div BlockSize + 1]][((i - 1) % BlockSize) + 1]]
      BY ONLY <2>4, <3>2, <3>3
    <3> QED
      BY ONLY <3>4, Zenon DEF Content, ByteAt
  <2> HIDE DEF content
  <2>6. F[nm] = content(nm)
    BY ONLY <1>2, <2>3
  <2> QED
    BY ONLY <2>1, <2>5, <2>6
<1> HIDE DEF content
<1>4. F = [nm \in Names(r) |-> F[nm]]
  BY ONLY <1>2
<1> QED
  BY ONLY <1>1, <1>3, <1>4 DEF Holds

(* Two functions on one set that agree are one. *)
LEMMA SameFunction ==
  ASSUME NEW S, NEW F, NEW G, F = [x \in S |-> F[x]], G = [x \in S |-> G[x]],
         \A x \in S : F[x] = G[x]
  PROVE  F = G
<1>1. [x \in S |-> F[x]] = [x \in S |-> G[x]]
  OBVIOUS
<1> QED
  BY <1>1

(* Files whose entries keep their names, sizes and bytes are the same.     *)
LEMMA SameFiles ==
  ASSUME NEW r, NEW ch, NEW dd, NEW F, Holds(F, r, ch, dd),
         NEW s, NEW cg, NEW de, NEW G, Holds(G, s, cg, de),
         \A e \in Entry : s[e].name = r[e].name,
         \A e \in UsedEntries(r) :
           Content(s[e].size, cg[e], de) = Content(r[e].size, ch[e], dd)
  PROVE  G = F
<1>1. UsedEntries(s) = UsedEntries(r)
  BY DEF UsedEntries
<1>2. \A e \in UsedEntries(r) : s[e].name = r[e].name
  BY DEF UsedEntries
<1>3. Names(s) = Names(r)
  BY <1>1, <1>2 DEF Names
<1>4. ASSUME NEW nm \in Names(r) PROVE F[nm] = G[nm]
  <2>1. PICK e \in UsedEntries(r) : nm = r[e].name
    BY DEF Names
  <2>2. F[r[e].name] = Content(r[e].size, ch[e], dd)
    BY DEF Holds
  <2>3. G[s[e].name] = Content(s[e].size, cg[e], de)
    BY <1>1 DEF Holds
  <2> QED
    BY <1>2, <2>1, <2>2, <2>3
<1>5. F = [nm \in Names(r) |-> F[nm]] /\ G = [nm \in Names(r) |-> G[nm]]
  BY <1>3 DEF Holds
<1> QED
  BY ONLY <1>4, <1>5, SameFunction

(* A file is added without bytes. *)
LEMMA AddedFile ==
  ASSUME NEW r, NEW ch, NEW dd, NEW F, Holds(F, r, ch, dd),
         NEW s, NEW G, Holds(G, s, ch, dd), NEW e \in Entry, r[e].name = NoName,
         NEW nm \in Name, s[e].name = nm, s[e].size = 0,
         \A x \in Entry : x # e => s[x] = r[x], nm \notin Names(r)
  PROVE  G = [g \in DOMAIN F \cup {nm} |-> IF g = nm THEN <<>> ELSE F[g]]
<1>1. UsedEntries(s) = UsedEntries(r) \cup {e} /\ e \notin UsedEntries(r)
      /\ \A x \in UsedEntries(r) : s[x] = r[x]
  BY Sizes DEF UsedEntries
<1>2. Names(s) = Names(r) \cup {nm}
  BY <1>1 DEF Names
<1>3. /\ F = [x \in Names(r) |-> F[x]] /\ DOMAIN F = Names(r)
      /\ G = [x \in Names(r) \cup {nm} |-> G[x]]
  BY <1>2 DEF Holds
<1>4. G[nm] = <<>>
  <2>1. G[nm] = Content(0, ch[e], dd)
    BY <1>1 DEF Holds
  <2>2. Content(0, ch[e], dd) = <<>>
    BY DEF Content
  <2> QED
    BY <2>1, <2>2
<1>5. ASSUME NEW x \in Names(r) PROVE G[x] = F[x] /\ x # nm
  <2>1. PICK y \in UsedEntries(r) : x = r[y].name
    BY DEF Names
  <2>2. F[x] = Content(r[y].size, ch[y], dd) /\ G[x] = Content(r[y].size, ch[y], dd)
    BY <1>1, <2>1 DEF Holds
  <2> QED
    BY <2>2
<1>6. [x \in Names(r) \cup {nm} |-> G[x]]
        = [x \in Names(r) \cup {nm} |-> IF x = nm THEN <<>> ELSE F[x]]
  BY <1>4, <1>5
<1> QED
  BY ONLY <1>3, <1>6

(* A file is gone. *)
LEMMA RemovedFile ==
  ASSUME NEW r, NEW ch, NEW dd, NEW F, Holds(F, r, ch, dd), Named(r),
         NEW s, NEW cg, NEW G, Holds(G, s, cg, dd), NEW e \in UsedEntries(r), s[e].name = NoName,
         \A x \in Entry : x # e => s[x] = r[x] /\ cg[x] = ch[x]
  PROVE  G = [g \in DOMAIN F \ {r[e].name} |-> F[g]]
<1>1. UsedEntries(s) = UsedEntries(r) \ {e}
      /\ \A x \in UsedEntries(s) : s[x] = r[x] /\ cg[x] = ch[x]
  BY DEF UsedEntries
<1>2. Names(s) = Names(r) \ {r[e].name}
  BY <1>1 DEF Names, Named
<1>3. /\ DOMAIN F = Names(r) /\ G = [x \in Names(r) \ {r[e].name} |-> G[x]]
  <2>1. F = [x \in Names(r) |-> F[x]]
    BY DEF Holds
  <2>2. G = [x \in Names(s) |-> G[x]]
    BY DEF Holds
  <2> QED
    BY ONLY <1>2, <2>1, <2>2
<1>4. ASSUME NEW x \in Names(r) \ {r[e].name} PROVE G[x] = F[x]
  <2>1. PICK y \in UsedEntries(s) : x = s[y].name
    BY <1>2 DEF Names
  <2>2. F[x] = Content(r[y].size, ch[y], dd) /\ G[x] = Content(r[y].size, ch[y], dd)
    BY <1>1, <2>1 DEF Holds
  <2> QED
    BY <2>2
<1> QED
  BY ONLY <1>3, <1>4

-----------------------------------------------------------------------------
(* What a round of fs_write() does to the bytes of the files. *)

(* The block of a byte of a file is one of its blocks. *)
LEMMA BlockOfByte ==
  ASSUME NEW z \in Nat, NEW l \in Nat, Fits(z, l), NEW k \in 1 .. z
  PROVE  /\ (k - 1) \div BlockSize \in Nat /\ (k - 1) \div BlockSize + 1 \in 1 .. l
         /\ (k - 1) % BlockSize \in 0 .. BlockSize - 1
         /\ k - 1 = ((k - 1) \div BlockSize) * BlockSize + ((k - 1) % BlockSize)
<1>1. PICK b \in Nat \ {0} : b = BlockSize
  BY Sizes
<1>2. PICK j \in Nat : j = k - 1 /\ j < z
  OBVIOUS
<1>3. /\ j \div b \in Nat /\ j % b \in 0 .. b - 1 /\ j = (j \div b) * b + (j % b)
  BY ONLY QuotientExists, j \in Nat, b \in Nat \ {0}
<1>4. PICK q \in Nat, x \in Nat : q = j \div b /\ x = j % b
  BY <1>3
<1>5. q < l
  <2>1. z <= l * b
    BY <1>1 DEF Fits
  <2>2. q * b \in Nat /\ l * b \in Nat
    BY ONLY ProductGrows, q \in Nat, l \in Nat, b \in Nat \ {0}
  <2>3. j = q * b + x
    BY ONLY <1>3, <1>4
  <2>4. q * b < l * b
    BY ONLY <1>2, <2>1, <2>2, <2>3, x \in Nat, j \in Nat, z \in Nat
  <2> QED
    BY ONLY <2>4, ProductGrows, q \in Nat, l \in Nat, b \in Nat \ {0}
<1>6. q + 1 \in 1 .. l
  BY ONLY <1>5, q \in Nat, l \in Nat
<1> QED
  BY ONLY <1>1, <1>2, <1>3, <1>4, <1>6

(* What files hold are bytes. *)
LEMMA ContentTyped ==
  ASSUME NEW z \in Nat, NEW c \in Seq(Index), Fits(z, Len(c)),
         NEW dd \in [Index -> [1 .. BlockSize -> Byte \cup {Zero}]]
  PROVE  /\ Content(z, c, dd) \in Seq(Byte \cup {Zero}) /\ Len(Content(z, c, dd)) = z
         /\ \A k \in 1 .. z : Content(z, c, dd)[k] = ByteAt(c, dd, k)
<1>1. Len(c) \in Nat /\ \A k \in 1 .. Len(c) : c[k] \in Index
  BY LenProperties, ElementOfSeq
<1>2. ASSUME NEW k \in 1 .. z PROVE ByteAt(c, dd, k) \in Byte \cup {Zero}
  <2>1. /\ (k - 1) \div BlockSize + 1 \in 1 .. Len(c)
        /\ (k - 1) % BlockSize \in 0 .. BlockSize - 1
    BY ONLY <1>1, BlockOfByte, Fits(z, Len(c)), z \in Nat, k \in 1 .. z
  <2>2. PICK q, x : q = (k - 1) \div BlockSize + 1 /\ x = (k - 1) % BlockSize
    OBVIOUS
  <2>3. BlockSize \in Nat
    BY Sizes
  <2>4. c[q] \in Index /\ x + 1 \in 1 .. BlockSize
    BY ONLY <1>1, <2>1, <2>2, <2>3
  <2>5. dd[c[q]][x + 1] \in Byte \cup {Zero}
    BY <2>4
  <2> QED
    BY <2>2, <2>5 DEF ByteAt
<1>3. Content(z, c, dd) \in [1 .. z -> Byte \cup {Zero}]
  BY <1>2 DEF Content
<1>4. Content(z, c, dd) \in Seq(Byte \cup {Zero}) /\ Len(Content(z, c, dd)) = z
  BY ONLY <1>3, FunctionIsSeq, z \in Nat
<1> QED
  BY ONLY <1>4, Zenon DEF Content

(* A file of which n bytes from the offset a on are those of buf. *)
Replaced(c, dd, cg, de, a, n, buf, k) ==
  ByteAt(cg, de, k) = IF k \in a + 1 .. a + n THEN buf[k - a] ELSE ByteAt(c, dd, k)

(* The file that is written. *)
LEMMA BytesWritten ==
  ASSUME NEW ch, NEW cg, NEW d, NEW e, NEW c, NEW h, NEW a, NEW z, NEW n, NEW i, NEW buf,
         FsIInv, WritesBlock(ch, cg, d, e, c, h, a, z, n, i, buf),
         NEW k \in 1 .. Max({z, a + n})
  PROVE  Replaced(c, dData, cg[e], dData', a, n, buf, k)
<1>1. /\ Whole(root, fat, ch) /\ e \in Entry /\ c \in Seq(Index) /\ c = ch[e] /\ h \in Nat
      /\ h = a \div BlockSize /\ h <= Len(c) /\ a \in Nat /\ z \in Nat /\ a <= z
      /\ Fits(z, Len(c)) /\ buf \in Seq(Byte) /\ n \in Nat \ {0} /\ n <= Len(buf)
      /\ (a % BlockSize) + n <= BlockSize /\ i \in Index
      /\ (h = Len(c) => i # 0 /\ fat[i] = 0) /\ (h # Len(c) => i = c[h + 1])
      /\ cg[e] = (IF h = Len(c) THEN Append(c, i) ELSE c)
      /\ dData' = [dData EXCEPT ![i] = BlockWith(dData[i], a % BlockSize, n, buf)]
  BY DEF WritesBlock
<1>2. /\ Len(c) \in Nat /\ DOMAIN c = 1 .. Len(c) /\ Distinct(c)
      /\ \A x \in 1 .. Len(c) : c[x] \in Index /\ fat[c[x]] # 0
  BY <1>1, ChainFacts
<1>3. dData \in [Index -> [1 .. BlockSize -> Byte \cup {Zero}]]
  BY DEF FsIInv, Types
<1>4. PICK b \in Nat \ {0} : b = BlockSize
  BY Sizes
<1>5. PICK o \in Nat : o = a % b /\ o <= b - 1 /\ a = h * b + o /\ o + n <= b
  <2>0. a \in Nat
    BY <1>1
  <2>1. a \div b \in Nat /\ a % b \in 0 .. b - 1 /\ a = (a \div b) * b + (a % b)
    BY ONLY <2>0, QuotientExists, b \in Nat \ {0}
  <2>2. PICK x \in 0 .. b - 1 : x = a % b
    BY <2>1
  <2>3. a = h * b + x /\ x + n <= b
    BY <1>1, <1>4, <2>1, <2>2
  <2> QED
    BY <2>2, <2>3
<1>6. k \in Nat \ {0} /\ (k <= z \/ k \in a + 1 .. a + n)
  <2>1. a + n \in Nat /\ z \in Nat
    BY <1>1
  <2>2. Max({z, a + n}) = IF z >= a + n THEN z ELSE a + n
    BY ONLY <2>1, MaxOfTwo
  <2> QED
    BY ONLY <1>1, <2>2, k \in 1 .. Max({z, a + n})
<1>7. PICK j \in Nat : j = k - 1
  BY <1>6
<1>8. PICK q \in Nat, x \in Nat : q = j \div b /\ x = j % b /\ x <= b - 1 /\ j = q * b + x
  <2>1. j \div b \in Nat /\ j % b \in 0 .. b - 1 /\ j = (j \div b) * b + (j % b)
    BY ONLY QuotientExists, j \in Nat, b \in Nat \ {0}
  <2>2. PICK q \in Nat, x \in 0 .. b - 1 : q = j \div b /\ x = j % b
    BY <2>1
  <2> QED
    BY <2>1, <2>2
<1>9. /\ ByteAt(c, dData, k) = dData[c[q + 1]][x + 1]
      /\ ByteAt(cg[e], dData', k) = dData'[cg[e][q + 1]][x + 1]
  BY <1>4, <1>7, <1>8 DEF ByteAt
<1>10. PICK block : block = BlockWith(dData[i], o, n, buf)
  OBVIOUS
<1>11. dData' = [dData EXCEPT ![i] = block]
  BY ONLY <1>1, <1>4, <1>5, <1>10
<1>12. dData'[i] = block /\ \A y \in Index : y # i => dData'[y] = dData[y]
  BY ONLY <1>1, <1>3, <1>11
<1>13. x + 1 \in 1 .. b /\ block[x + 1] = IF x + 1 \in o + 1 .. o + n THEN buf[x + 1 - o]
                                          ELSE dData[i][x + 1]
  BY <1>4, <1>8, <1>10 DEF BlockWith
<1>14. CASE k \in a + 1 .. a + n
  <2>1. q = h
    <3>1. PICK hb \in Nat : hb = h * b /\ (h + 1) * b = hb + b
      BY ONLY ProductGrows, <1>1, b \in Nat \ {0}
    <3>2. PICK p \in Nat : p = j - hb /\ p \in 0 .. b - 1
      <4>1. a = hb + o /\ o + n <= b /\ a \in Nat /\ n \in Nat
        BY ONLY <1>1, <1>5, <3>1
      <4>2. j >= hb /\ j - hb <= b - 1
        BY ONLY <1>7, <1>14, <4>1, b \in Nat \ {0}, o \in Nat, j \in Nat, hb \in Nat
      <4>3. j - hb \in Nat /\ j - hb \in 0 .. b - 1
        BY ONLY <4>2, b \in Nat \ {0}, j \in Nat, hb \in Nat
      <4> QED
        BY ONLY <4>3
    <3>3. j = h * b + p
      BY ONLY <3>1, <3>2, j \in Nat
    <3>4. (h * b + p) \div b = h
      BY ONLY <1>1, <3>2, QuotientIs, b \in Nat \ {0}
    <3> QED
      BY ONLY <1>8, <3>3, <3>4
  <2>2. cg[e][h + 1] = i
    <3>1. h = Len(c) => Append(c, i)[h + 1] = i
      BY ONLY <1>1, AppendProperties
    <3> QED
      BY ONLY <1>1, <3>1
  <2>3. x + 1 \in o + 1 .. o + n /\ x + 1 - o = k - a
    <3>1. PICK hb \in Nat : hb = h * b
      BY ONLY ProductGrows, <1>1, b \in Nat \ {0}
    <3>2. j = hb + x /\ a = hb + o
      BY ONLY <1>5, <1>8, <2>1, <3>1
    <3> QED
      BY ONLY <1>1, <1>7, <1>14, <3>2, o \in Nat, x \in Nat, hb \in Nat, j \in Nat
  <2>4. ByteAt(cg[e], dData', k) = buf[k - a]
    BY ONLY <1>9, <1>12, <1>13, <2>1, <2>2, <2>3
  <2> QED
    BY ONLY <1>14, <2>4 DEF Replaced
<1>15. CASE k \notin a + 1 .. a + n
  <2>1. q + 1 \in 1 .. Len(c)
    <3>1. k \in 1 .. z
      BY ONLY <1>1, <1>6, <1>15
    <3> QED
      BY ONLY <1>1, <1>2, <1>4, <1>7, <1>8, <3>1, BlockOfByte
  <2>2. cg[e][q + 1] = c[q + 1] /\ c[q + 1] \in Index /\ fat[c[q + 1]] # 0
    <3>1. Append(c, i)[q + 1] = c[q + 1]
      <4>1. \A y \in 1 .. Len(c) : Append(c, i)[y] = c[y]
        BY ONLY <1>1, AppendProperties
      <4> QED
        BY ONLY <2>1, <4>1
    <3> QED
      BY ONLY <1>1, <1>2, <2>1, <3>1
  <2>3. CASE c[q + 1] # i
    <3>1. ByteAt(cg[e], dData', k) = ByteAt(c, dData, k)
      BY ONLY <1>9, <1>12, <2>2, <2>3
    <3> QED
      BY ONLY <1>15, <3>1 DEF Replaced
  <2>4. CASE c[q + 1] = i
    <3>1. h # Len(c) /\ h + 1 \in 1 .. Len(c) /\ i = c[h + 1]
      <4>1. h # Len(c) /\ i = c[h + 1]
        BY ONLY <1>1, <2>2, <2>4
      <4>2. h + 1 \in 1 .. Len(c)
        BY ONLY <1>1, <1>2, <4>1
      <4> QED
        BY <4>1, <4>2
    <3>2. q = h
      <4>1. q + 1 = h + 1
        BY ONLY <1>2, <2>1, <2>4, <3>1 DEF Distinct
      <4> QED
        BY ONLY <1>1, <4>1, q \in Nat
    <3>3. x + 1 \notin o + 1 .. o + n
      <4>1. PICK hb \in Nat : hb = h * b
        BY ONLY ProductGrows, <1>1, b \in Nat \ {0}
      <4>2. j = hb + x /\ a = hb + o
        BY ONLY <1>5, <1>8, <3>2, <4>1
      <4> QED
        BY ONLY <1>1, <1>6, <1>7, <1>15, <4>2, o \in Nat, x \in Nat, hb \in Nat, j \in Nat
    <3>4. ByteAt(cg[e], dData', k) = ByteAt(c, dData, k)
      BY ONLY <1>9, <1>12, <1>13, <2>2, <2>4, <3>3
    <3> QED
      BY ONLY <1>15, <3>4 DEF Replaced
  <2> QED
    BY ONLY <2>3, <2>4
<1> QED
  BY ONLY <1>14, <1>15

(* The other files. *)
LEMMA OthersKept ==
  ASSUME NEW ch, NEW cg, NEW d, NEW e, NEW c, NEW h, NEW a, NEW z, NEW n, NEW i, NEW buf,
         FsIInv, WritesBlock(ch, cg, d, e, c, h, a, z, n, i, buf),
         NEW y \in UsedEntries(root), y # e
  PROVE  Content(root[y].size, cg[y], dData') = Content(root[y].size, ch[y], dData)
<1>1. /\ Whole(root, fat, ch) /\ e \in Entry /\ c = ch[e] /\ h \in Nat /\ h <= Len(c)
      /\ i \in Index /\ (h = Len(c) => i # 0 /\ fat[i] = 0) /\ (h # Len(c) => i = c[h + 1])
      /\ \A x \in Entry \ {e} : cg[x] = ch[x]
      /\ dData' = [dData EXCEPT ![i] = BlockWith(dData[i], a % BlockSize, n, buf)]
  BY DEF WritesBlock
<1>2. y \in Entry /\ root[y].name # NoName /\ cg[y] = ch[y]
  BY <1>1 DEF UsedEntries
<1>3. PICK z2 \in Nat : z2 = root[y].size
  BY <1>2, Sizes DEF FsIInv, Types, Roots
<1>4. Fits(z2, Len(ch[y]))
  BY <1>1, <1>2, <1>3 DEF Whole, Chained
<1>5. /\ Len(ch[y]) \in Nat /\ DOMAIN ch[y] = 1 .. Len(ch[y])
      /\ \A x \in 1 .. Len(ch[y]) : ch[y][x] \in Index /\ fat[ch[y][x]] # 0
  BY <1>1, <1>2, ChainFacts
<1>6. dData \in [Index -> [1 .. BlockSize -> Byte \cup {Zero}]]
  BY DEF FsIInv, Types
<1>7. ASSUME NEW x \in 1 .. Len(ch[y]) PROVE ch[y][x] # i
  <2>1. h = Len(c) => ch[y][x] # i
    BY ONLY <1>1, <1>5
  <2>2. h # Len(c) => h + 1 \in DOMAIN ch[e]
    <3>1. Len(c) \in Nat /\ DOMAIN c = 1 .. Len(c)
      BY <1>1, ChainFacts
    <3> QED
      BY ONLY <1>1, <3>1
  <2>3. Apart(ch)
    BY <1>1 DEF Whole
  <2>4. h # Len(c) => ch[y][x] # i
    BY ONLY <1>1, <1>2, <1>5, <2>2, <2>3, y # e, x \in 1 .. Len(ch[y]) DEF Apart
  <2> QED
    BY ONLY <2>1, <2>4
<1>8. ASSUME NEW k \in 1 .. z2 PROVE ByteAt(ch[y], dData', k) = ByteAt(ch[y], dData, k)
  <2>1. PICK q : q = (k - 1) \div BlockSize + 1 /\ q \in 1 .. Len(ch[y])
    BY ONLY <1>4, <1>5, BlockOfByte, z2 \in Nat, k \in 1 .. z2
  <2>2. ch[y][q] \in Index /\ ch[y][q] # i
    BY ONLY <1>5, <1>7, <2>1
  <2>3. dData'[ch[y][q]] = dData[ch[y][q]]
    BY ONLY <1>1, <1>6, <2>2
  <2> QED
    BY ONLY <2>1, <2>3 DEF ByteAt
<1> QED
  BY ONLY <1>2, <1>3, <1>8 DEF Content

(* Bytes that replace others of a file, beyond its end too. *)
LEMMA OverwriteIs ==
  ASSUME NEW S, NEW p \in Seq(S), NEW a \in 0 .. Len(p), NEW bytes \in Seq(S)
  PROVE  /\ Abstract!Overwrite(p, a, bytes) \in Seq(S)
         /\ Len(Abstract!Overwrite(p, a, bytes)) = IF Len(p) >= a + Len(bytes) THEN Len(p)
                                                   ELSE a + Len(bytes)
         /\ \A k \in 1 .. Len(Abstract!Overwrite(p, a, bytes)) :
              Abstract!Overwrite(p, a, bytes)[k] =
                IF k \in a + 1 .. a + Len(bytes) THEN bytes[k - a] ELSE p[k]
<1>1. PICK l \in Nat, m \in Nat : l = Len(p) /\ m = Len(bytes)
  BY LenProperties
<1>2. a \in Nat /\ a <= l /\ \A k \in 1 .. l : p[k] \in S
  BY <1>1, ElementOfSeq
<1>3. PICK x \in Seq(S) : /\ x = SubSeq(p, 1, a) /\ Len(x) = a
                          /\ \A k \in 1 .. a : x[k] = p[k]
  <2>1. \A k \in 1 .. a : p[k] \in S
    BY ONLY <1>2, l \in Nat
  <2>2. /\ SubSeq(p, 1, a) \in Seq(S)
        /\ Len(SubSeq(p, 1, a)) = IF 1 <= a THEN a - 1 + 1 ELSE 0
        /\ \A k \in 1 .. a - 1 + 1 : SubSeq(p, 1, a)[k] = p[1 + k - 1]
    <3>1. 1 \in Int /\ a \in Int
      BY <1>2
    <3> QED
      BY ONLY <2>1, <3>1, SubSeqProperties
  <2>3. Len(SubSeq(p, 1, a)) = a /\ \A k \in 1 .. a : SubSeq(p, 1, a)[k] = p[k]
    BY ONLY <1>2, <2>2
  <2> QED
    BY <2>2, <2>3
<1>4. PICK y \in Seq(S) : /\ y = x \o bytes /\ Len(y) = a + m
                          /\ \A k \in 1 .. a + m : y[k] = IF k <= a THEN x[k] ELSE bytes[k - a]
  <2>1. /\ x \o bytes \in Seq(S) /\ Len(x \o bytes) = Len(x) + Len(bytes)
        /\ \A k \in 1 .. Len(x) + Len(bytes) :
             (x \o bytes)[k] = IF k <= Len(x) THEN x[k] ELSE bytes[k - Len(x)]
    BY ConcatProperties
  <2>2. Len(x) = a /\ Len(bytes) = m
    BY ONLY <1>1, <1>3
  <2>3. PICK y : y = x \o bytes
    OBVIOUS
  <2>4. /\ y \in Seq(S) /\ Len(y) = a + m
        /\ \A k \in 1 .. a + m : y[k] = IF k <= a THEN x[k] ELSE bytes[k - a]
    BY ONLY <2>1, <2>2, <2>3
  <2> QED
    BY ONLY <2>3, <2>4
<1>5. PICK w \in Seq(S) : /\ w = SubSeq(p, a + m + 1, l)
                          /\ Len(w) = IF a + m + 1 <= l THEN l - (a + m) ELSE 0
                          /\ \A k \in 1 .. Len(w) : w[k] = p[a + m + k]
  <2>1. \A k \in a + m + 1 .. l : p[k] \in S
    BY ONLY <1>2, l \in Nat, m \in Nat
  <2>2. /\ SubSeq(p, a + m + 1, l) \in Seq(S)
        /\ Len(SubSeq(p, a + m + 1, l)) =
             IF a + m + 1 <= l THEN l - (a + m + 1) + 1 ELSE 0
        /\ \A k \in 1 .. l - (a + m + 1) + 1 :
             SubSeq(p, a + m + 1, l)[k] = p[a + m + 1 + k - 1]
    <3>1. PICK b \in Int : b = a + m + 1
      OBVIOUS
    <3>2. l \in Int /\ \A k \in b .. l : p[k] \in S
      BY ONLY <2>1, <3>1, l \in Nat
    <3>3. /\ SubSeq(p, b, l) \in Seq(S)
          /\ Len(SubSeq(p, b, l)) = IF b <= l THEN l - b + 1 ELSE 0
          /\ \A k \in 1 .. l - b + 1 : SubSeq(p, b, l)[k] = p[b + k - 1]
      BY ONLY <3>2, b \in Int, SubSeqProperties
    <3> QED
      BY ONLY <3>1, <3>3
  <2>3. PICK w \in Seq(S) : w = SubSeq(p, a + m + 1, l)
    BY <2>2
  <2>4. Len(w) = IF a + m + 1 <= l THEN l - (a + m) ELSE 0
    BY ONLY <1>2, <2>2, <2>3, l \in Nat, m \in Nat
  <2>5. \A k \in 1 .. Len(w) : w[k] = p[a + m + k]
    <3>1. ASSUME NEW k \in 1 .. Len(w) PROVE w[k] = p[a + m + k]
      <4>1. k \in 1 .. l - (a + m + 1) + 1 /\ a + m + 1 + k - 1 = a + m + k
        BY ONLY <1>2, <2>4, k \in 1 .. Len(w), l \in Nat, m \in Nat
      <4> QED
        BY ONLY <2>2, <2>3, <4>1
    <3> QED
      BY <3>1
  <2> QED
    BY <2>3, <2>4, <2>5
<1>6. Abstract!Overwrite(p, a, bytes) = y \o w
  <2>1. a + Len(bytes) + 1 = a + m + 1
    BY <1>1
  <2> QED
    BY ONLY <1>1, <1>3, <1>4, <1>5, <2>1 DEF Abstract!Overwrite
<1>7. PICK v \in Seq(S) : /\ v = y \o w /\ Len(v) = a + m + Len(w)
                          /\ \A k \in 1 .. a + m + Len(w) :
                               v[k] = IF k <= a + m THEN y[k] ELSE w[k - (a + m)]
  <2>1. /\ y \o w \in Seq(S) /\ Len(y \o w) = Len(y) + Len(w)
        /\ \A k \in 1 .. Len(y) + Len(w) :
             (y \o w)[k] = IF k <= Len(y) THEN y[k] ELSE w[k - Len(y)]
    BY ConcatProperties
  <2>2. Len(y) = a + m
    BY ONLY <1>4
  <2>3. PICK v : v = y \o w
    OBVIOUS
  <2>4. /\ v \in Seq(S) /\ Len(v) = a + m + Len(w)
        /\ \A k \in 1 .. a + m + Len(w) :
             v[k] = IF k <= a + m THEN y[k] ELSE w[k - (a + m)]
    BY ONLY <2>1, <2>2, <2>3
  <2> QED
    BY ONLY <2>3, <2>4
<1>8. Len(v) = IF l >= a + m THEN l ELSE a + m
  <2>1. Len(v) = a + m + Len(w) /\ a \in Nat
        /\ Len(w) = IF a + m + 1 <= l THEN l - (a + m) ELSE 0
    BY ONLY <1>2, <1>5, <1>7
  <2>2. PICK j : j = Len(w)
    OBVIOUS
  <2>3. PICK g : g = Len(v)
    OBVIOUS
  <2>4. g = a + m + j /\ a \in Nat /\ j = IF a + m + 1 <= l THEN l - (a + m) ELSE 0
    BY ONLY <2>1, <2>2, <2>3
  <2>5. g = IF l >= a + m THEN l ELSE a + m
    BY ONLY <2>4, l \in Nat, m \in Nat
  <2> QED
    BY ONLY <2>3, <2>5
<1>9. ASSUME NEW k \in 1 .. Len(v)
      PROVE  v[k] = IF k \in a + 1 .. a + m THEN bytes[k - a] ELSE p[k]
  <2>1. Len(w) \in Nat
    BY LenProperties
  <2>2. k \in 1 .. a + m + Len(w)
    BY ONLY <1>7, k \in 1 .. Len(v)
  <2>3. CASE k \in a + 1 .. a + m
    <3>1. k \in 1 .. a + m /\ k <= a + m /\ ~(k <= a)
      BY ONLY <1>2, <2>3, m \in Nat
    <3>2. v[k] = y[k]
      BY ONLY <1>7, <2>2, <3>1
    <3> QED
      BY ONLY <1>4, <2>3, <3>1, <3>2
  <2>4. CASE k <= a
    BY ONLY <1>2, <1>3, <1>4, <1>7, <2>1, <2>2, <2>4, m \in Nat
  <2>5. CASE k > a + m
    <3>1. k - (a + m) \in 1 .. Len(w) /\ a + m + (k - (a + m)) = k /\ ~(k <= a + m)
          /\ k \notin a + 1 .. a + m
      BY ONLY <1>2, <2>1, <2>2, <2>5, m \in Nat
    <3> QED
      BY ONLY <1>5, <1>7, <2>2, <3>1
  <2> QED
    BY ONLY <1>2, <2>1, <2>2, <2>3, <2>4, <2>5, m \in Nat
<1> QED
  BY ONLY <1>1, <1>6, <1>7, <1>8, <1>9

(* What a round does to the files. *)
LEMMA FilesWritten ==
  ASSUME NEW ch, NEW cg, NEW d, NEW e, NEW c, NEW h, NEW a, NEW z, NEW n, NEW i, NEW buf,
         FsIInv, WritesBlock(ch, cg, d, e, c, h, a, z, n, i, buf),
         NEW F, Holds(F, root, ch, dData), NEW G, Holds(G, root', cg, dData')
  PROVE  /\ root[e].name \in DOMAIN F
         /\ G = [F EXCEPT ![root[e].name] = Abstract!Overwrite(@, a, SubSeq(buf, 1, n))]
<1>1. /\ Whole(root, fat, ch) /\ Whole(root', fat', cg) /\ e \in Entry /\ root[e].name # NoName
      /\ c \in Seq(Index) /\ c = ch[e] /\ a \in Nat /\ z \in Nat /\ z = root[e].size /\ a <= z
      /\ Fits(z, Len(c)) /\ buf \in Seq(Byte) /\ n \in Nat \ {0} /\ n <= Len(buf)
      /\ root' = [root EXCEPT ![e].size = Max({z, a + n})]
  BY DEF WritesBlock
<1>2. root \in Roots /\ dData \in [Index -> [1 .. BlockSize -> Byte \cup {Zero}]]
  BY DEF FsIInv, Types
<1>3. PICK y \in Nat : y = Max({z, a + n}) /\ y = IF z >= a + n THEN z ELSE a + n
  <2>1. z \in Int /\ a + n \in Int /\ a + n \in Nat
    BY ONLY <1>1
  <2>2. Max({z, a + n}) = IF z >= a + n THEN z ELSE a + n
    BY ONLY <2>1, MaxOfTwo
  <2> QED
    BY ONLY <1>1, <2>1, <2>2
<1>4. /\ \A x \in Entry : root'[x].name = root[x].name
      /\ \A x \in Entry : x # e => root'[x].size = root[x].size
      /\ root'[e].size = y
  BY ONLY <1>1, <1>2, <1>3 DEF Roots
<1>5. UsedEntries(root') = UsedEntries(root) /\ Names(root') = Names(root)
      /\ e \in UsedEntries(root)
  <2>1. UsedEntries(root') = UsedEntries(root) /\ e \in UsedEntries(root)
    BY ONLY <1>1, <1>4 DEF UsedEntries
  <2>2. \A x \in UsedEntries(root) : root'[x].name = root[x].name
    BY ONLY <1>4 DEF UsedEntries
  <2> QED
    BY ONLY <2>1, <2>2 DEF Names
<1>6. PICK bytes \in Seq(Byte) : /\ bytes = SubSeq(buf, 1, n) /\ Len(bytes) = n
                                 /\ \A k \in 1 .. n : bytes[k] = buf[k]
  <2>1. Len(buf) \in Nat /\ \A k \in 1 .. Len(buf) : buf[k] \in Byte
    BY <1>1, LenProperties, ElementOfSeq
  <2>2. \A k \in 1 .. n : buf[k] \in Byte
    BY ONLY <1>1, <2>1
  <2>3. /\ SubSeq(buf, 1, n) \in Seq(Byte)
        /\ Len(SubSeq(buf, 1, n)) = IF 1 <= n THEN n - 1 + 1 ELSE 0
        /\ \A k \in 1 .. n - 1 + 1 : SubSeq(buf, 1, n)[k] = buf[1 + k - 1]
    <3>1. 1 \in Int /\ n \in Int
      BY ONLY <1>1
    <3> QED
      BY ONLY <2>2, <3>1, SubSeqProperties
  <2>4. Len(SubSeq(buf, 1, n)) = n /\ \A k \in 1 .. n : SubSeq(buf, 1, n)[k] = buf[k]
    BY ONLY <1>1, <2>3
  <2> QED
    BY ONLY <2>3, <2>4
<1>7. PICK p \in Seq(Byte \cup {Zero}) :
        /\ p = Content(z, c, dData) /\ Len(p) = z
        /\ \A k \in 1 .. z : p[k] = ByteAt(c, dData, k)
  BY ONLY <1>1, <1>2, ContentTyped
<1>8. PICK v : v = Abstract!Overwrite(p, a, bytes)
  OBVIOUS
<1>9. /\ v \in Seq(Byte \cup {Zero}) /\ Len(v) = y
      /\ \A k \in 1 .. y : v[k] = IF k \in a + 1 .. a + n THEN bytes[k - a] ELSE p[k]
  <2>1. a \in 0 .. Len(p) /\ bytes \in Seq(Byte \cup {Zero})
    BY ONLY <1>1, <1>7, bytes \in Seq(Byte)
  <2>2. PICK S : S = Byte \cup {Zero}
    OBVIOUS
  <2>3. p \in Seq(S) /\ bytes \in Seq(S)
    BY ONLY <2>1, <2>2, p \in Seq(Byte \cup {Zero})
  <2>4. /\ v \in Seq(S)
        /\ Len(v) = IF Len(p) >= a + Len(bytes) THEN Len(p) ELSE a + Len(bytes)
        /\ \A k \in 1 .. Len(v) : v[k] = IF k \in a + 1 .. a + Len(bytes) THEN bytes[k - a]
                                         ELSE p[k]
    BY ONLY <1>8, <2>1, <2>3, OverwriteIs
  <2>5. Len(p) = z /\ Len(bytes) = n /\ y = IF z >= a + n THEN z ELSE a + n
    BY ONLY <1>3, <1>6, <1>7
  <2>6. Len(v) = y
    BY ONLY <2>4, <2>5
  <2> QED
    BY ONLY <2>2, <2>4, <2>5, <2>6
<1>10. ASSUME NEW k \in 1 .. y PROVE ByteAt(cg[e], dData', k) = v[k]
  <2>1. Replaced(c, dData, cg[e], dData', a, n, buf, k)
    <3>1. k \in 1 .. Max({z, a + n})
      BY ONLY <1>3, k \in 1 .. y
    <3> QED
      BY ONLY <3>1, BytesWritten, FsIInv, WritesBlock(ch, cg, d, e, c, h, a, z, n, i, buf)
  <2>2. CASE k \in a + 1 .. a + n
    <3>1. k - a \in 1 .. n
      BY ONLY <1>1, <2>2
    <3> QED
      BY ONLY <1>6, <1>9, <2>1, <2>2, <3>1, k \in 1 .. y DEF Replaced
  <2>3. CASE k \notin a + 1 .. a + n
    <3>1. k \in 1 .. z
      <4>1. a \in Nat /\ z \in Nat /\ n \in Nat /\ a <= z /\ y = IF z >= a + n THEN z ELSE a + n
        BY ONLY <1>1, <1>3
      <4> QED
        BY ONLY <2>3, <4>1, k \in 1 .. y
    <3> QED
      BY ONLY <1>7, <1>9, <2>1, <2>3, <3>1, k \in 1 .. y DEF Replaced
  <2> QED
    BY <2>2, <2>3
<1>11. Content(y, cg[e], dData') = v
  <2>1. v = [k \in 1 .. y |-> v[k]]
    BY ONLY <1>9
  <2>2. Content(y, cg[e], dData') = [k \in 1 .. y |-> v[k]]
    BY ONLY <1>10 DEF Content
  <2> QED
    BY ONLY <2>1, <2>2
<1>12. PICK nm : nm = root[e].name /\ nm \in Names(root)
  BY <1>5 DEF Names
<1>13. F[nm] = p /\ G[nm] = v
  <2>1. F[nm] = Content(z, c, dData)
    BY ONLY <1>1, <1>5, <1>12, Holds(F, root, ch, dData) DEF Holds
  <2>2. G[nm] = Content(y, cg[e], dData')
    BY ONLY <1>1, <1>4, <1>5, <1>12, Holds(G, root', cg, dData') DEF Holds
  <2> QED
    BY ONLY <1>7, <1>11, <2>1, <2>2
<1>14. ASSUME NEW x \in Names(root), x # nm PROVE G[x] = F[x]
  <2>1. PICK u \in UsedEntries(root) : x = root[u].name
    BY DEF Names
  <2>2. u \in Entry /\ u # e
    BY <1>12, <1>14, <2>1 DEF UsedEntries
  <2>3. Content(root[u].size, cg[u], dData') = Content(root[u].size, ch[u], dData)
    BY ONLY <2>1, <2>2, OthersKept, FsIInv, WritesBlock(ch, cg, d, e, c, h, a, z, n, i, buf),
            u \in UsedEntries(root)
  <2>4. F[x] = Content(root[u].size, ch[u], dData)
    BY ONLY <2>1, Holds(F, root, ch, dData), u \in UsedEntries(root) DEF Holds
  <2>5. G[x] = Content(root[u].size, cg[u], dData')
    BY ONLY <1>4, <1>5, <2>1, <2>2, Holds(G, root', cg, dData'), u \in UsedEntries(root) DEF Holds
  <2> QED
    BY ONLY <2>3, <2>4, <2>5
<1>15. F = [x \in Names(root) |-> F[x]] /\ G = [x \in Names(root) |-> G[x]]
  BY ONLY <1>5, Holds(F, root, ch, dData), Holds(G, root', cg, dData') DEF Holds
<1>16. G = [F EXCEPT ![nm] = v]
  <2>1. [F EXCEPT ![nm] = v] = [x \in Names(root) |-> IF x = nm THEN v ELSE F[x]]
    BY ONLY <1>12, <1>15
  <2>2. [x \in Names(root) |-> IF x = nm THEN v ELSE F[x]] = [x \in Names(root) |-> G[x]]
    BY ONLY <1>13, <1>14
  <2> QED
    BY ONLY <1>15, <2>1, <2>2
<1>17. G = [F EXCEPT ![nm] = Abstract!Overwrite(@, a, SubSeq(buf, 1, n))]
  BY ONLY <1>6, <1>8, <1>13, <1>16
<1>18. nm \in DOMAIN F
  BY ONLY <1>12, <1>15
<1> QED
  BY ONLY <1>12, <1>17, <1>18

-----------------------------------------------------------------------------
(* What fs.c is mapped to. *)

(* The files, before a step and after it. *)
LEMMA FilesNow ==
  /\ mounted => Files = FilesOf(root, fat, dData)
  /\ ~mounted => Files = FilesOf(dRoot, dFat, dData)
  /\ mounted' => Files' = FilesOf(root', fat', dData')
  /\ ~mounted' => Files' = FilesOf(dRoot', dFat', dData')
<1>1. mounted => Files = FilesOf(root, fat, dData)
  BY DEF Files, FilesOf
<1>2. ~mounted => Files = FilesOf(dRoot, dFat, dData)
  BY DEF Files, FilesOf
<1>3. mounted' => Files' = FilesOf(root', fat', dData')
  BY DEF Files, FilesOf
<1>4. ~mounted' => Files' = FilesOf(dRoot', dFat', dData')
  BY DEF Files, FilesOf
<1> QED
  BY <1>1, <1>2, <1>3, <1>4

(* The files of a mounted file system that is whole. *)
LEMMA FilesHold ==
  ASSUME NEW ch
  PROVE  /\ mounted /\ Whole(root, fat, ch) /\ Named(root) => Holds(Files, root, ch, dData)
         /\ mounted' /\ Whole(root', fat', ch) /\ Named(root') =>
              Holds(Files', root', ch, dData')
<1>1. mounted /\ Whole(root, fat, ch) /\ Named(root) => Holds(Files, root, ch, dData)
  BY FilesNow, FilesOfHolds
<1>2. ASSUME mounted', Whole(root', fat', ch), Named(root')
      PROVE  Holds(Files', root', ch, dData')
  <2>1. Holds(FilesOf(root', fat', dData'), root', ch, dData')
    BY <1>2, FilesOfHolds
  <2> QED
    BY <1>2, <2>1, FilesNow
<1> QED
  BY <1>1, <1>2

NoFile == [name |-> NoName, offset |-> 0]
Unused == [d \in Fd |-> NoFile]

(* The table, when no descriptor is open. *)
LEMMA TableUnused ==
  ASSUME NEW r, NEW g, \A d \in Fd : ~g[d].open
  PROVE  TableOf(r, g) = Unused
  BY DEF TableOf, Unused, NoFile

(* A table whose files keep their names. *)
LEMMA TableSame ==
  ASSUME NEW r, NEW s, NEW g, \A d \in Fd : g[d].open => s[g[d].file].name = r[g[d].file].name
  PROVE  TableOf(s, g) = TableOf(r, g)
  BY DEF TableOf

(* An open descriptor. *)
LEMMA TableAt ==
  ASSUME NEW r, NEW g, NEW d \in Fd, g[d].open, r[g[d].file].name # NoName
  PROVE  /\ TableOf(r, g)[d] # NoFile
         /\ TableOf(r, g)[d].name = r[g[d].file].name
         /\ TableOf(r, g)[d].offset = g[d].offset
<1>1. TableOf(r, g)[d] = [name |-> r[g[d].file].name, offset |-> g[d].offset]
  BY DEF TableOf
<1> QED
  BY <1>1 DEF NoFile

(* What a call does to the descriptor d, in fd and in the table. *)
Moved(g, g2, d, o) == g2 = [g EXCEPT ![d].offset = o]
Assigned(g, g2, d, v) == g2 = [g EXCEPT ![d] = v]

(* The offset of an open descriptor changes. *)
LEMMA TableMoves ==
  ASSUME NEW r, NEW s, \A x \in Entry : s[x].name = r[x].name,
         NEW g \in Fds, NEW d \in Fd, g[d].open, NEW o, NEW g2, Moved(g, g2, d, o)
  PROVE  Moved(TableOf(r, g), TableOf(s, g2), d, o)
<1>1. g2 = [g EXCEPT ![d].offset = o]
  BY DEF Moved
<1>2. \A x \in Fd : /\ g2[x].open = g[x].open /\ g2[x].file = g[x].file /\ g[x].file \in Entry
                    /\ x # d => g2[x].offset = g[x].offset
  BY <1>1 DEF Fds
<1>3. g2[d].offset = o
  BY <1>1 DEF Fds
<1>4. PICK T : T = TableOf(r, g)
  OBVIOUS
<1>5. PICK nm : nm = r[g[d].file].name
  OBVIOUS
<1>6. T[d] = [name |-> nm, offset |-> g[d].offset]
  BY <1>4, <1>5 DEF TableOf
<1>7. [T EXCEPT ![d].offset = o] = [T EXCEPT ![d] = [name |-> nm, offset |-> o]]
  <2>1. PICK p : p = g[d].offset
    OBVIOUS
  <2>2. T[d] = [name |-> nm, offset |-> p]
    BY ONLY <1>6, <2>1
  <2>3. [[name |-> nm, offset |-> p] EXCEPT !.offset = o] = [name |-> nm, offset |-> o]
    OBVIOUS
  <2>4. [T[d] EXCEPT !.offset = o] = [name |-> nm, offset |-> o]
    BY ONLY <2>2, <2>3
  <2>5. [T EXCEPT ![d].offset = o] = [T EXCEPT ![d] = [T[d] EXCEPT !.offset = o]]
    BY ONLY Zenon
  <2> QED
    BY ONLY <2>4, <2>5
<1>8. TableOf(s, g2)[d] = [name |-> nm, offset |-> o]
  BY <1>2, <1>3, <1>5 DEF TableOf
<1>9. ASSUME NEW x \in Fd, x # d PROVE TableOf(s, g2)[x] = T[x]
  BY <1>2, <1>4, <1>9 DEF TableOf
<1>10. PICK U : U = TableOf(s, g2)
  OBVIOUS
<1>11. T = [x \in Fd |-> T[x]] /\ U = [x \in Fd |-> U[x]]
  BY <1>4, <1>10 DEF TableOf
<1>12. U = [T EXCEPT ![d] = [name |-> nm, offset |-> o]]
  <2>1. [T EXCEPT ![d] = [name |-> nm, offset |-> o]]
          = [x \in Fd |-> IF x = d THEN [name |-> nm, offset |-> o] ELSE T[x]]
    BY ONLY <1>11
  <2>2. \A x \in Fd : U[x] = IF x = d THEN [name |-> nm, offset |-> o] ELSE T[x]
    BY ONLY <1>8, <1>9, <1>10
  <2> QED
    BY ONLY <1>11, <2>1, <2>2
<1> QED
  BY ONLY <1>4, <1>7, <1>10, <1>12 DEF Moved

(* A descriptor is opened or closed. *)
LEMMA TableSet ==
  ASSUME NEW r, NEW g \in Fds, NEW d \in Fd, NEW v, NEW t,
         t = IF v.open THEN [name |-> r[v.file].name, offset |-> v.offset]
             ELSE [name |-> NoName, offset |-> 0],
         NEW g2, Assigned(g, g2, d, v)
  PROVE  Assigned(TableOf(r, g), TableOf(r, g2), d, t)
<1>1. g2 = [g EXCEPT ![d] = v]
  BY DEF Assigned
<1>2. \A x \in Fd : g2[x] = IF x = d THEN v ELSE g[x]
  BY <1>1 DEF Fds
<1>3. PICK T : T = TableOf(r, g)
  OBVIOUS
<1>4. PICK U : U = TableOf(r, g2)
  OBVIOUS
<1>5. T = [x \in Fd |-> T[x]] /\ U = [x \in Fd |-> U[x]]
  BY <1>3, <1>4 DEF TableOf
<1>6. \A x \in Fd : U[x] = IF x = d THEN t ELSE T[x]
  BY <1>2, <1>3, <1>4 DEF TableOf
<1>7. [T EXCEPT ![d] = t] = [x \in Fd |-> IF x = d THEN t ELSE T[x]]
  BY ONLY <1>5
<1> QED
  BY ONLY <1>3, <1>4, <1>5, <1>6, <1>7 DEF Assigned

-----------------------------------------------------------------------------
(* Names stay different. *)

NamesDiffer == Named(root) /\ Named(dRoot)

(* Entries that keep their names keep them different. *)
LEMMA NamedKept ==
  ASSUME NEW r, Named(r), NEW s, \A e \in Entry : s[e].name = r[e].name
  PROVE  Named(s)
<1>1. UsedEntries(s) = UsedEntries(r) /\ \A e \in UsedEntries(r) : s[e].name = r[e].name
  BY DEF UsedEntries
<1> QED
  BY <1>1 DEF Named

(* A free entry is given a name that no other has. *)
LEMMA NamedAdded ==
  ASSUME NEW r, Named(r), NEW s, NEW e \in Entry, r[e].name = NoName,
         s[e].name \notin Names(r), \A x \in Entry : x # e => s[x] = r[x]
  PROVE  Named(s)
<1>1. SUFFICES ASSUME NEW x \in UsedEntries(s), NEW y \in UsedEntries(s), s[x].name = s[y].name
               PROVE  x = y
  BY DEF Named
<1>2. \A w \in UsedEntries(s) : w # e => w \in UsedEntries(r) /\ s[w] = r[w]
  BY DEF UsedEntries
<1>3. CASE x # e /\ y # e
  BY <1>1, <1>2, <1>3 DEF Named
<1>4. CASE x # e /\ y = e
  BY <1>1, <1>2, <1>4 DEF Names
<1>5. CASE x = e /\ y # e
  BY <1>1, <1>2, <1>5 DEF Names
<1> QED
  BY <1>3, <1>4, <1>5

(* An entry is freed. *)
LEMMA NamedRemoved ==
  ASSUME NEW r, Named(r), NEW s, NEW e \in Entry, s[e].name = NoName,
         \A x \in Entry : x # e => s[x] = r[x]
  PROVE  Named(s)
<1>1. \A w \in UsedEntries(s) : w \in UsedEntries(r) /\ s[w] = r[w]
  BY DEF UsedEntries
<1> QED
  BY <1>1 DEF Named

(* A directory without files. *)
LEMMA NamedEmpty == Named(EmptyRoot)
<1>1. UsedEntries(EmptyRoot) = {}
  BY DEF UsedEntries, EmptyRoot, FreeEntry
<1> QED
  BY <1>1 DEF Named

-----------------------------------------------------------------------------
(* Every step is one of AbstractFs. *)

Refines == NamesDiffer' /\ Abstract!FilesNext

(* Nothing happens to the files and the table. *)
LEMMA IsStutter ==
  ASSUME Files' = Files, TableOf(root', fd') = TableOf(root, fd), got' = <<>>
  PROVE  Abstract!FilesNext
<1>1. [d \in Fd |-> IF fd'[d].open THEN [name |-> root'[fd'[d].file].name, offset |-> fd'[d].offset]
                    ELSE [name |-> NoName, offset |-> 0]]
        = [d \in Fd |-> IF fd[d].open THEN [name |-> root[fd[d].file].name, offset |-> fd[d].offset]
                        ELSE [name |-> NoName, offset |-> 0]]
  BY Zenon DEF TableOf
<1> QED
  BY ONLY <1>1, Files' = Files, got' = <<>> DEF Abstract!FilesNext

(* A call that is an update of the files or of the table. *)
LEMMA IsUpdate ==
  ASSUME got' = <<>>,
         \/ \E f \in Name : Abstract!CreateFile(f) \/ Abstract!DeleteFile(f)
                            \/ \E d \in Fd : Abstract!OpenFile(f, d)
         \/ Abstract!CloseAll
         \/ \E d \in Fd :
              \/ Abstract!CloseFile(d) \/ Abstract!Seek(d)
              \/ \E bytes \in UNION {[1 .. n -> Byte] : n \in 1 .. BlockSize} :
                   Abstract!WriteSome(d, bytes)
  PROVE  Abstract!FilesNext
<1>1. Abstract!Update
  BY DEF Abstract!Update
<1> QED
  BY <1>1 DEF Abstract!FilesNext

(* fs_mount() and fs_umount() (fs.c:225-294) leave the files as they are.  *)
LEMMA MountRefines ==
  ASSUME FsIInv, NamesDiffer, Mount
  PROVE  Refines
<1>1. /\ ~mounted /\ mounted' = TRUE /\ root' = dRoot /\ fat' = dFat
      /\ fd' = [d \in Fd |-> ClosedFd] /\ got' = <<>>
      /\ dRoot' = dRoot /\ dFat' = dFat /\ dData' = dData
  BY DEF Mount, BlockDiskOpen, diskVars, Quiet
<1>2. Files' = Files
  BY <1>1, FilesNow
<1>3. TableOf(root', fd') = TableOf(root, fd)
  <2>1. \A d \in Fd : ~fd[d].open
    BY <1>1 DEF FsIInv, Descriptors
  <2>2. \A d \in Fd : ~fd'[d].open
    BY <1>1 DEF ClosedFd
  <2> QED
    BY <2>1, <2>2, TableUnused
<1>4. NamesDiffer'
  BY <1>1 DEF NamesDiffer
<1> QED
  BY <1>1, <1>2, <1>3, <1>4, IsStutter DEF Refines

(* Steps that leave what is mounted as it is. *)
LEMMA NothingMoves ==
  ASSUME NamesDiffer, mounted, mounted' = mounted, root' = root, fat' = fat, fd' = fd,
         dData' = dData, dRoot' \in {dRoot, root}, got' = <<>>
  PROVE  Refines
<1>1. Files' = Files
  BY FilesNow
<1>2. TableOf(root', fd') = TableOf(root, fd)
  OBVIOUS
<1>3. NamesDiffer'
  BY DEF NamesDiffer
<1> QED
  BY <1>1, <1>2, <1>3, IsStutter DEF Refines

(* The memory of the process is gone, after fs_umount() wrote it. *)
LEMMA LostRefines ==
  ASSUME FsIInv, NamesDiffer, MemoryLost, mounted, dRoot = root, dFat = fat
  PROVE  Refines
<1>1. /\ mounted' = FALSE /\ root' = EmptyRoot /\ fd' = [d \in Fd |-> ClosedFd] /\ got' = <<>>
      /\ dRoot' = dRoot /\ dFat' = dFat /\ dData' = dData
  BY DEF MemoryLost, BlockDiskClose, diskVars, Quiet
<1>2. Files' = Files
  BY <1>1, FilesNow
<1>3. TableOf(root', fd') = Unused
  <2>1. \A d \in Fd : ~fd'[d].open
    BY <1>1 DEF ClosedFd
  <2> QED
    BY <2>1, TableUnused
<1>4. Abstract!CloseAll
  BY <1>2, <1>3 DEF Abstract!CloseAll, Abstract!Closed, TableOf, Unused, NoFile
<1>5. NamesDiffer'
  BY <1>1, NamedEmpty DEF NamesDiffer
<1> QED
  BY <1>1, <1>4, <1>5, IsUpdate DEF Refines

(* The steps of fs_umount(), and the end of a process whose fs_umount()    *)
(* failed.                                                                 *)
LEMMA UmountRefines ==
  ASSUME FsIInv, NamesDiffer, Crashes = FALSE, Umount \/ UmountFat \/ UmountEnd \/ ProcessEnds
  PROVE  Refines
<1>1. InCall
  BY DEF FsIInv
<1>2. CASE Umount
  BY <1>2, NothingMoves DEF Umount, Ready, WrittenFirst, Quiet
<1>3. CASE UmountFat
  <2>1. mounted
    BY <1>1, <1>3, CallKinds DEF UmountFat
  <2> QED
    BY <1>3, <2>1, NothingMoves DEF UmountFat, Quiet
<1>4. CASE UmountEnd
  <2>1. mounted /\ call.op = "umount" /\ call.block \notin FatBlock
    BY <1>1, <1>4, CallKinds DEF UmountEnd
  <2>2. dRoot = root /\ dFat = fat
    BY <2>1, FatIsWritten
  <2>3. CASE MemoryLost
    BY <2>1, <2>2, <2>3, LostRefines
  <2>4. CASE /\ dRoot' = dRoot /\ dData' = dData /\ root' = root /\ fat' = fat /\ fd' = fd
             /\ mounted' = mounted /\ got' = <<>>
    BY <2>1, <2>4, NothingMoves
  <2> QED
    BY <1>4, <2>3, <2>4 DEF UmountEnd, diskVars, Quiet
<1>5. CASE ProcessEnds
  <2>1. mounted /\ call.op = "freed" /\ MemoryLost
    BY <1>5 DEF ProcessEnds
  <2>2. dRoot = root /\ dFat = fat
    BY <1>1, <2>1, CallKinds
  <2> QED
    BY <2>1, <2>2, LostRefines
<1> QED
  BY <1>2, <1>3, <1>4, <1>5

(* fs_create() (fs.c:342-375). *)
LEMMA CreateRefines ==
  ASSUME FsIInv, NamesDiffer, NEW nm \in Name, Create(nm)
  PROVE  Refines
<1> DEFINE new == [name |-> nm, size |-> 0, first |-> EOC]
<1>1. /\ mounted /\ EntryOf(nm) = {} /\ EntryOf(NoName) # {}
      /\ root' = [root EXCEPT ![Min(EntryOf(NoName))] = new]
      /\ dRoot' = dRoot /\ dData' = dData /\ fat' = fat /\ fd' = fd
      /\ mounted' = mounted /\ got' = <<>>
  BY DEF Create, Ready, CanCreate, diskVars, Quiet
<1>2. PICK ch : Whole(root, fat, ch) /\ root \in Roots
  BY DEF FsIInv, Memory, Types
<1>3. PICK e \in Entry : e = Min(EntryOf(NoName)) /\ root[e].name = NoName
  <2>1. EntryOf(NoName) \in SUBSET Nat /\ EntryOf(NoName) \subseteq Entry
    BY Sizes DEF EntryOf
  <2>2. Min(EntryOf(NoName)) \in EntryOf(NoName)
    BY <1>1, <2>1, MinIs
  <2> QED
    BY <2>1, <2>2 DEF EntryOf
<1>4. Whole([root EXCEPT ![e] = new], fat, ch)
  BY ONLY <1>2, <1>3, CreatedIsWhole, nm \in Name
<1>5. /\ Whole(root', fat', ch) /\ root'[e].name = nm /\ root'[e].size = 0
      /\ \A x \in Entry : x # e => root'[x] = root[x]
  <2>1. root' = [root EXCEPT ![e] = new]
    BY ONLY <1>1, <1>3
  <2>2. root'[e] = new /\ \A x \in Entry : x # e => root'[x] = root[x]
    BY ONLY <1>2, <2>1 DEF Roots
  <2>3. new.name = nm /\ new.size = 0
    OBVIOUS
  <2> HIDE DEF new
  <2>4. Whole(root', fat', ch)
    BY ONLY <1>1, <1>4, <2>1
  <2> QED
    BY ONLY <2>2, <2>3, <2>4
<1>6. nm \notin Names(root)
  BY <1>1 DEF Names, UsedEntries, EntryOf
<1>7. Named(root')
  BY <1>3, <1>5, <1>6, NamedAdded DEF NamesDiffer
<1>8. Holds(Files, root, ch, dData) /\ Holds(Files', root', ch, dData)
  BY <1>1, <1>2, <1>5, <1>7, FilesHold DEF NamesDiffer
<1>9. Files' = [g \in DOMAIN Files \cup {nm} |-> IF g = nm THEN <<>> ELSE Files[g]]
  BY ONLY <1>3, <1>5, <1>6, <1>8, AddedFile, nm \in Name
<1>10. nm \notin DOMAIN Files
  BY <1>6, <1>8 DEF Holds
<1>11. TableOf(root', fd') = TableOf(root, fd)
  <2>1. \A d \in Fd : fd[d].open => fd[d].file \in Entry /\ fd[d].file # e
    BY <1>3 DEF FsIInv, Types, Fds, Descriptors
  <2>2. TableOf(root', fd) = TableOf(root, fd)
    BY <1>5, <2>1, TableSame
  <2> QED
    BY <1>1, <2>2
<1>12. Abstract!CreateFile(nm)
  BY ONLY <1>9, <1>10, <1>11 DEF Abstract!CreateFile, TableOf
<1>13. NamesDiffer'
  BY <1>1, <1>7 DEF NamesDiffer
<1> QED
  BY <1>1, <1>12, <1>13, IsUpdate DEF Refines

(* fs_delete() (fs.c:377-409). *)
LEMMA DeleteRefines ==
  ASSUME FsIInv, NamesDiffer, Careful, NEW nm \in Name, Delete(nm)
  PROVE  Refines
<1>1. /\ dRoot' = dRoot /\ dData' = dData /\ fd' = fd /\ got' = <<>>
  BY DEF Delete, diskVars, Quiet
<1>2. PICK ch, e : FreesEntry(ch, e, nm)
  BY DeleteDoes
<1>3. PICK cg : cg = [ch EXCEPT ![e] = <<>>]
  OBVIOUS
<1>4. /\ Whole(root, fat, ch) /\ e \in Entry /\ root[e].name = nm /\ mounted /\ mounted'
      /\ Whole(root', fat', cg) /\ root'[e].name = NoName
      /\ \A x \in Entry : x # e => root'[x] = root[x]
      /\ \A d \in Fd : ~(fd[d].open /\ fd[d].file = e)
  BY ONLY <1>2, <1>3 DEF FreesEntry
<1>5. /\ e \in UsedEntries(root)
      /\ \A x \in Entry : x # e => root'[x] = root[x] /\ cg[x] = ch[x]
  <2>1. nm # NoName
    BY Sizes
  <2>2. ch \in [Entry -> Seq(Index)]
    BY <1>4 DEF Whole
  <2> QED
    BY <1>3, <1>4, <2>1, <2>2 DEF UsedEntries
<1>6. Named(root')
  BY <1>4, NamedRemoved DEF NamesDiffer
<1>7. Holds(Files, root, ch, dData) /\ Holds(Files', root', cg, dData)
  BY <1>1, <1>4, <1>6, FilesHold DEF NamesDiffer
<1>8. Files' = [g \in DOMAIN Files \ {nm} |-> Files[g]]
  <2>1. Named(root)
    BY DEF NamesDiffer
  <2> QED
    BY ONLY <1>4, <1>5, <1>7, <2>1, RemovedFile
<1>9. nm \in DOMAIN Files
  <2>1. DOMAIN Files = Names(root)
    BY <1>7 DEF Holds
  <2> QED
    BY <1>4, <1>5, <2>1 DEF Names
<1>10. \A d \in Fd : fd[d].open => /\ fd[d].file \in Entry /\ fd[d].file # e
                                   /\ root[fd[d].file].name # nm
  <2>1. SUFFICES ASSUME NEW d \in Fd, fd[d].open
                 PROVE  fd[d].file \in Entry /\ fd[d].file # e /\ root[fd[d].file].name # nm
    OBVIOUS
  <2>2. fd[d].file \in Entry /\ fd[d].file # e /\ root[fd[d].file].name # NoName
    BY <1>4, <2>1 DEF FsIInv, Types, Fds, Descriptors
  <2> QED
    BY <1>4, <1>5, <2>2 DEF NamesDiffer, Named, UsedEntries
<1>11. TableOf(root', fd') = TableOf(root, fd)
  <2>1. TableOf(root', fd) = TableOf(root, fd)
    BY <1>4, <1>10, TableSame
  <2> QED
    BY <1>1, <2>1
<1>12. \A d \in Fd : TableOf(root, fd)[d].name # nm
  BY <1>10, Sizes DEF TableOf
<1>13. Abstract!DeleteFile(nm)
  BY ONLY <1>8, <1>9, <1>11, <1>12 DEF Abstract!DeleteFile, Abstract!IsOpen, TableOf
<1>14. NamesDiffer'
  BY <1>1, <1>6 DEF NamesDiffer
<1> QED
  BY <1>1, <1>13, <1>14, IsUpdate DEF Refines

(* fs_open() (fs.c:427-459). *)
LEMMA OpenRefines ==
  ASSUME FsIInv, NamesDiffer, NEW nm \in Name, Open(nm)
  PROVE  Refines
<1>1. PICK e \in EntryOf(nm) :
        fd' = [fd EXCEPT ![FirstClosed] = [file |-> e, offset |-> 0, open |-> TRUE]]
  BY DEF Open
<1>2. /\ mounted /\ fdCount # FdMax /\ dRoot' = dRoot /\ dData' = dData
      /\ root' = root /\ fat' = fat /\ mounted' = mounted /\ got' = <<>>
  BY DEF Open, Ready, CanOpen, diskVars, Quiet
<1>3. PICK ch : Whole(root, fat, ch)
  BY DEF FsIInv, Memory
<1>4. e \in UsedEntries(root) /\ root[e].name = nm /\ fd \in Fds
  BY Sizes DEF EntryOf, FsIInv, Types, UsedEntries
<1>5. PICK n \in Fd : n = FirstClosed /\ ~fd[n].open
  <2>1. Opened # Fd
    <3>1. FdMax \in Nat \ {0} /\ IsFiniteSet(Fd) /\ Cardinality(Fd) = FdMax
      BY Sizes, FS_Interval DEF Fd
    <3> QED
      BY <1>2, <3>1 DEF FsIInv, Descriptors
  <2>2. {d \in Fd : ~fd[d].open} # {} /\ {d \in Fd : ~fd[d].open} \in SUBSET Nat
    BY <2>1, Sizes DEF Opened
  <2>3. FirstClosed \in {d \in Fd : ~fd[d].open}
    BY <2>2, MinIs DEF FirstClosed
  <2> QED
    BY <2>3
<1>6. PICK v : v = [file |-> e, offset |-> 0, open |-> TRUE]
  OBVIOUS
<1>7. Files' = Files
  BY <1>2, FilesNow
<1>8. nm \in DOMAIN Files
  <2>1. DOMAIN Files = Names(root)
    BY <1>2, <1>3, FilesHold DEF NamesDiffer, Holds
  <2> QED
    BY <1>4, <2>1 DEF Names
<1>9. TableOf(root', fd') = [TableOf(root, fd) EXCEPT ![n] = [name |-> nm, offset |-> 0]]
  <2>1. fd' = [fd EXCEPT ![n] = v]
    BY ONLY <1>1, <1>5, <1>6
  <2>2. v.open = TRUE /\ root[v.file].name = nm /\ v.offset = 0
    BY ONLY <1>4, <1>6
  <2>3. PICK t : t = [name |-> nm, offset |-> 0]
    OBVIOUS
  <2>4. t = IF v.open THEN [name |-> root[v.file].name, offset |-> v.offset]
            ELSE [name |-> NoName, offset |-> 0]
    BY ONLY <2>2, <2>3
  <2>5. Assigned(fd, fd', n, v)
    BY ONLY <2>1 DEF Assigned
  <2>6. Assigned(TableOf(root, fd), TableOf(root, fd'), n, t)
    BY ONLY <1>4, <2>4, <2>5, TableSet, n \in Fd
  <2> QED
    BY ONLY <1>2, <2>3, <2>6 DEF Assigned
<1>10. TableOf(root, fd)[n] = [name |-> NoName, offset |-> 0]
  BY <1>5 DEF TableOf
<1>11. Abstract!OpenFile(nm, n)
  BY ONLY <1>7, <1>8, <1>9, <1>10 DEF Abstract!OpenFile, Abstract!Closed, TableOf
<1>12. NamesDiffer'
  BY <1>2 DEF NamesDiffer
<1> QED
  BY <1>2, <1>11, <1>12, IsUpdate DEF Refines

(* The table names the file of an open descriptor. *)
LEMMA OpenOne ==
  ASSUME FsIInv, NEW d \in Fd, fd[d].open
  PROVE  /\ TableOf(root, fd)[d] # NoFile
         /\ TableOf(root, fd)[d].name = root[fd[d].file].name
         /\ TableOf(root, fd)[d].offset = fd[d].offset
         /\ fd \in Fds /\ root \in Roots /\ fd[d].file \in UsedEntries(root)
         /\ fd[d].offset \in Nat /\ root[fd[d].file].size \in Nat
         /\ fd[d].offset <= root[fd[d].file].size
<1>1. root[fd[d].file].name # NoName /\ fd[d].offset <= root[fd[d].file].size
  BY DEF FsIInv, Descriptors
<1>2. fd \in Fds /\ root \in Roots
  BY DEF FsIInv, Types
<1>3. PICK e \in Entry : e = fd[d].file
  BY <1>2 DEF Fds
<1>4. fd[d].offset \in Nat
  BY <1>2, Sizes DEF Fds
<1>5. root[e].size \in Nat
  BY <1>2, Sizes DEF Roots
<1>6. /\ TableOf(root, fd)[d] # NoFile
      /\ TableOf(root, fd)[d].name = root[fd[d].file].name
      /\ TableOf(root, fd)[d].offset = fd[d].offset
  <2>1. PICK r, g : r = root /\ g = fd
    OBVIOUS
  <2>2. g[d].open /\ r[g[d].file].name # NoName
    BY <1>1, <2>1
  <2>3. /\ TableOf(r, g)[d] # NoFile
        /\ TableOf(r, g)[d].name = r[g[d].file].name
        /\ TableOf(r, g)[d].offset = g[d].offset
    BY ONLY <2>2, TableAt, d \in Fd
  <2> QED
    BY ONLY <2>1, <2>3
<1>7. e \in UsedEntries(root)
  BY <1>1, <1>3 DEF UsedEntries
<1> QED
  BY ONLY <1>1, <1>2, <1>3, <1>4, <1>5, <1>6, <1>7

(* fs_close() (fs.c:461-476). *)
LEMMA CloseRefines ==
  ASSUME FsIInv, NamesDiffer, NEW n \in Fd, Close(n)
  PROVE  Refines
<1>1. /\ mounted /\ fd[n].open /\ fd' = [fd EXCEPT ![n] = ClosedFd] /\ dRoot' = dRoot
      /\ dData' = dData /\ root' = root /\ fat' = fat /\ mounted' = mounted /\ got' = <<>>
  BY DEF Close, Ready, FdCheck, diskVars, Quiet
<1>2. Files' = Files
  BY <1>1, FilesNow
<1>3. TableOf(root, fd)[n] # NoFile /\ fd \in Fds
  BY <1>1, OpenOne
<1>4. TableOf(root', fd') = [TableOf(root, fd) EXCEPT ![n] = [name |-> NoName, offset |-> 0]]
  <2>1. ClosedFd.open = FALSE
    BY DEF ClosedFd
  <2>2. PICK t : t = [name |-> NoName, offset |-> 0]
    OBVIOUS
  <2>3. t = IF ClosedFd.open
            THEN [name |-> root[ClosedFd.file].name, offset |-> ClosedFd.offset]
            ELSE [name |-> NoName, offset |-> 0]
    BY ONLY <2>1, <2>2
  <2>4. Assigned(fd, fd', n, ClosedFd)
    BY ONLY <1>1 DEF Assigned
  <2>5. Assigned(TableOf(root, fd), TableOf(root, fd'), n, t)
    BY ONLY <1>3, <2>3, <2>4, TableSet, n \in Fd
  <2> QED
    BY ONLY <1>1, <2>2, <2>5 DEF Assigned
<1>5. Abstract!CloseFile(n)
  BY ONLY <1>2, <1>3, <1>4 DEF Abstract!CloseFile, Abstract!Closed, TableOf, NoFile
<1>6. NamesDiffer'
  BY <1>1 DEF NamesDiffer
<1> QED
  BY <1>1, <1>5, <1>6, IsUpdate DEF Refines

(* The content of the file of an open descriptor. *)
LEMMA OpenContent ==
  ASSUME FsIInv, NamesDiffer, mounted, NEW d \in Fd, fd[d].open,
         NEW ch, Whole(root, fat, ch)
  PROVE  /\ Files[root[fd[d].file].name]
              = Content(root[fd[d].file].size, ch[fd[d].file], dData)
         /\ Len(Files[root[fd[d].file].name]) = root[fd[d].file].size
         /\ Files[root[fd[d].file].name] \in Seq(Byte \cup {Zero})
<1>1. PICK e \in UsedEntries(root) : e = fd[d].file
  BY OpenOne
<1>2. Files[root[e].name] = Content(root[e].size, ch[e], dData)
  <2>1. Holds(Files, root, ch, dData)
    BY FilesHold DEF NamesDiffer
  <2> QED
    BY <2>1 DEF Holds
<1>3. e \in Entry /\ root[e].name # NoName
  BY DEF UsedEntries
<1>4. PICK z \in Nat : z = root[e].size
  BY <1>1, OpenOne
<1>5. PICK c \in Seq(Index) : c = ch[e]
  BY <1>3, ChainFacts
<1>6. Fits(z, Len(c))
  BY <1>3, <1>4, <1>5 DEF Whole, Chained
<1>7. dData \in [Index -> [1 .. BlockSize -> Byte \cup {Zero}]]
  BY DEF FsIInv, Types
<1>8. Content(z, c, dData) \in Seq(Byte \cup {Zero}) /\ Len(Content(z, c, dData)) = z
  BY ONLY <1>6, <1>7, ContentTyped, z \in Nat, c \in Seq(Index)
<1> QED
  BY ONLY <1>1, <1>2, <1>4, <1>5, <1>8

(* fs_lseek() (fs.c:489-505). *)
LEMMA LseekRefines ==
  ASSUME FsIInv, NamesDiffer, NEW n \in Fd, NEW o \in Nat, Lseek(n, o)
  PROVE  Refines
<1>1. /\ mounted /\ fd[n].open /\ fd' = [fd EXCEPT ![n].offset = o] /\ dRoot' = dRoot
      /\ dData' = dData /\ root' = root /\ fat' = fat /\ mounted' = mounted /\ got' = <<>>
      /\ o <= root[fd[n].file].size
  BY DEF Lseek, Ready, FdCheck, diskVars, Quiet, Size
<1>2. Files' = Files
  BY <1>1, FilesNow
<1>3. /\ TableOf(root, fd)[n] # NoFile /\ fd \in Fds
      /\ TableOf(root, fd)[n].name = root[fd[n].file].name
  BY <1>1, OpenOne
<1>4. TableOf(root', fd') = [TableOf(root, fd) EXCEPT ![n].offset = o]
  <2>1. Moved(fd, fd', n, o) /\ \A x \in Entry : root[x].name = root[x].name
    BY ONLY <1>1 DEF Moved
  <2>2. Moved(TableOf(root, fd), TableOf(root, fd'), n, o)
    BY ONLY <1>1, <1>3, <2>1, TableMoves, n \in Fd
  <2> QED
    BY ONLY <1>1, <2>2 DEF Moved
<1>5. o \in 0 .. Len(Files[TableOf(root, fd)[n].name])
  <2>1. PICK ch : Whole(root, fat, ch)
    BY DEF FsIInv, Memory
  <2>2. Len(Files[root[fd[n].file].name]) = root[fd[n].file].size
    BY <1>1, <2>1, OpenContent
  <2>3. root[fd[n].file].size \in Nat
    BY <1>1, OpenOne
  <2> QED
    BY <1>1, <1>3, <2>2, <2>3
<1>6. Abstract!Seek(n)
  BY ONLY <1>2, <1>3, <1>4, <1>5 DEF Abstract!Seek, Abstract!Closed, TableOf, NoFile
<1>7. NamesDiffer'
  BY <1>1 DEF NamesDiffer
<1> QED
  BY <1>1, <1>6, <1>7, IsUpdate DEF Refines

(* fs_write() up to its loop (fs.c:507-536). *)
LEMMA WriteStartRefines ==
  ASSUME FsIInv, NamesDiffer, NEW n, NEW buf \in Seq(Byte), WriteStart(n, buf)
  PROVE  Refines
<1>1. PICK ch, cg : TakesBlock(ch, cg)
  BY WriteStartDoes
<1>2. /\ Whole(root, fat, ch) /\ Whole(root', fat', cg) /\ mounted /\ mounted'
      /\ \A x \in Entry : /\ root'[x].name = root[x].name /\ root'[x].size = root[x].size
                          /\ cg[x] = ch[x] \/ root[x].size = 0
  BY ONLY <1>1 DEF TakesBlock
<1>3. dRoot' = dRoot /\ dData' = dData /\ fd' = fd /\ got' = <<>>
  BY DEF WriteStart, diskVars, Quiet
<1>4. Named(root) /\ Named(root') /\ NamesDiffer'
  BY <1>2, <1>3, NamedKept DEF NamesDiffer
<1>5. Holds(Files, root, ch, dData) /\ Holds(Files', root', cg, dData)
  BY <1>2, <1>3, <1>4, FilesHold
<1>6. ASSUME NEW e \in UsedEntries(root)
      PROVE  Content(root'[e].size, cg[e], dData) = Content(root[e].size, ch[e], dData)
  <2>1. root'[e].size = root[e].size /\ (cg[e] = ch[e] \/ root[e].size = 0)
    BY <1>2 DEF UsedEntries
  <2>2. Content(0, cg[e], dData) = Content(0, ch[e], dData)
    BY DEF Content
  <2> QED
    BY ONLY <2>1, <2>2
<1>7. Files' = Files
  BY ONLY <1>2, <1>5, <1>6, SameFiles
<1>8. TableOf(root', fd') = TableOf(root, fd)
  <2>1. \A d \in Fd : fd[d].open => root'[fd[d].file].name = root[fd[d].file].name
    BY <1>2 DEF FsIInv, Types, Fds
  <2>2. TableOf(root', fd) = TableOf(root, fd)
    BY <2>1, TableSame
  <2> QED
    BY <1>3, <2>2
<1> QED
  BY <1>3, <1>4, <1>7, <1>8, IsStutter DEF Refines

(* A round of fs_write() (fs.c:537-571) writes bytes at the offset. *)
LEMMA WriteBlockRefines ==
  ASSUME FsIInv, NamesDiffer, WriteBlock
  PROVE  Refines
<1>1. PICK ch, cg, d, e, c, h, a, z, n, i, buf :
        WritesBlock(ch, cg, d, e, c, h, a, z, n, i, buf)
  BY WriteBlockDoes
<1>2. /\ Whole(root, fat, ch) /\ Whole(root', fat', cg) /\ mounted /\ mounted'
      /\ d \in Fd /\ fd[d].open /\ e \in Entry /\ e = fd[d].file /\ a \in Nat
      /\ a = fd[d].offset /\ buf \in Seq(Byte) /\ n \in Nat \ {0} /\ n <= Len(buf)
      /\ (a % BlockSize) + n <= BlockSize
      /\ fd' = [fd EXCEPT ![d].offset = a + n]
      /\ root' = [root EXCEPT ![e].size = Max({z, a + n})]
  BY ONLY <1>1, Zenon DEF WritesBlock
<1>3. dRoot' = dRoot /\ got' = <<>>
  BY DEF WriteBlock, Quiet
<1>4. /\ TableOf(root, fd)[d] # NoFile /\ fd \in Fds /\ root \in Roots
      /\ TableOf(root, fd)[d].name = root[e].name /\ TableOf(root, fd)[d].offset = a
  BY <1>2, OpenOne
<1>5. \A x \in Entry : root'[x].name = root[x].name
  BY ONLY <1>2, <1>4 DEF Roots
<1>6. Named(root) /\ Named(root') /\ NamesDiffer'
  BY <1>3, <1>5, NamedKept DEF NamesDiffer
<1>7. Holds(Files, root, ch, dData) /\ Holds(Files', root', cg, dData')
  BY <1>2, <1>6, FilesHold
<1>8. PICK bytes : bytes = SubSeq(buf, 1, n)
  OBVIOUS
<1>9. Files' = [Files EXCEPT ![root[e].name] = Abstract!Overwrite(@, a, bytes)]
  BY ONLY <1>1, <1>7, <1>8, FilesWritten, FsIInv
<1>10. bytes \in [1 .. n -> Byte] /\ Len(bytes) = n /\ n \in 1 .. BlockSize
  <2>1. Len(buf) \in Nat /\ \A k \in 1 .. Len(buf) : buf[k] \in Byte
    BY <1>2, LenProperties, ElementOfSeq
  <2>2. \A k \in 1 .. n : buf[k] \in Byte
    BY ONLY <1>2, <2>1
  <2>3. SubSeq(buf, 1, n) \in Seq(Byte) /\ Len(SubSeq(buf, 1, n)) = IF 1 <= n THEN n - 1 + 1 ELSE 0
    <3>1. 1 \in Int /\ n \in Int
      BY ONLY <1>2
    <3> QED
      BY ONLY <2>2, <3>1, SubSeqProperties
  <2>4. bytes \in Seq(Byte) /\ Len(bytes) = n
    BY ONLY <1>2, <1>8, <2>3
  <2>5. n \in 1 .. BlockSize
    <3>1. BlockSize \in Nat \ {0}
      BY Sizes
    <3>2. a % BlockSize \in 0 .. BlockSize - 1
      BY ONLY <1>2, <3>1, QuotientExists
    <3>3. PICK x \in Nat : x = a % BlockSize
      BY <3>1, <3>2
    <3> QED
      BY ONLY <1>2, <3>1, <3>3
  <2> QED
    BY ONLY <2>4, <2>5, LenProperties
<1>11. TableOf(root', fd') = [TableOf(root, fd) EXCEPT ![d].offset = a + n]
  <2>1. Moved(fd, fd', d, a + n)
    BY ONLY <1>2 DEF Moved
  <2>2. Moved(TableOf(root, fd), TableOf(root', fd'), d, a + n)
    BY ONLY <1>2, <1>4, <1>5, <2>1, TableMoves
  <2> QED
    BY ONLY <2>2 DEF Moved
<1>12. PICK T : T = TableOf(root, fd)
  OBVIOUS
<1>13. Abstract!WriteSome(d, bytes)
  <2>1. T = [x \in Fd |-> IF fd[x].open
                          THEN [name |-> root[fd[x].file].name, offset |-> fd[x].offset]
                          ELSE [name |-> NoName, offset |-> 0]]
    BY ONLY <1>12 DEF TableOf
  <2>2. TableOf(root', fd') = [x \in Fd |-> IF fd'[x].open
                          THEN [name |-> root'[fd'[x].file].name, offset |-> fd'[x].offset]
                          ELSE [name |-> NoName, offset |-> 0]]
    BY ONLY DEF TableOf
  <2>3. /\ T[d] # NoFile
        /\ Files' = [Files EXCEPT ![T[d].name] = Abstract!Overwrite(@, T[d].offset, bytes)]
    BY ONLY <1>4, <1>9, <1>12
  <2>4. TableOf(root', fd') = [T EXCEPT ![d].offset = @ + Len(bytes)]
    <3>1. [T EXCEPT ![d].offset = @ + Len(bytes)]
            = [T EXCEPT ![d].offset = T[d].offset + Len(bytes)]
      BY ONLY Zenon
    <3>2. T[d].offset + Len(bytes) = a + n
      BY ONLY <1>4, <1>10, <1>12
    <3> QED
      BY ONLY <1>11, <1>12, <3>1, <3>2
  <2> QED
    BY ONLY <2>1, <2>2, <2>3, <2>4 DEF Abstract!WriteSome, Abstract!Closed, NoFile
<1>14. bytes \in UNION {[1 .. k -> Byte] : k \in 1 .. BlockSize}
  BY ONLY <1>10
<1> QED
  BY <1>2, <1>3, <1>6, <1>13, <1>14, IsUpdate DEF Refines

(* The least of three numbers of which the third is not less than the      *)
(* second.                                                                 *)
LEMMA MinWithoutThird ==
  ASSUME NEW x \in Int, NEW y \in Int, NEW z \in Int, y <= z
  PROVE  Min({x, y, z}) = IF x <= y THEN x ELSE y
<1>1. CASE x <= y
  <2>1. x \in {x, y, z} /\ \A w \in {x, y, z} : x <= w
    BY <1>1
  <2> QED
    BY <1>1, <2>1 DEF Min
<1>2. CASE ~(x <= y)
  <2>1. y \in {x, y, z} /\ \A w \in {x, y, z} : y <= w
    BY <1>2
  <2> QED
    BY <1>2, <2>1 DEF Min
<1> QED
  BY <1>1, <1>2

(* How many of count bytes fs_read() takes at offset o of a file of size z *)
(* and l blocks: its loop makes l rounds, from the block of the offset on. *)
Taken(o, z, l, count) ==
  Max({0, Min({count, z - o, ((o \div BlockSize) + l) * BlockSize - o})})

(* How many bytes fs_read() takes: those up to the end of the file, which  *)
(* is not behind the end of its blocks.                                    *)
LEMMA ReadCountIs ==
  ASSUME NEW o \in Nat, NEW z \in Nat, o <= z, NEW l \in Nat, Fits(z, l), NEW count \in Nat
  PROVE  Taken(o, z, l, count) = IF o + count > z THEN z - o ELSE count
<1>1. PICK b \in Nat \ {0} : b = BlockSize
  BY Sizes
<1>2. PICK q \in Nat : q = o \div b
  BY QuotientExists
<1>3. z <= l * b
  BY <1>1 DEF Fits
<1>4. PICK m \in Nat : m = (q + l) * b /\ l * b <= m /\ l * b \in Nat
  <2>1. q + l \in Nat /\ l <= q + l
    OBVIOUS
  <2>2. (q + l) * b \in Nat /\ l * b <= (q + l) * b /\ l * b \in Nat
    BY ONLY <2>1, ProductGrows, l \in Nat, b \in Nat \ {0}
  <2> QED
    BY <2>2
<1>5. z <= m
  BY ONLY <1>3, <1>4, z \in Nat
<1>6. PICK y \in Nat : y = z - o
  OBVIOUS
<1>7. PICK w \in Int : w = m - o
  OBVIOUS
<1>8. y <= w
  BY ONLY <1>5, <1>6, <1>7, o \in Nat, z \in Nat, m \in Nat
<1>9. Min({count, y, w}) = IF count <= y THEN count ELSE y
  <2>1. count \in Int /\ y \in Int
    OBVIOUS
  <2> QED
    BY ONLY <1>8, <2>1, w \in Int, MinWithoutThird
<1>10. PICK k \in Nat : k = Min({count, y, w}) /\ k = IF o + count > z THEN z - o ELSE count
  BY ONLY <1>6, <1>9, o \in Nat, z \in Nat, count \in Nat, y \in Nat
<1>11. Max({0, k}) = k
  BY MaxOfTwo
<1> QED
  BY ONLY <1>1, <1>2, <1>4, <1>6, <1>7, <1>10, <1>11 DEF Taken

(* fs_read() (fs.c:578-626) gives the bytes from the offset on. *)
LEMMA ReadRefines ==
  ASSUME FsIInv, NamesDiffer, NEW n \in Fd, NEW count \in ReadCount, Read(n, count)
  PROVE  Refines
<1>0. count \in Nat
  BY FsAssumption
<1>1. /\ mounted /\ fd[n].open /\ dRoot' = dRoot /\ dData' = dData /\ root' = root
      /\ fat' = fat /\ mounted' = mounted
  BY DEF Read, Ready, FdCheck, diskVars
<1>2. PICK ch : Whole(root, fat, ch)
  BY DEF FsIInv, Memory
<1>3. /\ TableOf(root, fd)[n] # NoFile /\ fd \in Fds
      /\ TableOf(root, fd)[n].name = root[fd[n].file].name
      /\ TableOf(root, fd)[n].offset = fd[n].offset
  BY <1>1, OpenOne
<1>4. PICK e \in UsedEntries(root) : e = fd[n].file
  BY <1>1, OpenOne
<1>5. e \in Entry /\ root[e].name # NoName
  BY DEF UsedEntries
<1>6. PICK o \in Nat, z \in Nat : o = fd[n].offset /\ z = root[e].size /\ o <= z
  BY <1>1, <1>4, OpenOne
<1>7. PICK c \in Seq(Index) : c = ch[e]
  BY <1>2, <1>5, ChainFacts
<1>8. /\ Len(c) \in Nat /\ DOMAIN c = 1 .. Len(c) /\ Linked(c, fat, EOC)
      /\ Fits(z, Len(c)) /\ root[e].first = FirstOf(c, EOC) /\ Chain(fat, root[e].first) = c
  BY <1>2, <1>5, <1>6, <1>7, ChainFacts, ChainIs DEF Whole, Chained
<1>9. PICK p \in Seq(Byte \cup {Zero}) :
        p = Files[root[e].name] /\ p = Content(z, c, dData) /\ Len(p) = z
  BY <1>1, <1>2, <1>4, <1>6, <1>7, OpenContent
<1>10. PICK k \in Nat : /\ k = IF o + count > z THEN z - o ELSE count
                        /\ o + k = IF o + count > z THEN z ELSE o + count
                        /\ o + k <= z
  <2>1. CASE o + count > z
    <3>1. z - o \in Nat /\ o + (z - o) = z
      BY ONLY <1>6, o \in Nat, z \in Nat
    <3> QED
      BY ONLY <2>1, <3>1, z \in Nat
  <2>2. CASE ~(o + count > z)
    BY ONLY <1>0, <2>2, o \in Nat, z \in Nat
  <2> QED
    BY <2>1, <2>2
<1>11. Max({0, Min({count, z - o, (Hops(n) + Len(c)) * BlockSize - o})}) = k
  <2>1. Max({0, Min({count, z - o, ((o \div BlockSize) + Len(c)) * BlockSize - o})})
          = IF o + count > z THEN z - o ELSE count
    <3>1. PICK l \in Nat : l = Len(c)
      BY <1>8
    <3>2. o <= z /\ Fits(z, l)
      BY ONLY <1>6, <1>8, <3>1
    <3>3. Max({0, Min({count, z - o, ((o \div BlockSize) + l) * BlockSize - o})})
            = IF o + count > z THEN z - o ELSE count
      <4>1. Taken(o, z, l, count) = IF o + count > z THEN z - o ELSE count
        BY ONLY <1>0, <3>2, ReadCountIs, o \in Nat, z \in Nat, l \in Nat
      <4> QED
        BY ONLY <4>1 DEF Taken
    <3> QED
      BY ONLY <3>1, <3>3, Zenon
  <2>2. Hops(n) = o \div BlockSize
    BY <1>6 DEF Hops
  <2> QED
    BY ONLY <1>10, <2>1, <2>2
<1>12. /\ got' = [i \in 1 .. k |->
                    dData[Hop(root[e].first, (o + i - 1) \div BlockSize)]
                         [((o + i - 1) % BlockSize) + 1]]
       /\ fd' = [fd EXCEPT ![n].offset = o + k]
  <2>1. PICK m :
          m = Max({0, Min({count, root[fd[n].file].size - fd[n].offset,
                           (Hops(n) + Len(Chain(fat, root[fd[n].file].first))) * BlockSize
                              - fd[n].offset})})
    OBVIOUS
  <2>2. m = k
    BY ONLY <1>4, <1>6, <1>8, <1>11, <2>1
  <2>3. /\ got' = [i \in 1 .. m |->
                     dData[Hop(root[fd[n].file].first, (fd[n].offset + i - 1) \div BlockSize)]
                          [((fd[n].offset + i - 1) % BlockSize) + 1]]
        /\ fd' = [fd EXCEPT ![n].offset = fd[n].offset + m]
    BY ONLY <2>1, Read(n, count) DEF Read, ReadsFrom, BlockRead
  <2> QED
    BY ONLY <1>4, <1>6, <2>2, <2>3
<1>13. ASSUME NEW i \in 1 .. k
       PROVE  dData[Hop(root[e].first, (o + i - 1) \div BlockSize)]
                   [((o + i - 1) % BlockSize) + 1] = p[o + i]
  <2>1. PICK j \in 1 .. z : j = o + i
    <3>1. o + k <= z
      BY ONLY <1>10
    <3>2. o + i \in 1 .. z
      BY ONLY <3>1, i \in 1 .. k, k \in Nat, o \in Nat, z \in Nat
    <3> QED
      BY ONLY <3>2
  <2>2. o + i - 1 = j - 1
    BY ONLY <2>1
  <2>3. PICK q \in Nat : q = (j - 1) \div BlockSize /\ q + 1 \in 1 .. Len(c)
    BY ONLY <1>8, BlockOfByte, z \in Nat, j \in 1 .. z
  <2>4. c # <<>> /\ root[e].first = c[1]
    <3>1. c # <<>>
      <4>1. Len(c) # 0
        <5>1. q + 1 \notin 1 .. 0
          BY ONLY q \in Nat
        <5> QED
          BY ONLY <2>3, <5>1
      <4> QED
        BY ONLY <4>1, EmptySeq, c \in Seq(Index)
    <3> QED
      BY ONLY <1>8, <3>1 DEF FirstOf
  <2>5. Hop(c[1], q) = c[q + 1]
    <3>1. q \in 0 .. Len(c) /\ q # Len(c)
      BY ONLY <1>8, <2>3, q \in Nat
    <3>2. Types
      BY DEF FsIInv
    <3> QED
      BY ONLY <1>8, <2>4, <3>1, <3>2, HopIs, c \in Seq(Index)
  <2>6. p[j] = ByteAt(c, dData, j)
    BY ONLY <1>9, j \in 1 .. z DEF Content
  <2> QED
    BY ONLY <2>1, <2>2, <2>3, <2>4, <2>5, <2>6 DEF ByteAt
<1>14. got' = SubSeq(p, o + 1, o + k)
  <2>1. \A x \in 1 .. Len(p) : p[x] \in Byte \cup {Zero}
    BY ElementOfSeq
  <2>2. \A x \in o + 1 .. o + k : p[x] \in Byte \cup {Zero}
    BY ONLY <1>9, <1>10, <2>1, o \in Nat, k \in Nat, z \in Nat
  <2>3. PICK s : s = SubSeq(p, o + 1, o + k)
    OBVIOUS
  <2>4. /\ s \in Seq(Byte \cup {Zero})
        /\ Len(s) = IF o + 1 <= o + k THEN o + k - (o + 1) + 1 ELSE 0
        /\ \A i \in 1 .. o + k - (o + 1) + 1 : s[i] = p[o + 1 + i - 1]
    <3>1. o + 1 \in Int /\ o + k \in Int
      OBVIOUS
    <3> QED
      BY ONLY <2>2, <2>3, <3>1, SubSeqProperties
  <2>5. Len(s) = k
    BY ONLY <2>4, o \in Nat, k \in Nat
  <2>6. ASSUME NEW i \in 1 .. k PROVE s[i] = p[o + i]
    <3>1. i \in 1 .. o + k - (o + 1) + 1 /\ o + 1 + i - 1 = o + i
      BY ONLY i \in 1 .. k, o \in Nat, k \in Nat
    <3> QED
      BY ONLY <2>4, <3>1
  <2>7. s = [i \in 1 .. k |-> s[i]]
    BY ONLY <2>4, <2>5
  <2>8. got' = [i \in 1 .. k |-> p[o + i]]
    BY ONLY <1>12, <1>13
  <2>9. [i \in 1 .. k |-> p[o + i]] = [i \in 1 .. k |-> s[i]]
    BY ONLY <2>6
  <2> QED
    BY ONLY <2>3, <2>7, <2>8, <2>9
<1>15. Files' = Files
  BY <1>1, FilesNow
<1>16. TableOf(root', fd') = [TableOf(root, fd) EXCEPT ![n].offset = o + k]
  <2>1. Moved(fd, fd', n, o + k) /\ \A x \in Entry : root[x].name = root[x].name
    BY ONLY <1>12 DEF Moved
  <2>2. Moved(TableOf(root, fd), TableOf(root, fd'), n, o + k)
    BY ONLY <1>1, <1>3, <2>1, TableMoves, n \in Fd
  <2> QED
    BY ONLY <1>1, <2>2 DEF Moved
<1>17. Abstract!ReadSome(n)
  <2>1. PICK T : T = TableOf(root, fd)
    OBVIOUS
  <2>2. T = [x \in Fd |-> IF fd[x].open
                          THEN [name |-> root[fd[x].file].name, offset |-> fd[x].offset]
                          ELSE [name |-> NoName, offset |-> 0]]
    BY ONLY <2>1 DEF TableOf
  <2>3. TableOf(root', fd') = [x \in Fd |-> IF fd'[x].open
                          THEN [name |-> root'[fd'[x].file].name, offset |-> fd'[x].offset]
                          ELSE [name |-> NoName, offset |-> 0]]
    BY ONLY DEF TableOf
  <2>4. T[n] # NoFile /\ Files[T[n].name] = p /\ T[n].offset = o /\ Len(p) = z
    BY ONLY <1>3, <1>4, <1>6, <1>9, <2>1
  <2>5. PICK end : end = o + k /\ end = IF o + count > Len(p) THEN Len(p) ELSE o + count
    BY ONLY <1>10, <2>4
  <2>6. /\ got' = SubSeq(p, o + 1, end)
        /\ TableOf(root', fd') = [T EXCEPT ![n].offset = end]
    BY ONLY <1>14, <1>16, <2>1, <2>5
  <2> QED
    BY ONLY <1>15, <2>2, <2>3, <2>4, <2>5, <2>6, count \in ReadCount
       DEF Abstract!ReadSome, Abstract!Closed, NoFile
<1>18. NamesDiffer'
  BY <1>1 DEF NamesDiffer
<1> QED
  BY <1>17, <1>18 DEF Refines, Abstract!FilesNext

(* The end of fs_write(). *)
LEMMA WriteEndRefines ==
  ASSUME FsIInv, NamesDiffer, WriteEnd
  PROVE  Refines
<1>1. mounted
  BY CallKinds DEF FsIInv, WriteEnd
<1> QED
  BY <1>1, NothingMoves DEF WriteEnd, diskVars, Quiet

(* Every step of fs.c is a step of AbstractFs, or changes nothing of it.   *)
LEMMA FsRefines ==
  FsIInv /\ NamesDiffer /\ Careful /\ Crashes = FALSE /\ [FsNext]_fsVars =>
    NamesDiffer' /\ [Abstract!FilesNext]_(Abstract!absFsVars)
<1>1. SUFFICES ASSUME FsIInv, NamesDiffer, Careful, Crashes = FALSE, [FsNext]_fsVars
               PROVE  NamesDiffer' /\ [Abstract!FilesNext]_(Abstract!absFsVars)
  OBVIOUS
<1>2. CASE UNCHANGED fsVars
  <2>1. /\ dRoot' = dRoot /\ dFat' = dFat /\ dData' = dData /\ root' = root /\ fat' = fat
        /\ fd' = fd /\ mounted' = mounted /\ got' = got
    BY <1>2 DEF fsVars
  <2>2. Files' = Files
    BY <2>1, FilesNow
  <2>3. UNCHANGED Abstract!absFsVars
    BY <2>1, <2>2 DEF Abstract!absFsVars
  <2>4. NamesDiffer'
    BY <1>1, <2>1 DEF NamesDiffer
  <2> QED
    BY <2>3, <2>4
<1>3. CASE FsNext
  <2>1. ASSUME Mount PROVE Refines
    BY <1>1, <2>1, MountRefines
  <2>2. ASSUME Umount \/ UmountFat \/ UmountEnd \/ ProcessEnds PROVE Refines
    BY <1>1, <2>2, UmountRefines, Crashes = FALSE
  <2>3. ASSUME NEW f \in Name, Create(f) \/ Delete(f) \/ Open(f) PROVE Refines
    BY <1>1, <2>3, CreateRefines, DeleteRefines, OpenRefines
  <2>4. ASSUME NEW d \in Fd, Close(d) PROVE Refines
    BY <1>1, <2>4, CloseRefines
  <2>5. ASSUME NEW d \in Fd, NEW o \in 0 .. BlockSize * DataCount, Lseek(d, o) PROVE Refines
    <3>1. o \in Nat
      OBVIOUS
    <3> QED
      BY <1>1, <2>5, <3>1, LseekRefines
  <2>6. ASSUME NEW d \in Fd, NEW buf \in Buffer, WriteStart(d, buf) PROVE Refines
    <3>1. buf \in Seq(Byte)
      BY FsAssumption
    <3> QED
      BY <1>1, <2>6, <3>1, WriteStartRefines
  <2>7. ASSUME NEW d \in Fd, NEW n \in ReadCount, Read(d, n) PROVE Refines
    BY <1>1, <2>7, ReadRefines
  <2>8. ASSUME WriteBlock PROVE Refines
    BY <1>1, <2>8, WriteBlockRefines
  <2>9. ASSUME WriteEnd PROVE Refines
    BY <1>1, <2>9, WriteEndRefines
  <2>10. Refines
    BY ONLY <1>3, <2>1, <2>2, <2>3, <2>4, <2>5, <2>6, <2>7, <2>8, <2>9 DEF FsNext
  <2> QED
    BY <2>10 DEF Refines
<1> QED
  BY <1>1, <1>2, <1>3

(* A formatted disk holds no files, and no descriptor is open. *)
LEMMA FsBeginsEmpty == FsInit => NamesDiffer /\ Abstract!FilesInit
<1>1. SUFFICES ASSUME FsInit PROVE NamesDiffer /\ Abstract!FilesInit
  OBVIOUS
<1>2. /\ dRoot = EmptyRoot /\ root = EmptyRoot /\ mounted = FALSE /\ got = <<>>
      /\ fd = [d \in Fd |-> ClosedFd]
  BY <1>1 DEF FsInit
<1>3. Files = [f \in {} |-> <<>>]
  <2>1. UsedEntries(EmptyRoot) = {}
    BY DEF UsedEntries, EmptyRoot, FreeEntry
  <2>2. {EmptyRoot[e].name : e \in UsedEntries(EmptyRoot)} = {}
    BY <2>1
  <2>3. Holds(Files, EmptyRoot, [e \in Entry |-> <<>>], dData)
    <3>1. Files = FilesOf(EmptyRoot, EmptyFat, dData)
      BY <1>1, <1>2, FilesNow DEF FsInit
    <3> QED
      BY <3>1, EmptyIsWhole, NamedEmpty, FilesOfHolds
  <2>4. Files = [f \in {} |-> Files[f]]
    BY ONLY <2>2, <2>3 DEF Holds, Names
  <2> QED
    BY ONLY <2>4
<1>4. TableOf(root, fd) = Unused
  <2>1. \A d \in Fd : ~fd[d].open
    BY <1>2 DEF ClosedFd
  <2> QED
    BY <2>1, TableUnused
<1>5. Abstract!FilesInit
  BY ONLY <1>2, <1>3, <1>4 DEF Abstract!FilesInit, Abstract!Closed, TableOf, Unused, NoFile
<1>6. NamesDiffer
  BY <1>2, NamedEmpty DEF NamesDiffer
<1> QED
  BY <1>5, <1>6

(* fs.c is the file system of fs.h, mounted or not: as long as clients do  *)
(* not delete open files and the process is not killed, every call does to *)
(* the files and the descriptors what AbstractFs says, and fs_read() gives *)
(* the bytes that were written there last.                                 *)
THEOREM FilesImplemented == Careful /\ Crashes = FALSE => (FsSpec => ImplementsFiles)
<1>1. Careful /\ Crashes = FALSE => (Careful /\ Crashes = FALSE)'
  BY DEF Careful
<1>2. Careful => (FsSpec => []FsIInv)
  BY FsInvariant
<1>3. FsInit => NamesDiffer /\ Abstract!FilesInit
  BY FsBeginsEmpty
<1>4. FsIInv /\ NamesDiffer /\ Careful /\ Crashes = FALSE /\ [FsNext]_fsVars =>
        NamesDiffer' /\ [Abstract!FilesNext]_(Abstract!absFsVars)
  BY FsRefines
<1> QED
  BY <1>1, <1>2, <1>3, <1>4, PTL DEF FsSpec, ImplementsFiles, Abstract!FilesSpec

-----------------------------------------------------------------------------
(* The processes of test_fs.c. *)

(* What is still to call ends with fs_umount(), or with the die() after an *)
(* error; cat asks for the size before anything is changed, and a process  *)
(* that has nothing left to call has left nothing in memory alone.         *)
Program ==
  /\ running \in BOOLEAN /\ (~running => ~mounted)
  /\ todo \in Seq(Calls \cup {Op("die")})
  /\ todo # <<>> => todo[Len(todo)].op \in {"umount", "die"}
Measures(calls) ==
  \A k \in DOMAIN calls :
    calls[k].op = "size" => \A j \in 1 .. k : calls[j].op \notin Changing
Same == mounted => dRoot = root /\ dFat = fat
Sizing ==
  /\ Measures(todo)
  /\ \A k \in DOMAIN todo : todo[k].op = "size" => call.op # "write" /\ Same
Last ==
  /\ call.op = "write" => todo # <<>>
  /\ running /\ todo = <<>> /\ call = NoCall => Same

(* What the calls made is in memory, or on the disk while none is mounted. *)
Made == made = IF mounted THEN <<root, fat, dData>> ELSE <<dRoot, dFat, dData>>

ToolIInv == FsIInv /\ Program /\ Sizing /\ Last /\ Made

(* The rest of what is to call. *)
LEMMA TailOf ==
  ASSUME NEW S, NEW s \in Seq(S), s # <<>>
  PROVE  /\ Head(s) = s[1] /\ Head(s) \in S /\ Tail(s) \in Seq(S) /\ 1 \in DOMAIN s
         /\ \A k \in DOMAIN Tail(s) : Tail(s)[k] = s[k + 1] /\ k + 1 \in DOMAIN s
         /\ Tail(s) # <<>> => Tail(s)[Len(Tail(s))] = s[Len(s)]
         /\ Tail(s) = <<>> => s[Len(s)] = s[1]
<1>1. Len(s) \in Nat /\ DOMAIN s = 1 .. Len(s) /\ \A k \in 1 .. Len(s) : s[k] \in S
  BY LenProperties, ElementOfSeq
<1>2. Len(s) # 0
  BY EmptySeq
<1>3. /\ Head(s) = s[1] /\ Tail(s) \in Seq(S) /\ Len(Tail(s)) = Len(s) - 1
      /\ \A k \in 1 .. Len(s) - 1 : Tail(s)[k] = s[k + 1]
  <2>1. /\ Tail(s) \in Seq(S) /\ Len(Tail(s)) = Len(s) - 1
        /\ \A k \in 1 .. Len(Tail(s)) : Tail(s)[k] = s[k + 1]
    BY HeadTailProperties
  <2>2. Head(s) = s[1]
    BY SMT
  <2> QED
    BY <2>1, <2>2
<1>4. DOMAIN Tail(s) = 1 .. Len(s) - 1
  BY <1>3, LenProperties
<1>5. 1 \in DOMAIN s /\ \A k \in 1 .. Len(s) - 1 : k + 1 \in 1 .. Len(s)
  BY <1>1, <1>2
<1>6. Tail(s) # <<>> => Len(s) - 1 \in 1 .. Len(s) - 1
  BY <1>1, <1>2, <1>3, EmptySeq
<1>7. Tail(s) = <<>> => Len(s) = 1
  <2>1. SUFFICES ASSUME Tail(s) = <<>> PROVE Len(s) = 1
    OBVIOUS
  <2>2. Len(Tail(s)) = 0
    BY <1>3, <2>1, EmptySeq
  <2> QED
    BY ONLY <1>1, <1>3, <2>2
<1> QED
  BY <1>1, <1>3, <1>4, <1>5, <1>6, <1>7

(* Before a process there is nothing to lose. *)
LEMMA ToolBegins == ToolInit => ToolIInv
<1>1. SUFFICES ASSUME ToolInit PROVE ToolIInv
  OBVIOUS
<1>2. /\ FsIInv /\ todo = <<>> /\ running = FALSE /\ mounted = FALSE /\ call = NoCall
  BY <1>1, FsBegins DEF ToolInit, FsInit
<1>3. todo \in Seq(Calls \cup {Op("die")}) /\ DOMAIN todo = {}
  BY <1>2, EmptySeq
<1>4. Program
  BY <1>2, <1>3 DEF Program
<1>5. Sizing /\ Last
  BY <1>2, <1>3 DEF Sizing, Measures, Last, NoCall
<1>6. Made
  BY <1>1, <1>2 DEF ToolInit, Made, diskVars
<1> QED
  BY <1>2, <1>4, <1>5, <1>6 DEF ToolIInv

(* A call of the tool is a call of fs.c, or changes nothing. *)
LEMMA MakesStep ==
  ASSUME FsIInv, Careful, NEW c \in Calls \cup {Op("die")}, Makes(c)
  PROVE  FsIInv'
<1>1. /\ c.op \in {"create", "delete", "open"} => c.file \in Name
      /\ c.op = "seek" => c.offset \in Nat
      /\ c.op = "write" => c.buf \in Seq(Byte)
  BY DEF Calls, Op
<1>2. CASE c.op = "mount" /\ Mount
  BY <1>2, MountStep
<1>3. CASE c.op = "create" /\ Create(c.file)
  BY <1>1, <1>3, CreateStep
<1>4. CASE c.op = "delete" /\ Delete(c.file)
  BY <1>1, <1>4, DeleteDoes
<1>5. CASE c.op = "open" /\ Open(c.file)
  BY <1>1, <1>5, OpenStep
<1>6. CASE c.op = "close" /\ Close(fsFd)
  BY <1>6, CloseStep
<1>7. CASE c.op = "seek" /\ Lseek(fsFd, c.offset)
  BY <1>1, <1>7, LseekStep
<1>8. CASE c.op = "write" /\ WriteStart(fsFd, c.buf)
  BY <1>1, <1>8, WriteStartDoes
<1>9. CASE c.op = "read" /\ Read(fsFd, Size(fsFd))
  <2>1. Size(fsFd) \in Nat
    <3>1. fsFd \in Fd
      BY <1>9 DEF Read, FdCheck
    <3>2. root \in Roots /\ fd \in Fds
      BY DEF FsIInv, Types
    <3>3. root[fd[fsFd].file].size \in 0 .. BlockSize * DataCount
      BY <3>1, <3>2 DEF Roots, Fds
    <3> QED
      BY <3>3, Sizes DEF Size
  <2> QED
    BY <1>9, <2>1, ReadStep
<1>10. CASE c.op = "umount" /\ mounted /\ Umount
  BY <1>10, UmountStep
<1>11. CASE UNCHANGED fsVars
  BY <1>11, FsStutter
<1> QED
  BY <1>2, <1>3, <1>4, <1>5, <1>6, <1>7, <1>8, <1>9, <1>10, <1>11 DEF Makes

(* What a call begins, and that only some calls change the memory alone. *)
LEMMA MakesKinds ==
  ASSUME call = NoCall, NEW c, Makes(c)
  PROVE  /\ c.op # "write" => call'.op # "write"
         /\ c.op = "umount" => call' # NoCall \/ ~mounted'
         /\ c.op # "die"
         /\ c.op \notin Changing /\ Same => Same'
<1>1. call.op = "none"
  BY DEF NoCall
<1>2. CASE c.op = "mount" /\ Mount
  BY <1>1, <1>2 DEF Mount, diskVars, Same
<1>3. CASE c.op = "create" /\ Create(c.file)
  BY <1>1, <1>3 DEF Create, Changing
<1>12. CASE c.op = "delete" /\ Delete(c.file)
  BY <1>1, <1>12 DEF Delete, Changing
<1>4. CASE c.op = "open" /\ Open(c.file)
  BY <1>1, <1>4 DEF Open, diskVars, Same
<1>5. CASE c.op = "close" /\ Close(fsFd)
  BY <1>1, <1>5 DEF Close, diskVars, Same
<1>6. CASE c.op = "seek" /\ Lseek(fsFd, c.offset)
  BY <1>1, <1>6 DEF Lseek, diskVars, Same
<1>7. CASE c.op = "write" /\ WriteStart(fsFd, c.buf)
  BY <1>7 DEF Changing
<1>8. CASE c.op = "read" /\ Read(fsFd, Size(fsFd))
  BY <1>1, <1>8 DEF Read, diskVars, Same
<1>9. CASE c.op = "umount" /\ mounted /\ Umount
  <2>1. /\ call'.op = "umount" /\ mounted' = mounted /\ dRoot' = root /\ root' = root
        /\ dFat' = dFat /\ fat' = fat
    BY <1>9 DEF Umount, WrittenFirst
  <2>2. call' # NoCall
    BY <2>1 DEF NoCall
  <2> QED
    BY <1>9, <2>1, <2>2 DEF Same
<1>10. CASE c.op = "umount" /\ ~mounted /\ UNCHANGED fsVars
  BY <1>1, <1>10 DEF fsVars, Same
<1>11. CASE c.op \in {"info", "size", "stat"} /\ UNCHANGED fsVars
  BY <1>1, <1>11 DEF fsVars, Same
<1> QED
  BY <1>2, <1>3, <1>4, <1>5, <1>6, <1>7, <1>8, <1>9, <1>10, <1>11, <1>12 DEF Makes

(* A call leaves a file system mounted, or changes nothing. *)
LEMMA MakesMounted ==
  ASSUME NEW c, Makes(c), ~mounted'
  PROVE  ~mounted /\ UNCHANGED <<dRoot, dFat, dData>>
<1>1. CASE c.op = "mount" /\ Mount
  BY <1>1 DEF Mount, BlockDiskOpen
<1>2. CASE c.op = "create" /\ Create(c.file)
  BY <1>2 DEF Create, Ready
<1>3. CASE c.op = "delete" /\ Delete(c.file)
  BY <1>3 DEF Delete, Ready
<1>4. CASE c.op = "open" /\ Open(c.file)
  BY <1>4 DEF Open, Ready
<1>5. CASE c.op = "close" /\ Close(fsFd)
  BY <1>5 DEF Close, Ready
<1>6. CASE c.op = "seek" /\ Lseek(fsFd, c.offset)
  BY <1>6 DEF Lseek, Ready
<1>7. CASE c.op = "write" /\ WriteStart(fsFd, c.buf)
  BY <1>7 DEF WriteStart, Ready
<1>8. CASE c.op = "read" /\ Read(fsFd, Size(fsFd))
  BY <1>8 DEF Read, Ready
<1>9. CASE c.op = "umount" /\ mounted /\ Umount
  BY <1>9 DEF Umount
<1>10. CASE UNCHANGED fsVars
  BY <1>10 DEF fsVars
<1> QED
  BY <1>1, <1>2, <1>3, <1>4, <1>5, <1>6, <1>7, <1>8, <1>9, <1>10 DEF Makes

(* A process starts with the disk unmounted. *)
LEMMA BeginStep ==
  ASSUME ToolIInv, Begin
  PROVE  ToolIInv'
<1>1. /\ ~running /\ todo' \in Invocations /\ running' = TRUE /\ UNCHANGED fsVars
      /\ FsIInv /\ Program /\ mounted' = mounted /\ call' = call
  BY DEF Begin, ToolIInv, fsVars
<1>2. ~mounted /\ call = NoCall
  BY <1>1, CallKinds DEF Program, FsIInv
<1>3. PICK s : s = todo'
  OBVIOUS
<1>4. /\ s \in Seq(Calls) /\ s # <<>> /\ s[Len(s)].op = "umount" /\ Measures(s)
  BY <1>1, <1>3, ToolAssumption DEF Measures
<1>5. s \in Seq(Calls \cup {Op("die")})
  <2>1. Calls \subseteq Calls \cup {Op("die")}
    OBVIOUS
  <2>2. PICK C, D : C = Calls /\ D = Calls \cup {Op("die")}
    OBVIOUS
  <2>3. s \in Seq(C) /\ C \subseteq D
    BY <1>4, <2>1, <2>2
  <2>4. s \in Seq(D)
    BY ONLY <2>3
  <2> QED
    BY <2>2, <2>4
<1>6. FsIInv'
  BY <1>1, FsStutter
<1>7. Program'
  BY <1>1, <1>3, <1>4, <1>5 DEF Program
<1>8. Sizing' /\ Last'
  BY <1>1, <1>2, <1>3, <1>4 DEF Sizing, Last, Measures, Same, NoCall
<1>9. Made'
  BY DEF Begin, ToolIInv, fsVars, Made
<1> QED
  BY <1>6, <1>7, <1>8, <1>9 DEF ToolIInv

(* A call without an error. *)
LEMMA CallStep ==
  ASSUME ToolIInv, Careful, Call
  PROVE  ToolIInv'
<1>1. /\ running /\ call = NoCall /\ todo # <<>> /\ Makes(Upcoming) /\ running' = running
      /\ todo' = IF Upcoming.op = "size" /\ Size(fsFd) = 0 THEN <<>> ELSE Tail(todo)
  BY DEF Call, Calling
<1>2. FsIInv /\ Program /\ Sizing /\ Last
  BY DEF ToolIInv
<1>3. PICK S : S = Calls \cup {Op("die")}
  OBVIOUS
<1>4. PICK s \in Seq(S) : s = todo /\ s # <<>>
  BY <1>1, <1>2, <1>3 DEF Program
<1>5. /\ Head(s) = s[1] /\ Head(s) \in S /\ Tail(s) \in Seq(S) /\ 1 \in DOMAIN s
      /\ \A k \in DOMAIN Tail(s) : Tail(s)[k] = s[k + 1] /\ k + 1 \in DOMAIN s
      /\ Tail(s) # <<>> => Tail(s)[Len(Tail(s))] = s[Len(s)]
      /\ Tail(s) = <<>> => s[Len(s)] = s[1]
  BY <1>4, TailOf
<1>6. PICK c \in S : c = Upcoming /\ c = s[1] /\ Makes(c)
  BY <1>1, <1>4, <1>5 DEF Upcoming
<1>7. FsIInv'
  BY <1>2, <1>3, <1>6, MakesStep
<1>8. /\ c.op # "write" => call'.op # "write"
      /\ c.op = "umount" => call' # NoCall \/ ~mounted'
      /\ c.op # "die"
      /\ c.op \notin Changing /\ Same => Same'
  BY <1>1, <1>6, MakesKinds
<1>9. /\ s[Len(s)].op \in {"umount", "die"} /\ Measures(s)
      /\ \A k \in DOMAIN s : s[k].op = "size" => c.op \notin Changing /\ Same
  <2>1. s[Len(s)].op \in {"umount", "die"} /\ Measures(s)
    BY <1>2, <1>4 DEF Program, Sizing
  <2>2. ASSUME NEW k \in DOMAIN s, s[k].op = "size" PROVE c.op \notin Changing /\ Same
    <3>1. k \in 1 .. Len(s) /\ Len(s) \in Nat
      BY LenProperties
    <3>2. 1 \in 1 .. k
      BY ONLY <3>1
    <3> QED
      BY <1>2, <1>4, <1>6, <2>1, <2>2, <3>2 DEF Measures, Sizing
  <2> QED
    BY <2>1, <2>2
<1>10. PICK t : t = todo' /\ (t = <<>> \/ t = Tail(s))
  BY <1>1, <1>4
<1>11. t \in Seq(S) /\ \A k \in DOMAIN t : t[k] = s[k + 1] /\ k + 1 \in DOMAIN s
       /\ (t # <<>> => t[Len(t)] = s[Len(s)])
  <2>1. CASE t = <<>>
    <3>1. t \in Seq(S) /\ DOMAIN t = {}
      BY <2>1, EmptySeq
    <3> QED
      BY <2>1, <3>1
  <2>2. CASE t = Tail(s)
    BY ONLY <1>5, <2>2
  <2> QED
    BY <1>10, <2>1, <2>2
<1>12. Program'
  BY <1>1, <1>2, <1>3, <1>9, <1>10, <1>11 DEF Program
<1>13. Measures(t)
  <2>1. SUFFICES ASSUME NEW k \in DOMAIN t, t[k].op = "size", NEW j \in 1 .. k
                 PROVE  t[j].op \notin Changing
    BY DEF Measures
  <2>2. Len(t) \in Nat /\ k \in 1 .. Len(t)
    BY <1>11, LenProperties
  <2>3. j \in 1 .. Len(t) /\ j + 1 \in 1 .. k + 1
    BY ONLY <2>2, j \in 1 .. k
  <2>4. j \in DOMAIN t
    BY <1>11, <2>3, LenProperties
  <2>5. /\ t[j] = s[j + 1] /\ k + 1 \in DOMAIN s /\ s[k + 1].op = "size"
    BY <1>11, <2>1, <2>4
  <2> QED
    BY <1>9, <2>3, <2>5 DEF Measures
<1>14. ASSUME NEW k \in DOMAIN t, t[k].op = "size" PROVE call'.op # "write" /\ Same'
  <2>1. c.op \notin Changing /\ Same
    BY <1>9, <1>11, <1>14
  <2> QED
    BY <1>8, <2>1 DEF Changing
<1>15. Sizing'
  BY <1>10, <1>13, <1>14 DEF Sizing
<1>16. ASSUME t = <<>>
       PROVE  \/ c.op = "size" /\ Same'
              \/ c.op = "umount"
  <2>1. CASE c.op = "size"
    <3>1. c.op \notin Changing
      BY <2>1 DEF Changing
    <3> QED
      BY <1>5, <1>6, <1>8, <1>9, <2>1, <3>1
  <2>2. CASE c.op # "size"
    <3>1. Tail(s) = <<>>
      BY <1>1, <1>4, <1>6, <1>10, <1>16, <2>2
    <3> QED
      BY <1>5, <1>6, <1>8, <1>9, <3>1
  <2> QED
    BY <2>1, <2>2
<1>17. Last'
  <2>1. call'.op = "write" => t # <<>>
    BY <1>8, <1>16
  <2>2. ASSUME t = <<>>, call' = NoCall PROVE Same'
    BY <1>8, <1>16, <2>2 DEF Same
  <2> QED
    BY <1>10, <2>1, <2>2 DEF Last
<1>18. Made'
  <2>1. made' = (IF mounted' THEN <<root', fat', dData'>> ELSE made) /\ Made
    BY DEF Call, Recorded, ToolIInv
  <2>2. ~mounted' => ~mounted /\ UNCHANGED <<dRoot, dFat, dData>>
    BY <1>6, MakesMounted
  <2> QED
    BY <2>1, <2>2 DEF Made
<1> QED
  BY <1>7, <1>12, <1>15, <1>17, <1>18 DEF ToolIInv

(* One call. *)
LEMMA OneCall ==
  ASSUME NEW S, NEW c \in S
  PROVE  /\ <<c>> \in Seq(S) /\ <<c>> # <<>> /\ Len(<<c>>) = 1 /\ <<c>>[1] = c
         /\ \A k \in DOMAIN <<c>> : <<c>>[k] = c
  OBVIOUS

(* What follows an error. *)
LEMMA ErrorStep ==
  ASSUME ToolIInv, Error
  PROVE  ToolIInv'
<1>1. /\ running /\ call = NoCall /\ running' = running /\ UNCHANGED fsVars
      /\ todo' = AfterError(Upcoming) /\ mounted' = mounted /\ call' = call
  BY DEF Error, Calling, fsVars
<1>2. FsIInv /\ Program
  BY DEF ToolIInv
<1>3. PICK c \in Calls \cup {Op("die")} : todo' = <<c>> /\ c.op \in {"umount", "die"}
  <2>1. Op("umount") \in Calls /\ Op("umount").op = "umount" /\ Op("die").op = "die"
    BY DEF Op, Calls
  <2> QED
    BY <1>1, <2>1 DEF AfterError
<1>4. PICK S : S = Calls \cup {Op("die")}
  OBVIOUS
<1>5. /\ <<c>> \in Seq(S) /\ <<c>> # <<>> /\ Len(<<c>>) = 1 /\ <<c>>[1] = c
      /\ \A k \in DOMAIN <<c>> : <<c>>[k] = c
  BY ONLY <1>4, OneCall, c \in Calls \cup {Op("die")}
<1>6. PICK s : s = <<c>>
  OBVIOUS
<1>7. todo' = s /\ s \in Seq(S) /\ s # <<>> /\ s[Len(s)].op \in {"umount", "die"}
      /\ \A k \in DOMAIN s : s[k].op # "size"
  BY <1>3, <1>5, <1>6
<1>8. FsIInv'
  BY <1>1, <1>2, FsStutter
<1>9. Program'
  BY <1>1, <1>2, <1>4, <1>7 DEF Program
<1>10. Sizing' /\ Last'
  BY <1>1, <1>7 DEF Sizing, Measures, Last
<1>11. Made'
  BY DEF Error, ToolIInv, fsVars, Made
<1> QED
  BY <1>8, <1>9, <1>10, <1>11 DEF ToolIInv

(* A round of a call. *)
LEMMA GoesOnStep ==
  ASSUME ToolIInv, CallGoesOn
  PROVE  ToolIInv'
<1>1. /\ running /\ todo' = todo /\ running' = running
      /\ UmountFat \/ UmountEnd \/ WriteBlock \/ WriteEnd
  BY DEF CallGoesOn
<1>2. FsIInv /\ Program /\ Sizing /\ Last /\ InCall /\ Types
  BY DEF ToolIInv, FsIInv
<1>3. FsIInv'
  BY <1>1, <1>2, CallGoesOnStep
<1>4. Program'
  BY <1>1, <1>2 DEF Program
<1>8. Made'
  <2>1. made' = (IF mounted' THEN <<root', fat', dData'>> ELSE made) /\ Made
    BY DEF CallGoesOn, Recorded, ToolIInv
  <2>2. CASE UmountEnd /\ ~mounted'
    <3>1. call.op = "umount" /\ call.block \notin FatBlock /\ UNCHANGED <<dRoot, dFat, dData>>
      BY <2>2 DEF UmountEnd, MemoryLost, diskVars
    <3>2. mounted /\ dRoot = root /\ dFat = fat
      BY <1>2, <3>1, CallKinds, FatIsWritten
    <3> QED
      BY <2>1, <2>2, <3>1, <3>2 DEF Made
  <2>3. CASE UmountFat \/ WriteBlock \/ WriteEnd
    <3>1. (call.op = "umount" \/ call.op = "write") /\ mounted' = mounted
      BY <2>3 DEF UmountFat, WriteBlock, WriteEnd
    <3>2. mounted
      BY <1>2, <3>1, CallKinds
    <3> QED
      BY <2>1, <3>1, <3>2 DEF Made
  <2>4. CASE mounted'
    BY <2>1, <2>4 DEF Made
  <2> QED
    BY <1>1, <2>2, <2>3, <2>4
<1>5. CASE UmountFat
  <2>1. /\ call.op = "umount" /\ call' = [call EXCEPT !.block = @ + 1]
        /\ dFat' = [i \in Index |-> IF i \div FatSize = call.block THEN fat[i] ELSE dFat[i]]
        /\ dRoot' = dRoot /\ root' = root /\ fat' = fat /\ mounted' = mounted
    BY <1>5 DEF UmountFat
  <2>2. call \in UmountCalls
    BY <1>2, <2>1, CallKinds
  <2>3. call'.op = "umount"
    BY <2>1, <2>2 DEF UmountCalls
  <2>4. call' # NoCall
    BY <2>3 DEF NoCall
  <2>5. Same => Same'
    <3>1. dFat = fat => dFat' = dFat
      BY <1>2, <2>1 DEF Types, Fats
    <3> QED
      BY <2>1, <3>1 DEF Same
  <2>6. Sizing'
    BY <1>1, <1>2, <2>3, <2>5 DEF Sizing
  <2>7. Last'
    BY <2>3, <2>4 DEF Last
  <2> QED
    BY <1>3, <1>4, <1>8, <2>6, <2>7 DEF ToolIInv
<1>6. CASE UmountEnd
  <2>1. \/ mounted' = FALSE /\ call' = NoCall
        \/ /\ call' = FreedCall
           /\ dRoot' = dRoot /\ dFat' = dFat /\ root' = root /\ fat' = fat /\ mounted' = mounted
    BY <1>6 DEF UmountEnd, MemoryLost, BlockDiskClose, diskVars, FreedCall
  <2>2. /\ call'.op # "write" /\ (call' = NoCall => mounted' = FALSE) /\ (Same => Same')
    BY <2>1 DEF NoCall, FreedCall, Same
  <2>3. Sizing' /\ Last'
    BY <1>1, <1>2, <2>2 DEF Sizing, Last, Same
  <2> QED
    BY <1>3, <1>4, <1>8, <2>3 DEF ToolIInv
<1>7. CASE WriteBlock \/ WriteEnd
  <2>1. call.op = "write"
    BY <1>7 DEF WriteBlock, WriteEnd
  <2>2. todo # <<>> /\ \A k \in DOMAIN todo : todo[k].op # "size"
    BY <1>2, <2>1 DEF Sizing, Last
  <2>3. Sizing' /\ Last'
    BY <1>1, <1>2, <2>2 DEF Sizing, Last
  <2> QED
    BY <1>3, <1>4, <1>8, <2>3 DEF ToolIInv
<1> QED
  BY <1>1, <1>5, <1>6, <1>7

(* The process is gone. *)
LEMMA GoneStep ==
  ASSUME ToolIInv, Gone, call.op # "umount"
  PROVE  ToolIInv'
<1>1. MemoryLost /\ todo' = <<>> /\ running' = FALSE /\ mounted' = FALSE /\ call' = NoCall
  BY DEF Gone, MemoryLost, BlockDiskClose
<1>2. FsIInv'
  BY <1>1, LostStep DEF ToolIInv
<1>3. todo' \in Seq(Calls \cup {Op("die")}) /\ DOMAIN todo' = {}
  BY <1>1, EmptySeq
<1>4. Program' /\ Sizing' /\ Last'
  BY <1>1, <1>3 DEF Program, Sizing, Measures, Last, NoCall
<1>5. Made'
  BY DEF Gone, MemoryLost, BlockDiskClose, diskVars, Made
<1> QED
  BY <1>2, <1>4, <1>5 DEF ToolIInv

(* Every step of the tool keeps the invariant. *)
LEMMA ToolStays == ToolIInv /\ Careful /\ [ToolNext]_toolVars => ToolIInv'
<1>1. SUFFICES ASSUME ToolIInv, Careful, [ToolNext]_toolVars PROVE ToolIInv'
  OBVIOUS
<1>2. CASE UNCHANGED toolVars
  <2>1. UNCHANGED fsVars /\ todo' = todo /\ running' = running /\ made' = made
    BY <1>2 DEF toolVars
  <2>2. /\ call' = call /\ mounted' = mounted /\ dRoot' = dRoot /\ dFat' = dFat
        /\ root' = root /\ fat' = fat /\ dData' = dData
    BY <2>1 DEF fsVars
  <2>3. FsIInv'
    BY <1>1, <2>1, FsStutter DEF ToolIInv
  <2>4. Program' /\ Sizing' /\ Last' /\ Made'
    BY <1>1, <2>1, <2>2 DEF ToolIInv, Program, Sizing, Last, Same, Made
  <2> QED
    BY <2>3, <2>4 DEF ToolIInv
<1>3. CASE Exit
  <2>1. call = NoCall \/ call.op = "freed"
    BY <1>3 DEF Exit, Ending, Calling
  <2>2. call.op # "umount"
    BY <2>1 DEF NoCall
  <2> QED
    BY <1>1, <1>3, <2>2, GoneStep DEF Exit
<1>4. CASE Killed
  BY <1>1, <1>4, GoneStep DEF Killed
<1> QED
  BY <1>1, <1>2, <1>3, <1>4, BeginStep, CallStep, ErrorStep, GoesOnStep DEF ToolNext, ToolStep

(* A process that ends by itself has unmounted the disk, which has written *)
(* what the calls made, or has in memory what is on the disk.              *)
LEMMA ToolLosesNothing == ToolIInv => NothingLost
<1>1. SUFFICES ASSUME ToolIInv, Ending PROVE <<dRoot, dFat, dData>> = made
  BY DEF NothingLost, diskVars
<1>2. Last /\ InCall /\ Made
  BY <1>1 DEF ToolIInv, FsIInv
<1>3. CASE ~mounted
  BY <1>2, <1>3 DEF Made
<1>4. CASE mounted
  <2>1. dRoot = root /\ dFat = fat
    <3>1. CASE running /\ todo = <<>> /\ call = NoCall
      BY <1>2, <1>4, <3>1 DEF Last, Same
    <3>2. CASE call.op = "freed"
      BY <1>2, <3>2, CallKinds
    <3> QED
      BY <1>1, <3>1, <3>2 DEF Ending
  <2> QED
    BY <1>2, <1>4, <2>1 DEF Made
<1> QED
  BY <1>3, <1>4

-----------------------------------------------------------------------------
(* The tool, started any number of times and killed or not. *)

(* Its inductive invariant. *)
THEOREM ToolInvariant == Careful => (ToolSpec => []ToolIInv)
<1>1. Careful => Careful'
  BY DEF Careful
<1> QED
  BY <1>1, ToolBegins, ToolStays, PTL DEF ToolSpec

(* The tool keeps the file system in memory and on the disk whole.         *)
THEOREM ToolKeepsWhole == Careful => (ToolSpec => [](FatIsPartition /\ DiskIsWhole))
<1>1. ToolIInv => FatIsPartition /\ DiskIsWhole
  BY FsConsequences DEF ToolIInv
<1> QED
  BY <1>1, ToolInvariant, PTL

(* A process of the tool that ends by itself leaves on the disk the        *)
(* directory, the FAT and the data that its calls made: after a            *)
(* successful fs_umount(), after an error and with files open; not after   *)
(* a second fs_mount(), whose die() is no such end.                        *)
THEOREM ToolWritesBack == Careful => (ToolSpec => []NothingLost)
  BY ToolInvariant, ToolLosesNothing, PTL

===============================================================================
