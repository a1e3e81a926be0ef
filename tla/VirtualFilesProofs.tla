-------------------------- MODULE VirtualFilesProofs --------------------------
(***************************************************************************)
(* Proofs about VirtualFiles for any sources, paths of any depth, contents,*)
(* trash, requests and faults, local sources and S3 in any mixture.        *)
(*                                                                         *)
(* What a function of MetadataTree, LocalStorage or BucketStorage does to  *)
(* tables or to a storage is first stated as a relation between what was   *)
(* there and what is there then (Added, Shrunk, Relocated, Moved,          *)
(* Upserted, Refreshed, Binned ...), without the function.  The invariant  *)
(* StateOK1 is preserved by these relations; its parts are that the tables *)
(* are a tree with an object of its own for every file node (TablesOK),    *)
(* and that everything in the storage is in a directory (DiskOK).  The     *)
(* invariant StateOK3 says where the tree and the storage may disagree at  *)
(* each phase of a request, and how what is left to be done will put it    *)
(* right (the operators ...Due).                                           *)
(***************************************************************************)
EXTENDS VirtualFiles, FiniteSetTheorems, SequenceTheorems, NaturalsInduction, WellFoundedInduction, TLAPS
-----------------------------------------------------------------------------
(* Paths *)

Segments == Sources \cup UNION {Range(p) : p \in Paths}

LEMMA AnyPathIsSeq == AnyPath = Seq(Segments)
BY DEF AnyPath, Segments

LEMMA PathLen ==
    /\ Root \in AnyPath /\ Len(Root) = 0
    /\ \A p \in AnyPath : Len(p) \in Nat /\ (p = Root <=> Len(p) = 0)
    /\ \A p \in AnyPath : p \in Seq(Segments) /\ \A k \in 1 .. Len(p) : p[k] \in Segments
BY AnyPathIsSeq, EmptySeq, ElementOfSeq DEF Root

LEMMA PathEqual ==
    ASSUME NEW p \in AnyPath, NEW q \in AnyPath, Len(p) = Len(q), \A k \in 1 .. Len(p) : p[k] = q[k]
    PROVE  p = q
BY AnyPathIsSeq, SeqEqual

LEMMA PrefixPath ==
    ASSUME NEW p \in AnyPath, NEW n \in 0 .. Len(p)
    PROVE  /\ SubSeq(p, 1, n) \in AnyPath /\ Len(SubSeq(p, 1, n)) = n
           /\ \A k \in 1 .. n : SubSeq(p, 1, n)[k] = p[k]
<1>1. p \in Seq(Segments) /\ Len(p) \in Nat /\ n \in Nat /\ n <= Len(p)
  BY PathLen
<1>2. \A k \in 1 .. n : p[k] \in Segments BY <1>1, ElementOfSeq
<1>3. /\ SubSeq(p, 1, n) \in Seq(Segments)
      /\ Len(SubSeq(p, 1, n)) = (IF 1 <= n THEN n - 1 + 1 ELSE 0)
      /\ \A i \in 1 .. n - 1 + 1 : SubSeq(p, 1, n)[i] = p[1 + i - 1]
  BY <1>1, <1>2, SubSeqProperties
<1>. QED BY <1>1, <1>3, AnyPathIsSeq

\* A path is below another one when it begins with it.
LEMMA SubPathDef ==
    ASSUME NEW p \in AnyPath, NEW q \in AnyPath
    PROVE  IsSubPath(p, q) <=> Len(p) <= Len(q) /\ \A k \in 1 .. Len(p) : p[k] = q[k]
<1>1. Len(p) \in Nat /\ Len(q) \in Nat BY PathLen
<1>2. SubSeq(p, 1, Len(p)) = p BY AnyPathIsSeq, SubSeqFull
<1>3. CASE ~(Len(p) <= Len(q)) BY <1>3 DEF IsSubPath, IsPrefix
<1>4. CASE Len(p) <= Len(q)
  <2>1. Len(p) \in 0 .. Len(q) BY <1>1, <1>4
  <2>. DEFINE s == SubSeq(q, 1, Len(p))
  <2>2. s \in AnyPath /\ Len(s) = Len(p) /\ \A k \in 1 .. Len(p) : s[k] = q[k]
    BY <2>1, PrefixPath
  <2>3. IsSubPath(p, q) <=> p = s BY <1>2, <1>4 DEF IsSubPath, IsPrefix
  <2>. HIDE DEF s
  <2>4. (\A k \in 1 .. Len(p) : p[k] = q[k]) => p = s BY <2>2, PathEqual
  <2>. QED BY <1>4, <2>2, <2>3, <2>4
<1>. QED BY <1>3, <1>4

LEMMA ParentPath ==
    ASSUME NEW p \in AnyPath
    PROVE  /\ Parent(p) \in AnyPath
           /\ p # Root => /\ Len(Parent(p)) = Len(p) - 1 /\ Len(p) - 1 \in Nat
                          /\ \A k \in 1 .. Len(p) - 1 : Parent(p)[k] = p[k]
                          /\ Parent(p) = SubSeq(p, 1, Len(p) - 1)
<1>1. CASE p = Root BY <1>1 DEF Parent
<1>2. CASE p # Root
  <2>1. Len(p) \in Nat /\ Len(p) # 0 BY <1>2, PathLen
  <2>2. Len(p) - 1 \in 0 .. Len(p) /\ Len(p) - 1 \in Nat BY <2>1
  <2>3. Parent(p) = SubSeq(p, 1, Len(p) - 1) BY <1>2 DEF Parent, Front
  <2>. QED BY <1>2, <2>2, <2>3, PrefixPath
<1>. QED BY <1>1, <1>2

LEMMA ConcatPath ==
    ASSUME NEW p \in AnyPath, NEW q \in AnyPath
    PROVE  /\ p \o q \in AnyPath /\ Len(p \o q) = Len(p) + Len(q)
           /\ \A k \in 1 .. Len(p) : (p \o q)[k] = p[k]
           /\ \A k \in 1 .. Len(q) : (p \o q)[Len(p) + k] = q[k]
<1>1. p \in Seq(Segments) /\ q \in Seq(Segments) /\ Len(p) \in Nat /\ Len(q) \in Nat
  BY PathLen
<1>. DEFINE s == p \o q
<1>2. /\ s \in Seq(Segments) /\ Len(s) = Len(p) + Len(q)
      /\ \A i \in 1 .. Len(p) + Len(q) : s[i] = IF i <= Len(p) THEN p[i] ELSE q[i - Len(p)]
  BY <1>1, ConcatProperties
<1>. HIDE DEF s
<1>3. ASSUME NEW k \in 1 .. Len(p) PROVE s[k] = p[k] BY <1>1, <1>2
<1>4. ASSUME NEW k \in 1 .. Len(q) PROVE s[Len(p) + k] = q[k]
  <2>1. Len(p) + k \in 1 .. Len(p) + Len(q) /\ ~(Len(p) + k <= Len(p)) /\ Len(p) + k - Len(p) = k
    BY <1>1
  <2>. QED BY <1>2, <2>1
<1>. QED BY <1>2, <1>3, <1>4, AnyPathIsSeq DEF s

LEMMA InnerPath ==
    ASSUME NEW p \in AnyPath, NEW q \in AnyPath
    PROVE  /\ Inner(p, q) \in AnyPath
           /\ Len(p) <= Len(q) => /\ Len(Inner(p, q)) = Len(q) - Len(p)
                                  /\ \A k \in 1 .. Len(q) - Len(p) : Inner(p, q)[k] = q[Len(p) + k]
<1>1. q \in Seq(Segments) /\ Len(p) \in Nat /\ Len(q) \in Nat BY PathLen
<1>. DEFINE m == Len(p) + 1  n == Len(q)
<1>2. m \in Int /\ n \in Int /\ \A i \in m .. n : q[i] \in Segments
  <2>. \A i \in m .. n : i \in 1 .. Len(q) BY <1>1
  <2>. QED BY <1>1, ElementOfSeq
<1>3. /\ SubSeq(q, m, n) \in Seq(Segments)
      /\ Len(SubSeq(q, m, n)) = (IF m <= n THEN n - m + 1 ELSE 0)
      /\ \A i \in 1 .. n - m + 1 : SubSeq(q, m, n)[i] = q[m + i - 1]
  <2>. HIDE DEF m, n
  <2>. QED BY <1>2, SubSeqProperties
<1>. DEFINE s == SubSeq(q, Len(p) + 1, Len(q))
<1>4. s \in Seq(Segments) /\ s = Inner(p, q) BY <1>3 DEF Inner
<1>5. Len(p) <= Len(q) => Len(s) = Len(q) - Len(p) BY <1>1, <1>3
<1>6. ASSUME NEW k \in 1 .. Len(q) - Len(p) PROVE s[k] = q[Len(p) + k]
  BY <1>1, <1>3
<1>. QED BY <1>4, <1>5, <1>6, AnyPathIsSeq

LEMMA SubPathOrder ==
    /\ \A p \in AnyPath : IsSubPath(p, p) /\ IsSubPath(Root, p)
    /\ \A p, q \in AnyPath : IsSubPath(p, q) /\ IsSubPath(q, p) => p = q
    /\ \A p, q, r \in AnyPath : IsSubPath(p, q) /\ IsSubPath(q, r) => IsSubPath(p, r)
    /\ \A p, q, r \in AnyPath : IsSubPath(p, r) /\ IsSubPath(q, r) => IsSubPath(p, q) \/ IsSubPath(q, p)
<1>1. ASSUME NEW p \in AnyPath PROVE IsSubPath(p, p) /\ IsSubPath(Root, p)
  BY PathLen, SubPathDef
<1>2. ASSUME NEW p \in AnyPath, NEW q \in AnyPath, IsSubPath(p, q), IsSubPath(q, p) PROVE p = q
  BY PathLen, <1>2, SubPathDef, PathEqual
<1>3. ASSUME NEW p \in AnyPath, NEW q \in AnyPath, NEW r \in AnyPath, IsSubPath(p, q), IsSubPath(q, r)
      PROVE  IsSubPath(p, r)
  <2>1. Len(p) \in Nat /\ Len(q) \in Nat /\ Len(r) \in Nat BY PathLen
  <2>2. Len(p) <= Len(q) /\ Len(q) <= Len(r) BY <1>3, SubPathDef
  <2>3. /\ \A k \in 1 .. Len(p) : p[k] = q[k]
        /\ \A k \in 1 .. Len(q) : q[k] = r[k]
    BY <1>3, SubPathDef
  <2>4. Len(p) <= Len(r) /\ \A k \in 1 .. Len(p) : p[k] = r[k]
    BY <2>1, <2>2, <2>3
  <2>. QED BY <2>4, SubPathDef
<1>4. ASSUME NEW p \in AnyPath, NEW q \in AnyPath, NEW r \in AnyPath, IsSubPath(p, r), IsSubPath(q, r)
      PROVE  IsSubPath(p, q) \/ IsSubPath(q, p)
  <2>1. Len(p) \in Nat /\ Len(q) \in Nat BY PathLen
  <2>2. /\ \A k \in 1 .. Len(p) : p[k] = r[k]
        /\ \A k \in 1 .. Len(q) : q[k] = r[k]
    BY <1>4, SubPathDef
  <2>3. CASE Len(p) <= Len(q) BY <2>1, <2>2, <2>3, SubPathDef
  <2>4. CASE Len(q) <= Len(p) BY <2>1, <2>2, <2>4, SubPathDef
  <2>. QED BY <2>1, <2>3, <2>4
<1>. QED BY <1>1, <1>2, <1>3, <1>4

\* A parent is right above its children.
LEMMA ParentOrder ==
    /\ \A p \in AnyPath : Parent(p) \in AnyPath /\ IsSubPath(Parent(p), p)
    /\ \A p \in AnyPath : p # Root => ~IsSubPath(p, Parent(p)) /\ p # Parent(p)
    /\ \A p, q \in AnyPath : IsSubPath(p, q) /\ p # q => q # Root /\ IsSubPath(p, Parent(q))
<1>1. ASSUME NEW p \in AnyPath PROVE Parent(p) \in AnyPath /\ IsSubPath(Parent(p), p)
  <2>1. Parent(p) \in AnyPath /\ Len(p) \in Nat BY ParentPath, PathLen
  <2>2. CASE p = Root BY <2>1, <2>2, SubPathOrder DEF Parent
  <2>3. CASE p # Root BY <2>1, <2>3, ParentPath, SubPathDef
  <2>. QED BY <2>1, <2>2, <2>3
<1>2. ASSUME NEW p \in AnyPath, p # Root PROVE ~IsSubPath(p, Parent(p)) /\ p # Parent(p)
  <2>1. Parent(p) \in AnyPath /\ Len(p) \in Nat /\ Len(Parent(p)) = Len(p) - 1
    BY <1>2, ParentPath, PathLen
  <2>. QED BY <2>1, SubPathDef
<1>3. ASSUME NEW p \in AnyPath, NEW q \in AnyPath, IsSubPath(p, q), p # q
      PROVE  q # Root /\ IsSubPath(p, Parent(q))
  <2>1. Len(p) \in Nat /\ Len(q) \in Nat BY PathLen
  <2>2. Len(p) <= Len(q) /\ \A k \in 1 .. Len(p) : p[k] = q[k]
    BY <1>3, SubPathDef
  <2>3. Len(p) # Len(q) BY <1>3, <2>2, PathEqual
  <2>4. q # Root BY <2>1, <2>2, <2>3, PathLen
  <2>5. /\ Parent(q) \in AnyPath /\ Len(Parent(q)) = Len(q) - 1
        /\ \A k \in 1 .. Len(q) - 1 : Parent(q)[k] = q[k]
    BY <2>4, ParentPath
  <2>6. Len(p) <= Len(Parent(q)) /\ \A k \in 1 .. Len(p) : p[k] = Parent(q)[k]
    BY <2>1, <2>2, <2>3, <2>5
  <2>. QED BY <2>4, <2>5, <2>6, SubPathDef
<1>. QED BY <1>1, <1>2, <1>3

\* What is below a path is the path and the rest.
LEMMA BelowPath ==
    /\ \A p, r \in AnyPath : p \o r \in AnyPath /\ IsSubPath(p, p \o r) /\ Inner(p, p \o r) = r
    /\ \A p, q \in AnyPath : Inner(p, q) \in AnyPath
    /\ \A p, q \in AnyPath : IsSubPath(p, q) => p \o Inner(p, q) = q
    /\ \A p \in AnyPath : p \o Root = p
<1>1. ASSUME NEW p \in AnyPath, NEW r \in AnyPath
      PROVE  p \o r \in AnyPath /\ IsSubPath(p, p \o r) /\ Inner(p, p \o r) = r
  <2>1. Len(p) \in Nat /\ Len(r) \in Nat BY PathLen
  <2>. DEFINE s == p \o r
  <2>2. /\ s \in AnyPath /\ Len(s) = Len(p) + Len(r)
        /\ \A k \in 1 .. Len(p) : s[k] = p[k]
        /\ \A k \in 1 .. Len(r) : s[Len(p) + k] = r[k]
    BY ConcatPath
  <2>. HIDE DEF s
  <2>3. IsSubPath(p, s) BY <2>1, <2>2, SubPathDef, SMTT(150)
  <2>4. PICK u : u = Inner(p, s) OBVIOUS
  <2>5. Len(p) <= Len(s) /\ Len(s) - Len(p) = Len(r) BY <2>1, <2>2
  <2>6. /\ u \in AnyPath /\ Len(u) = Len(s) - Len(p)
        /\ \A k \in 1 .. Len(s) - Len(p) : u[k] = s[Len(p) + k]
    BY <2>2, <2>4, <2>5, InnerPath
  <2>7. Len(u) = Len(r) /\ \A k \in 1 .. Len(u) : u[k] = r[k]
    BY <2>2, <2>5, <2>6
  <2>8. u = r BY <2>6, <2>7, PathEqual
  <2>. QED BY <2>2, <2>3, <2>4, <2>8 DEF s
<1>2. ASSUME NEW p \in AnyPath, NEW q \in AnyPath, IsSubPath(p, q) PROVE p \o Inner(p, q) = q
  <2>1. Len(p) \in Nat /\ Len(q) \in Nat BY PathLen
  <2>2. Len(p) <= Len(q) /\ \A k \in 1 .. Len(p) : p[k] = q[k]
    BY <1>2, SubPathDef
  <2>3. PICK u : u = Inner(p, q) OBVIOUS
  <2>4. /\ u \in AnyPath /\ Len(u) = Len(q) - Len(p)
        /\ \A k \in 1 .. Len(q) - Len(p) : u[k] = q[Len(p) + k]
    BY <2>2, <2>3, InnerPath
  <2>5. PICK s : s = p \o u OBVIOUS
  <2>6. /\ s \in AnyPath /\ Len(s) = Len(p) + Len(u)
        /\ \A k \in 1 .. Len(p) : s[k] = p[k]
        /\ \A k \in 1 .. Len(u) : s[Len(p) + k] = u[k]
    BY <2>4, <2>5, ConcatPath
  <2>7. Len(s) = Len(q) BY <2>1, <2>4, <2>6
  <2>8. ASSUME NEW k \in 1 .. Len(s) PROVE s[k] = q[k]
    <3>1. CASE k <= Len(p) BY <2>1, <3>1, <2>2, <2>6
    <3>2. CASE ~(k <= Len(p))
      <4>1. k - Len(p) \in 1 .. Len(u) /\ Len(p) + (k - Len(p)) = k
        BY <2>1, <2>4, <2>7, <3>2
      <4>2. s[Len(p) + (k - Len(p))] = u[k - Len(p)] BY <2>6, <4>1
      <4>3. u[k - Len(p)] = q[Len(p) + (k - Len(p))] BY <2>4, <4>1
      <4>. QED BY <4>1, <4>2, <4>3
    <3>. QED BY <3>1, <3>2
  <2>9. s = q BY <2>6, <2>7, <2>8, PathEqual
  <2>. QED BY <2>3, <2>5, <2>9
<1>3. ASSUME NEW p \in AnyPath PROVE p \o Root = p
  BY AnyPathIsSeq, ConcatEmptySeq DEF Root
<1>. QED BY <1>1, <1>2, <1>3, InnerPath

\* The prefixes of a path are the paths above it.
LEMMA PrefixOf ==
    ASSUME NEW p \in AnyPath, NEW n \in 1 .. Len(p)
    PROVE  SubSeq(p, 1, n) \in AnyPath /\ SubSeq(p, 1, n) # Root /\ IsSubPath(SubSeq(p, 1, n), p)
<1>1. n \in 0 .. Len(p) /\ n # 0 /\ Len(p) \in Nat /\ n <= Len(p) BY PathLen
<1>2. SubSeq(p, 1, n) \in AnyPath /\ Len(SubSeq(p, 1, n)) = n /\ \A k \in 1 .. n : SubSeq(p, 1, n)[k] = p[k]
  BY <1>1, PrefixPath
<1>3. SubSeq(p, 1, n) # Root BY <1>1, <1>2, PathLen
<1>4. PICK s : s = SubSeq(p, 1, n) OBVIOUS
<1>5. IsSubPath(s, p) BY <1>1, <1>2, <1>4, SubPathDef
<1>. QED BY <1>2, <1>3, <1>4, <1>5

LEMMA PrefixIs ==
    ASSUME NEW p \in AnyPath, NEW q \in AnyPath, q # Root, IsSubPath(q, p)
    PROVE  /\ Len(q) \in 1 .. Len(p) /\ q = SubSeq(p, 1, Len(q)) /\ q[1] = p[1] /\ p # Root
           /\ q # p => Len(q) \in 1 .. Len(p) - 1
<1>1. Len(q) \in Nat /\ Len(p) \in Nat /\ Len(q) # 0 BY PathLen
<1>2. Len(q) <= Len(p) /\ \A k \in 1 .. Len(q) : q[k] = p[k] BY SubPathDef
<1>3. Len(q) \in 0 .. Len(p) BY <1>1, <1>2
<1>4. PICK s : s = SubSeq(p, 1, Len(q)) OBVIOUS
<1>5. s \in AnyPath /\ Len(s) = Len(q) /\ \A k \in 1 .. Len(q) : s[k] = p[k]
  BY <1>3, <1>4, PrefixPath
<1>6. q = s BY <1>2, <1>5, PathEqual
<1>7. Len(q) = Len(p) => q = p BY <1>2, PathEqual
<1>8. q[1] = p[1] /\ p # Root BY <1>1, <1>2, PathLen
<1>9. Len(q) \in 1 .. Len(p) /\ (q # p => Len(q) \in 1 .. Len(p) - 1)
  BY <1>1, <1>2, <1>7
<1>. QED BY <1>4, <1>6, <1>8, <1>9

LEMMA ProperPrefix ==
    ASSUME NEW p \in AnyPath, NEW n \in 1 .. Len(p) - 1
    PROVE  SubSeq(p, 1, n) # p /\ n \in 1 .. Len(p)
<1>1. n \in 0 .. Len(p) /\ Len(p) # n /\ Len(p) \in Nat /\ n \in 1 .. Len(p)
  BY PathLen
<1>2. Len(SubSeq(p, 1, n)) = n BY <1>1, PrefixPath
<1>. QED BY <1>1, <1>2

LEMMA MountAbove ==
    ASSUME NEW p \in AnyPath, p # Root
    PROVE  IsSubPath(<<p[1]>>, p) /\ <<p[1]>> \in AnyPath /\ SubSeq(p, 1, 1) = <<p[1]>>
<1>1. Len(p) \in Nat /\ Len(p) # 0 BY PathLen
<1>2. 1 \in 1 .. Len(p) /\ 1 \in 0 .. Len(p) BY <1>1
<1>3. p[1] \in Segments BY <1>2, PathLen
<1>4. <<p[1]>> \in AnyPath /\ Len(<<p[1]>>) = 1 /\ <<p[1]>>[1] = p[1]
  BY <1>3, AnyPathIsSeq
<1>5. PICK s, t : s = SubSeq(p, 1, 1) /\ t = <<p[1]>> OBVIOUS
<1>6. s \in AnyPath /\ Len(s) = 1 /\ s[1] = p[1] BY <1>2, <1>5, PrefixPath
<1>7. s = t
  <2>1. t \in AnyPath /\ Len(s) = Len(t) /\ \A k \in 1 .. Len(s) : s[k] = t[k]
    BY <1>4, <1>5, <1>6, SMTT(150)
  <2>. QED BY <1>6, <2>1, PathEqual
<1>8. IsSubPath(s, p) BY <1>2, <1>5, PrefixOf
<1>. QED BY <1>4, <1>5, <1>7, <1>8

\* A path, with its part above replaced.
LEMMA RewritePath ==
    ASSUME NEW old \in AnyPath, NEW new \in AnyPath
    PROVE  /\ Rewrite(old, old, new) = new
           /\ \A p \in AnyPath : Rewrite(p, old, new) \in AnyPath /\ IsSubPath(new, Rewrite(p, old, new))
           /\ \A p, q \in AnyPath : IsSubPath(old, p) /\ IsSubPath(old, q)
                                      /\ Rewrite(p, old, new) = Rewrite(q, old, new) => p = q
           /\ \A p \in AnyPath : IsSubPath(old, p) /\ p # old =>
                /\ Parent(Rewrite(p, old, new)) = Rewrite(Parent(p), old, new)
                /\ Rewrite(p, old, new) # Root /\ Rewrite(p, old, new) # new
           /\ \A r \in AnyPath : Rewrite(old \o r, old, new) = new \o r
<1>1. ASSUME NEW r \in AnyPath PROVE Rewrite(old \o r, old, new) = new \o r
  BY BelowPath DEF Rewrite
<1>2. ASSUME NEW p \in AnyPath PROVE Rewrite(p, old, new) \in AnyPath /\ IsSubPath(new, Rewrite(p, old, new))
  BY BelowPath DEF Rewrite
<1>3. Rewrite(old, old, new) = new BY PathLen, BelowPath, <1>1
<1>4. ASSUME NEW p \in AnyPath, NEW q \in AnyPath, IsSubPath(old, p), IsSubPath(old, q),
             Rewrite(p, old, new) = Rewrite(q, old, new)
      PROVE  p = q
  <2>1. PICK a, b : a = Inner(old, p) /\ b = Inner(old, q) OBVIOUS
  <2>2. a \in AnyPath /\ b \in AnyPath /\ p = old \o a /\ q = old \o b
    BY <1>4, <2>1, BelowPath
  <2>3. new \o a = new \o b BY <1>4, <2>1 DEF Rewrite
  <2>4. a = Inner(new, new \o a) /\ b = Inner(new, new \o b) BY <2>2, BelowPath
  <2>. QED BY <2>2, <2>3, <2>4
<1>5. ASSUME NEW p \in AnyPath, IsSubPath(old, p), p # old
      PROVE  /\ Parent(Rewrite(p, old, new)) = Rewrite(Parent(p), old, new)
             /\ Rewrite(p, old, new) # Root /\ Rewrite(p, old, new) # new
  <2>1. Parent(p) \in AnyPath /\ IsSubPath(old, Parent(p)) /\ p # Root
    BY <1>5, ParentOrder
  <2>2. PICK a, b, m, w : /\ a = Inner(old, p) /\ b = Inner(old, Parent(p))
                          /\ m = Rewrite(p, old, new) /\ w = Rewrite(Parent(p), old, new)
    OBVIOUS
  <2>3. Len(old) \in Nat /\ Len(new) \in Nat /\ Len(p) \in Nat /\ Len(old) <= Len(Parent(p)) /\ Len(Parent(p)) = Len(p) - 1
    BY <2>1, ParentPath, PathLen, SubPathDef
  <2>4. Len(old) <= Len(p) BY <2>3
  <2>5. a \in AnyPath /\ Len(a) = Len(p) - Len(old) /\ \A k \in 1 .. Len(p) - Len(old) : a[k] = p[Len(old) + k]
    BY <2>2, <2>4, InnerPath
  <2>6. /\ b \in AnyPath /\ Len(b) = Len(p) - 1 - Len(old)
        /\ \A k \in 1 .. Len(p) - 1 - Len(old) : b[k] = Parent(p)[Len(old) + k]
    <3>1. PICK q : q = Parent(p) OBVIOUS
    <3>2. b \in AnyPath /\ Len(b) = Len(q) - Len(old) /\ \A k \in 1 .. Len(q) - Len(old) : b[k] = q[Len(old) + k]
      BY <2>1, <2>2, <2>3, <3>1, InnerPath, ZenonT(60)
    <3>. QED BY <2>3, <3>1, <3>2
  <2>7. \A k \in 1 .. Len(p) - 1 : Parent(p)[k] = p[k] BY <2>1, ParentPath
  <2>8. Len(b) = Len(a) - 1 /\ Len(a) \in Nat /\ Len(a) # 0 /\ \A k \in 1 .. Len(b) : b[k] = a[k]
    <3>1. ASSUME NEW k \in 1 .. Len(b) PROVE b[k] = a[k]
      <4>1. Len(old) + k \in 1 .. Len(p) - 1 /\ k \in 1 .. Len(p) - Len(old) /\ k \in 1 .. Len(p) - 1 - Len(old)
        BY <2>3, <2>6
      <4>. QED BY <2>5, <2>6, <2>7, <4>1
    <3>. QED BY <2>3, <2>5, <2>6, <3>1
  <2>9. /\ m = new \o a /\ m \in AnyPath /\ Len(m) = Len(new) + Len(a)
        /\ \A k \in 1 .. Len(new) : m[k] = new[k]
        /\ \A k \in 1 .. Len(a) : m[Len(new) + k] = a[k]
    <3>1. m = new \o a BY <2>2 DEF Rewrite
    <3>. QED BY <2>5, <3>1, ConcatPath, ZenonT(60)
  <2>10. /\ w = new \o b /\ w \in AnyPath /\ Len(w) = Len(new) + Len(b)
         /\ \A k \in 1 .. Len(new) : w[k] = new[k]
         /\ \A k \in 1 .. Len(b) : w[Len(new) + k] = b[k]
    <3>1. w = new \o b BY <2>2 DEF Rewrite
    <3>. QED BY <2>6, <3>1, ConcatPath, ZenonT(60)
  <2>11. Len(m) # 0 /\ m # Root /\ Len(m) # Len(new) /\ m # new
    <3>1. Len(m) # 0 /\ Len(m) # Len(new) BY <2>3, <2>8, <2>9
    <3>. QED BY <2>9, <3>1, PathLen
  <2>12. /\ Parent(m) \in AnyPath /\ Len(Parent(m)) = Len(m) - 1
         /\ \A k \in 1 .. Len(m) - 1 : Parent(m)[k] = m[k]
    BY <2>9, <2>11, ParentPath
  <2>13. Len(Parent(m)) = Len(w) BY <2>3, <2>8, <2>9, <2>10, <2>12
  <2>14. ASSUME NEW k \in 1 .. Len(w) PROVE Parent(m)[k] = w[k]
    <3>1. Parent(m)[k] = m[k] BY <2>12, <2>13
    <3>2. CASE k <= Len(new) BY <2>3, <3>2, <2>9, <2>10, <3>1
    <3>3. CASE ~(k <= Len(new))
      <4>1. PICK j : j = k - Len(new) OBVIOUS
      <4>2. j \in 1 .. Len(b) /\ j \in 1 .. Len(a) /\ Len(new) + j = k
        BY <2>3, <2>8, <2>10, <3>3, <4>1, SMTT(60)
      <4>. QED BY <2>8, <2>9, <2>10, <3>1, <4>2
    <3>. QED BY <3>2, <3>3
  <2>15. Parent(m) = w BY <2>10, <2>12, <2>13, <2>14, PathEqual
  <2>. QED BY <2>2, <2>11, <2>15
<1>6. \A p, q \in AnyPath : IsSubPath(old, p) /\ IsSubPath(old, q)
                             /\ Rewrite(p, old, new) = Rewrite(q, old, new) => p = q
  BY <1>4
<1>7. \A p \in AnyPath : IsSubPath(old, p) /\ p # old =>
        /\ Parent(Rewrite(p, old, new)) = Rewrite(Parent(p), old, new)
        /\ Rewrite(p, old, new) # Root /\ Rewrite(p, old, new) # new
  BY <1>5
<1>. QED BY <1>1, <1>2, <1>3, <1>6, <1>7, Zenon

\* A name put below a path, or taken from it.
LEMMA JoinPath ==
    /\ \A p \in AnyPath, n \in Segments :
         /\ Join(p, n) \in AnyPath /\ Join(p, n) # Root /\ Parent(Join(p, n)) = p /\ Last(Join(p, n)) = n
    /\ \A p \in AnyPath : p # Root => Last(p) \in Segments /\ Join(Parent(p), Last(p)) = p
<1>1. ASSUME NEW p \in AnyPath, NEW n \in Segments
      PROVE  /\ Join(p, n) \in AnyPath /\ Join(p, n) # Root /\ Parent(Join(p, n)) = p /\ Last(Join(p, n)) = n
  <2>1. p \in Seq(Segments) /\ Len(p) \in Nat BY PathLen
  <2>2. PICK j : j = Append(p, n) OBVIOUS
  <2>3. /\ j \in Seq(Segments) /\ j # <<>> /\ Len(j) = Len(p) + 1
        /\ \A k \in 1 .. Len(p) : j[k] = p[k]
        /\ j[Len(p) + 1] = n
    BY <2>1, <2>2, AppendProperties
  <2>4. j \in AnyPath /\ j # Root BY <2>3, AnyPathIsSeq DEF Root
  <2>5. /\ Parent(j) \in AnyPath /\ Len(Parent(j)) = Len(p)
        /\ \A k \in 1 .. Len(p) : Parent(j)[k] = j[k]
    BY <2>1, <2>3, <2>4, ParentPath, SMTT(60)
  <2>6. Parent(j) = p BY <2>3, <2>5, PathEqual
  <2>7. Last(j) = n BY <2>3 DEF Last
  <2>. QED BY <2>2, <2>4, <2>6, <2>7 DEF Join
<1>2. ASSUME NEW p \in AnyPath, p # Root PROVE Last(p) \in Segments /\ Join(Parent(p), Last(p)) = p
  <2>1. Len(p) \in Nat /\ Len(p) # 0 BY <1>2, PathLen
  <2>2. Len(p) \in 1 .. Len(p) BY <2>1
  <2>3. Last(p) \in Segments BY <2>2, PathLen DEF Last
  <2>4. PICK q, n : q = Parent(p) /\ n = Last(p) OBVIOUS
  <2>5. q \in AnyPath /\ Len(q) = Len(p) - 1 /\ (\A k \in 1 .. Len(p) - 1 : q[k] = p[k]) /\ n = p[Len(p)]
    BY <1>2, <2>4, ParentPath DEF Last
  <2>6. PICK j : j = Append(q, n) OBVIOUS
  <2>7. /\ j \in Seq(Segments) /\ Len(j) = Len(q) + 1
        /\ \A k \in 1 .. Len(q) : j[k] = q[k]
        /\ j[Len(q) + 1] = n
    BY <2>3, <2>4, <2>5, <2>6, PathLen, AppendProperties
  <2>8. j \in AnyPath /\ Len(j) = Len(p) /\ \A k \in 1 .. Len(p) : j[k] = p[k]
    <3>1. Len(q) + 1 = Len(p) BY <2>1, <2>5
    <3>2. ASSUME NEW k \in 1 .. Len(p) PROVE j[k] = p[k]
      <4>1. k \in 1 .. Len(p) - 1 \/ k = Len(p) BY <2>1
      <4>2. CASE k \in 1 .. Len(p) - 1 BY <2>5, <2>7, <4>2
      <4>3. CASE k = Len(p) BY <2>5, <2>7, <3>1, <4>3
      <4>. QED BY <4>1, <4>2, <4>3
    <3>. QED BY <2>7, <3>1, <3>2, AnyPathIsSeq
  <2>9. j = p BY <2>8, PathEqual
  <2>. QED BY <2>3, <2>4, <2>6, <2>9 DEF Join
<1>. QED BY <1>1, <1>2

\* The paths that may exist are paths, with all that is above them.
LEMMA PathsFacts ==
    /\ Paths \subseteq AnyPath /\ Mounts \subseteq AnyPath /\ Names \subseteq Segments
    /\ \A p \in Paths \cup Mounts : p # Root /\ ~IsHidden(p)
    /\ \A m \in Mounts : Len(m) = 1 /\ Parent(m) = Root
    /\ \A p \in Paths : Len(p) # 1 /\ Parent(p) # Root /\ Parent(p) \in Paths \cup Mounts
    /\ \A p \in Paths \cup Mounts, q \in AnyPath : q # Root /\ IsSubPath(q, p) => q \in Paths \cup Mounts
    /\ Mounts \cap Paths = {}
    /\ IsFiniteSet(Paths \cup Mounts)
    /\ \A p \in Paths \cup Mounts : <<p[1]>> \in Mounts /\ IsSubPath(<<p[1]>>, p)
<1>1. ASSUME NEW p \in Paths PROVE p \in AnyPath /\ Len(p) \in Nat /\ Len(p) > 1 /\ p # Root
  BY FilesAssumption, SeqMonotonic, AnyPathIsSeq, PathLen DEF Segments
<1>2. ASSUME NEW m \in Mounts PROVE m \in AnyPath /\ Len(m) = 1 /\ m # Root /\ Parent(m) = Root
  <2>1. PICK s \in Sources : m = <<s>> BY DEF Mounts
  <2>2. s \in Segments BY DEF Segments
  <2>3. m \in AnyPath /\ Len(m) = 1 BY <2>1, <2>2, AnyPathIsSeq
  <2>4. m # Root BY <2>3, PathLen
  <2>5. Parent(m) \in AnyPath /\ Len(Parent(m)) = 0 BY <2>3, <2>4, ParentPath, SMTT(150)
  <2>. QED BY <2>3, <2>4, <2>5, PathLen
<1>3. Names \subseteq Segments
  <2>. SUFFICES ASSUME NEW p \in Paths PROVE Last(p) \in Segments BY DEF Names
  <2>. QED BY <1>1, JoinPath
<1>4. ASSUME NEW p \in Paths PROVE Len(p) # 1 /\ Parent(p) # Root /\ Parent(p) \in Paths \cup Mounts
  <2>1. /\ Parent(p) \in AnyPath /\ Len(Parent(p)) = Len(p) - 1 /\ Len(p) - 1 \in 1 .. Len(p) - 1
        /\ Parent(p) = SubSeq(p, 1, Len(p) - 1)
    BY <1>1, ParentPath
  <2>2. Len(Parent(p)) # 0 BY <2>1, <1>1
  <2>3. Parent(p) \in Paths \cup Mounts BY <2>1, FilesAssumption
  <2>. QED
    <3>1. Parent(p) # Root BY <2>2, PathLen
    <3>2. Len(p) # 1
      <4>1. PICK n \in Nat : n = Len(p) /\ n > 1 BY <1>1
      <4>2. n # 1 BY <4>1, SMTT(150)
      <4>. QED BY <4>1, <4>2
    <3>. QED BY <2>3, <3>1, <3>2, Zenon
<1>5. ASSUME NEW p \in Paths \cup Mounts, NEW q \in AnyPath, q # Root, IsSubPath(q, p)
      PROVE  q \in Paths \cup Mounts
  <2>1. p \in AnyPath BY <1>1, <1>2
  <2>2. CASE q = p BY <2>2
  <2>3. CASE q # p
    <3>1. Len(q) \in 1 .. Len(p) - 1 BY <1>5, <2>1, <2>3, PrefixIs
    <3>2. q = SubSeq(p, 1, Len(q)) BY <1>5, <2>1, PrefixIs
    <3>3. CASE p \in Mounts
      <4>1. Len(p) = 1 BY <1>2, <3>3
      <4>. QED BY <3>1, <4>1
    <3>4. CASE p \in Paths BY <3>4, FilesAssumption, <3>1, <3>2
    <3>. QED BY <3>3, <3>4
  <2>. QED BY <2>2, <2>3
<1>6. IsFiniteSet(Paths \cup Mounts)
  <2>1. IsFiniteSet(Paths) /\ IsFiniteSet(Sources)
    BY FilesAssumption, TreeAssumption
  <2>2. IsFiniteSet(Mounts)
    <3>. DEFINE f == [s \in Sources |-> <<s>>]
    <3>1. f \in Surjection(Sources, Mounts) BY DEF Surjection, Mounts
    <3>. QED BY <2>1, <3>1, FS_Surjection
  <2>. QED BY <2>1, <2>2, FS_Union
<1>7. ASSUME NEW p \in Paths \cup Mounts PROVE <<p[1]>> \in Mounts /\ IsSubPath(<<p[1]>>, p)
  <2>1. p \in AnyPath /\ p # Root BY <1>1, <1>2
  <2>2. IsSubPath(<<p[1]>>, p) /\ <<p[1]>> \in AnyPath BY <2>1, MountAbove
  <2>3. CASE p \in Mounts BY <2>2, <2>3 DEF Mounts
  <2>4. CASE p \in Paths
    <3>1. 1 \in 1 .. Len(p) - 1 BY <1>1, <2>4
    <3>2. SubSeq(p, 1, 1) \in Paths \cup Mounts BY <2>4, <3>1, FilesAssumption
    <3>3. <<p[1]>> \in Paths \cup Mounts BY <2>1, <3>2, MountAbove
    <3>4. Len(<<p[1]>>) = 1 OBVIOUS
    <3>. QED BY <1>4, <2>2, <3>3, <3>4
  <2>. QED BY <2>3, <2>4
<1>8. \A p \in Paths \cup Mounts : p # Root /\ ~IsHidden(p)
  BY <1>1, <1>2, FilesAssumption
<1>9. Mounts \cap Paths = {} BY <1>2, <1>4
<1>10. Paths \subseteq AnyPath /\ Mounts \subseteq AnyPath BY <1>1, <1>2
<1>11. \A m \in Mounts : Len(m) = 1 /\ Parent(m) = Root BY <1>2
<1>. QED BY <1>3, <1>4, <1>5, <1>6, <1>7, <1>8, <1>9, <1>10, <1>11, Zenon

-----------------------------------------------------------------------------
(* The tables *)

\* The ids and the rows of a table of nodes, and of one of objects
Table(t, Row) == DOMAIN t \subseteq Nat \ {0} /\ IsFiniteSet(DOMAIN t) /\ t \in [DOMAIN t -> Row]

\* A file's node has an object, which says where the file is, and is available when
\* the node is; no two objects are in one place.
Locators(d) ==
    /\ \A i \in DOMAIN d.node :
         IF d.node[i].kind = "file"
         THEN /\ d.node[i].object \in DOMAIN d.object /\ d.object[d.node[i].object].at = d.node[i].path
              /\ d.node[i].state = "indexed" => d.object[d.node[i].object].status = "available"
         ELSE d.node[i].object = NoId
    /\ \A o, u \in DOMAIN d.object : d.object[o].at = d.object[u].at => o = u

TablesOK(d) ==
    /\ d = [node |-> d.node, object |-> d.object]
    /\ Table(d.node, Node(AnyPath)) /\ Table(d.object, Object(AnyPath))
    /\ IsTree(d)
    /\ \E i \in DOMAIN d.node : d.node[i].path = Root
    /\ Locators(d)

LEMMA FindFacts ==
    ASSUME NEW d, TablesOK(d), NEW p
    PROVE  /\ Find(d, p) \in Nat
           /\ \/ Find(d, p) = NoId /\ \A i \in DOMAIN d.node : d.node[i].path # p
              \/ Find(d, p) \in DOMAIN d.node /\ Find(d, p) # NoId /\ d.node[Find(d, p)].path = p
           /\ \A i \in DOMAIN d.node : d.node[i].path = p => Find(d, p) = i
           /\ Find(d, p) # NoId <=> \E i \in DOMAIN d.node : d.node[i].path = p
<1>1. DOMAIN d.node \subseteq Nat \ {0} /\ \A i, j \in DOMAIN d.node : d.node[i].path = d.node[j].path => i = j
  BY DEF TablesOK, Table, IsTree
<1>2. CASE \E i \in DOMAIN d.node : d.node[i].path = p
  BY <1>2, <1>1 DEF Find, NoId
<1>3. CASE ~\E i \in DOMAIN d.node : d.node[i].path = p BY <1>3 DEF Find, NoId
<1>. QED BY <1>2, <1>3

LEMMA FindObjectFacts ==
    ASSUME NEW d, TablesOK(d), NEW p
    PROVE  /\ \/ FindObject(d, p) = NoId /\ \A o \in DOMAIN d.object : d.object[o].at # p
              \/ FindObject(d, p) \in DOMAIN d.object /\ FindObject(d, p) # NoId /\ d.object[FindObject(d, p)].at = p
           /\ \A o \in DOMAIN d.object : d.object[o].at = p => FindObject(d, p) = o
<1>1. DOMAIN d.object \subseteq Nat \ {0} /\ \A o, u \in DOMAIN d.object : d.object[o].at = d.object[u].at => o = u
  BY DEF TablesOK, Table, Locators
<1>2. CASE \E o \in DOMAIN d.object : d.object[o].at = p
  BY <1>2, <1>1 DEF FindObject, NoId
<1>3. CASE ~\E o \in DOMAIN d.object : d.object[o].at = p
  BY <1>3 DEF FindObject, NoId
<1>. QED BY <1>2, <1>3

LEMMA NodeFacts ==
    ASSUME NEW d, TablesOK(d), NEW i \in DOMAIN d.node
    PROVE  /\ d.node[i] \in Node(AnyPath) /\ d.node[i].path \in AnyPath /\ i \in Nat /\ i # NoId
           /\ d.node[i].path # Root => /\ d.node[i].parent \in DOMAIN d.node
                                       /\ d.node[d.node[i].parent].path = Parent(d.node[i].path)
                                       /\ Find(d, Parent(d.node[i].path)) = d.node[i].parent
           /\ Find(d, d.node[i].path) = i
<1>1. d.node[i] \in Node(AnyPath) /\ i \in Nat /\ i # NoId
  BY DEF TablesOK, Table, NoId
<1>2. d.node[i].path \in AnyPath BY <1>1 DEF Node
<1>3. d.node[i].path # Root => /\ d.node[i].parent \in DOMAIN d.node
                               /\ d.node[d.node[i].parent].path = Parent(d.node[i].path)
  BY DEF TablesOK, IsTree
<1>. QED BY <1>1, <1>2, <1>3, FindFacts

\* There are enough numbers that are not ids yet.
LEMMA NewIdsFacts ==
    ASSUME NEW table, DOMAIN table \subseteq Nat \ {0}, IsFiniteSet(DOMAIN table), NEW keys, IsFiniteSet(keys)
    PROVE  /\ NewIds(table, keys) \in [keys -> Nat \ {0}] /\ IsInjective(NewIds(table, keys))
           /\ \A k \in keys : NewIds(table, keys)[k] \notin DOMAIN table
<1>. DEFINE D == DOMAIN table
<1>1. PICK c, n : c = Cardinality(D) /\ n = Cardinality(keys) OBVIOUS
<1>2. c \in Nat /\ n \in Nat BY <1>1, FS_CardinalityType
<1>. DEFINE N == 1 .. c + n
            F == N \ D
<1>3. IsFiniteSet(N) /\ Cardinality(N) = c + n
  <2>1. PICK m \in Nat : m = c + n BY <1>2
  <2>2. IsFiniteSet(1 .. m) /\ Cardinality(1 .. m) = IF 1 > m THEN 0 ELSE m - 1 + 1
    BY FS_Interval
  <2>3. Cardinality(1 .. m) = m BY <2>2
  <2>. QED BY <2>1, <2>2, <2>3
<1>4. IsFiniteSet(F) /\ Cardinality(F) = Cardinality(N) - Cardinality(N \cap D)
  BY <1>3, FS_Difference
<1>5. Cardinality(N \cap D) <= c /\ Cardinality(N \cap D) \in Nat
  BY FS_Subset, <1>1, FS_CardinalityType
<1>6. PICK f \in Bijection(1 .. n, keys) : TRUE
  <2>1. PICK m \in Nat : ExistsBijection(1 .. m, keys) /\ m = Cardinality(keys)
    BY FS_CardinalityType
  <2>. QED BY <1>1, <2>1 DEF ExistsBijection
<1>0. PICK k \in Nat : k = Cardinality(F) BY <1>4, FS_CardinalityType
<1>7. PICK g \in Bijection(1 .. k, F) : TRUE
  <2>1. PICK m \in Nat : ExistsBijection(1 .. m, F) /\ m = Cardinality(F)
    BY <1>4, FS_CardinalityType
  <2>. QED BY <1>0, <2>1 DEF ExistsBijection
<1>8. n <= k BY <1>0, <1>2, <1>3, <1>4, <1>5
<1>9. /\ f \in [1 .. n -> keys] /\ \A x \in keys : \E i \in 1 .. n : f[i] = x
      /\ g \in [1 .. k -> F] /\ \A i, j \in 1 .. k : g[i] = g[j] => i = j
  BY <1>6, <1>7 DEF Bijection, Injection, Surjection, IsInjective
<1>. DEFINE num == [x \in keys |-> CHOOSE i \in 1 .. n : f[i] = x]
            new == [x \in keys |-> g[num[x]]]
<1>10. \A x \in keys : num[x] \in 1 .. n /\ f[num[x]] = x BY <1>9
<1>11. \A x \in keys : num[x] \in 1 .. k /\ new[x] = g[num[x]] /\ new[x] \in F
  <2>1. 1 .. n \subseteq 1 .. k BY <1>2, <1>8
  <2>. HIDE DEF num
  <2>. QED BY <1>9, <1>10, <2>1
<1>12. new \in [keys -> N] /\ DOMAIN new = keys
  <2>. HIDE DEF num, N
  <2>. QED BY <1>11
<1>13. IsInjective(new)
  <2>. SUFFICES ASSUME NEW x \in keys, NEW y \in keys, new[x] = new[y] PROVE x = y
    BY <1>12 DEF IsInjective
  <2>. HIDE DEF num, new
  <2>. QED BY <1>9, <1>10, <1>11, SMTT(150)
<1>14. Range(new) \cap D = {}
  <2>. HIDE DEF new
  <2>. QED BY <1>11, <1>12 DEF Range
<1>15. \E e \in [keys -> N] : IsInjective(e) /\ Range(e) \cap D = {}
  <2>. HIDE DEF new, N, D
  <2>. QED BY <1>12, <1>13, <1>14
<1>16. NewIds(table, keys) = CHOOSE e \in [keys -> N] : IsInjective(e) /\ Range(e) \cap D = {}
  BY <1>1 DEF NewIds
<1>17. /\ NewIds(table, keys) \in [keys -> N] /\ IsInjective(NewIds(table, keys))
       /\ Range(NewIds(table, keys)) \cap D = {}
  <2>. HIDE DEF N, D
  <2>. QED BY <1>15, <1>16
<1>18. N \subseteq Nat \ {0} BY <1>2
<1>19. \A x \in keys : NewIds(table, keys)[x] \notin D
  <2>. HIDE DEF N, D
  <2>. QED BY <1>17 DEF Range
<1>. QED
  <2>. HIDE DEF N
  <2>. QED BY <1>17, <1>18, <1>19

LEMMA NodeIdsFacts ==
    ASSUME NEW d, TablesOK(d), NEW paths, IsFiniteSet(paths)
    PROVE  /\ NodeIds(d, paths) \in [paths -> Nat \ {0}] /\ IsInjective(NodeIds(d, paths))
           /\ \A p \in paths : \A i \in DOMAIN d.node : NodeIds(d, paths)[p] = i <=> d.node[i].path = p
<1>. DEFINE K == {p \in paths : Find(d, p) = NoId}
            new == NewIds(d.node, K)
<1>1. IsFiniteSet(K) BY FS_Subset
<1>2. DOMAIN d.node \subseteq Nat \ {0} /\ IsFiniteSet(DOMAIN d.node)
  BY DEF TablesOK, Table
<1>3. new \in [K -> Nat \ {0}] /\ IsInjective(new) /\ \A k \in K : new[k] \notin DOMAIN d.node
  <2>. HIDE DEF K
  <2>. QED BY <1>1, <1>2, NewIdsFacts
<1>. HIDE DEF new
<1>4. NodeIds(d, paths) = [p \in paths |-> IF Find(d, p) = NoId THEN new[p] ELSE Find(d, p)]
  BY DEF NodeIds, new
<1>5. ASSUME NEW p \in paths
      PROVE  /\ Find(d, p) = NoId => /\ NodeIds(d, paths)[p] = new[p] /\ p \in K
                                     /\ \A i \in DOMAIN d.node : d.node[i].path # p
             /\ Find(d, p) # NoId => /\ NodeIds(d, paths)[p] = Find(d, p)
                                     /\ Find(d, p) \in DOMAIN d.node /\ d.node[Find(d, p)].path = p
  BY <1>4, FindFacts
<1>6. NodeIds(d, paths) \in [paths -> Nat \ {0}] BY <1>2, <1>3, <1>5, <1>4
<1>7. ASSUME NEW p \in paths, NEW i \in DOMAIN d.node PROVE NodeIds(d, paths)[p] = i <=> d.node[i].path = p
  BY <1>3, <1>5, FindFacts
<1>8. ASSUME NEW p \in paths, NEW q \in paths, NodeIds(d, paths)[p] = NodeIds(d, paths)[q] PROVE p = q
  <2>1. CASE Find(d, p) = NoId /\ Find(d, q) = NoId
    BY <1>5, <1>8, <2>1, <1>3 DEF IsInjective
  <2>2. CASE Find(d, p) # NoId BY <1>3, <1>5, <1>8, <2>2
  <2>3. CASE Find(d, q) # NoId BY <1>3, <1>5, <1>8, <2>3
  <2>. QED BY <2>1, <2>2, <2>3
<1>9. IsInjective(NodeIds(d, paths)) BY <1>6, <1>8 DEF IsInjective
<1>. QED BY <1>6, <1>7, <1>9

LEMMA ObjectIdsFacts ==
    ASSUME NEW d, TablesOK(d), NEW paths, IsFiniteSet(paths)
    PROVE  /\ ObjectIds(d, paths) \in [paths -> Nat \ {0}] /\ IsInjective(ObjectIds(d, paths))
           /\ \A p \in paths : \A o \in DOMAIN d.object : ObjectIds(d, paths)[p] = o <=> d.object[o].at = p
<1>. DEFINE K == {p \in paths : FindObject(d, p) = NoId}
            new == NewIds(d.object, K)
<1>1. IsFiniteSet(K) BY FS_Subset
<1>2. DOMAIN d.object \subseteq Nat \ {0} /\ IsFiniteSet(DOMAIN d.object)
  BY DEF TablesOK, Table
<1>3. new \in [K -> Nat \ {0}] /\ IsInjective(new) /\ \A k \in K : new[k] \notin DOMAIN d.object
  <2>. HIDE DEF K
  <2>. QED BY <1>1, <1>2, NewIdsFacts
<1>. HIDE DEF new
<1>4. ObjectIds(d, paths) = [p \in paths |-> IF FindObject(d, p) = NoId THEN new[p] ELSE FindObject(d, p)]
  BY DEF ObjectIds, new
<1>5. ASSUME NEW p \in paths
      PROVE  /\ FindObject(d, p) = NoId => /\ ObjectIds(d, paths)[p] = new[p] /\ p \in K
                                           /\ \A o \in DOMAIN d.object : d.object[o].at # p
             /\ FindObject(d, p) # NoId => /\ ObjectIds(d, paths)[p] = FindObject(d, p)
                                           /\ FindObject(d, p) \in DOMAIN d.object
                                           /\ d.object[FindObject(d, p)].at = p
  BY <1>4, FindObjectFacts
<1>6. ObjectIds(d, paths) \in [paths -> Nat \ {0}] BY <1>2, <1>3, <1>5, <1>4
<1>7. ASSUME NEW p \in paths, NEW o \in DOMAIN d.object PROVE ObjectIds(d, paths)[p] = o <=> d.object[o].at = p
  BY <1>3, <1>5, FindObjectFacts
<1>8. ASSUME NEW p \in paths, NEW q \in paths, ObjectIds(d, paths)[p] = ObjectIds(d, paths)[q] PROVE p = q
  <2>1. CASE FindObject(d, p) = NoId /\ FindObject(d, q) = NoId
    BY <1>5, <1>8, <2>1, <1>3 DEF IsInjective
  <2>2. CASE FindObject(d, p) # NoId BY <1>3, <1>5, <1>8, <2>2
  <2>3. CASE FindObject(d, q) # NoId BY <1>3, <1>5, <1>8, <2>3
  <2>. QED BY <2>1, <2>2, <2>3
<1>9. IsInjective(ObjectIds(d, paths)) BY <1>6, <1>8 DEF IsInjective
<1>. QED BY <1>6, <1>7, <1>9

LEMMA AntiFacts ==
    ASSUME NEW f, f = [x \in DOMAIN f |-> f[x]], IsInjective(f)
    PROVE  \A x \in DOMAIN f : f[x] \in Range(f) /\ AntiFunction(f)[f[x]] = x
<1>. SUFFICES ASSUME NEW x \in DOMAIN f PROVE f[x] \in Range(f) /\ AntiFunction(f)[f[x]] = x
  OBVIOUS
<1>1. f[x] \in Range(f) BY DEF Range
<1>2. AntiFunction(f)[f[x]] = CHOOSE s \in DOMAIN f : f[x] \in Range(f) => f[s] = f[x]
  BY <1>1 DEF AntiFunction, Inverse
<1>3. \E s \in DOMAIN f : f[x] \in Range(f) => f[s] = f[x] OBVIOUS
<1>4. PICK y : y = AntiFunction(f)[f[x]] OBVIOUS
<1>5. y \in DOMAIN f /\ f[y] = f[x] BY <1>1, <1>2, <1>3, <1>4
<1>. QED BY <1>1, <1>4, <1>5 DEF IsInjective

\* What the upsert of some paths makes of the tables, row by row
Upserted(d, e, paths, files) ==
    /\ \A i \in DOMAIN d.node : /\ i \in DOMAIN e.node /\ e.node[i].path = d.node[i].path
                                /\ d.node[i].path \notin paths => e.node[i] = d.node[i]
    /\ \A i \in DOMAIN e.node : i \in DOMAIN d.node \/ e.node[i].path \in paths
    /\ \A p \in paths : Find(e, p) # NoId
    /\ \A i \in DOMAIN e.node : e.node[i].path \in paths =>
         /\ e.node[i].state = "indexed"
         /\ e.node[i].path \in files => e.node[i].kind = "file"
         /\ e.node[i].path \notin files => e.node[i].kind = IF Len(e.node[i].path) = 1 THEN "mount" ELSE "dir"

\* The node of a path that is upserted
UpsertedRow(e, i, p, files, obs) ==
    /\ e.node[i].path = p /\ e.node[i].state = "indexed"
    /\ p \in files => e.node[i].kind = "file" /\ e.node[i].object = obs[p]
    /\ p \notin files => e.node[i].object = NoId /\ e.node[i].kind = IF Len(p) = 1 THEN "mount" ELSE "dir"

LEMMA UpsertOK ==
    ASSUME NEW d, TablesOK(d), NEW paths \in SUBSET AnyPath, NEW files \in SUBSET paths,
           IsFiniteSet(paths), Root \notin paths,
           \A p \in paths : Parent(p) \in paths \/ Find(d, Parent(p)) # NoId
    PROVE  TablesOK(Upsert(d, paths, files)) /\ Upserted(d, Upsert(d, paths, files), paths, files)
<1>1. IsFiniteSet(files) BY FS_Subset
<1>. DEFINE e == Upsert(d, paths, files)
<1>2. PICK ids, obs : ids = NodeIds(d, paths) /\ obs = ObjectIds(d, files)
  OBVIOUS
<1>3. /\ ids \in [paths -> Nat \ {0}] /\ IsInjective(ids)
      /\ \A p \in paths : \A i \in DOMAIN d.node : ids[p] = i <=> d.node[i].path = p
  BY <1>2, NodeIdsFacts
<1>4. /\ obs \in [files -> Nat \ {0}] /\ IsInjective(obs)
      /\ \A p \in files : \A o \in DOMAIN d.object : obs[p] = o <=> d.object[o].at = p
  BY <1>1, <1>2, ObjectIdsFacts
<1>. DEFINE Row(p) == [parent |-> IF Parent(p) \in paths THEN ids[Parent(p)] ELSE Find(d, Parent(p)),
                       path |-> p, kind |-> KindOf(p, p \in files),
                       object |-> IF p \in files THEN obs[p] ELSE NoId, state |-> "indexed"]
            rows == [i \in Range(ids) |-> Row(AntiFunction(ids)[i])]
            locs == [o \in Range(obs) |-> [at |-> AntiFunction(obs)[o], status |-> "available"]]
<1>0. ASSUME NEW p \in paths
      PROVE  /\ Row(p) = [parent |-> Row(p).parent, path |-> p, kind |-> Row(p).kind,
                          object |-> Row(p).object, state |-> "indexed"]
             /\ Row(p).path = p /\ Row(p).state = "indexed"
             /\ Parent(p) \in paths => Row(p).parent = ids[Parent(p)]
             /\ Parent(p) \notin paths => Row(p).parent = Find(d, Parent(p))
             /\ p \in files => Row(p).kind = "file" /\ Row(p).object = obs[p]
             /\ p \notin files => Row(p).object = NoId /\ Row(p).kind = IF Len(p) = 1 THEN "mount" ELSE "dir"
  <2>. PICK par, kin, obj :
         /\ par = (IF Parent(p) \in paths THEN ids[Parent(p)] ELSE Find(d, Parent(p)))
         /\ kin = (IF p \in files THEN "file" ELSE IF Len(p) = 1 THEN "mount" ELSE "dir")
         /\ obj = (IF p \in files THEN obs[p] ELSE NoId)
    OBVIOUS
  <2>1. Row(p) = [parent |-> par, path |-> p, kind |-> kin, object |-> obj, state |-> "indexed"]
    BY DEF KindOf
  <2>. HIDE DEF Row
  <2>2. /\ Row(p).parent = par /\ Row(p).path = p /\ Row(p).kind = kin /\ Row(p).object = obj
        /\ Row(p).state = "indexed"
    BY <2>1
  <2>. QED BY <2>1, <2>2
<1>5. /\ DOMAIN rows = Range(ids) /\ \A p \in paths : ids[p] \in Range(ids) /\ rows[ids[p]] = Row(p)
      /\ \A i \in Range(ids) : \E p \in paths : i = ids[p]
  <2>1. ids = [x \in DOMAIN ids |-> ids[x]] /\ DOMAIN ids = paths BY <1>3
  <2>2. \A p \in paths : ids[p] \in Range(ids) /\ AntiFunction(ids)[ids[p]] = p
    BY <1>3, <2>1, AntiFacts
  <2>3. \A i \in Range(ids) : \E p \in paths : i = ids[p] BY <2>1 DEF Range
  <2>4. \A p \in paths : rows[ids[p]] = Row(p) BY <2>2
  <2>. QED BY <2>2, <2>3, <2>4
<1>6. /\ DOMAIN locs = Range(obs)
      /\ \A p \in files : obs[p] \in Range(obs) /\ locs[obs[p]] = [at |-> p, status |-> "available"]
      /\ \A o \in Range(obs) : \E p \in files : o = obs[p]
  BY <1>4, AntiFacts DEF Range
<1>7. e = [node |-> PutAll(d.node, rows), object |-> PutAll(d.object, locs)]
  <2>1. d = [node |-> d.node, object |-> d.object] BY DEF TablesOK
  <2>2. e = [d EXCEPT !.node = PutAll(d.node, rows), !.object = PutAll(d.object, locs)]
    BY <1>2 DEF Upsert
  <2>. HIDE DEF e, rows, locs
  <2>. QED BY <2>1, <2>2
<1>. HIDE DEF rows, locs, e, Row
<1>8. /\ e.node = PutAll(d.node, rows) /\ e.object = PutAll(d.object, locs)
      /\ e = [node |-> e.node, object |-> e.object]
  BY <1>7
<1>9. /\ DOMAIN e.node = DOMAIN d.node \cup Range(ids)
      /\ \A p \in paths : ids[p] \in DOMAIN e.node /\ e.node[ids[p]] = Row(p)
      /\ \A i \in DOMAIN d.node : i \notin Range(ids) => e.node[i] = d.node[i]
      /\ e.node = [i \in DOMAIN e.node |-> e.node[i]]
  <2>. HIDE DEF Row
  <2>. QED BY <1>5, <1>8 DEF PutAll
<1>10. /\ DOMAIN e.object = DOMAIN d.object \cup Range(obs)
       /\ \A p \in files : obs[p] \in DOMAIN e.object /\ e.object[obs[p]] = [at |-> p, status |-> "available"]
       /\ \A o \in DOMAIN d.object : o \notin Range(obs) => e.object[o] = d.object[o]
       /\ e.object = [o \in DOMAIN e.object |-> e.object[o]]
  BY <1>6, <1>8 DEF PutAll
<1>11. ASSUME NEW i \in DOMAIN d.node
       PROVE  /\ i \in Range(ids) <=> d.node[i].path \in paths
              /\ d.node[i].path \in paths => ids[d.node[i].path] = i
  <2>1. ASSUME i \in Range(ids) PROVE d.node[i].path \in paths
    <3>1. PICK p \in paths : i = ids[p] BY <1>5, <2>1
    <3>. QED BY <1>3, <3>1
  <2>2. ASSUME d.node[i].path \in paths PROVE ids[d.node[i].path] = i /\ i \in Range(ids)
    <3>1. PICK p \in paths : p = d.node[i].path BY <2>2
    <3>2. ids[p] = i BY <1>3, <3>1
    <3>. QED BY <1>5, <3>1, <3>2
  <2>. QED BY <2>1, <2>2
<1>12. ASSUME NEW p \in paths
       PROVE  /\ e.node[ids[p]].path = p /\ e.node[ids[p]].state = "indexed"
              /\ p \in files => e.node[ids[p]].kind = "file" /\ e.node[ids[p]].object = obs[p]
              /\ p \notin files => /\ e.node[ids[p]].object = NoId
                                   /\ e.node[ids[p]].kind = IF Len(p) = 1 THEN "mount" ELSE "dir"
  BY <1>0, <1>9
<1>30. ASSUME NEW p \in paths PROVE UpsertedRow(e, ids[p], p, files, obs) BY <1>12 DEF UpsertedRow
<1>13. ASSUME NEW i \in DOMAIN d.node
       PROVE  /\ i \in DOMAIN e.node /\ e.node[i].path = d.node[i].path
              /\ d.node[i].path \notin paths => e.node[i] = d.node[i]
  BY <1>9, <1>11, <1>12
<1>14. ASSUME NEW i \in DOMAIN e.node PROVE i \in DOMAIN d.node \/ \E p \in paths : i = ids[p] /\ e.node[i].path = p
  BY <1>5, <1>9, <1>12
<1>15. ASSUME NEW i \in DOMAIN e.node, e.node[i].path \in paths PROVE i = ids[e.node[i].path]
  <2>1. CASE i \in DOMAIN d.node BY <1>11, <1>13, <1>15, <2>1
  <2>2. CASE i \notin DOMAIN d.node BY <1>14, <2>2
  <2>. QED BY <2>1, <2>2
<1>16. ASSUME NEW i \in DOMAIN e.node, NEW j \in DOMAIN e.node, e.node[i].path = e.node[j].path PROVE i = j
  <2>1. CASE e.node[i].path \in paths BY <1>16, <2>1, <1>15
  <2>2. CASE e.node[i].path \notin paths
    BY <1>14, <1>16, <2>2, <1>13 DEF TablesOK, IsTree
  <2>. QED BY <2>1, <2>2
<1>17. ASSUME NEW p \in paths
       PROVE  e.node[ids[p]].parent \in DOMAIN e.node /\ e.node[e.node[ids[p]].parent].path = Parent(p)
  <2>1. /\ Parent(p) \in paths => e.node[ids[p]].parent = ids[Parent(p)]
        /\ Parent(p) \notin paths => e.node[ids[p]].parent = Find(d, Parent(p))
    BY <1>0, <1>9
  <2>2. CASE Parent(p) \in paths
    <3>1. PICK q \in paths : q = Parent(p) BY <2>2
    <3>2. e.node[ids[p]].parent = ids[q] /\ ids[q] \in DOMAIN e.node /\ e.node[ids[q]].path = q
      BY <1>9, <1>12, <2>1, <3>1
    <3>. QED BY <3>1, <3>2
  <2>3. CASE Parent(p) \notin paths
    <3>1. PICK j : j = Find(d, Parent(p)) OBVIOUS
    <3>2. j \in DOMAIN d.node /\ d.node[j].path = Parent(p)
      BY <2>3, <3>1, FindFacts
    <3>. QED BY <1>13, <2>1, <2>3, <3>1, <3>2
  <2>. QED BY <2>2, <2>3
<1>18. IsTree(e)
  <2>1. ASSUME NEW i \in DOMAIN e.node
        PROVE  IF e.node[i].path = Root THEN e.node[i].parent = NoId
               ELSE e.node[i].parent \in DOMAIN e.node /\ e.node[e.node[i].parent].path = Parent(e.node[i].path)
    <3>1. CASE e.node[i].path \in paths BY <1>15, <1>17, <3>1
    <3>2. CASE e.node[i].path \notin paths
      BY <1>13, <1>14, <3>2 DEF TablesOK, IsTree
    <3>. QED BY <3>1, <3>2
  <2>. QED BY <1>16, <2>1 DEF IsTree
<1>19. \E i \in DOMAIN e.node : e.node[i].path = Root BY <1>13 DEF TablesOK
<1>20. Table(e.node, Node(AnyPath))
  <2>1. DOMAIN d.node \subseteq Nat \ {0} /\ IsFiniteSet(DOMAIN d.node) /\ d.node \in [DOMAIN d.node -> Node(AnyPath)]
    BY DEF TablesOK, Table
  <2>2. Range(ids) \subseteq Nat \ {0} /\ IsFiniteSet(Range(ids))
    <3>1. ids \in Surjection(paths, Range(ids)) BY <1>3 DEF Surjection, Range
    <3>. QED BY <1>3, <3>1, FS_Surjection DEF Range
  <2>3. ASSUME NEW p \in paths PROVE e.node[ids[p]] \in Node(AnyPath)
    <3>1. Row(p).parent \in Nat
      <4>1. CASE Parent(p) \in paths BY <1>3, <4>1, <1>0
      <4>2. CASE Parent(p) \notin paths BY <1>0, <4>2, FindFacts
      <4>. QED BY <4>1, <4>2
    <3>2. Row(p).object \in Nat
      <4>1. CASE p \in files BY <1>4, <4>1, <1>0
      <4>2. CASE p \notin files BY <1>0, <4>2 DEF NoId
      <4>. QED BY <4>1, <4>2
    <3>3. Row(p).kind \in DirKinds \cup {"file"} BY <1>0 DEF DirKinds
    <3>4. Row(p) \in Node(AnyPath)
      <4>. PICK par, kin, obj : par = Row(p).parent /\ kin = Row(p).kind /\ obj = Row(p).object
        OBVIOUS
      <4>1. Row(p) = [parent |-> par, path |-> p, kind |-> kin, object |-> obj, state |-> "indexed"]
        BY <1>0
      <4>. QED BY <3>1, <3>2, <3>3, <4>1 DEF Node, States
    <3>. QED BY <1>9, <3>4
  <2>4. ASSUME NEW i \in DOMAIN e.node PROVE e.node[i] \in Node(AnyPath)
    <3>1. CASE e.node[i].path \in paths BY <1>15, <2>3, <3>1
    <3>2. CASE e.node[i].path \notin paths BY <1>13, <1>14, <2>1, <3>2
    <3>. QED BY <3>1, <3>2
  <2>5. IsFiniteSet(DOMAIN e.node) /\ DOMAIN e.node \subseteq Nat \ {0}
    <3>1. IsFiniteSet(DOMAIN d.node \cup Range(ids)) BY <2>1, <2>2, FS_Union
    <3>2. DOMAIN d.node \cup Range(ids) \subseteq Nat \ {0} BY <2>1, <2>2
    <3>. QED BY <1>9, <3>1, <3>2
  <2>. QED BY <1>9, <2>4, <2>5 DEF Table
<1>21. ASSUME NEW o \in DOMAIN e.object
       PROVE  \/ \E p \in files : o = obs[p] /\ e.object[o] = [at |-> p, status |-> "available"]
              \/ o \in DOMAIN d.object /\ o \notin Range(obs) /\ e.object[o] = d.object[o] /\ d.object[o].at \notin files
  <2>1. CASE o \in Range(obs) BY <1>6, <1>10, <2>1
  <2>2. CASE o \notin Range(obs)
    <3>1. o \in DOMAIN d.object /\ e.object[o] = d.object[o] BY <1>10, <2>2
    <3>2. d.object[o].at \notin files
      <4>1. ASSUME NEW p \in files, p = d.object[o].at PROVE FALSE
        <5>1. obs[p] = o BY <1>4, <3>1, <4>1
        <5>. QED BY <1>6, <2>2, <5>1
      <4>. QED BY <4>1
    <3>. QED BY <2>2, <3>1, <3>2
  <2>. QED BY <2>1, <2>2
<1>22. Table(e.object, Object(AnyPath))
  <2>1. DOMAIN d.object \subseteq Nat \ {0} /\ IsFiniteSet(DOMAIN d.object) /\ d.object \in [DOMAIN d.object -> Object(AnyPath)]
    BY DEF TablesOK, Table
  <2>2. Range(obs) \subseteq Nat \ {0} /\ IsFiniteSet(Range(obs))
    <3>1. obs \in Surjection(files, Range(obs)) BY <1>4 DEF Surjection, Range
    <3>. QED BY <1>1, <1>4, <3>1, FS_Surjection DEF Range
  <2>3. \A p \in files : [at |-> p, status |-> "available"] \in Object(AnyPath)
    BY DEF Object
  <2>4. \A o \in DOMAIN e.object : e.object[o] \in Object(AnyPath)
    <3>1. ASSUME NEW o \in DOMAIN e.object PROVE e.object[o] \in Object(AnyPath)
      <4>1. CASE \E p \in files : e.object[o] = [at |-> p, status |-> "available"] BY <2>3, <4>1
      <4>2. CASE o \in DOMAIN d.object /\ e.object[o] = d.object[o] BY <2>1, <4>2
      <4>. QED BY <1>21, <4>1, <4>2
    <3>. QED BY <3>1
  <2>5. IsFiniteSet(DOMAIN e.object) /\ DOMAIN e.object \subseteq Nat \ {0}
    <3>1. IsFiniteSet(DOMAIN d.object \cup Range(obs)) BY <2>1, <2>2, FS_Union
    <3>2. DOMAIN d.object \cup Range(obs) \subseteq Nat \ {0} BY <2>1, <2>2
    <3>. QED BY <1>10, <3>1, <3>2
  <2>. QED BY <1>10, <2>4, <2>5 DEF Table
<1>23. ASSUME NEW o \in DOMAIN e.object, NEW u \in DOMAIN e.object, e.object[o].at = e.object[u].at PROVE o = u
  <2>. DEFINE Placed(x) == \E p \in files : x = obs[p] /\ e.object[x] = [at |-> p, status |-> "available"]
              Same(x) == x \in DOMAIN d.object /\ e.object[x] = d.object[x] /\ d.object[x].at \notin files
  <2>0. /\ Placed(o) \/ Same(o)
        /\ Placed(u) \/ Same(u)
    BY <1>21
  <2>3. \A x : Placed(x) => e.object[x].at \in files /\ x = obs[e.object[x].at]
    OBVIOUS
  <2>4. \A x : Same(x) => e.object[x].at \notin files /\ x \in DOMAIN d.object /\ d.object[x].at = e.object[x].at
    OBVIOUS
  <2>. HIDE DEF Placed, Same
  <2>1. CASE e.object[o].at \in files BY <1>23, <2>0, <2>3, <2>4, <2>1
  <2>2. CASE e.object[o].at \notin files
    BY <1>23, <2>0, <2>3, <2>4, <2>2 DEF TablesOK, Locators
  <2>. QED BY <2>1, <2>2
<1>24. ASSUME NEW i \in DOMAIN e.node
       PROVE  IF e.node[i].kind = "file"
              THEN /\ e.node[i].object \in DOMAIN e.object /\ e.object[e.node[i].object].at = e.node[i].path
                   /\ e.node[i].state = "indexed" => e.object[e.node[i].object].status = "available"
              ELSE e.node[i].object = NoId
  <2>1. CASE e.node[i].path \in paths
    <3>1. PICK p \in paths : p = e.node[i].path /\ i = ids[p] BY <1>15, <2>1, SMTT(60)
    <3>4. UpsertedRow(e, i, p, files, obs) BY <1>30, <3>1
    <3>2. CASE p \in files
      <4>1. e.node[i].object = obs[p] BY <3>2, <3>4 DEF UpsertedRow
      <4>2. e.node[i].kind = "file" BY <3>2, <3>4 DEF UpsertedRow
      <4>. QED
        <5>1. PICK o : o = obs[p] /\ o = e.node[i].object BY <4>1
        <5>2. o \in DOMAIN e.object /\ e.object[o] = [at |-> p, status |-> "available"]
          BY <1>10, <3>2, <5>1
        <5>3. e.object[o].at = p /\ e.object[o].status = "available" BY <5>2
        <5>. QED BY <3>1, <4>2, <5>1, <5>2, <5>3, ZenonT(60)
    <3>3. CASE p \notin files
      <4>1. e.node[i].object = NoId BY <3>3, <3>4 DEF UpsertedRow
      <4>2. e.node[i].kind # "file" BY <3>3, <3>4, SMTT(60) DEF UpsertedRow
      <4>. QED BY <4>1, <4>2, SMTT(60)
    <3>. QED BY <3>2, <3>3
  <2>2. CASE e.node[i].path \notin paths
    <3>1. i \in DOMAIN d.node /\ e.node[i] = d.node[i] BY <1>13, <1>14, <2>2
    <3>2. IF d.node[i].kind = "file"
          THEN /\ d.node[i].object \in DOMAIN d.object /\ d.object[d.node[i].object].at = d.node[i].path
               /\ d.node[i].state = "indexed" => d.object[d.node[i].object].status = "available"
          ELSE d.node[i].object = NoId
      BY <3>1, SMTT(60) DEF TablesOK, Locators
    <3>3. CASE d.node[i].kind = "file"
      <4>1. PICK o \in DOMAIN d.object : o = d.node[i].object /\ d.object[o].at = d.node[i].path
        BY <3>2, <3>3
      <4>2. d.object[o].at \notin files BY <2>2, <3>1, <4>1
      <4>3. o \notin Range(obs) BY <1>4, <1>6, <4>2
      <4>. QED BY <1>10, <3>1, <3>2, <3>3, <4>1, <4>3
    <3>4. CASE d.node[i].kind # "file" BY <3>1, <3>2, <3>4
    <3>. QED BY <3>3, <3>4
  <2>. QED BY <2>1, <2>2
<1>25. TablesOK(e)
  BY <1>23, <1>24, <1>8, <1>18, <1>19, <1>20, <1>22 DEF Locators, TablesOK
<1>26. \A p \in paths : Find(e, p) # NoId
  <2>. SUFFICES ASSUME NEW p \in paths PROVE Find(e, p) # NoId OBVIOUS
  <2>1. ids[p] \in DOMAIN e.node /\ e.node[ids[p]].path = p BY <1>9, <1>12, SMTT(60)
  <2>. QED BY <1>25, <2>1, FindFacts
<1>27. ASSUME NEW i \in DOMAIN e.node, e.node[i].path \in paths
       PROVE  /\ e.node[i].state = "indexed"
              /\ e.node[i].path \in files => e.node[i].kind = "file"
              /\ e.node[i].path \notin files => e.node[i].kind = IF Len(e.node[i].path) = 1 THEN "mount" ELSE "dir"
  <2>1. PICK p \in paths : p = e.node[i].path /\ i = ids[p] BY <1>15, <1>27, SMTT(60)
  <2>2. UpsertedRow(e, i, p, files, obs) BY <1>30, <2>1
  <2>. QED BY <2>1, <2>2 DEF UpsertedRow
<1>28. \A i \in DOMAIN e.node : i \in DOMAIN d.node \/ e.node[i].path \in paths
  BY <1>14
<1>29. Upserted(d, e, paths, files) BY <1>13, <1>26, <1>27, <1>28 DEF Upserted
<1>. QED BY <1>25, <1>29 DEF e

-----------------------------------------------------------------------------
(* The operations of the metadata services *)

\* A node as a record
LEMMA RowFacts ==
    ASSUME NEW d, TablesOK(d), NEW i \in DOMAIN d.node
    PROVE  /\ d.node[i] = [parent |-> d.node[i].parent, path |-> d.node[i].path, kind |-> d.node[i].kind,
                           object |-> d.node[i].object, state |-> d.node[i].state]
           /\ d.node[i].parent \in Nat /\ d.node[i].path \in AnyPath
           /\ d.node[i].kind \in DirKinds \cup {"file"}
           /\ d.node[i].object \in Nat /\ d.node[i].state \in States
BY NodeFacts DEF Node

LEMMA ObjectFacts ==
    ASSUME NEW d, TablesOK(d), NEW o \in DOMAIN d.object
    PROVE  /\ d.object[o] = [at |-> d.object[o].at, status |-> d.object[o].status]
           /\ d.object[o].at \in AnyPath /\ d.object[o].status \in {"available", "missing"}
           /\ o \in Nat /\ o # NoId
<1>1. d.object[o] \in Object(AnyPath) /\ o \in Nat \ {0} BY SMTT(60) DEF TablesOK, Table
<1>. QED BY <1>1 DEF Object, NoId

\* A file's object
LEMMA FileFacts ==
    ASSUME NEW d, TablesOK(d), NEW i \in DOMAIN d.node
    PROVE  /\ d.node[i].object # NoId => d.node[i].kind = "file"
           /\ d.node[i].kind # "file" => d.node[i].object = NoId
           /\ d.node[i].kind = "file" => /\ d.node[i].object \in DOMAIN d.object
                                         /\ d.node[i].object # NoId
                                         /\ d.object[d.node[i].object].at = d.node[i].path
                                         /\ FindObject(d, d.node[i].path) = d.node[i].object
                                         /\ d.node[i].state = "indexed" =>
                                              d.object[d.node[i].object].status = "available"
<1>1. IF d.node[i].kind = "file"
      THEN /\ d.node[i].object \in DOMAIN d.object /\ d.object[d.node[i].object].at = d.node[i].path
           /\ d.node[i].state = "indexed" => d.object[d.node[i].object].status = "available"
      ELSE d.node[i].object = NoId
  BY SMTT(60) DEF TablesOK, Locators
<1>2. CASE d.node[i].kind = "file" BY <1>1, <1>2, ObjectFacts, FindObjectFacts, SMTT(60)
<1>3. CASE d.node[i].kind # "file" BY <1>1, <1>3
<1>. QED BY <1>2, <1>3

LEMMA RootFacts ==
    ASSUME NEW d, TablesOK(d)
    PROVE  /\ Find(d, Root) # NoId /\ Find(d, Root) \in DOMAIN d.node
           /\ \A i \in DOMAIN d.node : d.node[i].path = Root => d.node[i].parent = NoId
<1>1. \E i \in DOMAIN d.node : d.node[i].path = Root BY DEF TablesOK
<1>2. \A i \in DOMAIN d.node : d.node[i].path = Root => d.node[i].parent = NoId
  BY DEF TablesOK, IsTree
<1>. QED BY <1>1, <1>2, FindFacts

LEMMA MetaMkdirOK ==
    ASSUME NEW d, TablesOK(d), NEW path \in AnyPath, path # Root
    PROVE  /\ TablesOK(MetaMkdir(d, path).db)
           /\ MetaMkdir(d, path).err = "none" =>
                /\ Find(d, path) = NoId
                /\ Upserted(d, MetaMkdir(d, path).db, {path}, {})
           /\ MetaMkdir(d, path).err # "none" => MetaMkdir(d, path).db = d
<1>. PICK r : r = MetaMkdir(d, path) OBVIOUS
<1>. PICK parent \in Nat : parent = Find(d, Parent(path)) BY FindFacts
<1>1. CASE parent # NoId /\ IsDir(d, parent) /\ Find(d, path) = NoId
  <2>1. r = Result("none", Upsert(d, {path}, {})) BY <1>1 DEF MetaMkdir
  <2>2. r.err = "none" /\ r.db = Upsert(d, {path}, {}) BY <2>1 DEF Result
  <2>3. IsFiniteSet({path}) /\ {} \in SUBSET {path} /\ {path} \in SUBSET AnyPath
    BY FS_Singleton
  <2>4. \A p \in {path} : Parent(p) \in {path} \/ Find(d, Parent(p)) # NoId
    BY <1>1
  <2>5. TablesOK(Upsert(d, {path}, {})) /\ Upserted(d, Upsert(d, {path}, {}), {path}, {})
    BY <2>3, <2>4, UpsertOK
  <2>. QED BY <1>1, <2>2, <2>5
<1>2. CASE ~(parent # NoId /\ IsDir(d, parent) /\ Find(d, path) = NoId)
  BY <1>2 DEF MetaMkdir, Result
<1>. QED BY <1>1, <1>2

\* What a move of the node of a path makes of the tables
Moved(d, e, old, new) ==
    /\ DOMAIN e.node = DOMAIN d.node
    /\ \A i \in DOMAIN d.node :
         /\ e.node[i].state = d.node[i].state /\ e.node[i].kind = d.node[i].kind
         /\ IsSubPath(old, d.node[i].path) => e.node[i].path = Rewrite(d.node[i].path, old, new)
         /\ ~IsSubPath(old, d.node[i].path) => e.node[i].path = d.node[i].path

LEMMA RewriteParent ==
    ASSUME NEW old \in AnyPath, NEW new \in AnyPath, NEW p \in AnyPath, IsSubPath(old, p), p # old
    PROVE  /\ Parent(Rewrite(p, old, new)) = Rewrite(Parent(p), old, new)
           /\ Rewrite(p, old, new) # Root
           /\ Rewrite(p, old, new) # new
<1>1. \A q \in AnyPath : IsSubPath(old, q) /\ q # old =>
        /\ Parent(Rewrite(q, old, new)) = Rewrite(Parent(q), old, new)
        /\ Rewrite(q, old, new) # Root /\ Rewrite(q, old, new) # new
  BY RewritePath, Zenon
<1>. QED BY <1>1

LEMMA TablesSet ==
    ASSUME NEW d, TablesOK(d), NEW n, NEW o
    PROVE  [d EXCEPT !.node = n, !.object = o] = [node |-> n, object |-> o]
<1>. DEFINE F(x) == n
            G(x) == o
            e == [d EXCEPT !.node = F(d), !.object = G(d)]
<1>0. e = [d EXCEPT !.node = F(d), !.object = G(d)] OBVIOUS
<1>1. d = [node |-> d.node, object |-> d.object] BY DEF TablesOK
<1>2. e = [node |-> F(d), object |-> G(d)]
  <2>. HIDE DEF F, G, e
  <2>. QED BY <1>0, <1>1
<1>. QED BY <1>2

LEMMA MoveSubtreeOK ==
    ASSUME NEW d, TablesOK(d), NEW id \in DOMAIN d.node, d.node[id].path # Root,
           NEW newParent \in DOMAIN d.node, NEW newPath \in AnyPath, newPath # Root,
           d.node[newParent].path = Parent(newPath),
           ~IsSubPath(d.node[id].path, d.node[newParent].path)
    PROVE  /\ TablesOK(MoveSubtree(d, id, newParent, newPath).db)
           /\ MoveSubtree(d, id, newParent, newPath).err \in {"none", "conflict"}
           /\ MoveSubtree(d, id, newParent, newPath).err # "none" => MoveSubtree(d, id, newParent, newPath).db = d
           /\ MoveSubtree(d, id, newParent, newPath).err = "none" =>
                Moved(d, MoveSubtree(d, id, newParent, newPath).db, d.node[id].path, newPath)
<1>. PICK r : r = MoveSubtree(d, id, newParent, newPath) OBVIOUS
<1>0. d.node[id].path \in AnyPath BY NodeFacts, SMTT(60)
<1>. DEFINE old == d.node[id].path
            To(path) == Rewrite(path, old, newPath)
            moved == Subtree(d, old)
            objects == {d.node[i].object : i \in moved} \ {NoId}
            taken == \/ \E i \in moved : Find(d, To(d.node[i].path)) \notin moved \cup {NoId}
                     \/ \E o \in objects : FindObject(d, To(d.object[o].at)) \notin objects \cup {NoId}
            node == [i \in DOMAIN d.node |->
                       IF i = id THEN [d.node[i] EXCEPT !.parent = newParent, !.path = newPath]
                       ELSE IF i \in moved THEN [d.node[i] EXCEPT !.path = To(d.node[i].path)]
                       ELSE d.node[i]]
            object == [o \in DOMAIN d.object |->
                         IF o \in objects THEN [d.object[o] EXCEPT !.at = To(d.object[o].at)] ELSE d.object[o]]
<1>1. r = IF taken THEN Result("conflict", d) ELSE Result("none", [d EXCEPT !.node = node, !.object = object])
  BY DEF MoveSubtree
<1>. old \in AnyPath /\ old = d.node[id].path /\ old # Root BY <1>0
<1>. HIDE DEF old
<1>2. CASE taken
  <2>. HIDE DEF taken, node, object
  <2>1. r = Result("conflict", d) BY <1>1, <1>2
  <2>2. r.db = d /\ r.err = "conflict" BY <2>1 DEF Result
  <2>. QED BY <2>2
<1>3. CASE ~taken
  <2>. PICK e : e = r.db OBVIOUS
  <2>1. r.err = "none" /\ e = [node |-> node, object |-> object]
    <3>. HIDE DEF node, object, taken
    <3>1. r = Result("none", [d EXCEPT !.node = node, !.object = object])
      BY <1>1, <1>3
    <3>2. [d EXCEPT !.node = node, !.object = object] = [node |-> node, object |-> object]
      BY TablesSet, ZenonT(150)
    <3>. QED BY <3>1, <3>2 DEF Result
  <2>2. e = [node |-> e.node, object |-> e.object] /\ e.node = node /\ e.object = object
    <3>. HIDE DEF node, object
    <3>. QED BY <2>1
  <2>3. /\ \A i \in moved : Find(d, To(d.node[i].path)) \in moved \cup {NoId}
        /\ \A o \in objects : FindObject(d, To(d.object[o].at)) \in objects \cup {NoId}
    BY <1>3
  <2>. HIDE DEF taken
  <2>4. /\ \A i : i \in moved <=> i \in DOMAIN d.node /\ IsSubPath(old, d.node[i].path)
        /\ \A o : o \in objects <=> o # NoId /\ \E i \in moved : o = d.node[i].object
    BY DEF Subtree
  <2>5. id \in moved /\ \A i \in moved : d.node[i].path = old => i = id
    BY SubPathOrder, <2>4 DEF TablesOK, IsTree
  <2>6. DOMAIN e.node = DOMAIN d.node /\ DOMAIN e.object = DOMAIN d.object
    BY <2>2
  <2>. DEFINE Retained(i) == /\ e.node[i].kind = d.node[i].kind /\ e.node[i].object = d.node[i].object
                         /\ e.node[i].state = d.node[i].state
  <2>7. ASSUME NEW i \in DOMAIN d.node
        PROVE  /\ Retained(i) /\ e.node[i] \in Node(AnyPath)
               /\ i \in moved => e.node[i].path = To(d.node[i].path)
               /\ i \notin moved => e.node[i] = d.node[i]
               /\ e.node[i].parent = IF i = id THEN newParent ELSE d.node[i].parent
    <3>1. d.node[i] \in Node(AnyPath) /\ newParent \in Nat BY NodeFacts
    <3>2. CASE i = id
      <4>1. e.node[i] = [d.node[i] EXCEPT !.parent = newParent, !.path = newPath]
        BY <2>2, <3>2
      <4>2. newPath = To(d.node[i].path) BY <3>2, RewritePath
      <4>. HIDE DEF To
      <4>. QED BY <2>5, <3>1, <3>2, <4>1, <4>2, ZenonT(60) DEF Node
    <3>3. CASE i # id /\ i \in moved
      <4>1. e.node[i] = [d.node[i] EXCEPT !.path = To(d.node[i].path)]
        BY <2>2, <3>3
      <4>2. To(d.node[i].path) \in AnyPath BY NodeFacts, RewritePath
      <4>. HIDE DEF To
      <4>. QED BY <3>1, <3>3, <4>1, <4>2, SMTT(60) DEF Node
    <3>4. CASE i # id /\ i \notin moved
      <4>1. e.node[i] = d.node[i] BY <2>2, <3>4, ZenonT(60)
      <4>. QED BY <3>1, <3>4, <4>1
    <3>. QED BY <3>2, <3>3, <3>4
  <2>8. ASSUME NEW o \in DOMAIN d.object
        PROVE  /\ e.object[o].status = d.object[o].status /\ e.object[o] \in Object(AnyPath)
               /\ o \in objects => e.object[o].at = To(d.object[o].at)
               /\ o \notin objects => e.object[o] = d.object[o]
    <3>1. d.object[o] \in Object(AnyPath) /\ d.object[o].at \in AnyPath
      BY ObjectFacts DEF TablesOK, Table
    <3>2. CASE o \in objects
      <4>1. e.object[o] = [d.object[o] EXCEPT !.at = To(d.object[o].at)]
        BY <2>2, <3>2
      <4>2. To(d.object[o].at) \in AnyPath BY <3>1, RewritePath
      <4>. HIDE DEF To, objects
      <4>. QED BY <3>1, <3>2, <4>1, <4>2, SMTT(60) DEF Object
    <3>3. CASE o \notin objects BY <2>2, <3>3, ZenonT(60), <3>1
    <3>. QED BY <3>2, <3>3
  <2>9. e.node = [i \in DOMAIN e.node |-> e.node[i]] /\ e.object = [o \in DOMAIN e.object |-> e.object[o]]
    BY <2>2, ZenonT(60)
  <2>. HIDE DEF node, object, moved, objects
  <2>10. Table(e.node, Node(AnyPath)) /\ Table(e.object, Object(AnyPath))
    BY <2>6, <2>7, <2>8, <2>9 DEF TablesOK, Table
  <2>11. \A i, j \in DOMAIN d.node : d.node[i].path = d.node[j].path => i = j
    BY DEF TablesOK, IsTree
  <2>12. \A i \in DOMAIN d.node : d.node[i].path \in AnyPath BY NodeFacts, SMTT(60)
  <2>13. ASSUME NEW i \in moved, NEW j \in DOMAIN d.node, j \notin moved, e.node[i].path = e.node[j].path PROVE FALSE
    BY <2>4, <2>7, <2>13, FindFacts, NodeFacts, <2>3, SMTT(60)
  <2>14. ASSUME NEW i \in DOMAIN e.node, NEW j \in DOMAIN e.node, e.node[i].path = e.node[j].path PROVE i = j
    <3>1. CASE i \in moved /\ j \in moved
      <4>1. To(d.node[i].path) = To(d.node[j].path) /\ IsSubPath(old, d.node[i].path) /\ IsSubPath(old, d.node[j].path)
        BY <2>4, <2>6, <2>7, <2>14, <3>1
      <4>2. d.node[i].path = d.node[j].path
        BY <2>6, <2>12, <4>1, RewritePath, ZenonT(150)
      <4>. QED BY <2>6, <2>11, <4>2
    <3>2. CASE i \notin moved /\ j \notin moved
      BY <2>6, <2>7, <2>11, <2>14, <3>2
    <3>. QED BY <2>6, <2>13, <2>14, <3>1, <3>2
  <2>15. newParent \notin moved BY <2>4
  <2>16. ASSUME NEW i \in DOMAIN e.node
         PROVE  IF e.node[i].path = Root THEN e.node[i].parent = NoId
                ELSE e.node[i].parent \in DOMAIN e.node /\ e.node[e.node[i].parent].path = Parent(e.node[i].path)
    <3>1. CASE i = id
      <4>1. e.node[i].parent = newParent /\ e.node[i].path = newPath
        BY <2>5, <2>7, <3>1, RewritePath, ZenonT(60)
      <4>2. e.node[newParent].path = Parent(newPath) BY <2>7, <2>15
      <4>. QED BY <2>6, <4>1, <4>2
    <3>2. CASE i # id /\ i \in moved
      <4>. PICK p \in AnyPath : p = d.node[i].path BY <2>6, <2>12
      <4>1. IsSubPath(old, p) /\ p # old BY <2>4, <2>5, <3>2
      <4>2. p # Root /\ IsSubPath(old, Parent(p)) BY <4>1, ParentOrder
      <4>. PICK j \in DOMAIN d.node : j = d.node[i].parent /\ d.node[j].path = Parent(p)
        BY <2>6, <4>2, NodeFacts
      <4>3. j \in moved BY <2>4, <4>2
      <4>4. e.node[j].path = To(Parent(p)) /\ e.node[i].path = To(p) /\ e.node[i].parent = j
        BY <2>6, <2>7, <3>2, <4>3
      <4>5. Parent(To(p)) = To(Parent(p)) /\ To(p) # Root BY RewriteParent, <4>1
      <4>. QED BY <2>6, <4>4, <4>5
    <3>3. CASE i \notin moved
      <4>1. e.node[i] = d.node[i] BY <2>6, <2>7, <3>3
      <4>2. CASE d.node[i].path = Root BY <2>6, <4>2, RootFacts, <4>1
      <4>3. CASE d.node[i].path # Root
        <5>. PICK j \in DOMAIN d.node : j = d.node[i].parent /\ d.node[j].path = Parent(d.node[i].path)
          BY <2>6, <4>3, NodeFacts
        <5>1. j \notin moved
          BY <2>6, <2>12, ParentOrder, <2>4, <3>3, SubPathOrder
        <5>2. e.node[j] = d.node[j] BY <2>7, <5>1, SMTT(60)
        <5>. QED BY <2>6, <4>1, <4>3, <5>2
      <4>. QED BY <4>2, <4>3
    <3>. QED BY <3>1, <3>2, <3>3
  <2>17. IsTree(e) BY <2>14, <2>16 DEF IsTree
  <2>18. \E i \in DOMAIN e.node : e.node[i].path = Root
    <3>. PICK i \in DOMAIN d.node : d.node[i].path = Root BY DEF TablesOK
    <3>1. ~IsSubPath(old, Root) BY SubPathOrder, PathLen
    <3>2. i \notin moved BY <2>4, <3>1, SMTT(60)
    <3>. QED BY <2>6, <2>7, <3>2
  <2>19. ASSUME NEW o \in objects
         PROVE  \E i \in moved : /\ o = d.node[i].object /\ d.node[i].kind = "file"
                                 /\ o \in DOMAIN d.object /\ d.object[o].at = d.node[i].path
    <3>. PICK i \in moved : o = d.node[i].object /\ o # NoId BY <2>4
    <3>1. i \in DOMAIN d.node BY <2>4, SMTT(60)
    <3>. QED BY <3>1, FileFacts
  <2>20. ASSUME NEW i \in DOMAIN e.node, e.node[i].kind = "file"
         PROVE  /\ e.node[i].object \in DOMAIN e.object /\ e.object[e.node[i].object].at = e.node[i].path
                /\ e.node[i].state = "indexed" => e.object[e.node[i].object].status = "available"
    <3>1. i \in DOMAIN d.node /\ Retained(i) /\ d.node[i].kind = "file"
      BY <2>6, <2>7, <2>20, SMTT(60)
    <3>. PICK o \in DOMAIN d.object :
           /\ o = d.node[i].object /\ o # NoId /\ d.object[o].at = d.node[i].path
           /\ d.node[i].state = "indexed" => d.object[o].status = "available"
      BY <3>1, FileFacts, SMTT(60)
    <3>2. CASE i \in moved BY <2>4, <3>2, <2>7, <2>8, <3>1, <2>6, SMTT(60)
    <3>3. CASE i \notin moved
      <4>1. o \notin objects
        <5>. SUFFICES ASSUME o \in objects PROVE FALSE OBVIOUS
        <5>. PICK j \in moved : d.object[o].at = d.node[j].path BY <2>19
        <5>1. j \in DOMAIN d.node /\ d.node[j].path = d.node[i].path BY <2>4, SMTT(60)
        <5>. QED BY <2>11, <3>1, <3>3, <5>1
      <4>. QED BY <2>6, <2>7, <2>8, <3>1, <3>3, <4>1, SMTT(60)
    <3>. QED BY <3>2, <3>3, ZenonT(60)
  <2>21. ASSUME NEW i \in DOMAIN e.node, e.node[i].kind # "file" PROVE e.node[i].object = NoId
    BY <2>6, <2>7, <2>21, FileFacts, SMTT(60)
  <2>22. ASSUME NEW o \in objects, NEW u \in DOMAIN d.object, u \notin objects, e.object[o].at = e.object[u].at PROVE FALSE
    BY <2>19, <2>8, <2>22, FindObjectFacts, ObjectFacts, <2>3
  <2>23. ASSUME NEW o \in DOMAIN e.object, NEW u \in DOMAIN e.object, e.object[o].at = e.object[u].at PROVE o = u
    <3>0. \A x, y \in DOMAIN d.object : d.object[x].at = d.object[y].at => x = y
      BY DEF TablesOK, Locators
    <3>1. CASE o \in objects /\ u \in objects
      <4>1. To(d.object[o].at) = To(d.object[u].at) BY <2>6, <2>8, <2>23, <3>1
      <4>2. \A x \in objects : x \in DOMAIN d.object /\ IsSubPath(old, d.object[x].at)
        BY <2>4, <2>19
      <4>3. d.object[o].at \in AnyPath /\ d.object[u].at \in AnyPath
        BY <2>6, ObjectFacts
      <4>4. d.object[o].at = d.object[u].at
        <5>1. \A p, q \in AnyPath : IsSubPath(old, p) /\ IsSubPath(old, q)
                                      /\ Rewrite(p, old, newPath) = Rewrite(q, old, newPath) => p = q
          BY RewritePath, SMTT(60)
        <5>. QED BY <3>1, <4>1, <4>2, <4>3, <5>1
      <4>. QED BY <2>6, <3>0, <4>4
    <3>2. CASE o \notin objects /\ u \notin objects
      BY <2>6, <2>8, <2>23, <3>0, <3>2
    <3>. QED BY <2>6, <2>22, <2>23, <3>1, <3>2
  <2>24. Locators(e) BY <2>20, <2>21, <2>23, ZenonT(60) DEF Locators
  <2>25. TablesOK(e) BY <2>2, <2>10, <2>17, <2>18, <2>24 DEF TablesOK
  <2>26. Moved(d, e, old, newPath) BY <2>4, <2>6, <2>7 DEF Moved
  <2>. QED BY <2>1, <2>25, <2>26
<1>. QED BY <1>2, <1>3

LEMMA MetaRenameOK ==
    ASSUME NEW d, TablesOK(d), NEW path \in AnyPath, path # Root, NEW name \in Segments
    PROVE  /\ TablesOK(MetaRename(d, path, name).db)
           /\ MetaRename(d, path, name).err # "none" => MetaRename(d, path, name).db = d
           /\ MetaRename(d, path, name).err = "none" =>
                /\ Find(d, path) # NoId /\ Find(d, Join(Parent(path), name)) = NoId
                /\ Moved(d, MetaRename(d, path, name).db, path, Join(Parent(path), name))
           /\ MetaRename(d, path, name).err = "notfound" => Find(d, path) = NoId
<1>. PICK r : r = MetaRename(d, path, name) OBVIOUS
<1>. PICK new \in AnyPath : new = Join(Parent(path), name) /\ new # Root /\ Parent(new) = Parent(path)
  BY ParentPath, JoinPath
<1>. PICK id \in Nat : id = Find(d, path) BY FindFacts
<1>1. CASE id # NoId /\ d.node[id].kind # "mount" /\ Find(d, new) = NoId
  <2>. PICK q \in DOMAIN d.node : q = d.node[id].parent /\ d.node[q].path = Parent(path)
    BY <1>1, FindFacts, NodeFacts
  <2>1. r = MoveSubtree(d, id, q, new) BY <1>1 DEF MetaRename
  <2>2. id \in DOMAIN d.node /\ d.node[id].path = path BY <1>1, FindFacts
  <2>3. ~IsSubPath(path, Parent(path)) BY ParentOrder
  <2>4. /\ TablesOK(r.db) /\ r.err # "notfound"
        /\ r.err # "none" => r.db = d
        /\ r.err = "none" => Moved(d, r.db, path, new)
    BY <2>1, <2>2, <2>3, MoveSubtreeOK, SMTT(60)
  <2>. QED BY <1>1, <2>4
<1>2. CASE ~(id # NoId /\ d.node[id].kind # "mount" /\ Find(d, new) = NoId)
  BY <1>2 DEF MetaRename, Result
<1>. QED BY <1>1, <1>2

LEMMA MetaMoveOK ==
    ASSUME NEW d, TablesOK(d), NEW path \in AnyPath, path # Root, NEW target \in AnyPath
    PROVE  /\ TablesOK(MetaMove(d, path, target).db)
           /\ MetaMove(d, path, target).err # "none" => MetaMove(d, path, target).db = d
           /\ MetaMove(d, path, target).err = "none" =>
                /\ Find(d, path) # NoId /\ ~IsSubPath(path, target)
                /\ target # Parent(path) =>
                     /\ Find(d, Join(target, Last(path))) = NoId
                     /\ Moved(d, MetaMove(d, path, target).db, path, Join(target, Last(path)))
           /\ MetaMove(d, path, target).err = "notfound" => Find(d, path) = NoId \/ Find(d, target) = NoId
<1>. PICK r : r = MetaMove(d, path, target) OBVIOUS
<1>. PICK new \in AnyPath : new = Join(target, Last(path)) /\ new # Root /\ Parent(new) = target
  BY JoinPath
<1>. PICK id \in Nat : id = Find(d, path) BY FindFacts
<1>. PICK dir \in Nat : dir = Find(d, target) BY FindFacts
<1>. DEFINE valid == id # NoId /\ dir # NoId /\ IsDir(d, dir) /\ ~IsSubPath(path, target)
<1>1. CASE valid /\ d.node[id].parent # dir /\ Find(d, new) = NoId
  BY <1>1, FindFacts, MoveSubtreeOK DEF MetaMove
<1>2. CASE valid /\ d.node[id].parent = dir
  <2>1. r = Result("none", d) BY <1>2 DEF MetaMove
  <2>2. r.err = "none" /\ r.db = d BY <2>1 DEF Result
  <2>3. id \in DOMAIN d.node /\ d.node[id].path = path /\ dir \in DOMAIN d.node /\ d.node[dir].path = target
    BY <1>2, FindFacts
  <2>4. target = Parent(path) BY <1>2, <2>3, NodeFacts
  <2>. QED BY <1>2, <2>2, <2>4
<1>3. CASE ~valid \/ (d.node[id].parent # dir /\ Find(d, new) # NoId)
  <2>1. \/ r = Result("notfound", d) /\ (id = NoId \/ dir = NoId)
        \/ r = Result("invalid", d)
        \/ r = Result("conflict", d)
    <3>1. CASE id = NoId \/ dir = NoId BY <3>1 DEF MetaMove
    <3>2. CASE id # NoId /\ dir # NoId /\ ~valid BY <3>2 DEF MetaMove
    <3>3. CASE valid /\ d.node[id].parent # dir /\ Find(d, new) # NoId
      BY <3>3 DEF MetaMove
    <3>. QED BY <1>3, <3>1, <3>2, <3>3
  <2>2. r.err # "none" /\ r.db = d /\ (r.err = "notfound" => id = NoId \/ dir = NoId)
    BY <2>1 DEF Result
  <2>. QED BY <2>2
<1>. QED BY <1>1, <1>2, <1>3

\* What a deletion leaves of the tables
Removed(d, e, path) ==
    /\ \A i : i \in DOMAIN e.node <=> i \in DOMAIN d.node /\ ~IsSubPath(path, d.node[i].path)
    /\ \A i \in DOMAIN e.node : e.node[i] = d.node[i]

LEMMA MetaDeleteOK ==
    ASSUME NEW d, TablesOK(d), NEW path \in AnyPath, path # Root
    PROVE  /\ TablesOK(MetaDelete(d, path).db)
           /\ MetaDelete(d, path).err # "none" => MetaDelete(d, path).db = d
           /\ MetaDelete(d, path).err = "none" <=> Find(d, path) # NoId
           /\ MetaDelete(d, path).err = "none" => Removed(d, MetaDelete(d, path).db, path)
           /\ MetaDelete(d, path).err \in {"none", "notfound"}
<1>. PICK r : r = MetaDelete(d, path) OBVIOUS
<1>1. CASE Find(d, path) = NoId BY <1>1 DEF MetaDelete, Result
<1>2. CASE Find(d, path) # NoId
  <2>. DEFINE left == DOMAIN d.node \ Subtree(d, path)
              node == [i \in left |-> d.node[i]]
  <2>1. r = Result("none", [d EXCEPT !.node = node])
    BY <1>2 DEF MetaDelete, Restrict
  <2>. PICK e : e = r.db OBVIOUS
  <2>2. r.err = "none" /\ e = [d EXCEPT !.node = node]
    <3>. HIDE DEF node
    <3>. QED BY <2>1 DEF Result
  <2>3. e = [node |-> e.node, object |-> d.object] /\ e.node = node /\ e.object = d.object
    <3>1. d = [node |-> d.node, object |-> d.object] BY DEF TablesOK
    <3>. HIDE DEF node
    <3>2. e = [node |-> node, object |-> d.object] BY <2>2, <3>1
    <3>. QED BY <3>2
  <2>4. /\ \A i : i \in DOMAIN e.node <=> i \in DOMAIN d.node /\ ~IsSubPath(path, d.node[i].path)
        /\ \A i \in DOMAIN e.node : e.node[i] = d.node[i]
        /\ e.node = [i \in DOMAIN e.node |-> e.node[i]]
    BY <2>3 DEF Subtree
  <2>. HIDE DEF node
  <2>5. Table(e.node, Node(AnyPath)) /\ Table(e.object, Object(AnyPath))
    <3>1. IsFiniteSet(DOMAIN e.node) BY <2>4, FS_Subset DEF TablesOK, Table
    <3>. QED BY <2>3, <2>4, <3>1 DEF TablesOK, Table
  <2>6. IsTree(e)
    <3>1. ASSUME NEW i \in DOMAIN e.node
          PROVE  IF e.node[i].path = Root THEN e.node[i].parent = NoId
                 ELSE e.node[i].parent \in DOMAIN e.node /\ e.node[e.node[i].parent].path = Parent(e.node[i].path)
      <4>1. i \in DOMAIN d.node /\ e.node[i] = d.node[i] /\ ~IsSubPath(path, d.node[i].path)
        BY <2>4
      <4>2. CASE d.node[i].path = Root BY <4>1, <4>2, RootFacts
      <4>3. CASE d.node[i].path # Root
        <5>. PICK j \in DOMAIN d.node : j = d.node[i].parent /\ d.node[j].path = Parent(d.node[i].path)
          BY <4>1, <4>3, NodeFacts, SMTT(60)
        <5>1. ~IsSubPath(path, Parent(d.node[i].path))
          BY <4>1, NodeFacts, ParentOrder, SubPathOrder
        <5>2. j \in DOMAIN e.node /\ e.node[j] = d.node[j] BY <2>4, <5>1
        <5>. QED BY <4>1, <4>3, <5>2
      <4>. QED BY <4>2, <4>3
    <3>2. \A i, j \in DOMAIN e.node : e.node[i].path = e.node[j].path => i = j
      BY <2>4 DEF TablesOK, IsTree
    <3>. QED BY <3>1, <3>2, SMTT(60) DEF IsTree
  <2>7. \E i \in DOMAIN e.node : e.node[i].path = Root
    <3>. PICK i \in DOMAIN d.node : d.node[i].path = Root BY DEF TablesOK
    <3>1. ~IsSubPath(path, Root) BY SubPathOrder, PathLen
    <3>. QED BY <2>4, <3>1
  <2>8. Locators(e) BY <2>3, <2>4 DEF TablesOK, Locators
  <2>9. TablesOK(e) BY <2>3, <2>5, <2>6, <2>7, <2>8 DEF TablesOK
  <2>10. Removed(d, e, path) BY <2>4 DEF Removed
  <2>. QED BY <1>2, <2>2, <2>9, <2>10
<1>. QED BY <1>1, <1>2

\* A directory's state, set
SetState(d, id, s) == [d EXCEPT !.node[id].state = s]

LEMMA StateOK ==
    ASSUME NEW d, TablesOK(d), NEW id \in DOMAIN d.node, d.node[id].kind # "file", NEW s \in States,
           NEW e, e = SetState(d, id, s)
    PROVE  /\ TablesOK(e) /\ DOMAIN e.node = DOMAIN d.node
           /\ e.node[id].state = s /\ e.node[id].kind = d.node[id].kind
           /\ \A i \in DOMAIN d.node : e.node[i].path = d.node[i].path /\ (i # id => e.node[i] = d.node[i])
<1>. DEFINE node == [d.node EXCEPT ![id] = [d.node[id] EXCEPT !.state = s]]
<1>1. e = [node |-> e.node, object |-> e.object] /\ e.node = node /\ e.object = d.object
  <2>1. d = [node |-> d.node, object |-> d.object] BY DEF TablesOK
  <2>2. e = [d EXCEPT !.node = node] BY DEF SetState
  <2>. HIDE DEF node
  <2>3. e = [node |-> node, object |-> d.object] BY <2>1, <2>2
  <2>. QED BY <2>3
<1>2. d.node = [i \in DOMAIN d.node |-> d.node[i]] BY DEF TablesOK, Table
<1>3. /\ DOMAIN e.node = DOMAIN d.node /\ e.node = [i \in DOMAIN e.node |-> e.node[i]]
      /\ \A i \in DOMAIN d.node : i # id => e.node[i] = d.node[i]
      /\ e.node[id] = [d.node[id] EXCEPT !.state = s]
  BY <1>1, <1>2
<1>. HIDE DEF node
<1>4. /\ e.node[id].state = s /\ e.node[id].kind = d.node[id].kind /\ e.node[id].path = d.node[id].path
      /\ e.node[id].object = d.node[id].object /\ e.node[id].parent = d.node[id].parent
      /\ e.node[id] \in Node(AnyPath)
  BY <1>3, NodeFacts, SMTT(60) DEF Node
<1>5. \A i \in DOMAIN d.node : /\ e.node[i] \in Node(AnyPath) /\ e.node[i].path = d.node[i].path
                               /\ e.node[i].parent = d.node[i].parent /\ e.node[i].kind = d.node[i].kind
                               /\ e.node[i].object = d.node[i].object
                               /\ e.node[i].kind = "file" => e.node[i].state = d.node[i].state
  BY <1>3, <1>4, NodeFacts, ZenonT(60)
<1>6. Table(e.node, Node(AnyPath)) /\ Table(e.object, Object(AnyPath))
  BY <1>1, <1>3, <1>5 DEF TablesOK, Table
<1>7. IsTree(e)
  <2>1. ASSUME NEW i \in DOMAIN e.node
        PROVE  IF e.node[i].path = Root THEN e.node[i].parent = NoId
               ELSE e.node[i].parent \in DOMAIN e.node /\ e.node[e.node[i].parent].path = Parent(e.node[i].path)
    BY <1>3, <1>5 DEF TablesOK, IsTree
  <2>2. \A i, j \in DOMAIN e.node : e.node[i].path = e.node[j].path => i = j
    BY <1>3, <1>5 DEF TablesOK, IsTree
  <2>. QED BY <2>1, <2>2 DEF IsTree
<1>8. \E i \in DOMAIN e.node : e.node[i].path = Root BY <1>3, <1>5, SMTT(60) DEF TablesOK
<1>9. Locators(e)
  <2>1. ASSUME NEW i \in DOMAIN e.node
        PROVE  IF e.node[i].kind = "file"
               THEN /\ e.node[i].object \in DOMAIN e.object /\ e.object[e.node[i].object].at = e.node[i].path
                    /\ e.node[i].state = "indexed" => e.object[e.node[i].object].status = "available"
               ELSE e.node[i].object = NoId
    <3>1. CASE e.node[i].kind = "file" BY <1>1, <1>3, <1>5, <3>1, FileFacts
    <3>2. CASE e.node[i].kind # "file" BY <1>1, <1>3, <1>5, <3>2, FileFacts
    <3>. QED BY <3>1, <3>2, SMTT(60)
  <2>2. \A o, u \in DOMAIN e.object : e.object[o].at = e.object[u].at => o = u
    BY <1>1 DEF TablesOK, Locators
  <2>. QED BY <2>1, <2>2, SMTT(60) DEF Locators
<1>10. TablesOK(e) BY <1>1, <1>6, <1>7, <1>8, <1>9 DEF TablesOK
<1>. QED BY <1>3, <1>4, <1>5, <1>10

LEMMA MarkMissingOK ==
    ASSUME NEW d, TablesOK(d), NEW gone1 \in SUBSET DOMAIN d.node, NEW e, e = MarkMissing(d, gone1)
    PROVE  /\ TablesOK(e) /\ DOMAIN e.node = DOMAIN d.node
           /\ \A i \in DOMAIN d.node : /\ e.node[i].path = d.node[i].path /\ e.node[i].kind = d.node[i].kind
                                       /\ e.node[i].parent = d.node[i].parent
                                       /\ i \in gone1 => e.node[i].state = "missing"
                                       /\ i \notin gone1 => e.node[i] = d.node[i]
<1>. DEFINE objects == {d.node[i].object : i \in gone1} \ {NoId}
            node == [i \in DOMAIN d.node |->
                       IF i \in gone1 THEN [d.node[i] EXCEPT !.state = "missing"] ELSE d.node[i]]
            object == [o \in DOMAIN d.object |->
                         IF o \in objects THEN [d.object[o] EXCEPT !.status = "missing"] ELSE d.object[o]]
<1>1. e = [node |-> node, object |-> object] BY DEF MarkMissing
<1>2. e = [node |-> e.node, object |-> e.object] /\ e.node = node /\ e.object = object
  <2>. HIDE DEF node, object
  <2>. QED BY <1>1
<1>3. DOMAIN e.node = DOMAIN d.node /\ e.node = [i \in DOMAIN e.node |-> e.node[i]]
  BY <1>2
<1>4. DOMAIN e.object = DOMAIN d.object /\ e.object = [o \in DOMAIN e.object |-> e.object[o]]
  BY <1>2
<1>5. ASSUME NEW i \in DOMAIN d.node
      PROVE  /\ e.node[i].path = d.node[i].path /\ e.node[i].kind = d.node[i].kind
             /\ e.node[i].parent = d.node[i].parent /\ e.node[i].object = d.node[i].object
             /\ e.node[i] \in Node(AnyPath)
             /\ i \in gone1 => e.node[i].state = "missing"
             /\ i \notin gone1 => e.node[i] = d.node[i]
  <2>1. d.node[i] \in Node(AnyPath) BY NodeFacts
  <2>2. CASE i \in gone1 BY <1>2, <2>2, <2>1 DEF Node, States
  <2>3. CASE i \notin gone1 BY <1>2, <2>3, <2>1
  <2>. QED BY <2>2, <2>3
<1>6. ASSUME NEW o \in DOMAIN d.object
      PROVE  /\ e.object[o].at = d.object[o].at /\ e.object[o] \in Object(AnyPath)
             /\ o \notin objects => e.object[o] = d.object[o]
  <2>1. d.object[o] \in Object(AnyPath) BY DEF TablesOK, Table
  <2>2. CASE o \in objects BY <1>2, <2>2, <2>1 DEF Object
  <2>3. CASE o \notin objects BY <1>2, <2>3, <2>1
  <2>. QED BY <2>2, <2>3
<1>7. \A o \in objects : o # NoId /\ \E i \in gone1 : o = d.node[i].object
  OBVIOUS
<1>. HIDE DEF node, object, objects
<1>8. Table(e.node, Node(AnyPath)) /\ Table(e.object, Object(AnyPath))
  BY <1>3, <1>4, <1>5, <1>6 DEF TablesOK, Table
<1>9. IsTree(e)
  <2>1. ASSUME NEW i \in DOMAIN e.node
        PROVE  IF e.node[i].path = Root THEN e.node[i].parent = NoId
               ELSE e.node[i].parent \in DOMAIN e.node /\ e.node[e.node[i].parent].path = Parent(e.node[i].path)
    BY <1>3, <1>5 DEF TablesOK, IsTree
  <2>2. \A i, j \in DOMAIN e.node : e.node[i].path = e.node[j].path => i = j
    BY <1>3, <1>5 DEF TablesOK, IsTree
  <2>. QED BY <2>1, <2>2 DEF IsTree
<1>10. \E i \in DOMAIN e.node : e.node[i].path = Root BY <1>3, <1>5 DEF TablesOK
<1>11. Locators(e)
  <2>1. ASSUME NEW i \in DOMAIN e.node
        PROVE  IF e.node[i].kind = "file"
               THEN /\ e.node[i].object \in DOMAIN e.object /\ e.object[e.node[i].object].at = e.node[i].path
                    /\ e.node[i].state = "indexed" => e.object[e.node[i].object].status = "available"
               ELSE e.node[i].object = NoId
    <3>1. CASE e.node[i].kind = "file"
      <4>. PICK o \in DOMAIN d.object :
             /\ o = d.node[i].object /\ o # NoId /\ d.object[o].at = d.node[i].path
             /\ d.node[i].state = "indexed" => d.object[o].status = "available"
        BY <1>3, <1>5, <3>1, FileFacts, SMTT(60)
      <4>1. o \in DOMAIN e.object /\ e.node[i].object = o /\ e.object[o].at = e.node[i].path
        BY <1>3, <1>4, <1>5, <1>6
      <4>2. ASSUME e.node[i].state = "indexed" PROVE e.object[o].status = "available"
        <5>1. i \notin gone1 /\ e.node[i] = d.node[i] BY <1>3, <1>5, <4>2
        <5>2. o \notin objects
          <6>. SUFFICES ASSUME o \in objects PROVE FALSE OBVIOUS
          <6>. PICK j \in gone1 : o = d.node[j].object BY <1>7, SMTT(60)
          <6>1. d.object[o].at = d.node[j].path BY FileFacts
          <6>2. j \in DOMAIN d.node /\ d.node[j].path = d.node[i].path BY <6>1
          <6>. QED BY <1>3, <5>1, <6>2 DEF TablesOK, IsTree
        <5>. QED BY <1>6, <4>2, <5>1, <5>2, SMTT(60)
      <4>. QED BY <3>1, <4>1, <4>2, SMTT(60)
    <3>2. CASE e.node[i].kind # "file" BY <1>3, <1>5, <3>2, FileFacts
    <3>. QED BY <3>1, <3>2
  <2>2. \A o, u \in DOMAIN e.object : e.object[o].at = e.object[u].at => o = u
    BY <1>4, <1>6 DEF TablesOK, Locators
  <2>. QED BY <2>1, <2>2, SMTT(60) DEF Locators
<1>12. TablesOK(e) BY <1>2, <1>8, <1>9, <1>10, <1>11 DEF TablesOK
<1>. QED BY <1>3, <1>5, <1>12

\* A disk that the metadata may be refreshed from
DiskPaths(k) == DOMAIN k \subseteq Paths \cup Mounts

\* What the refresh of a directory makes of the tables
Applied(d, e, id, k) ==
    LET entries == Entries(k, d.node[id].path)
    IN  /\ \A i \in DOMAIN d.node : i \in DOMAIN e.node /\ e.node[i].path = d.node[i].path
        /\ \A i \in DOMAIN e.node : i \in DOMAIN d.node \/ e.node[i].path \in entries
        /\ \A p \in entries : Find(e, p) # NoId
        /\ \A i \in DOMAIN e.node :
             /\ e.node[i].path \in entries
             /\ i \in DOMAIN d.node => ~IsControl(d.node[i])
             => /\ e.node[i].state = "indexed" /\ (e.node[i].kind = "file" <=> k[e.node[i].path] # "dir")
                /\ IsControl(e.node[i]) => Len(e.node[i].path) = 1
        /\ \A i \in DOMAIN d.node :
             i # id => /\ d.node[i].path \in entries /\ IsControl(d.node[i]) => e.node[i] = d.node[i]
                       /\ d.node[i].path \notin entries /\ d.node[i].parent = id /\ ~IsControl(d.node[i])
                            => e.node[i].state = "missing" /\ e.node[i].kind = d.node[i].kind
                       /\ d.node[i].path \notin entries /\ (d.node[i].parent # id \/ IsControl(d.node[i]))
                            => e.node[i] = d.node[i]
        /\ e.node[id].state = "indexed" /\ e.node[id].kind = d.node[id].kind

LEMMA ApplyOK ==
    ASSUME NEW d, TablesOK(d), NEW id \in DOMAIN d.node, d.node[id].kind # "file",
           NEW k, DiskPaths(k)
    PROVE  TablesOK(Apply(d, id, k)) /\ Applied(d, Apply(d, id, k), id, k)
<1>. PICK path \in AnyPath : path = d.node[id].path BY NodeFacts
<1>. DEFINE entries == Entries(k, path)
            gone1 == {i \in Children(d, id) : d.node[i].path \notin entries /\ ~IsControl(d.node[i])}
            shown == {p \in entries : Find(d, p) = NoId \/ ~IsControl(d.node[Find(d, p)])}
            files == {p \in shown : k[p] # "dir"}
<1>. PICK u : u = Upsert(d, shown, files) OBVIOUS
<1>. PICK m : m = MarkMissing(u, gone1) OBVIOUS
<1>. PICK e : e = SetState(m, id, "indexed") OBVIOUS
<1>1. Apply(d, id, k) = e BY ZenonT(60) DEF Apply, SetState
<1>2. /\ \A p \in entries : p \in DOMAIN k /\ p # Root /\ Parent(p) = path
      /\ \A p \in DOMAIN k : p # Root /\ Parent(p) = path /\ ~IsHidden(p) => p \in entries
  BY DEF Entries
<1>3. shown \subseteq entries /\ entries \subseteq Paths \cup Mounts
  BY <1>2 DEF DiskPaths
<1>4. shown \in SUBSET AnyPath /\ files \in SUBSET shown /\ IsFiniteSet(shown) /\ Root \notin shown
  <2>1. Paths \cup Mounts \subseteq AnyPath /\ IsFiniteSet(Paths \cup Mounts)
    BY PathsFacts
  <2>2. IsFiniteSet(shown)
    <3>. HIDE DEF shown
    <3>1. shown \in SUBSET (Paths \cup Mounts) BY <1>3
    <3>. QED BY <2>1, <3>1, FS_Subset
  <2>3. Root \notin shown BY <1>2
  <2>4. files \in SUBSET shown OBVIOUS
  <2>. HIDE DEF shown, files
  <2>. QED BY <1>3, <2>1, <2>2, <2>3, <2>4
<1>5. \A p \in shown : Parent(p) = path BY <1>2
<1>6. /\ \A p \in entries : p \in shown <=> Find(d, p) = NoId \/ ~IsControl(d.node[Find(d, p)])
      /\ \A p \in shown : p \in files <=> k[p] # "dir"
  OBVIOUS
<1>7. \A i : i \in gone1 <=> /\ i \in DOMAIN d.node /\ d.node[i].parent = id
                             /\ d.node[i].path \notin entries /\ ~IsControl(d.node[i])
  BY DEF Children
<1>. HIDE DEF shown, files, gone1, entries
<1>8. Find(d, path) = id /\ id # NoId BY NodeFacts
<1>9. TablesOK(u) /\ Upserted(d, u, shown, files) BY <1>4, <1>5, <1>8, UpsertOK
<1>10. /\ \A i \in DOMAIN d.node : /\ i \in DOMAIN u.node /\ u.node[i].path = d.node[i].path
                                   /\ d.node[i].path \notin shown => u.node[i] = d.node[i]
       /\ \A i \in DOMAIN u.node : i \in DOMAIN d.node \/ u.node[i].path \in shown
       /\ \A p \in shown : Find(u, p) # NoId
       /\ \A i \in DOMAIN u.node : u.node[i].path \in shown =>
            /\ u.node[i].state = "indexed"
            /\ u.node[i].path \in files => u.node[i].kind = "file"
            /\ u.node[i].path \notin files => u.node[i].kind # "file"
            /\ IsControl(u.node[i]) => Len(u.node[i].path) = 1
  BY <1>9 DEF Upserted, IsControl
<1>11. gone1 \in SUBSET DOMAIN u.node BY <1>7, <1>10
<1>12. /\ TablesOK(m) /\ DOMAIN m.node = DOMAIN u.node
       /\ \A i \in DOMAIN u.node : /\ m.node[i].path = u.node[i].path /\ m.node[i].kind = u.node[i].kind
                                   /\ i \in gone1 => m.node[i].state = "missing"
                                   /\ i \notin gone1 => m.node[i] = u.node[i]
  BY <1>9, <1>11, MarkMissingOK
<1>13. path \notin shown
  <2>1. \A p \in shown : p # path
    <3>. SUFFICES ASSUME NEW p \in shown PROVE p # path OBVIOUS
    <3>1. p \in AnyPath /\ p # Root /\ Parent(p) = path BY <1>4, <1>5
    <3>. QED BY <3>1, ParentOrder
  <2>. QED BY <2>1
<1>14. id \in DOMAIN m.node /\ m.node[id].kind = d.node[id].kind /\ m.node[id].kind # "file"
  BY <1>10, <1>12, <1>13
<1>15. /\ TablesOK(e) /\ DOMAIN e.node = DOMAIN m.node
       /\ e.node[id].state = "indexed" /\ e.node[id].kind = m.node[id].kind
       /\ \A i \in DOMAIN m.node : e.node[i].path = m.node[i].path /\ (i # id => e.node[i] = m.node[i])
  BY <1>12, <1>14, StateOK DEF States
<1>16. id \notin gone1
  <2>1. d.node[id].parent # id
    <3>1. CASE path = Root BY <3>1, RootFacts, <1>8
    <3>2. CASE path # Root BY <3>2, NodeFacts, ParentOrder
    <3>. QED BY <3>1, <3>2
  <2>. QED BY <1>7, <2>1
<1>17. ASSUME NEW i \in DOMAIN d.node
       PROVE  d.node[i].path \in entries => (d.node[i].path \in shown <=> ~IsControl(d.node[i]))
  BY NodeFacts, <1>6
<1>18. ASSUME NEW i \in DOMAIN d.node PROVE i \in DOMAIN e.node /\ e.node[i].path = d.node[i].path
  BY <1>10, <1>12, <1>15
<1>19. ASSUME NEW i \in DOMAIN e.node PROVE i \in DOMAIN d.node \/ e.node[i].path \in entries
  BY <1>3, <1>10, <1>12, <1>15
<1>20. ASSUME NEW p \in entries PROVE Find(e, p) # NoId
  <2>1. \E i \in DOMAIN u.node : u.node[i].path = p
    <3>1. CASE p \in shown BY <1>9, <1>10, <3>1, FindFacts
    <3>2. CASE p \notin shown
      <4>1. Find(d, p) # NoId BY <1>6, <3>2
      <4>2. PICK i \in DOMAIN d.node : d.node[i].path = p BY <4>1, FindFacts
      <4>. QED BY <1>10, <4>2
    <3>. QED BY <3>1, <3>2
  <2>2. \E i \in DOMAIN e.node : e.node[i].path = p BY <1>12, <1>15, <2>1
  <2>. QED BY <1>15, <2>2, FindFacts
<1>21. ASSUME NEW i \in DOMAIN e.node, e.node[i].path \in entries, i \in DOMAIN d.node => ~IsControl(d.node[i])
       PROVE  /\ e.node[i].state = "indexed" /\ (e.node[i].kind = "file" <=> k[e.node[i].path] # "dir")
              /\ IsControl(e.node[i]) => Len(e.node[i].path) = 1
  <2>1. i \in DOMAIN u.node /\ u.node[i].path = e.node[i].path BY <1>12, <1>15
  <2>2. u.node[i].path \in shown
    <3>1. CASE i \in DOMAIN d.node BY <1>10, <1>17, <1>21, <2>1, <3>1
    <3>2. CASE i \notin DOMAIN d.node BY <1>10, <2>1, <3>2
    <3>. QED BY <3>1, <3>2
  <2>3. i \notin gone1 /\ i # id BY <1>7, <1>10, <1>21, <2>1, <1>13, <2>2
  <2>4. e.node[i] = u.node[i] BY <1>12, <1>15, <2>1, <2>3
  <2>. QED BY <1>6, <1>10, <2>1, <2>2, <2>4
<1>22. ASSUME NEW i \in DOMAIN d.node, i # id
       PROVE  /\ d.node[i].path \in entries /\ IsControl(d.node[i]) => e.node[i] = d.node[i]
              /\ d.node[i].path \notin entries /\ d.node[i].parent = id /\ ~IsControl(d.node[i])
                   => e.node[i].state = "missing" /\ e.node[i].kind = d.node[i].kind
              /\ d.node[i].path \notin entries /\ (d.node[i].parent # id \/ IsControl(d.node[i]))
                   => e.node[i] = d.node[i]
  <2>1. i \in DOMAIN u.node /\ i \in DOMAIN m.node /\ e.node[i] = m.node[i]
    BY <1>10, <1>12, <1>15, <1>22
  <2>2. d.node[i].path \notin shown => u.node[i] = d.node[i] BY <1>10
  <2>3. ASSUME d.node[i].path \in entries, IsControl(d.node[i]) PROVE e.node[i] = d.node[i]
    BY <1>7, <1>17, <2>3, <1>12, <2>1, <2>2
  <2>4. ASSUME d.node[i].path \notin entries, d.node[i].parent = id, ~IsControl(d.node[i])
        PROVE  e.node[i].state = "missing" /\ e.node[i].kind = d.node[i].kind
    BY <1>3, <1>7, <2>4, <1>12, <2>1, <2>2
  <2>5. ASSUME d.node[i].path \notin entries, d.node[i].parent # id \/ IsControl(d.node[i])
        PROVE  e.node[i] = d.node[i]
    BY <1>3, <1>7, <2>5, <1>12, <2>1, <2>2
  <2>. QED BY <2>3, <2>4, <2>5
<1>23. e.node[id].state = "indexed" /\ e.node[id].kind = d.node[id].kind
  BY <1>14, <1>15, SMTT(60)
<1>24. Applied(d, e, id, k)
  BY <1>18, <1>19, <1>20, <1>21, <1>22, <1>23 DEF Applied, entries
<1>. QED BY <1>1, <1>15, <1>24

LEMMA MetaRefreshOK ==
    ASSUME NEW d, TablesOK(d), NEW path \in AnyPath, NEW k, DiskPaths(k), NEW listable \in BOOLEAN
    PROVE  /\ TablesOK(MetaRefresh(d, path, k, listable).db)
           /\ MetaRefresh(d, path, k, listable).err = "none" =>
                /\ Find(d, path) # NoId /\ d.node[Find(d, path)].kind # "file" /\ listable
                /\ Applied(d, MetaRefresh(d, path, k, listable).db, Find(d, path), k)
           /\ MetaRefresh(d, path, k, listable).err = "provider" =>
                /\ ~listable /\ Find(d, path) # NoId
                /\ MetaRefresh(d, path, k, listable).db = SetState(d, Find(d, path), "error")
                /\ d.node[Find(d, path)].kind # "file"
           /\ MetaRefresh(d, path, k, listable).err \notin {"none", "provider"} =>
                MetaRefresh(d, path, k, listable).db = d
           /\ MetaRefresh(d, path, k, listable).err = "notfound" <=> Find(d, path) = NoId
<1>. PICK r : r = MetaRefresh(d, path, k, listable) OBVIOUS
<1>. PICK id \in Nat : id = Find(d, path) BY FindFacts
<1>0. id # NoId => id \in DOMAIN d.node /\ (IsDir(d, id) => d.node[id].kind # "file")
  BY FindFacts DEF DirKinds, IsDir
<1>1. CASE id = NoId BY <1>1 DEF MetaRefresh, Result
<1>2. CASE id # NoId /\ ~IsDir(d, id) BY <1>2 DEF MetaRefresh, Result
<1>3. CASE id # NoId /\ IsDir(d, id) /\ ~listable
  <2>1. r = Result("provider", SetState(d, id, "error"))
    BY <1>3 DEF MetaRefresh, SetState
  <2>2. r.err = "provider" /\ r.db = SetState(d, id, "error") BY <2>1 DEF Result
  <2>3. TablesOK(r.db) BY <1>0, <1>3, <2>2, StateOK DEF States
  <2>. QED BY <1>0, <1>3, <2>2, <2>3
<1>4. CASE id # NoId /\ IsDir(d, id) /\ listable
  BY <1>4, <1>0, ApplyOK DEF MetaRefresh, Result
<1>. QED BY <1>1, <1>2, <1>3, <1>4

LEMMA MetaCommitOK ==
    ASSUME NEW d, TablesOK(d), NEW path \in Paths \cup Mounts
    PROVE  /\ TablesOK(MetaCommit(d, path).db)
           /\ MetaCommit(d, path).err \in {"none", "conflict"}
           /\ MetaCommit(d, path).err # "none" => MetaCommit(d, path).db = d
           /\ MetaCommit(d, path).err = "none" =>
                LET above == {SubSeq(path, 1, n) : n \in 1 .. Len(path) - 1}
                IN  /\ \A p \in above : Find(d, p) # NoId => IsDir(d, Find(d, p))
                    /\ Find(d, path) # NoId => ~IsDir(d, Find(d, path))
                    /\ Upserted(d, MetaCommit(d, path).db, above \cup {path}, {path})
<1>. PICK r : r = MetaCommit(d, path) OBVIOUS
<1>. DEFINE above == {SubSeq(path, 1, n) : n \in 1 .. Len(path) - 1}
            conflict == \/ \E p \in above : Find(d, p) # NoId /\ ~IsDir(d, Find(d, p))
                        \/ Find(d, path) # NoId /\ IsDir(d, Find(d, path))
<1>0. path \in AnyPath /\ path # Root BY PathsFacts
<1>1. CASE conflict BY <1>1 DEF MetaCommit, Result
<1>2. CASE ~conflict
  <2>1. r = Result("none", Upsert(d, above \cup {path}, {path}))
    BY <1>2 DEF MetaCommit
  <2>2. r.err = "none" /\ r.db = Upsert(d, above \cup {path}, {path})
    <3>. HIDE DEF above
    <3>. QED BY <2>1 DEF Result
  <2>3. ASSUME NEW n \in 1 .. Len(path) - 1
        PROVE  /\ SubSeq(path, 1, n) \in Paths \cup Mounts
               /\ Parent(SubSeq(path, 1, n)) = Root \/ Parent(SubSeq(path, 1, n)) \in above
    <3>. PICK p \in AnyPath : p = SubSeq(path, 1, n) /\ p # Root /\ IsSubPath(p, path)
      BY <1>0, <2>3, PrefixOf, ProperPrefix
    <3>1. p \in Paths \cup Mounts BY <1>0, PathsFacts
    <3>2. ASSUME Parent(p) # Root PROVE Parent(p) \in above
      <4>. PICK q \in AnyPath : q = Parent(p) /\ IsSubPath(q, p) /\ q # p
        BY ParentOrder
      <4>1. IsSubPath(q, path) BY <1>0, SubPathOrder
      <4>2. q # path
        <5>. SUFFICES ASSUME q = path PROVE FALSE OBVIOUS
        <5>1. IsSubPath(p, path) /\ IsSubPath(path, p) OBVIOUS
        <5>2. p = path BY <1>0, <5>1, SubPathOrder
        <5>. QED BY <5>2
      <4>3. Len(q) \in 1 .. Len(path) - 1 /\ q = SubSeq(path, 1, Len(q))
        BY <1>0, <3>2, <4>1, <4>2, PrefixIs
      <4>. QED BY <4>3
    <3>. QED BY <3>1, <3>2
  <2>4. Parent(path) = Root \/ Parent(path) \in above
    <3>1. ASSUME Parent(path) # Root PROVE Parent(path) \in above
      <4>. PICK q \in AnyPath : q = Parent(path) /\ IsSubPath(q, path) /\ q # path
        BY <1>0, ParentOrder
      <4>1. Len(q) \in 1 .. Len(path) - 1 /\ q = SubSeq(path, 1, Len(q))
        BY <1>0, <3>1, PrefixIs
      <4>. QED BY <4>1, ZenonT(60)
    <3>. QED BY <3>1, SMTT(60)
  <2>5. \A p \in above : p \in Paths \cup Mounts /\ (Parent(p) = Root \/ Parent(p) \in above)
    BY <2>3
  <2>6. /\ \A p \in above : Find(d, p) # NoId => IsDir(d, Find(d, p))
        /\ Find(d, path) # NoId => ~IsDir(d, Find(d, path))
    BY <1>2
  <2>7. TablesOK(Upsert(d, above \cup {path}, {path}))
        /\ Upserted(d, Upsert(d, above \cup {path}, {path}), above \cup {path}, {path})
    <3>. PICK all : all = above \cup {path} OBVIOUS
    <3>. HIDE DEF above
    <3>1. all \in SUBSET (Paths \cup Mounts) /\ {path} \in SUBSET all BY <2>5
    <3>2. IsFiniteSet(all) /\ all \in SUBSET AnyPath /\ Root \notin all
      BY PathsFacts, <3>1, FS_Subset
    <3>3. \A p \in all : Parent(p) \in all \/ Find(d, Parent(p)) # NoId
      BY <2>4, <2>5, RootFacts
    <3>. QED BY <3>1, <3>2, <3>3, UpsertOK
  <2>. QED BY <2>2, <2>6, <2>7
<1>. QED BY <1>1, <1>2

-----------------------------------------------------------------------------
(* The storage *)

Content == Contents \cup {"dir", Cut}

\* A disk: mounts are directories, and what something is below is a directory.  On a
\* local source every directory is there itself.
DiskOK(k, b) ==
    /\ k = [p \in DOMAIN k |-> k[p]]
    /\ DOMAIN k \subseteq Paths \cup Mounts
    /\ \A p \in DOMAIN k : k[p] \in Content
    /\ \A m \in Mounts : m \in DOMAIN k /\ k[m] = "dir"
    /\ \A p, q \in DOMAIN k : IsSubPath(q, p) /\ q # p => k[q] = "dir"
    /\ \A p \in DOMAIN k, q \in AnyPath : p[1] \notin b /\ q # Root /\ IsSubPath(q, p) => q \in DOMAIN k

\* A tree that may be put at a path
TreeOK(from, tree, b) ==
    /\ tree = [r \in DOMAIN tree |-> tree[r]]
    /\ \A r \in DOMAIN tree : r \in AnyPath /\ from \o r \in Paths /\ tree[r] \in Content
    /\ \A r, q \in DOMAIN tree : IsSubPath(q, r) /\ q # r => tree[q] = "dir"
    /\ from[1] \notin b => \A r \in DOMAIN tree, q \in AnyPath : IsSubPath(q, r) => q \in DOMAIN tree

LEMMA DiskFacts ==
    ASSUME NEW k, NEW b, DiskOK(k, b)
    PROVE  /\ \A p \in DOMAIN k : p \in AnyPath /\ p # Root /\ p \in Paths \cup Mounts /\ k[p] \in Content
           /\ \A m \in Mounts : m \in DOMAIN k /\ k[m] = "dir"
           /\ \A p, q \in DOMAIN k : IsSubPath(q, p) /\ q # p => k[q] = "dir"
           /\ \A p \in DOMAIN k, q \in AnyPath : p[1] \notin b /\ q # Root /\ IsSubPath(q, p) => q \in DOMAIN k
  BY PathsFacts DEF DiskOK

LEMMA ShownDomain ==
    ASSUME NEW k, NEW b, DiskOK(k, b)
    PROVE  /\ \A p : p \in DOMAIN Shown(k) <=> p \in AnyPath /\ p # Root /\ \E q \in DOMAIN k : IsSubPath(p, q)
           /\ \A p \in DOMAIN Shown(k) : Shown(k)[p] = IF p \in DOMAIN k THEN k[p] ELSE "dir"
           /\ Shown(k) = [p \in DOMAIN Shown(k) |-> Shown(k)[p]]
<1>. DEFINE dirs == UNION {{SubSeq(p, 1, n) : n \in 1 .. Len(p)} : p \in DOMAIN k}
<1>1. Shown(k) = [p \in dirs |-> IF p \in DOMAIN k THEN k[p] ELSE "dir"]
  BY DEF Shown
<1>2. ASSUME NEW p \in dirs PROVE p \in AnyPath /\ p # Root /\ \E q \in DOMAIN k : IsSubPath(p, q)
  <2>. PICK q \in DOMAIN k : p \in {SubSeq(q, 1, n) : n \in 1 .. Len(q)} BY <1>2
  <2>. PICK n \in 1 .. Len(q) : p = SubSeq(q, 1, n) OBVIOUS
  <2>1. q \in AnyPath BY DiskFacts
  <2>. QED BY <2>1, PrefixOf
<1>3. ASSUME NEW p \in AnyPath, p # Root, NEW q \in DOMAIN k, IsSubPath(p, q) PROVE p \in dirs
  <2>1. q \in AnyPath BY DiskFacts
  <2>. PICK n \in 1 .. Len(q) : p = SubSeq(q, 1, n) BY <1>3, <2>1, PrefixIs
  <2>. QED OBVIOUS
<1>4. DOMAIN Shown(k) = dirs BY <1>1
<1>5. \A p \in dirs : Shown(k)[p] = IF p \in DOMAIN k THEN k[p] ELSE "dir"
  BY <1>1
<1>6. Shown(k) = [p \in DOMAIN Shown(k) |-> Shown(k)[p]] BY <1>1
<1>. HIDE DEF dirs
<1>. QED BY <1>2, <1>3, <1>4, <1>5, <1>6

LEMMA ShownFacts ==
    ASSUME NEW k, NEW b, DiskOK(k, b)
    PROVE  /\ DOMAIN Shown(k) \subseteq Paths \cup Mounts /\ DOMAIN Shown(k) \subseteq AnyPath
           /\ \A p \in DOMAIN k : p \in DOMAIN Shown(k) /\ Shown(k)[p] = k[p]
           /\ \A p \in DOMAIN Shown(k) : p \notin DOMAIN k => Shown(k)[p] = "dir"
           /\ \A p \in AnyPath : p[1] \notin b => (p \in DOMAIN Shown(k) <=> p \in DOMAIN k)
           /\ \A p, q \in DOMAIN Shown(k) : IsSubPath(q, p) /\ q # p => Shown(k)[q] = "dir"
           /\ \A p \in DOMAIN Shown(k), q \in AnyPath : q # Root /\ IsSubPath(q, p) => q \in DOMAIN Shown(k)
<1>1. ASSUME NEW p \in DOMAIN Shown(k) PROVE p \in AnyPath /\ p \in Paths \cup Mounts
  <2>. PICK q \in DOMAIN k : p \in AnyPath /\ p # Root /\ IsSubPath(p, q)
    BY <1>1, ShownDomain
  <2>1. q \in Paths \cup Mounts BY DiskFacts
  <2>. QED BY <2>1, PathsFacts
<1>2. ASSUME NEW p \in DOMAIN k PROVE p \in DOMAIN Shown(k) /\ Shown(k)[p] = k[p]
  BY DiskFacts, SubPathOrder, ShownDomain
<1>3. \A p \in DOMAIN Shown(k) : p \notin DOMAIN k => Shown(k)[p] = "dir"
  BY ShownDomain
<1>4. ASSUME NEW p \in AnyPath, p[1] \notin b, p \in DOMAIN Shown(k) PROVE p \in DOMAIN k
  <2>. PICK q \in DOMAIN k : p # Root /\ IsSubPath(p, q) BY <1>4, ShownDomain
  <2>1. q \in AnyPath /\ p[1] = q[1] BY DiskFacts, PrefixIs
  <2>. QED BY <1>4, <2>1, DiskFacts
<1>5. ASSUME NEW p \in DOMAIN Shown(k), NEW q \in DOMAIN Shown(k), IsSubPath(q, p), q # p
      PROVE  Shown(k)[q] = "dir"
  <2>1. CASE q \in DOMAIN k
    <3>. PICK t \in DOMAIN k : IsSubPath(p, t) BY ShownDomain
    <3>1. p \in AnyPath /\ q \in AnyPath /\ t \in AnyPath BY <1>1, DiskFacts
    <3>2. IsSubPath(q, t) /\ q # t BY <1>5, <3>1, SubPathOrder
    <3>. QED BY <1>2, <2>1, <3>2, DiskFacts
  <2>. QED BY <1>3, <2>1
<1>6. ASSUME NEW p \in DOMAIN Shown(k), NEW q \in AnyPath, q # Root, IsSubPath(q, p)
      PROVE  q \in DOMAIN Shown(k)
  <2>. PICK t \in DOMAIN k : IsSubPath(p, t) BY ShownDomain
  <2>1. IsSubPath(q, t) BY <1>1, <1>6, DiskFacts, SubPathOrder
  <2>. QED BY <1>6, <2>1, ShownDomain
<1>7. DOMAIN Shown(k) \subseteq Paths \cup Mounts /\ DOMAIN Shown(k) \subseteq AnyPath
  BY <1>1
<1>8. \A p \in AnyPath : p[1] \notin b => (p \in DOMAIN Shown(k) <=> p \in DOMAIN k)
  BY <1>2, <1>4
<1>. QED BY <1>2, <1>3, <1>5, <1>6, <1>7, <1>8

LEMMA LocalShown ==
    ASSUME NEW k, DiskOK(k, {})
    PROVE  Shown(k) = k
<1>1. \A p : p \in DOMAIN Shown(k) <=> p \in DOMAIN k BY ShownFacts
<1>2. \A p \in DOMAIN k : Shown(k)[p] = k[p] BY ShownFacts
<1>3. Shown(k) = [p \in DOMAIN Shown(k) |-> Shown(k)[p]] /\ k = [p \in DOMAIN k |-> k[p]]
  BY ShownDomain DEF DiskOK
<1>. QED BY <1>1, <1>2, <1>3

\* Something may be put at a path.
Ready(k, new) ==
    /\ new \in Paths /\ new \notin DOMAIN Shown(k)
    /\ Parent(new) \in DOMAIN Shown(k) /\ Shown(k)[Parent(new)] = "dir"

LEMMA FreeFacts ==
    ASSUME NEW k, NEW b, DiskOK(k, b), NEW new \in AnyPath, new # Root, new \notin DOMAIN Shown(k)
    PROVE  \A p \in AnyPath : IsSubPath(new, p) => p \notin DOMAIN k /\ p \notin DOMAIN Shown(k)
<1>1. ASSUME NEW p \in AnyPath, IsSubPath(new, p), p \in DOMAIN Shown(k) PROVE FALSE
  BY <1>1, ShownFacts
<1>2. \A p \in DOMAIN k : p \in DOMAIN Shown(k) BY ShownFacts
<1>. QED BY <1>1, <1>2

LEMMA ReadyFacts ==
    ASSUME NEW k, NEW b, DiskOK(k, b), NEW new, Ready(k, new)
    PROVE  /\ new \in AnyPath /\ new # Root /\ new \in Paths
           /\ \A p \in AnyPath : IsSubPath(new, p) => p \notin DOMAIN k /\ p \notin DOMAIN Shown(k)
           /\ \A q \in DOMAIN k : IsSubPath(q, new) => k[q] = "dir"
           /\ \A q \in AnyPath : q # Root /\ IsSubPath(q, new) /\ q # new =>
                /\ q \in DOMAIN Shown(k) /\ Shown(k)[q] = "dir"
                /\ new[1] \notin b => q \in DOMAIN k
<1>1. new \in AnyPath /\ new # Root /\ new \in Paths /\ Parent(new) \in AnyPath
  BY PathsFacts, ParentOrder DEF Ready
<1>2. new \notin DOMAIN Shown(k) /\ Parent(new) \in DOMAIN Shown(k) /\ Shown(k)[Parent(new)] = "dir"
  BY DEF Ready
<1>3. \A p \in AnyPath : IsSubPath(new, p) => p \notin DOMAIN k /\ p \notin DOMAIN Shown(k)
  BY <1>1, <1>2, FreeFacts
<1>4. ASSUME NEW q \in AnyPath, q # Root, IsSubPath(q, new), q # new
      PROVE  /\ q \in DOMAIN Shown(k) /\ Shown(k)[q] = "dir"
             /\ new[1] \notin b => q \in DOMAIN k
  <2>1. IsSubPath(q, Parent(new)) BY <1>1, <1>4, ParentOrder
  <2>2. q \in DOMAIN Shown(k) BY <1>2, <1>4, <2>1, ShownFacts
  <2>3. Shown(k)[q] = "dir" BY <1>2, <2>1, <2>2, ShownFacts
  <2>4. q[1] = new[1] BY <1>1, <1>4, PrefixIs
  <2>. QED BY <1>4, <2>2, <2>3, <2>4, ShownFacts
<1>5. ASSUME NEW q \in DOMAIN k, IsSubPath(q, new) PROVE k[q] = "dir"
  <2>1. q \in AnyPath /\ q # Root /\ Shown(k)[q] = k[q] BY DiskFacts, ShownFacts
  <2>2. q # new BY <1>1, SubPathOrder, <1>3
  <2>. QED BY <1>4, <1>5, <2>1, <2>2
<1>. QED BY <1>1, <1>3, <1>4, <1>5

LEMMA ConcatOrder ==
    /\ \A p, q, r \in AnyPath : IsSubPath(q, r) => IsSubPath(p \o q, p \o r)
    /\ \A p, q, r \in AnyPath : IsSubPath(p \o q, p \o r) => IsSubPath(q, r)
    /\ \A p, q, r \in AnyPath : p \o q = p \o r => q = r
    /\ \A p, q, r \in AnyPath : IsSubPath(q, p \o r) =>
         IsSubPath(q, p) \/ (IsSubPath(p, q) /\ Inner(p, q) \in AnyPath /\ q = p \o Inner(p, q) /\ IsSubPath(Inner(p, q), r))
    /\ \A p \in AnyPath, r \in AnyPath : p # Root => p \o r # Root /\ (p \o r)[1] = p[1]
<1>1. ASSUME NEW p \in AnyPath, NEW q \in AnyPath, NEW r \in AnyPath
      PROVE  IsSubPath(q, r) <=> IsSubPath(p \o q, p \o r)
  <2>11. PICK x : x = p \o q OBVIOUS
  <2>12. PICK y : y = p \o r OBVIOUS
  <2>13. PICK n, a, c : n = Len(p) /\ a = Len(q) /\ c = Len(r) OBVIOUS
  <2>0. n \in Nat /\ a \in Nat /\ c \in Nat BY <2>13, PathLen
  <2>7. /\ x \in AnyPath /\ Len(x) = n + a
        /\ \A i \in 1 .. n : x[i] = p[i]
        /\ \A i \in 1 .. a : x[n + i] = q[i]
    BY <2>11, <2>12, <2>13, ConcatPath
  <2>8. /\ y \in AnyPath /\ Len(y) = n + c
        /\ \A i \in 1 .. n : y[i] = p[i]
        /\ \A i \in 1 .. c : y[n + i] = r[i]
    BY <2>11, <2>12, <2>13, ConcatPath
  <2>9. /\ IsSubPath(q, r) <=> a <= c /\ \A i \in 1 .. a : q[i] = r[i]
        /\ IsSubPath(x, y) <=> n + a <= n + c /\ \A i \in 1 .. n + a : x[i] = y[i]
    <3>1. IsSubPath(q, r) <=> a <= c /\ \A i \in 1 .. a : q[i] = r[i]
      BY <2>13, SubPathDef
    <3>2. IsSubPath(x, y) <=> Len(x) <= Len(y) /\ \A i \in 1 .. Len(x) : x[i] = y[i]
      BY <2>7, <2>8, SubPathDef
    <3>. QED BY <2>7, <2>8, <3>1, <3>2
  <2>1. ASSUME IsSubPath(q, r) PROVE IsSubPath(x, y)
    <3>1. a <= c /\ \A i \in 1 .. a : q[i] = r[i] BY <2>1, <2>9
    <3>2. ASSUME NEW i \in 1 .. n + a PROVE x[i] = y[i]
      <4>1. CASE i <= n BY <2>0, <4>1, <2>7, <2>8
      <4>2. CASE i > n
        <5>. PICK j \in 1 .. a : i = n + j BY <2>0, <4>2
        <5>1. j \in 1 .. c /\ q[j] = r[j] BY <2>0, <3>1
        <5>. QED BY <2>7, <2>8, <5>1
      <4>3. i \in Int /\ n \in Int BY <2>0
      <4>. QED BY <4>1, <4>2, <4>3
    <3>. QED BY <2>0, <2>9, <3>1, <3>2
  <2>2. ASSUME IsSubPath(x, y) PROVE IsSubPath(q, r)
    <3>1. n + a <= n + c /\ \A i \in 1 .. n + a : x[i] = y[i] BY <2>2, <2>9
    <3>2. a <= c BY <2>0, <3>1
    <3>3. ASSUME NEW i \in 1 .. a PROVE q[i] = r[i]
      BY <2>0, <3>2, <3>1, <2>7, <2>8
    <3>. QED BY <2>9, <3>2, <3>3
  <2>. QED BY <2>1, <2>2, <2>11, <2>12
<1>2. ASSUME NEW p \in AnyPath, NEW q \in AnyPath, NEW r \in AnyPath, p \o q = p \o r PROVE q = r
  <2>1. Inner(p, p \o q) = q /\ Inner(p, p \o r) = r BY BelowPath
  <2>. QED BY <1>2, <2>1
<1>3. ASSUME NEW p \in AnyPath, NEW q \in AnyPath, NEW r \in AnyPath, IsSubPath(q, p \o r), ~IsSubPath(q, p)
      PROVE  IsSubPath(p, q) /\ Inner(p, q) \in AnyPath /\ q = p \o Inner(p, q) /\ IsSubPath(Inner(p, q), r)
  <2>1. p \o r \in AnyPath /\ IsSubPath(p, p \o r) BY BelowPath
  <2>2. IsSubPath(p, q) BY <1>3, <2>1, SubPathOrder
  <2>3. Inner(p, q) \in AnyPath /\ p \o Inner(p, q) = q BY <2>2, BelowPath
  <2>4. IsSubPath(p \o Inner(p, q), p \o r) BY <1>3, <2>3
  <2>. QED BY <1>1, <2>2, <2>3, <2>4
<1>4. ASSUME NEW p \in AnyPath, NEW r \in AnyPath, p # Root PROVE p \o r # Root /\ (p \o r)[1] = p[1]
  <2>1. p \o r \in AnyPath /\ IsSubPath(p, p \o r) BY BelowPath
  <2>. QED BY <1>4, <2>1, PrefixIs
<1>. QED BY <1>1, <1>2, <1>3, <1>4

LEMMA TreeFacts ==
    ASSUME NEW k, NEW b, DiskOK(k, b), NEW path \in AnyPath
    PROVE  /\ \A r : r \in DOMAIN Tree(k, path) <=> r \in AnyPath /\ path \o r \in DOMAIN k
           /\ \A r \in DOMAIN Tree(k, path) : Tree(k, path)[r] = k[path \o r]
           /\ Tree(k, path) = [r \in DOMAIN Tree(k, path) |-> Tree(k, path)[r]]
<1>. DEFINE R == {Inner(path, p) : p \in Below(k, path)}
<1>1. Tree(k, path) = [r \in R |-> k[path \o r]] BY DEF Tree
<1>2. DOMAIN Tree(k, path) = R BY <1>1
<1>3. ASSUME NEW r \in R PROVE r \in AnyPath /\ path \o r \in DOMAIN k
  <2>. PICK p \in DOMAIN k : IsSubPath(path, p) /\ r = Inner(path, p)
    BY <1>3 DEF Below
  <2>1. p \in AnyPath BY DiskFacts
  <2>. QED BY <2>1, BelowPath
<1>4. ASSUME NEW r \in AnyPath, path \o r \in DOMAIN k PROVE r \in R
  BY BelowPath, <1>4 DEF Below
<1>5. \A r \in R : Tree(k, path)[r] = k[path \o r] BY <1>1
<1>6. Tree(k, path) = [r \in DOMAIN Tree(k, path) |-> Tree(k, path)[r]] BY <1>1
<1>. HIDE DEF R
<1>. QED BY <1>2, <1>3, <1>4, <1>5, <1>6

LEMMA TreeIsOK ==
    ASSUME NEW k, NEW b, DiskOK(k, b), NEW path \in AnyPath, path # Root, NEW new,
           \A r \in DOMAIN Tree(k, path) : new \o r \in Paths,
           new[1] \notin b => path[1] \notin b
    PROVE  TreeOK(new, Tree(k, path), b)
<1>. PICK tree : tree = Tree(k, path) OBVIOUS
<1>1. /\ \A r : r \in DOMAIN tree <=> r \in AnyPath /\ path \o r \in DOMAIN k
      /\ \A r \in DOMAIN tree : tree[r] = k[path \o r]
      /\ tree = [r \in DOMAIN tree |-> tree[r]]
  BY TreeFacts
<1>2. ASSUME NEW r \in DOMAIN tree PROVE r \in AnyPath /\ new \o r \in Paths /\ tree[r] \in Content
  BY <1>1, DiskFacts
<1>3. ASSUME NEW r \in DOMAIN tree, NEW q \in DOMAIN tree, IsSubPath(q, r), q # r PROVE tree[q] = "dir"
  <2>1. q \in AnyPath /\ r \in AnyPath /\ path \o q \in DOMAIN k /\ path \o r \in DOMAIN k
    BY <1>1
  <2>2. IsSubPath(path \o q, path \o r) /\ path \o q # path \o r
    BY <1>3, <2>1, ConcatOrder
  <2>3. k[path \o q] = "dir" BY <2>1, <2>2, DiskFacts
  <2>. QED BY <1>1, <2>3
<1>4. ASSUME new[1] \notin b, NEW r \in DOMAIN tree, NEW q \in AnyPath, IsSubPath(q, r) PROVE q \in DOMAIN tree
  <2>1. path[1] \notin b /\ r \in AnyPath /\ path \o r \in DOMAIN k
    BY <1>1, <1>4
  <2>2. IsSubPath(path \o q, path \o r) /\ path \o q # Root /\ (path \o r)[1] = path[1]
    BY <1>4, <2>1, ConcatOrder
  <2>3. path \o q \in AnyPath BY BelowPath
  <2>4. path \o q \in DOMAIN k BY <2>1, <2>2, <2>3, DiskFacts
  <2>. QED BY <1>1, <2>4
<1>5. TreeOK(new, tree, b) BY <1>1, <1>2, <1>3, <1>4 DEF TreeOK
<1>. QED BY <1>5

LEMMA RestrictFacts ==
    ASSUME NEW f, NEW S
    PROVE  /\ DOMAIN Restrict(f, S) = S /\ \A x \in S : Restrict(f, S)[x] = f[x]
           /\ Restrict(f, S) = [x \in DOMAIN Restrict(f, S) |-> Restrict(f, S)[x]]
BY DEF Restrict

LEMMA PartOK ==
    ASSUME NEW from, NEW tree, NEW b, TreeOK(from, tree, b), NEW part \in Progress(tree)
    PROVE  TreeOK(from, Restrict(tree, part), b)
<1>. PICK t : t = Restrict(tree, part) OBVIOUS
<1>1. DOMAIN t = part /\ (\A r \in part : t[r] = tree[r]) /\ t = [r \in DOMAIN t |-> t[r]]
  BY RestrictFacts
<1>2. /\ part \subseteq DOMAIN tree
      /\ \A r \in part : \A q \in DOMAIN tree : IsSubPath(q, r) => q \in part
  BY DEF Progress
<1>3. TreeOK(from, t, b) BY <1>1, <1>2 DEF TreeOK
<1>. QED BY <1>3

LEMMA WholeIsPart ==
    ASSUME NEW from, NEW tree, NEW b, TreeOK(from, tree, b)
    PROVE  DOMAIN tree \in Progress(tree) /\ Restrict(tree, DOMAIN tree) = tree
BY DEF Progress, Restrict, TreeOK

LEMMA CutOK ==
    ASSUME NEW from, NEW tree, NEW b, TreeOK(from, tree, b), NEW part \in CutCopies(tree)
    PROVE  TreeOK(from, part, b)
<1>. PICK S \in Progress(tree) :
       \E last \in S : part = [r \in S |-> IF r = last /\ tree[r] # "dir" THEN Cut ELSE tree[r]]
  BY DEF CutCopies
<1>. PICK last \in S : part = [r \in S |-> IF r = last /\ tree[r] # "dir" THEN Cut ELSE tree[r]]
  OBVIOUS
<1>1. DOMAIN part = S /\ \A r \in S : part[r] = tree[r] \/ (part[r] = Cut /\ tree[r] # "dir")
  OBVIOUS
<1>2. part = [r \in DOMAIN part |-> part[r]] OBVIOUS
<1>3. /\ S \subseteq DOMAIN tree
      /\ \A r \in S : \A q \in DOMAIN tree : IsSubPath(q, r) => q \in S
  BY DEF Progress
<1>4. Cut \in Content BY DEF Content
<1>5. ASSUME NEW r \in S PROVE r \in AnyPath /\ from \o r \in Paths /\ part[r] \in Content
  BY <1>1, <1>3, <1>4 DEF TreeOK
<1>6. ASSUME NEW r \in S, NEW q \in S, IsSubPath(q, r), q # r PROVE part[q] = "dir"
  BY <1>3, <1>6, <1>1 DEF TreeOK
<1>7. ASSUME from[1] \notin b, NEW r \in S, NEW q \in AnyPath, IsSubPath(q, r) PROVE q \in S
  BY <1>3, <1>7 DEF TreeOK
<1>. QED BY <1>1, <1>2, <1>5, <1>6, <1>7 DEF TreeOK

\* A tree, put where nothing is
Placed(k, k2, new, tree) ==
    /\ \A p : p \in DOMAIN k2 <=> p \in DOMAIN k \/ \E r \in DOMAIN tree : p = new \o r
    /\ \A p \in DOMAIN k : k2[p] = k[p]
    /\ \A r \in DOMAIN tree : new \o r \in DOMAIN k2 /\ k2[new \o r] = tree[r]
    /\ \A r \in AnyPath : new \o r \in DOMAIN k2 <=> r \in DOMAIN tree
    /\ k2 = [p \in DOMAIN k2 |-> k2[p]]

LEMMA PlaceFacts ==
    ASSUME NEW k, NEW new \in AnyPath, NEW tree, DOMAIN tree \subseteq AnyPath,
           \A p \in AnyPath : IsSubPath(new, p) => p \notin DOMAIN k,
           NEW k2, k2 = Plus(k, At(new, tree))
    PROVE  Placed(k, k2, new, tree)
<1>. PICK a : a = At(new, tree) OBVIOUS
<1>1. /\ DOMAIN a = {new \o r : r \in DOMAIN tree} /\ \A p \in DOMAIN a : a[p] = tree[Inner(new, p)]
  BY DEF At
<1>2. \A r \in DOMAIN tree : new \o r \in DOMAIN a /\ a[new \o r] = tree[r]
  BY <1>1, BelowPath, ZenonT(150)
<1>3. /\ DOMAIN k2 = DOMAIN k \cup DOMAIN a /\ k2 = [p \in DOMAIN k2 |-> k2[p]]
      /\ \A p \in DOMAIN k : k2[p] = k[p]
      /\ \A p \in DOMAIN a : p \notin DOMAIN k => k2[p] = a[p]
  BY DEF Plus
<1>4. \A r \in AnyPath : new \o r \notin DOMAIN k BY BelowPath
<1>5. \A r \in DOMAIN tree : new \o r \in DOMAIN k2 /\ k2[new \o r] = tree[r]
  BY <1>2, <1>3, <1>4
<1>6. \A p : p \in DOMAIN k2 <=> p \in DOMAIN k \/ \E r \in DOMAIN tree : p = new \o r
  BY <1>1, <1>3
<1>7. ASSUME NEW r \in AnyPath, new \o r \in DOMAIN k2 PROVE r \in DOMAIN tree
  <2>. PICK t \in DOMAIN tree : new \o r = new \o t BY <1>4, <1>6, <1>7
  <2>1. r = t BY ConcatOrder, ZenonT(60)
  <2>. QED BY <2>1
<1>. QED BY <1>3, <1>5, <1>6, <1>7 DEF Placed

LEMMA PlaceOK ==
    ASSUME NEW k, NEW b, DiskOK(k, b), NEW new, Ready(k, new), NEW tree, TreeOK(new, tree, b),
           NEW k2, k2 = Plus(k, At(new, tree))
    PROVE  DiskOK(k2, b) /\ Placed(k, k2, new, tree)
<1>0. /\ new \in AnyPath /\ new # Root /\ new \in Paths
      /\ \A p \in AnyPath : IsSubPath(new, p) => p \notin DOMAIN k
      /\ \A q \in DOMAIN k : IsSubPath(q, new) => k[q] = "dir"
      /\ \A q \in AnyPath : q # Root /\ IsSubPath(q, new) /\ q # new /\ new[1] \notin b => q \in DOMAIN k
  BY ReadyFacts
<1>9. /\ \A r \in DOMAIN tree : r \in AnyPath /\ new \o r \in Paths /\ tree[r] \in Content
      /\ \A r, q \in DOMAIN tree : IsSubPath(q, r) /\ q # r => tree[q] = "dir"
      /\ new[1] \notin b => \A r \in DOMAIN tree, q \in AnyPath : IsSubPath(q, r) => q \in DOMAIN tree
  BY DEF TreeOK
<1>8. Placed(k, k2, new, tree) BY <1>9, <1>0, PlaceFacts
<1>1. /\ \A p : p \in DOMAIN k2 <=> p \in DOMAIN k \/ \E r \in DOMAIN tree : p = new \o r
      /\ \A p \in DOMAIN k : k2[p] = k[p]
      /\ \A r \in DOMAIN tree : new \o r \in DOMAIN k2 /\ k2[new \o r] = tree[r]
      /\ k2 = [p \in DOMAIN k2 |-> k2[p]]
  BY <1>8 DEF Placed
<1>2. ASSUME NEW p \in DOMAIN k2 PROVE p \in Paths \cup Mounts /\ k2[p] \in Content /\ p \in AnyPath
  <2>1. CASE p \in DOMAIN k BY <1>1, <2>1, DiskFacts
  <2>2. CASE p \notin DOMAIN k
    <3>. PICK r \in DOMAIN tree : p = new \o r BY <1>1, <2>2
    <3>. QED BY <1>1, <1>9, PathsFacts
  <2>. QED BY <2>1, <2>2
<1>3. ASSUME NEW m \in Mounts PROVE m \in DOMAIN k2 /\ k2[m] = "dir"
  BY <1>1, DiskFacts
<1>4. ASSUME NEW p \in DOMAIN k2, NEW q \in DOMAIN k2, IsSubPath(q, p), q # p PROVE k2[q] = "dir"
  <2>1. CASE p \in DOMAIN k /\ q \in DOMAIN k BY <1>1, <1>4, <2>1, DiskFacts
  <2>2. CASE p \in DOMAIN k /\ q \notin DOMAIN k
    <3>. PICK r \in DOMAIN tree : q = new \o r BY <1>1, <2>2
    <3>1. IsSubPath(new, q) /\ q \in AnyPath /\ p \in AnyPath
      BY <1>0, <1>2, <1>9, BelowPath
    <3>2. IsSubPath(new, p) BY <1>0, <1>4, <3>1, SubPathOrder
    <3>. QED BY <1>0, <2>2, <3>1, <3>2
  <2>3. CASE p \notin DOMAIN k
    <3>. PICK r \in DOMAIN tree : p = new \o r BY <1>1, <2>3
    <3>0. r \in AnyPath /\ q \in AnyPath BY <1>2, <1>9
    <3>1. CASE IsSubPath(q, new) /\ q \in DOMAIN k BY <1>0, <1>1, <3>1
    <3>2. CASE q \notin DOMAIN k
      <4>. PICK s \in DOMAIN tree : q = new \o s BY <1>1, <3>2
      <4>1. s \in AnyPath BY <1>9
      <4>2. IsSubPath(s, r) /\ s # r BY <1>0, <1>4, <3>0, <4>1, ConcatOrder
      <4>. QED BY <1>1, <1>9, <4>2
    <3>3. CASE ~IsSubPath(q, new) /\ q \in DOMAIN k
      BY <1>0, <1>4, <3>0, <3>3, ConcatOrder
    <3>. QED BY <3>1, <3>2, <3>3
  <2>. QED BY <2>1, <2>2, <2>3
<1>5. ASSUME NEW p \in DOMAIN k2, NEW q \in AnyPath, p[1] \notin b, q # Root, IsSubPath(q, p) PROVE q \in DOMAIN k2
  <2>1. CASE p \in DOMAIN k BY <1>5, <2>1, DiskFacts, <1>1
  <2>2. CASE p \notin DOMAIN k
    <3>. PICK r \in DOMAIN tree : p = new \o r BY <1>1, <2>2
    <3>0. r \in AnyPath BY <1>9
    <3>1. p[1] = new[1] BY <1>0, <3>0, ConcatOrder
    <3>2. CASE IsSubPath(q, new) /\ q # new BY <1>0, <1>1, <1>5, <3>1, <3>2
    <3>3. CASE ~IsSubPath(q, new) \/ q = new
      <4>. PICK s \in AnyPath : q = new \o s /\ IsSubPath(s, r)
        <5>1. CASE q = new BY <1>0, <3>0, <5>1, BelowPath, PathLen, SubPathOrder
        <5>2. CASE ~IsSubPath(q, new)
          <6>1. IsSubPath(q, new \o r) BY <1>5
          <6>2. Inner(new, q) \in AnyPath /\ q = new \o Inner(new, q) /\ IsSubPath(Inner(new, q), r)
            BY <1>0, <1>5, <3>0, <5>2, <6>1, ConcatOrder, Zenon
          <6>. QED BY <6>2, Zenon
        <5>. QED BY <3>3, <5>1, <5>2
      <4>1. s \in DOMAIN tree BY <1>5, <1>9, <3>1
      <4>. QED BY <1>1, <4>1
    <3>. QED BY <3>2, <3>3
  <2>. QED BY <2>1, <2>2
<1>. QED BY <1>1, <1>2, <1>3, <1>4, <1>5, <1>8 DEF DiskOK

\* The same is shown at a path.
Same(k, k2, p) ==
    /\ p \in DOMAIN Shown(k) <=> p \in DOMAIN Shown(k2)
    /\ p \in DOMAIN Shown(k) => (Shown(k)[p] = "dir" <=> Shown(k2)[p] = "dir")

LEMMA PlaceSame ==
    ASSUME NEW k, NEW b, DiskOK(k, b), NEW new, Ready(k, new), NEW tree, TreeOK(new, tree, b),
           NEW k2, DiskOK(k2, b), Placed(k, k2, new, tree)
    PROVE  /\ \A p \in AnyPath : ~IsSubPath(new, p) => Same(k, k2, p)
           /\ \A r \in AnyPath : new \o r \in DOMAIN Shown(k2) <=> \E t \in DOMAIN tree : IsSubPath(r, t)
           /\ \A r \in AnyPath : new \o r \in DOMAIN Shown(k2) =>
                (Shown(k2)[new \o r] = "dir" <=> (r \in DOMAIN tree => tree[r] = "dir"))
<1>0. /\ new \in AnyPath /\ new # Root
      /\ \A p \in AnyPath : IsSubPath(new, p) => p \notin DOMAIN k
      /\ \A q \in AnyPath : q # Root /\ IsSubPath(q, new) /\ q # new => q \in DOMAIN Shown(k)
  BY ReadyFacts
<1>1. \A r \in DOMAIN tree : r \in AnyPath BY DEF TreeOK
<1>2. /\ \A p : p \in DOMAIN k2 <=> p \in DOMAIN k \/ \E r \in DOMAIN tree : p = new \o r
      /\ \A p \in DOMAIN k : k2[p] = k[p]
      /\ \A r \in DOMAIN tree : new \o r \in DOMAIN k2 /\ k2[new \o r] = tree[r]
      /\ \A r \in AnyPath : new \o r \in DOMAIN k2 <=> r \in DOMAIN tree
  BY DEF Placed
<1>3. ASSUME NEW p \in AnyPath, ~IsSubPath(new, p) PROVE Same(k, k2, p)
  <2>1. ASSUME p \in DOMAIN Shown(k) PROVE p \in DOMAIN Shown(k2)
    <3>. PICK q \in DOMAIN k : p # Root /\ IsSubPath(p, q) BY <2>1, ShownDomain
    <3>. QED BY <1>2, ShownDomain
  <2>2. ASSUME p \in DOMAIN Shown(k2) PROVE p \in DOMAIN Shown(k)
    <3>1. PICK q \in DOMAIN k2 : p # Root /\ IsSubPath(p, q)
      BY <2>2, ShownDomain
    <3>2. CASE q \in DOMAIN k BY <3>1, <3>2, ShownDomain
    <3>3. CASE q \notin DOMAIN k
      <4>1. PICK r \in DOMAIN tree : q = new \o r BY <1>2, <3>3
      <4>2. IsSubPath(p, new \o r) /\ r \in AnyPath BY <1>1, <3>1, <4>1
      <4>3. IsSubPath(p, new) /\ p # new
        BY <1>0, <1>3, <4>2, BelowPath, SubPathOrder
      <4>. QED BY <1>0, <3>1, <4>3
    <3>. QED BY <3>2, <3>3
  <2>3. p \in DOMAIN k <=> p \in DOMAIN k2
    <3>1. \A r \in DOMAIN tree : p # new \o r
      BY <1>0, <1>1, <1>3, BelowPath, ZenonT(150)
    <3>. QED BY <1>2, <3>1
  <2>4. ASSUME p \in DOMAIN Shown(k), p \in DOMAIN Shown(k2) PROVE Shown(k)[p] = Shown(k2)[p]
    BY <1>2, <2>3, <2>4, ShownFacts
  <2>. QED BY <2>1, <2>2, <2>4 DEF Same
<1>4. ASSUME NEW r \in AnyPath, new \o r \in DOMAIN Shown(k2) PROVE \E t \in DOMAIN tree : IsSubPath(r, t)
  <2>1. PICK q \in DOMAIN k2 : IsSubPath(new \o r, q) BY <1>4, ShownDomain
  <2>2. new \o r \in AnyPath /\ IsSubPath(new, new \o r) /\ q \in AnyPath
    BY <1>0, BelowPath, DiskFacts
  <2>3. IsSubPath(new, q) BY <1>0, <2>1, <2>2, SubPathOrder
  <2>4. PICK t \in DOMAIN tree : q = new \o t BY <1>0, <1>2, <2>2, <2>3
  <2>5. t \in AnyPath /\ IsSubPath(new \o r, new \o t) BY <1>1, <2>1, <2>4
  <2>6. IsSubPath(r, t) BY <1>0, <2>5, ConcatOrder
  <2>. QED BY <2>6
<1>5. ASSUME NEW r \in AnyPath, NEW t \in DOMAIN tree, IsSubPath(r, t) PROVE new \o r \in DOMAIN Shown(k2)
  <2>1. t \in AnyPath /\ new \o t \in DOMAIN k2 BY <1>1, <1>2
  <2>2. IsSubPath(new \o r, new \o t) /\ new \o r # Root
    BY <1>0, <1>5, <2>1, ConcatOrder
  <2>3. new \o r \in AnyPath BY <1>0, BelowPath
  <2>. QED BY <2>1, <2>2, <2>3, ShownDomain
<1>6. ASSUME NEW r \in AnyPath, new \o r \in DOMAIN Shown(k2)
      PROVE  Shown(k2)[new \o r] = "dir" <=> (r \in DOMAIN tree => tree[r] = "dir")
  <2>1. CASE r \in DOMAIN tree BY <1>2, <2>1, ShownFacts
  <2>2. CASE r \notin DOMAIN tree BY <1>2, <2>2, <1>6, ShownFacts
  <2>. QED BY <2>1, <2>2
<1>. QED BY <1>3, <1>4, <1>5, <1>6

\* Some of what was at a path and below it is gone.
Shrunk(k, k2, path) ==
    /\ k2 = [p \in DOMAIN k2 |-> k2[p]]
    /\ DOMAIN k2 \subseteq DOMAIN k
    /\ \A p \in DOMAIN k2 : k2[p] = k[p]
    /\ \A p \in DOMAIN k : p \notin DOMAIN k2 => IsSubPath(path, p)

\* ... and of a local source nothing before what was below it.
InOrder(k, k2) == \A p \in DOMAIN k2, q \in DOMAIN k : IsSubPath(q, p) => q \in DOMAIN k2

LEMMA ShrinkOK ==
    ASSUME NEW k, NEW b, DiskOK(k, b), NEW path \in Paths, NEW k2, Shrunk(k, k2, path),
           path[1] \notin b => InOrder(k, k2)
    PROVE  /\ DiskOK(k2, b)
           /\ \A p \in DOMAIN Shown(k2) : p \in DOMAIN Shown(k)
           /\ \A p \in AnyPath : ~IsSubPath(path, p) =>
                \/ Same(k, k2, p)
                \/ path[1] \in b /\ p \in DOMAIN Shown(k) /\ p \notin DOMAIN Shown(k2)
<1>0. path \in AnyPath /\ path # Root /\ path \notin Mounts BY PathsFacts
<1>1. /\ k2 = [p \in DOMAIN k2 |-> k2[p]]
      /\ DOMAIN k2 \subseteq DOMAIN k
      /\ \A p \in DOMAIN k2 : k2[p] = k[p]
      /\ \A p \in DOMAIN k : p \notin DOMAIN k2 => IsSubPath(path, p)
  BY DEF Shrunk
<1>2. \A p \in DOMAIN k2 : p \in Paths \cup Mounts /\ k2[p] \in Content /\ p \in AnyPath
  BY <1>1, DiskFacts
<1>3. ASSUME NEW m \in Mounts PROVE m \in DOMAIN k2 /\ k2[m] = "dir"
  BY DiskFacts, PathsFacts, <1>0, PrefixIs, ParentOrder, SubPathOrder, <1>1
<1>4. \A p, q \in DOMAIN k2 : IsSubPath(q, p) /\ q # p => k2[q] = "dir"
  BY <1>1, DiskFacts
<1>5. ASSUME NEW p \in DOMAIN k2, NEW q \in AnyPath, p[1] \notin b, q # Root, IsSubPath(q, p) PROVE q \in DOMAIN k2
  <2>1. q \in DOMAIN k /\ p \in AnyPath /\ q[1] = p[1]
    BY <1>1, <1>2, <1>5, DiskFacts, PrefixIs
  <2>2. CASE IsSubPath(path, q) BY <1>0, <2>2, PrefixIs, <1>5, <2>1 DEF InOrder
  <2>3. CASE ~IsSubPath(path, q) BY <1>1, <2>1, <2>3
  <2>. QED BY <2>2, <2>3
<1>6. DiskOK(k2, b) BY <1>1, <1>2, <1>3, <1>4, <1>5 DEF DiskOK
<1>7. ASSUME NEW p \in DOMAIN Shown(k2) PROVE p \in DOMAIN Shown(k)
  <2>1. PICK q \in DOMAIN k2 : p \in AnyPath /\ p # Root /\ IsSubPath(p, q)
    BY <1>6, ShownDomain
  <2>. QED BY <1>1, <2>1, ShownDomain
<1>8. ASSUME NEW p \in AnyPath, ~IsSubPath(path, p), path[1] \notin b, p \in DOMAIN Shown(k)
      PROVE  p \in DOMAIN Shown(k2)
  <2>1. PICK q \in DOMAIN k : p # Root /\ IsSubPath(p, q) BY <1>8, ShownDomain
  <2>2. CASE q \in DOMAIN k2 BY <1>6, <2>1, <2>2, ShownDomain
  <2>3. CASE q \notin DOMAIN k2
    <3>1. IsSubPath(path, q) /\ q \in AnyPath BY <1>1, <2>3, DiskFacts
    <3>2. IsSubPath(p, path) BY <1>0, <1>8, <2>1, <3>1, SubPathOrder
    <3>3. q[1] = path[1] /\ p[1] = path[1] BY <1>0, <2>1, <3>1, <3>2, PrefixIs
    <3>4. p \in DOMAIN k BY <1>8, <2>1, <3>1, <3>3, DiskFacts
    <3>5. p \in DOMAIN k2 BY <1>1, <1>8, <3>4
    <3>. QED BY <1>6, <3>5, ShownFacts
  <2>. QED BY <2>2, <2>3
<1>9. ASSUME NEW p \in AnyPath, ~IsSubPath(path, p), p \in DOMAIN Shown(k), p \in DOMAIN Shown(k2)
      PROVE  Shown(k)[p] = Shown(k2)[p]
  BY <1>1, <1>9, <1>6, ShownFacts
<1>10. ASSUME NEW p \in AnyPath, ~IsSubPath(path, p)
       PROVE  \/ Same(k, k2, p)
              \/ path[1] \in b /\ p \in DOMAIN Shown(k) /\ p \notin DOMAIN Shown(k2)
  BY <1>7, <1>8, <1>9, <1>10 DEF Same
<1>. QED BY <1>6, <1>7, <1>10

LEMMA WithoutOK ==
    ASSUME NEW k, NEW b, DiskOK(k, b), NEW path \in Paths, NEW k2, k2 = Without(k, path)
    PROVE  /\ Shrunk(k, k2, path) /\ InOrder(k, k2)
           /\ \A p : p \in DOMAIN k2 <=> p \in DOMAIN k /\ ~IsSubPath(path, p)
           /\ \A p \in AnyPath : IsSubPath(path, p) => p \notin DOMAIN Shown(k2)
<1>0. path \in AnyPath /\ path # Root /\ \A p \in DOMAIN k : p \in AnyPath
  BY PathsFacts, DiskFacts
<1>1. /\ \A p : p \in DOMAIN k2 <=> p \in DOMAIN k /\ ~IsSubPath(path, p)
      /\ \A p \in DOMAIN k2 : k2[p] = k[p]
      /\ k2 = [p \in DOMAIN k2 |-> k2[p]]
  BY RestrictFacts DEF Without, Below
<1>2. Shrunk(k, k2, path) BY <1>1 DEF Shrunk
<1>3. ASSUME NEW p \in DOMAIN k2, NEW q \in DOMAIN k, IsSubPath(q, p) PROVE q \in DOMAIN k2
  BY <1>0, <1>1, <1>3, SubPathOrder
<1>4. InOrder(k, k2) BY <1>3 DEF InOrder
<1>5. DiskOK(k2, b) BY <1>2, <1>4, ShrinkOK
<1>6. ASSUME NEW p \in AnyPath, IsSubPath(path, p), p \in DOMAIN Shown(k2) PROVE FALSE
  <2>1. PICK q \in DOMAIN k2 : IsSubPath(p, q) BY <1>5, <1>6, ShownDomain
  <2>2. q \in AnyPath /\ IsSubPath(path, q)
    BY <1>0, <1>1, <1>6, <2>1, SubPathOrder
  <2>. QED BY <1>1, <2>2
<1>. QED BY <1>1, <1>2, <1>4, <1>6

LEMMA DeletedOK ==
    ASSUME NEW k, NEW b, DiskOK(k, b), NEW path \in Paths, NEW part, part \subseteq AnyPath,
           NEW k2, k2 = Deleted(k, path, part)
    PROVE  Shrunk(k, k2, path)
<1>0. path \in AnyPath BY PathsFacts
<1>1. /\ \A p : p \in DOMAIN k2 <=> p \in DOMAIN k /\ ~\E r \in part : p = path \o r
      /\ \A p \in DOMAIN k2 : k2[p] = k[p]
      /\ k2 = [p \in DOMAIN k2 |-> k2[p]]
  <2>1. PICK S : S = DOMAIN k \ {path \o r : r \in part} OBVIOUS
  <2>2. k2 = Restrict(k, S) BY <2>1 DEF Deleted
  <2>3. DOMAIN k2 = S /\ (\A p \in S : k2[p] = k[p]) /\ k2 = [p \in DOMAIN k2 |-> k2[p]]
    BY <2>2, RestrictFacts
  <2>4. \A p : p \in S <=> p \in DOMAIN k /\ ~\E r \in part : p = path \o r
    BY <2>1
  <2>. QED BY <2>3, <2>4
<1>2. ASSUME NEW p \in DOMAIN k, p \notin DOMAIN k2 PROVE IsSubPath(path, p)
  <2>1. PICK r \in part : p = path \o r BY <1>1, <1>2
  <2>. QED BY <1>0, <2>1, BelowPath
<1>. QED BY <1>1, <1>2 DEF Shrunk

LEMMA RemoveFailsOK ==
    ASSUME NEW k, NEW b, DiskOK(k, b), NEW path \in Paths, NEW left \in Progress(Tree(k, path)),
           NEW k2, k2 = Plus(Without(k, path), At(path, Restrict(Tree(k, path), left)))
    PROVE  /\ Shrunk(k, k2, path) /\ InOrder(k, k2)
           /\ \A r \in DOMAIN Tree(k, path) : path \o r \in DOMAIN k2 <=> r \in left
<1>0. path \in AnyPath /\ path # Root /\ \A p \in DOMAIN k : p \in AnyPath
  BY PathsFacts, DiskFacts
<1>1. PICK tree : tree = Tree(k, path) OBVIOUS
<1>2. /\ \A r : r \in DOMAIN tree <=> r \in AnyPath /\ path \o r \in DOMAIN k
      /\ \A r \in DOMAIN tree : tree[r] = k[path \o r]
  BY <1>0, <1>1, TreeFacts
<1>3. left \subseteq DOMAIN tree /\ \A r \in left : \A q \in DOMAIN tree : IsSubPath(q, r) => q \in left
  BY <1>1 DEF Progress
<1>4. PICK w : w = Without(k, path) OBVIOUS
<1>5. PICK t : t = Restrict(tree, left) OBVIOUS
<1>6. DOMAIN t = left /\ \A r \in left : t[r] = tree[r] BY <1>5, RestrictFacts
<1>7. /\ \A p : p \in DOMAIN w <=> p \in DOMAIN k /\ ~IsSubPath(path, p)
      /\ \A p \in DOMAIN w : w[p] = k[p]
  BY <1>4, WithoutOK DEF Shrunk
<1>8. Placed(w, k2, path, t)
  BY <1>2, <1>3, <1>6, <1>7, <1>1, <1>4, <1>5, <1>0, PlaceFacts
<1>9. /\ \A p : p \in DOMAIN k2 <=> p \in DOMAIN w \/ \E r \in left : p = path \o r
      /\ \A p \in DOMAIN w : k2[p] = w[p]
      /\ \A r \in left : path \o r \in DOMAIN k2 /\ k2[path \o r] = t[r]
      /\ \A r \in AnyPath : path \o r \in DOMAIN k2 <=> r \in left
      /\ k2 = [p \in DOMAIN k2 |-> k2[p]]
  BY <1>6, <1>8 DEF Placed
<1>10. ASSUME NEW p \in DOMAIN k2 PROVE p \in DOMAIN k /\ k2[p] = k[p]
  <2>1. CASE p \in DOMAIN w BY <1>7, <1>9, <2>1
  <2>2. CASE p \notin DOMAIN w
    <3>1. PICK r \in left : p = path \o r BY <1>9, <2>2
    <3>2. r \in DOMAIN tree /\ k2[path \o r] = tree[r] /\ tree[r] = k[path \o r] /\ path \o r \in DOMAIN k
      BY <1>2, <1>3, <1>6, <1>9
    <3>. QED BY <3>1, <3>2
  <2>. QED BY <2>1, <2>2
<1>11. \A p \in DOMAIN k : p \notin DOMAIN k2 => IsSubPath(path, p)
  BY <1>7, <1>9
<1>12. Shrunk(k, k2, path) BY <1>9, <1>10, <1>11 DEF Shrunk
<1>13. ASSUME NEW p \in DOMAIN k2, NEW q \in DOMAIN k, IsSubPath(q, p) PROVE q \in DOMAIN k2
  <2>1. CASE ~IsSubPath(path, q) BY <1>7, <1>9, <2>1
  <2>2. CASE IsSubPath(path, q)
    <3>1. IsSubPath(path, p) /\ p \in DOMAIN k /\ p \in AnyPath /\ q \in AnyPath
      BY <1>0, <1>10, <1>13, <2>2, SubPathOrder
    <3>2. PICK r \in left : p = path \o r BY <1>7, <1>9, <3>1
    <3>3. PICK s : s = Inner(path, q) OBVIOUS
    <3>4. s \in AnyPath /\ q = path \o s /\ r \in AnyPath
      BY <1>0, <1>2, <1>3, <2>2, <3>1, <3>3, BelowPath
    <3>5. IsSubPath(s, r) BY <1>0, <1>13, <3>2, <3>4, ConcatOrder
    <3>6. s \in DOMAIN tree BY <1>2, <3>4
    <3>. QED BY <1>3, <1>9, <3>4, <3>5, <3>6
  <2>. QED BY <2>1, <2>2
<1>14. InOrder(k, k2) BY <1>13 DEF InOrder
<1>15. \A r \in DOMAIN tree : path \o r \in DOMAIN k2 <=> r \in left
  BY <1>2, <1>9
<1>. QED BY <1>1, <1>12, <1>14, <1>15

\* Directories are made above a path.
LEMMA AddDirsOK ==
    ASSUME NEW k, NEW b, DiskOK(k, b), NEW path \in Paths, path \notin DOMAIN Shown(k), NEW A,
           \A q \in A : q \in AnyPath /\ q # Root /\ IsSubPath(q, path) /\ q # path,
           \A q \in AnyPath : q # Root /\ IsSubPath(q, path) /\ q # path =>
             /\ q \in A \/ q \in DOMAIN Shown(k)
             /\ q \in DOMAIN Shown(k) => Shown(k)[q] = "dir",
           NEW k2, k2 = Plus(k, [p \in A |-> "dir"])
    PROVE  /\ DiskOK(k2, b) /\ Ready(k2, path)
           /\ DOMAIN k \subseteq DOMAIN k2 /\ \A p \in DOMAIN k : k2[p] = k[p]
           /\ \A p \in DOMAIN k2 : p \notin DOMAIN k => k2[p] = "dir"
           /\ \A p \in AnyPath : ~(IsSubPath(p, path) /\ p # path) => Same(k, k2, p)
           /\ \A p \in AnyPath : p # Root /\ IsSubPath(p, path) /\ p # path =>
                p \in DOMAIN Shown(k2) /\ Shown(k2)[p] = "dir"
<1>0. path \in AnyPath /\ path # Root BY PathsFacts
<1>1. /\ DOMAIN k2 = DOMAIN k \cup A /\ k2 = [p \in DOMAIN k2 |-> k2[p]]
      /\ \A p \in DOMAIN k : k2[p] = k[p]
      /\ \A p \in A : p \notin DOMAIN k => k2[p] = "dir"
  BY DEF Plus
<1>2. \A q \in A : q \in Paths \cup Mounts BY PathsFacts
<1>3. \A p \in DOMAIN k2 : p \in Paths \cup Mounts /\ k2[p] \in Content /\ p \in AnyPath
  BY <1>1, <1>2, DiskFacts DEF Content
<1>4. \A m \in Mounts : m \in DOMAIN k2 /\ k2[m] = "dir" BY <1>1, DiskFacts
<1>5. ASSUME NEW p \in DOMAIN k2, NEW q \in DOMAIN k2, IsSubPath(q, p), q # p PROVE k2[q] = "dir"
  <2>1. CASE q \notin DOMAIN k BY <1>1, <2>1
  <2>2. CASE q \in DOMAIN k /\ p \in DOMAIN k BY <1>1, <1>5, <2>2, DiskFacts
  <2>3. CASE q \in DOMAIN k /\ p \notin DOMAIN k
    <3>1. p \in A BY <1>1, <2>3
    <3>2. q \in AnyPath /\ q # Root /\ p \in AnyPath /\ IsSubPath(p, path)
      BY <2>3, <3>1, DiskFacts
    <3>3. IsSubPath(q, path) /\ q # path BY <1>0, <1>5, <3>1, <3>2, SubPathOrder
    <3>4. q \in DOMAIN Shown(k) /\ Shown(k)[q] = k[q] BY <2>3, ShownFacts
    <3>5. Shown(k)[q] = "dir" BY <3>2, <3>3, <3>4
    <3>. QED BY <1>1, <2>3, <3>4, <3>5
  <2>. QED BY <2>1, <2>2, <2>3
<1>6. ASSUME NEW p \in DOMAIN k2, NEW q \in AnyPath, p[1] \notin b, q # Root, IsSubPath(q, p) PROVE q \in DOMAIN k2
  <2>1. CASE p \in DOMAIN k BY <1>6, <2>1, DiskFacts, <1>1
  <2>2. CASE p \notin DOMAIN k
    <3>1. p \in A /\ p \in AnyPath /\ p # Root /\ IsSubPath(p, path) /\ p # path
      BY <1>1, <2>2
    <3>2. IsSubPath(q, path) /\ q # path BY <1>0, <1>6, <3>1, SubPathOrder
    <3>3. q \in A \/ q \in DOMAIN Shown(k) BY <1>6, <3>2
    <3>4. q[1] = p[1] BY <1>6, <3>1, PrefixIs
    <3>5. q \in DOMAIN Shown(k) => q \in DOMAIN k BY <1>6, <3>4, ShownFacts
    <3>. QED BY <1>1, <3>3, <3>5
  <2>. QED BY <2>1, <2>2
<1>7. DiskOK(k2, b) BY <1>1, <1>3, <1>4, <1>5, <1>6 DEF DiskOK
<1>8. \A p \in DOMAIN Shown(k) : p \in DOMAIN Shown(k2)
  <2>. SUFFICES ASSUME NEW p \in DOMAIN Shown(k) PROVE p \in DOMAIN Shown(k2)
    OBVIOUS
  <2>1. PICK q \in DOMAIN k : p \in AnyPath /\ p # Root /\ IsSubPath(p, q)
    BY ShownDomain
  <2>. QED BY <1>1, <1>7, <2>1, ShownDomain
<1>9. ASSUME NEW p \in AnyPath, ~(IsSubPath(p, path) /\ p # path) PROVE Same(k, k2, p)
  <2>1. ASSUME p \in DOMAIN Shown(k2) PROVE p \in DOMAIN Shown(k)
    <3>1. PICK q \in DOMAIN k2 : p # Root /\ IsSubPath(p, q)
      BY <1>7, <2>1, ShownDomain
    <3>2. CASE q \in DOMAIN k BY <3>1, <3>2, ShownDomain
    <3>3. CASE q \notin DOMAIN k BY <1>1, <3>3, <1>0, <3>1, SubPathOrder, <1>9
    <3>. QED BY <3>2, <3>3
  <2>2. p \in DOMAIN k <=> p \in DOMAIN k2 BY <1>1, <1>9
  <2>3. ASSUME p \in DOMAIN Shown(k), p \in DOMAIN Shown(k2) PROVE Shown(k)[p] = Shown(k2)[p]
    BY <1>1, <1>7, <2>2, <2>3, ShownFacts
  <2>. QED BY <1>8, <2>1, <2>3 DEF Same
<1>10. ASSUME NEW p \in AnyPath, p # Root, IsSubPath(p, path), p # path
       PROVE  p \in DOMAIN Shown(k2) /\ Shown(k2)[p] = "dir"
  <2>1. p \in DOMAIN Shown(k2) BY <1>10, <1>1, <1>7, <1>8, ShownFacts
  <2>2. CASE p \notin DOMAIN k2 BY <1>7, <2>1, <2>2, ShownFacts
  <2>3. CASE p \in DOMAIN k2 /\ p \notin DOMAIN k
    BY <1>1, <1>7, <2>1, <2>3, ShownFacts
  <2>4. CASE p \in DOMAIN k BY <2>4, ShownFacts, <1>10, <1>1, <1>7, <2>1
  <2>. QED BY <2>2, <2>3, <2>4
<1>11. Ready(k2, path)
  BY <1>0, <1>9, PathsFacts, ParentOrder, <1>10 DEF Same, Ready
<1>12. DOMAIN k \subseteq DOMAIN k2 /\ \A p \in DOMAIN k2 : p \notin DOMAIN k => k2[p] = "dir"
  BY <1>1
<1>. QED BY <1>1, <1>7, <1>9, <1>10, <1>11, <1>12

LEMMA EntryIsTree ==
    ASSUME NEW path \in Paths, NEW what \in Content, NEW b
    PROVE  /\ Entry(path, what) = At(path, Entry(Root, what)) /\ TreeOK(path, Entry(Root, what), b)
           /\ DOMAIN Entry(Root, what) = {Root} /\ Entry(Root, what)[Root] = what
<1>0. path \in AnyPath /\ path \o Root = path /\ Inner(path, path) = Root /\ Root \in AnyPath
  <2>1. path \in AnyPath /\ Root \in AnyPath BY PathsFacts, PathLen
  <2>2. path \o Root = path /\ Inner(path, path \o Root) = Root
    BY <2>1, BelowPath
  <2>. QED BY <2>1, <2>2
<1>1. PICK t : t = Entry(Root, what) OBVIOUS
<1>2. DOMAIN t = {Root} /\ t[Root] = what /\ t = [r \in DOMAIN t |-> t[r]]
  BY <1>1 DEF Entry
<1>3. {path \o r : r \in DOMAIN t} = {path} BY <1>0, <1>2
<1>4. At(path, t) = [p \in {path} |-> t[Inner(path, p)]] BY <1>3 DEF At
<1>5. At(path, t) = [p \in {path} |-> what] BY <1>0, <1>2, <1>4
<1>6. \A r \in DOMAIN t, q \in AnyPath : IsSubPath(q, r) => q \in DOMAIN t
  BY <1>0, <1>2, SubPathOrder
<1>7. \A r \in DOMAIN t : r \in AnyPath /\ path \o r \in Paths /\ t[r] \in Content
  BY <1>0, <1>2
<1>8. TreeOK(path, t, b) BY <1>2, <1>6, <1>7 DEF TreeOK
<1>. QED BY <1>1, <1>2, <1>5, <1>8 DEF Entry

\* A file or a directory is put where nothing is.
Added(k, k2, path, what) ==
    /\ Ready(k, path)
    /\ DOMAIN k2 = DOMAIN k \cup {path} /\ path \notin DOMAIN k /\ k2[path] = what
    /\ \A p \in DOMAIN k : k2[p] = k[p]
    /\ \A p \in AnyPath : p # path => Same(k, k2, p)
    /\ path \in DOMAIN Shown(k2) /\ Shown(k2)[path] = what

LEMMA EntryOK ==
    ASSUME NEW k, NEW b, DiskOK(k, b), NEW path, Ready(k, path), NEW what \in Content,
           NEW k2, k2 = Plus(k, Entry(path, what))
    PROVE  DiskOK(k2, b) /\ Added(k, k2, path, what)
<1>0. path \in Paths /\ path \in AnyPath /\ path \o Root = path /\ Root \in AnyPath
      /\ \A p \in AnyPath : IsSubPath(path, p) => p \notin DOMAIN k /\ p \notin DOMAIN Shown(k)
  BY ReadyFacts, BelowPath, PathLen
<1>1. PICK t : t = Entry(Root, what) OBVIOUS
<1>2. TreeOK(path, t, b) /\ k2 = Plus(k, At(path, t)) /\ DOMAIN t = {Root} /\ t[Root] = what
  BY <1>0, <1>1, EntryIsTree
<1>3. DiskOK(k2, b) /\ Placed(k, k2, path, t) BY <1>2, PlaceOK
<1>4. /\ DOMAIN k2 = DOMAIN k \cup {path} /\ k2[path] = what
      /\ \A p \in DOMAIN k : k2[p] = k[p]
  <2>1. /\ \A p : p \in DOMAIN k2 <=> p \in DOMAIN k \/ \E r \in DOMAIN t : p = path \o r
        /\ \A p \in DOMAIN k : k2[p] = k[p]
        /\ \A r \in DOMAIN t : path \o r \in DOMAIN k2 /\ k2[path \o r] = t[r]
    BY <1>3 DEF Placed
  <2>2. \A r \in DOMAIN t : r = Root BY <1>2
  <2>3. \A p : p \in DOMAIN k2 <=> p \in DOMAIN k \/ p = path
    BY <1>0, <1>2, <2>1, <2>2
  <2>4. k2[path] = what BY <1>0, <1>2, <2>1
  <2>. QED BY <2>1, <2>3, <2>4
<1>5. path \notin DOMAIN k BY <1>0, SubPathOrder
<1>6. path \in DOMAIN Shown(k2) /\ Shown(k2)[path] = what
  BY <1>3, <1>4, ShownFacts
<1>7. /\ \A p \in AnyPath : ~IsSubPath(path, p) => Same(k, k2, p)
      /\ \A r \in AnyPath : path \o r \in DOMAIN Shown(k2) <=> \E s \in DOMAIN t : IsSubPath(r, s)
  BY <1>2, <1>3, PlaceSame
<1>8. ASSUME NEW p \in AnyPath, p # path, IsSubPath(path, p) PROVE Same(k, k2, p)
  <2>1. PICK r : r = Inner(path, p) OBVIOUS
  <2>2. r \in AnyPath /\ p = path \o r /\ r # Root
    BY <1>0, <1>8, <2>1, BelowPath
  <2>3. p \notin DOMAIN Shown(k2) BY <1>0, <1>2, <1>7, <2>2, SubPathOrder
  <2>4. p \notin DOMAIN Shown(k) BY <1>0, <1>8
  <2>. QED BY <2>3, <2>4 DEF Same
<1>9. \A p \in AnyPath : p # path => Same(k, k2, p) BY <1>7, <1>8
<1>. QED BY <1>3, <1>4, <1>5, <1>6, <1>9 DEF Added

\* ... which of two disks is on top makes no difference there.
LEMMA PlusEntry ==
    ASSUME NEW k, NEW path, path \notin DOMAIN k, NEW what
    PROVE  Plus(Entry(path, what), k) = Plus(k, Entry(path, what))
<1>1. PICK e : e = Entry(path, what) OBVIOUS
<1>2. DOMAIN e = {path} BY <1>1 DEF Entry
<1>3. DOMAIN e \cup DOMAIN k = DOMAIN k \cup DOMAIN e OBVIOUS
<1>4. \A p \in DOMAIN k \cup DOMAIN e : (IF p \in DOMAIN e THEN e[p] ELSE k[p]) = (IF p \in DOMAIN k THEN k[p] ELSE e[p])
  BY <1>2
<1>5. Plus(e, k) = Plus(k, e) BY <1>3, <1>4 DEF Plus
<1>. QED BY <1>1, <1>5

\* A file is written over another.
LEMMA OverwriteOK ==
    ASSUME NEW k, NEW b, DiskOK(k, b), NEW path \in Paths, path \in DOMAIN k, k[path] # "dir",
           NEW what \in Content, what # "dir", NEW k2, k2 = Plus(Entry(path, what), k)
    PROVE  /\ DiskOK(k2, b)
           /\ DOMAIN k2 = DOMAIN k /\ k2[path] = what
           /\ \A p \in DOMAIN k : p # path => k2[p] = k[p]
           /\ \A p \in AnyPath : Same(k, k2, p)
           /\ path \in DOMAIN Shown(k2) /\ Shown(k2)[path] = what
<1>1. PICK e : e = Entry(path, what) OBVIOUS
<1>2. DOMAIN e = {path} /\ e[path] = what BY <1>1 DEF Entry
<1>3. /\ DOMAIN k2 = DOMAIN k /\ k2[path] = what
      /\ \A p \in DOMAIN k : p # path => k2[p] = k[p]
      /\ k2 = [p \in DOMAIN k2 |-> k2[p]]
  BY <1>1, <1>2 DEF Plus
<1>4. \A p \in DOMAIN k : k2[p] = "dir" <=> k[p] = "dir" BY <1>3
<1>5. /\ DOMAIN k2 \subseteq Paths \cup Mounts
      /\ \A p \in DOMAIN k2 : k2[p] \in Content
      /\ \A m \in Mounts : m \in DOMAIN k2 /\ k2[m] = "dir"
      /\ \A p, q \in DOMAIN k2 : IsSubPath(q, p) /\ q # p => k2[q] = "dir"
      /\ \A p \in DOMAIN k2, q \in AnyPath : p[1] \notin b /\ q # Root /\ IsSubPath(q, p) => q \in DOMAIN k2
  BY <1>3, <1>4, DiskFacts
<1>6. DiskOK(k2, b) BY <1>3, <1>5 DEF DiskOK
<1>7. DOMAIN Shown(k2) = DOMAIN Shown(k) BY ShownDomain, <1>6, <1>3
<1>8. ASSUME NEW p \in DOMAIN Shown(k) PROVE Shown(k)[p] = "dir" <=> Shown(k2)[p] = "dir"
  <2>1. CASE p \in DOMAIN k BY <1>3, <1>4, <1>6, <2>1, ShownFacts
  <2>2. CASE p \notin DOMAIN k BY <1>3, <1>6, <1>7, <2>2, ShownFacts
  <2>. QED BY <2>1, <2>2
<1>9. \A p \in AnyPath : Same(k, k2, p) BY <1>7, <1>8 DEF Same
<1>10. path \in DOMAIN Shown(k2) /\ Shown(k2)[path] = what
  BY <1>3, <1>6, ShownFacts
<1>. QED BY <1>3, <1>6, <1>9, <1>10

\* What was at a path of a local source is put elsewhere.
LEMMA RenamedOK ==
    ASSUME NEW k, NEW b, DiskOK(k, b), NEW path \in Paths, path[1] \notin b,
           NEW new, Ready(k, new), ~IsSubPath(path, new), Fits(new, Tree(k, path)),
           NEW w, w = Without(k, path), NEW k2, k2 = Renamed(k, path, new)
    PROVE  /\ DiskOK(w, b) /\ Ready(w, new)
           /\ TreeOK(new, Tree(k, path), b)
           /\ DiskOK(k2, b) /\ Placed(w, k2, new, Tree(k, path))
<1>0. path \in AnyPath /\ path # Root /\ new \in AnyPath /\ new # Root
  BY PathsFacts, ReadyFacts
<1>2. PICK tree : tree = Tree(k, path) OBVIOUS
<1>3. /\ Shrunk(k, w, path) /\ InOrder(k, w)
      /\ \A p : p \in DOMAIN w <=> p \in DOMAIN k /\ ~IsSubPath(path, p)
      /\ \A p \in AnyPath : IsSubPath(path, p) => p \notin DOMAIN Shown(w)
  BY WithoutOK
<1>4. /\ DiskOK(w, b) /\ \A p \in DOMAIN Shown(w) : p \in DOMAIN Shown(k)
      /\ \A p \in AnyPath : ~IsSubPath(path, p) => Same(k, w, p)
  BY <1>3, ShrinkOK
<1>5. TreeOK(new, tree, b) BY <1>0, <1>2, TreeIsOK DEF Fits
<1>6. Ready(w, new) BY <1>0, ParentOrder, SubPathOrder, <1>4 DEF Ready, Same
<1>7. k2 = Plus(w, At(new, tree)) BY <1>2 DEF Renamed
<1>8. DiskOK(k2, b) /\ Placed(w, k2, new, tree)
  BY <1>4, <1>5, <1>6, <1>7, PlaceOK
<1>. QED BY <1>2, <1>4, <1>5, <1>6, <1>8

LEMMA VanishAbove ==
    ASSUME NEW k, NEW b, DiskOK(k, b), NEW path \in Paths, NEW k2, Shrunk(k, k2, path), DiskOK(k2, b),
           NEW p \in DOMAIN Shown(k), p \notin DOMAIN Shown(k2)
    PROVE  IsSubPath(p, path) \/ IsSubPath(path, p)
<1>1. PICK q \in DOMAIN k : p \in AnyPath /\ p # Root /\ IsSubPath(p, q)
  BY ShownDomain
<1>2. q \notin DOMAIN k2 BY <1>1, ShownDomain
<1>3. IsSubPath(path, q) /\ q \in AnyPath /\ path \in AnyPath
  BY <1>2, DiskFacts, PathsFacts DEF Shrunk
<1>. QED BY <1>1, <1>3, SubPathOrder

LEMMA LocalReady ==
    ASSUME NEW k, NEW b, DiskOK(k, b), NEW new \in Paths, new[1] \notin b, new \notin DOMAIN k,
           Parent(new) \in DOMAIN k, k[Parent(new)] = "dir"
    PROVE  Ready(k, new)
<1>1. new \in AnyPath BY PathsFacts
<1>2. new \notin DOMAIN Shown(k) /\ Parent(new) \in DOMAIN Shown(k) /\ Shown(k)[Parent(new)] = "dir"
  BY <1>1, ShownFacts
<1>. QED BY <1>2 DEF Ready

\* What was at a path and below it is at another one and below.
Relocated(k, k2, path, new) ==
    /\ \A p \in AnyPath : ~IsSubPath(path, p) /\ ~IsSubPath(new, p) =>
         Same(k, k2, p) \/ (p \in DOMAIN Shown(k) /\ p \notin DOMAIN Shown(k2) /\ IsSubPath(p, path) /\ ~IsSubPath(p, new))
    /\ \A p \in AnyPath : IsSubPath(path, p) => p \notin DOMAIN Shown(k2)
    /\ \A r \in AnyPath : new \o r \in DOMAIN Shown(k2) <=> path \o r \in DOMAIN Shown(k)
    /\ \A r \in AnyPath : new \o r \in DOMAIN Shown(k2) =>
         (Shown(k2)[new \o r] = "dir" <=> Shown(k)[path \o r] = "dir")
    /\ \A p \in DOMAIN k : \E q \in DOMAIN k2 : k2[q] = k[p]

LEMMA SameTree ==
    ASSUME NEW k, NEW b, DiskOK(k, b), NEW path \in Paths, NEW k2, NEW new,
           \A r \in AnyPath : new \o r \in DOMAIN Shown(k2) <=> \E t \in DOMAIN Tree(k, path) : IsSubPath(r, t),
           \A r \in AnyPath : new \o r \in DOMAIN Shown(k2) =>
                (Shown(k2)[new \o r] = "dir" <=> (r \in DOMAIN Tree(k, path) => Tree(k, path)[r] = "dir"))
    PROVE  /\ \A r \in AnyPath : new \o r \in DOMAIN Shown(k2) <=> path \o r \in DOMAIN Shown(k)
           /\ \A r \in AnyPath : new \o r \in DOMAIN Shown(k2) =>
                (Shown(k2)[new \o r] = "dir" <=> Shown(k)[path \o r] = "dir")
<1>0. path \in AnyPath /\ path # Root BY PathsFacts
<1>1. /\ \A r : r \in DOMAIN Tree(k, path) <=> r \in AnyPath /\ path \o r \in DOMAIN k
      /\ \A r \in DOMAIN Tree(k, path) : Tree(k, path)[r] = k[path \o r]
  BY <1>0, TreeFacts
<1>2. ASSUME NEW r \in AnyPath, NEW t \in DOMAIN Tree(k, path), IsSubPath(r, t) PROVE path \o r \in DOMAIN Shown(k)
  <2>1. t \in AnyPath /\ path \o t \in DOMAIN k BY <1>1
  <2>2. IsSubPath(path \o r, path \o t) /\ path \o r # Root
    BY <1>0, <1>2, <2>1, ConcatOrder
  <2>3. path \o r \in AnyPath BY <1>0, BelowPath
  <2>. QED BY <2>1, <2>2, <2>3, ShownDomain
<1>3. ASSUME NEW r \in AnyPath, path \o r \in DOMAIN Shown(k) PROVE \E t \in DOMAIN Tree(k, path) : IsSubPath(r, t)
  <2>1. PICK q \in DOMAIN k : IsSubPath(path \o r, q) BY <1>3, ShownDomain
  <2>2. q \in AnyPath /\ path \o r \in AnyPath /\ IsSubPath(path, path \o r)
    BY <1>0, DiskFacts, BelowPath
  <2>3. IsSubPath(path, q) BY <1>0, <2>1, <2>2, SubPathOrder
  <2>4. PICK t : t = Inner(path, q) OBVIOUS
  <2>5. t \in AnyPath /\ q = path \o t BY <1>0, <2>2, <2>3, <2>4, BelowPath
  <2>6. IsSubPath(r, t) BY <1>0, <2>1, <2>5, ConcatOrder
  <2>7. t \in DOMAIN Tree(k, path) BY <1>1, <2>5
  <2>. QED BY <2>6, <2>7
<1>4. ASSUME NEW r \in AnyPath, path \o r \in DOMAIN Shown(k)
      PROVE  Shown(k)[path \o r] = "dir" <=> (r \in DOMAIN Tree(k, path) => Tree(k, path)[r] = "dir")
  BY <1>1, ShownFacts, <1>4
<1>5. \A r \in AnyPath : new \o r \in DOMAIN Shown(k2) <=> path \o r \in DOMAIN Shown(k)
  BY <1>2, <1>3
<1>. QED BY <1>4, <1>5

\* os.Rename
LEMMA RelocateLocal ==
    ASSUME NEW k, NEW b, DiskOK(k, b), NEW path \in Paths, path[1] \notin b,
           NEW new, Ready(k, new), ~IsSubPath(path, new), Fits(new, Tree(k, path)),
           NEW k2, k2 = Renamed(k, path, new)
    PROVE  DiskOK(k2, b) /\ Relocated(k, k2, path, new)
<1>0. path \in AnyPath /\ path # Root /\ new \in AnyPath /\ new # Root
  BY PathsFacts, ReadyFacts
<1>1. PICK w : w = Without(k, path) OBVIOUS
<1>2. PICK tree : tree = Tree(k, path) OBVIOUS
<1>3. DiskOK(w, b) /\ Ready(w, new) /\ TreeOK(new, tree, b) /\ DiskOK(k2, b) /\ Placed(w, k2, new, tree)
  BY <1>1, <1>2, RenamedOK
<1>4. /\ Shrunk(k, w, path) /\ InOrder(k, w)
      /\ \A p \in AnyPath : IsSubPath(path, p) => p \notin DOMAIN Shown(w)
      /\ \A p : p \in DOMAIN w <=> p \in DOMAIN k /\ ~IsSubPath(path, p)
  BY <1>1, WithoutOK
<1>5. \A p \in AnyPath : ~IsSubPath(path, p) => Same(k, w, p) BY <1>4, ShrinkOK
<1>6. /\ \A p \in AnyPath : ~IsSubPath(new, p) => Same(w, k2, p)
      /\ \A r \in AnyPath : new \o r \in DOMAIN Shown(k2) <=> \E t \in DOMAIN tree : IsSubPath(r, t)
      /\ \A r \in AnyPath : new \o r \in DOMAIN Shown(k2) =>
           (Shown(k2)[new \o r] = "dir" <=> (r \in DOMAIN tree => tree[r] = "dir"))
  BY <1>3, PlaceSame
<1>7. /\ \A r \in AnyPath : new \o r \in DOMAIN Shown(k2) <=> path \o r \in DOMAIN Shown(k)
      /\ \A r \in AnyPath : new \o r \in DOMAIN Shown(k2) =>
           (Shown(k2)[new \o r] = "dir" <=> Shown(k)[path \o r] = "dir")
  BY <1>2, <1>6, SameTree
<1>8. \A p \in AnyPath : ~IsSubPath(path, p) /\ ~IsSubPath(new, p) => Same(k, k2, p)
  BY <1>5, <1>6 DEF Same
<1>9. ASSUME NEW p \in AnyPath, IsSubPath(path, p), p \in DOMAIN Shown(k2) PROVE FALSE
  <2>1. CASE ~IsSubPath(new, p) BY <1>4, <1>6, <1>9, <2>1 DEF Same
  <2>2. CASE IsSubPath(new, p)
    <3>1. IsSubPath(new, path) \/ IsSubPath(path, new)
      BY <1>0, <1>9, <2>2, SubPathOrder
    <3>2. IsSubPath(new, path) BY <3>1
    <3>3. path \notin DOMAIN k /\ path \notin DOMAIN Shown(k)
      BY <1>0, <3>2, ReadyFacts
    <3>4. PICK r : r = Inner(new, p) OBVIOUS
    <3>5. r \in AnyPath /\ p = new \o r BY <1>0, <2>2, <3>4, BelowPath
    <3>6. path \o r \in DOMAIN Shown(k) BY <1>7, <1>9, <3>5
    <3>7. IsSubPath(path, path \o r) BY <1>0, <3>5, BelowPath
    <3>. QED BY <1>0, <3>3, <3>6, <3>7, ShownFacts
  <2>. QED BY <2>1, <2>2
<1>10. ASSUME NEW p \in DOMAIN k PROVE \E q \in DOMAIN k2 : k2[q] = k[p]
  <2>1. CASE ~IsSubPath(path, p) BY <1>4, <2>1, <1>3 DEF Shrunk, Placed
  <2>2. CASE IsSubPath(path, p)
    <3>1. PICK r : r = Inner(path, p) OBVIOUS
    <3>2. r \in AnyPath /\ p = path \o r
      BY <1>0, <2>2, <3>1, BelowPath, DiskFacts
    <3>3. r \in DOMAIN tree /\ tree[r] = k[p] BY <1>0, <1>2, <3>2, TreeFacts
    <3>. QED BY <1>3, <3>3 DEF Placed
  <2>. QED BY <2>1, <2>2
<1>. QED BY <1>3, <1>7, <1>8, <1>9, <1>10 DEF Relocated

\* A copy, and then the removal of the original
LEMMA RelocateCopy ==
    ASSUME NEW k, NEW b, DiskOK(k, b), NEW path \in Paths, path \in DOMAIN Shown(k),
           NEW new, Ready(k, new), ~IsSubPath(path, new),
           TreeOK(new, Tree(k, path), b),
           NEW mid, mid = Plus(k, At(new, Tree(k, path))), NEW k2, k2 = Without(mid, path)
    PROVE  /\ DiskOK(mid, b) /\ DiskOK(k2, b) /\ Relocated(k, k2, path, new)
           /\ Shrunk(mid, k2, path) /\ InOrder(mid, k2)
<1>0. path \in AnyPath /\ path # Root /\ new \in AnyPath /\ new # Root
  BY PathsFacts, ReadyFacts
<1>1. PICK tree : tree = Tree(k, path) OBVIOUS
<1>2. DiskOK(mid, b) /\ Placed(k, mid, new, tree) BY <1>1, PlaceOK
<1>3. /\ Shrunk(mid, k2, path) /\ InOrder(mid, k2)
      /\ \A p : p \in DOMAIN k2 <=> p \in DOMAIN mid /\ ~IsSubPath(path, p)
      /\ \A p \in AnyPath : IsSubPath(path, p) => p \notin DOMAIN Shown(k2)
  BY <1>2, WithoutOK
<1>4. DiskOK(k2, b) BY <1>2, <1>3, ShrinkOK
<1>5. /\ \A p \in AnyPath : ~IsSubPath(new, p) => Same(k, mid, p)
      /\ \A r \in AnyPath : new \o r \in DOMAIN Shown(mid) <=> \E t \in DOMAIN tree : IsSubPath(r, t)
      /\ \A r \in AnyPath : new \o r \in DOMAIN Shown(mid) =>
           (Shown(mid)[new \o r] = "dir" <=> (r \in DOMAIN tree => tree[r] = "dir"))
  BY <1>1, <1>2, PlaceSame
<1>6. ~IsSubPath(new, path) BY <1>0, ReadyFacts
<1>7. \A p \in AnyPath : IsSubPath(new, p) => ~IsSubPath(path, p)
  BY <1>0, <1>6, SubPathOrder
<1>8. ASSUME NEW p \in AnyPath, IsSubPath(new, p) PROVE Same(mid, k2, p)
  BY <1>0, <1>6, <1>8, SubPathOrder, <1>7, <1>2, <1>3, ShrinkOK, <1>4, VanishAbove
<1>9. /\ \A r \in AnyPath : new \o r \in DOMAIN Shown(k2) <=> new \o r \in DOMAIN Shown(mid)
      /\ \A r \in AnyPath : new \o r \in DOMAIN Shown(k2) =>
           (Shown(k2)[new \o r] = "dir" <=> Shown(mid)[new \o r] = "dir")
  BY <1>0, <1>8, BelowPath DEF Same
<1>10. /\ \A r \in AnyPath : new \o r \in DOMAIN Shown(mid) <=> path \o r \in DOMAIN Shown(k)
       /\ \A r \in AnyPath : new \o r \in DOMAIN Shown(mid) =>
            (Shown(mid)[new \o r] = "dir" <=> Shown(k)[path \o r] = "dir")
  BY <1>1, <1>5, SameTree
<1>11. /\ \A r \in AnyPath : new \o r \in DOMAIN Shown(k2) <=> path \o r \in DOMAIN Shown(k)
       /\ \A r \in AnyPath : new \o r \in DOMAIN Shown(k2) =>
            (Shown(k2)[new \o r] = "dir" <=> Shown(k)[path \o r] = "dir")
  BY <1>9, <1>10
<1>12. new \in DOMAIN Shown(k2)
  <2>1. Root \in AnyPath /\ new \o Root = new /\ path \o Root = path
    BY <1>0, PathLen, BelowPath
  <2>. QED BY <1>11, <2>1
<1>13. ASSUME NEW p \in AnyPath, ~IsSubPath(path, p), ~IsSubPath(new, p)
       PROVE  \/ Same(k, k2, p)
              \/ p \in DOMAIN Shown(k) /\ p \notin DOMAIN Shown(k2) /\ IsSubPath(p, path) /\ ~IsSubPath(p, new)
  <2>1. Same(k, mid, p) BY <1>5, <1>13
  <2>2. Same(mid, k2, p) \/ (p \in DOMAIN Shown(mid) /\ p \notin DOMAIN Shown(k2))
    BY <1>2, <1>3, <1>13, ShrinkOK
  <2>3. CASE Same(mid, k2, p) BY <2>1, <2>3 DEF Same
  <2>4. CASE p \in DOMAIN Shown(mid) /\ p \notin DOMAIN Shown(k2)
    BY <1>2, <1>3, <1>4, <1>13, <2>4, VanishAbove, ShownDomain, <1>12, ShownFacts, <2>1 DEF Same
  <2>. QED BY <2>2, <2>3, <2>4
<1>14. ASSUME NEW p \in DOMAIN k PROVE \E q \in DOMAIN k2 : k2[q] = k[p]
  <2>1. CASE ~IsSubPath(path, p) BY <1>2, <1>3, <2>1 DEF Placed, Shrunk
  <2>2. CASE IsSubPath(path, p)
    <3>1. PICK r : r = Inner(path, p) OBVIOUS
    <3>2. r \in AnyPath /\ p = path \o r
      BY <1>0, <2>2, <3>1, BelowPath, DiskFacts
    <3>3. r \in DOMAIN tree /\ tree[r] = k[p] BY <1>0, <1>1, <3>2, TreeFacts
    <3>4. new \o r \in DOMAIN mid /\ mid[new \o r] = k[p]
      BY <1>2, <3>3 DEF Placed
    <3>5. ~IsSubPath(path, new \o r) BY <1>0, <1>7, <3>2, BelowPath
    <3>6. new \o r \in DOMAIN k2 /\ k2[new \o r] = mid[new \o r]
      BY <1>3, <3>4, <3>5 DEF Shrunk
    <3>. QED BY <3>4, <3>6
  <2>. QED BY <2>1, <2>2
<1>15. \A p \in AnyPath : IsSubPath(path, p) => p \notin DOMAIN Shown(k2)
  BY <1>3
<1>16. Relocated(k, k2, path, new) BY <1>11, <1>13, <1>14, <1>15 DEF Relocated
<1>. QED BY <1>2, <1>3, <1>4, <1>16

LEMMA AboveForm ==
    ASSUME NEW path \in AnyPath
    PROVE  /\ \A q \in AnyPath : q # Root /\ IsSubPath(q, path) /\ q # path => \E n \in 1 .. Len(path) - 1 : q = SubSeq(path, 1, n)
           /\ \A n \in 1 .. Len(path) - 1 : /\ SubSeq(path, 1, n) \in AnyPath /\ SubSeq(path, 1, n) # Root
                                            /\ IsSubPath(SubSeq(path, 1, n), path) /\ SubSeq(path, 1, n) # path
<1>1. ASSUME NEW q \in AnyPath, q # Root, IsSubPath(q, path), q # path PROVE \E n \in 1 .. Len(path) - 1 : q = SubSeq(path, 1, n)
  BY <1>1, PrefixIs
<1>2. ASSUME NEW n \in 1 .. Len(path) - 1
      PROVE  /\ SubSeq(path, 1, n) \in AnyPath /\ SubSeq(path, 1, n) # Root
             /\ IsSubPath(SubSeq(path, 1, n), path) /\ SubSeq(path, 1, n) # path
  BY ProperPrefix, PrefixOf
<1>. QED BY <1>1, <1>2, SMTT(60)

\* A tree is put back at a path, and the directories above it made.
Restored(k, k2, path, tree) ==
    /\ \A p \in DOMAIN k : p \in DOMAIN k2 /\ k2[p] = k[p]
    /\ \A r \in DOMAIN tree : path \o r \in DOMAIN k2 /\ k2[path \o r] = tree[r]
    /\ \A p \in AnyPath : ~IsSubPath(p, path) /\ ~IsSubPath(path, p) => Same(k, k2, p)
    /\ \A p \in AnyPath : p # Root /\ IsSubPath(p, path) /\ p # path =>
         p \in DOMAIN Shown(k2) /\ Shown(k2)[p] = "dir"
    /\ \A r \in AnyPath : path \o r \in DOMAIN Shown(k2) <=> \E t \in DOMAIN tree : IsSubPath(r, t)
    /\ \A r \in AnyPath : path \o r \in DOMAIN Shown(k2) =>
         (Shown(k2)[path \o r] = "dir" <=> (r \in DOMAIN tree => tree[r] = "dir"))

LEMMA RestoreOK ==
    ASSUME NEW k, NEW b, DiskOK(k, b), NEW path \in Paths, path \notin DOMAIN Shown(k),
           NEW tree, TreeOK(path, tree, b), NEW A,
           \A q \in A : q \in AnyPath /\ q # Root /\ IsSubPath(q, path) /\ q # path,
           \A q \in AnyPath : q # Root /\ IsSubPath(q, path) /\ q # path =>
             /\ q \in A \/ q \in DOMAIN Shown(k)
             /\ q \in DOMAIN Shown(k) => Shown(k)[q] = "dir",
           NEW k2, k2 = Plus(Plus(k, [p \in A |-> "dir"]), At(path, tree))
    PROVE  DiskOK(k2, b) /\ Restored(k, k2, path, tree)
<1>0. path \in AnyPath /\ path # Root BY PathsFacts
<1>1. PICK mid : mid = Plus(k, [p \in A |-> "dir"]) OBVIOUS
<1>2. /\ DiskOK(mid, b) /\ Ready(mid, path)
      /\ DOMAIN k \subseteq DOMAIN mid /\ \A p \in DOMAIN k : mid[p] = k[p]
      /\ \A p \in AnyPath : ~(IsSubPath(p, path) /\ p # path) => Same(k, mid, p)
      /\ \A p \in AnyPath : p # Root /\ IsSubPath(p, path) /\ p # path =>
           p \in DOMAIN Shown(mid) /\ Shown(mid)[p] = "dir"
  BY <1>1, AddDirsOK
<1>3. DiskOK(k2, b) /\ Placed(mid, k2, path, tree) BY <1>1, <1>2, PlaceOK
<1>4. /\ \A p \in AnyPath : ~IsSubPath(path, p) => Same(mid, k2, p)
      /\ \A r \in AnyPath : path \o r \in DOMAIN Shown(k2) <=> \E t \in DOMAIN tree : IsSubPath(r, t)
      /\ \A r \in AnyPath : path \o r \in DOMAIN Shown(k2) =>
           (Shown(k2)[path \o r] = "dir" <=> (r \in DOMAIN tree => tree[r] = "dir"))
  BY <1>2, <1>3, PlaceSame
<1>5. \A p \in DOMAIN k : p \in DOMAIN k2 /\ k2[p] = k[p]
  BY <1>2, <1>3 DEF Placed
<1>6. \A r \in DOMAIN tree : path \o r \in DOMAIN k2 /\ k2[path \o r] = tree[r]
  BY <1>3 DEF Placed
<1>7. ASSUME NEW p \in AnyPath, ~IsSubPath(p, path), ~IsSubPath(path, p) PROVE Same(k, k2, p)
  BY <1>2, <1>4, <1>7 DEF Same
<1>8. ASSUME NEW p \in AnyPath, p # Root, IsSubPath(p, path), p # path
      PROVE  p \in DOMAIN Shown(k2) /\ Shown(k2)[p] = "dir"
  BY <1>0, <1>8, SubPathOrder, <1>2, <1>4 DEF Same
<1>. QED BY <1>3, <1>4, <1>5, <1>6, <1>7, <1>8 DEF Restored

LEMMA EnsureOK ==
    ASSUME NEW k, NEW b, DiskOK(k, b), NEW path \in Paths, MayRestore(k, path),
           NEW tree, TreeOK(path, tree, b), NEW k2, k2 = Plus(EnsurePath(k, Parent(path)), At(path, tree))
    PROVE  DiskOK(k2, b) /\ Restored(k, k2, path, tree)
<1>0. path \in AnyPath /\ path # Root /\ Parent(path) \in AnyPath
  BY PathsFacts, ParentOrder
<1>1. PICK A : A = {SubSeq(Parent(path), 1, n) : n \in 1 .. Len(Parent(path))} \ DOMAIN Shown(k)
  OBVIOUS
<1>2. k2 = Plus(Plus(k, [p \in A |-> "dir"]), At(path, tree))
  BY <1>1 DEF EnsurePath
<1>3. path \notin DOMAIN Shown(k) BY DEF MayRestore, NameIsFree, Exists
<1>4. ASSUME NEW q \in A PROVE q \in AnyPath /\ q # Root /\ IsSubPath(q, path) /\ q # path
  <2>1. PICK n \in 1 .. Len(Parent(path)) : q = SubSeq(Parent(path), 1, n)
    BY <1>1
  <2>2. q \in AnyPath /\ q # Root /\ IsSubPath(q, Parent(path))
    BY <1>0, <2>1, PrefixOf
  <2>3. IsSubPath(Parent(path), path) /\ ~IsSubPath(path, Parent(path))
    BY <1>0, ParentOrder
  <2>. QED BY <1>0, <2>2, <2>3, SubPathOrder
<1>5. ASSUME NEW q \in AnyPath, q # Root, IsSubPath(q, path), q # path
      PROVE  /\ q \in A \/ q \in DOMAIN Shown(k)
             /\ q \in DOMAIN Shown(k) => Shown(k)[q] = "dir"
  <2>1. IsSubPath(q, Parent(path)) BY <1>0, <1>5, ParentOrder
  <2>2. PICK n : n = Len(q) OBVIOUS
  <2>3. n \in 1 .. Len(Parent(path)) /\ q = SubSeq(Parent(path), 1, n)
    BY <1>0, <1>5, <2>1, <2>2, PrefixIs
  <2>4. q \in A \/ q \in DOMAIN Shown(k) BY <1>1, <2>3
  <2>5. PICK m \in 1 .. Len(path) - 1 : q = SubSeq(path, 1, m)
    BY <1>0, <1>5, AboveForm
  <2>6. q \in DOMAIN Shown(k) => Shown(k)[q] = "dir"
    BY <2>5 DEF MayRestore, IsDirectory, Exists
  <2>. QED BY <2>4, <2>6
<1>6. \A q \in A : q \in AnyPath /\ q # Root /\ IsSubPath(q, path) /\ q # path
  BY <1>4
<1>7. \A q \in AnyPath : q # Root /\ IsSubPath(q, path) /\ q # path =>
        /\ q \in A \/ q \in DOMAIN Shown(k)
        /\ q \in DOMAIN Shown(k) => Shown(k)[q] = "dir"
  BY <1>5
<1>. QED BY <1>2, <1>3, <1>6, <1>7, RestoreOK

LEMMA RestoreLocalOK ==
    ASSUME NEW k, NEW b, DiskOK(k, b), NEW path \in Paths, path[1] \notin b,
           NEW tree, TreeOK(path, tree, b), NEW k2 \in RestoreLocal(k, path, tree)
    PROVE  DiskOK(k2, b) /\ Restored(k, k2, path, tree)
<1>0. path \in AnyPath /\ path # Root BY PathsFacts
<1>1. PICK A : A = {SubSeq(path, 1, n) : n \in 1 .. Len(path) - 1} OBVIOUS
<1>2. /\ NameIsFree(k, path) /\ \A p \in A : Exists(k, p) => IsDirectory(k, p)
      /\ k2 = Plus(Plus(k, [p \in A |-> "dir"]), At(path, tree))
  BY <1>1 DEF RestoreLocal
<1>3. path \notin DOMAIN Shown(k)
  BY <1>0, <1>2, ShownFacts DEF NameIsFree, Exists
<1>4. \A q \in A : q \in AnyPath /\ q # Root /\ IsSubPath(q, path) /\ q # path
  BY <1>0, <1>1, AboveForm, ZenonT(60)
<1>5. ASSUME NEW q \in AnyPath, q # Root, IsSubPath(q, path), q # path
      PROVE  /\ q \in A \/ q \in DOMAIN Shown(k)
             /\ q \in DOMAIN Shown(k) => Shown(k)[q] = "dir"
  <2>1. q \in A BY <1>0, <1>1, <1>5, AboveForm
  <2>2. q[1] = path[1] BY <1>0, <1>5, PrefixIs
  <2>3. q \in DOMAIN Shown(k) => q \in DOMAIN k /\ Shown(k)[q] = k[q]
    BY <1>5, <2>2, ShownFacts
  <2>4. q \in DOMAIN k => k[q] = "dir" BY <1>2, <2>1 DEF Exists, IsDirectory
  <2>. QED BY <2>1, <2>3, <2>4
<1>6. \A q \in AnyPath : q # Root /\ IsSubPath(q, path) /\ q # path =>
        /\ q \in A \/ q \in DOMAIN Shown(k)
        /\ q \in DOMAIN Shown(k) => Shown(k)[q] = "dir"
  BY <1>5
<1>. QED BY <1>2, <1>3, <1>4, <1>6, RestoreOK

\* What has been taken away can be put back, and then all is as before.
LEMMA MayPutBack ==
    ASSUME NEW k, NEW b, DiskOK(k, b), NEW path \in Paths, path \in DOMAIN Shown(k), NEW w, w = Without(k, path)
    PROVE  /\ DiskOK(w, b) /\ MayRestore(w, path) /\ TreeOK(path, Tree(k, path), b)
           /\ \A r \in DOMAIN Tree(k, path) : path \o r \in DOMAIN k /\ Tree(k, path)[r] = k[path \o r]
<1>0. path \in AnyPath /\ path # Root BY PathsFacts
<1>1. /\ Shrunk(k, w, path) /\ InOrder(k, w)
      /\ \A p \in AnyPath : IsSubPath(path, p) => p \notin DOMAIN Shown(w)
  BY WithoutOK
<1>2. DiskOK(w, b) BY <1>1, ShrinkOK
<1>3. path \notin DOMAIN Shown(w) BY <1>0, <1>1, SubPathOrder
<1>4. ASSUME NEW n \in 1 .. Len(path) - 1, NEW q, q = SubSeq(path, 1, n), q \in DOMAIN Shown(w)
      PROVE  Shown(w)[q] = "dir"
  <2>1. q \in AnyPath /\ q # Root /\ IsSubPath(q, path) /\ q # path
    BY <1>0, <1>4, AboveForm
  <2>2. q \in DOMAIN Shown(k) BY <1>1, <1>4, ShrinkOK
  <2>3. Shown(k)[q] = "dir" BY <2>1, <2>2, ShownFacts
  <2>4. q \in DOMAIN w => w[q] = k[q] /\ q \in DOMAIN k BY <1>1 DEF Shrunk
  <2>5. q \in DOMAIN w => w[q] = "dir" BY <2>3, <2>4, ShownFacts
  <2>. QED BY <1>2, <1>4, <2>5, ShownFacts
<1>5. MayRestore(w, path)
  BY <1>3, <1>4 DEF MayRestore, NameIsFree, Exists, IsDirectory
<1>6. \A r \in DOMAIN Tree(k, path) : path \o r \in DOMAIN k /\ Tree(k, path)[r] = k[path \o r]
  BY <1>0, TreeFacts
<1>7. \A r \in DOMAIN Tree(k, path) : path \o r \in Paths
  <2>. SUFFICES ASSUME NEW r \in DOMAIN Tree(k, path) PROVE path \o r \in Paths
    OBVIOUS
  <2>1. r \in AnyPath /\ path \o r \in DOMAIN k BY <1>0, TreeFacts
  <2>2. path \o r \in Paths \cup Mounts /\ IsSubPath(path, path \o r) /\ path \o r \in AnyPath
    BY <1>0, <2>1, BelowPath, DiskFacts
  <2>3. path \o r \notin Mounts
    <3>1. ASSUME path \o r \in Mounts PROVE FALSE
      BY <1>0, <2>2, ParentOrder, <3>1, PathsFacts, PrefixIs, PathLen
    <3>. QED BY <3>1
  <2>. QED BY <2>2, <2>3
<1>8. TreeOK(path, Tree(k, path), b) BY <1>0, <1>7, TreeIsOK
<1>. QED BY <1>2, <1>5, <1>6, <1>8

LEMMA PutBack ==
    ASSUME NEW k, NEW b, DiskOK(k, b), NEW path \in Paths, path \in DOMAIN Shown(k), NEW w, w = Without(k, path),
           NEW k2, DiskOK(k2, b), Restored(w, k2, path, Tree(k, path))
    PROVE  \A p \in AnyPath : Same(k, k2, p)
<1>0. path \in AnyPath /\ path # Root BY PathsFacts
<1>1. /\ Shrunk(k, w, path) /\ InOrder(k, w) BY WithoutOK
<1>2. DiskOK(w, b) BY <1>1, ShrinkOK
<1>3. /\ \A r \in AnyPath : path \o r \in DOMAIN Shown(k2) <=> \E t \in DOMAIN Tree(k, path) : IsSubPath(r, t)
      /\ \A r \in AnyPath : path \o r \in DOMAIN Shown(k2) =>
         (Shown(k2)[path \o r] = "dir" <=> (r \in DOMAIN Tree(k, path) => Tree(k, path)[r] = "dir"))
  BY DEF Restored
<1>4. /\ \A r \in AnyPath : path \o r \in DOMAIN Shown(k2) <=> path \o r \in DOMAIN Shown(k)
      /\ \A r \in AnyPath : path \o r \in DOMAIN Shown(k2) =>
           (Shown(k2)[path \o r] = "dir" <=> Shown(k)[path \o r] = "dir")
  BY <1>3, SameTree
<1>5. ASSUME NEW p \in AnyPath, IsSubPath(path, p) PROVE Same(k, k2, p)
  <2>1. PICK r : r = Inner(path, p) OBVIOUS
  <2>2. r \in AnyPath /\ p = path \o r BY <1>0, <1>5, <2>1, BelowPath
  <2>. QED BY <1>4, <2>2 DEF Same
<1>6. ASSUME NEW p \in AnyPath, ~IsSubPath(path, p), ~IsSubPath(p, path) PROVE Same(k, k2, p)
  BY <1>6, <1>1, ShrinkOK, <1>2, VanishAbove DEF Restored, Same
<1>7. ASSUME NEW p \in AnyPath, ~IsSubPath(path, p), IsSubPath(p, path) PROVE Same(k, k2, p)
  <2>1. CASE p = Root BY <2>1, ShownDomain DEF Same
  <2>2. CASE p # Root
    BY <1>0, <1>7, SubPathOrder, <2>2, ShownFacts DEF Restored, Same
  <2>. QED BY <2>1, <2>2
<1>. QED BY <1>5, <1>6, <1>7

-----------------------------------------------------------------------------
(* What the requests do to a disk *)

Grown(k, k2, new) ==
    /\ \A p \in DOMAIN k : p \in DOMAIN k2 /\ k2[p] = k[p]
    /\ \A p \in AnyPath : ~IsSubPath(new, p) => Same(k, k2, p)

\* A copy with some of the original gone
Moving(k, k2, path, new) ==
    /\ \A p \in AnyPath : ~IsSubPath(path, p) /\ ~IsSubPath(new, p) =>
         Same(k, k2, p) \/ (p \in DOMAIN Shown(k) /\ p \notin DOMAIN Shown(k2) /\ IsSubPath(p, path) /\ ~IsSubPath(p, new))
    /\ \A p \in DOMAIN k : \E q \in DOMAIN k2 : k2[q] = k[p]

LEMMA MkdirEffect ==
    ASSUME NEW k, NEW b, DiskOK(k, b), NEW path, path[1] \notin b, NEW k2 \in MkdirLocal(k, path)
    PROVE  DiskOK(k2, b) /\ Added(k, k2, path, "dir")
<1>1. /\ path \in Paths /\ path \notin DOMAIN k /\ Parent(path) \in DOMAIN k /\ k[Parent(path)] = "dir"
      /\ k2 = Plus(k, Entry(path, "dir"))
  BY DEF MkdirLocal, NameIsFree, IsDirectory, Exists
<1>2. Ready(k, path) /\ "dir" \in Content BY <1>1, LocalReady DEF Content
<1>. QED BY <1>1, <1>2, EntryOK

LEMMA MkdirBucketEffect ==
    ASSUME NEW k, NEW b, DiskOK(k, b), NEW path, NEW k2 \in MkdirBucket(k, path)
    PROVE  DiskOK(k2, b) /\ Added(k, k2, path, "dir")
<1>1. Ready(k, path) /\ k2 = Plus(k, Entry(path, "dir")) /\ "dir" \in Content
  BY DEF MkdirBucket, NameIsFree, IsDirectory, Exists, Ready, Content
<1>. QED BY <1>1, EntryOK

LEMMA GrowEffect ==
    ASSUME NEW k, NEW b, DiskOK(k, b), NEW new, Ready(k, new), NEW tree, TreeOK(new, tree, b),
           NEW k2, k2 = Plus(k, At(new, tree))
    PROVE  DiskOK(k2, b) /\ Grown(k, k2, new)
<1>1. DiskOK(k2, b) /\ Placed(k, k2, new, tree) BY PlaceOK
<1>2. \A p \in AnyPath : ~IsSubPath(new, p) => Same(k, k2, p) BY <1>1, PlaceSame
<1>3. \A p \in DOMAIN k : p \in DOMAIN k2 /\ k2[p] = k[p] BY <1>1 DEF Placed
<1>. QED BY <1>1, <1>2, <1>3 DEF Grown

LEMMA ShrinkEffect ==
    ASSUME NEW k, NEW b, DiskOK(k, b), NEW path \in Paths, NEW k2, Shrunk(k, k2, path),
           path[1] \notin b => InOrder(k, k2)
    PROVE  /\ DiskOK(k2, b)
           /\ \A p \in AnyPath : ~IsSubPath(path, p) =>
                \/ Same(k, k2, p)
                \/ path[1] \in b /\ p \in DOMAIN Shown(k) /\ p \notin DOMAIN Shown(k2) /\ IsSubPath(p, path)
<1>1. /\ DiskOK(k2, b)
      /\ \A p \in AnyPath : ~IsSubPath(path, p) =>
           \/ Same(k, k2, p)
           \/ path[1] \in b /\ p \in DOMAIN Shown(k) /\ p \notin DOMAIN Shown(k2)
  BY ShrinkOK
<1>. QED BY <1>1, VanishAbove

LEMMA RenameEffect ==
    ASSUME NEW k, NEW b, DiskOK(k, b), NEW path \in Paths, path[1] \notin b, NEW name \in Names,
           NEW new, new = Join(Parent(path), name), NEW k2 \in RenameLocal(k, path, new)
    PROVE  /\ DiskOK(k2, b) /\ Relocated(k, k2, path, new) /\ path \in DOMAIN Shown(k) /\ Ready(k, new)
           /\ ~IsSubPath(path, new) /\ Parent(new) = Parent(path) /\ Last(new) = name
<1>0. path \in AnyPath /\ path # Root /\ Parent(path) \in AnyPath /\ name \in Segments /\ Parent(path) # Root
  BY PathsFacts, ParentOrder
<1>1. /\ path \in DOMAIN k /\ new \in Paths /\ new \notin DOMAIN k /\ Fits(new, Tree(k, path))
      /\ k2 = Renamed(k, path, new)
  BY DEF RenameLocal, NameIsFree, Exists
<1>2. new \in AnyPath /\ new # Root /\ Parent(new) = Parent(path) /\ Last(new) = name
  BY <1>0, JoinPath
<1>3. IsSubPath(Parent(path), path) /\ IsSubPath(Parent(path), new) /\ Parent(path) # path
  BY <1>0, <1>2, ParentOrder
<1>4. Parent(path)[1] = path[1] /\ Parent(path)[1] = new[1]
  BY <1>0, <1>2, <1>3, PrefixIs
<1>5. Parent(path) \in DOMAIN k /\ k[Parent(path)] = "dir"
  BY <1>0, <1>1, <1>3, DiskFacts
<1>6. Ready(k, new) BY <1>1, <1>2, <1>4, <1>5, LocalReady
<1>7. ~IsSubPath(path, new) BY <1>0, <1>1, <1>2, ParentOrder
<1>8. path \in DOMAIN Shown(k) BY <1>1, ShownFacts
<1>. QED BY <1>1, <1>2, <1>6, <1>7, <1>8, RelocateLocal

LEMMA TargetFacts ==
    ASSUME NEW path \in Paths, NEW target \in Paths \cup Mounts, NEW new, new = Join(target, Last(path))
    PROVE  /\ path \in AnyPath /\ path # Root /\ target \in AnyPath /\ target # Root
           /\ new \in AnyPath /\ new # Root /\ Parent(new) = target /\ Last(new) = Last(path)
           /\ IsSubPath(target, new) /\ new[1] = target[1]
           /\ new # path /\ ~IsSubPath(path, target) => ~IsSubPath(path, new)
<1>1. path \in AnyPath /\ path # Root /\ target \in AnyPath /\ target # Root /\ Last(path) \in Segments
  BY PathsFacts, JoinPath
<1>2. new \in AnyPath /\ new # Root /\ Parent(new) = target /\ Last(new) = Last(path)
  BY <1>1, JoinPath
<1>3. IsSubPath(target, new) BY <1>2, ParentOrder
<1>4. new[1] = target[1] BY <1>1, <1>2, <1>3, PrefixIs
<1>5. new # path /\ ~IsSubPath(path, target) => ~IsSubPath(path, new)
  BY <1>1, <1>2, ParentOrder
<1>. QED BY <1>1, <1>2, <1>3, <1>4, <1>5

LEMMA MoveEffect ==
    ASSUME NEW k, NEW b, DiskOK(k, b), NEW path \in Paths, path[1] \notin b, NEW target \in Paths \cup Mounts,
           path[1] = target[1], NEW new, new = Join(target, Last(path)), NEW k2 \in MoveLocal(k, path, target)
    PROVE  /\ DiskOK(k2, b) /\ Relocated(k, k2, path, new) /\ path \in DOMAIN Shown(k) /\ Ready(k, new)
           /\ ~IsSubPath(path, new)
<1>0. /\ path \in AnyPath /\ path # Root /\ target \in AnyPath /\ target # Root
      /\ new \in AnyPath /\ new # Root /\ Parent(new) = target /\ new[1] = target[1]
      /\ new # path /\ ~IsSubPath(path, target) => ~IsSubPath(path, new)
  BY TargetFacts
<1>1. /\ path \in DOMAIN k /\ new \in Paths /\ new \notin DOMAIN k /\ Fits(new, Tree(k, path))
      /\ target \in DOMAIN k /\ k[target] = "dir" /\ ~IsSubPath(path, target)
      /\ k2 = Renamed(k, path, new)
  BY DEF MoveLocal, RenameLocal, NameIsFree, Exists, IsDirectory
<1>2. Ready(k, new) BY <1>0, <1>1, LocalReady
<1>3. ~IsSubPath(path, new) BY <1>0, <1>1
<1>4. path \in DOMAIN Shown(k) BY <1>1, ShownFacts
<1>. QED BY <1>1, <1>2, <1>3, <1>4, RelocateLocal

LEMMA MayCopyFacts ==
    ASSUME NEW k, NEW b, DiskOK(k, b), NEW path \in Paths, path[1] \notin b, NEW target \in Paths \cup Mounts,
           target[1] \notin b, NEW new, new = Join(target, Last(path)), MayCopy(k, path, target)
    PROVE  /\ Ready(k, new) /\ TreeOK(new, Tree(k, path), b) /\ ~IsSubPath(path, new)
           /\ path \in DOMAIN k /\ path \in DOMAIN Shown(k)
<1>0. /\ path \in AnyPath /\ path # Root /\ target \in AnyPath /\ target # Root
      /\ new \in AnyPath /\ new # Root /\ Parent(new) = target /\ new[1] = target[1]
      /\ new # path /\ ~IsSubPath(path, target) => ~IsSubPath(path, new)
  BY TargetFacts
<1>1. /\ path \in DOMAIN k /\ new \in Paths /\ new \notin DOMAIN k /\ Fits(new, Tree(k, path))
      /\ target \in DOMAIN k /\ k[target] = "dir" /\ ~IsSubPath(path, target)
  BY DEF MayCopy, NameIsFree, Exists, IsDirectory
<1>2. Ready(k, new) BY <1>0, <1>1, LocalReady
<1>3. \A r \in DOMAIN Tree(k, path) : new \o r \in Paths BY <1>1 DEF Fits
<1>4. TreeOK(new, Tree(k, path), b) BY <1>0, <1>3, TreeIsOK
<1>5. path \in DOMAIN Shown(k) BY <1>1, ShownFacts
<1>. QED BY <1>0, <1>1, <1>2, <1>4, <1>5

LEMMA CopyEffect ==
    ASSUME NEW k, NEW b, DiskOK(k, b), NEW path \in Paths, path[1] \notin b, NEW target \in Paths \cup Mounts,
           target[1] \notin b, NEW new, new = Join(target, Last(path)),
           NEW k2, k2 \in CopyLocal(k, path, target) \cup CopyFails(k, path, target)
    PROVE  /\ DiskOK(k2, b) /\ Grown(k, k2, new) /\ Ready(k, new)
           /\ k2 \in CopyLocal(k, path, target) => new \in DOMAIN Shown(k2)
<1>1. MayCopy(k, path, target) BY DEF CopyLocal, CopyFails
<1>2. Ready(k, new) /\ TreeOK(new, Tree(k, path), b) /\ path \in DOMAIN k
  BY <1>1, MayCopyFacts
<1>3. PICK tree : TreeOK(new, tree, b) /\ k2 = Plus(k, At(new, tree)) /\ (k2 \in CopyLocal(k, path, target) => tree = Tree(k, path))
  <2>1. CASE k2 \in CopyLocal(k, path, target) BY <1>1, <1>2, <2>1 DEF CopyLocal
  <2>2. CASE k2 \notin CopyLocal(k, path, target)
    <3>1. PICK part \in CutCopies(Tree(k, path)) : k2 = Plus(k, At(new, part))
      BY <1>1, <2>2 DEF CopyFails
    <3>2. TreeOK(new, part, b) BY <1>2, CutOK
    <3>. QED BY <2>2, <3>1, <3>2
  <2>. QED BY <2>1, <2>2
<1>4. DiskOK(k2, b) /\ Grown(k, k2, new) BY <1>2, <1>3, GrowEffect
<1>5. ASSUME k2 \in CopyLocal(k, path, target) PROVE new \in DOMAIN Shown(k2)
  <2>0. path \in AnyPath /\ new \in AnyPath /\ Root \in AnyPath /\ path \o Root = path /\ new \o Root = new
    BY <1>2, PathsFacts, ReadyFacts, PathLen, BelowPath
  <2>1. Root \in DOMAIN tree BY <1>2, <1>3, <1>5, <2>0, TreeFacts, ZenonT(150)
  <2>2. Placed(k, k2, new, tree) BY <1>2, <1>3, PlaceOK
  <2>3. new \o Root \in DOMAIN k2 BY <2>1, <2>2 DEF Placed
  <2>. QED BY <1>4, <2>0, <2>3, ShownFacts
<1>. QED BY <1>2, <1>4, <1>5

\* While the original of a copy is removed, every content is still somewhere.
LEMMA StillThere ==
    ASSUME NEW k, NEW b, DiskOK(k, b), NEW path \in Paths, NEW new, Ready(k, new), ~IsSubPath(path, new),
           NEW mid, Placed(k, mid, new, Tree(k, path)), NEW k2, Shrunk(mid, k2, path)
    PROVE  \A p \in DOMAIN k : \E q \in DOMAIN k2 : k2[q] = k[p]
<1>1. path \in AnyPath /\ path # Root /\ new \in AnyPath
  BY PathsFacts, ReadyFacts
<1>2. ASSUME NEW p \in DOMAIN k, ~IsSubPath(path, p) PROVE \E q \in DOMAIN k2 : k2[q] = k[p]
  BY <1>2 DEF Placed, Shrunk
<1>3. ASSUME NEW p \in DOMAIN k, IsSubPath(path, p) PROVE \E q \in DOMAIN k2 : k2[q] = k[p]
  <2>1. PICK r : r = Inner(path, p) OBVIOUS
  <2>2. r \in AnyPath /\ p = path \o r BY <1>1, <1>3, <2>1, BelowPath, DiskFacts
  <2>3. r \in DOMAIN Tree(k, path) /\ Tree(k, path)[r] = k[p]
    BY <1>1, <2>2, TreeFacts
  <2>4. new \o r \in DOMAIN mid /\ mid[new \o r] = k[p] BY <2>3 DEF Placed
  <2>5. new \o r \in AnyPath /\ IsSubPath(new, new \o r)
    BY <1>1, <2>2, BelowPath
  <2>6. ~IsSubPath(path, new \o r)
    <3>1. ASSUME IsSubPath(path, new \o r) PROVE FALSE
      BY <1>1, <2>5, <3>1, SubPathOrder, <1>3, DiskFacts, ReadyFacts
    <3>. QED BY <3>1
  <2>7. new \o r \in DOMAIN k2 /\ k2[new \o r] = mid[new \o r]
    BY <2>4, <2>6 DEF Shrunk
  <2>. QED BY <2>4, <2>7
<1>. QED BY <1>2, <1>3

LEMMA AcrossEffect ==
    ASSUME NEW k, NEW b, DiskOK(k, b), NEW path \in Paths, path[1] \notin b, NEW target \in Paths \cup Mounts,
           target[1] \notin b, NEW new, new = Join(target, Last(path)),
           NEW mid \in CopyAcross(k, path, target)
    PROVE  /\ Ready(k, new) /\ path[1] # target[1] /\ ~IsSubPath(path, new) /\ path \in DOMAIN Shown(k)
           /\ \A k2 \in RemoveLocal(mid, path) : DiskOK(k2, b) /\ Relocated(k, k2, path, new)
           /\ \A k2 \in RemoveFails(mid, path) : DiskOK(k2, b) /\ Moving(k, k2, path, new)
           /\ \A k2 \in RemoveLocal(mid, path) \cup RemoveFails(mid, path), p \in AnyPath :
                ~IsSubPath(path, p) /\ ~IsSubPath(new, p) => Same(k, k2, p)
           /\ new \in Paths
<1>0. /\ path \in AnyPath /\ path # Root
      /\ new \in AnyPath /\ new # Root
  BY TargetFacts
<1>1. MayCopy(k, path, target) /\ mid = Plus(k, At(new, Tree(k, path))) /\ path[1] # target[1]
  BY DEF CopyAcross
<1>2. /\ Ready(k, new) /\ TreeOK(new, Tree(k, path), b) /\ ~IsSubPath(path, new)
      /\ path \in DOMAIN k /\ path \in DOMAIN Shown(k)
  BY <1>1, MayCopyFacts
<1>3. ASSUME NEW k2 \in RemoveLocal(mid, path) PROVE DiskOK(k2, b) /\ Relocated(k, k2, path, new)
  BY <1>3, <1>1, <1>2, RelocateCopy DEF RemoveLocal
<1>4. DiskOK(mid, b) /\ Placed(k, mid, new, Tree(k, path))
  BY <1>1, <1>2, PlaceOK
<1>5. ASSUME NEW k2 \in RemoveFails(mid, path) PROVE DiskOK(k2, b) /\ Moving(k, k2, path, new)
  <2>1. PICK left \in Progress(Tree(mid, path)) : k2 = Plus(Without(mid, path), At(path, Restrict(Tree(mid, path), left)))
    BY <1>5 DEF RemoveFails
  <2>2. Shrunk(mid, k2, path) /\ InOrder(mid, k2) BY <1>4, <2>1, RemoveFailsOK
  <2>3. /\ DiskOK(k2, b)
        /\ \A p \in AnyPath : ~IsSubPath(path, p) => Same(mid, k2, p)
    BY <1>4, <2>2, ShrinkEffect
  <2>4. \A p \in AnyPath : ~IsSubPath(new, p) => Same(k, mid, p)
    BY <1>1, <1>2, <1>4, PlaceSame
  <2>5. \A p \in AnyPath : ~IsSubPath(path, p) /\ ~IsSubPath(new, p) => Same(k, k2, p)
    BY <2>3, <2>4 DEF Same
  <2>6. \A p \in DOMAIN k : \E q \in DOMAIN k2 : k2[q] = k[p]
    BY <1>0, <1>2, <1>4, <2>2, StillThere
  <2>. QED BY <2>3, <2>5, <2>6 DEF Moving
<1>6. ASSUME NEW k2 \in RemoveLocal(mid, path) \cup RemoveFails(mid, path), NEW p \in AnyPath,
             ~IsSubPath(path, p), ~IsSubPath(new, p)
      PROVE  Same(k, k2, p)
  <2>1. Shrunk(mid, k2, path) /\ InOrder(mid, k2)
    <3>1. CASE k2 \in RemoveLocal(mid, path)
      BY <3>1, <1>4, WithoutOK DEF RemoveLocal
    <3>2. CASE k2 \in RemoveFails(mid, path)
      <4>1. PICK left \in Progress(Tree(mid, path)) : k2 = Plus(Without(mid, path), At(path, Restrict(Tree(mid, path), left)))
        BY <3>2 DEF RemoveFails
      <4>. QED BY <1>4, <4>1, RemoveFailsOK
    <3>. QED BY <1>6, <3>1, <3>2
  <2>2. Same(mid, k2, p) BY <1>4, <1>6, <2>1, ShrinkEffect
  <2>3. Same(k, mid, p) BY <1>2, <1>4, <1>6, PlaceSame
  <2>. QED BY <2>2, <2>3 DEF Same
<1>7. new \in Paths BY <1>2 DEF Ready
<1>. QED BY <1>1, <1>2, <1>3, <1>5, <1>6, <1>7

\* What renameOrCopy checks
LEMMA TransferFacts ==
    ASSUME NEW k, NEW b, DiskOK(k, b), NEW path \in Paths, path[1] \in b, NEW new \in AnyPath, new # Root,
           Parent(new) \in DOMAIN Shown(k), Shown(k)[Parent(new)] = "dir", new[1] = path[1],
           NEW remove \in BOOLEAN, MayTransfer(k, path, new, remove), ~IsSubPath(path, new) \/ ~remove
    PROVE  Ready(k, new) /\ TreeOK(new, Tree(k, path), b) /\ path \in DOMAIN Shown(k) /\ path # new
<1>0. path \in AnyPath /\ path # Root BY PathsFacts
<1>1. path \in DOMAIN Shown(k) /\ path # new /\ new \notin DOMAIN Shown(k) /\ Fits(new, Tree(k, path))
  BY DEF MayTransfer, Exists
<1>2. \A r \in DOMAIN Tree(k, path) : new \o r \in Paths BY <1>1 DEF Fits
<1>3. TreeOK(new, Tree(k, path), b) BY <1>0, <1>2, TreeIsOK
<1>4. new \in Paths
  <2>1. PICK q \in DOMAIN k : IsSubPath(path, q) BY <1>1, ShownDomain
  <2>2. PICK r : r = Inner(path, q) OBVIOUS
  <2>3. r \in AnyPath /\ q = path \o r BY <1>0, <2>1, <2>2, BelowPath, DiskFacts
  <2>4. new \o r \in Paths BY <1>0, <1>2, <2>3, TreeFacts
  <2>5. IsSubPath(new, new \o r) BY <2>3, BelowPath
  <2>6. new \in Paths \cup Mounts BY <2>4, <2>5, PathsFacts
  <2>7. Parent(new) # Root BY ShownDomain
  <2>. QED BY <2>6, <2>7, PathsFacts
<1>5. Ready(k, new) BY <1>1, <1>4 DEF Ready
<1>. QED BY <1>1, <1>3, <1>5

LEMMA TransferEffect ==
    ASSUME NEW k, NEW b, DiskOK(k, b), NEW path \in Paths, path[1] \in b, NEW new \in AnyPath, new # Root,
           Parent(new) \in DOMAIN Shown(k), Shown(k)[Parent(new)] = "dir", new[1] = path[1],
           NEW k2 \in Transfer(k, path, new, TRUE)
    PROVE  /\ DiskOK(k2, b) /\ path \in DOMAIN Shown(k) /\ new \notin DOMAIN Shown(k)
           /\ ~IsSubPath(path, new) => Relocated(k, k2, path, new) /\ Ready(k, new)
           /\ IsSubPath(path, new) => k2 = Without(k, path)
<1>0. path \in AnyPath /\ path # Root BY PathsFacts
<1>1. MayTransfer(k, path, new, TRUE) BY DEF Transfer
<1>2. path \in DOMAIN Shown(k) /\ new \notin DOMAIN Shown(k)
  BY <1>1 DEF MayTransfer, Exists
<1>3. CASE IsSubPath(path, new)
  BY <1>1, <1>3, WithoutOK, ShrinkOK, <1>2 DEF Transfer
<1>4. CASE ~IsSubPath(path, new)
  <2>1. Ready(k, new) /\ TreeOK(new, Tree(k, path), b)
    BY <1>1, <1>4, TransferFacts
  <2>2. PICK mid : mid = Copied(k, path, new, DOMAIN Tree(k, path)) OBVIOUS
  <2>3. k2 = Without(mid, path) BY <1>1, <1>4, <2>2 DEF Transfer
  <2>4. mid = Plus(k, At(new, Tree(k, path)))
    BY <2>1, <2>2, WholeIsPart DEF Copied
  <2>5. DiskOK(k2, b) /\ Relocated(k, k2, path, new)
    BY <1>2, <1>4, <2>1, <2>3, <2>4, RelocateCopy
  <2>. QED BY <1>2, <1>4, <2>1, <2>5
<1>. QED BY <1>3, <1>4

LEMMA TransferCopyEffect ==
    ASSUME NEW k, NEW b, DiskOK(k, b), NEW path \in Paths, path[1] \in b, NEW new \in AnyPath, new # Root,
           Parent(new) \in DOMAIN Shown(k), Shown(k)[Parent(new)] = "dir", new[1] = path[1],
           NEW k2, k2 \in Transfer(k, path, new, FALSE) \cup TransferFails(k, path, new, FALSE)
    PROVE  /\ DiskOK(k2, b) /\ Grown(k, k2, new) /\ Ready(k, new)
           /\ k2 \in Transfer(k, path, new, FALSE) => new \in DOMAIN Shown(k2)
<1>0. path \in AnyPath /\ path # Root BY PathsFacts
<1>1. MayTransfer(k, path, new, FALSE) BY DEF Transfer, TransferFails
<1>2. Ready(k, new) /\ TreeOK(new, Tree(k, path), b) /\ path \in DOMAIN Shown(k)
  BY <1>1, TransferFacts
<1>3. PICK tree : /\ TreeOK(new, tree, b) /\ k2 = Plus(k, At(new, tree))
                  /\ k2 \in Transfer(k, path, new, FALSE) => tree = Tree(k, path)
  <2>1. CASE k2 \in Transfer(k, path, new, FALSE)
    BY <1>1, <2>1, <1>2, WholeIsPart DEF Transfer, Copied
  <2>2. CASE k2 \notin Transfer(k, path, new, FALSE)
    <3>1. PICK part \in Progress(Tree(k, path)) : k2 = Copied(k, path, new, part)
      BY <1>1, <2>2 DEF TransferFails
    <3>2. k2 = Plus(k, At(new, Restrict(Tree(k, path), part)))
      BY <3>1 DEF Copied
    <3>3. TreeOK(new, Restrict(Tree(k, path), part), b) BY <1>2, PartOK
    <3>. QED BY <2>2, <3>2, <3>3
  <2>. QED BY <2>1, <2>2
<1>4. DiskOK(k2, b) /\ Grown(k, k2, new) BY <1>2, <1>3, GrowEffect
<1>5. ASSUME k2 \in Transfer(k, path, new, FALSE) PROVE new \in DOMAIN Shown(k2)
  <2>1. /\ Placed(k, k2, new, tree) /\ DiskOK(k2, b) BY <1>2, <1>3, PlaceOK
  <2>2. \A r \in AnyPath : new \o r \in DOMAIN Shown(k2) <=> \E t \in DOMAIN tree : IsSubPath(r, t)
    BY <1>2, <1>3, <2>1, PlaceSame
  <2>3. PICK q \in DOMAIN k : IsSubPath(path, q) BY <1>2, ShownDomain
  <2>4. PICK t : t = Inner(path, q) OBVIOUS
  <2>5. t \in AnyPath /\ q = path \o t BY <1>0, <2>3, <2>4, BelowPath, DiskFacts
  <2>6. t \in DOMAIN tree BY <1>0, <1>3, <1>5, <2>5, TreeFacts
  <2>7. Root \in AnyPath /\ IsSubPath(Root, t) /\ new \o Root = new
    BY <2>5, PathLen, SubPathOrder, BelowPath
  <2>. QED BY <2>2, <2>6, <2>7
<1>. QED BY <1>2, <1>4, <1>5

LEMMA TransferFailsEffect ==
    ASSUME NEW k, NEW b, DiskOK(k, b), NEW path \in Paths, path[1] \in b, NEW new \in AnyPath, new # Root,
           Parent(new) \in DOMAIN Shown(k), Shown(k)[Parent(new)] = "dir", new[1] = path[1],
           NEW k2 \in TransferFails(k, path, new, TRUE)
    PROVE  DiskOK(k2, b) /\ Moving(k, k2, path, new)
<1>0. path \in AnyPath /\ path # Root BY PathsFacts
<1>1. MayTransfer(k, path, new, TRUE) /\ ~IsSubPath(path, new)
  BY DEF TransferFails
<1>2. Ready(k, new) /\ TreeOK(new, Tree(k, path), b) /\ path \in DOMAIN Shown(k)
  BY <1>1, TransferFacts
<1>3. PICK mid : mid = Copied(k, path, new, DOMAIN Tree(k, path)) OBVIOUS
<1>4. mid = Plus(k, At(new, Tree(k, path)))
  BY <1>2, <1>3, WholeIsPart DEF Copied
<1>5. CASE \E part \in Progress(Tree(k, path)) : k2 = Copied(k, path, new, part)
  <2>1. PICK part \in Progress(Tree(k, path)) : k2 = Plus(k, At(new, Restrict(Tree(k, path), part)))
    BY <1>5 DEF Copied
  <2>2. TreeOK(new, Restrict(Tree(k, path), part), b) BY <1>2, PartOK
  <2>3. DiskOK(k2, b) /\ Grown(k, k2, new) BY <1>2, <2>1, <2>2, GrowEffect
  <2>. QED BY <2>3 DEF Grown, Moving
<1>6. CASE \E part \in Progress(Tree(k, path)) : k2 = Deleted(mid, path, part)
  <2>1. PICK part \in Progress(Tree(k, path)) : k2 = Deleted(mid, path, part)
    BY <1>6
  <2>2. DiskOK(mid, b) /\ Placed(k, mid, new, Tree(k, path))
    BY <1>2, <1>4, PlaceOK
  <2>3. part \subseteq AnyPath BY <1>0, TreeFacts DEF Progress
  <2>4. Shrunk(mid, k2, path) BY <2>1, <2>2, <2>3, DeletedOK
  <2>5. /\ DiskOK(k2, b)
        /\ \A p \in AnyPath : ~IsSubPath(path, p) =>
             \/ Same(mid, k2, p)
             \/ path[1] \in b /\ p \in DOMAIN Shown(mid) /\ p \notin DOMAIN Shown(k2) /\ IsSubPath(p, path)
    BY <2>2, <2>4, ShrinkEffect
  <2>6. /\ \A p \in AnyPath : ~IsSubPath(new, p) => Same(k, mid, p)
        /\ \A r \in AnyPath : new \o r \in DOMAIN Shown(mid) <=> \E t \in DOMAIN Tree(k, path) : IsSubPath(r, t)
    BY <1>2, <2>2, PlaceSame
  <2>7. \A p \in DOMAIN k : \E q \in DOMAIN k2 : k2[q] = k[p]
    BY <1>0, <1>1, <1>2, <2>2, <2>4, StillThere
  <2>8. new \in DOMAIN Shown(k2)
    <3>1. PICK q \in DOMAIN k : IsSubPath(path, q) BY <1>2, ShownDomain
    <3>2. PICK t : t = Inner(path, q) OBVIOUS
    <3>3. t \in AnyPath /\ q = path \o t
      BY <1>0, <3>1, <3>2, BelowPath, DiskFacts
    <3>4. t \in DOMAIN Tree(k, path) BY <1>0, <3>3, TreeFacts
    <3>5. new \o t \in DOMAIN mid BY <2>2, <3>4 DEF Placed
    <3>6. ~IsSubPath(new, path) BY <1>0, <1>2, ReadyFacts
    <3>7. new \o t \in AnyPath /\ IsSubPath(new, new \o t) BY <3>3, BelowPath
    <3>8. ~IsSubPath(path, new \o t) BY <1>0, <1>1, <3>6, <3>7, SubPathOrder
    <3>9. new \o t \in DOMAIN k2 BY <2>4, <3>5, <3>8 DEF Shrunk
    <3>. QED BY <2>5, <3>7, <3>9, ShownDomain
  <2>9. ASSUME NEW p \in AnyPath, ~IsSubPath(path, p), ~IsSubPath(new, p)
        PROVE  \/ Same(k, k2, p)
               \/ p \in DOMAIN Shown(k) /\ p \notin DOMAIN Shown(k2) /\ IsSubPath(p, path) /\ ~IsSubPath(p, new)
    <3>1. Same(k, mid, p) BY <2>6, <2>9
    <3>2. CASE Same(mid, k2, p) BY <3>1, <3>2 DEF Same
    <3>3. CASE p \in DOMAIN Shown(mid) /\ p \notin DOMAIN Shown(k2) /\ IsSubPath(p, path)
      BY <2>2, <3>3, ShownDomain, <2>5, <2>8, <2>9, ShownFacts, <3>1 DEF Same
    <3>. QED BY <2>5, <2>9, <3>2, <3>3
  <2>. QED BY <2>5, <2>7, <2>9 DEF Moving
<1>7. k2 \in {Copied(k, path, new, part) : part \in Progress(Tree(k, path))}
             \cup {Deleted(mid, path, part) : part \in Progress(Tree(k, path))}
  BY <1>1, <1>3 DEF TransferFails
<1>. QED BY <1>5, <1>6, <1>7

-----------------------------------------------------------------------------
(* The requests *)

BinOK(bn, b) ==
    /\ bn = [k \in DOMAIN bn |-> bn[k]] /\ DOMAIN bn \subseteq Slots
    /\ \A k \in DOMAIN bn : /\ bn[k] = [from |-> bn[k].from, tree |-> bn[k].tree, row |-> bn[k].row]
                            /\ bn[k].from \in Paths /\ bn[k].row \in BOOLEAN
                            /\ TreeOK(bn[k].from, bn[k].tree, b)

\* The old and the new path of a rename or a move
Ends(r) ==
    /\ r.old \in Paths /\ r.new \in AnyPath /\ r.new # Root /\ Parent(r.new) \in Paths \cup Mounts
    /\ \/ r.op = "rename" /\ Parent(r.new) = Parent(r.old)
       \/ r.op = "move" /\ Parent(r.new) # Parent(r.old) /\ Last(r.new) = Last(r.old)

\* What a request still has to do for the metadata
IsMkdir(r) ==
    r.op = "mkdir" /\ r.new \in Paths /\ r.old = Parent(r.new) /\ r.todo = <<Step("mkdir", r.new)>>
IsCommit(r) == r.op = "upload" /\ r.new \in Paths /\ r.old = r.new /\ r.todo = <<Step("commit", r.new)>>
IsMove(r) == Ends(r) /\ r.todo = <<Step(r.op, r.old)>>
IsFallback(r) ==
    /\ Ends(r)
    /\ \/ r.op = "rename" /\ r.todo = <<Step("refresh", Parent(r.new))>>
       \/ r.op = "move" /\ r.todo = <<Step("refresh", Parent(r.new)), Step("refresh", Parent(r.old))>>
IsSecond(r) == Ends(r) /\ r.op = "move" /\ r.todo = <<Step("refresh", Parent(r.old))>>
IsCopy(r) == r.op = "copy" /\ r.new \in Paths /\ r.old \in Paths /\ r.todo = <<Step("refresh", Parent(r.new))>>
IsAcross(r) ==
    /\ r.op = "move" /\ r.old \in Paths /\ r.new \in Paths /\ r.old[1] # r.new[1]
    /\ r.todo = <<Step("refresh", Parent(r.new)), Step("delete", r.old)>>
IsRemoval(r) ==
    /\ r.op = "move" /\ r.old \in Paths /\ r.new \in Paths /\ r.old[1] # r.new[1]
    /\ r.todo = <<Step("delete", r.old)>>
IsDelete(r) == r.op \in {"delete", "trash"} /\ r.old \in Paths /\ r.new = r.old /\ r.todo = <<Step("delete", r.old)>>
IsRefresh(r) ==
    r.op = "refresh" /\ r.old \in Paths \cup Mounts /\ r.new = r.old /\ r.todo = <<Step("refresh", r.old)>>

TodoOK(r) ==
    \/ IsMkdir(r) \/ IsCommit(r) \/ IsMove(r) \/ IsFallback(r) \/ IsSecond(r) \/ IsCopy(r)
    \/ IsAcross(r) \/ IsRemoval(r) \/ IsDelete(r) \/ IsRefresh(r)

ReqOK(r, bn, k) ==
    /\ r = [pc |-> r.pc, op |-> r.op, old |-> r.old, new |-> r.new, todo |-> r.todo, slot |-> r.slot]
    /\ r.pc \in {"idle", "record", "row", "meta", "journal", "ok"}
    /\ r.pc = "record" => /\ r.op = "trash" /\ r.old \in Paths /\ r.new = r.old
                          /\ r.slot \in DOMAIN bn /\ bn[r.slot].from = r.old /\ bn[r.slot].row = FALSE
                          /\ MayRestore(k, r.old)
    /\ r.pc = "row" => r.slot \in DOMAIN bn /\ bn[r.slot].tree = <<>>
    /\ r.pc = "meta" => TodoOK(r)

StateOK1 ==
    /\ DiskOK(disk, buckets) /\ BinOK(bin, buckets) /\ TablesOK(db) /\ ReqOK(req, bin, disk)
    /\ requests \in Nat /\ faults \in Nat

LEMMA SeenIs ==
    ASSUME DiskOK(disk, buckets)
    PROVE  /\ Seen = Shown(disk) /\ DiskPaths(Seen)
           /\ buckets = {} => Seen = disk
<1>1. buckets = {} => Shown(disk) = disk BY LocalShown
<1>2. DOMAIN Shown(disk) \subseteq Paths \cup Mounts BY ShownFacts
<1>. QED BY <1>1, <1>2 DEF Seen, DiskPaths

LEMMA TodoSeq ==
    /\ \A x : Head(<<x>>) = x /\ Tail(<<x>>) = <<>> /\ <<x>> # <<>> /\ <<x>> \o <<>> = <<x>>
    /\ \A x, y : Head(<<x, y>>) = x /\ Tail(<<x, y>>) = <<y>> /\ <<x, y>> \o <<>> = <<x, y>>
    /\ <<>> \o <<>> = <<>>
OBVIOUS

LEMMA EmptyTreeOK ==
    ASSUME NEW from, NEW b
    PROVE  TreeOK(from, <<>>, b)
<1>1. DOMAIN <<>> = {} /\ <<>> = [r \in DOMAIN <<>> |-> <<>>[r]] OBVIOUS
<1>. QED BY <1>1 DEF TreeOK

\* The request begins.
LEMMA BeginOK ==
    ASSUME NEW op, NEW old, NEW new, NEW todo, Begin(op, old, new, todo), StateOK1,
           TodoOK([pc |-> "meta", op |-> op, old |-> old, new |-> new, todo |-> todo, slot |-> 0])
    PROVE  ReqOK(req', bin', disk') /\ requests' \in Nat
BY DEF Begin, ReqOK, StateOK1

LEMMA MkdirOK ==
    ASSUME StateOK1, NEW path \in Paths, Mkdir(path) \/ MkdirInBucket(path), UNCHANGED buckets
    PROVE  StateOK1' /\ Added(disk, disk', path, "dir")
<1>1. DiskOK(disk', buckets) /\ Added(disk, disk', path, "dir")
  BY MkdirEffect, MkdirBucketEffect DEF StateOK1, Mkdir, MkdirInBucket, OnS3
<1>2. Begin("mkdir", Parent(path), path, <<Step("mkdir", path)>>) /\ UNCHANGED <<bin, db, faults>>
  BY DEF Mkdir, MkdirInBucket
<1>3. TodoOK([pc |-> "meta", op |-> "mkdir", old |-> Parent(path), new |-> path,
              todo |-> <<Step("mkdir", path)>>, slot |-> 0])
  BY DEF TodoOK, IsMkdir
<1>4. ReqOK(req', bin', disk') /\ requests' \in Nat BY <1>2, <1>3, BeginOK
<1>. QED BY <1>1, <1>2, <1>4 DEF StateOK1

LEMMA FaultOK ==
    ASSUME NEW kind, Fault(kind), faults \in Nat
    PROVE  faults' \in Nat
BY DEF Fault

LEMMA RefuseOK ==
    ASSUME StateOK1, Refuse
    PROVE  /\ ReqOK(req', bin', disk') /\ BinOK(bin', buckets) /\ TablesOK(db')
           /\ requests' \in Nat /\ faults' \in Nat /\ req'.pc = "idle" /\ req' = req
<1>1. Fault("fs") /\ faults \in Nat BY DEF Refuse, StateOK1
<1>2. faults' \in Nat BY <1>1, FaultOK
<1>. QED BY <1>2 DEF Refuse, StateOK1, ReqOK

LEMMA BeginIs ==
    ASSUME NEW op, NEW old, NEW new, NEW todo, Begin(op, old, new, todo)
    PROVE  /\ req.pc = "idle" /\ req'.pc = "meta" /\ req'.op = op /\ req'.old = old /\ req'.new = new
           /\ req'.todo = todo
           /\ req' = [pc |-> "meta", op |-> op, old |-> old, new |-> new, todo |-> todo, slot |-> 0]
BY DEF Begin

LEMMA SiblingFacts ==
    ASSUME NEW path \in Paths, NEW name \in Names, NEW new, new = Join(Parent(path), name)
    PROVE  /\ path \in AnyPath /\ path # Root /\ new \in AnyPath /\ new # Root
           /\ Parent(new) = Parent(path) /\ Last(new) = name /\ new[1] = path[1]
           /\ Parent(path) \in Paths \cup Mounts /\ Parent(path) # Root
           /\ IsSubPath(Parent(path), path) /\ Parent(path) # path /\ Parent(path) \in AnyPath
           /\ new # path => ~IsSubPath(path, new)
<1>0. path \in AnyPath /\ path # Root /\ Parent(path) \in AnyPath /\ name \in Segments /\ Parent(path) # Root
      /\ Parent(path) \in Paths \cup Mounts
  BY PathsFacts, ParentOrder
<1>2. new \in AnyPath /\ new # Root /\ Parent(new) = Parent(path) /\ Last(new) = name
  BY <1>0, JoinPath
<1>3. IsSubPath(Parent(path), path) /\ IsSubPath(Parent(path), new) /\ Parent(path) # path
  BY <1>0, <1>2, ParentOrder
<1>4. Parent(path)[1] = path[1] /\ Parent(path)[1] = new[1]
  BY <1>0, <1>2, <1>3, PrefixIs
<1>5. new # path => ~IsSubPath(path, new) BY <1>0, <1>2, ParentOrder
<1>. QED BY <1>0, <1>2, <1>3, <1>4, <1>5

LEMMA EndsMove ==
    ASSUME NEW op, NEW old, NEW new,
           Ends([pc |-> "meta", op |-> op, old |-> old, new |-> new, todo |-> <<Step(op, old)>>, slot |-> 0])
    PROVE  /\ TodoOK([pc |-> "meta", op |-> op, old |-> old, new |-> new, todo |-> <<Step(op, old)>>, slot |-> 0])
           /\ IsMove([pc |-> "meta", op |-> op, old |-> old, new |-> new, todo |-> <<Step(op, old)>>, slot |-> 0])
BY DEF TodoOK, IsMove

LEMMA RenameOK ==
    ASSUME StateOK1, NEW path \in Paths, NEW name \in Names, NEW new, new = Join(Parent(path), name),
           Rename(path, name) \/ RenameBucket(path, name), UNCHANGED buckets
    PROVE  /\ StateOK1'
           /\ \/ /\ Begin("rename", path, new, <<Step("rename", path)>>) /\ IsMove(req')
                 /\ Relocated(disk, disk', path, new) /\ path \in DOMAIN Shown(disk) /\ new \notin DOMAIN Shown(disk)
                 /\ ~IsSubPath(path, new)
                 /\ excused' = excused \cup Leftover(new)
                 /\ UNCHANGED <<bin, db, gone>>
              \/ /\ req' = req /\ req.pc = "idle" /\ Moving(disk, disk', path, new)
                 /\ excused' = excused \cup Subtree(db, path) \cup Subtree(db, new)
                 /\ UNCHANGED <<bin, db, gone>>
<1>0. /\ path \in AnyPath /\ path # Root /\ new \in AnyPath /\ new # Root
      /\ Parent(new) = Parent(path) /\ Last(new) = name /\ new[1] = path[1]
      /\ Parent(path) \in Paths \cup Mounts /\ Parent(path) # Root
      /\ IsSubPath(Parent(path), path) /\ Parent(path) # path /\ Parent(path) \in AnyPath
      /\ new # path => ~IsSubPath(path, new)
  BY SiblingFacts
<1>1. DiskOK(disk, buckets) BY DEF StateOK1
<1>2. ASSUME Begin("rename", path, new, <<Step("rename", path)>>)
      PROVE  IsMove(req') /\ ReqOK(req', bin', disk') /\ requests' \in Nat
  BY <1>0, <1>2, EndsMove, BeginOK, BeginIs DEF Ends
<1>3. CASE Rename(path, name)
  BY <1>3, <1>1, RenameEffect, <1>2 DEF Rename, OnS3, StateOK1, Ready
<1>4. CASE RenameBucket(path, name)
  <2>0. path[1] \in buckets /\ req.pc = "idle" BY <1>4 DEF RenameBucket, OnS3
  <2>1. ASSUME path \in DOMAIN Shown(disk) PROVE Parent(new) \in DOMAIN Shown(disk) /\ Shown(disk)[Parent(new)] = "dir"
    BY <1>0, <1>1, <2>1, ShownFacts
  <2>2. CASE /\ disk' \in Transfer(disk, path, new, TRUE)
             /\ Begin("rename", path, new, <<Step("rename", path)>>)
             /\ excused' = excused \cup Leftover(new)
             /\ UNCHANGED <<bin, db, journal, gone, faults>>
    BY <2>2, <1>0, <1>1, <2>0, <2>1, TransferEffect, <1>2 DEF Transfer, MayTransfer, Exists, StateOK1
  <2>3. CASE /\ Refuse
             /\ disk' \in TransferFails(disk, path, new, TRUE)
             /\ excused' = excused \cup Subtree(db, path) \cup Subtree(db, new)
             /\ UNCHANGED gone
    BY <2>3, <1>0, <1>1, <2>0, <2>1, TransferFailsEffect, RefuseOK DEF TransferFails, MayTransfer, Exists,
       StateOK1, Refuse
  <2>. QED BY <1>4, <2>2, <2>3 DEF RenameBucket
<1>. QED BY <1>3, <1>4

LEMMA MoveOK ==
    ASSUME StateOK1, NEW path \in Paths, NEW target \in Paths \cup Mounts, NEW new, new = Join(target, Last(path)),
           Move(path, target) \/ MoveBucket(path, target), UNCHANGED buckets
    PROVE  /\ StateOK1'
           /\ \/ /\ Begin("move", path, new, <<Step("move", path)>>) /\ IsMove(req')
                 /\ path \in DOMAIN Shown(disk) /\ new \notin DOMAIN Shown(disk)
                 /\ ~IsSubPath(path, new) => Relocated(disk, disk', path, new) /\ gone' = gone
                 /\ IsSubPath(path, new) =>
                      /\ path[1] \in buckets /\ disk' = Without(disk, path)
                      /\ gone' = gone \cup {disk[p] : p \in Below(disk, path)}
                 /\ excused \cup Leftover(new) \subseteq excused'
                 /\ path[1] \in buckets => excused' = excused \cup Leftover(new) \cup Vanished(path)
                 /\ path[1] \notin buckets => \A p \in AnyPath : ~IsSubPath(path, p) /\ ~IsSubPath(new, p) => Same(disk, disk', p)
                 /\ UNCHANGED <<bin, db>>
              \/ /\ req' = req /\ req.pc = "idle" /\ Moving(disk, disk', path, new)
                 /\ excused' = excused \cup Subtree(db, path) \cup Subtree(db, new) \cup Vanished(path)
                 /\ UNCHANGED <<bin, db, gone>>
<1>0. /\ path \in AnyPath /\ path # Root /\ target \in AnyPath /\ target # Root
      /\ new \in AnyPath /\ new # Root /\ Parent(new) = target /\ Last(new) = Last(path)
      /\ IsSubPath(target, new) /\ new[1] = target[1]
  BY TargetFacts
<1>1. DiskOK(disk, buckets) BY DEF StateOK1
<1>2. ASSUME Begin("move", path, new, <<Step("move", path)>>), target # Parent(path)
      PROVE  IsMove(req') /\ ReqOK(req', bin', disk') /\ requests' \in Nat
  BY <1>0, <1>2, EndsMove, BeginOK, BeginIs DEF Ends
<1>3. CASE Move(path, target)
  <2>1. /\ path[1] \notin buckets /\ disk' \in MoveLocal(disk, path, target) /\ path[1] = target[1]
        /\ Begin("move", path, new, <<Step("move", path)>>)
        /\ excused' = excused \cup Leftover(new) /\ UNCHANGED <<bin, db, journal, gone, faults>>
    BY <1>3 DEF Move, OnS3
  <2>2. /\ DiskOK(disk', buckets) /\ Relocated(disk, disk', path, new) /\ path \in DOMAIN Shown(disk)
        /\ Ready(disk, new) /\ ~IsSubPath(path, new)
    BY <1>1, <2>1, MoveEffect
  <2>3. target # Parent(path) BY <1>0, JoinPath, <2>2, SubPathOrder
  <2>4. StateOK1' BY <1>2, <2>1, <2>2, <2>3 DEF StateOK1
  <2>5. new \notin DOMAIN Shown(disk) BY <2>2 DEF Ready
  <2>6. ASSUME NEW p \in AnyPath, ~IsSubPath(path, p), ~IsSubPath(new, p) PROVE Same(disk, disk', p)
    <3>1. Same(disk, disk', p) \/ (p \in DOMAIN Shown(disk) /\ p \notin DOMAIN Shown(disk') /\ IsSubPath(p, path) /\ ~IsSubPath(p, new))
      BY <2>2, <2>6 DEF Relocated
    <3>2. ASSUME p \in DOMAIN Shown(disk), p \notin DOMAIN Shown(disk'), IsSubPath(p, path), ~IsSubPath(p, new) PROVE FALSE
      <4>1. p # Root /\ p[1] = path[1]
        BY <1>0, <1>1, <3>2, ShownDomain, PrefixIs
      <4>2. p \in DOMAIN disk BY <1>1, <2>1, <2>6, <3>2, <4>1, ShownFacts
      <4>3. PICK w : w = Without(disk, path) OBVIOUS
      <4>4. p \in DOMAIN w BY <1>1, <2>6, <4>2, <4>3, WithoutOK
      <4>5. p \in DOMAIN disk'
        BY <2>1, <4>3, <4>4 DEF MoveLocal, RenameLocal, Renamed, Plus
      <4>. QED BY <2>2, <3>2, <4>5, ShownFacts
    <3>. QED BY <3>1, <3>2
  <2>. QED BY <1>2, <2>1, <2>2, <2>3, <2>4, <2>5, <2>6
<1>4. CASE MoveBucket(path, target)
  <2>0. /\ path[1] \in buckets /\ req.pc = "idle" /\ path[1] = target[1]
        /\ target \in DOMAIN Shown(disk) /\ Shown(disk)[target] = "dir" /\ Parent(path) # target
    BY <1>4 DEF MoveBucket, OnS3, Into, IsDirectory, Exists
  <2>2. CASE /\ disk' \in Transfer(disk, path, new, TRUE)
             /\ Begin("move", path, new, <<Step("move", path)>>)
             /\ gone' = IF IsSubPath(path, new) THEN gone \cup {disk[p] : p \in Below(disk, path)} ELSE gone
             /\ excused' = excused \cup Leftover(new) \cup Vanished(path)
             /\ UNCHANGED <<bin, db, journal, faults>>
    BY <1>0, <1>1, <2>0, <2>2, TransferEffect, <1>2 DEF StateOK1
  <2>3. CASE /\ Refuse
             /\ disk' \in TransferFails(disk, path, new, TRUE)
             /\ excused' = excused \cup Subtree(db, path) \cup Subtree(db, new) \cup Vanished(path)
             /\ UNCHANGED gone
    BY <1>0, <1>1, <2>0, <2>3, TransferFailsEffect, RefuseOK DEF StateOK1, Refuse
  <2>. QED BY <1>4, <2>2, <2>3 DEF MoveBucket
<1>. QED BY <1>3, <1>4

LEMMA CopyOK ==
    ASSUME StateOK1, NEW path \in Paths, NEW target \in Paths \cup Mounts, NEW new, new = Join(target, Last(path)),
           Copy(path, target) \/ CopyBucket(path, target), UNCHANGED buckets
    PROVE  /\ StateOK1'
           /\ Grown(disk, disk', new) /\ UNCHANGED <<bin, db, gone>>
           /\ \/ /\ Begin("copy", path, new, <<Step("refresh", target)>>) /\ IsCopy(req')
                 /\ new \in DOMAIN Shown(disk')
                 /\ excused' = excused \cup Leftover(new)
              \/ /\ req' = req /\ req.pc = "idle"
                 /\ excused' = excused \cup Subtree(db, new)
<1>0. /\ path \in AnyPath /\ path # Root /\ target \in AnyPath /\ target # Root
      /\ new \in AnyPath /\ new # Root /\ Parent(new) = target /\ Last(new) = Last(path)
      /\ IsSubPath(target, new) /\ new[1] = target[1]
  BY TargetFacts
<1>1. DiskOK(disk, buckets) BY DEF StateOK1
<1>2. ASSUME Begin("copy", path, new, <<Step("refresh", target)>>), new \in Paths
      PROVE  IsCopy(req') /\ ReqOK(req', bin', disk') /\ requests' \in Nat
  BY <1>0, <1>2, BeginOK, BeginIs DEF TodoOK, IsCopy
<1>3. /\ DiskOK(disk', buckets) /\ Grown(disk, disk', new) /\ Ready(disk, new)
      /\ \/ /\ Begin("copy", path, new, <<Step("refresh", target)>>)
            /\ new \in DOMAIN Shown(disk')
            /\ excused' = excused \cup Leftover(new)
            /\ UNCHANGED <<bin, db, journal, gone, faults>>
         \/ /\ Refuse /\ excused' = excused \cup Subtree(db, new) /\ UNCHANGED gone
  <2>1. CASE Copy(path, target) BY <2>1, <1>1, CopyEffect DEF Copy, OnS3
  <2>2. CASE CopyBucket(path, target)
    BY <2>2, <1>0, <1>1, TransferCopyEffect DEF CopyBucket, OnS3, Into, IsDirectory, Exists
  <2>. QED BY <2>1, <2>2
<1>4. new \in Paths BY <1>3 DEF Ready
<1>5. CASE /\ Begin("copy", path, new, <<Step("refresh", target)>>)
           /\ new \in DOMAIN Shown(disk')
           /\ excused' = excused \cup Leftover(new)
           /\ UNCHANGED <<bin, db, journal, gone, faults>>
  BY <1>2, <1>3, <1>4, <1>5 DEF StateOK1
<1>6. CASE Refuse /\ excused' = excused \cup Subtree(db, new) /\ UNCHANGED gone
  BY <1>3, <1>6, RefuseOK DEF StateOK1, Refuse
<1>. QED BY <1>3, <1>5, <1>6

LEMMA MoveAcrossOK ==
    ASSUME StateOK1, NEW path \in Paths, NEW target \in Paths \cup Mounts, NEW new, new = Join(target, Last(path)),
           MoveAcross(path, target), UNCHANGED buckets
    PROVE  /\ StateOK1' /\ UNCHANGED <<bin, db, gone>>
           /\ \/ /\ Begin("move", path, new, <<Step("refresh", target), Step("delete", path)>>) /\ IsAcross(req')
                 /\ Relocated(disk, disk', path, new) /\ path \in DOMAIN Shown(disk) /\ new \notin DOMAIN Shown(disk)
                 /\ ~IsSubPath(path, new)
                 /\ \A p \in AnyPath : ~IsSubPath(path, p) /\ ~IsSubPath(new, p) => Same(disk, disk', p)
                 /\ excused' = excused \cup Leftover(new)
              \/ /\ req' = req /\ req.pc = "idle"
                 /\ \A p \in DOMAIN disk : \E q \in DOMAIN disk' : disk'[q] = disk[p]
                 /\ \A p \in AnyPath : ~IsSubPath(new, p) => Same(disk, disk', p)
                 /\ excused' = excused \cup Subtree(db, new)
              \/ /\ req' = req /\ req.pc = "idle"
                 /\ \A p \in DOMAIN disk : \E q \in DOMAIN disk' : disk'[q] = disk[p]
                 /\ \A p \in AnyPath : ~IsSubPath(path, p) /\ ~IsSubPath(new, p) => Same(disk, disk', p)
                 /\ excused' = excused \cup Subtree(db, path) \cup Subtree(db, new)
<1>0. /\ path \in AnyPath /\ path # Root /\ target \in AnyPath /\ target # Root
      /\ new \in AnyPath /\ new # Root /\ Parent(new) = target /\ Last(new) = Last(path)
      /\ IsSubPath(target, new) /\ new[1] = target[1]
  BY TargetFacts
<1>1. DiskOK(disk, buckets) /\ path[1] \notin buckets /\ target[1] \notin buckets /\ path[1] # target[1]
  BY DEF StateOK1, MoveAcross, OnS3
<1>2. CASE /\ \E copied \in CopyAcross(disk, path, target) : disk' \in RemoveLocal(copied, path)
           /\ Begin("move", path, new, <<Step("refresh", target), Step("delete", path)>>)
           /\ excused' = excused \cup Leftover(new)
           /\ UNCHANGED <<bin, db, journal, gone, faults>>
  <2>1. PICK copied \in CopyAcross(disk, path, target) : disk' \in RemoveLocal(copied, path)
    BY <1>2
  <2>2. /\ Ready(disk, new) /\ ~IsSubPath(path, new) /\ path \in DOMAIN Shown(disk) /\ new \in Paths
        /\ DiskOK(disk', buckets) /\ Relocated(disk, disk', path, new)
        /\ \A p \in AnyPath : ~IsSubPath(path, p) /\ ~IsSubPath(new, p) => Same(disk, disk', p)
    BY <1>1, <2>1, AcrossEffect
  <2>3. /\ TodoOK([pc |-> "meta", op |-> "move", old |-> path, new |-> new,
                   todo |-> <<Step("refresh", target), Step("delete", path)>>, slot |-> 0])
        /\ IsAcross([pc |-> "meta", op |-> "move", old |-> path, new |-> new,
                     todo |-> <<Step("refresh", target), Step("delete", path)>>, slot |-> 0])
    BY <1>0, <1>1, <2>2 DEF TodoOK, IsAcross
  <2>4. IsAcross(req') /\ ReqOK(req', bin', disk') /\ requests' \in Nat
    BY <1>2, <2>3, BeginOK, BeginIs
  <2>5. StateOK1' BY <1>2, <2>2, <2>4 DEF StateOK1
  <2>. QED BY <1>2, <2>2, <2>4, <2>5 DEF Ready
<1>3. CASE /\ Refuse
           /\ disk' \in CopyFails(disk, path, target)
           /\ excused' = excused \cup Subtree(db, new)
           /\ UNCHANGED gone
  BY <1>1, <1>3, CopyEffect, RefuseOK DEF StateOK1, Grown, Refuse
<1>4. CASE /\ Refuse
           /\ \E copied \in CopyAcross(disk, path, target) : disk' \in RemoveFails(copied, path)
           /\ excused' = excused \cup Subtree(db, path) \cup Subtree(db, new)
           /\ UNCHANGED gone
  <2>1. PICK copied \in CopyAcross(disk, path, target) : disk' \in RemoveFails(copied, path)
    BY <1>4
  <2>2. /\ DiskOK(disk', buckets) /\ Moving(disk, disk', path, new)
        /\ \A p \in AnyPath : ~IsSubPath(path, p) /\ ~IsSubPath(new, p) => Same(disk, disk', p)
    BY <1>1, <2>1, AcrossEffect
  <2>3. StateOK1' /\ req' = req BY <1>4, <2>2, RefuseOK DEF StateOK1
  <2>. QED BY <1>4, <2>2, <2>3 DEF Refuse, Moving
<1>. QED BY <1>2, <1>3, <1>4 DEF MoveAcross

LEMMA DeleteOK ==
    ASSUME StateOK1, NEW path \in Paths, Delete(path) \/ DeleteFromBucket(path), UNCHANGED buckets
    PROVE  /\ StateOK1' /\ UNCHANGED <<bin, db>>
           /\ Shrunk(disk, disk', path)
           /\ gone' = gone \cup {disk[p] : p \in Below(disk, path)}
           /\ \A p \in AnyPath : ~IsSubPath(path, p) =>
                \/ Same(disk, disk', p)
                \/ path[1] \in buckets /\ p \in DOMAIN Shown(disk) /\ p \notin DOMAIN Shown(disk')
           /\ \/ /\ Begin("delete", path, path, <<Step("delete", path)>>) /\ IsDelete(req')
                 /\ \A p \in AnyPath : IsSubPath(path, p) => p \notin DOMAIN Shown(disk')
                 /\ excused \subseteq excused' /\ (path[1] \in buckets => excused' = excused \cup Vanished(path))
              \/ /\ req' = req /\ req.pc = "idle"
                 /\ excused \cup Subtree(db, path) \subseteq excused'
                 /\ path[1] \in buckets => excused' = excused \cup Subtree(db, path) \cup Vanished(path)
<1>1. DiskOK(disk, buckets) BY DEF StateOK1
<1>2. ASSUME Begin("delete", path, path, <<Step("delete", path)>>)
      PROVE  IsDelete(req') /\ ReqOK(req', bin', disk') /\ requests' \in Nat
  BY <1>2, BeginOK, BeginIs DEF TodoOK, IsDelete
<1>3. ASSUME NEW k2, disk' = k2, Shrunk(disk, k2, path), path[1] \notin buckets => InOrder(disk, k2)
      PROVE  /\ DiskOK(disk', buckets)
             /\ \A p \in AnyPath : ~IsSubPath(path, p) =>
                \/ Same(disk, disk', p)
                \/ path[1] \in buckets /\ p \in DOMAIN Shown(disk) /\ p \notin DOMAIN Shown(disk')
  BY <1>1, <1>3, ShrinkEffect
<1>4. gone' = gone \cup {disk[p] : p \in Below(disk, path)} /\ req.pc = "idle"
  BY DEF Delete, DeleteFromBucket
<1>5. CASE /\ disk' = Without(disk, path)
           /\ Begin("delete", path, path, <<Step("delete", path)>>)
           /\ excused \subseteq excused' /\ (path[1] \in buckets => excused' = excused \cup Vanished(path))
           /\ UNCHANGED <<bin, db, journal, faults>>
  BY <1>1, <1>5, WithoutOK, <1>2, <1>3, <1>4 DEF StateOK1
<1>6. CASE /\ Refuse
           /\ Shrunk(disk, disk', path) /\ (path[1] \notin buckets => InOrder(disk, disk'))
           /\ excused \cup Subtree(db, path) \subseteq excused'
           /\ path[1] \in buckets => excused' = excused \cup Subtree(db, path) \cup Vanished(path)
  BY <1>3, <1>6, RefuseOK, <1>4 DEF StateOK1, Refuse
<1>7. CASE Delete(path)
  <2>1. CASE disk' \in RemoveLocal(disk, path) /\ Begin("delete", path, path, <<Step("delete", path)>>)
             /\ UNCHANGED <<bin, db, journal, excused, faults>>
    BY <1>7, <2>1, <1>5 DEF RemoveLocal, Delete, OnS3
  <2>2. CASE Refuse /\ disk' \in RemoveFails(disk, path) /\ excused' = excused \cup Subtree(db, path)
    <3>1. PICK left \in Progress(Tree(disk, path)) : disk' = Plus(Without(disk, path), At(path, Restrict(Tree(disk, path), left)))
      BY <2>2 DEF RemoveFails
    <3>2. Shrunk(disk, disk', path) /\ InOrder(disk, disk') /\ path[1] \notin buckets
      BY <1>1, <1>7, <3>1, RemoveFailsOK DEF Delete, OnS3
    <3>. QED BY <1>6, <2>2, <3>2
  <2>. QED BY <1>7, <2>1, <2>2 DEF Delete
<1>8. CASE DeleteFromBucket(path)
  <2>0. path[1] \in buckets BY <1>8 DEF DeleteFromBucket, OnS3
  <2>1. CASE disk' \in DeleteBucket(disk, path) /\ Begin("delete", path, path, <<Step("delete", path)>>)
             /\ excused' = excused \cup Vanished(path)
             /\ UNCHANGED <<bin, db, journal, faults>>
    BY <2>1, <1>5, <2>0 DEF DeleteBucket
  <2>2. CASE Refuse /\ disk' \in DeleteBucketFails(disk, path) /\ excused' = excused \cup Subtree(db, path) \cup Vanished(path)
    <3>1. PICK part \in Progress(Tree(disk, path)) : disk' = Deleted(disk, path, part)
      BY <2>2 DEF DeleteBucketFails
    <3>2. part \subseteq AnyPath BY <1>1, PathsFacts, TreeFacts DEF Progress
    <3>3. Shrunk(disk, disk', path) BY <1>1, <3>1, <3>2, DeletedOK
    <3>. QED BY <1>6, <2>0, <2>2, <3>3
  <2>. QED BY <1>8, <2>1, <2>2 DEF DeleteFromBucket
<1>. QED BY <1>7, <1>8

-----------------------------------------------------------------------------
(* The trash *)

\* The tree of an item, changed; and its row, written
SetTree(bn, k, tree) == [bn EXCEPT ![k].tree = tree]
SetRow(bn, k) == [bn EXCEPT ![k].row = TRUE]

\* The trash with another item in a slot; and without one
Binned(bn, bn2, k, item) ==
    /\ DOMAIN bn2 = DOMAIN bn \cup {k} /\ bn2[k] = item
    /\ \A j \in DOMAIN bn : j # k => bn2[j] = bn[j]

Emptied(bn, bn2, k) == DOMAIN bn2 = DOMAIN bn \ {k} /\ \A j \in DOMAIN bn2 : bn2[j] = bn[j]

ItemOK(item, b) ==
    /\ item = [from |-> item.from, tree |-> item.tree, row |-> item.row]
    /\ item.from \in Paths /\ item.row \in BOOLEAN /\ TreeOK(item.from, item.tree, b)

LEMMA ItemFacts ==
    ASSUME NEW bn, NEW b, BinOK(bn, b), NEW k \in DOMAIN bn
    PROVE  ItemOK(bn[k], b) /\ k \in Slots
BY DEF BinOK, ItemOK

LEMMA BinnedOK ==
    ASSUME NEW bn, NEW b, BinOK(bn, b), NEW k \in Slots, NEW item, ItemOK(item, b),
           NEW bn2, bn2 = [j \in DOMAIN bn2 |-> bn2[j]], Binned(bn, bn2, k, item)
    PROVE  BinOK(bn2, b)
<1>1. ASSUME NEW j \in DOMAIN bn2 PROVE ItemOK(bn2[j], b)
  <2>1. CASE j = k BY <2>1 DEF Binned
  <2>2. CASE j # k BY <2>2, ItemFacts DEF Binned
  <2>. QED BY <2>1, <2>2
<1>2. DOMAIN bn2 \subseteq Slots BY DEF Binned, BinOK
<1>. QED BY <1>1, <1>2 DEF BinOK, ItemOK

LEMMA BinPutOK ==
    ASSUME NEW bn, NEW b, BinOK(bn, b), NEW k \in Slots, NEW item, ItemOK(item, b),
           NEW bn2, bn2 = Put(bn, k, item)
    PROVE  BinOK(bn2, b) /\ Binned(bn, bn2, k, item)
<1>1. Binned(bn, bn2, k, item) /\ bn2 = [j \in DOMAIN bn2 |-> bn2[j]]
  BY DEF Put, Binned
<1>. QED BY <1>1, BinnedOK

Refilled(item, item2, tree) == item2.from = item.from /\ item2.tree = tree /\ item2.row = item.row

LEMMA BinTreeOK ==
    ASSUME NEW bn, NEW b, BinOK(bn, b), NEW k \in DOMAIN bn, NEW tree, TreeOK(bn[k].from, tree, b),
           NEW bn2, bn2 = SetTree(bn, k, tree)
    PROVE  BinOK(bn2, b) /\ Binned(bn, bn2, k, bn2[k]) /\ Refilled(bn[k], bn2[k], tree)
<1>1. PICK item : item = [bn[k] EXCEPT !.tree = tree] OBVIOUS
<1>2. item.from = bn[k].from /\ item.tree = tree /\ item.row = bn[k].row
      /\ item = [from |-> item.from, tree |-> item.tree, row |-> item.row]
  BY <1>1 DEF BinOK
<1>3. bn2 = [bn EXCEPT ![k] = item] BY <1>1 DEF SetTree
<1>4. Binned(bn, bn2, k, item) /\ bn2 = [j \in DOMAIN bn2 |-> bn2[j]] /\ bn2[k] = item
  BY <1>3 DEF Binned
<1>5. ItemOK(item, b) /\ k \in Slots BY <1>2, ItemFacts DEF ItemOK
<1>. QED BY <1>2, <1>4, <1>5, BinnedOK DEF Refilled

LEMMA BinRowOK ==
    ASSUME NEW bn, NEW b, BinOK(bn, b), NEW k \in DOMAIN bn, NEW bn2, bn2 = SetRow(bn, k)
    PROVE  /\ BinOK(bn2, b) /\ Binned(bn, bn2, k, bn2[k])
           /\ bn2[k].from = bn[k].from /\ bn2[k].tree = bn[k].tree /\ bn2[k].row
<1>1. PICK item : item = [bn[k] EXCEPT !.row = TRUE] OBVIOUS
<1>2. item.from = bn[k].from /\ item.tree = bn[k].tree /\ item.row = TRUE
      /\ item = [from |-> item.from, tree |-> item.tree, row |-> item.row]
  <2>1. bn[k] = [from |-> bn[k].from, tree |-> bn[k].tree, row |-> bn[k].row]
    BY DEF BinOK
  <2>. QED BY <1>1, <2>1
<1>3. bn2 = [bn EXCEPT ![k] = item] BY <1>1 DEF SetRow
<1>4. Binned(bn, bn2, k, item) /\ bn2 = [j \in DOMAIN bn2 |-> bn2[j]] /\ bn2[k] = item
  BY <1>3 DEF Binned
<1>5. ItemOK(item, b) /\ k \in Slots BY ItemFacts, <1>2 DEF ItemOK
<1>6. BinOK(bn2, b) BY <1>4, <1>5, BinnedOK
<1>. QED BY <1>2, <1>4, <1>6

LEMMA BinDropOK ==
    ASSUME NEW bn, NEW b, BinOK(bn, b), NEW k, NEW S, S = DOMAIN bn \ {k}, NEW bn2, bn2 = Restrict(bn, S)
    PROVE  BinOK(bn2, b) /\ Emptied(bn, bn2, k)
<1>1. DOMAIN bn2 = S /\ (\A x \in S : bn2[x] = bn[x]) /\ bn2 = [x \in DOMAIN bn2 |-> bn2[x]]
  BY RestrictFacts
<1>. QED BY <1>1, ZenonT(150) DEF BinOK, Emptied

\* Any part of what was in a bucket is something that may be put there.
LEMMA BucketPartOK ==
    ASSUME NEW from, NEW tree, NEW b, TreeOK(from, tree, b), from[1] \in b, NEW S, S \subseteq DOMAIN tree
    PROVE  TreeOK(from, Restrict(tree, S), b)
<1>1. PICK t : t = Restrict(tree, S) OBVIOUS
<1>2. DOMAIN t = S /\ (\A x \in S : t[x] = tree[x]) /\ t = [x \in DOMAIN t |-> t[x]]
  BY <1>1, RestrictFacts
<1>. QED BY <1>1, <1>2 DEF TreeOK

-----------------------------------------------------------------------------
(* The requests that put something in place, and the outsider *)

LEMMA FreeIsReady ==
    ASSUME DiskOK(disk, buckets), NEW path \in Paths, NameIsFree(Seen, path), IsDirectory(Seen, Parent(path))
    PROVE  Ready(disk, path)
<1>1. Seen = Shown(disk) BY SeenIs
<1>. QED BY <1>1 DEF Ready, NameIsFree, IsDirectory, Exists

LEMMA UploadOK ==
    ASSUME StateOK1, NEW path \in Paths, NEW content \in Contents, Upload(path, content), UNCHANGED buckets
    PROVE  /\ StateOK1' /\ Added(disk, disk', path, content)
           /\ Begin("upload", path, path, <<Step("commit", path)>>) /\ IsCommit(req')
           /\ UNCHANGED <<bin, db, excused, gone>> /\ IsNew(content)
<1>1. DiskOK(disk, buckets) /\ Ready(disk, path) /\ content \in Content
  BY FreeIsReady DEF StateOK1, Upload, Content
<1>2. disk' = Plus(disk, Entry(path, content))
  BY <1>1, ShownFacts, PlusEntry DEF Ready, Upload, CompleteUpload
<1>3. DiskOK(disk', buckets) /\ Added(disk, disk', path, content)
  BY <1>1, <1>2, EntryOK
<1>4. Begin("upload", path, path, <<Step("commit", path)>>) /\ UNCHANGED <<bin, db, faults, excused, gone>> /\ IsNew(content)
  BY DEF Upload
<1>5. /\ TodoOK([pc |-> "meta", op |-> "upload", old |-> path, new |-> path, todo |-> <<Step("commit", path)>>, slot |-> 0])
      /\ IsCommit([pc |-> "meta", op |-> "upload", old |-> path, new |-> path, todo |-> <<Step("commit", path)>>, slot |-> 0])
  BY DEF TodoOK, IsCommit
<1>6. IsCommit(req') /\ ReqOK(req', bin', disk') /\ requests' \in Nat
  BY <1>4, <1>5, BeginOK, BeginIs
<1>. QED BY <1>3, <1>4, <1>6 DEF StateOK1

\* A file is put where nothing is, or is overwritten.
Written(k, k2, path, what) ==
    /\ path \in DOMAIN k2 /\ k2[path] = what /\ path \in DOMAIN Shown(k2) /\ Shown(k2)[path] = what
    /\ \A p \in DOMAIN k : p \in DOMAIN k2 /\ (p # path => k2[p] = k[p])
    /\ \A p \in AnyPath : p # path => Same(k, k2, p)
    /\ path \notin DOMAIN k \/ Same(k, k2, path)

LEMMA WrittenOK ==
    ASSUME NEW k, NEW b, DiskOK(k, b), NEW path \in Paths, path[1] \notin b, NEW what \in Content, what # "dir",
           IsDirectory(k, Parent(path)), ~IsDirectory(k, path), NEW k2, k2 = Plus(Entry(path, what), k)
    PROVE  DiskOK(k2, b) /\ Written(k, k2, path, what)
<1>0. path \in AnyPath BY PathsFacts
<1>1. CASE path \in DOMAIN k
  BY <1>1, OverwriteOK, <1>0 DEF IsDirectory, Exists, Written
<1>2. CASE path \notin DOMAIN k
  <2>1. Ready(k, path) BY <1>2, LocalReady DEF IsDirectory, Exists
  <2>2. k2 = Plus(k, Entry(path, what)) BY <1>2, PlusEntry
  <2>3. DiskOK(k2, b) /\ Added(k, k2, path, what) BY <2>1, <2>2, EntryOK
  <2>. QED BY <1>2, <2>3 DEF Written, Added
<1>. QED BY <1>1, <1>2

LEMMA ImportOK ==
    ASSUME StateOK1, NEW path \in Paths, NEW content \in Contents, ImportLocalFile(path, content), UNCHANGED buckets
    PROVE  /\ StateOK1' /\ UNCHANGED <<bin, db>>
           /\ gone' = gone \cup {disk[p] : p \in {path} \cap DOMAIN disk}
           /\ \/ /\ Written(disk, disk', path, content) /\ IsNew(content) /\ excused' = excused
                 /\ Begin("upload", path, path, <<Step("commit", path)>>) /\ IsCommit(req')
              \/ /\ Written(disk, disk', path, Cut) /\ req' = req /\ req.pc = "idle"
                 /\ excused' = excused \cup Subtree(db, path)
<1>1. /\ DiskOK(disk, buckets) /\ path[1] \notin buckets /\ IsDirectory(disk, Parent(path)) /\ ~IsDirectory(disk, path)
      /\ content \in Content /\ content # "dir" /\ Cut \in Content /\ Cut # "dir"
  BY FilesAssumption DEF StateOK1, ImportLocalFile, OnS3, Content, Cut
<1>2. gone' = gone \cup {disk[p] : p \in {path} \cap DOMAIN disk} /\ IsNew(content)
  BY DEF ImportLocalFile
<1>3. CASE /\ Begin("upload", path, path, <<Step("commit", path)>>)
           /\ disk' = Plus(Entry(path, content), disk)
           /\ UNCHANGED <<bin, db, journal, excused, faults>>
  <2>1. DiskOK(disk', buckets) /\ Written(disk, disk', path, content)
    BY <1>1, <1>3, WrittenOK
  <2>2. /\ TodoOK([pc |-> "meta", op |-> "upload", old |-> path, new |-> path, todo |-> <<Step("commit", path)>>, slot |-> 0])
        /\ IsCommit([pc |-> "meta", op |-> "upload", old |-> path, new |-> path, todo |-> <<Step("commit", path)>>, slot |-> 0])
    BY DEF TodoOK, IsCommit
  <2>3. IsCommit(req') /\ ReqOK(req', bin', disk') /\ requests' \in Nat
    BY <1>3, <2>2, BeginOK, BeginIs
  <2>4. StateOK1' BY <1>3, <2>1, <2>3 DEF StateOK1
  <2>. QED BY <1>2, <1>3, <2>1, <2>3, <2>4
<1>4. CASE /\ Refuse
           /\ disk' = Plus(Entry(path, Cut), disk)
           /\ excused' = excused \cup Subtree(db, path)
  BY <1>1, <1>4, WrittenOK, RefuseOK, <1>2 DEF StateOK1, Refuse
<1>. QED BY <1>3, <1>4 DEF ImportLocalFile

LEMMA RefreshOK ==
    ASSUME StateOK1, NEW path \in Paths \cup Mounts, Refresh(path), UNCHANGED buckets
    PROVE  /\ StateOK1' /\ UNCHANGED <<disk, bin, db, excused, gone>>
           /\ Begin("refresh", path, path, <<Step("refresh", path)>>) /\ IsRefresh(req')
<1>1. Begin("refresh", path, path, <<Step("refresh", path)>>) /\ UNCHANGED <<disk, bin, db, journal, excused, gone, faults>>
  BY DEF Refresh
<1>2. /\ TodoOK([pc |-> "meta", op |-> "refresh", old |-> path, new |-> path, todo |-> <<Step("refresh", path)>>, slot |-> 0])
      /\ IsRefresh([pc |-> "meta", op |-> "refresh", old |-> path, new |-> path, todo |-> <<Step("refresh", path)>>, slot |-> 0])
  BY DEF TodoOK, IsRefresh
<1>3. IsRefresh(req') /\ ReqOK(req', bin', disk') /\ requests' \in Nat
  BY <1>1, <1>2, BeginOK, BeginIs
<1>. QED BY <1>1, <1>3 DEF StateOK1

LEMMA IdleReq ==
    ASSUME NEW r, NEW bn, NEW k, ReqOK(r, bn, k), r.pc = "idle", NEW bn2, NEW k2
    PROVE  ReqOK(r, bn2, k2)
BY DEF ReqOK

LEMMA IdleOK ==
    ASSUME NEW bn, NEW k
    PROVE  ReqOK(Idle, bn, k) /\ Idle.pc = "idle"
BY DEF ReqOK, Idle

LEMMA OutsideOK ==
    ASSUME StateOK1, NEW path \in Paths, Outside(path), UNCHANGED buckets
    PROVE  /\ StateOK1' /\ UNCHANGED <<bin, db, req>> /\ req.pc = "idle"
           /\ excused' = excused \cup Subtree(db, path) \cup Vanished(path)
           /\ \/ /\ Shrunk(disk, disk', path)
                 /\ gone' = gone \cup {disk[p] : p \in Below(disk, path)}
                 /\ \A p \in AnyPath : ~IsSubPath(path, p) =>
                      \/ Same(disk, disk', p)
                      \/ path[1] \in buckets /\ p \in DOMAIN Shown(disk) /\ p \notin DOMAIN Shown(disk')
              \/ /\ \E what \in {"dir", Cut} : Added(disk, disk', path, what)
                 /\ gone' = gone
<1>1. /\ DiskOK(disk, buckets) /\ req.pc = "idle" /\ UNCHANGED <<bin, db, req, requests>> /\ Fault("outside") /\ faults \in Nat
      /\ excused' = excused \cup Subtree(db, path) \cup Vanished(path)
  BY DEF StateOK1, Outside
<1>2. faults' \in Nat BY <1>1, FaultOK
<1>3. ReqOK(req', bin', disk') BY <1>1, IdleReq DEF StateOK1
<1>4. ASSUME DiskOK(disk', buckets) PROVE StateOK1'
  BY <1>1, <1>2, <1>3, <1>4 DEF StateOK1
<1>5. CASE /\ disk' \in IF OnS3(path) THEN DeleteBucket(disk, path) ELSE RemoveLocal(disk, path)
           /\ gone' = gone \cup {disk[p] : p \in Below(disk, path)}
  BY <1>5, <1>1, WithoutOK, ShrinkEffect, <1>4 DEF DeleteBucket, RemoveLocal
<1>6. CASE /\ NameIsFree(Seen, path) /\ IsDirectory(Seen, Parent(path))
           /\ \E what \in {"dir", Cut} : disk' = Plus(disk, Entry(path, what))
           /\ UNCHANGED gone
  <2>1. PICK what \in {"dir", Cut} : disk' = Plus(disk, Entry(path, what))
    BY <1>6
  <2>2. Ready(disk, path) /\ what \in Content
    BY <1>1, <1>6, FreeIsReady DEF Content
  <2>3. DiskOK(disk', buckets) /\ Added(disk, disk', path, what)
    BY <1>1, <2>1, <2>2, EntryOK
  <2>. QED BY <1>1, <1>4, <1>6, <2>3
<1>. QED BY <1>5, <1>6 DEF Outside

-----------------------------------------------------------------------------
(* The steps of the trash *)

LEMMA FreeSlot ==
    ASSUME NEW slot, slot = CHOOSE k \in Slots : k \notin DOMAIN bin, Slots \ DOMAIN bin # {}
    PROVE  slot \in Slots /\ slot \notin DOMAIN bin
OBVIOUS

LEMMA TrashOK ==
    ASSUME StateOK1, NEW path \in Paths, Trash(path), UNCHANGED buckets
    PROVE  /\ StateOK1' /\ UNCHANGED <<db, gone>> /\ req.pc = "idle"
           /\ disk' = Without(disk, path) /\ path \in DOMAIN Shown(disk)
           /\ req'.pc = "record" /\ req'.op = "trash" /\ req'.old = path /\ req'.new = path
           /\ req'.slot \notin DOMAIN bin /\ Binned(bin, bin', req'.slot, bin'[req'.slot])
           /\ bin'[req'.slot].tree = Tree(disk, path) /\ ~bin'[req'.slot].row
           /\ path[1] \in buckets => excused' = excused \cup Vanished(path)
           /\ path[1] \notin buckets => excused' = excused
<1>1. DiskOK(disk, buckets) /\ BinOK(bin, buckets) BY DEF StateOK1
<1>2. PICK slot : slot = CHOOSE k \in Slots : k \notin DOMAIN bin OBVIOUS
<1>3. PICK tree : tree = Tree(disk, path) OBVIOUS
<1>4. /\ Slots \ DOMAIN bin # {} /\ req.pc = "idle"
      /\ requests > 0 /\ requests' = requests - 1
      /\ UNCHANGED <<db, journal, gone, faults>>
      /\ path[1] \in buckets => excused' = excused \cup Vanished(path)
      /\ path[1] \notin buckets => excused' = excused
  BY DEF Trash, OnS3
<1>5. /\ req' = [Idle EXCEPT !.pc = "record", !.op = "trash", !.old = path, !.new = path, !.slot = slot]
      /\ bin' = Put(bin, slot, [from |-> path, tree |-> tree, row |-> FALSE])
  BY <1>2, <1>3 DEF Trash
<1>6. slot \in Slots /\ slot \notin DOMAIN bin BY <1>2, <1>4, FreeSlot
<1>7. disk' = Without(disk, path) /\ path \in DOMAIN Shown(disk)
  <2>1. CASE path[1] \in buckets BY <2>1 DEF Trash, OnS3, DeleteBucket, Exists
  <2>2. CASE path[1] \notin buckets
    BY <2>2, <1>1, ShownFacts DEF Trash, OnS3, TrashLocal, Exists
  <2>. QED BY <2>1, <2>2
<1>8. DiskOK(disk', buckets) /\ MayRestore(disk', path) /\ TreeOK(path, tree, buckets)
  BY <1>1, <1>3, <1>7, MayPutBack
<1>9. /\ BinOK(bin', buckets) /\ Binned(bin, bin', slot, bin'[slot])
      /\ bin'[slot].from = path /\ bin'[slot].tree = tree /\ bin'[slot].row = FALSE /\ slot \in DOMAIN bin'
  <2>1. PICK item : item = [from |-> path, tree |-> tree, row |-> FALSE] OBVIOUS
  <2>2. item.from = path /\ item.tree = tree /\ item.row = FALSE BY <2>1
  <2>3. item = [from |-> item.from, tree |-> item.tree, row |-> item.row] /\ item.row \in BOOLEAN
    BY <2>1
  <2>4. ItemOK(item, buckets) BY <1>8, <2>2, <2>3 DEF ItemOK
  <2>5. bin' = Put(bin, slot, item) BY <1>5, <2>1
  <2>6. BinOK(bin', buckets) /\ Binned(bin, bin', slot, item)
    BY <1>1, <1>6, <2>4, <2>5, BinPutOK
  <2>7. bin'[slot] = item /\ slot \in DOMAIN bin' BY <2>6 DEF Binned
  <2>. QED BY <2>2, <2>6, <2>7
<1>10. /\ req' = [pc |-> "record", op |-> "trash", old |-> path, new |-> path, todo |-> <<>>, slot |-> slot]
  BY <1>5 DEF Idle
<1>11. /\ req'.pc = "record" /\ req'.op = "trash" /\ req'.old = path /\ req'.new = path /\ req'.slot = slot
       /\ req' = [pc |-> req'.pc, op |-> req'.op, old |-> req'.old, new |-> req'.new, todo |-> req'.todo, slot |-> req'.slot]
  BY <1>10
<1>12. ReqOK(req', bin', disk') BY <1>8, <1>9, <1>11 DEF ReqOK
<1>13. StateOK1' BY <1>4, <1>8, <1>9, <1>12 DEF StateOK1
<1>. QED BY <1>3, <1>4, <1>6, <1>7, <1>9, <1>11, <1>13

LEMMA TrashFailsOK ==
    ASSUME StateOK1, NEW path \in Paths, TrashFails(path), UNCHANGED buckets
    PROVE  /\ StateOK1' /\ UNCHANGED <<db, req>> /\ req.pc = "idle" /\ path[1] \in buckets
           /\ Shrunk(disk, disk', path)
           /\ \A p \in AnyPath : ~IsSubPath(path, p) =>
                Same(disk, disk', p) \/ (p \in DOMAIN Shown(disk) /\ p \notin DOMAIN Shown(disk'))
           /\ excused' = excused \cup Subtree(db, path) \cup Vanished(path)
           /\ \A k \in DOMAIN bin : k \in DOMAIN bin' /\ bin'[k] = bin[k]
           /\ \A k \in DOMAIN bin' : k \notin DOMAIN bin =>
                /\ bin'[k].row = FALSE
                /\ \A r \in DOMAIN bin'[k].tree :
                     (\E p \in DOMAIN disk' : disk'[p] = bin'[k].tree[r]) \/ bin'[k].tree[r] \in gone'
           /\ gone \subseteq gone'
           /\ \A p \in DOMAIN disk : p \notin DOMAIN disk' => disk[p] \in gone'
<1>1. /\ DiskOK(disk, buckets) /\ BinOK(bin, buckets) /\ requests \in Nat /\ faults \in Nat
  BY DEF StateOK1
<1>2. PICK slot : slot = CHOOSE k \in Slots : k \notin DOMAIN bin OBVIOUS
<1>3. PICK tree : tree = Tree(disk, path) OBVIOUS
<1>4. /\ path[1] \in buckets /\ Slots \ DOMAIN bin # {} /\ req.pc = "idle"
      /\ requests > 0 /\ requests' = requests - 1 /\ Fault("fs")
      /\ excused' = excused \cup Subtree(db, path) \cup Vanished(path)
      /\ UNCHANGED <<db, journal, req>>
  BY DEF TrashFails, OnS3
<1>5. PICK part \in Progress(tree) :
         \/ disk' = disk /\ gone' = gone
            /\ bin' = Put(bin, slot, [from |-> path, tree |-> Restrict(tree, part), row |-> FALSE])
         \/ disk' = Deleted(disk, path, part) /\ gone' = gone \cup {tree[r] : r \in part}
            /\ bin' = Put(bin, slot, [from |-> path, tree |-> tree, row |-> FALSE])
  BY <1>2, <1>3 DEF TrashFails
<1>6. slot \in Slots /\ slot \notin DOMAIN bin BY <1>2, <1>4, FreeSlot
<1>7. path \in AnyPath /\ path # Root BY PathsFacts
<1>8. /\ \A r : r \in DOMAIN tree <=> r \in AnyPath /\ path \o r \in DOMAIN disk
      /\ \A r \in DOMAIN tree : tree[r] = disk[path \o r]
      /\ part \subseteq DOMAIN tree
  BY <1>1, <1>3, <1>7, TreeFacts DEF Progress
<1>9. TreeOK(path, tree, buckets)
  <2>1. \A r \in DOMAIN Tree(disk, path) : path \o r \in Paths
    <3>1. ASSUME NEW r \in DOMAIN tree PROVE path \o r \in Paths
      <4>1. path \o r \in DOMAIN disk /\ r \in AnyPath /\ IsSubPath(path, path \o r)
        BY <1>7, <1>8, BelowPath
      <4>2. path \o r \in Paths \cup Mounts BY <1>1, <4>1, DiskFacts
      <4>3. path \o r \notin Mounts
        <5>1. path \o r \notin Mounts \/ Len(path \o r) = 1 BY PathsFacts
        <5>2. Len(path \o r) = Len(path) + Len(r) /\ Len(path) > 1 /\ Len(r) \in Nat /\ Len(path) \in Nat
          BY <1>7, <4>1, ConcatPath, PathLen, FilesAssumption
        <5>3. Len(path \o r) # 1 BY <5>2
        <5>. QED BY <5>1, <5>3
      <4>. QED BY <4>2, <4>3
    <3>. QED BY <1>3, <3>1
  <2>. QED BY <1>1, <1>3, <1>7, <2>1, TreeIsOK
<1>10. requests' \in Nat /\ faults' \in Nat /\ req' = req BY <1>1, <1>4, FaultOK
<1>11. ReqOK(req', bin', disk') BY <1>4, <1>10, IdleReq DEF StateOK1
<1>12. ASSUME NEW t, TreeOK(path, t, buckets), bin' = Put(bin, slot, [from |-> path, tree |-> t, row |-> FALSE])
       PROVE  /\ BinOK(bin', buckets) /\ DOMAIN bin' = DOMAIN bin \cup {slot}
              /\ bin'[slot].tree = t /\ bin'[slot].row = FALSE
              /\ \A j \in DOMAIN bin : j \in DOMAIN bin' /\ bin'[j] = bin[j]
  <2>1. PICK item : item = [from |-> path, tree |-> t, row |-> FALSE] OBVIOUS
  <2>2. item.from = path /\ item.tree = t /\ item.row = FALSE BY <2>1
  <2>3. item = [from |-> item.from, tree |-> item.tree, row |-> item.row] /\ item.row \in BOOLEAN
    BY <2>1
  <2>4. ItemOK(item, buckets) BY <1>12, <2>2, <2>3 DEF ItemOK
  <2>5. bin' = Put(bin, slot, item) BY <1>12, <2>1
  <2>6. BinOK(bin', buckets) /\ Binned(bin, bin', slot, item)
    BY <1>1, <1>6, <2>4, <2>5, BinPutOK
  <2>. QED BY <1>6, <2>2, <2>6 DEF Binned
<1>13. CASE disk' = disk /\ gone' = gone
            /\ bin' = Put(bin, slot, [from |-> path, tree |-> Restrict(tree, part), row |-> FALSE])
  <2>1. PICK t : t = Restrict(tree, part) OBVIOUS
  <2>2. TreeOK(path, t, buckets) /\ DOMAIN t = part /\ \A r \in part : t[r] = tree[r]
    BY <1>9, <2>1, PartOK, RestrictFacts
  <2>3. bin' = Put(bin, slot, [from |-> path, tree |-> t, row |-> FALSE])
    BY <1>13, <2>1
  <2>4. /\ BinOK(bin', buckets) /\ DOMAIN bin' = DOMAIN bin \cup {slot}
        /\ bin'[slot].tree = t /\ bin'[slot].row = FALSE
        /\ \A j \in DOMAIN bin : j \in DOMAIN bin' /\ bin'[j] = bin[j]
    BY <1>12, <2>2, <2>3
  <2>5. Shrunk(disk, disk', path) /\ \A p \in AnyPath : Same(disk, disk', p)
    BY <1>1, <1>13 DEF Shrunk, Same, DiskOK
  <2>6. StateOK1' BY <1>1, <1>4, <1>10, <1>11, <1>13, <2>4 DEF StateOK1
  <2>7. ASSUME NEW k \in DOMAIN bin', k \notin DOMAIN bin
        PROVE  /\ bin'[k].row = FALSE
               /\ \A r \in DOMAIN bin'[k].tree : \E p \in DOMAIN disk' : disk'[p] = bin'[k].tree[r]
    <3>1. k = slot BY <2>4, <2>7
    <3>2. \A r \in DOMAIN t : path \o r \in DOMAIN disk' /\ disk'[path \o r] = t[r]
      BY <1>8, <1>13, <2>2
    <3>. QED BY <2>4, <3>1, <3>2
  <2>. QED BY <1>4, <1>13, <2>4, <2>5, <2>6, <2>7, ZenonT(150)
<1>14. CASE disk' = Deleted(disk, path, part) /\ gone' = gone \cup {tree[r] : r \in part}
            /\ bin' = Put(bin, slot, [from |-> path, tree |-> tree, row |-> FALSE])
  <2>1. part \subseteq AnyPath BY <1>8
  <2>2. Shrunk(disk, disk', path) BY <1>1, <1>14, <2>1, DeletedOK
  <2>3. /\ DiskOK(disk', buckets)
        /\ \A p \in AnyPath : ~IsSubPath(path, p) =>
                Same(disk, disk', p) \/ (p \in DOMAIN Shown(disk) /\ p \notin DOMAIN Shown(disk'))
    BY <1>1, <1>4, <2>2, ShrinkEffect
  <2>4. /\ BinOK(bin', buckets) /\ DOMAIN bin' = DOMAIN bin \cup {slot}
        /\ bin'[slot].tree = tree /\ bin'[slot].row = FALSE
        /\ \A j \in DOMAIN bin : j \in DOMAIN bin' /\ bin'[j] = bin[j]
    BY <1>9, <1>12, <1>14
  <2>5. StateOK1' BY <1>4, <1>10, <1>11, <2>3, <2>4 DEF StateOK1
  <2>6. \A p \in DOMAIN disk' : disk'[p] = disk[p] /\ p \in DOMAIN disk
    BY <2>2 DEF Shrunk
  <2>7. PICK dropped : dropped = {path \o r : r \in part} OBVIOUS
  <2>8. DOMAIN disk' = DOMAIN disk \ dropped
    <3>1. PICK S : S = DOMAIN disk \ dropped OBVIOUS
    <3>2. disk' = Restrict(disk, S) BY <1>14, <2>7, <3>1 DEF Deleted
    <3>. QED BY <3>1, <3>2, RestrictFacts
  <2>9. ASSUME NEW p \in DOMAIN disk, p \notin DOMAIN disk' PROVE disk[p] \in gone'
    <3>1. PICK r \in part : p = path \o r BY <2>7, <2>8, <2>9
    <3>. QED BY <1>8, <1>14, <3>1
  <2>10. ASSUME NEW r \in DOMAIN tree
         PROVE  (\E p \in DOMAIN disk' : disk'[p] = tree[r]) \/ tree[r] \in gone'
    BY <1>8, <2>10, <2>6, <2>9
  <2>11. ASSUME NEW k \in DOMAIN bin', k \notin DOMAIN bin
        PROVE  /\ bin'[k].row = FALSE
               /\ \A r \in DOMAIN bin'[k].tree :
                    (\E p \in DOMAIN disk' : disk'[p] = bin'[k].tree[r]) \/ bin'[k].tree[r] \in gone'
    BY <2>4, <2>11, <2>10
  <2>. QED BY <1>4, <1>14, <2>2, <2>3, <2>4, <2>5, <2>9, <2>11
<1>. QED BY <1>5, <1>13, <1>14

LEMMA RecordTrashOK ==
    ASSUME StateOK1, RecordTrash, UNCHANGED buckets
    PROVE  /\ StateOK1' /\ UNCHANGED <<db, excused, gone>> /\ req.pc = "record"
           /\ \/ /\ UNCHANGED disk /\ IsDelete(req') /\ req'.pc = "meta" /\ req'.op = "trash" /\ req'.old = req.old
                 /\ Binned(bin, bin', req.slot, bin'[req.slot]) /\ req.slot \in DOMAIN bin
                 /\ bin'[req.slot].tree = bin[req.slot].tree /\ bin'[req.slot].row
              \/ /\ req' = Idle /\ Restored(disk, disk', req.old, bin[req.slot].tree)
                 /\ disk' = Plus(EnsurePath(disk, Parent(req.old)), At(req.old, bin[req.slot].tree))
                 /\ Emptied(bin, bin', req.slot)
<1>1. /\ DiskOK(disk, buckets) /\ BinOK(bin, buckets) /\ req.pc = "record" /\ UNCHANGED <<db, journal, excused, gone, requests>>
      /\ faults \in Nat
  BY DEF StateOK1, RecordTrash
<1>2. /\ req.op = "trash" /\ req.old \in Paths /\ req.new = req.old
      /\ req.slot \in DOMAIN bin /\ bin[req.slot].from = req.old /\ bin[req.slot].row = FALSE
      /\ MayRestore(disk, req.old)
      /\ req = [pc |-> req.pc, op |-> req.op, old |-> req.old, new |-> req.new, todo |-> req.todo, slot |-> req.slot]
      /\ TreeOK(req.old, bin[req.slot].tree, buckets)
  BY <1>1 DEF StateOK1, ReqOK, BinOK
<1>3. CASE /\ bin' = [bin EXCEPT ![req.slot].row = TRUE]
           /\ req' = [req EXCEPT !.pc = "meta", !.todo = <<Step("delete", req.old)>>]
           /\ UNCHANGED <<disk, faults>>
  <2>1. PICK slot : slot = req.slot OBVIOUS
  <2>2. bin' = SetRow(bin, slot) BY <1>3, <2>1 DEF SetRow
  <2>3. /\ BinOK(bin', buckets) /\ Binned(bin, bin', slot, bin'[slot])
        /\ bin'[slot].tree = bin[slot].tree /\ bin'[slot].row
    BY <1>1, <1>2, <2>1, <2>2, BinRowOK
  <2>4. /\ req'.pc = "meta" /\ req'.op = req.op /\ req'.old = req.old /\ req'.new = req.new
        /\ req'.todo = <<Step("delete", req.old)>>
        /\ req' = [pc |-> req'.pc, op |-> req'.op, old |-> req'.old, new |-> req'.new, todo |-> req'.todo, slot |-> req'.slot]
    BY <1>2, <1>3
  <2>5. IsDelete(req') /\ ReqOK(req', bin', disk')
    BY <1>2, <2>4 DEF ReqOK, TodoOK, IsDelete
  <2>6. StateOK1' BY <1>1, <1>3, <2>3, <2>5 DEF StateOK1
  <2>. QED BY <1>1, <1>2, <1>3, <2>1, <2>3, <2>4, <2>5, <2>6
<1>4. CASE /\ Fault("db")
           /\ disk' = Plus(EnsurePath(disk, Parent(req.old)), At(req.old, bin[req.slot].tree))
           /\ bin' = Restrict(bin, DOMAIN bin \ {req.slot})
           /\ req' = Idle
  <2>1. DiskOK(disk', buckets) /\ Restored(disk, disk', req.old, bin[req.slot].tree)
    BY <1>1, <1>2, <1>4, EnsureOK
  <2>2. PICK slot : slot = req.slot OBVIOUS
  <2>3. BinOK(bin', buckets) /\ Emptied(bin, bin', slot)
    <3>1. PICK S : S = DOMAIN bin \ {slot} OBVIOUS
    <3>2. bin' = Restrict(bin, S) BY <1>4, <2>2, <3>1
    <3>. QED BY <1>1, <3>1, <3>2, BinDropOK
  <2>4. ReqOK(req', bin', disk') /\ faults' \in Nat
    BY <1>1, <1>4, IdleOK, FaultOK
  <2>5. StateOK1' BY <1>1, <2>1, <2>3, <2>4 DEF StateOK1
  <2>. QED BY <1>1, <1>4, <2>1, <2>2, <2>3, <2>5
<1>. QED BY <1>3, <1>4 DEF RecordTrash

\* A restore changes nothing of what is seen already.
LEMMA RestoredSame ==
    ASSUME NEW k, NEW b, DiskOK(k, b), NEW path \in Paths, path \notin DOMAIN Shown(k), NEW tree, NEW k2, DiskOK(k2, b),
           Restored(k, k2, path, tree)
    PROVE  \A p \in AnyPath : p \in DOMAIN Shown(k) => Same(k, k2, p)
<1> SUFFICES ASSUME NEW p \in AnyPath, p \in DOMAIN Shown(k) PROVE Same(k, k2, p)
  OBVIOUS
<1>0. path \in AnyPath /\ path # Root /\ p # Root BY PathsFacts, ShownDomain
<1>1. CASE ~IsSubPath(p, path) /\ ~IsSubPath(path, p) BY <1>1 DEF Restored
<1>2. ~IsSubPath(path, p) BY <1>0, FreeFacts
<1>3. CASE IsSubPath(p, path)
  <2>1. p # path BY <1>2, SubPathOrder
  <2>2. p \in DOMAIN Shown(k2) /\ Shown(k2)[p] = "dir"
    BY <1>0, <1>3, <2>1 DEF Restored
  <2>3. Shown(k)[p] = "dir"
    <3>1. CASE p \in DOMAIN k BY <3>1, ShownFacts, <2>2 DEF Restored
    <3>2. CASE p \notin DOMAIN k BY <3>2, ShownFacts
    <3>. QED BY <3>1, <3>2
  <2>. QED BY <2>2, <2>3 DEF Same
<1>. QED BY <1>1, <1>2, <1>3

\* What is restored goes where nothing is.
LEMMA RestoreEffect ==
    ASSUME NEW k, NEW b, DiskOK(k, b), NEW path \in Paths, NEW tree, TreeOK(path, tree, b),
           NEW k2, path[1] \in b => k2 \in RestoreBucket(k, path, tree),
           path[1] \notin b => k2 \in RestoreLocal(k, path, tree)
    PROVE  DiskOK(k2, b) /\ Restored(k, k2, path, tree) /\ path \notin DOMAIN Shown(k)
<1>1. CASE path[1] \in b
  BY <1>1, EnsureOK DEF RestoreBucket, MayRestore, NameIsFree, Exists
<1>2. CASE path[1] \notin b
  <2>1. k2 \in RestoreLocal(k, path, tree) BY <1>2
  <2>2. path \notin DOMAIN k BY <2>1 DEF RestoreLocal, NameIsFree, Exists
  <2>3. path \in AnyPath BY PathsFacts
  <2>4. path \notin DOMAIN Shown(k) BY <1>2, <2>2, <2>3, ShownFacts
  <2>. QED BY <1>2, <2>1, <2>4, RestoreLocalOK
<1>. QED BY <1>1, <1>2

LEMMA RestoreItemOK ==
    ASSUME StateOK1, NEW k \in Slots, Restore(k), UNCHANGED buckets
    PROVE  /\ StateOK1' /\ UNCHANGED <<db, gone>> /\ req.pc = "idle" /\ k \in DOMAIN bin /\ bin[k].row
           /\ bin[k].from \in Paths /\ bin[k].from \notin DOMAIN Shown(disk)
           /\ Restored(disk, disk', bin[k].from, bin[k].tree)
           /\ Binned(bin, bin', k, bin'[k]) /\ bin'[k].tree = <<>> /\ bin'[k].row
           /\ req' = Idle \/ (req'.pc = "row" /\ req'.slot = k)
           /\ excused' = excused \cup Returned
<1>1. /\ DiskOK(disk, buckets) /\ BinOK(bin, buckets) /\ req.pc = "idle" /\ k \in DOMAIN bin /\ bin[k].row
      /\ requests' = requests - 1 /\ requests > 0 /\ requests \in Nat /\ faults \in Nat
      /\ excused' = excused \cup Returned /\ UNCHANGED <<db, journal, gone, faults>>
  BY DEF StateOK1, Restore, HasRow
<1>2. PICK from, tree : from = bin[k].from /\ tree = bin[k].tree OBVIOUS
<1>3. ItemOK(bin[k], buckets) BY <1>1, ItemFacts
<1>4. from \in Paths /\ TreeOK(from, tree, buckets) BY <1>2, <1>3 DEF ItemOK
<1>5. /\ disk' \in IF from[1] \in buckets THEN RestoreBucket(disk, from, tree) ELSE RestoreLocal(disk, from, tree)
      /\ bin' = SetTree(bin, k, <<>>)
      /\ req' = IF tree # <<>> THEN [Idle EXCEPT !.pc = "row", !.op = "restore", !.old = from, !.new = from, !.slot = k]
                ELSE Idle
  BY <1>2 DEF Restore, SetTree, OnS3
<1>6. DiskOK(disk', buckets) /\ Restored(disk, disk', from, tree) /\ from \notin DOMAIN Shown(disk)
  BY <1>5, <1>1, <1>4, RestoreEffect
<1>7. /\ BinOK(bin', buckets) /\ Binned(bin, bin', k, bin'[k]) /\ bin'[k].tree = <<>> /\ bin'[k].row = bin[k].row
  <2>1. PICK none : none = <<>> OBVIOUS
  <2>2. TreeOK(bin[k].from, none, buckets) BY <2>1, EmptyTreeOK
  <2>3. bin' = SetTree(bin, k, none) BY <1>5, <2>1
  <2>4. /\ BinOK(bin', buckets) /\ Binned(bin, bin', k, bin'[k]) /\ Refilled(bin[k], bin'[k], none)
    BY <1>1, <2>2, <2>3, BinTreeOK
  <2>. QED BY <2>1, <2>4 DEF Refilled
<1>8. k \in DOMAIN bin' BY <1>7 DEF Binned
<1>9. CASE tree # <<>>
  <2>1. req' = [pc |-> "row", op |-> "restore", old |-> from, new |-> from, todo |-> <<>>, slot |-> k]
    BY <1>5, <1>9 DEF Idle
  <2>2. /\ req'.pc = "row" /\ req'.slot = k
        /\ req' = [pc |-> req'.pc, op |-> req'.op, old |-> req'.old, new |-> req'.new, todo |-> req'.todo, slot |-> req'.slot]
    BY <2>1
  <2>3. ReqOK(req', bin', disk') BY <1>7, <1>8, <2>2 DEF ReqOK
  <2>4. StateOK1' BY <1>1, <1>6, <1>7, <2>3 DEF StateOK1
  <2>. QED BY <1>1, <1>2, <1>4, <1>6, <1>7, <2>2, <2>4
<1>10. CASE tree = <<>>
  <2>1. req' = Idle BY <1>5, <1>10
  <2>2. ReqOK(req', bin', disk') BY <2>1, IdleOK, SMTT(60)
  <2>3. StateOK1' BY <1>1, <1>6, <1>7, <2>2 DEF StateOK1
  <2>. QED BY <1>1, <1>2, <1>4, <1>6, <1>7, <2>1, <2>3
<1>. QED BY <1>9, <1>10

LEMMA RestoreFailsOK ==
    ASSUME StateOK1, NEW k \in Slots, RestoreFails(k), UNCHANGED buckets
    PROVE  /\ StateOK1' /\ UNCHANGED <<db, gone, req>> /\ req.pc = "idle" /\ k \in DOMAIN bin /\ bin[k].row
           /\ bin[k].from \in Paths /\ bin[k].from \notin DOMAIN Shown(disk)
           /\ \E t : Restored(disk, disk', bin[k].from, t)
           /\ Binned(bin, bin', k, bin'[k]) /\ bin'[k].row
           /\ \A r \in DOMAIN bin[k].tree :
                \/ \E p \in DOMAIN disk' : disk'[p] = bin[k].tree[r]
                \/ r \in DOMAIN bin'[k].tree /\ bin'[k].tree[r] = bin[k].tree[r]
           /\ excused' = excused \cup Returned
<1>1. /\ DiskOK(disk, buckets) /\ BinOK(bin, buckets) /\ req.pc = "idle" /\ k \in DOMAIN bin /\ bin[k].row
      /\ requests' = requests - 1 /\ requests > 0 /\ requests \in Nat /\ faults \in Nat /\ Fault("fs")
      /\ excused' = excused \cup Returned /\ UNCHANGED <<db, journal, gone, req>> /\ OnS3(bin[k].from)
  BY DEF StateOK1, RestoreFails, HasRow
<1>2. PICK from, tree : from = bin[k].from /\ tree = bin[k].tree OBVIOUS
<1>3. ItemOK(bin[k], buckets) BY <1>1, ItemFacts
<1>4. from \in Paths /\ TreeOK(from, tree, buckets) /\ from[1] \in buckets
  BY <1>1, <1>2, <1>3 DEF ItemOK, OnS3
<1>5. PICK part \in Progress(tree) :
         \/ disk' \in RestoreBucket(disk, from, Restrict(tree, part)) /\ bin' = bin
         \/ /\ disk' \in RestoreBucket(disk, from, tree)
            /\ bin' = SetTree(bin, k, Restrict(tree, DOMAIN tree \ part))
  BY <1>2 DEF RestoreFails, SetTree
<1>6. requests' \in Nat /\ faults' \in Nat /\ ReqOK(req', bin', disk')
  BY <1>1, FaultOK, IdleReq DEF StateOK1
<1>7. CASE disk' \in RestoreBucket(disk, from, Restrict(tree, part)) /\ bin' = bin
  <2>1. PICK t : t = Restrict(tree, part) OBVIOUS
  <2>2. TreeOK(from, t, buckets) BY <1>4, <2>1, PartOK
  <2>3. disk' \in RestoreBucket(disk, from, t) BY <1>7, <2>1
  <2>4. DiskOK(disk', buckets) /\ Restored(disk, disk', from, t) /\ from \notin DOMAIN Shown(disk)
    BY <1>1, <1>4, <2>2, <2>3, RestoreEffect
  <2>5. StateOK1' BY <1>1, <1>6, <1>7, <2>4 DEF StateOK1
  <2>6. Binned(bin, bin', k, bin'[k]) /\ bin'[k].row /\ bin'[k].tree = tree
    BY <1>1, <1>2, <1>7 DEF Binned
  <2>. QED BY <1>1, <1>2, <1>4, <2>4, <2>5, <2>6
<1>8. CASE /\ disk' \in RestoreBucket(disk, from, tree)
           /\ bin' = SetTree(bin, k, Restrict(tree, DOMAIN tree \ part))
  <2>1. PICK S : S = DOMAIN tree \ part OBVIOUS
  <2>2. PICK t : t = Restrict(tree, S) OBVIOUS
  <2>3. TreeOK(from, t, buckets) BY <1>4, <2>1, <2>2, BucketPartOK
  <2>4. DiskOK(disk', buckets) /\ Restored(disk, disk', from, tree) /\ from \notin DOMAIN Shown(disk)
    BY <1>1, <1>4, <1>8, RestoreEffect
  <2>5. bin' = SetTree(bin, k, t) BY <1>8, <2>1, <2>2
  <2>6. TreeOK(bin[k].from, t, buckets) BY <1>2, <2>3
  <2>7. /\ BinOK(bin', buckets) /\ Binned(bin, bin', k, bin'[k]) /\ Refilled(bin[k], bin'[k], t)
    BY <1>1, <2>5, <2>6, BinTreeOK
  <2>8. StateOK1' BY <1>1, <1>6, <2>4, <2>7 DEF StateOK1
  <2>9. \A r \in DOMAIN tree : \E p \in DOMAIN disk' : disk'[p] = tree[r]
    BY <2>4 DEF Restored
  <2>. QED BY <1>1, <1>2, <1>4, <2>4, <2>7, <2>8, <2>9 DEF Refilled
<1>. QED BY <1>5, <1>7, <1>8

LEMMA PurgeOK ==
    ASSUME StateOK1, NEW k \in Slots, Purge(k), UNCHANGED buckets
    PROVE  /\ StateOK1' /\ UNCHANGED <<disk, db, excused>> /\ req.pc = "idle" /\ k \in DOMAIN bin /\ bin[k].row
           /\ Binned(bin, bin', k, bin'[k]) /\ bin'[k].tree = <<>> /\ bin'[k].row
           /\ req'.pc = "row" /\ req'.slot = k
           /\ gone' = gone \cup {bin[k].tree[r] : r \in DOMAIN bin[k].tree}
<1>1. /\ DiskOK(disk, buckets) /\ BinOK(bin, buckets) /\ req.pc = "idle" /\ k \in DOMAIN bin /\ bin[k].row
      /\ requests' = requests - 1 /\ requests > 0 /\ requests \in Nat /\ faults \in Nat
      /\ UNCHANGED <<disk, db, journal, excused, faults>>
      /\ gone' = gone \cup {bin[k].tree[r] : r \in DOMAIN bin[k].tree}
      /\ req' = [Idle EXCEPT !.pc = "row", !.op = "purge", !.slot = k]
  BY DEF StateOK1, Purge, HasRow
<1>2. bin' = SetTree(bin, k, <<>>) BY DEF Purge, SetTree
<1>3. /\ BinOK(bin', buckets) /\ Binned(bin, bin', k, bin'[k]) /\ bin'[k].tree = <<>> /\ bin'[k].row = bin[k].row
  <2>1. PICK none : none = <<>> OBVIOUS
  <2>2. TreeOK(bin[k].from, none, buckets) BY <2>1, EmptyTreeOK
  <2>3. bin' = SetTree(bin, k, none) BY <1>2, <2>1
  <2>4. /\ BinOK(bin', buckets) /\ Binned(bin, bin', k, bin'[k]) /\ Refilled(bin[k], bin'[k], none)
    BY <1>1, <2>2, <2>3, BinTreeOK
  <2>. QED BY <2>1, <2>4 DEF Refilled
<1>4. k \in DOMAIN bin' BY <1>3 DEF Binned
<1>5. req' = [pc |-> "row", op |-> "purge", old |-> Root, new |-> Root, todo |-> <<>>, slot |-> k]
  BY <1>1 DEF Idle
<1>6. /\ req'.pc = "row" /\ req'.slot = k
      /\ req' = [pc |-> req'.pc, op |-> req'.op, old |-> req'.old, new |-> req'.new, todo |-> req'.todo, slot |-> req'.slot]
  BY <1>5
<1>7. ReqOK(req', bin', disk') BY <1>3, <1>4, <1>6 DEF ReqOK
<1>8. StateOK1' BY <1>1, <1>3, <1>7 DEF StateOK1
<1>. QED BY <1>1, <1>3, <1>6, <1>8

LEMMA DropRowOK ==
    ASSUME StateOK1, DropRow, UNCHANGED buckets
    PROVE  /\ StateOK1' /\ UNCHANGED <<disk, db, excused, gone>> /\ req.pc = "row" /\ req' = Idle
           /\ bin[req.slot].tree = <<>>
           /\ Emptied(bin, bin', req.slot) \/ bin' = bin
<1>1. /\ req.pc = "row" /\ req' = Idle /\ UNCHANGED <<disk, db, journal, excused, gone, requests>>
      /\ DiskOK(disk, buckets) /\ BinOK(bin, buckets) /\ bin[req.slot].tree = <<>> /\ faults \in Nat
  BY DEF StateOK1, DropRow, ReqOK
<1>2. ReqOK(req', bin', disk') BY <1>1, IdleOK
<1>3. CASE bin' = Restrict(bin, DOMAIN bin \ {req.slot}) /\ UNCHANGED faults
  <2>1. PICK slot : slot = req.slot OBVIOUS
  <2>2. PICK S : S = DOMAIN bin \ {slot} OBVIOUS
  <2>3. bin' = Restrict(bin, S) BY <1>3, <2>1, <2>2
  <2>4. BinOK(bin', buckets) /\ Emptied(bin, bin', slot)
    BY <1>1, <2>2, <2>3, BinDropOK
  <2>5. StateOK1' BY <1>1, <1>2, <1>3, <2>4 DEF StateOK1
  <2>. QED BY <1>1, <2>1, <2>4, <2>5
<1>4. CASE Fault("db") /\ UNCHANGED bin
  BY <1>1, <1>4, FaultOK, <1>2 DEF StateOK1
<1>. QED BY <1>3, <1>4 DEF DropRow

-----------------------------------------------------------------------------
(* The steps of the metadata *)

Listable(path) == OnS3(path) \/ IsDirectory(disk, path)

LEMMA ListableIs ==
    ASSUME NEW path
    PROVE  Listable(path) \in BOOLEAN
BY DEF Listable

LEMMA SyncIs ==
    ASSUME NEW path
    PROVE  /\ Sync(Step("mkdir", path)) = MetaMkdir(db, path)
           /\ Sync(Step("rename", path)) = MetaRename(db, path, Last(req.new))
           /\ Sync(Step("move", path)) = MetaMove(db, path, Parent(req.new))
           /\ Sync(Step("delete", path)) = MetaDelete(db, path)
           /\ Sync(Step("commit", path)) = MetaCommit(db, path)
           /\ Sync(Step("refresh", path)) = MetaRefresh(db, path, Seen, Listable(path))
<1>1. Step("refresh", path).do = "refresh" /\ Step("refresh", path).path = path
  BY DEF Step
<1>2. Sync(Step("refresh", path)) = MetaRefresh(db, path, Seen, OnS3(path) \/ IsDirectory(disk, path))
  BY <1>1 DEF Sync
<1>. QED BY <1>2 DEF Sync, Step, Listable

LEMMA RefreshStep ==
    ASSUME StateOK1, NEW path \in Paths \cup Mounts, NEW r, r = Sync(Step("refresh", path))
    PROVE  /\ TablesOK(r.db)
           /\ r.err = "none" => /\ Find(db, path) # NoId /\ db.node[Find(db, path)].kind # "file" /\ Listable(path)
                                /\ Applied(db, r.db, Find(db, path), Seen)
           /\ r.err = "provider" => /\ ~Listable(path) /\ Find(db, path) # NoId
                                    /\ r.db = SetState(db, Find(db, path), "error")
                                    /\ db.node[Find(db, path)].kind # "file"
           /\ r.err \notin {"none", "provider"} => r.db = db
<1>1. path \in AnyPath BY PathsFacts
<1>2. DiskPaths(Seen) /\ TablesOK(db) BY SeenIs DEF StateOK1
<1>3. PICK l : l = Listable(path) OBVIOUS
<1>4. l \in BOOLEAN BY <1>3, ListableIs
<1>5. r = MetaRefresh(db, path, Seen, l) BY <1>3, SyncIs
<1>. QED BY <1>1, <1>2, <1>3, <1>4, <1>5, MetaRefreshOK

\* How a step may end
Failed == db' = db /\ req'.pc = "journal"
Rejected(step, r) == db' = r.db /\ ~Tolerated(step, r.err) /\ req'.pc = "journal"
Done(r, rest) == db' = r.db /\ r.err = "none" /\ req'.todo = rest /\ req'.pc = IF rest = <<>> THEN "ok" ELSE "meta"
Instead(step, r, rest) ==
    /\ db' = r.db /\ r.err = "notfound" /\ step.do \in {"delete", "rename", "move"}
    /\ req'.todo = Fallback(step, r.err) \o rest /\ req'.pc = IF req'.todo = <<>> THEN "ok" ELSE "meta"

SameRequest ==
    /\ req'.op = req.op /\ req'.old = req.old /\ req'.new = req.new /\ req'.slot = req.slot
    /\ req' = [pc |-> req'.pc, op |-> req'.op, old |-> req'.old, new |-> req'.new, todo |-> req'.todo, slot |-> req'.slot]

LEMMA MetadataIs ==
    ASSUME StateOK1, Metadata, NEW step, NEW rest, Head(req.todo) = step, Tail(req.todo) = rest, NEW r, r = Sync(step)
    PROVE  /\ Failed \/ Rejected(step, r) \/ Done(r, rest) \/ Instead(step, r, rest)
           /\ SameRequest /\ req.pc = "meta" /\ UNCHANGED <<disk, bin, gone, requests>> /\ faults' \in Nat
           /\ excused' = {i \in (excused \cup Unlisted(step)) \cap DOMAIN db'.node : ~Right(db', i)}
<1>1. req = [pc |-> req.pc, op |-> req.op, old |-> req.old, new |-> req.new, todo |-> req.todo, slot |-> req.slot]
  BY DEF StateOK1, ReqOK
<1>2. PICK todo : todo = IF r.err = "none" THEN rest ELSE Fallback(step, r.err) \o rest
  OBVIOUS
<1>3. /\ \/ /\ Tolerated(step, r.err)
            /\ db' = r.db
            /\ req' = [req EXCEPT !.todo = todo, !.pc = IF todo = <<>> THEN "ok" ELSE "meta"]
            /\ UNCHANGED faults
         \/ /\ ~Tolerated(step, r.err)
            /\ db' = r.db
            /\ req' = [req EXCEPT !.pc = "journal"]
            /\ UNCHANGED faults
         \/ /\ Fault("db")
            /\ req' = [req EXCEPT !.pc = "journal"]
            /\ UNCHANGED db
      /\ req.pc = "meta" /\ UNCHANGED <<disk, bin, gone, requests>>
      /\ excused' = {i \in (excused \cup Unlisted(step)) \cap DOMAIN db'.node : ~Right(db', i)}
  BY <1>2 DEF Metadata
<1>4. faults \in Nat BY DEF StateOK1
<1>5. CASE /\ Tolerated(step, r.err)
           /\ db' = r.db
           /\ req' = [req EXCEPT !.todo = todo, !.pc = IF todo = <<>> THEN "ok" ELSE "meta"]
           /\ UNCHANGED faults
  <2>1. /\ req'.pc = (IF todo = <<>> THEN "ok" ELSE "meta") /\ req'.todo = todo /\ SameRequest
    BY <1>1, <1>5 DEF SameRequest
  <2>2. CASE r.err = "none" BY <1>2, <1>3, <1>4, <1>5, <2>1, <2>2 DEF Done
  <2>3. CASE r.err # "none"
    BY <1>2, <1>3, <1>4, <1>5, <2>1, <2>3 DEF Instead, Tolerated
  <2>. QED BY <2>2, <2>3
<1>6. CASE /\ ~Tolerated(step, r.err)
           /\ db' = r.db
           /\ req' = [req EXCEPT !.pc = "journal"]
           /\ UNCHANGED faults
  BY <1>1, <1>6, <1>3, <1>4 DEF SameRequest, Rejected
<1>7. CASE /\ Fault("db")
           /\ req' = [req EXCEPT !.pc = "journal"]
           /\ UNCHANGED db
  BY <1>1, <1>7, <1>4, FaultOK, <1>3 DEF SameRequest, Failed
<1>. QED BY <1>3, <1>5, <1>6, <1>7

\* After a step the tables are a tree and what is left to be done is one of the shapes.
LEMMA StepOK ==
    ASSUME StateOK1, Metadata, UNCHANGED buckets, TablesOK(db'), SameRequest,
           req'.pc \in {"meta", "journal", "ok"}, req'.pc = "meta" => TodoOK(req')
    PROVE  StateOK1'
<1>1. PICK step, rest, r : Head(req.todo) = step /\ Tail(req.todo) = rest /\ r = Sync(step)
  OBVIOUS
<1>2. UNCHANGED <<disk, bin, gone, requests>> /\ faults' \in Nat
  BY <1>1, MetadataIs
<1>3. ReqOK(req', bin', disk') BY DEF SameRequest, ReqOK
<1>. QED BY <1>2, <1>3 DEF StateOK1

\* A step that ends the request, or fails it
LEMMA LastStepOK ==
    ASSUME StateOK1, Metadata, UNCHANGED buckets, NEW step, req.todo = <<step>>, NEW r, r = Sync(step), TablesOK(r.db),
           r.err = "notfound" /\ step.do \in {"delete", "rename", "move"} => Fallback(step, r.err) = <<>>
    PROVE  /\ StateOK1' /\ UNCHANGED <<disk, bin, gone>> /\ SameRequest
           /\ excused' = {i \in (excused \cup Unlisted(step)) \cap DOMAIN db'.node : ~Right(db', i)}
           /\ \/ Failed \/ Rejected(step, r)
              \/ req'.pc = "ok" /\ r.err = "none" /\ db' = r.db
              \/ req'.pc = "ok" /\ r.err = "notfound" /\ step.do \in {"delete", "rename", "move"} /\ db' = r.db
<1>1. PICK rest : rest = <<>> OBVIOUS
<1>2. Head(req.todo) = step /\ Tail(req.todo) = rest BY <1>1, TodoSeq
<1>3. /\ Failed \/ Rejected(step, r) \/ Done(r, rest) \/ Instead(step, r, rest)
      /\ SameRequest /\ req.pc = "meta" /\ UNCHANGED <<disk, bin, gone, requests>>
      /\ excused' = {i \in (excused \cup Unlisted(step)) \cap DOMAIN db'.node : ~Right(db', i)}
  BY <1>2, MetadataIs
<1>4. Failed => TablesOK(db') /\ req'.pc = "journal" BY DEF Failed, StateOK1
<1>5. Rejected(step, r) => TablesOK(db') /\ req'.pc = "journal" BY DEF Rejected
<1>6. Done(r, rest) => TablesOK(db') /\ req'.pc = "ok" /\ r.err = "none" /\ db' = r.db
  BY <1>1 DEF Done
<1>7. Instead(step, r, rest) => /\ TablesOK(db') /\ req'.pc = "ok" /\ r.err = "notfound" /\ db' = r.db
                                /\ step.do \in {"delete", "rename", "move"}
  BY <1>1, TodoSeq DEF Instead
<1>8. StateOK1' BY <1>3, <1>4, <1>5, <1>6, <1>7, StepOK
<1>. QED BY <1>3, <1>6, <1>7, <1>8

\* What a step does to the tables, and what comes next
Journalled == db' = db /\ req'.pc = "journal"

Unreadable(path) ==
    /\ req'.pc = "journal" /\ ~Listable(path) /\ Find(db, path) # NoId
    /\ db.node[Find(db, path)].kind # "file" /\ db' = SetState(db, Find(db, path), "error")

Refreshed(path) ==
    /\ Find(db, path) # NoId /\ db.node[Find(db, path)].kind # "file" /\ Listable(path)
    /\ Applied(db, db', Find(db, path), Seen)

Forgiven(step) == excused' = {i \in (excused \cup Unlisted(step)) \cap DOMAIN db'.node : ~Right(db', i)}

LEMMA MkdirStep ==
    ASSUME StateOK1, Metadata, UNCHANGED buckets, IsMkdir(req)
    PROVE  /\ StateOK1' /\ UNCHANGED <<disk, bin, gone>> /\ SameRequest /\ Forgiven(Step("mkdir", req.new))
           /\ \/ Journalled
              \/ req'.pc = "ok" /\ Find(db, req.new) = NoId /\ Upserted(db, db', {req.new}, {})
<1>1. PICK step, r : step = Step("mkdir", req.new) /\ r = Sync(step) OBVIOUS
<1>2. req.todo = <<step>> /\ req.new \in Paths /\ req.new \in AnyPath /\ req.new # Root
  BY <1>1, PathsFacts DEF IsMkdir
<1>3. r = MetaMkdir(db, req.new) /\ step.do = "mkdir" BY <1>1, SyncIs DEF Step
<1>4. /\ TablesOK(r.db)
      /\ r.err = "none" => Find(db, req.new) = NoId /\ Upserted(db, r.db, {req.new}, {})
      /\ r.err # "none" => r.db = db
  BY <1>2, <1>3, MetaMkdirOK DEF StateOK1
<1>5. /\ StateOK1' /\ UNCHANGED <<disk, bin, gone>> /\ SameRequest
      /\ excused' = {i \in (excused \cup Unlisted(step)) \cap DOMAIN db'.node : ~Right(db', i)}
      /\ \/ Failed \/ Rejected(step, r)
         \/ req'.pc = "ok" /\ r.err = "none" /\ db' = r.db
  BY <1>1, <1>2, <1>3, <1>4, LastStepOK
<1>6. Rejected(step, r) => Journalled
  BY <1>4 DEF Rejected, Journalled, Tolerated
<1>. QED BY <1>1, <1>4, <1>5, <1>6 DEF Failed, Journalled, Forgiven

LEMMA CommitStep ==
    ASSUME StateOK1, Metadata, UNCHANGED buckets, IsCommit(req)
    PROVE  /\ StateOK1' /\ UNCHANGED <<disk, bin, gone>> /\ SameRequest /\ Forgiven(Step("commit", req.new))
           /\ \/ Journalled
              \/ /\ req'.pc = "ok" /\ (Find(db, req.new) # NoId => ~IsDir(db, Find(db, req.new)))
                 /\ LET above == {SubSeq(req.new, 1, n) : n \in 1 .. Len(req.new) - 1}
                    IN  /\ \A p \in above : Find(db, p) # NoId => IsDir(db, Find(db, p))
                        /\ Upserted(db, db', above \cup {req.new}, {req.new})
<1>1. PICK step, r : step = Step("commit", req.new) /\ r = Sync(step) OBVIOUS
<1>2. req.todo = <<step>> /\ req.new \in Paths BY <1>1 DEF IsCommit
<1>3. r = MetaCommit(db, req.new) /\ step.do = "commit" BY <1>1, SyncIs DEF Step
<1>. DEFINE above == {SubSeq(req.new, 1, n) : n \in 1 .. Len(req.new) - 1}
<1>4. /\ TablesOK(r.db)
      /\ r.err # "none" => r.db = db
      /\ r.err = "none" => /\ \A p \in above : Find(db, p) # NoId => IsDir(db, Find(db, p))
                           /\ Find(db, req.new) # NoId => ~IsDir(db, Find(db, req.new))
                           /\ Upserted(db, r.db, above \cup {req.new}, {req.new})
  BY <1>2, <1>3, MetaCommitOK DEF StateOK1
<1>. HIDE DEF above
<1>5. /\ StateOK1' /\ UNCHANGED <<disk, bin, gone>> /\ SameRequest
      /\ excused' = {i \in (excused \cup Unlisted(step)) \cap DOMAIN db'.node : ~Right(db', i)}
      /\ \/ Failed \/ Rejected(step, r)
         \/ req'.pc = "ok" /\ r.err = "none" /\ db' = r.db
  BY <1>1, <1>2, <1>3, <1>4, LastStepOK
<1>6. Rejected(step, r) => Journalled
  BY <1>4 DEF Rejected, Journalled, Tolerated
<1>7. \/ Journalled
      \/ /\ req'.pc = "ok" /\ (Find(db, req.new) # NoId => ~IsDir(db, Find(db, req.new)))
         /\ \A p \in above : Find(db, p) # NoId => IsDir(db, Find(db, p))
         /\ Upserted(db, db', above \cup {req.new}, {req.new})
  BY <1>4, <1>5, <1>6 DEF Failed, Journalled
<1>. QED BY <1>1, <1>5, <1>7 DEF Forgiven, above

\* A rename or a move of the node, or the refreshes that are done instead
LEMMA MoveStep ==
    ASSUME StateOK1, Metadata, UNCHANGED buckets, IsMove(req)
    PROVE  /\ StateOK1' /\ UNCHANGED <<disk, bin, gone>> /\ SameRequest /\ Forgiven(Step(req.op, req.old))
           /\ \/ Journalled
              \/ /\ req'.pc = "ok" /\ Find(db, req.old) # NoId /\ Find(db, req.new) = NoId
                 /\ Moved(db, db', req.old, req.new) /\ ~IsSubPath(req.old, req.new)
              \/ /\ req'.pc = "meta" /\ IsFallback(req') /\ db' = db
                 /\ Find(db, req.old) = NoId \/ (req.op = "move" /\ Find(db, Parent(req.new)) = NoId)
<1>1. PICK step, r : step = Step(req.op, req.old) /\ r = Sync(step) OBVIOUS
<1>2. /\ req.todo = <<step>> /\ req.old \in Paths /\ req.new \in AnyPath /\ req.new # Root
      /\ Parent(req.new) \in Paths \cup Mounts /\ req.old \in AnyPath /\ req.old # Root
      /\ Parent(req.new) \in AnyPath
      /\ \/ req.op = "rename" /\ Parent(req.new) = Parent(req.old)
         \/ req.op = "move" /\ Parent(req.new) # Parent(req.old) /\ Last(req.new) = Last(req.old)
  BY <1>1, PathsFacts DEF IsMove, Ends
<1>3. Last(req.new) \in Segments /\ Join(Parent(req.new), Last(req.new)) = req.new
  BY <1>2, JoinPath
<1>4. step.do = req.op /\ step.path = req.old BY <1>1 DEF Step
<1>5. /\ TablesOK(r.db) /\ (r.err # "none" => r.db = db)
      /\ r.err = "none" => /\ Find(db, req.old) # NoId /\ Find(db, req.new) = NoId
                           /\ Moved(db, r.db, req.old, req.new) /\ ~IsSubPath(req.old, req.new)
      /\ r.err = "notfound" => Find(db, req.old) = NoId \/ (req.op = "move" /\ Find(db, Parent(req.new)) = NoId)
  <2>0. TablesOK(db) BY DEF StateOK1
  <2>3. IsSubPath(req.old, req.new) => req.new = req.old \/ IsSubPath(req.old, Parent(req.new))
    BY <1>2, ParentOrder
  <2>4. ~IsSubPath(req.old, Parent(req.old)) BY <1>2, ParentOrder, SubPathOrder
  <2>1. CASE req.op = "rename" /\ Parent(req.new) = Parent(req.old)
    BY <1>1, <2>1, SyncIs, <1>3, <1>2, <2>0, <2>3, <2>4, MetaRenameOK
  <2>2. CASE req.op = "move" /\ Parent(req.new) # Parent(req.old) /\ Last(req.new) = Last(req.old)
    <3>1. r = MetaMove(db, req.old, Parent(req.new)) BY <1>1, <2>2, SyncIs
    <3>2. Join(Parent(req.new), Last(req.old)) = req.new BY <1>3, <2>2
    <3>3. req.new # req.old BY <2>2
    <3>4. /\ TablesOK(r.db) /\ (r.err # "none" => r.db = db)
          /\ r.err = "none" => /\ Find(db, req.old) # NoId /\ ~IsSubPath(req.old, Parent(req.new))
                               /\ Find(db, req.new) = NoId /\ Moved(db, r.db, req.old, req.new)
          /\ r.err = "notfound" => Find(db, req.old) = NoId \/ Find(db, Parent(req.new)) = NoId
      BY <1>2, <1>3, <2>0, <2>2, <3>1, <3>2, MetaMoveOK
    <3>. QED BY <2>2, <2>3, <3>3, <3>4
  <2>. QED BY <1>2, <2>1, <2>2
<1>6. PICK rest : rest = <<>> OBVIOUS
<1>7. Head(req.todo) = step /\ Tail(req.todo) = rest BY <1>2, <1>6, TodoSeq
<1>8. /\ Failed \/ Rejected(step, r) \/ Done(r, rest) \/ Instead(step, r, rest)
      /\ SameRequest /\ req.pc = "meta" /\ UNCHANGED <<disk, bin, gone, requests>> /\ Forgiven(step)
  BY <1>1, <1>7, MetadataIs DEF Forgiven
<1>9. Failed => TablesOK(db') /\ Journalled BY DEF Failed, StateOK1, Journalled
<1>10. Rejected(step, r) => TablesOK(db') /\ Journalled
  BY <1>5 DEF Rejected, Tolerated, Journalled
<1>11. Done(r, rest) => /\ TablesOK(db') /\ req'.pc = "ok" /\ Find(db, req.old) # NoId /\ Find(db, req.new) = NoId
                        /\ Moved(db, db', req.old, req.new) /\ ~IsSubPath(req.old, req.new)
  BY <1>5, <1>6 DEF Done
<1>12. Instead(step, r, rest) =>
          /\ TablesOK(db') /\ db' = db /\ req'.pc = "meta" /\ IsFallback(req')
          /\ Find(db, req.old) = NoId \/ (req.op = "move" /\ Find(db, Parent(req.new)) = NoId)
  <2>1. SUFFICES ASSUME Instead(step, r, rest)
                 PROVE  /\ TablesOK(db') /\ db' = db /\ req'.pc = "meta" /\ IsFallback(req')
                        /\ Find(db, req.old) = NoId \/ (req.op = "move" /\ Find(db, Parent(req.new)) = NoId)
    OBVIOUS
  <2>2. r.err = "notfound" /\ db' = r.db /\ req'.todo = Fallback(step, r.err) \o rest
        /\ req'.pc = IF req'.todo = <<>> THEN "ok" ELSE "meta"
    BY <2>1 DEF Instead
  <2>3. Ends(req') BY <1>8 DEF SameRequest, Ends, IsMove
  <2>4. CASE req.op = "rename" /\ Parent(req.new) = Parent(req.old)
    BY <1>4, <2>2, <2>4, <1>6, TodoSeq, <1>8, <2>3, <1>5 DEF Fallback, IsFallback, SameRequest
  <2>5. CASE req.op = "move" /\ Parent(req.new) # Parent(req.old)
    BY <1>4, <2>2, <2>5, <1>6, TodoSeq, SMTT(60), <1>8, <2>3, <1>5 DEF Fallback, IsFallback, SameRequest
  <2>. QED BY <1>2, <2>4, <2>5
<1>13. StateOK1'
  BY <1>8, <1>9, <1>10, <1>11, <1>12, StepOK DEF Journalled, TodoOK
<1>14. /\ UNCHANGED <<disk, bin, gone>> /\ SameRequest /\ Forgiven(Step(req.op, req.old))
  BY <1>1, <1>8
<1>. QED BY <1>8, <1>9, <1>10, <1>11, <1>12, <1>13, <1>14

\* A refresh, and what is left to be done after it
LEMMA RefreshNext ==
    ASSUME StateOK1, Metadata, UNCHANGED buckets, NEW path \in Paths \cup Mounts, NEW step, step = Step("refresh", path),
           NEW rest, Head(req.todo) = step, Tail(req.todo) = rest
    PROVE  /\ TablesOK(db') /\ UNCHANGED <<disk, bin, gone>> /\ SameRequest /\ Forgiven(step)
           /\ \/ Journalled \/ Unreadable(path)
              \/ Refreshed(path) /\ req'.todo = rest /\ req'.pc = IF rest = <<>> THEN "ok" ELSE "meta"
<1>1. PICK r : r = Sync(step) OBVIOUS
<1>2. r = Sync(Step("refresh", path)) /\ step.do = "refresh" BY <1>1 DEF Step
<1>3. /\ TablesOK(r.db)
      /\ r.err = "none" => /\ Find(db, path) # NoId /\ db.node[Find(db, path)].kind # "file" /\ Listable(path)
                           /\ Applied(db, r.db, Find(db, path), Seen)
      /\ r.err = "provider" => /\ ~Listable(path) /\ Find(db, path) # NoId
                               /\ r.db = SetState(db, Find(db, path), "error")
                               /\ db.node[Find(db, path)].kind # "file"
      /\ r.err \notin {"none", "provider"} => r.db = db
  BY <1>2, RefreshStep
<1>4. /\ Failed \/ Rejected(step, r) \/ Done(r, rest) \/ Instead(step, r, rest)
      /\ SameRequest /\ req.pc = "meta" /\ UNCHANGED <<disk, bin, gone, requests>> /\ Forgiven(step)
  BY <1>1, MetadataIs DEF Forgiven
<1>5. Failed => TablesOK(db') /\ Journalled BY DEF Failed, StateOK1, Journalled
<1>6. Rejected(step, r) => TablesOK(db') /\ (Journalled \/ Unreadable(path))
  BY <1>3 DEF Rejected, Tolerated, Journalled, Unreadable
<1>7. Done(r, rest) => /\ TablesOK(db') /\ Refreshed(path) /\ req'.todo = rest
                       /\ req'.pc = IF rest = <<>> THEN "ok" ELSE "meta"
  BY <1>3 DEF Done, Refreshed
<1>8. ~Instead(step, r, rest) BY <1>2 DEF Instead
<1>. QED BY <1>4, <1>5, <1>6, <1>7, <1>8

\* In a tree there is nothing below a path that has no node.
LEMMA LeastNumber ==
    ASSUME NEW S \in SUBSET Nat, S # {}
    PROVE  \E n \in S : \A m \in S : ~ (m < n)
<1>1. PICK n \in S : \A m \in S : <<m, n>> \notin OpToRel(<, Nat)
  BY NatLessThanWellFounded, WFMin
<1>. QED BY <1>1 DEF OpToRel

LEMMA NoneBelow ==
    ASSUME NEW d, TablesOK(d), NEW path \in AnyPath, Find(d, path) = NoId
    PROVE  \A i \in DOMAIN d.node : ~IsSubPath(path, d.node[i].path)
<1> SUFFICES ASSUME NEW j \in DOMAIN d.node, IsSubPath(path, d.node[j].path) PROVE FALSE
  OBVIOUS
<1>. DEFINE Lens == {Len(d.node[i].path) : i \in {k \in DOMAIN d.node : IsSubPath(path, d.node[k].path)}}
<1>1. Lens \subseteq Nat /\ Lens # {}
  <2>1. ASSUME NEW i \in DOMAIN d.node PROVE Len(d.node[i].path) \in Nat
    BY NodeFacts, PathLen
  <2>. QED BY <2>1
<1>2. PICK n \in Lens : \A m \in Lens : ~ (m < n)
  <2>. HIDE DEF Lens
  <2>. QED BY <1>1, LeastNumber
<1>3. PICK i \in DOMAIN d.node : IsSubPath(path, d.node[i].path) /\ n = Len(d.node[i].path)
  OBVIOUS
<1>4. PICK p : p = d.node[i].path OBVIOUS
<1>5. p \in AnyPath /\ p # path BY <1>4, NodeFacts, FindFacts
<1>6. p # Root /\ IsSubPath(path, Parent(p)) BY <1>3, <1>4, <1>5, ParentOrder
<1>7. d.node[i].parent \in DOMAIN d.node /\ d.node[d.node[i].parent].path = Parent(p)
  BY <1>4, <1>6, NodeFacts
<1>8. Len(Parent(p)) \in Lens BY <1>6, <1>7
<1>9. Len(Parent(p)) = Len(p) - 1 /\ Len(p) \in Nat
  BY <1>5, <1>6, ParentPath, PathLen
<1>. QED
  <2>. HIDE DEF Lens
  <2>. QED BY <1>2, <1>3, <1>4, <1>8, <1>9, SMTT(60)

\* The refresh is the last that is done
LEMMA RefreshLast ==
    ASSUME StateOK1, Metadata, UNCHANGED buckets, NEW path \in Paths \cup Mounts, req.todo = <<Step("refresh", path)>>
    PROVE  /\ StateOK1' /\ UNCHANGED <<disk, bin, gone>> /\ SameRequest /\ Forgiven(Step("refresh", path))
           /\ Journalled \/ Unreadable(path) \/ (Refreshed(path) /\ req'.pc = "ok")
<1>1. PICK step, rest : step = Step("refresh", path) /\ rest = <<>> OBVIOUS
<1>2. Head(req.todo) = step /\ Tail(req.todo) = rest BY <1>1, TodoSeq
<1>3. /\ TablesOK(db') /\ UNCHANGED <<disk, bin, gone>> /\ SameRequest /\ Forgiven(step)
      /\ \/ Journalled \/ Unreadable(path)
         \/ Refreshed(path) /\ req'.todo = rest /\ req'.pc = IF rest = <<>> THEN "ok" ELSE "meta"
  BY <1>1, <1>2, RefreshNext
<1>4. req'.pc \in {"journal", "ok"} BY <1>1, <1>3 DEF Journalled, Unreadable
<1>5. StateOK1' BY <1>3, <1>4, StepOK
<1>. QED BY <1>1, <1>3, <1>5

\* Something is left to be done after the refresh
LEMMA RefreshFirst ==
    ASSUME StateOK1, Metadata, UNCHANGED buckets, NEW path \in Paths \cup Mounts,
           NEW next, req.todo = <<Step("refresh", path), next>>,
           SameRequest /\ req'.todo = <<next>> => TodoOK(req')
    PROVE  /\ StateOK1' /\ UNCHANGED <<disk, bin, gone>> /\ SameRequest /\ Forgiven(Step("refresh", path))
           /\ Journalled \/ Unreadable(path) \/ (Refreshed(path) /\ req'.pc = "meta" /\ req'.todo = <<next>>)
<1>1. PICK step, rest : step = Step("refresh", path) /\ rest = <<next>> OBVIOUS
<1>2. Head(req.todo) = step /\ Tail(req.todo) = rest /\ rest # <<>>
  BY <1>1, TodoSeq
<1>3. /\ TablesOK(db') /\ UNCHANGED <<disk, bin, gone>> /\ SameRequest /\ Forgiven(step)
      /\ \/ Journalled \/ Unreadable(path)
         \/ Refreshed(path) /\ req'.todo = rest /\ req'.pc = IF rest = <<>> THEN "ok" ELSE "meta"
  BY <1>1, <1>2, RefreshNext
<1>4. req'.pc \in {"journal", "meta"} /\ (req'.pc = "meta" => TodoOK(req'))
  BY <1>1, <1>2, <1>3 DEF Journalled, Unreadable
<1>5. StateOK1' BY <1>3, <1>4, StepOK
<1>. QED BY <1>1, <1>2, <1>3, <1>5

LEMMA FallbackStep ==
    ASSUME StateOK1, Metadata, UNCHANGED buckets, IsFallback(req)
    PROVE  /\ StateOK1' /\ UNCHANGED <<disk, bin, gone>> /\ SameRequest /\ Forgiven(Step("refresh", Parent(req.new)))
           /\ \/ Journalled \/ Unreadable(Parent(req.new))
              \/ req.op = "rename" /\ Parent(req.old) = Parent(req.new) /\ Refreshed(Parent(req.new)) /\ req'.pc = "ok"
              \/ req.op = "move" /\ Refreshed(Parent(req.new)) /\ req'.pc = "meta" /\ IsSecond(req')
<1>1. Parent(req.new) \in Paths \cup Mounts /\ Ends(req) BY DEF IsFallback, Ends
<1>2. CASE req.op = "rename" /\ req.todo = <<Step("refresh", Parent(req.new))>>
  BY <1>1, <1>2, RefreshLast DEF Ends
<1>3. CASE req.op = "move" /\ req.todo = <<Step("refresh", Parent(req.new)), Step("refresh", Parent(req.old))>>
  <2>1. PICK next : next = Step("refresh", Parent(req.old)) OBVIOUS
  <2>2. ASSUME SameRequest, req'.todo = <<next>> PROVE IsSecond(req') /\ TodoOK(req')
    BY <1>1, <1>3, <2>1, <2>2 DEF SameRequest, IsSecond, Ends, TodoOK
  <2>3. req.todo = <<Step("refresh", Parent(req.new)), next>> BY <1>3, <2>1
  <2>4. /\ StateOK1' /\ UNCHANGED <<disk, bin, gone>> /\ SameRequest /\ Forgiven(Step("refresh", Parent(req.new)))
        /\ Journalled \/ Unreadable(Parent(req.new)) \/ (Refreshed(Parent(req.new)) /\ req'.pc = "meta" /\ req'.todo = <<next>>)
    BY <1>1, <2>2, <2>3, RefreshFirst
  <2>. QED BY <1>3, <2>2, <2>4
<1>. QED BY <1>2, <1>3 DEF IsFallback

LEMMA SecondStep ==
    ASSUME StateOK1, Metadata, UNCHANGED buckets, IsSecond(req)
    PROVE  /\ StateOK1' /\ UNCHANGED <<disk, bin, gone>> /\ SameRequest /\ Forgiven(Step("refresh", Parent(req.old)))
           /\ Journalled \/ Unreadable(Parent(req.old)) \/ (Refreshed(Parent(req.old)) /\ req'.pc = "ok")
<1>1. Parent(req.old) \in Paths \cup Mounts BY PathsFacts DEF IsSecond, Ends
<1>. QED BY <1>1, RefreshLast DEF IsSecond

LEMMA CopyStep ==
    ASSUME StateOK1, Metadata, UNCHANGED buckets, IsCopy(req)
    PROVE  /\ StateOK1' /\ UNCHANGED <<disk, bin, gone>> /\ SameRequest /\ Forgiven(Step("refresh", Parent(req.new)))
           /\ Journalled \/ Unreadable(Parent(req.new)) \/ (Refreshed(Parent(req.new)) /\ req'.pc = "ok")
<1>1. Parent(req.new) \in Paths \cup Mounts BY PathsFacts DEF IsCopy
<1>. QED BY <1>1, RefreshLast DEF IsCopy

LEMMA RefreshItself ==
    ASSUME StateOK1, Metadata, UNCHANGED buckets, IsRefresh(req)
    PROVE  /\ StateOK1' /\ UNCHANGED <<disk, bin, gone>> /\ SameRequest /\ Forgiven(Step("refresh", req.old))
           /\ Journalled \/ Unreadable(req.old) \/ (Refreshed(req.old) /\ req'.pc = "ok")
BY RefreshLast DEF IsRefresh

LEMMA AcrossStep ==
    ASSUME StateOK1, Metadata, UNCHANGED buckets, IsAcross(req)
    PROVE  /\ StateOK1' /\ UNCHANGED <<disk, bin, gone>> /\ SameRequest /\ Forgiven(Step("refresh", Parent(req.new)))
           /\ \/ Journalled \/ Unreadable(Parent(req.new))
              \/ Refreshed(Parent(req.new)) /\ req'.pc = "meta" /\ IsRemoval(req')
<1>1. Parent(req.new) \in Paths \cup Mounts BY PathsFacts DEF IsAcross
<1>2. PICK next : next = Step("delete", req.old) OBVIOUS
<1>3. ASSUME SameRequest, req'.todo = <<next>> PROVE IsRemoval(req') /\ TodoOK(req')
  BY <1>2, <1>3 DEF SameRequest, IsRemoval, IsAcross, TodoOK
<1>4. req.todo = <<Step("refresh", Parent(req.new)), next>> BY <1>2 DEF IsAcross
<1>5. /\ StateOK1' /\ UNCHANGED <<disk, bin, gone>> /\ SameRequest /\ Forgiven(Step("refresh", Parent(req.new)))
      /\ Journalled \/ Unreadable(Parent(req.new)) \/ (Refreshed(Parent(req.new)) /\ req'.pc = "meta" /\ req'.todo = <<next>>)
  BY <1>1, <1>3, <1>4, RefreshFirst
<1>. QED BY <1>3, <1>5

LEMMA DeleteStep ==
    ASSUME StateOK1, Metadata, UNCHANGED buckets, IsDelete(req) \/ IsRemoval(req)
    PROVE  /\ StateOK1' /\ UNCHANGED <<disk, bin, gone>> /\ SameRequest /\ Forgiven(Step("delete", req.old))
           /\ \/ Journalled
              \/ req'.pc = "ok" /\ Removed(db, db', req.old)
<1>1. PICK step, r : step = Step("delete", req.old) /\ r = Sync(step) OBVIOUS
<1>2. req.todo = <<step>> /\ req.old \in Paths /\ req.old \in AnyPath /\ req.old # Root
  BY <1>1, PathsFacts DEF IsDelete, IsRemoval
<1>3. r = MetaDelete(db, req.old) /\ step.do = "delete" BY <1>1, SyncIs DEF Step
<1>4. /\ TablesOK(r.db) /\ TablesOK(db)
      /\ r.err = "none" => Removed(db, r.db, req.old)
      /\ r.err # "none" => r.db = db /\ Find(db, req.old) = NoId
  BY <1>2, <1>3, MetaDeleteOK DEF StateOK1
<1>5. Fallback(step, r.err) = <<>> BY <1>3 DEF Fallback
<1>6. /\ StateOK1' /\ UNCHANGED <<disk, bin, gone>> /\ SameRequest
      /\ excused' = {i \in (excused \cup Unlisted(step)) \cap DOMAIN db'.node : ~Right(db', i)}
      /\ \/ Failed \/ Rejected(step, r)
         \/ req'.pc = "ok" /\ r.err = "none" /\ db' = r.db
         \/ req'.pc = "ok" /\ r.err = "notfound" /\ step.do \in {"delete", "rename", "move"} /\ db' = r.db
  BY <1>1, <1>2, <1>4, <1>5, LastStepOK
<1>7. Rejected(step, r) => Journalled
  BY <1>4 DEF Rejected, Journalled, Tolerated
<1>8. CASE req'.pc = "ok" /\ r.err = "notfound" /\ db' = r.db
  BY <1>4, <1>8, <1>2, NoneBelow, <1>1, <1>6 DEF Removed, Forgiven
<1>. QED BY <1>1, <1>4, <1>6, <1>7, <1>8 DEF Failed, Journalled, Forgiven

LEMMA MetadataOK ==
    ASSUME StateOK1, Metadata, UNCHANGED buckets
    PROVE  /\ StateOK1' /\ UNCHANGED <<disk, bin, gone>> /\ req.pc = "meta" /\ TodoOK(req)
           /\ req'.pc \in {"meta", "journal", "ok"}
<1>1. req.pc = "meta" /\ TodoOK(req) BY DEF Metadata, StateOK1, ReqOK
<1>2. StateOK1' /\ UNCHANGED <<disk, bin, gone>>
  BY <1>1, MkdirStep, CommitStep, MoveStep, FallbackStep, SecondStep, CopyStep, AcrossStep, DeleteStep,
     RefreshItself DEF TodoOK
<1>3. req'.pc \in {"meta", "journal", "ok"}
  <2>1. PICK step, rest, r : Head(req.todo) = step /\ Tail(req.todo) = rest /\ r = Sync(step)
    OBVIOUS
  <2>2. Failed \/ Rejected(step, r) \/ Done(r, rest) \/ Instead(step, r, rest)
    BY <2>1, MetadataIs
  <2>. QED BY <2>2 DEF Failed, Rejected, Done, Instead
<1>. QED BY <1>1, <1>2, <1>3

LEMMA EndOK ==
    ASSUME StateOK1, JournalFailure \/ Answer \/ Crash, UNCHANGED buckets
    PROVE  StateOK1' /\ UNCHANGED <<disk, bin, db>> /\ req' = Idle /\ req.pc # "idle"
<1>1. /\ req' = Idle /\ UNCHANGED <<disk, bin, db, requests>> /\ req.pc # "idle"
      /\ (\E kind : Fault(kind)) \/ UNCHANGED faults
  BY DEF JournalFailure, Answer, Crash
<1>2. faults' \in Nat BY <1>1, FaultOK DEF StateOK1
<1>3. ReqOK(req', bin', disk') BY <1>1, IdleOK
<1>. QED BY <1>1, <1>2, <1>3 DEF StateOK1

-----------------------------------------------------------------------------
(* The inductive invariant *)

LEMMA MountsDiskOK ==
    ASSUME NEW b, NEW k, k = [p \in Mounts |-> "dir"]
    PROVE  DiskOK(k, b)
<1>1. DOMAIN k = Mounts /\ \A p \in Mounts : k[p] = "dir" OBVIOUS
<1>2. ASSUME NEW p \in DOMAIN k, NEW q \in AnyPath, q # Root, IsSubPath(q, p) PROVE q \in DOMAIN k
  <2>1. p \in AnyPath /\ Len(p) = 1 /\ p # Root BY <1>1, PathsFacts
  <2>2. \A n \in 1 .. Len(q) : q[n] = p[n] BY <1>2, <2>1, SubPathDef
  <2>3. Len(q) = Len(p)
    <3>1. Len(q) <= Len(p) /\ Len(q) \in Nat /\ Len(q) # 0
      BY <1>2, <2>1, SubPathDef, PathLen
    <3>2. PICK a : a = Len(q) OBVIOUS
    <3>3. a \in Nat /\ a <= 1 /\ a # 0 BY <2>1, <3>1, <3>2
    <3>4. a = 1 BY <3>3
    <3>. QED BY <2>1, <3>2, <3>4
  <2>4. q = p BY <2>1, <2>2, <2>3, PathEqual
  <2>. QED BY <2>4
<1>3. "dir" \in Content BY DEF Content
<1>4. \A p \in DOMAIN k, q \in AnyPath : p[1] \notin b /\ q # Root /\ IsSubPath(q, p) => q \in DOMAIN k
  BY <1>2
<1>. QED BY <1>1, <1>3, <1>4 DEF DiskOK

LEMMA InitDiskOK ==
    ASSUME Init
    PROVE  /\ DiskOK(disk, buckets)
           /\ \/ disk = [p \in Mounts |-> "dir"]
              \/ \E p \in Paths, c \in Contents :
                   /\ p[1] \in buckets /\ Parent(p) \in Paths
                   /\ disk = Plus([q \in Mounts |-> "dir"], Entry(p, c))
<1>1. CASE disk = [p \in Mounts |-> "dir"] BY <1>1, MountsDiskOK
<1>2. CASE \E p \in Paths, c \in Contents :
             /\ p[1] \in buckets /\ Parent(p) \in Paths
             /\ disk = Plus([q \in Mounts |-> "dir"], Entry(p, c))
  <2>1. PICK k : k = [q \in Mounts |-> "dir"] OBVIOUS
  <2>2. PICK p \in Paths, c \in Contents : p[1] \in buckets /\ Parent(p) \in Paths /\ disk = Plus(k, Entry(p, c))
    BY <1>2, <2>1
  <2>3. PICK e : e = Entry(p, c) OBVIOUS
  <2>4. disk = Plus(k, e) /\ DOMAIN e = {p} /\ e[p] = c /\ DOMAIN k = Mounts /\ \A m \in Mounts : k[m] = "dir"
    BY <2>1, <2>2, <2>3 DEF Entry
  <2>5. p \notin Mounts /\ p \in AnyPath /\ c \in Content
    BY PathsFacts DEF Content
  <2>6. /\ DOMAIN disk = Mounts \cup {p} /\ disk[p] = c /\ \A m \in Mounts : disk[m] = "dir"
        /\ disk = [q \in DOMAIN disk |-> disk[q]]
    BY <2>4, <2>5 DEF Plus
  <2>7. DiskOK(k, buckets) BY <2>1, MountsDiskOK
  <2>8. ASSUME NEW q \in DOMAIN disk, NEW r \in DOMAIN disk, IsSubPath(r, q), r # q PROVE disk[r] = "dir"
    <3>1. CASE r = p
      BY <2>6, <2>8, <3>1, PathsFacts, FilesAssumption, PathLen, <2>5, SubPathDef
    <3>2. CASE r # p BY <2>6, <3>2
    <3>. QED BY <3>1, <3>2
  <2>9. ASSUME NEW q \in DOMAIN disk, NEW r \in AnyPath, q[1] \notin buckets, r # Root, IsSubPath(r, q) PROVE r \in DOMAIN disk
    BY <2>2, <2>9, <2>4, <2>6, <2>7 DEF DiskOK
  <2>10. \A q \in DOMAIN disk : disk[q] \in Content BY <2>5, <2>6 DEF Content
  <2>11. /\ \A q, r \in DOMAIN disk : IsSubPath(r, q) /\ r # q => disk[r] = "dir"
         /\ \A q \in DOMAIN disk, r \in AnyPath : q[1] \notin buckets /\ r # Root /\ IsSubPath(r, q) => r \in DOMAIN disk
         /\ DOMAIN disk \subseteq Paths \cup Mounts
    BY <2>6, <2>8, <2>9
  <2>12. DiskOK(disk, buckets) BY <2>6, <2>10, <2>11 DEF DiskOK
  <2>. QED BY <2>1, <2>2, <2>12
<1>. QED BY <1>1, <1>2 DEF Init

\* The tables before the mounts are in them
LEMMA FirstTables ==
    ASSUME NEW d, d = [node |-> [i \in {1} |-> RootRow], object |-> <<>>]
    PROVE  /\ TablesOK(d) /\ Find(d, Root) # NoId
           /\ \A i \in DOMAIN d.node : d.node[i].path = Root /\ d.node[i].kind = "root"
<1>1. PICK nodes, objects : nodes = [i \in {1} |-> RootRow] /\ objects = <<>>
  OBVIOUS
<1>2. d.node = nodes /\ d.object = objects /\ d = [node |-> d.node, object |-> d.object]
  BY <1>1
<1>3. DOMAIN nodes = {1} /\ nodes[1] = RootRow /\ nodes = [i \in DOMAIN nodes |-> nodes[i]]
  BY <1>1
<1>4. DOMAIN objects = {} /\ objects = [i \in DOMAIN objects |-> objects[i]]
  BY <1>1
<1>5. /\ RootRow.path = Root /\ RootRow.parent = NoId /\ RootRow.kind = "root" /\ RootRow.object = NoId
      /\ RootRow \in Node(AnyPath)
  BY PathLen DEF RootRow, Node, NoId, DirKinds, States
<1>6. Table(nodes, Node(AnyPath)) /\ Table(objects, Object(AnyPath))
  <2>1. IsFiniteSet({1}) /\ IsFiniteSet({}) BY FS_Singleton, FS_EmptySet
  <2>. QED BY <1>3, <1>4, <1>5, <2>1 DEF Table
<1>7. IsTree(d) BY <1>2, <1>3, <1>5 DEF IsTree
<1>8. Locators(d) BY <1>2, <1>3, <1>4, <1>5 DEF Locators
<1>9. TablesOK(d) BY <1>2, <1>3, <1>5, <1>6, <1>7, <1>8 DEF TablesOK
<1>. QED BY <1>2, <1>3, <1>5, <1>9, FindFacts

LEMMA InitTablesOK ==
    ASSUME Init
    PROVE  /\ TablesOK(db) /\ \A i \in DOMAIN db.node : db.node[i].path \in Mounts \cup {Root}
           /\ \A i \in DOMAIN db.node : db.node[i].path \in Mounts => db.node[i].state = "indexed" /\ db.node[i].kind = "mount"
           /\ \A m \in Mounts : Find(db, m) # NoId
           /\ \A i \in DOMAIN db.node : IsControl(db.node[i]) => Len(db.node[i].path) = 1
<1>1. PICK d : d = [node |-> [i \in {1} |-> RootRow], object |-> <<>>] OBVIOUS
<1>2. db = Upsert(d, Mounts, {}) BY <1>1 DEF Init
<1>3. TablesOK(d) /\ Find(d, Root) # NoId /\ \A i \in DOMAIN d.node : d.node[i].path = Root /\ d.node[i].kind = "root"
  BY <1>1, FirstTables
<1>4. /\ Mounts \in SUBSET AnyPath /\ Root \notin Mounts /\ \A m \in Mounts : Parent(m) = Root /\ Len(m) = 1
  BY PathsFacts
<1>5. IsFiniteSet(Mounts) /\ {} \in SUBSET Mounts BY PathsFacts, FS_Subset
<1>6. TablesOK(db) /\ Upserted(d, db, Mounts, {})
  BY <1>2, <1>3, <1>4, <1>5, UpsertOK
<1>7. ASSUME NEW i \in DOMAIN db.node, IsControl(db.node[i]) PROVE Len(db.node[i].path) = 1
  <2>1. CASE db.node[i].path \in Mounts BY <1>4, <2>1
  <2>2. CASE db.node[i].path \notin Mounts
    BY <1>6, <2>2, <1>3, <1>7 DEF Upserted, IsControl
  <2>. QED BY <2>1, <2>2
<1>8. /\ \A i \in DOMAIN db.node : db.node[i].path \in Mounts \cup {Root}
      /\ \A i \in DOMAIN db.node : db.node[i].path \in Mounts => db.node[i].state = "indexed" /\ db.node[i].kind = "mount"
      /\ \A m \in Mounts : Find(db, m) # NoId
  BY <1>3, <1>4, <1>6 DEF Upserted
<1>. QED BY <1>6, <1>7, <1>8

LEMMA InitOK ==
    ASSUME Init
    PROVE  StateOK1
<1>1. BinOK(bin, buckets) BY DEF Init, BinOK
<1>2. req = Idle /\ faults = MaxFaults /\ requests = (IF buckets = {} THEN MaxRequests ELSE MaxBucketRequests)
  BY DEF Init
<1>3. ReqOK(req, bin, disk) BY <1>2, IdleOK
<1>4. faults \in Nat /\ requests \in Nat BY <1>2, FilesAssumption
<1>. QED BY <1>1, <1>3, <1>4, InitDiskOK, InitTablesOK DEF StateOK1

\* What the requests are
LEMMA RequestCases ==
    ASSUME Request
    PROVE  \/ \E p \in Paths :
                \/ Mkdir(p) \/ MkdirInBucket(p)
                \/ Delete(p) \/ DeleteFromBucket(p)
                \/ Trash(p) \/ TrashFails(p) \/ Outside(p)
                \/ \E n \in Names : Rename(p, n) \/ RenameBucket(p, n)
                \/ \E c \in Contents : Upload(p, c) \/ ImportLocalFile(p, c)
                \/ \E t \in Paths \cup Mounts :
                     (Move(p, t) \/ MoveBucket(p, t)) \/ (Copy(p, t) \/ CopyBucket(p, t)) \/ MoveAcross(p, t)
           \/ \E p \in Paths \cup Mounts : Refresh(p)
           \/ \E k \in Slots : Restore(k) \/ RestoreFails(k) \/ Purge(k)
BY DEF Request

LEMMA NextOK ==
    ASSUME StateOK1, [Next]_vars
    PROVE  StateOK1'
<1>1. CASE UNCHANGED vars BY <1>1 DEF vars, StateOK1
<1>2. CASE Request /\ UNCHANGED buckets
  <2>1. ASSUME NEW p \in Paths, NEW n \in Names, Rename(p, n) \/ RenameBucket(p, n) PROVE StateOK1'
    <3>1. PICK new : new = Join(Parent(p), n) OBVIOUS
    <3>. QED BY <1>2, <2>1, <3>1, RenameOK
  <2>2. ASSUME NEW p \in Paths, NEW t \in Paths \cup Mounts,
               (Move(p, t) \/ MoveBucket(p, t)) \/ (Copy(p, t) \/ CopyBucket(p, t)) \/ MoveAcross(p, t)
        PROVE  StateOK1'
    <3>1. PICK new : new = Join(t, Last(p)) OBVIOUS
    <3>. QED BY <1>2, <2>2, <3>1, MoveOK, CopyOK, MoveAcrossOK
  <2>3. ASSUME NEW p \in Paths, NEW c \in Contents, Upload(p, c) \/ ImportLocalFile(p, c) PROVE StateOK1'
    BY <1>2, <2>3, UploadOK, ImportOK
  <2>4. ASSUME NEW p \in Paths,
               \/ Mkdir(p) \/ MkdirInBucket(p)
               \/ Delete(p) \/ DeleteFromBucket(p)
               \/ Trash(p) \/ TrashFails(p) \/ Outside(p)
        PROVE  StateOK1'
    BY <1>2, <2>4, MkdirOK, DeleteOK, TrashOK, TrashFailsOK, OutsideOK
  <2>5. ASSUME NEW p \in Paths \cup Mounts, Refresh(p) PROVE StateOK1'
    BY <1>2, <2>5, RefreshOK
  <2>6. ASSUME NEW k \in Slots, Restore(k) \/ RestoreFails(k) \/ Purge(k) PROVE StateOK1'
    BY <1>2, <2>6, RestoreItemOK, RestoreFailsOK, PurgeOK
  <2>. QED BY <1>2, <2>1, <2>2, <2>3, <2>4, <2>5, <2>6, RequestCases
<1>3. CASE (RecordTrash \/ DropRow \/ Metadata \/ JournalFailure \/ Answer \/ Crash) /\ UNCHANGED buckets
  BY <1>3, RecordTrashOK, DropRowOK, MetadataOK, EndOK
<1>. QED BY <1>1, <1>2, <1>3 DEF Next

LEMMA Invariant1 == Spec => []StateOK1
<1>. QED BY InitOK, NextOK, PTL DEF Spec

-----------------------------------------------------------------------------
(* The tree, and what is downloaded by it *)

\* Whatever fails or dies in the middle, and whatever changes in the storage, the
\* tables have their types and are a tree.
THEOREM TreeIsWellFormed == Spec => []TreeWellFormed
<1>1. ASSUME StateOK1 PROVE TreeWellFormed
  <2>1. DOMAIN disk \subseteq Paths \cup Mounts /\ \A p \in DOMAIN disk : disk[p] \in Contents \cup {"dir", Cut}
    BY <1>1 DEF StateOK1, DiskOK, Content
  <2>2. DOMAIN bin \subseteq Slots BY <1>1 DEF StateOK1, BinOK
  <2>3. (\A i \in DOMAIN db.node : db.node[i] \in Node(AnyPath)) /\ (\A o \in DOMAIN db.object : db.object[o] \in Object(AnyPath))
    BY <1>1 DEF StateOK1, TablesOK, Table
  <2>4. req.pc \in {"idle", "record", "row", "meta", "journal", "ok"}
    BY <1>1 DEF StateOK1, ReqOK
  <2>5. TypeOK BY <1>1, <2>1, <2>2, <2>3, <2>4 DEF StateOK1, TypeOK
  <2>. QED BY <1>1, <2>5 DEF StateOK1, TablesOK, TreeWellFormed
<1>. QED BY <1>1, Invariant1, PTL

\* What a path delivers when a download goes by it
LEMMA OpenFacts ==
    ASSUME StateOK1, NEW path \in Paths
    PROVE  /\ Open(path) \in Errors \/ (Exists(disk, path) /\ disk[path] # "dir" /\ Open(path) = disk[path])
           /\ Exists(disk, path) /\ disk[path] # "dir" => Open(path) = disk[path]
           /\ OnS3(path) => Presign(path) = Open(path)
           /\ ~OnS3(path) => OpenLocal(path) = Open(path)
BY DEF Open, OpenLocal, Presign, Errors, Exists, IsDirectory

\* What a node delivers: the file at its own path, when it delivers one
LEMMA NodeDownload ==
    ASSUME StateOK1, NEW path \in Paths
    PROVE  /\ Find(db, path) = NoId => ResolveVFSObjectDownload(path) = "unmatched"
           /\ Find(db, path) # NoId =>
                \/ ResolveVFSObjectDownload(path) \in {"directory", "notfound"}
                \/ /\ ResolveVFSObjectDownload(path) = Open(path)
                   /\ LocatedAt(db.node[Find(db, path)].object) = path
           /\ Find(db, path) # NoId /\ db.node[Find(db, path)].kind = "file" /\ Available(db, Find(db, path)) =>
                ResolveVFSObjectDownload(path) = Open(path)
<1>1. TablesOK(db) BY DEF StateOK1
<1>2. PICK id : id = Find(db, path) OBVIOUS
<1>3. CASE id = NoId BY <1>2, <1>3 DEF ResolveVFSObjectDownload
<1>4. CASE id # NoId
  <2>1. id \in DOMAIN db.node /\ db.node[id].path = path
    BY <1>1, <1>2, <1>4, FindFacts
  <2>2. PICK o : o = db.node[id].object OBVIOUS
  <2>3. db.node[id].kind \in DirKinds \cup {"file"} /\ "file" \notin DirKinds
    BY <1>1, <2>1, RowFacts DEF DirKinds
  <2>4. CASE db.node[id].kind \in DirKinds
    BY <1>2, <1>4, <2>4, <2>3 DEF ResolveVFSObjectDownload, IsDir
  <2>5. CASE db.node[id].kind = "file"
    <3>0. ~IsDir(db, id) BY <2>3, <2>5 DEF IsDir
    <3>1. o # NoId /\ db.object[o].at = path /\ (Available(db, id) => db.object[o].status = "available")
      BY <1>1, <2>1, <2>2, <2>5, FileFacts DEF Available
    <3>2. LocatedAt(o) = path BY <3>1, SMTT(60) DEF LocatedAt
    <3>3. CASE Available(db, id)
      BY <1>2, <1>4, <2>2, <3>0, <3>1, <3>3, <3>2 DEF ResolveVFSObjectDownload
    <3>4. CASE ~Available(db, id)
      BY <1>2, <1>4, <2>2, <3>0, <3>4 DEF ResolveVFSObjectDownload
    <3>. QED BY <3>3, <3>4
  <2>. QED BY <2>3, <2>4, <2>5
<1>. QED BY <1>3, <1>4

\* A download delivers the file that is at the path and never another one, the links
\* of a file lead to it, and a file that the tree rightly shows can be downloaded.
THEOREM DownloadsAreOwnFile == Spec => []DownloadIsOwnFile
<1>1. ASSUME StateOK1, NEW p \in Paths
      PROVE  /\ Download(p) \in Errors \/ (Exists(disk, p) /\ Download(p) = disk[p])
             /\ \A q \in AccessURL(p) \cup AccessURLByVFSObject(p) : Download(q) = Download(p)
             /\ Find(db, p) # NoId /\ db.node[Find(db, p)].kind = "file" /\ Right(db, Find(db, p)) /\ Exists(disk, p)
                  => Download(p) = disk[p]
  <2>1. /\ Open(p) \in Errors \/ (Exists(disk, p) /\ disk[p] # "dir" /\ Open(p) = disk[p])
        /\ Exists(disk, p) /\ disk[p] # "dir" => Open(p) = disk[p]
        /\ OnS3(p) => Presign(p) = Open(p)
        /\ ~OnS3(p) => OpenLocal(p) = Open(p)
    BY <1>1, OpenFacts
  <2>2. PICK got : got = ResolveVFSObjectDownload(p) OBVIOUS
  <2>3. Download(p) = IF got = "unmatched" THEN Open(p) ELSE got
    BY <2>1, <2>2 DEF Download, ResolveDownload, ResolveDownloadRedirect
  <2>4. /\ Find(db, p) = NoId => got = "unmatched"
        /\ Find(db, p) # NoId =>
             \/ got \in {"directory", "notfound"}
             \/ got = Open(p) /\ LocatedAt(db.node[Find(db, p)].object) = p
        /\ Find(db, p) # NoId /\ db.node[Find(db, p)].kind = "file" /\ Available(db, Find(db, p)) => got = Open(p)
    BY <1>1, <2>2, NodeDownload
  <2>5. Download(p) \in {"directory", "notfound"} \/ Download(p) = Open(p)
    BY <2>3, <2>4
  <2>6. Download(p) \in Errors \/ (Exists(disk, p) /\ Download(p) = disk[p])
    BY <2>1, <2>5 DEF Errors
  <2>7. ASSUME NEW q \in AccessURL(p) \cup AccessURLByVFSObject(p) PROVE Download(q) = Download(p)
    <3>1. CASE q \in AccessURL(p) BY <3>1 DEF AccessURL
    <3>2. CASE q \in AccessURLByVFSObject(p)
      BY <2>2, <3>2, <2>4 DEF AccessURLByVFSObject, Errors
    <3>. QED BY <2>7, <3>1, <3>2
  <2>8. ASSUME Find(db, p) # NoId, db.node[Find(db, p)].kind = "file", Right(db, Find(db, p)), Exists(disk, p)
        PROVE  Download(p) = disk[p]
    <3>1. db.node[Find(db, p)].path = p /\ Find(db, p) \in DOMAIN db.node
      BY <1>1, <2>8, FindFacts DEF StateOK1
    <3>2. Exists(Seen, p) /\ Seen[p] = disk[p]
      BY <1>1, SeenIs, <2>8, ShownFacts DEF StateOK1, Exists
    <3>3. Available(db, Find(db, p)) /\ disk[p] # "dir"
      BY <2>8, <3>1, <3>2 DEF Right
    <3>4. got = Open(p) BY <2>4, <2>8, <3>3
    <3>5. Open(p) = disk[p] BY <2>1, <2>8, <3>3
    <3>. QED BY <2>3, <3>4, <3>5
  <2>. QED BY <2>6, <2>7, <2>8
<1>2. ASSUME StateOK1 PROVE DownloadIsOwnFile
  BY <1>1, <1>2 DEF DownloadIsOwnFile
<1>. QED BY <1>2, Invariant1, PTL

-----------------------------------------------------------------------------
(* Nothing is lost *)

\* Contents that are in the storage, in the trash with a row, or on their way into it
Safe(c, k, bn, r) ==
    \/ \E p \in DOMAIN k : k[p] = c
    \/ \E s \in DOMAIN bn : /\ bn[s].row \/ (r.pc = "record" /\ r.slot = s)
                            /\ \E x \in DOMAIN bn[s].tree : bn[s].tree[x] = c

\* A slot without a row that nobody is writing one for: what it holds is elsewhere too
Loose(s, bn, r) == s \in DOMAIN bn /\ ~bn[s].row /\ ~(r.pc = "record" /\ r.slot = s)

LooseOK(k, bn, r, g) ==
    \A s \in DOMAIN bn : Loose(s, bn, r) =>
        \A x \in DOMAIN bn[s].tree : Safe(bn[s].tree[x], k, bn, r) \/ bn[s].tree[x] \in g

\* A step that loses nothing
KeepsAll ==
    /\ gone \subseteq gone'
    /\ \A c : Safe(c, disk, bin, req) => Safe(c, disk', bin', req') \/ c \in gone'
    /\ \A s \in DOMAIN bin' : Loose(s, bin', req') =>
         \/ Loose(s, bin, req) /\ bin'[s] = bin[s]
         \/ \A x \in DOMAIN bin'[s].tree : Safe(bin'[s].tree[x], disk', bin', req') \/ bin'[s].tree[x] \in gone'

LEMMA KeepDisk ==
    ASSUME bin' = bin, req.pc # "record", req'.pc # "record", gone \subseteq gone',
           \A p \in DOMAIN disk : (\E q \in DOMAIN disk' : disk'[q] = disk[p]) \/ disk[p] \in gone'
    PROVE  KeepsAll
BY DEF KeepsAll, Safe, Loose

LEMMA KeepShrunk ==
    ASSUME NEW path, Shrunk(disk, disk', path), gone' = gone \cup {disk[p] : p \in Below(disk, path)}
    PROVE  /\ gone \subseteq gone'
           /\ \A p \in DOMAIN disk : (\E q \in DOMAIN disk' : disk'[q] = disk[p]) \/ disk[p] \in gone'
BY DEF Shrunk, Below

LEMMA KeepsMkdir ==
    ASSUME StateOK1, UNCHANGED buckets, NEW path \in Paths, Mkdir(path) \/ MkdirInBucket(path)
    PROVE  KeepsAll
<1>1. Added(disk, disk', path, "dir") BY MkdirOK
<1>2. Begin("mkdir", Parent(path), path, <<Step("mkdir", path)>>) /\ UNCHANGED <<bin, gone>>
  BY DEF Mkdir, MkdirInBucket
<1>3. req.pc = "idle" /\ req'.pc = "meta" BY <1>2, BeginIs
<1>4. \A p \in DOMAIN disk : \E q \in DOMAIN disk' : disk'[q] = disk[p]
  BY <1>1 DEF Added
<1>. QED BY <1>2, <1>3, <1>4, KeepDisk

LEMMA KeepsUpload ==
    ASSUME StateOK1, UNCHANGED buckets, NEW path \in Paths, NEW content \in Contents, Upload(path, content)
    PROVE  KeepsAll
<1>1. /\ Added(disk, disk', path, content) /\ UNCHANGED <<bin, gone>>
      /\ Begin("upload", path, path, <<Step("commit", path)>>)
  BY UploadOK
<1>2. req.pc = "idle" /\ req'.pc = "meta" BY <1>1, BeginIs
<1>3. \A p \in DOMAIN disk : \E q \in DOMAIN disk' : disk'[q] = disk[p]
  BY <1>1 DEF Added
<1>. QED BY <1>1, <1>2, <1>3, KeepDisk

LEMMA KeepsImport ==
    ASSUME StateOK1, UNCHANGED buckets, NEW path \in Paths, NEW content \in Contents, ImportLocalFile(path, content)
    PROVE  KeepsAll
<1>1. /\ UNCHANGED bin /\ gone' = gone \cup {disk[p] : p \in {path} \cap DOMAIN disk}
      /\ \E what : Written(disk, disk', path, what)
      /\ Begin("upload", path, path, <<Step("commit", path)>>) \/ (req' = req /\ req.pc = "idle")
  BY ImportOK
<1>2. req.pc = "idle" /\ req'.pc # "record" BY <1>1, BeginIs
<1>3. \A p \in DOMAIN disk : (\E q \in DOMAIN disk' : disk'[q] = disk[p]) \/ disk[p] \in gone'
  BY <1>1 DEF Written
<1>. QED BY <1>1, <1>2, <1>3, KeepDisk

LEMMA KeepsRename ==
    ASSUME StateOK1, UNCHANGED buckets, NEW path \in Paths, NEW name \in Names,
           Rename(path, name) \/ RenameBucket(path, name)
    PROVE  KeepsAll
<1>1. PICK new : new = Join(Parent(path), name) OBVIOUS
<1>2. /\ UNCHANGED <<bin, gone>>
      /\ Relocated(disk, disk', path, new) \/ Moving(disk, disk', path, new)
      /\ Begin("rename", path, new, <<Step("rename", path)>>) \/ (req' = req /\ req.pc = "idle")
  BY <1>1, RenameOK
<1>3. req.pc = "idle" /\ req'.pc # "record" BY <1>2, BeginIs
<1>4. \A p \in DOMAIN disk : \E q \in DOMAIN disk' : disk'[q] = disk[p]
  BY <1>2 DEF Relocated, Moving
<1>. QED BY <1>2, <1>3, <1>4, KeepDisk

LEMMA KeepsMove ==
    ASSUME StateOK1, UNCHANGED buckets, NEW path \in Paths, NEW target \in Paths \cup Mounts,
           Move(path, target) \/ MoveBucket(path, target)
    PROVE  KeepsAll
<1>1. PICK new : new = Join(target, Last(path)) OBVIOUS
<1>2. /\ UNCHANGED bin
      /\ \/ Relocated(disk, disk', path, new) /\ gone' = gone
         \/ disk' = Without(disk, path) /\ gone' = gone \cup {disk[p] : p \in Below(disk, path)}
         \/ Moving(disk, disk', path, new) /\ gone' = gone
      /\ Begin("move", path, new, <<Step("move", path)>>) \/ (req' = req /\ req.pc = "idle")
  BY <1>1, MoveOK
<1>3. req.pc = "idle" /\ req'.pc # "record" BY <1>2, BeginIs
<1>4. /\ gone \subseteq gone'
      /\ \A p \in DOMAIN disk : (\E q \in DOMAIN disk' : disk'[q] = disk[p]) \/ disk[p] \in gone'
  <2>1. CASE disk' = Without(disk, path) /\ gone' = gone \cup {disk[p] : p \in Below(disk, path)}
    BY <2>1, WithoutOK, KeepShrunk DEF StateOK1
  <2>2. CASE (Relocated(disk, disk', path, new) \/ Moving(disk, disk', path, new)) /\ gone' = gone
    BY <2>2 DEF Relocated, Moving
  <2>. QED BY <1>2, <2>1, <2>2
<1>. QED BY <1>2, <1>3, <1>4, KeepDisk

LEMMA KeepsCopy ==
    ASSUME StateOK1, UNCHANGED buckets, NEW path \in Paths, NEW target \in Paths \cup Mounts,
           Copy(path, target) \/ CopyBucket(path, target)
    PROVE  KeepsAll
<1>1. PICK new : new = Join(target, Last(path)) OBVIOUS
<1>2. /\ UNCHANGED <<bin, gone>> /\ Grown(disk, disk', new)
      /\ Begin("copy", path, new, <<Step("refresh", target)>>) \/ (req' = req /\ req.pc = "idle")
  BY <1>1, CopyOK
<1>3. req.pc = "idle" /\ req'.pc # "record" BY <1>2, BeginIs
<1>4. \A p \in DOMAIN disk : \E q \in DOMAIN disk' : disk'[q] = disk[p]
  BY <1>2 DEF Grown
<1>. QED BY <1>2, <1>3, <1>4, KeepDisk

LEMMA KeepsMoveAcross ==
    ASSUME StateOK1, UNCHANGED buckets, NEW path \in Paths, NEW target \in Paths \cup Mounts, MoveAcross(path, target)
    PROVE  KeepsAll
<1>1. PICK new : new = Join(target, Last(path)) OBVIOUS
<1>2. /\ UNCHANGED <<bin, gone>>
      /\ Begin("move", path, new, <<Step("refresh", target), Step("delete", path)>>) \/ (req' = req /\ req.pc = "idle")
      /\ Relocated(disk, disk', path, new) \/ \A p \in DOMAIN disk : \E q \in DOMAIN disk' : disk'[q] = disk[p]
  BY <1>1, MoveAcrossOK
<1>3. req.pc = "idle" /\ req'.pc # "record" BY <1>2, BeginIs
<1>4. \A p \in DOMAIN disk : \E q \in DOMAIN disk' : disk'[q] = disk[p]
  BY <1>2 DEF Relocated
<1>. QED BY <1>2, <1>3, <1>4, KeepDisk

LEMMA KeepsDelete ==
    ASSUME StateOK1, UNCHANGED buckets, NEW path \in Paths, Delete(path) \/ DeleteFromBucket(path)
    PROVE  KeepsAll
<1>1. /\ UNCHANGED bin /\ Shrunk(disk, disk', path) /\ gone' = gone \cup {disk[p] : p \in Below(disk, path)}
      /\ Begin("delete", path, path, <<Step("delete", path)>>) \/ (req' = req /\ req.pc = "idle")
  BY DeleteOK
<1>2. req.pc = "idle" /\ req'.pc # "record" BY <1>1, BeginIs
<1>. QED BY <1>1, <1>2, KeepShrunk, KeepDisk

LEMMA KeepsOutside ==
    ASSUME StateOK1, UNCHANGED buckets, NEW path \in Paths, Outside(path)
    PROVE  KeepsAll
<1>1. /\ UNCHANGED <<bin, req>> /\ req.pc = "idle"
      /\ \/ Shrunk(disk, disk', path) /\ gone' = gone \cup {disk[p] : p \in Below(disk, path)}
         \/ (\E what : Added(disk, disk', path, what)) /\ gone' = gone
  BY OutsideOK
<1>2. /\ gone \subseteq gone'
      /\ \A p \in DOMAIN disk : (\E q \in DOMAIN disk' : disk'[q] = disk[p]) \/ disk[p] \in gone'
  BY <1>1, KeepShrunk DEF Added
<1>. QED BY <1>1, <1>2, KeepDisk

LEMMA KeepsTrash ==
    ASSUME StateOK1, UNCHANGED buckets, NEW path \in Paths, Trash(path)
    PROVE  KeepsAll
<1>1. PICK slot : slot = req'.slot OBVIOUS
<1>2. /\ gone' = gone /\ req.pc = "idle" /\ req'.pc = "record"
      /\ disk' = Without(disk, path)
      /\ slot \notin DOMAIN bin /\ Binned(bin, bin', slot, bin'[slot])
      /\ bin'[slot].tree = Tree(disk, path)
  BY <1>1, TrashOK
<1>3. /\ DOMAIN bin' = DOMAIN bin \cup {slot}
      /\ \A s \in DOMAIN bin : s # slot /\ bin'[s] = bin[s]
  BY <1>2 DEF Binned
<1>4. Shrunk(disk, disk', path) /\ path \in AnyPath /\ DiskOK(disk, buckets)
  BY <1>2, WithoutOK, PathsFacts DEF StateOK1
<1>5. ASSUME NEW p \in DOMAIN disk, p \notin DOMAIN disk'
      PROVE  \E x \in DOMAIN bin'[slot].tree : bin'[slot].tree[x] = disk[p]
  <2>1. IsSubPath(path, p) /\ p \in AnyPath BY <1>4, <1>5, DiskFacts DEF Shrunk
  <2>2. PICK x : x \in AnyPath /\ path \o x = p
    BY <1>4, <2>1, BelowPath, ZenonT(150)
  <2>3. PICK t : t = Tree(disk, path) OBVIOUS
  <2>4. x \in DOMAIN t BY <1>4, <1>5, <2>2, <2>3, TreeFacts
  <2>5. t[x] = disk[p] BY <1>4, <2>2, <2>3, <2>4, TreeFacts, ZenonT(60)
  <2>. QED BY <1>2, <2>3, <2>4, <2>5
<1>6. ASSUME NEW c, Safe(c, disk, bin, req) PROVE Safe(c, disk', bin', req')
  <2>1. CASE \E p \in DOMAIN disk : disk[p] = c
    <3>1. PICK p \in DOMAIN disk : disk[p] = c BY <2>1
    <3>2. CASE p \in DOMAIN disk' BY <1>4, <3>1, <3>2 DEF Shrunk, Safe
    <3>3. CASE p \notin DOMAIN disk'
      BY <1>1, <1>2, <1>3, <1>5, <3>1, <3>3 DEF Safe
    <3>. QED BY <3>2, <3>3
  <2>2. CASE \E s \in DOMAIN bin : bin[s].row /\ \E x \in DOMAIN bin[s].tree : bin[s].tree[x] = c
    <3>1. PICK s \in DOMAIN bin : bin[s].row /\ \E x \in DOMAIN bin[s].tree : bin[s].tree[x] = c
      BY <2>2
    <3>2. s \in DOMAIN bin' /\ bin'[s] = bin[s] BY <1>3, <3>1
    <3>. QED BY <3>1, <3>2 DEF Safe
  <2>. QED BY <1>2, <1>6, <2>1, <2>2 DEF Safe
<1>7. ASSUME NEW s \in DOMAIN bin', Loose(s, bin', req') PROVE Loose(s, bin, req) /\ bin'[s] = bin[s]
  BY <1>1, <1>2, <1>7, <1>3 DEF Loose
<1>. QED BY <1>2, <1>6, <1>7 DEF KeepsAll

LEMMA KeepsTrashFails ==
    ASSUME StateOK1, UNCHANGED buckets, NEW path \in Paths, TrashFails(path)
    PROVE  KeepsAll
<1>1. /\ req' = req /\ req.pc = "idle" /\ Shrunk(disk, disk', path)
      /\ \A k \in DOMAIN bin : k \in DOMAIN bin' /\ bin'[k] = bin[k]
      /\ \A k \in DOMAIN bin' : k \notin DOMAIN bin =>
           \A r \in DOMAIN bin'[k].tree :
                (\E p \in DOMAIN disk' : disk'[p] = bin'[k].tree[r]) \/ bin'[k].tree[r] \in gone'
      /\ gone \subseteq gone'
      /\ \A p \in DOMAIN disk : p \notin DOMAIN disk' => disk[p] \in gone'
  BY TrashFailsOK
<1>2. ASSUME NEW c, Safe(c, disk, bin, req) PROVE Safe(c, disk', bin', req') \/ c \in gone'
  <2>1. CASE \E p \in DOMAIN disk : disk[p] = c BY <1>1, <2>1 DEF Shrunk, Safe
  <2>2. CASE \E s \in DOMAIN bin : bin[s].row /\ \E x \in DOMAIN bin[s].tree : bin[s].tree[x] = c
    BY <1>1, <2>2 DEF Safe
  <2>. QED BY <1>1, <1>2, <2>1, <2>2 DEF Safe
<1>3. ASSUME NEW s \in DOMAIN bin', Loose(s, bin', req')
      PROVE  \/ Loose(s, bin, req) /\ bin'[s] = bin[s]
             \/ \A x \in DOMAIN bin'[s].tree : Safe(bin'[s].tree[x], disk', bin', req') \/ bin'[s].tree[x] \in gone'
  <2>1. CASE s \in DOMAIN bin BY <1>1, <1>3, <2>1 DEF Loose
  <2>2. CASE s \notin DOMAIN bin BY <1>1, <2>2 DEF Safe
  <2>. QED BY <2>1, <2>2
<1>. QED BY <1>1, <1>2, <1>3 DEF KeepsAll

LEMMA KeepsRecordTrash ==
    ASSUME StateOK1, UNCHANGED buckets, RecordTrash
    PROVE  KeepsAll
<1>1. PICK slot : slot = req.slot OBVIOUS
<1>2. /\ gone' = gone /\ req.pc = "record" /\ req'.pc # "record"
      /\ \/ /\ disk' = disk /\ Binned(bin, bin', slot, bin'[slot]) /\ slot \in DOMAIN bin
            /\ bin'[slot].tree = bin[slot].tree /\ bin'[slot].row
         \/ Restored(disk, disk', req.old, bin[slot].tree) /\ Emptied(bin, bin', slot)
  BY <1>1, RecordTrashOK, IdleOK
<1>3. CASE /\ disk' = disk /\ Binned(bin, bin', slot, bin'[slot]) /\ slot \in DOMAIN bin
           /\ bin'[slot].tree = bin[slot].tree /\ bin'[slot].row
  <2>1. DOMAIN bin' = DOMAIN bin /\ \A s \in DOMAIN bin : s # slot => bin'[s] = bin[s]
    BY <1>3 DEF Binned
  <2>2. ASSUME NEW c, Safe(c, disk, bin, req) PROVE Safe(c, disk', bin', req')
    <3>1. CASE \E p \in DOMAIN disk : disk[p] = c BY <1>3, <3>1 DEF Safe
    <3>2. CASE \E s \in DOMAIN bin : (bin[s].row \/ slot = s) /\ \E x \in DOMAIN bin[s].tree : bin[s].tree[x] = c
      <4>1. PICK s \in DOMAIN bin : (bin[s].row \/ slot = s) /\ \E x \in DOMAIN bin[s].tree : bin[s].tree[x] = c
        BY <3>2
      <4>2. s \in DOMAIN bin' /\ bin'[s].tree = bin[s].tree /\ bin'[s].row
        BY <1>3, <2>1, <4>1
      <4>. QED BY <4>1, <4>2 DEF Safe
    <3>. QED BY <1>1, <1>2, <2>2, <3>1, <3>2 DEF Safe
  <2>3. ASSUME NEW s \in DOMAIN bin', Loose(s, bin', req') PROVE Loose(s, bin, req) /\ bin'[s] = bin[s]
    BY <1>1, <1>3, <2>1, <2>3 DEF Loose
  <2>. QED BY <1>2, <2>2, <2>3 DEF KeepsAll
<1>4. CASE Restored(disk, disk', req.old, bin[slot].tree) /\ Emptied(bin, bin', slot)
  <2>1. /\ DOMAIN bin' = DOMAIN bin \ {slot} /\ \A s \in DOMAIN bin' : bin'[s] = bin[s]
        /\ \A p \in DOMAIN disk : p \in DOMAIN disk' /\ disk'[p] = disk[p]
        /\ \A r \in DOMAIN bin[slot].tree : \E p \in DOMAIN disk' : disk'[p] = bin[slot].tree[r]
    BY <1>4 DEF Emptied, Restored
  <2>2. ASSUME NEW c, Safe(c, disk, bin, req) PROVE Safe(c, disk', bin', req')
    <3>1. CASE \E p \in DOMAIN disk : disk[p] = c BY <2>1, <3>1 DEF Safe
    <3>2. CASE \E s \in DOMAIN bin : (bin[s].row \/ slot = s) /\ \E x \in DOMAIN bin[s].tree : bin[s].tree[x] = c
      <4>1. PICK s \in DOMAIN bin : (bin[s].row \/ slot = s) /\ \E x \in DOMAIN bin[s].tree : bin[s].tree[x] = c
        BY <3>2
      <4>2. CASE s = slot BY <2>1, <4>1, <4>2 DEF Safe
      <4>3. CASE s # slot BY <2>1, <4>1, <4>3 DEF Safe
      <4>. QED BY <4>2, <4>3
    <3>. QED BY <1>1, <1>2, <2>2, <3>1, <3>2 DEF Safe
  <2>3. ASSUME NEW s \in DOMAIN bin', Loose(s, bin', req') PROVE Loose(s, bin, req) /\ bin'[s] = bin[s]
    BY <1>1, <2>1, <2>3 DEF Loose
  <2>. QED BY <1>2, <2>2, <2>3 DEF KeepsAll
<1>. QED BY <1>2, <1>3, <1>4

\* A step on one item with a row, after which its contents are somewhere
LEMMA KeepItem ==
    ASSUME NEW k \in DOMAIN bin, Binned(bin, bin', k, bin'[k]), bin[k].row, bin'[k].row, req.pc # "record", req'.pc # "record",
           gone \subseteq gone', \A p \in DOMAIN disk : p \in DOMAIN disk' /\ disk'[p] = disk[p],
           \A r \in DOMAIN bin[k].tree :
             \/ \E p \in DOMAIN disk' : disk'[p] = bin[k].tree[r]
             \/ r \in DOMAIN bin'[k].tree /\ bin'[k].tree[r] = bin[k].tree[r]
             \/ bin[k].tree[r] \in gone'
    PROVE  KeepsAll
<1>1. DOMAIN bin' = DOMAIN bin /\ \A s \in DOMAIN bin : s # k => bin'[s] = bin[s]
  BY DEF Binned
<1>2. ASSUME NEW c, Safe(c, disk, bin, req) PROVE Safe(c, disk', bin', req') \/ c \in gone'
  <2>1. CASE \E p \in DOMAIN disk : disk[p] = c BY <2>1 DEF Safe
  <2>2. CASE \E s \in DOMAIN bin : bin[s].row /\ \E x \in DOMAIN bin[s].tree : bin[s].tree[x] = c
    <3>1. PICK s \in DOMAIN bin : bin[s].row /\ \E x \in DOMAIN bin[s].tree : bin[s].tree[x] = c
      BY <2>2
    <3>2. CASE s = k BY <1>1, <3>1, <3>2 DEF Safe
    <3>3. CASE s # k BY <1>1, <3>3, <3>1 DEF Safe
    <3>. QED BY <3>2, <3>3
  <2>. QED BY <1>2, <2>1, <2>2 DEF Safe
<1>3. ASSUME NEW s \in DOMAIN bin', Loose(s, bin', req') PROVE Loose(s, bin, req) /\ bin'[s] = bin[s]
  BY <1>1, <1>3 DEF Loose
<1>. QED BY <1>2, <1>3 DEF KeepsAll

LEMMA KeepsRestore ==
    ASSUME StateOK1, UNCHANGED buckets, NEW k \in Slots, Restore(k)
    PROVE  KeepsAll
<1>1. /\ gone' = gone /\ req.pc = "idle" /\ k \in DOMAIN bin /\ bin[k].row
      /\ Restored(disk, disk', bin[k].from, bin[k].tree)
      /\ Binned(bin, bin', k, bin'[k]) /\ bin'[k].row
      /\ req' = Idle \/ req'.pc = "row"
  BY RestoreItemOK
<1>2. req'.pc # "record" BY <1>1, IdleOK
<1>3. /\ \A p \in DOMAIN disk : p \in DOMAIN disk' /\ disk'[p] = disk[p]
      /\ \A r \in DOMAIN bin[k].tree : \E p \in DOMAIN disk' : disk'[p] = bin[k].tree[r]
  BY <1>1 DEF Restored
<1>. QED BY <1>1, <1>2, <1>3, KeepItem

LEMMA KeepsRestoreFails ==
    ASSUME StateOK1, UNCHANGED buckets, NEW k \in Slots, RestoreFails(k)
    PROVE  KeepsAll
<1>1. /\ gone' = gone /\ req' = req /\ req.pc = "idle" /\ k \in DOMAIN bin /\ bin[k].row
      /\ \E t : Restored(disk, disk', bin[k].from, t)
      /\ Binned(bin, bin', k, bin'[k]) /\ bin'[k].row
      /\ \A r \in DOMAIN bin[k].tree :
           \/ \E p \in DOMAIN disk' : disk'[p] = bin[k].tree[r]
           \/ r \in DOMAIN bin'[k].tree /\ bin'[k].tree[r] = bin[k].tree[r]
  BY RestoreFailsOK
<1>2. \A p \in DOMAIN disk : p \in DOMAIN disk' /\ disk'[p] = disk[p]
  BY <1>1 DEF Restored
<1>. QED BY <1>1, <1>2, KeepItem

LEMMA KeepsPurge ==
    ASSUME StateOK1, UNCHANGED buckets, NEW k \in Slots, Purge(k)
    PROVE  KeepsAll
<1>1. /\ disk' = disk /\ req.pc = "idle" /\ k \in DOMAIN bin /\ bin[k].row /\ req'.pc = "row"
      /\ Binned(bin, bin', k, bin'[k]) /\ bin'[k].row
      /\ gone' = gone \cup {bin[k].tree[r] : r \in DOMAIN bin[k].tree}
  BY PurgeOK
<1>2. req.pc # "record" /\ req'.pc # "record" BY <1>1
<1>. QED BY <1>1, <1>2, KeepItem

LEMMA KeepsDropRow ==
    ASSUME StateOK1, UNCHANGED buckets, DropRow
    PROVE  KeepsAll
<1>1. PICK slot : slot = req.slot OBVIOUS
<1>2. /\ disk' = disk /\ gone' = gone /\ req.pc = "row" /\ req' = Idle /\ bin[slot].tree = <<>>
      /\ Emptied(bin, bin', slot) \/ bin' = bin
  BY <1>1, DropRowOK
<1>3. req'.pc # "record" BY <1>2, IdleOK
<1>4. CASE bin' = bin BY <1>2, <1>3, <1>4, KeepDisk
<1>5. CASE Emptied(bin, bin', slot)
  <2>1. DOMAIN bin' = DOMAIN bin \ {slot} /\ \A s \in DOMAIN bin' : bin'[s] = bin[s]
    BY <1>5 DEF Emptied
  <2>2. DOMAIN bin[slot].tree = {} BY <1>2
  <2>3. ASSUME NEW c, Safe(c, disk, bin, req) PROVE Safe(c, disk', bin', req')
    BY <1>2, <2>1, <2>2, <2>3 DEF Safe
  <2>4. ASSUME NEW s \in DOMAIN bin', Loose(s, bin', req') PROVE Loose(s, bin, req) /\ bin'[s] = bin[s]
    BY <1>2, <2>1, <2>4 DEF Loose
  <2>. QED BY <1>2, <2>3, <2>4 DEF KeepsAll
<1>. QED BY <1>2, <1>4, <1>5

LEMMA KeepsCrash ==
    ASSUME StateOK1, UNCHANGED buckets, Crash
    PROVE  KeepsAll
<1>1. /\ UNCHANGED <<disk, bin>> /\ req' = Idle /\ gone \subseteq gone'
      /\ req.pc = "record" => gone' = gone \cup {bin[req.slot].tree[r] : r \in DOMAIN bin[req.slot].tree}
  BY DEF Crash
<1>2. req'.pc # "record" BY <1>1, IdleOK
<1>3. CASE req.pc # "record" BY <1>1, <1>2, <1>3, KeepDisk
<1>4. CASE req.pc = "record"
  <2>1. PICK slot : slot = req.slot OBVIOUS
  <2>2. \A r \in DOMAIN bin[slot].tree : bin[slot].tree[r] \in gone'
    BY <1>1, <1>4, <2>1
  <2>3. ASSUME NEW c, Safe(c, disk, bin, req) PROVE Safe(c, disk', bin', req') \/ c \in gone'
    BY <1>1, <2>1, <2>2, <2>3 DEF Safe
  <2>4. ASSUME NEW s \in DOMAIN bin', Loose(s, bin', req')
        PROVE  \/ Loose(s, bin, req) /\ bin'[s] = bin[s]
               \/ \A x \in DOMAIN bin'[s].tree : bin'[s].tree[x] \in gone'
    BY <1>1, <2>1, <2>2, <2>4 DEF Loose
  <2>. QED BY <1>1, <2>3, <2>4 DEF KeepsAll
<1>. QED BY <1>3, <1>4

LEMMA KeepsRest ==
    ASSUME StateOK1, UNCHANGED buckets, Metadata \/ JournalFailure \/ Answer \/ \E p \in Paths \cup Mounts : Refresh(p)
    PROVE  KeepsAll
<1>1. UNCHANGED <<disk, bin, gone>> /\ req.pc # "record" /\ req'.pc # "record"
  <2>1. CASE Metadata BY <2>1, MetadataOK
  <2>2. CASE JournalFailure \/ Answer BY <2>2, IdleOK DEF JournalFailure, Answer
  <2>3. CASE \E p \in Paths \cup Mounts : Refresh(p)
    <3>1. PICK p \in Paths \cup Mounts : Refresh(p) BY <2>3
    <3>2. UNCHANGED <<disk, bin, gone>> /\ Begin("refresh", p, p, <<Step("refresh", p)>>)
      BY <3>1 DEF Refresh
    <3>. QED BY <3>2, BeginIs
  <2>. QED BY <2>1, <2>2, <2>3
<1>. QED BY <1>1, KeepDisk

LEMMA NextKeeps ==
    ASSUME StateOK1, [Next]_vars
    PROVE  KeepsAll
<1>1. CASE UNCHANGED vars BY <1>1 DEF vars, KeepsAll
<1>2. CASE Request /\ UNCHANGED buckets
  BY <1>2, RequestCases, KeepsMkdir, KeepsUpload, KeepsImport, KeepsRename, KeepsMove, KeepsCopy, KeepsMoveAcross,
     KeepsDelete, KeepsOutside, KeepsTrash, KeepsTrashFails, KeepsRestore, KeepsRestoreFails, KeepsPurge, KeepsRest
<1>3. CASE (RecordTrash \/ DropRow \/ Metadata \/ JournalFailure \/ Answer \/ Crash) /\ UNCHANGED buckets
  BY <1>3, KeepsRecordTrash, KeepsDropRow, KeepsCrash, KeepsRest
<1>. QED BY <1>1, <1>2, <1>3 DEF Next

LEMMA Invariant2 == Spec => []LooseOK(disk, bin, req, gone)
<1>1. ASSUME Init PROVE LooseOK(disk, bin, req, gone) BY <1>1 DEF Init, LooseOK
<1>2. ASSUME StateOK1, LooseOK(disk, bin, req, gone), [Next]_vars PROVE LooseOK(disk, bin, req, gone)'
  <2>1. KeepsAll BY <1>2, NextKeeps
  <2>2. ASSUME NEW s \in DOMAIN bin', Loose(s, bin', req'), NEW x \in DOMAIN bin'[s].tree
        PROVE  Safe(bin'[s].tree[x], disk', bin', req') \/ bin'[s].tree[x] \in gone'
    <3>1. CASE Loose(s, bin, req) /\ bin'[s] = bin[s]
      BY <2>2, <3>1, <1>2, <2>1 DEF Loose, LooseOK, KeepsAll
    <3>2. CASE \A y \in DOMAIN bin'[s].tree : Safe(bin'[s].tree[y], disk', bin', req') \/ bin'[s].tree[y] \in gone'
      BY <2>2, <3>2
    <3>. QED BY <2>1, <2>2, <3>1, <3>2 DEF KeepsAll
  <2>. QED BY <2>2 DEF LooseOK
<1>. QED BY <1>1, <1>2, Invariant1, PTL DEF Spec

\* A file stays in the storage, or in the trash with a row to restore it by, until
\* somebody deletes it for good: no failure, crash or interrupted transfer loses one.
THEOREM NothingIsLost == Spec => NothingLost
<1>1. ASSUME StateOK1, LooseOK(disk, bin, req, gone), [Next]_vars,
             NEW c, Kept(c)
      PROVE  Kept(c)' \/ c \in gone'
  <2>1. KeepsAll BY <1>1, NextKeeps
  <2>2. Safe(c, disk, bin, req) \/ c \in gone
    <3>1. CASE \E p \in DOMAIN disk : disk[p] = c BY <3>1 DEF Safe
    <3>2. CASE \E k \in DOMAIN bin : \E r \in DOMAIN bin[k].tree :
                 bin[k].tree[r] = c /\ (bin[k].row \/ req.pc = "record")
      <4>1. PICK k \in DOMAIN bin : \E r \in DOMAIN bin[k].tree : bin[k].tree[r] = c
        BY <3>2
      <4>2. PICK r \in DOMAIN bin[k].tree : bin[k].tree[r] = c BY <4>1
      <4>3. CASE Loose(k, bin, req) BY <1>1, <4>2, <4>3 DEF LooseOK
      <4>4. CASE ~Loose(k, bin, req) BY <4>2, <4>4 DEF Loose, Safe
      <4>. QED BY <4>3, <4>4
    <3>. QED BY <1>1, <3>1, <3>2 DEF Kept
  <2>3. Safe(c, disk', bin', req') \/ c \in gone' BY <2>1, <2>2 DEF KeepsAll
  <2>4. Safe(c, disk', bin', req') => Kept(c)' BY DEF Safe, Kept
  <2>. QED BY <2>3, <2>4
<1>2. ASSUME StateOK1, LooseOK(disk, bin, req, gone), [Next]_vars
      PROVE  \A c \in Contents : Kept(c) => Kept(c)' \/ c \in gone'
  BY <1>1, <1>2
<1>. QED BY <1>2, Invariant1, Invariant2, PTL DEF Spec, NothingLost
-----------------------------------------------------------------------------
(* The tree agrees with the storage, but for what the request that is being    *)
(* served has changed and not told the tree yet.                               *)

\* What the row of a path says, against what is seen in the storage
Tells(s, row, p) ==
    IF p \in DOMAIN s THEN row.state = "indexed" /\ (row.kind = "file" <=> s[p] # "dir")
    ELSE row.state # "indexed"

\* All rows do, but the excused ones, and those of the paths in X
RightBut(d, k, e, X) ==
    \A i \in DOMAIN d.node :
        i \notin e /\ d.node[i].path # Root /\ d.node[i].path \notin X => Tells(Shown(k), d.node[i], d.node[i].path)

Under(p) == {q \in AnyPath : IsSubPath(p, q)}

\* A refresh leaves the rows of mounts alone, which is no harm: no mount is below another.
Controls(d) == \A i \in DOMAIN d.node : IsControl(d.node[i]) => Len(d.node[i].path) = 1

\* What was moved is what the rows say that will be moved after it.
GoAlong(d, k, e, old, new) ==
    \A i \in DOMAIN d.node :
        i \notin e /\ IsSubPath(old, d.node[i].path) => Tells(Shown(k), d.node[i], Rewrite(d.node[i].path, old, new))

MkdirDue(r, d, k, e) ==
    IsMkdir(r) /\ RightBut(d, k, e, {r.new}) /\ r.new \in DOMAIN Shown(k) /\ Shown(k)[r.new] = "dir"
CommitDue(r, d, k, e) ==
    IsCommit(r) /\ RightBut(d, k, e, {r.new}) /\ r.new \in DOMAIN Shown(k) /\ Shown(k)[r.new] # "dir"
MoveDue(r, d, k, e) ==
    /\ IsMove(r) /\ r.old \notin DOMAIN Shown(k)
    /\ IF IsSubPath(r.old, r.new) THEN r.op = "move" /\ RightBut(d, k, e, Under(r.old))
       ELSE /\ RightBut(d, k, e, Under(r.old) \cup {r.new}) /\ r.new \in DOMAIN Shown(k)
            /\ GoAlong(d, k, e, r.old, r.new)
FallbackDue(r, d, k, e) ==
    /\ IsFallback(r) /\ r.old \notin DOMAIN Shown(k)
    /\ IF IsSubPath(r.old, r.new) THEN Find(d, Parent(r.new)) = NoId /\ RightBut(d, k, e, Under(r.old))
       ELSE /\ r.new \in DOMAIN Shown(k)
            /\ \/ RightBut(d, k, e, {r.new})
               \/ Find(d, Parent(r.new)) = NoId /\ RightBut(d, k, e, Under(r.old) \cup {r.new})
SecondDue(r, d, k, e) ==
    IsSecond(r) /\ RightBut(d, k, e, {}) /\ r.old \notin DOMAIN Shown(k) /\ Find(d, r.new) # NoId
CopyDue(r, d, k, e) == IsCopy(r) /\ RightBut(d, k, e, {r.new}) /\ r.new \in DOMAIN Shown(k)
AcrossDue(r, d, k, e) ==
    /\ IsAcross(r) /\ RightBut(d, k, e, Under(r.old) \cup {r.new})
    /\ r.new \in DOMAIN Shown(k) /\ r.old \notin DOMAIN Shown(k)
RemovalDue(r, d, k, e) ==
    IsRemoval(r) /\ RightBut(d, k, e, Under(r.old)) /\ r.old \notin DOMAIN Shown(k) /\ Find(d, r.new) # NoId
DeleteDue(r, d, k, e) == IsDelete(r) /\ RightBut(d, k, e, Under(r.old)) /\ r.old \notin DOMAIN Shown(k)
RefreshDue(r, d, k, e) == IsRefresh(r) /\ RightBut(d, k, e, {})

Due(r, d, k, e) ==
    \/ MkdirDue(r, d, k, e) \/ CommitDue(r, d, k, e) \/ MoveDue(r, d, k, e) \/ FallbackDue(r, d, k, e)
    \/ SecondDue(r, d, k, e) \/ CopyDue(r, d, k, e) \/ AcrossDue(r, d, k, e) \/ RemovalDue(r, d, k, e)
    \/ DeleteDue(r, d, k, e) \/ RefreshDue(r, d, k, e)

\* The storage, if what is in the trash is renamed back
Reinstated(k, path, tree) == Plus(EnsurePath(k, Parent(path)), At(path, tree))

RecordDue(r, d, k, e, bn) ==
    /\ RightBut(d, k, e, Under(r.old)) /\ r.old \notin DOMAIN Shown(k)
    /\ RightBut(d, Reinstated(k, r.old, bn[r.slot].tree), e, {})

JournalDue(r, d, k, e) ==
    /\ RightBut(d, k, e, Under(r.old) \cup Under(r.new))
    /\ r.op = "refresh" => RightBut(d, k, e, {})

\* The listing of a directory shows what it holds.
Listed(d, k, path) ==
    /\ \A i \in Children(d, Find(d, path)) :
         d.node[i].state = "indexed" =>
            /\ d.node[i].path \in Entries(Shown(k), path)
            /\ d.node[i].kind = "file" <=> Shown(k)[d.node[i].path] # "dir"
    /\ \A p \in Entries(Shown(k), path) :
         \E i \in Children(d, Find(d, path)) : d.node[i].path = p /\ d.node[i].state = "indexed"

\* What a request was about is known to the tree.
Finished(r, d, k) ==
    IF r.op = "refresh" THEN Listed(d, k, r.old)
    ELSE \A p \in (IF r.op = "copy" THEN {} ELSE {r.old}) \cup {r.new} :
            p # Root /\ (Find(d, p) = NoId => p \notin DOMAIN Shown(k))

Behind(r, d, k, e, bn) ==
    /\ r.pc \in {"idle", "row", "ok"} => RightBut(d, k, e, {})
    /\ r.pc = "record" => RecordDue(r, d, k, e, bn)
    /\ r.pc = "meta" => Due(r, d, k, e)
    /\ r.pc = "journal" => JournalDue(r, d, k, e)
    /\ r.pc = "ok" => Finished(r, d, k)

StateOK3 == Controls(db) /\ Behind(req, db, disk, excused, bin)

LEMMA TellsAs ==
    ASSUME NEW s, NEW row, NEW row2, NEW p, Tells(s, row, p), row2.state = row.state, row2.kind = row.kind
    PROVE  Tells(s, row2, p)
  BY DEF Tells

LEMMA TellsSame ==
    ASSUME NEW k, NEW k2, NEW p, Same(k, k2, p), NEW row, Tells(Shown(k), row, p)
    PROVE  Tells(Shown(k2), row, p)
  BY DEF Tells, Same

LEMMA RightWeaken ==
    ASSUME NEW d, NEW k, NEW e, NEW X, RightBut(d, k, e, X), NEW e2, NEW X2,
           \A i \in DOMAIN d.node : i \notin e2 /\ d.node[i].path \notin X2 => i \notin e /\ d.node[i].path \notin X
    PROVE  RightBut(d, k, e2, X2)
  BY DEF RightBut

\* The storage changes under the rows that are to be excused.
LEMMA DiskRight ==
    ASSUME NEW d, NEW k, NEW e, NEW X, RightBut(d, k, e, X), NEW k2, NEW e2, NEW X2,
           \A i \in DOMAIN d.node :
             i \notin e2 /\ d.node[i].path # Root /\ d.node[i].path \notin X2 =>
                i \notin e /\ d.node[i].path \notin X /\ Same(k, k2, d.node[i].path)
    PROVE  RightBut(d, k2, e2, X2)
<1>. SUFFICES ASSUME NEW i \in DOMAIN d.node, i \notin e2, d.node[i].path # Root, d.node[i].path \notin X2
              PROVE  Tells(Shown(k2), d.node[i], d.node[i].path)
  BY DEF RightBut
<1>1. Tells(Shown(k), d.node[i], d.node[i].path) BY DEF RightBut
<1>. QED BY <1>1, TellsSame

LEMMA RightTells ==
    ASSUME DiskOK(disk, buckets), NEW d, NEW i
    PROVE  /\ Right(d, i) => Tells(Shown(disk), d.node[i], d.node[i].path)
           /\ Tells(Shown(disk), d.node[i], d.node[i].path) => Right(d, i)
  BY SeenIs DEF Right, Tells, Exists, Available

LEMMA ForgivenRight ==
    ASSUME DiskOK(disk, buckets), NEW step, Forgiven(step), NEW X,
           RightBut(db', disk, excused \cup Unlisted(step), X)
    PROVE  RightBut(db', disk, excused', X)
<1>. SUFFICES ASSUME NEW i \in DOMAIN db'.node, i \notin excused', db'.node[i].path # Root, db'.node[i].path \notin X
              PROVE  Tells(Shown(disk), db'.node[i], db'.node[i].path)
  BY DEF RightBut
<1>1. CASE i \in excused \cup Unlisted(step) BY <1>1, RightTells DEF Forgiven
<1>2. CASE i \notin excused \cup Unlisted(step) BY <1>2 DEF RightBut
<1>. QED BY <1>1, <1>2

-----------------------------------------------------------------------------
(* What the changes of the tables do to it. *)

LEMMA UpsertRight ==
    ASSUME NEW d, NEW e, NEW paths, NEW files, Upserted(d, e, paths, files), NEW k, NEW ex, NEW X,
           RightBut(d, k, ex, X),
           \A p \in paths : p \in DOMAIN Shown(k) /\ (p \in files <=> Shown(k)[p] # "dir")
    PROVE  RightBut(e, k, ex, X \ paths)
<1>. SUFFICES ASSUME NEW i \in DOMAIN e.node, i \notin ex, e.node[i].path # Root, e.node[i].path \notin X \ paths
              PROVE  Tells(Shown(k), e.node[i], e.node[i].path)
  BY DEF RightBut
<1>1. CASE e.node[i].path \in paths BY <1>1 DEF Upserted, Tells
<1>2. CASE e.node[i].path \notin paths BY <1>2 DEF Upserted, RightBut
<1>. QED BY <1>1, <1>2

LEMMA UpsertControls ==
    ASSUME NEW d, NEW e, NEW paths, NEW files, Upserted(d, e, paths, files), Controls(d)
    PROVE  Controls(e)
<1>. SUFFICES ASSUME NEW i \in DOMAIN e.node, IsControl(e.node[i]) PROVE Len(e.node[i].path) = 1
  BY DEF Controls
<1>1. CASE e.node[i].path \in paths BY <1>1 DEF Upserted, IsControl
<1>2. CASE e.node[i].path \notin paths BY <1>2 DEF Upserted, Controls
<1>. QED BY <1>1, <1>2

LEMMA MovedRight ==
    ASSUME NEW d, TablesOK(d), NEW e, NEW old \in AnyPath, NEW new \in AnyPath, Moved(d, e, old, new),
           Find(d, new) = NoId, NEW k, NEW ex, GoAlong(d, k, ex, old, new),
           RightBut(d, k, ex, Under(old) \cup {new})
    PROVE  RightBut(e, k, ex, {})
<1>. SUFFICES ASSUME NEW i \in DOMAIN e.node, i \notin ex, e.node[i].path # Root
              PROVE  Tells(Shown(k), e.node[i], e.node[i].path)
  BY DEF RightBut
<1>1. /\ i \in DOMAIN d.node /\ e.node[i].state = d.node[i].state /\ e.node[i].kind = d.node[i].kind
      /\ IsSubPath(old, d.node[i].path) => e.node[i].path = Rewrite(d.node[i].path, old, new)
      /\ ~IsSubPath(old, d.node[i].path) => e.node[i].path = d.node[i].path
  BY DEF Moved
<1>2. CASE IsSubPath(old, d.node[i].path) BY <1>1, <1>2, TellsAs DEF GoAlong
<1>3. CASE ~IsSubPath(old, d.node[i].path)
  BY <1>1, FindFacts, <1>3, TellsAs DEF RightBut, Under
<1>. QED BY <1>2, <1>3

LEMMA MovedControls ==
    ASSUME NEW d, TablesOK(d), NEW e, NEW old \in Paths, NEW new, Moved(d, e, old, new), Controls(d)
    PROVE  Controls(e)
<1>. SUFFICES ASSUME NEW i \in DOMAIN e.node, IsControl(e.node[i]) PROVE Len(e.node[i].path) = 1
  BY DEF Controls
<1>1. /\ i \in DOMAIN d.node /\ e.node[i].kind = d.node[i].kind
      /\ ~IsSubPath(old, d.node[i].path) => e.node[i].path = d.node[i].path
  BY DEF Moved
<1>2. Len(d.node[i].path) = 1 /\ d.node[i].path \in AnyPath
  BY <1>1, NodeFacts DEF Controls, IsControl
<1>3. old \in AnyPath /\ Len(old) # 1 /\ old # Root BY PathsFacts
<1>4. Len(old) \in Nat /\ Len(old) # 0 BY <1>3, PathLen
<1>5. ~IsSubPath(old, d.node[i].path)
  <2>1. Len(old) > 1
    <3>. PICK n \in Nat : n = Len(old) BY <1>4
    <3>1. n # 0 /\ n # 1 BY <1>3, <1>4
    <3>. QED BY <3>1
  <2>. QED BY <1>2, <1>3, <2>1, SubPathDef
<1>. QED BY <1>1, <1>2, <1>5

LEMMA RemovedRight ==
    ASSUME NEW d, TablesOK(d), NEW e, NEW path, Removed(d, e, path), NEW k, NEW ex, NEW X,
           RightBut(d, k, ex, X), X \subseteq Under(path)
    PROVE  RightBut(e, k, ex, {})
<1>. SUFFICES ASSUME NEW i \in DOMAIN e.node, i \notin ex, e.node[i].path # Root
              PROVE  Tells(Shown(k), e.node[i], e.node[i].path)
  BY DEF RightBut
<1>1. i \in DOMAIN d.node /\ ~IsSubPath(path, d.node[i].path) /\ e.node[i] = d.node[i]
  BY DEF Removed
<1>2. d.node[i].path \notin X BY <1>1 DEF Under
<1>. QED BY <1>1, <1>2 DEF RightBut

LEMMA RemovedControls ==
    ASSUME NEW d, NEW e, NEW path, Removed(d, e, path), Controls(d)
    PROVE  Controls(e)
  BY DEF Removed, Controls

\* What a refresh finds: the directory itself, its entries, and who else is below it.
LEMMA RefreshedParts ==
    ASSUME NEW d, TablesOK(d), Controls(d), NEW k, NEW b, DiskOK(k, b), NEW path \in Paths \cup Mounts,
           NEW id \in DOMAIN d.node, d.node[id].path = path
    PROVE  /\ \A p \in Entries(Shown(k), path) : p \in AnyPath /\ p \in DOMAIN Shown(k) /\ p # Root /\ Parent(p) = path
           /\ \A p \in AnyPath : p # Root /\ Parent(p) = path /\ p \in DOMAIN Shown(k) => p \in Entries(Shown(k), path)
           /\ \A i \in DOMAIN d.node :
                /\ d.node[i].path # Root /\ Parent(d.node[i].path) = path <=> d.node[i].parent = id
                /\ IsControl(d.node[i]) => d.node[i].path \notin Entries(Shown(k), path) /\ d.node[i].parent # id
<1>1. path \in AnyPath /\ path # Root BY PathsFacts
<1>2. ASSUME NEW p \in Entries(Shown(k), path)
      PROVE  p \in AnyPath /\ p \in DOMAIN Shown(k) /\ p # Root /\ Parent(p) = path
  BY ShownFacts DEF Entries
<1>3. ASSUME NEW p \in AnyPath, p # Root, Parent(p) = path, p \in DOMAIN Shown(k)
      PROVE  p \in Entries(Shown(k), path)
  BY <1>3, ShownFacts, PathsFacts DEF Entries
<1>4. ASSUME NEW p \in AnyPath, Len(p) = 1 PROVE Parent(p) # path
  <2>1. Len(p) # 0 BY <1>4
  <2>2. p # Root BY <2>1, PathLen
  <2>3. Len(Parent(p)) = Len(p) - 1 /\ Parent(p) \in AnyPath BY <2>2, ParentPath
  <2>4. Len(Parent(p)) = 0 BY <1>4, <2>3
  <2>. QED BY <1>1, <2>3, <2>4, PathLen
<1>5. ASSUME NEW i \in DOMAIN d.node
      PROVE  d.node[i].path # Root /\ Parent(d.node[i].path) = path <=> d.node[i].parent = id
  <2>1. Find(d, path) = id /\ id # NoId BY NodeFacts
  <2>2. CASE d.node[i].path = Root BY <2>1, <2>2, RootFacts
  <2>3. CASE d.node[i].path # Root BY <2>3, NodeFacts, <2>1
  <2>. QED BY <2>2, <2>3
<1>6. ASSUME NEW i \in DOMAIN d.node, IsControl(d.node[i])
      PROVE  d.node[i].path \notin Entries(Shown(k), path) /\ d.node[i].parent # id
  BY <1>6, NodeFacts, <1>4, <1>2, <1>5 DEF Controls
<1>. QED BY <1>2, <1>3, <1>5, <1>6

LEMMA RefreshedRight ==
    ASSUME NEW d, TablesOK(d), Controls(d), NEW e, NEW k, NEW b, DiskOK(k, b), NEW path \in Paths \cup Mounts,
           NEW id \in DOMAIN d.node, d.node[id].path = path, d.node[id].kind # "file", Applied(d, e, id, Shown(k)),
           NEW ex, NEW X, RightBut(d, k, ex, X),
           id \in ex \/ (path \in DOMAIN Shown(k) /\ Shown(k)[path] = "dir")
    PROVE  RightBut(e, k, ex, {p \in X : Parent(p) # path})
<1>. PICK s : s = Shown(k) OBVIOUS
<1>. PICK entries : entries = Entries(s, path) OBVIOUS
<1>1. /\ \A p \in entries : p \in AnyPath /\ p \in DOMAIN s /\ p # Root /\ Parent(p) = path
      /\ \A p \in AnyPath : p # Root /\ Parent(p) = path /\ p \in DOMAIN s => p \in entries
      /\ \A i \in DOMAIN d.node :
           /\ d.node[i].path # Root /\ Parent(d.node[i].path) = path <=> d.node[i].parent = id
           /\ IsControl(d.node[i]) => d.node[i].path \notin entries /\ d.node[i].parent # id
  BY RefreshedParts, SMTT(60)
<1>2. /\ \A i \in DOMAIN d.node : i \in DOMAIN e.node /\ e.node[i].path = d.node[i].path
      /\ \A i \in DOMAIN e.node : i \in DOMAIN d.node \/ e.node[i].path \in entries
      /\ \A i \in DOMAIN e.node :
           /\ e.node[i].path \in entries
           /\ i \in DOMAIN d.node => ~IsControl(d.node[i])
           => e.node[i].state = "indexed" /\ (e.node[i].kind = "file" <=> s[e.node[i].path] # "dir")
      /\ \A i \in DOMAIN d.node :
           i # id => /\ d.node[i].path \notin entries /\ d.node[i].parent = id /\ ~IsControl(d.node[i])
                          => e.node[i].state = "missing"
                     /\ d.node[i].path \notin entries /\ (d.node[i].parent # id \/ IsControl(d.node[i]))
                          => e.node[i] = d.node[i]
      /\ e.node[id].state = "indexed" /\ e.node[id].kind = d.node[id].kind
  BY DEF Applied
<1>. SUFFICES ASSUME NEW i \in DOMAIN e.node, i \notin ex, e.node[i].path # Root,
                     e.node[i].path \notin {p \in X : Parent(p) # path}
              PROVE  Tells(s, e.node[i], e.node[i].path)
  BY DEF RightBut
<1>3. CASE i = id BY <1>2, <1>3, SMTT(60) DEF Tells
<1>4. CASE i # id /\ e.node[i].path \in entries BY <1>1, <1>2, <1>4 DEF Tells
<1>5. CASE i # id /\ e.node[i].path \notin entries
  <2>1. i \in DOMAIN d.node /\ e.node[i].path = d.node[i].path BY <1>2, <1>5, SMTT(60)
  <2>2. CASE d.node[i].parent = id
    BY <1>1, <1>2, <1>5, <2>1, <2>2, NodeFacts, SMTT(60) DEF Tells
  <2>3. CASE d.node[i].parent # id BY <1>2, <1>5, <2>1, <2>3, <1>1, SMTT(60) DEF RightBut
  <2>. QED BY <2>2, <2>3
<1>. QED BY <1>3, <1>4, <1>5

LEMMA RefreshedControls ==
    ASSUME NEW d, TablesOK(d), Controls(d), NEW e, NEW k, NEW b, DiskOK(k, b), NEW path \in Paths \cup Mounts,
           NEW id \in DOMAIN d.node, d.node[id].path = path, Applied(d, e, id, Shown(k))
    PROVE  Controls(e)
<1>. PICK s : s = Shown(k) OBVIOUS
<1>. PICK entries : entries = Entries(s, path) OBVIOUS
<1>1. \A i \in DOMAIN d.node : IsControl(d.node[i]) => d.node[i].path \notin entries
  BY RefreshedParts
<1>2. /\ \A i \in DOMAIN d.node : i \in DOMAIN e.node /\ e.node[i].path = d.node[i].path
      /\ \A i \in DOMAIN e.node : i \in DOMAIN d.node \/ e.node[i].path \in entries
      /\ \A i \in DOMAIN e.node :
           /\ e.node[i].path \in entries
           /\ i \in DOMAIN d.node => ~IsControl(d.node[i])
           => (IsControl(e.node[i]) => Len(e.node[i].path) = 1)
      /\ \A i \in DOMAIN d.node :
           i # id => /\ d.node[i].path \notin entries /\ d.node[i].parent = id /\ ~IsControl(d.node[i])
                          => e.node[i].kind = d.node[i].kind
                     /\ d.node[i].path \notin entries /\ (d.node[i].parent # id \/ IsControl(d.node[i]))
                          => e.node[i] = d.node[i]
      /\ e.node[id].kind = d.node[id].kind
  BY DEF Applied
<1>. SUFFICES ASSUME NEW i \in DOMAIN e.node, IsControl(e.node[i]) PROVE Len(e.node[i].path) = 1
  BY DEF Controls
<1>3. CASE i \in DOMAIN d.node /\ e.node[i].kind = d.node[i].kind
  BY <1>3, <1>2 DEF IsControl, Controls
<1>4. CASE e.node[i].path \in entries BY <1>1, <1>2, <1>4, SMTT(60)
<1>5. CASE e.node[i].path \notin entries /\ i # id BY <1>2, <1>5, <1>3
<1>. QED BY <1>2, <1>3, <1>4, <1>5

LEMMA RefreshedListed ==
    ASSUME NEW d, TablesOK(d), Controls(d), NEW e, TablesOK(e), NEW k, NEW b, DiskOK(k, b),
           NEW path \in Paths \cup Mounts, NEW id \in DOMAIN d.node, d.node[id].path = path,
           Applied(d, e, id, Shown(k))
    PROVE  Listed(e, k, path)
<1>. PICK s : s = Shown(k) OBVIOUS
<1>. PICK entries : entries = Entries(s, path) OBVIOUS
<1>1. /\ \A p \in entries : p \in AnyPath /\ p \in DOMAIN s /\ p # Root /\ Parent(p) = path
      /\ \A i \in DOMAIN d.node :
           /\ d.node[i].path # Root /\ Parent(d.node[i].path) = path <=> d.node[i].parent = id
           /\ IsControl(d.node[i]) => d.node[i].path \notin entries /\ d.node[i].parent # id
  BY RefreshedParts, SMTT(60)
<1>2. /\ \A i \in DOMAIN d.node : i \in DOMAIN e.node /\ e.node[i].path = d.node[i].path
      /\ \A i \in DOMAIN e.node : i \in DOMAIN d.node \/ e.node[i].path \in entries
      /\ \A p \in entries : Find(e, p) # NoId
      /\ \A i \in DOMAIN e.node :
           /\ e.node[i].path \in entries
           /\ i \in DOMAIN d.node => ~IsControl(d.node[i])
           => e.node[i].state = "indexed" /\ (e.node[i].kind = "file" <=> s[e.node[i].path] # "dir")
      /\ \A i \in DOMAIN d.node :
           i # id => /\ d.node[i].path \notin entries /\ d.node[i].parent = id /\ ~IsControl(d.node[i])
                          => e.node[i].state = "missing"
  BY DEF Applied
<1>3. id \in DOMAIN e.node /\ e.node[id].path = path /\ Find(e, path) = id /\ id # NoId
  BY <1>2, NodeFacts
<1>4. path \in AnyPath /\ path # Root /\ path # Parent(path)
  BY PathsFacts, ParentOrder, SMTT(60)
<1>5. ASSUME NEW i \in DOMAIN e.node, e.node[i].path \in entries
      PROVE  /\ e.node[i].state = "indexed" /\ (e.node[i].kind = "file" <=> s[e.node[i].path] # "dir")
             /\ e.node[i].parent = id
  BY <1>1, <1>2, <1>5, NodeFacts, <1>3, SMTT(60)
<1>6. ASSUME NEW i \in DOMAIN e.node, e.node[i].parent = id, e.node[i].path \notin entries
      PROVE  e.node[i].state # "indexed"
  <2>1. i \in DOMAIN d.node /\ e.node[i].path = d.node[i].path BY <1>2, <1>6
  <2>2. e.node[i].path # Root BY <1>3, <1>6, RootFacts
  <2>3. e.node[e.node[i].parent].path = Parent(e.node[i].path)
    BY <2>2, NodeFacts
  <2>4. Parent(d.node[i].path) = path /\ d.node[i].path # Root
    BY <1>3, <1>6, <2>1, <2>2, <2>3
  <2>5. d.node[i].parent = id /\ i # id BY <1>1, <1>4, <2>1, <2>4
  <2>. QED BY <1>1, <1>2, <1>6, <2>1, <2>5
<1>7. ASSUME NEW i \in Children(e, id), e.node[i].state = "indexed"
      PROVE  e.node[i].path \in entries /\ (e.node[i].kind = "file" <=> s[e.node[i].path] # "dir")
  BY <1>5, <1>6, <1>7 DEF Children
<1>8. ASSUME NEW p \in entries PROVE \E i \in Children(e, id) : e.node[i].path = p /\ e.node[i].state = "indexed"
  <2>1. PICK i \in DOMAIN e.node : e.node[i].path = p BY <1>2, FindFacts
  <2>2. i \in Children(e, id) /\ e.node[i].state = "indexed"
    BY <1>5, <2>1 DEF Children
  <2>. QED BY <2>1, <2>2
<1>. QED BY <1>3, <1>7, <1>8 DEF Listed

\* A directory that cannot be listed is marked: it is not there, or not a directory.
LEMMA UnreadableRight ==
    ASSUME NEW d, TablesOK(d), NEW k, NEW id \in DOMAIN d.node, d.node[id].kind # "file",
           d.node[id].path \in DOMAIN Shown(k) => Shown(k)[d.node[id].path] # "dir",
           NEW e, e = SetState(d, id, "error"), NEW ex, NEW X, RightBut(d, k, ex, X), d.node[id].path \notin X
    PROVE  RightBut(e, k, ex, X) /\ (Controls(d) => Controls(e))
<1>1. /\ DOMAIN e.node = DOMAIN d.node /\ e.node[id].state = "error" /\ e.node[id].kind = d.node[id].kind
      /\ \A i \in DOMAIN d.node : e.node[i].path = d.node[i].path /\ (i # id => e.node[i] = d.node[i])
  BY StateOK DEF States
<1>2. RightBut(e, k, ex, X)
  <2>. SUFFICES ASSUME NEW i \in DOMAIN e.node, i \notin ex, e.node[i].path # Root, e.node[i].path \notin X
                PROVE  Tells(Shown(k), e.node[i], e.node[i].path)
    BY DEF RightBut
  <2>1. i \in DOMAIN d.node /\ e.node[i].path = d.node[i].path BY <1>1
  <2>2. Tells(Shown(k), d.node[i], d.node[i].path) BY <2>1 DEF RightBut
  <2>3. CASE i = id BY <2>2, <2>3, <1>1, <2>1 DEF Tells
  <2>4. CASE i # id BY <1>1, <2>1, <2>2, <2>4
  <2>. QED BY <2>3, <2>4
<1>3. ASSUME Controls(d) PROVE Controls(e)
  <2>. SUFFICES ASSUME NEW i \in DOMAIN e.node, IsControl(e.node[i]) PROVE Len(e.node[i].path) = 1
    BY DEF Controls
  <2>1. i \in DOMAIN d.node /\ e.node[i].path = d.node[i].path /\ e.node[i].kind = d.node[i].kind
    BY <1>1
  <2>2. IsControl(d.node[i]) BY <2>1 DEF IsControl
  <2>. QED BY <1>3, <2>1, <2>2 DEF Controls
<1>. QED BY <1>2, <1>3

-----------------------------------------------------------------------------
(* What the requests do to it. *)

LEMMA IdleBehind ==
    ASSUME NEW r, r.pc \in {"idle", "row"}, NEW d, NEW k, NEW e, NEW bn, RightBut(d, k, e, {})
    PROVE  Behind(r, d, k, e, bn)
  BY DEF Behind

LEMMA MetaBehind ==
    ASSUME NEW r, r.pc = "meta", NEW d, NEW k, NEW e, NEW bn, Due(r, d, k, e)
    PROVE  Behind(r, d, k, e, bn)
  BY DEF Behind

LEMMA BehindFacts ==
    ASSUME StateOK3
    PROVE  /\ Controls(db)
           /\ req.pc \in {"idle", "row", "ok"} => RightBut(db, disk, excused, {})
           /\ req.pc = "record" => RecordDue(req, db, disk, excused, bin)
           /\ req.pc = "meta" => Due(req, db, disk, excused)
           /\ req.pc = "journal" => JournalDue(req, db, disk, excused)
  BY DEF StateOK3, Behind

LEMMA RowPath ==
    ASSUME StateOK1, NEW i \in DOMAIN db.node
    PROVE  db.node[i].path \in AnyPath
  BY NodeFacts DEF StateOK1

LEMMA NotVanished ==
    ASSUME StateOK1, NEW path, NEW i \in DOMAIN db.node, i \notin Vanished(path),
           ~IsSubPath(path, db.node[i].path), db.node[i].path \in DOMAIN Shown(disk)
    PROVE  db.node[i].path \in DOMAIN Shown(disk')
<1>1. Seen = Shown(disk) BY SeenIs DEF StateOK1
<1>. QED BY <1>1 DEF Vanished, Exists

LEMMA NotReturned ==
    ASSUME StateOK1, NEW i \in DOMAIN db.node, i \notin Returned, db.node[i].path \in DOMAIN Shown(disk')
    PROVE  db.node[i].path \in DOMAIN Shown(disk)
<1>1. Seen = Shown(disk) BY SeenIs DEF StateOK1
<1>. QED BY <1>1 DEF Returned, Exists

\* A change at one path
LEMMA OneChanged ==
    ASSUME StateOK1, NEW path, \A p \in AnyPath : p # path => Same(disk, disk', p), RightBut(db, disk, excused, {})
    PROVE  RightBut(db, disk', excused, {path})
<1>1. \A i \in DOMAIN db.node : db.node[i].path # path => Same(disk, disk', db.node[i].path)
  BY RowPath
<1>. QED BY <1>1, DiskRight

\* A removal below a path, with the directories above that had no marker
LEMMA ShrinkRight ==
    ASSUME StateOK1, NEW path \in Paths, NEW e, excused \subseteq e, RightBut(db, disk, excused, {}),
           \A p \in AnyPath : ~IsSubPath(path, p) =>
             \/ Same(disk, disk', p)
             \/ path[1] \in buckets /\ p \in DOMAIN Shown(disk) /\ p \notin DOMAIN Shown(disk'),
           path[1] \in buckets => Vanished(path) \subseteq e
    PROVE  RightBut(db, disk', e, Under(path))
<1>1. ASSUME NEW i \in DOMAIN db.node, i \notin e, db.node[i].path \notin Under(path)
      PROVE  i \notin excused /\ Same(disk, disk', db.node[i].path)
  <2>1. db.node[i].path \in AnyPath /\ ~IsSubPath(path, db.node[i].path)
    BY <1>1, RowPath DEF Under
  <2>2. CASE path[1] \in buckets BY <1>1, <2>2, <2>1, NotVanished
  <2>3. CASE path[1] \notin buckets BY <1>1, <2>1, <2>3
  <2>. QED BY <2>2, <2>3
<1>. QED BY <1>1, DiskRight

LEMMA ExcuseUnder ==
    ASSUME NEW d, TablesOK(d), NEW k, NEW e, NEW a, NEW b, NEW X, X \subseteq Under(a) \cup Under(b), RightBut(d, k, e, X),
           NEW e2, e \subseteq e2, Subtree(d, a) \subseteq e2, Subtree(d, b) \subseteq e2
    PROVE  RightBut(d, k, e2, {})
<1>1. ASSUME NEW i \in DOMAIN d.node, i \notin e2 PROVE i \notin e /\ d.node[i].path \notin X
  BY <1>1 DEF Subtree, Under
<1>. QED BY <1>1, RightWeaken

LEMMA MkdirRight ==
    ASSUME StateOK1, StateOK3, NEW path \in Paths, Mkdir(path) \/ MkdirInBucket(path), UNCHANGED buckets
    PROVE  Behind(req', db', disk', excused', bin') /\ Controls(db')
<1>1. Begin("mkdir", Parent(path), path, <<Step("mkdir", path)>>) /\ UNCHANGED <<db, excused>>
  BY DEF Mkdir, MkdirInBucket
<1>2. /\ req.pc = "idle" /\ req'.pc = "meta" /\ req'.op = "mkdir" /\ req'.old = Parent(path) /\ req'.new = path
      /\ req'.todo = <<Step("mkdir", path)>>
  BY <1>1, BeginIs
<1>3. IsMkdir(req') BY <1>2 DEF IsMkdir
<1>4. Added(disk, disk', path, "dir") BY MkdirOK
<1>5. RightBut(db, disk', excused, {path})
  BY <1>2, <1>4, BehindFacts, OneChanged DEF Added
<1>6. MkdirDue(req', db', disk', excused')
  BY <1>1, <1>2, <1>3, <1>4, <1>5 DEF MkdirDue, Added
<1>7. Behind(req', db', disk', excused', bin') BY <1>2, <1>6, MetaBehind DEF Due
<1>. QED BY <1>1, <1>7, BehindFacts

LEMMA UploadRight ==
    ASSUME StateOK1, StateOK3, NEW path \in Paths, NEW content \in Contents, Upload(path, content), UNCHANGED buckets
    PROVE  Behind(req', db', disk', excused', bin') /\ Controls(db')
<1>1. /\ Begin("upload", path, path, <<Step("commit", path)>>) /\ IsCommit(req') /\ UNCHANGED <<db, excused>>
      /\ Added(disk, disk', path, content)
  BY UploadOK
<1>2. req.pc = "idle" /\ req'.pc = "meta" /\ req'.new = path BY <1>1, BeginIs
<1>3. RightBut(db, disk', excused, {path})
  BY <1>1, <1>2, BehindFacts, OneChanged DEF Added
<1>4. content # "dir" BY FilesAssumption
<1>5. CommitDue(req', db', disk', excused')
  BY <1>1, <1>2, <1>3, <1>4 DEF CommitDue, Added
<1>6. Behind(req', db', disk', excused', bin') BY <1>2, <1>5, MetaBehind DEF Due
<1>. QED BY <1>1, <1>6, BehindFacts

LEMMA ImportRight ==
    ASSUME StateOK1, StateOK3, NEW path \in Paths, NEW content \in Contents, ImportLocalFile(path, content),
           UNCHANGED buckets
    PROVE  Behind(req', db', disk', excused', bin') /\ Controls(db')
<1>1. CASE /\ Written(disk, disk', path, content) /\ excused' = excused
           /\ Begin("upload", path, path, <<Step("commit", path)>>) /\ IsCommit(req')
  <2>1. req.pc = "idle" /\ req'.pc = "meta" /\ req'.new = path BY <1>1, BeginIs
  <2>2. RightBut(db, disk', excused, {path})
    BY <1>1, <2>1, BehindFacts, OneChanged DEF Written
  <2>3. content # "dir" /\ db' = db BY FilesAssumption, ImportOK
  <2>4. CommitDue(req', db', disk', excused')
    BY <1>1, <2>1, <2>2, <2>3 DEF CommitDue, Written
  <2>5. Behind(req', db', disk', excused', bin')
    BY <2>1, <2>4, MetaBehind DEF Due
  <2>. QED BY <2>3, <2>5, BehindFacts
<1>2. CASE Written(disk, disk', path, Cut) /\ req' = req /\ req.pc = "idle" /\ excused' = excused \cup Subtree(db, path)
  <2>1. RightBut(db, disk', excused, {path})
    BY <1>2, BehindFacts, OneChanged DEF Written
  <2>2. path \in Under(path) BY PathsFacts, SubPathOrder DEF Under
  <2>3. RightBut(db, disk', excused', {})
    BY <1>2, <2>1, <2>2, ExcuseUnder DEF StateOK1
  <2>4. db' = db BY ImportOK
  <2>. QED BY <1>2, <2>3, <2>4, IdleBehind, BehindFacts
<1>. QED BY <1>1, <1>2, ImportOK

LEMMA RefreshRight ==
    ASSUME StateOK1, StateOK3, NEW path \in Paths \cup Mounts, Refresh(path), UNCHANGED buckets
    PROVE  Behind(req', db', disk', excused', bin') /\ Controls(db')
<1>1. /\ Begin("refresh", path, path, <<Step("refresh", path)>>) /\ IsRefresh(req')
      /\ UNCHANGED <<disk, db, excused>>
  BY RefreshOK
<1>2. req.pc = "idle" /\ req'.pc = "meta" BY <1>1, BeginIs
<1>3. RefreshDue(req', db', disk', excused')
  BY <1>1, <1>2, BehindFacts DEF RefreshDue
<1>4. Behind(req', db', disk', excused', bin') BY <1>2, <1>3, MetaBehind DEF Due
<1>. QED BY <1>1, <1>4, BehindFacts

LEMMA OutsideRight ==
    ASSUME StateOK1, StateOK3, NEW path \in Paths, Outside(path), UNCHANGED buckets
    PROVE  Behind(req', db', disk', excused', bin') /\ Controls(db')
<1>1. req' = req /\ req.pc = "idle" /\ db' = db /\ excused' = excused \cup Subtree(db, path) \cup Vanished(path)
  BY OutsideOK
<1>2. TablesOK(db) /\ path \in AnyPath /\ RightBut(db, disk, excused, {})
  BY <1>1, BehindFacts, PathsFacts DEF StateOK1
<1>3. RightBut(db, disk', excused', {})
  <2>1. CASE /\ Shrunk(disk, disk', path)
             /\ \A p \in AnyPath : ~IsSubPath(path, p) =>
                  \/ Same(disk, disk', p)
                  \/ path[1] \in buckets /\ p \in DOMAIN Shown(disk) /\ p \notin DOMAIN Shown(disk')
    BY <1>2, <2>1, ShrinkRight, <1>1, ExcuseUnder
  <2>2. CASE \E what \in {"dir", Cut} : Added(disk, disk', path, what)
    <3>1. \A p \in AnyPath : p # path => Same(disk, disk', p) BY <2>2 DEF Added
    <3>2. RightBut(db, disk', excused, {path}) /\ path \in Under(path)
      BY <1>2, <3>1, OneChanged, SubPathOrder DEF Under
    <3>. QED BY <1>1, <1>2, <3>2, ExcuseUnder
  <2>. QED BY <2>1, <2>2, OutsideOK
<1>. QED BY <1>1, <1>3, IdleBehind, BehindFacts

\* Where a tree has gone, the rows that will go after it are right there.
LEMMA GoAlongFrom ==
    ASSUME StateOK1, NEW path \in Paths, NEW new \in AnyPath, Relocated(disk, disk', path, new),
           RightBut(db, disk, excused, {}), NEW e, excused \subseteq e
    PROVE  GoAlong(db, disk', e, path, new)
<1>. SUFFICES ASSUME NEW i \in DOMAIN db.node, i \notin e, IsSubPath(path, db.node[i].path)
              PROVE  Tells(Shown(disk'), db.node[i], Rewrite(db.node[i].path, path, new))
  BY DEF GoAlong
<1>1. path \in AnyPath /\ path # Root /\ db.node[i].path \in AnyPath
  BY PathsFacts, RowPath
<1>2. PICK r \in AnyPath : db.node[i].path = path \o r
  <2>. PICK p \in AnyPath : p = db.node[i].path BY <1>1
  <2>. PICK q \in AnyPath : q = path BY <1>1
  <2>1. q \o Inner(q, p) = p /\ Inner(q, p) \in AnyPath BY BelowPath
  <2>. QED BY <2>1
<1>3. Rewrite(db.node[i].path, path, new) = new \o r
  <2>1. Rewrite(path \o r, path, new) = new \o r
    <3>. PICK old \in AnyPath : old = path BY <1>1
    <3>1. \A q \in AnyPath : Rewrite(old \o q, old, new) = new \o q
      BY BelowPath DEF Rewrite
    <3>. QED BY <3>1
  <2>. QED BY <1>2, <2>1
<1>4. db.node[i].path # Root BY <1>1, PrefixIs
<1>5. Tells(Shown(disk), db.node[i], path \o r) BY <1>2, <1>4 DEF RightBut
<1>6. /\ new \o r \in DOMAIN Shown(disk') <=> path \o r \in DOMAIN Shown(disk)
      /\ new \o r \in DOMAIN Shown(disk') => (Shown(disk')[new \o r] = "dir" <=> Shown(disk)[path \o r] = "dir")
  BY DEF Relocated
<1>7. Tells(Shown(disk'), db.node[i], new \o r) BY <1>5, <1>6 DEF Tells
<1>. QED BY <1>3, <1>7

\* ... and the others are right where they were.
LEMMA RelocateRight ==
    ASSUME StateOK1, NEW path \in Paths, NEW new \in AnyPath, NEW e, excused \cup Leftover(new) \subseteq e,
           RightBut(db, disk, excused, {}),
           \A i \in DOMAIN db.node : i \notin e /\ ~IsSubPath(path, db.node[i].path) /\ ~IsSubPath(new, db.node[i].path)
              => Same(disk, disk', db.node[i].path)
    PROVE  RightBut(db, disk', e, Under(path) \cup {new})
<1>1. ASSUME NEW i \in DOMAIN db.node, i \notin e, db.node[i].path \notin Under(path) \cup {new}
      PROVE  i \notin excused /\ Same(disk, disk', db.node[i].path)
  BY <1>1, RowPath DEF Under, Leftover, Subtree
<1>. QED BY <1>1, DiskRight

LEMMA RelocatedEnds ==
    ASSUME StateOK1, StateOK1', NEW path \in Paths, NEW new \in AnyPath, path \in DOMAIN Shown(disk),
           Relocated(disk, disk', path, new)
    PROVE  new \in DOMAIN Shown(disk') /\ path \notin DOMAIN Shown(disk')
<1>1. path \in AnyPath /\ Root \in AnyPath /\ path \o Root = path /\ new \o Root = new /\ IsSubPath(path, path)
  BY PathsFacts, PathLen, BelowPath, SubPathOrder
<1>. QED BY <1>1 DEF Relocated

\* A failure on the way: the rows of both places are excused.
LEMMA MovingRight ==
    ASSUME StateOK1, NEW path \in Paths, NEW new \in AnyPath, RightBut(db, disk, excused, {}), NEW e,
           excused \cup Subtree(db, path) \cup Subtree(db, new) \subseteq e,
           \A i \in DOMAIN db.node : i \notin e /\ ~IsSubPath(path, db.node[i].path) /\ ~IsSubPath(new, db.node[i].path)
              => Same(disk, disk', db.node[i].path)
    PROVE  RightBut(db, disk', e, {})
<1>1. ASSUME NEW i \in DOMAIN db.node, i \notin e
      PROVE  i \notin excused /\ Same(disk, disk', db.node[i].path)
  BY <1>1 DEF Subtree
<1>. QED BY <1>1, DiskRight

LEMMA RenameRight ==
    ASSUME StateOK1, StateOK3, NEW path \in Paths, NEW name \in Names,
           Rename(path, name) \/ RenameBucket(path, name), UNCHANGED buckets
    PROVE  Behind(req', db', disk', excused', bin') /\ Controls(db')
<1>. PICK new : new = Join(Parent(path), name) OBVIOUS
<1>1. /\ path \in AnyPath /\ path # Root /\ new \in AnyPath /\ Parent(new) = Parent(path) /\ Parent(path) \in AnyPath
      /\ IsSubPath(Parent(path), new)
  BY SiblingFacts, ParentOrder
<1>2. \A p \in AnyPath : IsSubPath(p, path) /\ ~IsSubPath(p, new) => p = path
  BY <1>1, ParentOrder, SubPathOrder
<1>3. CASE /\ Begin("rename", path, new, <<Step("rename", path)>>) /\ IsMove(req')
           /\ Relocated(disk, disk', path, new) /\ path \in DOMAIN Shown(disk)
           /\ ~IsSubPath(path, new)
           /\ excused' = excused \cup Leftover(new)
           /\ UNCHANGED <<db>>
  <2>1. req.pc = "idle" /\ req'.pc = "meta" /\ req'.op = "rename" /\ req'.old = path /\ req'.new = new
    BY <1>3, BeginIs
  <2>2. RightBut(db, disk, excused, {}) /\ Controls(db) BY <2>1, BehindFacts
  <2>3. ASSUME NEW i \in DOMAIN db.node, ~IsSubPath(path, db.node[i].path), ~IsSubPath(new, db.node[i].path)
        PROVE  Same(disk, disk', db.node[i].path)
    BY <1>1, <2>3, RowPath, SubPathOrder, <1>2, <1>3 DEF Relocated
  <2>4. RightBut(db, disk', excused', Under(path) \cup {new})
    BY <1>1, <1>3, <2>2, <2>3, RelocateRight
  <2>5. GoAlong(db, disk', excused', path, new) BY <1>1, <1>3, <2>2, GoAlongFrom
  <2>6. new \in DOMAIN Shown(disk') /\ path \notin DOMAIN Shown(disk')
    BY <1>1, <1>3, RelocatedEnds, RenameOK
  <2>7. MoveDue(req', db', disk', excused')
    BY <1>3, <2>1, <2>4, <2>5, <2>6 DEF MoveDue
  <2>8. Behind(req', db', disk', excused', bin')
    BY <2>1, <2>7, MetaBehind DEF Due
  <2>. QED BY <1>3, <2>2, <2>8
<1>4. CASE /\ req' = req /\ req.pc = "idle" /\ Moving(disk, disk', path, new)
           /\ excused' = excused \cup Subtree(db, path) \cup Subtree(db, new)
           /\ UNCHANGED <<db>>
  <2>1. RightBut(db, disk, excused, {}) /\ Controls(db) BY <1>4, BehindFacts
  <2>2. ASSUME NEW i \in DOMAIN db.node, ~IsSubPath(path, db.node[i].path), ~IsSubPath(new, db.node[i].path)
        PROVE  Same(disk, disk', db.node[i].path)
    BY <1>1, <2>2, RowPath, SubPathOrder, <1>2, <1>4 DEF Moving
  <2>3. RightBut(db, disk', excused', {}) BY <1>1, <1>4, <2>1, <2>2, MovingRight
  <2>. QED BY <1>4, <2>1, <2>3, IdleBehind
<1>. QED BY <1>3, <1>4, RenameOK

LEMMA MoveRight ==
    ASSUME StateOK1, StateOK3, NEW path \in Paths, NEW target \in Paths \cup Mounts,
           Move(path, target) \/ MoveBucket(path, target), UNCHANGED buckets
    PROVE  Behind(req', db', disk', excused', bin') /\ Controls(db')
<1>. PICK new : new = Join(target, Last(path)) OBVIOUS
<1>1. path \in AnyPath /\ path # Root /\ new \in AnyPath /\ IsSubPath(path, path)
  BY TargetFacts, SubPathOrder
<1>2. CASE /\ Begin("move", path, new, <<Step("move", path)>>) /\ IsMove(req')
           /\ path \in DOMAIN Shown(disk)
           /\ ~IsSubPath(path, new) => Relocated(disk, disk', path, new)
           /\ IsSubPath(path, new) => path[1] \in buckets /\ disk' = Without(disk, path)
           /\ excused \cup Leftover(new) \subseteq excused'
           /\ path[1] \in buckets => excused' = excused \cup Leftover(new) \cup Vanished(path)
           /\ path[1] \notin buckets => \A p \in AnyPath : ~IsSubPath(path, p) /\ ~IsSubPath(new, p) => Same(disk, disk', p)
           /\ UNCHANGED <<db>>
  <2>1. req.pc = "idle" /\ req'.pc = "meta" /\ req'.op = "move" /\ req'.old = path /\ req'.new = new
    BY <1>2, BeginIs
  <2>2. RightBut(db, disk, excused, {}) /\ Controls(db) BY <2>1, BehindFacts
  <2>3. ASSUME ~IsSubPath(path, new) PROVE MoveDue(req', db', disk', excused')
    <3>1. Relocated(disk, disk', path, new) BY <1>2, <2>3
    <3>2. ASSUME NEW i \in DOMAIN db.node, i \notin excused', ~IsSubPath(path, db.node[i].path),
                 ~IsSubPath(new, db.node[i].path)
          PROVE  Same(disk, disk', db.node[i].path)
      <4>1. db.node[i].path \in AnyPath BY RowPath
      <4>2. CASE path[1] \notin buckets BY <1>2, <3>2, <4>1, <4>2
      <4>3. CASE path[1] \in buckets
        BY <1>2, <3>2, <4>3, NotVanished, <3>1, <4>1 DEF Relocated
      <4>. QED BY <4>2, <4>3
    <3>3. RightBut(db, disk', excused', Under(path) \cup {new})
      BY <1>1, <1>2, <2>2, <3>2, RelocateRight
    <3>4. GoAlong(db, disk', excused', path, new)
      BY <1>1, <1>2, <2>2, <3>1, GoAlongFrom
    <3>5. new \in DOMAIN Shown(disk') /\ path \notin DOMAIN Shown(disk')
      BY <1>1, <1>2, <3>1, RelocatedEnds, MoveOK
    <3>. QED BY <1>2, <2>1, <2>3, <3>3, <3>4, <3>5 DEF MoveDue
  <2>4. ASSUME IsSubPath(path, new) PROVE MoveDue(req', db', disk', excused')
    <3>1. path[1] \in buckets /\ disk' = Without(disk, path) BY <1>2, <2>4
    <3>2. /\ \A p \in AnyPath : ~IsSubPath(path, p) =>
                \/ Same(disk, disk', p)
                \/ path[1] \in buckets /\ p \in DOMAIN Shown(disk) /\ p \notin DOMAIN Shown(disk')
          /\ path \notin DOMAIN Shown(disk')
      BY <1>1, <3>1, WithoutOK, ShrinkOK DEF StateOK1
    <3>3. excused \subseteq excused' /\ Vanished(path) \subseteq excused'
      BY <1>2, <3>1
    <3>4. RightBut(db, disk', excused', Under(path))
      BY <2>2, <3>2, <3>3, ShrinkRight
    <3>. QED BY <1>2, <2>1, <2>4, <3>2, <3>4 DEF MoveDue
  <2>5. MoveDue(req', db', disk', excused') BY <2>3, <2>4
  <2>6. Behind(req', db', disk', excused', bin')
    BY <2>1, <2>5, MetaBehind DEF Due
  <2>. QED BY <1>2, <2>2, <2>6
<1>3. CASE /\ req' = req /\ req.pc = "idle" /\ Moving(disk, disk', path, new)
           /\ excused' = excused \cup Subtree(db, path) \cup Subtree(db, new) \cup Vanished(path)
           /\ UNCHANGED <<db>>
  <2>1. RightBut(db, disk, excused, {}) /\ Controls(db) BY <1>3, BehindFacts
  <2>2. ASSUME NEW i \in DOMAIN db.node, i \notin excused', ~IsSubPath(path, db.node[i].path),
               ~IsSubPath(new, db.node[i].path)
        PROVE  Same(disk, disk', db.node[i].path)
    BY RowPath, <1>3, <2>2, NotVanished DEF Moving
  <2>3. RightBut(db, disk', excused', {}) BY <1>1, <1>3, <2>1, <2>2, MovingRight
  <2>. QED BY <1>3, <2>1, <2>3, IdleBehind
<1>. QED BY <1>2, <1>3, MoveOK

LEMMA CopyRight ==
    ASSUME StateOK1, StateOK3, NEW path \in Paths, NEW target \in Paths \cup Mounts,
           Copy(path, target) \/ CopyBucket(path, target), UNCHANGED buckets
    PROVE  Behind(req', db', disk', excused', bin') /\ Controls(db')
<1>. PICK new : new = Join(target, Last(path)) OBVIOUS
<1>1. path \in AnyPath /\ new \in AnyPath BY TargetFacts
<1>2. Grown(disk, disk', new) /\ db' = db BY CopyOK
<1>3. \A i \in DOMAIN db.node : ~IsSubPath(new, db.node[i].path) => Same(disk, disk', db.node[i].path)
  BY <1>2, RowPath DEF Grown
<1>4. CASE /\ Begin("copy", path, new, <<Step("refresh", target)>>) /\ IsCopy(req')
           /\ new \in DOMAIN Shown(disk')
           /\ excused' = excused \cup Leftover(new)
  <2>1. req.pc = "idle" /\ req'.pc = "meta" /\ req'.new = new BY <1>4, BeginIs
  <2>2. RightBut(db, disk, excused, {}) /\ Controls(db) BY <2>1, BehindFacts
  <2>3. ASSUME NEW i \in DOMAIN db.node, i \notin excused', db.node[i].path \notin {new}
        PROVE  i \notin excused /\ Same(disk, disk', db.node[i].path)
    BY <1>4, <2>3, <1>3 DEF Leftover, Subtree
  <2>4. RightBut(db, disk', excused', {new}) BY <2>2, <2>3, DiskRight
  <2>5. CopyDue(req', db', disk', excused')
    BY <1>2, <1>4, <2>1, <2>4 DEF CopyDue
  <2>6. Behind(req', db', disk', excused', bin')
    BY <2>1, <2>5, MetaBehind DEF Due
  <2>. QED BY <1>2, <2>2, <2>6
<1>5. CASE req' = req /\ req.pc = "idle" /\ excused' = excused \cup Subtree(db, new)
  <2>1. RightBut(db, disk, excused, {}) /\ Controls(db) BY <1>5, BehindFacts
  <2>2. ASSUME NEW i \in DOMAIN db.node, i \notin excused'
        PROVE  i \notin excused /\ Same(disk, disk', db.node[i].path)
    BY <1>3, <1>5, <2>2 DEF Subtree
  <2>3. RightBut(db, disk', excused', {}) BY <2>1, <2>2, DiskRight
  <2>. QED BY <1>2, <1>5, <2>1, <2>3, IdleBehind
<1>. QED BY <1>4, <1>5, CopyOK

LEMMA MoveAcrossRight ==
    ASSUME StateOK1, StateOK3, NEW path \in Paths, NEW target \in Paths \cup Mounts, MoveAcross(path, target),
           UNCHANGED buckets
    PROVE  Behind(req', db', disk', excused', bin') /\ Controls(db')
<1>. PICK new : new = Join(target, Last(path)) OBVIOUS
<1>1. path \in AnyPath /\ new \in AnyPath /\ db' = db
  BY TargetFacts, MoveAcrossOK
<1>2. CASE /\ Begin("move", path, new, <<Step("refresh", target), Step("delete", path)>>) /\ IsAcross(req')
           /\ Relocated(disk, disk', path, new) /\ path \in DOMAIN Shown(disk)
           /\ \A p \in AnyPath : ~IsSubPath(path, p) /\ ~IsSubPath(new, p) => Same(disk, disk', p)
           /\ excused' = excused \cup Leftover(new)
  <2>1. req.pc = "idle" /\ req'.pc = "meta" /\ req'.old = path /\ req'.new = new
    BY <1>2, BeginIs
  <2>2. RightBut(db, disk, excused, {}) /\ Controls(db) BY <2>1, BehindFacts
  <2>3. RightBut(db, disk', excused', Under(path) \cup {new})
    BY <1>1, <1>2, <2>2, RowPath, RelocateRight
  <2>4. new \in DOMAIN Shown(disk') /\ path \notin DOMAIN Shown(disk')
    BY <1>1, <1>2, RelocatedEnds, MoveAcrossOK
  <2>5. AcrossDue(req', db', disk', excused')
    BY <1>1, <1>2, <2>1, <2>3, <2>4 DEF AcrossDue
  <2>6. Behind(req', db', disk', excused', bin')
    BY <2>1, <2>5, MetaBehind DEF Due
  <2>. QED BY <1>1, <2>2, <2>6
<1>3. CASE /\ req' = req /\ req.pc = "idle"
           /\ \A p \in AnyPath : ~IsSubPath(new, p) => Same(disk, disk', p)
           /\ excused' = excused \cup Subtree(db, new)
  <2>1. RightBut(db, disk, excused, {}) /\ Controls(db) BY <1>3, BehindFacts
  <2>2. ASSUME NEW i \in DOMAIN db.node, i \notin excused'
        PROVE  i \notin excused /\ Same(disk, disk', db.node[i].path)
    BY <1>3, <2>2, RowPath DEF Subtree
  <2>3. RightBut(db, disk', excused', {}) BY <2>1, <2>2, DiskRight
  <2>. QED BY <1>1, <1>3, <2>1, <2>3, IdleBehind
<1>4. CASE /\ req' = req /\ req.pc = "idle"
           /\ \A p \in AnyPath : ~IsSubPath(path, p) /\ ~IsSubPath(new, p) => Same(disk, disk', p)
           /\ excused' = excused \cup Subtree(db, path) \cup Subtree(db, new)
  BY <1>4, BehindFacts, <1>1, RowPath, MovingRight, IdleBehind
<1>. QED BY <1>2, <1>3, <1>4, MoveAcrossOK, ZenonT(60)

LEMMA DeleteRight ==
    ASSUME StateOK1, StateOK3, NEW path \in Paths, Delete(path) \/ DeleteFromBucket(path), UNCHANGED buckets
    PROVE  Behind(req', db', disk', excused', bin') /\ Controls(db')
<1>1. /\ db' = db /\ path \in AnyPath /\ IsSubPath(path, path)
      /\ \A p \in AnyPath : ~IsSubPath(path, p) =>
           \/ Same(disk, disk', p)
           \/ path[1] \in buckets /\ p \in DOMAIN Shown(disk) /\ p \notin DOMAIN Shown(disk')
  BY DeleteOK, PathsFacts, SubPathOrder
<1>2. CASE /\ Begin("delete", path, path, <<Step("delete", path)>>) /\ IsDelete(req')
           /\ \A p \in AnyPath : IsSubPath(path, p) => p \notin DOMAIN Shown(disk')
           /\ excused \subseteq excused' /\ (path[1] \in buckets => excused' = excused \cup Vanished(path))
  <2>1. req.pc = "idle" /\ req'.pc = "meta" /\ req'.old = path BY <1>2, BeginIs
  <2>2. RightBut(db, disk, excused, {}) /\ Controls(db) BY <2>1, BehindFacts
  <2>3. RightBut(db, disk', excused', Under(path))
    BY <1>1, <1>2, <2>2, ShrinkRight
  <2>4. DeleteDue(req', db', disk', excused')
    BY <1>1, <1>2, <2>1, <2>3 DEF DeleteDue
  <2>5. Behind(req', db', disk', excused', bin')
    BY <2>1, <2>4, MetaBehind DEF Due
  <2>. QED BY <1>1, <2>2, <2>5
<1>3. CASE /\ req' = req /\ req.pc = "idle"
           /\ excused \cup Subtree(db, path) \subseteq excused'
           /\ path[1] \in buckets => excused' = excused \cup Subtree(db, path) \cup Vanished(path)
  BY <1>3, BehindFacts, <1>1, ShrinkRight, ExcuseUnder, IdleBehind DEF StateOK1
<1>. QED BY <1>2, <1>3, DeleteOK

LEMMA TrashRight ==
    ASSUME StateOK1, StateOK3, NEW path \in Paths, Trash(path), UNCHANGED buckets
    PROVE  Behind(req', db', disk', excused', bin') /\ Controls(db')
<1>1. /\ db' = db /\ req.pc = "idle" /\ disk' = Without(disk, path) /\ path \in DOMAIN Shown(disk)
      /\ req'.pc = "record" /\ req'.old = path /\ bin'[req'.slot].tree = Tree(disk, path)
      /\ path[1] \in buckets => excused' = excused \cup Vanished(path)
      /\ path[1] \notin buckets => excused' = excused
  BY TrashOK
<1>2. RightBut(db, disk, excused, {}) /\ Controls(db) /\ DiskOK(disk, buckets)
  BY <1>1, BehindFacts DEF StateOK1
<1>3. excused \subseteq excused' /\ (path[1] \in buckets => Vanished(path) \subseteq excused')
  BY <1>1
<1>4. path \in AnyPath /\ IsSubPath(path, path) BY PathsFacts, SubPathOrder
<1>5. Shrunk(disk, disk', path) /\ InOrder(disk, disk') /\ path \notin DOMAIN Shown(disk')
  BY <1>1, <1>2, <1>4, WithoutOK
<1>6. \A p \in AnyPath : ~IsSubPath(path, p) =>
        \/ Same(disk, disk', p)
        \/ path[1] \in buckets /\ p \in DOMAIN Shown(disk) /\ p \notin DOMAIN Shown(disk')
  BY <1>2, <1>5, ShrinkOK
<1>7. RightBut(db, disk', excused', Under(path))
  BY <1>2, <1>3, <1>6, ShrinkRight
<1>8. RightBut(db, Reinstated(disk', path, Tree(disk, path)), excused', {})
  <2>. PICK k2 : k2 = Reinstated(disk', path, Tree(disk, path)) OBVIOUS
  <2>1. DiskOK(disk', buckets) /\ MayRestore(disk', path) /\ TreeOK(path, Tree(disk, path), buckets)
    BY <1>1, <1>2, MayPutBack
  <2>2. DiskOK(k2, buckets) /\ Restored(disk', k2, path, Tree(disk, path))
    BY <2>1, EnsureOK DEF Reinstated
  <2>3. \A p \in AnyPath : Same(disk, k2, p) BY <1>1, <1>2, <2>2, PutBack
  <2>4. \A i \in DOMAIN db.node : Same(disk, k2, db.node[i].path)
    BY <2>3, RowPath
  <2>5. RightBut(db, k2, excused', {}) BY <1>2, <1>3, <2>4, DiskRight
  <2>. QED BY <2>5
<1>9. RecordDue(req', db', disk', excused', bin')
  BY <1>1, <1>5, <1>7, <1>8 DEF RecordDue
<1>10. Behind(req', db', disk', excused', bin') BY <1>1, <1>9 DEF Behind
<1>. QED BY <1>1, <1>2, <1>10

LEMMA TrashFailsRight ==
    ASSUME StateOK1, StateOK3, NEW path \in Paths, TrashFails(path), UNCHANGED buckets
    PROVE  Behind(req', db', disk', excused', bin') /\ Controls(db')
<1>1. /\ db' = db /\ req' = req /\ req.pc = "idle" /\ path[1] \in buckets
      /\ \A p \in AnyPath : ~IsSubPath(path, p) =>
           Same(disk, disk', p) \/ (p \in DOMAIN Shown(disk) /\ p \notin DOMAIN Shown(disk'))
      /\ excused' = excused \cup Subtree(db, path) \cup Vanished(path)
  BY TrashFailsOK
<1>2. RightBut(db, disk, excused, {}) /\ Controls(db) BY <1>1, BehindFacts
<1>3. RightBut(db, disk', excused', Under(path)) BY <1>1, <1>2, ShrinkRight
<1>4. RightBut(db, disk', excused', {}) BY <1>1, <1>3, ExcuseUnder DEF StateOK1
<1>. QED BY <1>1, <1>2, <1>4, IdleBehind

LEMMA RecordTrashRight ==
    ASSUME StateOK1, StateOK3, RecordTrash, UNCHANGED buckets
    PROVE  Behind(req', db', disk', excused', bin') /\ Controls(db')
<1>1. db' = db /\ excused' = excused /\ req.pc = "record" BY RecordTrashOK
<1>2. Controls(db) /\ RecordDue(req, db, disk, excused, bin)
  BY <1>1, BehindFacts
<1>3. CASE disk' = disk /\ IsDelete(req') /\ req'.pc = "meta" /\ req'.old = req.old
  BY <1>1, <1>2, <1>3, MetaBehind DEF DeleteDue, RecordDue, Due
<1>4. CASE req' = Idle /\ disk' = Plus(EnsurePath(disk, Parent(req.old)), At(req.old, bin[req.slot].tree))
  BY <1>1, <1>2, <1>4, IdleBehind DEF RecordDue, Reinstated, Idle
<1>. QED BY <1>3, <1>4, RecordTrashOK

\* What comes back is excused.
LEMMA ReturnRight ==
    ASSUME StateOK1, StateOK1', NEW path \in Paths, path \notin DOMAIN Shown(disk), NEW tree,
           Restored(disk, disk', path, tree), RightBut(db, disk, excused, {}), excused' = excused \cup Returned,
           UNCHANGED buckets
    PROVE  RightBut(db, disk', excused', {})
<1>1. DiskOK(disk, buckets) /\ DiskOK(disk', buckets) BY DEF StateOK1
<1>2. \A p \in AnyPath : p \in DOMAIN Shown(disk) => Same(disk, disk', p)
  BY <1>1, RestoredSame
<1>3. ASSUME NEW i \in DOMAIN db.node, i \notin excused'
      PROVE  i \notin excused /\ Same(disk, disk', db.node[i].path)
  BY <1>3, RowPath, NotReturned, <1>2 DEF Same
<1>. QED BY <1>3, DiskRight

LEMMA RestoreRight ==
    ASSUME StateOK1, StateOK3, NEW k \in Slots, Restore(k), UNCHANGED buckets
    PROVE  Behind(req', db', disk', excused', bin') /\ Controls(db')
<1>1. /\ db' = db /\ req.pc = "idle" /\ bin[k].from \in Paths /\ bin[k].from \notin DOMAIN Shown(disk)
      /\ Restored(disk, disk', bin[k].from, bin[k].tree) /\ excused' = excused \cup Returned /\ StateOK1'
      /\ req' = Idle \/ req'.pc = "row"
  BY RestoreItemOK
<1>2. RightBut(db, disk, excused, {}) /\ Controls(db) BY <1>1, BehindFacts
<1>3. RightBut(db', disk', excused', {}) BY <1>1, <1>2, ReturnRight
<1>4. req'.pc \in {"idle", "row"} BY <1>1 DEF Idle
<1>. QED BY <1>1, <1>2, <1>3, <1>4, IdleBehind

LEMMA RestoreFailsRight ==
    ASSUME StateOK1, StateOK3, NEW k \in Slots, RestoreFails(k), UNCHANGED buckets
    PROVE  Behind(req', db', disk', excused', bin') /\ Controls(db')
<1>1. /\ db' = db /\ req' = req /\ req.pc = "idle" /\ bin[k].from \in Paths /\ bin[k].from \notin DOMAIN Shown(disk)
      /\ \E t : Restored(disk, disk', bin[k].from, t)
      /\ excused' = excused \cup Returned /\ StateOK1'
  BY RestoreFailsOK
<1>2. RightBut(db, disk, excused, {}) /\ Controls(db) BY <1>1, BehindFacts
<1>3. RightBut(db', disk', excused', {}) BY <1>1, <1>2, ReturnRight
<1>. QED BY <1>1, <1>2, <1>3, IdleBehind

LEMMA PurgeRight ==
    ASSUME StateOK1, StateOK3, NEW k \in Slots, Purge(k), UNCHANGED buckets
    PROVE  Behind(req', db', disk', excused', bin') /\ Controls(db')
<1>1. UNCHANGED <<disk, db, excused>> /\ req.pc = "idle" /\ req'.pc = "row"
  BY PurgeOK
<1>2. RightBut(db, disk, excused, {}) /\ Controls(db) BY <1>1, BehindFacts
<1>. QED BY <1>1, <1>2, IdleBehind

LEMMA DropRowRight ==
    ASSUME StateOK1, StateOK3, DropRow, UNCHANGED buckets
    PROVE  Behind(req', db', disk', excused', bin') /\ Controls(db')
<1>1. UNCHANGED <<disk, db, excused>> /\ req.pc = "row" /\ req' = Idle
  BY DropRowOK
<1>2. RightBut(db, disk, excused, {}) /\ Controls(db) /\ req'.pc = "idle"
  BY <1>1, BehindFacts DEF Idle
<1>. QED BY <1>1, <1>2, IdleBehind

-----------------------------------------------------------------------------
(* What the steps of the metadata make of it. *)

LEMMA OkBehind ==
    ASSUME NEW r, r.pc = "ok", NEW d, NEW k, NEW e, NEW bn, RightBut(d, k, e, {}), Finished(r, d, k)
    PROVE  Behind(r, d, k, e, bn)
  BY DEF Behind

LEMMA StepRight ==
    ASSUME StateOK1, NEW step, Forgiven(step), UNCHANGED disk, NEW X, RightBut(db', disk, excused, X)
    PROVE  RightBut(db', disk', excused', X)
<1>1. RightBut(db', disk, excused \cup Unlisted(step), X) BY RightWeaken
<1>2. RightBut(db', disk, excused', X) BY <1>1, ForgivenRight DEF StateOK1
<1>. QED BY <1>2

\* A step that failed: its entry of the journal will name the paths.
LEMMA FailedRight ==
    ASSUME SameRequest, req'.pc = "journal", NEW X, RightBut(db', disk', excused', X),
           X \subseteq Under(req.old) \cup Under(req.new), req.op = "refresh" => X = {}
    PROVE  Behind(req', db', disk', excused', bin')
<1>1. req'.op = req.op /\ req'.old = req.old /\ req'.new = req.new
  BY DEF SameRequest
<1>2. RightBut(db', disk', excused', Under(req.old) \cup Under(req.new))
  BY RightWeaken
<1>3. req.op = "refresh" => RightBut(db', disk', excused', {}) OBVIOUS
<1>4. JournalDue(req', db', disk', excused') BY <1>1, <1>2, <1>3 DEF JournalDue
<1>. QED BY <1>4 DEF Behind

LEMMA JournalledRight ==
    ASSUME StateOK1, Controls(db), SameRequest, Journalled, UNCHANGED disk, NEW step, Forgiven(step),
           NEW X, RightBut(db, disk, excused, X),
           X \subseteq Under(req.old) \cup Under(req.new), req.op = "refresh" => X = {}
    PROVE  Behind(req', db', disk', excused', bin') /\ Controls(db')
<1>1. db' = db /\ req'.pc = "journal" BY DEF Journalled
<1>2. RightBut(db', disk, excused, X) BY <1>1
<1>3. RightBut(db', disk', excused', X) BY <1>2, StepRight
<1>. QED BY <1>1, <1>3, FailedRight

LEMMA UnderSelf ==
    ASSUME NEW p \in AnyPath
    PROVE  p \in Under(p)
  BY SubPathOrder DEF Under

\* The directory of a refresh is on S3, or is there, and a directory.
LEMMA ListableShown ==
    ASSUME StateOK1, NEW path \in Paths \cup Mounts
    PROVE  /\ Listable(path) /\ ~OnS3(path) => path \in DOMAIN Shown(disk) /\ Shown(disk)[path] = "dir"
           /\ ~Listable(path) => (path \in DOMAIN Shown(disk) => Shown(disk)[path] # "dir")
<1>1. DiskOK(disk, buckets) /\ path \in AnyPath BY PathsFacts DEF StateOK1
<1>2. ASSUME Listable(path), ~OnS3(path) PROVE path \in DOMAIN Shown(disk) /\ Shown(disk)[path] = "dir"
  BY <1>2, <1>1, ShownFacts DEF Listable, IsDirectory, Exists
<1>3. ASSUME ~Listable(path), path \in DOMAIN Shown(disk) PROVE Shown(disk)[path] # "dir"
  BY <1>3, <1>1, ShownFacts DEF Listable, OnS3, IsDirectory, Exists
<1>. QED BY <1>2, <1>3

LEMMA RefreshedStep ==
    ASSUME StateOK1, StateOK1', Controls(db), NEW path \in Paths \cup Mounts, Refreshed(path),
           Forgiven(Step("refresh", path)), UNCHANGED <<disk, buckets>>, NEW X, RightBut(db, disk, excused, X)
    PROVE  /\ RightBut(db', disk', excused', {p \in X : Parent(p) # path})
           /\ Controls(db') /\ Listed(db', disk', path)
           /\ \A p \in AnyPath : p # Root /\ Parent(p) = path /\ p \in DOMAIN Shown(disk) => Find(db', p) # NoId
           /\ \A p : Find(db, p) # NoId => Find(db', p) # NoId
<1>1. TablesOK(db) /\ TablesOK(db') /\ DiskOK(disk, buckets) /\ Seen = Shown(disk)
  BY SeenIs DEF StateOK1
<1>. PICK id : id = Find(db, path) OBVIOUS
<1>. PICK step : step = Step("refresh", path) OBVIOUS
<1>2. id \in DOMAIN db.node /\ db.node[id].path = path /\ db.node[id].kind # "file" /\ Listable(path)
      /\ Applied(db, db', id, Shown(disk))
  BY <1>1, FindFacts DEF Refreshed
<1>. PICK ex : ex = excused \cup Unlisted(step) OBVIOUS
<1>3. id \in ex \/ (path \in DOMAIN Shown(disk) /\ Shown(disk)[path] = "dir")
  <2>1. CASE OnS3(path) BY <2>1 DEF Step, Unlisted
  <2>2. CASE ~OnS3(path) BY <1>2, <2>2, ListableShown
  <2>. QED BY <2>1, <2>2
<1>4. RightBut(db, disk, ex, X) BY RightWeaken
<1>5. RightBut(db', disk, ex, {p \in X : Parent(p) # path})
  BY <1>1, <1>2, <1>3, <1>4, RefreshedRight
<1>6. RightBut(db', disk, excused', {p \in X : Parent(p) # path})
  BY <1>1, <1>5, ForgivenRight
<1>7. Controls(db') /\ Listed(db', disk, path)
  BY <1>1, <1>2, RefreshedControls, RefreshedListed, SMTT(60)
<1>8. ASSUME NEW p \in AnyPath, p # Root, Parent(p) = path, p \in DOMAIN Shown(disk) PROVE Find(db', p) # NoId
  BY <1>1, <1>2, <1>8, RefreshedParts DEF Applied
<1>9. ASSUME NEW p, Find(db, p) # NoId PROVE Find(db', p) # NoId
  <2>1. PICK i \in DOMAIN db.node : db.node[i].path = p BY <1>1, <1>9, FindFacts
  <2>2. i \in DOMAIN db'.node /\ db'.node[i].path = p BY <1>2, <2>1 DEF Applied
  <2>. QED BY <1>1, <2>2, FindFacts
<1>. QED BY <1>6, <1>7, <1>8, <1>9

LEMMA UnreadableStep ==
    ASSUME StateOK1, Controls(db), NEW path \in Paths \cup Mounts, Unreadable(path), SameRequest,
           NEW step, Forgiven(step), UNCHANGED disk, NEW X, RightBut(db, disk, excused, X), path \notin X,
           X \subseteq Under(req.old) \cup Under(req.new), req.op = "refresh" => X = {}
    PROVE  Behind(req', db', disk', excused', bin') /\ Controls(db')
<1>1. TablesOK(db) BY DEF StateOK1
<1>. PICK id : id = Find(db, path) OBVIOUS
<1>2. /\ id \in DOMAIN db.node /\ db.node[id].path = path /\ db.node[id].kind # "file"
      /\ db' = SetState(db, id, "error") /\ req'.pc = "journal" /\ ~Listable(path)
  BY <1>1, FindFacts DEF Unreadable
<1>3. path \in DOMAIN Shown(disk) => Shown(disk)[path] # "dir"
  BY <1>2, ListableShown
<1>4. RightBut(db', disk, excused, X) /\ Controls(db')
  <2>. PICK e : e = SetState(db, id, "error") OBVIOUS
  <2>1. RightBut(e, disk, excused, X) /\ Controls(e)
    BY <1>1, <1>2, <1>3, UnreadableRight
  <2>. QED BY <1>2, <2>1
<1>5. RightBut(db', disk', excused', X) BY <1>4, StepRight
<1>. QED BY <1>2, <1>4, <1>5, FailedRight

\* Who has a node has the nodes of the directories above.
LEMMA ParentFound ==
    ASSUME NEW d, TablesOK(d), NEW p, p # Root, Find(d, p) # NoId
    PROVE  Find(d, Parent(p)) # NoId
<1>1. PICK i \in DOMAIN d.node : d.node[i].path = p BY FindFacts
<1>2. d.node[i].parent \in DOMAIN d.node /\ Find(d, Parent(p)) = d.node[i].parent
  BY <1>1, NodeFacts
<1>. QED BY <1>2, NodeFacts

LEMMA MkdirDone ==
    ASSUME StateOK1, Controls(db), Metadata, UNCHANGED buckets, MkdirDue(req, db, disk, excused)
    PROVE  Behind(req', db', disk', excused', bin') /\ Controls(db')
<1>1. /\ IsMkdir(req) /\ RightBut(db, disk, excused, {req.new}) /\ req.new \in DOMAIN Shown(disk)
      /\ Shown(disk)[req.new] = "dir"
  BY DEF MkdirDue
<1>2. req.op = "mkdir" /\ req.new \in Paths /\ req.new \in AnyPath /\ req.new # Root /\ req.old = Parent(req.new)
      /\ Parent(req.new) # Root
  BY <1>1, PathsFacts DEF IsMkdir
<1>. PICK step : step = Step("mkdir", req.new) OBVIOUS
<1>3. /\ StateOK1' /\ UNCHANGED disk /\ SameRequest /\ Forgiven(step)
      /\ \/ Journalled
         \/ req'.pc = "ok" /\ Find(db, req.new) = NoId /\ Upserted(db, db', {req.new}, {})
  BY <1>1, MkdirStep
<1>4. CASE Journalled BY <1>2, UnderSelf, <1>1, <1>3, <1>4, JournalledRight
<1>5. CASE req'.pc = "ok" /\ Find(db, req.new) = NoId /\ Upserted(db, db', {req.new}, {})
  <2>1. RightBut(db', disk, excused, {req.new} \ {req.new}) /\ Controls(db')
    BY <1>1, <1>5, UpsertRight, UpsertControls
  <2>2. {req.new} \ {req.new} = {} OBVIOUS
  <2>3. RightBut(db', disk', excused', {}) BY <1>3, <2>1, <2>2, StepRight, SMTT(60)
  <2>4. TablesOK(db') /\ Find(db', req.new) # NoId
    BY <1>3, <1>5 DEF Upserted, StateOK1
  <2>5. Find(db', req.old) # NoId BY <1>2, <2>4, ParentFound
  <2>6. Finished(req', db', disk')
    BY <1>2, <1>3, <2>4, <2>5 DEF Finished, SameRequest
  <2>. QED BY <1>5, <2>1, <2>3, <2>6, OkBehind
<1>. QED BY <1>3, <1>4, <1>5

LEMMA CommitDone ==
    ASSUME StateOK1, Controls(db), Metadata, UNCHANGED buckets, CommitDue(req, db, disk, excused)
    PROVE  Behind(req', db', disk', excused', bin') /\ Controls(db')
<1>1. /\ IsCommit(req) /\ RightBut(db, disk, excused, {req.new}) /\ req.new \in DOMAIN Shown(disk)
      /\ Shown(disk)[req.new] # "dir"
  BY DEF CommitDue
<1>2. req.op = "upload" /\ req.new \in Paths /\ req.new \in AnyPath /\ req.new # Root /\ req.old = req.new
  BY <1>1, PathsFacts DEF IsCommit
<1>. PICK step : step = Step("commit", req.new) OBVIOUS
<1>. DEFINE above == {SubSeq(req.new, 1, n) : n \in 1 .. Len(req.new) - 1}
<1>3. /\ StateOK1' /\ UNCHANGED disk /\ SameRequest /\ Forgiven(step)
      /\ \/ Journalled
         \/ req'.pc = "ok" /\ Upserted(db, db', above \cup {req.new}, {req.new})
  BY <1>1, CommitStep
<1>4. ASSUME NEW p \in above PROVE p \in DOMAIN Shown(disk) /\ Shown(disk)[p] = "dir" /\ p # req.new
  <2>1. DiskOK(disk, buckets) BY DEF StateOK1
  <2>2. PICK n \in 1 .. Len(req.new) - 1 : p = SubSeq(req.new, 1, n) OBVIOUS
  <2>3. p \in AnyPath /\ p # Root /\ IsSubPath(p, req.new) /\ p # req.new
    BY <1>2, <2>2, ProperPrefix, PrefixOf
  <2>4. p \in DOMAIN Shown(disk) BY <1>1, <2>1, <2>3, ShownFacts
  <2>5. Shown(disk)[p] = "dir" BY <1>1, <2>1, <2>3, <2>4, ShownFacts
  <2>. QED BY <2>3, <2>4, <2>5
<1>. HIDE DEF above
<1>5. CASE Journalled BY <1>2, UnderSelf, <1>1, <1>3, <1>5, JournalledRight
<1>6. CASE req'.pc = "ok" /\ Upserted(db, db', above \cup {req.new}, {req.new})
  <2>. PICK all, files : all = above \cup {req.new} /\ files = {req.new} OBVIOUS
  <2>1. \A p \in all : p \in DOMAIN Shown(disk) /\ (p \in files <=> Shown(disk)[p] # "dir")
    BY <1>1, <1>4
  <2>2. RightBut(db', disk, excused, {req.new} \ all) /\ Controls(db')
    BY <1>1, <1>6, <2>1, UpsertRight, UpsertControls
  <2>3. {req.new} \ all = {} OBVIOUS
  <2>4. RightBut(db', disk', excused', {}) BY <1>3, <2>2, <2>3, StepRight, SMTT(60)
  <2>5. Find(db', req.new) # NoId BY <1>6 DEF Upserted
  <2>6. Finished(req', db', disk') BY <1>2, <1>3, <2>5 DEF Finished, SameRequest
  <2>. QED BY <1>6, <2>2, <2>4, <2>6, OkBehind
<1>. QED BY <1>3, <1>5, <1>6

\* The ends of a rename or a move
LEMMA EndsFacts ==
    ASSUME NEW r, Ends(r)
    PROVE  /\ r.old \in Paths /\ r.old \in AnyPath /\ r.old # Root /\ r.new \in AnyPath /\ r.new # Root
           /\ Parent(r.new) \in Paths \cup Mounts /\ Parent(r.old) \in Paths \cup Mounts
           /\ r.op \in {"rename", "move"} /\ r.op # "refresh"
           /\ IsSubPath(r.old, r.new) /\ r.op = "move" => IsSubPath(r.old, Parent(r.new))
           /\ Under(r.old) \cup {r.new} \subseteq Under(r.old) \cup Under(r.new)
<1>1. r.old \in Paths /\ r.new \in AnyPath /\ r.new # Root /\ Parent(r.new) \in Paths \cup Mounts
  BY DEF Ends
<1>2. r.old \in AnyPath /\ r.old # Root /\ Parent(r.old) \in Paths \cup Mounts
  BY <1>1, PathsFacts
<1>3. r.op \in {"rename", "move"} /\ r.op # "refresh" /\ (r.op = "move" => Parent(r.new) # Parent(r.old))
  BY DEF Ends
<1>4. ASSUME IsSubPath(r.old, r.new), r.op = "move" PROVE IsSubPath(r.old, Parent(r.new))
  BY <1>3, <1>4, <1>1, <1>2, ParentOrder
<1>5. r.new \in Under(r.new) BY <1>1, UnderSelf
<1>. QED BY <1>1, <1>2, <1>3, <1>4, <1>5

LEMMA MoveDone ==
    ASSUME StateOK1, Controls(db), Metadata, UNCHANGED buckets, MoveDue(req, db, disk, excused)
    PROVE  Behind(req', db', disk', excused', bin') /\ Controls(db')
<1>. PICK old, new : old = req.old /\ new = req.new OBVIOUS
<1>1. /\ IsMove(req) /\ old \notin DOMAIN Shown(disk)
      /\ IsSubPath(old, new) => req.op = "move" /\ RightBut(db, disk, excused, Under(old))
      /\ ~IsSubPath(old, new) => /\ RightBut(db, disk, excused, Under(old) \cup {new}) /\ new \in DOMAIN Shown(disk)
                                 /\ GoAlong(db, disk, excused, old, new)
  BY DEF MoveDue
<1>2. /\ Ends(req) /\ old \in Paths /\ old \in AnyPath /\ old # Root /\ new \in AnyPath /\ new # Root
      /\ req.op \in {"rename", "move"} /\ req.op # "refresh"
      /\ IsSubPath(old, new) /\ req.op = "move" => IsSubPath(old, Parent(new))
      /\ Under(old) \cup {new} \subseteq Under(old) \cup Under(new)
  BY <1>1, EndsFacts DEF IsMove
<1>. PICK step : step = Step(req.op, old) OBVIOUS
<1>3. /\ StateOK1' /\ UNCHANGED disk /\ SameRequest /\ Forgiven(step)
      /\ \/ Journalled
         \/ /\ req'.pc = "ok" /\ Find(db, old) # NoId /\ Find(db, new) = NoId
            /\ Moved(db, db', old, new) /\ ~IsSubPath(old, new)
         \/ /\ req'.pc = "meta" /\ IsFallback(req') /\ db' = db
            /\ Find(db, old) = NoId \/ (req.op = "move" /\ Find(db, Parent(new)) = NoId)
  BY <1>1, MoveStep
<1>4. TablesOK(db) /\ TablesOK(db') /\ req'.op = req.op /\ req'.old = old /\ req'.new = new
  BY <1>3 DEF StateOK1, SameRequest
<1>5. CASE Journalled
  <2>1. CASE IsSubPath(old, new)
    BY <1>1, <1>2, <1>3, <1>5, <2>1, JournalledRight, SMTT(60)
  <2>2. CASE ~IsSubPath(old, new)
    BY <1>1, <1>2, <1>3, <1>5, <2>2, JournalledRight
  <2>. QED BY <2>1, <2>2
<1>6. CASE /\ req'.pc = "ok" /\ Find(db, old) # NoId /\ Find(db, new) = NoId
           /\ Moved(db, db', old, new) /\ ~IsSubPath(old, new)
  <2>1. RightBut(db', disk, excused, {}) BY <1>1, <1>2, <1>4, <1>6, MovedRight
  <2>2. Controls(db') BY <1>2, <1>4, <1>6, MovedControls
  <2>3. RightBut(db', disk', excused', {}) BY <1>3, <2>1, StepRight
  <2>4. Find(db', new) # NoId
    <3>1. PICK i \in DOMAIN db.node : db.node[i].path = old
      BY <1>4, <1>6, FindFacts
    <3>2. IsSubPath(old, old) /\ Rewrite(old, old, new) = new
      BY <1>2, SubPathOrder, RewritePath
    <3>3. i \in DOMAIN db'.node /\ db'.node[i].path = new
      BY <1>6, <3>1, <3>2 DEF Moved
    <3>. QED BY <1>4, <3>3, FindFacts
  <2>5. Finished(req', db', disk') BY <1>1, <1>2, <1>3, <1>4, <2>4 DEF Finished
  <2>. QED BY <1>6, <2>2, <2>3, <2>5, OkBehind
<1>7. CASE /\ req'.pc = "meta" /\ IsFallback(req') /\ db' = db
           /\ Find(db, old) = NoId \/ (req.op = "move" /\ Find(db, Parent(new)) = NoId)
  <2>1. CASE IsSubPath(old, new)
    <3>1. Find(db, Parent(new)) = NoId
      <4>1. IsSubPath(old, Parent(new)) BY <1>1, <1>2, <2>1
      <4>2. CASE Find(db, old) = NoId
        BY <1>2, <1>4, <4>2, NoneBelow, <4>1, FindFacts
      <4>. QED BY <1>7, <4>2
    <3>2. RightBut(db', disk', excused', Under(old))
      BY <1>1, <1>3, <1>7, <2>1, StepRight
    <3>3. FallbackDue(req', db', disk', excused')
      BY <1>1, <1>3, <1>4, <1>7, <2>1, <3>1, <3>2 DEF FallbackDue
    <3>4. Behind(req', db', disk', excused', bin')
      BY <1>7, <3>3, MetaBehind DEF Due
    <3>. QED BY <1>7, <3>4
  <2>2. CASE ~IsSubPath(old, new)
    <3>1. ASSUME Find(db, old) = NoId PROVE FallbackDue(req', db', disk', excused')
      <4>1. \A i \in DOMAIN db.node : ~IsSubPath(old, db.node[i].path)
        BY <1>2, <1>4, <3>1, NoneBelow
      <4>2. \A i \in DOMAIN db.node : db.node[i].path \notin {new} => db.node[i].path \notin Under(old) \cup {new}
        BY <4>1 DEF Under
      <4>3. RightBut(db, disk, excused, {new}) BY <1>1, <2>2, <4>2, RightWeaken
      <4>4. RightBut(db', disk', excused', {new}) BY <1>3, <1>7, <4>3, StepRight
      <4>. QED BY <1>1, <1>3, <1>4, <1>7, <2>2, <4>4, SMTT(60) DEF FallbackDue
    <3>2. ASSUME Find(db, Parent(new)) = NoId PROVE FallbackDue(req', db', disk', excused')
      BY <1>1, <1>3, <1>7, <2>2, StepRight, <1>4, <3>2 DEF FallbackDue
    <3>3. FallbackDue(req', db', disk', excused') BY <1>7, <3>1, <3>2
    <3>4. Behind(req', db', disk', excused', bin')
      BY <1>7, <3>3, MetaBehind DEF Due
    <3>. QED BY <1>7, <3>4
  <2>. QED BY <1>1, <1>7, <2>1, <2>2
<1>. QED BY <1>3, <1>5, <1>6, <1>7
LEMMA FallbackDone ==
    ASSUME StateOK1, Controls(db), Metadata, UNCHANGED buckets, FallbackDue(req, db, disk, excused)
    PROVE  Behind(req', db', disk', excused', bin') /\ Controls(db')
<1>. PICK old, new, dir : old = req.old /\ new = req.new /\ dir = Parent(req.new)
  OBVIOUS
<1>1. /\ IsFallback(req) /\ old \notin DOMAIN Shown(disk)
      /\ IsSubPath(old, new) => Find(db, dir) = NoId /\ RightBut(db, disk, excused, Under(old))
      /\ ~IsSubPath(old, new) =>
           /\ new \in DOMAIN Shown(disk)
           /\ \/ RightBut(db, disk, excused, {new})
              \/ Find(db, dir) = NoId /\ RightBut(db, disk, excused, Under(old) \cup {new})
  BY DEF FallbackDue
<1>2. /\ Ends(req) /\ old \in AnyPath /\ old # Root /\ new \in AnyPath /\ new # Root
      /\ dir \in Paths \cup Mounts /\ req.op # "refresh"
      /\ Under(old) \cup {new} \subseteq Under(old) \cup Under(new)
      /\ new # dir
  BY <1>1, EndsFacts, ParentOrder DEF IsFallback
<1>. PICK step : step = Step("refresh", dir) OBVIOUS
<1>3. /\ StateOK1' /\ UNCHANGED disk /\ SameRequest /\ Forgiven(step)
      /\ \/ Journalled \/ Unreadable(dir)
         \/ req.op = "rename" /\ Refreshed(dir) /\ req'.pc = "ok"
         \/ req.op = "move" /\ Refreshed(dir) /\ req'.pc = "meta" /\ IsSecond(req')
  BY <1>1, FallbackStep
<1>4. req'.op = req.op /\ req'.old = old /\ req'.new = new
  BY <1>3 DEF SameRequest
<1>5. CASE Journalled
  <2>1. ASSUME NEW X, X \subseteq Under(old) \cup Under(new), RightBut(db, disk, excused, X)
        PROVE  Behind(req', db', disk', excused', bin') /\ Controls(db')
    BY <1>2, <1>3, <1>5, <2>1, JournalledRight
  <2>2. CASE IsSubPath(old, new) BY <1>1, <2>1, <2>2
  <2>3. CASE ~IsSubPath(old, new) BY <1>2, <1>1, <2>1, <2>3
  <2>. QED BY <2>2, <2>3
<1>6. ASSUME Find(db, dir) # NoId
      PROVE  /\ ~IsSubPath(old, new) /\ new \in DOMAIN Shown(disk) /\ RightBut(db, disk, excused, {new})
             /\ {new} \subseteq Under(old) \cup Under(new)
  BY <1>1, <1>2, <1>6
<1>7. CASE Unreadable(dir)
  BY <1>7, <1>2, <1>3, <1>6, UnreadableStep DEF Unreadable
<1>8. ASSUME Refreshed(dir)
      PROVE  RightBut(db', disk', excused', {}) /\ Controls(db') /\ Find(db', new) # NoId /\ new # Root
  BY <1>8, <1>2, <1>3, <1>6, RefreshedStep DEF Refreshed
<1>9. CASE Refreshed(dir) /\ req'.pc = "ok" /\ req.op = "rename"
  BY <1>1, <1>2, <1>3, <1>4, <1>8, <1>9, OkBehind DEF Finished
<1>10. CASE Refreshed(dir) /\ req'.pc = "meta" /\ IsSecond(req')
  BY <1>1, <1>3, <1>4, <1>8, <1>10, MetaBehind DEF SecondDue, Due
<1>. QED BY <1>3, <1>5, <1>7, <1>9, <1>10

\* The last refreshes
LEMMA SecondDone ==
    ASSUME StateOK1, Controls(db), Metadata, UNCHANGED buckets, SecondDue(req, db, disk, excused)
    PROVE  Behind(req', db', disk', excused', bin') /\ Controls(db')
<1>. PICK dir, step : dir = Parent(req.old) /\ step = Step("refresh", dir)
  OBVIOUS
<1>1. IsSecond(req) /\ RightBut(db, disk, excused, {}) /\ req.old \notin DOMAIN Shown(disk) /\ Find(db, req.new) # NoId
  BY DEF SecondDue
<1>2. dir \in Paths \cup Mounts /\ req.op # "refresh" /\ req.old # Root /\ req.new # Root
  BY <1>1, EndsFacts DEF IsSecond
<1>3. /\ StateOK1' /\ UNCHANGED disk /\ SameRequest /\ Forgiven(step)
      /\ Journalled \/ Unreadable(dir) \/ (Refreshed(dir) /\ req'.pc = "ok")
  BY <1>1, SecondStep
<1>4. CASE Journalled BY <1>1, <1>2, <1>3, <1>4, JournalledRight
<1>5. CASE Unreadable(dir) BY <1>1, <1>2, <1>3, <1>5, UnreadableStep
<1>6. CASE Refreshed(dir) /\ req'.pc = "ok"
  BY <1>1, <1>2, <1>3, <1>6, RefreshedStep, OkBehind DEF Finished, SameRequest
<1>. QED BY <1>3, <1>4, <1>5, <1>6

LEMMA CopyDone ==
    ASSUME StateOK1, Controls(db), Metadata, UNCHANGED buckets, CopyDue(req, db, disk, excused)
    PROVE  Behind(req', db', disk', excused', bin') /\ Controls(db')
<1>. PICK new, dir, step : new = req.new /\ dir = Parent(req.new) /\ step = Step("refresh", dir)
  OBVIOUS
<1>1. IsCopy(req) /\ RightBut(db, disk, excused, {new}) /\ new \in DOMAIN Shown(disk)
  BY DEF CopyDue
<1>2. /\ dir \in Paths \cup Mounts /\ req.op = "copy" /\ new \in AnyPath /\ new # Root /\ dir # new
      /\ new \in Under(new)
  BY <1>1, PathsFacts, ParentOrder, UnderSelf DEF IsCopy
<1>3. /\ StateOK1' /\ UNCHANGED disk /\ SameRequest /\ Forgiven(step)
      /\ Journalled \/ Unreadable(dir) \/ (Refreshed(dir) /\ req'.pc = "ok")
  BY <1>1, CopyStep
<1>4. {new} \subseteq Under(req.old) \cup Under(req.new) BY <1>2
<1>5. CASE Journalled BY <1>1, <1>2, <1>3, <1>4, <1>5, JournalledRight
<1>6. CASE Unreadable(dir) BY <1>1, <1>2, <1>3, <1>4, <1>6, UnreadableStep
<1>7. CASE Refreshed(dir) /\ req'.pc = "ok"
  BY <1>1, <1>2, <1>3, <1>7, RefreshedStep, OkBehind DEF Finished, SameRequest
<1>. QED BY <1>3, <1>5, <1>6, <1>7

LEMMA RefreshDone ==
    ASSUME StateOK1, Controls(db), Metadata, UNCHANGED buckets, RefreshDue(req, db, disk, excused)
    PROVE  Behind(req', db', disk', excused', bin') /\ Controls(db')
<1>. PICK dir, step : dir = req.old /\ step = Step("refresh", dir) OBVIOUS
<1>1. IsRefresh(req) /\ RightBut(db, disk, excused, {}) BY DEF RefreshDue
<1>2. dir \in Paths \cup Mounts /\ req.op = "refresh" BY <1>1 DEF IsRefresh
<1>3. /\ StateOK1' /\ UNCHANGED disk /\ SameRequest /\ Forgiven(step)
      /\ Journalled \/ Unreadable(dir) \/ (Refreshed(dir) /\ req'.pc = "ok")
  BY <1>1, RefreshItself
<1>4. CASE Journalled BY <1>1, <1>2, <1>3, <1>4, JournalledRight
<1>5. CASE Unreadable(dir) BY <1>1, <1>2, <1>3, <1>5, UnreadableStep
<1>6. CASE Refreshed(dir) /\ req'.pc = "ok"
  BY <1>1, <1>2, <1>3, <1>6, RefreshedStep, OkBehind DEF Finished, SameRequest
<1>. QED BY <1>3, <1>4, <1>5, <1>6

LEMMA AcrossDone ==
    ASSUME StateOK1, Controls(db), Metadata, UNCHANGED buckets, AcrossDue(req, db, disk, excused)
    PROVE  Behind(req', db', disk', excused', bin') /\ Controls(db')
<1>. PICK old, new, dir, step : old = req.old /\ new = req.new /\ dir = Parent(req.new) /\ step = Step("refresh", dir)
  OBVIOUS
<1>1. /\ IsAcross(req) /\ RightBut(db, disk, excused, Under(old) \cup {new}) /\ new \in DOMAIN Shown(disk)
      /\ old \notin DOMAIN Shown(disk)
  BY DEF AcrossDue
<1>2. /\ dir \in Paths \cup Mounts /\ req.op = "move" /\ new \in AnyPath /\ new # Root /\ dir # new
      /\ new \in Under(new) /\ old \in AnyPath /\ old # Root /\ old[1] # new[1] /\ dir \in AnyPath
  BY <1>1, PathsFacts, ParentOrder, UnderSelf DEF IsAcross
<1>3. /\ StateOK1' /\ UNCHANGED disk /\ SameRequest /\ Forgiven(step)
      /\ Journalled \/ Unreadable(dir) \/ (Refreshed(dir) /\ req'.pc = "meta" /\ IsRemoval(req'))
  BY <1>1, AcrossStep
<1>4. /\ Under(old) \cup {new} \subseteq Under(req.old) \cup Under(req.new)
      /\ dir \notin Under(old) \cup {new}
  BY <1>2, PrefixIs, ParentOrder, SubPathOrder DEF Under
<1>5. CASE Journalled BY <1>1, <1>2, <1>3, <1>4, <1>5, JournalledRight
<1>6. CASE Unreadable(dir) BY <1>1, <1>2, <1>3, <1>4, <1>6, UnreadableStep
<1>7. CASE Refreshed(dir) /\ req'.pc = "meta" /\ IsRemoval(req')
  <2>1. /\ RightBut(db', disk', excused', {p \in Under(old) \cup {new} : Parent(p) # dir}) /\ Controls(db')
        /\ Find(db', new) # NoId
    BY <1>1, <1>2, <1>3, <1>7, RefreshedStep
  <2>2. RightBut(db', disk', excused', Under(old)) BY <2>1, RightWeaken
  <2>3. RemovalDue(req', db', disk', excused')
    BY <1>1, <1>3, <1>7, <2>1, <2>2 DEF RemovalDue, SameRequest
  <2>4. Behind(req', db', disk', excused', bin')
    BY <1>7, <2>3, MetaBehind DEF Due
  <2>. QED BY <2>1, <2>4
<1>. QED BY <1>3, <1>5, <1>6, <1>7

\* The last step of a delete, of the way into the trash, and of a move to another source
LEMMA DeleteDone ==
    ASSUME StateOK1, Controls(db), Metadata, UNCHANGED buckets,
           DeleteDue(req, db, disk, excused) \/ RemovalDue(req, db, disk, excused)
    PROVE  Behind(req', db', disk', excused', bin') /\ Controls(db')
<1>. PICK old, new, step : old = req.old /\ new = req.new /\ step = Step("delete", req.old)
  OBVIOUS
<1>1. /\ IsDelete(req) \/ IsRemoval(req)
      /\ RightBut(db, disk, excused, Under(old)) /\ old \notin DOMAIN Shown(disk)
      /\ new = old \/ (old[1] # new[1] /\ Find(db, new) # NoId)
  BY DEF DeleteDue, RemovalDue, IsDelete, IsRemoval
<1>2. req.op # "refresh" /\ old \in AnyPath /\ old # Root /\ new \in AnyPath /\ new # Root
  BY <1>1, PathsFacts DEF IsDelete, IsRemoval
<1>3. /\ StateOK1' /\ UNCHANGED disk /\ SameRequest /\ Forgiven(step)
      /\ Journalled \/ (req'.pc = "ok" /\ Removed(db, db', old))
  BY <1>1, DeleteStep
<1>4. TablesOK(db) /\ TablesOK(db') BY <1>3 DEF StateOK1
<1>5. CASE Journalled BY <1>1, <1>2, <1>3, <1>5, JournalledRight
<1>6. CASE req'.pc = "ok" /\ Removed(db, db', old)
  <2>1. RightBut(db', disk, excused, {}) /\ Controls(db')
    BY <1>1, <1>4, <1>6, RemovedRight, RemovedControls
  <2>2. RightBut(db', disk', excused', {}) BY <1>3, <2>1, StepRight
  <2>3. new # old => Find(db', new) # NoId
    <3>1. SUFFICES ASSUME new # old PROVE Find(db', new) # NoId OBVIOUS
    <3>2. PICK i \in DOMAIN db.node : db.node[i].path = new
      BY <1>1, <1>4, <3>1, FindFacts
    <3>3. ~IsSubPath(old, new) BY <1>1, <1>2, <3>1, PrefixIs
    <3>4. i \in DOMAIN db'.node /\ db'.node[i].path = new
      BY <1>6, <3>2, <3>3 DEF Removed
    <3>. QED BY <1>4, <3>4, FindFacts
  <2>4. Finished(req', db', disk')
    BY <1>1, <1>2, <1>3, <2>3 DEF Finished, SameRequest
  <2>. QED BY <1>6, <2>1, <2>2, <2>4, OkBehind
<1>. QED BY <1>3, <1>5, <1>6
LEMMA MetadataRight ==
    ASSUME StateOK1, StateOK3, Metadata, UNCHANGED buckets
    PROVE  Behind(req', db', disk', excused', bin') /\ Controls(db')
<1>1. req.pc = "meta" BY MetadataOK
<1>2. Controls(db) /\ Due(req, db, disk, excused) BY <1>1, BehindFacts
<1>. QED
  BY <1>2, MkdirDone, CommitDone, MoveDone, FallbackDone, SecondDone, CopyDone, AcrossDone, DeleteDone, RefreshDone DEF Due

\* What is due is below the two paths of the request.
LEMMA DueUnder ==
    ASSUME NEW r, NEW d, NEW k, NEW e, Due(r, d, k, e)
    PROVE  /\ RightBut(d, k, e, Under(r.old) \cup Under(r.new))
           /\ r.op = "refresh" => RightBut(d, k, e, {})
<1>. DEFINE Reached == /\ RightBut(d, k, e, Under(r.old) \cup Under(r.new))
                       /\ r.op = "refresh" => RightBut(d, k, e, {})
<1>1. ASSUME r.new \in AnyPath, r.op # "refresh", RightBut(d, k, e, Under(r.old) \cup {r.new}) PROVE Reached
  BY <1>1, UnderSelf, RightWeaken
<1>2. ASSUME r.op # "refresh", RightBut(d, k, e, Under(r.old)) PROVE Reached
  BY <1>2, RightWeaken
<1>3. ASSUME r.new \in AnyPath, r.op # "refresh", RightBut(d, k, e, {r.new}) PROVE Reached
  BY <1>3, RightWeaken, <1>1
<1>4. ASSUME RightBut(d, k, e, {}) PROVE Reached BY <1>4, RightWeaken
<1>. HIDE DEF Reached
<1>5. CASE MkdirDue(r, d, k, e) \/ CommitDue(r, d, k, e) \/ CopyDue(r, d, k, e)
  BY <1>5, PathsFacts, <1>3 DEF MkdirDue, CommitDue, CopyDue, IsMkdir, IsCommit, IsCopy, Reached
<1>6. CASE MoveDue(r, d, k, e) \/ FallbackDue(r, d, k, e)
  BY <1>6, EndsFacts, <1>1, <1>2, <1>3 DEF MoveDue, FallbackDue, IsMove, IsFallback, Reached
<1>7. CASE SecondDue(r, d, k, e) \/ RefreshDue(r, d, k, e)
  BY <1>7, <1>4 DEF SecondDue, RefreshDue, Reached
<1>8. CASE AcrossDue(r, d, k, e)
  BY <1>8, PathsFacts, <1>1 DEF AcrossDue, IsAcross, Reached
<1>9. CASE RemovalDue(r, d, k, e) \/ DeleteDue(r, d, k, e)
  BY <1>9, <1>2 DEF RemovalDue, DeleteDue, IsRemoval, IsDelete, Reached
<1>. QED BY <1>5, <1>6, <1>7, <1>8, <1>9 DEF Due, Reached

LEMMA JournalRight ==
    ASSUME StateOK1, StateOK3, JournalFailure, UNCHANGED buckets
    PROVE  Behind(req', db', disk', excused', bin') /\ Controls(db')
<1>1. /\ UNCHANGED <<disk, db>> /\ req.pc = "journal" /\ req' = Idle
      /\ \/ req.op = "refresh" /\ excused' = excused
         \/ excused' = excused \cup Subtree(db, req.old) \cup Subtree(db, req.new)
  BY DEF JournalFailure
<1>2. TablesOK(db) /\ Controls(db) /\ JournalDue(req, db, disk, excused) /\ req'.pc = "idle"
  BY <1>1, BehindFacts DEF StateOK1, Idle
<1>3. RightBut(db, disk, excused', {})
  <2>1. CASE req.op = "refresh" /\ excused' = excused
    BY <1>2, <2>1 DEF JournalDue
  <2>2. CASE excused' = excused \cup Subtree(db, req.old) \cup Subtree(db, req.new)
    BY <1>2, <2>2, ExcuseUnder DEF JournalDue
  <2>. QED BY <1>1, <2>1, <2>2
<1>. QED BY <1>1, <1>2, <1>3, IdleBehind

LEMMA AnswerRight ==
    ASSUME StateOK1, StateOK3, Answer, UNCHANGED buckets
    PROVE  Behind(req', db', disk', excused', bin') /\ Controls(db')
<1>1. UNCHANGED <<disk, db, excused>> /\ req.pc = "ok" /\ req' = Idle
  BY DEF Answer
<1>2. Controls(db) /\ RightBut(db, disk, excused, {}) /\ req'.pc = "idle"
  BY <1>1, BehindFacts DEF Idle
<1>. QED BY <1>1, <1>2, IdleBehind

LEMMA CrashRight ==
    ASSUME StateOK1, StateOK3, Crash, UNCHANGED buckets
    PROVE  Behind(req', db', disk', excused', bin') /\ Controls(db')
<1>1. /\ UNCHANGED <<disk, db>> /\ req.pc \notin {"idle", "ok"} /\ req' = Idle
      /\ excused' = IF req.pc = "row" \/ req.op = "refresh" THEN excused
                    ELSE excused \cup Subtree(db, req.old) \cup Subtree(db, req.new)
  BY DEF Crash
<1>2. /\ TablesOK(db) /\ req'.pc = "idle" /\ req.pc \in {"record", "row", "meta", "journal"}
      /\ req.pc = "record" => req.op = "trash" /\ req.old \in AnyPath
  BY <1>1, PathsFacts DEF StateOK1, ReqOK, Idle
<1>3. Controls(db) BY BehindFacts
<1>4. /\ req.pc = "row" \/ req.op = "refresh" => RightBut(db, disk, excused, {})
      /\ ~(req.pc = "row" \/ req.op = "refresh") => RightBut(db, disk, excused, Under(req.old) \cup Under(req.new))
  <2>1. CASE req.pc = "row" BY <2>1, BehindFacts
  <2>2. CASE req.pc = "meta" BY <2>2, BehindFacts, DueUnder
  <2>3. CASE req.pc = "journal" BY <2>3, BehindFacts DEF JournalDue
  <2>4. CASE req.pc = "record"
    BY <1>2, <2>4, BehindFacts, RightWeaken DEF RecordDue
  <2>. QED BY <1>2, <2>1, <2>2, <2>3, <2>4
<1>5. RightBut(db, disk, excused', {})
  <2>1. CASE req.pc = "row" \/ req.op = "refresh" BY <1>1, <1>4, <2>1
  <2>2. CASE ~(req.pc = "row" \/ req.op = "refresh")
    BY <1>1, <1>2, <1>4, <2>2, ExcuseUnder
  <2>. QED BY <2>1, <2>2
<1>. QED BY <1>1, <1>2, <1>3, <1>5, IdleBehind

LEMMA InitRight ==
    ASSUME Init
    PROVE  StateOK3
<1>1. DiskOK(disk, buckets) /\ \A m \in Mounts : m \in DOMAIN disk /\ disk[m] = "dir"
  <2>1. CASE disk = [p \in Mounts |-> "dir"] BY <2>1, InitDiskOK
  <2>2. CASE \E p \in Paths, c \in Contents : disk = Plus([q \in Mounts |-> "dir"], Entry(p, c))
    <3>. PICK p \in Paths, c \in Contents : disk = Plus([q \in Mounts |-> "dir"], Entry(p, c))
      BY <2>2
    <3>. PICK k, e : k = [q \in Mounts |-> "dir"] /\ e = Entry(p, c) OBVIOUS
    <3>1. DOMAIN k = Mounts /\ \A m \in Mounts : k[m] = "dir" OBVIOUS
    <3>2. disk = Plus(k, e) OBVIOUS
    <3>. QED BY <3>1, <3>2, InitDiskOK DEF Plus
  <2>. QED BY <2>1, <2>2, InitDiskOK
<1>2. \A m \in Mounts : m \in DOMAIN Shown(disk) /\ Shown(disk)[m] = "dir"
  BY <1>1, ShownFacts
<1>3. /\ \A i \in DOMAIN db.node : db.node[i].path \in Mounts \cup {Root}
      /\ \A i \in DOMAIN db.node : db.node[i].path \in Mounts => db.node[i].state = "indexed" /\ db.node[i].kind = "mount"
      /\ \A i \in DOMAIN db.node : IsControl(db.node[i]) => Len(db.node[i].path) = 1
  BY InitTablesOK
<1>4. RightBut(db, disk, excused, {})
  <2>. SUFFICES ASSUME NEW i \in DOMAIN db.node, db.node[i].path # Root
                PROVE  Tells(Shown(disk), db.node[i], db.node[i].path)
    BY DEF RightBut
  <2>1. db.node[i].path \in Mounts /\ db.node[i].state = "indexed" /\ db.node[i].kind = "mount"
    BY <1>3
  <2>. QED BY <1>2, <2>1 DEF Tells
<1>5. req.pc = "idle" BY DEF Init, Idle
<1>6. Behind(req, db, disk, excused, bin) BY <1>4, <1>5, IdleBehind
<1>. QED BY <1>3, <1>6 DEF StateOK3, Controls

LEMMA NextRight ==
    ASSUME StateOK1, StateOK3, [Next]_vars
    PROVE  StateOK3'
<1>1. CASE UNCHANGED vars BY <1>1, SMTT(60) DEF vars, StateOK3
<1>2. CASE Request /\ UNCHANGED buckets
  BY <1>2, RequestCases, MkdirRight, DeleteRight, TrashRight, TrashFailsRight, OutsideRight, RenameRight,
     UploadRight, ImportRight, MoveRight, CopyRight, MoveAcrossRight, RefreshRight, RestoreRight,
     RestoreFailsRight, PurgeRight DEF StateOK3
<1>3. CASE (RecordTrash \/ DropRow \/ Metadata \/ JournalFailure \/ Answer \/ Crash) /\ UNCHANGED buckets
  BY <1>3, RecordTrashRight, DropRowRight, MetadataRight, JournalRight, AnswerRight, CrashRight DEF StateOK3
<1>. QED BY <1>1, <1>2, <1>3 DEF Next

LEMMA Invariant3 == Spec => []StateOK3
<1>. QED BY InitRight, NextRight, Invariant1, PTL DEF Spec

\* Between two requests, a node that the tree shows as available and that is not in
\* the storage has its reason on record: the operation journal, a crash, a request
\* that failed half-way, somebody outside, or a directory without a marker that went
\* with its last object.  A refresh that puts the node right ends the excuse.
THEOREM PhantomsAreExplained == Spec => []PhantomExplained
<1>1. ASSUME StateOK1, StateOK3 PROVE PhantomExplained
  <2>. SUFFICES ASSUME req.pc = "idle", NEW item \in Search(Root), item.available, item.path \notin DOMAIN Seen
                PROVE  item.id \in excused
    BY DEF PhantomExplained
  <2>1. TablesOK(db) /\ Seen = Shown(disk) /\ RightBut(db, disk, excused, {})
    BY <1>1, SeenIs, BehindFacts DEF StateOK1
  <2>2. PICK i \in Subtree(db, Root) \ {Find(db, Root)} : item = Item(i)
    BY DEF Search
  <2>3. i \in DOMAIN db.node /\ i # Find(db, Root) BY <2>2 DEF Subtree
  <2>4. db.node[i].path # Root BY <2>1, <2>3, FindFacts
  <2>5. item.id = i /\ item.path = db.node[i].path /\ (item.available => db.node[i].state = "indexed")
    BY <2>2 DEF Item, Available
  <2>6. db.node[i].state = "indexed" /\ db.node[i].path \notin DOMAIN Shown(disk)
    BY <2>1, <2>5
  <2>7. ~Tells(Shown(disk), db.node[i], db.node[i].path) BY <2>6 DEF Tells
  <2>8. i \in excused BY <2>1, <2>3, <2>4, <2>7 DEF RightBut
  <2>. QED BY <2>5, <2>8
<1>. QED BY <1>1, Invariant1, Invariant3, PTL

\* What the listing of a refreshed directory shows
LEMMA ListingIs ==
    ASSUME StateOK1, NEW path, Listed(db, disk, path)
    PROVE  {<<item.path, item.dir>> : item \in {x \in ListChildren(path) : x.available}}
             = {<<p, Seen[p] = "dir">> : p \in Entries(Seen, path)}
<1>. PICK s : s = Shown(disk) OBVIOUS
<1>1. TablesOK(db) /\ Seen = s BY SeenIs DEF StateOK1
<1>2. ASSUME NEW i \in Children(db, Find(db, path)), db.node[i].state = "indexed"
      PROVE  /\ db.node[i].path \in Entries(s, path)
             /\ <<Item(i).path, Item(i).dir>> = <<db.node[i].path, s[db.node[i].path] = "dir">>
  <2>1. i \in DOMAIN db.node BY DEF Children
  <2>2. db.node[i].kind \in DirKinds \cup {"file"} /\ "file" \notin DirKinds
    BY <1>1, <2>1, RowFacts DEF DirKinds
  <2>3. db.node[i].path \in Entries(s, path) /\ (db.node[i].kind = "file" <=> s[db.node[i].path] # "dir")
    BY <1>2 DEF Listed
  <2>4. IsDir(db, i) <=> s[db.node[i].path] = "dir" BY <2>2, <2>3 DEF IsDir
  <2>5. Item(i).path = db.node[i].path /\ Item(i).dir = IsDir(db, i) BY DEF Item
  <2>6. IsDir(db, i) = (s[db.node[i].path] = "dir") BY <2>4 DEF IsDir
  <2>. QED BY <2>3, <2>5, <2>6
<1>3. ASSUME NEW item \in ListChildren(path), item.available
      PROVE  <<item.path, item.dir>> \in {<<p, s[p] = "dir">> : p \in Entries(s, path)}
  <2>1. PICK i \in Children(db, Find(db, path)) : item = Item(i)
    BY DEF ListChildren
  <2>2. db.node[i].state = "indexed" BY <1>3, <2>1 DEF Item, Available
  <2>. QED BY <1>2, <2>1, <2>2
<1>4. ASSUME NEW p \in Entries(s, path)
      PROVE  \E item \in ListChildren(path) : item.available /\ <<item.path, item.dir>> = <<p, s[p] = "dir">>
  <2>1. PICK i \in Children(db, Find(db, path)) : db.node[i].path = p /\ db.node[i].state = "indexed"
    BY DEF Listed
  <2>2. Item(i) \in ListChildren(path) /\ Item(i).available
    BY <2>1 DEF ListChildren, Item, Available
  <2>. QED BY <1>2, <2>1, <2>2
<1>. QED BY <1>1, <1>3, <1>4

\* A request that is answered with success has left storage and tree in agreement at
\* its paths, and the listing of a refreshed directory shows just what it holds.
THEOREM SuccessMeansBoth == Spec => []SuccessIsBoth
<1>1. ASSUME StateOK1, StateOK3 PROVE SuccessIsBoth
  <2>. SUFFICES ASSUME req.pc = "ok" PROVE SuccessIsBoth BY DEF SuccessIsBoth
  <2>1. TablesOK(db) /\ DiskOK(disk, buckets) /\ Seen = Shown(disk) /\ RightBut(db, disk, excused, {})
    BY <1>1, SeenIs, BehindFacts DEF StateOK1
  <2>2. Finished(req, db, disk) BY <1>1 DEF StateOK3, Behind
  <2>3. CASE req.op = "refresh"
    BY <2>2, <2>3, <1>1, ListingIs DEF Finished, SuccessIsBoth
  <2>4. CASE req.op # "refresh"
    <3>1. ASSUME NEW p \in (IF req.op = "copy" THEN {} ELSE {req.old}) \cup {req.new}
          PROVE  Agrees(p) \/ Find(db, p) \in excused
      <4>1. p # Root /\ (Find(db, p) = NoId => p \notin DOMAIN Shown(disk))
        BY <2>2, <2>4, <3>1 DEF Finished
      <4>2. PICK i : i = Find(db, p) OBVIOUS
      <4>3. CASE i = NoId BY <2>1, <4>1, <4>2, <4>3 DEF Agrees, Exists
      <4>4. CASE i # NoId /\ i \notin excused
        BY <2>1, <4>2, <4>4, FindFacts, <4>1, RightTells DEF RightBut, Agrees
      <4>. QED BY <4>2, <4>3, <4>4
    <3>. QED BY <2>4, <3>1 DEF SuccessIsBoth
  <2>. QED BY <2>3, <2>4
<1>. QED BY <1>1, Invariant1, Invariant3, PTL
=============================================================================
